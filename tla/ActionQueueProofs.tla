------------------------- MODULE ActionQueueProofs -------------------------
(***************************************************************************)
(* Theorems about the action queue, for every number of registers, values, *)
(* call targets and slots.                                                 *)
(***************************************************************************)
EXTENDS ActionQueue, WellFoundedInduction, TLAPS

\* Slot arithmetic: an index taken modulo QSIZE is a slot.
LEMMA ModSlot == \A n \in Nat : n % QSIZE \in Slot
  BY QSizeAssumption DEF Slot

\* The slot of a queued write is a slot.
LEMMA AttimeSlot ==
  ASSUME PD_pending \in Slot, NEW lat \in Latency
  PROVE  Attime(lat) \in Slot
  <1>1. PD_pending + lat - 1 \in Nat
    BY QSizeAssumption, MaxLatAssumption DEF Slot, Latency
  <1> QED BY <1>1, ModSlot DEF Attime

\* Every nonempty set of naturals has a least element.
LEMMA HasMin == \A T \in SUBSET Nat : T # {} => \E x \in T : \A y \in T : x <= y
  <1> SUFFICES ASSUME NEW T \in SUBSET Nat, T # {} PROVE \E x \in T : \A y \in T : x <= y
    OBVIOUS
  <1> DEFINE R == OpToRel(<, Nat)
  <1>1. IsWellFoundedOn(R, Nat)
    BY NatLessThanWellFounded
  <1>2. \E x \in T : \A y \in T : ~ (<<y, x>> \in R)
    <2> HIDE DEF R
    <2> QED BY <1>1, WFMin
  <1>3. \A x, y \in Nat : <<y, x>> \in R <=> y < x
    BY DEF OpToRel
  <1> HIDE DEF R
  <1>4. PICK x \in T : \A y \in T : ~ (<<y, x>> \in R)
    BY <1>2
  <1>5. \A y \in T : x <= y
    <2> TAKE y \in T
    <2>1. x \in Nat /\ y \in Nat /\ ~(<<y, x>> \in R)
      BY <1>4
    <2>2. ~(y < x)
      BY <1>3, <2>1
    <2> QED BY <2>1, <2>2
  <1> QED BY <1>5

\* A cell that is written in a slot has a last write there.
LEMMA LastExists ==
  ASSUME NEW s \in Seq(Move), NEW c, Writes(s, c) # {}
  PROVE  \E i \in Writes(s, c) : \A j \in Writes(s, c) : j <= i
  <1> DEFINE T == {Len(s) - i : i \in Writes(s, c)}
  <1>1. T \in SUBSET Nat /\ T # {}
    BY DEF Writes
  <1>2. PICK x \in T : \A y \in T : x <= y
    <2> HIDE DEF T
    <2> QED BY <1>1, HasMin
  <1>3. PICK i \in Writes(s, c) : x = Len(s) - i
    BY <1>2
  <1>4. \A j \in Writes(s, c) : Len(s) - i <= Len(s) - j
    BY <1>2, <1>3
  <1> QED BY <1>4 DEF Writes

\* Committing well-typed moves to a well-typed memory gives a well-typed one.
LEMMA CommittedType ==
  ASSUME NEW s \in Seq(Move), NEW m \in [Cell -> Word]
  PROVE  Committed(s, m) \in [Cell -> Word]
  <1> SUFFICES ASSUME NEW c \in Cell, Writes(s, c) # {}
               PROVE  s[LastMove(s, c)].val \in Word
    BY DEF Committed
  <1>1. \E i \in Writes(s, c) : \A j \in Writes(s, c) : j <= i
    BY LastExists
  <1>2. LastMove(s, c) \in 1 .. Len(s)
    BY <1>1 DEF LastMove, Writes
  <1>3. s[LastMove(s, c)] \in Move
    BY <1>2
  <1> QED BY <1>3 DEF Move
\* The moves the queue is given are well typed.
LEMMA MoveType ==
  /\ \A r \in Reg, p \in {"lo", "hi"}, v \in Val : [reg |-> <<r, p>>, val |-> v] \in Move
  /\ \A r \in Reg : [reg |-> Flag(r), val |-> READY] \in Move
  <1>1. \A r \in Reg, p \in {"lo", "hi"} : <<r, p>> \in Cell
    BY DEF Cell, Data
  <1>2. \A r \in Reg : Flag(r) \in Cell
    BY DEF Cell
  <1>3. READY \in Word /\ Val \subseteq Word
    BY DEF Word
  <1> QED BY <1>1, <1>2, <1>3 DEF Move

\* Queueing well-typed moves keeps the types.
LEMMA QueueType ==
  ASSUME TypeOK, NEW r \in Reg, NEW ws \in Seq(Move), NEW lat \in Latency,
         Queue(r, ws, lat)
  PROVE  TypeOK'
  <1>1. Wakeup(r) \in Seq(Move)
    BY MoveType DEF Wakeup
  <1> DEFINE ms == ws \o Wakeup(r)
  <1>2. ms \in Seq(Move)
    BY <1>1
  <1>3. Attime(lat) \in Slot
    BY AttimeSlot DEF TypeOK
  <1>4. Flag(r) \in Cell
    BY DEF Cell
  <1> HIDE DEF ms
  <1>5. /\ moves' = [moves EXCEPT ![Attime(lat)] = @ \o ms]
        /\ Len(moves[Attime(lat)]) + Len(ms) <= MAXWRITE
    BY DEF Queue, ms
  <1>6. /\ moves' \in [Slot -> Seq(Move)]
        /\ \A s \in Slot : Len(moves'[s]) <= MAXWRITE
    BY <1>2, <1>3, <1>5 DEF TypeOK
  <1> QED BY <1>4, <1>6 DEF Queue, TypeOK, Word

\* The first state has the types, and every step of the queue keeps them.
LEMMA TypeInit == Init => TypeOK
  BY QSizeAssumption, MaxWriteAssumption, ValAssumption
  DEF Init, PD_initialize_queue, TypeOK, Slot, Cell, Word, READY, BUSY

LEMMA TypeStep ==
  ASSUME TypeOK, [Next]_qvars
  PROVE  TypeOK'
  <1>1. ASSUME NEW r \in Reg, NEW v \in Val, NEW lat \in Latency,
               PD_delay(r, v, lat)
        PROVE  TypeOK'
    <2> DEFINE ws == <<[reg |-> <<r, "lo">>, val |-> v]>>
    <2>1. ws \in Seq(Move)
      BY MoveType
    <2> HIDE DEF ws
    <2> QED BY <1>1, <2>1, QueueType DEF PD_delay, ws
  <1>2. ASSUME NEW r \in Reg, NEW v \in Val, NEW w \in Val,
               NEW lat \in Latency, PD_delay2x(r, v, w, lat)
        PROVE  TypeOK'
    <2> DEFINE ws == <<[reg |-> <<r, "lo">>, val |-> v],
                       [reg |-> <<r, "hi">>, val |-> w]>>
    <2>1. ws \in Seq(Move)
      BY MoveType
    <2> HIDE DEF ws
    <2> QED BY <1>2, <2>1, QueueType DEF PD_delay2x, ws
  <1>3. ASSUME NEW t \in Target, NEW lat \in Latency, PD_delay_call(t, lat)
        PROVE  TypeOK'
    BY <1>3, AttimeSlot DEF PD_delay_call, TypeOK
  <1>4. CASE PD_execute_instructions
    <2>1. mem' \in [Cell -> Word]
      BY <1>4, CommittedType DEF PD_execute_instructions, TypeOK
    <2>2. PD_pending' \in Slot
      BY <1>4, ModSlot DEF PD_execute_instructions, NextSlot, TypeOK, Slot
    <2> QED BY <1>4, <2>1, <2>2, MaxWriteAssumption
            DEF PD_execute_instructions, DueCall, TypeOK
  <1>5. ASSUME NEW f \in Target, PD_is_simulator_call(f)
        PROVE  TypeOK'
    BY <1>5 DEF PD_is_simulator_call, TypeOK
  <1>6. CASE UNCHANGED qvars
    BY <1>6 DEF qvars, TypeOK
  <1> QED BY <1>1, <1>2, <1>3, <1>4, <1>5, <1>6 DEF Next

\* The queue's variables keep their types and no slot outgrows its room.
THEOREM TypeCorrect == Spec => []TypeOK
  <1>1. Init => TypeOK
    BY TypeInit
  <1>2. TypeOK /\ [Next]_qvars => TypeOK'
    BY TypeStep
  <1> QED BY <1>1, <1>2, PTL DEF Spec

\* Slot arithmetic: what taking an index below twice QSIZE modulo QSIZE does.
LEMMA ModCases ==
  \A n \in 0 .. 2 * QSIZE - 1 :
    n % QSIZE = IF n < QSIZE THEN n ELSE n - QSIZE
  <1> TAKE n \in 0 .. 2 * QSIZE - 1
  <1> QED BY QSizeAssumption

\* The slots at different distances from the head are different, and moving the
\* head brings each slot one cycle nearer.
LEMMA Distances ==
  ASSUME PD_pending \in Slot
  PROVE  /\ \A d, e \in 0 .. QSIZE - 1 : At(d) = At(e) => d = e
         /\ At(0) = PD_pending
         /\ \A d \in 0 .. QSIZE - 2 : (NextSlot + d) % QSIZE = At(d + 1)
         /\ (NextSlot + QSIZE - 1) % QSIZE = PD_pending
  <1>1. \A d \in 0 .. QSIZE - 1 :
          At(d) = IF PD_pending + d < QSIZE THEN PD_pending + d
                  ELSE PD_pending + d - QSIZE
    BY ModCases, QSizeAssumption DEF Slot, At
  <1>2. NextSlot = IF PD_pending + 1 < QSIZE THEN PD_pending + 1 ELSE 0
    BY ModCases, QSizeAssumption DEF Slot, NextSlot
  <1>3. \A d \in 0 .. QSIZE - 1 :
          (NextSlot + d) % QSIZE = IF NextSlot + d < QSIZE THEN NextSlot + d
                                   ELSE NextSlot + d - QSIZE
    BY <1>2, ModCases, QSizeAssumption DEF Slot
  <1>4. \A d, e \in 0 .. QSIZE - 1 : At(d) = At(e) => d = e
    BY <1>1, QSizeAssumption DEF Slot
  <1>5. At(0) = PD_pending
    BY <1>1, QSizeAssumption DEF Slot
  <1>6. \A d \in 0 .. QSIZE - 2 : (NextSlot + d) % QSIZE = At(d + 1)
    <2> TAKE d \in 0 .. QSIZE - 2
    <2>1. d \in 0 .. QSIZE - 1 /\ d + 1 \in 0 .. QSIZE - 1
      BY QSizeAssumption
    <2>2. At(d + 1) = IF PD_pending + (d + 1) < QSIZE THEN PD_pending + (d + 1)
                      ELSE PD_pending + (d + 1) - QSIZE
      BY <1>1, <2>1
    <2>3. (NextSlot + d) % QSIZE = IF NextSlot + d < QSIZE THEN NextSlot + d
                                   ELSE NextSlot + d - QSIZE
      BY <1>3, <2>1
    <2> QED BY <1>2, <2>1, <2>2, <2>3, QSizeAssumption DEF Slot
  <1>7. (NextSlot + QSIZE - 1) % QSIZE = PD_pending
    <2>1. NextSlot + QSIZE - 1 = NextSlot + (QSIZE - 1) /\ QSIZE - 1 \in 0 .. QSIZE - 1
      BY <1>2, QSizeAssumption DEF Slot
    <2>2. (NextSlot + QSIZE - 1) % QSIZE
            = IF NextSlot + (QSIZE - 1) < QSIZE THEN NextSlot + (QSIZE - 1)
              ELSE NextSlot + (QSIZE - 1) - QSIZE
      BY <1>3, <2>1
    <2> QED BY <1>2, <2>1, <2>2, QSizeAssumption DEF Slot
  <1> QED BY <1>4, <1>5, <1>6, <1>7

\* Distances name slots.
LEMMA AtSlot ==
  ASSUME PD_pending \in Slot
  PROVE  /\ \A d \in Nat : At(d) \in Slot
         /\ NextSlot \in Slot
  <1>1. \A d \in Nat : PD_pending + d \in Nat
    BY QSizeAssumption DEF Slot
  <1> QED BY <1>1, ModSlot DEF At, NextSlot

\* A latency is a distance, and a write of latency lat goes to distance lat - 1.
LEMMA AttimeAt ==
  ASSUME PD_pending \in Slot, NEW lat \in Latency
  PROVE  Attime(lat) = At(lat - 1) /\ lat - 1 \in 0 .. MAXLAT - 1
  <1>1. PD_pending + lat - 1 = PD_pending + (lat - 1)
    BY QSizeAssumption, MaxLatAssumption DEF Slot, Latency
  <1>2. lat - 1 \in 0 .. MAXLAT - 1
    BY MaxLatAssumption DEF Latency
  <1> QED BY <1>1, <1>2 DEF Attime, At

\* A slot beyond the longest latency is not the slot of any write.
LEMMA FarSlot ==
  ASSUME PD_pending \in Slot, NEW lat \in Latency, NEW d \in MAXLAT .. QSIZE - 1
  PROVE  At(d) \in Slot /\ At(d) # Attime(lat)
  <1>1. /\ d \in 0 .. QSIZE - 1
        /\ lat - 1 \in 0 .. QSIZE - 1
        /\ d # lat - 1
    BY QSizeAssumption, MaxLatAssumption DEF Latency
  <1>2. At(d) # At(lat - 1)
    BY <1>1, Distances
  <1>3. PD_pending + d \in Nat
    BY <1>1, QSizeAssumption DEF Slot
  <1> QED BY <1>2, <1>3, AttimeAt, ModSlot DEF At

\* Nothing is far away at the start, and no step of the queue puts it there.
LEMMA BeyondInit ==
  ASSUME Init
  PROVE  NothingBeyondMaxLat
  <1> SUFFICES ASSUME NEW d \in MAXLAT .. QSIZE - 1
               PROVE  moves[At(d)] = <<>> /\ call[At(d)] = NoCall
    BY DEF NothingBeyondMaxLat
  <1>1. d \in Nat /\ PD_pending + d \in Nat
    BY MaxLatAssumption, QSizeAssumption DEF Init, PD_initialize_queue
  <1>2. At(d) \in Slot
    BY <1>1, ModSlot DEF At
  <1> QED BY <1>2 DEF Init, PD_initialize_queue

LEMMA BeyondStep ==
  ASSUME TypeOK, NothingBeyondMaxLat, [Next]_qvars
  PROVE  NothingBeyondMaxLat'
  <1> USE DEF NothingBeyondMaxLat
  <1>1. ASSUME NEW r \in Reg, NEW ws, NEW lat \in Latency, Queue(r, ws, lat)
        PROVE  NothingBeyondMaxLat'
    <2> SUFFICES ASSUME NEW d \in MAXLAT .. QSIZE - 1
                 PROVE  moves'[At(d)'] = <<>> /\ call'[At(d)'] = NoCall
      OBVIOUS
    <2>1. At(d)' = At(d)
      BY <1>1 DEF Queue, At
    <2>2. At(d) # Attime(lat) /\ At(d) \in Slot
      BY FarSlot DEF TypeOK
    <2>3. moves'[At(d)] = moves[At(d)] /\ call' = call
      BY <1>1, <2>2 DEF Queue, TypeOK
    <2> QED BY <2>1, <2>3
  <1>2. ASSUME NEW t \in Target, NEW lat \in Latency, PD_delay_call(t, lat)
        PROVE  NothingBeyondMaxLat'
    <2> SUFFICES ASSUME NEW d \in MAXLAT .. QSIZE - 1
                 PROVE  moves'[At(d)'] = <<>> /\ call'[At(d)'] = NoCall
      OBVIOUS
    <2>1. At(d)' = At(d)
      BY <1>2 DEF PD_delay_call, At
    <2>2. At(d) # Attime(lat) /\ At(d) \in Slot
      BY FarSlot DEF TypeOK
    <2>3. call'[At(d)] = call[At(d)] /\ moves' = moves
      BY <1>2, <2>2 DEF PD_delay_call, TypeOK
    <2> QED BY <2>1, <2>3
  <1>3. CASE PD_execute_instructions
    <2> SUFFICES ASSUME NEW d \in MAXLAT .. QSIZE - 1
                 PROVE  moves'[At(d)'] = <<>> /\ call'[At(d)'] = NoCall
      OBVIOUS
    <2>1. At(d)' = (NextSlot + d) % QSIZE
      BY <1>3 DEF PD_execute_instructions, At
    <2>2. CASE d = QSIZE - 1
      <3>1. At(d)' = PD_pending
        <4>1. NextSlot + QSIZE - 1 = NextSlot + d
          BY <2>2, QSizeAssumption, AtSlot DEF Slot, TypeOK
        <4> QED BY <2>1, <4>1, Distances DEF TypeOK
      <3> QED BY <1>3, <3>1 DEF PD_execute_instructions, TypeOK
    <2>3. CASE d # QSIZE - 1
      <3>1. d \in 0 .. QSIZE - 2 /\ d + 1 \in MAXLAT .. QSIZE - 1 /\ d + 1 \in 0 .. QSIZE - 1
        BY <2>3, MaxLatAssumption, QSizeAssumption
      <3>2. At(d)' = At(d + 1)
        BY <2>1, <3>1, Distances DEF TypeOK
      <3>3. At(d + 1) # PD_pending
        <4>1. 0 \in 0 .. QSIZE - 1 /\ d + 1 # 0
          BY <3>1, QSizeAssumption
        <4> QED BY <3>1, <4>1, Distances DEF TypeOK
      <3>4. At(d + 1) \in Slot
        BY <3>1, AtSlot DEF TypeOK
      <3> QED BY <1>3, <3>1, <3>2, <3>3, <3>4 DEF PD_execute_instructions, TypeOK
    <2> QED BY <2>2, <2>3
  <1>4. ASSUME NEW f \in Target, PD_is_simulator_call(f)
        PROVE  NothingBeyondMaxLat'
    BY <1>4 DEF PD_is_simulator_call, At
  <1>5. CASE UNCHANGED qvars
    BY <1>5 DEF qvars, At
  <1> QED BY <1>1, <1>2, <1>3, <1>4, <1>5 DEF Next, PD_delay, PD_delay2x

\* The circular buffer never wraps onto itself.
THEOREM NothingBeyond == Spec => []NothingBeyondMaxLat
  <1>1. Init => NothingBeyondMaxLat
    BY BeyondInit
  <1>2. TypeOK /\ NothingBeyondMaxLat /\ [Next]_qvars => NothingBeyondMaxLat'
    BY BeyondStep
  <1> QED BY <1>1, <1>2, TypeCorrect, PTL DEF Spec

\* Strengthening of OneWakeup: what is queued for a flag releases it.
FlagMovesReady ==
  \A s \in Slot : \A i \in 1 .. Len(moves[s]) : \A r \in Reg :
    moves[s][i].reg = Flag(r) => moves[s][i].val = READY

WakeupInv == FlagMovesReady /\ OneWakeup

\* Flags of different registers are different cells, and none is a data word.
LEMMA FlagCells ==
  \A r, q \in Reg : /\ Flag(r) \in Cell
                    /\ Flag(r) = Flag(q) => r = q
                    /\ \A p \in {"lo", "hi"} : Flag(r) # <<q, p>>
  <1>1. "pending" # "lo" /\ "pending" # "hi"
    OBVIOUS
  <1> QED BY <1>1 DEF Flag, Cell

LEMMA AddOne == \A n, k \in Nat : n + (k + 1) = n + k + 1
  OBVIOUS

\* What slot a holds after ws was queued in it for r, n moves before it: the old moves,
\* ws, and the READY move when r was free.
Queued(r, ws, a, n, k) ==
  /\ n = Len(moves[a]) /\ k = Len(ws)
  /\ \A s \in Slot \ {a} : moves'[s] = moves[s]
  /\ \A i \in 1 .. n : moves'[a][i] = moves[a][i]
  /\ \A i \in 1 .. k : moves'[a][n + i] = ws[i]
  /\ mem[Flag(r)] = BUSY => Len(moves'[a]) = n + k
  /\ mem[Flag(r)] # BUSY =>
       /\ Len(moves'[a]) = n + k + 1
       /\ n + k + 1 <= MAXWRITE
       /\ moves'[a][n + k + 1] = [reg |-> Flag(r), val |-> READY]

LEMMA QueueContents ==
  ASSUME TypeOK, NEW r \in Reg, NEW ws \in Seq(Move), NEW lat \in Latency,
         Queue(r, ws, lat)
  PROVE  \E a \in Slot : \E n, k \in Nat :
           a = Attime(lat) /\ Queued(r, ws, a, n, k)
  <1>a. PICK a : a = Attime(lat)
    OBVIOUS
  <1>n. PICK n : n = Len(moves[a])
    OBVIOUS
  <1>k. PICK k : k = Len(ws)
    OBVIOUS
  <1> DEFINE ms == ws \o Wakeup(r)
  <1>1. a \in Slot
    BY <1>a, AttimeSlot DEF TypeOK
  <1>2. moves[a] \in Seq(Move) /\ n \in Nat /\ k \in Nat
    BY <1>n, <1>k, <1>1 DEF TypeOK
  <1>3. [reg |-> Flag(r), val |-> READY] \in Move
    BY MoveType
  <1>4. ms \in Seq(Move)
    BY <1>3 DEF Wakeup
  <1>5. \A i \in 1 .. k : ms[i] = ws[i]
    BY <1>k, <1>2, <1>3 DEF Wakeup
  <1>6. /\ mem[Flag(r)] = BUSY => Len(ms) = k
        /\ mem[Flag(r)] # BUSY =>
              Len(ms) = k + 1 /\ ms[k + 1] = [reg |-> Flag(r), val |-> READY]
    BY <1>k, <1>2, <1>3 DEF Wakeup
  <1>7. /\ moves' = [moves EXCEPT ![a] = @ \o ms]
        /\ n + Len(ms) <= MAXWRITE
    BY <1>a, <1>n DEF Queue
  <1>8. k <= Len(ms)
    BY <1>2, <1>6
  <1> HIDE DEF ms
  <1>9. moves'[a] = moves[a] \o ms /\ \A s \in Slot \ {a} : moves'[s] = moves[s]
    BY <1>1, <1>7 DEF TypeOK
  <1>10. Len(moves'[a]) = n + Len(ms)
    BY <1>n, <1>2, <1>4, <1>9
  <1>11. \A i \in 1 .. n : moves'[a][i] = moves[a][i]
    BY <1>n, <1>2, <1>4, <1>9
  <1>12. \A i \in 1 .. Len(ms) : moves'[a][n + i] = ms[i]
    BY <1>n, <1>2, <1>4, <1>9
  <1>13. \A i \in 1 .. k : moves'[a][n + i] = ws[i]
    <2> TAKE i \in 1 .. k
    <2>1. i \in 1 .. Len(ms)
      BY <1>2, <1>4, <1>8
    <2>2. moves'[a][n + i] = ms[i]
      BY <1>12, <2>1
    <2> QED BY <1>5, <2>2
  <1>14. mem[Flag(r)] # BUSY =>
              /\ Len(moves'[a]) = n + k + 1
              /\ n + k + 1 <= MAXWRITE
              /\ moves'[a][n + k + 1] = [reg |-> Flag(r), val |-> READY]
    <2> SUFFICES ASSUME mem[Flag(r)] # BUSY
                 PROVE  /\ Len(moves'[a]) = n + k + 1
                        /\ n + k + 1 <= MAXWRITE
                        /\ moves'[a][n + k + 1] = [reg |-> Flag(r), val |-> READY]
      OBVIOUS
    <2>1. Len(ms) = k + 1 /\ ms[k + 1] = [reg |-> Flag(r), val |-> READY]
      BY <1>6
    <2>2. k + 1 \in 1 .. Len(ms)
      BY <1>2, <2>1
    <2>3. n + (k + 1) = n + k + 1
      BY <1>2, AddOne
    <2>4. moves'[a][n + (k + 1)] = ms[k + 1]
      BY <1>12, <2>2
    <2> QED BY <1>7, <1>10, <2>1, <2>3, <2>4
  <1>15. mem[Flag(r)] = BUSY => Len(moves'[a]) = n + k
    BY <1>6, <1>10
  <1>16. Queued(r, ws, a, n, k)
    BY <1>n, <1>k, <1>9, <1>11, <1>13, <1>14, <1>15 DEF Queued
  <1> QED BY <1>a, <1>1, <1>2, <1>16

\* An index into n moves and k more, with one after them, is in one of the three.
LEMMA IndexCases ==
  \A n, k \in Nat, i \in Nat \ {0} :
    /\ i <= n + k => i \in 1 .. n \/ \E j \in 1 .. k : i = n + j
    /\ i <= n + k + 1 => i <= n + k \/ i = n + k + 1
    /\ i \in 1 .. n => i <= n + k /\ i <= n + k + 1
  <1> TAKE n, k \in Nat, i \in Nat \ {0}
  <1>1. ASSUME i <= n + k, i \notin 1 .. n
        PROVE  \E j \in 1 .. k : i = n + j
    <2>1. i - n \in 1 .. k /\ i = n + (i - n)
      BY <1>1
    <2> QED BY <2>1
  <1> QED BY <1>1

\* Queueing data writes for r queues no READY move but the one for r when r is free.
LEMMA QueueWakeups ==
  ASSUME TypeOK, NEW r \in Reg, NEW ws \in Seq(Move), NEW lat \in Latency,
         Queue(r, ws, lat),
         \A i \in 1 .. Len(ws), q \in Reg : ws[i].reg # Flag(q)
  PROVE  /\ mem[Flag(r)] = BUSY => \A q \in Reg : Wakeups(q)' = Wakeups(q)
         /\ mem[Flag(r)] # BUSY =>
              \E w \in Slot \X (1 .. MAXWRITE) :
                /\ w[1] = Attime(lat)
                /\ \A q \in Reg : Wakeups(q)' = IF q = r THEN Wakeups(q) \cup {w}
                                                ELSE Wakeups(q)
  <1>0. PICK a \in Slot, n \in Nat, k \in Nat :
          a = Attime(lat) /\ Queued(r, ws, a, n, k)
    BY QueueContents
  <1> DEFINE New(s, i, q) == q = r /\ mem[Flag(r)] # BUSY /\ s = a /\ i = n + k + 1
             Old(s, i, q) == i <= Len(moves[s]) /\ moves[s][i].reg = Flag(q)
             Has(s, i, q) == i <= Len(moves'[s]) /\ moves'[s][i].reg = Flag(q)
  <1>1. /\ n = Len(moves[a])
        /\ \A s \in Slot \ {a} : moves'[s] = moves[s]
        /\ \A i \in 1 .. n : moves'[a][i] = moves[a][i]
        /\ \A i \in 1 .. k : moves'[a][n + i] = ws[i] /\ (\A p \in Reg : ws[i].reg # Flag(p))
        /\ mem[Flag(r)] = BUSY => Len(moves'[a]) = n + k
        /\ mem[Flag(r)] # BUSY =>
             /\ Len(moves'[a]) = n + k + 1
             /\ n + k + 1 <= MAXWRITE
             /\ moves'[a][n + k + 1] = [reg |-> Flag(r), val |-> READY]
    BY <1>0 DEF Queued
  <1>2. \A s \in Slot, i \in 1 .. MAXWRITE, q \in Reg :
           Has(s, i, q) <=> Old(s, i, q) \/ New(s, i, q)
    <2> TAKE s \in Slot, i \in 1 .. MAXWRITE, q \in Reg
    <2>1. CASE s # a
      BY <1>1, <2>1
    <2>2. CASE s = a
      <3>1. i \in Nat \ {0} /\ n \in Nat /\ k \in Nat
        BY <1>1, MaxWriteAssumption
      <3>2. i \in 1 .. n => (Has(a, i, q) <=> Old(a, i, q)) /\ ~ New(a, i, q)
        BY <1>1, IndexCases, <3>1
      <3>3. (\E j \in 1 .. k : i = n + j) => ~ Has(a, i, q) /\ ~ Old(a, i, q) /\ ~ New(a, i, q)
        <4> SUFFICES ASSUME NEW j \in 1 .. k, i = n + j
                     PROVE  ~ Has(a, i, q) /\ ~ Old(a, i, q) /\ ~ New(a, i, q)
          OBVIOUS
        <4>1. moves'[a][i] = ws[j] /\ ws[j].reg # Flag(q)
          BY <1>1
        <4>2. ~ (i <= n) /\ i # n + k + 1
          BY <3>1
        <4> QED BY <1>1, <4>1, <4>2
      <3>4. i = n + k + 1 => (Has(a, i, q) <=> New(a, i, q)) /\ ~ Old(a, i, q)
        BY <1>1, IndexCases, <3>1, FlagCells
      <3>5. i > n + k + 1 => ~ Has(a, i, q) /\ ~ Old(a, i, q) /\ ~ New(a, i, q)
        BY <1>1, IndexCases, <3>1
      <3>6. \/ i \in 1 .. n
            \/ \E j \in 1 .. k : i = n + j
            \/ i = n + k + 1
            \/ i > n + k + 1
        <4>1. ~(i > n + k + 1) => i <= n + k + 1
          BY <3>1
        <4>2. i <= n + k + 1 => i <= n + k \/ i = n + k + 1
          BY <3>1, IndexCases
        <4>3. i <= n + k => i \in 1 .. n \/ \E j \in 1 .. k : i = n + j
          BY <3>1, IndexCases
        <4> QED BY <4>1, <4>2, <4>3
      <3> HIDE DEF Has, Old, New
      <3> QED BY <2>2, <3>2, <3>3, <3>4, <3>5, <3>6
    <2> QED BY <2>1, <2>2
  <1>3. \A q \in Reg :
          /\ Wakeups(q) = {w \in Slot \X (1 .. MAXWRITE) : Old(w[1], w[2], q)}
          /\ Wakeups(q)' = {w \in Slot \X (1 .. MAXWRITE) : Has(w[1], w[2], q)}
    BY DEF Wakeups
  <1>4. mem[Flag(r)] # BUSY => <<a, n + k + 1>> \in Slot \X (1 .. MAXWRITE)
    BY <1>1
  <1>5. \A q \in Reg : ~(q = r /\ mem[Flag(r)] # BUSY) => Wakeups(q)' = Wakeups(q)
    <2> SUFFICES ASSUME NEW q \in Reg, ~(q = r /\ mem[Flag(r)] # BUSY)
                 PROVE  Wakeups(q)' = Wakeups(q)
      OBVIOUS
    <2>1. \A w \in Slot \X (1 .. MAXWRITE) : Has(w[1], w[2], q) <=> Old(w[1], w[2], q)
      BY <1>2
    <2> HIDE DEF Has, Old
    <2> QED BY <1>3, <2>1
  <1>6. mem[Flag(r)] # BUSY => Wakeups(r)' = Wakeups(r) \cup {<<a, n + k + 1>>}
    <2> SUFFICES ASSUME mem[Flag(r)] # BUSY
                 PROVE  Wakeups(r)' = Wakeups(r) \cup {<<a, n + k + 1>>}
      OBVIOUS
    <2> DEFINE i0 == n + k + 1
    <2>1. \A w \in Slot \X (1 .. MAXWRITE) :
            Has(w[1], w[2], r) <=> Old(w[1], w[2], r) \/ w = <<a, i0>>
      BY <1>2
    <2>2. <<a, i0>> \in Slot \X (1 .. MAXWRITE)
      BY <1>4
    <2> HIDE DEF Has, Old, New, i0
    <2>3. Wakeups(r)' = Wakeups(r) \cup {<<a, i0>>}
      BY <1>3, <2>1, <2>2
    <2> QED BY <2>3 DEF i0
  <1>7. <<a, n + k + 1>>[1] = Attime(lat)
    BY <1>0
  <1>8. mem[Flag(r)] # BUSY =>
          \A q \in Reg : Wakeups(q)' = IF q = r THEN Wakeups(q) \cup {<<a, n + k + 1>>}
                                        ELSE Wakeups(q)
    BY <1>5, <1>6
  <1> QED BY <1>4, <1>5, <1>7, <1>8

\* What is queued with a data write for a flag releases it.
LEMMA QueueFlags ==
  ASSUME TypeOK, FlagMovesReady, NEW r \in Reg, NEW ws \in Seq(Move), NEW lat \in Latency,
         Queue(r, ws, lat),
         \A i \in 1 .. Len(ws), q \in Reg : ws[i].reg # Flag(q)
  PROVE  FlagMovesReady'
  <1> SUFFICES ASSUME NEW s \in Slot, NEW i \in 1 .. Len(moves'[s]), NEW q \in Reg,
                      moves'[s][i].reg = Flag(q)
               PROVE  moves'[s][i].val = READY
    BY DEF FlagMovesReady
  <1>1. PICK a \in Slot, n \in Nat, k \in Nat : Queued(r, ws, a, n, k)
    BY QueueContents
  <1>2. CASE s # a
    <2>1. moves'[s] = moves[s]
      BY <1>1, <1>2 DEF Queued
    <2>2. i \in 1 .. Len(moves[s]) /\ moves[s][i].reg = Flag(q)
      BY <2>1
    <2>3. moves[s][i].val = READY
      BY <2>2 DEF FlagMovesReady
    <2> QED BY <2>1, <2>3
  <1>3. CASE s = a
    <2>1. i \in Nat \ {0}
      BY QueueType DEF TypeOK
    <2>2. i \in 1 .. n => moves'[a][i] = moves[a][i] /\ n = Len(moves[a])
      BY <1>1 DEF Queued
    <2>3. i \notin 1 .. n => ~ \E j \in 1 .. k : i = n + j
      <3> SUFFICES ASSUME NEW j \in 1 .. k, i = n + j PROVE FALSE
        OBVIOUS
      <3> QED BY <1>1, <1>3 DEF Queued
    <2>4. i \notin 1 .. n => moves'[a][i].val = READY
      <3> SUFFICES ASSUME i \notin 1 .. n PROVE moves'[a][i].val = READY
        OBVIOUS
      <3>1. ~(i <= n + k)
        BY <1>1, <2>1, <2>3, IndexCases
      <3>2. mem[Flag(r)] # BUSY /\ i = n + k + 1
        BY <1>1, <1>3, <2>1, <3>1 DEF Queued
      <3> QED BY <1>1, <3>2 DEF Queued
    <2> QED BY <1>3, <2>2, <2>4 DEF FlagMovesReady
  <1> QED BY <1>2, <1>3

\* Queueing data writes keeps WakeupInv.
LEMMA QueueWakeupInv ==
  ASSUME TypeOK, WakeupInv, NEW r \in Reg, NEW ws \in Seq(Move), NEW lat \in Latency,
         Queue(r, ws, lat),
         \A i \in 1 .. Len(ws), q \in Reg : ws[i].reg # Flag(q)
  PROVE  WakeupInv'
  <1>1. FlagMovesReady'
    BY QueueFlags DEF WakeupInv
  <1>2. OneWakeup'
    <2>1. mem' = [mem EXCEPT ![Flag(r)] = BUSY]
      BY DEF Queue
    <2>2. /\ mem'[Flag(r)] = BUSY
          /\ \A q \in Reg \ {r} : mem'[Flag(q)] = mem[Flag(q)]
      BY <2>1, FlagCells DEF TypeOK
    <2>3. CASE mem[Flag(r)] = BUSY
      <3>1. \A q \in Reg : Wakeups(q)' = Wakeups(q)
        BY <2>3, QueueWakeups
      <3> QED BY <2>2, <2>3, <3>1 DEF WakeupInv, OneWakeup
    <2>4. CASE mem[Flag(r)] # BUSY
      <3>1. PICK w : \A q \in Reg :
              Wakeups(q)' = IF q = r THEN Wakeups(q) \cup {w} ELSE Wakeups(q)
        BY <2>4, QueueWakeups
      <3>2. Wakeups(r) = {}
        BY <2>4 DEF WakeupInv, OneWakeup
      <3>3. Wakeups(r)' = {w}
        BY <3>1, <3>2
      <3> QED BY <2>2, <3>1, <3>3 DEF WakeupInv, OneWakeup
    <2> QED BY <2>3, <2>4
  <1> QED BY <1>1, <1>2 DEF WakeupInv

\* The moves of register r that wait in the head slot.
LEMMA HeadWrites ==
  ASSUME TypeOK, NEW r \in Reg
  PROVE  Writes(moves[PD_pending], Flag(r)) = {} <=>
         \A w \in Wakeups(r) : w[1] # PD_pending
  <1>1. PD_pending \in Slot /\ Len(moves[PD_pending]) \in Nat
        /\ Len(moves[PD_pending]) <= MAXWRITE
    BY DEF TypeOK
  <1>2. ASSUME NEW i \in Writes(moves[PD_pending], Flag(r))
        PROVE  <<PD_pending, i>> \in Wakeups(r)
    BY <1>1, MaxWriteAssumption DEF Writes, Wakeups
  <1>3. ASSUME NEW w \in Wakeups(r), w[1] = PD_pending
        PROVE  w[2] \in Writes(moves[PD_pending], Flag(r))
    BY <1>1, <1>3, MaxWriteAssumption DEF Writes, Wakeups
  <1> QED BY <1>2, <1>3

\* A clock takes the READY moves of the head slot out of the queue, and releases
\* exactly the registers they were for.
LEMMA ClockReleases ==
  ASSUME TypeOK, FlagMovesReady, PD_execute_instructions
  PROVE  /\ FlagMovesReady'
         /\ \A r \in Reg :
              /\ Wakeups(r)' = {w \in Wakeups(r) : w[1] # PD_pending}
              /\ mem'[Flag(r)] = IF \E w \in Wakeups(r) : w[1] = PD_pending
                                 THEN READY ELSE mem[Flag(r)]
  <1>1. /\ moves' = [moves EXCEPT ![PD_pending] = <<>>]
        /\ mem' = Committed(moves[PD_pending], mem)
        /\ PD_pending \in Slot
        /\ moves'[PD_pending] = <<>>
        /\ \A s \in Slot \ {PD_pending} : moves'[s] = moves[s]
    BY DEF PD_execute_instructions, TypeOK
  <1>2. FlagMovesReady'
    BY <1>1 DEF FlagMovesReady
  <1>3. ASSUME NEW r \in Reg
        PROVE  /\ Wakeups(r)' = {w \in Wakeups(r) : w[1] # PD_pending}
               /\ mem'[Flag(r)] = IF \E w \in Wakeups(r) : w[1] = PD_pending
                                  THEN READY ELSE mem[Flag(r)]
    <2>1. Wakeups(r)' = {w \in Wakeups(r) : w[1] # PD_pending}
      BY <1>1, MaxWriteAssumption DEF Wakeups
    <2>2. Writes(moves[PD_pending], Flag(r)) = {} => mem'[Flag(r)] = mem[Flag(r)]
      BY <1>1, FlagCells DEF Committed
    <2>3. Writes(moves[PD_pending], Flag(r)) # {} => mem'[Flag(r)] = READY
      <3> SUFFICES ASSUME Writes(moves[PD_pending], Flag(r)) # {}
                   PROVE  mem'[Flag(r)] = READY
        OBVIOUS
      <3> DEFINE last == LastMove(moves[PD_pending], Flag(r))
      <3>1. last \in Writes(moves[PD_pending], Flag(r))
        <4>1. moves[PD_pending] \in Seq(Move)
          BY <1>1 DEF TypeOK
        <4> QED BY <4>1, LastExists DEF LastMove
      <3>2. mem'[Flag(r)] = moves[PD_pending][last].val
        BY <1>1, FlagCells DEF Committed
      <3> HIDE DEF last
      <3> QED BY <1>1, <3>1, <3>2 DEF Writes, FlagMovesReady
    <2> QED BY <2>1, <2>2, <2>3, HeadWrites
  <1> QED BY <1>2, <1>3

LEMMA ClockWakeupInv ==
  ASSUME TypeOK, WakeupInv, PD_execute_instructions
  PROVE  WakeupInv'
  <1>1. READY # BUSY
    BY DEF READY, BUSY
  <1>2. OneWakeup'
    <2> SUFFICES ASSUME NEW r \in Reg
                 PROVE  IF mem'[Flag(r)] = BUSY
                        THEN \E w \in Wakeups(r)' : Wakeups(r)' = {w}
                        ELSE Wakeups(r)' = {}
      BY DEF OneWakeup
    <2>1. /\ Wakeups(r)' = {w \in Wakeups(r) : w[1] # PD_pending}
          /\ mem'[Flag(r)] = IF \E w \in Wakeups(r) : w[1] = PD_pending
                             THEN READY ELSE mem[Flag(r)]
      BY ClockReleases DEF WakeupInv
    <2>2. IF mem[Flag(r)] = BUSY
          THEN \E w \in Wakeups(r) : Wakeups(r) = {w}
          ELSE Wakeups(r) = {}
      BY DEF WakeupInv, OneWakeup
    <2> QED BY <1>1, <2>1, <2>2
  <1> QED BY <1>2, ClockReleases DEF WakeupInv

\* The strengthened invariant holds always.
LEMMA WakeupInvariant == Spec => []WakeupInv
  <1>1. Init => WakeupInv
    <2> SUFFICES ASSUME Init PROVE WakeupInv
      OBVIOUS
    <2>1. \A s \in Slot : moves[s] = <<>>
      BY DEF Init, PD_initialize_queue
    <2>2. \A r \in Reg : Wakeups(r) = {}
      BY <2>1, MaxWriteAssumption DEF Wakeups
    <2>3. \A r \in Reg : mem[Flag(r)] # BUSY
      <3> TAKE r \in Reg
      <3>1. Flag(r) \in Cell
        BY FlagCells
      <3>2. mem[Flag(r)] = 0
        BY <3>1 DEF Init
      <3> QED BY <3>2 DEF BUSY
    <2> QED BY <2>1, <2>2, <2>3 DEF WakeupInv, FlagMovesReady, OneWakeup
  <1>2. TypeOK /\ WakeupInv /\ [Next]_qvars => WakeupInv'
    <2> SUFFICES ASSUME TypeOK, WakeupInv, [Next]_qvars
                 PROVE  WakeupInv'
      OBVIOUS
    <2>1. ASSUME NEW r \in Reg, NEW v \in Val, NEW lat \in Latency,
                 PD_delay(r, v, lat)
          PROVE  WakeupInv'
      <3> DEFINE ws == <<[reg |-> <<r, "lo">>, val |-> v]>>
      <3>1. ws \in Seq(Move)
        BY MoveType
      <3>2. \A i \in 1 .. Len(ws), q \in Reg : ws[i].reg # Flag(q)
        BY FlagCells
      <3>3. Queue(r, ws, lat)
        BY <2>1 DEF PD_delay
      <3> HIDE DEF ws
      <3> QED BY <3>1, <3>2, <3>3, QueueWakeupInv
    <2>2. ASSUME NEW r \in Reg, NEW v \in Val, NEW w \in Val,
                 NEW lat \in Latency, PD_delay2x(r, v, w, lat)
          PROVE  WakeupInv'
      <3> DEFINE ws == <<[reg |-> <<r, "lo">>, val |-> v],
                         [reg |-> <<r, "hi">>, val |-> w]>>
      <3>1. ws \in Seq(Move)
        BY MoveType
      <3>2. \A i \in 1 .. Len(ws), q \in Reg : ws[i].reg # Flag(q)
        <4> TAKE i \in 1 .. Len(ws), q \in Reg
        <4>1. i = 1 \/ i = 2
          OBVIOUS
        <4> QED BY <4>1, FlagCells
      <3>3. Queue(r, ws, lat)
        BY <2>2 DEF PD_delay2x
      <3> HIDE DEF ws
      <3> QED BY <3>1, <3>2, <3>3, QueueWakeupInv
    <2>3. CASE PD_execute_instructions
      BY <2>3, ClockWakeupInv
    <2>4. ASSUME UNCHANGED <<moves, mem>>
          PROVE  WakeupInv'
      <3>1. \A r \in Reg : Wakeups(r)' = Wakeups(r)
        BY <2>4 DEF Wakeups
      <3> QED BY <2>4, <3>1 DEF WakeupInv, FlagMovesReady, OneWakeup
    <2>5. ASSUME NEW t \in Target, NEW lat \in Latency, PD_delay_call(t, lat)
          PROVE  WakeupInv'
      BY <2>4, <2>5 DEF PD_delay_call
    <2>6. ASSUME NEW f \in Target, PD_is_simulator_call(f)
          PROVE  WakeupInv'
      BY <2>4, <2>6 DEF PD_is_simulator_call
    <2>7. CASE UNCHANGED qvars
      BY <2>4, <2>7 DEF qvars
    <2> QED BY <2>1, <2>2, <2>3, <2>5, <2>6, <2>7 DEF Next
  <1> QED BY <1>1, <1>2, TypeCorrect, PTL DEF Spec

\* A busy register has exactly one READY move in the queue and a free one none, whatever
\* order writes of different latencies come in (PD_delay, PD_execute_instructions).
THEOREM OneWakeupAlways == Spec => []OneWakeup
  <1>1. WakeupInv => OneWakeup
    BY DEF WakeupInv
  <1> QED BY <1>1, WakeupInvariant, PTL

\* Queueing moves of which the last one writes a word of r keeps WakeupFollowsWrite.
LEMMA QueueFollows ==
  ASSUME TypeOK, WakeupFollowsWrite, NEW r \in Reg, NEW ws \in Seq(Move),
         NEW lat \in Latency, Queue(r, ws, lat), Len(ws) > 0,
         \A i \in 1 .. Len(ws), q \in Reg : ws[i].reg # Flag(q),
         ws[Len(ws)].reg \in {<<r, "lo">>, <<r, "hi">>}
  PROVE  WakeupFollowsWrite'
  <1> SUFFICES ASSUME NEW q \in Reg, NEW s \in Slot, NEW i \in 1 .. MAXWRITE,
                      i <= Len(moves'[s]), moves'[s][i].reg = Flag(q)
               PROVE  i > 1 /\ moves'[s][i - 1].reg \in {<<q, "lo">>, <<q, "hi">>}
    BY DEF WakeupFollowsWrite, Wakeups
  <1>1. PICK a \in Slot, n \in Nat, k \in Nat : Queued(r, ws, a, n, k)
    BY QueueContents
  <1>2. ASSUME i <= Len(moves[s]), moves[s][i].reg = Flag(q)
        PROVE  i > 1 /\ moves[s][i - 1].reg \in {<<q, "lo">>, <<q, "hi">>}
    <2>1. <<s, i>> \in Wakeups(q)
      BY <1>2 DEF Wakeups
    <2> QED BY <2>1 DEF WakeupFollowsWrite
  <1>3. CASE s # a
    BY <1>1, <1>2, <1>3 DEF Queued
  <1>4. CASE s = a
    <2>1. i \in Nat \ {0}
      BY MaxWriteAssumption
    <2>2. CASE i \in 1 .. n
      <3>1. i <= Len(moves[a]) /\ moves'[a][i] = moves[a][i]
        BY <1>1, <2>2 DEF Queued
      <3>2. i > 1 /\ moves[a][i - 1].reg \in {<<q, "lo">>, <<q, "hi">>}
        BY <1>2, <1>4, <3>1
      <3>3. i - 1 \in 1 .. n
        BY <2>2, <3>2
      <3>4. moves'[a][i - 1] = moves[a][i - 1]
        BY <1>1, <3>3 DEF Queued
      <3> QED BY <1>4, <3>2, <3>4
    <2>3. CASE i \notin 1 .. n
      <3>1. ~ \E j \in 1 .. k : i = n + j
        <4> SUFFICES ASSUME NEW j \in 1 .. k, i = n + j PROVE FALSE
          OBVIOUS
        <4> QED BY <1>1, <1>4 DEF Queued
      <3>2. ~(i <= n + k)
        BY <2>1, <2>3, <3>1, IndexCases
      <3>3. mem[Flag(r)] # BUSY /\ i = n + k + 1
        BY <1>1, <1>4, <2>1, <3>2 DEF Queued
      <3>4. q = r
        BY <1>1, <1>4, <3>3, FlagCells DEF Queued
      <3>5. k > 0 /\ ws[k].reg \in {<<r, "lo">>, <<r, "hi">>}
        BY <1>1 DEF Queued
      <3>6. k \in 1 .. k /\ i - 1 = n + k /\ i > 1
        BY <3>3, <3>5
      <3>7. moves'[a][i - 1] = ws[k]
        BY <1>1, <3>6 DEF Queued
      <3> QED BY <1>4, <3>4, <3>5, <3>6, <3>7
    <2> QED BY <2>2, <2>3
  <1> QED BY <1>3, <1>4

\* A READY move sits right behind a write of its own register (PD_delay, PD_delay2x).
THEOREM WakeupFollows == Spec => []WakeupFollowsWrite
  <1>1. Init => WakeupFollowsWrite
    BY DEF Init, PD_initialize_queue, WakeupFollowsWrite, Wakeups
  <1>2. TypeOK /\ WakeupFollowsWrite /\ [Next]_qvars => WakeupFollowsWrite'
    <2> SUFFICES ASSUME TypeOK, WakeupFollowsWrite, [Next]_qvars
                 PROVE  WakeupFollowsWrite'
      OBVIOUS
    <2>1. ASSUME NEW r \in Reg, NEW v \in Val, NEW lat \in Latency,
                 PD_delay(r, v, lat)
          PROVE  WakeupFollowsWrite'
      <3> DEFINE ws == <<[reg |-> <<r, "lo">>, val |-> v]>>
      <3>1. ws \in Seq(Move) /\ Len(ws) > 0
        BY MoveType
      <3>2. \A i \in 1 .. Len(ws), q \in Reg : ws[i].reg # Flag(q)
        BY FlagCells
      <3>3. ws[Len(ws)].reg \in {<<r, "lo">>, <<r, "hi">>}
        OBVIOUS
      <3>4. Queue(r, ws, lat)
        BY <2>1 DEF PD_delay
      <3> HIDE DEF ws
      <3> QED BY <3>1, <3>2, <3>3, <3>4, QueueFollows
    <2>2. ASSUME NEW r \in Reg, NEW v \in Val, NEW w \in Val,
                 NEW lat \in Latency, PD_delay2x(r, v, w, lat)
          PROVE  WakeupFollowsWrite'
      <3> DEFINE ws == <<[reg |-> <<r, "lo">>, val |-> v],
                         [reg |-> <<r, "hi">>, val |-> w]>>
      <3>1. ws \in Seq(Move) /\ Len(ws) > 0
        BY MoveType
      <3>2. \A i \in 1 .. Len(ws), q \in Reg : ws[i].reg # Flag(q)
        <4> TAKE i \in 1 .. Len(ws), q \in Reg
        <4>1. i = 1 \/ i = 2
          OBVIOUS
        <4> QED BY <4>1, FlagCells
      <3>3. ws[Len(ws)].reg \in {<<r, "lo">>, <<r, "hi">>}
        OBVIOUS
      <3>4. Queue(r, ws, lat)
        BY <2>2 DEF PD_delay2x
      <3> HIDE DEF ws
      <3> QED BY <3>1, <3>2, <3>3, <3>4, QueueFollows
    <2>3. CASE PD_execute_instructions
      <3> SUFFICES ASSUME NEW q \in Reg, NEW s \in Slot, NEW i \in 1 .. MAXWRITE,
                          i <= Len(moves'[s]), moves'[s][i].reg = Flag(q)
                   PROVE  i > 1 /\ moves'[s][i - 1].reg \in {<<q, "lo">>, <<q, "hi">>}
        BY DEF WakeupFollowsWrite, Wakeups
      <3>1. moves'[s] = moves[s]
        BY <2>3, MaxWriteAssumption DEF PD_execute_instructions, TypeOK
      <3>2. <<s, i>> \in Wakeups(q)
        BY <3>1 DEF Wakeups
      <3> QED BY <3>1, <3>2 DEF WakeupFollowsWrite
    <2>4. ASSUME UNCHANGED moves
          PROVE  WakeupFollowsWrite'
      BY <2>4 DEF WakeupFollowsWrite, Wakeups
    <2>5. ASSUME NEW t \in Target, NEW lat \in Latency, PD_delay_call(t, lat)
          PROVE  WakeupFollowsWrite'
      BY <2>4, <2>5 DEF PD_delay_call
    <2>6. ASSUME NEW f \in Target, PD_is_simulator_call(f)
          PROVE  WakeupFollowsWrite'
      BY <2>4, <2>6 DEF PD_is_simulator_call
    <2>7. CASE UNCHANGED qvars
      BY <2>4, <2>7 DEF qvars
    <2> QED BY <2>1, <2>2, <2>3, <2>5, <2>6, <2>7 DEF Next
  <1> QED BY <1>1, <1>2, TypeCorrect, PTL DEF Spec
-----------------------------------------------------------------------------
\* What holds of any moves appended to a slot, as the users of the queue append them:
\* what is queued for a flag releases it, and no READY move is lost.
LEMMA MovesAppended ==
  ASSUME TypeOK, FlagMovesReady, NEW a \in Slot, NEW ms \in Seq(Move),
         Len(moves[a]) + Len(ms) <= MAXWRITE,
         moves' = [moves EXCEPT ![a] = @ \o ms],
         \A i \in 1 .. Len(ms), r \in Reg : ms[i].reg = Flag(r) => ms[i].val = READY
  PROVE  /\ moves' \in [Slot -> Seq(Move)]
         /\ \A s \in Slot : Len(moves'[s]) <= MAXWRITE
         /\ FlagMovesReady'
         /\ \A r \in Reg : Wakeups(r) \subseteq Wakeups(r)'
         /\ \A r \in Reg : (\E i \in 1 .. Len(ms) : ms[i].reg = Flag(r)) =>
               \E w \in Wakeups(r)' : w[1] = a
  <1> DEFINE old == moves[a]
             n == Len(moves[a])
             new == old \o ms
  <1>1. /\ old \in Seq(Move) /\ n \in Nat /\ Len(ms) \in Nat
        /\ n + Len(ms) <= MAXWRITE
    BY DEF TypeOK
  <1>2. /\ moves'[a] = new
        /\ \A s \in Slot \ {a} : moves'[s] = moves[s]
    BY DEF TypeOK
  <1>3. /\ new \in Seq(Move) /\ Len(new) = n + Len(ms)
        /\ \A i \in 1 .. n : new[i] = old[i]
        /\ \A i \in 1 .. Len(ms) : new[n + i] = ms[i]
    <2> HIDE DEF old
    <2> QED BY <1>1 DEF old
  <1>4. \A i \in 1 .. Len(new) : i \in 1 .. n \/ \E j \in 1 .. Len(ms) : i = n + j
    <2> TAKE i \in 1 .. Len(new)
    <2> HIDE DEF new, n
    <2>1. i \in Nat \ {0} /\ i <= n + Len(ms)
      BY <1>1, <1>3
    <2> QED BY <1>1, <2>1, IndexCases
  <1>5. moves' \in [Slot -> Seq(Move)]
    <2> HIDE DEF new
    <2> QED BY <1>3 DEF TypeOK, new
  <1>6. \A s \in Slot : Len(moves'[s]) <= MAXWRITE
    <2> HIDE DEF new
    <2> QED BY <1>1, <1>2, <1>3 DEF TypeOK
  <1>7. FlagMovesReady'
    <2> SUFFICES ASSUME NEW s \in Slot, NEW i \in 1 .. Len(moves'[s]), NEW r \in Reg,
                        moves'[s][i].reg = Flag(r)
                 PROVE  moves'[s][i].val = READY
      BY DEF FlagMovesReady
    <2> HIDE DEF new
    <2>1. CASE s # a
      BY <1>2, <2>1 DEF FlagMovesReady
    <2>2. CASE s = a
      <3>1. i \in 1 .. n \/ \E j \in 1 .. Len(ms) : i = n + j
        BY <1>2, <1>4, <2>2
      <3>2. CASE i \in 1 .. n
        BY <1>2, <1>3, <2>2, <3>2 DEF FlagMovesReady
      <3>3. CASE \E j \in 1 .. Len(ms) : i = n + j
        <4>1. PICK j \in 1 .. Len(ms) : i = n + j
          BY <3>3
        <4>2. moves'[s][i] = ms[j]
          BY <1>2, <1>3, <2>2, <4>1
        <4> QED BY <4>2
      <3> QED BY <3>1, <3>2, <3>3
    <2> QED BY <2>1, <2>2
  <1>8. ASSUME NEW r \in Reg, NEW w \in Wakeups(r) PROVE w \in Wakeups(r)'
    <2>1. /\ w \in Slot \X (1 .. MAXWRITE)
          /\ w[2] <= Len(moves[w[1]]) /\ moves[w[1]][w[2]].reg = Flag(r)
      BY DEF Wakeups
    <2> HIDE DEF new
    <2>2. w[2] <= Len(moves'[w[1]]) /\ moves'[w[1]][w[2]].reg = Flag(r)
      <3>1. CASE w[1] # a
        BY <1>2, <2>1, <3>1
      <3>2. CASE w[1] = a
        <4>1. w[2] \in 1 .. n
          BY <1>1, <2>1, <3>2, MaxWriteAssumption
        <4>2. w[2] <= n + Len(ms)
          BY <1>1, <4>1
        <4> QED BY <1>2, <1>3, <2>1, <3>2, <4>1, <4>2
      <3> QED BY <3>1, <3>2
    <2> QED BY <2>1, <2>2 DEF Wakeups
  <1>9. ASSUME NEW r \in Reg, NEW i \in 1 .. Len(ms), ms[i].reg = Flag(r)
        PROVE  \E w \in Wakeups(r)' : w[1] = a
    <2> HIDE DEF new, old, n
    <2>1. n + i \in 1 .. MAXWRITE /\ n + i <= n + Len(ms)
      BY <1>1, MaxWriteAssumption
    <2>2. n + i <= Len(moves'[a]) /\ moves'[a][n + i].reg = Flag(r)
      BY <1>2, <1>3, <1>9, <2>1
    <2>3. <<a, n + i>> \in Wakeups(r)'
      BY <2>1, <2>2 DEF Wakeups
    <2> QED BY <2>3
  <1> QED BY <1>5, <1>6, <1>7, <1>8, <1>9
=============================================================================
