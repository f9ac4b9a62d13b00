----------------------- MODULE ActionQueueRefinement -----------------------
(***************************************************************************)
(* The circular action queue implements EQUALS latency semantics, for      *)
(* every number of registers, words, call targets and slots.               *)
(***************************************************************************)
EXTENDS ActionQueueProofs

\* The refinement mapping of ActionQueue, under names.
LastVal(s, c) == IF Writes(s, c) = {} THEN NoWrite ELSE s[LastMove(s, c)].val

Distance == 0 .. MAXLAT - 1
WordBar  == [c \in Data |-> mem[c]]
DueBar   == [d \in Distance |-> [c \in Data |-> LastVal(moves[At(d)], c)]]
Owe(ds)  == 1 + CHOOSE d \in ds : TRUE
OwedBar  == [r \in Reg |-> IF mem[Flag(r)] = BUSY THEN Owe(WakeupDistances(r)) ELSE 0]
CallsBar == [d \in Distance |-> call[At(d)]]

----------------------------------------------------------------------------
\* The slot at distance d from slot p.
SlotAt(p, d) == (p + d) % QSIZE

\* Different distances are different slots, and every slot has a distance.
LEMMA SlotDistance ==
  ASSUME NEW p \in Slot
  PROVE  /\ \A d \in 0 .. QSIZE - 1 : SlotAt(p, d) \in Slot
         /\ \A d, e \in 0 .. QSIZE - 1 : SlotAt(p, d) = SlotAt(p, e) => d = e
         /\ \A s \in Slot : \E d \in 0 .. QSIZE - 1 : SlotAt(p, d) = s
  <1>1. \A d \in 0 .. QSIZE - 1 :
          SlotAt(p, d) = IF p + d < QSIZE THEN p + d ELSE p + d - QSIZE
    BY ModCases, QSizeAssumption DEF Slot, SlotAt
  <1>2. \A d, e \in 0 .. QSIZE - 1 : SlotAt(p, d) = SlotAt(p, e) => d = e
    BY <1>1, QSizeAssumption DEF Slot
  <1>3. \A s \in Slot : \E d \in 0 .. QSIZE - 1 : SlotAt(p, d) = s
    <2> TAKE s \in Slot
    <2>1. CASE s >= p
      <3>1. s - p \in 0 .. QSIZE - 1 /\ p + (s - p) < QSIZE /\ p + (s - p) = s
        BY <2>1, QSizeAssumption DEF Slot
      <3> QED BY <1>1, <3>1
    <2>2. CASE s < p
      <3>1. /\ s - p + QSIZE \in 0 .. QSIZE - 1
            /\ ~(p + (s - p + QSIZE) < QSIZE)
            /\ p + (s - p + QSIZE) - QSIZE = s
        BY <2>2, QSizeAssumption DEF Slot
      <3> QED BY <1>1, <3>1
    <2> QED BY <2>1, <2>2, QSizeAssumption DEF Slot
  <1>4. \A d \in 0 .. QSIZE - 1 : SlotAt(p, d) \in Slot
    BY <1>1, QSizeAssumption DEF Slot
  <1> QED BY <1>2, <1>3, <1>4

\* The index that is the last of the writes to a cell.
LEMMA LastIs ==
  ASSUME NEW s \in Seq(Move), NEW c, NEW i \in Writes(s, c),
         \A j \in Writes(s, c) : j <= i
  PROVE  LastMove(s, c) = i
  <1>1. \A j \in Writes(s, c) : (\A m \in Writes(s, c) : m <= j) => j = i
    BY DEF Writes
  <1> QED BY <1>1 DEF LastMove

\* What one more move does to the last value of a cell.
LEMMA LastAppended ==
  ASSUME NEW s \in Seq(Move), NEW t \in Seq(Move), NEW c
  PROVE  LastVal(s \o t, c) = IF Writes(t, c) = {} THEN LastVal(s, c) ELSE LastVal(t, c)
  <1>1. /\ s \o t \in Seq(Move)
        /\ Len(s) \in Nat /\ Len(t) \in Nat
        /\ Len(s \o t) = Len(s) + Len(t)
        /\ \A i \in 1 .. Len(s) : (s \o t)[i] = s[i]
        /\ \A i \in 1 .. Len(t) : (s \o t)[Len(s) + i] = t[i]
    OBVIOUS
  <1>2. CASE Writes(t, c) # {}
    <2>1. PICK i \in Writes(t, c) : \A j \in Writes(t, c) : j <= i
      BY <1>2, LastExists
    <2>2. LastMove(t, c) = i
      BY <2>1, LastIs
    <2>3. Len(s) + i \in Writes(s \o t, c)
      BY <1>1, <2>1 DEF Writes
    <2>4. \A j \in Writes(s \o t, c) : j <= Len(s) + i
      <3> SUFFICES ASSUME NEW j \in Writes(s \o t, c), ~(j <= Len(s) + i)
                   PROVE  FALSE
        BY <2>1 DEF Writes
      <3>1. j \in Nat /\ i \in Nat /\ j <= Len(s) + Len(t) /\ j > Len(s) + i
        BY <1>1, <2>1 DEF Writes
      <3>2. j - Len(s) \in 1 .. Len(t) /\ Len(s) + (j - Len(s)) = j /\ j - Len(s) > i
        BY <1>1, <3>1
      <3>3. t[j - Len(s)].reg = c
        BY <1>1, <3>2 DEF Writes
      <3>4. j - Len(s) \in Writes(t, c)
        BY <3>2, <3>3 DEF Writes
      <3> QED BY <2>1, <3>1, <3>2, <3>4
    <2>5. LastMove(s \o t, c) = Len(s) + i
      BY <1>1, <2>3, <2>4, LastIs
    <2> QED BY <1>1, <1>2, <2>1, <2>2, <2>3, <2>5 DEF LastVal, Writes
  <1>3. CASE Writes(t, c) = {}
    <2>1. Writes(s \o t, c) = Writes(s, c)
      <3>1. ASSUME NEW i \in Writes(s \o t, c)
            PROVE  i \in Writes(s, c)
        <4>1. i \in 1 .. Len(s) + Len(t) /\ (s \o t)[i].reg = c
          BY <1>1 DEF Writes
        <4>2. CASE i <= Len(s)
          BY <1>1, <4>1, <4>2 DEF Writes
        <4>3. CASE ~(i <= Len(s))
          <5>1. i - Len(s) \in 1 .. Len(t) /\ Len(s) + (i - Len(s)) = i
            BY <1>1, <4>1, <4>3
          <5>2. t[i - Len(s)].reg = c
            BY <1>1, <4>1, <5>1
          <5> QED BY <1>3, <5>1, <5>2 DEF Writes
        <4> QED BY <4>2, <4>3
      <3>2. ASSUME NEW i \in Writes(s, c)
            PROVE  i \in Writes(s \o t, c)
        BY <1>1 DEF Writes
      <3> QED BY <3>1, <3>2
    <2>2. CASE Writes(s, c) = {}
      BY <1>3, <2>1, <2>2 DEF LastVal
    <2>3. CASE Writes(s, c) # {}
      <3>1. PICK i \in Writes(s, c) : \A j \in Writes(s, c) : j <= i
        BY <2>3, LastExists
      <3>2. LastMove(s, c) = i /\ LastMove(s \o t, c) = i
        BY <1>1, <2>1, <3>1, LastIs
      <3> QED BY <1>1, <1>3, <2>1, <2>3, <3>1, <3>2 DEF LastVal, Writes
    <2> QED BY <2>2, <2>3
  <1> QED BY <1>2, <1>3

\* What the words queued by an operation, listed in wf, do to the values due in its slot.
LEMMA LastQueued ==
  ASSUME NEW s \in Seq(Move), NEW ws \in Seq(Move), NEW r \in Reg, NEW wf,
         \A c \in Data : LastVal(ws, c) = IF c[1] = r /\ c[2] \in DOMAIN wf
                                          THEN wf[c[2]] ELSE NoWrite,
         \A c \in Data : Writes(ws, c) = {} <=> ~(c[1] = r /\ c[2] \in DOMAIN wf)
  PROVE  \A c \in Data :
           LastVal(s \o (ws \o Wakeup(r)), c)
             = IF c[1] = r /\ c[2] \in DOMAIN wf THEN wf[c[2]] ELSE LastVal(s, c)
  <1> TAKE c \in Data
  <1>1. Wakeup(r) \in Seq(Move)
    BY MoveType DEF Wakeup
  <1>2. Flag(r) # c
    BY FlagCells DEF Data
  <1>3. Writes(Wakeup(r), c) = {}
    <2>1. \A i \in 1 .. Len(Wakeup(r)) : Wakeup(r)[i].reg = Flag(r)
      BY DEF Wakeup
    <2> QED BY <1>2, <2>1 DEF Writes
  <1>4. LastVal(ws \o Wakeup(r), c) = LastVal(ws, c)
    BY <1>1, <1>3, LastAppended
  <1>5. Writes(ws \o Wakeup(r), c) = Writes(ws, c)
    <2>1. /\ Len(ws \o Wakeup(r)) = Len(ws) + Len(Wakeup(r))
          /\ Len(ws) \in Nat /\ Len(Wakeup(r)) \in Nat
          /\ \A i \in 1 .. Len(ws) : (ws \o Wakeup(r))[i] = ws[i]
          /\ \A i \in 1 .. Len(Wakeup(r)) : (ws \o Wakeup(r))[Len(ws) + i] = Wakeup(r)[i]
      BY <1>1
    <2>2. ASSUME NEW i \in Writes(ws \o Wakeup(r), c)
          PROVE  i \in Writes(ws, c)
      <3>1. i \in 1 .. Len(ws) + Len(Wakeup(r)) /\ (ws \o Wakeup(r))[i].reg = c
        BY <2>1 DEF Writes
      <3>2. CASE i <= Len(ws)
        BY <2>1, <3>1, <3>2 DEF Writes
      <3>3. CASE ~(i <= Len(ws))
        <4>1. i - Len(ws) \in 1 .. Len(Wakeup(r)) /\ Len(ws) + (i - Len(ws)) = i
          BY <2>1, <3>1, <3>3
        <4>2. Wakeup(r)[i - Len(ws)].reg = c
          BY <2>1, <3>1, <4>1
        <4> QED BY <1>3, <4>1, <4>2 DEF Writes
      <3> QED BY <3>2, <3>3
    <2>3. ASSUME NEW i \in Writes(ws, c)
          PROVE  i \in Writes(ws \o Wakeup(r), c)
      BY <2>1 DEF Writes
    <2> QED BY <2>2, <2>3
  <1> DEFINE t == ws \o Wakeup(r)
  <1>6. t \in Seq(Move)
    BY <1>1
  <1> HIDE DEF t
  <1>7. LastVal(s \o t, c) = IF Writes(t, c) = {} THEN LastVal(s, c) ELSE LastVal(t, c)
    BY <1>6, LastAppended
  <1> USE DEF t
  <1> QED BY <1>4, <1>5, <1>7

----------------------------------------------------------------------------
\* A register whose only READY move is w, at distance d, is woken up at that distance only.
LEMMA OneDistance ==
  ASSUME PD_pending \in Slot, NEW r \in Reg, NEW w, NEW d \in 0 .. QSIZE - 1,
         Wakeups(r) = {w}, w[1] = At(d)
  PROVE  WakeupDistances(r) = {d}
  <1>1. \A e \in 0 .. QSIZE - 1 : At(e) = At(d) => e = d
    BY SlotDistance DEF At, SlotAt
  <1> QED BY <1>1 DEF WakeupDistances

\* What a busy register owes: one more than the distance of its READY move.
LEMMA OwedIs ==
  ASSUME TypeOK, OneWakeup, NEW r \in Reg
  PROVE  /\ mem[Flag(r)] # BUSY => OwedBar[r] = 0 /\ Wakeups(r) = {}
         /\ mem[Flag(r)] = BUSY =>
              \E w \in Slot \X (1 .. MAXWRITE) : \E d \in 0 .. QSIZE - 1 :
                /\ Wakeups(r) = {w} /\ w[1] = At(d)
                /\ OwedBar[r] = 1 + d
  <1>1. CASE mem[Flag(r)] # BUSY
    BY <1>1 DEF OwedBar, OneWakeup
  <1>2. CASE mem[Flag(r)] = BUSY
    <2>1. PICK w \in Wakeups(r) : Wakeups(r) = {w}
      BY <1>2 DEF OneWakeup
    <2>2. w \in Slot \X (1 .. MAXWRITE)
      BY <2>1 DEF Wakeups
    <2>3. PICK d \in 0 .. QSIZE - 1 : At(d) = w[1]
      BY <2>2, SlotDistance DEF TypeOK, At, SlotAt
    <2>4. WakeupDistances(r) = {d}
      BY <2>1, <2>3, OneDistance DEF TypeOK
    <2>5. (CHOOSE e \in WakeupDistances(r) : TRUE) = d
      BY <2>4
    <2>6. OwedBar[r] = 1 + d
      BY <1>2, <2>5 DEF OwedBar, Owe
    <2> QED BY <1>2, <2>1, <2>2, <2>3, <2>6
  <1> QED BY <1>1, <1>2

----------------------------------------------------------------------------
\* Queueing the words wf of r is Issue.
LEMMA QueueIssues ==
  ASSUME TypeOK, WakeupInv, NEW r \in Reg, NEW ws \in Seq(Move), NEW lat \in Latency,
         Queue(r, ws, lat),
         \A i \in 1 .. Len(ws), q \in Reg : ws[i].reg # Flag(q),
         NEW wf,
         \A c \in Data : LastVal(ws, c) = IF c[1] = r /\ c[2] \in DOMAIN wf
                                          THEN wf[c[2]] ELSE NoWrite,
         \A c \in Data : Writes(ws, c) = {} <=> ~(c[1] = r /\ c[2] \in DOMAIN wf)
  PROVE  Equals!Issue(r, wf, lat)
  <1>1. /\ PD_pending \in Slot /\ PD_pending' = PD_pending
        /\ call' = call /\ last_call' = last_call /\ punted' = punted /\ ~punted
        /\ mem' = [mem EXCEPT ![Flag(r)] = BUSY]
        /\ moves' = [moves EXCEPT ![Attime(lat)] = @ \o (ws \o Wakeup(r))]
    BY DEF Queue, TypeOK
  <1>2. \A d \in Distance : At(d)' = At(d)
    BY <1>1 DEF At
  <1>3. /\ Attime(lat) = At(lat - 1) /\ lat - 1 \in Distance /\ Attime(lat) \in Slot
        /\ lat - 1 \in 0 .. QSIZE - 1
    BY <1>1, AttimeAt, AttimeSlot, MaxLatAssumption, QSizeAssumption DEF Distance
  <1>4. WordBar' = WordBar
    <2>1. \A c \in Data : mem'[c] = mem[c]
      BY <1>1, FlagCells DEF TypeOK, Data, Cell
    <2> QED BY <2>1 DEF WordBar
  <1>5. CallsBar' = CallsBar
    BY <1>1, <1>2 DEF CallsBar
  <1>6. DueBar' = [DueBar EXCEPT ![lat - 1] =
                     [c \in Data |-> IF c[1] = r /\ c[2] \in DOMAIN wf
                                     THEN wf[c[2]] ELSE @[c]]]
    <2>1. \A d \in Distance \ {lat - 1} : moves'[At(d)] = moves[At(d)]
      <3> TAKE d \in Distance \ {lat - 1}
      <3>0. d \in 0 .. QSIZE - 1
        BY MaxLatAssumption, QSizeAssumption DEF Distance
      <3>1. At(d) \in Slot /\ At(d) # At(lat - 1)
        BY <1>1, <1>3, <3>0, SlotDistance DEF At, SlotAt
      <3> QED BY <1>1, <1>3, <3>1 DEF TypeOK
    <2>2. moves'[At(lat - 1)] = moves[At(lat - 1)] \o (ws \o Wakeup(r))
      BY <1>1, <1>3 DEF TypeOK
    <2>3. moves[At(lat - 1)] \in Seq(Move)
      BY <1>3 DEF TypeOK
    <2>4. \A c \in Data : LastVal(moves'[At(lat - 1)], c)
             = IF c[1] = r /\ c[2] \in DOMAIN wf THEN wf[c[2]]
               ELSE LastVal(moves[At(lat - 1)], c)
      <3> DEFINE s0 == moves[At(lat - 1)]
      <3>1. s0 \in Seq(Move)
        BY <2>3
      <3> HIDE DEF s0
      <3>2. \A c \in Data : LastVal(s0 \o (ws \o Wakeup(r)), c)
               = IF c[1] = r /\ c[2] \in DOMAIN wf THEN wf[c[2]] ELSE LastVal(s0, c)
        BY <3>1, LastQueued
      <3> QED BY <2>2, <3>2 DEF s0
    <2>5. DueBar' = [d \in Distance |-> [c \in Data |-> LastVal(moves'[At(d)], c)]]
      BY <1>2 DEF DueBar, LastVal
    <2> DEFINE V == [c \in Data |-> IF c[1] = r /\ c[2] \in DOMAIN wf
                                    THEN wf[c[2]] ELSE DueBar[lat - 1][c]]
    <2>6. \A d \in Distance \ {lat - 1} : DueBar'[d] = DueBar[d]
      BY <2>1, <2>5 DEF DueBar
    <2>7. DueBar'[lat - 1] = V
      <3>1. \A c \in Data : DueBar[lat - 1][c] = LastVal(moves[At(lat - 1)], c)
        BY <1>3 DEF DueBar
      <3>2. DueBar'[lat - 1] = [c \in Data |-> LastVal(moves'[At(lat - 1)], c)]
        BY <1>3, <2>5
      <3> QED BY <2>4, <3>1, <3>2
    <2>8. DOMAIN DueBar = Distance /\ DueBar' = [d \in Distance |-> DueBar'[d]]
      BY <2>5 DEF DueBar
    <2>9. DueBar = [d \in Distance |-> DueBar[d]]
      BY DEF DueBar
    <2> HIDE DEF V
    <2>10. DueBar' = [DueBar EXCEPT ![lat - 1] = V]
      BY <1>3, <2>6, <2>7, <2>8, <2>9
    <2> QED BY <2>10 DEF V
  <1>7. OwedBar' = [OwedBar EXCEPT ![r] = IF @ = 0 THEN lat ELSE @]
    <2>1. /\ mem'[Flag(r)] = BUSY
          /\ \A q \in Reg \ {r} : mem'[Flag(q)] = mem[Flag(q)]
      BY <1>1, FlagCells DEF TypeOK
    <2>2. \A q \in Reg : Wakeups(q)' = Wakeups(q) =>
                           WakeupDistances(q)' = WakeupDistances(q)
      BY <1>1 DEF WakeupDistances, At
    <2>3. \A q \in Reg : Wakeups(q)' = Wakeups(q) /\ mem'[Flag(q)] = mem[Flag(q)] =>
                           OwedBar'[q] = OwedBar[q]
      BY <2>2 DEF OwedBar
    <2>f. /\ OwedBar' = [q \in Reg |-> OwedBar'[q]]
          /\ OwedBar = [q \in Reg |-> OwedBar[q]]
      BY DEF OwedBar
    <2>4. CASE mem[Flag(r)] = BUSY
      <3>1. \A q \in Reg : OwedBar'[q] = OwedBar[q]
        BY <2>1, <2>3, <2>4, QueueWakeups
      <3>2. OwedBar[r] # 0
        <4>1. PICK d \in 0 .. QSIZE - 1 : OwedBar[r] = 1 + d
          BY <2>4, OwedIs DEF WakeupInv
        <4> QED BY <4>1
      <3> QED BY <2>f, <3>1, <3>2
    <2>5. CASE mem[Flag(r)] # BUSY
      <3>1. PICK w \in Slot \X (1 .. MAXWRITE) :
              /\ w[1] = Attime(lat)
              /\ \A q \in Reg : Wakeups(q)' = IF q = r THEN Wakeups(q) \cup {w}
                                              ELSE Wakeups(q)
        BY <2>5, QueueWakeups
      <3>2. \A q \in Reg \ {r} : OwedBar'[q] = OwedBar[q]
        BY <2>1, <2>3, <3>1
      <3>3. Wakeups(r)' = {w} /\ OwedBar[r] = 0
        BY <2>5, <3>1, OwedIs DEF WakeupInv
      <3>4. WakeupDistances(r)' = {lat - 1}
        <4>1. \A e \in 0 .. QSIZE - 1 : At(e)' = At(e)
          BY <1>1 DEF At
        <4>2. \A e \in 0 .. QSIZE - 1 : At(e) = At(lat - 1) => e = lat - 1
          BY <1>1, <1>3, SlotDistance DEF At, SlotAt
        <4> QED BY <1>3, <3>1, <3>3, <4>1, <4>2 DEF WakeupDistances
      <3>5. OwedBar'[r] = 1 + (lat - 1)
        <4>1. (CHOOSE d \in WakeupDistances(r)' : TRUE) = lat - 1
          BY <3>4
        <4> QED BY <2>1, <4>1 DEF OwedBar, Owe
      <3>6. 1 + (lat - 1) = lat
        BY DEF Latency
      <3> QED BY <2>f, <3>2, <3>3, <3>5, <3>6
    <2> QED BY <2>4, <2>5
  <1> QED BY <1>1, <1>4, <1>5, <1>6, <1>7
          DEF Equals!Issue, Equals!Data, Data, WordBar, DueBar, OwedBar, Owe, CallsBar, LastVal,
              Distance

----------------------------------------------------------------------------
\* A clock brings every slot one cycle nearer; nothing new is furthest away.
LEMMA ClockShifts ==
  ASSUME TypeOK, NothingBeyondMaxLat, PD_execute_instructions, NEW d \in Distance
  PROVE  IF d + 1 \in Distance
         THEN moves'[At(d)'] = moves[At(d + 1)] /\ call'[At(d)'] = call[At(d + 1)]
         ELSE moves'[At(d)'] = <<>> /\ call'[At(d)'] = NoCall
  <1>1. /\ PD_pending \in Slot
        /\ At(d)' = (NextSlot + d) % QSIZE
        /\ moves'[PD_pending] = <<>> /\ call'[PD_pending] = NoCall
        /\ \A s \in Slot \ {PD_pending} : moves'[s] = moves[s] /\ call'[s] = call[s]
    BY DEF PD_execute_instructions, TypeOK, At
  <1>2. /\ d \in 0 .. QSIZE - 1 /\ d \in Nat
        /\ d # QSIZE - 1 => d \in 0 .. QSIZE - 2 /\ d + 1 \in 0 .. QSIZE - 1
                            /\ d + 1 \in Nat /\ 0 \in 0 .. QSIZE - 1 /\ d + 1 # 0
        /\ d + 1 \notin Distance => d + 1 = MAXLAT
        /\ d + 1 \in Distance => d # QSIZE - 1
        /\ d # QSIZE - 1 /\ d + 1 = MAXLAT => d + 1 \in MAXLAT .. QSIZE - 1
    BY MaxLatAssumption, QSizeAssumption DEF Distance
  <1>3. CASE d = QSIZE - 1
    <2>1. NextSlot + QSIZE - 1 = NextSlot + d
      BY <1>1, <1>3, QSizeAssumption, AtSlot DEF Slot
    <2>2. At(d)' = PD_pending
      BY <1>1, <2>1, Distances
    <2> QED BY <1>1, <1>2, <1>3, <2>2
  <1>4. CASE d # QSIZE - 1
    <2>1. At(d)' = At(d + 1)
      BY <1>1, <1>2, <1>4, Distances
    <2>2. At(d + 1) \in Slot
      BY <1>1, <1>2, <1>4, AtSlot
    <2>3. At(d + 1) # PD_pending
      BY <1>1, <1>2, <1>4, Distances
    <2>4. moves'[At(d)'] = moves[At(d + 1)] /\ call'[At(d)'] = call[At(d + 1)]
      BY <1>1, <2>1, <2>2, <2>3
    <2>5. d + 1 \notin Distance => moves[At(d + 1)] = <<>> /\ call[At(d + 1)] = NoCall
      BY <1>2, <1>4 DEF NothingBeyondMaxLat
    <2> QED BY <2>4, <2>5
  <1> QED BY <1>3, <1>4

\* A clock brings every release one cycle nearer and makes those of the head slot.
LEMMA ClockOwed ==
  ASSUME TypeOK, WakeupInv, PD_execute_instructions, TypeOK', OneWakeup', NEW r \in Reg
  PROVE  OwedBar'[r] = IF OwedBar[r] = 0 THEN 0 ELSE OwedBar[r] - 1
  <1>1. /\ PD_pending \in Slot /\ PD_pending' = NextSlot /\ NextSlot \in Slot
        /\ moves' = [moves EXCEPT ![PD_pending] = <<>>]
        /\ mem' = Committed(moves[PD_pending], mem)
        /\ \A d \in 0 .. QSIZE - 1 : At(d)' = (NextSlot + d) % QSIZE
    BY AtSlot DEF PD_execute_instructions, TypeOK, At
  <1>2. Wakeups(r)' = {w \in Wakeups(r) : w[1] # PD_pending}
    <2>1. /\ moves'[PD_pending] = <<>>
          /\ \A s \in Slot \ {PD_pending} : moves'[s] = moves[s]
      BY <1>1 DEF TypeOK
    <2> QED BY <2>1, MaxWriteAssumption DEF Wakeups
  <1>3. mem'[Flag(r)] = BUSY <=> Wakeups(r)' # {}
    BY DEF OneWakeup
  <1>4. mem[Flag(r)] = BUSY <=> Wakeups(r) # {}
    BY DEF WakeupInv, OneWakeup
  <1>5. CASE mem[Flag(r)] # BUSY
    <2>1. OwedBar[r] = 0 /\ mem'[Flag(r)] # BUSY
      BY <1>2, <1>3, <1>4, <1>5, OwedIs DEF WakeupInv
    <2> QED BY <2>1 DEF OwedBar
  <1>6. CASE mem[Flag(r)] = BUSY
    <2>1. PICK w \in Slot \X (1 .. MAXWRITE), d \in 0 .. QSIZE - 1 :
            Wakeups(r) = {w} /\ w[1] = At(d) /\ OwedBar[r] = 1 + d
      BY <1>6, OwedIs DEF WakeupInv
    <2>2. OwedBar[r] # 0 /\ OwedBar[r] - 1 = d
      BY <2>1
    <2>3. CASE d = 0
      <3>1. w[1] = PD_pending
        BY <1>1, <2>1, <2>3, Distances
      <3>2. Wakeups(r)' = {}
        BY <1>2, <2>1, <3>1
      <3>3. OwedBar'[r] = 0
        BY <1>3, <3>2 DEF OwedBar
      <3> QED BY <2>2, <2>3, <3>3
    <2>4. CASE d # 0
      <3>1. /\ 0 \in 0 .. QSIZE - 1
            /\ d - 1 \in 0 .. QSIZE - 2 /\ d - 1 \in 0 .. QSIZE - 1
            /\ d - 1 + 1 = d
        BY <2>4, QSizeAssumption
      <3>2. w[1] # PD_pending
        BY <1>1, <2>1, <2>4, <3>1, Distances
      <3>3. Wakeups(r)' = {w}
        BY <1>2, <2>1, <3>2
      <3>4. At(d - 1)' = w[1]
        BY <1>1, <2>1, <3>1, Distances
      <3>5. \A e \in 0 .. QSIZE - 1 : At(e)' = At(d - 1)' => e = d - 1
        BY <1>1, <3>1, SlotDistance DEF SlotAt
      <3>6. WakeupDistances(r)' = {d - 1}
        BY <3>1, <3>3, <3>4, <3>5 DEF WakeupDistances
      <3>7. OwedBar'[r] = 1 + (d - 1)
        <4>1. (CHOOSE e \in WakeupDistances(r)' : TRUE) = d - 1
          BY <3>6
        <4> QED BY <1>3, <3>3, <4>1 DEF OwedBar, Owe
      <3> QED BY <2>2, <3>1, <3>7
    <2> QED BY <2>3, <2>4
  <1> QED BY <1>5, <1>6

\* A clock is Cycle.
LEMMA ClockIsCycle ==
  ASSUME TypeOK, NothingBeyondMaxLat, WakeupInv, PD_execute_instructions,
         TypeOK', OneWakeup'
  PROVE  Equals!Cycle
  <1>1. /\ PD_pending \in Slot /\ ~punted /\ punted' = punted
        /\ mem' = Committed(moves[PD_pending], mem)
        /\ last_call' = IF call[PD_pending] = NoCall THEN last_call
                        ELSE [address |-> call[PD_pending], is_valid |-> TRUE]
    BY DEF PD_execute_instructions, TypeOK, DueCall
  <1>2. At(0) = PD_pending /\ 0 \in Distance
    BY <1>1, Distances, MaxLatAssumption, QSizeAssumption DEF Distance
  <1>3. WordBar' = [c \in Data |-> IF DueBar[0][c] = NoWrite THEN WordBar[c]
                                   ELSE DueBar[0][c]]
    <2> DEFINE s0 == moves[PD_pending]
    <2>1. \A c \in Data : DueBar[0][c] = LastVal(s0, c)
      BY <1>2 DEF DueBar
    <2>2. \A c \in Data : LastVal(s0, c) = NoWrite <=> Writes(s0, c) = {}
      <3> SUFFICES ASSUME NEW c \in Data, Writes(s0, c) # {}
                   PROVE  s0[LastMove(s0, c)].val # NoWrite
        BY DEF LastVal
      <3>1. s0 \in Seq(Move)
        BY <1>1 DEF TypeOK
      <3> HIDE DEF s0
      <3>2. LastMove(s0, c) \in Writes(s0, c)
        BY <3>1, LastExists DEF LastMove
      <3>3. s0[LastMove(s0, c)] \in Move
        BY <3>1, <3>2 DEF Writes
      <3> QED BY <3>3, NoWriteAssumption DEF Move, Word, READY, BUSY
    <2>3. \A c \in Data : mem'[c] = IF Writes(s0, c) = {} THEN mem[c] ELSE LastVal(s0, c)
      BY <1>1 DEF Committed, LastVal, Cell
    <2> HIDE DEF s0
    <2>4. \A c \in Data : mem'[c] = IF DueBar[0][c] = NoWrite THEN mem[c] ELSE DueBar[0][c]
      BY <2>1, <2>2, <2>3
    <2> QED BY <2>4 DEF WordBar
  <1>4. DueBar' = [d \in Distance |-> IF d + 1 \in Distance THEN DueBar[d + 1]
                                      ELSE [c \in Data |-> NoWrite]]
    <2>1. DueBar' = [d \in Distance |-> [c \in Data |-> LastVal(moves'[At(d)'], c)]]
      BY DEF DueBar, LastVal
    <2>2. \A c : LastVal(<<>>, c) = NoWrite
      BY DEF LastVal, Writes
    <2>3. \A d \in Distance : [c \in Data |-> LastVal(moves'[At(d)'], c)]
            = IF d + 1 \in Distance THEN DueBar[d + 1] ELSE [c \in Data |-> NoWrite]
      BY <2>2, ClockShifts DEF DueBar
    <2> QED BY <2>1, <2>3
  <1>5. CallsBar' = [d \in Distance |-> IF d + 1 \in Distance THEN CallsBar[d + 1]
                                        ELSE NoCall]
    <2>1. CallsBar' = [d \in Distance |-> call'[At(d)']]
      BY DEF CallsBar
    <2>2. \A d \in Distance : call'[At(d)']
            = IF d + 1 \in Distance THEN CallsBar[d + 1] ELSE NoCall
      BY ClockShifts DEF CallsBar
    <2> QED BY <2>1, <2>2
  <1>6. last_call'.address = IF CallsBar[0] = NoCall THEN last_call.address ELSE CallsBar[0]
    BY <1>1, <1>2 DEF CallsBar
  <1>7. OwedBar' = [r \in Reg |-> IF OwedBar[r] = 0 THEN 0 ELSE OwedBar[r] - 1]
    <2>1. OwedBar' = [r \in Reg |-> OwedBar'[r]]
      BY DEF OwedBar
    <2> QED BY <2>1, ClockOwed
  <1> QED BY <1>1, <1>3, <1>4, <1>5, <1>6, <1>7
          DEF Equals!Cycle, Equals!Data, Equals!Distance, Data, Distance, WordBar, DueBar,
              OwedBar, Owe, CallsBar, LastVal

\* Queueing a call is Call, or Clash when the slot has one.
LEMMA CallIsCall ==
  ASSUME TypeOK, NEW t \in Target, NEW lat \in Latency, PD_delay_call(t, lat)
  PROVE  Equals!Call(t, lat) \/ Equals!Clash(lat)
  <1>1. /\ ~punted /\ PD_pending' = PD_pending /\ moves' = moves /\ mem' = mem
        /\ last_call' = last_call
    BY DEF PD_delay_call
  <1>2. \A d : At(d)' = At(d)
    BY <1>1 DEF At
  <1>3. WordBar' = WordBar /\ DueBar' = DueBar
    BY <1>1, <1>2 DEF WordBar, DueBar, LastVal
  <1>4. OwedBar' = OwedBar
    <2>1. \A r \in Reg : Wakeups(r)' = Wakeups(r)
      BY <1>1 DEF Wakeups
    <2>2. \A r \in Reg : WakeupDistances(r)' = WakeupDistances(r)
      BY <1>2, <2>1 DEF WakeupDistances
    <2> QED BY <1>1, <2>2 DEF OwedBar
  <1>5. /\ Attime(lat) = At(lat - 1) /\ lat - 1 \in Distance /\ Attime(lat) \in Slot
        /\ \A d \in Distance : d \in 0 .. QSIZE - 1
    BY AttimeAt, AttimeSlot, MaxLatAssumption, QSizeAssumption DEF Distance, TypeOK
  <1>6. CallsBar[lat - 1] = call[Attime(lat)]
    BY <1>5 DEF CallsBar
  <1>7. CASE call[Attime(lat)] # NoCall
    <2>1. punted' = TRUE /\ call' = call
      BY <1>7 DEF PD_delay_call
    <2>2. CallsBar' = CallsBar
      BY <1>2, <2>1 DEF CallsBar
    <2> QED BY <1>1, <1>3, <1>4, <1>6, <1>7, <2>1, <2>2
            DEF Equals!Clash, Data, Distance, WordBar, DueBar, OwedBar, Owe, CallsBar, LastVal
  <1>8. CASE call[Attime(lat)] = NoCall
    <2>1. punted' = punted /\ call' = [call EXCEPT ![Attime(lat)] = t]
      BY <1>8 DEF PD_delay_call
    <2>2. \A d \in Distance \ {lat - 1} : At(d) \in Slot /\ At(d) # At(lat - 1)
      BY <1>5, SlotDistance DEF At, SlotAt, TypeOK
    <2>3. CallsBar' = [CallsBar EXCEPT ![lat - 1] = t]
      <3>1. CallsBar' = [d \in Distance |-> call'[At(d)]]
        BY <1>2 DEF CallsBar
      <3>2. \A d \in Distance : call'[At(d)] = IF d = lat - 1 THEN t ELSE call[At(d)]
        BY <1>5, <2>1, <2>2 DEF TypeOK
      <3> QED BY <1>5, <3>1, <3>2 DEF CallsBar
    <2> QED BY <1>1, <1>3, <1>4, <1>6, <1>8, <2>1, <2>3
            DEF Equals!Call, Data, Distance, WordBar, DueBar, OwedBar, Owe, CallsBar, LastVal
  <1> QED BY <1>7, <1>8

\* A step that changes only is_valid, or nothing, is a stutter.
LEMMA OthersStutter ==
  ASSUME UNCHANGED <<PD_pending, moves, call, mem, punted>>,
         last_call'.address = last_call.address
  PROVE  UNCHANGED Equals!evars
  <1>1. \A d : At(d)' = At(d)
    BY DEF At
  <1>2. WordBar' = WordBar /\ DueBar' = DueBar /\ CallsBar' = CallsBar
    BY <1>1 DEF WordBar, DueBar, LastVal, CallsBar
  <1>3. OwedBar' = OwedBar
    <2>1. \A r \in Reg : Wakeups(r)' = Wakeups(r)
      BY DEF Wakeups
    <2>2. \A r \in Reg : WakeupDistances(r)' = WakeupDistances(r)
      BY <1>1, <2>1 DEF WakeupDistances
    <2> QED BY <2>2 DEF OwedBar
  <1> QED BY <1>2, <1>3
          DEF Equals!evars, Data, Distance, WordBar, DueBar, OwedBar, Owe, CallsBar, LastVal

----------------------------------------------------------------------------
\* The circular queue implements EQUALS latencies: a write is seen exactly when its
\* latency ends, the later of two writes due together wins, a call is made in its cycle,
\* and an interlock is released when the write that took it lands.
THEOREM Refinement == Spec => ImplementsEquals
  <1>1. Init => Equals!Init
    <2> SUFFICES ASSUME Init PROVE Equals!Init
      OBVIOUS
    <2>1. /\ PD_pending \in Slot
          /\ \A s \in Slot : moves[s] = <<>> /\ call[s] = NoCall
          /\ last_call.address = NoCall /\ punted = FALSE
          /\ \A c \in Cell : mem[c] = 0
      BY QSizeAssumption DEF Init, PD_initialize_queue, Slot
    <2>2. \A d \in Distance : At(d) \in Slot
      BY <2>1, AtSlot, MaxLatAssumption DEF Distance
    <2>3. WordBar = [c \in Data |-> 0]
      BY <2>1 DEF WordBar, Cell
    <2>4. DueBar = [d \in Distance |-> [c \in Data |-> NoWrite]]
      <3>1. \A c : LastVal(<<>>, c) = NoWrite
        BY DEF LastVal, Writes
      <3> QED BY <2>1, <2>2, <3>1 DEF DueBar
    <2>5. OwedBar = [r \in Reg |-> 0]
      BY <2>1, FlagCells DEF OwedBar, BUSY
    <2>6. CallsBar = [d \in Distance |-> NoCall]
      BY <2>1, <2>2 DEF CallsBar
    <2> QED BY <2>1, <2>3, <2>4, <2>5, <2>6
            DEF Equals!Init, Equals!Data, Equals!Distance, Data, Distance, WordBar, DueBar,
                OwedBar, Owe, CallsBar, LastVal
  <1>2. /\ TypeOK /\ NothingBeyondMaxLat /\ WakeupInv /\ [Next]_qvars
        /\ TypeOK' /\ WakeupInv'
        => [Equals!Next]_(Equals!evars)
    <2> SUFFICES ASSUME TypeOK, NothingBeyondMaxLat, WakeupInv, [Next]_qvars,
                        TypeOK', WakeupInv'
                 PROVE  Equals!Next \/ UNCHANGED Equals!evars
      OBVIOUS
    <2>1. ASSUME NEW r \in Reg, NEW v \in Val, NEW lat \in Latency,
                 PD_delay(r, v, lat)
          PROVE  Equals!Next
      <3> DEFINE ws == <<[reg |-> <<r, "lo">>, val |-> v]>>
                 wf == [p \in {"lo"} |-> v]
      <3>1. ws \in Seq(Move)
        BY MoveType
      <3>2. \A i \in 1 .. Len(ws), q \in Reg : ws[i].reg # Flag(q)
        BY FlagCells
      <3>3. Queue(r, ws, lat)
        BY <2>1 DEF PD_delay
      <3>4. \A c \in Data : Writes(ws, c) = IF c = <<r, "lo">> THEN {1} ELSE {}
        BY DEF Writes
      <3>5. \A c \in Data : c = <<r, "lo">> <=> (c[1] = r /\ c[2] \in DOMAIN wf)
        BY DEF Data
      <3>6. LastVal(ws, <<r, "lo">>) = v
        <4>1. 1 \in Writes(ws, <<r, "lo">>) /\ \A j \in Writes(ws, <<r, "lo">>) : j <= 1
          BY DEF Writes
        <4>2. LastMove(ws, <<r, "lo">>) = 1
          BY <3>1, <4>1, LastIs
        <4> QED BY <4>1, <4>2 DEF LastVal
      <3>7. \A c \in Data : Writes(ws, c) = {} <=> ~(c[1] = r /\ c[2] \in DOMAIN wf)
        BY <3>4, <3>5
      <3>8. \A c \in Data : LastVal(ws, c) = IF c[1] = r /\ c[2] \in DOMAIN wf
                                             THEN wf[c[2]] ELSE NoWrite
        <4> TAKE c \in Data
        <4>1. CASE c = <<r, "lo">>
          BY <3>6, <4>1
        <4>2. CASE c # <<r, "lo">>
          BY <3>4, <3>5, <4>2 DEF LastVal
        <4> QED BY <4>1, <4>2
      <3>9. Equals!Issue(r, wf, lat)
        <4> HIDE DEF ws, wf
        <4> QED BY <3>1, <3>2, <3>3, <3>7, <3>8, QueueIssues
      <3> QED BY <3>9 DEF Equals!Next, Latency
    <2>2. ASSUME NEW r \in Reg, NEW v \in Val, NEW w \in Val,
                 NEW lat \in Latency, PD_delay2x(r, v, w, lat)
          PROVE  Equals!Next
      <3> DEFINE ws == <<[reg |-> <<r, "lo">>, val |-> v],
                         [reg |-> <<r, "hi">>, val |-> w]>>
                 wf == [p \in {"lo", "hi"} |-> IF p = "lo" THEN v ELSE w]
      <3>1. ws \in Seq(Move) /\ Len(ws) = 2
        BY MoveType
      <3>2. \A i \in 1 .. Len(ws), q \in Reg : ws[i].reg # Flag(q)
        <4> TAKE i \in 1 .. Len(ws), q \in Reg
        <4>1. i = 1 \/ i = 2
          OBVIOUS
        <4> QED BY <4>1, FlagCells
      <3>3. Queue(r, ws, lat)
        BY <2>2 DEF PD_delay2x
      <3>4. Writes(ws, <<r, "lo">>) = {1} /\ Writes(ws, <<r, "hi">>) = {2}
        <4>1. ws[1].reg = <<r, "lo">> /\ ws[2].reg = <<r, "hi">> /\ "lo" # "hi"
          OBVIOUS
        <4>2. <<r, "lo">> # <<r, "hi">>
          BY <4>1
        <4> HIDE DEF ws
        <4> QED BY <3>1, <4>1, <4>2 DEF Writes
      <3>5. \A c \in Data : c \notin {<<r, "lo">>, <<r, "hi">>} => Writes(ws, c) = {}
        <4>1. ws[1].reg = <<r, "lo">> /\ ws[2].reg = <<r, "hi">>
          OBVIOUS
        <4> HIDE DEF ws
        <4> QED BY <3>1, <4>1 DEF Writes
      <3>6. \A c \in Data : c \in {<<r, "lo">>, <<r, "hi">>}
                              <=> (c[1] = r /\ c[2] \in DOMAIN wf)
        BY DEF Data
      <3>7. LastVal(ws, <<r, "lo">>) = v /\ LastVal(ws, <<r, "hi">>) = w
        <4>1. LastMove(ws, <<r, "lo">>) = 1 /\ LastMove(ws, <<r, "hi">>) = 2
          <5> HIDE DEF ws
          <5>1. /\ 1 \in Writes(ws, <<r, "lo">>) /\ 2 \in Writes(ws, <<r, "hi">>)
                /\ \A j \in Writes(ws, <<r, "lo">>) : j <= 1
                /\ \A j \in Writes(ws, <<r, "hi">>) : j <= 2
            BY <3>4
          <5>2. LastMove(ws, <<r, "lo">>) = 1
            BY <3>1, <5>1, LastIs
          <5>3. LastMove(ws, <<r, "hi">>) = 2
            BY <3>1, <5>1, LastIs
          <5> QED BY <5>2, <5>3
        <4> QED BY <3>4, <4>1 DEF LastVal
      <3>8. \A c \in Data : Writes(ws, c) = {} <=> ~(c[1] = r /\ c[2] \in DOMAIN wf)
        BY <3>4, <3>5, <3>6
      <3>9. \A c \in Data : LastVal(ws, c) = IF c[1] = r /\ c[2] \in DOMAIN wf
                                             THEN wf[c[2]] ELSE NoWrite
        <4> TAKE c \in Data
        <4>1. CASE c = <<r, "lo">>
          BY <3>7, <4>1
        <4>2. CASE c = <<r, "hi">>
          <5>1. "hi" # "lo"
            OBVIOUS
          <5> QED BY <3>7, <4>2, <5>1
        <4>3. CASE c \notin {<<r, "lo">>, <<r, "hi">>}
          BY <3>5, <3>6, <4>3 DEF LastVal
        <4> QED BY <4>1, <4>2, <4>3
      <3>10. Equals!Issue(r, wf, lat)
        <4> HIDE DEF ws, wf
        <4> QED BY <3>1, <3>2, <3>3, <3>8, <3>9, QueueIssues
      <3> QED BY <3>10 DEF Equals!Next, Latency
    <2>3. ASSUME NEW t \in Target, NEW lat \in Latency, PD_delay_call(t, lat)
          PROVE  Equals!Next
      BY <2>3, CallIsCall DEF Equals!Next, Latency
    <2>4. CASE PD_execute_instructions
      <3>1. OneWakeup'
        BY DEF WakeupInv
      <3>2. Equals!Cycle
        BY <2>4, <3>1, ClockIsCycle
      <3> QED BY <3>2 DEF Equals!Next
    <2>5. ASSUME NEW f \in Target, PD_is_simulator_call(f)
          PROVE  UNCHANGED Equals!evars
      <3>1. last_call'.address = last_call.address
        BY <2>5 DEF PD_is_simulator_call, TypeOK
      <3> QED BY <2>5, <3>1, OthersStutter DEF PD_is_simulator_call
    <2>6. CASE UNCHANGED qvars
      BY <2>6, OthersStutter DEF qvars
    <2> QED BY <2>1, <2>2, <2>3, <2>4, <2>5, <2>6 DEF Next
  <1> QED BY <1>1, <1>2, TypeCorrect, NothingBeyond, WakeupInvariant, PTL
          DEF Spec, ImplementsEquals, Equals!Spec
=============================================================================
