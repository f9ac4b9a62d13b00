--------------------------- MODULE PipelineProofs ---------------------------
(***************************************************************************)
(* What holds of the loops that drive the action queue (Pipeline) for      *)
(* every program, number of registers, queue and nesting of calls, setjmps *)
(* and longjmps.                                                           *)
(***************************************************************************)
EXTENDS Pipeline, ActionQueueProofs, SequenceTheorems

\* What the queue keeps for its users.
QueueInv ==
    /\ TypeOK
    /\ NothingBeyondMaxLat
    /\ FlagMovesReady
    /\ \A r \in Reg : mem[Flag(r)] \in {READY, BUSY}
    /\ BusyIsReleased

\* The records of the stack.
PC == 0 .. PLEN - 1
Frame ==
    [k : {"kernel"}]
      \cup [k : {"aclock"}, left : Nat, at : PC]
      \cup [k : {"interlock"}, reg : Reg, slot : Slot, stepped : BOOLEAN,
            called : BOOLEAN, at : PC]
      \cup [k : {"call"}, targ : Target, pc : PC]
      \cup [k : {"return"}, pc : PC]
      \cup [k : {"setjmp"}, regs : SUBSET Reg]

\* What can be right above what.  The call of a clock starts, and returns, at the
\* operation the clock is part of.
Above(a, b) ==
    \/ a.k = "kernel" /\ b.k \in {"aclock", "interlock"}
    \/ a.k = "setjmp" /\ b.k = "interlock"
    \/ a.k = "return" /\ b.k \in {"kernel", "setjmp"}
    \/ /\ a.k \in {"aclock", "interlock"} /\ b.k \in {"call", "return"}
       /\ b.pc = a.at
       /\ a.k = "interlock" => a.stepped /\ a.called

\* A stack of records; nothing is called from the stalls of a setjmp.
Stack(s) ==
    /\ s \in Seq(Frame)
    /\ s # <<>> => s[1].k = "kernel"
    /\ \A i \in 1 .. Len(s) - 1 : Above(s[i], s[i + 1])
    /\ \A i \in 1 .. Len(s) - 2 : s[i].k # "setjmp"

Under == act[Len(act) - 1]
NoneQueued == \A s \in Slot : call[s] = NoCall

\* One call is in flight, and none while one starts or the kernel loop ends.  A
\* longjmp in flight has a buffer to go back to.
CallInv ==
    /\ \A s, t \in Slot : call[s] # NoCall /\ call[t] # NoCall => s = t
    /\ done => NoneQueued
    /\ act # <<>> /\ Top.k = "call" => NoneQueued
    /\ \A s \in Slot : call[s] # NoCall /\ call[s] = Longjmp => buffer # NoBuffer
    /\ act # <<>> /\ Top.k = "call" /\ Top.targ = Longjmp => buffer # NoBuffer

\* The registers setjmp has waited for stay ready until it is through, and so are all
\* those of the checkpoint.
SetjmpInv ==
    /\ act # <<>> /\ Top.k = "setjmp" =>
         /\ NoneQueued
         /\ \A r \in Reg \ Top.regs : mem[Flag(r)] # BUSY
    /\ Len(act) > 1 /\ Top.k = "interlock" /\ Under.k = "setjmp" =>
         /\ NoneQueued
         /\ \A r \in Reg \ (Under.regs \cup {Top.reg}) : mem[Flag(r)] # BUSY
    /\ buffer # NoBuffer =>
         /\ buffer.mem \in [Cell -> Word] /\ buffer.pc \in PC
         /\ \A r \in Reg : buffer.mem[Flag(r)] = READY

\* Where PC_REG is when a loop of the run-time is innermost.
PcInv ==
    /\ pc \in PC
    /\ act # <<>> /\ Top.k \in {"aclock", "interlock"} /\ ~longjmp_executed => pc = Top.at
    /\ longjmp_executed /\ outcome = "running" =>
         /\ act # <<>> /\ pc = buffer.pc
         /\ Top.k = "aclock" \/ (Top.k = "interlock" /\ Top.stepped)

\* A stall that k clocks have gone by of: what releases its register comes soon enough.
StalledFor(k) ==
    /\ k <= MAXLAT
    /\ Top.stepped => k > 0
    /\ PD_pending = (Top.slot + k) % QSIZE
    /\ mem[Flag(Top.reg)] = BUSY =>
         \E w \in Wakeups(Top.reg), d \in 0 .. MAXLAT - 1 : d + k < MAXLAT /\ w[1] = At(d)

\* As long as a stall has made no call it is one that k clocks have gone by of.
Uncalled == act # <<>> /\ Top.k = "interlock" /\ ~Top.called
StallInv ==
    /\ Uncalled => \E k \in 0 .. MAXLAT : StalledFor(k)
    /\ outcome = "deadlock" => act # <<>> /\ Top.k = "interlock" /\ Top.called

PInv ==
    /\ program \in Programs
    /\ QueueInv /\ Stack(act) /\ CallInv /\ SetjmpInv /\ PcInv /\ StallInv

-----------------------------------------------------------------------------
\* The queue under its users.

\* At the start nothing is queued and nothing is busy.
LEMMA QueueStart ==
  ASSUME Init
  PROVE  QueueInv
  <1>1. TypeOK /\ NothingBeyondMaxLat
    BY TypeInit, BeyondInit
  <1>2. FlagMovesReady
    BY DEF Init, PD_initialize_queue, FlagMovesReady
  <1>3. \A r \in Reg : mem[Flag(r)] = 0
    BY FlagCells DEF Init
  <1> QED BY <1>1, <1>2, <1>3 DEF QueueInv, BusyIsReleased, READY, BUSY

\* A queued write is released by the READY move behind it, or by the one the register
\* was owed already.
LEMMA WriteKeeps ==
  ASSUME QueueInv, NEW r \in Reg, NEW ws \in Seq(Move), NEW lat \in Latency,
         Queue(r, ws, lat),
         \A i \in 1 .. Len(ws), q \in Reg : ws[i].reg # Flag(q)
  PROVE  /\ FlagMovesReady'
         /\ \A q \in Reg : mem'[Flag(q)] \in {READY, BUSY}
         /\ BusyIsReleased'
  <1>1. FlagMovesReady'
    BY QueueFlags DEF QueueInv
  <1>2. mem' = [mem EXCEPT ![Flag(r)] = BUSY]
    BY DEF Queue
  <1>3. /\ mem'[Flag(r)] = BUSY
        /\ \A q \in Reg \ {r} : mem'[Flag(q)] = mem[Flag(q)]
    BY <1>2, FlagCells DEF QueueInv, TypeOK
  <1>4. /\ mem[Flag(r)] = BUSY => \A q \in Reg : Wakeups(q)' = Wakeups(q)
        /\ mem[Flag(r)] # BUSY =>
              \E w : \A q \in Reg : Wakeups(q)' = IF q = r THEN Wakeups(q) \cup {w}
                                                ELSE Wakeups(q)
    BY QueueWakeups DEF QueueInv
  <1>5. BusyIsReleased'
    <2>1. CASE mem[Flag(r)] = BUSY
      BY <1>3, <1>4, <2>1 DEF QueueInv, BusyIsReleased
    <2>2. CASE mem[Flag(r)] # BUSY
      <3>1. PICK w : \A q \in Reg : Wakeups(q)' = IF q = r THEN Wakeups(q) \cup {w}
                                                  ELSE Wakeups(q)
        BY <1>4, <2>2
      <3> QED BY <1>3, <3>1 DEF QueueInv, BusyIsReleased
    <2> QED BY <2>1, <2>2
  <1> QED BY <1>1, <1>3, <1>5 DEF QueueInv

\* A clock releases registers and makes none busy.
LEMMA ClockKeeps ==
  ASSUME QueueInv, PD_execute_instructions
  PROVE  /\ FlagMovesReady'
         /\ \A q \in Reg : mem'[Flag(q)] \in {READY, BUSY}
         /\ \A q \in Reg : mem'[Flag(q)] = BUSY => mem[Flag(q)] = BUSY
         /\ BusyIsReleased'
  <1>1. FlagMovesReady' /\ \A r \in Reg :
          /\ Wakeups(r)' = {w \in Wakeups(r) : w[1] # PD_pending}
          /\ mem'[Flag(r)] = IF \E w \in Wakeups(r) : w[1] = PD_pending
                             THEN READY ELSE mem[Flag(r)]
    BY ClockReleases DEF QueueInv
  <1>2. READY # BUSY
    BY DEF READY, BUSY
  <1>3. ASSUME NEW r \in Reg, mem'[Flag(r)] = BUSY
        PROVE  mem[Flag(r)] = BUSY /\ Wakeups(r)' # {}
    <2>1. ~\E w \in Wakeups(r) : w[1] = PD_pending
      BY <1>1, <1>2, <1>3
    <2>2. mem[Flag(r)] = BUSY /\ Wakeups(r)' = Wakeups(r)
      BY <1>1, <1>3, <2>1
    <2> QED BY <2>2 DEF QueueInv, BusyIsReleased
  <1> QED BY <1>1, <1>3 DEF QueueInv, BusyIsReleased

\* What moves neither the moves nor the memory changes no flag and no release.
LEMMA StillKeeps ==
  ASSUME QueueInv, UNCHANGED <<moves, mem>>
  PROVE  /\ FlagMovesReady'
         /\ \A q \in Reg : mem'[Flag(q)] \in {READY, BUSY}
         /\ BusyIsReleased'
  <1>1. \A r \in Reg : Wakeups(r)' = Wakeups(r)
    BY DEF Wakeups
  <1> QED BY <1>1 DEF QueueInv, FlagMovesReady, BusyIsReleased

\* Every step of the queue.
LEMMA QueueStep ==
  ASSUME QueueInv, [Next]_qvars
  PROVE  QueueInv'
  <1>1. TypeOK' /\ NothingBeyondMaxLat'
    BY TypeStep, BeyondStep DEF QueueInv
  <1>2. /\ FlagMovesReady'
        /\ \A q \in Reg : mem'[Flag(q)] \in {READY, BUSY}
        /\ BusyIsReleased'
    <2>1. ASSUME NEW r \in Reg, NEW v \in Val, NEW lat \in Latency, PD_delay(r, v, lat)
          PROVE  /\ FlagMovesReady'
                 /\ \A q \in Reg : mem'[Flag(q)] \in {READY, BUSY}
                 /\ BusyIsReleased'
      <3> DEFINE ws == <<[reg |-> <<r, "lo">>, val |-> v]>>
      <3>1. ws \in Seq(Move) /\ \A i \in 1 .. Len(ws), q \in Reg : ws[i].reg # Flag(q)
        BY MoveType, FlagCells
      <3>2. Queue(r, ws, lat)
        BY <2>1 DEF PD_delay
      <3> HIDE DEF ws
      <3> QED BY <3>1, <3>2, WriteKeeps
    <2>2. ASSUME NEW r \in Reg, NEW v \in Val, NEW w \in Val, NEW lat \in Latency,
                 PD_delay2x(r, v, w, lat)
          PROVE  /\ FlagMovesReady'
                 /\ \A q \in Reg : mem'[Flag(q)] \in {READY, BUSY}
                 /\ BusyIsReleased'
      <3> DEFINE ws == <<[reg |-> <<r, "lo">>, val |-> v],
                         [reg |-> <<r, "hi">>, val |-> w]>>
      <3>1. ws \in Seq(Move)
        BY MoveType
      <3>2. \A i \in 1 .. Len(ws), q \in Reg : ws[i].reg # Flag(q)
        <4> TAKE i \in 1 .. Len(ws), q \in Reg
        <4>1. i = 1 \/ i = 2
          OBVIOUS
        <4> QED BY <4>1, FlagCells
      <3>3. Queue(r, ws, lat)
        BY <2>2 DEF PD_delay2x
      <3> HIDE DEF ws
      <3> QED BY <3>1, <3>2, <3>3, WriteKeeps
    <2>3. CASE PD_execute_instructions
      BY <2>3, ClockKeeps
    <2>4. ASSUME NEW t \in Target, NEW lat \in Latency, PD_delay_call(t, lat)
          PROVE  UNCHANGED <<moves, mem>>
      BY <2>4 DEF PD_delay_call
    <2>5. ASSUME NEW f \in Target, PD_is_simulator_call(f)
          PROVE  UNCHANGED <<moves, mem>>
      BY <2>5 DEF PD_is_simulator_call
    <2>6. UNCHANGED qvars => UNCHANGED <<moves, mem>>
      BY DEF qvars
    <2> QED BY <2>1, <2>2, <2>3, <2>4, <2>5, <2>6, StillKeeps DEF Next
  <1> QED BY <1>1, <1>2 DEF QueueInv

-----------------------------------------------------------------------------
\* Stacks.

\* What is below the top of a stack is a stack, the top's place in it is right.
LEMMA Popped ==
  ASSUME NEW s, Stack(s), s # <<>>
  PROVE  LET B == SubSeq(s, 1, Len(s) - 1)
             top == s[Len(s)]
         IN  /\ Stack(B) /\ top \in Frame
             /\ Len(s) \in Nat \ {0} /\ Len(B) = Len(s) - 1
             /\ B = <<>> => top.k = "kernel" /\ Len(s) = 1
             /\ B # <<>> => /\ Above(B[Len(B)], top) /\ B[Len(B)] = s[Len(s) - 1]
                            /\ Len(s) > 1
             /\ Len(B) > 1 => B[Len(B) - 1].k # "setjmp"
  <1> DEFINE B == SubSeq(s, 1, Len(s) - 1)
             n == Len(s)
  <1>1. s \in Seq(Frame) /\ n \in Nat \ {0} /\ s[n] \in Frame
    BY DEF Stack
  <1>2. /\ B \in Seq(Frame) /\ Len(B) = n - 1
        /\ \A i \in 1 .. n - 1 : B[i] = s[i]
    <2>1. \A i \in 1 .. n - 1 : s[i] \in Frame
      BY <1>1
    <2> HIDE DEF n
    <2>2. 1 \in Int /\ n - 1 \in Int
      BY <1>1
    <2>3. /\ B \in Seq(Frame) /\ Len(B) = IF 1 <= n - 1 THEN n - 1 - 1 + 1 ELSE 0
          /\ \A i \in 1 .. n - 1 - 1 + 1 : B[i] = s[1 + i - 1]
      BY <2>1, <2>2, SubSeqProperties DEF n
    <2>4. \A i \in 1 .. n - 1 : i \in 1 .. n - 1 - 1 + 1 /\ 1 + i - 1 = i
      BY <1>1
    <2>5. \A i \in 1 .. n - 1 : B[i] = s[i]
      BY <2>3, <2>4
    <2> HIDE DEF B
    <2>6. Len(B) = n - 1
      BY <1>1, <2>3
    <2> QED BY <2>3, <2>5, <2>6
  <1>3. s[1].k = "kernel"
    BY DEF Stack
  <1>4. \A i \in 1 .. n - 1 : Above(s[i], s[i + 1])
    BY DEF Stack
  <1>5. \A i \in 1 .. n - 2 : s[i].k # "setjmp"
    BY DEF Stack
  <1> HIDE DEF B, n
  <1>6. Stack(B)
    <2>1. B # <<>> => B[1].k = "kernel"
      <3>1. B # <<>> => 1 \in 1 .. n - 1
        BY <1>1, <1>2, EmptySeq
      <3> QED BY <1>2, <1>3, <3>1
    <2>2. ASSUME NEW i \in 1 .. Len(B) - 1 PROVE Above(B[i], B[i + 1])
      <3>1. i \in 1 .. n - 1 /\ i + 1 \in 1 .. n - 1
        BY <1>1, <1>2
      <3> QED BY <1>2, <1>4, <3>1
    <2>3. ASSUME NEW i \in 1 .. Len(B) - 2 PROVE B[i].k # "setjmp"
      <3>1. i \in 1 .. n - 1 /\ i \in 1 .. n - 2
        BY <1>1, <1>2
      <3> QED BY <1>2, <1>5, <3>1
    <2> QED BY <1>2, <2>1, <2>2, <2>3 DEF Stack
  <1>7. B = <<>> => s[n].k = "kernel" /\ n = 1
    <2>1. B = <<>> => n = 1
      BY <1>1, <1>2
    <2> QED BY <1>3, <2>1
  <1>8. B # <<>> => Above(B[Len(B)], s[n]) /\ B[Len(B)] = s[n - 1] /\ n > 1
    <2> SUFFICES ASSUME B # <<>>
                 PROVE  Above(B[Len(B)], s[n]) /\ B[Len(B)] = s[n - 1] /\ n > 1
      OBVIOUS
    <2>1. n - 1 \in 1 .. n - 1 /\ n - 1 + 1 = n /\ n > 1
      BY <1>1, <1>2, EmptySeq
    <2> QED BY <1>2, <1>4, <2>1
  <1>9. Len(B) > 1 => B[Len(B) - 1].k # "setjmp"
    <2> SUFFICES ASSUME Len(B) > 1 PROVE B[Len(B) - 1].k # "setjmp"
      OBVIOUS
    <2>1. n - 2 \in 1 .. n - 2 /\ n - 2 \in 1 .. n - 1 /\ Len(B) - 1 = n - 2
      BY <1>1, <1>2
    <2> QED BY <1>2, <1>5, <2>1
  <1> QED BY <1>1, <1>2, <1>6, <1>7, <1>8, <1>9 DEF B, n

\* A record that may be above the top makes a stack with it.
LEMMA Pushed ==
  ASSUME NEW s, Stack(s), NEW x \in Frame,
         s = <<>> => x.k = "kernel",
         s # <<>> => Above(s[Len(s)], x),
         Len(s) > 1 => s[Len(s) - 1].k # "setjmp"
  PROVE  LET t == Append(s, x)
         IN  /\ Stack(t) /\ t # <<>> /\ t[Len(t)] = x /\ Len(t) = Len(s) + 1
             /\ s # <<>> => t[Len(t) - 1] = s[Len(s)]
  <1> DEFINE t == Append(s, x)
             n == Len(s)
  <1>1. s \in Seq(Frame) /\ n \in Nat /\ (s # <<>> => n > 0) /\ (s = <<>> => n = 0)
    BY EmptySeq DEF Stack
  <1>2. /\ t \in Seq(Frame) /\ t # <<>> /\ Len(t) = n + 1
        /\ \A i \in 1 .. n : t[i] = s[i]
        /\ t[n + 1] = x
    BY <1>1, AppendProperties
  <1>3. s # <<>> => s[1].k = "kernel"
    BY DEF Stack
  <1>4. \A i \in 1 .. n - 1 : Above(s[i], s[i + 1])
    BY DEF Stack
  <1>5. \A i \in 1 .. n - 2 : s[i].k # "setjmp"
    BY DEF Stack
  <1>6. (n > 0 => Above(s[n], x)) /\ (n > 1 => s[n - 1].k # "setjmp")
    BY <1>1
  <1> HIDE DEF t, n
  <1>7. t[1].k = "kernel"
    <2>1. CASE s = <<>>
      BY <1>1, <1>2, <2>1
    <2>2. CASE s # <<>>
      <3>1. 1 \in 1 .. n
        BY <1>1, <2>2
      <3> QED BY <1>2, <1>3, <2>2, <3>1
    <2> QED BY <2>1, <2>2
  <1>8. ASSUME NEW i \in 1 .. Len(t) - 1 PROVE Above(t[i], t[i + 1])
    <2>1. CASE i = n
      <3>1. n \in 1 .. n /\ n > 0
        BY <1>1, <1>2, <2>1
      <3> QED BY <1>2, <1>6, <2>1, <3>1
    <2>2. CASE i # n
      <3>1. i \in 1 .. n /\ i + 1 \in 1 .. n /\ i \in 1 .. n - 1
        BY <1>1, <1>2, <2>2
      <3> QED BY <1>2, <1>4, <3>1
    <2> QED BY <2>1, <2>2
  <1>9. ASSUME NEW i \in 1 .. Len(t) - 2 PROVE t[i].k # "setjmp"
    <2>1. i \in 1 .. n /\ i \in 1 .. n - 1
      BY <1>1, <1>2
    <2>2. CASE i = n - 1
      BY <1>1, <1>2, <1>6, <2>1, <2>2
    <2>3. CASE i # n - 1
      <3>1. i \in 1 .. n - 2
        BY <1>1, <2>1, <2>3
      <3> QED BY <1>2, <1>5, <2>1, <3>1
    <2> QED BY <2>2, <2>3
  <1>10. Stack(t)
    BY <1>2, <1>7, <1>8, <1>9 DEF Stack
  <1>11. s # <<>> => t[Len(t) - 1] = s[n]
    <2> SUFFICES ASSUME s # <<>> PROVE t[Len(t) - 1] = s[n]
      OBVIOUS
    <2>1. n \in 1 .. n /\ Len(t) - 1 = n
      BY <1>1, <1>2
    <2> QED BY <1>2, <2>1
  <1> QED BY <1>2, <1>10, <1>11 DEF t, n

\* Joining what has one or two records pushes them.
LEMMA JoinPushes ==
  ASSUME NEW S, NEW s \in Seq(S), NEW x \in S, NEW y \in S
  PROVE  /\ s \o <<>> = s
         /\ s \o <<x>> = Append(s, x)
         /\ s \o <<x, y>> = Append(Append(s, x), y)
  <1>1. s \o <<>> = s
    BY ConcatEmptySeq
  <1>2. s \o <<x>> = Append(s, x)
    BY AppendIsConcat
  <1>3. <<x>> \in Seq(S) /\ <<y>> \in Seq(S)
    OBVIOUS
  <1>4. Append(<<x>>, y) = <<x, y>>
    <2> DEFINE t == Append(<<x>>, y)
               u == <<x, y>>
    <2>1. t \in Seq(S) /\ Len(t) = 2 /\ t[1] = x /\ t[2] = y
      BY <1>3, AppendProperties
    <2>2. u \in Seq(S) /\ Len(u) = 2 /\ u[1] = x /\ u[2] = y
      OBVIOUS
    <2> HIDE DEF t, u
    <2>3. \A i \in 1 .. Len(t) : t[i] = u[i]
      BY <2>1, <2>2
    <2>4. t = u
      BY <2>1, <2>2, <2>3, SeqEqual
    <2> QED BY <2>4 DEF t, u
  <1>5. Append(<<x>>, y) = <<x>> \o <<y>>
    BY <1>3, AppendIsConcat
  <1>6. s \o (<<x>> \o <<y>>) = (s \o <<x>>) \o <<y>>
    BY <1>3, ConcatAssociative
  <1>7. Append(s, x) \in Seq(S)
    BY AppendProperties
  <1>8. Append(s, x) \o <<y>> = Append(Append(s, x), y)
    BY <1>7, AppendIsConcat
  <1> QED BY <1>1, <1>2, <1>4, <1>5, <1>6, <1>8

LEMMA FramesPushed ==
  \A s \in Seq(Frame), x, y \in Frame : s \o <<x, y>> = Append(Append(s, x), y)
  BY JoinPushes

-----------------------------------------------------------------------------
\* Records.

\* The fields of a record, by its kind.
LEMMA Fields ==
  ASSUME NEW x \in Frame
  PROVE  /\ x.k = "aclock" => x \in [k : {"aclock"}, left : Nat, at : PC]
         /\ x.k = "interlock" =>
              x \in [k : {"interlock"}, reg : Reg, slot : Slot, stepped : BOOLEAN,
                     called : BOOLEAN, at : PC]
         /\ x.k = "call" => x \in [k : {"call"}, targ : Target, pc : PC]
         /\ x.k = "return" => x \in [k : {"return"}, pc : PC]
         /\ x.k = "setjmp" => x \in [k : {"setjmp"}, regs : SUBSET Reg]
  BY DEF Frame

\* The records the run-time makes of one another.
LEMMA Changed ==
  ASSUME NEW x \in Frame
  PROVE  /\ x.k = "aclock" /\ x.left > 0 =>
              LET y == [x EXCEPT !.left = @ - 1]
              IN  y \in Frame /\ y.k = "aclock" /\ y.at = x.at
         /\ x.k = "interlock" => \A b \in BOOLEAN :
              LET y == [x EXCEPT !.stepped = b]
              IN  /\ y \in Frame /\ y.k = "interlock" /\ y.at = x.at /\ y.stepped = b
                  /\ y.reg = x.reg /\ y.slot = x.slot /\ y.called = x.called
         /\ x.k = "setjmp" => \A r :
              LET y == [x EXCEPT !.regs = @ \ {r}]
              IN  y \in Frame /\ y.k = "setjmp" /\ y.regs = x.regs \ {r}
  <1>1. ASSUME x.k = "aclock", x.left > 0
        PROVE  LET y == [x EXCEPT !.left = @ - 1]
               IN  y \in Frame /\ y.k = "aclock" /\ y.at = x.at
    <2>1. x \in [k : {"aclock"}, left : Nat, at : PC]
      BY <1>1, Fields
    <2>2. x.left - 1 \in Nat
      BY <1>1, <2>1
    <2> DEFINE y == [x EXCEPT !.left = @ - 1]
    <2>3. y \in [k : {"aclock"}, left : Nat, at : PC] /\ y.at = x.at
      BY <2>1, <2>2
    <2> HIDE DEF y
    <2>4. y \in Frame /\ y.k = "aclock" /\ y.at = x.at
      BY <2>3 DEF Frame
    <2> QED BY <2>4 DEF y
  <1>2. ASSUME x.k = "interlock", NEW b \in BOOLEAN
        PROVE  LET y == [x EXCEPT !.stepped = b]
               IN  /\ y \in Frame /\ y.k = "interlock" /\ y.at = x.at /\ y.stepped = b
                   /\ y.reg = x.reg /\ y.slot = x.slot /\ y.called = x.called
    <2>1. x \in [k : {"interlock"}, reg : Reg, slot : Slot, stepped : BOOLEAN,
                 called : BOOLEAN, at : PC]
      BY <1>2, Fields
    <2> DEFINE y == [x EXCEPT !.stepped = b]
    <2>2. /\ y \in [k : {"interlock"}, reg : Reg, slot : Slot, stepped : BOOLEAN,
                    called : BOOLEAN, at : PC]
          /\ y.at = x.at /\ y.stepped = b /\ y.reg = x.reg /\ y.slot = x.slot
          /\ y.called = x.called
      BY <2>1
    <2> HIDE DEF y
    <2>3. y \in Frame /\ y.k = "interlock"
      BY <2>2 DEF Frame
    <2> QED BY <2>2, <2>3 DEF y
  <1>3. ASSUME x.k = "setjmp", NEW r
        PROVE  LET y == [x EXCEPT !.regs = @ \ {r}]
               IN  y \in Frame /\ y.k = "setjmp" /\ y.regs = x.regs \ {r}
    <2>1. x \in [k : {"setjmp"}, regs : SUBSET Reg]
      BY <1>3, Fields
    <2> DEFINE y == [x EXCEPT !.regs = @ \ {r}]
    <2>2. y \in [k : {"setjmp"}, regs : SUBSET Reg] /\ y.regs = x.regs \ {r}
      BY <2>1
    <2> HIDE DEF y
    <2>3. y \in Frame /\ y.k = "setjmp"
      BY <2>2 DEF Frame
    <2> QED BY <2>2, <2>3 DEF y
  <1> QED BY <1>1, <1>2, <1>3

\* The record of a stall after one of its clocks.
LEMMA Clocked ==
  ASSUME NEW x \in Frame, x.k = "interlock", NEW c \in BOOLEAN
  PROVE  LET y == [x EXCEPT !.stepped = TRUE, !.called = c]
         IN  /\ y \in Frame /\ y.k = "interlock" /\ y.at = x.at /\ y.stepped
             /\ y.reg = x.reg /\ y.slot = x.slot /\ y.called = c
  <1> DEFINE y == [x EXCEPT !.stepped = TRUE, !.called = c]
             R == [k : {"interlock"}, reg : Reg, slot : Slot, stepped : BOOLEAN,
                   called : BOOLEAN, at : PC]
  <1>1. x \in R
    BY Fields
  <1>2. /\ y \in R /\ y.at = x.at /\ y.stepped /\ y.reg = x.reg /\ y.slot = x.slot
        /\ y.called = c
    BY <1>1
  <1> HIDE DEF y
  <1>3. y \in Frame /\ y.k = "interlock"
    BY <1>2 DEF Frame
  <1> QED BY <1>2, <1>3 DEF y

\* What is known of the innermost record and the one below it.
LEMMA Innermost ==
  ASSUME Stack(act), act # <<>>
  PROVE  /\ Top \in Frame /\ Stack(Below) /\ Len(act) \in Nat \ {0}
         /\ Len(Below) = Len(act) - 1 /\ act[1].k = "kernel"
         /\ Below = <<>> => Top.k = "kernel" /\ Len(act) = 1
         /\ Below # <<>> => Below[Len(Below)] = Under /\ Above(Under, Top) /\ Len(act) > 1
         /\ Len(Below) > 1 => Below[Len(Below) - 1].k # "setjmp"
  BY Popped DEF Top, Under, Below, Stack

\* Replacing the innermost record by one of its kind, which returns where it did.
LEMMA Replaced ==
  ASSUME Stack(act), act # <<>>, NEW x \in Frame,
         Top.k = "kernel" => x.k = "kernel",
         Below # <<>> => Above(Under, x)
  PROVE  LET t == Append(Below, x)
         IN  /\ Stack(t) /\ t # <<>> /\ t[Len(t)] = x /\ Len(t) = Len(act)
             /\ Len(act) > 1 => t[Len(t) - 1] = Under
  <1> DEFINE t == Append(Below, x)
  <1>1. /\ Stack(Below) /\ Len(Below) = Len(act) - 1 /\ Len(act) \in Nat \ {0}
        /\ Below = <<>> => Top.k = "kernel" /\ Len(act) = 1
        /\ Below # <<>> => Below[Len(Below)] = Under
        /\ Len(Below) > 1 => Below[Len(Below) - 1].k # "setjmp"
    BY Innermost
  <1>2. /\ Stack(t) /\ t # <<>> /\ t[Len(t)] = x /\ Len(t) = Len(Below) + 1
        /\ Below # <<>> => t[Len(t) - 1] = Below[Len(Below)]
    BY <1>1, Pushed
  <1>3. Len(act) > 1 => Below # <<>>
    BY <1>1, EmptySeq
  <1> HIDE DEF t
  <1>4. Len(t) = Len(act)
    BY <1>1, <1>2
  <1> QED BY <1>1, <1>2, <1>3, <1>4 DEF t

\* A call above the loop that made it.
LEMMA TwoPushed ==
  ASSUME NEW s, Stack(s), NEW x \in Frame, NEW y \in Frame,
         s = <<>> => x.k = "kernel",
         s # <<>> => Above(s[Len(s)], x),
         Len(s) > 1 => s[Len(s) - 1].k # "setjmp",
         Above(x, y), s # <<>> => s[Len(s)].k # "setjmp"
  PROVE  LET t == Append(Append(s, x), y)
         IN  /\ Stack(t) /\ t # <<>> /\ t[Len(t)] = y /\ Len(t) = Len(s) + 2
             /\ t[Len(t) - 1] = x
  <1> DEFINE u == Append(s, x)
  <1>1. /\ Stack(u) /\ u # <<>> /\ u[Len(u)] = x /\ Len(u) = Len(s) + 1
        /\ s # <<>> => u[Len(u) - 1] = s[Len(s)]
    BY Pushed
  <1>2. Len(s) \in Nat /\ (s = <<>> => Len(s) = 0)
    BY EmptySeq, LenProperties DEF Stack
  <1> HIDE DEF u
  <1>3. Len(u) > 1 => s # <<>>
    BY <1>1, <1>2
  <1>4. Len(u) > 1 => u[Len(u) - 1].k # "setjmp"
    BY <1>1, <1>3
  <1>5. /\ Stack(Append(u, y)) /\ Append(u, y) # <<>> /\ Append(u, y)[Len(Append(u, y))] = y
        /\ Len(Append(u, y)) = Len(u) + 1
        /\ Append(u, y)[Len(Append(u, y)) - 1] = u[Len(u)]
    BY <1>1, <1>4, Pushed
  <1>6. Len(u) + 1 = Len(s) + 2
    BY <1>1, <1>2
  <1> QED BY <1>1, <1>5, <1>6 DEF u

\* The C stack after a step, when a record is pushed, popped, or replaced by one or two.
LEMMA PushAct ==
  ASSUME Stack(act), act # <<>>, NEW x \in Frame, Above(Top, x),
         Len(act) > 1 => Under.k # "setjmp", act' = Append(act, x)
  PROVE  /\ Stack(act)' /\ act' # <<>> /\ Top' = x /\ Under' = Top
         /\ Len(act') = Len(act) + 1
  <1>1. /\ Stack(act') /\ act' # <<>> /\ act'[Len(act')] = x /\ Len(act') = Len(act) + 1
        /\ act'[Len(act') - 1] = act[Len(act)]
    BY Pushed DEF Top, Under
  <1> QED BY <1>1 DEF Top, Under

LEMMA PopAct ==
  ASSUME Stack(act), act # <<>>, act' = Below
  PROVE  /\ Stack(act)' /\ Len(act') = Len(act) - 1
         /\ Top.k # "kernel" => act' # <<>>
         /\ act' # <<>> => Top' = Under /\ Above(Under, Top) /\ Len(act) > 1
         /\ Len(act') > 1 => Under'.k # "setjmp"
  BY Innermost DEF Top, Under

LEMMA SwapAct ==
  ASSUME Stack(act), act # <<>>, NEW x \in Frame,
         Top.k = "kernel" => x.k = "kernel",
         Below # <<>> => Above(Under, x),
         act' = Append(Below, x)
  PROVE  /\ Stack(act)' /\ act' # <<>> /\ Top' = x /\ Len(act') = Len(act)
         /\ Len(act') > 1 => Under' = Under
  <1>1. /\ Stack(act') /\ act' # <<>> /\ act'[Len(act')] = x /\ Len(act') = Len(act)
        /\ Len(act) > 1 => act'[Len(act') - 1] = Under
    BY Replaced
  <1> QED BY <1>1 DEF Top, Under

LEMMA SplitAct ==
  ASSUME Stack(act), act # <<>>, NEW x \in Frame, NEW y \in Frame,
         Top.k # "kernel", Above(Under, x), Above(x, y), Under.k # "setjmp",
         act' = Append(Append(Below, x), y)
  PROVE  /\ Stack(act)' /\ act' # <<>> /\ Top' = y /\ Under' = x
         /\ Len(act') = Len(act) + 1 /\ Len(act') > 1
  <1>1. /\ Stack(Below) /\ Len(Below) = Len(act) - 1 /\ Len(act) \in Nat \ {0}
        /\ Below # <<>> /\ Below[Len(Below)] = Under
        /\ Len(Below) > 1 => Below[Len(Below) - 1].k # "setjmp"
    BY Innermost
  <1>2. /\ Stack(act') /\ act' # <<>> /\ act'[Len(act')] = y /\ Len(act') = Len(Below) + 2
        /\ act'[Len(act') - 1] = x
    BY <1>1, TwoPushed
  <1> QED BY <1>1, <1>2 DEF Top, Under

-----------------------------------------------------------------------------
\* The steps.

\* All steps of the loops but a longjmp are steps of the queue, or leave it alone.
LEMMA QueueNext ==
  ASSUME program \in Programs, PNext, ~CallLongjmp
  PROVE  [Next]_qvars
  <1>1. program.regs \subseteq Reg /\ program.calls \subseteq Target
    BY ProgramsAssumption
  <1>2. ASSUME NEW r \in program.regs, NEW v \in Val, NEW lat \in Latency, Write(r, v, lat)
        PROVE  Next
    BY <1>1, <1>2 DEF Write, Next
  <1>3. ASSUME NEW t \in program.calls, NEW lat \in Latency, Branch(t, lat)
        PROVE  Next
    BY <1>1, <1>3 DEF Branch, Next
  <1>4. ASSUME AclockStep \/ InterlockStep
        PROVE  Next
    BY <1>4 DEF AclockStep, InterlockStep, Clock, Next
  <1>5. ASSUME CallFunction
        PROVE  Next
    BY <1>5 DEF CallFunction, Function, Next
  <1>6. ASSUME \/ \E r \in program.regs : Read(r)
               \/ \E clocks \in 1 .. 2 : Aclock(clocks)
               \/ AclockReturns \/ InterlockCheck \/ InterlockReturns
               \/ CallEpilogue \/ CallSetjmp
               \/ SetjmpDrains \/ SetjmpSaves
               \/ CallReturns \/ KernelReturns
        PROVE  UNCHANGED qvars
    BY <1>6 DEF Read, Aclock, AclockReturns, InterlockCheck, InterlockReturns, CallEpilogue,
                CallSetjmp, SetjmpDrains, SetjmpSaves, CallReturns, KernelReturns
  <1> QED BY <1>2, <1>3, <1>4, <1>5, <1>6 DEF PNext, Program, RunTime

\* The next operation is one.
LEMMA NextPCType ==
  ASSUME pc \in PC
  PROVE  NextPC \in PC
  <1>1. pc + 1 \in Nat
    BY PlenAssumption DEF PC
  <1>2. \A n \in Nat : n % PLEN \in 0 .. PLEN - 1
    BY PlenAssumption
  <1> QED BY <1>1, <1>2 DEF NextPC, PC

\* Queueing a write.
LEMMA WriteInv ==
  ASSUME PInv, QueueInv', NEW r, NEW v, NEW lat, Write(r, v, lat)
  PROVE  PInv'
  <1>1. /\ Top.k = "kernel" /\ act # <<>> /\ ~longjmp_executed
        /\ pc' = NextPC
        /\ UNCHANGED <<program, act, done, buffer, longjmp_executed, outcome, call>>
    BY DEF Write, Issuing, Running, PD_delay, Queue
  <1>2. Stack(act)' /\ Top' = Top /\ (NoneQueued' <=> NoneQueued)
    BY <1>1 DEF PInv, Stack, Top, NoneQueued
  <1>3. CallInv'
    BY <1>1, <1>2 DEF PInv, CallInv
  <1>4. SetjmpInv'
    BY <1>1, <1>2 DEF PInv, SetjmpInv
  <1>5. PcInv'
    BY <1>1, <1>2, NextPCType DEF PInv, PcInv
  <1>6. StallInv'
    BY <1>1, <1>2 DEF PInv, StallInv, Uncalled
  <1> QED BY <1>1, <1>2, <1>3, <1>4, <1>5, <1>6 DEF PInv

\* Queueing a call, when none is in flight.
LEMMA BranchInv ==
  ASSUME PInv, QueueInv', NEW t \in program.calls, NEW lat \in Latency, Branch(t, lat)
  PROVE  PInv'
  <1>1. /\ Top.k = "kernel" /\ act # <<>> /\ ~longjmp_executed /\ ~done
        /\ NoneQueued
        /\ pc' = NextPC
        /\ t = Longjmp => buffer # NoBuffer
        /\ UNCHANGED <<program, act, done, buffer, longjmp_executed, outcome>>
        /\ call' = call \/ call' = [call EXCEPT ![Attime(lat)] = t]
    BY DEF Branch, Issuing, Running, PD_delay_call, NoneQueued
  <1>2. Stack(act)' /\ Top' = Top
    BY <1>1 DEF PInv, Stack, Top
  <1>3. Attime(lat) \in Slot /\ call \in [Slot -> Target \cup {NoCall}]
    BY AttimeSlot DEF PInv, QueueInv, TypeOK
  <1>4. \A s \in Slot : call'[s] = NoCall \/ (s = Attime(lat) /\ call'[s] = t)
    BY <1>1, <1>3 DEF NoneQueued
  <1>5. CallInv'
    BY <1>1, <1>2, <1>4, NoCallAssumption DEF PInv, CallInv
  <1>6. SetjmpInv'
    BY <1>1, <1>2 DEF PInv, SetjmpInv
  <1>7. PcInv'
    BY <1>1, <1>2, NextPCType DEF PInv, PcInv
  <1>8. StallInv'
    BY <1>1, <1>2 DEF PInv, StallInv, Uncalled
  <1> QED BY <1>1, <1>2, <1>5, <1>6, <1>7, <1>8 DEF PInv

\* Every slot is at some distance, and a READY move at one that a latency spans.
LEMMA SlotIsAt ==
  ASSUME PD_pending \in Slot, NEW s \in Slot
  PROVE  \E d \in 0 .. QSIZE - 1 : s = At(d)
  <1>1. \A d \in 0 .. QSIZE - 1 :
          At(d) = IF PD_pending + d < QSIZE THEN PD_pending + d ELSE PD_pending + d - QSIZE
    BY ModCases, QSizeAssumption DEF Slot, At
  <1>2. CASE s >= PD_pending
    <2>1. s - PD_pending \in 0 .. QSIZE - 1 /\ PD_pending + (s - PD_pending) = s /\ s < QSIZE
      BY <1>2, QSizeAssumption DEF Slot
    <2>2. At(s - PD_pending) = s
      BY <1>1, <2>1
    <2> QED BY <2>1, <2>2
  <1>3. CASE ~(s >= PD_pending)
    <2> DEFINE d == s - PD_pending + QSIZE
    <2>1. d \in 0 .. QSIZE - 1 /\ ~(PD_pending + d < QSIZE) /\ PD_pending + d - QSIZE = s
      BY <1>3, QSizeAssumption DEF Slot
    <2>2. At(d) = s
      BY <1>1, <2>1
    <2> QED BY <2>1, <2>2
  <1> QED BY <1>2, <1>3

LEMMA WakeupNear ==
  ASSUME TypeOK, NothingBeyondMaxLat, NEW r \in Reg, NEW w \in Wakeups(r)
  PROVE  \E d \in 0 .. MAXLAT - 1 : w[1] = At(d)
  <1>1. w[1] \in Slot /\ moves[w[1]] # <<>>
    <2>1. w[1] \in Slot /\ w[2] \in 1 .. MAXWRITE /\ w[2] <= Len(moves[w[1]])
      BY DEF Wakeups
    <2>2. Len(moves[w[1]]) # 0
      BY <2>1, MaxWriteAssumption
    <2> QED BY <2>1, <2>2, EmptySeq
  <1>2. PICK d \in 0 .. QSIZE - 1 : w[1] = At(d)
    BY <1>1, SlotIsAt DEF TypeOK
  <1>3. d \notin MAXLAT .. QSIZE - 1
    BY <1>1, <1>2 DEF NothingBeyondMaxLat
  <1>4. d \in 0 .. MAXLAT - 1
    BY <1>3, MaxLatAssumption, QSizeAssumption
  <1> QED BY <1>2, <1>4

\* A stall begins: the release of its register, if it is busy, is near enough.
LEMMA StallBegins ==
  ASSUME QueueInv, NEW r \in Reg, UNCHANGED <<PD_pending, moves, mem>>,
         Top'.slot = PD_pending, Top'.reg = r, ~Top'.stepped
  PROVE  \E k \in 0 .. MAXLAT : StalledFor(k)'
  <1>1. 0 <= MAXLAT /\ 0 \in 0 .. MAXLAT
    BY MaxLatAssumption
  <1>2. PD_pending' = (Top'.slot + 0) % QSIZE
    <2>1. PD_pending \in 0 .. QSIZE - 1
      BY DEF QueueInv, TypeOK, Slot
    <2>2. (PD_pending + 0) % QSIZE = PD_pending
      BY <2>1, ModCases, QSizeAssumption
    <2> QED BY <2>2
  <1>3. ASSUME mem'[Flag(r)] = BUSY
        PROVE  \E w \in Wakeups(r)', d \in 0 .. MAXLAT - 1 : d + 0 < MAXLAT /\ w[1] = At(d)'
    <2>1. PICK w \in Wakeups(r) : TRUE
      BY <1>3 DEF QueueInv, BusyIsReleased
    <2>2. PICK d \in 0 .. MAXLAT - 1 : w[1] = At(d)
      BY <2>1, WakeupNear DEF QueueInv
    <2>3. d + 0 < MAXLAT
      BY MaxLatAssumption
    <2>4. At(d)' = At(d) /\ Wakeups(r)' = Wakeups(r)
      BY DEF At, Wakeups
    <2> QED BY <2>2, <2>3, <2>4
  <1>4. StalledFor(0)'
    BY <1>1, <1>2, <1>3 DEF StalledFor
  <1> QED BY <1>1, <1>4

\* A register is read: check_interlock begins.
LEMMA ReadInv ==
  ASSUME PInv, QueueInv', NEW r \in Reg, Read(r)
  PROVE  PInv'
  <1> DEFINE x == Interlock(r)
  <1>1. /\ Top.k = "kernel" /\ act # <<>> /\ ~longjmp_executed
        /\ act' = Append(act, x)
        /\ UNCHANGED <<program, qvars, pc, done, buffer, longjmp_executed, outcome>>
        /\ UNCHANGED <<PD_pending, moves, call, mem>>
    BY DEF Read, Issuing, Running, qvars
  <1>2. /\ x \in Frame /\ x.k = "interlock" /\ x.at = pc /\ x.reg = r /\ x.slot = PD_pending
        /\ ~x.stepped
    BY DEF Interlock, Frame, PInv, PcInv, QueueInv, TypeOK
  <1>3. Above(Top, x) /\ (Len(act) > 1 => Under.k # "setjmp")
    <2>1. Len(act) > 1 => Below # <<>>
      BY <1>1, Innermost, EmptySeq DEF PInv
    <2>2. Len(act) > 1 => Above(Under, Top)
      BY <1>1, <2>1, Innermost DEF PInv
    <2> QED BY <1>1, <1>2, <2>2 DEF Above
  <1> HIDE DEF x
  <1>4. /\ Stack(act)' /\ act' # <<>> /\ Top' = x /\ Under' = Top
        /\ Len(act') = Len(act) + 1
    BY <1>1, <1>2, <1>3, PushAct DEF PInv
  <1>5. NoneQueued' <=> NoneQueued
    BY <1>1 DEF NoneQueued
  <1>6. CallInv'
    BY <1>1, <1>2, <1>4, <1>5 DEF PInv, CallInv
  <1>7. SetjmpInv'
    BY <1>1, <1>2, <1>4 DEF PInv, SetjmpInv
  <1>8. PcInv'
    BY <1>1, <1>2, <1>4 DEF PInv, PcInv
  <1>9. StallInv'
    <2>1. \E k \in 0 .. MAXLAT : StalledFor(k)'
      BY <1>1, <1>2, <1>4, StallBegins DEF PInv
    <2>2. outcome # "deadlock"
      BY DEF Read, Issuing, Running
    <2> QED BY <1>1, <2>1, <2>2 DEF StallInv
  <1> QED BY <1>1, <1>4, <1>6, <1>7, <1>8, <1>9 DEF PInv

\* __PD_aclock begins.
LEMMA AclockInv ==
  ASSUME PInv, QueueInv', NEW clocks \in 1 .. 2, Aclock(clocks)
  PROVE  PInv'
  <1> DEFINE x == Clocks(clocks)
  <1>1. /\ Top.k = "kernel" /\ act # <<>> /\ ~longjmp_executed
        /\ act' = Append(act, x)
        /\ UNCHANGED <<program, pc, done, buffer, longjmp_executed, outcome>>
        /\ UNCHANGED <<PD_pending, moves, call, mem>>
    BY DEF Aclock, Issuing, Running, qvars
  <1>2. x \in Frame /\ x.k = "aclock" /\ x.at = pc
    BY DEF Clocks, Frame, PInv, PcInv
  <1>3. Above(Top, x) /\ (Len(act) > 1 => Under.k # "setjmp")
    <2>1. Len(act) > 1 => Below # <<>>
      BY <1>1, Innermost, EmptySeq DEF PInv
    <2>2. Len(act) > 1 => Above(Under, Top)
      BY <1>1, <2>1, Innermost DEF PInv
    <2> QED BY <1>1, <1>2, <2>2 DEF Above
  <1> HIDE DEF x
  <1>4. /\ Stack(act)' /\ act' # <<>> /\ Top' = x /\ Under' = Top
        /\ Len(act') = Len(act) + 1
    BY <1>1, <1>2, <1>3, PushAct DEF PInv
  <1>5. NoneQueued' <=> NoneQueued
    BY <1>1 DEF NoneQueued
  <1>6. CallInv'
    BY <1>1, <1>2, <1>4, <1>5 DEF PInv, CallInv
  <1>7. SetjmpInv'
    BY <1>1, <1>2, <1>4 DEF PInv, SetjmpInv
  <1>8. PcInv'
    BY <1>1, <1>2, <1>4 DEF PInv, PcInv
  <1>9. StallInv'
    <2>1. outcome # "deadlock"
      BY DEF Aclock, Issuing, Running
    <2> QED BY <1>1, <1>2, <1>4, <2>1 DEF StallInv, Uncalled
  <1> QED BY <1>1, <1>4, <1>6, <1>7, <1>8, <1>9 DEF PInv

\* A clock takes a call away, or leaves the calls alone.
LEMMA ClockCalls ==
  ASSUME PInv, PD_execute_instructions
  PROVE  /\ \A s \in Slot : call'[s] # NoCall => call'[s] = call[s]
         /\ NoneQueued => DueCall = NoCall /\ NoneQueued'
         /\ DueCall # NoCall => /\ DueCall \in Target /\ NoneQueued'
                                /\ DueCall = Longjmp => buffer # NoBuffer
  <1>1. /\ call' = [call EXCEPT ![PD_pending] = NoCall]
        /\ call \in [Slot -> Target \cup {NoCall}] /\ PD_pending \in Slot
    BY DEF PD_execute_instructions, PInv, QueueInv, TypeOK
  <1>2. \A s \in Slot : call'[s] = IF s = PD_pending THEN NoCall ELSE call[s]
    BY <1>1
  <1>3. DueCall # NoCall => /\ DueCall \in Target
                            /\ \A s \in Slot \ {PD_pending} : call[s] = NoCall
                            /\ DueCall = Longjmp => buffer # NoBuffer
    BY <1>1 DEF PInv, CallInv, DueCall
  <1>4. NoneQueued => DueCall = NoCall
    BY <1>1 DEF NoneQueued, DueCall
  <1> QED BY <1>2, <1>3, <1>4 DEF NoneQueued

\* The stack after a clock: the loop's record has changed, and is perhaps below a call.
LEMMA ClockAct ==
  ASSUME PInv, act # <<>>, ~longjmp_executed, Top.k \in {"aclock", "interlock"},
         NEW a \in Frame, Clock(a), a.k = Top.k, a.at = Top.at,
         a.k = "interlock" => a.stepped /\ (DueCall # NoCall => a.called)
  PROVE  /\ Stack(act)' /\ act' # <<>>
         /\ DueCall = NoCall => /\ Top' = a /\ Len(act') = Len(act)
                                /\ Len(act') > 1 => Under' = Under
         /\ DueCall # NoCall => /\ Top' = [k |-> "call", targ |-> DueCall, pc |-> pc]
                                /\ Under' = a /\ Len(act') > 1
  <1> DEFINE x == [k |-> "call", targ |-> DueCall, pc |-> pc]
  <1>1. PD_execute_instructions /\ pc = a.at /\ pc \in PC
    BY DEF Clock, PInv, PcInv
  <1>2. Stack(act) /\ Below \in Seq(Frame) /\ Below # <<>> /\ Above(Under, Top)
        /\ Len(act) > 1
    BY Innermost DEF PInv, Stack
  <1>3. Above(Under, a)
    BY <1>2 DEF Above
  <1>4. act' = Below \o (IF DueCall = NoCall THEN <<a>> ELSE <<a, x>>)
    <2>1. CASE DueCall = NoCall
      <3>1. act' = Append(Below, a) \o <<>>
        BY <2>1 DEF Clock
      <3>2. Append(Below, a) \in Seq(Frame)
        BY <1>2, AppendProperties
      <3>3. act' = Append(Below, a) /\ Append(Below, a) = Below \o <<a>>
        BY <1>2, <3>1, <3>2, JoinPushes
      <3> QED BY <2>1, <3>3
    <2>2. CASE DueCall # NoCall
      <3>1. x \in Frame
        BY <1>1, <2>2, ClockCalls DEF Frame
      <3> HIDE DEF x
      <3>2. act' = Append(Below, a) \o <<x>>
        BY <2>2 DEF Clock, x
      <3>3. Append(Below, a) \in Seq(Frame)
        BY <1>2, AppendProperties
      <3>4. act' = Append(Append(Below, a), x)
        BY <3>1, <3>2, <3>3, JoinPushes
      <3>5. Below \o <<a, x>> = Append(Append(Below, a), x)
        BY <1>2, <3>1, JoinPushes
      <3> QED BY <2>2, <3>4, <3>5
    <2> QED BY <2>1, <2>2
  <1>5. CASE DueCall = NoCall
    <2>1. act' = Append(Below, a)
      BY <1>2, <1>4, <1>5, JoinPushes
    <2>2. /\ Stack(act)' /\ act' # <<>> /\ Top' = a /\ Len(act') = Len(act)
          /\ Len(act') > 1 => Under' = Under
      BY <1>2, <1>3, <2>1, SwapAct
    <2> QED BY <1>5, <2>2
  <1>6. CASE DueCall # NoCall
    <2>1. x \in Frame /\ x.k = "call" /\ x.pc = pc
      BY <1>1, <1>6, ClockCalls DEF Frame
    <2>2. Under.k # "setjmp"
      <3> SUFFICES ASSUME Under.k = "setjmp" PROVE FALSE
        OBVIOUS
      <3>1. Top.k = "interlock"
        BY <1>2 DEF Above
      <3>2. NoneQueued
        BY <1>2, <3>1 DEF PInv, SetjmpInv
      <3> QED BY <1>1, <1>6, <3>2, ClockCalls
    <2>3. Above(a, x)
      BY <1>1, <1>6, <2>1 DEF Above
    <2> HIDE DEF x
    <2>4. act' = Append(Append(Below, a), x)
      BY <1>2, <1>4, <1>6, <2>1, JoinPushes
    <2>5. /\ Stack(act)' /\ act' # <<>> /\ Top' = x /\ Under' = a /\ Len(act') > 1
      BY <1>2, <1>3, <2>1, <2>2, <2>3, <2>4, SplitAct
    <2> QED BY <1>6, <2>5 DEF x
  <1> QED BY <1>5, <1>6

\* What a clock keeps, whichever loop it is for.
LEMMA ClockInv ==
  ASSUME PInv, act # <<>>, ~longjmp_executed, Top.k \in {"aclock", "interlock"},
         NEW a \in Frame, Clock(a), a.k = Top.k, a.at = Top.at,
         a.k = "interlock" => /\ a.stepped /\ a.reg = Top.reg
                              /\ DueCall # NoCall => a.called
  PROVE  /\ Stack(act)' /\ CallInv' /\ SetjmpInv' /\ PcInv'
         /\ Top' = a \/ Top'.k = "call"
  <1>1. PD_execute_instructions /\ UNCHANGED <<program, pc, done, buffer, longjmp_executed, outcome>>
    BY DEF Clock
  <1>2. /\ Stack(act)' /\ act' # <<>>
        /\ DueCall = NoCall => /\ Top' = a /\ Len(act') = Len(act)
                               /\ Len(act') > 1 => Under' = Under
        /\ DueCall # NoCall => /\ Top' = [k |-> "call", targ |-> DueCall, pc |-> pc]
                               /\ Under' = a /\ Len(act') > 1
    BY ClockAct
  <1>3. /\ \A s \in Slot : call'[s] # NoCall => call'[s] = call[s]
        /\ NoneQueued => DueCall = NoCall /\ NoneQueued'
        /\ DueCall # NoCall => /\ NoneQueued'
                               /\ DueCall = Longjmp => buffer # NoBuffer
    BY <1>1, ClockCalls
  <1>4. \A q \in Reg : mem'[Flag(q)] = BUSY => mem[Flag(q)] = BUSY
    BY <1>1, ClockKeeps DEF PInv
  <1>5. CallInv'
    <2>1. \A s, t \in Slot : call'[s] # NoCall /\ call'[t] # NoCall => s = t
      BY <1>3 DEF PInv, CallInv
    <2>2. \A s \in Slot : call'[s] # NoCall /\ call'[s] = Longjmp => buffer' # NoBuffer
      BY <1>1, <1>3 DEF PInv, CallInv
    <2>3. done' => NoneQueued'
      BY <1>1, <1>3 DEF PInv, CallInv
    <2>4. Top'.k = "call" => NoneQueued' /\ (Top'.targ = Longjmp => buffer' # NoBuffer)
      BY <1>1, <1>2, <1>3
    <2> QED BY <2>1, <2>2, <2>3, <2>4 DEF CallInv
  <1>6. SetjmpInv'
    <2>1. Top'.k # "setjmp"
      BY <1>2
    <2>2. ASSUME Len(act') > 1, Top'.k = "interlock", Under'.k = "setjmp"
          PROVE  /\ NoneQueued'
                 /\ \A r \in Reg \ (Under'.regs \cup {Top'.reg}) : mem'[Flag(r)] # BUSY
      <3>1. Top' = a /\ Under' = Under /\ Len(act) > 1 /\ a.k = "interlock"
        BY <1>2, <2>2
      <3>2. /\ NoneQueued
            /\ \A r \in Reg \ (Under.regs \cup {Top.reg}) : mem[Flag(r)] # BUSY
        BY <2>2, <3>1 DEF PInv, SetjmpInv
      <3> QED BY <1>3, <1>4, <3>1, <3>2
    <2>3. buffer' # NoBuffer =>
            /\ buffer'.mem \in [Cell -> Word] /\ buffer'.pc \in PC
            /\ \A r \in Reg : buffer'.mem[Flag(r)] = READY
      BY <1>1 DEF PInv, SetjmpInv
    <2> QED BY <2>1, <2>2, <2>3 DEF SetjmpInv
  <1>7. PcInv'
    <2>1. pc \in PC /\ pc = a.at
      BY DEF PInv, PcInv
    <2> QED BY <1>1, <1>2, <2>1 DEF PcInv
  <1>8. Top' = a \/ Top'.k = "call"
    BY <1>2
  <1> QED BY <1>2, <1>5, <1>6, <1>7, <1>8

\* One clock of __PD_aclock.
LEMMA AclockStepInv ==
  ASSUME PInv, QueueInv', AclockStep
  PROVE  PInv'
  <1> DEFINE a == [Top EXCEPT !.left = @ - 1]
  <1>1. /\ act # <<>> /\ ~longjmp_executed /\ Top.k = "aclock" /\ Top.left > 0
        /\ Clock(a) /\ Top \in Frame /\ program' = program /\ outcome' # "deadlock"
    BY Innermost DEF AclockStep, Running, Clock, PInv
  <1>2. a \in Frame /\ a.k = "aclock" /\ a.at = Top.at
    BY <1>1, Changed
  <1> HIDE DEF a
  <1>3. /\ Stack(act)' /\ CallInv' /\ SetjmpInv' /\ PcInv'
        /\ Top' = a \/ Top'.k = "call"
    BY <1>1, <1>2, ClockInv
  <1>4. StallInv'
    BY <1>1, <1>2, <1>3 DEF StallInv, Uncalled
  <1> QED BY <1>1, <1>3, <1>4 DEF PInv

\* What is due d cycles after the next clock is due d - 1 cycles after the one behind it.
LEMMA Nearer ==
  ASSUME TypeOK, PD_pending' = NextSlot, NEW d \in 0 .. MAXLAT - 1, At(d) # PD_pending
  PROVE  d - 1 \in 0 .. MAXLAT - 1 /\ At(d) = At(d - 1)'
  <1>1. PD_pending \in Slot
    BY DEF TypeOK
  <1>2. d # 0
    BY <1>1, Distances
  <1>3. d - 1 \in 0 .. MAXLAT - 1 /\ d - 1 \in 0 .. QSIZE - 2 /\ (d - 1) + 1 = d
    BY <1>2, MaxLatAssumption, QSizeAssumption
  <1>4. (NextSlot + (d - 1)) % QSIZE = At((d - 1) + 1)
    BY <1>1, <1>3, Distances
  <1> QED BY <1>3, <1>4 DEF At

\* The head moves on by one.
LEMMA OneOn ==
  ASSUME NEW s \in Slot, NEW k \in 0 .. MAXLAT
  PROVE  (((s + k) % QSIZE) + 1) % QSIZE = (s + (k + 1)) % QSIZE
  <1>1. k <= QSIZE - 1 /\ s <= QSIZE - 1 /\ s \in Nat /\ k \in Nat /\ QSIZE \in Nat \ {0}
    BY MaxLatAssumption, QSizeAssumption, LatencyAssumption DEF Slot
  <1>2. PICK m : m = s + k
    OBVIOUS
  <1>3. /\ m \in 0 .. 2 * QSIZE - 1 /\ m + 1 \in 0 .. 2 * QSIZE - 1 /\ m + 1 = s + (k + 1)
    BY <1>1, <1>2
  <1>4. /\ m < QSIZE => m % QSIZE = m
        /\ ~(m < QSIZE) => m % QSIZE = m - QSIZE
        /\ ~(m + 1 < QSIZE) => (m + 1) % QSIZE = (m + 1) - QSIZE
    BY <1>3, ModCases, Zenon
  <1>5. ((m % QSIZE) + 1) % QSIZE = (m + 1) % QSIZE
    <2>1. CASE m < QSIZE
      BY <1>4, <2>1
    <2>2. CASE ~(m < QSIZE)
      <3>1. ~(m + 1 < QSIZE) /\ m - QSIZE + 1 = m + 1 - QSIZE
            /\ m - QSIZE + 1 \in 0 .. 2 * QSIZE - 1 /\ m - QSIZE + 1 < QSIZE
        BY <1>1, <1>2, <1>3, <2>2
      <3>2. (m - QSIZE + 1) % QSIZE = m - QSIZE + 1
        BY <3>1, ModCases, Zenon
      <3>3. m % QSIZE = m - QSIZE
        BY <1>4, <2>2, Zenon
      <3>4. (m + 1) % QSIZE = m - QSIZE + 1
        <4>1. (m + 1) % QSIZE = (m + 1) - QSIZE
          BY <1>4, <3>1, Zenon
        <4>2. (m + 1) - QSIZE = m - QSIZE + 1
          BY <1>1, <1>2
        <4> QED BY <4>1, <4>2, Zenon
      <3> QED BY <3>2, <3>3, <3>4, Zenon
    <2> QED BY <2>1, <2>2
  <1> QED BY <1>2, <1>3, <1>5

\* One clock of a stall: what it waits for is a clock nearer.
LEMMA InterlockStepInv ==
  ASSUME PInv, QueueInv', InterlockStep
  PROVE  PInv'
  <1> PICK a : a = [Top EXCEPT !.stepped = TRUE, !.called = @ \/ DueCall # NoCall]
    OBVIOUS
  <1> PICK q : q = Top.reg
    OBVIOUS
  <1>1. /\ act # <<>> /\ Top.k = "interlock" /\ ~Top.stepped /\ outcome = "running"
        /\ mem[Flag(Top.reg)] # READY
        /\ Clock(a) /\ Top \in Frame /\ program' = program /\ outcome' = outcome
        /\ PD_execute_instructions /\ PD_pending' = NextSlot
    BY Innermost DEF InterlockStep, Running, Clock, PInv, PD_execute_instructions
  <1>2. /\ a \in Frame /\ a.k = "interlock" /\ a.at = Top.at /\ a.stepped
        /\ a.reg = q /\ q = Top.reg /\ a.slot = Top.slot
        /\ a.called = (Top.called \/ DueCall # NoCall)
    <2> PICK c \in BOOLEAN : c = (Top.called \/ DueCall # NoCall)
      OBVIOUS
    <2>1. a = [Top EXCEPT !.stepped = TRUE, !.called = c]
      OBVIOUS
    <2>2. Top \in Frame /\ Top.k = "interlock"
      BY <1>1
    <2>3. /\ a \in Frame /\ a.k = "interlock" /\ a.at = Top.at /\ a.stepped
          /\ a.reg = Top.reg /\ a.slot = Top.slot /\ a.called = c
      BY <2>1, <2>2, Clocked
    <2> QED BY <2>3
  <1>3. ~longjmp_executed
    BY <1>1 DEF PInv, PcInv
  <1>4. q \in Reg /\ a.slot \in Slot
    BY <1>1, <1>2, Fields
  <1>5. /\ Stack(act)' /\ CallInv' /\ SetjmpInv' /\ PcInv'
        /\ Top' = a \/ Top'.k = "call"
    BY <1>1, <1>2, <1>3, ClockInv
  <1>6. ASSUME ~a.called, Top' = a
        PROVE  \E k \in 0 .. MAXLAT : StalledFor(k)'
    <2>1. PICK k \in 0 .. MAXLAT : StalledFor(k)
      BY <1>1, <1>2, <1>6 DEF PInv, StallInv, Uncalled
    <2>2. mem[Flag(q)] = BUSY
      BY <1>1, <1>2, <1>4 DEF PInv, QueueInv
    <2>3. k + 1 \in 0 .. MAXLAT /\ k + 1 > 0
      <3>1. PICK d \in 0 .. MAXLAT - 1 : d + k < MAXLAT
        BY <1>2, <2>1, <2>2 DEF StalledFor
      <3> QED BY <2>1, <3>1, MaxLatAssumption
    <2>4. PD_pending' = (a.slot + (k + 1)) % QSIZE
      BY <1>1, <1>2, <1>4, <2>1, OneOn DEF StalledFor, NextSlot
    <2>5. ASSUME mem'[Flag(q)] = BUSY
          PROVE  \E w \in Wakeups(q)', d \in 0 .. MAXLAT - 1 :
                    d + (k + 1) < MAXLAT /\ w[1] = At(d)'
      <3>1. PICK w \in Wakeups(q), d \in 0 .. MAXLAT - 1 :
                    d + k < MAXLAT /\ w[1] = At(d)
        BY <1>2, <2>1, <2>2 DEF StalledFor
      <3>2. /\ Wakeups(q)' = {v \in Wakeups(q) : v[1] # PD_pending}
            /\ mem'[Flag(q)] = IF \E v \in Wakeups(q) : v[1] = PD_pending
                                     THEN READY ELSE mem[Flag(q)]
        BY <1>1, <1>4, ClockReleases DEF PInv, QueueInv
      <3>3. w[1] # PD_pending
        BY <1>2, <2>5, <3>2 DEF READY, BUSY
      <3>4. d - 1 \in 0 .. MAXLAT - 1 /\ w[1] = At(d - 1)'
        BY <1>1, <3>1, <3>3, Nearer DEF PInv, QueueInv
      <3>5. (d - 1) + (k + 1) < MAXLAT
        BY <2>1, <3>1, MaxLatAssumption
      <3>6. w \in Wakeups(q)'
        BY <3>1, <3>2, <3>3
      <3> QED BY <1>2, <3>4, <3>5, <3>6
    <2>6. Top' = a
      BY <1>6
    <2>7. StalledFor(k + 1)'
      BY <1>2, <2>3, <2>4, <2>5, <2>6 DEF StalledFor
    <2> QED BY <2>3, <2>7
  <1>7. StallInv'
    BY <1>1, <1>2, <1>5, <1>6 DEF StallInv, Uncalled
  <1> QED BY <1>1, <1>5, <1>7 DEF PInv

\* A loop other than the kernel's ends, and what called it is innermost again.
LEMMA Ends ==
  ASSUME PInv, act # <<>>, Top.k # "kernel"
  PROVE  /\ Above(Under, Top) /\ Top \in Frame /\ Below # <<>>
         /\ Below[Len(Below)] = Under /\ Len(act) > 1
         /\ act' = Below => /\ Stack(act)' /\ act' # <<>> /\ Top' = Under
                            /\ Len(act') = Len(act) - 1
                            /\ Len(act') > 1 => Under'.k # "setjmp"
  <1>1. Stack(act)
    BY DEF PInv
  <1>2. /\ Above(Under, Top) /\ Top \in Frame /\ Below # <<>>
        /\ Below[Len(Below)] = Under /\ Len(act) > 1
    BY <1>1, Innermost
  <1>3. act' = Below => /\ Stack(act)' /\ act' # <<>> /\ Top' = Under
                        /\ Len(act') = Len(act) - 1
                        /\ Len(act') > 1 => Under'.k # "setjmp"
    BY <1>1, PopAct
  <1> QED BY <1>2, <1>3

\* __PD_aclock returns to the kernel loop.
LEMMA AclockReturnsInv ==
  ASSUME PInv, QueueInv', AclockReturns
  PROVE  PInv'
  <1>1. /\ act # <<>> /\ Top.k = "aclock" /\ act' = Below /\ outcome = "running"
        /\ pc' = NextPC /\ longjmp_executed' = FALSE
        /\ UNCHANGED <<program, call, done, buffer, outcome>>
    BY DEF AclockReturns, Running, qvars
  <1>2. /\ Stack(act)' /\ act' # <<>> /\ Top' = Under /\ Len(act') = Len(act) - 1
        /\ Above(Under, Top)
    BY <1>1, Ends
  <1>3. Top'.k = "kernel"
    BY <1>1, <1>2 DEF Above
  <1>4. NoneQueued' <=> NoneQueued
    BY <1>1 DEF NoneQueued
  <1>5. CallInv'
    BY <1>1, <1>3, <1>4 DEF PInv, CallInv
  <1>6. SetjmpInv'
    BY <1>1, <1>3 DEF PInv, SetjmpInv
  <1>7. PcInv'
    BY <1>1, <1>3, NextPCType DEF PInv, PcInv
  <1>8. StallInv'
    BY <1>1, <1>3 DEF StallInv, Uncalled
  <1> QED BY <1>1, <1>2, <1>5, <1>6, <1>7, <1>8 DEF PInv

\* A stall ends, in the kernel loop or in setjmp.
LEMMA InterlockReturnsInv ==
  ASSUME PInv, QueueInv', InterlockReturns
  PROVE  PInv'
  <1>1. /\ act # <<>> /\ Top.k = "interlock" /\ ~Top.stepped /\ outcome = "running"
        /\ mem[Flag(Top.reg)] = READY /\ act' = Below
        /\ pc' = NextPC \/ pc' = pc
        /\ UNCHANGED <<program, call, mem, done, buffer, longjmp_executed, outcome>>
    BY DEF InterlockReturns, Running, qvars
  <1>2. /\ Stack(act)' /\ act' # <<>> /\ Top' = Under /\ Len(act') = Len(act) - 1
        /\ Above(Under, Top) /\ Len(act) > 1
    BY <1>1, Ends
  <1>3. Top'.k \in {"kernel", "setjmp"}
    BY <1>1, <1>2 DEF Above
  <1>4. NoneQueued' <=> NoneQueued
    BY <1>1 DEF NoneQueued
  <1>5. CallInv'
    BY <1>1, <1>3, <1>4 DEF PInv, CallInv
  <1>6. SetjmpInv'
    <2>1. ASSUME Top'.k = "setjmp"
          PROVE  NoneQueued' /\ \A r \in Reg \ Top'.regs : mem'[Flag(r)] # BUSY
      <3>1. NoneQueued /\ \A r \in Reg \ (Under.regs \cup {Top.reg}) : mem[Flag(r)] # BUSY
        BY <1>1, <1>2, <2>1 DEF PInv, SetjmpInv
      <3>2. mem[Flag(Top.reg)] # BUSY
        BY <1>1 DEF READY, BUSY
      <3> QED BY <1>1, <1>2, <1>4, <3>1, <3>2
    <2> QED BY <1>1, <1>3, <2>1 DEF PInv, SetjmpInv
  <1>7. PcInv'
    <2>1. ~longjmp_executed /\ pc \in PC
      BY <1>1 DEF PInv, PcInv
    <2> QED BY <1>1, <1>3, <2>1, NextPCType DEF PcInv
  <1>8. StallInv'
    BY <1>1, <1>3 DEF StallInv, Uncalled
  <1> QED BY <1>1, <1>2, <1>5, <1>6, <1>7, <1>8 DEF PInv

\* The checks after a clock of a stall.  If none of its clocks made a call the queue has
\* not come round.
LEMMA InterlockCheckInv ==
  ASSUME PInv, QueueInv', InterlockCheck
  PROVE  PInv'
  <1> PICK a : a = [Top EXCEPT !.stepped = FALSE]
    OBVIOUS
  <1>1. /\ act # <<>> /\ Top.k = "interlock" /\ Top.stepped /\ act' = Append(Below, a)
        /\ outcome = "running"
        /\ Top.slot = PD_pending => outcome' = "deadlock"
        /\ Top.slot # PD_pending /\ longjmp_executed => outcome' = "longjmp in a stall"
        /\ Top.slot # PD_pending /\ ~longjmp_executed => outcome' = "running"
        /\ UNCHANGED <<program, PD_pending, moves, call, mem, pc, done, buffer, longjmp_executed>>
    BY DEF InterlockCheck, Running, qvars
  <1>2. Stack(act) /\ Above(Under, Top) /\ Top \in Frame
    BY <1>1, Ends DEF PInv
  <1>3. /\ a \in Frame /\ a.k = "interlock" /\ a.at = Top.at /\ ~a.stepped
        /\ a.reg = Top.reg /\ a.slot = Top.slot /\ a.called = Top.called
    BY <1>1, <1>2, Changed
  <1>4. /\ Stack(act)' /\ act' # <<>> /\ Top' = a /\ Len(act') = Len(act)
        /\ Len(act') > 1 => Under' = Under
    <2>1. Above(Under, a)
      BY <1>1, <1>2, <1>3 DEF Above
    <2> QED BY <1>1, <1>2, <1>3, <2>1, SwapAct
  <1>5. NoneQueued' <=> NoneQueued
    BY <1>1 DEF NoneQueued
  <1>6. CallInv'
    BY <1>1, <1>3, <1>4, <1>5 DEF PInv, CallInv
  <1>7. SetjmpInv'
    <2>1. Top'.k # "setjmp"
      BY <1>3, <1>4
    <2>2. ASSUME Len(act') > 1, Top'.k = "interlock", Under'.k = "setjmp"
          PROVE  /\ NoneQueued'
                 /\ \A r \in Reg \ (Under'.regs \cup {Top'.reg}) : mem'[Flag(r)] # BUSY
      <3>1. Under' = Under /\ Len(act) > 1 /\ Top'.reg = Top.reg
        BY <1>3, <1>4, <2>2
      <3>2. /\ NoneQueued
            /\ \A r \in Reg \ (Under.regs \cup {Top.reg}) : mem[Flag(r)] # BUSY
        BY <1>1, <2>2, <3>1 DEF PInv, SetjmpInv
      <3> QED BY <1>1, <1>5, <3>1, <3>2
    <2>3. buffer' # NoBuffer =>
            /\ buffer'.mem \in [Cell -> Word] /\ buffer'.pc \in PC
            /\ \A r \in Reg : buffer'.mem[Flag(r)] = READY
      BY <1>1 DEF PInv, SetjmpInv
    <2> QED BY <2>1, <2>2, <2>3 DEF SetjmpInv
  <1>8. PcInv'
    <2>1. pc \in PC /\ (~longjmp_executed => pc = Top.at)
      BY <1>1 DEF PInv, PcInv
    <2>2. longjmp_executed => outcome' # "running"
      BY <1>1
    <2> QED BY <1>1, <1>3, <1>4, <2>1, <2>2 DEF PcInv
  <1>9. StallInv'
    <2> SUFFICES ASSUME ~Top.called
                 PROVE  /\ \E k \in 0 .. MAXLAT : StalledFor(k)'
                        /\ outcome' # "deadlock"
      BY <1>1, <1>3, <1>4 DEF StallInv, Uncalled
    <2>2. PICK k \in 0 .. MAXLAT : StalledFor(k)
      BY <1>1 DEF PInv, StallInv, Uncalled
    <2>3. k > 0 /\ k <= MAXLAT /\ PD_pending = (Top.slot + k) % QSIZE
          /\ (mem[Flag(Top.reg)] = BUSY =>
                \E w \in Wakeups(Top.reg), d \in 0 .. MAXLAT - 1 : d + k < MAXLAT /\ w[1] = At(d))
      BY <1>1, <2>2 DEF StalledFor
    <2>4. StalledFor(k)'
      <3> PICK q : q = Top.reg
        OBVIOUS
      <3>1. Wakeups(q)' = Wakeups(q) /\ \A d : At(d)' = At(d)
        BY <1>1 DEF Wakeups, At
      <3>2. mem'[Flag(q)] = BUSY =>
              \E w \in Wakeups(q)', d \in 0 .. MAXLAT - 1 : d + k < MAXLAT /\ w[1] = At(d)'
        BY <1>1, <2>3, <3>1
      <3>3. a.reg = q
        BY <1>3
      <3> QED BY <1>1, <1>3, <1>4, <2>3, <3>2, <3>3 DEF StalledFor
    <2>5. Top.slot # PD_pending
      <3>1. Top.slot \in Slot
        BY <1>1, <1>2, Fields
      <3> PICK n : n = Top.slot
        OBVIOUS
      <3>2. n \in Nat /\ n < QSIZE /\ k \in Nat /\ k < QSIZE /\ QSIZE \in Nat \ {0}
        BY <2>3, <3>1, MaxLatAssumption, LatencyAssumption, QSizeAssumption DEF Slot
      <3>3. PICK m : m = n + k
        OBVIOUS
      <3>4. m \in 0 .. 2 * QSIZE - 1 /\ m # n /\ m - QSIZE # n
        BY <2>3, <3>2, <3>3
      <3>5. (m < QSIZE => m % QSIZE = m) /\ (~(m < QSIZE) => m % QSIZE = m - QSIZE)
        BY <3>4, ModCases, Zenon
      <3>6. m % QSIZE # n
        BY <3>4, <3>5
      <3> QED BY <2>3, <3>3, <3>6
    <2>6. outcome' # "deadlock"
      BY <1>1, <2>5
    <2> QED BY <2>4, <2>6
  <1> QED BY <1>1, <1>4, <1>6, <1>7, <1>8, <1>9 DEF PInv

\* A simulated function begins: its wrapper, and its kernel loop.
LEMMA CallFunctionInv ==
  ASSUME PInv, QueueInv', CallFunction
  PROVE  PInv'
  <1> PICK x : x = Return
    OBVIOUS
  <1> PICK y : y = [k |-> "kernel"]
    OBVIOUS
  <1>1. /\ act # <<>> /\ Top.k = "call" /\ outcome = "running"
        /\ act' = Below \o <<x, y>> /\ pc' = 0
        /\ UNCHANGED <<program, call, mem, done, buffer, longjmp_executed, outcome>>
    BY DEF CallFunction, Calling, Running, PD_is_simulator_call
  <1>2. Stack(act) /\ Above(Under, Top) /\ Top \in Frame
    BY <1>1, Ends DEF PInv
  <1>3. x \in Frame /\ x.k = "return" /\ x.pc = Top.pc
    BY <1>1, <1>2, Fields DEF Frame, Return
  <1>4. y \in Frame /\ y.k = "kernel"
    BY DEF Frame
  <1>5. Below \in Seq(Frame)
    BY <1>1, <1>2, Innermost DEF Stack
  <1>6. act' = Append(Append(Below, x), y)
    BY <1>1, <1>3, <1>4, <1>5, JoinPushes
  <1>7. /\ Above(Under, x) /\ Above(x, y) /\ Under.k # "setjmp"
    BY <1>1, <1>2, <1>3, <1>4 DEF Above
  <1>8. Stack(act)' /\ act' # <<>> /\ Top' = y
    BY <1>1, <1>2, <1>3, <1>4, <1>6, <1>7, SplitAct
  <1>9. NoneQueued' <=> NoneQueued
    BY <1>1 DEF NoneQueued
  <1>10. CallInv'
    BY <1>1, <1>4, <1>8, <1>9 DEF PInv, CallInv
  <1>11. SetjmpInv'
    BY <1>1, <1>4, <1>8 DEF PInv, SetjmpInv
  <1>12. PcInv'
    <2>1. ~longjmp_executed
      BY <1>1 DEF PInv, PcInv
    <2>2. 0 \in PC
      BY PlenAssumption DEF PC
    <2> QED BY <1>1, <1>4, <1>8, <2>1, <2>2 DEF PcInv
  <1>13. StallInv'
    BY <1>1, <1>4, <1>8 DEF StallInv, Uncalled
  <1> QED BY <1>1, <1>8, <1>10, <1>11, <1>12, <1>13 DEF PInv

\* The epilogue ends the kernel loop of its activation.
LEMMA CallEpilogueInv ==
  ASSUME PInv, QueueInv', CallEpilogue
  PROVE  PInv'
  <1> PICK x : x = Return
    OBVIOUS
  <1>1. /\ act # <<>> /\ Top.k = "call" /\ outcome = "running"
        /\ act' = Append(Below, x)
        /\ UNCHANGED <<program, call, mem, pc, buffer, longjmp_executed, outcome>>
    BY DEF CallEpilogue, Calling, Running, qvars
  <1>2. Stack(act) /\ Above(Under, Top) /\ Top \in Frame
    BY <1>1, Ends DEF PInv
  <1>3. x \in Frame /\ x.k = "return" /\ x.pc = Top.pc
    BY <1>1, <1>2, Fields DEF Frame, Return
  <1>4. Above(Under, x)
    BY <1>1, <1>2, <1>3 DEF Above
  <1>5. Stack(act)' /\ act' # <<>> /\ Top' = x
    BY <1>1, <1>2, <1>3, <1>4, SwapAct
  <1>6. NoneQueued /\ NoneQueued'
    BY <1>1 DEF NoneQueued, PInv, CallInv
  <1>7. CallInv'
    BY <1>1, <1>3, <1>5, <1>6 DEF PInv, CallInv
  <1>8. SetjmpInv'
    BY <1>1, <1>3, <1>5 DEF PInv, SetjmpInv
  <1>9. PcInv'
    <2>1. ~longjmp_executed /\ pc \in PC
      BY <1>1 DEF PInv, PcInv
    <2> QED BY <1>1, <1>3, <1>5, <2>1 DEF PcInv
  <1>10. StallInv'
    BY <1>1, <1>3, <1>5 DEF StallInv, Uncalled
  <1> QED BY <1>1, <1>5, <1>7, <1>8, <1>9, <1>10 DEF PInv

\* setjmp begins, with every register to wait for.
LEMMA CallSetjmpInv ==
  ASSUME PInv, QueueInv', CallSetjmp
  PROVE  PInv'
  <1> PICK x : x = Return
    OBVIOUS
  <1> PICK y : y = [k |-> "setjmp", regs |-> Reg]
    OBVIOUS
  <1>1. /\ act # <<>> /\ Top.k = "call" /\ outcome = "running"
        /\ act' = Below \o <<x, y>>
        /\ UNCHANGED <<program, call, mem, pc, done, buffer, longjmp_executed, outcome>>
    BY DEF CallSetjmp, Calling, Running, qvars
  <1>2. Stack(act) /\ Above(Under, Top) /\ Top \in Frame
    BY <1>1, Ends DEF PInv
  <1>3. x \in Frame /\ x.k = "return" /\ x.pc = Top.pc
    BY <1>1, <1>2, Fields DEF Frame, Return
  <1>4. y \in Frame /\ y.k = "setjmp" /\ y.regs = Reg
    BY DEF Frame
  <1>5. Below \in Seq(Frame)
    BY <1>1, <1>2, Innermost DEF Stack
  <1>6. act' = Append(Append(Below, x), y)
    BY <1>1, <1>3, <1>4, <1>5, JoinPushes
  <1>7. /\ Above(Under, x) /\ Above(x, y) /\ Under.k # "setjmp"
    BY <1>1, <1>2, <1>3, <1>4 DEF Above
  <1>8. Stack(act)' /\ act' # <<>> /\ Top' = y
    BY <1>1, <1>2, <1>3, <1>4, <1>6, <1>7, SplitAct
  <1>9. NoneQueued /\ NoneQueued'
    BY <1>1 DEF NoneQueued, PInv, CallInv
  <1>10. CallInv'
    BY <1>1, <1>4, <1>8, <1>9 DEF PInv, CallInv
  <1>11. SetjmpInv'
    BY <1>1, <1>4, <1>8, <1>9 DEF PInv, SetjmpInv
  <1>12. PcInv'
    <2>1. ~longjmp_executed /\ pc \in PC
      BY <1>1 DEF PInv, PcInv
    <2> QED BY <1>1, <1>4, <1>8, <2>1 DEF PcInv
  <1>13. StallInv'
    BY <1>1, <1>4, <1>8 DEF StallInv, Uncalled
  <1> QED BY <1>1, <1>8, <1>10, <1>11, <1>12, <1>13 DEF PInv

\* setjmp waits for one more register.
LEMMA SetjmpDrainsInv ==
  ASSUME PInv, QueueInv', SetjmpDrains
  PROVE  PInv'
  <1>1. PICK r \in Top.regs :
          act' = Below \o <<[Top EXCEPT !.regs = @ \ {r}], Interlock(r)>>
    BY DEF SetjmpDrains
  <1> PICK x : x = [Top EXCEPT !.regs = @ \ {r}]
    OBVIOUS
  <1> PICK y : y = Interlock(r)
    OBVIOUS
  <1>2. /\ act # <<>> /\ Top.k = "setjmp" /\ outcome = "running"
        /\ act' = Below \o <<x, y>>
        /\ UNCHANGED <<program, PD_pending, moves, call, mem, pc, done, buffer,
                       longjmp_executed, outcome>>
    BY <1>1 DEF SetjmpDrains, Running, qvars
  <1>3. Stack(act) /\ Above(Under, Top) /\ Top \in Frame
    BY <1>2, Ends DEF PInv
  <1>4. x \in Frame /\ x.k = "setjmp" /\ x.regs = Top.regs \ {r}
    BY <1>2, <1>3, Changed
  <1>5. r \in Reg
    BY <1>1, <1>2, <1>3, Fields
  <1>6. y \in Frame /\ y.k = "interlock" /\ y.reg = r /\ y.slot = PD_pending
        /\ ~y.stepped /\ y.at = pc
    BY <1>5 DEF Interlock, Frame, PInv, PcInv, QueueInv, TypeOK
  <1>7. Below \in Seq(Frame)
    BY <1>2, <1>3, Innermost DEF Stack
  <1>8. act' = Append(Append(Below, x), y)
    <2>1. x \in Frame /\ y \in Frame
      BY <1>4, <1>6
    <2>2. Below \o <<x, y>> = Append(Append(Below, x), y)
      BY <1>7, <2>1, FramesPushed, Zenon
    <2> QED BY <1>2, <2>2
  <1>9. /\ Above(Under, x) /\ Above(x, y) /\ Under.k # "setjmp"
    BY <1>2, <1>3, <1>4, <1>6 DEF Above
  <1>10. Stack(act)' /\ act' # <<>> /\ Top' = y /\ Under' = x /\ Len(act') > 1
    BY <1>2, <1>3, <1>4, <1>6, <1>8, <1>9, SplitAct
  <1>11. /\ NoneQueued /\ NoneQueued'
         /\ \A q \in Reg \ Top.regs : mem[Flag(q)] # BUSY
    BY <1>2 DEF NoneQueued, PInv, SetjmpInv
  <1>12. CallInv'
    BY <1>2, <1>6, <1>10, <1>11 DEF PInv, CallInv
  <1>13. SetjmpInv'
    <2>1. \A q \in Reg \ (Under'.regs \cup {Top'.reg}) : mem'[Flag(q)] # BUSY
      BY <1>2, <1>4, <1>6, <1>10, <1>11
    <2> QED BY <1>2, <1>6, <1>10, <1>11, <2>1 DEF PInv, SetjmpInv
  <1>14. PcInv'
    <2>1. ~longjmp_executed /\ pc \in PC
      BY <1>2 DEF PInv, PcInv
    <2> QED BY <1>2, <1>6, <1>10, <2>1 DEF PcInv
  <1>15. StallInv'
    <2>1. \E k \in 0 .. MAXLAT : StalledFor(k)'
      BY <1>2, <1>5, <1>6, <1>10, StallBegins DEF PInv
    <2> QED BY <1>2, <2>1 DEF StallInv
  <1> QED BY <1>2, <1>10, <1>12, <1>13, <1>14, <1>15 DEF PInv

\* The checkpoint is taken, with every register ready.
LEMMA SetjmpSavesInv ==
  ASSUME PInv, QueueInv', SetjmpSaves
  PROVE  PInv'
  <1>1. /\ act # <<>> /\ Top.k = "setjmp" /\ outcome = "running" /\ Top.regs = {}
        /\ act' = Below /\ buffer'.mem = mem /\ buffer'.pc = pc
        /\ UNCHANGED <<program, call, mem, pc, done, longjmp_executed, outcome>>
    BY DEF SetjmpSaves, Running, qvars
  <1>2. /\ Stack(act)' /\ act' # <<>> /\ Top' = Under /\ Above(Under, Top)
    BY <1>1, Ends
  <1>3. Top'.k = "return"
    BY <1>1, <1>2 DEF Above
  <1>4. /\ NoneQueued /\ NoneQueued'
        /\ \A q \in Reg : mem[Flag(q)] # BUSY
    BY <1>1 DEF NoneQueued, PInv, SetjmpInv
  <1>5. CallInv'
    BY <1>3, <1>4 DEF CallInv, NoneQueued
  <1>6. pc \in PC /\ ~longjmp_executed
    BY <1>1 DEF PInv, PcInv
  <1>7. SetjmpInv'
    BY <1>1, <1>3, <1>4, <1>6 DEF PInv, QueueInv, TypeOK, SetjmpInv
  <1>8. PcInv'
    BY <1>1, <1>3, <1>6 DEF PcInv
  <1>9. StallInv'
    BY <1>1, <1>3 DEF StallInv, Uncalled
  <1> QED BY <1>1, <1>2, <1>5, <1>7, <1>8, <1>9 DEF PInv

\* A call returns to the loop whose clock made it.
LEMMA CallReturnsInv ==
  ASSUME PInv, QueueInv', CallReturns
  PROVE  PInv'
  <1>1. /\ act # <<>> /\ Top.k = "return" /\ outcome = "running"
        /\ act' = Below /\ pc' = Top.pc
        /\ UNCHANGED <<program, call, mem, done, buffer, longjmp_executed, outcome>>
    BY DEF CallReturns, Running, qvars
  <1>2. /\ Stack(act)' /\ act' # <<>> /\ Top' = Under /\ Above(Under, Top) /\ Top \in Frame
        /\ Len(act') > 1 => Under'.k # "setjmp"
    BY <1>1, Ends
  <1>3. Top'.k \in {"aclock", "interlock"} /\ Top'.at = Top.pc
    BY <1>1, <1>2 DEF Above
  <1>4. NoneQueued' <=> NoneQueued
    BY <1>1 DEF NoneQueued
  <1>5. CallInv'
    BY <1>1, <1>3, <1>4 DEF PInv, CallInv
  <1>6. SetjmpInv'
    BY <1>1, <1>2, <1>3 DEF PInv, SetjmpInv
  <1>7. PcInv'
    <2>1. ~longjmp_executed
      BY <1>1 DEF PInv, PcInv
    <2>2. Top.pc \in PC
      BY <1>1, <1>2, Fields
    <2> QED BY <1>1, <1>3, <2>1, <2>2 DEF PcInv
  <1>8. StallInv'
    BY <1>1, <1>2 DEF Above, StallInv, Uncalled
  <1> QED BY <1>1, <1>2, <1>5, <1>6, <1>7, <1>8 DEF PInv

\* The kernel loop of an activation ends.
LEMMA KernelReturnsInv ==
  ASSUME PInv, QueueInv', KernelReturns
  PROVE  PInv'
  <1>1. /\ act # <<>> /\ Top.k = "kernel" /\ outcome = "running" /\ done /\ ~done'
        /\ act' = Below /\ (buffer' = NoBuffer \/ buffer' = buffer)
        /\ UNCHANGED <<program, call, mem, pc, longjmp_executed, outcome>>
    BY DEF KernelReturns, Running, qvars, Keep
  <1>2. /\ Stack(act)' /\ (act' # <<>> => Top' = Under /\ Above(Under, Top))
        /\ Len(act') = Len(act) - 1 /\ Len(act) \in Nat
    BY <1>1, PopAct, Innermost DEF PInv
  <1>3. act' # <<>> => Top'.k = "return"
    BY <1>1, <1>2 DEF Above
  <1>4. Len(act') > 1 => act' # <<>>
    BY EmptySeq
  <1>5. NoneQueued /\ NoneQueued'
    BY <1>1 DEF NoneQueued, PInv, CallInv
  <1>6. CallInv'
    BY <1>1, <1>3, <1>5 DEF CallInv, NoneQueued
  <1>7. SetjmpInv'
    BY <1>1, <1>3, <1>4 DEF PInv, SetjmpInv
  <1>8. PcInv'
    <2>1. ~longjmp_executed /\ pc \in PC
      BY <1>1 DEF PInv, PcInv
    <2> QED BY <1>1, <1>3, <2>1 DEF PcInv
  <1>9. StallInv'
    BY <1>1, <1>3 DEF StallInv, Uncalled
  <1> QED BY <1>1, <1>2, <1>6, <1>7, <1>8, <1>9 DEF PInv

\* longjmp: the registers are those of the checkpoint, none of them busy.
LEMMA LongjmpQueue ==
  ASSUME PInv, CallLongjmp
  PROVE  QueueInv'
  <1>1. /\ buffer # NoBuffer /\ mem' = buffer.mem
        /\ UNCHANGED <<PD_pending, moves, call, last_call, punted>>
    BY DEF CallLongjmp, Calling, Running, PInv, CallInv
  <1>2. buffer.mem \in [Cell -> Word] /\ \A r \in Reg : buffer.mem[Flag(r)] = READY
    BY <1>1 DEF PInv, SetjmpInv
  <1>3. TypeOK' /\ NothingBeyondMaxLat' /\ FlagMovesReady'
    BY <1>1, <1>2 DEF PInv, QueueInv, TypeOK, NothingBeyondMaxLat, At, FlagMovesReady
  <1> QED BY <1>1, <1>2, <1>3 DEF QueueInv, BusyIsReleased, READY, BUSY

LEMMA CallLongjmpInv ==
  ASSUME PInv, CallLongjmp
  PROVE  PInv'
  <1>1. /\ act # <<>> /\ Top.k = "call" /\ outcome = "running" /\ buffer # NoBuffer
        /\ act' = Below /\ pc' = buffer.pc /\ longjmp_executed'
        /\ UNCHANGED <<program, call, done, buffer, outcome>>
    BY DEF CallLongjmp, Calling, Running, PInv, CallInv
  <1>2. /\ Stack(act)' /\ act' # <<>> /\ Top' = Under /\ Above(Under, Top)
        /\ Len(act') > 1 => Under'.k # "setjmp"
    BY <1>1, Ends
  <1>3. Top'.k = "aclock" \/ (Top'.k = "interlock" /\ Top'.stepped)
    BY <1>1, <1>2 DEF Above
  <1>4. NoneQueued' <=> NoneQueued
    BY <1>1 DEF NoneQueued
  <1>5. CallInv'
    BY <1>1, <1>3, <1>4 DEF PInv, CallInv
  <1>6. SetjmpInv'
    BY <1>1, <1>2, <1>3 DEF PInv, SetjmpInv
  <1>7. PcInv'
    <2>1. buffer.pc \in PC
      BY <1>1 DEF PInv, SetjmpInv
    <2> QED BY <1>1, <1>2, <1>3, <2>1 DEF PcInv
  <1>8. StallInv'
    BY <1>1, <1>2 DEF Above, StallInv, Uncalled
  <1> QED BY <1>1, <1>2, <1>5, <1>6, <1>7, <1>8, LongjmpQueue DEF PInv

\* A fresh start.
LEMMA PStart ==
  ASSUME PInit
  PROVE  PInv
  <1>1. /\ Init /\ program \in Programs /\ act = <<[k |-> "kernel"]>> /\ pc = 0 /\ ~done
        /\ buffer = NoBuffer /\ ~longjmp_executed /\ outcome = "running"
    BY DEF PInit
  <1>2. QueueInv
    BY <1>1, QueueStart
  <1>3. act \in Seq(Frame) /\ Len(act) = 1 /\ act # <<>> /\ act[1].k = "kernel" /\ Top.k = "kernel"
    <2>1. [k |-> "kernel"] \in Frame
      BY DEF Frame
    <2> QED BY <1>1, <2>1 DEF Top
  <1>4. Stack(act)
    BY <1>3 DEF Stack
  <1>5. NoneQueued
    BY <1>1 DEF Init, PD_initialize_queue, NoneQueued
  <1>6. CallInv
    BY <1>1, <1>3, <1>5 DEF CallInv, NoneQueued
  <1>7. SetjmpInv
    BY <1>1, <1>3 DEF SetjmpInv
  <1>8. PcInv
    <2>1. 0 \in PC
      BY PlenAssumption DEF PC
    <2> QED BY <1>1, <1>3, <2>1 DEF PcInv
  <1>9. StallInv
    BY <1>1, <1>3 DEF StallInv, Uncalled
  <1> QED BY <1>1, <1>2, <1>4, <1>6, <1>7, <1>8, <1>9 DEF PInv

\* What changes nothing.
LEMMA PStill ==
  ASSUME PInv, UNCHANGED vars
  PROVE  PInv'
  <1>1. /\ UNCHANGED <<PD_pending, moves, call, mem, last_call, punted>>
        /\ UNCHANGED <<program, act, pc, done, buffer, longjmp_executed, outcome>>
    BY DEF vars, qvars, pvars
  <1>2. QueueInv'
    BY <1>1, QueueStep DEF PInv, qvars
  <1>3. Stack(act)' /\ Top' = Top /\ Under' = Under /\ (NoneQueued' <=> NoneQueued)
    BY <1>1 DEF PInv, Stack, Top, Under, NoneQueued
  <1>4. CallInv'
    BY <1>1, <1>3 DEF PInv, CallInv
  <1>5. SetjmpInv'
    BY <1>1, <1>3 DEF PInv, SetjmpInv
  <1>6. PcInv'
    BY <1>1, <1>3 DEF PInv, PcInv
  <1>7. \A k : StalledFor(k)' <=> StalledFor(k)
    BY <1>1 DEF StalledFor, Top, Wakeups, At
  <1>8. StallInv'
    BY <1>1, <1>3, <1>7 DEF PInv, StallInv, Uncalled
  <1> QED BY <1>1, <1>2, <1>3, <1>4, <1>5, <1>6, <1>8 DEF PInv

\* Every step of the loops.
LEMMA PStep ==
  ASSUME PInv, [PNext]_vars
  PROVE  PInv'
  <1>1. CASE UNCHANGED vars
    BY <1>1, PStill
  <1>2. CASE CallLongjmp
    BY <1>2, CallLongjmpInv
  <1>3. CASE PNext /\ ~CallLongjmp
    <2>1. program \in Programs /\ program.regs \subseteq Reg
      BY ProgramsAssumption DEF PInv
    <2>2. QueueInv'
      BY <1>3, <2>1, QueueNext, QueueStep DEF PInv
    <2>3. ASSUME NEW r \in program.regs, NEW v \in Val, NEW lat \in Latency, Write(r, v, lat)
          PROVE  PInv'
      BY <2>2, <2>3, WriteInv
    <2>4. ASSUME NEW r \in program.regs, Read(r)
          PROVE  PInv'
      BY <2>1, <2>2, <2>4, ReadInv
    <2>5. ASSUME NEW t \in program.calls, NEW lat \in Latency, Branch(t, lat)
          PROVE  PInv'
      BY <2>2, <2>5, BranchInv
    <2>6. ASSUME NEW clocks \in 1 .. 2, Aclock(clocks)
          PROVE  PInv'
      BY <2>2, <2>6, AclockInv
    <2>7. ASSUME Program
          PROVE  PInv'
      BY <2>3, <2>4, <2>5, <2>6, <2>7 DEF Program
    <2>8. ASSUME RunTime
          PROVE  PInv'
      <3>1. CASE AclockStep
        BY <2>2, <3>1, AclockStepInv
      <3>2. CASE AclockReturns
        BY <2>2, <3>2, AclockReturnsInv
      <3>3. CASE InterlockStep
        BY <2>2, <3>3, InterlockStepInv
      <3>4. CASE InterlockCheck
        BY <2>2, <3>4, InterlockCheckInv
      <3>5. CASE InterlockReturns
        BY <2>2, <3>5, InterlockReturnsInv
      <3>6. CASE CallFunction
        BY <2>2, <3>6, CallFunctionInv
      <3>7. CASE CallEpilogue
        BY <2>2, <3>7, CallEpilogueInv
      <3>8. CASE CallSetjmp
        BY <2>2, <3>8, CallSetjmpInv
      <3>9. CASE SetjmpDrains
        BY <2>2, <3>9, SetjmpDrainsInv
      <3>10. CASE SetjmpSaves
        BY <2>2, <3>10, SetjmpSavesInv
      <3>11. CASE CallReturns
        BY <2>2, <3>11, CallReturnsInv
      <3>12. CASE KernelReturns
        BY <2>2, <3>12, KernelReturnsInv
      <3> QED BY <1>3, <2>8, <3>1, <3>2, <3>3, <3>4, <3>5, <3>6, <3>7, <3>8, <3>9,
                 <3>10, <3>11, <3>12 DEF RunTime
    <2> QED BY <1>3, <2>7, <2>8 DEF PNext
  <1> QED BY <1>1, <1>2, <1>3

\* The loops' inductive invariant holds whatever the program does.
THEOREM PipelineInvariant == PSpec => []PInv
  <1>1. PInit => PInv
    BY PStart
  <1>2. PInv /\ [PNext]_vars => PInv'
    BY PStep
  <1> QED BY <1>1, <1>2, PTL DEF PSpec

-----------------------------------------------------------------------------
\* What it is for.

\* While a register's interlock is taken its release is queued, through any nesting of
\* calls, setjmp and longjmp included (PD_queue.c, PD_setjmp.c).
THEOREM BusyIsReleasedAlways == PSpec => []BusyIsReleased
  <1>1. PInv => BusyIsReleased
    BY DEF PInv, QueueInv
  <1> QED BY <1>1, PipelineInvariant, PTL

\* The deadlock assertion of __PD_check_interlock never fails in a stall none of whose
\* clocks has made a call, whatever the size of the queue above the longest latency.
THEOREM DeadlockNeedsCallAlways == PSpec => []DeadlockNeedsCall
  <1>1. PInv => DeadlockNeedsCall
    BY DEF PInv, StallInv, DeadlockNeedsCall
  <1> QED BY <1>1, PipelineInvariant, PTL

\* An operation whose clocks ran other activations ends at the PC_REG it began at, or,
\* after a longjmp, at that of the setjmp.
THEOREM ResumesAlways == PSpec => ResumesWhereItWas
  <1>1. ASSUME PInv
        PROVE  /\ AclockReturns => pc = (IF longjmp_executed THEN buffer.pc ELSE Top.at)
               /\ InterlockReturns => pc = Top.at
    <2>1. ASSUME AclockReturns
          PROVE  pc = (IF longjmp_executed THEN buffer.pc ELSE Top.at)
      <3>1. act # <<>> /\ Top.k = "aclock" /\ outcome = "running"
        BY <2>1 DEF AclockReturns, Running
      <3> QED BY <1>1, <3>1 DEF PInv, PcInv
    <2>2. ASSUME InterlockReturns
          PROVE  pc = Top.at
      <3>1. act # <<>> /\ Top.k = "interlock" /\ outcome = "running" /\ ~Top.stepped
        BY <2>2 DEF InterlockReturns, Running
      <3> QED BY <1>1, <3>1 DEF PInv, PcInv
    <2> QED BY <2>1, <2>2
  <1>2. PInv => /\ AclockReturns => pc = (IF longjmp_executed THEN buffer.pc ELSE Top.at)
                /\ InterlockReturns => pc = Top.at
    BY <1>1
  <1> QED BY <1>2, PipelineInvariant, PTL DEF ResumesWhereItWas

\* When setjmp takes its checkpoint no register is busy: every interlock it met has been
\* waited for, and no call made one busy again meanwhile.
CheckpointIsReady ==
  Running("setjmp") /\ Top.regs = {} => \A r \in Reg : mem[Flag(r)] = READY

THEOREM CheckpointAlwaysReady == PSpec => []CheckpointIsReady
  <1>1. PInv => CheckpointIsReady
    BY DEF PInv, QueueInv, SetjmpInv, CheckpointIsReady, Running
  <1> QED BY <1>1, PipelineInvariant, PTL
=============================================================================
