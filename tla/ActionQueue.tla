---------------------------- MODULE ActionQueue ----------------------------
(***************************************************************************)
(* The EQUALS-mode action queue of the Simu run-time (emulib/PD_queue.c):  *)
(* a circular buffer of QSIZE slots, one per future cycle.  A write with   *)
(* latency lat is put lat-1 slots after the head; each clock commits the   *)
(* head slot and moves the head on.  A call is queued like a write, at     *)
(* most one per slot.  The interlock flag of a register is set when a      *)
(* write is queued and cleared by a READY move queued behind that write.   *)
(*                                                                         *)
(* Memory words are cells: the two words of a register ("lo", "hi") and    *)
(* its interlock flag ("pending").  The loops that drive the queue         *)
(* (aclock, check_interlock) and the nesting of calls are in Pipeline.     *)
(***************************************************************************)
EXTENDS Integers, Sequences

CONSTANTS
    Reg,        \* registers
    Val,        \* words an operation can write
    Target,     \* addresses that can be called
    NoCall,     \* no call in the slot, or no call made yet
    NoWrite,    \* in the properties: nothing is due for a word
    QSIZE,      \* __PD_QSIZE, the number of slots
    MAXLAT,     \* the longest latency the machine description gives
    MAXWRITE    \* __PD_MAXWRITE, the moves a slot has room for

ASSUME QSizeAssumption  == QSIZE \in Nat \ {0}
ASSUME MaxLatAssumption == MAXLAT \in 1 .. QSIZE
ASSUME MaxWriteAssumption == MAXWRITE \in Nat
ASSUME ValAssumption == 0 \in Val
ASSUME NoCallAssumption == NoCall \notin Target
ASSUME NoWriteAssumption == NoWrite \notin Val \cup {0, 1}

VARIABLES
    PD_pending, \* the head slot, due at the next clock
    moves,      \* the queued moves of each slot, in issue order
    call,       \* the queued call of each slot
    mem,        \* contents of the cells
    last_call,  \* __PD_last_call
    punted      \* __PD_punt has stopped the simulation

qvars == <<PD_pending, moves, call, mem, last_call, punted>>

READY == 0
BUSY  == 1

Slot    == 0 .. QSIZE - 1
Latency == 1 .. MAXLAT
Data    == Reg \X {"lo", "hi"}
Flag(r) == <<r, "pending">>
Cell    == Data \cup {Flag(r) : r \in Reg}
Word    == Val \cup {READY, BUSY}
Move    == [reg : Cell, val : Word]

\* A definition whose comment says "Faulty:" is not part of the model.  It is the
\* definition after it with a plausible bug, kept to see that a property notices.

\* Faulty: a latency counts from the next cycle.
AttimeLate(lat) == (PD_pending + lat) % QSIZE
Attime(lat) == (PD_pending + lat - 1) % QSIZE

\* Faulty: the mask is forgotten.
NextSlotUnmasked == PD_pending + 1
NextSlot == (PD_pending + 1) % QSIZE

----------------------------------------------------------------------------
PD_initialize_queue ==
    /\ PD_pending = 0
    /\ moves = [s \in Slot |-> <<>>]
    /\ call = [s \in Slot |-> NoCall]
    /\ last_call = [address |-> NoCall, is_valid |-> FALSE]

\* A fresh register file is calloc'ed: every word and flag is zero.
Init ==
    /\ PD_initialize_queue
    /\ mem = [c \in Cell |-> 0]
    /\ punted = FALSE

\* Faulty: a busy register gets a READY move again.
WakeupAlways(r) == <<[reg |-> Flag(r), val |-> READY]>>

\* Faulty: the register is marked busy and no READY move is queued.
WakeupMissing(r) == <<>>

\* What queueing a write of r appends behind the write: the READY move, unless
\* the register is already busy.
Wakeup(r) ==
    IF mem[Flag(r)] # BUSY THEN <<[reg |-> Flag(r), val |-> READY]>> ELSE <<>>

\* Faulty: the READY move goes in front of the write.
QueueReadyFirst(r, ws, lat) ==
    LET ms == Wakeup(r) \o ws
    IN  /\ ~punted
        /\ Len(moves[Attime(lat)]) + Len(ms) <= MAXWRITE
        /\ moves' = [moves EXCEPT ![Attime(lat)] = @ \o ms]
        /\ mem' = [mem EXCEPT ![Flag(r)] = BUSY]
        /\ UNCHANGED <<PD_pending, call, last_call, punted>>

Queue(r, ws, lat) ==
    LET ms == ws \o Wakeup(r)
    IN  /\ ~punted
        /\ Len(moves[Attime(lat)]) + Len(ms) <= MAXWRITE
        /\ moves' = [moves EXCEPT ![Attime(lat)] = @ \o ms]
        /\ mem' = [mem EXCEPT ![Flag(r)] = BUSY]
        /\ UNCHANGED <<PD_pending, call, last_call, punted>>

PD_delay(r, v, lat) == Queue(r, <<[reg |-> <<r, "lo">>, val |-> v]>>, lat)

PD_delay2x(r, v, w, lat) ==
    Queue(r, <<[reg |-> <<r, "lo">>, val |-> v],
               [reg |-> <<r, "hi">>, val |-> w]>>, lat)

\* Faulty: the later of two calls of a cycle replaces the earlier.
PD_delay_callUnchecked(t, lat) ==
    /\ ~punted
    /\ call' = [call EXCEPT ![Attime(lat)] = t]
    /\ UNCHANGED <<PD_pending, moves, mem, last_call, punted>>

\* A second call in one slot is "more than one branch operation per
\* instruction": the simulation is stopped.
PD_delay_call(t, lat) ==
    /\ ~punted
    /\ IF call[Attime(lat)] # NoCall
       THEN punted' = TRUE /\ UNCHANGED call
       ELSE call' = [call EXCEPT ![Attime(lat)] = t] /\ UNCHANGED punted
    /\ UNCHANGED <<PD_pending, moves, mem, last_call>>

\* The moves of a slot are stored in issue order, so the last one to a cell
\* decides its value.
Writes(s, c) == {i \in 1 .. Len(s) : s[i].reg = c}

\* Faulty: the first of several moves to a cell wins.
FirstMove(s, c) == CHOOSE i \in Writes(s, c) : \A j \in Writes(s, c) : i <= j
LastMove(s, c) == CHOOSE i \in Writes(s, c) : \A j \in Writes(s, c) : j <= i
Committed(s, m) ==
    [c \in Cell |-> IF Writes(s, c) = {} THEN m[c] ELSE s[LastMove(s, c)].val]

\* The call due at the next clock; its execution starts after the head has
\* moved on, so that re-entry works on the next slot.
DueCall == call[PD_pending]

PD_execute_instructions ==
    /\ ~punted
    /\ mem' = Committed(moves[PD_pending], mem)
    /\ moves' = [moves EXCEPT ![PD_pending] = <<>>]
    /\ call' = [call EXCEPT ![PD_pending] = NoCall]
    /\ PD_pending' = NextSlot
    /\ last_call' = IF DueCall = NoCall
                    THEN last_call
                    ELSE [address |-> DueCall, is_valid |-> TRUE]
    /\ UNCHANGED punted

\* The wrapper of function f asks whether the simulator made the call; the
\* answer is given once.
PD_is_simulator_call(f) ==
    /\ ~punted
    /\ last_call' = IF last_call.address = f
                    THEN [last_call EXCEPT !.is_valid = FALSE]
                    ELSE last_call
    /\ UNCHANGED <<PD_pending, moves, call, mem, punted>>

Next ==
    \/ \E r \in Reg, v \in Val, lat \in Latency : PD_delay(r, v, lat)
    \/ \E r \in Reg, v, w \in Val, lat \in Latency : PD_delay2x(r, v, w, lat)
    \/ \E t \in Target, lat \in Latency : PD_delay_call(t, lat)
    \/ PD_execute_instructions
    \/ \E f \in Target : PD_is_simulator_call(f)

Spec == Init /\ [][Next]_qvars

----------------------------------------------------------------------------
\* The queue's variables stay in their types, and no slot outgrows its room.
TypeOK ==
    /\ PD_pending \in Slot
    /\ moves \in [Slot -> Seq(Move)]
    /\ \A s \in Slot : Len(moves[s]) <= MAXWRITE
    /\ call \in [Slot -> Target \cup {NoCall}]
    /\ mem \in [Cell -> Word]
    /\ last_call \in [address : Target \cup {NoCall}, is_valid : BOOLEAN]
    /\ punted \in BOOLEAN

\* The slot that is due d cycles after the next clock.
At(d) == (PD_pending + d) % QSIZE

\* The READY moves queued for register r.
Wakeups(r) ==
    {w \in Slot \X (1 .. MAXWRITE) :
        w[2] <= Len(moves[w[1]]) /\ moves[w[1]][w[2]].reg = Flag(r)}

\* A busy register has exactly one READY move in the queue and a free one has
\* none: nothing clears the interlock of a write early, and no register stays
\* busy for ever, whatever order writes of different latencies come in
\* (PD_delay adds the move only when it finds the register not busy).
OneWakeup ==
    \A r \in Reg :
        IF mem[Flag(r)] = BUSY
        THEN \E w \in Wakeups(r) : Wakeups(r) = {w}
        ELSE Wakeups(r) = {}

\* A READY move sits right behind a write of its own register, so the flag
\* never clears before the write that took it has landed.
WakeupFollowsWrite ==
    \A r \in Reg : \A w \in Wakeups(r) :
        w[2] > 1 /\ moves[w[1]][w[2] - 1].reg \in {<<r, "lo">>, <<r, "hi">>}

\* The circular buffer never wraps onto itself: a slot further away than the
\* longest latency holds nothing, so the slot a new write reaches holds only
\* what is due in the same cycle.
NothingBeyondMaxLat ==
    \A d \in MAXLAT .. QSIZE - 1 :
        moves[At(d)] = <<>> /\ call[At(d)] = NoCall

\* The distances at which register r is woken up.
WakeupDistances(r) == {d \in 0 .. QSIZE - 1 : \E w \in Wakeups(r) : w[1] = At(d)}

Equals == INSTANCE EqualsWrites WITH
    word <- [c \in Data |-> mem[c]],
    due <- [d \in 0 .. MAXLAT - 1 |-> [c \in Data |->
              IF Writes(moves[At(d)], c) = {} THEN NoWrite
              ELSE moves[At(d)][LastMove(moves[At(d)], c)].val]],
    owed <- [r \in Reg |-> IF mem[Flag(r)] = BUSY
                           THEN 1 + CHOOSE d \in WakeupDistances(r) : TRUE
                           ELSE 0],
    calls <- [d \in 0 .. MAXLAT - 1 |-> call[At(d)]],
    made <- last_call.address,
    stopped <- punted

\* The circular queue implements EQUALS latency semantics: every operation is
\* one step of EqualsWrites or a stutter.
ImplementsEquals == Equals!Spec
=============================================================================
