---------------------------- MODULE ModuloSched ----------------------------
(***************************************************************************)
(* elcor's iterative modulo scheduler (elcor/src/MSched): the search for   *)
(* the recurrence bound RecMII, the scheduling of one loop body at an      *)
(* initiation interval II with displacement of operations already placed   *)
(* and a budget, the resource usage map (Mdes/mdes.cpp, RU_mgr), and the   *)
(* driver that tries the next II when an attempt fails.                    *)
(*                                                                         *)
(* Operations are numbered in the order of the loop body; the last one is  *)
(* the software pipelining branch, which is placed first and never moves.  *)
(* Slots are 1-based, as stime is.  A loop gives its edges (with the       *)
(* latency, and the iterations omega they span), the latency of each       *)
(* operation's result, and its alternatives: the resources each uses and   *)
(* when.  An alternative uses a resource at most once.                     *)
(***************************************************************************)
EXTENDS Integers, Sequences, FiniteSets, FiniteSetsExt, SequencesExt

CONSTANTS
    N,              \* operations of a loop body, the branch aside
    LOOPS,          \* the loop bodies a run considers
    Resources,
    Count,          \* how many there are of each resource
    BUDGETRATIO,    \* El_budget_ratio
    MAXOPLAT        \* MDES_max_op_lat

Ops == 1..N
Branch == N + 1
Nodes == 1..(N + 1)
NumNodes == N + 1

Use == [res : Resources, time : 0..(MAXOPLAT - 1)]
Edge == [src : Nodes, dst : Nodes, lat : Int, omega : Nat]

ASSUME LoopAssumption ==
    /\ N \in Nat \ {0} /\ BUDGETRATIO \in Nat \ {0} /\ MAXOPLAT \in Nat \ {0}
    /\ Count \in [Resources -> Nat \ {0}]
    /\ \A l \in LOOPS :
        /\ l.edges \in SUBSET Edge /\ IsFiniteSet(l.edges)
        /\ l.lat \in [Nodes -> Nat] /\ l.anti \in [Nodes -> Nat]
        /\ l.alts \in [Nodes -> Seq(SUBSET Use)]

\* Within one iteration dependences follow the order of the body, and an
\* alternative uses a resource at most once.
ASSUME BodyAssumption == \A l \in LOOPS :
    /\ \A e \in l.edges : e.omega = 0 => e.src < e.dst
    /\ \A op \in Nodes : /\ l.alts[op] # <<>>
                         /\ \A k \in DOMAIN l.alts[op] : \A u, v \in l.alts[op][k] :
                                u.res = v.res => u = v

VARIABLES
    loop,           \* the loop body being scheduled
    phase,          \* where the driver is
    the_resmii,     \* the bound calculate_ResMII gave
    lowlim, uplim,  \* the binary search of calculate_RecMII
    ii,             \* the_ii
    budget,         \* curbudget
    height,         \* SchedInfo::height, the priority, with its sign turned
    stime,          \* SchedInfo::stime; -1: not scheduled
    placed,         \* operations whose SchedInfo::placed is set
    alt,            \* SchedInfo::specific_op, an alternative; 0: NULL
    unscheduled,    \* unscheduledNodes, in order
    ru_map,         \* which operations the resource map has in which cell
    esc,            \* the_esc
    last            \* history: where an operation was last scheduled, or -1

\* A definition whose comment says "Faulty:" is not part of the model.  It is the
\* definition after it with a plausible bug, kept to see that a property notices.

searchVars == <<the_resmii, lowlim, uplim>>
attemptVars == <<budget, height, stime, placed, alt, unscheduled, ru_map, last>>
schedVars == <<loop, phase, searchVars, ii, attemptVars, esc>>

-----------------------------------------------------------------------------
\* Longest paths (failFloyd, floyd).

Larger(x, y) == IF x >= y THEN x ELSE y

\* f itself; TLC keeps the values instead of computing them at every use.
Tabulated(f) == CHOOSE g \in {f} : g = f

Stop == N + 2
PathEnds == 1..(N + 2)

\* One-step distances at an interval; every node reaches Stop with delay 0.
\* A pair outside the domain has no path: the code's minus_infinity, which the
\* sums of a loop body's latencies are far from.
Direct(i) ==
    LET D(p) == {e.lat - i * e.omega : e \in {f \in loop.edges : <<f.src, f.dst>> = p}}
    IN  [p \in {<<f.src, f.dst>> : f \in loop.edges} \cup (Nodes \X {Stop}) |->
            IF p[2] = Stop THEN 0 ELSE Max(D(p))]

\* Pairs that node m lies between.
Joined(d, m) == {p \in PathEnds \X PathEnds : /\ m \notin {p[1], p[2]}
                                              /\ {<<p[1], m>>, <<m, p[2]>>} \subseteq DOMAIN d}

\* minDist after nodes 1..m have been tried as intermediate ones; the
\* singletons only make TLC compute each matrix once.
Through(d, m) == Tabulated([p \in DOMAIN d \cup Joined(d, m) |->
    LET via == d[<<p[1], m>>] + d[<<m, p[2]>>] IN
    IF p \notin DOMAIN d THEN via ELSE IF p \in Joined(d, m) THEN Larger(d[p], via) ELSE d[p]])
MinDist(i) ==
    LET dist[m \in 0..(N + 2)] ==
          IF m = 0 THEN Tabulated(Direct(i))
          ELSE CHOOSE far \in {Through(d, m) : d \in {dist[m - 1]}} : TRUE
    IN  dist[N + 2]

failFloyd(i) == \E d \in {MinDist(i)} : \E x \in PathEnds : <<x, x>> \in DOMAIN d /\ d[<<x, x>>] > 0

\* The resource bound: each operation takes the first of the alternatives
\* that raise the bound least (Rmsl).
Ceiling(x, y) == (x + y - 1) \div y
Cycles(cum) == Max({0} \cup {Ceiling(cum[r], Count[r]) : r \in Resources})
calculate_ResMII ==
    LET Tally(cum, use) == Tabulated([r \in Resources |-> cum[r] + Cardinality({u \in use : u.res = r})])
        Best(cum, op) == Min({k \in DOMAIN loop.alts[op] : \A j \in DOMAIN loop.alts[op] :
                                Cycles(Tally(cum, loop.alts[op][k])) <= Cycles(Tally(cum, loop.alts[op][j]))})
        cum_vect[op \in 0..NumNodes] ==
            IF op = 0 THEN [r \in Resources |-> 0]
            ELSE LET cum == cum_vect[op - 1] IN Tally(cum, loop.alts[op][Best(cum, op)])
    IN  Cycles(cum_vect[NumNodes])

-----------------------------------------------------------------------------
\* The resource usage map (RU_mgr).

Cells(op, k, slot) == {<<(slot - 1 + u.time) % ii, u.res>> : u \in loop.alts[op][k]}
Users(map, cell) == {q \in Nodes : <<cell, q>> \in map}

check_resources_free(map, op, k, slot) ==
    \A c \in Cells(op, k, slot) : Cardinality(Users(map, c)) < Count[c[2]]

get_nonconflicting_patterns(map, op, slot) ==
    {k \in DOMAIN loop.alts[op] : check_resources_free(map, op, k, slot)}

\* Everything in a cell that some alternative of op needs.
get_conflicting_ops(op, slot) ==
    UNION {Users(ru_map, c) : c \in UNION {Cells(op, k, slot) : k \in DOMAIN loop.alts[op]}}

\* Faulty: the window of a use that wraps round the interval is taken as empty.
WindowUnwrapped(slot) ==
    IF ii <= MAXOPLAT THEN 0..(ii - 1) ELSE ((slot - 1) % ii)..(((slot - 1 + MAXOPLAT) % ii) - 1)

\* remove looks for the operation in the cycles one of its uses can be in.
Window(slot) ==
    LET lower == (slot - 1) % ii
        upper == (slot - 1 + MAXOPLAT) % ii
    IN  IF ii <= MAXOPLAT THEN 0..(ii - 1)
        ELSE IF upper < lower THEN (0..(upper - 1)) \cup (lower..(ii - 1))
        ELSE lower..(upper - 1)

RU_remove(map, C) == {x \in map : ~(x[2] \in C /\ x[1][1] \in Window(stime[x[2]]))}
RU_place(map, op, k, slot) == map \cup {<<c, op>> : c \in Cells(op, k, slot)}

-----------------------------------------------------------------------------
\* Dependences and the choice of a slot.

Delay(e) == e.lat - ii * e.omega

\* Faulty: only the operations op depends on are looked at.
getDependencyConflictsBefore(op, slot) ==
    {q \in placed : \E e \in loop.edges : e.dst = op /\ e.src = q /\ slot < stime[q] + Delay(e)}

\* The placed operations that are early or too late for op at slot.
getDependencyConflicts(op, slot) ==
    {q \in placed : \E e \in loop.edges :
        \/ e.src = op /\ e.dst = q /\ slot > stime[q] - Delay(e)
        \/ e.dst = op /\ e.src = q /\ slot < stime[q] + Delay(e)}

CalcEstart(op, P) == {stime[e.src] + Delay(e) : e \in {f \in loop.edges : f.dst = op /\ f.src \in P}}
MinTime(op, P) == Max(CalcEstart(op, P) \cup {1})
MaxTime(op, P) == MinTime(op, P) + Larger(ii - 1, 1)

\* The first slot with a free alternative, and its first free alternative.
get_sched_info(map, P, op, slot, k) ==
    /\ slot \in MinTime(op, P)..MaxTime(op, P)
    /\ k \in get_nonconflicting_patterns(map, op, slot)
    /\ \A j \in get_nonconflicting_patterns(map, op, slot) : k <= j
    /\ \A t \in MinTime(op, P)..(slot - 1) : get_nonconflicting_patterns(map, op, t) = {}

NoLegalSlot(op) == \A t \in MinTime(op, placed)..MaxTime(op, placed) :
                        get_nonconflicting_patterns(ru_map, op, t) = {}

\* The slot tried when there is no legal one.
NextTry(op, s) == LET min == MinTime(op, placed) IN
    IF s = -1 \/ min > s THEN min ELSE s + 1 - ii * ((s + 1 - min) \div ii)
ForcedSlot(op) == NextTry(op, stime[op])

WaitsBehind(a, b) == \E i, j \in DOMAIN unscheduled :
                        i < j /\ unscheduled[i] = a /\ unscheduled[j] = b

\* Faulty: an operation taken out waits behind all others.
AheadTakenOutLast(a, b, C) ==
    \/ b \in C
    \/ a \notin C /\ WaitsBehind(a, b)

\* unscheduledNodes is sorted by height, equals in the order they were added:
\* those that wait already, then those of C, in the order of a hash set.
Ahead(a, b, C) ==
    /\ height[a] >= height[b]
    /\ height[a] = height[b] => b \in C \/ WaitsBehind(a, b)

\* The orders in which operations may wait after C has been taken out of the
\* schedule and op has been placed.
Requeued(C, op) ==
    {list \in SetToSeqs((Range(unscheduled) \cup C) \ {op}) :
        \A j \in DOMAIN list : \A i \in 1..(j - 1) : Ahead(list[i], list[j], C)}

-----------------------------------------------------------------------------
\* calculate_RecMII: a doubling search for an interval without a positive
\* circuit, then a binary search for the least one.

SchedInit ==
    /\ loop \in LOOPS
    /\ phase = "limit"
    /\ the_resmii = calculate_ResMII /\ lowlim = 1 /\ uplim = the_resmii
    /\ the_resmii \in Nat \ {0}       \* asserted by calculate_RecMII
    /\ ii = 0 /\ budget = 0 /\ esc = 0
    /\ height = [op \in Nodes |-> 0]
    /\ stime = [op \in Nodes |-> -1]
    /\ placed = {}
    /\ alt = [op \in Nodes |-> 0]
    /\ unscheduled = <<>>
    /\ ru_map = {}
    /\ last = [op \in Nodes |-> -1]

\* Faulty: the lower bound moves on with the upper one.
LimitTooLowSkips ==
    /\ phase = "limit" /\ failFloyd(uplim)
    /\ lowlim' = 2 * uplim /\ uplim' = 2 * uplim /\ the_resmii' = the_resmii
    /\ UNCHANGED <<loop, phase, ii, attemptVars, esc>>

LimitTooLow ==
    /\ phase = "limit" /\ failFloyd(uplim)
    /\ lowlim' = uplim /\ uplim' = 2 * uplim /\ the_resmii' = the_resmii
    /\ UNCHANGED <<loop, phase, ii, attemptVars, esc>>

LimitFound ==
    /\ phase = "limit" /\ ~failFloyd(uplim)
    /\ phase' = "search"
    /\ UNCHANGED <<loop, searchVars, ii, attemptVars, esc>>

recmii == (uplim + lowlim) \div 2

\* Faulty: an interval found too short is not excluded.
SearchStepStuck ==
    /\ phase = "search" /\ uplim # lowlim
    /\ the_resmii' = the_resmii
    /\ IF failFloyd(recmii) THEN lowlim' = recmii /\ uplim' = uplim
                            ELSE uplim' = recmii /\ lowlim' = lowlim
    /\ UNCHANGED <<loop, phase, ii, attemptVars, esc>>

SearchStep ==
    /\ phase = "search" /\ uplim # lowlim
    /\ the_resmii' = the_resmii
    /\ IF failFloyd(recmii) THEN lowlim' = recmii + 1 /\ uplim' = uplim
                            ELSE uplim' = recmii /\ lowlim' = lowlim
    /\ UNCHANGED <<loop, phase, ii, attemptVars, esc>>

StartAtMII ==
    /\ phase = "search" /\ uplim = lowlim
    /\ ii' = Larger(recmii, the_resmii)
    /\ phase' = "schedule"
    /\ UNCHANGED <<loop, searchVars, attemptVars, esc>>

-----------------------------------------------------------------------------
\* One attempt: schedule, init_sched_state, place_branch.

\* How long after each operation the loop body goes on at least.
Heights(i) == CHOOSE h \in {[op \in Nodes |-> d[<<op, Stop>>]] : d \in {MinDist(i)}} : TRUE

init_sched_state ==
    /\ phase = "schedule" /\ ii < NumNodes * MAXOPLAT
    /\ budget' = BUDGETRATIO * NumNodes
    /\ height' = Tabulated(Heights(ii))
    /\ unscheduled' \in {list \in SetToSeqs(Ops) :
                            \A j \in DOMAIN list : \A i \in 1..(j - 1) :
                                /\ height'[list[i]] >= height'[list[j]]
                                /\ height'[list[i]] = height'[list[j]] => list[i] < list[j]}
    /\ stime' = [op \in Nodes |-> IF op = Branch THEN ii ELSE -1]
    /\ placed' = {Branch}
    /\ \E k \in get_nonconflicting_patterns({}, Branch, ii) :
        /\ \A j \in get_nonconflicting_patterns({}, Branch, ii) : k <= j
        /\ alt' = [op \in Nodes |-> IF op = Branch THEN k ELSE 0]
        /\ ru_map' = RU_place({}, Branch, k, ii)
    /\ last' = [op \in Nodes |-> -1]
    /\ phase' = "iterate"
    /\ UNCHANGED <<loop, searchVars, ii, esc>>

OutOfIntervals ==
    /\ phase = "schedule" /\ ii >= NumNodes * MAXOPLAT
    /\ phase' = "failed"
    /\ UNCHANGED <<loop, searchVars, ii, attemptVars, esc>>

-----------------------------------------------------------------------------
\* The iterative scheduler: one operation, the highest, per unit of budget.

\* Faulty: the budget is not looked at.
SchedulingUnpaid(op) ==
    /\ phase = "iterate" /\ unscheduled # <<>> /\ op = Head(unscheduled)
    /\ budget' = budget - 1
    /\ UNCHANGED <<loop, phase, searchVars, ii, height, esc>>

Scheduling(op) ==
    /\ phase = "iterate" /\ budget > 0
    /\ unscheduled # <<>> /\ op = Head(unscheduled)
    /\ budget' = budget - 1
    /\ UNCHANGED <<loop, phase, searchVars, ii, height, esc>>

\* Faulty: an operation taken out keeps the alternative it had.
BindKeepsAlternatives(op, slot, k, C) ==
    /\ check_resources_free(RU_remove(ru_map, C), op, k, slot)
    /\ ru_map' = RU_place(RU_remove(ru_map, C), op, k, slot)
    /\ placed' = (placed \ C) \cup {op}
    /\ stime' = [q \in Nodes |-> IF q = op THEN slot ELSE IF q \in C THEN -1 ELSE stime[q]]
    /\ alt' = [alt EXCEPT ![op] = k]
    /\ last' = [last EXCEPT ![op] = slot]
    /\ unscheduled' \in Requeued(C, op)

\* The operation is bound to alternative k in a slot, after those of C have
\* been taken out of the schedule.
Bind(op, slot, k, C) ==
    /\ check_resources_free(RU_remove(ru_map, C), op, k, slot)
    /\ ru_map' = RU_place(RU_remove(ru_map, C), op, k, slot)
    /\ placed' = (placed \ C) \cup {op}
    /\ stime' = [q \in Nodes |-> IF q = op THEN slot ELSE IF q \in C THEN -1 ELSE stime[q]]
    /\ alt' = [q \in Nodes |-> IF q = op THEN k ELSE IF q \in C THEN 0 ELSE alt[q]]
    /\ last' = [last EXCEPT ![op] = slot]
    /\ unscheduled' \in Requeued(C, op)

\* put fails: the slot is taken by the branch, which is fixed.
NotPlaced(op, k) ==
    /\ stime' = [stime EXCEPT ![op] = IF op \in placed THEN @ ELSE @ + 1]
    /\ alt' = [alt EXCEPT ![op] = k]
    /\ UNCHANGED <<placed, unscheduled, ru_map, last>>

\* A slot with free resources: only dependences can be in the way.
InLegalSlot(op) == \E slot \in MinTime(op, placed)..MaxTime(op, placed), k \in DOMAIN loop.alts[op] :
    LET C == getDependencyConflicts(op, slot) IN
    /\ Scheduling(op)
    /\ get_sched_info(ru_map, placed, op, slot, k)
    /\ \/ C = {} /\ Bind(op, slot, k, C)
       \/ C # {} /\ Branch \notin C /\ Bind(op, slot, k, C)
       \/ Branch \in C /\ NotPlaced(op, k)

\* No such slot: everything that uses what an alternative needs must leave
\* too, and the alternative is looked for again afterwards.
InForcedSlot(op) == \E slot \in MinTime(op, placed)..(MinTime(op, placed) + ii - 1) :
    LET C == getDependencyConflicts(op, slot) \cup get_conflicting_ops(op, slot) IN
    /\ Scheduling(op)
    /\ NoLegalSlot(op) /\ slot = ForcedSlot(op) /\ alt[op] = 0
    /\ \/ /\ Branch \notin C
          /\ \E verify \in 1..(slot + ii), k \in DOMAIN loop.alts[op] :
                /\ get_sched_info(RU_remove(ru_map, C), placed \ C, op, verify, k)
                /\ Bind(op, slot, k, C)
       \/ Branch \in C /\ NotPlaced(op, 0)

\* The cycles after its issue in which an operation still writes a result or
\* reads a source (flow_time and anti_time of its operands).
max_latency(op) == Larger(0, Larger(loop.lat[op], loop.anti[op]) - 1)
length == 1 + Max({stime[op] - 1 + max_latency(op) : op \in Nodes})
calculate_esc ==
    LET sc == length \div ii IN IF sc * ii = length THEN sc - 1 ELSE sc

Scheduled ==
    /\ phase = "iterate" /\ unscheduled = <<>>
    /\ esc' = calculate_esc
    /\ phase' = "scheduled"
    /\ UNCHANGED <<loop, searchVars, ii, attemptVars>>

\* The budget is spent: the driver tries the next interval.
BumpII ==
    /\ phase = "iterate" /\ unscheduled # <<>> /\ budget = 0
    /\ ii' = ii + 1
    /\ phase' = "schedule"
    /\ UNCHANGED <<loop, searchVars, attemptVars, esc>>

SchedStep ==
    \/ LimitTooLow \/ LimitFound \/ SearchStep \/ StartAtMII
    \/ init_sched_state \/ OutOfIntervals
    \/ \E op \in Ops : InLegalSlot(op) \/ InForcedSlot(op)
    \/ Scheduled \/ BumpII

Ended == phase \in {"scheduled", "failed"} /\ UNCHANGED schedVars

SchedSpec == SchedInit /\ [][SchedStep \/ Ended]_schedVars
FairSchedSpec == SchedSpec /\ WF_schedVars(SchedStep)

-----------------------------------------------------------------------------
SchedTypeOK ==
    /\ loop.edges \in SUBSET Edge /\ {loop.lat, loop.anti} \subseteq [Nodes -> Nat]
    /\ phase \in {"limit", "search", "schedule", "iterate", "scheduled", "failed"}
    /\ the_resmii \in Nat \ {0} /\ lowlim \in Nat \ {0} /\ uplim \in Nat \ {0} /\ ii \in Nat /\ budget \in Nat /\ esc \in Nat
    /\ height \in [Nodes -> Int] /\ stime \in [Nodes -> Int]
    /\ placed \in SUBSET Nodes
    /\ alt \in [Nodes -> Nat]
    /\ unscheduled \in Seq(Ops)
    /\ last \in [Nodes -> Int]

\* Two placed operations are as far apart as the dependences between them
\* ask for, whatever was displaced in between.
DependencesHold == \A e \in loop.edges :
    e.src \in placed /\ e.dst \in placed /\ e.src # e.dst
        => stime[e.dst] >= stime[e.src] + Delay(e)

\* The resource map is what the placed operations use: taking an operation
\* out leaves nothing behind, also where its uses wrap round the interval.
\* No cell holds more operations than there are resources.
MapIsPlaced == phase \in {"iterate", "scheduled"} =>
    /\ ru_map = UNION {{<<c, op>> : c \in Cells(op, alt[op], stime[op])} : op \in placed}
    /\ \A x \in ru_map : Cardinality(Users(ru_map, x[1])) <= Count[x[1][2]]

\* An operation waits to be scheduled exactly when it is not placed, once,
\* behind all that are higher.
QueueIsUnplaced == phase \in {"iterate", "scheduled"} =>
    /\ Len(unscheduled) = Cardinality(Ops \ placed)
    /\ Range(unscheduled) = Ops \ placed
    /\ \A i, j \in DOMAIN unscheduled : i < j => height[unscheduled[i]] >= height[unscheduled[j]]

\* Some times satisfy all dependences at interval i.  Up to N times the longest
\* latency is enough: a longer gap than a latency can close.
LongestLatency == Max({0} \cup {e.lat : e \in loop.edges})
Feasible(i) == \E t \in [Nodes -> 0..(N * LongestLatency)] :
    \A e \in loop.edges : t[e.dst] - t[e.src] >= e.lat - i * e.omega

\* RecMII is the least interval at which the dependences can be met at all.
RecMIIIsLeast == phase = "schedule" /\ placed = {} =>
    /\ Feasible(recmii)
    /\ recmii > 1 => ~Feasible(recmii - 1)

\* No alternative is left over from an earlier try when one is forced: the
\* resource conflicts of a forced slot are always looked for.
ForcedAfresh == \A op \in Ops :
    phase = "iterate" /\ unscheduled # <<>> /\ op = Head(unscheduled) /\ NoLegalSlot(op)
        => alt[op] = 0

\* The comment of iterative_scheduler: without a legal slot the operation is
\* tried after the time it was last scheduled at.
ForcedSlotAdvances == [][\A op \in Ops : InForcedSlot(op) => ForcedSlot(op) = NextTry(op, last[op])]_schedVars

\* The search for a schedule ends.
SchedulingEnds == <>(phase \in {"scheduled", "failed"})
=============================================================================
