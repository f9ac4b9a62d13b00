------------------------- MODULE ModuloSchedProofs -------------------------
(***************************************************************************)
(* What elcor's modulo scheduler keeps for every loop body, every budget   *)
(* and every interval (ModuloSched).                                       *)
(***************************************************************************)
EXTENDS ModuloSched, FiniteSetTheorems, WellFoundedInduction, TLAPS

-----------------------------------------------------------------------------
\* The greatest and the least of some numbers.

\* Every nonempty set of naturals has a least element.
LEMMA LeastExists == \A T \in SUBSET Nat : T # {} => \E x \in T : \A y \in T : x <= y
  <1> SUFFICES ASSUME NEW T \in SUBSET Nat, T # {} PROVE \E x \in T : \A y \in T : x <= y
    OBVIOUS
  <1> DEFINE R == OpToRel(<, Nat)
  <1>1. \E x \in T : \A y \in T : ~ (<<y, x>> \in R)
    <2>1. IsWellFoundedOn(R, Nat)
      BY NatLessThanWellFounded
    <2> HIDE DEF R
    <2> QED BY <2>1, WFMin
  <1>2. \A x, y \in Nat : <<y, x>> \in R <=> y < x
    BY DEF OpToRel
  <1> HIDE DEF R
  <1>3. PICK x \in T : \A y \in T : ~ (<<y, x>> \in R)
    BY <1>1
  <1>4. \A y \in T : x <= y
    <2> TAKE y \in T
    <2>1. ~(y < x)
      BY <1>2, <1>3
    <2> QED BY <2>1
  <1> QED BY <1>4

\* What holds of 0 and goes from each number below top to the next holds up to top.
LEMMA UpTo ==
  ASSUME NEW top \in Nat, NEW T, 0 \in T, \A k \in 0 .. top - 1 : k \in T => k + 1 \in T
  PROVE  \A k \in 0 .. top : k \in T
  <1> SUFFICES ASSUME NEW n \in 0 .. top, n \notin T PROVE FALSE
    OBVIOUS
  <1> DEFINE Missing == {k \in 0 .. top : k \notin T}
  <1>1. Missing \in SUBSET Nat /\ Missing # {}
    OBVIOUS
  <1>2. PICK m \in Missing : \A k \in Missing : m <= k
    <2> HIDE DEF Missing
    <2> QED BY <1>1, LeastExists
  <1>3. m - 1 \in 0 .. top - 1 /\ m - 1 \in T
    BY <1>2
  <1> QED BY <1>2, <1>3

\* The values of a function on a finite set.
LEMMA ImageFinite ==
  ASSUME NEW S, IsFiniteSet(S), NEW f, DOMAIN f = S
  PROVE  IsFiniteSet({f[x] : x \in S})
  <1> DEFINE T == {f[x] : x \in S}
             g == [x \in S |-> f[x]]
  <1>1. g \in Surjection(S, T)
    BY DEF Surjection
  <1> HIDE DEF T, g
  <1>2. IsFiniteSet(T)
    BY <1>1, FS_Surjection
  <1> QED BY <1>2 DEF T

\* Finitely many numbers lie between two.
LEMMA FiniteBound ==
  ASSUME NEW T \in SUBSET Int, IsFiniteSet(T)
  PROVE  \E b \in Nat : \A y \in T : y <= b /\ -b <= y
  <1>1. PICK n : n = Cardinality(T)
    OBVIOUS
  <1>2. n \in Nat /\ ExistsBijection(1..n, T)
    BY <1>1, FS_CardinalityType
  <1>3. PICK f \in [1..n -> T] : \A y \in T : \E k \in 1..n : f[k] = y
    BY <1>2 DEF ExistsBijection, Bijection, Injection, Surjection
  <1> DEFINE Bounded == {m \in 0..n : \E b \in Nat : \A k \in 1..m : f[k] <= b /\ -b <= f[k]}
  <1>4. 0 \in Bounded
    <2>1. \A k \in 1..0 : f[k] <= 0 /\ -0 <= f[k]
      OBVIOUS
    <2> QED BY <1>2, <2>1
  <1>5. ASSUME NEW m \in 0..n - 1, m \in Bounded PROVE m + 1 \in Bounded
    <2>1. PICK b \in Nat : \A k \in 1..m : f[k] <= b /\ -b <= f[k]
      BY <1>5
    <2>2. m + 1 \in 1..n /\ f[m + 1] \in Int
      <3>1. m + 1 \in 1..n
        BY <1>2
      <3>2. f[m + 1] \in T
        BY <3>1
      <3> QED BY <3>1, <3>2
    <2>3. PICK c \in Nat : c >= b /\ c >= f[m + 1] /\ -c <= f[m + 1]
      <3>1. CASE b >= f[m + 1] /\ -b <= f[m + 1]
        BY <3>1
      <3>2. CASE b < f[m + 1]
        BY <2>2, <3>2
      <3>3. CASE -b > f[m + 1]
        <4>1. -f[m + 1] \in Nat /\ -f[m + 1] >= b
          BY <2>2, <3>3
        <4> QED BY <2>2, <4>1
      <3> QED BY <2>2, <3>1, <3>2, <3>3
    <2>4. \A k \in 1..(m + 1) : f[k] <= c /\ -c <= f[k]
      <3> SUFFICES ASSUME NEW k \in 1..(m + 1) PROVE f[k] <= c /\ -c <= f[k]
        OBVIOUS
      <3>1. k \in 1..n /\ f[k] \in Int
        <4>1. k \in 1..n
          BY <1>2
        <4>2. f[k] \in T
          BY <4>1
        <4> QED BY <4>1, <4>2
      <3>2. CASE k = m + 1
        BY <2>3, <3>2
      <3>3. CASE k # m + 1
        <4>1. k \in 1..m
          BY <1>2, <3>3
        <4> QED BY <2>1, <2>3, <3>1, <4>1
      <3> QED BY <3>2, <3>3
    <2>5. m + 1 \in 0..n
      BY <1>2
    <2> QED BY <2>4, <2>5
  <1> HIDE DEF Bounded
  <1>6. \A m \in 0..n : m \in Bounded
    BY <1>2, <1>4, <1>5, UpTo
  <1>7. n \in Bounded
    BY <1>2, <1>6
  <1> QED BY <1>3, <1>7 DEF Bounded

\* A finite set of numbers has a largest one, and Max finds it.
LEMMA MaxIs ==
  ASSUME NEW T \in SUBSET Int, T # {}, IsFiniteSet(T)
  PROVE  Max(T) \in T /\ Max(T) \in Int /\ \A y \in T : Max(T) >= y
  <1>1. PICK b \in Nat : \A y \in T : y <= b /\ -b <= y
    BY FiniteBound
  <1> DEFINE Gap == {b - y : y \in T}
  <1>2. Gap \in SUBSET Nat /\ Gap # {}
    <2>1. ASSUME NEW y \in T PROVE b - y \in Nat
      <3>1. y \in Int /\ y <= b /\ -b <= y
        BY <1>1
      <3> QED BY <3>1
    <2> QED BY <2>1
  <1>3. PICK g \in Gap : \A h \in Gap : g <= h
    <2> HIDE DEF Gap
    <2> QED BY <1>2, LeastExists
  <1>4. PICK x \in T : g = b - x
    BY <1>3
  <1>5. \A y \in T : x >= y
    <2> TAKE y \in T
    <2>1. b - x <= b - y
      BY <1>3, <1>4
    <2> QED BY <1>1, <2>1
  <1>6. Max(T) \in T /\ \A y \in T : Max(T) >= y
    BY <1>5, Zenon DEF Max
  <1> QED BY <1>6

\* A finite set of numbers has a smallest one, and Min finds it.
LEMMA MinIs ==
  ASSUME NEW T \in SUBSET Int, T # {}, IsFiniteSet(T)
  PROVE  Min(T) \in T /\ Min(T) \in Int /\ \A y \in T : Min(T) <= y
  <1>1. PICK b \in Nat : \A y \in T : y <= b /\ -b <= y
    BY FiniteBound
  <1> DEFINE Gap == {y + b : y \in T}
  <1>2. Gap \in SUBSET Nat /\ Gap # {}
    <2>1. ASSUME NEW y \in T PROVE y + b \in Nat
      <3>1. y \in Int /\ y <= b /\ -b <= y
        BY <1>1
      <3> QED BY <3>1
    <2> QED BY <2>1
  <1>3. PICK g \in Gap : \A h \in Gap : g <= h
    <2> HIDE DEF Gap
    <2> QED BY <1>2, LeastExists
  <1>4. PICK x \in T : g = x + b
    BY <1>3
  <1>5. \A y \in T : x <= y
    <2> TAKE y \in T
    <2>1. x + b <= y + b
      BY <1>3, <1>4
    <2> QED BY <1>1, <2>1
  <1>6. Min(T) \in T /\ \A y \in T : Min(T) <= y
    BY <1>5, Zenon DEF Min
  <1> QED BY <1>6

-----------------------------------------------------------------------------
\* What the dependences rest on: types, nothing placed before the first
\* attempt, and an interval of at least one cycle from then on.
SchedInv ==
    /\ loop \in LOOPS
    /\ the_resmii \in Nat \ {0} /\ lowlim \in Nat \ {0} /\ uplim \in Nat \ {0}
    /\ ii \in Nat
    /\ stime \in [Nodes -> Int]
    /\ placed \in SUBSET Nodes
    /\ phase \in {"limit", "search"} => placed = {}
    /\ DependencesHold

\* The fields of a dependence.
LEMMA EdgeType ==
  ASSUME loop \in LOOPS, NEW e \in loop.edges
  PROVE  e.src \in Nodes /\ e.dst \in Nodes /\ e.lat \in Int /\ e.omega \in Nat
  <1>1. loop.edges \in SUBSET Edge
    BY LoopAssumption
  <1> QED BY <1>1 DEF Edge

\* Operations and the branch are nodes.
LEMMA OpType == /\ Ops \subseteq Nodes /\ Branch \in Nodes
                /\ \A op \in Ops : op # Branch
  BY LoopAssumption DEF Ops, Nodes, Branch

\* The distance that a dependence asks for is a number.
LEMMA DelayType ==
  ASSUME loop \in LOOPS, ii \in Nat, NEW e \in loop.edges
  PROVE  Delay(e) \in Int
  <1>1. e.lat \in Int /\ e.omega \in Nat
    BY EdgeType
  <1> QED BY <1>1 DEF Delay

\* A longer interval asks for no more.
LEMMA DelayShrinks ==
  ASSUME NEW i \in Nat, NEW lat \in Int, NEW omega \in Nat
  PROVE  lat - (i + 1) * omega <= lat - i * omega
  <1>1. (i + 1) * omega = i * omega + omega
    OBVIOUS
  <1>2. i * omega \in Int
    OBVIOUS
  <1> QED BY <1>1, <1>2

\* The operation that could not be placed does not disturb those that are.
LEMMA UnplacedKeeps ==
  ASSUME SchedInv, NEW op, NEW k, NotPlaced(op, k), UNCHANGED <<loop, ii>>
  PROVE  stime' \in [Nodes -> Int] /\ DependencesHold'
  <1>1. stime' = [stime EXCEPT ![op] = IF op \in placed THEN @ ELSE @ + 1] /\ placed' = placed
    BY DEF NotPlaced
  <1>2. stime' = [q \in Nodes |-> IF q = op /\ op \notin placed THEN stime[q] + 1 ELSE stime[q]]
    BY <1>1 DEF SchedInv
  <1>3. stime' \in [Nodes -> Int] /\ \A q \in placed : stime'[q] = stime[q]
    BY <1>2 DEF SchedInv
  <1>4. DependencesHold'
    <2> SUFFICES ASSUME NEW e \in loop'.edges, e.src \in placed', e.dst \in placed', e.src # e.dst
                 PROVE  stime'[e.dst] >= stime'[e.src] + Delay(e)'
      BY DEF DependencesHold
    <2>1. Delay(e)' = Delay(e)
      BY DEF Delay
    <2> QED BY <1>1, <1>3, <2>1 DEF SchedInv, DependencesHold
  <1> QED BY <1>3, <1>4

\* An operation is bound where it meets its dependences with those that stay.
LEMMA BindKeeps ==
  ASSUME SchedInv, NEW op \in Ops, NEW slot \in Int, NEW k, NEW C,
         getDependencyConflicts(op, slot) \subseteq C,
         Bind(op, slot, k, C), UNCHANGED <<loop, ii>>
  PROVE  stime' \in [Nodes -> Int] /\ placed' \in SUBSET Nodes /\ DependencesHold'
  <1>1. /\ placed' = (placed \ C) \cup {op}
        /\ stime' = [q \in Nodes |-> IF q = op THEN slot ELSE IF q \in C THEN -1 ELSE stime[q]]
    BY DEF Bind
  <1>2. stime' \in [Nodes -> Int] /\ placed' \in SUBSET Nodes
    BY <1>1, OpType DEF SchedInv
  <1>3. stime'[op] = slot /\ \A q \in placed \ C : q # op => stime'[q] = stime[q]
    BY <1>1, OpType DEF SchedInv
  <1>4. DependencesHold'
    <2> SUFFICES ASSUME NEW e \in loop'.edges, e.src \in placed', e.dst \in placed', e.src # e.dst
                 PROVE  stime'[e.dst] >= stime'[e.src] + Delay(e)'
      BY DEF DependencesHold
    <2>1. Delay(e)' = Delay(e) /\ e \in loop.edges
      BY DEF Delay
    <2>2. Delay(e) \in Int
      BY <2>1, DelayType DEF SchedInv
    <2>3. CASE e.src # op /\ e.dst # op
      <3>1. e.src \in placed \ C /\ e.dst \in placed \ C
        BY <1>1, <2>3
      <3> QED BY <1>3, <2>1, <2>3, <3>1 DEF SchedInv, DependencesHold
    <2>4. CASE e.src = op
      <3>1. e.dst \in placed \ C /\ e.dst # op
        BY <1>1, <2>4
      <3>2. e.dst \notin getDependencyConflicts(op, slot)
        BY <3>1
      <3>3. ~(slot > stime[e.dst] - Delay(e))
        BY <2>1, <2>4, <3>1, <3>2 DEF getDependencyConflicts
      <3>4. stime[e.dst] \in Int
        BY <3>1 DEF SchedInv
      <3>5. stime[e.dst] >= slot + Delay(e)
        BY <2>2, <3>3, <3>4
      <3> QED BY <1>3, <2>1, <2>4, <3>1, <3>5
    <2>5. CASE e.dst = op
      <3>1. e.src \in placed \ C /\ e.src # op
        BY <1>1, <2>5
      <3>2. e.src \notin getDependencyConflicts(op, slot)
        BY <3>1
      <3>3. ~(slot < stime[e.src] + Delay(e))
        BY <2>1, <2>5, <3>1, <3>2 DEF getDependencyConflicts
      <3>4. stime[e.src] \in Int
        BY <3>1 DEF SchedInv
      <3>5. slot >= stime[e.src] + Delay(e)
        BY <2>2, <3>3, <3>4
      <3> QED BY <1>3, <2>1, <2>5, <3>1, <3>5
    <2> QED BY <2>3, <2>4, <2>5
  <1> QED BY <1>2, <1>4

\* One unit of budget, whether a legal slot was found or not.
LEMMA IterationKeeps ==
  ASSUME SchedInv, NEW op \in Ops, InLegalSlot(op) \/ InForcedSlot(op)
  PROVE  SchedInv'
  <1>1. UNCHANGED <<loop, phase, the_resmii, lowlim, uplim, ii>> /\ phase = "iterate"
    BY DEF InLegalSlot, InForcedSlot, Scheduling, searchVars
  <1>2. \/ \E k : NotPlaced(op, k)
        \/ \E slot \in Int : \E k, C : getDependencyConflicts(op, slot) \subseteq C /\ Bind(op, slot, k, C)
    <2>1. CASE InLegalSlot(op)
      <3>1. PICK slot \in MinTime(op, placed)..MaxTime(op, placed), k \in DOMAIN loop.alts[op] :
              \/ Bind(op, slot, k, getDependencyConflicts(op, slot))
              \/ NotPlaced(op, k)
        BY <2>1 DEF InLegalSlot
      <3>2. slot \in Int
        OBVIOUS
      <3> QED BY <3>1, <3>2
    <2>2. CASE InForcedSlot(op)
      <3>1. PICK slot \in MinTime(op, placed)..(MinTime(op, placed) + ii - 1) :
              \/ \E k : Bind(op, slot, k, getDependencyConflicts(op, slot) \cup get_conflicting_ops(op, slot))
              \/ NotPlaced(op, 0)
        BY <2>2 DEF InForcedSlot
      <3>2. slot \in Int
        OBVIOUS
      <3> QED BY <3>1, <3>2
    <2> QED BY <2>1, <2>2
  <1>3. CASE \E k : NotPlaced(op, k)
    <2>1. PICK k : NotPlaced(op, k)
      BY <1>3
    <2>2. placed' = placed
      BY <2>1 DEF NotPlaced
    <2>3. stime' \in [Nodes -> Int] /\ DependencesHold'
      BY <1>1, <2>1, UnplacedKeeps
    <2> QED BY <1>1, <2>2, <2>3 DEF SchedInv
  <1>4. CASE \E slot \in Int : \E k, C : getDependencyConflicts(op, slot) \subseteq C /\ Bind(op, slot, k, C)
    <2>1. PICK slot \in Int : \E k, C : getDependencyConflicts(op, slot) \subseteq C /\ Bind(op, slot, k, C)
      BY <1>4
    <2>2. PICK k, C : getDependencyConflicts(op, slot) \subseteq C /\ Bind(op, slot, k, C)
      BY <2>1
    <2>3. stime' \in [Nodes -> Int] /\ placed' \in SUBSET Nodes /\ DependencesHold'
      BY <1>1, <2>2, BindKeeps
    <2> QED BY <1>1, <2>3 DEF SchedInv
  <1> QED BY <1>2, <1>3, <1>4

\* At the next interval the dependences of the last attempt still hold.
LEMMA NextIntervalKeeps ==
  ASSUME SchedInv, UNCHANGED <<loop, searchVars, stime, placed>>, ii' = ii + 1, phase' = "schedule"
  PROVE  SchedInv'
  <1>1. UNCHANGED <<loop, the_resmii, lowlim, uplim, stime, placed>>
    BY DEF searchVars
  <1>2. DependencesHold'
    <2> SUFFICES ASSUME NEW e \in loop'.edges, e.src \in placed', e.dst \in placed', e.src # e.dst
                 PROVE  stime'[e.dst] >= stime'[e.src] + Delay(e)'
      BY DEF DependencesHold
    <2>1. /\ e \in loop.edges /\ e.src \in Nodes /\ e.dst \in Nodes
          /\ e.lat \in Int /\ e.omega \in Nat
      BY <1>1, EdgeType DEF SchedInv
    <2>2. stime[e.dst] >= stime[e.src] + Delay(e)
      BY <1>1, <2>1 DEF SchedInv, DependencesHold
    <2>3. Delay(e)' = e.lat - (ii + 1) * e.omega
      BY <1>1 DEF Delay
    <2>4. Delay(e)' <= Delay(e)
      BY <2>1, <2>3, DelayShrinks DEF Delay, SchedInv
    <2>5. Delay(e) \in Int /\ Delay(e)' \in Int
      <3>1. (ii + 1) * e.omega \in Int /\ ii * e.omega \in Int
        BY <2>1 DEF SchedInv
      <3> QED BY <2>1, <2>3, <3>1 DEF Delay
    <2>6. stime[e.src] \in Int /\ stime[e.dst] \in Int
      BY <2>1 DEF SchedInv
    <2> QED BY <1>1, <2>2, <2>4, <2>5, <2>6
  <1> QED BY <1>1, <1>2 DEF SchedInv

\* The next interval keeps what held.
LEMMA BumpKeeps == SchedInv /\ BumpII => SchedInv'
  BY NextIntervalKeeps DEF BumpII, attemptVars

\* The search for the recurrence bound, before anything is placed.
LEMMA SearchKeeps ==
  SchedInv /\ (LimitTooLow \/ LimitFound \/ SearchStep \/ StartAtMII) => SchedInv'
  <1> SUFFICES ASSUME SchedInv, LimitTooLow \/ LimitFound \/ SearchStep \/ StartAtMII
               PROVE  SchedInv'
    OBVIOUS
  <1>1. UNCHANGED <<loop, stime, placed>> /\ placed = {}
    BY DEF SchedInv, LimitTooLow, LimitFound, SearchStep, StartAtMII, attemptVars
  <1>2. DependencesHold'
    BY <1>1 DEF DependencesHold
  <1>3. recmii \in Nat \ {0}
    BY DEF SchedInv, recmii
  <1>4. /\ the_resmii' \in Nat \ {0} /\ lowlim' \in Nat \ {0} /\ uplim' \in Nat \ {0}
        /\ ii' \in Nat
    <2>1. CASE LimitTooLow
      BY <2>1 DEF SchedInv, LimitTooLow
    <2>2. CASE LimitFound
      BY <2>2 DEF SchedInv, LimitFound, searchVars
    <2>3. CASE SearchStep
      BY <1>3, <2>3 DEF SchedInv, SearchStep
    <2>4. CASE StartAtMII
      BY <1>3, <2>4 DEF SchedInv, StartAtMII, searchVars, Larger
    <2> QED BY <2>1, <2>2, <2>3, <2>4
  <1> QED BY <1>1, <1>2, <1>4 DEF SchedInv

\* An attempt starts from the branch alone.
LEMMA AttemptStarts == SchedInv /\ init_sched_state => SchedInv'
  <1> SUFFICES ASSUME SchedInv, init_sched_state PROVE SchedInv'
    OBVIOUS
  <1>1. /\ UNCHANGED <<loop, the_resmii, lowlim, uplim, ii>> /\ phase' = "iterate"
        /\ placed' = {Branch}
        /\ stime' = [op \in Nodes |-> IF op = Branch THEN ii ELSE -1]
    BY DEF init_sched_state, searchVars
  <1>2. stime' \in [Nodes -> Int]
    BY <1>1 DEF SchedInv
  <1>3. DependencesHold'
    BY <1>1 DEF DependencesHold
  <1> QED BY <1>1, <1>2, <1>3, OpType DEF SchedInv

\* No step of the scheduler breaks its dependences.
LEMMA SchedInvInductive == SchedInv /\ [SchedStep \/ Ended]_schedVars => SchedInv'
  <1> SUFFICES ASSUME SchedInv, [SchedStep \/ Ended]_schedVars PROVE SchedInv'
    OBVIOUS
  <1>1. CASE LimitTooLow \/ LimitFound \/ SearchStep \/ StartAtMII
    BY <1>1, SearchKeeps
  <1>2. CASE init_sched_state
    BY <1>2, AttemptStarts
  <1>3. CASE \E op \in Ops : InLegalSlot(op) \/ InForcedSlot(op)
    BY <1>3, IterationKeeps
  <1>4. CASE BumpII
    BY <1>4, BumpKeeps
  <1>5. CASE OutOfIntervals \/ Scheduled \/ UNCHANGED schedVars
    <2>1. UNCHANGED <<loop, searchVars, ii, stime, placed>>
      BY <1>5 DEF OutOfIntervals, Scheduled, schedVars, attemptVars, searchVars
    <2>2. phase' \notin {"limit", "search"} \/ phase' = phase
      BY <1>5 DEF OutOfIntervals, Scheduled, schedVars
    <2>3. DependencesHold'
      <3>1. \A e : Delay(e)' = Delay(e)
        BY <2>1 DEF Delay
      <3> QED BY <2>1, <3>1 DEF SchedInv, DependencesHold
    <2> QED BY <2>1, <2>2, <2>3 DEF SchedInv, searchVars
  <1> QED BY <1>1, <1>2, <1>3, <1>4, <1>5 DEF SchedStep, Ended

\* Whatever was displaced, in whatever order and at whatever interval, two
\* placed operations are as far apart as the dependences between them ask for:
\* getDependencyConflicts finds every operation that has to leave.
THEOREM DependencesAlways == SchedSpec => []DependencesHold
  <1>1. SchedInit => SchedInv
    BY DEF SchedInit, SchedInv, DependencesHold
  <1>2. SchedInv => DependencesHold
    BY DEF SchedInv
  <1> QED BY <1>1, <1>2, SchedInvInductive, PTL DEF SchedSpec

-----------------------------------------------------------------------------
\* What a placed operation has in the map.
Taken(q) == {<<c, q>> : c \in Cells(q, alt[q], stime[q])}

\* An alternative that an unplaced operation keeps belongs to the head of the
\* queue, and its slot is still there.
Untried == \A q \in Ops \ placed :
    alt[q] = 0 \/ (unscheduled # <<>> /\ q = Head(unscheduled) /\ ~NoLegalSlot(q))

-----------------------------------------------------------------------------
\* Arithmetic of the interval.

\* Quotient and remainder.
LEMMA DivMod ==
  ASSUME NEW a \in Int, NEW n \in Nat, n > 0
  PROVE  a \div n \in Int /\ a % n \in 0..(n - 1) /\ a = n * (a \div n) + (a % n)
  <1>1. a \div n \in Int /\ a % n \in 0..(n - 1)
    OBVIOUS
  <1>2. a = n * (a \div n) + (a % n)
    BY SMT
  <1> QED BY <1>1, <1>2

\* The remainder is unique.
LEMMA ModUnique ==
  ASSUME NEW n \in Nat, n > 0, NEW q \in Int, NEW r \in 0..(n - 1)
  PROVE  (n * q + r) % n = r
  OBVIOUS

\* A step of at most the interval wraps once at most.
LEMMA ModPlus ==
  ASSUME NEW a \in Int, NEW n \in Nat, n > 0, NEW t \in 0..n
  PROVE  (a + t) % n = IF (a % n) + t < n THEN (a % n) + t ELSE (a % n) + t - n
  <1> DEFINE q == a \div n
             r == a % n
  <1>1. q \in Int /\ r \in 0..(n - 1) /\ a = n * q + r
    BY DivMod
  <1> HIDE DEF q, r
  <1>2. CASE r + t < n
    <2>1. a + t = n * q + (r + t) /\ r + t \in 0..(n - 1)
      BY <1>1, <1>2
    <2>2. (n * q + (r + t)) % n = r + t
      BY <1>1, <2>1, ModUnique
    <2> QED BY <1>2, <2>1, <2>2 DEF r
  <1>3. CASE ~(r + t < n)
    <2>1. r + t - n \in 0..(n - 1) /\ q + 1 \in Int
      BY <1>1, <1>3
    <2>2. n * (q + 1) = n * q + n
      BY <1>1
    <2>3. a + t = n * (q + 1) + (r + t - n)
      <3>1. n * q \in Int
        BY <1>1
      <3> QED BY <1>1, <2>2, <3>1
    <2>4. (n * (q + 1) + (r + t - n)) % n = r + t - n
      BY <2>1, ModUnique
    <2> QED BY <1>3, <2>3, <2>4 DEF r
  <1> QED BY <1>2, <1>3 DEF r

\* RU_mgr::remove looks in every cycle a use of the operation can be in, also
\* when they wrap round the interval.
LEMMA WindowCovers ==
  ASSUME ii \in Nat, ii > 0, NEW slot \in Int, NEW t \in 0..(MAXOPLAT - 1)
  PROVE  (slot - 1 + t) % ii \in Window(slot)
  <1> DEFINE a == slot - 1
             lower == a % ii
             upper == (a + MAXOPLAT) % ii
  <1>0. MAXOPLAT \in Nat /\ MAXOPLAT > 0
    BY LoopAssumption
  <1>1. a \in Int /\ a + t \in Int /\ (a + t) % ii \in 0..(ii - 1) /\ lower \in 0..(ii - 1)
    <2>1. a \in Int /\ a + t \in Int
      BY <1>0
    <2> HIDE DEF a
    <2> QED BY <2>1, DivMod
  <1>2. CASE ii <= MAXOPLAT
    BY <1>1, <1>2 DEF Window
  <1>3. CASE ~(ii <= MAXOPLAT)
    <2>1. t \in 0..ii /\ MAXOPLAT \in 0..ii
      BY <1>0, <1>3
    <2>2. /\ (a + t) % ii = IF lower + t < ii THEN lower + t ELSE lower + t - ii
          /\ upper = IF lower + MAXOPLAT < ii THEN lower + MAXOPLAT ELSE lower + MAXOPLAT - ii
      <3> HIDE DEF a
      <3> QED BY <1>1, <2>1, ModPlus
    <2>3. Window(slot) = IF upper < lower THEN (0..(upper - 1)) \cup (lower..(ii - 1))
                         ELSE lower..(upper - 1)
      BY <1>3 DEF Window
    <2> HIDE DEF lower, upper, a
    <2>4. (a + t) % ii \in Window(slot)
      BY <1>0, <1>1, <1>3, <2>2, <2>3
    <2> QED BY <2>4 DEF a
  <1> QED BY <1>2, <1>3

-----------------------------------------------------------------------------
\* The map.

\* Alternatives are numbered.
LEMMA AltIsNat ==
  ASSUME loop \in LOOPS, NEW q \in Nodes, NEW k \in DOMAIN loop.alts[q]
  PROVE  k \in Nat
  <1>1. loop.alts[q] \in Seq(SUBSET Use)
    BY LoopAssumption
  <1> QED BY <1>1

\* What an alternative uses, and when.
LEMMA UseType ==
  ASSUME loop \in LOOPS, NEW q \in Nodes, NEW k \in DOMAIN loop.alts[q], NEW u \in loop.alts[q][k]
  PROVE  u.res \in Resources /\ u.time \in 0..(MAXOPLAT - 1)
  <1>1. loop.alts \in [Nodes -> Seq(SUBSET Use)]
    BY LoopAssumption
  <1>2. loop.alts[q] \in Seq(SUBSET Use)
    BY <1>1
  <1>3. loop.alts[q][k] \in SUBSET Use
    BY <1>2
  <1> QED BY <1>3 DEF Use

\* The cells of an operation lie where remove looks for them.
LEMMA CellsInWindow ==
  ASSUME loop \in LOOPS, ii \in Nat, ii > 0,
         NEW q \in Nodes, NEW k \in DOMAIN loop.alts[q], NEW slot \in Int, NEW c \in Cells(q, k, slot)
  PROVE  c[1] \in Window(slot) /\ c[2] \in Resources
  <1>1. PICK u \in loop.alts[q][k] : c = <<(slot - 1 + u.time) % ii, u.res>>
    BY DEF Cells
  <1>2. u.res \in Resources /\ u.time \in 0..(MAXOPLAT - 1)
    BY UseType
  <1>3. (slot - 1 + u.time) % ii \in Window(slot)
    BY <1>2, WindowCovers
  <1> QED BY <1>1, <1>2, <1>3

\* What the lemmas below need of the invariant while an attempt is made.
MapInv ==
    /\ loop \in LOOPS /\ ii \in Nat /\ ii > 0
    /\ stime \in [Nodes -> Int] /\ alt \in [Nodes -> Nat]
    /\ placed \in SUBSET Nodes
    /\ \A q \in placed : alt[q] \in DOMAIN loop.alts[q]
    /\ ru_map = UNION {Taken(q) : q \in placed}
    /\ \A x \in ru_map : Cardinality(Users(ru_map, x[1])) <= Count[x[1][2]]

\* Displacing operations takes exactly their cells out of the map.
LEMMA RemovedIs ==
  ASSUME MapInv, NEW C
  PROVE  RU_remove(ru_map, C) = UNION {Taken(q) : q \in placed \ C}
  <1>1. ASSUME NEW q \in placed, NEW x \in Taken(q)
        PROVE  x[2] = q /\ x[1][1] \in Window(stime[x[2]])
    <2>1. PICK c \in Cells(q, alt[q], stime[q]) : x = <<c, q>>
      BY DEF Taken
    <2>2. q \in Nodes /\ alt[q] \in DOMAIN loop.alts[q] /\ stime[q] \in Int
      BY DEF MapInv
    <2>3. c[1] \in Window(stime[q])
      BY <2>2, CellsInWindow DEF MapInv
    <2> QED BY <2>1, <2>3
  <1>2. RU_remove(ru_map, C) = {x \in ru_map : ~(x[2] \in C /\ x[1][1] \in Window(stime[x[2]]))}
    BY DEF RU_remove
  <1>3. ASSUME NEW x \in RU_remove(ru_map, C)
        PROVE  x \in UNION {Taken(q) : q \in placed \ C}
    <2>1. PICK q \in placed : x \in Taken(q)
      BY <1>2, <1>3 DEF MapInv
    <2>2. q \notin C
      BY <1>1, <1>2, <1>3, <2>1
    <2> QED BY <2>1, <2>2
  <1>4. ASSUME NEW q \in placed \ C, NEW x \in Taken(q)
        PROVE  x \in RU_remove(ru_map, C)
    <2>1. x \in ru_map
      BY DEF MapInv
    <2>2. x[2] \notin C
      BY <1>1
    <2> QED BY <1>2, <2>1, <2>2
  <1> QED BY <1>3, <1>4

\* Binding an operation whose alternative is free keeps the map what the
\* placed operations use, and gives no resource out twice.
LEMMA BindKeepsMap ==
  ASSUME MapInv, NEW op \in Nodes \ placed, NEW slot \in Int, NEW k \in DOMAIN loop.alts[op], NEW C,
         Bind(op, slot, k, C), UNCHANGED <<loop, ii>>
  PROVE  MapInv'
  <1> DEFINE kept == RU_remove(ru_map, C)
             mine == {<<c, op>> : c \in Cells(op, k, slot)}
  <1>1. /\ placed' = (placed \ C) \cup {op}
        /\ stime' = [q \in Nodes |-> IF q = op THEN slot ELSE IF q \in C THEN -1 ELSE stime[q]]
        /\ alt' = [q \in Nodes |-> IF q = op THEN k ELSE IF q \in C THEN 0 ELSE alt[q]]
        /\ ru_map' = kept \cup mine
        /\ \A c \in Cells(op, k, slot) : Cardinality(Users(kept, c)) < Count[c[2]]
    BY DEF Bind, RU_place, check_resources_free
  <1>2. kept = UNION {Taken(q) : q \in placed \ C} /\ kept \subseteq ru_map
    BY RemovedIs DEF RU_remove
  <1> HIDE DEF kept
  <1>3. stime' \in [Nodes -> Int] /\ placed' \in SUBSET Nodes /\ alt' \in [Nodes -> Nat]
    <2>1. k \in Nat
      BY AltIsNat DEF MapInv
    <2> QED BY <1>1, <2>1 DEF MapInv
  <1>4. \A q \in placed' : alt'[q] \in DOMAIN loop'.alts[q]
    BY <1>1 DEF MapInv
  <1>5. \A q \in placed \ C : q # op /\ Taken(q)' = Taken(q)
    <2> SUFFICES ASSUME NEW q \in placed \ C PROVE q # op /\ Taken(q)' = Taken(q)
      OBVIOUS
    <2>1. q \in Nodes /\ q # op
      BY DEF MapInv
    <2>2. alt'[q] = alt[q] /\ stime'[q] = stime[q]
      BY <1>1, <2>1
    <2> QED BY <2>1, <2>2 DEF Taken, Cells
  <1>6. Taken(op)' = mine
    <2>1. alt'[op] = k /\ stime'[op] = slot
      BY <1>1
    <2> QED BY <2>1 DEF Taken, Cells
  <1>7. ru_map' = UNION {Taken(q)' : q \in placed'}
    <2>1. UNION {Taken(q)' : q \in placed'} = (UNION {Taken(q)' : q \in placed \ C}) \cup Taken(op)'
      BY <1>1
    <2>2. UNION {Taken(q)' : q \in placed \ C} = UNION {Taken(q) : q \in placed \ C}
      BY <1>5
    <2> QED BY <1>1, <1>2, <1>6, <2>1, <2>2
  <1>8. ASSUME NEW x \in ru_map'
        PROVE  Cardinality(Users(ru_map', x[1])) <= Count[x[1][2]]
    <2> DEFINE c == x[1]
    <2>1. IsFiniteSet(Nodes)
      BY FS_Interval, LoopAssumption DEF Nodes
    <2>2. Users(kept, c) \subseteq Nodes /\ IsFiniteSet(Users(kept, c)) /\ Cardinality(Users(kept, c)) \in Nat
      BY <2>1, FS_Subset, FS_CardinalityType DEF Users
    <2>3. CASE c \in Cells(op, k, slot)
      <3>1. Cardinality(Users(kept, c)) < Count[c[2]]
        BY <1>1, <2>3
      <3>2. Users(ru_map', c) = Users(kept, c) \cup {op}
        BY <1>1, <2>3 DEF Users
      <3>3. Cardinality(Users(kept, c) \cup {op}) <= Cardinality(Users(kept, c)) + 1
        <4>1. Cardinality(Users(kept, c) \cup {op}) = IF op \in Users(kept, c)
                                                       THEN Cardinality(Users(kept, c))
                                                       ELSE Cardinality(Users(kept, c)) + 1
          BY <2>2, FS_AddElement, Zenon
        <4> QED BY <2>2, <4>1
      <3>4. c[2] \in Resources
        BY <2>3, CellsInWindow DEF MapInv
      <3>5. Count[c[2]] \in Nat
        BY <3>4, LoopAssumption
      <3>6. Cardinality(Users(kept, c) \cup {op}) \in Nat
        BY <2>2, FS_AddElement, FS_CardinalityType
      <3> QED BY <2>2, <3>1, <3>2, <3>3, <3>5, <3>6
    <2>4. CASE c \notin Cells(op, k, slot)
      <3>1. x \in kept
        BY <1>1, <2>4
      <3>2. Users(ru_map', c) \subseteq Users(ru_map, c)
        BY <1>1, <1>2, <2>4 DEF Users
      <3>3. IsFiniteSet(Users(ru_map, c))
        BY <2>1, FS_Subset DEF Users
      <3>4. /\ Cardinality(Users(ru_map', c)) <= Cardinality(Users(ru_map, c))
            /\ Cardinality(Users(ru_map', c)) \in Nat /\ Cardinality(Users(ru_map, c)) \in Nat
        BY <3>2, <3>3, FS_Subset, FS_CardinalityType
      <3>5. Cardinality(Users(ru_map, c)) <= Count[c[2]]
        BY <1>2, <3>1 DEF MapInv
      <3>6. c[2] \in Resources
        <4>1. PICK q \in placed : x \in Taken(q)
          BY <1>2, <3>1
        <4>2. PICK d \in Cells(q, alt[q], stime[q]) : x = <<d, q>>
          BY <4>1 DEF Taken
        <4>3. q \in Nodes /\ alt[q] \in DOMAIN loop.alts[q] /\ stime[q] \in Int
          BY DEF MapInv
        <4> QED BY <4>2, <4>3, CellsInWindow DEF MapInv
      <3>7. Count[c[2]] \in Nat
        BY <3>6, LoopAssumption
      <3> QED BY <3>4, <3>5, <3>7
    <2> QED BY <2>3, <2>4
  <1>9. loop' = loop /\ ii' = ii
    OBVIOUS
  <1> QED BY <1>3, <1>4, <1>7, <1>8, <1>9 DEF MapInv, Users

-----------------------------------------------------------------------------
\* The queue.

\* What waits is what is not placed, once each, higher operations first.
QueueInv ==
    /\ placed \in SUBSET Nodes
    /\ unscheduled \in SetToSeqs(Ops \ placed)
    /\ \A j \in DOMAIN unscheduled : \A i \in 1..(j - 1) : height[unscheduled[i]] >= height[unscheduled[j]]

\* A sequence of a finite set's elements, each once, has all of them.
LEMMA SeqsHaveAll ==
  ASSUME NEW S, IsFiniteSet(S), NEW f \in SetToSeqs(S)
  PROVE  /\ f \in Seq(S) /\ Len(f) = Cardinality(S)
         /\ {f[i] : i \in DOMAIN f} = S
  <1> DEFINE D == 1..Cardinality(S)
  <1>1. f \in [D -> S] /\ \A i, j \in D : i # j => f[i] # f[j]
    BY DEF SetToSeqs
  <1>2. Cardinality(S) \in Nat
    BY FS_CardinalityType
  <1>3. f \in Injection(D, S)
    BY <1>1 DEF Injection, IsInjective
  <1>4. Cardinality(D) = Cardinality(S)
    BY <1>2, FS_Interval
  <1>5. f \in Surjection(D, S)
    <2> HIDE DEF D
    <2>1. Cardinality(D) = Cardinality(S) <=> f \in Surjection(D, S)
      BY <1>3, FS_Injection, Zenon
    <2> QED BY <1>4, <2>1
  <1>6. \A x \in S : \E i \in D : f[i] = x
    BY <1>5 DEF Surjection
  <1>7. f \in Seq(S) /\ Len(f) = Cardinality(S) /\ DOMAIN f = D
    BY <1>1, <1>2
  <1> QED BY <1>1, <1>6, <1>7

\* There are finitely many operations.
LEMMA OpsFinite == IsFiniteSet(Ops) /\ \A P : IsFiniteSet(Ops \ P)
  <1>1. IsFiniteSet(Ops)
    BY FS_Interval, LoopAssumption DEF Ops
  <1>2. ASSUME NEW P PROVE IsFiniteSet(Ops \ P)
    BY <1>1, FS_Subset
  <1> QED BY <1>1, <1>2

\* The invariant says what QueueIsUnplaced does.
LEMMA QueueInvImplies == QueueInv => QueueIsUnplaced
  <1> SUFFICES ASSUME QueueInv PROVE QueueIsUnplaced
    OBVIOUS
  <1>1. /\ unscheduled \in Seq(Ops \ placed) /\ Len(unscheduled) = Cardinality(Ops \ placed)
        /\ {unscheduled[i] : i \in DOMAIN unscheduled} = Ops \ placed
    BY OpsFinite, SeqsHaveAll DEF QueueInv
  <1>2. ASSUME NEW i \in DOMAIN unscheduled, NEW j \in DOMAIN unscheduled, i < j
        PROVE  height[unscheduled[i]] >= height[unscheduled[j]]
    <2>1. i \in 1..(j - 1)
      BY <1>1, <1>2
    <2> QED BY <2>1 DEF QueueInv
  <1> QED BY <1>1, <1>2 DEF QueueIsUnplaced, Range

\* The operation at the head waits.
LEMMA HeadWaits ==
  ASSUME QueueInv, unscheduled # <<>>
  PROVE  Head(unscheduled) \in Ops \ placed
  <1>1. unscheduled \in Seq(Ops \ placed)
    BY OpsFinite, SeqsHaveAll DEF QueueInv
  <1> QED BY <1>1

\* Those taken out wait again, the one placed does not, and higher ones are
\* still first.
LEMMA BindKeepsQueue ==
  ASSUME QueueInv, NEW op \in Ops, NEW slot, NEW k, NEW C \in SUBSET placed, Branch \notin C,
         Bind(op, slot, k, C), height' = height
  PROVE  QueueInv'
  <1>1. unscheduled' \in Requeued(C, op) /\ placed' = (placed \ C) \cup {op}
    BY DEF Bind
  <1>2. Range(unscheduled) = Ops \ placed
    BY OpsFinite, SeqsHaveAll DEF QueueInv, Range
  <1>3. (Range(unscheduled) \cup C) \ {op} = Ops \ placed'
    <2>1. C \subseteq Ops
      BY LoopAssumption DEF QueueInv, Nodes, Ops, Branch
    <2> QED BY <1>1, <1>2, <2>1
  <1>4. /\ unscheduled' \in SetToSeqs(Ops \ placed')
        /\ \A j \in DOMAIN unscheduled' : \A i \in 1..(j - 1) : Ahead(unscheduled'[i], unscheduled'[j], C)
    BY <1>1, <1>3 DEF Requeued
  <1>5. placed' \in SUBSET Nodes
    BY <1>1, OpType DEF QueueInv
  <1> QED BY <1>4, <1>5 DEF QueueInv, Ahead

-----------------------------------------------------------------------------
\* The attempt as a whole.

Attempting == phase \in {"iterate", "scheduled"}

\* The inductive invariant.
AttemptInv ==
    /\ SchedInv
    /\ phase \notin {"limit", "search"} => ii > 0
    /\ Attempting => MapInv /\ QueueInv /\ Branch \in placed /\ Untried
    /\ phase = "scheduled" => unscheduled = <<>>

\* An operation the branch keeps out changes nothing that is placed.
LEMMA NotPlacedKeeps ==
  ASSUME MapInv, QueueInv, Untried, unscheduled # <<>>, NEW op, op = Head(unscheduled),
         NEW k \in Nat, k = 0 \/ ~NoLegalSlot(op), NotPlaced(op, k), UNCHANGED <<loop, ii, height>>
  PROVE  MapInv' /\ QueueInv' /\ Untried'
  <1>0. op \in Ops \ placed
    BY HeadWaits
  <1>1. /\ UNCHANGED <<placed, unscheduled, ru_map>>
        /\ alt' = [alt EXCEPT ![op] = k]
        /\ stime' = [stime EXCEPT ![op] = stime[op] + 1]
    BY <1>0 DEF NotPlaced
  <1>2. /\ stime' \in [Nodes -> Int] /\ alt' \in [Nodes -> Nat]
        /\ \A q \in placed : stime'[q] = stime[q] /\ alt'[q] = alt[q]
    BY <1>0, <1>1, OpType DEF MapInv
  <1>3. \A q \in placed : Taken(q)' = Taken(q)
    BY <1>1, <1>2 DEF Taken, Cells
  <1>4. MapInv'
    <2>1. ru_map' = UNION {Taken(q)' : q \in placed'}
      BY <1>1, <1>3 DEF MapInv
    <2>2. \A x \in ru_map' : Cardinality(Users(ru_map', x[1])) <= Count[x[1][2]]
      BY <1>1 DEF MapInv
    <2>3. \A q \in placed' : alt'[q] \in DOMAIN loop'.alts[q]
      BY <1>1, <1>2 DEF MapInv
    <2> QED BY <1>1, <1>2, <2>1, <2>2, <2>3 DEF MapInv, Users
  <1>5. QueueInv'
    BY <1>1 DEF QueueInv
  <1>6. NoLegalSlot(op)' <=> NoLegalSlot(op)
    <2>1. \A e : Delay(e)' = Delay(e)
      BY DEF Delay
    <2>2. CalcEstart(op, placed)' = CalcEstart(op, placed)
      BY <1>1, <1>2, <2>1 DEF CalcEstart
    <2>3. MinTime(op, placed)' = MinTime(op, placed) /\ MaxTime(op, placed)' = MaxTime(op, placed)
      BY <2>2 DEF MinTime, MaxTime
    <2>4. \A t : get_nonconflicting_patterns(ru_map, op, t)' = get_nonconflicting_patterns(ru_map, op, t)
      BY <1>1 DEF get_nonconflicting_patterns, check_resources_free, Cells, Users
    <2> QED BY <2>3, <2>4 DEF NoLegalSlot
  <1>7. Untried'
    <2> SUFFICES ASSUME NEW q \in Ops \ placed
                 PROVE  alt'[q] = 0 \/ (q = op /\ ~NoLegalSlot(op)')
      BY <1>1 DEF Untried
    <2> QED BY <1>1, <1>6, OpType DEF MapInv, Untried
  <1> QED BY <1>4, <1>5, <1>7

\* Whatever conflicts with an operation is placed.
LEMMA ConflictsPlaced ==
  ASSUME MapInv, NEW op \in Nodes, NEW slot \in Int
  PROVE  /\ getDependencyConflicts(op, slot) \in SUBSET placed
         /\ get_conflicting_ops(op, slot) \in SUBSET placed
  <1>1. \A c : Users(ru_map, c) \subseteq placed
    BY DEF MapInv, Users, Taken
  <1> QED BY <1>1 DEF getDependencyConflicts, get_conflicting_ops

\* An operation that is bound.
LEMMA BindKeepsAttempt ==
  ASSUME MapInv, QueueInv, Branch \in placed, Untried, unscheduled # <<>>, NEW op, op = Head(unscheduled),
         NEW slot \in Int, NEW k \in DOMAIN loop.alts[op], NEW C \in SUBSET placed, Branch \notin C,
         Bind(op, slot, k, C), UNCHANGED <<loop, ii, height>>
  PROVE  MapInv' /\ QueueInv' /\ Branch \in placed' /\ Untried'
  <1>1. op \in Ops \ placed /\ op \in Nodes
    BY HeadWaits, OpType
  <1>2. MapInv' /\ QueueInv'
    BY <1>1, BindKeepsMap, BindKeepsQueue
  <1>3. /\ placed' = (placed \ C) \cup {op}
        /\ alt' = [q \in Nodes |-> IF q = op THEN k ELSE IF q \in C THEN 0 ELSE alt[q]]
    BY DEF Bind
  <1>4. Untried'
    <2> SUFFICES ASSUME NEW q \in Ops \ placed' PROVE alt'[q] = 0
      BY DEF Untried
    <2>1. q \in Nodes /\ q # op /\ (q \in C \/ q \notin placed)
      BY <1>3, OpType
    <2> QED BY <1>3, <2>1 DEF Untried
  <1> QED BY <1>2, <1>3, <1>4

\* One unit of budget.
LEMMA IterationKeepsAttempt ==
  ASSUME AttemptInv, NEW op \in Ops, InLegalSlot(op) \/ InForcedSlot(op)
  PROVE  AttemptInv'
  <1>1. /\ phase = "iterate" /\ unscheduled # <<>> /\ op = Head(unscheduled)
        /\ UNCHANGED <<loop, phase, ii, height>>
    BY DEF InLegalSlot, InForcedSlot, Scheduling
  <1>2. MapInv /\ QueueInv /\ Branch \in placed /\ Untried /\ op \in Nodes
    BY <1>1, OpType DEF AttemptInv, Attempting
  <1>3. MapInv' /\ QueueInv' /\ Branch \in placed' /\ Untried'
    <2>1. CASE InLegalSlot(op)
      <3>1. PICK slot \in MinTime(op, placed)..MaxTime(op, placed), k \in DOMAIN loop.alts[op] :
              /\ get_sched_info(ru_map, placed, op, slot, k)
              /\ \/ Branch \notin getDependencyConflicts(op, slot) /\ Bind(op, slot, k, getDependencyConflicts(op, slot))
                 \/ NotPlaced(op, k)
        BY <2>1 DEF InLegalSlot
      <3>2. slot \in Int /\ k \in Nat /\ getDependencyConflicts(op, slot) \in SUBSET placed
        <4>1. slot \in Int
          OBVIOUS
        <4>2. k \in Nat
          BY <1>2, AltIsNat DEF MapInv
        <4> QED BY <1>2, <4>1, <4>2, ConflictsPlaced
      <3>3. ~NoLegalSlot(op)
        BY <3>1 DEF get_sched_info, NoLegalSlot
      <3>4. CASE NotPlaced(op, k)
        <4>1. placed' = placed
          BY <3>4 DEF NotPlaced
        <4> QED BY <1>1, <1>2, <3>2, <3>3, <3>4, <4>1, NotPlacedKeeps
      <3>5. CASE /\ Branch \notin getDependencyConflicts(op, slot)
                 /\ Bind(op, slot, k, getDependencyConflicts(op, slot))
        BY <1>1, <1>2, <3>2, <3>5, BindKeepsAttempt
      <3> QED BY <3>1, <3>4, <3>5
    <2>2. CASE InForcedSlot(op)
      <3> DEFINE Out(slot) == getDependencyConflicts(op, slot) \cup get_conflicting_ops(op, slot)
      <3>1. PICK slot \in MinTime(op, placed)..(MinTime(op, placed) + ii - 1) :
              \/ Branch \notin Out(slot) /\ \E k \in DOMAIN loop.alts[op] : Bind(op, slot, k, Out(slot))
              \/ NotPlaced(op, 0)
        BY <2>2 DEF InForcedSlot
      <3>2. slot \in Int /\ Out(slot) \in SUBSET placed
        BY <1>2, ConflictsPlaced
      <3>4. CASE NotPlaced(op, 0)
        <4>1. placed' = placed
          BY <3>4 DEF NotPlaced
        <4> QED BY <1>1, <1>2, <3>4, <4>1, NotPlacedKeeps
      <3>5. CASE Branch \notin Out(slot) /\ \E k \in DOMAIN loop.alts[op] : Bind(op, slot, k, Out(slot))
        <4>1. PICK k \in DOMAIN loop.alts[op] : Bind(op, slot, k, Out(slot))
          BY <3>5
        <4> HIDE DEF Out
        <4> QED BY <1>1, <1>2, <3>2, <3>5, <4>1, BindKeepsAttempt
      <3> QED BY <3>1, <3>4, <3>5
    <2> QED BY <2>1, <2>2
  <1>4. SchedInv'
    BY IterationKeeps DEF AttemptInv
  <1> QED BY <1>1, <1>3, <1>4 DEF AttemptInv

\* An attempt starts with the branch's uses in the map and all else waiting.
LEMMA AttemptStartsMap ==
  ASSUME AttemptInv, init_sched_state
  PROVE  AttemptInv'
  <1>1. PICK k \in DOMAIN loop.alts[Branch] :
          /\ alt' = [op \in Nodes |-> IF op = Branch THEN k ELSE 0]
          /\ ru_map' = {<<c, Branch>> : c \in Cells(Branch, k, ii)}
    BY DEF init_sched_state, get_nonconflicting_patterns, RU_place
  <1>2. /\ phase = "schedule" /\ phase' = "iterate" /\ placed' = {Branch} /\ UNCHANGED <<loop, ii>>
        /\ stime' = [op \in Nodes |-> IF op = Branch THEN ii ELSE -1]
        /\ unscheduled' \in {list \in SetToSeqs(Ops) : \A j \in DOMAIN list : \A i \in 1..(j - 1) :
                                /\ height'[list[i]] >= height'[list[j]]
                                /\ height'[list[i]] = height'[list[j]] => list[i] < list[j]}
    BY DEF init_sched_state
  <1>3. loop \in LOOPS /\ ii \in Nat /\ ii > 0
    BY <1>2 DEF AttemptInv, SchedInv
  <1>4. Branch \in Nodes /\ k \in Nat /\ Branch \notin Ops
    BY <1>3, AltIsNat, OpType
  <1>5. stime' \in [Nodes -> Int] /\ alt' \in [Nodes -> Nat] /\ alt'[Branch] = k /\ stime'[Branch] = ii
    BY <1>1, <1>2, <1>3, <1>4
  <1>6. ru_map' = UNION {Taken(q)' : q \in placed'}
    <2>1. Taken(Branch)' = {<<c, Branch>> : c \in Cells(Branch, k, ii)}
      BY <1>2, <1>5 DEF Taken, Cells
    <2> QED BY <1>1, <1>2, <2>1
  <1>7. ASSUME NEW x \in ru_map'
        PROVE  Cardinality(Users(ru_map', x[1])) <= Count[x[1][2]]
    <2>1. x[1] \in Cells(Branch, k, ii)
      BY <1>1
    <2>2. Count[x[1][2]] \in Nat \ {0}
      BY <1>3, <1>4, <2>1, CellsInWindow, LoopAssumption
    <2>3. Users(ru_map', x[1]) \subseteq {Branch}
      BY <1>1 DEF Users
    <2>4. IsFiniteSet({Branch}) /\ Cardinality({Branch}) = 1
      BY FS_Singleton
    <2>5. Cardinality(Users(ru_map', x[1])) <= 1 /\ Cardinality(Users(ru_map', x[1])) \in Nat
      BY <2>3, <2>4, FS_Subset, FS_CardinalityType
    <2> QED BY <2>2, <2>5
  <1>8. MapInv'
    <2>1. \A q \in placed' : alt'[q] \in DOMAIN loop'.alts[q]
      BY <1>2, <1>5
    <2>2. placed' \in SUBSET Nodes
      BY <1>2, <1>4
    <2> QED BY <1>2, <1>3, <1>5, <1>6, <1>7, <2>1, <2>2 DEF MapInv, Users
  <1>9. QueueInv'
    <2>1. Ops \ placed' = Ops
      BY <1>2, <1>4
    <2> QED BY <1>2, <1>4, <2>1 DEF QueueInv
  <1>10. Untried'
    <2>1. \A q \in Ops : alt'[q] = 0
      BY <1>1, <1>4, OpType
    <2> QED BY <2>1 DEF Untried
  <1>11. SchedInv'
    BY AttemptStarts DEF AttemptInv
  <1> QED BY <1>2, <1>3, <1>8, <1>9, <1>10, <1>11 DEF AttemptInv

\* No step of the scheduler breaks map, queue or alternatives.
LEMMA AttemptInvInductive == AttemptInv /\ [SchedStep \/ Ended]_schedVars => AttemptInv'
  <1> SUFFICES ASSUME AttemptInv, [SchedStep \/ Ended]_schedVars PROVE AttemptInv'
    OBVIOUS
  <1>0. SchedInv'
    BY SchedInvInductive DEF AttemptInv
  <1>1. CASE LimitTooLow \/ LimitFound \/ SearchStep
    <2>1. phase' \in {"limit", "search"}
      BY <1>1 DEF LimitTooLow, LimitFound, SearchStep
    <2> QED BY <1>0, <2>1 DEF AttemptInv, Attempting
  <1>2. CASE StartAtMII
    <2>1. phase' = "schedule" /\ ii' = Larger(recmii, the_resmii)
      BY <1>2 DEF StartAtMII
    <2>2. ii' > 0
      BY <2>1 DEF AttemptInv, SchedInv, Larger, recmii
    <2> QED BY <1>0, <2>1, <2>2 DEF AttemptInv, Attempting
  <1>3. CASE init_sched_state
    BY <1>3, AttemptStartsMap
  <1>4. CASE \E op \in Ops : InLegalSlot(op) \/ InForcedSlot(op)
    BY <1>4, IterationKeepsAttempt
  <1>5. CASE BumpII
    <2>1. phase' = "schedule" /\ ii' = ii + 1
      BY <1>5 DEF BumpII
    <2>2. ii' > 0
      BY <2>1 DEF AttemptInv, SchedInv
    <2> QED BY <1>0, <2>1, <2>2 DEF AttemptInv, Attempting
  <1>6. CASE OutOfIntervals
    <2>1. phase = "schedule" /\ phase' = "failed" /\ ii' = ii
      BY <1>6 DEF OutOfIntervals
    <2> QED BY <1>0, <2>1 DEF AttemptInv, Attempting
  <1>7. CASE Scheduled \/ UNCHANGED schedVars
    <2>1. /\ UNCHANGED <<loop, ii, height, stime, placed, alt, unscheduled, ru_map>>
          /\ \/ phase = "iterate" /\ phase' = "scheduled" /\ unscheduled = <<>>
             \/ phase' = phase
      BY <1>7 DEF Scheduled, schedVars, attemptVars
    <2>2. MapInv' <=> MapInv
      BY <2>1 DEF MapInv, Taken, Cells, Users
    <2>3. QueueInv' <=> QueueInv
      BY <2>1 DEF QueueInv
    <2>4. \A q : NoLegalSlot(q)' <=> NoLegalSlot(q)
      BY <2>1 DEF NoLegalSlot, MinTime, MaxTime, CalcEstart, Delay, get_nonconflicting_patterns,
                  check_resources_free, Cells, Users
    <2>5. Untried' <=> Untried
      BY <2>1, <2>4 DEF Untried
    <2> QED BY <1>0, <2>1, <2>2, <2>3, <2>5 DEF AttemptInv, Attempting
  <1> QED BY <1>1, <1>2, <1>3, <1>4, <1>5, <1>6, <1>7 DEF SchedStep, Ended

\* The invariant holds throughout.
LEMMA AttemptInvAlways == SchedSpec => []AttemptInv
  <1>1. SchedInit => AttemptInv
    BY DEF SchedInit, AttemptInv, SchedInv, DependencesHold, Attempting
  <1> QED BY <1>1, AttemptInvInductive, PTL DEF SchedSpec

\* The resource map holds what the placed operations use and nothing else,
\* and no resource more often than there are: RU_mgr::remove and place agree
\* about the cells of an operation wherever they wrap round the interval.
THEOREM MapAlways == SchedSpec => []MapIsPlaced
  <1>1. AttemptInv => MapIsPlaced
    BY DEF AttemptInv, Attempting, MapInv, MapIsPlaced, Taken
  <1> QED BY <1>1, AttemptInvAlways, PTL

\* An operation is lost to neither the schedule nor the queue, and waits
\* once, behind the higher ones.
THEOREM QueueAlways == SchedSpec => []QueueIsUnplaced
  <1>1. AttemptInv => QueueIsUnplaced
    BY QueueInvImplies DEF AttemptInv, Attempting, QueueIsUnplaced
  <1> QED BY <1>1, AttemptInvAlways, PTL

\* A forced slot never meets an alternative kept from an earlier try.
THEOREM ForcedAfreshAlways == SchedSpec => []ForcedAfresh
  <1>1. AttemptInv => ForcedAfresh
    <2> SUFFICES ASSUME AttemptInv, NEW op \in Ops, phase = "iterate", unscheduled # <<>>,
                        op = Head(unscheduled), NoLegalSlot(op)
                 PROVE  alt[op] = 0
      BY DEF ForcedAfresh
    <2>1. op \in Ops \ placed
      BY HeadWaits DEF AttemptInv, Attempting
    <2> QED BY <2>1 DEF AttemptInv, Attempting, Untried
  <1> QED BY <1>1, AttemptInvAlways, PTL

\* A schedule that is reported has all operations.
LEMMA ScheduleComplete ==
  ASSUME AttemptInv, phase = "scheduled"
  PROVE  placed = Nodes
  <1>1. MapInv /\ QueueInv /\ Branch \in placed /\ unscheduled = <<>>
    BY DEF AttemptInv, Attempting
  <1>2. Range(unscheduled) = Ops \ placed
    BY <1>1, OpsFinite, SeqsHaveAll DEF QueueInv, Range
  <1>3. Range(unscheduled) = {}
    BY <1>1 DEF Range
  <1>4. \A q \in Nodes : q \in Ops \/ q = Branch
    BY LoopAssumption DEF Nodes, Ops, Branch
  <1> QED BY <1>1, <1>2, <1>3, <1>4 DEF MapInv

\* The schedule the driver reports: every operation of the body and the
\* branch, no dependence broken, no resource given out twice.
ScheduleIsLegal == phase = "scheduled" =>
    /\ placed = Nodes
    /\ \A e \in loop.edges : e.src # e.dst => stime[e.dst] >= stime[e.src] + Delay(e)
    /\ \A q \in Nodes : alt[q] \in DOMAIN loop.alts[q]
    /\ \A c \in UNION {Cells(q, alt[q], stime[q]) : q \in Nodes} :
            Cardinality({q \in Nodes : c \in Cells(q, alt[q], stime[q])}) <= Count[c[2]]

\* Whatever was displaced, at whatever interval the driver arrived, a
\* schedule that is reported is complete and legal.
THEOREM ScheduleLegalAlways == SchedSpec => []ScheduleIsLegal
  <1>1. AttemptInv => ScheduleIsLegal
    <2> SUFFICES ASSUME AttemptInv, phase = "scheduled" PROVE ScheduleIsLegal
      BY DEF ScheduleIsLegal
    <2>1. MapInv /\ QueueInv /\ Branch \in placed /\ unscheduled = <<>> /\ DependencesHold
      BY DEF AttemptInv, Attempting, SchedInv
    <2>2. placed = Nodes
      BY ScheduleComplete
    <2>3. ASSUME NEW c \in UNION {Cells(q, alt[q], stime[q]) : q \in Nodes}
          PROVE  Cardinality({q \in Nodes : c \in Cells(q, alt[q], stime[q])}) <= Count[c[2]]
      <3>1. Users(ru_map, c) = {q \in Nodes : c \in Cells(q, alt[q], stime[q])}
        BY <2>1, <2>2 DEF MapInv, Taken, Users
      <3>2. PICK q \in Nodes : c \in Cells(q, alt[q], stime[q])
        OBVIOUS
      <3>3. <<c, q>> \in ru_map
        BY <2>1, <2>2, <3>2 DEF MapInv, Taken
      <3>4. Cardinality(Users(ru_map, <<c, q>>[1])) <= Count[<<c, q>>[1][2]]
        BY <2>1, <3>3 DEF MapInv
      <3>5. <<c, q>>[1] = c
        OBVIOUS
      <3> QED BY <3>1, <3>4, <3>5
    <2>4. \A q \in Nodes : alt[q] \in DOMAIN loop.alts[q]
      BY <2>1, <2>2 DEF MapInv
    <2>5. \A e \in loop.edges : e.src # e.dst => stime[e.dst] >= stime[e.src] + Delay(e)
      <3>1. \A e \in loop.edges : e.src \in Nodes /\ e.dst \in Nodes
        BY <2>1, EdgeType DEF MapInv
      <3> QED BY <2>1, <2>2, <3>1 DEF DependencesHold
    <2> QED BY <2>2, <2>3, <2>4, <2>5 DEF ScheduleIsLegal
  <1> QED BY <1>1, AttemptInvAlways, PTL

-----------------------------------------------------------------------------
\* Start times.

\* The branch ends the interval, and nothing starts before the first slot.
StartInv == Attempting => stime[Branch] = ii /\ \A q \in placed : stime[q] >= 1

\* Finitely many dependences reach an operation.
LEMMA MinTimeIs ==
  ASSUME SchedInv, NEW op
  PROVE  MinTime(op, placed) \in Int /\ MinTime(op, placed) >= 1
  <1> DEFINE In == {f \in loop.edges : f.dst = op /\ f.src \in placed}
             T == CalcEstart(op, placed) \cup {1}
  <1>1. IsFiniteSet(In)
    <2>1. IsFiniteSet(loop.edges)
      BY LoopAssumption DEF SchedInv
    <2> QED BY <2>1, FS_Subset
  <1>2. IsFiniteSet(T)
    <2> DEFINE E == {stime[e.src] + Delay(e) : e \in In}
    <2>1. IsFiniteSet(E)
      <3> DEFINE f == [e \in In |-> stime[e.src] + Delay(e)]
      <3>1. DOMAIN f = In /\ E = {f[e] : e \in In}
        OBVIOUS
      <3> HIDE DEF In, f, E
      <3> QED BY <1>1, <3>1, ImageFinite
    <2>2. T = E \cup {1}
      BY DEF CalcEstart
    <2> HIDE DEF E, T
    <2> QED BY <2>1, <2>2, FS_AddElement
  <1>3. T \in SUBSET Int /\ 1 \in T
    <2>1. ASSUME NEW e \in In PROVE stime[e.src] + Delay(e) \in Int
      <3>1. Delay(e) \in Int
        BY DelayType DEF SchedInv
      <3> QED BY <3>1 DEF SchedInv
    <2> QED BY <2>1 DEF CalcEstart
  <1> HIDE DEF T
  <1>4. Max(T) \in Int /\ Max(T) >= 1
    BY <1>2, <1>3, MaxIs
  <1> QED BY <1>4 DEF MinTime, T

\* Only the branch is placed before the first slot is looked for; an operation
\* is bound no earlier than that slot.
LEMMA StartInvInductive ==
  AttemptInv /\ StartInv /\ [SchedStep \/ Ended]_schedVars => StartInv'
  <1> SUFFICES ASSUME AttemptInv, StartInv, [SchedStep \/ Ended]_schedVars PROVE StartInv'
    OBVIOUS
  <1>1. CASE LimitTooLow \/ LimitFound \/ SearchStep \/ StartAtMII \/ BumpII \/ OutOfIntervals
    BY <1>1 DEF StartInv, Attempting, LimitTooLow, LimitFound, SearchStep, StartAtMII, BumpII, OutOfIntervals
  <1>2. CASE init_sched_state
    <2>1. /\ stime' = [op \in Nodes |-> IF op = Branch THEN ii ELSE -1] /\ placed' = {Branch}
          /\ ii' = ii /\ phase = "schedule"
      BY <1>2 DEF init_sched_state
    <2>2. ii \in Nat /\ ii > 0
      BY <2>1 DEF AttemptInv, SchedInv
    <2> QED BY <2>1, <2>2, OpType DEF StartInv
  <1>3. CASE \E op \in Ops : InLegalSlot(op) \/ InForcedSlot(op)
    <2>1. PICK op \in Ops : InLegalSlot(op) \/ InForcedSlot(op)
      BY <1>3
    <2>2. phase = "iterate" /\ op = Head(unscheduled) /\ unscheduled # <<>> /\ ii' = ii
      BY <2>1 DEF InLegalSlot, InForcedSlot, Scheduling
    <2>3. SchedInv /\ op \in Ops \ placed /\ op \in Nodes /\ Branch \in placed
      BY <2>1, <2>2, HeadWaits, OpType DEF AttemptInv, Attempting
    <2>4. stime[Branch] = ii /\ \A q \in placed : stime[q] >= 1
      BY <2>2 DEF StartInv, Attempting
    <2>5. \/ \E k : NotPlaced(op, k)
          \/ \E slot \in Int : slot >= 1 /\ \E k, C : Branch \notin C /\ Bind(op, slot, k, C)
      <3>1. MinTime(op, placed) \in Int /\ MinTime(op, placed) >= 1
        BY <2>3, MinTimeIs
      <3>2. CASE InLegalSlot(op)
        <4>1. PICK slot \in MinTime(op, placed)..MaxTime(op, placed), k \in DOMAIN loop.alts[op] :
                \/ /\ Branch \notin getDependencyConflicts(op, slot)
                   /\ Bind(op, slot, k, getDependencyConflicts(op, slot))
                \/ NotPlaced(op, k)
          BY <3>2 DEF InLegalSlot
        <4>2. slot \in Int /\ slot >= 1
          BY <3>1
        <4> QED BY <4>1, <4>2
      <3>3. CASE InForcedSlot(op)
        <4> DEFINE Out(slot) == getDependencyConflicts(op, slot) \cup get_conflicting_ops(op, slot)
        <4>1. PICK slot \in MinTime(op, placed)..(MinTime(op, placed) + ii - 1) :
                \/ Branch \notin Out(slot) /\ \E k : Bind(op, slot, k, Out(slot))
                \/ NotPlaced(op, 0)
          BY <3>3 DEF InForcedSlot
        <4>2. slot \in Int /\ slot >= 1
          BY <3>1
        <4> HIDE DEF Out
        <4> QED BY <4>1, <4>2
      <3> QED BY <2>1, <3>2, <3>3
    <2>6. CASE \E k : NotPlaced(op, k)
      <3>1. stime' = [stime EXCEPT ![op] = IF op \in placed THEN @ ELSE @ + 1] /\ placed' = placed
        BY <2>6 DEF NotPlaced
      <3>2. \A q \in placed : stime'[q] = stime[q]
        BY <2>3, <3>1 DEF SchedInv
      <3> QED BY <2>2, <2>3, <2>4, <3>1, <3>2 DEF StartInv
    <2>7. CASE \E slot \in Int : slot >= 1 /\ \E k, C : Branch \notin C /\ Bind(op, slot, k, C)
      <3>1. PICK slot \in Int : slot >= 1 /\ \E k, C : Branch \notin C /\ Bind(op, slot, k, C)
        BY <2>7
      <3>2. PICK k, C : Branch \notin C /\ Bind(op, slot, k, C)
        BY <3>1
      <3>3. /\ placed' = (placed \ C) \cup {op}
            /\ stime' = [q \in Nodes |-> IF q = op THEN slot ELSE IF q \in C THEN -1 ELSE stime[q]]
        BY <3>2 DEF Bind
      <3>4. stime'[Branch] = ii
        BY <2>3, <2>4, <3>2, <3>3, OpType
      <3>5. \A q \in placed' : stime'[q] >= 1
        <4> TAKE q \in placed'
        <4>1. q \in Nodes
          BY <2>3, <3>3 DEF SchedInv
        <4> QED BY <2>4, <3>1, <3>3, <4>1
      <3> QED BY <2>2, <3>4, <3>5 DEF StartInv
    <2> QED BY <2>5, <2>6, <2>7
  <1>4. CASE Scheduled \/ UNCHANGED schedVars
    <2>1. UNCHANGED <<stime, placed, ii>> /\ (Attempting' => Attempting)
      BY <1>4 DEF Scheduled, schedVars, attemptVars, Attempting
    <2> QED BY <2>1 DEF StartInv
  <1> QED BY <1>1, <1>2, <1>3, <1>4 DEF SchedStep, Ended

\* The schedule is at least one interval long.
LEMMA EscIsNat ==
  ASSUME AttemptInv, StartInv, Attempting
  PROVE  calculate_esc \in Nat
  <1> DEFINE T == {stime[op] - 1 + max_latency(op) : op \in Nodes}
  <1>1. SchedInv /\ Branch \in Nodes /\ ii \in Nat /\ ii > 0 /\ stime[Branch] = ii
        /\ loop.lat \in [Nodes -> Nat] /\ loop.anti \in [Nodes -> Nat]
    BY OpType, LoopAssumption DEF AttemptInv, StartInv, SchedInv, MapInv
  <1>2. ASSUME NEW op \in Nodes
        PROVE  /\ stime[op] - 1 + max_latency(op) \in Int
               /\ stime[op] - 1 + max_latency(op) >= stime[op] - 1
    <2>1. stime[op] \in Int /\ loop.lat[op] \in Nat /\ loop.anti[op] \in Nat
      BY <1>1 DEF SchedInv
    <2> QED BY <2>1 DEF max_latency, Larger
  <1>3. IsFiniteSet(T)
    <2>1. IsFiniteSet(Nodes)
      BY FS_Interval, LoopAssumption DEF Nodes
    <2> DEFINE f == [op \in Nodes |-> stime[op] - 1 + max_latency(op)]
    <2>2. DOMAIN f = Nodes /\ T = {f[op] : op \in Nodes}
      OBVIOUS
    <2> HIDE DEF f, T
    <2> QED BY <2>1, <2>2, ImageFinite
  <1>4. T \in SUBSET Int /\ stime[Branch] - 1 + max_latency(Branch) \in T
    BY <1>1, <1>2
  <1>5. length = 1 + Max(T)
    BY DEF length
  <1>6. length \in Int /\ length >= ii
    <2>1. Max(T) \in Int /\ Max(T) >= stime[Branch] - 1 + max_latency(Branch)
      <3> HIDE DEF T
      <3> QED BY <1>3, <1>4, MaxIs
    <2> HIDE DEF T
    <2> QED BY <1>1, <1>2, <1>5, <2>1
  <1>7. length \div ii \in Int /\ length \div ii >= 1
    <2>1. PICK x : x = length
      OBVIOUS
    <2>2. x \div ii \in Int /\ x % ii \in 0..(ii - 1) /\ x = ii * (x \div ii) + (x % ii)
      BY <1>1, <1>6, <2>1, DivMod
    <2>3. x \div ii >= 1
      BY <1>1, <1>6, <2>1
    <2> QED BY <2>1, <2>2, <2>3
  <1> QED BY <1>7 DEF calculate_esc

-----------------------------------------------------------------------------
\* Longest paths, and the types.

\* Distances between some of the ends of paths.
Distances == UNION {[S -> Int] : S \in SUBSET (PathEnds \X PathEnds)}

\* What distances are.
LEMMA DistanceType ==
  ASSUME NEW d \in Distances
  PROVE  /\ DOMAIN d \subseteq PathEnds \X PathEnds
         /\ \A p \in DOMAIN d : d[p] \in Int
         /\ \A u, v : <<u, v>> \in DOMAIN d => u \in PathEnds /\ v \in PathEnds /\ d[<<u, v>>] \in Int
  <1>1. PICK S \in SUBSET (PathEnds \X PathEnds) : d \in [S -> Int]
    BY DEF Distances
  <1>2. DOMAIN d = S /\ \A p \in S : d[p] \in Int
    BY <1>1
  <1>3. ASSUME NEW u, NEW v, <<u, v>> \in S PROVE u \in PathEnds /\ v \in PathEnds
    <2>1. <<u, v>> \in PathEnds \X PathEnds
      BY <1>3
    <2> QED BY <2>1
  <1> QED BY <1>2, <1>3

\* A function to numbers on pairs of ends is distances.
LEMMA DistancesAre ==
  ASSUME NEW d, NEW S \in SUBSET (PathEnds \X PathEnds), d = [p \in S |-> d[p]], \A p \in S : d[p] \in Int
  PROVE  d \in Distances
  <1>1. d \in [S -> Int]
    OBVIOUS
  <1> QED BY <1>1 DEF Distances

\* The distances after some nodes have been tried as intermediate ones are the
\* values of a recursive function; there is one.
LEMMA DistancesExist ==
  ASSUME NEW base \in Distances, NEW step \in [1..(N + 2) -> [Distances -> Distances]]
  PROVE  \E f \in [0..(N + 2) -> Distances] :
            f[0] = base /\ \A m \in 1..(N + 2) : f[m] = step[m][f[m - 1]]
  <1> DEFINE S == Distances
             top == N + 2
             Starts(n) == \E f \in [0..n -> S] :
                f[0] = base /\ \A m \in 1..n : f[m] = step[m][f[m - 1]]
             T == {n \in 0..top : Starts(n)}
  <1>0. top \in Nat /\ base \in S /\ step \in [1..top -> [S -> S]]
    BY LoopAssumption
  <1> HIDE DEF S, top
  <1>1. 0 \in T
    <2> DEFINE g == [m \in 0..0 |-> base]
    <2>1. g \in [0..0 -> S] /\ g[0] = base /\ \A m \in 1..0 : g[m] = step[m][g[m - 1]]
      BY <1>0
    <2> HIDE DEF g
    <2> QED BY <1>0, <2>1
  <1>2. ASSUME NEW n \in 0..top - 1, n \in T
        PROVE  n + 1 \in T
    <2>1. PICK f \in [0..n -> S] : f[0] = base /\ \A m \in 1..n : f[m] = step[m][f[m - 1]]
      BY <1>2
    <2> DEFINE g == [m \in 0..(n + 1) |-> IF m = n + 1 THEN step[n + 1][f[n]] ELSE f[m]]
    <2>2. step[n + 1][f[n]] \in S
      <3>1. n + 1 \in 1..top /\ f[n] \in S
        BY <1>0, <2>1
      <3>2. step[n + 1] \in [S -> S]
        BY <1>0, <3>1
      <3> QED BY <3>1, <3>2
    <2>3. g \in [0..(n + 1) -> S] /\ g[0] = base
      BY <2>1, <2>2
    <2>4. ASSUME NEW m \in 1..(n + 1)
          PROVE  g[m] = step[m][g[m - 1]]
      <3>1. g[m - 1] = f[m - 1] /\ g[m] = IF m = n + 1 THEN step[n + 1][f[n]] ELSE f[m]
        OBVIOUS
      <3> HIDE DEF g
      <3>2. CASE m = n + 1
        <4>1. m - 1 = n
          BY <3>2
        <4> QED BY <3>1, <3>2, <4>1
      <3>3. CASE m # n + 1
        <4>1. m \in 1..n
          BY <3>3
        <4> QED BY <2>1, <3>1, <3>3, <4>1
      <3> QED BY <3>2, <3>3
    <2> HIDE DEF g
    <2>5. n + 1 \in 0..top
      BY <1>0
    <2> QED BY <2>3, <2>4, <2>5
  <1> HIDE DEF Starts
  <1>3. \A n \in 0..top : n \in T
    <2> HIDE DEF T
    <2> QED BY <1>0, <1>1, <1>2, UpTo
  <1>4. Starts(top)
    BY <1>0, <1>3
  <1> QED BY <1>4 DEF Starts, S, top

\* f itself.
LEMMA TabulatedIs ==
  ASSUME NEW f
  PROVE  Tabulated(f) = f
  BY DEF Tabulated

\* A dependence gives a one-step distance, and every one between nodes is that
\* of a dependence; no path leaves the pseudo node.
LEMMA DirectType ==
  ASSUME loop \in LOOPS, NEW i \in Nat
  PROVE  /\ Direct(i) \in Distances
         /\ \A e \in loop.edges : /\ <<e.src, e.dst>> \in DOMAIN Direct(i)
                                  /\ Direct(i)[<<e.src, e.dst>>] >= e.lat - i * e.omega
         /\ \A u, v \in Nodes : <<u, v>> \in DOMAIN Direct(i) =>
                \E e \in loop.edges : u = e.src /\ v = e.dst /\ Direct(i)[<<u, v>>] = e.lat - i * e.omega
         /\ \A u \in Nodes : <<u, Stop>> \in DOMAIN Direct(i)
         /\ \A v : <<Stop, v>> \notin DOMAIN Direct(i)
  <1> DEFINE Between(p) == {f \in loop.edges : <<f.src, f.dst>> = p}
             D(p) == {e.lat - i * e.omega : e \in Between(p)}
             Linked == {<<f.src, f.dst>> : f \in loop.edges}
             S == Linked \cup (Nodes \X {Stop})
  <1>1. \A e \in loop.edges : e.src \in Nodes /\ e.dst \in Nodes /\ e.lat \in Int /\ e.omega \in Nat
                               /\ e.lat - i * e.omega \in Int
    <2> TAKE e \in loop.edges
    <2>1. e.src \in Nodes /\ e.dst \in Nodes /\ e.lat \in Int /\ e.omega \in Nat
      BY EdgeType
    <2> QED BY <2>1
  <1>2. /\ Stop \in PathEnds /\ Stop \notin Nodes
        /\ \A u \in Nodes : u \in PathEnds /\ u # Stop
    BY LoopAssumption DEF Nodes, PathEnds, Stop
  <1>3. ASSUME NEW p, Between(p) # {}
        PROVE  /\ Max(D(p)) \in Int /\ Max(D(p)) \in D(p)
               /\ \A e \in Between(p) : Max(D(p)) >= e.lat - i * e.omega
    <2>1. IsFiniteSet(Between(p))
      <3>1. IsFiniteSet(loop.edges)
        BY LoopAssumption
      <3> QED BY <3>1, FS_Subset
    <2>2. IsFiniteSet(D(p))
      <3> DEFINE g == [e \in Between(p) |-> e.lat - i * e.omega]
      <3>1. DOMAIN g = Between(p) /\ D(p) = {g[e] : e \in Between(p)}
        OBVIOUS
      <3> HIDE DEF Between, g, D
      <3> QED BY <2>1, <3>1, ImageFinite
    <2>3. D(p) \in SUBSET Int
      BY <1>1
    <2>4. \A e \in Between(p) : e.lat - i * e.omega \in D(p)
      OBVIOUS
    <2>5. D(p) # {}
      BY <1>3
    <2> HIDE DEF D, Between
    <2>6. /\ Max(D(p)) \in Int /\ Max(D(p)) \in D(p)
          /\ \A y \in D(p) : Max(D(p)) >= y
      <3>1. PICK T : T = D(p)
        OBVIOUS
      <3>2. T \in SUBSET Int /\ T # {} /\ IsFiniteSet(T)
        BY <2>2, <2>3, <2>5, <3>1
      <3> QED BY <3>1, <3>2, MaxIs
    <2> QED BY <2>4, <2>6
  <1>4. Direct(i) = [p \in S |-> IF p[2] = Stop THEN 0 ELSE Max(D(p))]
    BY DEF Direct
  <1>5. ASSUME NEW e \in loop.edges, NEW p, p = <<e.src, e.dst>>
        PROVE  p \in S /\ p \in PathEnds \X PathEnds /\ p[2] # Stop /\ e \in Between(p)
    BY <1>1, <1>2, <1>5
  <1>6. ASSUME NEW p \in Linked
        PROVE  /\ p \in PathEnds \X PathEnds /\ Between(p) # {} /\ Direct(i)[p] = Max(D(p))
               /\ \A v : p # <<Stop, v>>
    <2>1. PICK e \in loop.edges : p = <<e.src, e.dst>>
      OBVIOUS
    <2>2. p \in S /\ p \in PathEnds \X PathEnds /\ p[2] # Stop /\ e \in Between(p)
      BY <1>5, <2>1
    <2>3. \A v : p # <<Stop, v>>
      BY <1>1, <1>2, <2>1
    <2> HIDE DEF S, D, Between, Linked
    <2>4. Direct(i)[p] = Max(D(p))
      BY <1>4, <2>2
    <2> QED BY <2>2, <2>3, <2>4
  <1>7. ASSUME NEW p \in Nodes \X {Stop}
        PROVE  p \in PathEnds \X PathEnds /\ p \in S /\ Direct(i)[p] = 0 /\ \A v : p # <<Stop, v>>
    <2>1. PICK u \in Nodes : p = <<u, Stop>>
      OBVIOUS
    <2>2. p \in S /\ p[2] = Stop /\ p \in PathEnds \X PathEnds /\ \A v : p # <<Stop, v>>
      BY <1>2, <2>1
    <2> HIDE DEF S, D, Between, Linked
    <2>3. Direct(i)[p] = 0
      BY <1>4, <2>2
    <2> QED BY <2>2, <2>3
  <1>8. DOMAIN Direct(i) = S
    <2> HIDE DEF S, D, Between, Linked
    <2> QED BY <1>4
  <1>9. Direct(i) \in Distances
    <2>1. S \in SUBSET (PathEnds \X PathEnds)
      BY <1>6, <1>7
    <2>2. \A p \in S : Direct(i)[p] \in Int
      <3> TAKE p \in S
      <3>1. CASE p \in Linked
        <4> HIDE DEF D, Between, Linked
        <4> QED BY <1>3, <1>6, <3>1
      <3>2. CASE p \in Nodes \X {Stop}
        BY <1>7, <3>2
      <3> QED BY <3>1, <3>2
    <2> HIDE DEF S, D, Between, Linked
    <2>3. Direct(i) = [p \in S |-> Direct(i)[p]]
      BY <1>4
    <2> QED BY <2>1, <2>2, <2>3, DistancesAre
  <1>10. ASSUME NEW e \in loop.edges
         PROVE  /\ <<e.src, e.dst>> \in DOMAIN Direct(i)
                /\ Direct(i)[<<e.src, e.dst>>] >= e.lat - i * e.omega
    <2>1. PICK p : p = <<e.src, e.dst>>
      OBVIOUS
    <2>2. p \in Linked /\ p \in S /\ e \in Between(p)
      BY <1>5, <2>1
    <2> HIDE DEF S, D, Between, Linked
    <2>3. Direct(i)[p] = Max(D(p)) /\ Between(p) # {}
      BY <1>6, <2>2
    <2>4. Max(D(p)) >= e.lat - i * e.omega
      BY <1>3, <2>2, <2>3
    <2> QED BY <1>8, <2>1, <2>2, <2>3, <2>4
  <1>11. ASSUME NEW u \in Nodes, NEW v \in Nodes, <<u, v>> \in S
         PROVE  \E e \in loop.edges : u = e.src /\ v = e.dst /\ Direct(i)[<<u, v>>] = e.lat - i * e.omega
    <2>1. PICK p : p = <<u, v>>
      OBVIOUS
    <2>2. p \in Linked
      BY <1>2, <1>11, <2>1
    <2>3. Between(p) # {} /\ Direct(i)[p] = Max(D(p))
      <3> HIDE DEF S, D, Between, Linked
      <3> QED BY <1>6, <2>2
    <2>4. Max(D(p)) \in D(p)
      <3> HIDE DEF S, D, Between, Linked
      <3> QED BY <1>3, <2>3
    <2>5. PICK e \in Between(p) : Direct(i)[p] = e.lat - i * e.omega
      BY <2>3, <2>4
    <2> QED BY <2>1, <2>5
  <1>12. \A u \in Nodes : <<u, Stop>> \in S
    OBVIOUS
  <1>13. \A v : <<Stop, v>> \notin S
    BY <1>6, <1>7
  <1> HIDE DEF S, D, Between, Linked
  <1> QED BY <1>8, <1>9, <1>10, <1>11, <1>12, <1>13

\* One more intermediate node: no distance gets shorter, and each is one there
\* was or the sum of two.
LEMMA ThroughIs ==
  ASSUME NEW d \in Distances, NEW m \in PathEnds
  PROVE  /\ Through(d, m) \in Distances
         /\ \A u, v : <<u, v>> \in DOMAIN d =>
                <<u, v>> \in DOMAIN Through(d, m) /\ Through(d, m)[<<u, v>>] >= d[<<u, v>>]
         /\ \A u, v : <<u, m>> \in DOMAIN d /\ <<m, v>> \in DOMAIN d /\ u # m /\ v # m =>
                /\ <<u, v>> \in DOMAIN Through(d, m)
                /\ Through(d, m)[<<u, v>>] >= d[<<u, m>>] + d[<<m, v>>]
         /\ \A u, v : <<u, v>> \in DOMAIN Through(d, m) =>
                \/ <<u, v>> \in DOMAIN d /\ Through(d, m)[<<u, v>>] = d[<<u, v>>]
                \/ /\ u # m /\ v # m /\ <<u, m>> \in DOMAIN d /\ <<m, v>> \in DOMAIN d
                   /\ Through(d, m)[<<u, v>>] = d[<<u, m>>] + d[<<m, v>>]
  <1> DEFINE Via(p) == d[<<p[1], m>>] + d[<<m, p[2]>>]
             J == Joined(d, m)
             S == DOMAIN d \cup J
             B == [p \in S |-> IF p \notin DOMAIN d THEN Via(p) ELSE IF p \in J THEN Larger(d[p], Via(p)) ELSE d[p]]
  <1>1. Through(d, m) = B
    BY TabulatedIs, Zenon DEF Through
  <1>2. DOMAIN d \subseteq PathEnds \X PathEnds
        /\ \A u, v : <<u, v>> \in DOMAIN d => u \in PathEnds /\ v \in PathEnds /\ d[<<u, v>>] \in Int
    BY DistanceType
  <1>3. ASSUME NEW u, NEW v
        PROVE  <<u, v>> \in J <=> u # m /\ v # m /\ <<u, m>> \in DOMAIN d /\ <<m, v>> \in DOMAIN d
    <2>1. <<u, v>> \in J <=> /\ <<u, v>> \in PathEnds \X PathEnds /\ m \notin {u, v}
                             /\ {<<u, m>>, <<m, v>>} \subseteq DOMAIN d
      BY DEF Joined
    <2> HIDE DEF J
    <2>2. <<u, m>> \in DOMAIN d /\ <<m, v>> \in DOMAIN d => <<u, v>> \in PathEnds \X PathEnds
      BY <1>2
    <2> QED BY <2>1, <2>2
  <1>4. \A u, v : Via(<<u, v>>) = d[<<u, m>>] + d[<<m, v>>]
    OBVIOUS
  <1>5. J \subseteq PathEnds \X PathEnds
    BY DEF Joined
  <1> HIDE DEF J, Via
  <1>6. DOMAIN B = S
    OBVIOUS
  <1>7. ASSUME NEW u, NEW v, <<u, v>> \in S
        PROVE  /\ B[<<u, v>>] \in Int
               /\ <<u, v>> \in DOMAIN d => B[<<u, v>>] >= d[<<u, v>>]
               /\ <<u, v>> \in J => B[<<u, v>>] >= Via(<<u, v>>)
               /\ \/ <<u, v>> \in DOMAIN d /\ B[<<u, v>>] = d[<<u, v>>]
                  \/ <<u, v>> \in J /\ B[<<u, v>>] = Via(<<u, v>>)
    <2>1. PICK p : p = <<u, v>>
      OBVIOUS
    <2>2. B[p] = IF p \notin DOMAIN d THEN Via(p) ELSE IF p \in J THEN Larger(d[p], Via(p)) ELSE d[p]
      BY <1>7, <2>1
    <2>3. p \in J => Via(p) \in Int
      <3>1. SUFFICES ASSUME p \in J PROVE Via(p) \in Int
        OBVIOUS
      <3>2. <<u, m>> \in DOMAIN d /\ <<m, v>> \in DOMAIN d
        BY <1>3, <2>1, <3>1
      <3>3. PICK x, y : x = d[<<u, m>>] /\ y = d[<<m, v>>]
        OBVIOUS
      <3>4. x \in Int /\ y \in Int /\ x + y \in Int
        BY <1>2, <3>2, <3>3
      <3> QED BY <1>4, <2>1, <3>3, <3>4
    <2>4. p \in DOMAIN d => d[p] \in Int
      BY <1>2, <2>1
    <2>5. p \in DOMAIN d \/ p \in J
      BY <1>7, <2>1
    <2> HIDE DEF B, S
    <2> DEFINE x == d[p]
               y == Via(p)
               b == B[p]
    <2>6. CASE p \notin DOMAIN d
      <3>1. b = y /\ p \in J /\ y \in Int
        BY <2>2, <2>3, <2>5, <2>6
      <3> HIDE DEF x, y, b
      <3>2. b \in Int /\ b >= y
        BY <3>1
      <3>3. B[p] \in Int /\ B[p] >= Via(p) /\ B[p] = Via(p) /\ p \in J
        BY <3>1, <3>2 DEF b, y
      <3> QED BY <2>1, <2>6, <3>3
    <2>7. CASE p \in DOMAIN d /\ p \in J
      <3>1. b = Larger(x, y) /\ y \in Int /\ x \in Int
        BY <2>2, <2>3, <2>4, <2>7
      <3> HIDE DEF x, y, b
      <3>2. b \in Int /\ b >= x /\ b >= y /\ (b = x \/ b = y)
        BY <3>1 DEF Larger
      <3>3. B[p] \in Int /\ B[p] >= d[p] /\ B[p] >= Via(p) /\ (B[p] = d[p] \/ B[p] = Via(p))
        BY <3>2 DEF b, x, y
      <3> QED BY <2>1, <2>7, <3>3
    <2>8. CASE p \in DOMAIN d /\ p \notin J
      <3>1. b = x /\ x \in Int
        BY <2>2, <2>4, <2>8
      <3> HIDE DEF x, y, b
      <3>2. b \in Int /\ b >= x
        BY <3>1
      <3>3. B[p] \in Int /\ B[p] >= d[p] /\ B[p] = d[p]
        BY <3>1, <3>2 DEF b, x
      <3> QED BY <2>1, <2>8, <3>3
    <2> QED BY <2>6, <2>7, <2>8
  <1>8. B \in Distances
    <2>1. S \in SUBSET (PathEnds \X PathEnds)
      BY <1>2, <1>5
    <2>2. \A p \in S : B[p] \in Int
      <3> TAKE p \in S
      <3>1. PICK u, v : p = <<u, v>>
        BY <2>1
      <3> HIDE DEF B, S
      <3> QED BY <1>7, <3>1
    <2>3. B = [p \in S |-> B[p]]
      OBVIOUS
    <2> HIDE DEF B, S
    <2> QED BY <2>1, <2>2, <2>3, DistancesAre
  <1>9. \A p : p \in S <=> p \in DOMAIN d \/ p \in J
    OBVIOUS
  <1> HIDE DEF B, S
  <1>10. ASSUME NEW u, NEW v, <<u, v>> \in DOMAIN d
         PROVE  <<u, v>> \in DOMAIN B /\ B[<<u, v>>] >= d[<<u, v>>]
    BY <1>6, <1>7, <1>9, <1>10
  <1>11. ASSUME NEW u, NEW v, <<u, m>> \in DOMAIN d, <<m, v>> \in DOMAIN d, u # m, v # m
         PROVE  <<u, v>> \in DOMAIN B /\ B[<<u, v>>] >= d[<<u, m>>] + d[<<m, v>>]
    <2>1. <<u, v>> \in J
      BY <1>3, <1>11
    <2>2. <<u, v>> \in S
      BY <1>9, <2>1
    <2>3. B[<<u, v>>] >= Via(<<u, v>>)
      BY <1>7, <2>1, <2>2
    <2> QED BY <1>4, <1>6, <2>2, <2>3
  <1>12. ASSUME NEW u, NEW v, <<u, v>> \in DOMAIN B
         PROVE  \/ <<u, v>> \in DOMAIN d /\ B[<<u, v>>] = d[<<u, v>>]
                \/ /\ u # m /\ v # m /\ <<u, m>> \in DOMAIN d /\ <<m, v>> \in DOMAIN d
                   /\ B[<<u, v>>] = d[<<u, m>>] + d[<<m, v>>]
    <2>1. <<u, v>> \in S
      BY <1>6, <1>12
    <2>2. CASE <<u, v>> \in DOMAIN d /\ B[<<u, v>>] = d[<<u, v>>]
      BY <2>2
    <2>3. CASE <<u, v>> \in J /\ B[<<u, v>>] = Via(<<u, v>>)
      BY <1>3, <1>4, <2>3
    <2> QED BY <1>7, <2>1, <2>2, <2>3
  <1> QED BY <1>1, <1>8, <1>10, <1>11, <1>12

\* The distances after each intermediate node, in the order floyd tries them.
Tries(f, i) ==
    /\ f \in [0..(N + 2) -> Distances]
    /\ f[0] = Direct(i)
    /\ \A m \in 1..(N + 2) : f[m] = Through(f[m - 1], m)

\* MinDist is the last of them.
LEMMA MinDistIs ==
  ASSUME loop \in LOOPS, NEW i \in Nat
  PROVE  \E f : Tries(f, i) /\ MinDist(i) = f[N + 2]
  <1> DEFINE Further(dist, m) == CHOOSE far \in {Through(d, m) : d \in {dist[m - 1]}} : TRUE
             F(dist) == [m \in 0..(N + 2) |-> IF m = 0 THEN Tabulated(Direct(i)) ELSE Further(dist, m)]
             T == CHOOSE dist : dist = F(dist)
             step == [m \in 1..(N + 2) |-> [d \in Distances |-> Through(d, m)]]
  <1>1. \A m \in 1..(N + 2) : m \in PathEnds
    BY DEF PathEnds
  <1>2. step \in [1..(N + 2) -> [Distances -> Distances]]
    BY <1>1, ThroughIs
  <1>3. Direct(i) \in Distances /\ Tabulated(Direct(i)) = Direct(i)
    BY DirectType, TabulatedIs
  <1>4. PICK f \in [0..(N + 2) -> Distances] :
            f[0] = Direct(i) /\ \A m \in 1..(N + 2) : f[m] = step[m][f[m - 1]]
    <2> HIDE DEF step
    <2> QED BY <1>2, <1>3, DistancesExist
  <1>5. \A dist, m : Further(dist, m) = Through(dist[m - 1], m)
    <2> TAKE dist, m
    <2>1. PICK x : x = dist[m - 1]
      OBVIOUS
    <2>2. {Through(d, m) : d \in {x}} = {Through(x, m)}
      OBVIOUS
    <2>3. \A y : (CHOOSE far \in {y} : TRUE) = y
      OBVIOUS
    <2> QED BY <2>1, <2>2, <2>3
  <1> HIDE DEF Further
  <1>6. f = F(f)
    <2>1. ASSUME NEW m \in 1..(N + 2) PROVE f[m] = Further(f, m)
      <3>1. f[m - 1] \in Distances
        BY LoopAssumption
      <3>2. f[m] = Through(f[m - 1], m)
        BY <1>4, <3>1
      <3> QED BY <1>5, <3>2
    <2>2. f[0] = Tabulated(Direct(i))
      BY <1>3, <1>4
    <2>3. \A m \in 0..(N + 2) : m # 0 => m \in 1..(N + 2)
      BY LoopAssumption
    <2>4. f = [m \in 0..(N + 2) |-> f[m]]
      BY <1>4
    <2>5. [m \in 0..(N + 2) |-> f[m]] = F(f)
      BY <2>1, <2>2, <2>3
    <2> HIDE DEF F
    <2> QED BY <2>4, <2>5
  <1>7. T = F(T)
    <2> HIDE DEF F
    <2> QED BY <1>6
  <1>8. MinDist(i) = T[N + 2]
    BY DEF MinDist, Further
  <1> HIDE DEF T
  <1>9. /\ T[0] = Direct(i) /\ T = [m \in 0..(N + 2) |-> T[m]]
        /\ \A m \in 1..(N + 2) : T[m] = Through(T[m - 1], m)
    <2>1. T[0] = F(T)[0] /\ DOMAIN T = DOMAIN F(T) /\ \A m \in 1..(N + 2) : T[m] = F(T)[m]
      <3> HIDE DEF F
      <3> QED BY <1>7
    <2>2. F(T)[0] = Direct(i) /\ DOMAIN F(T) = 0..(N + 2) /\ \A m \in 1..(N + 2) : F(T)[m] = Further(T, m)
      BY <1>3, LoopAssumption
    <2>3. T = [m \in 0..(N + 2) |-> T[m]]
      BY <1>7
    <2> QED BY <1>5, <2>1, <2>2, <2>3
  <1> HIDE DEF F
  <1> DEFINE Done == {m \in 0..(N + 2) : T[m] \in Distances}
  <1>10. 0 \in Done
    BY <1>3, <1>9, LoopAssumption
  <1>11. ASSUME NEW m \in 0..(N + 2) - 1, m \in Done PROVE m + 1 \in Done
    <2>1. m + 1 \in 1..(N + 2) /\ m + 1 \in 0..(N + 2) /\ m + 1 - 1 = m
      BY LoopAssumption
    <2>2. T[m] \in Distances
      BY <1>11
    <2>3. T[m + 1] = Through(T[m], m + 1)
      <3>1. PICK k : k = m + 1
        OBVIOUS
      <3>2. k \in 1..(N + 2) /\ k - 1 = m
        BY <2>1, <3>1
      <3>3. T[k] = Through(T[k - 1], k)
        BY <1>9, <3>2
      <3> QED BY <3>1, <3>2, <3>3
    <2>4. T[m + 1] \in Distances
      BY <1>1, <2>1, <2>2, <2>3, ThroughIs
    <2> QED BY <2>1, <2>4
  <1> HIDE DEF Done
  <1>12. \A m \in 0..(N + 2) : m \in Done
    <2>1. N + 2 \in Nat
      BY LoopAssumption
    <2> QED BY <1>10, <1>11, <2>1, UpTo
  <1>13. T \in [0..(N + 2) -> Distances]
    BY <1>9, <1>12 DEF Done
  <1> QED BY <1>8, <1>9, <1>13 DEF Tries

\* One node more.
LEMMA NextTried ==
  ASSUME NEW i, NEW f, Tries(f, i), NEW n \in 0..(N + 2) - 1
  PROVE  /\ n \in 0..(N + 2) /\ n + 1 \in 0..(N + 2) /\ n + 1 \in PathEnds
         /\ f[n] \in Distances /\ f[n + 1] \in Distances /\ f[n + 1] = Through(f[n], n + 1)
  <1>1. n \in 0..(N + 2) /\ n + 1 \in 0..(N + 2) /\ n + 1 \in 1..(N + 2) /\ n + 1 - 1 = n
    BY LoopAssumption
  <1> QED BY <1>1 DEF Tries, PathEnds

\* No distance is lost or gets shorter.
LEMMA DistancesGrow ==
  ASSUME NEW i, NEW f, Tries(f, i), NEW k \in 0..(N + 2)
  PROVE  \A u, v : <<u, v>> \in DOMAIN f[k] =>
            <<u, v>> \in DOMAIN f[N + 2] /\ f[N + 2][<<u, v>>] >= f[k][<<u, v>>]
  <1> DEFINE Kept(n) == \A u, v : <<u, v>> \in DOMAIN f[k] =>
                            <<u, v>> \in DOMAIN f[n] /\ f[n][<<u, v>>] >= f[k][<<u, v>>]
             Done == {n \in 0..(N + 2) : k <= n => Kept(n)}
  <1>1. N + 2 \in Nat /\ f[k] \in Distances
    BY LoopAssumption DEF Tries
  <1>2. Kept(k)
    <2>1. \A u, v : <<u, v>> \in DOMAIN f[k] => f[k][<<u, v>>] \in Int
      BY <1>1, DistanceType
    <2>2. \A x \in Int : x >= x
      OBVIOUS
    <2> QED BY <2>1, <2>2
  <1>3. 0 \in Done
    <2>1. k <= 0 => k = 0
      OBVIOUS
    <2> HIDE DEF Kept
    <2> QED BY <1>1, <1>2, <2>1
  <1>4. ASSUME NEW n \in 0..(N + 2) - 1, n \in Done PROVE n + 1 \in Done
    <2>1. /\ n + 1 \in 0..(N + 2) /\ n + 1 \in PathEnds /\ f[n] \in Distances /\ f[n + 1] \in Distances
          /\ f[n + 1] = Through(f[n], n + 1)
      BY NextTried
    <2>2. CASE k <= n
      <3>1. Kept(n)
        BY <1>4, <2>2
      <3>2. ASSUME NEW u, NEW v, <<u, v>> \in DOMAIN f[k]
            PROVE  <<u, v>> \in DOMAIN f[n + 1] /\ f[n + 1][<<u, v>>] >= f[k][<<u, v>>]
        <4>1. <<u, v>> \in DOMAIN f[n] /\ f[n][<<u, v>>] >= f[k][<<u, v>>]
          BY <3>1, <3>2
        <4>2. <<u, v>> \in DOMAIN f[n + 1] /\ f[n + 1][<<u, v>>] >= f[n][<<u, v>>]
          BY <2>1, <4>1, ThroughIs
        <4>3. f[k][<<u, v>>] \in Int /\ f[n][<<u, v>>] \in Int /\ f[n + 1][<<u, v>>] \in Int
          BY <1>1, <2>1, <3>2, <4>1, <4>2, DistanceType
        <4> QED BY <4>1, <4>2, <4>3
      <3>3. Kept(n + 1)
        BY <3>2
      <3> HIDE DEF Kept
      <3> QED BY <2>1, <3>3
    <2>3. CASE ~(k <= n)
      <3>1. k <= n + 1 => k = n + 1
        BY <2>3
      <3> HIDE DEF Kept
      <3> QED BY <1>2, <2>1, <3>1
    <2> QED BY <2>2, <2>3
  <1> HIDE DEF Done
  <1>5. \A n \in 0..(N + 2) : n \in Done
    BY <1>1, <1>3, <1>4, UpTo
  <1>6. N + 2 \in Done /\ k <= N + 2
    BY <1>1, <1>5
  <1> QED BY <1>6 DEF Done

\* A longest path has a length, and is no shorter than a dependence.
LEMMA MinDistType ==
  ASSUME loop \in LOOPS, NEW i \in Nat
  PROVE  /\ MinDist(i) \in Distances
         /\ \A u, v : <<u, v>> \in DOMAIN Direct(i) =>
                <<u, v>> \in DOMAIN MinDist(i) /\ MinDist(i)[<<u, v>>] >= Direct(i)[<<u, v>>]
  <1>1. PICK f : Tries(f, i) /\ MinDist(i) = f[N + 2]
    BY MinDistIs
  <1>2. N + 2 \in 0..(N + 2) /\ 0 \in 0..(N + 2)
    BY LoopAssumption
  <1>3. f[N + 2] \in Distances /\ f[0] = Direct(i)
    BY <1>1, <1>2 DEF Tries
  <1>4. \A u, v : <<u, v>> \in DOMAIN f[0] => <<u, v>> \in DOMAIN f[N + 2] /\ f[N + 2][<<u, v>>] >= f[0][<<u, v>>]
    BY <1>1, <1>2, DistancesGrow
  <1> QED BY <1>1, <1>3, <1>4

\* A height is the length of a longest path.
LEMMA HeightsType ==
  ASSUME loop \in LOOPS, NEW i \in Nat
  PROVE  Heights(i) \in [Nodes -> Int]
  <1>1. PICK d : d = MinDist(i)
    OBVIOUS
  <1>2. d \in Distances /\ \A u \in Nodes : <<u, Stop>> \in DOMAIN d
    BY <1>1, MinDistType, DirectType
  <1> DEFINE h == [op \in Nodes |-> d[<<op, Stop>>]]
  <1>3. h \in [Nodes -> Int]
    BY <1>2, DistanceType
  <1>4. Heights(i) = CHOOSE x \in {h} : TRUE
    <2>1. {[op \in Nodes |-> far[<<op, Stop>>]] : far \in {d}} = {h}
      OBVIOUS
    <2> HIDE DEF h
    <2> QED BY <1>1, <2>1 DEF Heights
  <1>5. \A y : (CHOOSE x \in {y} : TRUE) = y
    OBVIOUS
  <1> HIDE DEF h
  <1> QED BY <1>3, <1>4, <1>5

\* The types that no other part of the invariant needs.
TypesInv ==
    /\ phase \in {"limit", "search", "schedule", "iterate", "scheduled", "failed"}
    /\ budget \in Nat /\ esc \in Nat
    /\ height \in [Nodes -> Int] /\ alt \in [Nodes -> Nat] /\ last \in [Nodes -> Int]
    /\ unscheduled \in Seq(Ops)

\* Operations that wait are operations of the body.
LEMMA WaitingType ==
  ASSUME AttemptInv, Attempting
  PROVE  unscheduled \in Seq(Ops) /\ alt \in [Nodes -> Nat]
  <1>1. QueueInv /\ alt \in [Nodes -> Nat]
    BY DEF AttemptInv, MapInv
  <1>2. unscheduled \in Seq(Ops \ placed)
    BY <1>1, OpsFinite, SeqsHaveAll DEF QueueInv
  <1> QED BY <1>1, <1>2

\* No step of the scheduler breaks the types.
LEMMA TypesInvInductive ==
  AttemptInv /\ StartInv /\ TypesInv /\ [SchedStep \/ Ended]_schedVars => TypesInv'
  <1> SUFFICES ASSUME AttemptInv, StartInv, TypesInv, [SchedStep \/ Ended]_schedVars PROVE TypesInv'
    OBVIOUS
  <1>1. CASE LimitTooLow \/ LimitFound \/ SearchStep \/ StartAtMII \/ BumpII \/ OutOfIntervals
    BY <1>1 DEF TypesInv, LimitTooLow, LimitFound, SearchStep, StartAtMII, BumpII, OutOfIntervals, attemptVars
  <1>2. CASE UNCHANGED schedVars
    BY <1>2 DEF TypesInv, schedVars, attemptVars
  <1>3. CASE Scheduled
    <2>1. calculate_esc \in Nat
      BY <1>3, EscIsNat DEF Scheduled, Attempting
    <2>2. esc' = calculate_esc /\ phase' = "scheduled" /\ UNCHANGED attemptVars
      BY <1>3 DEF Scheduled
    <2> QED BY <2>1, <2>2 DEF TypesInv, attemptVars
  <1>4. CASE init_sched_state
    <2>1. /\ budget' = BUDGETRATIO * NumNodes /\ height' = Tabulated(Heights(ii))
          /\ last' = [op \in Nodes |-> -1] /\ phase' = "iterate" /\ esc' = esc
      BY <1>4 DEF init_sched_state
    <2>2. height' \in [Nodes -> Int]
      BY <2>1, HeightsType, TabulatedIs DEF AttemptInv, SchedInv
    <2>3. budget' \in Nat
      BY <2>1, LoopAssumption DEF NumNodes
    <2>4. AttemptInv' /\ Attempting'
      BY <1>4, <2>1, AttemptStartsMap DEF Attempting
    <2>5. unscheduled' \in Seq(Ops) /\ alt' \in [Nodes -> Nat]
      <3>1. (unscheduled \in Seq(Ops) /\ alt \in [Nodes -> Nat])'
        BY <2>4, WaitingType, PTL
      <3> QED BY <3>1 DEF Ops, Nodes
    <2> QED BY <2>1, <2>2, <2>3, <2>5 DEF TypesInv
  <1>5. CASE \E op \in Ops : InLegalSlot(op) \/ InForcedSlot(op)
    <2>1. PICK op \in Ops : InLegalSlot(op) \/ InForcedSlot(op)
      BY <1>5
    <2>2. /\ phase' = "iterate" /\ budget > 0 /\ budget' = budget - 1 /\ height' = height /\ esc' = esc
      BY <2>1 DEF InLegalSlot, InForcedSlot, Scheduling
    <2>3. AttemptInv' /\ Attempting'
      BY <1>5, <2>2, AttemptInvInductive DEF SchedStep, Attempting
    <2>4. unscheduled' \in Seq(Ops) /\ alt' \in [Nodes -> Nat]
      <3>1. (unscheduled \in Seq(Ops) /\ alt \in [Nodes -> Nat])'
        BY <2>3, WaitingType, PTL
      <3> QED BY <3>1 DEF Ops, Nodes
    <2>5. last' \in [Nodes -> Int]
      <3>1. MinTime(op, placed) \in Int /\ ii \in Int
        BY MinTimeIs DEF AttemptInv, SchedInv
      <3>2. last' = last \/ \E slot \in Int : last' = [last EXCEPT ![op] = slot]
        <4>1. CASE InLegalSlot(op)
          <5>1. PICK slot \in MinTime(op, placed)..MaxTime(op, placed), k \in DOMAIN loop.alts[op] :
                    \/ Bind(op, slot, k, getDependencyConflicts(op, slot))
                    \/ NotPlaced(op, k)
            BY <4>1 DEF InLegalSlot
          <5>2. slot \in Int
            BY <3>1
          <5> QED BY <5>1, <5>2 DEF Bind, NotPlaced
        <4>2. CASE InForcedSlot(op)
          <5> DEFINE Out(slot) == getDependencyConflicts(op, slot) \cup get_conflicting_ops(op, slot)
          <5>1. PICK slot \in MinTime(op, placed)..(MinTime(op, placed) + ii - 1) :
                    \/ \E k : Bind(op, slot, k, Out(slot))
                    \/ NotPlaced(op, 0)
            BY <4>2 DEF InForcedSlot
          <5> HIDE DEF Out
          <5>2. slot \in Int
            BY <3>1
          <5> QED BY <5>1, <5>2 DEF Bind, NotPlaced
        <4> QED BY <2>1, <4>1, <4>2
      <3> QED BY <3>2 DEF TypesInv
    <2> QED BY <2>2, <2>4, <2>5 DEF TypesInv
  <1> QED BY <1>1, <1>2, <1>3, <1>4, <1>5 DEF SchedStep, Ended

-----------------------------------------------------------------------------
\* Operations that depend on themselves, which no displacement looks at.

\* Interval i is long enough for them.
SelfHolds(i) == \A e \in loop.edges : e.src = e.dst => e.lat <= i * e.omega

\* calculate_RecMII finds such an interval, and the driver starts from it.
SelfInv ==
    /\ phase = "search" => SelfHolds(uplim)
    /\ phase \notin {"limit", "search"} => SelfHolds(ii)

\* Such a dependence is a circuit.
LEMMA SelfIsCircuit ==
  ASSUME loop \in LOOPS, NEW i \in Nat, ~failFloyd(i)
  PROVE  SelfHolds(i)
  <1> SUFFICES ASSUME NEW e \in loop.edges, e.src = e.dst PROVE e.lat <= i * e.omega
    BY DEF SelfHolds
  <1>1. PICK d : d = MinDist(i)
    OBVIOUS
  <1>2. PICK p : p = <<e.src, e.dst>>
    OBVIOUS
  <1>3. e.src \in PathEnds /\ e.lat \in Int /\ i * e.omega \in Int
    <2>1. e.src \in Nodes /\ e.lat \in Int /\ e.omega \in Nat
      BY EdgeType
    <2> QED BY <2>1, LoopAssumption DEF Nodes, PathEnds
  <1>4. /\ p \in DOMAIN Direct(i) /\ Direct(i)[p] >= e.lat - i * e.omega /\ Direct(i)[p] \in Int
        /\ p \in DOMAIN d /\ d[p] >= Direct(i)[p] /\ d[p] \in Int
    BY <1>1, <1>2, DirectType, MinDistType, DistanceType
  <1>5. ~(d[p] > 0)
    <2>1. \A x \in PathEnds : ~(<<x, x>> \in DOMAIN d /\ d[<<x, x>>] > 0)
      BY <1>1, Zenon DEF failFloyd
    <2> QED BY <1>2, <1>3, <1>4, <2>1
  <1> QED BY <1>3, <1>4, <1>5

\* A longer interval is long enough too.
LEMMA SelfGrows ==
  ASSUME loop \in LOOPS, NEW i \in Nat, NEW j \in Nat, i <= j, SelfHolds(i)
  PROVE  SelfHolds(j)
  <1> SUFFICES ASSUME NEW e \in loop.edges, e.src = e.dst PROVE e.lat <= j * e.omega
    BY DEF SelfHolds
  <1>1. e.lat \in Int /\ e.omega \in Nat /\ e.lat <= i * e.omega
    BY EdgeType DEF SelfHolds
  <1>2. PICK k \in Nat : j = i + k
    <2>1. j - i \in Nat
      OBVIOUS
    <2> QED BY <2>1
  <1>3. k * e.omega \in Nat /\ i * e.omega \in Int /\ j * e.omega = i * e.omega + k * e.omega
    BY <1>1, <1>2
  <1> QED BY <1>1, <1>3

\* The interval stays long enough.
LEMMA SelfInvInductive ==
  SchedInv /\ SelfInv /\ [SchedStep \/ Ended]_schedVars => SelfInv'
  <1> SUFFICES ASSUME SchedInv, SelfInv, [SchedStep \/ Ended]_schedVars PROVE SelfInv'
    OBVIOUS
  <1>1. /\ loop' = loop /\ loop \in LOOPS /\ ii \in Nat /\ uplim \in Nat /\ lowlim \in Nat /\ the_resmii \in Nat
        /\ \A i : SelfHolds(i)' <=> SelfHolds(i)
    <2>1. loop' = loop
      BY DEF SchedStep, Ended, LimitTooLow, LimitFound, SearchStep, StartAtMII, init_sched_state, OutOfIntervals,
            InLegalSlot, InForcedSlot, Scheduling, Scheduled, BumpII, schedVars
    <2> QED BY <2>1 DEF SchedInv, SelfHolds
  <1>2. CASE LimitTooLow
    BY <1>2 DEF LimitTooLow, SelfInv
  <1>3. CASE LimitFound
    <2>1. phase' = "search" /\ uplim' = uplim /\ ~failFloyd(uplim)
      BY <1>3 DEF LimitFound, searchVars
    <2> QED BY <1>1, <2>1, SelfIsCircuit DEF SelfInv
  <1>4. CASE SearchStep
    <2>1. recmii \in Nat
      BY <1>1 DEF recmii
    <2>2. phase = "search" /\ phase' = "search" /\ (uplim' = uplim \/ (uplim' = recmii /\ ~failFloyd(recmii)))
      BY <1>4 DEF SearchStep
    <2> QED BY <1>1, <2>1, <2>2, SelfIsCircuit DEF SelfInv
  <1>5. CASE StartAtMII
    <2>1. phase = "search" /\ phase' = "schedule" /\ uplim = lowlim /\ ii' = Larger(recmii, the_resmii)
      BY <1>5 DEF StartAtMII
    <2>2. ii' \in Nat /\ uplim <= ii'
      BY <1>1, <2>1 DEF recmii, Larger
    <2> QED BY <1>1, <2>1, <2>2, SelfGrows DEF SelfInv
  <1>6. CASE BumpII
    <2>1. phase = "iterate" /\ phase' = "schedule" /\ ii' = ii + 1 /\ ii <= ii'
      BY <1>1, <1>6 DEF BumpII
    <2> QED BY <1>1, <2>1, SelfGrows DEF SelfInv
  <1>7. CASE \/ init_sched_state \/ OutOfIntervals \/ \E op \in Ops : InLegalSlot(op) \/ InForcedSlot(op)
             \/ Scheduled \/ UNCHANGED schedVars
    <2>1. ii' = ii /\ (phase \in {"limit", "search"} => phase' = phase /\ uplim' = uplim)
          /\ (phase \notin {"limit", "search"} => phase' \notin {"limit", "search"})
      BY <1>7 DEF init_sched_state, OutOfIntervals, InLegalSlot, InForcedSlot, Scheduling, Scheduled, schedVars,
                  searchVars
    <2> QED BY <1>1, <2>1 DEF SelfInv
  <1> QED BY <1>2, <1>3, <1>4, <1>5, <1>6, <1>7 DEF SchedStep, Ended

\* All of it.
FullInv == AttemptInv /\ StartInv /\ SelfInv /\ TypesInv

\* The invariant holds throughout.
LEMMA FullInvInductive == FullInv /\ [SchedStep \/ Ended]_schedVars => FullInv'
  <1>1. AttemptInv => SchedInv
    BY DEF AttemptInv
  <1> QED BY <1>1, AttemptInvInductive, StartInvInductive, SelfInvInductive, TypesInvInductive DEF FullInv

\* It holds before the search for the interval.
LEMMA FullInvStarts == SchedInit => FullInv
  <1> SUFFICES ASSUME SchedInit PROVE FullInv
    OBVIOUS
  <1>1. AttemptInv /\ StartInv /\ SelfInv
    BY DEF SchedInit, AttemptInv, StartInv, SelfInv, SchedInv, DependencesHold, Attempting
  <1>2. TypesInv
    BY DEF SchedInit, TypesInv
  <1> QED BY <1>1, <1>2 DEF FullInv

\* The types of the scheduler, with distances, priorities and epilogue counts
\* that are numbers however the dependences run.
THEOREM SchedTypeAlways == SchedSpec => []SchedTypeOK
  <1>1. FullInv => SchedTypeOK
    BY LoopAssumption DEF FullInv, AttemptInv, SchedInv, TypesInv, SchedTypeOK
  <1> QED BY <1>1, FullInvStarts, FullInvInductive, PTL DEF SchedSpec

-----------------------------------------------------------------------------
\* The search for the interval finds the least one.

\* Times that meet the dependences at an interval.
Meets(t, i) == \A e \in loop.edges : t[e.dst] - t[e.src] >= e.lat - i * e.omega

\* Going by one of the nodes 1..m is no way to a longer distance.
Triangle(d, m) == \A v \in 1..m : \A u, w :
    <<u, v>> \in DOMAIN d /\ <<v, w>> \in DOMAIN d =>
        <<u, w>> \in DOMAIN d /\ d[<<u, w>>] >= d[<<u, v>>] + d[<<v, w>>]

\* Floyd's step, as long as no circuit is positive.
LEMMA TriangleStep ==
  ASSUME NEW d \in Distances, NEW m \in PathEnds, Triangle(d, m - 1),
         \A x : <<x, x>> \in DOMAIN Through(d, m) => Through(d, m)[<<x, x>>] <= 0
  PROVE  Triangle(Through(d, m), m)
  <1>1. PICK B : B = Through(d, m)
    OBVIOUS
  <1>2. B \in Distances
    BY <1>1, ThroughIs
  <1>3. \A u, v : <<u, v>> \in DOMAIN d =>
            <<u, v>> \in DOMAIN B /\ B[<<u, v>>] >= d[<<u, v>>] /\ d[<<u, v>>] \in Int /\ B[<<u, v>>] \in Int
    BY <1>1, <1>2, ThroughIs, DistanceType
  <1>4. ASSUME NEW u, NEW w, <<u, m>> \in DOMAIN d, <<m, w>> \in DOMAIN d
        PROVE  /\ <<u, w>> \in DOMAIN B /\ B[<<u, w>>] >= d[<<u, m>>] + d[<<m, w>>]
               /\ B[<<u, w>>] \in Int
    <2>1. CASE u # m /\ w # m
      <3>1. <<u, w>> \in DOMAIN B /\ B[<<u, w>>] >= d[<<u, m>>] + d[<<m, w>>]
        BY <1>1, <1>4, <2>1, ThroughIs
      <3> QED BY <1>2, <3>1, DistanceType
    <2>2. CASE u = m
      <3>1. PICK x, y, b, z : x = d[<<u, m>>] /\ y = d[<<m, w>>] /\ b = B[<<u, w>>] /\ z = B[<<m, m>>]
        OBVIOUS
      <3>2. x \in Int /\ y \in Int /\ b \in Int /\ z \in Int /\ b >= y /\ z >= x /\ <<u, w>> \in DOMAIN B
        BY <1>3, <1>4, <2>2, <3>1
      <3>3. z <= 0
        BY <1>1, <1>3, <1>4, <2>2, <3>1
      <3>4. b >= x + y
        BY <3>2, <3>3
      <3> QED BY <3>1, <3>2, <3>4
    <2>3. CASE w = m
      <3>1. PICK x, y, b, z : x = d[<<u, m>>] /\ y = d[<<m, w>>] /\ b = B[<<u, w>>] /\ z = B[<<m, m>>]
        OBVIOUS
      <3>2. x \in Int /\ y \in Int /\ b \in Int /\ z \in Int /\ b >= x /\ z >= y /\ <<u, w>> \in DOMAIN B
        BY <1>3, <1>4, <2>3, <3>1
      <3>3. z <= 0
        BY <1>1, <1>3, <1>4, <2>3, <3>1
      <3>4. b >= x + y
        BY <3>2, <3>3
      <3> QED BY <3>1, <3>2, <3>4
    <2> QED BY <2>1, <2>2, <2>3
  <1>5. ASSUME NEW u, NEW v, <<u, v>> \in DOMAIN B
        PROVE  \/ <<u, v>> \in DOMAIN d /\ B[<<u, v>>] = d[<<u, v>>]
               \/ /\ u # m /\ v # m /\ <<u, m>> \in DOMAIN d /\ <<m, v>> \in DOMAIN d
                  /\ B[<<u, v>>] = d[<<u, m>>] + d[<<m, v>>]
    BY <1>1, <1>5, ThroughIs
  <1>6. ASSUME NEW v \in 1..m, NEW u, NEW w, <<u, v>> \in DOMAIN B, <<v, w>> \in DOMAIN B
        PROVE  <<u, w>> \in DOMAIN B /\ B[<<u, w>>] >= B[<<u, v>>] + B[<<v, w>>]
    <2>1. CASE v = m
      BY <1>4, <1>5, <1>6, <2>1
    <2>2. CASE v # m
      <3>0. v \in 1..(m - 1)
        BY <2>2 DEF PathEnds
      <3>1. \A x, y : <<x, v>> \in DOMAIN d /\ <<v, y>> \in DOMAIN d =>
                <<x, y>> \in DOMAIN d /\ d[<<x, y>>] >= d[<<x, v>>] + d[<<v, y>>]
        BY <3>0 DEF Triangle
      <3>2. CASE <<u, v>> \in DOMAIN d /\ B[<<u, v>>] = d[<<u, v>>]
        <4>1. CASE <<v, w>> \in DOMAIN d /\ B[<<v, w>>] = d[<<v, w>>]
          <5>1. <<u, w>> \in DOMAIN d /\ d[<<u, w>>] >= d[<<u, v>>] + d[<<v, w>>]
            BY <3>1, <3>2, <4>1
          <5>2. PICK x, y, z, b : x = d[<<u, v>>] /\ y = d[<<v, w>>] /\ z = d[<<u, w>>] /\ b = B[<<u, w>>]
            OBVIOUS
          <5>3. <<u, w>> \in DOMAIN B /\ x \in Int /\ y \in Int /\ z \in Int /\ b \in Int /\ z >= x + y /\ b >= z
            BY <1>3, <3>2, <4>1, <5>1, <5>2
          <5>4. b >= x + y
            BY <5>3
          <5> QED BY <3>2, <4>1, <5>2, <5>3, <5>4
        <4>2. CASE /\ <<v, m>> \in DOMAIN d /\ <<m, w>> \in DOMAIN d
                   /\ B[<<v, w>>] = d[<<v, m>>] + d[<<m, w>>]
          <5>1. <<u, m>> \in DOMAIN d /\ d[<<u, m>>] >= d[<<u, v>>] + d[<<v, m>>]
            BY <3>1, <3>2, <4>2
          <5>2. PICK x, y, z, b, q : x = d[<<u, v>>] /\ y = d[<<v, m>>] /\ z = d[<<m, w>>] /\ b = B[<<u, w>>]
                                     /\ q = d[<<u, m>>]
            OBVIOUS
          <5>3. <<u, w>> \in DOMAIN B /\ x \in Int /\ y \in Int /\ z \in Int /\ b \in Int /\ q \in Int /\ q >= x + y
                /\ b >= q + z
            BY <1>3, <1>4, <3>2, <4>2, <5>1, <5>2
          <5>4. b >= x + (y + z)
            BY <5>3
          <5> QED BY <3>2, <4>2, <5>2, <5>3, <5>4
        <4> QED BY <1>5, <1>6, <4>1, <4>2
      <3>3. CASE /\ <<u, m>> \in DOMAIN d /\ <<m, v>> \in DOMAIN d
                 /\ B[<<u, v>>] = d[<<u, m>>] + d[<<m, v>>]
        <4>1. CASE <<v, w>> \in DOMAIN d /\ B[<<v, w>>] = d[<<v, w>>]
          <5>1. <<m, w>> \in DOMAIN d /\ d[<<m, w>>] >= d[<<m, v>>] + d[<<v, w>>]
            BY <3>1, <3>3, <4>1
          <5>2. PICK x, y, z, b, q : x = d[<<u, m>>] /\ y = d[<<m, v>>] /\ z = d[<<v, w>>] /\ b = B[<<u, w>>]
                                     /\ q = d[<<m, w>>]
            OBVIOUS
          <5>3. <<u, w>> \in DOMAIN B /\ x \in Int /\ y \in Int /\ z \in Int /\ b \in Int /\ q \in Int /\ q >= y + z
                /\ b >= x + q
            BY <1>3, <1>4, <3>3, <4>1, <5>1, <5>2
          <5>4. b >= (x + y) + z
            BY <5>3
          <5> QED BY <3>3, <4>1, <5>2, <5>3, <5>4
        <4>2. CASE /\ <<v, m>> \in DOMAIN d /\ <<m, w>> \in DOMAIN d
                   /\ B[<<v, w>>] = d[<<v, m>>] + d[<<m, w>>]
          <5>1. <<m, m>> \in DOMAIN d /\ d[<<m, m>>] >= d[<<m, v>>] + d[<<v, m>>]
            BY <3>1, <3>3, <4>2
          <5>2. PICK x, y, z, r, b, q, p : x = d[<<u, m>>] /\ y = d[<<m, v>>] /\ z = d[<<v, m>>] /\ r = d[<<m, w>>]
                                     /\ b = B[<<u, w>>] /\ q = d[<<m, m>>] /\ p = B[<<m, m>>]
            OBVIOUS
          <5>3. x \in Int /\ y \in Int /\ z \in Int /\ r \in Int /\ q \in Int /\ p \in Int
                /\ q >= y + z /\ p >= q
            BY <1>3, <3>3, <4>2, <5>1, <5>2
          <5>4. <<u, w>> \in DOMAIN B /\ b \in Int /\ b >= x + r
            BY <1>4, <3>3, <4>2, <5>2
          <5>5. p <= 0
            BY <1>1, <1>3, <5>1, <5>2
          <5>6. b >= (x + y) + (z + r)
            BY <5>3, <5>4, <5>5
          <5> QED BY <3>3, <4>2, <5>2, <5>4, <5>6
        <4> QED BY <1>5, <1>6, <4>1, <4>2
      <3> QED BY <1>5, <1>6, <3>2, <3>3
    <2> QED BY <2>1, <2>2
  <1> QED BY <1>1, <1>6 DEF Triangle

\* Without a positive circuit, no detour is longer.
LEMMA TriangleHolds ==
  ASSUME loop \in LOOPS, NEW i \in Nat, ~failFloyd(i)
  PROVE  Triangle(MinDist(i), N + 2)
  <1>1. PICK f : Tries(f, i) /\ MinDist(i) = f[N + 2]
    BY MinDistIs
  <1>2. \A x : <<x, x>> \in DOMAIN f[N + 2] => f[N + 2][<<x, x>>] <= 0
    <2>1. \A x \in PathEnds : ~(<<x, x>> \in DOMAIN f[N + 2] /\ f[N + 2][<<x, x>>] > 0)
      BY <1>1, Zenon DEF failFloyd
    <2>2. f[N + 2] \in Distances
      BY <1>1, MinDistType
    <2>3. ASSUME NEW x, <<x, x>> \in DOMAIN f[N + 2] PROVE f[N + 2][<<x, x>>] <= 0
      <3>1. x \in PathEnds /\ f[N + 2][<<x, x>>] \in Int
        BY <2>2, <2>3, DistanceType
      <3> QED BY <2>1, <2>3, <3>1
    <2> QED BY <2>3
  <1> DEFINE Done == {n \in 0..(N + 2) : Triangle(f[n], n)}
  <1>3. N + 2 \in Nat
    BY LoopAssumption
  <1>4. 0 \in Done
    BY <1>3 DEF Triangle
  <1>5. ASSUME NEW n \in 0..(N + 2) - 1, n \in Done PROVE n + 1 \in Done
    <2>1. /\ n + 1 \in 0..(N + 2) /\ n + 1 \in PathEnds /\ f[n] \in Distances /\ f[n + 1] \in Distances
          /\ f[n + 1] = Through(f[n], n + 1)
      BY <1>1, NextTried
    <2>2. Triangle(f[n], n) /\ n + 1 - 1 = n
      BY <1>5
    <2>3. ASSUME NEW x, <<x, x>> \in DOMAIN f[n + 1] PROVE f[n + 1][<<x, x>>] <= 0
      <3>1. <<x, x>> \in DOMAIN f[N + 2] /\ f[N + 2][<<x, x>>] >= f[n + 1][<<x, x>>]
        BY <1>1, <2>1, <2>3, DistancesGrow
      <3>2. PICK y, z : y = f[n + 1][<<x, x>>] /\ z = f[N + 2][<<x, x>>]
        OBVIOUS
      <3>3. y \in Int /\ z \in Int /\ z <= 0 /\ z >= y
        <4>1. f[N + 2] \in Distances
          BY <1>1, MinDistType
        <4> QED BY <1>2, <2>1, <2>3, <3>1, <3>2, <4>1, DistanceType
      <3>4. y <= 0
        BY <3>3
      <3> QED BY <3>2, <3>4
    <2>4. Triangle(f[n], n + 1 - 1)
      BY <2>2
    <2>5. Triangle(f[n + 1], n + 1)
      BY <2>1, <2>3, <2>4, TriangleStep
    <2> QED BY <2>1, <2>5
  <1> HIDE DEF Done
  <1>6. N + 2 \in Done
    <2>1. \A n \in 0..(N + 2) : n \in Done
      BY <1>3, <1>4, <1>5, UpTo
    <2> QED BY <1>3, <2>1
  <1> QED BY <1>1, <1>6 DEF Done

\* Times that meet the dependences are as far apart as the longest path.
LEMMA PathsFit ==
  ASSUME loop \in LOOPS, NEW i \in Nat, NEW t \in [Nodes -> Int], Meets(t, i)
  PROVE  /\ \A v : <<Stop, v>> \notin DOMAIN MinDist(i)
         /\ \A u, v \in Nodes : <<u, v>> \in DOMAIN MinDist(i) => t[v] - t[u] >= MinDist(i)[<<u, v>>]
  <1>1. PICK f : Tries(f, i) /\ MinDist(i) = f[N + 2]
    BY MinDistIs
  <1> DEFINE Fit(n) == /\ \A v : <<Stop, v>> \notin DOMAIN f[n]
                       /\ \A u, v \in Nodes : <<u, v>> \in DOMAIN f[n] => t[v] - t[u] >= f[n][<<u, v>>]
             Done == {n \in 0..(N + 2) : Fit(n)}
  <1>2. N + 2 \in Nat /\ f[0] = Direct(i)
    BY <1>1, LoopAssumption DEF Tries
  <1>3. Fit(0)
    <2>1. \A v : <<Stop, v>> \notin DOMAIN f[0]
      BY <1>2, DirectType
    <2>2. ASSUME NEW u \in Nodes, NEW v \in Nodes, <<u, v>> \in DOMAIN f[0]
          PROVE  t[v] - t[u] >= f[0][<<u, v>>]
      <3>1. PICK e \in loop.edges : u = e.src /\ v = e.dst /\ f[0][<<u, v>>] = e.lat - i * e.omega
        BY <1>2, <2>2, DirectType
      <3> QED BY <3>1 DEF Meets
    <2> QED BY <2>1, <2>2
  <1>4. ASSUME NEW n \in 0..(N + 2) - 1, n \in Done PROVE n + 1 \in Done
    <2>1. /\ n + 1 \in 0..(N + 2) /\ n + 1 \in PathEnds /\ f[n] \in Distances /\ f[n + 1] \in Distances
          /\ f[n + 1] = Through(f[n], n + 1)
      BY <1>1, NextTried
    <2>2. PICK m : m = n + 1
      OBVIOUS
    <2>3. Fit(n)
      BY <1>4
    <2>4. ASSUME NEW u, NEW v, <<u, v>> \in DOMAIN f[n + 1]
          PROVE  \/ <<u, v>> \in DOMAIN f[n] /\ f[n + 1][<<u, v>>] = f[n][<<u, v>>]
                 \/ /\ <<u, m>> \in DOMAIN f[n] /\ <<m, v>> \in DOMAIN f[n]
                    /\ f[n + 1][<<u, v>>] = f[n][<<u, m>>] + f[n][<<m, v>>]
      BY <2>1, <2>2, <2>4, ThroughIs
    <2>5. \A v : <<Stop, v>> \notin DOMAIN f[n + 1]
      BY <2>3, <2>4
    <2>6. ASSUME NEW u \in Nodes, NEW v \in Nodes, <<u, v>> \in DOMAIN f[n + 1]
          PROVE  t[v] - t[u] >= f[n + 1][<<u, v>>]
      <3>1. CASE <<u, v>> \in DOMAIN f[n] /\ f[n + 1][<<u, v>>] = f[n][<<u, v>>]
        BY <2>3, <3>1
      <3>2. CASE /\ <<u, m>> \in DOMAIN f[n] /\ <<m, v>> \in DOMAIN f[n]
                 /\ f[n + 1][<<u, v>>] = f[n][<<u, m>>] + f[n][<<m, v>>]
        <4>1. m \in Nodes
          <5>1. m # Stop
            BY <2>3, <3>2
          <5> QED BY <2>1, <2>2, <5>1, LoopAssumption DEF Nodes, PathEnds, Stop
        <4>2. PICK x, y : x = f[n][<<u, m>>] /\ y = f[n][<<m, v>>]
          OBVIOUS
        <4>3. x \in Int /\ y \in Int /\ t[m] - t[u] >= x /\ t[v] - t[m] >= y
          BY <2>1, <2>3, <3>2, <4>1, <4>2, DistanceType
        <4>4. t[u] \in Int /\ t[v] \in Int /\ t[m] \in Int
          BY <4>1
        <4>5. t[v] - t[u] >= x + y
          BY <4>3, <4>4
        <4> QED BY <3>2, <4>2, <4>5
      <3> QED BY <2>4, <2>6, <3>1, <3>2
    <2> QED BY <2>1, <2>5, <2>6
  <1> HIDE DEF Fit
  <1>5. N + 2 \in Done
    <2>1. 0 \in Done
      BY <1>2, <1>3
    <2> HIDE DEF Done
    <2>2. \A n \in 0..(N + 2) : n \in Done
      BY <1>2, <1>4, <2>1, UpTo
    <2> QED BY <1>2, <2>2
  <1> QED BY <1>1, <1>5 DEF Fit

\* If some times meet the dependences, there is no positive circuit.
LEMMA MetHasNoCircuit ==
  ASSUME loop \in LOOPS, NEW i \in Nat, NEW t \in [Nodes -> Int], Meets(t, i)
  PROVE  ~failFloyd(i)
  <1>1. PICK d : d = MinDist(i)
    OBVIOUS
  <1>2. ASSUME NEW x \in PathEnds, <<x, x>> \in DOMAIN d PROVE ~(d[<<x, x>>] > 0)
    <2>1. x # Stop
      BY <1>1, <1>2, PathsFit
    <2>2. x \in Nodes
      BY <2>1, LoopAssumption DEF Nodes, PathEnds, Stop
    <2>3. t[x] - t[x] >= d[<<x, x>>] /\ t[x] \in Int
      BY <1>1, <1>2, <2>2, PathsFit
    <2>4. d[<<x, x>>] \in Int
      BY <1>1, <1>2, MinDistType, DistanceType
    <2> QED BY <2>3, <2>4
  <1> QED BY <1>1, <1>2, Zenon DEF failFloyd

\* The earliest times: each node as late as the longest path to it asks for.
LEMMA EarliestMeets ==
  ASSUME loop \in LOOPS, NEW i \in Nat, ~failFloyd(i)
  PROVE  \E t \in [Nodes -> Nat] : Meets(t, i)
  <1>1. PICK d : d = MinDist(i)
    OBVIOUS
  <1>2. d \in Distances /\ Triangle(d, N + 2)
    BY <1>1, MinDistType, TriangleHolds
  <1> DEFINE From(v) == {u \in Nodes : <<u, v>> \in DOMAIN d}
             Starts(v) == {0} \cup {d[<<u, v>>] : u \in From(v)}
             t == [v \in Nodes |-> Max(Starts(v))]
  <1>3. ASSUME NEW v \in Nodes
        PROVE  /\ Max(Starts(v)) \in Nat /\ Max(Starts(v)) \in Starts(v)
               /\ \A u \in From(v) : Max(Starts(v)) >= d[<<u, v>>]
    <2>1. IsFiniteSet(From(v))
      <3>1. IsFiniteSet(Nodes)
        BY LoopAssumption, FS_Interval DEF Nodes
      <3> QED BY <3>1, FS_Subset
    <2>2. IsFiniteSet({d[<<u, v>>] : u \in From(v)})
      <3> DEFINE g == [u \in From(v) |-> d[<<u, v>>]]
      <3>1. DOMAIN g = From(v) /\ {d[<<u, v>>] : u \in From(v)} = {g[u] : u \in From(v)}
        OBVIOUS
      <3> HIDE DEF From, g
      <3> QED BY <2>1, <3>1, ImageFinite
    <2>3. \A u \in From(v) : d[<<u, v>>] \in Int
      BY <1>2, DistanceType
    <2>4. Starts(v) \in SUBSET Int /\ 0 \in Starts(v) /\ \A u \in From(v) : d[<<u, v>>] \in Starts(v)
      <3> HIDE DEF From
      <3>1. \A y \in {d[<<u, v>>] : u \in From(v)} : y \in Int
        BY <2>3
      <3>2. \A u \in From(v) : d[<<u, v>>] \in {d[<<s, v>>] : s \in From(v)}
        OBVIOUS
      <3> QED BY <3>1, <3>2
    <2>5. IsFiniteSet(Starts(v))
      <3> HIDE DEF From
      <3>1. {0} \cup {d[<<u, v>>] : u \in From(v)} = {d[<<u, v>>] : u \in From(v)} \cup {0}
        OBVIOUS
      <3> QED BY <2>2, <3>1, FS_AddElement
    <2> HIDE DEF Starts, From
    <2>6. PICK T : T = Starts(v)
      OBVIOUS
    <2>7. Max(T) \in T /\ Max(T) \in Int /\ \A y \in T : Max(T) >= y
      BY <2>4, <2>5, <2>6, MaxIs
    <2>8. Max(T) \in Nat
      BY <2>4, <2>6, <2>7
    <2> QED BY <2>4, <2>6, <2>7, <2>8
  <1>4. t \in [Nodes -> Nat] /\ \A v \in Nodes : t[v] = Max(Starts(v))
    BY <1>3
  <1>5. ASSUME NEW e \in loop.edges
        PROVE  t[e.dst] - t[e.src] >= e.lat - i * e.omega
    <2>1. e.src \in Nodes /\ e.dst \in Nodes /\ e.lat - i * e.omega \in Int
      <3>1. e.src \in Nodes /\ e.dst \in Nodes /\ e.lat \in Int /\ e.omega \in Nat
        BY EdgeType
      <3> QED BY <3>1
    <2>2. PICK u, v, w : u = e.src /\ v = e.dst /\ w = e.lat - i * e.omega
      OBVIOUS
    <2>3. <<u, v>> \in DOMAIN d /\ d[<<u, v>>] \in Int /\ d[<<u, v>>] >= w
      <3>1. /\ <<u, v>> \in DOMAIN Direct(i) /\ Direct(i)[<<u, v>>] >= w /\ Direct(i)[<<u, v>>] \in Int
            /\ <<u, v>> \in DOMAIN d /\ d[<<u, v>>] >= Direct(i)[<<u, v>>] /\ d[<<u, v>>] \in Int
        BY <1>1, <2>2, DirectType, MinDistType, DistanceType
      <3> QED BY <2>1, <2>2, <3>1
    <2>4. t[v] >= d[<<u, v>>] /\ t[u] \in Nat /\ t[v] \in Nat /\ t[u] \in Starts(u)
      <3>1. u \in From(v)
        BY <2>1, <2>2, <2>3
      <3> HIDE DEF Starts, From, t
      <3> QED BY <1>3, <1>4, <2>1, <2>2, <3>1
    <2>5. CASE t[u] = 0
      <3>1. PICK x, y : x = t[v] /\ y = d[<<u, v>>]
        OBVIOUS
      <3> HIDE DEF t
      <3>2. x \in Nat /\ y \in Int /\ w \in Int /\ x >= y /\ y >= w
        BY <2>1, <2>2, <2>3, <2>4, <3>1
      <3>3. x - 0 >= w
        BY <3>2
      <3> QED BY <2>2, <2>5, <3>1, <3>3
    <2>6. CASE \E s \in From(u) : t[u] = d[<<s, u>>]
      <3>1. PICK s \in Nodes : <<s, u>> \in DOMAIN d /\ t[u] = d[<<s, u>>]
        BY <2>6
      <3>2. <<s, v>> \in DOMAIN d /\ d[<<s, v>>] >= d[<<s, u>>] + d[<<u, v>>] /\ d[<<s, v>>] \in Int
        <4>1. u \in 1..(N + 2)
          BY <2>1, <2>2, LoopAssumption DEF Nodes
        <4>2. <<s, v>> \in DOMAIN d /\ d[<<s, v>>] >= d[<<s, u>>] + d[<<u, v>>]
          BY <1>2, <2>3, <3>1, <4>1, Zenon DEF Triangle
        <4> QED BY <1>2, <4>2, DistanceType
      <3>3. t[v] >= d[<<s, v>>]
        <4>1. s \in From(v)
          BY <3>1, <3>2
        <4> HIDE DEF Starts, From, t
        <4> QED BY <1>3, <1>4, <2>1, <2>2, <4>1
      <3>4. PICK x, y, a, b : x = t[v] /\ y = t[u] /\ a = d[<<u, v>>] /\ b = d[<<s, v>>]
        OBVIOUS
      <3> HIDE DEF t, From, Starts
      <3>5. x \in Nat /\ y \in Nat /\ a \in Int /\ b \in Int /\ w \in Int /\ x >= b /\ b >= y + a /\ a >= w
        BY <2>1, <2>2, <2>3, <2>4, <3>1, <3>2, <3>3, <3>4
      <3>6. x - y >= w
        BY <3>5
      <3> QED BY <2>2, <3>4, <3>6
    <2> HIDE DEF t
    <2> QED BY <2>4, <2>5, <2>6
  <1> HIDE DEF t
  <1> QED BY <1>4, <1>5 DEF Meets

\* Some times, however far apart, meet the dependences.
CanMeet(i) == \E t \in [Nodes -> Int] : Meets(t, i)

\* failFloyd finds out whether an interval is too short.
LEMMA FailsIfTooShort ==
  ASSUME loop \in LOOPS, NEW i \in Nat
  PROVE  failFloyd(i) <=> ~CanMeet(i)
  <1>1. ASSUME CanMeet(i) PROVE ~failFloyd(i)
    <2>1. PICK t \in [Nodes -> Int] : Meets(t, i)
      BY <1>1 DEF CanMeet
    <2> QED BY <2>1, MetHasNoCircuit
  <1>2. ASSUME ~failFloyd(i) PROVE CanMeet(i)
    <2>1. PICK t \in [Nodes -> Nat] : Meets(t, i)
      BY <1>2, EarliestMeets
    <2>2. t \in [Nodes -> Int]
      OBVIOUS
    <2> QED BY <2>1, <2>2 DEF CanMeet
  <1> QED BY <1>1, <1>2

\* No latency is longer than the longest.
LEMMA LongestIs ==
  ASSUME loop \in LOOPS
  PROVE  LongestLatency \in Nat /\ \A e \in loop.edges : e.lat <= LongestLatency
  <1> DEFINE Lats == {e.lat : e \in loop.edges}
  <1>1. IsFiniteSet(Lats)
    <2> DEFINE g == [e \in loop.edges |-> e.lat]
    <2>1. DOMAIN g = loop.edges /\ Lats = {g[e] : e \in loop.edges} /\ IsFiniteSet(loop.edges)
      BY LoopAssumption
    <2> HIDE DEF g, Lats
    <2> QED BY <2>1, ImageFinite
  <1>2. Lats \in SUBSET Int /\ \A e \in loop.edges : e.lat \in Lats
    BY EdgeType
  <1> HIDE DEF Lats
  <1>3. PICK T : T = {0} \cup Lats
    OBVIOUS
  <1>4. T \in SUBSET Int /\ T # {} /\ IsFiniteSet(T)
    <2>1. T = Lats \cup {0}
      BY <1>3
    <2> QED BY <1>1, <1>2, <2>1, FS_AddElement
  <1>5. Max(T) \in Int /\ \A y \in T : Max(T) >= y
    BY <1>4, MaxIs
  <1>6. LongestLatency = Max(T)
    BY <1>3 DEF LongestLatency, Lats
  <1>7. Max(T) >= 0 /\ \A e \in loop.edges : Max(T) >= e.lat
    BY <1>2, <1>3, <1>5
  <1> QED BY <1>2, <1>5, <1>6, <1>7

\* Where no time lies in a stretch as long as the longest latency, what comes
\* after it can come a cycle earlier.
LEMMA GapCloses ==
  ASSUME loop \in LOOPS, NEW i \in Nat, NEW h \in Nat, NEW t \in [Nodes -> 0..h], Meets(t, i), NEW c \in Int,
         c + LongestLatency >= 0, c + LongestLatency < h,
         \A v \in Nodes : t[v] <= c \/ t[v] > c + LongestLatency
  PROVE  \E s \in [Nodes -> 0..(h - 1)] : Meets(s, i)
  <1>1. PICK L \in Nat : L = LongestLatency
    BY LongestIs
  <1> DEFINE s == [v \in Nodes |-> IF t[v] > c + L THEN t[v] - 1 ELSE t[v]]
  <1>2. s \in [Nodes -> 0..(h - 1)]
    <2>1. ASSUME NEW v \in Nodes PROVE (IF t[v] > c + L THEN t[v] - 1 ELSE t[v]) \in 0..(h - 1)
      <3>1. t[v] \in 0..h /\ (t[v] <= c \/ t[v] > c + L) /\ c + L >= 0 /\ c + L < h
        BY <1>1
      <3> QED BY <3>1
    <2> QED BY <2>1
  <1>3. ASSUME NEW e \in loop.edges
        PROVE  s[e.dst] - s[e.src] >= e.lat - i * e.omega
    <2>1. e.src \in Nodes /\ e.dst \in Nodes /\ e.lat \in Int /\ e.omega \in Nat /\ e.lat <= L
      BY <1>1, EdgeType, LongestIs
    <2>2. PICK x, y, w : x = t[e.dst] /\ y = t[e.src] /\ w = e.lat - i * e.omega
      OBVIOUS
    <2>3. w \in Int /\ w <= L
      <3>1. i * e.omega \in Nat
        BY <2>1
      <3> QED BY <2>1, <2>2, <3>1
    <2>4. x \in 0..h /\ y \in 0..h /\ x - y >= w
      BY <2>1, <2>2 DEF Meets
    <2>5. (x <= c \/ x > c + L) /\ (y <= c \/ y > c + L)
      BY <1>1, <2>1, <2>2
    <2>6. /\ s[e.dst] = IF x > c + L THEN x - 1 ELSE x
          /\ s[e.src] = IF y > c + L THEN y - 1 ELSE y
      BY <2>1, <2>2
    <2> HIDE DEF s
    <2>7. s[e.dst] - s[e.src] >= w
      BY <2>3, <2>4, <2>5, <2>6
    <2> QED BY <2>2, <2>7
  <1> HIDE DEF s
  <1> QED BY <1>2, <1>3 DEF Meets

\* A product grows with a factor.
LEMMA ProductGrows ==
  ASSUME NEW j \in Nat, NEW k \in Nat, j <= k, NEW L \in Nat
  PROVE  j * L \in Nat /\ k * L \in Nat /\ j * L <= k * L
  <1>1. PICK x \in Nat : k = j + x
    <2>1. k - j \in Nat
      OBVIOUS
    <2> QED BY <2>1
  <1>2. k * L = j * L + x * L /\ j * L \in Nat /\ x * L \in Nat
    BY <1>1
  <1> QED BY <1>2

\* There are too few nodes to leave no such stretch.
LEMMA TimesShrink ==
  ASSUME loop \in LOOPS, NEW i \in Nat, NEW h \in Nat, h > N * LongestLatency,
         NEW t \in [Nodes -> 0..h], Meets(t, i)
  PROVE  \E s \in [Nodes -> 0..(h - 1)] : Meets(s, i)
  <1>0. PICK L \in Nat : L = LongestLatency
    BY LongestIs
  <1>1. N \in Nat /\ N > 0 /\ N * L \in Nat /\ h > N * L
    BY <1>0, LoopAssumption
  <1> DEFINE Band(k) == {v \in Nodes : \/ k = 0 /\ t[v] = 0
                                       \/ k \in 1..N /\ t[v] > (k - 1) * L /\ t[v] <= k * L
                                       \/ k = N + 1 /\ t[v] = h}
  <1>2. \A v \in Nodes : t[v] \in 0..h
    OBVIOUS
  <1>3. ASSUME NEW j \in 0..(N + 1), NEW k \in 0..(N + 1), j < k, NEW v \in Band(j), v \in Band(k)
        PROVE  FALSE
    <2>1. PICK x \in 0..h : x = t[v]
      BY <1>2
    <2>2. k = N + 1 \/ (k \in 1..N /\ x > (k - 1) * L)
      BY <1>1, <1>3, <2>1
    <2>3. (j = 0 /\ x = 0) \/ (j \in 1..N /\ x <= j * L)
      BY <1>1, <1>3, <2>1
    <2>4. k = N + 1 => x = h
      BY <1>1, <1>3, <2>1
    <2>5. CASE j = 0 /\ x = 0
      <3>1. k \in 1..N => (k - 1) * L \in Nat
        BY ProductGrows
      <3> QED BY <1>1, <2>2, <2>4, <2>5, <3>1
    <2>6. CASE j \in 1..N /\ x <= j * L /\ k = N + 1
      <3>1. j * L <= N * L /\ j * L \in Nat
        BY <1>1, <2>6, ProductGrows
      <3> QED BY <1>1, <2>4, <2>6, <3>1
    <2>7. CASE j \in 1..N /\ x <= j * L /\ k \in 1..N /\ x > (k - 1) * L
      <3>1. j * L <= (k - 1) * L /\ j * L \in Nat /\ (k - 1) * L \in Nat
        <4>1. k - 1 \in Nat /\ j <= k - 1 /\ j \in Nat
          BY <1>3, <2>7
        <4> QED BY <4>1, ProductGrows
      <3> QED BY <2>1, <2>7, <3>1
    <2> QED BY <2>2, <2>3, <2>5, <2>6, <2>7
  <1>4. PICK k \in 0..(N + 1) : Band(k) = {}
    <2> SUFFICES ASSUME \A k \in 0..(N + 1) : Band(k) # {} PROVE FALSE
      OBVIOUS
    <2> DEFINE g == [k \in 0..(N + 1) |-> CHOOSE v \in Nodes : v \in Band(k)]
    <2>1. \A k \in 0..(N + 1) : g[k] \in Nodes /\ g[k] \in Band(k)
      <3>1. \A k \in 0..(N + 1) : \E v \in Nodes : v \in Band(k)
        OBVIOUS
      <3> HIDE DEF Band
      <3> QED BY <3>1
    <2>2. g \in [0..(N + 1) -> Nodes]
      BY <2>1
    <2>3. IsFiniteSet(Nodes) /\ Cardinality(Nodes) = N + 1
      BY <1>1, FS_Interval DEF Nodes
    <2>4. IsFiniteSet(0..(N + 1)) /\ Cardinality(0..(N + 1)) = N + 2
      BY <1>1, FS_Interval
    <2> HIDE DEF g, Band
    <2>5. PICK j, k \in 0..(N + 1) : j # k /\ g[j] = g[k]
      <3>1. Cardinality(Nodes) < Cardinality(0..(N + 1))
        BY <1>1, <2>3, <2>4
      <3> QED BY <2>2, <2>3, <2>4, <3>1, FS_PigeonHole
    <2>6. j < k \/ k < j
      BY <1>1, <2>5
    <2> QED BY <1>3, <2>1, <2>5, <2>6
  <1>5. CASE k = 0
    <2>1. \A v \in Nodes : t[v] <= -L \/ t[v] > -L + L
      BY <1>2, <1>4, <1>5
    <2>2. -L \in Int /\ -L + L >= 0 /\ -L + L < h
      BY <1>1
    <2> HIDE DEF Band
    <2> QED BY <1>0, <2>1, <2>2, GapCloses
  <1>6. CASE k \in 1..N
    <2>1. PICK c \in Nat : c = (k - 1) * L /\ c + L = k * L /\ k * L <= N * L
      <3>1. k - 1 \in Nat /\ k \in Nat /\ k <= N
        BY <1>6
      <3>2. k * L <= N * L
        BY <1>1, <3>1, ProductGrows
      <3>3. (k - 1) * L + L = k * L /\ (k - 1) * L \in Nat
        <4>1. PICK x \in Nat : x = k - 1 /\ k = x + 1
          BY <3>1
        <4>2. (x + 1) * L = x * L + L /\ x * L \in Nat
          OBVIOUS
        <4> QED BY <4>1, <4>2
      <3> QED BY <3>2, <3>3
    <2>2. \A v \in Nodes : t[v] <= c \/ t[v] > c + L
      <3> TAKE v \in Nodes
      <3>1. ~(t[v] > (k - 1) * L /\ t[v] <= k * L)
        BY <1>4, <1>6
      <3>2. PICK x \in 0..h : x = t[v]
        BY <1>2
      <3> HIDE DEF Band
      <3> QED BY <2>1, <3>1, <3>2
    <2>3. c \in Int /\ c + L >= 0 /\ c + L < h
      BY <1>1, <2>1
    <2> HIDE DEF Band
    <2> QED BY <1>0, <2>2, <2>3, GapCloses
  <1>7. CASE k = N + 1
    <2>1. \A v \in Nodes : t[v] \in 0..(h - 1)
      <3> TAKE v \in Nodes
      <3>1. t[v] # h
        BY <1>4, <1>7
      <3> HIDE DEF Band
      <3> QED BY <1>2, <3>1
    <2>2. t \in [Nodes -> 0..(h - 1)]
      BY <2>1
    <2> QED BY <2>2
  <1> QED BY <1>1, <1>4, <1>5, <1>6, <1>7

\* Times up to N times the longest latency are enough.
LEMMA FeasibleIs ==
  ASSUME loop \in LOOPS, NEW i \in Nat
  PROVE  Feasible(i) <=> CanMeet(i)
  <1>1. N * LongestLatency \in Nat
    BY LongestIs, LoopAssumption
  <1>2. ASSUME Feasible(i) PROVE CanMeet(i)
    <2>1. PICK t \in [Nodes -> 0..(N * LongestLatency)] : Meets(t, i)
      BY <1>2 DEF Feasible, Meets
    <2>2. t \in [Nodes -> Int]
      BY <1>1, <2>1
    <2> QED BY <2>1, <2>2 DEF CanMeet
  <1>3. ASSUME CanMeet(i) PROVE Feasible(i)
    <2>1. PICK t \in [Nodes -> Nat] : Meets(t, i)
      BY <1>3, FailsIfTooShort, EarliestMeets
    <2> DEFINE Enough == {h \in Nat : \E s \in [Nodes -> 0..h] : Meets(s, i)}
    <2>2. Enough # {}
      <3>1. IsFiniteSet({t[v] : v \in Nodes}) /\ {t[v] : v \in Nodes} \in SUBSET Int
        <4>1. IsFiniteSet(Nodes) /\ DOMAIN t = Nodes
          BY LoopAssumption, FS_Interval DEF Nodes
        <4> QED BY <4>1, ImageFinite
      <3>2. PICK h \in Nat : \A y \in {t[v] : v \in Nodes} : y <= h /\ -h <= y
        BY <3>1, FiniteBound
      <3>3. \A v \in Nodes : t[v] \in 0..h
        BY <3>2
      <3>4. t \in [Nodes -> 0..h]
        BY <3>3
      <3> QED BY <2>1, <3>4
    <2>3. PICK h \in Enough : \A k \in Enough : h <= k
      <3>1. Enough \in SUBSET Nat
        OBVIOUS
      <3> HIDE DEF Enough
      <3> QED BY <2>2, <3>1, LeastExists
    <2>4. PICK s \in [Nodes -> 0..h] : Meets(s, i)
      BY <2>3
    <2>5. ~(h > N * LongestLatency)
      <3> SUFFICES ASSUME h > N * LongestLatency PROVE FALSE
        OBVIOUS
      <3>1. \E r \in [Nodes -> 0..(h - 1)] : Meets(r, i)
        BY <2>4, TimesShrink
      <3>2. h - 1 \in Nat
        BY <1>1
      <3>3. h - 1 \in Enough
        BY <3>1, <3>2
      <3> QED BY <2>3, <3>2, <3>3
    <2>6. s \in [Nodes -> 0..(N * LongestLatency)]
      <3>1. h <= N * LongestLatency /\ h \in Nat
        BY <1>1, <2>5
      <3>2. \A x \in 0..h : x \in 0..(N * LongestLatency)
        BY <1>1, <3>1
      <3> QED BY <3>2
    <2> QED BY <2>4, <2>6 DEF Feasible, Meets
  <1> QED BY <1>2, <1>3

\* What the two searches know: everything below lowlim is too short, and from
\* the end of the first on, uplim is not.
LeastInv ==
    /\ lowlim <= uplim
    /\ lowlim = 1 \/ ~CanMeet(lowlim) \/ ~CanMeet(lowlim - 1)
    /\ phase # "limit" => CanMeet(uplim)
    /\ phase \notin {"limit", "search"} => lowlim = uplim

\* No step of the searches skips the least interval.
LEMMA LeastInvInductive ==
  SchedInv /\ LeastInv /\ [SchedStep \/ Ended]_schedVars => LeastInv'
  <1> SUFFICES ASSUME SchedInv, LeastInv, [SchedStep \/ Ended]_schedVars PROVE LeastInv'
    OBVIOUS
  <1>1. /\ loop \in LOOPS /\ uplim \in Nat /\ lowlim \in Nat /\ lowlim > 0 /\ uplim > 0
        /\ \A i : CanMeet(i)' <=> CanMeet(i)
    <2>1. loop' = loop
      BY DEF SchedStep, Ended, LimitTooLow, LimitFound, SearchStep, StartAtMII, init_sched_state, OutOfIntervals,
            InLegalSlot, InForcedSlot, Scheduling, Scheduled, BumpII, schedVars
    <2> QED BY <2>1 DEF SchedInv, CanMeet, Meets
  <1>2. CASE LimitTooLow
    <2>1. phase' = "limit" /\ lowlim' = uplim /\ uplim' = 2 * uplim /\ failFloyd(uplim)
      BY <1>2 DEF LimitTooLow
    <2>2. ~CanMeet(uplim)
      BY <1>1, <2>1, FailsIfTooShort
    <2>3. ~CanMeet(lowlim)'
      BY <1>1, <2>1, <2>2 DEF CanMeet, Meets
    <2>4. lowlim' <= uplim'
      BY <1>1, <2>1
    <2> QED BY <2>1, <2>3, <2>4 DEF LeastInv
  <1>3. CASE LimitFound
    <2>1. phase = "limit" /\ phase' = "search" /\ lowlim' = lowlim /\ uplim' = uplim /\ ~failFloyd(uplim)
      BY <1>3 DEF LimitFound, searchVars
    <2>2. CanMeet(uplim)
      BY <1>1, <2>1, FailsIfTooShort
    <2> QED BY <1>1, <2>1, <2>2 DEF LeastInv
  <1>4. CASE SearchStep
    <2>1. phase = "search" /\ phase' = "search" /\ uplim # lowlim
          /\ IF failFloyd(recmii) THEN lowlim' = recmii + 1 /\ uplim' = uplim
                                  ELSE uplim' = recmii /\ lowlim' = lowlim
      BY <1>4 DEF SearchStep
    <2>2. recmii \in Nat /\ lowlim <= recmii /\ recmii < uplim
      BY <1>1, <2>1 DEF recmii, LeastInv
    <2>3. CASE failFloyd(recmii)
      <3>1. ~CanMeet(recmii)
        BY <1>1, <2>2, <2>3, FailsIfTooShort
      <3>2. lowlim' = recmii + 1 /\ uplim' = uplim /\ lowlim' - 1 = recmii /\ lowlim' <= uplim'
        BY <1>1, <2>1, <2>2, <2>3
      <3>3. ~CanMeet(lowlim - 1)'
        BY <1>1, <3>1, <3>2
      <3> QED BY <1>1, <2>1, <3>2, <3>3 DEF LeastInv
    <2>4. CASE ~failFloyd(recmii)
      <3>1. CanMeet(recmii)
        BY <1>1, <2>2, <2>4, FailsIfTooShort
      <3>2. uplim' = recmii /\ lowlim' = lowlim /\ lowlim' <= uplim'
        BY <1>1, <2>1, <2>2, <2>4
      <3> QED BY <1>1, <2>1, <3>1, <3>2 DEF LeastInv
    <2> QED BY <2>3, <2>4
  <1>5. CASE StartAtMII
    <2>1. phase = "search" /\ uplim = lowlim /\ lowlim' = lowlim /\ uplim' = uplim
      BY <1>5 DEF StartAtMII, searchVars
    <2> QED BY <1>1, <2>1 DEF LeastInv
  <1>6. CASE \/ init_sched_state \/ OutOfIntervals \/ \E op \in Ops : InLegalSlot(op) \/ InForcedSlot(op)
             \/ Scheduled \/ BumpII \/ Ended \/ UNCHANGED schedVars
    <2>1. /\ lowlim' = lowlim /\ uplim' = uplim
          /\ phase \in {"limit", "search"} => phase' = phase
      BY <1>6 DEF init_sched_state, OutOfIntervals, InLegalSlot, InForcedSlot, Scheduling, Scheduled, BumpII, Ended,
                  schedVars, searchVars
    <2>2. (CanMeet(lowlim)' <=> CanMeet(lowlim)) /\ (CanMeet(uplim)' <=> CanMeet(uplim))
          /\ (CanMeet(lowlim - 1)' <=> CanMeet(lowlim - 1))
      BY <1>1, <2>1
    <2> QED BY <2>1, <2>2 DEF LeastInv
  <1> QED BY <1>2, <1>3, <1>4, <1>5, <1>6 DEF SchedStep

\* The interval calculate_RecMII returns is the least at which the dependences
\* can be met at all: Floyd's algorithm on the longest paths tells exactly which
\* intervals are too short, and the doubling and the halving skip none.
THEOREM RecMIIIsLeastAlways == SchedSpec => []RecMIIIsLeast
  <1>1. SchedInit => SchedInv /\ LeastInv
    BY DEF SchedInit, SchedInv, LeastInv, DependencesHold
  <1>2. ASSUME SchedInv, LeastInv PROVE RecMIIIsLeast
    <2> SUFFICES ASSUME phase = "schedule"
                 PROVE  Feasible(recmii) /\ (recmii > 1 => ~Feasible(recmii - 1))
      BY DEF RecMIIIsLeast
    <2>1. loop \in LOOPS /\ uplim \in Nat /\ uplim > 0 /\ lowlim = uplim /\ CanMeet(uplim)
      BY <1>2 DEF SchedInv, LeastInv
    <2>2. recmii = uplim
      BY <2>1 DEF recmii
    <2>3. Feasible(recmii)
      BY <2>1, <2>2, FeasibleIs
    <2>4. ASSUME recmii > 1 PROVE ~Feasible(recmii - 1)
      <3>1. uplim - 1 \in Nat
        BY <2>1
      <3>2. ~CanMeet(uplim - 1)
        BY <1>2, <2>1, <2>2, <2>4 DEF LeastInv
      <3> QED BY <2>1, <2>2, <3>1, <3>2, FeasibleIs
    <2> QED BY <2>3, <2>4
  <1> QED BY <1>1, <1>2, SchedInvInductive, LeastInvInductive, PTL DEF SchedSpec
=============================================================================
