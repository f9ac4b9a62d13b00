----------------------- MODULE SoftwarePipelineProofs -----------------------
(***************************************************************************)
(* That the software pipeline computes what the loop means, for every loop *)
(* body, machine, size of the register files and trip count                *)
(* (SoftwarePipeline): each operation is executed for exactly the loop's   *)
(* iterations, each of its operands is the value of the iteration meant, and *)
(* the values live after the loop are found.  First the staging predicates, *)
(* from the allocator on; then the results, in the same order: what a      *)
(* lifetime says, when two values may share a register, and which values are *)
(* in their registers in each cycle.                                       *)
(***************************************************************************)
EXTENDS SoftwarePipeline, ModuloSchedProofs

\* What the allocation of the staging predicate comes to.
\* The lifetimes of PR have locations, of those the loop was scheduled with.
PRAllocating ==
    /\ life = Construct_lifetimes(PR)
    /\ DOMAIN location[PR] \in SUBSET Lives(PR) /\ DOMAIN location[PR] # {}
    /\ \A l \in DOMAIN location[PR] : location[PR][l] \in Int

\* The file has a register for every stage of an operation, and one more.
PRAllocated ==
    /\ location[PR][Branch] \in Int
    /\ \A op \in Ops : Floor(Issue(op)) + 2 <= reg_max[PR]

\* The allocator works on a schedule, one file after the other.
AllocInv ==
    /\ file \in GPR..(PR + 1)
    /\ DOMAIN location = Files
    /\ phase # "scheduled" => file = GPR /\ location[GPR] = <<>>
    /\ file = GPR => location[PR] = <<>>
    /\ file = PR /\ location[PR] # <<>> => PRAllocating
    /\ file = PR + 1 => PRAllocated

\* Where the staging predicate of the iteration is that is j older than the
\* newest one.
Staging(j) == (location[PR][Branch] + 1 + RRB + j) % reg_max[PR]

\* How often the loop branch has been executed: once an interval.
Rounds == Floor(clock)

\* LC, then ESC, count the intervals; the predicates are a window of the
\* iterations.
KernelInv ==
    /\ clock \in Nat /\ trips \in 0..MAXLC
    /\ Rounds <= trips + esc
    /\ LC = IF Rounds <= trips THEN trips - Rounds ELSE 0
    /\ ESC = IF Rounds <= trips THEN esc ELSE trips + esc - Rounds
    /\ \A j \in 0..(reg_max[PR] - 1) : pr[Staging(j)] <=> Rounds - j \in 0..trips

\* The inductive invariant.
SwpInv ==
    /\ AttemptInv /\ StartInv /\ esc \in Nat
    /\ AllocInv
    /\ kphase \in {"before", "kernel", "after"}
    /\ RRB \in 0..(WORD - 1) /\ pr \in [PRs -> BOOLEAN]
    /\ kphase # "before" => phase = "scheduled" /\ file = PR + 1
    /\ kphase = "kernel" => KernelInv
    /\ kphase = "after" => clock = (trips + stage_count) * ii

-----------------------------------------------------------------------------
\* Arithmetic of the interval.

\* Whole intervals come out of a quotient.
LEMMA DivPlus ==
  ASSUME NEW a \in Int, NEW k \in Int, NEW n \in Nat, n > 0
  PROVE  (a + n * k) \div n = (a \div n) + k
  <1> DEFINE q == a \div n
             r == a % n
  <1>1. q \in Int /\ r \in 0..(n - 1) /\ a = n * q + r
    BY DivMod
  <1> HIDE DEF q, r
  <1>2. n * (q + k) = n * q + n * k /\ q + k \in Int /\ n * q \in Int /\ n * k \in Int
    BY <1>1
  <1>3. a + n * k = n * (q + k) + r
    BY <1>1, <1>2
  <1>4. (n * (q + k) + r) \div n = q + k
    <2>1. ASSUME NEW m \in Int PROVE (n * m + r) \div n = m
      BY <1>1
    <2> QED BY <1>2, <2>1
  <1> QED BY <1>3, <1>4 DEF q

\* A later cycle is in no earlier interval.
LEMMA DivMono ==
  ASSUME NEW a \in Int, NEW b \in Int, NEW n \in Nat, n > 0, a <= b
  PROVE  a \div n <= b \div n
  <1> DEFINE p == a \div n
             q == b \div n
  <1>1. /\ p \in Int /\ q \in Int /\ n * p \in Int /\ n * q \in Int
        /\ n * p <= a /\ b < n * q + n
    <2>1. p \in Int /\ a % n \in 0..(n - 1) /\ a = n * p + (a % n)
      BY DivMod
    <2>2. q \in Int /\ b % n \in 0..(n - 1) /\ b = n * q + (b % n)
      BY DivMod
    <2> HIDE DEF p, q
    <2>3. n * p \in Int /\ n * q \in Int
      BY <2>1, <2>2
    <2> QED BY <2>1, <2>2, <2>3
  <1> HIDE DEF p, q
  <1>2. ASSUME p > q PROVE FALSE
    <2>1. p - q - 1 \in Nat
      BY <1>1, <1>2
    <2>2. n * (p - q - 1) \in Nat
      BY <2>1
    <2>3. n * (p - q - 1) = n * p - n * q - n
      BY <1>1
    <2> QED BY <1>1, <2>2, <2>3
  <1> QED BY <1>1, <1>2 DEF p, q

\* A number of intervals that covers x.
LEMMA CeilIs ==
  ASSUME ii \in Nat, ii > 0, NEW x \in Int
  PROVE  Ceil(x) \in Int /\ ii * Ceil(x) \in Int /\ ii * Ceil(x) >= x
  <1> DEFINE y == x + ii - 1
             q == y \div ii
  <1>1. y \in Int
    OBVIOUS
  <1>2. q \in Int /\ y % ii \in 0..(ii - 1) /\ y = ii * q + (y % ii)
    <2> HIDE DEF y
    <2> QED BY <1>1, DivMod
  <1>3. Ceil(x) = q
    BY DEF Ceil, Ceiling
  <1> HIDE DEF q
  <1>4. ii * q \in Int
    BY <1>2
  <1>5. ii * q >= x
    BY <1>2, <1>4
  <1> QED BY <1>2, <1>3, <1>4, <1>5

-----------------------------------------------------------------------------
\* Lifetimes and the locations found for them.

\* What the allocator needs to know of a lifetime.
LifeOK(l) ==
    /\ life[l].start \in Int /\ life[l].stop \in Int /\ life[l].start <= life[l].stop
    /\ life[l].k_first \in Int /\ life[l].k_last \in Int /\ life[l].alpha \in Int
    /\ life[l].trailing => life[l].alpha >= 1

\* Two or three numbers.
LEMMA DistIs ==
  ASSUME ii \in Nat, ii > 0, NEW a, NEW b, LifeOK(a), LifeOK(b)
  PROVE  /\ dist(a, b) \in Int /\ dist(a, b) >= Ceil(life[a].stop - life[b].start)
         /\ life[b].leading => dist(a, b) >= -life[a].k_first
         /\ life[a].trailing => dist(a, b) >= life[b].k_last + life[a].alpha
  <1> DEFINE x == Ceil(life[a].stop - life[b].start)
             F == IF life[b].leading THEN {-life[a].k_first} ELSE {}
             G == IF life[a].trailing THEN {life[b].k_last + life[a].alpha} ELSE {}
             T == {x} \cup F \cup G
  <1>1. x \in Int
    <2>1. life[a].stop - life[b].start \in Int
      BY DEF LifeOK
    <2> QED BY <2>1, CeilIs
  <1>2. F \in SUBSET Int /\ G \in SUBSET Int
    BY DEF LifeOK
  <1>3. IsFiniteSet(F) /\ IsFiniteSet(G) /\ IsFiniteSet({x})
    BY FS_Singleton, FS_EmptySet
  <1>7. /\ life[b].leading => -life[a].k_first \in F
        /\ life[a].trailing => life[b].k_last + life[a].alpha \in G
    OBVIOUS
  <1> HIDE DEF x, F, G
  <1>4. IsFiniteSet(T) /\ T \in SUBSET Int /\ x \in T
    <2>1. IsFiniteSet({x} \cup F)
      BY <1>3, FS_Union
    <2>2. IsFiniteSet(T)
      BY <1>3, <2>1, FS_Union
    <2> QED BY <1>1, <1>2, <2>2
  <1>8. F \subseteq T /\ G \subseteq T
    OBVIOUS
  <1> HIDE DEF T
  <1>5. Max(T) \in Int /\ Max(T) >= x /\ \A y \in T : Max(T) >= y
    BY <1>4, MaxIs
  <1>6. dist(a, b) = Max(T)
    BY DEF dist, T, F, G, x
  <1> QED BY <1>5, <1>6, <1>7, <1>8 DEF x

\* Neither of two lifetimes has to be above the other one from both sides.
LEMMA DistSum ==
  ASSUME ii \in Nat, ii > 0, NEW a, NEW b, LifeOK(a), LifeOK(b)
  PROVE  dist(a, b) + dist(b, a) >= 0
  <1> DEFINE x == life[a].stop - life[b].start
             y == life[b].stop - life[a].start
             p == Ceil(x)
             q == Ceil(y)
  <1>1. x \in Int /\ y \in Int /\ x + y >= 0
    BY DEF LifeOK
  <1>2. /\ dist(a, b) \in Int /\ dist(b, a) \in Int /\ dist(a, b) >= p /\ dist(b, a) >= q
    BY DistIs
  <1> HIDE DEF x, y
  <1>3. p \in Int /\ ii * p \in Int /\ ii * p >= x /\ q \in Int /\ ii * q \in Int /\ ii * q >= y
    BY <1>1, CeilIs
  <1> HIDE DEF p, q
  <1>4. p + q >= 0
    <2>1. ii * (p + q) = ii * p + ii * q
      BY <1>3
    <2>2. ii * (p + q) >= 0
      BY <1>1, <1>3, <2>1
    <2>3. ASSUME p + q < 0 PROVE FALSE
      <3>1. -(p + q) - 1 \in Nat
        BY <1>3, <2>3
      <3>2. ii * (-(p + q) - 1) \in Nat
        BY <3>1
      <3>3. ii * (-(p + q) - 1) = -(ii * (p + q)) - ii
        BY <1>3
      <3> QED BY <1>3, <2>1, <2>2, <3>2, <3>3
    <2> QED BY <1>3, <2>3
  <1> QED BY <1>2, <1>3, <1>4

\* The cycles a lifetime is counted for, with the values before and after the
\* loop.
FirstCycle(l) == IF life[l].leading THEN Least(life[l].start, 0) ELSE life[l].start
LastCycle(l) == IF life[l].trailing THEN Larger(life[l].stop, (stage_count + 1) * ii) ELSE life[l].stop

\* The registers in use are at least those of each lifetime, and those from the
\* first one of a lifetime to the last one of another.
LEMMA RequirementsIs ==
  ASSUME ii \in Nat, ii > 0, esc \in Nat, NEW at, IsFiniteSet(DOMAIN at), DOMAIN at # {},
         \A l \in DOMAIN at : LifeOK(l) /\ at[l] \in Int
  PROVE  /\ Requirements(at) \in Int
         /\ \A l \in DOMAIN at : Requirements(at) >= Ceil(life[l].stop) - Floor(life[l].start)
         /\ \A l, m \in DOMAIN at :
                Requirements(at) >= at[l] + Ceil(LastCycle(l)) - (at[m] + Floor(FirstCycle(m)))
  <1> DEFINE stop(l) == IF life[l].trailing THEN Larger(life[l].stop, (stage_count + 1) * ii) ELSE life[l].stop
             high(l) == IF life[l].trailing THEN at[l] + life[l].alpha - 1 ELSE at[l]
             start(l) == IF life[l].leading THEN Least(life[l].start, 0) ELSE life[l].start
             tops == [l \in DOMAIN at |-> high(l) + Ceil(stop(l)) - 1]
             bottoms == [l \in DOMAIN at |-> at[l] + Floor(start(l))]
             Ts == {tops[l] : l \in DOMAIN at}
             Bs == {bottoms[l] : l \in DOMAIN at}
  <1>1. ASSUME NEW l \in DOMAIN at
        PROVE  /\ tops[l] \in Int /\ tops[l] >= at[l] + Ceil(life[l].stop) - 1
               /\ bottoms[l] \in Int /\ bottoms[l] <= at[l] + Floor(life[l].start)
               /\ Ceil(life[l].stop) \in Int /\ Floor(life[l].start) \in Int
               /\ tops[l] >= at[l] + Ceil(stop(l)) - 1 /\ bottoms[l] = at[l] + Floor(start(l))
               /\ Ceil(stop(l)) \in Int /\ Floor(start(l)) \in Int
    <2>1. LifeOK(l) /\ at[l] \in Int
      OBVIOUS
    <2>2. stop(l) \in Int /\ stop(l) >= life[l].stop /\ high(l) \in Int /\ high(l) >= at[l]
      <3>1. (stage_count + 1) * ii \in Int
        BY DEF stage_count
      <3>2. Larger(life[l].stop, (stage_count + 1) * ii) \in Int /\ Larger(life[l].stop, (stage_count + 1) * ii) >= life[l].stop
        BY <2>1, <3>1 DEF Larger, LifeOK
      <3> QED BY <2>1, <3>2 DEF LifeOK
    <2>3. start(l) \in Int /\ start(l) <= life[l].start
      BY <2>1 DEF Least, LifeOK
    <2>4. Ceil(stop(l)) >= Ceil(life[l].stop) /\ Ceil(stop(l)) \in Int /\ Ceil(life[l].stop) \in Int
      <3> HIDE DEF stop
      <3>1. life[l].stop \in Int
        BY <2>1 DEF LifeOK
      <3>2. Ceil(stop(l)) \in Int /\ Ceil(life[l].stop) \in Int
        BY <2>2, <3>1, CeilIs
      <3>3. life[l].stop + ii - 1 \in Int /\ stop(l) + ii - 1 \in Int /\ life[l].stop + ii - 1 <= stop(l) + ii - 1
        BY <2>2, <3>1
      <3>4. (life[l].stop + ii - 1) \div ii <= (stop(l) + ii - 1) \div ii
        BY <3>3, DivMono
      <3> QED BY <3>2, <3>4 DEF Ceil, Ceiling
    <2>5. Floor(start(l)) <= Floor(life[l].start) /\ Floor(start(l)) \in Int /\ Floor(life[l].start) \in Int
      <3> HIDE DEF start
      <3>1. life[l].start \in Int
        BY <2>1 DEF LifeOK
      <3> QED BY <2>3, <3>1, DivMono, DivMod DEF Floor
    <2> HIDE DEF stop, high, start
    <2>6. tops[l] = high(l) + Ceil(stop(l)) - 1 /\ bottoms[l] = at[l] + Floor(start(l))
      OBVIOUS
    <2> QED BY <2>1, <2>2, <2>4, <2>5, <2>6
  <1>2. Requirements(at) = Max(Ts) - Min(Bs) + 1
    <2>1. /\ Ts = {high(l) + Ceil(stop(l)) - 1 : l \in DOMAIN at}
          /\ Bs = {at[l] + Floor(start(l)) : l \in DOMAIN at}
      <3> HIDE DEF high, stop, start
      <3> QED OBVIOUS
    <2> HIDE DEF Ts, Bs
    <2> QED BY <2>1 DEF Requirements
  <1>3. DOMAIN tops = DOMAIN at /\ DOMAIN bottoms = DOMAIN at
    OBVIOUS
  <1> HIDE DEF tops, bottoms
  <1>4. Max(Ts) \in Int /\ \A l \in DOMAIN at : Max(Ts) >= tops[l]
    <2>1. IsFiniteSet(Ts)
      BY <1>3, ImageFinite
    <2>2. Ts \in SUBSET Int /\ Ts # {} /\ \A l \in DOMAIN at : tops[l] \in Ts
      BY <1>1
    <2> HIDE DEF Ts
    <2> QED BY <2>1, <2>2, MaxIs
  <1>5. Min(Bs) \in Int /\ \A l \in DOMAIN at : Min(Bs) <= bottoms[l]
    <2>1. IsFiniteSet(Bs)
      BY <1>3, ImageFinite
    <2>2. Bs \in SUBSET Int /\ Bs # {} /\ \A l \in DOMAIN at : bottoms[l] \in Bs
      BY <1>1
    <2> HIDE DEF Bs
    <2> QED BY <2>1, <2>2, MinIs
  <1> HIDE DEF Ts, Bs
  <1>6. ASSUME NEW l \in DOMAIN at
        PROVE  Requirements(at) >= Ceil(life[l].stop) - Floor(life[l].start)
    <2>1. at[l] \in Int
      OBVIOUS
    <2> QED BY <1>1, <1>2, <1>4, <1>5, <2>1
  <1>7. ASSUME NEW l \in DOMAIN at, NEW m \in DOMAIN at
        PROVE  Requirements(at) >= at[l] + Ceil(stop(l)) - (at[m] + Floor(start(m)))
    <2> HIDE DEF stop, start, high
    <2>1. at[l] \in Int /\ at[m] \in Int
      OBVIOUS
    <2> QED BY <1>1, <1>2, <1>4, <1>5, <2>1
  <1>8. \A l : stop(l) = LastCycle(l) /\ start(l) = FirstCycle(l)
    BY DEF LastCycle, FirstCycle
  <1> HIDE DEF stop, start, high
  <1> QED BY <1>2, <1>4, <1>5, <1>6, <1>7, <1>8

\* Some location is free: one below all that must be above the lifetime.  The
\* one chosen is free.
LEMMA BestFitFree ==
  ASSUME ii \in Nat, ii > 0, esc \in Nat, NEW at, NEW sel, IsFiniteSet(DOMAIN at), DOMAIN at # {},
         LifeOK(sel), \A l \in DOMAIN at : LifeOK(l) /\ at[l] \in Int,
         IsFiniteSet(DOMAIN life), \A l \in DOMAIN life : LifeOK(l)
  PROVE  /\ Best_fit(at, sel) \in Int
         /\ \A a \in DOMAIN at : ~ Excludes(a, sel, Best_fit(at, sel) - at[a])
  <1> DEFINE C == Candidates(at, sel)
             below == [l \in DOMAIN at |-> at[l] - dist(sel, l)]
             above == [l \in DOMAIN at |-> at[l] + dist(l, sel)]
             Low == {below[l] : l \in DOMAIN at}
             High == {above[l] : l \in DOMAIN at}
  <1>1. ASSUME NEW l \in DOMAIN at
        PROVE  /\ dist(sel, l) \in Int /\ dist(l, sel) \in Int /\ at[l] \in Int
               /\ below[l] = at[l] - dist(sel, l) /\ above[l] = at[l] + dist(l, sel) /\ below[l] <= above[l]
    <2>1. dist(sel, l) \in Int /\ dist(l, sel) \in Int /\ dist(sel, l) + dist(l, sel) >= 0
      BY DistIs, DistSum
    <2> QED BY <2>1
  <1>2. Min(Low) \in Int /\ \A l \in DOMAIN at : Min(Low) <= below[l]
    <2>1. DOMAIN below = DOMAIN at
      OBVIOUS
    <2> HIDE DEF below
    <2>2. IsFiniteSet(Low)
      BY <2>1, ImageFinite
    <2>3. Low \in SUBSET Int /\ Low # {} /\ \A l \in DOMAIN at : below[l] \in Low
      BY <1>1
    <2> HIDE DEF Low
    <2> QED BY <2>2, <2>3, MinIs
  <1>3. Max(High) \in Int /\ \A l \in DOMAIN at : Max(High) >= above[l]
    <2>1. DOMAIN above = DOMAIN at
      OBVIOUS
    <2> HIDE DEF above
    <2>2. IsFiniteSet(High)
      BY <2>1, ImageFinite
    <2>3. High \in SUBSET Int /\ High # {} /\ \A l \in DOMAIN at : above[l] \in High
      BY <1>1
    <2> HIDE DEF High
    <2> QED BY <2>2, <2>3, MaxIs
  <1>4. C = {loc \in Min(Low)..Max(High) : ~forbidden_loc(at, sel, loc)}
    <2>1. /\ Low = {at[l] - dist(sel, l) : l \in DOMAIN at}
          /\ High = {at[l] + dist(l, sel) : l \in DOMAIN at}
      OBVIOUS
    <2> HIDE DEF Low, High, below, above
    <2> QED BY <2>1 DEF Candidates
  <1> HIDE DEF Low, High, below, above
  <1>5. Min(Low) \in C
    <2>1. Min(Low) \in Min(Low)..Max(High)
      <3>1. PICK l \in DOMAIN at : TRUE
        OBVIOUS
      <3>2. Min(Low) <= below[l] /\ below[l] <= above[l] /\ above[l] <= Max(High) /\ below[l] \in Int /\ above[l] \in Int
        BY <1>1, <1>2, <1>3
      <3> QED BY <1>2, <1>3, <3>2
    <2>2. ASSUME NEW a \in DOMAIN at, Excludes(a, sel, Min(Low) - at[a]) PROVE FALSE
      <3>1. Min(Low) - at[a] >= 1 - dist(sel, a)
        BY <1>1, <1>2, <2>2 DEF Excludes
      <3> QED BY <1>1, <1>2, <3>1
    <2> QED BY <1>4, <2>1, <2>2 DEF forbidden_loc
  <1> HIDE DEF C
  <1>6. C \in SUBSET Int /\ IsFiniteSet(C)
    <2>1. IsFiniteSet(Min(Low)..Max(High))
      BY <1>2, <1>3, FS_Interval
    <2> QED BY <1>2, <1>3, <1>4, <2>1, FS_Subset
  <1> DEFINE reg == [loc \in C |-> Requirements(With(at, sel, loc))]
             T == {loc \in C : \A c \in C : reg[loc] <= reg[c]}
             added == [loc \in T |-> Count_forbidden_loc(at, sel, loc)]
             B == {loc \in T : \A c \in T : added[loc] <= added[c]}
  <1>7. ASSUME NEW loc \in C PROVE reg[loc] \in Int
    <2>1. /\ DOMAIN With(at, sel, loc) = DOMAIN at \cup {sel}
          /\ With(at, sel, loc)[sel] = loc
          /\ \A l \in DOMAIN at : l # sel => With(at, sel, loc)[l] = at[l]
      BY DEF With
    <2>2. IsFiniteSet(DOMAIN at \cup {sel})
      BY FS_AddElement
    <2>3. loc \in Int
      BY <1>6
    <2>4. \A l \in DOMAIN With(at, sel, loc) : LifeOK(l) /\ With(at, sel, loc)[l] \in Int
      BY <2>1, <2>3
    <2>5. Requirements(With(at, sel, loc)) \in Int
      <3>1. PICK w : w = With(at, sel, loc)
        OBVIOUS
      <3> QED BY <2>1, <2>2, <2>4, <3>1, RequirementsIs
    <2> QED BY <2>5
  <1>8. ASSUME NEW loc \in C PROVE Count_forbidden_loc(at, sel, loc) \in Int
    <2> DEFINE S == DOMAIN life \ (DOMAIN at \cup {sel})
               J(l) == {j \in (loc + 1 - dist(l, sel))..(loc + dist(sel, l) - 1) :
                            ~forbidden_loc(at, l, j) /\ Interference(sel, l, j - loc)}
               P(l) == {<<l, i>> : i \in J(l)}
               f == [l \in S |-> P(l)]
    <2>1. IsFiniteSet(S)
      BY FS_Subset
    <2>2. ASSUME NEW l \in S PROVE IsFiniteSet(P(l))
      <3>1. dist(l, sel) \in Int /\ dist(sel, l) \in Int /\ loc \in Int
        BY <1>6, DistIs
      <3>2. IsFiniteSet((loc + 1 - dist(l, sel))..(loc + dist(sel, l) - 1))
        <4>1. loc + 1 - dist(l, sel) \in Int /\ loc + dist(sel, l) - 1 \in Int
          BY <3>1
        <4> QED BY <4>1, FS_Interval
      <3>3. IsFiniteSet(J(l))
        BY <3>2, FS_Subset
      <3> DEFINE g == [i \in J(l) |-> <<l, i>>]
      <3>4. DOMAIN g = J(l) /\ P(l) = {g[i] : i \in J(l)}
        OBVIOUS
      <3> HIDE DEF J, P, g
      <3> QED BY <3>3, <3>4, ImageFinite
    <2>3. Count_forbidden_loc(at, sel, loc) = Cardinality(UNION {P(l) : l \in S})
      BY DEF Count_forbidden_loc
    <2>4. DOMAIN f = S /\ {P(l) : l \in S} = {f[l] : l \in S} /\ \A l \in S : f[l] = P(l)
      <3> HIDE DEF P, S
      <3> QED OBVIOUS
    <2> HIDE DEF P, S, f
    <2>5. IsFiniteSet({f[l] : l \in S}) /\ \A x \in {f[l] : l \in S} : IsFiniteSet(x)
      BY <2>1, <2>2, <2>4, ImageFinite
    <2>6. PICK F : F = {P(l) : l \in S}
      OBVIOUS
    <2>7. Count_forbidden_loc(at, sel, loc) = Cardinality(UNION F)
      BY <2>3, <2>6, Zenon
    <2>8. F = {f[l] : l \in S}
      BY <2>4, <2>6, Zenon
    <2>9. IsFiniteSet(UNION F)
      BY <2>5, <2>8, FS_UNION
    <2>10. Cardinality(UNION F) \in Nat
      BY <2>9, FS_CardinalityType
    <2> QED BY <2>7, <2>10
  <1>9. IsFiniteSet(T) /\ T # {}
    <2> DEFINE R == {reg[loc] : loc \in C}
    <2>1. DOMAIN reg = C
      OBVIOUS
    <2> HIDE DEF reg
    <2>2. IsFiniteSet(R)
      BY <1>6, <2>1, ImageFinite
    <2>3. R \in SUBSET Int /\ R # {}
      BY <1>5, <1>7
    <2> HIDE DEF R
    <2>4. Min(R) \in R /\ \A r \in R : Min(R) <= r
      BY <2>2, <2>3, MinIs
    <2>5. PICK loc \in C : reg[loc] = Min(R)
      BY <2>4 DEF R
    <2>6. loc \in T
      BY <2>4, <2>5 DEF R
    <2> QED BY <1>6, <2>6, FS_Subset
  <1>10. B # {} /\ B \subseteq C /\ IsFiniteSet(B)
    <2> DEFINE A == {added[loc] : loc \in T}
    <2>1. DOMAIN added = T /\ \A loc \in T : added[loc] \in Int
      <3>1. T \subseteq C
        OBVIOUS
      <3> HIDE DEF T
      <3> QED BY <1>8, <3>1
    <2> HIDE DEF added, reg
    <2>2. IsFiniteSet(A)
      <3> HIDE DEF T
      <3> QED BY <1>9, <2>1, ImageFinite
    <2>3. A \in SUBSET Int /\ A # {}
      <3> HIDE DEF T
      <3> QED BY <1>9, <2>1
    <2> HIDE DEF A
    <2>4. Min(A) \in A /\ \A r \in A : Min(A) <= r
      BY <2>2, <2>3, MinIs
    <2>5. PICK loc \in T : added[loc] = Min(A)
      <3> HIDE DEF T
      <3> QED BY <2>4 DEF A
    <2>6. loc \in B
      <3> HIDE DEF T
      <3> QED BY <2>4, <2>5 DEF A
    <2>7. B \subseteq C
      OBVIOUS
    <2> HIDE DEF B, T
    <2> QED BY <1>6, <2>6, <2>7, FS_Subset
  <1>11. Best_fit(at, sel) = Min(B)
    <2>1. Tabulated(reg) = reg /\ Tabulated(added) = added
      BY TabulatedIs
    <2> QED BY <2>1, Zenon DEF Best_fit, C
  <1> HIDE DEF B, T, reg, added
  <1>12. Min(B) \in C
    <2>1. B \in SUBSET Int
      BY <1>6, <1>10
    <2> QED BY <1>10, <2>1, MinIs
  <1> QED BY <1>4, <1>6, <1>11, <1>12 DEF forbidden_loc

\* The lifetime of a value from its uses.
LEMMA LifetimeIs ==
  ASSUME ii \in Nat, ii > 0, esc \in Nat, NEW l, IsFiniteSet(Uses(l)), Uses(l) \in SUBSET (Int \X Nat),
         Issue(l) \in Int, loop.lat[l] \in Nat, NEW d, d = Process_input_data(l)
  PROVE  /\ d.start = Issue(l) /\ d.stop \in Int /\ d.stop >= Issue(l) + loop.lat[l] + 1
         /\ \A u \in Uses(l) : d.stop >= u[1] + 1
         /\ d.k_first \in Int /\ d.k_last \in Int /\ d.alpha \in Int /\ (d.trailing => d.alpha >= 1)
  <1> DEFINE used == {u[1] : u \in Uses(l)}
             late == {u[2] : u \in Uses(l)}
             issue == Issue(l)
             omega == Max({0} \cup late)
             alpha == IF l \in loop.liveout THEN 1 ELSE 0
             predicated == l # Branch
             earliest == IF predicated THEN -omega ELSE Least(-Floor(issue), -omega)
             latest == IF predicated THEN Larger(Ceil(ii - issue) - 1, 0) ELSE stage_count
             k_first == Larger(earliest, -Floor(Max(used \cup {issue})))
             k_last == Least(latest, stage_count - 1 - Floor(Min(used \cup {issue})))
             stop == Max(used \cup {issue + loop.lat[l]}) + 1
  <1>1. /\ d.start = issue /\ d.stop = stop /\ d.alpha = alpha /\ d.k_first = k_first /\ d.k_last = k_last
        /\ d.trailing = (k_last >= 1 - alpha /\ alpha > 0)
    <2> HIDE DEF used, late, issue, alpha
    <2>1. d = [start |-> issue, stop |-> stop, flow |-> issue + loop.lat[l], used |-> used,
               omega |-> omega, alpha |-> alpha, k_first |-> k_first, k_last |-> k_last,
               leading |-> k_first < 0 /\ omega > 0, trailing |-> k_last >= 1 - alpha /\ alpha > 0]
      BY Zenon DEF Process_input_data, used, late, issue, alpha
    <2> HIDE DEF stop, omega, predicated, earliest, latest, k_first, k_last
    <2> QED BY <2>1
  <1>2. IsFiniteSet(used) /\ IsFiniteSet(late) /\ used \in SUBSET Int /\ late \in SUBSET Int
    <2> DEFINE f == [u \in Uses(l) |-> u[1]]
               g == [u \in Uses(l) |-> u[2]]
    <2>1. DOMAIN f = Uses(l) /\ used = {f[u] : u \in Uses(l)} /\ DOMAIN g = Uses(l) /\ late = {g[u] : u \in Uses(l)}
      OBVIOUS
    <2>2. used \in SUBSET Int /\ late \in SUBSET Int
      OBVIOUS
    <2> HIDE DEF f, g, used, late
    <2> QED BY <2>1, <2>2, ImageFinite
  <1>3. issue \in Int /\ \A u \in Uses(l) : u[1] \in used
    OBVIOUS
  <1> HIDE DEF used, late, issue
  <1>4. ASSUME NEW x \in Int
        PROVE  /\ Max(used \cup {x}) \in Int /\ Max(used \cup {x}) >= x
               /\ \A u \in used : Max(used \cup {x}) >= u
               /\ Min(used \cup {x}) \in Int
    <2> DEFINE T == used \cup {x}
    <2>1. IsFiniteSet(T) /\ T \in SUBSET Int /\ x \in T /\ \A u \in used : u \in T
      BY <1>2, FS_AddElement
    <2> HIDE DEF T
    <2>2. Max(T) \in Int /\ Max(T) >= x /\ (\A u \in used : Max(T) >= u) /\ Min(T) \in Int
      BY <2>1, MaxIs, MinIs
    <2> QED BY <2>2 DEF T
  <1>5. omega \in Int
    <2> DEFINE T == {0} \cup late
    <2>1. IsFiniteSet(T)
      BY <1>2, FS_Singleton, FS_Union
    <2>2. T \in SUBSET Int /\ T # {}
      BY <1>2
    <2> HIDE DEF T
    <2>3. Max(T) \in Int
      BY <2>1, <2>2, MaxIs
    <2> QED BY <2>3 DEF T
  <1>6. stop \in Int /\ stop >= issue + loop.lat[l] + 1 /\ \A u \in Uses(l) : stop >= u[1] + 1
    <2>1. issue + loop.lat[l] \in Int
      BY <1>3
    <2>2. /\ Max(used \cup {issue + loop.lat[l]}) \in Int
          /\ Max(used \cup {issue + loop.lat[l]}) >= issue + loop.lat[l]
          /\ \A u \in used : Max(used \cup {issue + loop.lat[l]}) >= u
      BY <1>4, <2>1
    <2>3. PICK m \in Int : m = Max(used \cup {issue + loop.lat[l]})
      BY <2>2
    <2>4. stop = m + 1 /\ m >= issue + loop.lat[l]
      BY <2>2, <2>3
    <2>5. ASSUME NEW u \in Uses(l) PROVE u[1] \in Int /\ m >= u[1]
      BY <1>2, <1>3, <2>2, <2>3
    <2> HIDE DEF stop
    <2> QED BY <2>1, <2>4, <2>5
  <1>7. \A x \in Int : Floor(x) \in Int /\ Ceil(x) \in Int
    BY CeilIs, DivMod DEF Floor
  <1>8. alpha \in Int /\ (alpha > 0 => alpha >= 1)
    OBVIOUS
  <1>9. k_first \in Int
    <2>1. Max(used \cup {issue}) \in Int
      BY <1>3, <1>4
    <2> HIDE DEF omega
    <2> QED BY <1>3, <1>5, <1>7, <2>1 DEF Larger, Least
  <1>10. k_last \in Int
    <2>1. Min(used \cup {issue}) \in Int
      BY <1>3, <1>4
    <2>2. stage_count \in Int /\ ii - issue \in Int
      BY <1>3 DEF stage_count
    <2>3. latest \in Int
      BY <1>7, <2>2 DEF Larger
    <2> HIDE DEF latest
    <2> QED BY <1>7, <2>1, <2>2, <2>3 DEF Least
  <1> HIDE DEF stop, alpha, k_first, k_last
  <1> QED BY <1>1, <1>6, <1>8, <1>9, <1>10 DEF issue

\* The lifetimes of the staging predicate's file.
LEMMA PRLives ==
  ASSUME AttemptInv, StartInv, phase = "scheduled", esc \in Nat, life = Construct_lifetimes(PR)
  PROVE  /\ DOMAIN life = {Open, Branch} /\ \A l \in DOMAIN life : LifeOK(l)
         /\ life[Branch].start = ii - 1
         /\ \A op \in Ops : Issue(op) \in Nat /\ life[Branch].stop >= Issue(op) + ii + 1
  <1>1. /\ ii \in Nat /\ ii > 0 /\ stime \in [Nodes -> Int] /\ stime[Branch] = ii
        /\ loop \in LOOPS /\ Branch \in Nodes /\ placed = Nodes
    <2>1. placed = Nodes
      BY ScheduleComplete
    <2> QED BY <2>1, OpType DEF AttemptInv, Attempting, MapInv, StartInv
  <1>2. \A op \in Nodes : Issue(op) \in Nat
    <2> TAKE op \in Nodes
    <2>1. stime[op] \in Int /\ stime[op] >= 1
      BY <1>1 DEF StartInv, Attempting
    <2> QED BY <2>1 DEF Issue
  <1>3. /\ DOMAIN life = {Open, Branch}
        /\ life[Open] = Process_open_loop_data
        /\ life[Branch] = Process_input_data(Branch)
    <2>1. Lives(PR) = {Open, Branch} /\ Branch # Open
      BY LoopAssumption DEF Lives, PR, GPR, Branch, Open
    <2>2. life = [l \in Lives(PR) |-> IF l = Open THEN Process_open_loop_data ELSE Process_input_data(l)]
      BY TabulatedIs DEF Construct_lifetimes
    <2> QED BY <2>1, <2>2
  <1>4. LifeOK(Open)
    <2>1. PICK d : d = Process_open_loop_data
      OBVIOUS
    <2>2. /\ d.start = 0 /\ d.stop = 0 /\ d.alpha = 0 /\ d.k_first = 0 /\ d.k_last = stage_count
          /\ d.trailing = FALSE
      BY <2>1 DEF Process_open_loop_data
    <2>3. stage_count \in Int
      BY DEF stage_count
    <2> QED BY <1>3, <2>1, <2>2, <2>3 DEF LifeOK
  <1>5. Uses(Branch) = {<<Issue(op) + ii, 1>> : op \in Ops}
    BY DEF Uses
  <1>6. IsFiniteSet(Uses(Branch)) /\ Uses(Branch) \in SUBSET (Int \X Nat)
    <2> DEFINE f == [op \in Ops |-> <<Issue(op) + ii, 1>>]
    <2>1. DOMAIN f = Ops /\ Uses(Branch) = {f[op] : op \in Ops}
      BY <1>5
    <2>2. Uses(Branch) \in SUBSET (Int \X Nat)
      BY <1>1, <1>2, <1>5, OpType
    <2> HIDE DEF f
    <2> QED BY <2>1, <2>2, OpsFinite, ImageFinite
  <1>7. PICK d : d = Process_input_data(Branch)
    OBVIOUS
  <1>8. Issue(Branch) = ii - 1 /\ Issue(Branch) \in Int /\ loop.lat[Branch] \in Nat
    <2>1. loop.lat \in [Nodes -> Nat]
      BY <1>1, LoopAssumption
    <2> QED BY <1>1, <2>1 DEF Issue
  <1>9. /\ d.start = Issue(Branch) /\ d.stop \in Int /\ d.stop >= Issue(Branch) + loop.lat[Branch] + 1
        /\ \A u \in Uses(Branch) : d.stop >= u[1] + 1
        /\ d.k_first \in Int /\ d.k_last \in Int /\ d.alpha \in Int /\ (d.trailing => d.alpha >= 1)
    BY <1>1, <1>6, <1>7, <1>8, LifetimeIs
  <1>10. LifeOK(Branch)
    BY <1>3, <1>7, <1>8, <1>9 DEF LifeOK
  <1>11. ASSUME NEW op \in Ops
         PROVE  Issue(op) \in Nat /\ d.stop >= Issue(op) + ii + 1
    <2>1. <<Issue(op) + ii, 1>> \in Uses(Branch)
      BY <1>5
    <2>2. d.stop >= Issue(op) + ii + 1
      BY <1>9, <2>1
    <2> QED BY <1>2, <2>2, OpType
  <1> QED BY <1>3, <1>4, <1>7, <1>8, <1>9, <1>10, <1>11

-----------------------------------------------------------------------------
\* The schedule and the locations, while the allocator works.

\* What the scheduler keeps, the allocator and the loop keep too; the driver
\* goes back to it with the next interval only.
LEMMA SchedPartKeeps ==
  ASSUME AttemptInv, StartInv, esc \in Nat, SchedStep \/ AllocationFails \/ UNCHANGED schedVars
  PROVE  AttemptInv' /\ StartInv' /\ esc' \in Nat
  <1>1. CASE SchedStep \/ UNCHANGED schedVars
    <2>1. AttemptInv' /\ StartInv'
      BY <1>1, AttemptInvInductive, StartInvInductive
    <2>2. CASE Scheduled
      <3>1. Attempting /\ esc' = calculate_esc
        BY <2>2 DEF Scheduled, Attempting
      <3> QED BY <2>1, <3>1, EscIsNat
    <2>3. CASE ~Scheduled
      <3>1. esc' = esc
        BY <1>1, <2>3 DEF SchedStep, LimitTooLow, LimitFound, SearchStep, StartAtMII, init_sched_state,
              OutOfIntervals, InLegalSlot, InForcedSlot, Scheduling, BumpII, schedVars
      <3> QED BY <2>1, <3>1
    <2> QED BY <2>2, <2>3
  <1>2. CASE AllocationFails
    <2>1. /\ phase = "scheduled" /\ ii' = ii + 1 /\ phase' = "schedule"
          /\ UNCHANGED <<loop, searchVars, stime, placed, esc>>
      BY <1>2 DEF AllocationFails, attemptVars
    <2>2. SchedInv'
      BY <2>1, NextIntervalKeeps DEF AttemptInv
    <2>3. ii' > 0
      BY <2>1 DEF AttemptInv, SchedInv
    <2> QED BY <2>1, <2>2, <2>3 DEF AttemptInv, StartInv, Attempting
  <1> QED BY <1>1, <1>2

\* A location that no other one excludes, or the first.
LEMMA PRPlaced ==
  ASSUME AttemptInv, StartInv, phase = "scheduled", esc \in Nat, PRAllocating,
         NEW sel \in Lives(PR) \ DOMAIN location[PR]
  PROVE  Best_fit(location[PR], sel) \in Int
  <1>1. DOMAIN life = {Open, Branch} /\ \A l \in DOMAIN life : LifeOK(l)
    BY PRLives DEF PRAllocating
  <1>2. Lives(PR) = {Open, Branch}
    BY DEF Lives, PR, GPR
  <1>3. ii \in Nat /\ ii > 0
    BY DEF AttemptInv, SchedInv
  <1>4. PICK at : at = location[PR]
    OBVIOUS
  <1>5. DOMAIN at \in SUBSET {Open, Branch} /\ \A l \in DOMAIN at : LifeOK(l) /\ at[l] \in Int
    BY <1>1, <1>2, <1>4 DEF PRAllocating
  <1>6. IsFiniteSet({Open, Branch})
    <2>1. IsFiniteSet({Branch})
      BY FS_Singleton
    <2>2. IsFiniteSet({Branch} \cup {Open})
      BY <2>1, FS_AddElement
    <2>3. {Branch} \cup {Open} = {Open, Branch}
      OBVIOUS
    <2> QED BY <2>2, <2>3
  <1>7. IsFiniteSet(DOMAIN at) /\ IsFiniteSet(DOMAIN life)
    BY <1>1, <1>5, <1>6, FS_Subset
  <1>8. LifeOK(sel) /\ DOMAIN at # {}
    BY <1>1, <1>2, <1>4 DEF PRAllocating
  <1>9. Best_fit(at, sel) \in Int
    BY <1>1, <1>3, <1>5, <1>7, <1>8, BestFitFree
  <1> QED BY <1>4, <1>9

\* Where the file is large enough, it has room for every stage.
LEMMA PRFits ==
  ASSUME AttemptInv, StartInv, phase = "scheduled", esc \in Nat, PRAllocating,
         DOMAIN location[PR] = Lives(PR), Requirements(Rotated(location[PR])) <= reg_max[PR]
  PROVE  /\ Rotated(location[PR])[Branch] \in Int
         /\ \A op \in Ops : Floor(Issue(op)) + 2 <= reg_max[PR]
  <1>1. /\ DOMAIN life = {Open, Branch} /\ \A l \in DOMAIN life : LifeOK(l)
        /\ life[Branch].start = ii - 1
        /\ \A op \in Ops : Issue(op) \in Nat /\ life[Branch].stop >= Issue(op) + ii + 1
    BY PRLives DEF PRAllocating
  <1>2. Lives(PR) = {Open, Branch}
    BY DEF Lives, PR, GPR
  <1>3. ii \in Nat /\ ii > 0
    BY DEF AttemptInv, SchedInv
  <1>4. PICK at : at = location[PR]
    OBVIOUS
  <1>5. DOMAIN at = {Open, Branch} /\ \A l \in DOMAIN at : at[l] \in Int
    BY <1>2, <1>4 DEF PRAllocating
  <1>6. IsFiniteSet({Open, Branch})
    <2>1. IsFiniteSet({Branch})
      BY FS_Singleton
    <2>2. IsFiniteSet({Branch} \cup {Open})
      BY <2>1, FS_AddElement
    <2>3. {Branch} \cup {Open} = {Open, Branch}
      OBVIOUS
    <2> QED BY <2>2, <2>3
  <1>7. Min({0} \cup {at[l] : l \in DOMAIN at}) \in Int
    <2> DEFINE A == {at[l] : l \in DOMAIN at}
               T == {0} \cup A
    <2>1. IsFiniteSet(A)
      BY <1>5, <1>6, ImageFinite
    <2>2. A \in SUBSET Int
      BY <1>5
    <2> HIDE DEF A
    <2>3. IsFiniteSet(T) /\ T \in SUBSET Int /\ T # {}
      <3>1. IsFiniteSet({0})
        BY FS_Singleton
      <3>2. IsFiniteSet({0} \cup A)
        BY <2>1, <3>1, FS_Union
      <3> QED BY <2>2, <3>2
    <2> HIDE DEF T
    <2>4. Min(T) \in Int
      BY <2>3, MinIs
    <2> QED BY <2>4 DEF T, A
  <1>8. PICK m \in Int : m = Min({0} \cup {at[l] : l \in DOMAIN at})
    BY <1>7, Zenon
  <1>9. PICK rot : rot = Rotated(at)
    OBVIOUS
  <1>10. rot = [l \in DOMAIN at |-> at[l] + (-m)]
    BY <1>8, <1>9, Zenon DEF Rotated
  <1>11. DOMAIN rot = {Open, Branch} /\ \A l \in DOMAIN rot : LifeOK(l) /\ rot[l] \in Int
    <2>1. DOMAIN rot = DOMAIN at
      BY <1>10
    <2>2. ASSUME NEW l \in DOMAIN at PROVE rot[l] \in Int
      <3>1. rot[l] = at[l] + (-m) /\ at[l] \in Int
        BY <1>5, <1>10
      <3> QED BY <1>8, <3>1
    <2> QED BY <1>1, <1>5, <2>1, <2>2
  <1>12. /\ Requirements(rot) \in Int
         /\ Requirements(rot) >= Ceil(life[Branch].stop) - Floor(life[Branch].start)
    BY <1>3, <1>6, <1>11, RequirementsIs
  <1>13. ASSUME NEW op \in Ops PROVE Floor(Issue(op)) + 2 <= reg_max[PR]
    <2>1. Issue(op) \in Int /\ life[Branch].stop \in Int /\ life[Branch].stop >= Issue(op) + ii + 1
      BY <1>1 DEF LifeOK
    <2>2. Floor(life[Branch].start) = 0
      BY <1>1, <1>3 DEF Floor
    <2>3. Floor(Issue(op)) \in Int
      BY <1>3, <2>1, DivMod DEF Floor
    <2>4. Ceil(life[Branch].stop) >= Floor(Issue(op)) + 2
      <3>1. PICK s \in Int : s = life[Branch].stop
        BY <2>1
      <3>2. Issue(op) + ii * 2 <= s + ii - 1 /\ Issue(op) + ii * 2 \in Int /\ s + ii - 1 \in Int
        BY <1>3, <2>1, <3>1
      <3>3. (Issue(op) + ii * 2) \div ii <= (s + ii - 1) \div ii
        BY <1>3, <3>2, DivMono
      <3>4. (Issue(op) + ii * 2) \div ii = Floor(Issue(op)) + 2
        BY <1>3, <2>1, DivPlus DEF Floor
      <3> QED BY <3>1, <3>3, <3>4 DEF Ceil, Ceiling
    <2>5. Ceil(life[Branch].stop) \in Int
      BY <1>3, <2>1, CeilIs
    <2>6. reg_max[PR] \in Nat
      BY FileAssumption DEF Files
    <2>7. Requirements(rot) <= reg_max[PR]
      BY <1>4, <1>9
    <2> QED BY <1>12, <2>2, <2>3, <2>4, <2>5, <2>6, <2>7
  <1> QED BY <1>4, <1>9, <1>11, <1>13

\* A lifetime is placed.
LEMMA PlacingKeeps ==
  ASSUME AttemptInv, StartInv, esc \in Nat, AllocInv, NEW sel, AllocateFirst(sel) \/ AllocateNext(sel)
  PROVE  AllocInv'
  <1>1. /\ phase = "scheduled" /\ file \in Files /\ sel \in Lives(file)
        /\ UNCHANGED schedVars /\ file' = file
    BY DEF AllocateFirst, AllocateNext
  <1>2. PICK loc : location' = [location EXCEPT ![file] = With(location[file], sel, loc)]
    BY DEF AllocateFirst, AllocateNext, Place
  <1>3. DOMAIN location' = Files /\ phase' = "scheduled" /\ file' \in {GPR, PR}
    BY <1>1, <1>2 DEF AllocInv, schedVars, Files
  <1>4. CASE file = GPR
    <2>1. location'[PR] = location[PR]
      BY <1>2, <1>4 DEF AllocInv, Files, GPR, PR
    <2> QED BY <1>1, <1>3, <1>4, <2>1 DEF AllocInv, GPR, PR
  <1>5. CASE file = PR
    <2>1. Construct_lifetimes(PR)' = Construct_lifetimes(PR) /\ Lives(PR)' = Lives(PR)
      BY <1>1 DEF Construct_lifetimes, Process_open_loop_data, Process_input_data, Uses, FlowOf, Issue,
            Lives, Results, Floor, Ceil, stage_count, schedVars, attemptVars
    <2>2. life' = Construct_lifetimes(PR)
      BY <1>5 DEF AllocateFirst, AllocateNext, AllocInv, PRAllocating
    <2>3. \E c \in Int : location' = [location EXCEPT ![PR] = With(location[PR], sel, c)]
      <3>1. CASE AllocateFirst(sel)
        <4>1. location' = [location EXCEPT ![PR] = With(location[PR], sel, 0)]
          BY <1>5, <3>1, Zenon DEF AllocateFirst, Place
        <4>2. 0 \in Int
          OBVIOUS
        <4> QED BY <4>1, <4>2, Zenon
      <3>2. CASE AllocateNext(sel)
        <4>1. location[PR] # <<>> /\ PRAllocating /\ sel \in Lives(PR) \ DOMAIN location[PR]
          BY <1>5, <3>2 DEF AllocateNext, AllocInv
        <4>2. Best_fit(location[PR], sel) \in Int
          BY <1>1, <4>1, PRPlaced
        <4>3. location' = [location EXCEPT ![PR] = With(location[PR], sel, Best_fit(location[PR], sel))]
          BY <1>5, <3>2, Zenon DEF AllocateNext, Place
        <4> QED BY <4>2, <4>3
      <3> QED BY <3>1, <3>2
    <2>4. PICK c \in Int : location' = [location EXCEPT ![PR] = With(location[PR], sel, c)]
      BY <2>3
    <2>5. location'[PR] = With(location[PR], sel, c)
      BY <2>4 DEF AllocInv, Files
    <2>6. /\ DOMAIN location[PR] \in SUBSET Lives(PR)
          /\ \A l \in DOMAIN location[PR] : location[PR][l] \in Int
      <3>1. CASE location[PR] = <<>>
        BY <3>1
      <3> QED BY <1>5, <3>1 DEF AllocInv, PRAllocating
    <2>7. /\ DOMAIN location'[PR] = DOMAIN location[PR] \cup {sel}
          /\ \A l \in DOMAIN location'[PR] : location'[PR][l] \in Int
      BY <2>4, <2>5, <2>6 DEF With
    <2>8. PRAllocating'
      <3>1. DOMAIN location'[PR] \in SUBSET Lives(PR)
        BY <1>1, <1>5, <2>6, <2>7
      <3> QED BY <2>1, <2>2, <2>7, <3>1 DEF PRAllocating
    <2> QED BY <1>1, <1>3, <1>5, <2>8 DEF AllocInv, GPR, PR
  <1> QED BY <1>1, <1>4, <1>5 DEF Files

\* The allocator goes from one file to the next.
LEMMA AllocInvKeeps ==
  ASSUME AttemptInv, StartInv, esc \in Nat, AllocInv,
         \/ SchedStep /\ UNCHANGED allocVars
         \/ Allocate
         \/ UNCHANGED rotVars
  PROVE  AllocInv'
  <1>1. CASE SchedStep /\ UNCHANGED allocVars
    <2>1. phase # "scheduled"
      BY <1>1 DEF SchedStep, LimitTooLow, LimitFound, SearchStep, StartAtMII, init_sched_state, OutOfIntervals,
            InLegalSlot, InForcedSlot, Scheduling, Scheduled, BumpII
    <2>2. /\ file = GPR /\ location[GPR] = <<>> /\ location[PR] = <<>> /\ DOMAIN location = Files
          /\ file' = file /\ location' = location
      BY <1>1, <2>1 DEF AllocInv, allocVars
    <2> QED BY <2>2 DEF AllocInv, GPR, PR
  <1>2. CASE \E sel \in Nodes \cup {Open} : AllocateFirst(sel) \/ AllocateNext(sel)
    BY <1>2, PlacingKeeps
  <1>3. CASE FileAllocated
    <2>1. /\ phase = "scheduled" /\ AllPlaced /\ UNCHANGED schedVars /\ file' = file + 1
          /\ Requirements(Rotated(location[file])) <= reg_max[file]
          /\ location' = [location EXCEPT ![file] = Rotated(location[file])]
      BY <1>3 DEF FileAllocated
    <2>2. /\ file \in Files /\ DOMAIN location[file] = Lives(file) /\ DOMAIN location = Files
          /\ DOMAIN location' = Files /\ phase' = "scheduled"
      BY <2>1 DEF AllPlaced, AllocInv, schedVars
    <2>3. CASE file = GPR
      <3>1. location'[PR] = <<>> /\ file' = PR
        BY <2>1, <2>2, <2>3 DEF AllocInv, Files, GPR, PR
      <3> QED BY <2>2, <3>1 DEF AllocInv, GPR, PR
    <2>4. CASE file = PR
      <3>1. PRAllocating
        <4>1. DOMAIN location[PR] # {}
          BY <2>2, <2>4 DEF Lives
        <4>2. location[PR] # <<>>
          BY <4>1
        <4> QED BY <2>4, <4>2 DEF AllocInv
      <3>2. /\ Rotated(location[PR])[Branch] \in Int
            /\ \A op \in Ops : Floor(Issue(op)) + 2 <= reg_max[PR]
        BY <2>1, <2>2, <2>4, <3>1, PRFits
      <3>3. location'[PR] = Rotated(location[PR])
        BY <2>1, <2>2, <2>4
      <3>4. \A op : Floor(Issue(op))' = Floor(Issue(op))
        BY <2>1 DEF Floor, Issue, schedVars, attemptVars
      <3>5. PRAllocated'
        BY <3>2, <3>3, <3>4 DEF PRAllocated
      <3> QED BY <2>1, <2>2, <2>4, <3>5 DEF AllocInv, GPR, PR
    <2> QED BY <2>2, <2>3, <2>4 DEF Files
  <1>4. CASE AllocationFails
    <2>1. file' = GPR /\ location' = [f \in Files |-> <<>>]
      BY <1>4 DEF AllocationFails
    <2> QED BY <2>1 DEF AllocInv, Files, GPR, PR
  <1>5. CASE UNCHANGED rotVars
    <2>1. UNCHANGED <<phase, file, location, life, loop, stime, ii, esc>>
      BY <1>5 DEF rotVars, schedVars, allocVars, attemptVars
    <2>2. Construct_lifetimes(PR)' = Construct_lifetimes(PR) /\ Lives(PR)' = Lives(PR)
      BY <2>1 DEF Construct_lifetimes, Process_open_loop_data, Process_input_data, Uses, FlowOf, Issue,
            Lives, Results, Floor, Ceil, stage_count
    <2>3. PRAllocating' <=> PRAllocating
      BY <2>1, <2>2 DEF PRAllocating
    <2>4. PRAllocated' <=> PRAllocated
      BY <2>1 DEF PRAllocated, Floor, Issue
    <2> QED BY <2>1, <2>3, <2>4 DEF AllocInv
  <1> QED BY <1>1, <1>2, <1>3, <1>4, <1>5 DEF Allocate

-----------------------------------------------------------------------------
\* Rotating registers.

\* A base that counts modulo a multiple of the file's size loses nothing.
LEMMA ModMod ==
  ASSUME NEW a \in Int, NEW w \in Nat, NEW r \in Nat, w > 0, r > 0, w % r = 0
  PROVE  (a % w) % r = a % r
  <1> DEFINE k == w \div r
             q == a \div w
             b == a % w
             p == b \div r
             c == b % r
  <1>1. k \in Int /\ w = r * k
    <2>1. k \in Int /\ w = r * k + (w % r)
      BY DivMod
    <2> HIDE DEF k
    <2>2. r * k \in Int
      BY <2>1
    <2> QED BY <2>1, <2>2
  <1>2. q \in Int /\ b \in 0..(w - 1) /\ a = w * q + b
    BY DivMod
  <1> HIDE DEF q, b
  <1>3. p \in Int /\ c \in 0..(r - 1) /\ b = r * p + c
    BY <1>2, DivMod
  <1> HIDE DEF k, p, c
  <1>4. a = r * (k * q + p) + c
    <2>1. k * q \in Int /\ r * (k * q) \in Int /\ r * p \in Int
      BY <1>1, <1>2, <1>3
    <2>2. w * q = r * (k * q)
      <3>1. w * q = (r * k) * q
        BY <1>1
      <3>2. (r * k) * q = r * (k * q)
        BY <1>1, <1>2
      <3> QED BY <3>1, <3>2
    <2>3. r * (k * q + p) = r * (k * q) + r * p
      BY <1>3, <2>1
    <2> QED BY <1>2, <1>3, <2>1, <2>2, <2>3
  <1>5. k * q + p \in Int
    BY <1>1, <1>2, <1>3
  <1>6. PICK m \in Int : m = k * q + p
    BY <1>5
  <1>7. a = r * m + c
    BY <1>4, <1>6
  <1>8. (r * m + c) % r = c
    BY <1>3, <1>6, ModUnique
  <1> QED BY <1>7, <1>8 DEF b, c

\* The remainder of a sum is that of the sum with a remainder.
LEMMA ModSum ==
  ASSUME NEW a \in Int, NEW b \in Int, NEW r \in Nat, r > 0
  PROVE  (a + (b % r)) % r = (a + b) % r
  <1> DEFINE p == b \div r
             c == b % r
             s == a + c
             q == s \div r
             d == s % r
  <1>1. p \in Int /\ c \in 0..(r - 1) /\ b = r * p + c
    BY DivMod
  <1> HIDE DEF p, c
  <1>2. s \in Int
    BY <1>1
  <1>3. q \in Int /\ d \in 0..(r - 1) /\ s = r * q + d
    <2> HIDE DEF s
    <2> QED BY <1>2, DivMod
  <1> HIDE DEF q, d
  <1>4. a + b = r * (q + p) + d
    <2>1. r * q \in Int /\ r * p \in Int /\ r * (q + p) = r * q + r * p
      BY <1>1, <1>3
    <2> QED BY <1>1, <1>2, <1>3, <2>1
  <1>5. PICK m \in Int : m = q + p
    BY <1>1, <1>3
  <1>6. (r * m + d) % r = d
    BY <1>3, <1>5, ModUnique
  <1>7. a + b = r * m + d
    BY <1>4, <1>5
  <1> QED BY <1>6, <1>7 DEF d, s, c

\* Numbers less than the size of a file apart are different registers of it.
LEMMA ModApart ==
  ASSUME NEW a \in Int, NEW r \in Nat, r > 0, NEW j \in 1..(r - 1)
  PROVE  (a + j) % r # a % r
  <1>1. a % r \in 0..(r - 1)
    BY DivMod
  <1>2. (a + j) % r = IF (a % r) + j < r THEN (a % r) + j ELSE (a % r) + j - r
    <2>1. j \in 0..r
      OBVIOUS
    <2> QED BY <2>1, ModPlus
  <1> QED BY <1>1, <1>2

\* SREG and PREG, whatever the base.
LEMMA PhysicalIs ==
  ASSUME NEW f \in Files, NEW a \in Int, NEW base \in Int
  PROVE  /\ Physical(f, a % reg_max[f], base) = (a + base) % reg_max[f]
         /\ (a + (base % WORD)) % reg_max[f] = (a + base) % reg_max[f]
         /\ (a + base) % reg_max[f] \in 0..(reg_max[f] - 1)
  <1> DEFINE r == reg_max[f]
  <1>1. r \in Nat /\ r > 0 /\ WORD \in Nat /\ WORD > 0 /\ WORD % r = 0
    BY FileAssumption, WordAssumption
  <1> HIDE DEF r
  <1>2. ASSUME NEW x \in Int, NEW y \in Int
        PROVE  ((x % r) + y) % r = (x + y) % r
    <2>1. (y + (x % r)) % r = (y + x) % r
      BY <1>1, ModSum
    <2>2. x % r \in Int
      BY <1>1, DivMod
    <2> QED BY <2>1, <2>2
  <1>3. (((a % r) + base) % WORD) % r = (a + base) % r
    <2>1. a % r \in Int /\ (a % r) + base \in Int
      BY <1>1, DivMod
    <2>2. PICK x \in Int : x = (a % r) + base
      BY <2>1
    <2>3. (x % WORD) % r = x % r
      BY <1>1, ModMod
    <2> QED BY <1>2, <2>2, <2>3
  <1>4. (a + (base % WORD)) % r = (a + base) % r
    <2>1. PICK x \in Int : x = base % WORD
      BY <1>1, DivMod
    <2>2. x % r = base % r
      BY <1>1, <2>1, ModMod
    <2>3. (a + x) % r = (a + (x % r)) % r /\ (a + base) % r = (a + (base % r)) % r
      BY <1>1, ModSum
    <2> QED BY <2>1, <2>2, <2>3
  <1>5. (a + base) % r \in 0..(r - 1)
    <2>1. PICK x \in Int : x = a + base
      OBVIOUS
    <2> QED BY <1>1, <2>1, DivMod
  <1> QED BY <1>3, <1>4, <1>5 DEF Physical, r

-----------------------------------------------------------------------------
\* The loop.

\* What the invariant says once the loop is allocated.
LEMMA AllocatedFacts ==
  ASSUME SwpInv, file = PR + 1, phase = "scheduled"
  PROVE  /\ ii \in Nat /\ ii > 0 /\ esc \in Nat /\ RRB \in Int
         /\ reg_max[PR] \in Nat /\ reg_max[PR] > 0 /\ PR \in Files
         /\ location[PR][Branch] \in Int
         /\ Issue(Branch) = ii - 1
         /\ \A op \in Ops : Issue(op) \in Nat /\ Floor(Issue(op)) \in 0..(reg_max[PR] - 2)
         /\ \A j \in Int : Staging(j) \in PRs
  <1>1. /\ ii \in Nat /\ ii > 0 /\ esc \in Nat /\ RRB \in Int /\ stime \in [Nodes -> Int]
        /\ stime[Branch] = ii /\ PRAllocated
    <2>1. RRB \in Int
      BY WordAssumption DEF SwpInv
    <2> QED BY <2>1 DEF SwpInv, AttemptInv, SchedInv, StartInv, Attempting, AllocInv, GPR, PR
  <1>2. /\ reg_max[PR] \in Nat /\ reg_max[PR] > 0 /\ PR \in Files
    BY FileAssumption DEF Files
  <1>3. placed = Nodes
    BY ScheduleComplete DEF SwpInv
  <1>4. ASSUME NEW op \in Ops PROVE Issue(op) \in Nat /\ Floor(Issue(op)) \in 0..(reg_max[PR] - 2)
    <2>1. op \in Nodes
      BY OpType
    <2>2. stime[op] \in Int /\ stime[op] >= 1
      BY <1>1, <1>3, <2>1 DEF SwpInv, StartInv, Attempting
    <2>3. PICK x \in Nat : x = Issue(op)
      BY <2>2 DEF Issue
    <2>4. x \div ii \in Nat
      BY <1>1
    <2>5. Floor(Issue(op)) + 2 <= reg_max[PR]
      BY <1>1 DEF PRAllocated
    <2> QED BY <1>2, <2>3, <2>4, <2>5 DEF Floor
  <1>5. ASSUME NEW j \in Int PROVE Staging(j) \in PRs
    <2>1. PICK x \in Int : x = location[PR][Branch] + 1 + RRB + j
      BY <1>1 DEF PRAllocated
    <2>2. x % reg_max[PR] \in 0..(reg_max[PR] - 1)
      BY <1>2, <2>1, DivMod
    <2> QED BY <2>1, <2>2 DEF Staging, PRs
  <1>6. Issue(Branch) = ii - 1
    BY <1>1 DEF Issue
  <1> QED BY <1>1, <1>2, <1>4, <1>5, <1>6 DEF PRAllocated

\* The registers the binding gives for the staging predicate: a guard is that
\* of the operation's iteration, the branch defines the one before the newest,
\* and the preloop the newest.
LEMMA StagingRegs ==
  ASSUME SwpInv, file = PR + 1, phase = "scheduled"
  PROVE  /\ \A op \in Ops : Guard(op) = pr[Staging(Floor(Issue(op)))]
         /\ Physical(PR, DefReg(PR, Branch), RRB) = Staging(-1)
         /\ Physical(PR, EntryReg(PR, Branch, 0), RRB) = Staging(0)
  <1> DEFINE loc == location[PR][Branch]
  <1>1. /\ ii \in Nat /\ ii > 0 /\ RRB \in Int /\ PR \in Files /\ loc \in Int
        /\ Issue(Branch) = ii - 1
        /\ \A op \in Ops : Issue(op) \in Nat /\ Floor(Issue(op)) \in 0..(reg_max[PR] - 2)
    BY AllocatedFacts
  <1> HIDE DEF loc
  <1>2. base_evr(Branch) = -1
    BY DEF base_evr
  <1>3. ASSUME NEW x \in Int
        PROVE  Physical(PR, x % reg_max[PR], RRB) = (x + RRB) % reg_max[PR]
    BY <1>1, PhysicalIs
  <1>4. ASSUME NEW op \in Ops PROVE Guard(op) = pr[Staging(Floor(Issue(op)))]
    <2>1. Floor(Issue(op) + (0 - base_evr(Branch)) * ii) = Floor(Issue(op)) + 1
      <3>1. PICK x \in Int : x = Issue(op)
        BY <1>1
      <3>2. (x + ii * 1) \div ii = (x \div ii) + 1
        BY <1>1, DivPlus
      <3>3. x + (0 - base_evr(Branch)) * ii = x + ii * 1
        BY <1>1, <1>2
      <3> QED BY <3>1, <3>2, <3>3 DEF Floor
    <2>2. PICK y \in Int : y = Floor(Issue(op))
      BY <1>1
    <2>3. UseReg(PR, Branch, op, 0) = (loc + (y + 1)) % reg_max[PR]
      BY <2>1, <2>2 DEF UseReg, loc
    <2>4. Physical(PR, UseReg(PR, Branch, op, 0), RRB) = ((loc + (y + 1)) + RRB) % reg_max[PR]
      <3>1. PICK z \in Int : z = loc + (y + 1)
        BY <1>1
      <3> QED BY <1>3, <2>3, <3>1
    <2>5. (loc + (y + 1)) + RRB = loc + 1 + RRB + y
      BY <1>1
    <2>6. Physical(PR, UseReg(PR, Branch, op, 0), RRB) = Staging(Floor(Issue(op)))
      BY <2>2, <2>4, <2>5 DEF Staging, loc
    <2> QED BY <2>6 DEF Guard
  <1>5. Physical(PR, DefReg(PR, Branch), RRB) = Staging(-1)
    <2>1. Floor(Issue(Branch)) = 0
      BY <1>1 DEF Floor
    <2>2. DefReg(PR, Branch) = (loc + 0) % reg_max[PR]
      BY <2>1 DEF DefReg, loc
    <2>3. loc + 0 = loc /\ loc + RRB = loc + 1 + RRB + (-1)
      BY <1>1
    <2>4. Physical(PR, DefReg(PR, Branch), RRB) = (loc + RRB) % reg_max[PR]
      BY <1>1, <1>3, <2>2, <2>3
    <2> QED BY <2>3, <2>4 DEF Staging, loc
  <1>6. Physical(PR, EntryReg(PR, Branch, 0), RRB) = Staging(0)
    <2>1. PICK z \in Int : z = loc + 0 - base_evr(Branch)
      BY <1>1, <1>2
    <2>2. EntryReg(PR, Branch, 0) = z % reg_max[PR]
      BY <2>1 DEF EntryReg, loc
    <2>3. z + RRB = loc + 1 + RRB + 0
      BY <1>1, <1>2, <2>1
    <2>4. Physical(PR, z % reg_max[PR], RRB) = (z + RRB) % reg_max[PR]
      BY <1>3
    <2> QED BY <2>2, <2>3, <2>4 DEF Staging, loc
  <1> QED BY <1>4, <1>5, <1>6

\* Numbers less than the size of the file apart.
LEMMA StagingApart ==
  ASSUME SwpInv, file = PR + 1, phase = "scheduled", NEW i \in Int, NEW j \in 1..(reg_max[PR] - 1)
  PROVE  Staging(i + j) # Staging(i)
  <1>1. location[PR][Branch] \in Int /\ RRB \in Int /\ reg_max[PR] \in Nat /\ reg_max[PR] > 0
    BY AllocatedFacts
  <1>2. PICK x \in Int : x = location[PR][Branch] + 1 + RRB + i
    BY <1>1
  <1>3. location[PR][Branch] + 1 + RRB + (i + j) = x + j
    BY <1>1, <1>2
  <1>4. (x + j) % reg_max[PR] # x % reg_max[PR]
    BY <1>1, ModApart
  <1> QED BY <1>2, <1>3, <1>4 DEF Staging

\* The preloop leaves one predicate set: that of iteration 0.
LEMMA EnterKeeps ==
  ASSUME SwpInv, NEW lc \in 0..MAXLC, Enter(lc)
  PROVE  kphase' = "kernel" /\ KernelInv' /\ RRB' = RRB /\ pr' \in [PRs -> BOOLEAN]
  <1>1. /\ phase = "scheduled" /\ file = PR + 1
        /\ kphase' = "kernel" /\ clock' = 0 /\ trips' = lc /\ LC' = lc /\ ESC' = esc
        /\ pr' = [p \in PRs |-> p = Physical(PR, EntryReg(PR, Branch, 0), RRB)]
        /\ UNCHANGED <<rotVars, RRB>>
    BY DEF Enter, SwpInv, AllocInv, GPR, PR, Files
  <1>2. /\ ii \in Nat /\ ii > 0 /\ esc \in Nat /\ reg_max[PR] \in Nat /\ reg_max[PR] > 0
        /\ \A j \in Int : Staging(j) \in PRs
    BY <1>1, AllocatedFacts
  <1>3. Physical(PR, EntryReg(PR, Branch, 0), RRB) = Staging(0)
    BY <1>1, StagingRegs
  <1>4. pr' \in [PRs -> BOOLEAN]
    BY <1>1
  <1>5. /\ ii' = ii /\ esc' = esc /\ location' = location /\ RRB' = RRB
    BY <1>1 DEF rotVars, schedVars, allocVars
  <1>6. Rounds' = 0 /\ \A j : Staging(j)' = Staging(j)
    <2>1. Rounds' = 0
      BY <1>1, <1>2, <1>5 DEF Rounds, Floor
    <2> QED BY <1>5, <2>1 DEF Staging
  <1>7. ASSUME NEW j \in 0..(reg_max[PR] - 1)
        PROVE  pr'[Staging(j)'] <=> Rounds' - j \in 0..trips'
    <2>1. j \in Int /\ Staging(j) \in PRs
      BY <1>2
    <2>2. pr'[Staging(j)'] <=> Staging(j) = Staging(0)
      BY <1>1, <1>3, <1>6, <2>1
    <2>3. CASE j = 0
      <3>1. Rounds' - j \in 0..trips'
        BY <1>1, <1>6, <2>3
      <3> QED BY <2>2, <2>3, <3>1
    <2>4. CASE j # 0
      <3>1. j \in 1..(reg_max[PR] - 1) /\ 0 + j = j
        BY <2>4
      <3>2. Staging(0 + j) # Staging(0)
        BY <1>1, <3>1, StagingApart
      <3>3. Rounds' - j \notin 0..trips'
        BY <1>1, <1>6, <3>1
      <3> QED BY <2>2, <3>1, <3>2, <3>3
    <2> QED BY <2>3, <2>4
  <1>8. MAXLC \in Nat /\ lc \in Nat
    BY WordAssumption
  <1> QED BY <1>1, <1>2, <1>4, <1>5, <1>6, <1>7, <1>8 DEF KernelInv

\* The branch ends the interval.
LEMMA RoundsAre ==
  ASSUME SwpInv, file = PR + 1, phase = "scheduled", clock \in Nat, clock' = clock + 1, ii' = ii
  PROVE  /\ Rounds \in Nat /\ ii * Rounds <= clock /\ clock < ii * (Rounds + 1)
         /\ Issues(Branch) => Rounds' = Rounds + 1 /\ clock' = ii * (Rounds + 1)
         /\ ~Issues(Branch) => Rounds' = Rounds
  <1>1. ii \in Nat /\ ii > 0 /\ Issue(Branch) = ii - 1
    BY AllocatedFacts
  <1> DEFINE n == clock \div ii
             r == clock % ii
  <1>2. n \in Int /\ r \in 0..(ii - 1) /\ clock = ii * n + r
    BY <1>1, DivMod
  <1>3. n \in Nat
    BY <1>1
  <1>4. Rounds = n /\ Rounds' = (clock + 1) \div ii
    BY DEF Rounds, Floor
  <1>5. Issues(Branch) <=> r = ii - 1
    <2>1. (ii - 1) % ii = ii - 1
      BY <1>1
    <2> QED BY <1>1, <2>1 DEF Issues
  <1> HIDE DEF n, r
  <1>6. ii * n \in Int /\ ii * (n + 1) = ii * n + ii
    BY <1>1, <1>2
  <1>7. ASSUME NEW m \in Int, NEW s \in 0..(ii - 1) PROVE (ii * m + s) \div ii = m
    BY <1>1
  <1>8. CASE r = ii - 1
    <2>1. clock + 1 = ii * (n + 1) + 0 /\ clock + 1 = ii * (n + 1)
      BY <1>1, <1>2, <1>6, <1>8
    <2>2. 0 \in 0..(ii - 1) /\ n + 1 \in Int
      BY <1>1, <1>2
    <2>3. (ii * (n + 1) + 0) \div ii = n + 1
      BY <1>7, <2>2
    <2> QED BY <1>1, <1>2, <1>3, <1>4, <1>5, <1>6, <1>8, <2>1, <2>3
  <1>9. CASE r # ii - 1
    <2>1. clock + 1 = ii * n + (r + 1) /\ r + 1 \in 0..(ii - 1)
      BY <1>1, <1>2, <1>6, <1>9
    <2>2. (ii * n + (r + 1)) \div ii = n
      BY <1>2, <1>7, <2>1
    <2> QED BY <1>1, <1>2, <1>3, <1>4, <1>5, <1>6, <1>9, <2>1, <2>2
  <1> QED BY <1>8, <1>9

\* The loop branch turns the registers by one and moves the window of the
\* staging predicates by one iteration.
LEMMA TurnKeeps ==
  ASSUME SwpInv, file = PR + 1, phase = "scheduled", KernelInv, Rotate, SetStaging(LC > 0),
         UNCHANGED rotVars, trips' = trips, Rounds' = Rounds + 1
  PROVE  /\ RRB' \in 0..(WORD - 1) /\ pr' \in [PRs -> BOOLEAN]
         /\ \A j \in 0..(reg_max[PR] - 1) : pr'[Staging(j)'] <=> Rounds' - j \in 0..trips'
  <1> DEFINE b == LC > 0
  <1>1. /\ ii \in Nat /\ ii > 0 /\ esc \in Nat /\ RRB \in Int /\ PR \in Files
        /\ reg_max[PR] \in Nat /\ reg_max[PR] > 0 /\ location[PR][Branch] \in Int
        /\ \A j \in Int : Staging(j) \in PRs
    BY AllocatedFacts
  <1>2. clock \in Nat /\ trips \in Nat /\ Rounds \in Nat
    <2>1. clock \in Nat /\ trips \in Nat
      BY WordAssumption DEF KernelInv
    <2> QED BY <1>1, <2>1 DEF Rounds, Floor
  <1>3. RRB' = (RRB - 1) % WORD /\ RRB' \in 0..(WORD - 1)
    <2>1. RRB' = (RRB - 1) % WORD
      BY DEF Rotate
    <2>2. RRB - 1 \in Int /\ WORD \in Nat /\ WORD > 0
      BY <1>1, WordAssumption
    <2> QED BY <2>1, <2>2, DivMod
  <1>4. pr' = [pr EXCEPT ![Staging(-1)] = b]
    BY StagingRegs DEF SetStaging
  <1>5. pr \in [PRs -> BOOLEAN] /\ pr' \in [PRs -> BOOLEAN] /\ Staging(-1) \in PRs
    <2>1. pr \in [PRs -> BOOLEAN] /\ Staging(-1) \in PRs
      BY <1>1 DEF SwpInv
    <2>2. b \in BOOLEAN
      OBVIOUS
    <2> HIDE DEF b
    <2> QED BY <1>4, <2>1, <2>2
  <1>6. ASSUME NEW j \in Int PROVE Staging(j)' = Staging(j - 1)
    <2>1. location' = location
      BY DEF rotVars, allocVars
    <2>2. PICK x \in Int : x = location[PR][Branch] + 1 + j
      BY <1>1
    <2>3. (x + ((RRB - 1) % WORD)) % reg_max[PR] = (x + (RRB - 1)) % reg_max[PR]
      BY <1>1, PhysicalIs
    <2>4. location[PR][Branch] + 1 + RRB' + j = x + ((RRB - 1) % WORD)
      <3>1. RRB' \in Int
        BY <1>3, WordAssumption
      <3> QED BY <1>1, <1>3, <2>2, <3>1
    <2>5. x + (RRB - 1) = location[PR][Branch] + 1 + RRB + (j - 1)
      BY <1>1, <2>2
    <2> QED BY <2>1, <2>3, <2>4, <2>5 DEF Staging
  <1>7. b <=> Rounds < trips
    BY <1>2 DEF KernelInv
  <1> HIDE DEF b
  <1>8. ASSUME NEW j \in 0..(reg_max[PR] - 1)
        PROVE  pr'[Staging(j)'] <=> Rounds' - j \in 0..trips'
    <2>1. j \in Int /\ Staging(j)' = Staging(j - 1)
      BY <1>6
    <2>2. CASE j = 0
      <3>1. j - 1 = -1
        BY <2>2
      <3>2. pr'[Staging(j)'] <=> b
        BY <1>4, <1>5, <2>1, <3>1
      <3>3. Rounds' - j \in 0..trips' <=> Rounds < trips
        BY <1>2, <2>2
      <3> QED BY <1>7, <3>2, <3>3
    <2>3. CASE j # 0
      <3>1. j - 1 \in 0..(reg_max[PR] - 1) /\ -1 + j = j - 1 /\ j \in 1..(reg_max[PR] - 1)
        BY <1>1, <2>3
      <3>2. Staging(-1 + j) # Staging(-1)
        BY <3>1, StagingApart
      <3>3. pr'[Staging(j - 1)] = pr[Staging(j - 1)]
        BY <1>1, <1>4, <1>5, <3>1, <3>2
      <3>4. pr[Staging(j - 1)] <=> Rounds - (j - 1) \in 0..trips
        BY <3>1 DEF KernelInv
      <3>5. Rounds - (j - 1) = Rounds' - j
        BY <1>2, <3>1
      <3> QED BY <2>1, <3>3, <3>4, <3>5
    <2> QED BY <2>2, <2>3
  <1> QED BY <1>3, <1>5, <1>8

\* A cycle of the kernel; at the end of an interval, the loop branch.
LEMMA CycleKeeps ==
  ASSUME SwpInv, Cycle
  PROVE  /\ RRB' \in 0..(WORD - 1) /\ pr' \in [PRs -> BOOLEAN]
         /\ \/ kphase' = "kernel" /\ KernelInv'
            \/ kphase' = "after" /\ clock' = (trips' + stage_count') * ii'
  <1>1. /\ phase = "scheduled" /\ file = PR + 1 /\ kphase = "kernel" /\ KernelInv
        /\ clock' = clock + 1 /\ UNCHANGED rotVars /\ trips' = trips
    BY DEF Cycle, SwpInv
  <1>2. ii' = ii /\ esc' = esc /\ location' = location
    BY <1>1 DEF rotVars, schedVars, allocVars
  <1>3. ii \in Nat /\ ii > 0 /\ esc \in Nat
    BY <1>1, AllocatedFacts
  <1>4. clock \in Nat /\ trips \in 0..MAXLC /\ trips \in Nat
    BY <1>1, WordAssumption DEF KernelInv
  <1>5. /\ Rounds \in Nat
        /\ Issues(Branch) => Rounds' = Rounds + 1 /\ clock' = ii * (Rounds + 1)
        /\ ~Issues(Branch) => Rounds' = Rounds
    BY <1>1, <1>2, <1>4, RoundsAre
  <1>6. CASE ~Issues(Branch)
    <2>1. UNCHANGED <<kphase, LC, ESC, RRB, pr>>
      BY <1>6 DEF Cycle
    <2>2. \A j : Staging(j)' = Staging(j)
      BY <1>2, <2>1 DEF Staging
    <2>3. KernelInv'
      BY <1>1, <1>2, <1>4, <1>5, <1>6, <2>1, <2>2 DEF KernelInv
    <2> QED BY <1>1, <2>1, <2>3 DEF SwpInv
  <1>7. CASE Issues(Branch)
    <2>1. BRF
      BY <1>7 DEF Cycle
    <2>2. /\ Rounds <= trips + esc
          /\ LC = IF Rounds <= trips THEN trips - Rounds ELSE 0
          /\ ESC = IF Rounds <= trips THEN esc ELSE trips + esc - Rounds
      BY <1>1 DEF KernelInv
    <2>3. LC \in Nat /\ ESC \in Nat
      BY <1>3, <1>4, <1>5, <2>2
    <2>4. Rotate /\ SetStaging(LC > 0)
      <3>1. CASE LC > 0
        <4>0. ~(LC <= 0)
          BY <2>3, <3>1
        <4>1. Rotate /\ SetStaging(TRUE)
          BY <2>1, <4>0, Zenon DEF BRF
        <4>2. (LC > 0) = TRUE
          BY <3>1
        <4> QED BY <4>1, <4>2 DEF SetStaging
      <3>2. CASE ~(LC > 0)
        <4>1. Rotate /\ SetStaging(FALSE)
          BY <2>1, <3>2, Zenon DEF BRF
        <4>2. (LC > 0) = FALSE
          BY <3>2
        <4> QED BY <4>1, <4>2 DEF SetStaging
      <3> QED BY <3>1, <3>2
    <2>5. /\ RRB' \in 0..(WORD - 1) /\ pr' \in [PRs -> BOOLEAN]
          /\ \A j \in 0..(reg_max[PR] - 1) : pr'[Staging(j)'] <=> Rounds' - j \in 0..trips'
      BY <1>1, <1>5, <1>7, <2>4, TurnKeeps
    <2>6. CASE Rounds < trips + esc
      <3>1. kphase' = "kernel" /\ LC' = (IF LC > 0 THEN LC - 1 ELSE LC) /\ ESC' = (IF LC > 0 THEN ESC ELSE ESC - 1)
        <4>1. LC > 0 \/ (LC <= 0 /\ ESC > 0)
          BY <1>3, <1>4, <1>5, <2>2, <2>6
        <4>2. CASE LC > 0
          <5>1. ~(LC <= 0)
            BY <2>3, <4>2
          <5>2. kphase' = kphase /\ LC' = LC - 1 /\ ESC' = ESC
            BY <2>1, <5>1, Zenon DEF BRF
          <5> QED BY <1>1, <4>2, <5>2
        <4>3. CASE ~(LC > 0)
          <5>1. ESC > 0 /\ ESC # 0
            BY <2>3, <4>1, <4>3
          <5>2. kphase' = kphase /\ LC' = LC /\ ESC' = ESC - 1
            BY <2>1, <4>3, <5>1, Zenon DEF BRF
          <5> QED BY <1>1, <4>3, <5>2
        <4> QED BY <4>2, <4>3
      <3>2. Rounds' <= trips' + esc'
        BY <1>1, <1>2, <1>3, <1>4, <1>5, <1>7, <2>6
      <3>3. /\ LC' = IF Rounds' <= trips' THEN trips' - Rounds' ELSE 0
            /\ ESC' = IF Rounds' <= trips' THEN esc' ELSE trips' + esc' - Rounds'
        BY <1>1, <1>2, <1>3, <1>4, <1>5, <1>7, <2>2, <2>6, <3>1
      <3>4. clock' \in Nat /\ trips' \in 0..MAXLC
        BY <1>1, <1>4
      <3>5. KernelInv'
        BY <1>1, <2>5, <3>2, <3>3, <3>4 DEF KernelInv
      <3> QED BY <2>5, <3>1, <3>5
    <2>7. CASE ~(Rounds < trips + esc)
      <3>1. Rounds = trips + esc /\ LC = 0 /\ ESC = 0
        BY <1>3, <1>4, <1>5, <2>2, <2>7
      <3>2. kphase' = "after"
        BY <2>1, <3>1 DEF BRF
      <3>3. clock' = ii * (trips + esc + 1)
        BY <1>5, <1>7, <3>1
      <3>4. clock' = (trips' + stage_count') * ii'
        <4>1. ii * (trips + esc + 1) = (trips + (esc + 1)) * ii
          BY <1>3, <1>4
        <4> QED BY <1>1, <1>2, <3>3, <4>1 DEF stage_count
      <3> QED BY <2>5, <3>2, <3>4
    <2> QED BY <2>6, <2>7
  <1> QED BY <1>6, <1>7

\* No step of the loop breaks the invariant, from its scheduling to its end.
LEMMA SwpInvInductive == SwpInv /\ [SwpStep \/ SwpEnded]_swpVars => SwpInv'
  <1> SUFFICES ASSUME SwpInv, [SwpStep \/ SwpEnded]_swpVars PROVE SwpInv'
    OBVIOUS
  <1>0. AttemptInv /\ StartInv /\ esc \in Nat /\ AllocInv
    BY DEF SwpInv
  <1>1. CASE SchedStep /\ UNCHANGED <<allocVars, kernelVars>>
    <2>1. phase # "scheduled" /\ kphase = "before"
      BY <1>1 DEF SwpInv, SchedStep, LimitTooLow, LimitFound, SearchStep, StartAtMII, init_sched_state,
            OutOfIntervals, InLegalSlot, InForcedSlot, Scheduling, Scheduled, BumpII
    <2>2. AttemptInv' /\ StartInv' /\ esc' \in Nat
      BY <1>0, <1>1, SchedPartKeeps
    <2>3. AllocInv'
      BY <1>0, <1>1, AllocInvKeeps
    <2>4. UNCHANGED <<kphase, RRB, pr>>
      BY <1>1 DEF kernelVars
    <2>5. pr' \in [PRs -> BOOLEAN] /\ RRB' \in 0..(WORD - 1)
      BY <2>4 DEF SwpInv
    <2> QED BY <2>1, <2>2, <2>3, <2>4, <2>5 DEF SwpInv
  <1>2. CASE Allocate /\ UNCHANGED kernelVars
    <2>1. file \in Files /\ kphase = "before"
      BY <1>2 DEF SwpInv, Allocate, AllocateFirst, AllocateNext, FileAllocated, AllocationFails, AllPlaced,
            Files, GPR, PR
    <2>2. AttemptInv' /\ StartInv' /\ esc' \in Nat
      <3>1. AllocationFails \/ UNCHANGED schedVars
        BY <1>2 DEF Allocate, AllocateFirst, AllocateNext, FileAllocated
      <3> QED BY <1>0, <3>1, SchedPartKeeps
    <2>3. AllocInv'
      BY <1>0, <1>2, AllocInvKeeps
    <2>4. UNCHANGED <<kphase, RRB, pr>>
      BY <1>2 DEF kernelVars
    <2>5. pr' \in [PRs -> BOOLEAN] /\ RRB' \in 0..(WORD - 1)
      BY <2>4 DEF SwpInv
    <2> QED BY <2>1, <2>2, <2>3, <2>4, <2>5 DEF SwpInv
  <1>3. ASSUME UNCHANGED rotVars
        PROVE  AttemptInv' /\ StartInv' /\ esc' \in Nat /\ AllocInv' /\ phase' = phase /\ file' = file
    <2>1. UNCHANGED schedVars
      BY <1>3 DEF rotVars
    <2>2. AttemptInv' /\ StartInv' /\ esc' \in Nat
      BY <1>0, <2>1, SchedPartKeeps
    <2>3. AllocInv'
      BY <1>0, <1>3, AllocInvKeeps
    <2> QED BY <1>3, <2>2, <2>3 DEF rotVars, schedVars, allocVars
  <1>4. CASE \E lc \in 0..MAXLC : Enter(lc)
    <2>1. PICK lc \in 0..MAXLC : Enter(lc)
      BY <1>4
    <2>2. UNCHANGED rotVars /\ phase = "scheduled" /\ file = PR + 1
      BY <2>1 DEF Enter, SwpInv, AllocInv, Files, GPR, PR
    <2>3. kphase' = "kernel" /\ KernelInv' /\ RRB' = RRB /\ pr' \in [PRs -> BOOLEAN]
      BY <2>1, EnterKeeps
    <2>4. AttemptInv' /\ StartInv' /\ esc' \in Nat /\ AllocInv' /\ phase' = phase /\ file' = file
      BY <1>3, <2>2
    <2>5. RRB' \in 0..(WORD - 1)
      BY <2>3 DEF SwpInv
    <2> QED BY <2>2, <2>3, <2>4, <2>5 DEF SwpInv
  <1>5. CASE Cycle
    <2>1. UNCHANGED rotVars /\ phase = "scheduled" /\ file = PR + 1
      BY <1>5 DEF Cycle, SwpInv
    <2>2. /\ RRB' \in 0..(WORD - 1) /\ pr' \in [PRs -> BOOLEAN]
          /\ \/ kphase' = "kernel" /\ KernelInv'
             \/ kphase' = "after" /\ clock' = (trips' + stage_count') * ii'
      BY <1>5, CycleKeeps
    <2>3. AttemptInv' /\ StartInv' /\ esc' \in Nat /\ AllocInv' /\ phase' = phase /\ file' = file
      BY <1>3, <2>1
    <2> QED BY <2>1, <2>2, <2>3 DEF SwpInv
  <1>6. CASE UNCHANGED swpVars
    <2>1. UNCHANGED rotVars /\ UNCHANGED <<kphase, RRB, pr, LC, ESC, clock, trips>>
      BY <1>6 DEF swpVars, kernelVars
    <2>2. AttemptInv' /\ StartInv' /\ esc' \in Nat /\ AllocInv' /\ phase' = phase /\ file' = file
      BY <1>3, <2>1
    <2>3. ii' = ii /\ esc' = esc /\ location' = location
      BY <2>1 DEF rotVars, schedVars, allocVars
    <2>4. Rounds' = Rounds /\ \A j : Staging(j)' = Staging(j)
      BY <2>1, <2>3 DEF Rounds, Floor, Staging
    <2>5. KernelInv' <=> KernelInv
      BY <2>1, <2>3, <2>4 DEF KernelInv
    <2>6. stage_count' = stage_count
      BY <2>3 DEF stage_count
    <2>7. pr' \in [PRs -> BOOLEAN] /\ RRB' \in 0..(WORD - 1)
      BY <2>1 DEF SwpInv
    <2> QED BY <2>1, <2>2, <2>3, <2>5, <2>6, <2>7 DEF SwpInv
  <1> QED BY <1>1, <1>2, <1>4, <1>5, <1>6 DEF SwpStep, SwpEnded

\* The invariant holds throughout.
LEMMA SwpInvAlways == SwpSpec => []SwpInv
  <1>1. SwpInit => SwpInv
    <2> SUFFICES ASSUME SwpInit PROVE SwpInv
      OBVIOUS
    <2>1. /\ phase = "limit" /\ loop \in LOOPS /\ the_resmii \in Nat \ {0} /\ lowlim = 1 /\ uplim = the_resmii
          /\ ii = 0 /\ esc = 0 /\ stime = [op \in Nodes |-> -1] /\ placed = {}
      BY DEF SwpInit, SchedInit
    <2>2. AttemptInv /\ StartInv
      BY <2>1 DEF AttemptInv, StartInv, SchedInv, DependencesHold, Attempting
    <2>3. AllocInv
      BY DEF SwpInit, AllocInit, AllocInv, Files, GPR, PR
    <2>4. kphase = "before" /\ RRB \in 0..(WORD - 1) /\ pr \in [PRs -> BOOLEAN]
      BY WordAssumption DEF SwpInit, KernelInit
    <2> QED BY <2>1, <2>2, <2>3, <2>4 DEF SwpInv
  <1> QED BY <1>1, SwpInvInductive, PTL DEF SwpSpec

\* A guard is the staging predicate of the operation's own iteration.
LEMMA GuardIs ==
  ASSUME SwpInv, NEW op \in Running
  PROVE  Guard(op) <=> Iteration(op) \in 0..trips
  <1>1. op \in Ops /\ phase = "scheduled" /\ file = PR + 1 /\ KernelInv
    BY DEF Running, SwpInv
  <1>2. Floor(Issue(op)) \in 0..(reg_max[PR] - 2) /\ reg_max[PR] \in Nat
    BY <1>1, AllocatedFacts
  <1>3. Floor(Issue(op)) \in 0..(reg_max[PR] - 1)
    BY <1>2
  <1>4. Guard(op) = pr[Staging(Floor(Issue(op)))]
    BY <1>1, StagingRegs
  <1>5. pr[Staging(Floor(Issue(op)))] <=> Rounds - Floor(Issue(op)) \in 0..trips
    BY <1>1, <1>3 DEF KernelInv
  <1> QED BY <1>4, <1>5 DEF Iteration, Rounds

\* Prologue, kernel and epilogue are the same code: whatever was scheduled,
\* wherever the allocator put the staging predicate and however the register
\* base wraps, an operation's guard is set in its iterations 0 to trips alone.
THEOREM StagingAlways == SwpSpec => []StagingIsExact
  <1>1. SwpInv => StagingIsExact
    BY GuardIs DEF StagingIsExact
  <1> QED BY <1>1, SwpInvAlways, PTL

\* The kernel is executed once for every iteration and once for every further
\* stage of the last, whatever the schedule's length and the trip count.
THEOREM KernelOnTimeAlways == SwpSpec => []KernelOnTime
  <1>1. SwpInv => KernelOnTime
    <2> SUFFICES ASSUME SwpInv PROVE KernelOnTime
      OBVIOUS
    <2>1. ASSUME kphase = "kernel" PROVE clock < (trips + stage_count) * ii
      <3>1. phase = "scheduled" /\ file = PR + 1 /\ KernelInv
        BY <2>1 DEF SwpInv
      <3>2. ii \in Nat /\ ii > 0 /\ esc \in Nat
        BY <3>1, AllocatedFacts
      <3>3. clock \in Nat /\ trips \in Nat /\ Rounds <= trips + esc
        BY <3>1, WordAssumption DEF KernelInv
      <3>4. Rounds \in Nat /\ clock < ii * (Rounds + 1)
        <4>1. clock = ii * (clock \div ii) + (clock % ii) /\ clock \div ii \in Nat /\ clock % ii \in 0..(ii - 1)
          BY <3>2, <3>3, DivMod
        <4>2. PICK n \in Nat : n = clock \div ii
          BY <4>1
        <4>3. ii * (n + 1) = ii * n + ii /\ ii * n \in Nat
          BY <3>2
        <4> QED BY <3>2, <4>1, <4>2, <4>3 DEF Rounds, Floor
      <3>5. ii * (Rounds + 1) <= (trips + stage_count) * ii
        <4>1. PICK d \in Nat : trips + esc = Rounds + d
          <5>1. trips + esc - Rounds \in Nat
            BY <3>2, <3>3, <3>4
          <5> QED BY <3>2, <3>3, <3>4, <5>1
        <4>2. (trips + stage_count) * ii = ii * (Rounds + 1) + ii * d
          <5>1. trips + stage_count = (Rounds + 1) + d
            BY <3>2, <3>3, <3>4, <4>1 DEF stage_count
          <5>2. ((Rounds + 1) + d) * ii = ii * (Rounds + 1) + ii * d
            BY <3>2, <3>4
          <5> QED BY <5>1, <5>2
        <4>3. ii * d \in Nat /\ ii * (Rounds + 1) \in Nat
          BY <3>2, <3>4
        <4> QED BY <4>2, <4>3
      <3>6. ii * (Rounds + 1) \in Int /\ (trips + stage_count) * ii \in Int
        BY <3>2, <3>3, <3>4 DEF stage_count
      <3> QED BY <3>3, <3>4, <3>5, <3>6
    <2>2. kphase = "after" => clock = (trips + stage_count) * ii
      BY DEF SwpInv
    <2> QED BY <2>1, <2>2 DEF KernelOnTime
  <1> QED BY <1>1, SwpInvAlways, PTL
-----------------------------------------------------------------------------
\* When values are there.

\* The cycle from which a result is in its register, and that of a use, both in
\* the iteration of the result.
Landing(a) == Issue(a) + loop.lat[a]
UseOf(e) == Issue(e.dst) + e.omega * ii

\* The value is needed from before the loop.
LiveIn(a) == \E e \in FlowOf(a) : e.omega > 0

\* What the allocator and the loop rely on: a result lands before it is used
\* and before the last stage of its iteration ends.
Timed ==
    /\ ii \in Nat /\ ii > 0 /\ esc \in Nat
    /\ \A a \in Ops : /\ Issue(a) \in Nat /\ Landing(a) \in Nat
                      /\ Issue(a) < Landing(a) /\ Landing(a) <= stage_count * ii
    /\ \A e \in loop.flow : /\ e.src \in Ops /\ e.dst \in Ops /\ e.omega \in Nat /\ UseOf(e) \in Nat
                            /\ Landing(e.src) <= UseOf(e) /\ e.omega * ii <= UseOf(e)

\* What the scheduler leaves is so timed.
LEMMA ScheduleTimed ==
  ASSUME AttemptInv, StartInv, SelfHolds(ii), phase = "scheduled", esc \in Nat, esc = calculate_esc
  PROVE  Timed
  <1>1. /\ ii \in Nat /\ ii > 0 /\ loop \in LOOPS /\ stime \in [Nodes -> Int] /\ placed = Nodes
        /\ \A q \in Nodes : stime[q] >= 1
        /\ DependencesHold /\ loop.lat \in [Nodes -> Nat] /\ loop.anti \in [Nodes -> Nat]
    <2>1. placed = Nodes
      BY ScheduleComplete
    <2>2. loop \in LOOPS /\ DependencesHold /\ stime \in [Nodes -> Int] /\ ii \in Nat /\ ii > 0
      BY DEF AttemptInv, SchedInv
    <2>3. loop.lat \in [Nodes -> Nat] /\ loop.anti \in [Nodes -> Nat]
      BY <2>2, LoopAssumption
    <2> QED BY <2>1, <2>2, <2>3 DEF StartInv, Attempting
  <1>2. /\ loop.flow \subseteq loop.edges
        /\ \A e \in loop.flow : e.src \in Ops /\ e.dst \in Ops /\ loop.lat[e.src] <= e.lat
        /\ \A op \in Ops : loop.lat[op] >= 1
    BY <1>1, FlowAssumption
  <1> DEFINE T == {stime[op] - 1 + max_latency(op) : op \in Nodes}
  <1>3. ASSUME NEW op \in Nodes
        PROVE  stime[op] - 1 + max_latency(op) \in Int
    <2>1. stime[op] \in Int /\ loop.lat[op] \in Nat /\ loop.anti[op] \in Nat
      BY <1>1
    <2> QED BY <2>1 DEF max_latency, Larger
  <1>4. IsFiniteSet(T) /\ T \in SUBSET Int /\ T # {}
    <2>1. IsFiniteSet(Nodes)
      BY FS_Interval, LoopAssumption DEF Nodes
    <2> DEFINE f == [op \in Nodes |-> stime[op] - 1 + max_latency(op)]
    <2>2. DOMAIN f = Nodes /\ T = {f[op] : op \in Nodes}
      OBVIOUS
    <2>3. T \in SUBSET Int /\ T # {}
      BY <1>3, OpType
    <2> HIDE DEF f, T
    <2> QED BY <2>1, <2>2, <2>3, ImageFinite
  <1>5. length = 1 + Max(T)
    BY DEF length
  <1>6. \A op \in Nodes : stime[op] - 1 + max_latency(op) \in T
    OBVIOUS
  <1> HIDE DEF T
  <1>7. length \in Int /\ \A op \in Nodes : length >= stime[op] + max_latency(op)
    <2>1. Max(T) \in Int /\ \A y \in T : Max(T) >= y
      BY <1>4, MaxIs
    <2>2. length \in Int
      BY <1>5, <2>1
    <2>3. ASSUME NEW op \in Nodes PROVE length >= stime[op] + max_latency(op)
      <3>1. stime[op] \in Int /\ max_latency(op) \in Int
        <4>1. stime[op] \in Int /\ loop.lat[op] \in Nat /\ loop.anti[op] \in Nat
          BY <1>1
        <4> QED BY <4>1 DEF max_latency, Larger
      <3>2. Max(T) >= stime[op] - 1 + max_latency(op)
        BY <1>6, <2>1
      <3> QED BY <1>5, <2>1, <3>1, <3>2
    <2> QED BY <2>2, <2>3
  <1>8. length <= stage_count * ii
    <2>1. PICK x \in Int : x = length
      BY <1>7
    <2> DEFINE n == x \div ii
               r == x % ii
    <2>2. n \in Int /\ r \in 0..(ii - 1) /\ x = ii * n + r
      BY <1>1, DivMod
    <2>3. esc = IF n * ii = x THEN n - 1 ELSE n
      BY <2>1 DEF calculate_esc
    <2> HIDE DEF n, r
    <2>4. n * ii = ii * n /\ n * ii \in Int /\ (n + 1) * ii = n * ii + ii
      BY <1>1, <2>2
    <2>5. CASE n * ii = x
      <3>1. stage_count = n
        BY <2>2, <2>3, <2>5 DEF stage_count
      <3> QED BY <2>1, <2>4, <2>5, <3>1
    <2>6. CASE n * ii # x
      <3>1. stage_count = n + 1
        BY <2>2, <2>3, <2>6 DEF stage_count
      <3> QED BY <1>1, <2>1, <2>2, <2>4, <3>1
    <2> QED BY <2>5, <2>6
  <1>9. ASSUME NEW a \in Ops
        PROVE  /\ Issue(a) \in Nat /\ Landing(a) \in Nat /\ Issue(a) < Landing(a)
               /\ Landing(a) <= stage_count * ii
    <2>1. /\ a \in Nodes /\ stime[a] \in Int /\ stime[a] >= 1
          /\ loop.lat[a] \in Nat /\ loop.lat[a] >= 1 /\ loop.anti[a] \in Nat
      BY <1>1, <1>2, OpType
    <2>2. length >= stime[a] + (loop.lat[a] - 1)
      <3>1. max_latency(a) \in Int /\ max_latency(a) >= loop.lat[a] - 1
        BY <2>1 DEF max_latency, Larger
      <3> QED BY <1>7, <2>1, <3>1
    <2>3. stage_count * ii \in Int
      BY <1>1 DEF stage_count
    <2> QED BY <1>7, <1>8, <2>1, <2>2, <2>3 DEF Issue, Landing
  <1>10. ASSUME NEW e \in loop.flow
         PROVE  /\ e.src \in Ops /\ e.dst \in Ops /\ e.omega \in Nat /\ UseOf(e) \in Nat
                /\ Landing(e.src) <= UseOf(e) /\ e.omega * ii <= UseOf(e)
    <2>1. e \in loop.edges /\ e.src \in Ops /\ e.dst \in Ops /\ loop.lat[e.src] <= e.lat
      BY <1>2
    <2>2. e.lat \in Int /\ e.omega \in Nat
      BY <1>1, <2>1, EdgeType
    <2>3. e.omega * ii \in Nat /\ ii * e.omega = e.omega * ii
      BY <1>1, <2>2
    <2>4. Issue(e.dst) \in Nat /\ Issue(e.src) \in Nat
      BY <1>9, <2>1
    <2>5. Issue(e.src) + e.lat <= Issue(e.dst) + ii * e.omega
      <3>1. stime[e.src] \in Int /\ stime[e.dst] \in Int
        BY <1>1, <2>1, OpType
      <3>2. CASE e.src = e.dst
        <4>1. e.lat <= ii * e.omega
          BY <2>1, <3>2 DEF SelfHolds
        <4> QED BY <2>2, <2>3, <2>4, <3>2, <4>1
      <3>3. CASE e.src # e.dst
        <4>1. stime[e.dst] >= stime[e.src] + Delay(e)
          BY <1>1, <2>1, <3>3, OpType DEF DependencesHold
        <4> QED BY <2>2, <2>3, <3>1, <4>1 DEF Delay, Issue
      <3> QED BY <3>2, <3>3
    <2>6. loop.lat[e.src] \in Nat
      BY <1>1, <2>1, OpType
    <2> QED BY <2>1, <2>2, <2>3, <2>4, <2>5, <2>6 DEF UseOf, Landing
  <1> QED BY <1>1, <1>9, <1>10 DEF Timed

\* The values that have a lifetime.
LEMMA ResultsAre ==
  ASSUME Timed, NEW a \in Results
  PROVE  /\ a \in Ops /\ a # Branch /\ a # Open
         /\ FlowOf(a) # {} \/ a \in loop.liveout
         /\ \A e \in FlowOf(a) : e \in loop.flow /\ e.src = a
  <1>1. a \in Ops
    BY DEF Results
  <1>2. a # Open
    BY <1>1 DEF Ops, Open
  <1> QED BY <1>1, <1>2, OpType DEF Results, FlowOf

-----------------------------------------------------------------------------
\* The lifetimes of results.

\* A cycle before the end of an interval is in no later one.
LEMMA DivBelow ==
  ASSUME NEW a \in Int, NEW m \in Int, NEW n \in Nat, n > 0, a < n * m
  PROVE  a \div n < m
  <1> DEFINE q == a \div n
             r == a % n
  <1>1. q \in Int /\ r \in 0..(n - 1) /\ a = n * q + r
    BY DivMod
  <1> HIDE DEF q, r
  <1>2. n * q \in Int /\ n * m \in Int /\ n * q < n * m
    BY <1>1
  <1>3. ASSUME q >= m PROVE FALSE
    <2>1. q - m \in Nat
      BY <1>1, <1>3
    <2>2. n * (q - m) \in Nat
      BY <2>1
    <2>3. n * (q - m) = n * q - n * m
      BY <1>1
    <2> QED BY <1>2, <2>2, <2>3
  <1> QED BY <1>1, <1>3 DEF q

\* What a lifetime says of when its value is needed.
ResultLife(a) ==
    /\ LifeOK(a)
    /\ life[a].start = Issue(a) /\ life[a].flow = Landing(a)
    /\ life[a].used = {UseOf(e) : e \in FlowOf(a)}
    /\ life[a].stop > Landing(a) /\ \A e \in FlowOf(a) : life[a].stop > UseOf(e)
    /\ \A e \in FlowOf(a) : -life[a].k_first >= e.omega
    /\ life[a].k_last >= 0
    /\ LiveIn(a) => life[a].leading
    /\ a \in loop.liveout => life[a].trailing /\ life[a].alpha = 1

\* Finitely many uses.
LEMMA UsesFinite ==
  ASSUME loop \in LOOPS, Timed, NEW a \in Results
  PROVE  /\ IsFiniteSet(Uses(a)) /\ Uses(a) \in SUBSET (Int \X Nat)
         /\ Uses(a) = {<<UseOf(e), e.omega>> : e \in FlowOf(a)}
         /\ IsFiniteSet(FlowOf(a))
  <1>1. a # Branch
    BY ResultsAre
  <1>2. Uses(a) = {<<UseOf(e), e.omega>> : e \in FlowOf(a)}
    BY <1>1 DEF Uses, UseOf
  <1>3. IsFiniteSet(FlowOf(a))
    <2>1. IsFiniteSet(loop.edges) /\ loop.flow \subseteq loop.edges
      BY LoopAssumption, FlowAssumption
    <2> QED BY <2>1, FS_Subset DEF FlowOf
  <1>4. Uses(a) \in SUBSET (Int \X Nat)
    <2>1. \A e \in FlowOf(a) : UseOf(e) \in Nat /\ e.omega \in Nat
      BY ResultsAre DEF Timed
    <2> QED BY <1>2, <2>1
  <1>5. IsFiniteSet(Uses(a))
    <2> DEFINE f == [e \in FlowOf(a) |-> <<UseOf(e), e.omega>>]
    <2>1. DOMAIN f = FlowOf(a) /\ Uses(a) = {f[e] : e \in FlowOf(a)}
      BY <1>2
    <2> HIDE DEF f
    <2> QED BY <1>3, <2>1, ImageFinite
  <1> QED BY <1>2, <1>3, <1>4, <1>5

\* The lifetime reaches from before the first use to after the last one, over
\* all iterations a use looks back.
LEMMA ResultLifeIs ==
  ASSUME loop \in LOOPS, Timed, NEW a \in Results, life[a] = Process_input_data(a)
  PROVE  ResultLife(a)
  <1> DEFINE d == life[a]
             used == {u[1] : u \in Uses(a)}
             late == {u[2] : u \in Uses(a)}
             issue == Issue(a)
             omega == Max({0} \cup late)
             alpha == IF a \in loop.liveout THEN 1 ELSE 0
             first == Max(used \cup {issue})
             lowest == Min(used \cup {issue})
             k_first == Larger(-omega, -Floor(first))
             latest == Larger(Ceil(ii - issue) - 1, 0)
             k_last == Least(latest, stage_count - 1 - Floor(lowest))
  <1>1. /\ a \in Ops /\ a # Branch /\ loop.lat[a] \in Nat /\ ii \in Nat /\ ii > 0 /\ esc \in Nat
        /\ Issue(a) \in Nat /\ Landing(a) \in Nat /\ Issue(a) < Landing(a) /\ Landing(a) <= stage_count * ii
    <2>1. loop.lat \in [Nodes -> Nat]
      BY LoopAssumption
    <2> QED BY <2>1, ResultsAre, OpType DEF Timed
  <1>2. /\ IsFiniteSet(Uses(a)) /\ Uses(a) \in SUBSET (Int \X Nat)
        /\ Uses(a) = {<<UseOf(e), e.omega>> : e \in FlowOf(a)}
    BY UsesFinite
  <1>3. /\ d.start = Issue(a) /\ d.stop \in Int /\ d.stop >= Issue(a) + loop.lat[a] + 1
        /\ \A u \in Uses(a) : d.stop >= u[1] + 1
        /\ d.k_first \in Int /\ d.k_last \in Int /\ d.alpha \in Int /\ (d.trailing => d.alpha >= 1)
    <2>1. Issue(a) \in Int
      BY <1>1
    <2> HIDE DEF d
    <2>2. d = Process_input_data(a)
      BY DEF d
    <2> QED BY <1>1, <1>2, <2>1, <2>2, LifetimeIs
  <1>4. /\ d.flow = issue + loop.lat[a] /\ d.used = used /\ d.alpha = alpha
        /\ d.k_first = k_first /\ d.k_last = k_last
        /\ d.leading = (k_first < 0 /\ omega > 0)
        /\ d.trailing = (k_last >= 1 - alpha /\ alpha > 0)
    <2> HIDE DEF used, late, issue, alpha
    <2> DEFINE stop == Max(used \cup {issue + loop.lat[a]}) + 1
    <2>1. d = [start |-> issue, stop |-> stop, flow |-> issue + loop.lat[a], used |-> used,
               omega |-> omega, alpha |-> alpha, k_first |-> k_first, k_last |-> k_last,
               leading |-> k_first < 0 /\ omega > 0, trailing |-> k_last >= 1 - alpha /\ alpha > 0]
      BY <1>1, Zenon DEF Process_input_data, used, late, issue, alpha, d
    <2> HIDE DEF stop, omega, first, lowest, latest, k_first, k_last, d
    <2> QED BY <2>1
  <1>5. /\ used = {UseOf(e) : e \in FlowOf(a)}
        /\ \A e \in FlowOf(a) : UseOf(e) \in used /\ e.omega \in late /\ <<UseOf(e), e.omega>> \in Uses(a)
        /\ \A w \in late : \E e \in FlowOf(a) : w = e.omega
    <2>1. ASSUME NEW e \in FlowOf(a)
          PROVE  /\ <<UseOf(e), e.omega>> \in Uses(a)
                 /\ UseOf(e) \in used /\ e.omega \in late
      <3>1. PICK u : u = <<UseOf(e), e.omega>>
        OBVIOUS
      <3>2. u \in Uses(a) /\ u[1] = UseOf(e) /\ u[2] = e.omega
        BY <1>2, <3>1
      <3> QED BY <3>1, <3>2
    <2>2. ASSUME NEW u \in Uses(a)
          PROVE  \E e \in FlowOf(a) : u[1] = UseOf(e) /\ u[2] = e.omega
      <3>1. PICK e \in FlowOf(a) : u = <<UseOf(e), e.omega>>
        BY <1>2
      <3> QED BY <3>1
    <2>3. \A x \in used : \E e \in FlowOf(a) : x = UseOf(e)
      BY <2>2
    <2>4. \A w \in late : \E e \in FlowOf(a) : w = e.omega
      BY <2>2
    <2> HIDE DEF used, late
    <2> QED BY <2>1, <2>3, <2>4
  <1>6. IsFiniteSet(used) /\ IsFiniteSet(late) /\ used \in SUBSET Int /\ late \in SUBSET Nat
    <2> DEFINE f == [u \in Uses(a) |-> u[1]]
               g == [u \in Uses(a) |-> u[2]]
    <2>1. DOMAIN f = Uses(a) /\ used = {f[u] : u \in Uses(a)} /\ DOMAIN g = Uses(a) /\ late = {g[u] : u \in Uses(a)}
      OBVIOUS
    <2>2. used \in SUBSET Int /\ late \in SUBSET Nat
      BY <1>2
    <2> HIDE DEF f, g, used, late
    <2> QED BY <1>2, <2>1, <2>2, ImageFinite
  <1>7. \A e \in FlowOf(a) : UseOf(e) \in Nat /\ e.omega \in Nat /\ e.omega * ii <= UseOf(e)
    BY ResultsAre DEF Timed
  <1>8. issue \in Nat /\ issue = Issue(a)
    BY <1>1
  <1> HIDE DEF used, late, issue, d
  <1>9. /\ first \in Int /\ first >= issue /\ (\A u \in used : first >= u)
        /\ lowest \in Int /\ lowest <= issue
    <2> DEFINE T == used \cup {issue}
    <2>1. IsFiniteSet(T) /\ T \in SUBSET Int /\ issue \in T /\ \A u \in used : u \in T
      <3>1. IsFiniteSet(T)
        BY <1>6, FS_AddElement
      <3>2. T \in SUBSET Int
        <4>1. issue \in Int
          BY <1>8
        <4>2. \A u \in used : u \in Int
          BY <1>6
        <4> QED BY <4>1, <4>2, Zenon
      <3>3. issue \in T /\ \A u \in used : u \in T
        OBVIOUS
      <3> QED BY <3>1, <3>2, <3>3, Zenon
    <2> HIDE DEF T
    <2>2. Max(T) \in Int /\ Max(T) >= issue /\ (\A u \in used : Max(T) >= u) /\ Min(T) \in Int /\ Min(T) <= issue
      BY <2>1, MaxIs, MinIs
    <2> QED BY <2>2 DEF T
  <1>10. omega \in Nat /\ (\A w \in late : omega >= w) /\ (omega = 0 \/ omega \in late)
    <2> DEFINE T == {0} \cup late
    <2>1. IsFiniteSet(T)
      BY <1>6, FS_Singleton, FS_Union
    <2>2. T \in SUBSET Int /\ T # {} /\ 0 \in T /\ \A w \in late : w \in T
      BY <1>6
    <2>3. \A w \in T : w = 0 \/ w \in late
      OBVIOUS
    <2> HIDE DEF T
    <2>4. Max(T) \in T /\ Max(T) \in Int /\ \A y \in T : Max(T) >= y
      BY <2>1, <2>2, MaxIs
    <2>5. Max(T) \in Nat
      BY <2>2, <2>4
    <2> QED BY <2>2, <2>3, <2>4, <2>5 DEF T
  <1> HIDE DEF omega, first, lowest
  <1>11. \A x \in Int : Floor(x) \in Int /\ Ceil(x) \in Int
    BY <1>1, CeilIs, DivMod DEF Floor
  <1>12. Floor(first) >= omega
    <2>1. ii * omega \in Int /\ ii * omega <= first
      <3>1. CASE omega = 0
        BY <1>1, <1>8, <1>9, <3>1
      <3>2. CASE omega \in late
        <4>1. PICK e \in FlowOf(a) : omega = e.omega
          BY <1>5, <3>2
        <4>2. UseOf(e) \in Nat /\ e.omega * ii <= UseOf(e) /\ first >= UseOf(e)
          BY <1>5, <1>7, <1>9
        <4> QED BY <1>1, <1>9, <1>10, <4>1, <4>2
      <3> QED BY <1>10, <3>1, <3>2
    <2>2. (0 + ii * omega) \div ii = (0 \div ii) + omega
      BY <1>1, <1>10, DivPlus
    <2>3. 0 \div ii = 0 /\ 0 + ii * omega = ii * omega
      BY <1>1, <2>1
    <2>4. (ii * omega) \div ii <= first \div ii
      BY <1>1, <1>9, <2>1, DivMono
    <2> QED BY <1>10, <2>2, <2>3, <2>4 DEF Floor
  <1>13. k_first = -omega
    <2>1. Floor(first) \in Int
      BY <1>9, <1>11
    <2> QED BY <1>10, <1>12, <2>1 DEF Larger
  <1>14. k_last >= 0 /\ k_last \in Int
    <2>1. Floor(lowest) <= stage_count - 1 /\ Floor(lowest) \in Int
      <3>1. lowest \div ii <= issue \div ii
        BY <1>1, <1>8, <1>9, DivMono
      <3>2. issue \div ii < stage_count
        <4>1. stage_count \in Int /\ stage_count * ii = ii * stage_count /\ ii * stage_count \in Int
          BY <1>1 DEF stage_count
        <4>2. issue < ii * stage_count
          BY <1>1, <1>8, <4>1
        <4> QED BY <1>1, <1>8, <4>1, <4>2, DivBelow
      <3>3. lowest \div ii \in Int /\ issue \div ii \in Int /\ stage_count \in Int
        BY <1>1, <1>8, <1>9, DivMod DEF stage_count
      <3> QED BY <3>1, <3>2, <3>3 DEF Floor
    <2>2. latest \in Int /\ latest >= 0
      <3>1. Ceil(ii - issue) \in Int
        BY <1>1, <1>8, <1>11
      <3> QED BY <3>1 DEF Larger
    <2>3. stage_count \in Int
      BY <1>1 DEF stage_count
    <2> HIDE DEF latest
    <2> QED BY <2>1, <2>2, <2>3 DEF Least
  <1> HIDE DEF k_first, k_last
  <1>15. LiveIn(a) => d.leading
    <2>1. LiveIn(a) => omega > 0
      <3> SUFFICES ASSUME LiveIn(a) PROVE omega > 0
        OBVIOUS
      <3>1. PICK e \in FlowOf(a) : e.omega > 0
        BY DEF LiveIn
      <3>2. omega >= e.omega /\ e.omega \in Nat
        BY <1>5, <1>7, <1>10
      <3> QED BY <1>10, <3>1, <3>2
    <2>2. omega > 0 => -omega < 0
      BY <1>10
    <2> QED BY <1>4, <1>13, <2>1, <2>2, Zenon
  <1>16. a \in loop.liveout => d.trailing /\ d.alpha = 1
    <2> SUFFICES ASSUME a \in loop.liveout PROVE d.trailing /\ d.alpha = 1
      OBVIOUS
    <2>1. alpha = 1
      OBVIOUS
    <2> HIDE DEF alpha
    <2>2. k_last >= 1 - alpha /\ alpha > 0
      BY <1>14, <2>1
    <2> QED BY <1>4, <2>1, <2>2, Zenon
  <1>17. \A e \in FlowOf(a) : -d.k_first >= e.omega
    <2> TAKE e \in FlowOf(a)
    <2>1. omega >= e.omega
      BY <1>5, <1>10
    <2> QED BY <1>4, <1>10, <1>13, <2>1
  <1>18. \A e \in FlowOf(a) : d.stop > UseOf(e)
    <2> TAKE e \in FlowOf(a)
    <2>1. d.stop >= UseOf(e) + 1
      <3>1. PICK u : u = <<UseOf(e), e.omega>>
        OBVIOUS
      <3>2. u \in Uses(a) /\ u[1] = UseOf(e)
        BY <1>5, <3>1
      <3> QED BY <1>3, <3>2
    <2>2. UseOf(e) \in Nat
      BY <1>7
    <2> QED BY <1>3, <2>1, <2>2
  <1>19. d.stop > Landing(a) /\ Landing(a) = issue + loop.lat[a] /\ d.start <= d.stop
    BY <1>1, <1>3, <1>8 DEF Landing
  <1>20. LifeOK(a)
    BY <1>1, <1>3, <1>19 DEF LifeOK, d
  <1>21. /\ d.start = Issue(a) /\ d.flow = Landing(a) /\ d.used = {UseOf(e) : e \in FlowOf(a)} /\ d.k_last >= 0
    BY <1>3, <1>4, <1>5, <1>14, <1>19
  <1> QED BY <1>15, <1>16, <1>17, <1>18, <1>19, <1>20, <1>21 DEF ResultLife, d

\* All lifetimes of that file.
LEMMA GPRLives ==
  ASSUME loop \in LOOPS, Timed, life = Construct_lifetimes(GPR)
  PROVE  /\ DOMAIN life = Lives(GPR) /\ IsFiniteSet(Lives(GPR)) /\ Lives(GPR) = {Open} \cup Results
         /\ \A l \in Lives(GPR) : LifeOK(l)
         /\ \A a \in Results : ResultLife(a)
  <1>1. Lives(GPR) = {Open} \cup Results
    BY DEF Lives
  <1>2. life = [l \in Lives(GPR) |-> IF l = Open THEN Process_open_loop_data ELSE Process_input_data(l)]
    BY TabulatedIs DEF Construct_lifetimes
  <1>3. IsFiniteSet(Lives(GPR))
    <2>1. Results \subseteq Ops
      BY DEF Results
    <2>2. IsFiniteSet(Results)
      BY <2>1, OpsFinite, FS_Subset
    <2>3. Lives(GPR) = Results \cup {Open}
      BY <1>1
    <2> QED BY <2>2, <2>3, FS_AddElement
  <1>4. \A a \in Results : ResultLife(a)
    <2> TAKE a \in Results
    <2>1. life[a] = Process_input_data(a)
      BY <1>1, <1>2, ResultsAre
    <2> QED BY <2>1, ResultLifeIs
  <1>5. LifeOK(Open)
    <2>1. PICK d : d = Process_open_loop_data
      OBVIOUS
    <2>2. /\ d.start = 0 /\ d.stop = 0 /\ d.alpha = 0 /\ d.k_first = 0 /\ d.k_last = stage_count
          /\ d.trailing = FALSE
      BY <2>1 DEF Process_open_loop_data
    <2>3. stage_count \in Int
      BY DEF Timed, stage_count
    <2>4. life[Open] = d
      BY <1>1, <1>2, <2>1
    <2> QED BY <2>2, <2>3, <2>4 DEF LifeOK
  <1> QED BY <1>1, <1>2, <1>3, <1>4, <1>5 DEF ResultLife

-----------------------------------------------------------------------------
\* Two values in one register.

\* The value of b that is d iterations newer than that of a comes after it: it
\* is computed after the other one has landed and has been used.  A value from
\* before the loop is there from the start, one needed after it to the end.
Follows(a, b, d) ==
    /\ Landing(a) < Issue(b) + d * ii
    /\ \A e \in FlowOf(a) : UseOf(e) < Issue(b) + d * ii
    /\ LiveIn(b) => d >= 0 /\ \A e \in FlowOf(a) : d >= e.omega
    /\ a \in loop.liveout => d >= 1

\* a's value is of the loop alone, and at each of its uses that of b has either
\* landed before a's was computed or is computed only afterwards.
Apart(a, b, d) ==
    /\ ~LiveIn(a) /\ a \notin loop.liveout
    /\ \A e \in FlowOf(a) : Landing(b) + d * ii < Issue(a) \/ Issue(b) + d * ii > UseOf(e)

Disjoint(a, b, d) == Follows(a, b, d) \/ Follows(b, a, -d) \/ Apart(a, b, d)

\* Numbers in order, times the interval.
LEMMA TimesMono ==
  ASSUME NEW n \in Nat, NEW p \in Int, NEW q \in Int, p <= q
  PROVE  n * p \in Int /\ n * q \in Int /\ n * p <= n * q
  <1>1. q - p \in Nat
    OBVIOUS
  <1>2. n * (q - p) \in Nat
    BY <1>1
  <1>3. n * (q - p) = n * q - n * p /\ n * p \in Int /\ n * q \in Int
    OBVIOUS
  <1> QED BY <1>2, <1>3

\* Far enough above a, b follows it.
LEMMA FarFollows ==
  ASSUME Timed, NEW a \in Results, NEW b \in Results, ResultLife(a), ResultLife(b),
         NEW d \in Int, dist(a, b) <= d
  PROVE  Follows(a, b, d)
  <1>1. /\ ii \in Nat /\ ii > 0 /\ Issue(b) \in Nat /\ Landing(a) \in Nat
        /\ \A e \in FlowOf(a) : UseOf(e) \in Nat /\ e.omega \in Nat
    BY ResultsAre DEF Timed
  <1>2. /\ dist(a, b) \in Int /\ dist(a, b) >= Ceil(life[a].stop - life[b].start)
        /\ life[b].leading => dist(a, b) >= -life[a].k_first
        /\ life[a].trailing => dist(a, b) >= life[b].k_last + life[a].alpha
    BY <1>1, DistIs DEF ResultLife
  <1>3. /\ life[a].stop \in Int /\ life[b].start = Issue(b)
        /\ life[a].k_first \in Int /\ life[b].k_last \in Int /\ life[a].alpha \in Int
    BY DEF ResultLife, LifeOK
  <1>4. life[a].stop <= Issue(b) + d * ii
    <2>1. PICK x \in Int : x = life[a].stop - life[b].start
      BY <1>1, <1>3
    <2>2. Ceil(x) \in Int /\ ii * Ceil(x) >= x /\ Ceil(x) <= d
      BY <1>1, <1>2, <2>1, CeilIs
    <2>3. ii * Ceil(x) \in Int /\ ii * d \in Int /\ ii * Ceil(x) <= ii * d
      BY <1>1, <2>2, TimesMono
    <2>4. ii * d = d * ii
      BY <1>1
    <2> QED BY <1>1, <1>3, <2>1, <2>2, <2>3, <2>4
  <1>5. d * ii \in Int
    BY <1>1
  <1>6. Landing(a) < Issue(b) + d * ii
    BY <1>1, <1>3, <1>4, <1>5 DEF ResultLife
  <1>7. \A e \in FlowOf(a) : UseOf(e) < Issue(b) + d * ii
    BY <1>1, <1>3, <1>4, <1>5 DEF ResultLife
  <1>8. ASSUME LiveIn(b) PROVE d >= 0 /\ \A e \in FlowOf(a) : d >= e.omega
    <2>1. d >= -life[a].k_first
      BY <1>2, <1>3, <1>8 DEF ResultLife
    <2>2. \A e \in FlowOf(a) : d >= e.omega
      <3> TAKE e \in FlowOf(a)
      <3>1. -life[a].k_first >= e.omega /\ e.omega \in Nat
        BY <1>1 DEF ResultLife
      <3> QED BY <1>3, <2>1, <3>1
    <2>3. d >= 0
      <3>1. CASE FlowOf(a) # {}
        <4>1. PICK e \in FlowOf(a) : TRUE
          BY <3>1
        <4> QED BY <1>1, <2>2, <4>1
      <3>2. CASE a \in loop.liveout
        <4>1. d >= life[b].k_last + life[a].alpha /\ life[a].alpha = 1 /\ life[b].k_last >= 0
          BY <1>2, <1>3, <3>2 DEF ResultLife
        <4> QED BY <1>3, <4>1
      <3> QED BY <3>1, <3>2, ResultsAre
    <2> QED BY <2>2, <2>3
  <1>9. ASSUME a \in loop.liveout PROVE d >= 1
    <2>1. d >= life[b].k_last + life[a].alpha /\ life[a].alpha = 1 /\ life[b].k_last >= 0
      BY <1>2, <1>3, <1>9 DEF ResultLife
    <2> QED BY <1>3, <2>1
  <1> QED BY <1>6, <1>7, <1>8, <1>9 DEF Follows

\* Where b may be with respect to a, their values are disjoint.
LEMMA FreeIsDisjoint ==
  ASSUME Timed, NEW a \in Results, NEW b \in Results, ResultLife(a), ResultLife(b),
         NEW d \in Int, a # b, ~Excludes(a, b, d)
  PROVE  Disjoint(a, b, d)
  <1>1. ii \in Nat /\ ii > 0
    BY DEF Timed
  <1>2. dist(a, b) \in Int /\ dist(b, a) \in Int
    BY <1>1, DistIs DEF ResultLife
  <1>3. CASE d >= dist(a, b)
    BY <1>2, <1>3, FarFollows DEF Disjoint
  <1>4. CASE d <= -dist(b, a)
    <2>1. dist(b, a) <= -d /\ -d \in Int
      BY <1>2, <1>4
    <2> QED BY <2>1, FarFollows DEF Disjoint
  <1>5. CASE ~Interference(a, b, d)
    <2>1. /\ ~life[a].leading /\ ~life[a].trailing
          /\ ~Live_at_def(a, b, d * ii)
      BY <1>5 DEF Interference
    <2>2. ~LiveIn(a) /\ a \notin loop.liveout
      BY <2>1 DEF ResultLife
    <2>3. /\ Issue(a) \in Nat /\ Issue(b) \in Nat /\ Landing(b) \in Nat /\ d * ii \in Int
          /\ \A e \in FlowOf(a) : UseOf(e) \in Nat
      BY <1>1, ResultsAre DEF Timed
    <2>4. ASSUME NEW e \in FlowOf(a)
          PROVE  Landing(b) + d * ii < Issue(a) \/ Issue(b) + d * ii > UseOf(e)
      <3>1. UseOf(e) \in life[a].used
        BY DEF ResultLife
      <3>2. ~(life[a].start <= life[b].flow + d * ii /\ life[b].start + d * ii <= UseOf(e))
        BY <2>1, <3>1 DEF Live_at_def
      <3>3. life[a].start = Issue(a) /\ life[b].start = Issue(b) /\ life[b].flow = Landing(b)
        BY DEF ResultLife
      <3> QED BY <2>3, <3>2, <3>3
    <2> QED BY <2>2, <2>4 DEF Disjoint, Apart
  <1>6. d >= dist(a, b) \/ d <= -dist(b, a) \/ d \in (1 - dist(b, a))..(dist(a, b) - 1)
    BY <1>2
  <1> QED BY <1>3, <1>4, <1>5, <1>6 DEF Excludes

\* What excludes b from a place near a excludes a from the same place near b.
LEMMA ExcludesBoth ==
  ASSUME ii \in Nat, NEW a, NEW b, NEW d \in Int, dist(a, b) \in Int, dist(b, a) \in Int,
         Excludes(b, a, -d)
  PROVE  Excludes(a, b, d)
  <1>1. -d \in (1 - dist(a, b))..(dist(b, a) - 1) /\ Interference(b, a, -d)
    BY DEF Excludes
  <1>2. d \in (1 - dist(b, a))..(dist(a, b) - 1)
    BY <1>1
  <1>3. (-d) * ii = -d * ii /\ -(-d) * ii = d * ii
    <2>1. PICK x \in Int : x = d * ii
      OBVIOUS
    <2>2. (-d) * ii = -x /\ -(-d) = d
      BY <2>1
    <2> QED BY <2>1, <2>2
  <1>4. Interference(a, b, d)
    <2>1. \/ b = a
          \/ \E l \in {b, a} : life[l].leading \/ life[l].trailing
          \/ Live_at_def(b, a, (-d) * ii)
          \/ Live_at_def(a, b, -(-d) * ii)
      BY <1>1 DEF Interference
    <2> QED BY <1>3, <2>1 DEF Interference
  <1> QED BY <1>2, <1>4 DEF Excludes

\* Where the registers in use fit into the file, values whose places are a
\* multiple of its size apart come one after the other.
LEMMA WrapFollows ==
  ASSUME Timed, NEW a \in Results, NEW b \in Results, ResultLife(a), ResultLife(b),
         NEW at, IsFiniteSet(DOMAIN at), \A l \in DOMAIN at : LifeOK(l) /\ at[l] \in Int,
         a \in DOMAIN at, b \in DOMAIN at,
         NEW size \in Nat, Requirements(at) <= size,
         NEW d \in Int, NEW q \in Nat, q >= 1, at[b] - at[a] = d + size * q
  PROVE  Follows(b, a, -d)
  <1>1. /\ ii \in Nat /\ ii > 0 /\ esc \in Nat /\ Issue(a) \in Nat /\ Landing(b) \in Nat
        /\ Landing(a) \in Nat /\ Issue(a) < Landing(a) /\ Landing(a) <= stage_count * ii
        /\ stage_count \in Nat /\ stage_count >= 1
        /\ \A e \in FlowOf(b) : UseOf(e) \in Nat /\ e.omega \in Nat /\ e.omega * ii <= UseOf(e)
    BY ResultsAre DEF Timed, stage_count
  <1> DEFINE final == LastCycle(b)
             first == FirstCycle(a)
  <1>2. /\ life[b].stop \in Int /\ life[a].start = Issue(a) /\ life[b].stop > Landing(b)
        /\ \A e \in FlowOf(b) : life[b].stop > UseOf(e)
    BY DEF ResultLife, LifeOK
  <1>3. /\ final \in Int /\ final >= life[b].stop
        /\ b \in loop.liveout => final >= (stage_count + 1) * ii
    <2>1. (stage_count + 1) * ii \in Int
      BY <1>1
    <2>2. b \in loop.liveout => life[b].trailing
      BY DEF ResultLife
    <2>3. PICK x \in Int : x = (stage_count + 1) * ii
      BY <2>1
    <2>4. final = IF life[b].trailing THEN Larger(life[b].stop, x) ELSE life[b].stop
      BY <2>3 DEF LastCycle
    <2> HIDE DEF final
    <2> QED BY <1>2, <2>2, <2>3, <2>4 DEF Larger
  <1>4. first \in Int /\ first <= Issue(a) /\ (LiveIn(a) => first = 0)
    <2>1. LiveIn(a) => life[a].leading
      BY DEF ResultLife
    <2>2. first = IF life[a].leading THEN Least(Issue(a), 0) ELSE Issue(a)
      BY <1>2 DEF FirstCycle
    <2>3. Least(Issue(a), 0) = 0
      BY <1>1 DEF Least
    <2> HIDE DEF first
    <2> QED BY <1>1, <2>1, <2>2, <2>3
  <1>5. /\ Requirements(at) \in Int
        /\ Requirements(at) >= at[b] + Ceil(LastCycle(b)) - (at[a] + Floor(FirstCycle(a)))
    BY <1>1, RequirementsIs
  <1> HIDE DEF final, first
  <1>6. /\ Ceil(final) \in Int /\ ii * Ceil(final) \in Int /\ ii * Ceil(final) >= final
        /\ Floor(first) \in Int /\ ii * Floor(first) \in Int /\ ii * Floor(first) <= first
    <2>1. Ceil(final) \in Int /\ ii * Ceil(final) \in Int /\ ii * Ceil(final) >= final
      BY <1>1, <1>3, CeilIs
    <2>2. first \div ii \in Int /\ first % ii \in 0..(ii - 1) /\ first = ii * (first \div ii) + (first % ii)
      BY <1>1, <1>4, DivMod
    <2>3. PICK n \in Int : n = first \div ii
      BY <2>2
    <2>4. ii * n \in Int /\ ii * n <= first
      BY <1>1, <1>4, <2>2, <2>3
    <2> QED BY <2>1, <2>3, <2>4 DEF Floor
  <1>7. d + Ceil(final) <= Floor(first)
    <2>1. at[a] \in Int /\ at[b] \in Int
      OBVIOUS
    <2>2. size <= size * q /\ size * q \in Int
      <3>1. size * 1 <= size * q /\ size * q \in Int
        BY TimesMono
      <3> QED BY <3>1
    <2>3. PICK s \in Int : s = size * q
      BY <2>2
    <2>4. at[b] + Ceil(final) - (at[a] + Floor(first)) <= size
      <3>1. Requirements(at) \in Int /\ Requirements(at) >= at[b] + Ceil(final) - (at[a] + Floor(first))
        BY <1>5, Zenon DEF final, first
      <3> QED BY <1>6, <2>1, <3>1
    <2>5. at[b] - at[a] = d + s /\ size <= s
      BY <2>2, <2>3
    <2> QED BY <1>6, <2>1, <2>4, <2>5
  <1>8. final <= Issue(a) - d * ii
    <2>1. ii * (d + Ceil(final)) \in Int /\ ii * (d + Ceil(final)) <= ii * Floor(first)
      <3>1. d + Ceil(final) \in Int
        BY <1>6
      <3> QED BY <1>1, <1>6, <1>7, <3>1, TimesMono
    <2>2. ii * (d + Ceil(final)) = d * ii + ii * Ceil(final) /\ d * ii \in Int
      BY <1>1, <1>6
    <2> QED BY <1>1, <1>3, <1>4, <1>6, <2>1, <2>2
  <1>9. (-d) * ii = -(d * ii) /\ d * ii \in Int
    BY <1>1
  <1>10. Landing(b) < Issue(a) + (-d) * ii
    BY <1>1, <1>2, <1>3, <1>8, <1>9
  <1>11. \A e \in FlowOf(b) : UseOf(e) < Issue(a) + (-d) * ii
    BY <1>1, <1>2, <1>3, <1>8, <1>9
  <1>12. ASSUME LiveIn(a) PROVE -d >= 0 /\ \A e \in FlowOf(b) : -d >= e.omega
    <2>1. first = 0 /\ Floor(first) = 0
      BY <1>1, <1>4, <1>12 DEF Floor
    <2>2. Ceil(final) <= -d
      BY <1>6, <1>7, <2>1
    <2>3. \A w \in Nat : w * ii < final => w < Ceil(final)
      <3> SUFFICES ASSUME NEW w \in Nat, w * ii < final, w >= Ceil(final) PROVE FALSE
        BY <1>6
      <3>1. ii * Ceil(final) <= ii * w
        BY <1>1, <1>6, TimesMono
      <3>2. ii * w = w * ii /\ w * ii \in Int
        BY <1>1
      <3> QED BY <1>3, <1>6, <3>1, <3>2
    <2>4. \A e \in FlowOf(b) : -d >= e.omega
      <3> TAKE e \in FlowOf(b)
      <3>1. e.omega \in Nat /\ e.omega * ii < final
        <4>1. e.omega \in Nat /\ e.omega * ii <= UseOf(e) /\ UseOf(e) \in Nat /\ life[b].stop > UseOf(e)
          BY <1>1, <1>2
        <4>2. e.omega * ii \in Int
          BY <1>1, <4>1
        <4> QED BY <1>2, <1>3, <4>1, <4>2
      <3> QED BY <1>6, <2>2, <2>3, <3>1
    <2>5. -d >= 0
      <3>1. 0 * ii < final
        BY <1>1, <1>2, <1>3
      <3>2. 0 < Ceil(final)
        BY <2>3, <3>1
      <3> QED BY <1>6, <2>2, <3>2
    <2> QED BY <2>4, <2>5
  <1>13. ASSUME b \in loop.liveout PROVE -d >= 1
    <2>1. final >= (stage_count + 1) * ii
      BY <1>3, <1>13
    <2>2. Issue(a) < stage_count * ii /\ stage_count * ii \in Int
      BY <1>1
    <2>3. (stage_count + 1) * ii = stage_count * ii + ii
      BY <1>1
    <2>4. d * ii < 0
      BY <1>1, <1>3, <1>8, <1>9, <2>1, <2>2, <2>3
    <2>5. d < 0
      <3> SUFFICES ASSUME d >= 0 PROVE FALSE
        OBVIOUS
      <3>1. d * ii >= 0
        BY <1>1
      <3> QED BY <1>9, <2>4, <3>1
    <2> QED BY <2>5
  <1> QED BY <1>10, <1>11, <1>12, <1>13 DEF Follows

-----------------------------------------------------------------------------
\* The registers of the results, while the allocator works.

\* No location excludes another one.
GPRAllocating ==
    /\ life = Construct_lifetimes(GPR)
    /\ DOMAIN location[GPR] \in SUBSET Lives(GPR) /\ DOMAIN location[GPR] # {}
    /\ \A l \in DOMAIN location[GPR] : location[GPR][l] \in Int
    /\ \A a, b \in DOMAIN location[GPR] : a # b => ~Excludes(a, b, location[GPR][b] - location[GPR][a])

\* Different values that share a register are disjoint.
GPRAllocated ==
    /\ \A a \in Results : location[GPR][a] \in Int
    /\ \A a, b \in Results : \A d, q \in Int :
            /\ location[GPR][b] - location[GPR][a] = d + reg_max[GPR] * q
            /\ ~(a = b /\ d = 0)
            => Disjoint(a, b, d)

\* With what they rest on: intervals long enough for the operations that depend
\* on themselves, and as many stages as the schedule is long.
GprInv ==
    /\ SelfInv
    /\ phase = "scheduled" => esc = calculate_esc
    /\ file = GPR /\ location[GPR] # <<>> => GPRAllocating
    /\ file > GPR => GPRAllocated

\* The schedule the allocator works on.
LEMMA TimedWhenScheduled ==
  ASSUME SwpInv, GprInv, phase = "scheduled"
  PROVE  Timed /\ loop \in LOOPS
  <1>1. SelfHolds(ii) /\ esc = calculate_esc
    BY DEF GprInv, SelfInv
  <1> QED BY <1>1, ScheduleTimed DEF SwpInv, AttemptInv, SchedInv

\* A result is placed where no other one excludes it.
LEMMA GPRPlacing ==
  ASSUME loop \in LOOPS, Timed, DOMAIN location = Files, file = GPR,
         location[GPR] # <<>> => GPRAllocating,
         NEW sel, AllocateFirst(sel) \/ AllocateNext(sel)
  PROVE  GPRAllocating'
  <1>1. /\ UNCHANGED schedVars /\ sel \in Lives(GPR) /\ GPR \in Files
    BY DEF AllocateFirst, AllocateNext, Files
  <1>2. Construct_lifetimes(GPR)' = Construct_lifetimes(GPR) /\ Lives(GPR)' = Lives(GPR)
    BY <1>1 DEF Construct_lifetimes, Process_open_loop_data, Process_input_data, Uses, FlowOf, Issue,
          Lives, Results, Floor, Ceil, stage_count, schedVars, attemptVars
  <1>3. life' = Construct_lifetimes(GPR)
    BY DEF AllocateFirst, AllocateNext, GPRAllocating
  <1>4. CASE AllocateFirst(sel)
    <2>1. location[GPR] = <<>> /\ location' = [location EXCEPT ![GPR] = With(location[GPR], sel, 0)]
      BY <1>4, Zenon DEF AllocateFirst, Place
    <2>2. location'[GPR] = With(<<>>, sel, 0)
      BY <1>1, <2>1
    <2>3. DOMAIN location'[GPR] = {sel} /\ location'[GPR][sel] = 0
      BY <2>2 DEF With
    <2> QED BY <1>1, <1>2, <1>3, <2>3 DEF GPRAllocating
  <1>5. CASE AllocateNext(sel)
    <2>1. GPRAllocating /\ life' = life /\ sel \notin DOMAIN location[GPR]
      BY <1>5 DEF AllocateNext
    <2>2. PICK at : at = location[GPR]
      OBVIOUS
    <2>3. PICK loc : loc = Best_fit(at, sel)
      OBVIOUS
    <2>4. location' = [location EXCEPT ![GPR] = With(at, sel, loc)]
      BY <1>5, <2>2, <2>3, Zenon DEF AllocateNext, Place
    <2>5. location'[GPR] = With(at, sel, loc)
      BY <1>1, <2>4
    <2>6. /\ DOMAIN life = Lives(GPR) /\ IsFiniteSet(Lives(GPR)) /\ \A l \in Lives(GPR) : LifeOK(l)
      BY <2>1, GPRLives DEF GPRAllocating
    <2>7. /\ DOMAIN at \in SUBSET Lives(GPR) /\ DOMAIN at # {} /\ \A l \in DOMAIN at : at[l] \in Int
          /\ \A a, b \in DOMAIN at : a # b => ~Excludes(a, b, at[b] - at[a])
      BY <2>1, <2>2 DEF GPRAllocating
    <2>8. ii \in Nat /\ ii > 0 /\ esc \in Nat
      BY DEF Timed
    <2>9. loc \in Int /\ \A a \in DOMAIN at : ~Excludes(a, sel, loc - at[a])
      <3>1. IsFiniteSet(DOMAIN at)
        BY <2>6, <2>7, FS_Subset
      <3>2. LifeOK(sel) /\ \A l \in DOMAIN at : LifeOK(l) /\ at[l] \in Int
        BY <1>1, <2>6, <2>7
      <3>3. IsFiniteSet(DOMAIN life) /\ \A l \in DOMAIN life : LifeOK(l)
        BY <2>6
      <3>4. /\ Best_fit(at, sel) \in Int
            /\ \A a \in DOMAIN at : ~ Excludes(a, sel, Best_fit(at, sel) - at[a])
        BY <2>7, <2>8, <3>1, <3>2, <3>3, BestFitFree
      <3> QED BY <2>3, <3>4
    <2>10. PICK new : new = location'[GPR]
      OBVIOUS
    <2>11. /\ DOMAIN new = DOMAIN at \cup {sel} /\ new[sel] = loc
           /\ \A l \in DOMAIN at : new[l] = at[l]
      BY <2>1, <2>2, <2>5, <2>10 DEF With
    <2>12. \A l \in DOMAIN new : new[l] \in Int
      BY <2>7, <2>9, <2>11
    <2>13. ASSUME NEW a \in DOMAIN new, NEW b \in DOMAIN new, a # b
           PROVE  ~Excludes(a, b, new[b] - new[a])
      <3>1. CASE a \in DOMAIN at /\ b \in DOMAIN at
        BY <2>7, <2>11, <2>13, <3>1
      <3>2. CASE a \in DOMAIN at /\ b = sel
        BY <2>9, <2>11, <3>2
      <3>3. CASE a = sel /\ b \in DOMAIN at
        <4>1. ~Excludes(b, a, new[a] - new[b])
          BY <2>9, <2>11, <3>3
        <4>2. dist(a, b) \in Int /\ dist(b, a) \in Int
          <5>1. LifeOK(a) /\ LifeOK(b)
            BY <1>1, <2>6, <2>7, <3>3
          <5> QED BY <2>8, <5>1, DistIs
        <4>3. PICK d \in Int : d = new[a] - new[b]
          BY <2>12
        <4>4. new[b] - new[a] = -d
          BY <2>12, <4>3
        <4>5. Excludes(a, b, -d) => Excludes(b, a, d)
          BY <2>8, <4>2, ExcludesBoth
        <4> QED BY <4>1, <4>3, <4>4, <4>5
      <3> QED BY <2>11, <2>13, <3>1, <3>2, <3>3
    <2>14. \A a, b, d : Excludes(a, b, d)' <=> Excludes(a, b, d)
      BY <1>1, <2>1 DEF Excludes, dist, Interference, Live_at_def, Ceil, Ceiling, schedVars, attemptVars
    <2>15. \A a, b \in DOMAIN new : a # b => ~Excludes(a, b, new[b] - new[a])'
      BY <2>10, <2>13, <2>14
    <2>16. DOMAIN new \in SUBSET Lives(GPR) /\ DOMAIN new # {}
      BY <1>1, <2>7, <2>11
    <2> QED BY <1>2, <1>3, <2>10, <2>12, <2>15, <2>16 DEF GPRAllocating
  <1> QED BY <1>4, <1>5

\* Where the file is large enough, the values in a register are disjoint.
LEMMA GPRFits ==
  ASSUME loop \in LOOPS, Timed, GPRAllocating, DOMAIN location[GPR] = Lives(GPR),
         NEW rot, rot = Rotated(location[GPR]), Requirements(rot) <= reg_max[GPR]
  PROVE  /\ \A a \in Results : rot[a] \in Int
         /\ \A a, b \in Results : \A d, q \in Int :
                rot[b] - rot[a] = d + reg_max[GPR] * q /\ ~(a = b /\ d = 0) => Disjoint(a, b, d)
  <1>1. /\ DOMAIN life = Lives(GPR) /\ IsFiniteSet(Lives(GPR)) /\ Lives(GPR) = {Open} \cup Results
        /\ \A l \in Lives(GPR) : LifeOK(l)
        /\ \A a \in Results : ResultLife(a)
    BY GPRLives DEF GPRAllocating
  <1>2. PICK at : at = location[GPR]
    OBVIOUS
  <1>3. DOMAIN at = Lives(GPR) /\ \A l \in DOMAIN at : at[l] \in Int
    BY <1>2 DEF GPRAllocating
  <1>4. PICK m \in Int : rot = [l \in DOMAIN at |-> at[l] + m]
    <2> DEFINE A == {at[l] : l \in DOMAIN at}
               T == {0} \cup A
    <2>1. IsFiniteSet(A)
      BY <1>1, <1>3, ImageFinite
    <2>2. A \in SUBSET Int
      BY <1>3
    <2> HIDE DEF A
    <2>3. IsFiniteSet(T) /\ T \in SUBSET Int /\ T # {}
      <3>1. IsFiniteSet({0})
        BY FS_Singleton
      <3>2. IsFiniteSet({0} \cup A)
        BY <2>1, <3>1, FS_Union
      <3> QED BY <2>2, <3>2
    <2> HIDE DEF T
    <2>4. Min(T) \in Int
      BY <2>3, MinIs
    <2>5. PICK n \in Int : n = Min(T)
      BY <2>4
    <2>6. rot = [l \in DOMAIN at |-> at[l] + (-n)]
      BY <1>2, <2>5, Zenon DEF Rotated, T, A
    <2>7. -n \in Int
      BY <2>5
    <2> QED BY <2>6, <2>7
  <1>5. /\ DOMAIN rot = Lives(GPR)
        /\ \A l \in DOMAIN rot : LifeOK(l) /\ rot[l] \in Int /\ rot[l] = at[l] + m /\ at[l] \in Int
    <2>1. DOMAIN rot = DOMAIN at
      BY <1>4
    <2>2. ASSUME NEW l \in DOMAIN at PROVE rot[l] \in Int /\ rot[l] = at[l] + m /\ at[l] \in Int
      BY <1>3, <1>4
    <2> QED BY <1>1, <1>3, <2>1, <2>2
  <1>6. ASSUME NEW a \in Results, NEW b \in Results, NEW d \in Int, NEW q \in Nat, q >= 1,
               rot[b] - rot[a] = d + reg_max[GPR] * q
        PROVE  Follows(b, a, -d)
    <2>1. reg_max[GPR] \in Nat
      BY FileAssumption DEF Files
    <2>2. IsFiniteSet(DOMAIN rot) /\ a \in DOMAIN rot /\ b \in DOMAIN rot
      BY <1>1, <1>5
    <2>3. ResultLife(a) /\ ResultLife(b)
      BY <1>1
    <2>4. PICK size \in Nat : size = reg_max[GPR]
      BY <2>1
    <2>5. Requirements(rot) <= size /\ rot[b] - rot[a] = d + size * q
      BY <1>6, <2>4
    <2>6. \A l \in DOMAIN rot : LifeOK(l) /\ rot[l] \in Int
      BY <1>5
    <2> QED BY <1>6, <2>2, <2>3, <2>5, <2>6, WrapFollows
  <1>7. ASSUME NEW a \in Results, NEW b \in Results, NEW d \in Int, NEW q \in Int,
               rot[b] - rot[a] = d + reg_max[GPR] * q, ~(a = b /\ d = 0)
        PROVE  Disjoint(a, b, d)
    <2>0. /\ reg_max[GPR] \in Nat /\ rot[a] \in Int /\ rot[b] \in Int /\ at[a] \in Int /\ at[b] \in Int
          /\ rot[a] = at[a] + m /\ rot[b] = at[b] + m
          /\ a \in DOMAIN at /\ b \in DOMAIN at
      BY <1>1, <1>3, <1>5, FileAssumption DEF Files
    <2>1. CASE q = 0
      <3>1. at[b] - at[a] = d
        BY <1>7, <2>0, <2>1
      <3>2. a # b
        BY <1>7, <2>0, <3>1
      <3>3. ~Excludes(a, b, d)
        BY <1>2, <2>0, <3>1, <3>2 DEF GPRAllocating
      <3> QED BY <1>1, <3>2, <3>3, FreeIsDisjoint
    <2>2. CASE q >= 1
      BY <1>6, <1>7, <2>2 DEF Disjoint
    <2>3. CASE q <= -1
      <3>1. -q \in Nat /\ -q >= 1 /\ -d \in Int
        BY <2>3
      <3>2. rot[a] - rot[b] = -d + reg_max[GPR] * (-q)
        <4>1. PICK r \in Nat : r = reg_max[GPR]
          BY <2>0
        <4>2. PICK s \in Int : s = r * q
          BY <4>1
        <4>3. r * (-q) = -s
          BY <4>2
        <4>4. rot[b] - rot[a] = d + s
          BY <1>7, <4>1, <4>2
        <4>5. rot[a] - rot[b] = -d + (-s)
          BY <2>0, <4>4
        <4> QED BY <4>1, <4>3, <4>5
      <3>3. Follows(a, b, -(-d))
        BY <1>6, <3>1, <3>2
      <3>4. -(-d) = d
        OBVIOUS
      <3> QED BY <3>3, <3>4 DEF Disjoint
    <2> QED BY <2>1, <2>2, <2>3
  <1>8. \A a \in Results : rot[a] \in Int
    BY <1>1, <1>5
  <1> QED BY <1>7, <1>8

\* The facts that the schedule alone determines.
LEMMA DisjointStays ==
  ASSUME UNCHANGED schedVars
  PROVE  /\ Results' = Results /\ \A a, b, d : Disjoint(a, b, d)' <=> Disjoint(a, b, d)
         /\ calculate_esc' = calculate_esc /\ (SelfInv' <=> SelfInv)
  <1>1. UNCHANGED <<loop, phase, ii, stime, esc, uplim>>
    BY DEF schedVars, attemptVars, searchVars
  <1>2. Results' = Results /\ \A a : FlowOf(a)' = FlowOf(a)
    BY <1>1 DEF Results, FlowOf
  <1>3. \A a : Landing(a)' = Landing(a) /\ Issue(a)' = Issue(a)
    BY <1>1 DEF Landing, Issue
  <1>4. \A e : UseOf(e)' = UseOf(e)
    BY <1>1 DEF UseOf, Issue
  <1>5. \A a : LiveIn(a)' <=> LiveIn(a)
    BY <1>2 DEF LiveIn
  <1>6. \A a, b, d : Follows(a, b, d)' <=> Follows(a, b, d)
    BY <1>1, <1>2, <1>3, <1>4, <1>5 DEF Follows
  <1>7. \A a, b, d : Apart(a, b, d)' <=> Apart(a, b, d)
    BY <1>1, <1>2, <1>3, <1>4, <1>5 DEF Apart
  <1>8. \A a, b, d : Disjoint(a, b, d)' <=> Disjoint(a, b, d)
    BY <1>6, <1>7 DEF Disjoint
  <1>9. calculate_esc' = calculate_esc
    BY <1>1 DEF calculate_esc, length, max_latency
  <1>10. SelfInv' <=> SelfInv
    BY <1>1 DEF SelfInv, SelfHolds
  <1> QED BY <1>2, <1>8, <1>9, <1>10

\* No step of the loop breaks it.
LEMMA GprInvInductive == SwpInv /\ GprInv /\ [SwpStep \/ SwpEnded]_swpVars => GprInv'
  <1> SUFFICES ASSUME SwpInv, GprInv, [SwpStep \/ SwpEnded]_swpVars PROVE GprInv'
    OBVIOUS
  <1>0. /\ AttemptInv /\ SchedInv /\ file \in {GPR, PR, PR + 1} /\ DOMAIN location = Files
        /\ phase # "scheduled" => file = GPR /\ location[GPR] = <<>>
    BY DEF SwpInv, AllocInv, AttemptInv, GPR, PR
  <1>1. CASE SchedStep /\ UNCHANGED <<allocVars, kernelVars>>
    <2>1. phase # "scheduled"
      BY <1>1 DEF SchedStep, LimitTooLow, LimitFound, SearchStep, StartAtMII, init_sched_state, OutOfIntervals,
            InLegalSlot, InForcedSlot, Scheduling, Scheduled, BumpII
    <2>2. file' = GPR /\ location'[GPR] = <<>> /\ GPR = 1
      BY <1>0, <1>1, <2>1 DEF allocVars, GPR
    <2>3. SelfInv'
      BY <1>0, <1>1, SelfInvInductive DEF GprInv
    <2>4. phase' = "scheduled" => esc' = calculate_esc'
      <3>1. CASE Scheduled
        <4>1. esc' = calculate_esc /\ UNCHANGED <<loop, ii, stime>>
          BY <3>1 DEF Scheduled, attemptVars
        <4>2. calculate_esc' = calculate_esc
          BY <4>1 DEF calculate_esc, length, max_latency
        <4> QED BY <4>1, <4>2
      <3>2. CASE ~Scheduled
        BY <1>1, <2>1, <3>2 DEF SchedStep, LimitTooLow, LimitFound, SearchStep, StartAtMII, init_sched_state,
              OutOfIntervals, InLegalSlot, InForcedSlot, Scheduling, BumpII
      <3> QED BY <3>1, <3>2
    <2> QED BY <2>2, <2>3, <2>4 DEF GprInv
  <1>2. ASSUME UNCHANGED schedVars, file' = file, location'[GPR] = location[GPR], file # GPR
        PROVE  GprInv'
    <2>1. GPRAllocated' <=> GPRAllocated
      BY <1>2, DisjointStays DEF GPRAllocated
    <2> QED BY <1>0, <1>2, <2>1, DisjointStays DEF GprInv, GPR, PR, schedVars
  <1>3. CASE \E sel \in Nodes \cup {Open} : AllocateFirst(sel) \/ AllocateNext(sel)
    <2>1. PICK sel : AllocateFirst(sel) \/ AllocateNext(sel)
      BY <1>3
    <2>2. UNCHANGED schedVars /\ file' = file /\ phase = "scheduled" /\ file \in Files
      BY <2>1 DEF AllocateFirst, AllocateNext
    <2>3. CASE file = GPR
      <3>1. Timed /\ loop \in LOOPS
        BY <2>2, TimedWhenScheduled
      <3>2. location[GPR] # <<>> => GPRAllocating
        BY <2>3 DEF GprInv
      <3>3. GPRAllocating'
        BY <1>0, <2>1, <2>3, <3>1, <3>2, GPRPlacing
      <3>4. SelfInv' /\ (phase' = "scheduled" => esc' = calculate_esc') /\ ~(file' > GPR)
        BY <2>2, <2>3, DisjointStays DEF GprInv, schedVars, GPR
      <3> QED BY <3>3, <3>4 DEF GprInv
    <2>4. CASE file = PR
      <3>1. PICK loc : location' = [location EXCEPT ![PR] = With(location[PR], sel, loc)]
        BY <2>1, <2>4 DEF AllocateFirst, AllocateNext, Place
      <3>2. location'[GPR] = location[GPR]
        BY <1>0, <3>1 DEF Files, GPR, PR
      <3> QED BY <1>2, <2>2, <2>4, <3>2 DEF GPR, PR
    <2> QED BY <2>2, <2>3, <2>4 DEF Files
  <1>4. CASE FileAllocated
    <2>1. /\ phase = "scheduled" /\ AllPlaced /\ UNCHANGED schedVars /\ file' = file + 1
          /\ Requirements(Rotated(location[file])) <= reg_max[file]
          /\ location' = [location EXCEPT ![file] = Rotated(location[file])]
      BY <1>4 DEF FileAllocated
    <2>2. file \in Files /\ DOMAIN location[file] = Lives(file)
      BY <2>1 DEF AllPlaced
    <2>3. SelfInv' /\ (phase' = "scheduled" => esc' = calculate_esc')
      BY <2>1, DisjointStays DEF GprInv, schedVars
    <2>4. CASE file = GPR
      <3>1. Timed /\ loop \in LOOPS
        BY <2>1, TimedWhenScheduled
      <3>2. GPRAllocating
        <4>1. Open \in DOMAIN location[GPR]
          BY <2>2, <2>4 DEF Lives
        <4>2. location[GPR] # <<>>
          BY <4>1
        <4> QED BY <2>4, <4>2 DEF GprInv
      <3>3. PICK rot : rot = Rotated(location[GPR])
        OBVIOUS
      <3>4. location'[GPR] = rot
        BY <1>0, <2>1, <2>2, <2>4, <3>3
      <3>5. /\ \A a \in Results : rot[a] \in Int
            /\ \A a, b \in Results : \A d, q \in Int :
                   rot[b] - rot[a] = d + reg_max[GPR] * q /\ ~(a = b /\ d = 0) => Disjoint(a, b, d)
        <4>1. Requirements(rot) <= reg_max[GPR] /\ DOMAIN location[GPR] = Lives(GPR)
          BY <2>1, <2>2, <2>4, <3>3
        <4> QED BY <3>1, <3>2, <3>3, <4>1, GPRFits
      <3>6. GPRAllocated'
        <4>1. Results' = Results /\ \A a, b, d : Disjoint(a, b, d)' <=> Disjoint(a, b, d)
          BY <2>1, DisjointStays
        <4> QED BY <3>4, <3>5, <4>1 DEF GPRAllocated
      <3>7. ~(file' = GPR)
        BY <2>1, <2>4 DEF GPR
      <3> QED BY <2>3, <3>6, <3>7 DEF GprInv
    <2>5. CASE file = PR
      <3>1. location'[GPR] = location[GPR] /\ GPRAllocated
        BY <1>0, <2>1, <2>5 DEF Files, GPR, PR, GprInv
      <3>2. GPRAllocated'
        BY <2>1, <3>1, DisjointStays DEF GPRAllocated
      <3>3. ~(file' = GPR)
        BY <2>1, <2>5 DEF GPR, PR
      <3> QED BY <2>3, <3>2, <3>3 DEF GprInv
    <2> QED BY <2>2, <2>4, <2>5 DEF Files
  <1>5. CASE AllocationFails
    <2>1. /\ phase = "scheduled" /\ ii' = ii + 1 /\ phase' = "schedule" /\ loop' = loop
          /\ file' = GPR /\ location' = [f \in Files |-> <<>>]
      BY <1>5 DEF AllocationFails
    <2>2. SelfHolds(ii')
      <3>1. ii \in Nat /\ ii' \in Nat /\ ii <= ii' /\ SelfHolds(ii) /\ loop \in LOOPS
        BY <1>0, <2>1 DEF SchedInv, GprInv, SelfInv
      <3> QED BY <3>1, SelfGrows
    <2>3. SelfInv'
      BY <2>1, <2>2 DEF SelfInv, SelfHolds
    <2>4. location'[GPR] = <<>> /\ ~(file' > GPR)
      BY <2>1 DEF Files, GPR
    <2> QED BY <2>1, <2>3, <2>4 DEF GprInv
  <1>6. CASE UNCHANGED rotVars
    <2>1. UNCHANGED schedVars /\ file' = file /\ location' = location /\ life' = life
      BY <1>6 DEF rotVars, allocVars
    <2>2. CASE file = GPR
      <3>1. Construct_lifetimes(GPR)' = Construct_lifetimes(GPR) /\ Lives(GPR)' = Lives(GPR)
        BY <2>1 DEF Construct_lifetimes, Process_open_loop_data, Process_input_data, Uses, FlowOf, Issue,
              Lives, Results, Floor, Ceil, stage_count, schedVars, attemptVars
      <3>2. \A a, b, d : Excludes(a, b, d)' <=> Excludes(a, b, d)
        BY <2>1 DEF Excludes, dist, Interference, Live_at_def, Ceil, Ceiling, schedVars, attemptVars
      <3>3. GPRAllocating' <=> GPRAllocating
        BY <2>1, <3>1, <3>2 DEF GPRAllocating
      <3>4. ~(file' > GPR)
        BY <2>1, <2>2 DEF GPR
      <3> QED BY <2>1, <3>3, <3>4, DisjointStays DEF GprInv, schedVars
    <2>3. CASE file # GPR
      BY <1>2, <2>1, <2>3
    <2> QED BY <2>2, <2>3
  <1>7. UNCHANGED swpVars \/ Cycle \/ (\E lc \in 0..MAXLC : Enter(lc)) => UNCHANGED rotVars
    BY DEF swpVars, Cycle, Enter
  <1> QED BY <1>1, <1>3, <1>4, <1>5, <1>6, <1>7 DEF SwpStep, SwpEnded, Allocate

-----------------------------------------------------------------------------
\* The values in the registers.

\* The register of a's value of iteration k, wherever the base is.
Home(a, k) == (location[GPR][a] - k + RRB + Rounds) % reg_max[GPR]

Result(b, k) == [due |-> Landing(b) + k * ii, reg |-> Home(b, k), val |-> <<b, k>>]

\* a's value of iteration k is used in cycle c or later, or after the loop.
Needed(a, k, c) ==
    \/ \E e \in FlowOf(a) : k + e.omega \in 0..trips /\ c <= UseOf(e) + k * ii
    \/ a \in loop.liveout /\ k = trips

\* On their way are the results that were issued and have not landed.
FlightInv ==
    /\ \A x \in inflight : \E b \in Results : \E k \in 0..trips :
            x = Result(b, k) /\ Issue(b) + k * ii < clock /\ clock < Landing(b) + k * ii
    /\ \A b \in Results : \A k \in 0..trips :
            Issue(b) + k * ii < clock /\ clock < Landing(b) + k * ii => Result(b, k) \in inflight

\* A value that has landed, or was there before the loop, is in its register as
\* long as it is needed.
ValuesInv == \A a \in Results : \A k \in Int :
    (k < 0 \/ Landing(a) + k * ii <= clock) /\ Needed(a, k, clock) => gpr[Home(a, k)] = <<a, k>>

DataInv ==
    /\ kphase = "before" => inflight = {}
    /\ kphase # "before" => clock \in Nat /\ trips \in Nat /\ FlightInv /\ ValuesInv

\* Cycles with one remainder are a number of intervals apart.
LEMMA InStep ==
  ASSUME NEW n \in Nat, n > 0, NEW c \in Int, NEW i \in Int
  PROVE  /\ c % n = i % n => c = i + ((c \div n) - (i \div n)) * n
         /\ \A k \in Int : c = i + k * n => c % n = i % n /\ (c \div n) - (i \div n) = k
  <1> DEFINE p == c \div n
             q == i \div n
             r == c % n
             s == i % n
  <1>1. p \in Int /\ r \in 0..(n - 1) /\ c = n * p + r
    BY DivMod
  <1>2. q \in Int /\ s \in 0..(n - 1) /\ i = n * q + s
    BY DivMod
  <1>3. ASSUME NEW k \in Int, c = i + k * n PROVE r = s /\ p - q = k
    <2>1. (i + n * k) \div n = q + k
      BY DivPlus
    <2>2. i + k * n = i + n * k
      OBVIOUS
    <2>3. p = q + k
      BY <1>3, <2>1, <2>2
    <2> HIDE DEF p, q, r, s
    <2>4. n * p = n * q + n * k /\ n * q \in Int /\ n * k \in Int
      BY <1>2, <2>3
    <2> QED BY <1>1, <1>2, <1>3, <2>2, <2>3, <2>4
  <1> HIDE DEF p, q, r, s
  <1>4. ASSUME r = s PROVE c = i + (p - q) * n
    <2>1. (p - q) * n = n * p - n * q /\ n * p \in Int /\ n * q \in Int
      BY <1>1, <1>2
    <2> QED BY <1>1, <1>2, <1>4, <2>1
  <1> QED BY <1>3, <1>4 DEF p, q, r, s

\* Numbers with one remainder are a multiple apart.
LEMMA ModEqual ==
  ASSUME NEW n \in Nat, n > 0, NEW x \in Int, NEW y \in Int, x % n = y % n
  PROVE  \E q \in Int : y - x = n * q
  <1>1. y = x + ((y \div n) - (x \div n)) * n
    BY InStep
  <1>2. PICK q \in Int : q = (y \div n) - (x \div n)
    BY DivMod
  <1>3. q * n = n * q /\ q * n \in Int
    BY <1>2
  <1> QED BY <1>1, <1>2, <1>3

\* What is known in the loop.
LEMMA LoopFacts ==
  ASSUME SwpInv, GprInv, phase = "scheduled", file = PR + 1
  PROVE  /\ Timed /\ loop \in LOOPS /\ GPRAllocated /\ GPR \in Files
         /\ ii \in Nat /\ ii > 0 /\ esc \in Nat /\ RRB \in Int
         /\ reg_max[GPR] \in Nat /\ reg_max[GPR] > 0
         /\ \A a \in Results : location[GPR][a] \in Int
  <1>1. Timed /\ loop \in LOOPS /\ GPRAllocated
    BY TimedWhenScheduled DEF GprInv, GPR, PR
  <1>2. ii \in Nat /\ ii > 0 /\ esc \in Nat /\ RRB \in Int
    BY AllocatedFacts
  <1>3. GPR \in Files /\ reg_max[GPR] \in Nat /\ reg_max[GPR] > 0
    BY FileAssumption DEF Files
  <1> QED BY <1>1, <1>2, <1>3 DEF GPRAllocated

\* The registers the binding gives are those homes.
LEMMA HomeRegs ==
  ASSUME SwpInv, GprInv, phase = "scheduled", file = PR + 1, clock \in Nat, trips \in Nat
  PROVE  /\ \A a \in Results : \A k \in Int : Home(a, k) \in GPRs
         /\ \A b \in Results : Physical(GPR, DefReg(GPR, b), RRB) = Home(b, Iteration(b))
         /\ \A e \in loop.flow :
                Physical(GPR, UseReg(GPR, e.src, e.dst, e.omega), RRB)
                  = Home(e.src, Iteration(e.dst) - e.omega)
         /\ \A s \in Results :
                Rounds = trips + stage_count => Physical(GPR, ExitReg(GPR, s), RRB) = Home(s, trips)
  <1>1. /\ Timed /\ loop \in LOOPS /\ GPR \in Files /\ ii \in Nat /\ ii > 0 /\ esc \in Nat /\ RRB \in Int
        /\ reg_max[GPR] \in Nat /\ reg_max[GPR] > 0
        /\ \A a \in Results : location[GPR][a] \in Int
    BY LoopFacts
  <1>2. ASSUME NEW x \in Int
        PROVE  /\ Physical(GPR, x % reg_max[GPR], RRB) = (x + RRB) % reg_max[GPR]
               /\ x % reg_max[GPR] \in GPRs
    <2>1. x % reg_max[GPR] \in GPRs
      BY <1>1, DivMod DEF GPRs
    <2> QED BY <1>1, <2>1, PhysicalIs
  <1>3. Rounds \in Int /\ stage_count \in Int
    BY <1>1, DivMod DEF Rounds, Floor, stage_count
  <1>4. \A a \in Results : base_evr(a) = 0
    BY <1>1, ResultsAre DEF base_evr
  <1>5. \A op \in Ops : Issue(op) \in Int /\ Floor(Issue(op)) \in Int /\ Iteration(op) = Rounds - Floor(Issue(op))
    <2> TAKE op \in Ops
    <2>1. Issue(op) \in Int
      BY <1>1 DEF Timed
    <2> QED BY <1>1, <2>1, DivMod DEF Floor, Iteration, Rounds
  <1>6. ASSUME NEW a \in Results, NEW k \in Int PROVE Home(a, k) \in GPRs
    <2>1. location[GPR][a] - k + RRB + Rounds \in Int
      <3>1. location[GPR][a] \in Int
        BY <1>1
      <3> QED BY <1>1, <1>3, <3>1
    <2> QED BY <1>2, <2>1 DEF Home
  <1>7. ASSUME NEW b \in Results PROVE Physical(GPR, DefReg(GPR, b), RRB) = Home(b, Iteration(b))
    <2>1. PICK f \in Int : f = Floor(Issue(b))
      BY <1>1, <1>5, ResultsAre
    <2>2. PICK l \in Int : l = location[GPR][b]
      BY <1>1
    <2>3. PICK x \in Int : x = l + f
      OBVIOUS
    <2>4. Physical(GPR, x % reg_max[GPR], RRB) = (x + RRB) % reg_max[GPR]
      BY <1>2
    <2>5. DefReg(GPR, b) = x % reg_max[GPR]
      BY <2>1, <2>2, <2>3 DEF DefReg
    <2>6. Iteration(b) = Rounds - f
      BY <1>1, <1>5, <2>1, ResultsAre
    <2>7. x + RRB = l - (Rounds - f) + RRB + Rounds
      BY <1>1, <1>3, <2>3
    <2> QED BY <2>2, <2>4, <2>5, <2>6, <2>7 DEF Home
  <1>8. ASSUME NEW e \in loop.flow
        PROVE  Physical(GPR, UseReg(GPR, e.src, e.dst, e.omega), RRB) = Home(e.src, Iteration(e.dst) - e.omega)
    <2>1. e.src \in Results /\ e.dst \in Ops /\ e.omega \in Nat
      BY <1>1 DEF Timed, Results, FlowOf
    <2>2. PICK l \in Int : l = location[GPR][e.src]
      BY <1>1, <2>1
    <2>3. PICK i \in Int : i = Issue(e.dst)
      BY <1>5, <2>1
    <2>4. Floor(i + (e.omega - base_evr(e.src)) * ii) = Floor(i) + e.omega
      <3>1. PICK w \in Int : w = e.omega
        BY <2>1
      <3>2. (i + ii * w) \div ii = (i \div ii) + w
        BY <1>1, DivPlus
      <3>3. (w - 0) * ii = ii * w
        BY <1>1
      <3>4. base_evr(e.src) = 0
        BY <1>4, <2>1
      <3> QED BY <3>1, <3>2, <3>3, <3>4 DEF Floor
    <2>5. PICK f \in Int : f = Floor(i)
      BY <1>5, <2>1, <2>3
    <2>6. PICK x \in Int : x = l + (f + e.omega)
      BY <2>1
    <2>7. UseReg(GPR, e.src, e.dst, e.omega) = x % reg_max[GPR]
      BY <2>2, <2>3, <2>4, <2>5, <2>6 DEF UseReg
    <2>8. Physical(GPR, x % reg_max[GPR], RRB) = (x + RRB) % reg_max[GPR]
      BY <1>2
    <2>9. Iteration(e.dst) = Rounds - f
      BY <1>5, <2>1, <2>3, <2>5
    <2>10. x + RRB = l - (Rounds - f - e.omega) + RRB + Rounds
      BY <1>1, <1>3, <2>1, <2>6
    <2> QED BY <2>2, <2>7, <2>8, <2>9, <2>10 DEF Home
  <1>9. ASSUME NEW s \in Results, Rounds = trips + stage_count
         PROVE  Physical(GPR, ExitReg(GPR, s), RRB) = Home(s, trips)
    <2>1. PICK l \in Int : l = location[GPR][s]
      BY <1>1
    <2>2. PICK x \in Int : x = l + stage_count
      BY <1>3
    <2>3. ExitReg(GPR, s) = x % reg_max[GPR]
      <3>1. l + 1 - 0 + stage_count - 1 = x
        BY <1>3, <2>2
      <3> QED BY <1>4, <2>1, <3>1 DEF ExitReg
    <2>4. Physical(GPR, x % reg_max[GPR], RRB) = (x + RRB) % reg_max[GPR]
      BY <1>2
    <2>5. x + RRB = l - trips + RRB + Rounds
      BY <1>1, <1>3, <1>9, <2>2
    <2> QED BY <2>1, <2>3, <2>4, <2>5 DEF Home
  <1> QED BY <1>6, <1>7, <1>8, <1>9

\* The register of a value from before the loop.
LEMMA EntryHome ==
  ASSUME SwpInv, GprInv, phase = "scheduled", file = PR + 1, NEW a \in Results, NEW w \in Int
  PROVE  /\ Physical(GPR, EntryReg(GPR, a, w), RRB) = (location[GPR][a] + w + RRB) % reg_max[GPR]
         /\ (location[GPR][a] + w + RRB) % reg_max[GPR] \in GPRs
  <1>1. Timed /\ GPR \in Files /\ RRB \in Int
    BY LoopFacts
  <1>2. PICK l \in Int : l = location[GPR][a]
    BY LoopFacts
  <1>3. PICK x \in Int : x = l + w
    OBVIOUS
  <1>4. EntryReg(GPR, a, w) = x % reg_max[GPR]
    <2>1. base_evr(a) = 0
      BY <1>1, ResultsAre DEF base_evr
    <2>2. l + w - 0 = x
      BY <1>3
    <2> QED BY <1>2, <2>1, <2>2 DEF EntryReg
  <1>5. /\ Physical(GPR, x % reg_max[GPR], RRB) = (x + RRB) % reg_max[GPR]
        /\ (x + RRB) % reg_max[GPR] \in GPRs
    BY <1>1, PhysicalIs DEF GPRs
  <1> QED BY <1>2, <1>3, <1>4, <1>5

\* Different values in one register are disjoint.
LEMMA HomeShared ==
  ASSUME SwpInv, GprInv, phase = "scheduled", file = PR + 1,
         NEW a \in Results, NEW b \in Results, NEW k \in Int, NEW m \in Int,
         NEW x \in Int,
         (location[GPR][a] - k + x) % reg_max[GPR] = (location[GPR][b] - m + x) % reg_max[GPR],
         ~(a = b /\ k = m)
  PROVE  Disjoint(a, b, m - k)
  <1>1. /\ GPRAllocated /\ reg_max[GPR] \in Nat /\ reg_max[GPR] > 0
        /\ location[GPR][a] \in Int /\ location[GPR][b] \in Int
    BY LoopFacts
  <1>2. PICK p \in Int : p = location[GPR][a] - k + x
    BY <1>1
  <1>3. PICK r \in Int : r = location[GPR][b] - m + x
    BY <1>1
  <1>4. PICK q \in Int : r - p = reg_max[GPR] * q
    BY <1>1, <1>2, <1>3, ModEqual
  <1>5. PICK d \in Int : d = m - k
    OBVIOUS
  <1>6. PICK s \in Int : s = reg_max[GPR] * q
    BY <1>1
  <1>7. location[GPR][b] - location[GPR][a] = d + s
    <2>1. PICK la \in Int : la = location[GPR][a]
      BY <1>1
    <2>2. PICK lb \in Int : lb = location[GPR][b]
      BY <1>1
    <2>3. r - p = s
      BY <1>4, <1>6
    <2>4. p = la - k + x /\ r = lb - m + x
      BY <1>2, <1>3, <2>1, <2>2
    <2>5. lb - la = d + s
      BY <1>5, <2>3, <2>4
    <2> QED BY <2>1, <2>2, <2>5
  <1>8. ~(a = b /\ d = 0)
    BY <1>5
  <1> QED BY <1>1, <1>5, <1>6, <1>7, <1>8 DEF GPRAllocated

\* What lands takes no register of a value that is needed.
LEMMA Undisturbed ==
  ASSUME SwpInv, GprInv, phase = "scheduled", file = PR + 1, clock \in Nat, trips \in Nat,
         NEW a \in Results, NEW b \in Results, NEW k \in Int, NEW m \in 0..trips, NEW c \in Int,
         Landing(b) + m * ii = c, k < 0 \/ Landing(a) + k * ii <= c,
         Needed(a, k, c), Home(a, k) = Home(b, m)
  PROVE  a = b /\ k = m
  <1> SUFFICES ASSUME ~(a = b /\ k = m) PROVE FALSE
    OBVIOUS
  <1>1. /\ ii \in Nat /\ ii > 0 /\ RRB \in Int
        /\ Issue(a) \in Nat /\ Landing(a) \in Nat /\ Issue(a) < Landing(a)
        /\ Issue(b) \in Nat /\ Landing(b) \in Nat /\ Issue(b) < Landing(b)
        /\ \A e \in FlowOf(a) : UseOf(e) \in Nat /\ e.omega \in Nat
    <2>1. Timed /\ RRB \in Int
      BY LoopFacts
    <2> QED BY <2>1, ResultsAre DEF Timed
  <1>2. PICK d \in Int : d = m - k
    OBVIOUS
  <1>3. Disjoint(a, b, d)
    <2>1. Rounds \in Int
      BY <1>1, DivMod DEF Rounds, Floor
    <2>2. PICK x \in Int : x = RRB + Rounds
      BY <1>1, <2>1
    <2>3. /\ location[GPR][a] \in Int /\ location[GPR][b] \in Int
      BY LoopFacts
    <2>4. /\ location[GPR][a] - k + RRB + Rounds = location[GPR][a] - k + x
          /\ location[GPR][b] - m + RRB + Rounds = location[GPR][b] - m + x
      BY <1>1, <2>1, <2>2, <2>3
    <2>5. (location[GPR][a] - k + x) % reg_max[GPR] = (location[GPR][b] - m + x) % reg_max[GPR]
      BY <2>4 DEF Home
    <2>6. m \in Int
      OBVIOUS
    <2> QED BY <1>2, <2>5, <2>6, HomeShared
  <1>4. PICK D \in Int : D = d * ii /\ -D = (-d) * ii
    <2>1. PICK D \in Int : D = d * ii
      BY <1>1
    <2>2. (-d) * ii = -D
      BY <1>1, <2>1
    <2> QED BY <2>1, <2>2
  <1>5. PICK K \in Int : K = k * ii
    BY <1>1
  <1>6. PICK M \in Int : M = m * ii /\ M = K + D
    <2>1. PICK M \in Int : M = m * ii
      BY <1>1
    <2>2. m * ii = k * ii + d * ii
      BY <1>1, <1>2
    <2> QED BY <1>4, <1>5, <2>1, <2>2
  <1>7. CASE Follows(a, b, d)
    <2>1. \A e \in FlowOf(a) : UseOf(e) < Issue(b) + D
      BY <1>4, <1>7 DEF Follows
    <2>2. ~ \E e \in FlowOf(a) : c <= UseOf(e) + K
      BY <1>1, <1>5, <1>6, <2>1
    <2>3. a \in loop.liveout /\ k = trips
      BY <1>5, <2>2 DEF Needed
    <2>4. d >= 1
      BY <1>7, <2>3 DEF Follows
    <2> QED BY <1>2, <2>3, <2>4
  <1>8. CASE Follows(b, a, -d)
    <2>1. Landing(b) < Issue(a) + (-D)
      BY <1>4, <1>8 DEF Follows
    <2>2. ~(Landing(a) + K <= c)
      BY <1>1, <1>6, <2>1
    <2>3. k < 0
      BY <1>5, <2>2
    <2>4. PICK e \in FlowOf(a) : k + e.omega \in 0..trips
      BY <2>3 DEF Needed
    <2>5. e.omega > 0
      BY <1>1, <2>3, <2>4
    <2>6. -d >= 0
      BY <1>8, <2>5 DEF Follows, LiveIn
    <2> QED BY <1>2, <2>3, <2>6
  <1>9. CASE Apart(a, b, d)
    <2>1. PICK e \in FlowOf(a) : k + e.omega \in 0..trips /\ c <= UseOf(e) + K
      BY <1>5, <1>9 DEF Apart, Needed
    <2>2. e.omega = 0
      BY <1>1, <1>9 DEF Apart, LiveIn
    <2>3. Landing(a) + K <= c
      BY <1>5, <2>1, <2>2
    <2>4. Landing(b) + D < Issue(a) \/ Issue(b) + D > UseOf(e)
      BY <1>4, <1>9 DEF Apart
    <2>5. UseOf(e) \in Nat
      BY <1>1
    <2> QED BY <1>1, <1>6, <2>1, <2>3, <2>4, <2>5
  <1> QED BY <1>3, <1>7, <1>8, <1>9 DEF Disjoint

\* What is on its way in a cycle: the results that were issued by then and
\* have not landed.
LEMMA WrittenIs ==
  ASSUME SwpInv, GprInv, kphase = "kernel", clock \in Nat, trips \in Nat, FlightInv
  PROVE  /\ \A x \in Written : \E b \in Results : \E k \in 0..trips :
                x = Result(b, k) /\ Issue(b) + k * ii <= clock /\ clock < Landing(b) + k * ii
         /\ \A b \in Results : \A k \in 0..trips :
                Issue(b) + k * ii <= clock /\ clock < Landing(b) + k * ii => Result(b, k) \in Written
  <1>1. phase = "scheduled" /\ file = PR + 1
    BY DEF SwpInv
  <1>2. Timed /\ loop \in LOOPS /\ ii \in Nat /\ ii > 0
    BY <1>1, LoopFacts
  <1>3. ASSUME NEW b \in Results
        PROVE  /\ b \in Ops /\ Issue(b) \in Nat /\ Landing(b) \in Nat /\ Issue(b) < Landing(b)
               /\ loop.lat[b] \in Nat /\ Landing(b) = Issue(b) + loop.lat[b]
               /\ \A k \in Int : k * ii \in Int
    <2>1. b \in Ops
      BY <1>2, ResultsAre
    <2>2. loop.lat[b] \in Nat
      BY <1>2, <2>1, LoopAssumption, OpType
    <2> QED BY <1>2, <2>1, <2>2 DEF Timed, Landing
  <1> DEFINE New(op) == [due |-> clock + loop.lat[op], reg |-> Physical(GPR, DefReg(GPR, op), RRB),
                         val |-> <<op, Iteration(op)>>]
  <1>4. Written = inflight \cup {New(op) : op \in IssuedResults}
    BY DEF Written
  <1>5. ASSUME NEW b \in Results, NEW k \in Int, Iteration(b) = k, clock = Issue(b) + k * ii
        PROVE  New(b) = Result(b, k)
    <2>1. clock + loop.lat[b] = Landing(b) + k * ii
      BY <1>3, <1>5
    <2>2. Physical(GPR, DefReg(GPR, b), RRB) = Home(b, k)
      BY <1>1, <1>5, HomeRegs
    <2> QED BY <1>5, <2>1, <2>2, Zenon DEF Result
  <1>6. ASSUME NEW b \in Results, b \in IssuedResults
        PROVE  \E k \in 0..trips : New(b) = Result(b, k) /\ clock = Issue(b) + k * ii
    <2>1. b \in Running /\ Guard(b) /\ clock % ii = Issue(b) % ii
      BY <1>3, <1>6 DEF IssuedResults, Running, Issues
    <2>2. Iteration(b) \in 0..trips
      BY <2>1, GuardIs
    <2>3. clock = Issue(b) + Iteration(b) * ii
      <3>1. Iteration(b) = (clock \div ii) - (Issue(b) \div ii)
        BY DEF Iteration, Floor
      <3>2. clock = Issue(b) + ((clock \div ii) - (Issue(b) \div ii)) * ii
        <4>1. PICK i \in Int : i = Issue(b)
          BY <1>3
        <4>2. PICK c \in Int : c = clock
          OBVIOUS
        <4>3. c % ii = i % ii => c = i + ((c \div ii) - (i \div ii)) * ii
          BY <1>2, InStep
        <4> QED BY <2>1, <4>1, <4>2, <4>3
      <3> QED BY <3>1, <3>2
    <2>4. Iteration(b) \in Int
      BY <2>2
    <2> HIDE DEF New
    <2> QED BY <1>5, <2>2, <2>3, <2>4
  <1>7. ASSUME NEW b \in Results, NEW k \in 0..trips, clock = Issue(b) + k * ii
        PROVE  b \in IssuedResults /\ New(b) = Result(b, k)
    <2>1. k \in Int /\ clock \in Int /\ Issue(b) \in Int
      BY <1>3
    <2>2. clock % ii = Issue(b) % ii /\ (clock \div ii) - (Issue(b) \div ii) = k
      BY <1>2, <1>7, <2>1, InStep
    <2>3. Iteration(b) = k
      BY <2>2 DEF Iteration, Floor
    <2>4. b \in Running /\ Issues(b)
      BY <1>3, <2>2 DEF Running, Issues
    <2>5. Guard(b)
      BY <2>3, <2>4, GuardIs
    <2> HIDE DEF New
    <2> QED BY <1>5, <1>7, <2>1, <2>3, <2>4, <2>5 DEF IssuedResults
  <1> HIDE DEF New
  <1>8. ASSUME NEW x \in Written
        PROVE  \E b \in Results : \E k \in 0..trips :
                  x = Result(b, k) /\ Issue(b) + k * ii <= clock /\ clock < Landing(b) + k * ii
    <2>1. CASE x \in inflight
      <3>1. PICK b \in Results, k \in 0..trips :
                x = Result(b, k) /\ Issue(b) + k * ii < clock /\ clock < Landing(b) + k * ii
        BY <2>1 DEF FlightInv
      <3>2. Issue(b) + k * ii <= clock
        BY <1>3, <3>1
      <3> QED BY <3>1, <3>2
    <2>2. CASE x \notin inflight
      <3>1. PICK b \in IssuedResults : x = New(b)
        BY <1>4, <2>2
      <3>2. b \in Results
        BY DEF IssuedResults
      <3>3. PICK k \in 0..trips : New(b) = Result(b, k) /\ clock = Issue(b) + k * ii
        BY <1>6, <3>2
      <3>4. Issue(b) + k * ii <= clock /\ clock < Landing(b) + k * ii
        BY <1>3, <3>2, <3>3
      <3> QED BY <3>1, <3>2, <3>3, <3>4
    <2> QED BY <2>1, <2>2
  <1>9. ASSUME NEW b \in Results, NEW k \in 0..trips,
               Issue(b) + k * ii <= clock, clock < Landing(b) + k * ii
        PROVE  Result(b, k) \in Written
    <2>1. CASE Issue(b) + k * ii < clock
      <3>1. Result(b, k) \in inflight
        BY <1>9, <2>1 DEF FlightInv
      <3> QED BY <1>4, <3>1
    <2>2. CASE clock = Issue(b) + k * ii
      BY <1>4, <1>7, <2>2
    <2>3. Issue(b) + k * ii \in Int
      BY <1>3
    <2> QED BY <1>9, <2>1, <2>2, <2>3
  <1> QED BY <1>8, <1>9

\* The turn of the registers leaves every value where it is.
LEMMA HomeStays ==
  ASSUME SwpInv, GprInv, Cycle, clock \in Nat, NEW a \in Results, NEW k \in Int
  PROVE  Home(a, k)' = Home(a, k)
  <1>1. /\ phase = "scheduled" /\ file = PR + 1 /\ clock' = clock + 1 /\ UNCHANGED rotVars
    BY DEF Cycle, SwpInv
  <1>2. ii' = ii /\ location' = location
    BY <1>1 DEF rotVars, schedVars, allocVars
  <1>3. /\ Rounds \in Nat
        /\ Issues(Branch) => Rounds' = Rounds + 1
        /\ ~Issues(Branch) => Rounds' = Rounds
    BY <1>1, <1>2, RoundsAre
  <1>4. /\ GPR \in Files /\ RRB \in Int /\ location[GPR][a] \in Int
    BY <1>1, LoopFacts
  <1>5. CASE ~Issues(Branch)
    <2>1. RRB' = RRB
      BY <1>5 DEF Cycle
    <2> QED BY <1>2, <1>3, <1>5, <2>1 DEF Home
  <1>6. CASE Issues(Branch)
    <2>1. RRB' = (RRB - 1) % WORD
      BY <1>6 DEF Cycle, BRF, Rotate
    <2>2. PICK l \in Int : l = location[GPR][a]
      BY <1>4
    <2>3. PICK x \in Int : x = l - k + Rounds + 1
      BY <1>3
    <2>4. (x + ((RRB - 1) % WORD)) % reg_max[GPR] = (x + (RRB - 1)) % reg_max[GPR]
      BY <1>1, <1>4, PhysicalIs
    <2>5. PICK w \in Int : w = (RRB - 1) % WORD
      <3>1. RRB - 1 \in Int /\ WORD \in Nat /\ WORD > 0
        BY <1>4, WordAssumption
      <3> QED BY <3>1, DivMod
    <2>6. l - k + w + (Rounds + 1) = x + w /\ l - k + RRB + Rounds = x + (RRB - 1)
      BY <1>3, <1>4, <2>3
    <2> QED BY <1>2, <1>3, <1>6, <2>1, <2>2, <2>4, <2>5, <2>6 DEF Home
  <1> QED BY <1>5, <1>6

\* A cycle keeps every value that is needed.
LEMMA CycleKeepsData ==
  ASSUME SwpInv, GprInv, DataInv, Cycle
  PROVE  DataInv'
  <1>1. /\ phase = "scheduled" /\ file = PR + 1 /\ kphase = "kernel" /\ clock' = clock + 1
        /\ UNCHANGED rotVars /\ trips' = trips /\ clock \in Nat /\ trips \in Nat /\ FlightInv /\ ValuesInv
    BY DEF Cycle, SwpInv, DataInv
  <1>2. ii' = ii /\ location' = location /\ loop' = loop /\ stime' = stime
    BY <1>1 DEF rotVars, schedVars, allocVars, attemptVars
  <1>3. kphase' # "before" /\ clock' \in Nat /\ trips' \in Nat
    <2>1. kphase' # "before"
      BY CycleKeeps
    <2> QED BY <1>1, <2>1
  <1>4. Results' = Results /\ \A a : Issue(a)' = Issue(a) /\ Landing(a)' = Landing(a) /\ FlowOf(a)' = FlowOf(a)
    BY <1>2 DEF Results, FlowOf, Issue, Landing
  <1>6. \A a \in Results : \A k \in Int : Home(a, k)' = Home(a, k) /\ Home(a, k) \in GPRs
    BY <1>1, HomeStays, HomeRegs
  <1>7. \A a \in Results : \A k \in Int : Result(a, k)' = Result(a, k)
    BY <1>2, <1>4, <1>6 DEF Result
  <1>8. PICK W : W = Written
    OBVIOUS
  <1>9. /\ inflight' = {x \in W : x.due > clock + 1}
        /\ gpr' = [p \in GPRs |-> LET X == {x \in W : x.due = clock + 1 /\ x.reg = p} IN
                        IF X = {} THEN gpr[p] ELSE (CHOOSE x \in X : TRUE).val]
    BY <1>8 DEF Cycle
  <1>10. /\ \A x \in W : \E b \in Results : \E k \in 0..trips :
                x = Result(b, k) /\ Issue(b) + k * ii <= clock /\ clock < Landing(b) + k * ii
         /\ \A b \in Results : \A k \in 0..trips :
                Issue(b) + k * ii <= clock /\ clock < Landing(b) + k * ii => Result(b, k) \in W
    BY <1>1, <1>8, WrittenIs
  <1>11. ASSUME NEW b \in Results
         PROVE  /\ Issue(b) \in Nat /\ Landing(b) \in Nat /\ Issue(b) < Landing(b)
                /\ \A k \in Int : k * ii \in Int
                /\ \A e \in FlowOf(b) : UseOf(e) \in Nat /\ e.omega \in Nat
    <2>1. Timed /\ ii \in Nat
      BY <1>1, LoopFacts
    <2> QED BY <2>1, ResultsAre DEF Timed
  <1>12. \A b, k : Result(b, k).due = Landing(b) + k * ii /\ Result(b, k).reg = Home(b, k)
                   /\ Result(b, k).val = <<b, k>>
    BY DEF Result
  <1>13. FlightInv'
    <2>1. ASSUME NEW x \in inflight'
          PROVE  \E b \in Results : \E k \in 0..trips :
                    x = Result(b, k) /\ Issue(b) + k * ii < clock + 1 /\ clock + 1 < Landing(b) + k * ii
      <3>1. x \in W /\ x.due > clock + 1
        BY <1>9
      <3>2. PICK b \in Results, k \in 0..trips :
                x = Result(b, k) /\ Issue(b) + k * ii <= clock /\ clock < Landing(b) + k * ii
        BY <1>10, <3>1
      <3>3. x.due = Landing(b) + k * ii
        BY <1>12, <3>2
      <3>4. Issue(b) + k * ii < clock + 1 /\ clock + 1 < Landing(b) + k * ii
        BY <1>1, <1>11, <3>1, <3>2, <3>3
      <3> QED BY <3>2, <3>4
    <2>2. ASSUME NEW b \in Results, NEW k \in 0..trips,
                 Issue(b) + k * ii < clock + 1, clock + 1 < Landing(b) + k * ii
          PROVE  Result(b, k) \in inflight'
      <3>1. Issue(b) + k * ii <= clock /\ clock < Landing(b) + k * ii /\ Landing(b) + k * ii > clock + 1
        BY <1>1, <1>11, <2>2
      <3>2. Result(b, k) \in W
        BY <1>10, <3>1
      <3>3. Result(b, k).due > clock + 1
        BY <1>12, <3>1
      <3> QED BY <1>9, <3>2, <3>3
    <2>3. \A b \in Results : \A k \in 0..trips : Result(b, k)' = Result(b, k)
      BY <1>7
    <2> QED BY <1>1, <1>2, <1>4, <2>1, <2>2, <2>3 DEF FlightInv
  <1>14. ASSUME NEW a \in Results, NEW k \in Int,
                k < 0 \/ Landing(a) + k * ii <= clock + 1, Needed(a, k, clock + 1)
         PROVE  gpr'[Home(a, k)] = <<a, k>>
    <2>1. PICK p \in GPRs : p = Home(a, k)
      BY <1>6
    <2> DEFINE X == {x \in W : x.due = clock + 1 /\ x.reg = p}
    <2>2. gpr'[p] = IF X = {} THEN gpr[p] ELSE (CHOOSE x \in X : TRUE).val
      BY <1>9
    <2>3. ASSUME NEW x \in X PROVE x.val = <<a, k>>
      <3>1. x \in W /\ x.due = clock + 1 /\ x.reg = p
        OBVIOUS
      <3>2. PICK b \in Results, m \in 0..trips : x = Result(b, m)
        BY <1>10, <3>1
      <3>3. Landing(b) + m * ii = clock + 1 /\ Home(b, m) = p /\ x.val = <<b, m>>
        BY <1>12, <3>1, <3>2
      <3>4. a = b /\ k = m
        <4>1. clock + 1 \in Int
          BY <1>1
        <4> QED BY <1>1, <1>14, <2>1, <3>3, <4>1, Undisturbed
      <3> QED BY <3>3, <3>4
    <2> HIDE DEF X
    <2>4. CASE X # {}
      <3>1. (CHOOSE x \in X : TRUE) \in X
        BY <2>4
      <3> QED BY <2>1, <2>2, <2>3, <2>4, <3>1
    <2>5. CASE X = {}
      <3>1. ~(k >= 0 /\ Landing(a) + k * ii = clock + 1)
        <4> SUFFICES ASSUME k >= 0, Landing(a) + k * ii = clock + 1 PROVE FALSE
          OBVIOUS
        <4>1. k \in 0..trips
          <5>1. CASE a \in loop.liveout /\ k = trips
            BY <1>1, <5>1
          <5>2. CASE \E e \in FlowOf(a) : k + e.omega \in 0..trips
            BY <1>1, <1>11, <5>2
          <5> QED BY <1>14, <5>1, <5>2 DEF Needed
        <4>2. Issue(a) + k * ii <= clock /\ clock < Landing(a) + k * ii
          BY <1>1, <1>11
        <4>3. Result(a, k) \in W
          BY <1>10, <4>1, <4>2
        <4>4. Result(a, k) \in X
          BY <1>12, <2>1, <4>3 DEF X
        <4> QED BY <2>5, <4>4
      <3>2. k < 0 \/ Landing(a) + k * ii <= clock
        BY <1>1, <1>11, <1>14, <3>1
      <3>3. Needed(a, k, clock)
        <4>1. CASE a \in loop.liveout /\ k = trips
          BY <4>1 DEF Needed
        <4>2. CASE \E e \in FlowOf(a) : k + e.omega \in 0..trips /\ clock + 1 <= UseOf(e) + k * ii
          <5>1. PICK e \in FlowOf(a) : k + e.omega \in 0..trips /\ clock + 1 <= UseOf(e) + k * ii
            BY <4>2
          <5>2. clock <= UseOf(e) + k * ii
            BY <1>1, <1>11, <5>1
          <5> QED BY <5>1, <5>2 DEF Needed
        <4> QED BY <1>14, <4>1, <4>2 DEF Needed
      <3>4. gpr[Home(a, k)] = <<a, k>>
        BY <1>1, <3>2, <3>3 DEF ValuesInv
      <3> QED BY <2>1, <2>2, <2>5, <3>4
    <2> QED BY <2>4, <2>5
  <1>15. ValuesInv'
    <2>1. \A e : UseOf(e)' = UseOf(e)
      BY <1>2 DEF UseOf, Issue
    <2>2. \A a, k : Needed(a, k, clock)' <=> Needed(a, k, clock + 1)
      BY <1>1, <1>2, <1>4, <2>1 DEF Needed
    <2>3. \A a \in Results : \A k \in Int : Home(a, k)' = Home(a, k)
      BY <1>6
    <2> QED BY <1>1, <1>2, <1>4, <1>14, <2>2, <2>3 DEF ValuesInv
  <1> QED BY <1>3, <1>13, <1>15 DEF DataInv

\* The preloop puts every value that is needed from before the loop where it is
\* looked for.
LEMMA EnterStartsData ==
  ASSUME SwpInv, GprInv, DataInv, NEW lc \in 0..MAXLC, Enter(lc)
  PROVE  DataInv'
  <1>1. /\ phase = "scheduled" /\ file = PR + 1 /\ kphase' = "kernel" /\ clock' = 0
        /\ UNCHANGED rotVars /\ trips' = lc /\ RRB' = RRB /\ inflight' = {} /\ lc \in Nat
    BY WordAssumption DEF Enter, SwpInv, DataInv, AllocInv, Files, GPR, PR
  <1>2. ii' = ii /\ location' = location /\ loop' = loop /\ stime' = stime
    BY <1>1 DEF rotVars, schedVars, allocVars, attemptVars
  <1>3. Results' = Results /\ \A a : Issue(a)' = Issue(a) /\ Landing(a)' = Landing(a) /\ FlowOf(a)' = FlowOf(a)
    BY <1>2 DEF Results, FlowOf, Issue, Landing
  <1>4. \A e : UseOf(e)' = UseOf(e)
    BY <1>2 DEF UseOf, Issue
  <1>5. /\ Timed /\ loop \in LOOPS /\ ii \in Nat /\ ii > 0 /\ RRB \in Int
        /\ \A a \in Results : location[GPR][a] \in Int
    BY <1>1, LoopFacts
  <1>6. Rounds' = 0
    <2>1. 0 \div ii = 0
      BY <1>5
    <2> QED BY <1>1, <1>2, <2>1 DEF Rounds, Floor
  <1>7. ASSUME NEW b \in Results
        PROVE  /\ Issue(b) \in Nat /\ Landing(b) \in Nat /\ Issue(b) < Landing(b)
               /\ \A e \in FlowOf(b) : UseOf(e) \in Nat /\ e.omega \in Nat /\ e \in loop.flow /\ e.src = b
               /\ \A k \in Nat : k * ii \in Nat
    BY <1>5, ResultsAre DEF Timed
  <1>8. FlightInv'
    <2>1. ASSUME NEW b \in Results, NEW k \in 0..lc PROVE ~(Issue(b) + k * ii < 0)
      <3>1. k * ii \in Nat
        BY <1>7
      <3> QED BY <1>7, <3>1
    <2> QED BY <1>1, <1>2, <1>3, <2>1 DEF FlightInv
  <1> DEFINE Home0(a, k) == (location[GPR][a] - k + RRB) % reg_max[GPR]
  <1>9. ASSUME NEW a \in Results, NEW k \in Int PROVE Home(a, k)' = Home0(a, k)
    <2>1. PICK l \in Int : l = location[GPR][a]
      BY <1>5
    <2>2. l - k + RRB + 0 = l - k + RRB
      BY <1>5
    <2> QED BY <1>1, <1>2, <1>6, <2>1, <2>2 DEF Home
  <1>10. PICK into : /\ into = [x \in LiveIns |-> Physical(GPR, EntryReg(GPR, x[1], x[2]), RRB)]
                     /\ gpr' = [p \in GPRs |-> LET X == {x \in LiveIns : into[x] = p} IN
                                  IF X = {} THEN gpr[p] ELSE LET x == CHOOSE x \in X : TRUE IN <<x[1], -x[2]>>]
    BY DEF Enter
  <1>11. ASSUME NEW x \in LiveIns
         PROVE  \E e \in loop.flow : \E w \in 1..e.omega : /\ x = <<e.src, w>> /\ e.src \in Results
                                                           /\ into[x] = Home0(e.src, -w)
    <2>0. PICK e \in loop.flow : \E w \in 1..e.omega : x = <<e.src, w>>
      BY DEF LiveIns
    <2>1. PICK w \in 1..e.omega : x = <<e.src, w>>
      BY <2>0
    <2>2. e.src \in Results /\ e.omega \in Nat
      BY <1>5 DEF Timed, Results, FlowOf
    <2>3. x[1] = e.src /\ x[2] = w /\ w \in Int
      BY <2>1, <2>2
    <2>4. Physical(GPR, EntryReg(GPR, e.src, w), RRB) = (location[GPR][e.src] + w + RRB) % reg_max[GPR]
      BY <1>1, <2>2, <2>3, EntryHome
    <2>5. location[GPR][e.src] + w + RRB = location[GPR][e.src] - (-w) + RRB
      BY <1>5, <2>2, <2>3
    <2>6. into[x] = Physical(GPR, EntryReg(GPR, e.src, w), RRB)
      BY <1>10, <2>3
    <2> QED BY <2>1, <2>2, <2>4, <2>5, <2>6
  <1>12. ASSUME NEW e \in loop.flow, NEW w \in 1..e.omega PROVE <<e.src, w>> \in LiveIns
    BY DEF LiveIns
  <1> HIDE DEF Home0
  <1>13. ASSUME NEW a \in Results, NEW k \in Int, k < 0,
                \E e \in FlowOf(a) : k + e.omega \in 0..lc
         PROVE  gpr'[Home0(a, k)] = <<a, k>>
    <2>1. PICK e \in FlowOf(a) : k + e.omega \in 0..lc
      BY <1>13
    <2>2. PICK w \in 1..e.omega : w = -k
      BY <1>7, <1>13, <2>1
    <2>3. e \in loop.flow /\ e.src = a /\ e.omega \in Nat /\ w \in Nat /\ -w = k
      BY <1>7, <2>2
    <2>4. PICK p \in GPRs : p = Home0(a, k)
      <3>1. location[GPR][a] - k + RRB = location[GPR][a] + (-k) + RRB
        BY <1>5
      <3>2. (location[GPR][a] + (-k) + RRB) % reg_max[GPR] \in GPRs
        BY <1>1, EntryHome
      <3> QED BY <3>1, <3>2 DEF Home0
    <2> DEFINE X == {x \in LiveIns : into[x] = p}
    <2>5. gpr'[p] = IF X = {} THEN gpr[p] ELSE LET x == CHOOSE x \in X : TRUE IN <<x[1], -x[2]>>
      BY <1>10
    <2>6. <<a, w>> \in X
      <3>1. <<a, w>> \in LiveIns
        BY <1>12, <2>3
      <3>0. PICK e2 \in loop.flow : \E w2 \in 1..e2.omega :
                <<a, w>> = <<e2.src, w2>> /\ into[<<a, w>>] = Home0(e2.src, -w2)
        BY <1>11, <3>1
      <3>2. PICK w2 \in 1..e2.omega : <<a, w>> = <<e2.src, w2>> /\ into[<<a, w>>] = Home0(e2.src, -w2)
        BY <3>0
      <3>3. e2.src = a /\ w2 = w
        BY <3>2
      <3> QED BY <2>3, <2>4, <3>1, <3>2, <3>3
    <2>7. ASSUME NEW x \in X PROVE x = <<a, w>>
      <3>1. x \in LiveIns /\ into[x] = p
        OBVIOUS
      <3>0. PICK e2 \in loop.flow : \E w2 \in 1..e2.omega :
                x = <<e2.src, w2>> /\ e2.src \in Results /\ into[x] = Home0(e2.src, -w2)
        BY <1>11, <3>1
      <3>2. PICK w2 \in 1..e2.omega :
                x = <<e2.src, w2>> /\ e2.src \in Results /\ into[x] = Home0(e2.src, -w2)
        BY <3>0
      <3>3. PICK b \in Results : b = e2.src
        BY <3>2
      <3>4. e2 \in FlowOf(b) /\ e2.omega \in Nat /\ w2 \in Int /\ w2 >= 1 /\ w2 <= e2.omega
        <4>1. e2.omega \in Nat
          BY <1>5 DEF Timed
        <4> QED BY <3>3, <4>1 DEF FlowOf
      <3>5. SUFFICES ASSUME ~(a = b /\ k = -w2) PROVE FALSE
        <4>1. w2 = w <=> k = -w2
          BY <2>3, <3>4
        <4> QED BY <3>2, <3>3, <3>5, <4>1
      <3>6. Disjoint(a, b, -w2 - k)
        <4>1. Home0(a, k) = Home0(b, -w2)
          BY <2>4, <3>1, <3>2, <3>3
        <4>2. -w2 \in Int
          BY <3>4
        <4>3. (location[GPR][a] - k + RRB) % reg_max[GPR] = (location[GPR][b] - (-w2) + RRB) % reg_max[GPR]
          BY <4>1 DEF Home0
        <4> QED BY <1>1, <1>5, <3>5, <4>2, <4>3, HomeShared
      <3>7. LiveIn(a) /\ LiveIn(b)
        BY <1>7, <1>13, <2>1, <3>4 DEF LiveIn
      <3>8. CASE Follows(a, b, -w2 - k)
        <4>1. -w2 - k >= e.omega
          BY <2>1, <3>7, <3>8 DEF Follows
        <4> QED BY <2>2, <2>3, <3>4, <4>1
      <3>9. CASE Follows(b, a, -(-w2 - k))
        <4>1. -(-w2 - k) >= e2.omega
          BY <3>4, <3>7, <3>9 DEF Follows
        <4> QED BY <1>13, <3>4, <4>1
      <3>10. ~Apart(a, b, -w2 - k)
        BY <3>7 DEF Apart
      <3> QED BY <3>6, <3>8, <3>9, <3>10 DEF Disjoint
    <2> HIDE DEF X
    <2>8. PICK y : y = CHOOSE x \in X : TRUE
      OBVIOUS
    <2>9. X # {} /\ y \in X
      BY <2>6, <2>8
    <2>10. y[1] = a /\ y[2] = w
      BY <2>7, <2>9
    <2>11. gpr'[p] = <<y[1], -y[2]>>
      BY <2>5, <2>8, <2>9, Zenon
    <2> QED BY <2>3, <2>4, <2>10, <2>11
  <1>14. ValuesInv'
    <2>1. \A a, k : Needed(a, k, clock)' <=> \/ \E e \in FlowOf(a) : k + e.omega \in 0..lc /\ 0 <= UseOf(e) + k * ii
                                             \/ a \in loop.liveout /\ k = lc
      BY <1>1, <1>2, <1>3, <1>4 DEF Needed
    <2>2. ASSUME NEW a \in Results, NEW k \in Int, k < 0 \/ Landing(a) + k * ii <= 0, Needed(a, k, clock)'
          PROVE  gpr'[Home(a, k)'] = <<a, k>>
      <3>1. k < 0
        <4> SUFFICES ASSUME k >= 0 PROVE FALSE
          OBVIOUS
        <4>1. k * ii \in Nat
          BY <1>7
        <4> QED BY <1>7, <2>2, <4>1
      <3>2. \E e \in FlowOf(a) : k + e.omega \in 0..lc
        BY <1>1, <2>1, <2>2, <3>1
      <3> QED BY <1>9, <1>13, <3>1, <3>2
    <2> QED BY <1>1, <1>2, <1>3, <2>2 DEF ValuesInv
  <1> QED BY <1>1, <1>8, <1>14 DEF DataInv

\* No step breaks it.
LEMMA DataInvInductive == SwpInv /\ GprInv /\ DataInv /\ [SwpStep \/ SwpEnded]_swpVars => DataInv'
  <1> SUFFICES ASSUME SwpInv, GprInv, DataInv, [SwpStep \/ SwpEnded]_swpVars PROVE DataInv'
    OBVIOUS
  <1>1. CASE Cycle
    BY <1>1, CycleKeepsData
  <1>2. CASE \E lc \in 0..MAXLC : Enter(lc)
    BY <1>2, EnterStartsData
  <1>3. ASSUME kphase = "before", UNCHANGED kernelVars PROVE DataInv'
    BY <1>3 DEF DataInv, kernelVars
  <1>4. CASE SchedStep /\ UNCHANGED <<allocVars, kernelVars>>
    <2>1. phase # "scheduled"
      BY <1>4 DEF SchedStep, LimitTooLow, LimitFound, SearchStep, StartAtMII, init_sched_state, OutOfIntervals,
            InLegalSlot, InForcedSlot, Scheduling, Scheduled, BumpII
    <2> QED BY <1>3, <1>4, <2>1 DEF SwpInv
  <1>5. CASE Allocate /\ UNCHANGED kernelVars
    <2>1. file \in Files
      BY <1>5 DEF Allocate, AllocateFirst, AllocateNext, FileAllocated, AllocationFails, AllPlaced
    <2> QED BY <1>3, <1>5, <2>1 DEF SwpInv, Files, GPR, PR
  <1>6. CASE UNCHANGED swpVars
    <2>1. UNCHANGED <<kphase, inflight, clock, trips, gpr, RRB, location, loop, stime, ii>>
      BY <1>6 DEF swpVars, kernelVars, rotVars, allocVars, schedVars, attemptVars
    <2>2. Results' = Results /\ \A a : Issue(a)' = Issue(a) /\ Landing(a)' = Landing(a) /\ FlowOf(a)' = FlowOf(a)
      BY <2>1 DEF Results, FlowOf, Issue, Landing
    <2>3. \A e : UseOf(e)' = UseOf(e)
      BY <2>1 DEF UseOf, Issue
    <2>4. \A a, k : Home(a, k)' = Home(a, k)
      BY <2>1 DEF Home, Rounds, Floor
    <2>5. \A a, k : Result(a, k)' = Result(a, k)
      BY <2>1, <2>2, <2>4 DEF Result
    <2>6. \A a, k : Needed(a, k, clock)' <=> Needed(a, k, clock)
      BY <2>1, <2>2, <2>3 DEF Needed
    <2>7. FlightInv' <=> FlightInv
      BY <2>1, <2>2, <2>5 DEF FlightInv
    <2>8. ValuesInv' <=> ValuesInv
      BY <2>1, <2>2, <2>4, <2>6 DEF ValuesInv
    <2> QED BY <2>1, <2>7, <2>8 DEF DataInv
  <1> QED BY <1>1, <1>2, <1>4, <1>5, <1>6 DEF SwpStep, SwpEnded

\* What the registers and the loop rely on, throughout.
LEMMA DataInvAlways == SwpSpec => [](SwpInv /\ GprInv /\ DataInv)
  <1>1. SwpInit => GprInv /\ DataInv
    <2> SUFFICES ASSUME SwpInit PROVE GprInv /\ DataInv
      OBVIOUS
    <2>1. phase = "limit" /\ ii = 0 /\ file = GPR /\ location[GPR] = <<>>
      BY DEF SwpInit, SchedInit, AllocInit, Files
    <2>2. SelfInv
      BY <2>1 DEF SelfInv
    <2>3. GprInv
      BY <2>1, <2>2 DEF GprInv, GPR
    <2>4. DataInv
      BY DEF SwpInit, KernelInit, DataInv
    <2> QED BY <2>3, <2>4
  <1>2. SwpSpec => []SwpInv
    BY SwpInvAlways
  <1>3. SwpInv /\ GprInv /\ DataInv /\ [SwpStep \/ SwpEnded]_swpVars => GprInv' /\ DataInv'
    BY GprInvInductive, DataInvInductive
  <1> QED BY <1>1, <1>2, <1>3, PTL DEF SwpSpec

\* Every operand of every operation is the value the source program means: of
\* the iteration omega earlier or from before the loop, wherever the allocator
\* put it, however far the iterations overlap and the register base has wrapped.
THEOREM OperandsAreRightAlways == SwpSpec => []OperandsAreRight
  <1>1. SwpInv /\ GprInv /\ DataInv => OperandsAreRight
    <2> SUFFICES ASSUME SwpInv, GprInv, DataInv, NEW e \in loop.flow,
                        e.dst \in Running, Iteration(e.dst) \in 0..trips
                 PROVE  Operand(e) = <<e.src, Iteration(e.dst) - e.omega>>
      BY DEF OperandsAreRight
    <2>1. /\ kphase = "kernel" /\ phase = "scheduled" /\ file = PR + 1
          /\ clock \in Nat /\ trips \in Nat /\ ValuesInv /\ clock % ii = Issue(e.dst) % ii
      BY DEF Running, Issues, SwpInv, DataInv
    <2>2. Timed /\ ii \in Nat /\ ii > 0
      BY <2>1, LoopFacts
    <2>3. /\ e \in FlowOf(e.src) /\ e.src \in Results /\ e.omega \in Nat
          /\ Landing(e.src) <= UseOf(e) /\ UseOf(e) \in Nat
          /\ Issue(e.dst) \in Nat /\ Landing(e.src) \in Nat
      BY <2>2 DEF Timed, Results, FlowOf
    <2>4. PICK n \in 0..trips : n = Iteration(e.dst)
      OBVIOUS
    <2>5. PICK w \in Nat : w = e.omega
      BY <2>3
    <2>6. clock = Issue(e.dst) + n * ii
      <3>1. PICK i \in Int : i = Issue(e.dst)
        BY <2>3
      <3>2. PICK c \in Int : c = clock
        BY <2>1
      <3>3. c % ii = i % ii => c = i + ((c \div ii) - (i \div ii)) * ii
        BY <2>2, InStep
      <3>4. n = (c \div ii) - (i \div ii)
        BY <2>4, <3>1, <3>2 DEF Iteration, Floor
      <3> QED BY <2>1, <3>1, <3>2, <3>3, <3>4
    <2>7. PICK k \in Int : k = n - w
      OBVIOUS
    <2>8. UseOf(e) + k * ii = clock /\ k * ii \in Int
      <3>1. UseOf(e) = Issue(e.dst) + w * ii
        BY <2>5 DEF UseOf
      <3>2. w * ii + k * ii = n * ii /\ w * ii \in Int /\ k * ii \in Int /\ n * ii \in Int
        BY <2>2, <2>7
      <3> QED BY <2>3, <2>6, <3>1, <3>2
    <2>9. Landing(e.src) + k * ii <= clock
      BY <2>3, <2>8
    <2>10. Needed(e.src, k, clock)
      <3>1. k + e.omega \in 0..trips /\ clock <= UseOf(e) + k * ii
        BY <2>1, <2>4, <2>5, <2>7, <2>8
      <3> QED BY <2>3, <3>1 DEF Needed
    <2>11. gpr[Home(e.src, k)] = <<e.src, k>>
      BY <2>1, <2>3, <2>9, <2>10 DEF ValuesInv
    <2>12. Physical(GPR, UseReg(GPR, e.src, e.dst, e.omega), RRB) = Home(e.src, k)
      BY <2>1, <2>4, <2>5, <2>7, HomeRegs
    <2> QED BY <2>4, <2>5, <2>7, <2>11, <2>12 DEF Operand
  <1> QED BY <1>1, DataInvAlways, PTL

\* After the loop, the values of the last iteration have landed and are where
\* the postloop copies them from.
THEOREM LiveOutsFoundAlways == SwpSpec => []LiveOutsFound
  <1>1. SwpInv /\ GprInv /\ DataInv => LiveOutsFound
    <2> SUFFICES ASSUME SwpInv, GprInv, DataInv, kphase = "after", NEW s \in loop.liveout
                 PROVE  gpr[Physical(GPR, ExitReg(GPR, s), RRB)] = <<s, trips>>
      BY DEF LiveOutsFound
    <2>1. /\ phase = "scheduled" /\ file = PR + 1 /\ clock \in Nat /\ trips \in Nat /\ ValuesInv
          /\ clock = (trips + stage_count) * ii
      BY DEF SwpInv, DataInv
    <2>2. Timed /\ loop \in LOOPS /\ ii \in Nat /\ ii > 0 /\ stage_count \in Nat
      BY <2>1, LoopFacts DEF stage_count
    <2>3. s \in Results
      BY <2>2, FlowAssumption DEF Results
    <2>4. Rounds = trips + stage_count
      <3>1. PICK n \in Nat : n = trips + stage_count
        BY <2>1, <2>2
      <3>2. (0 + ii * n) \div ii = (0 \div ii) + n
        BY <2>2, DivPlus
      <3>3. 0 \div ii = 0 /\ 0 + ii * n = clock
        BY <2>1, <2>2, <3>1
      <3> QED BY <3>1, <3>2, <3>3 DEF Rounds, Floor
    <2>5. Landing(s) + trips * ii <= clock
      <3>1. Landing(s) <= stage_count * ii /\ Landing(s) \in Nat
        BY <2>2, <2>3, ResultsAre DEF Timed
      <3>2. clock = trips * ii + stage_count * ii /\ trips * ii \in Int /\ stage_count * ii \in Int
        BY <2>1, <2>2
      <3> QED BY <3>1, <3>2
    <2>6. Needed(s, trips, clock)
      BY DEF Needed
    <2>7. gpr[Home(s, trips)] = <<s, trips>>
      BY <2>1, <2>3, <2>5, <2>6 DEF ValuesInv
    <2> QED BY <2>1, <2>3, <2>4, <2>7, HomeRegs
  <1> QED BY <1>1, DataInvAlways, PTL

\* What the counters and the registers hold, before the loop too.
TypeInv ==
    /\ LC \in 0..MAXLC /\ ESC \in -1..esc
    /\ kphase = "before" => LC = 0 /\ ESC = 0
    /\ gpr \in [GPRs -> (0..NumNodes) \X Int]

\* Operations, and the value of a register that holds none.
LEMMA OpNumbers == Ops \subseteq 0..NumNodes /\ Nothing \in (0..NumNodes) \X Int
  <1>1. Ops \subseteq 0..NumNodes /\ 0 \in 0..NumNodes
    BY LoopAssumption DEF Ops, NumNodes
  <1> QED BY <1>1 DEF Nothing

\* The preloop and the cycles of the kernel keep them so.
LEMMA TypeInvInductive ==
  ASSUME SwpInv, GprInv, DataInv, SwpInv', TypeInv, [SwpStep \/ SwpEnded]_swpVars
  PROVE  TypeInv'
  <1>1. esc \in Nat /\ esc' \in Nat /\ MAXLC \in Nat
    BY WordAssumption DEF SwpInv
  <1>2. ASSUME kphase = "before", UNCHANGED kernelVars PROVE TypeInv'
    BY <1>1, <1>2 DEF TypeInv, kernelVars
  <1>3. CASE SchedStep /\ UNCHANGED <<allocVars, kernelVars>>
    <2>1. phase # "scheduled"
      BY <1>3 DEF SchedStep, LimitTooLow, LimitFound, SearchStep, StartAtMII, init_sched_state, OutOfIntervals,
            InLegalSlot, InForcedSlot, Scheduling, Scheduled, BumpII
    <2> QED BY <1>2, <1>3, <2>1 DEF SwpInv
  <1>4. CASE Allocate /\ UNCHANGED kernelVars
    <2>1. file \in Files
      BY <1>4 DEF Allocate, AllocateFirst, AllocateNext, FileAllocated, AllocationFails, AllPlaced
    <2> QED BY <1>2, <1>4, <2>1 DEF SwpInv, Files, GPR, PR
  <1>5. CASE UNCHANGED swpVars
    BY <1>5 DEF TypeInv, swpVars, kernelVars, rotVars, schedVars
  <1>6. CASE \E lc \in 0..MAXLC : Enter(lc)
    <2>1. PICK lc \in 0..MAXLC : Enter(lc)
      BY <1>6
    <2>2. /\ phase = "scheduled" /\ file = PR + 1 /\ kphase' = "kernel" /\ UNCHANGED rotVars
          /\ LC' = lc /\ ESC' = esc /\ esc' = esc
      BY <2>1 DEF Enter, SwpInv, AllocInv, Files, GPR, PR, rotVars, schedVars
    <2>3. Timed
      BY <2>2, LoopFacts
    <2>4. \A x \in LiveIns : <<x[1], -x[2]>> \in (0..NumNodes) \X Int
      <3> TAKE x \in LiveIns
      <3>1. PICK e \in loop.flow : \E w \in 1..e.omega : x = <<e.src, w>>
        BY DEF LiveIns
      <3>2. PICK w \in 1..e.omega : x = <<e.src, w>>
        BY <3>1
      <3>3. e.src \in 0..NumNodes /\ e.omega \in Nat
        BY <2>3, OpNumbers DEF Timed
      <3>4. x[1] = e.src /\ x[2] = w /\ -w \in Int
        BY <3>2, <3>3
      <3> QED BY <3>3, <3>4
    <2>5. PICK into : gpr' = [p \in GPRs |-> LET X == {x \in LiveIns : into[x] = p} IN
                                  IF X = {} THEN gpr[p] ELSE LET x == CHOOSE x \in X : TRUE IN <<x[1], -x[2]>>]
      BY <2>1 DEF Enter
    <2>6. ASSUME NEW p \in GPRs PROVE gpr'[p] \in (0..NumNodes) \X Int
      <3> DEFINE X == {x \in LiveIns : into[x] = p}
      <3>1. gpr'[p] = IF X = {} THEN gpr[p] ELSE LET x == CHOOSE x \in X : TRUE IN <<x[1], -x[2]>>
        BY <2>5
      <3>2. X \subseteq LiveIns
        OBVIOUS
      <3> HIDE DEF X
      <3>3. CASE X = {}
        BY <3>1, <3>3 DEF TypeInv
      <3>4. CASE X # {}
        <4>1. PICK y : y = CHOOSE x \in X : TRUE
          OBVIOUS
        <4>2. y \in LiveIns
          BY <3>2, <3>4, <4>1
        <4>3. gpr'[p] = <<y[1], -y[2]>>
          BY <3>1, <3>4, <4>1, Zenon
        <4> QED BY <2>4, <4>2, <4>3
      <3> QED BY <3>3, <3>4
    <2>7. gpr' \in [GPRs -> (0..NumNodes) \X Int]
      <3> DEFINE V == (0..NumNodes) \X Int
      <3>1. DOMAIN gpr' = GPRs /\ gpr' = [p \in GPRs |-> gpr'[p]]
        BY <2>5
      <3>2. \A p \in GPRs : gpr'[p] \in V
        BY <2>6
      <3> HIDE DEF V
      <3>3. gpr' \in [GPRs -> V]
        BY <3>1, <3>2
      <3> QED BY <3>3 DEF V
    <2>8. LC' \in 0..MAXLC /\ ESC' \in -1..esc'
      BY <1>1, <2>2
    <2> QED BY <2>2, <2>7, <2>8 DEF TypeInv
  <1>7. CASE Cycle
    <2>1. /\ phase = "scheduled" /\ file = PR + 1 /\ kphase = "kernel" /\ KernelInv /\ UNCHANGED rotVars
          /\ clock \in Nat /\ trips \in Nat /\ FlightInv
      BY <1>7 DEF Cycle, SwpInv, DataInv
    <2>2. esc' = esc /\ Timed
      BY <2>1, LoopFacts DEF rotVars, schedVars
    <2>3. kphase' # "before"
      BY <1>7, CycleKeeps
    <2>4. LC' \in 0..MAXLC /\ ESC' \in -1..esc'
      <3>1. LC \in 0..MAXLC /\ ESC \in 0..esc
        <4>1. Rounds \in Nat
          <5>1. ii \in Nat /\ ii > 0
            BY <2>2 DEF Timed
          <5> QED BY <2>1, <5>1, DivMod DEF Rounds, Floor
        <4> QED BY <1>1, <2>1, <4>1 DEF KernelInv
      <3>2. CASE LC' = LC /\ ESC' = ESC
        BY <1>1, <2>2, <3>1, <3>2
      <3>3. CASE LC > 0 /\ LC' = LC - 1 /\ ESC' = ESC
        BY <1>1, <2>2, <3>1, <3>3
      <3>4. CASE LC' = LC /\ ESC' = ESC - 1
        BY <1>1, <2>2, <3>1, <3>4
      <3>5. BRF => \/ LC > 0 /\ LC' = LC - 1 /\ ESC' = ESC
                   \/ LC' = LC /\ ESC' = ESC - 1
        BY Zenon DEF BRF
      <3>6. BRF \/ (LC' = LC /\ ESC' = ESC)
        BY <1>7, Zenon DEF Cycle
      <3> QED BY <3>2, <3>3, <3>4, <3>5, <3>6
    <2>5. PICK W : /\ W = Written
                   /\ gpr' = [p \in GPRs |-> LET X == {x \in W : x.due = clock + 1 /\ x.reg = p} IN
                                IF X = {} THEN gpr[p] ELSE (CHOOSE x \in X : TRUE).val]
      BY <1>7 DEF Cycle
    <2>6. \A x \in W : x.val \in (0..NumNodes) \X Int
      <3> TAKE x \in W
      <3>1. PICK b \in Results, k \in 0..trips : x = Result(b, k)
        BY <2>1, <2>5, WrittenIs
      <3>2. b \in 0..NumNodes
        BY <2>2, ResultsAre, OpNumbers
      <3>3. x.val = <<b, k>>
        BY <3>1 DEF Result
      <3> QED BY <3>2, <3>3
    <2>7. ASSUME NEW p \in GPRs PROVE gpr'[p] \in (0..NumNodes) \X Int
      <3> DEFINE X == {x \in W : x.due = clock + 1 /\ x.reg = p}
      <3>1. gpr'[p] = IF X = {} THEN gpr[p] ELSE (CHOOSE x \in X : TRUE).val
        BY <2>5
      <3>2. X \subseteq W
        OBVIOUS
      <3> HIDE DEF X
      <3>3. CASE X = {}
        BY <3>1, <3>3 DEF TypeInv
      <3>4. CASE X # {}
        <4>1. PICK y : y = CHOOSE x \in X : TRUE
          OBVIOUS
        <4>2. y \in W
          BY <3>2, <3>4, <4>1
        <4> QED BY <2>6, <3>1, <3>4, <4>1, <4>2
      <3> QED BY <3>3, <3>4
    <2>8. gpr' \in [GPRs -> (0..NumNodes) \X Int]
      <3> DEFINE V == (0..NumNodes) \X Int
      <3>1. DOMAIN gpr' = GPRs /\ gpr' = [p \in GPRs |-> gpr'[p]]
        BY <2>5
      <3>2. \A p \in GPRs : gpr'[p] \in V
        BY <2>7
      <3> HIDE DEF V
      <3>3. gpr' \in [GPRs -> V]
        BY <3>1, <3>2
      <3> QED BY <3>3 DEF V
    <2> QED BY <2>3, <2>4, <2>8 DEF TypeInv
  <1> QED BY <1>3, <1>4, <1>5, <1>6, <1>7 DEF SwpStep, SwpEnded

\* The variables of the software pipeline keep their types: the counters are
\* never driven out of their range, and a register holds nothing but a value
\* that an operation computed or that was there before the loop.
THEOREM SwpTypeAlways == SwpSpec => []SwpTypeOK
  <1>1. SwpInit => TypeInv
    <2> SUFFICES ASSUME SwpInit PROVE TypeInv
      OBVIOUS
    <2>1. LC = 0 /\ ESC = 0 /\ esc = 0 /\ MAXLC \in Nat
      BY WordAssumption DEF SwpInit, KernelInit, SchedInit
    <2>2. gpr = [p \in GPRs |-> Nothing] /\ Nothing \in (0..NumNodes) \X Int
      BY OpNumbers DEF SwpInit, KernelInit
    <2> QED BY <2>1, <2>2 DEF TypeInv
  <1>2. SwpInv /\ TypeInv => SwpTypeOK
    BY DEF SwpInv, AllocInv, TypeInv, SwpTypeOK, GPR, PR
  <1>3. SwpSpec => [](SwpInv /\ GprInv /\ DataInv)
    BY DataInvAlways
  <1>4. SwpInv /\ GprInv /\ DataInv /\ SwpInv' /\ TypeInv /\ [SwpStep \/ SwpEnded]_swpVars => TypeInv'
    BY TypeInvInductive
  <1> QED BY <1>1, <1>2, <1>3, <1>4, PTL DEF SwpSpec
=============================================================================
