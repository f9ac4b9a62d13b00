------------------------ MODULE GeneticSearchProofs ------------------------
(***************************************************************************)
(* What holds of the genetic search (GeneticSearch) for every population,  *)
(* number of generations, set of expressions and whatever the simulations  *)
(* find.                                                                   *)
(***************************************************************************)
EXTENDS GeneticSearch, FiniteSetTheorems, SequenceTheorems, WellFoundedInduction, TLAPS

-----------------------------------------------------------------------------
\* Recursive functions.

\* Every nonempty set of naturals has a least element.
LEMMA LeastExists == \A T \in SUBSET Nat : T # {} => \E x \in T : \A y \in T : x <= y
  <1> SUFFICES ASSUME NEW T \in SUBSET Nat, T # {} PROVE \E x \in T : \A y \in T : x <= y
    OBVIOUS
  <1> DEFINE R == OpToRel(<, Nat)
  <1>1. \E x \in T : \A y \in T : ~ (<<y, x>> \in R)
    <2>1. IsWellFoundedOn(R, Nat)
      BY NatLessThanWellFounded
    <2> HIDE DEF R
    <2> QED BY <2>1, WFMin
  <1>2. \A x, y \in Nat : <<y, x>> \in R <=> y < x
    BY DEF OpToRel
  <1> HIDE DEF R
  <1>3. PICK x \in T : \A y \in T : ~ (<<y, x>> \in R)
    BY <1>1
  <1>4. \A y \in T : x <= y
    <2> TAKE y \in T
    <2>1. ~(y < x)
      BY <1>2, <1>3
    <2> QED BY <2>1
  <1> QED BY <1>4

\* What holds of 0 and goes from each number below N to the next holds up to N.
LEMMA UpTo ==
  ASSUME NEW N \in Nat, NEW T, 0 \in T, \A k \in 0 .. N - 1 : k \in T => k + 1 \in T
  PROVE  \A k \in 0 .. N : k \in T
  <1> SUFFICES ASSUME NEW n \in 0 .. N, n \notin T PROVE FALSE
    OBVIOUS
  <1> DEFINE Missing == {k \in 0 .. N : k \notin T}
  <1>1. Missing \in SUBSET Nat /\ Missing # {}
    OBVIOUS
  <1>2. PICK m \in Missing : \A k \in Missing : m <= k
    <2> HIDE DEF Missing
    <2> QED BY <1>1, LeastExists
  <1>3. m - 1 \in 0 .. N - 1 /\ m - 1 \in T
    BY <1>2
  <1> QED BY <1>2, <1>3

\* A function on 0 .. N that starts from a base and is defined from its value before.
Recursive(S, base, N, step) ==
    \E f \in [0 .. N -> S] : f[0] = base /\ \A k \in 1 .. N : f[k] = step[k][f[k - 1]]

\* There is one.
LEMMA RecursionExists ==
  \A S, base, N, step :
     base \in S /\ N \in Nat /\ step \in [1 .. N -> [S -> S]] => Recursive(S, base, N, step)
  <1> SUFFICES ASSUME NEW S, NEW base \in S, NEW N \in Nat, NEW step \in [1 .. N -> [S -> S]]
               PROVE  \E f \in [0 .. N -> S] :
                        f[0] = base /\ \A k \in 1 .. N : f[k] = step[k][f[k - 1]]
    BY DEF Recursive
  <1> DEFINE Starts(m) == \E f \in [0 .. m -> S] :
                f[0] = base /\ \A k \in 1 .. m : f[k] = step[k][f[k - 1]]
             T == {m \in 0 .. N : Starts(m)}
  <1>1. 0 \in T
    <2> DEFINE g == [k \in 0 .. 0 |-> base]
    <2>1. g \in [0 .. 0 -> S] /\ g[0] = base /\ \A k \in 1 .. 0 : g[k] = step[k][g[k - 1]]
      OBVIOUS
    <2> HIDE DEF g
    <2> QED BY <2>1
  <1>2. ASSUME NEW m \in 0 .. N - 1, m \in T
        PROVE  m + 1 \in T
    <2>1. PICK f \in [0 .. m -> S] :
             f[0] = base /\ \A k \in 1 .. m : f[k] = step[k][f[k - 1]]
      BY <1>2
    <2> DEFINE g == [k \in 0 .. m + 1 |-> IF k = m + 1 THEN step[m + 1][f[m]] ELSE f[k]]
    <2>2. step[m + 1][f[m]] \in S
      OBVIOUS
    <2>3. g \in [0 .. m + 1 -> S] /\ g[0] = base
      BY <2>1, <2>2
    <2>4. ASSUME NEW k \in 1 .. m + 1
          PROVE  g[k] = step[k][g[k - 1]]
      <3>1. g[k - 1] = f[k - 1]
        OBVIOUS
      <3>2. g[k] = IF k = m + 1 THEN step[m + 1][f[m]] ELSE f[k]
        OBVIOUS
      <3>3. CASE k = m + 1
        <4>1. k - 1 = m
          BY <3>3
        <4> HIDE DEF g
        <4> QED BY <3>1, <3>2, <3>3, <4>1
      <3>4. CASE k # m + 1
        <4>1. k \in 1 .. m
          BY <3>4
        <4> HIDE DEF g
        <4> QED BY <2>1, <3>1, <3>2, <3>4, <4>1
      <3> QED BY <3>3, <3>4
    <2> HIDE DEF g
    <2> QED BY <2>3, <2>4, SMTT(30)
  <1> HIDE DEF Starts
  <1>3. \A m \in 0 .. N : m \in T
    <2> HIDE DEF T
    <2> QED BY <1>1, <1>2, UpTo
  <1> QED BY <1>3 DEF Starts

-----------------------------------------------------------------------------
\* Paths.

\* Paths are the short sequences of sides.
LEMMA PathsAre == Paths = {path \in Seq(1..2) : Len(path) <= MAXHEIGHT}
  <1>1. MAXHEIGHT \in Nat
    BY SearchAssumption
  <1>2. ASSUME NEW path \in Paths PROVE path \in Seq(1..2) /\ Len(path) <= MAXHEIGHT
    <2>1. PICK n \in 0..MAXHEIGHT : path \in [1..n -> 1..2]
      BY DEF Paths
    <2> QED BY <1>1, <2>1
  <1>3. ASSUME NEW path \in Seq(1..2), Len(path) <= MAXHEIGHT PROVE path \in Paths
    <2>1. Len(path) \in 0..MAXHEIGHT /\ path \in [1..Len(path) -> 1..2]
      BY <1>1, <1>3
    <2> QED BY <2>1 DEF Paths
  <1> QED BY <1>2, <1>3

\* A path that goes one further, and one that is not empty.
LEMMA PathFacts ==
  /\ <<>> \in Paths /\ Len(<<>>) = 0
  /\ \A path \in Paths : Len(path) \in 0..MAXHEIGHT /\ (Len(path) = 0 => path = <<>>)
  /\ \A path \in Seq(1..2), side \in 1..2 :
        /\ Append(path, side) \in Seq(1..2) /\ Append(path, side) # <<>>
        /\ Len(Append(path, side)) = Len(path) + 1
        /\ Front(Append(path, side)) = path /\ Last(Append(path, side)) = side
  /\ \A path \in Paths, side \in 1..2 :
        Append(path, side) \in Paths <=> Len(path) < MAXHEIGHT
  /\ \A path \in Paths \ {<<>>} :
        /\ Front(path) \in Paths /\ Last(path) \in 1..2
        /\ Len(Front(path)) = Len(path) - 1
        /\ Append(Front(path), Last(path)) = path
  <1>1. MAXHEIGHT \in Nat
    BY SearchAssumption
  <1>2. <<>> \in Paths /\ Len(<<>>) = 0
    BY <1>1, PathsAre
  <1>3. \A path \in Paths : Len(path) \in 0..MAXHEIGHT /\ (Len(path) = 0 => path = <<>>)
    BY <1>1, PathsAre
  <1>4. ASSUME NEW path \in Seq(1..2), NEW side \in 1..2
        PROVE  /\ Append(path, side) \in Seq(1..2) /\ Append(path, side) # <<>>
               /\ Len(Append(path, side)) = Len(path) + 1
               /\ Front(Append(path, side)) = path /\ Last(Append(path, side)) = side
    BY DEF Front, Last
  <1>5. \A path \in Paths, side \in 1..2 : Append(path, side) \in Paths <=> Len(path) < MAXHEIGHT
    BY <1>1, <1>4, PathsAre
  <1>6. ASSUME NEW path \in Paths \ {<<>>}
        PROVE  /\ Front(path) \in Paths /\ Last(path) \in 1..2
               /\ Len(Front(path)) = Len(path) - 1
               /\ Append(Front(path), Last(path)) = path
    <2>1. path \in Seq(1..2) /\ Len(path) \in 1..MAXHEIGHT
      BY <1>1, <1>3, PathsAre
    <2> DEFINE f == Front(path)
               l == Last(path)
    <2>2. /\ f \in Seq(1..2) /\ l \in 1..2 /\ l = path[Len(path)]
          /\ Len(f) = Len(path) - 1
          /\ \A k \in 1 .. Len(f) : f[k] = path[k]
      <3> DEFINE n == Len(path) - 1
                 u == SubSeq(path, 1, n)
      <3>1. n \in Nat /\ \A k \in 1 .. n : path[k] \in 1..2
        BY <2>1
      <3>2. /\ u \in Seq(1..2) /\ Len(u) = IF 1 <= n THEN n - 1 + 1 ELSE 0
            /\ \A k \in 1 .. n - 1 + 1 : u[k] = path[1 + k - 1]
        <4> HIDE DEF n
        <4> QED BY <3>1, SubSeqProperties
      <3>3. f = u
        BY DEF Front
      <3>4. l \in 1..2 /\ l = path[Len(path)]
        BY <2>1 DEF Last
      <3> HIDE DEF f, l, u
      <3> QED BY <2>1, <3>1, <3>2, <3>3, <3>4
    <2> HIDE DEF f, l
    <2>3. Append(f, l) = path
      <3> DEFINE a == Append(f, l)
      <3>1. /\ a \in Seq(1..2) /\ Len(a) = Len(path) /\ a[Len(path)] = l
            /\ \A k \in 1 .. Len(f) : a[k] = f[k]
        BY <2>1, <2>2
      <3> HIDE DEF a
      <3>2. \A k \in 1 .. Len(path) : a[k] = path[k]
        BY <2>1, <2>2, <3>1
      <3>3. a = path
        <4>1. Len(a) = Len(path) /\ \A k \in 1 .. Len(a) : a[k] = path[k]
          BY <3>1, <3>2
        <4> QED BY <2>1, <3>1, <4>1, SeqEqual
      <3> QED BY <3>3 DEF a
    <2> QED BY <1>1, <2>1, <2>2, <2>3, PathsAre DEF f, l
  <1> QED BY <1>2, <1>3, <1>4, <1>5, <1>6

-----------------------------------------------------------------------------
\* Trees.

\* T holds the nodes of the tree with root t, down to a depth.
IsTree(h, t, T, depth) ==
    /\ DOMAIN T \subseteq Paths /\ T \in [DOMAIN T -> DOMAIN h]
    /\ \A path \in DOMAIN T : Len(path) <= depth
    /\ <<>> \in DOMAIN T <=> t \in DOMAIN h
    /\ t \in DOMAIN h => T[<<>>] = t
    /\ \A path \in Paths, side \in 1..2 :
          Len(path) < depth =>
            /\ Append(path, side) \in DOMAIN T <=>
                 path \in DOMAIN T /\ h[T[path]].kid[side] \in DOMAIN h
            /\ Append(path, side) \in DOMAIN T => T[Append(path, side)] = h[T[path]].kid[side]

\* The level added to a tree.
LEMMA DeeperAdds ==
  ASSUME NEW h, NEW up, NEW depth \in 1..MAXHEIGHT,
         DOMAIN up \subseteq Paths, up \in [DOMAIN up -> DOMAIN h]
  PROVE  LET T == Deeper(h, up, depth)
         IN  /\ DOMAIN T \subseteq Paths /\ T \in [DOMAIN T -> DOMAIN h]
             /\ DOMAIN up \subseteq DOMAIN T /\ \A path \in DOMAIN up : T[path] = up[path]
             /\ \A path \in DOMAIN T \ DOMAIN up :
                  /\ path # <<>> /\ Len(path) = depth /\ Front(path) \in DOMAIN up
                  /\ T[path] = h[up[Front(path)]].kid[Last(path)]
             /\ \A path \in DOMAIN up, side \in 1..2 :
                  Len(path) = depth - 1 /\ h[up[path]].kid[side] \in DOMAIN h
                  => Append(path, side) \in DOMAIN T
  <1> DEFINE Kid(path, side) == h[up[path]].kid[side]
             down == {q \in {path \in DOMAIN up : Len(path) = depth - 1} \X (1..2) :
                        Kid(q[1], q[2]) \in DOMAIN h}
             New == {Append(q[1], q[2]) : q \in down}
             T == Deeper(h, up, depth)
  <1>1. T = [path \in DOMAIN up \cup New |->
                IF path \in DOMAIN up THEN up[path] ELSE Kid(Front(path), Last(path))]
    BY DEF Deeper
  <1>2. ASSUME NEW path \in New
        PROVE  /\ path \in Paths /\ path # <<>> /\ Len(path) = depth /\ Front(path) \in DOMAIN up
               /\ Kid(Front(path), Last(path)) \in DOMAIN h
    <2>1. PICK q \in down : path = Append(q[1], q[2])
      OBVIOUS
    <2>2. /\ q[1] \in DOMAIN up /\ q[1] \in Paths /\ Len(q[1]) = depth - 1 /\ q[2] \in 1..2
          /\ Kid(q[1], q[2]) \in DOMAIN h
      OBVIOUS
    <2>3. q[1] \in Seq(1..2) /\ depth - 1 < MAXHEIGHT
      BY <2>2, PathsAre, SearchAssumption
    <2> HIDE DEF down, Kid
    <2> QED BY <2>1, <2>2, <2>3, PathFacts
  <1>3. ASSUME NEW path \in DOMAIN up, NEW side \in 1..2,
               Len(path) = depth - 1, h[up[path]].kid[side] \in DOMAIN h
        PROVE  Append(path, side) \in New
    <2>1. <<path, side>> \in down
      BY <1>3
    <2> HIDE DEF down
    <2> QED BY <2>1
  <1> HIDE DEF New, T, down
  <1>4. DOMAIN T = DOMAIN up \cup New
    BY <1>1
  <1>5. \A path \in DOMAIN T : T[path] \in DOMAIN h
    BY <1>1, <1>2
  <1>6. \A path \in DOMAIN up : T[path] = up[path]
    BY <1>1
  <1>7. \A path \in DOMAIN T \ DOMAIN up : path \in New /\ T[path] = Kid(Front(path), Last(path))
    BY <1>1
  <1>8. T \in [DOMAIN T -> DOMAIN h]
    BY <1>1, <1>5
  <1> QED BY <1>2, <1>3, <1>4, <1>6, <1>7, <1>8 DEF T

\* A tree down to a depth, one level deeper.
LEMMA DeeperIs ==
  ASSUME NEW h, NEW t, NEW up, NEW depth \in 1..MAXHEIGHT, IsTree(h, t, up, depth - 1)
  PROVE  IsTree(h, t, Deeper(h, up, depth), depth)
  <1> DEFINE T == Deeper(h, up, depth)
  <1>1. /\ DOMAIN T \subseteq Paths /\ T \in [DOMAIN T -> DOMAIN h]
        /\ DOMAIN up \subseteq DOMAIN T /\ \A path \in DOMAIN up : T[path] = up[path]
        /\ \A path \in DOMAIN T \ DOMAIN up :
             /\ path # <<>> /\ Len(path) = depth /\ Front(path) \in DOMAIN up
             /\ T[path] = h[up[Front(path)]].kid[Last(path)]
        /\ \A path \in DOMAIN up, side \in 1..2 :
             Len(path) = depth - 1 /\ h[up[path]].kid[side] \in DOMAIN h
             => Append(path, side) \in DOMAIN T
    BY DeeperAdds DEF IsTree
  <1> HIDE DEF T
  <1>2. \A path \in DOMAIN up : Len(path) <= depth - 1
    BY DEF IsTree
  <1>3. depth \in Nat /\ \A path \in Paths : Len(path) \in Nat
    BY PathFacts, SearchAssumption
  <1>4. \A path \in DOMAIN T : Len(path) <= depth
    BY <1>1, <1>2, <1>3
  <1>5. (<<>> \in DOMAIN T <=> t \in DOMAIN h) /\ (t \in DOMAIN h => T[<<>>] = t)
    BY <1>1 DEF IsTree
  <1>6. ASSUME NEW path \in Paths, NEW side \in 1..2, Len(path) < depth
        PROVE  /\ Append(path, side) \in DOMAIN T <=>
                    path \in DOMAIN T /\ h[T[path]].kid[side] \in DOMAIN h
               /\ Append(path, side) \in DOMAIN T => T[Append(path, side)] = h[T[path]].kid[side]
    <2>0. PICK longer : longer = Append(path, side)
      OBVIOUS
    <2>1. Len(longer) = Len(path) + 1 /\ Front(longer) = path /\ Last(longer) = side
      BY <2>0, PathFacts, PathsAre
    <2>2. path \in DOMAIN T <=> path \in DOMAIN up
      BY <1>1, <1>6
    <2>3. path \in DOMAIN up => T[path] = up[path]
      BY <1>1
    <2>4. CASE Len(path) < depth - 1
      <3>1. longer \in DOMAIN T <=> longer \in DOMAIN up
        BY <1>1, <1>3, <2>1, <2>4
      <3> QED BY <1>1, <2>0, <2>2, <2>3, <2>4, <3>1 DEF IsTree
    <2>5. CASE Len(path) = depth - 1
      <3>1. longer \notin DOMAIN up
        BY <1>2, <1>3, <2>1, <2>5
      <3>2. longer \in DOMAIN T =>
              /\ path \in DOMAIN up
              /\ T[longer] = h[up[path]].kid[side]
        BY <1>1, <2>1, <3>1
      <3>3. longer \in DOMAIN T => T[longer] \in DOMAIN h
        BY <1>1
      <3> QED BY <1>1, <2>0, <2>2, <2>3, <2>5, <3>2, <3>3
    <2> QED BY <1>3, <1>6, <2>0, <2>4, <2>5
  <1>7. IsTree(h, t, T, depth)
    BY <1>1, <1>4, <1>5, <1>6 DEF IsTree
  <1> QED BY <1>7 DEF T

\* Tree(h, t) is the tree, down to the greatest depth.
LEMMA TreeIs == \A h, t : IsTree(h, t, Tree(h, t), MAXHEIGHT)
  <1> SUFFICES ASSUME NEW h, NEW t PROVE IsTree(h, t, Tree(h, t), MAXHEIGHT)
    OBVIOUS
  <1> DEFINE S == UNION {[D -> DOMAIN h] : D \in SUBSET Paths}
             base == [path \in {q \in {<<>>} : t \in DOMAIN h} |-> t]
             step == [k \in 1..MAXHEIGHT |-> [up \in S |-> Deeper(h, up, k)]]
             G(f) == [depth \in 0 .. MAXHEIGHT |->
                        IF depth = 0 THEN base ELSE Deeper(h, f[depth - 1], depth)]
             tree == CHOOSE f : f = G(f)
  <1>0. MAXHEIGHT \in Nat
    BY SearchAssumption
  <1>1. Tree(h, t) = tree[MAXHEIGHT]
    BY DEF Tree
  <1>2. \A f : f \in S <=> DOMAIN f \subseteq Paths /\ f \in [DOMAIN f -> DOMAIN h]
    OBVIOUS
  <1>3. base \in S /\ IsTree(h, t, base, 0)
    <2>1. DOMAIN base \subseteq Paths /\ base \in [DOMAIN base -> DOMAIN h]
      BY PathFacts
    <2>2. \A path \in DOMAIN base : path = <<>> /\ Len(path) <= 0
      BY PathFacts
    <2>3. \A path \in Paths : ~(Len(path) < 0)
      BY PathFacts
    <2>4. (<<>> \in DOMAIN base <=> t \in DOMAIN h) /\ (t \in DOMAIN h => base[<<>>] = t)
      OBVIOUS
    <2> HIDE DEF S, base
    <2> QED BY <1>2, <2>1, <2>2, <2>3, <2>4 DEF IsTree
  <1>4. step \in [1..MAXHEIGHT -> [S -> S]]
    <2>1. \A up \in S, depth \in 1..MAXHEIGHT : Deeper(h, up, depth) \in S
      <3> TAKE up \in S, depth \in 1..MAXHEIGHT
      <3> HIDE DEF S
      <3> QED BY <1>2, DeeperAdds
    <2> HIDE DEF S
    <2> QED BY <2>1
  <1> HIDE DEF S, base
  <1>5. PICK f \in [0 .. MAXHEIGHT -> S] :
           f[0] = base /\ \A k \in 1 .. MAXHEIGHT : f[k] = step[k][f[k - 1]]
    <2>1. base \in S
      BY <1>3
    <2> HIDE DEF step
    <2>2. Recursive(S, base, MAXHEIGHT, step)
      BY <1>0, <1>4, <2>1, RecursionExists
    <2> QED BY <2>2 DEF Recursive
  <1>6. f = G(f)
    <2>1. ASSUME NEW k \in 1 .. MAXHEIGHT PROVE f[k] = Deeper(h, f[k - 1], k)
      <3>1. f[k - 1] \in S
        BY <1>0
      <3> QED BY <1>5, <3>1
    <2> QED BY <1>0, <1>5, <2>1
  <1>7. tree = G(tree)
    <2> HIDE DEF G
    <2> QED BY <1>6
  <1> HIDE DEF tree
  <1>8. tree[0] = base /\ \A k \in 1 .. MAXHEIGHT : tree[k] = Deeper(h, tree[k - 1], k)
    BY <1>0, <1>7
  <1> DEFINE Done == {k \in 0 .. MAXHEIGHT : IsTree(h, t, tree[k], k)}
  <1>9. 0 \in Done
    BY <1>0, <1>3, <1>8
  <1>10. ASSUME NEW k \in 0 .. MAXHEIGHT - 1, k \in Done PROVE k + 1 \in Done
    <2>1. k + 1 \in 1 .. MAXHEIGHT /\ k + 1 - 1 = k
      BY <1>0
    <2>2. tree[k + 1] = Deeper(h, tree[k], k + 1)
      BY <1>8, <2>1
    <2>3. IsTree(h, t, Deeper(h, tree[k], k + 1), k + 1)
      BY <1>10, <2>1, DeeperIs
    <2> QED BY <2>1, <2>2, <2>3
  <1>11. MAXHEIGHT \in Done
    <2> HIDE DEF Done
    <2>1. \A k \in 0 .. MAXHEIGHT - 1 : k \in Done => k + 1 \in Done
      BY <1>10
    <2>2. MAXHEIGHT \in Nat
      BY SearchAssumption
    <2>3. \A k \in 0 .. MAXHEIGHT : k \in Done
      BY <1>9, <2>1, <2>2, UpTo
    <2> QED BY <2>2, <2>3
  <1> QED BY <1>1, <1>11

\* How a tree goes up and down.
LEMMA TreeSteps ==
  ASSUME NEW h, NEW t
  PROVE  LET T == Tree(h, t)
         IN  /\ DOMAIN T \subseteq Paths /\ \A path \in DOMAIN T : T[path] \in DOMAIN h
             /\ <<>> \in DOMAIN T <=> t \in DOMAIN h
             /\ t \in DOMAIN h => T[<<>>] = t
             /\ \A path \in DOMAIN T \ {<<>>} :
                  /\ Front(path) \in DOMAIN T /\ Last(path) \in 1..2
                  /\ Len(Front(path)) = Len(path) - 1
                  /\ Append(Front(path), Last(path)) = path
                  /\ T[path] = h[T[Front(path)]].kid[Last(path)]
             /\ \A path \in DOMAIN T, side \in 1..2 :
                  Len(path) < MAXHEIGHT /\ h[T[path]].kid[side] \in DOMAIN h =>
                    /\ Append(path, side) \in DOMAIN T
                    /\ T[Append(path, side)] = h[T[path]].kid[side]
  <1> DEFINE T == Tree(h, t)
  <1>1. IsTree(h, t, T, MAXHEIGHT)
    BY TreeIs
  <1> HIDE DEF T
  <1>2. DOMAIN T \subseteq Paths /\ \A path \in DOMAIN T : T[path] \in DOMAIN h
    BY <1>1 DEF IsTree
  <1>3. ASSUME NEW path \in DOMAIN T \ {<<>>}
        PROVE  /\ Front(path) \in DOMAIN T /\ Last(path) \in 1..2
               /\ Len(Front(path)) = Len(path) - 1
               /\ Append(Front(path), Last(path)) = path
               /\ T[path] = h[T[Front(path)]].kid[Last(path)]
    <2>1. /\ Front(path) \in Paths /\ Last(path) \in 1..2
          /\ Len(Front(path)) = Len(path) - 1 /\ Len(path) \in 0..MAXHEIGHT
          /\ Append(Front(path), Last(path)) = path
      BY <1>2, PathFacts
    <2>2. Len(Front(path)) < MAXHEIGHT
      BY <2>1, SearchAssumption
    <2>3. PICK up, last : up = Front(path) /\ last = Last(path)
      OBVIOUS
    <2>4. up \in Paths /\ last \in 1..2 /\ Len(up) < MAXHEIGHT /\ path = Append(up, last)
      BY <2>1, <2>2, <2>3
    <2>5. up \in DOMAIN T /\ T[path] = h[T[up]].kid[last]
      BY <1>1, <2>4 DEF IsTree
    <2> QED BY <2>1, <2>3, <2>5
  <1>4. ASSUME NEW path \in DOMAIN T, NEW side \in 1..2,
               Len(path) < MAXHEIGHT, h[T[path]].kid[side] \in DOMAIN h
        PROVE  /\ Append(path, side) \in DOMAIN T
               /\ T[Append(path, side)] = h[T[path]].kid[side]
    BY <1>1, <1>2, <1>4 DEF IsTree
  <1>5. (<<>> \in DOMAIN T <=> t \in DOMAIN h) /\ (t \in DOMAIN h => T[<<>>] = t)
    BY <1>1 DEF IsTree
  <1>6. \A path \in DOMAIN T \ {<<>>} :
           /\ Front(path) \in DOMAIN T /\ Last(path) \in 1..2
           /\ Len(Front(path)) = Len(path) - 1
           /\ Append(Front(path), Last(path)) = path
           /\ T[path] = h[T[Front(path)]].kid[Last(path)]
    BY <1>3
  <1>7. \A path \in DOMAIN T, side \in 1..2 :
           Len(path) < MAXHEIGHT /\ h[T[path]].kid[side] \in DOMAIN h =>
             /\ Append(path, side) \in DOMAIN T
             /\ T[Append(path, side)] = h[T[path]].kid[side]
    BY <1>4
  <1> QED BY <1>2, <1>5, <1>6, <1>7, Zenon DEF T

\* An allocated root is a node of its tree.
LEMMA RootIsNode == \A h, t : t \in DOMAIN h => t \in Nodes(h, t)
  <1> SUFFICES ASSUME NEW h, NEW t, t \in DOMAIN h PROVE t \in Nodes(h, t)
    OBVIOUS
  <1>1. PICK T : T = Tree(h, t)
    OBVIOUS
  <1>2. <<>> \in DOMAIN T /\ T[<<>>] = t
    BY <1>1, TreeSteps
  <1>3. Nodes(h, t) = {T[path] : path \in DOMAIN T}
    BY <1>1 DEF Nodes, Range
  <1> QED BY <1>2, <1>3

\* A heap of trees that share no node: each node is the child of one node at most, and
\* the roots are the children of none.  Every operator has its operands.
NodeOf(h) == [op : DOMAIN Arity, kid : [1..2 -> DOMAIN h \cup {NULL}]]
Forest(h, roots) ==
    /\ IsFiniteSet(DOMAIN h) /\ DOMAIN h \subseteq (Nat \ {0}) \X Paths
    /\ h \in [DOMAIN h -> NodeOf(h)]
    /\ \A n \in DOMAIN h : Cardinality({side \in 1..2 : h[n].kid[side] # NULL}) = Arity[h[n].op]
    /\ \A n, m \in DOMAIN h, s, u \in 1..2 :
          h[n].kid[s] = h[m].kid[u] /\ h[n].kid[s] # NULL => n = m /\ s = u
    /\ roots \subseteq DOMAIN h
    /\ \A n \in DOMAIN h, s \in 1..2 : h[n].kid[s] \notin roots

\* There is no node at NULL.
LEMMA NullIsNone ==
  ASSUME NEW h, NEW roots, Forest(h, roots)
  PROVE  /\ NULL \notin DOMAIN h
         /\ \A n \in DOMAIN h, s \in 1..2 : h[n].kid[s] \in DOMAIN h <=> h[n].kid[s] # NULL
  <1>1. NULL \notin DOMAIN h
    BY DEF Forest, NULL
  <1>2. \A n \in DOMAIN h, s \in 1..2 : h[n].kid[s] \in DOMAIN h \cup {NULL}
    BY DEF Forest, NodeOf
  <1> QED BY <1>1, <1>2

\* A node is the child of one node, on one side, at most.
LEMMA OneParent ==
  \A h, roots, n, m, v, w :
     /\ Forest(h, roots) /\ n \in DOMAIN h /\ m \in DOMAIN h /\ v \in 1..2 /\ w \in 1..2
     /\ h[n].kid[v] = h[m].kid[w] /\ h[n].kid[v] # NULL
     => n = m /\ v = w
  BY DEF Forest

\* In a forest a node is in one tree, at one place.
LEMMA OnePlace ==
  ASSUME NEW h, NEW roots, Forest(h, roots), NEW s \in roots, NEW t \in roots,
         NEW a \in Places(h, s), NEW b \in Places(h, t), Tree(h, s)[a] = Tree(h, t)[b]
  PROVE  s = t /\ a = b
  <1> DEFINE S == Tree(h, s)
             T == Tree(h, t)
             Alone == {k \in 0..MAXHEIGHT : \A x \in DOMAIN S, y \in DOMAIN T :
                          Len(x) = k /\ S[x] = T[y] => s = t /\ x = y}
  <1>1. /\ DOMAIN S \subseteq Paths /\ S[<<>>] = s
        /\ \A x \in DOMAIN S : S[x] \in DOMAIN h
        /\ \A x \in DOMAIN S \ {<<>>} :
             /\ Front(x) \in DOMAIN S /\ Last(x) \in 1..2 /\ Len(Front(x)) = Len(x) - 1
             /\ Append(Front(x), Last(x)) = x /\ S[x] = h[S[Front(x)]].kid[Last(x)]
    BY TreeSteps DEF Forest
  <1>2. /\ DOMAIN T \subseteq Paths /\ T[<<>>] = t
        /\ \A y \in DOMAIN T : T[y] \in DOMAIN h
        /\ \A y \in DOMAIN T \ {<<>>} :
             /\ Front(y) \in DOMAIN T /\ Last(y) \in 1..2 /\ Len(Front(y)) = Len(y) - 1
             /\ Append(Front(y), Last(y)) = y /\ T[y] = h[T[Front(y)]].kid[Last(y)]
    BY TreeSteps DEF Forest
  <1>0. a \in DOMAIN S /\ b \in DOMAIN T /\ S[a] = T[b]
    BY DEF Places
  <1> HIDE DEF S, T
  <1>3. MAXHEIGHT \in Nat
    BY SearchAssumption
  <1>a. \A n \in DOMAIN h, v \in 1..2 : h[n].kid[v] \notin roots
    BY DEF Forest
  <1>4. /\ \A x \in DOMAIN S \ {<<>>} : S[x] \notin roots
        /\ \A y \in DOMAIN T \ {<<>>} : T[y] \notin roots
    <2>1. ASSUME NEW x \in DOMAIN S \ {<<>>} PROVE S[x] \notin roots
      <3>1. S[Front(x)] \in DOMAIN h /\ Last(x) \in 1..2 /\ S[x] = h[S[Front(x)]].kid[Last(x)]
        BY <1>1
      <3> QED BY <1>a, <3>1
    <2>2. ASSUME NEW y \in DOMAIN T \ {<<>>} PROVE T[y] \notin roots
      <3>1. T[Front(y)] \in DOMAIN h /\ Last(y) \in 1..2 /\ T[y] = h[T[Front(y)]].kid[Last(y)]
        BY <1>2
      <3> QED BY <1>a, <3>1
    <2> QED BY <2>1, <2>2
  <1>5. 0 \in Alone
    <2> SUFFICES ASSUME NEW x \in DOMAIN S, NEW y \in DOMAIN T, Len(x) = 0, S[x] = T[y]
                 PROVE  s = t /\ x = y
      BY <1>3
    <2>1. x = <<>>
      BY <1>1, PathFacts
    <2> QED BY <1>1, <1>2, <1>4, <2>1
  <1>6. ASSUME NEW k \in 0..MAXHEIGHT - 1, k \in Alone
        PROVE  k + 1 \in Alone
    <2> SUFFICES ASSUME NEW x \in DOMAIN S, NEW y \in DOMAIN T, Len(x) = k + 1, S[x] = T[y]
                 PROVE  s = t /\ x = y
      BY <1>3
    <2>1. x # <<>>
      BY PathFacts
    <2>2. y # <<>>
      BY <1>2, <1>4, <2>1
    <2>3. Front(x) \in DOMAIN S /\ Len(Front(x)) = k
      BY <1>1, <2>1
    <2>4. S[Front(x)] = T[Front(y)] /\ Last(x) = Last(y)
      <3>1. S[x] # NULL
        BY <1>1, NullIsNone
      <3>2. S[Front(x)] \in DOMAIN h /\ Last(x) \in 1..2 /\ S[x] = h[S[Front(x)]].kid[Last(x)]
        BY <1>1, <2>1
      <3>3. T[Front(y)] \in DOMAIN h /\ Last(y) \in 1..2 /\ T[y] = h[T[Front(y)]].kid[Last(y)]
        BY <1>2, <2>2
      <3>4. PICK n, m, v, w : n = S[Front(x)] /\ m = T[Front(y)] /\ v = Last(x) /\ w = Last(y)
        OBVIOUS
      <3>5. /\ n \in DOMAIN h /\ m \in DOMAIN h /\ v \in 1..2 /\ w \in 1..2
            /\ h[n].kid[v] = h[m].kid[w] /\ h[n].kid[v] # NULL
        BY <3>1, <3>2, <3>3, <3>4
      <3>6. n = m /\ v = w
        BY <3>5, OneParent
      <3> QED BY <3>4, <3>6
    <2>5. s = t /\ Front(x) = Front(y)
      BY <1>2, <1>6, <2>2, <2>3, <2>4
    <2> QED BY <1>1, <1>2, <2>1, <2>2, <2>4, <2>5
  <1>7. Len(a) \in Alone
    <2>1. Len(a) \in 0..MAXHEIGHT
      BY <1>0, <1>1, PathFacts
    <2> HIDE DEF Alone
    <2> QED BY <1>3, <1>5, <1>6, <2>1, UpTo
  <1> QED BY <1>0, <1>7

\* The nodes of a tree are nodes of the heap; different trees share none.
LEMMA NodesAre == \A h, t : Nodes(h, t) \subseteq DOMAIN h
  <1> SUFFICES ASSUME NEW h, NEW t, NEW n \in Nodes(h, t) PROVE n \in DOMAIN h
    OBVIOUS
  <1> QED BY TreeSteps DEF Nodes, Range

\* Different trees of a forest share no node.
LEMMA Apart ==
  ASSUME NEW h, NEW roots, Forest(h, roots), NEW s \in roots, NEW t \in roots, s # t
  PROVE  Nodes(h, s) \cap Nodes(h, t) = {}
  <1> SUFFICES ASSUME NEW n, n \in Nodes(h, s), n \in Nodes(h, t) PROVE FALSE
    OBVIOUS
  <1>1. PICK a \in Places(h, s) : n = Tree(h, s)[a]
    BY DEF Nodes, Range, Places
  <1>2. PICK b \in Places(h, t) : n = Tree(h, t)[b]
    BY DEF Nodes, Range, Places
  <1> QED BY <1>1, <1>2, OnePlace

\* Where two heaps agree down to some places of a tree, those places hold the same nodes.
LEMMA SameDownTo ==
  ASSUME NEW h, NEW g, NEW t, t \in DOMAIN g,
         NEW P \in SUBSET Places(h, t), \A x \in P \ {<<>>} : Front(x) \in P,
         \A x \in P \ {<<>>} :
            /\ Tree(h, t)[x] \in DOMAIN g
            /\ g[Tree(h, t)[Front(x)]].kid[Last(x)] = Tree(h, t)[x]
  PROVE  \A x \in P : x \in Places(g, t) /\ Tree(g, t)[x] = Tree(h, t)[x]
  <1> DEFINE T == Tree(h, t)
             U == Tree(g, t)
             Same == {k \in 0..MAXHEIGHT : \A x \in P : Len(x) = k => x \in DOMAIN U /\ U[x] = T[x]}
  <1>1. MAXHEIGHT \in Nat
    BY SearchAssumption
  <1>2. /\ P \subseteq DOMAIN T /\ DOMAIN T \subseteq Paths
        /\ <<>> \in DOMAIN T => T[<<>>] = t
        /\ \A x \in P \ {<<>>} :
             /\ Front(x) \in P /\ Last(x) \in 1..2
             /\ Len(Front(x)) = Len(x) - 1 /\ Append(Front(x), Last(x)) = x
             /\ T[x] \in DOMAIN g /\ g[T[Front(x)]].kid[Last(x)] = T[x]
    BY TreeSteps DEF Places
  <1>3. /\ <<>> \in DOMAIN U /\ U[<<>>] = t
        /\ \A x \in DOMAIN U, side \in 1..2 :
             Len(x) < MAXHEIGHT /\ g[U[x]].kid[side] \in DOMAIN g =>
               Append(x, side) \in DOMAIN U /\ U[Append(x, side)] = g[U[x]].kid[side]
    BY TreeSteps
  <1> HIDE DEF T, U
  <1>4. 0 \in Same
    <2> SUFFICES ASSUME NEW x \in P, Len(x) = 0 PROVE x \in DOMAIN U /\ U[x] = T[x]
      BY <1>1
    <2>1. x = <<>>
      BY <1>2, PathFacts
    <2> QED BY <1>2, <1>3, <2>1
  <1>5. ASSUME NEW k \in 0..MAXHEIGHT - 1, k \in Same PROVE k + 1 \in Same
    <2> SUFFICES ASSUME NEW x \in P, Len(x) = k + 1 PROVE x \in DOMAIN U /\ U[x] = T[x]
      BY <1>1
    <2>1. x # <<>>
      BY PathFacts
    <2>2. PICK up, side : up = Front(x) /\ side = Last(x)
      OBVIOUS
    <2>3. /\ up \in P /\ side \in 1..2 /\ Len(up) = k /\ x = Append(up, side)
          /\ T[x] \in DOMAIN g /\ g[T[up]].kid[side] = T[x]
      BY <1>2, <2>1, <2>2
    <2>4. up \in DOMAIN U /\ U[up] = T[up]
      BY <1>5, <2>3
    <2> QED BY <1>1, <1>3, <2>3, <2>4
  <1>6. \A k \in 0..MAXHEIGHT : k \in Same
    <2> HIDE DEF Same
    <2> QED BY <1>1, <1>4, <1>5, UpTo
  <1>7. \A x \in P : Len(x) \in 0..MAXHEIGHT
    BY <1>2, PathFacts
  <1>8. \A x \in P : x \in DOMAIN U /\ U[x] = T[x]
    BY <1>6, <1>7
  <1> QED BY <1>8 DEF T, U, Places

\* Where two heaps agree on all nodes of a tree, it is the same tree.
LEMMA SameTree ==
  ASSUME NEW h, NEW g, NEW t, t \in DOMAIN h, t \in DOMAIN g,
         \A n \in Nodes(h, t), side \in 1..2 :
            /\ g[n].kid[side] = h[n].kid[side]
            /\ h[n].kid[side] \in DOMAIN h <=> h[n].kid[side] \in DOMAIN g
  PROVE  Tree(g, t) = Tree(h, t)
  <1> DEFINE T == Tree(h, t)
             U == Tree(g, t)
  <1>1. /\ DOMAIN T \subseteq Paths /\ T[<<>>] = t /\ <<>> \in DOMAIN T
        /\ \A x \in DOMAIN T : T[x] \in DOMAIN h
        /\ \A x \in DOMAIN T \ {<<>>} :
             /\ Front(x) \in DOMAIN T /\ Last(x) \in 1..2
             /\ T[x] = h[T[Front(x)]].kid[Last(x)]
        /\ \A x \in DOMAIN T, side \in 1..2 :
             Len(x) < MAXHEIGHT /\ h[T[x]].kid[side] \in DOMAIN h => Append(x, side) \in DOMAIN T
    BY TreeSteps
  <1>2. /\ DOMAIN U \subseteq Paths /\ U[<<>>] = t
        /\ \A x \in DOMAIN U : U[x] \in DOMAIN g
        /\ \A x \in DOMAIN U \ {<<>>} :
             /\ Front(x) \in DOMAIN U /\ Last(x) \in 1..2
             /\ Len(Front(x)) = Len(x) - 1 /\ Append(Front(x), Last(x)) = x
             /\ U[x] = g[U[Front(x)]].kid[Last(x)]
    BY TreeSteps
  <1>3. \A x \in DOMAIN T, side \in 1..2 :
           /\ g[T[x]].kid[side] = h[T[x]].kid[side]
           /\ h[T[x]].kid[side] \in DOMAIN h <=> h[T[x]].kid[side] \in DOMAIN g
    BY DEF Nodes, Range
  <1>4. \A x \in DOMAIN T \ {<<>>} :
           T[x] \in DOMAIN g /\ g[T[Front(x)]].kid[Last(x)] = T[x]
    <2> HIDE DEF T
    <2> TAKE x \in DOMAIN T \ {<<>>}
    <2>1. PICK up, side : up = Front(x) /\ side = Last(x)
      OBVIOUS
    <2>2. up \in DOMAIN T /\ side \in 1..2 /\ T[x] = h[T[up]].kid[side] /\ T[x] \in DOMAIN h
      BY <1>1, <2>1
    <2>3. T[x] \in DOMAIN g /\ g[T[up]].kid[side] = T[x]
      BY <1>3, <2>2
    <2> QED BY <2>1, <2>3
  <1>5. \A x \in DOMAIN T : x \in DOMAIN U /\ U[x] = T[x]
    BY <1>1, <1>4, SameDownTo DEF Places
  <1>6. T \in [DOMAIN T -> DOMAIN h] /\ U \in [DOMAIN U -> DOMAIN g]
    BY TreeIs DEF IsTree
  <1> HIDE DEF T, U
  <1> DEFINE Lost == {Len(x) : x \in DOMAIN U \ DOMAIN T}
  <1>7. Lost = {}
    <2> SUFFICES ASSUME Lost # {} PROVE FALSE
      OBVIOUS
    <2>1. Lost \in SUBSET Nat
      BY <1>2, PathFacts
    <2>2. PICK k \in Lost : \A l \in Lost : k <= l
      <3> HIDE DEF Lost
      <3> QED BY <2>1, LeastExists
    <2>3. PICK x \in DOMAIN U \ DOMAIN T : k = Len(x)
      BY <2>2
    <2>4. x # <<>>
      BY <1>1
    <2>5. PICK up, side : up = Front(x) /\ side = Last(x)
      OBVIOUS
    <2>6. /\ up \in DOMAIN U /\ side \in 1..2 /\ Len(up) = Len(x) - 1 /\ x = Append(up, side)
          /\ U[x] = g[U[up]].kid[side] /\ U[x] \in DOMAIN g
      BY <1>2, <2>4, <2>5
    <2>7. Len(x) \in 0..MAXHEIGHT /\ MAXHEIGHT \in Nat
      BY <1>2, PathFacts, SearchAssumption
    <2>8. up \in DOMAIN T
      <3>1. ~(k <= Len(up))
        BY <2>3, <2>6, <2>7
      <3> QED BY <2>2, <2>6, <3>1
    <2>9. h[T[up]].kid[side] \in DOMAIN h
      BY <1>3, <1>5, <2>6, <2>8
    <2>10. Len(up) < MAXHEIGHT
      BY <2>6, <2>7
    <2> QED BY <1>1, <2>3, <2>6, <2>8, <2>9, <2>10
  <1>8. DOMAIN U = DOMAIN T
    BY <1>5, <1>7
  <1>9. U = T
    BY <1>5, <1>6, <1>8
  <1> QED BY <1>9 DEF T, U

-----------------------------------------------------------------------------
\* One child changes.

\* g is h, but that a side of n has another child.
Linked(h, g, n, side, new) ==
    /\ DOMAIN g = DOMAIN h /\ g \in [DOMAIN h -> NodeOf(h)]
    /\ \A m \in DOMAIN h \ {n} : g[m] = h[m]
    /\ g[n].op = h[n].op /\ g[n].kid[side] = new
    /\ \A s \in 1..2 \ {side} : g[n].kid[s] = h[n].kid[s]

\* Giving a node another child, by EXCEPT.
LEMMA ExceptIsLinked ==
  ASSUME NEW h, h \in [DOMAIN h -> NodeOf(h)],
         NEW n \in DOMAIN h, NEW side \in 1..2, NEW new \in DOMAIN h
  PROVE  Linked(h, [h EXCEPT ![n].kid[side] = new], n, side, new)
  <1> DEFINE node == [h[n] EXCEPT !.kid[side] = new]
             g == [h EXCEPT ![n].kid[side] = new]
  <1>1. h[n].op \in DOMAIN Arity /\ h[n].kid \in [1..2 -> DOMAIN h \cup {NULL}]
    BY DEF NodeOf
  <1>2. /\ node \in NodeOf(h) /\ node.op = h[n].op /\ node.kid[side] = new
        /\ \A s \in 1..2 \ {side} : node.kid[s] = h[n].kid[s]
    BY <1>1 DEF NodeOf
  <1>3. g = [h EXCEPT ![n] = node]
    OBVIOUS
  <1> HIDE DEF g, node
  <1>4. Linked(h, g, n, side, new)
    BY <1>2, <1>3 DEF Linked
  <1> QED BY <1>4 DEF g

\* The sides with a child stay the same when one child replaces another.
LEMMA LinkedArity ==
  \A h, g, n, side, new :
     /\ Linked(h, g, n, side, new) /\ n \in DOMAIN h /\ side \in 1..2 /\ new \in DOMAIN h
     /\ NULL \notin DOMAIN h /\ h[n].kid[side] # NULL
     => \A m \in DOMAIN h :
          /\ g[m].op = h[m].op
          /\ {s \in 1..2 : g[m].kid[s] # NULL} = {s \in 1..2 : h[m].kid[s] # NULL}
  BY DEF Linked

\* A tree that nothing refers to is put in the place of another.
LEMMA GraftForest ==
  ASSUME NEW h, NEW roots, Forest(h, roots), NEW g,
         NEW n \in DOMAIN h, NEW side \in 1..2, NEW new \in DOMAIN h,
         Linked(h, g, n, side, new), h[n].kid[side] # NULL,
         \A m \in DOMAIN h, s \in 1..2 : h[m].kid[s] # new
  PROVE  Forest(g, roots \ {new})
  <1>1. NULL \notin DOMAIN h
    BY NullIsNone
  <1>2. g \in [DOMAIN g -> NodeOf(g)] /\ DOMAIN g = DOMAIN h
    BY DEF Linked, NodeOf
  <1>3. \A m \in DOMAIN h : Cardinality({s \in 1..2 : g[m].kid[s] # NULL}) = Arity[g[m].op]
    <2> TAKE m \in DOMAIN h
    <2>1. /\ g[m].op = h[m].op
          /\ {s \in 1..2 : g[m].kid[s] # NULL} = {s \in 1..2 : h[m].kid[s] # NULL}
      BY <1>1, LinkedArity
    <2>2. Cardinality({s \in 1..2 : h[m].kid[s] # NULL}) = Arity[h[m].op]
      BY DEF Forest
    <2> QED BY <2>1, <2>2
  <1>4. \A m \in DOMAIN h, s \in 1..2 :
           g[m].kid[s] = IF m = n /\ s = side THEN new ELSE h[m].kid[s]
    BY DEF Linked
  <1>5. ASSUME NEW m \in DOMAIN h, NEW l \in DOMAIN h, NEW s \in 1..2, NEW u \in 1..2,
               g[m].kid[s] = g[l].kid[u], g[m].kid[s] # NULL
        PROVE  m = l /\ s = u
    <2>1. CASE (m = n /\ s = side) <=> (l = n /\ u = side)
      <3>1. CASE m = n /\ s = side
        BY <2>1, <3>1
      <3>2. CASE ~(m = n /\ s = side)
        <4>1. h[m].kid[s] = h[l].kid[u] /\ h[m].kid[s] # NULL
          BY <1>4, <1>5, <2>1, <3>2
        <4> QED BY <4>1, OneParent
      <3> QED BY <3>1, <3>2
    <2>2. CASE ~((m = n /\ s = side) <=> (l = n /\ u = side))
      BY <1>4, <1>5, <2>2
    <2> QED BY <2>1, <2>2
  <1>6. \A m \in DOMAIN h, s \in 1..2 : g[m].kid[s] \notin roots \ {new}
    BY <1>4 DEF Forest
  <1>7. IsFiniteSet(DOMAIN h) /\ DOMAIN h \subseteq (Nat \ {0}) \X Paths /\ roots \ {new} \subseteq DOMAIN h
    BY DEF Forest
  <1> QED BY <1>2, <1>3, <1>5, <1>6, <1>7 DEF Forest

\* Two trees change places.
LEMMA SwapForest ==
  ASSUME NEW h, NEW roots, Forest(h, roots), NEW f, NEW g,
         NEW n1 \in DOMAIN h, NEW n2 \in DOMAIN h, n1 # n2,
         NEW side1 \in 1..2, NEW side2 \in 1..2,
         NEW sub1 \in DOMAIN h, NEW sub2 \in DOMAIN h,
         h[n1].kid[side1] = sub1, h[n2].kid[side2] = sub2,
         Linked(h, f, n1, side1, sub2), Linked(f, g, n2, side2, sub1)
  PROVE  Forest(g, roots)
  <1>1. NULL \notin DOMAIN h
    BY NullIsNone
  <1>2. DOMAIN f = DOMAIN h /\ DOMAIN g = DOMAIN h
    BY DEF Linked
  <1>3. g \in [DOMAIN g -> NodeOf(g)]
    BY <1>2 DEF Linked, NodeOf
  <1>4. /\ \A m \in DOMAIN h, s \in 1..2 :
              f[m].kid[s] = IF m = n1 /\ s = side1 THEN sub2 ELSE h[m].kid[s]
        /\ \A m \in DOMAIN h, s \in 1..2 :
              g[m].kid[s] = IF m = n2 /\ s = side2 THEN sub1 ELSE f[m].kid[s]
    BY <1>2 DEF Linked
  <1>5. \A m \in DOMAIN h : Cardinality({s \in 1..2 : g[m].kid[s] # NULL}) = Arity[g[m].op]
    <2> TAKE m \in DOMAIN h
    <2>1. /\ f[m].op = h[m].op
          /\ {s \in 1..2 : f[m].kid[s] # NULL} = {s \in 1..2 : h[m].kid[s] # NULL}
      BY <1>1, LinkedArity
    <2>2. f[n2].kid[side2] # NULL
      BY <1>1, <1>4
    <2>3. /\ g[m].op = f[m].op
          /\ {s \in 1..2 : g[m].kid[s] # NULL} = {s \in 1..2 : f[m].kid[s] # NULL}
      BY <1>1, <1>2, <2>2, LinkedArity
    <2>4. Cardinality({s \in 1..2 : h[m].kid[s] # NULL}) = Arity[h[m].op]
      BY DEF Forest
    <2> QED BY <2>1, <2>3, <2>4
  <1>6. \A m \in DOMAIN h, s \in 1..2 :
           g[m].kid[s] = IF m = n1 /\ s = side1 THEN h[n2].kid[side2]
                         ELSE IF m = n2 /\ s = side2 THEN h[n1].kid[side1]
                         ELSE h[m].kid[s]
    BY <1>4
  <1>7. ASSUME NEW m \in DOMAIN h, NEW l \in DOMAIN h, NEW s \in 1..2, NEW u \in 1..2,
               g[m].kid[s] = g[l].kid[u], g[m].kid[s] # NULL
        PROVE  m = l /\ s = u
    <2> DEFINE Where(x, v) == IF x = n1 /\ v = side1 THEN <<n2, side2>>
                              ELSE IF x = n2 /\ v = side2 THEN <<n1, side1>> ELSE <<x, v>>
    <2>1. /\ g[m].kid[s] = h[Where(m, s)[1]].kid[Where(m, s)[2]]
          /\ g[l].kid[u] = h[Where(l, u)[1]].kid[Where(l, u)[2]]
      BY <1>6
    <2>2. /\ Where(m, s)[1] \in DOMAIN h /\ Where(m, s)[2] \in 1..2
          /\ Where(l, u)[1] \in DOMAIN h /\ Where(l, u)[2] \in 1..2
      OBVIOUS
    <2>3. Where(m, s)[1] = Where(l, u)[1] /\ Where(m, s)[2] = Where(l, u)[2]
      <3>1. PICK a, v, b, w : /\ a = Where(m, s)[1] /\ v = Where(m, s)[2]
                              /\ b = Where(l, u)[1] /\ w = Where(l, u)[2]
        OBVIOUS
      <3> HIDE DEF Where
      <3>2. /\ a \in DOMAIN h /\ b \in DOMAIN h /\ v \in 1..2 /\ w \in 1..2
            /\ h[a].kid[v] = h[b].kid[w] /\ h[a].kid[v] # NULL
        BY <1>7, <2>1, <2>2, <3>1
      <3>3. a = b /\ v = w
        BY <3>2, OneParent
      <3> QED BY <3>1, <3>3
    <2> QED BY <2>3
  <1>8. \A m \in DOMAIN h, s \in 1..2 : g[m].kid[s] \notin roots
    BY <1>6 DEF Forest
  <1>9. IsFiniteSet(DOMAIN h) /\ DOMAIN h \subseteq (Nat \ {0}) \X Paths /\ roots \subseteq DOMAIN h
    BY DEF Forest
  <1> QED BY <1>2, <1>3, <1>5, <1>7, <1>8, <1>9 DEF Forest

-----------------------------------------------------------------------------
\* Finite sets.

\* The values of a function on a finite set are no more than its arguments.
LEMMA FiniteRange ==
  ASSUME NEW f, IsFiniteSet(DOMAIN f), f = [x \in DOMAIN f |-> f[x]]
  PROVE  IsFiniteSet(Range(f)) /\ Cardinality(Range(f)) <= Cardinality(DOMAIN f)
  <1> DEFINE S == DOMAIN f
             T == Range(f)
  <1>1. f \in Surjection(S, T)
    BY DEF Range, Surjection
  <1>2. IsFiniteSet(S)
    OBVIOUS
  <1> HIDE DEF S, T
  <1>3. IsFiniteSet(T) /\ Cardinality(T) <= Cardinality(S)
    BY <1>1, <1>2, FS_Surjection
  <1> QED BY <1>3 DEF S, T

\* There are finitely many paths.
LEMMA PathsFinite == IsFiniteSet(Paths)
  <1> DEFINE Short(k) == {path \in Paths : Len(path) <= k}
             Few == {k \in 0..MAXHEIGHT : IsFiniteSet(Short(k))}
  <1>1. MAXHEIGHT \in Nat
    BY SearchAssumption
  <1>2. 0 \in Few
    <2>1. Short(0) \subseteq {<<>>}
      BY PathFacts
    <2>2. IsFiniteSet({<<>>})
      BY FS_Singleton
    <2>3. IsFiniteSet(Short(0))
      <3> HIDE DEF Short
      <3> QED BY <2>1, <2>2, FS_Subset
    <2> QED BY <1>1, <2>3
  <1>3. ASSUME NEW k \in 0..MAXHEIGHT - 1, k \in Few PROVE k + 1 \in Few
    <2> DEFINE S == Short(k) \X (1..2)
               f == [x \in S |-> Append(x[1], x[2])]
    <2>1. IsFiniteSet(Short(k))
      BY <1>3
    <2>2. IsFiniteSet(S)
      <3>1. IsFiniteSet(1..2)
        <4>1. \A b \in Int : IsFiniteSet(1..b)
          BY FS_Interval
        <4>2. PICK b \in Int : b = 2
          OBVIOUS
        <4> QED BY <4>1, <4>2
      <3>2. \A A : IsFiniteSet(A) => IsFiniteSet(A \X (1..2))
        BY <3>1, FS_Product
      <3> HIDE DEF Short
      <3> QED BY <2>1, <3>2
    <2>3. IsFiniteSet(Range(f))
      <3>1. DOMAIN f = S /\ f = [x \in DOMAIN f |-> f[x]]
        OBVIOUS
      <3> HIDE DEF f, S
      <3> QED BY <2>2, <3>1, FiniteRange
    <2>4. Short(k + 1) \subseteq Short(k) \cup Range(f)
      <3> SUFFICES ASSUME NEW path \in Paths, Len(path) <= k + 1, path \notin Short(k)
                   PROVE  path \in Range(f)
        OBVIOUS
      <3>1. Len(path) = k + 1 /\ path # <<>>
        BY <1>1, PathFacts
      <3>2. PICK up, side : up = Front(path) /\ side = Last(path)
        OBVIOUS
      <3>3. up \in Short(k) /\ side \in 1..2 /\ path = Append(up, side)
        BY <1>1, <3>1, <3>2, PathFacts
      <3>4. <<up, side>> \in S /\ f[<<up, side>>] = path
        <4> HIDE DEF Short
        <4> QED BY <3>3
      <3>5. DOMAIN f = S
        OBVIOUS
      <3> HIDE DEF S, f
      <3> QED BY <3>4, <3>5 DEF Range
    <2>5. IsFiniteSet(Short(k) \cup Range(f))
      <3> HIDE DEF Short, f
      <3> QED BY <2>1, <2>3, FS_Union
    <2>6. IsFiniteSet(Short(k + 1))
      <3> HIDE DEF Short, f
      <3> QED BY <2>4, <2>5, FS_Subset
    <2> QED BY <1>1, <2>6
  <1>4. MAXHEIGHT \in Few
    <2> HIDE DEF Few
    <2> QED BY <1>1, <1>2, <1>3, UpTo
  <1>5. Short(MAXHEIGHT) = Paths
    BY <1>1, PathFacts
  <1> HIDE DEF Short
  <1> QED BY <1>4, <1>5

-----------------------------------------------------------------------------
\* A tree is made.

\* There is room for an expression.
LEMMA FreeExists ==
  ASSUME NEW h, IsFiniteSet(DOMAIN h), h = [n \in DOMAIN h |-> h[n]], NEW e
  PROVE  LowestFree(h, e) \in Nat \ {0} /\ Free(h, e, LowestFree(h, e))
  <1> DEFINE N == Cardinality(DOMAIN h)
             f == [n \in DOMAIN h |-> n[1]]
             used == Range(f)
             T == {b \in 1..(N + 1) : Free(h, e, b)}
  <1>1. N \in Nat
    BY FS_CardinalityType
  <1>2. IsFiniteSet(used) /\ Cardinality(used) <= N
    <2>1. DOMAIN f = DOMAIN h /\ f = [n \in DOMAIN f |-> f[n]]
      OBVIOUS
    <2> HIDE DEF f
    <2> QED BY <2>1, FiniteRange
  <1>3. \A n \in DOMAIN h : n[1] \in used
    BY DEF Range
  <1> HIDE DEF used, N
  <1>4. PICK b \in 1..(N + 1) : b \notin used
    <2> SUFFICES ASSUME 1..(N + 1) \subseteq used PROVE FALSE
      OBVIOUS
    <2>1. Cardinality(1..(N + 1)) = N + 1
      BY <1>1, FS_Interval
    <2>2. Cardinality(1..(N + 1)) <= Cardinality(used)
      BY <1>2, FS_Subset
    <2>3. Cardinality(used) \in Nat
      BY <1>2, FS_CardinalityType
    <2> QED BY <1>1, <1>2, <2>1, <2>2, <2>3
  <1>5. b \in T
    <2>1. \A path \in DOMAIN e : <<b, path>> \notin DOMAIN h
      BY <1>3, <1>4
    <2> QED BY <2>1 DEF Free
  <1>6. T \in SUBSET Nat /\ T # {}
    BY <1>1, <1>5
  <1>7. PICK l \in T : \A c \in T : l <= c
    <2> HIDE DEF T
    <2> QED BY <1>6, LeastExists
  <1>8. l \in 1..(N + 1) /\ Free(h, e, l) /\ \A c \in 1..(l - 1) : ~Free(h, e, c)
    BY <1>1, <1>7
  <1>9. LowestFree(h, e) \in 1..(N + 1) /\ Free(h, e, LowestFree(h, e))
    BY <1>8 DEF LowestFree, N
  <1> QED BY <1>1, <1>9

\* A function that is the tree, is the tree.
LEMMA TreeUnique ==
  ASSUME NEW h, NEW t, NEW U, IsTree(h, t, U, MAXHEIGHT)
  PROVE  Tree(h, t) = U
  <1> DEFINE T == Tree(h, t)
             Same == {k \in 0..MAXHEIGHT : \A x \in Paths : Len(x) = k =>
                        /\ x \in DOMAIN T <=> x \in DOMAIN U
                        /\ x \in DOMAIN T => T[x] = U[x]}
  <1>1. IsTree(h, t, T, MAXHEIGHT)
    BY TreeIs
  <1> HIDE DEF T
  <1>2. MAXHEIGHT \in Nat
    BY SearchAssumption
  <1>3. 0 \in Same
    <2> SUFFICES ASSUME NEW x \in Paths, Len(x) = 0
                 PROVE  (x \in DOMAIN T <=> x \in DOMAIN U) /\ (x \in DOMAIN T => T[x] = U[x])
      BY <1>2
    <2>1. x = <<>>
      BY PathFacts
    <2> QED BY <1>1, <2>1 DEF IsTree
  <1>4. ASSUME NEW k \in 0..MAXHEIGHT - 1, k \in Same PROVE k + 1 \in Same
    <2> SUFFICES ASSUME NEW x \in Paths, Len(x) = k + 1
                 PROVE  (x \in DOMAIN T <=> x \in DOMAIN U) /\ (x \in DOMAIN T => T[x] = U[x])
      BY <1>2
    <2>1. x # <<>>
      BY PathFacts
    <2>2. PICK up, side : up = Front(x) /\ side = Last(x)
      OBVIOUS
    <2>3. up \in Paths /\ side \in 1..2 /\ Len(up) = k /\ x = Append(up, side) /\ k < MAXHEIGHT
      BY <1>2, <2>1, <2>2, PathFacts
    <2>4. (up \in DOMAIN T <=> up \in DOMAIN U) /\ (up \in DOMAIN T => T[up] = U[up])
      BY <1>4, <2>3
    <2>5. /\ x \in DOMAIN T <=> up \in DOMAIN T /\ h[T[up]].kid[side] \in DOMAIN h
          /\ x \in DOMAIN T => T[x] = h[T[up]].kid[side]
      BY <1>1, <2>3 DEF IsTree
    <2>6. /\ x \in DOMAIN U <=> up \in DOMAIN U /\ h[U[up]].kid[side] \in DOMAIN h
          /\ x \in DOMAIN U => U[x] = h[U[up]].kid[side]
      BY <2>3 DEF IsTree
    <2> QED BY <2>4, <2>5, <2>6
  <1>5. \A k \in 0..MAXHEIGHT : k \in Same
    <2> HIDE DEF Same
    <2> QED BY <1>2, <1>3, <1>4, UpTo
  <1>6. \A x \in Paths : (x \in DOMAIN T <=> x \in DOMAIN U) /\ (x \in DOMAIN T => T[x] = U[x])
    BY <1>5, PathFacts
  <1>7. /\ T \in [DOMAIN T -> DOMAIN h] /\ DOMAIN T \subseteq Paths
        /\ U \in [DOMAIN U -> DOMAIN h] /\ DOMAIN U \subseteq Paths
    BY <1>1 DEF IsTree
  <1>8. DOMAIN T = DOMAIN U
    BY <1>6, <1>7
  <1>9. T = U
    BY <1>6, <1>7, <1>8
  <1> QED BY <1>9 DEF T

\* g is h with the nodes of e, in block b.
Made(h, g, e, b) ==
    /\ b \in Nat \ {0}
    /\ DOMAIN g = DOMAIN h \cup {<<b, path>> : path \in DOMAIN e}
    /\ g = [n \in DOMAIN g |-> g[n]]
    /\ \A n \in DOMAIN h : g[n] = h[n]
    /\ \A path \in DOMAIN e :
          /\ <<b, path>> \notin DOMAIN h
          /\ g[<<b, path>>] \in [op : {e[path]}, kid : [1..2 -> DOMAIN g \cup {NULL}]]
          /\ \A side \in 1..2 : g[<<b, path>>].kid[side] =
                IF Append(path, side) \in DOMAIN e THEN <<b, Append(path, side)>> ELSE NULL

\* What Build() allocates: a node for each place of the expression, in one free block.
LEMMA BuildMakes ==
  ASSUME NEW h, NEW e, IsFiniteSet(DOMAIN h), h = [n \in DOMAIN h |-> h[n]], <<>> \in DOMAIN e
  PROVE  /\ Made(h, Build(h, e).heap, e, LowestFree(h, e))
         /\ Build(h, e).root = <<LowestFree(h, e), <<>>>>
  <1>1. PICK b : b = LowestFree(h, e)
    OBVIOUS
  <1>2. b \in Nat \ {0} /\ \A path \in DOMAIN e : <<b, path>> \notin DOMAIN h
    BY <1>1, FreeExists DEF Free
  <1> DEFINE Node(path) == IF path \in DOMAIN e THEN <<b, path>> ELSE NULL
             New == {Node(path) : path \in DOMAIN e}
             Entry(n) == [op |-> e[n[2]], kid |-> [side \in 1..2 |-> Node(Append(n[2], side))]]
             g == [n \in DOMAIN h \cup New |-> IF n \in DOMAIN h THEN h[n] ELSE Entry(n)]
  <1>3. Build(h, e) = [root |-> Node(<<>>), heap |-> g]
    BY <1>1 DEF Build
  <1>4. New = {<<b, path>> : path \in DOMAIN e}
    OBVIOUS
  <1>5. ASSUME NEW path \in DOMAIN e
        PROVE  /\ g[<<b, path>>] \in [op : {e[path]}, kid : [1..2 -> DOMAIN g \cup {NULL}]]
               /\ \A side \in 1..2 : g[<<b, path>>].kid[side] =
                    IF Append(path, side) \in DOMAIN e THEN <<b, Append(path, side)>> ELSE NULL
    <2>1. <<b, path>> \in New /\ <<b, path>> \notin DOMAIN h
      BY <1>2
    <2>2. g[<<b, path>>] = Entry(<<b, path>>)
      <3> HIDE DEF Entry, New
      <3> QED BY <2>1
    <2>3. DOMAIN g = DOMAIN h \cup New
      OBVIOUS
    <2>4. \A side \in 1..2 : Node(Append(path, side)) \in New \cup {NULL}
      OBVIOUS
    <2>5. Entry(<<b, path>>) = [op |-> e[path], kid |-> [side \in 1..2 |-> Node(Append(path, side))]]
      OBVIOUS
    <2>6. [side \in 1..2 |-> Node(Append(path, side))] \in [1..2 -> DOMAIN g \cup {NULL}]
      <3> HIDE DEF g, New, Node
      <3> QED BY <2>3, <2>4
    <2> HIDE DEF g
    <2> QED BY <2>2, <2>5, <2>6
  <1>6. /\ DOMAIN g = DOMAIN h \cup {<<b, path>> : path \in DOMAIN e}
        /\ g = [n \in DOMAIN g |-> g[n]] /\ \A n \in DOMAIN h : g[n] = h[n]
    BY <1>4
  <1> HIDE DEF g
  <1>7. Made(h, g, e, b)
    BY <1>2, <1>5, <1>6 DEF Made
  <1> QED BY <1>1, <1>3, <1>7

\* What an expression is, path by path.
LEMMA ExpressionFacts ==
  ASSUME NEW e, IsExpression(e)
  PROVE  /\ DOMAIN e \subseteq Paths /\ <<>> \in DOMAIN e /\ IsFiniteSet(DOMAIN e)
         /\ \A path \in DOMAIN e :
               /\ e[path] \in DOMAIN Arity /\ Len(path) < MAXHEIGHT
               /\ Cardinality({side \in 1..2 : Append(path, side) \in DOMAIN e}) = Arity[e[path]]
         /\ \A path \in DOMAIN e, side \in 1..2 :
               /\ Append(path, side) \in Paths /\ Append(path, side) # <<>>
               /\ Front(Append(path, side)) = path /\ Last(Append(path, side)) = side
         /\ \A path \in Paths, side \in 1..2 : Append(path, side) \in DOMAIN e => path \in DOMAIN e
  <1>1. DOMAIN e \subseteq Paths /\ e \in [DOMAIN e -> DOMAIN Arity] /\ <<>> \in DOMAIN e
    BY DEF IsExpression
  <1>2. IsFiniteSet(DOMAIN e)
    BY <1>1, PathsFinite, FS_Subset
  <1>3. \A path \in DOMAIN e :
          /\ Len(path) < MAXHEIGHT
          /\ path # <<>> => Front(path) \in DOMAIN e
          /\ Cardinality({side \in 1..2 : Append(path, side) \in DOMAIN e}) = Arity[e[path]]
    BY DEF IsExpression
  <1>4. \A path \in Paths, side \in 1..2 : Append(path, side) \in DOMAIN e => path \in DOMAIN e
    <2> TAKE path \in Paths, side \in 1..2
    <2>1. Append(path, side) # <<>> /\ Front(Append(path, side)) = path
      BY PathFacts, PathsAre
    <2> QED BY <1>3, <2>1
  <1>5. \A path \in DOMAIN e, side \in 1..2 :
           /\ Append(path, side) \in Paths /\ Append(path, side) # <<>>
           /\ Front(Append(path, side)) = path /\ Last(Append(path, side)) = side
    BY <1>1, <1>3, PathFacts, PathsAre
  <1>6. \A path \in DOMAIN e : e[path] \in DOMAIN Arity
    BY <1>1
  <1> QED BY <1>1, <1>2, <1>3, <1>4, <1>5, <1>6

\* The nodes made for an expression are its tree.
LEMMA MadeTree ==
  ASSUME NEW h, NEW roots, Forest(h, roots), NEW e, IsExpression(e), NEW g, NEW b, Made(h, g, e, b)
  PROVE  Tree(g, <<b, <<>>>>) = [path \in DOMAIN e |-> <<b, path>>]
  <1> DEFINE U == [path \in DOMAIN e |-> <<b, path>>]
             t == <<b, <<>>>>
  <1>1. /\ DOMAIN e \subseteq Paths /\ <<>> \in DOMAIN e
        /\ \A path \in DOMAIN e : Len(path) < MAXHEIGHT
        /\ \A path \in Paths, side \in 1..2 : Append(path, side) \in DOMAIN e => path \in DOMAIN e
    BY ExpressionFacts
  <1>2. NULL \notin DOMAIN g
    <2>1. NULL \notin DOMAIN h
      BY NullIsNone
    <2>2. \A path \in DOMAIN e : <<b, path>> # NULL
      BY DEF Made, NULL
    <2> QED BY <2>1, <2>2 DEF Made
  <1>3. \A path \in DOMAIN e :
          /\ <<b, path>> \in DOMAIN g
          /\ \A side \in 1..2 : g[<<b, path>>].kid[side] =
                IF Append(path, side) \in DOMAIN e THEN <<b, Append(path, side)>> ELSE NULL
    BY DEF Made
  <1>4. DOMAIN U = DOMAIN e /\ \A path \in DOMAIN e : U[path] = <<b, path>>
    OBVIOUS
  <1>5. U \in [DOMAIN U -> DOMAIN g]
    BY <1>3
  <1> HIDE DEF U
  <1>6. t \in DOMAIN g /\ U[<<>>] = t
    BY <1>1, <1>3, <1>4
  <1>7. \A path \in DOMAIN e : Len(path) <= MAXHEIGHT
    BY <1>1, PathFacts
  <1>8. ASSUME NEW path \in Paths, NEW side \in 1..2
        PROVE  /\ Append(path, side) \in DOMAIN e <=>
                     path \in DOMAIN e /\ g[U[path]].kid[side] \in DOMAIN g
               /\ Append(path, side) \in DOMAIN e => U[Append(path, side)] = g[U[path]].kid[side]
    <2>1. PICK longer : longer = Append(path, side)
      OBVIOUS
    <2>2. CASE path \in DOMAIN e
      <3>1. g[U[path]].kid[side] = IF longer \in DOMAIN e THEN <<b, longer>> ELSE NULL
        BY <1>3, <1>4, <2>1, <2>2, ZenonT(60)
      <3> QED BY <1>2, <1>3, <1>4, <2>1, <2>2, <3>1
    <2>3. CASE path \notin DOMAIN e
      BY <1>1, <2>3
    <2> QED BY <2>2, <2>3
  <1>9. IsTree(g, t, U, MAXHEIGHT)
    BY <1>1, <1>4, <1>5, <1>6, <1>7, <1>8 DEF IsTree
  <1> QED BY <1>9, TreeUnique DEF U

\* The new tree shares no node with those of the forest.
LEMMA MadeForest ==
  ASSUME NEW h, NEW roots, Forest(h, roots), NEW e, IsExpression(e), NEW g, NEW b, Made(h, g, e, b)
  PROVE  Forest(g, roots \cup {<<b, <<>>>>})
  <1> DEFINE New == {<<b, path>> : path \in DOMAIN e}
  <1>1. /\ DOMAIN e \subseteq Paths /\ <<>> \in DOMAIN e /\ IsFiniteSet(DOMAIN e)
        /\ \A path \in DOMAIN e :
              /\ e[path] \in DOMAIN Arity
              /\ Cardinality({side \in 1..2 : Append(path, side) \in DOMAIN e}) = Arity[e[path]]
        /\ \A path \in DOMAIN e, side \in 1..2 :
              /\ Append(path, side) \in Paths /\ Append(path, side) # <<>>
              /\ Front(Append(path, side)) = path /\ Last(Append(path, side)) = side
    BY ExpressionFacts
  <1>2. /\ b \in Nat \ {0} /\ DOMAIN g = DOMAIN h \cup New
        /\ g = [n \in DOMAIN g |-> g[n]] /\ \A n \in DOMAIN h : g[n] = h[n]
        /\ \A path \in DOMAIN e :
              /\ <<b, path>> \notin DOMAIN h
              /\ g[<<b, path>>].op = e[path]
              /\ g[<<b, path>>].kid \in [1..2 -> DOMAIN g \cup {NULL}]
              /\ g[<<b, path>>] \in [op : {e[path]}, kid : [1..2 -> DOMAIN g \cup {NULL}]]
              /\ \A side \in 1..2 : g[<<b, path>>].kid[side] =
                    IF Append(path, side) \in DOMAIN e THEN <<b, Append(path, side)>> ELSE NULL
    BY DEF Made
  <1>3. /\ IsFiniteSet(DOMAIN h) /\ DOMAIN h \subseteq (Nat \ {0}) \X Paths
        /\ h \in [DOMAIN h -> NodeOf(h)] /\ roots \subseteq DOMAIN h
        /\ \A n \in DOMAIN h : Cardinality({side \in 1..2 : h[n].kid[side] # NULL}) = Arity[h[n].op]
        /\ \A n \in DOMAIN h, s \in 1..2 : h[n].kid[s] \notin roots
    BY DEF Forest
  <1>4. IsFiniteSet(DOMAIN g)
    <2> DEFINE f == [path \in DOMAIN e |-> <<b, path>>]
    <2>1. IsFiniteSet(Range(f))
      <3>1. DOMAIN f = DOMAIN e /\ f = [x \in DOMAIN f |-> f[x]]
        OBVIOUS
      <3> HIDE DEF f
      <3> QED BY <1>1, <3>1, FiniteRange
    <2>2. New = Range(f)
      BY DEF Range
    <2>3. DOMAIN g = DOMAIN h \cup New
      BY <1>2
    <2>4. IsFiniteSet(DOMAIN h)
      BY <1>3
    <2> HIDE DEF f, New
    <2> QED BY <2>1, <2>2, <2>3, <2>4, FS_Union
  <1>5. DOMAIN g \subseteq (Nat \ {0}) \X Paths
    BY <1>1, <1>2, <1>3
  <1>6. NULL \notin DOMAIN g
    BY <1>5 DEF NULL
  <1>7. \A n \in DOMAIN g \ DOMAIN h : \E path \in DOMAIN e : n = <<b, path>>
    BY <1>2
  <1>8. \A n \in DOMAIN h : g[n] \in NodeOf(g)
    <2>1. \A n \in DOMAIN h : h[n] \in NodeOf(h)
      BY <1>3
    <2>2. NodeOf(h) \subseteq NodeOf(g)
      BY <1>2 DEF NodeOf
    <2> QED BY <1>2, <2>1, <2>2
  <1>9. \A path \in DOMAIN e : g[<<b, path>>] \in NodeOf(g)
    BY <1>1, <1>2 DEF NodeOf
  <1>10. g \in [DOMAIN g -> NodeOf(g)]
    BY <1>2, <1>7, <1>8, <1>9
  <1>11. \A n \in DOMAIN g : Cardinality({side \in 1..2 : g[n].kid[side] # NULL}) = Arity[g[n].op]
    <2> TAKE n \in DOMAIN g
    <2>1. CASE n \in DOMAIN h
      <3>1. g[n] = h[n]
        BY <1>2, <2>1
      <3>2. Cardinality({side \in 1..2 : h[n].kid[side] # NULL}) = Arity[h[n].op]
        BY <2>1 DEF Forest
      <3> QED BY <3>1, <3>2
    <2>2. CASE n \notin DOMAIN h
      <3>1. PICK path \in DOMAIN e : n = <<b, path>>
        BY <1>7, <2>2
      <3>2. \A q \in DOMAIN e : <<b, q>> # NULL
        BY <1>2, <1>6
      <3>3. \A side \in 1..2 : g[n].kid[side] # NULL <=> Append(path, side) \in DOMAIN e
        <4>1. \A side \in 1..2 : g[n].kid[side] =
                IF Append(path, side) \in DOMAIN e THEN <<b, Append(path, side)>> ELSE NULL
          BY <1>2, <3>1
        <4> QED BY <3>2, <4>1
      <3>4. {side \in 1..2 : g[n].kid[side] # NULL} = {side \in 1..2 : Append(path, side) \in DOMAIN e}
        BY <3>3
      <3>5. g[n].op = e[path]
        BY <1>2, <3>1
      <3>6. Cardinality({side \in 1..2 : Append(path, side) \in DOMAIN e}) = Arity[e[path]]
        BY <1>1
      <3> QED BY <3>4, <3>5, <3>6
    <2> QED BY <2>1, <2>2
  <1>12. \A n \in DOMAIN h, s \in 1..2 : g[n].kid[s] = h[n].kid[s] /\ h[n].kid[s] \in DOMAIN h \cup {NULL}
    BY <1>2, <1>3 DEF NodeOf
  <1>13. \A n \in DOMAIN g \ DOMAIN h, s \in 1..2 :
            g[n].kid[s] # NULL =>
              \E path \in DOMAIN e : /\ n = <<b, path>> /\ Append(path, s) \in DOMAIN e
                                     /\ g[n].kid[s] = <<b, Append(path, s)>>
    <2> TAKE n \in DOMAIN g \ DOMAIN h, s \in 1..2
    <2>1. PICK path \in DOMAIN e : n = <<b, path>>
      BY <1>7
    <2>2. g[n].kid[s] = IF Append(path, s) \in DOMAIN e THEN <<b, Append(path, s)>> ELSE NULL
      BY <1>2, <2>1
    <2> QED BY <2>1, <2>2
  <1>14. \A n \in DOMAIN g \ DOMAIN h, s \in 1..2 :
            g[n].kid[s] # NULL => g[n].kid[s] \notin DOMAIN h /\ g[n].kid[s] # <<b, <<>>>>
    <2> TAKE n \in DOMAIN g \ DOMAIN h, s \in 1..2
    <2> SUFFICES ASSUME g[n].kid[s] # NULL
                 PROVE  g[n].kid[s] \notin DOMAIN h /\ g[n].kid[s] # <<b, <<>>>>
      OBVIOUS
    <2>1. PICK path \in DOMAIN e : /\ Append(path, s) \in DOMAIN e
                                   /\ g[n].kid[s] = <<b, Append(path, s)>>
      BY <1>13
    <2>2. Append(path, s) # <<>>
      BY <1>1
    <2>3. PICK longer : longer = Append(path, s)
      OBVIOUS
    <2>4. <<b, longer>> \notin DOMAIN h
      BY <1>2, <2>1, <2>3
    <2>5. <<b, longer>> # <<b, <<>>>>
      BY <2>2, <2>3
    <2> QED BY <2>1, <2>3, <2>4, <2>5
  <1>15. ASSUME NEW n \in DOMAIN g, NEW m \in DOMAIN g, NEW s \in 1..2, NEW u \in 1..2,
                g[n].kid[s] = g[m].kid[u], g[n].kid[s] # NULL
         PROVE  n = m /\ s = u
    <2>1. CASE n \in DOMAIN h /\ m \in DOMAIN h
      <3>1. h[n].kid[s] = h[m].kid[u] /\ h[n].kid[s] # NULL
        BY <1>12, <1>15, <2>1
      <3> QED BY <2>1, <3>1, OneParent
    <2>2. CASE n \in DOMAIN h /\ m \notin DOMAIN h
      BY <1>12, <1>14, <1>15, <2>2
    <2>3. CASE n \notin DOMAIN h /\ m \in DOMAIN h
      BY <1>12, <1>14, <1>15, <2>3
    <2>4. CASE n \notin DOMAIN h /\ m \notin DOMAIN h
      <3>1. PICK x \in DOMAIN e : n = <<b, x>> /\ g[n].kid[s] = <<b, Append(x, s)>>
        BY <1>13, <1>15, <2>4
      <3>2. PICK y \in DOMAIN e : m = <<b, y>> /\ g[m].kid[u] = <<b, Append(y, u)>>
        BY <1>13, <1>15, <2>4
      <3>3. PICK longer, other : longer = Append(x, s) /\ other = Append(y, u)
        OBVIOUS
      <3>4. <<b, longer>> = <<b, other>>
        BY <1>15, <3>1, <3>2, <3>3
      <3>5. longer = other
        BY <3>4
      <3>6. Front(longer) = x /\ Last(longer) = s /\ Front(other) = y /\ Last(other) = u
        BY <1>1, <3>3
      <3> QED BY <3>1, <3>2, <3>5, <3>6
    <2> QED BY <2>1, <2>2, <2>3, <2>4
  <1>16. <<b, <<>>>> \in DOMAIN g /\ <<b, <<>>>> \notin DOMAIN h /\ <<b, <<>>>> # NULL
    BY <1>1, <1>2, <1>6, ZenonT(60)
  <1>17. \A n \in DOMAIN g, s \in 1..2 : g[n].kid[s] \notin roots \cup {<<b, <<>>>>}
    <2> TAKE n \in DOMAIN g, s \in 1..2
    <2>1. CASE n \in DOMAIN h
      <3>1. g[n].kid[s] = h[n].kid[s] /\ h[n].kid[s] \in DOMAIN h \cup {NULL}
        BY <1>12, <2>1
      <3>2. h[n].kid[s] \notin roots
        BY <1>3, <2>1
      <3> QED BY <1>16, <3>1, <3>2
    <2>2. CASE n \notin DOMAIN h
      <3>1. NULL \notin roots
        BY <1>2, <1>3, <1>6
      <3> QED BY <1>3, <1>14, <1>16, <2>2, <3>1
    <2> QED BY <2>1, <2>2
  <1>18. roots \cup {<<b, <<>>>>} \subseteq DOMAIN g
    BY <1>2, <1>3, <1>16
  <1> HIDE DEF New
  <1> QED BY <1>4, <1>5, <1>10, <1>11, <1>15, <1>17, <1>18 DEF Forest

\* The tree with root t is in g what it is in h.
Keeps(h, g, t) == /\ t \in DOMAIN h /\ t \in DOMAIN g
                  /\ \A n \in Nodes(h, t) : n \in DOMAIN g /\ g[n] = h[n]

\* A tree whose nodes are kept is the same tree.
LEMMA KeptTree ==
  ASSUME NEW h, NEW R, Forest(h, R), NEW g, NEW S, Forest(g, S), NEW t, Keeps(h, g, t)
  PROVE  /\ Tree(g, t) = Tree(h, t) /\ Nodes(g, t) = Nodes(h, t) /\ Places(g, t) = Places(h, t)
         /\ Exp(g, t) = Exp(h, t) /\ (Fits(g, t) <=> Fits(h, t))
  <1>1. /\ t \in DOMAIN h /\ t \in DOMAIN g
        /\ \A n \in Nodes(h, t) : n \in DOMAIN h /\ n \in DOMAIN g /\ g[n] = h[n]
    BY TreeSteps DEF Keeps, Nodes, Range
  <1>2. \A n \in Nodes(h, t), side \in 1..2 :
           /\ g[n].kid[side] = h[n].kid[side]
           /\ h[n].kid[side] \in DOMAIN h <=> h[n].kid[side] \in DOMAIN g
    <2> TAKE n \in Nodes(h, t), side \in 1..2
    <2>1. n \in DOMAIN h /\ n \in DOMAIN g /\ g[n] = h[n]
      BY <1>1
    <2>2. h[n].kid[side] \in DOMAIN h <=> h[n].kid[side] # NULL
      BY <2>1, NullIsNone
    <2>3. g[n].kid[side] \in DOMAIN g <=> g[n].kid[side] # NULL
      BY <2>1, NullIsNone
    <2> QED BY <2>1, <2>2, <2>3
  <1>3. Tree(g, t) = Tree(h, t)
    BY <1>1, <1>2, SameTree
  <1>4. \A path \in DOMAIN Tree(h, t) : g[Tree(h, t)[path]] = h[Tree(h, t)[path]]
    BY <1>1 DEF Nodes, Range
  <1>5. Exp(g, t) = Exp(h, t)
    BY <1>3, <1>4 DEF Exp
  <1> QED BY <1>3, <1>5 DEF Nodes, Places, Fits

\* A tree that two changes keep is kept by both.
LEMMA KeepsOn ==
  ASSUME NEW h, NEW R, Forest(h, R), NEW g, NEW S, Forest(g, S), NEW f, NEW t,
         Keeps(h, g, t), Keeps(g, f, t)
  PROVE  Keeps(h, f, t)
  <1>1. Nodes(g, t) = Nodes(h, t)
    BY KeptTree
  <1> QED BY <1>1 DEF Keeps

\* The expression of a tree is one.
LEMMA ExpIs ==
  ASSUME NEW h, NEW roots, Forest(h, roots), NEW t \in DOMAIN h, Fits(h, t)
  PROVE  IsExpression(Exp(h, t))
  <1> DEFINE T == Tree(h, t)
             e == Exp(h, t)
  <1>1. IsTree(h, t, T, MAXHEIGHT)
    BY TreeIs
  <1>2. /\ DOMAIN e = DOMAIN T /\ \A path \in DOMAIN T : e[path] = h[T[path]].op
        /\ e = [path \in DOMAIN T |-> h[T[path]].op]
    BY DEF Exp
  <1>3. /\ DOMAIN T \subseteq Paths /\ <<>> \in DOMAIN T
        /\ \A path \in DOMAIN T : T[path] \in DOMAIN h
        /\ \A path \in DOMAIN T \ {<<>>} : Front(path) \in DOMAIN T
    BY TreeSteps
  <1>4. \A path \in DOMAIN T : Len(path) < MAXHEIGHT
    BY DEF Fits, Places
  <1> HIDE DEF T, e
  <1>5. \A n \in DOMAIN h : h[n].op \in DOMAIN Arity
    BY DEF Forest, NodeOf
  <1>6. e \in [DOMAIN e -> DOMAIN Arity]
    BY <1>2, <1>3, <1>5
  <1>7. ASSUME NEW path \in DOMAIN T
        PROVE  Cardinality({side \in 1..2 : Append(path, side) \in DOMAIN T}) = Arity[e[path]]
    <2>1. \A side \in 1..2 : Append(path, side) \in DOMAIN T <=> h[T[path]].kid[side] # NULL
      <3> TAKE side \in 1..2
      <3>1. Append(path, side) \in DOMAIN T <=> h[T[path]].kid[side] \in DOMAIN h
        BY <1>1, <1>3, <1>4 DEF IsTree
      <3> QED BY <1>3, <3>1, NullIsNone
    <2>2. {side \in 1..2 : Append(path, side) \in DOMAIN T} =
          {side \in 1..2 : h[T[path]].kid[side] # NULL}
      BY <2>1
    <2>3. Cardinality({side \in 1..2 : h[T[path]].kid[side] # NULL}) = Arity[h[T[path]].op]
      BY <1>3 DEF Forest
    <2> QED BY <1>2, <2>2, <2>3
  <1>8. IsExpression(e)
    BY <1>2, <1>3, <1>4, <1>6, <1>7 DEF IsExpression
  <1> QED BY <1>8 DEF e

\* What it is to make a tree in a forest.
LEMMA BuildIs ==
  ASSUME NEW h, NEW roots, Forest(h, roots), NEW e, IsExpression(e)
  PROVE  LET t == Build(h, e).root
             g == Build(h, e).heap
         IN  /\ t \notin DOMAIN h /\ t \in DOMAIN g /\ t \in (Nat \ {0}) \X Paths
             /\ Forest(g, roots \cup {t})
             /\ DOMAIN h \subseteq DOMAIN g /\ \A n \in DOMAIN h : g[n] = h[n]
             /\ \A s \in DOMAIN h : Keeps(h, g, s)
             /\ Places(g, t) = DOMAIN e /\ Exp(g, t) = e /\ Fits(g, t)
  <1>1. PICK t, g, b : t = Build(h, e).root /\ g = Build(h, e).heap /\ b = LowestFree(h, e)
    OBVIOUS
  <1>2. <<>> \in DOMAIN e /\ DOMAIN e \subseteq Paths
    BY ExpressionFacts
  <1>3. IsFiniteSet(DOMAIN h) /\ h = [n \in DOMAIN h |-> h[n]]
    BY DEF Forest
  <1>4. Made(h, g, e, b) /\ t = <<b, <<>>>>
    BY <1>1, <1>2, <1>3, BuildMakes
  <1>5. Forest(g, roots \cup {t})
    BY <1>4, MadeForest
  <1>6. Tree(g, t) = [path \in DOMAIN e |-> <<b, path>>]
    BY <1>4, MadeTree
  <1>7. /\ DOMAIN g = DOMAIN h \cup {<<b, path>> : path \in DOMAIN e}
        /\ \A n \in DOMAIN h : g[n] = h[n]
        /\ \A path \in DOMAIN e : <<b, path>> \notin DOMAIN h /\ g[<<b, path>>].op = e[path]
    BY <1>4 DEF Made
  <1>8. t \notin DOMAIN h /\ t \in DOMAIN g
    BY <1>2, <1>4, <1>7
  <1>9. Places(g, t) = DOMAIN e
    BY <1>6 DEF Places
  <1>10. Exp(g, t) = e
    <2>1. e = [path \in DOMAIN e |-> e[path]]
      BY DEF IsExpression
    <2>2. Exp(g, t) = [path \in DOMAIN e |-> g[<<b, path>>].op]
      BY <1>6 DEF Exp
    <2> QED BY <1>7, <2>1, <2>2
  <1>11. Fits(g, t)
    BY <1>9, ExpressionFacts DEF Fits
  <1>12. \A s \in DOMAIN h : Keeps(h, g, s)
    <2> TAKE s \in DOMAIN h
    <2>1. \A n \in Nodes(h, s) : n \in DOMAIN h
      BY TreeSteps DEF Nodes, Range
    <2> QED BY <1>7, <2>1 DEF Keeps
  <1>13. t \in (Nat \ {0}) \X Paths
    BY <1>5, <1>8 DEF Forest
  <1> QED BY <1>1, <1>5, <1>7, <1>8, <1>9, <1>10, <1>11, <1>12, <1>13

\* Relinking changes the side the old child is on.
LEMMA RelinkIs ==
  ASSUME NEW h, h \in [DOMAIN h -> NodeOf(h)], NEW par \in DOMAIN h, NEW side \in 1..2,
         NEW old, NEW new \in DOMAIN h,
         \A s \in 1..2 : h[par].kid[s] = old <=> s = side
  PROVE  Linked(h, Relink(h, par, old, new), par, side, new)
  <1>1. (IF h[par].kid[1] = old THEN 1 ELSE 2) = side
    OBVIOUS
  <1>2. Relink(h, par, old, new) = [h EXCEPT ![par].kid[side] = new]
    BY <1>1 DEF Relink
  <1>3. PICK g : g = [h EXCEPT ![par].kid[side] = new]
    OBVIOUS
  <1>4. Linked(h, [h EXCEPT ![par].kid[side] = new], par, side, new)
    BY ExceptIsLinked
  <1>5. Linked(h, g, par, side, new)
    BY <1>3, <1>4, Zenon
  <1>6. Relink(h, par, old, new) = g
    BY <1>2, <1>3, Zenon
  <1> QED BY <1>5, <1>6

\* The place of a node below another.
LEMMA ParentIs ==
  ASSUME NEW h, NEW roots, Forest(h, roots), NEW t, NEW path \in Places(h, t), path # <<>>
  PROVE  LET par == parent(h, t, path)
         IN  /\ par \in DOMAIN h /\ par \in Nodes(h, t) /\ par # NULL
             /\ par = Tree(h, t)[Front(path)] /\ Front(path) \in Places(h, t)
             /\ Last(path) \in 1..2 /\ Tree(h, t)[path] \in DOMAIN h
             /\ \A s \in 1..2 : h[par].kid[s] = Tree(h, t)[path] <=> s = Last(path)
  <1>1. PICK par, sub, side, up : /\ par = parent(h, t, path) /\ sub = Tree(h, t)[path]
                                 /\ side = Last(path) /\ up = Front(path)
    OBVIOUS
  <1>2. par = Tree(h, t)[up]
    BY <1>1 DEF parent
  <1>3. /\ up \in Places(h, t) /\ side \in 1..2 /\ sub = h[par].kid[side] /\ sub \in DOMAIN h
        /\ par \in DOMAIN h
    <2>1. PICK T : T = Tree(h, t)
      OBVIOUS
    <2>2. /\ Front(path) \in DOMAIN T /\ Last(path) \in 1..2
          /\ T[path] = h[T[Front(path)]].kid[Last(path)]
          /\ \A q \in DOMAIN T : T[q] \in DOMAIN h
      <3>1. path \in DOMAIN Tree(h, t) \ {<<>>}
        BY DEF Places
      <3> QED BY <2>1, <3>1, TreeSteps
    <2>3. path \in DOMAIN T /\ DOMAIN T = Places(h, t)
      BY <2>1 DEF Places
    <2> QED BY <1>1, <1>2, <2>1, <2>2, <2>3
  <1>4. par \in Nodes(h, t)
    BY <1>2, <1>3 DEF Nodes, Range, Places
  <1>5. sub # NULL /\ par # NULL
    BY <1>3, NullIsNone
  <1>6. \A s \in 1..2 : h[par].kid[s] = sub <=> s = side
    <2> TAKE s \in 1..2
    <2>1. h[par].kid[s] = h[par].kid[side] => s = side
      BY <1>3, <1>5, OneParent
    <2> QED BY <1>3, <2>1
  <1> QED BY <1>1, <1>2, <1>3, <1>4, <1>5, <1>6

\* A mutation changes no tree but one, and keeps the forest.
LEMMA MutateIs ==
  ASSUME NEW h, NEW roots, Forest(h, roots), NEW t \in roots, NEW path \in Places(h, t),
         NEW e, IsExpression(e)
  PROVE  LET g == mutate(h, t, path, e)
         IN  /\ Forest(g, roots) /\ DOMAIN h \subseteq DOMAIN g
             /\ \A s \in roots \ {t} : Keeps(h, g, s)
  <1>1. CASE path = <<>>
    <2>1. mutate(h, t, path, e) = h
      BY <1>1 DEF mutate
    <2>2. \A s \in roots : Keeps(h, h, s)
      <3> TAKE s \in roots
      <3>1. \A n \in Nodes(h, s) : n \in DOMAIN h
        BY TreeSteps DEF Nodes, Range
      <3>2. s \in DOMAIN h
        BY DEF Forest
      <3> QED BY <3>1, <3>2 DEF Keeps
    <2> QED BY <2>1, <2>2
  <1>2. CASE path # <<>>
    <2>1. PICK par, old, side, new, f, g :
             /\ par = parent(h, t, path) /\ old = Tree(h, t)[path] /\ side = Last(path)
             /\ new = Build(h, e).root /\ f = Build(h, e).heap /\ g = mutate(h, t, path, e)
      OBVIOUS
    <2>2. g = Relink(f, par, old, new)
      BY <1>2, <2>1 DEF mutate
    <2>3. /\ par \in DOMAIN h /\ par \in Nodes(h, t) /\ side \in 1..2 /\ old \in DOMAIN h
          /\ \A s \in 1..2 : h[par].kid[s] = old <=> s = side
      BY <1>2, <2>1, ParentIs
    <2>4. /\ new \notin DOMAIN h /\ new \in DOMAIN f /\ Forest(f, roots \cup {new})
          /\ DOMAIN h \subseteq DOMAIN f /\ \A n \in DOMAIN h : f[n] = h[n]
      <3>1. /\ Build(h, e).root \notin DOMAIN h /\ Build(h, e).root \in DOMAIN Build(h, e).heap
            /\ Forest(Build(h, e).heap, roots \cup {Build(h, e).root})
            /\ DOMAIN h \subseteq DOMAIN Build(h, e).heap
            /\ \A n \in DOMAIN h : Build(h, e).heap[n] = h[n]
        BY BuildIs
      <3> QED BY <2>1, <3>1
    <2>5. f \in [DOMAIN f -> NodeOf(f)]
      <3>1. Forest(f, roots \cup {new})
        BY <2>4
      <3> QED BY <3>1 DEF Forest
    <2>6. Linked(f, g, par, side, new)
      <3>1. \A s \in 1..2 : f[par].kid[s] = old <=> s = side
        BY <2>3, <2>4
      <3>2. par \in DOMAIN f
        BY <2>3, <2>4
      <3>3. Linked(f, Relink(f, par, old, new), par, side, new)
        BY <2>3, <2>4, <2>5, <3>1, <3>2, RelinkIs
      <3> QED BY <2>2, <3>3, Zenon
    <2>7. Forest(g, roots)
      <3>1. \A m \in DOMAIN f, s \in 1..2 : f[m].kid[s] # new
        BY <2>4 DEF Forest
      <3>2. f[par].kid[side] # NULL /\ par \in DOMAIN f
        BY <2>3, <2>4, NullIsNone
      <3>3. PICK more : more = roots \cup {new}
        OBVIOUS
      <3>4. Forest(f, more)
        BY <2>4, <3>3
      <3>5. Forest(g, more \ {new})
        BY <2>3, <2>4, <2>6, <3>1, <3>2, <3>4, GraftForest, ZenonT(60)
      <3>6. new \notin roots
        BY <2>4 DEF Forest
      <3>7. more \ {new} = roots
        BY <3>3, <3>6
      <3> QED BY <3>5, <3>7
    <2>8. ASSUME NEW s \in roots \ {t} PROVE Keeps(h, g, s)
      <3>1. ASSUME NEW n \in Nodes(h, s) PROVE n \in DOMAIN h /\ n # par
        BY <2>3, Apart, NodesAre
      <3>2. \A n \in DOMAIN h \ {par} : n \in DOMAIN g /\ g[n] = h[n]
        BY <2>4, <2>6 DEF Linked
      <3>3. s \in DOMAIN h /\ s \in DOMAIN g
        BY <2>4, <2>6 DEF Linked, Forest
      <3> QED BY <3>1, <3>2, <3>3 DEF Keeps
    <2>9. DOMAIN h \subseteq DOMAIN g
      BY <2>4, <2>6 DEF Linked
    <2> QED BY <2>1, <2>7, <2>8, <2>9
  <1> QED BY <1>1, <1>2

-----------------------------------------------------------------------------
\* Crossover.

\* Relinking a node of one tree keeps the others.
LEMMA LinkKeeps ==
  ASSUME NEW h, NEW roots, Forest(h, roots), NEW t \in roots, NEW g,
         NEW n \in Nodes(h, t), NEW side, NEW new, Linked(h, g, n, side, new),
         NEW s \in roots, s # t
  PROVE  Keeps(h, g, s)
  <1>1. \A m \in Nodes(h, s) : m \in DOMAIN h /\ m # n
    BY Apart, NodesAre
  <1>2. \A m \in DOMAIN h \ {n} : m \in DOMAIN g /\ g[m] = h[m]
    BY DEF Linked
  <1>3. s \in DOMAIN h /\ s \in DOMAIN g
    BY DEF Linked, Forest
  <1> QED BY <1>1, <1>2, <1>3 DEF Keeps

\* A node is its operator and its children.
LEMMA NodeEqual ==
  \A h, a, b : /\ a \in NodeOf(h) /\ b \in NodeOf(h) /\ a.op = b.op
               /\ \A side \in 1..2 : a.kid[side] = b.kid[side]
               => a = b
  BY DEF NodeOf

\* A relinked heap is determined by what is relinked.
LEMMA LinkedEqual ==
  ASSUME NEW h, NEW f, NEW g, NEW n, NEW side, NEW new,
         Linked(h, f, n, side, new), Linked(h, g, n, side, new)
  PROVE  f = g
  <1>1. DOMAIN f = DOMAIN h /\ DOMAIN g = DOMAIN h
    BY DEF Linked
  <1>2. \A m \in DOMAIN h : f[m] \in NodeOf(h) /\ g[m] \in NodeOf(h)
    BY DEF Linked
  <1>3. ASSUME NEW m \in DOMAIN h PROVE f[m] = g[m]
    <2>1. f[m].op = g[m].op /\ \A s \in 1..2 : f[m].kid[s] = g[m].kid[s]
      BY DEF Linked
    <2> QED BY <1>2, <2>1, NodeEqual
  <1>4. f = [m \in DOMAIN f |-> f[m]] /\ g = [m \in DOMAIN g |-> g[m]]
    BY DEF Linked
  <1> QED BY <1>1, <1>3, <1>4

\* One of the trees gives itself, whole, to the other.
LEMMA BredWhole ==
  ASSUME NEW h, NEW R, Forest(h, R), NEW r1 \in R, NEW r2 \in R, r1 # r2,
         NEW path \in Places(h, r1), path # <<>>,
         NEW x \in Bred(h, r1, parent(h, r1, path), Tree(h, r1)[path], r2)
  PROVE  /\ Forest(x, R \ {r2}) /\ Fits(x, r1)
         /\ \A s \in R \ {r1, r2} : Keeps(h, x, s)
  <1>1. PICK par, old, side, g, S :
           /\ par = parent(h, r1, path) /\ old = Tree(h, r1)[path] /\ side = Last(path)
           /\ g = Relink(h, par, old, r2) /\ S = R \ {r2}
    OBVIOUS
  <1>2. /\ par \in DOMAIN h /\ par \in Nodes(h, r1) /\ par # NULL /\ side \in 1..2 /\ old \in DOMAIN h
        /\ \A s \in 1..2 : h[par].kid[s] = old <=> s = side
    BY <1>1, ParentIs
  <1>3. /\ h \in [DOMAIN h -> NodeOf(h)] /\ r2 \in DOMAIN h
        /\ \A m \in DOMAIN h, s \in 1..2 : h[m].kid[s] # r2
    BY DEF Forest
  <1>4. Linked(h, g, par, side, r2)
    BY <1>1, <1>2, <1>3, RelinkIs
  <1>5. Forest(g, S)
    <2>1. h[par].kid[side] # NULL
      BY <1>2, NullIsNone
    <2>2. Forest(g, R \ {r2})
      BY <1>2, <1>3, <1>4, <2>1, GraftForest
    <2> QED BY <1>1, <2>2
  <1>6. PICK q, e : /\ q \in Places(g, r1) /\ e \in TREES /\ x = mutate(g, r1, q, e) /\ Fits(x, r1)
    BY <1>1, <1>2 DEF Bred
  <1>7. IsExpression(e) /\ r1 \in S
    BY <1>1, <1>6, TreesAssumption
  <1>8. Forest(x, S) /\ \A s \in S \ {r1} : Keeps(g, x, s)
    BY <1>5, <1>6, <1>7, MutateIs
  <1>9. \A s \in R \ {r1, r2} : Keeps(h, x, s)
    <2> TAKE s \in R \ {r1, r2}
    <2>1. Keeps(h, g, s)
      BY <1>2, <1>4, LinkKeeps
    <2>2. Keeps(g, x, s)
      BY <1>1, <1>8
    <2> QED BY <1>5, <2>1, <2>2, KeepsOn
  <1> QED BY <1>1, <1>6, <1>8, <1>9

\* After the exchange, the parent of the second place is still in the second tree.
LEMMA StillBelow ==
  ASSUME NEW h, NEW R, Forest(h, R), NEW r1 \in R, NEW r2 \in R, r1 # r2,
         NEW n1 \in Nodes(h, r1), NEW path2 \in Places(h, r2), path2 # <<>>,
         NEW n2, n2 = Tree(h, r2)[Front(path2)],
         NEW side1 \in 1..2, NEW new1, NEW new2, NEW L, NEW S,
         Linked(h, L, n1, side1, new1), Linked(L, S, n2, Last(path2), new2)
  PROVE  n2 \in Nodes(S, r2)
  <1> DEFINE T == Tree(h, r2)
             up2 == Front(path2)
             P == {x \in Places(h, r2) : Len(x) <= Len(up2)}
  <1>1. path2 \in DOMAIN Tree(h, r2) \ {<<>>} /\ r2 \in DOMAIN h
    BY DEF Places, Forest
  <1>2. /\ DOMAIN T \subseteq Paths /\ \A x \in DOMAIN T : T[x] \in DOMAIN h
        /\ \A x \in DOMAIN T \ {<<>>} :
             /\ Front(x) \in DOMAIN T /\ Last(x) \in 1..2 /\ Len(Front(x)) = Len(x) - 1
             /\ T[x] = h[T[Front(x)]].kid[Last(x)]
    BY <1>1, TreeSteps
  <1>3. up2 \in DOMAIN T /\ Len(up2) = Len(path2) - 1
    BY <1>1, <1>2
  <1>4. \A x \in DOMAIN T : Len(x) \in Nat
    BY <1>2, PathFacts
  <1>5. /\ DOMAIN L = DOMAIN h /\ DOMAIN S = DOMAIN h
        /\ \A m \in DOMAIN h : m # n1 => L[m] = h[m]
        /\ \A m \in DOMAIN h : m # n2 => S[m] = L[m]
        /\ \A s \in 1..2 : s # Last(path2) => S[n2].kid[s] = L[n2].kid[s]
    BY DEF Linked
  <1>6. \A x \in DOMAIN T : T[x] # n1
    <2> TAKE x \in DOMAIN T
    <2>1. T[x] \in Nodes(h, r2)
      BY DEF Nodes, Range
    <2> QED BY <2>1, Apart
  <1>7. \A x \in DOMAIN T : x # up2 => T[x] # n2
    <2> TAKE x \in DOMAIN T
    <2>1. x \in Places(h, r2) /\ up2 \in Places(h, r2)
      BY <1>3 DEF Places
    <2> HIDE DEF up2
    <2>2. Tree(h, r2)[x] = Tree(h, r2)[up2] => x = up2
      BY <2>1, OnePlace
    <2> QED BY <2>2 DEF up2
  <1>8. DOMAIN T = Places(h, r2)
    BY DEF Places
  <1>9. \A x \in P \ {<<>>} :
           /\ Front(x) \in P /\ Tree(h, r2)[x] \in DOMAIN S
           /\ S[Tree(h, r2)[Front(x)]].kid[Last(x)] = Tree(h, r2)[x]
    <2> TAKE x \in P \ {<<>>}
    <2>1. /\ x \in DOMAIN T /\ Front(x) \in DOMAIN T /\ Len(Front(x)) = Len(x) - 1
          /\ Len(x) <= Len(up2) /\ T[x] = h[T[Front(x)]].kid[Last(x)]
      BY <1>2, <1>8
    <2>2. Len(Front(x)) <= Len(up2) /\ Front(x) # up2
      BY <1>3, <1>4, <2>1
    <2>3. Front(x) \in P
      BY <1>8, <2>1, <2>2
    <2>4. T[Front(x)] # n1 /\ T[Front(x)] # n2 /\ T[Front(x)] \in DOMAIN h
      <3>1. PICK u : u = Front(x)
        OBVIOUS
      <3>2. u \in DOMAIN T /\ u # up2
        BY <2>1, <2>2, <3>1
      <3> QED BY <1>2, <1>6, <1>7, <3>1, <3>2
    <2>5. S[T[Front(x)]] = h[T[Front(x)]]
      BY <1>5, <2>4
    <2> QED BY <1>2, <1>5, <2>1, <2>3, <2>5
  <1>10. up2 \in P
    BY <1>3, <1>4, <1>8
  <1>11. P \in SUBSET Places(h, r2)
    OBVIOUS
  <1>12. r2 \in DOMAIN S
    BY <1>1, <1>5
  <1>13. \A x \in P : x \in Places(S, r2) /\ Tree(S, r2)[x] = Tree(h, r2)[x]
    <2> HIDE DEF P
    <2>1. \A x \in P \ {<<>>} : Front(x) \in P
      BY <1>9
    <2>2. \A x \in P \ {<<>>} :
             /\ Tree(h, r2)[x] \in DOMAIN S
             /\ S[Tree(h, r2)[Front(x)]].kid[Last(x)] = Tree(h, r2)[x]
      BY <1>9
    <2> QED BY <1>11, <1>12, <2>1, <2>2, SameDownTo, SMTT(30)
  <1>14. up2 \in Places(S, r2) /\ Tree(S, r2)[up2] = n2
    BY <1>10, <1>13
  <1> QED BY <1>14 DEF Nodes, Range, Places

\* A mutation may come before or after another tree's node is relinked.
LEMMA MutateMeanwhile ==
  ASSUME NEW L, NEW S, NEW R, Forest(S, R), NEW n, NEW side, NEW new,
         L \in [DOMAIN L -> NodeOf(L)], Linked(L, S, n, side, new), n \in DOMAIN L,
         NEW r \in R, n \notin Nodes(S, r),
         NEW path \in Places(L, r), NEW e, IsExpression(e)
  PROVE  /\ path \in Places(S, r)
         /\ Linked(mutate(L, r, path, e), mutate(S, r, path, e), n, side, new)
         /\ n \in DOMAIN mutate(L, r, path, e) /\ mutate(L, r, path, e)[n] = L[n]
         /\ mutate(L, r, path, e) \in
              [DOMAIN mutate(L, r, path, e) -> NodeOf(mutate(L, r, path, e))]
  <1>1. /\ DOMAIN S = DOMAIN L /\ \A m \in DOMAIN L \ {n} : S[m] = L[m]
        /\ S \in [DOMAIN L -> NodeOf(L)]
    BY DEF Linked
  <1>2. Tree(L, r) = Tree(S, r)
    <2>1. r \in DOMAIN S
      BY DEF Forest
    <2>2. \A m \in Nodes(S, r) : L[m] = S[m]
      BY <1>1, NodesAre
    <2> QED BY <1>1, <2>1, <2>2, SameTree
  <1>3. path \in Places(S, r)
    BY <1>2 DEF Places
  <1>4. CASE path = <<>>
    <2>1. mutate(L, r, path, e) = L /\ mutate(S, r, path, e) = S
      BY <1>4 DEF mutate
    <2> QED BY <1>3, <2>1
  <1>5. CASE path # <<>>
    <2>1. PICK q, old, v, b, t, f, g, x, y :
             /\ q = parent(S, r, path) /\ old = Tree(S, r)[path] /\ v = Last(path)
             /\ b = LowestFree(S, e) /\ t = Build(S, e).root
             /\ f = Build(L, e).heap /\ g = Build(S, e).heap
             /\ x = mutate(L, r, path, e) /\ y = mutate(S, r, path, e)
      OBVIOUS
    <2>2. b = LowestFree(L, e)
      BY <1>1, <2>1 DEF LowestFree, Free
    <2>3. <<>> \in DOMAIN e
      BY ExpressionFacts
    <2>4. IsFiniteSet(DOMAIN L) /\ IsFiniteSet(DOMAIN S)
      BY <1>1 DEF Forest
    <2>5. L = [m \in DOMAIN L |-> L[m]] /\ S = [m \in DOMAIN S |-> S[m]]
      BY <1>1
    <2>6. Made(S, g, e, b) /\ t = <<b, <<>>>>
      BY <2>1, <2>3, <2>4, <2>5, BuildMakes
    <2>7. Made(L, f, e, b) /\ Build(L, e).root = t
      BY <2>1, <2>2, <2>3, <2>4, <2>5, <2>6, BuildMakes
    <2>8. x = Relink(f, q, old, t) /\ y = Relink(g, q, old, t)
      <3>1. parent(L, r, path) = q
        BY <1>2, <2>1 DEF parent
      <3> QED BY <1>2, <1>5, <2>1, <2>7, <3>1 DEF mutate
    <2>9. /\ q \in DOMAIN S /\ q \in Nodes(S, r) /\ q # n /\ v \in 1..2
          /\ \A s \in 1..2 : S[q].kid[s] = old <=> s = v
      BY <1>3, <1>5, <2>1, ParentIs
    <2>10. /\ DOMAIN f = DOMAIN g /\ DOMAIN S \subseteq DOMAIN g
           /\ \A m \in DOMAIN S : f[m] = L[m] /\ g[m] = S[m]
           /\ t \in DOMAIN g
      BY <1>1, <2>3, <2>6, <2>7 DEF Made
    <2>11. \A m \in DOMAIN g \ DOMAIN S : f[m] = g[m]
      <3> TAKE m \in DOMAIN g \ DOMAIN S
      <3>1. PICK a \in DOMAIN e : m = <<b, a>>
        BY <2>6 DEF Made
      <3>2. PICK N : N = [op : {e[a]}, kid : [1..2 -> DOMAIN g \cup {NULL}]]
        OBVIOUS
      <3>3. g[m] \in N /\ f[m] \in N
        BY <2>6, <2>7, <2>10, <3>1, <3>2 DEF Made
      <3>4. \A s \in 1..2 : f[m].kid[s] = g[m].kid[s]
        <4>1. \A s \in 1..2 : g[m].kid[s] =
                 IF Append(a, s) \in DOMAIN e THEN <<b, Append(a, s)>> ELSE NULL
          BY <2>6, <3>1 DEF Made
        <4>2. \A s \in 1..2 : f[m].kid[s] =
                 IF Append(a, s) \in DOMAIN e THEN <<b, Append(a, s)>> ELSE NULL
          BY <2>7, <3>1 DEF Made
        <4> QED BY <4>1, <4>2
      <3> QED BY <3>2, <3>3, <3>4
    <2>12. g \in [DOMAIN g -> NodeOf(g)]
      <3>1. Forest(g, R \cup {t})
        BY <2>6, MadeForest
      <3> QED BY <3>1 DEF Forest
    <2>13. f \in [DOMAIN f -> NodeOf(f)]
      <3>1. \A m \in DOMAIN S : f[m] \in NodeOf(g)
        <4>1. \A m \in DOMAIN S : L[m] \in NodeOf(L)
          BY <1>1
        <4>2. NodeOf(L) \subseteq NodeOf(g)
          BY <1>1, <2>10 DEF NodeOf
        <4> QED BY <2>10, <4>1, <4>2
      <3>2. \A m \in DOMAIN g \ DOMAIN S : f[m] \in NodeOf(g)
        BY <2>11, <2>12
      <3>3. NodeOf(f) = NodeOf(g)
        BY <2>10 DEF NodeOf
      <3>4. f = [m \in DOMAIN f |-> f[m]]
        BY <2>7 DEF Made
      <3> QED BY <2>10, <3>1, <3>2, <3>3, <3>4
    <2>14. Linked(g, y, q, v, t)
      <3>1. q \in DOMAIN g /\ \A s \in 1..2 : g[q].kid[s] = old <=> s = v
        BY <2>9, <2>10
      <3>2. Linked(g, Relink(g, q, old, t), q, v, t)
        BY <2>9, <2>10, <2>12, <3>1, RelinkIs
      <3> QED BY <2>8, <3>2, Zenon
    <2>15. Linked(f, x, q, v, t)
      <3>1. q \in DOMAIN f /\ \A s \in 1..2 : f[q].kid[s] = old <=> s = v
        BY <1>1, <2>9, <2>10
      <3>2. Linked(f, Relink(f, q, old, t), q, v, t)
        BY <2>9, <2>10, <2>13, <3>1, RelinkIs
      <3> QED BY <2>8, <3>2, Zenon
    <2>16. /\ DOMAIN x = DOMAIN f /\ DOMAIN y = DOMAIN f /\ NodeOf(x) = NodeOf(y)
           /\ \A m \in DOMAIN f : x[m] \in NodeOf(y) /\ y[m] \in NodeOf(y)
           /\ y = [m \in DOMAIN y |-> y[m]]
      BY <2>10, <2>14, <2>15 DEF Linked, NodeOf
    <2>17. \A m \in DOMAIN f : m # n => f[m] = g[m]
      BY <1>1, <2>10, <2>11
    <2>18. \A m \in DOMAIN f : m # n => y[m] = x[m]
      <3> TAKE m \in DOMAIN f
      <3> SUFFICES ASSUME m # n PROVE y[m] = x[m]
        OBVIOUS
      <3>1. CASE m # q
        BY <2>10, <2>14, <2>15, <2>17, <3>1 DEF Linked
      <3>2. CASE m = q
        <4>1. f[q] = g[q]
          BY <2>17, <3>2
        <4>2. y[q].op = x[q].op /\ \A s \in 1..2 : y[q].kid[s] = x[q].kid[s]
          BY <2>14, <2>15, <4>1 DEF Linked
        <4> QED BY <2>16, <3>2, <4>2, NodeEqual
      <3> QED BY <3>1, <3>2
    <2>19. n \in DOMAIN f /\ x[n] = L[n] /\ y[n] = S[n]
      BY <1>1, <2>9, <2>10, <2>14, <2>15 DEF Linked
    <2>20. Linked(x, y, n, side, new)
      <3>1. S[n].op = L[n].op /\ S[n].kid[side] = new
        BY DEF Linked
      <3>2. \A s \in 1..2 \ {side} : S[n].kid[s] = L[n].kid[s]
        BY DEF Linked
      <3>3. y \in [DOMAIN x -> NodeOf(x)]
        BY <2>16
      <3> QED BY <2>16, <2>18, <2>19, <3>1, <3>2, <3>3 DEF Linked
    <2>21. x \in [DOMAIN x -> NodeOf(x)]
      <3>1. x \in [DOMAIN f -> NodeOf(f)]
        BY <2>15 DEF Linked
      <3>2. NodeOf(f) = NodeOf(x)
        BY <2>16 DEF NodeOf
      <3> QED BY <2>16, <3>1, <3>2
    <2> QED BY <1>3, <2>1, <2>16, <2>19, <2>20, <2>21
  <1> QED BY <1>4, <1>5

\* The two trees exchange subtrees, and both mutate.
LEMMA BredBoth ==
  ASSUME NEW h, NEW R, Forest(h, R), NEW r1 \in R, NEW r2 \in R, r1 # r2,
         NEW path1 \in Places(h, r1), path1 # <<>>, NEW path2 \in Places(h, r2), path2 # <<>>,
         NEW x1 \in Bred(h, r1, parent(h, r1, path1), Tree(h, r1)[path1], Tree(h, r2)[path2]),
         NEW x2 \in Bred(x1, r2, parent(h, r2, path2), Tree(h, r2)[path2], Tree(h, r1)[path1])
  PROVE  /\ Forest(x2, R) /\ Fits(x2, r1) /\ Fits(x2, r2)
         /\ \A s \in R \ {r1, r2} : Keeps(h, x2, s)
  <1>1. PICK n1, n2, sub1, sub2, v1, v2 :
           /\ n1 = parent(h, r1, path1) /\ sub1 = Tree(h, r1)[path1] /\ v1 = Last(path1)
           /\ n2 = parent(h, r2, path2) /\ sub2 = Tree(h, r2)[path2] /\ v2 = Last(path2)
    OBVIOUS
  <1>2. /\ n1 \in DOMAIN h /\ n1 \in Nodes(h, r1) /\ n1 # NULL /\ v1 \in 1..2 /\ sub1 \in DOMAIN h
        /\ \A s \in 1..2 : h[n1].kid[s] = sub1 <=> s = v1
    BY <1>1, ParentIs
  <1>3. /\ n2 \in DOMAIN h /\ n2 \in Nodes(h, r2) /\ n2 # NULL /\ v2 \in 1..2 /\ sub2 \in DOMAIN h
        /\ n2 = Tree(h, r2)[Front(path2)]
        /\ \A s \in 1..2 : h[n2].kid[s] = sub2 <=> s = v2
    BY <1>1, ParentIs
  <1>4. n1 # n2
    BY <1>2, <1>3, Apart
  <1>5. h \in [DOMAIN h -> NodeOf(h)]
    BY DEF Forest
  <1>6. PICK L, S : L = Relink(h, n1, sub1, sub2) /\ S = Relink(L, n2, sub2, sub1)
    OBVIOUS
  <1>7. Linked(h, L, n1, v1, sub2)
    BY <1>2, <1>3, <1>5, <1>6, RelinkIs
  <1>8. /\ DOMAIN L = DOMAIN h /\ L \in [DOMAIN L -> NodeOf(L)] /\ L[n2] = h[n2]
    BY <1>3, <1>4, <1>7 DEF Linked, NodeOf
  <1>9. Linked(L, S, n2, v2, sub1)
    <2>1. n2 \in DOMAIN L /\ sub1 \in DOMAIN L /\ \A s \in 1..2 : L[n2].kid[s] = sub2 <=> s = v2
      BY <1>2, <1>3, <1>8
    <2>2. Linked(L, Relink(L, n2, sub2, sub1), n2, v2, sub1)
      BY <1>3, <1>8, <2>1, RelinkIs
    <2> QED BY <1>6, <2>2, Zenon
  <1>10. Forest(S, R)
    <2>1. h[n1].kid[v1] = sub1 /\ h[n2].kid[v2] = sub2
      BY <1>2, <1>3
    <2> QED BY <1>2, <1>3, <1>4, <1>7, <1>9, <2>1, SwapForest
  <1>11. n2 \in Nodes(S, r2)
    <2>1. Linked(L, S, n2, Last(path2), sub1)
      BY <1>1, <1>9
    <2> QED BY <1>2, <1>3, <1>7, <2>1, StillBelow
  <1>12. n2 \notin Nodes(S, r1)
    BY <1>10, <1>11, Apart
  <1>13. PICK q1, e1 : q1 \in Places(L, r1) /\ e1 \in TREES /\ x1 = mutate(L, r1, q1, e1) /\ Fits(x1, r1)
    BY <1>1, <1>2, <1>6 DEF Bred
  <1>14. IsExpression(e1)
    BY <1>13, TreesAssumption
  <1>15. PICK M : M = mutate(S, r1, q1, e1)
    OBVIOUS
  <1>16. /\ q1 \in Places(S, r1) /\ Linked(x1, M, n2, v2, sub1)
         /\ n2 \in DOMAIN x1 /\ x1[n2] = L[n2] /\ x1 \in [DOMAIN x1 -> NodeOf(x1)]
    BY <1>3, <1>8, <1>9, <1>10, <1>12, <1>13, <1>14, <1>15, MutateMeanwhile
  <1>17. Forest(M, R) /\ DOMAIN S \subseteq DOMAIN M /\ \A s \in R \ {r1} : Keeps(S, M, s)
    BY <1>10, <1>14, <1>15, <1>16, MutateIs
  <1>18. n2 \in Nodes(M, r2) /\ n2 \notin Nodes(M, r1)
    <2>1. Keeps(S, M, r2)
      BY <1>17
    <2>2. Nodes(M, r2) = Nodes(S, r2)
      BY <1>10, <1>17, <2>1, KeptTree
    <2> QED BY <1>11, <1>17, <2>2, Apart
  <1>19. /\ DOMAIN M = DOMAIN x1 /\ \A m \in DOMAIN x1 \ {n2} : M[m] = x1[m]
    BY <1>16 DEF Linked
  <1>20. Fits(M, r1)
    <2>1. r1 \in DOMAIN M
      BY <1>17 DEF Forest
    <2>2. \A m \in Nodes(M, r1) : x1[m] = M[m]
      BY <1>18, <1>19, NodesAre
    <2>3. Tree(x1, r1) = Tree(M, r1)
      BY <1>19, <2>1, <2>2, SameTree
    <2> QED BY <1>13, <2>3 DEF Fits, Places
  <1>21. Relink(x1, n2, sub2, sub1) = M
    <2>1. x1 \in [DOMAIN x1 -> NodeOf(x1)]
      BY <1>16
    <2>2. \A s \in 1..2 : x1[n2].kid[s] = sub2 <=> s = v2
      BY <1>3, <1>8, <1>16
    <2>3. sub1 \in DOMAIN x1
      <3>1. DOMAIN S = DOMAIN h
        BY <1>8, <1>9 DEF Linked
      <3> QED BY <1>2, <1>17, <1>19, <3>1
    <2>4. Linked(x1, Relink(x1, n2, sub2, sub1), n2, v2, sub1)
      BY <1>3, <1>16, <2>1, <2>2, <2>3, RelinkIs
    <2> QED BY <1>16, <2>4, LinkedEqual
  <1>22. PICK q2, e2 : q2 \in Places(M, r2) /\ e2 \in TREES /\ x2 = mutate(M, r2, q2, e2) /\ Fits(x2, r2)
    BY <1>1, <1>3, <1>21 DEF Bred
  <1>23. IsExpression(e2)
    BY <1>22, TreesAssumption
  <1>24. Forest(x2, R) /\ \A s \in R \ {r2} : Keeps(M, x2, s)
    BY <1>17, <1>22, <1>23, MutateIs
  <1>25. Fits(x2, r1)
    <2>1. Keeps(M, x2, r1)
      BY <1>24
    <2> QED BY <1>17, <1>20, <1>24, <2>1, KeptTree
  <1>26. \A s \in R \ {r1, r2} : Keeps(h, x2, s)
    <2> TAKE s \in R \ {r1, r2}
    <2>1. \A m \in Nodes(h, s) : m \in DOMAIN h /\ m # n1 /\ m # n2
      BY <1>2, <1>3, Apart, NodesAre
    <2>2. \A m \in DOMAIN h \ {n1, n2} : m \in DOMAIN S /\ S[m] = h[m]
      BY <1>7, <1>9 DEF Linked
    <2>3. Keeps(h, S, s)
      BY <1>10, <2>1, <2>2 DEF Keeps, Forest
    <2>4. Keeps(S, M, s) /\ Keeps(M, x2, s)
      BY <1>17, <1>24
    <2>5. Keeps(h, M, s)
      BY <1>10, <2>3, <2>4, KeepsOn
    <2> QED BY <1>17, <2>4, <2>5, KeepsOn
  <1> QED BY <1>22, <1>24, <1>25, <1>26

-----------------------------------------------------------------------------
\* Nodes are dropped.

\* Some of the trees of a forest are a forest.
LEMMA FewerRoots ==
  ASSUME NEW h, NEW R, Forest(h, R), NEW S, S \subseteq R
  PROVE  Forest(h, S)
  <1>1. S \subseteq DOMAIN h /\ \A n \in DOMAIN h, s \in 1..2 : h[n].kid[s] \notin S
    BY DEF Forest
  <1> QED BY <1>1 DEF Forest

\* Part of a forest that no node of it leaves is a forest.
LEMMA RestrictForest ==
  ASSUME NEW h, NEW R, Forest(h, R), NEW D, D \subseteq DOMAIN h,
         \A n \in D, s \in 1..2 : h[n].kid[s] \in D \cup {NULL},
         NEW S, S \subseteq R, S \subseteq D
  PROVE  Forest(Restrict(h, D), S)
  <1>1. PICK g : g = Restrict(h, D)
    OBVIOUS
  <1>2. DOMAIN g = D /\ \A n \in D : g[n] = h[n] /\ n \in DOMAIN h
    BY <1>1 DEF Restrict
  <1>3. g = [n \in D |-> g[n]]
    BY <1>1 DEF Restrict
  <1>4. IsFiniteSet(D) /\ D \subseteq (Nat \ {0}) \X Paths
    <2>1. IsFiniteSet(DOMAIN h) /\ DOMAIN h \subseteq (Nat \ {0}) \X Paths
      BY DEF Forest
    <2>2. IsFiniteSet(D)
      BY <2>1, FS_Subset
    <2> QED BY <2>1, <2>2
  <1>5. \A n \in D : g[n] \in NodeOf(g)
    <2> TAKE n \in D
    <2>1. h[n] \in [op : DOMAIN Arity, kid : [1..2 -> DOMAIN h \cup {NULL}]]
      BY <1>2 DEF Forest, NodeOf
    <2>2. h[n].kid \in [1..2 -> D \cup {NULL}]
      BY <2>1
    <2>3. h[n] \in [op : DOMAIN Arity, kid : [1..2 -> D \cup {NULL}]]
      BY <2>1, <2>2
    <2> QED BY <1>2, <2>3 DEF NodeOf
  <1>6. g \in [DOMAIN g -> NodeOf(g)]
    BY <1>2, <1>3, <1>5
  <1>7. \A n \in DOMAIN g : Cardinality({side \in 1..2 : g[n].kid[side] # NULL}) = Arity[g[n].op]
    <2>1. \A n \in D : Cardinality({side \in 1..2 : h[n].kid[side] # NULL}) = Arity[h[n].op]
      BY DEF Forest
    <2> QED BY <1>2, <2>1
  <1>8. ASSUME NEW n \in D, NEW m \in D, NEW s \in 1..2, NEW u \in 1..2,
               g[n].kid[s] = g[m].kid[u], g[n].kid[s] # NULL
        PROVE  n = m /\ s = u
    <2>1. h[n].kid[s] = h[m].kid[u] /\ h[n].kid[s] # NULL
      BY <1>2, <1>8
    <2> QED BY <1>2, <2>1, OneParent
  <1>9. \A n \in D, s \in 1..2 : g[n].kid[s] \notin S
    BY <1>2 DEF Forest
  <1>10. Forest(g, S)
    BY <1>2, <1>4, <1>6, <1>7, <1>8, <1>9 DEF Forest
  <1> QED BY <1>1, <1>10

\* The trees that are kept are a forest.
LEMMA KeptIs ==
  ASSUME NEW h, NEW R, Forest(h, R), \A t \in R : Fits(h, t)
  PROVE  Forest(Kept(h, R), R) /\ \A t \in R : Keeps(h, Kept(h, R), t)
  <1> DEFINE D == UNION {Nodes(h, t) : t \in R}
  <1>1. D \subseteq DOMAIN h
    BY NodesAre
  <1>2. \A t \in R : t \in Nodes(h, t)
    <2> TAKE t \in R
    <2>1. t \in DOMAIN h
      BY DEF Forest
    <2> QED BY <2>1, RootIsNode
  <1>3. ASSUME NEW n \in D, NEW s \in 1..2 PROVE h[n].kid[s] \in D \cup {NULL}
    <2>1. PICK t \in R : n \in Nodes(h, t)
      OBVIOUS
    <2>2. PICK T : T = Tree(h, t)
      OBVIOUS
    <2>3. PICK a \in DOMAIN T : n = T[a]
      BY <2>1, <2>2 DEF Nodes, Range
    <2>4. Len(a) < MAXHEIGHT
      BY <2>2, <2>3 DEF Fits, Places
    <2>5. n \in DOMAIN h
      BY <1>1
    <2>6. CASE h[n].kid[s] = NULL
      BY <2>6
    <2>7. CASE h[n].kid[s] # NULL
      <3>1. h[n].kid[s] \in DOMAIN h
        BY <2>5, <2>7, NullIsNone
      <3>2. Append(a, s) \in DOMAIN T /\ T[Append(a, s)] = h[n].kid[s]
        BY <2>2, <2>3, <2>4, <3>1, TreeSteps
      <3>3. h[n].kid[s] \in Nodes(h, t)
        BY <2>2, <3>2 DEF Nodes, Range
      <3> QED BY <3>3
    <2> QED BY <2>6, <2>7
  <1>4. R \subseteq D
    BY <1>2
  <1>5. Kept(h, R) = Restrict(h, D)
    BY DEF Kept
  <1>6. \A t \in R : Nodes(h, t) \subseteq D
    OBVIOUS
  <1> HIDE DEF D
  <1>7. Forest(Restrict(h, D), R)
    BY <1>1, <1>3, <1>4, RestrictForest
  <1>8. DOMAIN Restrict(h, D) = D /\ \A n \in D : Restrict(h, D)[n] = h[n]
    BY DEF Restrict
  <1>9. \A t \in R : Keeps(h, Restrict(h, D), t)
    BY <1>1, <1>4, <1>6, <1>8 DEF Keeps
  <1> QED BY <1>5, <1>7, <1>9

\* Nothing else refers to a tree that is deleted.
LEMMA DeleteIs ==
  ASSUME NEW h, NEW R, Forest(h, R), NEW t \in R
  PROVE  Forest(Delete(h, t), R \ {t}) /\ \A s \in R \ {t} : Keeps(h, Delete(h, t), s)
  <1> DEFINE D == DOMAIN h \ Nodes(h, t)
             T == Tree(h, t)
  <1>1. ASSUME NEW n \in D, NEW s \in 1..2 PROVE h[n].kid[s] \in D \cup {NULL}
    <2>1. h[n].kid[s] \in DOMAIN h \cup {NULL}
      BY DEF Forest, NodeOf
    <2> SUFFICES ASSUME h[n].kid[s] # NULL, h[n].kid[s] \in Nodes(h, t) PROVE FALSE
      BY <2>1
    <2>2. PICK a \in DOMAIN T : h[n].kid[s] = T[a]
      BY DEF Nodes, Range
    <2>3. t \in DOMAIN h /\ h[n].kid[s] # t /\ n \in DOMAIN h
      BY DEF Forest
    <2>4. /\ T[<<>>] = t
          /\ a # <<>> => /\ Front(a) \in DOMAIN T /\ Last(a) \in 1..2
                         /\ T[a] = h[T[Front(a)]].kid[Last(a)]
          /\ \A x \in DOMAIN T : T[x] \in DOMAIN h
      BY <2>3, TreeSteps
    <2>5. PICK up, v : up = Front(a) /\ v = Last(a)
      OBVIOUS
    <2> HIDE DEF T
    <2>6. up \in DOMAIN T /\ T[up] \in DOMAIN h /\ v \in 1..2 /\ h[n].kid[s] = h[T[up]].kid[v]
      BY <2>2, <2>3, <2>4, <2>5
    <2>7. T[up] = n
      BY <2>3, <2>6, OneParent
    <2> USE DEF T
    <2>8. n \in Nodes(h, t)
      BY <2>6, <2>7 DEF Nodes, Range
    <2> QED BY <2>8
  <1>2. R \ {t} \subseteq D
    <2> SUFFICES ASSUME NEW s \in R, s # t PROVE s \in D
      OBVIOUS
    <2>1. s \in DOMAIN h
      BY DEF Forest
    <2>2. s \in Nodes(h, s)
      BY <2>1, RootIsNode
    <2> QED BY <2>1, <2>2, Apart
  <1>3. Delete(h, t) = Restrict(h, D)
    BY DEF Delete
  <1>4. \A s \in R \ {t} : Nodes(h, s) \subseteq D
    BY Apart, NodesAre
  <1>5. D \subseteq DOMAIN h
    OBVIOUS
  <1>6. \A s \in R \ {t} : s \in DOMAIN h
    BY DEF Forest
  <1> HIDE DEF D, T
  <1>7. Forest(Restrict(h, D), R \ {t})
    <2>1. PICK S : S = R \ {t}
      OBVIOUS
    <2>2. S \subseteq R /\ S \subseteq D
      BY <1>2, <2>1
    <2>3. Forest(Restrict(h, D), S)
      BY <1>1, <1>5, <2>2, RestrictForest
    <2> QED BY <2>1, <2>3
  <1>8. DOMAIN Restrict(h, D) = D /\ \A n \in D : Restrict(h, D)[n] = h[n]
    BY DEF Restrict
  <1>9. \A s \in R \ {t} : Keeps(h, Restrict(h, D), s)
    BY <1>2, <1>4, <1>6, <1>8 DEF Keeps
  <1> QED BY <1>3, <1>7, <1>9

-----------------------------------------------------------------------------
\* A mating.

Address == (Nat \ {0}) \X Paths

\* x is h with the new trees, next to those with the roots R; the others may have gone.
Bears(h, R, new, x) ==
    /\ \A k \in 1..Len(new) : new[k] \notin DOMAIN h
    /\ \A k, l \in 1..Len(new) : k # l => new[k] # new[l]
    /\ Forest(x, R \cup Range(new))
    /\ \A t \in R \cup Range(new) : Fits(x, t)
    /\ \A t \in R : Keeps(h, x, t)

\* crossover() adds offspring that are new trees and leaves the trees of the population as
\* they were, whatever nodes it exchanges and mutates.
LEMMA CrossoverIs ==
  ASSUME NEW R, Forest(heap, R), \A t \in R : Fits(heap, t), NEW t1 \in R, NEW t2 \in R,
         crossover(t1, t2)
  PROVE  \E new, x :
            /\ new \in Seq(Address)
            /\ offsprings' = offsprings \o new
            /\ heap' = Kept(x, Range(population) \cup Range(offsprings'))
            /\ Bears(heap, R, new, x)
  <1>1. PICK r1, f, r2, h :
           /\ r1 = copy(heap, t1).root /\ f = copy(heap, t1).heap
           /\ r2 = copy(f, t2).root /\ h = copy(f, t2).heap
    OBVIOUS
  <1>2. t1 \in DOMAIN heap /\ t2 \in DOMAIN heap /\ R \subseteq DOMAIN heap
    BY DEF Forest
  <1>3. /\ r1 \notin DOMAIN heap /\ r1 \in DOMAIN f /\ r1 \in Address
        /\ Forest(f, R \cup {r1}) /\ DOMAIN heap \subseteq DOMAIN f
        /\ \A s \in DOMAIN heap : Keeps(heap, f, s)
        /\ Fits(f, r1)
    <2>1. PICK e : e = Exp(heap, t1)
      OBVIOUS
    <2>2. IsExpression(e)
      BY <1>2, <2>1, ExpIs
    <2>3. r1 = Build(heap, e).root /\ f = Build(heap, e).heap
      BY <1>1, <2>1 DEF copy
    <2>4. /\ Build(heap, e).root \notin DOMAIN heap
          /\ Build(heap, e).root \in DOMAIN Build(heap, e).heap
          /\ Build(heap, e).root \in (Nat \ {0}) \X Paths
          /\ Forest(Build(heap, e).heap, R \cup {Build(heap, e).root})
          /\ DOMAIN heap \subseteq DOMAIN Build(heap, e).heap
          /\ \A s \in DOMAIN heap : Keeps(heap, Build(heap, e).heap, s)
          /\ Fits(Build(heap, e).heap, Build(heap, e).root)
      BY <2>2, BuildIs
    <2> QED BY <2>3, <2>4 DEF Address
  <1>4. \A t \in R : Fits(f, t)
    <2> TAKE t \in R
    <2>1. Keeps(heap, f, t) /\ Fits(heap, t)
      BY <1>2, <1>3
    <2> QED BY <1>3, <2>1, KeptTree
  <1>5. PICK Q : Q = R \cup {r1}
    OBVIOUS
  <1>6. PICK RR : RR = R \cup {r1, r2}
    OBVIOUS
  <1>7. /\ r2 \notin DOMAIN f /\ r2 \in Address /\ Forest(h, RR)
        /\ \A s \in DOMAIN f : Keeps(f, h, s)
        /\ Fits(h, r2)
    <2>1. PICK e : e = Exp(f, t2)
      OBVIOUS
    <2>2. t2 \in DOMAIN f /\ Fits(f, t2) /\ Forest(f, Q)
      BY <1>2, <1>3, <1>4, <1>5
    <2>3. IsExpression(e)
      BY <2>1, <2>2, ExpIs
    <2>4. r2 = Build(f, e).root /\ h = Build(f, e).heap
      BY <1>1, <2>1 DEF copy
    <2>5. /\ Build(f, e).root \notin DOMAIN f
          /\ Build(f, e).root \in (Nat \ {0}) \X Paths
          /\ Forest(Build(f, e).heap, Q \cup {Build(f, e).root})
          /\ \A s \in DOMAIN f : Keeps(f, Build(f, e).heap, s)
          /\ Fits(Build(f, e).heap, Build(f, e).root)
      BY <2>2, <2>3, BuildIs
    <2>6. Q \cup {r2} = RR
      BY <1>5, <1>6
    <2> QED BY <2>4, <2>5, <2>6 DEF Address
  <1>8. \A t \in R : Keeps(heap, h, t) /\ Fits(h, t)
    <2> TAKE t \in R
    <2>1. Keeps(heap, f, t) /\ Keeps(f, h, t) /\ Fits(f, t)
      BY <1>2, <1>3, <1>4, <1>7
    <2>2. Keeps(heap, h, t)
      BY <1>3, <2>1, KeepsOn
    <2> QED BY <1>3, <1>7, <2>1, <2>2, KeptTree
  <1>9. /\ r1 # r2 /\ r1 \in RR /\ r2 \in RR /\ r1 \notin R /\ r2 \notin R /\ r2 \notin DOMAIN heap
    BY <1>2, <1>3, <1>6, <1>7
  <1>10. Fits(h, r1)
    <2>1. Keeps(f, h, r1)
      BY <1>3, <1>7
    <2> QED BY <1>3, <1>7, <2>1, KeptTree
  <1>11. PICK path1, path2, new, h1, h2 :
            /\ path1 \in Places(h, r1) /\ path2 \in Places(h, r2)
            /\ new = (IF parent(h, r1, path1) = NULL THEN <<>> ELSE <<r1>>)
                     \o (IF parent(h, r2, path2) = NULL THEN <<>> ELSE <<r2>>)
            /\ h1 \in Bred(h, r1, parent(h, r1, path1), Tree(h, r1)[path1], Tree(h, r2)[path2])
            /\ h2 \in Bred(h1, r2, parent(h, r2, path2), Tree(h, r2)[path2], Tree(h, r1)[path1])
            /\ offsprings' = offsprings \o new
            /\ heap' = Kept(h2, Range(population) \cup Range(offsprings'))
    BY <1>1, ZenonT(60) DEF crossover
  <1>0. path1 \in Places(h, r1) /\ path2 \in Places(h, r2)
    BY <1>11
  <1>12. /\ path1 = <<>> => parent(h, r1, path1) = NULL /\ Tree(h, r1)[path1] = r1
         /\ path2 = <<>> => parent(h, r2, path2) = NULL /\ Tree(h, r2)[path2] = r2
    <2>1. r1 \in DOMAIN h /\ r2 \in DOMAIN h
      BY <1>7, <1>9 DEF Forest
    <2> QED BY <2>1, TreeSteps DEF parent
  <1>13. path1 # <<>> => parent(h, r1, path1) # NULL
    BY <1>0, <1>7, ParentIs
  <1>14. path2 # <<>> => parent(h, r2, path2) # NULL
    BY <1>0, <1>7, ParentIs
  <1>15. CASE path1 = <<>> /\ path2 = <<>>
    <2>1. new = <<>> /\ new \in Seq(Address)
      BY <1>11, <1>12, <1>15
    <2>2. h2 = h
      BY <1>11, <1>12, <1>15 DEF Bred
    <2>3. R \cup Range(new) = R /\ Len(new) = 0
      BY <2>1 DEF Range
    <2>4. Forest(h2, R \cup Range(new))
      BY <1>6, <1>7, <2>2, <2>3, FewerRoots
    <2>5. \A t \in R \cup Range(new) : Fits(h2, t)
      BY <1>8, <2>2, <2>3
    <2>6. \A k \in 1..Len(new) : FALSE
      BY <2>3
    <2>7. Bears(heap, R, new, h2)
      BY <1>8, <2>2, <2>4, <2>5, <2>6 DEF Bears
    <2> QED BY <1>11, <2>1, <2>7
  <1>16. CASE path1 # <<>> /\ path2 = <<>>
    <2>1. new = <<r1>> /\ new \in Seq(Address)
      BY <1>3, <1>11, <1>12, <1>13, <1>16
    <2>2. h1 \in Bred(h, r1, parent(h, r1, path1), Tree(h, r1)[path1], r2)
      BY <1>11, <1>12, <1>16
    <2>3. h2 = h1
      BY <1>11, <1>12, <1>16 DEF Bred
    <2>4. /\ Forest(h1, RR \ {r2}) /\ Fits(h1, r1)
          /\ \A s \in RR \ {r1, r2} : Keeps(h, h1, s)
      BY <1>0, <1>7, <1>9, <1>16, <2>2, BredWhole
    <2>5. RR \ {r2} = R \cup Range(new) /\ RR \ {r1, r2} = R /\ Len(new) = 1 /\ new[1] = r1
      BY <1>6, <1>9, <2>1 DEF Range
    <2>6. \A t \in R : Keeps(heap, h1, t) /\ Fits(h1, t)
      <3> TAKE t \in R
      <3>1. Keeps(heap, h, t) /\ Fits(h, t) /\ Keeps(h, h1, t)
        BY <1>8, <2>4, <2>5
      <3>2. Keeps(heap, h1, t)
        BY <1>7, <3>1, KeepsOn
      <3> QED BY <1>7, <2>4, <3>1, <3>2, KeptTree
    <2>7. \A t \in R \cup Range(new) : Fits(h1, t)
      BY <2>1, <2>4, <2>6 DEF Range
    <2>8. Bears(heap, R, new, h2)
      BY <1>3, <2>3, <2>4, <2>5, <2>6, <2>7 DEF Bears
    <2> QED BY <1>11, <2>1, <2>8
  <1>17. CASE path1 = <<>> /\ path2 # <<>>
    <2>1. new = <<r2>> /\ new \in Seq(Address)
      BY <1>7, <1>11, <1>12, <1>14, <1>17
    <2>2. h1 = h
      BY <1>11, <1>12, <1>17 DEF Bred
    <2>3. h2 \in Bred(h, r2, parent(h, r2, path2), Tree(h, r2)[path2], r1)
      BY <1>11, <1>12, <1>17, <2>2
    <2>4. /\ Forest(h2, RR \ {r1}) /\ Fits(h2, r2)
          /\ \A s \in RR \ {r2, r1} : Keeps(h, h2, s)
      BY <1>0, <1>7, <1>9, <1>17, <2>3, BredWhole
    <2>5. RR \ {r1} = R \cup Range(new) /\ RR \ {r2, r1} = R /\ Len(new) = 1 /\ new[1] = r2
      BY <1>6, <1>9, <2>1 DEF Range
    <2>6. \A t \in R : Keeps(heap, h2, t) /\ Fits(h2, t)
      <3> TAKE t \in R
      <3>1. Keeps(heap, h, t) /\ Fits(h, t) /\ Keeps(h, h2, t)
        BY <1>8, <2>4, <2>5
      <3>2. Keeps(heap, h2, t)
        BY <1>7, <3>1, KeepsOn
      <3> QED BY <1>7, <2>4, <3>1, <3>2, KeptTree
    <2>7. \A t \in R \cup Range(new) : Fits(h2, t)
      BY <2>1, <2>4, <2>6 DEF Range
    <2>8. Bears(heap, R, new, h2)
      BY <1>9, <2>4, <2>5, <2>6, <2>7 DEF Bears
    <2> QED BY <1>11, <2>1, <2>8
  <1>18. CASE path1 # <<>> /\ path2 # <<>>
    <2>1. new = <<r1, r2>> /\ new \in Seq(Address)
      <3>1. new = <<r1>> \o <<r2>>
        BY <1>11, <1>13, <1>14, <1>18
      <3>2. <<r1>> \o <<r2>> = <<r1, r2>>
        <4>1. PICK A, a, b : A = {r1, r2} /\ a = <<r1>> /\ b = <<r2>>
          OBVIOUS
        <4>2. /\ a \in Seq(A) /\ b \in Seq(A) /\ <<r1, r2>> \in Seq(A)
              /\ Len(a) = 1 /\ Len(b) = 1 /\ a[1] = r1 /\ b[1] = r2
          BY <4>1
        <4>3. /\ a \o b \in Seq(A) /\ Len(a \o b) = Len(a) + Len(b)
              /\ \A k \in 1 .. Len(a) + Len(b) :
                    (a \o b)[k] = IF k <= Len(a) THEN a[k] ELSE b[k - Len(a)]
          BY <4>2, ConcatProperties
        <4>4. Len(a \o b) = 2 /\ (a \o b)[1] = r1 /\ (a \o b)[2] = r2
          BY <4>2, <4>3
        <4>5. a \o b = <<r1, r2>>
          <5>1. PICK c, d : c = a \o b /\ d = <<r1, r2>>
            OBVIOUS
          <5>2. c \in Seq(A) /\ d \in Seq(A) /\ Len(c) = 2 /\ Len(d) = 2
            BY <4>2, <4>3, <4>4, <5>1
          <5>3. \A k \in 1 .. Len(c) : c[k] = d[k]
            BY <4>4, <5>1, <5>2
          <5>4. c = d
            BY <5>2, <5>3, SeqEqual
          <5> QED BY <5>1, <5>4
        <4> QED BY <4>1, <4>5
      <3> QED BY <1>3, <1>7, <3>1, <3>2
    <2>2. /\ Forest(h2, RR) /\ Fits(h2, r1) /\ Fits(h2, r2)
          /\ \A s \in RR \ {r1, r2} : Keeps(h, h2, s)
      BY <1>7, <1>9, <1>11, <1>18, BredBoth
    <2>3. /\ RR = R \cup Range(new) /\ RR \ {r1, r2} = R /\ Range(new) = {r1, r2}
          /\ Len(new) = 2 /\ new[1] = r1 /\ new[2] = r2
      BY <1>6, <1>9, <2>1 DEF Range
    <2>4. \A t \in R : Keeps(heap, h2, t) /\ Fits(h2, t)
      <3> TAKE t \in R
      <3>1. Keeps(heap, h, t) /\ Fits(h, t) /\ Keeps(h, h2, t)
        BY <1>8, <2>2, <2>3
      <3>2. Keeps(heap, h2, t)
        BY <1>7, <3>1, KeepsOn
      <3> QED BY <1>7, <2>2, <3>1, <3>2, KeptTree
    <2>5. Bears(heap, R, new, h2)
      BY <1>3, <1>9, <2>2, <2>3, <2>4 DEF Bears
    <2> QED BY <1>11, <2>1, <2>5
  <1> QED BY <1>15, <1>16, <1>17, <1>18

-----------------------------------------------------------------------------
\* Expressions are written and read.

Text == DOMAIN Arity \cup {""}

\* The lines from a place on, given those from the places below it.
Lines(e, L, path) == IF path \in DOMAIN e
                     THEN <<e[path]>> \o L[Append(path, 1)] \o L[Append(path, 2)]
                     ELSE <<"">>
WrittenBy(e, L) == L \in [Paths -> Seq(Text)] /\ \A path \in Paths : L[path] = Lines(e, L, path)

\* The lines of a subtree are text.
LEMMA LinesAre ==
  ASSUME NEW e, IsExpression(e), NEW L, NEW path \in Paths,
         path \in DOMAIN e => \A side \in 1..2 : L[Append(path, side)] \in Seq(Text)
  PROVE  Lines(e, L, path) \in Seq(Text)
  <1>1. CASE path \in DOMAIN e
    <2>1. PICK a, b, c : a = <<e[path]>> /\ b = L[Append(path, 1)] /\ c = L[Append(path, 2)]
      OBVIOUS
    <2>2. a \in Seq(Text)
      <3>1. e[path] \in Text
        BY <1>1, ExpressionFacts DEF Text
      <3> QED BY <2>1, <3>1
    <2>3. b \in Seq(Text) /\ c \in Seq(Text)
      BY <1>1, <2>1
    <2>4. Lines(e, L, path) = a \o b \o c
      BY <1>1, <2>1 DEF Lines
    <2>5. a \o b \in Seq(Text)
      BY <2>2, <2>3
    <2>6. a \o b \o c \in Seq(Text)
      BY <2>3, <2>5
    <2> QED BY <2>4, <2>6
  <1>2. CASE path \notin DOMAIN e
    <2>1. \A t \in Text : <<t>> \in Seq(Text)
      OBVIOUS
    <2>2. <<"">> \in Seq(Text)
      BY <2>1, Zenon DEF Text
    <2>3. Lines(e, L, path) = <<"">>
      BY <1>2, Zenon DEF Lines
    <2> QED BY <2>2, <2>3
  <1> QED BY <1>1, <1>2

\* The recursion of writeTo() exists.
LEMMA Written ==
  ASSUME NEW e, IsExpression(e)
  PROVE  \E L : WrittenBy(e, L) /\ writeTo(e) = L[<<>>]
  <1> DEFINE G(f) == [path \in Paths |-> Lines(e, f, path)]
             S == [Paths -> Seq(Text)]
             base == [path \in Paths |-> <<"">>]
             step == [k \in 1..MAXHEIGHT |-> [f \in S |-> G(f)]]
             L == CHOOSE f : f = G(f)
  <1>1. /\ \A path \in DOMAIN e : Len(path) < MAXHEIGHT
        /\ \A path \in DOMAIN e, side \in 1..2 : Append(path, side) \in Paths
    BY ExpressionFacts
  <1>2. MAXHEIGHT \in Nat
    BY SearchAssumption
  <1>3. \A f \in S : G(f) \in S
    <2> TAKE f \in S
    <2>1. \A path \in Paths : Lines(e, f, path) \in Seq(Text)
      BY <1>1, LinesAre
    <2> QED BY <2>1
  <1>4. base \in S
    <2>1. <<"">> \in Seq(Text)
      BY DEF Text
    <2> QED BY <2>1
  <1>5. step \in [1..MAXHEIGHT -> [S -> S]]
    <2> HIDE DEF S, G
    <2> QED BY <1>3
  <1>6. PICK f \in [0 .. MAXHEIGHT -> S] :
           f[0] = base /\ \A k \in 1 .. MAXHEIGHT : f[k] = step[k][f[k - 1]]
    <2> HIDE DEF S, base, step
    <2>1. Recursive(S, base, MAXHEIGHT, step)
      BY <1>2, <1>4, <1>5, RecursionExists
    <2> QED BY <2>1 DEF Recursive
  <1>7. \A k \in 1 .. MAXHEIGHT : f[k] = G(f[k - 1])
    <2> TAKE k \in 1 .. MAXHEIGHT
    <2> HIDE DEF S, G, base
    <2>1. k - 1 \in 0 .. MAXHEIGHT
      BY <1>2
    <2>2. f[k - 1] \in S /\ f[k] = step[k][f[k - 1]]
      BY <1>6, <2>1
    <2> QED BY <2>2
  <1>8. ASSUME NEW path \in Paths, NEW side \in 1..2, path \in DOMAIN e
        PROVE  /\ Append(path, side) \in Paths /\ Len(path) \in 0..MAXHEIGHT
               /\ Len(Append(path, side)) = Len(path) + 1
    BY <1>1, <1>8, PathFacts, PathsAre
  <1>9. ASSUME NEW path \in Paths, NEW g, NEW h,
               path \in DOMAIN e => \A side \in 1..2 : g[Append(path, side)] = h[Append(path, side)]
        PROVE  Lines(e, g, path) = Lines(e, h, path)
    <2>1. path \in DOMAIN e => /\ g[Append(path, 1)] = h[Append(path, 1)]
                               /\ g[Append(path, 2)] = h[Append(path, 2)]
      BY <1>9
    <2> QED BY <2>1, Zenon DEF Lines
  <1> DEFINE Done == {k \in 0 .. MAXHEIGHT : \A path \in Paths :
                        Len(path) >= MAXHEIGHT - k => Lines(e, f[k], path) = f[k][path]}
  <1>10. 0 \in Done
    <2> SUFFICES ASSUME NEW path \in Paths, Len(path) >= MAXHEIGHT
                 PROVE  Lines(e, f[0], path) = f[0][path]
      BY <1>2
    <2>1. path \notin DOMAIN e
      <3>1. Len(path) \in Nat
        BY PathFacts
      <3> QED BY <1>1, <1>2, <3>1
    <2> QED BY <1>6, <2>1 DEF Lines
  <1>11. ASSUME NEW k \in 0 .. MAXHEIGHT - 1, k \in Done PROVE k + 1 \in Done
    <2> SUFFICES ASSUME NEW path \in Paths, Len(path) >= MAXHEIGHT - (k + 1)
                 PROVE  Lines(e, f[k + 1], path) = f[k + 1][path]
      BY <1>2
    <2>1. f[k + 1] = G(f[k])
      BY <1>2, <1>7
    <2>2. ASSUME NEW side \in 1..2, path \in DOMAIN e
          PROVE  f[k + 1][Append(path, side)] = f[k][Append(path, side)]
      <3>1. PICK longer : longer = Append(path, side)
        OBVIOUS
      <3>2. longer \in Paths /\ Len(longer) >= MAXHEIGHT - k
        <4>1. longer \in Paths /\ Len(path) \in 0..MAXHEIGHT /\ Len(longer) = Len(path) + 1
          BY <1>8, <2>2, <3>1
        <4> QED BY <1>2, <4>1
      <3>3. Lines(e, f[k], longer) = f[k][longer]
        BY <1>11, <3>2
      <3> QED BY <2>1, <3>1, <3>2, <3>3
    <2>3. Lines(e, f[k + 1], path) = Lines(e, f[k], path)
      <3>1. PICK g, h : g = f[k + 1] /\ h = f[k]
        OBVIOUS
      <3>2. Lines(e, g, path) = Lines(e, h, path)
        BY <1>9, <2>2, <3>1
      <3> QED BY <3>1, <3>2
    <2> QED BY <2>1, <2>3
  <1>12. MAXHEIGHT \in Done
    <2> HIDE DEF Done, S, G, base, step, L
    <2>1. \A k \in 0 .. MAXHEIGHT : k \in Done
      BY <1>2, <1>10, <1>11, UpTo
    <2> QED BY <1>2, <2>1
  <1>13. PICK F : F = f[MAXHEIGHT]
    OBVIOUS
  <1>14. F = G(F)
    <2>1. \A path \in Paths : Lines(e, F, path) = F[path]
      BY <1>2, <1>12, <1>13, PathFacts
    <2>2. F \in S
      BY <1>2, <1>13
    <2> QED BY <2>1, <2>2
  <1>15. L = G(L)
    <2> HIDE DEF G
    <2> QED BY <1>14
  <1>16. writeTo(e) = L[<<>>]
    BY DEF writeTo, Lines
  <1> HIDE DEF L
  <1>17. DOMAIN L = Paths /\ \A path \in Paths : L[path] = Lines(e, L, path)
    BY <1>15
  <1> DEFINE Typed == {k \in 0 .. MAXHEIGHT : \A path \in Paths :
                        Len(path) >= MAXHEIGHT - k => L[path] \in Seq(Text)}
  <1>18. 0 \in Typed
    <2> SUFFICES ASSUME NEW path \in Paths, Len(path) >= MAXHEIGHT
                 PROVE  L[path] \in Seq(Text)
      BY <1>2
    <2>1. path \notin DOMAIN e
      <3>1. Len(path) \in Nat
        BY PathFacts
      <3> QED BY <1>1, <1>2, <3>1
    <2> QED BY <1>17, <2>1, LinesAre
  <1>19. ASSUME NEW k \in 0 .. MAXHEIGHT - 1, k \in Typed PROVE k + 1 \in Typed
    <2> SUFFICES ASSUME NEW path \in Paths, Len(path) >= MAXHEIGHT - (k + 1)
                 PROVE  L[path] \in Seq(Text)
      BY <1>2
    <2>1. ASSUME NEW side \in 1..2, path \in DOMAIN e PROVE L[Append(path, side)] \in Seq(Text)
      <3>1. PICK longer : longer = Append(path, side)
        OBVIOUS
      <3>2. longer \in Paths /\ Len(longer) >= MAXHEIGHT - k
        <4>1. longer \in Paths /\ Len(path) \in 0..MAXHEIGHT /\ Len(longer) = Len(path) + 1
          BY <1>8, <2>1, <3>1
        <4> QED BY <1>2, <4>1
      <3> QED BY <1>19, <3>1, <3>2
    <2> QED BY <1>17, <2>1, LinesAre
  <1>20. MAXHEIGHT \in Typed
    <2> HIDE DEF Typed, S, G, base, step, L
    <2>1. \A k \in 0 .. MAXHEIGHT : k \in Typed
      BY <1>2, <1>18, <1>19, UpTo
    <2> QED BY <1>2, <2>1
  <1>21. \A path \in Paths : L[path] \in Seq(Text)
    BY <1>2, <1>20, PathFacts
  <1>22. L = [path \in Paths |-> L[path]]
    BY <1>15
  <1>23. L \in [Paths -> Seq(Text)]
    BY <1>21, <1>22
  <1>24. WrittenBy(e, L)
    BY <1>17, <1>23 DEF WrittenBy
  <1> QED BY <1>16, <1>24

\* The place that is read into a place: the children may change sides.
Flip(q) == [k \in DOMAIN q |-> 3 - q[k]]
At(first, q) == IF first = 1 THEN q ELSE Flip(q)

\* Changing the sides of a path.
LEMMA FlipFacts ==
  /\ Flip(<<>>) = <<>>
  /\ \A q \in Seq(1..2) :
        Flip(q) \in Seq(1..2) /\ Len(Flip(q)) = Len(q) /\ Flip(Flip(q)) = q
  /\ \A q \in Seq(1..2), side \in 1..2 : Flip(Append(q, side)) = Append(Flip(q), 3 - side)
  <1>1. Flip(<<>>) = <<>>
    BY DEF Flip
  <1>2. ASSUME NEW q \in Seq(1..2)
        PROVE  /\ Flip(q) \in Seq(1..2) /\ Len(Flip(q)) = Len(q)
               /\ \A k \in 1..Len(q) : Flip(q)[k] = 3 - q[k]
    BY DEF Flip
  <1>3. ASSUME NEW q \in Seq(1..2) PROVE Flip(Flip(q)) = q
    <2>1. PICK f, g : f = Flip(q) /\ g = Flip(f)
      OBVIOUS
    <2>2. /\ f \in Seq(1..2) /\ Len(f) = Len(q) /\ g \in Seq(1..2) /\ Len(g) = Len(f)
          /\ \A k \in 1..Len(q) : f[k] = 3 - q[k] /\ g[k] = 3 - f[k]
      BY <1>2, <2>1
    <2>3. \A k \in 1..Len(g) : g[k] = q[k]
      BY <2>2
    <2>4. g = q
      BY <2>2, <2>3, SeqEqual
    <2> QED BY <2>1, <2>4
  <1>4. ASSUME NEW q \in Seq(1..2), NEW side \in 1..2
        PROVE  Flip(Append(q, side)) = Append(Flip(q), 3 - side)
    <2>1. PICK f, a, g, b : /\ f = Flip(q) /\ a = Append(q, side)
                            /\ g = Flip(a) /\ b = Append(f, 3 - side)
      OBVIOUS
    <2>2. /\ f \in Seq(1..2) /\ Len(f) = Len(q) /\ a \in Seq(1..2) /\ Len(a) = Len(q) + 1
          /\ \A k \in 1..Len(q) : f[k] = 3 - q[k] /\ a[k] = q[k]
          /\ a[Len(q) + 1] = side
      BY <1>2, <2>1
    <2>3. /\ g \in Seq(1..2) /\ Len(g) = Len(a) /\ \A k \in 1..Len(a) : g[k] = 3 - a[k]
      BY <1>2, <2>1, <2>2
    <2>4. /\ b \in Seq(1..2) /\ Len(b) = Len(f) + 1 /\ b[Len(f) + 1] = 3 - side
          /\ \A k \in 1..Len(f) : b[k] = f[k]
      BY <2>1, <2>2
    <2>5. \A k \in 1..Len(g) : g[k] = b[k]
      BY <2>2, <2>3, <2>4
    <2>6. g = b
      BY <2>2, <2>3, <2>4, <2>5, SeqEqual
    <2> QED BY <2>1, <2>6
  <1> QED BY <1>1, <1>2, <1>3, <1>4

\* Where a place that is read belongs, for each order of reading.
LEMMA AtFacts ==
  ASSUME NEW first \in {1, 2}
  PROVE  /\ At(first, <<>>) = <<>>
         /\ \A q \in Seq(1..2) :
              /\ At(first, q) \in Seq(1..2) /\ Len(At(first, q)) = Len(q)
              /\ At(first, At(first, q)) = q
              /\ At(first, Append(q, first)) = Append(At(first, q), 1)
              /\ At(first, Append(q, 3 - first)) = Append(At(first, q), 2)
  <1>1. CASE first = 1
    BY <1>1 DEF At
  <1>2. CASE first = 2
    <2>1. \A q : At(first, q) = Flip(q)
      BY <1>2 DEF At
    <2>2. \A q \in Seq(1..2) : /\ Append(q, 2) \in Seq(1..2) /\ Append(q, 1) \in Seq(1..2)
                               /\ Flip(Append(q, 2)) = Append(Flip(q), 1)
                               /\ Flip(Append(q, 1)) = Append(Flip(q), 2)
      BY FlipFacts
    <2> QED BY <1>2, <2>1, <2>2, FlipFacts
  <1> QED BY <1>1, <1>2

\* The reader's states.
States == [todo : Seq(Seq(1..2)), tree : UNION {[D -> Text] : D \in SUBSET Seq(1..2)}]

\* The two places below a place that was read come before the others.
LEMMA TwoMore ==
  ASSUME NEW A, NEW a \in A, NEW b \in A, NEW rest \in Seq(A)
  PROVE  /\ <<a, b>> \o rest \in Seq(A) /\ Len(<<a, b>> \o rest) = Len(rest) + 2
         /\ (<<a, b>> \o rest)[1] = a /\ (<<a, b>> \o rest)[2] = b
         /\ \A m \in 3 .. Len(rest) + 2 : (<<a, b>> \o rest)[m] = rest[m - 2]
  <1>1. PICK two : two = <<a, b>>
    OBVIOUS
  <1>2. two \in Seq(A) /\ Len(two) = 2 /\ two[1] = a /\ two[2] = b
    BY <1>1
  <1>3. /\ two \o rest \in Seq(A) /\ Len(two \o rest) = Len(two) + Len(rest)
        /\ \A m \in 1 .. Len(two) + Len(rest) :
              (two \o rest)[m] = IF m <= Len(two) THEN two[m] ELSE rest[m - Len(two)]
    BY <1>2, ConcatProperties
  <1>4. Len(rest) \in Nat
    OBVIOUS
  <1>5. PICK all : all = two \o rest
    OBVIOUS
  <1>6. /\ all \in Seq(A) /\ Len(all) = Len(rest) + 2 /\ all[1] = a /\ all[2] = b
        /\ \A m \in 3 .. Len(rest) + 2 : all[m] = rest[m - 2]
    BY <1>2, <1>3, <1>4, <1>5
  <1> QED BY <1>1, <1>5, <1>6

\* What one line does.
LEMMA LineIs ==
  ASSUME NEW s \in States, s.todo # <<>>, NEW line \in Text, NEW first \in {1, 2}
  PROVE  LET path == s.todo[1]
             x == Line(s, line, first)
         IN  /\ x \in States
             /\ line = "" => x.todo = Tail(s.todo) /\ x.tree = s.tree
             /\ line # "" =>
                  /\ x.todo = <<Append(path, first), Append(path, 3 - first)>> \o Tail(s.todo)
                  /\ x.tree = With(s.tree, path, line)
  <1>1. PICK path, rest, x : path = s.todo[1] /\ rest = Tail(s.todo) /\ x = Line(s, line, first)
    OBVIOUS
  <1>2. s.todo \in Seq(Seq(1..2)) /\ s = [todo |-> s.todo, tree |-> s.tree]
    BY DEF States
  <1>3. PICK D \in SUBSET Seq(1..2) : s.tree \in [D -> Text]
    BY DEF States
  <1>4. path \in Seq(1..2) /\ rest \in Seq(Seq(1..2)) /\ Head(s.todo) = path
    BY <1>1, <1>2
  <1>5. CASE line = ""
    <2>1. x = [s EXCEPT !.todo = rest]
      BY <1>1, <1>5 DEF Line
    <2>2. x = [todo |-> rest, tree |-> s.tree]
      BY <1>2, <2>1
    <2>3. x \in States
      BY <1>3, <1>4, <2>2 DEF States
    <2>4. x.todo = rest /\ x.tree = s.tree
      BY <2>2
    <2> QED BY <1>1, <1>5, <2>3, <2>4, Zenon
  <1>6. CASE line # ""
    <2>1. PICK a, b : a = Append(path, first) /\ b = Append(path, 3 - first)
      OBVIOUS
    <2>2. x = [todo |-> <<a, b>> \o rest, tree |-> With(s.tree, path, line)]
      BY <1>1, <1>4, <1>6, <2>1 DEF Line
    <2>3. a \in Seq(1..2) /\ b \in Seq(1..2)
      BY <1>4, <2>1
    <2>4. <<a, b>> \o rest \in Seq(Seq(1..2))
      BY <1>4, <2>3, TwoMore
    <2>5. With(s.tree, path, line) \in [D \cup {path} -> Text]
      BY <1>3 DEF With
    <2>6. D \cup {path} \in SUBSET Seq(1..2)
      BY <1>4
    <2>7. x \in States
      BY <2>2, <2>4, <2>5, <2>6 DEF States
    <2>8. x.todo = <<a, b>> \o rest /\ x.tree = With(s.tree, path, line)
      BY <2>2
    <2> QED BY <1>1, <1>6, <2>1, <2>7, <2>8, Zenon
  <1> QED BY <1>1, <1>5, <1>6

\* The reader goes from state to state.
Reads(lines, first, read) ==
    /\ read \in [0 .. Len(lines) -> States]
    /\ read[0] = [todo |-> <<<<>>>>, tree |-> <<>>]
    /\ \A k \in 1 .. Len(lines) : read[k] = Line(read[k - 1], lines[k], first)

\* The recursion of readFrom() exists.
LEMMA ReadIs ==
  ASSUME NEW lines \in Seq(Text), NEW first \in {1, 2}
  PROVE  \E read : Reads(lines, first, read) /\ readFrom(lines, first) = read[Len(lines)].tree
  <1> DEFINE base == [todo |-> <<<<>>>>, tree |-> <<>>]
             N == Len(lines)
             step == [k \in 1..N |-> [s \in States |-> Line(s, lines[k], first)]]
             G(f) == [k \in 0..N |-> IF k = 0 THEN base ELSE Line(f[k - 1], lines[k], first)]
             read == CHOOSE f : f = G(f)
  <1>1. N \in Nat
    OBVIOUS
  <1>2. base \in States
    <2>1. <<>> \in Seq(1..2)
      OBVIOUS
    <2>2. <<<<>>>> \in Seq(Seq(1..2))
      BY <2>1
    <2>3. <<>> \in [{} -> Text]
      OBVIOUS
    <2> QED BY <2>2, <2>3 DEF States
  <1>3. \A s \in States, line \in Text : Line(s, line, first) \in States
    <2> TAKE s \in States, line \in Text
    <2>1. CASE s.todo = <<>>
      BY <2>1 DEF Line
    <2>2. CASE s.todo # <<>>
      BY <2>2, LineIs
    <2> QED BY <2>1, <2>2
  <1>4. step \in [1..N -> [States -> States]]
    <2>1. \A k \in 1..N : lines[k] \in Text
      OBVIOUS
    <2> QED BY <1>3, <2>1
  <1>5. PICK f \in [0 .. N -> States] : f[0] = base /\ \A k \in 1 .. N : f[k] = step[k][f[k - 1]]
    <2> HIDE DEF base, step, N
    <2>1. Recursive(States, base, N, step)
      BY <1>1, <1>2, <1>4, RecursionExists
    <2> QED BY <2>1 DEF Recursive
  <1>6. f = G(f)
    <2>1. ASSUME NEW k \in 1 .. N PROVE f[k] = Line(f[k - 1], lines[k], first)
      <3>1. f[k - 1] \in States
        BY <1>1
      <3> QED BY <1>5, <3>1
    <2> QED BY <1>1, <1>5, <2>1
  <1>7. read = G(read)
    <2> HIDE DEF G
    <2> QED BY <1>6
  <1>8. readFrom(lines, first) = read[N].tree
    BY DEF readFrom
  <1> HIDE DEF read
  <1>9. /\ read[0] = base /\ \A k \in 1 .. N : read[k] = Line(read[k - 1], lines[k], first)
        /\ read = [k \in 0 .. N |-> read[k]]
    <2>1. PICK n, b : n = N /\ b = base
      OBVIOUS
    <2> HIDE DEF base, N
    <2>2. read = [k \in 0..n |-> IF k = 0 THEN b ELSE Line(read[k - 1], lines[k], first)]
      BY <1>7, <2>1
    <2>3. n \in Nat /\ 0 \in 0 .. n
      BY <1>1, <2>1
    <2>4. read[0] = b
      BY <2>2, <2>3
    <2>5. \A k \in 1 .. n : read[k] = Line(read[k - 1], lines[k], first)
      <3> SUFFICES ASSUME NEW k \in 1 .. n PROVE read[k] = Line(read[k - 1], lines[k], first)
        OBVIOUS
      <3>1. k \in 0 .. n /\ k # 0
        BY <2>3
      <3> QED BY <2>2, <3>1, Zenon
    <2>6. read = [k \in 0 .. n |-> read[k]]
      BY <2>2, Zenon
    <2> QED BY <2>1, <2>4, <2>5, <2>6
  <1> DEFINE Typed == {k \in 0 .. N : read[k] \in States}
  <1>10. 0 \in Typed
    BY <1>1, <1>2, <1>9
  <1>11. ASSUME NEW k \in 0 .. N - 1, k \in Typed PROVE k + 1 \in Typed
    <2>1. k + 1 \in 1 .. N /\ lines[k + 1] \in Text
      BY <1>1
    <2>2. read[k + 1] = Line(read[k], lines[k + 1], first)
      BY <1>1, <1>9, <2>1, SMTT(30)
    <2> QED BY <1>3, <1>11, <2>1, <2>2
  <1>12. \A k \in 0 .. N : k \in Typed
    <2> HIDE DEF Typed, N
    <2> QED BY <1>1, <1>10, <1>11, UpTo
  <1>13. Reads(lines, first, read)
    BY <1>9, <1>12 DEF Reads
  <1> QED BY <1>8, <1>13

\* The lines left are those of the places to be read, in order.
Lined(L, first, todo, k) ==
    LET W == L[<<>>]
    IN  \E pos \in [1 .. Len(todo) + 1 -> 0 .. Len(W)] :
           /\ pos[1] = k /\ pos[Len(todo) + 1] = Len(W)
           /\ \A m \in 1 .. Len(todo) :
                /\ At(first, todo[m]) \in Paths
                /\ pos[m + 1] = pos[m] + Len(L[At(first, todo[m])])
                /\ \A l \in 1 .. Len(L[At(first, todo[m])]) :
                      W[pos[m] + l] = L[At(first, todo[m])][l]

\* What was read is right, and what is not yet will be.
Known(e, first, s, q) == q \in DOMAIN s.tree \/ q \in Range(s.todo) \/ At(first, q) \notin DOMAIN e
Grows(e, first, s) ==
    /\ \A q \in DOMAIN s.tree : At(first, q) \in DOMAIN e /\ s.tree[q] = e[At(first, q)]
    /\ Known(e, first, s, <<>>)
    /\ \A q \in DOMAIN s.tree, side \in 1..2 : Known(e, first, s, Append(q, side))

Word(e, x) == IF x \in DOMAIN e THEN e[x] ELSE ""

\* The next line is the first of the first place to be read.
LEMMA NextLine ==
  ASSUME NEW e, IsExpression(e), NEW L, WrittenBy(e, L), NEW first \in {1, 2},
         NEW todo \in Seq(Seq(1..2)), NEW k \in 0 .. Len(L[<<>>]) - 1, Lined(L, first, todo, k)
  PROVE  /\ todo # <<>> /\ L[<<>>][k + 1] = Word(e, At(first, todo[1]))
  <1>1. PICK W : W = L[<<>>]
    OBVIOUS
  <1>2. PICK pos \in [1 .. Len(todo) + 1 -> 0 .. Len(W)] :
           /\ pos[1] = k /\ pos[Len(todo) + 1] = Len(W)
           /\ \A m \in 1 .. Len(todo) :
                /\ At(first, todo[m]) \in Paths
                /\ pos[m + 1] = pos[m] + Len(L[At(first, todo[m])])
                /\ \A l \in 1 .. Len(L[At(first, todo[m])]) :
                      W[pos[m] + l] = L[At(first, todo[m])][l]
    BY <1>1 DEF Lined
  <1>3. W \in Seq(Text) /\ Len(W) \in Nat /\ Len(todo) \in Nat
    BY <1>1, PathFacts DEF WrittenBy
  <1>4. todo # <<>> /\ 1 \in 1 .. Len(todo)
    BY <1>1, <1>2, <1>3
  <1>5. PICK x : x = At(first, todo[1])
    OBVIOUS
  <1>6. x \in Paths /\ \A l \in 1 .. Len(L[x]) : W[k + l] = L[x][l]
    BY <1>2, <1>4, <1>5
  <1>7. L[x] = Lines(e, L, x) /\ L[x] \in Seq(Text)
    BY <1>6 DEF WrittenBy
  <1>8. Len(L[x]) >= 1 /\ L[x][1] = IF x \in DOMAIN e THEN e[x] ELSE ""
    <2>1. CASE x \in DOMAIN e
      <3>1. PICK a, b, c : a = <<e[x]>> /\ b = L[Append(x, 1)] /\ c = L[Append(x, 2)]
        OBVIOUS
      <3>2. e[x] \in Text /\ Append(x, 1) \in Paths /\ Append(x, 2) \in Paths
        <4>1. e[x] \in DOMAIN Arity /\ \A side \in 1..2 : Append(x, side) \in Paths
          BY <2>1, ExpressionFacts
        <4>2. e[x] \in Text
          BY <4>1, Zenon DEF Text
        <4>3. 1 \in 1..2 /\ 2 \in 1..2
          OBVIOUS
        <4> QED BY <4>1, <4>2, <4>3, Zenon
      <3>3. a \in Seq(Text) /\ b \in Seq(Text) /\ c \in Seq(Text) /\ Len(a) = 1 /\ a[1] = e[x]
        BY <3>1, <3>2 DEF WrittenBy
      <3>4. L[x] = a \o b \o c
        BY <1>7, <2>1, <3>1 DEF Lines
      <3>5. \A u, v \in Seq(Text) :
               /\ u \o v \in Seq(Text) /\ Len(u \o v) = Len(u) + Len(v)
               /\ Len(u) \in Nat /\ Len(v) \in Nat /\ (Len(u) >= 1 => (u \o v)[1] = u[1])
        <4> TAKE u, v \in Seq(Text)
        <4>1. /\ u \o v \in Seq(Text) /\ Len(u \o v) = Len(u) + Len(v)
              /\ \A i_ \in 1 .. Len(u) + Len(v) :
                    (u \o v)[i_] = IF i_ <= Len(u) THEN u[i_] ELSE v[i_ - Len(u)]
          BY ConcatProperties
        <4>2. Len(u) \in Nat /\ Len(v) \in Nat
          OBVIOUS
        <4> QED BY <4>1, <4>2
      <3>6. PICK d : d = a \o b
        OBVIOUS
      <3>7. d \in Seq(Text) /\ Len(d) >= 1 /\ d[1] = e[x] /\ Len(b) \in Nat
        <4>1. /\ a \o b \in Seq(Text) /\ Len(a \o b) = Len(a) + Len(b)
              /\ Len(b) \in Nat /\ (Len(a) >= 1 => (a \o b)[1] = a[1])
          BY <3>3, <3>5, Zenon
        <4> HIDE DEF Text
        <4> QED BY <3>3, <3>6, <4>1
      <3>8. Len(L[x]) >= 1 /\ L[x][1] = e[x]
        <4>1. L[x] = d \o c
          BY <3>4, <3>6
        <4>2. Len(d \o c) = Len(d) + Len(c) /\ Len(c) \in Nat /\ Len(d) \in Nat /\ (d \o c)[1] = d[1]
          BY <3>3, <3>5, <3>7
        <4> QED BY <3>7, <4>1, <4>2
      <3> QED BY <2>1, <3>8
    <2>2. CASE x \notin DOMAIN e
      <3>1. L[x] = <<"">>
        BY <1>7, <2>2, Zenon DEF Lines
      <3>2. \A t \in Text : Len(<<t>>) = 1 /\ <<t>>[1] = t
        <4> HIDE DEF Text
        <4> QED OBVIOUS
      <3>3. "" \in Text
        BY Zenon DEF Text
      <3>4. Len(L[x]) = 1 /\ L[x][1] = ""
        BY <3>1, <3>2, <3>3, Zenon
      <3>5. \A n : n = 1 => n >= 1
        OBVIOUS
      <3> QED BY <2>2, <3>4, <3>5, Zenon
    <2> QED BY <2>1, <2>2
  <1>9. W[k + 1] = L[x][1]
    <2>1. Len(L[x]) \in Nat
      BY <1>7
    <2>2. PICK n : n = Len(L[x])
      OBVIOUS
    <2>3. n >= 1
      BY <1>8, <2>2, Zenon
    <2>4. 1 \in 1 .. n
      BY <2>1, <2>2, <2>3
    <2>5. W[k + 1] = L[x][1]
      BY <1>6, <2>2, <2>4, Zenon
    <2> QED BY <2>5
  <1> QED BY <1>1, <1>4, <1>5, <1>8, <1>9 DEF Word

\* A line followed by two blocks of lines.
LEMMA ThreeParts ==
  ASSUME NEW A, NEW a \in A, NEW b \in Seq(A), NEW c \in Seq(A)
  PROVE  LET all == <<a>> \o b \o c
         IN  /\ all \in Seq(A) /\ Len(all) = 1 + Len(b) + Len(c) /\ all[1] = a
             /\ \A l \in 1 .. Len(b) : all[1 + l] = b[l]
             /\ \A l \in 1 .. Len(c) : all[1 + Len(b) + l] = c[l]
  <1>1. PICK one : one = <<a>>
    OBVIOUS
  <1>2. one \in Seq(A) /\ Len(one) = 1 /\ one[1] = a
    BY <1>1
  <1>3. PICK two : two = one \o b
    OBVIOUS
  <1>4. /\ two \in Seq(A) /\ Len(two) = 1 + Len(b) /\ two[1] = a
        /\ \A l \in 1 .. Len(b) : two[1 + l] = b[l]
    <2>1. /\ two \in Seq(A) /\ Len(two) = Len(one) + Len(b)
          /\ \A m \in 1 .. Len(one) + Len(b) :
                two[m] = IF m <= Len(one) THEN one[m] ELSE b[m - Len(one)]
      BY <1>2, <1>3, ConcatProperties
    <2>2. Len(b) \in Nat
      OBVIOUS
    <2> QED BY <1>2, <2>1, <2>2
  <1>5. PICK s : s = two \o c
    OBVIOUS
  <1>6. /\ s \in Seq(A) /\ Len(s) = Len(two) + Len(c)
        /\ \A m \in 1 .. Len(two) + Len(c) :
              s[m] = IF m <= Len(two) THEN two[m] ELSE c[m - Len(two)]
    <2>1. two \in Seq(A)
      BY <1>4
    <2> QED BY <1>5, <2>1, ConcatProperties
  <1>7. Len(b) \in Nat /\ Len(c) \in Nat
    OBVIOUS
  <1>8. Len(s) = 1 + Len(b) + Len(c) /\ s[1] = a
    BY <1>4, <1>6, <1>7
  <1>9. ASSUME NEW l \in 1 .. Len(b) PROVE s[1 + l] = b[l]
    BY <1>4, <1>6, <1>7
  <1>10. ASSUME NEW l \in 1 .. Len(c) PROVE s[1 + Len(b) + l] = c[l]
    <2>1. PICK n, m : n = Len(two) /\ m = 1 + Len(b) + l
      OBVIOUS
    <2>2. n = 1 + Len(b) /\ n \in Nat /\ m \in 1 .. n + Len(c) /\ ~(m <= n) /\ m - n = l
      BY <1>4, <1>7, <2>1
    <2>3. s[m] = c[m - n]
      BY <1>6, <2>1, <2>2, Zenon
    <2> QED BY <2>1, <2>2, <2>3
  <1>11. <<a>> \o b \o c = s /\ s \in Seq(A)
    BY <1>1, <1>3, <1>5, <1>6
  <1>12. /\ s \in Seq(A) /\ Len(s) = 1 + Len(b) + Len(c) /\ s[1] = a
         /\ \A l \in 1 .. Len(b) : s[1 + l] = b[l]
         /\ \A l \in 1 .. Len(c) : s[1 + Len(b) + l] = c[l]
    BY <1>8, <1>9, <1>10, <1>11, Zenon
  <1>13. s = <<a>> \o b \o c
    BY <1>11
  <1> QED BY <1>12, <1>13, Zenon

\* What Lined says of each place, and of its children when it is a node.
Split(L, x) ==
    /\ Append(x, 1) \in Paths /\ Append(x, 2) \in Paths
    /\ L[Append(x, 1)] \in Seq(Text) /\ L[Append(x, 2)] \in Seq(Text)
    /\ Len(L[x]) = 1 + Len(L[Append(x, 1)]) + Len(L[Append(x, 2)])
    /\ \A l \in 1 .. Len(L[Append(x, 1)]) : L[x][1 + l] = L[Append(x, 1)][l]
    /\ \A l \in 1 .. Len(L[Append(x, 2)]) :
          L[x][1 + Len(L[Append(x, 1)]) + l] = L[Append(x, 2)][l]

\* A subtree is written as its operator, its left child and its right child.
LEMMA LinesOf ==
  ASSUME NEW e, IsExpression(e), NEW L, WrittenBy(e, L), NEW x \in Paths
  PROVE  /\ L[x] \in Seq(Text) /\ Len(L[x]) \in Nat /\ Len(L[x]) >= 1
         /\ x \notin DOMAIN e => Len(L[x]) = 1
         /\ x \in DOMAIN e => Split(L, x)
  <1>1. L[x] = Lines(e, L, x) /\ L[x] \in Seq(Text)
    BY DEF WrittenBy
  <1>2. CASE x \in DOMAIN e
    <2>1. PICK b, c : b = L[Append(x, 1)] /\ c = L[Append(x, 2)]
      OBVIOUS
    <2>2. e[x] \in Text /\ Append(x, 1) \in Paths /\ Append(x, 2) \in Paths
      <3>1. e[x] \in DOMAIN Arity /\ \A side \in 1..2 : Append(x, side) \in Paths
        BY <1>2, ExpressionFacts
      <3>2. e[x] \in Text
        BY <3>1, Zenon DEF Text
      <3>3. 1 \in 1..2 /\ 2 \in 1..2
        OBVIOUS
      <3> QED BY <3>1, <3>2, <3>3, Zenon
    <2>3. b \in Seq(Text) /\ c \in Seq(Text)
      BY <2>1, <2>2 DEF WrittenBy
    <2>4. L[x] = <<e[x]>> \o b \o c
      BY <1>1, <1>2, <2>1 DEF Lines
    <2>5. PICK w : w = <<e[x]>> \o b \o c
      OBVIOUS
    <2>6. /\ Len(w) = 1 + Len(b) + Len(c)
          /\ \A l \in 1 .. Len(b) : w[1 + l] = b[l]
          /\ \A l \in 1 .. Len(c) : w[1 + Len(b) + l] = c[l]
      BY <2>2, <2>3, <2>5, ThreeParts
    <2>7. Len(b) \in Nat /\ Len(c) \in Nat
      BY <2>3
    <2>8. Len(w) \in Nat /\ Len(w) >= 1
      BY <2>6, <2>7
    <2>9. L[x] = w
      BY <2>4, <2>5
    <2>10. Split(L, x)
      BY <2>1, <2>2, <2>3, <2>6, <2>9, Zenon DEF Split
    <2> QED BY <1>1, <1>2, <2>8, <2>9, <2>10, Zenon
  <1>3. CASE x \notin DOMAIN e
    <2>1. L[x] = <<"">>
      BY <1>1, <1>3, Zenon DEF Lines
    <2>2. \A t \in Text : Len(<<t>>) = 1
      <3> HIDE DEF Text
      <3> QED OBVIOUS
    <2>3. "" \in Text
      BY Zenon DEF Text
    <2>4. Len(L[x]) = 1
      BY <2>1, <2>2, <2>3, Zenon
    <2>5. 1 \in Nat /\ 1 >= 1
      OBVIOUS
    <2> QED BY <1>1, <1>3, <2>4, <2>5, Zenon
  <1> QED BY <1>2, <1>3

\* What is left of the places still to be read.
LEMMA TailFacts ==
  ASSUME NEW A, NEW s \in Seq(A), s # <<>>
  PROVE  /\ Len(s) \in Nat /\ Len(s) >= 1 /\ s[1] \in A /\ Head(s) = s[1]
         /\ Tail(s) \in Seq(A) /\ Len(Tail(s)) = Len(s) - 1
         /\ \A m \in 1 .. Len(Tail(s)) : Tail(s)[m] = s[m + 1]
  OBVIOUS

\* The line read keeps the rest in order ...
LEMMA LineKeepsOrder ==
  ASSUME NEW e, IsExpression(e), NEW L, WrittenBy(e, L), NEW first \in {1, 2},
         NEW s \in States, NEW k \in 0 .. Len(L[<<>>]) - 1, Lined(L, first, s.todo, k)
  PROVE  Lined(L, first, Line(s, L[<<>>][k + 1], first).todo, k + 1)
  <1>1. PICK W, todo, x, line, next :
           /\ W = L[<<>>] /\ todo = s.todo /\ x = At(first, todo[1]) /\ line = W[k + 1]
           /\ next = Line(s, line, first).todo
    OBVIOUS
  <1>2. PICK pos \in [1 .. Len(todo) + 1 -> 0 .. Len(W)] :
           /\ pos[1] = k /\ pos[Len(todo) + 1] = Len(W)
           /\ \A m \in 1 .. Len(todo) :
                /\ At(first, todo[m]) \in Paths
                /\ pos[m + 1] = pos[m] + Len(L[At(first, todo[m])])
                /\ \A l \in 1 .. Len(L[At(first, todo[m])]) :
                      W[pos[m] + l] = L[At(first, todo[m])][l]
    BY <1>1 DEF Lined
  <1>3. todo \in Seq(Seq(1..2)) /\ W \in Seq(Text) /\ k \in 0 .. Len(W) - 1
    BY <1>1, PathFacts DEF States, WrittenBy
  <1>4. todo # <<>> /\ line = IF x \in DOMAIN e THEN e[x] ELSE ""
    <2>1. Lined(L, first, todo, k) /\ todo \in Seq(Seq(1..2))
      BY <1>1, <1>3
    <2>2. /\ todo # <<>>
          /\ L[<<>>][k + 1] = Word(e, At(first, todo[1]))
      BY <2>1, NextLine
    <2> QED BY <1>1, <2>2, Zenon DEF Word
  <1>5. Len(todo) \in Nat /\ Len(todo) >= 1 /\ Len(W) \in Nat
    <2>1. todo # <<>> /\ todo \in Seq(Seq(1..2)) /\ W \in Seq(Text)
      BY <1>3, <1>4
    <2>2. Len(W) \in Nat
      BY <2>1
    <2> QED BY <2>1, <2>2, TailFacts
  <1>6. /\ x \in Paths /\ pos[2] = k + Len(L[x])
        /\ \A l \in 1 .. Len(L[x]) : W[k + l] = L[x][l]
    <2>1. 1 \in 1 .. Len(todo) /\ 1 + 1 = 2
      BY <1>5
    <2> QED BY <1>1, <1>2, <2>1, Zenon
  <1>7. PICK rest, r : rest = Tail(todo) /\ r = Len(rest)
    OBVIOUS
  <1>8. /\ rest \in Seq(Seq(1..2)) /\ Len(rest) = Len(todo) - 1
        /\ \A m \in 1 .. Len(rest) : rest[m] = todo[m + 1]
    <2>1. todo # <<>> /\ todo \in Seq(Seq(1..2))
      BY <1>3, <1>4
    <2> QED BY <1>7, <2>1, TailFacts
  <1>9. todo[1] \in Seq(1..2) /\ line \in Text /\ s.todo # <<>>
    <2>1. k + 1 \in 1 .. Len(W)
      BY <1>3, <1>5
    <2>2. line \in Text
      BY <1>1, <1>3, <2>1
    <2>3. todo[1] \in Seq(1..2)
      BY <1>3, <1>4, TailFacts
    <2> QED BY <1>1, <1>4, <2>2, <2>3
  <1>10. pos[2] \in 0 .. Len(W) /\ pos[2] \in Nat
    BY <1>2, <1>5
  <1>0. /\ r \in Nat /\ Len(rest) = r /\ Len(todo) = r + 1
        /\ \A m \in 1 .. r : rest[m] = todo[m + 1]
        /\ \A m \in 1 .. r + 2 : pos[m] \in 0 .. Len(W)
        /\ pos[r + 2] = Len(W)
    <2>1. r \in Nat /\ Len(rest) = r /\ Len(todo) = r + 1
      BY <1>5, <1>7, <1>8
    <2>2. 1 .. Len(todo) + 1 = 1 .. r + 2 /\ Len(todo) + 1 = r + 2
      BY <2>1
    <2>3. \A m \in 1 .. r : rest[m] = todo[m + 1]
      BY <1>8, <2>1
    <2> QED BY <1>2, <2>1, <2>2, <2>3, Zenon
  <1>11. CASE x \notin DOMAIN e
    <2>1. line = ""
      BY <1>4, <1>11
    <2>2. next = rest
      <3>1. Line(s, line, first).todo = Tail(s.todo)
        BY <1>9, <2>1, LineIs
      <3> QED BY <1>1, <1>7, <3>1
    <2>3. Len(L[x]) = 1
      BY <1>6, <1>11, LinesOf
    <2> DEFINE to == [m \in 1 .. r + 1 |-> pos[m + 1]]
    <2>4. /\ DOMAIN to = 1 .. r + 1 /\ to = [m \in 1 .. r + 1 |-> to[m]]
          /\ \A m \in 1 .. r + 1 : to[m] = pos[m + 1]
      OBVIOUS
    <2> HIDE DEF to
    <2>5. to \in [1 .. Len(rest) + 1 -> 0 .. Len(W)] /\ to[1] = k + 1 /\ to[Len(rest) + 1] = Len(W)
      <3>1. \A m \in 1 .. r + 1 : to[m] \in 0 .. Len(W)
        <4> TAKE m \in 1 .. r + 1
        <4>1. m + 1 \in 1 .. r + 2
          BY <1>0
        <4> QED BY <1>0, <2>4, <4>1
      <3>2. to[1] = pos[2] /\ to[r + 1] = pos[r + 2]
        <4>1. 1 \in 1 .. r + 1 /\ r + 1 \in 1 .. r + 1 /\ 1 + 1 = 2 /\ r + 1 + 1 = r + 2
          BY <1>0
        <4> QED BY <2>4, <4>1
      <3> QED BY <1>0, <1>6, <2>3, <2>4, <3>1, <3>2
    <2>6. ASSUME NEW m \in 1 .. Len(rest)
          PROVE  /\ At(first, rest[m]) \in Paths
                 /\ to[m + 1] = to[m] + Len(L[At(first, rest[m])])
                 /\ \A l \in 1 .. Len(L[At(first, rest[m])]) :
                       W[to[m] + l] = L[At(first, rest[m])][l]
      <3>1. /\ m \in 1 .. r /\ m + 1 \in 1 .. Len(todo)
            /\ m \in 1 .. r + 1 /\ m + 1 \in 1 .. r + 1
        BY <1>0
      <3>2. rest[m] = todo[m + 1] /\ to[m] = pos[m + 1] /\ to[m + 1] = pos[m + 1 + 1]
        BY <1>0, <2>4, <3>1, Zenon
      <3>3. PICK m1 : m1 = m + 1
        OBVIOUS
      <3>4. m1 \in 1 .. Len(todo)
        BY <3>1, <3>3
      <3>5. rest[m] = todo[m1] /\ to[m] = pos[m1] /\ to[m + 1] = pos[m1 + 1]
        BY <3>2, <3>3
      <3> QED BY <1>2, <3>4, <3>5, Zenon
    <2>7. Lined(L, first, rest, k + 1)
      BY <1>1, <2>5, <2>6 DEF Lined
    <2> QED BY <1>1, <2>2, <2>7
  <1>12. CASE x \in DOMAIN e
    <2>1. line = e[x] /\ line # ""
      <3>1. e[x] \in DOMAIN Arity
        BY <1>12, ExpressionFacts
      <3>2. "" \notin DOMAIN Arity
        BY DEF Arity
      <3> QED BY <1>4, <1>12, <3>1, <3>2, Zenon
    <2>2. PICK a, b, n1, n2 : /\ a = Append(todo[1], first) /\ b = Append(todo[1], 3 - first)
                              /\ n1 = Len(L[Append(x, 1)]) /\ n2 = Len(L[Append(x, 2)])
      OBVIOUS
    <2>3. next = <<a, b>> \o rest
      BY <1>1, <1>7, <1>9, <2>1, <2>2, LineIs
    <2>4. a \in Seq(1..2) /\ b \in Seq(1..2)
      BY <1>9, <2>2
    <2>5. /\ next \in Seq(Seq(1..2)) /\ Len(next) = Len(rest) + 2 /\ next[1] = a /\ next[2] = b
          /\ \A m \in 3 .. Len(rest) + 2 : next[m] = rest[m - 2]
      BY <1>8, <2>3, <2>4, TwoMore
    <2>6. At(first, a) = Append(x, 1) /\ At(first, b) = Append(x, 2)
      BY <1>1, <1>9, <2>2, AtFacts
    <2>7. /\ Append(x, 1) \in Paths /\ Append(x, 2) \in Paths
          /\ Len(L[x]) = 1 + n1 + n2
          /\ \A l \in 1 .. n1 : L[x][1 + l] = L[Append(x, 1)][l]
          /\ \A l \in 1 .. n2 : L[x][1 + n1 + l] = L[Append(x, 2)][l]
      <3>1. Split(L, x)
        BY <1>6, <1>12, LinesOf
      <3> QED BY <2>2, <3>1, Zenon DEF Split
    <2>8. n1 \in Nat /\ n2 \in Nat
      <3>1. Len(L[Append(x, 1)]) \in Nat
        BY <2>7, LinesOf
      <3>2. Len(L[Append(x, 2)]) \in Nat
        BY <2>7, LinesOf
      <3> QED BY <2>2, <3>1, <3>2
    <2> DEFINE to == [m \in 1 .. r + 3 |-> IF m = 1 THEN k + 1
                                          ELSE IF m = 2 THEN k + 1 + n1
                                          ELSE pos[m - 1]]
    <2>9. /\ to = [m \in 1 .. r + 3 |-> to[m]] /\ to[1] = k + 1 /\ to[2] = k + 1 + n1
          /\ \A m \in 3 .. r + 3 : to[m] = pos[m - 1]
      BY <1>0
    <2> HIDE DEF to
    <2>0. Len(next) = r + 2 /\ \A m \in 3 .. r + 2 : next[m] = rest[m - 2]
      BY <1>0, <2>5
    <2>10. k + 1 + n1 + n2 = pos[2] /\ to[3] = k + 1 + n1 + n2
      <3>1. k + 1 + n1 + n2 = pos[2]
        BY <1>3, <1>6, <2>7, <2>8
      <3>2. 3 \in 3 .. r + 3 /\ 3 - 1 = 2
        BY <1>0
      <3> QED BY <2>9, <3>1, <3>2
    <2>11. ASSUME NEW m \in 1 .. r + 3 PROVE to[m] \in 0 .. Len(W)
      <3>1. CASE m = 1 \/ m = 2
        <4>1. k + 1 \in 0 .. Len(W) /\ k + 1 + n1 \in 0 .. Len(W)
          BY <1>3, <1>5, <1>10, <2>8, <2>10
        <4> QED BY <2>9, <3>1, <4>1
      <3>2. CASE m # 1 /\ m # 2
        <4>1. m \in 3 .. r + 3 /\ m - 1 \in 1 .. r + 2
          BY <1>0, <3>2
        <4>2. to[m] = pos[m - 1]
          BY <2>9, <4>1
        <4> QED BY <1>0, <4>1, <4>2
      <3> QED BY <3>1, <3>2
    <2>12. to \in [1 .. Len(next) + 1 -> 0 .. Len(W)]
      <3>1. Len(next) + 1 = r + 3
        BY <1>0, <2>0
      <3> QED BY <2>9, <2>11, <3>1
    <2>13. to[1] = k + 1 /\ to[Len(next) + 1] = Len(W)
      <3>1. PICK last : last = r + 3
        OBVIOUS
      <3>2. last \in 3 .. r + 3 /\ last - 1 = r + 2 /\ Len(next) + 1 = last
        BY <1>0, <2>0, <3>1
      <3>3. to[last] = pos[last - 1]
        BY <2>9, <3>2, Zenon
      <3> QED BY <1>0, <2>9, <3>2, <3>3, Zenon
    <2>14. ASSUME NEW m \in 1 .. Len(next)
           PROVE  /\ At(first, next[m]) \in Paths
                  /\ to[m + 1] = to[m] + Len(L[At(first, next[m])])
                  /\ \A l \in 1 .. Len(L[At(first, next[m])]) :
                        W[to[m] + l] = L[At(first, next[m])][l]
      <3>1. CASE m = 1
        <4>1. next[m] = a /\ to[m] = k + 1 /\ to[m + 1] = k + 1 + n1
          BY <2>5, <2>9, <3>1
        <4>2. ASSUME NEW l \in 1 .. n1 PROVE W[k + 1 + l] = L[Append(x, 1)][l]
          <5>1. PICK m1 : m1 = 1 + l
            OBVIOUS
          <5>2. k \in Nat /\ n1 \in Nat /\ n2 \in Nat /\ Len(L[x]) = 1 + n1 + n2
            BY <1>3, <2>7, <2>8
          <5>3. m1 \in 1 .. Len(L[x]) /\ k + m1 = k + 1 + l
            BY <5>1, <5>2
          <5>4. W[k + m1] = L[x][m1]
            BY <1>6, <5>3
          <5>5. L[x][m1] = L[Append(x, 1)][l]
            BY <2>7, <5>1
          <5> QED BY <5>3, <5>4, <5>5
        <4>3. At(first, next[m]) = Append(x, 1) /\ Append(x, 1) \in Paths
          BY <2>6, <2>7, <4>1
        <4>4. to[m + 1] = to[m] + n1
          BY <4>1
        <4> QED BY <2>2, <4>1, <4>2, <4>3, <4>4, Zenon
      <3>2. CASE m = 2
        <4>1. next[m] = b /\ to[m] = k + 1 + n1 /\ to[m + 1] = k + 1 + n1 + n2
          BY <2>5, <2>9, <2>10, <3>2
        <4>2. ASSUME NEW l \in 1 .. n2 PROVE W[k + 1 + n1 + l] = L[Append(x, 2)][l]
          <5>1. PICK m1 : m1 = 1 + n1 + l
            OBVIOUS
          <5>2. k \in Nat /\ n1 \in Nat /\ n2 \in Nat /\ Len(L[x]) = 1 + n1 + n2
            BY <1>3, <2>7, <2>8
          <5>3. m1 \in 1 .. Len(L[x]) /\ k + m1 = k + 1 + n1 + l
            BY <5>1, <5>2
          <5>4. W[k + m1] = L[x][m1]
            BY <1>6, <5>3
          <5>5. L[x][m1] = L[Append(x, 2)][l]
            BY <2>7, <5>1
          <5> QED BY <5>3, <5>4, <5>5
        <4>3. At(first, next[m]) = Append(x, 2) /\ Append(x, 2) \in Paths
          BY <2>6, <2>7, <4>1
        <4>4. to[m + 1] = to[m] + n2
          BY <4>1
        <4> QED BY <2>2, <4>1, <4>2, <4>3, <4>4, Zenon
      <3>3. CASE m # 1 /\ m # 2
        <4>1. /\ m \in 3 .. r + 2 /\ m \in 3 .. r + 3 /\ m + 1 \in 3 .. r + 3
              /\ m - 1 \in 1 .. r + 1 /\ m - 2 \in 1 .. r
              /\ m - 2 + 1 = m - 1 /\ m + 1 - 1 = m - 1 + 1
          BY <1>0, <2>0, <3>3
        <4>2. next[m] = todo[m - 1]
          <5>1. next[m] = rest[m - 2] /\ rest[m - 2] = todo[m - 2 + 1]
            BY <1>0, <2>0, <4>1, Zenon
          <5> QED BY <4>1, <5>1, Zenon
        <4>3. to[m] = pos[m - 1] /\ to[m + 1] = pos[m - 1 + 1]
          <5>1. to[m] = pos[m - 1]
            BY <2>9, <4>1, Zenon
          <5>2. PICK m2 : m2 = m + 1
            OBVIOUS
          <5>3. m2 \in 3 .. r + 3 /\ m2 - 1 = m - 1 + 1
            BY <4>1, <5>2
          <5>4. to[m2] = pos[m2 - 1]
            BY <2>9, <5>3, Zenon
          <5> QED BY <5>1, <5>2, <5>3, <5>4, Zenon
        <4>4. PICK m1 : m1 = m - 1
          OBVIOUS
        <4>5. m1 \in 1 .. Len(todo)
          BY <1>0, <4>1, <4>4
        <4> QED BY <1>2, <4>2, <4>3, <4>4, <4>5, Zenon
      <3> QED BY <3>1, <3>2, <3>3
    <2>15. Lined(L, first, next, k + 1)
      <3>1. /\ to \in [1 .. Len(next) + 1 -> 0 .. Len(L[<<>>])]
            /\ to[1] = k + 1 /\ to[Len(next) + 1] = Len(L[<<>>])
        BY <1>1, <2>12, <2>13
      <3>2. ASSUME NEW m \in 1 .. Len(next)
            PROVE  /\ At(first, next[m]) \in Paths
                   /\ to[m + 1] = to[m] + Len(L[At(first, next[m])])
                   /\ \A l \in 1 .. Len(L[At(first, next[m])]) :
                         L[<<>>][to[m] + l] = L[At(first, next[m])][l]
        BY <1>1, <2>14
      <3> QED BY <3>1, <3>2, Zenon DEF Lined
    <2> QED BY <1>1, <2>15
  <1> QED BY <1>11, <1>12

\* ... and what it reads is right.
LEMMA LineKeepsGrowth ==
  ASSUME NEW e, IsExpression(e), NEW first \in {1, 2}, NEW s \in States, s.todo # <<>>,
         Grows(e, first, s)
  PROVE  Grows(e, first, Line(s, Word(e, At(first, s.todo[1])), first))
  <1>1. PICK path, rest, x, line :
           /\ path = s.todo[1] /\ rest = Tail(s.todo) /\ line = Word(e, At(first, path))
           /\ x = Line(s, line, first)
    OBVIOUS
  <1>2. s.todo \in Seq(Seq(1..2))
    BY DEF States
  <1>3. path \in Seq(1..2) /\ rest \in Seq(Seq(1..2)) /\ Range(s.todo) = {path} \cup Range(rest)
    <2>1. path \in Seq(1..2) /\ rest \in Seq(Seq(1..2))
      BY <1>1, <1>2, TailFacts
    <2>2. PICK n : n = Len(rest)
      OBVIOUS
    <2>3. /\ n \in Nat /\ Len(s.todo) = n + 1
          /\ \A m \in 1 .. n : rest[m] = s.todo[m + 1]
      BY <1>1, <1>2, <2>1, <2>2, TailFacts
    <2>4. DOMAIN rest = 1 .. n /\ DOMAIN s.todo = 1 .. n + 1
      BY <1>2, <2>1, <2>2, <2>3
    <2>5. \A m \in 1 .. n + 1 : s.todo[m] = path \/ (m - 1 \in 1 .. n /\ s.todo[m] = rest[m - 1])
      BY <1>1, <2>3
    <2>6. \A m \in 1 .. n : m + 1 \in 1 .. n + 1 /\ rest[m] = s.todo[m + 1]
      BY <2>3
    <2>7. 1 \in 1 .. n + 1
      BY <2>3
    <2>8. ASSUME NEW v \in Range(s.todo) PROVE v \in {path} \cup Range(rest)
      <3>1. PICK m \in 1 .. n + 1 : v = s.todo[m]
        BY <2>4, <2>8 DEF Range
      <3>2. v = path \/ (m - 1 \in DOMAIN rest /\ v = rest[m - 1])
        BY <2>4, <2>5, <3>1
      <3> QED BY <3>2 DEF Range
    <2>9. ASSUME NEW v \in Range(rest) PROVE v \in Range(s.todo)
      <3>1. PICK m \in 1 .. n : v = rest[m]
        BY <2>4, <2>9 DEF Range
      <3>2. m + 1 \in DOMAIN s.todo /\ v = s.todo[m + 1]
        BY <2>4, <2>6, <3>1
      <3> QED BY <3>2 DEF Range
    <2>10. path \in Range(s.todo)
      BY <1>1, <2>4, <2>7 DEF Range
    <2>11. Range(s.todo) = {path} \cup Range(rest)
      BY <2>8, <2>9, <2>10
    <2> QED BY <2>1, <2>11
  <1>4. line \in Text
    <2>1. CASE At(first, path) \in DOMAIN e
      <3>1. e[At(first, path)] \in DOMAIN Arity
        BY <2>1, ExpressionFacts
      <3> QED BY <1>1, <2>1, <3>1, Zenon DEF Text, Word
    <2>2. CASE At(first, path) \notin DOMAIN e
      BY <1>1, <2>2, Zenon DEF Text, Word
    <2> QED BY <2>1, <2>2
  <1>5. CASE At(first, path) \notin DOMAIN e
    <2>1. line = ""
      BY <1>1, <1>5 DEF Word
    <2>2. x.todo = rest /\ x.tree = s.tree
      BY <1>1, <1>4, <2>1, LineIs
    <2>3. \A q : Known(e, first, s, q) => Known(e, first, x, q)
      BY <1>3, <1>5, <2>2 DEF Known
    <2> QED BY <1>1, <2>2, <2>3 DEF Grows
  <1>6. CASE At(first, path) \in DOMAIN e
    <2>1. line = e[At(first, path)] /\ line # ""
      <3>1. e[At(first, path)] \in DOMAIN Arity
        BY <1>6, ExpressionFacts
      <3>2. "" \notin DOMAIN Arity
        BY DEF Arity
      <3> QED BY <1>1, <1>6, <3>1, <3>2, Zenon DEF Word
    <2>2. PICK a, b : a = Append(path, first) /\ b = Append(path, 3 - first)
      OBVIOUS
    <2>3. x.todo = <<a, b>> \o rest /\ x.tree = With(s.tree, path, line)
      BY <1>1, <1>4, <2>1, <2>2, LineIs
    <2>4. a \in Seq(1..2) /\ b \in Seq(1..2)
      BY <1>3, <2>2
    <2>5. a \in Range(x.todo) /\ b \in Range(x.todo) /\ Range(rest) \subseteq Range(x.todo)
      <3>1. PICK all, n : all = <<a, b>> \o rest /\ n = Len(rest)
        OBVIOUS
      <3>2. /\ all \in Seq(Seq(1..2)) /\ Len(all) = n + 2 /\ all[1] = a /\ all[2] = b
            /\ \A m \in 3 .. n + 2 : all[m] = rest[m - 2]
        BY <1>3, <2>4, <3>1, TwoMore
      <3>3. n \in Nat /\ DOMAIN rest = 1 .. n
        BY <1>3, <3>1
      <3>4. DOMAIN all = 1 .. n + 2
        BY <3>2, <3>3
      <3>5. 1 \in 1 .. n + 2 /\ 2 \in 1 .. n + 2
        BY <3>3
      <3>6. \A m \in 1 .. n : m + 2 \in 1 .. n + 2 /\ all[m + 2] = rest[m]
        BY <3>2, <3>3
      <3>7. all[1] \in Range(all) /\ all[2] \in Range(all)
        BY <3>4, <3>5 DEF Range
      <3>8. ASSUME NEW v \in Range(rest) PROVE v \in Range(all)
        <4>1. PICK m \in 1 .. n : v = rest[m]
          BY <3>3, <3>8 DEF Range
        <4>2. m + 2 \in DOMAIN all /\ v = all[m + 2]
          BY <3>4, <3>6, <4>1
        <4> QED BY <4>2 DEF Range
      <3>9. x.todo = all
        BY <2>3, <3>1
      <3>10. a \in Range(all) /\ b \in Range(all)
        BY <3>2, <3>7, Zenon
      <3> QED BY <3>8, <3>9, <3>10, Zenon
    <2>6. PICK tree : tree = x.tree
      OBVIOUS
    <2>7. /\ DOMAIN tree = DOMAIN s.tree \cup {path} /\ tree[path] = line
          /\ \A q \in DOMAIN s.tree \ {path} : tree[q] = s.tree[q]
      <3>1. tree = With(s.tree, path, line)
        BY <2>3, <2>6, Zenon
      <3>2. DOMAIN tree = DOMAIN s.tree \cup {path}
        BY <3>1, Zenon DEF With
      <3>3. tree[path] = line
        BY <3>1, <3>2 DEF With
      <3>4. \A q \in DOMAIN s.tree \ {path} : tree[q] = s.tree[q]
        BY <3>1, <3>2 DEF With
      <3> QED BY <3>2, <3>3, <3>4
    <2>8. \A q : Known(e, first, s, q) => Known(e, first, x, q)
      BY <1>3, <2>5, <2>6, <2>7 DEF Known
    <2>9. \A side \in 1..2 : Known(e, first, x, Append(path, side))
      <3>1. \A side \in 1..2 : Append(path, side) \in {a, b}
        BY <2>2
      <3> QED BY <2>5, <3>1 DEF Known
    <2>10. /\ \A q \in DOMAIN s.tree : At(first, q) \in DOMAIN e /\ s.tree[q] = e[At(first, q)]
           /\ Known(e, first, s, <<>>)
           /\ \A q \in DOMAIN s.tree, side \in 1..2 : Known(e, first, s, Append(q, side))
      BY DEF Grows
    <2>11. \A q \in DOMAIN tree : At(first, q) \in DOMAIN e /\ tree[q] = e[At(first, q)]
      <3> SUFFICES ASSUME NEW q \in DOMAIN tree
                   PROVE  At(first, q) \in DOMAIN e /\ tree[q] = e[At(first, q)]
        OBVIOUS
      <3>1. CASE q = path
        BY <1>6, <2>1, <2>7, <3>1, Zenon
      <3>2. CASE q # path
        BY <2>7, <2>10, <3>2, Zenon
      <3> QED BY <3>1, <3>2
    <2>12. \A q \in DOMAIN tree, side \in 1..2 : Known(e, first, x, Append(q, side))
      <3> SUFFICES ASSUME NEW q \in DOMAIN tree, NEW side \in 1..2
                   PROVE  Known(e, first, x, Append(q, side))
        OBVIOUS
      <3>1. CASE q = path
        BY <2>9, <3>1, Zenon
      <3>2. CASE q # path
        BY <2>7, <2>8, <2>10, <3>2, Zenon
      <3> QED BY <3>1, <3>2
    <2>13. Grows(e, first, x)
      BY <2>6, <2>8, <2>10, <2>11, <2>12, Zenon DEF Grows
    <2> QED BY <1>1, <2>13
  <1> QED BY <1>5, <1>6

\* The expression with its children on the other side when they were read so.
Seen(e, first) == [q \in {At(first, y) : y \in DOMAIN e} |-> e[At(first, q)]]

\* What is grown when nothing is left to be read is the whole expression.
LEMMA GrownIs ==
  ASSUME NEW e, IsExpression(e), NEW first \in {1, 2}, NEW s \in States, s.todo = <<>>,
         Grows(e, first, s)
  PROVE  s.tree = Seen(e, first)
  <1>1. PICK D \in SUBSET Seq(1..2) : s.tree \in [D -> Text]
    BY DEF States
  <1>2. PICK tree : tree = s.tree
    OBVIOUS
  <1>3. Range(s.todo) = {}
    BY DEF Range
  <1>4. /\ \A q \in DOMAIN tree : At(first, q) \in DOMAIN e /\ tree[q] = e[At(first, q)]
        /\ <<>> \in DOMAIN tree \/ At(first, <<>>) \notin DOMAIN e
        /\ \A q \in DOMAIN tree, side \in 1..2 :
              Append(q, side) \in DOMAIN tree \/ At(first, Append(q, side)) \notin DOMAIN e
    BY <1>2, <1>3 DEF Grows, Known
  <1>5. DOMAIN e \subseteq Paths /\ <<>> \in DOMAIN e /\ DOMAIN tree \subseteq Seq(1..2)
    BY <1>1, <1>2, ExpressionFacts
  <1> DEFINE Done == {n \in 0 .. MAXHEIGHT : \A y \in DOMAIN e : Len(y) = n => At(first, y) \in DOMAIN tree}
  <1>6. MAXHEIGHT \in Nat
    BY SearchAssumption
  <1>7. 0 \in Done
    <2>1. \A y \in Paths : Len(y) = 0 => y = <<>>
      BY PathFacts
    <2>2. At(first, <<>>) = <<>>
      BY AtFacts
    <2> QED BY <1>4, <1>5, <1>6, <2>1, <2>2
  <1>8. ASSUME NEW n \in 0 .. MAXHEIGHT - 1, n \in Done PROVE n + 1 \in Done
    <2>1. ASSUME NEW y \in DOMAIN e, Len(y) = n + 1 PROVE At(first, y) \in DOMAIN tree
      <3>1. y \in Seq(1..2) /\ y # <<>>
        <4>1. y \in Seq(1..2)
          <5>1. y \in Paths
            BY <1>5
          <5> QED BY <5>1, PathsAre
        <4>2. Len(<<>>) = 0
          OBVIOUS
        <4> QED BY <1>6, <2>1, <4>1, <4>2
      <3>2. PICK f, side : f = Front(y) /\ side = Last(y)
        OBVIOUS
      <3>3. y = Append(f, side) /\ f \in Seq(1..2) /\ side \in 1..2 /\ Len(f) = n
        BY <1>6, <2>1, <3>1, <3>2 DEF Front, Last
      <3>4. f \in DOMAIN e
        BY <3>1, <3>2 DEF IsExpression
      <3>5. PICK q : q = At(first, f)
        OBVIOUS
      <3>6. q \in DOMAIN tree /\ q \in Seq(1..2) /\ At(first, q) = f
        BY <1>8, <3>3, <3>4, <3>5, AtFacts
      <3>7. PICK to \in 1..2 : At(first, Append(q, to)) = y
        <4>1. /\ At(first, Append(q, first)) = Append(f, 1)
              /\ At(first, Append(q, 3 - first)) = Append(f, 2)
          BY <3>6, AtFacts
        <4>2. first \in 1..2 /\ 3 - first \in 1..2
          OBVIOUS
        <4>3. CASE side = 1
          BY <3>3, <4>1, <4>2, <4>3
        <4>4. CASE side = 2
          BY <3>3, <4>1, <4>2, <4>4
        <4> QED BY <3>3, <4>3, <4>4
      <3>8. Append(q, to) \in DOMAIN tree
        BY <1>4, <2>1, <3>6, <3>7
      <3>9. Append(q, to) \in Seq(1..2)
        BY <3>6
      <3>10. At(first, y) = Append(q, to)
        BY <3>7, <3>9, AtFacts
      <3> QED BY <3>8, <3>10
    <2>2. n + 1 \in 0 .. MAXHEIGHT
      BY <1>6
    <2> QED BY <2>1, <2>2
  <1>9. \A n \in 0 .. MAXHEIGHT : n \in Done
    <2> HIDE DEF Done
    <2> QED BY <1>6, <1>7, <1>8, UpTo
  <1>10. \A y \in DOMAIN e : At(first, y) \in DOMAIN tree
    <2> SUFFICES ASSUME NEW y \in DOMAIN e PROVE At(first, y) \in DOMAIN tree
      OBVIOUS
    <2>1. Len(y) \in 0 .. MAXHEIGHT
      BY <1>5, <1>6, PathFacts
    <2> QED BY <1>9, <2>1
  <1>11. DOMAIN tree = {At(first, y) : y \in DOMAIN e}
    <2>1. ASSUME NEW q \in DOMAIN tree PROVE \E y \in DOMAIN e : q = At(first, y)
      <3>1. At(first, q) \in DOMAIN e /\ At(first, At(first, q)) = q
        BY <1>4, <1>5, AtFacts
      <3> QED BY <3>1
    <2> QED BY <1>10, <2>1
  <1>12. tree = [q \in DOMAIN tree |-> tree[q]]
    BY <1>1, <1>2
  <1> QED BY <1>2, <1>4, <1>11, <1>12, Zenon DEF Seen

\* What is read is what was written, but for the sides of the children.
LEMMA ReadBack ==
  ASSUME NEW e, IsExpression(e), NEW first \in {1, 2}
  PROVE  readFrom(writeTo(e), first) = Seen(e, first)
  <1>1. PICK L : WrittenBy(e, L) /\ writeTo(e) = L[<<>>]
    BY Written
  <1>2. PICK W, N : W = L[<<>>] /\ N = Len(W)
    OBVIOUS
  <1>3. W \in Seq(Text) /\ N \in Nat
    <2>1. W \in Seq(Text)
      BY <1>1, <1>2, PathFacts DEF WrittenBy
    <2> QED BY <1>2, <2>1
  <1>4. PICK read : Reads(W, first, read) /\ readFrom(W, first) = read[N].tree
    BY <1>2, <1>3, ReadIs
  <1>5. /\ \A k \in 0 .. N : read[k] \in States
        /\ read[0] = [todo |-> <<<<>>>>, tree |-> <<>>]
        /\ \A k \in 1 .. N : read[k] = Line(read[k - 1], W[k], first)
    BY <1>2, <1>4 DEF Reads
  <1> DEFINE Good == {k \in 0 .. N : Lined(L, first, read[k].todo, k) /\ Grows(e, first, read[k])}
  <1>6. 0 \in Good
    <2>1. PICK s, todo : s = read[0] /\ todo = <<<<>>>>
      OBVIOUS
    <2>2. s.todo = todo /\ s.tree = <<>>
      BY <1>5, <2>1
    <2>3. DOMAIN s.tree = {}
      BY <2>2
    <2>4. Len(todo) = 1 /\ todo[1] = <<>> /\ DOMAIN todo = {1}
      BY <2>1
    <2>5. Range(todo) = {<<>>}
      BY <2>4 DEF Range
    <2>6. Grows(e, first, s)
      BY <2>2, <2>3, <2>5 DEF Grows, Known
    <2>7. At(first, todo[1]) = <<>> /\ <<>> \in Paths
      BY <2>4, AtFacts, PathFacts
    <2>8. PICK pos : pos = [m \in 1 .. 2 |-> IF m = 1 THEN 0 ELSE N]
      OBVIOUS
    <2>9. pos \in [1 .. 2 -> 0 .. N] /\ pos[1] = 0 /\ pos[2] = N
      BY <1>3, <2>8
    <2>10. Lined(L, first, todo, 0)
      <3>1. pos \in [1 .. Len(todo) + 1 -> 0 .. Len(L[<<>>])] /\ pos[Len(todo) + 1] = Len(L[<<>>])
        BY <1>2, <2>4, <2>9
      <3>2. ASSUME NEW m \in 1 .. Len(todo)
            PROVE  /\ At(first, todo[m]) \in Paths
                   /\ pos[m + 1] = pos[m] + Len(L[At(first, todo[m])])
                   /\ \A l \in 1 .. Len(L[At(first, todo[m])]) :
                         L[<<>>][pos[m] + l] = L[At(first, todo[m])][l]
        <4>1. m = 1
          BY <2>4
        <4>2. At(first, todo[m]) = <<>> /\ pos[m] = 0 /\ pos[m + 1] = N
          BY <2>7, <2>9, <4>1
        <4>3. \A l \in 1 .. N : 0 + l = l
          OBVIOUS
        <4> QED BY <1>2, <1>3, <2>7, <4>2, <4>3
      <3> QED BY <2>9, <3>1, <3>2, Zenon DEF Lined
    <2>11. 0 \in 0 .. N
      BY <1>3
    <2> QED BY <2>1, <2>2, <2>6, <2>10, <2>11
  <1>7. ASSUME NEW k \in 0 .. N - 1, k \in Good PROVE k + 1 \in Good
    <2>1. PICK s, x : s = read[k] /\ x = read[k + 1]
      OBVIOUS
    <2>2. k + 1 \in 0 .. N /\ k + 1 \in 1 .. N /\ k + 1 - 1 = k /\ k \in 0 .. N
      BY <1>3
    <2>3. s \in States /\ x = Line(s, W[k + 1], first)
      BY <1>5, <2>1, <2>2
    <2>4. Lined(L, first, s.todo, k) /\ Grows(e, first, s)
      BY <1>7, <2>1
    <2>5. k \in 0 .. Len(L[<<>>]) - 1
      BY <1>2
    <2>6. Lined(L, first, x.todo, k + 1)
      BY <1>1, <1>2, <2>3, <2>4, <2>5, LineKeepsOrder
    <2>7. s.todo \in Seq(Seq(1..2))
      BY <2>3 DEF States
    <2>8. s.todo # <<>> /\ W[k + 1] = Word(e, At(first, s.todo[1]))
      BY <1>1, <1>2, <2>4, <2>5, <2>7, NextLine, SMTT(30)
    <2>9. Grows(e, first, x)
      BY <2>3, <2>4, <2>8, LineKeepsGrowth
    <2> QED BY <2>1, <2>2, <2>6, <2>9
  <1>8. N \in Good
    <2> HIDE DEF Good
    <2>1. \A k \in 0 .. N : k \in Good
      BY <1>3, <1>6, <1>7, UpTo
    <2>2. N \in 0 .. N
      BY <1>3
    <2> QED BY <2>1, <2>2
  <1>9. PICK s : s = read[N]
    OBVIOUS
  <1>10. s \in States /\ Lined(L, first, s.todo, N) /\ Grows(e, first, s)
    BY <1>5, <1>8, <1>9
  <1>11. s.todo = <<>>
    <2>1. PICK todo : todo = s.todo
      OBVIOUS
    <2>2. todo \in Seq(Seq(1..2))
      BY <1>10, <2>1 DEF States
    <2>3. PICK pos \in [1 .. Len(todo) + 1 -> 0 .. N] :
             /\ pos[1] = N
             /\ \A m \in 1 .. Len(todo) :
                  /\ At(first, todo[m]) \in Paths
                  /\ pos[m + 1] = pos[m] + Len(L[At(first, todo[m])])
      BY <1>2, <1>10, <2>1 DEF Lined
    <2>4. ASSUME todo # <<>> PROVE FALSE
      <3>1. Len(todo) \in Nat /\ Len(todo) >= 1
        BY <2>2, <2>4, TailFacts
      <3>2. 1 \in 1 .. Len(todo) /\ 1 + 1 \in 1 .. Len(todo) + 1
        BY <3>1
      <3>3. pos[1 + 1] \in 0 .. N
        BY <2>3, <3>2
      <3>4. PICK x : x = At(first, todo[1])
        OBVIOUS
      <3>5. x \in Paths /\ pos[1 + 1] = N + Len(L[x])
        BY <2>3, <3>2, <3>4
      <3>6. Len(L[x]) \in Nat /\ Len(L[x]) >= 1
        BY <1>1, <3>5, LinesOf
      <3> QED BY <1>3, <3>3, <3>5, <3>6
    <2> QED BY <2>1, <2>4
  <1>12. s.tree = Seen(e, first)
    BY <1>10, <1>11, GrownIs
  <1> QED BY <1>1, <1>2, <1>4, <1>9, <1>12

\* The compiler reads the expression that was written, or its mirror image.
LEMMA AsReadIs ==
  ASSUME NEW e, IsExpression(e), readFirst \in {1, 2}
  PROVE  readFrom(writeTo(e), readFirst) = AsRead(e)
  <1>1. CASE readFirst = 1
    <2>1. \A q : At(readFirst, q) = q
      BY <1>1 DEF At
    <2>2. Seen(e, readFirst) = [q \in DOMAIN e |-> e[q]]
      BY <2>1 DEF Seen
    <2>3. e = [q \in DOMAIN e |-> e[q]]
      BY DEF IsExpression
    <2> QED BY <1>1, <2>2, <2>3, ReadBack DEF AsRead
  <1>2. CASE readFirst = 2
    <2>1. \A q : At(readFirst, q) = [k \in DOMAIN q |-> 3 - q[k]]
      BY <1>2 DEF At, Flip
    <2>2. Seen(e, readFirst) = Mirror(e)
      <3>1. PICK D, M : /\ D = {At(readFirst, y) : y \in DOMAIN e}
                        /\ M = {[k \in DOMAIN y |-> 3 - y[k]] : y \in DOMAIN e}
        OBVIOUS
      <3>2. D = M
        BY <2>1, <3>1
      <3>3. Seen(e, readFirst) = [q \in D |-> e[At(readFirst, q)]]
        BY <3>1, Zenon DEF Seen
      <3>4. Mirror(e) = [q \in M |-> e[[k \in DOMAIN q |-> 3 - q[k]]]]
        BY <3>1, Zenon DEF Mirror
      <3>5. \A q : e[At(readFirst, q)] = e[[k \in DOMAIN q |-> 3 - q[k]]]
        BY <2>1
      <3> QED BY <3>2, <3>3, <3>4, <3>5
    <2>3. AsRead(e) = Mirror(e)
      BY <1>2 DEF AsRead
    <2> QED BY <2>2, <2>3, ReadBack
  <1> QED BY <1>1, <1>2

\* It is an expression again.
LEMMA SeenIs ==
  ASSUME NEW e, IsExpression(e), NEW first \in {1, 2}
  PROVE  IsExpression(Seen(e, first))
  <1>1. CASE first = 1
    <2>1. \A q : At(first, q) = q
      BY <1>1 DEF At
    <2>2. Seen(e, first) = [q \in DOMAIN e |-> e[q]]
      BY <2>1 DEF Seen
    <2>3. e = [q \in DOMAIN e |-> e[q]]
      BY DEF IsExpression
    <2> QED BY <2>2, <2>3
  <1>2. CASE first = 2
    <2>1. \A q : At(first, q) = Flip(q)
      BY <1>2 DEF At
    <2>2. PICK m : m = Seen(e, first)
      OBVIOUS
    <2>3. DOMAIN e \subseteq Paths /\ DOMAIN e \subseteq Seq(1..2) /\ <<>> \in DOMAIN e
      BY ExpressionFacts, PathsAre
    <2>4. \A y \in Seq(1..2) : /\ Flip(y) \in Seq(1..2) /\ Len(Flip(y)) = Len(y)
                               /\ Flip(Flip(y)) = y
      BY FlipFacts
    <2>5. DOMAIN m = {Flip(y) : y \in DOMAIN e}
      BY <2>1, <2>2 DEF Seen
    <2>6. \A q \in Seq(1..2) : q \in DOMAIN m <=> Flip(q) \in DOMAIN e
      BY <2>3, <2>4, <2>5
    <2>7. DOMAIN m \subseteq Seq(1..2)
      BY <2>3, <2>4, <2>5
    <2>8. m = [q \in DOMAIN m |-> e[Flip(q)]]
      BY <2>1, <2>2, Zenon DEF Seen
    <2>9. DOMAIN m \subseteq Paths
      <3>1. \A q \in DOMAIN m : Flip(q) \in Paths /\ Len(q) = Len(Flip(q))
        BY <2>3, <2>4, <2>6, <2>7
      <3> QED BY <2>7, <3>1, PathsAre
    <2>10. m \in [DOMAIN m -> DOMAIN Arity] /\ \A q \in DOMAIN m : m[q] = e[Flip(q)]
      <3>1. \A y \in DOMAIN e : e[y] \in DOMAIN Arity
        BY ExpressionFacts
      <3> QED BY <2>6, <2>7, <2>8, <3>1
    <2>11. <<>> \in DOMAIN m
      <3>1. Flip(<<>>) = <<>>
        BY FlipFacts
      <3> QED BY <2>3, <2>5, <3>1
    <2>12. ASSUME NEW q \in DOMAIN m, q # <<>> PROVE Front(q) \in DOMAIN m
      <3>1. PICK f, side : f = Front(q) /\ side = Last(q)
        OBVIOUS
      <3>2. f \in Seq(1..2) /\ side \in 1..2 /\ q = Append(f, side)
        <4>1. q \in Paths \ {<<>>}
          BY <2>9, <2>12
        <4> QED BY <3>1, <4>1, PathFacts, PathsAre
      <3>3. Flip(q) = Append(Flip(f), 3 - side) /\ Flip(f) \in Seq(1..2) /\ 3 - side \in 1..2
        BY <3>2, FlipFacts
      <3>4. Append(Flip(f), 3 - side) \in DOMAIN e /\ Flip(f) \in Seq(1..2)
        BY <2>6, <2>7, <3>3
      <3>5. Append(Flip(f), 3 - side) # <<>> /\ Front(Append(Flip(f), 3 - side)) = Flip(f)
        BY <3>3, PathFacts
      <3>6. Flip(f) \in DOMAIN e
        BY <3>4, <3>5 DEF IsExpression
      <3> QED BY <2>6, <3>1, <3>2, <3>6
    <2>13. ASSUME NEW q \in DOMAIN m
           PROVE  Cardinality({side \in 1..2 : Append(q, side) \in DOMAIN m}) = Arity[m[q]]
      <3>1. PICK y : y = Flip(q)
        OBVIOUS
      <3>2. y \in DOMAIN e /\ y \in Seq(1..2) /\ q \in Seq(1..2)
        BY <2>6, <2>7, <2>3, <3>1
      <3>3. PICK S, T : /\ S = {side \in 1..2 : Append(y, side) \in DOMAIN e}
                        /\ T = {side \in 1..2 : Append(q, side) \in DOMAIN m}
        OBVIOUS
      <3>4. Cardinality(S) = Arity[e[y]]
        BY <3>2, <3>3, ExpressionFacts
      <3>5. \A side \in 1..2 : side \in T <=> 3 - side \in S
        <4> SUFFICES ASSUME NEW side \in 1..2 PROVE side \in T <=> 3 - side \in S
          OBVIOUS
        <4>1. Append(q, side) \in Seq(1..2) /\ Flip(Append(q, side)) = Append(y, 3 - side)
          BY <3>1, <3>2, FlipFacts
        <4>2. 3 - side \in 1..2
          OBVIOUS
        <4> QED BY <2>6, <3>3, <4>1, <4>2
      <3>6. Cardinality(T) = Cardinality(S)
        <4>1. S \subseteq 1..2 /\ T \subseteq 1..2
          BY <3>3
        <4>2. (1 \in T <=> 2 \in S) /\ (2 \in T <=> 1 \in S)
          <5>1. 1 \in 1..2 /\ 2 \in 1..2 /\ 3 - 1 = 2 /\ 3 - 2 = 1
            OBVIOUS
          <5> QED BY <3>5, <5>1
        <4>3. /\ Cardinality({1}) = 1 /\ Cardinality({2}) = 1
          BY FS_Singleton
        <4>0. /\ \A x \in S : x = 1 \/ x = 2
              /\ \A x \in T : x = 1 \/ x = 2
          BY <4>1
        <4>4. S = {} \/ S = {1} \/ S = {2} \/ S = {1, 2}
          BY <4>0
        <4>5. CASE S = {}
          <5>1. T = {}
            BY <4>1, <4>2, <4>5
          <5> QED BY <4>5, <5>1
        <4>6. CASE S = {1}
          <5>1. T = {2}
            BY <4>0, <4>2, <4>6
          <5> QED BY <4>3, <4>6, <5>1
        <4>7. CASE S = {2}
          <5>1. T = {1}
            BY <4>0, <4>2, <4>7
          <5> QED BY <4>3, <4>7, <5>1
        <4>8. CASE S = {1, 2}
          <5>1. T = {1, 2}
            BY <4>0, <4>2, <4>8
          <5> QED BY <4>8, <5>1
        <4> QED BY <4>4, <4>5, <4>6, <4>7, <4>8
      <3>7. m[q] = e[y]
        BY <2>10, <3>1
      <3> QED BY <3>3, <3>4, <3>6, <3>7
    <2>14. \A q \in DOMAIN m : Len(q) < MAXHEIGHT
      <3>1. \A y \in DOMAIN e : Len(y) < MAXHEIGHT
        BY ExpressionFacts
      <3> QED BY <2>4, <2>6, <2>7, <3>1
    <2>15. IsExpression(m)
      BY <2>9, <2>10, <2>11, <2>12, <2>13, <2>14 DEF IsExpression
    <2> QED BY <2>2, <2>15
  <1> QED BY <1>1, <1>2

\* The greatest of some numbers.
LEMMA MaxIs ==
  ASSUME NEW T \in SUBSET Nat, T # {}, IsFiniteSet(T)
  PROVE  Max(T) \in T /\ \A y \in T : Max(T) >= y
  <1>1. PICK n : n = Cardinality(T)
    OBVIOUS
  <1>2. n \in Nat /\ ExistsBijection(1..n, T)
    BY <1>1, FS_CardinalityType
  <1>3. PICK f \in [1..n -> T] : \A y \in T : \E k \in 1..n : f[k] = y
    BY <1>2 DEF ExistsBijection, Bijection, Injection, Surjection
  <1> DEFINE Bounded == {m \in 0..n : \E b \in Nat : \A k \in 1..m : f[k] <= b}
  <1>4. 0 \in Bounded
    <2>1. \A k \in 1..0 : f[k] <= 0
      OBVIOUS
    <2> QED BY <1>2, <2>1
  <1>5. ASSUME NEW m \in 0..n - 1, m \in Bounded PROVE m + 1 \in Bounded
    <2>1. PICK b \in Nat : \A k \in 1..m : f[k] <= b
      BY <1>5
    <2>2. m + 1 \in 1..n /\ f[m + 1] \in Nat
      <3>1. m + 1 \in 1..n
        BY <1>2
      <3>2. f[m + 1] \in T
        BY <3>1
      <3> QED BY <3>1, <3>2
    <2>3. PICK c \in Nat : c >= b /\ c >= f[m + 1]
      <3>1. CASE b >= f[m + 1]
        BY <3>1
      <3>2. CASE b < f[m + 1]
        BY <2>2, <3>2
      <3> QED BY <2>2, <3>1, <3>2
    <2>4. \A k \in 1..(m + 1) : f[k] <= c
      <3> SUFFICES ASSUME NEW k \in 1..(m + 1) PROVE f[k] <= c
        OBVIOUS
      <3>1. k \in 1..n /\ f[k] \in Nat
        <4>1. k \in 1..n
          BY <1>2
        <4>2. f[k] \in T
          BY <4>1
        <4> QED BY <4>1, <4>2
      <3>2. CASE k = m + 1
        BY <2>3, <3>2
      <3>3. CASE k # m + 1
        <4>1. k \in 1..m
          BY <1>2, <3>3
        <4> QED BY <2>1, <2>3, <3>1, <4>1
      <3> QED BY <3>2, <3>3
    <2>5. m + 1 \in 0..n
      BY <1>2
    <2> QED BY <2>4, <2>5
  <1>6. PICK b \in Nat : \A y \in T : y <= b
    <2> HIDE DEF Bounded
    <2>1. \A m \in 0..n : m \in Bounded
      BY <1>2, <1>4, <1>5, UpTo
    <2>2. n \in Bounded
      BY <1>2, <2>1
    <2> QED BY <1>3, <2>2 DEF Bounded
  <1> DEFINE Above == {c \in Nat : \A y \in T : y <= c}
  <1>7. PICK c \in Above : \A d \in Above : c <= d
    <2>1. Above \in SUBSET Nat /\ Above # {}
      BY <1>6
    <2> HIDE DEF Above
    <2> QED BY <2>1, LeastExists
  <1>8. c \in T
    <2> SUFFICES ASSUME c \notin T PROVE FALSE
      OBVIOUS
    <2>1. \A y \in T : y \in Nat /\ y < c
      BY <1>7
    <2>2. PICK y : y \in T
      OBVIOUS
    <2>3. c - 1 \in Nat /\ \A z \in T : z <= c - 1
      BY <1>7, <2>1, <2>2
    <2> QED BY <1>7, <2>3
  <1>9. \A y \in T : c >= y
    BY <1>7
  <1> QED BY <1>8, <1>9, Zenon DEF Max

\* The greater of two naturals.
LEMMA MaxOfTwo ==
  ASSUME NEW a \in Nat, NEW b \in Nat
  PROVE  /\ Max({a, b}) \in Nat /\ Max({a, b}) >= a /\ Max({a, b}) >= b
         /\ Max({a, b}) = a \/ Max({a, b}) = b
  <1>1. PICK T : T = {a, b}
    OBVIOUS
  <1>2. \E x \in T : \A y \in T : x >= y
    <2>1. CASE a >= b
      BY <1>1, <2>1
    <2>2. CASE b >= a
      BY <1>1, <2>2
    <2> QED BY <2>1, <2>2
  <1>3. Max(T) \in T /\ \A y \in T : Max(T) >= y
    BY <1>2, Zenon DEF Max
  <1> QED BY <1>1, <1>3

\* An order of the addresses has each of them.
LEMMA OrderCovers ==
  ASSUME NEW S, IsFiniteSet(S), NEW order \in SetToSeqs(S)
  PROVE  order \in Seq(S) /\ \A t \in S : \E k \in 1..Len(order) : order[k] = t
  <1>1. PICK n : n = Cardinality(S)
    OBVIOUS
  <1>2. n \in Nat /\ IsFiniteSet(1..n) /\ Cardinality(1..n) = n
    <2>1. n \in Nat
      BY <1>1, FS_CardinalityType
    <2>2. 1 \in Int /\ n \in Int
      BY <2>1
    <2>3. IsFiniteSet(1..n) /\ Cardinality(1..n) = IF 1 > n THEN 0 ELSE n - 1 + 1
      BY <2>2, FS_Interval
    <2> QED BY <2>1, <2>3
  <1>3. order \in [1..n -> S] /\ \A k, l \in 1..n : k # l => order[k] # order[l]
    <2>1. order \in {f \in [1..Cardinality(S) -> S] :
                        \A k, l \in 1..Cardinality(S) : k # l => f[k] # f[l]}
      BY Zenon DEF SetToSeqs
    <2> QED BY <1>1, <2>1
  <1>4. order \in Injection(1..n, S)
    BY <1>3 DEF Injection, IsInjective
  <1>5. order \in Surjection(1..n, S)
    BY <1>1, <1>2, <1>4, FS_Injection
  <1>6. \A t \in S : \E k \in 1..n : order[k] = t
    BY <1>5 DEF Surjection
  <1>7. order \in Seq(S) /\ Len(order) = n
    BY <1>2, <1>3
  <1> QED BY <1>6, <1>7

\* What the scan has found after some of the trees.
Best(order, k, s) ==
    ~s.crashed => /\ \A l \in 1..k : fitnesses[order[l]].fit < s.fit + TOL
                  /\ s.tree = NULL => k = 0 /\ s.fit = 0
                  /\ s.tree # NULL => fitnesses[s.tree].fit = s.fit

\* One more tree of the scan keeps what is known of the best one so far.
LEMMA ScannedIs ==
  ASSUME NULL \notin DOMAIN fitnesses, \A t \in DOMAIN fitnesses : fitnesses[t].fit \in Nat,
         NEW order, NEW k \in Nat, \A l \in 1..k + 1 : order[l] \in DOMAIN fitnesses,
         NEW s \in [tree : DOMAIN fitnesses \cup {NULL}, fit : Nat, crashed : BOOLEAN],
         Best(order, k, s)
  PROVE  Best(order, k + 1, Scanned(s, order[k + 1]))
  <1>1. PICK t, fit, x : t = order[k + 1] /\ fit = fitnesses[t].fit /\ x = Scanned(s, t)
    OBVIOUS
  <1>2. t \in DOMAIN fitnesses /\ t # NULL /\ fit \in Nat
    <2>1. k + 1 \in 1..k + 1
      OBVIOUS
    <2> QED BY <1>1, <2>1
  <1>3. s.fit \in Nat /\ TOL = 5
    BY DEF TOL
  <1>4. \A l \in 1..k : order[l] \in DOMAIN fitnesses /\ fitnesses[order[l]].fit \in Nat
    OBVIOUS
  <1>5. \A l \in 1..k + 1 : l \in 1..k \/ order[l] = t
    BY <1>1
  <1>6. ASSUME ~x.crashed, x = s, fit < s.fit + TOL, s.tree # NULL PROVE Best(order, k + 1, x)
    <2>1. \A l \in 1..k : fitnesses[order[l]].fit < s.fit + TOL
      BY <1>6 DEF Best
    <2>2. \A l \in 1..k + 1 : fitnesses[order[l]].fit < x.fit + TOL
      BY <1>1, <1>5, <1>6, <2>1
    <2>3. fitnesses[s.tree].fit = s.fit
      BY <1>6 DEF Best
    <2> QED BY <1>6, <2>2, <2>3 DEF Best
  <1>7. CASE s.crashed
    BY <1>1, <1>7 DEF Scanned, Best
  <1>8. CASE ~s.crashed /\ fit < s.fit
    <2>1. x = s
      BY <1>1, <1>8 DEF Scanned
    <2>2. s.tree # NULL
      BY <1>2, <1>3, <1>8 DEF Best
    <2>3. fit < s.fit + TOL
      BY <1>2, <1>3, <1>8
    <2> QED BY <1>1, <1>6, <1>8, <2>1, <2>2, <2>3
  <1>9. CASE ~s.crashed /\ ~(fit < s.fit) /\ fit - s.fit < TOL /\ s.tree = NULL
    <2>1. x = [s EXCEPT !.crashed = TRUE]
      BY <1>1, <1>9 DEF Scanned
    <2>2. x.crashed
      BY <2>1
    <2> QED BY <1>1, <2>2 DEF Best
  <1>10. CASE /\ ~s.crashed /\ ~(fit < s.fit) /\ fit - s.fit < TOL /\ s.tree # NULL
              /\ getSize(t) >= getSize(s.tree)
    <2>1. x = s
      BY <1>1, <1>10 DEF Scanned
    <2>2. fit < s.fit + TOL
      BY <1>2, <1>3, <1>10
    <2> QED BY <1>1, <1>6, <1>10, <2>1, <2>2
  <1>11. CASE /\ ~s.crashed /\ ~(fit < s.fit)
              /\ ~(fit - s.fit < TOL /\ s.tree = NULL)
              /\ ~(fit - s.fit < TOL /\ getSize(t) >= getSize(s.tree))
    <2>1. x = [s EXCEPT !.tree = t, !.fit = fit]
      BY <1>1, <1>11 DEF Scanned
    <2>2. x.tree = t /\ x.fit = fit /\ x.crashed = s.crashed
      BY <2>1
    <2>3. \A l \in 1..k : fitnesses[order[l]].fit < s.fit + TOL
      BY <1>11 DEF Best
    <2>4. \A l \in 1..k + 1 : fitnesses[order[l]].fit < fit + TOL
      BY <1>1, <1>2, <1>3, <1>4, <1>5, <1>11, <2>3
    <2> QED BY <1>1, <1>2, <2>2, <2>4 DEF Best
  <1> QED BY <1>1, <1>7, <1>8, <1>9, <1>10, <1>11

\* The scan, in any order, finds a tree within the tolerance of the best, or crashes.
LEMMA ScanIs ==
  ASSUME NULL \notin DOMAIN fitnesses, \A t \in DOMAIN fitnesses : fitnesses[t].fit \in Nat,
         NEW order \in Seq(DOMAIN fitnesses)
  PROVE  /\ ScanOf(order) \in [tree : DOMAIN fitnesses \cup {NULL}, fit : Nat, crashed : BOOLEAN]
         /\ Best(order, Len(order), ScanOf(order))
  <1> DEFINE S == [tree : DOMAIN fitnesses \cup {NULL}, fit : Nat, crashed : BOOLEAN]
             base == [tree |-> NULL, fit |-> 0, crashed |-> FALSE]
             N == Len(order)
             step == [k \in 1..N |-> [s \in S |-> Scanned(s, order[k])]]
             G(f) == [k \in 0..N |-> IF k = 0 THEN base ELSE Scanned(f[k - 1], order[k])]
             scan == CHOOSE f : f = G(f)
  <1>1. N \in Nat
    OBVIOUS
  <1>2. base \in S
    OBVIOUS
  <1>3. \A s \in S, t \in DOMAIN fitnesses : Scanned(s, t) \in S
    <2> SUFFICES ASSUME NEW s \in S, NEW t \in DOMAIN fitnesses PROVE Scanned(s, t) \in S
      OBVIOUS
    <2>1. PICK fit : fit = fitnesses[t].fit
      OBVIOUS
    <2>2. fit \in Nat
      BY <2>1
    <2>3. [s EXCEPT !.crashed = TRUE] \in S /\ [s EXCEPT !.tree = t, !.fit = fit] \in S
      BY <2>2
    <2> HIDE DEF S
    <2> QED BY <2>1, <2>3, Zenon DEF Scanned
  <1>4. step \in [1..N -> [S -> S]]
    <2>1. \A k \in 1..N : order[k] \in DOMAIN fitnesses
      OBVIOUS
    <2> HIDE DEF S
    <2> QED BY <1>3, <2>1
  <1>5. PICK f \in [0 .. N -> S] : f[0] = base /\ \A k \in 1 .. N : f[k] = step[k][f[k - 1]]
    <2> HIDE DEF S, base, step, N
    <2>1. Recursive(S, base, N, step)
      BY <1>1, <1>2, <1>4, RecursionExists
    <2> QED BY <2>1 DEF Recursive
  <1>6. f = G(f)
    <2>1. ASSUME NEW k \in 1 .. N PROVE f[k] = Scanned(f[k - 1], order[k])
      <3>1. f[k - 1] \in S
        BY <1>1
      <3> HIDE DEF S, N
      <3> QED BY <1>5, <3>1
    <2> HIDE DEF S, base, step
    <2> QED BY <1>1, <1>5, <2>1
  <1>7. scan = G(scan)
    <2> HIDE DEF G
    <2> QED BY <1>6
  <1>8. ScanOf(order) = scan[N]
    BY DEF ScanOf
  <1> HIDE DEF scan
  <1>9. scan[0] = base /\ \A k \in 1 .. N : scan[k] = Scanned(scan[k - 1], order[k])
    <2>1. PICK n, b : n = N /\ b = base
      OBVIOUS
    <2> HIDE DEF base, N
    <2>2. scan = [k \in 0..n |-> IF k = 0 THEN b ELSE Scanned(scan[k - 1], order[k])]
      BY <1>7, <2>1
    <2>3. n \in Nat /\ 0 \in 0 .. n
      BY <1>1, <2>1
    <2>4. scan[0] = b
      BY <2>2, <2>3
    <2>5. \A k \in 1 .. n : scan[k] = Scanned(scan[k - 1], order[k])
      <3> SUFFICES ASSUME NEW k \in 1 .. n PROVE scan[k] = Scanned(scan[k - 1], order[k])
        OBVIOUS
      <3>1. k \in 0 .. n /\ k # 0
        BY <2>3
      <3> QED BY <2>2, <3>1, Zenon
    <2> QED BY <2>1, <2>4, <2>5
  <1> DEFINE Good == {k \in 0 .. N : scan[k] \in S /\ Best(order, k, scan[k])}
  <1>10. 0 \in Good
    <2>1. base.crashed = FALSE /\ base.tree = NULL /\ base.fit = 0
      OBVIOUS
    <2>2. \A l \in 1..0 : fitnesses[order[l]].fit < 0 + TOL
      OBVIOUS
    <2> HIDE DEF base, S, N
    <2>3. Best(order, 0, base)
      BY <2>1, <2>2 DEF Best
    <2> QED BY <1>1, <1>2, <1>9, <2>3
  <1>11. ASSUME NEW k \in 0 .. N - 1, k \in Good PROVE k + 1 \in Good
    <2>1. k + 1 \in 1 .. N /\ k \in Nat /\ k + 1 - 1 = k /\ order[k + 1] \in DOMAIN fitnesses
      BY <1>1
    <2>2. PICK s : s = scan[k]
      OBVIOUS
    <2>3. s \in S /\ Best(order, k, s) /\ scan[k + 1] = Scanned(s, order[k + 1])
      BY <1>9, <1>11, <2>1, <2>2
    <2>4. \A l \in 1..k + 1 : order[l] \in DOMAIN fitnesses
      BY <1>1
    <2>5. Best(order, k + 1, Scanned(s, order[k + 1]))
      BY <2>1, <2>3, <2>4, ScannedIs
    <2>6. Scanned(s, order[k + 1]) \in S
      BY <1>3, <2>1, <2>3
    <2> HIDE DEF S, N
    <2> QED BY <1>1, <2>1, <2>3, <2>5, <2>6
  <1>12. N \in Good
    <2> HIDE DEF Good, N
    <2>1. \A k \in 0 .. N : k \in Good
      BY <1>1, <1>10, <1>11, UpTo
    <2> QED BY <1>1, <2>1
  <1> QED BY <1>8, <1>12

-----------------------------------------------------------------------------
(***************************************************************************)
(* The invariant.  The trees of the population and the offspring not       *)
(* placed yet are a forest: each node has one parent, the roots have none. *)
(* What the cache holds is of trees of the population.  During a           *)
(* tournament no candidate was better than maxFit by the tolerance.        *)
(***************************************************************************)
Counters ==
    /\ readFirst \in {1, 2}
    /\ pc \in {"first", "second", "scan", "replace", "done", "crashed"}
    /\ gen \in 0..GENERATION /\ i \in Nat /\ j \in 0..TOURNAMENT_SIZE
    /\ p \in [1..2 -> 1..POPULATION] /\ maxFit \in Nat /\ best \in [1..2 -> Nat]
    /\ pc # "done" => gen < GENERATION

\* The offspring that are not placed in the population yet.
Unplaced == {k \in DOMAIN offsprings : pc = "replace" => k > i}
Waiting == {offsprings[k] : k \in Unplaced}
Live == Range(population) \cup Waiting

TreesInv ==
    /\ population \in Seq(Address) /\ Len(population) = POPULATION /\ offsprings \in Seq(Address)
    /\ Forest(heap, Live)
    /\ \A t \in Live : Fits(heap, t)
    /\ \A k, l \in 1..POPULATION : k # l => population[k] # population[l]
    /\ \A k, l \in Unplaced : k # l => offsprings[k] # offsprings[l]
    /\ Waiting \cap Range(population) = {}

CacheInv ==
    /\ DOMAIN fitnesses \subseteq Range(population)
    /\ \A t \in DOMAIN fitnesses : fitnesses[t].fit \in FITNESS /\ fitnesses[t].of = AsRead(Exp(heap, t))
    /\ (pc = "first" /\ j > 0) \/ pc \in {"second", "scan"} => DOMAIN fitnesses # {}
    /\ maxTree \in Range(population) \cup {NULL}

Met(k) == maxFit = 0 \/ FitnessOf(population[p[k]]) = maxFit
TournamentInv ==
    /\ pc = "first" => best[2] = best[1] /\ best[1] < maxFit + TOL /\ Met(1)
    /\ pc = "second" => /\ best[1] >= TOL => FitnessOf(population[p[1]]) > best[1] - TOL
                        /\ best[2] < maxFit + TOL
                        /\ Met(1) \/ Met(2)

SearchInv == Counters /\ TreesInv /\ CacheInv /\ TournamentInv /\ EliteKept

\* The population.
LEMMA PopulationIs ==
  ASSUME TreesInv
  PROVE  /\ POPULATION \in Nat /\ POPULATION >= 2 /\ DOMAIN population = 1..POPULATION
         /\ \A k \in 1..POPULATION : population[k] \in Range(population)
         /\ \A t \in Range(population) : t \in Address /\ \E k \in 1..POPULATION : t = population[k]
         /\ Range(population) \subseteq Live /\ Live \subseteq DOMAIN heap /\ NULL \notin DOMAIN heap
  <1>1. POPULATION \in Nat /\ POPULATION >= 2
    BY SearchAssumption
  <1>2. DOMAIN population = 1..POPULATION /\ population \in [1..POPULATION -> Address]
    BY <1>1 DEF TreesInv
  <1>3. NULL \notin DOMAIN heap
    BY NullIsNone DEF TreesInv
  <1>4. Live \subseteq DOMAIN heap
    BY DEF TreesInv, Forest
  <1> QED BY <1>1, <1>2, <1>3, <1>4 DEF Range, Live

\* Their expressions, and what is read of them.
LEMMA LiveExpression ==
  ASSUME TreesInv, Counters, NEW t \in Live
  PROVE  /\ t \in DOMAIN heap /\ IsExpression(Exp(heap, t))
         /\ readFrom(writeTo(Exp(heap, t)), readFirst) = AsRead(Exp(heap, t))
  <1>1. t \in DOMAIN heap
    BY PopulationIs
  <1>2. Forest(heap, Live) /\ Fits(heap, t)
    BY DEF TreesInv
  <1>3. IsExpression(Exp(heap, t))
    BY <1>1, <1>2, ExpIs
  <1>4. readFirst \in {1, 2}
    BY DEF Counters
  <1> QED BY <1>1, <1>3, <1>4, AsReadIs

\* The trees are those they were.
LEMMA SameTrees ==
  ASSUME TreesInv, UNCHANGED <<heap, population, offsprings>>, Unplaced' = Unplaced
  PROVE  TreesInv' /\ Live' = Live /\ Waiting' = Waiting
  <1>1. Waiting' = Waiting
    BY DEF Waiting
  <1>2. Live' = Live
    BY <1>1 DEF Live
  <1>3. \A t : Fits(heap, t)' <=> Fits(heap, t)
    BY DEF Fits, Places, Tree, Deeper
  <1> QED BY <1>1, <1>2, <1>3 DEF TreesInv, Forest, NodeOf

\* A draw.
LEMMA DrawKeeps ==
  ASSUME SearchInv, NEW k \in {1, 2}, NEW r \in 1..POPULATION, Draw(k, r)
  PROVE  SearchInv'
  <1>1. Counters /\ TreesInv /\ CacheInv /\ TournamentInv
    BY DEF SearchInv
  <1>2. PICK f \in computeFitness(population[r]) :
           LET won == Wins(r, f.fit, p[k])
           IN  /\ fitnesses' = With(fitnesses, population[r], f)
               /\ maxFit' = IF won THEN f.fit ELSE maxFit
               /\ p' = IF won THEN [p EXCEPT ![k] = r] ELSE p
               /\ best' = [l \in 1..2 |-> IF l >= k THEN Max({f.fit, best[l]}) ELSE best[l]]
    BY DEF Draw
  <1>3. /\ pc = IF k = 1 THEN "first" ELSE "second"
        /\ j < TOURNAMENT_SIZE /\ j' = j + 1
        /\ UNCHANGED <<heap, population, offsprings, readFirst, pc, gen, i, maxTree>>
    BY DEF Draw
  <1>4. PICK t : t = population[r]
    OBVIOUS
  <1>5. t \in Range(population) /\ t \in Live /\ t # NULL
    BY <1>1, <1>4, PopulationIs
  <1>6. f.fit \in FITNESS /\ f.of = AsRead(Exp(heap, t)) /\ (t \in DOMAIN fitnesses => f = fitnesses[t])
    <2>1. CASE t \in DOMAIN fitnesses
      <3>1. f = fitnesses[t]
        BY <1>2, <1>4, <2>1 DEF computeFitness
      <3> QED BY <1>1, <2>1, <3>1 DEF CacheInv
    <2>2. CASE t \notin DOMAIN fitnesses
      <3>1. f \in [fit : FITNESS, of : {readFrom(writeTo(Exp(heap, t)), readFirst)}]
        BY <1>2, <1>4, <2>2 DEF computeFitness
      <3>2. readFrom(writeTo(Exp(heap, t)), readFirst) = AsRead(Exp(heap, t))
        BY <1>1, <1>5, LiveExpression
      <3> QED BY <2>2, <3>1, <3>2
    <2> QED BY <2>1, <2>2
  <1>7. f.fit \in Nat
    BY <1>6, SearchAssumption
  <1>8. PICK won : won = Wins(r, f.fit, p[k])
    OBVIOUS
  <1>9. /\ DOMAIN fitnesses' = DOMAIN fitnesses \cup {t} /\ fitnesses'[t] = f
        /\ \A s \in DOMAIN fitnesses : fitnesses'[s] = fitnesses[s]
    <2>1. fitnesses' = [s \in DOMAIN fitnesses \cup {t} |-> IF s = t THEN f ELSE fitnesses[s]]
      BY <1>2, <1>4 DEF With
    <2> QED BY <1>6, <2>1
  <1>10. \A s \in DOMAIN fitnesses : FitnessOf(s)' = FitnessOf(s)
    BY <1>9 DEF FitnessOf
  <1>11. FitnessOf(t)' = f.fit
    BY <1>9 DEF FitnessOf
  <1>12. \A s : FitnessOf(s) # 0 => FitnessOf(s)' = FitnessOf(s)
    BY <1>10, Zenon DEF FitnessOf
  <1>13. maxFit \in Nat /\ best \in [1..2 -> Nat] /\ p \in [1..2 -> 1..POPULATION]
    BY <1>1 DEF Counters
  <1>14. \A l \in 1..2 : /\ Max({f.fit, best[l]}) \in Nat
                         /\ Max({f.fit, best[l]}) = f.fit \/ Max({f.fit, best[l]}) = best[l]
    BY <1>7, <1>13, MaxOfTwo
  <1>15. /\ maxFit' \in Nat /\ p' \in [1..2 -> 1..POPULATION] /\ best' \in [1..2 -> Nat]
         /\ won => maxFit' = f.fit /\ p'[k] = r
         /\ ~won => maxFit' = maxFit /\ p' = p
         /\ \A l \in 1..2 : l # k => p'[l] = p[l]
    <2>1. CASE won
      <3>1. maxFit' = f.fit /\ p' = [p EXCEPT ![k] = r]
        BY <1>2, <1>8, <2>1
      <3>2. best' \in [1..2 -> Nat]
        BY <1>2, <1>13, <1>14
      <3> QED BY <1>7, <1>13, <2>1, <3>1, <3>2
    <2>2. CASE ~won
      <3>1. maxFit' = maxFit /\ p' = p
        BY <1>2, <1>8, <2>2
      <3>2. best' \in [1..2 -> Nat]
        BY <1>2, <1>13, <1>14
      <3> QED BY <1>13, <2>2, <3>1, <3>2
    <2> QED BY <2>1, <2>2
  <1>16. \A l \in 1..2 : best'[l] = IF l >= k THEN Max({f.fit, best[l]}) ELSE best[l]
    BY <1>2
  <1>17. f.fit < maxFit' + TOL /\ maxFit <= maxFit'
    <2>1. CASE won
      <3>1. f.fit >= maxFit
        BY <1>8, <2>1 DEF Wins
      <3> QED BY <1>7, <1>13, <1>15, <2>1, <3>1 DEF TOL
    <2>2. CASE ~won
      <3>1. ~(f.fit >= maxFit) \/ f.fit - maxFit < TOL
        BY <1>8, <2>2 DEF Wins
      <3> QED BY <1>7, <1>13, <1>15, <2>2, <3>1 DEF TOL
    <2> QED BY <2>1, <2>2
  <1>18. TOL \in Nat /\ TOL = 5
    BY DEF TOL
  <1>19. Counters'
    <2>1. j' \in 0..TOURNAMENT_SIZE
      BY <1>1, <1>3, SearchAssumption DEF Counters
    <2>2. pc' = pc /\ gen' = gen /\ i' = i /\ readFirst' = readFirst
      BY <1>3
    <2> QED BY <1>1, <1>15, <2>1, <2>2 DEF Counters
  <1>20. TreesInv' /\ Range(population)' = Range(population)
    <2>1. UNCHANGED <<heap, population, offsprings>> /\ Unplaced' = Unplaced
      BY <1>3 DEF Unplaced
    <2> QED BY <1>1, <2>1, SameTrees
  <1>21. CacheInv'
    <2>1. \A s : AsRead(Exp(heap, s))' = AsRead(Exp(heap, s))
      BY <1>3 DEF AsRead, Mirror, Exp, Tree, Deeper
    <2>2. \A s \in DOMAIN fitnesses' : /\ fitnesses'[s].fit \in FITNESS
                                       /\ fitnesses'[s].of = AsRead(Exp(heap, s))
      BY <1>1, <1>6, <1>9 DEF CacheInv
    <2>3. \A s \in DOMAIN fitnesses' : (fitnesses[s].of = AsRead(Exp(heap, s)))'
      BY <2>1, <2>2
    <2>4. DOMAIN fitnesses' # {} /\ DOMAIN fitnesses' \subseteq Range(population)
      BY <1>1, <1>5, <1>9 DEF CacheInv
    <2>5. maxTree' \in Range(population)' \cup {NULL}
      BY <1>1, <1>3, <1>20 DEF CacheInv
    <2> QED BY <1>20, <2>2, <2>3, <2>4, <2>5 DEF CacheInv
  <1>22. \A l \in 1..2 : Met(l) \/ won => Met(IF won THEN k ELSE l)'
    <2> SUFFICES ASSUME NEW l \in 1..2, Met(l) \/ won PROVE Met(IF won THEN k ELSE l)'
      OBVIOUS
    <2>1. CASE won
      <3>1. population'[p'[k]] = t /\ maxFit' = f.fit
        BY <1>3, <1>4, <1>15, <2>1
      <3>2. FitnessOf(population[p[k]])' = maxFit'
        BY <1>11, <3>1 DEF FitnessOf
      <3> QED BY <2>1, <3>2 DEF Met
    <2>2. CASE ~won
      <3>1. population'[p'[l]] = population[p[l]] /\ maxFit' = maxFit
        BY <1>3, <1>15, <2>2
      <3>2. PICK s : s = population[p[l]]
        OBVIOUS
      <3>3. maxFit = 0 \/ FitnessOf(s) = maxFit
        BY <2>2, <3>2 DEF Met
      <3>4. maxFit = 0 \/ FitnessOf(s)' = maxFit
        BY <1>12, <3>3
      <3>5. FitnessOf(population[p[l]])' = FitnessOf(s)'
        BY <3>1, <3>2 DEF FitnessOf
      <3>6. Met(l)'
        BY <3>1, <3>4, <3>5 DEF Met
      <3> QED BY <2>2, <3>6
    <2> QED BY <2>1, <2>2
  <1>23. TournamentInv'
    <2>1. CASE k = 1
      <3>1. pc = "first" /\ pc' = "first"
        BY <1>3, <2>1
      <3>2. best[2] = best[1] /\ best[1] < maxFit + TOL /\ Met(1)
        BY <1>1, <3>1 DEF TournamentInv
      <3>3. best'[1] = Max({f.fit, best[1]}) /\ best'[2] = Max({f.fit, best[1]})
        BY <1>16, <2>1, <3>2
      <3>4. best'[1] < maxFit' + TOL
        BY <1>7, <1>13, <1>14, <1>15, <1>17, <1>18, <3>2, <3>3
      <3>5. Met(1)'
        BY <1>22, <2>1, <3>2
      <3> QED BY <3>1, <3>3, <3>4, <3>5 DEF TournamentInv
    <2>2. CASE k = 2
      <3>1. pc = "second" /\ pc' = "second"
        BY <1>3, <2>2
      <3>2. /\ best[1] >= TOL => FitnessOf(population[p[1]]) > best[1] - TOL
            /\ best[2] < maxFit + TOL
            /\ Met(1) \/ Met(2)
        BY <1>1, <3>1 DEF TournamentInv
      <3>3. best'[1] = best[1] /\ best'[2] = Max({f.fit, best[2]})
        BY <1>16, <2>2
      <3>4. best'[2] < maxFit' + TOL
        BY <1>7, <1>13, <1>14, <1>15, <1>17, <1>18, <3>2, <3>3
      <3>5. Met(1)' \/ Met(2)'
        BY <1>22, <2>2, <3>2
      <3>6. ASSUME best[1] >= TOL PROVE FitnessOf(population[p[1]])' > best[1] - TOL
        <4>1. PICK s : s = population[p[1]]
          OBVIOUS
        <4>2. FitnessOf(s) > best[1] - TOL
          BY <3>2, <3>6, <4>1
        <4>3. FitnessOf(s) # 0
          BY <1>13, <1>18, <3>6, <4>2
        <4>4. FitnessOf(s)' = FitnessOf(s)
          BY <1>12, <4>3
        <4>5. population'[p'[1]] = s
          BY <1>3, <1>15, <2>2, <4>1
        <4>6. FitnessOf(population[p[1]])' = FitnessOf(s)'
          BY <4>5 DEF FitnessOf
        <4> QED BY <4>2, <4>4, <4>6
      <3>7. (best[1] >= TOL => FitnessOf(population[p[1]]) > best[1] - TOL)'
        BY <3>3, <3>6 DEF TOL
      <3> QED BY <3>1, <3>4, <3>5, <3>7 DEF TournamentInv
    <2> QED BY <2>1, <2>2
  <1>24. EliteKept'
    BY <1>3 DEF EliteKept
  <1> QED BY <1>19, <1>20, <1>21, <1>23, <1>24 DEF SearchInv

\* The second tournament starts.
LEMMA SecondKeeps ==
  ASSUME SearchInv, SecondTournament
  PROVE  SearchInv'
  <1>1. Counters /\ TreesInv /\ CacheInv /\ TournamentInv
    BY DEF SearchInv
  <1>2. /\ pc = "first" /\ j = TOURNAMENT_SIZE /\ pc' = "second" /\ j' = 0
        /\ UNCHANGED <<heap, population, offsprings, fitnesses, readFirst, gen, i, p, maxFit, maxTree, best>>
    BY DEF SecondTournament
  <1>3. TOURNAMENT_SIZE \in Nat \ {0}
    BY SearchAssumption
  <1>4. Counters'
    BY <1>1, <1>2, <1>3 DEF Counters
  <1>5. TreesInv' /\ Range(population)' = Range(population)
    <2>1. Unplaced' = Unplaced
      BY <1>2 DEF Unplaced
    <2> QED BY <1>1, <1>2, <2>1, SameTrees
  <1>6. CacheInv'
    <2>1. \A s : AsRead(Exp(heap, s))' = AsRead(Exp(heap, s))
      BY <1>2 DEF AsRead, Mirror, Exp, Tree, Deeper
    <2>2. DOMAIN fitnesses # {} /\ maxTree \in Range(population) \cup {NULL}
      BY <1>1, <1>2, <1>3 DEF CacheInv
    <2>3. /\ DOMAIN fitnesses' \subseteq Range(population)
          /\ \A s \in DOMAIN fitnesses' : /\ fitnesses'[s].fit \in FITNESS
                                          /\ fitnesses'[s].of = AsRead(Exp(heap, s))
      BY <1>1, <1>2 DEF CacheInv
    <2> QED BY <1>2, <1>5, <2>1, <2>2, <2>3 DEF CacheInv
  <1>7. TournamentInv'
    <2>1. best[2] = best[1] /\ best[1] < maxFit + TOL /\ Met(1)
      BY <1>1, <1>2 DEF TournamentInv
    <2>2. maxFit \in Nat /\ best[1] \in Nat
      BY <1>1 DEF Counters
    <2>3. ASSUME best[1] >= TOL PROVE FitnessOf(population[p[1]]) > best[1] - TOL
      <3>1. maxFit > best[1] - TOL /\ maxFit # 0
        BY <2>1, <2>2, <2>3 DEF TOL
      <3>2. FitnessOf(population[p[1]]) = maxFit
        BY <2>1, <3>1 DEF Met
      <3> QED BY <3>1, <3>2
    <2>4. (best[1] >= TOL => FitnessOf(population[p[1]]) > best[1] - TOL)'
      BY <1>2, <2>3 DEF TOL, FitnessOf
    <2>5. Met(1)'
      BY <1>2, <2>1 DEF Met, FitnessOf
    <2>6. (best[2] < maxFit + TOL)'
      BY <1>2, <2>1 DEF TOL
    <2> QED BY <1>2, <2>4, <2>5, <2>6 DEF TournamentInv
  <1>8. EliteKept'
    BY <1>2 DEF EliteKept
  <1> QED BY <1>4, <1>5, <1>6, <1>7, <1>8 DEF SearchInv

\* The first tournament starts, with nothing met.
LEMMA Fresh ==
  ASSUME NEW n, Tournament(n), pc' # "second"
  PROVE  /\ j' = 0 /\ p' \in [1..2 -> 1..POPULATION] /\ maxFit' = 0 /\ best' \in [1..2 -> Nat]
         /\ TournamentInv'
  <1>1. p' = <<1, 1>> /\ best' = <<0, 0>> /\ maxFit' = 0 /\ j' = 0
    BY DEF Tournament
  <1>2. best'[1] = 0 /\ best'[2] = 0 /\ 0 < 0 + TOL
    BY <1>1 DEF TOL
  <1>3. Met(1)'
    BY <1>1 DEF Met
  <1>4. TournamentInv'
    BY <1>1, <1>2, <1>3 DEF TournamentInv
  <1>5. POPULATION \in Nat /\ 1 \in 1..POPULATION
    BY SearchAssumption
  <1>6. p' \in [1..2 -> 1..POPULATION]
    BY <1>1, <1>5
  <1> QED BY <1>1, <1>4, <1>6

\* What the cache holds is of trees that are kept as they are.
LEMMA CacheStays ==
  ASSUME CacheInv, NEW R, Forest(heap, R), NEW S, Forest(heap', S),
         NEW D, D \subseteq DOMAIN fitnesses, \A t \in D : Keeps(heap, heap', t), readFirst' = readFirst,
         DOMAIN fitnesses' = D, \A t \in D : fitnesses'[t] = fitnesses[t]
  PROVE  \A t \in DOMAIN fitnesses' : (fitnesses[t].fit \in FITNESS /\ fitnesses[t].of = AsRead(Exp(heap, t)))'
  <1> SUFFICES ASSUME NEW t \in D
               PROVE  (fitnesses[t].fit \in FITNESS /\ fitnesses[t].of = AsRead(Exp(heap, t)))'
    OBVIOUS
  <1>1. PICK h : h = heap'
    OBVIOUS
  <1>2. Keeps(heap, h, t) /\ Forest(h, S)
    BY <1>1
  <1>3. Exp(h, t) = Exp(heap, t)
    BY <1>2, KeptTree
  <1>4. Exp(heap, t)' = Exp(h, t) /\ Mirror(Exp(heap, t))' = Mirror(Exp(h, t))
    BY <1>1 DEF Mirror, Exp, Tree, Deeper
  <1>5. AsRead(Exp(heap, t))' = AsRead(Exp(heap, t))
    BY <1>3, <1>4 DEF AsRead
  <1>6. fitnesses[t].fit \in FITNESS /\ fitnesses[t].of = AsRead(Exp(heap, t)) /\ fitnesses'[t] = fitnesses[t]
    BY DEF CacheInv
  <1> QED BY <1>5, <1>6

\* The new offspring come after the others.
LEMMA Both ==
  ASSUME NEW A, NEW a \in Seq(A), NEW b \in Seq(A)
  PROVE  /\ a \o b \in Seq(A) /\ Len(a \o b) = Len(a) + Len(b)
         /\ \A k \in 1..Len(a) : (a \o b)[k] = a[k]
         /\ \A k \in Len(a) + 1 .. Len(a) + Len(b) : k - Len(a) \in 1..Len(b) /\ (a \o b)[k] = b[k - Len(a)]
         /\ Range(a \o b) = Range(a) \cup Range(b)
  <1>1. PICK c, n, m : c = a \o b /\ n = Len(a) /\ m = Len(b)
    OBVIOUS
  <1>2. /\ n \in Nat /\ m \in Nat /\ DOMAIN a = 1..n /\ DOMAIN b = 1..m
    BY <1>1
  <1>3. /\ c \in Seq(A) /\ Len(c) = n + m
        /\ \A k \in 1 .. n + m : c[k] = IF k <= n THEN a[k] ELSE b[k - n]
    BY <1>1, ConcatProperties
  <1>4. \A k \in 1..n : k \in 1 .. n + m /\ c[k] = a[k]
    BY <1>2, <1>3
  <1>5. \A k \in n + 1 .. n + m : k - n \in 1..m /\ c[k] = b[k - n]
    BY <1>2, <1>3
  <1>6. DOMAIN c = 1 .. n + m
    BY <1>2, <1>3
  <1>7. ASSUME NEW v \in Range(c) PROVE v \in Range(a) \cup Range(b)
    <2>1. PICK k \in 1 .. n + m : v = c[k]
      BY <1>6, <1>7 DEF Range
    <2>2. CASE k <= n
      <3>1. k \in 1..n
        BY <1>2, <2>2
      <3> QED BY <1>2, <1>4, <2>1, <3>1 DEF Range
    <2>3. CASE ~(k <= n)
      <3>1. k \in n + 1 .. n + m
        BY <1>2, <2>3
      <3> QED BY <1>2, <1>5, <2>1, <3>1 DEF Range
    <2> QED BY <2>2, <2>3
  <1>8. ASSUME NEW v \in Range(a) PROVE v \in Range(c)
    <2>1. PICK k \in 1..n : v = a[k]
      BY <1>2, <1>8 DEF Range
    <2> QED BY <1>4, <1>6, <2>1 DEF Range
  <1>9. ASSUME NEW v \in Range(b) PROVE v \in Range(c)
    <2>1. PICK k \in 1..m : v = b[k]
      BY <1>2, <1>9 DEF Range
    <2>2. PICK q : q = n + k
      OBVIOUS
    <2>3. q \in n + 1 .. n + m /\ q \in 1 .. n + m /\ q - n = k
      BY <1>2, <2>2
    <2>4. q \in DOMAIN c /\ c[q] = v
      BY <1>5, <1>6, <2>1, <2>3
    <2> QED BY <2>4 DEF Range
  <1>10. Range(c) = Range(a) \cup Range(b)
    BY <1>7, <1>8, <1>9
  <1> QED BY <1>1, <1>3, <1>4, <1>5, <1>10

\* Two trees have children.
LEMMA MateKeeps ==
  ASSUME SearchInv, Mate
  PROVE  SearchInv'
  <1>1. Counters /\ TreesInv /\ CacheInv
    BY DEF SearchInv
  <1>2. /\ pc = "second" /\ crossover(population[p[1]], population[p[2]]) /\ Tournament(i + 2)
        /\ pc' \in {"first", "scan"} /\ pc' # "second" /\ i' = i + 2
        /\ population' = population /\ fitnesses' = fitnesses /\ readFirst' = readFirst
        /\ gen' = gen /\ maxTree' = maxTree
    BY DEF Mate, Tournament
  <1>3. /\ j' = 0 /\ p' \in [1..2 -> 1..POPULATION] /\ maxFit' = 0 /\ best' \in [1..2 -> Nat]
        /\ TournamentInv'
    BY <1>2, Fresh
  <1>4. Counters'
    <2>1. i' \in Nat /\ j' \in 0..TOURNAMENT_SIZE
      BY <1>1, <1>2, <1>3, SearchAssumption DEF Counters
    <2>2. maxFit' \in Nat
      BY <1>3
    <2> QED BY <1>1, <1>2, <1>3, <2>1, <2>2 DEF Counters
  <1>5. offsprings \in Seq(Address) /\ population \in Seq(Address) /\ Len(population) = POPULATION
    BY <1>1 DEF TreesInv
  <1>6. Unplaced = DOMAIN offsprings /\ Unplaced' = DOMAIN offsprings'
    BY <1>2 DEF Unplaced
  <1>7. Waiting = Range(offsprings) /\ Waiting' = Range(offsprings')
    BY <1>6 DEF Waiting, Range
  <1>8. population[p[1]] \in Live /\ population[p[2]] \in Live
    <2>1. p[1] \in 1..POPULATION /\ p[2] \in 1..POPULATION
      BY <1>1 DEF Counters
    <2> QED BY <1>1, <2>1, PopulationIs
  <1>9. PICK R : R = Live
    OBVIOUS
  <1>10. Forest(heap, R) /\ \A t \in R : Fits(heap, t)
    BY <1>1, <1>9 DEF TreesInv
  <1>11. PICK new, x : /\ new \in Seq(Address) /\ offsprings' = offsprings \o new
                        /\ heap' = Kept(x, Range(population) \cup Range(offsprings'))
                        /\ Bears(heap, R, new, x)
    BY <1>2, <1>8, <1>9, <1>10, CrossoverIs
  <1>12. PICK n, m, all : n = Len(offsprings) /\ m = Len(new) /\ all = offsprings'
    OBVIOUS
  <1>13. n \in Nat /\ m \in Nat /\ DOMAIN offsprings = 1..n /\ DOMAIN new = 1..m
    BY <1>5, <1>11, <1>12
  <1>14. /\ all \in Seq(Address) /\ Len(all) = n + m /\ Range(all) = Range(offsprings) \cup Range(new)
         /\ \A k \in 1..n : all[k] = offsprings[k]
         /\ \A k \in n + 1 .. n + m : k - n \in 1..m /\ all[k] = new[k - n]
    BY <1>5, <1>11, <1>12, Both
  <1>15. DOMAIN all = 1 .. n + m
    BY <1>13, <1>14
  <1>16. PICK Q : Q = R \cup Range(new)
    OBVIOUS
  <1>17. Q = Range(population) \cup Range(all) /\ Live' = Q
    <2>1. R = Range(population) \cup Range(offsprings)
      BY <1>7, <1>9 DEF Live
    <2>2. Live' = Range(population') \cup Range(offsprings')
      BY <1>7 DEF Live
    <2> QED BY <1>2, <1>12, <1>14, <1>16, <2>1, <2>2
  <1>18. /\ \A k \in 1..m : new[k] \notin DOMAIN heap
         /\ \A k, l \in 1..m : k # l => new[k] # new[l]
         /\ Forest(x, Q) /\ \A t \in Q : Fits(x, t)
    BY <1>11, <1>12, <1>16 DEF Bears
  <1>19. \A t \in R : Keeps(heap, x, t)
    BY <1>11 DEF Bears
  <1>20. PICK h : h = heap'
    OBVIOUS
  <1>21. h = Kept(x, Q)
    BY <1>11, <1>12, <1>17, <1>20
  <1>22. Forest(h, Q) /\ \A t \in Q : Keeps(x, h, t)
    BY <1>18, <1>21, KeptIs
  <1>23. \A t \in Q : Fits(h, t)
    <2> SUFFICES ASSUME NEW t \in Q PROVE Fits(h, t)
      OBVIOUS
    <2>1. Keeps(x, h, t) /\ Fits(x, t) /\ Forest(x, Q) /\ Forest(h, Q)
      BY <1>18, <1>22
    <2> QED BY <2>1, KeptTree
  <1>24. \A t \in R : Keeps(heap, h, t)
    <2> SUFFICES ASSUME NEW t \in R PROVE Keeps(heap, h, t)
      OBVIOUS
    <2>1. Keeps(heap, x, t)
      BY <1>19
    <2>2. Keeps(x, h, t)
      BY <1>16, <1>22
    <2>3. Forest(heap, R) /\ Forest(x, Q)
      BY <1>10, <1>18
    <2> QED BY <2>1, <2>2, <2>3, KeepsOn
  <1>25. /\ \A t \in R : t \in DOMAIN heap
         /\ \A t \in Range(population) : t \in R
         /\ \A k \in 1..n : offsprings[k] \in R
    <2>1. \A k \in 1..n : offsprings[k] \in Range(offsprings)
      BY <1>13 DEF Range
    <2> QED BY <1>1, <1>7, <1>9, <2>1, PopulationIs DEF Live
  <1>26. \A k, l \in 1 .. n + m : k # l => all[k] # all[l]
    <2> SUFFICES ASSUME NEW k \in 1 .. n + m, NEW l \in 1 .. n + m, k # l PROVE all[k] # all[l]
      OBVIOUS
    <2>1. \A q \in 1 .. n + m : q \in 1..n \/ q \in n + 1 .. n + m
      BY <1>13
    <2>2. CASE k \in 1..n /\ l \in 1..n
      <3>1. offsprings[k] # offsprings[l]
        BY <1>1, <1>6, <1>13, <2>2 DEF TreesInv
      <3> QED BY <1>14, <2>2, <3>1
    <2>3. CASE k \in 1..n /\ l \in n + 1 .. n + m
      BY <1>14, <1>18, <1>25, <2>3
    <2>4. CASE l \in 1..n /\ k \in n + 1 .. n + m
      BY <1>14, <1>18, <1>25, <2>4
    <2>5. CASE k \in n + 1 .. n + m /\ l \in n + 1 .. n + m
      <3>1. k - n \in 1..m /\ l - n \in 1..m /\ k - n # l - n
        BY <1>13, <2>5
      <3>2. new[k - n] # new[l - n]
        BY <1>18, <3>1
      <3> QED BY <1>14, <2>5, <3>2
    <2> QED BY <2>1, <2>2, <2>3, <2>4, <2>5
  <1>27. Range(all) \cap Range(population) = {}
    <2>1. Range(offsprings) \cap Range(population) = {}
      BY <1>1, <1>7 DEF TreesInv
    <2>2. \A t \in Range(new) : t \notin DOMAIN heap
      BY <1>13, <1>18 DEF Range
    <2> QED BY <1>14, <1>25, <2>1, <2>2
  <1>28. TreesInv'
    <2>1. \A k, l \in 1..POPULATION : k # l => population'[k] # population'[l]
      BY <1>1, <1>2 DEF TreesInv
    <2>2. Forest(heap', Live') /\ \A t \in Live' : Fits(heap', t)
      BY <1>17, <1>20, <1>22, <1>23
    <2>3. Waiting' \cap Range(population') = {}
      BY <1>2, <1>7, <1>12, <1>27
    <2>4. \A k, l \in Unplaced' : k # l => offsprings'[k] # offsprings'[l]
      BY <1>6, <1>12, <1>15, <1>26
    <2>5. population' \in Seq(Address) /\ Len(population') = POPULATION /\ offsprings' \in Seq(Address)
      BY <1>2, <1>5, <1>12, <1>14
    <2> QED BY <2>1, <2>2, <2>3, <2>4, <2>5 DEF TreesInv
  <1>29. CacheInv'
    <2>1. /\ DOMAIN fitnesses \subseteq Range(population) /\ DOMAIN fitnesses # {}
          /\ maxTree \in Range(population) \cup {NULL}
      BY <1>1, <1>2 DEF CacheInv
    <2>2. \A t \in DOMAIN fitnesses : Keeps(heap, heap', t)
      BY <1>20, <1>24, <1>25, <2>1
    <2>3. Forest(heap', Q)
      BY <1>20, <1>22
    <2>4. /\ DOMAIN fitnesses' = DOMAIN fitnesses /\ readFirst' = readFirst
          /\ \A t \in DOMAIN fitnesses : fitnesses'[t] = fitnesses[t]
      BY <1>2
    <2>5. \A t \in DOMAIN fitnesses' :
             (fitnesses[t].fit \in FITNESS /\ fitnesses[t].of = AsRead(Exp(heap, t)))'
      BY <1>1, <1>10, <2>2, <2>3, <2>4, CacheStays
    <2> QED BY <1>2, <2>1, <2>5 DEF CacheInv
  <1>30. EliteKept'
    BY <1>2 DEF EliteKept
  <1> QED BY <1>3, <1>4, <1>28, <1>29, <1>30 DEF SearchInv

\* The scan, which finds a tree that is nearly the best unless it crashes.
LEMMA ScanKeeps ==
  ASSUME SearchInv, Scan
  PROVE  SearchInv'
  <1>1. Counters /\ TreesInv /\ CacheInv
    BY DEF SearchInv
  <1>2. PICK order \in SetToSeqs(DOMAIN fitnesses) :
           /\ pc' = IF ScanOf(order).crashed THEN "crashed" ELSE "replace"
           /\ maxTree' = ScanOf(order).tree
           /\ maxFit' = ScanOf(order).fit
    BY DEF Scan
  <1>3. /\ pc = "scan" /\ i' = 0
        /\ best' = [best EXCEPT ![1] = Max({f.fit : f \in Range(fitnesses)})]
        /\ UNCHANGED <<heap, population, offsprings, fitnesses, readFirst, gen, j, p>>
    BY DEF Scan
  <1>4. PICK s : s = ScanOf(order)
    OBVIOUS
  <1>5. /\ NULL \notin DOMAIN fitnesses /\ IsFiniteSet(DOMAIN fitnesses) /\ DOMAIN fitnesses # {}
        /\ \A t \in DOMAIN fitnesses : fitnesses[t].fit \in Nat
    <2>1. DOMAIN fitnesses \subseteq DOMAIN heap /\ NULL \notin DOMAIN heap
      BY <1>1, PopulationIs DEF CacheInv
    <2>2. IsFiniteSet(DOMAIN heap)
      BY <1>1 DEF TreesInv, Forest
    <2>3. IsFiniteSet(DOMAIN fitnesses)
      BY <2>1, <2>2, FS_Subset
    <2>4. \A t \in DOMAIN fitnesses : fitnesses[t].fit \in Nat
      BY <1>1, SearchAssumption DEF CacheInv
    <2> QED BY <1>1, <1>3, <2>1, <2>3, <2>4 DEF CacheInv
  <1>6. /\ order \in Seq(DOMAIN fitnesses)
        /\ \A t \in DOMAIN fitnesses : \E k \in 1..Len(order) : order[k] = t
    BY <1>2, <1>5, OrderCovers
  <1>7. /\ s \in [tree : DOMAIN fitnesses \cup {NULL}, fit : Nat, crashed : BOOLEAN]
        /\ Best(order, Len(order), s)
    BY <1>4, <1>5, <1>6, ScanIs
  <1>8. PICK T : T = {f.fit : f \in Range(fitnesses)}
    OBVIOUS
  <1>9. T = {fitnesses[t].fit : t \in DOMAIN fitnesses}
    BY <1>8 DEF Range
  <1>10. T \in SUBSET Nat /\ T # {}
    BY <1>5, <1>9
  <1>11. IsFiniteSet(T)
    <2>1. PICK g : g = [t \in DOMAIN fitnesses |-> fitnesses[t].fit]
      OBVIOUS
    <2>2. DOMAIN g = DOMAIN fitnesses /\ Range(g) = T /\ g = [t \in DOMAIN g |-> g[t]]
      BY <1>9, <2>1 DEF Range
    <2> QED BY <1>5, <2>2, FiniteRange
  <1>12. Max(T) \in T
    BY <1>10, <1>11, MaxIs
  <1>13. PICK t \in DOMAIN fitnesses : Max(T) = fitnesses[t].fit
    BY <1>9, <1>12
  <1>14. best' \in [1..2 -> Nat] /\ best'[1] = Max(T)
    <2>1. best \in [1..2 -> Nat] /\ Max(T) \in Nat
      BY <1>1, <1>10, <1>12 DEF Counters
    <2>2. best' = [best EXCEPT ![1] = Max(T)]
      BY <1>3, <1>8
    <2> QED BY <2>1, <2>2
  <1>15. Counters'
    <2>1. pc' \in {"crashed", "replace"} /\ maxFit' \in Nat /\ i' \in Nat
      BY <1>2, <1>3, <1>4, <1>7
    <2> QED BY <1>1, <1>3, <1>14, <2>1 DEF Counters
  <1>16. TreesInv' /\ Range(population)' = Range(population)
    <2>1. DOMAIN offsprings = 1..Len(offsprings) /\ Len(offsprings) \in Nat
      BY <1>1 DEF TreesInv
    <2>2. Unplaced = DOMAIN offsprings
      BY <1>3 DEF Unplaced
    <2>3. Unplaced' = DOMAIN offsprings
      BY <1>3, <2>1 DEF Unplaced
    <2> QED BY <1>1, <1>3, <2>2, <2>3, SameTrees
  <1>17. CacheInv'
    <2>1. \A x : AsRead(Exp(heap, x))' = AsRead(Exp(heap, x))
      BY <1>3 DEF AsRead, Mirror, Exp, Tree, Deeper
    <2>2. DOMAIN fitnesses # {} /\ maxTree' \in Range(population) \cup {NULL}
      BY <1>1, <1>2, <1>4, <1>5, <1>7 DEF CacheInv
    <2>3. /\ DOMAIN fitnesses' \subseteq Range(population)
          /\ \A x \in DOMAIN fitnesses' : /\ fitnesses'[x].fit \in FITNESS
                                          /\ fitnesses'[x].of = AsRead(Exp(heap, x))
      BY <1>1, <1>3 DEF CacheInv
    <2> QED BY <1>3, <1>16, <2>1, <2>2, <2>3 DEF CacheInv
  <1>18. TournamentInv'
    BY <1>2 DEF TournamentInv
  <1>19. EliteKept'
    <2>1. CASE s.crashed
      <3>1. pc' = "crashed"
        BY <1>2, <1>4, <2>1
      <3> QED BY <3>1 DEF EliteKept
    <2>2. CASE ~s.crashed
      <3>1. PICK k \in 1..Len(order) : order[k] = t
        BY <1>6
      <3>2. Len(order) \in Nat /\ Len(order) # 0
        BY <1>6
      <3>3. fitnesses[t].fit < s.fit + TOL /\ s.tree # NULL /\ fitnesses[s.tree].fit = s.fit
        BY <1>7, <2>2, <3>1, <3>2 DEF Best
      <3>4. s.tree \in DOMAIN fitnesses /\ s.tree \in Range(population)
        BY <1>1, <1>7, <3>3 DEF CacheInv
      <3>5. FitnessOf(maxTree)' = s.fit
        BY <1>2, <1>3, <1>4, <3>3, <3>4 DEF FitnessOf
      <3>6. s.fit > Max(T) - TOL
        BY <1>5, <1>7, <1>13, <3>3 DEF TOL
      <3>7. (FitnessOf(maxTree) > best[1] - TOL)'
        BY <1>14, <3>5, <3>6 DEF TOL
      <3>8. maxTree' \in Range(population') \cap DOMAIN fitnesses'
        BY <1>2, <1>3, <1>4, <3>4
      <3> QED BY <3>7, <3>8 DEF EliteKept
    <2> QED BY <1>7, <2>1, <2>2
  <1> QED BY <1>15, <1>16, <1>17, <1>18, <1>19 DEF SearchInv

\* The loop of the replacement ends within the offspring.
LEMMA Share ==
  ASSUME NEW n \in Nat, NEW k \in Nat, NEW ratio \in 1..100, 100 * k < n * ratio
  PROVE  k < n
  <1>1. ASSUME k >= n PROVE FALSE
    <2>1. PICK d \in Nat : k = n + d
      <3>1. k - n \in Nat /\ k = n + (k - n)
        BY <1>1
      <3> QED BY <3>1
    <2>2. PICK q \in Nat : ratio + q = 100
      <3>1. 100 - ratio \in Nat /\ ratio + (100 - ratio) = 100
        OBVIOUS
      <3> QED BY <3>1
    <2>3. n * 100 = n * ratio + n * q /\ n * q \in Nat
      BY <2>2
    <2>4. 100 * k = n * 100 + 100 * d
      BY <2>1
    <2>5. n * ratio \in Nat
      OBVIOUS
    <2> QED BY <2>3, <2>4, <2>5
  <1> QED BY <1>1

\* An offspring takes the place of a tree.
LEMMA ReplaceKeeps ==
  ASSUME SearchInv, NEW r \in 1..POPULATION, Replace(r)
  PROVE  SearchInv'
  <1>1. Counters /\ TreesInv /\ CacheInv
    BY DEF SearchInv
  <1>2. /\ pc = "replace" /\ 100 * i < Len(offsprings) * REPLACEMENT_RATIO
        /\ population[r] # maxTree
        /\ fitnesses' = Restrict(fitnesses, DOMAIN fitnesses \ {population[r]})
        /\ heap' = Delete(heap, population[r])
        /\ population' = [population EXCEPT ![r] = offsprings[i + 1]] /\ i' = i + 1
        /\ UNCHANGED <<offsprings, readFirst, pc, gen, j, p, maxFit, maxTree, best>>
    BY DEF Replace, Replacing, Replaceable, Erase
  <1>3. /\ population \in Seq(Address) /\ Len(population) = POPULATION /\ offsprings \in Seq(Address)
        /\ POPULATION \in Nat /\ i \in Nat
    BY <1>1, SearchAssumption DEF TreesInv, Counters
  <1>4. PICK n, t, o : n = Len(offsprings) /\ t = population[r] /\ o = offsprings[i + 1]
    OBVIOUS
  <1>5. n \in Nat /\ DOMAIN offsprings = 1..n /\ i + 1 \in 1..n
    <2>1. n \in Nat /\ DOMAIN offsprings = 1..n
      BY <1>3, <1>4
    <2>2. REPLACEMENT_RATIO \in 1..100
      BY SearchAssumption
    <2>3. i < n
      BY <1>2, <1>3, <1>4, <2>1, <2>2, Share
    <2> QED BY <1>3, <2>1, <2>3
  <1>6. Unplaced = {k \in 1..n : k > i} /\ Unplaced' = {k \in 1..n : k > i + 1}
    BY <1>2, <1>5 DEF Unplaced
  <1>7. i + 1 \in Unplaced /\ Unplaced' = Unplaced \ {i + 1}
    BY <1>3, <1>5, <1>6
  <1>8. \A k, l \in Unplaced : k # l => offsprings[k] # offsprings[l]
    BY <1>1 DEF TreesInv
  <1>9. Waiting' = Waiting \ {o} /\ o \in Waiting
    <2>1. Waiting' = {offsprings[k] : k \in Unplaced'}
      BY <1>2 DEF Waiting
    <2>2. Waiting = {offsprings[k] : k \in Unplaced}
      BY DEF Waiting
    <2>3. \A k \in Unplaced' : offsprings[k] # o
      BY <1>4, <1>7, <1>8
    <2> QED BY <1>4, <1>7, <2>1, <2>2, <2>3
  <1>10. /\ \A k \in 1..POPULATION : population[k] \in Range(population)
         /\ \A x \in Range(population) : \E k \in 1..POPULATION : x = population[k]
         /\ \A k, l \in 1..POPULATION : k # l => population[k] # population[l]
    <2>1. \A k, l \in 1..POPULATION : k # l => population[k] # population[l]
      BY <1>1 DEF TreesInv
    <2> QED BY <1>1, <2>1, PopulationIs
  <1>11. o \in Address
    BY <1>3, <1>4, <1>5
  <1>12. /\ population' \in Seq(Address) /\ Len(population') = POPULATION
         /\ DOMAIN population' = 1..POPULATION /\ population'[r] = o
         /\ \A k \in 1..POPULATION \ {r} : population'[k] = population[k]
    BY <1>2, <1>3, <1>4, <1>11
  <1>13. Range(population') = (Range(population) \ {t}) \cup {o}
    <2>1. ASSUME NEW x \in Range(population') PROVE x \in (Range(population) \ {t}) \cup {o}
      <3>1. PICK k \in 1..POPULATION : x = population'[k]
        BY <1>12, <2>1 DEF Range
      <3> QED BY <1>4, <1>10, <1>12, <3>1
    <2>2. ASSUME NEW x \in Range(population) \ {t} PROVE x \in Range(population')
      <3>1. PICK k \in 1..POPULATION : x = population[k]
        BY <1>10
      <3>2. k # r
        BY <1>4, <3>1
      <3>3. k \in DOMAIN population' /\ population'[k] = x
        BY <1>12, <3>1, <3>2
      <3> QED BY <3>3 DEF Range
    <2>3. o \in Range(population')
      BY <1>12 DEF Range
    <2> QED BY <2>1, <2>2, <2>3
  <1>14. t \in Range(population) /\ t \notin Waiting /\ o \notin Range(population)
    <2>1. Waiting \cap Range(population) = {}
      BY <1>1 DEF TreesInv
    <2> QED BY <1>4, <1>9, <1>10, <2>1
  <1>15. Live' = Live \ {t} /\ t \in Live
    <2>1. Live' = Range(population') \cup Waiting'
      BY DEF Live
    <2> QED BY <1>9, <1>13, <1>14, <2>1 DEF Live
  <1>16. Forest(heap, Live) /\ \A x \in Live : Fits(heap, x)
    BY <1>1 DEF TreesInv
  <1>17. PICK h : h = heap'
    OBVIOUS
  <1>18. Forest(h, Live \ {t}) /\ \A x \in Live \ {t} : Keeps(heap, h, x)
    BY <1>2, <1>4, <1>15, <1>16, <1>17, DeleteIs
  <1>19. \A x \in Live \ {t} : Fits(h, x)
    <2> SUFFICES ASSUME NEW x \in Live \ {t} PROVE Fits(h, x)
      OBVIOUS
    <2>1. Keeps(heap, h, x) /\ Fits(heap, x) /\ Forest(heap, Live) /\ Forest(h, Live \ {t})
      BY <1>16, <1>18
    <2> QED BY <2>1, KeptTree
  <1>20. TreesInv'
    <2>1. \A k, l \in 1..POPULATION : k # l => population'[k] # population'[l]
      <3> SUFFICES ASSUME NEW k \in 1..POPULATION, NEW l \in 1..POPULATION, k # l
                   PROVE  population'[k] # population'[l]
        OBVIOUS
      <3>1. CASE k = r
        BY <1>10, <1>12, <1>14, <3>1
      <3>2. CASE l = r
        BY <1>10, <1>12, <1>14, <3>2
      <3>3. CASE k # r /\ l # r
        BY <1>10, <1>12, <3>3
      <3> QED BY <3>1, <3>2, <3>3
    <2>2. Forest(heap', Live') /\ \A x \in Live' : Fits(heap', x)
      BY <1>15, <1>17, <1>18, <1>19
    <2>3. Waiting' \cap Range(population') = {}
      <3>1. Waiting \cap Range(population) = {}
        BY <1>1 DEF TreesInv
      <3> QED BY <1>9, <1>13, <3>1
    <2>4. \A k, l \in Unplaced' : k # l => offsprings'[k] # offsprings'[l]
      BY <1>2, <1>7, <1>8
    <2>5. offsprings' \in Seq(Address)
      BY <1>2, <1>3
    <2> QED BY <1>12, <2>1, <2>2, <2>3, <2>4, <2>5 DEF TreesInv
  <1>21. PICK D : D = DOMAIN fitnesses \ {t}
    OBVIOUS
  <1>22. /\ DOMAIN fitnesses' = D /\ D \subseteq DOMAIN fitnesses
         /\ \A x \in D : fitnesses'[x] = fitnesses[x]
    BY <1>2, <1>4, <1>21 DEF Restrict
  <1>23. CacheInv'
    <2>1. /\ DOMAIN fitnesses \subseteq Range(population)
          /\ maxTree \in Range(population) \cup {NULL}
      BY <1>1 DEF CacheInv
    <2>2. \A x \in D : Keeps(heap, heap', x)
      BY <1>17, <1>18, <1>21, <2>1 DEF Live
    <2>3. Forest(heap', Live \ {t}) /\ readFirst' = readFirst
      BY <1>2, <1>17, <1>18
    <2>4. \A x \in DOMAIN fitnesses' :
             (fitnesses[x].fit \in FITNESS /\ fitnesses[x].of = AsRead(Exp(heap, x)))'
      BY <1>1, <1>16, <1>22, <2>2, <2>3, CacheStays
    <2>5. DOMAIN fitnesses' \subseteq Range(population')
      BY <1>13, <1>21, <1>22, <2>1
    <2>6. maxTree' \in Range(population') \cup {NULL}
      BY <1>2, <1>4, <1>13, <2>1
    <2> QED BY <1>2, <2>4, <2>5, <2>6 DEF CacheInv
  <1>24. EliteKept'
    <2>1. maxTree \in Range(population) \cap DOMAIN fitnesses /\ FitnessOf(maxTree) > best[1] - TOL
      BY <1>2 DEF SearchInv, EliteKept
    <2>2. maxTree \in D /\ maxTree \in Range(population')
      BY <1>2, <1>4, <1>13, <1>21, <2>1
    <2>3. FitnessOf(maxTree)' = FitnessOf(maxTree)
      BY <1>2, <1>22, <2>1, <2>2 DEF FitnessOf
    <2>4. (FitnessOf(maxTree) > best[1] - TOL)'
      BY <1>2, <2>1, <2>3 DEF TOL
    <2>5. maxTree' \in Range(population') \cap DOMAIN fitnesses'
      BY <1>2, <1>22, <2>2
    <2> QED BY <2>4, <2>5 DEF EliteKept
  <1>25. Counters'
    BY <1>1, <1>2 DEF Counters
  <1>26. TournamentInv'
    BY <1>2 DEF TournamentInv
  <1> QED BY <1>20, <1>23, <1>24, <1>25, <1>26 DEF SearchInv

\* The offspring that found no place are forgotten.
LEMMA EndKeeps ==
  ASSUME SearchInv, EndGeneration
  PROVE  SearchInv'
  <1>1. Counters /\ TreesInv /\ CacheInv
    BY DEF SearchInv
  <1>2. /\ pc = "replace" /\ offsprings' = <<>> /\ heap' = Kept(heap, Range(population))
        /\ gen' = gen + 1 /\ pc' = IF gen' < GENERATION THEN "first" ELSE "done"
        /\ Tournament(0) /\ i' = 0 /\ maxTree' = NULL
        /\ UNCHANGED <<population, fitnesses, readFirst>>
    BY DEF EndGeneration, Tournament
  <1>3. pc' # "second" /\ pc' # "replace" /\ pc' # "scan"
    BY <1>2
  <1>4. /\ j' = 0 /\ p' \in [1..2 -> 1..POPULATION] /\ maxFit' = 0 /\ best' \in [1..2 -> Nat]
        /\ TournamentInv'
    BY <1>2, <1>3, Fresh
  <1>5. Counters'
    <2>1. gen' \in 0..GENERATION /\ (pc' # "done" => gen' < GENERATION)
      BY <1>1, <1>2, SearchAssumption DEF Counters
    <2>2. j' \in 0..TOURNAMENT_SIZE /\ i' \in Nat /\ maxFit' \in Nat
      BY <1>2, <1>4, SearchAssumption
    <2>3. readFirst' \in {1, 2} /\ pc' \in {"first", "done"}
      BY <1>1, <1>2 DEF Counters
    <2> QED BY <1>4, <2>1, <2>2, <2>3 DEF Counters
  <1>6. PICK R : R = Range(population)
    OBVIOUS
  <1>7. Unplaced' = {}
    BY <1>2 DEF Unplaced
  <1>8. Waiting' = {} /\ Live' = R
    BY <1>2, <1>6, <1>7 DEF Waiting, Live
  <1>9. Forest(heap, R) /\ \A t \in R : Fits(heap, t)
    <2>1. Forest(heap, Live) /\ (\A t \in Live : Fits(heap, t)) /\ R \subseteq Live
      BY <1>1, <1>6 DEF TreesInv, Live
    <2> QED BY <2>1, FewerRoots
  <1>10. PICK h : h = heap'
    OBVIOUS
  <1>11. Forest(h, R) /\ \A t \in R : Keeps(heap, h, t)
    BY <1>2, <1>6, <1>9, <1>10, KeptIs
  <1>12. \A t \in R : Fits(h, t)
    <2> SUFFICES ASSUME NEW t \in R PROVE Fits(h, t)
      OBVIOUS
    <2>1. Keeps(heap, h, t) /\ Fits(heap, t) /\ Forest(heap, R) /\ Forest(h, R)
      BY <1>9, <1>11
    <2> QED BY <2>1, KeptTree
  <1>13. TreesInv'
    <2>1. /\ population' \in Seq(Address) /\ Len(population') = POPULATION
          /\ \A k, l \in 1..POPULATION : k # l => population'[k] # population'[l]
      BY <1>1, <1>2 DEF TreesInv
    <2>2. Forest(heap', Live') /\ \A x \in Live' : Fits(heap', x)
      BY <1>8, <1>10, <1>11, <1>12
    <2>3. offsprings' \in Seq(Address)
      BY <1>2
    <2> QED BY <1>7, <1>8, <2>1, <2>2, <2>3 DEF TreesInv
  <1>14. CacheInv'
    <2>1. DOMAIN fitnesses \subseteq Range(population)
      BY <1>1 DEF CacheInv
    <2>2. \A x \in DOMAIN fitnesses : Keeps(heap, heap', x)
      BY <1>6, <1>10, <1>11, <2>1
    <2>3. /\ Forest(heap', R) /\ readFirst' = readFirst /\ DOMAIN fitnesses' = DOMAIN fitnesses
          /\ \A x \in DOMAIN fitnesses : fitnesses'[x] = fitnesses[x]
      BY <1>2, <1>10, <1>11
    <2>4. \A x \in DOMAIN fitnesses' :
             (fitnesses[x].fit \in FITNESS /\ fitnesses[x].of = AsRead(Exp(heap, x)))'
      BY <1>1, <1>9, <2>2, <2>3, CacheStays
    <2> QED BY <1>2, <1>3, <1>4, <2>1, <2>4 DEF CacheInv
  <1>15. EliteKept'
    BY <1>3 DEF EliteKept
  <1> QED BY <1>4, <1>5, <1>13, <1>14, <1>15 DEF SearchInv

\* A stutter.
LEMMA StutterKeeps ==
  ASSUME SearchInv, UNCHANGED vars
  PROVE  SearchInv'
  <1>1. UNCHANGED <<heap, population, offsprings, fitnesses, readFirst, pc, gen, i, j, p, maxFit, maxTree, best>>
    BY DEF vars, mating
  <1>2. Counters /\ TreesInv /\ CacheInv /\ TournamentInv /\ EliteKept
    BY DEF SearchInv
  <1>3. TreesInv' /\ Range(population)' = Range(population)
    <2>1. Unplaced' = Unplaced
      BY <1>1 DEF Unplaced
    <2> QED BY <1>1, <1>2, <2>1, SameTrees
  <1>4. CacheInv'
    <2>1. \A s : AsRead(Exp(heap, s))' = AsRead(Exp(heap, s))
      BY <1>1 DEF AsRead, Mirror, Exp, Tree, Deeper
    <2>2. \A s \in DOMAIN fitnesses' : /\ fitnesses'[s].fit \in FITNESS
                                       /\ fitnesses'[s].of = AsRead(Exp(heap, s))
      BY <1>1, <1>2 DEF CacheInv
    <2> QED BY <1>1, <1>2, <1>3, <2>1, <2>2 DEF CacheInv
  <1>5. Counters'
    BY <1>1, <1>2 DEF Counters
  <1>6. TournamentInv'
    BY <1>1, <1>2 DEF TournamentInv, Met, FitnessOf, TOL
  <1>7. EliteKept'
    BY <1>1, <1>2 DEF EliteKept, FitnessOf, TOL
  <1> QED BY <1>3, <1>4, <1>5, <1>6, <1>7 DEF SearchInv

\* The trees made at the start.
Heaps == UNION {[D -> [op : DOMAIN Arity, kid : [1..2 -> Address \cup {NULL}]]] : D \in SUBSET Address}
Crowds == {s \in [heap : Heaps, roots : Seq(Address)] :
              /\ Forest(s.heap, Range(s.roots))
              /\ \A t \in Range(s.roots) : Fits(s.heap, t)
              /\ \A k, l \in 1..Len(s.roots) : k # l => s.roots[k] # s.roots[l]}

\* A population that has grown by one tree is a forest with that many roots.
LEMMA GrownKeeps ==
  ASSUME NEW s \in Crowds, NEW e, IsExpression(e)
  PROVE  Grown(s, e) \in Crowds /\ Len(Grown(s, e).roots) = Len(s.roots) + 1
  <1>1. PICK h, roots, R : h = s.heap /\ roots = s.roots /\ R = Range(roots)
    OBVIOUS
  <1>2. /\ roots \in Seq(Address) /\ Forest(h, R) /\ \A t \in R : Fits(h, t)
        /\ \A k, l \in 1..Len(roots) : k # l => roots[k] # roots[l]
    BY <1>1 DEF Crowds
  <1>3. PICK t, g, all : /\ t = Build(h, e).root /\ g = Build(h, e).heap /\ all = Append(roots, t)
    OBVIOUS
  <1>4. Grown(s, e) = [heap |-> g, roots |-> all]
    BY <1>1, <1>3 DEF Grown
  <1>5. /\ t \notin DOMAIN h /\ t \in DOMAIN g /\ t \in Address
        /\ Forest(g, R \cup {t}) /\ \A x \in DOMAIN h : Keeps(h, g, x)
        /\ Fits(g, t)
    BY <1>2, <1>3, BuildIs DEF Address
  <1>6. PICK n : n = Len(roots)
    OBVIOUS
  <1>7. n \in Nat /\ DOMAIN roots = 1..n
    BY <1>2, <1>6
  <1>8. /\ all \in Seq(Address) /\ Len(all) = n + 1 /\ DOMAIN all = 1 .. n + 1 /\ all[n + 1] = t
        /\ \A k \in 1..n : all[k] = roots[k]
    BY <1>2, <1>3, <1>5, <1>6, <1>7
  <1>9. Range(all) = R \cup {t}
    <2>1. \A k \in 1 .. n + 1 : k \in 1..n \/ k = n + 1
      BY <1>7
    <2>2. ASSUME NEW v \in Range(all) PROVE v \in R \cup {t}
      <3>1. PICK k \in 1 .. n + 1 : v = all[k]
        BY <1>8, <2>2 DEF Range
      <3> QED BY <1>1, <1>7, <1>8, <2>1, <3>1 DEF Range
    <2>3. ASSUME NEW v \in R PROVE v \in Range(all)
      <3>1. PICK k \in 1..n : v = roots[k]
        BY <1>1, <1>7, <2>3 DEF Range
      <3>2. k \in DOMAIN all /\ all[k] = v
        BY <1>7, <1>8, <3>1
      <3> QED BY <3>2 DEF Range
    <2>4. n + 1 \in DOMAIN all
      BY <1>7, <1>8
    <2>5. t \in Range(all)
      BY <1>8, <2>4 DEF Range
    <2> QED BY <2>2, <2>3, <2>5
  <1>10. R \subseteq DOMAIN h
    BY <1>2 DEF Forest
  <1>11. \A x \in Range(all) : Fits(g, x)
    <2> SUFFICES ASSUME NEW x \in R PROVE Fits(g, x)
      BY <1>5, <1>9
    <2>1. Keeps(h, g, x) /\ Fits(h, x) /\ Forest(h, R) /\ Forest(g, R \cup {t})
      BY <1>2, <1>5, <1>10
    <2> QED BY <2>1, KeptTree
  <1>12. \A k, l \in 1 .. Len(all) : k # l => all[k] # all[l]
    <2> SUFFICES ASSUME NEW k \in 1 .. n + 1, NEW l \in 1 .. n + 1, k # l PROVE all[k] # all[l]
      BY <1>8
    <2>1. \A q \in 1..n : all[q] \in DOMAIN h
      <3> SUFFICES ASSUME NEW q \in 1..n PROVE all[q] \in DOMAIN h
        OBVIOUS
      <3>1. roots[q] \in R
        BY <1>1, <1>7 DEF Range
      <3> QED BY <1>8, <1>10, <3>1
    <2>2. \A q \in 1 .. n + 1 : q \in 1..n \/ q = n + 1
      BY <1>7
    <2>3. CASE k \in 1..n /\ l \in 1..n
      BY <1>2, <1>6, <1>8, <2>3
    <2>4. CASE k = n + 1 /\ l \in 1..n
      BY <1>5, <1>8, <2>1, <2>4
    <2>5. CASE l = n + 1 /\ k \in 1..n
      BY <1>5, <1>8, <2>1, <2>5
    <2> QED BY <2>2, <2>3, <2>4, <2>5
  <1>13. g \in Heaps
    <2>1. g \in [DOMAIN g -> NodeOf(g)] /\ DOMAIN g \subseteq Address
      BY <1>5 DEF Forest, Address
    <2>2. \A v \in NodeOf(g) : v \in [op : DOMAIN Arity, kid : [1..2 -> Address \cup {NULL}]]
      BY <2>1 DEF NodeOf
    <2>3. g \in [DOMAIN g -> [op : DOMAIN Arity, kid : [1..2 -> Address \cup {NULL}]]]
      BY <2>1, <2>2
    <2> QED BY <2>1, <2>3 DEF Heaps
  <1>14. [heap |-> g, roots |-> all] \in Crowds
    <2>1. PICK x : x = [heap |-> g, roots |-> all]
      OBVIOUS
    <2>2. x.heap = g /\ x.roots = all /\ x \in [heap : Heaps, roots : Seq(Address)]
      BY <1>8, <1>13, <2>1
    <2>3. Forest(g, Range(all))
      BY <1>5, <1>9
    <2>4. x \in Crowds
      BY <1>11, <1>12, <2>2, <2>3, Zenon DEF Crowds
    <2> QED BY <2>1, <2>4
  <1>15. Len(Grown(s, e).roots) = n + 1
    BY <1>4, <1>8
  <1> QED BY <1>1, <1>4, <1>6, <1>14, <1>15

\* No tree at all is a forest.
LEMMA NoneYet == [heap |-> <<>>, roots |-> <<>>] \in Crowds
  <1>1. PICK h, roots : h = <<>> /\ roots = <<>>
    OBVIOUS
  <1>2. DOMAIN h = {} /\ DOMAIN roots = {} /\ Len(roots) = 0 /\ roots \in Seq(Address)
    BY <1>1
  <1>3. Range(roots) = {}
    BY <1>2 DEF Range
  <1>4. IsFiniteSet(DOMAIN h)
    BY <1>2, FS_EmptySet
  <1>5. h \in [DOMAIN h -> NodeOf(h)]
    BY <1>1
  <1>6. Forest(h, Range(roots))
    BY <1>2, <1>3, <1>4, <1>5, Zenon DEF Forest
  <1>7. h \in Heaps
    <2>1. h \in [{} -> [op : DOMAIN Arity, kid : [1..2 -> Address \cup {NULL}]]]
      BY <1>1
    <2>2. {} \in SUBSET Address
      OBVIOUS
    <2> QED BY <2>1, <2>2 DEF Heaps
  <1>8. PICK x : x = [heap |-> h, roots |-> roots]
    OBVIOUS
  <1>9. x.heap = h /\ x.roots = roots /\ x \in [heap : Heaps, roots : Seq(Address)]
    BY <1>2, <1>7, <1>8
  <1>10. \A k, l \in 1..Len(roots) : k # l => roots[k] # roots[l]
    BY <1>2
  <1>11. x \in Crowds
    BY <1>3, <1>6, <1>9, <1>10 DEF Crowds
  <1> QED BY <1>1, <1>8, <1>11

\* The constructor of Population makes a forest with a root for each expression.
LEMMA PopulateIs ==
  ASSUME NEW E, \A e \in E : IsExpression(e), NEW exps \in Seq(E)
  PROVE  Populate(exps) \in Crowds /\ Len(Populate(exps).roots) = Len(exps)
  <1> DEFINE base == [heap |-> <<>>, roots |-> <<>>]
             N == Len(exps)
             step == [k \in 1..N |-> [s \in Crowds |-> Grown(s, exps[k])]]
             G(f) == [k \in 0..N |-> IF k = 0 THEN base ELSE Grown(f[k - 1], exps[k])]
             made == CHOOSE f : f = G(f)
  <1>1. N \in Nat
    OBVIOUS
  <1>2. base \in Crowds
    BY NoneYet
  <1>3. \A k \in 1..N : IsExpression(exps[k])
    OBVIOUS
  <1>4. step \in [1..N -> [Crowds -> Crowds]]
    <2>1. \A k \in 1..N, s \in Crowds : Grown(s, exps[k]) \in Crowds
      BY <1>3, GrownKeeps
    <2> QED BY <2>1
  <1>5. PICK f \in [0 .. N -> Crowds] : f[0] = base /\ \A k \in 1 .. N : f[k] = step[k][f[k - 1]]
    <2> HIDE DEF base, step, N
    <2>1. Recursive(Crowds, base, N, step)
      BY <1>1, <1>2, <1>4, RecursionExists
    <2> QED BY <2>1 DEF Recursive
  <1>6. f = G(f)
    <2>1. ASSUME NEW k \in 1 .. N PROVE f[k] = Grown(f[k - 1], exps[k])
      <3>1. f[k - 1] \in Crowds
        BY <1>1
      <3> HIDE DEF N
      <3> QED BY <1>5, <3>1
    <2> HIDE DEF base, step
    <2> QED BY <1>1, <1>5, <2>1
  <1>7. made = G(made)
    <2> HIDE DEF G
    <2> QED BY <1>6
  <1>8. Populate(exps) = made[N]
    BY DEF Populate
  <1> HIDE DEF made
  <1>9. made[0] = base /\ \A k \in 1 .. N : made[k] = Grown(made[k - 1], exps[k])
    <2>1. PICK n, b : n = N /\ b = base
      OBVIOUS
    <2> HIDE DEF base, N
    <2>2. made = [k \in 0..n |-> IF k = 0 THEN b ELSE Grown(made[k - 1], exps[k])]
      BY <1>7, <2>1
    <2>3. n \in Nat /\ 0 \in 0 .. n
      BY <1>1, <2>1
    <2>4. made[0] = b
      BY <2>2, <2>3
    <2>5. \A k \in 1 .. n : made[k] = Grown(made[k - 1], exps[k])
      <3> SUFFICES ASSUME NEW k \in 1 .. n PROVE made[k] = Grown(made[k - 1], exps[k])
        OBVIOUS
      <3>1. k \in 0 .. n /\ k # 0
        BY <2>3
      <3> QED BY <2>2, <3>1, Zenon
    <2> QED BY <2>1, <2>4, <2>5
  <1> DEFINE Good == {k \in 0 .. N : made[k] \in Crowds /\ Len(made[k].roots) = k}
  <1>10. 0 \in Good
    <2>1. Len(base.roots) = 0
      OBVIOUS
    <2> HIDE DEF base, N
    <2> QED BY <1>1, <1>2, <1>9, <2>1
  <1>11. ASSUME NEW k \in 0 .. N - 1, k \in Good PROVE k + 1 \in Good
    <2>1. k + 1 \in 1 .. N /\ k + 1 \in 0 .. N /\ k + 1 - 1 = k
      BY <1>1
    <2>2. made[k] \in Crowds /\ Len(made[k].roots) = k /\ made[k + 1] = Grown(made[k], exps[k + 1])
      BY <1>9, <1>11, <2>1
    <2>3. IsExpression(exps[k + 1])
      BY <1>3, <2>1
    <2>4. made[k + 1] \in Crowds /\ Len(made[k + 1].roots) = k + 1
      BY <2>2, <2>3, GrownKeeps
    <2> QED BY <2>1, <2>4
  <1>12. N \in Good
    <2> HIDE DEF Good, N
    <2>1. \A k \in 0 .. N : k \in Good
      BY <1>1, <1>10, <1>11, UpTo
    <2> QED BY <1>1, <2>1
  <1> QED BY <1>8, <1>12

\* The first population.
LEMMA InitKeeps == Init => SearchInv
  <1> SUFFICES ASSUME Init PROVE SearchInv
    OBVIOUS
  <1>1. /\ readFirst \in {1, 2} /\ offsprings = <<>> /\ fitnesses = <<>>
        /\ pc = IF GENERATION = 0 THEN "done" ELSE "first"
        /\ gen = 0 /\ i = 0 /\ j = 0 /\ p = <<1, 1>> /\ maxFit = 0 /\ maxTree = NULL
        /\ best = <<0, 0>>
    BY DEF Init
  <1>2. PICK trees \in [1..(POPULATION - 1) -> TREES] :
           /\ heap = Populate(Append(trees, readFrom(writeTo(BASE), readFirst))).heap
           /\ population = Populate(Append(trees, readFrom(writeTo(BASE), readFirst))).roots
    BY DEF Init
  <1>3. PICK base, E, exps, made :
           /\ base = readFrom(writeTo(BASE), readFirst) /\ E = TREES \cup {base}
           /\ exps = Append(trees, base) /\ made = Populate(exps)
    OBVIOUS
  <1>4. \A e \in E : IsExpression(e)
    <2>1. base = Seen(BASE, readFirst) /\ IsExpression(Seen(BASE, readFirst))
      <3>1. IsExpression(BASE)
        BY TreesAssumption
      <3> QED BY <1>1, <1>3, <3>1, ReadBack, SeenIs
    <2> QED BY <1>3, <2>1, TreesAssumption
  <1>5. POPULATION \in Nat /\ POPULATION >= 2
    BY SearchAssumption
  <1>6. trees \in Seq(E) /\ Len(trees) = POPULATION - 1 /\ base \in E
    <2>1. trees \in [1..(POPULATION - 1) -> E]
      BY <1>3
    <2>2. POPULATION - 1 \in Nat
      BY <1>5
    <2> QED BY <1>3, <2>1, <2>2
  <1>7. exps \in Seq(E) /\ Len(exps) = POPULATION
    BY <1>3, <1>5, <1>6
  <1>8. made \in Crowds /\ Len(made.roots) = POPULATION
    BY <1>3, <1>4, <1>7, PopulateIs
  <1>9. heap = made.heap /\ population = made.roots
    BY <1>2, <1>3
  <1>10. /\ population \in Seq(Address) /\ Len(population) = POPULATION
         /\ Forest(heap, Range(population)) /\ \A t \in Range(population) : Fits(heap, t)
         /\ \A k, l \in 1..POPULATION : k # l => population[k] # population[l]
    BY <1>8, <1>9 DEF Crowds
  <1>11. DOMAIN offsprings = {} /\ DOMAIN fitnesses = {}
    BY <1>1
  <1>12. Unplaced = {} /\ Waiting = {} /\ Live = Range(population)
    BY <1>11 DEF Unplaced, Waiting, Live
  <1>13. TreesInv
    <2>1. offsprings \in Seq(Address)
      BY <1>1
    <2> QED BY <1>10, <1>12, <2>1 DEF TreesInv
  <1>14. CacheInv
    <2>1. ~((pc = "first" /\ j > 0) \/ pc \in {"second", "scan"})
      BY <1>1
    <2> QED BY <1>1, <1>11, <2>1 DEF CacheInv
  <1>15. Counters
    <2>1. gen \in 0..GENERATION /\ (pc # "done" => gen < GENERATION)
      BY <1>1, SearchAssumption
    <2>2. p \in [1..2 -> 1..POPULATION]
      BY <1>1, <1>5
    <2>3. best \in [1..2 -> Nat] /\ maxFit \in Nat /\ i \in Nat
      BY <1>1
    <2>4. j \in 0..TOURNAMENT_SIZE
      BY <1>1, SearchAssumption
    <2>5. pc \in {"first", "done"}
      BY <1>1
    <2> QED BY <1>1, <2>1, <2>2, <2>3, <2>4, <2>5 DEF Counters
  <1>16. TournamentInv
    <2>1. Met(1) /\ best[1] = 0 /\ best[2] = 0 /\ 0 < 0 + TOL /\ maxFit = 0
      BY <1>1 DEF Met, TOL
    <2>2. pc # "second"
      BY <1>1
    <2> QED BY <2>1, <2>2 DEF TournamentInv
  <1>17. EliteKept
    BY <1>1 DEF EliteKept
  <1> QED BY <1>13, <1>14, <1>15, <1>16, <1>17 DEF SearchInv

\* Every step keeps the invariant: one lemma for each action.
LEMMA NextKeeps ==
  ASSUME SearchInv, [Next]_vars
  PROVE  SearchInv'
  <1>1. ASSUME NEW k \in {1, 2}, NEW r \in 1..POPULATION, Draw(k, r) PROVE SearchInv'
    BY <1>1, DrawKeeps
  <1>2. CASE SecondTournament
    BY <1>2, SecondKeeps
  <1>3. CASE Mate
    BY <1>3, MateKeeps
  <1>4. CASE Scan
    BY <1>4, ScanKeeps
  <1>5. ASSUME NEW r \in 1..POPULATION, Replace(r) PROVE SearchInv'
    BY <1>5, ReplaceKeeps
  <1>6. CASE EndGeneration
    BY <1>6, EndKeeps
  <1>7. CASE UNCHANGED vars
    BY <1>7, StutterKeeps
  <1> QED BY <1>1, <1>2, <1>3, <1>4, <1>5, <1>6, <1>7 DEF Next

\* For every population, generation count, tournament size and set of fitnesses: the trees are
\* a forest of expressions, the cache is about trees of the population, the winners of the
\* tournaments and the tree that the scan chose are cached, at every step of every search.
THEOREM SearchInvAlways == GpSpec => []SearchInv
  <1>1. Init => SearchInv
    BY InitKeeps
  <1>2. SearchInv /\ [Next]_vars => SearchInv'
    BY NextKeeps
  <1> QED BY <1>1, <1>2, PTL DEF GpSpec

-----------------------------------------------------------------------------
\* What the properties say follows from the invariant: types,
LEMMA SearchTypes == SearchInv => GpTypeOK
  <1> SUFFICES ASSUME SearchInv PROVE GpTypeOK
    OBVIOUS
  <1>1. Counters /\ TreesInv /\ CacheInv
    BY DEF SearchInv
  <1>2. /\ NULL \notin DOMAIN heap
        /\ \A n \in DOMAIN heap :
              /\ heap[n].op \in DOMAIN Arity
              /\ Cardinality({side \in 1..2 : heap[n].kid[side] # NULL}) = Arity[heap[n].op]
    <2>1. Forest(heap, Live)
      BY <1>1 DEF TreesInv
    <2>2. NULL \notin DOMAIN heap
      BY <2>1, NullIsNone
    <2>3. \A n \in DOMAIN heap : heap[n].op \in DOMAIN Arity
      BY <2>1 DEF Forest, NodeOf
    <2>4. \A n \in DOMAIN heap :
             Cardinality({side \in 1..2 : heap[n].kid[side] # NULL}) = Arity[heap[n].op]
      BY <2>1 DEF Forest
    <2> QED BY <2>2, <2>3, <2>4
  <1>3. Len(population) = POPULATION
    BY <1>1 DEF TreesInv
  <1>4. /\ \A t \in DOMAIN fitnesses : fitnesses[t].fit \in FITNESS
        /\ maxTree \in Range(population) \cup {NULL}
    BY <1>1 DEF CacheInv
  <1> QED BY <1>1, <1>2, <1>3, <1>4 DEF GpTypeOK, Counters

\* the ownership of nodes,
LEMMA SearchOwns == SearchInv => OwnedOnce
  <1> SUFFICES ASSUME SearchInv PROVE OwnedOnce
    OBVIOUS
  <1>1. TreesInv
    BY DEF SearchInv
  <1>2. Forest(heap, Live) /\ Waiting \cap Range(population) = {}
    BY <1>1 DEF TreesInv
  <1>3. Waiting = {t \in Range(offsprings) : pc # "replace"}
                  \cup {offsprings[k] : k \in {n \in DOMAIN offsprings : pc = "replace" /\ n > i}}
    BY DEF Waiting, Unplaced, Range
  <1>4. ASSUME NEW t \in Live PROVE t \in DOMAIN heap /\ Cardinality(Nodes(heap, t)) = getSize(t)
    <2>1. t \in DOMAIN heap
      BY <1>1, PopulationIs
    <2>2. PICK T, P, N : T = Tree(heap, t) /\ P = Places(heap, t) /\ N = Nodes(heap, t)
      OBVIOUS
    <2>3. DOMAIN T = P /\ N = Range(T)
      BY <2>2 DEF Places, Nodes
    <2>4. IsTree(heap, t, T, MAXHEIGHT)
      BY <2>2, TreeIs
    <2>5. P \subseteq Paths /\ T \in [P -> DOMAIN heap]
      BY <2>3, <2>4 DEF IsTree
    <2>6. IsFiniteSet(P)
      BY <2>5, PathsFinite, FS_Subset
    <2>7. \A a, b \in P : T[a] = T[b] => a = b
      <3> SUFFICES ASSUME NEW a \in P, NEW b \in P, T[a] = T[b] PROVE a = b
        OBVIOUS
      <3>1. a \in Places(heap, t) /\ b \in Places(heap, t) /\ Tree(heap, t)[a] = Tree(heap, t)[b]
        BY <2>2
      <3> QED BY <1>2, <3>1, OnePlace
    <2>8. T \in Surjection(P, N) /\ T \in Injection(P, N)
      <3>1. T \in [P -> N] /\ \A v \in N : \E a \in P : T[a] = v
        BY <2>3, <2>5 DEF Range
      <3>2. \A a, b \in DOMAIN T : T[a] = T[b] => a = b
        BY <2>3, <2>7
      <3> QED BY <3>1, <3>2 DEF Surjection, Injection, IsInjective
    <2>9. Cardinality(N) = Cardinality(P)
      BY <2>6, <2>8, FS_Surjection
    <2> QED BY <2>1, <2>2, <2>9 DEF getSize
  <1>5. ASSUME NEW s \in Live, NEW t \in Live, s # t PROVE Nodes(heap, s) \cap Nodes(heap, t) = {}
    BY <1>2, <1>5, Apart
  <1>6. \A n \in DOMAIN heap : Range(heap[n].kid) \subseteq DOMAIN heap \cup {NULL}
    BY <1>2 DEF Forest, NodeOf, Range
  <1>7. \A k, l \in DOMAIN population : k # l => population[k] # population[l]
    <2>1. DOMAIN population = 1..POPULATION
      BY <1>1, PopulationIs
    <2> QED BY <1>1, <2>1 DEF TreesInv
  <1>8. PICK W, L : W = Waiting /\ L = Live
    OBVIOUS
  <1>9. L = Range(population) \cup W
    BY <1>8 DEF Live
  <1> QED BY <1>2, <1>3, <1>4, <1>5, <1>6, <1>7, <1>8, <1>9 DEF OwnedOnce

\* the cache of fitnesses,
LEMMA SearchIsOwn == SearchInv => FitnessIsOwn
  BY DEF SearchInv, CacheInv, FitnessIsOwn

\* and the winners of the tournaments.
LEMMA SearchWins == SearchInv => WinnersAreBest
  <1> SUFFICES ASSUME SearchInv, pc \in {"first", "second"}
               PROVE  /\ best[1] >= TOL => FitnessOf(population[p[1]]) > best[1] - TOL
                      /\ best[2] >= TOL => \E k \in {1, 2} : FitnessOf(population[p[k]]) > best[2] - TOL
    BY DEF WinnersAreBest
  <1>1. maxFit \in Nat /\ best[1] \in Nat /\ best[2] \in Nat
    BY DEF SearchInv, Counters
  <1>2. TOL = 5
    BY DEF TOL
  <1>3. ASSUME NEW k \in {1, 2}, NEW l \in {1, 2}, Met(k), best[l] < maxFit + TOL, best[l] >= TOL
        PROVE  FitnessOf(population[p[k]]) > best[l] - TOL
    <2>1. maxFit > best[l] - TOL /\ maxFit # 0
      BY <1>1, <1>2, <1>3
    <2>2. FitnessOf(population[p[k]]) = maxFit
      BY <1>3, <2>1 DEF Met
    <2> QED BY <2>1, <2>2
  <1>4. CASE pc = "first"
    <2>1. best[2] = best[1] /\ best[1] < maxFit + TOL /\ best[2] < maxFit + TOL /\ Met(1)
      BY <1>4 DEF SearchInv, TournamentInv
    <2> QED BY <1>3, <2>1
  <1>5. CASE pc = "second"
    <2>1. /\ best[1] >= TOL => FitnessOf(population[p[1]]) > best[1] - TOL
          /\ best[2] < maxFit + TOL
          /\ Met(1) \/ Met(2)
      BY <1>5 DEF SearchInv, TournamentInv
    <2>2. ASSUME best[2] >= TOL PROVE \E k \in {1, 2} : FitnessOf(population[p[k]]) > best[2] - TOL
      <3>1. PICK k \in {1, 2} : Met(k)
        BY <2>1
      <3>2. FitnessOf(population[p[k]]) > best[2] - TOL
        BY <1>3, <2>1, <2>2, <3>1
      <3> QED BY <3>2
    <2> QED BY <2>1, <2>2
  <1> QED BY <1>4, <1>5

\* For every population, whatever trees crossover and mutation make, the operators have the
\* operands eval() and printTo() follow, the cache holds fitnesses, and the tree that the scan
\* chose is in the population.
THEOREM GpTypeAlways == GpSpec => []GpTypeOK
  BY SearchInvAlways, SearchTypes, PTL

\* For every population, no node is ever in two trees of the population and the offspring not
\* placed yet, nor twice in one, and none refers to a deleted node, although crossover()
\* and mutate() relink nodes of several trees and replacement deletes whole trees.
THEOREM OwnedOnceAlways == GpSpec => []OwnedOnce
  BY SearchInvAlways, SearchOwns, PTL

\* For every population, a cached fitness is that of a tree of the population, measured on
\* what the compiler reads of the tree's expression, although the cache is keyed by addresses
\* that are used again.
THEOREM FitnessIsOwnAlways == GpSpec => []FitnessIsOwn
  BY SearchInvAlways, SearchIsOwn, PTL

\* For every population, tournament size and set of fitnesses, the winners of the tournaments
\* are within the tolerance of the best candidates they met.
THEOREM WinnersAreBestAlways == GpSpec => []WinnersAreBest
  BY SearchInvAlways, SearchWins, PTL

\* For every population, replacement keeps a tree whose fitness is within the tolerance of
\* the best that the scan met.
THEOREM EliteKeptAlways == GpSpec => []EliteKept
  <1>1. SearchInv => EliteKept
    BY DEF SearchInv
  <1> QED BY <1>1, SearchInvAlways, PTL
=============================================================================
