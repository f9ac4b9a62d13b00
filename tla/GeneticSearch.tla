--------------------------- MODULE GeneticSearch ---------------------------
(***************************************************************************)
(* The genetic search for a hyperblock heuristic (train/gp.h, train.cpp):  *)
(* a population of expression trees, each judged by compiling a benchmark  *)
(* with it and simulating the result; tournaments, crossover, mutation and *)
(* replacement, generation after generation.                               *)
(*                                                                         *)
(* Trees are nodes of a heap, since crossover relinks them, replacement    *)
(* deletes them and the cache of fitnesses is keyed by their addresses.    *)
(* An address is a block, one for a tree that is made, and the place of    *)
(* the node in that tree; a new tree takes the lowest block where all its  *)
(* places are free, so that addresses are reused.                          *)
(* Nodes the code leaks are forgotten.  The parent of a node is the one    *)
(* validate() computes, which the code does before it reads any.           *)
(*                                                                         *)
(* Fitnesses are in thousandths.                                           *)
(***************************************************************************)
EXTENDS Integers, Sequences, FiniteSets, SequencesExt

CONSTANTS
    POPULATION, GENERATION, TOURNAMENT_SIZE,
    REPLACEMENT_RATIO,      \* per cent
    FITNESS,                \* what a simulation may find, 0 when it fails
    TREES,                  \* expressions new ExpTree() may build
    BASE,                   \* the expression in base_line.txt
    MAXHEIGHT               \* bound: no taller tree is made

ASSUME SearchAssumption ==
    /\ POPULATION \in Nat \ {0, 1} /\ GENERATION \in Nat /\ TOURNAMENT_SIZE \in Nat \ {0}
    /\ REPLACEMENT_RATIO \in 1..100
    /\ FITNESS \subseteq Nat /\ MAXHEIGHT \in Nat

\* Trees: the path from the root to a node is a sequence of sides.  An expression has
\* the operators alone, each with its operands.
Paths == UNION {[1..n -> 1..2] : n \in 0..MAXHEIGHT}
Arity == [leaf |-> 0, unary |-> 1, binary |-> 2]

IsExpression(e) ==
    /\ DOMAIN e \subseteq Paths /\ e \in [DOMAIN e -> DOMAIN Arity]
    /\ <<>> \in DOMAIN e
    /\ \A path \in DOMAIN e :
          /\ Len(path) < MAXHEIGHT
          /\ path # <<>> => Front(path) \in DOMAIN e
          /\ Cardinality({side \in 1..2 : Append(path, side) \in DOMAIN e}) = Arity[e[path]]

ASSUME TreesAssumption == \A e \in TREES \cup {BASE} : IsExpression(e)

VARIABLES
    heap,           \* allocated nodes
    population, offsprings,
    fitnesses,      \* root -> its fitness and (history) the expression judged
    readFirst,      \* the argument of readFrom's constructor call read first
    pc,
    gen,
    i,              \* the loop counter of mate()
    j,              \* candidates drawn by this tournament
    p,              \* p1 and p2, from 1
    maxFit, maxTree,
    best            \* history: best fitness met by each tournament; by the scan

mating == <<i, j, p, maxFit, best>>
vars == <<heap, population, offsprings, fitnesses, readFirst, pc, gen, mating, maxTree>>

NULL == <<0, <<>>>>
TOL == 5

\* f with the value v for x.
With(f, x, v) == [y \in DOMAIN f \cup {x} |-> IF y = x THEN v ELSE f[y]]

-----------------------------------------------------------------------------
\* The upper levels of a tree, with the next one added.
Deeper(h, up, depth) ==
    LET Kid(path, side) == h[up[path]].kid[side]
        down == {q \in {path \in DOMAIN up : Len(path) = depth - 1} \X (1..2) :
                    Kid(q[1], q[2]) \in DOMAIN h}
    IN  [path \in DOMAIN up \cup {Append(q[1], q[2]) : q \in down} |->
            IF path \in DOMAIN up THEN up[path] ELSE Kid(Front(path), Last(path))]

\* The nodes of the tree with root t, by their paths.
Tree(h, t) ==
    LET tree[depth \in 0..MAXHEIGHT] ==
            IF depth = 0 THEN [path \in {q \in {<<>>} : t \in DOMAIN h} |-> t]
            ELSE Deeper(h, tree[depth - 1], depth)
    IN  tree[MAXHEIGHT]

Places(h, t) == DOMAIN Tree(h, t)
Nodes(h, t) == Range(Tree(h, t))
Exp(h, t) == LET tree == Tree(h, t) IN [path \in DOMAIN tree |-> h[tree[path]].op]
getSize(t) == Cardinality(Places(heap, t))
Fits(h, t) == \A path \in Places(h, t) : Len(path) < MAXHEIGHT

\* The nodes of an expression, which copy() and the constructors make.
Free(h, e, block) == \A path \in DOMAIN e : <<block, path>> \notin DOMAIN h
LowestFree(h, e) == CHOOSE block \in 1..(Cardinality(DOMAIN h) + 1) :
                        Free(h, e, block) /\ \A b \in 1..(block - 1) : ~Free(h, e, b)

Build(h, e) ==
    LET block == LowestFree(h, e)
        Node(path) == IF path \in DOMAIN e THEN <<block, path>> ELSE NULL
    IN  [root |-> Node(<<>>),
         heap |-> [n \in DOMAIN h \cup {Node(path) : path \in DOMAIN e} |->
                     IF n \in DOMAIN h THEN h[n]
                     ELSE [op |-> e[n[2]], kid |-> [side \in 1..2 |-> Node(Append(n[2], side))]]]]

\* Faulty: the root alone is copied.
copyShallow(h, t) ==
    LET root == <<LowestFree(h, Exp(h, t)), <<>>>>
    IN  [root |-> root, heap |-> With(h, root, h[t])]

copy(h, t) == Build(h, Exp(h, t))

Delete(h, t) == Restrict(h, DOMAIN h \ Nodes(h, t))
Kept(h, roots) == Restrict(h, UNION {Nodes(h, t) : t \in roots})

\* A line for each node, an empty one for each missing child.
writeTo(e) ==
    LET lines[path \in Paths] ==
            IF path \in DOMAIN e
            THEN <<e[path]>> \o lines[Append(path, 1)] \o lines[Append(path, 2)]
            ELSE <<"">>
    IN  lines[<<>>]

\* One line is read, for the first place that is still to be read.
Line(s, line, first) ==
    LET path == Head(s.todo)
    IN  IF s.todo = <<>> THEN s
        ELSE IF line = "" THEN [s EXCEPT !.todo = Tail(@)]
        ELSE [todo |-> <<Append(path, first), Append(path, 3 - first)>> \o Tail(s.todo),
              tree |-> With(s.tree, path, line)]

\* readFrom calls itself in two arguments of one call, and C++ leaves open
\* which is evaluated first: the children may change sides.
readFrom(lines, first) ==
    LET read[k \in 0..Len(lines)] ==
            IF k = 0 THEN [todo |-> <<<<>>>>, tree |-> <<>>]
            ELSE Line(read[k - 1], lines[k], first)
    IN  read[Len(lines)].tree

-----------------------------------------------------------------------------
\* Crossover of two trees and mutation of the results.

\* Faulty: the new node always becomes the right child.
RelinkRight(h, par, old, new) == [h EXCEPT ![par].kid[2] = new]

Relink(h, par, old, new) ==
    [h EXCEPT ![par].kid[IF h[par].kid[1] = old THEN 1 ELSE 2] = new]

parent(h, t, path) == IF path = <<>> THEN NULL ELSE Tree(h, t)[Front(path)]

mutate(h, t, path, e) ==
    IF path = <<>> THEN h
    ELSE LET new == Build(h, e)
         IN  Relink(new.heap, parent(h, t, path), Tree(h, t)[path], new.root)

\* Heaps after sub takes old's place in t and t mutates; t stays bounded.
Bred(h, t, par, old, sub) ==
    IF par = NULL THEN {h}
    ELSE LET linked == Relink(h, par, old, sub)
             bred == {mutate(linked, t, path, e) : path \in Places(linked, t), e \in TREES}
         IN  {x \in bred : Fits(x, t)}

crossover(t1, t2) ==
    LET c1 == copy(heap, t1)
        c2 == copy(c1.heap, t2)
        h == c2.heap
    IN  \E path1 \in Places(h, c1.root), path2 \in Places(h, c2.root) :
            LET par1 == parent(h, c1.root, path1)
                par2 == parent(h, c2.root, path2)
                sub1 == Tree(h, c1.root)[path1]
                sub2 == Tree(h, c2.root)[path2]
                born == (IF par1 = NULL THEN <<>> ELSE <<c1.root>>)
                        \o (IF par2 = NULL THEN <<>> ELSE <<c2.root>>)
            IN  \E h1 \in Bred(h, c1.root, par1, sub1, sub2) :
                \E h2 \in Bred(h1, c2.root, par2, sub2, sub1) :
                    /\ offsprings' = offsprings \o born
                    /\ heap' = Kept(h2, Range(population) \cup Range(offsprings'))

-----------------------------------------------------------------------------

\* One tree more.
Grown(made, e) ==
    LET new == Build(made.heap, e)
    IN  [heap |-> new.heap, roots |-> Append(made.roots, new.root)]

\* The constructor of Population: random trees, and one read from a file.
Populate(exps) ==
    LET made[k \in 0..Len(exps)] ==
            IF k = 0 THEN [heap |-> <<>>, roots |-> <<>>]
            ELSE Grown(made[k - 1], exps[k])
    IN  made[Len(exps)]

Tournament(n) == /\ i' = n
                 /\ j' = 0
                 /\ p' = <<1, 1>>
                 /\ maxFit' = 0
                 /\ best' = <<0, 0>>

Init ==
    /\ readFirst \in {1, 2}
    /\ \E trees \in [1..(POPULATION - 1) -> TREES] :
          LET made == Populate(Append(trees, readFrom(writeTo(BASE), readFirst)))
          IN  heap = made.heap /\ population = made.roots
    /\ offsprings = <<>>
    /\ fitnesses = <<>>
    /\ pc = IF GENERATION = 0 THEN "done" ELSE "first"
    /\ gen = 0 /\ i = 0 /\ j = 0 /\ p = <<1, 1>> /\ maxFit = 0 /\ maxTree = NULL
    /\ best = <<0, 0>>

\* A tree is written for the compiler, which reads it with the same readFrom.
computeFitness(t) ==
    IF t \in DOMAIN fitnesses THEN {fitnesses[t]}
    ELSE [fit : FITNESS, of : {readFrom(writeTo(Exp(heap, t)), readFirst)}]

\* Faulty: any smaller tree wins, however bad it is.
WinsAny(r, fit, winner) ==
    fit - maxFit < TOL => getSize(population[r]) < getSize(population[winner])

\* Does the r-th tree, of this fitness, displace the tournament's winner?
Wins(r, fit, winner) ==
    /\ fit >= maxFit
    /\ fit - maxFit < TOL => getSize(population[r]) < getSize(population[winner])

\* One candidate of the first or the second tournament.  The second goes on
\* from the first one's maxFit.
Draw(k, r) ==
    /\ pc = <<"first", "second">>[k]
    /\ j < TOURNAMENT_SIZE
    /\ \E judged \in computeFitness(population[r]) :
          LET won == Wins(r, judged.fit, p[k])
          IN  /\ fitnesses' = With(fitnesses, population[r], judged)
              /\ maxFit' = IF won THEN judged.fit ELSE maxFit
              /\ p' = IF won THEN [p EXCEPT ![k] = r] ELSE p
              /\ best' = [l \in 1..2 |-> IF l >= k THEN Max({judged.fit, best[l]}) ELSE best[l]]
    /\ j' = j + 1
    /\ UNCHANGED <<heap, population, offsprings, readFirst, pc, gen, i, maxTree>>

SecondTournament ==
    /\ pc = "first" /\ j = TOURNAMENT_SIZE
    /\ pc' = "second"
    /\ j' = 0
    /\ UNCHANGED <<heap, population, offsprings, fitnesses, readFirst, gen, i, p, maxFit, maxTree, best>>

Mate ==
    /\ pc = "second" /\ j = TOURNAMENT_SIZE
    /\ crossover(population[p[1]], population[p[2]])
    /\ Tournament(i + 2)
    /\ pc' = IF 100 * i' < POPULATION * REPLACEMENT_RATIO THEN "first" ELSE "scan"
    /\ UNCHANGED <<population, fitnesses, readFirst, gen, maxTree>>

\* The scan for the best tree, in the order of the addresses.
Scanned(s, t) ==
    LET fit == fitnesses[t].fit
    IN  IF s.crashed \/ fit < s.fit THEN s
        ELSE IF fit - s.fit < TOL /\ s.tree = NULL THEN [s EXCEPT !.crashed = TRUE]
        ELSE IF fit - s.fit < TOL /\ getSize(t) >= getSize(s.tree) THEN s
        ELSE [s EXCEPT !.tree = t, !.fit = fit]

ScanOf(order) ==
    LET s[k \in 0..Len(order)] ==
            IF k = 0 THEN [tree |-> NULL, fit |-> 0, crashed |-> FALSE]
            ELSE Scanned(s[k - 1], order[k])
    IN  s[Len(order)]

Scan ==
    /\ pc = "scan"
    /\ \E order \in SetToSeqs(DOMAIN fitnesses) :
          LET s == ScanOf(order)
          IN  /\ pc' = IF s.crashed THEN "crashed" ELSE "replace"
              /\ maxTree' = s.tree
              /\ maxFit' = s.fit
    /\ i' = 0
    /\ best' = [best EXCEPT ![1] = Max({f.fit : f \in Range(fitnesses)})]
    /\ UNCHANGED <<heap, population, offsprings, fitnesses, readFirst, gen, j, p>>

Replacing == 100 * i < Len(offsprings) * REPLACEMENT_RATIO

\* Faulty: the best tree may go as well.
ReplaceableAny(r) == TRUE

Replaceable(r) == population[r] # maxTree

\* Faulty: the cache keeps the address of a deleted tree.
EraseNothing(t) == fitnesses

Erase(t) == Restrict(fitnesses, DOMAIN fitnesses \ {t})

Replace(r) ==
    /\ pc = "replace"
    /\ Replacing
    /\ Replaceable(r)
    /\ fitnesses' = Erase(population[r])
    /\ heap' = Delete(heap, population[r])
    /\ population' = [population EXCEPT ![r] = offsprings[i + 1]]
    /\ i' = i + 1
    /\ UNCHANGED <<offsprings, readFirst, pc, gen, j, p, maxFit, maxTree, best>>

EndGeneration ==
    /\ pc = "replace"
    /\ ~Replacing
    /\ offsprings' = <<>>
    /\ heap' = Kept(heap, Range(population))
    /\ gen' = gen + 1
    /\ pc' = IF gen' < GENERATION THEN "first" ELSE "done"
    /\ Tournament(0)
    /\ maxTree' = NULL
    /\ UNCHANGED <<population, fitnesses, readFirst>>

Next ==
    \/ \E k \in {1, 2}, r \in 1..POPULATION : Draw(k, r)
    \/ SecondTournament
    \/ Mate
    \/ Scan
    \/ \E r \in 1..POPULATION : Replace(r)
    \/ EndGeneration

GpSpec == Init /\ [][Next]_vars

-----------------------------------------------------------------------------
\* Properties.

Mirror(e) == [path \in {[k \in DOMAIN q |-> 3 - q[k]] : q \in DOMAIN e} |->
                 e[[k \in DOMAIN path |-> 3 - path[k]]]]
AsRead(e) == IF readFirst = 1 THEN e ELSE Mirror(e)
Roots == Range(population) \cup Range(offsprings)
FitnessOf(t) == IF t \in DOMAIN fitnesses THEN fitnesses[t].fit ELSE 0

\* Types; every operator has the operands eval() and printTo() follow.
GpTypeOK ==
    /\ Len(population) = POPULATION /\ NULL \notin DOMAIN heap
    /\ \A n \in DOMAIN heap :
          /\ heap[n].op \in DOMAIN Arity
          /\ Cardinality({side \in 1..2 : heap[n].kid[side] # NULL}) = Arity[heap[n].op]
    /\ \A t \in DOMAIN fitnesses : fitnesses[t].fit \in FITNESS
    /\ pc \in {"first", "second", "scan", "replace", "done", "crashed"}
    /\ gen \in 0..GENERATION /\ j \in 0..TOURNAMENT_SIZE
    /\ p \in [1..2 -> 1..POPULATION] /\ maxTree \in Range(population) \cup {NULL}

\* crossover() and mutate() relink nodes of several trees, and replacement
\* deletes whole trees: no node is ever in two trees of the population and
\* the offspring not placed yet, nor twice in one, and none refers to a
\* deleted node.
OwnedOnce ==
    LET waiting == {t \in Range(offsprings) : pc # "replace"}
                   \cup {offsprings[k] : k \in {n \in DOMAIN offsprings : pc = "replace" /\ n > i}}
        trees == Range(population) \cup waiting
    IN  /\ \A t \in trees : t \in DOMAIN heap /\ Cardinality(Nodes(heap, t)) = getSize(t)
        /\ \A s, t \in trees : s # t => Nodes(heap, s) \cap Nodes(heap, t) = {}
        /\ waiting \cap Range(population) = {}
        /\ \A n \in DOMAIN heap : Range(heap[n].kid) \subseteq DOMAIN heap \cup {NULL}
        /\ \A k, l \in DOMAIN population : k # l => population[k] # population[l]

\* The fitnesses are cached by the address of the root.  Although trees are
\* deleted and addresses used again, a cached fitness is that of a tree of
\* the population, measured on what the compiler reads of the expression the
\* tree has now.
FitnessIsOwn ==
    \A t \in DOMAIN fitnesses :
        /\ t \in Range(population)
        /\ fitnesses[t].of = AsRead(Exp(heap, t))

\* Preferring the smaller of two close trees loses little: the first parent
\* is within the tolerance of the best candidate of its tournament, and one
\* of the two within that of the best of both, once a candidate reached it.
WinnersAreBest ==
    pc \in {"first", "second"} =>
        /\ best[1] >= TOL => FitnessOf(population[p[1]]) > best[1] - TOL
        /\ best[2] >= TOL => \E k \in {1, 2} : FitnessOf(population[p[k]]) > best[2] - TOL

\* Replacement keeps a tree of the population whose cached fitness is within
\* the tolerance of the best that the scan met, whatever order the addresses
\* are in.
EliteKept ==
    pc = "replace" => /\ maxTree \in Range(population) \cap DOMAIN fitnesses
                      /\ FitnessOf(maxTree) > best[1] - TOL

\* Choosing the best tree "should not be a pain" (gp.h:564).
NoCrash == pc # "crashed"
=============================================================================
