--------------------------- MODULE SimuCallsProofs ---------------------------
(***************************************************************************)
(* What calls, returns, setjmp and longjmp keep, for every number of       *)
(* functions, jump buffers and activations, in programs whose longjmps do  *)
(* not leave native activations behind.                                    *)
(***************************************************************************)
EXTENDS SimuCalls, FiniteSetTheorems, SequenceTheorems, TLAPS

Sim(i) == cstack[i].k = "sim"

\* The activation in position i is not about to be unwound.
Live(i) == Sim(i) /\ SimFrames(i) <= Len(mstack)

\* The types, and a buffer or none for each key.
Types ==
    /\ TypeOK
    /\ program \in Programs
    /\ jmpbuf \in [Key -> Buffer \cup {None}]
    /\ aborted = FALSE

\* Native code calls Main, and only native code passes arguments in a frame
\* of its own.
Shape ==
    /\ Depth > 0 => Sim(1) /\ reginfo \in Func /\ file \in File
    /\ \A i \in 2 .. Depth : Sim(i) => /\ cstack[i].args => ~Sim(i - 1)
                                       /\ cstack[i].file \in File
                                       /\ cstack[i].reginfo \in Func

\* Wrappers and the macro stack hold what belongs to the activation below.
Chain ==
    /\ Len(mstack) = SimFrames(Depth) - ToUnwind
    /\ \A i, j \in 1 .. Depth : i < j /\ Sim(i) /\ Sim(j) /\ SimFrames(j) = SimFrames(i) + 1 =>
            /\ cstack[j].parms = i
            /\ VIRTREGS => cstack[j].reginfo = cstack[i].fn
            /\ Live(j) => mstack[SimFrames(j)].fname = cstack[i].fn
    /\ \A j \in 1 .. Depth : Live(j) =>
            mstack[SimFrames(j)].pv = [i \in PV \cap SavedPV |-> cstack[j].pv[i]]

\* The registers of the run-time are those of the last live activation.
Running ==
    \A i \in 1 .. Depth : Sim(i) /\ SimFrames(i) = Len(mstack) =>
        /\ fname = cstack[i].fn /\ parms = i
        /\ VIRTREGS => reginfo = cstack[i].fn
        /\ sp = FrameWords(i)

\* A jump buffer whose setjmp is active holds what belongs to its activation.
Buffers ==
    \A k \in Key :
        /\ jmpbuf[k] # None => jmpbuf[k].depth <= SimFrames(Depth)
        /\ home[k] # 0 =>
            /\ home[k] <= Depth /\ Sim(home[k]) /\ jmpbuf[k] # None
            /\ jmpbuf[k].mstack = SimFrames(home[k])
            /\ jmpbuf[k].fname = cstack[home[k]].fn /\ jmpbuf[k].params = home[k]
            /\ VIRTREGS => jmpbuf[k].reginfo = cstack[home[k]].fn
            /\ jmpbuf[k].sp = FrameWords(home[k])

\* A longjmp is on its way to an active setjmp, over simulated functions only.
UnderWay ==
    /\ longjmp_executed => /\ target \in Key /\ home[target] # 0 /\ jmpbuf[target].depth = 0
                           /\ \A i \in home[target] .. Depth : Sim(i)
    /\ ~longjmp_executed => longjmp_depth = 0

\* The inductive invariant, in programs that keep C's rule about native code.
CallsInv ==
    /\ CROSSNATIVE = FALSE
    /\ Types /\ Shape /\ Chain /\ Running /\ Buffers /\ UnderWay
    /\ DepthExact /\ RegFilesOwned

-----------------------------------------------------------------------------
\* Counting activations on any C stack s.

SimsIn(s, n) == Cardinality({i \in 1 .. n : s[i].k = "sim"})
WordsIn(s, n) == SimsIn(s, n) + Cardinality({i \in 1 .. n : s[i].k = "sim" /\ s[i].args})

LEMMA CountsAre ==
  /\ \A n : SimFrames(n) = SimsIn(cstack, n) /\ FrameWords(n) = WordsIn(cstack, n)
  /\ \A n : SimFrames(n)' = SimsIn(cstack', n) /\ FrameWords(n)' = WordsIn(cstack', n)
  BY DEF SimFrames, FrameWords, SimsIn, WordsIn

\* The first n, one more, and those with a frame of arguments.
LEMMA CountSteps ==
  ASSUME NEW s, NEW n \in Nat
  PROVE  /\ SimsIn(s, n) \in 0 .. n
         /\ SimsIn(s, n + 1) = IF s[n + 1].k = "sim" THEN SimsIn(s, n) + 1 ELSE SimsIn(s, n)
         /\ WordsIn(s, n) \in Nat
         /\ WordsIn(s, n + 1) = IF s[n + 1].k = "sim"
                                THEN WordsIn(s, n) + (IF s[n + 1].args THEN 2 ELSE 1)
                                ELSE WordsIn(s, n)
  <1> DEFINE A(m) == {i \in 1 .. m : s[i].k = "sim"}
             B(m) == {i \in 1 .. m : s[i].k = "sim" /\ s[i].args}
  <1>1. IsFiniteSet(1 .. n) /\ Cardinality(1 .. n) = n
    BY FS_Interval
  <1>2. A(n) \in SUBSET (1 .. n) /\ B(n) \in SUBSET (1 .. n)
    OBVIOUS
  <1>3. /\ IsFiniteSet(A(n)) /\ IsFiniteSet(B(n)) /\ Cardinality(A(n)) <= n
        /\ Cardinality(A(n)) \in Nat /\ Cardinality(B(n)) \in Nat
    <2> HIDE DEF A, B
    <2> QED BY <1>1, <1>2, FS_Subset, FS_CardinalityType
  <1>4. \A i : i \in 1 .. (n + 1) <=> i \in 1 .. n \/ i = n + 1
    OBVIOUS
  <1>5. n + 1 \notin 1 .. n
    OBVIOUS
  <1>6. /\ A(n + 1) = IF s[n + 1].k = "sim" THEN A(n) \cup {n + 1} ELSE A(n)
        /\ B(n + 1) = IF s[n + 1].k = "sim" /\ s[n + 1].args THEN B(n) \cup {n + 1} ELSE B(n)
    BY <1>4, <1>5
  <1>7. n + 1 \notin A(n) /\ n + 1 \notin B(n)
    BY <1>5
  <1> HIDE DEF A, B
  <1>8. /\ Cardinality(A(n) \cup {n + 1}) = Cardinality(A(n)) + 1
        /\ Cardinality(B(n) \cup {n + 1}) = Cardinality(B(n)) + 1
    BY <1>3, <1>7, FS_AddElement
  <1>9. \A m : /\ SimsIn(s, m) = Cardinality(A(m))
               /\ WordsIn(s, m) = Cardinality(A(m)) + Cardinality(B(m))
    BY DEF A, B, SimsIn, WordsIn
  <1> QED BY <1>3, <1>6, <1>8, <1>9

\* Nothing is counted before the first.
LEMMA CountNone == ASSUME NEW s PROVE SimsIn(s, 0) = 0 /\ WordsIn(s, 0) = 0
  <1>1. /\ {i \in 1 .. 0 : s[i].k = "sim"} = {}
        /\ {i \in 1 .. 0 : s[i].k = "sim" /\ s[i].args} = {}
    OBVIOUS
  <1> QED BY <1>1, FS_EmptySet DEF SimsIn, WordsIn

\* More activations count more, and a simulated one in between is seen.
LEMMA CountGrows ==
  ASSUME NEW s, NEW m \in Nat, NEW n \in Nat, m <= n
  PROVE  /\ SimsIn(s, m) <= SimsIn(s, n)
         /\ \A j \in (m + 1) .. n : s[j].k = "sim" => SimsIn(s, m) < SimsIn(s, n)
         /\ SimsIn(s, m) = SimsIn(s, n) => WordsIn(s, m) = WordsIn(s, n)
  <1> DEFINE A(x) == {i \in 1 .. x : s[i].k = "sim"}
             B(x) == {i \in 1 .. x : s[i].k = "sim" /\ s[i].args}
  <1>1. IsFiniteSet(A(n))
    <2>1. A(n) \in SUBSET (1 .. n) /\ IsFiniteSet(1 .. n)
      BY FS_Interval
    <2> HIDE DEF A
    <2> QED BY <2>1, FS_Subset
  <1>2. A(m) \in SUBSET A(n)
    OBVIOUS
  <1>3. Cardinality(A(m)) <= Cardinality(A(n)) /\ (Cardinality(A(n)) = Cardinality(A(m)) => A(n) = A(m))
    <2> HIDE DEF A
    <2> QED BY <1>1, <1>2, FS_Subset
  <1>4. A(n) = A(m) => B(n) = B(m)
    OBVIOUS
  <1>5. \A j \in (m + 1) .. n : s[j].k = "sim" => j \in A(n) /\ j \notin A(m)
    OBVIOUS
  <1>6. \A x : /\ SimsIn(s, x) = Cardinality(A(x))
               /\ WordsIn(s, x) = Cardinality(A(x)) + Cardinality(B(x))
    BY DEF SimsIn, WordsIn
  <1>7. SimsIn(s, m) \in Nat /\ SimsIn(s, n) \in Nat
    BY CountSteps
  <1> HIDE DEF A, B
  <1> QED BY <1>3, <1>4, <1>5, <1>6, <1>7

\* What is above position n does not matter.
LEMMA CountKeeps ==
  ASSUME NEW s, NEW t, NEW n \in Nat, \A i \in 1 .. n : s[i] = t[i]
  PROVE  SimsIn(s, n) = SimsIn(t, n) /\ WordsIn(s, n) = WordsIn(t, n)
  <1>1. /\ {i \in 1 .. n : s[i].k = "sim"} = {i \in 1 .. n : t[i].k = "sim"}
        /\ {i \in 1 .. n : s[i].k = "sim" /\ s[i].args} = {i \in 1 .. n : t[i].k = "sim" /\ t[i].args}
    OBVIOUS
  <1> QED BY <1>1 DEF SimsIn, WordsIn

\* Every nonempty set of naturals has a least element.
LEMMA LeastExists == \A T \in SUBSET Nat : T # {} => \E x \in T : \A y \in T : x <= y
  <1> SUFFICES ASSUME NEW T \in SUBSET Nat, T # {} PROVE \E x \in T : \A y \in T : x <= y
    OBVIOUS
  <1> DEFINE R == OpToRel(<, Nat)
  <1>1. \E x \in T : \A y \in T : ~ (<<y, x>> \in R)
    <2>1. IsWellFoundedOn(R, Nat)
      BY NatLessThanWellFounded
    <2> HIDE DEF R
    <2> QED BY <2>1, WFMin
  <1>2. \A x, y \in Nat : <<y, x>> \in R <=> y < x
    BY DEF OpToRel
  <1> HIDE DEF R
  <1>3. PICK x \in T : \A y \in T : ~ (<<y, x>> \in R)
    BY <1>1
  <1>4. \A y \in T : x <= y
    <2> TAKE y \in T
    <2>1. x \in Nat /\ y \in Nat /\ ~(y < x)
      BY <1>2, <1>3
    <2> QED BY <2>1
  <1> QED BY <1>4

\* Where anything is counted there is a last one.
LEMMA LastCounted ==
  ASSUME NEW s, NEW n \in Nat, SimsIn(s, n) # 0
  PROVE  \E i \in 1 .. n : /\ s[i].k = "sim" /\ SimsIn(s, i) = SimsIn(s, n)
                           /\ WordsIn(s, i) = WordsIn(s, n)
  <1> DEFINE T == {n - i : i \in {j \in 1 .. n : s[j].k = "sim"}}
  <1>1. T # {}
    <2>1. {j \in 1 .. n : s[j].k = "sim"} # {}
      BY FS_EmptySet DEF SimsIn
    <2> QED BY <2>1
  <1>2. T \in SUBSET Nat
    OBVIOUS
  <1>3. PICK x \in T : \A y \in T : x <= y
    <2> HIDE DEF T
    <2> QED BY <1>1, <1>2, LeastExists
  <1>4. PICK i \in 1 .. n : s[i].k = "sim" /\ x = n - i
    BY <1>3
  <1>5. \A j \in 1 .. n : s[j].k = "sim" => j <= i
    <2> TAKE j \in 1 .. n
    <2> HAVE s[j].k = "sim"
    <2>1. n - j \in T
      OBVIOUS
    <2>2. x <= n - j
      BY <1>3, <2>1
    <2> QED BY <1>4, <2>2
  <1>6. /\ {j \in 1 .. n : s[j].k = "sim"} = {j \in 1 .. i : s[j].k = "sim"}
        /\ {j \in 1 .. n : s[j].k = "sim" /\ s[j].args} = {j \in 1 .. i : s[j].k = "sim" /\ s[j].args}
    BY <1>5
  <1> QED BY <1>4, <1>6 DEF SimsIn, WordsIn

-----------------------------------------------------------------------------
\* Register files.

\* There is a file to allocate while fewer are in use than may be.
LEMMA FreshExists ==
  ASSUME NEW used \in SUBSET File, Cardinality(used) <= MAXDEPTH
  PROVE  Fresh(used) \in File \ used
  <1>1. IsFiniteSet(File) /\ Cardinality(File) = MAXDEPTH + 1 /\ File \subseteq Nat
    BY FS_Interval, DepthAssumption DEF File
  <1>2. Cardinality(used) \in Nat /\ used # File
    <2>1. Cardinality(used) \in Nat
      BY <1>1, FS_Subset, FS_CardinalityType
    <2> QED BY <1>1, <2>1, DepthAssumption
  <1>3. File \ used \in SUBSET Nat /\ File \ used # {}
    BY <1>1, <1>2
  <1>4. \E x \in File \ used : \A y \in File \ used : x <= y
    BY <1>3, LeastExists
  <1> HIDE DEF File
  <1> QED BY <1>4 DEF Fresh

\* The files saved in wrappers are no more than the wrappers.
LEMMA SavedFew ==
  ASSUME Depth \in Nat
  PROVE  /\ IsFiniteSet({cstack[i].file : i \in Saved})
         /\ Cardinality({cstack[i].file : i \in Saved}) <= Depth
  <1> DEFINE T == {cstack[i].file : i \in Saved}
             g == [i \in Saved |-> cstack[i].file]
  <1>1. IsFiniteSet(1 .. Depth) /\ Cardinality(1 .. Depth) = Depth
    BY FS_Interval
  <1>2. Saved \in SUBSET (1 .. Depth)
    BY DEF Saved
  <1>3. IsFiniteSet(Saved) /\ Cardinality(Saved) <= Depth /\ Cardinality(Saved) \in Nat
    BY <1>1, <1>2, FS_Subset, FS_CardinalityType
  <1>4. g \in Surjection(Saved, T)
    BY DEF Surjection
  <1>5. IsFiniteSet(T) /\ Cardinality(T) <= Cardinality(Saved)
    <2> HIDE DEF g, T
    <2> QED BY <1>3, <1>4, FS_Surjection
  <1>6. Cardinality(T) \in Nat
    BY <1>5, FS_CardinalityType
  <1> QED BY <1>3, <1>5, <1>6

-----------------------------------------------------------------------------
\* The C stack when an activation is added, when one leaves, and at rest.

LEMMA FrontOf ==
  ASSUME NEW S, NEW s \in Seq(S), Len(s) > 0
  PROVE  /\ Front(s) \in Seq(S) /\ Len(Front(s)) = Len(s) - 1
         /\ \A i \in 1 .. (Len(s) - 1) : Front(s)[i] = s[i]
  <1> DEFINE m == Len(s) - 1
  <1>1. m \in Nat /\ \A i \in 1 .. m : s[i] \in S
    OBVIOUS
  <1>2. /\ SubSeq(s, 1, m) \in Seq(S)
        /\ Len(SubSeq(s, 1, m)) = IF 1 <= m THEN m - 1 + 1 ELSE 0
        /\ \A i \in 1 .. (m - 1 + 1) : SubSeq(s, 1, m)[i] = s[1 + i - 1]
    <2> HIDE DEF m
    <2> QED BY <1>1, SubSeqProperties
  <1>3. \A i \in 1 .. m : SubSeq(s, 1, m)[i] = s[i]
    <2> HIDE DEF m
    <2> QED BY <1>1, <1>2
  <1>4. Len(SubSeq(s, 1, m)) = m
    <2> HIDE DEF m
    <2> QED BY <1>1, <1>2
  <1>5. Front(s) = SubSeq(s, 1, m)
    BY Zenon DEF Front
  <1>6. m = Len(s) - 1
    OBVIOUS
  <1> HIDE DEF m
  <1> QED BY <1>2, <1>3, <1>4, <1>5, <1>6, Zenon

LEMMA StackType ==
  ASSUME TypeOK
  PROVE  /\ Depth \in Nat /\ Depth <= MAXDEPTH /\ MAXDEPTH \in Nat
         /\ cstack \in Seq(Frame \cup [k : {"nat"}])
         /\ \A i \in 1 .. Depth : /\ Sim(i) => cstack[i] \in Frame
                                  /\ ~Sim(i) => cstack[i] \in [k : {"nat"}]
  <1>1. cstack \in Seq(Frame \cup [k : {"nat"}]) /\ Depth <= MAXDEPTH
    BY DEF TypeOK
  <1>2. \A i \in 1 .. Depth : cstack[i] \in Frame \cup [k : {"nat"}]
    BY <1>1 DEF Depth
  <1>3. \A x \in Frame : x.k = "sim"
    BY DEF Frame
  <1>4. \A x \in [k : {"nat"}] : x.k = "nat"
    OBVIOUS
  <1> QED BY <1>1, <1>2, <1>3, <1>4, DepthAssumption DEF Depth, Sim

\* Of two positions, the upper simulated one has the higher count.
LEMMA Positions ==
  ASSUME NEW i \in Nat, NEW j \in Nat
  PROVE  /\ SimFrames(i) \in 0 .. i /\ FrameWords(i) \in Nat
         /\ i <= j => SimFrames(i) <= SimFrames(j)
         /\ i < j /\ Sim(j) => SimFrames(i) < SimFrames(j)
         /\ i > 0 /\ j > 0 /\ Sim(i) /\ Sim(j) /\ SimFrames(i) = SimFrames(j) => i = j
         /\ i <= j /\ SimFrames(i) = SimFrames(j) => FrameWords(i) = FrameWords(j)
  <1>1. /\ SimsIn(cstack, i) \in 0 .. i /\ WordsIn(cstack, i) \in Nat
        /\ SimsIn(cstack, j) \in 0 .. j
    BY CountSteps
  <1>2. i < j /\ Sim(j) => SimsIn(cstack, i) < SimsIn(cstack, j)
    <2> SUFFICES ASSUME i < j, Sim(j) PROVE SimsIn(cstack, i) < SimsIn(cstack, j)
      OBVIOUS
    <2>1. i <= j /\ j \in (i + 1) .. j
      OBVIOUS
    <2> QED BY <2>1, CountGrows DEF Sim
  <1>3. j < i /\ Sim(i) => SimsIn(cstack, j) < SimsIn(cstack, i)
    <2> SUFFICES ASSUME j < i, Sim(i) PROVE SimsIn(cstack, j) < SimsIn(cstack, i)
      OBVIOUS
    <2>1. j <= i /\ i \in (j + 1) .. i
      OBVIOUS
    <2> QED BY <2>1, CountGrows DEF Sim
  <1>4. i <= j => /\ SimsIn(cstack, i) <= SimsIn(cstack, j)
                  /\ SimsIn(cstack, i) = SimsIn(cstack, j) => WordsIn(cstack, i) = WordsIn(cstack, j)
    BY CountGrows
  <1> QED BY <1>1, <1>2, <1>3, <1>4, CountsAre

LEMMA Pushed ==
  ASSUME TypeOK, NEW x, cstack' = Append(cstack, x)
  PROVE  /\ Depth' = Depth + 1 /\ cstack'[Depth + 1] = x
         /\ \A i \in 1 .. Depth : cstack'[i] = cstack[i] /\ (Sim(i)' <=> Sim(i))
         /\ \A n \in 0 .. Depth : SimFrames(n)' = SimFrames(n) /\ FrameWords(n)' = FrameWords(n)
         /\ SimFrames(Depth)' = IF x.k = "sim" THEN SimFrames(Depth) + 1 ELSE SimFrames(Depth)
         /\ FrameWords(Depth)' = IF x.k = "sim" THEN FrameWords(Depth) + (IF x.args THEN 2 ELSE 1)
                                                    ELSE FrameWords(Depth)
  <1>1. Depth \in Nat
    BY StackType
  <1>2. /\ Depth' = Depth + 1 /\ cstack'[Depth + 1] = x
        /\ \A i \in 1 .. Depth : cstack'[i] = cstack[i]
    BY StackType DEF Depth
  <1>3. \A n \in 0 .. Depth : SimsIn(cstack', n) = SimsIn(cstack, n) /\ WordsIn(cstack', n) = WordsIn(cstack, n)
    <2> TAKE n \in 0 .. Depth
    <2>1. n \in Nat /\ 1 .. n \subseteq 1 .. Depth
      BY <1>1
    <2>2. \A i \in 1 .. n : cstack'[i] = cstack[i]
      BY <1>2, <2>1
    <2> QED BY <2>1, <2>2, CountKeeps
  <1>4. /\ SimsIn(cstack', Depth + 1) = IF x.k = "sim" THEN SimsIn(cstack', Depth) + 1 ELSE SimsIn(cstack', Depth)
        /\ WordsIn(cstack', Depth + 1) = IF x.k = "sim" THEN WordsIn(cstack', Depth) + (IF x.args THEN 2 ELSE 1)
                                                       ELSE WordsIn(cstack', Depth)
    BY <1>1, <1>2, CountSteps
  <1>5. Depth \in 0 .. Depth
    BY <1>1
  <1>6. \A i \in 1 .. Depth : Sim(i)' <=> Sim(i)
    BY <1>2 DEF Sim
  <1>7. \A n \in 0 .. Depth : SimFrames(n)' = SimFrames(n) /\ FrameWords(n)' = FrameWords(n)
    BY <1>3, CountsAre
  <1>8. SimFrames(Depth)' = SimsIn(cstack', Depth + 1) /\ FrameWords(Depth)' = WordsIn(cstack', Depth + 1)
    BY <1>2 DEF SimFrames, FrameWords, SimsIn, WordsIn
  <1> QED BY <1>2, <1>3, <1>4, <1>5, <1>6, <1>7, <1>8, CountsAre

LEMMA Popped ==
  ASSUME TypeOK, Depth > 0, cstack' = Front(cstack)
  PROVE  /\ Depth' = Depth - 1 /\ Depth - 1 \in Nat
         /\ cstack' \in Seq(Frame \cup [k : {"nat"}])
         /\ \A i \in 1 .. (Depth - 1) : cstack'[i] = cstack[i] /\ (Sim(i)' <=> Sim(i))
         /\ \A n \in 0 .. (Depth - 1) : SimFrames(n)' = SimFrames(n) /\ FrameWords(n)' = FrameWords(n)
         /\ SimFrames(Depth) = IF Sim(Depth) THEN SimFrames(Depth - 1) + 1 ELSE SimFrames(Depth - 1)
         /\ FrameWords(Depth) = IF Sim(Depth) THEN FrameWords(Depth - 1) + (IF Top.args THEN 2 ELSE 1)
                                              ELSE FrameWords(Depth - 1)
  <1>1. Depth \in Nat /\ Depth - 1 \in Nat /\ (Depth - 1) + 1 = Depth
    BY StackType
  <1>2. /\ Depth' = Depth - 1 /\ \A i \in 1 .. (Depth - 1) : cstack'[i] = cstack[i]
        /\ cstack' \in Seq(Frame \cup [k : {"nat"}])
    <2>1. cstack \in Seq(Frame \cup [k : {"nat"}])
      BY StackType
    <2>2. Len(cstack) \in Nat /\ Len(cstack) > 0
      BY <1>1 DEF Depth
    <2>3. /\ Front(cstack) \in Seq(Frame \cup [k : {"nat"}]) /\ Len(Front(cstack)) = Len(cstack) - 1
          /\ \A i \in 1 .. (Len(cstack) - 1) : Front(cstack)[i] = cstack[i]
      BY <2>1, <2>2, FrontOf
    <2> QED BY <2>3 DEF Depth
  <1>3. \A n \in 0 .. (Depth - 1) : SimsIn(cstack', n) = SimsIn(cstack, n) /\ WordsIn(cstack', n) = WordsIn(cstack, n)
    <2> TAKE n \in 0 .. (Depth - 1)
    <2>1. n \in Nat /\ 1 .. n \subseteq 1 .. (Depth - 1)
      BY <1>1
    <2>2. \A i \in 1 .. n : cstack'[i] = cstack[i]
      BY <1>2, <2>1
    <2> QED BY <2>1, <2>2, CountKeeps
  <1>4. /\ SimsIn(cstack, (Depth - 1) + 1) = IF cstack[(Depth - 1) + 1].k = "sim"
                                             THEN SimsIn(cstack, Depth - 1) + 1 ELSE SimsIn(cstack, Depth - 1)
        /\ WordsIn(cstack, (Depth - 1) + 1) = IF cstack[(Depth - 1) + 1].k = "sim"
                        THEN WordsIn(cstack, Depth - 1) + (IF cstack[(Depth - 1) + 1].args THEN 2 ELSE 1)
                        ELSE WordsIn(cstack, Depth - 1)
    BY <1>1, CountSteps
  <1> QED BY <1>1, <1>2, <1>3, <1>4, CountsAre DEF Sim, Top

-----------------------------------------------------------------------------
\* Depth counts of the jump buffers.

SameBut(b, c) == /\ c \in Buffer /\ c # None
                 /\ c.reginfo = b.reginfo /\ c.mstack = b.mstack /\ c.params = b.params
                 /\ c.fname = b.fname /\ c.sp = b.sp /\ c.pv = b.pv

\* A buffer with another depth.
LEMMA Recounted ==
  ASSUME NEW b \in Buffer, NEW d \in 0 .. MAXDEPTH
  PROVE  SameBut(b, [b EXCEPT !.depth = d]) /\ [b EXCEPT !.depth = d].depth = d
  <1>1. [b EXCEPT !.depth = d] \in Buffer
    BY DEF Buffer
  <1>2. [b EXCEPT !.depth = d] # None
    BY <1>1, NoneAssumption
  <1>3. /\ [b EXCEPT !.depth = d].reginfo = b.reginfo /\ [b EXCEPT !.depth = d].mstack = b.mstack
        /\ [b EXCEPT !.depth = d].params = b.params /\ [b EXCEPT !.depth = d].fname = b.fname
        /\ [b EXCEPT !.depth = d].sp = b.sp /\ [b EXCEPT !.depth = d].pv = b.pv
        /\ [b EXCEPT !.depth = d].depth = d
    BY DEF Buffer
  <1> QED BY <1>1, <1>2, <1>3 DEF SameBut

LEMMA DepthsAdded ==
  ASSUME jmpbuf \in [Key -> Buffer \cup {None}], jmpbuf' = AddDepth(jmpbuf),
         \A k \in Key : jmpbuf[k] # None => jmpbuf[k].depth < MAXDEPTH
  PROVE  /\ jmpbuf' \in [Key -> Buffer \cup {None}]
         /\ \A k \in Key : IF jmpbuf[k] = None THEN jmpbuf'[k] = None
                           ELSE SameBut(jmpbuf[k], jmpbuf'[k]) /\ jmpbuf'[k].depth = jmpbuf[k].depth + 1
  <1>1. \A k \in Key : IF jmpbuf[k] = None THEN jmpbuf'[k] = None
                       ELSE SameBut(jmpbuf[k], jmpbuf'[k]) /\ jmpbuf'[k].depth = jmpbuf[k].depth + 1
    <2> TAKE k \in Key
    <2>1. CASE jmpbuf[k] = None
      BY <2>1 DEF AddDepth
    <2>2. CASE jmpbuf[k] # None
      <3>1. jmpbuf[k] \in Buffer /\ jmpbuf[k].depth < MAXDEPTH
        BY <2>2
      <3>2. jmpbuf[k].depth + 1 \in 0 .. MAXDEPTH
        BY <3>1, DepthAssumption DEF Buffer
      <3>3. jmpbuf'[k] = [jmpbuf[k] EXCEPT !.depth = jmpbuf[k].depth + 1]
        BY <2>2 DEF AddDepth
      <3> QED BY <2>2, <3>1, <3>2, <3>3, Recounted
    <2> QED BY <2>1, <2>2
  <1>2. jmpbuf' = [k \in Key |-> jmpbuf'[k]]
    BY DEF AddDepth
  <1>3. \A k \in Key : jmpbuf'[k] \in Buffer \cup {None}
    BY <1>1 DEF SameBut
  <1> QED BY <1>1, <1>2, <1>3

LEMMA DepthsTaken ==
  ASSUME jmpbuf \in [Key -> Buffer \cup {None}], jmpbuf' = SubDepth(jmpbuf)
  PROVE  /\ jmpbuf' \in [Key -> Buffer \cup {None}]
         /\ \A k \in Key : IF jmpbuf[k] = None THEN jmpbuf'[k] = None
                           ELSE /\ SameBut(jmpbuf[k], jmpbuf'[k]) /\ jmpbuf[k].depth \in Nat
                                /\ jmpbuf'[k].depth = IF jmpbuf[k].depth > 0 THEN jmpbuf[k].depth - 1 ELSE 0
  <1>1. \A k \in Key : IF jmpbuf[k] = None THEN jmpbuf'[k] = None
                       ELSE /\ SameBut(jmpbuf[k], jmpbuf'[k]) /\ jmpbuf[k].depth \in Nat
                            /\ jmpbuf'[k].depth = IF jmpbuf[k].depth > 0 THEN jmpbuf[k].depth - 1 ELSE 0
    <2> TAKE k \in Key
    <2>1. CASE jmpbuf[k] = None
      BY <2>1 DEF SubDepth
    <2>2. CASE jmpbuf[k] # None
      <3> DEFINE d == IF jmpbuf[k].depth > 0 THEN jmpbuf[k].depth - 1 ELSE 0
      <3>1. jmpbuf[k] \in Buffer
        BY <2>2
      <3>2. d \in 0 .. MAXDEPTH /\ jmpbuf[k].depth \in Nat
        BY <3>1, DepthAssumption DEF Buffer
      <3>3. jmpbuf'[k] = [jmpbuf[k] EXCEPT !.depth = d]
        BY <2>2 DEF SubDepth
      <3> HIDE DEF d
      <3>4. SameBut(jmpbuf[k], jmpbuf'[k]) /\ jmpbuf'[k].depth = d
        BY <3>1, <3>2, <3>3, Recounted
      <3> QED BY <2>2, <3>2, <3>4 DEF d
    <2> QED BY <2>1, <2>2
  <1>2. jmpbuf' = [k \in Key |-> jmpbuf'[k]]
    BY DEF SubDepth
  <1>3. \A k \in Key : jmpbuf'[k] \in Buffer \cup {None}
    BY <1>1 DEF SameBut
  <1> QED BY <1>1, <1>2, <1>3

-----------------------------------------------------------------------------
\* The steps.

\* No longjmp under way: all activations are live, and the registers are those
\* of the last one.
LEMMA AtRest ==
  ASSUME CallsInv, Depth > 0, ~longjmp_executed
  PROVE  /\ ToUnwind = 0 /\ longjmp_depth = 0
         /\ Len(mstack) = SimFrames(Depth) /\ SimFrames(Depth) \in 1 .. Depth
         /\ sp = FrameWords(Depth)
         /\ \A i \in 1 .. Depth : Sim(i) => Live(i)
  <1>1. Depth \in Nat /\ Sim(1)
    BY StackType DEF CallsInv, Types, Shape
  <1>2. ToUnwind = 0 /\ longjmp_depth = 0 /\ SimFrames(Depth) \in 0 .. Depth
    BY <1>1, Positions DEF ToUnwind, CallsInv, UnderWay
  <1>3. Len(mstack) = SimFrames(Depth)
    BY <1>2 DEF CallsInv, Chain
  <1>4. SimFrames(Depth) >= 1
    <2>1. SimFrames(0) < SimFrames(1) /\ SimFrames(0) \in 0 .. 0 /\ SimFrames(1) \in 0 .. 1
      BY <1>1, Positions
    <2>2. SimFrames(1) <= SimFrames(Depth)
      BY <1>1, Positions
    <2> QED BY <1>2, <2>1, <2>2
  <1>5. sp = FrameWords(Depth)
    <2>1. SimsIn(cstack, Depth) # 0
      BY <1>4, CountsAre
    <2>2. PICK i \in 1 .. Depth : /\ cstack[i].k = "sim" /\ SimsIn(cstack, i) = SimsIn(cstack, Depth)
                                  /\ WordsIn(cstack, i) = WordsIn(cstack, Depth)
      BY <1>1, <2>1, LastCounted
    <2>3. Sim(i) /\ SimFrames(i) = Len(mstack) /\ FrameWords(i) = FrameWords(Depth)
      BY <1>3, <2>2, CountsAre DEF Sim
    <2> QED BY <2>3 DEF CallsInv, Running
  <1>6. \A i \in 1 .. Depth : Sim(i) => Live(i)
    <2> SUFFICES ASSUME NEW i \in 1 .. Depth, Sim(i) PROVE SimFrames(i) <= Len(mstack)
      BY DEF Live
    <2>1. i \in Nat /\ i <= Depth
      BY <1>1
    <2> QED BY <1>1, <1>3, <2>1, Positions
  <1> QED BY <1>2, <1>3, <1>4, <1>5, <1>6

\* A file for the new activation, or the shared one.
LEMMA EnterFiles ==
  ASSUME CallsInv, Depth > 0, Depth < MAXDEPTH, NEW f \in Func, NEW args \in BOOLEAN, Enter(f, args)
  PROVE  file' \in File /\ alive' \subseteq File /\ RegFilesOwned'
  <1>1. /\ TypeOK /\ file \in File /\ RegFilesOwned /\ Depth \in Nat
    BY StackType DEF CallsInv, Types, Shape
  <1>2. /\ file' = IF VIRTREGS THEN Fresh(alive) ELSE file
        /\ alive' = alive \cup {file'} /\ UNCHANGED program
    BY DEF Enter, Wrapper
  <1>3. CASE ~VIRTREGS
    BY <1>1, <1>2, <1>3 DEF RegFilesOwned, TypeOK, VIRTREGS
  <1>4. CASE VIRTREGS
    <2> DEFINE T == {cstack[i].file : i \in Saved}
    <2>1. IsFiniteSet(T) /\ Cardinality(T) <= Depth /\ Cardinality(T) \in Nat
      BY <1>1, SavedFew, FS_CardinalityType
    <2>2. alive = T \cup {file}
      BY <1>1, <1>4, NoneAssumption DEF RegFilesOwned
    <2>3. Cardinality(T \cup {file}) <= Cardinality(T) + 1
      <3> HIDE DEF T
      <3>1. Cardinality(T \cup {file}) = IF file \in T THEN Cardinality(T) ELSE Cardinality(T) + 1
        BY <2>1, FS_AddElement, Zenon
      <3> QED BY <2>1, <3>1
    <2>4. Cardinality(alive) <= MAXDEPTH
      <3> HIDE DEF T
      <3>1. Cardinality(T \cup {file}) \in Nat
        BY <2>1, FS_AddElement, FS_CardinalityType
      <3> QED BY <1>1, <2>1, <2>2, <2>3, <3>1, DepthAssumption
    <2>5. file' \in File \ alive
      BY <1>1, <1>2, <1>4, <2>4, FreshExists DEF TypeOK
    <2>6. file' # None /\ file # None
      BY <1>1, <2>5, NoneAssumption
    <2>7. /\ Depth' = Depth + 1 /\ cstack'[Depth + 1].file = file /\ cstack'[Depth + 1].k = "sim"
          /\ \A i \in 1 .. Depth : cstack'[i] = cstack[i]
      <3>1. PICK x : cstack' = Append(cstack, x) /\ x.file = file /\ x.k = "sim"
        BY DEF Enter, Wrapper
      <3> QED BY <1>1, <3>1, Pushed
    <2>8. Saved' = Saved \cup {Depth + 1}
      BY <1>1, <2>6, <2>7 DEF Saved
    <2>9. /\ cstack'[Depth + 1].file = file
          /\ \A i \in Saved : i \in 1 .. Depth /\ cstack'[i].file = cstack[i].file /\ cstack[i].file \in alive
      BY <2>2, <2>7 DEF Saved
    <2>10. {cstack'[i].file : i \in Saved'} = T \cup {file}
      BY <2>8, <2>9
    <2>11. alive' = {cstack'[i].file : i \in Saved'} \cup ({file'} \ {None})
      BY <1>2, <2>2, <2>6, <2>10
    <2>12. \A i \in Saved' : cstack'[i].file # file'
      BY <2>2, <2>5, <2>8, <2>9
    <2>13. \A i, j \in Saved' : cstack'[i].file = cstack'[j].file => i = j
      <3>1. \A i, j \in Saved : cstack[i].file = cstack[j].file => i = j
        BY <1>1, <1>4 DEF RegFilesOwned
      <3>2. \A i \in Saved : cstack[i].file # file
        BY <1>1, <1>4 DEF RegFilesOwned
      <3> QED BY <2>8, <2>9, <3>1, <3>2
    <2>14. alive' \subseteq File
      BY <1>1, <1>2, <2>5 DEF TypeOK
    <2> QED BY <2>5, <2>11, <2>12, <2>13, <2>14 DEF RegFilesOwned
  <1> QED BY <1>3, <1>4

\* What entering an activation changes.
LEMMA Entered ==
  ASSUME CallsInv, Depth > 0, Depth < MAXDEPTH, NEW f \in Func, NEW args \in BOOLEAN, Enter(f, args)
  PROVE  /\ Depth \in Nat /\ Depth' = Depth + 1 /\ 1 \in 1 .. Depth
         /\ \A i \in 1 .. Depth' : i \in 1 .. Depth \/ i = Depth'
         /\ Sim(Depth)' /\ cstack'[Depth'].fn = f /\ cstack'[Depth'].args = args
         /\ cstack'[Depth'].file = file /\ cstack'[Depth'].reginfo = reginfo
         /\ cstack'[Depth'].parms = parms /\ cstack'[Depth'].pv = pv
         /\ \A i \in 1 .. Depth : cstack'[i] = cstack[i] /\ (Sim(i)' <=> Sim(i))
         /\ \A n \in 0 .. Depth : SimFrames(n)' = SimFrames(n) /\ FrameWords(n)' = FrameWords(n)
         /\ SimFrames(Depth)' = SimFrames(Depth) + 1
         /\ FrameWords(Depth)' = FrameWords(Depth) + (IF args THEN 2 ELSE 1)
         /\ Len(mstack) \in Nat /\ Len(mstack') = Len(mstack) + 1
         /\ \A i \in 1 .. Len(mstack) : mstack'[i] = mstack[i]
         /\ mstack'[Len(mstack')].fname = fname
         /\ mstack'[Len(mstack')].pv = [i \in PV \cap SavedPV |-> pv[i]]
  <1> DEFINE x == [k |-> "sim", fn |-> f, args |-> args,
                   file |-> file, reginfo |-> reginfo,
                   ops |-> ops, parms |-> parms, pv |-> pv]
             m == [fname |-> fname, pv |-> [i \in PV \cap SavedPV |-> pv[i]]]
  <1>1. TypeOK /\ Depth \in Nat
    BY StackType DEF CallsInv, Types
  <1>2. cstack' = Append(cstack, x) /\ mstack' = Append(mstack, m)
    BY DEF Enter, Wrapper, PD_prologue
  <1>3. x.k = "sim" /\ x.args = args
    OBVIOUS
  <1>4. /\ Len(mstack) \in Nat /\ Len(mstack') = Len(mstack) + 1
        /\ \A i \in 1 .. Len(mstack) : mstack'[i] = mstack[i]
        /\ mstack'[Len(mstack')] = m
    <2> HIDE DEF m
    <2> QED BY <1>1, <1>2 DEF TypeOK
  <1>5. /\ Depth' = Depth + 1 /\ cstack'[Depth'] = x
        /\ \A i \in 1 .. Depth : cstack'[i] = cstack[i] /\ (Sim(i)' <=> Sim(i))
        /\ \A n \in 0 .. Depth : SimFrames(n)' = SimFrames(n) /\ FrameWords(n)' = FrameWords(n)
        /\ SimFrames(Depth)' = SimFrames(Depth) + 1
        /\ FrameWords(Depth)' = FrameWords(Depth) + (IF args THEN 2 ELSE 1)
    <2> HIDE DEF x
    <2> QED BY <1>1, <1>2, <1>3, Pushed
  <1>6. 1 \in 1 .. Depth /\ \A i \in 1 .. Depth' : i \in 1 .. Depth \/ i = Depth'
    BY <1>1, <1>5
  <1>7. /\ cstack'[Depth'].k = "sim" /\ cstack'[Depth'].fn = f /\ cstack'[Depth'].args = args
        /\ cstack'[Depth'].file = file /\ cstack'[Depth'].reginfo = reginfo
        /\ cstack'[Depth'].parms = parms /\ cstack'[Depth'].pv = pv
    BY <1>5
  <1>8. Sim(Depth)'
    BY <1>7 DEF Sim
  <1>9. mstack'[Len(mstack')].fname = fname /\ mstack'[Len(mstack')].pv = [i \in PV \cap SavedPV |-> pv[i]]
    BY <1>4
  <1> HIDE DEF x, m
  <1> QED BY <1>1, <1>4, <1>5, <1>6, <1>7, <1>8, <1>9

LEMMA EnterTypes ==
  ASSUME CallsInv, Depth > 0, Depth < MAXDEPTH, NEW f \in Func, NEW args \in BOOLEAN, Enter(f, args)
  PROVE  /\ Types' /\ reginfo' \in Func
         /\ \A k \in Key : IF jmpbuf[k] = None THEN jmpbuf'[k] = None
                           ELSE SameBut(jmpbuf[k], jmpbuf'[k]) /\ jmpbuf'[k].depth = jmpbuf[k].depth + 1
  <1>1. /\ TypeOK /\ reginfo \in Func /\ file \in File /\ aborted = FALSE /\ program \in Programs
        /\ jmpbuf \in [Key -> Buffer \cup {None}] /\ MAXDEPTH \in Nat
    BY DepthAssumption, Entered DEF CallsInv, Types, Shape
  <1>2. \A k \in Key : jmpbuf[k] # None => jmpbuf[k].depth < MAXDEPTH
    <2> TAKE k \in Key
    <2> HAVE jmpbuf[k] # None
    <2>1. jmpbuf[k] \in Buffer /\ jmpbuf[k].depth <= SimFrames(Depth)
      BY <1>1 DEF CallsInv, Buffers
    <2>2. jmpbuf[k].depth \in Nat
      BY <2>1, <1>1 DEF Buffer
    <2>3. SimFrames(Depth) \in 0 .. Depth /\ Depth \in Nat
      BY Entered, Positions
    <2> QED BY <1>1, <2>1, <2>2, <2>3
  <1>3. jmpbuf' = AddDepth(jmpbuf)
    BY DEF Enter, PD_prologue
  <1>4. /\ jmpbuf' \in [Key -> Buffer \cup {None}]
        /\ \A k \in Key : IF jmpbuf[k] = None THEN jmpbuf'[k] = None
                          ELSE SameBut(jmpbuf[k], jmpbuf'[k]) /\ jmpbuf'[k].depth = jmpbuf[k].depth + 1
    BY <1>1, <1>2, <1>3, DepthsAdded
  <1>5. cstack' \in Seq(Frame \cup [k : {"nat"}]) /\ Depth' <= MAXDEPTH
    <2> DEFINE x == [k |-> "sim", fn |-> f, args |-> args,
                     file |-> file, reginfo |-> reginfo,
                     ops |-> ops, parms |-> parms, pv |-> pv]
    <2>1. ops \in Func \cup {None} /\ parms \in 0 .. MAXDEPTH /\ pv \in [PV -> {0, 1}]
      BY <1>1 DEF TypeOK
    <2>2. x \in Frame
      BY <1>1, <2>1 DEF Frame
    <2>3. cstack' = Append(cstack, x) /\ cstack \in Seq(Frame \cup [k : {"nat"}])
      BY <1>1 DEF Enter, Wrapper, TypeOK
    <2>4. cstack' \in Seq(Frame \cup [k : {"nat"}])
      <3> HIDE DEF x
      <3> QED BY <2>2, <2>3
    <2>5. Depth' = Depth + 1 /\ Depth \in Nat
      BY Entered
    <2> QED BY <1>1, <2>4, <2>5
  <1>6. mstack' \in Seq([fname : Func \cup {None}, pv : [PV \cap SavedPV -> {0, 1}]])
    <2> DEFINE m == [fname |-> fname, pv |-> [i \in PV \cap SavedPV |-> pv[i]]]
    <2>1. fname \in Func \cup {None} /\ pv \in [PV -> {0, 1}]
      BY <1>1 DEF TypeOK
    <2>2. m \in [fname : Func \cup {None}, pv : [PV \cap SavedPV -> {0, 1}]]
      BY <2>1
    <2>3. /\ mstack' = Append(mstack, m)
          /\ mstack \in Seq([fname : Func \cup {None}, pv : [PV \cap SavedPV -> {0, 1}]])
      BY <1>1 DEF Enter, PD_prologue, TypeOK
    <2> HIDE DEF m
    <2> QED BY <2>2, <2>3
  <1>7. file' \in File /\ alive' \subseteq File
    BY EnterFiles
  <1>8. parms' \in 0 .. MAXDEPTH
    <2>1. parms' = Depth + 1 /\ Depth \in Nat
      BY Entered DEF Enter, Wrapper
    <2> QED BY <1>1, <2>1
  <1>9. sp' \in Nat
    BY <1>1 DEF TypeOK, Enter, PD_prologue, AllocateNative
  <1>10. fname' \in Func /\ ops' \in Func /\ reginfo' \in Func
    BY <1>1 DEF Enter, PD_prologue, Wrapper
  <1>11. UNCHANGED <<program, pv, longjmp_executed, longjmp_depth, aborted, home, target>>
    BY DEF Enter
  <1>12. TypeOK'
    BY <1>1, <1>4, <1>5, <1>6, <1>7, <1>8, <1>9, <1>10, <1>11 DEF TypeOK
  <1> QED BY <1>1, <1>4, <1>10, <1>11, <1>12 DEF Types

LEMMA EnterShape ==
  ASSUME CallsInv, Depth > 0, Depth < MAXDEPTH, NEW f \in Func, NEW args \in BOOLEAN, Enter(f, args),
         args => ~Sim(Depth)
  PROVE  Shape'
  <1>1. Depth \in Nat /\ Depth' = Depth + 1 /\ 1 \in 1 .. Depth
    BY Entered
  <1>2. Sim(1)' /\ reginfo' \in Func /\ file' \in File
    <2>1. Sim(1)
      BY DEF CallsInv, Shape
    <2>2. cstack'[1] = cstack[1]
      BY <1>1, Entered
    <2> QED BY <2>1, <2>2, EnterFiles, EnterTypes DEF Sim
  <1>3. ASSUME NEW i \in 2 .. Depth', Sim(i)'
        PROVE  /\ cstack'[i].args => ~Sim(i - 1)'
               /\ cstack'[i].file \in File /\ cstack'[i].reginfo \in Func
    <2>1. CASE i \in 1 .. Depth
      <3>1. i \in 2 .. Depth /\ i - 1 \in 1 .. Depth
        BY <1>1, <2>1
      <3>2. cstack'[i] = cstack[i] /\ cstack'[i - 1] = cstack[i - 1] /\ Sim(i)
        BY <1>3, <2>1, <3>1, Entered
      <3>3. cstack[i].args => ~Sim(i - 1)
        BY <3>1, <3>2 DEF CallsInv, Shape
      <3>4. cstack[i].file \in File /\ cstack[i].reginfo \in Func
        BY <3>1, <3>2 DEF CallsInv, Shape
      <3> QED BY <3>2, <3>3, <3>4 DEF Sim
    <2>2. CASE i = Depth'
      <3>1. /\ cstack'[i].args = args /\ cstack'[i].file = file /\ cstack'[i].reginfo = reginfo
        BY <2>2, Entered
      <3>2. cstack'[i - 1] = cstack[Depth]
        <4>1. Depth \in 1 .. Depth /\ i - 1 = Depth
          BY <1>1, <2>2
        <4> QED BY <4>1, Entered
      <3> QED BY <3>1, <3>2 DEF CallsInv, Shape, Sim
    <2> QED BY <1>1, <2>1, <2>2
  <1> QED BY <1>2, <1>3 DEF Shape

LEMMA EnterChain ==
  ASSUME CallsInv, Depth > 0, Depth < MAXDEPTH, NEW f \in Func, NEW args \in BOOLEAN, Enter(f, args),
         ~longjmp_executed
  PROVE  Chain' /\ Running'
  <1>1. /\ Depth \in Nat /\ Depth' = Depth + 1 /\ Len(mstack) = SimFrames(Depth)
        /\ SimFrames(Depth) \in 1 .. Depth /\ SimFrames(Depth)' = SimFrames(Depth) + 1
        /\ Len(mstack') = Len(mstack) + 1
    BY AtRest, Entered
  <1>2. ToUnwind' = 0 /\ UNCHANGED program
    BY DEF Enter, ToUnwind
  <1>3. ASSUME NEW i \in 1 .. Depth
        PROVE  /\ SimFrames(i)' = SimFrames(i) /\ SimFrames(i) \in 0 .. Len(mstack)
               /\ FrameWords(i)' = FrameWords(i) /\ cstack'[i] = cstack[i] /\ (Sim(i)' <=> Sim(i))
               /\ Sim(i) => Live(i) /\ SimFrames(i) \in 1 .. Len(mstack)
    <2>1. i \in Nat /\ i \in 0 .. Depth /\ i <= Depth
      BY <1>1
    <2>2. SimFrames(i) \in 0 .. Len(mstack)
      <3>1. SimFrames(i) \in 0 .. i /\ SimFrames(i) <= SimFrames(Depth)
        BY <1>1, <2>1, Positions
      <3> QED BY <1>1, <2>1, <3>1
    <2>3. Sim(i) => SimFrames(i) > 0
      <3>1. SimFrames(0) \in 0 .. 0 /\ (Sim(i) => SimFrames(0) < SimFrames(i))
        BY <1>1, <2>1, Positions
      <3> QED BY <2>2, <3>1
    <2>4. /\ SimFrames(i)' = SimFrames(i) /\ FrameWords(i)' = FrameWords(i)
          /\ cstack'[i] = cstack[i] /\ (Sim(i)' <=> Sim(i))
      BY <2>1, Entered
    <2>5. Sim(i) => Live(i)
      BY AtRest
    <2> QED BY <1>1, <2>2, <2>3, <2>4, <2>5
  <1>4. ASSUME NEW i \in 1 .. Depth', NEW j \in 1 .. Depth', i < j, Sim(i)', Sim(j)',
               SimFrames(j)' = SimFrames(i)' + 1
        PROVE  /\ cstack'[j].parms = i
               /\ VIRTREGS => cstack'[j].reginfo = cstack'[i].fn
               /\ mstack'[SimFrames(j)'].fname = cstack'[i].fn
    <2>1. i \in 1 .. Depth
      BY <1>1, <1>4
    <2>2. CASE j \in 1 .. Depth
      <3>1. /\ Sim(i) /\ Sim(j) /\ SimFrames(j) = SimFrames(i) + 1 /\ Live(j)
            /\ SimFrames(j)' = SimFrames(j) /\ SimFrames(j) \in 1 .. Len(mstack)
        BY <1>3, <1>4, <2>1, <2>2
      <3>2. /\ cstack[j].parms = i /\ (VIRTREGS => cstack[j].reginfo = cstack[i].fn)
            /\ mstack[SimFrames(j)].fname = cstack[i].fn
        BY <1>4, <2>1, <2>2, <3>1 DEF CallsInv, Chain
      <3>3. cstack'[i] = cstack[i] /\ cstack'[j] = cstack[j] /\ mstack'[SimFrames(j)] = mstack[SimFrames(j)]
        BY <2>1, <2>2, <3>1, Entered
      <3> QED BY <3>1, <3>2, <3>3
    <2>3. CASE j = Depth'
      <3>1. SimFrames(j)' = Len(mstack')
        BY <1>1, <2>3 DEF SimFrames
      <3>2. /\ cstack'[j].parms = parms /\ cstack'[j].reginfo = reginfo
            /\ mstack'[Len(mstack')].fname = fname
        BY <2>3, Entered
      <3>3. Sim(i) /\ SimFrames(i) = Len(mstack) /\ cstack'[i] = cstack[i]
        BY <1>1, <1>3, <1>4, <2>1, <3>1
      <3>4. fname = cstack[i].fn /\ parms = i /\ (VIRTREGS => reginfo = cstack[i].fn)
        BY <2>1, <3>3 DEF CallsInv, Running
      <3> QED BY <3>1, <3>2, <3>3, <3>4
    <2> QED BY <1>1, <2>2, <2>3
  <1>5. ASSUME NEW j \in 1 .. Depth', Live(j)'
        PROVE  mstack'[SimFrames(j)'].pv = [i \in PV \cap SavedPV |-> cstack'[j].pv[i]]
    <2>1. CASE j \in 1 .. Depth
      <3>1. Live(j) /\ SimFrames(j)' = SimFrames(j) /\ SimFrames(j) \in 1 .. Len(mstack)
        BY <1>3, <1>5, <2>1 DEF Live
      <3>2. mstack[SimFrames(j)].pv = [i \in PV \cap SavedPV |-> cstack[j].pv[i]]
        BY <2>1, <3>1 DEF CallsInv, Chain
      <3>3. cstack'[j] = cstack[j] /\ mstack'[SimFrames(j)] = mstack[SimFrames(j)]
        BY <2>1, <3>1, Entered
      <3> QED BY <3>1, <3>2, <3>3
    <2>2. CASE j = Depth'
      <3>1. SimFrames(j)' = Len(mstack')
        BY <1>1, <2>2 DEF SimFrames
      <3>2. /\ cstack'[j].pv = pv
            /\ mstack'[Len(mstack')].pv = [i \in PV \cap SavedPV |-> pv[i]]
        BY <2>2, Entered
      <3> QED BY <3>1, <3>2
    <2> QED BY <1>1, <2>1, <2>2
  <1>6. Chain'
    <2>1. Len(mstack') = SimFrames(Depth)' - ToUnwind'
      BY <1>1, <1>2
    <2>2. \A i, j \in 1 .. Depth' : i < j /\ Sim(i)' /\ Sim(j)' /\ SimFrames(j)' = SimFrames(i)' + 1 =>
            /\ cstack'[j].parms = i
            /\ VIRTREGS' => cstack'[j].reginfo = cstack'[i].fn
            /\ Live(j)' => mstack'[SimFrames(j)'].fname = cstack'[i].fn
      BY <1>2, <1>4 DEF VIRTREGS
    <2>3. \A j \in 1 .. Depth' : Live(j)' =>
            mstack'[SimFrames(j)'].pv = [i \in PV \cap SavedPV |-> cstack'[j].pv[i]]
      BY <1>5
    <2> QED BY <2>1, <2>2, <2>3 DEF Chain
  <1>7. ASSUME NEW i \in 1 .. Depth', Sim(i)', SimFrames(i)' = Len(mstack')
        PROVE  /\ fname' = cstack'[i].fn /\ parms' = i
               /\ VIRTREGS' => reginfo' = cstack'[i].fn
               /\ sp' = FrameWords(i)'
    <2>1. i = Depth'
      BY <1>1, <1>3, <1>7, Entered
    <2>2. cstack'[i].fn = f /\ FrameWords(i)' = FrameWords(Depth) + (IF args THEN 2 ELSE 1)
      BY <2>1, Entered DEF FrameWords, SimFrames
    <2>3. sp = FrameWords(Depth) /\ FrameWords(Depth) \in Nat
      BY <1>1, AtRest, Positions
    <2>4. /\ fname' = f /\ parms' = Depth + 1 /\ sp' = (IF args THEN sp + 1 ELSE sp) + 1
          /\ VIRTREGS => reginfo' = f
      BY DEF Enter, Wrapper, PD_prologue, AllocateNative
    <2>5. sp' = FrameWords(i)'
      BY <2>2, <2>3, <2>4
    <2> QED BY <1>1, <1>2, <2>1, <2>2, <2>4, <2>5 DEF VIRTREGS
  <1>8. Running'
    BY <1>7 DEF Running
  <1> QED BY <1>6, <1>8

LEMMA EnterBuffers ==
  ASSUME CallsInv, Depth > 0, Depth < MAXDEPTH, NEW f \in Func, NEW args \in BOOLEAN, Enter(f, args),
         ~longjmp_executed
  PROVE  Buffers' /\ DepthExact' /\ UnderWay'
  <1>1. /\ Depth \in Nat /\ Depth' = Depth + 1 /\ SimFrames(Depth) \in 1 .. Depth
        /\ SimFrames(Depth)' = SimFrames(Depth) + 1
    BY AtRest, Entered
  <1>2. /\ UNCHANGED <<program, home, target, longjmp_executed, longjmp_depth>>
    BY DEF Enter
  <1>3. ASSUME NEW k \in Key
        PROVE  IF jmpbuf[k] = None THEN jmpbuf'[k] = None
               ELSE /\ SameBut(jmpbuf[k], jmpbuf'[k]) /\ jmpbuf'[k].depth = jmpbuf[k].depth + 1
                    /\ jmpbuf[k].depth \in Nat
    <2>1. jmpbuf[k] # None => jmpbuf[k].depth \in Nat
      <3>1. jmpbuf[k] # None => jmpbuf[k] \in Buffer
        BY DEF CallsInv, Types
      <3> QED BY <3>1, DepthAssumption DEF Buffer
    <2> QED BY <2>1, EnterTypes
  <1>4. ASSUME NEW k \in Key, home[k] # 0
        PROVE  /\ home[k] \in 1 .. Depth /\ Sim(home[k]) /\ jmpbuf[k] # None
               /\ Sim(home[k])' /\ cstack'[home[k]] = cstack[home[k]]
               /\ SimFrames(home[k])' = SimFrames(home[k]) /\ FrameWords(home[k])' = FrameWords(home[k])
               /\ SimFrames(home[k]) \in 0 .. SimFrames(Depth)
    <2>1. home[k] \in 0 .. Depth /\ home[k] \in 1 .. Depth /\ Sim(home[k]) /\ jmpbuf[k] # None
      BY <1>1, <1>4 DEF CallsInv, Buffers, Types, TypeOK
    <2>2. \A n \in 0 .. Depth : SimsIn(cstack', n) = SimsIn(cstack, n) /\ WordsIn(cstack', n) = WordsIn(cstack, n)
      BY Entered, CountsAre
    <2>3. \A n \in Nat : n <= Depth => SimFrames(n) \in 0 .. SimFrames(Depth)
      BY <1>1, Positions
    <2>4. \A n \in 1 .. Depth : cstack'[n] = cstack[n]
      BY Entered
    <2>5. /\ SimFrames(home[k])' = SimsIn(cstack', home[k]) /\ FrameWords(home[k])' = WordsIn(cstack', home[k])
          /\ Sim(home[k])' <=> cstack'[home[k]].k = "sim"
      BY <1>2 DEF Sim, SimFrames, FrameWords, SimsIn, WordsIn
    <2>6. /\ SimFrames(home[k]) = SimsIn(cstack, home[k]) /\ FrameWords(home[k]) = WordsIn(cstack, home[k])
          /\ Sim(home[k]) <=> cstack[home[k]].k = "sim"
      BY CountsAre DEF Sim
    <2>7. home[k] \in Nat /\ home[k] <= Depth
      BY <1>1, <2>1
    <2> QED BY <2>1, <2>2, <2>3, <2>4, <2>5, <2>6, <2>7
  <1>5. Buffers'
    <2>1. ASSUME NEW k \in Key, jmpbuf'[k] # None PROVE jmpbuf'[k].depth <= SimFrames(Depth)'
      <3>1. jmpbuf[k] # None /\ jmpbuf'[k].depth = jmpbuf[k].depth + 1 /\ jmpbuf[k].depth \in Nat
        BY <1>3, <2>1
      <3>2. jmpbuf[k].depth <= SimFrames(Depth)
        BY <3>1 DEF CallsInv, Buffers
      <3> QED BY <1>1, <3>1, <3>2
    <2>2. ASSUME NEW k \in Key, home[k] # 0
          PROVE  /\ home[k] <= Depth' /\ Sim(home[k])' /\ jmpbuf'[k] # None
                 /\ jmpbuf'[k].mstack = SimFrames(home[k])'
                 /\ jmpbuf'[k].fname = cstack'[home[k]].fn /\ jmpbuf'[k].params = home[k]
                 /\ VIRTREGS => jmpbuf'[k].reginfo = cstack'[home[k]].fn
                 /\ jmpbuf'[k].sp = FrameWords(home[k])'
      <3>1. SameBut(jmpbuf[k], jmpbuf'[k])
        BY <1>3, <1>4, <2>2
      <3>2. /\ jmpbuf[k].mstack = SimFrames(home[k])
            /\ jmpbuf[k].fname = cstack[home[k]].fn /\ jmpbuf[k].params = home[k]
            /\ VIRTREGS => jmpbuf[k].reginfo = cstack[home[k]].fn
            /\ jmpbuf[k].sp = FrameWords(home[k])
        BY <2>2 DEF CallsInv, Buffers
      <3> QED BY <1>1, <1>4, <2>2, <3>1, <3>2 DEF SameBut
    <2> QED BY <1>2, <2>1, <2>2 DEF Buffers, VIRTREGS, Sim, SimFrames, FrameWords
  <1>6. DepthExact'
    <2>1. ASSUME NEW k \in Key, home[k] # 0
          PROVE  jmpbuf'[k].depth = SimFrames(Depth)' - SimFrames(home[k])'
                 /\ SimFrames(Depth)' - SimFrames(home[k])' >= 0
      <3>1. jmpbuf[k].depth = SimFrames(Depth) - SimFrames(home[k])
        BY <1>1, <1>4, <2>1 DEF CallsInv, DepthExact
      <3>2. jmpbuf'[k].depth = jmpbuf[k].depth + 1
        BY <1>3, <1>4, <2>1
      <3> QED BY <1>1, <1>4, <2>1, <3>1, <3>2
    <2>2. ~longjmp_executed'
      BY <1>2
    <2> QED BY <1>2, <2>1, <2>2 DEF DepthExact, SimFrames
  <1>7. UnderWay'
    BY <1>2 DEF CallsInv, UnderWay
  <1> QED BY <1>5, <1>6, <1>7

\* Calls from simulated functions, and from native ones with arguments or without.
LEMMA EnterKeeps ==
  ASSUME CallsInv, Depth > 0, NEW f \in Func, NEW args \in BOOLEAN, Enter(f, args),
         ~longjmp_executed, args => ~Sim(Depth)
  PROVE  CallsInv'
  <1>1. Depth < MAXDEPTH
    BY DEF Enter, Wrapper
  <1> QED BY <1>1, EnterTypes, EnterShape, EnterChain, EnterBuffers, EnterFiles DEF CallsInv

\* A native activation comes or goes, and the simulated ones stay where they are.
LEMMA NativeKeeps ==
  ASSUME CallsInv, Depth > 0, ~longjmp_executed,
         cstack' \in Seq(Frame \cup [k : {"nat"}]), Depth' <= MAXDEPTH,
         UNCHANGED <<program, mstack, jmpbuf, fname, ops, parms, file, reginfo, alive, sp, pv,
                     longjmp_executed, longjmp_depth, aborted, home, target>>,
         NEW m \in 1 .. Depth, m <= Depth',
         \A i \in 1 .. m : cstack'[i] = cstack[i],
         \A i \in 1 .. Depth : Sim(i) => i <= m,
         \A i \in 1 .. Depth' : Sim(i)' => i <= m,
         \A n \in 0 .. m : SimFrames(n)' = SimFrames(n) /\ FrameWords(n)' = FrameWords(n),
         SimFrames(Depth)' = SimFrames(Depth)
  PROVE  CallsInv'
  <1>1. Depth \in Nat /\ Depth' \in Nat /\ m \in Nat /\ m >= 1
    <2>1. Depth' \in Nat
      BY DEF Depth
    <2>2. Depth \in Nat
      BY StackType DEF CallsInv, Types
    <2> QED BY <2>1, <2>2
  <1>2. \A i : i \in 1 .. Depth' /\ Sim(i)' <=> i \in 1 .. Depth /\ Sim(i)
    <2>1. \A i \in 1 .. m : Sim(i)' <=> Sim(i)
      BY DEF Sim
    <2>2. \A i : i \in 1 .. Depth /\ Sim(i) => i \in 1 .. m
      BY <1>1
    <2>3. \A i : i \in 1 .. Depth' /\ Sim(i)' => i \in 1 .. m
      BY <1>1
    <2>4. 1 .. m \subseteq 1 .. Depth /\ 1 .. m \subseteq 1 .. Depth'
      BY <1>1
    <2> QED BY <2>1, <2>2, <2>3, <2>4
  <1>3. ASSUME NEW i \in 1 .. Depth, Sim(i)
        PROVE  /\ i \in 1 .. m /\ cstack'[i] = cstack[i]
               /\ SimFrames(i)' = SimFrames(i) /\ FrameWords(i)' = FrameWords(i)
               /\ Live(i)' <=> Live(i)
    <2>1. i \in 1 .. m /\ i \in 0 .. m
      BY <1>1, <1>3
    <2> QED BY <1>2, <1>3, <2>1 DEF Live
  <1>4. Types'
    BY DEF CallsInv, Types, TypeOK
  <1>5. Shape'
    <2>1. Sim(1)' /\ reginfo' \in Func /\ file' \in File
      BY <1>1, <1>2 DEF CallsInv, Shape
    <2>2. ASSUME NEW i \in 2 .. Depth', Sim(i)'
          PROVE  /\ cstack'[i].args => ~Sim(i - 1)'
                 /\ cstack'[i].file \in File /\ cstack'[i].reginfo \in Func
      <3>1. i \in 1 .. Depth' /\ i \in 1 .. Depth /\ i \in 2 .. Depth /\ Sim(i)
        BY <1>1, <1>2, <2>2
      <3>2. i \in 1 .. m /\ i - 1 \in 1 .. m /\ cstack'[i] = cstack[i]
        BY <1>1, <1>3, <3>1
      <3>3. Sim(i - 1)' <=> Sim(i - 1)
        BY <3>2 DEF Sim
      <3> QED BY <3>1, <3>2, <3>3 DEF CallsInv, Shape
    <2> QED BY <2>1, <2>2 DEF Shape
  <1>6. Chain'
    <2>1. Len(mstack') = SimFrames(Depth)' - ToUnwind'
      BY DEF CallsInv, Chain, ToUnwind
    <2>2. ASSUME NEW i \in 1 .. Depth', NEW j \in 1 .. Depth', i < j, Sim(i)', Sim(j)',
                 SimFrames(j)' = SimFrames(i)' + 1
          PROVE  /\ cstack'[j].parms = i
                 /\ VIRTREGS' => cstack'[j].reginfo = cstack'[i].fn
                 /\ Live(j)' => mstack'[SimFrames(j)'].fname = cstack'[i].fn
      <3>1. i \in 1 .. Depth /\ j \in 1 .. Depth /\ Sim(i) /\ Sim(j)
        BY <1>2, <2>2
      <3>2. SimFrames(j) = SimFrames(i) + 1
        BY <1>3, <2>2, <3>1
      <3> QED BY <1>3, <2>2, <3>1, <3>2 DEF CallsInv, Chain, VIRTREGS
    <2>3. ASSUME NEW j \in 1 .. Depth', Live(j)'
          PROVE  mstack'[SimFrames(j)'].pv = [i \in PV \cap SavedPV |-> cstack'[j].pv[i]]
      <3>1. j \in 1 .. Depth /\ Sim(j)
        BY <1>2, <2>3 DEF Live
      <3>2. Live(j) /\ SimFrames(j)' = SimFrames(j) /\ cstack'[j] = cstack[j]
        BY <1>3, <2>3, <3>1
      <3>3. mstack[SimFrames(j)].pv = [i \in PV \cap SavedPV |-> cstack[j].pv[i]]
        BY <3>1, <3>2 DEF CallsInv, Chain
      <3> QED BY <3>2, <3>3
    <2> QED BY <2>1, <2>2, <2>3 DEF Chain
  <1>7. Running'
    <2>1. ASSUME NEW i \in 1 .. Depth', Sim(i)', SimFrames(i)' = Len(mstack')
          PROVE  /\ fname' = cstack'[i].fn /\ parms' = i
                 /\ VIRTREGS' => reginfo' = cstack'[i].fn
                 /\ sp' = FrameWords(i)'
      <3>1. i \in 1 .. Depth /\ Sim(i)
        BY <1>2, <2>1
      <3> QED BY <1>3, <2>1, <3>1 DEF CallsInv, Running, VIRTREGS
    <2> QED BY <2>1 DEF Running
  <1>8. ASSUME NEW k \in Key, home[k] # 0
        PROVE  /\ home'[k] \in 1 .. m /\ home'[k] <= Depth' /\ Sim(home[k])'
               /\ home[k] \in 1 .. Depth /\ Sim(home[k])
               /\ cstack'[home'[k]] = cstack[home[k]]
               /\ SimFrames(home[k])' = SimFrames(home[k]) /\ FrameWords(home[k])' = FrameWords(home[k])
    <2>1. home[k] \in 1 .. Depth /\ Sim(home[k]) /\ home'[k] = home[k]
      BY <1>1, <1>8 DEF CallsInv, Buffers, Types, TypeOK
    <2>2. home[k] \in 1 .. m /\ home[k] \in 0 .. m
      BY <1>1, <1>3, <2>1
    <2>3. /\ SimsIn(cstack', home[k]) = SimsIn(cstack, home[k])
          /\ WordsIn(cstack', home[k]) = WordsIn(cstack, home[k])
      BY <2>2, CountsAre
    <2>4. /\ SimFrames(home[k])' = SimsIn(cstack', home[k]) /\ FrameWords(home[k])' = WordsIn(cstack', home[k])
          /\ Sim(home[k])' <=> cstack'[home[k]].k = "sim"
      BY <2>1 DEF Sim, SimFrames, FrameWords, SimsIn, WordsIn
    <2>5. /\ SimFrames(home[k]) = SimsIn(cstack, home[k]) /\ FrameWords(home[k]) = WordsIn(cstack, home[k])
      BY CountsAre
    <2>6. cstack'[home[k]] = cstack[home[k]] /\ home[k] <= Depth'
      BY <1>1, <2>2
    <2> QED BY <2>1, <2>2, <2>3, <2>4, <2>5, <2>6 DEF Sim
  <1>9. Buffers'
    <2>1. ASSUME NEW k \in Key, jmpbuf'[k] # None PROVE jmpbuf'[k].depth <= SimFrames(Depth)'
      BY <2>1 DEF CallsInv, Buffers
    <2>2. ASSUME NEW k \in Key, home'[k] # 0
          PROVE  /\ home'[k] <= Depth' /\ Sim(home[k])' /\ jmpbuf'[k] # None
                 /\ jmpbuf'[k].mstack = SimFrames(home[k])'
                 /\ jmpbuf'[k].fname = cstack'[home'[k]].fn /\ jmpbuf'[k].params = home'[k]
                 /\ VIRTREGS' => jmpbuf'[k].reginfo = cstack'[home'[k]].fn
                 /\ jmpbuf'[k].sp = FrameWords(home[k])'
      BY <1>8, <2>2 DEF CallsInv, Buffers, VIRTREGS
    <2> QED BY <2>1, <2>2 DEF Buffers
  <1>10. DepthExact'
    BY <1>8 DEF CallsInv, DepthExact
  <1>11. UnderWay'
    BY DEF CallsInv, UnderWay
  <1>12. RegFilesOwned'
    <2>1. Saved' = Saved
      <3>1. \A i : i \in 1 .. Depth' /\ Sim(i)' /\ cstack'[i].file # None
                   <=> i \in 1 .. Depth /\ Sim(i) /\ cstack[i].file # None
        BY <1>2, <1>3
      <3> QED BY <3>1 DEF Saved, Sim
    <2>2. \A i \in Saved : cstack'[i].file = cstack[i].file
      BY <1>3 DEF Saved, Sim
    <2>3. {cstack'[i].file : i \in Saved'} = {cstack[i].file : i \in Saved}
      BY <2>1, <2>2
    <2> QED BY <2>1, <2>2, <2>3 DEF CallsInv, RegFilesOwned, VIRTREGS
  <1> QED BY <1>4, <1>5, <1>6, <1>7, <1>9, <1>10, <1>11, <1>12 DEF CallsInv

LEMMA CallNativeKeeps == ASSUME CallsInv, CallNative PROVE CallsInv'
  <1>1. /\ TypeOK /\ Depth \in Nat /\ Depth > 0 /\ Depth < MAXDEPTH /\ ~longjmp_executed
        /\ MAXDEPTH \in Nat /\ cstack \in Seq(Frame \cup [k : {"nat"}])
    BY StackType, DepthAssumption DEF CallsInv, Types, CallNative, Simulating
  <1> DEFINE x == [k |-> "nat"]
  <1>2. /\ cstack' = Append(cstack, x) /\ x.k # "sim" /\ x \in [k : {"nat"}]
        /\ UNCHANGED <<program, mstack, jmpbuf, fname, ops, parms, file, reginfo, alive, sp, pv,
                       longjmp_executed, longjmp_depth, aborted, home, target>>
    BY DEF CallNative
  <1> HIDE DEF x
  <1>3. cstack' \in Seq(Frame \cup [k : {"nat"}])
    BY <1>1, <1>2
  <1>4. /\ Depth' = Depth + 1 /\ cstack'[Depth + 1] = x
        /\ \A i \in 1 .. Depth : cstack'[i] = cstack[i] /\ (Sim(i)' <=> Sim(i))
        /\ \A n \in 0 .. Depth : SimFrames(n)' = SimFrames(n) /\ FrameWords(n)' = FrameWords(n)
        /\ SimFrames(Depth)' = SimFrames(Depth)
    BY <1>1, <1>2, Pushed
  <1>5. \A i \in 1 .. Depth' : Sim(i)' => i <= Depth
    <2>1. ~Sim(Depth)'
      BY <1>2, <1>4 DEF Sim
    <2>2. ASSUME NEW i \in 1 .. Depth', i > Depth PROVE ~Sim(i)'
      <3>1. i = Depth'
        BY <1>1, <1>4, <2>2
      <3> QED BY <2>1, <3>1 DEF Sim
    <2> QED BY <1>1, <1>4, <2>2
  <1>6. Depth' <= MAXDEPTH /\ Depth \in 1 .. Depth /\ Depth <= Depth'
        /\ \A i \in 1 .. Depth : i <= Depth
    BY <1>1, <1>4
  <1> QED BY <1>1, <1>2, <1>3, <1>4, <1>5, <1>6, NativeKeeps

LEMMA NativeReturnsKeeps == ASSUME CallsInv, NativeReturns PROVE CallsInv'
  <1>1. /\ TypeOK /\ Depth \in Nat /\ Depth > 1 /\ Depth <= MAXDEPTH /\ MAXDEPTH \in Nat /\ ~Sim(Depth)
        /\ cstack' = Front(cstack)
        /\ UNCHANGED <<program, mstack, jmpbuf, fname, ops, parms, file, reginfo, alive, sp, pv,
                       longjmp_executed, longjmp_depth, aborted, home, target>>
    BY StackType DEF CallsInv, Types, NativeReturns, InNative, Top, Sim
  <1>2. ~longjmp_executed
    <2>1. target \in Key /\ home[target] # 0 => Depth \in home[target] .. Depth
      BY <1>1 DEF CallsInv, Buffers, TypeOK
    <2> QED BY <1>1, <2>1 DEF CallsInv, UnderWay
  <1>3. /\ Depth' = Depth - 1 /\ Depth - 1 \in Nat
        /\ cstack' \in Seq(Frame \cup [k : {"nat"}])
        /\ \A i \in 1 .. (Depth - 1) : cstack'[i] = cstack[i] /\ (Sim(i)' <=> Sim(i))
        /\ \A n \in 0 .. (Depth - 1) : SimFrames(n)' = SimFrames(n) /\ FrameWords(n)' = FrameWords(n)
        /\ SimFrames(Depth) = SimFrames(Depth - 1)
    BY <1>1, Popped
  <1>4. SimFrames(Depth)' = SimFrames(Depth)
    <2>1. Depth - 1 \in 0 .. (Depth - 1)
      BY <1>1
    <2>2. SimsIn(cstack', Depth - 1) = SimsIn(cstack, Depth - 1)
      BY <1>3, <2>1, CountsAre
    <2> QED BY <1>3, <2>2 DEF SimFrames, SimsIn
  <1>5. /\ Depth > 0 /\ Depth' <= MAXDEPTH /\ Depth - 1 \in 1 .. Depth /\ Depth - 1 <= Depth'
        /\ \A i \in 1 .. Depth : Sim(i) => i <= Depth - 1
        /\ \A i \in 1 .. Depth' : Sim(i)' => i <= Depth - 1
    <2>1. \A i \in 1 .. Depth : i <= Depth - 1 \/ i = Depth
      BY <1>1
    <2> QED BY <1>1, <1>3, <2>1
  <1> QED BY <1>1, <1>2, <1>3, <1>4, <1>5, NativeKeeps

\* The last activation, a simulated one, leaves the C stack.
LEMMA LeaveCounts ==
  ASSUME TypeOK, Depth > 0, Sim(Depth), cstack' = Front(cstack)
  PROVE  /\ Depth \in Nat /\ Depth' = Depth - 1 /\ Depth - 1 \in Nat
         /\ cstack' \in Seq(Frame \cup [k : {"nat"}])
         /\ SimFrames(Depth) \in 1 .. Depth /\ SimFrames(Depth)' = SimFrames(Depth) - 1
         /\ FrameWords(Depth - 1) = FrameWords(Depth) - (IF Top.args THEN 2 ELSE 1)
         /\ FrameWords(Depth - 1) \in Nat
         /\ \A i \in 1 .. Depth' : /\ i \in 1 .. Depth /\ i # Depth /\ cstack'[i] = cstack[i]
                                   /\ (Sim(i)' <=> Sim(i))
                                   /\ SimFrames(i)' = SimFrames(i) /\ FrameWords(i)' = FrameWords(i)
                                   /\ SimFrames(i) \in 0 .. (SimFrames(Depth) - 1)
                                   /\ Sim(i) => SimFrames(i) > 0
                                   /\ SimFrames(i) = SimFrames(Depth) - 1
                                        => FrameWords(i) = FrameWords(Depth - 1)
  <1>1. /\ Depth \in Nat /\ Depth' = Depth - 1 /\ Depth - 1 \in Nat
        /\ cstack' \in Seq(Frame \cup [k : {"nat"}])
        /\ \A i \in 1 .. (Depth - 1) : cstack'[i] = cstack[i] /\ (Sim(i)' <=> Sim(i))
        /\ \A n \in 0 .. (Depth - 1) : SimFrames(n)' = SimFrames(n) /\ FrameWords(n)' = FrameWords(n)
        /\ SimFrames(Depth) = SimFrames(Depth - 1) + 1
        /\ FrameWords(Depth) = FrameWords(Depth - 1) + (IF Top.args THEN 2 ELSE 1)
    BY StackType, Popped
  <1>2. SimFrames(Depth - 1) \in 0 .. (Depth - 1) /\ FrameWords(Depth - 1) \in Nat
    BY <1>1, Positions
  <1>3. SimFrames(Depth)' = SimFrames(Depth - 1)
    <2>1. Depth - 1 \in 0 .. (Depth - 1)
      BY <1>1
    <2>2. SimsIn(cstack', Depth - 1) = SimsIn(cstack, Depth - 1)
      BY <1>1, <2>1, CountsAre
    <2> QED BY <1>1, <2>2, CountsAre DEF SimFrames, SimsIn
  <1>4. ASSUME NEW i \in 1 .. Depth'
        PROVE  /\ i \in 1 .. Depth /\ i # Depth /\ cstack'[i] = cstack[i]
               /\ (Sim(i)' <=> Sim(i))
               /\ SimFrames(i)' = SimFrames(i) /\ FrameWords(i)' = FrameWords(i)
               /\ SimFrames(i) \in 0 .. (SimFrames(Depth) - 1)
               /\ Sim(i) => SimFrames(i) > 0
               /\ SimFrames(i) = SimFrames(Depth) - 1 => FrameWords(i) = FrameWords(Depth - 1)
    <2>1. /\ i \in Nat /\ i \in 1 .. (Depth - 1) /\ i \in 0 .. (Depth - 1) /\ i <= Depth - 1
          /\ i \in 1 .. Depth /\ i # Depth
      BY <1>1
    <2>2. /\ cstack'[i] = cstack[i] /\ (Sim(i)' <=> Sim(i))
          /\ SimFrames(i)' = SimFrames(i) /\ FrameWords(i)' = FrameWords(i)
      BY <1>1, <2>1
    <2>3. SimFrames(i) \in 0 .. i /\ SimFrames(i) <= SimFrames(Depth - 1)
      BY <1>1, <2>1, Positions
    <2>4. SimFrames(0) \in 0 .. 0 /\ (Sim(i) => SimFrames(0) < SimFrames(i))
      BY <2>1, Positions
    <2>5. SimFrames(i) = SimFrames(Depth - 1) => FrameWords(i) = FrameWords(Depth - 1)
      BY <1>1, <2>1, Positions
    <2> QED BY <1>1, <1>2, <2>1, <2>2, <2>3, <2>4, <2>5
  <1>5. /\ SimFrames(Depth) \in 1 .. Depth /\ SimFrames(Depth)' = SimFrames(Depth) - 1
        /\ FrameWords(Depth - 1) = FrameWords(Depth) - (IF Top.args THEN 2 ELSE 1)
    BY <1>1, <1>2, <1>3
  <1> QED BY <1>1, <1>2, <1>4, <1>5

\* Buffers are counted down, and those of setjmps made there become unusable.
LEMMA LeaveBuffers ==
  ASSUME CallsInv, Depth > 0, Sim(Depth), cstack' = Front(cstack), home' = Forget(Depth - 1),
         jmpbuf' = SubDepth(jmpbuf), UNCHANGED program
  PROVE  /\ Buffers' /\ jmpbuf' \in [Key -> Buffer \cup {None}]
         /\ home' \in [Key -> 0 .. MAXDEPTH]
         /\ \A k \in Key : home'[k] # 0 =>
              /\ home'[k] = home[k] /\ home[k] # 0 /\ home[k] \in 1 .. (Depth - 1)
              /\ SimFrames(home[k])' = SimFrames(home[k])
              /\ SimFrames(home[k]) \in 0 .. (SimFrames(Depth) - 1)
              /\ jmpbuf[k].depth \in Nat
              /\ jmpbuf'[k].depth = IF jmpbuf[k].depth > 0 THEN jmpbuf[k].depth - 1 ELSE 0
  <1>1. TypeOK /\ jmpbuf \in [Key -> Buffer \cup {None}] /\ home \in [Key -> 0 .. MAXDEPTH]
        /\ MAXDEPTH \in Nat
    BY DepthAssumption DEF CallsInv, Types, TypeOK
  <1>2. /\ jmpbuf' \in [Key -> Buffer \cup {None}]
        /\ \A k \in Key : IF jmpbuf[k] = None THEN jmpbuf'[k] = None
                          ELSE /\ SameBut(jmpbuf[k], jmpbuf'[k]) /\ jmpbuf[k].depth \in Nat
                               /\ jmpbuf'[k].depth = IF jmpbuf[k].depth > 0 THEN jmpbuf[k].depth - 1 ELSE 0
    BY <1>1, DepthsTaken
  <1>3. Depth \in Nat /\ Depth' = Depth - 1 /\ Depth - 1 \in Nat
        /\ SimFrames(Depth) \in 1 .. Depth /\ SimFrames(Depth)' = SimFrames(Depth) - 1
    BY <1>1, LeaveCounts
  <1>4. home' \in [Key -> 0 .. MAXDEPTH]
    BY <1>1 DEF Forget
  <1>5. ASSUME NEW k \in Key, home'[k] # 0
        PROVE  /\ home'[k] = home[k] /\ home[k] # 0 /\ home[k] \in 1 .. Depth'
    <2>1. home'[k] = IF home[k] > Depth - 1 THEN 0 ELSE home[k]
      BY DEF Forget
    <2> QED BY <1>1, <1>3, <1>5, <2>1
  <1>6. ASSUME NEW k \in Key, home'[k] # 0
        PROVE  /\ Sim(home[k])' /\ cstack'[home'[k]] = cstack[home[k]]
               /\ SimFrames(home[k])' = SimFrames(home[k]) /\ FrameWords(home[k])' = FrameWords(home[k])
               /\ SimFrames(home[k]) \in 0 .. (SimFrames(Depth) - 1)
    <2>1. home'[k] = home[k] /\ home[k] \in 1 .. Depth' /\ Sim(home[k])
      BY <1>5, <1>6 DEF CallsInv, Buffers
    <2>2. /\ cstack'[home[k]] = cstack[home[k]]
          /\ SimsIn(cstack', home[k]) = SimsIn(cstack, home[k])
          /\ WordsIn(cstack', home[k]) = WordsIn(cstack, home[k])
          /\ SimFrames(home[k]) \in 0 .. (SimFrames(Depth) - 1)
      BY <1>1, <2>1, LeaveCounts, CountsAre
    <2>3. /\ SimFrames(home[k])' = SimsIn(cstack', home[k]) /\ FrameWords(home[k])' = WordsIn(cstack', home[k])
          /\ Sim(home[k])' <=> cstack'[home[k]].k = "sim"
      BY <2>1 DEF Sim, SimFrames, FrameWords, SimsIn, WordsIn
    <2> QED BY <2>1, <2>2, <2>3, CountsAre DEF Sim
  <1>7. ASSUME NEW k \in Key, jmpbuf'[k] # None PROVE jmpbuf'[k].depth <= SimFrames(Depth)'
    <2>1. jmpbuf[k] # None /\ jmpbuf[k].depth \in Nat
          /\ jmpbuf'[k].depth = IF jmpbuf[k].depth > 0 THEN jmpbuf[k].depth - 1 ELSE 0
      BY <1>2, <1>7
    <2>2. jmpbuf[k].depth <= SimFrames(Depth)
      BY <2>1 DEF CallsInv, Buffers
    <2> QED BY <1>3, <2>1, <2>2
  <1>8. ASSUME NEW k \in Key, home'[k] # 0
        PROVE  /\ home'[k] <= Depth' /\ Sim(home[k])' /\ jmpbuf'[k] # None
               /\ jmpbuf'[k].mstack = SimFrames(home[k])'
               /\ jmpbuf'[k].fname = cstack'[home'[k]].fn /\ jmpbuf'[k].params = home'[k]
               /\ VIRTREGS' => jmpbuf'[k].reginfo = cstack'[home'[k]].fn
               /\ jmpbuf'[k].sp = FrameWords(home[k])'
    <2>1. home[k] # 0 /\ home'[k] = home[k] /\ home'[k] <= Depth'
      BY <1>3, <1>5, <1>8
    <2>2. /\ jmpbuf[k] # None /\ jmpbuf[k].mstack = SimFrames(home[k])
          /\ jmpbuf[k].fname = cstack[home[k]].fn /\ jmpbuf[k].params = home[k]
          /\ VIRTREGS => jmpbuf[k].reginfo = cstack[home[k]].fn
          /\ jmpbuf[k].sp = FrameWords(home[k])
      BY <2>1 DEF CallsInv, Buffers
    <2>3. SameBut(jmpbuf[k], jmpbuf'[k])
      BY <1>2, <2>2
    <2> QED BY <1>6, <1>8, <2>1, <2>2, <2>3 DEF SameBut, VIRTREGS
  <1>9. Buffers'
    BY <1>7, <1>8 DEF Buffers
  <1>10. \A k \in Key : home'[k] # 0 => jmpbuf[k] # None
    BY <1>5 DEF CallsInv, Buffers
  <1> QED BY <1>2, <1>3, <1>4, <1>5, <1>6, <1>9, <1>10

LEMMA LeaveShape ==
  ASSUME CallsInv, Depth > 0, Sim(Depth), cstack' = Front(cstack),
         Depth' > 0 => reginfo' \in Func /\ file' \in File
  PROVE  Shape'
  <1>1. TypeOK
    BY DEF CallsInv, Types
  <1>2. Depth \in Nat /\ Depth' = Depth - 1
    BY <1>1, LeaveCounts
  <1>3. Depth' > 0 => Sim(1)'
    <2> HAVE Depth' > 0
    <2>1. 1 \in 1 .. Depth' /\ Sim(1)
      BY <1>2 DEF CallsInv, Shape
    <2> QED BY <1>1, <2>1, LeaveCounts
  <1>4. ASSUME NEW i \in 2 .. Depth', Sim(i)'
        PROVE  /\ cstack'[i].args => ~Sim(i - 1)'
               /\ cstack'[i].file \in File /\ cstack'[i].reginfo \in Func
    <2>1. i \in 1 .. Depth' /\ i - 1 \in 1 .. Depth' /\ i \in 2 .. Depth
      BY <1>2
    <2>2. Sim(i) /\ cstack'[i] = cstack[i] /\ cstack'[i - 1] = cstack[i - 1]
      BY <1>1, <1>4, <2>1, LeaveCounts
    <2>3. (cstack[i].args => ~Sim(i - 1)) /\ cstack[i].file \in File /\ cstack[i].reginfo \in Func
      BY <2>1, <2>2 DEF CallsInv, Shape
    <2> QED BY <2>2, <2>3 DEF Sim
  <1> QED BY <1>3, <1>4 DEF Shape

\* What wrappers and the macro stack hold is not disturbed.
LEMMA LeaveChain ==
  ASSUME CallsInv, Depth > 0, Sim(Depth), cstack' = Front(cstack), UNCHANGED program,
         Len(mstack') = SimFrames(Depth)' - ToUnwind', Len(mstack') <= Len(mstack),
         \A i \in 1 .. Len(mstack') : mstack'[i] = mstack[i]
  PROVE  Chain'
  <1>1. TypeOK /\ Len(mstack) \in Nat /\ Len(mstack') \in Nat
    BY DEF CallsInv, Types, TypeOK
  <1>2. ASSUME NEW i \in 1 .. Depth', NEW j \in 1 .. Depth', i < j, Sim(i)', Sim(j)',
               SimFrames(j)' = SimFrames(i)' + 1
        PROVE  /\ cstack'[j].parms = i
               /\ VIRTREGS' => cstack'[j].reginfo = cstack'[i].fn
               /\ Live(j)' => mstack'[SimFrames(j)'].fname = cstack'[i].fn
    <2>1. /\ i \in 1 .. Depth /\ cstack'[i] = cstack[i] /\ Sim(i) /\ SimFrames(i)' = SimFrames(i)
          /\ j \in 1 .. Depth /\ cstack'[j] = cstack[j] /\ Sim(j) /\ SimFrames(j)' = SimFrames(j)
          /\ SimFrames(j) \in Nat /\ SimFrames(j) > 0
      <3>1. /\ i \in 1 .. Depth /\ cstack'[i] = cstack[i] /\ Sim(i) /\ SimFrames(i)' = SimFrames(i)
        BY <1>1, <1>2, LeaveCounts
      <3>2. /\ j \in 1 .. Depth /\ cstack'[j] = cstack[j] /\ Sim(j) /\ SimFrames(j)' = SimFrames(j)
            /\ SimFrames(j) \in 0 .. (SimFrames(Depth) - 1) /\ SimFrames(j) > 0
        BY <1>1, <1>2, LeaveCounts
      <3> QED BY <3>1, <3>2
    <2>2. cstack[j].parms = i /\ (VIRTREGS => cstack[j].reginfo = cstack[i].fn)
          /\ (Live(j) => mstack[SimFrames(j)].fname = cstack[i].fn)
      BY <1>2, <2>1 DEF CallsInv, Chain
    <2>3. Live(j)' => Live(j) /\ mstack'[SimFrames(j)] = mstack[SimFrames(j)]
      <3> HAVE Live(j)'
      <3>1. SimFrames(j) <= Len(mstack')
        BY <2>1 DEF Live
      <3>2. SimFrames(j) <= Len(mstack) /\ SimFrames(j) \in 1 .. Len(mstack')
        BY <1>1, <2>1, <3>1
      <3> QED BY <2>1, <3>2 DEF Live
    <2> QED BY <2>1, <2>2, <2>3 DEF VIRTREGS
  <1>3. ASSUME NEW j \in 1 .. Depth', Live(j)'
        PROVE  mstack'[SimFrames(j)'].pv = [i \in PV \cap SavedPV |-> cstack'[j].pv[i]]
    <2>1. /\ j \in 1 .. Depth /\ cstack'[j] = cstack[j] /\ Sim(j) /\ SimFrames(j)' = SimFrames(j)
          /\ SimFrames(j) \in 0 .. (SimFrames(Depth) - 1) /\ SimFrames(j) > 0
      BY <1>1, <1>3, LeaveCounts DEF Live
    <2>2. SimFrames(j) <= Len(mstack')
      BY <1>3, <2>1 DEF Live
    <2>3. SimFrames(j) <= Len(mstack) /\ SimFrames(j) \in 1 .. Len(mstack')
      BY <1>1, <2>1, <2>2
    <2>4. Live(j) /\ mstack'[SimFrames(j)] = mstack[SimFrames(j)]
      BY <2>1, <2>3 DEF Live
    <2>5. mstack[SimFrames(j)].pv = [i \in PV \cap SavedPV |-> cstack[j].pv[i]]
      BY <2>1, <2>4 DEF CallsInv, Chain
    <2> QED BY <2>1, <2>4, <2>5
  <1> QED BY <1>2, <1>3 DEF Chain

\* What Return does, in the order of its conjuncts.
LEMMA Returned ==
  ASSUME CallsInv, Return
  PROVE  /\ Depth \in Nat /\ Depth > 0 /\ Sim(Depth) /\ ~longjmp_executed /\ Top \in Frame
         /\ cstack' = Front(cstack) /\ home' = Forget(Depth - 1) /\ jmpbuf' = SubDepth(jmpbuf)
         /\ UNCHANGED <<program, longjmp_executed, longjmp_depth, aborted, target>>
         /\ Len(mstack) = SimFrames(Depth) /\ SimFrames(Depth) \in 1 .. Depth
         /\ mstack' \in Seq([fname : Func \cup {None}, pv : [PV \cap SavedPV -> {0, 1}]])
         /\ Len(mstack') = Len(mstack) - 1
         /\ \A i \in 1 .. Len(mstack') : mstack'[i] = mstack[i]
         /\ mstack[Len(mstack)] \in [fname : Func \cup {None}, pv : [PV \cap SavedPV -> {0, 1}]]
         /\ fname' = mstack[Len(mstack)].fname
         /\ sp' = FrameWords(Depth - 1)
         /\ parms' = Top.parms /\ ops' = Top.ops
  <1>1. /\ TypeOK /\ Depth > 0 /\ Top.k = "sim" /\ ~longjmp_executed /\ cstack' = Front(cstack)
        /\ home' = Forget(Depth - 1) /\ jmpbuf' = SubDepth(jmpbuf) /\ mstack' = Front(mstack)
        /\ UNCHANGED <<program, longjmp_executed, longjmp_depth, aborted, target>>
        /\ fname' = mstack[Len(mstack)].fname /\ parms' = Top.parms /\ ops' = Top.ops
        /\ sp' = DeallocateNative(Top.args, sp - 1)
    BY DEF CallsInv, Types, Return, Simulating, PD_epilogue
  <1>2. Depth \in Nat /\ Depth \in 1 .. Depth /\ Sim(Depth) /\ Top \in Frame
    <2>1. Depth \in Nat /\ Depth \in 1 .. Depth
      BY <1>1, StackType
    <2> QED BY <1>1, <2>1, StackType DEF Top, Sim
  <1>3. Len(mstack) = SimFrames(Depth) /\ SimFrames(Depth) \in 1 .. Depth /\ sp = FrameWords(Depth)
    BY <1>1, AtRest
  <1>4. sp' = FrameWords(Depth - 1)
    <2>1. FrameWords(Depth - 1) = FrameWords(Depth) - (IF Top.args THEN 2 ELSE 1)
          /\ FrameWords(Depth - 1) \in Nat /\ FrameWords(Depth) \in Nat
      BY <1>1, <1>2, LeaveCounts, Positions
    <2>2. sp' = IF Top.args THEN (sp - 1) - 1 ELSE sp - 1
      BY <1>1 DEF DeallocateNative
    <2> QED BY <1>3, <2>1, <2>2
  <1>5. /\ mstack \in Seq([fname : Func \cup {None}, pv : [PV \cap SavedPV -> {0, 1}]])
        /\ Len(mstack) > 0
    BY <1>1, <1>3 DEF TypeOK
  <1>6. /\ mstack' \in Seq([fname : Func \cup {None}, pv : [PV \cap SavedPV -> {0, 1}]])
        /\ Len(mstack') = Len(mstack) - 1
        /\ \A i \in 1 .. Len(mstack') : mstack'[i] = mstack[i]
    BY <1>1, <1>5, FrontOf
  <1>7. mstack[Len(mstack)] \in [fname : Func \cup {None}, pv : [PV \cap SavedPV -> {0, 1}]]
    <2> DEFINE M == [fname : Func \cup {None}, pv : [PV \cap SavedPV -> {0, 1}]]
    <2>1. mstack \in Seq(M) /\ Len(mstack) > 0
      BY <1>5
    <2> HIDE DEF M
    <2>2. mstack[Len(mstack)] \in M
      BY <2>1
    <2> QED BY <2>2 DEF M
  <1> QED BY <1>1, <1>2, <1>3, <1>4, <1>6, <1>7

LEMMA ReturnTypes ==
  ASSUME CallsInv, Return
  PROVE  Types' /\ (Depth' > 0 => reginfo' \in Func /\ file' \in File)
  <1>1. /\ TypeOK /\ Depth \in Nat /\ Depth > 0 /\ Sim(Depth) /\ Top \in Frame
        /\ MAXDEPTH \in Nat /\ Depth <= MAXDEPTH
        /\ program \in Programs /\ aborted = FALSE /\ reginfo \in Func /\ file \in File
    BY StackType, Returned DEF CallsInv, Types, Shape
  <1>2. /\ Depth' = Depth - 1 /\ Depth' <= MAXDEPTH /\ cstack' \in Seq(Frame \cup [k : {"nat"}])
    BY <1>1, Returned, LeaveCounts
  <1>3. jmpbuf' \in [Key -> Buffer \cup {None}] /\ home' \in [Key -> 0 .. MAXDEPTH]
    BY <1>1, Returned, LeaveBuffers
  <1>4. /\ Top.file \in File \cup {None} /\ Top.reginfo \in Func \cup {None}
        /\ Top.ops \in Func \cup {None} /\ Top.parms \in 0 .. MAXDEPTH
    BY <1>1 DEF Frame
  <1>5. RestoreFile
    BY DEF Return
  <1>6. file' \in File \cup {None} /\ reginfo' \in Func \cup {None} /\ alive' \subseteq File
    BY <1>1, <1>4, <1>5 DEF RestoreFile, TypeOK
  <1>7. ASSUME Depth' > 0 PROVE reginfo' \in Func /\ file' \in File
    <2>1. Depth \in 2 .. Depth
      BY <1>1, <1>2, <1>7
    <2>2. Top.file \in File /\ Top.reginfo \in Func
      BY <1>1, <2>1 DEF CallsInv, Shape, Top
    <2> QED BY <1>1, <1>5, <2>2 DEF RestoreFile
  <1>8. pv' \in [PV -> {0, 1}]
    <2> DEFINE m == mstack[Len(mstack)].pv
    <2>1. pv' = [i \in PV |-> IF i \in SavedPV THEN m[i] ELSE pv[i]]
      BY DEF Return, PD_epilogue
    <2>2. m \in [PV \cap SavedPV -> {0, 1}]
      BY Returned
    <2>3. pv \in [PV -> {0, 1}]
      BY <1>1 DEF TypeOK
    <2> HIDE DEF m
    <2> QED BY <2>1, <2>2, <2>3
  <1>9. fname' \in Func \cup {None}
    BY Returned
  <1>10. sp' \in Nat
    BY <1>1, Returned, LeaveCounts
  <1>11. /\ mstack' \in Seq([fname : Func \cup {None}, pv : [PV \cap SavedPV -> {0, 1}]])
         /\ UNCHANGED <<program, longjmp_executed, longjmp_depth, aborted, target>>
         /\ parms' = Top.parms /\ ops' = Top.ops
    BY Returned
  <1>12. TypeOK'
    BY <1>1, <1>2, <1>3, <1>4, <1>6, <1>8, <1>9, <1>10, <1>11 DEF TypeOK
  <1> QED BY <1>1, <1>3, <1>7, <1>11, <1>12 DEF Types

\* The activation below runs again.
LEMMA ReturnRuns ==
  ASSUME CallsInv, Return
  PROVE  Chain' /\ Running'
  <1>1. /\ TypeOK /\ Depth \in Nat /\ Depth > 0 /\ Sim(Depth) /\ Len(mstack) = SimFrames(Depth)
        /\ SimFrames(Depth) \in 1 .. Depth
        /\ cstack' = Front(cstack) /\ UNCHANGED <<program, longjmp_executed>> /\ ~longjmp_executed
        /\ Len(mstack') = Len(mstack) - 1 /\ \A i \in 1 .. Len(mstack') : mstack'[i] = mstack[i]
    BY Returned DEF CallsInv, Types
  <1>2. SimFrames(Depth)' = SimFrames(Depth) - 1 /\ Depth' = Depth - 1
    BY <1>1, LeaveCounts
  <1>3. Chain'
    <2>1. Len(mstack') = SimFrames(Depth)' - ToUnwind' /\ Len(mstack') <= Len(mstack)
      BY <1>1, <1>2 DEF ToUnwind
    <2> QED BY <1>1, <2>1, LeaveChain
  <1>4. ASSUME NEW i \in 1 .. Depth', Sim(i)', SimFrames(i)' = Len(mstack')
        PROVE  /\ fname' = cstack'[i].fn /\ parms' = i
               /\ VIRTREGS' => reginfo' = cstack'[i].fn
               /\ sp' = FrameWords(i)'
    <2>1. /\ i \in 1 .. Depth /\ cstack'[i] = cstack[i] /\ Sim(i) /\ SimFrames(i)' = SimFrames(i)
          /\ FrameWords(i)' = FrameWords(i)
          /\ SimFrames(i) = SimFrames(Depth) - 1 => FrameWords(i) = FrameWords(Depth - 1)
      BY <1>1, <1>4, LeaveCounts
    <2>2. /\ SimFrames(Depth) = SimFrames(i) + 1 /\ i < Depth /\ Depth \in 1 .. Depth /\ Live(Depth)
      BY <1>1, <1>2, <1>4, <2>1 DEF Live
    <2>3. /\ Top.parms = i
          /\ VIRTREGS => Top.reginfo = cstack[i].fn
          /\ mstack[Len(mstack)].fname = cstack[i].fn
      BY <1>1, <2>1, <2>2 DEF CallsInv, Chain, Top
    <2>4. fname' = mstack[Len(mstack)].fname /\ parms' = Top.parms /\ sp' = FrameWords(Depth - 1)
      BY Returned
    <2>5. cstack[i].fn \in Func
      BY <1>1, <2>1, StackType DEF Frame
    <2>6. VIRTREGS => reginfo' = cstack[i].fn
      BY <2>3, <2>5, NoneAssumption DEF Return, RestoreFile
    <2>7. sp' = FrameWords(i)'
      BY <1>1, <1>4, <2>1, <2>2, <2>4
    <2> QED BY <1>1, <2>1, <2>3, <2>4, <2>6, <2>7 DEF VIRTREGS
  <1> QED BY <1>3, <1>4 DEF Running

LEMMA ReturnDepths ==
  ASSUME CallsInv, Return
  PROVE  DepthExact' /\ UnderWay' /\ Buffers'
  <1>1. /\ TypeOK /\ Depth \in Nat /\ Depth > 0 /\ Sim(Depth)
        /\ SimFrames(Depth) \in 1 .. Depth
        /\ cstack' = Front(cstack) /\ UNCHANGED <<program, longjmp_executed, longjmp_depth>>
        /\ ~longjmp_executed
        /\ home' = Forget(Depth - 1) /\ jmpbuf' = SubDepth(jmpbuf)
    BY Returned DEF CallsInv, Types
  <1>2. SimFrames(Depth)' = SimFrames(Depth) - 1
    BY <1>1, LeaveCounts
  <1>3. ASSUME NEW k \in Key, home'[k] # 0
        PROVE  /\ jmpbuf'[k].depth = SimFrames(Depth)' - SimFrames(home[k])'
               /\ SimFrames(Depth)' - SimFrames(home[k])' >= 0
    <2>1. /\ home'[k] = home[k] /\ home[k] # 0
          /\ SimFrames(home[k])' = SimFrames(home[k])
          /\ SimFrames(home[k]) \in 0 .. (SimFrames(Depth) - 1)
          /\ jmpbuf'[k].depth = IF jmpbuf[k].depth > 0 THEN jmpbuf[k].depth - 1 ELSE 0
      BY <1>1, <1>3, LeaveBuffers
    <2>2. jmpbuf[k].depth = SimFrames(Depth) - SimFrames(home[k])
      BY <1>1, <2>1 DEF CallsInv, DepthExact
    <2> QED BY <1>1, <1>2, <2>1, <2>2
  <1>4. DepthExact'
    BY <1>1, <1>3 DEF DepthExact
  <1>5. UnderWay'
    BY <1>1 DEF CallsInv, UnderWay
  <1> QED BY <1>1, <1>4, <1>5, LeaveBuffers

\* The file of the activation is freed, the saved one is current again.
LEMMA ReturnFiles == ASSUME CallsInv, Return PROVE RegFilesOwned'
  <1>1. /\ TypeOK /\ Depth \in Nat /\ Depth > 0 /\ Sim(Depth) /\ file \in File /\ RegFilesOwned
        /\ cstack' = Front(cstack) /\ UNCHANGED program /\ Depth \in 1 .. Depth
    <2>1. /\ Depth \in Nat /\ Depth > 0 /\ Sim(Depth)
          /\ cstack' = Front(cstack) /\ UNCHANGED program
      BY Returned
    <2> QED BY <2>1 DEF CallsInv, Types, Shape
  <1> SUFFICES ASSUME VIRTREGS PROVE RegFilesOwned'
    BY <1>1 DEF RegFilesOwned, VIRTREGS
  <1>2. file' = Top.file /\ alive' = alive \ {file}
    BY DEF Return, RestoreFile
  <1>3. /\ alive = {cstack[i].file : i \in Saved} \cup {file}
        /\ \A i \in Saved : cstack[i].file # file
        /\ \A i, j \in Saved : cstack[i].file = cstack[j].file => i = j
    BY <1>1, NoneAssumption DEF RegFilesOwned
  <1>4. alive' = {cstack[i].file : i \in Saved}
    BY <1>2, <1>3
  <1>5. Saved' = Saved \ {Depth} /\ \A i \in Saved' : cstack'[i].file = cstack[i].file
    <2>1. \A i : i \in 1 .. Depth' <=> i \in 1 .. Depth /\ i # Depth
      <3>1. Depth' = Depth - 1
        BY <1>1, LeaveCounts
      <3> QED BY <1>1, <3>1
    <2>2. \A i \in 1 .. Depth' : cstack'[i] = cstack[i]
      BY <1>1, LeaveCounts
    <2> QED BY <2>1, <2>2 DEF Saved
  <1>6. Depth \in Saved <=> Top.file # None
    BY <1>1 DEF Saved, Sim, Top
  <1>7. {cstack'[i].file : i \in Saved'} = {cstack[i].file : i \in Saved \ {Depth}}
    BY <1>5
  <1>8. {cstack[i].file : i \in Saved} = {cstack[i].file : i \in Saved \ {Depth}} \cup ({Top.file} \ {None})
    BY <1>6 DEF Top
  <1>9. \A i \in Saved' : cstack'[i].file # file'
    <2>1. ASSUME NEW i \in Saved' PROVE cstack'[i].file # file'
      <3>1. i \in Saved /\ i # Depth /\ cstack'[i].file = cstack[i].file
        BY <1>5
      <3>2. cstack[i].file # None
        BY <3>1 DEF Saved
      <3> QED BY <1>2, <1>3, <1>6, <3>1, <3>2 DEF Top
    <2> QED BY <2>1
  <1>10. \A i, j \in Saved' : cstack'[i].file = cstack'[j].file => i = j
    BY <1>3, <1>5
  <1>11. alive' = {cstack'[i].file : i \in Saved'} \cup ({file'} \ {None})
    BY <1>2, <1>4, <1>7, <1>8
  <1> QED BY <1>9, <1>10, <1>11 DEF RegFilesOwned

LEMMA ReturnKeeps == ASSUME CallsInv, Return PROVE CallsInv'
  <1>1. Shape'
    BY Returned, ReturnTypes, LeaveShape
  <1> QED BY <1>1, ReturnTypes, ReturnRuns, ReturnDepths, ReturnFiles DEF CallsInv

-----------------------------------------------------------------------------
\* Unwinding.

\* The target of a longjmp is below, and no frame of arguments is in the way.
LEMMA Unwound ==
  ASSUME CallsInv, Unwind
  PROVE  /\ TypeOK /\ Depth \in Nat /\ Depth > 0 /\ Sim(Depth) /\ Depth \in 1 .. Depth
         /\ Depth \in 2 .. Depth /\ ~Top.args /\ longjmp_executed
         /\ longjmp_depth \in 1 .. MAXDEPTH /\ longjmp_depth' = longjmp_depth - 1
         /\ cstack' = Front(cstack) /\ home' = Forget(Depth - 1) /\ jmpbuf' = SubDepth(jmpbuf)
         /\ alive' = IF VIRTREGS THEN alive \ {Top.file} ELSE alive
         /\ UNCHANGED <<program, mstack, fname, ops, parms, file, reginfo, sp, pv,
                        longjmp_executed, target, aborted>>
         /\ target \in Key /\ home[target] \in 1 .. (Depth - 1)
         /\ \A i \in home[target] .. Depth : Sim(i)
  <1>1. /\ TypeOK /\ Depth > 0 /\ Top.k = "sim" /\ longjmp_executed /\ longjmp_depth > 0
        /\ longjmp_depth' = longjmp_depth - 1 /\ jmpbuf' = SubDepth(jmpbuf)
        /\ UNCHANGED <<program, mstack, fname, ops, parms, file, reginfo, sp, pv,
                       longjmp_executed, target>>
    BY DEF CallsInv, Types, Unwind, ReturnsLeft
  <1>2. Depth \in Nat /\ Depth \in 1 .. Depth /\ Sim(Depth)
    <2>1. Depth \in Nat
      BY <1>1, StackType
    <2> QED BY <1>1, <2>1 DEF Top, Sim
  <1>3. longjmp_depth \in 1 .. MAXDEPTH
    BY <1>1, DepthAssumption DEF TypeOK
  <1>4. /\ target \in Key /\ home[target] # 0 /\ \A i \in home[target] .. Depth : Sim(i)
    BY <1>1 DEF CallsInv, UnderWay
  <1>5. home[target] \in 1 .. Depth /\ longjmp_depth = SimFrames(Depth) - SimFrames(home[target])
    <2>1. home[target] \in Nat /\ home[target] <= Depth
      BY <1>1, <1>4 DEF CallsInv, Buffers, TypeOK
    <2>2. longjmp_depth = SimFrames(Depth) - SimFrames(home[target])
      BY <1>1, <1>4 DEF CallsInv, DepthExact
    <2> QED BY <1>2, <1>4, <2>1, <2>2
  <1>6. home[target] # Depth
    <2>1. SimFrames(Depth) \in Nat
      BY <1>2, Positions
    <2> QED BY <1>1, <1>3, <1>5, <2>1
  <1>7. home[target] \in 1 .. (Depth - 1) /\ Depth \in 2 .. Depth /\ Depth - 1 \in home[target] .. Depth
    BY <1>2, <1>5, <1>6
  <1>8. ~Top.args
    <2>1. Sim(Depth - 1)
      BY <1>4, <1>7
    <2> QED BY <1>2, <1>7, <2>1 DEF CallsInv, Shape, Top
  <1>9. /\ cstack' = Front(cstack) /\ home' = Forget(Depth - 1)
        /\ alive' = IF VIRTREGS THEN alive \ {Top.file} ELSE alive
        /\ UNCHANGED aborted
    BY <1>8 DEF Unwind
  <1> QED BY <1>1, <1>2, <1>3, <1>4, <1>7, <1>8, <1>9

LEMMA UnwindTypes ==
  ASSUME CallsInv, Unwind
  PROVE  Types' /\ Shape'
  <1>1. /\ Depth \in Nat /\ Depth <= MAXDEPTH /\ Depth' = Depth - 1 /\ MAXDEPTH \in Nat
        /\ cstack' \in Seq(Frame \cup [k : {"nat"}])
    BY Unwound, LeaveCounts, StackType
  <1>2. jmpbuf' \in [Key -> Buffer \cup {None}] /\ home' \in [Key -> 0 .. MAXDEPTH]
    BY Unwound, LeaveBuffers
  <1>3. alive' \subseteq File /\ longjmp_depth' \in 0 .. MAXDEPTH
    BY <1>1, Unwound DEF TypeOK
  <1>4. UNCHANGED <<program, mstack, fname, ops, parms, file, reginfo, sp, pv,
                    longjmp_executed, target, aborted>>
    BY Unwound
  <1>5. TypeOK'
    BY <1>1, <1>2, <1>3, <1>4 DEF CallsInv, Types, TypeOK
  <1>6. Types'
    BY <1>2, <1>4, <1>5 DEF CallsInv, Types
  <1>7. reginfo' \in Func /\ file' \in File
    BY <1>4, Unwound DEF CallsInv, Shape
  <1>8. Shape'
    BY <1>7, Unwound, LeaveShape
  <1> QED BY <1>6, <1>8

LEMMA UnwindRuns ==
  ASSUME CallsInv, Unwind
  PROVE  Chain' /\ Running'
  <1>1. /\ Depth \in Nat /\ SimFrames(Depth) \in 1 .. Depth
        /\ SimFrames(Depth)' = SimFrames(Depth) - 1
    BY Unwound, LeaveCounts
  <1>2. UNCHANGED <<program, mstack, fname, parms, reginfo, sp, longjmp_executed>>
        /\ longjmp_executed /\ longjmp_depth' = longjmp_depth - 1 /\ longjmp_depth \in Nat
    BY Unwound
  <1>3. Chain'
    <2>1. Len(mstack') = SimFrames(Depth)' - ToUnwind' /\ Len(mstack') <= Len(mstack)
      <3>1. Len(mstack) = SimFrames(Depth) - longjmp_depth
        BY <1>2 DEF CallsInv, Chain, ToUnwind
      <3>2. ToUnwind' = longjmp_depth - 1
        BY <1>2 DEF ToUnwind
      <3> QED BY <1>1, <1>2, <3>1, <3>2
    <2>2. \A i \in 1 .. Len(mstack') : mstack'[i] = mstack[i]
      BY <1>2
    <2> QED BY <2>1, <2>2, Unwound, LeaveChain
  <1>4. ASSUME NEW i \in 1 .. Depth', Sim(i)', SimFrames(i)' = Len(mstack')
        PROVE  /\ fname' = cstack'[i].fn /\ parms' = i
               /\ VIRTREGS' => reginfo' = cstack'[i].fn
               /\ sp' = FrameWords(i)'
    <2>1. /\ i \in 1 .. Depth /\ cstack'[i] = cstack[i] /\ Sim(i) /\ SimFrames(i)' = SimFrames(i)
          /\ FrameWords(i)' = FrameWords(i)
      BY <1>4, Unwound, LeaveCounts
    <2> QED BY <1>2, <1>4, <2>1 DEF CallsInv, Running, VIRTREGS
  <1> QED BY <1>3, <1>4 DEF Running

LEMMA UnwindDepths ==
  ASSUME CallsInv, Unwind
  PROVE  DepthExact' /\ UnderWay' /\ Buffers'
  <1>1. /\ Depth \in Nat /\ SimFrames(Depth) \in 1 .. Depth /\ Depth' = Depth - 1
        /\ SimFrames(Depth)' = SimFrames(Depth) - 1
    BY Unwound, LeaveCounts
  <1>2. /\ longjmp_executed /\ longjmp_executed' = longjmp_executed /\ target' = target
        /\ longjmp_depth' = longjmp_depth - 1 /\ longjmp_depth \in Nat
        /\ home' = Forget(Depth - 1)
    BY Unwound
  <1>3. ASSUME NEW k \in Key, home'[k] # 0
        PROVE  IF k = target
               THEN longjmp_depth' = SimFrames(Depth)' - SimFrames(home[k])'
               ELSE jmpbuf'[k].depth = IF SimFrames(Depth)' - SimFrames(home[k])' >= 0
                                       THEN SimFrames(Depth)' - SimFrames(home[k])' ELSE 0
    <2>1. /\ home'[k] = home[k] /\ home[k] # 0
          /\ SimFrames(home[k])' = SimFrames(home[k])
          /\ SimFrames(home[k]) \in 0 .. (SimFrames(Depth) - 1)
          /\ jmpbuf'[k].depth = IF jmpbuf[k].depth > 0 THEN jmpbuf[k].depth - 1 ELSE 0
      BY <1>3, Unwound, LeaveBuffers
    <2>2. IF k = target
          THEN longjmp_depth = SimFrames(Depth) - SimFrames(home[k])
          ELSE jmpbuf[k].depth = SimFrames(Depth) - SimFrames(home[k])
      BY <1>1, <1>2, <2>1 DEF CallsInv, DepthExact
    <2> QED BY <1>1, <1>2, <2>1, <2>2
  <1>4. DepthExact'
    BY <1>2, <1>3 DEF DepthExact
  <1>5. UnderWay'
    <2>1. target \in Key /\ home[target] \in 1 .. (Depth - 1) /\ \A i \in home[target] .. Depth : Sim(i)
      BY Unwound
    <2>2. home'[target] = home[target] /\ home'[target] # 0
      BY <1>1, <1>2, <2>1 DEF Forget
    <2>4. jmpbuf'[target].depth = 0
      <3>1. jmpbuf[target].depth = 0
        BY <1>2 DEF CallsInv, UnderWay
      <3> QED BY <2>1, <2>2, <3>1, Unwound, LeaveBuffers
    <2>3. \A i \in home'[target] .. Depth' : Sim(i)'
      <3> SUFFICES ASSUME NEW i \in home[target] .. Depth' PROVE Sim(i)'
        BY <2>2
      <3>1. i \in home[target] .. Depth /\ i \in 1 .. Depth'
        BY <1>1, <2>1
      <3> QED BY <2>1, <3>1, Unwound, LeaveCounts
    <2> QED BY <1>2, <2>1, <2>2, <2>3, <2>4 DEF UnderWay
  <1> QED BY <1>4, <1>5, Unwound, LeaveBuffers

\* The file saved in the wrapper is freed.
LEMMA UnwindFiles == ASSUME CallsInv, Unwind PROVE RegFilesOwned'
  <1>1. /\ file \in File /\ RegFilesOwned
    BY Unwound DEF CallsInv, Shape
  <1> SUFFICES ASSUME VIRTREGS PROVE RegFilesOwned'
    BY Unwound DEF RegFilesOwned, VIRTREGS
  <1>2. file' = file /\ alive' = alive \ {Top.file} /\ Top.file \in File /\ Depth \in Saved
    <2>1. Top.file \in File
      BY Unwound DEF CallsInv, Shape, Top
    <2> QED BY <2>1, Unwound, NoneAssumption DEF Saved, Sim, Top
  <1>3. /\ alive = {cstack[i].file : i \in Saved} \cup {file}
        /\ \A i \in Saved : cstack[i].file # file
        /\ \A i, j \in Saved : cstack[i].file = cstack[j].file => i = j
    BY <1>1, NoneAssumption DEF RegFilesOwned
  <1>4. Saved' = Saved \ {Depth} /\ \A i \in Saved' : cstack'[i].file = cstack[i].file
    <2>1. \A i : i \in 1 .. Depth' <=> i \in 1 .. Depth /\ i # Depth
      <3>1. Depth' = Depth - 1 /\ Depth \in Nat
        BY Unwound, LeaveCounts
      <3> QED BY <3>1
    <2>2. \A i \in 1 .. Depth' : cstack'[i] = cstack[i]
      BY Unwound, LeaveCounts
    <2> QED BY <2>1, <2>2 DEF Saved
  <1>5. {cstack'[i].file : i \in Saved'} = {cstack[i].file : i \in Saved \ {Depth}}
    BY <1>4
  <1>6. {cstack[i].file : i \in Saved \ {Depth}} = {cstack[i].file : i \in Saved} \ {Top.file}
    BY <1>2, <1>3 DEF Top
  <1>7. alive' = {cstack'[i].file : i \in Saved'} \cup ({file'} \ {None})
    <2>1. Top.file # file /\ file # None
      BY <1>1, <1>2, <1>3, NoneAssumption DEF Top
    <2> QED BY <1>2, <1>3, <1>5, <1>6, <2>1
  <1>8. \A i \in Saved' : cstack'[i].file # file'
    BY <1>2, <1>3, <1>4
  <1>9. \A i, j \in Saved' : cstack'[i].file = cstack'[j].file => i = j
    BY <1>3, <1>4
  <1> QED BY <1>7, <1>8, <1>9 DEF RegFilesOwned

LEMMA UnwindKeeps == ASSUME CallsInv, Unwind PROVE CallsInv'
  <1>1. Types' /\ Shape' /\ Chain' /\ Running' /\ DepthExact' /\ UnderWay' /\ Buffers' /\ RegFilesOwned'
    BY UnwindTypes, UnwindRuns, UnwindDepths, UnwindFiles
  <1> QED BY <1>1 DEF CallsInv

-----------------------------------------------------------------------------
\* Steps that leave the C stack alone.

LEMMA Still ==
  ASSUME cstack' = cstack
  PROVE  /\ Depth' = Depth /\ Saved' = Saved
         /\ \A n : /\ SimFrames(n)' = SimFrames(n) /\ FrameWords(n)' = FrameWords(n)
                   /\ Sim(n)' <=> Sim(n)
  BY DEF Depth, Saved, SimFrames, FrameWords, Sim

LEMMA StillKeeps ==
  ASSUME CallsInv, UNCHANGED <<program, cstack, mstack, fname, parms, file, reginfo, alive, sp>>,
         ToUnwind' = ToUnwind
  PROVE  Shape' /\ Chain' /\ Running' /\ RegFilesOwned'
  <1>1. Depth' = Depth /\ \A n : /\ SimFrames(n)' = SimFrames(n) /\ FrameWords(n)' = FrameWords(n)
                                 /\ Sim(n)' <=> Sim(n)
                                 /\ Live(n)' <=> Live(n)
    BY Still DEF Live
  <1>2. Shape'
    BY DEF CallsInv, Shape, Sim, Depth
  <1>3. Chain'
    <2>1. Len(mstack') = SimFrames(Depth)' - ToUnwind'
      BY DEF CallsInv, Chain, SimFrames, Depth
    <2>2. \A i, j \in 1 .. Depth' : i < j /\ Sim(i)' /\ Sim(j)' /\ SimFrames(j)' = SimFrames(i)' + 1 =>
            /\ cstack'[j].parms = i
            /\ VIRTREGS' => cstack'[j].reginfo = cstack'[i].fn
            /\ Live(j)' => mstack'[SimFrames(j)'].fname = cstack'[i].fn
      BY <1>1 DEF CallsInv, Chain, VIRTREGS
    <2>3. ASSUME NEW j \in 1 .. Depth', Live(j)'
          PROVE  mstack'[SimFrames(j)'].pv = [i \in PV \cap SavedPV |-> cstack'[j].pv[i]]
      <3>1. j \in 1 .. Depth /\ Live(j)
        BY <1>1, <2>3
      <3>2. mstack[SimFrames(j)].pv = [i \in PV \cap SavedPV |-> cstack[j].pv[i]]
        BY <3>1 DEF CallsInv, Chain
      <3> QED BY <1>1, <3>2
    <2> QED BY <2>1, <2>2, <2>3 DEF Chain
  <1>4. Running'
    BY <1>1 DEF CallsInv, Running, VIRTREGS
  <1>5. RegFilesOwned'
    BY DEF CallsInv, RegFilesOwned, Saved, Depth, VIRTREGS
  <1> QED BY <1>2, <1>3, <1>4, <1>5

LEMMA WritePVKeeps == ASSUME CallsInv, NEW n \in PV, WritePV(n) PROVE CallsInv'
  <1>1. /\ pv' = [pv EXCEPT ![n] = 1 - @]
        /\ UNCHANGED <<program, cstack, mstack, jmpbuf, fname, ops, parms, file, reginfo, alive, sp,
                       longjmp_executed, longjmp_depth, aborted, home, target>>
    BY DEF WritePV
  <1>2. pv' \in [PV -> {0, 1}]
    <2>1. pv \in [PV -> {0, 1}]
      BY DEF CallsInv, Types, TypeOK
    <2>2. 1 - pv[n] \in {0, 1}
      BY <2>1
    <2> QED BY <1>1, <2>1, <2>2
  <1>3. Types'
    BY <1>1, <1>2 DEF CallsInv, Types, TypeOK, Depth
  <1>4. Shape' /\ Chain' /\ Running' /\ RegFilesOwned'
    BY <1>1, StillKeeps DEF ToUnwind
  <1>5. Buffers' /\ UnderWay'
    BY <1>1 DEF CallsInv, Buffers, UnderWay, Depth, Sim, SimFrames, FrameWords, VIRTREGS
  <1>6. DepthExact'
    BY <1>1 DEF CallsInv, DepthExact, Depth, SimFrames
  <1> QED BY <1>3, <1>4, <1>5, <1>6 DEF CallsInv

LEMMA LandKeeps == ASSUME CallsInv, Land PROVE CallsInv'
  <1>1. /\ longjmp_executed /\ longjmp_executed' = FALSE /\ longjmp_depth = 0
        /\ UNCHANGED <<program, cstack, mstack, jmpbuf, fname, ops, parms, file, reginfo, alive, sp, pv,
                       longjmp_depth, aborted, home, target>>
    BY DEF Land
  <1>2. Types'
    BY <1>1 DEF CallsInv, Types, TypeOK, Depth
  <1>3. Shape' /\ Chain' /\ Running' /\ RegFilesOwned'
    BY <1>1, StillKeeps DEF ToUnwind
  <1>5. Buffers' /\ UnderWay'
    BY <1>1 DEF CallsInv, Buffers, UnderWay, Depth, Sim, SimFrames, FrameWords, VIRTREGS
  <1>6. DepthExact'
    <2>1. ASSUME NEW k \in Key, home[k] # 0
          PROVE  jmpbuf[k].depth = IF SimFrames(Depth) - SimFrames(home[k]) >= 0
                                   THEN SimFrames(Depth) - SimFrames(home[k]) ELSE 0
      <3>1. CASE k = target
        <4>1. SimFrames(Depth) - SimFrames(home[k]) = 0
          BY <1>1, <2>1, <3>1 DEF CallsInv, DepthExact
        <4>2. jmpbuf[k].depth = 0
          BY <1>1, <3>1 DEF CallsInv, UnderWay
        <4> QED BY <4>1, <4>2
      <3>2. CASE k # target
        BY <2>1, <3>2 DEF CallsInv, DepthExact
      <3> QED BY <3>1, <3>2
    <2> QED BY <1>1, <2>1, Still DEF DepthExact
  <1> QED BY <1>2, <1>3, <1>5, <1>6 DEF CallsInv

\* While a function is simulated, the registers of the run-time are its own.
LEMMA AtTop ==
  ASSUME CallsInv, Simulating
  PROVE  /\ TypeOK /\ Depth \in Nat /\ Depth > 0 /\ Depth \in 1 .. Depth /\ Sim(Depth)
         /\ Depth <= MAXDEPTH /\ MAXDEPTH \in Nat /\ ~longjmp_executed
         /\ Len(mstack) = SimFrames(Depth) /\ SimFrames(Depth) \in 1 .. Depth
         /\ Top \in Frame /\ Top = cstack[Depth]
         /\ fname = Top.fn /\ parms = Depth /\ (VIRTREGS => reginfo = Top.fn)
         /\ sp = FrameWords(Depth)
  <1>1. TypeOK /\ Depth > 0 /\ ~longjmp_executed /\ Top.k = "sim" /\ Top = cstack[Depth]
    BY DEF CallsInv, Types, Simulating, Top
  <1>2. Depth \in Nat /\ Depth <= MAXDEPTH /\ MAXDEPTH \in Nat
    BY <1>1, StackType
  <1>3. Depth \in 1 .. Depth /\ Sim(Depth)
    BY <1>1, <1>2 DEF Sim
  <1>4. Len(mstack) = SimFrames(Depth) /\ SimFrames(Depth) \in 1 .. Depth
    BY <1>1, AtRest
  <1>5. /\ fname = Top.fn /\ parms = Depth /\ (VIRTREGS => reginfo = Top.fn)
        /\ sp = FrameWords(Depth)
    BY <1>1, <1>3, <1>4 DEF CallsInv, Running
  <1>6. Top \in Frame
    BY <1>1, <1>3, StackType
  <1> QED BY <1>1, <1>2, <1>3, <1>4, <1>5, <1>6

\* A setjmp records what is now.
LEMMA SetjmpKeeps == ASSUME CallsInv, NEW k \in Key, PD_setjmp(k) PROVE CallsInv'
  <1>1. /\ Simulating /\ jmpbuf' = [jmpbuf EXCEPT ![k] = Checkpoint]
        /\ home' = [home EXCEPT ![k] = Depth]
        /\ UNCHANGED <<program, cstack, mstack, fname, ops, parms, file, reginfo, alive, sp, pv,
                       longjmp_executed, longjmp_depth, aborted, target>>
    BY DEF PD_setjmp
  <1>2. Checkpoint \in Buffer /\ Checkpoint # None
    <2>1. reginfo \in Func /\ Len(mstack) \in 1 .. MAXDEPTH /\ parms \in 1 .. MAXDEPTH /\ fname \in Func
      <3>1. Top.fn \in Func
        BY <1>1, AtTop DEF Frame
      <3>2. /\ Depth \in Nat /\ Depth > 0 /\ Depth <= MAXDEPTH /\ MAXDEPTH \in Nat
            /\ Len(mstack) = SimFrames(Depth) /\ SimFrames(Depth) \in 1 .. Depth
            /\ fname = Top.fn /\ parms = Depth
        BY <1>1, AtTop
      <3>3. reginfo \in Func
        BY <3>2 DEF CallsInv, Shape
      <3> QED BY <3>1, <3>2, <3>3
    <2>2. sp \in Nat /\ pv \in [PV -> {0, 1}] /\ 0 \in 0 .. MAXDEPTH
      BY DepthAssumption DEF CallsInv, Types, TypeOK
    <2>3. Checkpoint \in Buffer
      BY <2>1, <2>2 DEF Checkpoint, Buffer
    <2> QED BY <2>3, NoneAssumption
  <1>3. /\ Checkpoint.depth = 0 /\ Checkpoint.reginfo = reginfo /\ Checkpoint.mstack = Len(mstack)
        /\ Checkpoint.params = parms /\ Checkpoint.fname = fname /\ Checkpoint.sp = sp
    BY DEF Checkpoint
  <1>4. /\ jmpbuf' \in [Key -> Buffer \cup {None}] /\ home' \in [Key -> 0 .. MAXDEPTH]
        /\ jmpbuf'[k] = Checkpoint /\ home'[k] = Depth
        /\ \A x \in Key : x # k => jmpbuf'[x] = jmpbuf[x] /\ home'[x] = home[x]
    <2>1. jmpbuf \in [Key -> Buffer \cup {None}] /\ home \in [Key -> 0 .. MAXDEPTH]
      BY DEF CallsInv, Types, TypeOK
    <2>2. Depth \in 0 .. MAXDEPTH
      BY <1>1, AtTop
    <2> QED BY <1>1, <1>2, <2>1, <2>2
  <1>5. Types'
    BY <1>1, <1>4 DEF CallsInv, Types, TypeOK, Depth
  <1>6. Shape' /\ Chain' /\ Running' /\ RegFilesOwned'
    BY <1>1, StillKeeps DEF ToUnwind
  <1>7. Depth' = Depth /\ \A n : /\ SimFrames(n)' = SimFrames(n) /\ FrameWords(n)' = FrameWords(n)
                                 /\ Sim(n)' <=> Sim(n)
    BY <1>1, Still
  <1>8. Buffers'
    <2>1. ASSUME NEW x \in Key
          PROVE  /\ jmpbuf'[x] # None => jmpbuf'[x].depth <= SimFrames(Depth)
                 /\ home'[x] # 0 =>
                      /\ home'[x] <= Depth /\ Sim(home'[x]) /\ jmpbuf'[x] # None
                      /\ jmpbuf'[x].mstack = SimFrames(home'[x])
                      /\ jmpbuf'[x].fname = cstack[home'[x]].fn /\ jmpbuf'[x].params = home'[x]
                      /\ VIRTREGS => jmpbuf'[x].reginfo = cstack[home'[x]].fn
                      /\ jmpbuf'[x].sp = FrameWords(home'[x])
      <3>1. CASE x = k
        BY <1>1, <1>2, <1>3, <1>4, <3>1, AtTop
      <3>2. CASE x # k
        BY <1>4, <3>2 DEF CallsInv, Buffers
      <3> QED BY <3>1, <3>2
    <2>2. \A x \in Key : /\ SimFrames(home[x])' = SimFrames(home'[x])
                         /\ FrameWords(home[x])' = FrameWords(home'[x])
                         /\ Sim(home[x])' <=> Sim(home'[x])
      BY <1>1 DEF Sim, SimFrames, FrameWords
    <2> QED BY <1>1, <1>7, <2>1, <2>2 DEF Buffers, VIRTREGS
  <1>9. ~longjmp_executed
    BY <1>1, AtTop
  <1>10. DepthExact'
    <2>1. ASSUME NEW x \in Key, home'[x] # 0
          PROVE  jmpbuf'[x].depth = IF SimFrames(Depth) - SimFrames(home'[x]) >= 0
                                    THEN SimFrames(Depth) - SimFrames(home'[x]) ELSE 0
      <3>1. CASE x = k
        <4>1. SimFrames(Depth) - SimFrames(Depth) = 0
          BY <1>1, AtTop
        <4> QED BY <1>3, <1>4, <3>1, <4>1
      <3>2. CASE x # k
        BY <1>4, <1>9, <2>1, <3>2 DEF CallsInv, DepthExact
      <3> QED BY <3>1, <3>2
    <2>2. \A x \in Key : SimFrames(home[x])' = SimFrames(home'[x])
      BY <1>1 DEF SimFrames
    <2> QED BY <1>1, <1>7, <1>9, <2>1, <2>2 DEF DepthExact
  <1>11. UnderWay'
    BY <1>1, <1>9 DEF CallsInv, UnderWay
  <1> QED BY <1>5, <1>6, <1>8, <1>10, <1>11 DEF CallsInv

-----------------------------------------------------------------------------
\* A longjmp.

\* The buffer of an active setjmp, with the activation h that made it.
LEMMA Jumped ==
  ASSUME CallsInv, NEW k \in Key, PD_longjmp(k)
  PROVE  /\ Simulating /\ home[k] \in 1 .. Depth /\ Sim(home[k])
         /\ SimFrames(home[k]) \in 1 .. SimFrames(Depth)
         /\ \A i \in home[k] .. Depth : Sim(i)
         /\ jmpbuf[k] \in Buffer
         /\ jmpbuf[k].depth = SimFrames(Depth) - SimFrames(home[k])
         /\ jmpbuf[k].mstack = SimFrames(home[k])
         /\ jmpbuf[k].fname = cstack[home[k]].fn /\ jmpbuf[k].params = home[k]
         /\ VIRTREGS => jmpbuf[k].reginfo = cstack[home[k]].fn
         /\ jmpbuf[k].sp = FrameWords(home[k])
         /\ jmpbuf' \in [Key -> Buffer \cup {None}]
         /\ SameBut(jmpbuf[k], jmpbuf'[k]) /\ jmpbuf'[k].depth = 0
         /\ \A x \in Key : x # k => jmpbuf'[x] = jmpbuf[x]
         /\ reginfo' = jmpbuf[k].reginfo /\ sp' = jmpbuf[k].sp /\ pv' = jmpbuf[k].pv
         /\ mstack' = SubSeq(mstack, 1, jmpbuf[k].mstack) /\ parms' = jmpbuf[k].params
         /\ fname' = jmpbuf[k].fname /\ longjmp_executed' = TRUE
         /\ longjmp_depth' = jmpbuf[k].depth /\ target' = k
         /\ file' = (IF VIRTREGS THEN Fresh(alive \ {file}) ELSE file)
         /\ alive' = (alive \ {file}) \cup {file'}
         /\ UNCHANGED <<program, cstack, ops, aborted, home>>
  <1>1. /\ Simulating /\ home[k] # 0
        /\ CROSSNATIVE \/ \A i \in home[k] .. Depth : cstack[i].k = "sim"
        /\ reginfo' = jmpbuf[k].reginfo /\ sp' = jmpbuf[k].sp /\ pv' = jmpbuf[k].pv
        /\ mstack' = SubSeq(mstack, 1, jmpbuf[k].mstack) /\ parms' = jmpbuf[k].params
        /\ fname' = jmpbuf[k].fname /\ longjmp_executed' = TRUE
        /\ longjmp_depth' = jmpbuf[k].depth /\ target' = k
        /\ file' = (IF VIRTREGS THEN Fresh(alive \ {file}) ELSE file)
        /\ alive' = (alive \ {file}) \cup {file'}
        /\ UNCHANGED <<program, cstack, ops, aborted, home>>
    BY DEF PD_longjmp
  <1>2. jmpbuf' = [jmpbuf EXCEPT ![k] = [jmpbuf[k] EXCEPT !.depth = 0]]
    BY DEF PD_longjmp
  <1>3. \A i \in home[k] .. Depth : Sim(i)
    BY <1>1 DEF CallsInv, Sim
  <1>4. /\ home[k] \in Nat /\ home[k] <= Depth /\ Sim(home[k]) /\ jmpbuf[k] # None
        /\ jmpbuf[k].mstack = SimFrames(home[k])
        /\ jmpbuf[k].fname = cstack[home[k]].fn /\ jmpbuf[k].params = home[k]
        /\ VIRTREGS => jmpbuf[k].reginfo = cstack[home[k]].fn
        /\ jmpbuf[k].sp = FrameWords(home[k])
    BY <1>1 DEF CallsInv, Buffers, Types, TypeOK
  <1>5. jmpbuf \in [Key -> Buffer \cup {None}] /\ jmpbuf[k] \in Buffer /\ 0 \in 0 .. MAXDEPTH
    BY <1>4, DepthAssumption DEF CallsInv, Types
  <1>6. SameBut(jmpbuf[k], [jmpbuf[k] EXCEPT !.depth = 0]) /\ [jmpbuf[k] EXCEPT !.depth = 0].depth = 0
    BY <1>5, Recounted
  <1>7. /\ jmpbuf' \in [Key -> Buffer \cup {None}]
        /\ SameBut(jmpbuf[k], jmpbuf'[k]) /\ jmpbuf'[k].depth = 0
        /\ \A x \in Key : x # k => jmpbuf'[x] = jmpbuf[x]
    <2> DEFINE c == [jmpbuf[k] EXCEPT !.depth = 0]
    <2>1. c \in Buffer /\ SameBut(jmpbuf[k], c) /\ c.depth = 0
      BY <1>6 DEF SameBut
    <2>2. jmpbuf' = [jmpbuf EXCEPT ![k] = c]
      BY <1>2
    <2> HIDE DEF c
    <2>3. jmpbuf'[k] = c
      BY <1>5, <2>2
    <2> QED BY <1>5, <2>1, <2>2, <2>3
  <1>8. /\ home[k] \in 1 .. Depth /\ SimFrames(home[k]) \in 1 .. SimFrames(Depth)
    <2>1. Depth \in Nat /\ home[k] > 0
      BY <1>1, <1>4, AtTop
    <2>2. /\ SimFrames(home[k]) <= SimFrames(Depth) /\ SimFrames(home[k]) \in 0 .. home[k]
          /\ SimFrames(Depth) \in 0 .. Depth
      BY <1>4, <2>1, Positions
    <2>3. SimFrames(0) \in 0 .. 0 /\ SimFrames(0) < SimFrames(home[k])
      BY <1>4, <2>1, Positions
    <2> QED BY <1>4, <2>1, <2>2, <2>3
  <1>9. jmpbuf[k].depth = SimFrames(Depth) - SimFrames(home[k])
    <2>1. ~longjmp_executed
      BY <1>1, AtTop
    <2>2. SimFrames(Depth) - SimFrames(home[k]) >= 0
      <3>1. SimFrames(Depth) \in 1 .. Depth /\ Depth \in Nat
        BY <1>1, AtTop
      <3> QED BY <1>8, <3>1
    <2> QED BY <1>1, <2>1, <2>2 DEF CallsInv, DepthExact
  <1> QED BY <1>1, <1>3, <1>4, <1>5, <1>7, <1>8, <1>9

\* The current file is freed and another allocated.
LEMMA JumpFiles ==
  ASSUME CallsInv, NEW k \in Key, PD_longjmp(k)
  PROVE  file' \in File /\ alive' \subseteq File /\ RegFilesOwned'
  <1>1. /\ TypeOK /\ file \in File /\ RegFilesOwned /\ Depth \in Nat /\ Depth <= MAXDEPTH
    <2>1. /\ Depth \in Nat /\ Depth > 0 /\ Depth <= MAXDEPTH
      BY Jumped, AtTop
    <2> QED BY <2>1 DEF CallsInv, Types, Shape
  <1>2. /\ file' = IF VIRTREGS THEN Fresh(alive \ {file}) ELSE file
        /\ alive' = (alive \ {file}) \cup {file'} /\ UNCHANGED <<program, cstack>>
    BY Jumped
  <1>3. CASE ~VIRTREGS
    BY <1>1, <1>2, <1>3 DEF RegFilesOwned, TypeOK, VIRTREGS
  <1>4. CASE VIRTREGS
    <2> DEFINE T == {cstack[i].file : i \in Saved}
    <2>1. IsFiniteSet(T) /\ Cardinality(T) <= Depth /\ Cardinality(T) \in Nat
      BY <1>1, SavedFew, FS_CardinalityType
    <2>2. /\ alive = T \cup {file} /\ file \notin T
          /\ \A i, j \in Saved : cstack[i].file = cstack[j].file => i = j
      BY <1>1, <1>4, NoneAssumption DEF RegFilesOwned
    <2>3. alive \ {file} = T /\ T \subseteq File
      <3> HIDE DEF T
      <3> QED BY <1>1, <2>2 DEF TypeOK
    <2>4. file' \in File \ T
      <3> HIDE DEF T
      <3>1. Cardinality(T) <= MAXDEPTH
        BY <1>1, <2>1, DepthAssumption
      <3> QED BY <1>2, <1>4, <2>3, <3>1, FreshExists
    <2>5. alive' = T \cup ({file'} \ {None}) /\ alive' \subseteq File
      <3> HIDE DEF T
      <3> QED BY <1>2, <2>3, <2>4, NoneAssumption
    <2>6. Saved' = Saved /\ {cstack'[i].file : i \in Saved'} = T
      BY <1>2, Still
    <2>7. \A i \in Saved' : cstack'[i].file # file'
      BY <1>2, <2>4, <2>6
    <2> QED BY <1>2, <2>2, <2>4, <2>5, <2>6, <2>7 DEF RegFilesOwned
  <1> QED BY <1>3, <1>4

LEMMA JumpTypes ==
  ASSUME CallsInv, NEW k \in Key, PD_longjmp(k)
  PROVE  Types' /\ Shape'
  <1>1. /\ TypeOK /\ program \in Programs /\ aborted = FALSE
    BY DEF CallsInv, Types
  <1>2. /\ jmpbuf[k].reginfo \in Func /\ jmpbuf[k].fname \in Func /\ jmpbuf[k].sp \in Nat
        /\ jmpbuf[k].pv \in [PV -> {0, 1}] /\ jmpbuf[k].depth \in 0 .. MAXDEPTH
        /\ jmpbuf[k].params \in 1 .. MAXDEPTH
    BY Jumped DEF Buffer
  <1>3. /\ reginfo' = jmpbuf[k].reginfo /\ sp' = jmpbuf[k].sp /\ pv' = jmpbuf[k].pv
        /\ parms' = jmpbuf[k].params /\ fname' = jmpbuf[k].fname /\ longjmp_executed' = TRUE
        /\ longjmp_depth' = jmpbuf[k].depth /\ target' = k
        /\ UNCHANGED <<program, cstack, ops, aborted, home>>
        /\ jmpbuf' \in [Key -> Buffer \cup {None}]
    BY Jumped
  <1>4. mstack' \in Seq([fname : Func \cup {None}, pv : [PV \cap SavedPV -> {0, 1}]])
    <2> DEFINE M == [fname : Func \cup {None}, pv : [PV \cap SavedPV -> {0, 1}]]
    <2>1. mstack \in Seq(M) /\ mstack' = SubSeq(mstack, 1, jmpbuf[k].mstack)
      BY <1>1, Jumped DEF TypeOK
    <2>2. jmpbuf[k].mstack \in 1 .. Len(mstack)
      BY Jumped, AtTop
    <2> HIDE DEF M
    <2>3. mstack' \in Seq(M)
      BY <2>1, <2>2
    <2> QED BY <2>3 DEF M
  <1>5. file' \in File /\ alive' \subseteq File
    BY JumpFiles
  <1>6. parms' \in 0 .. MAXDEPTH
    BY <1>2, <1>3, DepthAssumption
  <1>7. TypeOK'
    BY <1>1, <1>2, <1>3, <1>4, <1>5, <1>6 DEF TypeOK, Depth
  <1>8. Types'
    BY <1>1, <1>3, <1>7 DEF Types
  <1>9. Shape'
    BY <1>2, <1>3, <1>5 DEF CallsInv, Shape, Sim, Depth
  <1> QED BY <1>8, <1>9

\* The activation of the setjmp is the last live one.
LEMMA JumpRuns ==
  ASSUME CallsInv, NEW k \in Key, PD_longjmp(k)
  PROVE  Chain' /\ Running'
  <1>1. /\ Depth' = Depth
        /\ \A n : /\ SimFrames(n)' = SimFrames(n) /\ FrameWords(n)' = FrameWords(n)
                  /\ Sim(n)' <=> Sim(n)
    BY Jumped, Still
  <1>2. /\ Len(mstack) = SimFrames(Depth) /\ Depth \in Nat /\ SimFrames(Depth) \in 1 .. Depth
        /\ SimFrames(home[k]) \in 1 .. SimFrames(Depth)
        /\ home[k] \in 1 .. Depth /\ Sim(home[k])
    BY Jumped, AtTop
  <1>3. /\ Len(mstack') = SimFrames(home[k])
        /\ \A i \in 1 .. Len(mstack') : i \in 1 .. Len(mstack) /\ mstack'[i] = mstack[i]
    <2>1. mstack' = SubSeq(mstack, 1, SimFrames(home[k]))
      BY Jumped
    <2>2. mstack \in Seq([fname : Func \cup {None}, pv : [PV \cap SavedPV -> {0, 1}]])
      BY DEF CallsInv, Types, TypeOK
    <2> QED BY <1>2, <2>1, <2>2
  <1>4. ToUnwind' = SimFrames(Depth) - SimFrames(home[k]) /\ UNCHANGED <<program, cstack>>
    BY Jumped DEF ToUnwind
  <1>5. ASSUME NEW j \in 1 .. Depth, Live(j)'
        PROVE  Live(j) /\ SimFrames(j)' = SimFrames(j) /\ mstack'[SimFrames(j)] = mstack[SimFrames(j)]
    <2>1. Sim(j) /\ SimFrames(j) <= Len(mstack')
      BY <1>1, <1>5 DEF Live
    <2>2. SimFrames(j) \in 0 .. j /\ SimFrames(0) \in 0 .. 0 /\ SimFrames(0) < SimFrames(j)
      BY <1>2, <2>1, Positions
    <2>3. SimFrames(j) \in 1 .. Len(mstack')
      BY <1>2, <1>3, <2>1, <2>2
    <2> QED BY <1>1, <1>2, <1>3, <2>1, <2>3 DEF Live
  <1>6. Chain'
    <2>1. Len(mstack') = SimFrames(Depth)' - ToUnwind'
      <3>1. SimFrames(Depth)' = SimFrames(Depth)
        BY <1>4 DEF SimFrames, Depth
      <3> QED BY <1>2, <1>3, <1>4, <3>1
    <2>2. ASSUME NEW i \in 1 .. Depth', NEW j \in 1 .. Depth', i < j, Sim(i)', Sim(j)',
                 SimFrames(j)' = SimFrames(i)' + 1
          PROVE  /\ cstack'[j].parms = i
                 /\ VIRTREGS' => cstack'[j].reginfo = cstack'[i].fn
                 /\ Live(j)' => mstack'[SimFrames(j)'].fname = cstack'[i].fn
      <3>1. /\ i \in 1 .. Depth /\ j \in 1 .. Depth /\ Sim(i) /\ Sim(j) /\ SimFrames(j) = SimFrames(i) + 1
        BY <1>1, <2>2
      <3>2. /\ cstack[j].parms = i /\ (VIRTREGS => cstack[j].reginfo = cstack[i].fn)
            /\ Live(j) => mstack[SimFrames(j)].fname = cstack[i].fn
        BY <2>2, <3>1 DEF CallsInv, Chain
      <3> QED BY <1>4, <1>5, <3>1, <3>2 DEF VIRTREGS
    <2>3. ASSUME NEW j \in 1 .. Depth', Live(j)'
          PROVE  mstack'[SimFrames(j)'].pv = [i \in PV \cap SavedPV |-> cstack'[j].pv[i]]
      <3>1. j \in 1 .. Depth
        BY <1>1
      <3>2. Live(j) /\ SimFrames(j)' = SimFrames(j) /\ mstack'[SimFrames(j)] = mstack[SimFrames(j)]
        BY <1>5, <2>3, <3>1
      <3>3. mstack[SimFrames(j)].pv = [i \in PV \cap SavedPV |-> cstack[j].pv[i]]
        BY <3>1, <3>2 DEF CallsInv, Chain
      <3> QED BY <1>4, <3>2, <3>3
    <2> QED BY <2>1, <2>2, <2>3 DEF Chain
  <1>7. ASSUME NEW i \in 1 .. Depth', Sim(i)', SimFrames(i)' = Len(mstack')
        PROVE  /\ fname' = cstack'[i].fn /\ parms' = i
               /\ VIRTREGS' => reginfo' = cstack'[i].fn
               /\ sp' = FrameWords(i)'
    <2>1. i = home[k]
      <3>1. Sim(i) /\ SimFrames(i) = SimFrames(home[k]) /\ i \in Nat /\ i > 0
            /\ home[k] \in Nat /\ home[k] > 0
        BY <1>1, <1>2, <1>3, <1>7
      <3> QED BY <1>2, <3>1, Positions
    <2>2. /\ fname' = cstack[home[k]].fn /\ parms' = home[k] /\ (VIRTREGS => reginfo' = cstack[home[k]].fn)
          /\ sp' = FrameWords(home[k])
      BY Jumped
    <2>3. FrameWords(i)' = FrameWords(i)
      BY <1>1
    <2> QED BY <1>4, <2>1, <2>2, <2>3 DEF VIRTREGS
  <1> QED BY <1>6, <1>7 DEF Running

LEMMA JumpDepths ==
  ASSUME CallsInv, NEW k \in Key, PD_longjmp(k)
  PROVE  Buffers' /\ DepthExact' /\ UnderWay'
  <1>1. /\ Depth' = Depth
        /\ \A n : /\ SimFrames(n)' = SimFrames(n) /\ FrameWords(n)' = FrameWords(n)
                  /\ Sim(n)' <=> Sim(n)
    BY Jumped, Still
  <1>2. /\ UNCHANGED <<program, cstack, home>> /\ longjmp_executed' = TRUE /\ target' = k
        /\ longjmp_depth' = SimFrames(Depth) - SimFrames(home[k])
        /\ home[k] \in 1 .. Depth /\ \A i \in home[k] .. Depth : Sim(i)
        /\ jmpbuf'[k].depth = 0 /\ SameBut(jmpbuf[k], jmpbuf'[k])
        /\ \A x \in Key : x # k => jmpbuf'[x] = jmpbuf[x]
    BY Jumped
  <1>3. \A x : /\ SimFrames(home[x])' = SimFrames(home[x]) /\ FrameWords(home[x])' = FrameWords(home[x])
               /\ Sim(home[x])' <=> Sim(home[x])
    BY <1>2 DEF SimFrames, FrameWords, Sim
  <1>4. SimFrames(Depth)' = SimFrames(Depth)
    BY <1>2 DEF SimFrames, Depth
  <1>5. ~longjmp_executed /\ SimFrames(Depth) \in 1 .. Depth
    BY Jumped, AtTop
  <1>6. Buffers'
    <2>1. ASSUME NEW x \in Key
          PROVE  /\ jmpbuf'[x] # None => jmpbuf'[x].depth <= SimFrames(Depth)
                 /\ home[x] # 0 =>
                      /\ home[x] <= Depth /\ Sim(home[x]) /\ jmpbuf'[x] # None
                      /\ jmpbuf'[x].mstack = SimFrames(home[x])
                      /\ jmpbuf'[x].fname = cstack[home[x]].fn /\ jmpbuf'[x].params = home[x]
                      /\ VIRTREGS => jmpbuf'[x].reginfo = cstack[home[x]].fn
                      /\ jmpbuf'[x].sp = FrameWords(home[x])
      <3>1. CASE x = k
        <4>1. home[x] # 0 =>
                /\ home[x] <= Depth /\ Sim(home[x])
                /\ jmpbuf[x].mstack = SimFrames(home[x])
                /\ jmpbuf[x].fname = cstack[home[x]].fn /\ jmpbuf[x].params = home[x]
                /\ VIRTREGS => jmpbuf[x].reginfo = cstack[home[x]].fn
                /\ jmpbuf[x].sp = FrameWords(home[x])
          BY DEF CallsInv, Buffers
        <4>2. 0 <= SimFrames(Depth)
          BY <1>5
        <4> QED BY <1>2, <3>1, <4>1, <4>2 DEF SameBut
      <3>2. CASE x # k
        BY <1>2, <3>2 DEF CallsInv, Buffers
      <3> QED BY <3>1, <3>2
    <2> QED BY <1>1, <1>2, <1>3, <1>4, <2>1 DEF Buffers, VIRTREGS
  <1>7. DepthExact'
    <2>1. \A x \in Key : x # k /\ home[x] # 0 =>
            jmpbuf'[x].depth = IF SimFrames(Depth) - SimFrames(home[x]) >= 0
                               THEN SimFrames(Depth) - SimFrames(home[x]) ELSE 0
      BY <1>2, <1>5 DEF CallsInv, DepthExact
    <2> QED BY <1>2, <1>3, <1>4, <2>1 DEF DepthExact
  <1>8. UnderWay'
    <2>1. home[k] # 0 /\ \A i \in home[k] .. Depth : Sim(i)'
      BY <1>1, <1>2
    <2> QED BY <1>1, <1>2, <2>1 DEF UnderWay
  <1> QED BY <1>6, <1>7, <1>8

LEMMA LongjmpKeeps == ASSUME CallsInv, NEW k \in Key, PD_longjmp(k) PROVE CallsInv'
  <1>1. Types' /\ Shape' /\ Chain' /\ Running' /\ Buffers' /\ DepthExact' /\ UnderWay' /\ RegFilesOwned'
    BY JumpTypes, JumpRuns, JumpDepths, JumpFiles
  <1> QED BY <1>1 DEF CallsInv

-----------------------------------------------------------------------------
\* The invariant.

LEMMA InitInv == ASSUME CROSSNATIVE = FALSE, Init PROVE CallsInv
  <1> DEFINE x == [k |-> "sim", fn |-> Main, args |-> TRUE, file |-> None,
                   reginfo |-> None, ops |-> None, parms |-> 0,
                   pv |-> [i \in PV |-> 0]]
             m == [fname |-> None, pv |-> [i \in PV \cap SavedPV |-> 0]]
  <1>1. /\ program \in Programs /\ cstack = <<x>> /\ mstack = <<m>>
        /\ jmpbuf = [k \in Key |-> None]
        /\ fname = Main /\ ops = Main /\ parms = 1
        /\ file = 1 /\ reginfo = Main /\ alive = {1} /\ sp = 2
        /\ pv = [i \in PV |-> 0]
        /\ longjmp_executed = FALSE /\ longjmp_depth = 0 /\ aborted = FALSE
        /\ home = [k \in Key |-> 0] /\ target = None
    BY DEF Init
  <1>2. Main \in Func /\ MAXDEPTH \in Nat /\ MAXDEPTH >= 1 /\ 1 \in File /\ None \notin Func
    BY FuncAssumption, DepthAssumption, NoneAssumption DEF File
  <1>3. /\ x \in Frame /\ x.k = "sim" /\ x.args = TRUE /\ x.file = None /\ x.fn = Main
        /\ x.pv = [i \in PV |-> 0]
    BY <1>2 DEF Frame
  <1>4. m \in [fname : Func \cup {None}, pv : [PV \cap SavedPV -> {0, 1}]]
        /\ m.pv = [i \in PV \cap SavedPV |-> 0]
    OBVIOUS
  <1>5. [i \in PV \cap SavedPV |-> x.pv[i]] = m.pv
    BY <1>3, <1>4
  <1> HIDE DEF x, m
  <1>6. Depth = 1 /\ cstack[1] = x /\ Len(mstack) = 1 /\ mstack[1] = m /\ Sim(1)
    BY <1>1, <1>3 DEF Depth, Sim
  <1>7. SimFrames(1) = 1 /\ FrameWords(1) = 2 /\ SimFrames(Depth) = 1
    <2>1. SimsIn(cstack, 0 + 1) = 1 /\ WordsIn(cstack, 0 + 1) = 2
      <3>1. cstack[0 + 1] = x /\ 0 \in Nat
        BY <1>6
      <3> QED BY <1>3, <3>1, CountSteps, CountNone
    <2> QED BY <1>6, <2>1, CountsAre
  <1>8. \A i \in 1 .. Depth : i = 1
    BY <1>6
  <1>9. TypeOK
    <2>1. cstack \in Seq(Frame \cup [k : {"nat"}]) /\ Depth <= MAXDEPTH
      BY <1>1, <1>2, <1>3, <1>6
    <2>2. mstack \in Seq([fname : Func \cup {None}, pv : [PV \cap SavedPV -> {0, 1}]])
      <3> DEFINE M == [fname : Func \cup {None}, pv : [PV \cap SavedPV -> {0, 1}]]
      <3>1. m \in M
        BY <1>4
      <3> HIDE DEF M
      <3>2. mstack \in Seq(M)
        BY <1>1, <3>1
      <3> QED BY <3>2 DEF M
    <2>3. parms \in 0 .. MAXDEPTH /\ longjmp_depth \in 0 .. MAXDEPTH
      BY <1>1, <1>2
    <2>4. home \in [Key -> 0 .. MAXDEPTH] /\ pv \in [PV -> {0, 1}]
      BY <1>1, <1>2
    <2> QED BY <1>1, <1>2, <2>1, <2>2, <2>3, <2>4 DEF TypeOK
  <1>10. Types
    BY <1>1, <1>9 DEF Types
  <1>11. Shape
    <2>1. \A i \in 2 .. Depth : FALSE
      BY <1>6
    <2> QED BY <1>1, <1>2, <1>6, <2>1 DEF Shape
  <1>12. Chain
    <2>1. Len(mstack) = SimFrames(Depth) - ToUnwind
      BY <1>1, <1>6, <1>7 DEF ToUnwind
    <2>2. \A i, j \in 1 .. Depth : ~(i < j)
      BY <1>6
    <2>3. ASSUME NEW j \in 1 .. Depth PROVE mstack[SimFrames(j)].pv = [i \in PV \cap SavedPV |-> cstack[j].pv[i]]
      <3>1. j = 1
        BY <1>8
      <3> QED BY <1>5, <1>6, <1>7, <3>1
    <2> QED BY <2>1, <2>2, <2>3 DEF Chain
  <1>13. Running
    <2>1. ASSUME NEW i \in 1 .. Depth
          PROVE  /\ fname = cstack[i].fn /\ parms = i /\ reginfo = cstack[i].fn /\ sp = FrameWords(i)
      <3>1. i = 1
        BY <1>8
      <3> QED BY <1>1, <1>3, <1>6, <1>7, <3>1
    <2> QED BY <2>1 DEF Running
  <1>14. Buffers /\ UnderWay /\ DepthExact
    BY <1>1 DEF Buffers, UnderWay, DepthExact
  <1>15. RegFilesOwned
    <2>1. Saved = {}
      BY <1>3, <1>6, <1>8 DEF Saved
    <2>2. alive = {} \cup ({file} \ {None})
      BY <1>1, <1>2, NoneAssumption
    <2> QED BY <2>1, <2>2 DEF RegFilesOwned
  <1> QED BY <1>10, <1>11, <1>12, <1>13, <1>14, <1>15 DEF CallsInv

LEMMA StutterKeeps == ASSUME CallsInv, UNCHANGED vars PROVE CallsInv'
  <1>1. UNCHANGED <<program, cstack, mstack, jmpbuf, fname, ops, parms, file, reginfo, alive, sp, pv,
                    longjmp_executed, longjmp_depth, aborted, home, target>>
    BY DEF vars
  <1>2. Types'
    BY <1>1 DEF CallsInv, Types, TypeOK, Depth
  <1>3. Shape' /\ Chain' /\ Running' /\ RegFilesOwned'
    BY <1>1, StillKeeps DEF ToUnwind
  <1>4. Buffers' /\ UnderWay'
    BY <1>1 DEF CallsInv, Buffers, UnderWay, Depth, Sim, SimFrames, FrameWords, VIRTREGS
  <1>5. DepthExact'
    BY <1>1 DEF CallsInv, DepthExact, Depth, SimFrames
  <1> QED BY <1>2, <1>3, <1>4, <1>5 DEF CallsInv

\* CallsInv is inductive.
LEMMA NextKeeps == ASSUME CallsInv, [Next]_vars PROVE CallsInv'
  <1>1. ASSUME NEW f \in Func, Call(f) PROVE CallsInv'
    BY <1>1, AtTop, EnterKeeps DEF Call
  <1>2. ASSUME NEW f \in Func, NEW args \in BOOLEAN, CallBack(f, args) PROVE CallsInv'
    <2>1. Enter(f, args) /\ Depth > 0 /\ Top.k = "nat"
      BY <1>2 DEF CallBack, InNative
    <2>2. ~Sim(Depth)
      BY <2>1 DEF Sim, Top
    <2>3. ~longjmp_executed
      <3>1. Depth \in Nat
        BY StackType DEF CallsInv, Types
      <3>2. target \in Key /\ home[target] # 0 => Depth \in home[target] .. Depth
        BY <3>1 DEF CallsInv, Buffers, Types, TypeOK
      <3> QED BY <2>2, <3>2 DEF CallsInv, UnderWay
    <2> QED BY <2>1, <2>2, <2>3, EnterKeeps
  <1>3. CASE CallNative
    BY <1>3, CallNativeKeeps
  <1>4. CASE NativeReturns
    BY <1>4, NativeReturnsKeeps
  <1>5. CASE Return
    BY <1>5, ReturnKeeps
  <1>6. ASSUME NEW i \in PV, WritePV(i) PROVE CallsInv'
    BY <1>6, WritePVKeeps
  <1>7. ASSUME NEW k \in Key, PD_setjmp(k) PROVE CallsInv'
    BY <1>7, SetjmpKeeps
  <1>8. ASSUME NEW k \in Key, PD_longjmp(k) PROVE CallsInv'
    BY <1>8, LongjmpKeeps
  <1>9. CASE Unwind
    BY <1>9, UnwindKeeps
  <1>10. CASE Land
    BY <1>10, LandKeeps
  <1>11. CASE UNCHANGED vars
    BY <1>11, StutterKeeps
  <1> QED BY <1>1, <1>2, <1>3, <1>4, <1>5, <1>6, <1>7, <1>8, <1>9, <1>10, <1>11 DEF Next, Unwinding

LEMMA InvAlways == CROSSNATIVE = FALSE /\ Spec => []CallsInv
  <1>1. CROSSNATIVE = FALSE /\ Init => CallsInv
    BY InitInv, Zenon
  <1>2. CallsInv /\ [Next]_vars => CallsInv'
    BY NextKeeps
  <1> QED BY <1>1, <1>2, PTL DEF Spec

-----------------------------------------------------------------------------
\* The C stack, the macro stack, the jump buffers and the registers of the
\* run-time hold what they should (PD_stack.c, PD_setjmp.c, packager.cpp).
THEOREM TypeOKAlways == CROSSNATIVE = FALSE /\ Spec => []TypeOK
  <1>1. CallsInv => TypeOK
    BY DEF CallsInv, Types
  <1> QED BY <1>1, InvAlways, PTL

\* Whatever the mix of calls, returns, callbacks and longjmps, every buffer that
\* may still be used counts the activations above its setjmp (PD_setjmp.c).
THEOREM DepthExactAlways == CROSSNATIVE = FALSE /\ Spec => []DepthExact
  <1>1. CallsInv => DepthExact
    BY DEF CallsInv
  <1> QED BY <1>1, InvAlways, PTL

\* No register file is leaked, freed twice or freed while an activation owns it
\* (packager.cpp, PD_longjmp.c).
THEOREM RegFilesOwnedAlways == CROSSNATIVE = FALSE /\ Spec => []RegFilesOwned
  <1>1. CallsInv => RegFilesOwned
    BY DEF CallsInv
  <1> QED BY <1>1, InvAlways, PTL

\* A fake frame is never taken off while a longjmp is under way (PD_stack.c), as
\* long as no longjmp leaves a native activation behind.
THEOREM WrapperGuardsAlways == CROSSNATIVE = FALSE /\ Spec => []WrapperGuards
  <1>1. CallsInv => WrapperGuards
    BY DEF CallsInv, Types, WrapperGuards
  <1> QED BY <1>1, InvAlways, PTL

\* The three stacks agree, and a function that runs finds its own name,
\* parameters, register file info and stack pointer (PD_stack.c, packager.cpp).
THEOREM StacksAgreeAlways == CROSSNATIVE = FALSE /\ Spec => []StacksAgree
  <1>1. CallsInv => StacksAgree
    <2> SUFFICES ASSUME CallsInv PROVE StacksAgree
      OBVIOUS
    <2>1. Len(mstack) = SimFrames(Depth) - ToUnwind
      BY DEF CallsInv, Chain
    <2>2. Simulating => /\ fname = Top.fn /\ parms = Depth
                        /\ VIRTREGS => reginfo = Top.fn
                        /\ sp = FrameWords(Depth)
      BY AtTop
    <2> QED BY <2>1, <2>2 DEF StacksAgree
  <1> QED BY <1>1, InvAlways, PTL

\* Land is the only step that ends a longjmp, with nothing left to unwind.
LEMMA OnlyLand == ASSUME CallsInv, [Next]_vars, longjmp_executed, ~longjmp_executed' PROVE Land
  <1>1. UNCHANGED vars => longjmp_executed' = longjmp_executed
    BY DEF vars
  <1>2. \A f \in Func, args \in BOOLEAN : Enter(f, args) => longjmp_executed' = longjmp_executed
    BY DEF Enter
  <1>3. /\ \A f \in Func : Call(f) => longjmp_executed' = longjmp_executed
        /\ \A f \in Func, args \in BOOLEAN : CallBack(f, args) => longjmp_executed' = longjmp_executed
    BY <1>2 DEF Call, CallBack
  <1>4. /\ CallNative => longjmp_executed' = longjmp_executed
        /\ NativeReturns => longjmp_executed' = longjmp_executed
        /\ Return => longjmp_executed' = longjmp_executed
        /\ \A i \in PV : WritePV(i) => longjmp_executed' = longjmp_executed
        /\ \A k \in Key : PD_setjmp(k) => longjmp_executed' = longjmp_executed
        /\ Unwind => longjmp_executed' = longjmp_executed
    BY DEF CallNative, NativeReturns, Return, WritePV, PD_setjmp, Unwind
  <1>5. \A k \in Key : PD_longjmp(k) => longjmp_executed' = TRUE
    BY DEF PD_longjmp
  <1> QED BY <1>1, <1>3, <1>4, <1>5 DEF Next, Unwinding

\* When the forced returns are over, the C stack is at the activation that called
\* setjmp (PD_kernel.c).
THEOREM LandsHomeAlways == CROSSNATIVE = FALSE /\ Spec => LandsHome
  <1>1. CallsInv /\ [Next]_vars => (longjmp_executed /\ ~longjmp_executed' => home[target] = Depth)
    <2> SUFFICES ASSUME CallsInv, [Next]_vars, longjmp_executed, ~longjmp_executed'
                 PROVE  home[target] = Depth
      OBVIOUS
    <2>1. longjmp_depth = 0
      BY OnlyLand DEF Land
    <2>2. target \in Key /\ home[target] # 0 /\ \A i \in home[target] .. Depth : Sim(i)
      BY DEF CallsInv, UnderWay
    <2>3. /\ Depth \in Nat /\ home[target] \in Nat /\ home[target] > 0 /\ home[target] <= Depth
      BY <2>2, StackType DEF CallsInv, Buffers, Types, TypeOK
    <2>4. SimFrames(Depth) - SimFrames(home[target]) = 0
      BY <2>1, <2>2 DEF CallsInv, DepthExact
    <2>5. /\ SimFrames(Depth) \in Nat /\ SimFrames(home[target]) \in Nat
          /\ home[target] < Depth /\ Sim(Depth) => SimFrames(home[target]) < SimFrames(Depth)
      BY <2>3, Positions
    <2>6. Sim(Depth)
      BY <2>2, <2>3
    <2> QED BY <2>3, <2>4, <2>5, <2>6
  <1> QED BY <1>1, InvAlways, PTL DEF Spec, LandsHome

\* The names of the macros reach all registers but the last.
LEMMA SavedNames == SavedPV = 0 .. 6
  <1>1. \A n \in 0 .. 7 : PVReg(n) \in 0 .. 6
    BY DEF PVReg
  <1>2. ASSUME NEW i \in 0 .. 6 PROVE \E n \in 0 .. 7 : i = PVReg(n)
    <2>1. CASE i <= 3
      <3>1. i \in 0 .. 7 /\ PVReg(i) = i
        BY <2>1 DEF PVReg
      <3> QED BY <3>1
    <2>2. CASE ~(i <= 3)
      <3>1. i + 1 \in 0 .. 7 /\ PVReg(i + 1) = i
        BY <2>2 DEF PVReg
      <3> QED BY <3>1
    <2> QED BY <2>1, <2>2
  <1> QED BY <1>1, <1>2 DEF SavedPV

\* A call leaves the caller's predicate registers as they were, but for the last,
\* which is left as the callee had it (PD_stack.c, PD_reg.h).
THEOREM PVPreservedAlways == CROSSNATIVE = FALSE /\ Spec => PVPreserved
  <1>1. CallsInv => (Return /\ Depth > 1 =>
                        \A i \in PV : pv'[i] = IF i = 7 THEN pv[i] ELSE Top.pv[i])
    <2> SUFFICES ASSUME CallsInv, Return, NEW i \in PV
                 PROVE  pv'[i] = IF i = 7 THEN pv[i] ELSE Top.pv[i]
      OBVIOUS
    <2>1. /\ Top \in Frame /\ Depth \in 1 .. Depth /\ Live(Depth) /\ Len(mstack) = SimFrames(Depth)
      <3>1. Simulating
        BY DEF Return
      <3> QED BY <3>1, AtTop DEF Live
    <2>2. mstack[Len(mstack)].pv = [j \in PV \cap SavedPV |-> Top.pv[j]]
      BY <2>1 DEF CallsInv, Chain, Top
    <2>3. pv'[i] = IF i \in SavedPV THEN mstack[Len(mstack)].pv[i] ELSE pv[i]
      BY DEF Return, PD_epilogue
    <2>4. i \in SavedPV <=> i # 7
      BY PVAssumption, SavedNames
    <2> QED BY <2>2, <2>3, <2>4
  <1> QED BY <1>1, InvAlways, PTL DEF Spec, PVPreserved

-----------------------------------------------------------------------------
\* The refinement: the active functions and the setjmps that a C program sees.

FramesOf(m, f) == [i \in 1 .. Len(m) |-> IF i = Len(m) THEN f ELSE m[i + 1].fname]
EnvOf(s, h, l) == [k \in Key |-> IF SimsIn(s, h[k]) <= l THEN SimsIn(s, h[k]) ELSE 0]
Frames == FramesOf(mstack, fname)
Env == EnvOf(cstack, home, Len(mstack))

FramesFit(m, f, S) ==
    /\ FramesOf(m, f) \in Seq(S) /\ Len(FramesOf(m, f)) = Len(m)
    /\ \A i \in 1 .. Len(m) : FramesOf(m, f)[i] = IF i = Len(m) THEN f ELSE m[i + 1].fname

LEMMA FramesAre ==
  ASSUME NEW S, NEW M, \A x \in M : x.fname \in S, NEW f \in S, NEW m \in Seq(M)
  PROVE  FramesFit(m, f, S)
  <1>1. Len(m) \in Nat /\ \A i \in 1 .. Len(m) : m[i].fname \in S
    OBVIOUS
  <1>2. FramesOf(m, f) \in [1 .. Len(m) -> S]
    BY <1>1 DEF FramesOf
  <1>3. FramesOf(m, f) \in Seq(S)
    BY <1>1, <1>2, SeqDef
  <1>4. DOMAIN FramesOf(m, f) = 1 .. Len(m)
    BY DEF FramesOf
  <1>5. Len(FramesOf(m, f)) = Len(m)
    BY <1>1, <1>3, <1>4
  <1>6. \A i \in 1 .. Len(m) : FramesOf(m, f)[i] = IF i = Len(m) THEN f ELSE m[i + 1].fname
    BY DEF FramesOf
  <1> QED BY <1>3, <1>5, <1>6 DEF FramesFit

\* The same, of the macro stack now.
LEMMA FramesNow ==
  ASSUME CallsInv
  PROVE  /\ Len(mstack) \in Nat /\ Frames \in Seq(Func \cup {None}) /\ Len(Frames) = Len(mstack)
         /\ \A i \in 1 .. Len(mstack) :
              Frames[i] = IF i = Len(mstack) THEN fname ELSE mstack[i + 1].fname
  <1> DEFINE S == Func \cup {None}
             M == [fname : S, pv : [PV \cap SavedPV -> {0, 1}]]
  <1>1. fname \in S /\ mstack \in Seq(M) /\ \A x \in M : x.fname \in S
    BY DEF CallsInv, Types, TypeOK
  <1> HIDE DEF S, M
  <1>2. Len(mstack) \in Nat
    BY <1>1
  <1>3. FramesFit(mstack, fname, S)
    BY <1>1, FramesAre
  <1> QED BY <1>2, <1>3 DEF FramesFit, Frames, S

LEMMA FramesNext ==
  ASSUME CallsInv'
  PROVE  /\ Len(mstack') \in Nat /\ Frames' \in Seq(Func \cup {None}) /\ Len(Frames') = Len(mstack')
         /\ \A i \in 1 .. Len(mstack') :
              Frames'[i] = IF i = Len(mstack') THEN fname' ELSE mstack'[i + 1].fname
  <1> DEFINE S == Func \cup {None}
             M == [fname : S, pv : [PV \cap SavedPV -> {0, 1}]]
  <1>1. fname' \in S /\ mstack' \in Seq(M) /\ \A x \in M : x.fname \in S
    BY DEF CallsInv, Types, TypeOK
  <1> HIDE DEF S, M
  <1>2. Len(mstack') \in Nat
    BY <1>1
  <1>3. FramesFit(mstack', fname', S)
    BY <1>1, FramesAre
  <1> QED BY <1>2, <1>3 DEF FramesFit, Frames, S

\* Positions of setjmps.
LEMMA Homes ==
  ASSUME CallsInv, NEW k \in Key
  PROVE  /\ Depth \in Nat /\ home[k] \in 0 .. Depth /\ home[k] \in Nat
         /\ home[k] # 0 => Sim(home[k])
         /\ SimsIn(cstack, home[k]) \in 0 .. SimFrames(Depth)
         /\ home[k] = 0 => SimsIn(cstack, home[k]) = 0
  <1>1. Depth \in Nat /\ home[k] \in Nat /\ home[k] <= Depth /\ (home[k] # 0 => Sim(home[k]))
    <2>1. Depth \in Nat /\ home[k] \in Nat
      BY StackType DEF CallsInv, Types, TypeOK
    <2> QED BY <2>1 DEF CallsInv, Buffers
  <1>2. SimsIn(cstack, home[k]) \in 0 .. home[k] /\ SimsIn(cstack, Depth) \in 0 .. Depth
        /\ SimsIn(cstack, home[k]) <= SimsIn(cstack, Depth)
    BY <1>1, CountSteps, CountGrows
  <1>3. SimFrames(Depth) = SimsIn(cstack, Depth)
    BY CountsAre
  <1>4. home[k] = 0 => SimsIn(cstack, home[k]) = 0
    BY CountNone
  <1> QED BY <1>1, <1>2, <1>3, <1>4

\* A call extends the active functions.
LEMMA EnterSeen ==
  ASSUME CallsInv, CallsInv', Depth > 0, NEW f \in Func, NEW args \in BOOLEAN, Enter(f, args),
         ~longjmp_executed
  PROVE  Frames' = Append(Frames, f) /\ Env' = Env
  <1>1. Depth < MAXDEPTH /\ fname' = f /\ home' = home
    BY DEF Enter, Wrapper, PD_prologue
  <1>2. /\ Len(mstack) \in Nat /\ Len(mstack') = Len(mstack) + 1 /\ Len(mstack) = SimFrames(Depth)
        /\ \A i \in 1 .. Len(mstack) : mstack'[i] = mstack[i]
        /\ mstack'[Len(mstack')].fname = fname
    BY <1>1, Entered, AtRest
  <1>3. Frames' = Append(Frames, f)
    <2>1. /\ Append(Frames, f) \in Seq(Func \cup {None}) /\ Len(Append(Frames, f)) = Len(mstack) + 1
          /\ \A i \in 1 .. Len(mstack) : Append(Frames, f)[i] = Frames[i]
          /\ Append(Frames, f)[Len(mstack) + 1] = f
      BY FramesNow, AppendProperties
    <2>2. ASSUME NEW i \in 1 .. Len(mstack') PROVE Frames'[i] = Append(Frames, f)[i]
      <3>1. CASE i = Len(mstack')
        BY <1>1, <1>2, <2>1, <3>1, FramesNext
      <3>2. CASE i = Len(mstack)
        <4>1. Frames'[i] = mstack'[i + 1].fname /\ i \in 1 .. Len(mstack)
          BY <1>2, <3>2, FramesNext
        <4> QED BY <1>2, <2>1, <3>2, <4>1, FramesNow
      <3>3. CASE i # Len(mstack') /\ i # Len(mstack)
        <4>1. i \in 1 .. Len(mstack) /\ i + 1 \in 1 .. Len(mstack)
          BY <1>2, <3>3
        <4>2. Frames'[i] = mstack'[i + 1].fname
          BY <3>3, FramesNext
        <4> QED BY <1>2, <2>1, <3>3, <4>1, <4>2, FramesNow
      <3> QED BY <3>1, <3>2, <3>3
    <2>3. Len(Frames') = Len(mstack') /\ Frames' \in Seq(Func \cup {None})
      BY FramesNext
    <2> QED BY <1>2, <2>1, <2>2, <2>3, SeqEqual
  <1>4. ASSUME NEW k \in Key
        PROVE  SimsIn(cstack', home'[k]) = SimsIn(cstack, home[k]) /\ SimsIn(cstack, home[k]) \in 0 .. Len(mstack)
    <2>1. home[k] \in 0 .. Depth /\ SimsIn(cstack, home[k]) \in 0 .. Len(mstack)
      BY <1>2, Homes
    <2>2. SimsIn(cstack', home[k]) = SimsIn(cstack, home[k])
      BY <1>1, <2>1, Entered, CountsAre
    <2> QED BY <1>1, <2>1, <2>2
  <1>5. Env' = Env
    <2>1. \A k \in Key : SimsIn(cstack, home[k]) <= Len(mstack) /\ SimsIn(cstack, home[k]) <= Len(mstack')
      BY <1>2, <1>4
    <2> QED BY <1>4, <2>1 DEF Env, EnvOf
  <1> QED BY <1>3, <1>5

\* A return takes the last active function off.
LEMMA ReturnSeen ==
  ASSUME CallsInv, CallsInv', Return
  PROVE  /\ Frames # <<>> /\ Frames' = SubSeq(Frames, 1, Len(Frames) - 1)
         /\ Env' = [k \in Key |-> IF Env[k] > Len(Frames) - 1 THEN 0 ELSE Env[k]]
  <1>1. /\ Len(mstack) = SimFrames(Depth) /\ Len(mstack) \in Nat /\ Len(mstack) > 0
        /\ Len(mstack') = Len(mstack) - 1
        /\ \A i \in 1 .. Len(mstack') : mstack'[i] = mstack[i]
        /\ fname' = mstack[Len(mstack)].fname
        /\ Depth \in Nat /\ Depth > 0 /\ Sim(Depth) /\ cstack' = Front(cstack)
        /\ home' = Forget(Depth - 1) /\ jmpbuf' = SubDepth(jmpbuf) /\ program' = program
    BY Returned
  <1>2. Len(Frames) = Len(mstack) /\ Frames \in Seq(Func \cup {None})
    BY FramesNow
  <1>3. Frames' = SubSeq(Frames, 1, Len(Frames) - 1)
    <2> DEFINE s == SubSeq(Frames, 1, Len(Frames) - 1)
    <2>1. /\ s \in Seq(Func \cup {None}) /\ Len(s) = Len(mstack) - 1
          /\ \A i \in 1 .. (Len(mstack) - 1) : s[i] = Frames[i]
      BY <1>1, <1>2
    <2> HIDE DEF s
    <2>2. ASSUME NEW i \in 1 .. Len(mstack') PROVE Frames'[i] = s[i]
      <3>1. i \in 1 .. (Len(mstack) - 1) /\ i \in 1 .. Len(mstack) /\ i # Len(mstack)
        BY <1>1
      <3>2. s[i] = mstack[i + 1].fname
        BY <2>1, <3>1, FramesNow
      <3>3. CASE i = Len(mstack')
        BY <1>1, <3>2, <3>3, FramesNext
      <3>4. CASE i # Len(mstack')
        <4>1. i + 1 \in 1 .. Len(mstack')
          BY <1>1, <3>1, <3>4
        <4> QED BY <1>1, <3>2, <3>4, <4>1, FramesNext
      <3> QED BY <3>3, <3>4
    <2>3. Len(Frames') = Len(mstack') /\ Frames' \in Seq(Func \cup {None})
      BY FramesNext
    <2>4. Frames' = s
      BY <1>1, <2>1, <2>2, <2>3, SeqEqual
    <2> QED BY <2>4 DEF s
  <1>4. ASSUME NEW k \in Key
        PROVE  SimsIn(cstack', home'[k]) = IF SimsIn(cstack, home[k]) > Len(mstack) - 1
                                           THEN 0 ELSE SimsIn(cstack, home[k])
    <2>1. home'[k] = IF home[k] > Depth - 1 THEN 0 ELSE home[k]
      BY <1>1 DEF Forget
    <2>2. CASE home[k] > Depth - 1
      <3>1. home[k] = Depth /\ home'[k] = 0
        BY <1>1, <2>1, <2>2, Homes
      <3>2. SimsIn(cstack, home[k]) = Len(mstack)
        BY <1>1, <3>1, CountsAre
      <3> QED BY <1>1, <3>1, <3>2, CountNone
    <2>3. CASE home[k] <= Depth - 1 /\ home[k] # 0
      <3>1. home'[k] = home[k] /\ home[k] \in 1 .. (Depth - 1) /\ home'[k] # 0
        BY <1>1, <2>1, <2>3, Homes
      <3>2. Depth' = Depth - 1
        BY <1>1, LeaveCounts DEF CallsInv, Types
      <3>3. /\ SimFrames(home[k]) \in 0 .. (SimFrames(Depth) - 1)
            /\ SimsIn(cstack', home[k]) = SimsIn(cstack, home[k])
        BY <1>1, <3>1, <3>2, LeaveCounts, CountsAre DEF CallsInv, Types
      <3> QED BY <1>1, <3>1, <3>3, CountsAre
    <2>4. CASE home[k] = 0
      BY <1>1, <2>1, <2>4, CountNone
    <2> QED BY <1>1, <2>2, <2>3, <2>4, Homes
  <1>5. Env' = [k \in Key |-> IF Env[k] > Len(Frames) - 1 THEN 0 ELSE Env[k]]
    <2>1. ASSUME NEW k \in Key
          PROVE  (IF SimsIn(cstack', home'[k]) <= Len(mstack') THEN SimsIn(cstack', home'[k]) ELSE 0)
                   = IF Env[k] > Len(Frames) - 1 THEN 0 ELSE Env[k]
      <3>1. SimsIn(cstack, home[k]) \in 0 .. Len(mstack)
        BY <1>1, Homes
      <3>2. Env[k] = SimsIn(cstack, home[k])
        BY <3>1 DEF Env, EnvOf
      <3> QED BY <1>1, <1>2, <1>4, <3>1, <3>2
    <2> QED BY <2>1 DEF Env, EnvOf
  <1>6. Frames # <<>>
    BY <1>1, <1>2
  <1> QED BY <1>3, <1>5, <1>6

\* A setjmp notes the position of the function that runs.
LEMMA SetjmpSeen ==
  ASSUME CallsInv, NEW k \in Key, PD_setjmp(k)
  PROVE  Frames # <<>> /\ Env' = [Env EXCEPT ![k] = Len(Frames)] /\ UNCHANGED Frames
  <1>1. /\ Simulating /\ home' = [home EXCEPT ![k] = Depth] /\ UNCHANGED <<cstack, mstack, fname>>
    BY DEF PD_setjmp
  <1>2. /\ Len(mstack) = SimFrames(Depth) /\ SimFrames(Depth) \in 1 .. Depth /\ Depth \in Nat
        /\ SimFrames(Depth) = SimsIn(cstack, Depth)
    BY <1>1, AtTop, CountsAre
  <1>3. Len(Frames) = Len(mstack) /\ Frames # <<>>
    BY <1>2, FramesNow
  <1>4. home \in [Key -> 0 .. MAXDEPTH]
    BY DEF CallsInv, Types, TypeOK
  <1>5. ASSUME NEW x \in Key
        PROVE  (IF SimsIn(cstack, home'[x]) <= Len(mstack) THEN SimsIn(cstack, home'[x]) ELSE 0)
                 = IF x = k THEN Len(Frames) ELSE Env[x]
    <2>1. CASE x = k
      BY <1>1, <1>2, <1>3, <1>4, <2>1
    <2>2. CASE x # k
      BY <1>1, <1>4, <2>2 DEF Env, EnvOf
    <2> QED BY <2>1, <2>2
  <1>6. Env' = [x \in Key |-> IF x = k THEN Len(Frames) ELSE Env[x]]
    BY <1>1, <1>5 DEF Env, EnvOf
  <1>7. DOMAIN Env = Key
    BY DEF Env, EnvOf
  <1> QED BY <1>1, <1>3, <1>6, <1>7 DEF Frames

\* A longjmp cuts the active functions back to the one that called setjmp.
LEMMA JumpSeen ==
  ASSUME CallsInv, CallsInv', NEW k \in Key, PD_longjmp(k)
  PROVE  /\ Env[k] > 0 /\ Frames' = SubSeq(Frames, 1, Env[k])
         /\ Env' = [x \in Key |-> IF Env[x] > Env[k] THEN 0 ELSE Env[x]]
  <1>1. /\ Simulating /\ home[k] \in 1 .. Depth /\ SimFrames(home[k]) \in 1 .. SimFrames(Depth)
        /\ \A i \in home[k] .. Depth : Sim(i)
        /\ mstack' = SubSeq(mstack, 1, SimFrames(home[k]))
        /\ fname' = cstack[home[k]].fn
        /\ UNCHANGED <<cstack, home>>
    BY Jumped
  <1>2. /\ Len(mstack) = SimFrames(Depth) /\ Depth \in Nat /\ SimFrames(Depth) \in 1 .. Depth
        /\ fname = cstack[Depth].fn
    BY <1>1, AtTop
  <1>3. /\ Len(mstack') = SimFrames(home[k])
        /\ \A i \in 1 .. Len(mstack') : i \in 1 .. Len(mstack) /\ mstack'[i] = mstack[i]
    <2>1. mstack \in Seq([fname : Func \cup {None}, pv : [PV \cap SavedPV -> {0, 1}]])
      BY DEF CallsInv, Types, TypeOK
    <2> QED BY <1>1, <1>2, <2>1
  <1>4. \A x \in Key : /\ SimsIn(cstack, home[x]) \in 0 .. Len(mstack)
                       /\ Env[x] = SimsIn(cstack, home[x])
    <2> TAKE x \in Key
    <2>1. SimsIn(cstack, home[x]) \in 0 .. Len(mstack)
      BY <1>2, Homes
    <2> QED BY <2>1 DEF Env, EnvOf
  <1>5. Env[k] = SimFrames(home[k]) /\ Env[k] \in 1 .. Len(mstack) /\ Len(mstack') = Env[k]
    BY <1>1, <1>2, <1>3, <1>4, CountsAre
  <1>6. Env' = [x \in Key |-> IF Env[x] > Env[k] THEN 0 ELSE Env[x]]
    <2>1. ASSUME NEW x \in Key
          PROVE  (IF SimsIn(cstack, home[x]) <= Len(mstack') THEN SimsIn(cstack, home[x]) ELSE 0)
                   = IF Env[x] > Env[k] THEN 0 ELSE Env[x]
      BY <1>2, <1>4, <1>5
    <2> QED BY <1>1, <2>1 DEF Env, EnvOf
  <1>7. \* the function whose activation is followed by that of position n + 1
        Env[k] # Len(mstack) => mstack[Env[k] + 1].fname = cstack[home[k]].fn
    <2> SUFFICES ASSUME Env[k] # Len(mstack) PROVE mstack[Env[k] + 1].fname = cstack[home[k]].fn
      OBVIOUS
    <2>1. home[k] # Depth
      BY <1>2, <1>5
    <2>2. /\ home[k] \in Nat /\ home[k] + 1 \in 1 .. Depth /\ home[k] + 1 \in home[k] .. Depth
          /\ home[k] \in home[k] .. Depth
      BY <1>1, <1>2, <2>1
    <2>3. Sim(home[k]) /\ Sim(home[k] + 1)
      BY <1>1, <2>2
    <2>4. SimFrames(home[k] + 1) = SimFrames(home[k]) + 1
      <3>1. SimsIn(cstack, home[k] + 1) = SimsIn(cstack, home[k]) + 1
        BY <2>2, <2>3, CountSteps DEF Sim
      <3> QED BY <3>1, CountsAre
    <2>5. Live(home[k] + 1)
      <3>1. ~longjmp_executed /\ Depth > 0
        BY <1>1, AtTop
      <3> QED BY <2>2, <2>3, <3>1, AtRest
    <2>6. home[k] < home[k] + 1
      BY <2>2
    <2> QED BY <1>1, <1>5, <2>2, <2>3, <2>4, <2>5, <2>6 DEF CallsInv, Chain
  <1>8. Frames' = SubSeq(Frames, 1, Env[k])
    <2> DEFINE s == SubSeq(Frames, 1, Env[k])
    <2>1. /\ s \in Seq(Func \cup {None}) /\ Len(s) = Env[k]
          /\ \A i \in 1 .. Env[k] : s[i] = Frames[i]
      <3>1. Frames \in Seq(Func \cup {None}) /\ Len(Frames) = Len(mstack) /\ Len(mstack) \in Nat
        BY FramesNow
      <3> QED BY <1>5, <3>1
    <2> HIDE DEF s
    <2>2. ASSUME NEW i \in 1 .. Len(mstack') PROVE Frames'[i] = s[i]
      <3>1. i \in 1 .. Len(mstack) /\ s[i] = Frames[i]
        BY <1>3, <1>5, <2>1
      <3>2. CASE i = Len(mstack')
        <4>1. Frames'[i] = cstack[home[k]].fn
          BY <1>1, <3>2, FramesNext
        <4>2. CASE i = Len(mstack)
          <5>1. home[k] = Depth
            <6>1. /\ home[k] \in Nat /\ home[k] > 0 /\ Depth \in Nat /\ Depth > 0
                  /\ Sim(home[k]) /\ Sim(Depth)
              BY <1>1, <1>2
            <6>2. SimFrames(home[k]) = SimFrames(Depth)
              BY <1>2, <1>3, <3>2, <4>2
            <6> QED BY <6>1, <6>2, Positions
          <5> QED BY <1>2, <3>1, <4>1, <4>2, <5>1, FramesNow
        <4>3. CASE i # Len(mstack)
          BY <1>5, <1>7, <3>1, <3>2, <4>1, <4>3, FramesNow
        <4> QED BY <4>2, <4>3
      <3>3. CASE i # Len(mstack')
        <4>1. i + 1 \in 1 .. Len(mstack') /\ i # Len(mstack)
          BY <1>2, <1>3, <1>5, <3>1, <3>3
        <4> QED BY <1>3, <3>1, <3>3, <4>1, FramesNow, FramesNext
      <3> QED BY <3>2, <3>3
    <2>3. Len(Frames') = Len(mstack') /\ Frames' \in Seq(Func \cup {None})
      BY FramesNext
    <2>4. Frames' = s
      BY <1>5, <2>1, <2>2, <2>3, SeqEqual
    <2> QED BY <2>4 DEF s
  <1> QED BY <1>5, <1>6, <1>8

\* Unwinding the C stack is not seen.
LEMMA UnwindSeen == ASSUME CallsInv, Unwind PROVE UNCHANGED <<Frames, Env>>
  <1>1. /\ UNCHANGED <<mstack, fname, program>> /\ Depth \in Nat /\ Depth > 0 /\ Sim(Depth)
        /\ cstack' = Front(cstack) /\ home' = Forget(Depth - 1) /\ jmpbuf' = SubDepth(jmpbuf)
        /\ longjmp_executed /\ longjmp_depth \in 1 .. MAXDEPTH /\ TypeOK
    BY Unwound
  <1>2. Len(mstack) < SimFrames(Depth) /\ SimFrames(Depth) = SimsIn(cstack, Depth)
    <2>1. Len(mstack) = SimFrames(Depth) - longjmp_depth /\ SimFrames(Depth) \in 0 .. Depth
      BY <1>1, Positions DEF CallsInv, Chain, ToUnwind
    <2>2. SimFrames(Depth) - longjmp_depth < SimFrames(Depth)
      BY <1>1, <2>1, DepthAssumption
    <2> QED BY <2>1, <2>2, CountsAre
  <1>3. Len(mstack) \in Nat
    BY FramesNow
  <1>4. ASSUME NEW k \in Key
        PROVE  (IF SimsIn(cstack', home'[k]) <= Len(mstack) THEN SimsIn(cstack', home'[k]) ELSE 0)
                 = (IF SimsIn(cstack, home[k]) <= Len(mstack) THEN SimsIn(cstack, home[k]) ELSE 0)
    <2>1. home'[k] = IF home[k] > Depth - 1 THEN 0 ELSE home[k]
      BY <1>1 DEF Forget
    <2>2. CASE home[k] > Depth - 1
      <3>1. home[k] = Depth /\ home'[k] = 0
        BY <1>1, <2>1, <2>2, Homes
      <3>2. ~(SimsIn(cstack, home[k]) <= Len(mstack)) /\ SimsIn(cstack', home'[k]) = 0
        <4>1. SimsIn(cstack, Depth) \in 0 .. Depth
          BY <1>1, CountSteps
        <4> QED BY <1>2, <1>3, <3>1, <4>1, CountNone
      <3> QED BY <3>2
    <2>3. CASE home[k] <= Depth - 1 /\ home[k] # 0
      <3>1. home'[k] = home[k] /\ home[k] \in 1 .. (Depth - 1)
        BY <1>1, <2>1, <2>3, Homes
      <3>2. Depth' = Depth - 1
        BY <1>1, LeaveCounts
      <3>3. SimsIn(cstack', home[k]) = SimsIn(cstack, home[k])
        BY <1>1, <3>1, <3>2, LeaveCounts, CountsAre
      <3> QED BY <3>1, <3>3
    <2>4. CASE home[k] = 0
      BY <1>1, <2>1, <2>4, CountNone
    <2> QED BY <1>1, <2>2, <2>3, <2>4, Homes
  <1> QED BY <1>1, <1>4 DEF Frames, Env, EnvOf

\* Neither are native activations that come and go.
LEMMA NativeSeen == ASSUME CallsInv, CallNative \/ NativeReturns PROVE UNCHANGED <<Frames, Env>>
  <1>1. TypeOK
    BY DEF CallsInv, Types
  <1>2. UNCHANGED <<mstack, fname, home>>
    BY DEF CallNative, NativeReturns
  <1>3. ASSUME NEW k \in Key PROVE SimsIn(cstack', home[k]) = SimsIn(cstack, home[k])
    <2>1. CASE CallNative
      <3>1. PICK x : cstack' = Append(cstack, x)
        BY <2>1 DEF CallNative
      <3>2. home[k] \in 0 .. Depth
        BY Homes
      <3> QED BY <1>1, <3>1, <3>2, Pushed, CountsAre
    <2>2. CASE NativeReturns
      <3>1. Depth > 0 /\ ~Sim(Depth) /\ cstack' = Front(cstack) /\ Depth \in Nat
        <4>1. Depth > 1 /\ Top.k = "nat" /\ cstack' = Front(cstack) /\ Depth \in Nat
          BY <1>1, <2>2, StackType DEF NativeReturns, InNative
        <4> QED BY <4>1 DEF Top, Sim
      <3>2. home[k] \in 0 .. (Depth - 1)
        <4>1. home[k] \in 0 .. Depth /\ (home[k] # 0 => Sim(home[k]))
          BY Homes
        <4>2. home[k] # Depth
          BY <3>1, <4>1
        <4> QED BY <3>1, <4>1, <4>2
      <3> QED BY <1>1, <3>1, <3>2, Popped, CountsAre
    <2> QED BY <2>1, <2>2
  <1> QED BY <1>2, <1>3 DEF Frames, Env, EnvOf

\* What a program sees of its activations is what C prescribes: calls, returns,
\* setjmps and longjmps are those of CCalls, and the rest is not seen.
THEOREM ImplementsCAlways == CROSSNATIVE = FALSE /\ Spec => ImplementsC
  <1>1. /\ \A f : C!Call(f) <=> Frames' = Append(Frames, f) /\ UNCHANGED Env
        /\ C!Return <=> Frames # <<>> /\ C!CutTo(Len(Frames) - 1)
        /\ \A k : C!SetJmp(k) <=> /\ Frames # <<>> /\ Env' = [Env EXCEPT ![k] = Len(Frames)]
                                  /\ UNCHANGED Frames
        /\ \A k : C!LongJmp(k) <=> Env[k] > 0 /\ C!CutTo(Env[k])
        /\ UNCHANGED C!cvars <=> UNCHANGED <<Frames, Env>>
    BY DEF C!Call, C!CutTo, C!Return, C!SetJmp, C!LongJmp, C!cvars, Frames, Env, FramesOf, EnvOf,
           SimFrames, SimsIn
  <1>2. Init => C!Init
    <2> SUFFICES ASSUME Init PROVE Frames = <<Main>> /\ Env = [k \in Key |-> 0]
      BY DEF C!Init, Frames, Env, FramesOf, EnvOf, SimFrames, SimsIn
    <2>1. Len(mstack) = 1 /\ fname = Main /\ home = [k \in Key |-> 0]
      BY DEF Init
    <2>2. Frames = <<Main>>
      BY <2>1 DEF Frames, FramesOf
    <2>3. Env = [k \in Key |-> 0]
      BY <2>1, CountNone DEF Env, EnvOf
    <2> QED BY <2>2, <2>3
  <1>3. CallsInv /\ CallsInv' /\ [Next]_vars => [C!Next]_(C!cvars)
    <2> SUFFICES ASSUME CallsInv, CallsInv', [Next]_vars PROVE C!Next \/ UNCHANGED C!cvars
      OBVIOUS
    <2>1. ASSUME NEW f \in Func, Call(f) PROVE C!Next
      <3>1. Enter(f, FALSE) /\ Depth > 0 /\ ~longjmp_executed
        BY <2>1 DEF Call, Simulating
      <3>2. C!Call(f)
        BY <1>1, <3>1, EnterSeen
      <3> QED BY <3>2 DEF C!Next
    <2>2. ASSUME NEW f \in Func, NEW args \in BOOLEAN, CallBack(f, args) PROVE C!Next
      <3>1. Enter(f, args) /\ Depth > 0 /\ Top.k = "nat"
        BY <2>2 DEF CallBack, InNative
      <3>2. ~longjmp_executed
        <4>1. Depth \in Nat
          BY StackType DEF CallsInv, Types
        <4>2. target \in Key /\ home[target] # 0 => Depth \in home[target] .. Depth
          BY <4>1, Homes
        <4> QED BY <3>1, <4>2 DEF CallsInv, UnderWay, Sim, Top
      <3>3. C!Call(f)
        BY <1>1, <3>1, <3>2, EnterSeen
      <3> QED BY <3>3 DEF C!Next
    <2>3. CASE CallNative \/ NativeReturns
      BY <1>1, <2>3, NativeSeen
    <2>4. CASE Return
      <3>1. /\ Frames # <<>> /\ Frames' = SubSeq(Frames, 1, Len(Frames) - 1)
            /\ Env' = [k \in Key |-> IF Env[k] > Len(Frames) - 1 THEN 0 ELSE Env[k]]
        BY <2>4, ReturnSeen
      <3>2. C!CutTo(Len(Frames) - 1)
              <=> /\ Frames' = SubSeq(Frames, 1, Len(Frames) - 1)
                  /\ Env' = [k \in Key |-> IF Env[k] > Len(Frames) - 1 THEN 0 ELSE Env[k]]
        BY DEF C!CutTo, Frames, Env, FramesOf, EnvOf, SimFrames, SimsIn
      <3>3. C!Return
        BY <1>1, <3>1, <3>2
      <3> QED BY <3>3 DEF C!Next
    <2>5. ASSUME NEW i \in PV, WritePV(i) PROVE UNCHANGED C!cvars
      <3>1. UNCHANGED <<cstack, mstack, fname, home>>
        BY <2>5 DEF WritePV
      <3> QED BY <1>1, <3>1 DEF Frames, Env
    <2>6. ASSUME NEW k \in Key, PD_setjmp(k) PROVE C!Next
      <3>1. C!SetJmp(k)
        BY <1>1, <2>6, SetjmpSeen
      <3> QED BY <3>1 DEF C!Next
    <2>7. ASSUME NEW k \in Key, PD_longjmp(k) PROVE C!Next
      <3>1. /\ Env[k] > 0 /\ Frames' = SubSeq(Frames, 1, Env[k])
            /\ Env' = [x \in Key |-> IF Env[x] > Env[k] THEN 0 ELSE Env[x]]
        BY <2>7, JumpSeen
      <3>2. C!CutTo(Env[k])
              <=> /\ Frames' = SubSeq(Frames, 1, Env[k])
                  /\ Env' = [x \in Key |-> IF Env[x] > Env[k] THEN 0 ELSE Env[x]]
        BY DEF C!CutTo, Frames, Env, FramesOf, EnvOf, SimFrames, SimsIn
      <3>3. C!LongJmp(k)
        BY <1>1, <3>1, <3>2
      <3> QED BY <3>3 DEF C!Next
    <2>8. CASE Unwind
      BY <1>1, <2>8, UnwindSeen
    <2>9. CASE Land \/ UNCHANGED vars
      <3>1. UNCHANGED <<cstack, mstack, fname, home>>
        BY <2>9 DEF Land, vars
      <3> QED BY <1>1, <3>1 DEF Frames, Env
    <2> QED BY <2>1, <2>2, <2>3, <2>4, <2>5, <2>6, <2>7, <2>8, <2>9 DEF Next, Unwinding
  <1> QED BY <1>2, <1>3, InvAlways, PTL DEF Spec, ImplementsC, C!Spec
=============================================================================
