-------------------------------- MODULE Sums --------------------------------
(***************************************************************************)
(* Sums over a finite set, such as $total of consumer_group.php, which     *)
(* adds up the counts of the children.  The induction is the least number  *)
(* principle: the library states it of a set of numbers.                   *)
(***************************************************************************)
EXTENDS Integers, FiniteSets, Functions, FiniteSetTheorems, WellFoundedInduction, TLAPS

\* The element that the fold takes out of a set.
Pick(s) == CHOOSE x \in s : TRUE

\* One unfolding of the fold over S.
Unfold(g, f, S) == [s \in SUBSET S |-> IF s = {} THEN 0 ELSE f[Pick(s)] + g[s \ {Pick(s)}]]

\* The fold is a function that one more unfolding does not change.
LEMMA SumUnfolds ==
    ASSUME NEW f, NEW S
    PROVE  FoldFunctionOnSet(+, 0, f, S) = (CHOOSE g : g = Unfold(g, f, S))[S]
BY Zenon DEF FoldFunctionOnSet, MapThenFoldSet, Unfold, Pick

\* A set of natural numbers has a least one.
LEMMA LeastNumber ==
    ASSUME NEW T \in SUBSET Nat, T # {}
    PROVE  \E x \in T : \A y \in T : x <= y
<1>1. PICK x \in T : \A y \in T : ~(<<y, x>> \in OpToRel(<, Nat))
  BY NatLessThanWellFounded, WFMin, Zenon
<1>2. ASSUME NEW y \in Nat, y < x
      PROVE  <<y, x>> \in OpToRel(<, Nat)
  <2>1. <<y, x>> \in {ss \in Nat \X Nat : ss[1] < ss[2]}
    BY <1>2
  <2>2. QED
    BY <2>1, Zenon DEF OpToRel
<1>3. \A y \in T : ~(y < x)
  BY <1>1, <1>2, Zenon
<1>4. QED
  BY <1>3

\* Without the element that is taken out, a set is smaller.
LEMMA PickLess ==
    ASSUME NEW S, IsFiniteSet(S), NEW s \in SUBSET S, s # {}
    PROVE  /\ Pick(s) \in s /\ Pick(s) \in S /\ s \ {Pick(s)} \in SUBSET S
           /\ Cardinality(s) \in Nat /\ Cardinality(s \ {Pick(s)}) = Cardinality(s) - 1
           /\ Cardinality(s) > 0
<1>1. Pick(s) \in s
  BY Zenon DEF Pick
<1>2. IsFiniteSet(s)
  BY FS_Subset
<1>3. Cardinality(s) \in Nat /\ Cardinality(s) # 0
  BY <1>2, FS_CardinalityType, FS_EmptySet
<1>4. Cardinality(s \ {Pick(s)}) = Cardinality(s) - 1
  BY <1>1, <1>2, FS_RemoveElement
<1>5. QED
  BY <1>1, <1>3, <1>4

\* A function that one more unfolding does not change exists: the n-th
\* unfolding is right for the sets of at most n elements.
LEMMA SumExists ==
    ASSUME NEW S, IsFiniteSet(S), NEW f, \A x \in S : f[x] \in Nat
    PROVE  \E g : g = Unfold(g, f, S)
<1> DEFINE Right(g, n) == /\ g \in [SUBSET S -> Nat]
                          /\ \A s \in SUBSET S : Cardinality(s) <= n => g[s] = Unfold(g, f, S)[s]
           T == {n \in Nat : ~\E g : Right(g, n)}
<1>1. \A n \in Nat : \E g : Right(g, n)
  <2> SUFFICES ASSUME T # {}
               PROVE  FALSE
    OBVIOUS
  <2>1. PICK n \in T : \A m \in T : n <= m
    BY LeastNumber
  <2>2. CASE n = 0
    <3> DEFINE g == [s \in SUBSET S |-> 0]
    <3>1. g \in [SUBSET S -> Nat]
      OBVIOUS
    <3>2. ASSUME NEW s \in SUBSET S, Cardinality(s) <= 0
          PROVE  g[s] = Unfold(g, f, S)[s]
      <4>1. s = {}
        <5>1. s # {} => Cardinality(s) \in Nat /\ Cardinality(s) > 0
          BY PickLess
        <5>2. QED
          BY <3>2, <5>1
      <4>2. QED
        BY <4>1 DEF Unfold
    <3>3. Right(g, 0)
      BY <3>1, <3>2
    <3>4. QED
      BY <2>1, <2>2, <3>3
  <2>3. CASE n # 0
    <3>1. n \in Nat /\ n - 1 \in Nat /\ n - 1 \notin T
      <4>1. n \in Nat /\ n - 1 \in Nat /\ ~(n <= n - 1)
        BY <2>3
      <4> HIDE DEF T
      <4>2. QED
        BY <2>1, <4>1
    <3>2. PICK g : Right(g, n - 1)
      BY <3>1
    <3> DEFINE h == Unfold(g, f, S)
    <3>3. h \in [SUBSET S -> Nat]
      <4>1. ASSUME NEW s \in SUBSET S, s # {}
            PROVE  f[Pick(s)] + g[s \ {Pick(s)}] \in Nat
        <5>1. f[Pick(s)] \in Nat /\ g[s \ {Pick(s)}] \in Nat
          BY <3>2, <4>1, PickLess
        <5>2. QED
          BY <5>1
      <4>2. QED
        BY <4>1 DEF Unfold
    <3>4. ASSUME NEW s \in SUBSET S, Cardinality(s) <= n
          PROVE  h[s] = Unfold(h, f, S)[s]
      <4>1. CASE s = {}
        BY <4>1 DEF Unfold
      <4>2. CASE s # {}
        <5>1. s \ {Pick(s)} \in SUBSET S /\ Cardinality(s \ {Pick(s)}) <= n - 1
          BY <3>1, <3>4, <4>2, PickLess
        <5>2. g[s \ {Pick(s)}] = h[s \ {Pick(s)}]
          BY <3>2, <5>1
        <5>3. h[s] = f[Pick(s)] + g[s \ {Pick(s)}]
          BY <4>2 DEF Unfold
        <5>4. Unfold(h, f, S)[s] = f[Pick(s)] + h[s \ {Pick(s)}]
          BY <4>2 DEF Unfold
        <5>5. QED
          BY <5>2, <5>3, <5>4
      <4>3. QED
        BY <4>1, <4>2
    <3>5. Right(h, n)
      BY <3>3, <3>4
    <3>6. QED
      BY <2>1, <3>5
  <2>4. QED
    BY <2>2, <2>3
<1>2. Cardinality(S) \in Nat /\ \A s \in SUBSET S : Cardinality(s) <= Cardinality(S)
  BY FS_Subset, FS_CardinalityType
<1>3. PICK g : Right(g, Cardinality(S))
  BY <1>1, <1>2
<1>4. \A s \in SUBSET S : g[s] = Unfold(g, f, S)[s]
  BY <1>2, <1>3
<1>5. g = Unfold(g, f, S)
  BY <1>3, <1>4 DEF Unfold
<1>6. QED
  BY <1>5

\* The sum of numbers is a number, and larger for larger summands.
LEMMA SumMonotone ==
    ASSUME NEW S, IsFiniteSet(S), NEW f, NEW h,
           \A x \in S : f[x] \in Nat /\ h[x] \in Nat /\ f[x] <= h[x]
    PROVE  /\ FoldFunctionOnSet(+, 0, f, S) \in Nat /\ FoldFunctionOnSet(+, 0, h, S) \in Nat
           /\ FoldFunctionOnSet(+, 0, f, S) <= FoldFunctionOnSet(+, 0, h, S)
<1> DEFINE a == CHOOSE g : g = Unfold(g, f, S)
           b == CHOOSE g : g = Unfold(g, h, S)
           Less(s) == a[s] \in Nat /\ b[s] \in Nat /\ a[s] <= b[s]
           Bad == {s \in SUBSET S : ~Less(s)}
           T == {Cardinality(s) : s \in Bad}
<1>1. a = Unfold(a, f, S)
  BY SumExists, Zenon
<1>2. b = Unfold(b, h, S)
  BY SumExists, Zenon
<1> HIDE DEF a, b
<1>3. Less({})
  <2>1. {} \in SUBSET S
    OBVIOUS
  <2>2. Unfold(a, f, S)[{}] = 0 /\ Unfold(b, h, S)[{}] = 0
    BY <2>1 DEF Unfold
  <2>3. a[{}] = 0 /\ b[{}] = 0
    BY <1>1, <1>2, <2>2, Zenon
  <2>4. QED
    BY <2>3
<1>4. ASSUME NEW s \in SUBSET S, s # {}, Less(s \ {Pick(s)})
      PROVE  Less(s)
  <2> DEFINE x == Pick(s)
             r == s \ {Pick(s)}
  <2>1. f[x] \in Nat /\ h[x] \in Nat /\ f[x] <= h[x]
    BY <1>4, PickLess
  <2>2. Unfold(a, f, S)[s] = f[x] + a[r] /\ Unfold(b, h, S)[s] = h[x] + b[r]
    BY <1>4 DEF Unfold
  <2>3. a[s] = f[x] + a[r] /\ b[s] = h[x] + b[r]
    BY <1>1, <1>2, <2>2, Zenon
  <2> HIDE DEF x, r
  <2>4. a[r] \in Nat /\ b[r] \in Nat /\ a[r] <= b[r]
    BY <1>4 DEF r
  <2>5. QED
    BY <2>1, <2>3, <2>4
<1>5. Bad = {}
  <2> SUFFICES ASSUME Bad # {}
               PROVE  FALSE
    OBVIOUS
  <2> HIDE DEF Less
  <2>1. T \in SUBSET Nat /\ T # {}
    BY FS_Subset, FS_CardinalityType
  <2>2. PICK n \in T : \A m \in T : n <= m
    BY <2>1, LeastNumber
  <2>3. PICK s \in Bad : n = Cardinality(s)
    BY <2>2
  <2>4. s \in SUBSET S /\ ~Less(s) /\ s # {}
    BY <1>3, <2>3
  <2>5. /\ s \ {Pick(s)} \in SUBSET S /\ n \in Nat
        /\ Cardinality(s \ {Pick(s)}) = n - 1
    BY <2>3, <2>4, PickLess
  <2>6. s \ {Pick(s)} \notin Bad
    BY <2>2, <2>5
  <2>7. QED
    BY <1>4, <2>4, <2>5, <2>6
<1>6. Less(S)
  BY <1>5
<1>7. QED
  BY <1>6, SumUnfolds DEF a, b
=============================================================================
