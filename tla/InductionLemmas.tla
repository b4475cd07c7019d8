--------------------------- MODULE InductionLemmas ---------------------------
(***************************************************************************)
(* Induction over numbers and finite sets, and the existence of functions  *)
(* defined by recursion over them, stated about sets and functions rather  *)
(* than operators so that a proof can instantiate them.  They are what the *)
(* proofs need to know of the folds of the community modules.              *)
(***************************************************************************)
EXTENDS Naturals, FiniteSetsExt, FiniteSetTheorems, TLAPS

\* A set of natural numbers that is not empty has a least element.
LEMMA LeastNumber ==
  ASSUME NEW T \in SUBSET Nat, T # {}
  PROVE  \E x \in T : \A y \in T : x =< y
<1> DEFINE R == OpToRel(<, Nat)
<1>1. IsWellFoundedOn(R, Nat)
  BY NatLessThanWellFounded
<1>2. \A x, y \in Nat : x < y => <<x, y>> \in R
  BY DEF OpToRel
<1> HIDE DEF R
<1>3. PICK x \in T : \A y \in T : ~(<<y, x>> \in R)
  BY <1>1, WFMin
<1>4. ASSUME NEW y \in T PROVE x =< y
  <2>1. x \in Nat /\ y \in Nat
    OBVIOUS
  <2>2. ~(y < x)
    BY <1>2, <1>3, <2>1, Zenon
  <2> QED BY <2>1, <2>2
<1> QED BY <1>4

\* A set of natural numbers with 0 and the successor of each element is Nat.
LEMMA NumberInduction ==
  ASSUME NEW T \in SUBSET Nat, 0 \in T, \A n \in T : n + 1 \in T
  PROVE  T = Nat
<1> SUFFICES ASSUME T # Nat PROVE FALSE
  OBVIOUS
<1>1. PICK x \in Nat \ T : \A y \in Nat \ T : x =< y
  BY LeastNumber
<1>2. x # 0 /\ x - 1 \in Nat
  BY <1>1
<1>3. x - 1 \in T
  BY <1>1, <1>2
<1>4. x - 1 + 1 = x
  BY <1>1
<1> QED BY <1>1, <1>3, <1>4

\* Max of a set of numbers up to n that is not empty is one of them, and the largest.
LEMMA MaxIsElement ==
  ASSUME NEW n \in Nat, NEW t \in SUBSET (1 .. n), t # {}
  PROVE  Max(t) \in t /\ \A y \in t : y =< Max(t)
<1> DEFINE T == {k \in Nat : \E x \in t : k = n - x}
<1>1. \A x \in t : x \in Nat /\ n - x \in T
  OBVIOUS
<1>2. PICK k \in T : \A j \in T : k =< j
  <2>1. T \in SUBSET Nat /\ T # {}
    BY <1>1
  <2> HIDE DEF T
  <2> QED BY <2>1, LeastNumber
<1>3. PICK x \in t : k = n - x
  BY <1>2
<1>4. \A y \in t : x >= y
  BY <1>1, <1>2, <1>3
<1>5. Max(t) \in t /\ \A y \in t : Max(t) >= y
  BY <1>3, <1>4, Zenon DEF Max
<1> QED BY <1>1, <1>5

\* A family of subsets of a finite set that has the empty set, and every set whose
\* rest without some element it has, has them all.
LEMMA SubsetInduction ==
  ASSUME NEW D, IsFiniteSet(D), NEW G \in SUBSET (SUBSET D), {} \in G,
         \A t \in (SUBSET D) \ {{}} : \E x \in t : t \ {x} \in G => t \in G
  PROVE  G = SUBSET D
<1> DEFINE T == {k \in Nat : \A t \in SUBSET D : Cardinality(t) = k => t \in G}
<1>1. \A t \in SUBSET D : IsFiniteSet(t) /\ Cardinality(t) \in Nat
  BY FS_Subset, FS_CardinalityType
<1>2. 0 \in T
  BY <1>1, FS_EmptySet
<1>3. ASSUME NEW k \in T PROVE k + 1 \in T
  <2>1. SUFFICES ASSUME NEW t \in SUBSET D, Cardinality(t) = k + 1 PROVE t \in G
    BY <1>3
  <2>2. t # {}
    BY <2>1, <1>3, FS_EmptySet
  <2>3. PICK x \in t : t \ {x} \in G => t \in G
    BY <2>2
  <2>4. Cardinality(t \ {x}) = Cardinality(t) - 1
    BY <1>1, FS_RemoveElement
  <2>5. Cardinality(t \ {x}) = k
    BY <1>3, <2>1, <2>4
  <2> QED BY <1>3, <2>3, <2>5
<1>4. T = Nat
  <2> HIDE DEF T
  <2>1. T \in SUBSET Nat
    BY DEF T
  <2> QED BY <1>2, <1>3, <2>1, NumberInduction
<1> QED BY <1>1, <1>4

\* Functions defined by recursion: g at i is base[i] where the recursion stops, and
\* otherwise what F[i] makes of g at next[i].
Recurses(g, I, stop, base, F, next) ==
  \A i \in I : g[i] = IF i \in stop THEN base[i] ELSE F[i][g[next[i]]]

\* Every step of the recursion goes to an index of lower rank.
Descends(I, stop, next, rank) ==
  \A i \in I \ stop : next[i] \in I /\ rank[next[i]] < rank[i]

\* A recursion along descending ranks has a solution.
LEMMA RankedRecursion ==
  ASSUME NEW I, NEW V, NEW K, K \in Nat, NEW rank, rank \in [I -> 0 .. K],
         NEW stop, NEW base, \A i \in I : base[i] \in V,
         NEW F, F \in [I -> [V -> V]], NEW next, Descends(I, stop, next, rank)
  PROVE  \E g \in [I -> V] : Recurses(g, I, stop, base, F, next)
<1> DEFINE Low(k) == {i \in I : rank[i] =< k}
           Value(g, i) == IF i \in stop THEN base[i] ELSE F[i][g[next[i]]]
           Solves(g, S) == \A i \in S : g[i] = Value(g, i)
           T == {k \in Nat : \E g \in [Low(k) -> V] : Solves(g, Low(k))}
<1>1. ASSUME NEW i \in I, i \notin stop
      PROVE  next[i] \in I /\ rank[i] \in Nat /\ rank[next[i]] \in Nat /\ rank[next[i]] < rank[i]
  BY <1>1 DEF Descends
<1>2. 0 \in T
  <2> DEFINE g == [i \in Low(0) |-> base[i]]
  <2>1. \A i \in Low(0) : i \in stop
    BY <1>1
  <2>2. g \in [Low(0) -> V] /\ Solves(g, Low(0))
    BY <2>1
  <2> HIDE DEF g, Low, Solves
  <2> QED BY <2>2
<1>3. ASSUME NEW k \in T PROVE k + 1 \in T
  <2>1. k \in Nat /\ \E g \in [Low(k) -> V] : Solves(g, Low(k))
    BY <1>3
  <2>2. PICK g \in [Low(k) -> V] : Solves(g, Low(k))
    BY <2>1
  <2> DEFINE h == [i \in Low(k + 1) |-> Value(g, i)]
  <2>3. ASSUME NEW i \in Low(k + 1), i \notin stop PROVE next[i] \in Low(k)
    BY <1>1, <2>1, <2>3
  <2>4. Low(k) \subseteq Low(k + 1)
    BY <2>1
  <2>5. h \in [Low(k + 1) -> V]
    <3>1. ASSUME NEW i \in Low(k + 1) PROVE Value(g, i) \in V
      <4>1. CASE i \in stop
        BY <4>1
      <4>2. CASE i \notin stop
        <5>1. g[next[i]] \in V
          <6>1. next[i] \in Low(k)
            BY <2>3, <4>2
          <6> HIDE DEF Low
          <6> QED BY <6>1
        <5>2. F[i] \in [V -> V]
          OBVIOUS
        <5> HIDE DEF Low
        <5> QED BY <4>2, <5>1, <5>2
      <4> QED BY <4>1, <4>2
    <3> HIDE DEF Low, Value
    <3> QED BY <3>1
  <2>6. \A i \in Low(k) : h[i] = g[i]
    <3> HIDE DEF Low, Value
    <3> QED BY <2>2, <2>4 DEF Solves
  <2>7. Solves(h, Low(k + 1))
    <3>1. ASSUME NEW i \in Low(k + 1) PROVE h[i] = Value(h, i)
      <4>1. h[i] = Value(g, i)
        <5> HIDE DEF Low, Value
        <5> QED OBVIOUS
      <4>2. i \notin stop => h[next[i]] = g[next[i]]
        BY <2>3, <2>6
      <4> HIDE DEF h, Low
      <4> QED BY <4>1, <4>2
    <3> HIDE DEF h, Low, Value
    <3> QED BY <3>1
  <2>8. \E f \in [Low(k + 1) -> V] : Solves(f, Low(k + 1))
    <3> HIDE DEF h, Low, Solves
    <3> QED BY <2>5, <2>7
  <2>9. k + 1 \in Nat
    BY <2>1
  <2> HIDE DEF h, Low, Solves
  <2> QED BY <2>8, <2>9
<1>4. K \in T
  <2> HIDE DEF T
  <2>1. T \in SUBSET Nat
    BY DEF T
  <2>2. T = Nat
    BY <1>2, <1>3, <2>1, NumberInduction
  <2> QED BY <2>2
<1>5. Low(K) = I
  OBVIOUS
<1>6. PICK g \in [I -> V] : Solves(g, I)
  <2> HIDE DEF Low, Solves
  <2> QED BY <1>4, <1>5
<1> QED BY <1>6 DEF Recurses

\* A property of the elements of I that each has once all of lower rank have it.
LEMMA RankedInduction ==
  ASSUME NEW I, NEW rank, rank \in [I -> Nat], NEW G, G \in SUBSET I,
         \A i \in I : (\A j \in I : rank[j] < rank[i] => j \in G) => i \in G
  PROVE  G = I
<1> SUFFICES ASSUME G # I PROVE FALSE
  OBVIOUS
<1> DEFINE T == {rank[i] : i \in I \ G}
<1>1. T \in SUBSET Nat /\ T # {}
  OBVIOUS
<1>2. PICK k \in T : \A y \in T : k =< y
  <2> HIDE DEF T
  <2> QED BY <1>1, LeastNumber
<1>3. PICK i \in I \ G : k = rank[i]
  BY <1>2
<1>4. ASSUME NEW j \in I, rank[j] < rank[i] PROVE j \in G
  <2>1. rank[j] \in Nat /\ rank[i] \in Nat
    OBVIOUS
  <2>2. j \notin G => rank[i] =< rank[j]
    BY <1>2, <1>3
  <2> QED BY <1>4, <2>1, <2>2
<1> QED BY <1>3, <1>4

\* Recursion over the subsets of a finite set, as in a fold: the next element is chosen
\* by ch, and F combines it with the value for the rest.
Chooses(ch, D) == \A t \in (SUBSET D) \ {{}} : ch[t] \in t
IsFold(g, D, base, F, ch) ==
  \A t \in SUBSET D : g[t] = IF t = {} THEN base ELSE F[ch[t]][g[t \ {ch[t]}]]

\* Such a recursion has a solution.
LEMMA SubsetRecursion ==
  ASSUME NEW D, IsFiniteSet(D), NEW V, NEW base, base \in V, NEW F, F \in [D -> [V -> V]],
         NEW ch, Chooses(ch, D)
  PROVE  \E g \in [SUBSET D -> V] : IsFold(g, D, base, F, ch)
<1> DEFINE I == SUBSET D
           K == Cardinality(D)
           rank == [t \in I |-> Cardinality(t)]
           stop == {{}}
           bases == [t \in I |-> base]
           Fs == [t \in I |-> IF t = {} THEN [v \in V |-> base] ELSE F[ch[t]]]
           next == [t \in I |-> t \ {ch[t]}]
<1>1. K \in Nat /\ rank \in [I -> 0 .. K]
  <2>1. \A t \in SUBSET D : Cardinality(t) \in 0 .. K
    BY FS_Subset, FS_CardinalityType
  <2> QED BY <2>1, FS_CardinalityType
<1>2. \A t \in I : bases[t] \in V
  OBVIOUS
<1>3. Fs \in [I -> [V -> V]]
  <2>1. ASSUME NEW t \in I, t # {} PROVE F[ch[t]] \in [V -> V]
    BY <2>1 DEF Chooses
  <2>2. [v \in V |-> base] \in [V -> V]
    OBVIOUS
  <2> QED BY <2>1, <2>2
<1>4. Descends(I, stop, next, rank)
  <2>1. SUFFICES ASSUME NEW t \in I, t # {}
                 PROVE  next[t] \in I /\ rank[next[t]] < rank[t]
    BY DEF Descends
  <2>2. ch[t] \in t /\ IsFiniteSet(t) /\ Cardinality(t) \in Nat
    BY <2>1, FS_Subset, FS_CardinalityType DEF Chooses
  <2>3. Cardinality(t \ {ch[t]}) = Cardinality(t) - 1
    BY <2>2, FS_RemoveElement
  <2>4. next[t] = t \ {ch[t]} /\ next[t] \in I
    OBVIOUS
  <2>5. rank[next[t]] = Cardinality(t) - 1 /\ rank[t] = Cardinality(t)
    BY <2>3, <2>4
  <2> QED BY <2>2, <2>4, <2>5
<1>5. PICK g \in [I -> V] : Recurses(g, I, stop, bases, Fs, next)
  <2> HIDE DEF I, K, rank, stop, bases, Fs, next
  <2> QED BY <1>1, <1>2, <1>3, <1>4, RankedRecursion, Zenon
<1>6. IsFold(g, D, base, F, ch)
  BY <1>5 DEF Recurses, IsFold
<1> QED BY <1>5, <1>6
=============================================================================
