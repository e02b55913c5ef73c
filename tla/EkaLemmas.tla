----------------------------- MODULE EkaLemmas ------------------------------
(***************************************************************************)
(* Facts about sets of naturals that the proofs about the store and about  *)
(* the transition commands share.                                          *)
(***************************************************************************)
EXTENDS Integers, FiniteSets, FiniteSetTheorems, WellFoundedInduction, TLAPS

\* A finite non-empty set of naturals has a greatest element: among the sets
\* of elements above an element of S, one is minimal for inclusion.
LEMMA GreatestElement ==
  ASSUME NEW S \in SUBSET Nat, IsFiniteSet(S), S # {}
  PROVE  \E n \in S : \A m \in S : m <= n
<1> DEFINE Above(n) == {m \in S : m > n}
<1> DEFINE T == {Above(n) : n \in S}
<1>1. T \subseteq FiniteSubsetsOf(S) /\ T # {}
  <2>1. \A n \in S : Above(n) \in SUBSET S /\ IsFiniteSet(Above(n))
    BY FS_Subset
  <2>2. \A n \in S : Above(n) \in FiniteSubsetsOf(S)
    BY <2>1 DEF FiniteSubsetsOf
  <2> QED  BY <2>2
<1>2. IsWellFoundedOn(StrictSubsetOrdering(S), FiniteSubsetsOf(S))
  BY FS_StrictSubsetOrderingWellFounded
<1>3. PICK U \in T : \A V \in T : ~(<<V, U>> \in StrictSubsetOrdering(S))
  <2> HIDE DEF T
  <2> QED  BY <1>1, <1>2, WFMin
<1>4. PICK n \in S : U = Above(n)
  OBVIOUS
<1>5. ASSUME NEW m \in S, m > n  PROVE FALSE
  <2>1. Above(m) \subseteq Above(n) /\ Above(m) # Above(n)
    <3>1. m \in Above(n) /\ m \notin Above(m)
      BY <1>5
    <3>2. \A k \in S : k > m => k > n
      BY <1>5
    <3> QED  BY <3>1, <3>2
  <2>2. <<Above(m), Above(n)>> \in StrictSubsetOrdering(S)
    BY <2>1 DEF StrictSubsetOrdering
  <2> QED  BY <1>3, <1>4, <2>2
<1> QED  BY <1>5

\* A non-empty set of naturals up to n has a least element: what is missing to
\* n from it has a greatest.
LEMMA LeastElement ==
  ASSUME NEW n \in Nat, NEW S, S \subseteq 1..n, S # {}
  PROVE  \E i \in S : \A j \in S : i <= j
<1> DEFINE T == {n - i : i \in S}
<1>0. \A i \in S : i \in Nat /\ i <= n /\ n - i \in 0..n
  <2> TAKE i \in S
  <2>1. i \in 1..n
    OBVIOUS
  <2> QED  BY <2>1
<1>1. T \subseteq 0..n /\ T \subseteq Nat /\ T # {}
  <2>1. \A k \in T : k \in 0..n
    BY <1>0
  <2>2. PICK i : i \in S
    OBVIOUS
  <2>3. n - i \in T
    BY <2>2
  <2> HIDE DEF T
  <2> QED  BY <2>1, <2>3
<1>2. IsFiniteSet(T)
  <2> HIDE DEF T
  <2>1. IsFiniteSet(0..n)
    BY FS_Interval
  <2> QED  BY <1>1, <2>1, FS_Subset
<1>3. PICK m \in T : \A k \in T : k <= m
  <2> HIDE DEF T
  <2> QED  BY <1>1, <1>2, GreatestElement
<1>4. PICK i \in S : m = n - i
  BY <1>3
<1>5. ASSUME NEW j \in S  PROVE i <= j
  <2>1. n - j \in T
    OBVIOUS
  <2>2. n - j <= m
    BY <1>3, <2>1
  <2> QED  BY <1>0, <1>4, <2>2
<1> QED  BY <1>5
=============================================================================
