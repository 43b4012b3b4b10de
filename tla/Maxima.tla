------------------------------- MODULE Maxima -------------------------------
(* Sets of natural numbers have a least member and, if bounded, a largest. *)
EXTENDS Integers, WellFoundedInduction, TLAPS

\* The order of the natural numbers, as a relation, is well founded.
LEMMA NatOrderWellFounded ==
  IsWellFoundedOn({pair \in Nat \X Nat : pair[1] < pair[2]}, Nat)
BY NatLessThanWellFounded DEF OpToRel

\* A non-empty set of numbers up to n has a maximum: n minus the least
\* distance to n.
LEMMA HasMaximum ==
  ASSUME NEW n \in Nat, NEW S \in SUBSET (0..n), S # {}
  PROVE  \E m \in S : \A k \in S : k <= m
<1> DEFINE R == {pair \in Nat \X Nat : pair[1] < pair[2]}
           T == {n - k : k \in S}
<1>1. IsWellFoundedOn(R, Nat)
  BY NatOrderWellFounded
<1>2. T \subseteq Nat /\ T # {}
  <2>1. \A k \in S : n - k \in Nat
    OBVIOUS
  <2>2. PICK k \in S : TRUE
    OBVIOUS
  <2>3. n - k \in T
    OBVIOUS
  <2> QED BY <2>1, <2>3
<1>3. PICK x \in T : \A y \in T : ~(<<y, x>> \in R)
  <2> HIDE DEF R, T
  <2> QED BY <1>1, <1>2, WFMin
<1>4. PICK m \in S : x = n - m
  BY <1>3
<1>5. ASSUME NEW k \in S PROVE k <= m
  <2>1. n - k \in T /\ n - k \in Nat /\ x \in Nat
    BY <1>2, <1>3
  <2>2. ~(n - k < x)
    BY <1>3, <2>1
  <2> QED BY <2>2, <1>4
<1> QED BY <1>5

\* A non-empty set of natural numbers has a least member.
LEMMA HasMinimum ==
  ASSUME NEW S \in SUBSET Nat, S # {}
  PROVE  \E m \in S : \A k \in S : m <= k
<1> DEFINE R == {pair \in Nat \X Nat : pair[1] < pair[2]}
<1>1. IsWellFoundedOn(R, Nat)
  BY NatOrderWellFounded
<1>2. PICK m \in S : \A k \in S : ~(<<k, m>> \in R)
  <2> HIDE DEF R
  <2> QED BY <1>1, WFMin
<1>3. ASSUME NEW k \in S PROVE m <= k
  <2>1. m \in Nat /\ k \in Nat /\ ~(k < m)
    BY <1>2
  <2> QED BY <2>1
<1> QED BY <1>3

=============================================================================
