---------------------------- MODULE NaturalBounds ----------------------------
(***************************************************************************)
(* Least and greatest elements, for the proofs about the queues: the       *)
(* rebuilt state of a segmented queue and the copy a reconcile keeps are   *)
(* chosen as minima and maxima.                                            *)
(***************************************************************************)
EXTENDS Integers, FiniteSetsExt, WellFoundedInduction, TLAPS

\* Every non-empty set of naturals has a least element.
LEMMA LeastNatural ==
    ASSUME NEW S \in SUBSET Nat, S # {}
    PROVE  \E m \in S : \A n \in S : m <= n
<1> DEFINE R == OpToRel(<, Nat)
<1>1. PICK m \in S : \A n \in S : ~(<<n, m>> \in R)
  BY NatLessThanWellFounded, WFMin
<1>2. ASSUME NEW n \in S PROVE m <= n
  <2>1. n < m => <<n, m>> \in R
    BY DEF OpToRel
  <2>2. ~(n < m)
    BY <1>1, <2>1
  <2> QED BY <2>2
<1> QED BY <1>2

\* Every non-empty set of integers from -1 to a bound has a greatest element.
LEMMA GreatestBelow ==
    ASSUME NEW b \in Nat, NEW S \in SUBSET (-1 .. b), S # {}
    PROVE  \E m \in S : \A n \in S : m >= n
<1> DEFINE T == {b - n : n \in S}
<1>1. T \in SUBSET Nat /\ T # {}
  OBVIOUS
<1>2. PICK d \in T : \A n \in T : d <= n
  BY <1>1, LeastNatural
<1>3. PICK m \in S : d = b - m
  BY <1>2
<1>4. ASSUME NEW n \in S PROVE m >= n
  <2>1. b - n \in T
    OBVIOUS
  <2>2. b - m <= b - n
    BY <1>2, <1>3, <2>1
  <2> QED BY <2>2
<1> QED BY <1>4

\* What Min and Max return.
LEMMA MinMax ==
    /\ \A S \in SUBSET Nat : S # {} => Min(S) \in S /\ \A n \in S : Min(S) <= n
    /\ \A b \in Nat : \A S \in SUBSET (-1 .. b) :
          S # {} => Max(S) \in S /\ \A n \in S : Max(S) >= n
<1>1. ASSUME NEW S \in SUBSET Nat, S # {}
      PROVE  Min(S) \in S /\ \A n \in S : Min(S) <= n
  BY <1>1, LeastNatural DEF Min
<1>2. ASSUME NEW b \in Nat, NEW S \in SUBSET (-1 .. b), S # {}
      PROVE  Max(S) \in S /\ \A n \in S : Max(S) >= n
  BY <1>2, GreatestBelow DEF Max
<1> QED BY <1>1, <1>2
=============================================================================
