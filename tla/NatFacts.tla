------------------------------ MODULE NatFacts ------------------------------
(***************************************************************************)
(* Least and greatest elements of sets of naturals: the facts behind the  *)
(* CHOOSE of every ascending loop over a sorted vector of versions or     *)
(* indices, and of updateDefaultVersion's maximum.                         *)
(***************************************************************************)
EXTENDS Naturals, WellFoundedInduction, TLAPS

(* A nonempty set of naturals has a least element (from the well-founded  *)
(* order < on Nat).                                                        *)
LEMMA NatSetHasLeast ==
  ASSUME NEW S \in SUBSET Nat, S # {}
  PROVE  \E m \in S : \A w \in S : m <= w
<1> DEFINE Less == OpToRel(<, Nat)
<1>1. IsWellFoundedOn(Less, Nat)
  BY NatLessThanWellFounded
<1>2. PICK m \in S : \A w \in S : ~(<<w, m>> \in Less)
  BY <1>1, WFMin, Zenon
<1>3. ASSUME NEW w \in S PROVE m <= w
  <2>1. <<w, m>> \notin Less
    BY <1>2
  <2>2. ~(w < m)
    BY <2>1, Zenon DEF OpToRel
  <2>3. QED
    BY <2>2, SMT
<1>4. QED
  BY <1>3

(* A nonempty set of naturals bounded by n has a greatest element: the    *)
(* least element of its mirror image {n - v}.                              *)
LEMMA BoundedNatSetHasGreatest ==
  ASSUME NEW n \in Nat, NEW S \in SUBSET (0..n), S # {}
  PROVE  \E m \in S : \A w \in S : w <= m
<1> DEFINE T == {n - v : v \in S}
<1>1. T \in SUBSET Nat
  <2>1. ASSUME NEW v \in S PROVE n - v \in Nat
    BY SMT
  <2>2. QED
    BY <2>1
<1>2. T # {}
  OBVIOUS
<1>3. PICK x \in T : \A y \in T : x <= y
  BY <1>1, <1>2, NatSetHasLeast
<1>4. PICK m \in S : x = n - m
  BY <1>3
<1>5. ASSUME NEW w \in S PROVE w <= m
  <2>1. n - w \in T
    OBVIOUS
  <2>2. x <= n - w
    BY <1>3, <2>1
  <2>3. QED
    BY <1>4, <2>2, SMT
<1>6. QED
  BY <1>5
=============================================================================
