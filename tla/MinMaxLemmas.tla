---------------------------- MODULE MinMaxLemmas ----------------------------
(* The least and the greatest element of a set of naturals exist: what      *)
(* SelectInSeq and SelectLastInSeq of the community modules rest on.        *)
EXTENDS Integers, FiniteSetsExt, TLAPS, WellFoundedInduction

\* A non-empty set of naturals has a least element.
LEMMA MinIn ==
    ASSUME NEW S \in SUBSET Nat, S # {}
    PROVE  Min(S) \in S /\ \A y \in S : Min(S) <= y
  <1>1. PICK x \in S : \A y \in S : ~(<<y, x>> \in OpToRel(<, Nat))
    BY NatLessThanWellFounded, WFMin
  <1>2. ASSUME NEW y \in S, y < x
        PROVE  <<y, x>> \in OpToRel(<, Nat)
    <2>1. <<y, x>> \in Nat \X Nat /\ <<y, x>>[1] < <<y, x>>[2]
      BY <1>2
    <2>2. QED
      BY <2>1 DEF OpToRel
  <1>3. ASSUME NEW y \in S
        PROVE  x <= y
    <2>1. ~(y < x)
      BY <1>1, <1>2, Zenon
    <2>2. x \in Nat /\ y \in Nat
      OBVIOUS
    <2>3. QED
      BY <2>1, <2>2
  <1>4. QED
    BY <1>3 DEF Min

\* So has a non-empty bounded one a greatest.
LEMMA MaxIn ==
    ASSUME NEW n \in Nat, NEW S \in SUBSET (1..n), S # {}
    PROVE  Max(S) \in S /\ \A y \in S : y <= Max(S)
  <1> DEFINE T == {n - x : x \in S}
  <1>1. T \in SUBSET Nat /\ T # {}
    <2>1. \A x \in S : x \in 1..n
      OBVIOUS
    <2>2. \A x \in 1..n : n - x \in Nat
      OBVIOUS
    <2>3. QED
      BY <2>1, <2>2
  <1>2. Min(T) \in T /\ \A y \in T : Min(T) <= y
    <2> HIDE DEF T
    <2>1. QED
      BY <1>1, MinIn
  <1>3. PICK x \in S : Min(T) = n - x
    BY <1>2
  <1>4. ASSUME NEW y \in S
        PROVE  y <= x
    <2>1. n - y \in T
      OBVIOUS
    <2>2. n - x <= n - y
      BY <1>2, <1>3, <2>1
    <2>3. x \in 1..n /\ y \in 1..n
      OBVIOUS
    <2>4. QED
      BY <2>2, <2>3
  <1>5. \A y \in S : x >= y
    <2>1. \A y \in S : y \in Int /\ x \in Int
      OBVIOUS
    <2>2. QED
      BY <1>4, <2>1
  <1>6. Max(S) \in S /\ \A y \in S : Max(S) >= y
    BY <1>5 DEF Max
  <1>7. QED
    BY <1>6
=============================================================================
