------------------------------ MODULE OrderLemmas ------------------------------
(***************************************************************************)
(* Min and Max of FiniteSetsExt, for the proofs of the other modules.      *)
(***************************************************************************)
EXTENDS Integers, FiniteSetsExt, WellFoundedInduction, TLAPS

\* A set of naturals with an element has a least one.
LEMMA MinOfNaturals ==
  ASSUME NEW S \in SUBSET Nat, S # {}
  PROVE  Min(S) \in S /\ \A n \in S : Min(S) <= n
<1>1. PICK m \in S : \A n \in S : ~(<<n, m>> \in OpToRel(<, Nat))
  BY NatLessThanWellFounded, WFMin
<1>2. \A n \in S : m <= n
  <2> SUFFICES ASSUME NEW n \in S, n < m PROVE FALSE
    OBVIOUS
  <2>1. OpToRel(<, Nat) = { p \in Nat \X Nat : p[1] < p[2] }
    BY Zenon DEF OpToRel
  <2>2. <<n, m>> \in { p \in Nat \X Nat : p[1] < p[2] }
    OBVIOUS
  <2>3. QED
    BY <1>1, <2>1, <2>2
<1>3. QED
  BY <1>2 DEF Min

LEMMA MaxOfTwo ==
  ASSUME NEW m \in Int, NEW n \in Int
  PROVE  Max({m, n}) = IF m >= n THEN m ELSE n
<1>1. CASE m >= n
  <2>1. \A x \in {m, n} : (\A y \in {m, n} : x >= y) <=> x = m
    BY <1>1
  <2>2. QED
    BY <1>1, <2>1 DEF Max
<1>2. CASE ~(m >= n)
  <2>1. \A x \in {m, n} : (\A y \in {m, n} : x >= y) <=> x = n
    BY <1>2
  <2>2. QED
    BY <1>2, <2>1 DEF Max
<1>3. QED
  BY <1>1, <1>2

================================================================================
