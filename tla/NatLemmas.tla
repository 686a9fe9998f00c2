------------------------------ MODULE NatLemmas ------------------------------
(***************************************************************************)
(* Arithmetic the proofs of several components need: the least and the     *)
(* greatest element of a set of natural numbers, which stand in for        *)
(* induction, and the remainder by a divisor that is not a numeral.        *)
(***************************************************************************)
EXTENDS Integers, FiniteSets, FiniteSetTheorems, WellFoundedInduction, TLAPS

(* A nonempty set of natural numbers has a least element.                  *)
LEMMA NatMin ==
  ASSUME NEW T \in SUBSET Nat, T # {}
  PROVE  \E x \in T : \A y \in T : x <= y
<1>1. PICK x \in T : \A y \in T : ~ (<<y, x>> \in OpToRel(<, Nat))
  BY WFMin, NatLessThanWellFounded, Zenon
<1>2. \A y \in T : x <= y
  <2>. TAKE y \in T
  <2>1. x \in Nat /\ y \in Nat
    OBVIOUS
  <2>2. y < x => <<y, x>> \in OpToRel(<, Nat)
    BY <2>1, Zenon DEF OpToRel
  <2>3. ~ (y < x)
    BY <1>1, <2>2, Zenon
  <2>. QED
    BY <2>1, <2>3
<1>. QED
  BY <1>2

(* A nonempty set of natural numbers up to n has a greatest element.       *)
LEMMA NatMax ==
  ASSUME NEW n \in Nat, NEW T \in SUBSET (0 .. n), T # {}
  PROVE  \E x \in T : \A y \in T : y <= x
<1>. DEFINE U == {u \in 0 .. n : n - u \in T}
<1>1. U \in SUBSET Nat
  OBVIOUS
<1>2. U # {}
  <2>1. PICK t \in T : TRUE
    OBVIOUS
  <2>2. n - t \in U
    BY <2>1
  <2>. QED
    BY <2>2
<1>3. PICK u \in U : \A y \in U : u <= y
  BY <1>1, <1>2, NatMin
<1>4. \A y \in T : n - y \in U
  OBVIOUS
<1>5. \A y \in T : y <= n - u
  <2>. TAKE y \in T
  <2>1. u <= n - y
    BY <1>3, <1>4
  <2>2. u \in 0 .. n /\ y \in 0 .. n
    OBVIOUS
  <2>. HIDE DEF U
  <2>. QED
    BY <2>1, <2>2
<1>. QED
  BY <1>5

=============================================================================
