------------------------------ MODULE NatLeast ------------------------------
(***************************************************************************)
(* The least-element principle for the naturals, the one form of induction *)
(* the proofs of this project use.  The library's induction theorems take  *)
(* an operator parameter that no installed prover instantiates; this one   *)
(* is stated over a set, and is derived from the well-foundedness of < .   *)
(***************************************************************************)
EXTENDS Naturals, WellFoundedInduction, TLAPS

\* The relation < on the naturals, as a set of pairs.
LessThan == {ss \in Nat \X Nat : ss[1] < ss[2]}

\* The library's relation for < on Nat is LessThan.
LEMMA LessThanIsOpToRel == OpToRel(<, Nat) = LessThan
BY Zenon DEF OpToRel, LessThan

\* Every nonempty set of naturals has a least element.
LEMMA LeastNat ==
  ASSUME NEW T \in SUBSET Nat, T # {}
  PROVE  \E x \in T : \A y \in T : x <= y
<1>1. \E x \in T : \A y \in T : ~(<<y, x>> \in LessThan)
  BY NatLessThanWellFounded, WFMin, LessThanIsOpToRel
<1>2. PICK x \in T : \A y \in T : ~(<<y, x>> \in LessThan)
  BY <1>1
<1>3. \A y \in T : ~(y < x)
  BY <1>2, Zenon DEF LessThan
<1>4. QED
  BY <1>3

=============================================================================
