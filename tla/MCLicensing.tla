----------------------------- MODULE MCLicensing -----------------------------
(* Instances of Licensing for TLC. *)
EXTENDS Licensing, TLC

CONSTANTS p1, p2, b1, b2, k1, k2

InServer == [a \in Admin |-> p1]
InCommand == [a \in Admin |-> Null]
OneOfEach == [a \in Admin |-> IF a = b1 THEN p1 ELSE Null]

KeySymmetry == Permutations(Key)
=============================================================================
