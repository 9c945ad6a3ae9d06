------------------------------ MODULE MCFileLock ------------------------------
(* Instances of FileLock for TLC. *)
EXTENDS FileLock, TLC

CONSTANTS p1, p2, p3, h1, h2, i1, i2, i3

OneHost == [p \in Process |-> h1]
TwoHosts == [p \in Process |-> IF p = p3 THEN h2 ELSE h1]
OneEach == [p \in Process |-> IF p = p1 THEN h1 ELSE h2]

=============================================================================
