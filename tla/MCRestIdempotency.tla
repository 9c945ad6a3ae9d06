-------------------------- MODULE MCRestIdempotency --------------------------
(* Instances of RestIdempotency for TLC. *)
EXTENDS RestIdempotency, TLC

CONSTANTS c1, c2, c3, c4, k1, k2, b1, b2

\* A request and its copy, another request with the same key, and one with its own.
Keys == [c \in Call |-> IF c = c4 THEN k2 ELSE k1]
Bodies == [c \in Call |-> IF c = c3 THEN b2 ELSE b1]
=============================================================================
