--------------------------- MODULE MCSendScheduler ---------------------------
(* Instances of SendScheduler for TLC. *)
EXTENDS SendScheduler, TLC

CONSTANTS p1, p2, c1, d1, d2, r1, r2, a1

OneAccount == [d \in Draft |-> a1]
InFirstServer == [c \in Client |-> p1]
InCommand == [c \in Client |-> Null]

SchedSymmetry == Permutations(Schedule)
TimelySymmetry == Permutations(Process) \cup Permutations(Schedule) \cup Permutations(Draft)
ServerSymmetry == Permutations(Process)
=============================================================================
