-------------------------------- MODULE Mutex --------------------------------
(***************************************************************************)
(* What a lock promises: at most one process is in the protected section.  *)
(* A process that dies there leaves it.                                    *)
(***************************************************************************)
CONSTANT Process

VARIABLE holders

Init == holders = {}

Acquire(p) == holders = {} /\ holders' = {p}

Leave(p) == p \in holders /\ holders' = holders \ {p}

Next == \E p \in Process : Acquire(p) \/ Leave(p)

Spec == Init /\ [][Next]_holders
=============================================================================
