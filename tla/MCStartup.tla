------------------------------ MODULE MCStartup ------------------------------
(* Instances of EncryptionKey, and of SendScheduler once the server runs.  They *)
(* share nothing: which of the two a behavior is about, machine says.           *)
EXTENDS MCSendScheduler, EncryptionKey

CONSTANTS s1, s2, m1, m2, m3, k1, k2, k3, k4

\* m1 and m2 import different keys, m3 none.
DifferentKeys == [m \in Migration |-> IF m = m1 THEN k1 ELSE IF m = m2 THEN k2 ELSE None]

VARIABLE machine
bothVars == <<vars, keyVars, machine>>

\* Where a behavior is about schedules, no server is there to look for a key.
BothInit ==
  /\ Init /\ KeyInit
  /\ machine = IF \A p \in Actor : place[p] = "absent" THEN "schedules" ELSE "keys"
BothNext ==
  \/ machine = "schedules" /\ Next /\ UNCHANGED <<keyVars, machine>>
  \/ machine = "keys" /\ KeyNext /\ UNCHANGED <<vars, machine>>
BothSpec ==
  /\ BothInit /\ [][BothNext]_bothVars
  /\ machine = "schedules" => Fairness
  /\ KeyFairness
=============================================================================
