---------------------------- MODULE MCSharedStore ----------------------------
(* Instances of SendScheduler, SearchPaging, SearchQuery and Members for TLC.  They    *)
(* share nothing: which of them a behavior is about, machine says.                     *)
EXTENDS MCSendScheduler, SearchPaging, SearchQuery, Members

CONSTANTS b1, b2,
  MaxUnderWay \* bound: requests about members that are under way at a time

\* Every third message is in the second folder.
EveryThird == [m \in 1..Arrived |-> IF m % 3 = 0 THEN 2 ELSE 1]

VARIABLE machine
sharedStoreVars == <<vars, pagingVars, queryVars, membersVars, machine>>

\* Where a behavior is not about a machine, one of its initial states is enough.
SharedStoreInit ==
  /\ Init /\ PagingInit /\ QueryInit /\ MembersInit
  /\ machine \in {"scheduler", "paging", "query", "members"}
  /\ machine # "paging" => server = "gmail" /\ newest = 0
  /\ machine # "members" => \A m \in Member : status[m] = "absent"
UnderWay == {q \in Request : at[q] # "idle"}
SharedStoreNext ==
  \/ machine = "scheduler" /\ Next /\ UNCHANGED <<pagingVars, queryVars, membersVars, machine>>
  \/ machine = "paging" /\ PagingNext /\ UNCHANGED <<vars, queryVars, membersVars, machine>>
  \/ machine = "query" /\ QueryNext /\ UNCHANGED <<vars, pagingVars, membersVars, machine>>
  \/ machine = "members" /\ MembersNext /\ UNCHANGED <<vars, pagingVars, queryVars, machine>>
     /\ Cardinality(UnderWay') <= MaxUnderWay
SharedStoreSpec == SharedStoreInit /\ [][SharedStoreNext]_sharedStoreVars

StoreSymmetry == ServerSymmetry \cup Permutations(Request \ Command)
=============================================================================
