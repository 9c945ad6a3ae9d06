----------------------------- MODULE MCProcesses -----------------------------
(* Instances of FileLock and Release for TLC.  They share nothing: which of them a    *)
(* behavior is about, machine says.                                                   *)
EXTENDS MCFileLock, Release

CONSTANTS n1, n2

Word(n) == [numeric |-> FALSE, rank |-> n]
Number(n) == [numeric |-> TRUE, rank |-> n]
\* 1.0.0, 1.1.0-rc, 1.1.0-rc.1, 1.1.0 and 1.2.0
Out == [core |-> 1, pre |-> <<>>]
Versions ==
  {Out, [core |-> 2, pre |-> <<Word(1)>>], [core |-> 2, pre |-> <<Word(1), Number(1)>>],
   [core |-> 2, pre |-> <<>>], [core |-> 3, pre |-> <<>>]}
Order == [v \in Versions |-> IF v.pre = <<>> THEN 3 * v.core ELSE 3 * v.core - 3 + Len(v.pre)]
TwoPackages == <<n1, n2>>
ASSUME VersionsCompare == ComparesByPrecedence

VARIABLE machine
allVars == <<vars, releaseVars, machine>>

AllInit ==
  /\ Init /\ ReleaseInit /\ machine \in {"locks", "release"}
AllNext ==
  \/ machine = "locks" /\ Next /\ UNCHANGED <<releaseVars, machine>>
  \/ machine = "release" /\ ReleaseNext /\ UNCHANGED <<vars, machine>>
AllSpec == AllInit /\ [][AllNext]_allVars /\ (machine = "locks" => Fairness)
=============================================================================
