------------------------------- MODULE MCServer -------------------------------
(* Instances of SendScheduler, ImapMailbox, ImapConnection and StoreMigration for  *)
(* TLC.  They share nothing: which of them a behavior is about, machine says.      *)
EXTENDS MCSendScheduler, ImapMailbox, ImapConnection, StoreMigration

CONSTANTS i1, i2, u1, u2

\* Calls and openers of the store do the same things.
PartsSymmetry == TimelySymmetry \cup Permutations({i1, i2})

VARIABLE machine
serverVars == <<vars, imapVars, connVars, storeVars, machine>>

ServerInit ==
  /\ Init /\ ImapInit /\ ConnInit /\ MigrationInit
  /\ machine \in {"scheduler", "mailbox", "connection", "store"}
  /\ machine # "mailbox" => keepsSent
  /\ machine # "store" => db = NoStore
ServerNext ==
  \/ machine = "scheduler" /\ Next /\ UNCHANGED <<imapVars, connVars, storeVars, machine>>
  \/ machine = "mailbox" /\ ImapNext /\ UNCHANGED <<vars, connVars, storeVars, machine>>
  \/ machine = "connection" /\ ConnNext /\ UNCHANGED <<vars, imapVars, storeVars, machine>>
  \/ machine = "store" /\ MigrationNext /\ UNCHANGED <<vars, imapVars, connVars, machine>>
ServerSpec == ServerInit /\ [][ServerNext]_serverVars

=============================================================================
