---------------------------- MODULE StoreMigration ----------------------------
(***************************************************************************)
(* Opening the SQLite store: which formats a build opens, the backup and   *)
(* the migration under the lock file, and the credentials an older build   *)
(* left in its own table.                                                  *)
(*                                                                         *)
(* Rows carry what the migration tells apart.  An id is its place in the   *)
(* order (created_at, id), an address stands for its lower-case form, and  *)
(* a time of oauth_tokens stands for the tokens written then.  No two      *)
(* writes of tokens have one updated_at: of two in one millisecond the     *)
(* code keeps the copy that it has, whichever is the newer.  The lock      *)
(* file is taken as the lock Mutex describes; SQLite commits a transaction *)
(* whole or not at all.                                                    *)
(***************************************************************************)
EXTENDS Integers, FiniteSets, FiniteSetsExt

CONSTANTS Opener,      \* processes of this build that open the store
          MaxWrites    \* bound on the tokens written

ASSUME MigrationAssumption == MaxWrites \in Nat \ {0}

VARIABLES db,          \* the store
          legacy,      \* the store as the first process found it
          copies,      \* files under backups/
          lockedBy,    \* holder of <db>.migration.lock
          opener       \* where each process is in openDb

storeVars == <<db, legacy, copies, lockedBy, opener>>

Current == 2
Rank == 1..2
Address == {"x", "y"}
NoAddress == "none"
Column == {"members", "role", "status", "api_keys", "supplemental", "member_id", "sharing_mode",
           "shared_with_all", "oauth_tokens", "account_credentials"}
NoRows == [x \in {} |-> x]

Supported(format) == format \in 0..Current
RequiresMigration(format) == format < Current
Stored == db.format # 0 \/ db.columns # {}

------------------------------------------------------------------------------
(* migrateToFormatOne, one operator for each part of it. *)

\* Mutant: asked once the missing tables have been made.
AuthenticationOfNewTables(s) ==
  LET made == s.columns \cup (IF "members" \in s.columns THEN {} ELSE {"members", "status"})
  IN  ("members" \in made /\ "status" \notin made) \/ "members" \notin made

LegacyAuthentication(s) ==
  \/ "members" \in s.columns /\ "status" \notin s.columns
  \/ "members" \notin s.columns /\ "api_keys" \in s.columns

\* BOOTSTRAP_SQL makes the tables that are missing, each with all its columns.
Bootstrapped(s) ==
  [s EXCEPT !.columns = @ \cup (IF "members" \in @ THEN {} ELSE {"members", "role", "status"})
     \cup (IF "api_keys" \in @ THEN {} ELSE {"api_keys", "supplemental"})
     \cup {"oauth_tokens", "account_credentials"}]

\* The earliest member of a store without roles becomes its administrator.
WithRoles(s) ==
  IF "role" \in s.columns THEN s
  ELSE [s EXCEPT !.columns = @ \cup {"role"},
          !.members = [m \in DOMAIN @ |->
             [@[m] EXCEPT !.role = IF m = Min(DOMAIN s.members) THEN "admin" ELSE "member"]]]

WithStatuses(s) ==
  IF "status" \in s.columns THEN s
  ELSE [s EXCEPT !.columns = @ \cup {"status"},
          !.members = [m \in DOMAIN @ |-> [@[m] EXCEPT !.status = "pending"]]]

\* A mailbox without an owner is everybody's, unless the store said how it is shared.
WithSharing(s) ==
  IF "shared_with_all" \in s.columns THEN s
  ELSE [s EXCEPT !.columns = (@ \cup {"member_id", "shared_with_all"}) \ {"sharing_mode"},
          !.accounts = [a \in DOMAIN @ |-> [@[a] EXCEPT !.all =
             IF "sharing_mode" \in s.columns THEN s.accounts[a].all ELSE s.accounts[a].owner = 0]]]

\* Keys of administrators, and keys of nobody, keep the management of accounts.
WithAuthority(s) ==
  IF "supplemental" \in s.columns THEN s
  ELSE [s EXCEPT !.columns = @ \cup {"supplemental"},
          !.keys = {[k EXCEPT !.manages = k.of = 0 \/ s.members[k.of].role = "admin"] : k \in @}]

\* Of the members with one address the earliest keeps it.
WithOwnAddresses(s) ==
  [s EXCEPT !.members = [m \in DOMAIN @ |-> [@[m] EXCEPT !.email =
     IF \E w \in DOMAIN s.members : w < m /\ s.members[w].email = s.members[m].email
     THEN NoAddress ELSE s.members[m].email]]]

\* Gmail's account wins, then the earliest.
Wins(s, w, a) ==
  LET rank(x) == IF s.accounts[x].provider = "gmail" THEN 0 ELSE 1
  IN  /\ s.accounts[w].email = s.accounts[a].email
      /\ rank(w) < rank(a) \/ (rank(w) = rank(a) /\ w < a)

WithOneAccountEach(s) ==
  LET kept == {a \in DOMAIN s.accounts : \A w \in DOMAIN s.accounts : ~Wins(s, w, a)}
      Only(f) == [a \in DOMAIN f \cap kept |-> f[a]]
  IN  [s EXCEPT !.accounts = Only(@), !.tokens = Only(@), !.credentials = Only(@)]

FormatOne(s) ==
  LET columned == WithSharing(WithStatuses(WithRoles(Bootstrapped(s))))
      authorised == WithAuthority(columned)
      keyed == IF LegacyAuthentication(s) THEN [authorised EXCEPT !.keys = {}] ELSE authorised
      settled == WithOneAccountEach(WithOwnAddresses(keyed))
  IN  [settled EXCEPT !.format = 1]

FormatTwo(s) == [s EXCEPT !.format = 2]

\* Tokens an older build wrote after the credentials become the credentials.
Synced(s) ==
  [s EXCEPT !.credentials = [a \in DOMAIN @ \cup DOMAIN s.tokens |->
     IF a \notin DOMAIN @ THEN [at |-> s.tokens[a], revision |-> 1]
     ELSE IF a \in DOMAIN s.tokens /\ s.tokens[a] > @[a].at
          THEN [at |-> s.tokens[a], revision |-> @[a].revision + 1] ELSE @[a]]]

\* Mutant: the older build's tokens are taken over by the migration only.
MigratedWithoutSync(s) == IF s.format >= 2 THEN s ELSE Synced(FormatTwo(IF s.format >= 1 THEN s ELSE FormatOne(s)))

Migrated(s) ==
  LET one == IF s.format >= 1 THEN s ELSE FormatOne(s)
      two == IF one.format >= 2 THEN one ELSE FormatTwo(one)
  IN  Synced(two)

------------------------------------------------------------------------------
(* openDb *)

Places(p, place) == opener' = [opener EXCEPT ![p] = place]
Frees(p) == lockedBy' = lockedBy \ {p}
Closes(p) == Places(p, "closed") /\ Frees(p)

\* inspectStoreCompatibility; a store that needs no migration is opened without the lock.
InspectStore(p) ==
  /\ opener[p] = "closed" /\ Supported(db.format)
  /\ Places(p, IF RequiresMigration(db.format) THEN "waits" ELSE "connects")
  /\ UNCHANGED <<db, legacy, copies, lockedBy>>

TakeLock(p) ==
  /\ opener[p] = "waits" /\ lockedBy = {}
  /\ lockedBy' = {p} /\ Places(p, "connects")
  /\ UNCHANGED <<db, legacy, copies>>

TimeOut(p) ==
  /\ opener[p] = "waits" /\ lockedBy # {}
  /\ Places(p, "closed") /\ UNCHANGED <<db, legacy, copies, lockedBy>>

\* The format is read again, now that the lock is held.
Connect(p) ==
  /\ opener[p] = "connects"
  /\ IF Supported(db.format)
     THEN /\ opener' = [opener EXCEPT ![p] = IF RequiresMigration(db.format) /\ Stored
                                                THEN "copies" ELSE "begins"]
          /\ UNCHANGED lockedBy
     ELSE Closes(p)
  /\ UNCHANGED <<db, legacy, copies>>

BackUp(p) ==
  /\ opener[p] = "copies"
  /\ copies' = copies \cup {db}
  /\ Places(p, "begins") /\ UNCHANGED <<db, legacy, lockedBy>>

\* Mutant: the transaction trusts the format read before it.
MigrateUnchecked(p) ==
  /\ opener[p] = "begins" /\ ~db.malformed
  /\ db' = [Migrated(db) EXCEPT !.format = Current] /\ Places(p, "opened") /\ Frees(p)
  /\ UNCHANGED <<legacy, copies>>

\* The transaction takes the write lock first and reads the format once more.
MigrateStore(p) ==
  /\ opener[p] = "begins"
  /\ IF Supported(db.format) /\ ~db.malformed
     THEN db' = Migrated(db) /\ Places(p, "opened") /\ Frees(p)
     ELSE db' = db /\ Closes(p)
  /\ UNCHANGED <<legacy, copies>>

\* The copy or the transaction fails; withFileLock removes the lock file.
OpenFails(p) ==
  /\ opener[p] \in {"copies", "begins"}
  /\ Closes(p) /\ UNCHANGED <<db, legacy, copies>>

CloseStore(p) ==
  /\ opener[p] = "opened"
  /\ Places(p, "closed") /\ UNCHANGED <<db, legacy, copies, lockedBy>>

\* The process dies; the lock it leaves behind is recovered.
OpenerDies(p) ==
  /\ opener[p] \notin {"closed", "opened"}
  /\ Closes(p) /\ UNCHANGED <<db, legacy, copies>>

------------------------------------------------------------------------------
(* What else writes the store. *)

Written == Max({0} \cup {db.tokens[a] : a \in DOMAIN db.tokens}
                   \cup {db.credentials[a].at : a \in DOMAIN db.credentials})

\* A process that has the store open saves an account's new tokens in both tables.
SaveTokens(p) ==
  /\ opener[p] = "opened" /\ Written < MaxWrites
  /\ \E a \in DOMAIN db.tokens :
       db' = [db EXCEPT !.tokens[a] = Written + 1,
                        !.credentials[a] = [at |-> Written + 1, revision |-> @.revision + 1]]
  /\ UNCHANGED <<legacy, copies, lockedBy, opener>>

\* A build from before the formats knows its own table only.
OlderSavesTokens ==
  /\ Written < MaxWrites
  /\ \E a \in DOMAIN db.tokens : db' = [db EXCEPT !.tokens[a] = Written + 1]
  /\ UNCHANGED <<legacy, copies, lockedBy, opener>>

\* A later build migrates the store to a format this one does not know.
NewerMigrates ==
  /\ db.format = Current
  /\ db' = [db EXCEPT !.format = Current + 1]
  /\ UNCHANGED <<legacy, copies, lockedBy, opener>>

------------------------------------------------------------------------------
(* The stores earlier builds left behind: from before members; before roles; before *)
(* logins (authMigration.test.ts); before the authority of keys; and a broken one.   *)

NoStore == [format |-> 0, columns |-> {}, malformed |-> FALSE, members |-> NoRows, accounts |-> NoRows,
            keys |-> {}, tokens |-> NoRows, credentials |-> NoRows]

Columns ==
  { {"api_keys", "oauth_tokens"},
    {"members", "api_keys", "oauth_tokens", "member_id"},
    {"members", "role", "api_keys", "oauth_tokens", "member_id", "sharing_mode"},
    {"members", "role", "status", "api_keys", "oauth_tokens", "account_credentials", "member_id",
     "shared_with_all"} }

\* The second person and the second mailbox share the address of the first, or neither does.
LegacyStore(columns, second, imap) ==
  LET people == IF "members" \in columns THEN Rank ELSE {}
      owner(a) == IF "members" \in columns THEN a - 1 ELSE 0
  IN  [NoStore EXCEPT !.columns = columns,
         !.members = [m \in people |->
            [email |-> IF m = 1 THEN "x" ELSE second,
             role |-> IF "role" \notin columns THEN "none" ELSE IF m = 1 THEN "admin" ELSE "member",
             status |-> IF "status" \in columns THEN "active" ELSE "none"]],
         !.accounts = [a \in Rank |->
            [email |-> IF a = 1 THEN "x" ELSE second, provider |-> IF a \in imap THEN "imap" ELSE "gmail",
             owner |-> owner(a), all |-> "sharing_mode" \in columns /\ a = 2]],
         !.keys = {[of |-> k, manages |-> FALSE] : k \in {0} \cup people},
         !.tokens = [a \in Rank \ imap |-> 1],
         !.credentials = [a \in {b \in imap : "account_credentials" \in columns} |-> [at |-> 1, revision |-> 1]]]

LegacyStores ==
  {LegacyStore(columns, second, {a}) : columns \in Columns, second \in Address, a \in Rank}

Broken == [LegacyStore({"members", "api_keys", "oauth_tokens"}, "y", {}) EXCEPT !.malformed = TRUE]

MigrationInit ==
  /\ db \in LegacyStores \cup {NoStore, Broken}
  /\ legacy = db /\ copies = {} /\ lockedBy = {}
  /\ opener = [p \in Opener |-> "closed"]

MigrationNext ==
  \/ \E p \in Opener : \/ InspectStore(p) \/ TakeLock(p) \/ TimeOut(p) \/ Connect(p) \/ BackUp(p)
                        \/ MigrateStore(p) \/ OpenFails(p) \/ CloseStore(p) \/ OpenerDies(p)
                        \/ SaveTokens(p)
  \/ OlderSavesTokens \/ NewerMigrates

MigrationSpec == MigrationInit /\ [][MigrationNext]_storeVars

------------------------------------------------------------------------------
(* Properties *)

StoreTypeOK ==
  /\ db.format \in 0..Current + 1 /\ db.columns \subseteq Column
  /\ db.members \in [DOMAIN legacy.members ->
        [email : Address \cup {NoAddress}, role : {"none", "admin", "member"}, status : {"none", "pending", "active"}]]
  /\ DOMAIN db.tokens \cup DOMAIN db.credentials \subseteq DOMAIN db.accounts
  /\ \A a \in DOMAIN db.credentials : db.credentials[a] \in [at : 1..MaxWrites, revision : 1..MaxWrites]
  /\ lockedBy \subseteq Opener /\ Cardinality(lockedBy) <= 1
  /\ \A p \in Opener : opener[p] \in {"closed", "waits", "connects", "copies", "begins", "opened"}

Raised == db.format > 0 /\ legacy.format = 0 /\ "status" \in db.columns

\* A store this build migrated kept every mailbox and every person (db.ts:614-791): each
\* address has exactly one account, Gmail's where it had one, an address of a login belongs
\* to one member, the earliest, and where there are members one of them is an administrator.
NothingDropped ==
  Raised =>
    /\ \A a \in DOMAIN legacy.accounts :
         LET same == {b \in DOMAIN db.accounts : db.accounts[b].email = legacy.accounts[a].email}
         IN  /\ Cardinality(same) = 1
             /\ legacy.accounts[a].provider = "gmail" => \A b \in same : db.accounts[b].provider = "gmail"
    /\ \A m \in DOMAIN legacy.members :
         legacy.members[m].email # NoAddress =>
           \E w \in 1..m : {n \in DOMAIN db.members : db.members[n].email = legacy.members[m].email} = {w}
    /\ DOMAIN db.members # {} => \E m \in DOMAIN db.members : db.members[m].role = "admin"

\* Keys from before logins existed do not outlive the migration, whichever process ran it and
\* whatever it had created on the way (db.ts:618, :711); only keys of administrators or of
\* nobody come out of it with the management of accounts, and a mailbox somebody owns is not
\* shared with everybody unless it was.
OldAuthorityEnds ==
  Raised =>
    /\ "status" \notin legacy.columns => db.keys = {}
    /\ \A k \in db.keys : k.manages => k.of = 0 \/ db.members[k.of].role = "admin"
    /\ \A a \in DOMAIN db.accounts :
         db.accounts[a].all => legacy.accounts[a].all \/ db.accounts[a].owner = 0

\* Opening never writes a store in a format this build does not know, however far openDb had
\* come before a later build migrated the store (db.ts:576, :808, :818).  A process that has
\* it open already goes on writing.
NewerStoreIsLeftAlone == [][opener' # opener /\ db' # db => db.format <= Current]_storeVars

\* Before a store's format changes a backup holds its rows as they were, whoever waited for
\* whom and whoever died (db.ts:580, storage.test.ts:352); tokens an older build saves
\* meanwhile are in the store and not in the backup.
BackedUpFirst ==
  [][db'.format # db.format /\ db'.format = Current /\ Stored =>
       \E c \in copies : [c EXCEPT !.tokens = db.tokens, !.credentials = db.credentials] = db]_storeVars

\* Whoever has just opened the store finds for every account the newest tokens any build
\* saved, and credentials that changed carry a new revision (db.ts:600).
NewestCredentials ==
  [][opener' # opener =>
       \A p \in Opener : opener[p] # "opened" /\ opener'[p] = "opened" =>
         \A a \in DOMAIN db'.tokens :
           /\ a \in DOMAIN db'.credentials /\ db'.credentials[a].at >= db'.tokens[a]
           /\ a \in DOMAIN db.credentials =>
                LET was == db.credentials[a]
                    now == db'.credentials[a]
                IN  /\ now.at >= was.at
                    /\ now.revision > was.revision <=> now.at > was.at]_storeVars

\* A migrated store is whole: its rows, who they belong to and what they allow (db.ts:614-791).
RaisedWhole == StoreTypeOK /\ NothingDropped /\ OldAuthorityEnds

\* A format changes only upwards to one this build knows, and never without a backup.
MigratesSafely == NewerStoreIsLeftAlone /\ BackedUpFirst
=============================================================================
