---------------------------- MODULE EncryptionKey ----------------------------
(***************************************************************************)
(* The key file of an instance and what is encrypted with it: processes    *)
(* that find the key or make it when they start (deploymentConfig.ts,      *)
(* context.ts), and `config migrate`, which imports a key, deployment      *)
(* settings and secrets from an old file (configMigration.ts).  They share *)
(* the files and the store but not a lock: keys are made under one file    *)
(* lock, migrations run under another.  Both locks are what FileLock is    *)
(* shown to implement, a Mutex.                                            *)
(***************************************************************************)
CONSTANTS
  Key,
  Server,    \* processes that start, run and store secrets
  Migration, \* runs of config migrate, which may be repeated
  Imports,   \* the key in the file it migrates, or None
  Deploys,   \* migrations of deployment settings, which go to config.toml
  Secrets,   \* migrations of secrets, which go to the store
  Casts,     \* which of them may be there together: sets of servers and migrations
  Restored,  \* the keys of what is in the store at first: of a restored backup, or none
  None,
  KeyFaults  \* what may go wrong: see KeyFaultKind

KeyFaultKind == {"crash", \* a process dies between two steps
              "fail",  \* opening the store, writing to it or to a file or waiting
                       \* too long for a lock throws
              "full"}  \* so does writing the imported key, half way

\* The content of a file that has been created but not yet written.
Torn == "torn"

ASSUME EncryptionKeyAssumption ==
  /\ None \notin Key \cup Server \cup Migration \cup {Torn} /\ Torn \notin Key
  /\ Server \cap Migration = {}
  /\ Imports \in [Migration -> Key \cup {None}]
  /\ Deploys \subseteq Migration /\ Secrets \subseteq Migration
  /\ Casts \subseteq SUBSET (Server \cup Migration)
  /\ Restored \subseteq SUBSET Key
  /\ KeyFaults \subseteq KeyFaultKind

VARIABLES
  keyFile,       \* encryption.key: its content and who made it
  configFile,    \* config.toml: who made it
  stored,        \* the keys that values in the store are encrypted with
  keyLock,       \* the process inside .encryption-key.lock
  migrationLock, \* and inside .config-migration.lock
  place,
  key,           \* per process: the key it found, made or imports
  created,       \* per process: the files it will remove if it fails
  keyExistedBefore \* the migrations that found a key file before they wrote

keyVars == <<keyFile, configFile, stored, keyLock, migrationLock, place, key, created, keyExistedBefore>>

Actor == Server \cup Migration

KeyFile == [content : Key \cup {None, Torn}, by : Actor \cup {None}]
NoKeyFile == [content |-> None, by |-> None]
KeyIs(k, p) == keyFile' = [content |-> k, by |-> p]

KeyLocation == {"absent", "off",
             "read", "wait", "look", "rename", "unlock",       \* resolveEncryptionKey
             "open", "running",                                       \* createContext
             "resolve", "check", "inspect", "put", "fill", "config",  \* migrateConfigurationValues
             "import", "rollConfig", "rollKey", "done"}

KeyInit ==
  /\ keyFile = NoKeyFile
  /\ configFile = None
  /\ stored \in Restored
  /\ keyLock = None /\ migrationLock = None
  /\ \E cast \in Casts : place = [p \in Actor |-> IF p \in cast THEN "off" ELSE "absent"]
  /\ key = [p \in Actor |-> None]
  /\ created = [p \in Actor |-> {}]
  /\ keyExistedBefore = {}

KeyGoto(p, l) == place' = [place EXCEPT ![p] = l]
Throws(p) == KeyGoto(p, IF p \in Server THEN "off" ELSE "rollConfig")
HasKey(p, k) == key' = [key EXCEPT ![p] = k]

-----------------------------------------------------------------------------
(* resolveEncryptionKey, of a process that starts or of a migration. *)

\* A key that nobody has and nothing is encrypted with.
NewKey == Key \ ({keyFile.content} \cup stored \cup {key[p] : p \in Actor}
                   \cup {Imports[m] : m \in Migration})

AfterResolving(p) == IF p \in Server THEN "open" ELSE "import"

Read(p) ==
  /\ place[p] = "read"
  /\ \/ /\ keyFile.content \in Key
        /\ HasKey(p, keyFile.content) /\ KeyGoto(p, AfterResolving(p))
     \/ keyFile.content = Torn /\ Throws(p) /\ UNCHANGED key
     \/ keyFile.content = None /\ KeyGoto(p, "wait") /\ UNCHANGED key
  /\ UNCHANGED <<keyFile, configFile, stored, keyLock, migrationLock, created, keyExistedBefore>>

Lock(p) ==
  /\ place[p] = "wait" /\ keyLock = None
  /\ keyLock' = p
  /\ KeyGoto(p, "look")
  /\ UNCHANGED <<keyFile, configFile, stored, migrationLock, key, created, keyExistedBefore>>

\* Mutant: the file is not looked for again inside the lock.
LookForKeyOnce(p) ==
  /\ place[p] = "look"
  /\ \E k \in NewKey : HasKey(p, k)
  /\ KeyGoto(p, "rename")
  /\ UNCHANGED <<keyFile, configFile, stored, keyLock, migrationLock, created, keyExistedBefore>>

LookForKey(p) ==
  /\ place[p] = "look"
  /\ \/ /\ keyFile.content \in Key
        /\ HasKey(p, keyFile.content) /\ KeyGoto(p, "unlock") /\ UNCHANGED keyLock
     \/ /\ keyFile.content = Torn
        /\ keyLock' = None /\ Throws(p) /\ UNCHANGED key
     \/ /\ keyFile.content = None
        /\ \E k \in NewKey : HasKey(p, k)
        /\ KeyGoto(p, "rename") /\ UNCHANGED keyLock
  /\ UNCHANGED <<keyFile, configFile, stored, migrationLock, created, keyExistedBefore>>

\* The new key, written to another file before, takes the place of any there is.
\* A migration notes that it made the file.
Rename(p) ==
  /\ place[p] = "rename"
  /\ KeyIs(key[p], p)
  /\ created' = IF p \in Migration \ keyExistedBefore
                   THEN [created EXCEPT ![p] = @ \cup {"key"}] ELSE created
  /\ KeyGoto(p, "unlock")
  /\ UNCHANGED <<configFile, stored, keyLock, migrationLock, key, keyExistedBefore>>

\* Mutant: the lock is not released.
KeepLocked(p) ==
  /\ place[p] = "unlock"
  /\ KeyGoto(p, AfterResolving(p))
  /\ UNCHANGED <<keyFile, configFile, stored, keyLock, migrationLock, key, created, keyExistedBefore>>

Unlock(p) ==
  /\ place[p] = "unlock"
  /\ keyLock' = None
  /\ KeyGoto(p, AfterResolving(p))
  /\ UNCHANGED <<keyFile, configFile, stored, migrationLock, key, created, keyExistedBefore>>

-----------------------------------------------------------------------------
(* createContext and the running server. *)

KeyStart(s) ==
  /\ place[s] = "off" /\ KeyGoto(s, "read")
  /\ UNCHANGED <<keyFile, configFile, stored, keyLock, migrationLock, key, created, keyExistedBefore>>

Readable(k) == stored \subseteq {k}

\* Loading the settings throws if one is read that another key encrypts.
KeyOpen(s) ==
  /\ place[s] = "open"
  /\ \/ KeyGoto(s, "running") /\ UNCHANGED key
     \/ ~Readable(key[s]) /\ KeyGoto(s, "off") /\ HasKey(s, None)
  /\ UNCHANGED <<keyFile, configFile, stored, keyLock, migrationLock, created, keyExistedBefore>>

Store(s) ==
  /\ place[s] = "running"
  /\ stored' = stored \cup {key[s]}
  /\ UNCHANGED <<keyFile, configFile, keyLock, migrationLock, place, key, created, keyExistedBefore>>

-----------------------------------------------------------------------------
(* migrateConfigurationFile. *)

KeyBegin(m) ==
  /\ place[m] = "off" /\ migrationLock = None
  /\ migrationLock' = m
  /\ KeyGoto(m, "resolve")
  /\ UNCHANGED <<keyFile, configFile, stored, keyLock, key, created, keyExistedBefore>>

\* The key to come: the imported one, else that of the file, else none.
Resolve(m) ==
  /\ place[m] = "resolve"
  /\ IF Imports[m] = None /\ keyFile.content = Torn
       THEN KeyGoto(m, "done") /\ UNCHANGED key
       ELSE /\ HasKey(m, IF Imports[m] # None THEN Imports[m] ELSE keyFile.content)
            /\ KeyGoto(m, "check")
  /\ UNCHANGED <<keyFile, configFile, stored, keyLock, migrationLock, created, keyExistedBefore>>

Check(m) ==
  /\ place[m] = "check"
  /\ IF \/ m \in Deploys /\ configFile # None
        \/ Imports[m] # None /\ keyFile.content \notin {None, Imports[m]}
       THEN KeyGoto(m, "done") ELSE KeyGoto(m, "inspect")
  /\ UNCHANGED <<keyFile, configFile, stored, keyLock, migrationLock, key, created, keyExistedBefore>>

NoteKey(m) == keyExistedBefore' = IF keyFile.content = None THEN keyExistedBefore
                                  ELSE keyExistedBefore \cup {m}

\* inspectStoreEncryptionKey: the key to come must open all there is.
Inspect(m) ==
  /\ place[m] = "inspect"
  /\ \/ Readable(key[m]) /\ KeyGoto(m, "put") /\ NoteKey(m)
     \/ ~Readable(key[m]) /\ KeyGoto(m, "done") /\ UNCHANGED keyExistedBefore
  /\ UNCHANGED <<keyFile, configFile, stored, keyLock, migrationLock, key, created>>

\* writeFileSync(keyFile, ..., { flag: 'wx' }) creates the file
PutKey(m) ==
  /\ place[m] = "put"
  /\ IF Imports[m] # None /\ keyFile.content = None
       THEN KeyIs(Torn, m) /\ KeyGoto(m, "fill")
       ELSE KeyGoto(m, "config") /\ UNCHANGED keyFile
  /\ UNCHANGED <<configFile, stored, keyLock, migrationLock, key, created, keyExistedBefore>>

\* and then writes to it, in whatever place the file is by now.
FillKey(m) ==
  /\ place[m] = "fill"
  /\ IF keyFile = [content |-> Torn, by |-> m] THEN KeyIs(key[m], m) ELSE UNCHANGED keyFile
  /\ created' = [created EXCEPT ![m] = @ \cup {"key"}]
  /\ KeyGoto(m, "config")
  /\ UNCHANGED <<configFile, stored, keyLock, migrationLock, key, keyExistedBefore>>

AfterConfig(m) == IF m \notin Secrets THEN "done" ELSE IF key[m] = None THEN "read" ELSE "import"

\* config.toml is linked into place whole; that there is one by now is a failure (Fails),
\* as only migrations make it here (`config init` is left out).
PutConfig(m) ==
  /\ place[m] = "config"
  /\ \/ m \notin Deploys /\ KeyGoto(m, AfterConfig(m)) /\ UNCHANGED <<configFile, created>>
     \/ /\ m \in Deploys
        /\ configFile' = m
        /\ created' = [created EXCEPT ![m] = @ \cup {"config"}]
        /\ KeyGoto(m, AfterConfig(m))
  /\ UNCHANGED <<keyFile, stored, keyLock, migrationLock, key, keyExistedBefore>>

\* In one transaction.
Import(m) ==
  /\ place[m] = "import"
  /\ stored' = stored \cup {key[m]}
  /\ KeyGoto(m, "done")
  /\ UNCHANGED <<keyFile, configFile, keyLock, migrationLock, key, created, keyExistedBefore>>

RollConfig(m) ==
  /\ place[m] = "rollConfig"
  /\ configFile' = IF "config" \in created[m] THEN None ELSE configFile
  /\ KeyGoto(m, "rollKey")
  /\ UNCHANGED <<keyFile, stored, keyLock, migrationLock, key, created, keyExistedBefore>>

\* Mutant: the key file is removed whoever made it.
RollAnyKey(m) ==
  /\ place[m] = "rollKey"
  /\ keyFile' = NoKeyFile
  /\ KeyGoto(m, "done")
  /\ UNCHANGED <<configFile, stored, keyLock, migrationLock, key, created, keyExistedBefore>>

RollKey(m) ==
  /\ place[m] = "rollKey"
  /\ keyFile' = IF "key" \in created[m] THEN NoKeyFile ELSE keyFile
  /\ KeyGoto(m, "done")
  /\ UNCHANGED <<configFile, stored, keyLock, migrationLock, key, created, keyExistedBefore>>

FinishMigration(m) ==
  /\ place[m] = "done"
  /\ migrationLock' = None
  /\ HasKey(m, None) /\ created' = [created EXCEPT ![m] = {}]
  /\ KeyGoto(m, "off")
  /\ keyExistedBefore' = keyExistedBefore \ {m}
  /\ UNCHANGED <<keyFile, configFile, stored, keyLock>>

-----------------------------------------------------------------------------
(* Failures. *)

LocksReleased(lock, p) == IF lock = p THEN None ELSE lock

\* While the lock is waited for or the new key written; in the migration's try block.
Fails(p) ==
  /\ \/ "fail" \in KeyFaults /\ place[p] \in {"wait", "rename", "put", "config", "import"}
     \/ "full" \in KeyFaults /\ place[p] = "fill"
  /\ keyLock' = LocksReleased(keyLock, p)
  /\ key' = IF p \in Server THEN [key EXCEPT ![p] = None] ELSE key
  /\ Throws(p)
  /\ UNCHANGED <<keyFile, configFile, stored, migrationLock, created, keyExistedBefore>>

\* The locks of a process that died are recovered.
KeyCrash(p) ==
  /\ "crash" \in KeyFaults /\ place[p] \notin {"off", "absent"}
  /\ keyLock' = LocksReleased(keyLock, p) /\ migrationLock' = LocksReleased(migrationLock, p)
  /\ HasKey(p, None) /\ created' = [created EXCEPT ![p] = {}]
  /\ KeyGoto(p, "off")
  /\ keyExistedBefore' = keyExistedBefore \ {p}
  /\ UNCHANGED <<keyFile, configFile, stored>>

-----------------------------------------------------------------------------
Resolving(p) == Read(p) \/ Lock(p) \/ LookForKey(p) \/ Rename(p) \/ Unlock(p)

MigrationStep(m) == \/ Resolve(m) \/ Check(m) \/ Inspect(m)
                    \/ PutKey(m) \/ FillKey(m) \/ PutConfig(m) \/ Import(m)
                    \/ RollConfig(m) \/ RollKey(m) \/ FinishMigration(m)

KeyNext == \/ \E s \in Server : KeyStart(s) \/ KeyOpen(s) \/ Store(s)
        \/ \E m \in Migration : KeyBegin(m) \/ MigrationStep(m)
        \/ \E p \in Actor : Resolving(p) \/ Fails(p) \/ KeyCrash(p)

KeySpec == KeyInit /\ [][KeyNext]_keyVars

ServersOnly == \A m \in Migration : place[m] = "absent"
MigrationsOnly == \A s \in Server : place[s] = "absent"

\* A supervisor starts servers again; what runs gets on.
KeyFairness ==
  /\ \A s \in Server : WF_keyVars(KeyStart(s)) /\ WF_keyVars(KeyOpen(s))
  /\ \A m \in Migration : WF_keyVars(MigrationStep(m))
  /\ \A p \in Actor : WF_keyVars(Resolving(p))

KeyFairSpec == KeySpec /\ KeyFairness

-----------------------------------------------------------------------------
(* Properties. *)

KeyTypeOK ==
  /\ keyFile \in KeyFile
  /\ configFile \in Migration \cup {None}
  /\ stored \subseteq Key
  /\ keyLock \in Actor \cup {None} /\ migrationLock \in Migration \cup {None}
  /\ place \in [Actor -> KeyLocation]
  /\ key \in [Actor -> Key \cup {None}]
  /\ created \in [Actor -> SUBSET {"key", "config"}]
  /\ keyExistedBefore \subseteq Migration

\* Whatever has been encrypted can be decrypted, also after several servers made a
\* key at once and some of them died: a store that can be read stays readable.  Only a
\* migration that fails takes its key away from a store restored without one.
TakesBack(m) == place[m] = "rollKey" /\ keyFile.by = m

StoreStaysReadable ==
  [][(ServersOnly \/ MigrationsOnly) /\ (\A m \in Migration : ~TakesBack(m)) =>
       (Readable(keyFile.content) => Readable(keyFile.content)')]_keyVars

\* No server runs with a key that is not the one in the file.
ServersAgree ==
  ServersOnly => \A s \in Server : place[s] \in {"open", "running"} => key[s] = keyFile.content

\* No migration puts a key in place of the one that a restored store came without.
KeyOpensStore ==
  MigrationsOnly /\ keyFile.content \in Key => Readable(keyFile.content)

\* A migration that fails takes back both files, so that it can be repeated.  Only a
\* key file that could not be written to its end stays.
FailureLeavesNothing ==
  [][MigrationsOnly => \A m \in Migration : RollKey(m) =>
       /\ m \in Deploys => configFile = None
       /\ keyFile'.content \in {None, Torn} \/ m \in keyExistedBefore]_keyVars

\* But no migration removes or replaces the config.toml of an earlier one.
ConfigIsKept ==
  [][configFile # None => \/ configFile' = configFile
                          \/ configFile' = None /\ place[configFile] = "rollConfig"]_keyVars

\* Once nothing dies or fails any more, every server runs that can read the store.
ServersRun ==
  /\ <>[][\A p \in Actor : ~KeyCrash(p) /\ ~Fails(p)]_keyVars
  /\ <>[](ServersOnly /\ Readable(keyFile.content))
  => <>(\A s \in Server : place[s] \in {"running", "absent"})

\* What migrations do to both files, together: no key that opens the store is replaced or
\* lost, and a migration that fails leaves nothing of its own (configMigration.ts).
FilesStay == []KeyOpensStore /\ StoreStaysReadable /\ FailureLeavesNothing /\ ConfigIsKept
=============================================================================
