---------------------------- MODULE Server_proofs ----------------------------
(***************************************************************************)
(* Theorems about ImapConnection, StoreMigration and EncryptionKey: what a *)
(* provider and the store of a server keep, whatever fails or comes        *)
(* between, and what servers that start together do about their key.       *)
(***************************************************************************)
EXTENDS ImapConnection, StoreMigration, EncryptionKey, FiniteSetTheorems, TLAPS

-----------------------------------------------------------------------------
(* ImapConnection.                                                         *)

ClientState == {"new", "connecting", "connected", "closed"}

\* An attempt that is over left a client that is known or closed, and while another one
\* is wanted the one in use is of no use.
ConnIInv ==
  /\ imap \in ImapClient \cup {0} /\ connectingImap \in ImapClient \cup {0}
  /\ imapConnection \in ImapClient \cup {0}
  /\ clients \in [ImapClient -> ClientState] /\ settled \subseteq ImapClient
  /\ awaits \in [ImapUser -> ImapClient \cup {0}]
  /\ \A j, k \in ImapClient : clients[k] # "new" /\ j < k => clients[j] # "new"
  /\ \A u \in ImapUser : awaits[u] # 0 => awaits[u] \in Begun
  /\ \A k \in settled : clients[k] \in {"connected", "closed"}
  /\ imap # 0 => imap \in settled
  /\ connectingImap # 0 => connectingImap \in Begun /\ ~Usable(imap)
  /\ imapConnection # 0 => imapConnection \in Begun
  /\ NoClientLeaks

LEMMA ClientNumbers == ImapClient \subseteq Nat /\ 0 \notin ImapClient
  BY ConnectionAssumption DEF ImapClient

LEMMA ConnInitInv == ConnInit => ConnIInv
  BY ClientNumbers DEF ConnInit, ConnIInv, ClientState, NoClientLeaks

LEMMA AsksClientStep == ASSUME ConnIInv, NEW u \in ImapUser, AsksClient(u) PROVE ConnIInv'
<1>1. CASE imapConnection # 0
  BY <1>1, ClientNumbers DEF AsksClient, ConnIInv, Begun, Usable, NoClientLeaks
<1>2. CASE imapConnection = 0
  <2>1. PICK k \in ImapClient :
          /\ clients[k] = "new" /\ \A j \in ImapClient : j < k => clients[j] # "new"
          /\ clients' = [clients EXCEPT ![k] = "connecting"]
          /\ connectingImap' = k /\ imapConnection' = k
          /\ awaits' = [awaits EXCEPT ![u] = k]
    BY <1>2 DEF AsksClient
  <2>2. UNCHANGED <<imap, settled>> /\ ~Usable(imap)
    BY DEF AsksClient
  <2>3. clients' \in [ImapClient -> ClientState] /\ clients'[k] = "connecting"
    BY <2>1 DEF ConnIInv, ClientState
  <2>4. \A j \in ImapClient : j # k => clients'[j] = clients[j]
    BY <2>1 DEF ConnIInv
  <2>5. k \notin settled /\ imap # k
    BY <2>1, ClientNumbers DEF ConnIInv
  <2>6. Begun' = Begun \cup {k}
    BY <2>2, <2>3, <2>4, <2>5 DEF Begun
  <2>7. \A i, j \in ImapClient : clients'[j] # "new" /\ i < j => clients'[i] # "new"
    BY <2>1, <2>3, <2>4, ClientNumbers DEF ConnIInv
  <2>8. ~Usable(imap)'
    BY <2>2, <2>4, <2>5 DEF Usable, ConnIInv
  <2>9. awaits' \in [ImapUser -> ImapClient \cup {0}] /\ \A v \in ImapUser : awaits'[v] # 0 => awaits'[v] \in Begun'
    BY <2>1, <2>6 DEF ConnIInv
  <2>10. /\ \A j \in settled' : clients'[j] \in {"connected", "closed"}
         /\ NoClientLeaks'
    BY <2>2, <2>4, <2>5 DEF ConnIInv, NoClientLeaks
  <2> QED
    BY <2>1, <2>2, <2>3, <2>6, <2>7, <2>8, <2>9, <2>10 DEF ConnIInv
<1> QED
  BY <1>1, <1>2

\* The server's answer, or the end of the connection, changes one client.
LEMMA ServerAnswersStep == ASSUME ConnIInv, NEW k \in ImapClient, Accepts(k) \/ Ends(k) PROVE ConnIInv'
<1>1. PICK s \in {"connected", "closed"} :
        /\ clients' = [clients EXCEPT ![k] = s]
        /\ clients[k] = "connecting" \/ (clients[k] = "connected" /\ s = "closed")
  BY DEF Accepts, Ends
<1>2. UNCHANGED <<imap, connectingImap, imapConnection, settled, awaits>>
  BY DEF Accepts, Ends
<1>3. clients' \in [ImapClient -> ClientState] /\ clients'[k] = s /\ \A j \in ImapClient : j # k => clients'[j] = clients[j]
  BY <1>1 DEF ConnIInv, ClientState
<1>4. Begun' = Begun
  BY <1>1, <1>2, <1>3 DEF Begun
<1>5. Usable(imap)' => Usable(imap)
  BY <1>1, <1>2, <1>3 DEF Usable, ConnIInv
<1>6. /\ \A j \in settled' : clients'[j] \in {"connected", "closed"}
      /\ NoClientLeaks'
  BY <1>1, <1>2, <1>3 DEF ConnIInv, NoClientLeaks
<1>7. \A i, j \in ImapClient : clients'[j] # "new" /\ i < j => clients'[i] # "new"
  BY <1>1, <1>3 DEF ConnIInv
<1> QED
  BY <1>2, <1>3, <1>4, <1>5, <1>6, <1>7 DEF ConnIInv

LEMMA SettlesStep == ASSUME ConnIInv, NEW k \in ImapClient, Settles(k) PROVE ConnIInv'
<1>1. /\ k \in Begun /\ clients[k] \in {"connected", "closed"} /\ settled' = settled \cup {k}
      /\ connectingImap' = (IF connectingImap = k THEN 0 ELSE connectingImap) /\ imapConnection' = 0
      /\ awaits' = [u \in ImapUser |-> Hears(u, k)]
  BY DEF Settles, Begun, ConnIInv, ClientState
<1>2. k \notin settled /\ k # 0 /\ imap # k
  BY <1>1, ClientNumbers DEF Begun, ConnIInv
<1>3. /\ clients' \in [ImapClient -> ClientState] /\ clients'[k] \in {"connected", "closed"}
      /\ \A j \in ImapClient : j # k => clients'[j] = clients[j]
      /\ \A j \in ImapClient : clients'[j] = "new" <=> clients[j] = "new"
  BY <1>1 DEF Settles, Begun, ConnIInv, ClientState
<1>4. Begun' = Begun \ {k}
  BY <1>1, <1>3 DEF Begun
<1>5. awaits' \in [ImapUser -> ImapClient \cup {0}] /\ \A u \in ImapUser : awaits'[u] # 0 => awaits'[u] \in Begun'
  BY <1>1, <1>4 DEF ConnIInv, Hears
<1>6. CASE MayTake(k)
  <2>1. imap' = k /\ clients' = clients /\ connectingImap = k
    BY <1>6 DEF Settles, MayTake
  <2>2. ~Usable(imap)
    BY <1>2, <2>1 DEF ConnIInv
  <2>3. NoClientLeaks'
    BY <1>1, <2>1, <2>2, ClientNumbers DEF ConnIInv, NoClientLeaks, Usable
  <2> QED
    BY <1>1, <1>3, <1>4, <1>5, <2>1, <2>3 DEF ConnIInv
<1>7. CASE ~MayTake(k)
  <2>1. imap' = imap /\ clients'[k] = "closed"
    BY <1>7 DEF Settles, ConnIInv
  <2>2. NoClientLeaks'
    BY <1>1, <1>3, <2>1 DEF ConnIInv, NoClientLeaks
  <2>3. Usable(imap)' => Usable(imap)
    BY <1>2, <1>3, <2>1 DEF Usable, ConnIInv
  <2> QED
    BY <1>1, <1>3, <1>4, <1>5, <2>1, <2>2, <2>3 DEF ConnIInv
<1> QED
  BY <1>6, <1>7

LEMMA CloseProviderStep == ASSUME ConnIInv, CloseProvider PROVE ConnIInv'
<1>1. /\ clients' = [k \in ImapClient |-> IF k \in {imap, connectingImap} THEN "closed" ELSE clients[k]]
      /\ imap' = 0 /\ connectingImap' = 0 /\ imapConnection' = 0
      /\ UNCHANGED <<settled, awaits>>
  BY DEF CloseProvider
<1>2. \A k \in {imap, connectingImap} : k # 0 => clients[k] # "new"
  BY DEF ConnIInv, Begun
<1>3. \A k \in ImapClient : clients'[k] = "new" <=> clients[k] = "new"
  BY <1>1, <1>2, ClientNumbers
<1>4. Begun' = Begun
  BY <1>1, <1>3 DEF Begun
<1>5. clients' \in [ImapClient -> ClientState]
  BY <1>1 DEF ConnIInv, ClientState
<1>6. NoClientLeaks' /\ \A k \in settled' : clients'[k] \in {"connected", "closed"}
  BY <1>1 DEF ConnIInv, NoClientLeaks
<1> QED
  BY <1>1, <1>3, <1>4, <1>5, <1>6 DEF ConnIInv

LEMMA ConnInvariance == ConnSpec => []ConnIInv
<1>1. ConnIInv /\ [ConnNext]_connVars => ConnIInv'
  <2> SUFFICES ASSUME ConnIInv, [ConnNext]_connVars PROVE ConnIInv'
    OBVIOUS
  <2>1. CASE UNCHANGED connVars
    BY <2>1 DEF connVars, ConnIInv, Begun, Usable, NoClientLeaks
  <2>2. CASE ConnNext
    BY <2>2, AsksClientStep, ServerAnswersStep, SettlesStep, CloseProviderStep DEF ConnNext
  <2> QED
    BY <2>1, <2>2
<1> QED
  BY <1>1, ConnInitInv, PTL DEF ConnSpec

\* Whatever callers ask for, however often the provider is closed while a client connects,
\* and however late an attempt ends: no client stays logged in behind the provider's back
\* (client, close), and nobody waits for an attempt that is over.
THEOREM OneClientIsKnown == ConnSpec => []OneKnownClient
<1>1. ConnIInv => OneKnownClient
  BY DEF ConnIInv, OneKnownClient, ConnTypeOK
<1> QED
  BY <1>1, ConnInvariance, PTL

------------------------------------------------------------------------------
(* StoreMigration: opening and migrating the store. *)

\* A store has the parts NoStore has.
IsStore(s) ==
  s = [format |-> s.format, columns |-> s.columns, malformed |-> s.malformed, members |-> s.members,
       accounts |-> s.accounts, keys |-> s.keys, tokens |-> s.tokens, credentials |-> s.credentials]

SameTokens(s, t) == s.tokens = t.tokens /\ s.credentials = t.credentials

LEMMA BootstrappedKeeps ==
  ASSUME NEW s, IsStore(s)
  PROVE  IsStore(Bootstrapped(s)) /\ SameTokens(Bootstrapped(s), s)
BY DEF IsStore, SameTokens, Bootstrapped

LEMMA WithRolesKeeps ==
  ASSUME NEW s, IsStore(s)
  PROVE  IsStore(WithRoles(s)) /\ SameTokens(WithRoles(s), s)
BY DEF IsStore, SameTokens, WithRoles

LEMMA WithStatusesKeeps ==
  ASSUME NEW s, IsStore(s)
  PROVE  IsStore(WithStatuses(s)) /\ SameTokens(WithStatuses(s), s)
BY DEF IsStore, SameTokens, WithStatuses

LEMMA WithSharingKeeps ==
  ASSUME NEW s, IsStore(s)
  PROVE  IsStore(WithSharing(s)) /\ SameTokens(WithSharing(s), s)
BY DEF IsStore, SameTokens, WithSharing

LEMMA WithAuthorityKeeps ==
  ASSUME NEW s, IsStore(s)
  PROVE  IsStore(WithAuthority(s)) /\ SameTokens(WithAuthority(s), s)
BY DEF IsStore, SameTokens, WithAuthority

LEMMA WithOwnAddressesKeeps ==
  ASSUME NEW s, IsStore(s)
  PROVE  IsStore(WithOwnAddresses(s)) /\ SameTokens(WithOwnAddresses(s), s)
BY DEF IsStore, SameTokens, WithOwnAddresses

Restricted(f, kept) == [a \in DOMAIN f \cap kept |-> f[a]]

LEMMA WithOneAccountEachKeeps ==
  ASSUME NEW s, IsStore(s)
  PROVE  /\ IsStore(WithOneAccountEach(s))
         /\ \E kept : /\ WithOneAccountEach(s).tokens = Restricted(s.tokens, kept)
                      /\ WithOneAccountEach(s).credentials = Restricted(s.credentials, kept)
<1> DEFINE kept == {a \in DOMAIN s.accounts : \A w \in DOMAIN s.accounts : ~Wins(s, w, a)}
<1>1. WithOneAccountEach(s) =
        [s EXCEPT !.accounts = Restricted(@, kept), !.tokens = Restricted(@, kept),
                  !.credentials = Restricted(@, kept)]
  BY DEF WithOneAccountEach, Restricted
<1> HIDE DEF kept
<1>2. WithOneAccountEach(s) =
        [format |-> s.format, columns |-> s.columns, malformed |-> s.malformed, members |-> s.members,
         accounts |-> Restricted(s.accounts, kept), keys |-> s.keys,
         tokens |-> Restricted(s.tokens, kept), credentials |-> Restricted(s.credentials, kept)]
  BY <1>1 DEF IsStore
<1> QED
  BY <1>2 DEF IsStore

LEMMA FormatOneKeeps ==
  ASSUME NEW s, IsStore(s)
  PROVE  /\ IsStore(FormatOne(s)) /\ FormatOne(s).format = 1
         /\ \E kept : /\ FormatOne(s).tokens = Restricted(s.tokens, kept)
                      /\ FormatOne(s).credentials = Restricted(s.credentials, kept)
<1> DEFINE columned == WithSharing(WithStatuses(WithRoles(Bootstrapped(s))))
           authorised == WithAuthority(columned)
           keyed == IF LegacyAuthentication(s) THEN [authorised EXCEPT !.keys = {}] ELSE authorised
           owned == WithOwnAddresses(keyed)
           single == WithOneAccountEach(owned)
<1>1. IsStore(columned) /\ SameTokens(columned, s)
  BY BootstrappedKeeps, WithRolesKeeps, WithStatusesKeeps, WithSharingKeeps DEF SameTokens
<1>2. IsStore(authorised) /\ SameTokens(authorised, s)
  BY <1>1, WithAuthorityKeeps DEF SameTokens
<1> HIDE DEF columned, authorised
<1>3. IsStore(keyed) /\ SameTokens(keyed, s)
  BY <1>2 DEF SameTokens, IsStore
<1> HIDE DEF keyed
<1>4. IsStore(owned) /\ SameTokens(owned, s)
  BY <1>3, WithOwnAddressesKeeps DEF SameTokens
<1> HIDE DEF owned
<1>5. /\ IsStore(single)
      /\ \E kept : /\ single.tokens = Restricted(s.tokens, kept)
                   /\ single.credentials = Restricted(s.credentials, kept)
  BY <1>4, WithOneAccountEachKeeps DEF SameTokens
<1>6. FormatOne(s) = [single EXCEPT !.format = 1]
  BY DEF FormatOne, columned, authorised, keyed, owned
<1> HIDE DEF single
<1> QED
  BY <1>5, <1>6 DEF IsStore

\* What a store knows of tokens: when they were written, and the revision of the credentials.
TokensAreTimes(s) ==
  /\ DOMAIN s.tokens \subseteq Rank /\ s.tokens \in [DOMAIN s.tokens -> Nat]
  /\ DOMAIN s.credentials \subseteq Rank
  /\ s.credentials \in [DOMAIN s.credentials -> [at : Nat, revision : Nat]]

LEMMA SyncedKeeps ==
  ASSUME NEW s, IsStore(s)
  PROVE  /\ IsStore(Synced(s)) /\ Synced(s).format = s.format /\ Synced(s).tokens = s.tokens
         /\ Synced(s).credentials =
              [a \in DOMAIN s.credentials \cup DOMAIN s.tokens |->
                 IF a \notin DOMAIN s.credentials THEN [at |-> s.tokens[a], revision |-> 1]
                 ELSE IF a \in DOMAIN s.tokens /\ s.tokens[a] > s.credentials[a].at
                      THEN [at |-> s.tokens[a], revision |-> s.credentials[a].revision + 1]
                      ELSE s.credentials[a]]
<1> DEFINE new == [a \in DOMAIN s.credentials \cup DOMAIN s.tokens |->
                     IF a \notin DOMAIN s.credentials THEN [at |-> s.tokens[a], revision |-> 1]
                     ELSE IF a \in DOMAIN s.tokens /\ s.tokens[a] > s.credentials[a].at
                          THEN [at |-> s.tokens[a], revision |-> s.credentials[a].revision + 1]
                          ELSE s.credentials[a]]
<1>1. Synced(s) = [s EXCEPT !.credentials = new]
  BY DEF Synced, IsStore
<1> HIDE DEF new
<1>2. /\ IsStore(Synced(s)) /\ Synced(s).format = s.format /\ Synced(s).tokens = s.tokens
      /\ Synced(s).credentials = new
  BY <1>1 DEF IsStore
<1> QED
  BY <1>2 DEF new

\* The store that the migration leaves behind, before the credentials are taken over.
Raising(s) ==
  LET one == IF s.format >= 1 THEN s ELSE FormatOne(s)
  IN  IF one.format >= 2 THEN one ELSE FormatTwo(one)

LEMMA RaisingKeeps ==
  ASSUME NEW s, IsStore(s), TokensAreTimes(s), s.format \in {0, 2}
  PROVE  /\ IsStore(Raising(s)) /\ Raising(s).format = 2
         /\ \E kept : /\ Raising(s).tokens = Restricted(s.tokens, kept)
                      /\ Raising(s).credentials = Restricted(s.credentials, kept)
<1>1. CASE s.format = 2
  <2>1. Raising(s) = s
    BY <1>1 DEF Raising
  <2> DEFINE kept == DOMAIN s.tokens \cup DOMAIN s.credentials
  <2>2. DOMAIN s.tokens \cap kept = DOMAIN s.tokens /\ DOMAIN s.credentials \cap kept = DOMAIN s.credentials
    OBVIOUS
  <2>3. s.tokens = Restricted(s.tokens, kept) /\ s.credentials = Restricted(s.credentials, kept)
    BY <2>2 DEF Restricted, TokensAreTimes
  <2> QED
    BY <1>1, <2>1, <2>3
<1>2. CASE s.format = 0
  <2>1. Raising(s) = FormatTwo(FormatOne(s))
    BY <1>2, FormatOneKeeps DEF Raising
  <2> QED
    BY <2>1, FormatOneKeeps DEF FormatTwo, IsStore
<1> QED
  BY <1>1, <1>2

LEMMA MigratedIsSynced == ASSUME NEW s PROVE Migrated(s) = Synced(Raising(s))
BY DEF Migrated, Raising


\* What a migration does to the tokens: the accounts that are kept keep theirs, and each of
\* them has credentials at least as new as its tokens, under a new revision when they are newer.
LEMMA MigratedTokens ==
  ASSUME NEW s, IsStore(s), TokensAreTimes(s), s.format \in {0, 2}
  PROVE  /\ IsStore(Migrated(s)) /\ Migrated(s).format = 2 /\ TokensAreTimes(Migrated(s))
         /\ \A a \in DOMAIN Migrated(s).tokens :
              /\ a \in DOMAIN Migrated(s).credentials
              /\ Migrated(s).credentials[a].at >= Migrated(s).tokens[a]
              /\ a \in DOMAIN s.credentials =>
                   LET was == s.credentials[a]
                       now == Migrated(s).credentials[a]
                   IN  /\ now.at >= was.at
                       /\ now.revision > was.revision <=> now.at > was.at
<1> DEFINE two == Raising(s)
<1>1. PICK kept : /\ two.tokens = Restricted(s.tokens, kept)
                  /\ two.credentials = Restricted(s.credentials, kept)
  BY RaisingKeeps
<1>2. IsStore(two) /\ two.format = 2
  BY RaisingKeeps
<1>3. Migrated(s) = Synced(two)
  BY MigratedIsSynced
<1> HIDE DEF two
<1>4. TokensAreTimes(two)
  BY <1>1 DEF TokensAreTimes, Restricted
<1>5. \A a \in DOMAIN two.tokens : a \in DOMAIN s.credentials =>
        a \in DOMAIN two.credentials /\ two.credentials[a] = s.credentials[a]
  BY <1>1 DEF Restricted
<1> DEFINE creds == Synced(two).credentials
<1>6. creds = [a \in DOMAIN two.credentials \cup DOMAIN two.tokens |->
                 IF a \notin DOMAIN two.credentials THEN [at |-> two.tokens[a], revision |-> 1]
                 ELSE IF a \in DOMAIN two.tokens /\ two.tokens[a] > two.credentials[a].at
                      THEN [at |-> two.tokens[a], revision |-> two.credentials[a].revision + 1]
                      ELSE two.credentials[a]]
  BY <1>2, SyncedKeeps
<1>7. IsStore(Synced(two)) /\ Synced(two).format = 2 /\ Synced(two).tokens = two.tokens
  BY <1>2, SyncedKeeps
<1> HIDE DEF creds
<1>8. \A a \in DOMAIN two.tokens : two.tokens[a] \in Nat
  BY <1>4 DEF TokensAreTimes
<1>9. \A a \in DOMAIN two.credentials : two.credentials[a] \in [at : Nat, revision : Nat]
  BY <1>4 DEF TokensAreTimes
<1>10. creds \in [DOMAIN creds -> [at : Nat, revision : Nat]]
  <2> SUFFICES ASSUME NEW a \in DOMAIN creds PROVE creds[a] \in [at : Nat, revision : Nat]
    BY <1>6
  <2> QED
    BY <1>6, <1>8, <1>9
<1>14. DOMAIN creds \subseteq Rank
  BY <1>4, <1>6 DEF TokensAreTimes
<1>11. TokensAreTimes(Synced(two))
  BY <1>7, <1>10, <1>4, <1>14 DEF TokensAreTimes, creds
<1>12. ASSUME NEW a \in DOMAIN two.tokens
       PROVE  a \in DOMAIN creds /\ creds[a].at >= two.tokens[a]
  BY <1>6, <1>8, <1>9
<1>13. ASSUME NEW a \in DOMAIN two.tokens, a \in DOMAIN s.credentials
       PROVE  LET was == s.credentials[a]
                  now == creds[a]
              IN  /\ now.at >= was.at
                  /\ now.revision > was.revision <=> now.at > was.at
  <2>1. a \in DOMAIN two.credentials /\ two.credentials[a] = s.credentials[a]
    BY <1>5, <1>13
  <2>2. two.credentials[a] \in [at : Nat, revision : Nat] /\ two.tokens[a] \in Nat
    BY <1>8, <1>9, <2>1
  <2>3. creds[a] = IF two.tokens[a] > two.credentials[a].at
                   THEN [at |-> two.tokens[a], revision |-> two.credentials[a].revision + 1]
                   ELSE two.credentials[a]
    BY <1>6, <2>1
  <2> QED
    BY <2>1, <2>2, <2>3
<1> QED
  BY <1>3, <1>7, <1>11, <1>12, <1>13 DEF creds

------------------------------------------------------------------------------
\* A backup holds the rows of a store, tokens apart.
BacksUp(c, s) == [c EXCEPT !.tokens = s.tokens, !.credentials = s.credentials] = s
HasBackup == \E c \in copies : BacksUp(c, db)

\* The inductive invariant: whoever is about to migrate a store that has tables has a backup of
\* it, whatever older builds save meanwhile; nobody has a store open that is not migrated.
MigrationIInv ==
  /\ opener \in [Opener -> {"closed", "waits", "connects", "copies", "begins", "opened"}]
  /\ IsStore(db) /\ db.format \in {0, 2, 3} /\ TokensAreTimes(db)
  /\ \A p \in Opener : opener[p] = "begins" /\ db.format = 0 /\ Stored => HasBackup
  /\ \A p \in Opener : opener[p] = "opened" => db.format # 0

LEMMA MigrationInitInv == ASSUME MigrationInit PROVE MigrationIInv /\ db.format = 0
<1>1. /\ opener \in [Opener -> {"closed", "waits", "connects", "copies", "begins", "opened"}]
      /\ \A p \in Opener : opener[p] = "closed"
  BY DEF MigrationInit
<1>2. IsStore(NoStore) /\ NoStore.format = 0 /\ TokensAreTimes(NoStore)
  BY DEF NoStore, IsStore, TokensAreTimes, NoRows
<1>3. ASSUME NEW columns, NEW second, NEW others \in SUBSET Rank
      PROVE  LET s == LegacyStore(columns, second, others)
             IN  IsStore(s) /\ s.format = 0 /\ TokensAreTimes(s)
  <2> DEFINE s == LegacyStore(columns, second, others)
  <2>1. PICK people, accounts, allKeys :
          s = [NoStore EXCEPT !.columns = columns, !.members = people, !.accounts = accounts, !.keys = allKeys,
                 !.tokens = [a \in Rank \ others |-> 1],
                 !.credentials = [a \in {b \in others : "account_credentials" \in columns} |->
                                    [at |-> 1, revision |-> 1]]]
    BY DEF LegacyStore
  <2> HIDE DEF s
  <2>2. s = [format |-> 0, columns |-> columns, malformed |-> FALSE, members |-> people, accounts |-> accounts,
             keys |-> allKeys, tokens |-> [a \in Rank \ others |-> 1],
             credentials |-> [a \in {b \in others : "account_credentials" \in columns} |-> [at |-> 1, revision |-> 1]]]
    BY <2>1 DEF NoStore
  <2>3. TokensAreTimes(s)
    <3>1. s.tokens \in [DOMAIN s.tokens -> Nat] /\ DOMAIN s.tokens \subseteq Rank
      BY <2>2 DEF Rank
    <3>2. s.credentials \in [DOMAIN s.credentials -> [at : Nat, revision : Nat]]
      BY <2>2
    <3>3. DOMAIN s.credentials \subseteq Rank
      BY <2>2 DEF Rank
    <3> QED
      BY <3>1, <3>2, <3>3 DEF TokensAreTimes
  <2>4. IsStore(s) /\ s.format = 0
    BY <2>2 DEF IsStore
  <2> QED
    BY <2>3, <2>4 DEF s
<1>4. IsStore(Broken) /\ Broken.format = 0 /\ TokensAreTimes(Broken)
  <2> DEFINE s == LegacyStore({"members", "api_keys", "oauth_tokens"}, "y", {})
  <2>1. IsStore(s) /\ s.format = 0 /\ TokensAreTimes(s)
    BY <1>3
  <2>2. Broken = [s EXCEPT !.malformed = TRUE]
    BY DEF Broken
  <2> HIDE DEF s
  <2> QED
    BY <2>1, <2>2 DEF IsStore, TokensAreTimes
<1>5. IsStore(db) /\ db.format = 0 /\ TokensAreTimes(db)
  <2>1. db \in LegacyStores => IsStore(db) /\ db.format = 0 /\ TokensAreTimes(db)
    <3> SUFFICES ASSUME db \in LegacyStores PROVE IsStore(db) /\ db.format = 0 /\ TokensAreTimes(db)
      OBVIOUS
    <3> DEFINE Left(columns, second, a) == LegacyStore(columns, second, {a})
    <3>1. LegacyStores = {Left(columns, second, a) : columns \in Columns, second \in Address, a \in Rank}
      BY DEF LegacyStores
    <3>2. \A columns, second : \A a \in Rank :
            LET s == Left(columns, second, a)
            IN  IsStore(s) /\ s.format = 0 /\ TokensAreTimes(s)
      BY <1>3
    <3> HIDE DEF Left
    <3>3. PICK columns \in Columns, second \in Address, a \in Rank : db = Left(columns, second, a)
      BY <3>1
    <3> QED
      BY <3>2, <3>3
  <2> QED
    BY <2>1, <1>2, <1>4 DEF MigrationInit
<1> QED
  BY <1>1, <1>5 DEF MigrationIInv


LEMMA WritesKeepBackups ==
  ASSUME MigrationIInv, IsStore(db'), TokensAreTimes(db'), copies' = copies, opener' = opener,
         NEW t, NEW u, db' = [db EXCEPT !.tokens = t, !.credentials = u]
  PROVE  MigrationIInv'
<1>1. /\ db'.format = db.format /\ db'.columns = db.columns
      /\ db'.tokens = t /\ db'.credentials = u
  BY DEF MigrationIInv, IsStore
<1>2. ASSUME NEW c \in copies, BacksUp(c, db) PROVE BacksUp(c, db')
  <2>1. db = [c EXCEPT !.tokens = db.tokens, !.credentials = db.credentials]
    BY <1>2 DEF BacksUp
  <2>2. db' = [[c EXCEPT !.tokens = db.tokens, !.credentials = db.credentials]
                  EXCEPT !.tokens = t, !.credentials = u]
    BY <2>1
  <2>3. db' = [c EXCEPT !.tokens = t, !.credentials = u]
    BY <2>2
  <2> QED
    BY <1>1, <2>3 DEF BacksUp
<1>3. HasBackup => HasBackup'
  BY <1>2 DEF HasBackup
<1>4. Stored' = Stored
  BY <1>1 DEF Stored
<1> QED
  BY <1>1, <1>3, <1>4 DEF MigrationIInv

\* Actions that leave the store and the backups alone, and let nobody begin or open.
LEMMA StaysAway ==
  ASSUME MigrationIInv, db' = db, copies' = copies,
         opener' \in [Opener -> {"closed", "waits", "connects", "copies", "begins", "opened"}],
         \A p \in Opener : opener'[p] \in {"begins", "opened"} => opener'[p] = opener[p]
  PROVE  MigrationIInv'
<1>1. Stored' = Stored /\ HasBackup' = HasBackup
  BY DEF Stored, HasBackup
<1> QED
  BY <1>1 DEF MigrationIInv, IsStore, TokensAreTimes


LEMMA WrittenIsLatest ==
  ASSUME TokensAreTimes(db)
  PROVE  /\ Written \in Nat
         /\ \A a \in DOMAIN db.tokens : db.tokens[a] <= Written
         /\ \A a \in DOMAIN db.credentials : db.credentials[a].at <= Written
<1> DEFINE S == {0} \cup {db.tokens[a] : a \in DOMAIN db.tokens}
                    \cup {db.credentials[a].at : a \in DOMAIN db.credentials}
           t(a) == IF a \in DOMAIN db.tokens THEN db.tokens[a] ELSE 0
           c(a) == IF a \in DOMAIN db.credentials THEN db.credentials[a].at ELSE 0
<1>1. S = {0, t(1), t(2), c(1), c(2)}
  <2>1. DOMAIN db.tokens \subseteq {1, 2} /\ DOMAIN db.credentials \subseteq {1, 2}
    BY DEF TokensAreTimes, Rank
  <2>2. {0} \cup {db.tokens[a] : a \in DOMAIN db.tokens} = {0, t(1), t(2)}
    BY <2>1
  <2>3. {0} \cup {db.credentials[a].at : a \in DOMAIN db.credentials} = {0, c(1), c(2)}
    BY <2>1
  <2> HIDE DEF t, c
  <2>4. S = ({0} \cup {db.tokens[a] : a \in DOMAIN db.tokens})
              \cup ({0} \cup {db.credentials[a].at : a \in DOMAIN db.credentials})
    OBVIOUS
  <2> QED
    BY <2>2, <2>3, <2>4
<1>2. \A a \in {1, 2} : t(a) \in Nat /\ c(a) \in Nat
  BY DEF TokensAreTimes
<1>3. Written = Max(S)
  BY DEF Written
<1> HIDE DEF S, t, c
<1> DEFINE higher(x, y) == IF x >= y THEN x ELSE y
           top == higher(higher(t(1), t(2)), higher(c(1), c(2)))
<1>4. top \in S /\ \A y \in S : top >= y
  BY <1>1, <1>2
<1> HIDE DEF top
<1>5. \E x \in S : \A y \in S : x >= y
  BY <1>4
<1>6. Max(S) \in S /\ \A y \in S : Max(S) >= y
  BY <1>5 DEF Max
<1>7. /\ \A a \in DOMAIN db.tokens : db.tokens[a] \in S
      /\ \A a \in DOMAIN db.credentials : db.credentials[a].at \in S
  BY DEF S
<1>8. \A y \in S : y \in Nat
  BY <1>1, <1>2
<1> QED
  BY <1>3, <1>6, <1>7, <1>8

LEMMA SaveTokensStep == ASSUME MigrationIInv, NEW p \in Opener, SaveTokens(p) PROVE MigrationIInv'
<1>1. PICK a \in DOMAIN db.tokens :
        db' = [db EXCEPT !.tokens[a] = Written + 1,
                         !.credentials[a] = [at |-> Written + 1, revision |-> @.revision + 1]]
  BY DEF SaveTokens
<1> DEFINE t == [db.tokens EXCEPT ![a] = Written + 1]
           u == [db.credentials EXCEPT ![a] = [at |-> Written + 1, revision |-> @.revision + 1]]
<1>2. db' = [db EXCEPT !.tokens = t, !.credentials = u]
  BY <1>1
<1>3. Written \in Nat
  BY WrittenIsLatest DEF MigrationIInv
<1>4. db.tokens \in [DOMAIN db.tokens -> Nat] /\ db.credentials \in [DOMAIN db.credentials -> [at : Nat, revision : Nat]]
  BY DEF MigrationIInv, TokensAreTimes
<1>5. t \in [DOMAIN db.tokens -> Nat] /\ u \in [DOMAIN db.credentials -> [at : Nat, revision : Nat]]
  <2>1. t \in [DOMAIN db.tokens -> Nat]
    BY <1>3, <1>4
  <2>2. CASE a \in DOMAIN db.credentials
    <3>1. db.credentials[a].revision \in Nat
      BY <1>4, <2>2
    <3>2. [at |-> Written + 1, revision |-> db.credentials[a].revision + 1] \in [at : Nat, revision : Nat]
      BY <1>3, <3>1
    <3> QED
      BY <1>4, <2>1, <3>2
  <2>3. CASE a \notin DOMAIN db.credentials
    BY <1>4, <2>1, <2>3
  <2> QED
    BY <2>2, <2>3
<1> HIDE DEF t, u
<1>6. IsStore(db') /\ db'.tokens = t /\ db'.credentials = u
  BY <1>2 DEF MigrationIInv, IsStore
<1>7. TokensAreTimes(db')
  BY <1>4, <1>5, <1>6 DEF MigrationIInv, TokensAreTimes
<1> QED
  BY <1>2, <1>6, <1>7, WritesKeepBackups DEF SaveTokens

LEMMA OlderSavesTokensStep == ASSUME MigrationIInv, OlderSavesTokens PROVE MigrationIInv'
<1>1. PICK a \in DOMAIN db.tokens : db' = [db EXCEPT !.tokens[a] = Written + 1]
  BY DEF OlderSavesTokens
<1> DEFINE t == [db.tokens EXCEPT ![a] = Written + 1]
<1>2. db' = [db EXCEPT !.tokens = t, !.credentials = db.credentials]
  BY <1>1 DEF MigrationIInv, IsStore
<1>3. Written \in Nat
  BY WrittenIsLatest DEF MigrationIInv
<1>4. db.tokens \in [DOMAIN db.tokens -> Nat]
  BY DEF MigrationIInv, TokensAreTimes
<1>5. t \in [DOMAIN db.tokens -> Nat]
  BY <1>3, <1>4
<1> HIDE DEF t
<1>6. IsStore(db') /\ db'.tokens = t /\ db'.credentials = db.credentials
  BY <1>2 DEF MigrationIInv, IsStore
<1>7. TokensAreTimes(db')
  BY <1>4, <1>5, <1>6 DEF MigrationIInv, TokensAreTimes
<1> QED
  BY <1>2, <1>6, <1>7, WritesKeepBackups DEF OlderSavesTokens

LEMMA MigrateStoreStep == ASSUME MigrationIInv, NEW p \in Opener, MigrateStore(p) PROVE MigrationIInv'
<1>1. CASE Supported(db.format) /\ ~db.malformed
  <2>1. db' = Migrated(db) /\ Places(p, "opened") /\ copies' = copies
    BY <1>1 DEF MigrateStore
  <2>2. db.format \in {0, 2}
    BY <1>1 DEF MigrationIInv, Supported, Current
  <2>3. IsStore(Migrated(db)) /\ Migrated(db).format = 2 /\ TokensAreTimes(Migrated(db))
    BY <2>2, MigratedTokens DEF MigrationIInv
  <2>4. IsStore(db)' /\ db'.format = 2 /\ TokensAreTimes(db)'
    BY <2>1, <2>3 DEF IsStore, TokensAreTimes
  <2> QED
    BY <2>1, <2>4 DEF MigrationIInv, Places
<1>2. CASE ~(Supported(db.format) /\ ~db.malformed)
  <2>1. db' = db /\ Places(p, "closed") /\ copies' = copies
    BY <1>2 DEF MigrateStore, Closes
  <2> QED
    BY <2>1, StaysAway DEF Places, MigrationIInv
<1> QED
  BY <1>1, <1>2

LEMMA BackUpStep == ASSUME MigrationIInv, NEW p \in Opener, BackUp(p) PROVE MigrationIInv'
<1>1. db' = db /\ copies' = copies \cup {db} /\ opener' = [opener EXCEPT ![p] = "begins"]
  BY DEF BackUp, Places
<1>2. BacksUp(db, db)
  BY DEF BacksUp, MigrationIInv, IsStore
<1>3. HasBackup'
  BY <1>1, <1>2 DEF HasBackup, BacksUp
<1>4. \A q \in Opener : opener'[q] = "opened" => opener[q] = "opened"
  BY <1>1
<1> QED
  BY <1>1, <1>3, <1>4 DEF MigrationIInv, IsStore, TokensAreTimes

LEMMA ConnectPlaces ==
  ASSUME NEW p \in Opener, Connect(p)
  PROVE  \/ Places(p, "begins") /\ ~(RequiresMigration(db.format) /\ Stored)
         \/ Places(p, "copies") \/ Places(p, "closed")
<1>1. CASE ~Supported(db.format)
  BY <1>1 DEF Connect, Closes
<1>2. CASE Supported(db.format) /\ RequiresMigration(db.format) /\ Stored
  BY <1>2 DEF Connect, Places
<1>3. CASE Supported(db.format) /\ ~(RequiresMigration(db.format) /\ Stored)
  BY <1>3 DEF Connect, Places
<1> QED
  BY <1>1, <1>2, <1>3

LEMMA ConnectStep == ASSUME MigrationIInv, NEW p \in Opener, Connect(p) PROVE MigrationIInv'
<1>1. db' = db /\ copies' = copies
  BY DEF Connect
<1>2. CASE Places(p, "begins") /\ ~(RequiresMigration(db.format) /\ Stored)
  <2>1. db.format = 0 => ~Stored
    BY <1>2 DEF RequiresMigration, Current
  <2>2. Stored' = Stored /\ HasBackup' = HasBackup
    BY <1>1 DEF Stored, HasBackup
  <2> QED
    BY <1>1, <1>2, <2>1, <2>2 DEF MigrationIInv, IsStore, TokensAreTimes, Places
<1>3. CASE Places(p, "copies") \/ Places(p, "closed")
  <2>1. /\ opener' \in [Opener -> {"closed", "waits", "connects", "copies", "begins", "opened"}]
        /\ \A q \in Opener : opener'[q] \in {"begins", "opened"} => opener'[q] = opener[q]
    BY <1>3 DEF Places, MigrationIInv
  <2> QED
    BY <1>1, <2>1, StaysAway
<1> QED
  BY <1>2, <1>3, ConnectPlaces

LEMMA OtherOpenerSteps ==
  ASSUME MigrationIInv, NEW p \in Opener,
         \/ InspectStore(p) \/ TakeLock(p) \/ TimeOut(p) \/ OpenFails(p) \/ CloseStore(p) \/ OpenerDies(p)
  PROVE  MigrationIInv'
<1>1. db' = db /\ copies' = copies /\ \E spot \in {"closed", "waits", "connects"} : Places(p, spot)
  BY DEF InspectStore, TakeLock, TimeOut, OpenFails, CloseStore, OpenerDies, Closes
<1>2. /\ opener' \in [Opener -> {"closed", "waits", "connects", "copies", "begins", "opened"}]
      /\ \A q \in Opener : opener'[q] \in {"begins", "opened"} => opener'[q] = opener[q]
  BY <1>1 DEF Places, MigrationIInv
<1> QED
  BY <1>1, <1>2, StaysAway

LEMMA NewerMigratesStep == ASSUME MigrationIInv, NewerMigrates PROVE MigrationIInv'
<1>1. db' = [db EXCEPT !.format = 3] /\ opener' = opener
  BY DEF NewerMigrates, Current
<1>2. IsStore(db)' /\ db'.format = 3 /\ db'.tokens = db.tokens /\ db'.credentials = db.credentials
  BY <1>1 DEF MigrationIInv, IsStore
<1> QED
  BY <1>1, <1>2 DEF MigrationIInv, TokensAreTimes

LEMMA MigrationInvariance == MigrationSpec => []MigrationIInv
<1>1. MigrationIInv /\ [MigrationNext]_storeVars => MigrationIInv'
  <2> SUFFICES ASSUME MigrationIInv, [MigrationNext]_storeVars PROVE MigrationIInv'
    OBVIOUS
  <2>1. CASE UNCHANGED storeVars
    BY <2>1, StaysAway DEF storeVars, MigrationIInv
  <2>2. CASE MigrationNext
    BY <2>2, SaveTokensStep, OlderSavesTokensStep, MigrateStoreStep, BackUpStep, ConnectStep, OtherOpenerSteps,
       NewerMigratesStep DEF MigrationNext
  <2> QED
    BY <2>1, <2>2
<1> QED
  BY <1>1, MigrationInitInv, PTL DEF MigrationSpec


------------------------------------------------------------------------------
\* However many processes open one store, whoever holds the lock, waits for it, gives up or
\* dies: openDb writes no store of a later build, and no format changes without a backup of
\* the rows as they were (openDb, withFileLock).
THEOREM StoresMigrateSafely == MigrationSpec => MigratesSafely
<1>1. ASSUME MigrationIInv, [MigrationNext]_storeVars
      PROVE  [opener' # opener /\ db' # db => db.format <= Current]_storeVars
  <2> SUFFICES ASSUME MigrationNext, opener' # opener, db' # db PROVE db.format <= Current
    BY <1>1
  <2>1. \E p \in Opener : MigrateStore(p)
    BY DEF MigrationNext, InspectStore, TakeLock, TimeOut, Connect, BackUp, OpenFails, CloseStore, OpenerDies,
           SaveTokens, OlderSavesTokens, NewerMigrates
  <2> QED
    BY <2>1 DEF MigrateStore, Supported, Current
<1>2. ASSUME MigrationIInv, [MigrationNext]_storeVars
      PROVE  [db'.format # db.format /\ db'.format = Current /\ Stored =>
                \E c \in copies : [c EXCEPT !.tokens = db.tokens, !.credentials = db.credentials] = db]_storeVars
  <2> SUFFICES ASSUME MigrationNext, db'.format # db.format, db'.format = Current, Stored
               PROVE  HasBackup
    BY <1>2 DEF HasBackup, BacksUp
  <2>1. ASSUME NEW p \in Opener, SaveTokens(p) PROVE db'.format = db.format
    BY <1>2, <2>1 DEF SaveTokens, MigrationIInv, IsStore
  <2>2. OlderSavesTokens => db'.format = db.format
    BY <1>2 DEF OlderSavesTokens, MigrationIInv, IsStore
  <2>3. ~NewerMigrates
    BY <1>2 DEF NewerMigrates, MigrationIInv, IsStore, Current
  <2>4. PICK p \in Opener : MigrateStore(p)
    BY <2>1, <2>2, <2>3
    DEF MigrationNext, InspectStore, TakeLock, TimeOut, Connect, BackUp, OpenFails, CloseStore, OpenerDies
  <2>5. db.format # 2 /\ db.format \in {0, 2, 3} /\ Supported(db.format) /\ opener[p] = "begins"
    BY <1>2, <2>4 DEF MigrationIInv, MigrateStore, Current
  <2> QED
    BY <1>2, <2>5 DEF MigrationIInv, Supported, Current
<1> QED
  BY <1>1, <1>2, MigrationInvariance, PTL DEF MigrationSpec, MigratesSafely, NewerStoreIsLeftAlone, BackedUpFirst

\* Whoever opens a store finds for every mailbox the newest tokens that any build saved,
\* older builds included, and credentials that changed carry a new revision: the cached
\* clients of other processes notice (db.ts sync of account_credentials).
THEOREM OpenersFindNewestCredentials == MigrationSpec => NewestCredentials
<1>1. ASSUME MigrationIInv, [MigrationNext]_storeVars
      PROVE  [opener' # opener =>
                \A p \in Opener : opener[p] # "opened" /\ opener'[p] = "opened" =>
                  \A a \in DOMAIN db'.tokens :
                    /\ a \in DOMAIN db'.credentials /\ db'.credentials[a].at >= db'.tokens[a]
                    /\ a \in DOMAIN db.credentials =>
                         LET was == db.credentials[a]
                             now == db'.credentials[a]
                         IN  /\ now.at >= was.at
                             /\ now.revision > was.revision <=> now.at > was.at]_storeVars
  <2> SUFFICES ASSUME MigrationNext, NEW p \in Opener, opener[p] # "opened", opener'[p] = "opened",
                      NEW a \in DOMAIN db'.tokens
               PROVE  /\ a \in DOMAIN db'.credentials /\ db'.credentials[a].at >= db'.tokens[a]
                      /\ a \in DOMAIN db.credentials =>
                           LET was == db.credentials[a]
                               now == db'.credentials[a]
                           IN  /\ now.at >= was.at
                               /\ now.revision > was.revision <=> now.at > was.at
    BY <1>1
  <2>1. ASSUME NEW q \in Opener,
               \/ InspectStore(q) \/ TakeLock(q) \/ TimeOut(q) \/ Connect(q) \/ BackUp(q) \/ OpenFails(q)
               \/ CloseStore(q) \/ OpenerDies(q) \/ SaveTokens(q)
        PROVE  FALSE
    <3>1. \E spot \in {"closed", "waits", "connects", "copies", "begins"} :
            Places(q, spot) \/ opener' = opener
      BY <2>1, ConnectPlaces DEF InspectStore, TakeLock, TimeOut, BackUp, OpenFails, CloseStore, OpenerDies,
                                 SaveTokens, Closes
    <3> QED
      BY <1>1, <3>1 DEF Places, MigrationIInv
  <2>2. PICK q \in Opener : MigrateStore(q)
    BY <2>1 DEF MigrationNext, OlderSavesTokens, NewerMigrates
  <2>3. Supported(db.format) /\ db' = Migrated(db)
    <3>1. ~Closes(q)
      BY <1>1 DEF Closes, Places, MigrationIInv
    <3> QED
      BY <2>2, <3>1 DEF MigrateStore
  <2>4. IsStore(db) /\ TokensAreTimes(db) /\ db.format \in {0, 2}
    BY <1>1, <2>3 DEF MigrationIInv, Supported, Current
  <2> QED
    BY <2>3, <2>4, MigratedTokens
<1> QED
  BY <1>1, MigrationInvariance, PTL DEF MigrationSpec, NewestCredentials

------------------------------------------------------------------------------
(* A migrated store is whole. *)

Person == [email : Address \cup {NoAddress}, role : {"none", "admin", "member"}, status : {"none", "pending", "active"}]
Mailbox == [email : Address, provider : {"gmail", "imap"}, owner : Nat, all : BOOLEAN]
StoreKey == [of : Nat, manages : BOOLEAN]

\* The rows of a store that an earlier build left: people and mailboxes have an address,
\* the first person is an administrator where there are roles, keys belong to people or
\* to nobody, and no key manages accounts.
LegacyRows(s) ==
  /\ s.columns \subseteq Column
  /\ s.members \in [DOMAIN s.members -> Person] /\ DOMAIN s.members \in {{}, Rank}
  /\ \A m \in DOMAIN s.members : s.members[m].email \in Address
  /\ "members" \notin s.columns => DOMAIN s.members = {}
  /\ "role" \in s.columns => \A m \in DOMAIN s.members : s.members[m].role = IF m = 1 THEN "admin" ELSE "member"
  /\ s.accounts \in [DOMAIN s.accounts -> Mailbox] /\ DOMAIN s.accounts \in {{}, Rank}
  /\ s.keys \subseteq StoreKey
  /\ \A k \in s.keys : ~k.manages /\ (k.of = 0 \/ k.of \in DOMAIN s.members)
  /\ "api_keys" \notin s.columns => s.keys = {}

SameRows(s, t) ==
  s.members = t.members /\ s.accounts = t.accounts /\ s.keys = t.keys /\ s.columns = t.columns

\* What d keeps of s when d is s migrated.
KeepsPeople(s, d) ==
  /\ d.members \in [DOMAIN s.members -> Person]
  /\ \A m \in DOMAIN s.members : \E w \in 1..m :
       {n \in DOMAIN d.members : d.members[n].email = s.members[m].email} = {w}
  /\ DOMAIN d.members # {} => \E m \in DOMAIN d.members : d.members[m].role = "admin"
KeepsMailboxes(s, d) ==
  \A a \in DOMAIN s.accounts :
    LET same == {b \in DOMAIN d.accounts : d.accounts[b].email = s.accounts[a].email}
    IN  /\ Cardinality(same) = 1
        /\ s.accounts[a].provider = "gmail" => \A b \in same : d.accounts[b].provider = "gmail"
EndsAuthority(s, d) ==
  /\ "status" \notin s.columns => d.keys = {}
  /\ \A k \in d.keys : k.manages => k.of = 0 \/ d.members[k.of].role = "admin"
  /\ \A a \in DOMAIN d.accounts : d.accounts[a].all => s.accounts[a].all \/ d.accounts[a].owner = 0
IsWhole(s, d) == d.columns \subseteq Column /\ KeepsPeople(s, d) /\ KeepsMailboxes(s, d) /\ EndsAuthority(s, d)

\* What each part of the migration does to the rows.
LEMMA BootstrappedRows ==
  ASSUME NEW s, IsStore(s), s.columns \subseteq Column
  PROVE  LET t == Bootstrapped(s) IN
         /\ IsStore(t) /\ t.members = s.members /\ t.accounts = s.accounts /\ t.keys = s.keys
         /\ t.columns \subseteq Column
         /\ "role" \in t.columns <=> "role" \in s.columns \/ "members" \notin s.columns
         /\ "status" \in t.columns <=> "status" \in s.columns \/ "members" \notin s.columns
         /\ "supplemental" \in t.columns <=> "supplemental" \in s.columns \/ "api_keys" \notin s.columns
         /\ "sharing_mode" \in t.columns <=> "sharing_mode" \in s.columns
         /\ "shared_with_all" \in t.columns <=> "shared_with_all" \in s.columns
<1> DEFINE cols == s.columns \cup (IF "members" \in s.columns THEN {} ELSE {"members", "role", "status"})
                     \cup (IF "api_keys" \in s.columns THEN {} ELSE {"api_keys", "supplemental"})
                     \cup {"oauth_tokens", "account_credentials"}
<1>1. Bootstrapped(s) = [s EXCEPT !.columns = cols]
  BY DEF Bootstrapped
<1>2. /\ cols \subseteq Column
      /\ "role" \in cols <=> "role" \in s.columns \/ "members" \notin s.columns
      /\ "status" \in cols <=> "status" \in s.columns \/ "members" \notin s.columns
      /\ "supplemental" \in cols <=> "supplemental" \in s.columns \/ "api_keys" \notin s.columns
      /\ "sharing_mode" \in cols <=> "sharing_mode" \in s.columns
      /\ "shared_with_all" \in cols <=> "shared_with_all" \in s.columns
  BY DEF Column
<1> HIDE DEF cols
<1>3. Bootstrapped(s).columns = cols
  BY <1>1 DEF IsStore
<1>4. LET t == Bootstrapped(s)
      IN IsStore(t) /\ t.members = s.members /\ t.accounts = s.accounts /\ t.keys = s.keys
  BY <1>1 DEF IsStore
<1> QED  BY <1>2, <1>3, <1>4

LEMMA FirstOfRank == Min(Rank) = 1
<1>1. \A x \in Rank : (\A y \in Rank : x <= y) <=> x = 1
  BY DEF Rank
<1>2. 1 \in Rank
  BY DEF Rank
<1> QED  BY <1>1, <1>2 DEF Min

LEMMA WithRolesRows ==
  ASSUME NEW s, IsStore(s), s.columns \subseteq Column, s.members \in [DOMAIN s.members -> Person],
         DOMAIN s.members \in {{}, Rank},
         "role" \in s.columns => \A m \in DOMAIN s.members : s.members[m].role = IF m = 1 THEN "admin" ELSE "member"
  PROVE  LET t == WithRoles(s) IN
         /\ IsStore(t) /\ t.accounts = s.accounts /\ t.keys = s.keys
         /\ t.columns = s.columns \cup {"role"}
         /\ t.members \in [DOMAIN s.members -> Person]
         /\ \A m \in DOMAIN s.members :
              t.members[m].email = s.members[m].email /\ t.members[m].role = IF m = 1 THEN "admin" ELSE "member"
<1>1. CASE "role" \in s.columns
  <2>1. WithRoles(s) = s /\ s.columns \cup {"role"} = s.columns
    BY <1>1 DEF WithRoles
  <2> QED  BY <1>1, <2>1
<1>2. CASE "role" \notin s.columns
  <2> DEFINE people == [m \in DOMAIN s.members |->
                          [s.members[m] EXCEPT !.role = IF m = Min(DOMAIN s.members) THEN "admin" ELSE "member"]]
  <2> DEFINE cols == s.columns \cup {"role"}
             t == WithRoles(s)
  <2>1. t = [s EXCEPT !.columns = cols, !.members = people]
    BY <1>2 DEF WithRoles
  <2>2. ASSUME NEW m \in DOMAIN s.members
        PROVE  /\ people[m] \in Person /\ people[m].email = s.members[m].email
               /\ people[m].role = IF m = 1 THEN "admin" ELSE "member"
    <3>1. Min(DOMAIN s.members) = 1
      BY FirstOfRank
    <3>2. s.members[m] \in Person
      OBVIOUS
    <3> QED  BY <3>1, <3>2 DEF Person
  <2>3. people \in [DOMAIN s.members -> Person]
    BY <2>2
  <2> HIDE DEF people, cols, t
  <2>4. /\ IsStore(t) /\ t.columns = cols /\ t.members = people
        /\ t.accounts = s.accounts /\ t.keys = s.keys
    BY <2>1 DEF IsStore
  <2> QED  BY <2>2, <2>3, <2>4 DEF cols, t
<1> QED  BY <1>1, <1>2

LEMMA WithStatusesRows ==
  ASSUME NEW s, IsStore(s), s.columns \subseteq Column, s.members \in [DOMAIN s.members -> Person]
  PROVE  LET t == WithStatuses(s) IN
         /\ IsStore(t) /\ t.accounts = s.accounts /\ t.keys = s.keys
         /\ t.columns = s.columns \cup {"status"}
         /\ t.members \in [DOMAIN s.members -> Person]
         /\ \A m \in DOMAIN s.members :
              t.members[m].email = s.members[m].email /\ t.members[m].role = s.members[m].role
<1>1. CASE "status" \in s.columns
  <2>1. WithStatuses(s) = s /\ s.columns \cup {"status"} = s.columns
    BY <1>1 DEF WithStatuses
  <2> QED  BY <1>1, <2>1
<1>2. CASE "status" \notin s.columns
  <2> DEFINE people == [m \in DOMAIN s.members |-> [s.members[m] EXCEPT !.status = "pending"]]
  <2> DEFINE cols == s.columns \cup {"status"}
             t == WithStatuses(s)
  <2>1. t = [s EXCEPT !.columns = cols, !.members = people]
    BY <1>2 DEF WithStatuses
  <2>2. ASSUME NEW m \in DOMAIN s.members
        PROVE  people[m] \in Person /\ people[m].email = s.members[m].email /\ people[m].role = s.members[m].role
    <3>1. s.members[m] \in Person
      OBVIOUS
    <3> QED  BY <3>1 DEF Person
  <2>3. people \in [DOMAIN s.members -> Person]
    BY <2>2
  <2> HIDE DEF people, cols, t
  <2>4. /\ IsStore(t) /\ t.columns = cols /\ t.members = people
        /\ t.accounts = s.accounts /\ t.keys = s.keys
    BY <2>1 DEF IsStore
  <2> QED  BY <2>2, <2>3, <2>4 DEF cols, t
<1> QED  BY <1>1, <1>2

LEMMA WithSharingRows ==
  ASSUME NEW s, IsStore(s), s.columns \subseteq Column, s.accounts \in [DOMAIN s.accounts -> Mailbox]
  PROVE  LET t == WithSharing(s) IN
         /\ IsStore(t) /\ t.members = s.members /\ t.keys = s.keys
         /\ t.columns \subseteq Column
         /\ "status" \in t.columns <=> "status" \in s.columns
         /\ "supplemental" \in t.columns <=> "supplemental" \in s.columns
         /\ t.accounts \in [DOMAIN s.accounts -> Mailbox]
         /\ \A a \in DOMAIN s.accounts :
              /\ t.accounts[a].email = s.accounts[a].email /\ t.accounts[a].provider = s.accounts[a].provider
              /\ t.accounts[a].owner = s.accounts[a].owner
              /\ t.accounts[a].all => s.accounts[a].all \/ t.accounts[a].owner = 0
<1>1. CASE "shared_with_all" \in s.columns
  <2>1. WithSharing(s) = s
    BY <1>1 DEF WithSharing
  <2> QED  BY <1>1, <2>1
<1>2. CASE "shared_with_all" \notin s.columns
  <2> DEFINE Shared(a) == IF "sharing_mode" \in s.columns THEN s.accounts[a].all ELSE s.accounts[a].owner = 0
             mailboxes == [a \in DOMAIN s.accounts |-> [s.accounts[a] EXCEPT !.all = Shared(a)]]
             cols == (s.columns \cup {"member_id", "shared_with_all"}) \ {"sharing_mode"}
             t == WithSharing(s)
  <2>1. t = [s EXCEPT !.columns = cols, !.accounts = mailboxes]
    BY <1>2 DEF WithSharing
  <2>2. ASSUME NEW a \in DOMAIN s.accounts
        PROVE  /\ mailboxes[a] \in Mailbox
               /\ mailboxes[a].email = s.accounts[a].email /\ mailboxes[a].provider = s.accounts[a].provider
               /\ mailboxes[a].owner = s.accounts[a].owner
               /\ mailboxes[a].all => s.accounts[a].all \/ mailboxes[a].owner = 0
    <3>1. s.accounts[a] \in Mailbox
      OBVIOUS
    <3>2. Shared(a) \in BOOLEAN /\ (Shared(a) => s.accounts[a].all \/ s.accounts[a].owner = 0)
      BY <3>1 DEF Mailbox
    <3> HIDE DEF Shared
    <3>3. mailboxes[a] = [email |-> s.accounts[a].email, provider |-> s.accounts[a].provider,
                          owner |-> s.accounts[a].owner, all |-> Shared(a)]
      BY <3>1 DEF Mailbox
    <3> QED  BY <3>1, <3>2, <3>3 DEF Mailbox
  <2>3. mailboxes \in [DOMAIN s.accounts -> Mailbox]
    BY <2>2
  <2>4. /\ cols \subseteq Column
        /\ "status" \in cols <=> "status" \in s.columns
        /\ "supplemental" \in cols <=> "supplemental" \in s.columns
    BY DEF Column
  <2> HIDE DEF mailboxes, cols, t
  <2>5. /\ IsStore(t) /\ t.columns = cols /\ t.accounts = mailboxes
        /\ t.members = s.members /\ t.keys = s.keys
    BY <2>1 DEF IsStore
  <2> QED  BY <2>2, <2>3, <2>4, <2>5 DEF t
<1> QED  BY <1>1, <1>2

\* Before: no key manages, or there were none; after: those of administrators or of nobody may.
LEMMA WithAuthorityRows ==
  ASSUME NEW s, IsStore(s), s.keys \subseteq StoreKey, \A k \in s.keys : ~k.manages
  PROVE  LET t == WithAuthority(s) IN
         /\ IsStore(t) /\ t.members = s.members /\ t.accounts = s.accounts
         /\ t.columns = s.columns \cup {"supplemental"}
         /\ s.keys = {} => t.keys = {}
         /\ \A k \in t.keys : \E old \in s.keys :
              k.of = old.of /\ (k.manages => old.of = 0 \/ s.members[old.of].role = "admin")
<1>1. CASE "supplemental" \in s.columns
  <2>1. WithAuthority(s) = s /\ s.columns \cup {"supplemental"} = s.columns
    BY <1>1 DEF WithAuthority
  <2>2. \A k \in s.keys : \E old \in s.keys :
          k.of = old.of /\ (k.manages => old.of = 0 \/ s.members[old.of].role = "admin")
    OBVIOUS
  <2> QED  BY <1>1, <2>1, <2>2
<1>2. CASE "supplemental" \notin s.columns
  <2> DEFINE Entitled(k) == k.of = 0 \/ s.members[k.of].role = "admin"
             New(k) == [k EXCEPT !.manages = Entitled(k)]
             keys == {New(k) : k \in s.keys}
             cols == s.columns \cup {"supplemental"}
             t == WithAuthority(s)
  <2>1. t = [s EXCEPT !.columns = cols, !.keys = keys]
    BY <1>2 DEF WithAuthority
  <2>2. ASSUME NEW k \in s.keys PROVE New(k).of = k.of /\ (New(k).manages => Entitled(k))
    <3>1. k \in StoreKey
      OBVIOUS
    <3> HIDE DEF Entitled
    <3> QED  BY <3>1 DEF StoreKey
  <2> HIDE DEF New
  <2>3. \A k \in keys : \E old \in s.keys : k.of = old.of /\ (k.manages => Entitled(old))
    BY <2>2
  <2>4. s.keys = {} => keys = {}
    OBVIOUS
  <2> HIDE DEF keys, cols, t
  <2>5. /\ IsStore(t) /\ t.columns = cols /\ t.keys = keys
        /\ t.members = s.members /\ t.accounts = s.accounts
    BY <2>1 DEF IsStore
  <2> QED  BY <2>3, <2>4, <2>5 DEF t, cols
<1> QED  BY <1>1, <1>2

LEMMA WithOwnAddressesRows ==
  ASSUME NEW s, IsStore(s), s.members \in [DOMAIN s.members -> Person], DOMAIN s.members \in {{}, Rank},
         \A m \in DOMAIN s.members : s.members[m].email \in Address
  PROVE  LET t == WithOwnAddresses(s) IN
         /\ IsStore(t) /\ t.columns = s.columns /\ t.accounts = s.accounts /\ t.keys = s.keys
         /\ t.members \in [DOMAIN s.members -> Person]
         /\ \A m \in DOMAIN s.members : t.members[m].role = s.members[m].role
         /\ \A m \in DOMAIN s.members : \E w \in 1..m :
              {n \in DOMAIN s.members : t.members[n].email = s.members[m].email} = {w}
<1> DEFINE Address1(m) == IF \E w \in DOMAIN s.members : w < m /\ s.members[w].email = s.members[m].email
                          THEN NoAddress ELSE s.members[m].email
           people == [m \in DOMAIN s.members |-> [s.members[m] EXCEPT !.email = Address1(m)]]
           t == WithOwnAddresses(s)
<1>1. t = [s EXCEPT !.members = people]
  BY DEF WithOwnAddresses
<1>2. ASSUME NEW m \in DOMAIN s.members
      PROVE  people[m] \in Person /\ people[m].role = s.members[m].role /\ people[m].email = Address1(m)
  <2>1. s.members[m] \in Person /\ Address1(m) \in Address \cup {NoAddress}
    OBVIOUS
  <2> HIDE DEF Address1
  <2>2. people[m] = [email |-> Address1(m), role |-> s.members[m].role, status |-> s.members[m].status]
    BY <2>1 DEF Person
  <2> QED  BY <2>1, <2>2 DEF Person
<1>3. people \in [DOMAIN s.members -> Person]
  BY <1>2
<1>4. ASSUME NEW m \in DOMAIN s.members
      PROVE  \E w \in 1..m : {n \in DOMAIN s.members : Address1(n) = s.members[m].email} = {w}
  <2>1. DOMAIN s.members = {1, 2} /\ m \in {1, 2}
    BY DEF Rank
  <2>2. s.members[1].email # NoAddress /\ s.members[2].email # NoAddress
    BY <2>1 DEF Address, NoAddress
  <2>3. /\ Address1(1) = s.members[1].email
        /\ Address1(2) = IF s.members[1].email = s.members[2].email THEN NoAddress ELSE s.members[2].email
    BY <2>1
  <2> HIDE DEF Address1
  <2>4. CASE s.members[1].email = s.members[2].email
    <3>1. {n \in DOMAIN s.members : Address1(n) = s.members[m].email} = {1} /\ 1 \in 1..m
      BY <2>1, <2>2, <2>3, <2>4
    <3> QED  BY <3>1
  <2>5. CASE s.members[1].email # s.members[2].email
    <3>1. {n \in DOMAIN s.members : Address1(n) = s.members[m].email} = {m} /\ m \in 1..m
      BY <2>1, <2>2, <2>3, <2>5
    <3> QED  BY <3>1
  <2> QED  BY <2>4, <2>5
<1> HIDE DEF people, t, Address1
<1>5. /\ IsStore(t) /\ t.members = people /\ t.columns = s.columns
      /\ t.accounts = s.accounts /\ t.keys = s.keys
  BY <1>1 DEF IsStore
<1>6. \A m \in DOMAIN s.members : \E w \in 1..m :
        {n \in DOMAIN s.members : people[n].email = s.members[m].email} = {w}
  <2>1. \A x : {n \in DOMAIN s.members : people[n].email = x} = {n \in DOMAIN s.members : Address1(n) = x}
    BY <1>2
  <2> QED  BY <1>4, <2>1
<1> QED  BY <1>2, <1>3, <1>5, <1>6 DEF t

LEMMA WithOneAccountEachRows ==
  ASSUME NEW s, IsStore(s), s.accounts \in [DOMAIN s.accounts -> Mailbox], DOMAIN s.accounts \in {{}, Rank}
  PROVE  LET t == WithOneAccountEach(s) IN
         /\ IsStore(t) /\ t.columns = s.columns /\ t.members = s.members /\ t.keys = s.keys
         /\ DOMAIN t.accounts \subseteq DOMAIN s.accounts
         /\ \A a \in DOMAIN t.accounts : t.accounts[a] = s.accounts[a]
         /\ t.tokens = Restricted(s.tokens, DOMAIN t.accounts)
         /\ t.credentials = Restricted(s.credentials, DOMAIN t.accounts)
         /\ KeepsMailboxes(s, t)
<1> DEFINE kept == {a \in DOMAIN s.accounts : \A w \in DOMAIN s.accounts : ~Wins(s, w, a)}
           t == WithOneAccountEach(s)
<1>1. t = [s EXCEPT !.accounts = Restricted(@, kept), !.tokens = Restricted(@, kept),
                    !.credentials = Restricted(@, kept)]
  BY DEF WithOneAccountEach, Restricted
<1>2. kept \subseteq DOMAIN s.accounts
  OBVIOUS
<1>3. ASSUME NEW a \in DOMAIN s.accounts
      PROVE  \E w \in kept : /\ {b \in kept : s.accounts[b].email = s.accounts[a].email} = {w}
                             /\ s.accounts[a].provider = "gmail" => s.accounts[w].provider = "gmail"
  <2>1. DOMAIN s.accounts = {1, 2} /\ a \in {1, 2}
    BY DEF Rank
  <2> DEFINE Google(x) == s.accounts[x].provider = "gmail"
             alike == s.accounts[1].email = s.accounts[2].email
  <2>2. /\ ~Wins(s, 1, 1) /\ ~Wins(s, 2, 2)
        /\ Wins(s, 1, 2) <=> alike /\ (Google(1) \/ ~Google(2))
        /\ Wins(s, 2, 1) <=> alike /\ Google(2) /\ ~Google(1)
    BY DEF Wins
  <2>3. CASE ~alike
    <3>1. kept = {1, 2}
      BY <2>1, <2>2, <2>3
    <3>2. a \in kept /\ {b \in kept : s.accounts[b].email = s.accounts[a].email} = {a}
      BY <2>1, <2>3, <3>1
    <3> QED  BY <3>2
  <2>4. CASE alike /\ (Google(1) \/ ~Google(2))
    <3>1. kept = {1}
      BY <2>1, <2>2, <2>4
    <3>2. {b \in kept : s.accounts[b].email = s.accounts[a].email} = {1}
      BY <2>1, <2>4, <3>1
    <3> QED  BY <2>1, <2>4, <3>1, <3>2
  <2>5. CASE alike /\ Google(2) /\ ~Google(1)
    <3>1. kept = {2}
      BY <2>1, <2>2, <2>5
    <3>2. {b \in kept : s.accounts[b].email = s.accounts[a].email} = {2}
      BY <2>1, <2>5, <3>1
    <3> QED  BY <2>1, <2>5, <3>1, <3>2
  <2> QED  BY <2>3, <2>4, <2>5
<1> HIDE DEF kept, t
<1>4. t = [format |-> s.format, columns |-> s.columns, malformed |-> s.malformed, members |-> s.members,
           accounts |-> Restricted(s.accounts, kept), keys |-> s.keys,
           tokens |-> Restricted(s.tokens, kept), credentials |-> Restricted(s.credentials, kept)]
  BY <1>1 DEF IsStore
<1>5. /\ IsStore(t) /\ t.columns = s.columns /\ t.members = s.members /\ t.keys = s.keys
      /\ t.accounts = Restricted(s.accounts, kept)
      /\ t.tokens = Restricted(s.tokens, kept) /\ t.credentials = Restricted(s.credentials, kept)
  BY <1>4 DEF IsStore
<1>6. DOMAIN t.accounts = kept /\ \A a \in kept : t.accounts[a] = s.accounts[a]
  BY <1>2, <1>5 DEF Restricted
<1>7. KeepsMailboxes(s, t)
  <2> SUFFICES ASSUME NEW a \in DOMAIN s.accounts
               PROVE  LET same == {b \in DOMAIN t.accounts : t.accounts[b].email = s.accounts[a].email}
                      IN  /\ Cardinality(same) = 1
                          /\ s.accounts[a].provider = "gmail" => \A b \in same : t.accounts[b].provider = "gmail"
    BY DEF KeepsMailboxes
  <2> DEFINE same == {b \in DOMAIN t.accounts : t.accounts[b].email = s.accounts[a].email}
  <2>1. same = {b \in kept : s.accounts[b].email = s.accounts[a].email}
    BY <1>6
  <2>2. PICK w \in kept : /\ {b \in kept : s.accounts[b].email = s.accounts[a].email} = {w}
                          /\ s.accounts[a].provider = "gmail" => s.accounts[w].provider = "gmail"
    BY <1>3
  <2> HIDE DEF same
  <2>3. same = {w}
    BY <2>1, <2>2
  <2>4. Cardinality(same) = 1
    BY <2>3, FS_Singleton
  <2>5. s.accounts[a].provider = "gmail" => \A b \in same : t.accounts[b].provider = "gmail"
    BY <1>6, <2>2, <2>3
  <2> QED  BY <2>4, <2>5 DEF same
<1> QED  BY <1>2, <1>5, <1>6, <1>7 DEF t

\* Which people and which mailboxes an address of s and of t with the same rows belongs to.
LEMMA SameMailboxes ==
  ASSUME NEW s, NEW u, NEW t, DOMAIN u.accounts = DOMAIN s.accounts,
         \A a \in DOMAIN s.accounts :
           u.accounts[a].email = s.accounts[a].email /\ u.accounts[a].provider = s.accounts[a].provider,
         KeepsMailboxes(u, t)
  PROVE  KeepsMailboxes(s, t)
BY DEF KeepsMailboxes

LEMMA FormatOneRows ==
  ASSUME NEW s, IsStore(s), LegacyRows(s)
  PROVE  LET t == FormatOne(s) IN
         /\ IsStore(t) /\ IsWhole(s, t) /\ t.format = 1
         /\ t.tokens = Restricted(s.tokens, DOMAIN t.accounts)
         /\ t.credentials = Restricted(s.credentials, DOMAIN t.accounts)
<1> DEFINE tables == Bootstrapped(s)
           roled == WithRoles(tables)
           invited == WithStatuses(roled)
           columned == WithSharing(invited)
           authorised == WithAuthority(columned)
           keyed == IF LegacyAuthentication(s) THEN [authorised EXCEPT !.keys = {}] ELSE authorised
           owned == WithOwnAddresses(keyed)
           single == WithOneAccountEach(owned)
           t == FormatOne(s)
<1>1. t = [single EXCEPT !.format = 1]
  BY DEF FormatOne
<1>2. /\ IsStore(tables) /\ tables.members = s.members /\ tables.accounts = s.accounts /\ tables.keys = s.keys
      /\ tables.columns \subseteq Column
      /\ "role" \in tables.columns <=> "role" \in s.columns \/ "members" \notin s.columns
      /\ "status" \in tables.columns <=> "status" \in s.columns \/ "members" \notin s.columns
  BY BootstrappedRows DEF LegacyRows
<1> HIDE DEF tables
<1>3. /\ IsStore(roled) /\ roled.accounts = s.accounts /\ roled.keys = s.keys
      /\ roled.columns \subseteq Column
      /\ roled.members \in [DOMAIN s.members -> Person]
      /\ \A m \in DOMAIN s.members :
           /\ roled.members[m].email = s.members[m].email
           /\ roled.members[m].role = IF m = 1 THEN "admin" ELSE "member"
  <2>1. /\ tables.members \in [DOMAIN tables.members -> Person] /\ DOMAIN tables.members \in {{}, Rank}
        /\ "role" \in tables.columns =>
             \A m \in DOMAIN tables.members : tables.members[m].role = IF m = 1 THEN "admin" ELSE "member"
    BY <1>2 DEF LegacyRows
  <2>2. "role" \in Column
    BY DEF Column
  <2> QED  BY <1>2, <2>1, <2>2, WithRolesRows
<1> HIDE DEF roled
<1>4. /\ IsStore(invited) /\ invited.accounts = s.accounts /\ invited.keys = s.keys
      /\ invited.columns \subseteq Column
      /\ invited.members \in [DOMAIN s.members -> Person]
      /\ \A m \in DOMAIN s.members :
           /\ invited.members[m].email = s.members[m].email
           /\ invited.members[m].role = IF m = 1 THEN "admin" ELSE "member"
  <2>1. "status" \in Column /\ roled.members \in [DOMAIN roled.members -> Person] /\ DOMAIN roled.members = DOMAIN s.members
    BY <1>3 DEF Column
  <2> QED  BY <1>3, <2>1, WithStatusesRows
<1> HIDE DEF invited
<1>5. /\ IsStore(columned) /\ columned.members = invited.members /\ columned.keys = s.keys
      /\ columned.columns \subseteq Column
      /\ columned.accounts \in [DOMAIN s.accounts -> Mailbox]
      /\ \A a \in DOMAIN s.accounts :
           /\ columned.accounts[a].email = s.accounts[a].email
           /\ columned.accounts[a].provider = s.accounts[a].provider
           /\ columned.accounts[a].all => s.accounts[a].all \/ columned.accounts[a].owner = 0
  <2>1. invited.accounts \in [DOMAIN invited.accounts -> Mailbox]
    BY <1>4 DEF LegacyRows
  <2> QED  BY <1>4, <2>1, WithSharingRows
<1> HIDE DEF columned
<1>6. /\ IsStore(authorised) /\ authorised.members = columned.members /\ authorised.accounts = columned.accounts
      /\ authorised.columns \subseteq Column
      /\ s.keys = {} => authorised.keys = {}
      /\ \A k \in authorised.keys :
           /\ k.of = 0 \/ k.of \in DOMAIN s.members
           /\ k.manages => k.of = 0 \/ columned.members[k.of].role = "admin"
  <2>1. columned.keys \subseteq StoreKey /\ \A k \in columned.keys : ~k.manages /\ (k.of = 0 \/ k.of \in DOMAIN s.members)
    BY <1>5 DEF LegacyRows
  <2>2. "supplemental" \in Column
    BY DEF Column
  <2> QED  BY <1>5, <2>1, <2>2, WithAuthorityRows
<1> HIDE DEF authorised
<1>7. /\ IsStore(keyed) /\ keyed.members = columned.members /\ keyed.accounts = columned.accounts
      /\ keyed.columns \subseteq Column
      /\ "status" \notin s.columns => keyed.keys = {}
      /\ \A k \in keyed.keys :
           /\ k.of = 0 \/ k.of \in DOMAIN s.members
           /\ k.manages => k.of = 0 \/ columned.members[k.of].role = "admin"
  <2>1. CASE LegacyAuthentication(s)
    <3>1. keyed = [authorised EXCEPT !.keys = {}]
      BY <2>1
    <3> HIDE DEF keyed
    <3> QED  BY <1>6, <3>1 DEF IsStore
  <2>2. CASE ~LegacyAuthentication(s)
    <3>1. "status" \notin s.columns => s.keys = {}
      BY <2>2 DEF LegacyAuthentication, LegacyRows
    <3> QED  BY <1>6, <2>2, <3>1
  <2> QED  BY <2>1, <2>2
<1> HIDE DEF keyed
<1>8. keyed.members \in [DOMAIN s.members -> Person] /\ DOMAIN keyed.members = DOMAIN s.members
      /\ \A m \in DOMAIN s.members :
           /\ keyed.members[m].email = s.members[m].email
           /\ keyed.members[m].role = IF m = 1 THEN "admin" ELSE "member"
  BY <1>4, <1>5, <1>7
<1>9. /\ IsStore(owned) /\ owned.columns \subseteq Column /\ owned.accounts = columned.accounts
      /\ owned.keys = keyed.keys
      /\ owned.members \in [DOMAIN s.members -> Person]
      /\ \A m \in DOMAIN s.members : owned.members[m].role = IF m = 1 THEN "admin" ELSE "member"
      /\ \A m \in DOMAIN s.members : \E w \in 1..m :
           {n \in DOMAIN s.members : owned.members[n].email = s.members[m].email} = {w}
  <2>1. /\ keyed.members \in [DOMAIN keyed.members -> Person] /\ DOMAIN keyed.members \in {{}, Rank}
        /\ \A m \in DOMAIN keyed.members : keyed.members[m].email \in Address
    BY <1>8 DEF LegacyRows
  <2>2. LET u == WithOwnAddresses(keyed) IN
         /\ IsStore(u) /\ u.columns = keyed.columns /\ u.accounts = keyed.accounts /\ u.keys = keyed.keys
         /\ u.members \in [DOMAIN keyed.members -> Person]
         /\ \A m \in DOMAIN keyed.members : u.members[m].role = keyed.members[m].role
         /\ \A m \in DOMAIN keyed.members : \E w \in 1..m :
              {n \in DOMAIN keyed.members : u.members[n].email = keyed.members[m].email} = {w}
    BY <1>7, <2>1, WithOwnAddressesRows
  <2> HIDE DEF owned
  <2>3. owned = WithOwnAddresses(keyed)
    BY DEF owned
  <2> QED  BY <1>7, <1>8, <2>2, <2>3
<1> HIDE DEF owned
<1>10. /\ IsStore(single) /\ single.columns = owned.columns /\ single.members = owned.members
       /\ single.keys = owned.keys
       /\ DOMAIN single.accounts \subseteq DOMAIN s.accounts
       /\ \A a \in DOMAIN single.accounts : single.accounts[a] = columned.accounts[a]
       /\ single.tokens = Restricted(owned.tokens, DOMAIN single.accounts)
       /\ single.credentials = Restricted(owned.credentials, DOMAIN single.accounts)
       /\ KeepsMailboxes(owned, single)
  <2>1. /\ owned.accounts \in [DOMAIN owned.accounts -> Mailbox] /\ DOMAIN owned.accounts \in {{}, Rank}
        /\ DOMAIN owned.accounts = DOMAIN s.accounts
    BY <1>5, <1>9 DEF LegacyRows
  <2> QED  BY <1>9, <2>1, WithOneAccountEachRows
<1>11. SameTokens(owned, s)
  <2>1. SameTokens(tables, s)
    BY BootstrappedKeeps DEF tables
  <2>2. SameTokens(roled, tables)
    BY <1>2, WithRolesKeeps DEF roled
  <2>3. SameTokens(invited, roled)
    BY <1>3, WithStatusesKeeps DEF invited
  <2>4. SameTokens(columned, invited)
    BY <1>4, WithSharingKeeps DEF columned
  <2>5. SameTokens(authorised, columned)
    BY <1>5, WithAuthorityKeeps DEF authorised
  <2>6. SameTokens(keyed, authorised)
    BY <1>6 DEF keyed, IsStore, SameTokens
  <2>7. SameTokens(owned, keyed)
    BY <1>7, WithOwnAddressesKeeps DEF owned
  <2> QED  BY <2>1, <2>2, <2>3, <2>4, <2>5, <2>6, <2>7 DEF SameTokens
<1> HIDE DEF single, t
<1>12. /\ IsStore(t) /\ t.format = 1 /\ t.columns = single.columns /\ t.members = single.members
       /\ t.accounts = single.accounts /\ t.keys = single.keys
       /\ t.tokens = single.tokens /\ t.credentials = single.credentials
  BY <1>1, <1>10 DEF IsStore
<1>13. KeepsPeople(s, t)
  <2>1. t.members \in [DOMAIN s.members -> Person] /\ DOMAIN t.members = DOMAIN s.members
    BY <1>9, <1>10, <1>12
  <2>2. \A m \in DOMAIN s.members : t.members[m].role = IF m = 1 THEN "admin" ELSE "member"
    BY <1>9, <1>10, <1>12
  <2>3. DOMAIN s.members # {} => 1 \in DOMAIN s.members
    BY DEF LegacyRows, Rank
  <2>4. \A m \in DOMAIN s.members : \E w \in 1..m :
          {n \in DOMAIN s.members : t.members[n].email = s.members[m].email} = {w}
    BY <1>9, <1>10, <1>12
  <2> QED  BY <2>1, <2>2, <2>3, <2>4 DEF KeepsPeople
<1>14. KeepsMailboxes(s, t)
  <2>1. KeepsMailboxes(owned, t)
    BY <1>10, <1>12 DEF KeepsMailboxes
  <2> QED  BY <1>5, <1>9, <2>1, SameMailboxes
<1>15. EndsAuthority(s, t)
  <2>1. \A k \in t.keys : k.manages => k.of = 0 \/ t.members[k.of].role = "admin"
    <3> SUFFICES ASSUME NEW k \in t.keys, k.manages, k.of # 0 PROVE t.members[k.of].role = "admin"
      OBVIOUS
    <3>1. k.of \in DOMAIN s.members /\ columned.members[k.of].role = "admin"
      BY <1>7, <1>9, <1>10, <1>12
    <3>2. columned.members[k.of].role = t.members[k.of].role
      BY <3>1, <1>4, <1>5, <1>9, <1>10, <1>12
    <3> QED  BY <3>1, <3>2
  <2>2. \A a \in DOMAIN t.accounts : t.accounts[a].all => s.accounts[a].all \/ t.accounts[a].owner = 0
    BY <1>5, <1>10, <1>12
  <2> QED  BY <1>7, <1>9, <1>10, <1>12, <2>1, <2>2 DEF EndsAuthority
<1>16. /\ t.tokens = Restricted(s.tokens, DOMAIN t.accounts)
       /\ t.credentials = Restricted(s.credentials, DOMAIN t.accounts)
  BY <1>10, <1>11, <1>12 DEF SameTokens
<1> QED  BY <1>9, <1>10, <1>12, <1>13, <1>14, <1>15, <1>16 DEF IsWhole, t

LEMMA SyncedRows ==
  ASSUME NEW s, IsStore(s)
  PROVE  SameRows(Synced(s), s)
<1> PICK u : Synced(s) = [s EXCEPT !.credentials = u]
  BY DEF Synced
<1> QED  BY DEF IsStore, SameRows

LEMMA SameRowsAreWhole ==
  ASSUME NEW s, NEW t, NEW u, NEW v, SameRows(s, u), SameRows(t, v), IsWhole(s, t)
  PROVE  IsWhole(u, v)
<1>1. KeepsPeople(s, t) = KeepsPeople(u, v)
  BY DEF SameRows, KeepsPeople
<1>2. KeepsMailboxes(s, t) = KeepsMailboxes(u, v)
  BY DEF SameRows, KeepsMailboxes
<1>3. EndsAuthority(s, t) = EndsAuthority(u, v)
  BY DEF SameRows, EndsAuthority
<1> QED  BY <1>1, <1>2, <1>3 DEF SameRows, IsWhole

\* Tokens and credentials belong to accounts, and a revision is not above the time it was
\* written: each save raises both.
TimesInBounds(s) ==
  /\ DOMAIN s.tokens \cup DOMAIN s.credentials \subseteq DOMAIN s.accounts
  /\ \A a \in DOMAIN s.tokens : s.tokens[a] \in 1..MaxWrites
  /\ \A a \in DOMAIN s.credentials :
       /\ s.credentials[a] \in [at : 1..MaxWrites, revision : 1..MaxWrites]
       /\ s.credentials[a].revision <= s.credentials[a].at

LEMMA SyncedTimes ==
  ASSUME NEW s, IsStore(s), TimesInBounds(s)
  PROVE  TimesInBounds(Synced(s))
<1> DEFINE t == Synced(s)
<1>1. t.tokens = s.tokens /\ t.accounts = s.accounts
  BY SyncedKeeps, SyncedRows DEF SameRows
<1>2. t.credentials =
        [a \in DOMAIN s.credentials \cup DOMAIN s.tokens |->
           IF a \notin DOMAIN s.credentials THEN [at |-> s.tokens[a], revision |-> 1]
           ELSE IF a \in DOMAIN s.tokens /\ s.tokens[a] > s.credentials[a].at
                THEN [at |-> s.tokens[a], revision |-> s.credentials[a].revision + 1]
                ELSE s.credentials[a]]
  BY SyncedKeeps
<1> HIDE DEF t
<1>3. ASSUME NEW a \in DOMAIN t.credentials
      PROVE  /\ t.credentials[a] \in [at : 1..MaxWrites, revision : 1..MaxWrites]
             /\ t.credentials[a].revision <= t.credentials[a].at
  <2>1. CASE a \notin DOMAIN s.credentials
    <3>1. t.credentials[a] = [at |-> s.tokens[a], revision |-> 1] /\ s.tokens[a] \in 1..MaxWrites
      BY <1>2, <2>1 DEF TimesInBounds
    <3> QED  BY <3>1, MigrationAssumption
  <2>2. CASE a \in DOMAIN s.credentials /\ a \in DOMAIN s.tokens /\ s.tokens[a] > s.credentials[a].at
    <3>1. t.credentials[a] = [at |-> s.tokens[a], revision |-> s.credentials[a].revision + 1]
      BY <1>2, <2>2
    <3>2. /\ s.tokens[a] \in 1..MaxWrites /\ s.credentials[a].at \in 1..MaxWrites
          /\ s.credentials[a].revision \in 1..MaxWrites /\ s.credentials[a].revision <= s.credentials[a].at
      BY <2>2 DEF TimesInBounds
    <3> QED  BY <2>2, <3>1, <3>2, MigrationAssumption
  <2>3. CASE a \in DOMAIN s.credentials /\ ~(a \in DOMAIN s.tokens /\ s.tokens[a] > s.credentials[a].at)
    <3>1. t.credentials[a] = s.credentials[a]
      BY <1>2, <2>3
    <3> QED  BY <2>3, <3>1 DEF TimesInBounds
  <2> QED  BY <2>1, <2>2, <2>3
<1>4. DOMAIN t.credentials = DOMAIN s.credentials \cup DOMAIN s.tokens
  BY <1>2
<1> QED  BY <1>1, <1>3, <1>4 DEF TimesInBounds, t

LEMMA MigratedRows ==
  ASSUME NEW s, IsStore(s), TimesInBounds(s), s.format = 0, LegacyRows(s)
  PROVE  TimesInBounds(Migrated(s)) /\ IsWhole(s, Migrated(s))
<1> DEFINE one == FormatOne(s)
           two == FormatTwo(one)
<1>1. /\ IsStore(one) /\ IsWhole(s, one) /\ one.format = 1
      /\ one.tokens = Restricted(s.tokens, DOMAIN one.accounts)
      /\ one.credentials = Restricted(s.credentials, DOMAIN one.accounts)
  BY FormatOneRows
<1>2. Migrated(s) = Synced(two)
  BY <1>1 DEF Migrated
<1> HIDE DEF one
<1>3. IsStore(two) /\ SameRows(one, two) /\ two.tokens = one.tokens /\ two.credentials = one.credentials
  BY <1>1 DEF FormatTwo, IsStore, SameRows
<1>4. TimesInBounds(two)
  BY <1>1, <1>3 DEF TimesInBounds, Restricted, SameRows
<1> HIDE DEF two
<1>5. SameRows(one, Synced(two))
  BY <1>3, SyncedRows DEF SameRows
<1>6. IsWhole(s, Synced(two))
  BY <1>1, <1>5, SameRowsAreWhole DEF SameRows
<1> QED  BY <1>2, <1>3, <1>4, <1>6, SyncedTimes

------------------------------------------------------------------------------
\* The inductive invariant: until its format changes a store has the rows it was found with,
\* and from then on it is those rows made whole.
WholeIInv ==
  /\ lockedBy = {} \/ \E p \in Opener : lockedBy = {p}
  /\ LegacyRows(legacy)
  /\ TimesInBounds(db)
  /\ db.format = 0 => SameRows(legacy, db)
  /\ db.format # 0 => IsWhole(legacy, db)

OldColumns == Columns \cup {{"members", "api_keys", "oauth_tokens"}}

LEMMA OldColumnsFit ==
  ASSUME NEW columns \in OldColumns
  PROVE  /\ columns \subseteq Column /\ "api_keys" \in columns
         /\ "role" \in columns => "members" \in columns
BY DEF OldColumns, Columns, Column

LEMMA LegacyStoreRows ==
  ASSUME NEW columns \in OldColumns, NEW second \in Address, NEW others \in SUBSET Rank
  PROVE  LET s == LegacyStore(columns, second, others)
         IN  IsStore(s) /\ LegacyRows(s) /\ TimesInBounds(s)
<1> DEFINE s == LegacyStore(columns, second, others)
           people == IF "members" \in columns THEN Rank ELSE {}
           members == [m \in people |->
             [email |-> IF m = 1 THEN "x" ELSE second,
              role |-> IF "role" \notin columns THEN "none" ELSE IF m = 1 THEN "admin" ELSE "member",
              status |-> IF "status" \in columns THEN "active" ELSE "none"]]
           accounts == [a \in Rank |->
             [email |-> IF a = 1 THEN "x" ELSE second, provider |-> IF a \in others THEN "imap" ELSE "gmail",
              owner |-> IF "members" \in columns THEN a - 1 ELSE 0,
              all |-> "sharing_mode" \in columns /\ a = 2]]
           allKeys == {[of |-> k, manages |-> FALSE] : k \in {0} \cup people}
           tokens == [a \in Rank \ others |-> 1]
           creds == [a \in {b \in others : "account_credentials" \in columns} |-> [at |-> 1, revision |-> 1]]
<1>1. s = [NoStore EXCEPT !.columns = columns, !.members = members, !.accounts = accounts, !.keys = allKeys,
             !.tokens = tokens, !.credentials = creds]
  BY DEF LegacyStore
<1>2. people \in {{}, Rank} /\ ("members" \notin columns => people = {})
  OBVIOUS
<1>3. ASSUME NEW m \in people
      PROVE  /\ members[m] \in Person /\ members[m].email \in Address
             /\ "role" \in columns => members[m].role = IF m = 1 THEN "admin" ELSE "member"
  BY DEF Person, Address
<1>4. ASSUME NEW a \in Rank PROVE accounts[a] \in Mailbox
  <2> DEFINE all == "sharing_mode" \in columns /\ a = 2
  <2>1. all \in BOOLEAN
    OBVIOUS
  <2> HIDE DEF all
  <2>2. accounts[a] =
          [email |-> IF a = 1 THEN "x" ELSE second, provider |-> IF a \in others THEN "imap" ELSE "gmail",
           owner |-> IF "members" \in columns THEN a - 1 ELSE 0, all |-> all]
    BY DEF all
  <2> QED  BY <2>1, <2>2 DEF Mailbox, Address, Rank
<1>5. allKeys \subseteq StoreKey /\ \A k \in allKeys : ~k.manages /\ (k.of = 0 \/ k.of \in people)
  <2> SUFFICES ASSUME NEW k \in {0} \cup people, NEW made, made = [of |-> k, manages |-> FALSE]
               PROVE  made \in StoreKey /\ ~made.manages /\ (made.of = 0 \/ made.of \in people)
    OBVIOUS
  <2>1. k \in Nat
    BY DEF Rank
  <2> QED  BY <2>1 DEF StoreKey
<1>6. /\ DOMAIN tokens \cup DOMAIN creds \subseteq Rank
      /\ \A a \in DOMAIN tokens : tokens[a] = 1
      /\ \A a \in DOMAIN creds : creds[a] = [at |-> 1, revision |-> 1]
  OBVIOUS
<1>7. DOMAIN members = people /\ DOMAIN accounts = Rank
  OBVIOUS
<1>8. members \in [people -> Person] /\ accounts \in [Rank -> Mailbox]
  BY <1>3, <1>4
<1> HIDE DEF s, people, members, accounts, allKeys, tokens, creds
<1>9. s = [format |-> 0, columns |-> columns, malformed |-> FALSE, members |-> members, accounts |-> accounts,
           keys |-> allKeys, tokens |-> tokens, credentials |-> creds]
  BY <1>1 DEF NoStore
<1>10. IsStore(s) /\ s.columns = columns /\ s.members = members /\ s.accounts = accounts /\ s.keys = allKeys
       /\ s.tokens = tokens /\ s.credentials = creds
  BY <1>9 DEF IsStore
<1>11. LegacyRows(s)
  BY <1>2, <1>3, <1>5, <1>7, <1>8, <1>10, OldColumnsFit DEF LegacyRows
<1>12. TimesInBounds(s)
  BY <1>6, <1>7, <1>10, MigrationAssumption DEF TimesInBounds
<1> QED  BY <1>10, <1>11, <1>12 DEF s

LEMMA NoStoreRows == LegacyRows(NoStore) /\ TimesInBounds(NoStore)
BY DEF NoStore, NoRows, LegacyRows, TimesInBounds

LEMMA WholeInitInv == ASSUME MigrationInit PROVE WholeIInv
<1>1. LegacyRows(db) /\ TimesInBounds(db)
  <2>1. CASE db \in LegacyStores
    <3> DEFINE Left(columns, second, a) == LegacyStore(columns, second, {a})
    <3>1. LegacyStores = {Left(columns, second, a) : columns \in Columns, second \in Address, a \in Rank}
      BY DEF LegacyStores
    <3>2. ASSUME NEW columns \in Columns, NEW second \in Address, NEW a \in Rank
          PROVE  LegacyRows(Left(columns, second, a)) /\ TimesInBounds(Left(columns, second, a))
      <4>1. columns \in OldColumns /\ {a} \in SUBSET Rank
        BY DEF OldColumns
      <4> QED  BY <4>1, LegacyStoreRows
    <3> HIDE DEF Left
    <3>3. PICK columns \in Columns, second \in Address, a \in Rank : db = Left(columns, second, a)
      BY <2>1, <3>1
    <3> QED  BY <3>2, <3>3
  <2>2. CASE db = Broken
    <3> DEFINE columns == {"members", "api_keys", "oauth_tokens"}
               s == LegacyStore(columns, "y", {})
    <3>1. columns \in OldColumns /\ "y" \in Address /\ {} \in SUBSET Rank
      BY DEF OldColumns, Address
    <3>2. Broken = [s EXCEPT !.malformed = TRUE]
      BY DEF Broken
    <3> HIDE DEF columns
    <3>3. IsStore(s) /\ LegacyRows(s) /\ TimesInBounds(s)
      BY <3>1, LegacyStoreRows
    <3> HIDE DEF s
    <3>4. /\ Broken.columns = s.columns /\ Broken.members = s.members /\ Broken.accounts = s.accounts
          /\ Broken.keys = s.keys /\ Broken.tokens = s.tokens /\ Broken.credentials = s.credentials
      BY <3>2, <3>3 DEF IsStore
    <3> QED  BY <2>2, <3>3, <3>4 DEF LegacyRows, TimesInBounds
  <2> QED  BY <2>1, <2>2, NoStoreRows DEF MigrationInit
<1>2. db.format = 0
  BY MigrationInitInv
<1> QED  BY <1>1, <1>2 DEF MigrationInit, WholeIInv, SameRows

\* A step that leaves every row as it was; what it writes are tokens and the lock.
LEMMA RowsStay ==
  ASSUME WholeIInv, legacy' = legacy, SameRows(db, db'), db'.format = db.format, TimesInBounds(db'),
         lockedBy' = {} \/ \E p \in Opener : lockedBy' = {p}
  PROVE  WholeIInv'
<1>1. ASSUME db.format # 0 PROVE IsWhole(legacy, db')
  BY <1>1, SameRowsAreWhole DEF WholeIInv, SameRows
<1>2. db.format = 0 => SameRows(legacy, db')
  BY DEF WholeIInv, SameRows
<1>3. LegacyRows(legacy)'
  BY DEF WholeIInv, LegacyRows
<1>4. TimesInBounds(db)'
  BY DEF TimesInBounds
<1>5. IsWhole(legacy, db') <=> IsWhole(legacy, db)'
  BY DEF IsWhole, KeepsPeople, KeepsMailboxes, EndsAuthority
<1>6. SameRows(legacy, db') <=> SameRows(legacy, db)'
  BY DEF SameRows
<1> QED  BY <1>1, <1>2, <1>3, <1>4, <1>5, <1>6 DEF WholeIInv

LEMMA SaveTokensRows == ASSUME MigrationIInv, WholeIInv, NEW p \in Opener, SaveTokens(p) PROVE WholeIInv'
<1>1. PICK a \in DOMAIN db.tokens :
        db' = [db EXCEPT !.tokens[a] = Written + 1,
                         !.credentials[a] = [at |-> Written + 1, revision |-> @.revision + 1]]
  BY DEF SaveTokens
<1> DEFINE t == [db.tokens EXCEPT ![a] = Written + 1]
           u == [db.credentials EXCEPT ![a] = [at |-> Written + 1, revision |-> @.revision + 1]]
<1>2. db' = [db EXCEPT !.tokens = t, !.credentials = u]
  BY <1>1
<1>3. /\ Written \in Nat /\ Written < MaxWrites
      /\ \A b \in DOMAIN db.credentials : db.credentials[b].at <= Written
  BY WrittenIsLatest DEF MigrationIInv, SaveTokens
<1>4. DOMAIN t = DOMAIN db.tokens /\ \A b \in DOMAIN t : t[b] \in 1..MaxWrites
  BY <1>3, MigrationAssumption DEF WholeIInv, TimesInBounds
<1>5. ASSUME NEW b \in DOMAIN u
      PROVE  u[b] \in [at : 1..MaxWrites, revision : 1..MaxWrites] /\ u[b].revision <= u[b].at
  <2>1. b \in DOMAIN db.credentials
    OBVIOUS
  <2>2. /\ db.credentials[b] \in [at : 1..MaxWrites, revision : 1..MaxWrites]
        /\ db.credentials[b].revision <= db.credentials[b].at
    BY <2>1 DEF WholeIInv, TimesInBounds
  <2>3. CASE b = a
    <3>1. u[b] = [at |-> Written + 1, revision |-> db.credentials[b].revision + 1]
      BY <2>1, <2>3
    <3> QED  BY <1>3, <2>1, <2>2, <3>1, MigrationAssumption
  <2>4. CASE b # a
    BY <2>2, <2>4
  <2> QED  BY <2>3, <2>4
<1>6. DOMAIN u = DOMAIN db.credentials
  OBVIOUS
<1> HIDE DEF t, u
<1>7. SameRows(db, db') /\ db'.format = db.format /\ db'.tokens = t /\ db'.credentials = u
  BY <1>2 DEF MigrationIInv, IsStore, SameRows
<1>8. TimesInBounds(db')
  BY <1>4, <1>5, <1>6, <1>7 DEF WholeIInv, TimesInBounds, SameRows
<1> QED  BY <1>7, <1>8, RowsStay DEF SaveTokens, WholeIInv

LEMMA OlderSavesTokensRows == ASSUME MigrationIInv, WholeIInv, OlderSavesTokens PROVE WholeIInv'
<1>1. PICK a \in DOMAIN db.tokens : db' = [db EXCEPT !.tokens[a] = Written + 1]
  BY DEF OlderSavesTokens
<1> DEFINE t == [db.tokens EXCEPT ![a] = Written + 1]
<1>2. db' = [db EXCEPT !.tokens = t]
  BY <1>1
<1>3. Written \in Nat /\ Written < MaxWrites
  BY WrittenIsLatest DEF MigrationIInv, OlderSavesTokens
<1>4. DOMAIN t = DOMAIN db.tokens /\ \A b \in DOMAIN t : t[b] \in 1..MaxWrites
  BY <1>3, MigrationAssumption DEF WholeIInv, TimesInBounds
<1> HIDE DEF t
<1>5. SameRows(db, db') /\ db'.format = db.format /\ db'.tokens = t /\ db'.credentials = db.credentials
  BY <1>2 DEF MigrationIInv, IsStore, SameRows
<1>6. TimesInBounds(db')
  BY <1>4, <1>5 DEF WholeIInv, TimesInBounds, SameRows
<1> QED  BY <1>5, <1>6, RowsStay DEF OlderSavesTokens, WholeIInv

LEMMA NewerMigratesRows == ASSUME MigrationIInv, WholeIInv, NewerMigrates PROVE WholeIInv'
<1>1. db' = [db EXCEPT !.format = 3] /\ db.format # 0 /\ legacy' = legacy /\ lockedBy' = lockedBy
  BY DEF NewerMigrates, Current
<1>2. SameRows(db, db') /\ db'.format = 3 /\ db'.tokens = db.tokens /\ db'.credentials = db.credentials
  BY <1>1 DEF MigrationIInv, IsStore, SameRows
<1>3. IsWhole(legacy, db')
  BY <1>1, <1>2, SameRowsAreWhole DEF WholeIInv, SameRows
<1>4. IsWhole(legacy, db)'
  BY <1>1, <1>3 DEF IsWhole, KeepsPeople, KeepsMailboxes, EndsAuthority
<1>5. TimesInBounds(db)'
  BY <1>2 DEF WholeIInv, TimesInBounds, SameRows
<1>6. LegacyRows(legacy)'
  BY <1>1 DEF WholeIInv, LegacyRows
<1> QED  BY <1>1, <1>2, <1>4, <1>5, <1>6 DEF WholeIInv

LEMMA LockedByOne ==
  ASSUME NEW p \in Opener, lockedBy = {} \/ \E q \in Opener : lockedBy = {q}, lockedBy' = lockedBy \ {p}
  PROVE  lockedBy' = {} \/ \E q \in Opener : lockedBy' = {q}
OBVIOUS

LEMMA MigrateStoreRows == ASSUME MigrationIInv, WholeIInv, NEW p \in Opener, MigrateStore(p) PROVE WholeIInv'
<1>1. legacy' = legacy /\ (lockedBy' = {} \/ \E q \in Opener : lockedBy' = {q})
  BY LockedByOne DEF MigrateStore, Frees, Closes, WholeIInv
<1>2. CASE Supported(db.format) /\ ~db.malformed /\ db.format = 0
  <2>1. db' = Migrated(db)
    BY <1>2 DEF MigrateStore
  <2>2. SameRows(legacy, db) /\ LegacyRows(db)
    BY <1>2 DEF WholeIInv, SameRows, LegacyRows
  <2>3. TimesInBounds(db') /\ IsWhole(db, db') /\ db'.format = 2
    BY <1>2, <2>1, <2>2, MigratedRows, MigratedTokens DEF MigrationIInv, WholeIInv
  <2>4. IsWhole(legacy, db')
    BY <2>2, <2>3, SameRowsAreWhole DEF SameRows
  <2>5. IsWhole(legacy, db)'
    BY <1>1, <2>4 DEF IsWhole, KeepsPeople, KeepsMailboxes, EndsAuthority
  <2>6. TimesInBounds(db)'
    BY <2>3 DEF TimesInBounds
  <2>7. LegacyRows(legacy)'
    BY <1>1 DEF WholeIInv, LegacyRows
  <2> QED  BY <1>1, <2>3, <2>5, <2>6, <2>7 DEF WholeIInv
<1>3. CASE Supported(db.format) /\ ~db.malformed /\ db.format # 0
  <2>1. db.format = 2 /\ db' = Migrated(db)
    BY <1>3 DEF MigrateStore, MigrationIInv, Supported, Current
  <2>2. db' = Synced(db)
    BY <2>1 DEF Migrated
  <2>3. SameRows(db, db') /\ db'.format = 2 /\ TimesInBounds(db')
    BY <2>1, <2>2, SyncedKeeps, SyncedRows, SyncedTimes DEF MigrationIInv, WholeIInv, SameRows
  <2> QED  BY <1>1, <2>1, <2>3, RowsStay
<1>4. CASE ~(Supported(db.format) /\ ~db.malformed)
  <2>1. db' = db
    BY <1>4 DEF MigrateStore
  <2> QED  BY <1>1, <2>1, RowsStay DEF SameRows, WholeIInv
<1> QED  BY <1>2, <1>3, <1>4

LEMMA OtherOpenerRows ==
  ASSUME WholeIInv, NEW p \in Opener,
         \/ InspectStore(p) \/ TakeLock(p) \/ TimeOut(p) \/ Connect(p) \/ BackUp(p) \/ OpenFails(p)
         \/ CloseStore(p) \/ OpenerDies(p)
  PROVE  WholeIInv'
<1>1. db' = db /\ legacy' = legacy
  BY DEF InspectStore, TakeLock, TimeOut, Connect, BackUp, OpenFails, CloseStore, OpenerDies
<1>2. lockedBy' = {} \/ \E q \in Opener : lockedBy' = {q}
  <2>1. lockedBy' = lockedBy \/ lockedBy' = {p} \/ lockedBy' = lockedBy \ {p}
    BY DEF InspectStore, TakeLock, TimeOut, Connect, BackUp, OpenFails, CloseStore, OpenerDies, Closes, Frees
  <2> QED  BY <2>1, LockedByOne DEF WholeIInv
<1> QED  BY <1>1, <1>2, RowsStay DEF SameRows, WholeIInv

\* Every mailbox and every person of an old store is in the store that openDb makes of it:
\* each address has one account, Gmail's where it had one, and one member, the earliest; the
\* first member is an administrator, keys from before logins are gone, and no key or sharing
\* allows more than it did.  Whoever opens it, dies or migrates it further.
THEOREM RaisedStoresAreWhole == MigrationSpec => []RaisedWhole
<1>1. MigrationInit => MigrationIInv /\ WholeIInv
  BY MigrationInitInv, WholeInitInv
<1>2. MigrationIInv /\ WholeIInv /\ [MigrationNext]_storeVars => WholeIInv'
  <2> SUFFICES ASSUME MigrationIInv, WholeIInv, [MigrationNext]_storeVars PROVE WholeIInv'
    OBVIOUS
  <2>1. CASE UNCHANGED storeVars
    BY <2>1, RowsStay DEF storeVars, SameRows, WholeIInv
  <2>2. CASE MigrationNext
    BY <2>2, SaveTokensRows, OlderSavesTokensRows, MigrateStoreRows, NewerMigratesRows, OtherOpenerRows
    DEF MigrationNext
  <2> QED  BY <2>1, <2>2
<1>3. MigrationIInv /\ WholeIInv => RaisedWhole
  <2> SUFFICES ASSUME MigrationIInv, WholeIInv PROVE RaisedWhole
    OBVIOUS
  <2>1. db.columns \subseteq Column /\ db.members \in [DOMAIN legacy.members -> Person]
    BY DEF WholeIInv, SameRows, LegacyRows, IsWhole, KeepsPeople
  <2>2. Cardinality(lockedBy) <= 1 /\ lockedBy \subseteq Opener
    <3>1. lockedBy = {} => Cardinality(lockedBy) = 0
      BY FS_EmptySet
    <3>2. \A p : lockedBy = {p} => Cardinality(lockedBy) = 1
      BY FS_Singleton
    <3> QED  BY <3>1, <3>2 DEF WholeIInv
  <2>3. db.format \in 0..Current + 1
    BY DEF MigrationIInv, Current
  <2>4. StoreTypeOK
    BY <2>1, <2>2, <2>3 DEF StoreTypeOK, Person, MigrationIInv, WholeIInv, TimesInBounds
  <2>5. Raised => IsWhole(legacy, db)
    BY <2>3 DEF Raised, WholeIInv, Current
  <2>6. NothingDropped
    BY <2>5 DEF NothingDropped, IsWhole, KeepsPeople, KeepsMailboxes
  <2>7. OldAuthorityEnds
    BY <2>5 DEF OldAuthorityEnds, IsWhole, EndsAuthority
  <2> QED  BY <2>4, <2>6, <2>7 DEF RaisedWhole
<1> QED  BY <1>1, <1>2, <1>3, MigrationInvariance, PTL DEF MigrationSpec

------------------------------------------------------------------------------
(* EncryptionKey: every variable keeps its type for any servers, migrations, keys *)
(* and faults.  And where no migration runs, any number of servers that start *)
(* together agree on one key, whichever of them die or fail, and what they could *)
(* read they can still read. *)

USE DEF Actor, KeyLocation, KeyFile, Torn, NoKeyFile, KeyIs, HasKey, KeyGoto, Throws

\* Who stores has a key.
KeyIsKnown ==
  \A p \in Actor : place[p] \in {"rename", "unlock", "open", "running", "import"} => key[p] \in Key

\* A process only ever moves between the places of the program.
LEMMA PcIsTyped ==
  ASSUME KeyTypeOK, NEW p \in Actor, NEW l \in KeyLocation, KeyGoto(p, l)
  PROVE  place' \in [Actor -> KeyLocation]
  BY DEF KeyTypeOK

LEMMA KeyIsTyped ==
  ASSUME KeyTypeOK, NEW p \in Actor, NEW k \in Key \cup {None}, HasKey(p, k)
  PROVE  key' \in [Actor -> Key \cup {None}]
  BY DEF KeyTypeOK

LEMMA ThrowsIsTyped ==
  ASSUME KeyTypeOK, NEW p \in Actor, Throws(p)
  PROVE  place' \in [Actor -> KeyLocation]
  BY DEF KeyTypeOK

\* The steps of resolveEncryptionKey.
LEMMA ResolvingIsTyped ==
  ASSUME KeyTypeOK, NEW p \in Actor, Resolving(p)
  PROVE  KeyTypeOK'
<1>1. AfterResolving(p) \in KeyLocation  BY DEF AfterResolving
<1>2. CASE Read(p)
  <2>1. key' \in [Actor -> Key \cup {None}]  BY <1>2, KeyIsTyped DEF Read, KeyTypeOK
  <2>2. place' \in [Actor -> KeyLocation]
    <3>1. CASE KeyGoto(p, AfterResolving(p))  BY <3>1, <1>1, PcIsTyped
    <3>2. CASE Throws(p)  BY <3>2, ThrowsIsTyped
    <3>3. CASE KeyGoto(p, "wait")  BY <3>3, PcIsTyped
    <3> QED  BY <1>2, <3>1, <3>2, <3>3 DEF Read
  <2> QED  BY <1>2, <2>1, <2>2 DEF Read, KeyTypeOK
<1>3. CASE Lock(p)
  <2>1. place' \in [Actor -> KeyLocation]  BY <1>3, PcIsTyped DEF Lock
  <2> QED  BY <1>3, <2>1 DEF Lock, KeyTypeOK
<1>4. CASE LookForKey(p)
  <2>1. key' \in [Actor -> Key \cup {None}]
    BY <1>4, KeyIsTyped DEF LookForKey, KeyTypeOK, NewKey
  <2>2. place' \in [Actor -> KeyLocation]
    <3>1. CASE KeyGoto(p, "unlock")  BY <3>1, PcIsTyped
    <3>2. CASE Throws(p)  BY <3>2, ThrowsIsTyped
    <3>3. CASE KeyGoto(p, "rename")  BY <3>3, PcIsTyped
    <3> QED  BY <1>4, <3>1, <3>2, <3>3 DEF LookForKey
  <2> QED  BY <1>4, <2>1, <2>2 DEF LookForKey, KeyTypeOK
<1>5. CASE Rename(p)
  <2>1. place' \in [Actor -> KeyLocation]  BY <1>5, PcIsTyped DEF Rename
  <2>2. created' \in [Actor -> SUBSET {"key", "config"}]  BY <1>5 DEF Rename, KeyTypeOK
  <2>3. keyFile' \in KeyFile  BY <1>5 DEF Rename, KeyTypeOK
  <2> QED  BY <1>5, <2>1, <2>2, <2>3 DEF Rename, KeyTypeOK
<1>6. CASE Unlock(p)
  <2>1. place' \in [Actor -> KeyLocation]  BY <1>6, <1>1, PcIsTyped DEF Unlock
  <2> QED  BY <1>6, <2>1 DEF Unlock, KeyTypeOK
<1> QED  BY <1>2, <1>3, <1>4, <1>5, <1>6 DEF Resolving

\* A process starts and runs.
LEMMA ServingIsTyped ==
  ASSUME KeyTypeOK, KeyIsKnown, NEW s \in Server, KeyStart(s) \/ KeyOpen(s) \/ Store(s)
  PROVE  KeyTypeOK'
<1>1. CASE KeyStart(s)
  <2>1. place' \in [Actor -> KeyLocation]  BY <1>1, PcIsTyped DEF KeyStart
  <2> QED  BY <1>1, <2>1 DEF KeyStart, KeyTypeOK
<1>2. CASE KeyOpen(s)
  <2>1. key' \in [Actor -> Key \cup {None}]  BY <1>2, KeyIsTyped DEF KeyOpen, KeyTypeOK
  <2>2. place' \in [Actor -> KeyLocation]
    <3>1. CASE KeyGoto(s, "running")  BY <3>1, PcIsTyped
    <3>2. CASE KeyGoto(s, "off")  BY <3>2, PcIsTyped
    <3> QED  BY <1>2, <3>1, <3>2 DEF KeyOpen
  <2> QED  BY <1>2, <2>1, <2>2 DEF KeyOpen, KeyTypeOK
<1>3. CASE Store(s)
  <2>1. key[s] \in Key  BY <1>3 DEF Store, KeyIsKnown
  <2> QED  BY <1>3, <2>1 DEF Store, KeyTypeOK
<1> QED  BY <1>1, <1>2, <1>3

\* A migration.
LEMMA MigratingIsTyped ==
  ASSUME KeyTypeOK, KeyIsKnown, NEW m \in Migration, KeyBegin(m) \/ MigrationStep(m)
  PROVE  KeyTypeOK'
<1>a. Imports[m] \in Key \cup {None} /\ m \notin Server  BY EncryptionKeyAssumption
<1>b. ASSUME NEW l \in KeyLocation, KeyGoto(m, l)
      PROVE  place' \in [Actor -> KeyLocation]
  BY <1>b, PcIsTyped
<1>1. CASE KeyBegin(m)
  <2>1. place' \in [Actor -> KeyLocation]  BY <1>1, <1>b DEF KeyBegin
  <2> QED  BY <1>1, <2>1 DEF KeyBegin, KeyTypeOK
<1>2. CASE Resolve(m)
  <2>1. place' \in [Actor -> KeyLocation]
    <3>1. CASE KeyGoto(m, "done")  BY <3>1, <1>b
    <3>2. CASE KeyGoto(m, "check")  BY <3>2, <1>b
    <3> QED  BY <1>2, <3>1, <3>2 DEF Resolve
  <2>2. key' \in [Actor -> Key \cup {None}]
    <3>1. CASE UNCHANGED key  BY <3>1 DEF KeyTypeOK
    <3>2. CASE HasKey(m, IF Imports[m] # None THEN Imports[m] ELSE keyFile.content)
               /\ ~(Imports[m] = None /\ keyFile.content = Torn)
      <4>1. keyFile.content \in Key \cup {None, Torn}  BY DEF KeyTypeOK
      <4> QED  BY <3>2, <4>1, <1>a, KeyIsTyped
    <3> QED  BY <1>2, <3>1, <3>2 DEF Resolve
  <2> QED  BY <1>2, <2>1, <2>2 DEF Resolve, KeyTypeOK
<1>3. CASE Check(m)
  <2>1. place' \in [Actor -> KeyLocation]
    <3>1. CASE KeyGoto(m, "done")  BY <3>1, <1>b
    <3>2. CASE KeyGoto(m, "inspect")  BY <3>2, <1>b
    <3> QED  BY <1>3, <3>1, <3>2 DEF Check
  <2> QED  BY <1>3, <2>1 DEF Check, KeyTypeOK
<1>4. CASE Inspect(m)
  <2>1. place' \in [Actor -> KeyLocation]
    <3>1. CASE KeyGoto(m, "done")  BY <3>1, <1>b
    <3>2. CASE KeyGoto(m, "put")  BY <3>2, <1>b
    <3> QED  BY <1>4, <3>1, <3>2 DEF Inspect
  <2>2. keyExistedBefore' \subseteq Migration  BY <1>4 DEF Inspect, NoteKey, KeyTypeOK
  <2> QED  BY <1>4, <2>1, <2>2 DEF Inspect, KeyTypeOK
<1>5. CASE PutKey(m)
  <2>1. place' \in [Actor -> KeyLocation]
    <3>1. CASE KeyGoto(m, "fill")  BY <3>1, <1>b
    <3>2. CASE KeyGoto(m, "config")  BY <3>2, <1>b
    <3> QED  BY <1>5, <3>1, <3>2 DEF PutKey
  <2>2. keyFile' \in KeyFile  BY <1>5 DEF PutKey, KeyTypeOK
  <2> QED  BY <1>5, <2>1, <2>2 DEF PutKey, KeyTypeOK
<1>6. CASE FillKey(m)
  <2>1. place' \in [Actor -> KeyLocation]  BY <1>6, <1>b DEF FillKey
  <2>2. keyFile' \in KeyFile  BY <1>6 DEF FillKey, KeyTypeOK
  <2>3. created' \in [Actor -> SUBSET {"key", "config"}]  BY <1>6 DEF FillKey, KeyTypeOK
  <2> QED  BY <1>6, <2>1, <2>2, <2>3 DEF FillKey, KeyTypeOK
<1>7. CASE PutConfig(m)
  <2>1. place' \in [Actor -> KeyLocation]
    <3>1. AfterConfig(m) \in KeyLocation  BY DEF AfterConfig
    <3> QED  BY <1>7, <3>1, <1>b DEF PutConfig
  <2>2. created' \in [Actor -> SUBSET {"key", "config"}]  BY <1>7 DEF PutConfig, KeyTypeOK
  <2>3. configFile' \in Migration \cup {None}  BY <1>7 DEF PutConfig, KeyTypeOK
  <2> QED  BY <1>7, <2>1, <2>2, <2>3 DEF PutConfig, KeyTypeOK
<1>8. CASE Import(m)
  <2>1. place' \in [Actor -> KeyLocation]  BY <1>8, <1>b DEF Import
  <2>2. key[m] \in Key  BY <1>8 DEF Import, KeyIsKnown
  <2> QED  BY <1>8, <2>1, <2>2 DEF Import, KeyTypeOK
<1>9. CASE RollConfig(m)
  <2>1. place' \in [Actor -> KeyLocation]  BY <1>9, <1>b DEF RollConfig
  <2> QED  BY <1>9, <2>1 DEF RollConfig, KeyTypeOK
<1>10. CASE RollKey(m)
  <2>1. place' \in [Actor -> KeyLocation]  BY <1>10, <1>b DEF RollKey
  <2>2. keyFile' \in KeyFile  BY <1>10 DEF RollKey, KeyTypeOK
  <2> QED  BY <1>10, <2>1, <2>2 DEF RollKey, KeyTypeOK
<1>11. CASE FinishMigration(m)
  <2>1. place' \in [Actor -> KeyLocation]  BY <1>11, <1>b DEF FinishMigration
  <2>2. key' \in [Actor -> Key \cup {None}]  BY <1>11, KeyIsTyped DEF FinishMigration
  <2>3. created' \in [Actor -> SUBSET {"key", "config"}]  BY <1>11 DEF FinishMigration, KeyTypeOK
  <2> QED  BY <1>11, <2>1, <2>2, <2>3 DEF FinishMigration, KeyTypeOK
<1> QED  BY <1>1, <1>2, <1>3, <1>4, <1>5, <1>6, <1>7, <1>8, <1>9, <1>10, <1>11 DEF MigrationStep

LEMMA FailingIsTyped ==
  ASSUME KeyTypeOK, NEW p \in Actor, Fails(p) \/ KeyCrash(p)
  PROVE  KeyTypeOK'
<1>1. CASE Fails(p)
  <2>1. place' \in [Actor -> KeyLocation]  BY <1>1, ThrowsIsTyped DEF Fails
  <2>2. key' \in [Actor -> Key \cup {None}]  BY <1>1 DEF Fails, KeyTypeOK
  <2>3. keyLock' \in Actor \cup {None}  BY <1>1 DEF Fails, KeyTypeOK, LocksReleased
  <2> QED  BY <1>1, <2>1, <2>2, <2>3 DEF Fails, KeyTypeOK
<1>2. CASE KeyCrash(p)
  <2>1. place' \in [Actor -> KeyLocation]  BY <1>2, PcIsTyped DEF KeyCrash
  <2>2. key' \in [Actor -> Key \cup {None}]  BY <1>2, KeyIsTyped DEF KeyCrash
  <2>3. created' \in [Actor -> SUBSET {"key", "config"}]  BY <1>2 DEF KeyCrash, KeyTypeOK
  <2>4. keyLock' \in Actor \cup {None} /\ migrationLock' \in Migration \cup {None}
    BY <1>2 DEF KeyCrash, KeyTypeOK, LocksReleased
  <2> QED  BY <1>2, <2>1, <2>2, <2>3, <2>4 DEF KeyCrash, KeyTypeOK
<1> QED  BY <1>1, <1>2

-----------------------------------------------------------------------------
\* KeyIsKnown is kept as well.
LEMMA KeyStaysKnown ==
  ASSUME KeyTypeOK, KeyIsKnown, [KeyNext]_keyVars
  PROVE  KeyIsKnown'
<1> SUFFICES ASSUME NEW q \in Actor,
                    place'[q] \in {"rename", "unlock", "open", "running", "import"}
             PROVE  key'[q] \in Key
  BY DEF KeyIsKnown
<1>a. Imports \in [Migration -> Key \cup {None}]  BY EncryptionKeyAssumption
<1>b. place \in [Actor -> KeyLocation] /\ key \in [Actor -> Key \cup {None}]  BY DEF KeyTypeOK
<1>c. place[q] \in {"rename", "unlock", "open", "running", "import"} => key[q] \in Key
  BY DEF KeyIsKnown
<1>1. ASSUME NEW p \in Actor, Resolving(p)
      PROVE  key'[q] \in Key
  <2>1. CASE Read(p)  BY <2>1, <1>b, <1>c DEF Read, AfterResolving
  <2>2. CASE Lock(p)  BY <2>2, <1>b, <1>c DEF Lock
  <2>3. CASE LookForKey(p)  BY <2>3, <1>b, <1>c DEF LookForKey, NewKey
  <2>4. CASE Rename(p)  BY <2>4, <1>b, <1>c DEF Rename
  <2>5. CASE Unlock(p)  BY <2>5, <1>b, <1>c DEF Unlock, AfterResolving
  <2> QED  BY <1>1, <2>1, <2>2, <2>3, <2>4, <2>5 DEF Resolving
<1>2. ASSUME NEW s \in Server, KeyStart(s) \/ KeyOpen(s) \/ Store(s)
      PROVE  key'[q] \in Key
  <2>1. CASE KeyStart(s)  BY <2>1, <1>b, <1>c DEF KeyStart
  <2>2. CASE KeyOpen(s)  BY <2>2, <1>b, <1>c DEF KeyOpen
  <2>3. CASE Store(s)  BY <2>3, <1>b, <1>c DEF Store
  <2> QED  BY <1>2, <2>1, <2>2, <2>3
<1>3. ASSUME NEW m \in Migration, KeyBegin(m) \/ MigrationStep(m)
      PROVE  key'[q] \in Key
  <2>1. CASE KeyBegin(m)  BY <2>1, <1>b, <1>c DEF KeyBegin
  <2>2. CASE Resolve(m)  BY <2>2, <1>b, <1>c DEF Resolve
  <2>3. CASE Check(m)  BY <2>3, <1>b, <1>c DEF Check
  <2>4. CASE Inspect(m)  BY <2>4, <1>b, <1>c DEF Inspect
  <2>5. CASE PutKey(m)  BY <2>5, <1>b, <1>c DEF PutKey
  <2>6. CASE FillKey(m)  BY <2>6, <1>b, <1>c DEF FillKey
  <2>7. CASE PutConfig(m)  BY <2>7, <1>b, <1>c DEF PutConfig, AfterConfig
  <2>8. CASE Import(m)  BY <2>8, <1>b, <1>c DEF Import
  <2>9. CASE RollConfig(m)  BY <2>9, <1>b, <1>c DEF RollConfig
  <2>10. CASE RollKey(m)  BY <2>10, <1>b, <1>c DEF RollKey
  <2>11. CASE FinishMigration(m)  BY <2>11, <1>b, <1>c DEF FinishMigration
  <2> QED
    BY <1>3, <2>1, <2>2, <2>3, <2>4, <2>5, <2>6, <2>7, <2>8, <2>9, <2>10, <2>11 DEF MigrationStep
<1>4. ASSUME NEW p \in Actor, Fails(p) \/ KeyCrash(p)
      PROVE  key'[q] \in Key
  <2>1. CASE Fails(p)  BY <2>1, <1>b, <1>c DEF Fails
  <2>2. CASE KeyCrash(p)  BY <2>2, <1>b, <1>c DEF KeyCrash
  <2> QED  BY <1>4, <2>1, <2>2
<1>5. CASE UNCHANGED keyVars  BY <1>5, <1>c DEF keyVars
<1> QED  BY <1>1, <1>2, <1>3, <1>4, <1>5 DEF KeyNext

\* Who is there stays: no step makes a process absent.
LEMMA AbsentStaysAbsent ==
  ASSUME KeyTypeOK, [KeyNext]_keyVars, ServersOnly'
  PROVE  ServersOnly
<1> SUFFICES ASSUME NEW q \in Migration, place'[q] = "absent"
             PROVE  place[q] = "absent"
  BY DEF ServersOnly
<1>b. place \in [Actor -> KeyLocation]  BY DEF KeyTypeOK
<1>1. ASSUME NEW p \in Actor, Resolving(p)
      PROVE  place[q] = "absent"
  BY <1>1, <1>b DEF Resolving, Read, Lock, LookForKey, Rename, Unlock, AfterResolving
<1>2. ASSUME NEW s \in Server, KeyStart(s) \/ KeyOpen(s) \/ Store(s)
      PROVE  place[q] = "absent"
  BY <1>2, <1>b DEF KeyStart, KeyOpen, Store
<1>3. ASSUME NEW m \in Migration, KeyBegin(m) \/ MigrationStep(m)
      PROVE  place[q] = "absent"
  BY <1>3, <1>b DEF KeyBegin, MigrationStep, Resolve, Check, Inspect, PutKey, FillKey,
                    PutConfig, AfterConfig, Import, RollConfig, RollKey, FinishMigration
<1>4. ASSUME NEW p \in Actor, Fails(p) \/ KeyCrash(p)
      PROVE  place[q] = "absent"
  BY <1>4, <1>b DEF Fails, KeyCrash
<1>5. CASE UNCHANGED keyVars  BY <1>5 DEF keyVars
<1> QED  BY <1>1, <1>2, <1>3, <1>4, <1>5 DEF KeyNext

\* Every variable keeps its type, for any processes, keys and faults.
THEOREM TypesAreKept == KeySpec => []KeyTypeOK
<1>1. KeyInit => KeyTypeOK /\ KeyIsKnown
  BY EncryptionKeyAssumption DEF KeyInit, KeyTypeOK, KeyIsKnown
<1>2. KeyTypeOK /\ KeyIsKnown /\ [KeyNext]_keyVars => (KeyTypeOK /\ KeyIsKnown)'
  <2> SUFFICES ASSUME KeyTypeOK, KeyIsKnown, [KeyNext]_keyVars
               PROVE  KeyTypeOK'
    BY KeyStaysKnown
  <2>1. CASE UNCHANGED keyVars  BY <2>1 DEF keyVars, KeyTypeOK
  <2>2. CASE KeyNext
    BY <2>2, ServingIsTyped, MigratingIsTyped, ResolvingIsTyped, FailingIsTyped DEF KeyNext
  <2> QED  BY <2>1, <2>2
<1> QED  BY <1>1, <1>2, PTL DEF KeySpec

-----------------------------------------------------------------------------
(* Servers that start together, without a migration. *)

\* Only the process in the lock has looked for a key, or makes one: so the file
\* does not change any more once there is a key, and all have that one.
OneMakesIt == \A p \in Actor :
  /\ place[p] \in {"look", "rename", "unlock"} => keyLock = p
  /\ place[p] = "rename" => keyFile.content = None
  /\ place[p] \in {"unlock", "open", "running"} => key[p] = keyFile.content

\* The step of one server keeps that, and a store that can be read.
LEMMA OneKeepsMakingIt ==
  ASSUME ServersOnly, KeyTypeOK, KeyIsKnown, OneMakesIt, [KeyNext]_keyVars
  PROVE  /\ ServersOnly' /\ OneMakesIt'
         /\ Readable(keyFile.content) => Readable(keyFile.content)'
<1> DEFINE Kept == /\ ServersOnly' /\ OneMakesIt'
                   /\ Readable(keyFile.content) => Readable(keyFile.content)'
<1>b. place \in [Actor -> KeyLocation] /\ key \in [Actor -> Key \cup {None}]
      /\ keyFile \in KeyFile /\ stored \subseteq Key
  BY DEF KeyTypeOK
<1>c. None \notin Key /\ None \notin Actor /\ Torn \notin Key /\ Server \cap Migration = {}
  BY EncryptionKeyAssumption
<1>1. CASE UNCHANGED keyVars
  BY <1>1 DEF keyVars, OneMakesIt, ServersOnly, Readable
<1>2. ASSUME NEW p \in Actor, Read(p) PROVE Kept
  <2>1. p \in Server  BY <1>2 DEF Read, ServersOnly
  <2> QED  BY <1>b, <1>c, <1>2, <2>1 DEF Read, AfterResolving, OneMakesIt, ServersOnly, Readable
<1>3. ASSUME NEW p \in Actor, Lock(p) PROVE Kept
  BY <1>b, <1>c, <1>3 DEF Lock, OneMakesIt, ServersOnly, Readable
<1>4. ASSUME NEW p \in Actor, LookForKey(p) PROVE Kept
  <2>1. p \in Server  BY <1>4 DEF LookForKey, ServersOnly
  <2> QED  BY <1>b, <1>c, <1>4, <2>1 DEF LookForKey, NewKey, OneMakesIt, ServersOnly, Readable
<1>5. ASSUME NEW p \in Actor, Rename(p) PROVE Kept
  <2>1. keyFile.content = None /\ keyLock = p
    BY <1>b, <1>c, <1>5 DEF Rename, OneMakesIt
  <2>2. keyFile'.content = key[p] /\ key[p] \in Key  BY <1>5 DEF Rename, KeyIsKnown
  <2>3. ASSUME NEW q \in Actor, q # p
        PROVE  place[q] \notin {"look", "rename", "unlock", "open", "running"}
    <3>1. place[q] \notin {"look", "rename", "unlock"}  BY <2>1, <2>3 DEF OneMakesIt
    <3>2. place[q] \in {"open", "running"} => key[q] = None /\ key[q] \in Key
      BY <2>1 DEF OneMakesIt, KeyIsKnown
    <3> QED  BY <3>1, <3>2, <1>c
  <2>4. OneMakesIt'  BY <1>b, <1>5, <2>1, <2>2, <2>3 DEF Rename, OneMakesIt
  <2>5. ServersOnly'  BY <1>b, <1>5 DEF Rename, ServersOnly
  <2>6. Readable(keyFile.content) => Readable(keyFile.content)'
    BY <1>b, <1>c, <1>5, <2>1 DEF Rename, Readable
  <2> QED  BY <2>4, <2>5, <2>6
<1>6. ASSUME NEW p \in Actor, Unlock(p) PROVE Kept
  <2>1. p \in Server  BY <1>6 DEF Unlock, ServersOnly
  <2> QED  BY <1>b, <1>c, <1>6, <2>1 DEF Unlock, AfterResolving, OneMakesIt, ServersOnly, Readable
<1>7. ASSUME NEW s \in Server, KeyStart(s) PROVE Kept
  BY <1>b, <1>7 DEF KeyStart, OneMakesIt, ServersOnly, Readable
<1>8. ASSUME NEW s \in Server, KeyOpen(s) PROVE Kept
  BY <1>b, <1>8 DEF KeyOpen, OneMakesIt, ServersOnly, Readable
<1>9. ASSUME NEW s \in Server, Store(s) PROVE Kept
  BY <1>b, <1>9 DEF Store, OneMakesIt, ServersOnly, Readable
<1>10. ASSUME NEW p \in Actor, Fails(p) PROVE Kept
  <2>1. p \in Server  BY <1>10 DEF Fails, ServersOnly
  <2> QED  BY <1>b, <1>c, <1>10, <2>1 DEF Fails, LocksReleased, OneMakesIt, ServersOnly, Readable
<1>11. ASSUME NEW p \in Actor, KeyCrash(p) PROVE Kept
  BY <1>b, <1>c, <1>11 DEF KeyCrash, LocksReleased, OneMakesIt, ServersOnly, Readable
<1>12. ASSUME NEW m \in Migration, KeyBegin(m) \/ MigrationStep(m) PROVE FALSE
  BY <1>12 DEF ServersOnly, KeyBegin, MigrationStep, Resolve, Check, Inspect, PutKey, FillKey,
               PutConfig, Import, RollConfig, RollKey, FinishMigration
<1> HIDE DEF Kept
<1>13. Kept
  BY <1>2, <1>3, <1>4, <1>5, <1>6, <1>7, <1>8, <1>9, <1>10, <1>11, <1>12, <1>1 DEF KeyNext, Resolving, Kept
<1> QED  BY <1>13 DEF Kept

\* Where no migration is there, no server ever runs with a key that is not in the
\* file: any number of them, starting at once, share one key.
THEOREM ServersShareOneKey == KeySpec => []ServersAgree
<1> DEFINE Inv == KeyIsKnown /\ (ServersOnly => OneMakesIt)
<1>1. KeyInit => Inv
  BY DEF KeyInit, KeyIsKnown, OneMakesIt
<1>2. Inv => ServersAgree
  BY DEF OneMakesIt, ServersAgree
<1>3. KeyTypeOK /\ Inv /\ [KeyNext]_keyVars => Inv'
  <2> SUFFICES ASSUME KeyTypeOK, Inv, [KeyNext]_keyVars  PROVE Inv'
    OBVIOUS
  <2>1. KeyIsKnown'  BY KeyStaysKnown
  <2>2. ServersOnly => OneMakesIt'  BY OneKeepsMakingIt
  <2>3. ServersOnly' => ServersOnly  BY AbsentStaysAbsent
  <2> QED  BY <2>1, <2>2, <2>3
<1>4. KeySpec => []KeyTypeOK  BY TypesAreKept
<1> QED  BY <1>1, <1>2, <1>3, <1>4, PTL DEF KeySpec

\* And no step of theirs makes unreadable what could be read.
THEOREM ServersKeepStoreReadable ==
  KeySpec => [][ServersOnly => (Readable(keyFile.content) => Readable(keyFile.content)')]_keyVars
<1> DEFINE Inv == KeyIsKnown /\ (ServersOnly => OneMakesIt)
<1>1. KeyInit => Inv
  BY DEF KeyInit, KeyIsKnown, OneMakesIt
<1>2. KeyTypeOK /\ Inv /\ [KeyNext]_keyVars => Inv'
  <2> SUFFICES ASSUME KeyTypeOK, Inv, [KeyNext]_keyVars  PROVE Inv'
    OBVIOUS
  <2>1. KeyIsKnown'  BY KeyStaysKnown
  <2>2. ServersOnly => OneMakesIt'  BY OneKeepsMakingIt
  <2>3. ServersOnly' => ServersOnly  BY AbsentStaysAbsent
  <2> QED  BY <2>1, <2>2, <2>3
<1>3. KeyTypeOK /\ Inv /\ [KeyNext]_keyVars
        => [ServersOnly => (Readable(keyFile.content) => Readable(keyFile.content)')]_keyVars
  BY OneKeepsMakingIt
<1>4. KeySpec => []KeyTypeOK  BY TypesAreKept
<1> QED  BY <1>1, <1>2, <1>3, <1>4, PTL DEF KeySpec

------------------------------------------------------------------------------
(* The files of migrations. *)

\* A migration that is under way is inside its lock, and one that is not has made nothing.
Resting(m) == place[m] \in {"absent", "off"}
OneMigrates ==
  /\ \A m \in Migration : ~Resting(m) => migrationLock = m
  /\ \A m \in Migration : place[m] \in {"absent", "off", "resolve", "check", "inspect", "put", "fill"} => created[m] \subseteq {}

\* From its check on, the config.toml is the one the migration has made, or none.
ConfigIsOwn(m) ==
  /\ "config" \in created[m] => m \in Deploys
  /\ place[m] = "config" => "config" \notin created[m]
  /\ m \in Deploys /\ place[m] \in {"inspect", "put", "fill", "config", "read", "wait", "look", "rename", "unlock",
                                    "import", "rollConfig"} =>
       configFile = IF "config" \in created[m] THEN m ELSE None
  /\ m \in Deploys /\ place[m] = "rollKey" => configFile = None

\* Without servers, the key that a migration has is the one in the file or to come there,
\* it opens what is stored, and a key file that was not there before is its own.
KeyIsOwn(m) ==
  /\ place[m] \in {"check", "inspect", "put"} =>
       /\ key[m] = IF Imports[m] # None THEN Imports[m] ELSE keyFile.content
       /\ Imports[m] = None => keyFile.content # Torn
  /\ place[m] \in {"inspect", "put"} /\ Imports[m] # None => keyFile.content \in {None, Imports[m]}
  /\ place[m] \in {"put", "fill"} => Readable(key[m])
  /\ place[m] = "fill" => keyFile = [content |-> Torn, by |-> m] /\ key[m] \in Key
  /\ place[m] \in {"config", "unlock", "import"} => key[m] = keyFile.content /\ Readable(key[m])
  /\ place[m] \in {"read", "wait", "look", "rename"} => keyFile.content = None /\ stored = {}
  /\ place[m] = "rename" => key[m] \in Key
  /\ "key" \in created[m] /\ place[m] # "done" => keyFile.by = m
  /\ /\ place[m] \in {"put", "fill", "config", "read", "wait", "look", "rename", "unlock", "import", "rollConfig", "rollKey"}
     /\ m \notin keyExistedBefore /\ "key" \notin created[m]
     => keyFile.content \in {None, Torn}
KeyOpens == keyFile.content \in Key => Readable(keyFile.content)

FilesIInv ==
  /\ OneMigrates
  /\ \A m \in Migration : ConfigIsOwn(m)
  /\ MigrationsOnly => KeyOpens /\ \A m \in Migration : KeyIsOwn(m)

\* A step of one process.
Moves(p) ==
  \/ Resolving(p) \/ Fails(p) \/ KeyCrash(p)
  \/ p \in Server /\ (KeyStart(p) \/ KeyOpen(p) \/ Store(p))
  \/ p \in Migration /\ (KeyBegin(p) \/ MigrationStep(p))

LEMMA SomeoneMoves == ASSUME KeyNext PROVE \E p \in Actor : Moves(p)
  BY DEF KeyNext, Moves

\* Nobody else is changed by it, and what a migration does the others wait for.
LEMMA OthersStay ==
  ASSUME KeyTypeOK, OneMigrates, NEW p \in Actor, Moves(p), NEW m \in Migration, m # p
  PROVE  /\ place'[m] = place[m] /\ created'[m] = created[m] /\ key'[m] = key[m]
         /\ m \in keyExistedBefore' <=> m \in keyExistedBefore
         /\ p \in Migration => Resting(m)
         /\ p \notin Migration => migrationLock' = migrationLock /\ configFile' = configFile
<1>1. place \in [Actor -> KeyLocation] /\ key \in [Actor -> Key \cup {None}] /\ created \in [Actor -> SUBSET {"key", "config"}]
  BY DEF KeyTypeOK
<1>2. None \notin Actor /\ Server \cap Migration = {} /\ migrationLock \in Migration \cup {None}
  BY EncryptionKeyAssumption DEF KeyTypeOK
<1>3. CASE Resolving(p)
  <2>1. /\ place'[m] = place[m] /\ created'[m] = created[m] /\ key'[m] = key[m]
        /\ keyExistedBefore' = keyExistedBefore /\ migrationLock' = migrationLock /\ configFile' = configFile
    BY <1>1, <1>3 DEF Resolving, Read, Lock, LookForKey, Rename, Unlock
  <2>2. place[p] \notin {"absent", "off"}
    BY <1>3 DEF Resolving, Read, Lock, LookForKey, Rename, Unlock
  <2> QED
    BY <1>2, <2>1, <2>2 DEF OneMigrates, Resting
<1>4. CASE Fails(p)
  BY <1>1, <1>2, <1>4 DEF Fails, OneMigrates, Resting
<1>5. CASE KeyCrash(p)
  BY <1>1, <1>2, <1>5 DEF KeyCrash, LocksReleased, OneMigrates, Resting
<1>6. CASE p \in Server /\ (KeyStart(p) \/ KeyOpen(p) \/ Store(p))
  BY <1>1, <1>2, <1>6 DEF KeyStart, KeyOpen, Store
<1>7. CASE p \in Migration /\ KeyBegin(p)
  BY <1>1, <1>2, <1>7 DEF KeyBegin, OneMigrates, Resting
<1>8. CASE p \in Migration /\ MigrationStep(p)
  <2>1. place[p] \notin {"absent", "off"}
    BY <1>8 DEF MigrationStep, Resolve, Check, Inspect, PutKey, FillKey, PutConfig, Import, RollConfig, RollKey, FinishMigration
  <2>2. place'[m] = place[m] /\ created'[m] = created[m] /\ key'[m] = key[m]
    BY <1>1, <1>8 DEF MigrationStep, Resolve, Check, Inspect, PutKey, FillKey, PutConfig, Import, RollConfig, RollKey,
                      FinishMigration
  <2>3. m \in keyExistedBefore' <=> m \in keyExistedBefore
    BY <1>8 DEF MigrationStep, Resolve, Check, Inspect, NoteKey, PutKey, FillKey, PutConfig, Import, RollConfig, RollKey,
                FinishMigration
  <2> QED
    BY <1>2, <1>8, <2>1, <2>2, <2>3 DEF OneMigrates, Resting
<1> QED
  BY <1>3, <1>4, <1>5, <1>6, <1>7, <1>8 DEF Moves

\* A migration that moves goes on inside its lock, or is over.
LEMMA OneMigratesStill == ASSUME KeyTypeOK, OneMigrates, NEW p \in Actor, Moves(p) PROVE OneMigrates'
<1>1. place \in [Actor -> KeyLocation] /\ created \in [Actor -> SUBSET {"key", "config"}]
  BY DEF KeyTypeOK
<1>2. None \notin Actor /\ Server \cap Migration = {}
  BY EncryptionKeyAssumption
<1>3. ASSUME NEW m \in Migration, m # p, ~Resting(m)' PROVE migrationLock' = m
  BY <1>2, <1>3, OthersStay DEF OneMigrates, Resting
<1>4. ASSUME NEW m \in Migration, m # p, place'[m] \in {"absent", "off", "resolve", "check", "inspect", "put", "fill"}
      PROVE  created'[m] \subseteq {}
  BY <1>4, OthersStay DEF OneMigrates
<1>5. ASSUME p \in Migration
      PROVE  /\ ~Resting(p)' => migrationLock' = p
             /\ place'[p] \in {"absent", "off", "resolve", "check", "inspect", "put", "fill"} => created'[p] \subseteq {}
  <2>1. CASE Resolving(p)
    BY <1>1, <1>2, <1>5, <2>1 DEF Resolving, Read, Lock, LookForKey, Rename, Unlock, AfterResolving, OneMigrates, Resting
  <2>2. CASE Fails(p)
    BY <1>1, <1>2, <1>5, <2>2 DEF Fails, OneMigrates, Resting
  <2>3. CASE KeyCrash(p)
    BY <1>1, <1>5, <2>3 DEF KeyCrash, Resting
  <2>4. CASE KeyBegin(p)
    BY <1>1, <1>5, <2>4 DEF KeyBegin, OneMigrates
  <2>5. CASE MigrationStep(p)
    BY <1>1, <1>5, <2>5 DEF MigrationStep, Resolve, Check, Inspect, PutKey, FillKey, PutConfig, AfterConfig, Import, RollConfig,
                            RollKey, FinishMigration, OneMigrates, Resting
  <2> QED
    BY <1>2, <1>5, <2>1, <2>2, <2>3, <2>4, <2>5 DEF Moves
<1> QED
  BY <1>3, <1>4, <1>5 DEF OneMigrates

\* Its config.toml.
LEMMA ConfigStaysOwn ==
  ASSUME KeyTypeOK, OneMigrates, \A m \in Migration : ConfigIsOwn(m), NEW p \in Actor, Moves(p)
  PROVE  (\A m \in Migration : ConfigIsOwn(m))'
<1>1. place \in [Actor -> KeyLocation] /\ created \in [Actor -> SUBSET {"key", "config"}]
  BY DEF KeyTypeOK
<1>2. None \notin Actor /\ Server \cap Migration = {} /\ configFile \in Migration \cup {None}
  BY EncryptionKeyAssumption DEF KeyTypeOK
<1> SUFFICES ASSUME NEW m \in Migration PROVE ConfigIsOwn(m)'
  OBVIOUS
<1>3. ConfigIsOwn(m)
  OBVIOUS
<1>4. CASE m # p
  BY <1>3, <1>4, OthersStay DEF ConfigIsOwn, Resting
<1>5. CASE m = p
  <2>1. CASE Resolving(m)
    BY <1>1, <1>2, <1>3, <2>1 DEF Resolving, Read, Lock, LookForKey, Rename, Unlock, AfterResolving, ConfigIsOwn
  <2>2. CASE Fails(m)
    BY <1>1, <1>2, <1>3, <2>2 DEF Fails, ConfigIsOwn
  <2>3. CASE KeyCrash(m)
    BY <1>1, <2>3 DEF KeyCrash, ConfigIsOwn
  <2>4. CASE KeyBegin(m)
    BY <1>1, <1>3, <2>4 DEF KeyBegin, ConfigIsOwn
  <2>5. CASE Resolve(m)
    BY <1>1, <1>3, <2>5 DEF Resolve, ConfigIsOwn
  <2>6. CASE Check(m)
    BY <1>1, <1>3, <2>6 DEF Check, ConfigIsOwn, OneMigrates
  <2>7. CASE Inspect(m) \/ PutKey(m) \/ FillKey(m)
    BY <1>1, <1>3, <2>7 DEF Inspect, PutKey, FillKey, ConfigIsOwn, OneMigrates
  <2>8. CASE PutConfig(m)
    BY <1>1, <1>3, <2>8 DEF PutConfig, AfterConfig, ConfigIsOwn
  <2>9. CASE Import(m) \/ RollConfig(m) \/ RollKey(m) \/ FinishMigration(m)
    BY <1>1, <1>3, <2>9 DEF Import, RollConfig, RollKey, FinishMigration, ConfigIsOwn
  <2> QED
    BY <1>2, <1>5, <2>1, <2>2, <2>3, <2>4, <2>5, <2>6, <2>7, <2>8, <2>9 DEF Moves, MigrationStep
<1> QED
  BY <1>4, <1>5

\* Who moves is there, and who was not there before is not there after.
LEMMA MoversAreThere ==
  ASSUME KeyTypeOK, NEW p \in Actor, Moves(p)
  PROVE  /\ place[p] # "absent"
         /\ \A q \in Actor : place'[q] = "absent" => place[q] = "absent"
<1>1. place \in [Actor -> KeyLocation]
  BY DEF KeyTypeOK
<1>2. CASE Resolving(p)
  BY <1>1, <1>2 DEF Resolving, Read, Lock, LookForKey, Rename, Unlock, AfterResolving
<1>3. CASE Fails(p) \/ KeyCrash(p)
  BY <1>1, <1>3 DEF Fails, KeyCrash
<1>4. CASE p \in Server /\ (KeyStart(p) \/ KeyOpen(p) \/ Store(p))
  BY <1>1, <1>4 DEF KeyStart, KeyOpen, Store
<1>5. CASE p \in Migration /\ (KeyBegin(p) \/ MigrationStep(p))
  BY <1>1, <1>5 DEF KeyBegin, MigrationStep, Resolve, Check, Inspect, PutKey, FillKey, PutConfig, AfterConfig, Import,
                    RollConfig, RollKey, FinishMigration
<1> QED
  BY <1>2, <1>3, <1>4, <1>5 DEF Moves

LEMMA ServersStayAway ==
  ASSUME KeyTypeOK, MigrationsOnly', NEW p \in Actor, Moves(p)
  PROVE  MigrationsOnly /\ p \in Migration
  BY MoversAreThere DEF MigrationsOnly

\* The key file and the store, while p resolves its key.
LEMMA KeyStaysOwnResolving ==
  ASSUME KeyTypeOK, KeyIsKnown, KeyOpens, NEW p \in Migration, KeyIsOwn(p), Resolving(p)
  PROVE  KeyOpens' /\ KeyIsOwn(p)'
<1>1. /\ place \in [Actor -> KeyLocation] /\ key \in [Actor -> Key \cup {None}]
      /\ created \in [Actor -> SUBSET {"key", "config"}] /\ keyFile \in KeyFile
  BY DEF KeyTypeOK
<1>2. None \notin Actor /\ Server \cap Migration = {} /\ None \notin Key /\ Torn \notin Key /\ None # Torn
  BY EncryptionKeyAssumption
<1>3. p \in Actor /\ p \notin Server
  BY <1>2
<1>4. CASE Read(p)
  BY <1>1, <1>2, <1>3, <1>4 DEF Read, AfterResolving, KeyIsOwn, KeyOpens, Readable
<1>5. CASE Lock(p)
  BY <1>1, <1>2, <1>3, <1>5 DEF Lock, KeyIsOwn, KeyOpens, Readable
<1>6. CASE LookForKey(p)
  BY <1>1, <1>2, <1>3, <1>6 DEF LookForKey, NewKey, KeyIsOwn, KeyOpens, Readable
<1>7. CASE Rename(p)
  <2>1. key[p] \in Key /\ stored = {}
    BY <1>7 DEF Rename, KeyIsOwn
  <2> QED
    BY <1>1, <1>2, <1>3, <1>7, <2>1 DEF Rename, KeyIsOwn, KeyOpens, Readable
<1>8. CASE Unlock(p)
  BY <1>1, <1>2, <1>3, <1>8 DEF Unlock, AfterResolving, KeyIsOwn, KeyOpens, Readable
<1> QED
  BY <1>4, <1>5, <1>6, <1>7, <1>8 DEF Resolving

\* And while it migrates.
LEMMA KeyStaysOwnMigrating ==
  ASSUME KeyTypeOK, KeyIsKnown, OneMigrates, KeyOpens, NEW p \in Migration, KeyIsOwn(p), KeyBegin(p) \/ MigrationStep(p)
  PROVE  KeyOpens' /\ KeyIsOwn(p)'
<1>1. /\ place \in [Actor -> KeyLocation] /\ key \in [Actor -> Key \cup {None}]
      /\ created \in [Actor -> SUBSET {"key", "config"}] /\ keyFile \in KeyFile /\ stored \subseteq Key
  BY DEF KeyTypeOK
<1>2. None \notin Actor /\ Server \cap Migration = {} /\ None \notin Key /\ Torn \notin Key /\ None # Torn
      /\ Imports[p] \in Key \cup {None}
  BY EncryptionKeyAssumption
<1>3. p \in Actor /\ p \notin Server
  BY <1>2
<1>4. place[p] \in {"absent", "off", "resolve", "check", "inspect", "put", "fill"} => created[p] \subseteq {}
  BY DEF OneMigrates
<1>5. CASE KeyBegin(p)
  BY <1>1, <1>2, <1>3, <1>4, <1>5 DEF KeyBegin, KeyIsOwn, KeyOpens, Readable
<1>6. CASE Resolve(p)
  BY <1>1, <1>2, <1>3, <1>4, <1>6 DEF Resolve, KeyIsOwn, KeyOpens, Readable
<1>7. CASE Check(p)
  BY <1>1, <1>2, <1>3, <1>4, <1>7 DEF Check, KeyIsOwn, KeyOpens, Readable
<1>8. CASE Inspect(p)
  BY <1>1, <1>2, <1>3, <1>4, <1>8 DEF Inspect, NoteKey, KeyIsOwn, KeyOpens, Readable
<1>9. CASE PutKey(p)
  BY <1>1, <1>2, <1>3, <1>4, <1>9 DEF PutKey, KeyIsOwn, KeyOpens, Readable
<1>10. CASE FillKey(p)
  BY <1>1, <1>2, <1>3, <1>4, <1>10 DEF FillKey, KeyIsOwn, KeyOpens, Readable
<1>11. CASE PutConfig(p)
  BY <1>1, <1>2, <1>3, <1>11 DEF PutConfig, AfterConfig, KeyIsOwn, KeyOpens, Readable
<1>12. CASE Import(p)
  BY <1>1, <1>2, <1>3, <1>12 DEF Import, KeyIsOwn, KeyOpens, Readable
<1>13. CASE RollConfig(p)
  BY <1>1, <1>2, <1>3, <1>13 DEF RollConfig, KeyIsOwn, KeyOpens, Readable
<1>14. CASE RollKey(p)
  BY <1>1, <1>2, <1>3, <1>14 DEF RollKey, KeyIsOwn, KeyOpens, Readable
<1>15. CASE FinishMigration(p)
  BY <1>1, <1>2, <1>3, <1>15 DEF FinishMigration, KeyIsOwn, KeyOpens, Readable
<1> QED
  BY <1>5, <1>6, <1>7, <1>8, <1>9, <1>10, <1>11, <1>12, <1>13, <1>14, <1>15 DEF MigrationStep

\* When it fails or dies the files stay as they are.
LEMMA KeyStaysOwnFailing ==
  ASSUME KeyTypeOK, OneMigrates, KeyOpens, NEW p \in Migration, KeyIsOwn(p), Fails(p) \/ KeyCrash(p)
  PROVE  KeyOpens' /\ KeyIsOwn(p)'
<1>1. /\ place \in [Actor -> KeyLocation] /\ key \in [Actor -> Key \cup {None}]
      /\ created \in [Actor -> SUBSET {"key", "config"}] /\ keyFile \in KeyFile
  BY DEF KeyTypeOK
<1>2. None \notin Actor /\ Server \cap Migration = {} /\ None \notin Key /\ Torn \notin Key /\ None # Torn
  BY EncryptionKeyAssumption
<1>3. p \in Actor /\ p \notin Server
  BY <1>2
<1>4. place[p] \in {"absent", "off", "resolve", "check", "inspect", "put", "fill"} => created[p] \subseteq {}
  BY DEF OneMigrates
<1>5. CASE Fails(p)
  BY <1>1, <1>2, <1>3, <1>4, <1>5 DEF Fails, KeyIsOwn, KeyOpens, Readable
<1>6. CASE KeyCrash(p)
  BY <1>1, <1>2, <1>3, <1>6 DEF KeyCrash, KeyIsOwn, KeyOpens, Readable
<1> QED
  BY <1>5, <1>6

LEMMA KeyStaysOwn ==
  ASSUME KeyTypeOK, KeyIsKnown, OneMigrates, KeyOpens, \A m \in Migration : KeyIsOwn(m),
         NEW p \in Migration, Moves(p)
  PROVE  KeyOpens' /\ (\A m \in Migration : KeyIsOwn(m))'
<1>1. p \in Actor /\ p \notin Server
  BY EncryptionKeyAssumption
<1>2. Resolving(p) \/ (KeyBegin(p) \/ MigrationStep(p)) \/ (Fails(p) \/ KeyCrash(p))
  BY <1>1 DEF Moves
<1>3. KeyOpens' /\ KeyIsOwn(p)'
  BY <1>2, KeyStaysOwnResolving, KeyStaysOwnMigrating, KeyStaysOwnFailing
<1>4. ASSUME NEW m \in Migration, m # p PROVE KeyIsOwn(m)'
  <2>1. place'[m] \in {"absent", "off"} /\ created'[m] \subseteq {}
    BY <1>1, <1>4, OthersStay DEF Resting, OneMigrates
  <2> QED
    BY <2>1 DEF KeyIsOwn
<1> QED
  BY <1>3, <1>4

\* All of it together.
LEMMA FilesStartSound == ASSUME KeyInit PROVE FilesIInv
<1>1. \A m \in Migration : place[m] \in {"absent", "off"} /\ created[m] = {}
  BY DEF KeyInit
<1>2. None \notin Key
  BY EncryptionKeyAssumption
<1> QED
  BY <1>1, <1>2 DEF KeyInit, FilesIInv, OneMigrates, Resting, ConfigIsOwn, KeyIsOwn, KeyOpens

LEMMA FilesStaySound == ASSUME KeyTypeOK, KeyIsKnown, FilesIInv, [KeyNext]_keyVars PROVE FilesIInv'
<1>1. CASE UNCHANGED keyVars
  BY <1>1 DEF keyVars, FilesIInv, OneMigrates, Resting, ConfigIsOwn, KeyIsOwn, KeyOpens, Readable, MigrationsOnly
<1>2. CASE KeyNext
  <2>1. PICK p \in Actor : Moves(p)
    BY <1>2, SomeoneMoves
  <2>2. OneMigrates /\ \A m \in Migration : ConfigIsOwn(m)
    BY DEF FilesIInv
  <2>3. OneMigrates' /\ (\A m \in Migration : ConfigIsOwn(m))'
    BY <2>1, <2>2, OneMigratesStill, ConfigStaysOwn
  <2>4. ASSUME MigrationsOnly' PROVE KeyOpens' /\ (\A m \in Migration : KeyIsOwn(m))'
    <3>1. MigrationsOnly /\ p \in Migration
      BY <2>1, <2>4, ServersStayAway
    <3>2. KeyOpens /\ \A m \in Migration : KeyIsOwn(m)
      BY <3>1 DEF FilesIInv
    <3> QED
      BY <2>1, <2>2, <3>1, <3>2, KeyStaysOwn
  <2> QED
    BY <2>3, <2>4 DEF FilesIInv
<1> QED
  BY <1>1, <1>2

-----------------------------------------------------------------------------
(* What each step does to the files. *)

\* No migration removes or replaces another's config.toml.
LEMMA ConfigIsKeptStep ==
  ASSUME KeyTypeOK, OneMigrates, \A m \in Migration : ConfigIsOwn(m), NEW p \in Actor, Moves(p), configFile # None
  PROVE  configFile' = configFile \/ (configFile' = None /\ place[configFile] = "rollConfig")
<1>1. None \notin Actor /\ Server \cap Migration = {}
  BY EncryptionKeyAssumption
<1>2. CASE p \notin Migration
  <2>1. CASE Resolving(p)
    BY <2>1 DEF Resolving, Read, Lock, LookForKey, Rename, Unlock
  <2>2. CASE Fails(p) \/ KeyCrash(p)
    BY <2>2 DEF Fails, KeyCrash
  <2>3. CASE KeyStart(p) \/ KeyOpen(p) \/ Store(p)
    BY <2>3 DEF KeyStart, KeyOpen, Store
  <2> QED
    BY <1>2, <2>1, <2>2, <2>3 DEF Moves
<1>3. CASE p \in Migration
  <2>1. ConfigIsOwn(p)
    BY <1>3
  <2>2. CASE PutConfig(p)
    BY <1>3, <2>1, <2>2 DEF PutConfig, ConfigIsOwn
  <2>3. CASE RollConfig(p)
    BY <1>3, <2>1, <2>3 DEF RollConfig, ConfigIsOwn
  <2>4. CASE Resolving(p)
    BY <2>4 DEF Resolving, Read, Lock, LookForKey, Rename, Unlock
  <2>5. CASE Fails(p) \/ KeyCrash(p)
    BY <2>5 DEF Fails, KeyCrash
  <2>6. CASE KeyBegin(p) \/ Resolve(p) \/ Check(p) \/ Inspect(p) \/ PutKey(p) \/ FillKey(p) \/ Import(p) \/ RollKey(p)
               \/ FinishMigration(p)
    BY <2>6 DEF KeyBegin, Resolve, Check, Inspect, PutKey, FillKey, Import, RollKey, FinishMigration
  <2> QED
    BY <1>1, <1>3, <2>2, <2>3, <2>4, <2>5, <2>6 DEF Moves, MigrationStep
<1> QED
  BY <1>2, <1>3

\* A migration that has failed and taken its files back leaves none of its own.
LEMMA FailureLeavesNothingStep ==
  ASSUME KeyTypeOK, NEW m \in Migration, ConfigIsOwn(m), KeyIsOwn(m), RollKey(m)
  PROVE  /\ m \in Deploys => configFile = None
         /\ keyFile'.content \in {None, Torn} \/ m \in keyExistedBefore
  BY DEF RollKey, ConfigIsOwn, KeyIsOwn

\* A step of a migration leaves a store readable that can be read.
LEMMA StaysReadableStep ==
  ASSUME KeyTypeOK, KeyIsKnown, KeyOpens, NEW p \in Migration, KeyIsOwn(p), Moves(p), ~TakesBack(p),
         Readable(keyFile.content)
  PROVE  Readable(keyFile.content)'
<1>1. keyFile \in KeyFile /\ stored \subseteq Key /\ p \in Actor /\ p \notin Server
  BY EncryptionKeyAssumption DEF KeyTypeOK
<1>2. None \notin Key /\ Torn \notin Key
  BY EncryptionKeyAssumption
<1>3. CASE Resolving(p)
  <2>1. CASE Rename(p)
    BY <1>1, <2>1 DEF Rename, KeyIsOwn, Readable
  <2> QED
    BY <1>3, <2>1 DEF Resolving, Read, Lock, LookForKey, Unlock, Readable
<1>4. CASE PutKey(p)
  BY <1>1, <1>2, <1>4 DEF PutKey, Readable
<1>5. CASE FillKey(p)
  BY <1>1, <1>2, <1>5 DEF FillKey, KeyIsOwn, Readable
<1>6. CASE Import(p)
  BY <1>1, <1>2, <1>6 DEF Import, KeyIsOwn, Readable
<1>7. CASE RollKey(p)
  BY <1>1, <1>2, <1>7 DEF RollKey, KeyIsOwn, TakesBack, Readable
<1>8. CASE KeyBegin(p) \/ Resolve(p) \/ Check(p) \/ Inspect(p) \/ PutConfig(p) \/ RollConfig(p) \/ FinishMigration(p)
  BY <1>8 DEF KeyBegin, Resolve, Check, Inspect, PutConfig, RollConfig, FinishMigration, Readable
<1>9. CASE Fails(p) \/ KeyCrash(p)
  BY <1>9 DEF Fails, KeyCrash, Readable
<1> QED
  BY <1>1, <1>3, <1>4, <1>5, <1>6, <1>7, <1>8, <1>9 DEF Moves, MigrationStep

\* A step of whoever it is, servers or migrations.
LEMMA FilesStayStep ==
  ASSUME KeyTypeOK, KeyIsKnown, ServersOnly => OneMakesIt, FilesIInv, [KeyNext]_keyVars
  PROVE  /\ [(ServersOnly \/ MigrationsOnly) /\ (\A m \in Migration : ~TakesBack(m)) =>
               (Readable(keyFile.content) => Readable(keyFile.content)')]_keyVars
         /\ [MigrationsOnly => \A m \in Migration : RollKey(m) =>
               /\ m \in Deploys => configFile = None
               /\ keyFile'.content \in {None, Torn} \/ m \in keyExistedBefore]_keyVars
         /\ [configFile # None => \/ configFile' = configFile
                                  \/ configFile' = None /\ place[configFile] = "rollConfig"]_keyVars
<1>1. ASSUME NEW p \in Actor, Moves(p), MigrationsOnly PROVE p \in Migration
  BY <1>1, MoversAreThere DEF MigrationsOnly
<1>2. ASSUME KeyNext, ServersOnly \/ MigrationsOnly, \A m \in Migration : ~TakesBack(m), Readable(keyFile.content)
      PROVE  Readable(keyFile.content)'
  <2>1. CASE ServersOnly
    BY <2>1, <1>2, OneKeepsMakingIt
  <2>2. CASE MigrationsOnly
    <3>1. PICK p \in Actor : Moves(p)
      BY <1>2, SomeoneMoves
    <3>2. p \in Migration
      BY <1>1, <2>2, <3>1
    <3>3. KeyOpens /\ KeyIsOwn(p)
      BY <2>2, <3>2 DEF FilesIInv
    <3> QED
      BY <1>2, <3>1, <3>2, <3>3, StaysReadableStep
  <2> QED
    BY <1>2, <2>1, <2>2
<1>3. ASSUME MigrationsOnly, NEW m \in Migration, RollKey(m)
      PROVE  /\ m \in Deploys => configFile = None
             /\ keyFile'.content \in {None, Torn} \/ m \in keyExistedBefore
  <2>1. ConfigIsOwn(m) /\ KeyIsOwn(m)
    BY <1>3 DEF FilesIInv
  <2> QED
    BY <1>3, <2>1, FailureLeavesNothingStep
<1>4. ASSUME KeyNext, configFile # None
      PROVE  configFile' = configFile \/ (configFile' = None /\ place[configFile] = "rollConfig")
  <2>1. PICK p \in Actor : Moves(p)
    BY <1>4, SomeoneMoves
  <2>2. OneMigrates /\ \A m \in Migration : ConfigIsOwn(m)
    BY DEF FilesIInv
  <2> QED
    BY <1>4, <2>1, <2>2, ConfigIsKeptStep
<1> QED
  BY <1>2, <1>3, <1>4

\* Whatever keys, servers and migrations there are: no migration puts a key in place of the one
\* that a restored store came without, a store that can be read stays readable, a migration
\* that fails leaves nothing of its own and none removes an earlier one's config.toml.
THEOREM FilesAreKept == KeySpec => FilesStay
<1> DEFINE Inv == KeyIsKnown /\ (ServersOnly => OneMakesIt) /\ FilesIInv
<1>1. KeyInit => Inv
  BY FilesStartSound DEF KeyInit, KeyIsKnown, OneMakesIt
<1>2. KeyTypeOK /\ Inv /\ [KeyNext]_keyVars => Inv'
  <2> SUFFICES ASSUME KeyTypeOK, Inv, [KeyNext]_keyVars  PROVE Inv'
    OBVIOUS
  <2>1. KeyIsKnown' /\ FilesIInv'
    BY KeyStaysKnown, FilesStaySound
  <2>2. ServersOnly => OneMakesIt'
    BY OneKeepsMakingIt
  <2>3. ServersOnly' => ServersOnly
    BY AbsentStaysAbsent
  <2> QED
    BY <2>1, <2>2, <2>3
<1>3. Inv => KeyOpensStore
  BY DEF FilesIInv, KeyOpens, KeyOpensStore
<1>4. KeyTypeOK /\ Inv /\ [KeyNext]_keyVars
        => /\ [(ServersOnly \/ MigrationsOnly) /\ (\A m \in Migration : ~TakesBack(m)) =>
                 (Readable(keyFile.content) => Readable(keyFile.content)')]_keyVars
           /\ [MigrationsOnly => \A m \in Migration : RollKey(m) =>
                 /\ m \in Deploys => configFile = None
                 /\ keyFile'.content \in {None, Torn} \/ m \in keyExistedBefore]_keyVars
           /\ [configFile # None => \/ configFile' = configFile
                                    \/ configFile' = None /\ place[configFile] = "rollConfig"]_keyVars
  BY FilesStayStep
<1>5. KeySpec => []KeyTypeOK
  BY TypesAreKept
<1> HIDE DEF Inv
<1> QED
  BY <1>1, <1>2, <1>3, <1>4, <1>5, PTL DEF KeySpec, FilesStay, StoreStaysReadable, FailureLeavesNothing, ConfigIsKept
=============================================================================
