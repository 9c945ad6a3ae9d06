----------------------------- MODULE Credentials -----------------------------
(***************************************************************************)
(* The credentials of OAuth mailboxes (accounts/registry.ts): what the     *)
(* store keeps of each, the provider objects the servers build and cache   *)
(* from it, the refreshes those objects make while calls use them, the     *)
(* application each credential belongs to, and the status of a mailbox,    *)
(* which calls note (service/emailService.ts).  Servers share the store.   *)
(* A user who authorizes a mailbox again is away at the provider first;    *)
(* then the code is exchanged and the identity and the mailbox are looked  *)
(* at, all awaited (http/app.ts); then the row is written.                 *)
(* Tokens are numbered in the order in which the provider issues them.     *)
(***************************************************************************)
EXTENDS Naturals, FiniteSets

CONSTANTS
  Server,      \* processes
  Mailbox,     \* account ids
  Use,         \* calls of the service
  OAuthApp,    \* OAuth applications
  BuiltIn,     \* the one that comes with the program, for Gmail
  MaxObjects,  \* bound: provider objects in the memory of each server
  MaxSerial,   \* bound: tokens issued
  MaxChanges,  \* bound: what users, administrators and restarts change
  None

Kinds == {"gmail", "outlook"}
\* Provider objects: a server's, by number.
Provider == UNION {{s} \X (1..MaxObjects[s]) : s \in Server}

\* An administrator may configure applications beside the built-in one.
ASSUME CredentialsAssumption ==
  /\ BuiltIn \in OAuthApp /\ OAuthApp # {BuiltIn} /\ None \notin OAuthApp \cup Provider
  /\ MaxObjects \in [Server -> Nat \ {0}] /\ MaxSerial \in Nat \ {0} /\ MaxChanges \in Nat

VARIABLES
  kindOf,        \* accounts.provider
  mailboxStatus, \* accounts.status: no row is "absent"
  stored,        \* account_credentials: grant, serial, client and revision
  app,           \* the application configured for new mailboxes of each kind
  setting,       \* a change of it that a server is making
  granting,      \* an authorization of a mailbox again that goes by a server (bound: one
                 \* of each at a time): the application it was begun with, and the token
  cached,        \* AccountRegistry.providers of each server
  cachedRevision, \* and the revision kept with each
  memory,        \* the credential and the revision each provider object works with
  asked,         \* the refresh in flight of each: None, or the serial it got, 0 if refused
  use,           \* calls: the provider object, the status seen and how far they are
  issued,        \* the last token issued
  issuer,        \* by which application, if it was a grant by the user
  revoked,       \* grants the user has taken back at the provider
  changes        \* how many changes were made

storeVars == <<mailboxStatus, stored>>
objectVars == <<cached, cachedRevision, memory, asked>>
outsideVars == <<issued, issuer, revoked>>
credVars == <<kindOf, storeVars, app, setting, granting, objectVars, use, outsideVars, changes>>

Credential == [grant : 0..MaxSerial, serial : 0..MaxSerial, client : OAuthApp \cup {None}, revision : Nat]
NoCredential == [grant |-> 0, serial |-> 0, client |-> None, revision |-> 0]
NoGrant == [at |-> "idle", mailbox |-> None, client |-> None, serial |-> 0]
NoUse == [provider |-> None, mailbox |-> None, seen |-> "active", at |-> "idle"]

Uses == {u \in Use : use[u].at # "idle"}
\* Provider objects somebody can still reach.
Held == ({cached[s][m] : s \in Server, m \in Mailbox} \cup {use[u].provider : u \in Uses}) \ {None}

CredentialsTypeOK ==
  /\ kindOf \in [Mailbox -> Kinds]
  /\ mailboxStatus \in [Mailbox -> {"absent", "active", "auth_error"}]
  /\ stored \in [Mailbox -> Credential]
  /\ app \in [Kinds -> OAuthApp \cup {None}]
  /\ cached \in [Server -> [Mailbox -> Provider \cup {None}]]
  /\ cachedRevision \in [Server -> [Mailbox -> Nat]]
  /\ memory \in [Held -> Credential] /\ asked \in [Held -> (0..MaxSerial) \cup {None}]
  /\ \A u \in Uses : use[u].provider \in Provider /\ use[u].at \in {"started", "served", "refused"}
  /\ \A m \in Mailbox : (mailboxStatus[m] = "absent") <=> (stored[m] = NoCredential)
  /\ issued \in 0..MaxSerial /\ revoked \subseteq 0..MaxSerial
  /\ \A s \in Server : granting[s].at = "granted" => granting[s].serial <= issued /\ granting[s].mailbox \in Mailbox

\* What a new authorization of the mailbox is asked from: Gmail always has one.
AppFor(k) == IF k = "gmail" /\ app[k] = None THEN BuiltIn ELSE app[k]
\* requireGoogleConfig and requireMicrosoftConfig for credentials from before they
\* named their application.
ClientOf(m, client) == IF client = None THEN AppFor(kindOf[m]) ELSE client

\* Mailboxes connected before, some by a version that did not note the application,
\* some with a grant that was taken back since.
CredentialsInit ==
  /\ kindOf \in [Mailbox -> Kinds]
  /\ LET first == CHOOSE a \in OAuthApp : a # BuiltIn IN
       /\ app = [k \in Kinds |-> first]
       /\ issuer = [n \in 0..MaxSerial |-> IF n = 1 THEN first ELSE None]
       /\ \E c \in {first, None} :
            stored = [m \in Mailbox |-> [grant |-> 1, serial |-> 1, client |-> c, revision |-> 1]]
  /\ mailboxStatus = [m \in Mailbox |-> "active"]
  /\ setting = [s \in Server |-> [at |-> "idle", old |-> None, new |-> None]]
  /\ granting = [s \in Server |-> NoGrant]
  /\ cached = [s \in Server |-> [m \in Mailbox |-> None]]
  /\ cachedRevision = [s \in Server |-> [m \in Mailbox |-> 0]]
  /\ memory = <<>> /\ asked = <<>>
  /\ use = [u \in Use |-> NoUse]
  /\ issued = 1 /\ revoked \in {{}, {1}} /\ changes = 0

-----------------------------------------------------------------------------
(* Provider objects. *)

Present(m) == mailboxStatus[m] # "absent"
\* getProvider finds the object it built for this revision,
CacheFits(s, m) == cached[s][m] # None /\ cachedRevision[s][m] = stored[m].revision
\* or builds one: credentials that name no application need one that is configured,
\* for Gmail one other than the built-in.
CanBuild(m) ==
  LET c == ClientOf(m, stored[m].client)
  IN c # None /\ ~(kindOf[m] = "gmail" /\ stored[m].client = None /\ c = BuiltIn)

CachesAt(s, m, i, revision) ==
  /\ cached' = [cached EXCEPT ![s][m] = i]
  /\ cachedRevision' = [cachedRevision EXCEPT ![s][m] = revision]
\* Objects nobody reaches are gone.
Collects == /\ memory' = [i \in Held' |-> memory[i]]
            /\ asked' = [i \in Held' |-> asked[i]]

Starts(u, s, m, i) ==
  use' = [use EXCEPT ![u] = [provider |-> i, mailbox |-> m, seen |-> mailboxStatus[m], at |-> "started"]]

\* Calls are interchangeable: the next one is taken.
Fresh(u) == use[u].at = "idle" /\ u = CHOOSE w \in Use : use[w].at = "idle"

\* A call with the object in the cache,
BeginCached(u, s, m) ==
  /\ Fresh(u) /\ Present(m) /\ CacheFits(s, m)
  /\ Starts(u, s, m, cached[s][m])
  /\ UNCHANGED <<kindOf, storeVars, app, setting, granting, objectVars, outsideVars>>

\* with a new one that replaces it there,
BeginBuilt(u, s, m) ==
  /\ Fresh(u) /\ Present(m) /\ ~CacheFits(s, m) /\ CanBuild(m)
  /\ \E n \in 1..MaxObjects[s] : <<s, n>> \notin Held
  /\ LET i == CHOOSE i \in Provider : i[1] = s /\ i \notin Held
         held == stored[m]
     IN /\ Starts(u, s, m, i)
        /\ CachesAt(s, m, i, held.revision)
        \* OAuth2Client is made for one application; Outlook asks for it at each refresh.
        /\ memory' = [j \in Held' |-> IF j # i THEN memory[j]
                                      ELSE IF kindOf[m] = "gmail" THEN [held EXCEPT !.client = ClientOf(m, held.client)]
                                      ELSE held]
        /\ asked' = [j \in Held' |-> IF j = i THEN None ELSE asked[j]]
  /\ UNCHANGED <<kindOf, storeVars, app, setting, granting, outsideVars>>

\* or with none: for Gmail that counts as an expired authorization.
BeginRefused(m) ==
  /\ Present(m) /\ ~CanBuild(m) /\ kindOf[m] = "gmail"
  /\ \A s \in Server : ~CacheFits(s, m)
  /\ mailboxStatus' = [mailboxStatus EXCEPT ![m] = "auth_error"]
  /\ UNCHANGED <<kindOf, stored, app, setting, granting, objectVars, use, outsideVars>>

Reaches(u, place) == use' = [use EXCEPT ![u].at = place]

\* An object asks for a new token.  The provider refuses a grant that was taken back
\* and one that another application was given.
Refresh(u) ==
  LET i == use[u].provider
      client == ClientOf(use[u].mailbox, memory[i].client)
  IN /\ use[u].at = "started" /\ asked[i] = None /\ client # None
     /\ \/ /\ memory[i].grant \notin revoked /\ issuer[memory[i].grant] = client
           /\ issued < MaxSerial
           /\ issued' = issued + 1
           /\ asked' = [asked EXCEPT ![i] = issued + 1]
           \* credentialsFromToken notes the application that was asked.
           /\ memory' = [memory EXCEPT ![i].client = client]
        \/ /\ memory[i].grant \in revoked \/ issuer[memory[i].grant] # client
           /\ asked' = [asked EXCEPT ![i] = 0]
           /\ UNCHANGED <<issued, memory>>
     /\ UNCHANGED <<kindOf, storeVars, app, setting, granting, cached, cachedRevision, use, issuer, revoked>>

\* Mutant: the new token is written whatever the store holds by now.
WinsAnyway(m, i) == Present(m)
\* writeTokensIfCurrent: nobody wrote since the object read or wrote the row.
Wins(m, i) == Present(m) /\ stored[m].revision = memory[i].revision

\* Mutant: whichever object the cache holds is said to be current.
FollowsAny(s, m, i, revision) ==
  cachedRevision' = IF cached[s][m] # None THEN [cachedRevision EXCEPT ![s][m] = revision] ELSE cachedRevision
\* updateCachedProvider.
Follows(s, m, i, revision) ==
  cachedRevision' = IF cached[s][m] = i THEN [cachedRevision EXCEPT ![s][m] = revision] ELSE cachedRevision

\* The calls that wait for the refresh fail with it.
Fail(m, i, place) ==
  use' = [u \in Use |-> IF use[u].at = "started" /\ use[u].provider = i THEN [use[u] EXCEPT !.at = place] ELSE use[u]]

\* The answer arrives and is saved,
Saved(s, m, i) ==
  LET fresh == [grant |-> memory[i].grant, serial |-> asked[i], revision |-> stored[m].revision + 1,
                \* For Gmail, what the row said stays.
                client |-> IF kindOf[m] = "gmail" THEN stored[m].client ELSE memory[i].client]
  IN /\ Wins(m, i)
     /\ stored' = [stored EXCEPT ![m] = fresh]
     /\ memory' = [memory EXCEPT ![i] = [fresh EXCEPT !.client = memory[i].client]]
     /\ Follows(s, m, i, fresh.revision)
     /\ UNCHANGED <<cached, use>>

\* comes too late, and the object goes on with what is stored,
Adopts(s, m, i) ==
  /\ Present(m) /\ ~Wins(m, i)
  /\ kindOf[m] = "outlook" \/ ClientOf(m, stored[m].client) = memory[i].client
  /\ memory' = [memory EXCEPT ![i] = IF kindOf[m] = "gmail" THEN [stored[m] EXCEPT !.client = memory[i].client]
                                     ELSE stored[m]]
  /\ Follows(s, m, i, stored[m].revision)
  /\ UNCHANGED <<stored, cached, use>>

\* which for Gmail it cannot if another application was authorized since,
StepsAside(s, m, i) ==
  /\ Present(m) /\ ~Wins(m, i) /\ kindOf[m] = "gmail" /\ ClientOf(m, stored[m].client) # memory[i].client
  /\ cached' = IF cached[s][m] = i THEN [cached EXCEPT ![s][m] = None] ELSE cached
  /\ UNCHANGED <<stored, cachedRevision, memory, use>>

\* or finds the mailbox removed: loadCredentialRow throws.
Orphaned(m, i) ==
  /\ ~Present(m)
  /\ Fail(m, i, "refused")
  /\ UNCHANGED <<stored, cached, cachedRevision, memory>>

Answered(u) ==
  LET i == use[u].provider  m == use[u].mailbox
  IN /\ use[u].at # "idle" /\ asked[i] # None
     /\ \/ asked[i] # 0 /\ (Saved(i[1], m, i) \/ Adopts(i[1], m, i) \/ StepsAside(i[1], m, i) \/ Orphaned(m, i))
        \/ asked[i] = 0 /\ Fail(m, i, "refused") /\ UNCHANGED <<stored, cached, cachedRevision, memory>>
     /\ asked' = [asked EXCEPT ![i] = None]
     /\ UNCHANGED <<kindOf, mailboxStatus, app, setting, granting, outsideVars>>

-----------------------------------------------------------------------------
(* Calls. *)

\* The provider serves or refuses a call.
Performs(u) ==
  LET i == use[u].provider
  IN /\ use[u].at = "started" /\ asked[i] = None
     /\ Reaches(u, IF memory[i].grant \in revoked THEN "refused" ELSE "served")
     /\ UNCHANGED <<kindOf, storeVars, app, setting, granting, objectVars, outsideVars>>

\* A call may fail in any other way, which leaves no trace.
FailUse(u) ==
  /\ use[u].at = "started"
  /\ use' = [use EXCEPT ![u] = NoUse]
  /\ UNCHANGED <<cached, cachedRevision>> /\ Collects
  /\ UNCHANGED <<kindOf, storeVars, app, setting, granting, outsideVars>>

\* Mutant: a call that succeeds leaves the error noted.
NotesErrors(u) == IF use[u].at = "refused" THEN "auth_error" ELSE mailboxStatus[use[u].mailbox]
\* What withProvider makes of the status when a call has ended.
Notes(u) ==
  IF use[u].at = "refused" THEN "auth_error"
  ELSE IF use[u].at = "served" /\ use[u].seen = "auth_error" THEN "active"
  ELSE mailboxStatus[use[u].mailbox]

\* markStatus updates no row if the mailbox is gone.
Marks(u) ==
  mailboxStatus' = IF Present(use[u].mailbox) THEN [mailboxStatus EXCEPT ![use[u].mailbox] = Notes(u)] ELSE mailboxStatus

EndUse(u) ==
  /\ use[u].at \in {"served", "refused"}
  /\ Marks(u)
  /\ use' = [use EXCEPT ![u] = NoUse]
  /\ UNCHANGED <<cached, cachedRevision>> /\ Collects
  /\ UNCHANGED <<kindOf, stored, app, setting, granting, outsideVars>>

-----------------------------------------------------------------------------
(* What the user and the administrator do. *)

Evicts(s, m) == CachesAt(s, m, None, 0)

\* The user is sent to the provider, with the application that is configured then: how
\* the user gets to authorize a mailbox is Connections.
BeginReconnect(s, m) ==
  LET client == AppFor(kindOf[m])
  IN /\ granting[s].at = "idle" /\ Present(m) /\ client # None
     /\ granting' = [granting EXCEPT ![s] = [at |-> "asked", mailbox |-> m, client |-> client, serial |-> 0]]
     /\ UNCHANGED <<kindOf, storeVars, app, setting, objectVars, use, outsideVars>>

\* exchangeCode and exchangeMicrosoftCode get a new grant, and ask whose it is,
ExchangeCode(s) ==
  /\ granting[s].at = "asked" /\ issued < MaxSerial
  /\ issued' = issued + 1 /\ issuer' = [issuer EXCEPT ![issued + 1] = granting[s].client]
  /\ granting' = [granting EXCEPT ![s] = [@ EXCEPT !.at = "granted", !.serial = issued + 1]]
  /\ UNCHANGED <<kindOf, storeVars, app, setting, objectVars, use, revoked>>

\* and addGmailAccount and addOutlookAccount write it to a mailbox that is still there,
\* whatever was written meanwhile.
Reconnect(s) ==
  LET m == granting[s].mailbox  n == granting[s].serial
  IN /\ granting[s].at = "granted" /\ Present(m)
     /\ stored' = [stored EXCEPT ![m] = [grant |-> n, serial |-> n, client |-> granting[s].client,
                                         revision |-> @.revision + 1]]
     /\ mailboxStatus' = [mailboxStatus EXCEPT ![m] = "active"]
     /\ granting' = [granting EXCEPT ![s] = NoGrant]
     /\ Evicts(s, m) /\ UNCHANGED use /\ Collects
     /\ UNCHANGED <<kindOf, app, setting, outsideVars>>

\* The user does not come back, or something on the way fails.
GivesUp(s) ==
  /\ granting[s].at # "idle" /\ granting' = [granting EXCEPT ![s] = NoGrant]
  /\ UNCHANGED <<kindOf, storeVars, app, setting, objectVars, use, outsideVars>>

Remove(s, m) ==
  /\ Present(m)
  /\ mailboxStatus' = [mailboxStatus EXCEPT ![m] = "absent"]
  /\ stored' = [stored EXCEPT ![m] = NoCredential]
  /\ Evicts(s, m) /\ UNCHANGED use /\ Collects
  /\ UNCHANGED <<kindOf, app, setting, granting, outsideVars>>

\* setGoogle and resetGoogle,
SetGoogle ==
  /\ \E a \in (OAuthApp \ {BuiltIn}) \cup {None} : app' = [app EXCEPT !["gmail"] = a]
  /\ UNCHANGED <<kindOf, storeVars, setting, granting, objectVars, use, outsideVars>>

\* setMicrosoft and resetMicrosoft: read the application that is replaced,
BeginSetMicrosoft(s) ==
  /\ setting[s].at = "idle"
  /\ \E a \in (OAuthApp \ {BuiltIn}) \cup {None} :
       setting' = [setting EXCEPT ![s] = [at |-> IF app["outlook"] = None THEN "set" ELSE "pin",
                                          old |-> app["outlook"], new |-> a]]
  /\ UNCHANGED <<kindOf, storeVars, app, granting, objectVars, use, outsideVars>>

\* pinMicrosoftOAuthAppForAccounts: mailboxes whose credentials do not name theirs
Unpinned(s) == {m \in Mailbox : kindOf[m] = "outlook" /\ Present(m) /\ stored[m].client = None}
\* get it written down,
PinMicrosoft(s) ==
  /\ setting[s].at = "pin"
  /\ stored' = [m \in Mailbox |->
       IF m \in Unpinned(s) THEN [stored[m] EXCEPT !.client = setting[s].old, !.revision = @ + 1] ELSE stored[m]]
  /\ setting' = [setting EXCEPT ![s].at = "set"]
  /\ UNCHANGED <<kindOf, mailboxStatus, app, granting, objectVars, use, outsideVars>>

\* and the new one is stored.
SetMicrosoft(s) ==
  /\ setting[s].at = "set"
  /\ app' = [app EXCEPT !["outlook"] = setting[s].new]
  /\ setting' = [setting EXCEPT ![s] = [at |-> "idle", old |-> None, new |-> None]]
  /\ UNCHANGED <<kindOf, storeVars, granting, objectVars, use, outsideVars>>

\* The user takes a grant back at the provider.
Revoke(m) ==
  /\ Present(m) /\ stored[m].grant \notin revoked
  /\ revoked' = revoked \cup {stored[m].grant}
  /\ UNCHANGED <<kindOf, storeVars, app, setting, granting, objectVars, use, issued, issuer>>

\* A server is restarted.
Restart(s) ==
  /\ cached' = [cached EXCEPT ![s] = [m \in Mailbox |-> None]]
  /\ cachedRevision' = [cachedRevision EXCEPT ![s] = [m \in Mailbox |-> 0]]
  /\ use' = [u \in Use |-> IF use[u].at # "idle" /\ use[u].provider[1] = s THEN NoUse ELSE use[u]]
  /\ setting' = [setting EXCEPT ![s] = [at |-> "idle", old |-> None, new |-> None]]
  /\ granting' = [granting EXCEPT ![s] = NoGrant]
  /\ Collects
  /\ UNCHANGED <<kindOf, storeVars, app, outsideVars>>

-----------------------------------------------------------------------------
Calls(u) == Refresh(u) \/ Answered(u) \/ Performs(u) \/ EndUse(u)
Begins(u) == \E s \in Server, m \in Mailbox : BeginCached(u, s, m) \/ BeginBuilt(u, s, m)
Changes ==
  \/ \E s \in Server, m \in Mailbox : BeginReconnect(s, m) \/ Remove(s, m)
  \/ SetGoogle \/ \E s \in Server : BeginSetMicrosoft(s) \/ Restart(s)
  \/ \E m \in Mailbox : Revoke(m)
Finishes == \E s \in Server : PinMicrosoft(s) \/ SetMicrosoft(s) \/ ExchangeCode(s) \/ Reconnect(s) \/ GivesUp(s)

CredentialsNext ==
  \/ /\ \/ \E u \in Use : Begins(u) \/ Calls(u) \/ FailUse(u)
        \/ \E m \in Mailbox : BeginRefused(m)
        \/ Finishes
     /\ UNCHANGED changes
  \/ changes < MaxChanges /\ changes' = changes + 1 /\ Changes

CredentialsSpec == CredentialsInit /\ [][CredentialsNext]_credVars

\* Calls end: they have time limits.
GetsOn(u) == (Answered(u) \/ Performs(u) \/ EndUse(u)) /\ UNCHANGED changes
CredentialsFairness == \A u \in Use : WF_credVars(GetsOn(u))

-----------------------------------------------------------------------------
(* Properties. *)

\* "Does not let a stale token refresh overwrite newer credentials": in whatever order
\* refreshes, reconnections and their answers come in, on whatever server, a refresh
\* never brings back a grant that a reconnection replaced nor, of the same grant, an
\* older token; only a reconnection replaces the grant, by the one it was given.  (A
\* reconnection does not look: of two that cross each other the last to write is kept,
\* which need not be the last that was granted, registry.ts:399 and 458.)
ReconnectedBy(s, m) ==
  /\ granting[s].at = "granted" /\ granting[s].mailbox = m /\ granting'[s].at = "idle"
  /\ stored'[m].grant = granting[s].serial
RefreshesGoForward ==
  [][\A m \in Mailbox : Present(m) /\ Present(m)' =>
       \/ stored'[m].grant = stored[m].grant /\ stored'[m].serial >= stored[m].serial
       \/ \E s \in Server : ReconnectedBy(s, m)]_credVars

\* An object the cache takes for current works with what is stored.
CachedIsStored ==
  \A s \in Server, m \in Mailbox :
    Present(m) /\ CacheFits(s, m) =>
      LET held == memory[cached[s][m]]
      IN held.grant = stored[m].grant /\ held.serial = stored[m].serial

\* Changing the application leaves the Outlook mailboxes that are connected on theirs.
KeepsItsApp ==
  \A m \in Mailbox :
    Present(m) /\ kindOf[m] = "outlook" => ClientOf(m, stored[m].client) = issuer[stored[m].grant]

\* While somebody uses a mailbox, its status comes to say whether the provider accepts
\* the stored grant, whatever older calls noted that ended in between.  Left out are Gmail
\* mailboxes whose credential names no application, when a server has one built for
\* another application: the cache looks at the revision only (registry.ts:175), so that
\* after a change of the application and back two servers may note it differently for ever.
Steady == <>[][/\ UNCHANGED <<changes, app>>
                /\ \A u \in Use : use[u].at = "started" => use'[u].at # "idle"]_credVars
InUse == []<><<(\E u \in Use : Begins(u)) /\ UNCHANGED changes>>_credVars
BuiltForAnother(m) ==
  /\ kindOf[m] = "gmail" /\ stored[m].client = None
  /\ \E s \in Server : cached[s][m] # None /\ memory[cached[s][m]].client # ClientOf(m, None)
Accepted(m) == stored[m].grant \notin revoked /\ ClientOf(m, stored[m].client) = issuer[stored[m].grant]
StatusIsRight ==
  \A m \in Mailbox : Present(m) =>
    /\ Accepted(m) /\ ~BuiltForAnother(m) => mailboxStatus[m] = "active"
    /\ stored[m].grant \in revoked => mailboxStatus[m] = "auth_error"
StatusSettles == Steady /\ InUse => <>[]StatusIsRight

\* What a provider object of the cache works with is what is stored, and what is stored
\* works with the application that issued it (registry.ts, config.ts:518).
CachedIsCurrent == CredentialsTypeOK /\ CachedIsStored /\ KeepsItsApp
=============================================================================
