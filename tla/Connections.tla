----------------------------- MODULE Connections -----------------------------
(***************************************************************************)
(* How mailboxes get connected, handed over and removed (http/app.ts,      *)
(* http/identity.ts, http/admin.ts, accounts/registry.ts): links that work *)
(* once and for ten minutes, the OAuth states a server keeps in memory,    *)
(* callbacks that await the provider, commands that open a browser of      *)
(* their own, and IMAP settings that are tested before they are saved.     *)
(* A server and a command handle what lies between two awaits in one step. *)
(***************************************************************************)
EXTENDS Naturals, FiniteSets

CONSTANTS
  Owner,         \* members
  Administrator, \* those that administer accounts
  Box,           \* account ids
  Address,       \* mailbox addresses, which members may all know
  Link,          \* rows of gmail_connection_grants
  OAuthState,    \* states of an authorization
  Flow,          \* callbacks, commands and IMAP requests
  BoxLimits,     \* the numbers of mailboxes that plans allow
  MaxActs,       \* bound: what people do
  Nothing

ASSUME ConnectionsAssumption ==
  /\ Administrator \subseteq Owner /\ BoxLimits \subseteq Nat /\ MaxActs \in Nat
  /\ Nothing \notin Owner \cup Box \cup Address \cup Link

VARIABLES
  box,      \* accounts: no row has no address
  boxLimit, \* of the plan, which does not change
  link,     \* links: what each is for
  state,    \* the maps of OAuth states of the server
  flow,     \* flows: where they are and what they are for
  acts,     \* how much people did
  saved,    \* history: mailboxes saved through each link
  wronged   \* history: places of flows that replaced the credentials of another member's mailbox

connectionsVars == <<box, boxLimit, link, state, flow, acts, saved, wronged>>

\* Where a flow awaits the provider.
Waiting == {"exchange", "browser", "test"}
OAuthKind == {"gmail", "outlook"}
BoxKind == OAuthKind \cup {"imap"}
\* What an authorization is for: a new mailbox of an owner, or one again.
Intent == [owner : Owner \cup {Nothing}, again : Box \cup {Nothing}]
For(m) == [owner |-> m, again |-> Nothing]
Again(b) == [owner |-> Nothing, again |-> b]

NoBox == [address |-> Nothing, kind |-> "gmail", owner |-> Nothing]
NoLink == [at |-> "none", kind |-> "gmail", intent |-> For(Nothing)]
NoState == [at |-> "none", kind |-> "gmail", intent |-> For(Nothing), link |-> Nothing]
\* actor gave a command or sent settings: Nothing for a callback.
NoFlow == [at |-> "idle", kind |-> "gmail", intent |-> For(Nothing), actor |-> Nothing, address |-> Nothing, link |-> Nothing]

Connected == {b \in Box : box[b].address # Nothing}

ConnectionsTypeOK ==
  /\ box \in [Box -> [address : Address \cup {Nothing}, kind : BoxKind, owner : Owner \cup {Nothing}]]
  /\ \A b \in Connected : box[b].owner # Nothing
  /\ \A b \in Box \ Connected : box[b] = NoBox
  /\ link \in [Link -> [at : {"none", "available", "expired", "used"}, kind : OAuthKind, intent : Intent]]
  /\ state \in [OAuthState -> [at : {"none", "pending", "expired"}, kind : OAuthKind, intent : Intent,
                               link : Link \cup {Nothing}]]
  /\ \A o \in OAuthState : state[o].link # Nothing => link[state[o].link].at = "used"
  /\ flow \in [Flow -> [at : {"idle"} \cup Waiting, kind : BoxKind, intent : Intent,
                        actor : Owner \cup {Nothing}, address : Address \cup {Nothing}, link : Link \cup {Nothing}]]
  /\ acts \in 0..MaxActs /\ saved \in [Link -> Nat] /\ wronged \subseteq Waiting

ConnectionsInit ==
  /\ box = [b \in Box |-> NoBox] /\ boxLimit \in BoxLimits
  /\ link = [l \in Link |-> NoLink]
  /\ state = [o \in OAuthState |-> NoState]
  /\ flow = [f \in Flow |-> NoFlow]
  /\ acts = 0 /\ saved = [l \in Link |-> 0] /\ wronged = {}

-----------------------------------------------------------------------------
(* Who may ask for what. *)

\* assertCanAddAccount, before the user authorizes,
CanAdd == Cardinality(Connected) < boxLimit
\* Mutant: the transaction trusts that check.
CanAddAnyway == TRUE
\* and assertAccountLimit, in the transaction that adds the mailbox.
CanAddStill == Cardinality(Connected) < boxLimit
\* canManageOwnedAccount.
CanManage(m, b) == m \in Administrator \/ box[b].owner = m

\* What a member may ask for itself,
OwnIntents(m, k) ==
  {Again(b) : b \in {b \in Connected : box[b].kind = k /\ CanManage(m, b)}}
    \cup (IF CanAdd THEN {For(m)} ELSE {})
\* what the command asks for it, which names the owner either way,
CommandIntents(m, k) == {[i EXCEPT !.owner = m] : i \in OwnIntents(m, k)}
\* and what an administrator may, for anybody: resolveSharing.
AdminIntents(m, k) ==
  IF m \notin Administrator THEN {}
  ELSE {Again(b) : b \in {b \in Connected : box[b].kind = k}}
         \cup (IF CanAdd THEN {For(o) : o \in Owner} ELSE {})

-----------------------------------------------------------------------------
(* Links and states. *)

\* createConnectionGrant, for a request or a command.
Prepare(l, m, k) ==
  /\ link[l].at = "none"
  /\ \E i \in OwnIntents(m, k) \cup CommandIntents(m, k) \cup AdminIntents(m, k) :
       link' = [link EXCEPT ![l] = [at |-> "available", kind |-> k, intent |-> i]]
  /\ UNCHANGED <<box, state, flow, saved, wronged>>

\* beginGoogleOAuth and beginMicrosoftOAuth.
Opens(o, k, i, l) ==
  /\ state[o].at = "none"
  /\ state' = [state EXCEPT ![o] = [at |-> "pending", kind |-> k, intent |-> i, link |-> l]]

MayClaim(l) == link[l].at = "available"

\* Whoever has the link opens it and confirms.
Claim(l, o) ==
  /\ MayClaim(l)
  /\ link' = [link EXCEPT ![l].at = "used"]
  /\ Opens(o, link[l].kind, link[l].intent, l)
  /\ UNCHANGED <<box, flow, saved, wronged>>

\* GET /auth/google and /auth/microsoft begin without a link.
BeginDirect(o, m, k) ==
  /\ m \in Administrator
  /\ \E owner \in Owner : Opens(o, k, For(owner), Nothing)
  /\ UNCHANGED <<box, link, flow, saved, wronged>>

ExpireLink(l) ==
  /\ link[l].at = "available"
  /\ link' = [link EXCEPT ![l].at = "expired"]
  /\ UNCHANGED <<box, state, flow, saved, wronged>>
ExpireState(o) ==
  /\ state[o].at = "pending"
  /\ state' = [state EXCEPT ![o].at = "expired"]
  /\ UNCHANGED <<box, link, flow, saved, wronged>>
\* The next authorization sweeps the expired ones.
Sweep(o) ==
  /\ state[o].at = "expired"
  /\ state' = [state EXCEPT ![o] = NoState]
  /\ UNCHANGED <<box, link, flow, saved, wronged>>

-----------------------------------------------------------------------------
(* Flows. *)

\* Flows and account ids are interchangeable: the next one is taken.
Enters(f, place, k, i, m, e, l) ==
  /\ flow[f].at = "idle" /\ f = CHOOSE g \in Flow : flow[g].at = "idle"
  /\ flow' = [flow EXCEPT ![f] = [at |-> place, kind |-> k, intent |-> i, actor |-> m, address |-> e, link |-> l]]
Leaves(f) == flow' = [flow EXCEPT ![f] = NoFlow]

\* A state is deleted before the code is exchanged.
Forgets(o) == state' = [state EXCEPT ![o] = NoState]

\* The browser returns, with a code or with an error.
Callback(f, o) ==
  /\ state[o].at = "pending"
  /\ Forgets(o)
  /\ \/ Enters(f, "exchange", state[o].kind, state[o].intent, Nothing, Nothing, state[o].link)
     \/ UNCHANGED flow
  /\ UNCHANGED <<box, link, saved, wronged>>

\* "accounts add" with a listener of its own: runLoopbackFlow.
OpenBrowser(f, m, k) ==
  /\ \E i \in CommandIntents(m, k) : Enters(f, "browser", k, i, m, Nothing, Nothing)
  /\ UNCHANGED <<box, link, state, saved, wronged>>

\* IMAP settings: the member names the mailbox by id, or the address finds it.
Settings(m, e) ==
  LET there == {b \in Connected : box[b].address = e}
  IN {Again(b) : b \in {b \in there : box[b].kind = "imap" /\ CanManage(m, b)}}
       \cup (IF there = {} /\ CanAdd THEN {For(m)} ELSE {})
       \cup (IF m \in Administrator /\ CanAdd THEN {For(o) : o \in Owner} ELSE {})
TestSettings(f, m, e) ==
  /\ \E i \in Settings(m, e) : Enters(f, "test", "imap", i, m, e, Nothing)
  /\ UNCHANGED <<box, link, state, saved, wronged>>

\* The mailbox of that address, whatever its provider.
Duplicates(e, k) == {b \in Connected : box[b].address = e}

\* A callback refuses the mailbox of another member, unless it was asked for, a command
\* any that its user does not manage.
MayTake(f, e) ==
  LET again == flow[f].intent.again
  IN IF flow[f].actor # Nothing
     THEN /\ \A b \in Duplicates(e, flow[f].kind) : CanManage(flow[f].actor, b)
          /\ again # Nothing => box[again].address = e
     ELSE IF again # Nothing THEN again \in Connected /\ box[again].kind = flow[f].kind /\ box[again].address = e
     ELSE \A b \in Duplicates(e, flow[f].kind) : box[b].owner = flow[f].intent.owner

\* Which mailbox addGmailAccount, addOutlookAccount and addImapAccount reauthorize.
Target(f, e) ==
  LET again == flow[f].intent.again
  IN IF again # Nothing /\ flow[f].kind # "gmail" THEN {again} \cap Connected ELSE Duplicates(e, flow[f].kind)

\* b is another's: neither was it asked for, nor is it of the one the flow is for, nor
\* does an administrator act.
Wrongs(f, b) ==
  /\ b \in Connected /\ flow[f].intent.again # b /\ flow[f].intent.owner # box[b].owner
  /\ flow[f].actor \notin Administrator
\* Saved through a link, without the owner's will, or neither.
Records(f, b) ==
  /\ saved' = IF flow[f].link = Nothing THEN saved ELSE [saved EXCEPT ![flow[f].link] = @ + 1]
  /\ wronged' = IF Wrongs(f, b) THEN wronged \cup {flow[f].at} ELSE wronged

\* addGmailAccount adds a mailbox whatever was asked for, the others do not.
MayAdd(f) == flow[f].intent.owner # Nothing /\ (flow[f].kind = "gmail" \/ flow[f].intent.again = Nothing)

\* Credentials are replaced: the owner stays,
Reauthorizes(f, e) ==
  /\ \E b \in Target(f, e) : box[b].kind = flow[f].kind /\ box[b].address = e /\ Records(f, b)
  /\ UNCHANGED box
\* or a mailbox is added, if the plan still allows it.
Adds(f, e) ==
  /\ Target(f, e) = {} /\ MayAdd(f) /\ CanAddStill
  /\ Connected # Box
  /\ LET b == CHOOSE b \in Box : b \notin Connected IN
       /\ box' = [box EXCEPT ![b] = [address |-> e, kind |-> flow[f].kind, owner |-> flow[f].intent.owner]]
       /\ Records(f, b)
Saves(f, e) == Reauthorizes(f, e) \/ Adds(f, e)

\* The user has authorized an address, which is the one asked for or not;
Authorized(f, e) ==
  /\ flow[f].at \in {"exchange", "browser"}
  /\ MayTake(f, e) /\ Saves(f, e)
  /\ Leaves(f) /\ UNCHANGED <<link, state>>
\* the settings work, and nobody asks again whose mailbox it is;
Tested(f) ==
  /\ flow[f].at = "test" /\ Saves(f, flow[f].address)
  /\ Leaves(f) /\ UNCHANGED <<link, state>>
\* or an error ends the flow.
GivesUp(f) ==
  /\ flow[f].at # "idle" /\ Leaves(f)
  /\ UNCHANGED <<box, link, state, saved, wronged>>

-----------------------------------------------------------------------------
(* Mailboxes. *)

RemoveBox(b, m) ==
  /\ b \in Connected /\ CanManage(m, b)
  /\ box' = [box EXCEPT ![b] = NoBox]
  /\ UNCHANGED <<link, state, flow, saved, wronged>>

\* assignAccountOwner.
AssignBox(b) ==
  /\ b \in Connected
  /\ \E m \in Owner : box' = [box EXCEPT ![b].owner = m]
  /\ UNCHANGED <<link, state, flow, saved, wronged>>

\* The server stops: states and callbacks are gone, commands go on.
StopServer ==
  /\ state' = [o \in OAuthState |-> NoState]
  /\ flow' = [f \in Flow |-> IF flow[f].at = "browser" THEN flow[f] ELSE NoFlow]
  /\ UNCHANGED <<box, link, saved, wronged>>

\* What people do,
ConnectionsAct ==
  \/ \E m \in Owner, k \in OAuthKind :
       \/ \E l \in Link : Prepare(l, m, k)
       \/ \E o \in OAuthState : BeginDirect(o, m, k)
       \/ \E f \in Flow : OpenBrowser(f, m, k)
  \/ \E f \in Flow, m \in Owner, e \in Address : TestSettings(f, m, e)
  \/ \E b \in Box : AssignBox(b) \/ \E m \in Owner : RemoveBox(b, m)
\* and what comes of it.
ConnectionsFollow ==
  \/ \E l \in Link : ExpireLink(l) \/ \E o \in OAuthState : Claim(l, o)
  \/ \E o \in OAuthState : ExpireState(o) \/ Sweep(o) \/ \E f \in Flow : Callback(f, o)
  \/ \E f \in Flow : Tested(f) \/ GivesUp(f) \/ \E e \in Address : Authorized(f, e)
  \/ StopServer

ConnectionsNext ==
  /\ \/ acts < MaxActs /\ acts' = acts + 1 /\ ConnectionsAct
     \/ UNCHANGED acts /\ ConnectionsFollow
  /\ UNCHANGED boxLimit

ConnectionsSpec == ConnectionsInit /\ [][ConnectionsNext]_connectionsVars

-----------------------------------------------------------------------------
(* Properties. *)

\* "This link ... can only be used once": however often and by whomever it is opened,
\* and whatever else goes on, one mailbox at most is connected through it.
LinkConnectsOnce == \A l \in Link : saved[l] <= 1

\* A mailbox is connected once, at one provider, whichever flows overlap.
OneBoxPerAddress == \A b, d \in Connected : box[b].address = box[d].address => b = d

\* Mailboxes that are authorized at the same time do not exceed the plan.
BoxesWithinPlan == Cardinality(Connected) <= boxLimit

\* Nobody who authorizes an address at Google or Microsoft, by a link, a callback or a
\* command, replaces the credentials of another member's mailbox that was connected or
\* handed over meanwhile (app.ts:487, cli.ts:1022).  Tested IMAP settings may do so.
OwnersAuthorize == wronged \subseteq {"test"}
\* "Only the mailbox owner or an administrator can reauthorize it" (identity.ts:540),
\* IMAP settings included.  The code does not keep to it: the settings of a member who
\* tested them when nobody had the address are saved over those of the member who
\* connected it in the meantime.
OnlyOwnersReplace == wronged = {}

\* Whatever flows overlap: links are used once, an address is one mailbox, the plan's limit
\* holds, and no OAuth authorization replaces the credentials of another member's mailbox
\* (app.ts, registry.ts).  What IMAP settings replace is not part of it.
BoxesAreSound ==
  ConnectionsTypeOK /\ LinkConnectsOnce /\ OneBoxPerAddress /\ BoxesWithinPlan /\ OwnersAuthorize
=============================================================================
