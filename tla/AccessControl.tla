---------------------------- MODULE AccessControl ----------------------------
(* What a credential may do: the REST routes (http/rest.ts, http/identity.ts,          *)
(* http/admin.ts), the MCP tools (mcp/buildServer.ts), the service they call           *)
(* (service/emailService.ts) and the checks that they share (authorization.ts,         *)
(* permissions.ts, storage/apiKeys.ts).                                                *)
(* A request is authenticated once and keeps the principal of that moment; its body is *)
(* awaited before it is handled, and every call to a provider is awaited too.  A mail  *)
(* call is named for what it does to the mailbox.  A mailbox has one message, and of   *)
(* the message only whether it is in Trash.  Schemas, paging, quota and idempotency    *)
(* are left out: a request may always be answered with an error.  The write of an      *)
(* audit event may fail, and its error is dropped; the death of the process is left    *)
(* out.  A message that is scheduled is saved and read back by calls of their own      *)
(* (createDraft and getDraft), which the service makes without another check: they are *)
(* one call here, which needs mail.send as scheduling does.                            *)
EXTENDS Permissions, Integers, Sequences

CONSTANTS
  Holder,      \* people that are or may become members
  Mbox,        \* mailboxes
  KeyId,       \* API keys
  MaxAsked,    \* bound on the requests
  FirstProvider, \* for each mailbox: its provider at first ("none": it is not connected yet)
  OwnerOf,     \* for each mailbox: its owner at first
  Admins,      \* administrators at first
  Absent       \* no member, no key

ASSUME ProviderAssumption == FirstProvider \in [Mbox -> {"gmail", "outlook", "imap", "none"}]
ASSUME AdminsAssumption == Admins \subseteq Holder /\ Admins # {} /\ Absent \notin Holder
ASSUME OwnerOfAssumption ==
  OwnerOf \in [Mbox -> Holder \union {Absent}] /\ \A b \in Mbox : OwnerOf[b] = Absent <=> FirstProvider[b] = "none"
ASSUME MaxAskedAssumption == MaxAsked \in Nat

VARIABLES
  standing,   \* for each person: role and status ("none": not a member)
  sharing,    \* for each mailbox: its provider ("gone": it was removed), its owner (Absent: it is not connected) and who it is shared with
  keys,       \* for each key: its holder (Absent: there is none), its policy and its mailboxes
  loggedIn,   \* members with a session
  trashed,    \* mailboxes whose message is in Trash
  asked       \* the requests, in the order they were made
accessVars == <<standing, sharing, keys, loggedIn, trashed, asked>>

NoApiKey == [holder |-> Absent, policy |-> StoredPolicy(CustomPermissionPolicy({})), limited |-> FALSE, within |-> {}]
Nobody == [kind |-> "none", who |-> Absent, key |-> Absent, role |-> "member", may |-> {}, limited |-> FALSE, within |-> {}]
\* on: the mailboxes it is about; todo: calls to come; out: the message was outside Trash
\* since the request was handled; shown: mailboxes in the answer; changes: an
\* administrative request that may change something, own: its route records it itself,
\* ok: it succeeded, noted: audit events of it, lost: the write of one failed.
Handled == [at |-> "over", by |-> Nobody, via |-> "rest", on |-> {}, todo |-> <<>>, out |-> FALSE,
            shown |-> {}, changes |-> FALSE, own |-> FALSE, ok |-> TRUE, noted |-> 0, lost |-> FALSE]

ConnectedOnes == {b \in Mbox : sharing[b].owner # Absent}
IsMember(m) == standing[m].status # "none"
MayOf(k) == DeserializePermissionPolicy(keys[k].policy).capabilities
Scopes(mailboxes) == {[limited |-> FALSE, within |-> {}]} \union {[limited |-> TRUE, within |-> {b}] : b \in mailboxes}
AccessInit ==
  /\ standing = [m \in Holder |->
       [role |-> IF m \in Admins THEN "admin" ELSE "member",
        status |-> IF m \in Admins \union {OwnerOf[b] : b \in Mbox} THEN "active" ELSE "none"]]
  /\ sharing = [b \in Mbox |-> [provider |-> FirstProvider[b], owner |-> OwnerOf[b], all |-> FALSE, granted |-> {}]]
  /\ keys \in [KeyId -> UNION {[holder : Holder, policy : {StoredPolicy(policy) : policy \in Offered},
                                limited : {scope.limited}, within : {scope.within}] : scope \in Scopes(ConnectedOnes)}]
  /\ \A k \in KeyId : /\ MayOf(k) \intersect AdminCapability # {} => keys[k].holder \in Admins
                      /\ standing[keys[k].holder].status = "active"
  /\ loggedIn = {m \in Holder : standing[m].status = "active"}
  /\ trashed = {}
  /\ asked = <<>>

-----------------------------------------------------------------------------
\* authorization.ts, for the principal p and the state of the store.
InScope(p, b) == p.limited => b \in p.within
CanAccess(p, b) ==
  /\ sharing[b].owner # Absent
  /\ (sharing[b].owner = p.who) \/ sharing[b].all \/ (p.who \in sharing[b].granted)
  /\ InScope(p, b)
Allows(p, c) == p.kind = "session" \/ c \in p.may
\* Mutant: the role of the member is not asked for.
CapabilityIsEnough(p, c) == p.kind = "session" \/ c \in p.may
CanAdminister(p, c) == p.role = "admin" /\ (p.kind = "session" \/ c \in p.may)
CanSee(p, b) ==
  CanAccess(p, b) \/ (sharing[b].owner # Absent /\ CanAdminister(p, "admin.accounts") /\ InScope(p, b))
Manages(p, b) == sharing[b].owner # Absent /\ ((p.role = "admin") \/ (sharing[b].owner = p.who))

\* authenticateBearer, and the surfaces that take the token.
KeyPrincipal(k) ==
  [kind |-> "api_key", who |-> keys[k].holder, key |-> k, role |-> standing[keys[k].holder].role,
   may |-> MayOf(k), limited |-> keys[k].limited, within |-> keys[k].within]
SessionPrincipal(m) ==
  [kind |-> "session", who |-> m, key |-> Absent, role |-> standing[m].role,
   may |-> MailCapability, limited |-> FALSE, within |-> {}]
Principals ==
  {KeyPrincipal(k) : k \in {j \in KeyId : keys[j].holder # Absent /\ standing[keys[j].holder].status = "active"}}
    \union {SessionPrincipal(m) : m \in {n \in loggedIn : standing[n].status = "active"}}
Arrives(p, via) ==
  /\ Len(asked) < MaxAsked
  /\ asked' = Append(asked, [Handled EXCEPT !.at = "begun", !.by = p, !.via = via])
  /\ UNCHANGED <<standing, sharing, keys, loggedIn, trashed>>
RestAuthenticates == \E p \in Principals : Arrives(p, "rest")
McpAuthenticates == \E p \in Principals : p.kind = "api_key" /\ Arrives(p, "mcp")

-----------------------------------------------------------------------------
\* The provider's calls, by what they do to the mailbox.
Composes(reply) == IF reply THEN <<"read">> ELSE <<>>
SavesDraft(reply) == Composes(reply) \o <<"draft">>
Sends(reply) == Composes(reply) \o <<"send">>
\* modify, of one message: what the provider checks, and what it then does.
Labels(b) == IF sharing[b].provider = "imap" THEN <<>> ELSE <<"organize">>
Moves(b) ==
  CASE sharing[b].provider = "gmail" -> <<"organize">>
    [] sharing[b].provider = "outlook" -> <<"mustBeOutside", "move">>
    [] sharing[b].provider = "imap" -> <<"moveFromOutside">>
\* The destination is another name for Trash, a path or an id.
MovesToTrash(b) == IF sharing[b].provider = "gmail" THEN <<"organize">> ELSE <<>>
Untrashes(b) == IF sharing[b].provider = "outlook" THEN <<"takeOut">> ELSE <<"takeOutOfTrash">>

\* EmailService.
ListsFolders == <<"read">>
ListsLabels == <<"read">>
ListsMessages == <<"read">>
GetsMessage == <<"read">>
GetsThread == <<"read">>
GetsAttachment == <<"read">>
\* resolveRecipients: only a reply without recipients reads the original for them.
ResolvesRecipients(reply) == IF reply THEN <<"read">> ELSE <<>>
CreatesDraft(reply) == ResolvesRecipients(reply) \o SavesDraft(reply)
UpdatesDraft(reply) == ResolvesRecipients(reply) \o SavesDraft(reply)
DeletesDraft == <<"draft">>
SendsNow(reply) == ResolvesRecipients(reply) \o Sends(reply)
SchedulesSend(reply) == ResolvesRecipients(reply) \o Composes(reply) \o <<"schedule">>
Forwards == <<"read", "read", "send">>
Modifies(b, action) ==
  CASE action \in {"markRead", "markUnread", "star", "unstar"} -> <<"organize">>
    [] action \in {"addLabels", "removeLabels"} -> Labels(b)
    [] action = "delete" -> <<"delete">>
    [] action = "trash" -> <<"intoTrash">>
    [] action = "untrash" -> Untrashes(b)
    [] action \in {"archive", "move"} -> Moves(b)
    [] action = "moveToTrashByPath" -> MovesToTrash(b)
ModifyNeeds(action) ==
  CASE action \in {"trash", "untrash"} -> "mail.trash"
    [] action = "delete" -> "mail.delete"
    [] OTHER -> "mail.organize"
ModifyActions ==
  {"markRead", "markUnread", "star", "unstar", "archive", "trash", "untrash", "delete",
   "addLabels", "removeLabels", "move", "moveToTrashByPath"}

\* Which capability a call to a mailbox needs, by the words of permissions.ts.
NeedOf(call) ==
  CASE call = "read" -> "mail.read"
    [] call = "draft" -> "mail.drafts"
    [] call \in {"send", "schedule"} -> "mail.send"
    [] call \in {"organize", "mustBeOutside", "move", "moveFromOutside"} -> "mail.organize"
    [] call \in {"intoTrash", "takeOut", "takeOutOfTrash"} -> "mail.trash"
    [] call = "delete" -> "mail.delete"

-----------------------------------------------------------------------------
\* Handling a request.
ToHandle(r, via) == asked[r].at = "begun" /\ asked[r].via = via
By(r) == asked[r].by
Becomes(r, request) == asked' = [asked EXCEPT ![r] = request]
Keeps == UNCHANGED <<standing, sharing, keys, loggedIn, trashed>>
\* runJson and handle: the capabilities, the mailbox, and then the provider is called.
\* A request with an error in it, or with nothing to do, is answered at once.
Serves(r, b, needs, calls) ==
  /\ Becomes(r, IF (\A c \in needs : Allows(By(r), c)) /\ CanAccess(By(r), b) /\ calls # <<>>
                THEN [asked[r] EXCEPT !.at = "calling", !.on = {b}, !.todo = calls, !.out = b \notin trashed]
                ELSE Handled)
  /\ Keeps
TurnsAway(r) == asked[r].at \in {"begun", "calling"} /\ ~asked[r].changes /\ Becomes(r, Handled) /\ Keeps
\* What is known of mailboxes is answered at once.
Shows(r, allowed, visible) ==
  Becomes(r, IF allowed THEN [asked[r] EXCEPT !.at = "answered", !.shown = visible] ELSE Handled) /\ Keeps
Accessible(p) == {b \in Mbox : CanAccess(p, b)}
Visible(p) == {b \in Mbox : CanSee(p, b)}
\* A change by an administrative route that succeeded.
Changed(r, own, mailboxes) ==
  [asked[r] EXCEPT !.at = "answered", !.on = mailboxes, !.todo = <<>>, !.changes = TRUE, !.own = own]
\* recordAdminAuditEvent is called under a catch: a write that fails is forgotten.
AuditWrites(q) == {[q EXCEPT !.noted = @ + 1], [q EXCEPT !.lost = TRUE]}
\* A route of identity.ts writes the event of its change itself.
ChangesOwn(r, mailboxes) == \E q \in AuditWrites(Changed(r, TRUE, mailboxes)) : Becomes(r, q)

\* MakesCall are awaited one after the other.
Does(r, call, trash) ==
  /\ asked[r].at = "calling" /\ Head(asked[r].todo) = call
  /\ trashed' = trash
  /\ asked' = [q \in DOMAIN asked |->
       IF q # r THEN [asked[q] EXCEPT !.out = @ \/ (asked[q].at = "calling" /\ asked[q].on \intersect trash = {})]
       ELSE IF Len(asked[r].todo) > 1 THEN [asked[r] EXCEPT !.todo = Tail(@)]
       ELSE IF asked[r].changes THEN Changed(r, asked[r].own, asked[r].on)
       ELSE Handled]
  /\ UNCHANGED <<standing, keys, loggedIn>>
MakesCall(r) ==
  \E c \in {"read", "draft", "send", "schedule", "organize", "delete", "configure", "license"} :
    Does(r, c, trashed) /\ UNCHANGED sharing
PutsIntoTrash(r) == Does(r, "intoTrash", trashed \union asked[r].on) /\ UNCHANGED sharing
TakesOutOfTrash(r) == \E c \in {"takeOut", "takeOutOfTrash"} : Does(r, c, trashed \ asked[r].on) /\ UNCHANGED sharing
\* assertMessagesOutsideTrash, and the move that comes after it; IMAP moves a message only
\* from where its row says, so one that went to Trash meanwhile is not found.
ChecksOutside(r) == asked[r].on \intersect trashed = {} /\ Does(r, "mustBeOutside", trashed) /\ UNCHANGED sharing
MovesMessage(r) == Does(r, "move", trashed \ asked[r].on) /\ UNCHANGED sharing
MovesFromOutside(r) == Does(r, "moveFromOutside", trashed) /\ UNCHANGED sharing
\* The mailbox that was tested is saved.
SavesMailbox(r) ==
  /\ asked[r].at = "calling" /\ \E b \in asked[r].on : \E m \in Holder :
       /\ IsMember(m) /\ sharing[b].provider # "gone"
       /\ asked[r].changes \/ m = By(r).who
       /\ \/ sharing[b].owner # Absent /\ UNCHANGED sharing
          \/ sharing[b].owner = Absent /\ \E provider \in {"gmail", "outlook", "imap"} :
               sharing' = [sharing EXCEPT ![b] = [provider |-> provider, owner |-> m, all |-> FALSE, granted |-> {}]]
  /\ Does(r, "connect", trashed)

-----------------------------------------------------------------------------
\* The mail routes of http/rest.ts.
RestListFolders(r, b) == Serves(r, b, {"mail.read"}, ListsFolders)
RestListLabels(r, b) == Serves(r, b, {"mail.read"}, ListsLabels)
RestListMessages(r, b) == Serves(r, b, {"mail.read"}, ListsMessages)
RestGetMessage(r, b) == Serves(r, b, {"mail.read"}, GetsMessage)
RestGetThread(r, b) == Serves(r, b, {"mail.read"}, GetsThread)
RestAttachment(r, b) == Serves(r, b, {"mail.read"}, GetsAttachment)
ReplyNeeds(reply) == IF reply THEN {"mail.read"} ELSE {}
RestCreateDraft(r, b) ==
  \E reply \in BOOLEAN : Serves(r, b, {"mail.drafts"} \union ReplyNeeds(reply), CreatesDraft(reply))
RestUpdateDraft(r, b) ==
  \E reply \in BOOLEAN : Serves(r, b, {"mail.drafts"} \union ReplyNeeds(reply), UpdatesDraft(reply))
RestDeleteDraft(r, b) == Serves(r, b, {"mail.drafts"}, DeletesDraft)
RestSend(r, b) ==
  \E reply, later \in BOOLEAN :
    Serves(r, b, {"mail.send"} \union ReplyNeeds(reply), IF later THEN SchedulesSend(reply) ELSE SendsNow(reply))
\* Mutant: forwarding is taken for sending only.
SendIsEnough == {"mail.send"}
ForwardNeeds == {"mail.send", "mail.read"}
RestForward(r, b) == Serves(r, b, ForwardNeeds, Forwards)
RestModify(r, b) ==
  \E action \in ModifyActions : Serves(r, b, {ModifyNeeds(action)}, Modifies(b, action))
RestListScheduled(r, b) ==
  Shows(r, Allows(By(r), "mail.read") /\ CanAccess(By(r), b), {b})
RestCancelScheduled(r, b) ==
  Shows(r, Allows(By(r), "mail.drafts") /\ CanAccess(By(r), b), {b})
RestStatus(r) == Shows(r, Allows(By(r), "mail.read"), Visible(By(r)))
RestAccounts(r) == Shows(r, Allows(By(r), "mail.read"), Visible(By(r)))
RestMail(r) ==
  /\ ToHandle(r, "rest")
  /\ \/ RestStatus(r) \/ RestAccounts(r)
     \/ \E b \in Mbox :
          \/ RestListFolders(r, b) \/ RestListLabels(r, b) \/ RestListMessages(r, b) \/ RestGetMessage(r, b)
          \/ RestGetThread(r, b) \/ RestAttachment(r, b) \/ RestCreateDraft(r, b) \/ RestUpdateDraft(r, b)
          \/ RestDeleteDraft(r, b) \/ RestSend(r, b) \/ RestForward(r, b) \/ RestModify(r, b)
          \/ RestListScheduled(r, b) \/ RestCancelScheduled(r, b)

\* The tools of mcp/buildServer.ts.
ListFoldersTool(r, b) == Serves(r, b, {"mail.read"}, ListsFolders)
ListLabelsTool(r, b) == Serves(r, b, {"mail.read"}, ListsLabels)
ListEmailsTool(r, b) == Serves(r, b, {"mail.read"}, ListsMessages)
SearchEmailsTool(r, b) == Serves(r, b, {"mail.read"}, ListsMessages)
GetEmailTool(r, b) == Serves(r, b, {"mail.read"}, GetsMessage)
GetThreadTool(r, b) == Serves(r, b, {"mail.read"}, GetsThread)
DownloadAttachmentTool(r, b) == Serves(r, b, {"mail.read"}, GetsAttachment)
CreateDraftTool(r, b) ==
  \E reply \in BOOLEAN : Serves(r, b, {"mail.drafts"} \union ReplyNeeds(reply), CreatesDraft(reply))
UpdateDraftTool(r, b) ==
  \E reply \in BOOLEAN : Serves(r, b, {"mail.drafts"} \union ReplyNeeds(reply), UpdatesDraft(reply))
DeleteDraftTool(r, b) == Serves(r, b, {"mail.drafts"}, DeletesDraft)
SendEmailTool(r, b) ==
  \E reply, later \in BOOLEAN :
    Serves(r, b, {"mail.send"} \union ReplyNeeds(reply), IF later THEN SchedulesSend(reply) ELSE SendsNow(reply))
ForwardEmailTool(r, b) == Serves(r, b, ForwardNeeds, Forwards)
ModifyEmailsTool(r, b) ==
  \E action \in ModifyActions : Serves(r, b, {ModifyNeeds(action)}, Modifies(b, action))
ListScheduledTool(r) == Shows(r, Allows(By(r), "mail.read"), Accessible(By(r)))
CancelScheduledTool(r, b) ==
  Shows(r, Allows(By(r), "mail.drafts") /\ CanAccess(By(r), b), {b})
GetStatusTool(r) == Shows(r, Allows(By(r), "mail.read"), Visible(By(r)))
ListAccountsTool(r) == Shows(r, Allows(By(r), "mail.read"), Visible(By(r)))
McpTools(r) ==
  /\ ToHandle(r, "mcp")
  /\ \/ GetStatusTool(r) \/ ListAccountsTool(r) \/ ListScheduledTool(r)
     \/ \E b \in Mbox :
          \/ ListFoldersTool(r, b) \/ ListLabelsTool(r, b) \/ ListEmailsTool(r, b) \/ SearchEmailsTool(r, b)
          \/ GetEmailTool(r, b) \/ GetThreadTool(r, b) \/ DownloadAttachmentTool(r, b) \/ CreateDraftTool(r, b)
          \/ UpdateDraftTool(r, b) \/ DeleteDraftTool(r, b) \/ SendEmailTool(r, b) \/ ForwardEmailTool(r, b)
          \/ ModifyEmailsTool(r, b) \/ CancelScheduledTool(r, b)

-----------------------------------------------------------------------------
\* http/identity.ts, for oneself: the routes of a session.
IsSession(p) == p.kind = "session"
LogsIn(m) ==
  /\ standing[m].status = "active" /\ loggedIn' = loggedIn \union {m}
  /\ UNCHANGED <<standing, sharing, keys, trashed, asked>>
Me(r) == Shows(r, IsMember(By(r).who), {})
UpdateMe(r) == Shows(r, IsSession(By(r)) /\ IsMember(By(r).who), {})
Logout(r) ==
  /\ IsSession(By(r)) /\ Becomes(r, Handled)
  /\ loggedIn' = loggedIn \ {By(r).who} /\ UNCHANGED <<standing, sharing, keys, trashed>>
DeleteOwnSession(r) == Logout(r)
ListOwnSessions(r) == Shows(r, IsSession(By(r)), {})
ListOwnKeys(r) == Shows(r, IsSession(By(r)), UNION {keys[k].within : k \in {j \in KeyId : keys[j].holder = By(r).who}})
\* createApiKey: the member and its role of this moment.
MayHold(m, policy) == policy.capabilities \intersect AdminCapability # {} => standing[m].role = "admin"
IssuesKey(m, policy, scope) ==
  /\ standing[m].status = "active" /\ MayHold(m, policy)
  /\ \E k \in KeyId :
       /\ keys[k].holder = Absent
       /\ keys' = [keys EXCEPT ![k] = [holder |-> m, policy |-> StoredPolicy(policy), limited |-> scope.limited, within |-> scope.within]]
CreateOwnKey(r) ==
  /\ IsSession(By(r)) /\ Becomes(r, Handled)
  /\ \E policy \in Offered : \E scope \in Scopes(Accessible(By(r))) : IssuesKey(By(r).who, policy, scope)
  /\ UNCHANGED <<standing, sharing, loggedIn, trashed>>
Revokes(k) == keys[k].holder # Absent /\ keys' = [keys EXCEPT ![k] = NoApiKey]
DeleteOwnKey(r) ==
  /\ IsSession(By(r)) /\ Becomes(r, Handled)
  /\ \E k \in KeyId : keys[k].holder = By(r).who /\ Revokes(k)
  /\ UNCHANGED <<standing, sharing, loggedIn, trashed>>
CanBeConnected(b) == sharing[b].provider # "gone"
ConnectOwnAccount(r, b) ==
  /\ IsSession(By(r)) /\ CanBeConnected(b)
  /\ sharing[b].owner # Absent => Manages(By(r), b)
  /\ Becomes(r, [asked[r] EXCEPT !.at = "calling", !.on = {b}, !.todo = <<"connect">>]) /\ Keeps
\* registry.removeAccount.
WithoutMailbox(b) == [sharing EXCEPT ![b] = [provider |-> "gone", owner |-> Absent, all |-> FALSE, granted |-> {}]]
RemoveOwnAccount(r, b) ==
  /\ IsSession(By(r)) /\ Manages(By(r), b) /\ Becomes(r, Handled)
  /\ sharing' = WithoutMailbox(b) /\ UNCHANGED <<standing, keys, loggedIn, trashed>>
ConfigureOwnFolders(r, b) ==
  /\ IsSession(By(r)) /\ Manages(By(r), b) /\ sharing[b].provider = "imap"
  /\ Becomes(r, [asked[r] EXCEPT !.at = "calling", !.on = {b}, !.todo = <<"configure">>]) /\ Keeps
OwnRoutes(r) ==
  /\ ToHandle(r, "rest")
  /\ \/ Me(r) \/ UpdateMe(r) \/ Logout(r) \/ DeleteOwnSession(r) \/ ListOwnSessions(r) \/ ListOwnKeys(r) \/ CreateOwnKey(r) \/ DeleteOwnKey(r)
     \/ \E b \in Mbox : ConnectOwnAccount(r, b) \/ RemoveOwnAccount(r, b) \/ ConfigureOwnFolders(r, b)

\* http/identity.ts, for administrators.
MayAdminister(r, c) == CanAdminister(By(r), c)
ListMembers(r) == Shows(r, CanAdminister(By(r), "admin.members"), {})
ListMemberSessions(r) == Shows(r, CanAdminister(By(r), "admin.members"), {})
ListAdminAccounts(r) == Shows(r, CanAdminister(By(r), "admin.accounts"), Visible(By(r)))
ListAudit(r) == Shows(r, CanAdminister(By(r), "admin.audit"), {})
CreateMember(r, m) ==
  /\ MayAdminister(r, "admin.members") /\ ~IsMember(m) /\ ChangesOwn(r, {})
  /\ \E role \in {"admin", "member"} : standing' = [standing EXCEPT ![m] = [role |-> role, status |-> "pending"]]
  /\ UNCHANGED <<sharing, keys, loggedIn, trashed>>
InviteMember(r, m) == MayAdminister(r, "admin.members") /\ IsMember(m) /\ ChangesOwn(r, {}) /\ Keeps
ResetMember(r, m) == MayAdminister(r, "admin.members") /\ IsMember(m) /\ ChangesOwn(r, {}) /\ Keeps
Enrolls(m) ==
  /\ standing[m].status = "pending" /\ standing' = [standing EXCEPT ![m].status = "active"]
  /\ loggedIn' = loggedIn \union {m}
  /\ UNCHANGED <<sharing, keys, trashed, asked>>
ActiveAdmins == {m \in Holder : standing[m] = [role |-> "admin", status |-> "active"]}
KeysOf(m) == {k \in KeyId : keys[k].holder = m}
WithoutKeysOf(m) == [k \in KeyId |-> IF k \in KeysOf(m) THEN NoApiKey ELSE keys[k]]
PatchRole(r, m) ==
  /\ MayAdminister(r, "admin.members") /\ IsMember(m) /\ ChangesOwn(r, {})
  /\ \E role \in {"admin", "member"} :
       /\ role = "member" => ActiveAdmins # {m}
       /\ standing' = [standing EXCEPT ![m].role = role]
  /\ UNCHANGED <<sharing, keys, loggedIn, trashed>>
SuspendMember(r, m) ==
  /\ MayAdminister(r, "admin.members") /\ IsMember(m) /\ ActiveAdmins # {m} /\ ChangesOwn(r, {})
  /\ standing' = [standing EXCEPT ![m].status = "suspended"]
  /\ keys' = WithoutKeysOf(m) /\ loggedIn' = loggedIn \ {m}
  /\ UNCHANGED <<sharing, trashed>>
ActivateMember(r, m) ==
  /\ MayAdminister(r, "admin.members") /\ standing[m].status = "suspended" /\ ChangesOwn(r, {})
  /\ standing' = [standing EXCEPT ![m].status = "active"]
  /\ UNCHANGED <<sharing, keys, loggedIn, trashed>>
DeleteMember(r, m) ==
  /\ MayAdminister(r, "admin.members") /\ IsMember(m) /\ ActiveAdmins # {m} /\ ChangesOwn(r, {})
  /\ \A b \in Mbox : sharing[b].owner # m
  /\ standing' = [standing EXCEPT ![m] = [role |-> "member", status |-> "none"]]
  /\ sharing' = [b \in Mbox |-> [sharing[b] EXCEPT !.granted = @ \ {m}]]
  /\ keys' = WithoutKeysOf(m) /\ loggedIn' = loggedIn \ {m} /\ UNCHANGED <<trashed>>
RevokeMemberSession(r, m) ==
  /\ MayAdminister(r, "admin.members") /\ m \in loggedIn /\ ChangesOwn(r, {})
  /\ loggedIn' = loggedIn \ {m} /\ UNCHANGED <<standing, sharing, keys, trashed>>
\* The owner is written before the access is: the second may be refused when the first is done.
PatchAdminAccount(r, b) ==
  /\ MayAdminister(r, "admin.accounts") /\ sharing[b].owner # Absent /\ CanSee(By(r), b)
  /\ \E owner \in {sharing[b].owner} \union {m \in Holder : IsMember(m)} :
       \/ /\ \E all \in BOOLEAN : \E granted \in {{}} \union {{m} : m \in {n \in Holder : IsMember(n)}} :
               sharing' = [sharing EXCEPT ![b] = [@ EXCEPT !.owner = owner, !.all = all, !.granted = granted]]
          /\ ChangesOwn(r, {b})
       \/ /\ sharing' = [sharing EXCEPT ![b].owner = owner]
          /\ Becomes(r, [Changed(r, FALSE, {b}) EXCEPT !.own = TRUE, !.ok = FALSE])
  /\ UNCHANGED <<standing, keys, loggedIn, trashed>>
DeleteAdminAccount(r, b) ==
  /\ MayAdminister(r, "admin.accounts") /\ sharing[b].owner # Absent /\ CanSee(By(r), b)
  /\ ChangesOwn(r, {b})
  /\ sharing' = WithoutMailbox(b) /\ UNCHANGED <<standing, keys, loggedIn, trashed>>
AdminIdentityRoutes(r) ==
  /\ ToHandle(r, "rest")
  /\ \/ ListMembers(r) \/ ListMemberSessions(r) \/ ListAdminAccounts(r) \/ ListAudit(r)
     \/ \E m \in Holder :
          \/ CreateMember(r, m) \/ InviteMember(r, m) \/ ResetMember(r, m) \/ PatchRole(r, m) \/ SuspendMember(r, m)
          \/ ActivateMember(r, m) \/ DeleteMember(r, m) \/ RevokeMemberSession(r, m)
     \/ \E b \in Mbox : PatchAdminAccount(r, b) \/ DeleteAdminAccount(r, b)

\* http/admin.ts.
StartsChange(r, mailboxes, calls) ==
  Becomes(r, [asked[r] EXCEPT !.at = "calling", !.on = mailboxes, !.todo = calls, !.changes = TRUE]) /\ Keeps
CreateConnection(r, b) ==
  /\ MayAdminister(r, "admin.accounts") /\ CanBeConnected(b)
  /\ IF sharing[b].owner = Absent THEN ~By(r).limited ELSE CanSee(By(r), b)
  /\ StartsChange(r, {b}, <<"connect">>)
ImapTest(r) == MayAdminister(r, "admin.accounts") /\ StartsChange(r, {}, <<"configure">>)
PatchFolders(r, b) ==
  /\ MayAdminister(r, "admin.accounts") /\ CanSee(By(r), b) /\ sharing[b].provider = "imap"
  /\ StartsChange(r, {b}, <<"configure">>)
ListKeys(r) == Shows(r, CanAdminister(By(r), "admin.api_keys"), {})
CreateKey(r, m) ==
  /\ MayAdminister(r, "admin.api_keys") /\ Becomes(r, Changed(r, FALSE, {}))
  /\ \E policy \in Offered : \E scope \in Scopes(ConnectedOnes) : IssuesKey(m, policy, scope)
  /\ UNCHANGED <<standing, sharing, loggedIn, trashed>>
\* Supplemental capabilities alone are for a named profile.
MoreFor(k) ==
  {PermissionPolicyForProfile(keys[k].policy.profile, s) :
     s \in IF keys[k].policy.profile = "custom" THEN {} ELSE {{}, {"admin.accounts"}}}
PatchKey(r, k) ==
  /\ MayAdminister(r, "admin.api_keys") /\ keys[k].holder # Absent /\ Becomes(r, Changed(r, FALSE, {}))
  /\ \E scope \in Scopes(ConnectedOnes) \union {[limited |-> keys[k].limited, within |-> keys[k].within]} :
     \E policy \in Offered \union {DeserializePermissionPolicy(keys[k].policy)} \union MoreFor(k) :
       /\ StoredPolicy(policy) # keys[k].policy => MayHold(keys[k].holder, policy)
       /\ keys' = [keys EXCEPT ![k] = [@ EXCEPT !.policy = StoredPolicy(policy), !.limited = scope.limited, !.within = scope.within]]
  /\ UNCHANGED <<standing, sharing, loggedIn, trashed>>
DeleteKey(r, k) ==
  /\ MayAdminister(r, "admin.api_keys") /\ Revokes(k) /\ Becomes(r, Changed(r, FALSE, {}))
  /\ UNCHANGED <<standing, sharing, loggedIn, trashed>>
GetOauthApps(r) == Shows(r, CanAdminister(By(r), "admin.accounts"), {})
PutOauthApp(r) == MayAdminister(r, "admin.accounts") /\ Becomes(r, Changed(r, FALSE, {})) /\ Keeps
DeleteOauthApp(r) == MayAdminister(r, "admin.accounts") /\ Becomes(r, Changed(r, FALSE, {})) /\ Keeps
GetLicense(r) == Shows(r, CanAdminister(By(r), "admin.license"), {})
ActivateLicense(r) == MayAdminister(r, "admin.license") /\ StartsChange(r, {}, <<"license">>)
DeactivateLicense(r) == MayAdminister(r, "admin.license") /\ StartsChange(r, {}, <<"license">>)
AdminRoutes(r) ==
  /\ ToHandle(r, "rest")
  /\ \/ ImapTest(r) \/ ListKeys(r) \/ GetOauthApps(r) \/ PutOauthApp(r) \/ DeleteOauthApp(r) \/ GetLicense(r)
     \/ ActivateLicense(r) \/ DeactivateLicense(r)
     \/ \E b \in Mbox : CreateConnection(r, b) \/ PatchFolders(r, b)
     \/ \E m \in Holder : CreateKey(r, m)
     \/ \E k \in KeyId : PatchKey(r, k) \/ DeleteKey(r, k)
\* A change that is answered with an error, by either file's routes.
Refuses(r) ==
  /\ asked[r].via = "rest"
  /\ \/ asked[r].at = "begun" /\ \E own \in BOOLEAN :
          Becomes(r, [asked[r] EXCEPT !.at = "answered", !.changes = TRUE, !.own = own, !.ok = FALSE])
     \/ asked[r].at = "calling" /\ asked[r].changes
          /\ Becomes(r, [asked[r] EXCEPT !.at = "answered", !.todo = <<>>, !.ok = FALSE])
  /\ Keeps
\* The middleware around every administrative route.
\* Mutant: every request that may change something is recorded.
RecordsAll(r) == asked[r].changes
RecordsIt(r) == asked[r].changes /\ ~(asked[r].own /\ asked[r].ok)
RequestOver(r) ==
  [Handled EXCEPT !.at = "over", !.changes = asked[r].changes, !.noted = asked[r].noted, !.lost = asked[r].lost]
Audits(r) ==
  /\ asked[r].at = "answered"
  /\ \E q \in IF RecordsIt(r) THEN AuditWrites(RequestOver(r)) ELSE {RequestOver(r)} : Becomes(r, q)
  /\ Keeps

GoesOn(r) ==
  \/ MakesCall(r) \/ PutsIntoTrash(r) \/ TakesOutOfTrash(r) \/ ChecksOutside(r) \/ MovesMessage(r) \/ MovesFromOutside(r)
  \/ SavesMailbox(r) \/ TurnsAway(r) \/ Refuses(r) \/ Audits(r)
AccessNext ==
  \/ RestAuthenticates \/ McpAuthenticates
  \/ \E r \in DOMAIN asked : \/ RestMail(r) \/ McpTools(r) \/ OwnRoutes(r)
                    \/ AdminIdentityRoutes(r) \/ AdminRoutes(r) \/ GoesOn(r)
  \/ \E m \in Holder : LogsIn(m) \/ Enrolls(m)
AccessSpec == AccessInit /\ [][AccessNext]_accessVars

-----------------------------------------------------------------------------
\* The records, and: a key is held by an active member, since a suspension or a removal
\* deletes the keys (members.ts updateMember, removeMember) and none is issued to
\* anybody else, even by a request that was under way (apiKeys.ts createApiKey).
AccessTypeOK ==
  /\ standing \in [Holder -> [role : {"admin", "member"}, status : {"none", "pending", "active", "suspended"}]]
  /\ \A b \in Mbox : sharing[b].owner \in Holder \union {Absent} /\ sharing[b].granted \subseteq Holder
  /\ loggedIn \subseteq Holder /\ trashed \subseteq Mbox
  /\ \A r \in DOMAIN asked : asked[r].at \in {"begun", "calling", "answered", "over"} /\ asked[r].noted \in 0..2
  /\ ActiveAdmins # {}
  /\ \A k \in KeyId : keys[k] = NoApiKey \/ standing[keys[k].holder].status = "active"

\* What a route or a tool asks for covers every call that the service and the provider
\* make for it: none of them reads, drafts, sends, moves or deletes for a credential that
\* lacks the capability (rest.ts, buildServer.ts; MODIFY_CAPABILITIES in both).
AdminCalls == {"configure", "license", "connect"}
AsPermitted ==
  \A r \in DOMAIN asked : asked[r].at = "calling" =>
    \A i \in DOMAIN asked[r].todo :
      LET call == asked[r].todo[i] IN
      IF call \notin AdminCalls THEN Allows(By(r), NeedOf(call))
      ELSE \/ ~asked[r].changes /\ IsSession(By(r))
           \/ CanAdminister(By(r), IF call = "license" THEN "admin.license" ELSE "admin.accounts")

\* A key that is limited to mailboxes reaches, is shown and changes no other, an
\* administrator's key too (authorization.ts, requireUnscopedAccountCreation).
WithinScope ==
  \A r \in DOMAIN asked : By(r).limited => asked[r].on \subseteq By(r).within /\ asked[r].shown \subseteq By(r).within

\* Only administrators decide about other people: a standing changes by a request of one
\* (or by enrolling), a mailbox by one or by its owner, who can only give it up, a key by
\* one or, in a session, by its holder; and a key is given an administrative capability
\* only while its holder is an administrator.
Acts(r) == asked[r].at \in {"begun", "calling"} /\ asked'[r].at # asked[r].at
Administers(c) == \E r \in DOMAIN asked : Acts(r) /\ By(r).role = "admin" /\ CanAdminister(By(r), c)
DecidedByOneWhoMay ==
  <<standing, sharing, keys>>' # <<standing, sharing, keys>> =>
   /\ \A m \in Holder : standing'[m] # standing[m] =>
        \/ Administers("admin.members")
        \/ standing[m].status = "pending" /\ standing' = [standing EXCEPT ![m].status = "active"]
   /\ \A b \in Mbox : sharing'[b].owner # sharing[b].owner \/ sharing'[b].all # sharing[b].all =>
        \/ Administers("admin.accounts")
        \/ \E r \in DOMAIN asked : /\ Acts(r) /\ IsSession(By(r))
                          /\ \/ By(r).role = "admin" \/ sharing[b].owner = By(r).who
                             \/ sharing[b].owner = Absent /\ sharing'[b].owner = By(r).who
   /\ \A k \in KeyId : keys'[k] # keys[k] =>
        \/ Administers("admin.api_keys") \/ Administers("admin.members")
        \/ \E r \in DOMAIN asked : /\ Acts(r) /\ IsSession(By(r))
                          /\ By(r).who = (IF keys[k] = NoApiKey THEN keys'[k].holder ELSE keys[k].holder)
   /\ \A k \in KeyId : keys'[k].policy # keys[k].policy /\ keys'[k] # NoApiKey =>
        (MayOf(k)' \intersect AdminCapability # {} => standing[keys'[k].holder].role = "admin")
OnlyAdministratorsDecide == [][DecidedByOneWhoMay]_accessVars

\* A message goes to Trash only by a request that may trash, and comes out only by one, or
\* by a move that saw it outside of Trash since the request was handled (Outlook looks,
\* and moves after that: another request may have trashed it in between).
Works(r) == asked[r].at = "calling" /\ asked'[r].todo # asked[r].todo
MovedByOneWhoMay ==
  trashed' # trashed => \A b \in Mbox :
    /\ b \in trashed' \ trashed => \E r \in DOMAIN asked : Works(r) /\ b \in asked[r].on /\ Allows(By(r), "mail.trash")
    /\ b \in trashed \ trashed' =>
         \E r \in DOMAIN asked : Works(r) /\ b \in asked[r].on /\ (Allows(By(r), "mail.trash") \/ asked[r].out)
TrashGuarded == [][MovedByOneWhoMay]_accessVars

\* An administrative request that may change something is written to the audit log once,
\* by its route or by the middleware, never by both and never by neither, whether it
\* succeeds, fails or fails halfway (identity.ts audit, the middleware of rest.ts).  It
\* leaves no event only if that one write failed, which both of them swallow ("Auditing
\* must not replace the API response").  A process that dies in between leaves none either.
AuditedOnce ==
  \A r \in DOMAIN asked :
    asked[r].at = "over" /\ asked[r].changes => asked[r].noted = IF asked[r].lost THEN 0 ELSE 1

\* At every call a request makes, its principal may make it, on the mailboxes it is about;
\* and whatever happens meanwhile, an administrator is left and no key outlives its holder.
ActsWithinAuthority == AccessTypeOK /\ AsPermitted /\ WithinScope

\* What changes members, mailboxes, keys and trash, changes by somebody who may, at the time
\* the request was authenticated (authorization.ts, members.ts, registry.ts, modify).
ChangesAuthorized == OnlyAdministratorsDecide /\ TrashGuarded
=============================================================================
