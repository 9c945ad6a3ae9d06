--------------------------- MODULE Requests_proofs ---------------------------
(***************************************************************************)
(* Theorems about requests.  AccessControl: whatever members, mailboxes    *)
(* and keys become while requests are under way, each request does what    *)
(* its credential allowed when it was authenticated, and leaves one audit  *)
(* event if it may change something.  SearchPaging: who lists a mailbox    *)
(* page by page is shown what matches, all of it, once.                    *)
(***************************************************************************)
EXTENDS AccessControl, SearchPaging, FiniteSetTheorems, SequenceTheorems, TLAPS

-----------------------------------------------------------------------------
(* AccessControl *)

\* The calls to a mailbox, by what follows them.
PlainCall == {"read", "draft", "send", "schedule", "organize", "delete"}
LastCall == {"intoTrash", "takeOut", "takeOutOfTrash", "moveFromOutside"}
MailTodo(todo) ==
  \/ todo \in Seq(PlainCall) /\ todo # <<>>
  \/ todo \in {<<"mustBeOutside", "move">>, <<"move">>}
  \/ \E c \in LastCall : todo = <<c>>

Permitted(q, call) ==
  IF call \notin AdminCalls THEN Allows(q.by, NeedOf(call))
  ELSE \/ ~q.changes /\ IsSession(q.by)
       \/ CanAdminister(q.by, IF call = "license" THEN "admin.license" ELSE "admin.accounts")

\* One event is in the log, or the write of it failed.
WrittenOnce(q) == q.noted = IF q.lost THEN 0 ELSE 1

\* A request under way may make every call it still has to make, saw its message outside of
\* Trash if it is outside or about to be moved, keeps to the mailboxes of its key, and has as
\* many writes of audit events behind it as its route has made.
RequestOK(q, trash) ==
  /\ DOMAIN q = DOMAIN Handled
  /\ q.at \in {"begun", "calling", "answered", "over"}
  /\ q.on \subseteq Mbox
  /\ q.by.kind = "session" => ~q.by.limited
  /\ q.by.limited => q.on \subseteq q.by.within /\ q.shown \subseteq q.by.within
  /\ q.at \in {"begun", "calling"} => q.ok /\ ~q.own /\ q.noted = 0 /\ ~q.lost
  /\ q.at = "begun" => ~q.changes /\ q.by.who \in Holder
  /\ q.at = "calling" =>
       /\ \/ /\ MailTodo(q.todo) /\ ~q.changes
             /\ q.todo = <<"move">> \/ q.on \intersect trash = {} => q.out
          \/ \E c \in AdminCalls : q.todo = <<c>>
       /\ \A i \in DOMAIN q.todo : Permitted(q, q.todo[i])
  /\ q.lost \in BOOLEAN
  /\ q.at = "answered" => IF q.changes /\ q.own /\ q.ok THEN WrittenOnce(q) ELSE q.noted = 0 /\ ~q.lost
  /\ q.at = "over" => IF q.changes THEN WrittenOnce(q) ELSE q.noted = 0 /\ ~q.lost

Requests == {asked[r] : r \in DOMAIN asked}
RequestsOK == asked \in Seq(Requests) /\ \A r \in DOMAIN asked : RequestOK(asked[r], trashed)

\* Records, field by field.
FieldsAre(q, at, by, on, todo, out, shown, changes, own, ok, noted, lost) ==
  /\ DOMAIN q = DOMAIN Handled
  /\ q.at = at /\ q.by = by /\ q.on = on /\ q.todo = todo /\ q.out = out /\ q.shown = shown
  /\ q.changes = changes /\ q.own = own /\ q.ok = ok /\ q.noted = noted /\ q.lost = lost

LEMMA HandledIsOK == \A trash : RequestOK(Handled, trash)
BY DEF RequestOK, Handled, Nobody

LEMMA BegunIsOK ==
  ASSUME NEW p, NEW v, NEW trash, p.kind = "session" => ~p.limited, p.who \in Holder
  PROVE  RequestOK([Handled EXCEPT !.at = "begun", !.by = p, !.via = v], trash)
<1> DEFINE q == [Handled EXCEPT !.at = "begun", !.by = p, !.via = v]
<1>1. FieldsAre(q, "begun", p, {}, <<>>, FALSE, {}, FALSE, FALSE, TRUE, 0, FALSE)
  BY DEF FieldsAre, Handled
<1> HIDE DEF q
<1>2. RequestOK(q, trash)
  BY <1>1 DEF FieldsAre, RequestOK
<1> QED
  BY <1>2 DEF q

\* How the requests change: a new one, or one of them.
LEMMA AskedGrows ==
  ASSUME RequestsOK, NEW q, asked' = Append(asked, q), RequestOK(q, trashed), trashed' = trashed
  PROVE  RequestsOK'
<1> DEFINE S == Requests \union {q}
<1>1. asked \in Seq(S) /\ q \in S /\ DOMAIN asked = 1..Len(asked) /\ Len(asked) \in Nat
  <2>1. asked \in Seq(Requests)
    BY DEF RequestsOK
  <2>2. asked \in Seq(S)
    BY <2>1, SeqMonotonic
  <2> QED
    BY <2>2, LenProperties
<1> HIDE DEF S
<1>2. /\ asked' \in Seq(S) /\ DOMAIN asked' = 1..(Len(asked) + 1)
      /\ \A i \in 1..Len(asked) : asked'[i] = asked[i]
      /\ asked'[Len(asked) + 1] = q
  BY <1>1, AppendProperties
<1>3. asked' \in Seq(Requests')
  BY <1>2 DEF Requests
<1>4. \A r \in DOMAIN asked' : RequestOK(asked'[r], trashed')
  BY <1>1, <1>2 DEF RequestsOK
<1> QED
  BY <1>3, <1>4 DEF RequestsOK

LEMMA AskedBecomes ==
  ASSUME RequestsOK, NEW f, asked' = [r \in DOMAIN asked |-> f[r]],
         \A r \in DOMAIN asked : RequestOK(f[r], trashed')
  PROVE  RequestsOK'
<1>1. asked \in Seq(Requests)
  BY DEF RequestsOK
<1>2. DOMAIN asked = 1..Len(asked) /\ Len(asked) \in Nat
  BY <1>1, LenProperties
<1>3. asked' \in Seq(Requests')
  BY <1>2 DEF Requests
<1>4. \A r \in DOMAIN asked' : RequestOK(asked'[r], trashed')
  OBVIOUS
<1> QED
  BY <1>3, <1>4 DEF RequestsOK

LEMMA BecomesOK ==
  ASSUME RequestsOK, NEW r \in DOMAIN asked, NEW q, Becomes(r, q), RequestOK(q, trashed), trashed' = trashed
  PROVE  RequestsOK'
<1> DEFINE f == [asked EXCEPT ![r] = q]
<1>1. asked' = [s \in DOMAIN asked |-> f[s]] /\ \A s \in DOMAIN asked : RequestOK(f[s], trashed')
  BY DEF Becomes, RequestsOK
<1> HIDE DEF f
<1> QED
  BY <1>1, AskedBecomes

\* The calls of a route fit what it asks for, and none moves a message without a look at it.
Fits(calls, needs) ==
  /\ MailTodo(calls) /\ calls # <<"move">>
  /\ \A i \in DOMAIN calls : NeedOf(calls[i]) \in needs

LEMMA NeedOfPlain ==
  /\ NeedOf("read") = "mail.read" /\ NeedOf("draft") = "mail.drafts"
  /\ NeedOf("send") = "mail.send" /\ NeedOf("schedule") = "mail.send"
  /\ NeedOf("organize") = "mail.organize" /\ NeedOf("delete") = "mail.delete"
  /\ NeedOf("mustBeOutside") = "mail.organize" /\ NeedOf("move") = "mail.organize"
  /\ NeedOf("moveFromOutside") = "mail.organize" /\ NeedOf("intoTrash") = "mail.trash"
  /\ NeedOf("takeOut") = "mail.trash" /\ NeedOf("takeOutOfTrash") = "mail.trash"
BY DEF NeedOf

LEMMA PlainFits ==
  ASSUME NEW needs, NEW S \in SUBSET PlainCall, \A c \in S : NeedOf(c) \in needs,
         NEW calls \in Seq(S), calls # <<>>
  PROVE  Fits(calls, needs)
<1>1. calls \in Seq(PlainCall)
  BY SeqMonotonic
<1>2. \A i \in DOMAIN calls : calls[i] \in S
  BY LenProperties
<1>3. calls # <<"move">>
  <2>1. \A i \in DOMAIN calls : calls[i] # "move"
    BY <1>2 DEF PlainCall
  <2> QED
    BY <2>1
<1> QED
  BY <1>1, <1>2, <1>3 DEF Fits, MailTodo

LEMMA LastFits ==
  ASSUME NEW needs, NEW c \in LastCall, NeedOf(c) \in needs
  PROVE  Fits(<<c>>, needs)
BY DEF Fits, MailTodo, LastCall

LEMMA OneFits ==
  ASSUME NEW needs, NEW c \in PlainCall, NeedOf(c) \in needs
  PROVE  Fits(<<c>>, needs)
<1>1. <<c>> \in Seq({c}) /\ <<c>> # <<>>
  OBVIOUS
<1> QED
  BY <1>1, PlainFits

LEMMA JoinedCalls ==
  ASSUME NEW S, NEW s \in Seq(S), NEW t \in Seq(S), t # <<>>
  PROVE  s \o t \in Seq(S) /\ s \o t # <<>>
<1>1. s \o t \in Seq(S) /\ Len(s \o t) = Len(s) + Len(t)
  BY ConcatProperties, Zenon
<1>2. Len(s) \in Nat /\ Len(t) \in Nat /\ Len(t) # 0
  BY LenProperties, EmptySeq
<1> QED
  BY <1>1, <1>2, EmptySeq

LEMMA Composed ==
  ASSUME NEW S, NEW c \in S, NEW reply \in BOOLEAN, reply => "read" \in S
  PROVE  /\ ResolvesRecipients(reply) \o (Composes(reply) \o <<c>>) \in Seq(S)
         /\ ResolvesRecipients(reply) \o (Composes(reply) \o <<c>>) # <<>>
         /\ (ResolvesRecipients(reply) \o Composes(reply)) \o <<c>> \in Seq(S)
         /\ (ResolvesRecipients(reply) \o Composes(reply)) \o <<c>> # <<>>
<1>1. /\ ResolvesRecipients(reply) \in Seq(S) /\ Composes(reply) \in Seq(S)
      /\ <<c>> \in Seq(S) /\ <<c>> # <<>>
  BY DEF ResolvesRecipients, Composes
<1> DEFINE a == ResolvesRecipients(reply)
           b == Composes(reply)
           d == <<c>>
<1> HIDE DEF a, b, d
<1>2. a \in Seq(S) /\ b \in Seq(S) /\ d \in Seq(S) /\ d # <<>>
  BY <1>1 DEF a, b, d
<1>3. b \o d \in Seq(S) /\ b \o d # <<>>
  BY <1>2, JoinedCalls
<1>4. a \o b \in Seq(S)
  BY <1>2, ConcatProperties, Zenon
<1>5. a \o (b \o d) \in Seq(S) /\ a \o (b \o d) # <<>>
  BY <1>2, <1>3, JoinedCalls
<1>6. (a \o b) \o d \in Seq(S) /\ (a \o b) \o d # <<>>
  BY <1>2, <1>4, JoinedCalls
<1> QED
  BY <1>5, <1>6 DEF a, b, d

LEMMA ComposedFits ==
  ASSUME NEW reply \in BOOLEAN
  PROVE  /\ Fits(CreatesDraft(reply), {"mail.drafts"} \union ReplyNeeds(reply))
         /\ Fits(UpdatesDraft(reply), {"mail.drafts"} \union ReplyNeeds(reply))
         /\ Fits(SendsNow(reply), {"mail.send"} \union ReplyNeeds(reply))
         /\ Fits(SchedulesSend(reply), {"mail.send"} \union ReplyNeeds(reply))
<1> DEFINE Of(c) == IF reply THEN {c, "read"} ELSE {c}
<1>1. ASSUME NEW c \in {"draft", "send", "schedule"}
      PROVE  /\ Of(c) \subseteq PlainCall /\ c \in Of(c) /\ (reply => "read" \in Of(c))
             /\ \A d \in Of(c) : NeedOf(d) \in {NeedOf(c)} \union ReplyNeeds(reply)
  BY NeedOfPlain DEF PlainCall, ReplyNeeds
<1> HIDE DEF Of
<1>2. CreatesDraft(reply) = ResolvesRecipients(reply) \o (Composes(reply) \o <<"draft">>)
  BY DEF CreatesDraft, SavesDraft
<1>3. UpdatesDraft(reply) = ResolvesRecipients(reply) \o (Composes(reply) \o <<"draft">>)
  BY DEF UpdatesDraft, SavesDraft
<1>4. SendsNow(reply) = ResolvesRecipients(reply) \o (Composes(reply) \o <<"send">>)
  BY DEF SendsNow, Sends
<1>5. SchedulesSend(reply) = (ResolvesRecipients(reply) \o Composes(reply)) \o <<"schedule">>
  BY DEF SchedulesSend
<1>6. Fits(CreatesDraft(reply), {"mail.drafts"} \union ReplyNeeds(reply))
  BY <1>1, <1>2, Composed, PlainFits, NeedOfPlain
<1>7. Fits(UpdatesDraft(reply), {"mail.drafts"} \union ReplyNeeds(reply))
  BY <1>1, <1>3, Composed, PlainFits, NeedOfPlain
<1>8. Fits(SendsNow(reply), {"mail.send"} \union ReplyNeeds(reply))
  BY <1>1, <1>4, Composed, PlainFits, NeedOfPlain
<1>9. Fits(SchedulesSend(reply), {"mail.send"} \union ReplyNeeds(reply))
  BY <1>1, <1>5, Composed, PlainFits, NeedOfPlain
<1> QED
  BY <1>6, <1>7, <1>8, <1>9

LEMMA OtherCallsFit ==
  /\ Fits(<<"read">>, {"mail.read"})
  /\ Fits(DeletesDraft, {"mail.drafts"})
  /\ Fits(Forwards, ForwardNeeds)
<1>1. Fits(<<"read">>, {"mail.read"})
  BY OneFits, NeedOfPlain DEF PlainCall
<1>2. Fits(<<"draft">>, {"mail.drafts"})
  BY OneFits, NeedOfPlain DEF PlainCall
<1>3. Fits(<<"read", "read", "send">>, {"mail.read", "mail.send"})
  <2>1. <<"read", "read", "send">> \in Seq({"read", "send"})
    OBVIOUS
  <2> QED
    BY <2>1, PlainFits, NeedOfPlain DEF PlainCall
<1> QED
  BY <1>1, <1>2, <1>3 DEF DeletesDraft, Forwards, ForwardNeeds

\* What modify does at any provider is covered by the capability its action needs.
LEMMA ModifyFits ==
  ASSUME NEW b, NEW action \in ModifyActions, sharing[b].provider \in {"gmail", "outlook", "imap"}
  PROVE  Modifies(b, action) = <<>> \/ Fits(Modifies(b, action), {ModifyNeeds(action)})
<1>1. Fits(<<"organize">>, {"mail.organize"})
  BY OneFits, NeedOfPlain DEF PlainCall
<1>2. Fits(<<"delete">>, {"mail.delete"})
  BY OneFits, NeedOfPlain DEF PlainCall
<1>3. \A c \in {"intoTrash", "takeOut", "takeOutOfTrash"} : Fits(<<c>>, {"mail.trash"})
  BY LastFits, NeedOfPlain DEF LastCall
<1>4. Fits(<<"moveFromOutside">>, {"mail.organize"})
  BY LastFits, NeedOfPlain DEF LastCall
<1>5. Fits(<<"mustBeOutside", "move">>, {"mail.organize"})
  <2>1. MailTodo(<<"mustBeOutside", "move">>)
    BY DEF MailTodo
  <2>2. \A i \in DOMAIN <<"mustBeOutside", "move">> : NeedOf(<<"mustBeOutside", "move">>[i]) = "mail.organize"
    BY NeedOfPlain
  <2> QED
    BY <2>1, <2>2 DEF Fits
<1>6. CASE action \in {"markRead", "markUnread", "star", "unstar"}
  BY <1>1, <1>6 DEF Modifies, ModifyNeeds
<1>7. CASE action \in {"addLabels", "removeLabels"}
  BY <1>1, <1>7 DEF Modifies, ModifyNeeds, Labels
<1>8. CASE action = "delete"
  BY <1>2, <1>8 DEF Modifies, ModifyNeeds
<1>9. CASE action = "trash"
  BY <1>3, <1>9 DEF Modifies, ModifyNeeds
<1>10. CASE action = "untrash"
  BY <1>3, <1>10 DEF Modifies, ModifyNeeds, Untrashes
<1>11. CASE action \in {"archive", "move"}
  BY <1>1, <1>4, <1>5, <1>11 DEF Modifies, ModifyNeeds, Moves
<1>12. CASE action = "moveToTrashByPath"
  BY <1>1, <1>12 DEF Modifies, ModifyNeeds, MovesToTrash
<1> QED
  BY <1>6, <1>7, <1>8, <1>9, <1>10, <1>11, <1>12 DEF ModifyActions
-----------------------------------------------------------------------------
(* The inductive invariant. *)

BoxOK(b) ==
  /\ DOMAIN sharing[b] = {"provider", "owner", "all", "granted"}
  /\ sharing[b].owner \in Holder \union {Absent} /\ sharing[b].granted \subseteq Holder
  /\ sharing[b].owner # Absent => sharing[b].provider \in {"gmail", "outlook", "imap"}
StoredPolicies == {StoredPolicy(policy) : policy \in PermissionPolicy}
KeyOK(k) ==
  \/ keys[k] = NoApiKey
  \/ /\ DOMAIN keys[k] = DOMAIN NoApiKey
     /\ keys[k].holder \in Holder /\ standing[keys[k].holder].status = "active"
     /\ keys[k].policy \in StoredPolicies
Standing == [role : {"admin", "member"}, status : {"none", "pending", "active", "suspended"}]
BoxesOK == sharing = [b \in Mbox |-> sharing[b]] /\ \A b \in Mbox : BoxOK(b)
KeysOK == keys = [k \in KeyId |-> keys[k]] /\ \A k \in KeyId : KeyOK(k)

AccessIInv ==
  /\ RequestsOK /\ BoxesOK /\ KeysOK
  /\ standing \in [Holder -> Standing]
  /\ loggedIn \subseteq Holder /\ trashed \subseteq Mbox
  /\ ActiveAdmins # {}

-----------------------------------------------------------------------------
(* What a step makes of a request. *)

LEMMA MailIsNotAdmin ==
  ASSUME NEW calls, MailTodo(calls)
  PROVE  \A i \in DOMAIN calls : calls[i] \notin AdminCalls
<1>1. CASE calls \in Seq(PlainCall) /\ calls # <<>>
  <2>1. \A i \in DOMAIN calls : calls[i] \in PlainCall
    BY <1>1, LenProperties
  <2> QED
    BY <2>1 DEF PlainCall, AdminCalls
<1>2. CASE calls \in {<<"mustBeOutside", "move">>, <<"move">>}
  BY <1>2 DEF AdminCalls
<1>3. CASE \E c \in LastCall : calls = <<c>>
  BY <1>3 DEF LastCall, AdminCalls
<1> QED
  BY <1>1, <1>2, <1>3 DEF MailTodo

LEMMA AnsweredIsOK ==
  ASSUME AccessIInv, NEW r \in DOMAIN asked
  PROVE  Becomes(r, Handled) /\ trashed' = trashed => RequestsOK'
BY HandledIsOK, BecomesOK DEF AccessIInv

LEMMA ServesOK ==
  ASSUME AccessIInv, NEW r \in DOMAIN asked, asked[r].at = "begun", NEW b \in Mbox, NEW needs, NEW calls,
         sharing[b].owner # Absent => calls = <<>> \/ Fits(calls, needs),
         Serves(r, b, needs, calls)
  PROVE  RequestsOK'
<1> DEFINE q == [asked[r] EXCEPT !.at = "calling", !.on = {b}, !.todo = calls, !.out = b \notin trashed]
           served == (\A c \in needs : Allows(By(r), c)) /\ CanAccess(By(r), b) /\ calls # <<>>
<1>1. trashed' = trashed /\ Becomes(r, IF served THEN q ELSE Handled)
  BY DEF Serves, Keeps
<1>2. RequestOK(asked[r], trashed)
  BY DEF AccessIInv, RequestsOK
<1>3. ASSUME served PROVE RequestOK(q, trashed)
  <2>1. FieldsAre(q, "calling", By(r), {b}, calls, b \notin trashed, asked[r].shown, asked[r].changes,
                  asked[r].own, asked[r].ok, asked[r].noted, asked[r].lost)
    BY <1>2 DEF RequestOK, FieldsAre, Handled, By
  <2>2. Fits(calls, needs) /\ InScope(By(r), b) /\ \A c \in needs : Allows(By(r), c)
    BY <1>3 DEF CanAccess
  <2>3. MailTodo(calls) /\ \A i \in DOMAIN calls : Allows(By(r), NeedOf(calls[i])) /\ calls[i] \notin AdminCalls
    BY <2>2, MailIsNotAdmin DEF Fits
  <2> HIDE DEF q, served
  <2>4. ~q.changes /\ q.ok /\ ~q.own /\ q.noted = 0 /\ ~q.lost
    BY <1>2, <2>1 DEF RequestOK, FieldsAre
  <2>5. \A i \in DOMAIN q.todo : Permitted(q, q.todo[i])
    BY <2>1, <2>3 DEF FieldsAre, Permitted
  <2>6. calls # <<"move">>
    BY <2>2 DEF Fits
  <2>7. q.by.limited => q.on \subseteq q.by.within /\ q.shown \subseteq q.by.within
    BY <1>2, <2>1, <2>2 DEF FieldsAre, RequestOK, InScope, By
  <2> QED
    BY <1>2, <2>1, <2>3, <2>4, <2>5, <2>6, <2>7 DEF RequestOK, FieldsAre, By
<1> QED
  BY <1>1, <1>3, HandledIsOK, BecomesOK DEF AccessIInv

LEMMA ShowsOK ==
  ASSUME AccessIInv, NEW r \in DOMAIN asked, asked[r].at = "begun", NEW allowed, NEW visible,
         By(r).limited /\ allowed => visible \subseteq By(r).within,
         Shows(r, allowed, visible)
  PROVE  RequestsOK'
<1> DEFINE q == [asked[r] EXCEPT !.at = "answered", !.shown = visible]
<1>1. trashed' = trashed /\ Becomes(r, IF allowed THEN q ELSE Handled)
  BY DEF Shows, Keeps
<1>2. RequestOK(asked[r], trashed)
  BY DEF AccessIInv, RequestsOK
<1>3. ASSUME allowed PROVE RequestOK(q, trashed)
  <2>1. FieldsAre(q, "answered", By(r), asked[r].on, asked[r].todo, asked[r].out, visible, asked[r].changes,
                  asked[r].own, asked[r].ok, asked[r].noted, asked[r].lost)
    BY <1>2 DEF RequestOK, FieldsAre, Handled, By
  <2> HIDE DEF q
  <2> QED
    BY <1>2, <1>3, <2>1 DEF RequestOK, FieldsAre, By
<1> QED
  BY <1>1, <1>3, HandledIsOK, BecomesOK DEF AccessIInv

\* A change is answered; it was allowed for these mailboxes, and is not recorded yet.
LEMMA ChangedIsOK ==
  ASSUME AccessIInv, NEW r \in DOMAIN asked, asked[r].at = "begun",
         NEW mailboxes \in SUBSET Mbox, By(r).limited => mailboxes \subseteq By(r).within,
         Becomes(r, Changed(r, FALSE, mailboxes)), trashed' = trashed
  PROVE  RequestsOK'
<1> DEFINE q == Changed(r, FALSE, mailboxes)
<1>1. RequestOK(asked[r], trashed)
  BY DEF AccessIInv, RequestsOK
<1>2. FieldsAre(q, "answered", By(r), mailboxes, <<>>, asked[r].out, asked[r].shown, TRUE,
                FALSE, asked[r].ok, 0, FALSE)
  BY <1>1 DEF RequestOK, FieldsAre, Handled, By, Changed
<1>3. Becomes(r, q)
  OBVIOUS
<1> HIDE DEF q
<1>4. RequestOK(q, trashed)
  BY <1>1, <1>2 DEF RequestOK, FieldsAre, By
<1> QED
  BY <1>3, <1>4, BecomesOK DEF AccessIInv

\* What a write of its event makes of a request without one.
LEMMA WriteIsOne ==
  ASSUME NEW c, NEW at, NEW by, NEW on, NEW todo, NEW out, NEW shown, NEW changes, NEW own, NEW ok,
         FieldsAre(c, at, by, on, todo, out, shown, changes, own, ok, 0, FALSE), NEW q \in AuditWrites(c)
  PROVE  \/ FieldsAre(q, at, by, on, todo, out, shown, changes, own, ok, 1, FALSE)
         \/ FieldsAre(q, at, by, on, todo, out, shown, changes, own, ok, 0, TRUE)
BY DEF FieldsAre, Handled, AuditWrites

\* A route of identity.ts answers a change, after one write of its event.
LEMMA OwnChangedIsOK ==
  ASSUME AccessIInv, NEW r \in DOMAIN asked, asked[r].at = "begun",
         NEW mailboxes \in SUBSET Mbox, By(r).limited => mailboxes \subseteq By(r).within,
         ChangesOwn(r, mailboxes), trashed' = trashed
  PROVE  RequestsOK'
<1> DEFINE c == Changed(r, TRUE, mailboxes)
<1>1. RequestOK(asked[r], trashed)
  BY DEF AccessIInv, RequestsOK
<1>2. FieldsAre(c, "answered", By(r), mailboxes, <<>>, asked[r].out, asked[r].shown, TRUE, TRUE, asked[r].ok, 0, FALSE)
  BY <1>1 DEF RequestOK, FieldsAre, Handled, By, Changed
<1>3. PICK q \in AuditWrites(c) : Becomes(r, q)
  BY DEF ChangesOwn
<1> HIDE DEF c
<1>4. \/ FieldsAre(q, "answered", By(r), mailboxes, <<>>, asked[r].out, asked[r].shown, TRUE, TRUE, asked[r].ok, 1, FALSE)
      \/ FieldsAre(q, "answered", By(r), mailboxes, <<>>, asked[r].out, asked[r].shown, TRUE, TRUE, asked[r].ok, 0, TRUE)
  BY <1>2, WriteIsOne
<1>5. RequestOK(q, trashed)
  BY <1>1, <1>4 DEF RequestOK, FieldsAre, By, WrittenOnce
<1> QED
  BY <1>3, <1>5, BecomesOK DEF AccessIInv

\* Its owner was written and then its access refused: the route has recorded nothing.
LEMMA HalfChangedIsOK ==
  ASSUME AccessIInv, NEW r \in DOMAIN asked, asked[r].at = "begun",
         NEW mailboxes \in SUBSET Mbox, By(r).limited => mailboxes \subseteq By(r).within,
         Becomes(r, [Changed(r, FALSE, mailboxes) EXCEPT !.own = TRUE, !.ok = FALSE]), trashed' = trashed
  PROVE  RequestsOK'
<1> DEFINE c == Changed(r, FALSE, mailboxes)
           q == [c EXCEPT !.own = TRUE, !.ok = FALSE]
<1>1. RequestOK(asked[r], trashed)
  BY DEF AccessIInv, RequestsOK
<1>2. FieldsAre(c, "answered", By(r), mailboxes, <<>>, asked[r].out, asked[r].shown, TRUE,
                FALSE, asked[r].ok, 0, FALSE)
  BY <1>1 DEF RequestOK, FieldsAre, Handled, By, Changed
<1>3. Becomes(r, q)
  OBVIOUS
<1> HIDE DEF c
<1>4. FieldsAre(q, "answered", By(r), mailboxes, <<>>, asked[r].out, asked[r].shown, TRUE, TRUE, FALSE, 0, FALSE)
  BY <1>2 DEF FieldsAre, Handled
<1> HIDE DEF q
<1>5. RequestOK(q, trashed)
  BY <1>1, <1>4 DEF RequestOK, FieldsAre, By
<1> QED
  BY <1>3, <1>5, BecomesOK DEF AccessIInv

LEMMA StartsOK ==
  ASSUME AccessIInv, NEW r \in DOMAIN asked, asked[r].at = "begun", NEW mailboxes \in SUBSET Mbox,
         By(r).limited => mailboxes \subseteq By(r).within, NEW c \in AdminCalls,
         CanAdminister(By(r), IF c = "license" THEN "admin.license" ELSE "admin.accounts"),
         StartsChange(r, mailboxes, <<c>>)
  PROVE  RequestsOK'
<1> DEFINE q == [asked[r] EXCEPT !.at = "calling", !.on = mailboxes, !.todo = <<c>>, !.changes = TRUE]
<1>1. RequestOK(asked[r], trashed)
  BY DEF AccessIInv, RequestsOK
<1>2. FieldsAre(q, "calling", By(r), mailboxes, <<c>>, asked[r].out, asked[r].shown, TRUE,
                asked[r].own, asked[r].ok, asked[r].noted, asked[r].lost)
  BY <1>1 DEF RequestOK, FieldsAre, Handled, By
<1>3. Becomes(r, q) /\ trashed' = trashed
  BY DEF StartsChange, Keeps
<1> HIDE DEF q
<1>4. RequestOK(q, trashed)
  BY <1>1, <1>2 DEF RequestOK, FieldsAre, By, Permitted
<1> QED
  BY <1>3, <1>4, BecomesOK DEF AccessIInv

LEMMA OwnStartsOK ==
  ASSUME AccessIInv, NEW r \in DOMAIN asked, asked[r].at = "begun", NEW b \in Mbox, IsSession(By(r)),
         NEW c \in AdminCalls,
         Becomes(r, [asked[r] EXCEPT !.at = "calling", !.on = {b}, !.todo = <<c>>]), trashed' = trashed
  PROVE  RequestsOK'
<1> DEFINE q == [asked[r] EXCEPT !.at = "calling", !.on = {b}, !.todo = <<c>>]
<1>1. RequestOK(asked[r], trashed)
  BY DEF AccessIInv, RequestsOK
<1>2. FieldsAre(q, "calling", By(r), {b}, <<c>>, asked[r].out, asked[r].shown, asked[r].changes,
                asked[r].own, asked[r].ok, asked[r].noted, asked[r].lost)
  BY <1>1 DEF RequestOK, FieldsAre, Handled, By
<1>3. Becomes(r, q)
  OBVIOUS
<1> HIDE DEF q
<1>4. RequestOK(q, trashed)
  BY <1>1, <1>2 DEF RequestOK, FieldsAre, By, Permitted, IsSession
<1> QED
  BY <1>3, <1>4, BecomesOK DEF AccessIInv

LEMMA RefusesOK ==
  ASSUME AccessIInv, NEW r \in DOMAIN asked, Refuses(r)
  PROVE  RequestsOK'
<1>1. RequestOK(asked[r], trashed) /\ trashed' = trashed
  BY DEF AccessIInv, RequestsOK, Refuses, Keeps
<1>2. ASSUME NEW own \in BOOLEAN, asked[r].at = "begun"
      PROVE  RequestOK([asked[r] EXCEPT !.at = "answered", !.changes = TRUE, !.own = own, !.ok = FALSE], trashed)
  <2> DEFINE q == [asked[r] EXCEPT !.at = "answered", !.changes = TRUE, !.own = own, !.ok = FALSE]
  <2>1. FieldsAre(q, "answered", By(r), asked[r].on, asked[r].todo, asked[r].out, asked[r].shown, TRUE,
                  own, FALSE, asked[r].noted, asked[r].lost)
    BY <1>1 DEF RequestOK, FieldsAre, Handled, By
  <2> HIDE DEF q
  <2>2. RequestOK(q, trashed)
    BY <1>1, <1>2, <2>1 DEF RequestOK, FieldsAre, By
  <2> QED
    BY <2>2 DEF q
<1>3. ASSUME asked[r].at = "calling"
      PROVE  RequestOK([asked[r] EXCEPT !.at = "answered", !.todo = <<>>, !.ok = FALSE], trashed)
  <2> DEFINE q == [asked[r] EXCEPT !.at = "answered", !.todo = <<>>, !.ok = FALSE]
  <2>1. FieldsAre(q, "answered", By(r), asked[r].on, <<>>, asked[r].out, asked[r].shown, asked[r].changes,
                  asked[r].own, FALSE, asked[r].noted, asked[r].lost)
    BY <1>1 DEF RequestOK, FieldsAre, Handled, By
  <2> HIDE DEF q
  <2>2. RequestOK(q, trashed)
    BY <1>1, <1>3, <2>1 DEF RequestOK, FieldsAre, By
  <2> QED
    BY <2>2 DEF q
<1>4. \E q : Becomes(r, q) /\ RequestOK(q, trashed)
  BY <1>2, <1>3 DEF Refuses
<1> QED
  BY <1>1, <1>4, BecomesOK DEF AccessIInv

LEMMA AuditsOK ==
  ASSUME AccessIInv, NEW r \in DOMAIN asked, Audits(r)
  PROVE  RequestsOK'
<1> DEFINE a == RequestOver(r)
<1>1. /\ RequestOK(asked[r], trashed) /\ trashed' = trashed /\ asked[r].at = "answered"
      /\ \E q \in IF RecordsIt(r) THEN AuditWrites(a) ELSE {a} : Becomes(r, q)
  BY DEF AccessIInv, RequestsOK, Audits, Keeps
<1>2. FieldsAre(a, "over", Nobody, {}, <<>>, FALSE, {}, asked[r].changes, FALSE, TRUE, asked[r].noted, asked[r].lost)
  BY DEF FieldsAre, Handled, RequestOver
<1> HIDE DEF a
<1>3. CASE RecordsIt(r)
  <2>1. PICK q \in AuditWrites(a) : Becomes(r, q)
    BY <1>1, <1>3
  <2>2. asked[r].noted = 0 /\ asked[r].lost = FALSE /\ asked[r].changes
    BY <1>1, <1>3 DEF RequestOK, RecordsIt
  <2>3. FieldsAre(a, "over", Nobody, {}, <<>>, FALSE, {}, asked[r].changes, FALSE, TRUE, 0, FALSE)
    BY <1>2, <2>2
  <2>4. \/ FieldsAre(q, "over", Nobody, {}, <<>>, FALSE, {}, asked[r].changes, FALSE, TRUE, 1, FALSE)
        \/ FieldsAre(q, "over", Nobody, {}, <<>>, FALSE, {}, asked[r].changes, FALSE, TRUE, 0, TRUE)
    BY <2>3, WriteIsOne
  <2>5. WrittenOnce(q) /\ q.lost \in BOOLEAN
    BY <2>4 DEF FieldsAre, WrittenOnce
  <2>6. /\ DOMAIN q = DOMAIN Handled /\ q.at = "over" /\ q.by = Nobody /\ q.on = {} /\ q.todo = <<>> /\ q.out = FALSE /\ q.shown = {}
        /\ q.changes = asked[r].changes /\ q.own = FALSE /\ q.ok = TRUE
    BY <2>4 DEF FieldsAre
  <2>7. Nobody.limited = FALSE /\ Nobody.kind # "session"
    BY DEF Nobody
  <2>8. RequestOK(q, trashed)
    BY <2>2, <2>5, <2>6, <2>7 DEF RequestOK
  <2> QED
    BY <1>1, <2>1, <2>8, BecomesOK DEF AccessIInv
<1>4. CASE ~RecordsIt(r)
  <2>1. Becomes(r, a)
    BY <1>1, <1>4
  <2>2. IF asked[r].changes THEN WrittenOnce(asked[r]) ELSE asked[r].noted = 0 /\ ~asked[r].lost
    BY <1>1, <1>4 DEF RequestOK, RecordsIt
  <2>3. asked[r].lost \in BOOLEAN
    BY <1>1 DEF RequestOK
  <2>4. RequestOK(a, trashed)
    BY <1>2, <2>2, <2>3 DEF RequestOK, FieldsAre, Nobody, WrittenOnce
  <2> QED
    BY <1>1, <2>1, <2>4, BecomesOK DEF AccessIInv
<1> QED
  BY <1>3, <1>4

LEMMA ArrivesOK ==
  ASSUME AccessIInv, NEW p \in Principals, NEW v, Arrives(p, v)
  PROVE  RequestsOK'
<1>1. (p.kind = "session" => ~p.limited) /\ p.who \in Holder
  <2>1. CASE \E k \in KeyId : p = KeyPrincipal(k) /\ keys[k].holder # Absent
    <3>1. PICK k \in KeyId : p = KeyPrincipal(k) /\ keys[k].holder # Absent
      BY <2>1
    <3>2. keys[k].holder \in Holder
      BY <3>1 DEF AccessIInv, KeysOK, KeyOK, NoApiKey
    <3> QED
      BY <3>1, <3>2 DEF KeyPrincipal
  <2>2. CASE \E m \in loggedIn : p = SessionPrincipal(m)
    BY <2>2 DEF SessionPrincipal, AccessIInv
  <2> QED
    BY <2>1, <2>2 DEF Principals
<1>2. RequestOK([Handled EXCEPT !.at = "begun", !.by = p, !.via = v], trashed)
  BY <1>1, BegunIsOK
<1> QED
  BY <1>2, AskedGrows DEF Arrives, AccessIInv

LEMMA OneCall == \A c : Len(<<c>>) = 1 /\ ~(Len(<<c>>) > 1)
OBVIOUS

\* What is left of a request's calls once it has made the first of several.
LEMMA RemainingCalls ==
  ASSUME NEW todo, MailTodo(todo), Len(todo) > 1
  PROVE  /\ MailTodo(Tail(todo))
         /\ Head(todo) \in PlainCall \/ (Head(todo) = "mustBeOutside" /\ Tail(todo) = <<"move">>)
         /\ Head(todo) \in PlainCall => Tail(todo) # <<"move">>
         /\ \A i \in DOMAIN Tail(todo) : \E j \in DOMAIN todo : Tail(todo)[i] = todo[j]
<1>1. CASE todo \in Seq(PlainCall) /\ todo # <<>>
  <2>1. /\ Head(todo) \in PlainCall /\ Tail(todo) \in Seq(PlainCall) /\ Len(Tail(todo)) = Len(todo) - 1
        /\ \A i \in 1..Len(Tail(todo)) : Tail(todo)[i] = todo[i + 1]
    BY <1>1, HeadTailProperties
  <2>2. /\ Len(todo) \in Nat /\ DOMAIN todo = 1..Len(todo) /\ DOMAIN Tail(todo) = 1..Len(Tail(todo))
        /\ Len(Tail(todo)) \in Nat
    BY <1>1, <2>1, LenProperties
  <2>3. Tail(todo) # <<>>
    <3>1. Len(Tail(todo)) > 0
      BY <2>1, <2>2
    <3>2. ~(Len(<<>>) > 0)
      OBVIOUS
    <3> QED
      BY <3>1, <3>2, Zenon
  <2>4. \A i \in DOMAIN Tail(todo) : i + 1 \in DOMAIN todo /\ Tail(todo)[i] = todo[i + 1]
    BY <2>1, <2>2
  <2>5. Tail(todo) # <<"move">>
    <3>1. \A i \in DOMAIN Tail(todo) : Tail(todo)[i] \in PlainCall
      BY <2>1, <2>2, LenProperties
    <3>2. \A i \in DOMAIN Tail(todo) : Tail(todo)[i] # "move"
      BY <3>1 DEF PlainCall
    <3>3. 1 \in DOMAIN <<"move">> /\ <<"move">>[1] = "move"
      OBVIOUS
    <3> QED
      BY <3>2, <3>3
  <2> QED
    BY <2>1, <2>3, <2>4, <2>5 DEF MailTodo
<1>2. CASE todo = <<"mustBeOutside", "move">>
  <2>1. Head(todo) = "mustBeOutside" /\ Tail(todo) = <<"move">> /\ todo[2] = "move" /\ DOMAIN todo = {1, 2}
    BY <1>2
  <2>2. MailTodo(<<"move">>) /\ DOMAIN <<"move">> = {1} /\ <<"move">>[1] = "move"
    BY DEF MailTodo
  <2> QED
    BY <2>1, <2>2 DEF PlainCall
<1>3. ~(todo = <<"move">>) /\ \A c \in LastCall : todo # <<c>>
  BY OneCall
<1> QED
  BY <1>1, <1>2, <1>3 DEF MailTodo

LEMMA BystanderIsOK ==
  ASSUME NEW q, NEW trash, RequestOK(q, trashed)
  PROVE  RequestOK([q EXCEPT !.out = @ \/ (q.at = "calling" /\ q.on \intersect trash = {})], trash)
<1> DEFINE out == q.out \/ (q.at = "calling" /\ q.on \intersect trash = {})
           w == [q EXCEPT !.out = out]
<1>1. FieldsAre(w, q.at, q.by, q.on, q.todo, out, q.shown, q.changes, q.own, q.ok, q.noted, q.lost)
  BY DEF RequestOK, FieldsAre, Handled
<1>2. w = [q EXCEPT !.out = @ \/ (q.at = "calling" /\ q.on \intersect trash = {})]
  OBVIOUS
<1> HIDE DEF w
<1>3. RequestOK(w, trash)
  <2>1. \A i \in DOMAIN w.todo : Permitted(q, q.todo[i]) => Permitted(w, w.todo[i])
    BY <1>1 DEF FieldsAre, Permitted
  <2> QED
    BY <1>1, <2>1 DEF RequestOK, FieldsAre, WrittenOnce
<1> QED
  BY <1>2, <1>3

LEMMA DoesOK ==
  ASSUME AccessIInv, NEW r \in DOMAIN asked, NEW call, NEW trash, Does(r, call, trash),
         call \in PlainCall => trash = trashed,
         call = "mustBeOutside" => trash = trashed /\ asked[r].on \intersect trashed = {}
  PROVE  RequestsOK'
<1> DEFINE rest == [asked[r] EXCEPT !.todo = Tail(@)]
           done == IF asked[r].changes THEN Changed(r, asked[r].own, asked[r].on) ELSE Handled
           mine == IF Len(asked[r].todo) > 1 THEN rest ELSE done
           f == [q \in DOMAIN asked |->
                  IF q # r THEN [asked[q] EXCEPT !.out = @ \/ (asked[q].at = "calling" /\ asked[q].on \intersect trash = {})]
                  ELSE mine]
<1>1. RequestsOK /\ RequestOK(asked[r], trashed) /\ trashed' = trash /\ asked[r].at = "calling" /\ Head(asked[r].todo) = call
  BY DEF AccessIInv, RequestsOK, Does
<1>2. asked' = [q \in DOMAIN asked |-> f[q]]
  BY DEF Does
<1>3. \A q \in DOMAIN asked : q # r => RequestOK(f[q], trash)
  BY <1>1, BystanderIsOK DEF RequestsOK
<1>4. f[r] = mine
  OBVIOUS
<1> HIDE DEF f, mine
<1>5. ASSUME Len(asked[r].todo) > 1 PROVE RequestOK(rest, trash)
  <2>1. FieldsAre(rest, "calling", By(r), asked[r].on, Tail(asked[r].todo), asked[r].out, asked[r].shown,
                  asked[r].changes, asked[r].own, asked[r].ok, asked[r].noted, asked[r].lost)
    BY <1>1 DEF RequestOK, FieldsAre, Handled, By
  <2>2. MailTodo(asked[r].todo)
    <3>1. \A c : asked[r].todo # <<c>>
      BY <1>5, OneCall
    <3> QED
      BY <1>1, <3>1 DEF RequestOK
  <2>3. /\ MailTodo(Tail(asked[r].todo))
        /\ call \in PlainCall \/ (call = "mustBeOutside" /\ Tail(asked[r].todo) = <<"move">>)
        /\ call \in PlainCall => Tail(asked[r].todo) # <<"move">>
        /\ \A i \in DOMAIN Tail(asked[r].todo) : \E j \in DOMAIN asked[r].todo : Tail(asked[r].todo)[i] = asked[r].todo[j]
    BY <1>1, <1>5, <2>2, RemainingCalls
  <2> HIDE DEF rest
  <2>4. trash = trashed
    BY <2>3
  <2>5. \A i \in DOMAIN rest.todo : Permitted(rest, rest.todo[i])
    <3>1. \A j \in DOMAIN asked[r].todo : Permitted(asked[r], asked[r].todo[j])
      BY <1>1 DEF RequestOK
    <3>2. \A c : Permitted(asked[r], c) <=> Permitted(rest, c)
      BY <2>1 DEF FieldsAre, Permitted, By
    <3> QED
      BY <2>1, <2>3, <3>1, <3>2 DEF FieldsAre
  <2>6. ~asked[r].changes /\ (asked[r].on \intersect trashed = {} => asked[r].out)
    <3>1. \A c : asked[r].todo # <<c>>
      BY <1>5, OneCall
    <3> QED
      BY <1>1, <3>1 DEF RequestOK
  <2>7. rest.todo = <<"move">> \/ rest.on \intersect trash = {} => rest.out
    BY <2>1, <2>3, <2>4, <2>6 DEF FieldsAre
  <2> QED
    BY <1>1, <2>1, <2>3, <2>5, <2>6, <2>7 DEF RequestOK, FieldsAre, By
<1>6. RequestOK(done, trash)
  <2>1. CASE asked[r].changes
    <3> DEFINE c == Changed(r, asked[r].own, asked[r].on)
    <3>1. FieldsAre(c, "answered", By(r), asked[r].on, <<>>, asked[r].out, asked[r].shown, TRUE,
                    asked[r].own, asked[r].ok, 0, FALSE)
      BY <1>1 DEF RequestOK, FieldsAre, Handled, By, Changed
    <3> HIDE DEF c
    <3>2. RequestOK(c, trash)
      BY <1>1, <3>1 DEF RequestOK, FieldsAre, By
    <3> QED
      BY <2>1, <3>2 DEF c
  <2>2. CASE ~asked[r].changes
    BY <2>2, HandledIsOK
  <2> QED
    BY <2>1, <2>2
<1>7. \A q \in DOMAIN asked : RequestOK(f[q], trashed')
  BY <1>1, <1>3, <1>4, <1>5, <1>6 DEF mine
<1> QED
  BY <1>1, <1>2, <1>7, AskedBecomes

\* A key that is limited to mailboxes sees no other.
LEMMA SightIsScoped ==
  ASSUME NEW p, p.limited
  PROVE  /\ Visible(p) \subseteq p.within /\ Accessible(p) \subseteq p.within
         /\ \A b : CanAccess(p, b) \/ CanSee(p, b) => b \in p.within
BY DEF Visible, Accessible, CanSee, CanAccess, InScope

LEMMA BoxHasProvider ==
  ASSUME AccessIInv, NEW b \in Mbox, sharing[b].owner # Absent
  PROVE  sharing[b].provider \in {"gmail", "outlook", "imap"}
BY DEF AccessIInv, BoxesOK, BoxOK

LEMMA RestMailOK ==
  ASSUME AccessIInv, NEW r \in DOMAIN asked, RestMail(r)
  PROVE  RequestsOK'
<1>1. asked[r].at = "begun"
  BY DEF RestMail, ToHandle
<1>2. ASSUME NEW b \in Mbox,
             \/ RestListFolders(r, b) \/ RestListLabels(r, b) \/ RestListMessages(r, b)
             \/ RestGetMessage(r, b) \/ RestGetThread(r, b) \/ RestAttachment(r, b)
             \/ RestDeleteDraft(r, b) \/ RestForward(r, b)
      PROVE  RequestsOK'
  <2>1. \E needs, calls : Serves(r, b, needs, calls) /\ Fits(calls, needs)
    BY <1>2, OtherCallsFit DEF RestListFolders, RestListLabels, RestListMessages, RestGetMessage, RestGetThread,
       RestAttachment, RestDeleteDraft, RestForward, ListsFolders, ListsLabels, ListsMessages, GetsMessage,
       GetsThread, GetsAttachment
  <2> QED
    BY <1>1, <2>1, ServesOK
<1>3. ASSUME NEW b \in Mbox, RestCreateDraft(r, b) \/ RestUpdateDraft(r, b) \/ RestSend(r, b)
      PROVE  RequestsOK'
  <2>1. \E needs, calls : Serves(r, b, needs, calls) /\ Fits(calls, needs)
    BY <1>3, ComposedFits DEF RestCreateDraft, RestUpdateDraft, RestSend
  <2> QED
    BY <1>1, <2>1, ServesOK
<1>4. ASSUME NEW b \in Mbox, RestModify(r, b)
      PROVE  RequestsOK'
  <2>1. PICK action \in ModifyActions : Serves(r, b, {ModifyNeeds(action)}, Modifies(b, action))
    BY <1>4 DEF RestModify
  <2>2. sharing[b].owner # Absent =>
          Modifies(b, action) = <<>> \/ Fits(Modifies(b, action), {ModifyNeeds(action)})
    BY BoxHasProvider, ModifyFits
  <2> QED
    BY <1>1, <2>1, <2>2, ServesOK
<1>5. ASSUME NEW b \in Mbox, RestListScheduled(r, b) \/ RestCancelScheduled(r, b)
      PROVE  RequestsOK'
  <2>1. \E c : Shows(r, Allows(By(r), c) /\ CanAccess(By(r), b), {b})
    BY <1>5 DEF RestListScheduled, RestCancelScheduled
  <2> QED
    BY <1>1, <2>1, SightIsScoped, ShowsOK
<1>6. RestStatus(r) \/ RestAccounts(r) => RequestsOK'
  BY <1>1, SightIsScoped, ShowsOK DEF RestStatus, RestAccounts
<1> QED
  BY <1>2, <1>3, <1>4, <1>5, <1>6 DEF RestMail

LEMMA McpToolsOK ==
  ASSUME AccessIInv, NEW r \in DOMAIN asked, McpTools(r)
  PROVE  RequestsOK'
<1>1. asked[r].at = "begun"
  BY DEF McpTools, ToHandle
<1>2. ASSUME NEW b \in Mbox,
             \/ ListFoldersTool(r, b) \/ ListLabelsTool(r, b) \/ ListEmailsTool(r, b) \/ SearchEmailsTool(r, b)
             \/ GetEmailTool(r, b) \/ GetThreadTool(r, b) \/ DownloadAttachmentTool(r, b)
             \/ DeleteDraftTool(r, b) \/ ForwardEmailTool(r, b)
      PROVE  RequestsOK'
  <2>1. \E needs, calls : Serves(r, b, needs, calls) /\ Fits(calls, needs)
    BY <1>2, OtherCallsFit DEF ListFoldersTool, ListLabelsTool, ListEmailsTool, SearchEmailsTool, GetEmailTool,
       GetThreadTool, DownloadAttachmentTool, DeleteDraftTool, ForwardEmailTool, ListsFolders, ListsLabels,
       ListsMessages, GetsMessage, GetsThread, GetsAttachment
  <2> QED
    BY <1>1, <2>1, ServesOK
<1>3. ASSUME NEW b \in Mbox, CreateDraftTool(r, b) \/ UpdateDraftTool(r, b) \/ SendEmailTool(r, b)
      PROVE  RequestsOK'
  <2>1. \E needs, calls : Serves(r, b, needs, calls) /\ Fits(calls, needs)
    BY <1>3, ComposedFits DEF CreateDraftTool, UpdateDraftTool, SendEmailTool
  <2> QED
    BY <1>1, <2>1, ServesOK
<1>4. ASSUME NEW b \in Mbox, ModifyEmailsTool(r, b)
      PROVE  RequestsOK'
  <2>1. PICK action \in ModifyActions : Serves(r, b, {ModifyNeeds(action)}, Modifies(b, action))
    BY <1>4 DEF ModifyEmailsTool
  <2>2. sharing[b].owner # Absent =>
          Modifies(b, action) = <<>> \/ Fits(Modifies(b, action), {ModifyNeeds(action)})
    BY BoxHasProvider, ModifyFits
  <2> QED
    BY <1>1, <2>1, <2>2, ServesOK
<1>5. ASSUME NEW b \in Mbox, CancelScheduledTool(r, b)
      PROVE  RequestsOK'
  BY <1>1, <1>5, SightIsScoped, ShowsOK DEF CancelScheduledTool
<1>6. GetStatusTool(r) \/ ListAccountsTool(r) \/ ListScheduledTool(r) => RequestsOK'
  BY <1>1, SightIsScoped, ShowsOK DEF GetStatusTool, ListAccountsTool, ListScheduledTool
<1> QED
  BY <1>2, <1>3, <1>4, <1>5, <1>6 DEF McpTools

LEMMA OwnRoutesOK ==
  ASSUME AccessIInv, NEW r \in DOMAIN asked, OwnRoutes(r)
  PROVE  RequestsOK'
<1>1. asked[r].at = "begun" /\ (IsSession(By(r)) => ~By(r).limited)
  BY DEF OwnRoutes, ToHandle, AccessIInv, RequestsOK, RequestOK, IsSession, By
<1>2. Me(r) \/ UpdateMe(r) \/ ListOwnSessions(r) => RequestsOK'
  BY <1>1, ShowsOK DEF Me, UpdateMe, ListOwnSessions
<1>3. ListOwnKeys(r) => RequestsOK'
  BY <1>1, ShowsOK DEF ListOwnKeys
<1>4. Logout(r) \/ DeleteOwnSession(r) \/ CreateOwnKey(r) \/ DeleteOwnKey(r) => RequestsOK'
  BY AnsweredIsOK DEF Logout, DeleteOwnSession, CreateOwnKey, DeleteOwnKey
<1>5. ASSUME NEW b \in Mbox, RemoveOwnAccount(r, b) PROVE RequestsOK'
  BY <1>5, AnsweredIsOK DEF RemoveOwnAccount
<1>6. ASSUME NEW b \in Mbox, ConnectOwnAccount(r, b) \/ ConfigureOwnFolders(r, b) PROVE RequestsOK'
  <2>1. \E c \in AdminCalls :
          Becomes(r, [asked[r] EXCEPT !.at = "calling", !.on = {b}, !.todo = <<c>>])
    BY <1>6 DEF ConnectOwnAccount, ConfigureOwnFolders, AdminCalls
  <2>2. IsSession(By(r)) /\ trashed' = trashed
    BY <1>6 DEF ConnectOwnAccount, ConfigureOwnFolders, Keeps
  <2> QED
    BY <1>1, <2>1, <2>2, OwnStartsOK
<1> QED
  BY <1>2, <1>3, <1>4, <1>5, <1>6 DEF OwnRoutes

LEMMA AdminIdentityRoutesOK ==
  ASSUME AccessIInv, NEW r \in DOMAIN asked, AdminIdentityRoutes(r)
  PROVE  RequestsOK'
<1>1. asked[r].at = "begun"
  BY DEF AdminIdentityRoutes, ToHandle
<1>2. ListMembers(r) \/ ListMemberSessions(r) \/ ListAudit(r) \/ ListAdminAccounts(r) => RequestsOK'
  BY <1>1, SightIsScoped, ShowsOK DEF ListMembers, ListMemberSessions, ListAudit, ListAdminAccounts
<1>3. ASSUME NEW m \in Holder,
             \/ CreateMember(r, m) \/ InviteMember(r, m) \/ ResetMember(r, m) \/ PatchRole(r, m)
             \/ SuspendMember(r, m) \/ ActivateMember(r, m) \/ DeleteMember(r, m) \/ RevokeMemberSession(r, m)
      PROVE  RequestsOK'
  <2>1. ChangesOwn(r, {}) /\ trashed' = trashed
    BY <1>3 DEF CreateMember, InviteMember, ResetMember, PatchRole, SuspendMember, ActivateMember,
       DeleteMember, RevokeMemberSession, Keeps
  <2>2. {} \in SUBSET Mbox /\ (By(r).limited => {} \subseteq By(r).within)
    OBVIOUS
  <2> QED
    BY <1>1, <2>1, <2>2, OwnChangedIsOK, Zenon
<1>4. ASSUME NEW b \in Mbox, PatchAdminAccount(r, b) \/ DeleteAdminAccount(r, b)
      PROVE  RequestsOK'
  <2>1. /\ CanSee(By(r), b) /\ trashed' = trashed
        /\ \/ ChangesOwn(r, {b})
           \/ Becomes(r, [Changed(r, FALSE, {b}) EXCEPT !.own = TRUE, !.ok = FALSE])
    BY <1>4 DEF PatchAdminAccount, DeleteAdminAccount
  <2>2. By(r).limited => {b} \subseteq By(r).within
    BY <2>1, SightIsScoped
  <2>3. {b} \in SUBSET Mbox
    OBVIOUS
  <2> QED
    BY <1>1, <2>1, <2>2, <2>3, OwnChangedIsOK, HalfChangedIsOK, Zenon
<1> QED
  BY <1>2, <1>3, <1>4 DEF AdminIdentityRoutes

LEMMA AdminRoutesOK ==
  ASSUME AccessIInv, NEW r \in DOMAIN asked, AdminRoutes(r)
  PROVE  RequestsOK'
<1>1. asked[r].at = "begun"
  BY DEF AdminRoutes, ToHandle
<1>2. ListKeys(r) \/ GetOauthApps(r) \/ GetLicense(r) => RequestsOK'
  BY <1>1, ShowsOK DEF ListKeys, GetOauthApps, GetLicense
<1>3. ASSUME \/ PutOauthApp(r) \/ DeleteOauthApp(r)
             \/ \E m \in Holder : CreateKey(r, m)
             \/ \E k \in KeyId : PatchKey(r, k) \/ DeleteKey(r, k)
      PROVE  RequestsOK'
  <2>1. Becomes(r, Changed(r, FALSE, {})) /\ trashed' = trashed
    BY <1>3 DEF PutOauthApp, DeleteOauthApp, CreateKey, PatchKey, DeleteKey, Keeps
  <2>2. {} \in SUBSET Mbox /\ (By(r).limited => {} \subseteq By(r).within)
    OBVIOUS
  <2> QED
    BY <1>1, <2>1, <2>2, ChangedIsOK, Zenon
<1>4. ImapTest(r) \/ ActivateLicense(r) \/ DeactivateLicense(r) => RequestsOK'
  <2>1. ImapTest(r) => RequestsOK'
    BY <1>1, StartsOK DEF ImapTest, MayAdminister, AdminCalls
  <2>2. ActivateLicense(r) \/ DeactivateLicense(r) => RequestsOK'
    BY <1>1, StartsOK DEF ActivateLicense, DeactivateLicense, MayAdminister, AdminCalls
  <2> QED
    BY <2>1, <2>2
<1>5. ASSUME NEW b \in Mbox, CreateConnection(r, b) \/ PatchFolders(r, b)
      PROVE  RequestsOK'
  <2>1. /\ CanAdminister(By(r), "admin.accounts")
        /\ By(r).limited => CanSee(By(r), b)
        /\ \E c \in {"connect", "configure"} : StartsChange(r, {b}, <<c>>)
    BY <1>5 DEF CreateConnection, PatchFolders, MayAdminister
  <2>2. By(r).limited => {b} \subseteq By(r).within
    BY <2>1, SightIsScoped
  <2> QED
    BY <1>1, <2>1, <2>2, StartsOK DEF AdminCalls
<1> QED
  BY <1>2, <1>3, <1>4, <1>5 DEF AdminRoutes

LEMMA GoesOnOK ==
  ASSUME AccessIInv, NEW r \in DOMAIN asked, GoesOn(r)
  PROVE  RequestsOK'
<1>1. TurnsAway(r) => RequestsOK'
  BY AnsweredIsOK DEF TurnsAway, Keeps
<1>2. MakesCall(r) => RequestsOK'
  BY DoesOK DEF MakesCall
<1>3. PutsIntoTrash(r) \/ TakesOutOfTrash(r) \/ MovesMessage(r) \/ MovesFromOutside(r) \/ SavesMailbox(r) => RequestsOK'
  BY DoesOK DEF PutsIntoTrash, TakesOutOfTrash, MovesMessage, MovesFromOutside, SavesMailbox, PlainCall
<1>4. ChecksOutside(r) => RequestsOK'
  BY DoesOK DEF ChecksOutside
<1> QED
  BY <1>1, <1>2, <1>3, <1>4, RefusesOK, AuditsOK DEF GoesOn

LEMMA RequestsStep ==
  ASSUME AccessIInv, [AccessNext]_accessVars
  PROVE  RequestsOK'
<1>1. CASE UNCHANGED <<asked, trashed>>
  BY <1>1 DEF AccessIInv, RequestsOK, Requests
<1>2. CASE RestAuthenticates \/ McpAuthenticates
  BY <1>2, ArrivesOK DEF RestAuthenticates, McpAuthenticates
<1>3. CASE \E m \in Holder : LogsIn(m) \/ Enrolls(m)
  BY <1>1, <1>3 DEF LogsIn, Enrolls
<1>4. CASE UNCHANGED accessVars
  BY <1>1, <1>4 DEF accessVars
<1> QED
  BY <1>2, <1>3, <1>4, RestMailOK, McpToolsOK, OwnRoutesOK, AdminIdentityRoutesOK, AdminRoutesOK, GoesOnOK
  DEF AccessNext

-----------------------------------------------------------------------------
(* What a step makes of members, mailboxes and keys. *)

\* The handlers that change them, by the capability they ask for.
MembersChange(r) ==
  \E m \in Holder : CreateMember(r, m) \/ PatchRole(r, m) \/ SuspendMember(r, m) \/ ActivateMember(r, m) \/ DeleteMember(r, m)
AccountsChange(r) == \E b \in Mbox : PatchAdminAccount(r, b) \/ DeleteAdminAccount(r, b)
KeysChange(r) == (\E m \in Holder : CreateKey(r, m)) \/ \E k \in KeyId : PatchKey(r, k) \/ DeleteKey(r, k)
OwnChange(r) == CreateOwnKey(r) \/ DeleteOwnKey(r) \/ \E b \in Mbox : RemoveOwnAccount(r, b)
TrashChange(r) == PutsIntoTrash(r) \/ TakesOutOfTrash(r) \/ MovesMessage(r)
Quiet == UNCHANGED <<standing, sharing, keys, trashed>> /\ loggedIn' \subseteq loggedIn \union Holder

LEMMA RoutesAreQuiet ==
  ASSUME NEW r \in DOMAIN asked, RestMail(r) \/ McpTools(r)
  PROVE  Quiet
<1>1. CASE RestMail(r)
  <2>1. Keeps
    BY <1>1 DEF RestMail, RestStatus, RestAccounts, RestListFolders, RestListLabels, RestListMessages, RestGetMessage,
       RestGetThread, RestAttachment, RestCreateDraft, RestUpdateDraft, RestDeleteDraft, RestSend, RestForward,
       RestModify, RestListScheduled, RestCancelScheduled, Serves, Shows
  <2> QED
    BY <2>1 DEF Keeps, Quiet
<1>2. CASE McpTools(r)
  <2>1. Keeps
    BY <1>2 DEF McpTools, GetStatusTool, ListAccountsTool, ListScheduledTool, ListFoldersTool, ListLabelsTool,
       ListEmailsTool, SearchEmailsTool, GetEmailTool, GetThreadTool, DownloadAttachmentTool, CreateDraftTool,
       UpdateDraftTool, DeleteDraftTool, SendEmailTool, ForwardEmailTool, ModifyEmailsTool, CancelScheduledTool,
       Serves, Shows
  <2> QED
    BY <2>1 DEF Keeps, Quiet
<1> QED
  BY <1>1, <1>2

LEMMA StepCases ==
  ASSUME [AccessNext]_accessVars
  PROVE  \/ Quiet
         \/ \E m \in Holder : Enrolls(m)
         \/ \E r \in DOMAIN asked : \/ /\ asked[r].at = "begun"
                                       /\ MembersChange(r) \/ AccountsChange(r) \/ KeysChange(r) \/ OwnChange(r)
                                    \/ SavesMailbox(r) \/ TrashChange(r)
<1>1. RestAuthenticates \/ McpAuthenticates => Quiet
  BY DEF RestAuthenticates, McpAuthenticates, Arrives, Quiet
<1>2. \A r \in DOMAIN asked : OwnRoutes(r) => Quiet \/ (asked[r].at = "begun" /\ OwnChange(r))
  BY DEF OwnRoutes, ToHandle, OwnChange, Quiet, Keeps, Me, UpdateMe, Logout, DeleteOwnSession, ListOwnSessions,
     ListOwnKeys, ConnectOwnAccount, ConfigureOwnFolders, Shows
<1>3. \A r \in DOMAIN asked : AdminIdentityRoutes(r) =>
        Quiet \/ (asked[r].at = "begun" /\ (MembersChange(r) \/ AccountsChange(r)))
  BY DEF AdminIdentityRoutes, ToHandle, MembersChange, AccountsChange, Quiet, Keeps, ListMembers, ListMemberSessions,
     ListAdminAccounts, ListAudit, InviteMember, ResetMember, RevokeMemberSession, Shows
<1>4. \A r \in DOMAIN asked : AdminRoutes(r) => Quiet \/ (asked[r].at = "begun" /\ KeysChange(r))
  BY DEF AdminRoutes, ToHandle, KeysChange, Quiet, Keeps, ImapTest, ListKeys, GetOauthApps, PutOauthApp,
     DeleteOauthApp, GetLicense, ActivateLicense, DeactivateLicense, CreateConnection, PatchFolders, Shows, StartsChange
<1>5. \A r \in DOMAIN asked : GoesOn(r) => Quiet \/ SavesMailbox(r) \/ TrashChange(r)
  BY DEF GoesOn, TrashChange, Quiet, Keeps, MakesCall, ChecksOutside, MovesFromOutside, TurnsAway, Refuses, Audits, Does
<1>6. \A m \in Holder : LogsIn(m) => Quiet
  BY DEF LogsIn, Quiet
<1>7. UNCHANGED accessVars => Quiet
  BY DEF accessVars, Quiet
<1> QED
  BY <1>1, <1>2, <1>3, <1>4, <1>5, <1>6, <1>7, RoutesAreQuiet DEF AccessNext

LEMMA StandingStep ==
  ASSUME AccessIInv, [AccessNext]_accessVars
  PROVE  standing' \in [Holder -> Standing] /\ loggedIn' \subseteq Holder
<1>1. standing \in [Holder -> Standing] /\ loggedIn \subseteq Holder
  BY DEF AccessIInv
<1>2. Quiet => standing' = standing /\ loggedIn' \subseteq Holder
  BY <1>1 DEF Quiet
<1>3. \A r \in DOMAIN asked : SavesMailbox(r) \/ TrashChange(r) \/ AccountsChange(r) \/ KeysChange(r) \/ OwnChange(r) =>
        standing' = standing /\ loggedIn' = loggedIn
  BY DEF SavesMailbox, TrashChange, PutsIntoTrash, TakesOutOfTrash, MovesMessage, Does, AccountsChange, KeysChange,
     OwnChange, PatchAdminAccount, DeleteAdminAccount, CreateKey, PatchKey, DeleteKey, CreateOwnKey, DeleteOwnKey,
     RemoveOwnAccount
<1>4. \A m \in Holder : Enrolls(m) => standing' \in [Holder -> Standing] /\ loggedIn' \subseteq Holder
  BY <1>1 DEF Enrolls, Standing
<1>5. \A r \in DOMAIN asked, m \in Holder : CreateMember(r, m) => standing' \in [Holder -> Standing] /\ loggedIn' = loggedIn
  BY <1>1 DEF CreateMember, Standing
<1>6. \A r \in DOMAIN asked, m \in Holder : PatchRole(r, m) => standing' \in [Holder -> Standing] /\ loggedIn' = loggedIn
  BY <1>1 DEF PatchRole, Standing
<1>7. \A r \in DOMAIN asked, m \in Holder : SuspendMember(r, m) \/ ActivateMember(r, m) =>
        standing' \in [Holder -> Standing] /\ loggedIn' \subseteq loggedIn
  BY <1>1 DEF SuspendMember, ActivateMember, Standing
<1>8. \A r \in DOMAIN asked, m \in Holder : DeleteMember(r, m) =>
        standing' \in [Holder -> Standing] /\ loggedIn' \subseteq loggedIn
  BY <1>1 DEF DeleteMember, Standing
<1> QED
  BY <1>1, <1>2, <1>3, <1>4, <1>5, <1>6, <1>7, <1>8, StepCases DEF MembersChange

\* An administrator is left as long as nothing is done to another one.
LEMMA AnotherAdmin ==
  ASSUME NEW m, ActiveAdmins # {}, ActiveAdmins # {m}, \A n \in Holder \ {m} : standing'[n] = standing[n]
  PROVE  ActiveAdmins' # {}
<1>1. PICK a \in ActiveAdmins : a # m
  OBVIOUS
<1>2. a \in Holder /\ standing'[a] = [role |-> "admin", status |-> "active"]
  BY <1>1 DEF ActiveAdmins
<1> QED
  BY <1>2 DEF ActiveAdmins

LEMMA AdminsStep ==
  ASSUME AccessIInv, [AccessNext]_accessVars
  PROVE  ActiveAdmins' # {}
<1>1. standing \in [Holder -> Standing] /\ ActiveAdmins # {}
  BY DEF AccessIInv
<1>2. CASE standing' = standing
  BY <1>1, <1>2 DEF ActiveAdmins
<1>3. ASSUME NEW m \in Holder, standing[m].status # "active" PROVE ActiveAdmins # {m}
  <2>1. m \notin ActiveAdmins
    BY <1>3 DEF ActiveAdmins
  <2> QED
    BY <2>1
<1>4. ASSUME NEW m \in Holder, Enrolls(m) PROVE ActiveAdmins' # {}
  <2>1. /\ standing[m].status # "active"
        /\ \A n \in Holder \ {m} : standing'[n] = standing[n]
    BY <1>1, <1>4 DEF Enrolls
  <2> QED
    BY <1>1, <1>3, <2>1, AnotherAdmin
<1>5. ASSUME NEW r \in DOMAIN asked, NEW m \in Holder,
             CreateMember(r, m) \/ SuspendMember(r, m) \/ ActivateMember(r, m) \/ DeleteMember(r, m)
      PROVE  ActiveAdmins' # {}
  <2>1. standing[m].status # "active" \/ ActiveAdmins # {m}
    BY <1>5 DEF CreateMember, SuspendMember, ActivateMember, DeleteMember, IsMember
  <2>2. \A n \in Holder \ {m} : standing'[n] = standing[n]
    BY <1>1, <1>5 DEF CreateMember, SuspendMember, ActivateMember, DeleteMember
  <2> QED
    BY <1>1, <1>3, <2>1, <2>2, AnotherAdmin
<1>6. ASSUME NEW r \in DOMAIN asked, NEW m \in Holder, PatchRole(r, m) PROVE ActiveAdmins' # {}
  <2>1. PICK role \in {"admin", "member"} :
          (role = "member" => ActiveAdmins # {m}) /\ standing' = [standing EXCEPT ![m].role = role]
    BY <1>6 DEF PatchRole
  <2>2. \A n \in Holder \ {m} : standing'[n] = standing[n]
    BY <1>1, <2>1
  <2>3. CASE ActiveAdmins = {m}
    <3>1. role = "admin" /\ standing[m] = [role |-> "admin", status |-> "active"]
      BY <2>1, <2>3 DEF ActiveAdmins
    <3>2. standing'[m] = [role |-> "admin", status |-> "active"]
      BY <1>1, <2>1, <3>1
    <3> QED
      BY <3>2 DEF ActiveAdmins
  <2> QED
    BY <1>1, <2>2, <2>3, AnotherAdmin
<1>7. \A r \in DOMAIN asked : SavesMailbox(r) \/ TrashChange(r) \/ AccountsChange(r) \/ KeysChange(r) \/ OwnChange(r) =>
        standing' = standing
  BY DEF SavesMailbox, TrashChange, PutsIntoTrash, TakesOutOfTrash, MovesMessage, Does, AccountsChange, KeysChange,
     OwnChange, PatchAdminAccount, DeleteAdminAccount, CreateKey, PatchKey, DeleteKey, CreateOwnKey, DeleteOwnKey,
     RemoveOwnAccount
<1> QED
  BY <1>2, <1>4, <1>5, <1>6, <1>7, StepCases DEF MembersChange, Quiet

LEMMA TrashStep ==
  ASSUME AccessIInv, [AccessNext]_accessVars
  PROVE  trashed' \subseteq Mbox
<1>1. trashed \subseteq Mbox /\ \A r \in DOMAIN asked : asked[r].on \subseteq Mbox
  BY DEF AccessIInv, RequestsOK, RequestOK
<1>2. \A r \in DOMAIN asked : TrashChange(r) => trashed' \subseteq Mbox
  BY <1>1 DEF TrashChange, PutsIntoTrash, TakesOutOfTrash, MovesMessage, Does
<1>3. \A r \in DOMAIN asked :
        SavesMailbox(r) \/ MembersChange(r) \/ AccountsChange(r) \/ KeysChange(r) \/ OwnChange(r) => trashed' = trashed
  BY DEF SavesMailbox, Does, MembersChange, AccountsChange, KeysChange, OwnChange, CreateMember, PatchRole,
     SuspendMember, ActivateMember, DeleteMember, PatchAdminAccount, DeleteAdminAccount, CreateKey, PatchKey, DeleteKey,
     CreateOwnKey, DeleteOwnKey, RemoveOwnAccount
<1> QED
  BY <1>1, <1>2, <1>3, StepCases DEF Enrolls, Quiet

LEMMA BoxesStep ==
  ASSUME AccessIInv, [AccessNext]_accessVars
  PROVE  BoxesOK'
<1>1. BoxesOK /\ (\A r \in DOMAIN asked : asked[r].on \subseteq Mbox) /\ DOMAIN sharing = Mbox
  BY DEF AccessIInv, RequestsOK, RequestOK, BoxesOK
\* One mailbox is written.
<1>2. ASSUME NEW b \in Mbox, NEW row, sharing' = [sharing EXCEPT ![b] = row],
             DOMAIN row = {"provider", "owner", "all", "granted"},
             row.owner \in Holder \union {Absent}, row.granted \subseteq Holder,
             row.owner # Absent => row.provider \in {"gmail", "outlook", "imap"}
      PROVE  BoxesOK'
  <2>1. DOMAIN sharing' = Mbox /\ sharing' = [c \in Mbox |-> sharing'[c]]
    BY <1>1, <1>2
  <2>2. \A c \in Mbox : BoxOK(c)'
    BY <1>1, <1>2 DEF BoxesOK, BoxOK
  <2> QED
    BY <2>1, <2>2 DEF BoxesOK
<1>3. CASE sharing' = sharing
  BY <1>1, <1>3 DEF BoxesOK, BoxOK
<1>4. ASSUME NEW r \in DOMAIN asked, SavesMailbox(r) PROVE BoxesOK'
  <2>1. \/ sharing' = sharing
        \/ \E b \in asked[r].on : \E m \in Holder : \E provider \in {"gmail", "outlook", "imap"} :
             sharing' = [sharing EXCEPT ![b] = [provider |-> provider, owner |-> m, all |-> FALSE, granted |-> {}]]
    BY <1>4 DEF SavesMailbox
  <2> QED
    BY <1>1, <1>2, <1>3, <2>1
<1>5. ASSUME NEW b \in Mbox, sharing' = WithoutMailbox(b) PROVE BoxesOK'
  <2> DEFINE row == [provider |-> "gone", owner |-> Absent, all |-> FALSE, granted |-> {}]
  <2>1. /\ sharing' = [sharing EXCEPT ![b] = row]
        /\ DOMAIN row = {"provider", "owner", "all", "granted"} /\ row.owner = Absent /\ row.granted = {}
    BY <1>5 DEF WithoutMailbox
  <2> HIDE DEF row
  <2> QED
    BY <1>2, <2>1
<1>6. ASSUME NEW r \in DOMAIN asked, NEW b \in Mbox, PatchAdminAccount(r, b) PROVE BoxesOK'
  <2>1. sharing[b].owner \in Holder /\ BoxOK(b) /\ sharing[b].owner # Absent
    BY <1>1, <1>6 DEF PatchAdminAccount, BoxesOK, BoxOK
  <2>2. PICK owner \in Holder :
          \/ \E all \in BOOLEAN : \E granted \in {{}} \union {{m} : m \in {n \in Holder : IsMember(n)}} :
               sharing' = [sharing EXCEPT ![b] = [@ EXCEPT !.owner = owner, !.all = all, !.granted = granted]]
          \/ sharing' = [sharing EXCEPT ![b].owner = owner]
    BY <1>6, <2>1 DEF PatchAdminAccount
  <2>3. CASE sharing' = [sharing EXCEPT ![b].owner = owner]
    <3> DEFINE row == [sharing[b] EXCEPT !.owner = owner]
    <3>1. /\ DOMAIN row = {"provider", "owner", "all", "granted"} /\ row.owner = owner
          /\ row.granted = sharing[b].granted /\ row.provider = sharing[b].provider
      BY <2>1 DEF BoxOK
    <3>2. sharing' = [sharing EXCEPT ![b] = row]
      BY <2>3
    <3> HIDE DEF row
    <3> QED
      BY <1>2, <2>1, <3>1, <3>2 DEF BoxOK
  <2>4. ASSUME NEW all \in BOOLEAN, NEW granted \in SUBSET Holder,
               sharing' = [sharing EXCEPT ![b] = [@ EXCEPT !.owner = owner, !.all = all, !.granted = granted]]
        PROVE  BoxesOK'
    <3> DEFINE row == [sharing[b] EXCEPT !.owner = owner, !.all = all, !.granted = granted]
    <3>1. /\ DOMAIN row = {"provider", "owner", "all", "granted"} /\ row.owner = owner
          /\ row.granted = granted /\ row.provider = sharing[b].provider
      BY <2>1 DEF BoxOK
    <3>2. sharing' = [sharing EXCEPT ![b] = row]
      BY <2>4
    <3> HIDE DEF row
    <3> QED
      BY <1>2, <2>1, <3>1, <3>2 DEF BoxOK
  <2>5. {{}} \union {{m} : m \in {n \in Holder : IsMember(n)}} \subseteq SUBSET Holder
    OBVIOUS
  <2> QED
    BY <2>2, <2>3, <2>4, <2>5, Zenon
<1>7. ASSUME NEW r \in DOMAIN asked, NEW m \in Holder, DeleteMember(r, m) PROVE BoxesOK'
  <2>1. sharing' = [b \in Mbox |-> [sharing[b] EXCEPT !.granted = @ \ {m}]]
    BY <1>7 DEF DeleteMember
  <2>2. \A b \in Mbox : BoxOK(b)'
    BY <1>1, <2>1 DEF BoxesOK, BoxOK
  <2> QED
    BY <2>1, <2>2 DEF BoxesOK
<1>8. \A r \in DOMAIN asked : AccountsChange(r) =>
        \E b \in Mbox : PatchAdminAccount(r, b) \/ sharing' = WithoutMailbox(b)
  BY DEF AccountsChange, DeleteAdminAccount
<1>9. \A r \in DOMAIN asked : OwnChange(r) => sharing' = sharing \/ \E b \in Mbox : sharing' = WithoutMailbox(b)
  BY DEF OwnChange, CreateOwnKey, DeleteOwnKey, RemoveOwnAccount
<1>10. \A r \in DOMAIN asked : KeysChange(r) \/ TrashChange(r) => sharing' = sharing
  BY DEF KeysChange, CreateKey, PatchKey, DeleteKey, TrashChange, PutsIntoTrash, TakesOutOfTrash, MovesMessage
<1>11. \A r \in DOMAIN asked : MembersChange(r) => sharing' = sharing \/ \E m \in Holder : DeleteMember(r, m)
  BY DEF MembersChange, CreateMember, PatchRole, SuspendMember, ActivateMember
<1> QED
  BY <1>3, <1>4, <1>5, <1>6, <1>7, <1>8, <1>9, <1>10, <1>11, StepCases DEF Quiet, Enrolls

\* What is stored of a policy is read back as that policy.
LEMMA PolicyIsKept ==
  ASSUME NEW policy \in PermissionPolicy
  PROVE  /\ DeserializePermissionPolicy(StoredPolicy(policy)) = policy
         /\ StoredPolicy(policy).profile \in NamedProfile \union {"custom"}
<1>1. ASSUME NEW c \in SUBSET Capability, policy = CustomPermissionPolicy(c)
      PROVE  StoredPolicy(policy) = [profile |-> "custom", custom |-> c, supplemental |-> {}]
  BY <1>1 DEF StoredPolicy, NormalizePermissionPolicy, CustomPermissionPolicy
<1>2. ASSUME NEW p \in NamedProfile, NEW s \in SUBSET AdminCapability, policy = PermissionPolicyForProfile(p, s)
      PROVE  StoredPolicy(policy) = [profile |-> p, custom |-> {}, supplemental |-> s] /\ p # "custom"
  BY <1>2 DEF StoredPolicy, NormalizePermissionPolicy, PermissionPolicyForProfile, NamedProfile
<1>3. \/ \E c \in SUBSET Capability : policy = CustomPermissionPolicy(c)
      \/ \E p \in NamedProfile, s \in SUBSET AdminCapability : policy = PermissionPolicyForProfile(p, s)
  BY DEF PermissionPolicy
<1> QED
  BY <1>1, <1>2, <1>3 DEF DeserializePermissionPolicy

LEMMA PatchedPolicy ==
  ASSUME NEW k \in KeyId, keys[k].policy \in StoredPolicies
  PROVE  /\ Offered \subseteq PermissionPolicy /\ DeserializePermissionPolicy(keys[k].policy) \in PermissionPolicy
         /\ MoreFor(k) \subseteq PermissionPolicy
<1>1. DeserializePermissionPolicy(keys[k].policy) \in PermissionPolicy
  BY PolicyIsKept DEF StoredPolicies
<1>2. keys[k].policy.profile \in NamedProfile \union {"custom"}
  BY PolicyIsKept DEF StoredPolicies
<1>3. MoreFor(k) \subseteq PermissionPolicy
  BY <1>2 DEF MoreFor, PermissionPolicy, AdminCapability
<1> QED
  BY <1>1, <1>3, OfferedAssumption

\* The row of a key that is issued or patched.
RowOK(row) ==
  /\ DOMAIN row = DOMAIN NoApiKey
  /\ row.holder \in Holder /\ standing[row.holder].status = "active" /\ row.policy \in StoredPolicies

LEMMA IssuedIsOK ==
  ASSUME AccessIInv, NEW m \in Holder, NEW policy \in Offered, NEW scope, IssuesKey(m, policy, scope)
  PROVE  \E row : \E k \in KeyId : RowOK(row) /\ keys' = [keys EXCEPT ![k] = row]
<1> DEFINE row == [holder |-> m, policy |-> StoredPolicy(policy), limited |-> scope.limited, within |-> scope.within]
<1>1. /\ DOMAIN row = DOMAIN NoApiKey
      /\ row.holder = m /\ row.policy = StoredPolicy(policy)
  BY DEF NoApiKey
<1>2. PICK k \in KeyId : keys' = [keys EXCEPT ![k] = row]
  BY DEF IssuesKey
<1>3. standing[m].status = "active" /\ StoredPolicy(policy) \in StoredPolicies
  BY OfferedAssumption DEF IssuesKey, StoredPolicies
<1> HIDE DEF row
<1>4. RowOK(row)
  BY <1>1, <1>3 DEF RowOK
<1> QED
  BY <1>2, <1>4

LEMMA PatchedIsOK ==
  ASSUME AccessIInv, NEW r, NEW k \in KeyId, PatchKey(r, k)
  PROVE  \E row : RowOK(row) /\ keys' = [keys EXCEPT ![k] = row]
<1>1. PICK scope \in Scopes(ConnectedOnes) \union {[limited |-> keys[k].limited, within |-> keys[k].within]} :
      \E policy \in Offered \union {DeserializePermissionPolicy(keys[k].policy)} \union MoreFor(k) :
        keys' = [keys EXCEPT ![k] = [@ EXCEPT !.policy = StoredPolicy(policy), !.limited = scope.limited, !.within = scope.within]]
  BY DEF PatchKey
<1>2. PICK policy \in Offered \union {DeserializePermissionPolicy(keys[k].policy)} \union MoreFor(k) :
        keys' = [keys EXCEPT ![k] = [@ EXCEPT !.policy = StoredPolicy(policy), !.limited = scope.limited, !.within = scope.within]]
  BY <1>1
<1>3. KeyOK(k) /\ keys[k].holder # Absent /\ DOMAIN keys = KeyId
  BY DEF AccessIInv, KeysOK, PatchKey
<1>4. /\ DOMAIN keys[k] = DOMAIN NoApiKey
      /\ keys[k].holder \in Holder /\ standing[keys[k].holder].status = "active" /\ keys[k].policy \in StoredPolicies
  BY <1>3 DEF KeyOK, NoApiKey
<1>5. StoredPolicy(policy) \in StoredPolicies
  BY <1>4, PatchedPolicy DEF StoredPolicies
<1> DEFINE row == [keys[k] EXCEPT !.policy = StoredPolicy(policy), !.limited = scope.limited, !.within = scope.within]
<1>6. DOMAIN row = DOMAIN NoApiKey /\ row.holder = keys[k].holder /\ row.policy = StoredPolicy(policy)
  BY <1>4 DEF NoApiKey
<1>7. keys' = [keys EXCEPT ![k] = row]
  BY <1>2
<1> HIDE DEF row
<1>8. RowOK(row)
  BY <1>4, <1>5, <1>6 DEF RowOK
<1> QED
  BY <1>7, <1>8

LEMMA KeysStep ==
  ASSUME AccessIInv, [AccessNext]_accessVars
  PROVE  KeysOK'
<1>1. KeysOK /\ DOMAIN keys = KeyId /\ standing \in [Holder -> Standing] /\ Absent \notin Holder
  BY AdminsAssumption DEF AccessIInv, KeysOK
<1>2. ASSUME keys' = keys, \A m \in Holder : standing[m].status = "active" => standing'[m].status = "active"
      PROVE  KeysOK'
  BY <1>1, <1>2 DEF KeysOK, KeyOK
<1>3. ASSUME NEW k \in KeyId, NEW row, keys' = [keys EXCEPT ![k] = row], standing' = standing,
             row = NoApiKey \/ RowOK(row)
      PROVE  KeysOK'
  <2>1. keys' = [j \in KeyId |-> keys'[j]]
    BY <1>1, <1>3
  <2>2. \A j \in KeyId : KeyOK(j)'
    BY <1>1, <1>3 DEF KeysOK, KeyOK, RowOK
  <2> QED
    BY <2>1, <2>2 DEF KeysOK
<1>4. ASSUME NEW m \in Holder, keys' = WithoutKeysOf(m), \A n \in Holder \ {m} : standing'[n] = standing[n]
      PROVE  KeysOK'
  <2>1. keys' = [k \in KeyId |-> keys'[k]] /\ \A k \in KeyId : keys'[k] = IF k \in KeysOf(m) THEN NoApiKey ELSE keys[k]
    BY <1>4 DEF WithoutKeysOf
  <2>2. \A k \in KeyId : KeyOK(k)'
    BY <1>1, <1>4, <2>1 DEF KeysOK, KeyOK, KeysOf
  <2> QED
    BY <2>1, <2>2 DEF KeysOK
<1>5. \A m \in Holder : Enrolls(m) => KeysOK'
  BY <1>1, <1>2 DEF Enrolls
<1>6. ASSUME NEW r \in DOMAIN asked, NEW m \in Holder, CreateMember(r, m) PROVE KeysOK'
  BY <1>1, <1>2, <1>6 DEF CreateMember, IsMember
<1>7. ASSUME NEW r \in DOMAIN asked, NEW m \in Holder, PatchRole(r, m) \/ ActivateMember(r, m) PROVE KeysOK'
  BY <1>1, <1>2, <1>7 DEF PatchRole, ActivateMember, Standing
<1>8. ASSUME NEW r \in DOMAIN asked, NEW m \in Holder, SuspendMember(r, m) \/ DeleteMember(r, m) PROVE KeysOK'
  BY <1>1, <1>4, <1>8 DEF SuspendMember, DeleteMember
<1>9. ASSUME NEW k \in KeyId, Revokes(k), standing' = standing PROVE KeysOK'
  BY <1>3, <1>9 DEF Revokes
<1>10. ASSUME NEW r \in DOMAIN asked, asked[r].at = "begun", KeysChange(r) PROVE KeysOK'
  <2>1. standing' = standing
    BY <1>10 DEF KeysChange, CreateKey, PatchKey, DeleteKey
  <2>2. \/ \E k \in KeyId : Revokes(k)
        \/ \E row : \E k \in KeyId : RowOK(row) /\ keys' = [keys EXCEPT ![k] = row]
    BY <1>10, IssuedIsOK, PatchedIsOK DEF KeysChange, CreateKey, DeleteKey
  <2> QED
    BY <1>3, <1>9, <2>1, <2>2
<1>11. ASSUME NEW r \in DOMAIN asked, asked[r].at = "begun", OwnChange(r) PROVE KeysOK'
  <2>1. standing' = standing /\ By(r).who \in Holder
    BY <1>11 DEF OwnChange, CreateOwnKey, DeleteOwnKey, RemoveOwnAccount, AccessIInv, RequestsOK, RequestOK, By
  <2>2. \/ keys' = keys
        \/ \E k \in KeyId : Revokes(k)
        \/ \E row : \E k \in KeyId : RowOK(row) /\ keys' = [keys EXCEPT ![k] = row]
    BY <1>11, <2>1, IssuedIsOK DEF OwnChange, CreateOwnKey, DeleteOwnKey, RemoveOwnAccount
  <2> QED
    BY <1>2, <1>3, <1>9, <2>1, <2>2
<1>12. \A r \in DOMAIN asked : SavesMailbox(r) \/ TrashChange(r) \/ AccountsChange(r) => keys' = keys /\ standing' = standing
  BY DEF SavesMailbox, TrashChange, PutsIntoTrash, TakesOutOfTrash, MovesMessage, Does, AccountsChange,
     PatchAdminAccount, DeleteAdminAccount
<1> QED
  BY <1>2, <1>5, <1>6, <1>7, <1>8, <1>10, <1>11, <1>12, StepCases DEF MembersChange, Quiet

-----------------------------------------------------------------------------
(* Init. *)

LEMMA AccessStarts == AccessInit => AccessIInv
<1> SUFFICES ASSUME AccessInit PROVE AccessIInv
  OBVIOUS
<1>1. RequestsOK
  <2>1. asked = <<>> /\ DOMAIN <<>> = {} /\ <<>> \in Seq(Requests)
    BY DEF AccessInit
  <2> QED
    BY <2>1 DEF RequestsOK
<1>2. BoxesOK
  <2>1. sharing = [b \in Mbox |-> [provider |-> FirstProvider[b], owner |-> OwnerOf[b], all |-> FALSE, granted |-> {}]]
    BY DEF AccessInit
  <2>2. \A b \in Mbox : BoxOK(b)
    BY <2>1, ProviderAssumption, OwnerOfAssumption DEF BoxOK
  <2> QED
    BY <2>1, <2>2 DEF BoxesOK
<1>3. standing \in [Holder -> Standing] /\ loggedIn \subseteq Holder /\ trashed \subseteq Mbox
  BY DEF AccessInit, Standing
<1>4. KeysOK
  <2>1. keys = [k \in KeyId |-> keys[k]]
    BY DEF AccessInit
  <2>2. ASSUME NEW k \in KeyId PROVE KeyOK(k)
    <3>1. PICK scope \in Scopes(ConnectedOnes) :
            keys[k] \in [holder : Holder, policy : {StoredPolicy(policy) : policy \in Offered},
                         limited : {scope.limited}, within : {scope.within}]
      BY DEF AccessInit
    <3>2. DOMAIN keys[k] = DOMAIN NoApiKey
      BY <3>1 DEF NoApiKey
    <3>3. keys[k].holder \in Holder /\ keys[k].policy \in StoredPolicies
      BY <3>1, OfferedAssumption DEF StoredPolicies
    <3>4. standing[keys[k].holder].status = "active"
      BY DEF AccessInit
    <3> QED
      BY <3>2, <3>3, <3>4 DEF KeyOK
  <2> QED
    BY <2>1, <2>2 DEF KeysOK
<1>5. ActiveAdmins # {}
  <2>1. PICK a \in Holder : a \in Admins
    BY AdminsAssumption
  <2>2. standing[a] = [role |-> "admin", status |-> "active"]
    BY <2>1 DEF AccessInit
  <2> QED
    BY <2>2 DEF ActiveAdmins
<1> QED
  BY <1>1, <1>2, <1>3, <1>4, <1>5 DEF AccessIInv

THEOREM AccessInvariant == AccessSpec => []AccessIInv
<1>1. AccessIInv /\ [AccessNext]_accessVars => AccessIInv'
  BY RequestsStep, BoxesStep, KeysStep, StandingStep, TrashStep, AdminsStep DEF AccessIInv
<1> QED
  BY AccessStarts, <1>1, PTL DEF AccessSpec

-----------------------------------------------------------------------------
(* What follows from the invariant. *)

LEMMA InvariantPermits == AccessIInv => ActsWithinAuthority
<1> SUFFICES ASSUME AccessIInv PROVE ActsWithinAuthority
  OBVIOUS
<1>1. AccessTypeOK
  <2>1. standing \in [Holder -> Standing] /\ loggedIn \subseteq Holder /\ trashed \subseteq Mbox /\ ActiveAdmins # {}
    BY DEF AccessIInv
  <2>2. \A b \in Mbox : sharing[b].owner \in Holder \union {Absent} /\ sharing[b].granted \subseteq Holder
    BY DEF AccessIInv, BoxesOK, BoxOK
  <2>3. \A r \in DOMAIN asked : asked[r].at \in {"begun", "calling", "answered", "over"} /\ asked[r].noted \in 0..2
    BY DEF AccessIInv, RequestsOK, RequestOK, WrittenOnce
  <2>4. \A k \in KeyId : keys[k] = NoApiKey \/ standing[keys[k].holder].status = "active"
    BY DEF AccessIInv, KeysOK, KeyOK
  <2> QED
    BY <2>1, <2>2, <2>3, <2>4 DEF AccessTypeOK, Standing
<1>2. AsPermitted
  <2>1. \A r \in DOMAIN asked : asked[r].at = "calling" =>
          \A i \in DOMAIN asked[r].todo : Permitted(asked[r], asked[r].todo[i])
    BY DEF AccessIInv, RequestsOK, RequestOK
  <2> QED
    BY <2>1 DEF AsPermitted, Permitted, By
<1>3. WithinScope
  BY DEF AccessIInv, RequestsOK, RequestOK, WithinScope, By
<1> QED
  BY <1>1, <1>2, <1>3 DEF ActsWithinAuthority

\* Every request does only what its principal may, on the mailboxes of its key; an active
\* administrator is always left, and no key outlives its holder's membership.
THEOREM RequestsActWithinAuthority == AccessSpec => []ActsWithinAuthority
BY AccessInvariant, InvariantPermits, PTL

\* The event of every request that may change something is written once, by its route or
\* by the middleware: it is in the log, or that write failed.
THEOREM ChangesAreAudited == AccessSpec => []AuditedOnce
<1>1. AccessIInv => AuditedOnce
  BY DEF AccessIInv, RequestsOK, RequestOK, AuditedOnce, WrittenOnce
<1> QED
  BY <1>1, AccessInvariant, PTL

-----------------------------------------------------------------------------
(* Who changes what. *)

\* A handler is a step of its request.
LEMMA HandlersAct ==
  ASSUME AccessIInv, NEW r \in DOMAIN asked, asked[r].at = "begun",
         MembersChange(r) \/ AccountsChange(r) \/ KeysChange(r) \/ OwnChange(r)
  PROVE  Acts(r)
<1>1. DOMAIN asked[r] = DOMAIN Handled
  BY DEF AccessIInv, RequestsOK, RequestOK
<1>2. \A own, mailboxes : Changed(r, own, mailboxes).at = "answered"
  BY <1>1 DEF Changed, Handled
<1>3. \A mailboxes : [Changed(r, FALSE, mailboxes) EXCEPT !.own = TRUE, !.ok = FALSE].at = "answered"
  BY <1>1 DEF Changed, Handled
<1>4. Handled.at = "over"
  BY DEF Handled
<1>5. MembersChange(r) => \E mailboxes : ChangesOwn(r, mailboxes)
  BY DEF MembersChange, CreateMember, PatchRole, SuspendMember, ActivateMember, DeleteMember
<1>6. AccountsChange(r) => \E mailboxes :
        \/ ChangesOwn(r, mailboxes)
        \/ Becomes(r, [Changed(r, FALSE, mailboxes) EXCEPT !.own = TRUE, !.ok = FALSE])
  BY DEF AccountsChange, PatchAdminAccount, DeleteAdminAccount
<1>7. KeysChange(r) => \E mailboxes : Becomes(r, Changed(r, FALSE, mailboxes))
  BY DEF KeysChange, CreateKey, PatchKey, DeleteKey
<1>8. OwnChange(r) => Becomes(r, Handled)
  BY DEF OwnChange, CreateOwnKey, DeleteOwnKey, RemoveOwnAccount
<1>9. ASSUME NEW q, Becomes(r, q), q.at \in {"answered", "over"} PROVE Acts(r)
  BY <1>9 DEF Becomes, Acts
<1>10. ASSUME NEW mailboxes, ChangesOwn(r, mailboxes) PROVE Acts(r)
  <2> DEFINE c == Changed(r, TRUE, mailboxes)
  <2>1. PICK q \in AuditWrites(c) : Becomes(r, q)
    BY <1>10 DEF ChangesOwn
  <2>2. DOMAIN c = DOMAIN Handled /\ c.at = "answered"
    BY <1>1, <1>2 DEF Changed
  <2> HIDE DEF c
  <2>3. q.at = "answered"
    BY <2>2 DEF AuditWrites, Handled
  <2> QED
    BY <1>9, <2>1, <2>3
<1> QED
  BY <1>2, <1>3, <1>4, <1>5, <1>6, <1>7, <1>8, <1>9, <1>10

\* The next call of a request that is under way is permitted, and it is not made twice.
LEMMA NextCall ==
  ASSUME AccessIInv, NEW r \in DOMAIN asked, NEW call, NEW trash, Does(r, call, trash)
  PROVE  /\ Permitted(asked[r], call) /\ asked[r].todo # <<>> /\ Works(r)
         /\ call \in AdminCalls => Acts(r)
         /\ call = "move" => asked[r].out
<1>1. RequestOK(asked[r], trashed) /\ asked[r].at = "calling" /\ Head(asked[r].todo) = call
  BY DEF AccessIInv, RequestsOK, Does
<1>2. 1 \in DOMAIN asked[r].todo /\ asked[r].todo[1] = call /\ asked[r].todo # <<>> /\ Len(asked[r].todo) \in Nat
      /\ Len(Tail(asked[r].todo)) = Len(asked[r].todo) - 1
  <2>1. \E S : asked[r].todo \in Seq(S) /\ asked[r].todo # <<>>
    <3>1. MailTodo(asked[r].todo) \/ \E c \in AdminCalls : asked[r].todo = <<c>>
      BY <1>1 DEF RequestOK
    <3>2. \A c : <<c>> \in Seq({c}) /\ <<c>> # <<>>
      OBVIOUS
    <3>3. <<"mustBeOutside", "move">> \in Seq({"mustBeOutside", "move"}) /\ <<"mustBeOutside", "move">> # <<>>
      OBVIOUS
    <3> QED
      BY <3>1, <3>2, <3>3 DEF MailTodo
  <2> QED
    BY <1>1, <2>1, HeadTailProperties, LenProperties
<1>3. Permitted(asked[r], call)
  BY <1>1, <1>2 DEF RequestOK
<1>4. asked'[r] = IF Len(asked[r].todo) > 1 THEN [asked[r] EXCEPT !.todo = Tail(@)]
                  ELSE IF asked[r].changes THEN Changed(r, asked[r].own, asked[r].on) ELSE Handled
  BY DEF Does
<1>5. DOMAIN asked[r] = DOMAIN Handled
  BY <1>1 DEF RequestOK
<1>6. Changed(r, asked[r].own, asked[r].on).todo = <<>> /\ Changed(r, asked[r].own, asked[r].on).at = "answered"
  BY <1>5 DEF Changed, Handled
<1>7. Handled.todo = <<>> /\ Handled.at = "over"
  BY DEF Handled
<1>8. [asked[r] EXCEPT !.todo = Tail(@)].todo = Tail(asked[r].todo)
  BY <1>5 DEF Handled
<1>9. Tail(asked[r].todo) # asked[r].todo
  <2>1. Len(Tail(asked[r].todo)) # Len(asked[r].todo)
    BY <1>2
  <2> QED
    BY <2>1, Zenon
<1>10. Works(r)
  <2>1. asked'[r].todo # asked[r].todo
    BY <1>2, <1>4, <1>6, <1>7, <1>8, <1>9
  <2> QED
    BY <1>1, <2>1 DEF Works
<1>11. CASE MailTodo(asked[r].todo)
  <2>1. call \notin AdminCalls
    BY <1>2, <1>11, MailIsNotAdmin
  <2>2. ASSUME call = "move" PROVE asked[r].todo = <<"move">>
    <3>1. asked[r].todo \notin Seq(PlainCall)
      <4>1. "move" \notin PlainCall
        BY DEF PlainCall
      <4> QED
        BY <1>2, <2>2, <4>1, LenProperties
    <3>2. \A c \in LastCall : <<c>>[1] # "move"
      BY DEF LastCall
    <3>3. <<"mustBeOutside", "move">>[1] # "move"
      OBVIOUS
    <3> QED
      BY <1>2, <1>11, <2>2, <3>1, <3>2, <3>3 DEF MailTodo
  <2>3. asked[r].todo = <<"move">> => asked[r].out
    <3>1. \A c \in AdminCalls : <<c>>[1] # <<"move">>[1]
      BY DEF AdminCalls
    <3> QED
      BY <1>1, <3>1 DEF RequestOK
  <2> QED
    BY <1>2, <1>3, <1>10, <2>1, <2>2, <2>3
<1>12. ASSUME NEW c \in AdminCalls, asked[r].todo = <<c>>
       PROVE  Acts(r) /\ call \in AdminCalls
  <2>1. ~(Len(asked[r].todo) > 1) /\ call = c
    BY <1>2, <1>12
  <2>2. asked'[r].at \in {"answered", "over"}
    BY <1>4, <1>6, <1>7, <2>1
  <2> QED
    BY <1>1, <2>1, <2>2 DEF Acts
<1>13. call = "move" => call \notin AdminCalls
  BY DEF AdminCalls
<1> QED
  BY <1>1, <1>2, <1>3, <1>10, <1>11, <1>12, <1>13 DEF RequestOK

\* The handlers of administrators, by the capability that each of them asks for.
LEMMA AdministratorsAct ==
  ASSUME AccessIInv, NEW r \in DOMAIN asked, asked[r].at = "begun"
  PROVE  /\ MembersChange(r) => Administers("admin.members")
         /\ AccountsChange(r) => Administers("admin.accounts")
         /\ KeysChange(r) => Administers("admin.api_keys")
<1>1. MembersChange(r) => CanAdminister(By(r), "admin.members") /\ Acts(r)
  BY HandlersAct DEF MembersChange, CreateMember, PatchRole, SuspendMember, ActivateMember, DeleteMember, MayAdminister
<1>2. AccountsChange(r) => CanAdminister(By(r), "admin.accounts") /\ Acts(r)
  BY HandlersAct DEF AccountsChange, PatchAdminAccount, DeleteAdminAccount, MayAdminister
<1>3. KeysChange(r) => CanAdminister(By(r), "admin.api_keys") /\ Acts(r)
  BY HandlersAct DEF KeysChange, CreateKey, PatchKey, DeleteKey, MayAdminister
<1>4. \A c : CanAdminister(By(r), c) /\ Acts(r) => Administers(c)
  BY DEF Administers, CanAdminister
<1> QED
  BY <1>1, <1>2, <1>3, <1>4

LEMMA StandingsDecided ==
  ASSUME AccessIInv, [AccessNext]_accessVars, NEW m \in Holder, standing'[m] # standing[m]
  PROVE  \/ Administers("admin.members")
         \/ standing[m].status = "pending" /\ standing' = [standing EXCEPT ![m].status = "active"]
<1>1. \A r \in DOMAIN asked : SavesMailbox(r) \/ TrashChange(r) \/ AccountsChange(r) \/ KeysChange(r) \/ OwnChange(r) =>
        standing' = standing
  BY DEF SavesMailbox, TrashChange, PutsIntoTrash, TakesOutOfTrash, MovesMessage, Does, AccountsChange, KeysChange,
     OwnChange, PatchAdminAccount, DeleteAdminAccount, CreateKey, PatchKey, DeleteKey, CreateOwnKey, DeleteOwnKey,
     RemoveOwnAccount
<1>2. \A n \in Holder : Enrolls(n) =>
        standing[m].status = "pending" /\ standing' = [standing EXCEPT ![m].status = "active"]
  BY DEF Enrolls, AccessIInv
<1> QED
  BY <1>1, <1>2, AdministratorsAct, StepCases DEF Quiet

LEMMA MailboxesDecided ==
  ASSUME AccessIInv, [AccessNext]_accessVars, NEW b \in Mbox,
         sharing'[b].owner # sharing[b].owner \/ sharing'[b].all # sharing[b].all
  PROVE  \/ Administers("admin.accounts")
         \/ \E r \in DOMAIN asked : /\ Acts(r) /\ IsSession(By(r))
                                    /\ \/ By(r).role = "admin" \/ sharing[b].owner = By(r).who
                                       \/ sharing[b].owner = Absent /\ sharing'[b].owner = By(r).who
<1>1. DOMAIN sharing = Mbox /\ \A c \in Mbox : DOMAIN sharing[c] = {"provider", "owner", "all", "granted"}
  BY DEF AccessIInv, BoxesOK, BoxOK
<1>2. \A r \in DOMAIN asked : KeysChange(r) \/ TrashChange(r) => sharing' = sharing
  BY DEF KeysChange, CreateKey, PatchKey, DeleteKey, TrashChange, PutsIntoTrash, TakesOutOfTrash, MovesMessage
<1>3. ASSUME NEW r \in DOMAIN asked, MembersChange(r) PROVE FALSE
  <2>1. sharing' = sharing \/ \E m : sharing' = [c \in Mbox |-> [sharing[c] EXCEPT !.granted = @ \ {m}]]
    BY <1>3 DEF MembersChange, CreateMember, PatchRole, SuspendMember, ActivateMember, DeleteMember
  <2> QED
    BY <1>1, <2>1
<1>4. ASSUME NEW r \in DOMAIN asked, asked[r].at = "begun", OwnChange(r)
      PROVE  Acts(r) /\ IsSession(By(r)) /\ (By(r).role = "admin" \/ sharing[b].owner = By(r).who)
  <2>1. PICK c \in Mbox : RemoveOwnAccount(r, c)
    BY <1>4 DEF OwnChange, CreateOwnKey, DeleteOwnKey
  <2>2. c = b
    BY <1>1, <2>1 DEF RemoveOwnAccount, WithoutMailbox
  <2> QED
    BY <1>4, <2>1, <2>2, HandlersAct DEF RemoveOwnAccount, Manages
<1>5. ASSUME NEW r \in DOMAIN asked, SavesMailbox(r)
      PROVE  \/ Administers("admin.accounts")
             \/ Acts(r) /\ IsSession(By(r)) /\ sharing[b].owner = Absent /\ sharing'[b].owner = By(r).who
  <2>1. Does(r, "connect", trashed)
    BY <1>5 DEF SavesMailbox
  <2>2. Acts(r) /\ Permitted(asked[r], "connect")
    BY <2>1, NextCall DEF AdminCalls
  <2>3. PICK c \in asked[r].on, m \in Holder, provider \in {"gmail", "outlook", "imap"} :
          /\ asked[r].changes \/ m = By(r).who
          /\ sharing[c].owner = Absent
          /\ sharing' = [sharing EXCEPT ![c] = [provider |-> provider, owner |-> m, all |-> FALSE, granted |-> {}]]
    BY <1>5 DEF SavesMailbox
  <2>4. c = b /\ sharing'[b].owner = m
    BY <1>1, <2>3
  <2>5. CASE CanAdminister(By(r), "admin.accounts")
    BY <2>2, <2>5 DEF Administers, CanAdminister
  <2>6. CASE ~asked[r].changes /\ IsSession(By(r))
    BY <2>2, <2>3, <2>4, <2>6
  <2> QED
    BY <2>2, <2>5, <2>6 DEF Permitted, AdminCalls, By
<1> QED
  BY <1>2, <1>3, <1>4, <1>5, AdministratorsAct, StepCases DEF Quiet, Enrolls

LEMMA KeysDecided ==
  ASSUME AccessIInv, [AccessNext]_accessVars, NEW k \in KeyId, keys'[k] # keys[k]
  PROVE  \/ Administers("admin.api_keys") \/ Administers("admin.members")
         \/ \E r \in DOMAIN asked : /\ Acts(r) /\ IsSession(By(r))
                                    /\ By(r).who = (IF keys[k] = NoApiKey THEN keys'[k].holder ELSE keys[k].holder)
<1>1. DOMAIN keys = KeyId /\ KeyOK(k) /\ Absent \notin Holder /\ NoApiKey.holder = Absent
  BY AdminsAssumption DEF AccessIInv, KeysOK, NoApiKey
<1>2. ASSUME NEW r \in DOMAIN asked, asked[r].at = "begun", OwnChange(r)
      PROVE  /\ Acts(r) /\ IsSession(By(r))
             /\ By(r).who = (IF keys[k] = NoApiKey THEN keys'[k].holder ELSE keys[k].holder)
  <2>1. CreateOwnKey(r) \/ DeleteOwnKey(r)
    BY <1>2 DEF OwnChange, RemoveOwnAccount
  <2>2. CASE CreateOwnKey(r)
    <3>1. PICK j \in KeyId, policy \in Offered, scope \in Scopes(Accessible(By(r))) :
            /\ keys[j].holder = Absent
            /\ keys' = [keys EXCEPT ![j] = [holder |-> By(r).who, policy |-> StoredPolicy(policy),
                                            limited |-> scope.limited, within |-> scope.within]]
      BY <2>2 DEF CreateOwnKey, IssuesKey
    <3>2. j = k /\ keys[k] = NoApiKey /\ keys'[k].holder = By(r).who
      BY <1>1, <3>1 DEF KeyOK
    <3> QED
      BY <1>2, <2>2, <3>2, HandlersAct DEF CreateOwnKey
  <2>3. CASE DeleteOwnKey(r)
    <3>1. PICK j \in KeyId : keys[j].holder = By(r).who /\ keys[j].holder # Absent /\ keys' = [keys EXCEPT ![j] = NoApiKey]
      BY <2>3 DEF DeleteOwnKey, Revokes
    <3>2. j = k /\ keys[k] # NoApiKey
      BY <1>1, <3>1
    <3> QED
      BY <1>2, <2>3, <3>1, <3>2, HandlersAct DEF DeleteOwnKey
  <2> QED
    BY <2>1, <2>2, <2>3
<1>3. \A r \in DOMAIN asked : SavesMailbox(r) \/ TrashChange(r) \/ AccountsChange(r) => keys' = keys
  BY DEF SavesMailbox, TrashChange, PutsIntoTrash, TakesOutOfTrash, MovesMessage, Does, AccountsChange,
     PatchAdminAccount, DeleteAdminAccount
<1> QED
  BY <1>2, <1>3, AdministratorsAct, StepCases DEF Quiet, Enrolls

LEMMA PoliciesAreHeld ==
  ASSUME AccessIInv, [AccessNext]_accessVars, NEW k \in KeyId,
         keys'[k].policy # keys[k].policy, keys'[k] # NoApiKey,
         MayOf(k)' \intersect AdminCapability # {}
  PROVE  standing[keys'[k].holder].role = "admin"
<1>1. DOMAIN keys = KeyId /\ KeyOK(k)
  BY DEF AccessIInv, KeysOK
<1>2. ASSUME NEW policy \in PermissionPolicy, keys'[k].policy = StoredPolicy(policy), MayHold(keys'[k].holder, policy)
      PROVE  standing[keys'[k].holder].role = "admin"
  <2>1. MayOf(k)' = policy.capabilities
    BY <1>2, PolicyIsKept DEF MayOf
  <2> QED
    BY <1>2, <2>1 DEF MayHold
<1>3. ASSUME NEW m, NEW policy \in Offered, NEW scope, IssuesKey(m, policy, scope)
      PROVE  standing[keys'[k].holder].role = "admin"
  <2>1. PICK j \in KeyId : keys' = [keys EXCEPT ![j] = [holder |-> m, policy |-> StoredPolicy(policy),
                                                        limited |-> scope.limited, within |-> scope.within]]
    BY <1>3 DEF IssuesKey
  <2>2. keys'[k].policy = StoredPolicy(policy) /\ keys'[k].holder = m
    BY <1>1, <2>1
  <2> QED
    BY <1>2, <1>3, <2>2, OfferedAssumption DEF IssuesKey
<1>4. ASSUME NEW r \in DOMAIN asked, NEW j \in KeyId, PatchKey(r, j)
      PROVE  standing[keys'[k].holder].role = "admin"
  <2>1. PICK scope \in Scopes(ConnectedOnes) \union {[limited |-> keys[j].limited, within |-> keys[j].within]} :
        \E policy \in Offered \union {DeserializePermissionPolicy(keys[j].policy)} \union MoreFor(j) :
          /\ StoredPolicy(policy) # keys[j].policy => MayHold(keys[j].holder, policy)
          /\ keys' = [keys EXCEPT ![j] = [@ EXCEPT !.policy = StoredPolicy(policy), !.limited = scope.limited, !.within = scope.within]]
    BY <1>4 DEF PatchKey
  <2>2. PICK policy \in Offered \union {DeserializePermissionPolicy(keys[j].policy)} \union MoreFor(j) :
          /\ StoredPolicy(policy) # keys[j].policy => MayHold(keys[j].holder, policy)
          /\ keys' = [keys EXCEPT ![j] = [@ EXCEPT !.policy = StoredPolicy(policy), !.limited = scope.limited, !.within = scope.within]]
    BY <2>1
  <2>3. j = k
    BY <1>1, <2>2
  <2>4. keys[k].holder # Absent /\ NoApiKey.holder = Absent
    BY <1>4, <2>3 DEF PatchKey, NoApiKey
  <2>5. DOMAIN keys[k] = DOMAIN NoApiKey /\ keys[k].policy \in StoredPolicies
    BY <1>1, <2>4 DEF KeyOK
  <2>6. keys'[k].policy = StoredPolicy(policy) /\ keys'[k].holder = keys[k].holder
    BY <1>1, <2>2, <2>3, <2>5 DEF NoApiKey
  <2>7. policy \in PermissionPolicy
    BY <2>3, <2>5, PatchedPolicy
  <2> QED
    BY <1>2, <2>2, <2>3, <2>6, <2>7
<1>5. ASSUME NEW j \in KeyId, Revokes(j) PROVE FALSE
  BY <1>1, <1>5 DEF Revokes
<1>6. ASSUME NEW m, keys' = WithoutKeysOf(m) PROVE FALSE
  BY <1>1, <1>6 DEF WithoutKeysOf
<1>7. \A r \in DOMAIN asked : MembersChange(r) => keys' = keys \/ \E m : keys' = WithoutKeysOf(m)
  BY DEF MembersChange, CreateMember, PatchRole, SuspendMember, ActivateMember, DeleteMember
<1>8. \A r \in DOMAIN asked : SavesMailbox(r) \/ TrashChange(r) \/ AccountsChange(r) => keys' = keys
  BY DEF SavesMailbox, TrashChange, PutsIntoTrash, TakesOutOfTrash, MovesMessage, Does, AccountsChange,
     PatchAdminAccount, DeleteAdminAccount
<1>9. \A r \in DOMAIN asked : KeysChange(r) \/ OwnChange(r) =>
        \/ keys' = keys \/ (\E j \in KeyId : Revokes(j) \/ PatchKey(r, j))
        \/ \E m, scope : \E policy \in Offered : IssuesKey(m, policy, scope)
  BY DEF KeysChange, OwnChange, CreateKey, DeleteKey, CreateOwnKey, DeleteOwnKey, RemoveOwnAccount
<1> QED
  BY <1>3, <1>4, <1>5, <1>6, <1>7, <1>8, <1>9, StepCases DEF Quiet, Enrolls

LEMMA TrashIsGuarded ==
  ASSUME AccessIInv, [AccessNext]_accessVars, NEW b \in Mbox
  PROVE  /\ b \in trashed' \ trashed => \E r \in DOMAIN asked : Works(r) /\ b \in asked[r].on /\ Allows(By(r), "mail.trash")
         /\ b \in trashed \ trashed' =>
              \E r \in DOMAIN asked : Works(r) /\ b \in asked[r].on /\ (Allows(By(r), "mail.trash") \/ asked[r].out)
<1>1. \A r \in DOMAIN asked :
        SavesMailbox(r) \/ MembersChange(r) \/ AccountsChange(r) \/ KeysChange(r) \/ OwnChange(r) => trashed' = trashed
  BY DEF SavesMailbox, Does, MembersChange, AccountsChange, KeysChange, OwnChange, CreateMember, PatchRole,
     SuspendMember, ActivateMember, DeleteMember, PatchAdminAccount, DeleteAdminAccount, CreateKey, PatchKey, DeleteKey,
     CreateOwnKey, DeleteOwnKey, RemoveOwnAccount
<1>2. \A r \in DOMAIN asked, call \in {"intoTrash", "takeOut", "takeOutOfTrash"} :
        Permitted(asked[r], call) => Allows(By(r), "mail.trash")
  BY NeedOfPlain DEF Permitted, AdminCalls, By
<1>3. ASSUME NEW r \in DOMAIN asked, PutsIntoTrash(r)
      PROVE  /\ Works(r) /\ Allows(By(r), "mail.trash")
             /\ trashed' = trashed \union asked[r].on
  BY <1>2, <1>3, NextCall DEF PutsIntoTrash, Does
<1>4. ASSUME NEW r \in DOMAIN asked, TakesOutOfTrash(r) \/ MovesMessage(r)
      PROVE  /\ Works(r) /\ (Allows(By(r), "mail.trash") \/ asked[r].out)
             /\ trashed' = trashed \ asked[r].on
  <2>1. CASE TakesOutOfTrash(r)
    <3>1. PICK c \in {"takeOut", "takeOutOfTrash"} : Does(r, c, trashed \ asked[r].on)
      BY <2>1 DEF TakesOutOfTrash
    <3> QED
      BY <1>2, <3>1, NextCall DEF Does
  <2>2. CASE MovesMessage(r)
    BY <2>2, NextCall DEF MovesMessage, Does
  <2> QED
    BY <1>4, <2>1, <2>2
<1> QED
  BY <1>1, <1>3, <1>4, StepCases DEF Quiet, Enrolls, TrashChange

\* Members, mailboxes, keys and trash change only by somebody who may change them.
THEOREM OnlyAuthorizedChange == AccessSpec => ChangesAuthorized
<1>1. AccessIInv /\ [AccessNext]_accessVars => DecidedByOneWhoMay
  BY StandingsDecided, MailboxesDecided, KeysDecided, PoliciesAreHeld DEF DecidedByOneWhoMay
<1>2. AccessIInv /\ [AccessNext]_accessVars => MovedByOneWhoMay
  BY TrashIsGuarded DEF MovedByOneWhoMay
<1>3. AccessSpec => OnlyAdministratorsDecide
  BY <1>1, AccessInvariant, PTL DEF AccessSpec, OnlyAdministratorsDecide
<1>4. AccessSpec => TrashGuarded
  BY <1>2, AccessInvariant, PTL DEF AccessSpec, TrashGuarded
<1> QED
  BY <1>3, <1>4 DEF ChangesAuthorized

-----------------------------------------------------------------------------
(* SearchPaging: the list of a set of messages *)

------------------------------------------------------------------------------
(* Lists with the newest first *)

Descending(list) == \A i, j \in 1..Len(list) : i < j => list[i] > list[j]

\* How many members of s are at least m.
Rank(s, m) == Cardinality({x \in s : x >= m})

LEMMA RanksFall ==
  ASSUME NEW s \in SUBSET Nat, IsFiniteSet(s), NEW m \in s, NEW k \in s, m < k
  PROVE  Rank(s, k) < Rank(s, m)
<1>1. m \in {x \in s : x >= m} /\ m \notin {x \in s : x >= k}
  OBVIOUS
<1>2. {x \in s : x >= k} \in SUBSET {x \in s : x >= m}
  <2>1. \A x \in s : x >= k => x >= m
    <3> SUFFICES ASSUME NEW x \in s, x >= k PROVE x >= m
      OBVIOUS
    <3>1. x \in Nat /\ m \in Nat /\ k \in Nat
      OBVIOUS
    <3>2. QED BY <3>1
  <2>2. QED BY <2>1
<1>3. IsFiniteSet({x \in s : x >= m}) /\ IsFiniteSet({x \in s : x >= k})
  BY FS_Subset
<1>4. Cardinality({x \in s : x >= m}) \in Nat /\ Cardinality({x \in s : x >= k}) \in Nat
  BY <1>3, FS_CardinalityType
<1>5. /\ Cardinality({x \in s : x >= k}) <= Cardinality({x \in s : x >= m})
      /\ Cardinality({x \in s : x >= m}) = Cardinality({x \in s : x >= k})
           => {x \in s : x >= m} = {x \in s : x >= k}
  BY <1>2, <1>3, FS_Subset
<1>6. QED BY <1>1, <1>4, <1>5 DEF Rank

LEMMA RanksAreSmall ==
  ASSUME NEW s \in SUBSET Nat, IsFiniteSet(s), NEW m \in s
  PROVE  Rank(s, m) \in 1..Cardinality(s)
<1>1. {x \in s : x >= m} \in SUBSET s /\ m \in {x \in s : x >= m}
  OBVIOUS
<1>2. IsFiniteSet({x \in s : x >= m}) /\ Rank(s, m) <= Cardinality(s)
  BY <1>1, FS_Subset DEF Rank
<1>3. Rank(s, m) \in Nat /\ Cardinality(s) \in Nat
  BY <1>2, FS_CardinalityType DEF Rank
<1>4. Rank(s, m) # 0
  BY <1>1, <1>2, FS_EmptySet DEF Rank
<1>5. QED BY <1>2, <1>3, <1>4

\* Every number up to the size of a set is the rank of one of its members.
LEMMA EveryRankIsTaken ==
  ASSUME NEW s \in SUBSET Nat, IsFiniteSet(s), NEW i \in 1..Cardinality(s)
  PROVE  \E m \in s : Rank(s, m) = i
<1> DEFINE n == Cardinality(s)
           R == [m \in s |-> Rank(s, m)]
<1>1. n \in Nat
  BY FS_CardinalityType
<1>2. R \in [s -> 1..n]
  BY RanksAreSmall
<1>3. \A m, k \in s : R[m] = R[k] => m = k
  <2> SUFFICES ASSUME NEW m \in s, NEW k \in s, R[m] = R[k] PROVE m = k
    OBVIOUS
  <2>1. CASE m < k
    BY <2>1, RanksFall, RanksAreSmall
  <2>2. CASE k < m
    BY <2>2, RanksFall, RanksAreSmall
  <2>3. QED BY <2>1, <2>2
<1>4. R \in Injection(s, 1..n)
  BY <1>2, <1>3 DEF Injection, IsInjective
<1>5. IsFiniteSet(1..n) /\ Cardinality(1..n) = n
  BY <1>1, FS_Interval
<1>6. R \in Surjection(s, 1..n)
  BY <1>4, <1>5, FS_Injection
<1>7. \A k \in 1..n : \E m \in s : R[m] = k
  BY <1>6 DEF Surjection
<1>8. QED BY <1>7

\* The list of a finite set of messages: all of them, each once, the newest first.
LEMMA NewestFirstIs ==
  ASSUME NEW s \in SUBSET Nat, IsFiniteSet(s)
  PROVE  /\ NewestFirst(s) \in Seq(s)
         /\ Len(NewestFirst(s)) = Cardinality(s)
         /\ Descending(NewestFirst(s))
         /\ \A m \in s : \E i \in 1..Len(NewestFirst(s)) : NewestFirst(s)[i] = m
<1> DEFINE n == Cardinality(s)
           At(i) == CHOOSE m \in s : Rank(s, m) = i
           one == [i \in 1..n |-> At(i)]
           list == NewestFirst(s)
<1>1. n \in Nat
  BY FS_CardinalityType
<1>2. \A i \in 1..n : At(i) \in s /\ Rank(s, At(i)) = i
  BY EveryRankIsTaken
<1>3. one \in [1..n -> s]
  BY <1>2
<1>4. \A i, j \in 1..n : i < j => one[i] > one[j]
  <2> SUFFICES ASSUME NEW i \in 1..n, NEW j \in 1..n, i < j PROVE one[i] > one[j]
    OBVIOUS
  <2>1. one[i] \in s /\ Rank(s, one[i]) = i /\ one[j] \in s /\ Rank(s, one[j]) = j
    BY <1>2
  <2> HIDE DEF one
  <2>2. CASE one[i] < one[j]
    <3>1. Rank(s, one[j]) < Rank(s, one[i])
      BY <2>1, <2>2, RanksFall
    <3>2. i \in Int /\ j \in Int
      BY <1>1
    <3>3. QED BY <2>1, <3>1, <3>2
  <2>3. CASE one[i] = one[j]
    BY <1>1, <2>1, <2>3
  <2>4. one[i] \in Nat /\ one[j] \in Nat
    BY <2>1
  <2>5. QED BY <2>2, <2>3, <2>4
<1>5. list \in [1..n -> s] /\ \A i, j \in 1..n : i < j => list[i] > list[j]
  <2> HIDE DEF one
  <2>1. QED BY <1>3, <1>4 DEF NewestFirst
<1> HIDE DEF list
<1>6. list \in Seq(s) /\ Len(list) = n
  BY <1>1, <1>5
<1>7. \A m \in s : \E i \in 1..n : list[i] = m
  <2>1. \A i, j \in 1..n : list[i] = list[j] => i = j
    <3> SUFFICES ASSUME NEW i \in 1..n, NEW j \in 1..n, list[i] = list[j] PROVE i = j
      OBVIOUS
    <3>1. list[i] \in Nat /\ list[j] \in Nat
      BY <1>5
    <3>2. QED BY <1>5, <3>1
  <2>2. list \in Injection(1..n, s)
    BY <1>5, <2>1 DEF Injection, IsInjective
  <2>3. IsFiniteSet(1..n) /\ Cardinality(1..n) = n
    BY <1>1, FS_Interval
  <2>4. list \in Surjection(1..n, s)
    BY <2>2, <2>3, FS_Injection
  <2>5. QED BY <2>4 DEF Surjection
<1>8. QED BY <1>5, <1>6, <1>7 DEF Descending, list

------------------------------------------------------------------------------
(* Sequences of messages *)

LEMMA Elements ==
  ASSUME NEW S, NEW s \in Seq(S)
  PROVE  /\ Len(s) \in Nat /\ DOMAIN s = 1..Len(s)
         /\ \A i \in 1..Len(s) : s[i] \in S /\ s[i] \in ToSet(s)
         /\ \A x \in ToSet(s) : x \in S /\ \E i \in 1..Len(s) : s[i] = x
<1>1. Len(s) \in Nat /\ DOMAIN s = 1..Len(s) /\ \A i \in 1..Len(s) : s[i] \in S
  BY LenProperties, ElementOfSeq
<1>2. QED BY <1>1 DEF ToSet

LEMMA NoElements ==
  /\ \A x \in ToSet(<<>>) : FALSE
  /\ IsInjective(<<>>) /\ Descending(<<>>)
  BY EmptySeq DEF ToSet, IsInjective, Descending

LEMMA WithOneMore ==
  ASSUME NEW S, NEW s \in Seq(S), NEW e \in S
  PROVE  /\ Append(s, e) \in Seq(S) /\ Len(Append(s, e)) = Len(s) + 1
         /\ \A x : x \in ToSet(Append(s, e)) <=> x \in ToSet(s) \/ x = e
         /\ IsInjective(s) /\ e \notin ToSet(s) => IsInjective(Append(s, e))
<1> DEFINE t == Append(s, e)
<1>1. /\ t \in Seq(S) /\ Len(t) = Len(s) + 1 /\ t[Len(s) + 1] = e
      /\ \A i \in 1..Len(s) : t[i] = s[i]
  BY AppendProperties
<1> HIDE DEF t
<1>2. /\ Len(s) \in Nat /\ DOMAIN s = 1..Len(s) /\ DOMAIN t = 1..Len(t)
  BY <1>1, LenProperties
<1>3. ASSUME NEW x PROVE x \in ToSet(t) <=> x \in ToSet(s) \/ x = e
  <2>1. ASSUME x \in ToSet(t) PROVE x \in ToSet(s) \/ x = e
    <3>1. PICK i \in 1..Len(t) : t[i] = x
      BY <2>1, <1>2 DEF ToSet
    <3>2. CASE i = Len(s) + 1
      BY <3>1, <3>2, <1>1
    <3>3. CASE i \in 1..Len(s)
      BY <3>1, <3>3, <1>1, <1>2 DEF ToSet
    <3>4. QED BY <3>2, <3>3, <1>1, <1>2
  <2>2. ASSUME x \in ToSet(s) PROVE x \in ToSet(t)
    <3>1. PICK i \in 1..Len(s) : s[i] = x
      BY <2>2, <1>2 DEF ToSet
    <3>2. i \in DOMAIN t /\ t[i] = x
      BY <3>1, <1>1, <1>2
    <3>3. QED BY <3>2 DEF ToSet
  <2>3. e \in ToSet(t)
    <3>1. Len(s) + 1 \in DOMAIN t
      BY <1>1, <1>2
    <3>2. QED BY <3>1, <1>1 DEF ToSet
  <2>4. QED BY <2>1, <2>2, <2>3
<1>4. ASSUME IsInjective(s), e \notin ToSet(s) PROVE IsInjective(t)
  <2> SUFFICES ASSUME NEW i \in DOMAIN t, NEW j \in DOMAIN t, t[i] = t[j] PROVE i = j
    BY DEF IsInjective
  <2>1. \A k \in 1..Len(s) : s[k] # e
    BY <1>2, <1>4 DEF ToSet
  <2>2. CASE i \in 1..Len(s) /\ j \in 1..Len(s)
    BY <2>2, <1>1, <1>2, <1>4 DEF IsInjective
  <2>3. CASE i = Len(s) + 1 \/ j = Len(s) + 1
    BY <2>1, <2>3, <1>1, <1>2
  <2>4. QED BY <2>2, <2>3, <1>1, <1>2
<1>5. QED BY <1>1, <1>3, <1>4 DEF t

LEMMA WithoutTheFirst ==
  ASSUME NEW S, NEW s \in Seq(S), s # <<>>
  PROVE  /\ Head(s) \in S /\ Tail(s) \in Seq(S) /\ Len(Tail(s)) = Len(s) - 1 /\ Len(s) >= 1
         /\ Head(s) = s[1] /\ \A i \in 1..Len(s) - 1 : Tail(s)[i] = s[i + 1]
         /\ \A x : x \in ToSet(s) <=> x = Head(s) \/ x \in ToSet(Tail(s))
         /\ IsInjective(s) => IsInjective(Tail(s)) /\ Head(s) \notin ToSet(Tail(s))
         /\ Descending(s) => Descending(Tail(s)) /\ \A x \in ToSet(Tail(s)) : x < Head(s)
<1> DEFINE t == Tail(s)
<1>1. /\ t \in Seq(S) /\ Len(t) = Len(s) - 1 /\ Head(s) \in S
      /\ \A i \in 1..Len(t) : t[i] = s[i + 1]
  BY HeadTailProperties
<1>2. Len(s) \in Nat \ {0} /\ Head(s) = s[1]
  BY EmptySeq
<1> HIDE DEF t
<1>3. DOMAIN s = 1..Len(s) /\ DOMAIN t = 1..Len(t)
  BY <1>1, LenProperties
<1>4. ASSUME NEW x PROVE x \in ToSet(s) <=> x = Head(s) \/ x \in ToSet(t)
  <2>1. ASSUME x \in ToSet(s), x # Head(s) PROVE x \in ToSet(t)
    <3>1. PICK i \in 1..Len(s) : s[i] = x
      BY <2>1, <1>3 DEF ToSet
    <3>2. i # 1
      BY <3>1, <2>1, <1>2
    <3>3. i - 1 \in 1..Len(t)
      BY <3>1, <3>2, <1>1, <1>2
    <3>4. t[i - 1] = x
      BY <3>1, <3>3, <1>1
    <3>5. QED BY <3>3, <3>4, <1>3 DEF ToSet
  <2>2. ASSUME x \in ToSet(t) PROVE x \in ToSet(s)
    <3>1. PICK i \in 1..Len(t) : t[i] = x
      BY <2>2, <1>3 DEF ToSet
    <3>2. i + 1 \in 1..Len(s) /\ s[i + 1] = x
      BY <3>1, <1>1, <1>2
    <3>3. QED BY <3>2, <1>3 DEF ToSet
  <2>3. Head(s) \in ToSet(s)
    BY <1>2, <1>3 DEF ToSet
  <2>4. QED BY <2>1, <2>2, <2>3
<1>5. ASSUME IsInjective(s) PROVE IsInjective(t) /\ Head(s) \notin ToSet(t)
  <2>1. \A i, j \in 1..Len(s) : s[i] = s[j] => i = j
    BY <1>3, <1>5 DEF IsInjective
  <2>2. \A i \in 1..Len(t) : i + 1 \in 1..Len(s) /\ i + 1 # 1 /\ t[i] = s[i + 1]
    BY <1>1, <1>2
  <2>3. \A i, j \in 1..Len(t) : t[i] = t[j] => i = j
    <3> SUFFICES ASSUME NEW i \in 1..Len(t), NEW j \in 1..Len(t), t[i] = t[j] PROVE i = j
      OBVIOUS
    <3>1. i + 1 = j + 1
      BY <2>1, <2>2
    <3>2. QED BY <3>1, <1>1, <1>2
  <2>4. \A i \in 1..Len(t) : t[i] # s[1]
    BY <2>1, <2>2, <1>2
  <2>5. QED BY <2>3, <2>4, <1>2, <1>3 DEF IsInjective, ToSet
<1>6. ASSUME Descending(s) PROVE Descending(t) /\ \A x \in ToSet(t) : x < Head(s)
  <2>1. \A i, j \in 1..Len(s) : i < j => s[i] > s[j]
    BY <1>6 DEF Descending
  <2>2. \A i \in 1..Len(t) : i + 1 \in 1..Len(s) /\ 1 < i + 1 /\ t[i] = s[i + 1]
    BY <1>1, <1>2
  <2>3. Descending(t)
    <3> SUFFICES ASSUME NEW i \in 1..Len(t), NEW j \in 1..Len(t), i < j PROVE t[i] > t[j]
      BY DEF Descending
    <3>1. i + 1 < j + 1
      BY <1>1, <1>2
    <3>2. QED BY <3>1, <2>1, <2>2
  <2>4. \A i \in 1..Len(t) : s[1] > t[i]
    BY <2>1, <2>2, <1>2
  <2>5. ASSUME NEW x \in ToSet(t) PROVE Head(s) > x
    <3>1. PICK i \in 1..Len(t) : t[i] = x
      BY <1>3 DEF ToSet
    <3>2. QED BY <3>1, <2>4, <1>2
  <2>6. QED BY <2>3, <2>5
<1>7. QED BY <1>1, <1>2, <1>4, <1>5, <1>6 DEF t

LEMMA DescendingIsInjective ==
  ASSUME NEW s \in Seq(Int), Descending(s)
  PROVE  IsInjective(s)
<1> SUFFICES ASSUME NEW i \in DOMAIN s, NEW j \in DOMAIN s, s[i] = s[j] PROVE i = j
  BY DEF IsInjective
<1>1. Len(s) \in Nat /\ DOMAIN s = 1..Len(s) /\ s[i] \in Int /\ s[j] \in Int
  BY LenProperties, ElementOfSeq
<1>2. i < j => s[i] > s[j]
  BY <1>1 DEF Descending
<1>3. j < i => s[j] > s[i]
  BY <1>1 DEF Descending
<1>4. i \in Int /\ j \in Int
  BY <1>1
<1>5. QED BY <1>1, <1>2, <1>3, <1>4

LEMMA OneAfterAnother ==
  ASSUME NEW S, NEW s \in Seq(S), NEW t \in Seq(S)
  PROVE  /\ s \o t \in Seq(S) /\ Len(s \o t) = Len(s) + Len(t) /\ s \o <<>> = s
         /\ \A x : x \in ToSet(s \o t) <=> x \in ToSet(s) \/ x \in ToSet(t)
         /\ \A e \in S : s \o Append(t, e) = Append(s \o t, e)
<1> DEFINE u == s \o t
<1>1. /\ u \in Seq(S) /\ Len(u) = Len(s) + Len(t)
      /\ \A i \in 1..Len(s) + Len(t) : u[i] = IF i <= Len(s) THEN s[i] ELSE t[i - Len(s)]
  BY ConcatProperties
<1>2. s \o <<>> = s
  BY ConcatEmptySeq
<1> HIDE DEF u
<1>3. /\ Len(s) \in Nat /\ Len(t) \in Nat
      /\ DOMAIN s = 1..Len(s) /\ DOMAIN t = 1..Len(t) /\ DOMAIN u = 1..Len(u)
  BY <1>1, LenProperties
<1>4. ASSUME NEW x PROVE x \in ToSet(u) <=> x \in ToSet(s) \/ x \in ToSet(t)
  <2>1. ASSUME x \in ToSet(u) PROVE x \in ToSet(s) \/ x \in ToSet(t)
    <3>1. PICK i \in 1..Len(u) : u[i] = x
      BY <2>1, <1>3 DEF ToSet
    <3>2. CASE i <= Len(s)
      <4>1. i \in DOMAIN s /\ s[i] = x
        BY <3>1, <3>2, <1>1, <1>3
      <4>2. QED BY <4>1 DEF ToSet
    <3>3. CASE ~(i <= Len(s))
      <4>1. i - Len(s) \in DOMAIN t /\ t[i - Len(s)] = x
        BY <3>1, <3>3, <1>1, <1>3
      <4>2. QED BY <4>1 DEF ToSet
    <3>4. QED BY <3>2, <3>3
  <2>2. ASSUME x \in ToSet(s) PROVE x \in ToSet(u)
    <3>1. PICK i \in 1..Len(s) : s[i] = x
      BY <2>2, <1>3 DEF ToSet
    <3>2. i \in DOMAIN u /\ u[i] = x
      BY <3>1, <1>1, <1>3
    <3>3. QED BY <3>2 DEF ToSet
  <2>3. ASSUME x \in ToSet(t) PROVE x \in ToSet(u)
    <3>1. PICK i \in 1..Len(t) : t[i] = x
      BY <2>3, <1>3 DEF ToSet
    <3>2. i + Len(s) \in 1..Len(u) /\ ~(i + Len(s) <= Len(s)) /\ (i + Len(s)) - Len(s) = i
      BY <1>1, <1>3
    <3>3. u[i + Len(s)] = x
      BY <3>1, <3>2, <1>1
    <3>4. QED BY <3>2, <3>3, <1>3 DEF ToSet
  <2>4. QED BY <2>1, <2>2, <2>3
<1>5. ASSUME NEW e \in S PROVE s \o Append(t, e) = Append(s \o t, e)
  <2>1. <<e>> \in Seq(S)
    OBVIOUS
  <2>2. Append(t, e) = t \o <<e>> /\ Append(s \o t, e) = (s \o t) \o <<e>>
    BY <1>1, AppendIsConcat DEF u
  <2>3. QED BY <2>1, <2>2, ConcatAssociative
<1>6. QED BY <1>1, <1>2, <1>4, <1>5 DEF u

\* As many as a sequence has elements, or fewer when some of them are the same.
LEMMA SizeOfElements ==
  ASSUME NEW S, NEW s \in Seq(S)
  PROVE  /\ IsFiniteSet(ToSet(s)) /\ Cardinality(ToSet(s)) <= Len(s)
         /\ IsInjective(s) => Cardinality(ToSet(s)) = Len(s)
<1> DEFINE n == Len(s)
           T == ToSet(s)
<1>1. n \in Nat /\ DOMAIN s = 1..n /\ s \in [1..n -> S]
  BY LenProperties
<1>2. s \in [1..n -> T] /\ \A x \in T : \E i \in 1..n : s[i] = x
  BY <1>1 DEF ToSet
<1> HIDE DEF n, T
<1>3. s \in Surjection(1..n, T)
  BY <1>2 DEF Surjection
<1>4. IsFiniteSet(1..n) /\ Cardinality(1..n) = n
  BY <1>1, FS_Interval
<1>5. /\ IsFiniteSet(T) /\ Cardinality(T) <= Cardinality(1..n)
      /\ Cardinality(T) = Cardinality(1..n) <=> s \in Injection(1..n, T)
  BY <1>3, <1>4, FS_Surjection
<1>6. IsInjective(s) => s \in Injection(1..n, T)
  BY <1>1, <1>2 DEF Injection, IsInjective
<1>7. QED BY <1>4, <1>5, <1>6 DEF n, T

\* The first n messages of the list of a set: what is not among them is older than all of them.
LEMMA TheFirstOf ==
  ASSUME NEW s \in SUBSET Nat, IsFiniteSet(s), NEW n \in Nat \ {0}
  PROVE  /\ FirstOf(s, n) \in Seq(s) /\ Descending(FirstOf(s, n)) /\ Len(FirstOf(s, n)) <= n
         /\ FirstOf(s, n) = <<>> => s = {}
         /\ FirstOf(s, n) # <<>> =>
              /\ Last(FirstOf(s, n)) \in s
              /\ \A x \in ToSet(FirstOf(s, n)) : x >= Last(FirstOf(s, n))
              /\ \A x \in s : x \in ToSet(FirstOf(s, n)) \/ x < Last(FirstOf(s, n))
<1> DEFINE list == NewestFirst(s)
           k == IF Cardinality(s) < n THEN Cardinality(s) ELSE n
           ids == FirstOf(s, n)
<1>1. /\ list \in Seq(s) /\ Len(list) = Cardinality(s) /\ Cardinality(s) \in Nat
      /\ \A i, j \in 1..Cardinality(s) : i < j => list[i] > list[j]
      /\ \A m \in s : \E i \in 1..Cardinality(s) : list[i] = m
  BY NewestFirstIs, FS_CardinalityType DEF Descending
<1>2. \A i \in 1..Cardinality(s) : list[i] \in s
  BY <1>1, ElementOfSeq
<1>3. k \in Nat /\ k <= Cardinality(s) /\ k <= n /\ (k < Cardinality(s) => k = n)
  BY <1>1
<1>4. ids = SubSeq(list, 1, k)
  BY DEF FirstOf
<1> HIDE DEF list, k, ids
<1>5. \A i \in 1..k : list[i] \in s
  BY <1>1, <1>2, <1>3
<1>6. /\ ids \in Seq(s) /\ Len(ids) = k
      /\ \A i \in 1..k : ids[i] = list[i]
  <2>1. /\ ids \in Seq(s) /\ Len(ids) = IF 1 <= k THEN k - 1 + 1 ELSE 0
        /\ \A i \in 1..k - 1 + 1 : ids[i] = list[1 + i - 1]
    <3>1. 1 \in Int /\ k \in Int
      BY <1>3
    <3>2. /\ SubSeq(list, 1, k) \in Seq(s) /\ Len(SubSeq(list, 1, k)) = IF 1 <= k THEN k - 1 + 1 ELSE 0
          /\ \A i \in 1..k - 1 + 1 : SubSeq(list, 1, k)[i] = list[1 + i - 1]
      BY ONLY <3>1, <1>5, SubSeqProperties
    <3>3. QED BY <3>2, <1>4
  <2>2. \A i \in 1..k : i \in 1..k - 1 + 1 /\ 1 + i - 1 = i
    BY <1>3
  <2>3. QED BY <1>3, <2>1, <2>2
<1>7. Descending(ids)
  BY <1>1, <1>3, <1>6 DEF Descending
<1>8. ids = <<>> => s = {}
  <2>1. ids = <<>> => Cardinality(s) = 0
    <3>1. Cardinality(s) \in Nat /\ Len(<<>>) = 0
      BY <1>1
    <3>2. QED BY <3>1, <1>3, <1>6
  <2>2. QED BY <2>1, FS_EmptySet
<1>9. ASSUME ids # <<>>
      PROVE  /\ Last(ids) \in s /\ \A x \in ToSet(ids) : x >= Last(ids)
             /\ \A x \in s : x \in ToSet(ids) \/ x < Last(ids)
  <2>1. k \in 1..k /\ Last(ids) = list[k] /\ DOMAIN ids = 1..k
    <3>1. k # 0
      BY <1>6, <1>9, EmptySeq
    <3>2. QED BY <3>1, <1>3, <1>6, LenProperties DEF Last
  <2>2. Last(ids) \in s
    BY <2>1, <1>5
  <2>3. ASSUME NEW x \in ToSet(ids) PROVE x >= Last(ids)
    <3>1. PICK i \in 1..k : ids[i] = x
      BY <2>1 DEF ToSet
    <3>2. x = list[i] /\ x \in Nat /\ list[k] \in Nat
      BY <3>1, <1>5, <1>6, <2>1
    <3>3. i < k => list[i] > list[k]
      BY <1>1, <1>3, <2>1
    <3>4. QED BY <3>2, <3>3, <2>1
  <2>4. ASSUME NEW x \in s PROVE x \in ToSet(ids) \/ x < Last(ids)
    <3>1. PICK i \in 1..Cardinality(s) : list[i] = x
      BY <1>1
    <3>2. CASE i <= k
      <4>1. i \in DOMAIN ids /\ ids[i] = x
        BY <3>1, <3>2, <1>3, <1>6, <2>1
      <4>2. QED BY <4>1 DEF ToSet
    <3>3. CASE ~(i <= k)
      <4>1. k < i /\ k \in 1..Cardinality(s)
        BY <3>3, <1>1, <1>3, <2>1
      <4>2. list[k] > list[i]
        BY <4>1, <1>1
      <4>3. QED BY <4>2, <3>1, <2>1
    <3>4. QED BY <3>2, <3>3
  <2>5. QED BY <2>2, <2>3, <2>4
<1>10. QED BY <1>3, <1>6, <1>7, <1>8, <1>9 DEF ids

------------------------------------------------------------------------------
(* The inductive invariant *)

Message == 1..Arrived

Place == [pending : Seq(Message), after : 0..Arrived + 1, skip : Nat, offset : Nat,
          local : BOOLEAN, folder : Folder, upper : 0..Arrived + 1]
Call == [at : {"none", "asks", "hydrates", "reads", "fetches"}, query : MailQuery \cup {"none"},
         size : 0..Batch, from : Place, todo : Seq(Message), items : Seq(Message),
         inspected : Nat, more : BOOLEAN]
Token == [account : {Mine}, query : MailQuery \cup {"none"}, size : 0..Batch, inner : Place,
          live : BOOLEAN]
Reader == [query : MailQuery \cup {"none"}, size : 0..Batch, shown : Seq(Message), token : Token,
           ended : BOOLEAN, held : SUBSET Message, changed : BOOLEAN, limited : BOOLEAN]

WellTyped ==
  /\ server \in {"gmail", "outlook", "imap"} /\ newest \in 0..Arrived /\ mail \subseteq 1..newest
  /\ listing \in Call /\ reading \in Reader

\* What a running call shares with its reader, and what it may have by now.
CallInOrder ==
  /\ listing.at = "none" => listing = NoListing
  /\ listing.at = "hydrates" => server = "gmail"
  /\ listing.at = "reads" => server = "outlook"
  /\ listing.at = "fetches" => server = "imap"
  /\ listing.at # "none" =>
       /\ listing.query \in MailQuery /\ listing.query = reading.query /\ ~reading.ended
       /\ listing.size \in PageSize /\ listing.from.local = LocalFilter(listing.query)
       /\ Len(listing.items) <= listing.size /\ Len(listing.items) <= listing.inspected
       /\ listing.inspected <= ScanLimit

\* The token of a reader is for the request it came from, and what it has matches that.
ReaderInOrder ==
  /\ reading.token # NoToken =>
       /\ reading.token.query \in MailQuery /\ reading.token.query = reading.query
       /\ reading.token.inner.local = LocalFilter(reading.query) /\ ~reading.ended
  /\ reading.held \subseteq mail
  /\ reading.query # "none" /\ ~reading.changed => reading.held = mail
  /\ \A m \in ToSet(reading.shown) : m \in 1..newest /\ Matches(m, reading.query)
  /\ \A m \in ToSet(listing.items) : m \in 1..newest /\ Matches(m, listing.query)

Younger(m) == {x \in Message : x < m}

\* Candidates of a batch are distinct, and newer than what the next batch is asked from.
GmailBatch(ids, after) == IsInjective(ids) /\ \A m \in ToSet(ids) : m >= after

GmailInOrder ==
  server = "gmail" =>
    /\ GmailBatch(reading.token.inner.pending, reading.token.inner.after)
    /\ Len(reading.token.inner.pending) <= Batch /\ Len(reading.token.inner.pending) <= ScanLimit
    /\ GmailBatch(listing.from.pending, listing.from.after)
    /\ Len(listing.from.pending) <= Batch /\ Len(listing.from.pending) <= ScanLimit
    /\ GmailBatch(listing.todo, listing.from.after) /\ Len(listing.todo) <= Batch
    /\ listing.at = "asks" =>
         /\ listing.todo = <<>> /\ Len(listing.items) < listing.size /\ listing.inspected < ScanLimit
         /\ listing.from.pending # <<>> => listing.inspected = 0
    /\ listing.at = "hydrates" =>
         listing.from.pending = <<>> /\ listing.inspected + Len(listing.todo) <= ScanLimit

InFolder(box, f, upper) == {m \in box : FolderOf(m) = f /\ m <= upper}
LaterFolders(box, f) == {m \in box : FolderOf(m) > f}

\* The UIDs of the folder that are not fetched yet are all that is there from the next one on.
ImapInOrder ==
  server = "imap" /\ listing.at = "fetches" =>
    /\ Descending(listing.todo)
    /\ \A m \in ToSet(listing.todo) : m \in 1..newest /\ FolderOf(m) = listing.from.folder
    /\ listing.todo # <<>> =>
         InFolder(mail, listing.from.folder, Head(listing.todo)) \subseteq ToSet(listing.todo)

\* Where a list stands that goes on from a place.
Position(place) == place.skip + place.offset

\* In a mailbox that does not change, what Graph listed is the messages from there on, to the
\* end of its page.
OutlookInOrder ==
  server = "outlook" =>
    /\ \A m \in ToSet(listing.todo) : m \in 1..newest
    /\ listing.at # "none" /\ ~reading.changed => Position(listing.from) <= Cardinality(mail)
    /\ ~reading.changed => Position(reading.token.inner) <= Cardinality(mail)
    /\ listing.at = "reads" /\ ~reading.changed =>
         /\ \A i \in 1..Len(listing.todo) : listing.todo[i] = NewestFirst(mail)[Position(listing.from) + i]
         /\ Position(listing.from) + Len(listing.todo) =
              Least(listing.from.skip + listing.size, Cardinality(mail))
         /\ listing.more <=> Cardinality(mail) > listing.from.skip + listing.size

\* The messages a list may still show that goes on from a place.
AheadIn(machine, box, place) ==
  IF machine = "gmail" THEN ToSet(place.pending) \cup Younger(place.after)
  ELSE IF machine = "imap"
       THEN InFolder(Message, place.folder, place.upper) \cup LaterFolders(Message, place.folder)
       ELSE {NewestFirst(box)[i] : i \in Position(place) + 1..Cardinality(box)}
Ahead(place) == AheadIn(server, mail, place)

\* The same of the running call.
StillAhead ==
  IF server = "gmail" THEN Ahead(listing.from) \cup ToSet(listing.todo)
  ELSE IF listing.at = "fetches"
       THEN LaterFolders(Message, listing.from.folder) \cup
            (IF listing.todo = <<>> THEN {} ELSE InFolder(Message, listing.from.folder, Head(listing.todo)))
       ELSE Ahead(listing.from)

\* What is seen is seen once and not ahead any more; what matches and was there all along is
\* seen or ahead.
Sound(seen, ahead, held, query) ==
  /\ IsInjective(seen) /\ \A m \in ToSet(seen) : m \notin ahead
  /\ \A m \in held : Matches(m, query) => m \in ToSet(seen) \/ m \in ahead

ReaderIsSound ==
  Steadily =>
    Sound(reading.shown, IF reading.ended THEN {} ELSE Ahead(reading.token.inner), reading.held, reading.query)

CallIsSound ==
  Steadily /\ listing.at # "none" =>
    Sound(reading.shown \o listing.items, StillAhead, reading.held, listing.query)

\* What is left of the running call, in a mailbox that does not change.
Remaining ==
  CASE server = "gmail" -> Left(listing.from) + Len(listing.todo)
    [] server = "outlook" -> Left(listing.from)
    [] server = "imap" -> IF listing.at = "fetches"
                          THEN Cardinality(LaterFolders(mail, listing.from.folder)) + Len(listing.todo)
                          ELSE Left(listing.from)

\* Every candidate inspected is one less to go.
CallAdvances ==
  listing.at # "none" /\ ~reading.changed =>
    Remaining + listing.inspected <= Left(reading.token.inner)

PagingInv ==
  /\ WellTyped /\ CallInOrder /\ ReaderInOrder /\ GmailInOrder /\ ImapInOrder /\ OutlookInOrder
  /\ ReaderIsSound /\ CallIsSound /\ CallAdvances

LEMMA Defaults ==
  /\ Beginning \in Place /\ NoListing \in Call /\ NoToken \in Token /\ NoReading \in Reader
  /\ Beginning.pending = <<>> /\ Beginning.after = Arrived + 1 /\ Beginning.upper = Arrived + 1
  /\ Beginning.folder = 1 /\ Beginning.skip = 0 /\ Beginning.offset = 0
  /\ NoListing.at = "none" /\ NoListing.from = Beginning /\ NoListing.todo = <<>>
  /\ NoListing.items = <<>> /\ NoListing.inspected = 0
  /\ NoToken.inner = Beginning /\ NoToken.query = "none" /\ NoToken.live = FALSE
  /\ NoReading.query = "none" /\ NoReading.shown = <<>> /\ NoReading.token = NoToken
  /\ NoReading.ended = FALSE /\ NoReading.held = {} /\ NoReading.changed = FALSE
<1>1. Beginning \in Place
  <2>1. <<>> \in Seq(Message)
    BY EmptySeq
  <2>2. Arrived + 1 \in 0..Arrived + 1 /\ 0 \in Nat /\ 1 \in Folder
    BY PagingAssumption DEF Folder
  <2>3. QED BY <2>1, <2>2 DEF Beginning, Place
<1>2. NoToken \in Token
  <2>1. 0 \in 0..Batch
    BY PagingAssumption
  <2>2. QED BY <1>1, <2>1 DEF NoToken, Token
<1>3. NoListing \in Call
  <2>1. 0 \in 0..Batch /\ 0 \in Nat
    BY PagingAssumption
  <2>2. <<>> \in Seq(Message)
    BY EmptySeq
  <2>3. QED BY <1>1, <2>1, <2>2 DEF NoListing, Call
<1>4. NoReading \in Reader
  <2>1. 0 \in 0..Batch
    BY PagingAssumption
  <2>2. <<>> \in Seq(Message)
    BY EmptySeq
  <2>3. QED BY <1>2, <2>1, <2>2 DEF NoReading, Reader
<1>5. /\ Beginning.pending = <<>> /\ Beginning.after = Arrived + 1 /\ Beginning.upper = Arrived + 1
      /\ Beginning.folder = 1 /\ Beginning.skip = 0 /\ Beginning.offset = 0
  BY DEF Beginning
<1>6. /\ NoListing.at = "none" /\ NoListing.from = Beginning /\ NoListing.todo = <<>>
      /\ NoListing.items = <<>> /\ NoListing.inspected = 0
  BY DEF NoListing
<1>7. NoToken.inner = Beginning /\ NoToken.query = "none" /\ NoToken.live = FALSE
  BY DEF NoToken
<1>8. /\ NoReading.query = "none" /\ NoReading.shown = <<>> /\ NoReading.token = NoToken
      /\ NoReading.ended = FALSE /\ NoReading.held = {} /\ NoReading.changed = FALSE
  BY DEF NoReading
<1>9. QED BY <1>1, <1>2, <1>3, <1>4, <1>5, <1>6, <1>7, <1>8

\* The fields of the records, typed.
LEMMA Fields ==
  ASSUME WellTyped
  PROVE  /\ listing.todo \in Seq(Message) /\ listing.items \in Seq(Message) /\ listing.inspected \in Nat
         /\ listing.from \in Place /\ listing.size \in 0..Batch /\ listing.more \in BOOLEAN
         /\ reading.shown \in Seq(Message) /\ reading.token \in Token /\ reading.token.inner \in Place
         /\ reading.ended \in BOOLEAN /\ reading.changed \in BOOLEAN /\ reading.held \subseteq Message
         /\ reading.shown \o listing.items \in Seq(Message)
         /\ mail \subseteq Message /\ IsFiniteSet(mail) /\ mail \subseteq Nat
<1>1. /\ listing.todo \in Seq(Message) /\ listing.items \in Seq(Message) /\ listing.inspected \in Nat
      /\ listing.from \in Place /\ listing.size \in 0..Batch /\ listing.more \in BOOLEAN
  BY DEF WellTyped, Call
<1>2. /\ reading.shown \in Seq(Message) /\ reading.token \in Token
      /\ reading.ended \in BOOLEAN /\ reading.changed \in BOOLEAN /\ reading.held \subseteq Message
  BY DEF WellTyped, Reader
<1>3. reading.token.inner \in Place
  BY <1>2 DEF Token
<1>4. mail \subseteq Message /\ IsFiniteSet(mail) /\ mail \subseteq Nat
  <2>1. mail \subseteq 1..Arrived
    BY PagingAssumption DEF WellTyped
  <2>2. IsFiniteSet(1..Arrived)
    BY PagingAssumption, FS_Interval
  <2>3. IsFiniteSet(mail)
    BY <2>1, <2>2, FS_Subset
  <2>4. QED BY <2>1, <2>3 DEF Message
<1>5. QED BY <1>1, <1>2, <1>3, <1>4, OneAfterAnother

LEMMA PlaceFields ==
  ASSUME NEW place \in Place
  PROVE  /\ place.pending \in Seq(Message) /\ place.after \in 0..Arrived + 1 /\ place.skip \in Nat
         /\ place.offset \in Nat /\ place.local \in BOOLEAN /\ place.folder \in Folder
         /\ place.upper \in 0..Arrived + 1
  BY DEF Place

\* What a page changes.
LEMMA PageFields ==
  ASSUME WellTyped, NEW more \in BOOLEAN, NEW limited \in BOOLEAN, NEW inner \in Place,
         Page(listing.items, more, inner, limited)
  PROVE  /\ listing' = NoListing /\ server' = server /\ mail' = mail /\ newest' = newest
         /\ reading'.shown = reading.shown \o listing.items /\ reading'.ended = ~more
         /\ reading'.limited = limited /\ reading'.query = reading.query /\ reading'.size = reading.size
         /\ reading'.held = reading.held /\ reading'.changed = reading.changed
         /\ more => /\ reading'.token.inner = inner /\ reading'.token.query = listing.query
                    /\ reading'.token # NoToken
         /\ ~more => reading'.token = NoToken
         /\ WellTyped'
<1>1. reading \in Reader /\ listing \in Call /\ reading.shown \o listing.items \in Seq(Message)
  BY Fields DEF WellTyped
<1> DEFINE next == [account |-> Mine, query |-> listing.query, size |-> listing.size,
                    inner |-> inner, live |-> TRUE]
           token == IF more THEN next ELSE NoToken
<1>2. next \in Token /\ next # NoToken
  <2>1. listing.query \in MailQuery \cup {"none"} /\ listing.size \in 0..Batch
    BY <1>1 DEF Call
  <2>2. next \in Token
    BY <2>1 DEF Token
  <2>3. next.live /\ ~NoToken.live
    BY DEF NoToken
  <2>4. QED BY <2>2, <2>3
<1>3. token \in Token /\ (more => token = next) /\ (~more => token = NoToken)
  BY <1>2, Defaults
<1>4. /\ listing' = NoListing /\ server' = server /\ mail' = mail /\ newest' = newest
      /\ reading' = [reading EXCEPT !.shown = reading.shown \o listing.items, !.ended = ~more,
                                    !.limited = limited, !.token = token]
  BY DEF Page
<1> HIDE DEF token
<1>5. reading' \in Reader
  BY <1>1, <1>3, <1>4 DEF Reader
<1>6. WellTyped'
  BY <1>4, <1>5, Defaults DEF WellTyped
<1>7. /\ reading'.shown = reading.shown \o listing.items /\ reading'.ended = ~more
      /\ reading'.limited = limited /\ reading'.query = reading.query /\ reading'.size = reading.size
      /\ reading'.held = reading.held /\ reading'.changed = reading.changed
      /\ reading'.token = token
  BY <1>1, <1>4 DEF Reader
<1>8. next.inner = inner /\ next.query = listing.query
  OBVIOUS
<1>9. listing' = NoListing /\ server' = server /\ mail' = mail /\ newest' = newest
  BY <1>4
<1> HIDE DEF next
<1>10. QED BY <1>2, <1>3, <1>6, <1>7, <1>8, <1>9

\* Without a call, what is known of it holds.
LEMMA NoCallIsInOrder ==
  listing = NoListing =>
         /\ CallInOrder /\ ImapInOrder /\ CallIsSound /\ CallAdvances
         /\ \A m \in ToSet(listing.items) : m \in 1..newest /\ Matches(m, listing.query)
         /\ GmailBatch(listing.from.pending, listing.from.after)
         /\ GmailBatch(listing.todo, listing.from.after)
         /\ Len(listing.from.pending) = 0 /\ Len(listing.todo) = 0 /\ listing.at = "none"
         /\ \A m \in ToSet(listing.todo) : m \in 1..newest
<1> SUFFICES ASSUME listing = NoListing
             PROVE  /\ CallInOrder /\ ImapInOrder /\ CallIsSound /\ CallAdvances
                    /\ \A m \in ToSet(listing.items) : m \in 1..newest /\ Matches(m, listing.query)
                    /\ GmailBatch(listing.from.pending, listing.from.after)
                    /\ GmailBatch(listing.todo, listing.from.after)
                    /\ Len(listing.from.pending) = 0 /\ Len(listing.todo) = 0 /\ listing.at = "none"
                    /\ \A m \in ToSet(listing.todo) : m \in 1..newest
  OBVIOUS
<1>1. listing.at = "none" /\ listing.from.pending = <<>> /\ listing.todo = <<>> /\ listing.items = <<>>
  BY Defaults
<1>2. /\ \A m \in ToSet(listing.items) : m \in 1..newest /\ Matches(m, listing.query)
      /\ GmailBatch(listing.from.pending, listing.from.after)
      /\ GmailBatch(listing.todo, listing.from.after)
      /\ Len(listing.from.pending) = 0 /\ Len(listing.todo) = 0
      /\ \A m \in ToSet(listing.todo) : m \in 1..newest
  BY <1>1, NoElements, EmptySeq DEF GmailBatch
<1>3. CallInOrder /\ ImapInOrder /\ CallIsSound /\ CallAdvances
  BY <1>1 DEF CallInOrder, ImapInOrder, CallIsSound, CallAdvances
<1>4. QED BY <1>1, <1>2, <1>3

\* A reader without a token has it in order, and may start anywhere.
LEMMA NoTokenIsInOrder ==
  /\ GmailBatch(NoToken.inner.pending, NoToken.inner.after)
  /\ Len(NoToken.inner.pending) = 0 /\ Position(NoToken.inner) = 0
  BY Defaults, NoElements, EmptySeq DEF GmailBatch, Position

\* What the invariant says of a mailbox that nothing but the reader's record changed.
LEMMA PageKeeps ==
  ASSUME PagingInv, listing.at # "none",
         NEW more \in BOOLEAN, NEW limited \in BOOLEAN, NEW inner \in Place,
         Page(listing.items, more, inner, limited),
         more => inner.local = listing.from.local,
         server = "gmail" /\ more =>
           /\ GmailBatch(inner.pending, inner.after)
           /\ Len(inner.pending) <= Batch /\ Len(inner.pending) <= ScanLimit,
         server = "outlook" /\ more /\ ~reading.changed => Position(inner) <= Cardinality(mail),
         Steadily /\ more => \A m \in Message : m \in Ahead(inner) <=> m \in StillAhead,
         Steadily /\ ~more => \A m \in Message : m \notin StillAhead
  PROVE  PagingInv'
<1>1. WellTyped /\ CallInOrder /\ ReaderInOrder /\ GmailInOrder /\ OutlookInOrder /\ CallIsSound
  BY DEF PagingInv
<1>2. /\ listing' = NoListing /\ server' = server /\ mail' = mail /\ newest' = newest
      /\ reading'.shown = reading.shown \o listing.items /\ reading'.ended = ~more
      /\ reading'.query = reading.query /\ reading'.held = reading.held
      /\ reading'.changed = reading.changed
      /\ more => /\ reading'.token.inner = inner /\ reading'.token.query = listing.query
                 /\ reading'.token # NoToken
      /\ ~more => reading'.token = NoToken
      /\ WellTyped'
  BY <1>1, PageFields
<1>3. /\ listing.query \in MailQuery /\ listing.query = reading.query
      /\ listing.from.local = LocalFilter(listing.query)
  BY <1>1 DEF CallInOrder
<1>4. /\ (CallInOrder /\ ImapInOrder /\ CallIsSound /\ CallAdvances)'
      /\ (\A m \in ToSet(listing.items) : m \in 1..newest /\ Matches(m, listing.query))'
      /\ (GmailBatch(listing.from.pending, listing.from.after))'
      /\ (GmailBatch(listing.todo, listing.from.after))'
      /\ (Len(listing.from.pending) = 0)' /\ (Len(listing.todo) = 0)' /\ (listing.at = "none")'
      /\ (\A m \in ToSet(listing.todo) : m \in 1..newest)'
  <2>1. (listing = NoListing)'
    BY <1>2
  <2>2. QED BY <2>1, NoCallIsInOrder, PTL
<1>5. /\ reading.shown \in Seq(Message) /\ listing.items \in Seq(Message)
      /\ mail \subseteq Message /\ reading.held \subseteq Message /\ IsFiniteSet(mail)
  BY <1>1, Fields
<1>6. \A m : m \in ToSet(reading'.shown) <=> m \in ToSet(reading.shown) \/ m \in ToSet(listing.items)
  BY <1>2, <1>5, OneAfterAnother
<1>7. ReaderInOrder'
  <2>1. \A m \in ToSet(reading'.shown) : m \in 1..newest' /\ Matches(m, reading'.query)
    BY <1>1, <1>2, <1>3, <1>6 DEF ReaderInOrder
  <2>2. reading'.token # NoToken =>
          /\ reading'.token.query \in MailQuery /\ reading'.token.query = reading'.query
          /\ reading'.token.inner.local = LocalFilter(reading'.query) /\ ~reading'.ended
    BY <1>2, <1>3
  <2>3. /\ reading'.held \subseteq mail'
        /\ reading'.query # "none" /\ ~reading'.changed => reading'.held = mail'
    BY <1>1, <1>2 DEF ReaderInOrder
  <2>4. QED BY <1>4, <2>1, <2>2, <2>3 DEF ReaderInOrder
<1>8. GmailInOrder'
  <2> SUFFICES ASSUME server = "gmail" PROVE GmailInOrder'
    BY <1>2 DEF GmailInOrder
  <2>1. /\ GmailBatch(reading'.token.inner.pending, reading'.token.inner.after)
        /\ Len(reading'.token.inner.pending) <= Batch /\ Len(reading'.token.inner.pending) <= ScanLimit
    BY <1>2, NoTokenIsInOrder, PagingAssumption
  <2>2. QED BY <1>4, <2>1, PagingAssumption DEF GmailInOrder
<1>9. OutlookInOrder'
  <2>1. Cardinality(mail) \in Nat
    BY <1>5, FS_CardinalityType
  <2>2. server = "outlook" /\ ~reading.changed => Position(reading'.token.inner) <= Cardinality(mail)
    BY <1>2, <2>1, NoTokenIsInOrder
  <2>3. QED BY <1>2, <1>4, <2>2 DEF OutlookInOrder
<1>10. ReaderIsSound'
  <2> SUFFICES ASSUME Steadily'
               PROVE  Sound(reading'.shown, IF reading'.ended THEN {} ELSE Ahead(reading.token.inner)',
                            reading'.held, reading'.query)
    BY DEF ReaderIsSound
  <2>1. Steadily
    BY <1>2 DEF Steadily
  <2>2. Sound(reading'.shown, StillAhead, reading'.held, reading'.query)
    BY <1>1, <1>2, <1>3, <2>1 DEF CallIsSound
  <2>3. reading'.shown \in Seq(Message) /\ \A m \in ToSet(reading'.shown) : m \in Message
    BY <1>2, <1>5, OneAfterAnother, Elements
  <2>4. CASE more
    <3>1. Ahead(reading.token.inner)' = Ahead(inner)
      BY <1>2, <2>4 DEF Ahead
    <3>2. \A m \in Message : m \in Ahead(inner) <=> m \in StillAhead
      BY <2>1, <2>4
    <3>3. Sound(reading'.shown, Ahead(inner), reading'.held, reading'.query)
      BY <1>2, <1>5, <2>2, <2>3, <3>2 DEF Sound
    <3>4. QED BY <1>2, <2>4, <3>1, <3>3
  <2>5. CASE ~more
    <3>1. Sound(reading'.shown, {}, reading'.held, reading'.query)
      BY <1>2, <1>5, <2>1, <2>2, <2>3, <2>5 DEF Sound
    <3>2. QED BY <1>2, <2>5, <3>1
  <2>6. QED BY <2>4, <2>5
<1>11. QED BY <1>2, <1>4, <1>7, <1>8, <1>9, <1>10 DEF PagingInv

------------------------------------------------------------------------------
(* Mail that comes and goes *)

\* But for Graph, what is ahead does not depend on the mailbox.
LEMMA AheadWithoutBox ==
  ASSUME NEW machine \in {"gmail", "imap"}, NEW one, NEW other, NEW place
  PROVE  AheadIn(machine, one, place) = AheadIn(machine, other, place)
  BY DEF AheadIn

LEMMA MailboxChanges ==
  ASSUME PagingInv, server' = server, listing' = listing,
         newest' \in newest..Arrived, mail' \subseteq 1..newest',
         \A m \in mail' : m \in mail \/ m > newest,
         NEW kept, kept \subseteq reading.held, kept \subseteq mail',
         reading' = [reading EXCEPT !.changed = TRUE, !.held = kept]
  PROVE  PagingInv'
<1>1. WellTyped /\ CallInOrder /\ ReaderInOrder /\ GmailInOrder /\ ImapInOrder /\ OutlookInOrder
  BY DEF PagingInv
<1>2. /\ reading \in Reader /\ listing \in Call /\ newest \in 0..Arrived
      /\ server \in {"gmail", "outlook", "imap"}
  BY <1>1 DEF WellTyped
<1>3. /\ reading'.shown = reading.shown /\ reading'.query = reading.query
      /\ reading'.token = reading.token /\ reading'.ended = reading.ended
      /\ reading'.held = kept /\ reading'.changed = TRUE
  BY <1>2 DEF Reader
<1>4. newest \in Nat /\ newest' \in Nat /\ newest <= newest' /\ newest' \in 0..Arrived
  BY <1>2, PagingAssumption
<1>5. WellTyped'
  <2>1. reading.held \subseteq Message
    BY <1>2 DEF Reader
  <2>2. reading' \in Reader
    BY <1>2, <2>1 DEF Reader
  <2>3. QED BY <1>2, <1>4, <2>2 DEF WellTyped
<1>6. CallInOrder'
  BY <1>1, <1>3 DEF CallInOrder
<1>7. \A m : m \in 1..newest => m \in 1..newest'
  BY <1>4
<1>8. ReaderInOrder'
  BY <1>1, <1>3, <1>7 DEF ReaderInOrder
<1>9. GmailInOrder'
  BY <1>1, <1>3 DEF GmailInOrder
<1>10. ImapInOrder'
  <2> SUFFICES ASSUME server = "imap", listing.at = "fetches"
               PROVE  /\ Descending(listing.todo)
                      /\ \A m \in ToSet(listing.todo) : m \in 1..newest' /\ FolderOf(m) = listing.from.folder
                      /\ listing.todo # <<>> =>
                           InFolder(mail', listing.from.folder, Head(listing.todo)) \subseteq ToSet(listing.todo)
    BY DEF ImapInOrder
  <2>1. /\ Descending(listing.todo)
        /\ \A m \in ToSet(listing.todo) : m \in 1..newest /\ FolderOf(m) = listing.from.folder
        /\ listing.todo # <<>> =>
             InFolder(mail, listing.from.folder, Head(listing.todo)) \subseteq ToSet(listing.todo)
    BY <1>1 DEF ImapInOrder
  <2>2. ASSUME listing.todo # <<>>,
               NEW m \in InFolder(mail', listing.from.folder, Head(listing.todo))
        PROVE  m \in ToSet(listing.todo)
    <3>1. listing.todo \in Seq(Message)
      BY <1>1, Fields
    <3>2. Head(listing.todo) \in ToSet(listing.todo)
      BY <2>2, <3>1, WithoutTheFirst
    <3>3. Head(listing.todo) \in 1..newest
      BY <2>1, <3>2
    <3>4. m \in mail' /\ FolderOf(m) = listing.from.folder /\ m <= Head(listing.todo)
      BY <2>2 DEF InFolder
    <3>5. m \in 1..newest'
      BY <3>4
    <3>6. ~(m > newest)
      BY <1>4, <3>3, <3>4, <3>5
    <3>7. m \in InFolder(mail, listing.from.folder, Head(listing.todo))
      BY <3>4, <3>6 DEF InFolder
    <3>8. QED BY <2>1, <2>2, <3>7
  <2>3. QED BY <1>7, <2>1, <2>2
<1>11. OutlookInOrder'
  BY <1>1, <1>3, <1>7 DEF OutlookInOrder
<1>12. ASSUME Steadily'
       PROVE  /\ Steadily /\ \A place : AheadIn(server', mail', place) = AheadIn(server, mail, place)
  <2>1. server \in {"gmail", "imap"}
    BY <1>2, <1>3, <1>12 DEF Steadily
  <2>2. QED BY <2>1, AheadWithoutBox DEF Steadily
<1>13. ReaderIsSound'
  <2> SUFFICES ASSUME Steadily'
               PROVE  Sound(reading'.shown, IF reading'.ended THEN {} ELSE Ahead(reading.token.inner)',
                            reading'.held, reading'.query)
    BY DEF ReaderIsSound
  <2>1. Sound(reading.shown, IF reading.ended THEN {} ELSE Ahead(reading.token.inner),
              reading.held, reading.query)
    BY <1>12 DEF ReaderIsSound, PagingInv
  <2>2. Ahead(reading.token.inner)' = Ahead(reading.token.inner)
    BY <1>3, <1>12 DEF Ahead
  <2>3. QED BY <1>3, <2>1, <2>2 DEF Sound
<1>14. CallIsSound'
  <2> SUFFICES ASSUME Steadily', listing.at # "none"
               PROVE  Sound(reading'.shown \o listing.items, StillAhead', reading'.held, listing.query)
    BY DEF CallIsSound
  <2>1. Sound(reading.shown \o listing.items, StillAhead, reading.held, listing.query)
    BY <1>12 DEF CallIsSound, PagingInv
  <2>2. Ahead(listing.from)' = Ahead(listing.from)
    BY <1>12 DEF Ahead
  <2>3. StillAhead' = StillAhead
    BY <2>2 DEF StillAhead
  <2>4. QED BY <1>3, <2>1, <2>3 DEF Sound
<1>15. CallAdvances'
  BY <1>3 DEF CallAdvances
<1>16. QED BY <1>5, <1>6, <1>8, <1>9, <1>10, <1>11, <1>13, <1>14, <1>15 DEF PagingInv

LEMMA MailArrivesKeeps ==
  ASSUME PagingInv, MailArrives
  PROVE  PagingInv'
<1>1. WellTyped /\ ReaderInOrder
  BY DEF PagingInv
<1>2. newest \in Nat /\ newest < Arrived /\ newest' = newest + 1 /\ mail' = mail \cup {newest + 1}
  BY <1>1, PagingAssumption DEF WellTyped, MailArrives
<1>3. mail \subseteq 1..newest /\ reading \in Reader /\ reading.held \subseteq mail
  BY <1>1 DEF WellTyped, ReaderInOrder
<1>4. newest' \in newest..Arrived
  BY <1>2, PagingAssumption
<1>5. mail' \subseteq 1..newest'
  BY <1>2, <1>3
<1>6. \A m \in mail' : m \in mail \/ m > newest
  BY <1>2
<1>7. reading' = [reading EXCEPT !.changed = TRUE, !.held = reading.held]
  BY <1>3 DEF MailArrives, Reader
<1>8. reading.held \subseteq mail'
  BY <1>2, <1>3
<1>9. server' = server /\ listing' = listing
  BY DEF MailArrives
<1>10. PICK kept : kept = reading.held
  OBVIOUS
<1>11. kept \subseteq reading.held /\ kept \subseteq mail'
  BY <1>8, <1>10
<1>12. reading' = [reading EXCEPT !.changed = TRUE, !.held = kept]
  BY <1>7, <1>10
<1>13. QED BY <1>4, <1>5, <1>6, <1>9, <1>11, <1>12, MailboxChanges

LEMMA MailGoesKeeps ==
  ASSUME PagingInv, MailGoes
  PROVE  PagingInv'
<1>1. WellTyped
  BY DEF PagingInv
<1>2. mail' \subseteq mail /\ server' = server /\ listing' = listing /\ newest' = newest
  BY DEF MailGoes
<1>3. newest' \in newest..Arrived /\ mail' \subseteq 1..newest' /\ \A m \in mail' : m \in mail \/ m > newest
  BY <1>1, <1>2, PagingAssumption DEF WellTyped
<1>4. reading' = [reading EXCEPT !.changed = TRUE, !.held = reading.held \cap mail']
  BY DEF MailGoes
<1>5. PICK kept : kept = reading.held \cap mail'
  OBVIOUS
<1>6. kept \subseteq reading.held /\ kept \subseteq mail'
  BY <1>5
<1>7. reading' = [reading EXCEPT !.changed = TRUE, !.held = kept]
  BY <1>4, <1>5
<1>8. server' = server /\ listing' = listing
  BY <1>2
<1>9. QED BY <1>3, <1>6, <1>7, <1>8, MailboxChanges

------------------------------------------------------------------------------
(* Calls that start and stop *)

\* Two places that differ in their filter at most.
SamePlace(one, other) ==
  /\ one.pending = other.pending /\ one.after = other.after
  /\ one.skip = other.skip /\ one.offset = other.offset
  /\ one.folder = other.folder /\ one.upper = other.upper

LEMMA SameAhead ==
  ASSUME NEW one, NEW other, SamePlace(one, other)
  PROVE  Ahead(one) = Ahead(other) /\ Left(one) = Left(other) /\ Position(one) = Position(other)
  BY DEF SamePlace, Ahead, AheadIn, Left, Position

LEMMA NoSizeLeft ==
  ASSUME NEW place \in Place, WellTyped, server = "outlook" => Position(place) <= Cardinality(mail)
  PROVE  Left(place) \in Nat
<1>1. \A s : s \subseteq mail => Cardinality(s) \in Nat
  BY Fields, FS_Subset, FS_CardinalityType
<1>2. /\ Older(place.after) \subseteq mail
      /\ {m \in mail : FolderOf(m) > place.folder \/ (FolderOf(m) = place.folder /\ m <= place.upper)} \subseteq mail
  BY DEF Older
<1>3. Len(place.pending) \in Nat /\ place.skip \in Nat /\ place.offset \in Nat
  BY PlaceFields, LenProperties
<1>4. CASE server = "gmail"
  BY <1>1, <1>2, <1>3, <1>4 DEF Left
<1>5. CASE server = "outlook"
  BY <1>1, <1>3, <1>5 DEF Left, Position
<1>6. CASE server = "imap"
  BY <1>1, <1>2, <1>6 DEF Left
<1>7. QED BY <1>4, <1>5, <1>6 DEF WellTyped

\* A call that goes on from where its reader's token says.
StartsAt(q, n, from) ==
  /\ listing = [NoListing EXCEPT !.at = "asks", !.query = q, !.size = n, !.from = from]
  /\ reading.query = q /\ ~reading.ended /\ from.local = LocalFilter(q)
  /\ SamePlace(from, reading.token.inner)
  /\ reading.token # NoToken =>
       reading.token.query = q /\ reading.token.inner.local = LocalFilter(q)

TokenInOrder ==
  /\ reading.held \subseteq mail /\ (~reading.changed => reading.held = mail)
  /\ \A m \in ToSet(reading.shown) : m \in 1..newest /\ Matches(m, reading.query)
  /\ server = "gmail" =>
       /\ GmailBatch(reading.token.inner.pending, reading.token.inner.after)
       /\ Len(reading.token.inner.pending) <= Batch /\ Len(reading.token.inner.pending) <= ScanLimit
  /\ server = "outlook" /\ ~reading.changed => Position(reading.token.inner) <= Cardinality(mail)

CallBegins ==
  /\ WellTyped /\ ReaderIsSound /\ TokenInOrder
  /\ \E q \in MailQuery, n \in PageSize, from \in Place : StartsAt(q, n, from)

LEMMA CallStarts == CallBegins => PagingInv
<1> SUFFICES ASSUME WellTyped, ReaderIsSound, TokenInOrder,
                    NEW q \in MailQuery, NEW n \in PageSize, NEW from \in Place, StartsAt(q, n, from)
             PROVE  PagingInv
  BY DEF CallBegins
<1> USE DEF StartsAt, TokenInOrder
<1>1. /\ listing.at = "asks" /\ listing.query = q /\ listing.size = n /\ listing.from = from
      /\ listing.todo = <<>> /\ listing.items = <<>> /\ listing.inspected = 0
  BY DEF NoListing
<1>2. ScanLimit \in Nat \ {0} /\ n \in 1..Batch /\ Batch \in Nat \ {0}
  BY PagingAssumption
<1>3. CallInOrder
  BY <1>1, <1>2 DEF CallInOrder
<1>4. ReaderInOrder
  BY <1>1, NoElements DEF ReaderInOrder
<1>5. GmailInOrder
  BY <1>1, <1>2, NoElements DEF GmailInOrder, GmailBatch, SamePlace
<1>6. ImapInOrder
  BY <1>1 DEF ImapInOrder
<1>7. OutlookInOrder
  BY <1>1, NoElements, SameAhead DEF OutlookInOrder
<1>8. CallIsSound
  <2> SUFFICES ASSUME Steadily
               PROVE  Sound(reading.shown \o listing.items, StillAhead, reading.held, q)
    BY <1>1 DEF CallIsSound
  <2>1. StillAhead = Ahead(listing.from)
    BY <1>1, NoElements DEF StillAhead
  <2>2. reading.shown \o listing.items = reading.shown
    BY <1>1, Fields, OneAfterAnother
  <2>3. Sound(reading.shown, Ahead(reading.token.inner), reading.held, q)
    BY DEF ReaderIsSound
  <2>4. QED BY <1>1, <2>1, <2>2, <2>3, SameAhead
<1>9. CallAdvances
  <2> SUFFICES ASSUME ~reading.changed
               PROVE  Remaining + listing.inspected <= Left(reading.token.inner)
    BY DEF CallAdvances
  <2>1. Left(listing.from) = Left(reading.token.inner)
    BY <1>1, SameAhead
  <2>2. Position(from) = Position(reading.token.inner)
    BY SameAhead
  <2>3. Left(reading.token.inner) \in Nat
    BY Fields, NoSizeLeft
  <2>4. Remaining = Left(listing.from)
    BY <1>1, <2>1, <2>3 DEF Remaining, WellTyped
  <2>5. QED BY <1>1, <2>1, <2>3, <2>4
<1>10. QED BY <1>3, <1>4, <1>5, <1>6, <1>7, <1>8, <1>9 DEF PagingInv

LEMMA CallStops ==
  ASSUME PagingInv, listing' = NoListing, UNCHANGED <<server, mail, newest, reading>>
  PROVE  PagingInv'
<1>1. WellTyped /\ ReaderInOrder /\ GmailInOrder /\ OutlookInOrder /\ ReaderIsSound
  BY DEF PagingInv
<1>2. /\ (CallInOrder /\ ImapInOrder /\ CallIsSound /\ CallAdvances)'
      /\ (\A m \in ToSet(listing.items) : m \in 1..newest /\ Matches(m, listing.query))'
      /\ (GmailBatch(listing.from.pending, listing.from.after))'
      /\ (GmailBatch(listing.todo, listing.from.after))'
      /\ (Len(listing.from.pending) = 0)' /\ (Len(listing.todo) = 0)' /\ (listing.at = "none")'
      /\ (\A m \in ToSet(listing.todo) : m \in 1..newest)'
  <2>1. (listing = NoListing)'
    OBVIOUS
  <2>2. QED BY <2>1, NoCallIsInOrder, PTL
<1>3. WellTyped'
  BY <1>1, Defaults DEF WellTyped
<1>4. ReaderInOrder'
  BY <1>1, <1>2 DEF ReaderInOrder
<1>5. GmailInOrder'
  BY <1>1, <1>2, PagingAssumption DEF GmailInOrder
<1>6. OutlookInOrder'
  BY <1>1, <1>2 DEF OutlookInOrder
<1>7. ReaderIsSound'
  <2>1. Ahead(reading.token.inner)' = Ahead(reading.token.inner)
    BY DEF Ahead
  <2>2. QED BY <1>1, <2>1 DEF ReaderIsSound, Steadily
<1>8. QED BY <1>2, <1>3, <1>4, <1>5, <1>6, <1>7 DEF PagingInv

LEMMA TokenExpiresKeeps ==
  ASSUME PagingInv, TokenExpires
  PROVE  PagingInv'
<1>1. /\ WellTyped /\ CallInOrder /\ ReaderInOrder /\ GmailInOrder /\ ImapInOrder /\ OutlookInOrder
      /\ ReaderIsSound /\ CallIsSound /\ CallAdvances
  BY DEF PagingInv
<1>2. reading \in Reader /\ reading.token \in Token
  BY <1>1, Fields DEF WellTyped
<1>3. /\ reading.token.live /\ reading' = [reading EXCEPT !.token = [reading.token EXCEPT !.live = FALSE]]
      /\ server' = server /\ mail' = mail /\ newest' = newest /\ listing' = listing
  BY <1>2 DEF TokenExpires, Reader
<1> DEFINE token == [reading.token EXCEPT !.live = FALSE]
<1>4. token \in Token /\ token.query = reading.token.query /\ token.inner = reading.token.inner
  BY <1>2 DEF Token
<1> HIDE DEF token
<1>5. /\ reading'.shown = reading.shown /\ reading'.query = reading.query
      /\ reading'.ended = reading.ended /\ reading'.held = reading.held
      /\ reading'.changed = reading.changed /\ reading'.token = token
  BY <1>2, <1>3 DEF Reader, token
<1>6. reading' \in Reader
  BY <1>2, <1>3, <1>4 DEF Reader, token
<1>7. WellTyped'
  BY <1>1, <1>3, <1>6 DEF WellTyped
<1>8. reading.token # NoToken
  BY <1>3, Defaults
<1>9. ReaderInOrder'
  BY <1>1, <1>3, <1>4, <1>5, <1>8 DEF ReaderInOrder
<1>10. CallInOrder' /\ GmailInOrder' /\ ImapInOrder'
  BY <1>1, <1>3, <1>4, <1>5 DEF CallInOrder, GmailInOrder, ImapInOrder
<1>11. OutlookInOrder'
  BY <1>1, <1>3, <1>4, <1>5 DEF OutlookInOrder
<1>12. reading'.token.inner = reading.token.inner
  BY <1>4, <1>5
<1>13. /\ Ahead(reading.token.inner)' = Ahead(reading.token.inner)
       /\ Ahead(listing.from)' = Ahead(listing.from)
  BY <1>3, <1>12 DEF Ahead
<1>14. ReaderIsSound'
  BY <1>1, <1>3, <1>5, <1>13 DEF ReaderIsSound, Steadily
<1>15. StillAhead' = StillAhead
  BY <1>3, <1>13 DEF StillAhead
<1>16. CallIsSound'
  BY <1>1, <1>3, <1>5, <1>15 DEF CallIsSound, Steadily
<1>17. /\ Left(reading.token.inner)' = Left(reading.token.inner) /\ Left(listing.from)' = Left(listing.from)
  BY <1>3, <1>12 DEF Left, Older
<1>18. CallAdvances'
  BY <1>1, <1>3, <1>5, <1>17 DEF CallAdvances, Remaining
<1>19. QED BY <1>7, <1>9, <1>10, <1>11, <1>14, <1>16, <1>18 DEF PagingInv

\* A list that starts from the beginning has everything ahead.
LEMMA EverythingIsAhead ==
  ASSUME WellTyped
  PROVE  \A m \in mail : m \in Ahead(Beginning)
<1>1. mail \subseteq Message /\ IsFiniteSet(mail) /\ mail \subseteq Nat
  BY Fields
<1>2. Arrived \in Nat
  BY PagingAssumption
<1>3. CASE server = "gmail"
  <2>1. \A m \in Message : m \in Younger(Arrived + 1)
    BY <1>2 DEF Younger, Message
  <2>2. QED BY <1>1, <1>3, <2>1, Defaults DEF Ahead, AheadIn
<1>4. CASE server = "imap"
  <2>1. \A m \in Message : m \in InFolder(Message, 1, Arrived + 1) \/ m \in LaterFolders(Message, 1)
    <3> SUFFICES ASSUME NEW m \in Message
                 PROVE  m <= Arrived + 1 /\ (FolderOf(m) = 1 \/ FolderOf(m) > 1)
      BY DEF InFolder, LaterFolders
    <3>1. m <= Arrived + 1
      BY <1>2 DEF Message
    <3>2. FolderOf(m) \in 1..LastFolder /\ LastFolder \in Nat
      BY PagingAssumption DEF FolderOf, Message
    <3>3. QED BY <3>1, <3>2
  <2>2. QED BY <1>1, <1>4, <2>1, Defaults DEF Ahead, AheadIn
<1>5. CASE server = "outlook"
  <2>1. \A m \in mail : \E i \in 1..Cardinality(mail) : NewestFirst(mail)[i] = m
    BY <1>1, NewestFirstIs
  <2>2. Position(Beginning) + 1 = 1
    BY Defaults DEF Position
  <2>3. QED BY <1>5, <2>1, <2>2 DEF Ahead, AheadIn
<1>6. QED BY <1>3, <1>4, <1>5 DEF WellTyped

LEMMA ListFirstKeeps ==
  ASSUME PagingInv, ListFirst
  PROVE  PagingInv'
<1> DEFINE from(q) == [Beginning EXCEPT !.local = LocalFilter(q)]
           reader(q, n) == [NoReading EXCEPT !.query = q, !.size = n, !.held = mail]
<1>1. PICK q \in MailQuery, n \in PageSize :
        /\ listing' = [NoListing EXCEPT !.at = "asks", !.query = q, !.size = n, !.from = from(q)]
        /\ reading' = reader(q, n)
  BY DEF ListFirst, StartsListing
<1>2. server' = server /\ mail' = mail /\ newest' = newest
  BY DEF ListFirst
<1>3. WellTyped /\ mail \subseteq Message /\ n \in 0..Batch
  BY Fields, PagingAssumption DEF PagingInv
<1>4. /\ from(q) \in Place /\ from(q).local = LocalFilter(q) /\ SamePlace(from(q), Beginning)
  BY Defaults DEF Place, SamePlace, LocalFilter
<1>5. /\ reader(q, n) \in Reader /\ reader(q, n).query = q /\ reader(q, n).held = mail
      /\ reader(q, n).token = NoToken /\ reader(q, n).shown = <<>> /\ reader(q, n).ended = FALSE
      /\ reader(q, n).changed = FALSE
  BY <1>3, Defaults DEF Reader
<1> HIDE DEF from, reader
<1>6. /\ reading' \in Reader /\ reading'.query = q /\ reading'.held = mail
      /\ reading'.token = NoToken /\ reading'.shown = <<>> /\ reading'.ended = FALSE
      /\ reading'.changed = FALSE
  BY <1>1, <1>5
<1>7. listing' \in Call
  BY <1>1, <1>3, <1>4, Defaults DEF Call
<1>8. WellTyped'
  BY <1>2, <1>3, <1>6, <1>7 DEF WellTyped
<1>9. StartsAt(q, n, from(q))'
  BY <1>1, <1>4, <1>6, Defaults DEF StartsAt
<1>10. TokenInOrder'
  <2>1. Cardinality(mail) \in Nat /\ Cardinality(mail) >= 0
    BY <1>3, Fields, FS_CardinalityType
  <2>2. reading'.token.inner.pending = <<>> /\ Position(reading'.token.inner) = 0
    BY <1>6, Defaults, NoTokenIsInOrder
  <2>3. GmailBatch(<<>>, reading'.token.inner.after) /\ Len(<<>>) = 0
    BY NoElements, EmptySeq DEF GmailBatch
  <2>4. \A m \in ToSet(reading'.shown) : FALSE
    BY <1>6, NoElements
  <2>5. QED BY <1>2, <1>6, <2>1, <2>2, <2>3, <2>4, PagingAssumption DEF TokenInOrder
<1>11. ReaderIsSound'
  <2>1. ReaderIsSound' <=> (Steadily' => Sound(<<>>, Ahead(reading.token.inner)', mail, q))
    BY <1>6 DEF ReaderIsSound
  <2>2. Ahead(reading.token.inner)' = Ahead(Beginning)
    BY <1>2, <1>6, Defaults DEF Ahead
  <2>3. \A m \in mail : m \in Ahead(Beginning)
    BY <1>3, EverythingIsAhead
  <2>4. QED BY <2>1, <2>2, <2>3, NoElements DEF Sound
<1>12. CallBegins'
  BY <1>4, <1>8, <1>9, <1>10, <1>11 DEF CallBegins
<1>13. QED BY <1>12, CallStarts, PTL

LEMMA ListNextKeeps ==
  ASSUME PagingInv, ListNext
  PROVE  PagingInv'
<1>1. PICK q \in MailQuery, n \in PageSize :
        /\ reading.token.query = q
        /\ listing' = [NoListing EXCEPT !.at = "asks", !.query = q, !.size = n, !.from = reading.token.inner]
        /\ reading' = [reading EXCEPT !.query = q, !.size = n]
  BY DEF ListNext, StartsListing, Binds
<1>2. server' = server /\ mail' = mail /\ newest' = newest /\ reading.token # NoToken
  BY DEF ListNext
<1>3. WellTyped /\ ReaderInOrder /\ GmailInOrder /\ OutlookInOrder /\ ReaderIsSound
  BY DEF PagingInv
<1>4. n \in 0..Batch /\ reading.token.inner \in Place /\ reading \in Reader
  BY <1>3, Fields, PagingAssumption DEF WellTyped
<1>5. /\ reading.query = q /\ ~reading.ended /\ reading.token.inner.local = LocalFilter(q)
  BY <1>1, <1>2, <1>3 DEF ReaderInOrder
<1>6. /\ reading'.query = q /\ reading'.held = reading.held /\ reading'.token = reading.token
      /\ reading'.shown = reading.shown /\ reading'.ended = reading.ended
      /\ reading'.changed = reading.changed /\ reading' \in Reader
  BY <1>1, <1>4 DEF Reader
<1>7. listing' \in Call
  BY <1>1, <1>4, Defaults DEF Call
<1>8. WellTyped'
  BY <1>2, <1>3, <1>6, <1>7 DEF WellTyped
<1>9. PICK from \in Place : from = reading.token.inner
  BY <1>4
<1>10. StartsAt(q, n, from)'
  BY <1>1, <1>5, <1>6, <1>9 DEF StartsAt, SamePlace
<1>11. TokenInOrder'
  <2>1. q # "none"
    BY DEF MailQuery
  <2>2. QED BY <1>2, <1>3, <1>5, <1>6, <2>1 DEF TokenInOrder, ReaderInOrder, GmailInOrder, OutlookInOrder
<1>12. ReaderIsSound'
  <2>1. Ahead(reading.token.inner)' = Ahead(reading.token.inner)
    BY <1>2, <1>6 DEF Ahead
  <2>2. QED BY <1>2, <1>3, <1>5, <1>6, <2>1 DEF ReaderIsSound, Steadily
<1>13. CallBegins'
  BY <1>8, <1>10, <1>11, <1>12 DEF CallBegins
<1>14. QED BY <1>13, CallStarts, PTL

------------------------------------------------------------------------------
(* What every provider's call keeps *)

\* Less is ahead, but nothing that was there all along.
LEMMA SoundWithLess ==
  ASSUME NEW seen, NEW before, NEW after, NEW held, NEW q, Sound(seen, before, held, q),
         \A m \in after : m \in before,
         \A m \in held : m \in before => m \in after
  PROVE  Sound(seen, after, held, q)
  BY DEF Sound

\* A candidate is taken: it is seen when it fits, and not ahead any more.
LEMMA SoundTakes ==
  ASSUME NEW seen \in Seq(Message), NEW m \in Message, NEW fits \in BOOLEAN,
         NEW before, NEW after, NEW held, NEW q, Sound(seen, before, held, q),
         m \in before, m \notin after,
         \A x \in after : x \in before,
         \A x \in held : x \in before => x \in after \/ x = m,
         m \in held /\ Matches(m, q) => fits
  PROVE  Sound(IF fits THEN Append(seen, m) ELSE seen, after, held, q)
<1>1. m \notin ToSet(seen)
  BY DEF Sound
<1>2. CASE fits
  <2>1. /\ \A x : x \in ToSet(Append(seen, m)) <=> x \in ToSet(seen) \/ x = m
        /\ IsInjective(Append(seen, m))
    BY <1>1, WithOneMore DEF Sound
  <2>2. QED BY <1>2, <2>1 DEF Sound
<1>3. CASE ~fits
  BY <1>3 DEF Sound
<1>4. QED BY <1>2, <1>3

LEMMA CallGoesOn ==
  ASSUME PagingInv, UNCHANGED <<server, mail, newest, reading>>, listing' \in Call, CallInOrder',
         \A m \in ToSet(listing'.items) : m \in 1..newest /\ Matches(m, listing'.query),
         GmailInOrder', ImapInOrder', OutlookInOrder', CallIsSound', CallAdvances'
  PROVE  PagingInv'
<1>1. WellTyped /\ ReaderInOrder /\ ReaderIsSound
  BY DEF PagingInv
<1>2. WellTyped' /\ ReaderInOrder'
  BY <1>1 DEF WellTyped, ReaderInOrder
<1>3. ReaderIsSound'
  <2>1. Ahead(reading.token.inner)' = Ahead(reading.token.inner)
    BY DEF Ahead
  <2>2. QED BY <1>1, <2>1 DEF ReaderIsSound, Steadily
<1>4. QED BY <1>2, <1>3 DEF PagingInv

------------------------------------------------------------------------------
(* Gmail *)

LEMMA LeftWithGmail ==
  ASSUME WellTyped, server = "gmail", NEW place \in Place
  PROVE  /\ Left(place) = Len(place.pending) + Cardinality(Older(place.after))
         /\ IsFiniteSet(Older(place.after)) /\ Cardinality(Older(place.after)) \in Nat
         /\ Len(place.pending) \in Nat
<1>1. /\ IsFiniteSet(Older(place.after)) /\ Cardinality(Older(place.after)) \in Nat
      /\ place.after \in 0..Arrived + 1 /\ Len(place.pending) \in Nat
  <2>1. Older(place.after) \in SUBSET mail
    BY DEF Older
  <2>2. IsFiniteSet(Older(place.after))
    BY <2>1, Fields, FS_Subset
  <2>3. QED BY <2>2, FS_CardinalityType, PlaceFields, LenProperties
<1>2. ~(place.after > 0) => Older(place.after) = {}
  <2> SUFFICES ASSUME ~(place.after > 0), NEW m \in Older(place.after) PROVE FALSE
    OBVIOUS
  <2>1. m \in mail /\ m < place.after
    BY DEF Older
  <2>2. m \in Message
    BY <2>1, Fields
  <2>3. QED BY <1>1, <2>1, <2>2, PagingAssumption DEF Message
<1>3. Cardinality({}) = 0
  BY FS_EmptySet
<1>4. QED BY <1>1, <1>2, <1>3 DEF Left

\* The next batch: candidates that are there, and all that is there of what is ahead.
LEMMA NextBatch ==
  ASSUME WellTyped, server = "gmail", NEW place \in Place, NEW size \in Nat \ {0},
         NEW ids, ids = FirstOf(Older(place.after), size),
         NEW after, after = IF ids = <<>> \/ Older(Last(ids)) = {} THEN 0 ELSE Last(ids)
  PROVE  /\ ids \in Seq(Message) /\ Len(ids) <= size /\ after \in 0..Arrived + 1 /\ after <= place.after
         /\ GmailBatch(ids, after)
         /\ \A m \in ToSet(ids) : m \in mail /\ m < place.after
         /\ \A m \in mail : m < place.after => m \in ToSet(ids) \/ m < after
         /\ Len(ids) + Cardinality(Older(after)) <= Cardinality(Older(place.after))
<1> DEFINE s == Older(place.after)
<1>1. /\ mail \subseteq Message /\ mail \subseteq Nat /\ IsFiniteSet(mail)
      /\ place.after \in 0..Arrived + 1 /\ Arrived \in Nat
  BY Fields, PlaceFields, PagingAssumption
<1>2. s \in SUBSET Nat /\ s \in SUBSET mail /\ IsFiniteSet(s) /\ Cardinality(s) \in Nat
  <2>1. s \in SUBSET Nat /\ s \in SUBSET mail
    BY <1>1 DEF Older
  <2>2. IsFiniteSet(s)
    BY <1>1, <2>1, FS_Subset
  <2>3. QED BY <2>1, <2>2, FS_CardinalityType
<1>3. \A m : m \in s <=> m \in mail /\ m < place.after
  BY DEF Older
<1>4. \A k \in 1..Arrived : \A m : m \in Older(k) <=> m \in mail /\ m < k
  BY DEF Older
<1> HIDE DEF s
<1>5. /\ ids \in Seq(s) /\ Descending(ids) /\ Len(ids) <= size
      /\ ids = <<>> => s = {}
      /\ ids # <<>> =>
           /\ Last(ids) \in s /\ \A x \in ToSet(ids) : x >= Last(ids)
           /\ \A x \in s : x \in ToSet(ids) \/ x < Last(ids)
  BY <1>2, TheFirstOf DEF s
<1>6. ids \in Seq(Message) /\ ids \in Seq(Int)
  <2>1. s \subseteq Message /\ s \subseteq Int /\ ids \in Seq(s)
    BY <1>1, <1>2, <1>5
  <2>2. QED BY ONLY <2>1, SeqMonotonic
<1>7. IsInjective(ids)
  BY <1>5, <1>6, DescendingIsInjective
<1>8. \A m \in ToSet(ids) : m \in s
  BY <1>5, Elements
<1>9. Older(0) = {} /\ Cardinality({}) = 0
  <2>1. \A m \in Message : ~(m < 0)
    BY <1>1 DEF Message
  <2>2. QED BY <1>1, <2>1, FS_EmptySet DEF Older
<1>10. CASE ids = <<>>
  <2>1. after = 0 /\ Len(ids) = 0 /\ \A x \in ToSet(ids) : FALSE
    BY <1>10, NoElements, EmptySeq
  <2>2. GmailBatch(ids, after)
    BY <1>7, <2>1 DEF GmailBatch
  <2>3. Len(ids) + Cardinality(Older(after)) <= Cardinality(s)
    <3>1. Cardinality(Older(after)) = 0
      BY <1>9, <2>1
    <3>2. QED BY <1>2, <2>1, <3>1
  <2>4. QED BY <1>1, <1>3, <1>5, <1>6, <1>10, <2>1, <2>2, <2>3 DEF s
<1>11. CASE ids # <<>>
  <2>1. /\ Last(ids) \in mail /\ Last(ids) < place.after /\ Last(ids) \in 1..Arrived
        /\ \A x \in ToSet(ids) : x >= Last(ids)
        /\ \A x \in s : x \in ToSet(ids) \/ x < Last(ids)
    BY <1>1, <1>3, <1>5, <1>11 DEF Message
  <2>2. /\ after \in 0..Arrived + 1 /\ after <= place.after /\ after <= Last(ids)
        /\ Older(after) = Older(Last(ids))
    <3>1. CASE Older(Last(ids)) = {}
      <4>1. after = 0
        BY <3>1
      <4>2. QED BY <1>1, <1>9, <2>1, <3>1, <4>1
    <3>2. CASE Older(Last(ids)) # {}
      <4>1. after = Last(ids)
        BY <1>11, <3>2
      <4>2. QED BY <1>1, <2>1, <4>1
    <3>3. QED BY <3>1, <3>2
  <2>3. \A x \in ToSet(ids) : x \in Nat
    BY <1>2, <1>8
  <2>4. GmailBatch(ids, after)
    BY <1>1, <1>7, <2>1, <2>2, <2>3 DEF GmailBatch
  <2>5. \A m \in mail : m < place.after => m \in ToSet(ids) \/ m < after
    <3> SUFFICES ASSUME NEW m \in mail, m < place.after, m \notin ToSet(ids) PROVE m < after
      OBVIOUS
    <3>1. m < Last(ids)
      BY <1>3, <2>1
    <3>2. m \in Older(Last(ids))
      BY <3>1 DEF Older
    <3>3. after = Last(ids)
      BY <1>11, <3>2
    <3>4. QED BY <3>1, <3>3
  <2>6. Len(ids) + Cardinality(Older(after)) <= Cardinality(s)
    <3> DEFINE T == ToSet(ids)
               O == Older(Last(ids))
    <3>1. IsFiniteSet(T) /\ Cardinality(T) = Len(ids)
      BY <1>6, <1>7, SizeOfElements
    <3>2. \A m \in O : m \in s /\ m \notin T
      <4> SUFFICES ASSUME NEW m \in O PROVE m \in s /\ m \notin T
        OBVIOUS
      <4>1. m \in mail /\ m < Last(ids)
        BY DEF Older
      <4>2. m \in Nat /\ Last(ids) \in Nat /\ place.after \in Nat
        BY <1>1, <2>1, <4>1
      <4>3. QED BY <1>3, <2>1, <4>1, <4>2
    <3>3. IsFiniteSet(O)
      BY <1>2, <3>2, FS_Subset
    <3>4. T \cup O \in SUBSET s /\ T \cap O = {}
      BY <1>8, <3>2
    <3> HIDE DEF T, O
    <3>5. /\ Cardinality(T \cup O) <= Cardinality(s)
          /\ Cardinality(T \cup O) = Cardinality(T) + Cardinality(O) - Cardinality(T \cap O)
      BY <1>2, <3>1, <3>3, <3>4, FS_Subset, FS_Union
    <3>6. Cardinality(T) \in Nat /\ Cardinality(O) \in Nat /\ Cardinality(T \cap O) = 0
      BY <3>1, <3>3, <3>4, FS_CardinalityType, FS_EmptySet
    <3>7. Cardinality(T) + Cardinality(O) <= Cardinality(s)
      BY <1>2, <3>5, <3>6
    <3>8. QED BY <2>2, <3>1, <3>7 DEF O
  <2>7. QED BY <1>3, <1>5, <1>6, <1>8, <2>2, <2>4, <2>5, <2>6 DEF s
<1>12. QED BY <1>10, <1>11

\* In a call of Gmail's, all that is ahead are the candidates at hand and what is older.
LEMMA StillAheadWithGmail ==
  ASSUME server = "gmail"
  PROVE  \A m : m \in StillAhead <=> \/ m \in ToSet(listing.todo) \/ m \in ToSet(listing.from.pending)
                                     \/ m \in Younger(listing.from.after)
  BY DEF StillAhead, Ahead, AheadIn

\* The candidates of a batch are at hand: those a token brought, or those that were listed.
LEMMA BatchAtHand ==
  ASSUME PagingInv, server = "gmail", listing.at = "asks",
         UNCHANGED <<server, mail, newest, reading>>,
         NEW ids \in Seq(Message), NEW after \in 0..Arrived + 1, after <= listing.from.after,
         listing' = [listing EXCEPT !.at = "hydrates", !.todo = ids,
                                    !.from = [listing.from EXCEPT !.pending = <<>>, !.after = after]],
         GmailBatch(ids, after), Len(ids) <= Batch, listing.inspected + Len(ids) <= ScanLimit,
         \A m \in ToSet(ids) : m \in ToSet(listing.from.pending) \/ m < listing.from.after,
         \A m \in mail : m \in ToSet(listing.from.pending) \/ m < listing.from.after =>
                           m \in ToSet(ids) \/ m < after,
         Len(ids) + Cardinality(Older(after)) <=
           Len(listing.from.pending) + Cardinality(Older(listing.from.after))
  PROVE  PagingInv'
<1>1. WellTyped /\ CallInOrder /\ ReaderInOrder /\ GmailInOrder /\ CallIsSound /\ CallAdvances
  BY DEF PagingInv
<1>2. /\ listing \in Call /\ listing.from \in Place /\ listing.todo = <<>>
      /\ mail \subseteq Message /\ reading.held \subseteq mail
  BY <1>1, Fields DEF WellTyped, GmailInOrder, ReaderInOrder
<1> DEFINE from == [listing.from EXCEPT !.pending = <<>>, !.after = after]
<1>3. /\ from \in Place /\ from.pending = <<>> /\ from.after = after /\ from.local = listing.from.local
  BY <1>2, EmptySeq DEF Place
<1> HIDE DEF from
<1>4. /\ listing'.at = "hydrates" /\ listing'.todo = ids /\ listing'.from = from
      /\ listing'.query = listing.query /\ listing'.size = listing.size /\ listing'.items = listing.items
      /\ listing'.inspected = listing.inspected
  BY <1>2 DEF Call, from
<1>5. listing' \in Call
  BY <1>2, <1>3 DEF Call, from
<1>6. CallInOrder'
  BY <1>1, <1>3, <1>4 DEF CallInOrder
<1>7. \A m \in ToSet(listing'.items) : m \in 1..newest /\ Matches(m, listing'.query)
  BY <1>1, <1>4 DEF ReaderInOrder
<1>8. GmailInOrder'
  <2>1. GmailBatch(<<>>, after) /\ Len(<<>>) = 0
    BY NoElements, EmptySeq DEF GmailBatch
  <2>2. QED BY <1>1, <1>3, <1>4, <2>1, PagingAssumption DEF GmailInOrder
<1>9. ImapInOrder' /\ OutlookInOrder'
  BY <1>4 DEF ImapInOrder, OutlookInOrder
<1>10. CallIsSound'
  <2>1. Sound(reading.shown \o listing.items, StillAhead, reading.held, listing.query)
    BY <1>1 DEF CallIsSound, Steadily
  <2>2. \A m : m \in StillAhead <=> m \in ToSet(listing.from.pending) \/ m \in Younger(listing.from.after)
    BY <1>2, StillAheadWithGmail, NoElements
  <2>3. \A m : m \in StillAhead' <=> m \in ToSet(ids) \/ m \in Younger(after)
    <3>1. StillAhead' = (ToSet(from.pending) \cup Younger(from.after)) \cup ToSet(ids)
      BY <1>4 DEF StillAhead, Ahead, AheadIn
    <3>2. QED BY <1>3, <3>1, NoElements
  <2>4. \A m : m \in Younger(after) <=> m \in Message /\ m < after
    BY DEF Younger
  <2>5. \A m : m \in Younger(listing.from.after) <=> m \in Message /\ m < listing.from.after
    BY DEF Younger
  <2>6. \A m \in ToSet(ids) : m \in Message
    BY Elements
  <2>7. \A m \in Message : m < after => m < listing.from.after
    BY <1>2, PlaceFields, PagingAssumption DEF Message
  <2>8. \A m \in StillAhead' : m \in StillAhead
    BY <2>2, <2>3, <2>4, <2>5, <2>6, <2>7
  <2>9. \A m \in reading.held : m \in StillAhead => m \in StillAhead'
    BY <1>2, <2>2, <2>3, <2>4, <2>5
  <2>10. Sound(reading.shown \o listing.items, StillAhead', reading.held, listing.query)
    BY <2>1, <2>8, <2>9, SoundWithLess
  <2>11. QED BY <1>4, <2>10 DEF CallIsSound
<1>11. CallAdvances'
  <2> SUFFICES ASSUME ~reading.changed
               PROVE  Remaining' + listing.inspected <= Left(reading.token.inner)'
    BY <1>4 DEF CallAdvances
  <2>1. Left(listing.from) + Len(listing.todo) + listing.inspected <= Left(reading.token.inner)
    BY <1>1 DEF CallAdvances, Remaining
  <2>2. Left(reading.token.inner)' = Left(reading.token.inner)
    BY DEF Left, Older
  <2>3. /\ Left(listing.from) = Len(listing.from.pending) + Cardinality(Older(listing.from.after))
        /\ Left(listing.from) \in Nat
    BY <1>1, <1>2, LeftWithGmail
  <2>4. Left(from) = Len(<<>>) + Cardinality(Older(after)) /\ Cardinality(Older(after)) \in Nat
    BY <1>1, <1>3, LeftWithGmail
  <2>5. Left(listing.from)' = Left(from)
    BY <1>4 DEF Left, Older
  <2>6. Remaining' = Left(from) + Len(ids)
    BY <1>4, <2>5 DEF Remaining
  <2>7. Left(reading.token.inner) \in Nat
    <3>1. reading.token.inner \in Place
      BY <1>1, Fields
    <3>2. /\ Left(reading.token.inner) = Len(reading.token.inner.pending) + Cardinality(Older(reading.token.inner.after))
          /\ Cardinality(Older(reading.token.inner.after)) \in Nat /\ Len(reading.token.inner.pending) \in Nat
      BY <1>1, <3>1, LeftWithGmail
    <3>3. QED BY <3>2
  <2>8. Len(<<>>) = 0 /\ Len(ids) \in Nat /\ listing.inspected \in Nat /\ Len(listing.todo) = 0
    BY <1>1, <1>2, Fields, EmptySeq, LenProperties
  <2>9. QED BY <2>1, <2>2, <2>3, <2>4, <2>6, <2>7, <2>8
<1>12. QED BY <1>5, <1>6, <1>7, <1>8, <1>9, <1>10, <1>11, CallGoesOn

LEMMA GmailListsKeeps ==
  ASSUME PagingInv, GmailLists
  PROVE  PagingInv'
<1>1. WellTyped /\ CallInOrder /\ GmailInOrder /\ server = "gmail" /\ listing.at = "asks"
  BY DEF PagingInv, GmailLists
<1>2. /\ listing \in Call /\ listing.from \in Place /\ listing.from.pending \in Seq(Message)
      /\ listing.from.after \in 0..Arrived + 1 /\ UNCHANGED <<server, mail, newest, reading>>
      /\ listing.inspected \in Nat /\ Len(listing.items) \in Nat /\ listing.size \in 1..Batch
  BY <1>1, Fields, PlaceFields, LenProperties, PagingAssumption DEF WellTyped, CallInOrder, GmailLists
<1>3. /\ GmailBatch(listing.from.pending, listing.from.after)
      /\ Len(listing.from.pending) <= Batch /\ Len(listing.from.pending) <= ScanLimit
      /\ Len(listing.items) < listing.size /\ listing.inspected < ScanLimit
      /\ listing.from.pending # <<>> => listing.inspected = 0
  BY <1>1 DEF GmailInOrder
<1>4. CASE listing.from.pending # <<>>
  <2>1. listing' = [listing EXCEPT !.at = "hydrates", !.todo = listing.from.pending,
                                   !.from = [listing.from EXCEPT !.pending = <<>>, !.after = listing.from.after]]
    <3>1. listing' = [listing EXCEPT !.at = "hydrates", !.todo = listing.from.pending, !.from.pending = <<>>]
      BY <1>4 DEF GmailLists
    <3>2. [listing.from EXCEPT !.pending = <<>>] = [listing.from EXCEPT !.pending = <<>>, !.after = listing.from.after]
      BY <1>2 DEF Place
    <3>3. listing' = [listing EXCEPT !.at = "hydrates", !.todo = listing.from.pending,
                                     !.from = [listing.from EXCEPT !.pending = <<>>]]
      BY <1>2, <3>1 DEF Call
    <3>4. QED BY <3>2, <3>3
  <2>2. Len(listing.from.pending) \in Nat /\ listing.inspected = 0 /\ ScanLimit \in Nat
    BY <1>2, <1>3, <1>4, LenProperties, PagingAssumption
  <2>3. Cardinality(Older(listing.from.after)) \in Nat
    BY <1>1, <1>2, LeftWithGmail
  <2>4. PICK ids \in Seq(Message), after \in 0..Arrived + 1 :
          ids = listing.from.pending /\ after = listing.from.after
    BY <1>2
  <2>5. listing' = [listing EXCEPT !.at = "hydrates", !.todo = ids,
                                   !.from = [listing.from EXCEPT !.pending = <<>>, !.after = after]]
    BY <2>1, <2>4
  <2>6. after <= listing.from.after /\ listing.inspected + Len(ids) <= ScanLimit
    BY <1>3, <2>2, <2>4
  <2>7. Len(ids) + Cardinality(Older(after)) <=
          Len(listing.from.pending) + Cardinality(Older(listing.from.after))
    BY <2>2, <2>3, <2>4
  <2>8. /\ GmailBatch(ids, after) /\ Len(ids) <= Batch
        /\ \A m \in ToSet(ids) : m \in ToSet(listing.from.pending) \/ m < listing.from.after
        /\ \A m \in mail : m \in ToSet(listing.from.pending) \/ m < listing.from.after =>
                             m \in ToSet(ids) \/ m < after
    BY <1>3, <2>4
  <2>9. QED BY <1>1, <1>2, <2>5, <2>6, <2>7, <2>8, BatchAtHand
<1>5. CASE listing.from.pending = <<>>
  <2> DEFINE n == Least(IF LocalFilter(listing.query) THEN Batch ELSE listing.size - Len(listing.items),
                        ScanLimit - listing.inspected)
             list == FirstOf(Older(listing.from.after), n)
             oldest == IF list = <<>> \/ Older(Last(list)) = {} THEN 0 ELSE Last(list)
  <2>1. listing' = [listing EXCEPT !.at = "hydrates", !.todo = list, !.from.after = oldest]
    BY <1>5 DEF GmailLists
  <2>2. n \in Nat \ {0} /\ n <= Batch /\ listing.inspected + n <= ScanLimit
    <3> DEFINE wanted == IF LocalFilter(listing.query) THEN Batch ELSE listing.size - Len(listing.items)
               room == ScanLimit - listing.inspected
    <3>1. wanted \in Nat \ {0} /\ wanted <= Batch
      BY <1>2, <1>3, PagingAssumption
    <3>2. room \in Nat \ {0} /\ listing.inspected + room = ScanLimit
      BY <1>2, <1>3, PagingAssumption
    <3>3. n = IF wanted < room THEN wanted ELSE room
      BY DEF Least
    <3> HIDE DEF n, wanted, room
    <3>4. QED BY <1>2, <3>1, <3>2, <3>3, PagingAssumption
  <2> HIDE DEF n
  <2>3. PICK ids : ids = list
    OBVIOUS
  <2>4. PICK after : after = oldest
    OBVIOUS
  <2> HIDE DEF list, oldest
  <2>5. PICK size \in Nat \ {0} : size = n
    BY <2>2
  <2>6. /\ ids = FirstOf(Older(listing.from.after), size)
        /\ after = IF ids = <<>> \/ Older(Last(ids)) = {} THEN 0 ELSE Last(ids)
    BY <2>3, <2>4, <2>5 DEF list, oldest
  <2>7. PICK place \in Place : place = listing.from
    BY <1>2
  <2>8. /\ ids \in Seq(Message) /\ Len(ids) <= size /\ after \in 0..Arrived + 1 /\ after <= place.after
        /\ GmailBatch(ids, after)
        /\ \A m \in ToSet(ids) : m \in mail /\ m < place.after
        /\ \A m \in mail : m < place.after => m \in ToSet(ids) \/ m < after
        /\ Len(ids) + Cardinality(Older(after)) <= Cardinality(Older(place.after))
    <3>1. WellTyped /\ server = "gmail" /\ ids = FirstOf(Older(place.after), size)
      BY <1>1, <2>6, <2>7
    <3>2. QED BY <2>6, <3>1, NextBatch
  <2>9. listing' = [listing EXCEPT !.at = "hydrates", !.todo = ids,
                                   !.from = [listing.from EXCEPT !.pending = <<>>, !.after = after]]
    <3>1. listing' = [listing EXCEPT !.at = "hydrates", !.todo = ids,
                                     !.from = [listing.from EXCEPT !.after = after]]
      BY <1>2, <2>1, <2>3, <2>4 DEF Call
    <3>2. [listing.from EXCEPT !.after = after] = [listing.from EXCEPT !.pending = <<>>, !.after = after]
      BY <1>2, <1>5 DEF Place
    <3>3. QED BY <3>1, <3>2
  <2>10. Len(ids) \in Nat /\ Len(ids) <= Batch /\ listing.inspected + Len(ids) <= ScanLimit
    <3>1. Len(ids) \in Nat
      BY <2>8, LenProperties
    <3>2. QED BY <1>2, <2>2, <2>5, <2>8, <3>1, PagingAssumption
  <2>11. Len(ids) + Cardinality(Older(after)) <=
           Len(listing.from.pending) + Cardinality(Older(listing.from.after))
    <3>1. Cardinality(Older(listing.from.after)) \in Nat /\ Len(listing.from.pending) = 0
      BY <1>1, <1>2, <1>5, LeftWithGmail, EmptySeq
    <3>2. QED BY <2>7, <2>8, <3>1
  <2>12. /\ \A m \in ToSet(ids) : m \in ToSet(listing.from.pending) \/ m < listing.from.after
         /\ \A m \in mail : m \in ToSet(listing.from.pending) \/ m < listing.from.after =>
                              m \in ToSet(ids) \/ m < after
    BY <1>5, <2>7, <2>8, NoElements
  <2>13. QED BY <1>1, <1>2, <2>7, <2>8, <2>9, <2>10, <2>11, <2>12, BatchAtHand
<1>6. QED BY <1>4, <1>5

\* A candidate goes on the page.
LEMMA ItemTaken ==
  ASSUME NEW shown \in Seq(Message), NEW items \in Seq(Message), NEW m \in Message
  PROVE  /\ Append(items, m) \in Seq(Message) /\ Len(items) \in Nat
         /\ Len(Append(items, m)) = Len(items) + 1
         /\ \A x \in ToSet(Append(items, m)) : x \in ToSet(items) \/ x = m
         /\ shown \o Append(items, m) = Append(shown \o items, m)
<1>1. Len(items) \in Nat
  BY LenProperties
<1>2. QED BY <1>1, WithOneMore, OneAfterAnother

LEMMA GmailHydratesKeeps ==
  ASSUME PagingInv, GmailHydrates
  PROVE  PagingInv'
<1>1. /\ WellTyped /\ CallInOrder /\ ReaderInOrder /\ GmailInOrder /\ CallIsSound /\ CallAdvances
      /\ server = "gmail" /\ listing.at = "hydrates" /\ listing.todo # <<>>
      /\ Len(listing.items) # listing.size /\ UNCHANGED <<server, mail, newest, reading>>
  BY DEF PagingInv, GmailHydrates, Full
<1>2. /\ listing \in Call /\ listing.from \in Place /\ listing.todo \in Seq(Message)
      /\ listing.items \in Seq(Message) /\ listing.inspected \in Nat /\ listing.size \in 0..Batch
      /\ mail \subseteq Message /\ reading.held \subseteq mail
      /\ reading.shown \in Seq(Message) /\ reading.shown \o listing.items \in Seq(Message)
  BY <1>1, Fields DEF WellTyped, ReaderInOrder
<1>3. /\ GmailBatch(listing.todo, listing.from.after) /\ listing.from.pending = <<>>
      /\ listing.inspected + Len(listing.todo) <= ScanLimit /\ Len(listing.todo) <= Batch
  BY <1>1 DEF GmailInOrder
<1> DEFINE fit == Head(listing.todo) \in mail /\ Matches(Head(listing.todo), listing.query)
<1>4. PICK m \in Message, todo \in Seq(Message) : m = Head(listing.todo) /\ todo = Tail(listing.todo)
  BY <1>1, <1>2, WithoutTheFirst
<1>5. PICK fits \in BOOLEAN : fits <=> (m \in mail /\ Matches(m, listing.query))
  OBVIOUS
<1>6. PICK items : items = IF fits THEN Append(listing.items, m) ELSE listing.items
  OBVIOUS
<1>7. listing' = [listing EXCEPT !.todo = todo, !.inspected = listing.inspected + 1, !.items = items]
  BY <1>2, <1>4, <1>5, <1>6 DEF GmailHydrates, Call
<1>8. /\ items \in Seq(Message) /\ Len(listing.items) \in Nat /\ Len(items) \in Nat
      /\ Len(items) = Len(listing.items) \/ (fits /\ Len(items) = Len(listing.items) + 1)
      /\ \A x \in ToSet(items) : x \in ToSet(listing.items) \/ (fits /\ x = m)
      /\ reading.shown \o items =
           IF fits THEN Append(reading.shown \o listing.items, m) ELSE reading.shown \o listing.items
  <2>1. PICK shown \in Seq(Message), before \in Seq(Message) : shown = reading.shown /\ before = listing.items
    BY <1>2
  <2>2. items = IF fits THEN Append(before, m) ELSE before
    BY <1>6, <2>1
  <2>3. /\ items \in Seq(Message) /\ Len(before) \in Nat /\ Len(items) \in Nat
        /\ Len(items) = Len(before) \/ (fits /\ Len(items) = Len(before) + 1)
        /\ \A x \in ToSet(items) : x \in ToSet(before) \/ (fits /\ x = m)
        /\ shown \o items = IF fits THEN Append(shown \o before, m) ELSE shown \o before
    <3>1. Len(before) \in Nat
      BY LenProperties
    <3>2. CASE fits
      <4>1. items = Append(before, m)
        BY <2>2, <3>2
      <4>2. /\ items \in Seq(Message) /\ Len(items) = Len(before) + 1
            /\ \A x \in ToSet(items) : x \in ToSet(before) \/ x = m
            /\ shown \o items = Append(shown \o before, m)
        BY <4>1, ItemTaken
      <4>3. QED BY <3>1, <3>2, <4>2
    <3>3. CASE ~fits
      BY <2>2, <3>1, <3>3
    <3>4. QED BY <3>2, <3>3
  <2>4. QED BY <2>1, <2>3
<1>9. /\ listing'.at = "hydrates" /\ listing'.todo = todo /\ listing'.from = listing.from
      /\ listing'.query = listing.query /\ listing'.size = listing.size /\ listing'.items = items
      /\ listing'.inspected = listing.inspected + 1
  BY <1>1, <1>2, <1>7 DEF Call
<1>10. listing' \in Call
  <2>1. items \in Seq(Message) /\ listing.inspected + 1 \in Nat /\ listing \in Call
    BY <1>2, <1>8
  <2>2. QED BY <1>7, <2>1 DEF Call
<1>11. /\ Len(todo) = Len(listing.todo) - 1 /\ Len(listing.todo) \in Nat \ {0} /\ m \notin ToSet(todo)
       /\ \A x : x \in ToSet(listing.todo) <=> x = m \/ x \in ToSet(todo)
       /\ IsInjective(todo)
  BY <1>1, <1>2, <1>3, <1>4, WithoutTheFirst, LenProperties DEF GmailBatch
<1>12. CallInOrder'
  <2>1. Len(listing.items) <= listing.size /\ Len(listing.items) <= listing.inspected
    BY <1>1 DEF CallInOrder
  <2>2. Len(items) <= listing.size /\ Len(items) <= listing.inspected + 1
    BY <1>1, <1>2, <1>8, <2>1
  <2>3. listing.inspected + 1 <= ScanLimit
    BY <1>2, <1>3, <1>11, PagingAssumption
  <2>4. QED BY <1>1, <1>9, <2>2, <2>3 DEF CallInOrder
<1>13. \A x \in ToSet(listing'.items) : x \in 1..newest /\ Matches(x, listing'.query)
  BY <1>1, <1>5, <1>8, <1>9 DEF ReaderInOrder, WellTyped
<1>14. GmailInOrder'
  <2>1. GmailBatch(todo, listing.from.after)
    BY <1>3, <1>11 DEF GmailBatch
  <2>2. listing.inspected + 1 + Len(todo) <= ScanLimit /\ Len(todo) <= Batch
    BY <1>2, <1>3, <1>11, PagingAssumption
  <2>3. QED BY <1>1, <1>3, <1>9, <2>1, <2>2 DEF GmailInOrder
<1>15. ImapInOrder' /\ OutlookInOrder'
  BY <1>1 DEF ImapInOrder, OutlookInOrder
<1>16. CallIsSound'
  <2>1. Sound(reading.shown \o listing.items, StillAhead, reading.held, listing.query)
    BY <1>1 DEF CallIsSound, Steadily
  <2>2. \A x : x \in StillAhead <=> x \in ToSet(listing.todo) \/ x \in Younger(listing.from.after)
    BY <1>1, <1>3, StillAheadWithGmail, NoElements
  <2>3. \A x : x \in StillAhead' <=> x \in ToSet(todo) \/ x \in Younger(listing.from.after)
    <3>1. StillAhead' = (ToSet(<<>>) \cup Younger(listing.from.after)) \cup ToSet(todo)
      BY <1>1, <1>3, <1>9 DEF StillAhead, Ahead, AheadIn
    <3>2. QED BY <3>1, NoElements
  <2>4. m \notin Younger(listing.from.after)
    <3>1. m >= listing.from.after
      BY <1>3, <1>11 DEF GmailBatch
    <3>2. m \in Nat /\ listing.from.after \in Nat
      BY <1>2, PlaceFields, PagingAssumption DEF Message
    <3>3. QED BY <3>1, <3>2 DEF Younger
  <2>5. m \in StillAhead /\ m \notin StillAhead'
    BY <1>11, <2>2, <2>3, <2>4
  <2>6. \A x \in StillAhead' : x \in StillAhead
    BY <1>11, <2>2, <2>3
  <2>7. \A x \in reading.held : x \in StillAhead => x \in StillAhead' \/ x = m
    BY <1>11, <2>2, <2>3
  <2>8. m \in reading.held /\ Matches(m, listing.query) => fits
    BY <1>2, <1>5
  <2>9. Sound(IF fits THEN Append(reading.shown \o listing.items, m) ELSE reading.shown \o listing.items,
              StillAhead', reading.held, listing.query)
    BY <1>2, <2>1, <2>5, <2>6, <2>7, <2>8, SoundTakes
  <2>10. QED BY <1>1, <1>8, <1>9, <2>9 DEF CallIsSound
<1>17. CallAdvances'
  <2> SUFFICES ASSUME ~reading.changed
               PROVE  Remaining' + listing'.inspected <= Left(reading.token.inner)'
    BY <1>1 DEF CallAdvances
  <2>1. Left(listing.from) + Len(listing.todo) + listing.inspected <= Left(reading.token.inner)
    BY <1>1 DEF CallAdvances, Remaining
  <2>2. /\ Left(reading.token.inner)' = Left(reading.token.inner)
        /\ Left(listing.from)' = Left(listing.from)
    BY <1>1, <1>9 DEF Left, Older
  <2>3. Remaining' = Left(listing.from) + Len(todo)
    BY <1>1, <1>9, <2>2 DEF Remaining
  <2>4. Left(listing.from) \in Nat /\ Left(reading.token.inner) \in Nat
    BY <1>1, Fields, NoSizeLeft
  <2>5. QED BY <1>2, <1>9, <1>11, <2>1, <2>2, <2>3, <2>4
<1>18. QED BY <1>1, <1>10, <1>12, <1>13, <1>14, <1>15, <1>16, <1>17, CallGoesOn

LEMMA GmailBatchDoneKeeps ==
  ASSUME PagingInv, GmailBatchDone
  PROVE  PagingInv'
<1> DEFINE more == listing.todo # <<>> \/ GmailHasMore
           inner == [listing.from EXCEPT !.pending = listing.todo]
           stop == Full(listing.items) \/ AtLimit(listing.inspected) \/ ~GmailHasMore
<1>1. /\ WellTyped /\ CallInOrder /\ ReaderInOrder /\ GmailInOrder /\ CallIsSound /\ CallAdvances
      /\ server = "gmail" /\ listing.at = "hydrates" /\ (listing.todo = <<>> \/ Full(listing.items))
  BY DEF PagingInv, GmailBatchDone
<1>2. /\ listing \in Call /\ listing.from \in Place /\ listing.todo \in Seq(Message)
      /\ listing.inspected \in Nat /\ listing.size \in 0..Batch /\ Len(listing.items) \in Nat
      /\ listing.from.after \in 0..Arrived + 1
  BY <1>1, Fields, PlaceFields, LenProperties DEF WellTyped
<1>3. /\ GmailBatch(listing.todo, listing.from.after) /\ listing.from.pending = <<>>
      /\ listing.inspected + Len(listing.todo) <= ScanLimit /\ Len(listing.todo) <= Batch
      /\ Len(listing.items) <= listing.size
  BY <1>1 DEF GmailInOrder, CallInOrder
<1>4. /\ inner \in Place /\ inner.pending = listing.todo /\ inner.after = listing.from.after
      /\ inner.local = listing.from.local
  BY <1>2 DEF Place
<1>5. CASE stop
  <2> HIDE DEF inner
  <2>1. Page(listing.items, more, inner, ScanLimited(listing.items, listing.inspected, more))
    BY <1>5 DEF GmailBatchDone, inner
  <2>2. PICK there \in Place : there = inner
    BY <1>4
  <2>3. PICK goes \in BOOLEAN : goes = more
    OBVIOUS
  <2>4. PICK limited \in BOOLEAN : limited = ScanLimited(listing.items, listing.inspected, more)
    BY DEF ScanLimited, AtLimit, Full
  <2>5. Page(listing.items, goes, there, limited)
    BY <2>1, <2>2, <2>3, <2>4
  <2>6. GmailBatch(there.pending, there.after) /\ Len(there.pending) <= Batch /\ Len(there.pending) <= ScanLimit
    BY <1>2, <1>3, <1>4, <2>2, LenProperties, PagingAssumption
  <2>7. \A m : m \in StillAhead <=> m \in ToSet(listing.todo) \/ m \in Younger(listing.from.after)
    BY <1>1, <1>3, StillAheadWithGmail, NoElements
  <2>8. \A m \in Message : m \in Ahead(there) <=> m \in StillAhead
    BY <1>1, <1>4, <2>2, <2>7 DEF Ahead, AheadIn
  <2>9. ~goes => \A m \in Message : m \notin StillAhead
    <3> SUFFICES ASSUME ~goes, NEW m \in Message PROVE m \notin StillAhead
      OBVIOUS
    <3>1. listing.todo = <<>> /\ ~(listing.from.after > 0)
      BY <2>3 DEF GmailHasMore
    <3>2. ~(m < listing.from.after)
      BY <1>2, <3>1, PagingAssumption DEF Message
    <3>3. QED BY <2>7, <3>1, <3>2, NoElements DEF Younger
  <2>10. there.local = listing.from.local /\ server # "outlook"
    BY <1>1, <1>4, <2>2
  <2>11. QED BY <1>1, <2>5, <2>6, <2>8, <2>9, <2>10, PageKeeps
<1>6. CASE ~stop
  <2>1. listing' = [listing EXCEPT !.at = "asks"] /\ UNCHANGED <<server, mail, newest, reading>>
    BY <1>6 DEF GmailBatchDone
  <2>2. /\ listing'.at = "asks" /\ listing'.todo = listing.todo /\ listing'.from = listing.from
        /\ listing'.query = listing.query /\ listing'.size = listing.size /\ listing'.items = listing.items
        /\ listing'.inspected = listing.inspected /\ listing' \in Call
    BY <1>2, <2>1 DEF Call
  <2>3. /\ Len(listing.items) # listing.size /\ ~(listing.inspected >= ScanLimit) /\ listing.todo = <<>>
    BY <1>1, <1>6 DEF Full, AtLimit
  <2>4. CallInOrder'
    BY <1>1, <2>1, <2>2 DEF CallInOrder
  <2>5. \A m \in ToSet(listing'.items) : m \in 1..newest /\ Matches(m, listing'.query)
    BY <1>1, <2>2 DEF ReaderInOrder
  <2>6. Len(listing.items) < listing.size /\ listing.inspected < ScanLimit
    BY <1>2, <1>3, <2>3, PagingAssumption
  <2>7. GmailInOrder'
    BY <1>1, <1>3, <2>1, <2>2, <2>3, <2>6 DEF GmailInOrder
  <2>8. ImapInOrder' /\ OutlookInOrder'
    BY <1>1, <2>1 DEF ImapInOrder, OutlookInOrder
  <2>9. StillAhead' = StillAhead
    BY <1>1, <2>1, <2>2 DEF StillAhead, Ahead, AheadIn
  <2>10. CallIsSound'
    BY <1>1, <2>1, <2>2, <2>9 DEF CallIsSound, Steadily
  <2>11. Left(reading.token.inner)' = Left(reading.token.inner) /\ Left(listing.from)' = Left(listing.from)
    BY <2>1, <2>2 DEF Left, Older
  <2>12. CallAdvances'
    BY <1>1, <2>1, <2>2, <2>11 DEF CallAdvances, Remaining
  <2>13. QED BY <2>1, <2>2, <2>4, <2>5, <2>7, <2>8, <2>10, <2>12, CallGoesOn
<1>7. QED BY <1>5, <1>6

------------------------------------------------------------------------------
(* IMAP *)

LEMMA Folders ==
  /\ \A m \in Message : FolderOf(m) \in Folder
  /\ Folder \subseteq Nat
  /\ \A f \in Folder : f + 1 \notin Folder => f = LastFolder
  BY PagingAssumption DEF FolderOf, Folder, Message

\* The UIDs of a folder, listed: all that are there, from the newest on.
LEMMA UidsOf ==
  ASSUME WellTyped, NEW f \in Folder, NEW upper \in 0..Arrived + 1,
         NEW uids, uids = NewestFirst(InFolder(mail, f, upper))
  PROVE  /\ uids \in Seq(Message) /\ Descending(uids) /\ Len(uids) = Cardinality(InFolder(mail, f, upper))
         /\ \A m : m \in ToSet(uids) <=> m \in InFolder(mail, f, upper)
<1> DEFINE s == InFolder(mail, f, upper)
<1>1. mail \subseteq Message /\ mail \subseteq Nat /\ IsFiniteSet(mail)
  BY Fields
<1>2. s \in SUBSET mail /\ s \in SUBSET Nat
  BY <1>1 DEF InFolder
<1>3. IsFiniteSet(s)
  BY <1>1, <1>2, FS_Subset
<1> HIDE DEF s
<1>4. /\ uids \in Seq(s) /\ Len(uids) = Cardinality(s) /\ Descending(uids)
      /\ \A m \in s : \E i \in 1..Len(uids) : uids[i] = m
  BY <1>2, <1>3, NewestFirstIs DEF s
<1>5. uids \in Seq(Message)
  <2>1. s \subseteq Message /\ uids \in Seq(s)
    BY <1>1, <1>2, <1>4
  <2>2. QED BY ONLY <2>1, SeqMonotonic
<1>6. /\ \A m \in ToSet(uids) : m \in s
      /\ \A i \in 1..Len(uids) : uids[i] \in ToSet(uids)
  BY <1>4, Elements
<1>7. QED BY <1>4, <1>5, <1>6 DEF s

LEMMA NoneNewerThanTheFirst ==
  ASSUME NEW s \in Seq(Message), Descending(s), s # <<>>
  PROVE  Head(s) \in ToSet(s) /\ \A x \in ToSet(s) : x <= Head(s)
<1>1. /\ \A x : x \in ToSet(s) <=> x = Head(s) \/ x \in ToSet(Tail(s))
      /\ \A x \in ToSet(Tail(s)) : x < Head(s)
      /\ Head(s) \in Message
  BY WithoutTheFirst
<1>2. \A x \in ToSet(s) : x \in Nat
  BY Elements, PagingAssumption DEF Message
<1>3. QED BY <1>1, <1>2

LEMMA LeftWithImap ==
  ASSUME WellTyped, server = "imap", NEW place \in Place
  PROVE  /\ Left(place) = Cardinality(LaterFolders(mail, place.folder)) +
                          Cardinality(InFolder(mail, place.folder, place.upper))
         /\ Cardinality(LaterFolders(mail, place.folder)) \in Nat
         /\ Cardinality(InFolder(mail, place.folder, place.upper)) \in Nat
         /\ IsFiniteSet(InFolder(mail, place.folder, place.upper))
<1> DEFINE L == LaterFolders(mail, place.folder)
           I == InFolder(mail, place.folder, place.upper)
           U == {m \in mail : FolderOf(m) > place.folder \/ (FolderOf(m) = place.folder /\ m <= place.upper)}
<1>1. mail \subseteq Message /\ IsFiniteSet(mail) /\ place.folder \in Folder
  BY Fields, PlaceFields
<1>2. L \in SUBSET mail /\ I \in SUBSET mail /\ U = L \cup I
  BY DEF LaterFolders, InFolder
<1>3. L \cap I = {}
  <2> SUFFICES ASSUME NEW m \in mail, FolderOf(m) > place.folder, FolderOf(m) = place.folder PROVE FALSE
    BY DEF LaterFolders, InFolder
  <2>1. place.folder \in Nat
    BY <1>1, Folders
  <2>2. QED BY <2>1
<1>4. Left(place) = Cardinality(U)
  BY DEF Left
<1> HIDE DEF L, I, U
<1>5. IsFiniteSet(L) /\ IsFiniteSet(I) /\ Cardinality(L) \in Nat /\ Cardinality(I) \in Nat
  <2>1. IsFiniteSet(L) /\ IsFiniteSet(I)
    BY <1>1, <1>2, FS_Subset
  <2>2. QED BY <2>1, FS_CardinalityType
<1>6. Cardinality(L \cup I) = Cardinality(L) + Cardinality(I) - Cardinality(L \cap I)
  BY <1>5, FS_Union
<1>7. Cardinality(L \cap I) = 0
  BY <1>3, FS_EmptySet
<1>8. QED BY <1>2, <1>4, <1>5, <1>6, <1>7 DEF L, I

\* In a call of IMAP's: the rest of the folder whose turn it is and the folders after it.
LEMMA StillAheadWithImap ==
  ASSUME server = "imap"
  PROVE  /\ listing.at = "fetches" =>
              \A m : m \in StillAhead <=>
                       \/ m \in LaterFolders(Message, listing.from.folder)
                       \/ listing.todo # <<>> /\ m \in InFolder(Message, listing.from.folder, Head(listing.todo))
         /\ listing.at # "fetches" =>
              \A m : m \in StillAhead <=>
                       \/ m \in LaterFolders(Message, listing.from.folder)
                       \/ m \in InFolder(Message, listing.from.folder, listing.from.upper)
  BY DEF StillAhead, Ahead, AheadIn

LEMMA ImapSearchesKeeps ==
  ASSUME PagingInv, ImapSearches
  PROVE  PagingInv'
<1>1. /\ WellTyped /\ CallInOrder /\ ReaderInOrder /\ GmailInOrder /\ CallIsSound /\ CallAdvances
      /\ server = "imap" /\ listing.at = "asks" /\ UNCHANGED <<server, mail, newest, reading>>
  BY DEF PagingInv, ImapSearches
<1>2. /\ listing \in Call /\ listing.from \in Place /\ listing.inspected \in Nat
      /\ mail \subseteq Message /\ mail \subseteq 1..newest /\ reading.held \subseteq mail
      /\ listing.from.folder \in Folder /\ listing.from.upper \in 0..Arrived + 1
  BY <1>1, Fields, PlaceFields DEF WellTyped, ReaderInOrder
<1>3. PICK f \in Folder, upper \in 0..Arrived + 1 : f = listing.from.folder /\ upper = listing.from.upper
  BY <1>2
<1>4. PICK uids : uids = NewestFirst(InFolder(mail, f, upper))
  OBVIOUS
<1>5. listing' = [listing EXCEPT !.at = "fetches", !.todo = uids]
  BY <1>3, <1>4 DEF ImapSearches, InFolder
<1>6. /\ uids \in Seq(Message) /\ Descending(uids) /\ Len(uids) = Cardinality(InFolder(mail, f, upper))
      /\ \A m : m \in ToSet(uids) <=> m \in InFolder(mail, f, upper)
  BY <1>1, <1>4, UidsOf
<1>7. /\ listing'.at = "fetches" /\ listing'.todo = uids /\ listing'.from = listing.from
      /\ listing'.query = listing.query /\ listing'.size = listing.size /\ listing'.items = listing.items
      /\ listing'.inspected = listing.inspected /\ listing' \in Call
  BY <1>2, <1>5, <1>6 DEF Call
<1>8. CallInOrder'
  BY <1>1, <1>7 DEF CallInOrder
<1>9. \A m \in ToSet(listing'.items) : m \in 1..newest /\ Matches(m, listing'.query)
  BY <1>1, <1>7 DEF ReaderInOrder
<1>10. GmailInOrder' /\ OutlookInOrder'
  BY <1>1 DEF GmailInOrder, OutlookInOrder
<1>11. \A b : \A k : \A m : m \in InFolder(b, f, k) <=> m \in b /\ FolderOf(m) = f /\ m <= k
  BY DEF InFolder
<1>12. uids # <<>> => /\ Head(uids) \in ToSet(uids) /\ Head(uids) <= upper
                      /\ \A x \in ToSet(uids) : x <= Head(uids)
  BY <1>6, <1>11, NoneNewerThanTheFirst
<1>13. ASSUME uids # <<>>, NEW m \in Message, m <= Head(uids) PROVE m <= upper
  <2>1. m \in Nat /\ upper \in Nat /\ Head(uids) \in Nat
    BY <1>2, <1>6, <1>11, <1>12, <1>13, PagingAssumption DEF Message
  <2>2. QED BY <1>12, <1>13, <2>1
<1>14. ImapInOrder'
  <2>1. \A m \in ToSet(uids) : m \in 1..newest /\ FolderOf(m) = f
    BY <1>2, <1>6, <1>11
  <2>2. uids # <<>> => InFolder(mail, f, Head(uids)) \subseteq ToSet(uids)
    BY <1>2, <1>6, <1>11, <1>13
  <2>3. QED BY <1>1, <1>3, <1>6, <1>7, <2>1, <2>2 DEF ImapInOrder
<1>15. CallIsSound'
  <2>1. Sound(reading.shown \o listing.items, StillAhead, reading.held, listing.query)
    BY <1>1 DEF CallIsSound, Steadily
  <2>2. \A m : m \in StillAhead <=> m \in LaterFolders(Message, f) \/ m \in InFolder(Message, f, upper)
    BY <1>1, <1>3, StillAheadWithImap
  <2>3. \A m : m \in StillAhead' <=> \/ m \in LaterFolders(Message, f)
                                     \/ uids # <<>> /\ m \in InFolder(Message, f, Head(uids))
    BY <1>1, <1>3, <1>7 DEF StillAhead, Ahead, AheadIn
  <2>4. \A m \in StillAhead' : m \in StillAhead
    BY <1>11, <1>13, <2>2, <2>3
  <2>5. \A m \in reading.held : m \in StillAhead => m \in StillAhead'
    <3> SUFFICES ASSUME NEW m \in reading.held, m \in InFolder(Message, f, upper)
                 PROVE  uids # <<>> /\ m \in InFolder(Message, f, Head(uids))
      BY <2>2, <2>3
    <3>1. m \in ToSet(uids)
      BY <1>2, <1>6, <1>11
    <3>2. uids # <<>>
      BY <3>1, NoElements
    <3>3. QED BY <1>11, <1>12, <3>1, <3>2
  <2>6. Sound(reading.shown \o listing.items, StillAhead', reading.held, listing.query)
    BY <2>1, <2>4, <2>5, SoundWithLess
  <2>7. QED BY <1>1, <1>7, <2>6 DEF CallIsSound
<1>16. CallAdvances'
  <2> SUFFICES ASSUME ~reading.changed
               PROVE  Remaining' + listing.inspected <= Left(reading.token.inner)'
    BY <1>1, <1>7 DEF CallAdvances
  <2>1. Left(listing.from) + listing.inspected <= Left(reading.token.inner)
    BY <1>1 DEF CallAdvances, Remaining
  <2>2. Left(listing.from) = Cardinality(LaterFolders(mail, f)) + Cardinality(InFolder(mail, f, upper))
    BY <1>1, <1>2, <1>3, LeftWithImap
  <2>3. Left(reading.token.inner)' = Left(reading.token.inner)
    BY <1>1 DEF Left, Older
  <2>4. Remaining' = Cardinality(LaterFolders(mail, f)) + Len(uids)
    BY <1>1, <1>3, <1>7 DEF Remaining
  <2>5. QED BY <1>6, <2>1, <2>2, <2>3, <2>4
<1>17. QED BY <1>1, <1>7, <1>8, <1>9, <1>10, <1>14, <1>15, <1>16, CallGoesOn

LEMMA ImapFetchesKeeps ==
  ASSUME PagingInv, ImapFetches
  PROVE  PagingInv'
<1>1. /\ WellTyped /\ CallInOrder /\ ReaderInOrder /\ GmailInOrder /\ ImapInOrder /\ OutlookInOrder
      /\ CallIsSound /\ CallAdvances
      /\ server = "imap" /\ listing.at = "fetches" /\ listing.todo # <<>>
  BY DEF PagingInv, ImapFetches
<1>2. /\ listing \in Call /\ listing.from \in Place /\ listing.todo \in Seq(Message)
      /\ listing.items \in Seq(Message) /\ listing.inspected \in Nat /\ listing.size \in 0..Batch
      /\ mail \subseteq Message /\ reading.held \subseteq mail
      /\ reading.shown \in Seq(Message) /\ reading.shown \o listing.items \in Seq(Message)
      /\ listing.from.folder \in Folder
  BY <1>1, Fields, PlaceFields DEF WellTyped, ReaderInOrder
<1>3. PICK m \in Message, todo \in Seq(Message) : m = Head(listing.todo) /\ todo = Tail(listing.todo)
  BY <1>1, <1>2, WithoutTheFirst
<1>4. PICK f \in Folder : f = listing.from.folder
  BY <1>2
<1>5. PICK fits \in BOOLEAN : fits <=> (m \in mail /\ Matches(m, listing.query))
  OBVIOUS
<1>6. /\ Descending(listing.todo)
      /\ \A x \in ToSet(listing.todo) : x \in 1..newest /\ FolderOf(x) = f
      /\ InFolder(mail, f, m) \subseteq ToSet(listing.todo)
  BY <1>1, <1>3, <1>4 DEF ImapInOrder
<1>7. /\ Len(todo) = Len(listing.todo) - 1 /\ Len(listing.todo) \in Nat \ {0} /\ m \notin ToSet(todo)
      /\ \A x : x \in ToSet(listing.todo) <=> x = m \/ x \in ToSet(todo)
      /\ Descending(todo) /\ \A x \in ToSet(todo) : x < m
  <2>1. IsInjective(listing.todo)
    <3>1. listing.todo \in Seq(Int)
      <4>1. Message \subseteq Int
        BY PagingAssumption DEF Message
      <4>2. QED BY ONLY <1>2, <4>1, SeqMonotonic
    <3>2. QED BY <1>6, <3>1, DescendingIsInjective
  <2>2. QED BY <1>1, <1>2, <1>3, <1>6, <2>1, WithoutTheFirst, LenProperties
<1>8. \A x : x \in StillAhead <=> x \in LaterFolders(Message, f) \/ x \in InFolder(Message, f, m)
  BY <1>1, <1>3, <1>4, StillAheadWithImap
<1> DEFINE stop == AtLimit(listing.inspected) \/ (fits /\ Full(listing.items))
           here == [listing.from EXCEPT !.upper = m]
<1>9. CASE stop
  <2>1. /\ here \in Place /\ here.upper = m /\ here.folder = f /\ here.local = listing.from.local
    <3>1. m \in 0..Arrived + 1
      BY PagingAssumption DEF Message
    <3>2. QED BY <1>2, <1>4, <3>1 DEF Place
  <2>2. Page(listing.items, TRUE, here, ScanLimited(listing.items, listing.inspected, TRUE))
    BY <1>3, <1>5, <1>9 DEF ImapFetches
  <2> HIDE DEF here
  <2>3. PICK there \in Place : there = here
    BY <2>1
  <2>4. PICK limited \in BOOLEAN : limited = ScanLimited(listing.items, listing.inspected, TRUE)
    BY DEF ScanLimited, AtLimit, Full
  <2>5. PICK more \in BOOLEAN : more = TRUE
    OBVIOUS
  <2>6. Page(listing.items, more, there, limited) /\ more
    BY <2>2, <2>3, <2>4, <2>5
  <2>7. \A x \in Message : x \in Ahead(there) <=> x \in StillAhead
    BY <1>1, <1>8, <2>1, <2>3 DEF Ahead, AheadIn
  <2>8. there.local = listing.from.local /\ server # "gmail" /\ server # "outlook" /\ listing.at # "none"
    BY <1>1, <2>1, <2>3
  <2>9. QED BY <2>6, <2>7, <2>8, PageKeeps
<1>10. CASE ~stop
  <2>1. PICK items : items = IF fits THEN Append(listing.items, m) ELSE listing.items
    OBVIOUS
  <2>2. /\ listing' = [listing EXCEPT !.todo = todo, !.inspected = listing.inspected + 1, !.items = items]
        /\ UNCHANGED <<server, mail, newest, reading>>
    BY <1>2, <1>3, <1>5, <1>10, <2>1 DEF ImapFetches, Call
  <2>3. /\ items \in Seq(Message) /\ Len(listing.items) \in Nat /\ Len(items) \in Nat
        /\ Len(items) = Len(listing.items) \/ (fits /\ Len(items) = Len(listing.items) + 1)
        /\ \A x \in ToSet(items) : x \in ToSet(listing.items) \/ (fits /\ x = m)
        /\ reading.shown \o items =
             IF fits THEN Append(reading.shown \o listing.items, m) ELSE reading.shown \o listing.items
    <3>1. PICK shown \in Seq(Message), before \in Seq(Message) : shown = reading.shown /\ before = listing.items
      BY <1>2
    <3>2. items = IF fits THEN Append(before, m) ELSE before
      BY <2>1, <3>1
    <3>3. /\ items \in Seq(Message) /\ Len(before) \in Nat /\ Len(items) \in Nat
          /\ Len(items) = Len(before) \/ (fits /\ Len(items) = Len(before) + 1)
          /\ \A x \in ToSet(items) : x \in ToSet(before) \/ (fits /\ x = m)
          /\ shown \o items = IF fits THEN Append(shown \o before, m) ELSE shown \o before
      <4>1. Len(before) \in Nat
        BY LenProperties
      <4>2. CASE fits
        <5>1. items = Append(before, m)
          BY <3>2, <4>2
        <5>2. /\ items \in Seq(Message) /\ Len(items) = Len(before) + 1
              /\ \A x \in ToSet(items) : x \in ToSet(before) \/ x = m
              /\ shown \o items = Append(shown \o before, m)
          BY <5>1, ItemTaken
        <5>3. QED BY <4>1, <4>2, <5>2
      <4>3. CASE ~fits
        BY <3>2, <4>1, <4>3
      <4>4. QED BY <4>2, <4>3
    <3>4. QED BY <3>1, <3>3
  <2>4. /\ listing'.at = "fetches" /\ listing'.todo = todo /\ listing'.from = listing.from
        /\ listing'.query = listing.query /\ listing'.size = listing.size /\ listing'.items = items
        /\ listing'.inspected = listing.inspected + 1
    BY <1>1, <1>2, <2>2 DEF Call
  <2>5. listing' \in Call
    <3>1. items \in Seq(Message) /\ listing.inspected + 1 \in Nat /\ listing \in Call
      BY <1>2, <2>3
    <3>2. QED BY <2>2, <3>1 DEF Call
  <2>6. CallInOrder'
    <3>1. /\ Len(listing.items) <= listing.size /\ Len(listing.items) <= listing.inspected
          /\ listing.inspected <= ScanLimit
      BY <1>1 DEF CallInOrder
    <3>2. ~(listing.inspected >= ScanLimit) /\ (fits => Len(listing.items) # listing.size)
      BY <1>10 DEF AtLimit, Full
    <3>3. Len(items) <= listing.size /\ Len(items) <= listing.inspected + 1
      BY <1>2, <2>3, <3>1, <3>2
    <3>4. listing.inspected + 1 <= ScanLimit
      BY <1>2, <3>2, PagingAssumption
    <3>5. QED BY <1>1, <2>2, <2>4, <3>3, <3>4 DEF CallInOrder
  <2>7. \A x \in ToSet(listing'.items) : x \in 1..newest /\ Matches(x, listing'.query)
    BY <1>1, <1>5, <2>3, <2>4 DEF ReaderInOrder, WellTyped
  <2>8. GmailInOrder' /\ OutlookInOrder'
    BY <1>1, <2>2 DEF GmailInOrder, OutlookInOrder
  <2>9. \A b : \A k : \A x : x \in InFolder(b, f, k) <=> x \in b /\ FolderOf(x) = f /\ x <= k
    BY DEF InFolder
  <2>10. todo # <<>> => /\ Head(todo) \in ToSet(todo) /\ Head(todo) < m
                        /\ \A x \in ToSet(todo) : x <= Head(todo)
    BY <1>7, NoneNewerThanTheFirst
  <2>11. ASSUME todo # <<>>, NEW x \in Message, x <= Head(todo) PROVE x <= m /\ x # m
    <3>1. Head(todo) \in Message
      BY <2>10, <2>11, Elements
    <3>2. x \in Nat /\ m \in Nat /\ Head(todo) \in Nat
      BY <3>1, PagingAssumption DEF Message
    <3>3. QED BY <2>10, <2>11, <3>2
  <2>12. ImapInOrder'
    <3>1. \A x \in ToSet(todo) : x \in 1..newest /\ FolderOf(x) = f
      BY <1>6, <1>7
    <3>2. ASSUME todo # <<>> PROVE InFolder(mail, f, Head(todo)) \subseteq ToSet(todo)
      <4> SUFFICES ASSUME NEW x \in InFolder(mail, f, Head(todo)) PROVE x \in ToSet(todo)
        OBVIOUS
      <4>1. x \in mail /\ FolderOf(x) = f /\ x <= Head(todo) /\ x \in Message
        BY <1>2, <2>9
      <4>2. x \in InFolder(mail, f, m) /\ x # m
        BY <2>9, <2>11, <3>2, <4>1
      <4>3. QED BY <1>6, <1>7, <4>2
    <3>3. QED BY <1>1, <1>4, <1>7, <2>2, <2>4, <3>1, <3>2 DEF ImapInOrder
  <2>13. CallIsSound'
    <3>1. Sound(reading.shown \o listing.items, StillAhead, reading.held, listing.query)
      BY <1>1 DEF CallIsSound, Steadily
    <3>2. \A x : x \in StillAhead' <=> \/ x \in LaterFolders(Message, f)
                                       \/ todo # <<>> /\ x \in InFolder(Message, f, Head(todo))
      BY <1>1, <1>4, <2>2, <2>4 DEF StillAhead, Ahead, AheadIn
    <3>3. FolderOf(m) = f /\ m \notin LaterFolders(Message, f) /\ m \in InFolder(Message, f, m)
      <4>1. FolderOf(m) = f /\ f \in Nat /\ m \in Nat
        BY <1>6, <1>7, Folders, PagingAssumption DEF Message
      <4>2. QED BY <2>9, <4>1 DEF LaterFolders
    <3>4. m \in StillAhead /\ m \notin StillAhead'
      BY <1>8, <2>9, <2>11, <3>2, <3>3
    <3>5. \A x \in StillAhead' : x \in StillAhead
      BY <1>8, <2>9, <2>11, <3>2
    <3>6. \A x \in reading.held : x \in StillAhead => x \in StillAhead' \/ x = m
      <4> SUFFICES ASSUME NEW x \in reading.held, x \in InFolder(Message, f, m), x # m
                   PROVE  todo # <<>> /\ x \in InFolder(Message, f, Head(todo))
        BY <1>8, <3>2
      <4>1. x \in InFolder(mail, f, m)
        BY <1>2, <2>9
      <4>2. x \in ToSet(todo)
        BY <1>6, <1>7, <4>1
      <4>3. todo # <<>>
        BY <4>2, NoElements
      <4>4. QED BY <2>9, <2>10, <4>2, <4>3
    <3>7. m \in reading.held /\ Matches(m, listing.query) => fits
      BY <1>2, <1>5
    <3>8. Sound(IF fits THEN Append(reading.shown \o listing.items, m) ELSE reading.shown \o listing.items,
                StillAhead', reading.held, listing.query)
      BY <1>2, <3>1, <3>4, <3>5, <3>6, <3>7, SoundTakes
    <3>9. QED BY <1>1, <2>2, <2>3, <2>4, <3>8 DEF CallIsSound
  <2>14. CallAdvances'
    <3> SUFFICES ASSUME ~reading.changed
                 PROVE  Remaining' + listing'.inspected <= Left(reading.token.inner)'
      BY <2>2 DEF CallAdvances
    <3>1. /\ Remaining + listing.inspected <= Left(reading.token.inner)
          /\ Remaining = Cardinality(LaterFolders(mail, f)) + Len(listing.todo)
      BY <1>1, <1>4 DEF CallAdvances, Remaining
    <3>2. Left(reading.token.inner)' = Left(reading.token.inner)
      BY <2>2 DEF Left, Older
    <3>3. Remaining' = Cardinality(LaterFolders(mail, f)) + Len(todo)
      BY <1>1, <1>4, <2>2, <2>4 DEF Remaining
    <3>4. Cardinality(LaterFolders(mail, f)) \in Nat /\ Left(reading.token.inner) \in Nat
      BY <1>1, <1>2, <1>4, Fields, NoSizeLeft, LeftWithImap
    <3>5. QED BY <1>2, <1>7, <2>4, <3>1, <3>2, <3>3, <3>4
  <2>15. QED BY <2>2, <2>5, <2>6, <2>7, <2>8, <2>12, <2>13, <2>14, CallGoesOn
<1>11. QED BY <1>9, <1>10

LEMMA ImapFolderDoneKeeps ==
  ASSUME PagingInv, ImapFolderDone
  PROVE  PagingInv'
<1>1. /\ WellTyped /\ CallInOrder /\ ReaderInOrder /\ GmailInOrder /\ ImapInOrder /\ OutlookInOrder
      /\ CallIsSound /\ CallAdvances
      /\ server = "imap" /\ listing.at = "fetches" /\ listing.todo = <<>>
  BY DEF PagingInv, ImapFolderDone
<1>2. /\ listing \in Call /\ listing.from \in Place /\ mail \subseteq Message
      /\ listing.from.folder \in Folder /\ Arrived \in Nat
  BY <1>1, Fields, PlaceFields, PagingAssumption DEF WellTyped
<1>3. PICK f \in Folder : f = listing.from.folder
  BY <1>2
<1>4. \A m : m \in StillAhead <=> m \in LaterFolders(Message, f)
  BY <1>1, <1>3, StillAheadWithImap
<1>5. CASE f + 1 \in Folder
  <2> DEFINE from == [listing.from EXCEPT !.folder = f + 1, !.upper = Arrived + 1]
  <2>1. /\ listing' = [listing EXCEPT !.at = "asks", !.from = from]
        /\ UNCHANGED <<server, mail, newest, reading>>
    BY <1>2, <1>3, <1>5 DEF ImapFolderDone, Call, Place
  <2>2. /\ from \in Place /\ from.folder = f + 1 /\ from.upper = Arrived + 1 /\ from.local = listing.from.local
    <3>1. Arrived + 1 \in 0..Arrived + 1
      BY <1>2
    <3>2. QED BY <1>2, <1>5, <3>1 DEF Place
  <2> HIDE DEF from
  <2>3. /\ listing'.at = "asks" /\ listing'.todo = <<>> /\ listing'.from = from
        /\ listing'.query = listing.query /\ listing'.size = listing.size /\ listing'.items = listing.items
        /\ listing'.inspected = listing.inspected /\ listing' \in Call
    BY <1>1, <1>2, <2>1, <2>2 DEF Call
  <2>4. CallInOrder'
    BY <1>1, <2>1, <2>2, <2>3 DEF CallInOrder
  <2>5. \A m \in ToSet(listing'.items) : m \in 1..newest /\ Matches(m, listing'.query)
    BY <1>1, <2>3 DEF ReaderInOrder
  <2>6. GmailInOrder' /\ ImapInOrder' /\ OutlookInOrder'
    BY <1>1, <2>1, <2>3 DEF GmailInOrder, ImapInOrder, OutlookInOrder
  <2>7. \A m \in Message : /\ m \in LaterFolders(Message, f) <=>
                                m \in LaterFolders(Message, f + 1) \/ m \in InFolder(Message, f + 1, Arrived + 1)
                           /\ FolderOf(m) > f <=>
                                FolderOf(m) > f + 1 \/ (FolderOf(m) = f + 1 /\ m <= Arrived + 1)
    <3> SUFFICES ASSUME NEW m \in Message
                 PROVE  FolderOf(m) > f <=> FolderOf(m) > f + 1 \/ (FolderOf(m) = f + 1 /\ m <= Arrived + 1)
      BY DEF LaterFolders, InFolder
    <3>1. FolderOf(m) \in Nat /\ f \in Nat
      BY Folders
    <3>2. m <= Arrived + 1
      BY <1>2 DEF Message
    <3>3. QED BY <3>1, <3>2
  <2>8. CallIsSound'
    <3>1. Sound(reading.shown \o listing.items, StillAhead, reading.held, listing.query)
      BY <1>1 DEF CallIsSound, Steadily
    <3>2. \A m : m \in StillAhead' <=>
                   m \in LaterFolders(Message, f + 1) \/ m \in InFolder(Message, f + 1, Arrived + 1)
      BY <1>1, <2>1, <2>2, <2>3 DEF StillAhead, Ahead, AheadIn
    <3>3. \A m : m \in LaterFolders(Message, f + 1) \/ m \in InFolder(Message, f + 1, Arrived + 1) => m \in Message
      BY DEF LaterFolders, InFolder
    <3>4. \A m : m \in LaterFolders(Message, f) => m \in Message
      BY DEF LaterFolders
    <3>5. \A m : m \in StillAhead' <=> m \in StillAhead
      BY <1>4, <2>7, <3>2, <3>3, <3>4
    <3>6. Sound(reading.shown \o listing.items, StillAhead', reading.held, listing.query)
      BY <3>1, <3>5, SoundWithLess
    <3>7. QED BY <1>1, <2>1, <2>3, <3>6 DEF CallIsSound
  <2>9. CallAdvances'
    <3> SUFFICES ASSUME ~reading.changed
                 PROVE  Remaining' + listing.inspected <= Left(reading.token.inner)'
      BY <2>1, <2>3 DEF CallAdvances
    <3>1. /\ Remaining + listing.inspected <= Left(reading.token.inner)
          /\ Remaining = Cardinality(LaterFolders(mail, f)) + Len(<<>>)
      BY <1>1, <1>3 DEF CallAdvances, Remaining
    <3>2. Left(reading.token.inner)' = Left(reading.token.inner)
      BY <2>1 DEF Left, Older
    <3>3. Left(listing.from)' = Left(from)
      BY <2>1, <2>3 DEF Left, Older
    <3>4. Left(from) = Cardinality(LaterFolders(mail, f))
      <4>1. LaterFolders(mail, f) =
              {m \in mail : FolderOf(m) > f + 1 \/ (FolderOf(m) = f + 1 /\ m <= Arrived + 1)}
        BY <1>2, <2>7 DEF LaterFolders
      <4>2. QED BY <1>1, <2>2, <4>1 DEF Left
    <3>5. Remaining' = Left(from)
      BY <1>1, <2>1, <2>3, <3>3 DEF Remaining
    <3>6. Len(<<>>) = 0 /\ Cardinality(LaterFolders(mail, f)) \in Nat
      BY <1>1, <1>2, <1>3, LeftWithImap, EmptySeq
    <3>7. QED BY <3>1, <3>2, <3>4, <3>5, <3>6
  <2>10. QED BY <2>1, <2>3, <2>4, <2>5, <2>6, <2>8, <2>9, CallGoesOn
<1>6. CASE f + 1 \notin Folder
  <2>1. Page(listing.items, FALSE, Beginning, FALSE)
    BY <1>3, <1>6 DEF ImapFolderDone
  <2>2. PICK more \in BOOLEAN, limited \in BOOLEAN, there \in Place :
          more = FALSE /\ limited = FALSE /\ there = Beginning
    BY Defaults
  <2>3. Page(listing.items, more, there, limited) /\ ~more
    BY <2>1, <2>2
  <2>4. \A m \in Message : m \notin StillAhead
    <3> SUFFICES ASSUME NEW m \in Message, FolderOf(m) > f PROVE FALSE
      BY <1>4 DEF LaterFolders
    <3>1. f = LastFolder /\ FolderOf(m) \in Folder
      BY <1>6, Folders
    <3>2. QED BY <3>1, PagingAssumption DEF Folder
  <2>5. listing.at # "none"
    BY <1>1
  <2>6. QED BY <2>3, <2>4, <2>5, PageKeeps
<1>7. QED BY <1>5, <1>6

------------------------------------------------------------------------------
(* Outlook *)

\* The list of the mailbox, message by message.
LEMMA TheWholeList ==
  ASSUME WellTyped
  PROVE  /\ NewestFirst(mail) \in Seq(Message) /\ Len(NewestFirst(mail)) = Cardinality(mail)
         /\ Cardinality(mail) \in Nat
         /\ \A i \in 1..Cardinality(mail) : NewestFirst(mail)[i] \in mail
         /\ \A i, j \in 1..Cardinality(mail) : NewestFirst(mail)[i] = NewestFirst(mail)[j] => i = j
<1> DEFINE list == NewestFirst(mail)
<1>1. mail \subseteq Message /\ mail \subseteq Nat /\ mail \subseteq Int /\ IsFiniteSet(mail)
  BY Fields
<1>2. list \in Seq(mail) /\ Len(list) = Cardinality(mail) /\ Descending(list)
  BY <1>1, NewestFirstIs
<1> HIDE DEF list
<1>3. list \in Seq(Message) /\ list \in Seq(Int)
  <2>1. mail \subseteq Message /\ mail \subseteq Int /\ list \in Seq(mail)
    BY <1>1, <1>2
  <2>2. QED BY ONLY <2>1, SeqMonotonic
<1>4. IsInjective(list) /\ DOMAIN list = 1..Len(list)
  BY <1>2, <1>3, DescendingIsInjective, LenProperties
<1>5. \A i \in 1..Len(list) : list[i] \in mail
  BY <1>2, ElementOfSeq
<1>6. Cardinality(mail) \in Nat
  BY <1>1, FS_CardinalityType
<1>7. \A i, j \in 1..Len(list) : list[i] = list[j] => i = j
  BY <1>4 DEF IsInjective
<1>8. QED BY <1>2, <1>3, <1>5, <1>6, <1>7 DEF list

\* A page of a list from an offset on: what follows in the list, to the end of the page.
LEMMA PageOfList ==
  ASSUME NEW S, NEW list \in Seq(S), NEW skip \in Nat, NEW size \in Nat \ {0}, NEW offset \in Nat
  PROVE  LET page == SubSeq(list, skip + 1, Least(skip + size, Len(list)))
             todo == SubSeq(page, offset + 1, Len(page))
         IN  /\ Len(page) \in Nat
             /\ offset <= Len(page) =>
                  /\ todo \in Seq(S) /\ Len(todo) \in Nat
                  /\ \A i \in 1..Len(todo) : todo[i] = list[skip + offset + i]
                  /\ skip + offset <= Len(list) =>
                       skip + offset + Len(todo) = Least(skip + size, Len(list))
<1> DEFINE page == SubSeq(list, skip + 1, Least(skip + size, Len(list)))
           todo == SubSeq(page, offset + 1, Len(page))
<1>1. PICK n \in Nat : n = Len(list)
  BY LenProperties
<1>2. PICK e \in Nat : e = Least(skip + size, n)
  BY DEF Least
<1>3. e <= n /\ e <= skip + size /\ (e = n \/ e = skip + size)
  BY <1>2 DEF Least
<1>4. \A i \in skip + 1..e : list[i] \in S
  <2>1. \A i \in 1..n : list[i] \in S
    BY <1>1, ElementOfSeq
  <2>2. QED BY <1>3, <2>1
<1>5. /\ page \in Seq(S) /\ Len(page) = IF skip + 1 <= e THEN e - (skip + 1) + 1 ELSE 0
      /\ \A i \in 1..e - (skip + 1) + 1 : page[i] = list[skip + 1 + i - 1]
  <2>1. skip + 1 \in Int /\ e \in Int
    OBVIOUS
  <2>2. page = SubSeq(list, skip + 1, e)
    BY <1>1, <1>2
  <2> HIDE DEF page
  <2>3. /\ SubSeq(list, skip + 1, e) \in Seq(S)
        /\ Len(SubSeq(list, skip + 1, e)) = IF skip + 1 <= e THEN e - (skip + 1) + 1 ELSE 0
        /\ \A i \in 1..e - (skip + 1) + 1 : SubSeq(list, skip + 1, e)[i] = list[skip + 1 + i - 1]
    BY ONLY <1>4, <2>1, SubSeqProperties
  <2>4. QED BY <2>2, <2>3
<1> HIDE DEF page, todo
<1>6. PICK k \in Nat : k = Len(page)
  BY <1>5, LenProperties
<1>7. /\ k = IF skip + 1 <= e THEN e - skip ELSE 0
      /\ \A i \in 1..k : page[i] = list[skip + i]
  <2>1. k = IF skip + 1 <= e THEN e - skip ELSE 0
    BY <1>5, <1>6
  <2>2. \A i \in 1..k : i \in 1..e - (skip + 1) + 1 /\ skip + 1 + i - 1 = skip + i
    BY <2>1
  <2>3. QED BY <1>5, <2>1, <2>2
<1>8. ASSUME offset <= k
      PROVE  /\ todo \in Seq(S) /\ Len(todo) = k - offset
             /\ \A i \in 1..Len(todo) : todo[i] = list[skip + offset + i]
  <2>1. \A i \in offset + 1..k : page[i] \in S
    <3>1. \A i \in 1..k : page[i] \in S
      BY <1>5, <1>6, ElementOfSeq
    <3>2. QED BY <3>1
  <2>2. /\ todo \in Seq(S) /\ Len(todo) = IF offset + 1 <= k THEN k - (offset + 1) + 1 ELSE 0
        /\ \A i \in 1..k - (offset + 1) + 1 : todo[i] = page[offset + 1 + i - 1]
    <3>1. offset + 1 \in Int /\ k \in Int
      OBVIOUS
    <3>2. /\ SubSeq(page, offset + 1, k) \in Seq(S)
          /\ Len(SubSeq(page, offset + 1, k)) = IF offset + 1 <= k THEN k - (offset + 1) + 1 ELSE 0
          /\ \A i \in 1..k - (offset + 1) + 1 : SubSeq(page, offset + 1, k)[i] = page[offset + 1 + i - 1]
      BY ONLY <2>1, <3>1, SubSeqProperties
    <3>3. QED BY <1>6, <3>2 DEF todo
  <2>3. Len(todo) = k - offset
    BY <1>8, <2>2
  <2>4. ASSUME NEW i \in 1..k - offset PROVE todo[i] = list[skip + offset + i]
    <3>1. i \in 1..k - (offset + 1) + 1 /\ offset + 1 + i - 1 = offset + i /\ offset + i \in 1..k
      BY <1>8
    <3>2. todo[i] = page[offset + i]
      BY <2>2, <3>1
    <3>3. skip + (offset + i) = skip + offset + i
      BY <3>1
    <3>4. QED BY <1>7, <3>1, <3>2, <3>3
  <2>5. QED BY <2>2, <2>3, <2>4
<1>9. ASSUME offset <= k, skip + offset <= n PROVE skip + offset + (k - offset) = e
  <2>1. k = IF skip + 1 <= e THEN e - skip ELSE 0
    BY <1>7
  <2>2. QED BY <1>3, <1>9, <2>1
<1>10. offset <= k => k - offset \in Nat
  OBVIOUS
<1>11. QED BY <1>1, <1>2, <1>6, <1>8, <1>9, <1>10 DEF page, todo

LEMMA AheadWithOutlook ==
  ASSUME server = "outlook", NEW place
  PROVE  \A m : m \in Ahead(place) <=>
                  \E i \in Position(place) + 1..Cardinality(mail) : m = NewestFirst(mail)[i]
  BY DEF Ahead, AheadIn

LEMMA LeftWithOutlook ==
  ASSUME WellTyped, server = "outlook", NEW place \in Place
  PROVE  Left(place) = Cardinality(mail) - Position(place) /\ Position(place) \in Nat
<1>1. place.skip \in Nat /\ place.offset \in Nat /\ Cardinality(mail) \in Nat
  BY PlaceFields, TheWholeList
<1>2. Left(place) = Cardinality(mail) - place.skip - place.offset
  BY DEF Left
<1>3. QED BY <1>1, <1>2 DEF Position

LEMMA OutlookListsKeeps ==
  ASSUME PagingInv, OutlookLists
  PROVE  PagingInv'
<1> DEFINE list == NewestFirst(mail)
           paged == SubSeq(list, listing.from.skip + 1, Least(listing.from.skip + listing.size, Len(list)))
<1>1. /\ WellTyped /\ CallInOrder /\ ReaderInOrder /\ GmailInOrder /\ ImapInOrder /\ OutlookInOrder
      /\ CallIsSound /\ CallAdvances
      /\ server = "outlook" /\ listing.at = "asks" /\ UNCHANGED <<server, mail, newest, reading>>
  BY DEF PagingInv, OutlookLists
<1>2. CASE listing.from.offset > Len(paged)
  <2>1. listing' = NoListing
    BY <1>2 DEF OutlookLists
  <2>2. QED BY <1>1, <2>1, CallStops
<1>3. CASE ~(listing.from.offset > Len(paged))
  <2>1. PICK more \in BOOLEAN : more <=> Len(list) > listing.from.skip + listing.size
    OBVIOUS
  <2>2. PICK page : page = paged
    OBVIOUS
  <2>3. PICK todo : todo = SubSeq(page, listing.from.offset + 1, Len(page))
    OBVIOUS
  <2>4. listing' = [listing EXCEPT !.at = "reads", !.more = more, !.todo = todo]
    <3>1. listing' = [listing EXCEPT !.at = "reads", !.more = Len(list) > listing.from.skip + listing.size,
                                     !.todo = SubSeq(paged, listing.from.offset + 1, Len(paged))]
      BY <1>3 DEF OutlookLists
    <3> HIDE DEF list, paged
    <3>2. PICK longer : longer = (Len(list) > listing.from.skip + listing.size)
      OBVIOUS
    <3>3. more = longer
      BY <2>1, <3>2
    <3>4. QED BY <2>2, <2>3, <3>1, <3>2, <3>3
  <2> HIDE DEF list, paged
  <2>5. /\ listing \in Call /\ listing.from \in Place /\ listing.size \in Nat \ {0}
        /\ listing.from.skip \in Nat /\ listing.from.offset \in Nat
    <3>1. /\ listing \in Call /\ listing.from \in Place /\ listing.size \in PageSize
          /\ listing.from.skip \in Nat /\ listing.from.offset \in Nat
      BY <1>1, Fields, PlaceFields DEF WellTyped, CallInOrder
    <3>2. \A n \in PageSize : n \in Nat \ {0}
      BY PagingAssumption
    <3>3. QED BY <3>1, <3>2
  <2>6. /\ list \in Seq(Message) /\ Len(list) = Cardinality(mail) /\ Cardinality(mail) \in Nat
        /\ \A i \in 1..Cardinality(mail) : list[i] \in mail
    BY <1>1, TheWholeList DEF list
  <2>7. list \in Seq(mail)
    BY <1>1, Fields, NewestFirstIs DEF list
  <2>8. PICK skip \in Nat, size \in Nat \ {0}, offset \in Nat :
          skip = listing.from.skip /\ size = listing.size /\ offset = listing.from.offset
    BY <2>5
  <2>9. /\ page = SubSeq(list, skip + 1, Least(skip + size, Len(list)))
        /\ todo = SubSeq(page, offset + 1, Len(page))
    BY <2>2, <2>3, <2>8 DEF paged
  <2>10. offset <= Len(page)
    <3>1. Len(page) \in Nat
      BY ONLY <2>7, <2>8, <2>9, PageOfList
    <3>2. QED BY <1>3, <2>2, <2>8, <3>1
  <2>11. /\ todo \in Seq(mail) /\ Len(todo) \in Nat
         /\ \A i \in 1..Len(todo) : todo[i] = list[skip + offset + i]
         /\ skip + offset <= Len(list) => skip + offset + Len(todo) = Least(skip + size, Len(list))
    <3>1. skip \in Nat /\ size \in Nat \ {0} /\ offset \in Nat
      OBVIOUS
    <3>2. LET one == SubSeq(list, skip + 1, Least(skip + size, Len(list)))
              rest == SubSeq(one, offset + 1, Len(one))
          IN  offset <= Len(one) =>
                /\ rest \in Seq(mail) /\ Len(rest) \in Nat
                /\ \A i \in 1..Len(rest) : rest[i] = list[skip + offset + i]
                /\ skip + offset <= Len(list) => skip + offset + Len(rest) = Least(skip + size, Len(list))
      BY ONLY <2>7, <3>1, PageOfList
    <3>3. QED BY ONLY <2>9, <2>10, <3>2
  <2>12. todo \in Seq(Message)
    <3>1. mail \subseteq Message
      BY <1>1, Fields
    <3>2. QED BY ONLY <2>11, <3>1, SeqMonotonic
  <2>13. /\ listing'.at = "reads" /\ listing'.todo = todo /\ listing'.from = listing.from
         /\ listing'.query = listing.query /\ listing'.size = listing.size /\ listing'.items = listing.items
         /\ listing'.inspected = listing.inspected /\ listing'.more = more /\ listing' \in Call
    BY <2>4, <2>5, <2>12 DEF Call
  <2>14. CallInOrder'
    BY <1>1, <2>13 DEF CallInOrder
  <2>15. \A m \in ToSet(listing'.items) : m \in 1..newest /\ Matches(m, listing'.query)
    BY <1>1, <2>13 DEF ReaderInOrder
  <2>16. GmailInOrder' /\ ImapInOrder'
    BY <1>1 DEF GmailInOrder, ImapInOrder
  <2>17. OutlookInOrder'
    <3>1. \A m \in ToSet(todo) : m \in 1..newest
      <4>1. \A m \in ToSet(todo) : m \in mail
        BY <2>11, Elements
      <4>2. QED BY <1>1, <4>1 DEF WellTyped
    <3>2. /\ ~reading.changed => skip + offset <= Cardinality(mail)
          /\ ~reading.changed => Position(reading.token.inner) <= Cardinality(mail)
      BY <1>1, <2>8 DEF OutlookInOrder, Position
    <3>3. /\ \A i \in 1..Len(todo) : todo[i] = NewestFirst(mail)[skip + offset + i]
          /\ ~reading.changed => skip + offset + Len(todo) = Least(skip + size, Cardinality(mail))
      BY <2>6, <2>11, <3>2 DEF list
    <3>4. more <=> Cardinality(mail) > skip + size
      BY <2>1, <2>6, <2>8
    <3>5. listing'.from.skip = skip /\ Position(listing.from)' = skip + offset /\ listing'.size = size
      BY <2>8, <2>13 DEF Position
    <3>6. Position(reading.token.inner)' = Position(reading.token.inner)
      BY <1>1 DEF Position
    <3>7. QED BY <1>1, <2>13, <3>1, <3>2, <3>3, <3>4, <3>5, <3>6 DEF OutlookInOrder
  <2>18. StillAhead' = StillAhead
    BY <1>1, <2>13 DEF StillAhead, Ahead, AheadIn
  <2>19. CallIsSound'
    BY <1>1, <2>13, <2>18 DEF CallIsSound, Steadily
  <2>20. Left(reading.token.inner)' = Left(reading.token.inner) /\ Left(listing.from)' = Left(listing.from)
    BY <1>1, <2>13 DEF Left, Older
  <2>21. CallAdvances'
    BY <1>1, <2>13, <2>20 DEF CallAdvances, Remaining
  <2>22. QED BY <1>1, <2>13, <2>14, <2>15, <2>16, <2>17, <2>19, <2>21, CallGoesOn
<1>4. QED BY <1>2, <1>3

\* When what Graph listed is used up and nothing changed, the call stands where the next page
\* begins, or at the end of the list.
LEMMA PageUsedUp ==
  ASSUME WellTyped, OutlookInOrder, server = "outlook", listing.at = "reads", ~reading.changed,
         listing.todo = <<>>
  PROVE  /\ listing.more => /\ Position(listing.from) = listing.from.skip + listing.size
                            /\ listing.from.skip + listing.size < Cardinality(mail)
         /\ ~listing.more => Position(listing.from) = Cardinality(mail)
<1>1. /\ Position(listing.from) \in Nat /\ Cardinality(mail) \in Nat
      /\ listing.from.skip \in Nat /\ listing.size \in Nat
  <2>1. listing.from \in Place /\ listing.size \in 0..Batch /\ listing.from.skip \in Nat
        /\ listing.from.offset \in Nat
    BY Fields, PlaceFields
  <2>2. QED BY <2>1, TheWholeList, PagingAssumption DEF Position
<1>2. PICK p \in Nat, n \in Nat, e \in Nat : /\ p = Position(listing.from) /\ n = Cardinality(mail)
                                             /\ e = listing.from.skip + listing.size
  BY <1>1
<1>3. p + 0 = Least(e, n) /\ (listing.more <=> n > e)
  <2>1. Len(listing.todo) = 0
    BY EmptySeq
  <2>2. QED BY <1>2, <2>1 DEF OutlookInOrder
<1>4. (n > e => p = e /\ e < n) /\ (~(n > e) => p = n)
  BY <1>3 DEF Least
<1>5. QED BY <1>2, <1>3, <1>4

LEMMA OutlookPageDoneKeeps ==
  ASSUME PagingInv, OutlookPageDone
  PROVE  PagingInv'
<1> DEFINE next == [listing.from EXCEPT !.skip = listing.from.skip + listing.size, !.offset = 0]
           more == listing.todo # <<>> \/ listing.more
           enough == Full(listing.items) \/ AtLimit(listing.inspected)
           inner == IF listing.todo # <<>> THEN listing.from ELSE next
<1>1. /\ WellTyped /\ CallInOrder /\ ReaderInOrder /\ GmailInOrder /\ ImapInOrder /\ OutlookInOrder
      /\ CallIsSound /\ CallAdvances
      /\ server = "outlook" /\ listing.at = "reads" /\ (listing.todo = <<>> \/ enough)
  BY DEF PagingInv, OutlookPageDone
<1>2. /\ listing \in Call /\ listing.from \in Place /\ listing.size \in Nat
      /\ listing.from.skip \in Nat /\ listing.from.offset \in Nat /\ listing.more \in BOOLEAN
      /\ Cardinality(mail) \in Nat
  <2>1. /\ listing \in Call /\ listing.from \in Place /\ listing.size \in 0..Batch
        /\ listing.from.skip \in Nat /\ listing.from.offset \in Nat /\ listing.more \in BOOLEAN
    BY <1>1, Fields, PlaceFields DEF WellTyped
  <2>2. QED BY <1>1, <2>1, TheWholeList, PagingAssumption
<1>3. /\ next \in Place /\ next.skip = listing.from.skip + listing.size /\ next.offset = 0
      /\ next.local = listing.from.local
  <2>1. listing.from.skip + listing.size \in Nat /\ 0 \in Nat
    BY <1>2
  <2>2. QED BY <1>2, <2>1 DEF Place
<1>4. IF enough \/ ~listing.more
         THEN Page(listing.items, enough /\ more, inner,
                   ScanLimited(listing.items, listing.inspected, more))
         ELSE listing' = [listing EXCEPT !.at = "asks", !.from = next] /\ UNCHANGED <<server, mail, newest, reading>>
  BY DEF OutlookPageDone
<1> HIDE DEF next
<1>5. ASSUME listing.todo = <<>>, ~reading.changed, listing.more
      PROVE  /\ Position(next) = Position(listing.from) /\ Position(next) < Cardinality(mail)
  <2>1. /\ Position(listing.from) = listing.from.skip + listing.size
        /\ listing.from.skip + listing.size < Cardinality(mail)
    BY <1>1, <1>5, PageUsedUp
  <2>2. Position(next) = listing.from.skip + listing.size
    BY <1>2, <1>3 DEF Position
  <2>3. QED BY <2>1, <2>2
<1>6. ASSUME ~reading.changed PROVE Position(listing.from) <= Cardinality(mail)
  BY <1>1, <1>6 DEF OutlookInOrder
<1>7. Steadily => ~reading.changed
  BY <1>1 DEF Steadily
<1>8. \A one \in Place : Position(one) = Position(listing.from) => Ahead(one) = StillAhead
  BY <1>1 DEF StillAhead, Ahead, AheadIn
<1>9. CASE enough \/ ~listing.more
  <2>1. Page(listing.items, enough /\ more, inner, ScanLimited(listing.items, listing.inspected, more))
    BY <1>4, <1>9
  <2>2. inner \in Place /\ inner.local = listing.from.local
    BY <1>2, <1>3
  <2>3. PICK goes \in BOOLEAN : goes <=> (enough /\ more)
    OBVIOUS
  <2>4. PICK limited \in BOOLEAN : limited = ScanLimited(listing.items, listing.inspected, more)
    BY DEF ScanLimited, AtLimit, Full
  <2>5. PICK there \in Place : there = inner
    BY <2>2
  <2>6. Page(listing.items, goes, there, limited)
    <3>1. goes = (enough /\ more)
      BY <2>3
    <3>2. QED BY <2>1, <2>4, <2>5, <3>1
  <2>7. ASSUME goes, ~reading.changed
        PROVE  Position(there) = Position(listing.from) /\ Position(there) <= Cardinality(mail)
    <3>1. CASE listing.todo # <<>>
      BY <1>6, <2>5, <2>7, <3>1
    <3>2. CASE listing.todo = <<>>
      <4>1. there = next /\ listing.more
        BY <2>3, <2>5, <2>7, <3>2
      <4>2. QED BY <1>5, <1>6, <2>7, <3>2, <4>1
    <3>3. QED BY <3>1, <3>2
  <2>8. Steadily /\ goes => \A m \in Message : m \in Ahead(there) <=> m \in StillAhead
    BY <1>7, <1>8, <2>7
  <2>9. Steadily /\ ~goes => \A m \in Message : m \notin StillAhead
    <3> SUFFICES ASSUME Steadily, ~goes, NEW m \in Message, m \in StillAhead PROVE FALSE
      OBVIOUS
    <3>1. listing.todo = <<>> /\ ~listing.more
      BY <1>1, <1>9, <2>3
    <3>2. Position(listing.from) = Cardinality(mail)
      BY <1>1, <1>7, <3>1, PageUsedUp
    <3>3. m \in Ahead(listing.from)
      BY <1>2, <1>8
    <3>4. \E i \in Cardinality(mail) + 1..Cardinality(mail) : m = NewestFirst(mail)[i]
      BY <1>1, <3>2, <3>3, AheadWithOutlook
    <3>5. QED BY <1>2, <3>4
  <2>10. there.local = listing.from.local /\ server # "gmail"
    BY <1>1, <2>2, <2>5
  <2>11. server = "outlook" /\ goes /\ ~reading.changed => Position(there) <= Cardinality(mail)
    BY <2>7
  <2>12. listing.at # "none"
    BY <1>1
  <2>13. QED BY <2>6, <2>8, <2>9, <2>10, <2>11, <2>12, PageKeeps
<1>10. CASE ~(enough \/ ~listing.more)
  <2>1. /\ listing' = [listing EXCEPT !.at = "asks", !.from = next]
        /\ UNCHANGED <<server, mail, newest, reading>>
        /\ listing.more /\ listing.todo = <<>>
    BY <1>1, <1>4, <1>10
  <2>2. /\ listing'.at = "asks" /\ listing'.todo = <<>> /\ listing'.from = next
        /\ listing'.query = listing.query /\ listing'.size = listing.size /\ listing'.items = listing.items
        /\ listing'.inspected = listing.inspected /\ listing' \in Call
    BY <1>2, <1>3, <2>1 DEF Call
  <2>3. CallInOrder'
    BY <1>1, <1>3, <2>1, <2>2 DEF CallInOrder
  <2>4. \A m \in ToSet(listing'.items) : m \in 1..newest /\ Matches(m, listing'.query)
    BY <1>1, <2>2 DEF ReaderInOrder
  <2>5. GmailInOrder' /\ ImapInOrder'
    BY <1>1, <2>1 DEF GmailInOrder, ImapInOrder
  <2>6. ~reading.changed => Position(next) = Position(listing.from) /\ Position(next) <= Cardinality(mail)
    BY <1>5, <1>6, <2>1
  <2>7. Position(listing.from)' = Position(next) /\ Position(reading.token.inner)' = Position(reading.token.inner)
    BY <2>1, <2>2 DEF Position
  <2>8. OutlookInOrder'
    BY <1>1, <2>1, <2>2, <2>6, <2>7, NoElements DEF OutlookInOrder
  <2>9. StillAhead' = Ahead(next)
    BY <1>1, <2>1, <2>2 DEF StillAhead, Ahead, AheadIn
  <2>10. Steadily => StillAhead' = StillAhead
    BY <1>3, <1>7, <1>8, <2>6, <2>9
  <2>11. CallIsSound'
    BY <1>1, <2>1, <2>2, <2>10 DEF CallIsSound, Steadily
  <2>12. CallAdvances'
    <3> SUFFICES ASSUME ~reading.changed
                 PROVE  Remaining' + listing'.inspected <= Left(reading.token.inner)'
      BY <2>1 DEF CallAdvances
    <3>1. Left(listing.from) + listing.inspected <= Left(reading.token.inner)
      BY <1>1 DEF CallAdvances, Remaining
    <3>2. /\ Left(reading.token.inner)' = Left(reading.token.inner)
          /\ Left(listing.from)' = Left(next)
      BY <2>1, <2>2 DEF Left, Older
    <3>3. Left(next) = Left(listing.from)
      BY <1>1, <1>2, <1>3, <2>6, LeftWithOutlook
    <3>4. Remaining' = Left(next)
      BY <1>1, <2>1, <3>2 DEF Remaining
    <3>5. QED BY <2>2, <3>1, <3>2, <3>3, <3>4
  <2>13. QED BY <2>1, <2>2, <2>3, <2>4, <2>5, <2>8, <2>11, <2>12, CallGoesOn
<1>11. QED BY <1>9, <1>10

LEMMA OutlookReadsKeeps ==
  ASSUME PagingInv, OutlookReads
  PROVE  PagingInv'
<1>1. /\ WellTyped /\ CallInOrder /\ ReaderInOrder /\ GmailInOrder /\ ImapInOrder /\ OutlookInOrder
      /\ CallIsSound /\ CallAdvances
      /\ server = "outlook" /\ listing.at = "reads" /\ listing.todo # <<>>
      /\ ~Full(listing.items) /\ ~AtLimit(listing.inspected) /\ UNCHANGED <<server, mail, newest, reading>>
  BY DEF PagingInv, OutlookReads
<1>2. /\ listing \in Call /\ listing.from \in Place /\ listing.todo \in Seq(Message)
      /\ listing.items \in Seq(Message) /\ listing.inspected \in Nat /\ listing.size \in 0..Batch
      /\ mail \subseteq Message /\ reading.held \subseteq mail
      /\ reading.shown \in Seq(Message) /\ reading.shown \o listing.items \in Seq(Message)
      /\ listing.from.skip \in Nat /\ listing.from.offset \in Nat /\ listing.from.local \in BOOLEAN
  BY <1>1, Fields, PlaceFields DEF WellTyped, ReaderInOrder
<1>3. PICK m \in Message, todo \in Seq(Message) : m = Head(listing.todo) /\ todo = Tail(listing.todo)
  BY <1>1, <1>2, WithoutTheFirst
<1>4. CASE listing.from.local /\ m \notin mail
  <2>1. listing' = NoListing
    BY <1>3, <1>4 DEF OutlookReads
  <2>2. QED BY <1>1, <2>1, CallStops
<1>5. CASE ~(listing.from.local /\ m \notin mail)
  <2>1. PICK fits \in BOOLEAN : fits <=> (listing.from.local => Attached(m))
    OBVIOUS
  <2>2. PICK items : items = IF fits THEN Append(listing.items, m) ELSE listing.items
    OBVIOUS
  <2> DEFINE from == [listing.from EXCEPT !.offset = listing.from.offset + 1]
  <2>3. listing' = [listing EXCEPT !.todo = todo, !.inspected = listing.inspected + 1,
                                   !.from = from, !.items = items]
    BY <1>2, <1>3, <1>5, <2>1, <2>2 DEF OutlookReads, Call
  <2>4. /\ from \in Place /\ from.skip = listing.from.skip /\ from.offset = listing.from.offset + 1
        /\ from.local = listing.from.local
    <3>1. listing.from.offset + 1 \in Nat
      BY <1>2
    <3>2. QED BY <1>2, <3>1 DEF Place
  <2> HIDE DEF from
  <2>5. fits <=> Matches(m, listing.query)
    <3>1. listing.from.local = LocalFilter(listing.query)
      BY <1>1 DEF CallInOrder
    <3>2. QED BY <2>1, <3>1 DEF LocalFilter, Matches
  <2>6. /\ items \in Seq(Message) /\ Len(listing.items) \in Nat /\ Len(items) \in Nat
        /\ Len(items) = Len(listing.items) \/ (fits /\ Len(items) = Len(listing.items) + 1)
        /\ \A x \in ToSet(items) : x \in ToSet(listing.items) \/ (fits /\ x = m)
        /\ reading.shown \o items =
             IF fits THEN Append(reading.shown \o listing.items, m) ELSE reading.shown \o listing.items
    <3>1. PICK shown \in Seq(Message), before \in Seq(Message) : shown = reading.shown /\ before = listing.items
      BY <1>2
    <3>2. items = IF fits THEN Append(before, m) ELSE before
      BY <2>2, <3>1
    <3>3. /\ items \in Seq(Message) /\ Len(before) \in Nat /\ Len(items) \in Nat
          /\ Len(items) = Len(before) \/ (fits /\ Len(items) = Len(before) + 1)
          /\ \A x \in ToSet(items) : x \in ToSet(before) \/ (fits /\ x = m)
          /\ shown \o items = IF fits THEN Append(shown \o before, m) ELSE shown \o before
      <4>1. Len(before) \in Nat
        BY LenProperties
      <4>2. CASE fits
        <5>1. items = Append(before, m)
          BY <3>2, <4>2
        <5>2. /\ items \in Seq(Message) /\ Len(items) = Len(before) + 1
              /\ \A x \in ToSet(items) : x \in ToSet(before) \/ x = m
              /\ shown \o items = Append(shown \o before, m)
          BY <5>1, ItemTaken
        <5>3. QED BY <4>1, <4>2, <5>2
      <4>3. CASE ~fits
        BY <3>2, <4>1, <4>3
      <4>4. QED BY <4>2, <4>3
    <3>4. QED BY <3>1, <3>3
  <2>7. /\ listing'.at = "reads" /\ listing'.todo = todo /\ listing'.from = from
        /\ listing'.query = listing.query /\ listing'.size = listing.size /\ listing'.items = items
        /\ listing'.inspected = listing.inspected + 1 /\ listing'.more = listing.more
    BY <1>1, <1>2, <2>3 DEF Call
  <2>8. listing' \in Call
    <3>1. items \in Seq(Message) /\ listing.inspected + 1 \in Nat /\ listing \in Call /\ from \in Place
      BY <1>2, <2>4, <2>6
    <3>2. QED BY <2>3, <3>1 DEF Call
  <2>9. /\ Len(todo) = Len(listing.todo) - 1 /\ Len(listing.todo) \in Nat \ {0}
        /\ m = listing.todo[1] /\ \A i \in 1..Len(listing.todo) - 1 : todo[i] = listing.todo[i + 1]
        /\ \A x : x \in ToSet(listing.todo) <=> x = m \/ x \in ToSet(todo)
    BY <1>1, <1>2, <1>3, WithoutTheFirst, LenProperties
  <2>10. \A x \in ToSet(listing.todo) : x \in 1..newest
    BY <1>1 DEF OutlookInOrder
  <2>11. CallInOrder'
    <3>1. /\ Len(listing.items) <= listing.size /\ Len(listing.items) <= listing.inspected
          /\ listing.inspected <= ScanLimit
      BY <1>1 DEF CallInOrder
    <3>2. ~(listing.inspected >= ScanLimit) /\ Len(listing.items) # listing.size
      BY <1>1 DEF AtLimit, Full
    <3>3. Len(items) <= listing.size /\ Len(items) <= listing.inspected + 1
      BY <1>2, <2>6, <3>1, <3>2
    <3>4. listing.inspected + 1 <= ScanLimit
      BY <1>2, <3>2, PagingAssumption
    <3>5. QED BY <1>1, <2>4, <2>7, <3>3, <3>4 DEF CallInOrder
  <2>12. \A x \in ToSet(listing'.items) : x \in 1..newest /\ Matches(x, listing'.query)
    BY <1>1, <2>5, <2>6, <2>7, <2>9, <2>10 DEF ReaderInOrder
  <2>13. GmailInOrder' /\ ImapInOrder'
    BY <1>1 DEF GmailInOrder, ImapInOrder
  <2>14a. PICK p \in Nat, n \in Nat, k \in Nat :
            p = Position(listing.from) /\ n = Cardinality(mail) /\ k = Len(todo)
    <3>1. Position(listing.from) \in Nat
      BY <1>2 DEF Position
    <3>2. QED BY <1>1, <3>1, TheWholeList, LenProperties
  <2>14b. PICK list : list = NewestFirst(mail)
    OBVIOUS
  <2>14. /\ p = Position(listing.from) /\ n = Cardinality(mail) /\ k = Len(todo)
         /\ list = NewestFirst(mail)
    BY <2>14a, <2>14b
  <2>15. /\ Position(from) = p + 1 /\ Position(listing.from)' = p + 1
         /\ Position(reading.token.inner)' = Position(reading.token.inner)
    <3>1. Position(from) = p + 1
      <4>1. PICK s \in Nat, o \in Nat : s = listing.from.skip /\ o = listing.from.offset
        BY <1>2
      <4>2. Position(from) = s + (o + 1) /\ p = s + o
        BY ONLY <2>4, <2>14, <4>1 DEF Position
      <4>3. QED BY <4>2
    <3>2. QED BY <1>1, <2>7, <3>1 DEF Position
  <2>16. PICK e : e = Least(listing.from.skip + listing.size, n)
    OBVIOUS
  <2>17. e \in Nat /\ e <= n
    <3>1. listing.from.skip + listing.size \in Nat
      BY <1>2, PagingAssumption
    <3>2. QED BY <2>14, <2>16, <3>1 DEF Least
  <2>18. ASSUME ~reading.changed
         PROVE  /\ m = list[p + 1] /\ p + 1 <= n /\ p + 1 + k = e
                /\ \A i \in 1..k : todo[i] = list[p + 1 + i]
    <3>1. /\ \A i \in 1..Len(listing.todo) : listing.todo[i] = list[p + i]
          /\ p + Len(listing.todo) = e
      BY <1>1, <2>14, <2>16, <2>18 DEF OutlookInOrder
    <3>2. Len(listing.todo) = k + 1
      BY <2>9, <2>14
    <3>3. m = list[p + 1]
      BY <2>9, <3>1, <3>2
    <3>4. p + (k + 1) = e
      BY <3>1, <3>2
    <3>5. p + 1 <= n /\ p + 1 + k = e
      BY <2>17, <3>4
    <3>6. ASSUME NEW i \in 1..k PROVE todo[i] = list[p + 1 + i]
      <4>1. i + 1 \in 1..k + 1 /\ i \in 1..k + 1 - 1 /\ p + (i + 1) = p + 1 + i
        OBVIOUS
      <4>2. todo[i] = listing.todo[i + 1]
        BY <2>9, <3>2, <4>1
      <4>3. listing.todo[i + 1] = list[p + (i + 1)]
        BY <3>1, <3>2, <4>1
      <4>4. QED BY <4>1, <4>2, <4>3
    <3>7. QED BY <3>3, <3>5, <3>6
  <2>19. OutlookInOrder'
    <3>1. \A x \in ToSet(todo) : x \in 1..newest
      BY <2>9, <2>10
    <3>2. /\ ~reading.changed => p + 1 <= n
          /\ ~reading.changed => Position(reading.token.inner) <= n
          /\ ~reading.changed => (listing.more <=> n > listing.from.skip + listing.size)
      BY <1>1, <2>14, <2>18 DEF OutlookInOrder
    <3>3. ~reading.changed =>
            /\ \A i \in 1..Len(todo) : todo[i] = NewestFirst(mail)[p + 1 + i]
            /\ p + 1 + Len(todo) = Least(listing.from.skip + listing.size, Cardinality(mail))
      BY <2>14, <2>16, <2>18
    <3>4. listing'.from.skip = listing.from.skip
      BY <2>4, <2>7
    <3>5. QED BY <1>1, <2>7, <2>14, <2>15, <3>1, <3>2, <3>3, <3>4 DEF OutlookInOrder
  <2>20. CallIsSound'
    <3> SUFFICES ASSUME Steadily
                 PROVE  Sound(reading.shown \o items, StillAhead', reading.held, listing.query)
      BY <1>1, <2>7 DEF CallIsSound, Steadily
    <3>1. Sound(reading.shown \o listing.items, StillAhead, reading.held, listing.query)
      BY <1>1 DEF CallIsSound
    <3>2. m = list[p + 1] /\ p + 1 <= n
      BY <1>1, <2>18 DEF Steadily
    <3>3. \A i, j \in 1..n : list[i] = list[j] => i = j
      BY <1>1, <2>14, TheWholeList
    <3>4. \A x : x \in StillAhead <=> \E i \in p + 1..n : x = list[i]
      BY <1>1, <2>14 DEF StillAhead, Ahead, AheadIn
    <3>5. \A x : x \in StillAhead' <=> \E i \in p + 1 + 1..n : x = list[i]
      <4>1. StillAhead' = {NewestFirst(mail)[i] : i \in Position(listing.from)' + 1..Cardinality(mail)}
        BY <1>1, <2>7 DEF StillAhead, Ahead, AheadIn
      <4>2. QED BY <2>14, <2>15, <4>1
    <3>6. m \in StillAhead
      <4>1. p + 1 \in p + 1..n
        BY <3>2
      <4>2. QED BY <3>2, <3>4, <4>1
    <3>7. m \notin StillAhead'
      <4> SUFFICES ASSUME NEW i \in p + 1 + 1..n, m = list[i] PROVE FALSE
        BY <3>5
      <4>1. i \in 1..n /\ p + 1 \in 1..n /\ i # p + 1
        BY <3>2
      <4>2. QED BY <3>2, <3>3, <4>1
    <3>8. \A x \in StillAhead' : x \in StillAhead
      <4>1. \A i \in p + 1 + 1..n : i \in p + 1..n
        OBVIOUS
      <4>2. QED BY <3>4, <3>5, <4>1
    <3>9. \A x \in reading.held : x \in StillAhead => x \in StillAhead' \/ x = m
      <4>1. \A i \in p + 1..n : i = p + 1 \/ i \in p + 1 + 1..n
        OBVIOUS
      <4>2. QED BY <3>2, <3>4, <3>5, <4>1
    <3>10. m \in reading.held /\ Matches(m, listing.query) => fits
      BY <2>5
    <3>11. Sound(IF fits THEN Append(reading.shown \o listing.items, m) ELSE reading.shown \o listing.items,
                 StillAhead', reading.held, listing.query)
      BY <1>2, <3>1, <3>6, <3>7, <3>8, <3>9, <3>10, SoundTakes
    <3>12. QED BY <2>6, <3>11
  <2>21. CallAdvances'
    <3> SUFFICES ASSUME ~reading.changed
                 PROVE  Remaining' + listing'.inspected <= Left(reading.token.inner)'
      BY <1>1 DEF CallAdvances
    <3>1. Left(listing.from) + listing.inspected <= Left(reading.token.inner)
      BY <1>1 DEF CallAdvances, Remaining
    <3>2. /\ Left(reading.token.inner)' = Left(reading.token.inner)
          /\ Left(listing.from)' = Left(from)
      BY <1>1, <2>7 DEF Left, Older
    <3>3. Left(listing.from) = n - p /\ Left(from) = n - (p + 1)
      BY <1>1, <1>2, <2>4, <2>14, <2>15, LeftWithOutlook
    <3>4. Remaining' = Left(from)
      BY <1>1, <3>2 DEF Remaining
    <3>5. Left(reading.token.inner) \in Int
      <4>1. reading.token.inner \in Place
        BY <1>1, Fields
      <4>2. QED BY <1>1, <2>14, <4>1, LeftWithOutlook
    <3>6. QED BY <1>2, <2>7, <3>1, <3>2, <3>3, <3>4, <3>5
  <2>22. QED BY <1>1, <2>8, <2>11, <2>12, <2>13, <2>19, <2>20, <2>21, CallGoesOn
<1>6. QED BY <1>4, <1>5

------------------------------------------------------------------------------
(* The service *)

LEMMA ListingFailsKeeps ==
  ASSUME PagingInv, ListingFails
  PROVE  PagingInv'
  BY CallStops DEF ListingFails

LEMMA PagingStarts == PagingInit => PagingInv
<1> SUFFICES ASSUME PagingInit PROVE PagingInv
  OBVIOUS
<1>1. /\ server \in {"gmail", "outlook", "imap"} /\ newest \in 0..Arrived /\ mail \subseteq 1..newest
      /\ listing = NoListing /\ reading = NoReading
  BY DEF PagingInit
<1>2. WellTyped
  BY <1>1, Defaults DEF WellTyped
<1>3. /\ reading.query = "none" /\ reading.shown = <<>> /\ reading.token = NoToken
      /\ reading.ended = FALSE /\ reading.held = {} /\ reading.changed = FALSE
  BY <1>1, Defaults
<1>4. /\ CallInOrder /\ ImapInOrder /\ CallIsSound /\ CallAdvances
      /\ \A m \in ToSet(listing.items) : m \in 1..newest /\ Matches(m, listing.query)
      /\ GmailBatch(listing.from.pending, listing.from.after)
      /\ GmailBatch(listing.todo, listing.from.after)
      /\ Len(listing.from.pending) = 0 /\ Len(listing.todo) = 0 /\ listing.at = "none"
      /\ \A m \in ToSet(listing.todo) : m \in 1..newest
  BY <1>1, NoCallIsInOrder
<1>5. ReaderInOrder
  BY <1>3, <1>4, NoElements DEF ReaderInOrder
<1>6. GmailInOrder
  <2>1. 0 <= Batch /\ 0 <= ScanLimit
    BY PagingAssumption
  <2>2. QED BY <1>3, <1>4, <2>1, NoTokenIsInOrder DEF GmailInOrder
<1>7. OutlookInOrder
  <2>1. 0 <= Cardinality(mail)
    BY <1>2, TheWholeList
  <2>2. QED BY <1>3, <1>4, <2>1, NoTokenIsInOrder DEF OutlookInOrder
<1>8. ReaderIsSound
  BY <1>3, NoElements DEF ReaderIsSound, Sound
<1>9. QED BY <1>2, <1>4, <1>5, <1>6, <1>7, <1>8 DEF PagingInv

LEMMA PagingStands ==
  ASSUME PagingInv, UNCHANGED pagingVars
  PROVE  PagingInv'
<1>1. UNCHANGED <<server, mail, newest, listing, reading>>
  BY DEF pagingVars
<1>2. (WellTyped /\ CallInOrder /\ ReaderInOrder /\ GmailInOrder /\ ImapInOrder)'
  BY <1>1 DEF PagingInv, WellTyped, CallInOrder, ReaderInOrder, GmailInOrder, ImapInOrder
<1>3. /\ Position(listing.from)' = Position(listing.from)
      /\ Position(reading.token.inner)' = Position(reading.token.inner)
  BY <1>1 DEF Position
<1>4. OutlookInOrder'
  BY <1>1, <1>3 DEF PagingInv, OutlookInOrder
<1>5. Ahead(reading.token.inner)' = Ahead(reading.token.inner) /\ StillAhead' = StillAhead
  BY <1>1 DEF Ahead, StillAhead
<1>6. Left(reading.token.inner)' = Left(reading.token.inner) /\ Left(listing.from)' = Left(listing.from)
  BY <1>1 DEF Left, Older
<1>7. Remaining' = Remaining
  BY <1>1, <1>6 DEF Remaining
<1>8. ReaderIsSound' /\ CallIsSound' /\ CallAdvances'
  BY <1>1, <1>5, <1>6, <1>7 DEF PagingInv, ReaderIsSound, CallIsSound, CallAdvances, Steadily
<1>9. QED BY <1>2, <1>4, <1>8 DEF PagingInv

LEMMA PagingStep == PagingInv /\ [PagingNext]_pagingVars => PagingInv'
<1> SUFFICES ASSUME PagingInv, [PagingNext]_pagingVars PROVE PagingInv'
  OBVIOUS
<1>1. CASE MailArrives
  BY <1>1, MailArrivesKeeps
<1>2. CASE MailGoes
  BY <1>2, MailGoesKeeps
<1>3. CASE ListFirst
  BY <1>3, ListFirstKeeps
<1>4. CASE ListNext
  BY <1>4, ListNextKeeps
<1>5. CASE TokenExpires
  BY <1>5, TokenExpiresKeeps
<1>6. CASE ListingFails
  BY <1>6, ListingFailsKeeps
<1>7. CASE GmailLists
  BY <1>7, GmailListsKeeps
<1>8. CASE GmailHydrates
  BY <1>8, GmailHydratesKeeps
<1>9. CASE GmailBatchDone
  BY <1>9, GmailBatchDoneKeeps
<1>10. CASE OutlookLists
  BY <1>10, OutlookListsKeeps
<1>11. CASE OutlookReads
  BY <1>11, OutlookReadsKeeps
<1>12. CASE OutlookPageDone
  BY <1>12, OutlookPageDoneKeeps
<1>13. CASE ImapSearches
  BY <1>13, ImapSearchesKeeps
<1>14. CASE ImapFetches
  BY <1>14, ImapFetchesKeeps
<1>15. CASE ImapFolderDone
  BY <1>15, ImapFolderDoneKeeps
<1>16. CASE UNCHANGED pagingVars
  BY <1>16, PagingStands
<1>17. QED
  BY <1>1, <1>2, <1>3, <1>4, <1>5, <1>6, <1>7, <1>8, <1>9, <1>10, <1>11, <1>12, <1>13, <1>14, <1>15, <1>16
     DEF PagingNext

\* What a running call and its reader have, may still get and have left stays in step, whatever
\* arrives, goes, expires or fails between two of its calls of the provider.
THEOREM PagingIsSound == PagingSpec => []PagingInv
<1>1. QED BY PagingStarts, PagingStep, PTL DEF PagingSpec

\* Ids of an earlier batch are kept for Gmail only.
NothingPending ==
  server # "gmail" => listing.from.pending = <<>> /\ reading.token.inner.pending = <<>>

LEMMA NothingPendingStep == PagingInv /\ NothingPending /\ [PagingNext]_pagingVars => NothingPending'
<1> SUFFICES ASSUME PagingInv, NothingPending, [PagingNext]_pagingVars, server' # "gmail"
             PROVE  listing'.from.pending = <<>> /\ reading'.token.inner.pending = <<>>
  BY DEF NothingPending
<1>1. /\ listing \in Call /\ reading \in Reader /\ listing.from \in Place
      /\ reading.token \in Token /\ reading.token.inner \in Place
  BY Fields DEF PagingInv, WellTyped
<1>2. server' = server
  BY DEF PagingNext, MailArrives, MailGoes, ListFirst, ListNext, TokenExpires, ListingFails, Page,
         GmailLists, GmailHydrates, GmailBatchDone, OutlookLists, OutlookReads, OutlookPageDone,
         ImapSearches, ImapFetches, ImapFolderDone, pagingVars
<1>3. listing.from.pending = <<>> /\ reading.token.inner.pending = <<>> /\ server # "gmail"
  BY <1>2 DEF NothingPending
<1>4. CASE MailArrives \/ MailGoes
  BY <1>1, <1>3, <1>4 DEF MailArrives, MailGoes, Reader
<1>5. CASE ListFirst
  <2>1. PICK q, n : /\ listing' = [NoListing EXCEPT !.at = "asks", !.query = q, !.size = n,
                                     !.from = [Beginning EXCEPT !.local = LocalFilter(q)]]
                    /\ reading' = [NoReading EXCEPT !.query = q, !.size = n, !.held = mail]
    BY <1>5 DEF ListFirst, StartsListing
  <2>2. listing'.from = [Beginning EXCEPT !.local = LocalFilter(q)] /\ reading'.token = NoToken
    BY <2>1, Defaults DEF Call, Reader
  <2>3. [Beginning EXCEPT !.local = LocalFilter(q)].pending = <<>>
    BY DEF Beginning
  <2>4. QED BY <2>2, <2>3, Defaults
<1>6. CASE ListNext
  <2>1. PICK q, n : /\ listing' = [NoListing EXCEPT !.at = "asks", !.query = q, !.size = n,
                                     !.from = reading.token.inner]
                    /\ reading' = [reading EXCEPT !.query = q, !.size = n]
    BY <1>6 DEF ListNext, StartsListing
  <2>2. listing'.from = reading.token.inner /\ reading'.token = reading.token
    BY <1>1, <2>1, Defaults DEF Call, Reader
  <2>3. QED BY <1>3, <2>2
<1>7. CASE TokenExpires
  <2>1. reading' = [reading EXCEPT !.token = [reading.token EXCEPT !.live = FALSE]] /\ listing' = listing
    BY <1>7 DEF TokenExpires
  <2>2. reading'.token.inner = reading.token.inner
    BY <1>1, <2>1 DEF Reader, Token
  <2>3. QED BY <1>3, <2>1, <2>2
<1>8. ASSUME NEW inner, NEW items, NEW more, NEW limited, Page(items, more, inner, limited), inner.pending = <<>>
      PROVE  listing'.from.pending = <<>> /\ reading'.token.inner.pending = <<>>
  <2>1. PICK token : /\ token.inner = inner \/ token = NoToken
                     /\ reading' = [reading EXCEPT !.shown = reading.shown \o items, !.ended = ~more,
                                                   !.limited = limited, !.token = token]
    BY <1>8 DEF Page
  <2>2. reading'.token = token /\ listing' = NoListing
    BY <1>1, <1>8, <2>1 DEF Reader, Page
  <2>3. QED BY <1>8, <2>1, <2>2, Defaults
<1>9. CASE ListingFails
  BY <1>3, <1>9, Defaults DEF ListingFails
<1>10. CASE OutlookLists
  <2>1. reading' = reading /\ (listing' = NoListing \/ listing'.from = listing.from)
    BY <1>1, <1>10 DEF OutlookLists, Call
  <2>2. QED BY <1>3, <2>1, Defaults
<1>11. CASE OutlookReads
  <2>1. /\ reading' = reading
        /\ \/ listing' = NoListing
           \/ listing'.from = [listing.from EXCEPT !.offset = listing.from.offset + 1]
    BY <1>1, <1>11 DEF OutlookReads, Call
  <2>2. [listing.from EXCEPT !.offset = listing.from.offset + 1].pending = <<>>
    BY <1>1, <1>3 DEF Place
  <2>3. QED BY <1>3, <2>1, <2>2, Defaults
<1>12. CASE OutlookPageDone
  <2> DEFINE next == [listing.from EXCEPT !.skip = listing.from.skip + listing.size, !.offset = 0]
             inner == IF listing.todo # <<>> THEN listing.from ELSE next
  <2>1. next.pending = <<>> /\ inner.pending = <<>>
    BY <1>1, <1>3 DEF Place
  <2>2. \/ \E more, limited : Page(listing.items, more, inner, limited)
        \/ reading' = reading /\ listing' = [listing EXCEPT !.at = "asks", !.from = next]
    BY <1>12 DEF OutlookPageDone
  <2> HIDE DEF next, inner
  <2>3. CASE \E more, limited : Page(listing.items, more, inner, limited)
    BY <1>8, <2>1, <2>3
  <2>4. CASE reading' = reading /\ listing' = [listing EXCEPT !.at = "asks", !.from = next]
    <3>1. listing'.from = next
      BY <1>1, <2>4 DEF Call
    <3>2. QED BY <1>3, <2>1, <2>4, <3>1
  <2>5. QED BY <2>2, <2>3, <2>4
<1>13. CASE ImapSearches
  <2>1. reading' = reading /\ listing'.from = listing.from
    BY <1>1, <1>13 DEF ImapSearches, Call
  <2>2. QED BY <1>3, <2>1
<1>14. CASE ImapFetches
  <2> DEFINE here == [listing.from EXCEPT !.upper = Head(listing.todo)]
  <2>1. here.pending = <<>>
    BY <1>1, <1>3 DEF Place
  <2>2. \/ \E limited : Page(listing.items, TRUE, here, limited)
        \/ reading' = reading /\ listing'.from = listing.from
    BY <1>1, <1>14 DEF ImapFetches, Call
  <2> HIDE DEF here
  <2>3. QED BY <1>3, <1>8, <2>1, <2>2
<1>15. CASE ImapFolderDone
  <2> DEFINE from == [listing.from EXCEPT !.folder = listing.from.folder + 1, !.upper = Arrived + 1]
  <2>1. from.pending = <<>>
    BY <1>1, <1>3 DEF Place
  <2>2. \/ Page(listing.items, FALSE, Beginning, FALSE)
        \/ reading' = reading /\ listing' = [listing EXCEPT !.at = "asks", !.from = from]
    BY <1>1, <1>15 DEF ImapFolderDone, Call, Place
  <2> HIDE DEF from
  <2>3. CASE Page(listing.items, FALSE, Beginning, FALSE)
    BY <1>8, <2>3, Defaults
  <2>4. CASE reading' = reading /\ listing' = [listing EXCEPT !.at = "asks", !.from = from]
    <3>1. listing'.from = from
      BY <1>1, <2>4 DEF Call
    <3>2. QED BY <1>3, <2>1, <2>4, <3>1
  <2>5. QED BY <2>2, <2>3, <2>4
<1>16. CASE GmailLists \/ GmailHydrates \/ GmailBatchDone
  BY <1>3, <1>16 DEF GmailLists, GmailHydrates, GmailBatchDone
<1>17. CASE UNCHANGED pagingVars
  BY <1>3, <1>17 DEF pagingVars
<1>18. QED
  BY <1>4, <1>5, <1>6, <1>7, <1>9, <1>10, <1>11, <1>12, <1>13, <1>14, <1>15, <1>16, <1>17 DEF PagingNext

\* Whoever follows the tokens to the last page has every match that was there all along, once,
\* and nothing else.
LEMMA SoundIsExact == PagingInv /\ NothingPending => ExactlyTheMatches
<1> SUFFICES ASSUME PagingInv, NothingPending PROVE ExactlyTheMatches
  OBVIOUS
<1>1. WellTyped /\ CallInOrder /\ ReaderInOrder /\ GmailInOrder /\ ReaderIsSound
  BY DEF PagingInv
<1>2. /\ listing \in Call /\ listing.items \in Seq(Message) /\ listing.inspected \in Nat
      /\ listing.from \in Place /\ listing.size \in 0..Batch /\ listing.from.skip \in Nat
      /\ reading.shown \in Seq(Message) /\ reading.token \in Token
  BY <1>1, Fields, PlaceFields DEF WellTyped
<1>3. PagingTypeOK
  <2>1. listing.inspected \in 0..ScanLimit /\ Len(listing.items) <= Batch
    <3>1. CASE listing.at = "none"
      <4>1. listing.inspected = 0 /\ listing.items = <<>>
        BY <1>1, <3>1, Defaults DEF CallInOrder
      <4>2. QED BY <4>1, EmptySeq, PagingAssumption
    <3>2. CASE listing.at # "none"
      <4>1. Len(listing.items) <= listing.size /\ listing.inspected <= ScanLimit
        BY <1>1, <3>2 DEF CallInOrder
      <4>2. Len(listing.items) \in Nat /\ listing.size <= Batch /\ listing.size \in Nat /\ Batch \in Nat
        BY <1>2, LenProperties, PagingAssumption
      <4>3. listing.inspected \in 0..ScanLimit
        BY <1>2, <4>1, PagingAssumption
      <4>4. QED BY <4>1, <4>2, <4>3
    <3>3. QED BY <3>1, <3>2
  <2>2. Len(listing.from.pending) <= Batch
    <3>1. CASE server = "gmail"
      BY <1>1, <3>1 DEF GmailInOrder
    <3>2. CASE server # "gmail"
      <4>1. listing.from.pending = <<>>
        BY <3>2 DEF NothingPending
      <4>2. QED BY <4>1, EmptySeq, PagingAssumption
    <3>3. QED BY <3>1, <3>2
  <2>3. ToSet(reading.shown) \subseteq 1..newest
    BY <1>1 DEF ReaderInOrder
  <2>4. reading.token.live \in BOOLEAN
    BY <1>2 DEF Token
  <2>5. mail \subseteq 1..newest /\ newest \in 0..Arrived
    BY <1>1 DEF WellTyped
  <2>6. listing.at \in {"none", "asks", "hydrates", "reads", "fetches"}
    BY <1>2 DEF Call
  <2>7. QED BY <1>2, <2>1, <2>2, <2>3, <2>4, <2>5, <2>6 DEF PagingTypeOK
<1>4. NothingMissed
  <2> SUFFICES ASSUME reading.ended, Steadily, NEW m \in reading.held, Matches(m, reading.query)
               PROVE  m \in ToSet(reading.shown)
    BY DEF NothingMissed
  <2>1. Sound(reading.shown, {}, reading.held, reading.query)
    BY <1>1 DEF ReaderIsSound
  <2>2. QED BY <2>1 DEF Sound
<1>5. NothingTwice
  BY <1>1 DEF ReaderIsSound, Sound, NothingTwice
<1>6. ShownMatch
  <2>1. \A i \in DOMAIN reading.shown : reading.shown[i] \in ToSet(reading.shown)
    BY <1>2, Elements
  <2>2. QED BY <1>1, <2>1 DEF ReaderInOrder, ShownMatch
<1>7. QED BY <1>3, <1>4, <1>5, <1>6 DEF ExactlyTheMatches

\* Listing shows what matches, all of it, once: for every number of messages, batch, page sizes
\* and scan limit (listMessages of mailService.ts with the three providers).
THEOREM ListingShowsTheMatches == PagingSpec => []ExactlyTheMatches
<1>1. PagingInit => NothingPending
  BY Defaults DEF PagingInit, NothingPending
<1>2. QED BY <1>1, PagingIsSound, NothingPendingStep, SoundIsExact, PTL DEF PagingSpec

------------------------------------------------------------------------------
(* Every answer goes on or says why not *)

SaysWhyShort ==
  \/ Len(reading'.shown) - Len(reading.shown) = listing.size
  \/ reading'.limited \/ reading'.ended

Advances ==
  ~reading'.ended /\ ~reading.changed => Left(reading'.token.inner) < Left(reading.token.inner)

\* What a page has to bring for its answer to go on.
LEMMA PageGoesOn ==
  ASSUME PagingInv, NEW more \in BOOLEAN, NEW limited \in BOOLEAN, NEW inner \in Place,
         Page(listing.items, more, inner, limited),
         more /\ ~Full(listing.items) => limited,
         more /\ ~reading.changed => Left(inner) < Left(reading.token.inner)
  PROVE  SaysWhyShort /\ Advances
<1>1. WellTyped
  BY DEF PagingInv
<1>2. /\ reading'.shown = reading.shown \o listing.items /\ reading'.ended = ~more
      /\ reading'.limited = limited
      /\ more => reading'.token.inner = inner
  BY <1>1, PageFields
<1>3. PICK k \in Nat, n \in Nat : k = Len(reading.shown) /\ n = Len(listing.items)
  BY <1>1, Fields, LenProperties
<1>4. Len(reading'.shown) = k + n
  BY <1>1, <1>2, <1>3, Fields, OneAfterAnother
<1>5. Len(reading'.shown) - Len(reading.shown) = n
  BY <1>3, <1>4
<1>6. SaysWhyShort
  BY <1>2, <1>3, <1>5 DEF SaysWhyShort, Full
<1>7. Advances
  BY <1>2 DEF Advances
<1>8. QED BY <1>6, <1>7

\* A page that is full, or stopped at the limit, comes after at least one candidate.
LEMMA SomethingInspected ==
  ASSUME PagingInv, listing.at # "none", Full(listing.items) \/ AtLimit(listing.inspected)
  PROVE  listing.inspected \in Nat \ {0}
<1>1. listing.inspected \in Nat /\ Len(listing.items) \in Nat
  BY Fields, LenProperties DEF PagingInv
<1>2. \A n \in PageSize : n \in Nat \ {0}
  BY PagingAssumption
<1>3. listing.size \in Nat \ {0} /\ Len(listing.items) <= listing.inspected
  BY <1>2 DEF PagingInv, CallInOrder
<1>4. CASE Full(listing.items)
  <2>1. Len(listing.items) = listing.size
    BY <1>4 DEF Full
  <2>2. QED BY <1>1, <1>3, <2>1
<1>5. CASE AtLimit(listing.inspected)
  <2>1. listing.inspected >= ScanLimit /\ ScanLimit \in Nat \ {0}
    BY <1>5, PagingAssumption DEF AtLimit
  <2>2. QED BY <1>1, <2>1
<1>6. QED BY <1>4, <1>5

\* What is left of the call is less than what was left at its beginning.
LEMMA LessIsLeft ==
  ASSUME PagingInv, listing.at # "none", ~reading.changed, Remaining \in Nat,
         Full(listing.items) \/ AtLimit(listing.inspected)
  PROVE  Remaining < Left(reading.token.inner)
<1>1. PICK i \in Nat \ {0} : i = listing.inspected
  BY SomethingInspected
<1>2. Remaining + i <= Left(reading.token.inner)
  BY <1>1 DEF PagingInv, CallAdvances
<1>3. Left(reading.token.inner) \in Nat
  <2>1. reading.token.inner \in Place /\ WellTyped
    BY Fields DEF PagingInv
  <2>2. server = "outlook" => Position(reading.token.inner) <= Cardinality(mail)
    BY DEF PagingInv, OutlookInOrder
  <2>3. QED BY <2>1, <2>2, NoSizeLeft
<1>4. PICK r \in Nat, k \in Nat : r = Remaining /\ k = Left(reading.token.inner)
  BY <1>3
<1>5. r + i <= k => r < k
  OBVIOUS
<1>6. QED BY <1>1, <1>2, <1>4, <1>5

LEMMA GmailAnswers ==
  ASSUME PagingInv, GmailBatchDone, reading' # reading
  PROVE  SaysWhyShort /\ Advances
<1> DEFINE goes == listing.todo # <<>> \/ GmailHasMore
           next == [listing.from EXCEPT !.pending = listing.todo]
<1>1. /\ WellTyped /\ server = "gmail" /\ listing.at = "hydrates"
      /\ listing.todo = <<>> \/ Full(listing.items)
      /\ Full(listing.items) \/ AtLimit(listing.inspected) \/ ~GmailHasMore
      /\ Page(listing.items, goes, next, ScanLimited(listing.items, listing.inspected, goes))
  BY DEF PagingInv, GmailBatchDone
<1>2. listing.from \in Place /\ listing.todo \in Seq(Message) /\ listing.from.pending = <<>>
  BY <1>1, Fields DEF PagingInv, GmailInOrder
<1>3. next \in Place /\ next.pending = listing.todo /\ next.after = listing.from.after
  BY <1>2 DEF Place
<1> HIDE DEF next
<1>4. PICK more \in BOOLEAN : more = goes
  OBVIOUS
<1>5. PICK limited \in BOOLEAN : limited = ScanLimited(listing.items, listing.inspected, goes)
  BY DEF ScanLimited, AtLimit, Full
<1>6. PICK inner \in Place : inner = next
  BY <1>3
<1>7. Page(listing.items, more, inner, limited)
  BY <1>1, <1>4, <1>5, <1>6
<1>8. more => Full(listing.items) \/ AtLimit(listing.inspected)
  BY <1>1, <1>4
<1>9. more /\ ~Full(listing.items) => limited
  BY <1>4, <1>5, <1>8 DEF ScanLimited
<1>10. ASSUME more, ~reading.changed PROVE Left(inner) < Left(reading.token.inner)
  <2>1. PICK o \in Nat, k \in Nat : o = Cardinality(Older(listing.from.after)) /\ k = Len(listing.todo)
    BY <1>1, <1>2, LeftWithGmail, LenProperties
  <2>2. Left(inner) = k + o
    BY <1>1, <1>3, <1>6, <2>1, LeftWithGmail
  <2>3. Left(listing.from) = 0 + o
    <3>1. Left(listing.from) = Len(listing.from.pending) + Cardinality(Older(listing.from.after))
      BY <1>1, <1>2, LeftWithGmail
    <3>2. QED BY <1>2, <2>1, <3>1, EmptySeq
  <2>4. Remaining = Left(listing.from) + k
    BY <1>1, <2>1 DEF Remaining
  <2>5. Remaining = Left(inner) /\ Remaining \in Nat
    BY <2>2, <2>3, <2>4
  <2>6. QED BY <1>1, <1>8, <1>10, <2>5, LessIsLeft
<1>11. QED BY <1>7, <1>9, <1>10, PageGoesOn

LEMMA OutlookAnswers ==
  ASSUME PagingInv, OutlookPageDone, reading' # reading
  PROVE  SaysWhyShort /\ Advances
<1> DEFINE next == [listing.from EXCEPT !.skip = listing.from.skip + listing.size, !.offset = 0]
           left == listing.todo # <<>> \/ listing.more
           enough == Full(listing.items) \/ AtLimit(listing.inspected)
           place == IF listing.todo # <<>> THEN listing.from ELSE next
<1>1. /\ WellTyped /\ OutlookInOrder /\ server = "outlook" /\ listing.at = "reads"
      /\ Page(listing.items, enough /\ left, place, ScanLimited(listing.items, listing.inspected, left))
  BY DEF PagingInv, OutlookPageDone
<1>2. /\ listing.from \in Place /\ listing.size \in Nat /\ listing.from.skip \in Nat
      /\ listing.from.offset \in Nat /\ Cardinality(mail) \in Nat /\ Position(listing.from) \in Nat
  <2>1. /\ listing.from \in Place /\ listing.size \in 0..Batch /\ listing.from.skip \in Nat
        /\ listing.from.offset \in Nat
    BY <1>1, Fields, PlaceFields
  <2>2. listing.size \in Nat
    BY <2>1, PagingAssumption
  <2>3. Cardinality(mail) \in Nat
    BY <1>1, TheWholeList
  <2>4. Position(listing.from) \in Nat
    BY <2>1 DEF Position
  <2>5. QED BY <2>1, <2>2, <2>3, <2>4
<1>3. next \in Place /\ next.skip = listing.from.skip + listing.size /\ next.offset = 0
  <2>1. listing.from.skip + listing.size \in Nat /\ 0 \in Nat
    BY <1>2
  <2>2. QED BY <1>2, <2>1 DEF Place
<1> HIDE DEF next
<1>4. PICK more \in BOOLEAN : more = (enough /\ left)
  OBVIOUS
<1>5. PICK limited \in BOOLEAN : limited = ScanLimited(listing.items, listing.inspected, left)
  BY DEF ScanLimited, AtLimit, Full
<1>6. PICK inner \in Place : inner = place
  BY <1>2, <1>3
<1>7. Page(listing.items, more, inner, limited)
  BY <1>1, <1>4, <1>5, <1>6
<1>8. more => enough /\ left
  BY <1>4
<1>9. more /\ ~Full(listing.items) => limited
  BY <1>5, <1>8 DEF ScanLimited
<1>10. ASSUME more, ~reading.changed PROVE Left(inner) < Left(reading.token.inner)
  <2>1. Position(inner) = Position(listing.from)
    <3>1. CASE listing.todo # <<>>
      BY <1>6, <3>1
    <3>2. CASE listing.todo = <<>>
      <4>1. inner = next /\ listing.more
        BY <1>6, <1>8, <1>10, <3>2
      <4>2. Position(listing.from) = listing.from.skip + listing.size
        BY <1>1, <1>10, <3>2, <4>1, PageUsedUp
      <4>3. Position(next) = listing.from.skip + listing.size
        BY <1>2, <1>3 DEF Position
      <4>4. QED BY <4>1, <4>2, <4>3
    <3>3. QED BY <3>1, <3>2
  <2>2. Left(inner) = Left(listing.from)
    BY <1>1, <1>2, <2>1, LeftWithOutlook
  <2>3. Remaining = Left(listing.from)
    BY <1>1 DEF Remaining
  <2>4. Left(listing.from) \in Nat
    <3>1. Position(listing.from) <= Cardinality(mail)
      BY <1>1, <1>10 DEF OutlookInOrder
    <3>2. QED BY <1>1, <1>2, <3>1, NoSizeLeft
  <2>5. QED BY <1>1, <1>8, <1>10, <2>2, <2>3, <2>4, LessIsLeft
<1>11. QED BY <1>7, <1>9, <1>10, PageGoesOn

LEMMA ImapAnswers ==
  ASSUME PagingInv, ImapFetches, reading' # reading
  PROVE  SaysWhyShort /\ Advances
<1>1. /\ WellTyped /\ ImapInOrder /\ server = "imap" /\ listing.at = "fetches" /\ listing.todo # <<>>
  BY DEF PagingInv, ImapFetches
<1>2. /\ listing.from \in Place /\ listing.todo \in Seq(Message) /\ listing.from.folder \in Folder
      /\ Head(listing.todo) \in Message
  BY <1>1, Fields, PlaceFields, WithoutTheFirst
<1>3. PICK m \in Message : m = Head(listing.todo)
  BY <1>2
<1> DEFINE here == [listing.from EXCEPT !.upper = m]
<1>4. /\ AtLimit(listing.inspected) \/ Full(listing.items)
      /\ Page(listing.items, TRUE, here, ScanLimited(listing.items, listing.inspected, TRUE))
  BY <1>3 DEF ImapFetches
<1>5. here \in Place /\ here.upper = m /\ here.folder = listing.from.folder
  <2>1. m \in 0..Arrived + 1
    BY PagingAssumption DEF Message
  <2>2. QED BY <1>2, <2>1 DEF Place
<1> HIDE DEF here
<1>6. PICK more \in BOOLEAN : more = TRUE
  OBVIOUS
<1>7. PICK limited \in BOOLEAN : limited = ScanLimited(listing.items, listing.inspected, TRUE)
  BY DEF ScanLimited, AtLimit, Full
<1>8. PICK inner \in Place : inner = here
  BY <1>5
<1>9. Page(listing.items, more, inner, limited)
  BY <1>4, <1>6, <1>7, <1>8
<1>10. more /\ ~Full(listing.items) => limited
  BY <1>4, <1>7 DEF ScanLimited
<1>11. ASSUME ~reading.changed PROVE Left(inner) < Left(reading.token.inner)
  <2>1. PICK l \in Nat, i \in Nat : /\ l = Cardinality(LaterFolders(mail, listing.from.folder))
                                    /\ i = Cardinality(InFolder(mail, listing.from.folder, m))
                                    /\ Left(inner) = l + i
    BY <1>1, <1>5, <1>8, LeftWithImap
  <2>2. PICK k \in Nat : k = Len(listing.todo)
    BY <1>2, LenProperties
  <2>3. i <= k
    <3>1. InFolder(mail, listing.from.folder, m) \subseteq ToSet(listing.todo)
      BY <1>1, <1>3 DEF ImapInOrder
    <3>2. IsFiniteSet(ToSet(listing.todo)) /\ Cardinality(ToSet(listing.todo)) <= k
      BY <1>2, <2>2, SizeOfElements
    <3>3. /\ Cardinality(InFolder(mail, listing.from.folder, m)) <= Cardinality(ToSet(listing.todo))
          /\ Cardinality(ToSet(listing.todo)) \in Nat
      BY <3>1, <3>2, FS_Subset, FS_CardinalityType
    <3>4. QED BY <2>1, <3>2, <3>3
  <2>4. Remaining = l + k
    BY <1>1, <2>1, <2>2 DEF Remaining
  <2>5. Remaining < Left(reading.token.inner) /\ Left(reading.token.inner) \in Nat
    <3>1. Remaining \in Nat
      BY <2>4
    <3>2. Left(reading.token.inner) \in Nat
      BY <1>1, Fields, NoSizeLeft
    <3>3. QED BY <1>1, <1>4, <1>11, <3>1, <3>2, LessIsLeft
  <2>6. PICK t \in Nat : t = Left(reading.token.inner)
    BY <2>5
  <2>7. l + k < t /\ Left(inner) = l + i
    BY <2>1, <2>4, <2>5, <2>6
  <2>8. l + i < t
    BY <2>3, <2>7
  <2>9. QED BY <2>6, <2>7, <2>8
<1>12. QED BY <1>9, <1>10, <1>11, PageGoesOn

LEMMA ImapEnds ==
  ASSUME PagingInv, ImapFolderDone, reading' # reading
  PROVE  SaysWhyShort /\ Advances
<1>1. Page(listing.items, FALSE, Beginning, FALSE)
  BY DEF ImapFolderDone
<1>2. PICK more \in BOOLEAN, limited \in BOOLEAN, there \in Place :
        more = FALSE /\ limited = FALSE /\ there = Beginning
  BY Defaults
<1>3. Page(listing.items, more, there, limited) /\ ~more
  BY <1>1, <1>2
<1>4. QED BY <1>3, PageGoesOn

\* Only the end of a page answers.
LEMMA AnswerStep ==
  PagingInv /\ [PagingNext]_pagingVars => (Answered => SaysWhyShort /\ Advances)
<1> SUFFICES ASSUME PagingInv, [PagingNext]_pagingVars, Answered PROVE SaysWhyShort /\ Advances
  OBVIOUS
<1>1. listing.at # "none" /\ listing'.at = "none" /\ reading' # reading
  BY DEF Answered
<1>2. \/ GmailBatchDone \/ OutlookPageDone \/ ImapFetches \/ ImapFolderDone
  <2>1. ~(MailArrives \/ MailGoes \/ TokenExpires)
    BY <1>1 DEF MailArrives, MailGoes, TokenExpires
  <2>2. ~(ListFirst \/ ListNext)
    BY <1>1 DEF ListFirst, ListNext
  <2>3. ~(ListingFails \/ GmailLists \/ GmailHydrates \/ OutlookLists \/ OutlookReads \/ ImapSearches)
    BY <1>1 DEF ListingFails, GmailLists, GmailHydrates, OutlookLists, OutlookReads, ImapSearches
  <2>4. ~(UNCHANGED pagingVars)
    BY <1>1 DEF pagingVars
  <2>5. QED BY <2>1, <2>2, <2>3, <2>4 DEF PagingNext
<1>3. QED BY <1>1, <1>2, GmailAnswers, OutlookAnswers, ImapAnswers, ImapEnds

\* A short page ends the list or says that the scan was limited, and every page with a token
\* leaves less to go: following the tokens through a mailbox that does not change ends.
THEOREM AnswersBringTheReaderForward == PagingSpec => AnswersGoOn
<1>1. PagingInv /\ [PagingNext]_pagingVars =>
        [Answered => \/ Len(reading'.shown) - Len(reading.shown) = listing.size
                     \/ reading'.limited \/ reading'.ended]_pagingVars
  BY AnswerStep DEF SaysWhyShort
<1>2. PagingInv /\ [PagingNext]_pagingVars =>
        [Answered /\ ~reading'.ended /\ ~reading.changed =>
           Left(reading'.token.inner) < Left(reading.token.inner)]_pagingVars
  BY AnswerStep DEF Advances
<1>3. QED BY <1>1, <1>2, PagingIsSound, PTL DEF PagingSpec, AnswersGoOn, ShortPagesEnd, PagesAdvance
=============================================================================
