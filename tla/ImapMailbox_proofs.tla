-------------------------- MODULE ImapMailbox_proofs --------------------------
(***************************************************************************)
(* For any calls, failures and events outside: no message is lost that     *)
(* nobody asked to delete, none that was sent from a draft goes out again, *)
(* and no row leads to another message than its own.                       *)
(*                                                                         *)
(* The invariant has a part about the form of the state, which always      *)
(* holds, and one about the mail, which holds while UIDs keep their        *)
(* meaning: every row that the store or a call has says of the folders     *)
(* what is there or what once was.  Both are shown step by step.           *)
(***************************************************************************)
EXTENDS ImapMailbox, FiniteSetTheorems, TLAPS

-----------------------------------------------------------------------------
(* The invariant.                                                          *)

\* What is left of a call at each of its steps.
ListStages == {<<"openPut", "scan", "save", "release">>, <<"scan", "save", "release">>, <<"save", "release">>}
GetStages == {<<"openPut", "fetch", "save", "release">>, <<"fetch", "save", "release">>, <<"save", "release">>}
CreateStages ==
  {<<"append", "save", "openPut", "fetch", "save", "release">>, <<"save", "openPut", "fetch", "save", "release">>,
   <<"openPut", "fetch", "save", "release">>, <<"fetch", "save", "release">>, <<"save", "release">>}
UpdateStages ==
  {<<"append", "save", "openPut", "fetch", "save", "release", "openRow", "delete", "release">>,
   <<"save", "openPut", "fetch", "save", "release", "openRow", "delete", "release">>,
   <<"openPut", "fetch", "save", "release", "openRow", "delete", "release">>,
   <<"fetch", "save", "release", "openRow", "delete", "release">>,
   <<"save", "release", "openRow", "delete", "release">>,
   <<"openRow", "delete", "release">>, <<"delete", "release">>}
DeleteStages ==
  {<<"openRow", "delete", "release", "drop">>, <<"delete", "release", "drop">>, <<"drop">>,
   <<"openRow", "delete", "drop", "release">>, <<"delete", "drop", "release">>, <<"drop", "release">>}
MarkStages == {<<"openPut", "mark", "release", "save">>, <<"mark", "release", "save">>, <<"save">>}
SendKeepsStages ==
  {<<"openRow", "read", "release", "deliver", "openRow", "move", "release", "openPut", "mark", "release", "save">>,
   <<"read", "release", "deliver", "openRow", "move", "release", "openPut", "mark", "release", "save">>,
   <<"deliver", "openRow", "move", "release", "openPut", "mark", "release", "save">>,
   <<"openRow", "move", "release", "openPut", "mark", "release", "save">>,
   <<"move", "release", "openPut", "mark", "release", "save">>} \cup MarkStages
SendDropsStages ==
  {<<"openRow", "read", "release", "deliver", "openRow", "delete", "release", "drop">>,
   <<"read", "release", "deliver", "openRow", "delete", "release", "drop">>,
   <<"deliver", "openRow", "delete", "release", "drop">>,
   <<"openRow", "delete", "release", "drop">>, <<"delete", "release", "drop">>, <<"drop">>}
SendNewStages == {<<"deliver", "append", "save">>, <<"append", "save">>, <<"save">>, <<"deliver">>}
ModifyStages == {<<"openRow", "move", "save", "release">>, <<"move", "save", "release">>, <<"save", "release">>}
ImapOp == {"list", "get", "create", "update", "delete", "send", "sendNew", "modify"}
StageOf(op, todo) ==
  \/ op = "list" /\ todo \in ListStages
  \/ op = "get" /\ todo \in GetStages
  \/ op = "create" /\ todo \in CreateStages
  \/ op = "update" /\ todo \in UpdateStages
  \/ op = "delete" /\ todo \in DeleteStages
  \/ op = "send" /\ keepsSent /\ todo \in SendKeepsStages
  \/ op = "send" /\ ~keepsSent /\ todo \in SendDropsStages
  \/ op = "sendNew" /\ todo \in SendNewStages
  \/ op = "modify" /\ todo \in ModifyStages

\* A step in a mailbox is made with the lock of the connection.
OwnsLock(todo) ==
  Head(todo) \in {"scan", "fetch", "read", "move", "mark", "delete"} \/ (Len(todo) > 1 /\ todo[2] = "release")
\* The row to save is there.
NeedsPut(op, todo) == Head(todo) \in {"save", "mark"} \/ (op = "send" /\ Head(todo) = "openPut")
\* The draft that is sent has been read, and then moved or deleted.
PastRead(todo) == Head(todo) # "read" /\ (Len(todo) > 1 => todo[2] # "read")
PastMove(todo) == Head(todo) \in {"openPut", "mark", "save", "drop"}

\* Folders after o events outside, when n messages have been written.
IsBox(b, o, n) ==
  /\ b = [validity |-> b.validity, next |-> b.next, held |-> b.held]
  /\ b.validity \in 1..(o + 1) /\ b.next \in Nat \ {0}
  /\ b.held = [u \in DOMAIN b.held |-> b.held[u]]
  /\ DOMAIN b.held \subseteq 1..(b.next - 1)
  /\ \A u \in DOMAIN b.held : b.held[u] \in 1..n
AreBoxes(b, o, n) == b = [f \in Folder |-> b[f]] /\ \A f \in Folder : IsBox(b[f], o, n)
IsRow(r) ==
  /\ r = [id |-> r.id, path |-> r.path, validity |-> r.validity, uid |-> r.uid, draft |-> r.draft, of |-> r.of]
  /\ r.path \in Folder /\ r.uid \in Nat /\ r.of \in 0..Len(line) /\ Len(r.draft) <= 2
IsCall(q) ==
  /\ q = [op |-> q.op, todo |-> q.todo, row |-> q.row, put |-> q.put, to |-> q.to, copy |-> q.copy, known |-> q.known]
  /\ IsRow(q.row) /\ IsRow(q.put) /\ q.to \in Folder
  /\ IF q.todo = <<>> THEN q = Over ELSE StageOf(q.op, q.todo)
  /\ q.todo # <<>> /\ NeedsPut(q.op, q.todo) => q.put.of # 0
  /\ q.op \in {"update", "delete", "send", "modify"} => q.row.of # 0
  /\ q.op \in {"send", "sendNew", "modify"} => q.to # "drafts"
  /\ q.op = "sendNew" => q.known = {}
BoxForm == AreBoxes(box, outside, Len(line))
LineForm == line \in Seq(Nat) /\ \A k \in 1..Len(line) : line[k] \in 1..Len(line)
PlacesForm == \A x \in places : IsRow(x) /\ x.of # 0
\* A call has the lock during its steps in a mailbox only.
CallsForm ==
  /\ calls = [c \in ImapCall |-> calls[c]] /\ \A c \in ImapCall : IsCall(calls[c])
  /\ imapLock \in ImapCall => calls[imapLock].todo # <<>> /\ OwnsLock(calls[imapLock].todo)
CountForm == imapBegun \in 0..MaxImapCalls /\ outside \in 0..MaxOutside /\ keepsSent \in BOOLEAN
ImapForm == BoxForm /\ LineForm /\ PlacesForm /\ CallsForm /\ CountForm

Lie(b, f, u, k) == u \in DOMAIN b[f].held /\ b[f].held[u] = k
Lies(f, u, k) == Lie(box, f, u, k)
Rows == places \cup {calls[c].row : c \in ImapCall} \cup {calls[c].put : c \in ImapCall} \cup {NoPlace}
\* A row leads to the message it was saved for or to nothing, and a draft is where every
\* row of it says; no message can come to lie where a row is.
Named(r) ==
  /\ r.uid < box[r.path].next
  /\ \A k : Lies(r.path, r.uid, k) => k = r.of
  /\ \A u : Lies("drafts", u, r.of) => r.path = "drafts" /\ r.uid = u
InOnePlace == \A f, g \in Folder : \A u, v, k : Lies(f, u, k) /\ Lies(g, v, k) => f = g /\ u = v
\* The newest version of a message is in a folder.
NewestIsThere(l) ==
  \E k \in 1..Len(line) : /\ line[k] = l /\ \A j \in 1..Len(line) : line[j] = l => j <= k
                          /\ \E f \in Folder : \E u : Lies(f, u, k)
\* A message that has been sent is not in the drafts; one that is moved to the sent
\* messages is nowhere that a row with a draft id leads to.
Settled(m) ==
  /\ m \in 1..Len(line) /\ \A u : ~Lies("drafts", u, m)
  /\ keepsSent => \A r \in Rows : r.draft # <<>> => ~Lies(r.path, r.uid, m)
CallHolds(q) ==
  /\ q.op = "update" /\ Head(q.todo) # "append" => \E j \in 1..Len(line) : q.row.of < j /\ line[j] = line[q.row.of]
  /\ q.op = "delete" \/ (q.op = "send" /\ ~keepsSent) => line[q.row.of] \notin kept
  /\ q.op = "send" =>
       /\ q.row.draft # <<>> /\ q.known \subseteq spent
       /\ PastRead(q.todo) => q.copy = q.row.of
       /\ PastMove(q.todo) => Settled(q.copy)
       /\ Head(q.todo) = "deliver" /\ q.copy \in q.known => ~keepsSent /\ q.row.path # "drafts"
MailHolds ==
  /\ \A r \in Rows : Named(r)
  /\ InOnePlace
  /\ \A l \in kept : NewestIsThere(l)
  /\ \A m \in spent : Settled(m)
  /\ \A c \in ImapCall : CallHolds(calls[c])
ImapIInv == ImapForm /\ (SameNumbers => MailHolds)

-----------------------------------------------------------------------------
(* The steps of the calls.                                                 *)

\* What follows a step of a call: another step of the same operation, or nothing.
SetsPut(todo) == Head(todo) \in {"scan", "fetch", "append", "move"}
Follows(op, todo, next) ==
  /\ next = <<>> \/ StageOf(op, next)
  /\ Head(todo) \in {"openPut", "openRow", "append"} => next = Tail(todo) /\ next # <<>>
  /\ Head(todo) \in {"openPut", "openRow"} => OwnsLock(next)
  /\ Len(todo) > 1 /\ OwnsLock(todo) /\ todo[2] # "release" => next # <<>> /\ OwnsLock(next)
  /\ Len(todo) <= 1 \/ Head(todo) = "append" => ~OwnsLock(todo)
  /\ next # <<>> /\ NeedsPut(op, next) => NeedsPut(op, todo) \/ SetsPut(todo)
  /\ op = "update" /\ next # <<>> => Head(next) # "append"
Sends(todo, next) ==
  /\ next # <<>> /\ PastRead(next) => PastRead(todo) \/ Head(todo) = "read"
  /\ next # <<>> /\ PastMove(next) => PastMove(todo) \/ Head(todo) \in {"move", "delete"}
  /\ next = <<>> => PastMove(todo)
  /\ Head(todo) \in {"deliver", "move", "delete"} => PastRead(todo)
  /\ PastMove(todo) => PastRead(todo)
  /\ next # <<>> /\ Head(next) = "deliver" => Head(todo) = "read"

\* The steps of each call, one after the other.
LEMMA ListFollows ==
  ASSUME NEW todo \in ListStages PROVE Follows("list", todo, After(todo))
<1>1. CASE todo = <<"openPut", "scan", "save", "release">>
  <2>1. After(todo) = <<"scan", "save", "release">>
    BY <1>1 DEF After
  <2> QED
    BY <1>1, <2>1 DEF Follows, OwnsLock, NeedsPut, SetsPut, StageOf, ListStages
<1>2. CASE todo = <<"scan", "save", "release">>
  <2>1. After(todo) = <<"save", "release">>
    BY <1>2 DEF After
  <2> QED
    BY <1>2, <2>1 DEF Follows, OwnsLock, NeedsPut, SetsPut, StageOf, ListStages
<1>3. CASE todo = <<"save", "release">>
  <2>1. After(todo) = <<>>
    BY <1>3 DEF After
  <2> QED
    BY <1>3, <2>1 DEF Follows, OwnsLock, NeedsPut, SetsPut, StageOf, ListStages
<1> QED
  BY <1>1, <1>2, <1>3 DEF ListStages

LEMMA GetFollows ==
  ASSUME NEW todo \in GetStages PROVE Follows("get", todo, After(todo))
<1>1. CASE todo = <<"openPut", "fetch", "save", "release">>
  <2>1. After(todo) = <<"fetch", "save", "release">>
    BY <1>1 DEF After
  <2> QED
    BY <1>1, <2>1 DEF Follows, OwnsLock, NeedsPut, SetsPut, StageOf, GetStages
<1>2. CASE todo = <<"fetch", "save", "release">>
  <2>1. After(todo) = <<"save", "release">>
    BY <1>2 DEF After
  <2> QED
    BY <1>2, <2>1 DEF Follows, OwnsLock, NeedsPut, SetsPut, StageOf, GetStages
<1>3. CASE todo = <<"save", "release">>
  <2>1. After(todo) = <<>>
    BY <1>3 DEF After
  <2> QED
    BY <1>3, <2>1 DEF Follows, OwnsLock, NeedsPut, SetsPut, StageOf, GetStages
<1> QED
  BY <1>1, <1>2, <1>3 DEF GetStages

LEMMA CreateFollows ==
  ASSUME NEW todo \in CreateStages PROVE Follows("create", todo, After(todo))
<1>1. CASE todo = <<"append", "save", "openPut", "fetch", "save", "release">>
  <2>1. After(todo) = <<"save", "openPut", "fetch", "save", "release">>
    BY <1>1 DEF After
  <2> QED
    BY <1>1, <2>1 DEF Follows, OwnsLock, NeedsPut, SetsPut, StageOf, CreateStages
<1>2. CASE todo = <<"save", "openPut", "fetch", "save", "release">>
  <2>1. After(todo) = <<"openPut", "fetch", "save", "release">>
    BY <1>2 DEF After
  <2> QED
    BY <1>2, <2>1 DEF Follows, OwnsLock, NeedsPut, SetsPut, StageOf, CreateStages
<1>3. CASE todo = <<"openPut", "fetch", "save", "release">>
  <2>1. After(todo) = <<"fetch", "save", "release">>
    BY <1>3 DEF After
  <2> QED
    BY <1>3, <2>1 DEF Follows, OwnsLock, NeedsPut, SetsPut, StageOf, CreateStages
<1>4. CASE todo = <<"fetch", "save", "release">>
  <2>1. After(todo) = <<"save", "release">>
    BY <1>4 DEF After
  <2> QED
    BY <1>4, <2>1 DEF Follows, OwnsLock, NeedsPut, SetsPut, StageOf, CreateStages
<1>5. CASE todo = <<"save", "release">>
  <2>1. After(todo) = <<>>
    BY <1>5 DEF After
  <2> QED
    BY <1>5, <2>1 DEF Follows, OwnsLock, NeedsPut, SetsPut, StageOf, CreateStages
<1> QED
  BY <1>1, <1>2, <1>3, <1>4, <1>5 DEF CreateStages

LEMMA UpdateFollows ==
  ASSUME NEW todo \in UpdateStages PROVE Follows("update", todo, After(todo))
<1>1. CASE todo = <<"append", "save", "openPut", "fetch", "save", "release", "openRow", "delete", "release">>
  <2>1. After(todo) = <<"save", "openPut", "fetch", "save", "release", "openRow", "delete", "release">>
    BY <1>1 DEF After
  <2> QED
    BY <1>1, <2>1 DEF Follows, OwnsLock, NeedsPut, SetsPut, StageOf, UpdateStages
<1>2. CASE todo = <<"save", "openPut", "fetch", "save", "release", "openRow", "delete", "release">>
  <2>1. After(todo) = <<"openPut", "fetch", "save", "release", "openRow", "delete", "release">>
    BY <1>2 DEF After
  <2> QED
    BY <1>2, <2>1 DEF Follows, OwnsLock, NeedsPut, SetsPut, StageOf, UpdateStages
<1>3. CASE todo = <<"openPut", "fetch", "save", "release", "openRow", "delete", "release">>
  <2>1. After(todo) = <<"fetch", "save", "release", "openRow", "delete", "release">>
    BY <1>3 DEF After
  <2> QED
    BY <1>3, <2>1 DEF Follows, OwnsLock, NeedsPut, SetsPut, StageOf, UpdateStages
<1>4. CASE todo = <<"fetch", "save", "release", "openRow", "delete", "release">>
  <2>1. After(todo) = <<"save", "release", "openRow", "delete", "release">>
    BY <1>4 DEF After
  <2> QED
    BY <1>4, <2>1 DEF Follows, OwnsLock, NeedsPut, SetsPut, StageOf, UpdateStages
<1>5. CASE todo = <<"save", "release", "openRow", "delete", "release">>
  <2>1. After(todo) = <<"openRow", "delete", "release">>
    BY <1>5 DEF After
  <2> QED
    BY <1>5, <2>1 DEF Follows, OwnsLock, NeedsPut, SetsPut, StageOf, UpdateStages
<1>6. CASE todo = <<"openRow", "delete", "release">>
  <2>1. After(todo) = <<"delete", "release">>
    BY <1>6 DEF After
  <2> QED
    BY <1>6, <2>1 DEF Follows, OwnsLock, NeedsPut, SetsPut, StageOf, UpdateStages
<1>7. CASE todo = <<"delete", "release">>
  <2>1. After(todo) = <<>>
    BY <1>7 DEF After
  <2> QED
    BY <1>7, <2>1 DEF Follows, OwnsLock, NeedsPut, SetsPut, StageOf, UpdateStages
<1> QED
  BY <1>1, <1>2, <1>3, <1>4, <1>5, <1>6, <1>7 DEF UpdateStages

LEMMA DeleteFollows ==
  ASSUME NEW todo \in DeleteStages PROVE Follows("delete", todo, After(todo))
<1>1. CASE todo = <<"openRow", "delete", "release", "drop">>
  <2>1. After(todo) = <<"delete", "release", "drop">>
    BY <1>1 DEF After
  <2> QED
    BY <1>1, <2>1 DEF Follows, OwnsLock, NeedsPut, SetsPut, StageOf, DeleteStages
<1>2. CASE todo = <<"delete", "release", "drop">>
  <2>1. After(todo) = <<"drop">>
    BY <1>2 DEF After
  <2> QED
    BY <1>2, <2>1 DEF Follows, OwnsLock, NeedsPut, SetsPut, StageOf, DeleteStages
<1>3. CASE todo = <<"drop">>
  <2>1. After(todo) = <<>>
    BY <1>3 DEF After
  <2> QED
    BY <1>3, <2>1 DEF Follows, OwnsLock, NeedsPut, SetsPut, StageOf, DeleteStages
<1>4. CASE todo = <<"openRow", "delete", "drop", "release">>
  <2>1. After(todo) = <<"delete", "drop", "release">>
    BY <1>4 DEF After
  <2> QED
    BY <1>4, <2>1 DEF Follows, OwnsLock, NeedsPut, SetsPut, StageOf, DeleteStages
<1>5. CASE todo = <<"delete", "drop", "release">>
  <2>1. After(todo) = <<"drop", "release">>
    BY <1>5 DEF After
  <2> QED
    BY <1>5, <2>1 DEF Follows, OwnsLock, NeedsPut, SetsPut, StageOf, DeleteStages
<1>6. CASE todo = <<"drop", "release">>
  <2>1. After(todo) = <<>>
    BY <1>6 DEF After
  <2> QED
    BY <1>6, <2>1 DEF Follows, OwnsLock, NeedsPut, SetsPut, StageOf, DeleteStages
<1> QED
  BY <1>1, <1>2, <1>3, <1>4, <1>5, <1>6 DEF DeleteStages

LEMMA SendKeepsFollows ==
  ASSUME NEW todo \in SendKeepsStages, keepsSent PROVE Follows("send", todo, After(todo)) /\ Sends(todo, After(todo))
<1>1. CASE todo = <<"openRow", "read", "release", "deliver", "openRow", "move", "release", "openPut", "mark", "release", "save">>
  <2>1. After(todo) = <<"read", "release", "deliver", "openRow", "move", "release", "openPut", "mark", "release", "save">>
    BY <1>1 DEF After
  <2>4. After(todo) \in SendKeepsStages
    BY <2>1 DEF SendKeepsStages, MarkStages
  <2>2. Follows("send", todo, After(todo))
    BY <1>1, <2>1, <2>4 DEF Follows, OwnsLock, NeedsPut, SetsPut, StageOf
  <2>5. todo # <<>> /\ Head(todo) = "openRow" /\ Len(todo) = 11 /\ todo[2] = "read"
    BY <1>1
  <2>6. After(todo) # <<>> /\ Head(After(todo)) = "read" /\ Len(After(todo)) = 10 /\ After(todo)[2] = "release"
    BY <2>1
  <2>3. Sends(todo, After(todo))
    BY <2>5, <2>6 DEF Sends, PastRead, PastMove
  <2> QED
    BY <2>2, <2>3
<1>2. CASE todo = <<"read", "release", "deliver", "openRow", "move", "release", "openPut", "mark", "release", "save">>
  <2>1. After(todo) = <<"deliver", "openRow", "move", "release", "openPut", "mark", "release", "save">>
    BY <1>2 DEF After
  <2>4. After(todo) \in SendKeepsStages
    BY <2>1 DEF SendKeepsStages, MarkStages
  <2>2. Follows("send", todo, After(todo))
    BY <1>2, <2>1, <2>4 DEF Follows, OwnsLock, NeedsPut, SetsPut, StageOf
  <2>5. todo # <<>> /\ Head(todo) = "read" /\ Len(todo) = 10 /\ todo[2] = "release"
    BY <1>2
  <2>6. After(todo) # <<>> /\ Head(After(todo)) = "deliver" /\ Len(After(todo)) = 8 /\ After(todo)[2] = "openRow"
    BY <2>1
  <2>3. Sends(todo, After(todo))
    BY <2>5, <2>6 DEF Sends, PastRead, PastMove
  <2> QED
    BY <2>2, <2>3
<1>3. CASE todo = <<"deliver", "openRow", "move", "release", "openPut", "mark", "release", "save">>
  <2>1. After(todo) = <<"openRow", "move", "release", "openPut", "mark", "release", "save">>
    BY <1>3 DEF After
  <2>4. After(todo) \in SendKeepsStages
    BY <2>1 DEF SendKeepsStages, MarkStages
  <2>2. Follows("send", todo, After(todo))
    BY <1>3, <2>1, <2>4 DEF Follows, OwnsLock, NeedsPut, SetsPut, StageOf
  <2>5. todo # <<>> /\ Head(todo) = "deliver" /\ Len(todo) = 8 /\ todo[2] = "openRow"
    BY <1>3
  <2>6. After(todo) # <<>> /\ Head(After(todo)) = "openRow" /\ Len(After(todo)) = 7 /\ After(todo)[2] = "move"
    BY <2>1
  <2>3. Sends(todo, After(todo))
    BY <2>5, <2>6 DEF Sends, PastRead, PastMove
  <2> QED
    BY <2>2, <2>3
<1>4. CASE todo = <<"openRow", "move", "release", "openPut", "mark", "release", "save">>
  <2>1. After(todo) = <<"move", "release", "openPut", "mark", "release", "save">>
    BY <1>4 DEF After
  <2>4. After(todo) \in SendKeepsStages
    BY <2>1 DEF SendKeepsStages, MarkStages
  <2>2. Follows("send", todo, After(todo))
    BY <1>4, <2>1, <2>4 DEF Follows, OwnsLock, NeedsPut, SetsPut, StageOf
  <2>5. todo # <<>> /\ Head(todo) = "openRow" /\ Len(todo) = 7 /\ todo[2] = "move"
    BY <1>4
  <2>6. After(todo) # <<>> /\ Head(After(todo)) = "move" /\ Len(After(todo)) = 6 /\ After(todo)[2] = "release"
    BY <2>1
  <2>3. Sends(todo, After(todo))
    BY <2>5, <2>6 DEF Sends, PastRead, PastMove
  <2> QED
    BY <2>2, <2>3
<1>5. CASE todo = <<"move", "release", "openPut", "mark", "release", "save">>
  <2>1. After(todo) = <<"openPut", "mark", "release", "save">>
    BY <1>5 DEF After
  <2>4. After(todo) \in SendKeepsStages
    BY <2>1 DEF SendKeepsStages, MarkStages
  <2>2. Follows("send", todo, After(todo))
    BY <1>5, <2>1, <2>4 DEF Follows, OwnsLock, NeedsPut, SetsPut, StageOf
  <2>5. todo # <<>> /\ Head(todo) = "move" /\ Len(todo) = 6 /\ todo[2] = "release"
    BY <1>5
  <2>6. After(todo) # <<>> /\ Head(After(todo)) = "openPut" /\ Len(After(todo)) = 4 /\ After(todo)[2] = "mark"
    BY <2>1
  <2>3. Sends(todo, After(todo))
    BY <2>5, <2>6 DEF Sends, PastRead, PastMove
  <2> QED
    BY <2>2, <2>3
<1>6. CASE todo = <<"openPut", "mark", "release", "save">>
  <2>1. After(todo) = <<"mark", "release", "save">>
    BY <1>6 DEF After
  <2>4. After(todo) \in SendKeepsStages
    BY <2>1 DEF SendKeepsStages, MarkStages
  <2>2. Follows("send", todo, After(todo))
    BY <1>6, <2>1, <2>4 DEF Follows, OwnsLock, NeedsPut, SetsPut, StageOf
  <2>5. todo # <<>> /\ Head(todo) = "openPut" /\ Len(todo) = 4 /\ todo[2] = "mark"
    BY <1>6
  <2>6. After(todo) # <<>> /\ Head(After(todo)) = "mark" /\ Len(After(todo)) = 3 /\ After(todo)[2] = "release"
    BY <2>1
  <2>3. Sends(todo, After(todo))
    BY <2>5, <2>6 DEF Sends, PastRead, PastMove
  <2> QED
    BY <2>2, <2>3
<1>7. CASE todo = <<"mark", "release", "save">>
  <2>1. After(todo) = <<"save">>
    BY <1>7 DEF After
  <2>4. After(todo) \in SendKeepsStages
    BY <2>1 DEF SendKeepsStages, MarkStages
  <2>2. Follows("send", todo, After(todo))
    BY <1>7, <2>1, <2>4 DEF Follows, OwnsLock, NeedsPut, SetsPut, StageOf
  <2>5. todo # <<>> /\ Head(todo) = "mark" /\ Len(todo) = 3 /\ todo[2] = "release"
    BY <1>7
  <2>6. After(todo) # <<>> /\ Head(After(todo)) = "save" /\ Len(After(todo)) = 1
    BY <2>1
  <2>3. Sends(todo, After(todo))
    BY <2>5, <2>6 DEF Sends, PastRead, PastMove
  <2> QED
    BY <2>2, <2>3
<1>8. CASE todo = <<"save">>
  <2>1. After(todo) = <<>>
    BY <1>8 DEF After
  <2>2. Follows("send", todo, After(todo))
    BY <1>8, <2>1 DEF Follows, OwnsLock, NeedsPut, SetsPut, StageOf
  <2>5. todo # <<>> /\ Head(todo) = "save" /\ Len(todo) = 1
    BY <1>8
  <2>6. After(todo) = <<>>
    BY <2>1
  <2>3. Sends(todo, After(todo))
    BY <2>5, <2>6 DEF Sends, PastRead, PastMove
  <2> QED
    BY <2>2, <2>3
<1> QED
  BY <1>1, <1>2, <1>3, <1>4, <1>5, <1>6, <1>7, <1>8 DEF SendKeepsStages, MarkStages

LEMMA SendDropsFollows ==
  ASSUME NEW todo \in SendDropsStages, ~keepsSent PROVE Follows("send", todo, After(todo)) /\ Sends(todo, After(todo))
<1>1. CASE todo = <<"openRow", "read", "release", "deliver", "openRow", "delete", "release", "drop">>
  <2>1. After(todo) = <<"read", "release", "deliver", "openRow", "delete", "release", "drop">>
    BY <1>1 DEF After
  <2>4. After(todo) \in SendDropsStages
    BY <2>1 DEF SendDropsStages, MarkStages
  <2>2. Follows("send", todo, After(todo))
    BY <1>1, <2>1, <2>4 DEF Follows, OwnsLock, NeedsPut, SetsPut, StageOf
  <2>5. todo # <<>> /\ Head(todo) = "openRow" /\ Len(todo) = 8 /\ todo[2] = "read"
    BY <1>1
  <2>6. After(todo) # <<>> /\ Head(After(todo)) = "read" /\ Len(After(todo)) = 7 /\ After(todo)[2] = "release"
    BY <2>1
  <2>3. Sends(todo, After(todo))
    BY <2>5, <2>6 DEF Sends, PastRead, PastMove
  <2> QED
    BY <2>2, <2>3
<1>2. CASE todo = <<"read", "release", "deliver", "openRow", "delete", "release", "drop">>
  <2>1. After(todo) = <<"deliver", "openRow", "delete", "release", "drop">>
    BY <1>2 DEF After
  <2>4. After(todo) \in SendDropsStages
    BY <2>1 DEF SendDropsStages, MarkStages
  <2>2. Follows("send", todo, After(todo))
    BY <1>2, <2>1, <2>4 DEF Follows, OwnsLock, NeedsPut, SetsPut, StageOf
  <2>5. todo # <<>> /\ Head(todo) = "read" /\ Len(todo) = 7 /\ todo[2] = "release"
    BY <1>2
  <2>6. After(todo) # <<>> /\ Head(After(todo)) = "deliver" /\ Len(After(todo)) = 5 /\ After(todo)[2] = "openRow"
    BY <2>1
  <2>3. Sends(todo, After(todo))
    BY <2>5, <2>6 DEF Sends, PastRead, PastMove
  <2> QED
    BY <2>2, <2>3
<1>3. CASE todo = <<"deliver", "openRow", "delete", "release", "drop">>
  <2>1. After(todo) = <<"openRow", "delete", "release", "drop">>
    BY <1>3 DEF After
  <2>4. After(todo) \in SendDropsStages
    BY <2>1 DEF SendDropsStages, MarkStages
  <2>2. Follows("send", todo, After(todo))
    BY <1>3, <2>1, <2>4 DEF Follows, OwnsLock, NeedsPut, SetsPut, StageOf
  <2>5. todo # <<>> /\ Head(todo) = "deliver" /\ Len(todo) = 5 /\ todo[2] = "openRow"
    BY <1>3
  <2>6. After(todo) # <<>> /\ Head(After(todo)) = "openRow" /\ Len(After(todo)) = 4 /\ After(todo)[2] = "delete"
    BY <2>1
  <2>3. Sends(todo, After(todo))
    BY <2>5, <2>6 DEF Sends, PastRead, PastMove
  <2> QED
    BY <2>2, <2>3
<1>4. CASE todo = <<"openRow", "delete", "release", "drop">>
  <2>1. After(todo) = <<"delete", "release", "drop">>
    BY <1>4 DEF After
  <2>4. After(todo) \in SendDropsStages
    BY <2>1 DEF SendDropsStages, MarkStages
  <2>2. Follows("send", todo, After(todo))
    BY <1>4, <2>1, <2>4 DEF Follows, OwnsLock, NeedsPut, SetsPut, StageOf
  <2>5. todo # <<>> /\ Head(todo) = "openRow" /\ Len(todo) = 4 /\ todo[2] = "delete"
    BY <1>4
  <2>6. After(todo) # <<>> /\ Head(After(todo)) = "delete" /\ Len(After(todo)) = 3 /\ After(todo)[2] = "release"
    BY <2>1
  <2>3. Sends(todo, After(todo))
    BY <2>5, <2>6 DEF Sends, PastRead, PastMove
  <2> QED
    BY <2>2, <2>3
<1>5. CASE todo = <<"delete", "release", "drop">>
  <2>1. After(todo) = <<"drop">>
    BY <1>5 DEF After
  <2>4. After(todo) \in SendDropsStages
    BY <2>1 DEF SendDropsStages, MarkStages
  <2>2. Follows("send", todo, After(todo))
    BY <1>5, <2>1, <2>4 DEF Follows, OwnsLock, NeedsPut, SetsPut, StageOf
  <2>5. todo # <<>> /\ Head(todo) = "delete" /\ Len(todo) = 3 /\ todo[2] = "release"
    BY <1>5
  <2>6. After(todo) # <<>> /\ Head(After(todo)) = "drop" /\ Len(After(todo)) = 1
    BY <2>1
  <2>3. Sends(todo, After(todo))
    BY <2>5, <2>6 DEF Sends, PastRead, PastMove
  <2> QED
    BY <2>2, <2>3
<1>6. CASE todo = <<"drop">>
  <2>1. After(todo) = <<>>
    BY <1>6 DEF After
  <2>2. Follows("send", todo, After(todo))
    BY <1>6, <2>1 DEF Follows, OwnsLock, NeedsPut, SetsPut, StageOf
  <2>5. todo # <<>> /\ Head(todo) = "drop" /\ Len(todo) = 1
    BY <1>6
  <2>6. After(todo) = <<>>
    BY <2>1
  <2>3. Sends(todo, After(todo))
    BY <2>5, <2>6 DEF Sends, PastRead, PastMove
  <2> QED
    BY <2>2, <2>3
<1> QED
  BY <1>1, <1>2, <1>3, <1>4, <1>5, <1>6 DEF SendDropsStages, MarkStages

LEMMA SendNewFollows ==
  ASSUME NEW todo \in SendNewStages PROVE Follows("sendNew", todo, After(todo))
<1>1. CASE todo = <<"deliver", "append", "save">>
  <2>1. After(todo) = <<"append", "save">>
    BY <1>1 DEF After
  <2> QED
    BY <1>1, <2>1 DEF Follows, OwnsLock, NeedsPut, SetsPut, StageOf, SendNewStages
<1>2. CASE todo = <<"append", "save">>
  <2>1. After(todo) = <<"save">>
    BY <1>2 DEF After
  <2> QED
    BY <1>2, <2>1 DEF Follows, OwnsLock, NeedsPut, SetsPut, StageOf, SendNewStages
<1>3. CASE todo = <<"save">>
  <2>1. After(todo) = <<>>
    BY <1>3 DEF After
  <2> QED
    BY <1>3, <2>1 DEF Follows, OwnsLock, NeedsPut, SetsPut, StageOf, SendNewStages
<1>4. CASE todo = <<"deliver">>
  <2>1. After(todo) = <<>>
    BY <1>4 DEF After
  <2> QED
    BY <1>4, <2>1 DEF Follows, OwnsLock, NeedsPut, SetsPut, StageOf, SendNewStages
<1> QED
  BY <1>1, <1>2, <1>3, <1>4 DEF SendNewStages

LEMMA ModifyFollows ==
  ASSUME NEW todo \in ModifyStages PROVE Follows("modify", todo, After(todo))
<1>1. CASE todo = <<"openRow", "move", "save", "release">>
  <2>1. After(todo) = <<"move", "save", "release">>
    BY <1>1 DEF After
  <2> QED
    BY <1>1, <2>1 DEF Follows, OwnsLock, NeedsPut, SetsPut, StageOf, ModifyStages
<1>2. CASE todo = <<"move", "save", "release">>
  <2>1. After(todo) = <<"save", "release">>
    BY <1>2 DEF After
  <2> QED
    BY <1>2, <2>1 DEF Follows, OwnsLock, NeedsPut, SetsPut, StageOf, ModifyStages
<1>3. CASE todo = <<"save", "release">>
  <2>1. After(todo) = <<>>
    BY <1>3 DEF After
  <2> QED
    BY <1>3, <2>1 DEF Follows, OwnsLock, NeedsPut, SetsPut, StageOf, ModifyStages
<1> QED
  BY <1>1, <1>2, <1>3 DEF ModifyStages
\* Whatever the call, what is left of it after a step follows from the step.
LEMMA CallFollows ==
  ASSUME NEW op, NEW todo, StageOf(op, todo)
  PROVE  Follows(op, todo, After(todo)) /\ (op = "send" => Sends(todo, After(todo)))
  BY ListFollows, GetFollows, CreateFollows, UpdateFollows, DeleteFollows, SendKeepsFollows, SendDropsFollows,
     SendNewFollows, ModifyFollows, Zenon DEF StageOf

\* Which operations have a step.
LEMMA WhoseStep ==
  ASSUME NEW op, NEW todo, StageOf(op, todo)
  PROVE  /\ todo # <<>> /\ op \in ImapOp
         /\ Head(todo) = "append" => op \in {"create", "update", "sendNew"}
         /\ Head(todo) = "delete" => op \in {"update", "delete"} \/ (op = "send" /\ ~keepsSent)
         /\ Head(todo) = "move" => op \in {"send", "modify"}
         /\ Head(todo) = "scan" => op = "list"
         /\ Head(todo) = "fetch" => op \in {"get", "create", "update"}
         /\ Head(todo) = "read" => op = "send"
         /\ Head(todo) = "deliver" => op \in {"send", "sendNew"}
<1>1. op = "list" /\ todo \in ListStages => todo # <<>> /\ Head(todo) \in {"openPut", "scan", "save"}
  BY DEF ListStages
<1>2. op = "get" /\ todo \in GetStages => todo # <<>> /\ Head(todo) \in {"openPut", "fetch", "save"}
  BY DEF GetStages
<1>3. op = "create" /\ todo \in CreateStages => todo # <<>> /\ Head(todo) \in {"append", "openPut", "fetch", "save"}
  BY DEF CreateStages
<1>4. op = "update" /\ todo \in UpdateStages =>
        todo # <<>> /\ Head(todo) \in {"append", "openPut", "fetch", "save", "openRow", "delete"}
  BY DEF UpdateStages
<1>5. op = "delete" /\ todo \in DeleteStages => todo # <<>> /\ Head(todo) \in {"openRow", "delete", "drop"}
  BY DEF DeleteStages
<1>6. op = "send" /\ todo \in SendKeepsStages =>
        todo # <<>> /\ Head(todo) \in {"openRow", "read", "deliver", "move", "openPut", "mark", "save"}
  BY DEF SendKeepsStages, MarkStages
<1>7. op = "send" /\ todo \in SendDropsStages =>
        todo # <<>> /\ Head(todo) \in {"openRow", "read", "deliver", "delete", "drop"}
  BY DEF SendDropsStages
<1>8. op = "sendNew" /\ todo \in SendNewStages => todo # <<>> /\ Head(todo) \in {"deliver", "append", "save"}
  BY DEF SendNewStages
<1>9. op = "modify" /\ todo \in ModifyStages => todo # <<>> /\ Head(todo) \in {"openRow", "move", "save"}
  BY DEF ModifyStages
<1> QED
  BY <1>1, <1>2, <1>3, <1>4, <1>5, <1>6, <1>7, <1>8, <1>9 DEF StageOf, ImapOp

-----------------------------------------------------------------------------
(* The form of the state.                                                  *)

LEMMA EmptyDraft == Len(<<>>) = 0
OBVIOUS

\* A call that has no row has one of the right form.
LEMMA NoPlaceIsRow == ASSUME LineForm PROVE IsRow(NoPlace) /\ \A f \in Folder : IsRow([NoPlace EXCEPT !.path = f])
<1>1. Len(line) \in Nat
  BY DEF LineForm
<1> QED
  BY <1>1, EmptyDraft DEF IsRow, NoPlace, Folder

LEMMA OverIsCall == ASSUME LineForm PROVE IsCall(Over)
  BY NoPlaceIsRow DEF IsCall, Over, Folder

\* Messages are only added: what has the right form keeps it.
LEMMA RowKept == ASSUME NEW r, IsRow(r), LineForm, LineForm', Len(line) <= Len(line') PROVE IsRow(r)'
<1>1. Len(line) \in Nat /\ Len(line') \in Nat
  BY DEF LineForm
<1> QED
  BY <1>1 DEF IsRow

LEMMA CallKept ==
  ASSUME NEW q, IsCall(q), LineForm, LineForm', Len(line) <= Len(line'), UNCHANGED keepsSent
  PROVE  IsCall(q)'
<1>1. IsRow(q.row)' /\ IsRow(q.put)'
  BY RowKept DEF IsCall
<1>2. \A op, todo : StageOf(op, todo) => StageOf(op, todo)'
  BY DEF StageOf
<1> QED
  BY <1>1, <1>2 DEF IsCall

LEMMA PlacesKept ==
  ASSUME PlacesForm, LineForm, LineForm', Len(line) <= Len(line'), \A x \in places' : x \in places \/ (IsRow(x)' /\ x.of # 0)
  PROVE  PlacesForm'
  BY RowKept DEF PlacesForm

\* The other calls are as they were, and the lock is given, given back or left.
LEMMA CallsKept ==
  ASSUME ImapForm, LineForm', Len(line) <= Len(line'), UNCHANGED keepsSent,
         NEW c \in ImapCall, NEW q, calls' = [calls EXCEPT ![c] = q], IsCall(q)',
         imapLock' \in {imapLock, c, NoImapCall}, imapLock' = c => q.todo # <<>> /\ OwnsLock(q.todo)
  PROVE  CallsForm' /\ calls'[c] = q
<1>1. calls' = [d \in ImapCall |-> IF d = c THEN q ELSE calls[d]]
  BY DEF ImapForm, CallsForm
<1>2. calls'[c] = q /\ \A d \in ImapCall : d # c => calls'[d] = calls[d]
  BY <1>1
<1>3. \A d \in ImapCall : IsCall(calls[d])'
  <2>1. TAKE d \in ImapCall
  <2>2. CASE d = c
    BY <2>2, <1>2
  <2>3. CASE d # c
    <3>1. PICK p : p = calls[d]
      OBVIOUS
    <3>2. IsCall(p)
      BY <3>1 DEF ImapForm, CallsForm
    <3>3. IsCall(p)'
      BY <3>2, CallKept DEF ImapForm
    <3> QED
      BY <3>1, <3>3, <2>3, <1>2
  <2> QED
    BY <2>2, <2>3
<1>4. (imapLock \in ImapCall => calls[imapLock].todo # <<>> /\ OwnsLock(calls[imapLock].todo))'
  BY <1>2, ImapAssumption DEF ImapForm, CallsForm, OwnsLock
<1> QED
  BY <1>1, <1>2, <1>3, <1>4 DEF CallsForm

\* A call begins in the right form.
LEMMA BeginsForm ==
  ASSUME ImapForm, NEW c \in ImapCall, NEW op, NEW todo, NEW row, NEW put, NEW to, Begins(c, op, todo, row, put, to),
         StageOf(op, todo), IsRow(row), IsRow(put), to \in Folder, ~NeedsPut(op, todo),
         op \in {"update", "delete", "send", "modify"} => row.of # 0,
         op \in {"send", "sendNew", "modify"} => to # "drafts"
  PROVE  ImapForm'
<1> DEFINE known == IF op = "send" THEN spent ELSE {}
           begun == [op |-> op, todo |-> todo, row |-> row, put |-> put, to |-> to, copy |-> 0, known |-> known]
<1>1. calls' = [calls EXCEPT ![c] = begun] /\ calls[c].todo = <<>>
  BY DEF Begins
<1>2. UNCHANGED <<box, line, places, imapLock, keepsSent, outside>> /\ imapBegun' \in 0..MaxImapCalls
  BY ImapAssumption DEF Begins, ImapForm, CountForm
<1>3. op = "sendNew" => known = {}
  OBVIOUS
<1> HIDE DEF known
<1>4. todo # <<>>
  BY WhoseStep
<1>5. IsCall(begun) /\ begun.todo = todo
  BY <1>3, <1>4 DEF IsCall
<1> HIDE DEF begun
<1>10. PICK q : q = begun
  OBVIOUS
<1>6. LineForm' /\ Len(line) <= Len(line')
  BY <1>2 DEF ImapForm, LineForm
<1>7. IsCall(q)'
  BY <1>5, <1>10, <1>2, <1>6, CallKept DEF ImapForm
<1>8. imapLock' # c
  BY <1>1, <1>2 DEF ImapForm, CallsForm
<1>9. CallsForm'
  BY <1>1, <1>10, <1>2, <1>6, <1>7, <1>8, CallsKept
<1> QED
  BY <1>2, <1>6, <1>9 DEF ImapForm, BoxForm, PlacesForm, IsRow, CountForm

\* A step that is over, after which the lock is left, given back, or held for what follows.
Advances(c, q) ==
  \E lock \in {imapLock, c, NoImapCall} :
    /\ Goes(c, q, After(calls[c].todo), lock)
    /\ lock = c => After(calls[c].todo) # <<>> /\ OwnsLock(After(calls[c].todo))

\* What a call under way has, and what its step leads to.
LEMMA StepOf ==
  ASSUME ImapForm, NEW c \in ImapCall, calls[c].todo # <<>>
  PROVE  /\ IsCall(calls[c]) /\ StageOf(calls[c].op, calls[c].todo)
         /\ Follows(calls[c].op, calls[c].todo, After(calls[c].todo))
         /\ (calls[c].op = "send" => Sends(calls[c].todo, After(calls[c].todo)))
<1>1. IsCall(calls[c]) /\ StageOf(calls[c].op, calls[c].todo)
  BY DEF ImapForm, CallsForm, IsCall
<1> QED
  BY <1>1, CallFollows

LEMMA ProceedsAdvances ==
  ASSUME ImapForm, NEW c \in ImapCall, calls[c].todo # <<>>, NEW q, Proceeds(c, q)
  PROVE  Advances(c, q)
<1> DEFINE todo == calls[c].todo
           lock == IF Len(todo) > 1 /\ todo[2] = "release" THEN NoImapCall ELSE imapLock
<1>1. Goes(c, q, After(todo), lock) /\ lock \in {imapLock, c, NoImapCall}
  BY DEF Proceeds
<1>2. ASSUME lock = c PROVE After(todo) # <<>> /\ OwnsLock(After(todo))
  <2>1. imapLock = c /\ ~(Len(todo) > 1 /\ todo[2] = "release")
    BY <1>2, ImapAssumption
  <2>2. Follows(calls[c].op, todo, After(todo))
    BY StepOf
  <2>3. OwnsLock(todo) /\ Len(todo) > 1
    BY <2>1, <2>2 DEF ImapForm, CallsForm, Follows
  <2> QED
    BY <2>1, <2>2, <2>3 DEF Follows
<1> QED
  BY <1>1, <1>2 DEF Advances

\* Its call q has what the step has learnt.
LEMMA GoesForm ==
  ASSUME ImapForm, NEW c \in ImapCall, calls[c].todo # <<>>, NEW q, Advances(c, q), UNCHANGED line,
         IsCall(q), q.op = calls[c].op, q.todo = calls[c].todo, SetsPut(calls[c].todo) => q.put.of # 0
  PROVE  /\ CallsForm' /\ LineForm' /\ CountForm' /\ UNCHANGED <<keepsSent, outside, kept>>
         /\ \E next : /\ next = After(q.todo) /\ Follows(q.op, q.todo, next) /\ (q.op = "send" => Sends(q.todo, next))
                      /\ calls'[c] = IF next = <<>> THEN Over ELSE [q EXCEPT !.todo = next]
                      /\ spent' = IF next = <<>> /\ q.op = "send" THEN spent \cup {q.copy} ELSE spent
<1> DEFINE next == After(calls[c].todo)
           call == IF next = <<>> THEN Over ELSE [q EXCEPT !.todo = next]
<1>1. PICK lock \in {imapLock, c, NoImapCall} :
        Goes(c, q, next, lock) /\ (lock = c => next # <<>> /\ OwnsLock(next))
  BY DEF Advances
<1>2. imapLock' = lock /\ calls' = [calls EXCEPT ![c] = call]
  BY <1>1 DEF Goes
<1>3. spent' = IF next = <<>> /\ q.op = "send" THEN spent \cup {q.copy} ELSE spent
  BY <1>1 DEF Goes
<1>4. UNCHANGED <<keepsSent, imapBegun, outside, kept>>
  BY <1>1 DEF Goes
<1>5. Follows(q.op, q.todo, next) /\ (q.op = "send" => Sends(q.todo, next))
  BY StepOf
<1> HIDE DEF next
<1>6. next # <<>> => call = [op |-> q.op, todo |-> next, row |-> q.row, put |-> q.put, to |-> q.to,
                             copy |-> q.copy, known |-> q.known]
  BY DEF IsCall
<1>7. IsCall(call)
  <2>1. CASE next = <<>>
    BY <2>1, OverIsCall DEF ImapForm
  <2>2. CASE next # <<>>
    <3>1. StageOf(q.op, next) /\ (NeedsPut(q.op, next) => q.put.of # 0)
      BY <1>5, <2>2 DEF Follows, IsCall
    <3> HIDE DEF call
    <3> QED
      BY <1>6, <2>2, <3>1 DEF IsCall
  <2> QED
    BY <2>1, <2>2
<1>8. lock = c => call.todo # <<>> /\ OwnsLock(call.todo)
  BY <1>1, <1>6
<1> HIDE DEF call
<1>9. LineForm' /\ Len(line) <= Len(line')
  BY DEF ImapForm, LineForm
<1>10. PICK p : p = call
  OBVIOUS
<1>11. IsCall(p)'
  BY <1>7, <1>10, <1>4, <1>9, CallKept DEF ImapForm
<1>12. CallsForm' /\ calls'[c] = call
  BY <1>1, <1>2, <1>4, <1>8, <1>9, <1>10, <1>11, CallsKept
<1>13. CountForm'
  BY <1>4 DEF ImapForm, CountForm
<1> QED
  BY <1>3, <1>4, <1>5, <1>9, <1>12, <1>13 DEF call, next

\* So does one that fails.
LEMMA StopsForm ==
  ASSUME ImapForm, NEW c \in ImapCall, Stops(c), UNCHANGED line
  PROVE  CallsForm' /\ LineForm' /\ CountForm' /\ calls'[c] = Over /\ UNCHANGED <<keepsSent, outside, kept, spent>>
<1>1. /\ calls' = [calls EXCEPT ![c] = Over] /\ UNCHANGED <<keepsSent, imapBegun, outside, kept, spent>>
      /\ imapLock' \in {imapLock, NoImapCall} /\ imapLock' # c
  BY ImapAssumption DEF Stops, Locked
<1>2. LineForm' /\ Len(line) <= Len(line')
  BY DEF ImapForm, LineForm
<1>3. IsCall(Over)'
  BY <1>2, OverIsCall, PTL
<1> QED
  BY <1>1, <1>2, <1>3, CallsKept DEF ImapForm, CountForm

-----------------------------------------------------------------------------
(* Folders.                                                                *)

\* The folders keep their form as messages are written.
LEMMA BoxesKept ==
  ASSUME NEW b, NEW o \in Nat, NEW n \in Nat, NEW p \in Nat, NEW m \in Nat, o <= p, n <= m, AreBoxes(b, o, n)
  PROVE  AreBoxes(b, p, m)
<1>1. ASSUME NEW f \in Folder PROVE IsBox(b[f], p, m)
  <2>1. IsBox(b[f], o, n)
    BY DEF AreBoxes
  <2> QED
    BY <2>1 DEF IsBox
<1> QED
  BY <1>1 DEF AreBoxes

\* A message that is removed, and one that is put at the next UID of a folder.
Removed(a, b, f, u) == a = [b EXCEPT ![f].held = Without(@, u)]
IsPut(a, f, m) == a = Put(f, m)
Anew(a, b, f, count, new) ==
  a = [b EXCEPT ![f] = [validity |-> @.validity + 1, next |-> count + 1, held |-> new]]

\* A message is removed from a folder.
LEMMA RemovedFrom ==
  ASSUME NEW b, NEW o \in Nat, NEW n \in Nat, AreBoxes(b, o, n), NEW f \in Folder, NEW u,
         NEW a, Removed(a, b, f, u)
  PROVE  /\ AreBoxes(a, o, n)
         /\ \A g \in Folder : a[g].validity = b[g].validity /\ a[g].next = b[g].next
         /\ \A g \in Folder : \A v, k : Lie(a, g, v, k) <=> Lie(b, g, v, k) /\ ~(g = f /\ v = u)
<1> DEFINE rest == Without(b[f].held, u)
<1>1. a = [g \in Folder |-> IF g = f THEN [b[f] EXCEPT !.held = rest] ELSE b[g]]
  BY DEF AreBoxes, Removed
<1>2. rest = [v \in DOMAIN rest |-> rest[v]] /\ DOMAIN rest = DOMAIN b[f].held \ {u}
  BY DEF Without
<1>3. \A v \in DOMAIN rest : rest[v] = b[f].held[v]
  BY DEF Without
<1> HIDE DEF rest
<1>4. IsBox(b[f], o, n)
  BY DEF AreBoxes
<1>5. a[f] = [validity |-> b[f].validity, next |-> b[f].next, held |-> rest]
  BY <1>1, <1>4 DEF IsBox
<1>6. \A g \in Folder : g # f => a[g] = b[g]
  BY <1>1
<1>7. IsBox(a[f], o, n)
  BY <1>2, <1>3, <1>4, <1>5 DEF IsBox
<1>8. \A g \in Folder : IsBox(a[g], o, n)
  BY <1>6, <1>7 DEF AreBoxes
<1>9. \A v, k : Lie(a, f, v, k) <=> Lie(b, f, v, k) /\ v # u
  BY <1>2, <1>3, <1>5 DEF Lie
<1>10. \A g \in Folder : g # f => \A v, k : Lie(a, g, v, k) <=> Lie(b, g, v, k)
  BY <1>6 DEF Lie
<1>11. a = [g \in Folder |-> a[g]]
  BY <1>1
<1>12. \A g \in Folder : a[g].validity = b[g].validity /\ a[g].next = b[g].next
  BY <1>5, <1>6
<1>13. AreBoxes(a, o, n)
  BY <1>8, <1>11 DEF AreBoxes
<1> QED
  BY <1>9, <1>10, <1>12, <1>13

\* A message is put into a folder at its next UID.
LEMMA PutInto ==
  ASSUME NEW o \in Nat, NEW n \in Nat, AreBoxes(box, o, n), NEW f \in Folder, NEW m \in 1..n, NEW a, IsPut(a, f, m)
  PROVE  /\ AreBoxes(a, o, n)
         /\ \A g \in Folder : a[g].validity = box[g].validity /\ a[g].next \in {box[g].next, box[g].next + 1}
         /\ a[f].next = box[f].next + 1
         /\ \A g \in Folder : \A v, k : Lie(a, g, v, k) <=> Lie(box, g, v, k) \/ (g = f /\ v = box[f].next /\ k = m)
<1> DEFINE more == [u \in DOMAIN box[f].held \cup {box[f].next} |-> IF u = box[f].next THEN m ELSE box[f].held[u]]
<1>1. IsBox(box[f], o, n) /\ box = [g \in Folder |-> box[g]]
  BY DEF AreBoxes
<1>2. a = [box EXCEPT ![f] = [validity |-> box[f].validity, next |-> box[f].next + 1, held |-> more]]
  <2> DEFINE first == [box[f] EXCEPT !.next = box[f].next + 1]
             one == [box EXCEPT ![f] = first]
  <2>1. a = [one EXCEPT ![f] = [one[f] EXCEPT !.held = more]]
    BY DEF IsPut, Put
  <2>2. first = [validity |-> box[f].validity, next |-> box[f].next + 1, held |-> box[f].held]
    BY <1>1 DEF IsBox
  <2> HIDE DEF first, more
  <2>3. one = [g \in Folder |-> IF g = f THEN first ELSE box[g]]
    BY <1>1
  <2> HIDE DEF one
  <2>4. one[f] = first
    BY <2>3
  <2>5. a = [g \in Folder |-> IF g = f THEN [first EXCEPT !.held = more] ELSE box[g]]
    BY <2>1, <2>3, <2>4
  <2>6. [first EXCEPT !.held = more] = [validity |-> box[f].validity, next |-> box[f].next + 1, held |-> more]
    BY <2>2
  <2> QED
    BY <1>1, <2>5, <2>6
<1>3. more = [v \in DOMAIN more |-> more[v]] /\ DOMAIN more = DOMAIN box[f].held \cup {box[f].next}
  OBVIOUS
<1>4. \A v \in DOMAIN box[f].held : more[v] = box[f].held[v]
  BY <1>1 DEF IsBox
<1>5. more[box[f].next] = m /\ box[f].next \notin DOMAIN box[f].held
  BY <1>1 DEF IsBox
<1> HIDE DEF more
<1>6. a[f] = [validity |-> box[f].validity, next |-> box[f].next + 1, held |-> more]
  BY <1>1, <1>2
<1>7. \A g \in Folder : g # f => a[g] = box[g]
  BY <1>1, <1>2
<1>8. IsBox(a[f], o, n)
  BY <1>1, <1>3, <1>4, <1>5, <1>6 DEF IsBox
<1>9. \A g \in Folder : IsBox(a[g], o, n)
  BY <1>7, <1>8 DEF AreBoxes
<1>10. \A v, k : Lie(a, f, v, k) <=> Lie(box, f, v, k) \/ (v = box[f].next /\ k = m)
  BY <1>3, <1>4, <1>5, <1>6 DEF Lie
<1>11. \A g \in Folder : g # f => \A v, k : Lie(a, g, v, k) <=> Lie(box, g, v, k)
  BY <1>7 DEF Lie
<1>12. a = [g \in Folder |-> a[g]]
  BY <1>1, <1>2
<1>13. \A g \in Folder : a[g].validity = box[g].validity /\ a[g].next \in {box[g].next, box[g].next + 1}
  BY <1>6, <1>7
<1>14. AreBoxes(a, o, n)
  BY <1>9, <1>12 DEF AreBoxes
<1> QED
  BY <1>6, <1>10, <1>11, <1>13, <1>14

\* A folder that is built anew has messages that it had, from UID 1.
LEMMA CountIsNatural == ASSUME NEW n \in Nat, NEW held \in SUBSET (1..n) PROVE Cardinality(held) \in Nat
<1>1. IsFiniteSet(1..n)
  BY FS_Interval
<1>2. IsFiniteSet(held)
  BY <1>1, FS_Subset
<1> QED
  BY <1>2, FS_CardinalityType

LEMMA BuiltAnew ==
  ASSUME NEW b, NEW o \in Nat, NEW n \in Nat, AreBoxes(b, o, n), NEW f \in Folder, NEW count \in Nat,
         NEW new \in [1..count -> 1..n],
         NEW a, Anew(a, b, f, count, new)
  PROVE  AreBoxes(a, o + 1, n) /\ a[f].validity # 1
<1>1. IsBox(b[f], o, n) /\ b = [g \in Folder |-> b[g]]
  BY DEF AreBoxes
<1>2. a[f] = [validity |-> b[f].validity + 1, next |-> count + 1, held |-> new]
  BY <1>1 DEF Anew
<1>3. \A g \in Folder : g # f => a[g] = b[g]
  BY <1>1 DEF Anew
<1>4. new = [u \in 1..count |-> new[u]] /\ DOMAIN new = 1..count /\ \A u \in 1..count : new[u] \in 1..n
  OBVIOUS
<1>9. a[f].validity = b[f].validity + 1 /\ a[f].next = count + 1 /\ a[f].held = new
  BY <1>2
<1>10. b[f].validity \in 1..(o + 1)
  BY <1>1 DEF IsBox
<1>11. a[f].validity \in 1..(o + 1 + 1) /\ a[f].validity # 1
  BY <1>9, <1>10
<1>12. a[f].next \in Nat \ {0} /\ 1..(a[f].next - 1) = 1..count
  BY <1>9
<1>5. IsBox(a[f], o + 1, n) /\ a[f].validity # 1
  BY <1>2, <1>4, <1>9, <1>11, <1>12 DEF IsBox
<1>6. \A g \in Folder : IsBox(b[g], o, n) => IsBox(b[g], o + 1, n)
  BY DEF IsBox
<1>7. \A g \in Folder : IsBox(a[g], o + 1, n)
  BY <1>3, <1>5, <1>6 DEF AreBoxes
<1>8. a = [g \in Folder |-> a[g]]
  BY <1>1 DEF Anew
<1> QED
  BY <1>5, <1>7, <1>8 DEF AreBoxes

-----------------------------------------------------------------------------
(* Sequences of steps.                                                     *)

\* A sequence is what two make when it has the entries of both.
LEMMA Concat ==
  ASSUME NEW S, NEW s \in Seq(S), NEW t \in Seq(S), NEW u \in Seq(S), Len(u) = Len(s) + Len(t),
         \A i \in 1..Len(s) : u[i] = s[i], \A i \in 1..Len(t) : u[Len(s) + i] = t[i]
  PROVE  s \o t = u
OBVIOUS

StepName == {"openPut", "openRow", "scan", "fetch", "save", "append", "read", "deliver", "move", "delete", "mark", "drop", "release"}

\* The steps of the calls that are put together from others, one by one.
LEMMA AppendDraftIs == AppendDraft = <<"append", "save", "openPut", "fetch", "save", "release">>
<1> DEFINE s == <<"append", "save">>
           t == <<"openPut", "fetch", "save", "release">>
           u == <<"append", "save", "openPut", "fetch", "save", "release">>
<1>1. s \in Seq(StepName) /\ t \in Seq(StepName) /\ u \in Seq(StepName)
  BY DEF StepName
<1>2. Len(s) = 2 /\ Len(t) = 4 /\ Len(u) = 2 + 4
  OBVIOUS
<1>3. (\A i \in 1..2 : u[i] = s[i]) /\ \A i \in 1..4 : u[2 + i] = t[i]
  OBVIOUS
<1>4. AppendDraft = s \o t
  BY DEF AppendDraft, FetchLocation
<1> HIDE DEF s, t, u
<1>5. Len(u) = Len(s) + Len(t)
  BY <1>2
<1>6. (\A i \in 1..Len(s) : u[i] = s[i]) /\ \A i \in 1..Len(t) : u[Len(s) + i] = t[i]
  BY <1>2, <1>3
<1>7. s \o t = u
  BY <1>1, <1>5, <1>6, Concat
<1> QED
  BY <1>4, <1>7 DEF u

LEMMA UpdateDraftIs == UpdateDraft = <<"append", "save", "openPut", "fetch", "save", "release", "openRow", "delete", "release">>
<1> DEFINE s == <<"append", "save", "openPut", "fetch", "save", "release">>
           t == <<"openRow", "delete", "release">>
           u == <<"append", "save", "openPut", "fetch", "save", "release", "openRow", "delete", "release">>
<1>1. s \in Seq(StepName) /\ t \in Seq(StepName) /\ u \in Seq(StepName)
  BY DEF StepName
<1>2. Len(s) = 6 /\ Len(t) = 3 /\ Len(u) = 6 + 3
  OBVIOUS
<1>3. (\A i \in 1..6 : u[i] = s[i]) /\ \A i \in 1..3 : u[6 + i] = t[i]
  OBVIOUS
<1>4. UpdateDraft = s \o t
  BY AppendDraftIs DEF UpdateDraft
<1> HIDE DEF s, t, u
<1>5. Len(u) = Len(s) + Len(t)
  BY <1>2
<1>6. (\A i \in 1..Len(s) : u[i] = s[i]) /\ \A i \in 1..Len(t) : u[Len(s) + i] = t[i]
  BY <1>2, <1>3
<1>7. s \o t = u
  BY <1>1, <1>5, <1>6, Concat
<1> QED
  BY <1>4, <1>7 DEF u

LEMMA SendKeptIs == keepsSent => SendDraft = <<"openRow", "read", "release", "deliver", "openRow", "move", "release", "openPut", "mark", "release", "save">>
<1> DEFINE s == <<"openRow", "read", "release", "deliver">>
           t == <<"openRow", "move", "release", "openPut", "mark", "release", "save">>
           u == <<"openRow", "read", "release", "deliver", "openRow", "move", "release", "openPut", "mark", "release", "save">>
<1>1. s \in Seq(StepName) /\ t \in Seq(StepName) /\ u \in Seq(StepName)
  BY DEF StepName
<1>2. Len(s) = 4 /\ Len(t) = 7 /\ Len(u) = 4 + 7
  OBVIOUS
<1>3. (\A i \in 1..4 : u[i] = s[i]) /\ \A i \in 1..7 : u[4 + i] = t[i]
  OBVIOUS
<1>4. keepsSent => SendDraft = s \o t
  BY DEF SendDraft, MoveDraftToSent
<1> HIDE DEF s, t, u
<1>5. Len(u) = Len(s) + Len(t)
  BY <1>2
<1>6. (\A i \in 1..Len(s) : u[i] = s[i]) /\ \A i \in 1..Len(t) : u[Len(s) + i] = t[i]
  BY <1>2, <1>3
<1>7. s \o t = u
  BY <1>1, <1>5, <1>6, Concat
<1> QED
  BY <1>4, <1>7 DEF u

LEMMA SendDroppedIs == ~keepsSent => SendDraft = <<"openRow", "read", "release", "deliver", "openRow", "delete", "release", "drop">>
<1> DEFINE s == <<"openRow", "read", "release", "deliver">>
           t == <<"openRow", "delete", "release", "drop">>
           u == <<"openRow", "read", "release", "deliver", "openRow", "delete", "release", "drop">>
<1>1. s \in Seq(StepName) /\ t \in Seq(StepName) /\ u \in Seq(StepName)
  BY DEF StepName
<1>2. Len(s) = 4 /\ Len(t) = 4 /\ Len(u) = 4 + 4
  OBVIOUS
<1>3. (\A i \in 1..4 : u[i] = s[i]) /\ \A i \in 1..4 : u[4 + i] = t[i]
  OBVIOUS
<1>4. ~keepsSent => SendDraft = s \o t
  BY DEF SendDraft, DeleteDraft
<1> HIDE DEF s, t, u
<1>5. Len(u) = Len(s) + Len(t)
  BY <1>2
<1>6. (\A i \in 1..Len(s) : u[i] = s[i]) /\ \A i \in 1..Len(t) : u[Len(s) + i] = t[i]
  BY <1>2, <1>3
<1>7. s \o t = u
  BY <1>1, <1>5, <1>6, Concat
<1> QED
  BY <1>4, <1>7 DEF u

LEMMA SendNewKeptIs == keepsSent => SendNew = <<"deliver", "append", "save">>
<1> DEFINE s == <<"deliver">>
           t == <<"append", "save">>
           u == <<"deliver", "append", "save">>
<1>1. s \in Seq(StepName) /\ t \in Seq(StepName) /\ u \in Seq(StepName)
  BY DEF StepName
<1>2. Len(s) = 1 /\ Len(t) = 2 /\ Len(u) = 1 + 2
  OBVIOUS
<1>3. (\A i \in 1..1 : u[i] = s[i]) /\ \A i \in 1..2 : u[1 + i] = t[i]
  OBVIOUS
<1>4. keepsSent => SendNew = s \o t
  BY DEF SendNew
<1> HIDE DEF s, t, u
<1>5. Len(u) = Len(s) + Len(t)
  BY <1>2
<1>6. (\A i \in 1..Len(s) : u[i] = s[i]) /\ \A i \in 1..Len(t) : u[Len(s) + i] = t[i]
  BY <1>2, <1>3
<1>7. s \o t = u
  BY <1>1, <1>5, <1>6, Concat
<1> QED
  BY <1>4, <1>7 DEF u

LEMMA SendNewDroppedIs == ~keepsSent => SendNew = <<"deliver">>
<1> DEFINE s == <<"deliver">>
           t == <<>>
           u == <<"deliver">>
<1>1. s \in Seq(StepName) /\ t \in Seq(StepName) /\ u \in Seq(StepName)
  BY DEF StepName
<1>2. Len(s) = 1 /\ Len(t) = 0 /\ Len(u) = 1 + 0
  OBVIOUS
<1>3. (\A i \in 1..1 : u[i] = s[i]) /\ \A i \in 1..0 : u[1 + i] = t[i]
  OBVIOUS
<1>4. ~keepsSent => SendNew = s \o t
  BY DEF SendNew
<1> HIDE DEF s, t, u
<1>5. Len(u) = Len(s) + Len(t)
  BY <1>2
<1>6. (\A i \in 1..Len(s) : u[i] = s[i]) /\ \A i \in 1..Len(t) : u[Len(s) + i] = t[i]
  BY <1>2, <1>3
<1>7. s \o t = u
  BY <1>1, <1>5, <1>6, Concat
<1> QED
  BY <1>4, <1>7 DEF u

-----------------------------------------------------------------------------
(* The mail.                                                               *)

\* All rows, those of calls included, have the right form.
LEMMA RowsAreRows == ASSUME ImapForm PROVE \A r \in Rows : IsRow(r)
  BY NoPlaceIsRow DEF ImapForm, PlacesForm, CallsForm, IsCall, Rows

\* Messages come at the next UID of a folder only, and into the drafts only when they are
\* written; no other row than n is new, and it is named and leads to nothing that is settled.
BoxSteady ==
  /\ \A f \in Folder : box[f].next <= box'[f].next
  /\ \A f \in Folder : \A u, k : Lies(f, u, k)' =>
       Lies(f, u, k) \/ (u = box[f].next /\ (f = "drafts" => k = Len(line) + 1))
RowSteady(n) ==
  /\ Rows' \subseteq Rows \cup {n}
  /\ n \notin Rows =>
       Named(n)' /\ (keepsSent /\ n.draft # <<>> => \A m : Settled(m) => ~Lies(n.path, n.uid, m)')
RestSteady ==
  /\ Len(line) <= Len(line') /\ \A i \in 1..Len(line) : line'[i] = line[i]
  /\ kept' \subseteq kept \cup {Len(line) + 1} /\ spent \subseteq spent' /\ UNCHANGED keepsSent

\* A step that adds at most one row keeps what the rows say.
LEMMA NamedKept ==
  ASSUME ImapForm, ImapForm', MailHolds, NEW n, BoxSteady, RowSteady(n)
  PROVE  (\A r \in Rows : Named(r))'
<1> SUFFICES ASSUME NEW r \in Rows' PROVE Named(r)'
  OBVIOUS
<1>1. CASE r \notin Rows
  BY <1>1 DEF RowSteady
<1>2. CASE r \in Rows
  <2>1. Named(r) /\ IsRow(r)
    BY <1>2, RowsAreRows DEF MailHolds
  <2>2. r.path \in Folder /\ r.uid \in Nat /\ r.of \in 0..Len(line) /\ Len(line) \in Nat
    BY <2>1 DEF IsRow, ImapForm, LineForm
  <2>3. r.uid < box[r.path].next
    BY <2>1 DEF Named
  <2>4. box[r.path].next \in Nat /\ box'[r.path].next \in Nat /\ box[r.path].next <= box'[r.path].next
    BY <2>2 DEF ImapForm, BoxForm, AreBoxes, IsBox, BoxSteady
  <2>5. r.uid < box'[r.path].next
    BY <2>2, <2>3, <2>4
  <2>6. ASSUME NEW k, Lies(r.path, r.uid, k)' PROVE k = r.of
    BY <2>1, <2>2, <2>3, <2>4, <2>6 DEF BoxSteady, Named
  <2>7. ASSUME NEW u, Lies("drafts", u, r.of)' PROVE r.path = "drafts" /\ r.uid = u
    BY <2>1, <2>2, <2>7 DEF BoxSteady, Named, Folder
  <2> QED
    BY <2>5, <2>6, <2>7 DEF Named
<1> QED
  BY <1>1, <1>2

\* A message that was sent stays out of reach.
LEMMA SettledKept ==
  ASSUME ImapForm, ImapForm', MailHolds, NEW n, BoxSteady, RowSteady(n), RestSteady, NEW m, Settled(m)
  PROVE  Settled(m)'
<1>1. m \in 1..Len(line) /\ Len(line) \in Nat /\ Len(line') \in Nat /\ m \in 1..Len(line')
  BY DEF Settled, ImapForm, LineForm, RestSteady
<1>2. ASSUME NEW u, Lies("drafts", u, m)' PROVE FALSE
  BY <1>1, <1>2 DEF BoxSteady, Settled, Folder
<1>3. ASSUME keepsSent, NEW r \in Rows', r.draft # <<>>, Lies(r.path, r.uid, m)' PROVE FALSE
  <2>1. CASE r \notin Rows
    BY <2>1, <1>3 DEF RowSteady
  <2>2. CASE r \in Rows
    <3>1. IsRow(r) /\ Named(r)
      BY <2>2, RowsAreRows DEF MailHolds
    <3>2. r.path \in Folder /\ r.uid # box[r.path].next
      BY <3>1 DEF IsRow, Named, ImapForm, BoxForm, AreBoxes, IsBox
    <3>3. Lies(r.path, r.uid, m)
      BY <1>3, <3>2 DEF BoxSteady
    <3> QED
      BY <1>3, <2>2, <3>3 DEF Settled
  <2> QED
    BY <2>1, <2>2
<1>4. (keepsSent => \A r \in Rows : r.draft # <<>> => ~Lies(r.path, r.uid, m))'
  BY <1>3 DEF RestSteady
<1> QED
  BY <1>1, <1>2, <1>4 DEF Settled

\* And the calls that did not move keep what they hold.
LEMMA HoldsKept ==
  ASSUME ImapForm, ImapForm', MailHolds, NEW n, BoxSteady, RowSteady(n), RestSteady,
         NEW q, IsCall(q), CallHolds(q)
  PROVE  CallHolds(q)'
<1>1. \A m : Settled(m) => Settled(m)'
  BY SettledKept
<1>2. Len(line) \in Nat /\ Len(line') \in Nat /\ (\A i \in 1..Len(line) : line[i] \in 1..Len(line))
  BY DEF ImapForm, LineForm
<1>3. q.op \in {"update", "delete", "send", "modify"} => q.row.of \in 1..Len(line)
  BY <1>2 DEF IsCall, IsRow
<1>4. (q.op = "update" /\ Head(q.todo) # "append" => \E j \in 1..Len(line) : q.row.of < j /\ line[j] = line[q.row.of])'
  BY <1>2, <1>3 DEF CallHolds, RestSteady
<1>5. (q.op = "delete" \/ (q.op = "send" /\ ~keepsSent) => line[q.row.of] \notin kept)'
  BY <1>2, <1>3 DEF CallHolds, RestSteady
<1>6. (q.op = "send" =>
       /\ q.row.draft # <<>> /\ q.known \subseteq spent
       /\ PastRead(q.todo) => q.copy = q.row.of
       /\ PastMove(q.todo) => Settled(q.copy)
       /\ Head(q.todo) = "deliver" /\ q.copy \in q.known => ~keepsSent /\ q.row.path # "drafts")'
  BY <1>1 DEF CallHolds, RestSteady, PastRead, PastMove
<1> QED
  BY <1>4, <1>5, <1>6 DEF CallHolds

\* So a step keeps all, if the folders and the call that made it do.
LEMMA StepHolds ==
  ASSUME ImapForm, ImapForm', MailHolds, NEW n, BoxSteady, RowSteady(n), RestSteady,
         InOnePlace', (\A l \in kept : NewestIsThere(l))', \A m \in spent' : m \in spent \/ Settled(m),
         \A d \in ImapCall : calls'[d] = calls[d] \/ CallHolds(calls[d])'
  PROVE  MailHolds'
<1>1. (\A r \in Rows : Named(r))'
  BY NamedKept
<1>2. (\A m \in spent : Settled(m))'
  BY SettledKept DEF MailHolds
<1>3. (\A d \in ImapCall : CallHolds(calls[d]))'
  <2> SUFFICES ASSUME NEW d \in ImapCall PROVE CallHolds(calls[d])'
    OBVIOUS
  <2>1. PICK q : q = calls[d]
    OBVIOUS
  <2>2. IsCall(q) /\ CallHolds(q)
    BY <2>1 DEF ImapForm, CallsForm, MailHolds
  <2>3. CallHolds(q)'
    BY <2>2, HoldsKept
  <2> QED
    BY <2>1, <2>3
<1> QED
  BY <1>1, <1>2, <1>3 DEF MailHolds

\* Messages lie below the next UID of their folder.
LEMMA InBoxes ==
  ASSUME NEW b, NEW o, NEW n, AreBoxes(b, o, n)
  PROVE  \A f \in Folder : /\ b[f].next \in Nat \ {0}
                           /\ \A u, k : Lie(b, f, u, k) => u \in 1..(b[f].next - 1) /\ k \in 1..n
<1> SUFFICES ASSUME NEW f \in Folder
             PROVE  b[f].next \in Nat \ {0} /\ \A u, k : Lie(b, f, u, k) => u \in 1..(b[f].next - 1) /\ k \in 1..n
  OBVIOUS
<1>1. IsBox(b[f], o, n)
  BY DEF AreBoxes
<1>2. /\ b[f].next \in Nat \ {0} /\ DOMAIN b[f].held \subseteq 1..(b[f].next - 1)
      /\ \A u \in DOMAIN b[f].held : b[f].held[u] \in 1..n
  BY <1>1 DEF IsBox
<1> QED
  BY <1>2 DEF Lie

LEMMA WhereTheyLie ==
  ASSUME ImapForm
  PROVE  \A f \in Folder : /\ box[f].next \in Nat \ {0}
                           /\ \A u, k : Lies(f, u, k) => u \in 1..(box[f].next - 1) /\ k \in 1..Len(line)
  BY InBoxes DEF ImapForm, BoxForm, Lies

\* No message lies where the row of no message says.
LEMMA NoPlaceIsNamed ==
  ASSUME ImapForm
  PROVE  Named(NoPlace) /\ \A f \in Folder : Named([NoPlace EXCEPT !.path = f])
<1>1. \A f \in Folder : \A u, k : Lies(f, u, k) => u # 0 /\ k # 0
  BY WhereTheyLie DEF ImapForm, LineForm
<1>2. \A f \in Folder : 0 < box[f].next
  BY WhereTheyLie
<1>3. ASSUME NEW r, r.path \in Folder, r.uid = 0, r.of = 0 PROVE Named(r)
  BY <1>1, <1>2, <1>3 DEF Named, Folder
<1> QED
  BY <1>3 DEF NoPlace, Folder

\* A step that leaves the folders alone.
LEMMA SameBox ==
  ASSUME ImapForm, MailHolds, UNCHANGED <<box, line>>, kept' \subseteq kept
  PROVE  BoxSteady /\ InOnePlace' /\ (\A l \in kept : NewestIsThere(l))'
<1>1. \A f, u, k : Lies(f, u, k)' <=> Lies(f, u, k)
  BY DEF Lies, Lie
<1>2. \A f \in Folder : box[f].next <= box'[f].next
  BY WhereTheyLie
<1>3. InOnePlace'
  BY <1>1 DEF InOnePlace, MailHolds
<1>4. (\A l \in kept : NewestIsThere(l))'
  BY <1>1 DEF NewestIsThere, MailHolds
<1> QED
  BY <1>1, <1>2, <1>3, <1>4 DEF BoxSteady

\* A call begins.
LEMMA BeginsHolds ==
  ASSUME ImapForm, ImapForm', MailHolds, NEW c \in ImapCall, NEW op, NEW todo, NEW row, NEW put, NEW to,
         Begins(c, op, todo, row, put, to), kept' \subseteq kept,
         row \in Rows, put \in Rows \/ (Named(put) /\ put.draft = <<>>),
         op = "update" => Head(todo) = "append",
         op = "delete" \/ (op = "send" /\ ~keepsSent) => line[row.of] \notin kept',
         op = "send" => row.draft # <<>> /\ ~PastRead(todo) /\ ~PastMove(todo) /\ Head(todo) # "deliver"
  PROVE  MailHolds'
<1> DEFINE known == IF op = "send" THEN spent ELSE {}
           begun == [op |-> op, todo |-> todo, row |-> row, put |-> put, to |-> to, copy |-> 0, known |-> known]
<1>1. UNCHANGED <<box, line, places, imapLock, keepsSent, outside, spent>>
  BY DEF Begins
<1>2. calls' = [calls EXCEPT ![c] = begun]
  BY DEF Begins
<1>3. BoxSteady /\ InOnePlace' /\ (\A l \in kept : NewestIsThere(l))'
  BY <1>1, SameBox
<1>4. begun.row = row /\ begun.put = put
  OBVIOUS
<1>5. begun.op = op /\ begun.todo = todo /\ (op = "send" => begun.known = spent)
  OBVIOUS
<1> HIDE DEF begun, known
<1>6. calls'[c] = begun /\ \A d \in ImapCall : d # c => calls'[d] = calls[d]
  BY <1>2 DEF ImapForm, CallsForm
<1>7. Rows' \subseteq Rows \cup {put}
  BY <1>1, <1>4, <1>6 DEF Rows
<1>8. Named(put)'
  BY <1>1 DEF MailHolds, Named, Lies, Lie
<1>9. RowSteady(put)
  BY <1>7, <1>8 DEF RowSteady
<1>10. PICK q : q = begun
  OBVIOUS
<1>11. CallHolds(q)'
  BY <1>1, <1>4, <1>5, <1>10 DEF CallHolds, PastRead, PastMove
<1>12. \A d \in ImapCall : calls'[d] = calls[d] \/ CallHolds(calls[d])'
  BY <1>6, <1>10, <1>11
<1>13. RestSteady
  BY <1>1 DEF RestSteady, ImapForm, LineForm
<1>14. \A m \in spent' : m \in spent \/ Settled(m)
  BY <1>1
<1> QED
  BY <1>3, <1>9, <1>12, <1>13, <1>14, StepHolds

\* The call of a step that is over holds what it held, and what the step adds to it.
LEMMA NextHolds ==
  ASSUME NEW q, IsCall(q), q.todo # <<>>, UNCHANGED keepsSent, CallHolds(q)', NEW next, next # <<>>,
         Head(q.todo) # "append", Follows(q.op, q.todo, next), q.op = "send" => Sends(q.todo, next),
         q.op = "send" /\ Head(q.todo) = "read" =>
           q.copy = q.row.of /\ (q.copy \in q.known => ~keepsSent /\ q.row.path # "drafts"),
         q.op = "send" /\ Head(q.todo) \in {"move", "delete"} => Settled(q.copy)',
         NEW p, p = [q EXCEPT !.todo = next]
  PROVE  CallHolds(p)'
<1>1. p = [op |-> q.op, todo |-> next, row |-> q.row, put |-> q.put, to |-> q.to, copy |-> q.copy, known |-> q.known]
  BY DEF IsCall
<1>2. p.op = q.op /\ p.todo = next /\ p.row = q.row /\ p.copy = q.copy /\ p.known = q.known
  BY <1>1
<1>3. q.op = "send" => p.row.draft # <<>> /\ p.known \subseteq spent'
  BY <1>2 DEF CallHolds
<1>4. q.op = "send" /\ PastRead(next) => p.copy = p.row.of
  BY <1>2 DEF CallHolds, Sends
<1>5. q.op = "send" /\ PastMove(next) => Settled(p.copy)'
  BY <1>2 DEF CallHolds, Sends
<1>6. q.op = "send" /\ Head(next) = "deliver" /\ p.copy \in p.known => ~keepsSent /\ p.row.path # "drafts"
  BY <1>2 DEF CallHolds, Sends
<1>7. q.op = "delete" \/ (q.op = "send" /\ ~keepsSent) => line'[p.row.of] \notin kept'
  BY <1>2 DEF CallHolds
<1>8. q.op = "update" => \E j \in 1..Len(line') : p.row.of < j /\ line'[j] = line'[p.row.of]
  BY <1>2 DEF CallHolds
<1> QED
  BY <1>2, <1>3, <1>4, <1>5, <1>6, <1>7, <1>8 DEF CallHolds

\* A call that is over holds nothing.
LEMMA OverHolds == CallHolds(Over)
  BY DEF CallHolds, Over

\* A call stops.
LEMMA StopsHolds ==
  ASSUME ImapForm, ImapForm', MailHolds, NEW c \in ImapCall, Stops(c), UNCHANGED line, places' \subseteq places,
         BoxSteady, InOnePlace', (\A l \in kept : NewestIsThere(l))'
  PROVE  MailHolds'
<1>1. calls' = [calls EXCEPT ![c] = Over] /\ UNCHANGED <<keepsSent, kept, spent>>
  BY DEF Stops
<1>2. calls'[c] = Over /\ \A d \in ImapCall : d # c => calls'[d] = calls[d]
  BY <1>1 DEF ImapForm, CallsForm
<1>3. Rows' \subseteq Rows
  BY <1>2 DEF Rows, Over
<1>4. RowSteady(NoPlace)
  BY <1>3 DEF RowSteady, Rows
<1>5. PICK q : q = Over
  OBVIOUS
<1>6. CallHolds(q)'
  BY <1>5 DEF Over, CallHolds
<1>7. \A d \in ImapCall : calls'[d] = calls[d] \/ CallHolds(calls[d])'
  BY <1>2, <1>5, <1>6
<1>8. RestSteady
  BY <1>1 DEF RestSteady, ImapForm, LineForm
<1> QED
  BY <1>1, <1>4, <1>7, <1>8, StepHolds

\* A call goes on, with a row that it may have learnt.
LEMMA GoesHolds ==
  ASSUME ImapForm, ImapForm', MailHolds, NEW c \in ImapCall, calls[c].todo # <<>>, Head(calls[c].todo) # "append",
         NEW q, NEW n, Advances(c, q), UNCHANGED line, IsCall(q), CallHolds(q),
         q.op = calls[c].op, q.todo = calls[c].todo, q.row = calls[c].row, q.put \in Rows \cup {n},
         SetsPut(calls[c].todo) => q.put.of # 0,
         q.op = "send" /\ Head(q.todo) = "read" =>
           q.copy = q.row.of /\ (q.copy \in q.known => ~keepsSent /\ q.row.path # "drafts"),
         q.op = "send" /\ Head(q.todo) \in {"move", "delete"} =>
           q.copy = q.row.of /\ (BoxSteady /\ RowSteady(n) /\ RestSteady => Settled(q.copy)'),
         places' \subseteq Rows, BoxSteady, InOnePlace', (\A l \in kept : NewestIsThere(l))',
         n \notin Rows => Named(n)' /\ (keepsSent /\ n.draft # <<>> => \A m : Settled(m) => ~Lies(n.path, n.uid, m)')
  PROVE  MailHolds'
<1>1. UNCHANGED <<keepsSent, outside, kept>>
  BY GoesForm
<1>2. PICK next : /\ next = After(q.todo) /\ Follows(q.op, q.todo, next) /\ (q.op = "send" => Sends(q.todo, next))
                  /\ calls'[c] = IF next = <<>> THEN Over ELSE [q EXCEPT !.todo = next]
                  /\ spent' = IF next = <<>> /\ q.op = "send" THEN spent \cup {q.copy} ELSE spent
  BY GoesForm
<1>3. \A d \in ImapCall : d # c => calls'[d] = calls[d]
  BY DEF Advances, Goes, ImapForm, CallsForm
<1>4. PICK p : p = calls'[c]
  OBVIOUS
<1>5. p.row \in Rows /\ p.put \in Rows \cup {n}
  <2>1. CASE next = <<>>
    BY <1>2, <1>4, <2>1 DEF Over, Rows
  <2>2. CASE next # <<>>
    <3>1. p = [op |-> q.op, todo |-> next, row |-> q.row, put |-> q.put, to |-> q.to, copy |-> q.copy, known |-> q.known]
      BY <1>2, <1>4, <2>2 DEF IsCall
    <3>2. p.row = q.row /\ p.put = q.put
      BY <3>1
    <3> QED
      BY <3>2 DEF Rows
  <2> QED
    BY <2>1, <2>2
<1>6. RowSteady(n)
  <2>1. Rows' \subseteq Rows \cup {n}
    BY <1>3, <1>4, <1>5 DEF Rows
  <2> QED
    BY <2>1 DEF RowSteady
<1>7. RestSteady
  BY <1>1, <1>2 DEF RestSteady, ImapForm, LineForm
<1>8. CallHolds(q)'
  BY <1>6, <1>7, HoldsKept
<1>9. CallHolds(p)'
  <2>1. CASE next = <<>>
    BY <1>2, <1>4, <2>1 DEF Over, CallHolds
  <2>2. CASE next # <<>>
    BY <1>1, <1>2, <1>4, <1>6, <1>7, <1>8, <2>2, NextHolds
  <2> QED
    BY <2>1, <2>2
<1>10. \A m \in spent' : m \in spent \/ Settled(m)
  BY <1>2 DEF CallHolds, Sends
<1>11. \A d \in ImapCall : calls'[d] = calls[d] \/ CallHolds(calls[d])'
  BY <1>3, <1>4, <1>9
<1> QED
  BY <1>6, <1>7, <1>10, <1>11, StepHolds

-----------------------------------------------------------------------------
(* The steps that leave the folders alone.                                 *)

\* One lemma for each step of a call.  A call stops and leaves the folders alone.
LEMMA StopStep ==
  ASSUME ImapForm, NEW c \in ImapCall, Stops(c), UNCHANGED <<box, line>>, places' \subseteq places
  PROVE  ImapForm' /\ (MailHolds => MailHolds')
<1>1. CallsForm' /\ LineForm' /\ CountForm' /\ UNCHANGED <<keepsSent, outside, kept>>
  BY StopsForm
<1>2. PlacesForm'
  BY <1>1, PlacesKept DEF ImapForm, LineForm
<1>3. ImapForm'
  BY <1>1, <1>2 DEF ImapForm, BoxForm
<1>4. ASSUME MailHolds PROVE MailHolds'
  <2>1. BoxSteady /\ InOnePlace' /\ (\A l \in kept : NewestIsThere(l))'
    BY <1>1, <1>4, SameBox
  <2> QED
    BY <1>3, <1>4, <2>1, StopsHolds
<1> QED
  BY <1>3, <1>4

\* A step goes on with the row it has.
LEMMA PlainStep ==
  ASSUME ImapForm, NEW c \in ImapCall, calls[c].todo # <<>>, Advances(c, calls[c]), UNCHANGED <<box, line>>,
         Head(calls[c].todo) \notin {"append", "read", "scan", "fetch", "move", "delete"},
         \A x \in places' : x \in places \/ (x = calls[c].put /\ x.of # 0)
  PROVE  ImapForm' /\ (MailHolds => MailHolds')
<1>1. PICK q : q = calls[c]
  OBVIOUS
<1>2. IsCall(q) /\ ~SetsPut(q.todo)
  BY <1>1, StepOf DEF SetsPut
<1>3. CallsForm' /\ LineForm' /\ CountForm' /\ UNCHANGED <<keepsSent, outside, kept>>
  BY <1>1, <1>2, GoesForm
<1>4. PICK x : x = calls[c].put
  OBVIOUS
<1>5. IsRow(x)'
  BY <1>1, <1>2, <1>3, <1>4, RowKept DEF IsCall, ImapForm, LineForm
<1>6. PlacesForm'
  BY <1>3, <1>4, <1>5, PlacesKept DEF ImapForm, LineForm
<1>7. ImapForm'
  BY <1>3, <1>6 DEF ImapForm, BoxForm
<1>8. ASSUME MailHolds PROVE MailHolds'
  <2>1. BoxSteady /\ InOnePlace' /\ (\A l \in kept : NewestIsThere(l))'
    BY <1>3, <1>8, SameBox
  <2>2. CallHolds(q) /\ q.row = calls[c].row /\ q.put \in Rows \cup {NoPlace} /\ places' \subseteq Rows /\ NoPlace \in Rows
    BY <1>1, <1>8 DEF MailHolds, Rows
  <2> QED
    BY <1>1, <1>2, <1>7, <1>8, <2>1, <2>2, GoesHolds
<1> QED
  BY <1>7, <1>8

LEMMA OpenMailboxStep ==
  ASSUME ImapForm, NEW c \in ImapCall, OpenMailbox(c) PROVE ImapForm' /\ (MailHolds => MailHolds')
<1>1. calls[c].todo # <<>> /\ Head(calls[c].todo) \in {"openPut", "openRow"}
  BY DEF OpenMailbox, AtStep
<1>2. Goes(c, calls[c], Tail(calls[c].todo), c) /\ UNCHANGED <<box, line>> /\ places' \subseteq places
  BY DEF OpenMailbox
<1>3. Advances(c, calls[c])
  BY <1>1, <1>2, StepOf DEF Advances, Follows
<1> QED
  BY <1>1, <1>2, <1>3, PlainStep

LEMMA SaveStep ==
  ASSUME ImapForm, NEW c \in ImapCall, Save(c) PROVE ImapForm' /\ (MailHolds => MailHolds')
<1>1. calls[c].todo # <<>> /\ Head(calls[c].todo) = "save" /\ UNCHANGED <<box, line>>
  BY DEF Save, AtStep
<1>2. CASE Conflicts(calls[c].put)
  BY <1>1, <1>2, StopStep DEF Save
<1>3. CASE ~Conflicts(calls[c].put)
  <2>1. Proceeds(c, calls[c]) /\ \A x \in places' : x \in places \/ x = calls[c].put
    BY <1>3 DEF Save
  <2>2. calls[c].put.of # 0
    BY <1>1, StepOf DEF IsCall, NeedsPut
  <2> QED
    BY <1>1, <2>1, <2>2, ProceedsAdvances, PlainStep
<1> QED
  BY <1>2, <1>3

LEMMA DropStep ==
  ASSUME ImapForm, NEW c \in ImapCall, Drop(c) PROVE ImapForm' /\ (MailHolds => MailHolds')
<1>1. calls[c].todo # <<>> /\ Head(calls[c].todo) = "drop" /\ UNCHANGED <<box, line>>
  BY DEF Drop, AtStep
<1>2. Proceeds(c, calls[c]) /\ places' \subseteq places
  BY DEF Drop
<1> QED
  BY <1>1, <1>2, ProceedsAdvances, PlainStep

LEMMA DeliverStep ==
  ASSUME ImapForm, NEW c \in ImapCall, Deliver(c) PROVE ImapForm' /\ (MailHolds => MailHolds')
  BY ProceedsAdvances, PlainStep DEF Deliver, AtStep

LEMMA MarkStep ==
  ASSUME ImapForm, NEW c \in ImapCall, Mark(c) PROVE ImapForm' /\ (MailHolds => MailHolds')
<1>1. calls[c].todo # <<>> /\ Head(calls[c].todo) = "mark" /\ UNCHANGED <<box, line, places>>
  BY DEF Mark, AtStep
<1>2. CASE calls[c].put.validity = box[calls[c].put.path].validity
  BY <1>1, <1>2, ProceedsAdvances, PlainStep DEF Mark
<1>3. CASE calls[c].put.validity # box[calls[c].put.path].validity
  BY <1>1, <1>3, StopStep DEF Mark
<1> QED
  BY <1>2, <1>3

LEMMA FailsStep ==
  ASSUME ImapForm, NEW c \in ImapCall, Fails(c) PROVE ImapForm' /\ (MailHolds => MailHolds')
  BY StopStep DEF Fails

\* The row for a message at its place has the draft id that a row for that place has, or
\* that of a place in the drafts.
LEMMA ToMessageIs ==
  ASSUME ImapForm, NEW f \in Folder, NEW u \in DOMAIN box[f].held, NEW known, Len(known) <= 2,
         NEW r, r = ToMessage(f, u, known)
  PROVE  /\ IsRow(r) /\ r.of # 0 /\ r.path = f /\ r.uid = u /\ r.of = box[f].held[u]
         /\ r.draft # <<>> => \/ f = "drafts" \/ known # <<>>
                              \/ \E x \in places : x.path = f /\ x.uid = u /\ x.draft # <<>>
<1> DEFINE draft == DraftOf(f, u, known)
           id == IF At(f, u) # {} THEN (CHOOSE x \in At(f, u) : TRUE).id ELSE <<f, box[f].validity, u>>
           any == CHOOSE x \in At(f, u) : TRUE
<1>1. r = [id |-> id, path |-> f, validity |-> box[f].validity, uid |-> u, draft |-> draft, of |-> box[f].held[u]]
  BY DEF ToMessage
<1>2. At(f, u) # {} => any \in At(f, u)
  OBVIOUS
<1>3. Len(<<box[f].validity, u>>) = 2 /\ Len(<<>>) = 0
  OBVIOUS
<1> HIDE DEF any
<1>4. At(f, u) # {} => any \in places /\ any.path = f /\ any.uid = u /\ Len(any.draft) <= 2
  BY <1>2 DEF At, ImapForm, PlacesForm, IsRow
<1>5. draft = IF known # <<>> THEN known
              ELSE IF \E x \in At(f, u) : x.draft # <<>> THEN any.draft
              ELSE IF f = "drafts" THEN <<box[f].validity, u>> ELSE <<>>
  BY DEF DraftOf, any
<1> HIDE DEF draft, id
<1>6. Len(draft) <= 2
  BY <1>3, <1>4, <1>5
<1>7. draft # <<>> => f = "drafts" \/ known # <<>> \/ (At(f, u) # {} /\ any.draft # <<>>)
  BY <1>5
<1>8. u \in Nat /\ box[f].held[u] \in 1..Len(line)
  BY WhereTheyLie DEF Lies, Lie
<1>9. r.of # 0 /\ r.path = f /\ r.uid = u /\ r.of = box[f].held[u] /\ r.draft = draft
  BY <1>1, <1>8
<1>10. IsRow(r)
  BY <1>1, <1>6, <1>8 DEF IsRow, ImapForm, LineForm
<1> QED
  BY <1>4, <1>7, <1>9, <1>10

\* It leads to its message, and to none that was sent.
LEMMA ToMessageHolds ==
  ASSUME ImapForm, MailHolds, NEW f \in Folder, NEW u \in DOMAIN box[f].held, NEW known, Len(known) <= 2,
         known # <<>> => \E x \in Rows : x.path = f /\ x.uid = u /\ x.draft # <<>>,
         NEW r, r = ToMessage(f, u, known)
  PROVE  Named(r) /\ (keepsSent /\ r.draft # <<>> => \A m : Settled(m) => ~Lies(r.path, r.uid, m))
<1>1. r.path = f /\ r.uid = u /\ Lies(f, u, r.of)
  BY ToMessageIs DEF Lies, Lie
<1>2. u < box[f].next
  BY <1>1, WhereTheyLie
<1>3. \A k : Lies(f, u, k) => k = r.of
  BY <1>1 DEF Lies, Lie
<1>4. \A v : Lies("drafts", v, r.of) => f = "drafts" /\ u = v
  BY <1>1 DEF MailHolds, InOnePlace, Folder
<1>5. Named(r)
  BY <1>1, <1>2, <1>3, <1>4 DEF Named
<1>6. ASSUME keepsSent, r.draft # <<>>, NEW m, Settled(m), Lies(f, u, m) PROVE FALSE
  <2>1. f # "drafts"
    BY <1>6 DEF Settled
  <2>2. \E x \in Rows : x.path = f /\ x.uid = u /\ x.draft # <<>>
    BY <1>6, <2>1, ToMessageIs DEF Rows
  <2> QED
    BY <1>6, <2>2 DEF Settled
<1> QED
  BY <1>1, <1>5, <1>6

\* A call with the row to save.
WithPut(q, p, r) == q = [p EXCEPT !.put = r]

LEMMA PutIsSet ==
  ASSUME NEW p, IsCall(p), p.todo # <<>>, NEW r, IsRow(r), r.of # 0, NEW q, WithPut(q, p, r)
  PROVE  /\ IsCall(q) /\ q.op = p.op /\ q.todo = p.todo /\ q.row = p.row /\ q.put = r
         /\ q.to = p.to /\ q.copy = p.copy /\ q.known = p.known
<1>1. q = [op |-> p.op, todo |-> p.todo, row |-> p.row, put |-> r, to |-> p.to, copy |-> p.copy, known |-> p.known]
  BY DEF IsCall, WithPut
<1>2. /\ q.op = p.op /\ q.todo = p.todo /\ q.row = p.row /\ q.put = r
      /\ q.to = p.to /\ q.copy = p.copy /\ q.known = p.known
  BY <1>1
<1>3. IsCall(q)
  BY <1>1, <1>2 DEF IsCall
<1> QED
  BY <1>2, <1>3

\* A step that learns of a message at its place.
LEMMA LearnsStep ==
  ASSUME ImapForm, NEW c \in ImapCall, calls[c].todo # <<>>, Head(calls[c].todo) \in {"scan", "fetch"},
         NEW f \in Folder, NEW u \in DOMAIN box[f].held, NEW known, Len(known) <= 2,
         known # <<>> => \E x \in Rows : x.path = f /\ x.uid = u /\ x.draft # <<>>,
         Proceeds(c, [calls[c] EXCEPT !.put = ToMessage(f, u, known)]), UNCHANGED <<box, line, places>>
  PROVE  ImapForm' /\ (MailHolds => MailHolds')
<1>1. PICK r : r = ToMessage(f, u, known)
  OBVIOUS
<1>2. PICK q : q = [calls[c] EXCEPT !.put = r]
  OBVIOUS
<1>3. IsRow(r) /\ r.of # 0
  BY <1>1, ToMessageIs
<1>4. IsCall(calls[c])
  BY StepOf
<1>5. WithPut(q, calls[c], r)
  BY <1>2 DEF WithPut
<1>6. /\ q.op = calls[c].op /\ q.todo = calls[c].todo /\ q.row = calls[c].row /\ q.put = r
      /\ q.to = calls[c].to /\ q.copy = calls[c].copy /\ q.known = calls[c].known
  BY <1>3, <1>4, <1>5, PutIsSet
<1>7. IsCall(q)
  BY <1>3, <1>4, <1>5, PutIsSet
<1>8. Advances(c, q)
  BY <1>1, <1>2, ProceedsAdvances
<1>9. CallsForm' /\ LineForm' /\ CountForm' /\ UNCHANGED <<keepsSent, outside, kept>>
  BY <1>3, <1>6, <1>7, <1>8, GoesForm
<1>10. PlacesForm'
  BY <1>9, PlacesKept DEF ImapForm, LineForm
<1>11. ImapForm'
  BY <1>9, <1>10 DEF ImapForm, BoxForm
<1>12. ASSUME MailHolds PROVE MailHolds'
  <2>1. BoxSteady /\ InOnePlace' /\ (\A l \in kept : NewestIsThere(l))'
    BY <1>9, <1>12, SameBox
  <2>2. Named(r) /\ (keepsSent /\ r.draft # <<>> => \A m : Settled(m) => ~Lies(r.path, r.uid, m))
    BY <1>1, <1>12, ToMessageHolds
  <2>3. Named(r)' /\ (keepsSent /\ r.draft # <<>> => \A m : Settled(m) => ~Lies(r.path, r.uid, m)')
    BY <2>2 DEF Named, Lies, Lie
  <2>4. CallHolds(calls[c])
    BY <1>12 DEF MailHolds
  <2>5. CallHolds(q)
    BY <2>4, <1>6 DEF CallHolds
  <2>6. q.put \in Rows \cup {r} /\ places' \subseteq Rows
    BY <1>6 DEF Rows
  <2> QED
    BY <1>3, <1>6, <1>7, <1>8, <1>11, <1>12, <2>1, <2>3, <2>5, <2>6, GoesHolds
<1> QED
  BY <1>11, <1>12

LEMMA ScanStep ==
  ASSUME ImapForm, NEW c \in ImapCall, Scan(c) PROVE ImapForm' /\ (MailHolds => MailHolds')
<1>1. calls[c].todo # <<>> /\ Head(calls[c].todo) = "scan" /\ UNCHANGED <<box, line, places>>
  BY DEF Scan, AtStep
<1>2. calls[c].put.path \in Folder
  BY <1>1, StepOf DEF IsCall, IsRow
<1>3. CASE Stops(c)
  BY <1>1, <1>3, StopStep
<1>4. CASE ~Stops(c)
  <2>1. PICK u \in DOMAIN box[calls[c].put.path].held :
          Proceeds(c, [calls[c] EXCEPT !.put = ToMessage(calls[c].put.path, u, <<>>)])
    BY <1>4 DEF Scan
  <2>2. PICK f, known : f = calls[c].put.path /\ known = <<>>
    OBVIOUS
  <2>3. f \in Folder /\ u \in DOMAIN box[f].held /\ Len(known) <= 2
    BY <1>2, <2>2, EmptyDraft
  <2>4. Proceeds(c, [calls[c] EXCEPT !.put = ToMessage(f, u, known)])
    BY <2>1, <2>2
  <2> QED
    BY <1>1, <2>2, <2>3, <2>4, LearnsStep
<1> QED
  BY <1>3, <1>4

LEMMA FetchStep ==
  ASSUME ImapForm, NEW c \in ImapCall, Fetch(c) PROVE ImapForm' /\ (MailHolds => MailHolds')
<1>1. calls[c].todo # <<>> /\ Head(calls[c].todo) = "fetch" /\ UNCHANGED <<box, line, places>>
  BY DEF Fetch, AtStep
<1>2. PICK x : x = calls[c].put
  OBVIOUS
<1>3. x.path \in Folder /\ Len(x.draft) <= 2 /\ x \in Rows
  BY <1>1, <1>2, StepOf DEF IsCall, IsRow, Rows
<1>4. CASE ~(x.validity = box[x.path].validity /\ Has(x.path, x.uid))
  BY <1>1, <1>2, <1>4, StopStep DEF Fetch
<1>5. CASE x.validity = box[x.path].validity /\ Has(x.path, x.uid)
  <2>1. Proceeds(c, [calls[c] EXCEPT !.put = ToMessage(x.path, x.uid, x.draft)])
    BY <1>2, <1>5 DEF Fetch
  <2>2. x.uid \in DOMAIN box[x.path].held
    BY <1>5 DEF Has
  <2> QED
    BY <1>1, <1>3, <2>1, <2>2, LearnsStep
<1> QED
  BY <1>4, <1>5

\* send reads its draft: it has the message of its row, which no call has sent.
LEMMA ReadStep ==
  ASSUME ImapForm, NEW c \in ImapCall, Read(c) PROVE ImapForm' /\ (MailHolds => MailHolds')
<1>1. calls[c].todo # <<>> /\ Head(calls[c].todo) = "read" /\ UNCHANGED <<box, line, places>>
  BY DEF Read, AtStep
<1>2. PICK x : x = calls[c].row
  OBVIOUS
<1>3. CASE ~Has(x.path, x.uid)
  BY <1>1, <1>2, <1>3, StopStep DEF Read
<1>4. CASE Has(x.path, x.uid)
  <2>1. PICK k : k = box[x.path].held[x.uid]
    OBVIOUS
  <2>2. PICK q : q = [calls[c] EXCEPT !.copy = k]
    OBVIOUS
  <2>3. Proceeds(c, q)
    BY <1>2, <1>4, <2>1, <2>2 DEF Read
  <2>4. IsCall(calls[c]) /\ StageOf(calls[c].op, calls[c].todo) /\ calls[c].op = "send"
    BY <1>1, StepOf, WhoseStep
  <2>5. q = [op |-> calls[c].op, todo |-> calls[c].todo, row |-> calls[c].row, put |-> calls[c].put, to |-> calls[c].to,
             copy |-> k, known |-> calls[c].known]
    BY <2>2, <2>4 DEF IsCall
  <2>6. /\ q.op = calls[c].op /\ q.todo = calls[c].todo /\ q.row = calls[c].row /\ q.put = calls[c].put
        /\ q.to = calls[c].to /\ q.copy = k /\ q.known = calls[c].known
    BY <2>5
  <2>7. IsCall(q)
    BY <1>1, <2>4, <2>5, <2>6 DEF IsCall
  <2>8. Advances(c, q) /\ ~SetsPut(calls[c].todo)
    BY <1>1, <2>3, ProceedsAdvances DEF SetsPut
  <2>9. CallsForm' /\ LineForm' /\ CountForm' /\ UNCHANGED <<keepsSent, outside, kept>>
    BY <1>1, <2>6, <2>7, <2>8, GoesForm
  <2>10. PlacesForm'
    BY <1>1, <2>9, PlacesKept DEF ImapForm, LineForm
  <2>11. ImapForm'
    BY <1>1, <2>9, <2>10 DEF ImapForm, BoxForm
  <2>12. ASSUME MailHolds PROVE MailHolds'
    <3>1. BoxSteady /\ InOnePlace' /\ (\A l \in kept : NewestIsThere(l))'
      BY <1>1, <2>9, <2>12, SameBox
    <3>2. CallHolds(calls[c]) /\ x \in Rows /\ Named(x) /\ Lies(x.path, x.uid, k)
      BY <1>2, <1>4, <2>1, <2>12 DEF MailHolds, Rows, Has, Lies, Lie
    <3>3. k = x.of /\ x.draft # <<>> /\ q.known \subseteq spent
      BY <1>2, <2>4, <2>6, <3>2 DEF Named, CallHolds
    <3>4. CallHolds(q)
      <4>1. ~PastRead(q.todo) /\ ~PastMove(q.todo) /\ Head(q.todo) # "deliver" /\ Head(q.todo) # "append"
        BY <1>1, <2>6 DEF PastRead, PastMove
      <4> QED
        BY <2>4, <2>6, <3>2, <4>1 DEF CallHolds
    <3>5. q.copy \in q.known => ~keepsSent /\ q.row.path # "drafts"
      <4> SUFFICES ASSUME k \in spent PROVE ~keepsSent /\ x.path # "drafts"
        BY <1>2, <2>6, <3>3
      <4>1. Settled(k)
        BY <2>12 DEF MailHolds
      <4> QED
        BY <3>2, <3>3, <4>1 DEF Settled
    <3>6. q.put \in Rows \cup {NoPlace} /\ places' \subseteq Rows /\ NoPlace \in Rows
      BY <1>1, <2>6 DEF Rows
    <3> QED
      BY <1>1, <1>2, <2>6, <2>7, <2>8, <2>11, <2>12, <3>1, <3>3, <3>4, <3>5, <3>6, GoesHolds
  <2> QED
    BY <2>11, <2>12
<1> QED
  BY <1>3, <1>4

-----------------------------------------------------------------------------
(* Messages deleted, moved and written.                                    *)

\* The form of the state, from that of its parts.
LEMMA FormAfter ==
  ASSUME ImapForm, CallsForm', LineForm', CountForm', AreBoxes(box', outside', Len(line')), Len(line) <= Len(line'),
         \A x \in places' : x \in places \/ (IsRow(x)' /\ x.of # 0)
  PROVE  ImapForm'
<1>1. PlacesForm'
  BY PlacesKept DEF ImapForm
<1> QED
  BY <1>1 DEF ImapForm, BoxForm

\* A message is removed that is not the newest version of one to keep.
LEMMA RemovedHolds ==
  ASSUME ImapForm, MailHolds, NEW f \in Folder, NEW u, Removed(box', box, f, u),
         UNCHANGED line, kept' \subseteq kept,
         \A k \in 1..Len(line) : Lies(f, u, k) =>
           line[k] \notin kept' \/ \E j \in 1..Len(line) : k < j /\ line[j] = line[k]
  PROVE  /\ AreBoxes(box', outside, Len(line))
         /\ \A g \in Folder : \A v, k : Lies(g, v, k)' <=> Lies(g, v, k) /\ ~(g = f /\ v = u)
         /\ BoxSteady /\ InOnePlace' /\ (\A l \in kept : NewestIsThere(l))'
<1>1. outside \in Nat /\ Len(line) \in Nat /\ AreBoxes(box, outside, Len(line))
  BY ImapAssumption DEF ImapForm, CountForm, LineForm, BoxForm
<1>2. PICK a : a = box'
  OBVIOUS
<1>3. /\ AreBoxes(a, outside, Len(line))
      /\ \A g \in Folder : a[g].validity = box[g].validity /\ a[g].next = box[g].next
      /\ \A g \in Folder : \A v, k : Lie(a, g, v, k) <=> Lie(box, g, v, k) /\ ~(g = f /\ v = u)
  BY <1>1, <1>2, RemovedFrom
<1>4. \A g \in Folder : \A v, k : Lies(g, v, k)' <=> Lies(g, v, k) /\ ~(g = f /\ v = u)
  BY <1>2, <1>3 DEF Lies
<1>5. BoxSteady
  BY <1>2, <1>3, <1>4, WhereTheyLie DEF BoxSteady
<1>6. InOnePlace'
  BY <1>4 DEF InOnePlace, MailHolds
<1>7. ASSUME NEW l \in kept' PROVE NewestIsThere(l)'
  <2>1. NewestIsThere(l)
    BY <1>7 DEF MailHolds
  <2>2. PICK k \in 1..Len(line) : /\ line[k] = l /\ \A j \in 1..Len(line) : line[j] = l => j <= k
                                  /\ \E g \in Folder : \E v : Lies(g, v, k)
    BY <2>1 DEF NewestIsThere
  <2>3. PICK g \in Folder : \E v : Lies(g, v, k)
    BY <2>2
  <2>4. PICK v : Lies(g, v, k)
    BY <2>3
  <2>5. ~(g = f /\ v = u)
    BY <1>1, <1>7, <2>2, <2>4
  <2>6. Lies(g, v, k)'
    BY <1>4, <2>4, <2>5
  <2> QED
    BY <2>2, <2>6 DEF NewestIsThere
<1> QED
  BY <1>2, <1>3, <1>4, <1>5, <1>6, <1>7

LEMMA DeleteStep ==
  ASSUME ImapForm, NEW c \in ImapCall, Delete(c) PROVE ImapForm' /\ (MailHolds => MailHolds')
<1>1. calls[c].todo # <<>> /\ Head(calls[c].todo) = "delete" /\ UNCHANGED <<line, places>>
  BY DEF Delete, AtStep
<1>2. PICK q : q = calls[c]
  OBVIOUS
<1>3. IsCall(q) /\ ~SetsPut(q.todo) /\ Advances(c, q) /\ StageOf(q.op, q.todo)
  BY <1>1, <1>2, StepOf, ProceedsAdvances DEF SetsPut, Delete
<1>4. PICK f, u : f = q.row.path /\ u = q.row.uid
  OBVIOUS
<1>5. f \in Folder /\ Removed(box', box, f, u)
  BY <1>2, <1>3, <1>4 DEF IsCall, IsRow, Delete, Removed
<1>6. CallsForm' /\ LineForm' /\ CountForm' /\ UNCHANGED <<keepsSent, outside, kept>>
  BY <1>1, <1>2, <1>3, GoesForm
<1>7. AreBoxes(box', outside, Len(line))
  <2>1. outside \in Nat /\ Len(line) \in Nat /\ AreBoxes(box, outside, Len(line))
    BY ImapAssumption DEF ImapForm, CountForm, LineForm, BoxForm
  <2> QED
    BY <1>5, <2>1, RemovedFrom
<1>8. ImapForm'
  BY <1>1, <1>6, <1>7, FormAfter DEF ImapForm, LineForm
<1>9. ASSUME MailHolds PROVE MailHolds'
  <2>1. CallHolds(q) /\ q.row \in Rows /\ Named(q.row)
    BY <1>2, <1>9 DEF MailHolds, Rows
  <2>2. q.op \in {"update", "delete"} \/ (q.op = "send" /\ ~keepsSent)
    BY <1>1, <1>2, <1>3, WhoseStep
  <2>3. \A k \in 1..Len(line) : Lies(f, u, k) =>
          line[k] \notin kept' \/ \E j \in 1..Len(line) : k < j /\ line[j] = line[k]
    BY <1>1, <1>2, <1>4, <1>6, <2>1, <2>2 DEF Named, CallHolds
  <2>4. /\ \A g \in Folder : \A v, k : Lies(g, v, k)' <=> Lies(g, v, k) /\ ~(g = f /\ v = u)
        /\ BoxSteady /\ InOnePlace' /\ (\A l \in kept : NewestIsThere(l))'
    BY <1>1, <1>5, <1>6, <1>9, <2>3, RemovedHolds
  <2>5. ASSUME q.op = "send" PROVE q.copy = q.row.of /\ (RowSteady(NoPlace) /\ RestSteady => Settled(q.copy)')
    <3>1. q.copy = q.row.of /\ ~keepsSent /\ q.row.of \in 1..Len(line)
      BY <1>1, <1>2, <1>3, <2>1, <2>2, <2>5, StepOf DEF CallHolds, Sends, IsCall, IsRow
    <3>2. \A v : ~Lies("drafts", v, q.row.of)'
      BY <1>4, <2>1, <2>4 DEF Named, Folder
    <3> QED
      BY <1>1, <1>6, <3>1, <3>2 DEF Settled
  <2>6. q.put \in Rows \cup {NoPlace} /\ places' \subseteq Rows /\ NoPlace \in Rows
    BY <1>1, <1>2 DEF Rows
  <2> QED
    BY <1>1, <1>2, <1>3, <1>8, <1>9, <2>1, <2>4, <2>5, <2>6, GoesHolds
<1> QED
  BY <1>8, <1>9

LEMMA OtherClientDeletesStep ==
  ASSUME ImapForm, OtherClientDeletes PROVE ImapForm' /\ (MailHolds => MailHolds')
<1>1. PICK f \in Folder : \E u \in DOMAIN box[f].held :
        Removed(box', box, f, u) /\ kept' = kept \ {line[box[f].held[u]]}
  BY DEF OtherClientDeletes, Removed
<1>2. PICK u \in DOMAIN box[f].held :
        Removed(box', box, f, u) /\ kept' = kept \ {line[box[f].held[u]]}
  BY <1>1
<1>3. UNCHANGED <<line, places, calls, imapLock, keepsSent, imapBegun, spent>> /\ outside < MaxOutside /\ outside' = outside + 1
  BY DEF OtherClientDeletes
<1>4. outside \in Nat /\ outside' \in Nat /\ outside <= outside' /\ Len(line) \in Nat /\ AreBoxes(box, outside, Len(line))
  BY <1>3, ImapAssumption DEF ImapForm, CountForm, LineForm, BoxForm
<1>5. PICK a : a = box'
  OBVIOUS
<1>6. AreBoxes(a, outside, Len(line))
  BY <1>2, <1>4, <1>5, RemovedFrom
<1>7. AreBoxes(box', outside', Len(line'))
  BY <1>3, <1>4, <1>5, <1>6, BoxesKept
<1>8. LineForm' /\ CountForm' /\ PlacesForm' /\ CallsForm'
  BY <1>3, <1>4, ImapAssumption DEF ImapForm, LineForm, CountForm, PlacesForm, IsRow, CallsForm, IsCall, StageOf
<1>9. ImapForm'
  BY <1>7, <1>8 DEF ImapForm, BoxForm
<1>10. ASSUME MailHolds PROVE MailHolds'
  <2>1. \A k \in 1..Len(line) : Lies(f, u, k) => line[k] \notin kept'
    BY <1>2 DEF Lies, Lie
  <2>2. BoxSteady /\ InOnePlace' /\ (\A l \in kept : NewestIsThere(l))'
    BY <1>2, <1>3, <1>10, <2>1, RemovedHolds
  <2>3. RowSteady(NoPlace)
    BY <1>3 DEF RowSteady, Rows
  <2>4. RestSteady
    BY <1>2, <1>3, <1>4 DEF RestSteady
  <2> QED
    BY <1>3, <1>9, <1>10, <2>2, <2>3, <2>4, StepHolds
<1> QED
  BY <1>9, <1>10

LEMMA RenumberForm == ASSUME ImapForm, Renumber PROVE ImapForm' /\ ~SameNumbers'
<1>1. PICK f \in Folder :
        \E new \in [1..Cardinality({box[f].held[u] : u \in DOMAIN box[f].held}) -> {box[f].held[u] : u \in DOMAIN box[f].held}] :
          box' = [box EXCEPT ![f] = [validity |-> @.validity + 1,
                    next |-> Cardinality({box[f].held[u] : u \in DOMAIN box[f].held}) + 1, held |-> new]]
  BY DEF Renumber
<1>2. PICK held, count : held = {box[f].held[u] : u \in DOMAIN box[f].held} /\ count = Cardinality(held)
  OBVIOUS
<1>3. PICK new \in [1..count -> held] :
        Anew(box', box, f, count, new)
  BY <1>1, <1>2 DEF Anew
<1>4. UNCHANGED <<line, places, calls, imapLock, keepsSent, imapBegun, spent>> /\ outside < MaxOutside /\ outside' = outside + 1
  BY DEF Renumber
<1>5. outside \in Nat /\ Len(line) \in Nat /\ AreBoxes(box, outside, Len(line))
  BY ImapAssumption DEF ImapForm, CountForm, LineForm, BoxForm
<1>6. held \in SUBSET (1..Len(line))
  BY <1>2, WhereTheyLie DEF Lies, Lie
<1>7. count \in Nat /\ new \in [1..count -> 1..Len(line)]
  BY <1>2, <1>3, <1>5, <1>6, CountIsNatural
<1>8. PICK a : a = box'
  OBVIOUS
<1>9. AreBoxes(a, outside + 1, Len(line)) /\ a[f].validity # 1
  BY <1>3, <1>5, <1>7, <1>8, BuiltAnew
<1>10. AreBoxes(box', outside', Len(line')) /\ ~SameNumbers'
  BY <1>4, <1>8, <1>9 DEF SameNumbers
<1>11. LineForm' /\ CountForm' /\ PlacesForm' /\ CallsForm'
  BY <1>4, <1>5, ImapAssumption DEF ImapForm, LineForm, CountForm, PlacesForm, IsRow, CallsForm, IsCall, StageOf
<1> QED
  BY <1>10, <1>11 DEF ImapForm, BoxForm

\* A message is moved: it is put into a folder and removed from where it was.
LEMMA MovedTo ==
  ASSUME ImapForm, NEW p \in Folder, NEW u \in DOMAIN box[p].held, NEW f \in Folder, NEW k, k = box[p].held[u],
         NEW b, IsPut(b, f, k), Removed(box', b, p, u)
  PROVE  /\ AreBoxes(box', outside, Len(line))
         /\ \A g \in Folder : box'[g].validity = box[g].validity /\ box'[g].next \in {box[g].next, box[g].next + 1}
         /\ box'[f].next = box[f].next + 1
         /\ \A g \in Folder : \A v, j :
              Lies(g, v, j)' <=> (Lies(g, v, j) \/ (g = f /\ v = box[f].next /\ j = k)) /\ ~(g = p /\ v = u)
<1>1. outside \in Nat /\ Len(line) \in Nat /\ AreBoxes(box, outside, Len(line))
  BY ImapAssumption DEF ImapForm, CountForm, LineForm, BoxForm
<1>2. k \in 1..Len(line)
  BY WhereTheyLie DEF Lies, Lie
<1>3. PICK n : n = Len(line)
  OBVIOUS
<1>4. PICK o : o = outside
  OBVIOUS
<1>5. /\ AreBoxes(b, o, n)
      /\ \A g \in Folder : b[g].validity = box[g].validity /\ b[g].next \in {box[g].next, box[g].next + 1}
      /\ b[f].next = box[f].next + 1
      /\ \A g \in Folder : \A v, j : Lie(b, g, v, j) <=> Lie(box, g, v, j) \/ (g = f /\ v = box[f].next /\ j = k)
  BY <1>1, <1>2, <1>3, <1>4, PutInto
<1>6. PICK a : a = box'
  OBVIOUS
<1>7. /\ AreBoxes(a, o, n)
      /\ \A g \in Folder : a[g].validity = b[g].validity /\ a[g].next = b[g].next
      /\ \A g \in Folder : \A v, j : Lie(a, g, v, j) <=> Lie(b, g, v, j) /\ ~(g = p /\ v = u)
  BY <1>1, <1>3, <1>4, <1>5, <1>6, RemovedFrom
<1>8. AreBoxes(box', outside, Len(line))
  BY <1>3, <1>4, <1>6, <1>7
<1>9. \A g \in Folder : box'[g].validity = box[g].validity /\ box'[g].next \in {box[g].next, box[g].next + 1}
  BY <1>5, <1>6, <1>7
<1>10. box'[f].next = box[f].next + 1
  BY <1>5, <1>6, <1>7
<1>11. \A g \in Folder : \A v, j :
              Lies(g, v, j)' <=> (Lies(g, v, j) \/ (g = f /\ v = box[f].next /\ j = k)) /\ ~(g = p /\ v = u)
  BY <1>5, <1>6, <1>7 DEF Lies
<1> QED
  BY <1>8, <1>9, <1>10, <1>11

\* It is then where it was moved to and nowhere else, and no row leads there before.
LEMMA MovedHolds ==
  ASSUME ImapForm, MailHolds, NEW p \in Folder, NEW u \in DOMAIN box[p].held, NEW f \in Folder \ {"drafts"},
         NEW k, k = box[p].held[u], NEW b, IsPut(b, f, k), Removed(box', b, p, u), UNCHANGED <<line, kept>>
  PROVE  BoxSteady /\ InOnePlace' /\ (\A l \in kept : NewestIsThere(l))'
<1>1. /\ \A g \in Folder : box'[g].next \in {box[g].next, box[g].next + 1}
      /\ \A g \in Folder : \A v, j :
           Lies(g, v, j)' <=> (Lies(g, v, j) \/ (g = f /\ v = box[f].next /\ j = k)) /\ ~(g = p /\ v = u)
  BY MovedTo
<1>2. BoxSteady
  BY <1>1, WhereTheyLie DEF BoxSteady
<1>3. Lies(p, u, k) /\ u # box[p].next
  BY WhereTheyLie DEF Lies, Lie
<1>4. \A g \in Folder : \A v : Lies(g, v, k) => g = p /\ v = u
  BY <1>3 DEF MailHolds, InOnePlace
<1>5. InOnePlace'
  <2> SUFFICES ASSUME NEW g \in Folder, NEW h \in Folder, NEW v, NEW w, NEW j, Lies(g, v, j)', Lies(h, w, j)'
               PROVE  g = h /\ v = w
    BY DEF InOnePlace
  <2>1. CASE j = k
    BY <1>1, <1>4, <2>1
  <2>2. CASE j # k
    <3>1. Lies(g, v, j) /\ Lies(h, w, j)
      BY <1>1, <2>2
    <3> QED
      BY <3>1 DEF MailHolds, InOnePlace
  <2> QED
    BY <2>1, <2>2
<1>6. ASSUME NEW l \in kept' PROVE NewestIsThere(l)'
  <2>1. NewestIsThere(l)
    BY <1>6 DEF MailHolds
  <2>2. PICK n \in 1..Len(line) : /\ line[n] = l /\ \A j \in 1..Len(line) : line[j] = l => j <= n
                                  /\ \E g \in Folder : \E v : Lies(g, v, n)
    BY <2>1 DEF NewestIsThere
  <2>3. PICK g \in Folder : \E v : Lies(g, v, n)
    BY <2>2
  <2>4. PICK v : Lies(g, v, n)
    BY <2>3
  <2>5. CASE n = k
    <3>1. PICK w : w = box[f].next
      OBVIOUS
    <3>2. Lies(f, w, k)'
      BY <1>1, <1>3, <3>1
    <3> QED
      BY <2>2, <2>5, <3>2 DEF NewestIsThere
  <2>6. CASE n # k
    <3>1. Lies(g, v, n)'
      BY <1>1, <1>3, <2>4, <2>6 DEF Lies, Lie
    <3> QED
      BY <2>2, <3>1 DEF NewestIsThere
  <2> QED
    BY <2>5, <2>6
<1> QED
  BY <1>2, <1>5, <1>6

\* The row of a message that was moved.
LEMMA NewPlaceIs ==
  ASSUME NEW x, IsRow(x), NEW f, NEW sent \in BOOLEAN, NEW r, r = Moved(x, f, sent)
  PROVE  r = [id |-> x.id, path |-> f, validity |-> box[f].validity, uid |-> box[f].next,
              draft |-> IF sent THEN <<>> ELSE x.draft, of |-> x.of]
<1>1. x = [id |-> x.id, path |-> x.path, validity |-> x.validity, uid |-> x.uid, draft |-> x.draft, of |-> x.of]
  BY DEF IsRow
<1>2. PICK v, u : v = box[f].validity /\ u = box[f].next
  OBVIOUS
<1>3. PICK y : y = NewPlace(x, f)
  OBVIOUS
<1>4. y = [[[x EXCEPT !.path = f] EXCEPT !.validity = v] EXCEPT !.uid = u]
  BY <1>2, <1>3 DEF NewPlace
<1>5. [x EXCEPT !.path = f] = [id |-> x.id, path |-> f, validity |-> x.validity, uid |-> x.uid, draft |-> x.draft, of |-> x.of]
  BY <1>1
<1>6. y = [id |-> x.id, path |-> f, validity |-> v, uid |-> u, draft |-> x.draft, of |-> x.of]
  BY <1>4, <1>5
<1>7. r = [y EXCEPT !.draft = IF sent THEN <<>> ELSE y.draft]
  BY <1>3 DEF Moved
<1> QED
  BY <1>2, <1>6, <1>7

LEMMA MoveStep ==
  ASSUME ImapForm, NEW c \in ImapCall, Move(c) PROVE ImapForm' /\ (MailHolds => MailHolds')
<1>1. calls[c].todo # <<>> /\ Head(calls[c].todo) = "move" /\ UNCHANGED line
  BY DEF Move, AtStep
<1>2. PICK x, f, sent : x = calls[c].row /\ f = calls[c].to /\ sent = (calls[c].op = "send")
  OBVIOUS
<1>3. IsCall(calls[c]) /\ StageOf(calls[c].op, calls[c].todo) /\ calls[c].op \in {"send", "modify"}
  BY <1>1, StepOf, WhoseStep
<1>4. IsRow(x) /\ x.path \in Folder /\ f \in Folder \ {"drafts"} /\ sent \in BOOLEAN /\ x.of # 0
  BY <1>2, <1>3 DEF IsCall, IsRow
<1>5. CASE ~Has(x.path, x.uid)
  <2>1. Stops(c) /\ UNCHANGED box /\ places' \subseteq places
    BY <1>2, <1>5 DEF Move
  <2> QED
    BY <1>1, <2>1, StopStep
<1>6. CASE Has(x.path, x.uid)
  <2>1. PICK p, u, k, b : p = x.path /\ u = x.uid /\ k = box[p].held[u] /\ b = Put(f, k)
    OBVIOUS
  <2>2. IsPut(b, f, k) /\ Removed(box', b, p, u) /\ p \in Folder /\ u \in DOMAIN box[p].held
    BY <1>2, <1>4, <1>6, <2>1 DEF IsPut, Removed, Has, Move
  <2>3. /\ AreBoxes(box', outside, Len(line))
        /\ \A g \in Folder : box'[g].validity = box[g].validity /\ box'[g].next \in {box[g].next, box[g].next + 1}
        /\ box'[f].next = box[f].next + 1
        /\ \A g \in Folder : \A v, j :
             Lies(g, v, j)' <=> (Lies(g, v, j) \/ (g = f /\ v = box[f].next /\ j = k)) /\ ~(g = p /\ v = u)
    BY <1>4, <2>1, <2>2, MovedTo
  <2>4. CASE Stops(c) /\ places' \subseteq places
    <3>1. CallsForm' /\ LineForm' /\ CountForm' /\ UNCHANGED <<keepsSent, outside, kept>>
      BY <1>1, <2>4, StopsForm
    <3>2. ImapForm'
      BY <1>1, <2>3, <2>4, <3>1, FormAfter DEF ImapForm, LineForm
    <3>3. ASSUME MailHolds PROVE MailHolds'
      <4>1. BoxSteady /\ InOnePlace' /\ (\A l \in kept : NewestIsThere(l))'
        BY <1>1, <1>4, <2>1, <2>2, <3>1, <3>3, MovedHolds
      <4> QED
        BY <1>1, <2>4, <3>2, <3>3, <4>1, StopsHolds
    <3> QED
      BY <3>2, <3>3
  <2>5. CASE Proceeds(c, [calls[c] EXCEPT !.put = Moved(x, f, sent)]) /\ UNCHANGED places
    <3>1. PICK r : r = Moved(x, f, sent)
      OBVIOUS
    <3>2. r = [id |-> x.id, path |-> f, validity |-> box[f].validity, uid |-> box[f].next,
               draft |-> IF sent THEN <<>> ELSE x.draft, of |-> x.of]
      BY <1>4, <3>1, NewPlaceIs
    <3>3. /\ r.path = f /\ r.uid = box[f].next /\ r.of = x.of /\ r.draft = IF sent THEN <<>> ELSE x.draft
      BY <3>2
    <3>4. IsRow(r) /\ r.of # 0
      BY <1>4, <3>2, <3>3, WhereTheyLie, EmptyDraft DEF IsRow, ImapForm, LineForm
    <3>5. PICK q : q = [calls[c] EXCEPT !.put = r]
      OBVIOUS
    <3>6. WithPut(q, calls[c], r)
      BY <3>5 DEF WithPut
    <3>7. /\ q.op = calls[c].op /\ q.todo = calls[c].todo /\ q.row = calls[c].row /\ q.put = r
          /\ q.to = calls[c].to /\ q.copy = calls[c].copy /\ q.known = calls[c].known
      BY <1>1, <1>3, <3>4, <3>6, PutIsSet
    <3>8. IsCall(q)
      BY <1>1, <1>3, <3>4, <3>6, PutIsSet
    <3>9. Advances(c, q)
      BY <1>1, <2>5, <3>1, <3>5, ProceedsAdvances
    <3>10. CallsForm' /\ LineForm' /\ CountForm' /\ UNCHANGED <<keepsSent, outside, kept>>
      BY <1>1, <3>4, <3>7, <3>8, <3>9, GoesForm
    <3>11. ImapForm'
      BY <1>1, <2>3, <2>5, <3>10, FormAfter DEF ImapForm, LineForm
    <3>12. ASSUME MailHolds PROVE MailHolds'
      <4>1. BoxSteady /\ InOnePlace' /\ (\A l \in kept : NewestIsThere(l))'
        BY <1>1, <1>4, <2>1, <2>2, <3>10, <3>12, MovedHolds
      <4>2. CallHolds(calls[c]) /\ x \in Rows /\ Named(x) /\ Lies(p, u, k)
        BY <1>2, <2>1, <2>2, <3>12 DEF MailHolds, Rows, Lies, Lie
      <4>3. k = x.of /\ \A g \in Folder : \A v : Lies(g, v, k) => g = p /\ v = u
        BY <2>1, <2>2, <3>12, <4>2 DEF Named, MailHolds, InOnePlace
      <4>4. \A g \in Folder : \A v : Lies(g, v, k)' => g = f /\ v = r.uid
        BY <2>3, <3>3, <4>3
      <4>5. Named(r)'
        <5>1. r.uid < box'[r.path].next
          BY <1>4, <2>3, <3>3, WhereTheyLie
        <5>2. \A j : Lies(f, r.uid, j)' => j = k
          BY <1>4, <2>3, <3>3, WhereTheyLie
        <5>3. \A v : ~Lies("drafts", v, k)'
          BY <1>4, <4>4 DEF Folder
        <5> QED
          BY <3>3, <4>3, <5>1, <5>2, <5>3 DEF Named
      <4>6. ASSUME keepsSent, r.draft # <<>>, NEW m, Settled(m), Lies(r.path, r.uid, m)' PROVE FALSE
        <5>1. m = k
          BY <1>4, <2>3, <3>3, <4>6, WhereTheyLie
        <5>2. x.draft # <<>>
          BY <3>3, <4>6
        <5> QED
          BY <2>1, <4>2, <4>6, <5>1, <5>2 DEF Settled
      <4>11. q.op = "send" => q.copy = q.row.of
        BY <1>1, <1>2, <3>7, <4>2, StepOf DEF CallHolds, Sends
      <4>7. ASSUME q.op = "send", RowSteady(r) PROVE q.copy = q.row.of /\ Settled(q.copy)'
        <5>1. q.copy = k /\ q.row = x
          BY <1>2, <3>7, <4>3, <4>7, <4>11
        <5>4. r.draft = <<>>
          BY <1>2, <3>3, <3>7, <4>7
        <5>5. k \in 1..Len(line)
          BY <2>2, <4>2, WhereTheyLie
        <5>2. \A v : ~Lies("drafts", v, k)'
          BY <1>4, <4>4 DEF Folder
        <5>3. ASSUME NEW y \in Rows', y.draft # <<>>, Lies(y.path, y.uid, k)' PROVE FALSE
          <6>1. y \in Rows
            BY <4>7, <5>4, <5>3 DEF RowSteady
          <6>2. IsRow(y) /\ Named(y)
            BY <3>12, <6>1, RowsAreRows DEF MailHolds
          <6>3. y.path = f /\ y.uid = box[f].next
            BY <3>3, <4>4, <5>3, <6>2 DEF IsRow
          <6> QED
            BY <1>4, <6>2, <6>3, WhereTheyLie DEF Named
        <5> QED
          BY <1>1, <4>3, <5>1, <5>2, <5>3, <5>5 DEF Settled
      <4>8. CallHolds(q)
        BY <3>7, <4>2 DEF CallHolds
      <4>9. q.put \in Rows \cup {r} /\ places' \subseteq Rows
        BY <2>5, <3>7 DEF Rows
      <4>10. r \notin Rows => Named(r)' /\ (keepsSent /\ r.draft # <<>> => \A m : Settled(m) => ~Lies(r.path, r.uid, m)')
        BY <4>5, <4>6
      <4> QED
        BY <1>1, <3>4, <3>7, <3>8, <3>9, <3>11, <3>12, <4>1, <4>7, <4>8, <4>9, <4>10, <4>11, GoesHolds
    <3> QED
      BY <3>11, <3>12
  <2> QED
    BY <1>2, <1>6, <2>4, <2>5 DEF Move
<1> QED
  BY <1>5, <1>6

\* The row of a message that is written: a new version of a draft, a draft, or a copy of
\* what was sent.
NewDraft(op, x, k) == IF op = "update" THEN x.draft ELSE IF op = "create" THEN <<k>> ELSE <<>>
NewRow(op, x, f, k) ==
  LET new == CASE op = "update" -> [x EXCEPT !.of = k]
               [] op = "create" -> [NoPlace EXCEPT !.of = k, !.draft = <<k>>]
               [] OTHER -> [NoPlace EXCEPT !.of = k]
  IN [NewPlace(new, f) EXCEPT !.id = IF @ = <<>> THEN <<f, box[f].validity, box[f].next>> ELSE @]

\* The record that it is.
LEMMA NewRowIs ==
  ASSUME NEW x, IsRow(x), NEW f, NEW k, NEW op, NEW r, r = NewRow(op, x, f, k)
  PROVE  \E i : r = [id |-> i, path |-> f, validity |-> box[f].validity, uid |-> box[f].next,
                     draft |-> NewDraft(op, x, k), of |-> k]
<1>1. PICK v, u : v = box[f].validity /\ u = box[f].next
  OBVIOUS
<1>2. PICK new : new = CASE op = "update" -> [x EXCEPT !.of = k]
                         [] op = "create" -> [NoPlace EXCEPT !.of = k, !.draft = <<k>>]
                         [] OTHER -> [NoPlace EXCEPT !.of = k]
  OBVIOUS
<1>3. \E i, g, n, m : new = [id |-> i, path |-> g, validity |-> n, uid |-> m, draft |-> NewDraft(op, x, k), of |-> k]
  <2>1. CASE op = "update"
    <3>1. new = [x EXCEPT !.of = k]
      BY <1>2, <2>1
    <3>2. x = [id |-> x.id, path |-> x.path, validity |-> x.validity, uid |-> x.uid, draft |-> x.draft, of |-> x.of]
      BY DEF IsRow
    <3>3. new = [id |-> x.id, path |-> x.path, validity |-> x.validity, uid |-> x.uid, draft |-> x.draft, of |-> k]
      BY <3>1, <3>2
    <3> QED
      BY <2>1, <3>3 DEF NewDraft
  <2>2. CASE op = "create"
    <3>1. new = [NoPlace EXCEPT !.of = k, !.draft = <<k>>]
      BY <1>2, <2>2
    <3>2. new = [id |-> <<>>, path |-> "inbox", validity |-> 0, uid |-> 0, draft |-> <<k>>, of |-> k]
      BY <3>1 DEF NoPlace
    <3> QED
      BY <2>2, <3>2 DEF NewDraft
  <2>3. CASE op # "update" /\ op # "create"
    <3>1. new = [NoPlace EXCEPT !.of = k]
      BY <1>2, <2>3
    <3>2. new = [id |-> <<>>, path |-> "inbox", validity |-> 0, uid |-> 0, draft |-> <<>>, of |-> k]
      BY <3>1 DEF NoPlace
    <3> QED
      BY <2>3, <3>2 DEF NewDraft
  <2> QED
    BY <2>1, <2>2, <2>3
<1>4. PICK i, g, n, m : new = [id |-> i, path |-> g, validity |-> n, uid |-> m, draft |-> NewDraft(op, x, k), of |-> k]
  BY <1>3
<1>5. PICK y : y = NewPlace(new, f)
  OBVIOUS
<1>6. y = [[[new EXCEPT !.path = f] EXCEPT !.validity = v] EXCEPT !.uid = u]
  BY <1>1, <1>5 DEF NewPlace
<1>7. y = [id |-> i, path |-> f, validity |-> v, uid |-> u, draft |-> NewDraft(op, x, k), of |-> k]
  BY <1>4, <1>6
<1>8. PICK j : r = [y EXCEPT !.id = j]
  BY <1>2, <1>5 DEF NewRow
<1>9. r = [id |-> j, path |-> f, validity |-> v, uid |-> u, draft |-> NewDraft(op, x, k), of |-> k]
  BY <1>7, <1>8
<1> QED
  BY <1>1, <1>9

\* What AppendMessage does, in the names that its proof uses.
Appends(c, op, x, f, k, r, q) ==
  /\ calls[c].todo # <<>> /\ Head(calls[c].todo) = "append"
  /\ op = calls[c].op /\ x = calls[c].row /\ f = calls[c].to /\ k = Len(line) + 1
  /\ r = NewRow(op, x, f, k)
  /\ q = [calls[c] EXCEPT !.put = r, !.todo = Tail(@)]
  /\ IsPut(box', f, k)
  /\ line' = Append(line, IF op = "update" THEN line[x.of] ELSE k)
  /\ calls' = [calls EXCEPT ![c] = q]
  /\ kept' = IF op = "update" THEN kept ELSE kept \cup {k}
  /\ UNCHANGED <<places, imapLock, keepsSent, imapBegun, outside, spent>>

LEMMA AppendsIs ==
  ASSUME NEW c \in ImapCall, AppendMessage(c) PROVE \E op, x, f, k, r, q : Appends(c, op, x, f, k, r, q)
<1>1. PICK op, x, f, k : op = calls[c].op /\ x = calls[c].row /\ f = calls[c].to /\ k = Len(line) + 1
  OBVIOUS
<1>2. PICK r : r = NewRow(op, x, f, k)
  OBVIOUS
<1>3. PICK q : q = [calls[c] EXCEPT !.put = r, !.todo = Tail(@)]
  OBVIOUS
<1>4. calls' = [calls EXCEPT ![c].put = r, ![c].todo = Tail(@)]
  BY <1>1, <1>2 DEF AppendMessage, NewRow
<1>5. calls' = [calls EXCEPT ![c] = q]
  BY <1>3, <1>4
<1>6. /\ calls[c].todo # <<>> /\ Head(calls[c].todo) = "append" /\ IsPut(box', f, k)
      /\ line' = Append(line, IF op = "update" THEN line[x.of] ELSE k)
      /\ kept' = IF op = "update" THEN kept ELSE kept \cup {k}
      /\ UNCHANGED <<places, imapLock, keepsSent, imapBegun, outside, spent>>
  BY <1>1 DEF AppendMessage, AtStep, IsPut
<1> QED
  BY <1>1, <1>2, <1>3, <1>5, <1>6 DEF Appends

\* The form of the state after a message is written.
LEMMA AppendForm ==
  ASSUME ImapForm, NEW c \in ImapCall, NEW op, NEW x, NEW f, NEW k, NEW r, NEW q, Appends(c, op, x, f, k, r, q)
  PROVE  /\ IsRow(x) /\ f \in Folder /\ (op = "update" => x.of \in 1..Len(line)) /\ (op = "sendNew" => f # "drafts")
         /\ op \in {"create", "update", "sendNew"} /\ IsCall(calls[c])
         /\ k = Len(line) + 1 /\ Len(line) \in Nat /\ Len(line') = k /\ line'[k] \in 1..k
         /\ \A i \in 1..Len(line) : line'[i] = line[i]
         /\ line'[k] = IF op = "update" THEN line[x.of] ELSE k
         /\ r.path = f /\ r.uid = box[f].next /\ r.of = k /\ r.draft = NewDraft(op, x, k) /\ IsRow(r)'
         /\ q.op = op /\ q.row = x /\ q.put = r
         /\ ImapForm' /\ calls'[c] = q
<1>1. calls[c].todo # <<>> /\ Head(calls[c].todo) = "append" /\ op = calls[c].op /\ x = calls[c].row /\ f = calls[c].to
  BY DEF Appends
<1>2. /\ k = Len(line) + 1 /\ r = NewRow(op, x, f, k) /\ q = [calls[c] EXCEPT !.put = r, !.todo = Tail(@)]
      /\ IsPut(box', f, k) /\ line' = Append(line, IF op = "update" THEN line[x.of] ELSE k)
      /\ calls' = [calls EXCEPT ![c] = q] /\ UNCHANGED <<places, imapLock, keepsSent, imapBegun, outside>>
  BY DEF Appends
<1>3. /\ IsCall(calls[c]) /\ StageOf(op, calls[c].todo) /\ Follows(op, calls[c].todo, After(calls[c].todo))
  BY <1>1, StepOf
<1>4. op \in {"create", "update", "sendNew"}
  BY <1>1, <1>3, WhoseStep
<1>5. PICK t : t = Tail(calls[c].todo)
  OBVIOUS
<1>6. t # <<>> /\ StageOf(op, t) /\ ~OwnsLock(calls[c].todo) /\ (op = "update" => Head(t) # "append")
  BY <1>1, <1>3, <1>5 DEF Follows
<1>7. IsRow(x) /\ f \in Folder /\ (op = "update" => x.of # 0) /\ (op = "sendNew" => f # "drafts")
  BY <1>1, <1>3, <1>4 DEF IsCall
<1>8. Len(line) \in Nat /\ line \in Seq(Nat) /\ \A j \in 1..Len(line) : line[j] \in 1..Len(line)
  BY DEF ImapForm, LineForm
<1>9. op = "update" => x.of \in 1..Len(line)
  BY <1>7, <1>8 DEF IsRow
<1>10. PICK n : n = IF op = "update" THEN line[x.of] ELSE k
  OBVIOUS
<1>11. n \in 1..k /\ n \in Nat /\ k \in Nat \ {0}
  BY <1>2, <1>8, <1>9, <1>10
<1>12. line' = Append(line, n) /\ Len(line') = k /\ line'[k] = n /\ \A i \in 1..Len(line) : line'[i] = line[i]
  BY <1>2, <1>8, <1>10, <1>11
<1>13. LineForm'
  <2>1. line' \in Seq(Nat)
    BY <1>8, <1>11, <1>12
  <2>2. ASSUME NEW j \in 1..Len(line') PROVE line'[j] \in 1..Len(line')
    BY <1>2, <1>8, <1>11, <1>12
  <2> QED
    BY <2>1, <2>2 DEF LineForm
<1>29. k = Len(line) + 1 /\ Len(line) <= k /\ Len(line) <= Len(line') /\ k \in Nat
  BY <1>2, <1>8, <1>12
<1>30. r = NewRow(op, x, f, k)
  BY <1>2
<1>31. calls' = [calls EXCEPT ![c] = q] /\ imapLock' = imapLock /\ UNCHANGED keepsSent
  BY <1>2
<1>14. PICK i : r = [id |-> i, path |-> f, validity |-> box[f].validity, uid |-> box[f].next,
                     draft |-> NewDraft(op, x, k), of |-> k]
  BY <1>7, <1>30, NewRowIs
<1>15. r.path = f /\ r.uid = box[f].next /\ r.of = k /\ r.draft = NewDraft(op, x, k)
  BY <1>14
<1>16. IsRow(r)'
  <2>1. Len(NewDraft(op, x, k)) <= 2
    BY <1>7, EmptyDraft DEF NewDraft, IsRow
  <2>2. box[f].next \in Nat
    BY <1>7, WhereTheyLie
  <2>3. r = [id |-> r.id, path |-> r.path, validity |-> r.validity, uid |-> r.uid, draft |-> r.draft, of |-> r.of]
    BY <1>14
  <2> QED
    BY <1>7, <1>11, <1>12, <1>15, <2>1, <2>2, <2>3 DEF IsRow
<1>17. PICK p : p = calls[c]
  OBVIOUS
<1>18. p = [op |-> p.op, todo |-> p.todo, row |-> p.row, put |-> p.put, to |-> p.to, copy |-> p.copy, known |-> p.known]
  BY <1>3, <1>17 DEF IsCall
<1>19. q = [[p EXCEPT !.put = r] EXCEPT !.todo = t]
  BY <1>2, <1>5, <1>17
<1>20. q = [op |-> op, todo |-> t, row |-> x, put |-> r, to |-> f, copy |-> p.copy, known |-> p.known]
  BY <1>1, <1>17, <1>18, <1>19
<1>21. IsCall(q)'
  <2>1. IsRow(x)'
    <3>1. LineForm
      BY DEF ImapForm
    <3> QED
      BY <1>2, <1>7, <1>8, <1>12, <1>13, <3>1, RowKept
  <2>2. q = [op |-> q.op, todo |-> q.todo, row |-> q.row, put |-> q.put, to |-> q.to, copy |-> q.copy, known |-> q.known]
    BY <1>20
  <2>3. q.op = op /\ q.todo = t /\ q.row = x /\ q.put = r /\ q.to = f /\ q.known = p.known
    BY <1>20
  <2>4. StageOf(op, t)'
    BY <1>2, <1>6 DEF StageOf
  <2>5. op = "sendNew" => p.known = {}
    BY <1>1, <1>3, <1>17 DEF IsCall
  <2> QED
    BY <1>4, <1>6, <1>7, <1>11, <1>15, <1>16, <2>1, <2>2, <2>3, <2>4, <2>5 DEF IsCall
<1>22. q.op = op /\ q.row = x /\ q.put = r /\ q.todo = t
  BY <1>20
<1>24. imapLock # c
  BY <1>6 DEF ImapForm, CallsForm
<1>25. CallsForm' /\ calls'[c] = q
  BY <1>13, <1>21, <1>24, <1>29, <1>31, CallsKept
<1>26. CountForm'
  BY <1>2 DEF ImapForm, CountForm
<1>27. AreBoxes(box', outside', Len(line'))
  <2>1. outside \in Nat /\ AreBoxes(box, outside, Len(line))
    BY ImapAssumption DEF ImapForm, CountForm, BoxForm
  <2>2. AreBoxes(box, outside, k)
    BY <1>8, <1>29, <2>1, BoxesKept
  <2>3. PICK a : a = box'
    OBVIOUS
  <2>4. AreBoxes(a, outside, k)
    BY <1>2, <1>7, <1>11, <2>1, <2>2, <2>3, PutInto
  <2> QED
    BY <1>2, <1>12, <2>3, <2>4
<1>28. ImapForm'
  BY <1>2, <1>8, <1>12, <1>13, <1>25, <1>26, <1>27, FormAfter
<1> QED
  BY <1>2, <1>3, <1>4, <1>7, <1>8, <1>9, <1>10, <1>11, <1>12, <1>15, <1>16, <1>22, <1>25, <1>28

\* A message that is written is the newest version of a draft or of itself.
LEMMA AppendKeeps ==
  ASSUME ImapForm, NEW c \in ImapCall, NEW op, NEW x, NEW f, NEW k, NEW r, NEW q, Appends(c, op, x, f, k, r, q)
  PROVE  /\ \A g \in Folder : box'[g].validity = box[g].validity
         /\ box'[f].next = box[f].next + 1
         /\ \A g \in Folder : \A v, j : Lies(g, v, j)' <=> Lies(g, v, j) \/ (g = f /\ v = box[f].next /\ j = k)
         /\ BoxSteady /\ (MailHolds => InOnePlace' /\ (\A l \in kept : NewestIsThere(l))')
<1>1. /\ f \in Folder /\ k = Len(line) + 1 /\ Len(line) \in Nat /\ Len(line') = k /\ k \in Nat
      /\ \A i \in 1..Len(line) : line'[i] = line[i]
      /\ line'[k] = IF op = "update" THEN line[x.of] ELSE k
      /\ op = "update" => x.of \in 1..Len(line)
  BY AppendForm
<1>2. IsPut(box', f, k) /\ kept' = IF op = "update" THEN kept ELSE kept \cup {k}
  BY DEF Appends
<1>3. outside \in Nat /\ AreBoxes(box, outside, Len(line)) /\ \A j \in 1..Len(line) : line[j] \in 1..Len(line)
  BY ImapAssumption DEF ImapForm, CountForm, BoxForm, LineForm
<1>4. Len(line) <= k /\ k \in 1..k
  BY <1>1
<1>5. AreBoxes(box, outside, k)
  BY <1>1, <1>3, <1>4, BoxesKept
<1>6. PICK a : a = box'
  OBVIOUS
<1>7. IsPut(a, f, k)
  BY <1>2, <1>6
<1>8. /\ \A g \in Folder : a[g].validity = box[g].validity /\ a[g].next \in {box[g].next, box[g].next + 1}
      /\ a[f].next = box[f].next + 1
      /\ \A g \in Folder : \A v, j : Lie(a, g, v, j) <=> Lie(box, g, v, j) \/ (g = f /\ v = box[f].next /\ j = k)
  BY <1>1, <1>3, <1>4, <1>5, <1>7, PutInto
<1>9. \A g \in Folder : \A v, j : Lies(g, v, j)' <=> Lies(g, v, j) \/ (g = f /\ v = box[f].next /\ j = k)
  BY <1>6, <1>8 DEF Lies
<1>10. \A g \in Folder : \A v : ~Lies(g, v, k)
  BY <1>1, WhereTheyLie
<1>11. ASSUME MailHolds PROVE InOnePlace'
  BY <1>9, <1>10, <1>11 DEF InOnePlace, MailHolds
<1>12. BoxSteady
  BY <1>1, <1>6, <1>8, <1>9, WhereTheyLie DEF BoxSteady
<1>13. ASSUME MailHolds, NEW l \in kept' PROVE NewestIsThere(l)'
  <2>1. CASE line'[k] = l
    <3>1. PICK w : w = box[f].next
      OBVIOUS
    <3>2. f \in Folder
      BY <1>1
    <3>3. Lies(f, w, k)'
      BY <1>9, <3>1, <3>2
    <3>4. k \in 1..Len(line') /\ \A j \in 1..Len(line') : j <= k
      BY <1>1, <1>4
    <3> QED
      BY <2>1, <3>2, <3>3, <3>4 DEF NewestIsThere
  <2>2. CASE line'[k] # l
    <3>1. l \in kept
      BY <1>1, <1>2, <1>13, <2>2
    <3>2. PICK m \in 1..Len(line) : /\ line[m] = l /\ \A j \in 1..Len(line) : line[j] = l => j <= m
                                    /\ \E g \in Folder : \E v : Lies(g, v, m)
      BY <1>13, <3>1 DEF MailHolds, NewestIsThere
    <3>3. PICK g \in Folder : \E v : Lies(g, v, m)
      BY <3>2
    <3>4. PICK v : Lies(g, v, m)
      BY <3>3
    <3>5. Lies(g, v, m)'
      BY <1>9, <3>4
    <3>6. m \in 1..Len(line') /\ line'[m] = l
      BY <1>1, <3>2
    <3>7. \A j \in 1..Len(line') : line'[j] = l => j <= m
      BY <1>1, <2>2, <3>2
    <3> QED
      BY <3>5, <3>6, <3>7 DEF NewestIsThere
  <2> QED
    BY <2>1, <2>2
<1> QED
  BY <1>6, <1>8, <1>9, <1>11, <1>12, <1>13

\* The new row is named, and the new version stands for the old one.
LEMMA AppendMessageStep ==
  ASSUME ImapForm, NEW c \in ImapCall, AppendMessage(c) PROVE ImapForm' /\ (MailHolds => MailHolds')
<1>1. PICK op, x, f, k, r, q : Appends(c, op, x, f, k, r, q)
  BY AppendsIs
<1>2. /\ f \in Folder /\ k = Len(line) + 1 /\ Len(line) \in Nat /\ Len(line') = k /\ k \in Nat
      /\ \A i \in 1..Len(line) : line'[i] = line[i]
      /\ line'[k] = IF op = "update" THEN line[x.of] ELSE k
      /\ op = "update" => x.of \in 1..Len(line)
      /\ op \in {"create", "update", "sendNew"}
  BY <1>1, AppendForm
<1>3. r.path = f /\ r.uid = box[f].next /\ r.of = k /\ q.op = op /\ q.row = x /\ q.put = r /\ calls'[c] = q /\ ImapForm'
  BY <1>1, AppendForm
<1>4. /\ x = calls[c].row /\ calls' = [calls EXCEPT ![c] = q] /\ UNCHANGED <<places, spent, keepsSent>>
      /\ kept' = IF op = "update" THEN kept ELSE kept \cup {k}
  BY <1>1 DEF Appends
<1> SUFFICES ASSUME MailHolds PROVE MailHolds'
  BY <1>3
<1>5. /\ box'[f].next = box[f].next + 1
      /\ \A g \in Folder : \A v, j : Lies(g, v, j)' <=> Lies(g, v, j) \/ (g = f /\ v = box[f].next /\ j = k)
      /\ BoxSteady /\ InOnePlace' /\ (\A l \in kept : NewestIsThere(l))'
  BY <1>1, AppendKeeps
<1>6. PICK w : w = box[f].next
  OBVIOUS
<1>7. /\ w \in Nat /\ \A j : ~Lies(f, w, j)
      /\ \A g \in Folder : \A v : ~Lies(g, v, k)
  BY <1>2, <1>6, WhereTheyLie
<1>8. \A g \in Folder : \A v, j : Lies(g, v, j)' <=> Lies(g, v, j) \/ (g = f /\ v = w /\ j = k)
  BY <1>5, <1>6
<1>9. /\ r.path = f /\ r.uid = w /\ r.of = k /\ box'[f].next = w + 1
  BY <1>3, <1>5, <1>6
<1>10. Named(r)'
  <2>1. r.uid < box'[r.path].next
    BY <1>7, <1>9
  <2>2. \A j : Lies(f, w, j)' => j = k
    BY <1>2, <1>7, <1>8
  <2>3. \A v : Lies("drafts", v, k)' => f = "drafts" /\ w = v
    BY <1>7, <1>8 DEF Folder
  <2> QED
    BY <1>9, <2>1, <2>2, <2>3 DEF Named
<1>11. ASSUME NEW m, Settled(m), Lies(f, w, m)' PROVE FALSE
  <2>1. m = k
    BY <1>2, <1>7, <1>8, <1>11
  <2>2. m \in 1..Len(line)
    BY <1>11 DEF Settled
  <2> QED
    BY <1>2, <2>1, <2>2
<1>12. Rows' \subseteq Rows \cup {r}
  <2>1. calls' = [d \in ImapCall |-> IF d = c THEN q ELSE calls[d]]
    BY <1>4 DEF ImapForm, CallsForm
  <2>2. \A d \in ImapCall : calls'[d].row = calls[d].row /\ calls'[d].put \in {calls[d].put, r}
    BY <1>3, <1>4, <2>1
  <2> QED
    BY <1>4, <2>2 DEF Rows
<1>13. RowSteady(r)
  BY <1>9, <1>10, <1>11, <1>12 DEF RowSteady
<1>14. RestSteady
  BY <1>2, <1>4 DEF RestSteady
<1>15. CallHolds(q)'
  <2>1. op = "update" => x.of < k /\ k \in 1..Len(line') /\ line'[k] = line'[x.of]
    BY <1>2
  <2> QED
    BY <1>2, <1>3, <2>1 DEF CallHolds
<1>16. \A d \in ImapCall : calls'[d] = calls[d] \/ CallHolds(calls[d])'
  <2>1. TAKE d \in ImapCall
  <2>2. CASE d = c
    BY <1>3, <1>15, <2>2
  <2>3. CASE d # c
    BY <1>4, <2>3 DEF ImapForm, CallsForm
  <2> QED
    BY <2>2, <2>3
<1>17. \A m \in spent' : m \in spent \/ Settled(m)
  BY <1>4
<1> QED
  BY <1>3, <1>5, <1>13, <1>14, <1>16, <1>17, StepHolds

-----------------------------------------------------------------------------
(* Calls that begin.                                                       *)

\* A call begins with a row of the store or none.
LEMMA BeginStep ==
  ASSUME ImapForm, NEW c \in ImapCall, NEW op, NEW todo, NEW row, NEW put, NEW to, Begins(c, op, todo, row, put, to),
         StageOf(op, todo), ~NeedsPut(op, todo), to \in Folder, kept' \subseteq kept,
         row \in places \cup {NoPlace},
         put \in places \cup {NoPlace} \/ (IsRow(put) /\ Named(put) /\ put.draft = <<>>),
         op \in {"update", "delete", "send", "modify"} => row \in places,
         op \in {"send", "sendNew", "modify"} => to # "drafts",
         op = "update" => Head(todo) = "append",
         op = "delete" \/ (op = "send" /\ ~keepsSent) => line[row.of] \notin kept',
         op = "send" => row.draft # <<>> /\ ~PastRead(todo) /\ ~PastMove(todo) /\ Head(todo) # "deliver"
  PROVE  ImapForm' /\ (MailHolds => MailHolds')
<1>1. row \in Rows /\ (put \in Rows \/ (Named(put) /\ put.draft = <<>>))
  BY DEF Rows
<1>2. IsRow(row) /\ IsRow(put)
  <2>1. \A r \in places \cup {NoPlace} : IsRow(r)
    BY RowsAreRows DEF Rows
  <2> QED
    BY <2>1
<1>3. op \in {"update", "delete", "send", "modify"} => row.of # 0
  BY DEF ImapForm, PlacesForm
<1>4. ImapForm'
  BY <1>2, <1>3, BeginsForm
<1> QED
  BY <1>1, <1>4, BeginsHolds

LEMMA BeginListStep == ASSUME ImapForm, NEW c \in ImapCall, BeginList(c) PROVE ImapForm' /\ (MailHolds => MailHolds')
<1>1. PICK f \in Folder : Begins(c, "list", ListMessages, NoPlace, [NoPlace EXCEPT !.path = f], f) /\ UNCHANGED kept
  BY DEF BeginList
<1>2. PICK put : put = [NoPlace EXCEPT !.path = f]
  OBVIOUS
<1>3. IsRow(put) /\ Named(put)
  BY <1>2, NoPlaceIsRow, NoPlaceIsNamed DEF ImapForm
<1>4. put.draft = <<>>
  BY <1>2 DEF NoPlace
<1>5. PICK todo : todo = ListMessages
  OBVIOUS
<1>6. Begins(c, "list", todo, NoPlace, put, f)
  BY <1>1, <1>2, <1>5
<1>7. StageOf("list", todo) /\ ~NeedsPut("list", todo)
  BY <1>5 DEF ListMessages, StageOf, ListStages, NeedsPut
<1> QED
  BY <1>1, <1>3, <1>4, <1>6, <1>7, BeginStep

LEMMA BeginGetStep == ASSUME ImapForm, NEW c \in ImapCall, BeginGet(c) PROVE ImapForm' /\ (MailHolds => MailHolds')
<1>1. PICK x \in places : Begins(c, "get", FetchLocation, x, x, x.path) /\ UNCHANGED kept
  BY DEF BeginGet
<1>2. x.path \in Folder
  BY DEF ImapForm, PlacesForm, IsRow
<1>3. PICK todo, f : todo = FetchLocation /\ f = x.path
  OBVIOUS
<1>4. StageOf("get", todo) /\ ~NeedsPut("get", todo)
  BY <1>3 DEF FetchLocation, StageOf, GetStages, NeedsPut
<1>5. Begins(c, "get", todo, x, x, f) /\ f \in Folder
  BY <1>1, <1>2, <1>3
<1> QED
  BY <1>1, <1>4, <1>5, BeginStep

LEMMA BeginCreateDraftStep ==
  ASSUME ImapForm, NEW c \in ImapCall, BeginCreateDraft(c) PROVE ImapForm' /\ (MailHolds => MailHolds')
<1>1. PICK todo : todo = AppendDraft
  OBVIOUS
<1>2. StageOf("create", todo) /\ ~NeedsPut("create", todo)
  BY <1>1, AppendDraftIs DEF StageOf, CreateStages, NeedsPut
<1>3. Begins(c, "create", todo, NoPlace, NoPlace, "drafts") /\ UNCHANGED kept /\ "drafts" \in Folder
  BY <1>1 DEF BeginCreateDraft, Folder
<1> QED
  BY <1>2, <1>3, BeginStep

LEMMA BeginUpdateDraftStep ==
  ASSUME ImapForm, NEW c \in ImapCall, BeginUpdateDraft(c) PROVE ImapForm' /\ (MailHolds => MailHolds')
<1>1. PICK todo : todo = UpdateDraft
  OBVIOUS
<1>2. StageOf("update", todo) /\ ~NeedsPut("update", todo) /\ Head(todo) = "append"
  BY <1>1, UpdateDraftIs DEF StageOf, UpdateStages, NeedsPut
<1>3. PICK x \in places : Begins(c, "update", todo, x, NoPlace, "drafts") /\ UNCHANGED kept
  BY <1>1 DEF BeginUpdateDraft
<1>4. "drafts" \in Folder
  BY DEF Folder
<1> QED
  BY <1>2, <1>3, <1>4, BeginStep

LEMMA BeginDeletesStep ==
  ASSUME ImapForm, NEW c \in ImapCall, BeginDeleteDraft(c) \/ BeginModifyDelete(c)
  PROVE  ImapForm' /\ (MailHolds => MailHolds')
<1>1. PICK todo, x : /\ todo \in {DeleteDraft, ModifyDelete} /\ x \in places
                     /\ Begins(c, "delete", todo, x, NoPlace, x.path) /\ Asks(x, TRUE)
  BY DEF BeginDeleteDraft, BeginModifyDelete
<1>2. StageOf("delete", todo) /\ ~NeedsPut("delete", todo)
  BY <1>1 DEF StageOf, DeleteStages, NeedsPut, DeleteDraft, ModifyDelete
<1>3. PICK f : f = x.path
  OBVIOUS
<1>4. f \in Folder
  BY <1>1, <1>3 DEF ImapForm, PlacesForm, IsRow
<1>5. Begins(c, "delete", todo, x, NoPlace, f) /\ kept' \subseteq kept /\ line[x.of] \notin kept'
  BY <1>1, <1>3 DEF Asks
<1> QED
  BY <1>1, <1>2, <1>4, <1>5, BeginStep

LEMMA BeginSendDraftStep ==
  ASSUME ImapForm, NEW c \in ImapCall, BeginSendDraft(c) PROVE ImapForm' /\ (MailHolds => MailHolds')
<1>1. PICK todo : todo = SendDraft
  OBVIOUS
<1>2. /\ StageOf("send", todo) /\ ~NeedsPut("send", todo)
      /\ ~PastRead(todo) /\ ~PastMove(todo) /\ Head(todo) # "deliver"
  <2>1. CASE keepsSent
    <3>1. todo = <<"openRow", "read", "release", "deliver", "openRow", "move", "release", "openPut", "mark", "release", "save">>
      BY <1>1, <2>1, SendKeptIs
    <3>2. Head(todo) = "openRow" /\ Len(todo) = 11 /\ todo[2] = "read"
      BY <3>1
    <3>3. todo \in SendKeepsStages
      BY <3>1 DEF SendKeepsStages
    <3>4. StageOf("send", todo)
      BY <2>1, <3>3 DEF StageOf
    <3> QED
      BY <3>2, <3>4 DEF NeedsPut, PastRead, PastMove
  <2>2. CASE ~keepsSent
    <3>1. todo = <<"openRow", "read", "release", "deliver", "openRow", "delete", "release", "drop">>
      BY <1>1, <2>2, SendDroppedIs
    <3>2. Head(todo) = "openRow" /\ Len(todo) = 8 /\ todo[2] = "read"
      BY <3>1
    <3>3. todo \in SendDropsStages
      BY <3>1 DEF SendDropsStages
    <3>4. StageOf("send", todo)
      BY <2>2, <3>3 DEF StageOf
    <3> QED
      BY <3>2, <3>4 DEF NeedsPut, PastRead, PastMove
  <2> QED
    BY <2>1, <2>2
<1>3. PICK x \in places : x.draft # <<>> /\ Begins(c, "send", todo, x, NoPlace, "sent") /\ Asks(x, ~keepsSent)
  BY <1>1 DEF BeginSendDraft
<1>4. kept' \subseteq kept /\ (~keepsSent => line[x.of] \notin kept')
  BY <1>3 DEF Asks
<1>5. "sent" \in Folder
  BY DEF Folder
<1> QED
  BY <1>2, <1>3, <1>4, <1>5, BeginStep

LEMMA BeginSendStep == ASSUME ImapForm, NEW c \in ImapCall, BeginSend(c) PROVE ImapForm' /\ (MailHolds => MailHolds')
<1>1. PICK todo : todo = SendNew
  OBVIOUS
<1>2. StageOf("sendNew", todo) /\ ~NeedsPut("sendNew", todo)
  <2>1. CASE keepsSent
    BY <1>1, <2>1, SendNewKeptIs DEF StageOf, SendNewStages, NeedsPut
  <2>2. CASE ~keepsSent
    BY <1>1, <2>2, SendNewDroppedIs DEF StageOf, SendNewStages, NeedsPut
  <2> QED
    BY <2>1, <2>2
<1>3. Begins(c, "sendNew", todo, NoPlace, NoPlace, "sent") /\ UNCHANGED kept /\ "sent" \in Folder
  BY <1>1 DEF BeginSend, Folder
<1> QED
  BY <1>2, <1>3, BeginStep

LEMMA BeginModifyMoveStep ==
  ASSUME ImapForm, NEW c \in ImapCall, BeginModifyMove(c) PROVE ImapForm' /\ (MailHolds => MailHolds')
<1>1. PICK x \in places : \E f \in Destinations(x) : Begins(c, "modify", ModifyMove, x, NoPlace, f) /\ UNCHANGED kept
  BY DEF BeginModifyMove
<1>2. PICK f \in Destinations(x) : Begins(c, "modify", ModifyMove, x, NoPlace, f) /\ UNCHANGED kept
  BY <1>1
<1>3. f \in Folder /\ f # "drafts"
  BY DEF Destinations, Folder
<1>4. PICK todo : todo = ModifyMove
  OBVIOUS
<1>5. StageOf("modify", todo) /\ ~NeedsPut("modify", todo)
  BY <1>4 DEF StageOf, ModifyStages, NeedsPut, ModifyMove
<1>6. Begins(c, "modify", todo, x, NoPlace, f)
  BY <1>2, <1>4
<1> QED
  BY <1>1, <1>2, <1>3, <1>5, <1>6, BeginStep

-----------------------------------------------------------------------------
(* The theorem.                                                            *)

\* Only Renumber gives a folder another UIDVALIDITY.
LEMMA RemovedNumbers ==
  ASSUME ImapForm, NEW f \in Folder, NEW u, Removed(box', box, f, u), SameNumbers'
  PROVE  SameNumbers
<1>1. outside \in Nat /\ Len(line) \in Nat /\ AreBoxes(box, outside, Len(line))
  BY ImapAssumption DEF ImapForm, CountForm, LineForm, BoxForm
<1>2. PICK a : a = box'
  OBVIOUS
<1>3. Removed(a, box, f, u)
  BY <1>2
<1>4. \A g \in Folder : a[g].validity = box[g].validity
  BY <1>1, <1>3, RemovedFrom
<1> QED
  BY <1>2, <1>4 DEF SameNumbers

LEMMA OtherClientNumbers == ASSUME ImapForm, OtherClientDeletes, SameNumbers' PROVE SameNumbers
<1>1. PICK f \in Folder : \E u \in DOMAIN box[f].held : Removed(box', box, f, u)
  BY DEF OtherClientDeletes, Removed
<1>2. PICK u \in DOMAIN box[f].held : Removed(box', box, f, u)
  BY <1>1
<1> QED
  BY <1>2, RemovedNumbers

LEMMA NumbersStay ==
  ASSUME ImapForm, NEW c \in ImapCall, AppendMessage(c) \/ Delete(c) \/ Move(c), SameNumbers'
  PROVE  SameNumbers
<1>3. CASE AppendMessage(c)
  <2>1. PICK op, x, f, k, r, q : Appends(c, op, x, f, k, r, q)
    BY <1>3, AppendsIs
  <2> QED
    BY <2>1, AppendKeeps DEF SameNumbers
<1>4. CASE Delete(c)
  <2>1. calls[c].row.path \in Folder
    BY DEF ImapForm, CallsForm, IsCall, IsRow
  <2>2. PICK f, u : f = calls[c].row.path /\ u = calls[c].row.uid
    OBVIOUS
  <2>3. f \in Folder /\ Removed(box', box, f, u)
    BY <1>4, <2>1, <2>2 DEF Delete, Removed
  <2> QED
    BY <2>3, RemovedNumbers
<1>6. CASE Move(c)
  <2>1. PICK x, f : x = calls[c].row /\ f = calls[c].to
    OBVIOUS
  <2>2. x.path \in Folder /\ f \in Folder
    BY <2>1 DEF ImapForm, CallsForm, IsCall, IsRow
  <2>3. CASE ~Has(x.path, x.uid)
    BY <1>6, <2>1, <2>3 DEF Move, SameNumbers
  <2>4. CASE Has(x.path, x.uid)
    <3>1. PICK p, u, k, b : p = x.path /\ u = x.uid /\ k = box[p].held[u] /\ b = Put(f, k)
      OBVIOUS
    <3>2. IsPut(b, f, k) /\ Removed(box', b, p, u) /\ p \in Folder /\ u \in DOMAIN box[p].held
      BY <1>6, <2>1, <2>2, <2>4, <3>1 DEF IsPut, Removed, Has, Move
    <3>3. \A g \in Folder : box'[g].validity = box[g].validity
      BY <2>2, <3>1, <3>2, MovedTo
    <3> QED
      BY <3>3 DEF SameNumbers
  <2> QED
    BY <2>3, <2>4
<1> QED
  BY <1>3, <1>4, <1>6

\* Every step of a call keeps both parts, and no folder gets its first UIDVALIDITY back.
LEMMA CallStep ==
  ASSUME ImapForm, NEW c \in ImapCall,
         \/ BeginList(c) \/ BeginGet(c) \/ BeginCreateDraft(c) \/ BeginUpdateDraft(c) \/ BeginDeleteDraft(c)
         \/ BeginSendDraft(c) \/ BeginSend(c) \/ BeginModifyDelete(c) \/ BeginModifyMove(c)
         \/ OpenMailbox(c) \/ Scan(c) \/ Fetch(c) \/ Save(c) \/ AppendMessage(c) \/ Delete(c) \/ Drop(c)
         \/ Read(c) \/ Deliver(c) \/ Move(c) \/ Mark(c) \/ Fails(c)
  PROVE  ImapForm' /\ (MailHolds => MailHolds') /\ (SameNumbers' => SameNumbers)
<1>1. CASE \/ BeginList(c) \/ BeginGet(c) \/ BeginCreateDraft(c) \/ BeginUpdateDraft(c) \/ BeginDeleteDraft(c)
           \/ BeginSendDraft(c) \/ BeginSend(c) \/ BeginModifyDelete(c) \/ BeginModifyMove(c)
  <2>1. UNCHANGED box
    BY <1>1 DEF BeginList, BeginGet, BeginCreateDraft, BeginUpdateDraft, BeginDeleteDraft, BeginSendDraft, BeginSend,
                BeginModifyDelete, BeginModifyMove, Begins
  <2>2. SameNumbers' => SameNumbers
    BY <2>1 DEF SameNumbers
  <2> QED
    BY <1>1, <2>2, BeginListStep, BeginGetStep, BeginCreateDraftStep, BeginUpdateDraftStep, BeginDeletesStep,
       BeginSendDraftStep, BeginSendStep, BeginModifyMoveStep
<1>2. CASE OpenMailbox(c) \/ Scan(c) \/ Fetch(c) \/ Save(c) \/ Drop(c) \/ Read(c) \/ Deliver(c) \/ Mark(c) \/ Fails(c)
  <2>1. UNCHANGED box
    BY <1>2 DEF OpenMailbox, Scan, Fetch, Save, Drop, Read, Deliver, Mark, Fails
  <2>2. SameNumbers' => SameNumbers
    BY <2>1 DEF SameNumbers
  <2> QED
    BY <1>2, <2>2, OpenMailboxStep, ScanStep, FetchStep, SaveStep, DropStep, ReadStep, DeliverStep, MarkStep, FailsStep
<1>3. CASE AppendMessage(c) \/ Delete(c) \/ Move(c)
  <2>1. SameNumbers' => SameNumbers
    BY <1>3, NumbersStay
  <2> QED
    BY <1>3, <2>1, AppendMessageStep, DeleteStep, MoveStep
<1> QED
  BY <1>1, <1>2, <1>3

\* The first state.
LEMMA ImapStarts == ImapInit => ImapIInv
<1> SUFFICES ASSUME ImapInit PROVE ImapForm /\ MailHolds
  BY DEF ImapIInv
<1>1. line = <<1, 2>> /\ Len(line) = 2 /\ line[1] = 1 /\ line[2] = 2
  BY DEF ImapInit
<1>2. /\ places = {} /\ spent = {} /\ kept = {1, 2} /\ calls = [c \in ImapCall |-> Over] /\ imapLock = NoImapCall
      /\ keepsSent \in BOOLEAN /\ imapBegun = 0 /\ outside = 0
  BY DEF ImapInit
<1>3. PICK b : b = box["inbox"]
  OBVIOUS
<1>4. PICK d : d = box["drafts"]
  OBVIOUS
<1>5. b = [validity |-> 1, next |-> 2, held |-> <<1>>] /\ d = [validity |-> 1, next |-> 2, held |-> <<2>>]
  BY <1>3, <1>4 DEF ImapInit, Folder
<1>6. /\ box["sent"] = [validity |-> 1, next |-> 1, held |-> <<>>]
      /\ box["trash"] = [validity |-> 1, next |-> 1, held |-> <<>>]
      /\ box = [f \in Folder |-> box[f]]
  BY DEF ImapInit, Folder
<1>7. \A f \in Folder : IsBox(box[f], outside, Len(line))
  <2>1. IsBox(b, 0, 2) /\ IsBox(d, 0, 2)
    BY <1>5 DEF IsBox
  <2>2. IsBox(box["sent"], 0, 2) /\ IsBox(box["trash"], 0, 2)
    BY <1>6 DEF IsBox
  <2> QED
    BY <1>1, <1>2, <1>3, <1>4, <2>1, <2>2 DEF Folder
<1>8. LineForm
  BY <1>1 DEF LineForm
<1>9. IsCall(Over) /\ Over.todo = <<>>
  BY <1>8, OverIsCall DEF Over
<1>10. CallsForm
  BY <1>2, <1>9, ImapAssumption DEF CallsForm
<1>11. ImapForm
  BY <1>2, <1>6, <1>7, <1>8, <1>10, ImapAssumption DEF ImapForm, BoxForm, AreBoxes, PlacesForm, CountForm
<1>12. \A f \in Folder : \A u, k : Lies(f, u, k) <=> u = 1 /\ ((f = "inbox" /\ k = 1) \/ (f = "drafts" /\ k = 2))
  <2>1. DOMAIN b.held = {1} /\ b.held[1] = 1 /\ DOMAIN d.held = {1} /\ d.held[1] = 2
    BY <1>5
  <2>2. DOMAIN box["sent"].held = {} /\ DOMAIN box["trash"].held = {}
    BY <1>6
  <2>3. \A u, k : Lies("inbox", u, k) <=> u = 1 /\ k = 1
    BY <1>3, <2>1 DEF Lies, Lie
  <2>4. \A u, k : Lies("drafts", u, k) <=> u = 1 /\ k = 2
    BY <1>4, <2>1 DEF Lies, Lie
  <2>5. \A u, k : ~Lies("sent", u, k) /\ ~Lies("trash", u, k)
    BY <2>2 DEF Lies, Lie
  <2> QED
    BY <2>3, <2>4, <2>5 DEF Folder
<1>13. \A r \in Rows : r = NoPlace
  BY <1>2 DEF Rows, Over
<1>14. \A r \in Rows : Named(r)
  BY <1>11, <1>13, NoPlaceIsNamed
<1>15. InOnePlace
  BY <1>12 DEF InOnePlace
<1>16. \A l \in kept : NewestIsThere(l)
  <2>1. NewestIsThere(1)
    BY <1>1, <1>12 DEF NewestIsThere, Folder
  <2>2. NewestIsThere(2)
    BY <1>1, <1>12 DEF NewestIsThere, Folder
  <2> QED
    BY <1>2, <2>1, <2>2
<1>17. \A c \in ImapCall : CallHolds(calls[c])
  BY <1>2, OverHolds
<1>18. \A m \in spent : Settled(m)
  BY <1>2
<1> QED
  BY <1>11, <1>14, <1>15, <1>16, <1>17, <1>18 DEF MailHolds

\* Every step keeps the invariant.
LEMMA ImapInductive == ASSUME ImapIInv, [ImapNext]_imapVars PROVE ImapIInv'
<1>1. CASE \E c \in ImapCall :
             \/ BeginList(c) \/ BeginGet(c) \/ BeginCreateDraft(c) \/ BeginUpdateDraft(c) \/ BeginDeleteDraft(c)
             \/ BeginSendDraft(c) \/ BeginSend(c) \/ BeginModifyDelete(c) \/ BeginModifyMove(c)
             \/ OpenMailbox(c) \/ Scan(c) \/ Fetch(c) \/ Save(c) \/ AppendMessage(c) \/ Delete(c) \/ Drop(c)
             \/ Read(c) \/ Deliver(c) \/ Move(c) \/ Mark(c) \/ Fails(c)
  BY <1>1, CallStep DEF ImapIInv
<1>2. CASE OtherClientDeletes
  BY <1>2, OtherClientDeletesStep, OtherClientNumbers DEF ImapIInv
<1>3. CASE Renumber
  BY <1>3, RenumberForm DEF ImapIInv
<1>4. CASE UNCHANGED imapVars
  <2>1. UNCHANGED <<box, line, places, calls, imapLock, keepsSent, imapBegun, outside, kept, spent>>
    BY <1>4 DEF imapVars
  <2>2. ImapForm'
    <3>1. \A r : IsRow(r) => IsRow(r)'
      BY <2>1 DEF IsRow
    <3>2. \A op, todo : StageOf(op, todo) => StageOf(op, todo)'
      BY <2>1 DEF StageOf
    <3>3. \A q : IsCall(q) => IsCall(q)'
      BY <3>1, <3>2 DEF IsCall
    <3>4. BoxForm' /\ LineForm' /\ CountForm'
      BY <2>1 DEF ImapIInv, ImapForm, BoxForm, LineForm, CountForm
    <3>5. PlacesForm' /\ CallsForm'
      BY <2>1, <3>1, <3>3 DEF ImapIInv, ImapForm, PlacesForm, CallsForm
    <3> QED
      BY <3>4, <3>5 DEF ImapForm
  <2>3. MailHolds => MailHolds'
    <3>1. \A f, u, k : Lies(f, u, k)' <=> Lies(f, u, k)
      BY <2>1 DEF Lies, Lie
    <3>2. Rows' = Rows
      BY <2>1 DEF Rows
    <3>3. \A m : Settled(m) => Settled(m)'
      BY <2>1, <3>1, <3>2 DEF Settled
    <3>4. \A r : Named(r) => Named(r)'
      BY <2>1, <3>1 DEF Named
    <3>5. InOnePlace => InOnePlace'
      BY <3>1 DEF InOnePlace
    <3>6. \A l : NewestIsThere(l) => NewestIsThere(l)'
      BY <2>1, <3>1 DEF NewestIsThere
    <3>7. \A q : CallHolds(q) => CallHolds(q)'
      BY <2>1, <3>3 DEF CallHolds, PastRead, PastMove
    <3> QED
      BY <2>1, <3>2, <3>3, <3>4, <3>5, <3>6, <3>7 DEF MailHolds
  <2>4. SameNumbers' => SameNumbers
    BY <2>1 DEF SameNumbers
  <2> QED
    BY <2>2, <2>3, <2>4 DEF ImapIInv
<1> QED
  BY <1>1, <1>2, <1>3, <1>4 DEF ImapNext

\* What the invariant says of the mailbox is what the run checks.
LEMMA ImapShows == ASSUME ImapIInv PROVE MailIsKeptOnce
<1>1. ImapForm /\ line \in Seq(Nat) /\ Len(line) \in Nat /\ DOMAIN line = 1..Len(line)
  BY DEF ImapIInv, ImapForm, LineForm
<1>2. outside \in 0..MaxOutside /\ MaxOutside \in Nat
  BY <1>1, ImapAssumption DEF ImapForm, CountForm
<1>3. ImapTypeOK
  <2>1. \A f \in Folder : /\ box[f].validity \in 1..(MaxOutside + 1) /\ DOMAIN box[f].held \subseteq 1..(box[f].next - 1)
                          /\ \A u \in DOMAIN box[f].held : box[f].held[u] \in DOMAIN line
    <3>1. TAKE f \in Folder
    <3>2. PICK b : b = box[f]
      OBVIOUS
    <3>3. IsBox(b, outside, Len(line))
      BY <1>1, <3>2 DEF ImapForm, BoxForm, AreBoxes
    <3>4. b.validity \in 1..(outside + 1) /\ DOMAIN b.held \subseteq 1..(b.next - 1) /\ \A u \in DOMAIN b.held : b.held[u] \in 1..Len(line)
      BY <3>3 DEF IsBox
    <3>5. b.validity \in 1..(MaxOutside + 1)
      BY <1>2, <3>4
    <3> QED
      BY <1>1, <3>2, <3>4, <3>5
  <2>2. \A x \in places : x.path \in Folder /\ x.of \in DOMAIN line /\ Len(x.draft) <= 2
    BY <1>1 DEF ImapForm, PlacesForm, IsRow
  <2>3. \A c \in ImapCall : calls[c].todo = <<>> => calls[c] = Over
    BY <1>1 DEF ImapForm, CallsForm, IsCall
  <2>4. imapLock \in ImapCall => calls[imapLock].todo # <<>>
    BY <1>1 DEF ImapForm, CallsForm
  <2>5. imapBegun \in 0..MaxImapCalls /\ outside \in 0..MaxOutside /\ keepsSent \in BOOLEAN
    BY <1>1 DEF ImapForm, CountForm
  <2> QED
    BY <2>1, <2>2, <2>3, <2>4, <2>5 DEF ImapTypeOK
<1>4. NothingLost
  <2> SUFFICES ASSUME SameNumbers, NEW l \in kept
               PROVE  \E f \in Folder : \E u \in DOMAIN box[f].held : line[box[f].held[u]] = l
    BY DEF NothingLost
  <2>1. NewestIsThere(l)
    BY DEF ImapIInv, MailHolds
  <2> QED
    BY <2>1 DEF NewestIsThere, Lies, Lie
<1>5. NotDeliveredAgain
  <2> SUFFICES ASSUME SameNumbers, NEW c \in ImapCall, AtStep(c, "deliver"), calls[c].copy \in calls[c].known
               PROVE  ~keepsSent /\ calls[c].row.path # "drafts"
    BY DEF NotDeliveredAgain
  <2>1. PICK q : q = calls[c]
    OBVIOUS
  <2>2. q.todo # <<>> /\ Head(q.todo) = "deliver" /\ q.copy \in q.known
    BY <2>1 DEF AtStep
  <2>3. IsCall(q) /\ CallHolds(q)
    BY <1>1, <2>1 DEF ImapForm, CallsForm, ImapIInv, MailHolds
  <2>4. q.op = "send"
    BY <2>2, <2>3, WhoseStep DEF IsCall
  <2> QED
    BY <2>1, <2>2, <2>3, <2>4 DEF CallHolds
<1>6. RowsNameTheirMessage
  <2> SUFFICES ASSUME SameNumbers, NEW x \in places, Has(x.path, x.uid) PROVE box[x.path].held[x.uid] = x.of
    BY DEF RowsNameTheirMessage
  <2>1. Named(x)
    BY DEF ImapIInv, MailHolds, Rows
  <2> QED
    BY <2>1 DEF Named, Lies, Lie, Has
<1> QED
  BY <1>3, <1>4, <1>5, <1>6 DEF MailIsKeptOnce

\* However calls, failures and other clients interleave, no message is lost that nobody asked
\* to delete, none goes out again that was sent, and no row names another message.
THEOREM MailStaysOnce == ImapSpec => []MailIsKeptOnce
<1>1. ImapIInv /\ [ImapNext]_imapVars => ImapIInv'
  BY ImapInductive
<1> QED
  BY ImapStarts, <1>1, ImapShows, PTL DEF ImapSpec
=============================================================================
