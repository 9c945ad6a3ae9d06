---------------------------- MODULE ImapMailbox ----------------------------
(* The IMAP provider of one account: the folders of the server, the rows by which     *)
(* Fluxmail remembers where a message is (imap_messages), and the calls of            *)
(* provider-imap/src/imapProvider.ts that run at the same time in one process.        *)
(* A call is the list of its steps, one for each await that another call can precede; *)
(* "open" takes the lock of the connection and "release" gives it back.               *)
(* A message is a number.  Its text, its headers, its flags and its thread are left   *)
(* out, and modify is given one message at a time.                                    *)
(* The server tells the UID of what it wrote: the search by Message-ID that           *)
(* appendedLocation falls back on when it does not is left out.  It may end a send    *)
(* or a save as if the UID had been told, where the model stops with a warning.       *)
EXTENDS Integers, FiniteSets, Sequences

CONSTANTS
  ImapCall,       \* calls that can be under way at once
  MaxImapCalls,   \* bound on the calls that begin
  MaxOutside,     \* bound on what happens to the mailbox without Fluxmail
  NoImapCall      \* nobody has the lock

ASSUME ImapAssumption == MaxImapCalls \in Nat /\ MaxOutside \in Nat /\ NoImapCall \notin ImapCall

Folder == {"inbox", "drafts", "sent", "trash"}

VARIABLES
  box,        \* the server: for each folder its UIDVALIDITY, its next UID and its messages by UID
  line,       \* for each message ever written: the first version of it
  places,     \* imap_messages; "of" is the message the row was first saved for
  calls,      \* for each call: what is left of it
  imapLock,   \* the call that holds the mailbox lock of the connection
  keepsSent,  \* copies of what is sent are kept, and there is a folder for them
  imapBegun,  \* number of calls that have begun
  outside,    \* number of events outside
  kept,       \* messages that nobody has asked to delete, by their first version
  spent       \* messages of the drafts whose delivery was answered without a warning
imapVars == <<box, line, places, calls, imapLock, keepsSent, imapBegun, outside, kept, spent>>

NoPlace == [id |-> <<>>, path |-> "inbox", validity |-> 0, uid |-> 0, draft |-> <<>>, of |-> 0]
Over == [op |-> "none", todo |-> <<>>, row |-> NoPlace, put |-> NoPlace, to |-> "inbox", copy |-> 0, known |-> {}]

\* A message in the inbox and a draft that another client wrote.
ImapInit ==
  /\ box = [f \in Folder |->
       [validity |-> 1, next |-> IF f \in {"inbox", "drafts"} THEN 2 ELSE 1,
        held |-> IF f = "inbox" THEN <<1>> ELSE IF f = "drafts" THEN <<2>> ELSE <<>>]]
  /\ line = <<1, 2>> /\ kept = {1, 2}
  /\ places = {} /\ spent = {}
  /\ calls = [c \in ImapCall |-> Over]
  /\ imapLock = NoImapCall
  /\ keepsSent \in BOOLEAN
  /\ imapBegun = 0 /\ outside = 0

-----------------------------------------------------------------------------
\* A message at its place, with the draft id and the row id that it has or is given.
At(f, u) == {x \in places : x.path = f /\ x.validity = box[f].validity /\ x.uid = u}
DraftOf(f, u, known) ==
  IF known # <<>> THEN known
  ELSE IF \E x \in At(f, u) : x.draft # <<>> THEN (CHOOSE x \in At(f, u) : TRUE).draft
  ELSE IF f = "drafts" THEN <<box[f].validity, u>> ELSE <<>>
ToMessage(f, u, draft) ==
  [id |-> IF At(f, u) # {} THEN (CHOOSE x \in At(f, u) : TRUE).id ELSE <<f, box[f].validity, u>>,
   path |-> f, validity |-> box[f].validity, uid |-> u,
   draft |-> DraftOf(f, u, draft), of |-> box[f].held[u]]
Has(f, u) == u \in DOMAIN box[f].held
Conflicts(x) ==
  \E y \in places : /\ y.id # x.id
                  /\ \/ y.path = x.path /\ y.validity = x.validity /\ y.uid = x.uid
                     \/ x.draft # <<>> /\ y.draft = x.draft

\* The steps of each call.
ListMessages == <<"openPut", "scan", "save", "release">>
FetchLocation == <<"openPut", "fetch", "save", "release">>
AppendDraft == <<"append", "save">> \o FetchLocation
\* Mutant: the version that is replaced is deleted before the new one is written.
UpdateDeletesFirst == <<"openRow", "delete", "release">> \o AppendDraft
UpdateDraft == AppendDraft \o <<"openRow", "delete", "release">>
DeleteDraft == <<"openRow", "delete", "release", "drop">>
MoveDraftToSent == <<"openRow", "move", "release", "openPut", "mark", "release", "save">>
SendDraft == <<"openRow", "read", "release", "deliver">> \o (IF keepsSent THEN MoveDraftToSent ELSE DeleteDraft)
SendNew == <<"deliver">> \o (IF keepsSent THEN <<"append", "save">> ELSE <<>>)
ModifyDelete == <<"openRow", "delete", "drop", "release">>
ModifyMove == <<"openRow", "move", "save", "release">>

\* A call begins with the row that it is given the id of.
Begins(c, op, todo, row, put, to) ==
  /\ calls[c].todo = <<>> /\ imapBegun < MaxImapCalls
  /\ imapBegun' = imapBegun + 1
  /\ calls' = [calls EXCEPT ![c] = [op |-> op, todo |-> todo, row |-> row, put |-> put, to |-> to,
                                    copy |-> 0, known |-> IF op = "send" THEN spent ELSE {}]]
  /\ UNCHANGED <<box, line, places, imapLock, keepsSent, outside, spent>>
Asks(x, deletes) == kept' = IF deletes THEN kept \ {line[x.of]} ELSE kept

BeginList(c) == \E f \in Folder : Begins(c, "list", ListMessages, NoPlace, [NoPlace EXCEPT !.path = f], f) /\ UNCHANGED kept
BeginGet(c) == \E x \in places : Begins(c, "get", FetchLocation, x, x, x.path) /\ UNCHANGED kept
BeginCreateDraft(c) == Begins(c, "create", AppendDraft, NoPlace, NoPlace, "drafts") /\ UNCHANGED kept
BeginUpdateDraft(c) ==
  \E x \in places : x.draft # <<>> /\ Begins(c, "update", UpdateDraft, x, NoPlace, "drafts") /\ UNCHANGED kept
BeginDeleteDraft(c) ==
  \E x \in places : x.draft # <<>> /\ Begins(c, "delete", DeleteDraft, x, NoPlace, x.path) /\ Asks(x, TRUE)
BeginSendDraft(c) ==
  \E x \in places : x.draft # <<>> /\ Begins(c, "send", SendDraft, x, NoPlace, "sent") /\ Asks(x, ~keepsSent)
BeginSend(c) == Begins(c, "sendNew", SendNew, NoPlace, NoPlace, "sent") /\ UNCHANGED kept
BeginModifyDelete(c) ==
  \E x \in places : Begins(c, "delete", ModifyDelete, x, NoPlace, x.path) /\ Asks(x, TRUE)
\* trash, untrash (only from Trash), and a move that neither leaves nor enters Trash.
Destinations(x) ==
  IF x.path = "trash" THEN {"inbox"} ELSE {"trash", "inbox"} \ {x.path}
BeginModifyMove(c) ==
  \E x \in places : \E f \in Destinations(x) :
    Begins(c, "modify", ModifyMove, x, NoPlace, f) /\ UNCHANGED kept

-----------------------------------------------------------------------------
\* A step is over: a lock that is to be given back is given back with it.
AtStep(c, s) == calls[c].todo # <<>> /\ Head(calls[c].todo) = s
Locked(c) == imapLock = c
After(todo) == IF Len(todo) > 1 /\ todo[2] = "release" THEN Tail(Tail(todo)) ELSE Tail(todo)
Goes(c, call, todo, lock) ==
  /\ imapLock' = lock
  /\ calls' = [calls EXCEPT ![c] = IF todo = <<>> THEN Over ELSE [call EXCEPT !.todo = todo]]
  /\ spent' = IF todo = <<>> /\ call.op = "send" THEN spent \union {call.copy} ELSE spent
  /\ UNCHANGED <<keepsSent, imapBegun, outside, kept>>
Proceeds(c, call) ==
  LET todo == calls[c].todo
  IN Goes(c, call, After(todo), IF Len(todo) > 1 /\ todo[2] = "release" THEN NoImapCall ELSE imapLock)
Stops(c) ==
  /\ calls' = [calls EXCEPT ![c] = Over]
  /\ imapLock' = IF Locked(c) THEN NoImapCall ELSE imapLock
  /\ UNCHANGED <<keepsSent, imapBegun, outside, kept, spent>>

\* withMailbox: the rows of another UIDVALIDITY are removed.
OpenMailbox(c) ==
  /\ AtStep(c, "openPut") \/ AtStep(c, "openRow")
  /\ imapLock = NoImapCall
  /\ LET f == IF AtStep(c, "openPut") THEN calls[c].put.path ELSE calls[c].row.path
     IN places' = {x \in places : x.path = f => x.validity = box[f].validity}
  /\ Goes(c, calls[c], Tail(calls[c].todo), c)
  /\ UNCHANGED <<box, line>>
\* listMessages: one message of the folder, and the row to save for it.
Scan(c) ==
  /\ AtStep(c, "scan")
  /\ LET f == calls[c].put.path
     IN \/ \E u \in DOMAIN box[f].held : Proceeds(c, [calls[c] EXCEPT !.put = ToMessage(f, u, <<>>)])
        \/ box[f].held = <<>> /\ Stops(c)
  /\ UNCHANGED <<box, line, places>>
\* fetchLocation: the message must be where its row says, under the same UIDVALIDITY.
Fetch(c) ==
  /\ AtStep(c, "fetch")
  /\ LET x == calls[c].put
     IN IF x.validity = box[x.path].validity /\ Has(x.path, x.uid)
        THEN Proceeds(c, [calls[c] EXCEPT !.put = ToMessage(x.path, x.uid, x.draft)])
        ELSE Stops(c)
  /\ UNCHANGED <<box, line, places>>
\* SqliteImapStateStore.save: another row with this place or this draft id is an error.
Save(c) ==
  /\ AtStep(c, "save")
  /\ LET x == calls[c].put
     IN IF Conflicts(x) THEN Stops(c) /\ UNCHANGED places
        ELSE Proceeds(c, calls[c]) /\ places' = {y \in places : y.id # x.id} \union {x}
  /\ UNCHANGED <<box, line>>
\* Where a message goes in a folder: the next UID.
Put(f, k) ==
  [box EXCEPT ![f].next = @ + 1,
              ![f].held = [u \in DOMAIN @ \union {box[f].next} |-> IF u = box[f].next THEN k ELSE @[u]]]
NewPlace(x, f) == [x EXCEPT !.path = f, !.validity = box[f].validity, !.uid = box[f].next]
\* appendDraft and appendSent: the server writes the message and tells its UID.
AppendMessage(c) ==
  LET f == calls[c].to
      k == Len(line) + 1
      x == calls[c].row
      new == CASE calls[c].op = "update" -> [x EXCEPT !.of = k]
               [] calls[c].op = "create" -> [NoPlace EXCEPT !.of = k, !.draft = <<k>>]
               [] OTHER -> [NoPlace EXCEPT !.of = k]
      put == [NewPlace(new, f) EXCEPT !.id = IF @ = <<>> THEN <<f, box[f].validity, box[f].next>> ELSE @]
  IN /\ AtStep(c, "append")
     /\ box' = Put(f, k)
     /\ line' = Append(line, IF calls[c].op = "update" THEN line[x.of] ELSE k)
     /\ calls' = [calls EXCEPT ![c].put = put, ![c].todo = Tail(@)]
     /\ kept' = IF calls[c].op = "update" THEN kept ELSE kept \union {k}
     /\ UNCHANGED <<places, imapLock, keepsSent, imapBegun, outside, spent>>
\* messageDelete: by the UID that the call read; nothing is there, nothing is deleted.
Without(held, u) == [v \in DOMAIN held \ {u} |-> held[v]]
Delete(c) ==
  /\ AtStep(c, "delete")
  /\ box' = [box EXCEPT ![calls[c].row.path].held = Without(@, calls[c].row.uid)]
  /\ Proceeds(c, calls[c])
  /\ UNCHANGED <<line, places>>
Drop(c) ==
  /\ AtStep(c, "drop")
  /\ places' = {x \in places : x.id # calls[c].row.id}
  /\ Proceeds(c, calls[c])
  /\ UNCHANGED <<box, line>>
\* The source of a draft that is to be sent, whatever UIDVALIDITY its row has.
Read(c) ==
  LET x == calls[c].row
  IN /\ AtStep(c, "read")
     /\ IF Has(x.path, x.uid) THEN Proceeds(c, [calls[c] EXCEPT !.copy = box[x.path].held[x.uid]]) ELSE Stops(c)
     /\ UNCHANGED <<box, line, places>>
Deliver(c) == AtStep(c, "deliver") /\ Proceeds(c, calls[c]) /\ UNCHANGED <<box, line, places>>
\* messageMove, and the row at the new place: one that was sent is no draft any more.
Moved(x, f, sent) == [NewPlace(x, f) EXCEPT !.draft = IF sent THEN <<>> ELSE @]
Move(c) ==
  LET x == calls[c].row
      f == calls[c].to
      sent == calls[c].op = "send"
  IN /\ AtStep(c, "move")
     /\ IF Has(x.path, x.uid)
        THEN /\ box' = [Put(f, box[x.path].held[x.uid]) EXCEPT ![x.path].held = Without(@, x.uid)]
             /\ \/ Proceeds(c, [calls[c] EXCEPT !.put = Moved(x, f, sent)]) /\ UNCHANGED places
                \* A server that does not tell the new UID: modify forgets the message.
                \/ ~sent /\ Stops(c) /\ places' = {y \in places : y.id # x.id}
        ELSE \* Nothing was moved, so no new UID is told.
             /\ Stops(c) /\ UNCHANGED box
             /\ places' = IF sent THEN places ELSE {y \in places : y.id # x.id}
     /\ UNCHANGED line
\* moveDraftToSent: the flags are set where the message went.
Mark(c) ==
  /\ AtStep(c, "mark")
  /\ IF calls[c].put.validity = box[calls[c].put.path].validity THEN Proceeds(c, calls[c]) ELSE Stops(c)
  /\ UNCHANGED <<box, line, places>>
\* Any step may fail; after the delivery that is a warning, before it an error.
Fails(c) == calls[c].todo # <<>> /\ Stops(c) /\ UNCHANGED <<box, line, places>>

\* Another mail client deletes a message.
OtherClientDeletes ==
  /\ outside < MaxOutside /\ outside' = outside + 1
  /\ \E f \in Folder : \E u \in DOMAIN box[f].held :
       /\ box' = [box EXCEPT ![f].held = Without(@, u)]
       /\ kept' = kept \ {line[box[f].held[u]]}
  /\ UNCHANGED <<line, places, calls, imapLock, keepsSent, imapBegun, spent>>
\* The server builds a folder anew: another UIDVALIDITY, and the UIDs from 1.
Renumber ==
  /\ outside < MaxOutside /\ outside' = outside + 1
  /\ imapLock = NoImapCall
  /\ \E f \in Folder :
       LET held == {box[f].held[u] : u \in DOMAIN box[f].held}
       IN /\ held # {}
          /\ \E new \in [1..Cardinality(held) -> held] :
               /\ {new[u] : u \in DOMAIN new} = held
               /\ box' = [box EXCEPT ![f] = [validity |-> @.validity + 1, next |-> Cardinality(held) + 1, held |-> new]]
  /\ UNCHANGED <<line, places, calls, imapLock, keepsSent, imapBegun, kept, spent>>

ImapNext ==
  \/ \E c \in ImapCall :
       \/ BeginList(c) \/ BeginGet(c) \/ BeginCreateDraft(c) \/ BeginUpdateDraft(c) \/ BeginDeleteDraft(c)
       \/ BeginSendDraft(c) \/ BeginSend(c) \/ BeginModifyDelete(c) \/ BeginModifyMove(c)
       \/ OpenMailbox(c) \/ Scan(c) \/ Fetch(c) \/ Save(c) \/ AppendMessage(c) \/ Delete(c) \/ Drop(c)
       \/ Read(c) \/ Deliver(c) \/ Move(c) \/ Mark(c) \/ Fails(c)
  \/ OtherClientDeletes \/ Renumber
ImapSpec == ImapInit /\ [][ImapNext]_imapVars

-----------------------------------------------------------------------------
\* The state is well-formed, and only a call with steps left has the lock.
ImapTypeOK ==
  /\ \A f \in Folder : /\ box[f].validity \in 1..(MaxOutside + 1) /\ DOMAIN box[f].held \subseteq 1..(box[f].next - 1)
                       /\ \A u \in DOMAIN box[f].held : box[f].held[u] \in DOMAIN line
  /\ \A x \in places : x.path \in Folder /\ x.of \in DOMAIN line /\ Len(x.draft) <= 2
  /\ \A c \in ImapCall : calls[c].todo = <<>> => calls[c] = Over
  /\ imapLock \in ImapCall => calls[imapLock].todo # <<>>
  /\ imapBegun \in 0..MaxImapCalls /\ outside \in 0..MaxOutside /\ keepsSent \in BOOLEAN

\* No folder has been built anew.
SameNumbers == \A f \in Folder : box[f].validity = 1
\* While UIDs keep their meaning, no call loses a message that it was not asked to
\* delete: whatever fails or comes between, a version of every draft is in a folder
\* while it is replaced, sent or moved (updateDraft, moveDraftToSent, modify).
NothingLost ==
  SameNumbers => \A l \in kept : \E f \in Folder : \E u \in DOMAIN box[f].held : line[box[f].held[u]] = l
\* While UIDs keep their meaning, a message that was sent from a draft without a warning is
\* not delivered by a call that begins later: its draft id is gone and no row leads back to
\* it (send).  Where no copies are kept there is one exception.  The draft is deleted at the
\* place that send read, so one that is moved out of the drafts during the delivery is still
\* there, and a call that has read its row can save the row again.
NotDeliveredAgain ==
  SameNumbers => \A c \in ImapCall :
    AtStep(c, "deliver") /\ calls[c].copy \in calls[c].known => ~keepsSent /\ calls[c].row.path # "drafts"
\* While UIDs keep their meaning, a row leads to the message it was saved for, or to
\* nothing, however lists, moves and replaced drafts interleave (toMessage, modify).
RowsNameTheirMessage ==
  SameNumbers => \A x \in places : Has(x.path, x.uid) => box[x.path].held[x.uid] = x.of

\* Messages and their rows survive every failure and interleaving, and none goes out twice.
MailIsKeptOnce == ImapTypeOK /\ NothingLost /\ NotDeliveredAgain /\ RowsNameTheirMessage
=============================================================================
