--------------------------- MODULE RestIdempotency ---------------------------
(***************************************************************************)
(* Idempotency keys of the REST API (restIdempotency.ts, runJson of        *)
(* rest.ts): clients repeat a request that sends mail until they have an   *)
(* answer, several servers on one store take the repetitions, and a record *)
(* per key keeps them from calling the mail provider twice.  Each SQL      *)
(* statement is a step of its own.                                         *)
(***************************************************************************)
EXTENDS Naturals

CONSTANTS
  Call,     \* requests, each repeated by its client until it is answered
  IdKey,    \* a principal with an Idempotency-Key
  KeyOf,    \* the key that a call uses
  BodyOf,   \* operation and request of a call, of which the record keeps the hash
  Ttl,      \* REST_IDEMPOTENCY_TTL_MS, in ticks
  Faults,   \* what may go wrong: see FaultKind
  Null

FaultKind == {"crash", \* a server dies while it handles a call
              "busy"}  \* a statement finds the store locked

ASSUME RestIdempotencyAssumption ==
  /\ KeyOf \in [Call -> IdKey]
  /\ Ttl \in Nat \ {0}
  /\ Faults \subseteq FaultKind

VARIABLES
  row,       \* table rest_idempotency: the record of each key
  pc,
  result,    \* per call: the response to give
  answer,    \* per call: what the client has been answered, Null before
  period,    \* history, per key: the rest of the time that it stands for one request,
  called,    \* how often the provider was called since that began
  given      \* and the responses that clients were given

vars == <<row, pc, result, answer, period, called, given>>

Body == {BodyOf[c] : c \in Call}
Response == [kind : {"ok", "error", "conflict"}, body : Body]
Row == [state : {"none", "in_progress", "completed"},
        hash : Body \cup {Null}, response : Response \cup {Null}, left : 0..Ttl]
NoRow == [state |-> "none", hash |-> Null, response |-> Null, left |-> 0]

Location == {"off", "later", "purge", "insert", "select", "execute", "complete", "fail", "reply"}

Init ==
  /\ row = [k \in IdKey |-> NoRow]
  /\ pc = [c \in Call |-> "off"]
  /\ result = [c \in Call |-> Null]
  /\ answer = [c \in Call |-> Null]
  /\ period = [k \in IdKey |-> 0]
  /\ called = [k \in IdKey |-> 0]
  /\ given = [k \in IdKey |-> {}]

history == <<period, called, given>>

Goto(c, l) == pc' = [pc EXCEPT ![c] = l]
Answers(c, response) ==
  /\ answer' = [answer EXCEPT ![c] = response]
  /\ Goto(c, "off")
ResponseTo(c, kind) == [kind |-> kind, body |-> BodyOf[c]]
Returns(c, kind) == result' = [result EXCEPT ![c] = ResponseTo(c, kind)]
RowOf(c) == row[KeyOf[c]]
Gives(c, response) ==
  /\ Answers(c, response)
  /\ given' = [given EXCEPT ![KeyOf[c]] = @ \cup {response}]

-----------------------------------------------------------------------------
(* reserveIdempotencyKey. *)

Begin(c) ==
  /\ pc[c] \in {"off", "later"} /\ answer[c] = Null
  /\ Goto(c, "purge")
  /\ UNCHANGED <<row, result, answer, history>>

\* Mutant: what is in progress is kept.
PurgeCompleted(c) ==
  /\ pc[c] = "purge"
  /\ row' = [k \in IdKey |-> IF row[k].left = 0 /\ row[k].state # "in_progress" THEN NoRow ELSE row[k]]
  /\ Goto(c, "insert")
  /\ UNCHANGED <<result, answer, history>>

\* Every expired record goes, of whatever key.
Purge(c) ==
  /\ pc[c] = "purge"
  /\ row' = [k \in IdKey |-> IF row[k].left = 0 THEN NoRow ELSE row[k]]
  /\ Goto(c, "insert")
  /\ UNCHANGED <<result, answer, history>>

Reserved(c) == [state |-> "in_progress", hash |-> BodyOf[c], response |-> Null, left |-> Ttl]

\* INSERT ... ON CONFLICT DO NOTHING
Insert(c) ==
  /\ pc[c] = "insert"
  /\ \/ /\ RowOf(c).state # "none"
        /\ Goto(c, "select")
        /\ UNCHANGED <<row, history>>
     \/ /\ RowOf(c).state = "none"
        /\ row' = [row EXCEPT ![KeyOf[c]] = Reserved(c)]
        /\ IF period[KeyOf[c]] = 0
             THEN /\ period' = [period EXCEPT ![KeyOf[c]] = Ttl]
                  /\ called' = [called EXCEPT ![KeyOf[c]] = 0]
                  /\ given' = [given EXCEPT ![KeyOf[c]] = {}]
             ELSE UNCHANGED history
        /\ Goto(c, "execute")
  /\ UNCHANGED <<result, answer>>

\* Mutant: the request of the record is not compared.
ReplayAny(c) ==
  /\ pc[c] = "select" /\ RowOf(c).state = "completed"
  /\ Gives(c, RowOf(c).response)
  /\ UNCHANGED <<row, result, period, called>>

\* The response of the record is given again.
Replay(c) ==
  /\ pc[c] = "select" /\ RowOf(c).state = "completed" /\ RowOf(c).hash = BodyOf[c]
  /\ Gives(c, RowOf(c).response)
  /\ UNCHANGED <<row, result, period, called>>

Conflict(c) ==
  /\ pc[c] = "select" /\ RowOf(c).state # "none" /\ RowOf(c).hash # BodyOf[c]
  /\ Answers(c, ResponseTo(c, "conflict"))
  /\ UNCHANGED <<row, result, history>>

\* Mutant: a record in progress is taken over.
TakeOver(c) ==
  /\ pc[c] = "select"
  /\ RowOf(c).state = "in_progress" /\ RowOf(c).hash = BodyOf[c]
  /\ Goto(c, "execute")
  /\ UNCHANGED <<row, result, answer, history>>

\* The request is to be repeated later.  The record that was in the way of the insertion
\* may be gone by now.
InProgress(c) ==
  /\ pc[c] = "select"
  /\ \/ RowOf(c).state = "none"
     \/ RowOf(c).state = "in_progress" /\ RowOf(c).hash = BodyOf[c]
  /\ Goto(c, "later")
  /\ UNCHANGED <<row, result, answer, history>>

-----------------------------------------------------------------------------
(* runJson with a reservation. *)

\* No quota is left, so that the provider is not called.
Refuse(c) ==
  /\ pc[c] = "execute"
  /\ Returns(c, "error") /\ Goto(c, "fail")
  /\ UNCHANGED <<row, answer, history>>

\* The provider delivers, or throws: it may have delivered all the same.
Execute(c) ==
  /\ pc[c] = "execute"
  /\ called' = [called EXCEPT ![KeyOf[c]] = @ + 1]
  /\ \/ Returns(c, "ok") /\ Goto(c, "complete")
     \/ Returns(c, "error") /\ Goto(c, "fail")
  /\ UNCHANGED <<row, answer, period, given>>

\* completeIdempotencyKey updates the record of this request if it is in progress.
Completed(c) ==
  IF RowOf(c).state = "in_progress" /\ RowOf(c).hash = BodyOf[c]
    THEN [row EXCEPT ![KeyOf[c]] = [@ EXCEPT !.state = "completed", !.response = result[c]]]
    ELSE row

Complete(c) ==
  /\ pc[c] \in {"complete", "fail"}
  /\ row' = Completed(c)
  /\ Goto(c, "reply")
  /\ UNCHANGED <<result, answer, history>>

\* The response reaches the client.
Reply(c) ==
  /\ pc[c] = "reply"
  /\ Gives(c, result[c])
  /\ UNCHANGED <<row, result, period, called>>

-----------------------------------------------------------------------------
(* Failures and time. *)

\* A 500 without a reservation, which the client repeats.
BusyReserving(c) ==
  /\ "busy" \in Faults /\ pc[c] \in {"purge", "insert", "select"}
  /\ Goto(c, "off")
  /\ UNCHANGED <<row, result, answer, history>>

\* Mutant: the record of the failure is written, but success is answered.
BusyUnnoticed(c) ==
  /\ "busy" \in Faults /\ pc[c] = "complete"
  /\ row' = [row EXCEPT ![KeyOf[c]] = [@ EXCEPT !.state = "completed",
                                                !.response = ResponseTo(c, "error")]]
  /\ Goto(c, "reply")
  /\ UNCHANGED <<result, answer, history>>

\* What has been delivered cannot be recorded as such: it is a failure then,
BusyCompleting(c) ==
  /\ "busy" \in Faults /\ pc[c] = "complete"
  /\ Returns(c, "error") /\ Goto(c, "fail")
  /\ UNCHANGED <<row, answer, history>>

\* and if that cannot be recorded either, the record stays in progress.
BusyFailing(c) ==
  /\ "busy" \in Faults /\ pc[c] = "fail"
  /\ Returns(c, "error") /\ Goto(c, "reply")
  /\ UNCHANGED <<row, answer, history>>

Busy(c) == BusyReserving(c) \/ BusyCompleting(c) \/ BusyFailing(c)

\* A server dies; its client gets no answer and repeats the request.
Crash(c) ==
  /\ "crash" \in Faults /\ pc[c] \notin {"off", "later"}
  /\ Goto(c, "off")
  /\ UNCHANGED <<row, result, answer, history>>

Sooner(left) == IF left = 0 THEN 0 ELSE left - 1

\* No call takes as long as its record is kept.
Tick ==
  /\ \A c \in Call : pc[c] \in {"execute", "complete", "fail", "reply"} => RowOf(c).left # 1
  /\ \E k \in IdKey : row[k].left > 0 \/ period[k] > 0
  /\ row' = [k \in IdKey |-> [row[k] EXCEPT !.left = Sooner(@)]]
  /\ period' = [k \in IdKey |-> Sooner(period[k])]
  /\ UNCHANGED <<pc, result, answer, called, given>>

-----------------------------------------------------------------------------
Serve(c) == \/ Begin(c) \/ Purge(c) \/ Insert(c)
            \/ Replay(c) \/ Conflict(c) \/ InProgress(c)
            \/ Refuse(c) \/ Execute(c) \/ Complete(c) \/ Reply(c)

Next == \/ \E c \in Call : Serve(c) \/ Busy(c) \/ Crash(c)
        \/ Tick

Spec == Init /\ [][Next]_vars

\* A client repeats its request until it is answered, servers get on with it and
\* time passes.
Fairness == (\A c \in Call : WF_vars(Serve(c))) /\ WF_vars(Tick)
FairSpec == Spec /\ Fairness

-----------------------------------------------------------------------------
(* Properties. *)

TypeOK ==
  /\ row \in [IdKey -> Row]
  /\ pc \in [Call -> Location]
  /\ result \in [Call -> Response \cup {Null}]
  /\ answer \in [Call -> Response \cup {Null}]
  /\ period \in [IdKey -> 0..Ttl]
  /\ called \in [IdKey -> Nat]
  /\ given \in [IdKey -> SUBSET Response]

\* "This prevents a client retry from repeating the provider call during that
\* period": one call at most, whatever dies meanwhile and however often it is tried.
CalledOnce == \A k \in IdKey : called[k] <= 1

\* Whoever repeats a request during that period is told the same, also when what the
\* provider did could not be recorded at once.
OneAnswer == \A k \in IdKey : \A r, s \in given[k] : r = s

\* Nobody gets the answer to another request made with the same key.
AnswersOwnRequest ==
  \A c \in Call : answer[c] # Null => answer[c].body = BodyOf[c]

\* Who keeps repeating a request is answered in the end, also when a server died
\* that had reserved its key: at last nobody has to come again.
AllAnswered ==
  <>[][\A c \in Call : ~Busy(c) /\ ~Crash(c)]_vars => <>[](\A c \in Call : pc[c] = "off")
=============================================================================
