----------------------------- MODULE Mail_proofs -----------------------------
(***************************************************************************)
(* What is proved of the service that handles mail for its callers.        *)
(* For any calls, keys, lifetimes and faults: while a key stands for one   *)
(* request the provider is called at most once for it, everyone who        *)
(* repeats the request is told the same, and nobody gets another request's *)
(* answer (RestIdempotency).                                               *)
(* For any servers, mailboxes, applications and order of refreshes,        *)
(* reconnections and restarts: what a server takes for current is what is  *)
(* stored, and the store never goes back to an older token (Credentials).  *)
(***************************************************************************)
EXTENDS RestIdempotency, Credentials, TLAPS

-----------------------------------------------------------------------------
(* RestIdempotency. *)

Executing(c) == pc[c] \in {"execute", "complete", "fail", "reply"}
SameKey(c, d) == KeyOf[c] = KeyOf[d]

\* A key stands for one request as long as its record is kept.
PeriodIsKept == \A k \in IdKey : period[k] = row[k].left /\ (row[k].state = "none" => row[k].left = 0)

\* Only one call executes what is recorded, for the request of the record,
OneExecutes == \A c \in Call : Executing(c) =>
  /\ RowOf(c).left > 0 /\ RowOf(c).hash = BodyOf[c]
  /\ \A d \in Call : Executing(d) /\ SameKey(c, d) => d = c

\* which is in progress until this call completes it.
CompletesItself == \A c \in Call : Executing(c) =>
  \/ RowOf(c).state = "in_progress"
  \/ pc[c] = "reply" /\ RowOf(c).state = "completed" /\ RowOf(c).response = result[c]

ResultsAreOwn == \A c \in Call : pc[c] \in {"complete", "fail", "reply"} =>
  result[c] \in Response /\ result[c].body = BodyOf[c]

\* Nothing is answered before, and only what is recorded after that.
NothingGivenYet == \A c \in Call :
  Executing(c) /\ RowOf(c).state = "in_progress" => given[KeyOf[c]] = {}

RecordIsGiven == \A k \in IdKey : row[k].state = "completed" =>
  /\ row[k].response \in Response /\ row[k].response.body = row[k].hash
  /\ given[k] \subseteq {row[k].response}

NotYetCalled == \A c \in Call : pc[c] = "execute" => called[KeyOf[c]] = 0

IInv == /\ TypeOK
        /\ PeriodIsKept /\ OneExecutes /\ CompletesItself /\ ResultsAreOwn
        /\ NothingGivenYet /\ RecordIsGiven /\ NotYetCalled
        /\ CalledOnce /\ OneAnswer /\ AnswersOwnRequest

USE RestIdempotencyAssumption DEF Location, Executing, SameKey

LEMMA InitIsSound == Init => IInv
BY DEF Init, IInv, TypeOK, PeriodIsKept, OneExecutes, CompletesItself, ResultsAreOwn,
       NothingGivenYet, RecordIsGiven, NotYetCalled, CalledOnce, OneAnswer,
       AnswersOwnRequest, NoRow, Row

\* A call that only moves, and not to where it executes, changes nothing of that.
LEMMA LeavingIsSound ==
  ASSUME IInv, NEW c \in Call, NEW l \in {"off", "later", "purge", "insert", "select"},
         Goto(c, l), UNCHANGED <<row, result, answer, history>>
  PROVE  IInv'
<1>1. pc' \in [Call -> Location] /\ \A d \in Call : Executing(d)' => pc'[d] = pc[d]
  BY DEF Goto, IInv, TypeOK
<1>2. TypeOK'  BY <1>1 DEF IInv, TypeOK, history
<1>3. PeriodIsKept' /\ RecordIsGiven' /\ CalledOnce' /\ OneAnswer' /\ AnswersOwnRequest'
  BY DEF IInv, PeriodIsKept, RecordIsGiven, CalledOnce, OneAnswer, AnswersOwnRequest, history
<1>4. OneExecutes'  BY <1>1 DEF IInv, OneExecutes, RowOf
<1>5. CompletesItself'  BY <1>1 DEF IInv, CompletesItself, RowOf
<1>6. ResultsAreOwn'  BY <1>1 DEF IInv, ResultsAreOwn
<1>7. NothingGivenYet'  BY <1>1 DEF IInv, NothingGivenYet, RowOf, history
<1>8. NotYetCalled'  BY <1>1 DEF IInv, NotYetCalled, history
<1> QED  BY <1>2, <1>3, <1>4, <1>5, <1>6, <1>7, <1>8 DEF IInv

\* What is purged belongs to no call that executes.
LEMMA PurgeIsSound == ASSUME IInv, NEW c \in Call, Purge(c) PROVE IInv'
<1>1. pc' \in [Call -> Location] /\ \A d \in Call : Executing(d)' => pc'[d] = pc[d]
  BY DEF Purge, Goto, IInv, TypeOK
<1>2. \A k \in IdKey : row'[k] = IF row[k].left = 0 THEN NoRow ELSE row[k]
  BY DEF Purge
<1>3. \A d \in Call : Executing(d)' => RowOf(d)' = RowOf(d)
  BY <1>1, <1>2 DEF IInv, OneExecutes, RowOf
<1>4. TypeOK'
  <2>1. NoRow \in Row  BY DEF NoRow, Row
  <2>2. row' \in [IdKey -> Row]  BY <2>1 DEF Purge, IInv, TypeOK
  <2> QED  BY <1>1, <2>2 DEF Purge, IInv, TypeOK, history
<1>5. PeriodIsKept'  BY <1>2 DEF Purge, IInv, PeriodIsKept, NoRow, history
<1>6. RecordIsGiven'  BY <1>2 DEF Purge, IInv, RecordIsGiven, NoRow, history
<1>7. CalledOnce' /\ OneAnswer' /\ AnswersOwnRequest'
  BY DEF Purge, IInv, CalledOnce, OneAnswer, AnswersOwnRequest, history
<1>8. OneExecutes'  BY <1>1, <1>3 DEF IInv, OneExecutes
<1>9. CompletesItself'  BY <1>1, <1>3 DEF Purge, IInv, CompletesItself
<1>10. ResultsAreOwn'  BY <1>1 DEF Purge, IInv, ResultsAreOwn
<1>11. NothingGivenYet'  BY <1>1, <1>3 DEF Purge, IInv, NothingGivenYet, history
<1>12. NotYetCalled'  BY <1>1 DEF Purge, IInv, NotYetCalled, history
<1> QED  BY <1>4, <1>5, <1>6, <1>7, <1>8, <1>9, <1>10, <1>11, <1>12 DEF IInv

\* Where there was no record nobody executes, and a new period begins.
LEMMA InsertIsSound == ASSUME IInv, NEW c \in Call, Insert(c) PROVE IInv'
<1>1. CASE RowOf(c).state # "none"
  BY <1>1, LeavingIsSound DEF Insert
<1>2. CASE RowOf(c).state = "none"
  <2> DEFINE k == KeyOf[c]
  <2>1. k \in IdKey /\ row[k].left = 0 /\ period[k] = 0
    BY <1>2 DEF IInv, PeriodIsKept, RowOf
  <2>2. \A d \in Call : Executing(d) => KeyOf[d] # k
    BY <2>1 DEF IInv, OneExecutes, RowOf, TypeOK, Row
  <2>3. /\ row' = [row EXCEPT ![k] = Reserved(c)]
        /\ period' = [period EXCEPT ![k] = Ttl]
        /\ called' = [called EXCEPT ![k] = 0]
        /\ given' = [given EXCEPT ![k] = {}]
        /\ pc' = [pc EXCEPT ![c] = "execute"]
        /\ UNCHANGED <<result, answer>>
    BY <1>2, <2>1 DEF Insert, Goto
  <2> HIDE DEF k
  <2>4. Reserved(c) \in Row  BY DEF Reserved, Row, Body
  <2>5. TypeOK'  BY <2>1, <2>3, <2>4 DEF IInv, TypeOK
  <2>6. row'[k] = Reserved(c) /\ period'[k] = Ttl /\ called'[k] = 0 /\ given'[k] = {}
    BY <2>1, <2>3 DEF IInv, TypeOK
  <2>7. \A i \in IdKey : i # k => /\ row'[i] = row[i] /\ period'[i] = period[i]
                                  /\ called'[i] = called[i] /\ given'[i] = given[i]
    BY <2>3 DEF IInv, TypeOK
  <2>8. /\ pc'[c] = "execute"
        /\ \A d \in Call : d # c => pc'[d] = pc[d]
    BY <2>3 DEF IInv, TypeOK
  <2>9. \A d \in Call : Executing(d)' /\ d # c => KeyOf[d] # k /\ KeyOf[d] \in IdKey
    BY <2>2, <2>8
  <2>10. PeriodIsKept'  BY <2>6, <2>7 DEF IInv, PeriodIsKept, Reserved
  <2>11. RecordIsGiven'  BY <2>6, <2>7 DEF IInv, RecordIsGiven, Reserved
  <2>12. CalledOnce'  BY <2>6, <2>7 DEF IInv, CalledOnce
  <2>13. OneAnswer'  BY <2>6, <2>7 DEF IInv, OneAnswer
  <2>14. AnswersOwnRequest'  BY <2>3 DEF IInv, AnswersOwnRequest
  <2>15. KeyOf[c] = k  BY DEF k
  <2>16. OneExecutes'
    BY <2>6, <2>7, <2>8, <2>9, <2>15 DEF IInv, OneExecutes, RowOf, Reserved
  <2>17. CompletesItself'
    BY <2>3, <2>6, <2>7, <2>8, <2>9, <2>15 DEF IInv, CompletesItself, RowOf, Reserved
  <2>18. ResultsAreOwn'  BY <2>3, <2>8 DEF IInv, ResultsAreOwn
  <2>19. NothingGivenYet'
    BY <2>6, <2>7, <2>8, <2>9, <2>15 DEF IInv, NothingGivenYet, RowOf
  <2>20. NotYetCalled'
    BY <2>6, <2>7, <2>8, <2>9, <2>15 DEF IInv, NotYetCalled
  <2> QED  BY <2>5, <2>10, <2>11, <2>12, <2>13, <2>14, <2>16, <2>17, <2>18, <2>19, <2>20 DEF IInv
<1> QED  BY <1>1, <1>2

-----------------------------------------------------------------------------
(* Answers. *)

\* An answer leaves records and executing calls alone, and is the one recorded where
\* there is one.
LEMMA AnsweringIsSound ==
  ASSUME IInv, NEW c \in Call, NEW r \in Response, r.body = BodyOf[c],
         Answers(c, r), UNCHANGED <<row, result, period, called>>,
         \/ UNCHANGED given
         \/ /\ given' = [given EXCEPT ![KeyOf[c]] = @ \cup {r}]
            /\ \/ RowOf(c).state = "completed" /\ RowOf(c).response = r
               \/ Executing(c) /\ RowOf(c).state = "in_progress"
  PROVE  IInv'
<1> DEFINE k == KeyOf[c]
<1>1. k \in IdKey /\ KeyOf[c] = k /\ RowOf(c) = row[k]  BY DEF RowOf
<1>2. /\ pc' = [pc EXCEPT ![c] = "off"] /\ answer' = [answer EXCEPT ![c] = r]
  BY DEF Answers, Goto
<1>3. \A d \in Call : Executing(d)' => d # c /\ pc'[d] = pc[d]
  BY <1>2 DEF IInv, TypeOK
<1>4. given' = given \/ given' = [given EXCEPT ![k] = @ \cup {r}]
  OBVIOUS
<1>5. given' # given => \/ row[k].state = "completed" /\ row[k].response = r
                        \/ Executing(c) /\ row[k].state = "in_progress"
  BY <1>1
<1> HIDE DEF k
<1>6. TypeOK'  BY <1>1, <1>2, <1>4 DEF IInv, TypeOK
<1>7. \A i \in IdKey : i # k => given'[i] = given[i]
  BY <1>4 DEF IInv, TypeOK
<1>8. given'[k] \subseteq given[k] \cup {r}
  BY <1>1, <1>4 DEF IInv, TypeOK
<1>9. row[k].state = "completed" => given'[k] \subseteq {row[k].response}
  BY <1>1, <1>5, <1>8 DEF IInv, RecordIsGiven
<1>10. OneAnswer'
  <2>1. given' = given \/ given[k] \subseteq {r}
    BY <1>1, <1>5 DEF IInv, RecordIsGiven, NothingGivenYet
  <2>2. \A x, y \in given'[k] : x = y
    BY <1>1, <1>8, <2>1 DEF IInv, OneAnswer
  <2> QED  BY <1>7, <2>2 DEF IInv, OneAnswer
<1>11. RecordIsGiven'  BY <1>7, <1>9 DEF IInv, RecordIsGiven
<1>12. NothingGivenYet'
  <2> SUFFICES ASSUME NEW d \in Call, Executing(d)', RowOf(d).state = "in_progress"
               PROVE  given'[KeyOf[d]] = {}
    BY DEF NothingGivenYet, RowOf
  <2>1. Executing(d) /\ d # c /\ given[KeyOf[d]] = {} /\ KeyOf[d] \in IdKey
    BY <1>3 DEF IInv, NothingGivenYet
  <2>2. KeyOf[d] = k => given' = given
    BY <1>1, <1>5, <2>1 DEF IInv, OneExecutes, RowOf
  <2> QED  BY <1>7, <2>1, <2>2
<1>13. PeriodIsKept' /\ CalledOnce'  BY DEF IInv, PeriodIsKept, CalledOnce
<1>14. AnswersOwnRequest'  BY <1>2 DEF IInv, TypeOK, AnswersOwnRequest
<1>15. OneExecutes'  BY <1>3 DEF IInv, OneExecutes, RowOf
<1>16. CompletesItself'  BY <1>3 DEF IInv, CompletesItself, RowOf
<1>17. ResultsAreOwn' /\ NotYetCalled'  BY <1>3 DEF IInv, ResultsAreOwn, NotYetCalled
<1> QED  BY <1>6, <1>10, <1>11, <1>12, <1>13, <1>14, <1>15, <1>16, <1>17 DEF IInv

LEMMA ReplayIsSound == ASSUME IInv, NEW c \in Call, Replay(c) PROVE IInv'
<1>1. RowOf(c).response \in Response /\ RowOf(c).response.body = BodyOf[c]
  BY DEF Replay, IInv, RecordIsGiven, RowOf
<1> QED  BY <1>1, AnsweringIsSound DEF Replay, Gives

LEMMA ConflictIsSound == ASSUME IInv, NEW c \in Call, Conflict(c) PROVE IInv'
<1>1. ResponseTo(c, "conflict") \in Response /\ ResponseTo(c, "conflict").body = BodyOf[c]
  BY DEF ResponseTo, Response, Body
<1> QED  BY <1>1, AnsweringIsSound DEF Conflict, history

LEMMA ReplyIsSound == ASSUME IInv, NEW c \in Call, Reply(c) PROVE IInv'
<1>1. result[c] \in Response /\ result[c].body = BodyOf[c]
  BY DEF Reply, IInv, ResultsAreOwn
<1>2. \/ RowOf(c).state = "completed" /\ RowOf(c).response = result[c]
      \/ Executing(c) /\ RowOf(c).state = "in_progress"
  BY DEF Reply, IInv, CompletesItself
<1> QED  BY <1>1, <1>2, AnsweringIsSound DEF Reply, Gives

-----------------------------------------------------------------------------
(* The call that has the key. *)

\* It gets on with a result of its own, and calls the provider once at most.
LEMMA ExecutingIsSound ==
  ASSUME IInv, NEW c \in Call, pc[c] \in {"execute", "complete", "fail"},
         NEW l \in {"complete", "fail", "reply"}, Goto(c, l),
         NEW kind \in {"ok", "error"}, Returns(c, kind),
         UNCHANGED <<row, answer, period, given>>,
         \/ UNCHANGED called
         \/ pc[c] = "execute" /\ called' = [called EXCEPT ![KeyOf[c]] = @ + 1]
  PROVE  IInv'
<1>1. /\ pc'[c] = l /\ \A d \in Call : d # c => pc'[d] = pc[d] /\ result'[d] = result[d]
      /\ result'[c] = ResponseTo(c, kind)
  BY DEF IInv, TypeOK, Goto, Returns
<1>2. ResponseTo(c, kind) \in Response /\ ResponseTo(c, kind).body = BodyOf[c]
  BY DEF ResponseTo, Response, Body
<1>3. \A d \in Call : Executing(d)' <=> Executing(d)
  BY <1>1
<1>4. RowOf(c).state = "in_progress"  BY DEF IInv, CompletesItself
<1>5. TypeOK'
  <2>1. called' \in [IdKey -> Nat]  BY DEF IInv, TypeOK
  <2> QED  BY <1>2, <2>1 DEF IInv, TypeOK, Goto, Returns
<1>6. PeriodIsKept' /\ RecordIsGiven' /\ OneAnswer' /\ AnswersOwnRequest'
  BY DEF IInv, PeriodIsKept, RecordIsGiven, OneAnswer, AnswersOwnRequest
<1>7. OneExecutes'  BY <1>3 DEF IInv, OneExecutes, RowOf
<1>8. CompletesItself'
  <2> SUFFICES ASSUME NEW d \in Call, Executing(d)'
               PROVE  \/ RowOf(d).state = "in_progress"
                      \/ pc'[d] = "reply" /\ RowOf(d).state = "completed"
                           /\ RowOf(d).response = result'[d]
    BY DEF CompletesItself, RowOf
  <2>1. CASE d = c  BY <2>1, <1>4
  <2>2. CASE d # c  BY <2>2, <1>1, <1>3 DEF IInv, CompletesItself
  <2> QED  BY <2>1, <2>2
<1>9. ResultsAreOwn'  BY <1>1, <1>2 DEF IInv, ResultsAreOwn
<1>10. NothingGivenYet'  BY <1>3 DEF IInv, NothingGivenYet, RowOf
<1>11. CalledOnce'
  <2>1. pc[c] = "execute" => called[KeyOf[c]] = 0  BY DEF IInv, NotYetCalled
  <2> QED  BY <2>1 DEF IInv, CalledOnce, TypeOK
<1>12. NotYetCalled'
  <2> SUFFICES ASSUME NEW d \in Call, pc'[d] = "execute"
               PROVE  called'[KeyOf[d]] = 0
    BY DEF NotYetCalled
  <2>1. d # c /\ pc[d] = "execute"  BY <1>1
  <2>2. KeyOf[d] # KeyOf[c]  BY <2>1 DEF IInv, OneExecutes
  <2>3. called[KeyOf[d]] = 0 /\ KeyOf[d] \in IdKey  BY <2>1 DEF IInv, NotYetCalled
  <2> QED  BY <2>2, <2>3 DEF IInv, TypeOK
<1> QED  BY <1>5, <1>6, <1>7, <1>8, <1>9, <1>10, <1>11, <1>12 DEF IInv

\* It records its result, where nothing has been answered.
LEMMA CompleteIsSound == ASSUME IInv, NEW c \in Call, Complete(c) PROVE IInv'
<1> DEFINE k == KeyOf[c]
           new == [row[k] EXCEPT !.state = "completed", !.response = result[c]]
<1>1. k \in IdKey /\ KeyOf[c] = k /\ Executing(c)  BY DEF Complete
<1>2. row[k].state = "in_progress" /\ row[k].hash = BodyOf[c] /\ given[k] = {}
  BY DEF Complete, IInv, CompletesItself, OneExecutes, NothingGivenYet, RowOf
<1>3. row' = [row EXCEPT ![k] = new]  BY <1>2 DEF Complete, Completed, RowOf
<1>4. row[k] \in Row /\ result[c] \in Response /\ result[c].body = BodyOf[c]
  BY <1>1 DEF Complete, IInv, TypeOK, ResultsAreOwn
<1>5. /\ new \in Row /\ new.state = "completed" /\ new.response = result[c]
      /\ new.hash = BodyOf[c] /\ new.left = row[k].left
  BY <1>2, <1>4 DEF Row
<1>6. pc'[c] = "reply" /\ \A d \in Call : d # c => pc'[d] = pc[d]
  BY DEF Complete, Goto, IInv, TypeOK
<1>7. UNCHANGED <<result, answer, period, called, given>>  BY DEF Complete, history
<1> HIDE DEF k, new
<1>8. row'[k] = new /\ \A i \in IdKey : i # k => row'[i] = row[i]
  BY <1>1, <1>3 DEF IInv, TypeOK
<1>9. \A d \in Call : d # c /\ Executing(d)' => Executing(d) /\ KeyOf[d] # k /\ RowOf(d)' = RowOf(d)
  BY <1>1, <1>6, <1>8 DEF IInv, OneExecutes, RowOf
<1>10. TypeOK'
  <2>1. pc' \in [Call -> Location]  BY DEF Complete, Goto, IInv, TypeOK
  <2>2. row' \in [IdKey -> Row]  BY <1>3, <1>5 DEF IInv, TypeOK
  <2> QED  BY <1>7, <2>1, <2>2 DEF IInv, TypeOK
<1>11. PeriodIsKept'  BY <1>5, <1>7, <1>8 DEF IInv, PeriodIsKept
<1>12. RecordIsGiven'  BY <1>2, <1>4, <1>5, <1>7, <1>8 DEF IInv, RecordIsGiven
<1>13. CalledOnce' /\ OneAnswer' /\ AnswersOwnRequest'
  BY <1>7 DEF IInv, CalledOnce, OneAnswer, AnswersOwnRequest
<1>14. OneExecutes'
  BY <1>1, <1>5, <1>6, <1>8, <1>9 DEF IInv, OneExecutes, RowOf
<1>15. CompletesItself'
  BY <1>1, <1>5, <1>6, <1>7, <1>8, <1>9 DEF IInv, CompletesItself, RowOf
<1>16. ResultsAreOwn'  BY <1>4, <1>6, <1>7 DEF IInv, ResultsAreOwn
<1>17. NothingGivenYet'
  BY <1>1, <1>5, <1>6, <1>7, <1>8, <1>9 DEF IInv, NothingGivenYet, RowOf
<1>18. NotYetCalled'  BY <1>6, <1>7 DEF IInv, NotYetCalled
<1> QED  BY <1>10, <1>11, <1>12, <1>13, <1>14, <1>15, <1>16, <1>17, <1>18 DEF IInv

-----------------------------------------------------------------------------
LEMMA SoonerIsTyped == Sooner(0) = 0 /\ \A n \in 0..Ttl : Sooner(n) \in 0..Ttl
BY DEF Sooner

\* Time leaves the record of a call that executes.
LEMMA TickIsSound == ASSUME IInv, Tick PROVE IInv'
<1>1. \A k \in IdKey : /\ row'[k] = [row[k] EXCEPT !.left = Sooner(@)]
                       /\ period'[k] = Sooner(period[k])
  BY DEF Tick
<1>2. \A k \in IdKey : row[k] \in Row /\ period[k] \in 0..Ttl  BY DEF IInv, TypeOK
<1>3. \A k \in IdKey : /\ row'[k] \in Row /\ row'[k].left = Sooner(row[k].left)
                       /\ row'[k].state = row[k].state /\ row'[k].hash = row[k].hash
                       /\ row'[k].response = row[k].response
  <2> SUFFICES ASSUME NEW k \in IdKey
               PROVE  /\ row'[k] \in Row /\ row'[k].left = Sooner(row[k].left)
                      /\ row'[k].state = row[k].state /\ row'[k].hash = row[k].hash
                      /\ row'[k].response = row[k].response
    OBVIOUS
  <2>1. row[k] \in Row /\ row[k].left \in 0..Ttl  BY <1>2 DEF Row
  <2>2. Sooner(row[k].left) \in 0..Ttl  BY <2>1, SoonerIsTyped
  <2>3. row'[k] = [row[k] EXCEPT !.left = Sooner(row[k].left)]  BY <1>1
  <2> QED  BY <2>1, <2>2, <2>3 DEF Row
<1>4. UNCHANGED <<pc, result, answer, called, given>>  BY DEF Tick
<1>5. TypeOK'
  <2>1. row' \in [IdKey -> Row]  BY <1>3 DEF Tick
  <2>2. period' \in [IdKey -> 0..Ttl]  BY <1>2, SoonerIsTyped DEF Tick
  <2> QED  BY <1>4, <2>1, <2>2 DEF IInv, TypeOK
<1>6. PeriodIsKept'
  <2> SUFFICES ASSUME NEW k \in IdKey
               PROVE  /\ period'[k] = row'[k].left
                      /\ row'[k].state = "none" => row'[k].left = 0
    BY DEF PeriodIsKept
  <2>1. period[k] = row[k].left /\ (row[k].state = "none" => row[k].left = 0)
    BY DEF IInv, PeriodIsKept
  <2> QED  BY <1>1, <1>3, <2>1, SoonerIsTyped
<1>7. OneExecutes'
  <2> SUFFICES ASSUME NEW c \in Call, Executing(c)
               PROVE  row'[KeyOf[c]].left > 0
    BY <1>3, <1>4 DEF IInv, OneExecutes, RowOf
  <2>1. row[KeyOf[c]].left > 0 /\ row[KeyOf[c]].left # 1
    BY DEF Tick, IInv, OneExecutes, RowOf
  <2> QED  BY <1>2, <1>3, <2>1 DEF Row, Sooner
<1>8. CompletesItself'  BY <1>3, <1>4 DEF IInv, CompletesItself, RowOf
<1>9. NothingGivenYet'  BY <1>3, <1>4 DEF IInv, NothingGivenYet, RowOf
<1>10. RecordIsGiven'  BY <1>3, <1>4 DEF IInv, RecordIsGiven
<1>11. /\ ResultsAreOwn' /\ NotYetCalled' /\ CalledOnce' /\ OneAnswer' /\ AnswersOwnRequest'
  BY <1>4 DEF IInv, ResultsAreOwn, NotYetCalled, CalledOnce, OneAnswer, AnswersOwnRequest
<1> QED  BY <1>5, <1>6, <1>7, <1>8, <1>9, <1>10, <1>11 DEF IInv

LEMMA NextIsSound == IInv /\ [Next]_vars => IInv'
<1> SUFFICES ASSUME IInv, [Next]_vars PROVE IInv'  OBVIOUS
<1>1. ASSUME NEW c \in Call, Serve(c) PROVE IInv'
  <2>1. CASE Begin(c)  BY <2>1, LeavingIsSound DEF Begin
  <2>2. CASE Purge(c)  BY <2>2, PurgeIsSound
  <2>3. CASE Insert(c)  BY <2>3, InsertIsSound
  <2>4. CASE Replay(c)  BY <2>4, ReplayIsSound
  <2>5. CASE Conflict(c)  BY <2>5, ConflictIsSound
  <2>6. CASE InProgress(c)  BY <2>6, LeavingIsSound DEF InProgress
  <2>7. CASE Refuse(c)  BY <2>7, ExecutingIsSound DEF Refuse, history
  <2>8. CASE Execute(c)  BY <2>8, ExecutingIsSound DEF Execute
  <2>9. CASE Complete(c)  BY <2>9, CompleteIsSound
  <2>10. CASE Reply(c)  BY <2>10, ReplyIsSound
  <2> QED  BY <1>1, <2>1, <2>2, <2>3, <2>4, <2>5, <2>6, <2>7, <2>8, <2>9, <2>10 DEF Serve
<1>2. ASSUME NEW c \in Call, Busy(c) PROVE IInv'
  <2>1. CASE BusyReserving(c)  BY <2>1, LeavingIsSound DEF BusyReserving
  <2>2. CASE BusyCompleting(c)  BY <2>2, ExecutingIsSound DEF BusyCompleting, history
  <2>3. CASE BusyFailing(c)  BY <2>3, ExecutingIsSound DEF BusyFailing, history
  <2> QED  BY <1>2, <2>1, <2>2, <2>3 DEF Busy
<1>3. ASSUME NEW c \in Call, Crash(c) PROVE IInv'
  BY <1>3, LeavingIsSound DEF Crash
<1>4. CASE Tick  BY <1>4, TickIsSound
<1>5. CASE UNCHANGED vars
  BY <1>5 DEF vars, IInv, TypeOK, PeriodIsKept, OneExecutes, CompletesItself, ResultsAreOwn,
              NothingGivenYet, RecordIsGiven, NotYetCalled, CalledOnce, OneAnswer,
              AnswersOwnRequest, RowOf
<1> QED  BY <1>1, <1>2, <1>3, <1>4, <1>5 DEF Next

LEMMA AlwaysSound == Spec => []IInv
BY InitIsSound, NextIsSound, PTL DEF Spec

\* Records, places, results and answers keep their types, whatever fails.
THEOREM TypesAreKept == Spec => []TypeOK
<1>1. IInv => TypeOK  BY DEF IInv
<1> QED  BY <1>1, AlwaysSound, PTL

\* In the time that a key stands for one request the provider is called once at most.
THEOREM ProviderIsCalledOnce == Spec => []CalledOnce
<1>1. IInv => CalledOnce  BY DEF IInv
<1> QED  BY <1>1, AlwaysSound, PTL

\* Whoever repeats the request in that time is told the same.
THEOREM AnswersAreOne == Spec => []OneAnswer
<1>1. IInv => OneAnswer  BY DEF IInv
<1> QED  BY <1>1, AlwaysSound, PTL

\* And nobody gets the answer to another request.
THEOREM AnswersAreOwn == Spec => []AnswersOwnRequest
<1>1. IInv => AnswersOwnRequest  BY DEF IInv
<1> QED  BY <1>1, AlwaysSound, PTL

-----------------------------------------------------------------------------
(* Credentials. *)

\* Calls, settings and issuers have their types.
AnyUse == [provider : Provider \cup {None}, mailbox : Mailbox \cup {None},
           seen : {"absent", "active", "auth_error"}, at : {"idle", "started", "served", "refused"}]
Granting == [at : {"idle", "asked", "granted"}, mailbox : Mailbox \cup {None}, client : OAuthApp \cup {None},
             serial : 0..MaxSerial]
CredentialsTyped ==
  /\ use \in [Use -> AnyUse \cup {NoUse}]
  /\ \A u \in Uses : use[u].mailbox \in Mailbox
  /\ setting \in [Server -> [at : {"idle", "pin", "set"}, old : OAuthApp \cup {None}, new : OAuthApp \cup {None}]]
  /\ issuer \in [0..MaxSerial -> OAuthApp \cup {None}]
  /\ granting \in [Server -> Granting]

\* Somebody reaches the object for the mailbox.
Serves(i, m) ==
  \/ \E s \in Server : cached[s][m] = i
  \/ \E u \in Uses : use[u].provider = i /\ use[u].mailbox = m

\* An object works for one mailbox,
OneMailboxEach == \A i \in Provider, m, n \in Mailbox : Serves(i, m) /\ Serves(i, n) => m = n

\* in the server that made it, whose cache knows the revision that it works with.
CacheKnowsRevision ==
  \A s \in Server, m \in Mailbox : cached[s][m] # None =>
    cached[s][m][1] = s /\ cachedRevision[s][m] = memory[cached[s][m]].revision

\* No object is ahead of the store, and one revision is one credential.
NotAhead(i, m) ==
  /\ memory[i].revision <= stored[m].revision
  /\ memory[i].revision = stored[m].revision =>
       memory[i].grant = stored[m].grant /\ memory[i].serial = stored[m].serial
NeverAhead == \A i \in Provider, m \in Mailbox : Serves(i, m) /\ Present(m) => NotAhead(i, m)

\* What was issued is what anybody has; the answer to a refresh is newer than what
\* the object works with, and it was asked by the application of the grant.
SoFar(c) == c.grant <= issued /\ c.serial <= issued
AsksRightly(i) ==
  asked[i] \notin {None, 0} =>
    /\ memory[i].serial < asked[i] /\ asked[i] <= issued
    /\ memory[i].client # None /\ issuer[memory[i].grant] = memory[i].client
IssuedSoFar ==
  /\ \A m \in Mailbox : SoFar(stored[m])
  /\ \A i \in Held : SoFar(memory[i]) /\ AsksRightly(i)

\* While credentials do not name their application it stays the configured one, and
\* who replaces it is going to write it down.
UnpinnedAreKnown ==
  \A m \in Mailbox : Present(m) /\ kindOf[m] = "outlook" /\ stored[m].client = None =>
    /\ app["outlook"] # None
    /\ \A s \in Server : setting[s].at = "idle" \/ (setting[s].at = "pin" /\ setting[s].old = app["outlook"])

\* Who authorizes a mailbox again has asked an application, and the grant is that one's.
GrantsAreSound ==
  \A s \in Server : granting[s].at # "idle" =>
    /\ granting[s].mailbox \in Mailbox /\ granting[s].client \in OAuthApp
    /\ granting[s].at = "granted" =>
         granting[s].serial <= issued /\ issuer[granting[s].serial] = granting[s].client

Typed == CredentialsTypeOK /\ CredentialsTyped
CredInv ==
  /\ Typed /\ OneMailboxEach /\ CacheKnowsRevision /\ NeverAhead
  /\ IssuedSoFar /\ GrantsAreSound /\ UnpinnedAreKnown /\ KeepsItsApp

\* What Credential records are.
LEMMA CredentialFields ==
  ASSUME NEW c \in Credential
  PROVE  /\ c.grant \in 0..MaxSerial /\ c.serial \in 0..MaxSerial
         /\ c.client \in OAuthApp \cup {None} /\ c.revision \in Nat
         /\ \A a \in OAuthApp \cup {None} : [c EXCEPT !.client = a] \in Credential
         /\ \A a : /\ [c EXCEPT !.client = a].grant = c.grant
                   /\ [c EXCEPT !.client = a].serial = c.serial
                   /\ [c EXCEPT !.client = a].client = a
                   /\ [c EXCEPT !.client = a].revision = c.revision
BY DEF Credential

LEMMA NoCredentialIsOne == NoCredential \in Credential /\ NoUse.at = "idle"
BY CredentialsAssumption DEF NoCredential, Credential, NoUse

LEMMA NoGrantIsOne == NoGrant \in Granting /\ NoGrant.at = "idle"
BY CredentialsAssumption DEF NoGrant, Granting

LEMMA ProvidersAreMade ==
  ASSUME NEW i \in Provider
  PROVE  i # None /\ i[1] \in Server
BY CredentialsAssumption DEF Provider

\* Whom somebody reaches.
LEMMA HeldServes ==
  ASSUME Typed
  PROVE  /\ Held \subseteq Provider
         /\ \A i \in Provider, m \in Mailbox : Serves(i, m) => i \in Held
         /\ \A i \in Held : \E m \in Mailbox : Serves(i, m)
         /\ \A s \in Server, m \in Mailbox : cached[s][m] # None => cached[s][m] \in Held /\ Serves(cached[s][m], m)
         /\ \A u \in Use : use[u].at # "idle" =>
              use[u].provider \in Held /\ use[u].mailbox \in Mailbox /\ Serves(use[u].provider, use[u].mailbox)
<1>1. \A s \in Server, m \in Mailbox : cached[s][m] \in Provider \cup {None}
  BY DEF Typed, CredentialsTypeOK
<1>2. \A u \in Use : use[u].at # "idle" => use[u].provider \in Provider /\ use[u].mailbox \in Mailbox
  BY DEF Typed, CredentialsTypeOK, CredentialsTyped, Uses
<1>3. \A i : i \in Held <=> /\ i # None
                            /\ \/ \E s \in Server, m \in Mailbox : cached[s][m] = i
                               \/ \E u \in Uses : use[u].provider = i
  BY DEF Held
<1>4. Held \subseteq Provider
  <2> SUFFICES ASSUME NEW i \in Held PROVE i \in Provider
    OBVIOUS
  <2>1. CASE \E s \in Server, m \in Mailbox : cached[s][m] = i
    BY <1>1, <1>3, <2>1
  <2>2. CASE \E u \in Uses : use[u].provider = i
    BY <1>2, <2>2 DEF Uses
  <2> QED  BY <1>3, <2>1, <2>2
<1>5. \A i \in Provider, m \in Mailbox : Serves(i, m) => i \in Held
  BY <1>3, ProvidersAreMade DEF Serves
<1>6. \A s \in Server, m \in Mailbox : cached[s][m] # None => cached[s][m] \in Held /\ Serves(cached[s][m], m)
  BY <1>3 DEF Serves
<1>7. \A u \in Use : use[u].at # "idle" =>
         use[u].provider \in Held /\ use[u].mailbox \in Mailbox /\ Serves(use[u].provider, use[u].mailbox)
  BY <1>2, <1>3, ProvidersAreMade DEF Serves, Uses
<1>8. \A i \in Held : \E m \in Mailbox : Serves(i, m)
  <2> SUFFICES ASSUME NEW i \in Held PROVE \E m \in Mailbox : Serves(i, m)
    OBVIOUS
  <2>1. CASE \E s \in Server, m \in Mailbox : cached[s][m] = i
    BY <2>1 DEF Serves
  <2>2. CASE \E u \in Uses : use[u].provider = i
    BY <2>2, <1>7 DEF Uses
  <2> QED  BY <1>3, <2>1, <2>2
<1> QED  BY <1>4, <1>5, <1>6, <1>7, <1>8

LEMMA CollectsKeep ==
  ASSUME Typed, Collects, Held' \subseteq Held
  PROVE  /\ memory' \in [Held' -> Credential] /\ asked' \in [Held' -> (0..MaxSerial) \cup {None}]
         /\ \A i \in Held' : memory'[i] = memory[i] /\ asked'[i] = asked[i]
BY DEF Typed, CredentialsTypeOK, Collects

\* At first nobody reaches an object, and all that is stored came from one application.
LEMMA CredentialsStartSound ==
  ASSUME CredentialsInit PROVE CredInv
<1> DEFINE first == CHOOSE a \in OAuthApp : a # BuiltIn
<1>1. first \in OAuthApp /\ first # BuiltIn /\ first # None
  BY CredentialsAssumption
<1>2. Uses = {} /\ Held = {}
  BY NoCredentialIsOne DEF CredentialsInit, Uses, Held
<1>3. /\ app = [k \in Kinds |-> first]
      /\ issuer = [n \in 0..MaxSerial |-> IF n = 1 THEN first ELSE None]
      /\ \E c \in {first, None} : stored = [m \in Mailbox |-> [grant |-> 1, serial |-> 1, client |-> c, revision |-> 1]]
  BY DEF CredentialsInit
<1> HIDE DEF first
<1>4. CredentialsTypeOK
  <2>1. stored \in [Mailbox -> Credential] /\ \A m \in Mailbox : stored[m] # NoCredential
    BY <1>1, <1>3, CredentialsAssumption DEF Credential, NoCredential
  <2>2. memory \in [Held -> Credential] /\ asked \in [Held -> (0..MaxSerial) \cup {None}]
    BY <1>2 DEF CredentialsInit
  <2>3. /\ kindOf \in [Mailbox -> Kinds] /\ app \in [Kinds -> OAuthApp \cup {None}]
        /\ mailboxStatus \in [Mailbox -> {"absent", "active", "auth_error"}]
        /\ \A m \in Mailbox : mailboxStatus[m] # "absent"
    BY <1>1, <1>3 DEF CredentialsInit
  <2>4. /\ cached \in [Server -> [Mailbox -> Provider \cup {None}]]
        /\ cachedRevision \in [Server -> [Mailbox -> Nat]]
    BY DEF CredentialsInit
  <2>5. issued \in 0..MaxSerial /\ revoked \subseteq 0..MaxSerial
    BY CredentialsAssumption DEF CredentialsInit
  <2>6. \A s \in Server : granting[s].at = "idle"
    BY DEF CredentialsInit, NoGrant
  <2> QED
    BY <1>2, <2>1, <2>2, <2>3, <2>4, <2>5, <2>6 DEF CredentialsTypeOK
<1>5. CredentialsTyped
  <2>1. granting \in [Server -> Granting]
    BY NoGrantIsOne DEF CredentialsInit
  <2> QED  BY <1>1, <1>2, <1>3, <2>1, CredentialsAssumption DEF CredentialsInit, CredentialsTyped
<1>6. OneMailboxEach /\ CacheKnowsRevision /\ NeverAhead
  <2>1. \A i \in Provider, m \in Mailbox : ~Serves(i, m)
    BY <1>2, ProvidersAreMade DEF Serves, CredentialsInit
  <2> QED  BY <2>1 DEF OneMailboxEach, CacheKnowsRevision, NeverAhead, CredentialsInit
<1>7. IssuedSoFar
  BY <1>2, <1>3 DEF IssuedSoFar, SoFar, CredentialsInit
<1>8. UnpinnedAreKnown /\ KeepsItsApp
  <2>1. app["outlook"] = first /\ issuer[1] = first
    BY <1>3, CredentialsAssumption DEF Kinds
  <2>2. \A m \in Mailbox : stored[m].client \in {first, None} /\ stored[m].grant = 1
    BY <1>3
  <2>3. \A s \in Server : setting[s].at = "idle"
    BY DEF CredentialsInit
  <2> QED  BY <1>1, <2>1, <2>2, <2>3 DEF UnpinnedAreKnown, KeepsItsApp, ClientOf, AppFor
<1>9. GrantsAreSound
  BY NoGrantIsOne DEF CredentialsInit, GrantsAreSound
<1> QED  BY <1>4, <1>5, <1>6, <1>7, <1>8, <1>9 DEF CredInv, Typed

\* What the record of a call under way is.
LEMMA UseFields ==
  ASSUME Typed, NEW u \in Use, use[u].at # "idle"
  PROVE  /\ use[u] \in AnyUse /\ use[u].provider \in Provider /\ use[u].mailbox \in Mailbox
         /\ use[u].at \in {"started", "served", "refused"}
         /\ \A a \in {"served", "refused"} :
              /\ [use[u] EXCEPT !.at = a] \in AnyUse
              /\ [use[u] EXCEPT !.at = a].at = a
              /\ [use[u] EXCEPT !.at = a].provider = use[u].provider
              /\ [use[u] EXCEPT !.at = a].mailbox = use[u].mailbox
<1>1. use[u] \in AnyUse
  BY NoCredentialIsOne DEF Typed, CredentialsTyped
<1>2. use[u].provider \in Provider /\ use[u].mailbox \in Mailbox
  BY HeldServes
<1> QED  BY <1>1, <1>2 DEF AnyUse

\* No action but the construction of an object makes one reached: the calls go on with
\* objects that were reached for their mailboxes, and caches only forget.
CallsGoOn ==
  /\ use' \in [Use -> AnyUse \cup {NoUse}]
  /\ \A u \in Use : use'[u].at # "idle" =>
       use'[u].mailbox \in Mailbox /\ use'[u].provider # None /\ Serves(use'[u].provider, use'[u].mailbox)
CachesForget ==
  /\ cached' \in [Server -> [Mailbox -> Provider \cup {None}]]
  /\ cachedRevision' \in [Server -> [Mailbox -> Nat]]
  /\ \A s \in Server, m \in Mailbox : cached'[s][m] # None => cached'[s][m] = cached[s][m]

LEMMA NobodyNewIsReached ==
  ASSUME Typed, CallsGoOn, CachesForget
  PROVE  /\ Held' \subseteq Held
         /\ \A i \in Provider, m \in Mailbox : Serves(i, m)' => Serves(i, m)
<1>1. \A u \in Use : use'[u].at # "idle" => use'[u].provider \in Held
  <2> SUFFICES ASSUME NEW u \in Use, use'[u].at # "idle" PROVE use'[u].provider \in Held
    OBVIOUS
  <2>1. PICK m \in Mailbox : use'[u].provider # None /\ Serves(use'[u].provider, m)
    BY DEF CallsGoOn
  <2>2. CASE \E s \in Server : cached[s][m] = use'[u].provider
    BY <2>1, <2>2, HeldServes
  <2>3. CASE \E w \in Uses : use[w].provider = use'[u].provider
    BY <2>3, HeldServes DEF Uses
  <2> QED  BY <2>1, <2>2, <2>3 DEF Serves
<1>2. \A s \in Server, m \in Mailbox : cached'[s][m] # None => cached'[s][m] \in Held
  BY HeldServes DEF CachesForget
<1>3. Held' \subseteq Held
  BY <1>1, <1>2 DEF Held, Uses
<1>4. ASSUME NEW i \in Provider, NEW m \in Mailbox, Serves(i, m)'
      PROVE  Serves(i, m)
  <2>1. CASE \E s \in Server : cached'[s][m] = i
    BY <2>1, ProvidersAreMade DEF CachesForget, Serves
  <2>2. CASE \E u \in Use : use'[u].at # "idle" /\ use'[u].provider = i /\ use'[u].mailbox = m
    BY <2>2 DEF CallsGoOn
  <2> QED  BY <1>4, <2>1, <2>2 DEF Serves, Uses
<1> QED  BY <1>3, <1>4

\* A step that leaves the provider objects alone, and one that builds none.
ObjectsAreLeft(u, s, m) ==
  \/ /\ u \in Use
     /\ \/ Performs(u) \/ EndUse(u) \/ FailUse(u)
        \/ s \in Server /\ m \in Mailbox /\ BeginCached(u, s, m)
  \/ /\ m \in Mailbox
     /\ \/ BeginRefused(m) \/ Revoke(m)
        \/ s \in Server /\ (BeginReconnect(s, m) \/ Remove(s, m))
  \/ /\ s \in Server
     /\ \/ BeginSetMicrosoft(s) \/ PinMicrosoft(s) \/ SetMicrosoft(s) \/ Restart(s)
        \/ ExchangeCode(s) \/ Reconnect(s) \/ GivesUp(s)
  \/ SetGoogle
BuildsNothing(u, s, m) == ObjectsAreLeft(u, s, m) \/ (u \in Use /\ (Refresh(u) \/ Answered(u)))

LEMMA SameCallsGoOn ==
  ASSUME Typed, UNCHANGED use PROVE CallsGoOn
BY HeldServes, ProvidersAreMade DEF CallsGoOn, Typed, CredentialsTyped

LEMMA CallsMove ==
  ASSUME Typed, NEW u, NEW s, NEW m, BuildsNothing(u, s, m)
  PROVE  CallsGoOn
<1>1. CASE UNCHANGED use
  BY <1>1, SameCallsGoOn
<1>2. ASSUME u \in Use, s \in Server, m \in Mailbox, BeginCached(u, s, m) PROVE CallsGoOn
  <2>1. use'[u] = [provider |-> cached[s][m], mailbox |-> m, seen |-> mailboxStatus[m], at |-> "started"]
        /\ use' \in [Use -> AnyUse \cup {NoUse}] /\ \A w \in Use \ {u} : use'[w] = use[w]
    BY <1>2 DEF BeginCached, Starts, Typed, CredentialsTypeOK, CredentialsTyped, AnyUse
  <2>2. cached[s][m] # None
    BY <1>2 DEF BeginCached, CacheFits
  <2> QED  BY <1>2, <2>1, <2>2, HeldServes, ProvidersAreMade DEF CallsGoOn
<1>3. ASSUME u \in Use, NEW place \in {"served", "refused"}, use[u].at = "started", Reaches(u, place)
      PROVE  CallsGoOn
  <2>0. use' = [use EXCEPT ![u] = [use[u] EXCEPT !.at = place]] /\ [use[u] EXCEPT !.at = place] \in AnyUse
    BY <1>3, UseFields DEF Reaches
  <2>1. /\ use' \in [Use -> AnyUse \cup {NoUse}] /\ \A w \in Use \ {u} : use'[w] = use[w]
        /\ use'[u] = [use[u] EXCEPT !.at = place]
    BY <1>3, <2>0 DEF Typed, CredentialsTyped
  <2>2. use'[u].provider = use[u].provider /\ use'[u].mailbox = use[u].mailbox
    BY <1>3, <2>1, UseFields
  <2> QED  BY <1>3, <2>1, <2>2, HeldServes, ProvidersAreMade DEF CallsGoOn
<1>4. ASSUME u \in Use, use' = [use EXCEPT ![u] = NoUse] PROVE CallsGoOn
  <2>1. use' \in [Use -> AnyUse \cup {NoUse}] /\ use'[u].at = "idle" /\ \A w \in Use \ {u} : use'[w] = use[w]
    BY <1>4, NoCredentialIsOne DEF Typed, CredentialsTyped
  <2> QED  BY <2>1, HeldServes, ProvidersAreMade DEF CallsGoOn
<1>5. ASSUME NEW n, NEW i, Fail(n, i, "refused") PROVE CallsGoOn
  <2>1. \A w \in Use : \/ use'[w] = use[w]
                       \/ use[w].at = "started" /\ use'[w] = [use[w] EXCEPT !.at = "refused"]
    BY <1>5 DEF Fail
  <2>2. \A w \in Use : use'[w] \in AnyUse \cup {NoUse}
    <3> SUFFICES ASSUME NEW w \in Use PROVE use'[w] \in AnyUse \cup {NoUse}
      OBVIOUS
    <3>1. CASE use'[w] = use[w]
      BY <3>1 DEF Typed, CredentialsTyped
    <3>2. CASE use[w].at = "started" /\ use'[w] = [use[w] EXCEPT !.at = "refused"]
      BY <3>2, UseFields
    <3> QED  BY <2>1, <3>1, <3>2
  <2>3. use' \in [Use -> AnyUse \cup {NoUse}]
    BY <1>5, <2>2 DEF Fail
  <2>4. \A w \in Use : use'[w].at # "idle" =>
          use[w].at # "idle" /\ use'[w].provider = use[w].provider /\ use'[w].mailbox = use[w].mailbox
    BY <2>1, UseFields
  <2> QED  BY <2>3, <2>4, HeldServes, ProvidersAreMade DEF CallsGoOn
<1>6. CASE Restart(s)
  <2>1. \A w \in Use : use'[w] \in {use[w], NoUse}
    BY <1>6 DEF Restart
  <2>2. use' \in [Use -> AnyUse \cup {NoUse}]
    BY <1>6, <2>1 DEF Restart, Typed, CredentialsTyped
  <2> QED  BY <2>1, <2>2, NoCredentialIsOne, HeldServes, ProvidersAreMade DEF CallsGoOn
<1>7. ASSUME u \in Use, Performs(u) \/ EndUse(u) \/ FailUse(u) PROVE CallsGoOn
  BY <1>3, <1>4, <1>7 DEF Performs, EndUse, FailUse
<1>8. ASSUME u \in Use, Refresh(u) \/ Answered(u) PROVE CallsGoOn
  BY <1>1, <1>5, <1>8 DEF Refresh, Answered, Saved, Adopts, StepsAside, Orphaned
<1>9. CASE \/ BeginRefused(m) \/ Revoke(m) \/ BeginReconnect(s, m) \/ BeginSetMicrosoft(s) \/ PinMicrosoft(s)
          \/ SetMicrosoft(s) \/ ExchangeCode(s) \/ GivesUp(s) \/ SetGoogle
          \/ Reconnect(s) \/ Remove(s, m)
  BY <1>1, <1>9
     DEF Reconnect, Remove, BeginRefused, Revoke, BeginReconnect, BeginSetMicrosoft, PinMicrosoft, SetMicrosoft, ExchangeCode, GivesUp, SetGoogle
<1> QED  BY <1>2, <1>6, <1>7, <1>8, <1>9 DEF BuildsNothing, ObjectsAreLeft

LEMMA CachesMove ==
  ASSUME CredInv, NEW u, NEW s, NEW m, BuildsNothing(u, s, m)
  PROVE  CachesForget
<1>t. /\ cached \in [Server -> [Mailbox -> Provider \cup {None}]]
      /\ cachedRevision \in [Server -> [Mailbox -> Nat]]
      /\ stored \in [Mailbox -> Credential]
  BY DEF CredInv, Typed, CredentialsTypeOK
<1>1. CASE UNCHANGED <<cached, cachedRevision>>
  BY <1>1, <1>t DEF CachesForget
<1>2. ASSUME NEW n, Evicts(s, n) PROVE CachesForget
  BY <1>2, <1>t DEF CachesForget, Evicts, CachesAt
<1>3. ASSUME NEW r \in Server, NEW n \in Mailbox, NEW i, NEW revision \in Nat,
             Follows(r, n, i, revision), UNCHANGED cached
      PROVE  CachesForget
  BY <1>3, <1>t DEF CachesForget, Follows
<1>4. CASE Restart(s)
  BY <1>4, <1>t DEF CachesForget, Restart
<1>5. ASSUME u \in Use, Answered(u) PROVE CachesForget
  <2> DEFINE i == use[u].provider  n == use[u].mailbox
  <2>1. n \in Mailbox /\ i \in Provider /\ i[1] \in Server
    BY <1>5, HeldServes, ProvidersAreMade DEF Answered, CredInv
  <2>2. stored[n].revision + 1 \in Nat /\ stored[n].revision \in Nat
    BY <1>t, <2>1, CredentialFields
  <2>3. CASE Saved(i[1], n, i)
    BY <1>3, <2>1, <2>2, <2>3 DEF Saved
  <2>4. CASE Adopts(i[1], n, i)
    BY <1>3, <2>1, <2>2, <2>4 DEF Adopts
  <2>5. CASE StepsAside(i[1], n, i)
    BY <1>t, <2>1, <2>5 DEF StepsAside, CachesForget
  <2>6. CASE UNCHANGED <<cached, cachedRevision>>
    BY <1>1, <2>6
  <2> QED  BY <1>5, <2>3, <2>4, <2>5, <2>6 DEF Answered, Orphaned
<1>6. CASE Performs(u) \/ EndUse(u) \/ FailUse(u) \/ Refresh(u) \/ BeginCached(u, s, m)
  BY <1>1, <1>6 DEF BeginCached, Refresh, Performs, EndUse, FailUse, objectVars
<1>7. CASE \/ BeginRefused(m) \/ Revoke(m) \/ BeginReconnect(s, m) \/ BeginSetMicrosoft(s) \/ PinMicrosoft(s)
          \/ SetMicrosoft(s) \/ ExchangeCode(s) \/ GivesUp(s) \/ SetGoogle
  BY <1>1, <1>7
     DEF objectVars, BeginRefused, Revoke, BeginReconnect, BeginSetMicrosoft, PinMicrosoft, SetMicrosoft, ExchangeCode, GivesUp, SetGoogle
<1>8. CASE Reconnect(s) \/ Remove(s, m)
  BY <1>2, <1>8 DEF Reconnect, Remove
<1> QED  BY <1>4, <1>5, <1>6, <1>7, <1>8 DEF BuildsNothing, ObjectsAreLeft

LEMMA ReachMoves ==
  ASSUME CredInv, NEW u, NEW s, NEW m, BuildsNothing(u, s, m)
  PROVE  /\ CallsGoOn /\ CachesForget /\ Held' \subseteq Held
         /\ \A i \in Provider, n \in Mailbox : Serves(i, n)' => Serves(i, n)
BY CallsMove, CachesMove, NobodyNewIsReached DEF CredInv

\* Tokens are issued in order, and who asked for one stays known.
IssuesInOrder ==
  /\ issued' \in 0..MaxSerial /\ issued <= issued'
  /\ issuer' \in [0..MaxSerial -> OAuthApp \cup {None}]
  /\ \A n \in 0..issued : issuer'[n] = issuer[n]

LEMMA IssuingMoves ==
  ASSUME CredInv, CredentialsNext PROVE IssuesInOrder
<1>t. issued \in 0..MaxSerial /\ issuer \in [0..MaxSerial -> OAuthApp \cup {None}] /\ MaxSerial \in Nat
  BY CredentialsAssumption DEF CredInv, Typed, CredentialsTypeOK, CredentialsTyped
<1>1. CASE UNCHANGED <<issued, issuer>>
  BY <1>1, <1>t DEF IssuesInOrder
<1>2. ASSUME issued < MaxSerial, issued' = issued + 1, UNCHANGED issuer
      PROVE  IssuesInOrder
  BY <1>2, <1>t DEF IssuesInOrder
<1>3. ASSUME NEW s \in Server, ExchangeCode(s) PROVE IssuesInOrder
  <2>1. granting[s].client \in OAuthApp
    BY <1>3 DEF ExchangeCode, CredInv, GrantsAreSound
  <2> QED  BY <1>3, <1>t, <2>1 DEF ExchangeCode, IssuesInOrder
<1>4. ASSUME NEW u \in Use, Calls(u) PROVE IssuesInOrder
  BY <1>1, <1>2, <1>4 DEF Calls, Refresh, Answered, Performs, EndUse, outsideVars
<1> QED
  BY <1>1, <1>3, <1>4
     DEF CredentialsNext, Begins, BeginCached, BeginBuilt, FailUse, BeginRefused, Finishes, PinMicrosoft,
         SetMicrosoft, Reconnect, GivesUp, Changes, BeginReconnect, Remove, SetGoogle, BeginSetMicrosoft, Restart,
         Revoke, outsideVars

\* The store goes forward: mailboxes do not come back, a row that changes gets a higher
\* revision, and a newer token of its grant unless the user has authorized the mailbox
\* again, and it holds what was issued.
StoreGoesForward ==
  /\ stored' \in [Mailbox -> Credential]
  /\ mailboxStatus' \in [Mailbox -> {"absent", "active", "auth_error"}]
  /\ \A m \in Mailbox : (mailboxStatus'[m] = "absent") <=> (stored'[m] = NoCredential)
  /\ \A m \in Mailbox : mailboxStatus'[m] # "absent" =>
       /\ Present(m)
       /\ stored'[m] = stored[m] \/ stored'[m].revision > stored[m].revision
       /\ \/ stored'[m].grant = stored[m].grant /\ stored'[m].serial >= stored[m].serial
          \/ \E s \in Server : ReconnectedBy(s, m)
  /\ \A m \in Mailbox : stored'[m].grant <= issued' /\ stored'[m].serial <= issued'

\* A row is written with the next revision.
LEMMA EntryIsWritten ==
  ASSUME CredInv, IssuesInOrder, UNCHANGED mailboxStatus, NEW m \in Mailbox, Present(m),
         NEW g \in 0..MaxSerial, NEW n \in 0..MaxSerial, NEW client \in OAuthApp \cup {None},
         g = stored[m].grant, n <= issued', n >= stored[m].serial,
         stored' = [stored EXCEPT ![m] = [grant |-> g, serial |-> n, client |-> client,
                                          revision |-> stored[m].revision + 1]]
  PROVE  StoreGoesForward
<1> DEFINE entry == [grant |-> g, serial |-> n, client |-> client, revision |-> stored[m].revision + 1]
<1>1. stored \in [Mailbox -> Credential] /\ stored[m].revision \in Nat
  BY CredentialFields DEF CredInv, Typed, CredentialsTypeOK
<1>2. entry \in Credential /\ entry # NoCredential
      /\ entry.grant = g /\ entry.serial = n /\ entry.revision = stored[m].revision + 1
  BY <1>1 DEF Credential, NoCredential
<1>3. stored'[m] = entry /\ stored' \in [Mailbox -> Credential] /\ \A w \in Mailbox \ {m} : stored'[w] = stored[w]
  BY <1>1, <1>2
<1> HIDE DEF entry
<1>4. \A w \in Mailbox : stored[w].serial \in Nat /\ stored[w].grant \in Nat /\ issued \in Nat /\ issued' \in Nat
  BY CredentialFields, CredentialsAssumption DEF CredInv, Typed, CredentialsTypeOK, IssuesInOrder
<1> QED
  BY <1>1, <1>2, <1>3, <1>4 DEF CredInv, Typed, CredentialsTypeOK, StoreGoesForward, Present, IssuedSoFar, SoFar, IssuesInOrder

LEMMA StoreStays ==
  ASSUME CredInv, IssuesInOrder, UNCHANGED <<stored, mailboxStatus>>
  PROVE  StoreGoesForward
<1>1. \A w \in Mailbox : stored[w].serial \in Nat /\ stored[w].grant \in Nat /\ issued \in Nat /\ issued' \in Nat
  BY CredentialFields, CredentialsAssumption DEF CredInv, Typed, CredentialsTypeOK, IssuesInOrder
<1> QED
  BY <1>1 DEF CredInv, Typed, CredentialsTypeOK, StoreGoesForward, Present, IssuedSoFar, SoFar, IssuesInOrder

LEMMA StatusIsNoted ==
  ASSUME CredInv, IssuesInOrder, UNCHANGED stored, NEW m \in Mailbox, Present(m),
         NEW status \in {"active", "auth_error"}, mailboxStatus' = [mailboxStatus EXCEPT ![m] = status]
  PROVE  StoreGoesForward
<1>1. \A w \in Mailbox : stored[w].serial \in Nat /\ stored[w].grant \in Nat /\ issued \in Nat /\ issued' \in Nat
  BY CredentialFields, CredentialsAssumption DEF CredInv, Typed, CredentialsTypeOK, IssuesInOrder
<1>2. \A w \in Mailbox : (mailboxStatus'[w] = "absent") <=> (mailboxStatus[w] = "absent")
  BY DEF Present, CredInv, Typed, CredentialsTypeOK
<1>3. mailboxStatus' \in [Mailbox -> {"absent", "active", "auth_error"}]
  BY DEF CredInv, Typed, CredentialsTypeOK
<1> QED
  BY <1>1, <1>2, <1>3 DEF CredInv, Typed, CredentialsTypeOK, StoreGoesForward, Present, IssuedSoFar, SoFar, IssuesInOrder

\* What the answer to a refresh is about, and what saving it writes.
LEMMA AnswerFacts ==
  ASSUME CredInv, NEW u \in Use, use[u].at # "idle", asked[use[u].provider] # None
  PROVE  LET i == use[u].provider  m == use[u].mailbox
         IN /\ i \in Held /\ i \in Provider /\ i[1] \in Server /\ m \in Mailbox /\ Serves(i, m)
            /\ memory[i] \in Credential /\ stored[m] \in Credential
            /\ asked[i] \in 0..MaxSerial
            /\ asked[i] # 0 =>
                 /\ memory[i].serial < asked[i] /\ asked[i] <= issued
                 /\ memory[i].client \in OAuthApp /\ issuer[memory[i].grant] = memory[i].client
<1> DEFINE i == use[u].provider  m == use[u].mailbox
<1>1. i \in Held /\ i \in Provider /\ i[1] \in Server /\ m \in Mailbox /\ Serves(i, m)
  BY HeldServes, ProvidersAreMade DEF CredInv
<1>2. memory[i] \in Credential /\ stored[m] \in Credential /\ asked[i] \in 0..MaxSerial
  BY <1>1 DEF CredInv, Typed, CredentialsTypeOK
<1>3. memory[i].client \in OAuthApp \cup {None}
  BY <1>2, CredentialFields
<1> QED  BY <1>1, <1>2, <1>3 DEF CredInv, IssuedSoFar, AsksRightly

\* The object that wins is the one that read what it replaces: its answer is newer.
LEMMA SavingMoves ==
  ASSUME CredInv, IssuesInOrder, NEW u \in Use, use[u].at # "idle", asked[use[u].provider] \notin {None, 0},
         Saved(use[u].provider[1], use[u].mailbox, use[u].provider), UNCHANGED mailboxStatus
  PROVE  StoreGoesForward
<1> DEFINE i == use[u].provider  m == use[u].mailbox
           client == IF kindOf[m] = "gmail" THEN stored[m].client ELSE memory[i].client
<1>1. /\ m \in Mailbox /\ Present(m) /\ i \in Provider /\ Serves(i, m) /\ stored[m].revision = memory[i].revision
      /\ memory[i] \in Credential /\ stored[m] \in Credential
      /\ asked[i] \in 0..MaxSerial /\ memory[i].serial < asked[i] /\ asked[i] <= issued
  BY AnswerFacts DEF Saved, Wins
<1>2. i \in Held /\ memory[i].grant \in 0..MaxSerial /\ client \in OAuthApp \cup {None}
      /\ memory[i].grant <= issued /\ issued \in Nat /\ issued' \in Nat /\ issued <= issued' /\ stored[m].serial \in Nat
  BY <1>1, AnswerFacts, CredentialFields, CredentialsAssumption
     DEF CredInv, IssuedSoFar, SoFar, IssuesInOrder, Typed, CredentialsTypeOK
<1>3. stored[m].serial = memory[i].serial /\ stored[m].grant = memory[i].grant
  BY <1>1 DEF CredInv, NeverAhead, NotAhead
<1>4. stored' = [stored EXCEPT ![m] = [grant |-> memory[i].grant, serial |-> asked[i], client |-> client,
                                       revision |-> stored[m].revision + 1]]
  BY DEF Saved
<1>5. asked[i] >= stored[m].serial /\ asked[i] <= issued' /\ memory[i].grant = stored[m].grant
  BY <1>1, <1>2, <1>3
<1> HIDE DEF client
<1> QED  BY <1>1, <1>2, <1>4, <1>5, EntryIsWritten

Revised(c, n) == [c EXCEPT !.revision = n]
PinnedTo(c, a) == [c EXCEPT !.client = a, !.revision = @ + 1]

LEMMA RevisionField ==
  ASSUME NEW c \in Credential, NEW n \in Nat
  PROVE  /\ Revised(c, n) \in Credential /\ Revised(c, n).grant = c.grant /\ Revised(c, n).serial = c.serial
         /\ Revised(c, n).client = c.client /\ Revised(c, n).revision = n
BY DEF Credential, Revised

LEMMA PinnedRow ==
  ASSUME NEW c \in Credential, NEW a \in OAuthApp \cup {None}
  PROVE  /\ PinnedTo(c, a) \in Credential /\ PinnedTo(c, a) # NoCredential
         /\ PinnedTo(c, a).grant = c.grant /\ PinnedTo(c, a).serial = c.serial
         /\ PinnedTo(c, a).client = a /\ PinnedTo(c, a).revision = c.revision + 1
<1> DEFINE d == [c EXCEPT !.client = a]  n == c.revision + 1
<1>1. d \in Credential /\ d.grant = c.grant /\ d.serial = c.serial /\ d.client = a
  BY CredentialFields
<1>2. n \in Nat /\ n # 0
  BY CredentialFields
<1>3. PinnedTo(c, a) = Revised(d, n)
  BY DEF PinnedTo, Revised
<1>4. n = c.revision + 1
  OBVIOUS
<1> HIDE DEF d, n
<1>5. /\ Revised(d, n) \in Credential /\ Revised(d, n).grant = d.grant /\ Revised(d, n).serial = d.serial
      /\ Revised(d, n).client = d.client /\ Revised(d, n).revision = n
  BY <1>1, <1>2, RevisionField
<1>6. NoCredential.revision = 0
  BY DEF NoCredential
<1> QED  BY <1>1, <1>2, <1>3, <1>4, <1>5, <1>6

LEMMA PinningMoves ==
  ASSUME CredInv, IssuesInOrder, NEW s \in Server, PinMicrosoft(s)
  PROVE  StoreGoesForward
<1>1. setting[s].old \in OAuthApp \cup {None}
  BY DEF CredInv, Typed, CredentialsTyped
<1>2. \A m \in Mailbox : \/ stored'[m] = stored[m]
                         \/ Present(m) /\ stored'[m] = [stored[m] EXCEPT !.client = setting[s].old, !.revision = @ + 1]
  BY DEF PinMicrosoft, Unpinned
<1>3. \A m \in Mailbox :
        /\ stored[m] \in Credential /\ stored[m].serial \in Nat /\ stored[m].grant \in Nat /\ stored[m].revision \in Nat
        /\ stored[m].grant <= issued /\ stored[m].serial <= issued
        /\ (mailboxStatus[m] = "absent") <=> (stored[m] = NoCredential)
  <2>1. \A m \in Mailbox : stored[m] \in Credential
    BY DEF CredInv, Typed, CredentialsTypeOK
  <2>2. \A m \in Mailbox : stored[m].serial \in Nat /\ stored[m].grant \in Nat /\ stored[m].revision \in Nat
    BY <2>1, CredentialFields, CredentialsAssumption
  <2> QED  BY <2>1, <2>2 DEF CredInv, Typed, CredentialsTypeOK, IssuedSoFar, SoFar
<1>4. issued \in Nat /\ issued' \in Nat /\ issued <= issued' /\ UNCHANGED mailboxStatus
  <2>1. UNCHANGED mailboxStatus
    BY DEF PinMicrosoft
  <2>2. issued \in 0..MaxSerial /\ issued' \in 0..MaxSerial /\ issued <= issued' /\ MaxSerial \in Nat
    BY CredentialsAssumption DEF IssuesInOrder, CredInv, Typed, CredentialsTypeOK
  <2> QED  BY <2>1, <2>2
<1>5. ASSUME NEW m \in Mailbox
      PROVE  /\ stored'[m] \in Credential
             /\ stored'[m].grant <= issued' /\ stored'[m].serial <= issued'
             /\ stored'[m] = stored[m] \/ stored'[m].revision > stored[m].revision
             /\ stored'[m].grant = stored[m].grant /\ stored'[m].serial >= stored[m].serial
             /\ (mailboxStatus[m] = "absent") <=> (stored'[m] = NoCredential)
  <2>1. CASE stored'[m] = stored[m]
    BY <1>3, <1>4, <2>1
  <2>2. CASE Present(m) /\ stored'[m] = [stored[m] EXCEPT !.client = setting[s].old, !.revision = @ + 1]
    <3>1. /\ stored'[m] \in Credential /\ stored'[m] # NoCredential
          /\ stored'[m].grant = stored[m].grant /\ stored'[m].serial = stored[m].serial
          /\ stored'[m].revision = stored[m].revision + 1
      <4>1. stored'[m] = PinnedTo(stored[m], setting[s].old)
        BY <2>2 DEF PinnedTo
      <4> QED  BY <1>1, <1>3, <4>1, PinnedRow
    <3> QED  BY <1>3, <1>4, <2>2, <3>1 DEF Present
  <2> QED  BY <1>2, <2>1, <2>2
<1>6. stored' = [m \in Mailbox |-> stored'[m]]
  BY DEF PinMicrosoft
<1>7. stored' \in [Mailbox -> Credential]
  BY <1>5, <1>6
<1> QED  BY <1>4, <1>5, <1>7 DEF StoreGoesForward, CredInv, Typed, CredentialsTypeOK, Present

LEMMA StoreMoves ==
  ASSUME CredInv, CredentialsNext PROVE StoreGoesForward
<1>0. IssuesInOrder
  BY IssuingMoves
<1>1. CASE UNCHANGED <<stored, mailboxStatus>>
  BY <1>0, <1>1, StoreStays
<1>2. ASSUME NEW m \in Mailbox, BeginRefused(m) PROVE StoreGoesForward
  BY <1>0, <1>2, StatusIsNoted DEF BeginRefused
<1>3. ASSUME NEW u \in Use, EndUse(u) PROVE StoreGoesForward
  <2>1. use[u].mailbox \in Mailbox /\ UNCHANGED stored
    BY <1>3, HeldServes DEF EndUse, CredInv
  <2>2. CASE ~Present(use[u].mailbox)
    BY <1>0, <1>3, <2>1, <2>2, StoreStays DEF EndUse, Marks
  <2>3. CASE Present(use[u].mailbox)
    <3>1. Notes(u) \in {"active", "auth_error"}
      BY <2>1, <2>3 DEF Notes, Present, CredInv, Typed, CredentialsTypeOK
    <3>2. mailboxStatus' = [mailboxStatus EXCEPT ![use[u].mailbox] = Notes(u)]
      BY <1>3, <2>3 DEF EndUse, Marks
    <3> QED  BY <1>0, <2>1, <2>3, <3>1, <3>2, StatusIsNoted
  <2> QED  BY <2>2, <2>3
<1>4. ASSUME NEW u \in Use, Answered(u) PROVE StoreGoesForward
  <2>1. UNCHANGED stored \/ (asked[use[u].provider] # 0 /\ Saved(use[u].provider[1], use[u].mailbox, use[u].provider))
    BY <1>4 DEF Answered, Adopts, StepsAside, Orphaned
  <2> QED  BY <1>0, <1>1, <1>4, <2>1, SavingMoves DEF Answered
<1>5. ASSUME NEW s \in Server, Reconnect(s) PROVE StoreGoesForward
  <2>0. PICK m : m = granting[s].mailbox
    OBVIOUS
  <2>1. /\ m \in Mailbox /\ Present(m) /\ granting[s].at = "granted"
        /\ granting[s].client \in OAuthApp /\ granting[s].serial <= issued
        /\ granting[s] \in Granting /\ granting' = [granting EXCEPT ![s] = NoGrant]
    BY <1>5, <2>0 DEF Reconnect, CredInv, GrantsAreSound, Typed, CredentialsTyped
  <2>2. PICK n : n = granting[s].serial
    OBVIOUS
  <2>3. n \in 0..MaxSerial /\ n <= issued /\ issued \in Nat /\ issued' = issued
    BY <1>5, <2>1, <2>2, CredentialsAssumption DEF Granting, Reconnect, outsideVars, CredInv, Typed, CredentialsTypeOK
  <2>4. stored \in [Mailbox -> Credential] /\ stored[m].revision \in Nat
    BY <2>1, CredentialFields DEF CredInv, Typed, CredentialsTypeOK
  <2> DEFINE entry == [grant |-> n, serial |-> n, client |-> granting[s].client, revision |-> stored[m].revision + 1]
  <2>5. stored' = [stored EXCEPT ![m] = entry] /\ mailboxStatus' = [mailboxStatus EXCEPT ![m] = "active"]
    BY <1>5, <2>0, <2>1, <2>2, <2>4 DEF Reconnect
  <2>6. entry \in Credential /\ entry # NoCredential
        /\ entry.grant = n /\ entry.serial = n /\ entry.revision = stored[m].revision + 1
    BY <2>1, <2>3, <2>4 DEF Credential, NoCredential
  <2> HIDE DEF entry
  <2>7. stored'[m] = entry /\ stored' \in [Mailbox -> Credential] /\ \A w \in Mailbox \ {m} : stored'[w] = stored[w]
    BY <2>1, <2>4, <2>5, <2>6
  <2>8. ReconnectedBy(s, m)
    <3>1. granting'[s] = NoGrant
      BY <2>1 DEF CredInv, Typed, CredentialsTyped
    <3> QED  BY <2>0, <2>1, <2>2, <2>6, <2>7, <3>1, NoGrantIsOne DEF ReconnectedBy
  <2>9. \A w \in Mailbox : stored[w].serial \in Nat /\ stored[w].grant \in Nat
                           /\ stored[w].serial <= issued /\ stored[w].grant <= issued
    BY <2>4, CredentialFields, CredentialsAssumption DEF CredInv, IssuedSoFar, SoFar
  <2>10. /\ mailboxStatus' \in [Mailbox -> {"absent", "active", "auth_error"}]
         /\ mailboxStatus'[m] # "absent" /\ \A w \in Mailbox \ {m} : mailboxStatus'[w] = mailboxStatus[w]
    BY <2>1, <2>5 DEF CredInv, Typed, CredentialsTypeOK
  <2>11. \A w \in Mailbox : (mailboxStatus[w] = "absent") <=> (stored[w] = NoCredential)
    BY DEF CredInv, Typed, CredentialsTypeOK
  <2>12. \A w \in Mailbox : stored'[w].grant <= issued' /\ stored'[w].serial <= issued'
    BY <2>3, <2>6, <2>7, <2>9
  <2>13. \A w \in Mailbox : mailboxStatus'[w] # "absent" =>
           /\ Present(w)
           /\ stored'[w] = stored[w] \/ stored'[w].revision > stored[w].revision
           /\ \/ stored'[w].grant = stored[w].grant /\ stored'[w].serial >= stored[w].serial
              \/ \E r \in Server : ReconnectedBy(r, w)
    <3> SUFFICES ASSUME NEW w \in Mailbox, mailboxStatus'[w] # "absent"
                 PROVE  /\ Present(w)
                        /\ stored'[w] = stored[w] \/ stored'[w].revision > stored[w].revision
                        /\ \/ stored'[w].grant = stored[w].grant /\ stored'[w].serial >= stored[w].serial
                           \/ \E r \in Server : ReconnectedBy(r, w)
      OBVIOUS
    <3>1. CASE w = m
      BY <2>1, <2>4, <2>6, <2>7, <2>8, <3>1
    <3>2. CASE w # m
      BY <2>7, <2>9, <2>10, <3>2 DEF Present
    <3> QED  BY <3>1, <3>2
  <2>14. \A w \in Mailbox : (mailboxStatus'[w] = "absent") <=> (stored'[w] = NoCredential)
    BY <2>6, <2>7, <2>10, <2>11
  <2> QED
    BY <2>7, <2>10, <2>12, <2>13, <2>14 DEF StoreGoesForward
<1>6. ASSUME NEW s \in Server, NEW m \in Mailbox, Remove(s, m) PROVE StoreGoesForward
  <2>1. /\ stored' \in [Mailbox -> Credential] /\ stored'[m] = NoCredential
        /\ \A w \in Mailbox \ {m} : stored'[w] = stored[w]
    BY <1>6, NoCredentialIsOne DEF Remove, CredInv, Typed, CredentialsTypeOK
  <2>2. /\ mailboxStatus' \in [Mailbox -> {"absent", "active", "auth_error"}]
        /\ mailboxStatus'[m] = "absent" /\ \A w \in Mailbox \ {m} : mailboxStatus'[w] = mailboxStatus[w]
    BY <1>6 DEF Remove, CredInv, Typed, CredentialsTypeOK
  <2>3. \A w \in Mailbox : stored[w].serial \in Nat /\ stored[w].serial <= issued /\ stored[w].grant <= issued
    BY CredentialFields, CredentialsAssumption DEF CredInv, Typed, CredentialsTypeOK, IssuedSoFar, SoFar
  <2>4. NoCredential.grant = 0 /\ NoCredential.serial = 0 /\ issued \in Nat /\ issued' = issued
    BY <1>6, CredentialsAssumption DEF NoCredential, Remove, outsideVars, CredInv, Typed, CredentialsTypeOK
  <2>5. \A w \in Mailbox : (mailboxStatus'[w] = "absent") <=> (stored'[w] = NoCredential)
    BY <2>1, <2>2 DEF CredInv, Typed, CredentialsTypeOK
  <2>6. \A w \in Mailbox : stored'[w].grant <= issued' /\ stored'[w].serial <= issued'
    BY <2>1, <2>3, <2>4
  <2>7. \A w \in Mailbox : mailboxStatus'[w] # "absent" =>
          /\ Present(w) /\ stored'[w] = stored[w]
          /\ stored'[w].grant = stored[w].grant /\ stored'[w].serial >= stored[w].serial
    BY <2>1, <2>2, <2>3 DEF Present
  <2> QED
    BY <2>1, <2>2, <2>5, <2>6, <2>7 DEF StoreGoesForward
<1>7. ASSUME NEW s \in Server, PinMicrosoft(s) PROVE StoreGoesForward
  BY <1>0, <1>7, PinningMoves
<1>8. ASSUME NEW s \in Server, NEW m \in Mailbox, BeginReconnect(s, m) PROVE StoreGoesForward
  BY <1>1, <1>8 DEF BeginReconnect, storeVars
<1>9. ASSUME NEW s \in Server, ExchangeCode(s) \/ GivesUp(s) \/ BeginSetMicrosoft(s) \/ SetMicrosoft(s) \/ Restart(s)
      PROVE  StoreGoesForward
  BY <1>1, <1>9 DEF ExchangeCode, GivesUp, BeginSetMicrosoft, SetMicrosoft, Restart, storeVars
<1>10. ASSUME NEW m, SetGoogle \/ Revoke(m) PROVE StoreGoesForward
  BY <1>1, <1>10 DEF SetGoogle, Revoke, storeVars
<1>11. CASE Changes
  BY <1>6, <1>8, <1>9, <1>10, <1>11 DEF Changes
<1>12. CASE Finishes
  BY <1>5, <1>7, <1>9, <1>12 DEF Finishes
<1>13. ASSUME NEW u \in Use, Begins(u) \/ Refresh(u) \/ Performs(u) \/ FailUse(u) PROVE StoreGoesForward
  BY <1>1, <1>13 DEF Begins, BeginCached, BeginBuilt, Refresh, Performs, FailUse, storeVars
<1> QED
  BY <1>2, <1>3, <1>4, <1>11, <1>12, <1>13 DEF CredentialsNext, Calls

\* Nobody is let go of.
CallsStay ==
  /\ \A w \in Use : use[w].at # "idle" => use'[w].at # "idle" /\ use'[w].provider = use[w].provider
  /\ \A r \in Server, n \in Mailbox : cached[r][n] # None =>
       \/ cached'[r][n] = cached[r][n]
       \/ \E w \in Use : use'[w].at # "idle" /\ use'[w].provider = cached[r][n]

LEMMA SameHeld ==
  ASSUME Typed, CallsStay, Held' \subseteq Held PROVE Held' = Held
<1> SUFFICES ASSUME NEW i \in Held PROVE i \in Held'
  OBVIOUS
<1>0. i # None
  BY HeldServes, ProvidersAreMade
<1>1. CASE \E r \in Server, n \in Mailbox : cached[r][n] = i
  BY <1>0, <1>1 DEF CallsStay, Held, Uses
<1>2. CASE \E w \in Use : use[w].at # "idle" /\ use[w].provider = i
  BY <1>0, <1>2 DEF CallsStay, Held, Uses
<1> QED  BY <1>1, <1>2 DEF Held, Uses

\* No object does anything: those that are kept stay as they are.
ObjectsWait ==
  /\ memory' \in [Held' -> Credential] /\ asked' \in [Held' -> (0..MaxSerial) \cup {None}]
  /\ \A i \in Held' : memory'[i] = memory[i] /\ asked'[i] = asked[i]
  /\ \A s \in Server, m \in Mailbox : cached'[s][m] # None => cachedRevision'[s][m] = cachedRevision[s][m]

LEMMA OthersWait ==
  ASSUME CredInv, NEW u, NEW s, NEW m, ObjectsAreLeft(u, s, m)
  PROVE  ObjectsWait
<1>0. Held' \subseteq Held /\ Typed
  BY ReachMoves DEF BuildsNothing, CredInv
<1>t. /\ cached \in [Server -> [Mailbox -> Provider \cup {None}]]
      /\ cachedRevision \in [Server -> [Mailbox -> Nat]]
      /\ memory \in [Held -> Credential] /\ asked \in [Held -> (0..MaxSerial) \cup {None}]
  BY DEF CredInv, Typed, CredentialsTypeOK
<1>1. ASSUME UNCHANGED objectVars, CallsStay PROVE ObjectsWait
  <2>1. Held' = Held
    BY <1>0, <1>1, SameHeld
  <2>2. memory' = memory /\ asked' = asked /\ cachedRevision' = cachedRevision
    BY <1>1 DEF objectVars
  <2> QED  BY <1>t, <2>1, <2>2 DEF ObjectsWait
<1>2. ASSUME UNCHANGED <<use, cached>> PROVE CallsStay
  BY <1>2 DEF CallsStay
<1>3. CASE UNCHANGED <<use, objectVars>>
  BY <1>1, <1>2, <1>3 DEF objectVars
<1>4. ASSUME u \in Use, s \in Server, m \in Mailbox, BeginCached(u, s, m) PROVE ObjectsWait
  <2>1. \A w \in Use \ {u} : use'[w] = use[w]
    BY <1>0, <1>4 DEF BeginCached, Starts, Typed, CredentialsTyped
  <2>2. use[u].at = "idle" /\ UNCHANGED objectVars
    BY <1>4 DEF BeginCached, Fresh
  <2> QED  BY <1>1, <2>1, <2>2 DEF CallsStay, objectVars
<1>5. ASSUME u \in Use, Performs(u) PROVE ObjectsWait
  <2>1. \A w \in Use \ {u} : use'[w] = use[w]
    BY <1>0, <1>5 DEF Performs, Reaches, Typed, CredentialsTyped
  <2>2. PICK place \in {"served", "refused"} : use'[u] = [use[u] EXCEPT !.at = place]
    BY <1>0, <1>5 DEF Performs, Reaches, Typed, CredentialsTyped
  <2>3. use[u].at # "idle" /\ UNCHANGED objectVars
    BY <1>5 DEF Performs
  <2>4. use'[u].at # "idle" /\ use'[u].provider = use[u].provider
    BY <1>0, <2>2, <2>3, UseFields
  <2> QED  BY <1>1, <2>1, <2>3, <2>4 DEF CallsStay, objectVars
<1>6. ASSUME Collects,
             \A r \in Server, n \in Mailbox : cached'[r][n] # None => cachedRevision'[r][n] = cachedRevision[r][n]
      PROVE  ObjectsWait
  BY <1>0, <1>6, CollectsKeep DEF ObjectsWait
<1>7. ASSUME NEW k, Evicts(s, k)
      PROVE  \A r \in Server, n \in Mailbox : cached'[r][n] # None => cachedRevision'[r][n] = cachedRevision[r][n]
  BY <1>7, <1>t DEF Evicts, CachesAt
<1>8. CASE EndUse(u) \/ FailUse(u)
  BY <1>6, <1>8 DEF EndUse, FailUse
<1>9. CASE Reconnect(s) \/ Remove(s, m)
  BY <1>6, <1>7, <1>9 DEF Reconnect, Remove
<1>10. CASE Restart(s)
  BY <1>6, <1>10, <1>t DEF Restart
<1>11. CASE \/ BeginRefused(m) \/ Revoke(m) \/ BeginReconnect(s, m) \/ BeginSetMicrosoft(s) \/ PinMicrosoft(s)
           \/ SetMicrosoft(s) \/ ExchangeCode(s) \/ GivesUp(s) \/ SetGoogle
  BY <1>3, <1>11
     DEF BeginRefused, Revoke, BeginReconnect, BeginSetMicrosoft, PinMicrosoft, SetMicrosoft, ExchangeCode, GivesUp, SetGoogle
<1> QED  BY <1>4, <1>5, <1>8, <1>9, <1>10, <1>11 DEF ObjectsAreLeft

\* The objects' part of the invariant.
ObjectsSound ==
  /\ memory \in [Held -> Credential] /\ asked \in [Held -> (0..MaxSerial) \cup {None}]
  /\ OneMailboxEach /\ CacheKnowsRevision /\ NeverAhead /\ IssuedSoFar

LEMMA KeptIsNotAhead ==
  ASSUME CredInv, StoreGoesForward, NEW i \in Held, NEW m \in Mailbox, Serves(i, m), Present(m)',
         memory'[i].revision = memory[i].revision, memory'[i].grant = memory[i].grant,
         memory'[i].serial = memory[i].serial
  PROVE  NotAhead(i, m)'
<1>1. memory[i].revision \in Nat /\ stored[m].revision \in Nat /\ stored'[m].revision \in Nat
  BY CredentialFields DEF CredInv, Typed, CredentialsTypeOK, StoreGoesForward
<1>2. Present(m) /\ i \in Provider
  BY HeldServes DEF StoreGoesForward, Present, CredInv
<1>3. stored'[m] = stored[m] \/ stored'[m].revision > stored[m].revision
  BY DEF StoreGoesForward, Present
<1>4. NotAhead(i, m)
  BY <1>2 DEF CredInv, NeverAhead
<1> QED  BY <1>1, <1>3, <1>4 DEF NotAhead

LEMMA KeptIsIssued ==
  ASSUME CredInv, IssuesInOrder, NEW i \in Held, memory'[i] = memory[i], asked'[i] = asked[i]
  PROVE  SoFar(memory[i])' /\ AsksRightly(i)'
<1>1. /\ memory[i].grant \in 0..MaxSerial /\ memory[i].serial \in 0..MaxSerial
      /\ asked[i] \in (0..MaxSerial) \cup {None}
  BY CredentialFields DEF CredInv, Typed, CredentialsTypeOK
<1>2. issued \in Nat /\ issued' \in Nat /\ issued <= issued'
  BY CredentialsAssumption DEF IssuesInOrder, CredInv, Typed, CredentialsTypeOK
<1>3. SoFar(memory[i]) /\ AsksRightly(i)
  BY DEF CredInv, IssuedSoFar
<1>4. issuer'[memory[i].grant] = issuer[memory[i].grant]
  BY <1>1, <1>2, <1>3 DEF IssuesInOrder, SoFar
<1> QED  BY <1>1, <1>2, <1>3, <1>4 DEF SoFar, AsksRightly

LEMMA WaitingIsSound ==
  ASSUME CredInv, StoreGoesForward, IssuesInOrder, CachesForget, ObjectsWait, Held' \subseteq Held,
         \A i \in Provider, n \in Mailbox : Serves(i, n)' => Serves(i, n)
  PROVE  ObjectsSound'
<1>1. OneMailboxEach'
  BY DEF CredInv, OneMailboxEach
<1>2. \A s \in Server, m \in Mailbox : cached'[s][m] # None => cached'[s][m] \in Held'
  BY DEF Held
<1>3. CacheKnowsRevision'
  BY <1>2 DEF CredInv, CacheKnowsRevision, CachesForget, ObjectsWait
<1>4. \A i \in Provider, m \in Mailbox : Serves(i, m)' => i \in Held'
  BY ProvidersAreMade DEF Serves, Held
<1>5. NeverAhead'
  BY <1>4, KeptIsNotAhead DEF NeverAhead, ObjectsWait
<1>6. IssuedSoFar'
  <2>1. \A i \in Held' : SoFar(memory[i])' /\ AsksRightly(i)'
    BY KeptIsIssued DEF ObjectsWait
  <2>2. \A m \in Mailbox : SoFar(stored[m])'
    BY DEF StoreGoesForward, SoFar
  <2> QED  BY <2>1, <2>2 DEF IssuedSoFar
<1> QED  BY <1>1, <1>3, <1>5, <1>6 DEF ObjectsSound, ObjectsWait

\* One object moves, the others wait.
LEMMA OneObjectMoves ==
  ASSUME CredInv, StoreGoesForward, IssuesInOrder, Held' = Held, NEW o \in Held,
         memory' \in [Held -> Credential], asked' \in [Held -> (0..MaxSerial) \cup {None}],
         \A i \in Held \ {o} : memory'[i] = memory[i] /\ asked'[i] = asked[i],
         \A i \in Provider, n \in Mailbox : Serves(i, n)' => Serves(i, n),
         CacheKnowsRevision',
         SoFar(memory[o])', AsksRightly(o)',
         \A m \in Mailbox : Serves(o, m) /\ Present(m)' => NotAhead(o, m)'
  PROVE  ObjectsSound'
<1>1. OneMailboxEach'
  BY DEF CredInv, OneMailboxEach
<1>2. \A i \in Provider, m \in Mailbox : Serves(i, m)' => i \in Held
  BY HeldServes DEF CredInv
<1>3. \A i \in Held \ {o}, m \in Mailbox : Serves(i, m) /\ Present(m)' => NotAhead(i, m)'
  BY KeptIsNotAhead
<1>4. NeverAhead'
  BY <1>2, <1>3 DEF NeverAhead
<1>5. IssuedSoFar'
  <2>1. \A i \in Held \ {o} : SoFar(memory[i])' /\ AsksRightly(i)'
    BY KeptIsIssued
  <2>2. \A m \in Mailbox : SoFar(stored[m])'
    BY DEF StoreGoesForward, SoFar
  <2> QED  BY <2>1, <2>2 DEF IssuedSoFar
<1> QED  BY <1>1, <1>4, <1>5 DEF ObjectsSound

LEMMA RefreshIsSound ==
  ASSUME CredInv, StoreGoesForward, IssuesInOrder, NEW u \in Use, Refresh(u)
  PROVE  ObjectsSound'
<1>0. PICK o : o = use[u].provider
  OBVIOUS
<1> DEFINE client == ClientOf(use[u].mailbox, memory[o].client)
<1>1. Held' = Held
  BY DEF Refresh, Held, Uses
<1>2. \A i \in Provider, n \in Mailbox : Serves(i, n)' => Serves(i, n)
  BY DEF Refresh, Serves, Uses
<1>3. o \in Held /\ use[u].mailbox \in Mailbox
  BY <1>0, HeldServes DEF Refresh, CredInv
<1>4. /\ memory \in [Held -> Credential] /\ asked \in [Held -> (0..MaxSerial) \cup {None}]
      /\ memory[o] \in Credential /\ issued \in Nat /\ issued \in 0..MaxSerial
  BY <1>3, CredentialsAssumption DEF CredInv, Typed, CredentialsTypeOK
<1>5. /\ memory[o].grant \in 0..MaxSerial /\ memory[o].serial \in 0..MaxSerial
      /\ memory[o].grant <= issued /\ memory[o].serial <= issued
  BY <1>3, <1>4, CredentialFields DEF CredInv, IssuedSoFar, SoFar
<1>6. client \in OAuthApp
  BY <1>0, <1>3, <1>4, CredentialFields, CredentialsAssumption DEF Refresh, ClientOf, AppFor, CredInv, Typed, CredentialsTypeOK
<1>7. UNCHANGED <<cached, cachedRevision, stored, mailboxStatus, issuer>>
  BY DEF Refresh, storeVars
<1>8. CASE /\ issuer[memory[o].grant] = client /\ issued' = issued + 1
           /\ asked' = [asked EXCEPT ![o] = issued + 1]
           /\ memory' = [memory EXCEPT ![o].client = client]
  <2> HIDE DEF client
  <2> DEFINE c == [memory[o] EXCEPT !.client = client]
  <2>1. c \in Credential /\ c.grant = memory[o].grant /\ c.serial = memory[o].serial
        /\ c.client = client /\ c.revision = memory[o].revision
    BY <1>4, <1>6, CredentialFields
  <2>2. memory' = [memory EXCEPT ![o] = c]
    BY <1>8
  <2> HIDE DEF c
  <2>3. /\ memory' \in [Held -> Credential] /\ memory'[o] = c
        /\ \A i \in Held \ {o} : memory'[i] = memory[i]
    BY <1>3, <1>4, <2>1, <2>2
  <2>4. issued + 1 \in 0..MaxSerial
    BY <1>8 DEF IssuesInOrder
  <2>5. /\ asked' \in [Held -> (0..MaxSerial) \cup {None}] /\ asked'[o] = issued + 1
        /\ \A i \in Held \ {o} : asked'[i] = asked[i]
    BY <1>3, <1>4, <1>8, <2>4
  <2>6. CacheKnowsRevision'
    <3>1. \A i \in Held : memory'[i].revision = memory[i].revision
      BY <2>1, <2>3
    <3> QED  BY <1>7, <3>1, HeldServes DEF CredInv, CacheKnowsRevision
  <2>7. SoFar(memory[o])' /\ AsksRightly(o)'
    BY <1>4, <1>5, <1>6, <1>7, <1>8, <2>1, <2>3, <2>5, CredentialsAssumption DEF SoFar, AsksRightly
  <2>8. \A m \in Mailbox : Serves(o, m) /\ Present(m)' => NotAhead(o, m)'
    BY <1>3, <2>1, <2>3, KeptIsNotAhead
  <2> QED  BY <1>1, <1>2, <1>3, <2>3, <2>5, <2>6, <2>7, <2>8, OneObjectMoves
<1>9. CASE asked' = [asked EXCEPT ![o] = 0] /\ UNCHANGED <<issued, memory>>
  <2> HIDE DEF client
  <2>1. /\ asked' \in [Held -> (0..MaxSerial) \cup {None}] /\ asked'[o] = 0
        /\ \A i \in Held \ {o} : asked'[i] = asked[i]
    BY <1>3, <1>4, <1>9, CredentialsAssumption
  <2>2. CacheKnowsRevision'
    BY <1>7, <1>9 DEF CredInv, CacheKnowsRevision
  <2>3. SoFar(memory[o])' /\ AsksRightly(o)'
    BY <1>5, <1>9, <2>1 DEF SoFar, AsksRightly
  <2>4. \A m \in Mailbox : Serves(o, m) /\ Present(m)' => NotAhead(o, m)'
    BY <1>3, <1>9, KeptIsNotAhead
  <2>5. memory' \in [Held -> Credential] /\ \A i \in Held \ {o} : memory'[i] = memory[i]
    BY <1>4, <1>9
  <2> QED  BY <1>1, <1>2, <1>3, <2>1, <2>2, <2>3, <2>4, <2>5, OneObjectMoves
<1> QED  BY <1>0, <1>8, <1>9 DEF Refresh

\* The cache follows the object that it holds.
LEMMA FollowingIsSound ==
  ASSUME CredInv, NEW o \in Held, NEW m \in Mailbox, Serves(o, m), NEW revision \in Nat,
         UNCHANGED cached, Follows(o[1], m, o, revision), memory'[o].revision = revision,
         \A i \in Held \ {o} : memory'[i] = memory[i]
  PROVE  CacheKnowsRevision'
<1>1. o \in Provider /\ o[1] \in Server
  BY HeldServes, ProvidersAreMade DEF CredInv
<1>2. cachedRevision \in [Server -> [Mailbox -> Nat]]
  BY DEF CredInv, Typed, CredentialsTypeOK
<1> SUFFICES ASSUME NEW s \in Server, NEW n \in Mailbox, cached[s][n] # None
             PROVE  cached[s][n][1] = s /\ cachedRevision'[s][n] = memory'[cached[s][n]].revision
  BY DEF CacheKnowsRevision
<1>3. cached[s][n][1] = s /\ cachedRevision[s][n] = memory[cached[s][n]].revision
      /\ cached[s][n] \in Held /\ Serves(cached[s][n], n)
  BY HeldServes DEF CredInv, CacheKnowsRevision
<1>4. CASE cached[s][n] = o
  <2>1. s = o[1] /\ n = m
    BY <1>1, <1>3, <1>4 DEF CredInv, OneMailboxEach
  <2>2. cachedRevision'[s][n] = revision
    BY <1>1, <1>2, <1>4, <2>1 DEF Follows
  <2> QED  BY <1>3, <1>4, <2>2
<1>5. CASE cached[s][n] # o
  <2>1. cachedRevision'[s][n] = cachedRevision[s][n]
    BY <1>1, <1>2, <1>5 DEF Follows
  <2> QED  BY <1>3, <1>5, <2>1
<1> QED  BY <1>4, <1>5

\* Whatever the answer, everybody who was reached is.
LEMMA AnsweringKeeps ==
  ASSUME CredInv, NEW u \in Use, Answered(u)
  PROVE  Held' = Held
<1>1. Held' \subseteq Held /\ Typed
  BY ReachMoves DEF BuildsNothing, CredInv
<1>2. CASE UNCHANGED <<use, cached>>
  BY <1>1, <1>2, SameHeld DEF CallsStay
<1>3. ASSUME NEW n, NEW i, Fail(n, i, "refused"), UNCHANGED cached PROVE Held' = Held
  <2>1. \A w \in Use : \/ use'[w] = use[w]
                       \/ use[w].at = "started" /\ use'[w] = [use[w] EXCEPT !.at = "refused"]
    BY <1>3 DEF Fail
  <2>2. \A w \in Use : use[w].at # "idle" => use'[w].at # "idle" /\ use'[w].provider = use[w].provider
    BY <1>1, <2>1, UseFields
  <2> QED  BY <1>1, <1>3, <2>2, SameHeld DEF CallsStay
<1>4. CASE StepsAside(use[u].provider[1], use[u].mailbox, use[u].provider)
  <2>1. \A r \in Server, n \in Mailbox : cached'[r][n] = cached[r][n] \/ cached[r][n] = use[u].provider
    BY <1>4 DEF StepsAside, CredInv, Typed, CredentialsTypeOK
  <2>2. UNCHANGED use /\ use[u].at # "idle"
    BY <1>4 DEF StepsAside, Answered
  <2>3. CallsStay
    BY <2>1, <2>2 DEF CallsStay
  <2> QED  BY <1>1, <2>3, SameHeld
<1> QED  BY <1>2, <1>3, <1>4 DEF Answered, Saved, Adopts, Orphaned

LEMMA AnswerIsSound ==
  ASSUME CredInv, StoreGoesForward, IssuesInOrder, NEW u \in Use, Answered(u)
  PROVE  ObjectsSound'
<1>0. PICK o : o = use[u].provider
  OBVIOUS
<1>1. PICK m : m = use[u].mailbox
  OBVIOUS
<1>2. use[u].at # "idle" /\ asked[o] # None
  BY <1>0 DEF Answered
<1>3. /\ o \in Held /\ o \in Provider /\ o[1] \in Server /\ m \in Mailbox /\ Serves(o, m)
      /\ memory[o] \in Credential /\ stored[m] \in Credential /\ asked[o] \in 0..MaxSerial
  BY <1>0, <1>1, <1>2, AnswerFacts
<1>4. Held' = Held /\ \A i \in Provider, n \in Mailbox : Serves(i, n)' => Serves(i, n)
  BY AnsweringKeeps, ReachMoves DEF BuildsNothing
<1>5. /\ asked' \in [Held -> (0..MaxSerial) \cup {None}] /\ asked'[o] = None
      /\ \A i \in Held \ {o} : asked'[i] = asked[i]
  BY <1>0, <1>3 DEF Answered, CredInv, Typed, CredentialsTypeOK
<1>6. AsksRightly(o)'
  BY <1>5 DEF AsksRightly
<1>7. memory \in [Held -> Credential]
  BY DEF CredInv, Typed, CredentialsTypeOK
<1>8. issued \in Nat /\ issued' \in Nat /\ issued <= issued'
  BY CredentialsAssumption DEF IssuesInOrder, CredInv, Typed, CredentialsTypeOK
\* The object has what is stored,
<1>9. ASSUME NEW c \in Credential, memory' = [memory EXCEPT ![o] = c],
             c.revision = stored'[m].revision, c.grant = stored'[m].grant, c.serial = stored'[m].serial,
             UNCHANGED cached, Follows(o[1], m, o, c.revision)
      PROVE  ObjectsSound'
  <2>1. /\ memory' \in [Held -> Credential] /\ memory'[o] = c
        /\ \A i \in Held \ {o} : memory'[i] = memory[i]
    BY <1>3, <1>7, <1>9
  <2>2. c.revision \in Nat /\ c.grant \in 0..MaxSerial
    BY CredentialFields
  <2>3. CacheKnowsRevision'
    BY <1>3, <1>9, <2>1, <2>2, FollowingIsSound
  <2>4. SoFar(memory[o])'
    BY <1>3, <1>9, <2>1 DEF SoFar, StoreGoesForward
  <2>5. \A n \in Mailbox : Serves(o, n) /\ Present(n)' => NotAhead(o, n)'
    <3>1. \A n \in Mailbox : Serves(o, n) => n = m
      BY <1>3 DEF CredInv, OneMailboxEach
    <3>2. NotAhead(o, m)'
      BY <1>9, <2>1, <2>2 DEF NotAhead
    <3> QED  BY <3>1, <3>2
  <2> QED  BY <1>3, <1>4, <1>5, <1>6, <2>1, <2>3, <2>4, <2>5, OneObjectMoves
\* or stays as it is.
<1>10. ASSUME UNCHANGED <<memory, cachedRevision>>,
              \A s \in Server, n \in Mailbox : cached'[s][n] # None => cached'[s][n] = cached[s][n]
       PROVE  ObjectsSound'
  <2>1. CacheKnowsRevision'
    BY <1>10 DEF CredInv, CacheKnowsRevision
  <2>2. SoFar(memory[o])'
    <3>1. SoFar(memory[o]) /\ memory[o].grant \in Nat /\ memory[o].serial \in Nat
      BY <1>3, CredentialFields, CredentialsAssumption DEF CredInv, IssuedSoFar
    <3> QED  BY <1>8, <1>10, <3>1 DEF SoFar
  <2>3. \A n \in Mailbox : Serves(o, n) /\ Present(n)' => NotAhead(o, n)'
    BY <1>3, <1>10, KeptIsNotAhead
  <2> QED  BY <1>3, <1>4, <1>5, <1>6, <1>7, <1>10, <2>1, <2>2, <2>3, OneObjectMoves
<1>11. CASE asked[o] # 0 /\ Saved(o[1], m, o)
  <2> DEFINE client == IF kindOf[m] = "gmail" THEN stored[m].client ELSE memory[o].client
             fresh == [grant |-> memory[o].grant, serial |-> asked[o], revision |-> stored[m].revision + 1,
                       client |-> client]
             c == [fresh EXCEPT !.client = memory[o].client]
  <2>1. /\ stored' = [stored EXCEPT ![m] = fresh] /\ memory' = [memory EXCEPT ![o] = c]
        /\ Follows(o[1], m, o, fresh.revision) /\ UNCHANGED cached
    BY <1>11 DEF Saved
  <2>2. client \in OAuthApp \cup {None} /\ memory[o].client \in OAuthApp \cup {None}
        /\ memory[o].grant \in 0..MaxSerial /\ stored[m].revision + 1 \in Nat
    BY <1>3, CredentialFields
  <2> HIDE DEF client
  <2>3. fresh \in Credential
    BY <1>3, <2>2 DEF Credential
  <2> HIDE DEF fresh
  <2>4. c \in Credential /\ c.grant = fresh.grant /\ c.serial = fresh.serial /\ c.revision = fresh.revision
    BY <2>2, <2>3, CredentialFields
  <2> HIDE DEF c
  <2>5. stored'[m] = fresh
    BY <1>3, <2>1 DEF CredInv, Typed, CredentialsTypeOK
  <2> QED  BY <1>9, <2>1, <2>4, <2>5
<1>12. CASE asked[o] # 0 /\ Adopts(o[1], m, o)
  <2> DEFINE c == IF kindOf[m] = "gmail" THEN [stored[m] EXCEPT !.client = memory[o].client] ELSE stored[m]
  <2>1. memory' = [memory EXCEPT ![o] = c] /\ Follows(o[1], m, o, stored[m].revision) /\ UNCHANGED <<stored, cached>>
    BY <1>12 DEF Adopts
  <2>2. memory[o].client \in OAuthApp \cup {None}
    BY <1>3, CredentialFields
  <2>3. c \in Credential /\ c.grant = stored[m].grant /\ c.serial = stored[m].serial /\ c.revision = stored[m].revision
    BY <1>3, <2>2, CredentialFields
  <2> HIDE DEF c
  <2> QED  BY <1>9, <2>1, <2>3
<1>13. CASE StepsAside(o[1], m, o)
  BY <1>3, <1>10, <1>13 DEF StepsAside, CredInv, Typed, CredentialsTypeOK
<1>14. CASE UNCHANGED <<cached, cachedRevision, memory>>
  BY <1>10, <1>14
<1> QED  BY <1>0, <1>1, <1>11, <1>12, <1>13, <1>14 DEF Answered, Orphaned

\* A new object starts with what is stored, for one mailbox.
LEMMA BuildingIsSound ==
  ASSUME CredInv, StoreGoesForward, IssuesInOrder,
         NEW u \in Use, NEW s \in Server, NEW m \in Mailbox, BeginBuilt(u, s, m)
  PROVE  /\ ObjectsSound' /\ Held' \subseteq Provider
         /\ cached' \in [Server -> [Mailbox -> Provider \cup {None}]]
         /\ cachedRevision' \in [Server -> [Mailbox -> Nat]]
         /\ use' \in [Use -> AnyUse \cup {NoUse}]
         /\ \A w \in Use : use'[w].at # "idle" => use'[w].mailbox \in Mailbox /\ use'[w].provider # None
<1>0. PICK o : o = CHOOSE i \in Provider : i[1] = s /\ i \notin Held
  OBVIOUS
<1>1. o \in Provider /\ o[1] = s /\ o \notin Held /\ o # None
  <2>1. PICK n \in 1..MaxObjects[s] : <<s, n>> \notin Held
    BY DEF BeginBuilt
  <2>2. <<s, n>> \in Provider /\ <<s, n>>[1] = s
    BY DEF Provider
  <2>3. \E i \in Provider : i[1] = s /\ i \notin Held
    BY <2>1, <2>2
  <2> QED  BY <1>0, <2>3, ProvidersAreMade
<1>2. PICK c : c = IF kindOf[m] = "gmail" THEN [stored[m] EXCEPT !.client = ClientOf(m, stored[m].client)] ELSE stored[m]
  OBVIOUS
<1>3. /\ Typed /\ stored \in [Mailbox -> Credential] /\ stored[m] \in Credential
      /\ cached \in [Server -> [Mailbox -> Provider \cup {None}]]
      /\ cachedRevision \in [Server -> [Mailbox -> Nat]]
      /\ memory \in [Held -> Credential] /\ asked \in [Held -> (0..MaxSerial) \cup {None}]
      /\ use \in [Use -> AnyUse \cup {NoUse}]
  BY DEF CredInv, Typed, CredentialsTypeOK, CredentialsTyped
<1>4. c \in Credential /\ c.grant = stored[m].grant /\ c.serial = stored[m].serial /\ c.revision = stored[m].revision
  <2>1. ClientOf(m, stored[m].client) \in OAuthApp \cup {None}
    BY <1>3, CredentialFields, CredentialsAssumption DEF ClientOf, AppFor, Typed, CredentialsTypeOK
  <2> QED  BY <1>2, <1>3, <2>1, CredentialFields
<1>5. /\ use[u].at = "idle"
      /\ use' = [use EXCEPT ![u] = [provider |-> o, mailbox |-> m, seen |-> mailboxStatus[m], at |-> "started"]]
      /\ cached' = [cached EXCEPT ![s][m] = o]
      /\ cachedRevision' = [cachedRevision EXCEPT ![s][m] = stored[m].revision]
      /\ memory' = [j \in Held' |-> IF j # o THEN memory[j] ELSE c]
      /\ asked' = [j \in Held' |-> IF j = o THEN None ELSE asked[j]]
      /\ UNCHANGED <<stored, mailboxStatus, issued>>
  BY <1>0, <1>2 DEF BeginBuilt, Fresh, Starts, CachesAt, storeVars, outsideVars
<1>6. /\ cached' \in [Server -> [Mailbox -> Provider \cup {None}]] /\ cached'[s][m] = o
      /\ \A r \in Server, n \in Mailbox : (r # s \/ n # m) => cached'[r][n] = cached[r][n]
  BY <1>1, <1>3, <1>5
<1>7. /\ cachedRevision' \in [Server -> [Mailbox -> Nat]] /\ cachedRevision'[s][m] = stored[m].revision
      /\ \A r \in Server, n \in Mailbox : (r # s \/ n # m) => cachedRevision'[r][n] = cachedRevision[r][n]
  BY <1>3, <1>5, CredentialFields
<1>8. /\ use' \in [Use -> AnyUse \cup {NoUse}]
      /\ use'[u].provider = o /\ use'[u].mailbox = m /\ use'[u].at = "started"
      /\ \A w \in Use \ {u} : use'[w] = use[w]
  <2>1. [provider |-> o, mailbox |-> m, seen |-> mailboxStatus[m], at |-> "started"] \in AnyUse
    BY <1>1 DEF AnyUse, CredInv, Typed, CredentialsTypeOK
  <2> QED  BY <1>3, <1>5, <2>1
<1>9. \A j \in Held' : j = o \/ j \in Held
  <2> SUFFICES ASSUME NEW j \in Held', j # o PROVE j \in Held
    OBVIOUS
  <2>1. CASE \E r \in Server, n \in Mailbox : cached'[r][n] = j /\ j # None
    BY <1>3, <1>6, <2>1, HeldServes
  <2>2. CASE \E w \in Use : use'[w].at # "idle" /\ use'[w].provider = j
    BY <1>3, <1>8, <2>2, HeldServes
  <2> QED  BY <2>1, <2>2 DEF Held, Uses
<1>10. o \in Held'
  BY <1>1, <1>6 DEF Held
<1>11. \A j \in Provider, n \in Mailbox : Serves(j, n)' => (j = o /\ n = m) \/ (j # o /\ Serves(j, n))
  <2> SUFFICES ASSUME NEW j \in Provider, NEW n \in Mailbox, Serves(j, n)'
               PROVE  (j = o /\ n = m) \/ (j # o /\ Serves(j, n))
    OBVIOUS
  <2>1. Serves(j, n) => j # o
    BY <1>1, <1>3, HeldServes
  <2>2. CASE \E r \in Server : cached'[r][n] = j
    BY <1>6, <2>1, <2>2 DEF Serves
  <2>3. CASE \E w \in Use : use'[w].at # "idle" /\ use'[w].provider = j /\ use'[w].mailbox = n
    BY <1>8, <2>1, <2>3 DEF Serves, Uses
  <2> QED  BY <2>2, <2>3 DEF Serves, Uses
<1>12. \A j \in Provider, n \in Mailbox : Serves(j, n)' => j \in Held'
  BY ProvidersAreMade DEF Serves, Held
<1>13. /\ memory'[o] = c /\ asked'[o] = None
       /\ \A j \in Held' : j # o => j \in Held /\ memory'[j] = memory[j] /\ asked'[j] = asked[j]
  BY <1>5, <1>9, <1>10
<1>14. memory' \in [Held' -> Credential] /\ asked' \in [Held' -> (0..MaxSerial) \cup {None}]
  BY <1>3, <1>4, <1>5, <1>9
<1>15. OneMailboxEach'
  BY <1>11 DEF CredInv, OneMailboxEach
<1>16. CacheKnowsRevision'
  <2> SUFFICES ASSUME NEW r \in Server, NEW n \in Mailbox, cached'[r][n] # None
               PROVE  cached'[r][n][1] = r /\ cachedRevision'[r][n] = memory'[cached'[r][n]].revision
    BY DEF CacheKnowsRevision
  <2>1. CASE r = s /\ n = m
    BY <1>1, <1>4, <1>6, <1>7, <1>13, <2>1
  <2>2. CASE r # s \/ n # m
    <3>1. cached'[r][n] = cached[r][n] /\ cachedRevision'[r][n] = cachedRevision[r][n]
      BY <1>6, <1>7, <2>2
    <3>2. cached[r][n] \in Held /\ cached[r][n] # o /\ cached[r][n] \in Held'
      BY <1>1, <1>3, <3>1, HeldServes DEF Held
    <3> QED  BY <1>13, <3>1, <3>2 DEF CredInv, CacheKnowsRevision
  <2> QED  BY <2>1, <2>2
<1>17. NeverAhead'
  <2> SUFFICES ASSUME NEW j \in Provider, NEW n \in Mailbox, Serves(j, n)', Present(n)'
               PROVE  NotAhead(j, n)'
    BY DEF NeverAhead
  <2>1. CASE j = o
    <3>1. n = m /\ stored'[m] = stored[m] /\ c.revision \in Nat
      BY <1>4, <1>5, <1>11, <2>1, CredentialFields
    <3> QED  BY <1>4, <1>13, <2>1, <3>1 DEF NotAhead
  <2>2. CASE j # o
    BY <1>11, <1>12, <1>13, <2>2, KeptIsNotAhead
  <2> QED  BY <2>1, <2>2
<1>18. IssuedSoFar'
  <2>1. SoFar(memory[o])' /\ AsksRightly(o)'
    BY <1>4, <1>5, <1>13 DEF SoFar, AsksRightly, CredInv, IssuedSoFar
  <2>2. \A j \in Held' : j # o => SoFar(memory[j])' /\ AsksRightly(j)'
    BY <1>13, KeptIsIssued
  <2>3. \A n \in Mailbox : SoFar(stored[n])'
    BY DEF StoreGoesForward, SoFar
  <2> QED  BY <2>1, <2>2, <2>3 DEF IssuedSoFar
<1>19. Held' \subseteq Provider
  BY <1>1, <1>3, <1>9, HeldServes
<1>20. \A w \in Use : use'[w].at # "idle" => use'[w].mailbox \in Mailbox /\ use'[w].provider # None
  BY <1>1, <1>3, <1>8, HeldServes, ProvidersAreMade
<1> QED  BY <1>6, <1>7, <1>8, <1>14, <1>15, <1>16, <1>17, <1>18, <1>19, <1>20 DEF ObjectsSound

\* Who changes the application reads it first and writes it down for the mailboxes that
\* do not name theirs.
SettingsGoOn ==
  /\ UNCHANGED kindOf
  /\ app' \in [Kinds -> OAuthApp \cup {None}]
  /\ setting' \in [Server -> [at : {"idle", "pin", "set"}, old : OAuthApp \cup {None}, new : OAuthApp \cup {None}]]
  /\ revoked' \subseteq 0..MaxSerial
  /\ app'["outlook"] = app["outlook"] \/ \E s \in Server : setting[s].at = "set"
  /\ \A s \in Server :
       \/ setting'[s] = setting[s] \/ setting'[s].at = "idle"
       \/ setting'[s].at = "pin" /\ setting'[s].old = app["outlook"]
       \/ app["outlook"] = None \/ PinMicrosoft(s)

LEMMA SettingsMove ==
  ASSUME CredInv, CredentialsNext PROVE SettingsGoOn
<1>t. /\ app \in [Kinds -> OAuthApp \cup {None}] /\ "outlook" \in Kinds /\ revoked \subseteq 0..MaxSerial
      /\ setting \in [Server -> [at : {"idle", "pin", "set"}, old : OAuthApp \cup {None}, new : OAuthApp \cup {None}]]
  BY DEF CredInv, Typed, CredentialsTypeOK, CredentialsTyped, Kinds
<1>1. CASE UNCHANGED <<kindOf, app, setting, revoked>>
  BY <1>1, <1>t DEF SettingsGoOn
<1>2. CASE SetGoogle
  <2>1. PICK a \in (OAuthApp \ {BuiltIn}) \cup {None} : app' = [app EXCEPT !["gmail"] = a]
    BY <1>2 DEF SetGoogle
  <2>2. app' \in [Kinds -> OAuthApp \cup {None}] /\ app'["outlook"] = app["outlook"]
    BY <1>t, <2>1
  <2>3. UNCHANGED <<kindOf, setting, revoked>>
    BY <1>2 DEF SetGoogle, outsideVars
  <2> QED  BY <1>t, <2>2, <2>3 DEF SettingsGoOn
<1>3. ASSUME NEW s \in Server, BeginSetMicrosoft(s) PROVE SettingsGoOn
  <2>1. PICK a \in (OAuthApp \ {BuiltIn}) \cup {None} :
          setting' = [setting EXCEPT ![s] = [at |-> IF app["outlook"] = None THEN "set" ELSE "pin",
                                             old |-> app["outlook"], new |-> a]]
    BY <1>3 DEF BeginSetMicrosoft
  <2>2. app["outlook"] \in OAuthApp \cup {None}
    BY <1>t
  <2>3. UNCHANGED <<kindOf, app, revoked>>
    BY <1>3 DEF BeginSetMicrosoft, outsideVars
  <2> QED  BY <1>t, <2>1, <2>2, <2>3 DEF SettingsGoOn
<1>4. ASSUME NEW s \in Server, PinMicrosoft(s) PROVE SettingsGoOn
  <2>1. setting' = [setting EXCEPT ![s].at = "set"] /\ UNCHANGED <<kindOf, app, revoked>>
    BY <1>4 DEF PinMicrosoft, outsideVars
  <2>2. setting' \in [Server -> [at : {"idle", "pin", "set"}, old : OAuthApp \cup {None}, new : OAuthApp \cup {None}]]
        /\ \A r \in Server \ {s} : setting'[r] = setting[r]
    BY <1>t, <2>1
  <2> QED  BY <1>4, <1>t, <2>1, <2>2 DEF SettingsGoOn
<1>5. ASSUME NEW s \in Server, SetMicrosoft(s) PROVE SettingsGoOn
  <2>1. /\ setting[s].at = "set" /\ UNCHANGED <<kindOf, revoked>>
        /\ app' = [app EXCEPT !["outlook"] = setting[s].new]
        /\ setting' = [setting EXCEPT ![s] = [at |-> "idle", old |-> None, new |-> None]]
    BY <1>5 DEF SetMicrosoft, outsideVars
  <2>2. setting[s].new \in OAuthApp \cup {None}
    BY <1>t
  <2> QED  BY <1>t, <2>1, <2>2 DEF SettingsGoOn
<1>6. ASSUME NEW s \in Server, Restart(s) PROVE SettingsGoOn
  <2>1. /\ UNCHANGED <<kindOf, app, revoked>>
        /\ setting' = [setting EXCEPT ![s] = [at |-> "idle", old |-> None, new |-> None]]
    BY <1>6 DEF Restart, outsideVars
  <2> QED  BY <1>t, <2>1 DEF SettingsGoOn
<1>7. ASSUME NEW m \in Mailbox, Revoke(m) PROVE SettingsGoOn
  <2>1. stored[m].grant \in 0..MaxSerial
    BY CredentialFields DEF CredInv, Typed, CredentialsTypeOK
  <2> QED  BY <1>7, <1>t, <2>1 DEF Revoke, SettingsGoOn
<1>8. ASSUME NEW u \in Use, Begins(u) \/ Calls(u) \/ FailUse(u) PROVE SettingsGoOn
  BY <1>1, <1>8 DEF Begins, BeginCached, BeginBuilt, Calls, Refresh, Answered, Performs, EndUse, FailUse, outsideVars
<1>9. ASSUME NEW m \in Mailbox, BeginRefused(m) PROVE SettingsGoOn
  BY <1>1, <1>9 DEF BeginRefused, outsideVars
<1>10. CASE Changes
  <2>1. ASSUME NEW s \in Server, NEW m \in Mailbox, BeginReconnect(s, m) \/ Remove(s, m) PROVE SettingsGoOn
    BY <1>1, <2>1 DEF BeginReconnect, Remove, outsideVars
  <2> QED  BY <1>2, <1>3, <1>6, <1>7, <1>10, <2>1 DEF Changes
<1>11. ASSUME NEW s \in Server, ExchangeCode(s) \/ Reconnect(s) \/ GivesUp(s) PROVE SettingsGoOn
  BY <1>1, <1>11 DEF ExchangeCode, Reconnect, GivesUp, outsideVars
<1> QED  BY <1>4, <1>5, <1>8, <1>9, <1>10, <1>11 DEF CredentialsNext, Finishes

\* An authorization goes on where it was begun, with the token that is issued for it.
GrantingGoesOn ==
  /\ granting' \in [Server -> Granting]
  /\ \A s \in Server :
       \/ granting'[s] = granting[s] \/ granting'[s].at = "idle"
       \/ granting'[s].at = "asked" /\ granting'[s].mailbox \in Mailbox /\ granting'[s].client \in OAuthApp
       \/ /\ granting'[s].mailbox \in Mailbox /\ granting'[s].client \in OAuthApp
          /\ granting'[s].serial <= issued' /\ issuer'[granting'[s].serial] = granting'[s].client

LEMMA GrantFields ==
  ASSUME NEW g \in Granting
  PROVE  /\ LET d == [g EXCEPT !.at = "granted"]
            IN d \in Granting /\ d.mailbox = g.mailbox /\ d.client = g.client
         /\ \A n \in 0..MaxSerial :
              LET d == [g EXCEPT !.serial = n]
              IN d \in Granting /\ d.mailbox = g.mailbox /\ d.client = g.client /\ d.serial = n
BY DEF Granting

LEMMA GrantingMoves ==
  ASSUME CredInv, CredentialsNext PROVE GrantingGoesOn
<1>t. granting \in [Server -> Granting] /\ issuer \in [0..MaxSerial -> OAuthApp \cup {None}]
      /\ issued \in 0..MaxSerial /\ MaxSerial \in Nat
  BY CredentialsAssumption DEF CredInv, Typed, CredentialsTypeOK, CredentialsTyped
<1>1. CASE UNCHANGED granting
  BY <1>1, <1>t DEF GrantingGoesOn
<1>2. ASSUME NEW s \in Server, granting' = [granting EXCEPT ![s] = NoGrant] PROVE GrantingGoesOn
  BY <1>2, <1>t, NoGrantIsOne DEF GrantingGoesOn
<1>3. ASSUME NEW s \in Server, NEW m \in Mailbox, BeginReconnect(s, m) PROVE GrantingGoesOn
  <2>1. PICK client : client = AppFor(kindOf[m])
    OBVIOUS
  <2>2. client \in OAuthApp
    BY <1>3, <2>1, CredentialsAssumption DEF BeginReconnect, AppFor, CredInv, Typed, CredentialsTypeOK
  <2> DEFINE q == [at |-> "asked", mailbox |-> m, client |-> client, serial |-> 0]
  <2>3. q \in Granting /\ q.at = "asked" /\ q.mailbox = m /\ q.client = client
    BY <2>2, CredentialsAssumption DEF Granting
  <2>4. granting' = [granting EXCEPT ![s] = q]
    BY <1>3, <2>1 DEF BeginReconnect
  <2> HIDE DEF q
  <2>5. granting' \in [Server -> Granting] /\ granting'[s] = q /\ \A n \in Server \ {s} : granting'[n] = granting[n]
    BY <1>t, <2>3, <2>4
  <2> QED  BY <2>2, <2>3, <2>5 DEF GrantingGoesOn
<1>4. ASSUME NEW s \in Server, ExchangeCode(s) PROVE GrantingGoesOn
  <2>1. /\ granting[s] \in Granting /\ granting[s].mailbox \in Mailbox /\ granting[s].client \in OAuthApp
        /\ issued + 1 \in 0..MaxSerial /\ issued' = issued + 1
        /\ issuer' = [issuer EXCEPT ![issued + 1] = granting[s].client]
    BY <1>4, <1>t DEF ExchangeCode, CredInv, GrantsAreSound
  <2> DEFINE d == [granting[s] EXCEPT !.at = "granted"]
             q == [d EXCEPT !.serial = issued + 1]
  <2>2. granting' = [granting EXCEPT ![s] = q]
    BY <1>4, <1>t DEF ExchangeCode
  <2>3. q \in Granting /\ q.mailbox = granting[s].mailbox /\ q.client = granting[s].client /\ q.serial = issued + 1
    <3>1. d \in Granting /\ d.mailbox = granting[s].mailbox /\ d.client = granting[s].client
      BY <2>1, GrantFields
    <3> HIDE DEF d
    <3> QED  BY <2>1, <3>1, GrantFields
  <2> HIDE DEF q
  <2>4. granting' \in [Server -> Granting] /\ granting'[s] = q /\ \A r \in Server \ {s} : granting'[r] = granting[r]
    BY <1>t, <2>2, <2>3
  <2>5. issuer'[issued + 1] = granting[s].client
    BY <1>t, <2>1
  <2> QED  BY <1>t, <2>1, <2>3, <2>4, <2>5 DEF GrantingGoesOn
<1>5. ASSUME NEW s \in Server, Reconnect(s) \/ GivesUp(s) \/ Restart(s) PROVE GrantingGoesOn
  BY <1>2, <1>5 DEF Reconnect, GivesUp, Restart
<1>6. ASSUME NEW u \in Use, Begins(u) \/ Calls(u) \/ FailUse(u) PROVE GrantingGoesOn
  BY <1>1, <1>6 DEF Begins, BeginCached, BeginBuilt, Calls, Refresh, Answered, Performs, EndUse, FailUse
<1> QED
  BY <1>1, <1>3, <1>4, <1>5, <1>6
     DEF CredentialsNext, BeginRefused, Finishes, PinMicrosoft, SetMicrosoft, Changes, Remove, SetGoogle,
         BeginSetMicrosoft, Revoke

LEMMA GrantsStaySound ==
  ASSUME CredInv, IssuesInOrder, GrantingGoesOn PROVE GrantsAreSound'
<1> SUFFICES ASSUME NEW s \in Server, granting'[s].at # "idle"
             PROVE  /\ granting'[s].mailbox \in Mailbox /\ granting'[s].client \in OAuthApp
                    /\ granting'[s].at = "granted" =>
                         /\ granting'[s].serial <= issued'
                         /\ issuer'[granting'[s].serial] = granting'[s].client
  BY DEF GrantsAreSound
<1>1. CASE granting'[s] = granting[s]
  <2>1. /\ granting[s].mailbox \in Mailbox /\ granting[s].client \in OAuthApp
        /\ granting[s].at = "granted" =>
             granting[s].serial <= issued /\ issuer[granting[s].serial] = granting[s].client
    BY <1>1 DEF CredInv, GrantsAreSound
  <2>2. granting[s].serial \in Nat /\ issued \in Nat /\ issued' \in Nat /\ issued <= issued'
    <3>1. granting[s].serial \in 0..MaxSerial
      BY DEF CredInv, Typed, CredentialsTyped, Granting
    <3> QED  BY <3>1, CredentialsAssumption DEF CredInv, Typed, CredentialsTypeOK, IssuesInOrder
  <2>3. granting[s].serial <= issued => issuer'[granting[s].serial] = issuer[granting[s].serial]
    BY <2>2 DEF IssuesInOrder
  <2> QED  BY <1>1, <2>1, <2>2, <2>3
<1>2. CASE granting'[s] # granting[s]
  BY <1>2 DEF GrantingGoesOn
<1> QED  BY <1>1, <1>2

\* A row keeps the application of its grant, or gets the one that was asked for its grant.
RowKeepsApp(m) ==
  Present(m)' /\ kindOf[m] = "outlook" =>
    /\ Present(m)
    /\ \/ stored'[m].client = stored[m].client /\ stored'[m].grant = stored[m].grant
       \/ stored'[m].client \in OAuthApp /\ issuer'[stored'[m].grant] = stored'[m].client

LEMMA RowsKeepApps ==
  ASSUME CredInv, CredentialsNext, NEW m \in Mailbox PROVE RowKeepsApp(m)
<1>t. stored \in [Mailbox -> Credential] /\ issuer \in [0..MaxSerial -> OAuthApp \cup {None}]
  BY DEF CredInv, Typed, CredentialsTypeOK, CredentialsTyped
<1>0. StoreGoesForward /\ IssuesInOrder
  BY StoreMoves, IssuingMoves
<1>p. Present(m)' => Present(m)
  BY <1>0 DEF StoreGoesForward, Present
<1>1. ASSUME stored'[m] = stored[m] PROVE RowKeepsApp(m)
  BY <1>1, <1>p DEF RowKeepsApp
<1>2. ASSUME NEW s \in Server, Reconnect(s) PROVE RowKeepsApp(m)
  <2>1. CASE granting[s].mailbox # m
    BY <1>1, <1>2, <1>t, <2>1 DEF Reconnect
  <2>2. CASE granting[s].mailbox = m
    <3>1. granting[s].client \in OAuthApp /\ issuer[granting[s].serial] = granting[s].client /\ UNCHANGED issuer
      BY <1>2 DEF Reconnect, outsideVars, CredInv, GrantsAreSound
    <3>2. stored'[m].client = granting[s].client /\ stored'[m].grant = granting[s].serial
      BY <1>2, <1>t, <2>2 DEF Reconnect
    <3> QED  BY <1>p, <3>1, <3>2 DEF RowKeepsApp
  <2> QED  BY <2>1, <2>2
<1>3. ASSUME NEW s \in Server, NEW n \in Mailbox, Remove(s, n) PROVE RowKeepsApp(m)
  <2>1. CASE n # m
    BY <1>1, <1>3, <1>t, <2>1 DEF Remove
  <2>2. CASE n = m
    BY <1>3, <2>2 DEF Remove, RowKeepsApp, Present, CredInv, Typed, CredentialsTypeOK
  <2> QED  BY <2>1, <2>2
<1>4. ASSUME NEW s \in Server, PinMicrosoft(s) PROVE RowKeepsApp(m)
  <2>1. CASE m \notin Unpinned(s)
    BY <1>1, <1>4, <2>1 DEF PinMicrosoft
  <2>2. CASE m \in Unpinned(s)
    <3>1. kindOf[m] = "outlook" /\ Present(m) /\ stored[m].client = None
      BY <2>2 DEF Unpinned
    <3>2. setting[s].old = app["outlook"] /\ app["outlook"] # None
      BY <1>4, <3>1 DEF PinMicrosoft, CredInv, UnpinnedAreKnown
    <3>3. app["outlook"] \in OAuthApp /\ issuer[stored[m].grant] = app["outlook"]
      BY <3>1, <3>2 DEF CredInv, KeepsItsApp, ClientOf, AppFor, Typed, CredentialsTypeOK, Kinds
    <3>4. stored'[m] = PinnedTo(stored[m], setting[s].old) /\ UNCHANGED issuer
      BY <1>4, <2>2 DEF PinMicrosoft, PinnedTo, outsideVars
    <3>5. stored'[m].client = app["outlook"] /\ stored'[m].grant = stored[m].grant
      BY <1>t, <3>2, <3>3, <3>4, PinnedRow
    <3> QED  BY <1>p, <3>3, <3>4, <3>5 DEF RowKeepsApp
  <2> QED  BY <2>1, <2>2
<1>5. ASSUME NEW u \in Use, Answered(u) PROVE RowKeepsApp(m)
  <2>1. CASE UNCHANGED stored
    BY <1>1, <2>1
  <2>2. PICK o, n : o = use[u].provider /\ n = use[u].mailbox
    OBVIOUS
  <2>3. CASE asked[o] # 0 /\ Saved(o[1], n, o)
    <3>1. /\ n \in Mailbox /\ memory[o] \in Credential
          /\ memory[o].client \in OAuthApp /\ issuer[memory[o].grant] = memory[o].client
      BY <1>5, <2>2, <2>3, AnswerFacts DEF Answered
    <3>2. CASE n # m
      BY <1>1, <1>t, <2>3, <3>2 DEF Saved
    <3>3. CASE n = m /\ kindOf[m] = "outlook"
      <4>1. stored'[m].client = memory[o].client /\ stored'[m].grant = memory[o].grant
        BY <1>t, <2>3, <3>1, <3>3 DEF Saved
      <4>2. UNCHANGED issuer
        BY <1>5 DEF Answered, outsideVars
      <4> QED  BY <1>p, <3>1, <4>1, <4>2 DEF RowKeepsApp
    <3> QED  BY <3>2, <3>3 DEF RowKeepsApp
  <2> QED  BY <1>5, <2>1, <2>2, <2>3 DEF Answered, Adopts, StepsAside, Orphaned
<1>6. ASSUME NEW u \in Use, Begins(u) \/ Calls(u) \/ FailUse(u) PROVE RowKeepsApp(m)
  BY <1>1, <1>5, <1>6 DEF Begins, BeginCached, BeginBuilt, Calls, Refresh, Performs, EndUse, FailUse, storeVars
<1>7. ASSUME NEW n \in Mailbox, BeginRefused(n) \/ Revoke(n) PROVE RowKeepsApp(m)
  BY <1>1, <1>7 DEF BeginRefused, Revoke, storeVars
<1>8. ASSUME NEW s \in Server, NEW n \in Mailbox,
             \/ BeginSetMicrosoft(s) \/ SetMicrosoft(s) \/ Restart(s)
             \/ BeginReconnect(s, n) \/ ExchangeCode(s) \/ GivesUp(s)
      PROVE  RowKeepsApp(m)
  BY <1>1, <1>8 DEF BeginSetMicrosoft, SetMicrosoft, Restart, BeginReconnect, ExchangeCode, GivesUp, storeVars
<1>9. CASE SetGoogle
  BY <1>1, <1>9 DEF SetGoogle, storeVars
<1>10. CASE Changes
  BY <1>3, <1>7, <1>8, <1>9, <1>10 DEF Changes
<1>11. CASE Finishes
  BY <1>2, <1>4, <1>8, <1>11 DEF Finishes
<1> QED  BY <1>6, <1>7, <1>10, <1>11 DEF CredentialsNext

LEMMA AppsAreKept ==
  ASSUME CredInv, CredentialsNext PROVE UnpinnedAreKnown' /\ KeepsItsApp'
<1>0. SettingsGoOn /\ IssuesInOrder /\ StoreGoesForward
  BY SettingsMove, IssuingMoves, StoreMoves
<1>1. ASSUME NEW m \in Mailbox, Present(m)', kindOf'[m] = "outlook", stored'[m].client = None
      PROVE  /\ app'["outlook"] = app["outlook"] /\ app["outlook"] # None
             /\ stored[m].client = None /\ stored'[m].grant = stored[m].grant /\ Present(m) /\ kindOf[m] = "outlook"
             /\ \A s \in Server : setting'[s].at = "idle" \/ (setting'[s].at = "pin" /\ setting'[s].old = app["outlook"])
  <2>1. kindOf[m] = "outlook" /\ RowKeepsApp(m)
    BY <1>0, <1>1, RowsKeepApps DEF SettingsGoOn
  <2>2. Present(m) /\ stored[m].client = None /\ stored'[m].grant = stored[m].grant
    BY <1>1, <2>1, CredentialsAssumption DEF RowKeepsApp
  <2>3. /\ app["outlook"] # None
        /\ \A s \in Server : setting[s].at = "idle" \/ (setting[s].at = "pin" /\ setting[s].old = app["outlook"])
    BY <2>1, <2>2 DEF CredInv, UnpinnedAreKnown
  <2>4. app'["outlook"] = app["outlook"]
    BY <1>0, <2>3 DEF SettingsGoOn
  <2>5. ASSUME NEW s \in Server, PinMicrosoft(s) PROVE FALSE
    <3>1. m \in Unpinned(s) /\ setting[s].old = app["outlook"]
      BY <2>1, <2>2, <2>3, <2>5 DEF Unpinned, PinMicrosoft
    <3>2. stored'[m] = PinnedTo(stored[m], app["outlook"])
      BY <2>5, <3>1 DEF PinMicrosoft, PinnedTo
    <3>3. stored[m] \in Credential /\ app["outlook"] \in OAuthApp \cup {None}
      BY DEF CredInv, Typed, CredentialsTypeOK, Kinds
    <3>4. stored'[m].client = app["outlook"]
      BY <3>2, <3>3, PinnedRow
    <3> QED  BY <1>1, <2>3, <3>4
  <2>6. \A s \in Server : setting'[s].at = "idle" \/ (setting'[s].at = "pin" /\ setting'[s].old = app["outlook"])
    BY <1>0, <2>3, <2>5 DEF SettingsGoOn
  <2> QED  BY <2>1, <2>2, <2>3, <2>4, <2>6
<1>2. UnpinnedAreKnown'
  BY <1>1 DEF UnpinnedAreKnown
<1>3. KeepsItsApp'
  <2> SUFFICES ASSUME NEW m \in Mailbox, Present(m)', kindOf'[m] = "outlook"
               PROVE  ClientOf(m, stored[m].client)' = issuer'[stored'[m].grant]
    BY DEF KeepsItsApp
  <2>1. kindOf[m] = "outlook" /\ RowKeepsApp(m) /\ Present(m)
    BY <1>0, RowsKeepApps DEF SettingsGoOn, StoreGoesForward, Present
  <2>2. ClientOf(m, stored[m].client) = issuer[stored[m].grant]
    BY <2>1 DEF CredInv, KeepsItsApp
  <2>3. issuer'[stored[m].grant] = issuer[stored[m].grant]
    <3>1. stored[m].grant \in Nat /\ stored[m].grant <= issued /\ issued \in Nat
      BY CredentialFields, CredentialsAssumption DEF CredInv, IssuedSoFar, SoFar, Typed, CredentialsTypeOK
    <3> QED  BY <1>0, <3>1 DEF IssuesInOrder
  <2>4. CASE stored'[m].client = None
    <3>1. /\ app'["outlook"] = app["outlook"] /\ stored[m].client = None /\ stored'[m].grant = stored[m].grant
      BY <1>1, <2>4
    <3> QED  BY <2>1, <2>2, <2>3, <2>4, <3>1 DEF ClientOf, AppFor
  <2>5. CASE stored'[m].client # None
    <3>1. ClientOf(m, stored[m].client)' = stored'[m].client
      BY <2>5 DEF ClientOf
    <3>2. CASE stored'[m].client = stored[m].client /\ stored'[m].grant = stored[m].grant
      BY <2>2, <2>3, <2>5, <3>1, <3>2 DEF ClientOf
    <3> QED  BY <2>1, <3>1, <3>2 DEF RowKeepsApp
  <2> QED  BY <2>4, <2>5
<1> QED  BY <1>2, <1>3

\* The types follow.
LEMMA TypesFollow ==
  ASSUME CredInv, SettingsGoOn, StoreGoesForward, IssuesInOrder, GrantingGoesOn, GrantsAreSound', ObjectsSound',
         cached' \in [Server -> [Mailbox -> Provider \cup {None}]],
         cachedRevision' \in [Server -> [Mailbox -> Nat]],
         use' \in [Use -> AnyUse \cup {NoUse}],
         \A w \in Use : use'[w].at # "idle" => use'[w].mailbox \in Mailbox /\ use'[w].provider # None
  PROVE  Typed'
<1>1. kindOf \in [Mailbox -> Kinds]
  BY DEF CredInv, Typed, CredentialsTypeOK
<1>2. \A w \in Use : use'[w].at # "idle" => use'[w] \in AnyUse
  BY NoCredentialIsOne
<1>3. \A w \in Use : use'[w].at # "idle" => use'[w].provider \in Provider /\ use'[w].at \in {"started", "served", "refused"}
  BY <1>2 DEF AnyUse
<1>4. CredentialsTyped'
  BY DEF CredentialsTyped, Uses, SettingsGoOn, IssuesInOrder, GrantingGoesOn
<1>5. \A s \in Server : granting'[s].at = "granted" =>
        granting'[s].serial <= issued' /\ granting'[s].mailbox \in Mailbox
  BY DEF GrantsAreSound
<1>6. CredentialsTypeOK'
  BY <1>1, <1>3, <1>5 DEF CredentialsTypeOK, Uses, SettingsGoOn, StoreGoesForward, IssuesInOrder, ObjectsSound
<1> QED  BY <1>4, <1>6 DEF Typed

LEMMA CredentialsStepIsSound == CredInv /\ [CredentialsNext]_credVars => CredInv'
<1>1. CASE UNCHANGED credVars
  <2>1. UNCHANGED <<kindOf, mailboxStatus, stored, app, setting, granting, cached, cachedRevision, memory, asked, use,
                    issued, issuer, revoked>>
    BY <1>1 DEF credVars, storeVars, objectVars, outsideVars
  <2> QED
    BY <2>1 DEF CredInv, Typed, CredentialsTypeOK, CredentialsTyped, OneMailboxEach, CacheKnowsRevision, NeverAhead,
       NotAhead, IssuedSoFar, SoFar, AsksRightly, GrantsAreSound, UnpinnedAreKnown, KeepsItsApp, Held, Uses, Serves, Present,
       ClientOf, AppFor
<1>2. ASSUME CredInv, CredentialsNext PROVE CredInv'
  <2>0. /\ StoreGoesForward /\ IssuesInOrder /\ SettingsGoOn /\ UnpinnedAreKnown' /\ KeepsItsApp'
        /\ GrantingGoesOn /\ GrantsAreSound'
    BY <1>2, StoreMoves, IssuingMoves, SettingsMove, AppsAreKept, GrantingMoves, GrantsStaySound
  <2>1. ASSUME ObjectsSound', Typed' PROVE CredInv'
    BY <2>0, <2>1 DEF CredInv, ObjectsSound
  <2>2. ASSUME NEW u, NEW s, NEW m, BuildsNothing(u, s, m) PROVE CredInv'
    <3>1. /\ CallsGoOn /\ CachesForget /\ Held' \subseteq Held
          /\ \A i \in Provider, n \in Mailbox : Serves(i, n)' => Serves(i, n)
      BY <1>2, <2>2, ReachMoves
    <3>2. ObjectsSound'
      <4>1. CASE ObjectsAreLeft(u, s, m)
        BY <1>2, <2>0, <3>1, <4>1, OthersWait, WaitingIsSound
      <4>2. CASE u \in Use /\ (Refresh(u) \/ Answered(u))
        BY <1>2, <2>0, <4>2, RefreshIsSound, AnswerIsSound
      <4> QED  BY <2>2, <4>1, <4>2 DEF BuildsNothing
    <3>3. Typed'
      BY <1>2, <2>0, <3>1, <3>2, TypesFollow DEF CallsGoOn, CachesForget
    <3> QED  BY <2>1, <3>2, <3>3
  <2>3. ASSUME NEW u \in Use, NEW s \in Server, NEW m \in Mailbox, BeginBuilt(u, s, m) PROVE CredInv'
    BY <1>2, <2>0, <2>1, <2>3, BuildingIsSound, TypesFollow
  <2>4. ASSUME NEW u \in Use, Begins(u) \/ Calls(u) \/ FailUse(u) PROVE CredInv'
    BY <2>2, <2>3, <2>4 DEF Begins, Calls, BuildsNothing, ObjectsAreLeft
  <2>5. ASSUME NEW m \in Mailbox, BeginRefused(m) PROVE CredInv'
    BY <2>2, <2>5 DEF BuildsNothing, ObjectsAreLeft
  <2>6. CASE Finishes
    BY <2>2, <2>6 DEF Finishes, BuildsNothing, ObjectsAreLeft
  <2>7. CASE Changes
    BY <2>2, <2>7 DEF Changes, BuildsNothing, ObjectsAreLeft
  <2> QED  BY <1>2, <2>4, <2>5, <2>6, <2>7 DEF CredentialsNext
<1> QED  BY <1>1, <1>2

LEMMA CredentialsStaySound == CredentialsSpec => []CredInv
<1>1. CredentialsInit => CredInv
  BY CredentialsStartSound
<1> QED  BY <1>1, CredentialsStepIsSound, PTL DEF CredentialsSpec

\* For any servers, mailboxes and applications: an object that the cache of a server
\* takes for current works with the credential that is stored, whatever refreshes,
\* reconnections, removals and restarts came before, on this server or another; and a
\* connected Outlook mailbox keeps the application that its grant was given to,
\* whoever changes the configured one.
THEOREM CachedProvidersAreCurrent == CredentialsSpec => []CachedIsCurrent
<1>1. CredInv => CachedIsCurrent
  <2> SUFFICES ASSUME CredInv PROVE CachedIsStored
    BY DEF CachedIsCurrent, CredInv, Typed
  <2> SUFFICES ASSUME NEW s \in Server, NEW m \in Mailbox, Present(m), CacheFits(s, m)
               PROVE  LET held == memory[cached[s][m]]
                      IN held.grant = stored[m].grant /\ held.serial = stored[m].serial
    BY DEF CachedIsStored
  <2>1. cached[s][m] \in Provider /\ Serves(cached[s][m], m)
    BY HeldServes DEF CacheFits, CredInv
  <2>2. memory[cached[s][m]].revision = stored[m].revision
    BY DEF CacheFits, CredInv, CacheKnowsRevision
  <2> QED  BY <2>1, <2>2 DEF CredInv, NeverAhead, NotAhead
<1> QED  BY <1>1, CredentialsStaySound, PTL

\* No refresh brings back a credential that was replaced, whatever reconnections and
\* refreshes are under way on this server or another: of a mailbox that stays connected
\* the stored token is only ever replaced by a later one of the same grant, or by the
\* grant of a user who has authorized the mailbox again, which is written unseen.
THEOREM NewerCredentialsStay == CredentialsSpec => RefreshesGoForward
<1>1. CredInv /\ [CredentialsNext]_credVars =>
        [\A m \in Mailbox : Present(m) /\ Present(m)' =>
            \/ stored'[m].grant = stored[m].grant /\ stored'[m].serial >= stored[m].serial
            \/ \E s \in Server : ReconnectedBy(s, m)]_credVars
  <2> SUFFICES ASSUME CredInv, CredentialsNext, NEW m \in Mailbox, Present(m)'
               PROVE  \/ stored'[m].grant = stored[m].grant /\ stored'[m].serial >= stored[m].serial
                      \/ \E s \in Server : ReconnectedBy(s, m)
    OBVIOUS
  <2> QED  BY StoreMoves DEF StoreGoesForward, Present
<1> QED  BY <1>1, CredentialsStaySound, PTL DEF CredentialsSpec, RefreshesGoForward
=============================================================================
