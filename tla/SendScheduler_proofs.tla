------------------------ MODULE SendScheduler_proofs ------------------------
(***************************************************************************)
(* Proofs about SendScheduler, for any number of processes, requests,      *)
(* schedules and drafts, and any subset of the faults.                     *)
(***************************************************************************)
EXTENDS SendScheduler, TLAPS

(* The inductive invariant: types, and what links a call to its row. *)

\* A row that is gone or not there yet is claimed by nobody and of no draft.
RowsHaveDrafts ==
  \A r \in Schedule : IF rows[r].status \in {"none", "deleted"}
                        THEN rows[r].token = Null /\ rows[r].draft = Null
                        ELSE rows[r].draft \in Draft

RowsOK == rows \in [Schedule -> Row] /\ RowsHaveDrafts

\* A call in progress has a draft; one that succeeded delivered it.
CallsDelivered ==
  \A x \in Caller :
    /\ call[x].phase # "none" => call[x].draft \in Draft
    /\ call[x].phase = "none" => call[x].outcome = "none"
    /\ call[x].phase \in {"found", "done"} => call[x].outcome = "ok"
    /\ call[x].phase = "cleanup" \/ call[x].outcome = "ok" =>
         deliveries[call[x].draft] > 0

\* Row r, unless its mailbox was removed, is a schedule of draft d.
RowOf(r, d) == rows[r].status = "deleted" \/ rows[r].draft = d

FoundRows ==
  \A x \in Caller : call[x].phase = "found" =>
    call[x].found \in Schedule /\ RowOf(call[x].found, call[x].draft)

FiredRows ==
  \A p \in Process : sched[p].pc = "send" =>
    /\ sched[p].row \in Schedule
    /\ call[p].phase # "none"
    /\ RowOf(sched[p].row, call[p].draft)

IInv == /\ TypeOK /\ RowsHaveDrafts /\ CallsDelivered /\ FoundRows /\ FiredRows
        /\ SentWasDelivered

-----------------------------------------------------------------------------
(* What a statement on the table may do.  Only rows of S become sent. *)

SafeStep(S) ==
  /\ RowsOK'
  /\ \A r \in Schedule, d \in Draft : RowOf(r, d) => RowOf(r, d)'
  /\ \A r \in Schedule : rows'[r].status = "sent" =>
       /\ rows'[r].draft = rows[r].draft
       /\ r \in S \/ rows[r].status = "sent"

\* One row is replaced by a sound one.
LEMMA PutIsSafe ==
  ASSUME NEW r \in Schedule, NEW new \in Row, NEW S, RowsOK,
         rows' = [rows EXCEPT ![r] = new],
         new.status \notin {"none", "deleted"},
         new.draft \in Draft,
         rows[r].status # "deleted",
         rows[r].draft \in Draft => new.draft = rows[r].draft,
         new.status = "sent" => r \in S /\ new.draft = rows[r].draft
  PROVE  SafeStep(S)
<1> DEFINE shape(row) == IF row.status \in {"none", "deleted"}
                           THEN row.token = Null /\ row.draft = Null
                           ELSE row.draft \in Draft
<1>1. /\ rows' \in [Schedule -> Row]
      /\ rows'[r] = new
      /\ \A s \in Schedule : s # r => rows'[s] = rows[s]
  BY DEF RowsOK
<1>2. \A s \in Schedule : shape(rows'[s])
  BY <1>1 DEF RowsOK, RowsHaveDrafts
<1>3. \A s \in Schedule, d \in Draft : RowOf(s, d) => RowOf(s, d)'
  BY <1>1 DEF RowOf
<1>4. \A s \in Schedule : rows'[s].status = "sent" =>
        rows'[s].draft = rows[s].draft /\ (s \in S \/ rows[s].status = "sent")
  BY <1>1
<1> QED
  BY <1>1, <1>2, <1>3, <1>4 DEF SafeStep, RowsOK, RowsHaveDrafts

LEMMA ClaimIsSafe ==
  ASSUME NEW r \in Schedule, NEW p \in Process, RowsOK, claimScheduledSend(r, p)
  PROVE  SafeStep({})
<1> DEFINE new == [rows[r] EXCEPT !.status = "sending", !.token = p, !.claimLeft = Lease]
<1>1. rows[r] \in Row /\ rows[r].status \in Active /\ rows[r].draft \in Draft
  BY DEF RowsOK, RowsHaveDrafts, claimScheduledSend, Claimable, Is, Active
<1> DEFINE claimed == [rows[r] EXCEPT !.status = "sending", !.token = p]
<1>2. new = [claimed EXCEPT !.claimLeft = Lease]
  OBVIOUS
<1>3. new \in Row /\ new.status = "sending" /\ new.draft = rows[r].draft
  <2>1. claimed \in Row /\ claimed.status = "sending" /\ claimed.draft = rows[r].draft
    BY <1>1, StoreAssumption DEF Row, Active
  <2> HIDE DEF claimed, new
  <2> QED
    BY <1>2, <2>1, StoreAssumption DEF Row
<1>4. rows' = [rows EXCEPT ![r] = new]
  BY DEF claimScheduledSend
<1> HIDE DEF new
<1> QED
  BY <1>1, <1>3, <1>4, PutIsSafe DEF Active

\* The holder of a claim ends it: sent, failed or pending again.
LEMMA ReleaseIsSafe ==
  ASSUME NEW r \in Schedule, NEW p \in Process, NEW S, RowsOK,
         NEW status \in {"sent", "failed", "pending"}, NEW e \in {"none", "gone", "other"},
         status = "sent" => r \in S,
         UpdateClaim(r, p, Released(r, status, e))
  PROVE  SafeStep(S)
<1> DEFINE new == Released(r, status, e)
<1>1. CASE rows[r].token = p
  <2>1. rows[r] \in Row /\ rows[r].draft \in Draft
                        /\ rows[r].status \notin {"none", "deleted"}
    BY <1>1, StoreAssumption DEF RowsOK, RowsHaveDrafts
  <2> DEFINE marked == [rows[r] EXCEPT !.status = status, !.lastError = e]
             freed == [marked EXCEPT !.token = Null]
  <2>2. new = [freed EXCEPT !.claimLeft = 0]
    BY DEF Released
  <2>3. new \in Row /\ new.status = status /\ new.draft = rows[r].draft
    <3>1. marked \in Row /\ marked.status = status /\ marked.draft = rows[r].draft
      BY <2>1 DEF Row, Active, Finished
    <3> HIDE DEF marked
    <3>2. freed \in Row /\ freed.status = status /\ freed.draft = rows[r].draft
      BY <3>1 DEF Row
    <3> HIDE DEF freed, new
    <3> QED
      BY <2>2, <3>2, StoreAssumption DEF Row
  <2>4. rows' = [rows EXCEPT ![r] = new]
    BY <1>1 DEF UpdateClaim
  <2> HIDE DEF new
  <2> QED
    BY <2>1, <2>3, <2>4, PutIsSafe
<1>2. CASE rows[r].token # p
  BY <1>2 DEF UpdateClaim, SafeStep, RowsOK, RowsHaveDrafts, RowOf
<1> QED
  BY <1>1, <1>2

LEMMA MarkSentIsSafe ==
  ASSUME NEW r \in Schedule, NEW d \in Draft, RowOf(r, d), RowsOK, markSent(r)
  PROVE  SafeStep({r})
<1> DEFINE new == [rows[r] EXCEPT !.status = "sent", !.lastError = "none"]
<1>1. CASE rows[r].status = "deleted"
  BY <1>1 DEF markSent, Is, SafeStep, RowsOK, RowsHaveDrafts, RowOf
<1>2. CASE rows[r].status # "deleted"
  <2>1. rows[r] \in Row /\ rows[r].draft \in Draft
    BY <1>2 DEF RowsOK, RowOf
  <2>2. new \in Row /\ new.status = "sent" /\ new.draft = rows[r].draft
    BY <2>1 DEF Row, Finished
  <2>3. rows' = [rows EXCEPT ![r] = new]
    BY <1>2 DEF markSent, Is
  <2> QED
    BY <1>2, <2>1, <2>2, <2>3, PutIsSafe
<1> QED
  BY <1>1, <1>2

LEMMA HoldIsSafe ==
  ASSUME NEW R \in SUBSET Schedule, RowsOK, holdPending(R)
  PROVE  SafeStep({})
<1>1. \A r \in Schedule : /\ rows'[r] \in Row
                          /\ rows'[r].status = rows[r].status
                          /\ rows'[r].draft = rows[r].draft
                          /\ rows'[r].token = rows[r].token
  BY DEF RowsOK, Row, holdPending
<1>2. rows' = [r \in Schedule |-> rows'[r]]
  BY DEF holdPending
<1> QED
  BY <1>1, <1>2 DEF RowsOK, RowsHaveDrafts, SafeStep, RowOf

LEMMA CreateIsSafe ==
  ASSUME NEW r \in Schedule, NEW d \in Draft, NEW t \in 0..Horizon,
         RowsOK, createScheduledSend(r, d, t)
  PROVE  SafeStep({})
<1> DEFINE new == [NoRow EXCEPT !.status = "pending", !.draft = d, !.sendAt = t]
<1> DEFINE asked == [NoRow EXCEPT !.status = "pending", !.draft = d]
<1>1. new \in Row /\ new.status = "pending" /\ new.draft = d
  <2>1. NoRow \in Row
    BY StoreAssumption DEF Row, NoRow
  <2>2. asked \in Row /\ asked.status = "pending" /\ asked.draft = d
    BY <2>1 DEF Row, Active
  <2>3. new = [asked EXCEPT !.sendAt = t]
    OBVIOUS
  <2> HIDE DEF asked, new
  <2> QED
    BY <2>2, <2>3, StoreAssumption DEF Row
<1>2. rows' = [rows EXCEPT ![r] = new] /\ rows[r].status = "none" /\ rows[r].draft = Null
  BY DEF createScheduledSend, Is, RowsOK, RowsHaveDrafts
<1> HIDE DEF new
<1> QED
  BY <1>1, <1>2, StoreAssumption, PutIsSafe

LEMMA CancelIsSafe ==
  ASSUME NEW r \in Schedule, RowsOK, cancelScheduledSend(r)
  PROVE  SafeStep({})
<1> DEFINE new == [rows[r] EXCEPT !.status = "canceled"]
<1>1. rows[r] \in Row /\ rows[r].status = "pending" /\ rows[r].draft \in Draft
  BY DEF RowsOK, RowsHaveDrafts, cancelScheduledSend, Is
<1>2. new \in Row /\ new.status = "canceled" /\ new.draft = rows[r].draft
  BY <1>1 DEF Row, Finished
<1>3. rows' = [rows EXCEPT ![r] = new]
  BY DEF cancelScheduledSend
<1> QED
  BY <1>1, <1>2, <1>3, PutIsSafe

LEMMA CascadeIsSafe ==
  ASSUME NEW a \in Account, RowsOK, CascadeAccount(a)
  PROVE  SafeStep({})
<1> DEFINE dead == [NoRow EXCEPT !.status = "deleted"]
<1>1. dead \in Row /\ dead.status = "deleted" /\ dead.token = Null /\ dead.draft = Null
  BY StoreAssumption DEF Row, NoRow
<1>2. \A r \in Schedule : rows'[r] \in {rows[r], dead}
  BY DEF CascadeAccount
<1>3. rows' = [r \in Schedule |-> rows'[r]]
  BY DEF CascadeAccount
<1> HIDE DEF dead
<1> QED
  BY <1>1, <1>2, <1>3 DEF RowsOK, RowsHaveDrafts, SafeStep, RowOf

LEMMA AgeIsSafe ==
  ASSUME RowsOK, RowsAge
  PROVE  SafeStep({})
<1>1. \A r \in Schedule : /\ rows'[r] \in Row
                          /\ rows'[r].status = rows[r].status
                          /\ rows'[r].draft = rows[r].draft
                          /\ rows'[r].token = rows[r].token
  <2> TAKE r \in Schedule
  <2>1. CASE rows[r].draft = Null
    BY <2>1 DEF RowsOK, RowsAge
  <2>2. CASE rows[r].draft # Null
    <3>1. rows[r] \in Row
      BY DEF RowsOK
    <3>2. rows'[r] = [rows[r] EXCEPT !.sendAt = Dec(rows[r].sendAt, -Late),
                                     !.claimLeft = Dec(rows[r].claimLeft, 0)]
      BY <2>2, <3>1 DEF RowsAge, Row
    <3>3. /\ Dec(rows[r].sendAt, -Late) \in (-Late)..Horizon
          /\ Dec(rows[r].claimLeft, 0) \in 0..Lease
      BY <3>1, StoreAssumption DEF Row, Dec
    <3> QED
      BY <3>1, <3>2, <3>3 DEF Row
  <2> QED
    BY <2>1, <2>2
<1>2. rows' = [r \in Schedule |-> rows'[r]]
  BY DEF RowsAge
<1> QED
  BY <1>1, <1>2 DEF RowsOK, RowsHaveDrafts, SafeStep, RowOf

LEMMA SameRowsAreSafe ==
  ASSUME RowsOK, UNCHANGED rows
  PROVE  SafeStep({})
BY DEF RowsOK, RowsHaveDrafts, SafeStep, RowOf

-----------------------------------------------------------------------------
(* Types.  One field of a scheduler at a time. *)

PCs == {"down", "idle", "tick", "loop", "send"}

LEMMA SchedulerFields ==
  ASSUME NEW s \in Scheduler
  PROVE  /\ \A pc \in PCs : [s EXCEPT !.pc = pc] \in Scheduler
         /\ \A R \in SUBSET Schedule : [s EXCEPT !.due = R] \in Scheduler
         /\ \A r \in Schedule \cup {Null} : [s EXCEPT !.row = r] \in Scheduler
         /\ \A b \in BOOLEAN : [s EXCEPT !.rerun = b] \in Scheduler
         /\ \A n \in {NoTimer} \cup 0..MaxArm : [s EXCEPT !.timer = n] \in Scheduler
         /\ \A n \in 0..MaxArm : [s EXCEPT !.hold = n] \in Scheduler
         /\ \A f \in [Schedule -> 0..MaxArm] : [s EXCEPT !.wait = f] \in Scheduler
         /\ \A f \in [Schedule -> 0..MaxArm] : [s EXCEPT !.backoff = f] \in Scheduler
BY DEF Scheduler, PCs

LEMMA StoppedType == Stopped \in Scheduler
BY SchedulerAssumption DEF Stopped, Scheduler, NoTimer

LEMMA NoCallType == NoCall \in Call
BY DEF NoCall, Call

LEMMA PokedType ==
  ASSUME NEW s \in Scheduler
  PROVE  /\ Poked(s) \in Scheduler
         /\ Poked(s).pc = "send" => s.pc = "send" /\ Poked(s).row = s.row
<1>1. Poked(s) \in Scheduler
  BY SchedulerFields DEF Poked, PCs
<1>2. Poked(s).pc = "send" => s.pc = "send" /\ Poked(s).row = s.row
  BY DEF Poked, Scheduler
<1> QED
  BY <1>1, <1>2

LEMMA NextDelayType ==
  ASSUME NEW d \in 0..MaxArm
  PROVE  NextDelay(d) \in 0..MaxArm
BY SchedulerAssumption DEF NextDelay

\* A delay ranges over what is left of leases, of backoffs and of the time ahead.
LEMMA DelayType ==
  ASSUME TypeOK, NEW p \in Process, NEW r \in Schedule
  PROVE  Delay(p, r) \in 0..MaxArm
<1>1. /\ rows[r].sendAt \in Int /\ rows[r].claimLeft \in Int
  BY StoreAssumption DEF TypeOK, Row
<1>2. sched[p].wait[r] \in Int /\ sched[p].hold \in Int
  BY SchedulerAssumption DEF TypeOK, Scheduler
<1>3. Gate(p, r) \in Int
  BY <1>1, <1>2 DEF Gate, Larger
<1>4. Larger(0, Larger(Gate(p, r), sched[p].hold)) \in Nat
  BY <1>2, <1>3 DEF Larger
<1> QED
  BY <1>4, SchedulerAssumption DEF Delay

-----------------------------------------------------------------------------
(* Steps that start no call and advance none. *)

SchedTypeOK == sched \in [Process -> Scheduler]
MailboxTypeOK == /\ drafts \in [Draft -> {"none", "present", "gone"}]
                 /\ deliveries \in [Draft -> 0..2]
                 /\ removed \subseteq Account
                 /\ overQuota \in BOOLEAN

\* Each call goes on or is dropped, and a process that still awaits one awaits
\* the one it had.
LEMMA QuietStep ==
  ASSUME IInv, NEW S \in SUBSET Schedule, SafeStep(S), SchedTypeOK', MailboxTypeOK',
         \A r \in S : \E d \in Draft : RowOf(r, d) /\ deliveries[d] > 0,
         UNCHANGED deliveries,
         call' \in [Caller -> Call],
         \A x \in Caller : call'[x] = call[x] \/ call'[x] = NoCall,
         \A p \in Process : sched'[p].pc = "send" =>
           sched[p].pc = "send" /\ sched'[p].row = sched[p].row /\ call'[p] = call[p]
  PROVE  IInv'
<1>1. TypeOK'
  BY DEF TypeOK, SchedTypeOK, MailboxTypeOK, SafeStep, RowsOK
<1>2. RowsHaveDrafts'
  BY DEF SafeStep, RowsOK
<1>3. CallsDelivered'
  BY DEF IInv, CallsDelivered, NoCall
<1>4. FoundRows'
  <2> SUFFICES ASSUME NEW x \in Caller, call'[x].phase = "found"
               PROVE  (call[x].found \in Schedule /\ RowOf(call[x].found, call[x].draft))'
    BY DEF FoundRows
  <2>1. call'[x] = call[x]
    BY DEF NoCall
  <2>2. call[x].found \in Schedule /\ call[x].draft \in Draft /\ RowOf(call[x].found, call[x].draft)
    BY <2>1 DEF IInv, FoundRows, CallsDelivered
  <2> QED
    BY <2>1, <2>2 DEF SafeStep, RowOf
<1>5. FiredRows'
  <2> SUFFICES ASSUME NEW p \in Process, sched'[p].pc = "send"
               PROVE  (/\ sched[p].row \in Schedule
                       /\ call[p].phase # "none"
                       /\ RowOf(sched[p].row, call[p].draft))'
    BY DEF FiredRows
  <2>1. /\ sched[p].row \in Schedule /\ call[p].draft \in Draft
        /\ call[p].phase # "none" /\ RowOf(sched[p].row, call[p].draft)
    BY DEF IInv, FiredRows, CallsDelivered, Caller
  <2> QED
    BY <2>1 DEF SafeStep, RowOf
<1>6. SentWasDelivered'
  <2> SUFFICES ASSUME NEW r \in Schedule, rows'[r].status = "sent"
               PROVE  deliveries[rows'[r].draft] > 0
    BY DEF SentWasDelivered, Is
  <2>1. CASE r \in S
    <3>1. PICK d \in Draft : RowOf(r, d) /\ deliveries[d] > 0
      BY <2>1
    <3>2. RowOf(r, d)'
      BY <3>1 DEF SafeStep
    <3> QED
      BY <3>1, <3>2 DEF RowOf
  <2>2. CASE rows[r].status = "sent"
    BY <2>2 DEF IInv, SentWasDelivered, Is, SafeStep
  <2> QED
    BY <2>1, <2>2 DEF SafeStep
<1> QED
  BY <1>1, <1>2, <1>3, <1>4, <1>5, <1>6 DEF IInv

\* The same with every call as it was, and no row newly sent.
LEMMA SchedulingStep ==
  ASSUME IInv, SafeStep({}), SchedTypeOK', MailboxTypeOK', UNCHANGED <<call, deliveries>>,
         \A p \in Process : sched'[p].pc = "send" =>
           sched[p].pc = "send" /\ sched'[p].row = sched[p].row
  PROVE  IInv'
<1>1. call' \in [Caller -> Call]
  BY DEF IInv, TypeOK
<1> QED
  BY <1>1, QuietStep

LEMMA Typed ==
  IInv => SchedTypeOK /\ MailboxTypeOK /\ RowsOK /\ call \in [Caller -> Call]
BY DEF IInv, TypeOK, SchedTypeOK, MailboxTypeOK, RowsOK

LEMMA StartStep ==
  ASSUME IInv, NEW p \in Process, Start(p)
  PROVE  IInv'
<1> DEFINE new == [sched[p] EXCEPT !.pc = "tick"]
<1>1. sched' = [sched EXCEPT ![p] = new]
  BY DEF Start
<1>2. new \in Scheduler /\ new.pc = "tick"
  <2>1. sched[p] \in Scheduler
    BY Typed DEF SchedTypeOK
  <2> QED
    BY <2>1 DEF Scheduler
<1> HIDE DEF new
<1>3. SchedTypeOK' /\ \A q \in Process : sched'[q] = sched[q] \/ sched'[q].pc = "tick"
  BY <1>1, <1>2, Typed DEF SchedTypeOK
<1>4. SafeStep({}) /\ MailboxTypeOK'
  BY Typed, SameRowsAreSafe DEF Start, MailboxTypeOK
<1> QED
  BY <1>3, <1>4, SchedulingStep DEF Start

\* A process is poked, by its timer or a request, and nothing else changes but
\* rows and drafts.
LEMMA PokeStep ==
  ASSUME IInv, SafeStep({}), MailboxTypeOK', UNCHANGED <<call, deliveries>>,
         NEW p \in Process, NEW s \in Scheduler,
         s.pc = sched[p].pc, s.row = sched[p].row,
         sched' = [sched EXCEPT ![p] = Poked(s)]
  PROVE  IInv'
<1>1. Poked(s) \in Scheduler
      /\ (Poked(s).pc = "send" => s.pc = "send" /\ Poked(s).row = s.row)
  BY PokedType
<1>2. SchedTypeOK'
  BY <1>1, Typed DEF SchedTypeOK
<1>3. \A q \in Process : sched'[q] = IF q = p THEN Poked(s) ELSE sched[q]
  BY Typed DEF SchedTypeOK
<1> QED
  BY <1>1, <1>2, <1>3, SchedulingStep

LEMMA ScheduleChangedStep ==
  ASSUME IInv, SafeStep({}), MailboxTypeOK', UNCHANGED <<call, deliveries>>,
         NEW h \in Process \cup {Null}, ScheduleChanged(h)
  PROVE  IInv'
<1>1. CASE h = Null
  BY <1>1, Typed, SchedulingStep DEF ScheduleChanged, SchedTypeOK
<1>2. CASE h # Null
  <2>1. sched' = [sched EXCEPT ![h] = Poked(sched[h])] /\ sched[h] \in Scheduler
    BY <1>2, Typed DEF ScheduleChanged, SchedTypeOK
  <2> QED
    BY <1>2, <2>1, PokeStep
<1> QED
  BY <1>1, <1>2

LEMMA TimerFiresStep ==
  ASSUME IInv, NEW p \in Process, TimerFires(p)
  PROVE  IInv'
<1> DEFINE s == [sched[p] EXCEPT !.timer = NoTimer]
<1>1. s \in Scheduler /\ s.pc = sched[p].pc /\ s.row = sched[p].row
  <2>1. sched[p] \in Scheduler
    BY Typed DEF SchedTypeOK
  <2> QED
    BY <2>1 DEF Scheduler
<1>2. sched' = [sched EXCEPT ![p] = Poked(s)]
  BY DEF TimerFires
<1>3. SafeStep({}) /\ MailboxTypeOK'
  BY Typed, SameRowsAreSafe DEF TimerFires, MailboxTypeOK
<1> QED
  BY <1>1, <1>2, <1>3, PokeStep DEF TimerFires

LEMMA TickStep ==
  ASSUME IInv, NEW p \in Process, Tick(p)
  PROVE  IInv'
<1>0. PICK held \in BOOLEAN :
        /\ sched' = [sched EXCEPT ![p] =
                       [@ EXCEPT !.pc = "loop",
                                 !.due = IF held THEN {} ELSE Due(p),
                                 !.hold = IF held THEN MaxArm
                                          ELSE IF Due(p) # {} THEN 0
                                          ELSE sched[p].hold]]
        /\ IF held THEN holdPending(Due(p)) ELSE UNCHANGED rows
  BY DEF Tick
<1> DEFINE d == IF held THEN {} ELSE Due(p)
           n == IF held THEN MaxArm ELSE IF Due(p) # {} THEN 0 ELSE sched[p].hold
           listed == [sched[p] EXCEPT !.pc = "loop", !.due = d]
           new == [listed EXCEPT !.hold = n]
<1>1. sched' = [sched EXCEPT ![p] = new]
  BY <1>0
<1>2. new \in Scheduler /\ new.pc = "loop"
  <2>1. sched[p] \in Scheduler
    BY Typed DEF SchedTypeOK
  <2>2. d \in SUBSET Schedule
    BY DEF Due
  <2>3. n \in 0..MaxArm
    BY <2>1, SchedulerAssumption DEF Scheduler
  <2> HIDE DEF d, n
  <2>4. listed \in Scheduler /\ listed.pc = "loop"
    BY <2>1, <2>2 DEF Scheduler
  <2> HIDE DEF listed
  <2> QED
    BY <2>3, <2>4 DEF Scheduler
<1>3. SafeStep({}) /\ MailboxTypeOK'
  BY <1>0, Typed, HoldIsSafe, SameRowsAreSafe DEF Tick, Due, MailboxTypeOK
<1> HIDE DEF new
<1>4. SchedTypeOK' /\ \A q \in Process : sched'[q] = sched[q] \/ sched'[q].pc = "loop"
  BY <1>1, <1>2, Typed DEF SchedTypeOK
<1> QED
  BY <1>3, <1>4, SchedulingStep DEF Tick

LEMMA BackOffType ==
  ASSUME NEW s \in Scheduler, NEW r \in Schedule, NEW n \in 0..MaxArm
  PROVE  /\ BackOff(s, r, n) \in Scheduler
         /\ BackOff(s, r, n).pc = s.pc /\ BackOff(s, r, n).due = s.due
<1> DEFINE f == [s.wait EXCEPT ![r] = n]
           g == [s.backoff EXCEPT ![r] = n]
<1>1. f \in [Schedule -> 0..MaxArm] /\ g \in [Schedule -> 0..MaxArm]
  BY DEF Scheduler
<1>2. BackOff(s, r, n) = [s EXCEPT !.wait = f, !.backoff = g]
  BY DEF BackOff, Scheduler
<1> HIDE DEF f, g
<1> DEFINE w == [s EXCEPT !.wait = f]
<1>3. w \in Scheduler /\ w.pc = s.pc /\ w.due = s.due
  BY <1>1 DEF Scheduler
<1>4. BackOff(s, r, n) = [w EXCEPT !.backoff = g]
  BY <1>2
<1> HIDE DEF w
<1> QED
  BY <1>1, <1>3, <1>4 DEF Scheduler

LEMMA FiredType ==
  ASSUME NEW s \in Scheduler, s.row \in Schedule, NEW n \in 0..MaxArm
  PROVE  Fired(s, n) \in Scheduler /\ Fired(s, n).pc = "loop" /\ Fired(s, n).due = s.due
<1> DEFINE b == BackOff(s, s.row, n)
<1>1. b \in Scheduler /\ b.due = s.due
  BY BackOffType
<1>2. Fired(s, n) = [b EXCEPT !.pc = "loop", !.row = Null]
  BY DEF Fired
<1> HIDE DEF b
<1> QED
  BY <1>1, <1>2 DEF Scheduler

LEMMA SkipStep ==
  ASSUME IInv, NEW p \in Process, NEW r \in Schedule, Skip(p, r)
  PROVE  IInv'
<1> DEFINE listed == [sched[p] EXCEPT !.due = @ \ {r}]
           new == BackOff(listed, r, 0)
<1>1. sched' = [sched EXCEPT ![p] = new] /\ sched[p].pc = "loop"
  BY DEF Skip
<1>2. new \in Scheduler /\ new.pc = "loop"
  <2>1. sched[p] \in Scheduler
    BY Typed DEF SchedTypeOK
  <2>2. listed \in Scheduler /\ listed.pc = "loop"
    BY <1>1, <2>1 DEF Scheduler
  <2> HIDE DEF listed
  <2> QED
    BY <2>2, BackOffType, SchedulerAssumption
<1> HIDE DEF new
<1>3. SafeStep({}) /\ MailboxTypeOK'
  BY Typed, SameRowsAreSafe DEF Skip, MailboxTypeOK
<1>4. SchedTypeOK' /\ \A q \in Process : sched'[q] = sched[q] \/ sched'[q].pc = "loop"
  BY <1>1, <1>2, Typed DEF SchedTypeOK
<1> QED
  BY <1>3, <1>4, SchedulingStep DEF Skip

LEMMA FinishStep ==
  ASSUME IInv, NEW p \in Process, Finish(p)
  PROVE  IInv'
<1>1. \E new \in Scheduler : new.pc # "send" /\ sched' = [sched EXCEPT ![p] = new]
  <2>1. sched[p] \in Scheduler
    BY Typed DEF SchedTypeOK
  <2>2. CASE sched[p].rerun
    <3> DEFINE new == [sched[p] EXCEPT !.pc = "tick", !.rerun = FALSE]
    <3>1. new \in Scheduler /\ new.pc = "tick"
      BY <2>1 DEF Scheduler
    <3>2. sched' = [sched EXCEPT ![p] = new]
      BY <2>2 DEF Finish
    <3> QED
      BY <3>1, <3>2
  <2>3. CASE ~sched[p].rerun
    <3>1. PICK n \in {NoTimer} \cup 0..MaxArm :
            sched' = [sched EXCEPT ![p] = [@ EXCEPT !.pc = "idle", !.timer = n]]
      BY <2>3, DelayType DEF Finish, ActiveRows, IInv
    <3> DEFINE new == [sched[p] EXCEPT !.pc = "idle", !.timer = n]
    <3>2. new \in Scheduler /\ new.pc = "idle"
      BY <2>1 DEF Scheduler
    <3> QED
      BY <3>1, <3>2
  <2> QED
    BY <2>2, <2>3
<1>2. SafeStep({}) /\ MailboxTypeOK'
  BY Typed, SameRowsAreSafe DEF Finish, MailboxTypeOK
<1>3. SchedTypeOK' /\ \A q \in Process : sched'[q] = sched[q] \/ sched'[q].pc # "send"
  BY <1>1, Typed DEF SchedTypeOK
<1> QED
  BY <1>2, <1>3, SchedulingStep DEF Finish

-----------------------------------------------------------------------------
(* The end of a dispatch. *)

\* Process p, dispatching, is through with its row and its call.
LEMMA ReturnStep ==
  ASSUME IInv, NEW p \in Process, NEW S \in SUBSET Schedule, SafeStep(S),
         \A r \in S : \E d \in Draft : RowOf(r, d) /\ deliveries[d] > 0,
         call' = [call EXCEPT ![p] = NoCall],
         NEW s \in Scheduler, s.pc # "send", sched' = [sched EXCEPT ![p] = s],
         UNCHANGED <<drafts, deliveries, removed, overQuota>>
  PROVE  IInv'
<1>1. SchedTypeOK' /\ MailboxTypeOK'
  BY Typed DEF SchedTypeOK, MailboxTypeOK
<1>2. call' \in [Caller -> Call]
  BY Typed, NoCallType
<1>3. \A x \in Caller : call'[x] = IF x = p THEN NoCall ELSE call[x]
  BY Typed DEF Caller
<1>4. \A q \in Process : sched'[q] = IF q = p THEN s ELSE sched[q]
  BY Typed DEF SchedTypeOK
<1>5. \A q \in Process : sched'[q].pc = "send" =>
        sched[q].pc = "send" /\ sched'[q].row = sched[q].row /\ call'[q] = call[q]
  BY <1>3, <1>4 DEF Caller
<1> QED
  BY <1>1, <1>2, <1>3, <1>5, QuietStep

\* What a dispatching process works on.
LEMMA DispatchedRow ==
  ASSUME IInv, NEW p \in Process, sched[p].pc = "send"
  PROVE  /\ sched[p] \in Scheduler /\ sched[p].row \in Schedule
         /\ call[p] \in Call /\ call[p].draft \in Draft
         /\ RowOf(sched[p].row, call[p].draft)
         /\ call[p].outcome = "ok" => deliveries[call[p].draft] > 0
BY Typed DEF IInv, FiredRows, CallsDelivered, Caller, SchedTypeOK

LEMMA CompleteStep ==
  ASSUME IInv, NEW p \in Process, Complete(p)
  PROVE  IInv'
<1>1. sched[p].pc = "send" /\ call[p].phase = "done" /\ call[p].outcome = "ok"
  BY DEF Complete, Returned, IInv, CallsDelivered, Caller
<1> DEFINE r == sched[p].row
<1>2. /\ sched[p] \in Scheduler /\ r \in Schedule /\ call[p].draft \in Draft
      /\ RowOf(r, call[p].draft) /\ deliveries[call[p].draft] > 0
  BY <1>1, DispatchedRow
<1>3. UpdateClaim(r, p, Released(r, "sent", "none"))
  BY DEF Complete, completeClaim
<1>4. SafeStep({r})
  BY <1>2, <1>3, Typed, ReleaseIsSafe
<1>5. Fired(sched[p], 0) \in Scheduler /\ Fired(sched[p], 0).pc = "loop"
  BY <1>2, FiredType, SchedulerAssumption
<1>6. /\ call' = [call EXCEPT ![p] = NoCall]
      /\ sched' = [sched EXCEPT ![p] = Fired(sched[p], 0)]
  BY DEF Complete, Returned
<1> HIDE DEF r
<1> QED
  BY <1>2, <1>4, <1>5, <1>6, ReturnStep DEF Complete

LEMMA FailStep ==
  ASSUME IInv, NEW p \in Process, Fail(p)
  PROVE  IInv'
<1>1. sched[p].pc = "send"
  BY DEF Fail, Returned
<1> DEFINE r == sched[p].row
           e == IF call[p].outcome = "gone" THEN "gone" ELSE "other"
<1>2. sched[p] \in Scheduler /\ r \in Schedule
  BY <1>1, DispatchedRow
<1>3. UpdateClaim(r, p, Released(r, "failed", e))
  BY DEF Fail, failClaim
<1>4. e \in {"none", "gone", "other"}
  OBVIOUS
<1> HIDE DEF e
<1>5. SafeStep({})
  BY <1>2, <1>3, <1>4, Typed, ReleaseIsSafe
<1>6. Fired(sched[p], 0) \in Scheduler /\ Fired(sched[p], 0).pc = "loop"
  BY <1>2, FiredType, SchedulerAssumption
<1>7. /\ call' = [call EXCEPT ![p] = NoCall]
      /\ sched' = [sched EXCEPT ![p] = Fired(sched[p], 0)]
  BY DEF Fail, Returned
<1> QED
  BY <1>5, <1>6, <1>7, ReturnStep DEF Fail

LEMMA RetryStep ==
  ASSUME IInv, NEW p \in Process, Retry(p)
  PROVE  IInv'
<1>1. sched[p].pc = "send"
  BY DEF Retry, Returned
<1> DEFINE r == sched[p].row
           n == NextDelay(sched[p].backoff[r])
<1>2. sched[p] \in Scheduler /\ r \in Schedule
  BY <1>1, DispatchedRow
<1>3. UpdateClaim(r, p, Released(r, "pending", "other"))
  BY DEF Retry, retryClaim
<1>4. SafeStep({})
  BY <1>2, <1>3, Typed, ReleaseIsSafe
<1>5. n \in 0..MaxArm
  <2>1. sched[p].backoff[r] \in 0..MaxArm
    BY <1>2 DEF Scheduler
  <2> QED
    BY <2>1, NextDelayType
<1>6. Fired(sched[p], n) \in Scheduler /\ Fired(sched[p], n).pc = "loop"
  BY <1>2, <1>5, FiredType
<1>7. /\ call' = [call EXCEPT ![p] = NoCall]
      /\ sched' = [sched EXCEPT ![p] = Fired(sched[p], n)]
  BY DEF Retry, Returned
<1> HIDE DEF n
<1> QED
  BY <1>4, <1>6, <1>7, ReturnStep DEF Retry

LEMMA TickFailsStep ==
  ASSUME IInv, NEW p \in Process, TickFails(p)
  PROVE  IInv'
<1> DEFINE listed == [sched[p] EXCEPT !.pc = "loop", !.due = {}]
           new == [listed EXCEPT !.row = Null]
<1>1. sched' = [sched EXCEPT ![p] = new]
  BY DEF TickFails
<1>2. new \in Scheduler /\ new.pc = "loop"
  <2>1. sched[p] \in Scheduler
    BY Typed DEF SchedTypeOK
  <2>2. listed \in Scheduler /\ listed.pc = "loop"
    BY <2>1 DEF Scheduler
  <2> HIDE DEF listed
  <2> QED
    BY <2>2 DEF Scheduler
<1> HIDE DEF new
<1>3. SafeStep({})
  BY Typed, SameRowsAreSafe DEF TickFails
<1> QED
  BY <1>1, <1>2, <1>3, ReturnStep DEF TickFails

LEMMA CrashStep ==
  ASSUME IInv, NEW p \in Process, Crash(p)
  PROVE  IInv'
<1>1. SchedTypeOK' /\ MailboxTypeOK'
  BY Typed, StoppedType DEF Crash, SchedTypeOK, MailboxTypeOK
<1>2. \A x \in Caller : call'[x] = call[x] \/ call'[x] = NoCall
  BY DEF Crash
<1>3. call' \in [Caller -> Call]
  BY Typed, NoCallType DEF Crash
<1>4. \A q \in Process : sched'[q].pc = "send" => q # p /\ sched'[q] = sched[q]
  BY Typed DEF Crash, SchedTypeOK, Stopped
<1>5. \A q \in Process : q # p => call'[q] = call[q]
  BY SchedulerAssumption DEF Crash, Caller, HostedBy
<1>6. SafeStep({})
  BY Typed, SameRowsAreSafe DEF Crash
<1> QED
  BY <1>1, <1>2, <1>3, <1>4, <1>5, <1>6, QuietStep DEF Crash

-----------------------------------------------------------------------------
(* Steps that start a call or bring it forward. *)

LEMMA CallStep ==
  ASSUME IInv, NEW S \in SUBSET Schedule, SafeStep(S), SchedTypeOK', MailboxTypeOK',
         \A r \in S : \E d \in Draft : RowOf(r, d) /\ deliveries[d] > 0,
         \A d \in Draft : deliveries'[d] >= deliveries[d],
         NEW x \in Caller, NEW new \in Call, call' = [call EXCEPT ![x] = new],
         new.phase # "none", new.draft \in Draft,
         new.phase \in {"found", "done"} => new.outcome = "ok",
         new.phase = "cleanup" \/ new.outcome = "ok" => deliveries'[new.draft] > 0,
         new.phase = "found" => new.found \in Schedule /\ RowOf(new.found, new.draft),
         \A p \in Process : sched'[p].pc = "send" =>
           /\ p # x => sched[p].pc = "send" /\ sched'[p].row = sched[p].row
           /\ p = x => sched'[p].row \in Schedule /\ RowOf(sched'[p].row, new.draft)
  PROVE  IInv'
<1>1. call' \in [Caller -> Call] /\ \A y \in Caller : call'[y] = IF y = x THEN new ELSE call[y]
  BY Typed
<1>2. TypeOK'
  BY <1>1 DEF TypeOK, SchedTypeOK, MailboxTypeOK, SafeStep, RowsOK
<1>3. RowsHaveDrafts'
  BY DEF SafeStep, RowsOK
<1>4. deliveries \in [Draft -> 0..2] /\ deliveries' \in [Draft -> 0..2]
  BY Typed DEF MailboxTypeOK
<1>5. CallsDelivered'
  <2> SUFFICES ASSUME NEW y \in Caller
               PROVE  (/\ call[y].phase # "none" => call[y].draft \in Draft
                       /\ call[y].phase = "none" => call[y].outcome = "none"
                       /\ call[y].phase \in {"found", "done"} => call[y].outcome = "ok"
                       /\ call[y].phase = "cleanup" \/ call[y].outcome = "ok" =>
                            deliveries[call[y].draft] > 0)'
    BY DEF CallsDelivered
  <2>1. CASE y = x
    BY <1>1, <2>1
  <2>2. CASE y # x
    <3>1. call'[y] = call[y]
      BY <1>1, <2>2
    <3>2. call[y].phase = "cleanup" \/ call[y].outcome = "ok" =>
            call[y].draft \in Draft /\ deliveries[call[y].draft] > 0
      BY DEF IInv, CallsDelivered
    <3> QED
      BY <1>4, <3>1, <3>2 DEF IInv, CallsDelivered
  <2> QED
    BY <2>1, <2>2
<1>6. FoundRows'
  <2> SUFFICES ASSUME NEW y \in Caller, call'[y].phase = "found"
               PROVE  (call[y].found \in Schedule /\ RowOf(call[y].found, call[y].draft))'
    BY DEF FoundRows
  <2>1. /\ call'[y].found \in Schedule /\ call'[y].draft \in Draft
        /\ RowOf(call'[y].found, call'[y].draft)
    BY <1>1 DEF IInv, FoundRows, CallsDelivered
  <2> QED
    BY <2>1 DEF SafeStep, RowOf
<1>7. FiredRows'
  <2> SUFFICES ASSUME NEW p \in Process, sched'[p].pc = "send"
               PROVE  (/\ sched[p].row \in Schedule
                       /\ call[p].phase # "none"
                       /\ RowOf(sched[p].row, call[p].draft))'
    BY DEF FiredRows
  <2>1. /\ sched'[p].row \in Schedule /\ call'[p].draft \in Draft
        /\ call'[p].phase # "none" /\ RowOf(sched'[p].row, call'[p].draft)
    BY <1>1 DEF IInv, FiredRows, CallsDelivered, Caller
  <2> QED
    BY <2>1 DEF SafeStep, RowOf
<1>8. SentWasDelivered'
  <2> SUFFICES ASSUME NEW r \in Schedule, rows'[r].status = "sent"
               PROVE  deliveries'[rows'[r].draft] > 0
    BY DEF SentWasDelivered, Is
  <2>1. rows'[r].draft \in Draft /\ rows'[r].draft = rows[r].draft
    BY <1>3 DEF RowsHaveDrafts, SafeStep
  <2>2. deliveries[rows'[r].draft] > 0
    <3>1. CASE r \in S
      <4>1. PICK d \in Draft : RowOf(r, d) /\ deliveries[d] > 0
        BY <3>1
      <4>2. RowOf(r, d)'
        BY <4>1 DEF SafeStep
      <4> QED
        BY <4>1, <4>2 DEF RowOf
    <3>2. CASE rows[r].status = "sent"
      BY <2>1, <3>2 DEF IInv, SentWasDelivered, Is
    <3> QED
      BY <3>1, <3>2 DEF SafeStep
  <2> QED
    BY <1>4, <2>1, <2>2
<1> QED
  BY <1>2, <1>3, <1>5, <1>6, <1>7, <1>8 DEF IInv

LEMMA FireStep ==
  ASSUME IInv, NEW p \in Process, NEW r \in Schedule, Fire(p, r)
  PROVE  IInv'
<1>1. SafeStep({})
  BY Typed, ClaimIsSafe DEF Fire
<1>2. rows[r].draft \in Draft
  BY Typed DEF Fire, claimScheduledSend, Claimable, Is, RowsOK, RowsHaveDrafts
<1> DEFINE new == [NoCall EXCEPT !.phase = "called", !.draft = rows[r].draft]
<1>3. new \in Call /\ new.phase = "called" /\ new.draft = rows[r].draft /\ new.outcome = "none"
  BY <1>2, NoCallType DEF Call, NoCall
<1>4. call' = [call EXCEPT ![p] = new]
  BY DEF Fire
<1> DEFINE listed == [sched[p] EXCEPT !.due = @ \ {r}]
           s == [listed EXCEPT !.pc = "send", !.row = r]
<1>5. sched' = [sched EXCEPT ![p] = s]
  BY DEF Fire
<1>6. s \in Scheduler /\ s.row = r
  <2>1. sched[p] \in Scheduler
    BY Typed DEF SchedTypeOK
  <2>2. listed \in Scheduler
    BY <2>1 DEF Scheduler
  <2> HIDE DEF listed
  <2> QED
    BY <2>2 DEF Scheduler
<1> HIDE DEF s, new
<1>7. SchedTypeOK' /\ \A q \in Process : sched'[q] = IF q = p THEN s ELSE sched[q]
  BY <1>5, <1>6, Typed DEF SchedTypeOK
<1>8. MailboxTypeOK' /\ \A d \in Draft : deliveries'[d] >= deliveries[d]
  BY Typed DEF Fire, MailboxTypeOK
<1>9. RowOf(r, rows[r].draft)
  BY DEF RowOf
<1>10. \A q \in Process : sched'[q].pc = "send" =>
         /\ q # p => sched[q].pc = "send" /\ sched'[q].row = sched[q].row
         /\ q = p => sched'[q].row \in Schedule /\ RowOf(sched'[q].row, new.draft)
  BY <1>3, <1>6, <1>7, <1>9 DEF RowOf
<1> QED
  BY <1>1, <1>2, <1>3, <1>4, <1>7, <1>8, <1>10, CallStep DEF Caller

\* The provider or the service brings the call of x forward; its draft stays.
LEMMA ForwardStep ==
  ASSUME IInv, UNCHANGED <<rows, sched>>, MailboxTypeOK',
         \A d \in Draft : deliveries'[d] >= deliveries[d],
         NEW x \in Caller, call[x].phase # "none",
         NEW new \in Call, call' = [call EXCEPT ![x] = new],
         new.phase # "none", new.draft = call[x].draft,
         new.phase \in {"found", "done"} => new.outcome = "ok",
         new.phase = "cleanup" \/ new.outcome = "ok" => deliveries'[new.draft] > 0,
         new.phase = "found" => new.found \in Schedule /\ RowOf(new.found, new.draft)
  PROVE  IInv'
<1>1. SafeStep({}) /\ SchedTypeOK'
  BY Typed, SameRowsAreSafe DEF SchedTypeOK
<1>2. new.draft \in Draft
  BY DEF IInv, CallsDelivered
<1>3. \A p \in Process : sched'[p].pc = "send" =>
        /\ sched[p].pc = "send" /\ sched'[p].row = sched[p].row
        /\ p = x => sched'[p].row \in Schedule /\ RowOf(sched'[p].row, new.draft)
  BY DEF IInv, FiredRows
<1> QED
  BY <1>1, <1>2, <1>3, CallStep

LEMMA AnswerStep ==
  ASSUME IInv, UNCHANGED <<rows, sched>>, MailboxTypeOK',
         \A d \in Draft : deliveries'[d] >= deliveries[d],
         NEW x \in Caller, call[x].phase # "none",
         NEW phase \in {"cleanup", "answered"},
         NEW outcome \in {"none", "ok", "gone", "permanent", "transient"},
         Answer(x, phase, outcome),
         phase = "cleanup" \/ outcome = "ok" => deliveries'[call[x].draft] > 0
  PROVE  IInv'
<1> DEFINE new == [call[x] EXCEPT !.phase = phase, !.outcome = outcome]
<1>1. new \in Call /\ new.phase = phase /\ new.outcome = outcome /\ new.draft = call[x].draft
  <2>1. call[x] \in Call
    BY Typed
  <2> QED
    BY <2>1 DEF Call
<1>2. call' = [call EXCEPT ![x] = new]
  BY DEF Answer
<1> HIDE DEF new
<1> QED
  BY <1>1, <1>2, ForwardStep

LEMMA ProviderStepStep ==
  ASSUME IInv, NEW x \in Caller, ProviderStep(x) \/ CleanUp(x)
  PROVE  IInv'
<1>1. ASSUME Accept(x) PROVE IInv'
  <2> DEFINE d == call[x].draft
  <2>1. d \in Draft /\ call[x].phase # "none"
    BY <1>1 DEF Accept, IInv, CallsDelivered
  <2>2. deliveries \in [Draft -> 0..2]
    BY Typed DEF MailboxTypeOK
  <2>3. deliveries' = [deliveries EXCEPT ![d] = IF @ < 2 THEN @ + 1 ELSE @]
    BY <1>1 DEF Accept
  <2>4. /\ deliveries' \in [Draft -> 0..2] /\ deliveries'[d] > 0
        /\ \A e \in Draft : deliveries'[e] >= deliveries[e]
    BY <2>1, <2>2, <2>3
  <2>5. MailboxTypeOK'
    BY <1>1, <2>1, <2>4, Typed DEF Accept, MailboxTypeOK
  <2>6. UNCHANGED <<rows, sched>>
    BY <1>1 DEF Accept
  <2>7. \/ Answer(x, "cleanup", "none") \/ Answer(x, "answered", "ok")
        \/ Answer(x, "answered", "transient")
    BY <1>1 DEF Accept
  <2> QED
    BY <2>1, <2>4, <2>5, <2>6, <2>7, AnswerStep
<1>2. ASSUME NoSuchDraft(x) \/ Refuse(x) PROVE IInv'
  <2>1. /\ UNCHANGED <<rows, sched, deliveries>> /\ MailboxTypeOK' /\ call[x].phase # "none"
        /\ \A d \in Draft : deliveries'[d] >= deliveries[d]
    BY <1>2, Typed DEF NoSuchDraft, Refuse, MailboxTypeOK
  <2>2. \E outcome \in {"gone", "permanent", "transient"} : Answer(x, "answered", outcome)
    BY <1>2 DEF NoSuchDraft, Refuse
  <2> QED
    BY <2>1, <2>2, AnswerStep
<1>3. ASSUME CleanUp(x) PROVE IInv'
  <2>1. /\ UNCHANGED <<rows, sched, deliveries>> /\ call[x].phase # "none"
        /\ Answer(x, "answered", "ok")
    BY <1>3 DEF CleanUp
  <2>2. MailboxTypeOK' /\ \A d \in Draft : deliveries'[d] >= deliveries[d]
    BY <1>3, Typed DEF CleanUp, MailboxTypeOK
  <2>3. deliveries[call[x].draft] > 0
    BY <1>3 DEF CleanUp, IInv, CallsDelivered
  <2> QED
    BY <2>1, <2>2, <2>3, AnswerStep
<1> QED
  BY <1>1, <1>2, <1>3 DEF ProviderStep

\* A client's request is over; the rows of S, if any, became sent.
LEMMA ClientReturns ==
  ASSUME IInv, NEW c \in Client, NEW S \in SUBSET Schedule, SafeStep(S),
         \A r \in S : \E d \in Draft : RowOf(r, d) /\ deliveries[d] > 0,
         call' = [call EXCEPT ![c] = NoCall], SchedTypeOK',
         \A p \in Process : sched'[p].pc = "send" =>
           sched[p].pc = "send" /\ sched'[p].row = sched[p].row,
         UNCHANGED <<drafts, deliveries, removed, overQuota>>
  PROVE  IInv'
<1>1. MailboxTypeOK' /\ call' \in [Caller -> Call]
  BY Typed, NoCallType DEF MailboxTypeOK
<1>2. \A x \in Caller : call'[x] = IF x = c THEN NoCall ELSE call[x]
  BY Typed DEF Caller
<1>3. \A q \in Process : call'[q] = call[q]
  BY <1>2, SchedulerAssumption DEF Caller
<1> QED
  BY <1>1, <1>2, <1>3, QuietStep

LEMMA LookStep ==
  ASSUME IInv, NEW x \in Caller, Look(x)
  PROVE  IInv'
<1>1. /\ call[x] \in Call /\ call[x].outcome = "ok" /\ call[x].phase = "answered"
      /\ deliveries[call[x].draft] > 0 /\ call[x].draft \in Draft
  BY Typed DEF Look, IInv, CallsDelivered
<1>2. /\ SafeStep({}) /\ SchedTypeOK' /\ MailboxTypeOK' /\ UNCHANGED <<rows, sched, deliveries>>
      /\ \A d \in Draft : deliveries'[d] >= deliveries[d]
  <2>1. UNCHANGED <<rows, sched, drafts, deliveries, removed, overQuota>>
    BY DEF Look
  <2> QED
    BY <2>1, Typed, SameRowsAreSafe DEF SchedTypeOK, MailboxTypeOK
<1>3. CASE \E r \in PendingFor(call[x].draft) :
             call' = [call EXCEPT ![x] = [@ EXCEPT !.phase = "found", !.found = r]]
  <2>1. PICK r \in PendingFor(call[x].draft) :
          call' = [call EXCEPT ![x] = [@ EXCEPT !.phase = "found", !.found = r]]
    BY <1>3
  <2>2. r \in Schedule /\ RowOf(r, call[x].draft)
    BY DEF PendingFor, RowOf
  <2> DEFINE new == [call[x] EXCEPT !.phase = "found", !.found = r]
  <2>3. /\ new \in Call /\ new.phase = "found" /\ new.found = r /\ new.outcome = "ok"
        /\ new.draft = call[x].draft
    BY <1>1, <2>2 DEF Call
  <2> HIDE DEF new
  <2> QED
    BY <1>1, <1>2, <2>1, <2>2, <2>3, ForwardStep DEF new
<1>4. CASE call' = [call EXCEPT ![x] = [@ EXCEPT !.phase = "done"]]
  <2> DEFINE new == [call[x] EXCEPT !.phase = "done"]
  <2>1. /\ new \in Call /\ new.phase = "done" /\ new.outcome = "ok"
        /\ new.draft = call[x].draft
    BY <1>1 DEF Call
  <2>2. call' = [call EXCEPT ![x] = new]
    BY <1>4
  <2> HIDE DEF new
  <2> QED
    BY <1>1, <1>2, <2>1, <2>2, ForwardStep
<1>5. CASE x \in Client /\ call' = [call EXCEPT ![x] = NoCall]
  BY <1>2, <1>5, ClientReturns DEF Look
<1> QED
  BY <1>3, <1>4, <1>5 DEF Look

LEMMA ScheduleChangedType ==
  ASSUME IInv, NEW h \in Process \cup {Null}, ScheduleChanged(h)
  PROVE  /\ SchedTypeOK'
         /\ \A q \in Process : sched'[q].pc = "send" =>
              sched[q].pc = "send" /\ sched'[q].row = sched[q].row
<1>1. CASE h = Null
  BY <1>1, Typed DEF ScheduleChanged, SchedTypeOK
<1>2. CASE h # Null
  <2>1. sched' = [sched EXCEPT ![h] = Poked(sched[h])] /\ sched \in [Process -> Scheduler]
    BY <1>2, Typed DEF ScheduleChanged, SchedTypeOK
  <2>2. /\ Poked(sched[h]) \in Scheduler
        /\ Poked(sched[h]).pc = "send" => /\ sched[h].pc = "send"
                                          /\ Poked(sched[h]).row = sched[h].row
    BY <1>2, <2>1, PokedType
  <2> QED
    BY <1>2, <2>1, <2>2 DEF SchedTypeOK
<1> QED
  BY <1>1, <1>2

LEMMA SupersedeStep ==
  ASSUME IInv, NEW x \in Caller, Supersede(x)
  PROVE  IInv'
<1> DEFINE r == call[x].found
           d == call[x].draft
<1>1. /\ call[x] \in Call /\ call[x].phase = "found" /\ call[x].outcome = "ok"
      /\ r \in Schedule /\ d \in Draft /\ RowOf(r, d) /\ deliveries[d] > 0
  BY Typed DEF Supersede, IInv, CallsDelivered, FoundRows
<1>2. SafeStep({r})
  BY <1>1, Typed, MarkSentIsSafe DEF Supersede
<1>3. \A s \in {r} : \E e \in Draft : RowOf(s, e) /\ deliveries[e] > 0
  BY <1>1
<1>4. Host(x) \in Process \cup {Null}
  BY SchedulerAssumption DEF Host, Caller
<1>5. /\ SchedTypeOK'
      /\ \A q \in Process : sched'[q].pc = "send" =>
           sched[q].pc = "send" /\ sched'[q].row = sched[q].row
  BY <1>4, ScheduleChangedType DEF Supersede
<1>6. /\ MailboxTypeOK' /\ UNCHANGED <<drafts, deliveries, removed, overQuota>>
      /\ \A e \in Draft : deliveries'[e] >= deliveries[e]
  BY Typed DEF Supersede, MailboxTypeOK
<1>7. CASE x \in Client
  <2>1. call' = [call EXCEPT ![x] = NoCall]
    BY <1>7 DEF Supersede
  <2> HIDE DEF r, d
  <2> QED
    BY <1>1, <1>2, <1>3, <1>5, <1>6, <1>7, <2>1, ClientReturns
<1>8. CASE x \notin Client
  <2> DEFINE new == [call[x] EXCEPT !.phase = "done", !.found = Null]
  <2>1. new \in Call /\ new.phase = "done" /\ new.outcome = "ok" /\ new.draft = d
    BY <1>1 DEF Call
  <2>2. call' = [call EXCEPT ![x] = new]
    BY <1>8 DEF Supersede
  <2>3. \A p \in Process : sched'[p].pc = "send" /\ p = x =>
          sched'[p].row \in Schedule /\ RowOf(sched'[p].row, d)
    BY <1>5 DEF IInv, FiredRows
  <2> HIDE DEF new, r
  <2> QED
    BY <1>1, <1>2, <1>3, <1>5, <1>6, <2>1, <2>2, <2>3, CallStep
<1> QED
  BY <1>7, <1>8

LEMMA SendNowStep ==
  ASSUME IInv, NEW c \in Client, NEW d \in Draft, SendNow(c, d)
  PROVE  IInv'
<1> DEFINE new == [NoCall EXCEPT !.phase = "called", !.draft = d]
<1>1. new \in Call /\ new.phase = "called" /\ new.draft = d /\ new.outcome = "none"
  BY NoCallType DEF NoCall, Call
<1>2. call' = [call EXCEPT ![c] = new]
  BY DEF SendNow
<1>3. /\ SafeStep({}) /\ SchedTypeOK' /\ MailboxTypeOK' /\ UNCHANGED sched
      /\ \A e \in Draft : deliveries'[e] >= deliveries[e]
  BY Typed, SameRowsAreSafe DEF SendNow, SchedTypeOK, MailboxTypeOK
<1>4. c \in Caller /\ c \notin Process
  BY SchedulerAssumption DEF Caller
<1> HIDE DEF new
<1> QED
  BY <1>1, <1>2, <1>3, <1>4, CallStep

-----------------------------------------------------------------------------
(* User requests, the license and time. *)

LEMMA UserStepStep ==
  ASSUME IInv, UserStep
  PROVE  IInv'
<1>1. ASSUME NEW c \in Client, ClientGivesUp(c) PROVE IInv'
  <2>1. /\ SchedTypeOK' /\ SafeStep({}) /\ call' = [call EXCEPT ![c] = NoCall]
        /\ UNCHANGED <<sched, drafts, deliveries, removed, overQuota>>
    BY <1>1, Typed, SameRowsAreSafe DEF ClientGivesUp, SchedTypeOK
  <2> QED
    BY <2>1, ClientReturns
<1>2. ASSUME NEW c \in Client, NEW d \in Draft, SendNow(c, d) PROVE IInv'
  BY <1>2, SendNowStep
<1>3. ASSUME NEW r \in Schedule, NEW h \in Process \cup {Null}, CancelScheduled(r, h)
      PROVE  IInv'
  <2>1. SafeStep({}) /\ MailboxTypeOK'
    BY <1>3, Typed, CancelIsSafe DEF CancelScheduled, MailboxTypeOK
  <2> QED
    BY <1>3, <2>1, ScheduleChangedStep DEF CancelScheduled
<1>4. ASSUME NEW r \in Schedule, NEW h \in Process \cup {Null}, NEW d \in Draft,
             NEW t \in 0..Horizon, ScheduleSend(r, d, t, h)
      PROVE  IInv'
  <2>1. SafeStep({}) /\ MailboxTypeOK'
    BY <1>4, Typed, CreateIsSafe DEF ScheduleSend, MailboxTypeOK
  <2> QED
    BY <1>4, <2>1, ScheduleChangedStep DEF ScheduleSend
<1>5. ASSUME NEW a \in Account, RemoveAccount(a) PROVE IInv'
  <2>1. SafeStep({}) /\ MailboxTypeOK' /\ SchedTypeOK'
    BY <1>5, Typed, CascadeIsSafe DEF RemoveAccount, MailboxTypeOK, SchedTypeOK
  <2> QED
    BY <1>5, <2>1, SchedulingStep DEF RemoveAccount
<1>6. ASSUME NEW d \in Draft, TakeOutside(d) PROVE IInv'
  <2>1. SafeStep({}) /\ MailboxTypeOK' /\ SchedTypeOK'
    BY <1>6, Typed, SameRowsAreSafe DEF TakeOutside, MailboxTypeOK, SchedTypeOK
  <2> QED
    BY <1>6, <2>1, SchedulingStep DEF TakeOutside
<1> QED
  BY <1>1, <1>2, <1>3, <1>4, <1>5, <1>6 DEF UserStep

LEMMA LicenseStep ==
  ASSUME IInv, Lapse \/ Trim \/ \E p \in Process : Renew(p)
  PROVE  IInv'
<1>1. SafeStep({}) /\ MailboxTypeOK'
  BY Typed, SameRowsAreSafe DEF Lapse, Trim, Renew, MailboxTypeOK
<1>2. CASE Lapse \/ Trim
  <2>1. SchedTypeOK' /\ UNCHANGED <<sched, call, deliveries>>
    BY <1>2, Typed DEF Lapse, Trim, SchedTypeOK
  <2> QED
    BY <1>1, <2>1, SchedulingStep
<1>3. ASSUME NEW p \in Process, Renew(p) PROVE IInv'
  <2>1. /\ sched' = [sched EXCEPT ![p] = Poked(sched[p])] /\ sched[p] \in Scheduler
        /\ UNCHANGED <<call, deliveries>>
    BY <1>3, Typed DEF Renew, SchedTypeOK
  <2> QED
    BY <1>1, <2>1, PokeStep
<1> QED
  BY <1>2, <1>3

LEMMA ElapseStep ==
  ASSUME IInv, Elapse
  PROVE  IInv'
<1>1. SafeStep({}) /\ MailboxTypeOK'
  BY Typed, AgeIsSafe DEF Elapse, MailboxTypeOK
<1> DEFINE timer(p) == IF sched[p].timer = NoTimer THEN sched[p].timer
                       ELSE Dec(sched[p].timer, 0)
           wait(p) == [r \in Schedule |-> Dec(sched[p].wait[r], 0)]
           aged(p) == [sched[p] EXCEPT !.timer = timer(p), !.hold = Dec(@, 0)]
           new(p) == [aged(p) EXCEPT !.wait = wait(p)]
<1>2. \A p \in Process : sched'[p] = new(p)
  BY DEF Elapse
<1>3. ASSUME NEW p \in Process
      PROVE  new(p) \in Scheduler /\ new(p).pc = sched[p].pc /\ new(p).row = sched[p].row
  <2>1. sched[p] \in Scheduler
    BY Typed DEF SchedTypeOK
  <2>2. timer(p) \in {NoTimer} \cup 0..MaxArm /\ Dec(sched[p].hold, 0) \in 0..MaxArm
    BY <2>1, SchedulerAssumption DEF Scheduler, Dec
  <2>3. wait(p) \in [Schedule -> 0..MaxArm]
    BY <2>1, SchedulerAssumption DEF Scheduler, Dec
  <2> HIDE DEF timer, wait
  <2>4. aged(p) \in Scheduler /\ aged(p).pc = sched[p].pc /\ aged(p).row = sched[p].row
    BY <2>1, <2>2 DEF Scheduler
  <2> HIDE DEF aged
  <2> QED
    BY <2>3, <2>4 DEF Scheduler
<1>4. sched' = [p \in Process |-> sched'[p]]
  BY DEF Elapse
<1> HIDE DEF new
<1>5. SchedTypeOK'
  BY <1>2, <1>3, <1>4 DEF SchedTypeOK
<1> QED
  BY <1>1, <1>2, <1>3, <1>5, SchedulingStep DEF Elapse

-----------------------------------------------------------------------------
(* The invariant. *)

LEMMA InitInv == Init => IInv
<1> SUFFICES ASSUME Init PROVE IInv
  OBVIOUS
<1>1. NoRow \in Row
  BY StoreAssumption DEF Row, NoRow
<1>2. TypeOK
  <2>1. rows \in [Schedule -> Row]
    BY <1>1 DEF Init, StoreInit
  <2>2. sched \in [Process -> Scheduler] /\ call \in [Caller -> Call]
    BY StoppedType, NoCallType DEF Init
  <2>3. drafts \in [Draft -> {"none", "present", "gone"}]
    BY DEF Init
  <2>4. deliveries \in [Draft -> 0..2]
    BY DEF Init
  <2>5. removed \subseteq Account /\ overQuota \in BOOLEAN
    BY DEF Init
  <2> QED
    BY <2>1, <2>2, <2>3, <2>4, <2>5 DEF TypeOK
<1>3. RowsHaveDrafts /\ SentWasDelivered
  BY DEF Init, StoreInit, NoRow, RowsHaveDrafts, SentWasDelivered, Is
<1>4. CallsDelivered /\ FoundRows
  BY DEF Init, NoCall, CallsDelivered, FoundRows
<1>5. FiredRows
  BY DEF Init, Stopped, FiredRows
<1> QED
  BY <1>2, <1>3, <1>4, <1>5 DEF IInv

LEMMA StepInv == IInv /\ [Next]_vars => IInv'
<1> SUFFICES ASSUME IInv, [Next]_vars PROVE IInv'
  OBVIOUS
<1>1. ASSUME NEW p \in Process, Start(p) PROVE IInv'
  BY <1>1, StartStep
<1>2. ASSUME NEW p \in Process, SchedulerStep(p) PROVE IInv'
  BY <1>2, TimerFiresStep, TickStep, FinishStep, FireStep, SkipStep, CompleteStep, FailStep,
     RetryStep DEF SchedulerStep
<1>3. ASSUME NEW p \in Process, TickFails(p) \/ Crash(p) PROVE IInv'
  BY <1>3, TickFailsStep, CrashStep
<1>4. ASSUME NEW x \in Caller, ProviderStep(x) \/ ServiceStep(x) PROVE IInv'
  BY <1>4, ProviderStepStep, LookStep, SupersedeStep DEF ServiceStep
<1>5. CASE UserStep
  BY <1>5, UserStepStep
<1>6. CASE Lapse \/ Trim \/ \E p \in Process : Renew(p)
  BY <1>6, LicenseStep
<1>7. CASE Elapse
  BY <1>7, ElapseStep
<1>8. CASE UNCHANGED vars
  BY <1>8 DEF vars, IInv, TypeOK, RowsHaveDrafts, CallsDelivered, FoundRows, FiredRows, RowOf,
              SentWasDelivered, Is
<1> QED
  BY <1>1, <1>2, <1>3, <1>4, <1>5, <1>6, <1>7, <1>8 DEF Next

LEMMA Invariance == Spec => []IInv
  BY InitInv, StepInv, PTL DEF Spec

\* The scheduler's memory, the calls and the rows keep their types, whatever the
\* delays, retries and crashes: the backoff never grows past MAX_ARM_MS, and a
\* timer is never armed further ahead.
THEOREM TypesAreKept == Spec => []TypeOK
<1>1. IInv => TypeOK
  BY DEF IInv
<1> QED
  BY <1>1, Invariance, PTL

\* A schedule is recorded as sent (completeClaim, markSent) only when its draft
\* went out, for any number of processes and requests and under every fault.
THEOREM SentIsTrue == Spec => []SentWasDelivered
<1>1. IInv => SentWasDelivered
  BY DEF IInv
<1> QED
  BY <1>1, Invariance, PTL

-----------------------------------------------------------------------------
(* A claim whose lease runs is left alone. *)

LEMMA PokedMove ==
  ASSUME NEW s \in Scheduler
  PROVE  /\ Poked(s).row = s.row /\ Poked(s).due = s.due
         /\ Poked(s).pc = s.pc \/ (s.pc = "idle" /\ Poked(s).pc = "tick")
<1>1. CASE s.pc = "idle"
  <2>1. Poked(s) = [s EXCEPT !.pc = "tick"]
    BY <1>1 DEF Poked
  <2> QED
    BY <1>1, <2>1 DEF Scheduler
<1>2. CASE s.pc = "down"
  BY <1>2 DEF Poked
<1>3. CASE s.pc \notin {"idle", "down"}
  <2>1. Poked(s) = [s EXCEPT !.rerun = TRUE]
    BY <1>3 DEF Poked
  <2> QED
    BY <2>1 DEF Scheduler
<1> QED
  BY <1>1, <1>2, <1>3

\* What process p itself does with its scheduler, once its timer or a request has
\* made it run.
Own(p) == \/ Start(p) \/ Tick(p) \/ Finish(p) \/ TickFails(p) \/ Crash(p)
          \/ \E r \in Schedule : Fire(p, r) \/ Skip(p, r)
          \/ Complete(p) \/ Fail(p) \/ Retry(p)

\* Where the scheduler of p stands after a step that is not its own: where it
\* stood, or about to list because the timer or a request poked it.
Poking(p) == AtAwait(p) \/ \E x \in Caller : Supersede(x) /\ Host(x) = p

Stays(p) == /\ sched'[p].row = sched[p].row /\ sched'[p].due = sched[p].due
            /\ \/ sched'[p].pc = sched[p].pc
               \/ sched[p].pc = "idle" /\ sched'[p].pc = "tick" /\ Poking(p)

LEMMA OwnStep ==
  ASSUME IInv, Next, NEW p \in Process
  PROVE  Stays(p) \/ Own(p)
<1>1. sched \in [Process -> Scheduler] /\ sched[p] \in Scheduler
  BY Typed DEF SchedTypeOK
<1>2. ASSUME NEW s, s = sched[p] \/ s = [sched[p] EXCEPT !.timer = NoTimer],
             sched'[p] = Poked(s), Poking(p)
      PROVE  Stays(p)
  <2>1. s \in Scheduler /\ s.row = sched[p].row /\ s.due = sched[p].due /\ s.pc = sched[p].pc
    BY <1>1, <1>2 DEF Scheduler
  <2> QED
    BY <1>2, <2>1, PokedMove DEF Stays
<1>3. sched'[p] = sched[p] => Stays(p)
  BY DEF Stays
<1>4. ASSUME NEW h \in Process \cup {Null}, ScheduleChanged(h), h = p => Poking(p)
      PROVE  Stays(p)
  <2>1. CASE h = p
    <3>1. sched'[p] = Poked(sched[p])
      BY <1>1, <1>4, <2>1, StoreAssumption DEF ScheduleChanged
    <3> QED
      BY <1>2, <1>4, <2>1, <3>1
  <2>2. CASE h # p
    BY <1>1, <1>3, <1>4, <2>2 DEF ScheduleChanged
  <2> QED
    BY <2>1, <2>2
<1>5. ASSUME NEW q \in Process, Own(q) PROVE Stays(p) \/ Own(p)
  <2>1. \E s : sched' = [sched EXCEPT ![q] = s]
    BY <1>5 DEF Own, Start, Tick, Finish, TickFails, Crash, Fire, Skip, Complete, Fail, Retry
  <2> QED
    BY <1>1, <1>3, <1>5, <2>1
<1>6. ASSUME NEW q \in Process, TimerFires(q) \/ Renew(q)
      PROVE  Stays(p)
  <2>1. CASE q = p
    <3>1. Poking(p)
      BY <1>6, <2>1 DEF TimerFires, Renew, Poking
    <3>2. \/ sched'[p] = Poked(sched[p])
          \/ sched'[p] = Poked([sched[p] EXCEPT !.timer = NoTimer])
      BY <1>1, <1>6, <2>1 DEF TimerFires, Renew
    <3> QED
      BY <1>2, <3>1, <3>2
  <2>2. CASE q # p
    BY <1>1, <1>3, <1>6, <2>2 DEF TimerFires, Renew
  <2> QED
    BY <2>1, <2>2
<1>7. ASSUME NEW x \in Caller, Supersede(x) PROVE Stays(p)
  <2>1. Host(x) \in Process \cup {Null}
    BY SchedulerAssumption DEF Host, Caller
  <2> QED
    BY <1>4, <1>7, <2>1 DEF Supersede, Poking
<1>8. ASSUME NEW h \in Hosts, ScheduleChanged(h) PROVE Stays(p)
  <2>1. h \in Process \cup {Null} /\ (h = p => Poking(p))
    BY StoreAssumption DEF Hosts, Poking
  <2> QED
    BY <1>4, <1>8, <2>1
<1>9. ASSUME Elapse PROVE Stays(p)
  <2> DEFINE timer == IF sched[p].timer = NoTimer THEN sched[p].timer
                      ELSE Dec(sched[p].timer, 0)
             wait == [r \in Schedule |-> Dec(sched[p].wait[r], 0)]
             hold == Dec(sched[p].hold, 0)
             aged == [sched[p] EXCEPT !.timer = timer, !.hold = hold]
  <2>1. sched'[p] = [aged EXCEPT !.wait = wait]
    BY <1>9 DEF Elapse
  <2> HIDE DEF timer, hold
  <2>2. /\ aged.row = sched[p].row /\ aged.due = sched[p].due /\ aged.pc = sched[p].pc
        /\ DOMAIN aged = DOMAIN sched[p]
    BY <1>1 DEF Scheduler
  <2> HIDE DEF aged, wait
  <2> QED
    BY <1>1, <2>1, <2>2 DEF Scheduler, Stays
<1>10. \/ UNCHANGED sched
       \/ \E h \in Hosts : ScheduleChanged(h)
       \/ Elapse
       \/ \E x \in Caller : Supersede(x)
       \/ \E q \in Process : Own(q) \/ TimerFires(q) \/ Renew(q)
  BY DEF Next, SchedulerStep, Own, ProviderStep, ServiceStep, UserStep, Accept, NoSuchDraft,
         Refuse, CleanUp, Look, ClientGivesUp, SendNow, CancelScheduled, ScheduleSend,
         RemoveAccount, TakeOutside, Lapse, Trim
<1> QED
  BY <1>3, <1>5, <1>6, <1>7, <1>8, <1>9, <1>10

\* A process that stops dispatching gives up its call.
LEMMA DispatchEnds ==
  ASSUME IInv, NEW p \in Process, Own(p), sched[p].pc = "send"
  PROVE  sched'[p].pc \in {"loop", "down"} /\ call'[p] = NoCall
<1>1. /\ sched \in [Process -> Scheduler] /\ sched[p] \in Scheduler
      /\ call \in [Caller -> Call] /\ p \in Caller /\ sched[p].row \in Schedule
  BY Typed DEF SchedTypeOK, Caller, IInv, FiredRows
<1>2. \/ TickFails(p) \/ Crash(p) \/ Complete(p) \/ Fail(p) \/ Retry(p)
  BY DEF Own, Start, Tick, Finish, Fire, Skip
<1>3. call'[p] = NoCall
  BY <1>1, <1>2 DEF TickFails, Crash, Complete, Fail, Retry, Returned
<1>4. CASE TickFails(p)
  <2> DEFINE listed == [sched[p] EXCEPT !.pc = "loop", !.due = {}]
  <2>1. listed \in Scheduler /\ listed.pc = "loop"
    BY <1>1 DEF Scheduler
  <2>2. sched'[p] = [listed EXCEPT !.row = Null]
    BY <1>1, <1>4 DEF TickFails
  <2> HIDE DEF listed
  <2> QED
    BY <1>3, <2>1, <2>2 DEF Scheduler
<1>5. CASE Crash(p)
  BY <1>1, <1>3, <1>5 DEF Crash, Stopped
<1>6. CASE Complete(p) \/ Fail(p) \/ Retry(p)
  <2>1. NextDelay(sched[p].backoff[sched[p].row]) \in 0..MaxArm
    BY <1>1, NextDelayType DEF Scheduler
  <2>2. \E n \in 0..MaxArm : sched' = [sched EXCEPT ![p] = Fired(sched[p], n)]
    BY <1>6, <2>1, SchedulerAssumption DEF Complete, Fail, Retry
  <2> QED
    BY <1>1, <1>3, <2>2, FiredType
<1> QED
  BY <1>2, <1>4, <1>5, <1>6

\* A process that goes on dispatching dispatches the same row.
LEMMA SameDispatch ==
  ASSUME IInv, Next, NEW p \in Process, sched[p].pc = "send", sched'[p].pc = "send"
  PROVE  sched'[p].row = sched[p].row
BY OwnStep, DispatchEnds DEF Stays

\* Row r is claimed by process p.
Held(r, p) == rows[r].status = "sending" /\ rows[r].token = p

\* What may take row r from the process p that dispatches it under a lease, or
\* alone on the store.
LEMMA SameClaim ==
  ASSUME IInv, Next, NEW p \in Process, sched[p].pc = "send", sched'[p].pc = "send",
         NEW r \in Schedule, sched[p].row = r, Held(r, p),
         rows[r].claimLeft > 0 \/ \A q \in Process : q = p
  PROVE  \/ Held(r, p)'
         \/ rows'[r].status = "deleted"
         \/ \E x \in Caller : call[x].phase = "found" /\ call[x].found = r
<1> DEFINE Goal == \/ Held(r, p)'
                   \/ rows'[r].status = "deleted"
                   \/ \E x \in Caller : call[x].phase = "found" /\ call[x].found = r
<1>1. /\ rows \in [Schedule -> Row] /\ rows[r] \in Row /\ sched[p] \in Scheduler
      /\ rows[r].status = "sending" /\ rows[r].token = p
  BY Typed DEF RowsOK, SchedTypeOK, Held
<1>2. rows'[r] = rows[r] => Goal
  BY <1>1 DEF Held
<1>3. ASSUME NEW q \in Process, NEW s \in Schedule, Fire(q, s) PROVE Goal
  BY <1>1, <1>2, <1>3 DEF Fire, claimScheduledSend, Claimable, Is
<1>4. ASSUME NEW q \in Process, Complete(q) \/ Fail(q) \/ Retry(q) PROVE Goal
  <2>1. sched[q].pc = "send" /\ sched[q].row \in Schedule /\ sched[q] \in Scheduler
    BY <1>4, Typed DEF Complete, Fail, Retry, Returned, IInv, FiredRows, SchedTypeOK
  <2>2. q # p
    <3>1. NextDelay(sched[q].backoff[sched[q].row]) \in 0..MaxArm
      BY <2>1, NextDelayType DEF Scheduler
    <3>2. \E n \in 0..MaxArm : sched' = [sched EXCEPT ![q] = Fired(sched[q], n)]
      BY <1>4, <3>1, SchedulerAssumption DEF Complete, Fail, Retry
    <3> QED
      BY <2>1, <3>2, FiredType, Typed DEF SchedTypeOK
  <2>3. rows[sched[q].row].token # q => rows' = rows
    BY <1>4 DEF Complete, Fail, Retry, completeClaim, failClaim, retryClaim, UpdateClaim
  <2>4. \E row : rows' = rows \/ rows' = [rows EXCEPT ![sched[q].row] = row]
    BY <1>4 DEF Complete, Fail, Retry, completeClaim, failClaim, retryClaim, UpdateClaim
  <2> QED
    BY <1>1, <1>2, <2>1, <2>2, <2>3, <2>4
<1>5. ASSUME NEW R \in SUBSET Schedule, holdPending(R) PROVE Goal
  BY <1>1, <1>2, <1>5 DEF holdPending, Is
<1>6. ASSUME NEW x \in Caller, Supersede(x) PROVE Goal
  <2>1. CASE call[x].found = r
    BY <1>6, <2>1 DEF Supersede
  <2>2. CASE call[x].found # r
    BY <1>1, <1>2, <1>6, <2>2 DEF Supersede, markSent
  <2> QED
    BY <2>1, <2>2
<1>7. ASSUME NEW s \in Schedule, NEW h, CancelScheduled(s, h) PROVE Goal
  BY <1>1, <1>2, <1>7 DEF CancelScheduled, cancelScheduledSend, Is
<1>8. ASSUME NEW s \in Schedule, NEW h, NEW d, NEW t, ScheduleSend(s, d, t, h) PROVE Goal
  BY <1>1, <1>2, <1>8 DEF ScheduleSend, createScheduledSend, Is
<1>9. ASSUME NEW a, RemoveAccount(a) PROVE Goal
  <2>1. rows'[r] \in {rows[r], [NoRow EXCEPT !.status = "deleted"]}
    BY <1>9 DEF RemoveAccount, CascadeAccount
  <2> QED
    BY <1>2, <2>1 DEF NoRow
<1>10. ASSUME Elapse PROVE Goal
  <2>1. rows'[r] = IF rows[r].draft = Null THEN rows[r]
                   ELSE [rows[r] EXCEPT !.sendAt = Dec(rows[r].sendAt, -Late),
                                        !.claimLeft = Dec(rows[r].claimLeft, 0)]
    BY <1>10 DEF Elapse, RowsAge
  <2>2. rows'[r].status = rows[r].status /\ rows'[r].token = rows[r].token
    BY <1>1, <2>1 DEF Row
  <2> QED
    BY <1>1, <2>2 DEF Held
<1>11. \/ UNCHANGED rows
       \/ Elapse
       \/ \E x \in Caller : Supersede(x)
       \/ \E q \in Process, s \in Schedule : Fire(q, s)
       \/ \E q \in Process : Complete(q) \/ Fail(q) \/ Retry(q)
       \/ \E q \in Process : holdPending(Due(q))
       \/ UserStep
  BY DEF Next, SchedulerStep, ProviderStep, ServiceStep, Start, TimerFires, Tick, Skip, Finish,
         TickFails, Crash, Renew, Accept, NoSuchDraft, Refuse, CleanUp, Look, Lapse, Trim
<1>12. \A q \in Process : Due(q) \in SUBSET Schedule
  BY DEF Due
<1>13. ASSUME UserStep PROVE Goal
  <2>1. UNCHANGED rows => Goal
    BY <1>2
  <2> QED
    BY <1>7, <1>8, <1>9, <1>13, <2>1 DEF UserStep, ClientGivesUp, SendNow, TakeOutside
<1>14. UNCHANGED rows => Goal
  BY <1>2
<1> QED
  BY <1>3, <1>4, <1>5, <1>6, <1>10, <1>11, <1>12, <1>13, <1>14

LEMMA ExclusiveStep ==
  ASSUME IInv, [Next]_vars, NEW p \in Process, Owns(p), rows[sched[p].row].claimLeft > 0
  PROVE  \/ Owns(p)' \/ sched'[p].pc # "send"
         \/ rows'[sched[p].row].status = "deleted"
         \/ \E x \in Caller : call[x].phase = "found" /\ call[x].found = sched[p].row
<1>1. CASE UNCHANGED vars
  BY <1>1 DEF vars, Owns, Is
<1>2. CASE Next /\ sched'[p].pc = "send"
  <2>1. PICK r \in Schedule : sched[p].row = r /\ Held(r, p) /\ sched[p].pc = "send"
    BY DEF Owns, Is, Held, IInv, FiredRows
  <2>2. sched'[p].row = r
    BY <1>2, <2>1, SameDispatch
  <2>3. \/ Held(r, p)'
        \/ rows'[r].status = "deleted"
        \/ \E x \in Caller : call[x].phase = "found" /\ call[x].found = r
    BY <1>2, <2>1, SameClaim
  <2> QED
    BY <1>2, <2>1, <2>2, <2>3 DEF Held, Owns, Is
<1> QED
  BY <1>1, <1>2

\* While a process dispatches a row and its lease runs, nobody takes the row from
\* it: no other claimScheduledSend, no cancelScheduledSend, no stale holder of an
\* earlier claim.
THEOREM ClaimsAreExclusive == Spec => ActiveClaimIsExclusive
<1>1. IInv /\ [Next]_vars =>
        [\A p \in Process : Owns(p) /\ rows[sched[p].row].claimLeft > 0 =>
           \/ Owns(p)' \/ sched'[p].pc # "send"
           \/ rows'[sched[p].row].status = "deleted"
           \/ \E x \in Caller : call[x].phase = "found" /\ call[x].found = sched[p].row]_vars
  BY ExclusiveStep
<1> QED
  BY <1>1, Invariance, PTL DEF Spec, ActiveClaimIsExclusive
-----------------------------------------------------------------------------
(* What a step does to the calls. *)

LEMMA CallMoves ==
  ASSUME IInv, [Next]_vars, NEW x \in Caller
  PROVE  \/ call'[x] = call[x] \/ call'[x] = NoCall
         \/ ProviderStep(x) \/ ServiceStep(x)
         \/ x \in Process /\ \E r \in Schedule : Fire(x, r)
         \/ x \in Client /\ \E d \in Draft : SendNow(x, d)
<1> DEFINE Same == call'[x] = call[x] \/ call'[x] = NoCall
<1>1. call \in [Caller -> Call] /\ Process \subseteq Caller /\ Client \subseteq Caller
  BY Typed DEF Caller
<1>2. ASSUME NEW y \in Caller, y # x, \E c : call' = [call EXCEPT ![y] = c] PROVE Same
  BY <1>1, <1>2
<1>3. ASSUME NEW y \in Caller, ProviderStep(y) \/ ServiceStep(y)
      PROVE  Same \/ ProviderStep(x) \/ ServiceStep(x)
  <2>1. \E c : call' = [call EXCEPT ![y] = c]
    BY <1>3 DEF ProviderStep, ServiceStep, Accept, NoSuchDraft, Refuse, CleanUp, Look, Supersede,
                Answer
  <2> QED
    BY <1>2, <1>3, <2>1
<1>4. ASSUME NEW p \in Process,
             \/ Complete(p) \/ Fail(p) \/ Retry(p) \/ TickFails(p) \/ Crash(p)
             \/ \E r \in Schedule : Fire(p, r)
      PROVE  Same \/ (x \in Process /\ \E r \in Schedule : Fire(x, r))
  <2>1. CASE Crash(p)
    BY <2>1 DEF Crash
  <2>2. CASE Complete(p) \/ Fail(p) \/ Retry(p) \/ TickFails(p)
    BY <1>1, <2>2 DEF Complete, Fail, Retry, TickFails, Returned
  <2>3. CASE \E r \in Schedule : Fire(p, r)
    <3>1. \E c : call' = [call EXCEPT ![p] = c]
      BY <2>3 DEF Fire
    <3> QED
      BY <1>1, <1>2, <2>3, <3>1
  <2> QED
    BY <1>4, <2>1, <2>2, <2>3
<1>5. ASSUME NEW c \in Client, ClientGivesUp(c) \/ \E d \in Draft : SendNow(c, d)
      PROVE  Same \/ (x \in Client /\ \E d \in Draft : SendNow(x, d))
  <2>1. CASE ClientGivesUp(c)
    BY <1>1, <2>1 DEF ClientGivesUp
  <2>2. CASE \E d \in Draft : SendNow(c, d)
    <3>1. \E s : call' = [call EXCEPT ![c] = s]
      BY <2>2 DEF SendNow
    <3> QED
      BY <1>1, <1>2, <2>2, <3>1
  <2> QED
    BY <1>5, <2>1, <2>2
<1>6. CASE UNCHANGED call
  BY <1>6
<1>7. \/ UNCHANGED call
      \/ \E y \in Caller : ProviderStep(y) \/ ServiceStep(y)
      \/ \E p \in Process : \/ Complete(p) \/ Fail(p) \/ Retry(p) \/ TickFails(p) \/ Crash(p)
                            \/ \E r \in Schedule : Fire(p, r)
      \/ \E c \in Client : ClientGivesUp(c) \/ \E d \in Draft : SendNow(c, d)
  BY DEF vars, Next, SchedulerStep, UserStep, Start, TimerFires, Tick, Finish, Skip, Renew,
         CancelScheduled, ScheduleSend, RemoveAccount, TakeOutside, Lapse, Trim, Elapse
<1> QED
  BY <1>3, <1>4, <1>5, <1>6, <1>7

\* A scheduler that does not dispatch awaits no call.
OnlyDispatchersCall == \A p \in Process : call[p].phase # "none" => sched[p].pc = "send"

LEMMA OnlyDispatchersCallStep ==
  ASSUME IInv, OnlyDispatchersCall, [Next]_vars
  PROVE  OnlyDispatchersCall'
<1> SUFFICES ASSUME NEW p \in Process, call'[p].phase # "none"
             PROVE  sched'[p].pc = "send"
  BY DEF OnlyDispatchersCall
<1>1. p \in Caller /\ p \notin Client
  BY SchedulerAssumption DEF Caller
<1>2. CASE UNCHANGED vars
  BY <1>2 DEF vars, OnlyDispatchersCall
<1>3. CASE Next /\ \E r \in Schedule : Fire(p, r)
  <2>1. PICK r \in Schedule : Fire(p, r)
    BY <1>3
  <2> DEFINE listed == [sched[p] EXCEPT !.due = @ \ {r}, !.pc = "send"]
  <2>2. sched[p] \in Scheduler /\ sched' = [sched EXCEPT ![p] = [listed EXCEPT !.row = r]]
    BY <2>1, Typed DEF Fire, SchedTypeOK
  <2>3. listed.pc = "send" /\ DOMAIN listed = DOMAIN sched[p]
    BY <2>2 DEF Scheduler
  <2> HIDE DEF listed
  <2> QED
    BY <2>2, <2>3, Typed DEF SchedTypeOK, Scheduler
<1>4. CASE Next /\ ~\E r \in Schedule : Fire(p, r)
  <2>1. call'[p] # NoCall
    BY DEF NoCall
  <2>2. call'[p] = call[p] \/ ProviderStep(p) \/ ServiceStep(p)
    BY <1>1, <1>4, <2>1, CallMoves
  <2>3. call[p].phase # "none"
    BY <2>2 DEF ProviderStep, ServiceStep, Accept, NoSuchDraft, Refuse, CleanUp, Look, Supersede
  <2>4. sched[p].pc = "send"
    BY <2>3 DEF OnlyDispatchersCall
  <2>5. ~Own(p)
    BY <2>1, <2>4, DispatchEnds
  <2> QED
    BY <1>4, <2>4, <2>5, OwnStep DEF Stays
<1> QED
  BY <1>2, <1>3, <1>4
-----------------------------------------------------------------------------
(* One server alone on the store, hosting every request, as `serve` without a  *)
(* CLI beside it: it may crash, be slow and lose answers, but nobody else      *)
(* claims, schedules or cancels behind its back.                               *)

OneServer == /\ \A p, q \in Process : p = q
             /\ \A c \in Client : HostOf[c] # Null
             /\ ~OneShot

LEMMA HostedByServer ==
  ASSUME OneServer, NEW p \in Process, NEW x \in Caller
  PROVE  /\ Host(x) = p /\ Host(x) # Null
         /\ x = p \/ x \in HostedBy(p)
BY SchedulerAssumption, StoreAssumption DEF OneServer, Host, Caller, HostedBy

LEMMA SomeServer ==
  ASSUME OneServer, NEW x \in Caller
  PROVE  \E p \in Process : TRUE
BY SchedulerAssumption DEF OneServer, Caller

\* Where the event loop of p lets a request run, if none is on its way to markSent.
Awaiting(p) == \/ sched[p].pc = "idle"
               \/ sched[p].pc = "send" /\ call[p].phase \in {"called", "cleanup", "answered"}

\* The row that a delivered draft supersedes is still pending when markSent runs:
\* no await comes between findPendingByDraft and markSent, so nothing else of this
\* server runs there.
SupersededIsPending ==
  \A x \in Caller : call[x].phase = "found" =>
    /\ rows[call[x].found].status \in {"pending", "deleted"}
    /\ \A y \in Caller : call[y].phase = "found" => y = x
    /\ \A p \in Process : p # x => Awaiting(p)

\* While one caller is on its way to markSent the event loop is its own.
LEMMA LoopIsHeld ==
  ASSUME OneServer, OnlyDispatchersCall, NEW p \in Process,
         NEW x \in Caller, call[x].phase = "found"
  PROVE  ~AtAwait(p) /\ Hosts = {}
<1>1. \A q \in Process : ~AtAwait(q)
  <2> SUFFICES ASSUME NEW q \in Process PROVE ~AtAwait(q)
    OBVIOUS
  <2>1. CASE x = q
    BY <2>1 DEF OnlyDispatchersCall, AtAwait
  <2>2. CASE x \in HostedBy(q)
    BY <2>2 DEF AtAwait
  <2> QED
    BY <2>1, <2>2, HostedByServer
<1> QED
  BY <1>1 DEF Hosts, OneServer

\* The only action of the process itself that leaves such a caller on its way is
\* none at all.
LEMMA LoopIsStill ==
  ASSUME IInv, OneServer, OnlyDispatchersCall, SupersededIsPending,
         NEW p \in Process, Own(p),
         NEW x \in Caller, call[x].phase = "found"
  PROVE  call'[x] = NoCall
<1>1. call \in [Caller -> Call] /\ (x = p \/ x \in HostedBy(p)) /\ p \in Caller
  BY Typed, HostedByServer DEF Caller
<1>2. CASE x = p
  BY <1>2, DispatchEnds DEF OnlyDispatchersCall
<1>3. CASE x # p
  <2>1. Awaiting(p) /\ ~AtAwait(p)
    BY <1>3, LoopIsHeld DEF SupersededIsPending
  <2>2. Crash(p)
    BY <2>1 DEF Own, Awaiting, Start, Tick, Finish, TickFails, Fire, Skip, Complete, Fail, Retry,
                Resumed, Returned
  <2> QED
    BY <1>1, <2>2 DEF Crash
<1> QED
  BY <1>2, <1>3

\* What a step may do to the status of one row.
LEMMA StatusMoves ==
  ASSUME IInv, [Next]_vars, NEW r \in Schedule
  PROVE  \/ rows'[r].status = rows[r].status
         \/ rows'[r].status = "deleted"
         \/ \E p \in Process : Fire(p, r)
         \/ \E p \in Process : Own(p) /\ sched[p].pc = "send"
         \/ \E x \in Caller : Supersede(x) /\ call[x].found = r
         \/ \E h \in Hosts : \/ CancelScheduled(r, h)
                             \/ \E d \in Draft, t \in 0..Horizon : ScheduleSend(r, d, t, h)
<1> DEFINE Same == rows'[r].status = rows[r].status
<1>1. rows \in [Schedule -> Row] /\ rows[r] \in Row
  BY Typed DEF RowsOK
<1>2. ASSUME NEW p \in Process, NEW s \in Schedule, Fire(p, s), s # r PROVE Same
  BY <1>1, <1>2 DEF Fire, claimScheduledSend
<1>3. ASSUME NEW R \in SUBSET Schedule, holdPending(R) PROVE Same
  BY <1>1, <1>3 DEF holdPending, Row
<1>4. ASSUME NEW x \in Caller, Supersede(x), call[x].found # r PROVE Same
  BY <1>1, <1>4 DEF Supersede, markSent
<1>5. ASSUME NEW s \in Schedule, NEW h, CancelScheduled(s, h), s # r PROVE Same
  BY <1>1, <1>5 DEF CancelScheduled, cancelScheduledSend
<1>6. ASSUME NEW s \in Schedule, NEW h, NEW d, NEW t, ScheduleSend(s, d, t, h), s # r PROVE Same
  BY <1>1, <1>6 DEF ScheduleSend, createScheduledSend
<1>7. ASSUME NEW a, RemoveAccount(a) PROVE Same \/ rows'[r].status = "deleted"
  BY <1>7 DEF RemoveAccount, CascadeAccount, NoRow
<1>8. ASSUME Elapse PROVE Same
  <2>1. rows'[r] = IF rows[r].draft = Null THEN rows[r]
                   ELSE [rows[r] EXCEPT !.sendAt = Dec(rows[r].sendAt, -Late),
                                        !.claimLeft = Dec(rows[r].claimLeft, 0)]
    BY <1>8 DEF Elapse, RowsAge
  <2> QED
    BY <1>1, <2>1 DEF Row
<1>9. CASE UNCHANGED rows
  BY <1>9
<1>10. \/ UNCHANGED rows
       \/ Elapse
       \/ \E x \in Caller : Supersede(x)
       \/ \E q \in Process, s \in Schedule : Fire(q, s)
       \/ \E q \in Process : Complete(q) \/ Fail(q) \/ Retry(q)
       \/ \E q \in Process : holdPending(Due(q))
       \/ \E s \in Schedule, h \in Process \cup {Null} :
            \/ CancelScheduled(s, h)
            \/ \E d \in Draft, t \in 0..Horizon : ScheduleSend(s, d, t, h)
       \/ \E a \in Account : RemoveAccount(a)
  BY DEF vars, Next, SchedulerStep, ProviderStep, ServiceStep, UserStep, Start, TimerFires, Tick,
         Skip, Finish, TickFails, Crash, Renew, Accept, NoSuchDraft, Refuse, CleanUp, Look, Lapse,
         Trim, ClientGivesUp, SendNow, TakeOutside
<1>11. ASSUME NEW q \in Process, Complete(q) \/ Fail(q) \/ Retry(q)
       PROVE  Own(q) /\ sched[q].pc = "send"
  BY <1>11 DEF Own, Complete, Fail, Retry, Returned
<1>12. ASSUME NEW s \in Schedule, NEW h \in Process \cup {Null},
              \/ CancelScheduled(s, h)
              \/ \E d \in Draft, t \in 0..Horizon : ScheduleSend(s, d, t, h)
       PROVE  \/ Same
              \/ \E g \in Hosts : \/ CancelScheduled(r, g)
                                  \/ \E d \in Draft, t \in 0..Horizon : ScheduleSend(r, d, t, g)
  <2>1. h \in Hosts
    BY <1>12 DEF CancelScheduled, ScheduleSend
  <2> QED
    BY <1>5, <1>6, <1>12, <2>1
<1>13. \A q \in Process : Due(q) \in SUBSET Schedule
  BY DEF Due
<1> QED
  BY <1>2, <1>3, <1>4, <1>7, <1>8, <1>9, <1>10, <1>11, <1>12, <1>13
\* Where a call stands after each step of it.
LEMMA PhaseMoves ==
  ASSUME IInv, NEW x \in Caller
  PROVE  /\ ProviderStep(x) \/ CleanUp(x) => call'[x].phase \in {"cleanup", "answered"}
         /\ Supersede(x) => call'[x].phase \in {"none", "done"}
         /\ \A r \in Schedule : Fire(x, r) => call'[x].phase = "called"
         /\ \A d \in Draft : SendNow(x, d) => call'[x].phase = "called"
<1>1. call \in [Caller -> Call] /\ call[x] \in Call
  BY Typed
<1>2. \A phase \in {"cleanup", "answered"} : \A outcome :
        Answer(x, phase, outcome) => call'[x].phase = phase
  BY <1>1 DEF Answer, Call
<1>3. ProviderStep(x) \/ CleanUp(x) => call'[x].phase \in {"cleanup", "answered"}
  BY <1>2 DEF ProviderStep, Accept, NoSuchDraft, Refuse, CleanUp
<1>4. Supersede(x) => call'[x].phase \in {"none", "done"}
  BY <1>1 DEF Supersede, NoCall, Call
<1>5. \A d : [NoCall EXCEPT !.phase = "called", !.draft = d].phase = "called"
  BY DEF NoCall
<1>6. \A r \in Schedule : Fire(x, r) => call'[x].phase = "called"
  <2>1. \A r \in Schedule : Fire(x, r) =>
          call'[x] = [NoCall EXCEPT !.phase = "called", !.draft = rows[r].draft]
    BY <1>1 DEF Fire
  <2> QED
    BY <1>5, <2>1
<1>7. \A d \in Draft : SendNow(x, d) => call'[x].phase = "called"
  <2>1. \A d \in Draft : SendNow(x, d) =>
          call'[x] = [NoCall EXCEPT !.phase = "called", !.draft = d]
    BY <1>1 DEF SendNow
  <2> QED
    BY <1>5, <2>1
<1> QED
  BY <1>3, <1>4, <1>6, <1>7

LEMMA SupersededIsPendingStep ==
  ASSUME IInv, OneServer, OnlyDispatchersCall, SupersededIsPending, [Next]_vars
  PROVE  SupersededIsPending'
<1>1. CASE UNCHANGED vars
  BY <1>1 DEF vars, SupersededIsPending, Awaiting
<1>2. CASE Next
  <2> SUFFICES ASSUME NEW x \in Caller, call'[x].phase = "found"
               PROVE  /\ rows'[call'[x].found].status \in {"pending", "deleted"}
                      /\ \A y \in Caller : call'[y].phase = "found" => y = x
                      /\ \A p \in Process : p # x => Awaiting(p)'
    BY DEF SupersededIsPending
  <2>1. PICK p \in Process : \A q \in Process : q = p
    BY SomeServer DEF OneServer
  <2>2. \A y \in Caller : call'[y].phase = "found" => call'[y] = call[y] \/ Look(y)
    BY <1>2, CallMoves, PhaseMoves DEF NoCall, ServiceStep
  <2>3. \A y \in Caller : Look(y) => AtAwait(p)
    BY <2>1, HostedByServer DEF Look
  <2>4. CASE call'[x] = call[x]
    <3>1. ~AtAwait(p) /\ Hosts = {}
      BY <2>4, LoopIsHeld
    <3>2. ~Own(p)
      BY <2>4, LoopIsStill DEF NoCall
    <3>3. \A y \in Caller : ~Supersede(y)
      <4>1. \A y \in Caller : Supersede(y) => y = x
        BY <2>4 DEF Supersede, SupersededIsPending
      <4> QED
        BY <4>1, PhaseMoves
    <3>4. rows'[call[x].found].status \in {"pending", "deleted"}
      <4> DEFINE r == call[x].found
      <4>1. r \in Schedule /\ rows[r].status \in {"pending", "deleted"}
        BY <2>4 DEF IInv, FoundRows, SupersededIsPending
      <4>2. \A q \in Process : ~Fire(q, r)
        BY <2>1, <3>2, <4>1 DEF Own
      <4> HIDE DEF r
      <4>3. rows'[r].status = rows[r].status \/ rows'[r].status = "deleted"
        BY <2>1, <3>1, <3>2, <3>3, <4>1, <4>2, StatusMoves
      <4> QED
        BY <4>1, <4>3 DEF r
    <3>5. \A y \in Caller : call'[y].phase = "found" => y = x
      BY <2>2, <2>3, <2>4, <3>1 DEF SupersededIsPending
    <3>6. ASSUME p # x PROVE Awaiting(p)'
      <4>1. Awaiting(p)
        BY <2>4, <3>6 DEF SupersededIsPending
      <4>2. sched'[p].pc = sched[p].pc
        BY <1>2, <3>1, <3>2, <3>3, OwnStep DEF Stays, Poking
      <4>3. CASE sched[p].pc = "idle"
        BY <4>2, <4>3 DEF Awaiting
      <4>4. CASE sched[p].pc = "send"
        <5>1. call'[p].phase # "none" /\ p \in Caller /\ p \notin Client
          BY <4>2, <4>4, StepInv, SchedulerAssumption DEF IInv, FiredRows, Caller
        <5>2. call'[p] = call[p] \/ ProviderStep(p) \/ CleanUp(p)
          BY <2>3, <3>1, <3>2, <3>3, <5>1, CallMoves DEF NoCall, ServiceStep, Own
        <5> QED
          BY <4>1, <4>2, <4>4, <5>1, <5>2, PhaseMoves DEF Awaiting
      <4> QED
        BY <4>1, <4>3, <4>4 DEF Awaiting
    <3> QED
      BY <2>1, <2>4, <3>4, <3>5, <3>6
  <2>5. CASE Look(x)
    <3>1. AtAwait(p) /\ UNCHANGED <<rows, sched>>
      BY <2>3, <2>5 DEF Look
    <3>2. /\ call \in [Caller -> Call]
          /\ \E c : call' = [call EXCEPT ![x] = c]
      BY <2>5, Typed DEF Look
    <3>3. rows'[call'[x].found].status = "pending"
      <4>1. CASE PendingFor(call[x].draft) = {}
        BY <2>5, <3>2, <4>1 DEF Look, NoCall, Call
      <4>2. CASE PendingFor(call[x].draft) # {}
        <5>1. PICK r \in PendingFor(call[x].draft) :
                call' = [call EXCEPT ![x] = [@ EXCEPT !.phase = "found", !.found = r]]
          BY <2>5, <4>2 DEF Look
        <5>2. call'[x].found = r
          BY <3>2, <5>1 DEF Call
        <5> QED
          BY <3>1, <5>2 DEF PendingFor, Is
      <4> QED
        BY <4>1, <4>2
    <3>4. \A y \in Caller : y # x => call'[y] = call[y]
      BY <3>2
    <3>5. \A y \in Caller : call[y].phase # "found"
      BY <3>1, LoopIsHeld
    <3>6. p # x => Awaiting(p)'
      BY <3>1, <3>4 DEF AtAwait, Awaiting, Caller
    <3> QED
      BY <2>1, <3>3, <3>4, <3>5, <3>6
  <2> QED
    BY <2>2, <2>4, <2>5
<1> QED
  BY <1>1, <1>2

LEMMA DeletedStays ==
  ASSUME IInv, [Next]_vars, NEW r \in Schedule, rows[r].status = "deleted"
  PROVE  rows'[r].status = "deleted"
<1>1. rows \in [Schedule -> Row] /\ rows[r].token = Null
  BY Typed DEF RowsOK, RowsHaveDrafts
<1>2. \A p \in Process : ~Fire(p, r)
  BY DEF Fire, claimScheduledSend, Claimable, Is
<1>3. ASSUME NEW p \in Process, Own(p), sched[p].pc = "send"
      PROVE  rows'[r].status = "deleted"
  <2>1. CASE TickFails(p) \/ Crash(p)
    BY <2>1 DEF TickFails, Crash
  <2>2. CASE Complete(p) \/ Fail(p) \/ Retry(p)
    <3>1. \/ rows' = rows
          \/ /\ rows[sched[p].row].token = p
             /\ \E row : rows' = [rows EXCEPT ![sched[p].row] = row]
      BY <2>2 DEF Complete, Fail, Retry, completeClaim, failClaim, retryClaim, UpdateClaim
    <3> QED
      BY <1>1, <3>1, StoreAssumption
  <2> QED
    BY <1>3, <2>1, <2>2 DEF Own, Start, Tick, Finish, Fire, Skip
<1>4. \A x \in Caller : Supersede(x) /\ call[x].found = r => rows'[r].status = "deleted"
  BY DEF Supersede, markSent, Is
<1>5. \A h, d, t : ~CancelScheduled(r, h) /\ ~ScheduleSend(r, d, t, h)
  BY DEF CancelScheduled, cancelScheduledSend, ScheduleSend, createScheduledSend, Is
<1> QED
  BY <1>2, <1>3, <1>4, <1>5, StatusMoves
\* Where its own step leaves a process.
LEMMA OwnPc ==
  ASSUME IInv, NEW p \in Process
  PROVE  /\ Start(p) => sched'[p].pc = "tick"
         /\ Tick(p) => sched'[p].pc = "loop"
         /\ \A r \in Schedule : Skip(p, r) => sched'[p].pc = "loop"
         /\ \A r \in Schedule : Fire(p, r) => sched'[p].pc = "send" /\ sched'[p].row = r
<1>1. sched \in [Process -> Scheduler] /\ sched[p] \in Scheduler
  BY Typed DEF SchedTypeOK
<1>2. Start(p) => sched'[p].pc = "tick"
  BY <1>1 DEF Start, Scheduler
<1>3. ASSUME Tick(p) PROVE sched'[p].pc = "loop"
  <2>0. PICK held \in BOOLEAN :
         sched' = [sched EXCEPT ![p] =
                     [@ EXCEPT !.pc = "loop",
                               !.due = IF held THEN {} ELSE Due(p),
                               !.hold = IF held THEN MaxArm
                                        ELSE IF Due(p) # {} THEN 0
                                        ELSE sched[p].hold]]
    BY <1>3 DEF Tick
  <2> DEFINE d == IF held THEN {} ELSE Due(p)
             n == IF held THEN MaxArm ELSE IF Due(p) # {} THEN 0 ELSE sched[p].hold
             listed == [sched[p] EXCEPT !.pc = "loop", !.due = d]
  <2>1. sched' = [sched EXCEPT ![p] = [listed EXCEPT !.hold = n]]
    BY <2>0
  <2> HIDE DEF d, n
  <2>2. listed.pc = "loop" /\ DOMAIN listed = DOMAIN sched[p]
    BY <1>1 DEF Scheduler
  <2> HIDE DEF listed
  <2> QED
    BY <1>1, <2>1, <2>2 DEF Scheduler
<1>4. ASSUME NEW r \in Schedule, Skip(p, r) PROVE sched'[p].pc = "loop"
  <2> DEFINE listed == [sched[p] EXCEPT !.due = @ \ {r}]
  <2>1. listed \in Scheduler /\ listed.pc = "loop"
    BY <1>1, <1>4 DEF Scheduler, Skip
  <2>2. sched' = [sched EXCEPT ![p] = BackOff(listed, r, 0)]
    BY <1>4 DEF Skip
  <2> HIDE DEF listed
  <2> QED
    BY <1>1, <2>1, <2>2, BackOffType, SchedulerAssumption
<1>5. ASSUME NEW r \in Schedule, Fire(p, r) PROVE sched'[p].pc = "send" /\ sched'[p].row = r
  <2> DEFINE listed == [sched[p] EXCEPT !.due = @ \ {r}, !.pc = "send"]
  <2>1. sched' = [sched EXCEPT ![p] = [listed EXCEPT !.row = r]]
    BY <1>5 DEF Fire
  <2>2. listed.pc = "send" /\ DOMAIN listed = DOMAIN sched[p]
    BY <1>1 DEF Scheduler
  <2> HIDE DEF listed
  <2> QED
    BY <1>1, <2>1, <2>2 DEF Scheduler
<1> QED
  BY <1>2, <1>3, <1>4, <1>5

\* A process starts to dispatch by claiming.
LEMMA DispatchBegins ==
  ASSUME IInv, Next, NEW p \in Process, sched[p].pc # "send", sched'[p].pc = "send"
  PROVE  \E r \in Schedule : Fire(p, r)
<1>1. Own(p)
  BY OwnStep DEF Stays
<1>2. ~(Complete(p) \/ Fail(p) \/ Retry(p))
  BY DEF Complete, Fail, Retry, Returned
<1>3. ~Crash(p)
  BY Typed DEF Crash, SchedTypeOK, Stopped
<1>4. ~TickFails(p)
  <2> DEFINE listed == [sched[p] EXCEPT !.pc = "loop", !.due = {}]
  <2>1. sched \in [Process -> Scheduler] /\ listed.pc = "loop" /\ DOMAIN listed = DOMAIN sched[p]
    BY Typed DEF SchedTypeOK, Scheduler
  <2>2. TickFails(p) => sched'[p] = [listed EXCEPT !.row = Null]
    BY <2>1 DEF TickFails
  <2> HIDE DEF listed
  <2> QED
    BY <2>1, <2>2, Typed DEF SchedTypeOK, Scheduler
<1>5. ~Finish(p)
  <2>1. sched \in [Process -> Scheduler] /\ sched[p] \in Scheduler
    BY Typed DEF SchedTypeOK
  <2>2. /\ [sched[p] EXCEPT !.pc = "tick", !.rerun = FALSE].pc = "tick"
        /\ \A n : [sched[p] EXCEPT !.pc = "idle", !.timer = n].pc = "idle"
    BY <2>1 DEF Scheduler
  <2>3. Finish(p) =>
          \/ sched'[p] = [sched[p] EXCEPT !.pc = "tick", !.rerun = FALSE]
          \/ \E n : sched'[p] = [sched[p] EXCEPT !.pc = "idle", !.timer = n]
    BY <2>1 DEF Finish
  <2> QED
    BY <2>2, <2>3
<1> QED
  BY <1>1, <1>2, <1>3, <1>4, <1>5, OwnPc DEF Own

\* A dispatch keeps its claim where no draft goes out behind its back and no lease runs
\* out, or nobody else is there to take the row.
LEMMA ClaimsAreKept ==
  ASSUME IInv, DispatchHoldsClaim, [Next]_vars,
         \A x \in Caller : call[x].phase = "found" => rows[call[x].found].status # "sending",
         \A p \in Process : \A r \in Schedule :
           Held(r, p) => rows[r].claimLeft > 0 \/ \A q \in Process : q = p
  PROVE  DispatchHoldsClaim'
<1>1. CASE UNCHANGED vars
  BY <1>1 DEF vars, DispatchHoldsClaim, Owns, Is
<1>2. CASE Next
  <2> SUFFICES ASSUME NEW p \in Process, sched'[p].pc = "send"
               PROVE  Owns(p)' \/ rows'[sched'[p].row].status = "deleted"
    BY DEF DispatchHoldsClaim, Is
  <2>1. CASE sched[p].pc = "send"
    <3>1. PICK r \in Schedule : sched[p].row = r /\ sched'[p].row = r
      BY <1>2, <2>1, SameDispatch DEF IInv, FiredRows
    <3>2. CASE Held(r, p)
      <4>1. \A x \in Caller : ~(call[x].phase = "found" /\ call[x].found = r)
        BY <3>2 DEF Held
      <4>2. Held(r, p)' \/ rows'[r].status = "deleted"
        BY <1>2, <2>1, <3>1, <3>2, <4>1, SameClaim
      <4> QED
        BY <3>1, <4>2 DEF Held, Owns, Is
    <3>3. CASE rows[r].status = "deleted"
      BY <3>1, <3>3, DeletedStays
    <3> QED
      BY <2>1, <3>1, <3>2, <3>3 DEF DispatchHoldsClaim, Owns, Is, Held
  <2>2. CASE sched[p].pc # "send"
    <3>1. PICK r \in Schedule : Fire(p, r)
      BY <1>2, <2>2, DispatchBegins
    <3>2. sched'[p].row = r
      BY <3>1, OwnPc
    <3>3. rows[r] \in Row /\ rows \in [Schedule -> Row]
      BY Typed DEF RowsOK
    <3> DEFINE claimed == [rows[r] EXCEPT !.status = "sending", !.token = p]
    <3>4. rows'[r] = [claimed EXCEPT !.claimLeft = Lease]
      BY <3>1, <3>3 DEF Fire, claimScheduledSend
    <3>5. claimed.status = "sending" /\ claimed.token = p /\ DOMAIN claimed = DOMAIN rows[r]
      BY <3>3 DEF Row
    <3> HIDE DEF claimed
    <3>6. rows'[r].status = "sending" /\ rows'[r].token = p
      BY <3>3, <3>4, <3>5 DEF Row
    <3> QED
      BY <3>2, <3>6 DEF Owns, Is
  <2> QED
    BY <2>1, <2>2
<1> QED
  BY <1>1, <1>2

LEMMA DispatchHoldsClaimStep ==
  ASSUME IInv, OneServer, SupersededIsPending, DispatchHoldsClaim, [Next]_vars
  PROVE  DispatchHoldsClaim'
BY ClaimsAreKept DEF OneServer, SupersededIsPending

AloneInv == IInv /\ OnlyDispatchersCall /\ SupersededIsPending /\ DispatchHoldsClaim

LEMMA AloneInvariance ==
  ASSUME OneServer
  PROVE  Spec => []AloneInv
<1>1. Init => AloneInv
  <2> SUFFICES ASSUME Init PROVE AloneInv
    OBVIOUS
  <2>1. \A x \in Caller : call[x].phase = "none"
    BY DEF Init, NoCall
  <2>2. \A p \in Process : sched[p].pc = "down"
    BY DEF Init, Stopped
  <2>3. OnlyDispatchersCall /\ SupersededIsPending /\ DispatchHoldsClaim
    BY <2>1, <2>2 DEF OnlyDispatchersCall, SupersededIsPending, DispatchHoldsClaim, Caller
  <2> QED
    BY <2>3, InitInv DEF AloneInv
<1>2. AloneInv /\ [Next]_vars => AloneInv'
  BY StepInv, OnlyDispatchersCallStep, SupersededIsPendingStep, DispatchHoldsClaimStep
  DEF AloneInv
<1> QED
  BY <1>1, <1>2, PTL DEF Spec

\* One server on a store of its own sends nothing it no longer holds the claim of,
\* through every crash, lost answer, busy store, slow send and lapse: what it
\* dispatches was not canceled, finished or superseded meanwhile.
THEOREM AloneDispatchHoldsClaim ==
  ASSUME OneServer
  PROVE  Spec => []DispatchHoldsClaim
<1>1. AloneInv => DispatchHoldsClaim
  BY DEF AloneInv
<1> QED
  BY <1>1, AloneInvariance, PTL
-----------------------------------------------------------------------------
(* The timer of a server alone on the store. *)

\* While a server sleeps, nobody touches an active row but time, unless the server
\* is woken.
LEMMA AsleepMoves ==
  ASSUME IInv, OneServer, Next, NEW p \in Process, NEW r \in Schedule,
         sched[p].pc = "idle", sched'[p].pc = "idle", rows'[r].status \in Active
  PROVE  Elapse \/ Finish(p) \/ (sched'[p] = sched[p] /\ rows'[r] = rows[r])
<1>1. /\ sched \in [Process -> Scheduler] /\ sched[p] \in Scheduler
      /\ rows \in [Schedule -> Row]
  BY Typed DEF SchedTypeOK, RowsOK
<1>2. \A q \in Process : q = p
  BY DEF OneServer
<1>3. ASSUME NEW s \in Scheduler, s.pc = "idle", sched'[p] = Poked(s) PROVE FALSE
  BY <1>3 DEF Poked, Scheduler
<1>4. ~TimerFires(p) /\ ~Renew(p)
  <2>1. [sched[p] EXCEPT !.timer = NoTimer] \in Scheduler
        /\ [sched[p] EXCEPT !.timer = NoTimer].pc = "idle"
    BY <1>1 DEF Scheduler
  <2> QED
    BY <1>1, <1>3, <2>1 DEF TimerFires, Renew
<1>5. ~ScheduleChanged(p)
  BY <1>1, <1>3, StoreAssumption DEF ScheduleChanged
<1>6. \A x \in Caller : ~Supersede(x)
  BY <1>5, HostedByServer DEF Supersede
<1>7. \A h, s, d, t : ~CancelScheduled(s, h) /\ ~ScheduleSend(s, d, t, h)
  BY <1>2, <1>5 DEF CancelScheduled, ScheduleSend, Hosts, OneServer
<1>8. ~(Start(p) \/ Tick(p) \/ TickFails(p) \/ \E s \in Schedule : Fire(p, s) \/ Skip(p, s))
  BY DEF Start, Tick, TickFails, Fire, Skip, Resumed
<1>9. ~(Complete(p) \/ Fail(p) \/ Retry(p))
  BY DEF Complete, Fail, Retry, Returned
<1>10. ~Crash(p)
  BY <1>1 DEF Crash, Stopped
<1>11. ASSUME NEW a, RemoveAccount(a) PROVE sched'[p] = sched[p] /\ rows'[r] = rows[r]
  BY <1>11 DEF RemoveAccount, CascadeAccount, NoRow, Active
<1>12. \/ Elapse \/ Finish(p)
       \/ \E a : RemoveAccount(a)
       \/ UNCHANGED <<sched, rows>>
  BY <1>2, <1>4, <1>6, <1>7, <1>8, <1>9, <1>10
  DEF Next, SchedulerStep, ProviderStep, ServiceStep, UserStep, Accept, NoSuchDraft, Refuse, CleanUp,
      Look, Lapse, Trim, ClientGivesUp, SendNow, TakeOutside
<1> QED
  BY <1>11, <1>12

\* One unit of time takes at most one off a delay.
LEMMA DelayAges ==
  ASSUME IInv, Elapse, NEW p \in Process, NEW r \in Schedule, rows'[r].status \in Active
  PROVE  Delay(p, r)' \in Nat /\ Delay(p, r)' >= Delay(p, r) - 1
<1> DEFINE timer == IF sched[p].timer = NoTimer THEN sched[p].timer
                    ELSE Dec(sched[p].timer, 0)
           aged == [sched[p] EXCEPT !.timer = timer, !.hold = Dec(@, 0)]
           wait == [s \in Schedule |-> Dec(sched[p].wait[s], 0)]
<1>1. /\ sched[p] \in Scheduler /\ rows[r] \in Row
  BY Typed DEF SchedTypeOK, RowsOK
<1>2. sched'[p] = [aged EXCEPT !.wait = wait]
  BY DEF Elapse
<1>3. aged.hold = Dec(sched[p].hold, 0) /\ DOMAIN aged = DOMAIN sched[p]
  BY <1>1 DEF Scheduler
<1> HIDE DEF aged
<1>4. sched'[p].hold = Dec(sched[p].hold, 0) /\ sched'[p].wait = wait
  BY <1>1, <1>2, <1>3 DEF Scheduler
<1>5. /\ rows'[r].sendAt = Dec(rows[r].sendAt, -Late)
      /\ rows'[r].claimLeft = Dec(rows[r].claimLeft, 0)
  <2>1. rows[r].draft # Null
    BY StoreAssumption DEF IInv, RowsHaveDrafts, Elapse, RowsAge, Active
  <2> QED
    BY <1>1, <2>1 DEF Elapse, RowsAge, Row
<1>6. /\ rows[r].sendAt \in Int /\ rows[r].claimLeft \in Nat
      /\ sched[p].wait[r] \in Nat /\ sched[p].hold \in Nat
  BY <1>1, StoreAssumption, SchedulerAssumption DEF Scheduler, Row
<1>7. sched'[p].wait[r] = Dec(sched[p].wait[r], 0)
  BY <1>4
<1> DEFINE a == rows[r].sendAt  b == rows[r].claimLeft
           w == sched[p].wait[r]  h == sched[p].hold
<1>8. /\ Delay(p, r) = LET n == Larger(0, Larger(Larger(a, Larger(b, w)), h))
                       IN  IF n > MaxArm THEN MaxArm ELSE n
      /\ Delay(p, r)' = LET n == Larger(0, Larger(Larger(Dec(a, -Late),
                                   Larger(Dec(b, 0), Dec(w, 0))), Dec(h, 0)))
                        IN  IF n > MaxArm THEN MaxArm ELSE n
  BY <1>4, <1>5, <1>7 DEF Delay, Gate
<1>9. a \in Int /\ b \in Nat /\ w \in Nat /\ h \in Nat /\ Late \in Nat /\ MaxArm \in Nat
  BY <1>6, StoreAssumption, SchedulerAssumption
<1> HIDE DEF a, b, w, h
<1> QED
  BY <1>8, <1>9 DEF Larger, Dec

\* The row with the smallest gate has the smallest delay.
LEMMA DelayGrows ==
  ASSUME TypeOK, NEW p \in Process, NEW r \in Schedule, NEW s \in Schedule,
         Gate(p, r) <= Gate(p, s)
  PROVE  Delay(p, r) <= Delay(p, s)
<1>1. \A q \in Schedule : Gate(p, q) \in Int
  <2> SUFFICES ASSUME NEW q \in Schedule PROVE Gate(p, q) \in Int
    OBVIOUS
  <2>1. rows[q].sendAt \in Int /\ rows[q].claimLeft \in Int /\ sched[p].wait[q] \in Int
    BY StoreAssumption, SchedulerAssumption DEF TypeOK, Row, Scheduler
  <2> QED
    BY <2>1 DEF Gate, Larger
<1>2. sched[p].hold \in Nat /\ MaxArm \in Nat
  BY SchedulerAssumption DEF TypeOK, Scheduler
<1> QED
  BY <1>1, <1>2 DEF Delay, Larger

LEMMA NeverOversleepsStep ==
  ASSUME IInv, OneServer, NeverOversleeps, [Next]_vars
  PROVE  NeverOversleeps'
<1>1. CASE UNCHANGED vars
  BY <1>1 DEF vars, NeverOversleeps, ActiveRows, Delay, Gate
<1>2. CASE Next
  <2> SUFFICES ASSUME NEW p \in Process, sched'[p].pc = "idle",
                      NEW r \in Schedule, rows'[r].status \in Active
               PROVE  (sched[p].timer \in 0..Delay(p, r))'
    BY DEF NeverOversleeps, ActiveRows
  <2>1. TypeOK /\ sched \in [Process -> Scheduler] /\ sched[p] \in Scheduler
    BY Typed DEF IInv, SchedTypeOK
  <2>2. CASE Finish(p)
    <3>1. UNCHANGED rows
      BY <2>2 DEF Finish
    <3>2. ~sched[p].rerun
      <4>1. [sched[p] EXCEPT !.pc = "tick", !.rerun = FALSE].pc = "tick"
        BY <2>1 DEF Scheduler
      <4> QED
        BY <2>1, <2>2, <4>1 DEF Finish
    <3>3. PICK m \in ActiveRows :
            /\ \A s \in ActiveRows : Gate(p, m) <= Gate(p, s)
            /\ sched' = [sched EXCEPT ![p] = [@ EXCEPT !.pc = "idle", !.timer = Delay(p, m)]]
      BY <2>2, <3>1, <3>2 DEF Finish, ActiveRows
    <3> DEFINE set == [sched[p] EXCEPT !.pc = "idle", !.timer = Delay(p, m)]
    <3>4. set.timer = Delay(p, m) /\ set.wait = sched[p].wait /\ set.hold = sched[p].hold
      BY <2>1 DEF Scheduler
    <3>5. sched'[p] = set
      BY <2>1, <3>3
    <3> HIDE DEF set
    <3>6. Delay(p, r)' = Delay(p, r)
      BY <3>1, <3>4, <3>5 DEF Delay, Gate
    <3>7. Delay(p, m) \in 0..MaxArm /\ Delay(p, r) \in 0..MaxArm /\ Delay(p, m) <= Delay(p, r)
      BY <2>1, <3>1, <3>3, DelayType, DelayGrows DEF ActiveRows
    <3> QED
      BY <3>4, <3>5, <3>6, <3>7, SchedulerAssumption
  <2>3. CASE ~Finish(p)
    <3>1. sched[p].pc = "idle"
      <4>1. Start(p) \/ Tick(p) \/ (\E s \in Schedule : Fire(p, s) \/ Skip(p, s)) =>
              sched'[p].pc # "idle"
        BY OwnPc
      <4>2. TickFails(p) => sched'[p].pc # "idle"
        <5> DEFINE listed == [sched[p] EXCEPT !.pc = "loop", !.due = {}]
        <5>1. listed.pc = "loop" /\ DOMAIN listed = DOMAIN sched[p]
          BY <2>1 DEF Scheduler
        <5>2. TickFails(p) => sched'[p] = [listed EXCEPT !.row = Null]
          BY <2>1 DEF TickFails
        <5> HIDE DEF listed
        <5> QED
          BY <2>1, <5>1, <5>2 DEF Scheduler
      <4>3. Crash(p) => sched'[p].pc # "idle"
        BY <2>1 DEF Crash, Stopped
      <4>4. Complete(p) \/ Fail(p) \/ Retry(p) => sched'[p].pc # "idle"
        BY DispatchEnds DEF Own, Complete, Fail, Retry, Returned
      <4>5. ~Own(p)
        BY <2>3, <4>1, <4>2, <4>3, <4>4 DEF Own
      <4> QED
        BY <1>2, <4>5, OwnStep DEF Stays
    <3>2. CASE Elapse
      <4> DEFINE timer == IF sched[p].timer = NoTimer THEN sched[p].timer
                          ELSE Dec(sched[p].timer, 0)
                 aged == [sched[p] EXCEPT !.timer = timer, !.hold = Dec(@, 0)]
                 wait == [s \in Schedule |-> Dec(sched[p].wait[s], 0)]
      <4>1. sched'[p] = [aged EXCEPT !.wait = wait]
        BY <3>2 DEF Elapse
      <4>2. aged.timer = timer /\ DOMAIN aged = DOMAIN sched[p]
        BY <2>1 DEF Scheduler
      <4> HIDE DEF aged
      <4>3. sched'[p].timer = timer
        BY <2>1, <4>1, <4>2 DEF Scheduler
      <4>4. r \in ActiveRows
        <5>1. rows'[r] = IF rows[r].draft = Null THEN rows[r]
                         ELSE [rows[r] EXCEPT !.sendAt = Dec(rows[r].sendAt, -Late),
                                              !.claimLeft = Dec(rows[r].claimLeft, 0)]
          BY <3>2 DEF Elapse, RowsAge
        <5>2. rows'[r].status = rows[r].status
          BY <2>1, <5>1 DEF TypeOK, Row
        <5> QED
          BY <5>2 DEF ActiveRows
      <4>5. sched[p].timer \in 0..Delay(p, r)
        BY <3>1, <4>4 DEF NeverOversleeps
      <4>6. Delay(p, r) \in 0..MaxArm /\ Delay(p, r)' \in Nat /\ Delay(p, r)' >= Delay(p, r) - 1
        BY <2>1, <3>2, DelayType, DelayAges
      <4> QED
        BY <4>3, <4>5, <4>6, SchedulerAssumption DEF Dec, NoTimer
    <3>3. CASE ~Elapse
      <4>1. sched'[p] = sched[p] /\ rows'[r] = rows[r]
        BY <1>2, <2>3, <3>1, <3>3, AsleepMoves
      <4> QED
        BY <3>1, <4>1 DEF NeverOversleeps, ActiveRows, Delay, Gate
    <3> QED
      BY <3>2, <3>3
  <2> QED
    BY <2>2, <2>3
<1> QED
  BY <1>1, <1>2

\* arm() of a server that alone uses the store never sleeps past the first active
\* row, whatever its requests, retries, quota holds and crashes changed before it
\* fell asleep and while it sleeps.
THEOREM AloneNeverOversleeps ==
  ASSUME OneServer
  PROVE  Spec => []NeverOversleeps
<1>1. Init => NeverOversleeps
  <2>1. Init => \A p \in Process : sched[p].pc = "down"
    BY DEF Init, Stopped
  <2> QED
    BY <2>1 DEF NeverOversleeps
<1>2. IInv /\ NeverOversleeps /\ [Next]_vars => NeverOversleeps'
  BY NeverOversleepsStep
<1> QED
  BY <1>1, <1>2, Invariance, PTL DEF Spec
-----------------------------------------------------------------------------
(* Where every process stays up, answers are not lost, sends end within the    *)
(* lease and the drafts of schedules are Fluxmail's own, the schedulers keep   *)
(* the promise of ScheduledDelivery: any number of processes and one-shot      *)
(* commands, while mailboxes are removed and licenses lapse.                   *)

Timely == Faults \subseteq {"removal", "lapse"} /\ Prepared = {}

\* What a step does to one row, by the action that does it.
LEMMA RowMoves ==
  ASSUME IInv, [Next]_vars, NEW r \in Schedule
  PROVE  \/ /\ rows'[r].status = rows[r].status /\ rows'[r].draft = rows[r].draft
            /\ rows'[r].sendAt = rows[r].sendAt /\ rows'[r].token = rows[r].token
            /\ rows'[r].claimLeft = rows[r].claimLeft
         \/ \E p \in Process : Fire(p, r)
         \/ \E p \in Process : /\ Complete(p) \/ Fail(p) \/ Retry(p)
                               /\ sched[p].row = r /\ rows[r].token = p
         \/ \E x \in Caller : Supersede(x) /\ call[x].found = r
         \/ \E h \in Hosts : \/ CancelScheduled(r, h)
                             \/ \E d \in Draft, t \in 0..Horizon : ScheduleSend(r, d, t, h)
         \/ /\ \E a \in Account : RemoveAccount(a)
            /\ rows[r].draft # Null /\ rows'[r] = [NoRow EXCEPT !.status = "deleted"]
         \/ Elapse /\ rows[r].draft # Null
<1> DEFINE Same == /\ rows'[r].status = rows[r].status /\ rows'[r].draft = rows[r].draft
                   /\ rows'[r].sendAt = rows[r].sendAt /\ rows'[r].token = rows[r].token
                   /\ rows'[r].claimLeft = rows[r].claimLeft
<1>1. rows \in [Schedule -> Row] /\ rows[r] \in Row
  BY Typed DEF RowsOK
<1>2. rows'[r] = rows[r] => Same
  OBVIOUS
<1>3. ASSUME NEW p \in Process, NEW s \in Schedule, Fire(p, s), s # r PROVE Same
  BY <1>1, <1>3 DEF Fire, claimScheduledSend
<1>4. ASSUME NEW R \in SUBSET Schedule, holdPending(R) PROVE Same
  BY <1>1, <1>4 DEF holdPending, Row
<1>5. ASSUME NEW x \in Caller, Supersede(x), call[x].found # r PROVE Same
  BY <1>1, <1>5 DEF Supersede, markSent
<1>6. ASSUME NEW s \in Schedule, NEW h, CancelScheduled(s, h), s # r PROVE Same
  BY <1>1, <1>6 DEF CancelScheduled, cancelScheduledSend
<1>7. ASSUME NEW s \in Schedule, NEW h, NEW d, NEW t, ScheduleSend(s, d, t, h), s # r PROVE Same
  BY <1>1, <1>7 DEF ScheduleSend, createScheduledSend
<1>8. ASSUME NEW a, RemoveAccount(a)
      PROVE  Same \/ (rows[r].draft # Null /\ rows'[r] = [NoRow EXCEPT !.status = "deleted"])
  BY <1>8 DEF RemoveAccount, CascadeAccount
<1>9. Elapse => Same \/ rows[r].draft # Null
  BY DEF Elapse, RowsAge
<1>10. ASSUME NEW p \in Process, Complete(p) \/ Fail(p) \/ Retry(p),
              ~(sched[p].row = r /\ rows[r].token = p)
       PROVE  Same
  <2>1. \/ rows' = rows
        \/ rows[sched[p].row].token = p /\ \E row : rows' = [rows EXCEPT ![sched[p].row] = row]
    BY <1>10 DEF Complete, Fail, Retry, completeClaim, failClaim, retryClaim, UpdateClaim
  <2>2. sched[p].row # r => Same
    BY <1>1, <2>1
  <2> QED
    BY <1>10, <2>1, <2>2
<1>11. \/ UNCHANGED rows
       \/ Elapse
       \/ \E x \in Caller : Supersede(x)
       \/ \E q \in Process, s \in Schedule : Fire(q, s)
       \/ \E q \in Process : Complete(q) \/ Fail(q) \/ Retry(q)
       \/ \E q \in Process : holdPending(Due(q))
       \/ \E s \in Schedule, h \in Hosts :
            \/ CancelScheduled(s, h)
            \/ \E d \in Draft, t \in 0..Horizon : ScheduleSend(s, d, t, h)
       \/ \E a \in Account : RemoveAccount(a)
  <2>1. \A s \in Schedule, h \in Process \cup {Null} :
          \/ CancelScheduled(s, h)
          \/ \E d \in Draft, t \in 0..Horizon : ScheduleSend(s, d, t, h)
          => h \in Hosts
    BY DEF CancelScheduled, ScheduleSend
  <2> QED
    BY <2>1 DEF vars, Next, SchedulerStep, ProviderStep, ServiceStep, UserStep, Start, TimerFires, Tick,
       Skip, Finish, TickFails, Crash, Renew, Accept, NoSuchDraft, Refuse, CleanUp, Look, Lapse,
       Trim, ClientGivesUp, SendNow, TakeOutside
<1>12. \A q \in Process : Due(q) \in SUBSET Schedule
  BY DEF Due
<1> HIDE DEF Same
<1>13. CASE \E q \in Process : Complete(q) \/ Fail(q) \/ Retry(q)
  <2>1. PICK q \in Process : Complete(q) \/ Fail(q) \/ Retry(q)
    BY <1>13
  <2>2. CASE sched[q].row = r /\ rows[r].token = q
    BY <2>1, <2>2
  <2>3. CASE ~(sched[q].row = r /\ rows[r].token = q)
    BY <1>10, <2>1, <2>3 DEF Same
  <2> QED
    BY <2>2, <2>3
<1>14. CASE \E s \in Schedule, h \in Hosts :
              \/ CancelScheduled(s, h)
              \/ \E d \in Draft, t \in 0..Horizon : ScheduleSend(s, d, t, h)
  BY <1>6, <1>7, <1>14 DEF Same
<1>15. CASE UNCHANGED rows
  BY <1>2, <1>15 DEF Same
<1>16. CASE \E x \in Caller : Supersede(x)
  BY <1>5, <1>16 DEF Same
<1>17. CASE \E q \in Process, s \in Schedule : Fire(q, s)
  BY <1>3, <1>17 DEF Same
<1>18. CASE \E q \in Process : holdPending(Due(q))
  BY <1>4, <1>12, <1>18 DEF Same
<1>19. CASE \E a \in Account : RemoveAccount(a)
  BY <1>8, <1>19 DEF Same
<1>20. CASE Elapse
  BY <1>9, <1>20 DEF Same
<1> QED
  BY <1>11, <1>13, <1>14, <1>15, <1>16, <1>17, <1>18, <1>19, <1>20

\* The fields of the row that an action is about.
LEMMA FiredFields ==
  ASSUME IInv, NEW r \in Schedule, NEW p \in Process, Fire(p, r)
  PROVE  /\ rows'[r].status = "sending" /\ rows'[r].token = p /\ rows'[r].claimLeft = Lease
         /\ rows'[r].draft = rows[r].draft /\ rows'[r].sendAt = rows[r].sendAt
         /\ \A s \in Schedule : s # r => rows'[s] = rows[s]
<1>1. rows \in [Schedule -> Row] /\ rows[r] \in Row
  BY Typed DEF RowsOK
<1> DEFINE claimed == [rows[r] EXCEPT !.status = "sending", !.token = p]
<1>2. rows' = [rows EXCEPT ![r] = [claimed EXCEPT !.claimLeft = Lease]]
  BY <1>1 DEF Fire, claimScheduledSend
<1>3. /\ claimed.status = "sending" /\ claimed.token = p /\ DOMAIN claimed = DOMAIN rows[r]
      /\ claimed.draft = rows[r].draft /\ claimed.sendAt = rows[r].sendAt
  BY <1>1 DEF Row
<1> HIDE DEF claimed
<1> QED
  BY <1>1, <1>2, <1>3 DEF Row

LEMMA ReleasedFields ==
  ASSUME IInv, NEW r \in Schedule, NEW status, NEW error, NEW p \in Process,
         rows[r].token = p, UpdateClaim(r, p, Released(r, status, error))
  PROVE  /\ rows'[r].status = status /\ rows'[r].draft = rows[r].draft
         /\ rows'[r].sendAt = rows[r].sendAt /\ rows'[r].token = Null
         /\ \A s \in Schedule : s # r => rows'[s] = rows[s]
<1>1. rows \in [Schedule -> Row] /\ rows[r] \in Row
  BY Typed DEF RowsOK
<1> DEFINE new == Released(r, status, error)
           settled == [rows[r] EXCEPT !.status = status, !.lastError = error]
           freed == [settled EXCEPT !.token = Null]
<1>2. new = [freed EXCEPT !.claimLeft = 0]
  BY DEF Released
<1>3. /\ settled.status = status /\ settled.draft = rows[r].draft /\ settled.sendAt = rows[r].sendAt
      /\ DOMAIN settled = DOMAIN rows[r]
  BY <1>1 DEF Row
<1> HIDE DEF settled
<1>4. /\ freed.status = status /\ freed.draft = rows[r].draft /\ freed.sendAt = rows[r].sendAt
      /\ freed.token = Null /\ DOMAIN freed = DOMAIN rows[r]
  BY <1>1, <1>3 DEF Row
<1>5. rows' = [rows EXCEPT ![r] = new]
  BY DEF UpdateClaim
<1> HIDE DEF freed, new
<1>6. /\ new.status = status /\ new.draft = rows[r].draft /\ new.sendAt = rows[r].sendAt
      /\ new.token = Null
  BY <1>1, <1>2, <1>4 DEF Row
<1> QED
  BY <1>1, <1>5, <1>6

LEMMA ScheduledFields ==
  ASSUME IInv, NEW r \in Schedule, NEW h, NEW d \in Draft, NEW t \in 0..Horizon, ScheduleSend(r, d, t, h)
  PROVE  /\ rows[r].status = "none" /\ rows[r].draft = Null
         /\ rows'[r].status = "pending" /\ rows'[r].draft = d /\ rows'[r].sendAt = t
         /\ \A s \in Schedule : s # r => rows'[s] = rows[s]
<1>1. rows \in [Schedule -> Row] /\ rows[r] \in Row
  BY Typed DEF RowsOK
<1>2. /\ rows' = [rows EXCEPT ![r] = [NoRow EXCEPT !.status = "pending", !.draft = d, !.sendAt = t]]
      /\ rows[r].status = "none"
  BY DEF ScheduleSend, createScheduledSend, Is
<1> DEFINE begun == [NoRow EXCEPT !.status = "pending", !.draft = d]
           new == [begun EXCEPT !.sendAt = t]
<1>3. begun.status = "pending" /\ begun.draft = d /\ DOMAIN begun = DOMAIN NoRow /\ "sendAt" \in DOMAIN NoRow
  BY DEF NoRow
<1>4. rows' = [rows EXCEPT ![r] = new]
  BY <1>2
<1> HIDE DEF begun
<1>5. new.status = "pending" /\ new.draft = d /\ new.sendAt = t
  BY <1>3
<1>6. rows[r].draft = Null
  BY <1>2 DEF IInv, RowsHaveDrafts
<1> HIDE DEF new
<1> QED
  BY <1>1, <1>2, <1>4, <1>5, <1>6

LEMMA CanceledFields ==
  ASSUME IInv, NEW r \in Schedule, NEW h, CancelScheduled(r, h)
  PROVE  /\ rows[r].status = "pending" /\ rows'[r].status = "canceled"
         /\ rows'[r].draft = rows[r].draft /\ rows'[r].sendAt = rows[r].sendAt
         /\ \A s \in Schedule : s # r => rows'[s] = rows[s]
<1>1. rows \in [Schedule -> Row] /\ rows[r] \in Row
  BY Typed DEF RowsOK
<1> QED
  BY <1>1 DEF CancelScheduled, cancelScheduledSend, Is, Row

LEMMA AgedFields ==
  ASSUME IInv, NEW r \in Schedule, Elapse
  PROVE  /\ rows'[r].status = rows[r].status /\ rows'[r].draft = rows[r].draft
         /\ rows'[r].token = rows[r].token /\ rows'[r].sendAt <= rows[r].sendAt
         /\ rows[r].claimLeft > 1 => rows'[r].claimLeft > 0
<1>1. rows \in [Schedule -> Row] /\ rows[r] \in Row
  BY Typed DEF RowsOK
<1>2. rows[r].sendAt \in Int /\ rows[r].claimLeft \in Nat
  BY <1>1, StoreAssumption DEF Row
<1>3. rows'[r] = IF rows[r].draft = Null THEN rows[r]
                 ELSE [rows[r] EXCEPT !.sendAt = Dec(rows[r].sendAt, -Late),
                                      !.claimLeft = Dec(rows[r].claimLeft, 0)]
  BY DEF Elapse, RowsAge
<1>4. CASE rows[r].draft = Null
  BY <1>2, <1>3, <1>4
<1>5. CASE rows[r].draft # Null
  <2>1. Dec(rows[r].sendAt, -Late) <= rows[r].sendAt
    BY <1>2, StoreAssumption DEF Dec
  <2>2. rows[r].claimLeft > 1 => Dec(rows[r].claimLeft, 0) > 0
    BY <1>2 DEF Dec
  <2>3. /\ rows'[r].status = rows[r].status /\ rows'[r].draft = rows[r].draft
        /\ rows'[r].token = rows[r].token
        /\ rows'[r].sendAt = Dec(rows[r].sendAt, -Late)
        /\ rows'[r].claimLeft = Dec(rows[r].claimLeft, 0)
    BY <1>1, <1>3, <1>5 DEF Row
  <2> QED
    BY <2>1, <2>2, <2>3
<1> QED
  BY <1>4, <1>5

\* Each draft is the draft of one schedule; it was there when the schedule was made.
OneRowPerDraft ==
  \A r \in Schedule : rows[r].draft # Null =>
    /\ drafts[rows[r].draft] # "none"
    /\ \A s \in Schedule : rows[s].draft = rows[r].draft => s = r

\* A claim that is in the store belongs to a running dispatch whose lease runs.
SendingIsDispatched ==
  \A r \in Schedule : rows[r].status = "sending" =>
    /\ rows[r].claimLeft > 0 /\ rows[r].sendAt <= 0
    /\ rows[r].token \in Process
    /\ sched[rows[r].token].pc = "send" /\ sched[rows[r].token].row = r

\* What a scheduler listed was due then, and stays due or goes with its mailbox.
ListedIsDue ==
  \A p \in Process : \A r \in sched[p].due :
    rows[r].status # "none" /\ (rows[r].draft # Null => rows[r].sendAt <= 0)

\* A dispatch sends the draft of the row it claimed and of no other.
CallsOwnDraft ==
  \A p \in Process : sched[p].pc = "send" =>
    /\ drafts[call[p].draft] # "none"
    /\ \A r \in Schedule : rows[r].draft = call[p].draft => r = sched[p].row

NothingSuperseded == \A x \in Caller : call[x].phase # "found"
OnlySchedulersSend == \A c \in Client : call[c].phase = "none"

SentBy(x) == call[x].phase # "called" /\ (call[x].phase = "cleanup" \/ call[x].outcome = "ok")

\* A draft goes out with the call that its row is claimed for, once.
SendsOnce ==
  /\ \A r \in Schedule :
       /\ rows[r].status = "pending" => deliveries[rows[r].draft] = 0
       /\ rows[r].status = "sent" => deliveries[rows[r].draft] = 1
       /\ rows[r].status = "sending" => deliveries[rows[r].draft] = IF SentBy(rows[r].token) THEN 1 ELSE 0
  /\ \A d \in Draft : drafts[d] = "none" => deliveries[d] = 0

TimelyInv ==
  /\ IInv /\ OnlyDispatchersCall /\ DispatchHoldsClaim
  /\ OneRowPerDraft /\ SendingIsDispatched /\ ListedIsDue /\ CallsOwnDraft
  /\ NothingSuperseded /\ OnlySchedulersSend /\ SendsOnce

\* A row only ever comes nearer its time, keeps its draft until it is removed, and is made once.
LEMMA RowAges ==
  ASSUME IInv, [Next]_vars, NothingSuperseded, NEW r \in Schedule
  PROVE  /\ rows[r].status # "none" => rows'[r].status # "none"
         /\ rows[r].draft # Null /\ rows'[r].draft # Null =>
              rows'[r].draft = rows[r].draft /\ rows'[r].sendAt <= rows[r].sendAt
         /\ rows[r].draft = Null /\ rows'[r].draft # Null =>
              \E h \in Hosts, d \in Draft, t \in 0..Horizon : ScheduleSend(r, d, t, h)
<1>1. rows[r] \in Row /\ rows[r].sendAt \in Int
  BY Typed, StoreAssumption DEF RowsOK, Row
<1>2. \A x \in Caller : ~Supersede(x)
  BY DEF Supersede, NothingSuperseded
<1>3. ASSUME NEW p \in Process, Fire(p, r)
      PROVE  rows'[r].status # "none" /\ rows'[r].draft = rows[r].draft /\ rows'[r].sendAt = rows[r].sendAt
  BY <1>3, FiredFields
<1>4. ASSUME NEW p \in Process, Complete(p) \/ Fail(p) \/ Retry(p), sched[p].row = r, rows[r].token = p
      PROVE  rows'[r].status # "none" /\ rows'[r].draft = rows[r].draft /\ rows'[r].sendAt = rows[r].sendAt
  <2>1. \E status \in {"sent", "failed", "pending"} : \E error : UpdateClaim(r, p, Released(r, status, error))
    BY <1>4 DEF Complete, Fail, Retry, completeClaim, failClaim, retryClaim
  <2> QED
    BY <1>4, <2>1, ReleasedFields
<1>5. ASSUME NEW h, CancelScheduled(r, h)
      PROVE  rows'[r].status # "none" /\ rows'[r].draft = rows[r].draft /\ rows'[r].sendAt = rows[r].sendAt
  BY <1>5, CanceledFields
<1>6. ASSUME NEW h, NEW d \in Draft, NEW t \in 0..Horizon, ScheduleSend(r, d, t, h)
      PROVE  rows'[r].status # "none" /\ rows[r].draft = Null
  BY <1>6, ScheduledFields
<1>7. ASSUME rows'[r] = [NoRow EXCEPT !.status = "deleted"]
      PROVE  rows'[r].status # "none" /\ rows'[r].draft = Null
  BY <1>7 DEF NoRow
<1>8. ASSUME Elapse
      PROVE  rows'[r].status = rows[r].status /\ rows'[r].draft = rows[r].draft /\ rows'[r].sendAt <= rows[r].sendAt
  BY <1>8, AgedFields
<1> QED
  BY <1>1, <1>2, <1>3, <1>4, <1>5, <1>6, <1>7, <1>8, RowMoves

\* Which faults and which requests there are not.
LEMMA TimelyMoves ==
  ASSUME Timely, TimelyInv, Next
  PROVE  /\ \A p \in Process : ~Crash(p) /\ ~TickFails(p)
         /\ \A x \in Caller : ~Supersede(x)
         /\ \A c \in Client : /\ ~ClientGivesUp(c) /\ \A d : ~SendNow(c, d)
                              /\ ~ProviderStep(c) /\ ~ServiceStep(c)
         /\ \A d : ~TakeOutside(d)
<1>1. "crash" \notin Faults /\ "busy" \notin Faults /\ Prepared = {}
  BY DEF Timely
<1>2. \A x \in Caller : ~Supersede(x)
  BY DEF Supersede, TimelyInv, NothingSuperseded
<1>3. \A c \in Client : call[c].phase = "none"
  BY DEF TimelyInv, OnlySchedulersSend
<1>4. \A p \in Process : ~Crash(p) /\ ~TickFails(p)
  BY <1>1 DEF Crash, TickFails
<1>5. \A c \in Client : ~ClientGivesUp(c) /\ ~ProviderStep(c) /\ ~ServiceStep(c)
  BY <1>3 DEF ClientGivesUp, ProviderStep, ServiceStep, Accept, NoSuchDraft, Refuse, CleanUp, Look, Supersede
<1>6. \A c \in Client : \A d : ~SendNow(c, d)
  BY <1>1 DEF SendNow
<1>7. \A d : ~TakeOutside(d)
  BY <1>1 DEF TakeOutside
<1> QED
  BY <1>2, <1>4, <1>5, <1>6, <1>7

LEMMA DraftsStay ==
  ASSUME IInv, [Next]_vars, NEW d \in Draft, drafts[d] # "none"
  PROVE  drafts'[d] # "none"
<1>1. drafts \in [Draft -> {"none", "present", "gone"}]
  BY Typed DEF MailboxTypeOK
<1>2. \/ UNCHANGED drafts
      \/ \E e : drafts' = [drafts EXCEPT ![e] = "gone"]
      \/ \E e : drafts' = [drafts EXCEPT ![e] = "present"]
  BY DEF vars, Next, SchedulerStep, ProviderStep, ServiceStep, UserStep, Start, TimerFires, Tick, Fire,
         Skip, Complete, Fail, Retry, Finish, TickFails, Crash, Renew, Accept, NoSuchDraft, Refuse, CleanUp,
         Look, Supersede, Lapse, Trim, Elapse, ClientGivesUp, SendNow, ScheduleSend, CancelScheduled,
         RemoveAccount, TakeOutside
<1> QED
  BY <1>1, <1>2

\* A dispatch that goes on keeps the draft it sends.
LEMMA CallKeepsDraft ==
  ASSUME IInv, Next, NEW p \in Process, sched[p].pc = "send", sched'[p].pc = "send"
  PROVE  /\ call'[p].draft = call[p].draft
         /\ call'[p] = call[p] \/ ProviderStep(p) \/ ServiceStep(p)
<1>1. call \in [Caller -> Call] /\ p \in Caller /\ p \notin Client /\ call[p] \in Call
  BY Typed, SchedulerAssumption DEF Caller
<1>2. call'[p].phase # "none"
  BY StepInv DEF IInv, FiredRows
<1>3. call'[p] = call[p] \/ ProviderStep(p) \/ ServiceStep(p)
  <2>1. call'[p] # NoCall
    BY <1>2 DEF NoCall
  <2>2. \A r \in Schedule : ~Fire(p, r)
    BY DEF Fire
  <2> QED
    BY <1>1, <2>1, <2>2, CallMoves
<1>4. ASSUME NEW phase, NEW outcome, Answer(p, phase, outcome) PROVE call'[p].draft = call[p].draft
  BY <1>1, <1>4 DEF Answer, Call
<1>5. ProviderStep(p) \/ CleanUp(p) => call'[p].draft = call[p].draft
  BY <1>4 DEF ProviderStep, Accept, NoSuchDraft, Refuse, CleanUp
<1>6. ASSUME Look(p) PROVE call'[p].draft = call[p].draft
  <2>1. /\ \A r : [call[p] EXCEPT !.phase = "found", !.found = r].draft = call[p].draft
        /\ [call[p] EXCEPT !.phase = "done"].draft = call[p].draft
    BY <1>1 DEF Call
  <2>2. \/ \E r : call'[p] = [call[p] EXCEPT !.phase = "found", !.found = r]
        \/ call'[p] = [call[p] EXCEPT !.phase = "done"]
    BY <1>1, <1>6 DEF Look
  <2> QED
    BY <2>1, <2>2
<1>7. Supersede(p) => call'[p].draft = call[p].draft
  BY <1>1 DEF Supersede, Call
<1> QED
  BY <1>3, <1>5, <1>6, <1>7 DEF ServiceStep

LEMMA OneRowPerDraftStep ==
  ASSUME Timely, TimelyInv, Next
  PROVE  OneRowPerDraft'
<1> SUFFICES ASSUME NEW r \in Schedule, rows'[r].draft # Null
             PROVE  /\ drafts'[rows'[r].draft] # "none"
                    /\ \A s \in Schedule : rows'[s].draft = rows'[r].draft => s = r
  BY DEF OneRowPerDraft
<1>1. /\ IInv /\ NothingSuperseded /\ OneRowPerDraft
      /\ \A s \in Schedule : rows[s].draft \in Draft \cup {Null}
  BY Typed DEF TimelyInv, RowsOK, Row
<1>2. ASSUME NEW s \in Schedule, rows[s].draft = Null, rows'[s].draft # Null
      PROVE  /\ drafts[rows'[s].draft] = "none" /\ rows'[s].draft \in Draft
             /\ drafts'[rows'[s].draft] = "present"
             /\ \A q \in Schedule : q # s => rows'[q] = rows[q]
  <2>1. PICK h \in Hosts, d \in Draft, t \in 0..Horizon : ScheduleSend(s, d, t, h)
    BY <1>1, <1>2, RowAges
  <2>2. rows'[s].draft = d /\ \A q \in Schedule : q # s => rows'[q] = rows[q]
    BY <1>1, <2>1, ScheduledFields
  <2>3. drafts[d] = "none" /\ drafts' = [drafts EXCEPT ![d] = "present"]
    BY <2>1 DEF ScheduleSend, Timely
  <2> QED
    BY <1>1, <2>2, <2>3, Typed DEF MailboxTypeOK
<1>3. CASE rows[r].draft = Null
  <2>1. \A s \in Schedule : s # r /\ rows'[s].draft = rows'[r].draft => FALSE
    BY <1>1, <1>2, <1>3 DEF OneRowPerDraft
  <2> QED
    BY <1>2, <1>3, <2>1
<1>4. CASE rows[r].draft # Null
  <2>1. rows'[r].draft = rows[r].draft /\ drafts[rows[r].draft] # "none" /\ rows[r].draft \in Draft
    BY <1>1, <1>4, RowAges DEF OneRowPerDraft
  <2>2. drafts'[rows[r].draft] # "none"
    BY <1>1, <2>1, DraftsStay
  <2>3. ASSUME NEW s \in Schedule, rows'[s].draft = rows'[r].draft PROVE s = r
    <3>1. CASE rows[s].draft = Null
      BY <1>2, <2>1, <2>3, <3>1
    <3>2. CASE rows[s].draft # Null
      <4>1. rows'[s].draft = rows[s].draft
        BY <1>1, <2>3, <3>2, RowAges
      <4> QED
        BY <1>1, <1>4, <2>1, <2>3, <4>1 DEF OneRowPerDraft
    <3> QED
      BY <3>1, <3>2
  <2> QED
    BY <2>1, <2>2, <2>3
<1> QED
  BY <1>3, <1>4

LEMMA CallsOwnDraftStep ==
  ASSUME Timely, TimelyInv, Next
  PROVE  CallsOwnDraft'
<1> SUFFICES ASSUME NEW p \in Process, sched'[p].pc = "send"
             PROVE  /\ drafts'[call'[p].draft] # "none"
                    /\ \A r \in Schedule : rows'[r].draft = call'[p].draft => r = sched'[p].row
  BY DEF CallsOwnDraft
<1>1. /\ IInv /\ NothingSuperseded /\ OneRowPerDraft /\ CallsOwnDraft
      /\ \A s \in Schedule : rows[s].draft \in Draft \cup {Null}
  BY Typed DEF TimelyInv, RowsOK, Row
<1>2. CASE sched[p].pc = "send"
  <2>1. call'[p].draft = call[p].draft /\ sched'[p].row = sched[p].row
    BY <1>1, <1>2, CallKeepsDraft, SameDispatch
  <2>2. call[p].draft \in Draft /\ drafts[call[p].draft] # "none"
    BY <1>1, <1>2 DEF IInv, FiredRows, CallsDelivered, Caller, CallsOwnDraft
  <2>3. drafts'[call[p].draft] # "none"
    BY <1>1, <2>2, DraftsStay
  <2>4. ASSUME NEW r \in Schedule, rows'[r].draft = call[p].draft PROVE r = sched[p].row
    <3>1. rows'[r].draft # Null
      BY <2>2, <2>4, StoreAssumption
    <3>2. CASE rows[r].draft # Null
      BY <1>1, <1>2, <2>4, <3>1, <3>2, RowAges DEF CallsOwnDraft
    <3>3. CASE rows[r].draft = Null
      <4>1. PICK h \in Hosts, d \in Draft, t \in 0..Horizon : ScheduleSend(r, d, t, h)
        BY <1>1, <3>1, <3>3, RowAges
      <4>2. rows'[r].draft = d /\ drafts[d] = "none"
        BY <1>1, <4>1, ScheduledFields DEF ScheduleSend, Timely
      <4> QED
        BY <2>2, <2>4, <4>2
    <3> QED
      BY <3>2, <3>3
  <2> QED
    BY <2>1, <2>3, <2>4
<1>3. CASE sched[p].pc # "send"
  <2>1. PICK r \in Schedule : Fire(p, r)
    BY <1>1, <1>3, DispatchBegins
  <2>2. /\ sched'[p].row = r /\ rows'[r].draft = rows[r].draft /\ drafts' = drafts
        /\ \A s \in Schedule : s # r => rows'[s] = rows[s]
    BY <1>1, <2>1, OwnPc, FiredFields DEF Fire
  <2>3. call'[p].draft = rows[r].draft
    <3>1. call'[p] = [NoCall EXCEPT !.phase = "called", !.draft = rows[r].draft]
      BY <2>1, Typed, <1>1 DEF Fire, Caller
    <3> QED
      BY <3>1 DEF NoCall
  <2>4. rows[r].draft # Null
    <3>1. rows[r].status \in {"pending", "sending"}
      BY <2>1 DEF Fire, claimScheduledSend, Claimable, Is
    <3> QED
      BY <1>1, <3>1, StoreAssumption DEF IInv, RowsHaveDrafts
  <2> QED
    BY <1>1, <2>2, <2>3, <2>4 DEF OneRowPerDraft
<1> QED
  BY <1>2, <1>3


LEMMA ListedIsDueStep ==
  ASSUME Timely, TimelyInv, Next
  PROVE  ListedIsDue'
<1> SUFFICES ASSUME NEW p \in Process, NEW r \in sched'[p].due
             PROVE  rows'[r].status # "none" /\ (rows'[r].draft # Null => rows'[r].sendAt <= 0)
  BY DEF ListedIsDue
<1>1. /\ IInv /\ NothingSuperseded /\ sched \in [Process -> Scheduler] /\ sched[p] \in Scheduler
      /\ rows \in [Schedule -> Row]
  BY Typed DEF TimelyInv, SchedTypeOK, RowsOK
<1>2. r \in sched[p].due \/ r \in Due(p)
  <2>1. ~Stays(p) => Own(p)
    BY <1>1, OwnStep
  <2>3. Stays(p) => r \in sched[p].due
    BY DEF Stays
  <2>4. ASSUME Start(p) PROVE r \in sched[p].due
    BY <1>1, <2>4 DEF Start, Scheduler
  <2>5. ASSUME Finish(p) PROVE r \in sched[p].due
    <3>1. \/ sched'[p] = [sched[p] EXCEPT !.pc = "tick", !.rerun = FALSE]
          \/ \E n : sched'[p] = [sched[p] EXCEPT !.pc = "idle", !.timer = n]
      BY <1>1, <2>5 DEF Finish
    <3>2. /\ [sched[p] EXCEPT !.pc = "tick", !.rerun = FALSE].due = sched[p].due
          /\ \A n : [sched[p] EXCEPT !.pc = "idle", !.timer = n].due = sched[p].due
      BY <1>1 DEF Scheduler
    <3> QED
      BY <3>1, <3>2
  <2>6. ASSUME Tick(p) PROVE r \in Due(p)
    <3>0. PICK held \in BOOLEAN :
           sched' = [sched EXCEPT ![p] =
                       [@ EXCEPT !.pc = "loop",
                                 !.due = IF held THEN {} ELSE Due(p),
                                 !.hold = IF held THEN MaxArm
                                          ELSE IF Due(p) # {} THEN 0
                                          ELSE sched[p].hold]]
      BY <2>6 DEF Tick
    <3> DEFINE d == IF held THEN {} ELSE Due(p)
               n == IF held THEN MaxArm ELSE IF Due(p) # {} THEN 0 ELSE sched[p].hold
               listed == [sched[p] EXCEPT !.pc = "loop", !.due = d]
    <3>1. sched' = [sched EXCEPT ![p] = [listed EXCEPT !.hold = n]]
      BY <3>0
    <3>2. d \subseteq Due(p)
      OBVIOUS
    <3> HIDE DEF d, n
    <3>3. listed.due = d /\ DOMAIN listed = DOMAIN sched[p]
      BY <1>1 DEF Scheduler
    <3> HIDE DEF listed
    <3> QED
      BY <1>1, <3>1, <3>2, <3>3 DEF Scheduler
  <2>7. ASSUME NEW s \in Schedule, Fire(p, s) PROVE r \in sched[p].due
    <3> DEFINE listed == [sched[p] EXCEPT !.due = @ \ {s}, !.pc = "send"]
    <3>1. sched' = [sched EXCEPT ![p] = [listed EXCEPT !.row = s]]
      BY <2>7 DEF Fire
    <3>2. listed.due = sched[p].due \ {s} /\ DOMAIN listed = DOMAIN sched[p]
      BY <1>1 DEF Scheduler
    <3> HIDE DEF listed
    <3> QED
      BY <1>1, <3>1, <3>2 DEF Scheduler
  <2>8. ASSUME NEW s \in Schedule, Skip(p, s) PROVE r \in sched[p].due
    <3> DEFINE listed == [sched[p] EXCEPT !.due = @ \ {s}]
    <3>1. listed \in Scheduler /\ listed.due = sched[p].due \ {s}
      BY <1>1, <2>8 DEF Scheduler
    <3>2. sched' = [sched EXCEPT ![p] = BackOff(listed, s, 0)]
      BY <2>8 DEF Skip
    <3> HIDE DEF listed
    <3> QED
      BY <1>1, <3>1, <3>2, BackOffType, SchedulerAssumption
  <2>9. ASSUME Complete(p) \/ Fail(p) \/ Retry(p) PROVE r \in sched[p].due
    <3>1. NextDelay(sched[p].backoff[sched[p].row]) \in 0..MaxArm /\ sched[p].row \in Schedule
      BY <1>1, <2>9, NextDelayType DEF Scheduler, Complete, Fail, Retry, Returned, IInv, FiredRows
    <3>2. \E n \in 0..MaxArm : sched' = [sched EXCEPT ![p] = Fired(sched[p], n)]
      BY <2>9, <3>1, SchedulerAssumption DEF Complete, Fail, Retry
    <3> QED
      BY <1>1, <3>1, <3>2, FiredType
  <2> QED
    BY <2>1, <2>3, <2>4, <2>5, <2>6, <2>7, <2>8, <2>9, TimelyMoves DEF Own
<1>3. r \in Schedule /\ rows[r].status # "none" /\ (rows[r].draft # Null => rows[r].sendAt <= 0)
  <2>1. CASE r \in Due(p)
    BY <2>1 DEF Due, Claimable, Is
  <2>2. CASE r \in sched[p].due
    BY <1>1, <2>2 DEF TimelyInv, ListedIsDue, Scheduler
  <2> QED
    BY <1>2, <2>1, <2>2
<1>4. ASSUME rows'[r].draft # Null PROVE rows'[r].sendAt <= 0
  <2>1. rows[r].draft # Null
    <3>1. \A h, d, t : ~ScheduleSend(r, d, t, h)
      BY <1>3 DEF ScheduleSend, createScheduledSend, Is
    <3> QED
      BY <1>1, <1>3, <1>4, <3>1, RowAges
  <2>2. rows'[r].sendAt <= rows[r].sendAt /\ rows[r].sendAt <= 0
    BY <1>1, <1>3, <1>4, <2>1, RowAges
  <2>3. rows[r].sendAt \in Int /\ rows'[r].sendAt \in Int
    <3>1. IInv'
      BY <1>1, StepInv
    <3>2. rows' \in [Schedule -> Row]
      BY <3>1 DEF IInv, TypeOK
    <3> QED
      BY <1>1, <1>3, <3>2, StoreAssumption DEF Row
  <2> QED
    BY <2>2, <2>3
<1> QED
  BY <1>1, <1>3, <1>4, RowAges

\* A row is being sent since it was claimed, by the one that claimed it.
LEMMA ClaimMoves ==
  ASSUME IInv, [Next]_vars, NothingSuperseded, NEW r \in Schedule, rows'[r].status = "sending"
  PROVE  \/ \E p \in Process : Fire(p, r)
         \/ /\ rows[r].status = "sending" /\ rows'[r].token = rows[r].token
            /\ rows'[r].draft = rows[r].draft
            /\ rows'[r].claimLeft = rows[r].claimLeft \/ Elapse
<1>1. \A x \in Caller : ~Supersede(x)
  BY DEF Supersede, NothingSuperseded
<1>2. ASSUME NEW p \in Process, Complete(p) \/ Fail(p) \/ Retry(p), sched[p].row = r, rows[r].token = p
      PROVE  FALSE
  <2>1. \E status \in {"sent", "failed", "pending"} : \E error : UpdateClaim(r, p, Released(r, status, error))
    BY <1>2 DEF Complete, Fail, Retry, completeClaim, failClaim, retryClaim
  <2> QED
    BY <1>2, <2>1, ReleasedFields
<1>3. \A h : ~CancelScheduled(r, h)
  BY CanceledFields
<1>4. \A h \in Hosts, d \in Draft, t \in 0..Horizon : ~ScheduleSend(r, d, t, h)
  BY ScheduledFields
<1>5. rows'[r] # [NoRow EXCEPT !.status = "deleted"]
  BY DEF NoRow
<1>6. Elapse => /\ rows'[r].status = rows[r].status /\ rows'[r].draft = rows[r].draft
                /\ rows'[r].token = rows[r].token
  BY AgedFields
<1> QED
  BY <1>1, <1>2, <1>3, <1>4, <1>5, <1>6, RowMoves

LEMMA SendingIsDispatchedStep ==
  ASSUME Timely, TimelyInv, Next
  PROVE  SendingIsDispatched'
<1> SUFFICES ASSUME NEW r \in Schedule, rows'[r].status = "sending"
             PROVE  /\ rows'[r].claimLeft > 0 /\ rows'[r].sendAt <= 0
                    /\ rows'[r].token \in Process
                    /\ sched'[rows'[r].token].pc = "send" /\ sched'[rows'[r].token].row = r
  BY DEF SendingIsDispatched
<1>1. /\ IInv /\ NothingSuperseded /\ sched \in [Process -> Scheduler]
      /\ rows \in [Schedule -> Row] /\ rows' \in [Schedule -> Row]
  <2>1. IInv /\ NothingSuperseded /\ IInv'
    BY StepInv DEF TimelyInv
  <2> QED
    BY <2>1 DEF IInv, TypeOK
<1>2. rows[r].sendAt \in Int /\ rows'[r].sendAt \in Int /\ rows[r].claimLeft \in Nat
  BY <1>1, StoreAssumption DEF Row
<1>3. rows[r].draft # Null /\ rows'[r].draft # Null => rows'[r].sendAt <= rows[r].sendAt
  BY <1>1, RowAges
<1>4. rows'[r].draft # Null
  <2>1. RowsHaveDrafts'
    BY <1>1, StepInv DEF IInv
  <2>2. rows'[r].draft \in Draft
    BY <2>1 DEF RowsHaveDrafts
  <2> QED
    BY <2>2, StoreAssumption
<1>5. ASSUME NEW p \in Process, Fire(p, r)
      PROVE  /\ rows'[r].claimLeft > 0 /\ rows'[r].sendAt <= 0
             /\ rows'[r].token \in Process
             /\ sched'[rows'[r].token].pc = "send" /\ sched'[rows'[r].token].row = r
  <2>1. /\ rows'[r].token = p /\ rows'[r].claimLeft = Lease
        /\ rows'[r].sendAt = rows[r].sendAt /\ rows'[r].draft = rows[r].draft
        /\ sched'[p].pc = "send" /\ sched'[p].row = r
    BY <1>1, <1>5, FiredFields, OwnPc
  <2>2. r \in sched[p].due
    BY <1>5 DEF Fire, Earliest
  <2>3. rows[r].sendAt <= 0
    BY <1>4, <2>1, <2>2 DEF TimelyInv, ListedIsDue
  <2> QED
    BY <2>1, <2>3, StoreAssumption
<1>6. ASSUME rows[r].status = "sending", rows'[r].token = rows[r].token, rows'[r].draft = rows[r].draft,
             rows'[r].claimLeft = rows[r].claimLeft \/ Elapse
      PROVE  /\ rows'[r].claimLeft > 0 /\ rows'[r].sendAt <= 0
             /\ rows'[r].token \in Process
             /\ sched'[rows'[r].token].pc = "send" /\ sched'[rows'[r].token].row = r
  <2>1. PICK p \in Process : /\ rows[r].token = p /\ sched[p].pc = "send" /\ sched[p].row = r
                             /\ rows[r].claimLeft > 0 /\ rows[r].sendAt <= 0
    BY <1>6 DEF TimelyInv, SendingIsDispatched
  <2>2. rows'[r].sendAt <= 0
    BY <1>2, <1>3, <1>4, <1>6, <2>1
  <2>3. rows'[r].claimLeft > 0
    <3>1. ASSUME Elapse PROVE rows'[r].claimLeft > 0
      <4>1. rows[r].claimLeft # 1
        BY <2>1, <3>1 DEF Elapse, Timely
      <4> QED
        BY <1>1, <1>2, <2>1, <3>1, <4>1, AgedFields
    <3> QED
      BY <1>6, <2>1, <3>1
  <2>4. ~(Complete(p) \/ Fail(p) \/ Retry(p))
    <3> SUFFICES ASSUME Complete(p) \/ Fail(p) \/ Retry(p) PROVE FALSE
      OBVIOUS
    <3>1. \E status \in {"sent", "failed", "pending"} : \E error : UpdateClaim(r, p, Released(r, status, error))
      BY <2>1 DEF Complete, Fail, Retry, completeClaim, failClaim, retryClaim
    <3> QED
      BY <1>1, <2>1, <3>1, ReleasedFields
  <2>5. ~Own(p)
    BY <2>1, <2>4, TimelyMoves DEF Own, Start, Tick, Finish, Fire, Skip
  <2>6. Stays(p)
    BY <1>1, <2>5, OwnStep
  <2> QED
    BY <1>6, <2>1, <2>2, <2>3, <2>6 DEF Stays
<1> QED
  BY <1>1, <1>5, <1>6, ClaimMoves

LEMMA TimelyClaimStep ==
  ASSUME Timely, TimelyInv, Next
  PROVE  DispatchHoldsClaim'
<1>1. IInv /\ DispatchHoldsClaim /\ NothingSuperseded
  BY DEF TimelyInv
<1>2. \A p \in Process : \A r \in Schedule : Held(r, p) => rows[r].claimLeft > 0
  BY DEF TimelyInv, SendingIsDispatched, Held
<1> QED
  BY <1>1, <1>2, ClaimsAreKept DEF NothingSuperseded

\* No schedule of a draft that a scheduler just sent is pending beside it.
LEMMA NothingPendingBeside ==
  ASSUME TimelyInv, NEW p \in Process, sched[p].pc = "send"
  PROVE  PendingFor(call[p].draft) = {}
<1> SUFFICES ASSUME NEW r \in Schedule, rows[r].status = "pending", rows[r].draft = call[p].draft PROVE FALSE
  BY DEF PendingFor, Is
<1>1. r = sched[p].row
  BY DEF TimelyInv, CallsOwnDraft
<1> QED
  BY <1>1 DEF TimelyInv, DispatchHoldsClaim, Owns, Is

LEMMA CallersStep ==
  ASSUME Timely, TimelyInv, Next
  PROVE  NothingSuperseded' /\ OnlySchedulersSend'
<1>1. IInv /\ NothingSuperseded /\ OnlySchedulersSend /\ OnlyDispatchersCall /\ call \in [Caller -> Call]
  BY DEF TimelyInv, IInv, TypeOK
<1>2. ASSUME NEW c \in Client PROVE call'[c].phase = "none"
  <2>1. call'[c] = call[c] \/ call'[c] = NoCall
    <3>1. c \in Caller /\ c \notin Process
      BY SchedulerAssumption DEF Caller
    <3> QED
      BY <1>1, <3>1, CallMoves, TimelyMoves
  <2> QED
    BY <1>1, <2>1 DEF OnlySchedulersSend, NoCall
<1>3. ASSUME NEW x \in Caller PROVE call'[x].phase # "found"
  <2>1. \/ call'[x] = call[x] \/ call'[x] = NoCall
        \/ ProviderStep(x) \/ CleanUp(x) \/ Look(x)
        \/ \E r \in Schedule : Fire(x, r)
        \/ x \in Client
    BY <1>1, CallMoves, TimelyMoves DEF ServiceStep
  <2>2. ASSUME Look(x), x \in Process PROVE call'[x].phase # "found"
    <3>1. sched[x].pc = "send"
      BY <1>1, <2>2 DEF Look, OnlyDispatchersCall
    <3>2. PendingFor(call[x].draft) = {} /\ x \notin Client
      BY <2>2, <3>1, NothingPendingBeside, SchedulerAssumption
    <3>3. call'[x] = [call[x] EXCEPT !.phase = "done"]
      BY <1>1, <2>2, <3>2 DEF Look
    <3> QED
      BY <1>1, <3>3 DEF Call
  <2>3. call[x].phase # "found"
    BY <1>1 DEF NothingSuperseded
  <2>4. NoCall.phase = "none"
    BY DEF NoCall
  <2> QED
    BY <1>1, <1>2, <2>1, <2>2, <2>3, <2>4, PhaseMoves DEF Caller
<1> QED
  BY <1>2, <1>3 DEF NothingSuperseded, OnlySchedulersSend


\* Drafts go out only with calls of schedulers, one at a time.
LEMMA DeliveriesMove ==
  ASSUME Timely, TimelyInv, Next
  PROVE  \/ deliveries' = deliveries
         \/ \E p \in Process : /\ Accept(p) /\ sched[p].pc = "send" /\ call[p].phase = "called"
                               /\ \A d \in Draft : d # call[p].draft => deliveries'[d] = deliveries[d]
                               /\ deliveries[call[p].draft] = 0 => deliveries'[call[p].draft] = 1
                               /\ drafts[call[p].draft] = "present" /\ call[p].draft \in Draft
<1>1. deliveries' = deliveries \/ \E p \in Process : Accept(p)
  <2>1. deliveries' = deliveries \/ \E x \in Caller : Accept(x)
    BY DEF vars, Next, SchedulerStep, ProviderStep, ServiceStep, UserStep, Start, TimerFires, Tick, Fire,
           Skip, Complete, Fail, Retry, Finish, TickFails, Crash, Renew, NoSuchDraft, Refuse, CleanUp,
           Look, Supersede, Lapse, Trim, Elapse, ClientGivesUp, SendNow, ScheduleSend, CancelScheduled,
           RemoveAccount, TakeOutside
  <2> QED
    BY <2>1, TimelyMoves DEF Caller, ProviderStep
<1>2. ASSUME NEW p \in Process, Accept(p)
      PROVE  /\ sched[p].pc = "send" /\ call[p].phase = "called"
             /\ \A d \in Draft : d # call[p].draft => deliveries'[d] = deliveries[d]
             /\ deliveries[call[p].draft] = 0 => deliveries'[call[p].draft] = 1
             /\ drafts[call[p].draft] = "present" /\ call[p].draft \in Draft
  <2>1. call[p].phase = "called" /\ drafts[call[p].draft] = "present"
    BY <1>2 DEF Accept
  <2>2. sched[p].pc = "send" /\ call[p].draft \in Draft
    BY <2>1 DEF TimelyInv, OnlyDispatchersCall, IInv, CallsDelivered, Caller
  <2>3. deliveries \in [Draft -> 0..2]
    BY DEF TimelyInv, IInv, TypeOK
  <2>4. deliveries' = [deliveries EXCEPT ![call[p].draft] = IF @ < 2 THEN @ + 1 ELSE @]
    BY <1>2 DEF Accept
  <2> QED
    BY <2>1, <2>2, <2>3, <2>4
<1> QED
  BY <1>1, <1>2

\* Where a scheduler's call stands, and whether its draft went out.
LEMMA SentByMoves ==
  ASSUME Timely, TimelyInv, Next, NEW p \in Process, sched[p].pc = "send", sched'[p].pc = "send"
  PROVE  /\ ~Accept(p) => (SentBy(p)' <=> SentBy(p))
         /\ Accept(p) => SentBy(p)' /\ ~SentBy(p)
<1>1. /\ call \in [Caller -> Call] /\ call[p] \in Call /\ p \in Caller /\ p \notin Client
      /\ call[p].phase # "none"
  BY SchedulerAssumption DEF TimelyInv, IInv, TypeOK, Caller, FiredRows
<1>2. call'[p] = call[p] \/ Accept(p) \/ NoSuchDraft(p) \/ Refuse(p) \/ CleanUp(p) \/ Look(p)
  BY CallKeepsDraft, TimelyMoves, <1>1 DEF ProviderStep, ServiceStep, TimelyInv
<1>3. ASSUME NEW phase, NEW outcome, Answer(p, phase, outcome)
      PROVE  call'[p].phase = phase /\ call'[p].outcome = outcome
  BY <1>1, <1>3 DEF Answer, Call
<1>4. call[p].phase = "called" => ~SentBy(p)
  BY DEF SentBy
<1>5. NoSuchDraft(p) \/ Refuse(p) => ~SentBy(p) /\ ~SentBy(p)'
  BY <1>3, <1>4 DEF NoSuchDraft, Refuse, SentBy
<1>6. Accept(p) => ~SentBy(p) /\ SentBy(p)'
  BY <1>3, <1>4 DEF Accept, SentBy, Timely
<1>7. CleanUp(p) => SentBy(p) /\ SentBy(p)'
  BY <1>3 DEF CleanUp, SentBy
<1>8. ASSUME Look(p) PROVE SentBy(p) /\ SentBy(p)'
  <2>1. PendingFor(call[p].draft) = {}
    BY NothingPendingBeside
  <2>2. call'[p] = [call[p] EXCEPT !.phase = "done"]
    BY <1>1, <1>8, <2>1 DEF Look
  <2>3. call'[p].phase = "done" /\ call'[p].outcome = call[p].outcome
    BY <1>1, <2>2 DEF Call
  <2> QED
    BY <1>8, <2>3 DEF Look, SentBy
<1>9. call'[p] = call[p] => (SentBy(p)' <=> SentBy(p))
  BY DEF SentBy
<1> QED
  BY <1>2, <1>5, <1>6, <1>7, <1>8, <1>9

\* What a dispatch that ends knows of its draft.
LEMMA SentByEnds ==
  ASSUME TimelyInv, NEW p \in Process
  PROVE  /\ Complete(p) => SentBy(p)
         /\ Timely /\ (Fail(p) \/ Retry(p)) => ~SentBy(p)
<1>1. p \in Caller /\ IInv
  BY DEF Caller, TimelyInv
<1>2. Complete(p) => SentBy(p)
  BY <1>1 DEF Complete, SentBy, IInv, CallsDelivered
<1>3. ASSUME Timely, Fail(p) \/ Retry(p) PROVE ~SentBy(p)
  <2>1. call[p].outcome # "ok"
    BY <1>3 DEF Fail, Retry, Failing, Timely
  <2>2. call[p].phase \in {"answered", "found", "done"}
    BY <1>3 DEF Fail, Retry, Resumed
  <2> QED
    BY <2>1, <2>2 DEF SentBy
<1> QED
  BY <1>2, <1>3

\* A draft whose row is not being sent stays where it is; one that is being sent goes out
\* with the call of its claim.
LEMMA OnlyClaimedGoOut ==
  ASSUME Timely, TimelyInv, Next, NEW r \in Schedule, rows[r].draft \in Draft,
         rows[r].status = "sending" => ~Accept(rows[r].token)
  PROVE  deliveries'[rows[r].draft] = deliveries[rows[r].draft]
<1> SUFFICES ASSUME NEW p \in Process, Accept(p), sched[p].pc = "send", call[p].draft = rows[r].draft
             PROVE  FALSE
  BY DeliveriesMove
<1>1. r = sched[p].row
  BY DEF TimelyInv, CallsOwnDraft
<1>2. rows[r].status # "deleted"
  BY StoreAssumption DEF TimelyInv, IInv, RowsHaveDrafts
<1> QED
  BY <1>1, <1>2 DEF TimelyInv, DispatchHoldsClaim, Owns, Is

LEMMA SendsOnceStep ==
  ASSUME Timely, TimelyInv, Next
  PROVE  SendsOnce'
<1>1. /\ IInv /\ NothingSuperseded /\ RowsHaveDrafts' /\ deliveries \in [Draft -> 0..2]
      /\ drafts \in [Draft -> {"none", "present", "gone"}] /\ drafts' \in [Draft -> {"none", "present", "gone"}]
  <2>1. IInv /\ IInv' /\ NothingSuperseded
    BY StepInv DEF TimelyInv
  <2> QED
    BY <2>1 DEF IInv, TypeOK
<1>2. \A r \in Schedule : rows[r].status \notin {"none", "deleted"} => rows[r].draft \in Draft
  BY <1>1 DEF IInv, RowsHaveDrafts
<1>3. \A x \in Caller : ~Supersede(x)
  BY TimelyMoves
<1>4. ASSUME NEW d \in Draft, drafts'[d] = "none" PROVE deliveries'[d] = 0
  <2>1. drafts[d] = "none" /\ deliveries[d] = 0
    BY <1>1, <1>4, DraftsStay DEF TimelyInv, SendsOnce
  <2> QED
    BY <2>1, DeliveriesMove
<1>5. ASSUME NEW r \in Schedule, rows[r].status \in {"pending", "sent"},
             rows'[r].status = rows[r].status, rows'[r].draft = rows[r].draft
      PROVE  deliveries'[rows'[r].draft] = deliveries[rows[r].draft]
  BY <1>2, <1>5, OnlyClaimedGoOut
<1>6. ASSUME NEW r \in Schedule, NEW p \in Process, Complete(p) \/ Fail(p) \/ Retry(p),
             sched[p].row = r, rows[r].token = p
      PROVE  /\ rows'[r].status = "pending" => deliveries'[rows'[r].draft] = 0
             /\ rows'[r].status = "sent" => deliveries'[rows'[r].draft] = 1
  <2>0. PICK status \in {"sent", "failed", "pending"} : \E error :
            /\ UpdateClaim(r, p, Released(r, status, error))
            /\ status = "sent" => Complete(p)
            /\ status = "pending" => Retry(p)
    BY <1>6 DEF Complete, Fail, Retry, completeClaim, failClaim, retryClaim
  <2>1. PICK error :
          /\ UpdateClaim(r, p, Released(r, status, error))
          /\ status = "sent" => Complete(p)
          /\ status = "pending" => Retry(p)
    BY <2>0
  <2>2. rows'[r].status = status /\ rows'[r].draft = rows[r].draft /\ deliveries' = deliveries
    BY <1>1, <1>6, <2>1, ReleasedFields DEF Complete, Fail, Retry
  <2>3. rows[r].status = "sending"
    <3>1. sched[p].pc = "send"
      BY <1>6 DEF Complete, Fail, Retry, Returned
    <3>2. rows[r].status # "deleted"
      BY <1>1, <1>6, StoreAssumption DEF IInv, RowsHaveDrafts
    <3> QED
      BY <1>6, <3>1, <3>2 DEF TimelyInv, DispatchHoldsClaim, Owns, Is
  <2>4. deliveries[rows[r].draft] = IF SentBy(p) THEN 1 ELSE 0
    BY <1>6, <2>3 DEF TimelyInv, SendsOnce
  <2> QED
    BY <2>1, <2>2, <2>4, SentByEnds
<1>7. ASSUME NEW r \in Schedule, NEW h \in Hosts, NEW d \in Draft, NEW t \in 0..Horizon, ScheduleSend(r, d, t, h)
      PROVE  rows'[r].status = "pending" /\ deliveries'[rows'[r].draft] = 0
  <2>1. rows'[r].status = "pending" /\ rows'[r].draft = d
    BY <1>1, <1>7, ScheduledFields
  <2>2. drafts[d] = "none" /\ deliveries' = deliveries
    BY <1>7 DEF ScheduleSend, Timely
  <2> QED
    BY <2>1, <2>2 DEF TimelyInv, SendsOnce
<1>8. ASSUME NEW r \in Schedule, rows'[r].status \in {"pending", "sent"}
      PROVE  /\ rows'[r].status = "pending" => deliveries'[rows'[r].draft] = 0
             /\ rows'[r].status = "sent" => deliveries'[rows'[r].draft] = 1
  <2>1. rows'[r].status = rows[r].status /\ rows'[r].draft = rows[r].draft =>
          /\ rows'[r].status = "pending" => deliveries'[rows'[r].draft] = 0
          /\ rows'[r].status = "sent" => deliveries'[rows'[r].draft] = 1
    BY <1>5, <1>8 DEF TimelyInv, SendsOnce
  <2>2. \A p \in Process : ~Fire(p, r)
    BY <1>1, <1>8, FiredFields
  <2>3. \A h : ~CancelScheduled(r, h)
    BY <1>1, <1>8, CanceledFields
  <2>4. rows'[r] # [NoRow EXCEPT !.status = "deleted"]
    BY <1>8 DEF NoRow
  <2>5. Elapse => rows'[r].status = rows[r].status /\ rows'[r].draft = rows[r].draft
    BY <1>1, AgedFields
  <2> QED
    BY <1>1, <1>3, <1>6, <1>7, <2>1, <2>2, <2>3, <2>4, <2>5, RowMoves
<1>9. ASSUME NEW r \in Schedule, rows'[r].status = "sending"
      PROVE  deliveries'[rows'[r].draft] = IF SentBy(rows[r].token)' THEN 1 ELSE 0
  <2>1. ASSUME NEW p \in Process, Fire(p, r)
        PROVE  deliveries'[rows'[r].draft] = IF SentBy(rows[r].token)' THEN 1 ELSE 0
    <3>1. rows'[r].token = p /\ rows'[r].draft = rows[r].draft /\ deliveries' = deliveries
      BY <1>1, <2>1, FiredFields DEF Fire
    <3>2. ~SentBy(p)'
      BY <1>1, <2>1, PhaseMoves DEF SentBy, Caller
    <3>3. rows[r].status = "pending"
      BY <2>1 DEF Fire, claimScheduledSend, Claimable, Is, TimelyInv, SendingIsDispatched
    <3>4. deliveries[rows[r].draft] = 0
      BY <3>3 DEF TimelyInv, SendsOnce
    <3> QED
      BY <3>1, <3>2, <3>4 DEF SentBy
  <2>2. ASSUME rows[r].status = "sending", rows'[r].token = rows[r].token, rows'[r].draft = rows[r].draft
        PROVE  deliveries'[rows'[r].draft] = IF SentBy(rows[r].token)' THEN 1 ELSE 0
    <3>1. PICK q \in Process : rows[r].token = q /\ sched[q].pc = "send" /\ sched[q].row = r
      BY <2>2 DEF TimelyInv, SendingIsDispatched
    <3>2. sched'[q].pc = "send"
      BY <1>9, <2>2, <3>1, SendingIsDispatchedStep DEF SendingIsDispatched
    <3>3. /\ ~Accept(q) => (SentBy(q)' <=> SentBy(q))
          /\ Accept(q) => SentBy(q)' /\ ~SentBy(q)
      BY <3>1, <3>2, SentByMoves
    <3>4. deliveries[rows[r].draft] = IF SentBy(q) THEN 1 ELSE 0
      BY <2>2, <3>1 DEF TimelyInv, SendsOnce
    <3>5. rows[r].draft \in Draft /\ call[q].draft = rows[r].draft
      BY <1>1, <1>2, <2>2, <3>1 DEF IInv, FiredRows, RowOf
    <3>6. ~Accept(q) => deliveries'[rows[r].draft] = deliveries[rows[r].draft]
      BY <3>1, <3>5, OnlyClaimedGoOut
    <3>7. Accept(q) => deliveries'[rows[r].draft] = deliveries[rows[r].draft] + 1
      <4>1. Accept(q) => deliveries[rows[r].draft] = 0
        BY <3>3, <3>4
      <4> QED
        BY <1>1, <3>5, <4>1 DEF Accept
    <3>8. SentBy(rows[r].token)' <=> SentBy(q)'
      BY <2>2, <3>1 DEF SentBy
    <3>9. deliveries'[rows[r].draft] = IF SentBy(q)' THEN 1 ELSE 0
      BY <3>3, <3>4, <3>6, <3>7
    <3> QED
      BY <2>2, <3>8, <3>9
  <2> QED
    BY <1>1, <1>9, <2>1, <2>2, ClaimMoves
<1> QED
  BY <1>4, <1>8, <1>9 DEF SendsOnce

LEMMA TimelyInvariance ==
  ASSUME Timely
  PROVE  Spec => []TimelyInv
<1>1. Init => TimelyInv
  <2> SUFFICES ASSUME Init PROVE TimelyInv
    OBVIOUS
  <2>1. \A x \in Caller : call[x].phase = "none"
    BY DEF Init, NoCall
  <2>2. \A p \in Process : sched[p].pc = "down" /\ sched[p].due = {}
    BY DEF Init, Stopped
  <2>3. \A r \in Schedule : rows[r].status = "none" /\ rows[r].draft = Null
    BY DEF Init, StoreInit, NoRow
  <2>4. \A d \in Draft : deliveries[d] = 0
    BY DEF Init
  <2>5. OnlyDispatchersCall /\ DispatchHoldsClaim /\ CallsOwnDraft
    BY <2>1, <2>2 DEF OnlyDispatchersCall, DispatchHoldsClaim, CallsOwnDraft, Caller
  <2>6. OneRowPerDraft /\ SendingIsDispatched /\ ListedIsDue
    BY <2>2, <2>3 DEF OneRowPerDraft, SendingIsDispatched, ListedIsDue
  <2>7. NothingSuperseded /\ OnlySchedulersSend
    BY <2>1 DEF NothingSuperseded, OnlySchedulersSend, Caller
  <2>8. SendsOnce
    BY <2>3, <2>4 DEF SendsOnce
  <2> QED
    BY <2>5, <2>6, <2>7, <2>8, InitInv DEF TimelyInv
<1>2. TimelyInv /\ Next => TimelyInv'
  <2> SUFFICES ASSUME TimelyInv, Next PROVE TimelyInv'
    OBVIOUS
  <2>1. IInv' /\ OnlyDispatchersCall'
    BY StepInv, OnlyDispatchersCallStep DEF TimelyInv
  <2> QED
    BY <2>1, TimelyClaimStep, OneRowPerDraftStep, SendingIsDispatchedStep, ListedIsDueStep,
       CallsOwnDraftStep, CallersStep, SendsOnceStep DEF TimelyInv
<1>3. TimelyInv /\ UNCHANGED vars => TimelyInv'
  <2> SUFFICES ASSUME TimelyInv, UNCHANGED vars PROVE TimelyInv'
    OBVIOUS
  <2>1. /\ IInv' /\ OnlyDispatchersCall'
        /\ rows' = rows /\ sched' = sched /\ call' = call /\ drafts' = drafts /\ deliveries' = deliveries
    BY StepInv, OnlyDispatchersCallStep DEF TimelyInv, vars
  <2>2. DispatchHoldsClaim' /\ OneRowPerDraft' /\ SendingIsDispatched' /\ ListedIsDue'
    BY <2>1 DEF TimelyInv, DispatchHoldsClaim, Owns, Is, OneRowPerDraft, SendingIsDispatched, ListedIsDue
  <2>3. CallsOwnDraft' /\ NothingSuperseded' /\ OnlySchedulersSend' /\ SendsOnce'
    BY <2>1 DEF TimelyInv, CallsOwnDraft, NothingSuperseded, OnlySchedulersSend, SendsOnce, SentBy
  <2> QED
    BY <2>1, <2>2, <2>3 DEF TimelyInv
<1> QED
  BY <1>1, <1>2, <1>3, PTL DEF Spec

\* What the user of ScheduledDelivery sees of the rows.
Promises == [r \in Schedule |-> PromiseOf(r)]
DueRows == {r \in Schedule : rows[r].draft # Null /\ rows[r].sendAt <= 0}
Outs == [r \in Schedule |-> IF rows[r].draft = Null THEN 0 ELSE deliveries[rows[r].draft]]

\* A statement that leaves the drafts and the times of the rows alone changes one promise at most.
LEMMA OneRowSettles ==
  ASSUME NEW r \in Schedule, \A s \in Schedule : s # r => rows'[s] = rows[s],
         rows'[r].draft = rows[r].draft, rows'[r].sendAt = rows[r].sendAt, deliveries' = deliveries
  PROVE  /\ Promises' = [Promises EXCEPT ![r] = PromiseOf(r)']
         /\ DueRows' = DueRows /\ Outs' = Outs
<1>1. \A s \in Schedule : s # r => PromiseOf(s)' = PromiseOf(s)
  BY DEF PromiseOf
<1>2. Promises' = [Promises EXCEPT ![r] = PromiseOf(r)']
  BY <1>1 DEF Promises
<1>3. \A s \in Schedule : rows'[s].draft = rows[s].draft /\ rows'[s].sendAt = rows[s].sendAt
  OBVIOUS
<1>4. DueRows' = DueRows /\ Outs' = Outs
  BY <1>3 DEF DueRows, Outs
<1> QED
  BY <1>2, <1>4

\* The steps that users do not see.
LEMMA QuietForUsers ==
  ASSUME \A s \in Schedule : /\ rows'[s].status = rows[s].status /\ rows'[s].draft = rows[s].draft
                             /\ rows'[s].sendAt = rows[s].sendAt,
         deliveries' = deliveries
  PROVE  UNCHANGED <<Promises, DueRows, Outs>>
<1>1. \A s \in Schedule : PromiseOf(s)' = PromiseOf(s)
  BY DEF PromiseOf
<1> QED
  BY <1>1 DEF Promises, DueRows, Outs

LEMMA FirePromise ==
  ASSUME TimelyInv, NEW r \in Schedule, NEW p \in Process, Fire(p, r)
  PROVE  UNCHANGED <<Promises, DueRows, Outs>>
<1>1. /\ rows'[r].status = "sending" /\ rows'[r].draft = rows[r].draft /\ rows'[r].sendAt = rows[r].sendAt
      /\ \A s \in Schedule : s # r => rows'[s] = rows[s]
      /\ deliveries' = deliveries
  BY FiredFields DEF TimelyInv, Fire
<1>2. PromiseOf(r) = "waiting" /\ PromiseOf(r)' = "waiting"
  BY <1>1 DEF Fire, claimScheduledSend, Claimable, Is, PromiseOf, Active
<1>3. Promises' = [Promises EXCEPT ![r] = PromiseOf(r)'] /\ DueRows' = DueRows /\ Outs' = Outs
  BY <1>1, OneRowSettles
<1>4. Promises' = Promises
  BY <1>2, <1>3 DEF Promises
<1> QED
  BY <1>3, <1>4

\* The end of a dispatch settles its promise, or gives it back to a later attempt.
LEMMA EndPromise ==
  ASSUME Timely, TimelyInv, NEW p \in Process, Complete(p) \/ Fail(p) \/ Retry(p)
  PROVE  \/ UNCHANGED <<Promises, DueRows, Outs>>
         \/ \E r \in Schedule :
              /\ Promises[r] = "waiting" /\ DueRows' = DueRows /\ Outs' = Outs
              /\ \/ Outs[r] = 1 /\ Promises' = [Promises EXCEPT ![r] = "sent"]
                 \/ Outs[r] = 0 /\ Promises' = [Promises EXCEPT ![r] = "failed"]
<1>1. PICK r \in Schedule : IInv /\ sched[p].row = r /\ sched[p].pc = "send" /\ deliveries' = deliveries
  <2>1. sched[p].pc = "send" /\ deliveries' = deliveries
    BY DEF Complete, Fail, Retry, Returned
  <2> QED
    BY <2>1, DispatchedRow DEF TimelyInv
<1>2. CASE rows[r].token # p
  <2>1. rows' = rows
    BY <1>1, <1>2 DEF Complete, Fail, Retry, completeClaim, failClaim, retryClaim, UpdateClaim
  <2> QED
    BY <1>1, <2>1, QuietForUsers
<1>3. CASE rows[r].token = p
  <2>0. PICK status \in {"sent", "failed", "pending"} : \E error :
            /\ UpdateClaim(r, p, Released(r, status, error))
            /\ status = "sent" => Complete(p)
            /\ status = "failed" => Fail(p)
    BY <1>1 DEF Complete, Fail, Retry, completeClaim, failClaim, retryClaim
  <2>1. PICK error :
          /\ UpdateClaim(r, p, Released(r, status, error))
          /\ status = "sent" => Complete(p)
          /\ status = "failed" => Fail(p)
    BY <2>0
  <2>2. /\ rows'[r].status = status /\ rows'[r].draft = rows[r].draft /\ rows'[r].sendAt = rows[r].sendAt
        /\ \A s \in Schedule : s # r => rows'[s] = rows[s]
    BY <1>1, <1>3, <2>1, ReleasedFields
  <2>3. rows[r].status = "sending" /\ rows[r].draft \in Draft
    <3>1. rows[r].status # "deleted"
      BY <1>1, <1>3, StoreAssumption DEF IInv, RowsHaveDrafts
    <3>2. rows[r].status = "sending"
      BY <1>1, <3>1 DEF TimelyInv, DispatchHoldsClaim, Owns, Is
    <3> QED
      BY <1>1, <3>2 DEF IInv, RowsHaveDrafts
  <2>4. deliveries[rows[r].draft] = IF SentBy(p) THEN 1 ELSE 0
    BY <1>1, <1>3, <2>3 DEF TimelyInv, SendsOnce
  <2>5. Outs[r] = deliveries[rows[r].draft] /\ Promises[r] = "waiting"
    BY <1>1, <2>3, StoreAssumption DEF Outs, Promises, PromiseOf, Active
  <2>6. PromiseOf(r)' = IF status = "pending" THEN "waiting" ELSE status
    BY <2>1, <2>2 DEF PromiseOf, Active
  <2>7. Promises' = [Promises EXCEPT ![r] = PromiseOf(r)'] /\ DueRows' = DueRows /\ Outs' = Outs
    BY <1>1, <2>2, OneRowSettles
  <2>8. CASE status = "pending"
    <3>1. Promises' = Promises
      BY <2>5, <2>6, <2>7, <2>8 DEF Promises
    <3> QED
      BY <2>7, <3>1
  <2>9. CASE status = "sent"
    <3>1. Outs[r] = 1
      BY <2>1, <2>4, <2>5, <2>9, SentByEnds
    <3> QED
      BY <1>1, <2>5, <2>6, <2>7, <2>9, <3>1
  <2>10. CASE status = "failed"
    <3>1. Outs[r] = 0
      BY <2>1, <2>4, <2>5, <2>10, SentByEnds
    <3> QED
      BY <1>1, <2>5, <2>6, <2>7, <2>10, <3>1
  <2> QED
    BY <2>1, <2>8, <2>9, <2>10
<1> QED
  BY <1>2, <1>3

LEMMA ScheduledPromise ==
  ASSUME Timely, TimelyInv, NEW r \in Schedule, NEW h \in Hosts, NEW d \in Draft,
         NEW t \in 0..Horizon, ScheduleSend(r, d, t, h)
  PROVE  /\ Promises[r] = "none" /\ Promises' = [Promises EXCEPT ![r] = "waiting"]
         /\ DueRows' \in {DueRows, DueRows \cup {r}} /\ Outs' = Outs
<1>1. /\ rows[r].status = "none" /\ rows[r].draft = Null
      /\ rows'[r].status = "pending" /\ rows'[r].draft = d
      /\ \A s \in Schedule : s # r => rows'[s] = rows[s]
  BY ScheduledFields DEF TimelyInv
<1>2. deliveries' = deliveries /\ deliveries[d] = 0
  <2>1. drafts[d] = "none" /\ deliveries' = deliveries
    BY DEF ScheduleSend, Timely
  <2> QED
    BY <2>1 DEF TimelyInv, SendsOnce
<1>3. Promises[r] = "none" /\ Promises' = [Promises EXCEPT ![r] = "waiting"]
  <2>1. \A s \in Schedule : s # r => PromiseOf(s)' = PromiseOf(s)
    BY <1>1 DEF PromiseOf
  <2>2. PromiseOf(r) = "none" /\ PromiseOf(r)' = "waiting"
    BY <1>1 DEF PromiseOf, Active
  <2> QED
    BY <2>1, <2>2 DEF Promises
<1>4. DueRows' \in {DueRows, DueRows \cup {r}}
  <2>1. \A s \in Schedule : s # r => (s \in DueRows' <=> s \in DueRows)
    BY <1>1 DEF DueRows
  <2>2. r \notin DueRows /\ DueRows \subseteq Schedule /\ DueRows' \subseteq Schedule
    BY <1>1 DEF DueRows
  <2>3. CASE r \in DueRows'
    BY <2>1, <2>2, <2>3
  <2>4. CASE r \notin DueRows'
    BY <2>1, <2>2, <2>4
  <2> QED
    BY <2>3, <2>4
<1>5. Outs' = Outs
  <2>1. \A s \in Schedule :
          (IF rows'[s].draft = Null THEN 0 ELSE deliveries'[rows'[s].draft])
            = (IF rows[s].draft = Null THEN 0 ELSE deliveries[rows[s].draft])
    BY <1>1, <1>2
  <2> QED
    BY <2>1 DEF Outs
<1> QED
  BY <1>3, <1>4, <1>5

LEMMA CanceledPromise ==
  ASSUME TimelyInv, NEW r \in Schedule, NEW h \in Hosts, CancelScheduled(r, h)
  PROVE  /\ Promises[r] = "waiting" /\ Promises' = [Promises EXCEPT ![r] = "canceled"]
         /\ Outs[r] = 0 /\ DueRows' = DueRows /\ Outs' = Outs
<1>1. /\ rows[r].status = "pending" /\ rows'[r].status = "canceled" /\ rows'[r].draft = rows[r].draft
      /\ rows'[r].sendAt = rows[r].sendAt /\ \A s \in Schedule : s # r => rows'[s] = rows[s]
      /\ deliveries' = deliveries
  BY CanceledFields DEF TimelyInv, CancelScheduled
<1>2. PromiseOf(r) = "waiting" /\ PromiseOf(r)' = "canceled"
  BY <1>1 DEF PromiseOf, Active
<1>3. Outs[r] = 0
  BY <1>1 DEF Outs, TimelyInv, SendsOnce
<1> QED
  BY <1>1, <1>2, <1>3, OneRowSettles DEF Promises

\* Nothing is promised any more for the rows that go with their mailbox.
LEMMA RemovedPromises ==
  ASSUME TimelyInv, NEW a, RemoveAccount(a)
  PROVE  \E S \in SUBSET Schedule :
           /\ \A s \in S : Promises[s] # "none"
           /\ Promises' = [s \in Schedule |-> IF s \in S THEN "deleted" ELSE Promises[s]]
           /\ DueRows' = DueRows \ S
           /\ Outs' = [s \in Schedule |-> IF s \in S THEN 0 ELSE Outs[s]]
<1> DEFINE S == {r \in Schedule : rows[r].draft # Null /\ AccountOf[rows[r].draft] = a}
<1>1. /\ \A s \in S : rows'[s].status = "deleted" /\ rows'[s].draft = Null
      /\ \A s \in Schedule \ S : rows'[s] = rows[s]
      /\ deliveries' = deliveries
  BY DEF RemoveAccount, CascadeAccount, NoRow
<1>2. \A s \in S : rows[s].status # "none"
  BY DEF TimelyInv, IInv, RowsHaveDrafts
<1>3. S \subseteq Schedule
  OBVIOUS
<1> HIDE DEF S
<1>4. \A s \in S : PromiseOf(s) # "none" /\ PromiseOf(s)' = "deleted"
  BY <1>1, <1>2 DEF PromiseOf, Active
<1>5. \A s \in Schedule \ S : PromiseOf(s)' = PromiseOf(s)
  BY <1>1 DEF PromiseOf
<1>6. /\ \A s \in S : Promises[s] # "none"
      /\ Promises' = [s \in Schedule |-> IF s \in S THEN "deleted" ELSE Promises[s]]
  BY <1>3, <1>4, <1>5 DEF Promises
<1>7. DueRows' = DueRows \ S
  BY <1>1 DEF DueRows
<1>8. Outs' = [s \in Schedule |-> IF s \in S THEN 0 ELSE Outs[s]]
  BY <1>1, <1>3 DEF Outs
<1> QED
  BY <1>3, <1>6, <1>7, <1>8

LEMMA ElapsePromises ==
  ASSUME TimelyInv, Elapse
  PROVE  UNCHANGED <<Promises, Outs>> /\ DueRows \subseteq DueRows' /\ DueRows' \subseteq Schedule
<1>1. \A r \in Schedule : /\ rows'[r].status = rows[r].status /\ rows'[r].draft = rows[r].draft
                          /\ rows'[r].sendAt <= rows[r].sendAt
  BY AgedFields DEF TimelyInv
<1>2. \A r \in Schedule : rows[r].sendAt \in Int /\ rows'[r].sendAt \in Int
  <2>1. rows \in [Schedule -> Row] /\ rows' \in [Schedule -> Row]
    BY StepInv DEF TimelyInv, IInv, TypeOK, Next
  <2> QED
    BY <2>1, StoreAssumption DEF Row
<1>3. deliveries' = deliveries
  BY DEF Elapse
<1>4. \A r \in Schedule : PromiseOf(r)' = PromiseOf(r)
  BY <1>1 DEF PromiseOf
<1>5. UNCHANGED <<Promises, Outs>>
  BY <1>1, <1>3, <1>4 DEF Promises, Outs
<1>6. DueRows \subseteq DueRows' /\ DueRows' \subseteq Schedule
  BY <1>1, <1>2 DEF DueRows
<1> QED
  BY <1>5, <1>6

\* A draft goes out for the row that the call was claimed for, or for none when its
\* mailbox was removed meanwhile.
LEMMA AcceptPromise ==
  ASSUME Timely, TimelyInv, Next, NEW p \in Process, Accept(p)
  PROVE  \/ UNCHANGED <<Promises, DueRows, Outs>>
         \/ \E r \in Schedule :
              /\ Promises[r] = "waiting" /\ r \in DueRows /\ Outs[r] = 0
              /\ Outs' = [Outs EXCEPT ![r] = 1] /\ UNCHANGED <<Promises, DueRows>>
<1>1. IInv /\ rows' = rows /\ sched[p].pc = "send" /\ call[p].phase = "called"
  BY DEF Accept, TimelyInv, OnlyDispatchersCall
<1>2. PICK r \in Schedule : sched[p].row = r
  BY <1>1, DispatchedRow
<1>3. PICK d \in Draft : call[p].draft = d /\ d # Null
  BY <1>1, DispatchedRow, StoreAssumption
<1>4. UNCHANGED <<Promises, DueRows>>
  BY <1>1 DEF Promises, DueRows, PromiseOf
<1>5. deliveries \in [Draft -> 0..2]
  BY <1>1 DEF IInv, TypeOK
<1>6. \A e \in Draft : e # d => deliveries'[e] = deliveries[e]
  BY <1>3, <1>5 DEF Accept
<1>7. \A s \in Schedule : rows[s].draft # Null => rows[s].draft \in Draft
  BY <1>1 DEF IInv, RowsHaveDrafts
<1>8. \A s \in Schedule : rows[s].draft = d => s = r
  BY <1>1, <1>2, <1>3 DEF TimelyInv, CallsOwnDraft
<1>9. \A s \in Schedule : s # r => Outs'[s] = Outs[s]
  BY <1>1, <1>6, <1>7, <1>8 DEF Outs
<1>10. CASE rows[r].status = "deleted"
  <2>1. rows[r].draft = Null
    BY <1>1, <1>10 DEF IInv, RowsHaveDrafts
  <2>2. Outs'[r] = Outs[r]
    BY <1>1, <2>1 DEF Outs
  <2>3. Outs' = Outs
    BY <1>9, <2>2 DEF Outs
  <2> QED
    BY <1>4, <2>3
<1>11. CASE rows[r].status # "deleted"
  <2>1. rows[r].status = "sending" /\ rows[r].token = p
    BY <1>1, <1>2, <1>11 DEF TimelyInv, DispatchHoldsClaim, Owns, Is
  <2>2. rows[r].draft = d /\ rows[r].sendAt <= 0
    BY <1>1, <1>2, <1>3, <1>11, <2>1, DispatchedRow DEF RowOf, TimelyInv, SendingIsDispatched
  <2>3. deliveries[d] = 0
    BY <1>1, <2>1, <2>2 DEF TimelyInv, SendsOnce, SentBy
  <2>4. deliveries'[d] = 1
    BY <1>3, <1>5, <2>3 DEF Accept
  <2>5. Outs[r] = 0 /\ Outs'[r] = 1
    BY <1>1, <1>3, <2>2, <2>3, <2>4 DEF Outs
  <2>6. Outs' = [Outs EXCEPT ![r] = 1]
    BY <1>9, <2>5 DEF Outs
  <2>7. Promises[r] = "waiting" /\ r \in DueRows
    BY <1>3, <2>1, <2>2 DEF Promises, PromiseOf, Active, DueRows
  <2> QED
    BY <1>4, <2>5, <2>6, <2>7
<1> QED
  BY <1>10, <1>11

\* What the other actions leave alone.
LEMMA OthersAreQuiet ==
  ASSUME TimelyInv,
         \/ \E p \in Process : \/ Start(p) \/ TimerFires(p) \/ Tick(p) \/ Finish(p) \/ Renew(p)
                               \/ \E r \in Schedule : Skip(p, r)
         \/ \E x \in Caller : NoSuchDraft(x) \/ Refuse(x) \/ CleanUp(x) \/ Look(x)
         \/ Lapse \/ Trim
  PROVE  UNCHANGED <<Promises, DueRows, Outs>>
<1>1. CASE \E p \in Process : Tick(p)
  <2>1. PICK p \in Process : Tick(p)
    BY <1>1
  <2>2. rows \in [Schedule -> Row]
    BY DEF TimelyInv, IInv, TypeOK
  <2>3. deliveries' = deliveries /\ (rows' = rows \/ holdPending(Due(p)))
    BY <2>1 DEF Tick
  <2>4. \A s \in Schedule : /\ rows'[s].status = rows[s].status /\ rows'[s].draft = rows[s].draft
                            /\ rows'[s].sendAt = rows[s].sendAt
    BY <2>2, <2>3 DEF holdPending, Row
  <2> QED
    BY <2>3, <2>4, QuietForUsers
<1>2. CASE ~\E p \in Process : Tick(p)
  <2>1. rows' = rows /\ deliveries' = deliveries
    BY <1>2 DEF Start, TimerFires, Finish, Renew, Skip, NoSuchDraft, Refuse, CleanUp, Look, Lapse, Trim
  <2> QED
    BY <2>1, QuietForUsers
<1> QED
  BY <1>1, <1>2

LEMMA StepImplementsDelivery ==
  ASSUME Timely
  PROVE  TimelyInv /\ [Next]_vars => [Delivery!Next]_(Delivery!pvars)
<1> SUFFICES ASSUME TimelyInv, [Next]_vars PROVE Delivery!Next \/ UNCHANGED Delivery!pvars
  OBVIOUS
<1>1. UNCHANGED <<Promises, DueRows, Outs>> => UNCHANGED Delivery!pvars
  BY DEF Delivery!pvars, Promises, DueRows, Outs
<1>2. CASE UNCHANGED vars
  BY <1>2 DEF vars, Delivery!pvars, PromiseOf
<1>3. CASE Next
  <2>1. CASE \E p \in Process, r \in Schedule : Fire(p, r)
    BY <1>1, <2>1, FirePromise
  <2>2. CASE \E p \in Process : Complete(p) \/ Fail(p) \/ Retry(p)
    <3>1. ASSUME NEW r \in Schedule, Promises[r] = "waiting", DueRows' = DueRows, Outs' = Outs,
                 Outs[r] = 1, Promises' = [Promises EXCEPT ![r] = "sent"]
          PROVE  Delivery!RecordSent(r)
      BY <3>1 DEF Delivery!RecordSent, Delivery!Settle, Promises, DueRows, Outs
    <3>2. ASSUME NEW r \in Schedule, Promises[r] = "waiting", DueRows' = DueRows, Outs' = Outs,
                 Outs[r] = 0, Promises' = [Promises EXCEPT ![r] = "failed"]
          PROVE  Delivery!RecordFailed(r)
      BY <3>2 DEF Delivery!RecordFailed, Delivery!Settle, Promises, DueRows, Outs
    <3> QED
      BY <1>1, <2>2, <3>1, <3>2, EndPromise DEF Delivery!Next
  <2>3. CASE \E r \in Schedule, h \in Hosts, d \in Draft, t \in 0..Horizon : ScheduleSend(r, d, t, h)
    <3>1. PICK r \in Schedule :
            /\ Promises[r] = "none" /\ Promises' = [Promises EXCEPT ![r] = "waiting"]
            /\ DueRows' \in {DueRows, DueRows \cup {r}} /\ Outs' = Outs
      BY <2>3, ScheduledPromise
    <3>2. Delivery!Accept(r)
      BY <3>1 DEF Delivery!Accept, Promises, DueRows, Outs
    <3> QED
      BY <3>2 DEF Delivery!Next
  <2>4. CASE \E r \in Schedule, h \in Hosts : CancelScheduled(r, h)
    <3>1. PICK r \in Schedule :
            /\ Promises[r] = "waiting" /\ Promises' = [Promises EXCEPT ![r] = "canceled"]
            /\ Outs[r] = 0 /\ DueRows' = DueRows /\ Outs' = Outs
      BY <2>4, CanceledPromise
    <3>2. Delivery!Cancel(r)
      BY <3>1 DEF Delivery!Cancel, Delivery!Settle, Promises, DueRows, Outs
    <3> QED
      BY <3>2 DEF Delivery!Next
  <2>5. CASE \E a \in Account : RemoveAccount(a)
    <3>1. PICK S \in SUBSET Schedule :
            /\ \A s \in S : Promises[s] # "none"
            /\ Promises' = [s \in Schedule |-> IF s \in S THEN "deleted" ELSE Promises[s]]
            /\ DueRows' = DueRows \ S
            /\ Outs' = [s \in Schedule |-> IF s \in S THEN 0 ELSE Outs[s]]
      BY <2>5, RemovedPromises
    <3>2. Delivery!Withdraw(S)
      BY <3>1 DEF Delivery!Withdraw, Promises, DueRows, Outs
    <3> QED
      BY <3>2 DEF Delivery!Next
  <2>6. CASE Elapse
    <3>1. Delivery!ComeDue
      BY <2>6, ElapsePromises DEF Delivery!ComeDue, Promises, DueRows, Outs
    <3> QED
      BY <3>1 DEF Delivery!Next
  <2>7. CASE \E p \in Process : Accept(p)
    <3>1. ASSUME NEW r \in Schedule, Promises[r] = "waiting", r \in DueRows, Outs[r] = 0,
                 Outs' = [Outs EXCEPT ![r] = 1], UNCHANGED <<Promises, DueRows>>
          PROVE  Delivery!Deliver(r)
      BY <3>1 DEF Delivery!Deliver, Promises, DueRows, Outs
    <3> QED
      BY <1>1, <1>3, <2>7, <3>1, AcceptPromise DEF Delivery!Next
  <2>8. CASE \/ \E p \in Process : \/ Start(p) \/ TimerFires(p) \/ Tick(p) \/ Finish(p) \/ Renew(p)
                                   \/ \E r \in Schedule : Skip(p, r)
             \/ \E x \in Caller : NoSuchDraft(x) \/ Refuse(x) \/ CleanUp(x) \/ Look(x)
             \/ Lapse \/ Trim
    BY <1>1, <2>8, OthersAreQuiet
  <2>9. \A r \in Schedule, h \in Process \cup {Null} :
          \/ CancelScheduled(r, h)
          \/ \E d \in Draft, t \in 0..Horizon : ScheduleSend(r, d, t, h)
          => h \in Hosts
    BY DEF CancelScheduled, ScheduleSend
  <2>10. \A x \in Caller : Accept(x) => x \in Process
    BY <1>3, TimelyMoves DEF Caller, ProviderStep
  <2> QED
    BY <1>3, <2>1, <2>2, <2>3, <2>4, <2>5, <2>6, <2>7, <2>8, <2>9, <2>10, TimelyMoves
    DEF Next, SchedulerStep, ProviderStep, ServiceStep, UserStep
<1> QED
  BY <1>2, <1>3

\* While the store and the provider answer within the lease and the drafts of schedules are
\* Fluxmail's own, any number of processes and one-shot commands keep what a user was
\* promised, whatever is refused, retried, canceled, removed or held for the plan: a message
\* goes out at most once, not before its time and not after it was canceled, and what is
\* recorded is what happened.
THEOREM TimelyDeliveryIsKept ==
  ASSUME Timely
  PROVE  Spec => ImplementsDelivery
<1>1. Init => Delivery!Init
  <2> SUFFICES ASSUME Init PROVE Delivery!Init
    OBVIOUS
  <2>1. \A r \in Schedule : rows[r].status = "none" /\ rows[r].draft = Null
    BY DEF Init, StoreInit, NoRow
  <2> QED
    BY <2>1 DEF Delivery!Init, PromiseOf, Active
<1> QED
  BY <1>1, TimelyInvariance, StepImplementsDelivery, PTL DEF Spec, ImplementsDelivery, Delivery!Spec
====
