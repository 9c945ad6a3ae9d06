---------------------------- MODULE SendScheduler ----------------------------
(***************************************************************************)
(* Scheduled sends end to end: the schedulers of the processes that share  *)
(* a store (scheduler/sendScheduler.ts), the mail service they send        *)
(* through and its user requests (service/emailService.ts), the mailbox    *)
(* that holds the drafts (external) and the table of ScheduledSends.       *)
(*                                                                         *)
(* A process is a Node event loop: a handler runs until it awaits the      *)
(* provider, so the requests a process hosts and its scheduler interleave  *)
(* only there (AtAwait).  Other processes, one-shot CLI commands among     *)
(* them, interleave at every statement on the store.                       *)
(***************************************************************************)
EXTENDS ScheduledSends

CONSTANTS
  Client,       \* concurrent "send this draft now" requests
  HostOf,       \* the process a client's request runs in; Null: a one-shot CLI
  OneShot,      \* whether one-shot CLI commands schedule and cancel too
  Prepared,     \* drafts the user keeps in the mailbox, free to send and schedule
  Smtp,         \* drafts of IMAP accounts: delivered by SMTP, then cleaned up
  MaxArm,       \* MAX_ARM_MS
  BaseBackoff,  \* BASE_BACKOFF_MS
  Faults        \* what may go wrong: see FaultKind

FaultKind == {"crash",    \* a process dies between two steps
              "slow",     \* a send outlasts CLAIM_LEASE_MS
              "lost",     \* the provider acts but its answer is lost
              "busy",     \* a statement throws (SQLITE_BUSY)
              "check",    \* enforceQuota fails for another reason than the quota
              "removal",  \* a mailbox is disconnected
              "lapse"}    \* a license lapses while usage is over the free plan

ASSUME SchedulerAssumption ==
  /\ Process \cap Client = {}
  /\ HostOf \in [Client -> Process \cup {Null}]
  /\ OneShot \in BOOLEAN
  /\ Prepared \subseteq Draft
  /\ Smtp \subseteq Draft
  /\ MaxArm \in Nat \ {0}
  /\ BaseBackoff \in 1..MaxArm
  /\ Faults \subseteq FaultKind

VARIABLES
  sched,      \* per process: its SendScheduler
  call,       \* per caller: the service.send it awaits
  drafts,     \* external: the state of every provider draft
  deliveries, \* external: how often a draft went out (2 stands for more)
  removed,    \* mailboxes that were disconnected
  overQuota   \* whether enforceQuota throws

vars == <<rows, sched, call, drafts, deliveries, removed, overQuota>>

Caller == Process \cup Client
NoTimer == -1

\* pc: "down", not running; "idle", waiting for the timer; "tick", about to
\* list; "loop", between two rows of the list; "send", awaiting service.send.
Scheduler ==
  [pc      : {"down", "idle", "tick", "loop", "send"},
   due     : SUBSET Schedule,              \* rest of the list tick took
   row     : Schedule \cup {Null},         \* the row being fired
   rerun   : BOOLEAN,
   timer   : {NoTimer} \cup 0..MaxArm,     \* time left
   hold    : 0..MaxArm,                    \* quotaHoldUntil - now
   wait    : [Schedule -> 0..MaxArm],      \* backoff: notBefore - now
   backoff : [Schedule -> 0..MaxArm]]      \* backoff: the last delay, 0 if none

\* phase: "called", the provider has the request; "cleanup", delivered by
\* SMTP, the draft still to be removed; "answered", the outcome is known;
\* "found", about to mark the row `found` sent; "done", send resolves.
Call ==
  [phase   : {"none", "called", "cleanup", "answered", "found", "done"},
   draft   : Draft \cup {Null},
   outcome : {"none", "ok", "gone", "permanent", "transient"},
   found   : Schedule \cup {Null}]

NoCall == [phase |-> "none", draft |-> Null, outcome |-> "none", found |-> Null]

Stopped == [pc |-> "down", due |-> {}, row |-> Null, rerun |-> FALSE,
            timer |-> NoTimer, hold |-> 0, wait |-> [r \in Schedule |-> 0],
            backoff |-> [r \in Schedule |-> 0]]

Init ==
  /\ StoreInit
  /\ sched = [p \in Process |-> Stopped]
  /\ call = [x \in Caller |-> NoCall]
  /\ drafts = [d \in Draft |-> IF d \in Prepared THEN "present" ELSE "none"]
  /\ deliveries = [d \in Draft |-> 0]
  /\ removed = {}
  /\ overQuota = FALSE

Up(p) == sched[p].pc # "down"
HostedBy(p) == {c \in Client : HostOf[c] = p}
AtAwait(p) ==
  /\ \/ sched[p].pc = "idle"
     \/ sched[p].pc = "send" /\ call[p].phase \in {"called", "cleanup", "answered"}
  /\ \A c \in HostedBy(p) : call[c].phase # "found"

\* tick() called by wake() or the timer: at once, or again after the running one.
Poked(s) == CASE s.pc = "idle" -> [s EXCEPT !.pc = "tick"]
              [] s.pc = "down" -> s
              [] OTHER         -> [s EXCEPT !.rerun = TRUE]

\* Mutant: onScheduleChanged left at its default, which does nothing.
ScheduleChangeIgnored(h) == UNCHANGED sched

\* onScheduleChanged of a request in process h; a one-shot's scheduler never runs.
ScheduleChanged(h) ==
  sched' = IF h = Null THEN sched ELSE [sched EXCEPT ![h] = Poked(@)]

\* Where a user request may run now.
Hosts == {p \in Process : Up(p) /\ AtAwait(p)}
           \cup (IF OneShot THEN {Null} ELSE {})

-----------------------------------------------------------------------------
(* The scheduler of process p. *)

Start(p) ==
  /\ sched[p].pc = "down"
  /\ sched' = [sched EXCEPT ![p].pc = "tick"]
  /\ UNCHANGED <<rows, call, drafts, deliveries, removed, overQuota>>

TimerFires(p) ==
  /\ AtAwait(p)
  /\ sched[p].timer = 0
  /\ sched' = [sched EXCEPT ![p] = Poked([@ EXCEPT !.timer = NoTimer])]
  /\ UNCHANGED <<rows, call, drafts, deliveries, removed, overQuota>>

\* Mutant: the due time not compared.
DueAtOnce(p) == {r \in Schedule : Claimable(r) /\ sched[p].wait[r] = 0}

Due(p) == {r \in Schedule : /\ Claimable(r)
                            /\ rows[r].sendAt <= 0
                            /\ sched[p].wait[r] = 0}

\* The end of tick's check: `held` when enforceQuota throws, which holds all that is
\* due.  It throws over the plan quota, and its catch takes every other error of
\* it, such as that of a busy store, for the same.
QuotaCheck(p, held) ==
  IF held THEN Due(p) # {} /\ (overQuota \/ "check" \in Faults)
          ELSE Due(p) = {} \/ ~overQuota

\* tick: list what is due, and hold all of it or start with it.
Tick(p) ==
  /\ sched[p].pc = "tick"
  /\ \E held \in BOOLEAN :
       /\ QuotaCheck(p, held)
       /\ sched' = [sched EXCEPT ![p] =
                        [@ EXCEPT !.pc = "loop",
                                  !.due = IF held THEN {} ELSE Due(p),
                                  !.hold = IF held THEN MaxArm
                                           ELSE IF Due(p) # {} THEN 0
                                           ELSE sched[p].hold]]
       /\ IF held THEN holdPending(Due(p)) ELSE UNCHANGED rows
  /\ UNCHANGED <<call, drafts, deliveries, removed, overQuota>>

Earliest(p) == {r \in sched[p].due :
               \A s \in sched[p].due : rows[r].sendAt <= rows[s].sendAt}

\* fire: claim the next row of the list and call service.send ...
Fire(p, r) ==
  /\ sched[p].pc = "loop"
  /\ r \in Earliest(p)
  /\ claimScheduledSend(r, p)
  /\ sched' = [sched EXCEPT ![p] = [sched[p] EXCEPT !.due = @ \ {r}, !.pc = "send",
                                                      !.row = r]]
  /\ call' = [call EXCEPT ![p] = [NoCall EXCEPT !.phase = "called",
                                                !.draft = rows[r].draft]]
  /\ UNCHANGED <<drafts, deliveries, removed, overQuota>>

\* The backoff entry of row r: set to a delay, or dropped (0).
BackOff(s, r, delay) == [s EXCEPT !.wait[r] = delay, !.backoff[r] = delay]

\* ... or skip it: it was canceled, sent or claimed since the list was taken.
Skip(p, r) ==
  /\ sched[p].pc = "loop"
  /\ r \in Earliest(p)
  /\ ~Claimable(r)
  /\ sched' = [sched EXCEPT ![p] = BackOff([sched[p] EXCEPT !.due = @ \ {r}], r, 0)]
  /\ UNCHANGED <<rows, call, drafts, deliveries, removed, overQuota>>

Returned(p) == /\ sched[p].pc = "send"
               /\ call' = [call EXCEPT ![p] = NoCall]

\* The provider's answer has come and the event loop has got round to it.
Resumed(p) == /\ sched[p].pc = "send"
              /\ \/ call[p].phase = "answered" /\ AtAwait(p)
                 \/ call[p].phase \in {"found", "done"}

Failing == {"gone", "permanent"}  \* PERMANENT_CODES

\* fire returns; the row it dispatched waits for `delay`, or has no backoff left.
Fired(s, delay) == [BackOff(s, s.row, delay) EXCEPT !.pc = "loop", !.row = Null]

Complete(p) ==
  /\ call[p].phase = "done"
  /\ Returned(p)
  /\ completeClaim(sched[p].row, p)
  /\ sched' = [sched EXCEPT ![p] = Fired(@, 0)]
  /\ UNCHANGED <<drafts, deliveries, removed, overQuota>>

Fail(p) ==
  /\ Resumed(p)
  /\ call[p].outcome \in Failing
  /\ Returned(p)
  /\ failClaim(sched[p].row, p,
               IF call[p].outcome = "gone" THEN "gone" ELSE "other")
  /\ sched' = [sched EXCEPT ![p] = Fired(@, 0)]
  /\ UNCHANGED <<drafts, deliveries, removed, overQuota>>

NextDelay(d) ==
  IF d = 0 THEN BaseBackoff ELSE IF 2 * d > MaxArm THEN MaxArm ELSE 2 * d

\* A transient failure, a statement on the store among them: back to pending.
Retry(p) ==
  /\ Resumed(p)
  /\ \/ call[p].outcome = "transient"
     \/ call[p].outcome = "ok" /\ "busy" \in Faults
  /\ Returned(p)
  /\ retryClaim(sched[p].row, p)
  /\ sched' = [sched EXCEPT ![p] = Fired(@, NextDelay(@.backoff[@.row]))]
  /\ UNCHANGED <<drafts, deliveries, removed, overQuota>>

\* A statement outside fire's try, or in its catch, throws: tick logs the error
\* and gives up the rest of its list.
TickFails(p) ==
  /\ "busy" \in Faults
  /\ \/ sched[p].pc = "tick"
     \/ sched[p].pc = "loop" /\ sched[p].due # {}
     \/ Resumed(p)
  /\ sched' = [sched EXCEPT ![p] = [@ EXCEPT !.pc = "loop", !.due = {}, !.row = Null]]
  /\ call' = [call EXCEPT ![p] = NoCall]
  /\ UNCHANGED <<rows, drafts, deliveries, removed, overQuota>>

Larger(m, n) == IF m > n THEN m ELSE n
Gate(p, r) == Larger(rows[r].sendAt, Larger(rows[r].claimLeft, sched[p].wait[r]))
Delay(p, r) == LET next == Larger(0, Larger(Gate(p, r), sched[p].hold))
               IN  IF next > MaxArm THEN MaxArm ELSE next

\* The end of tick: once more if woken meanwhile, else arm() for the first
\* active row to come up; no timer when there is none.  arm() is outside tick's
\* try: when its listActive throws, the promise nobody awaits is rejected, which
\* ends the process (no handler is installed): that is Crash, which may come here.
Finish(p) ==
  /\ sched[p].pc = "loop" /\ sched[p].due = {}
  /\ IF sched[p].rerun
       THEN sched' = [sched EXCEPT ![p] = [@ EXCEPT !.pc = "tick", !.rerun = FALSE]]
       ELSE \/ /\ ActiveRows = {}
               /\ sched' = [sched EXCEPT ![p] = [@ EXCEPT !.pc = "idle", !.timer = NoTimer]]
            \/ \E r \in ActiveRows :
                 /\ \A s \in ActiveRows : Gate(p, r) <= Gate(p, s)
                 /\ sched' = [sched EXCEPT ![p] = [@ EXCEPT !.pc = "idle",
                                                            !.timer = Delay(p, r)]]
  /\ UNCHANGED <<rows, call, drafts, deliveries, removed, overQuota>>

\* The process dies with everything it holds in memory, its requests too.
Crash(p) ==
  /\ "crash" \in Faults
  /\ Up(p)
  /\ sched' = [sched EXCEPT ![p] = Stopped]
  /\ call' = [x \in Caller |-> IF x = p \/ x \in HostedBy(p) THEN NoCall ELSE call[x]]
  /\ UNCHANGED <<rows, drafts, deliveries, removed, overQuota>>

-----------------------------------------------------------------------------
(* service.send for caller x and the provider behind it. *)

Answer(x, phase, outcome) ==
  call' = [call EXCEPT ![x] = [@ EXCEPT !.phase = phase, !.outcome = outcome]]

\* The provider sends the draft.  Gmail and Outlook consume it in the same
\* step, SMTP leaves it where it is.
Accept(x) ==
  LET d == call[x].draft IN
  /\ call[x].phase = "called"
  /\ drafts[d] = "present"
  /\ deliveries' = [deliveries EXCEPT ![d] = IF @ < 2 THEN @ + 1 ELSE @]
  /\ IF d \in Smtp
       THEN UNCHANGED drafts /\ \/ Answer(x, "cleanup", "none")
                                \/ "lost" \in Faults /\ Answer(x, "answered", "transient")
       ELSE /\ drafts' = [drafts EXCEPT ![d] = "gone"]
            /\ \/ Answer(x, "answered", "ok")
               \/ "lost" \in Faults /\ Answer(x, "answered", "transient")
  /\ UNCHANGED <<rows, sched, removed, overQuota>>

\* The IMAP provider moves or deletes the delivered draft; failing only warns.
CleanUp(x) ==
  /\ call[x].phase = "cleanup"
  /\ drafts' \in {drafts, [drafts EXCEPT ![call[x].draft] = "gone"]}
  /\ Answer(x, "answered", "ok")
  /\ UNCHANGED <<rows, sched, deliveries, removed, overQuota>>

NoSuchDraft(x) ==
  /\ call[x].phase = "called"
  /\ drafts[call[x].draft] # "present"
  /\ Answer(x, "answered", "gone")
  /\ UNCHANGED <<rows, sched, drafts, deliveries, removed, overQuota>>

\* Nothing is sent: an error that retrying may cure or not.
Refuse(x) ==
  /\ call[x].phase = "called"
  /\ \E outcome \in {"permanent", "transient"} : Answer(x, "answered", outcome)
  /\ UNCHANGED <<rows, sched, drafts, deliveries, removed, overQuota>>

Host(x) == IF x \in Client THEN HostOf[x] ELSE x

\* The draft went out: look for a pending schedule it supersedes.
Look(x) ==
  /\ call[x].phase = "answered" /\ call[x].outcome = "ok"
  /\ Host(x) # Null => AtAwait(Host(x))
  /\ \/ \E r \in PendingFor(call[x].draft) :
          call' = [call EXCEPT ![x] = [@ EXCEPT !.phase = "found", !.found = r]]
     \/ /\ PendingFor(call[x].draft) = {}
        /\ call' = [call EXCEPT ![x] = IF x \in Client THEN NoCall
                                       ELSE [@ EXCEPT !.phase = "done"]]
  /\ UNCHANGED <<rows, sched, drafts, deliveries, removed, overQuota>>

Supersede(x) ==
  /\ call[x].phase = "found"
  /\ markSent(call[x].found)
  /\ ScheduleChanged(Host(x))
  /\ call' = [call EXCEPT ![x] = IF x \in Client THEN NoCall
                                 ELSE [@ EXCEPT !.phase = "done", !.found = Null]]
  /\ UNCHANGED <<drafts, deliveries, removed, overQuota>>

-----------------------------------------------------------------------------
(* User requests, handled by process h or by a one-shot CLI command. *)

SendNow(c, d) ==
  /\ call[c].phase = "none"
  /\ d \in Prepared /\ AccountOf[d] \notin removed
  /\ HostOf[c] # Null => Up(HostOf[c]) /\ AtAwait(HostOf[c])
  /\ call' = [call EXCEPT ![c] = [NoCall EXCEPT !.phase = "called", !.draft = d]]
  /\ UNCHANGED <<rows, sched, drafts, deliveries, removed, overQuota>>

\* An error is reported to the user; a one-shot command may also be killed.
ClientGivesUp(c) ==
  /\ \/ /\ call[c].phase = "answered" /\ call[c].outcome # "ok"
        /\ HostOf[c] # Null => AtAwait(HostOf[c])
     \/ "busy" \in Faults /\ call[c].phase = "found"
     \/ /\ "crash" \in Faults /\ HostOf[c] = Null
        /\ call[c].phase # "none"
  /\ call' = [call EXCEPT ![c] = NoCall]
  /\ UNCHANGED <<rows, sched, drafts, deliveries, removed, overQuota>>

\* scheduleSend after its provider call: a message that becomes a new draft, or
\* a draft the user has (by now it may be gone).
ScheduleSend(r, d, t, h) ==
  /\ h \in Hosts
  /\ AccountOf[d] \notin removed
  /\ createScheduledSend(r, d, t)
  /\ \/ d \in Prepared /\ UNCHANGED drafts
     \/ drafts[d] = "none" /\ drafts' = [drafts EXCEPT ![d] = "present"]
  /\ ScheduleChanged(h)
  /\ UNCHANGED <<call, deliveries, removed, overQuota>>

CancelScheduled(r, h) ==
  /\ h \in Hosts
  /\ cancelScheduledSend(r)
  /\ ScheduleChanged(h)
  /\ UNCHANGED <<call, drafts, deliveries, removed, overQuota>>

RemoveAccount(a) ==
  /\ "removal" \in Faults
  /\ a \notin removed
  /\ removed' = removed \cup {a}
  /\ CascadeAccount(a)
  /\ UNCHANGED <<sched, call, drafts, deliveries, overQuota>>

\* The user sends or deletes a draft in another mail client.
TakeOutside(d) ==
  /\ d \in Prepared /\ drafts[d] = "present"
  /\ drafts' = [drafts EXCEPT ![d] = "gone"]
  /\ UNCHANGED <<rows, sched, call, deliveries, removed, overQuota>>

\* The license lapses; usage is trimmed; a lease is renewed by the refresher of
\* process p, which wakes its scheduler.
Lapse == /\ "lapse" \in Faults /\ ~overQuota /\ overQuota' = TRUE
         /\ UNCHANGED <<rows, sched, call, drafts, deliveries, removed>>

Trim == /\ overQuota /\ overQuota' = FALSE
        /\ UNCHANGED <<rows, sched, call, drafts, deliveries, removed>>

Renew(p) ==
  /\ Up(p) /\ AtAwait(p)
  /\ overQuota' = FALSE
  /\ sched' = [sched EXCEPT ![p] = Poked(@)]
  /\ UNCHANGED <<rows, call, drafts, deliveries, removed>>

\* One unit of time.  Unless sends can be slow, none outlasts its claim.
Elapse ==
  /\ "slow" \in Faults
       \/ \A p \in Process : sched[p].pc = "send" => rows[sched[p].row].claimLeft # 1
  /\ RowsAge
  /\ sched' = [p \in Process |->
       [sched[p] EXCEPT !.timer = IF @ = NoTimer THEN @ ELSE Dec(@, 0),
                        !.hold = Dec(@, 0),
                        !.wait = [r \in Schedule |-> Dec(@[r], 0)]]]
  /\ UNCHANGED <<call, drafts, deliveries, removed, overQuota>>

-----------------------------------------------------------------------------
SchedulerStep(p) ==
  \/ TimerFires(p) \/ Tick(p) \/ Finish(p)
  \/ \E r \in Schedule : Fire(p, r) \/ Skip(p, r)
  \/ Complete(p) \/ Fail(p) \/ Retry(p)

ProviderStep(x) == Accept(x) \/ NoSuchDraft(x) \/ Refuse(x)
ServiceStep(x) == CleanUp(x) \/ Look(x) \/ Supersede(x)

UserStep ==
  \/ \E c \in Client : ClientGivesUp(c) \/ \E d \in Draft : SendNow(c, d)
  \/ \E r \in Schedule, h \in Process \cup {Null} :
        CancelScheduled(r, h) \/ \E d \in Draft, t \in 0..Horizon : ScheduleSend(r, d, t, h)
  \/ \E a \in Account : RemoveAccount(a)
  \/ \E d \in Draft : TakeOutside(d)

Next ==
  \/ \E p \in Process : Start(p) \/ SchedulerStep(p) \/ TickFails(p) \/ Crash(p) \/ Renew(p)
  \/ \E x \in Caller : ProviderStep(x) \/ ServiceStep(x)
  \/ UserStep
  \/ Lapse \/ Trim \/ Elapse

Spec == Init /\ [][Next]_vars

\* What the running system does on its own: time passes, a stopped server is
\* started again, the event loop and the provider never stop half-way, and a
\* provider that is asked again and again acts and says so at last.
DefiniteAnswer(x) ==
  \/ NoSuchDraft(x)
  \/ Accept(x) /\ call'[x].outcome # "transient"

Fairness ==
  /\ WF_vars(Elapse)
  /\ \A p \in Process : WF_vars(Start(p)) /\ WF_vars(SchedulerStep(p))
  /\ \A x \in Caller : /\ WF_vars(ProviderStep(x))
                       /\ SF_vars(DefiniteAnswer(x))
                       /\ WF_vars(ServiceStep(x))
  /\ \A c \in Client : WF_vars(ClientGivesUp(c))

FairSpec == Spec /\ Fairness

-----------------------------------------------------------------------------
(* Properties. *)

TypeOK ==
  /\ rows \in [Schedule -> Row]
  /\ sched \in [Process -> Scheduler]
  /\ call \in [Caller -> Call]
  /\ drafts \in [Draft -> {"none", "present", "gone"}]
  /\ deliveries \in [Draft -> 0..2]
  /\ removed \subseteq Account
  /\ overQuota \in BOOLEAN

\* A schedule recorded as sent went out: none of completeClaim, markSent and the
\* races between them records a delivery that did not happen.
SentWasDelivered ==
  \A r \in Schedule : Is(r, "sent") => deliveries[rows[r].draft] > 0

Owns(p) == /\ sched[p].pc = "send"
           /\ Is(sched[p].row, "sending")
           /\ rows[sched[p].row].token = p

\* While a process dispatches a row and its lease runs, no other scheduler, no
\* cancellation and no stale claim holder touches the row.  Only the removal of
\* the mailbox and a send of the same draft that found the row pending may.
ActiveClaimIsExclusive ==
  [][\A p \in Process : Owns(p) /\ rows[sched[p].row].claimLeft > 0 =>
       \/ Owns(p)' \/ sched'[p].pc # "send"
       \/ rows'[sched[p].row].status = "deleted"
       \/ \E x \in Caller : call[x].phase = "found" /\ call[x].found = sched[p].row]_vars

\* A row a process is dispatching is still claimed by it, so nothing is sent for
\* a schedule that was canceled, finished or taken over meanwhile.
DispatchHoldsClaim ==
  \A p \in Process : sched[p].pc = "send" => Owns(p) \/ Is(sched[p].row, "deleted")

\* "Draft no longer exists: it was sent or deleted outside Fluxmail" is recorded
\* only when Fluxmail itself did not send the draft.
GoneMeansOutside ==
  \A r \in Schedule : Is(r, "failed") /\ rows[r].lastError = "gone" =>
     deliveries[rows[r].draft] = 0

\* An idle scheduler that alone uses the store sleeps no longer than until the
\* first active row comes up, or until a quota hold ends.
NeverOversleeps ==
  \A p \in Process : sched[p].pc = "idle" =>
    \A r \in ActiveRows : sched[p].timer \in 0..Delay(p, r)

\* The schedulers keep the promise of ScheduledDelivery: in time, once, and
\* truthfully recorded.
PromiseOf(r) == IF rows[r].status \in Active THEN "waiting" ELSE rows[r].status

Delivery == INSTANCE ScheduledDelivery WITH
  promise <- [r \in Schedule |-> PromiseOf(r)],
  due <- {r \in Schedule : rows[r].draft # Null /\ rows[r].sendAt <= 0},
  out <- [r \in Schedule |-> IF rows[r].draft = Null THEN 0
                              ELSE deliveries[rows[r].draft]]

ImplementsDelivery == Delivery!Spec

\* Once the plan quota is kept and the server stays up, every schedule is
\* settled in the end, however often its sends fail transiently.
EventuallySettled ==
  <>[]~overQuota /\ <>[][\A p \in Process : ~Crash(p)]_vars =>
    \A r \in Schedule : Is(r, "pending") ~> rows[r].status \notin Active
=============================================================================
