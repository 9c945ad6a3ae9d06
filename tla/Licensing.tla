------------------------------ MODULE Licensing ------------------------------
(***************************************************************************)
(* The license of an instance: the lease cached in the store and the key   *)
(* configured there (licensing/entitlements.ts, config.ts), the controller *)
(* that revalidates it in every server process (licensing/refresher.ts),   *)
(* the administrator's requests to activate and deactivate a key           *)
(* (licensing/activation.ts, http/admin.ts), and the license server they   *)
(* call (external; licensing/client.ts).                                   *)
(*                                                                         *)
(* Time counts in units no shorter than a call to the license server may   *)
(* take (10 s).  The times a lease and a timer have left are kept, so no   *)
(* clock is needed.                                                        *)
(***************************************************************************)
EXTENDS Integers

CONSTANTS
  Key,       \* license keys
  Server,    \* processes with a running LicenseController
  Admin,     \* concurrent administrative requests
  HostOf,    \* the process a request runs in; Null: a one-shot CLI
  Null,
  Life,      \* how long a lease lasts (~7 days)
  Grace,     \* GRACE_PERIOD_MS
  Interval,  \* VALIDATE_INTERVAL_MS
  Retry,     \* OUTAGE_RETRY_MS
  Recheck,   \* LICENSE_CONFIG_RECHECK_MS
  MaxOutage, \* bound: the longest the license server stays unreachable
  MinCalm,   \* and the shortest it then stays reachable
  Ops,       \* what administrators do: subset of {"activate", "deactivate"}
  Faults     \* what may go wrong: see FaultKind

FaultKind == {"crash",   \* a process dies between two steps
              "outage",  \* the license server is unreachable for a while
              "lost",    \* it acts but its answer is lost
              "busy",    \* saving a lease throws (SQLITE_BUSY)
              "ended"}   \* a subscription ends or a key is used elsewhere

ASSUME LicensingAssumption ==
  /\ Null \notin Key \cup Server
  /\ Server \cap Admin = {}
  /\ HostOf \in [Admin -> Server \cup {Null}]
  /\ Life \in Nat \ {0} /\ Grace \in Nat
  /\ Interval \in Nat \ {0}
  /\ Retry \in 1..Interval /\ Recheck \in 1..Interval
  /\ MaxOutage \in Nat /\ MinCalm \in Nat
  /\ Ops \subseteq {"activate", "deactivate"}
  /\ Faults \subseteq FaultKind

VARIABLES
  licenseKey,  \* the configured key
  lease,       \* the cached lease row
  controller,  \* per server process: its LicenseController
  request,     \* per process or admin: the call to the license server it awaits
  licensor     \* external: the keys the license server grants to this instance, and the outage

vars == <<licenseKey, lease, controller, request, licensor>>

Requester == Server \cup Admin
NoTimer == -1

\* key: what it was issued for; left: time to its expiry, negative in the grace
\* period; age: time since it was saved (updatedAt), up to Interval.
Lease == [key : Key \cup {Null}, left : (-Grace)..Life, age : 0..Interval]
NoLease == [key |-> Null, left |-> -Grace, age |-> Interval]
NewLease(k) == [key |-> k, left |-> Life, age |-> 0]

\* A process that is down has no controller running (stopped).
Controller == [up : BOOLEAN, timer : {NoTimer} \cup 0..Interval, refreshPending : BOOLEAN]
Stopped == [up |-> FALSE, timer |-> NoTimer, refreshPending |-> FALSE]

\* phase: "validate" and "release", the license server has the request;
\* "answered", its answer has come; "saved", the lease is, the key not yet;
\* "removed", the key is removed, the lease not yet.
Request == [phase  : {"none", "validate", "release", "answered", "saved", "removed"},
            for    : {"none", "refresh", "activate", "deactivate"},
            key    : Key \cup {Null},
            answer : {"none", "lease", "refused", "outage"}]
NoRequest == [phase |-> "none", for |-> "none", key |-> Null, answer |-> "none"]
Asking(phase, for, k) == [phase |-> phase, for |-> for, key |-> k, answer |-> "none"]

\* active: keys with a running subscription, not bound to another instance;
\* since: how long it has been reachable
\* or unreachable, as far as that matters.
Longest == IF MaxOutage > MinCalm THEN MaxOutage ELSE MinCalm
LicenseServer == [active : SUBSET Key,
                  online : BOOLEAN,
                  since  : 0..Longest]

Init ==
  /\ licenseKey = Null
  /\ lease = NoLease
  /\ controller = [p \in Server |-> Stopped]
  /\ request = [x \in Requester |-> NoRequest]
  /\ licensor = [active |-> Key, online |-> TRUE, since |-> MinCalm]

\* getEntitlements: paid limits hold while the lease or its grace period runs.
Licensed == lease.key # Null /\ lease.left > -Grace

Running(p) == request[p].phase # "none"
HostedBy(p) == {a \in Admin : HostOf[a] = p}

\* Process p is between two handlers: no request it hosts is inside one.
AtAwait(p) == /\ controller[p].up
              /\ \A a \in HostedBy(p) : request[a].phase \notin {"saved", "removed"}
MayRun(a) == HostOf[a] # Null => AtAwait(HostOf[a])

-----------------------------------------------------------------------------
(* The controller of process p. *)

\* Mutant: no recheck while no key is configured.
NoRecheck(c, key) == [c EXCEPT !.timer = NoTimer]

\* refreshNow when no run is in flight: what becomes of the controller and what
\* is asked.  With a key configured a run begins, without one it is looked for again.
Refreshing(c, key) == [c EXCEPT !.timer = IF key = Null THEN Recheck ELSE NoTimer]
Refresh(key) == IF key = Null THEN NoRequest ELSE Asking("validate", "refresh", key)

\* Mutant: the key of the cached lease is validated again, not the configured one.
RefreshLeased(p) ==
  LET key == IF Null \in {licenseKey, lease.key} THEN licenseKey ELSE lease.key
  IN  /\ controller' = [controller EXCEPT ![p] = Refreshing(@, key)]
      /\ request' = [request EXCEPT ![p] = Refresh(key)]

RefreshNow(p) ==
  /\ controller' = [controller EXCEPT ![p] = Refreshing(@, licenseKey)]
  /\ request' = [request EXCEPT ![p] = Refresh(licenseKey)]

Start(p) ==
  /\ ~controller[p].up
  /\ LET c == [Stopped EXCEPT !.up = TRUE]
         fresh == licenseKey # Null /\ lease.age < Interval
     IN  /\ controller' = [controller EXCEPT ![p] =
              IF fresh THEN [c EXCEPT !.timer = Interval - lease.age]
                       ELSE Refreshing(c, licenseKey)]
         /\ request' = [request EXCEPT ![p] =
              IF fresh THEN NoRequest ELSE Refresh(licenseKey)]
  /\ UNCHANGED <<licenseKey, lease, licensor>>

TimerFires(p) ==
  /\ AtAwait(p)
  /\ controller[p].timer = 0
  /\ RefreshNow(p)
  /\ UNCHANGED <<licenseKey, lease, licensor>>

\* Mutant: an outage waits for the daily cadence.
RetryDaily(answer) == Interval

NextRun(answer) == IF answer = "outage" THEN Retry ELSE Interval

\* run ends: the timer is set; woken meanwhile, refresh again at once instead.
Ended(p, answer) ==
  IF controller[p].refreshPending
    THEN /\ controller' = [controller EXCEPT ![p] =
              Refreshing([@ EXCEPT !.refreshPending = FALSE], licenseKey)]
         /\ request' = [request EXCEPT ![p] = Refresh(licenseKey)]
    ELSE /\ controller' = [controller EXCEPT ![p] = [@ EXCEPT !.timer = NextRun(answer)]]
         /\ request' = [request EXCEPT ![p] = NoRequest]

\* refreshLicense returns, or throws while it saves the lease.
RunEnds(p) ==
  /\ AtAwait(p)
  /\ request[p].phase = "answered"
  /\ LET answer == request[p].answer
     IN  \/ /\ lease' = IF answer = "lease" THEN NewLease(request[p].key) ELSE lease
            /\ Ended(p, answer)
         \/ /\ "busy" \in Faults /\ answer = "lease"
            /\ Ended(p, "outage")
            /\ UNCHANGED lease
  /\ UNCHANGED <<licenseKey, licensor>>

\* Request a ends with wake() of the controller beside it; `key` is configured
\* now.  The controller of a one-shot command is stopped.
Wake(a, key) ==
  LET p == HostOf[a] IN
  IF p = Null
    THEN /\ UNCHANGED controller
         /\ request' = [request EXCEPT ![a] = NoRequest]
  ELSE IF Running(p)
    THEN /\ controller' = [controller EXCEPT ![p].timer = NoTimer,
                                             ![p].refreshPending = TRUE]
         /\ request' = [request EXCEPT ![a] = NoRequest]
    ELSE /\ controller' = [controller EXCEPT ![p] = Refreshing(@, key)]
         /\ request' = [request EXCEPT ![a] = NoRequest, ![p] = Refresh(key)]

\* The process dies with the requests it hosts.
Crash(p) ==
  /\ "crash" \in Faults
  /\ controller[p].up
  /\ controller' = [controller EXCEPT ![p] = Stopped]
  /\ request' = [x \in Requester |->
                   IF x = p \/ x \in HostedBy(p) THEN NoRequest ELSE request[x]]
  /\ UNCHANGED <<licenseKey, lease, licensor>>

-----------------------------------------------------------------------------
(* The administrator: activateLicense and the deactivation handler. *)

Activate(a, k) ==
  /\ "activate" \in Ops
  /\ request[a].phase = "none" /\ MayRun(a)
  /\ request' = [request EXCEPT ![a] = Asking("validate", "activate", k)]
  /\ UNCHANGED <<licenseKey, lease, controller, licensor>>

AnsweredTo(a, for) == request[a].phase = "answered" /\ request[a].for = for /\ MayRun(a)

SaveLease(a) ==
  /\ AnsweredTo(a, "activate") /\ request[a].answer = "lease"
  /\ lease' = NewLease(request[a].key)
  /\ request' = [request EXCEPT ![a].phase = "saved"]
  /\ UNCHANGED <<licenseKey, controller, licensor>>

\* After an outage the key is stored untried, to be validated by the controller.
StoreKey(a) ==
  /\ \/ request[a].phase = "saved"
     \/ AnsweredTo(a, "activate") /\ request[a].answer = "outage"
  /\ licenseKey' = request[a].key
  /\ Wake(a, request[a].key)
  /\ UNCHANGED <<lease, licensor>>

Rejected(a) ==
  /\ AnsweredTo(a, "activate") /\ request[a].answer = "refused"
  /\ request' = [request EXCEPT ![a] = NoRequest]
  /\ UNCHANGED <<licenseKey, lease, controller, licensor>>

\* The binding is released first, if there is a key to release.
Deactivate(a) ==
  /\ "deactivate" \in Ops
  /\ request[a].phase = "none" /\ MayRun(a)
  /\ request' = [request EXCEPT ![a] =
       Asking(IF licenseKey = Null THEN "removed" ELSE "release", "deactivate", licenseKey)]
  /\ UNCHANGED <<licenseKey, lease, controller, licensor>>

RemoveKey(a) ==
  /\ AnsweredTo(a, "deactivate")
  /\ licenseKey' = Null
  /\ request' = [request EXCEPT ![a].phase = "removed"]
  /\ UNCHANGED <<lease, controller, licensor>>

ClearLease(a) ==
  /\ request[a].phase = "removed"
  /\ lease' = NoLease
  /\ Wake(a, licenseKey)
  /\ UNCHANGED <<licenseKey, licensor>>

\* A statement of the request throws, or the one-shot command is killed.
AdminFails(a) ==
  /\ \/ "busy" \in Faults /\ \/ request[a].phase \in {"saved", "removed"}
                             \/ request[a].phase = "answered" /\ MayRun(a)
     \/ "crash" \in Faults /\ HostOf[a] = Null /\ request[a].phase # "none"
  /\ request' = [request EXCEPT ![a] = NoRequest]
  /\ UNCHANGED <<licenseKey, lease, controller, licensor>>

-----------------------------------------------------------------------------
(* The license server (external) and the passage of time. *)

Answered(x, answer) ==
  request' = [request EXCEPT ![x] = [@ EXCEPT !.phase = "answered", !.answer = answer]]

Granted(k) == k \in licensor.active

Validate(x) ==
  /\ request[x].phase = "validate" /\ licensor.online
  /\ \/ Answered(x, IF Granted(request[x].key) THEN "lease" ELSE "refused")
     \/ "lost" \in Faults /\ Answered(x, "outage")
  /\ UNCHANGED <<licenseKey, lease, controller, licensor>>

Release(x) ==
  /\ request[x].phase = "release" /\ licensor.online
  /\ Answered(x, "none")
  /\ UNCHANGED <<licenseKey, lease, controller, licensor>>

Unreachable(x) ==
  /\ request[x].phase \in {"validate", "release"} /\ ~licensor.online
  /\ Answered(x, "outage")
  /\ UNCHANGED <<licenseKey, lease, controller, licensor>>

\* Subscriptions end and start again; another instance uses a key and frees it.
Elsewhere(k) ==
  /\ "ended" \in Faults
  /\ licensor' \in {[licensor EXCEPT !.active = @ \ {k}], [licensor EXCEPT !.active = @ \cup {k}]}
  /\ UNCHANGED <<licenseKey, lease, controller, request>>

OutageBegins ==
  /\ "outage" \in Faults /\ licensor.online /\ licensor.since >= MinCalm
  /\ licensor' = [licensor EXCEPT !.online = FALSE, !.since = 0]
  /\ UNCHANGED <<licenseKey, lease, controller, request>>

OutageEnds ==
  /\ ~licensor.online
  /\ licensor' = [licensor EXCEPT !.online = TRUE, !.since = 0]
  /\ UNCHANGED <<licenseKey, lease, controller, request>>

\* One unit of time: longer than any call, and timers fire when they are due.
Elapse ==
  /\ \A x \in Requester : request[x].phase = "none"
  /\ \A p \in Server : controller[p].timer # 0
  /\ ~licensor.online => licensor.since < MaxOutage
  /\ lease' = [lease EXCEPT !.left = IF @ > -Grace THEN @ - 1 ELSE @,
                            !.age = IF @ < Interval THEN @ + 1 ELSE @]
  /\ controller' = [p \in Server |->
       [controller[p] EXCEPT !.timer = IF @ = NoTimer THEN @ ELSE @ - 1]]
  /\ licensor' = [licensor EXCEPT !.since = IF @ < Longest THEN @ + 1 ELSE @]
  /\ UNCHANGED <<licenseKey, request>>

-----------------------------------------------------------------------------
ControllerStep(p) == TimerFires(p) \/ RunEnds(p)

AdminStep(a) == \/ SaveLease(a) \/ StoreKey(a) \/ Rejected(a)
                \/ RemoveKey(a) \/ ClearLease(a) \/ AdminFails(a)
AdminStarts(a) == Deactivate(a) \/ \E k \in Key : Activate(a, k)

ServerStep(x) == Validate(x) \/ Release(x) \/ Unreachable(x)

Next ==
  \/ \E p \in Server : Start(p) \/ ControllerStep(p) \/ Crash(p)
  \/ \E a \in Admin : AdminStep(a) \/ AdminStarts(a)
  \/ \E x \in Requester : ServerStep(x)
  \/ \E k \in Key : Elsewhere(k)
  \/ OutageBegins \/ OutageEnds \/ Elapse

Spec == Init /\ [][Next]_vars

\* Time passes, a stopped server is started again, every call is answered within
\* its time limit and every handler finishes; a license server that is asked
\* again and again is heard at last.
Fairness ==
  /\ WF_vars(Elapse)
  /\ \A p \in Server : /\ WF_vars(Start(p)) /\ WF_vars(ControllerStep(p))
                       /\ SF_vars(Validate(p) /\ request'[p].answer # "outage")
  /\ \A a \in Admin : WF_vars(AdminStep(a))
  /\ \A x \in Requester : WF_vars(ServerStep(x))

FairSpec == Spec /\ Fairness

-----------------------------------------------------------------------------
(* Properties. *)

TypeOK ==
  /\ licenseKey \in Key \cup {Null}
  /\ lease \in Lease
  /\ controller \in [Server -> Controller]
  /\ request \in [Requester -> Request]
  /\ licensor \in LicenseServer

\* The controller of a running process always has exactly one thing to come: a
\* run in flight, or a timer.  It neither falls asleep nor runs twice, and only a
\* run in flight can be asked to run again.
OneThingToCome ==
  \A p \in Server :
    IF controller[p].up
      THEN (controller[p].timer = NoTimer) = Running(p)
      ELSE controller[p].timer = NoTimer /\ ~Running(p)

PendingWhileRunning == \A p \in Server : controller[p].refreshPending => Running(p)

\* Without a key configured, and with nobody about to change that, the instance
\* has the Personal limits.
PersonalWithoutKey ==
  licenseKey = Null /\ (\A a \in Admin : request[a].phase = "none") => ~Licensed

\* The cadence bridges an outage: renewed at the latest Interval after the last time, a
\* lease and its grace period outlast the longest outage and the retry after it, for
\* which the license server stays reachable.
OutagesAreBridged ==
  /\ Faults \subseteq {"outage"} /\ Ops \subseteq {"activate"}
  /\ \A a \in Admin : HostOf[a] # Null
  /\ Interval + MaxOutage + Retry < Life + Grace
  /\ Retry < MinCalm

\* Then a running server never loses the paid limits ("An outage ... never interrupts a
\* running server").
PaidLimitsStay == [][Licensed => Licensed']_vars

\* Once administrators leave it alone, the license server can be reached, grants what
\* it grants for good and what it grants can be saved, the lease is that of the
\* configured key: no refresh of an older key, activation or deactivation that ran at
\* the same time has the last word.
LeaseFollowsKey ==
  /\ <>[][\A a \in Admin : ~AdminStarts(a)]_vars
  /\ <>[][\A p \in Server : ~Crash(p)]_vars
  /\ <>[][\A p \in Server : RunEnds(p) /\ request[p].answer = "lease" =>
                             lease' = NewLease(request[p].key)]_vars
  /\ <>[][\A k \in Key : ~Elsewhere(k)]_vars
  /\ <>[]licensor.online
  => <>[](IF licenseKey = Null \/ ~Granted(licenseKey) THEN ~Licensed
                                                     ELSE lease.key = licenseKey)
=============================================================================
