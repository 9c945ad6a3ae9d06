--------------------------- MODULE Licensing_proofs ---------------------------
(***************************************************************************)
(* Proofs about Licensing, for any number of processes, requests and keys, *)
(* all lengths of time and any subset of the faults.                       *)
(***************************************************************************)
EXTENDS Licensing, TLAPS

\* A request is hosted by a process that is up: a crash ends both.
HostsAreUp == \A a \in Admin : request[a].phase # "none" /\ HostOf[a] # Null =>
                                 controller[HostOf[a]].up

IInv == TypeOK /\ OneThingToCome /\ PendingWhileRunning /\ HostsAreUp

\* What has to come for process p.
Sound(c, r) ==
  /\ IF c.up THEN (c.timer = NoTimer) = (r.phase # "none")
             ELSE c.timer = NoTimer /\ r.phase = "none"
  /\ c.refreshPending => r.phase # "none"

-----------------------------------------------------------------------------
\* refreshNow keeps the types and leaves the controller with one thing to come.
LEMMA RefreshingIsSound ==
  ASSUME NEW c \in Controller, NEW key \in Key \cup {Null}, c.up, ~c.refreshPending
  PROVE  /\ Refreshing(c, key) \in Controller
         /\ Refresh(key) \in Request
         /\ Sound(Refreshing(c, key), Refresh(key))
         /\ Refreshing(c, key).up
<1> USE LicensingAssumption
<1>1. Refreshing(c, key) \in Controller
  BY DEF Refreshing, Controller, NoTimer
<1>2. Refresh(key) \in Request
  BY DEF Refresh, Request, NoRequest, Asking
<1>3. /\ Refreshing(c, key).up
      /\ Refreshing(c, key).timer = IF key = Null THEN Recheck ELSE NoTimer
      /\ ~Refreshing(c, key).refreshPending
  BY DEF Refreshing, Controller
<1>4. (Refresh(key).phase # "none") = (key # Null)
  BY DEF Refresh, NoRequest, Asking
<1> QED BY <1>1, <1>2, <1>3, <1>4 DEF Sound, NoTimer

\* The invariant in terms of one process at a time.
LEMMA SoundEverywhere ==
  (OneThingToCome /\ PendingWhileRunning)
     <=> \A p \in Server : Sound(controller[p], request[p])
BY DEF OneThingToCome, PendingWhileRunning, Sound, Running

LEMMA InitIsSound == Init => IInv
<1> SUFFICES ASSUME Init PROVE IInv
  OBVIOUS
<1> USE LicensingAssumption DEF Init
<1>1. lease \in Lease
  BY DEF NoLease, Lease
<1>2. controller \in [Server -> Controller]
  BY DEF Stopped, Controller
<1>3. request \in [Requester -> Request]
  BY DEF NoRequest, Request
<1>4. licensor \in LicenseServer
  BY DEF LicenseServer, Longest
<1>5. TypeOK
  BY <1>1, <1>2, <1>3, <1>4 DEF TypeOK
<1>6. \A x \in Requester : request[x].phase = "none"
  BY DEF NoRequest
<1>7. \A p \in Server : Sound(controller[p], request[p])
  BY <1>6 DEF Sound, Stopped, Requester
<1>8. HostsAreUp
  BY <1>6 DEF HostsAreUp, Requester
<1> QED BY <1>5, <1>7, <1>8, SoundEverywhere DEF IInv

-----------------------------------------------------------------------------
\* A step that gives only process p a new controller, and p and the request a it
\* may host new calls, keeps the invariant when what p has is sound.
LEMMA OneProcess ==
  ASSUME IInv, NEW p \in Server, NEW c \in Controller, NEW r \in Request,
         controller' = [controller EXCEPT ![p] = c],
         request' = [request EXCEPT ![p] = r],
         Sound(c, r), c.up,
         licenseKey' \in Key \cup {Null}, lease' \in Lease, licensor' \in LicenseServer
  PROVE  IInv'
<1> USE LicensingAssumption
<1>1. controller \in [Server -> Controller] /\ request \in [Requester -> Request]
  BY DEF IInv, TypeOK
<1>2. controller' \in [Server -> Controller] /\ request' \in [Requester -> Request]
  BY <1>1
<1>3. TypeOK'
  BY <1>2 DEF TypeOK
<1>4. ASSUME NEW q \in Server PROVE Sound(controller'[q], request'[q])
  <2>1. CASE q = p
    BY <2>1, <1>1 DEF Requester
  <2>2. CASE q # p
    <3>1. Sound(controller[q], request[q])
      BY SoundEverywhere DEF IInv
    <3>2. controller'[q] = controller[q] /\ request'[q] = request[q]
      BY <2>2, <1>1 DEF Requester
    <3> QED BY <3>1, <3>2
  <2> QED BY <2>1, <2>2
<1>5. OneThingToCome' /\ PendingWhileRunning'
  BY <1>4 DEF OneThingToCome, PendingWhileRunning, Sound, Running
<1>6. HostsAreUp'
  <2> SUFFICES ASSUME NEW a \in Admin, request'[a].phase # "none", HostOf[a] # Null
               PROVE  controller'[HostOf[a]].up
    BY DEF HostsAreUp
  <2>1. request'[a] = request[a] /\ HostOf[a] \in Server
    BY <1>1 DEF Requester
  <2>2. controller[HostOf[a]].up
    BY <2>1 DEF IInv, HostsAreUp
  <2> QED BY <2>1, <2>2, <1>1
<1> QED BY <1>3, <1>5, <1>6 DEF IInv

\* A step that changes the calls of administrators only, starting none whose
\* process is down, and keeps the phase of every other call that is in flight.
LEMMA CallsOnly ==
  ASSUME IInv, UNCHANGED controller,
         request' \in [Requester -> Request],
         \A p \in Server : (request'[p].phase = "none") = (request[p].phase = "none"),
         \A a \in Admin : request'[a].phase # "none" /\ HostOf[a] # Null =>
            request[a].phase # "none" \/ controller[HostOf[a]].up,
         licenseKey' \in Key \cup {Null}, lease' \in Lease, licensor' \in LicenseServer
  PROVE  IInv'
<1>1. TypeOK'
  BY DEF IInv, TypeOK
<1>2. \A p \in Server : Sound(controller[p], request[p])
  BY SoundEverywhere DEF IInv
<1>3. \A p \in Server : Sound(controller'[p], request'[p])
  BY <1>2 DEF Sound
<1>4. OneThingToCome' /\ PendingWhileRunning'
  BY <1>3 DEF OneThingToCome, PendingWhileRunning, Sound, Running
<1>5. HostsAreUp'
  BY DEF IInv, HostsAreUp
<1> QED BY <1>1, <1>4, <1>5 DEF IInv

-----------------------------------------------------------------------------
\* A request that ends with wake() keeps the invariant.
LEMMA WakeIsSound ==
  ASSUME IInv, NEW a \in Admin, NEW key \in Key \cup {Null}, Wake(a, key),
         request[a].phase # "none",
         licenseKey' \in Key \cup {Null}, lease' \in Lease, licensor' \in LicenseServer
  PROVE  IInv'
<1> USE LicensingAssumption
<1> DEFINE p == HostOf[a]
<1>1. /\ controller \in [Server -> Controller]
      /\ request \in [Requester -> Request]
      /\ a \in Requester /\ a \notin Server
      /\ NoRequest \in Request /\ NoRequest.phase = "none"
  BY DEF IInv, TypeOK, Requester, NoRequest, Request
<1>2. CASE p = Null
  <2>1. controller' = controller /\ request' = [request EXCEPT ![a] = NoRequest]
    BY <1>2 DEF Wake
  <2> QED BY <2>1, <1>1, CallsOnly DEF Requester
<1>3. CASE p # Null /\ Running(p)
  <2>1. p \in Server
    BY <1>3
  <2> DEFINE c == [controller[p] EXCEPT !.timer = NoTimer, !.refreshPending = TRUE]
  <2>2. /\ controller' = [controller EXCEPT ![p] = c]
        /\ request' = [request EXCEPT ![a] = NoRequest]
    <3>1. controller' = [controller EXCEPT ![p].timer = NoTimer, ![p].refreshPending = TRUE]
      BY <1>3 DEF Wake
    <3> QED BY <3>1, <1>1, <1>3, <2>1 DEF Wake
  <2>3. Sound(controller[p], request[p]) /\ controller[p].up
    BY <2>1, <1>3, SoundEverywhere DEF IInv, HostsAreUp
  <2>4. /\ c \in Controller /\ c.up /\ c.refreshPending /\ c.timer = NoTimer
    BY <2>1, <2>3, <1>1 DEF Controller, NoTimer
  <2>5. Sound(c, request[p])
    BY <2>4, <1>3 DEF Sound, Running
  <2>6. /\ controller' \in [Server -> Controller]
        /\ \A q \in Server : q # p => controller'[q] = controller[q]
        /\ controller'[p] = c
    BY <2>2, <2>4, <1>1, <2>1
  <2>7. /\ request' \in [Requester -> Request]
        /\ \A x \in Requester : x # a => request'[x] = request[x]
        /\ request'[a] = NoRequest
    BY <2>2, <1>1
  <2>8. TypeOK'
    BY <2>6, <2>7 DEF TypeOK
  <2>9. \A q \in Server : Sound(controller'[q], request'[q])
    <3> SUFFICES ASSUME NEW q \in Server PROVE Sound(controller'[q], request'[q])
      OBVIOUS
    <3>1. request'[q] = request[q]
      BY <2>7, <1>1 DEF Requester
    <3>2. Sound(controller[q], request[q])
      BY SoundEverywhere DEF IInv
    <3> QED BY <3>1, <3>2, <2>5, <2>6
  <2>10. OneThingToCome' /\ PendingWhileRunning'
    BY <2>9 DEF OneThingToCome, PendingWhileRunning, Sound, Running
  <2>11. HostsAreUp'
    <3> SUFFICES ASSUME NEW b \in Admin, request'[b].phase # "none", HostOf[b] # Null
                 PROVE  controller'[HostOf[b]].up
      BY DEF HostsAreUp
    <3>1. b # a /\ request'[b] = request[b] /\ HostOf[b] \in Server
      BY <2>7, <1>1 DEF Requester
    <3>2. controller[HostOf[b]].up
      BY <3>1 DEF IInv, HostsAreUp
    <3> QED BY <3>1, <3>2, <2>4, <2>6
  <2> QED BY <2>8, <2>10, <2>11 DEF IInv
<1>4. CASE p # Null /\ ~Running(p)
  <2>1. p \in Server /\ p \in Requester /\ p # a
    BY <1>4, <1>1 DEF Requester
  <2> DEFINE rest == [request EXCEPT ![a] = NoRequest]
             c == Refreshing(controller[p], key)
             r == Refresh(key)
  <2>2. /\ controller' = [controller EXCEPT ![p] = c]
        /\ request' = [rest EXCEPT ![p] = r]
    <3>1. /\ controller' = [controller EXCEPT ![p] = Refreshing(@, key)]
          /\ request' = [request EXCEPT ![a] = NoRequest, ![p] = Refresh(key)]
      BY <1>4 DEF Wake
    <3> QED BY <3>1, <1>1, <2>1
  <2>3. controller[p] \in Controller /\ controller[p].up /\ ~controller[p].refreshPending
    BY <2>1, <1>1, <1>4 DEF IInv, HostsAreUp, PendingWhileRunning
  <2>4. c \in Controller /\ r \in Request /\ Sound(c, r) /\ c.up
    BY <2>3, RefreshingIsSound
  <2> HIDE DEF c, r
  <2>5. /\ controller' \in [Server -> Controller]
        /\ \A q \in Server : q # p => controller'[q] = controller[q]
        /\ controller'[p] = c
    BY <2>2, <2>4, <1>1, <2>1
  <2>6. /\ request' \in [Requester -> Request]
        /\ \A x \in Requester : x # a /\ x # p => request'[x] = request[x]
        /\ request'[a] = NoRequest /\ request'[p] = r
    BY <2>2, <2>4, <1>1, <2>1
  <2>7. TypeOK'
    BY <2>5, <2>6 DEF TypeOK
  <2>8. \A q \in Server : Sound(controller'[q], request'[q])
    <3> SUFFICES ASSUME NEW q \in Server PROVE Sound(controller'[q], request'[q])
      OBVIOUS
    <3>1. Sound(controller[q], request[q])
      BY SoundEverywhere DEF IInv
    <3>2. q # p => request'[q] = request[q]
      BY <2>6, <1>1 DEF Requester
    <3> QED BY <3>1, <3>2, <2>4, <2>5, <2>6
  <2>9. OneThingToCome' /\ PendingWhileRunning'
    BY <2>8 DEF OneThingToCome, PendingWhileRunning, Sound, Running
  <2>10. HostsAreUp'
    <3> SUFFICES ASSUME NEW b \in Admin, request'[b].phase # "none", HostOf[b] # Null
                 PROVE  controller'[HostOf[b]].up
      BY DEF HostsAreUp
    <3>1. b # a /\ b # p /\ HostOf[b] \in Server
      BY <2>6, <1>1, <2>1
    <3>2. request'[b] = request[b]
      BY <3>1, <2>6 DEF Requester
    <3>3. controller[HostOf[b]].up
      BY <3>1, <3>2 DEF IInv, HostsAreUp
    <3> QED BY <3>1, <3>3, <2>4, <2>5
  <2> QED BY <2>7, <2>9, <2>10 DEF IInv
<1> QED BY <1>2, <1>3, <1>4

\* Every step of a controller keeps the invariant.
LEMMA ControllerIsSound ==
  ASSUME IInv, NEW p \in Server, Start(p) \/ TimerFires(p) \/ RunEnds(p)
  PROVE  IInv'
<1> USE LicensingAssumption
<1>1. /\ controller[p] \in Controller /\ p \in Requester
      /\ request[p] \in Request /\ licenseKey \in Key \cup {Null}
      /\ lease \in Lease /\ licensor \in LicenseServer
      /\ Sound(controller[p], request[p])
      /\ NoRequest \in Request /\ NoRequest.phase = "none"
  BY SoundEverywhere DEF IInv, TypeOK, Requester, NoRequest, Request
<1>2. CASE Start(p)
  <2> DEFINE c == [Stopped EXCEPT !.up = TRUE]
             fresh == licenseKey # Null /\ lease.age < Interval
             t == [c EXCEPT !.timer = Interval - lease.age]
  <2>1. c \in Controller /\ c.up /\ ~c.refreshPending
    BY DEF Stopped, Controller, NoTimer
  <2>2. fresh => t \in Controller /\ t.up /\ Sound(t, NoRequest)
    <3> SUFFICES ASSUME fresh PROVE t \in Controller /\ t.up /\ Sound(t, NoRequest)
      OBVIOUS
    <3> DEFINE n == Interval - lease.age
    <3>1. n \in 0..Interval
      BY <1>1 DEF Lease
    <3> HIDE DEF n, c
    <3> DEFINE d == [c EXCEPT !.timer = n]
    <3>2. d \in Controller /\ d.up /\ d.timer = n /\ ~d.refreshPending
      BY <3>1, <2>1 DEF Controller
    <3>3. Sound(d, NoRequest)
      BY <3>1, <3>2, <1>1 DEF Sound, NoTimer
    <3> QED BY <3>2, <3>3 DEF n
  <2>3. /\ Refreshing(c, licenseKey) \in Controller /\ Refreshing(c, licenseKey).up
        /\ Refresh(licenseKey) \in Request
        /\ Sound(Refreshing(c, licenseKey), Refresh(licenseKey))
    BY <2>1, <1>1, RefreshingIsSound
  <2> DEFINE d == IF fresh THEN t ELSE Refreshing(c, licenseKey)
             r == IF fresh THEN NoRequest ELSE Refresh(licenseKey)
  <2>4. d \in Controller /\ r \in Request /\ Sound(d, r) /\ d.up
    BY <2>2, <2>3, <1>1
  <2>5. /\ controller' = [controller EXCEPT ![p] = d]
        /\ request' = [request EXCEPT ![p] = r]
        /\ UNCHANGED <<licenseKey, lease, licensor>>
    BY <1>2 DEF Start
  <2> HIDE DEF d, r
  <2> QED BY <2>4, <2>5, <1>1, OneProcess
<1>3. CASE TimerFires(p)
  <2>1. controller[p].up /\ ~controller[p].refreshPending
    BY <1>1, <1>3 DEF TimerFires, AtAwait, Sound, NoTimer
  <2> DEFINE c == Refreshing(controller[p], licenseKey)
             r == Refresh(licenseKey)
  <2>2. c \in Controller /\ r \in Request /\ Sound(c, r) /\ c.up
    BY <2>1, <1>1, RefreshingIsSound
  <2>3. /\ controller' = [controller EXCEPT ![p] = c]
        /\ request' = [request EXCEPT ![p] = r]
        /\ UNCHANGED <<licenseKey, lease, licensor>>
    BY <1>3 DEF TimerFires, RefreshNow
  <2> HIDE DEF c, r
  <2> QED BY <2>2, <2>3, <1>1, OneProcess
<1>4. CASE RunEnds(p)
  <2>1. controller[p].up /\ controller[p].timer = NoTimer
    BY <1>1, <1>4 DEF RunEnds, AtAwait, Sound
  <2>2. PICK answer : Ended(p, answer) /\ lease' \in Lease /\ UNCHANGED <<licenseKey, licensor>>
    <3>1. NewLease(request[p].key) \in Lease
      BY <1>1 DEF NewLease, Lease, Request
    <3> QED BY <3>1, <1>1, <1>4 DEF RunEnds
  <2>3. CASE controller[p].refreshPending
    <3> DEFINE c0 == [controller[p] EXCEPT !.refreshPending = FALSE]
               c == Refreshing(c0, licenseKey)
               r == Refresh(licenseKey)
    <3>1. c0 \in Controller /\ c0.up /\ ~c0.refreshPending
      BY <2>1, <1>1 DEF Controller
    <3>2. c \in Controller /\ r \in Request /\ Sound(c, r) /\ c.up
      BY <3>1, <1>1, RefreshingIsSound
    <3>3. /\ controller' = [controller EXCEPT ![p] = c]
          /\ request' = [request EXCEPT ![p] = r]
      BY <2>2, <2>3 DEF Ended
    <3> HIDE DEF c, r
    <3> QED BY <3>2, <3>3, <2>2, <1>1, OneProcess
  <2>4. CASE ~controller[p].refreshPending
    <3> DEFINE c == [controller[p] EXCEPT !.timer = NextRun(answer)]
    <3>1. NextRun(answer) \in 0..Interval
      BY DEF NextRun
    <3>2. c \in Controller /\ c.up /\ c.timer # NoTimer /\ ~c.refreshPending
      BY <2>1, <2>4, <1>1, <3>1 DEF Controller, NoTimer
    <3>3. Sound(c, NoRequest)
      BY <3>2, <1>1 DEF Sound
    <3>4. /\ controller' = [controller EXCEPT ![p] = c]
          /\ request' = [request EXCEPT ![p] = NoRequest]
      BY <2>2, <2>4 DEF Ended
    <3> HIDE DEF c
    <3> QED BY <3>2, <3>3, <3>4, <2>2, <1>1, OneProcess
  <2> QED BY <2>3, <2>4
<1> QED BY <1>2, <1>3, <1>4

\* So does every step of a request, of the license server and of time.
LEMMA AdminIsSound ==
  ASSUME IInv, NEW a \in Admin, AdminStep(a) \/ AdminStarts(a)
  PROVE  IInv'
<1> USE LicensingAssumption
<1>1. /\ request \in [Requester -> Request] /\ a \in Requester /\ a \notin Server
      /\ request[a] \in Request /\ request[a].key \in Key \cup {Null}
      /\ licenseKey \in Key \cup {Null} /\ lease \in Lease /\ licensor \in LicenseServer
  BY DEF IInv, TypeOK, Requester, Request
\* What a step that only gives this request another state has to show.
<1>2. ASSUME NEW r \in Request, request' = [request EXCEPT ![a] = r], UNCHANGED controller,
             r.phase # "none" /\ HostOf[a] # Null =>
               request[a].phase # "none" \/ controller[HostOf[a]].up,
             licenseKey' \in Key \cup {Null}, lease' \in Lease, licensor' \in LicenseServer
      PROVE  IInv'
  <2>1. request' \in [Requester -> Request]
    BY <1>1, <1>2
  <2>2. \A p \in Server : request'[p] = request[p]
    BY <1>1, <1>2 DEF Requester
  <2>3. \A b \in Admin : request'[b] = IF b = a THEN r ELSE request[b]
    BY <1>1, <1>2 DEF Requester
  <2> QED BY <1>2, <2>1, <2>2, <2>3, CallsOnly
<1>3. NoRequest \in Request /\ NoRequest.phase = "none"
  BY DEF NoRequest, Request
<1>4. \A f \in {"activate", "deactivate"}, ph \in {"validate", "release", "removed"},
         k \in Key \cup {Null} : Asking(ph, f, k) \in Request
  BY DEF Asking, Request
<1>5. MayRun(a) /\ HostOf[a] # Null => controller[HostOf[a]].up
  BY DEF MayRun, AtAwait
<1>6. ASSUME SaveLease(a) PROVE IInv'
  <2>1. [request[a] EXCEPT !.phase = "saved"] \in Request
    BY <1>1 DEF Request
  <2>2. request' = [request EXCEPT ![a] = [request[a] EXCEPT !.phase = "saved"]]
    BY <1>1, <1>6 DEF SaveLease
  <2>3. NewLease(request[a].key) \in Lease
    BY <1>1 DEF NewLease, Lease
  <2> QED BY <1>1, <1>2, <1>6, <2>1, <2>2, <2>3 DEF SaveLease, AnsweredTo
<1>7. ASSUME StoreKey(a) PROVE IInv'
  BY <1>1, <1>7, WakeIsSound DEF StoreKey, AnsweredTo
<1>8. ASSUME Rejected(a) PROVE IInv'
  BY <1>1, <1>2, <1>3, <1>8 DEF Rejected
<1>9. ASSUME RemoveKey(a) PROVE IInv'
  <2>1. [request[a] EXCEPT !.phase = "removed"] \in Request
    BY <1>1 DEF Request
  <2>2. request' = [request EXCEPT ![a] = [request[a] EXCEPT !.phase = "removed"]]
    BY <1>1, <1>9 DEF RemoveKey
  <2> QED BY <1>1, <1>2, <1>9, <2>1, <2>2 DEF RemoveKey, AnsweredTo
<1>10. ASSUME ClearLease(a) PROVE IInv'
  <2>1. NoLease \in Lease
    BY DEF NoLease, Lease
  <2> QED BY <1>1, <1>10, <2>1, WakeIsSound DEF ClearLease
<1>11. ASSUME AdminFails(a) PROVE IInv'
  BY <1>1, <1>2, <1>3, <1>11 DEF AdminFails
<1>12. ASSUME Deactivate(a) PROVE IInv'
  <2> DEFINE r == Asking(IF licenseKey = Null THEN "removed" ELSE "release",
                         "deactivate", licenseKey)
  <2>1. r \in Request
    BY <1>1, <1>4
  <2>2. request' = [request EXCEPT ![a] = r]
    BY <1>12 DEF Deactivate
  <2> HIDE DEF r
  <2> QED BY <1>1, <1>2, <1>5, <1>12, <2>1, <2>2 DEF Deactivate
<1>13. ASSUME NEW k \in Key, Activate(a, k) PROVE IInv'
  <2>1. Asking("validate", "activate", k) \in Request
    BY <1>4
  <2> QED BY <1>1, <1>2, <1>5, <1>13, <2>1 DEF Activate
<1> QED BY <1>6, <1>7, <1>8, <1>9, <1>10, <1>11, <1>12, <1>13 DEF AdminStep, AdminStarts

LEMMA ServerIsSound ==
  ASSUME IInv, NEW x \in Requester, ServerStep(x)
  PROVE  IInv'
<1> USE LicensingAssumption
<1>1. /\ request \in [Requester -> Request] /\ request[x] \in Request
      /\ licenseKey \in Key \cup {Null} /\ lease \in Lease /\ licensor \in LicenseServer
  BY DEF IInv, TypeOK
<1>2. PICK answer \in {"none", "lease", "refused", "outage"} : Answered(x, answer)
  BY DEF ServerStep, Validate, Release, Unreachable
<1>3. request[x].phase # "none" /\ UNCHANGED <<licenseKey, lease, controller>>
  BY DEF ServerStep, Validate, Release, Unreachable
<1>4. licensor' \in LicenseServer
  BY <1>1 DEF ServerStep, Validate, Release, Unreachable
<1> DEFINE r == [request[x] EXCEPT !.phase = "answered", !.answer = answer]
<1>5. r \in Request /\ r.phase # "none"
  BY <1>1, <1>2 DEF Request
<1>6. request' = [request EXCEPT ![x] = r]
  BY <1>2, <1>1 DEF Answered
<1> HIDE DEF r
<1>7. /\ request' \in [Requester -> Request]
      /\ \A y \in Requester : (request'[y].phase = "none") = (request[y].phase = "none")
  BY <1>1, <1>3, <1>5, <1>6
<1> QED BY <1>1, <1>3, <1>4, <1>7, CallsOnly DEF Requester

LEMMA WorldIsSound ==
  ASSUME IInv, (\E k \in Key : Elsewhere(k)) \/ OutageBegins \/ OutageEnds
  PROVE  IInv'
<1> USE LicensingAssumption
<1>1. licensor \in LicenseServer
  BY DEF IInv, TypeOK
<1>2. licensor' \in LicenseServer
  <2>1. ASSUME NEW k \in Key, Elsewhere(k) PROVE licensor' \in LicenseServer
    BY <1>1, <2>1 DEF Elsewhere, LicenseServer
  <2>2. 0 \in 0..Longest
    BY DEF Longest
  <2>3. ASSUME OutageBegins \/ OutageEnds PROVE licensor' \in LicenseServer
    BY <1>1, <2>2, <2>3 DEF OutageBegins, OutageEnds, LicenseServer
  <2> QED BY <2>1, <2>3
<1>3. UNCHANGED <<licenseKey, lease, controller, request>>
  BY DEF Elsewhere, OutageBegins, OutageEnds
<1> QED BY <1>2, <1>3, CallsOnly DEF IInv, TypeOK

\* A process that dies takes the requests it hosts along.
LEMMA CrashIsSound == ASSUME IInv, NEW p \in Server, Crash(p) PROVE IInv'
<1> USE LicensingAssumption
<1>1. /\ controller \in [Server -> Controller] /\ request \in [Requester -> Request]
      /\ Server \subseteq Requester /\ Admin \subseteq Requester
      /\ UNCHANGED <<licenseKey, lease, licensor>>
  BY DEF IInv, TypeOK, Requester, Crash
<1>2. /\ Stopped \in Controller /\ ~Stopped.up
      /\ Stopped.timer = NoTimer /\ ~Stopped.refreshPending
      /\ NoRequest \in Request /\ NoRequest.phase = "none"
  BY DEF Stopped, Controller, NoRequest, Request
<1>3. /\ controller' = [controller EXCEPT ![p] = Stopped]
      /\ request' = [x \in Requester |->
                       IF x = p \/ x \in HostedBy(p) THEN NoRequest ELSE request[x]]
  BY DEF Crash
<1>4. controller' \in [Server -> Controller] /\ request' \in [Requester -> Request]
  BY <1>1, <1>2, <1>3
<1>5. TypeOK'
  BY <1>1, <1>4 DEF IInv, TypeOK
<1>6. \A q \in Server : Sound(controller'[q], request'[q])
  <2> SUFFICES ASSUME NEW q \in Server PROVE Sound(controller'[q], request'[q])
    OBVIOUS
  <2>1. CASE q = p
    BY <2>1, <1>1, <1>2, <1>3 DEF Sound
  <2>2. CASE q # p
    <3>1. controller'[q] = controller[q] /\ request'[q] = request[q]
      BY <2>2, <1>1, <1>3 DEF HostedBy
    <3>2. Sound(controller[q], request[q])
      BY SoundEverywhere DEF IInv
    <3> QED BY <3>1, <3>2
  <2> QED BY <2>1, <2>2
<1>7. OneThingToCome' /\ PendingWhileRunning'
  BY <1>6 DEF OneThingToCome, PendingWhileRunning, Sound, Running
<1>8. HostsAreUp'
  <2> SUFFICES ASSUME NEW a \in Admin, request'[a].phase # "none", HostOf[a] # Null
               PROVE  controller'[HostOf[a]].up
    BY DEF HostsAreUp
  <2>1. a \notin HostedBy(p) /\ request'[a] = request[a] /\ HostOf[a] \in Server
    BY <1>1, <1>2, <1>3
  <2>2. HostOf[a] # p /\ controller[HostOf[a]].up
    BY <2>1 DEF HostedBy, IInv, HostsAreUp
  <2> QED BY <2>1, <2>2, <1>1, <1>3
<1> QED BY <1>5, <1>7, <1>8 DEF IInv

\* Time passes only when every timer that runs has something left.
LEMMA ElapseIsSound == ASSUME IInv, Elapse PROVE IInv'
<1> USE LicensingAssumption
<1>1. /\ lease \in Lease /\ licensor \in LicenseServer
      /\ controller \in [Server -> Controller] /\ request \in [Requester -> Request]
      /\ licenseKey' \in Key \cup {Null} /\ request' = request
  BY DEF IInv, TypeOK, Elapse
<1>2. \A x \in Requester : request[x].phase = "none"
  BY DEF Elapse
<1>3. lease' \in Lease
  <2> DEFINE l == IF lease.left > -Grace THEN lease.left - 1 ELSE lease.left
             o == IF lease.age < Interval THEN lease.age + 1 ELSE lease.age
  <2>1. l \in (-Grace)..Life /\ o \in 0..Interval
    BY <1>1 DEF Lease
  <2>2. lease' = [lease EXCEPT !.left = l, !.age = o]
    BY DEF Elapse
  <2> HIDE DEF l, o
  <2> QED BY <2>1, <2>2, <1>1 DEF Lease
<1>4. licensor' \in LicenseServer
  <2> DEFINE n == IF licensor.since < Longest THEN licensor.since + 1 ELSE licensor.since
  <2>1. n \in 0..Longest
    BY <1>1 DEF LicenseServer, Longest
  <2>2. licensor' = [licensor EXCEPT !.since = n]
    BY DEF Elapse
  <2> HIDE DEF n
  <2> QED BY <2>1, <2>2, <1>1 DEF LicenseServer
<1>5. ASSUME NEW p \in Server
      PROVE  /\ controller'[p] \in Controller
             /\ controller'[p].up = controller[p].up
             /\ controller'[p].refreshPending = controller[p].refreshPending
             /\ (controller'[p].timer = NoTimer) = (controller[p].timer = NoTimer)
  <2> DEFINE c == controller[p]
             n == IF c.timer = NoTimer THEN c.timer ELSE c.timer - 1
  <2>1. c \in Controller /\ c.timer # 0
    BY <1>1 DEF Elapse
  <2>2. n \in {NoTimer} \cup 0..Interval /\ ((n = NoTimer) = (c.timer = NoTimer))
    BY <2>1 DEF Controller, NoTimer
  <2>3. controller'[p] = [c EXCEPT !.timer = n]
    BY DEF Elapse
  <2> HIDE DEF n, c
  <2>4. /\ [c EXCEPT !.timer = n] \in Controller
        /\ [c EXCEPT !.timer = n].up = c.up
        /\ [c EXCEPT !.timer = n].refreshPending = c.refreshPending
        /\ [c EXCEPT !.timer = n].timer = n
    BY <2>1, <2>2 DEF Controller
  <2> QED BY <2>2, <2>3, <2>4 DEF c
<1>6. controller' \in [Server -> Controller]
  <2>1. controller' = [p \in Server |-> controller'[p]]
    BY DEF Elapse
  <2> QED BY <2>1, <1>5
<1>7. TypeOK'
  BY <1>1, <1>3, <1>4, <1>6 DEF TypeOK
<1>8. \A p \in Server : Sound(controller'[p], request'[p])
  <2>1. \A p \in Server : Sound(controller[p], request[p])
    BY SoundEverywhere DEF IInv
  <2> QED BY <2>1, <1>1, <1>5 DEF Sound
<1>9. OneThingToCome' /\ PendingWhileRunning'
  BY <1>8 DEF OneThingToCome, PendingWhileRunning, Sound, Running
<1>10. HostsAreUp'
  BY <1>1, <1>2 DEF HostsAreUp, Requester
<1> QED BY <1>7, <1>9, <1>10 DEF IInv

-----------------------------------------------------------------------------
LEMMA NextIsSound == IInv /\ [Next]_vars => IInv'
<1> SUFFICES ASSUME IInv, [Next]_vars PROVE IInv'
  OBVIOUS
<1>1. ASSUME NEW p \in Server, Start(p) \/ ControllerStep(p) \/ Crash(p) PROVE IInv'
  BY <1>1, ControllerIsSound, CrashIsSound DEF ControllerStep
<1>2. ASSUME NEW a \in Admin, AdminStep(a) \/ AdminStarts(a) PROVE IInv'
  BY <1>2, AdminIsSound
<1>3. ASSUME NEW x \in Requester, ServerStep(x) PROVE IInv'
  BY <1>3, ServerIsSound
<1>4. ASSUME (\E k \in Key : Elsewhere(k)) \/ OutageBegins \/ OutageEnds PROVE IInv'
  BY <1>4, WorldIsSound
<1>5. CASE UNCHANGED vars
  BY <1>5 DEF vars, IInv, TypeOK, OneThingToCome, PendingWhileRunning, HostsAreUp, Running
<1> QED BY <1>1, <1>2, <1>3, <1>4, <1>5, ElapseIsSound DEF Next

LEMMA AlwaysSound == Spec => []IInv
<1>1. Init => IInv
  BY InitIsSound
<1>2. IInv /\ [Next]_vars => IInv'
  BY NextIsSound
<1> QED BY <1>1, <1>2, PTL DEF Spec

\* The license, its lease, the controllers and the calls in flight keep their
\* types; so every timer stays within the daily cadence and a lease is never
\* older than its grace period tells (entitlements.ts, refresher.ts).
THEOREM TypesAreKept == Spec => []TypeOK
<1>1. IInv => TypeOK
  BY DEF IInv
<1> QED BY <1>1, AlwaysSound, PTL

\* In every running server process the license controller has exactly one of a
\* run in flight and a timer, whatever administrators, other processes and the
\* license server do at the same time: it never stops revalidating and never
\* runs twice (refresher.ts, refreshNow, schedule and wake).
THEOREM AlwaysOneThingToCome == Spec => []OneThingToCome
<1>1. IInv => OneThingToCome
  BY DEF IInv
<1> QED BY <1>1, AlwaysSound, PTL

\* A refresh that wake() asked for is never left behind: while it is pending a
\* run is in flight that will start it (refresher.ts, wake).
THEOREM NoRefreshIsForgotten == Spec => []PendingWhileRunning
<1>1. IInv => PendingWhileRunning
  BY DEF IInv
<1> QED BY <1>1, AlwaysSound, PTL

-----------------------------------------------------------------------------
(* Outages.  Who is up renews the lease in time: it is due within its timer,  *)
(* and then there is still time for an outage to pass and for the retry.      *)

Due(timer) == IF timer = NoTimer THEN 0 ELSE timer

\* Renewed as the cadence wants; or due within Retry, while the license server has been
\* unreachable since the last renewal was due, or has been reachable again for so long.
InTime(left, online, since, due) ==
  \/ left >= Life - Interval + due
  \/ ~online /\ left + since >= Life - Interval /\ due <= Retry
  \/ online /\ left + since >= Life - Interval - MaxOutage /\ since + due <= Retry

Renewable == \A p \in Server : controller[p].up =>
               InTime(lease.left, licensor.online, licensor.since, Due(controller[p].timer))
LeaseIsRenewed == lease.key # Null => Renewable /\ \E p \in Server : controller[p].up

\* Every call asks for a key that is good, and only an outage that is still there, or has
\* just ended, has kept the answer away.
GoodCall(r, online, since) ==
  r.phase # "none" =>
    /\ r.key \in Key /\ r.for \in {"refresh", "activate"}
    /\ r.phase \in {"validate", "answered", "saved"}
    /\ r.phase = "answered" =>
         /\ r.answer \in {"lease", "outage"}
         /\ r.answer = "outage" /\ online => since = 0
CallsAreGood == \A x \in Requester : GoodCall(request[x], licensor.online, licensor.since)
KeyIsThere == \A p \in Server : Running(p) => licenseKey # Null

WorldIsCalm == licensor.active = Key /\ (~licensor.online => licensor.since <= MaxOutage)

\* A lease without its key has just been saved by a request that goes on to store the key.
KeyComes == lease.key # Null /\ licenseKey = Null =>
              lease.left = Life /\ \E a \in Admin : request[a].phase = "saved"
LeaseAges == lease.key # Null /\ lease.age < Interval => lease.left >= Life - lease.age

PaidInv == CallsAreGood /\ KeyIsThere /\ WorldIsCalm /\ KeyComes /\ LeaseAges /\ LeaseIsRenewed

\* The arithmetic of it.
LEMMA RenewedIsInTime ==
  ASSUME NEW online, NEW since, NEW due \in 0..Interval PROVE InTime(Life, online, since, due)
  BY LicensingAssumption DEF InTime

LEMMA SoonerIsInTime ==
  ASSUME NEW left \in Int, NEW online, NEW since \in Nat, NEW due \in Nat, NEW sooner \in 0..due,
         InTime(left, online, since, due)
  PROVE  InTime(left, online, since, sooner)
  BY LicensingAssumption DEF InTime

LEMMA InTimeIsPaid ==
  ASSUME OutagesAreBridged, NEW left \in Int, NEW online, NEW since \in Nat, NEW due \in Nat,
         ~online => since <= MaxOutage, InTime(left, online, since, due)
  PROVE  left > -Grace
  BY LicensingAssumption DEF InTime, OutagesAreBridged

LEMMA TimePassesInTime ==
  ASSUME OutagesAreBridged, NEW left \in Int, NEW online, NEW since \in Nat, NEW due \in Nat, due # 0,
         ~online => since < MaxOutage, InTime(left, online, since, due)
  PROVE  InTime(left - 1, online, IF since < Longest THEN since + 1 ELSE since, due - 1)
  BY LicensingAssumption DEF InTime, OutagesAreBridged, Longest

LEMMA OutageBeginsInTime ==
  ASSUME OutagesAreBridged, NEW left \in Int, NEW since \in Nat, NEW due \in Nat, since >= MinCalm,
         InTime(left, TRUE, since, due)
  PROVE  InTime(left, FALSE, 0, due)
  BY LicensingAssumption DEF InTime, OutagesAreBridged

LEMMA OutageEndsInTime ==
  ASSUME NEW left \in Int, NEW since \in Nat, NEW due \in Nat, since <= MaxOutage, InTime(left, FALSE, since, due)
  PROVE  InTime(left, TRUE, 0, due)
  BY LicensingAssumption DEF InTime

LEMMA RetriesInTime ==
  ASSUME NEW left \in Int, NEW online, NEW since \in Nat, online => since = 0, InTime(left, online, since, 0)
  PROVE  InTime(left, online, since, Retry)
  BY LicensingAssumption DEF InTime

\* One of the calls changes.
LEMMA OneCall ==
  ASSUME CallsAreGood, UNCHANGED licensor, request \in [Requester -> Request], NEW x \in Requester, NEW r,
         request' = [request EXCEPT ![x] = r], GoodCall(r, licensor.online, licensor.since)
  PROVE  CallsAreGood'
<1>1. \A y \in Requester : request'[y] = IF y = x THEN r ELSE request[y]
  OBVIOUS
<1>2. \A y \in Requester : GoodCall(request'[y], licensor.online, licensor.since)
  BY <1>1 DEF CallsAreGood
<1> QED
  BY <1>2 DEF CallsAreGood

LEMMA RefreshIsGood ==
  ASSUME NEW k \in Key \cup {Null}, NEW online, NEW since
  PROVE  /\ GoodCall(NoRequest, online, since) /\ GoodCall(Refresh(k), online, since)
         /\ Refresh(k).phase \in {"none", "validate"} /\ (Refresh(k).phase # "none" => k # Null)
  BY DEF GoodCall, Refresh, NoRequest, Asking

\* What of a controller matters is what its timer has left.
LEMMA DueIsTyped == ASSUME NEW c \in Controller PROVE Due(c.timer) \in 0..Interval
  BY LicensingAssumption DEF Due, Controller, NoTimer

LEMMA Numbers ==
  ASSUME TypeOK
  PROVE  /\ lease.left \in Int /\ lease.age \in 0..Interval /\ lease.left <= Life /\ lease.key \in Key \cup {Null}
         /\ licensor.online \in BOOLEAN /\ licensor.since \in Nat /\ licenseKey \in Key \cup {Null}
         /\ \A p \in Server : Due(controller[p].timer) \in 0..Interval
         /\ request \in [Requester -> Request] /\ controller \in [Server -> Controller]
<1>1. Longest \in Nat
  BY LicensingAssumption DEF Longest
<1>2. \A p \in Server : Due(controller[p].timer) \in 0..Interval
  BY DueIsTyped DEF TypeOK
<1>3. Life \in Nat /\ Grace \in Nat
  BY LicensingAssumption
<1> QED
  BY <1>1, <1>2, <1>3 DEF TypeOK, Lease, LicenseServer

\* refreshNow is in time wherever somebody else is, or the key is only to come.
LEMMA RefreshingInTime ==
  ASSUME TypeOK, PaidInv, lease.key # Null, NEW c \in Controller, NEW k \in Key \cup {Null}, k = Null => licenseKey = Null
  PROVE  InTime(lease.left, licensor.online, licensor.since, Due(Refreshing(c, k).timer))
<1>1. Due(Refreshing(c, k).timer) = IF k = Null THEN Recheck ELSE 0
  BY LicensingAssumption DEF Refreshing, Due, NoTimer, Controller
<1>2. CASE k = Null
  <2>1. lease.left = Life
    BY <1>2 DEF PaidInv, KeyComes
  <2>2. Recheck \in 0..Interval
    BY LicensingAssumption
  <2> QED
    BY <1>1, <1>2, <2>1, <2>2, RenewedIsInTime
<1>3. CASE k # Null
  <2>1. PICK q \in Server : /\ controller[q].up
                            /\ InTime(lease.left, licensor.online, licensor.since, Due(controller[q].timer))
    BY DEF PaidInv, LeaseIsRenewed, Renewable
  <2>2. InTime(lease.left, licensor.online, licensor.since, 0)
    BY <2>1, Numbers, SoonerIsInTime
  <2> QED
    BY <1>1, <1>3, <2>2
<1> QED
  BY <1>2, <1>3

\* One controller changes.
LEMMA OneController ==
  ASSUME TypeOK, LeaseIsRenewed, UNCHANGED <<lease, licensor>>, NEW p \in Server, NEW c,
         controller' = [controller EXCEPT ![p] = c], c.up,
         lease.key # Null => InTime(lease.left, licensor.online, licensor.since, Due(c.timer))
  PROVE  LeaseIsRenewed'
<1>1. controller \in [Server -> Controller]
  BY DEF TypeOK
<1>2. \A q \in Server : controller'[q] = IF q = p THEN c ELSE controller[q]
  BY <1>1
<1>3. lease.key # Null =>
        /\ \A q \in Server : controller'[q].up =>
             InTime(lease.left, licensor.online, licensor.since, Due(controller'[q].timer))
        /\ \E q \in Server : controller'[q].up
  BY <1>2 DEF LeaseIsRenewed, Renewable
<1> QED
  BY <1>3 DEF LeaseIsRenewed, Renewable

\* The lease is renewed.
LEMMA RenewalIsInTime ==
  ASSUME TypeOK', lease'.left = Life, NEW p \in Server, controller'[p].up
  PROVE  LeaseIsRenewed'
<1>1. controller' \in [Server -> Controller]
  BY DEF TypeOK
<1>2. \A q \in Server : InTime(Life, licensor'.online, licensor'.since, Due(controller'[q].timer))
  BY <1>1, DueIsTyped, RenewedIsInTime
<1> QED
  BY <1>2 DEF LeaseIsRenewed, Renewable

\* A controller starts or its timer fires.
LEMMA RefreshKeepsPaid ==
  ASSUME IInv, PaidInv, NEW p \in Server, NEW c \in Controller, c.up, NEW r \in {NoRequest, Refresh(licenseKey)},
         ~Running(p), UNCHANGED <<licenseKey, lease, licensor>>,
         controller' = [controller EXCEPT ![p] = c], request' = [request EXCEPT ![p] = r],
         lease.key # Null => InTime(lease.left, licensor.online, licensor.since, Due(c.timer))
  PROVE  PaidInv'
<1>1. TypeOK /\ p \in Requester /\ p \notin Admin
  BY LicensingAssumption DEF IInv, Requester
<1>2. request \in [Requester -> Request] /\ licenseKey \in Key \cup {Null}
  BY <1>1, Numbers
<1>3. GoodCall(r, licensor.online, licensor.since) /\ (r.phase # "none" => licenseKey # Null)
  BY <1>2, RefreshIsGood DEF NoRequest
<1>4. \A x \in Requester : request'[x] = IF x = p THEN r ELSE request[x]
  BY <1>1, <1>2
<1>5. CallsAreGood'
  BY <1>1, <1>2, <1>3, OneCall DEF PaidInv
<1>6. KeyIsThere'
  BY <1>3, <1>4 DEF PaidInv, KeyIsThere, Running, Requester
<1>7. WorldIsCalm' /\ LeaseAges'
  BY DEF PaidInv, WorldIsCalm, LeaseAges
<1>8. KeyComes'
  BY <1>1, <1>4 DEF PaidInv, KeyComes, Requester
<1>9. LeaseIsRenewed'
  BY <1>1, OneController DEF PaidInv
<1> QED
  BY <1>5, <1>6, <1>7, <1>8, <1>9 DEF PaidInv

LEMMA StartKeepsPaid == ASSUME IInv, PaidInv, NEW p \in Server, Start(p) PROVE PaidInv'
<1> DEFINE s == [Stopped EXCEPT !.up = TRUE]
           fresh == licenseKey # Null /\ lease.age < Interval
           t == [s EXCEPT !.timer = Interval - lease.age]
           c == IF fresh THEN t ELSE Refreshing(s, licenseKey)
           r == IF fresh THEN NoRequest ELSE Refresh(licenseKey)
<1>1. TypeOK /\ ~Running(p)
  BY DEF IInv, OneThingToCome, Start
<1>2. s \in Controller /\ s.up /\ ~s.refreshPending
  BY DEF Stopped, Controller
<1>3. Interval - lease.age \in 0..Interval
  BY <1>1, Numbers, LicensingAssumption
<1>4. t \in Controller /\ t.up /\ Due(t.timer) = Interval - lease.age
  <2> DEFINE n == Interval - lease.age
             d == [s EXCEPT !.timer = n]
  <2> HIDE DEF n, s
  <2>1. d \in Controller /\ d.up /\ d.timer = n /\ n # NoTimer
    BY <1>2, <1>3 DEF Controller, NoTimer, n
  <2>2. Due(d.timer) = n
    BY <2>1 DEF Due
  <2> QED
    BY <2>1, <2>2 DEF n
<1>5. licenseKey \in Key \cup {Null}
  BY <1>1, Numbers
<1>6. Refreshing(s, licenseKey) \in Controller /\ Refreshing(s, licenseKey).up
  BY <1>2, <1>5, RefreshingIsSound
<1>7. c \in Controller /\ c.up /\ r \in {NoRequest, Refresh(licenseKey)}
  BY <1>4, <1>6
<1>8. ASSUME lease.key # Null PROVE InTime(lease.left, licensor.online, licensor.since, Due(c.timer))
  <2>1. CASE fresh
    <3>1. lease.left >= Life - Interval + (Interval - lease.age)
      BY <1>1, <1>8, <2>1, Numbers, LicensingAssumption DEF PaidInv, LeaseAges
    <3> QED
      BY <1>4, <2>1, <3>1 DEF InTime
  <2>2. CASE ~fresh
    BY <1>1, <1>2, <1>5, <1>8, <2>2, RefreshingInTime
  <2> QED
    BY <2>1, <2>2
<1>9. /\ controller' = [controller EXCEPT ![p] = c] /\ request' = [request EXCEPT ![p] = r]
      /\ UNCHANGED <<licenseKey, lease, licensor>>
  BY DEF Start
<1> HIDE DEF c, r
<1> QED
  BY <1>1, <1>7, <1>8, <1>9, RefreshKeepsPaid

LEMMA TimerKeepsPaid == ASSUME IInv, PaidInv, NEW p \in Server, TimerFires(p) PROVE PaidInv'
<1> DEFINE c == Refreshing(controller[p], licenseKey)
           r == Refresh(licenseKey)
<1>1. TypeOK /\ controller[p] \in Controller /\ controller[p].up /\ controller[p].timer = 0
  BY DEF IInv, TypeOK, TimerFires, AtAwait
<1>2. ~Running(p) /\ ~controller[p].refreshPending
  <2>1. Sound(controller[p], request[p])
    BY SoundEverywhere DEF IInv
  <2> QED
    BY <1>1, <2>1 DEF Sound, NoTimer, Running
<1>3. licenseKey \in Key \cup {Null}
  BY <1>1, Numbers
<1>4. c \in Controller /\ c.up
  BY <1>1, <1>2, <1>3, RefreshingIsSound
<1>5. lease.key # Null => InTime(lease.left, licensor.online, licensor.since, Due(c.timer))
  BY <1>1, <1>3, RefreshingInTime
<1>6. /\ controller' = [controller EXCEPT ![p] = c] /\ request' = [request EXCEPT ![p] = r]
      /\ UNCHANGED <<licenseKey, lease, licensor>>
  BY DEF TimerFires, RefreshNow
<1> HIDE DEF c
<1> QED
  BY <1>2, <1>4, <1>5, <1>6, RefreshKeepsPaid

\* A run ends, with a lease or without an answer.
LEMMA RunKeepsPaid == ASSUME OutagesAreBridged, IInv, IInv', PaidInv, NEW p \in Server, RunEnds(p) PROVE PaidInv'
<1>1. TypeOK /\ TypeOK' /\ p \in Requester /\ p \notin Admin /\ Running(p) /\ controller[p] \in Controller
  BY LicensingAssumption DEF IInv, TypeOK, Requester, RunEnds, Running
<1>2. request \in [Requester -> Request] /\ licenseKey \in Key \cup {Null} /\ licenseKey # Null
  BY <1>1, Numbers DEF PaidInv, KeyIsThere
<1>3. controller[p].up /\ controller[p].timer = NoTimer
  BY <1>1 DEF IInv, OneThingToCome, RunEnds, AtAwait
<1>4. /\ request[p].key \in Key /\ request[p].answer \in {"lease", "outage"}
      /\ request[p].answer = "outage" /\ licensor.online => licensor.since = 0
  BY <1>1 DEF PaidInv, CallsAreGood, GoodCall, RunEnds, Running
<1>5. PICK r \in {NoRequest, Refresh(licenseKey)} : request' = [request EXCEPT ![p] = r]
  BY DEF RunEnds, Ended
<1>6. UNCHANGED <<licenseKey, licensor>>
  BY DEF RunEnds
<1>7. /\ lease' = IF request[p].answer = "lease" THEN NewLease(request[p].key) ELSE lease
      /\ Ended(p, request[p].answer)
  BY DEF RunEnds, OutagesAreBridged
<1>8. CallsAreGood' /\ KeyIsThere' /\ WorldIsCalm' /\ KeyComes'
  <2>1. GoodCall(r, licensor.online, licensor.since)
    BY <1>2, RefreshIsGood
  <2>2. CallsAreGood'
    BY <1>1, <1>2, <1>5, <1>6, <2>1, OneCall DEF PaidInv
  <2> QED
    BY <1>2, <1>6, <2>2 DEF PaidInv, KeyIsThere, WorldIsCalm, KeyComes
<1>9. CASE request[p].answer = "lease"
  <2>1. lease'.left = Life /\ lease'.age = 0
    BY <1>7, <1>9 DEF NewLease
  <2>2. controller'[p].up
    <3>1. PICK c : controller' = [controller EXCEPT ![p] = c] /\ c.up
      <4> DEFINE d == [controller[p] EXCEPT !.refreshPending = FALSE]
                 e == [controller[p] EXCEPT !.timer = NextRun(request[p].answer)]
      <4>1. d.up /\ Refreshing(d, licenseKey).up /\ e.up
        BY <1>1, <1>3 DEF Controller, Refreshing
      <4>2. controller' = [controller EXCEPT ![p] = Refreshing(d, licenseKey)]
            \/ controller' = [controller EXCEPT ![p] = e]
        BY <1>7 DEF Ended
      <4> QED
        BY <4>1, <4>2
    <3> QED
      BY <1>1, <3>1, Numbers
  <2>3. LeaseIsRenewed'
    BY <1>1, <2>1, <2>2, RenewalIsInTime
  <2>4. LeaseAges'
    BY <2>1, LicensingAssumption DEF LeaseAges
  <2> QED
    BY <1>8, <2>3, <2>4 DEF PaidInv
<1>10. CASE request[p].answer = "outage"
  <2>1. lease' = lease
    BY <1>7, <1>10
  <2>2. LeaseAges'
    BY <2>1 DEF PaidInv, LeaseAges
  <2>3. CASE controller[p].refreshPending
    <3> DEFINE d == [controller[p] EXCEPT !.refreshPending = FALSE]
               c == Refreshing(d, licenseKey)
    <3>1. d \in Controller /\ d.up /\ ~d.refreshPending
      BY <1>1, <1>3 DEF Controller
    <3>2. c \in Controller /\ c.up
      BY <1>2, <3>1, RefreshingIsSound
    <3>3. lease.key # Null => InTime(lease.left, licensor.online, licensor.since, Due(c.timer))
      BY <1>1, <1>2, <3>1, RefreshingInTime
    <3>4. controller' = [controller EXCEPT ![p] = c]
      BY <1>7, <2>3 DEF Ended
    <3> HIDE DEF c
    <3>5. LeaseIsRenewed'
      BY <1>1, <1>6, <2>1, <3>2, <3>3, <3>4, OneController DEF PaidInv
    <3> QED
      BY <1>8, <2>2, <3>5 DEF PaidInv
  <2>4. CASE ~controller[p].refreshPending
    <3> DEFINE c == [controller[p] EXCEPT !.timer = Retry]
    <3>1. c.up /\ Due(c.timer) = Retry
      BY <1>1, <1>3, LicensingAssumption DEF Controller, Due, NoTimer
    <3>2. controller' = [controller EXCEPT ![p] = c]
      BY <1>1, <1>7, <1>10, <2>4 DEF Ended, NextRun
    <3>3. ASSUME lease.key # Null PROVE InTime(lease.left, licensor.online, licensor.since, Due(c.timer))
      <4>1. InTime(lease.left, licensor.online, licensor.since, Due(controller[p].timer))
        BY <1>3, <3>3 DEF PaidInv, LeaseIsRenewed, Renewable
      <4>2. Due(controller[p].timer) = 0
        BY <1>3 DEF Due
      <4>3. licensor.online => licensor.since = 0
        BY <1>4, <1>10
      <4>4. lease.left \in Int /\ licensor.since \in Nat
        BY <1>1, Numbers
      <4>5. InTime(lease.left, licensor.online, licensor.since, Retry)
        BY <4>1, <4>2, <4>3, <4>4, RetriesInTime
      <4> QED
        BY <3>1, <4>5
    <3> HIDE DEF c
    <3>4. LeaseIsRenewed'
      BY <1>1, <1>6, <2>1, <3>1, <3>2, <3>3, OneController DEF PaidInv
    <3> QED
      BY <1>8, <2>2, <3>4 DEF PaidInv
  <2> QED
    BY <2>3, <2>4
<1> QED
  BY <1>4, <1>9, <1>10

\* The administrator's requests.
LEMMA AdminKeepsPaid ==
  ASSUME OutagesAreBridged, IInv, IInv', PaidInv, NEW a \in Admin, AdminStep(a) \/ AdminStarts(a)
  PROVE  PaidInv'
<1>1. TypeOK /\ TypeOK' /\ a \in Requester /\ a \notin Server /\ request \in [Requester -> Request]
  BY LicensingAssumption DEF IInv, TypeOK, Requester
<1>2. GoodCall(request[a], licensor.online, licensor.since)
  BY <1>1 DEF PaidInv, CallsAreGood
<1>3. HostOf[a] # Null /\ HostOf[a] \in Server
  BY LicensingAssumption DEF OutagesAreBridged
\* A step that gives only this request another state, and leaves the controllers alone.
<1>4. ASSUME NEW r, request' = [request EXCEPT ![a] = r], UNCHANGED <<licenseKey, controller, licensor>>,
             GoodCall(r, licensor.online, licensor.since)
      PROVE  /\ CallsAreGood' /\ KeyIsThere' /\ WorldIsCalm'
             /\ \A x \in Requester : request'[x] = IF x = a THEN r ELSE request[x]
  <2>1. \A x \in Requester : request'[x] = IF x = a THEN r ELSE request[x]
    BY <1>1, <1>4
  <2>2. CallsAreGood'
    BY <1>1, <1>4, OneCall DEF PaidInv
  <2>3. KeyIsThere'
    BY <1>1, <1>4, <2>1 DEF PaidInv, KeyIsThere, Running, Requester
  <2> QED
    BY <1>4, <2>1, <2>2, <2>3 DEF PaidInv, WorldIsCalm
<1>5. CASE SaveLease(a)
  <2> DEFINE r == [request[a] EXCEPT !.phase = "saved"]
  <2>1. r.phase = "saved" /\ r.key = request[a].key /\ r.for = request[a].for
    BY <1>1 DEF Request
  <2>2. GoodCall(r, licensor.online, licensor.since) /\ request[a].key \in Key
    BY <1>2, <1>5, <2>1 DEF GoodCall, SaveLease, AnsweredTo
  <2>3. request' = [request EXCEPT ![a] = r] /\ UNCHANGED <<licenseKey, controller, licensor>>
    BY <1>5 DEF SaveLease
  <2> HIDE DEF r
  <2>4. /\ CallsAreGood' /\ KeyIsThere' /\ WorldIsCalm'
        /\ \A x \in Requester : request'[x] = IF x = a THEN r ELSE request[x]
    BY <1>4, <2>2, <2>3
  <2>5. lease'.left = Life /\ lease'.age = 0
    BY <1>5 DEF SaveLease, NewLease
  <2>6. KeyComes' /\ LeaseAges'
    BY <1>1, <2>1, <2>4, <2>5, LicensingAssumption DEF KeyComes, LeaseAges
  <2>7. controller'[HostOf[a]].up
    BY <1>3, <1>5, <2>3 DEF SaveLease, AnsweredTo, MayRun, AtAwait
  <2>8. LeaseIsRenewed'
    BY <1>1, <1>3, <2>5, <2>7, RenewalIsInTime
  <2> QED
    BY <2>4, <2>6, <2>8 DEF PaidInv
<1>6. CASE StoreKey(a)
  <2> DEFINE p == HostOf[a]
             k == request[a].key
  <2>1. k \in Key /\ licenseKey' = k /\ Wake(a, k) /\ UNCHANGED <<lease, licensor>> /\ request[a].phase # "none"
    BY <1>2, <1>6 DEF StoreKey, AnsweredTo, GoodCall
  <2>2. k # Null /\ licenseKey' # Null
    BY <2>1, LicensingAssumption
  <2>3. controller[p] \in Controller /\ controller[p].up
    BY <1>1, <1>3, <2>1 DEF TypeOK, IInv, HostsAreUp
  <2>4. PICK c, r : /\ controller' = [controller EXCEPT ![p] = c] /\ c.up
                    /\ c.timer \in {NoTimer, Refreshing(controller[p], k).timer}
                    /\ r \in {request[p], Refresh(k)}
                    /\ request' = [request EXCEPT ![a] = NoRequest, ![p] = r]
    <3>1. CASE Running(p)
      <4> DEFINE c == [controller[p] EXCEPT !.timer = NoTimer, !.refreshPending = TRUE]
      <4>1. c.up /\ c.timer = NoTimer
        BY <2>3 DEF Controller
      <4>2. controller' = [controller EXCEPT ![p] = c]
        <5>1. controller' = [controller EXCEPT ![p].timer = NoTimer, ![p].refreshPending = TRUE]
          BY <1>3, <2>1, <3>1 DEF Wake
        <5> QED
          BY <1>1, <1>3, <5>1 DEF TypeOK
      <4>3. request' = [request EXCEPT ![a] = NoRequest, ![p] = request[p]]
        BY <1>1, <1>3, <2>1, <3>1 DEF Wake, Requester
      <4> HIDE DEF c
      <4> QED
        BY <4>1, <4>2, <4>3
    <3>2. CASE ~Running(p)
      <4>1. Refreshing(controller[p], k).up
        BY <2>3 DEF Controller, Refreshing
      <4> QED
        BY <1>3, <2>1, <3>2, <4>1 DEF Wake
    <3> QED
      BY <3>1, <3>2
  <2>5. \A x \in Requester : request'[x] = IF x = a THEN NoRequest ELSE IF x = p THEN r ELSE request[x]
    BY <1>1, <1>3, <2>4 DEF Requester
  <2>6. GoodCall(r, licensor.online, licensor.since) /\ GoodCall(NoRequest, licensor.online, licensor.since)
    BY <1>3, <2>1, <2>4, RefreshIsGood DEF PaidInv, CallsAreGood, Requester
  <2>7. CallsAreGood'
    <3>1. \A x \in Requester : GoodCall(request'[x], licensor.online, licensor.since)
      BY <2>5, <2>6 DEF PaidInv, CallsAreGood
    <3> QED
      BY <2>1, <3>1 DEF CallsAreGood
  <2>8. KeyIsThere' /\ WorldIsCalm' /\ KeyComes' /\ LeaseAges'
    BY <2>1, <2>2 DEF PaidInv, KeyIsThere, WorldIsCalm, KeyComes, LeaseAges
  <2>9. LeaseIsRenewed'
    <3>1. ASSUME lease.key # Null PROVE InTime(lease.left, licensor.online, licensor.since, Due(c.timer))
      <4>1. InTime(lease.left, licensor.online, licensor.since, Due(Refreshing(controller[p], k).timer))
        BY <1>1, <2>1, <2>2, <2>3, <3>1, RefreshingInTime
      <4>2. Refreshing(controller[p], k).timer = NoTimer
        BY <2>2, <2>3 DEF Refreshing, Controller
      <4> QED
        BY <2>4, <4>1, <4>2
    <3> QED
      BY <1>1, <1>3, <2>1, <2>4, <3>1, OneController DEF PaidInv
  <2> QED
    BY <2>7, <2>8, <2>9 DEF PaidInv
<1>7. ASSUME NEW k \in Key, Activate(a, k) PROVE PaidInv'
  <2> DEFINE r == Asking("validate", "activate", k)
  <2>1. GoodCall(r, licensor.online, licensor.since) /\ request[a].phase # "saved"
    BY <1>7 DEF GoodCall, Asking, Activate
  <2>2. request' = [request EXCEPT ![a] = r] /\ UNCHANGED <<licenseKey, lease, controller, licensor>>
    BY <1>7 DEF Activate
  <2> HIDE DEF r
  <2>3. /\ CallsAreGood' /\ KeyIsThere' /\ WorldIsCalm'
        /\ \A x \in Requester : request'[x] = IF x = a THEN r ELSE request[x]
    BY <1>4, <2>1, <2>2
  <2>4. KeyComes' /\ LeaseAges' /\ LeaseIsRenewed'
    BY <2>1, <2>2, <2>3 DEF PaidInv, KeyComes, LeaseAges, LeaseIsRenewed, Renewable, Requester
  <2> QED
    BY <2>3, <2>4 DEF PaidInv
<1>8. CASE Rejected(a) \/ RemoveKey(a) \/ ClearLease(a) \/ AdminFails(a) \/ Deactivate(a)
  BY <1>2, <1>3, <1>8 DEF Rejected, RemoveKey, ClearLease, AdminFails, Deactivate, AnsweredTo, GoodCall, OutagesAreBridged
<1> QED
  BY <1>5, <1>6, <1>7, <1>8 DEF AdminStep, AdminStarts

\* The license server answers.
LEMMA AnswerKeepsPaid ==
  ASSUME OutagesAreBridged, IInv, PaidInv, NEW x \in Requester, ServerStep(x) PROVE PaidInv'
<1>1. TypeOK /\ request \in [Requester -> Request] /\ GoodCall(request[x], licensor.online, licensor.since)
  BY DEF IInv, TypeOK, PaidInv, CallsAreGood
<1>2. request[x].phase = "validate" /\ request[x].key \in Key /\ UNCHANGED <<licenseKey, lease, controller, licensor>>
  BY <1>1 DEF ServerStep, Validate, Release, Unreachable, GoodCall
<1>3. PICK answer \in {"lease", "outage"} : Answered(x, answer) /\ (answer = "outage" => ~licensor.online)
  BY <1>2 DEF ServerStep, Validate, Release, Unreachable, Granted, PaidInv, WorldIsCalm, OutagesAreBridged
<1> DEFINE r == [request[x] EXCEPT !.phase = "answered", !.answer = answer]
<1>4. r.phase = "answered" /\ r.answer = answer /\ r.key = request[x].key /\ r.for = request[x].for
  BY <1>1 DEF Request
<1>5. GoodCall(r, licensor.online, licensor.since)
  BY <1>1, <1>2, <1>3, <1>4 DEF GoodCall
<1>6. request' = [request EXCEPT ![x] = r]
  BY <1>1, <1>3 DEF Answered
<1> HIDE DEF r
<1>7. \A y \in Requester : request'[y] = IF y = x THEN r ELSE request[y]
  BY <1>1, <1>6
<1>8. CallsAreGood'
  BY <1>1, <1>2, <1>5, <1>6, OneCall DEF PaidInv
<1>9. KeyIsThere' /\ KeyComes'
  BY <1>2, <1>7 DEF PaidInv, KeyIsThere, KeyComes, Running, Requester
<1>10. WorldIsCalm' /\ LeaseAges' /\ LeaseIsRenewed'
  BY <1>2 DEF PaidInv, WorldIsCalm, LeaseAges, LeaseIsRenewed, Renewable
<1> QED
  BY <1>8, <1>9, <1>10 DEF PaidInv

\* An outage begins or ends.
LEMMA OutageKeepsPaid ==
  ASSUME OutagesAreBridged, IInv, PaidInv, OutageBegins \/ OutageEnds PROVE PaidInv'
<1>1. TypeOK /\ licensor \in LicenseServer /\ UNCHANGED <<licenseKey, lease, controller, request>>
  BY DEF IInv, TypeOK, OutageBegins, OutageEnds
<1>2. /\ licensor'.active = licensor.active /\ licensor'.since = 0
      /\ licensor'.online = ~licensor.online
      /\ licensor.online => licensor.since >= MinCalm
  BY <1>1 DEF OutageBegins, OutageEnds, LicenseServer
<1>3. CallsAreGood'
  <2>1. \A x \in Requester : GoodCall(request[x], licensor'.online, licensor'.since)
    BY <1>2 DEF PaidInv, CallsAreGood, GoodCall
  <2> QED
    BY <1>1, <2>1 DEF CallsAreGood
<1>4. KeyIsThere' /\ KeyComes' /\ LeaseAges'
  BY <1>1 DEF PaidInv, KeyIsThere, KeyComes, LeaseAges, Running
<1>5. WorldIsCalm'
  BY <1>2, LicensingAssumption DEF PaidInv, WorldIsCalm
<1>6. ASSUME NEW p \in Server, InTime(lease.left, licensor.online, licensor.since, Due(controller[p].timer))
      PROVE  InTime(lease.left, licensor'.online, licensor'.since, Due(controller[p].timer))
  <2>1. /\ lease.left \in Int /\ licensor.since \in Nat /\ Due(controller[p].timer) \in Nat
        /\ licensor.online \in BOOLEAN
    BY <1>1, Numbers, LicensingAssumption
  <2>2. CASE licensor.online
    <3>1. licensor.online = TRUE /\ licensor'.online = FALSE
      BY <1>2, <2>1, <2>2
    <3> QED
      BY <1>2, <1>6, <2>1, <2>2, <3>1, OutageBeginsInTime
  <2>3. CASE ~licensor.online
    <3>1. licensor.online = FALSE /\ licensor'.online = TRUE /\ licensor.since <= MaxOutage
      BY <1>2, <2>1, <2>3 DEF PaidInv, WorldIsCalm
    <3> QED
      BY <1>2, <1>6, <2>1, <3>1, OutageEndsInTime
  <2> QED
    BY <2>2, <2>3
<1>7. LeaseIsRenewed'
  BY <1>1, <1>6 DEF PaidInv, LeaseIsRenewed, Renewable
<1> QED
  BY <1>3, <1>4, <1>5, <1>7 DEF PaidInv

\* Who has a lease is up in time.
LEMMA PaidIsLicensed ==
  ASSUME OutagesAreBridged, TypeOK, PaidInv PROVE lease.key # Null => lease.left > -Grace
<1> SUFFICES ASSUME lease.key # Null PROVE lease.left > -Grace
  OBVIOUS
<1>1. PICK q \in Server : InTime(lease.left, licensor.online, licensor.since, Due(controller[q].timer))
  BY DEF PaidInv, LeaseIsRenewed, Renewable
<1>2. lease.left \in Int /\ licensor.since \in Nat /\ Due(controller[q].timer) \in Nat
  BY Numbers, LicensingAssumption
<1>3. ~licensor.online => licensor.since <= MaxOutage
  BY DEF PaidInv, WorldIsCalm
<1> QED
  BY <1>1, <1>2, <1>3, InTimeIsPaid

\* Time passes.
LEMMA ElapseKeepsPaid == ASSUME OutagesAreBridged, IInv, PaidInv, Elapse PROVE PaidInv'
<1>1. TypeOK /\ lease \in Lease /\ licensor \in LicenseServer /\ UNCHANGED <<licenseKey, request>>
  BY DEF IInv, TypeOK, Elapse
<1>2. \A x \in Requester : request[x].phase = "none"
  BY DEF Elapse
<1>3. /\ lease'.key = lease.key
      /\ lease'.left = IF lease.left > -Grace THEN lease.left - 1 ELSE lease.left
      /\ lease'.age = IF lease.age < Interval THEN lease.age + 1 ELSE lease.age
  BY <1>1 DEF Elapse, Lease
<1>4. /\ licensor'.active = licensor.active /\ licensor'.online = licensor.online
      /\ licensor'.since = IF licensor.since < Longest THEN licensor.since + 1 ELSE licensor.since
      /\ ~licensor.online => licensor.since < MaxOutage
  BY <1>1 DEF Elapse, LicenseServer
<1>5. CallsAreGood' /\ KeyIsThere'
  BY <1>1, <1>2 DEF CallsAreGood, GoodCall, KeyIsThere, Running, Requester
<1>6. WorldIsCalm'
  <2>1. licensor.since \in Nat /\ MaxOutage \in Nat /\ Longest \in Nat
    BY <1>1, Numbers, LicensingAssumption DEF Longest
  <2> QED
    BY <1>4, <2>1 DEF PaidInv, WorldIsCalm
<1>7. KeyComes'
  BY <1>1, <1>2, <1>3 DEF PaidInv, KeyComes, Requester
<1>8. lease.key # Null => lease'.left = lease.left - 1
  BY <1>1, <1>3, PaidIsLicensed
<1>9. LeaseAges'
  <2>1. lease.left \in Int /\ lease.age \in Nat /\ Life \in Nat /\ Interval \in Nat
    BY <1>1, Numbers, LicensingAssumption
  <2> QED
    BY <1>3, <1>8, <2>1 DEF PaidInv, LeaseAges
<1>10. ASSUME NEW p \in Server
       PROVE  /\ controller'[p].up = controller[p].up
              /\ controller[p].up => /\ Due(controller[p].timer) # 0
                                     /\ Due(controller'[p].timer) = Due(controller[p].timer) - 1
  <2> DEFINE c == controller[p]
             n == IF c.timer = NoTimer THEN c.timer ELSE c.timer - 1
  <2>1. c \in Controller /\ c.timer # 0
    BY <1>1 DEF TypeOK, Elapse
  <2>2. c.up => c.timer # NoTimer
    <3>1. Sound(c, request[p])
      BY SoundEverywhere DEF IInv
    <3> QED
      BY <1>2, <3>1 DEF Sound, Requester
  <2>3. controller'[p] = [c EXCEPT !.timer = n]
    BY DEF Elapse
  <2>4. c.timer # NoTimer => n \in Nat /\ n = c.timer - 1
    BY <2>1 DEF Controller, NoTimer
  <2> HIDE DEF n, c
  <2>5. controller'[p].up = c.up /\ controller'[p].timer = n
    BY <2>1, <2>3 DEF Controller
  <2>6. c.up => Due(c.timer) # 0 /\ Due(controller'[p].timer) = Due(c.timer) - 1
    BY <2>1, <2>2, <2>4, <2>5 DEF Due, NoTimer
  <2> QED
    BY <2>5, <2>6 DEF c
<1>11. ASSUME lease.key # Null, NEW p \in Server, controller'[p].up
       PROVE  InTime(lease'.left, licensor'.online, licensor'.since, Due(controller'[p].timer))
  <2>1. controller[p].up /\ Due(controller[p].timer) # 0 /\ Due(controller'[p].timer) = Due(controller[p].timer) - 1
    BY <1>10, <1>11
  <2>2. InTime(lease.left, licensor.online, licensor.since, Due(controller[p].timer))
    BY <1>11, <2>1 DEF PaidInv, LeaseIsRenewed, Renewable
  <2>3. lease.left \in Int /\ licensor.since \in Nat /\ Due(controller[p].timer) \in Nat
    BY <1>1, Numbers, LicensingAssumption
  <2>4. InTime(lease.left - 1, licensor.online, IF licensor.since < Longest THEN licensor.since + 1 ELSE licensor.since,
               Due(controller[p].timer) - 1)
    BY <1>4, <2>1, <2>2, <2>3, TimePassesInTime
  <2> QED
    BY <1>4, <1>8, <1>11, <2>1, <2>4
<1>12. LeaseIsRenewed'
  BY <1>3, <1>10, <1>11 DEF PaidInv, LeaseIsRenewed, Renewable
<1> QED
  BY <1>5, <1>6, <1>7, <1>9, <1>12 DEF PaidInv

LEMMA PaidStaysSound == ASSUME OutagesAreBridged, IInv, PaidInv, [Next]_vars PROVE PaidInv'
<1>1. IInv'
  BY NextIsSound
<1>2. ASSUME NEW p \in Server, Start(p) \/ ControllerStep(p) \/ Crash(p) PROVE PaidInv'
  <2>1. ~Crash(p)
    BY DEF Crash, OutagesAreBridged
  <2> QED
    BY <1>1, <1>2, <2>1, StartKeepsPaid, TimerKeepsPaid, RunKeepsPaid DEF ControllerStep
<1>3. ASSUME NEW a \in Admin, AdminStep(a) \/ AdminStarts(a) PROVE PaidInv'
  BY <1>1, <1>3, AdminKeepsPaid
<1>4. ASSUME NEW x \in Requester, ServerStep(x) PROVE PaidInv'
  BY <1>4, AnswerKeepsPaid
<1>5. ASSUME NEW k \in Key, Elsewhere(k) PROVE FALSE
  BY <1>5 DEF Elsewhere, OutagesAreBridged
<1>6. CASE UNCHANGED vars
  BY <1>6 DEF vars, PaidInv, CallsAreGood, KeyIsThere, WorldIsCalm, KeyComes, LeaseAges, LeaseIsRenewed, Renewable, Running
<1> QED
  BY <1>2, <1>3, <1>4, <1>5, <1>6, OutageKeepsPaid, ElapseKeepsPaid DEF Next

\* A lease is never taken away.
LEMMA LeaseStays == ASSUME OutagesAreBridged, IInv, PaidInv, [Next]_vars, lease.key # Null PROVE lease'.key # Null
<1>1. \A x \in Requester : GoodCall(request[x], licensor.online, licensor.since)
  BY DEF PaidInv, CallsAreGood
<1>2. lease \in Lease /\ Null \notin Key
  BY LicensingAssumption DEF IInv, TypeOK
<1>3. ASSUME NEW p \in Server, Start(p) \/ ControllerStep(p) \/ Crash(p) PROVE lease'.key # Null
  <2>1. CASE RunEnds(p)
    <3>1. request[p].key \in Key
      BY <1>1, <2>1 DEF RunEnds, GoodCall, Requester
    <3> QED
      BY <1>2, <2>1, <3>1 DEF RunEnds, NewLease
  <2> QED
    BY <1>3, <2>1 DEF Start, ControllerStep, TimerFires, Crash
<1>4. ASSUME NEW a \in Admin, AdminStep(a) \/ AdminStarts(a) PROVE lease'.key # Null
  <2>1. GoodCall(request[a], licensor.online, licensor.since)
    BY <1>1 DEF Requester
  <2>2. CASE SaveLease(a)
    BY <1>2, <2>1, <2>2 DEF SaveLease, AnsweredTo, NewLease, GoodCall
  <2>3. ~ClearLease(a)
    BY <2>1 DEF ClearLease, GoodCall
  <2> QED
    BY <1>4, <2>2, <2>3 DEF AdminStep, AdminStarts, StoreKey, Rejected, RemoveKey, AdminFails, Activate, Deactivate
<1>5. ASSUME NEW x \in Requester, ServerStep(x) PROVE lease'.key # Null
  BY <1>5 DEF ServerStep, Validate, Release, Unreachable
<1>6. CASE (\E k \in Key : Elsewhere(k)) \/ OutageBegins \/ OutageEnds
  BY <1>6 DEF Elsewhere, OutageBegins, OutageEnds
<1>7. CASE Elapse
  BY <1>2, <1>7 DEF Elapse, Lease
<1>8. CASE UNCHANGED vars
  BY <1>8 DEF vars
<1> QED
  BY <1>3, <1>4, <1>5, <1>6, <1>7, <1>8 DEF Next

LEMMA PaidStartsSound == ASSUME Init PROVE PaidInv
<1>1. \A x \in Requester : request[x].phase = "none"
  BY DEF Init, NoRequest
<1>2. lease.key = Null /\ licensor.active = Key /\ licensor.online
  BY DEF Init, NoLease
<1> QED
  BY <1>1, <1>2 DEF PaidInv, CallsAreGood, GoodCall, KeyIsThere, WorldIsCalm, KeyComes, LeaseAges, LeaseIsRenewed,
                    Running, Requester

\* However many servers and administrators there are and whatever the times are, as long as
\* they add up (OutagesAreBridged): a lease that a server renews outlasts every outage of the
\* license server, so that the paid limits are not lost (entitlements.ts, refresher.ts).
THEOREM PaidLimitsAreKept == ASSUME OutagesAreBridged PROVE Spec => PaidLimitsStay
<1>1. Init => PaidInv
  BY PaidStartsSound
<1>2. IInv /\ PaidInv /\ [Next]_vars => PaidInv'
  BY PaidStaysSound
<1>3. IInv /\ IInv' /\ PaidInv /\ PaidInv' /\ [Next]_vars => [Licensed => Licensed']_vars
  <2> SUFFICES ASSUME IInv, IInv', PaidInv, PaidInv', [Next]_vars, Licensed PROVE Licensed'
    OBVIOUS
  <2>1. lease'.key # Null
    BY LeaseStays DEF Licensed
  <2>2. (lease.key # Null => lease.left > -Grace)'
    <3>1. TypeOK'
      BY DEF IInv
    <3>2. PICK q \in Server : InTime(lease'.left, licensor'.online, licensor'.since, Due(controller'[q].timer))
      BY <2>1 DEF PaidInv, LeaseIsRenewed, Renewable
    <3>3. lease'.left \in Int /\ licensor'.since \in Nat /\ Due(controller'[q].timer) \in Nat
      <4>1. Longest \in Nat /\ Due(controller'[q].timer) \in 0..Interval
        BY <3>1, DueIsTyped, LicensingAssumption DEF TypeOK, Longest
      <4> QED
        BY <3>1, <4>1, LicensingAssumption DEF TypeOK, Lease, LicenseServer
    <3>4. ~licensor'.online => licensor'.since <= MaxOutage
      BY DEF PaidInv, WorldIsCalm
    <3> QED
      BY <3>2, <3>3, <3>4, InTimeIsPaid
  <2> QED
    BY <2>1, <2>2 DEF Licensed
<1>4. Spec => []IInv
  BY AlwaysSound
<1> QED
  BY <1>1, <1>2, <1>3, <1>4, PTL DEF Spec, PaidLimitsStay
=============================================================================
