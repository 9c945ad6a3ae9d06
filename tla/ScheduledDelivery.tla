-------------------------- MODULE ScheduledDelivery --------------------------
(***************************************************************************)
(* What scheduling a send promises its user, whatever processes, claims    *)
(* and retries are behind it: a message goes out at most once, not before  *)
(* its time and not after it was canceled, and the outcome recorded is the *)
(* one that happened.                                                      *)
(***************************************************************************)
EXTENDS Naturals

CONSTANT Schedule

VARIABLES
  promise,  \* what the user can read of each schedule
  due,      \* the schedules whose time has come
  out       \* how often the message of each schedule went out

pvars == <<promise, due, out>>

Init ==
  /\ promise = [s \in Schedule |-> "none"]
  /\ due = {}
  /\ out = [s \in Schedule |-> 0]

Settle(s, outcome) ==
  /\ promise[s] = "waiting"
  /\ promise' = [promise EXCEPT ![s] = outcome]
  /\ UNCHANGED <<due, out>>

\* A send may be scheduled for right now.
Accept(s) ==
  /\ promise[s] = "none"
  /\ promise' = [promise EXCEPT ![s] = "waiting"]
  /\ due' \in {due, due \cup {s}}
  /\ UNCHANGED out

ComeDue == /\ due \subseteq due' /\ due' \subseteq Schedule
           /\ UNCHANGED <<promise, out>>

Deliver(s) ==
  /\ promise[s] = "waiting" /\ s \in due /\ out[s] = 0
  /\ out' = [out EXCEPT ![s] = 1]
  /\ UNCHANGED <<promise, due>>

RecordSent(s) == out[s] = 1 /\ Settle(s, "sent")
RecordFailed(s) == out[s] = 0 /\ Settle(s, "failed")
Cancel(s) == out[s] = 0 /\ Settle(s, "canceled")

\* Nothing is promised any more for a mailbox that is disconnected.
Withdraw(S) ==
  /\ \A s \in S : promise[s] # "none"
  /\ promise' = [s \in Schedule |-> IF s \in S THEN "deleted" ELSE promise[s]]
  /\ due' = due \ S
  /\ out' = [s \in Schedule |-> IF s \in S THEN 0 ELSE out[s]]

Next ==
  \/ \E s \in Schedule : \/ Accept(s) \/ Deliver(s) \/ RecordSent(s)
                         \/ RecordFailed(s) \/ Cancel(s)
  \/ ComeDue
  \/ \E S \in SUBSET Schedule : Withdraw(S)

Spec == Init /\ [][Next]_pvars
=============================================================================
