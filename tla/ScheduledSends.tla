--------------------------- MODULE ScheduledSends ---------------------------
(***************************************************************************)
(* The scheduled_sends table (storage/scheduledSends.ts): one action per   *)
(* statement the storage functions run.  SQLite serialises the statements  *)
(* of all the processes that share the store, so each one is one step.     *)
(*                                                                         *)
(* Times are kept as distances from now: sendAt counts down to 0 and on to *)
(* -Late (how long ago two overdue rows can still be told apart) and       *)
(* claimLeft, which is claimUntil - now, stops at 0.  A claim token is     *)
(* random in the code; a process dispatches one row at a time, so the      *)
(* token is represented by the process that drew it.                       *)
(***************************************************************************)
EXTENDS Integers

CONSTANTS
  Schedule,   \* ids of rows of scheduled_sends
  Draft,      \* provider drafts
  Account,    \* connected mailboxes
  AccountOf,  \* the mailbox a draft lives in
  Process,    \* long-lived processes (serve, stdio) sharing the store
  Null,       \* SQL NULL
  Lease,      \* CLAIM_LEASE_MS
  Horizon,    \* the furthest a send is scheduled ahead
  Late        \* overdue times further back than this are not told apart

ASSUME StoreAssumption ==
  /\ Null \notin Process \cup Draft
  /\ AccountOf \in [Draft -> Account]
  /\ Lease \in Nat \ {0}
  /\ Horizon \in Nat
  /\ Late \in Nat

VARIABLE rows

Active == {"pending", "sending"}
Finished == {"sent", "failed", "canceled"}

\* "none" is a row not inserted yet, "deleted" one removed with its account.
\* lastError keeps apart the text that says the draft is gone.
Row == [status    : {"none", "deleted"} \cup Active \cup Finished,
        draft     : Draft \cup {Null},
        sendAt    : (-Late)..Horizon,
        token     : Process \cup {Null},
        claimLeft : 0..Lease,
        lastError : {"none", "gone", "other"}]

NoRow == [status |-> "none", draft |-> Null, sendAt |-> 0, token |-> Null,
          claimLeft |-> 0, lastError |-> "none"]

StoreInit == rows = [r \in Schedule |-> NoRow]

Is(r, status) == rows[r].status = status
PendingFor(d) == {r \in Schedule : Is(r, "pending") /\ rows[r].draft = d}
ActiveRows == {r \in Schedule : rows[r].status \in Active}
\* Mutants: recovery of abandoned claims dropped; the lease not compared.
ClaimablePending(r) == Is(r, "pending")
ClaimableAnyLease(r) == Is(r, "pending") \/ Is(r, "sending")

Claimable(r) ==
  \/ Is(r, "pending")
  \/ Is(r, "sending") /\ rows[r].claimLeft = 0

-----------------------------------------------------------------------------
\* A new row, refused while the draft has a pending one.
createScheduledSend(r, d, t) ==
  /\ Is(r, "none")
  /\ PendingFor(d) = {}
  /\ rows' = [rows EXCEPT ![r] = [NoRow EXCEPT !.status = "pending",
                                               !.draft = d, !.sendAt = t]]

\* WHERE status = 'pending' OR (status = 'sending' AND claim_until <= now).
claimScheduledSend(r, p) ==
  /\ Claimable(r)
  /\ rows' = [rows EXCEPT ![r] = [@ EXCEPT !.status = "sending", !.token = p,
                                           !.claimLeft = Lease]]

\* UPDATE ... WHERE id = r AND claim_token = token; any other row is left alone.
UpdateClaim(r, p, row) ==
  rows' = IF rows[r].token = p THEN [rows EXCEPT ![r] = row] ELSE rows

Released(r, status, error) ==
  [rows[r] EXCEPT !.status = status, !.lastError = error,
                  !.token = Null, !.claimLeft = 0]

completeClaim(r, p) == UpdateClaim(r, p, Released(r, "sent", "none"))
\* Mutant: a missing draft taken for one that was sent.
failClaimAsSent(r, p, error) == UpdateClaim(r, p, Released(r, "sent", error))
failClaim(r, p, error) == UpdateClaim(r, p, Released(r, "failed", error))
retryClaim(r, p) == UpdateClaim(r, p, Released(r, "pending", "other"))

\* markSent matches the id alone and leaves the claim columns as they are.
markSent(r) ==
  rows' = IF Is(r, "deleted") THEN rows
          ELSE [rows EXCEPT ![r] = [@ EXCEPT !.status = "sent", !.lastError = "none"]]

\* The reason due rows are held, recorded on those that are still pending.
holdPending(R) ==
  rows' = [r \in Schedule |-> IF r \in R /\ Is(r, "pending")
                                THEN [rows[r] EXCEPT !.lastError = "other"]
                                ELSE rows[r]]

\* Mutant: a row that is being sent can be canceled too.
cancelActive(r) ==
  /\ rows[r].status \in Active
  /\ rows' = [rows EXCEPT ![r] = [@ EXCEPT !.status = "canceled"]]

cancelScheduledSend(r) ==
  /\ Is(r, "pending")
  /\ rows' = [rows EXCEPT ![r] = [@ EXCEPT !.status = "canceled"]]

\* scheduled_sends.account_id REFERENCES accounts ON DELETE CASCADE.
CascadeAccount(a) ==
  rows' = [r \in Schedule |->
             IF rows[r].draft # Null /\ AccountOf[rows[r].draft] = a
               THEN [NoRow EXCEPT !.status = "deleted"] ELSE rows[r]]

Dec(n, floor) == IF n > floor THEN n - 1 ELSE n

\* One unit of time as the rows see it.
RowsAge ==
  rows' = [r \in Schedule |->
             IF rows[r].draft = Null THEN rows[r]
             ELSE [rows[r] EXCEPT !.sendAt = Dec(@, -Late),
                                  !.claimLeft = Dec(@, 0)]]
=============================================================================
