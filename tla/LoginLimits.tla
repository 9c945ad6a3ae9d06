----------------------------- MODULE LoginLimits -----------------------------
(***************************************************************************)
(* The limits on password logins (auth.ts): every attempt is counted for   *)
(* its email and for the address it comes from before the password is      *)
(* verified, and taken back when the password is right.  Attempts overlap, *)
(* and a window may end while one of them is being verified.  The attempts *)
(* of one address are modelled.                                            *)
(***************************************************************************)
EXTENDS Naturals, FiniteSets

CONSTANTS
  Attempt,     \* login requests
  Email,       \* the emails they give
  EmailLimit,  \* 5 attempts
  AddressLimit, \* 30 attempts
  Window,      \* RATE_WINDOW_MS
  MaxNow       \* bound: the clock

ASSUME LoginLimitsAssumption ==
  /\ EmailLimit \in Nat \ {0} /\ AddressLimit \in Nat \ {0}
  /\ Window \in Nat \ {0} /\ MaxNow \in Nat /\ Email # {}

VARIABLES
  now,
  emailCount, emailSince,     \* auth_rate_limits by email: no row counts 0
  addressCount, addressSince, \* the row of the address
  attempt,                    \* "idle" or "verifying", of each attempt
  attemptEmail,               \* what it gives
  reserved,                   \* the window of the address it was counted in
  failed                      \* history: attempts of the address's row that failed

loginVars == <<now, emailCount, emailSince, addressCount, addressSince,
               attempt, attemptEmail, reserved, failed>>

LoginLimitsTypeOK ==
  /\ now \in 0..MaxNow
  /\ emailCount \in [Email -> 0..EmailLimit] /\ emailSince \in [Email -> 0..MaxNow]
  /\ addressCount \in 0..AddressLimit /\ addressSince \in 0..MaxNow
  /\ attempt \in [Attempt -> {"idle", "verifying"}]
  /\ attemptEmail \in [Attempt -> Email] /\ reserved \in [Attempt -> 0..MaxNow]
  /\ failed \in Nat

LoginLimitsInit ==
  /\ now = 0
  /\ emailCount = [e \in Email |-> 0] /\ emailSince = [e \in Email |-> 0]
  /\ addressCount = 0 /\ addressSince = 0
  /\ attempt = [a \in Attempt |-> "idle"]
  /\ attemptEmail = [a \in Attempt |-> CHOOSE e \in Email : TRUE] /\ reserved = [a \in Attempt |-> 0]
  /\ failed = 0

-----------------------------------------------------------------------------
Over(since) == since + Window <= now
\* The counts once the rows whose window is over have been deleted.
EmailNow(e) == IF Over(emailSince[e]) THEN 0 ELSE emailCount[e]
AddressNow == IF Over(addressSince) THEN 0 ELSE addressCount

Limited(e) == EmailNow(e) >= EmailLimit \/ AddressNow >= AddressLimit

\* reserveLoginAttempt: counted in the row that is there, or in a new one.
Reserve(a, e) ==
  /\ attempt[a] = "idle" /\ ~Limited(e)
  /\ emailCount' = [f \in Email |-> EmailNow(f) + (IF f = e THEN 1 ELSE 0)]
  /\ emailSince' = [emailSince EXCEPT ![e] = IF EmailNow(e) = 0 THEN now ELSE @]
  /\ addressCount' = AddressNow + 1
  /\ addressSince' = IF AddressNow = 0 THEN now ELSE addressSince
  /\ failed' = IF AddressNow = 0 THEN 0 ELSE failed
  /\ attempt' = [attempt EXCEPT ![a] = "verifying"]
  /\ attemptEmail' = [attemptEmail EXCEPT ![a] = e]
  /\ reserved' = [reserved EXCEPT ![a] = addressSince']
  /\ UNCHANGED now

\* The rows whose window is over are deleted even so.
RefuseLogin(a, e) ==
  /\ attempt[a] = "idle" /\ Limited(e)
  /\ emailCount' = [f \in Email |-> EmailNow(f)]
  /\ addressCount' = AddressNow
  /\ failed' = IF AddressNow = 0 THEN 0 ELSE failed
  /\ UNCHANGED <<now, emailSince, addressSince, attempt, attemptEmail, reserved>>

\* Mutant: whatever row there is.
AnyRow(a) == addressCount > 0
\* Whether the row of the address is the one the attempt was counted in.
StillCounted(a) == addressCount > 0 /\ addressSince = reserved[a]

\* The email's row is deleted, and releaseLoginAttempt takes the attempt back.
Succeed(a) ==
  /\ attempt[a] = "verifying"
  /\ attempt' = [attempt EXCEPT ![a] = "idle"]
  /\ emailCount' = [emailCount EXCEPT ![attemptEmail[a]] = 0]
  /\ addressCount' = IF StillCounted(a) THEN addressCount - 1 ELSE addressCount
  /\ UNCHANGED <<now, emailSince, addressSince, attemptEmail, reserved, failed>>

\* A wrong password, a member that may not log in, or a server that dies.
FailLogin(a) ==
  /\ attempt[a] = "verifying"
  /\ attempt' = [attempt EXCEPT ![a] = "idle"]
  /\ failed' = IF StillCounted(a) THEN failed + 1 ELSE failed
  /\ UNCHANGED <<now, emailCount, emailSince, addressCount, addressSince, attemptEmail, reserved>>

LoginTick ==
  /\ now < MaxNow
  /\ now' = now + 1
  /\ UNCHANGED <<emailCount, emailSince, addressCount, addressSince, attempt, attemptEmail,
                 reserved, failed>>

LoginLimitsNext ==
  \/ \E a \in Attempt :
       \/ \E e \in Email : Reserve(a, e) \/ RefuseLogin(a, e)
       \/ Succeed(a) \/ FailLogin(a)
  \/ LoginTick

LoginLimitsSpec == LoginLimitsInit /\ [][LoginLimitsNext]_loginVars

-----------------------------------------------------------------------------
InFlight == {a \in Attempt : attempt[a] = "verifying" /\ reserved[a] = addressSince}

\* What an address is charged is its failed attempts and those being verified in the same
\* window: a right password never takes back another's failure, nor an attempt that was
\* counted in an earlier window (releaseLoginAttempt compares windowStartedAt).
FailuresAreCounted == addressCount > 0 => addressCount = failed + Cardinality(InFlight)

\* No address is charged more or less than its failures, within the limits (auth.ts:136).
AttemptsAreCounted == LoginLimitsTypeOK /\ FailuresAreCounted
=============================================================================
