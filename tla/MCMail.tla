-------------------------------- MODULE MCMail --------------------------------
(* Instances of RestIdempotency and Credentials for TLC.  They share nothing: which *)
(* of them a behavior is about, machine says.                                       *)
EXTENDS MCRestIdempotency, Credentials

CONSTANTS v1, v2
\* Two provider objects in the first server, and one in any other.
Objects == [s \in Server |-> IF s = v1 THEN 2 ELSE 1]

VARIABLE machine
mailVars == <<vars, credVars, machine>>

MailInit ==
  /\ Init /\ CredentialsInit
  /\ machine \in {"idempotency", "credentials"}
  /\ machine # "credentials" =>
       revoked = {} /\ \A m \in Mailbox : kindOf[m] = "gmail" /\ stored[m].client = None
MailNext ==
  \/ machine = "idempotency" /\ Next /\ UNCHANGED <<credVars, machine>>
  \/ machine = "credentials" /\ CredentialsNext /\ UNCHANGED <<vars, machine>>
\* The machine that a behavior is not about is not enabled.
IdempotencyStep(A) == machine = "idempotency" /\ A /\ UNCHANGED <<credVars, machine>>
CredentialsStep(A) == machine = "credentials" /\ A /\ UNCHANGED <<vars, machine>>
MailSpec ==
  /\ MailInit /\ [][MailNext]_mailVars
  /\ \A c \in Call : WF_mailVars(IdempotencyStep(Serve(c)))
  /\ WF_mailVars(IdempotencyStep(Tick))
  /\ \A u \in Use : WF_mailVars(CredentialsStep(GetsOn(u)))
=============================================================================
