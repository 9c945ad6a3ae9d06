------------------------------- MODULE Members -------------------------------
(***************************************************************************)
(* Who may use an instance (auth.ts, storage/members.ts, storage/apiKeys.ts *)
(* and the handlers of http/identity.ts and http/admin.ts around them):    *)
(* members and their passwords, one-time codes, sessions and API keys.     *)
(* Password hashes are awaited between what a request checks and what it   *)
(* writes.  A server handles the rest of a request in one step; a command  *)
(* on the instance host (setup, recover-admin) takes one step per          *)
(* statement, since the server runs meanwhile.                             *)
(***************************************************************************)
EXTENDS Naturals, FiniteSets

CONSTANTS
  Member,      \* members, each with the login email of its own
  Code,        \* enrollment and password reset codes
  Session,     \* sessions
  ApiKey,      \* API keys
  Request,     \* requests and commands
  Command,     \* those that are commands on the host
  Old,         \* members from before there were passwords, an administrator among them
  MaxMembers,  \* what the plan allows
  MayDie,      \* whether a process may die
  None

ASSUME MembersAssumption ==
  /\ Command \subseteq Request /\ Old \subseteq Member
  /\ MaxMembers \in Nat /\ MayDie \in BOOLEAN
  /\ None \notin Member \cup Code \cup Session \cup ApiKey

Status == {"absent", "pending", "active", "suspended"}
Role == {"admin", "member"}
Kind == {"enrollment", "password_reset"}

VARIABLES
  bootstrapped,    \* instance_settings.bootstrap_complete
  status, role,    \* members; no row is "absent"
  email,           \* whether the member has a login email
  password,        \* whether the member has a row in member_credentials
  codeOf, codeKind,     \* codes that still work, and whose they are
  sessionOf,       \* sessions that are neither revoked nor expired, and whose they are
  keyOf, keyAdmin, \* API keys, whose they are, and whether they have administrative capabilities
  at,              \* where a request is
  who,             \* the member it is about or acts as
  via,             \* the code or session it came with
  admin,           \* the authority it was given when it was authenticated
  noted,           \* what a command read: members (setup), an inactive one (recovery)
  spent            \* history: how often a code was redeemed

memberVars == <<status, role, email, password>>
codeVars == <<codeOf, codeKind, spent>>
keyVars == <<keyOf, keyAdmin>>
requestVars == <<at, who, via, admin, noted>>
membersData == <<bootstrapped, memberVars, codeVars, sessionOf, keyVars>>
membersVars == <<membersData, requestVars>>

Place == {"idle", "setup", "store", "activate", "mark", "open",
          "recover", "recoverStore", "recoverActivate", "recoverRevoke", "recoverMark",
          "verify", "redeem", "change", "act"}

MembersTypeOK ==
  /\ bootstrapped \in BOOLEAN
  /\ status \in [Member -> Status] /\ role \in [Member -> Role]
  /\ email \in [Member -> BOOLEAN] /\ password \in [Member -> BOOLEAN]
  /\ codeOf \in [Code -> Member \cup {None}] /\ codeKind \in [Code -> Kind]
  /\ spent \in [Code -> 0..2]
  /\ sessionOf \in [Session -> Member \cup {None}]
  /\ keyOf \in [ApiKey -> Member \cup {None}] /\ keyAdmin \in [ApiKey -> BOOLEAN]
  /\ at \in [Request -> Place] /\ who \in [Request -> Member \cup {None}]
  /\ via \in [Request -> Code \cup Session \cup {None}]
  /\ admin \in [Request -> BOOLEAN] /\ noted \in [Request -> BOOLEAN]
  /\ \A q \in Request : /\ at[q] # "idle" => who[q] \in Member
                        /\ at[q] = "redeem" => via[q] \in Code

\* A new instance, or one whose members have no passwords yet.
MembersInit ==
  /\ bootstrapped = FALSE
  /\ \/ /\ status = [m \in Member |-> "absent"]
        /\ role = [m \in Member |-> "member"]
     \/ /\ status = [m \in Member |-> IF m \in Old THEN "pending" ELSE "absent"]
        /\ \E first \in Old : role = [m \in Member |-> IF m = first THEN "admin" ELSE "member"]
  /\ email = [m \in Member |-> FALSE]
  /\ password = [m \in Member |-> FALSE]
  /\ codeOf = [c \in Code |-> None] /\ codeKind = [c \in Code |-> "enrollment"]
  /\ spent = [c \in Code |-> 0]
  /\ sessionOf = [s \in Session |-> None]
  /\ keyOf = [k \in ApiKey |-> None] /\ keyAdmin = [k \in ApiKey |-> FALSE]
  /\ at = [q \in Request |-> "idle"] /\ who = [q \in Request |-> None]
  /\ via = [q \in Request |-> None] /\ admin = [q \in Request |-> FALSE]
  /\ noted = [q \in Request |-> FALSE]

-----------------------------------------------------------------------------
(* What the functions of members.ts, auth.ts and apiKeys.ts read and write. *)

Exists(m) == status[m] # "absent"
Count == Cardinality({m \in Member : Exists(m)})
\* assertMemberLimit.
WithinPlan(n) == n < MaxMembers
ActiveAdmins == {m \in Member : role[m] = "admin" /\ status[m] = "active"}
\* Mutant: it is not asked which administrator that is.
AnAdminIsThere(m) == ActiveAdmins # {}
\* assertNotLastActiveAdmin.
NotLastAdmin(m) == ActiveAdmins # {m}

Moves(q, place) == at' = [at EXCEPT ![q] = place]
Begins(q, place, m, thing, note) ==
  /\ at[q] = "idle"
  /\ Moves(q, place)
  /\ who' = [who EXCEPT ![q] = m] /\ via' = [via EXCEPT ![q] = thing]
  /\ noted' = [noted EXCEPT ![q] = note]
  /\ UNCHANGED admin
Stays(q) == UNCHANGED <<who, via, admin, noted>>
\* A request is over.
Ends(q) ==
  /\ Moves(q, "idle")
  /\ who' = [who EXCEPT ![q] = None] /\ via' = [via EXCEPT ![q] = None]
  /\ admin' = [admin EXCEPT ![q] = FALSE] /\ noted' = [noted EXCEPT ![q] = FALSE]

SetPassword(m) == password' = [password EXCEPT ![m] = TRUE]
SetStatus(m, s) == status' = [status EXCEPT ![m] = s]

\* issueSession for a member that is active.  Ids are random: a new session is none
\* that a request still holds.
Unheld(t) == \A q \in Request : via[q] # t
OpensSession(s, m) ==
  /\ sessionOf[s] = None /\ Unheld(s)
  /\ sessionOf' = [sessionOf EXCEPT ![s] = m]
Revokes(S) == sessionOf' = [s \in Session |-> IF s \in S THEN None ELSE sessionOf[s]]
SessionsOf(m) == {s \in Session : sessionOf[s] = m}
DeletesKeys(K) ==
  /\ keyOf' = [k \in ApiKey |-> IF k \in K THEN None ELSE keyOf[k]]
  /\ UNCHANGED keyAdmin
KeysOf(m) == {k \in ApiKey : keyOf[k] = m}

\* issueMemberAuthToken replaces the member's other code of that kind.
Issues(c, m, kind) ==
  /\ codeOf[c] = None /\ Unheld(c)
  /\ codeOf' = [d \in Code |-> IF d = c THEN m
                               ELSE IF codeOf[d] = m /\ codeKind[d] = kind THEN None ELSE codeOf[d]]
  /\ codeKind' = [codeKind EXCEPT ![c] = kind]
  /\ spent' = [spent EXCEPT ![c] = 0]
\* The status that a member must have for a code of a kind, when it is issued and when it
\* is redeemed.
StatusFor(kind) == IF kind = "enrollment" THEN "pending" ELSE "active"

-----------------------------------------------------------------------------
(* fluxmail setup: setupInitialAdmin. *)

\* Nobody there: m is new.  Otherwise m is claimed with --existing-admin.
BeginSetup(q, m) ==
  /\ q \in Command /\ ~bootstrapped
  /\ Count = 0 \/ (Exists(m) /\ role[m] = "admin")
  /\ Begins(q, "setup", m, None, Count # 0)
  /\ UNCHANGED membersData

\* The password is hashed; addMember in a transaction.
AddAdmin(q) ==
  /\ at[q] = "setup" /\ ~noted[q]
  /\ LET m == who[q] IN
       \/ /\ ~Exists(m) /\ WithinPlan(Count)
          /\ SetStatus(m, "pending")
          /\ role' = [role EXCEPT ![m] = "admin"]
          /\ email' = [email EXCEPT ![m] = TRUE]
          /\ Moves(q, "store") /\ Stays(q)
       \/ /\ Exists(m) \/ ~WithinPlan(Count)
          /\ Ends(q)
          /\ UNCHANGED <<status, role, email>>
  /\ UNCHANGED <<bootstrapped, password, codeVars, sessionOf, keyVars>>

\* Without the member's row nothing is updated, and storing its password fails.
ClaimAdmin(q) ==
  /\ at[q] = "setup" /\ noted[q]
  /\ LET m == who[q] IN
       \/ /\ Exists(m)
          /\ SetStatus(m, "pending") /\ email' = [email EXCEPT ![m] = TRUE]
          /\ Moves(q, "store") /\ Stays(q)
       \/ ~Exists(m) /\ Ends(q) /\ UNCHANGED <<status, email>>
  /\ UNCHANGED <<bootstrapped, role, password, codeVars, sessionOf, keyVars>>

StoreFirstPassword(q) ==
  /\ at[q] = "store"
  /\ \/ Exists(who[q]) /\ SetPassword(who[q]) /\ Moves(q, "activate") /\ Stays(q)
     \/ ~Exists(who[q]) /\ Ends(q) /\ UNCHANGED password
  /\ UNCHANGED <<bootstrapped, status, role, email, codeVars, sessionOf, keyVars>>

ActivateFirst(q) ==
  /\ at[q] = "activate"
  /\ \/ Exists(who[q]) /\ SetStatus(who[q], "active") /\ Moves(q, "mark") /\ Stays(q)
     \/ ~Exists(who[q]) /\ Ends(q) /\ UNCHANGED status
  /\ UNCHANGED <<bootstrapped, role, email, password, codeVars, sessionOf, keyVars>>

MarkBootstrap(q) ==
  /\ at[q] = "mark"
  /\ bootstrapped' = TRUE
  /\ Moves(q, "open") /\ Stays(q)
  /\ UNCHANGED <<memberVars, codeVars, sessionOf, keyVars>>

OpenFirstSession(q) ==
  /\ at[q] = "open"
  /\ \/ /\ status[who[q]] = "active"
        /\ \E s \in Session : OpensSession(s, who[q])
     \/ status[who[q]] # "active" /\ UNCHANGED sessionOf
  /\ Ends(q)
  /\ UNCHANGED <<bootstrapped, memberVars, codeVars, keyVars>>

-----------------------------------------------------------------------------
(* fluxmail auth recover-admin: recoverAdminPassword. *)

BeginRecovery(q, m) ==
  /\ q \in Command /\ bootstrapped
  /\ Exists(m) /\ role[m] = "admin" /\ email[m]
  /\ Begins(q, "recover", m, None, status[m] # "active")
  /\ UNCHANGED membersData

RecoverStore(q) ==
  /\ at[q] = "recover"
  /\ \/ Exists(who[q]) /\ SetPassword(who[q]) /\ Moves(q, "recoverActivate") /\ Stays(q)
     \/ ~Exists(who[q]) /\ Ends(q) /\ UNCHANGED password
  /\ UNCHANGED <<bootstrapped, status, role, email, codeVars, sessionOf, keyVars>>

\* Only if the member was not active when the command began.
RecoverActivate(q) ==
  /\ at[q] = "recoverActivate"
  /\ IF noted[q] /\ Exists(who[q]) THEN SetStatus(who[q], "active") ELSE UNCHANGED status
  /\ Moves(q, "recoverRevoke") /\ Stays(q)
  /\ UNCHANGED <<bootstrapped, role, email, password, codeVars, sessionOf, keyVars>>

RecoverRevoke(q) ==
  /\ at[q] = "recoverRevoke"
  /\ Revokes(SessionsOf(who[q]))
  /\ Moves(q, "recoverMark") /\ Stays(q)
  /\ UNCHANGED <<bootstrapped, memberVars, codeVars, keyVars>>

RecoverMark(q) ==
  /\ at[q] = "recoverMark"
  /\ bootstrapped' = TRUE
  /\ Ends(q)
  /\ UNCHANGED <<memberVars, codeVars, sessionOf, keyVars>>

-----------------------------------------------------------------------------
(* Requests without a session: loginWithPassword, consumeMemberAuthToken. *)

\* The password given is the member's; the verification is awaited.
BeginLogin(q, m) ==
  /\ q \notin Command /\ bootstrapped
  /\ email[m] /\ password[m] /\ status[m] = "active"
  /\ Begins(q, "verify", m, None, FALSE)
  /\ UNCHANGED membersData

\* Mutant: a session for the member as it was before the verification.
FinishLoginAsSeen(q) ==
  /\ at[q] = "verify" /\ Exists(who[q])
  /\ \E s \in Session : OpensSession(s, who[q])
  /\ Ends(q)
  /\ UNCHANGED <<bootstrapped, memberVars, codeVars, keyVars>>
\* issueSession reads the member again.
FinishLogin(q) ==
  /\ at[q] = "verify"
  /\ \/ /\ status[who[q]] = "active"
        /\ \E s \in Session : OpensSession(s, who[q])
     \/ status[who[q]] # "active" /\ UNCHANGED sessionOf
  /\ Ends(q)
  /\ UNCHANGED <<bootstrapped, memberVars, codeVars, keyVars>>

\* The code is good, and the member may use it; the hash is awaited.
BeginRedeem(q, c) ==
  /\ q \notin Command
  /\ codeOf[c] # None
  /\ status[codeOf[c]] = StatusFor(codeKind[c])
  /\ codeKind[c] = "enrollment" => WithinPlan(Count - 1)
  /\ Begins(q, "redeem", codeOf[c], c, FALSE)
  /\ UNCHANGED membersData

\* Mutant: the code is not claimed in the transaction.
RedeemsAnyway(q) == at[q] = "redeem" /\ Exists(who[q])
\* The transaction claims the code, but does not read the member again.
Redeems(q) == at[q] = "redeem" /\ codeOf[via[q]] = who[q]
StatusAfterRedeem(q) ==
  IF codeKind[via[q]] = "enrollment" THEN "active" ELSE status[who[q]]
FinishRedeem(q) ==
  /\ Redeems(q)
  /\ SetPassword(who[q]) /\ SetStatus(who[q], StatusAfterRedeem(q))
  /\ codeOf' = [codeOf EXCEPT ![via[q]] = None]
  /\ spent' = [spent EXCEPT ![via[q]] = @ + 1]
  /\ \/ /\ StatusAfterRedeem(q) = "active"
        /\ \E s \in Session :
             /\ sessionOf[s] = None /\ Unheld(s)
             /\ sessionOf' = [t \in Session |-> IF t = s THEN who[q]
                                                ELSE IF sessionOf[t] = who[q] THEN None ELSE sessionOf[t]]
     \/ StatusAfterRedeem(q) # "active" /\ Revokes(SessionsOf(who[q]))
  /\ Ends(q)
  /\ UNCHANGED <<bootstrapped, role, email, codeKind, keyVars>>

\* Redeemed, replaced or expired meanwhile.
RefuseRedeem(q) ==
  /\ at[q] = "redeem" /\ codeOf[via[q]] # who[q]
  /\ Ends(q)
  /\ UNCHANGED membersData

-----------------------------------------------------------------------------
(* Requests of a member: authenticateBearer, then the body, then the handler. *)

AuthenticateSession(q, s) ==
  /\ q \notin Command /\ bootstrapped
  /\ sessionOf[s] # None /\ status[sessionOf[s]] = "active"
  /\ at[q] = "idle" /\ Moves(q, "act")
  /\ who' = [who EXCEPT ![q] = sessionOf[s]] /\ via' = [via EXCEPT ![q] = s]
  /\ admin' = [admin EXCEPT ![q] = (role[sessionOf[s]] = "admin")]
  /\ UNCHANGED <<membersData, noted>>

AuthenticateKey(q, k) ==
  /\ q \notin Command /\ bootstrapped
  /\ keyOf[k] # None /\ status[keyOf[k]] = "active"
  /\ at[q] = "idle" /\ Moves(q, "act")
  /\ who' = [who EXCEPT ![q] = keyOf[k]]
  /\ admin' = [admin EXCEPT ![q] = (role[keyOf[k]] = "admin" /\ keyAdmin[k])]
  /\ UNCHANGED <<membersData, via, noted>>

Administers(q) == at[q] = "act" /\ admin[q]
\* requireSession.
Interactive(q) == at[q] = "act" /\ via[q] \in Session

\* A handler that only reads, or refuses.
ReadsOnly(q) == at[q] = "act" /\ Ends(q) /\ UNCHANGED membersData

\* Ids are random: a new member is none that a request still holds.
CreateMember(q, m, r, c) ==
  /\ Administers(q)
  /\ ~Exists(m) /\ \A p \in Request : who[p] # m
  /\ WithinPlan(Count)
  /\ SetStatus(m, "pending")
  /\ role' = [role EXCEPT ![m] = r]
  /\ email' = [email EXCEPT ![m] = TRUE]
  /\ Issues(c, m, "enrollment")
  /\ Ends(q)
  /\ UNCHANGED <<bootstrapped, password, sessionOf, keyVars>>

IssueCode(q, m, kind, c) ==
  /\ Administers(q)
  /\ status[m] = StatusFor(kind)
  /\ kind = "enrollment" => email[m]
  /\ Issues(c, m, kind)
  /\ Ends(q)
  /\ UNCHANGED <<bootstrapped, memberVars, sessionOf, keyVars>>

\* What updateMember demands of a new status s ("same" if none is given), with or
\* without an email e.
MayBecome(m, r, s, e) ==
  /\ (s = "active" /\ status[m] # "active") =>
       /\ e \/ email[m]
       /\ WithinPlan(Count - 1)
  /\ s = "active" => password[m]
  /\ (role[m] = "admin" /\ status[m] = "active" /\ (r = "member" \/ s = "suspended"))
       => NotLastAdmin(m)
PatchMember(q, m, r, s, e) ==
  /\ Administers(q)
  /\ Exists(m) /\ MayBecome(m, r, s, e)
  /\ role' = [role EXCEPT ![m] = r]
  /\ email' = [email EXCEPT ![m] = @ \/ e]
  /\ IF s = "same" THEN UNCHANGED status ELSE SetStatus(m, s)
  /\ IF s = "suspended" THEN Revokes(SessionsOf(m)) /\ DeletesKeys(KeysOf(m))
     ELSE UNCHANGED <<sessionOf, keyVars>>
  /\ Ends(q)
  /\ UNCHANGED <<bootstrapped, password, codeVars>>

\* A member that owns no mailbox; what refers to it goes with it.
DeleteMember(q, m) ==
  /\ Administers(q)
  /\ Exists(m)
  /\ m \in ActiveAdmins => NotLastAdmin(m)
  /\ SetStatus(m, "absent")
  /\ role' = [role EXCEPT ![m] = "member"]
  /\ email' = [email EXCEPT ![m] = FALSE]
  /\ password' = [password EXCEPT ![m] = FALSE]
  /\ codeOf' = [c \in Code |-> IF codeOf[c] = m THEN None ELSE codeOf[c]]
  /\ Revokes(SessionsOf(m)) /\ DeletesKeys(KeysOf(m))
  /\ Ends(q)
  /\ UNCHANGED <<bootstrapped, codeKind, spent>>

\* One's own session, or as an administrator; logout is the former.
RevokeSession(q, s) ==
  /\ sessionOf[s] # None
  /\ Administers(q) \/ (Interactive(q) /\ sessionOf[s] = who[q])
  /\ Revokes({s})
  /\ Ends(q)
  /\ UNCHANGED <<bootstrapped, memberVars, codeVars, keyVars>>

\* createApiKey for oneself, or for anyone as an administrator.
CreateKey(q, k, m, administrative) ==
  /\ keyOf[k] = None
  /\ Administers(q) \/ (Interactive(q) /\ m = who[q])
  /\ status[m] = "active"
  /\ administrative => role[m] = "admin"
  /\ keyOf' = [keyOf EXCEPT ![k] = m]
  /\ keyAdmin' = [keyAdmin EXCEPT ![k] = administrative]
  /\ Ends(q)
  /\ UNCHANGED <<bootstrapped, memberVars, codeVars, sessionOf>>

UpdateKey(q, k, administrative) ==
  /\ Administers(q)
  /\ keyOf[k] # None
  /\ administrative => role[keyOf[k]] = "admin"
  /\ keyAdmin' = [keyAdmin EXCEPT ![k] = administrative]
  /\ Ends(q)
  /\ UNCHANGED <<bootstrapped, memberVars, codeVars, sessionOf, keyOf>>

RevokeKey(q, k) ==
  /\ keyOf[k] # None
  /\ Administers(q) \/ (Interactive(q) /\ keyOf[k] = who[q])
  /\ DeletesKeys({k})
  /\ Ends(q)
  /\ UNCHANGED <<bootstrapped, memberVars, codeVars, sessionOf>>

\* changePassword: the current password is verified and the new one hashed.
BeginChange(q) ==
  /\ Interactive(q)
  /\ password[who[q]]
  /\ Moves(q, "change") /\ Stays(q)
  /\ UNCHANGED membersData

\* The session it came with is kept.
FinishChange(q) ==
  /\ at[q] = "change"
  /\ \/ /\ Exists(who[q])
        /\ SetPassword(who[q])
        /\ Revokes(SessionsOf(who[q]) \ {via[q]})
     \/ ~Exists(who[q]) /\ UNCHANGED <<password, sessionOf>>
  /\ Ends(q)
  /\ UNCHANGED <<bootstrapped, status, role, email, codeVars, keyVars>>

-----------------------------------------------------------------------------
(* Time, and the death of a process. *)

SessionExpires(s) ==
  /\ sessionOf[s] # None
  /\ Revokes({s})
  /\ UNCHANGED <<bootstrapped, memberVars, codeVars, keyVars, requestVars>>

CodeExpires(c) ==
  /\ codeOf[c] # None
  /\ codeOf' = [codeOf EXCEPT ![c] = None]
  /\ UNCHANGED <<bootstrapped, memberVars, codeKind, spent, sessionOf, keyVars, requestVars>>

RequestDies(q) ==
  /\ MayDie /\ at[q] # "idle"
  /\ Ends(q)
  /\ UNCHANGED membersData

Setup(q) ==
  \/ AddAdmin(q) \/ ClaimAdmin(q) \/ StoreFirstPassword(q)
  \/ ActivateFirst(q) \/ MarkBootstrap(q) \/ OpenFirstSession(q)
Recovery(q) == RecoverStore(q) \/ RecoverActivate(q) \/ RecoverRevoke(q) \/ RecoverMark(q)
Handles(q) ==
  \/ ReadsOnly(q) \/ BeginChange(q)
  \/ \E m \in Member, r \in Role, c \in Code : CreateMember(q, m, r, c)
  \/ \E m \in Member, kind \in Kind, c \in Code : IssueCode(q, m, kind, c)
  \/ \E m \in Member, r \in Role, s \in {"same", "active", "suspended"}, e \in BOOLEAN :
       PatchMember(q, m, r, s, e)
  \/ \E m \in Member : DeleteMember(q, m)
  \/ \E s \in Session : RevokeSession(q, s)
  \/ \E k \in ApiKey, m \in Member, a \in BOOLEAN : CreateKey(q, k, m, a)
  \/ \E k \in ApiKey, a \in BOOLEAN : UpdateKey(q, k, a)
  \/ \E k \in ApiKey : RevokeKey(q, k)

MembersNext ==
  \/ \E q \in Request :
       \/ \E m \in Member : BeginSetup(q, m) \/ BeginRecovery(q, m) \/ BeginLogin(q, m)
       \/ \E c \in Code : BeginRedeem(q, c)
       \/ \E s \in Session : AuthenticateSession(q, s)
       \/ \E k \in ApiKey : AuthenticateKey(q, k)
       \/ Setup(q) \/ Recovery(q) \/ Handles(q)
       \/ FinishLogin(q) \/ FinishRedeem(q) \/ RefuseRedeem(q) \/ FinishChange(q)
       \/ RequestDies(q)
  \/ \E s \in Session : SessionExpires(s)
  \/ \E c \in Code : CodeExpires(c)

MembersSpec == MembersInit /\ [][MembersNext]_membersVars

-----------------------------------------------------------------------------
\* Once an instance is set up, there is an active administrator: no sequence of updates and
\* removals, and no interrupted setup or recovery, locks everyone out ("The last active
\* administrator cannot be changed or removed.").
AdminRemains == bootstrapped => ActiveAdmins # {}

\* A suspended member has no session that works and no key, whatever logins, enrollments,
\* password changes and key creations were under way when it was suspended.
SuspendedIsOut ==
  \A m \in Member : status[m] = "suspended" => SessionsOf(m) = {} /\ KeysOf(m) = {}

\* An active member has a password and a login email: no path to "active" forgets either.
ActiveCanLogIn ==
  \A m \in Member : status[m] = "active" => password[m] /\ email[m]

\* A code sets a password at most once, however many requests carry it at a time.
CodeWorksOnce == \A c \in Code : spent[c] <= 1

\* Wherever setup was interrupted, it can be run again: nobody is there, or an
\* administrator is there to be claimed.
SetupRemainsPossible ==
  ~bootstrapped => Count = 0 \/ \E m \in Member : Exists(m) /\ role[m] = "admin"

\* issueMemberAuthToken: "Suspended members cannot enroll or reset passwords."
SuspendedCannotEnroll ==
  [][\A m \in Member : status[m] = "suspended" /\ status'[m] = "active" =>
       ~\E q \in Request : Redeems(q) /\ who[q] = m]_membersVars

\* Nobody is locked out: not the instance, by losing its last administrator or a setup that
\* was interrupted, and not a member who is active.
NobodyLockedOut == MembersTypeOK /\ AdminRemains /\ ActiveCanLogIn /\ SetupRemainsPossible
=============================================================================
