---------------------------- MODULE Access_proofs ----------------------------
(***************************************************************************)
(* Theorems about Members, LoginLimits and Connections: who is let in, who *)
(* is locked out, and which mailboxes get connected.                       *)
(***************************************************************************)
EXTENDS Members, LoginLimits, Connections, FiniteSetTheorems, TLAPS

-----------------------------------------------------------------------------
(* Members: the types are kept. *)

LEMMA MembersInitType == MembersInit => MembersTypeOK
<1> SUFFICES ASSUME MembersInit PROVE MembersTypeOK
  OBVIOUS
<1>1. status \in [Member -> Status] /\ role \in [Member -> Role]
  BY DEF MembersInit, Status, Role
<1>2. /\ email \in [Member -> BOOLEAN] /\ password \in [Member -> BOOLEAN]
      /\ bootstrapped \in BOOLEAN
  BY DEF MembersInit
<1>3. /\ codeOf \in [Code -> Member \cup {None}] /\ codeKind \in [Code -> Kind]
      /\ spent \in [Code -> 0..2] /\ sessionOf \in [Session -> Member \cup {None}]
      /\ keyOf \in [ApiKey -> Member \cup {None}] /\ keyAdmin \in [ApiKey -> BOOLEAN]
  BY DEF MembersInit, Kind
<1>4. /\ at \in [Request -> Place] /\ who \in [Request -> Member \cup {None}]
      /\ via \in [Request -> Code \cup Session \cup {None}]
      /\ admin \in [Request -> BOOLEAN] /\ noted \in [Request -> BOOLEAN]
      /\ \A q \in Request : at[q] = "idle"
  BY DEF MembersInit, Place
<1> QED
  BY <1>1, <1>2, <1>3, <1>4 DEF MembersTypeOK

\* What a member's request ends with.
LEMMA EndsKeepsTypes ==
  ASSUME MembersTypeOK, NEW q \in Request, Ends(q)
  PROVE  /\ at' \in [Request -> Place] /\ who' \in [Request -> Member \cup {None}]
         /\ via' \in [Request -> Code \cup Session \cup {None}]
         /\ admin' \in [Request -> BOOLEAN] /\ noted' \in [Request -> BOOLEAN]
         /\ \A p \in Request : /\ at'[p] # "idle" => who'[p] \in Member
                               /\ at'[p] = "redeem" => via'[p] \in Code
  BY DEF MembersTypeOK, Ends, Moves, Place

LEMMA MovesKeepsTypes ==
  ASSUME MembersTypeOK, NEW q \in Request, NEW place \in Place, Moves(q, place), Stays(q),
         at[q] # "idle", place # "redeem"
  PROVE  /\ at' \in [Request -> Place] /\ who' \in [Request -> Member \cup {None}]
         /\ via' \in [Request -> Code \cup Session \cup {None}]
         /\ admin' \in [Request -> BOOLEAN] /\ noted' \in [Request -> BOOLEAN]
         /\ \A p \in Request : /\ at'[p] # "idle" => who'[p] \in Member
                               /\ at'[p] = "redeem" => via'[p] \in Code
  BY DEF MembersTypeOK, Stays, Moves

LEMMA BeginsKeepsTypes ==
  ASSUME MembersTypeOK, NEW q \in Request, NEW place \in Place, NEW m \in Member,
         NEW thing \in Code \cup {None}, NEW note \in BOOLEAN,
         Begins(q, place, m, thing, note), place = "redeem" => thing \in Code,
         UNCHANGED membersData
  PROVE  MembersTypeOK'
  BY DEF MembersTypeOK, Begins, Moves, membersData, memberVars, codeVars, keyVars

LEMMA BeginKeepsTypes ==
  ASSUME MembersTypeOK, NEW q \in Request
  PROVE  /\ \A m \in Member : BeginSetup(q, m) \/ BeginRecovery(q, m) \/ BeginLogin(q, m)
                                => MembersTypeOK'
         /\ \A c \in Code : BeginRedeem(q, c) => MembersTypeOK'
         /\ \A s \in Session : AuthenticateSession(q, s) => MembersTypeOK'
         /\ \A k \in ApiKey : AuthenticateKey(q, k) => MembersTypeOK'
<1>1. ASSUME NEW m \in Member, BeginSetup(q, m) PROVE MembersTypeOK'
  BY <1>1, BeginsKeepsTypes DEF BeginSetup, Place
<1>2. ASSUME NEW m \in Member, BeginRecovery(q, m) PROVE MembersTypeOK'
  BY <1>2, BeginsKeepsTypes DEF BeginRecovery, Place
<1>3. ASSUME NEW m \in Member, BeginLogin(q, m) PROVE MembersTypeOK'
  BY <1>3, BeginsKeepsTypes DEF BeginLogin, Place
<1>4. ASSUME NEW c \in Code, BeginRedeem(q, c) PROVE MembersTypeOK'
  <2>1. codeOf[c] \in Member
    BY <1>4 DEF BeginRedeem, MembersTypeOK
  <2> QED
    BY <1>4, <2>1, BeginsKeepsTypes DEF BeginRedeem, Place
<1>5. ASSUME NEW s \in Session, AuthenticateSession(q, s) PROVE MembersTypeOK'
  BY <1>5 DEF AuthenticateSession, Moves, MembersTypeOK, Place, membersData, memberVars, codeVars, keyVars
<1>6. ASSUME NEW k \in ApiKey, AuthenticateKey(q, k) PROVE MembersTypeOK'
  BY <1>6 DEF AuthenticateKey, Moves, MembersTypeOK, Place, membersData, memberVars, codeVars, keyVars
<1> QED
  BY <1>1, <1>2, <1>3, <1>4, <1>5, <1>6

LEMMA SetupKeepsTypes ==
  ASSUME MembersTypeOK, NEW q \in Request, Setup(q)
  PROVE  MembersTypeOK'
<1>1. at[q] # "idle" /\ who[q] \in Member
  BY DEF Setup, AddAdmin, ClaimAdmin, StoreFirstPassword, ActivateFirst, MarkBootstrap,
         OpenFirstSession, MembersTypeOK
<1>2. ASSUME NEW place \in Place, place # "redeem", (Moves(q, place) /\ Stays(q)) \/ Ends(q)
      PROVE  /\ at' \in [Request -> Place] /\ who' \in [Request -> Member \cup {None}]
             /\ via' \in [Request -> Code \cup Session \cup {None}]
             /\ admin' \in [Request -> BOOLEAN] /\ noted' \in [Request -> BOOLEAN]
             /\ \A p \in Request : /\ at'[p] # "idle" => who'[p] \in Member
                                   /\ at'[p] = "redeem" => via'[p] \in Code
  BY <1>1, <1>2, EndsKeepsTypes, MovesKeepsTypes
<1>3. CASE AddAdmin(q)
  <2>1. (Moves(q, "store") /\ Stays(q)) \/ Ends(q)
    BY <1>3 DEF AddAdmin
  <2>2. status' \in [Member -> Status] /\ role' \in [Member -> Role] /\ email' \in [Member -> BOOLEAN]
    BY <1>1, <1>3 DEF AddAdmin, SetStatus, MembersTypeOK, Status, Role
  <2>3. UNCHANGED <<bootstrapped, password, codeVars, sessionOf, keyVars>>
    BY <1>3 DEF AddAdmin
  <2> QED
    BY <1>2, <2>1, <2>2, <2>3 DEF MembersTypeOK, codeVars, keyVars, Place
<1>4. CASE ClaimAdmin(q)
  <2>1. (Moves(q, "store") /\ Stays(q)) \/ Ends(q)
    BY <1>4 DEF ClaimAdmin
  <2>2. status' \in [Member -> Status] /\ email' \in [Member -> BOOLEAN]
    BY <1>1, <1>4 DEF ClaimAdmin, SetStatus, MembersTypeOK, Status
  <2>3. UNCHANGED <<bootstrapped, role, password, codeVars, sessionOf, keyVars>>
    BY <1>4 DEF ClaimAdmin
  <2> QED
    BY <1>2, <2>1, <2>2, <2>3 DEF MembersTypeOK, codeVars, keyVars, Place
<1>5. CASE StoreFirstPassword(q)
  <2>1. (Moves(q, "activate") /\ Stays(q)) \/ Ends(q)
    BY <1>5 DEF StoreFirstPassword
  <2>2. password' \in [Member -> BOOLEAN]
    BY <1>1, <1>5 DEF StoreFirstPassword, SetPassword, MembersTypeOK
  <2>3. UNCHANGED <<bootstrapped, status, role, email, codeVars, sessionOf, keyVars>>
    BY <1>5 DEF StoreFirstPassword
  <2> QED
    BY <1>2, <2>1, <2>2, <2>3 DEF MembersTypeOK, codeVars, keyVars, Place
<1>6. CASE ActivateFirst(q)
  <2>1. (Moves(q, "mark") /\ Stays(q)) \/ Ends(q)
    BY <1>6 DEF ActivateFirst
  <2>2. status' \in [Member -> Status]
    BY <1>1, <1>6 DEF ActivateFirst, SetStatus, MembersTypeOK, Status
  <2>3. UNCHANGED <<bootstrapped, role, email, password, codeVars, sessionOf, keyVars>>
    BY <1>6 DEF ActivateFirst
  <2> QED
    BY <1>2, <2>1, <2>2, <2>3 DEF MembersTypeOK, codeVars, keyVars, Place
<1>7. CASE MarkBootstrap(q)
  <2>1. Moves(q, "open") /\ Stays(q)
    BY <1>7 DEF MarkBootstrap
  <2>2. bootstrapped' = TRUE /\ UNCHANGED <<memberVars, codeVars, sessionOf, keyVars>>
    BY <1>7 DEF MarkBootstrap
  <2> QED
    BY <1>2, <2>1, <2>2 DEF MembersTypeOK, memberVars, codeVars, keyVars, Place
<1>8. CASE OpenFirstSession(q)
  <2>1. Ends(q)
    BY <1>8 DEF OpenFirstSession
  <2>2. sessionOf' \in [Session -> Member \cup {None}]
    BY <1>1, <1>8 DEF OpenFirstSession, OpensSession, MembersTypeOK
  <2>3. UNCHANGED <<bootstrapped, memberVars, codeVars, keyVars>>
    BY <1>8 DEF OpenFirstSession
  <2> QED
    BY <2>1, <2>2, <2>3, EndsKeepsTypes DEF MembersTypeOK, memberVars, codeVars, keyVars
<1> QED
  BY <1>3, <1>4, <1>5, <1>6, <1>7, <1>8 DEF Setup

LEMMA RecoveryKeepsTypes ==
  ASSUME MembersTypeOK, NEW q \in Request, Recovery(q)
  PROVE  MembersTypeOK'
<1>1. at[q] # "idle" /\ who[q] \in Member
  BY DEF Recovery, RecoverStore, RecoverActivate, RecoverRevoke, RecoverMark, MembersTypeOK
<1>2. ASSUME NEW place \in Place, place # "redeem", (Moves(q, place) /\ Stays(q)) \/ Ends(q)
      PROVE  /\ at' \in [Request -> Place] /\ who' \in [Request -> Member \cup {None}]
             /\ via' \in [Request -> Code \cup Session \cup {None}]
             /\ admin' \in [Request -> BOOLEAN] /\ noted' \in [Request -> BOOLEAN]
             /\ \A p \in Request : /\ at'[p] # "idle" => who'[p] \in Member
                                   /\ at'[p] = "redeem" => via'[p] \in Code
  BY <1>1, <1>2, EndsKeepsTypes, MovesKeepsTypes
<1>3. CASE RecoverStore(q)
  <2>1. (Moves(q, "recoverActivate") /\ Stays(q)) \/ Ends(q)
    BY <1>3 DEF RecoverStore
  <2>2. password' \in [Member -> BOOLEAN]
    BY <1>1, <1>3 DEF RecoverStore, SetPassword, MembersTypeOK
  <2>3. UNCHANGED <<bootstrapped, status, role, email, codeVars, sessionOf, keyVars>>
    BY <1>3 DEF RecoverStore
  <2> QED
    BY <1>2, <2>1, <2>2, <2>3 DEF MembersTypeOK, codeVars, keyVars, Place
<1>4. CASE RecoverActivate(q)
  <2>1. Moves(q, "recoverRevoke") /\ Stays(q)
    BY <1>4 DEF RecoverActivate
  <2>2. status' \in [Member -> Status]
    BY <1>1, <1>4 DEF RecoverActivate, SetStatus, MembersTypeOK, Status
  <2>3. UNCHANGED <<bootstrapped, role, email, password, codeVars, sessionOf, keyVars>>
    BY <1>4 DEF RecoverActivate
  <2> QED
    BY <1>2, <2>1, <2>2, <2>3 DEF MembersTypeOK, codeVars, keyVars, Place
<1>5. CASE RecoverRevoke(q)
  <2>1. Moves(q, "recoverMark") /\ Stays(q)
    BY <1>5 DEF RecoverRevoke
  <2>2. sessionOf' \in [Session -> Member \cup {None}]
    BY <1>5 DEF RecoverRevoke, Revokes, MembersTypeOK
  <2>3. UNCHANGED <<bootstrapped, memberVars, codeVars, keyVars>>
    BY <1>5 DEF RecoverRevoke
  <2> QED
    BY <1>2, <2>1, <2>2, <2>3 DEF MembersTypeOK, memberVars, codeVars, keyVars, Place
<1>6. CASE RecoverMark(q)
  BY <1>6, EndsKeepsTypes DEF RecoverMark, MembersTypeOK, memberVars, codeVars, keyVars
<1> QED
  BY <1>3, <1>4, <1>5, <1>6 DEF Recovery

LEMMA HandlesKeepsTypes ==
  ASSUME MembersTypeOK, NEW q \in Request, Handles(q)
  PROVE  MembersTypeOK'
<1> USE DEF codeVars, keyVars, memberVars
<1>1. CASE ReadsOnly(q)
  BY <1>1, EndsKeepsTypes DEF ReadsOnly, MembersTypeOK, membersData
<1>2. CASE BeginChange(q)
  <2>1. at[q] # "idle" /\ "change" \in Place
    BY <1>2 DEF BeginChange, Interactive, Place
  <2> QED
    BY <1>2, <2>1, MovesKeepsTypes DEF BeginChange, MembersTypeOK, membersData
<1>3. ASSUME NEW m \in Member, NEW r \in Role, NEW c \in Code, CreateMember(q, m, r, c)
      PROVE  MembersTypeOK'
  <2>1. Ends(q) /\ UNCHANGED <<bootstrapped, password, sessionOf, keyVars>>
    BY <1>3 DEF CreateMember
  <2>2. status' \in [Member -> Status] /\ role' \in [Member -> Role] /\ email' \in [Member -> BOOLEAN]
    BY <1>3 DEF CreateMember, SetStatus, MembersTypeOK, Status
  <2>3. /\ codeOf' \in [Code -> Member \cup {None}] /\ codeKind' \in [Code -> Kind]
        /\ spent' \in [Code -> 0..2]
    BY <1>3 DEF CreateMember, Issues, MembersTypeOK, Kind
  <2> QED
    BY <2>1, <2>2, <2>3, EndsKeepsTypes DEF MembersTypeOK
<1>4. ASSUME NEW m \in Member, NEW kind \in Kind, NEW c \in Code, IssueCode(q, m, kind, c)
      PROVE  MembersTypeOK'
  <2>1. Ends(q) /\ UNCHANGED <<bootstrapped, memberVars, sessionOf, keyVars>>
    BY <1>4 DEF IssueCode
  <2>2. /\ codeOf' \in [Code -> Member \cup {None}] /\ codeKind' \in [Code -> Kind]
        /\ spent' \in [Code -> 0..2]
    BY <1>4 DEF IssueCode, Issues, MembersTypeOK
  <2> QED
    BY <2>1, <2>2, EndsKeepsTypes DEF MembersTypeOK
<1>5. ASSUME NEW m \in Member, NEW r \in Role, NEW s \in {"same", "active", "suspended"},
             NEW e \in BOOLEAN, PatchMember(q, m, r, s, e)
      PROVE  MembersTypeOK'
  <2>1. Ends(q) /\ UNCHANGED <<bootstrapped, password, codeVars>>
    BY <1>5 DEF PatchMember
  <2>2. status' \in [Member -> Status] /\ role' \in [Member -> Role]
    BY <1>5 DEF PatchMember, SetStatus, MembersTypeOK, Status
  <2>3. email' \in [Member -> BOOLEAN]
    <3>1. email' = [email EXCEPT ![m] = @ \/ e]
      BY <1>5 DEF PatchMember
    <3> QED
      BY <3>1, Zenon DEF MembersTypeOK
  <2>4. /\ sessionOf' \in [Session -> Member \cup {None}]
        /\ keyOf' \in [ApiKey -> Member \cup {None}] /\ keyAdmin' \in [ApiKey -> BOOLEAN]
    BY <1>5 DEF PatchMember, Revokes, DeletesKeys, MembersTypeOK
  <2> QED
    BY <2>1, <2>2, <2>3, <2>4, EndsKeepsTypes DEF MembersTypeOK
<1>6. ASSUME NEW m \in Member, DeleteMember(q, m) PROVE MembersTypeOK'
  <2>1. Ends(q) /\ UNCHANGED <<bootstrapped, codeKind, spent>>
    BY <1>6 DEF DeleteMember
  <2>2. /\ status' \in [Member -> Status] /\ role' \in [Member -> Role]
        /\ email' \in [Member -> BOOLEAN] /\ password' \in [Member -> BOOLEAN]
    BY <1>6 DEF DeleteMember, SetStatus, MembersTypeOK, Status, Role
  <2>3. /\ sessionOf' \in [Session -> Member \cup {None}] /\ codeOf' \in [Code -> Member \cup {None}]
        /\ keyOf' \in [ApiKey -> Member \cup {None}] /\ keyAdmin' \in [ApiKey -> BOOLEAN]
    BY <1>6 DEF DeleteMember, Revokes, DeletesKeys, MembersTypeOK
  <2> QED
    BY <2>1, <2>2, <2>3, EndsKeepsTypes DEF MembersTypeOK
<1>7. ASSUME NEW s \in Session, RevokeSession(q, s) PROVE MembersTypeOK'
  <2>1. Ends(q) /\ UNCHANGED <<bootstrapped, memberVars, codeVars, keyVars>>
    BY <1>7 DEF RevokeSession
  <2>2. sessionOf' \in [Session -> Member \cup {None}]
    BY <1>7 DEF RevokeSession, Revokes, MembersTypeOK
  <2> QED
    BY <2>1, <2>2, EndsKeepsTypes DEF MembersTypeOK
<1>8. ASSUME NEW k \in ApiKey, NEW m \in Member, NEW a \in BOOLEAN, CreateKey(q, k, m, a)
      PROVE  MembersTypeOK'
  <2>1. Ends(q) /\ UNCHANGED <<bootstrapped, memberVars, codeVars, sessionOf>>
    BY <1>8 DEF CreateKey
  <2>2. keyOf' \in [ApiKey -> Member \cup {None}] /\ keyAdmin' \in [ApiKey -> BOOLEAN]
    BY <1>8 DEF CreateKey, MembersTypeOK
  <2> QED
    BY <2>1, <2>2, EndsKeepsTypes DEF MembersTypeOK
<1>9. ASSUME NEW k \in ApiKey, NEW a \in BOOLEAN, UpdateKey(q, k, a) PROVE MembersTypeOK'
  <2>1. Ends(q) /\ UNCHANGED <<bootstrapped, memberVars, codeVars, sessionOf, keyOf>>
    BY <1>9 DEF UpdateKey
  <2>2. keyAdmin' \in [ApiKey -> BOOLEAN]
    BY <1>9 DEF UpdateKey, MembersTypeOK
  <2> QED
    BY <2>1, <2>2, EndsKeepsTypes DEF MembersTypeOK
<1>10. ASSUME NEW k \in ApiKey, RevokeKey(q, k) PROVE MembersTypeOK'
  <2>1. Ends(q) /\ UNCHANGED <<bootstrapped, memberVars, codeVars, sessionOf>>
    BY <1>10 DEF RevokeKey
  <2>2. keyOf' \in [ApiKey -> Member \cup {None}] /\ keyAdmin' \in [ApiKey -> BOOLEAN]
    BY <1>10 DEF RevokeKey, DeletesKeys, MembersTypeOK
  <2> QED
    BY <2>1, <2>2, EndsKeepsTypes DEF MembersTypeOK
<1> QED
  BY <1>1, <1>2, <1>3, <1>4, <1>5, <1>6, <1>7, <1>8, <1>9, <1>10 DEF Handles

\* A code that works has not been redeemed, and is a member's who may still enroll with it.
CodesAreSound ==
  \A c \in Code : codeOf[c] # None => /\ spent[c] = 0
                                      /\ Exists(codeOf[c])
                                      /\ codeKind[c] = "enrollment" => email[codeOf[c]]

LEMMA FinishRedeemKeepsTypes ==
  ASSUME MembersTypeOK, CodesAreSound, NEW q \in Request, FinishRedeem(q)
  PROVE  MembersTypeOK'
<1> USE DEF codeVars, keyVars, memberVars
<1>1. who[q] \in Member /\ via[q] \in Code
  BY DEF FinishRedeem, Redeems, MembersTypeOK
<1>2. Ends(q) /\ UNCHANGED <<bootstrapped, role, email, codeKind, keyVars>>
  BY DEF FinishRedeem
<1>3. password' \in [Member -> BOOLEAN]
  BY <1>1 DEF FinishRedeem, SetPassword, MembersTypeOK
<1>4. status' \in [Member -> Status]
  BY <1>1 DEF FinishRedeem, SetStatus, StatusAfterRedeem, MembersTypeOK, Status
<1>5. codeOf' \in [Code -> Member \cup {None}]
  BY <1>1 DEF FinishRedeem, MembersTypeOK
<1>6. spent' \in [Code -> 0..2]
  <2>1. spent[via[q]] = 0
    BY <1>1, MembersAssumption DEF CodesAreSound, FinishRedeem, Redeems
  <2> QED
    BY <1>1, <2>1 DEF FinishRedeem, MembersTypeOK
<1>7. sessionOf' \in [Session -> Member \cup {None}]
  BY <1>1 DEF FinishRedeem, Revokes, MembersTypeOK
<1> QED
  BY <1>2, <1>3, <1>4, <1>5, <1>6, <1>7, EndsKeepsTypes DEF MembersTypeOK

LEMMA MembersTypeStep ==
  ASSUME MembersTypeOK, CodesAreSound, [MembersNext]_membersVars
  PROVE  MembersTypeOK'
<1> USE DEF codeVars, keyVars, memberVars
<1>1. ASSUME NEW q \in Request, FinishLogin(q) PROVE MembersTypeOK'
  <2>1. Ends(q) /\ UNCHANGED <<bootstrapped, memberVars, codeVars, keyVars>>
    BY <1>1 DEF FinishLogin
  <2>2. sessionOf' \in [Session -> Member \cup {None}]
    BY <1>1 DEF FinishLogin, OpensSession, MembersTypeOK
  <2> QED
    BY <2>1, <2>2, EndsKeepsTypes DEF MembersTypeOK
<1>2. ASSUME NEW q \in Request, FinishChange(q) PROVE MembersTypeOK'
  <2>1. Ends(q) /\ UNCHANGED <<bootstrapped, status, role, email, codeVars, keyVars>>
    BY <1>2 DEF FinishChange
  <2>2. sessionOf' \in [Session -> Member \cup {None}] /\ password' \in [Member -> BOOLEAN]
    BY <1>2 DEF FinishChange, SetPassword, Revokes, MembersTypeOK
  <2> QED
    BY <2>1, <2>2, EndsKeepsTypes DEF MembersTypeOK
<1>3. ASSUME NEW q \in Request, RefuseRedeem(q) \/ RequestDies(q) PROVE MembersTypeOK'
  <2>1. Ends(q) /\ UNCHANGED membersData
    BY <1>3 DEF RefuseRedeem, RequestDies
  <2> QED
    BY <2>1, EndsKeepsTypes DEF MembersTypeOK, membersData
<1>4. ASSUME NEW s \in Session, SessionExpires(s) PROVE MembersTypeOK'
  <2>1. sessionOf' \in [Session -> Member \cup {None}]
    BY <1>4 DEF SessionExpires, Revokes, MembersTypeOK
  <2> QED
    BY <1>4, <2>1 DEF SessionExpires, MembersTypeOK, requestVars
<1>5. ASSUME NEW c \in Code, CodeExpires(c) PROVE MembersTypeOK'
  <2>1. codeOf' \in [Code -> Member \cup {None}]
    BY <1>5 DEF CodeExpires, MembersTypeOK
  <2> QED
    BY <1>5, <2>1 DEF CodeExpires, MembersTypeOK, requestVars
<1>6. CASE UNCHANGED membersVars
  BY <1>6 DEF MembersTypeOK, membersVars, membersData, requestVars
<1> QED
  BY <1>1, <1>2, <1>3, <1>4, <1>5, <1>6, BeginKeepsTypes, SetupKeepsTypes, RecoveryKeepsTypes,
     HandlesKeepsTypes, FinishRedeemKeepsTypes DEF MembersNext

-----------------------------------------------------------------------------
(* Members: what a step may do to a member, a code, a session and a key. *)

\* A session is opened for a member who is active once it is there.
LEMMA SessionsGrow ==
  ASSUME MembersTypeOK, MembersNext, NEW s \in Session
  PROVE  sessionOf'[s] \in {None, sessionOf[s]} \/ status'[sessionOf'[s]] = "active"
<1> USE DEF codeVars, keyVars, memberVars
<1>1. ASSUME NEW q \in Request,
             OpenFirstSession(q) \/ FinishLogin(q)
      PROVE  sessionOf'[s] \in {None, sessionOf[s]} \/ status'[sessionOf'[s]] = "active"
  BY <1>1 DEF OpenFirstSession, FinishLogin, OpensSession, MembersTypeOK
<1>2. ASSUME NEW q \in Request, FinishRedeem(q)
      PROVE  sessionOf'[s] \in {None, sessionOf[s]} \/ status'[sessionOf'[s]] = "active"
  <2>1. who[q] \in Member
    BY <1>2 DEF FinishRedeem, Redeems, MembersTypeOK
  <2>2. status'[who[q]] = StatusAfterRedeem(q)
    BY <1>2, <2>1 DEF FinishRedeem, SetStatus, MembersTypeOK
  <2> QED
    BY <1>2, <2>2 DEF FinishRedeem, Revokes, MembersTypeOK
<1>3. ASSUME NEW q \in Request, \/ \E m \in Member : BeginSetup(q, m) \/ BeginRecovery(q, m) \/ BeginLogin(q, m)
                                \/ \E c \in Code : BeginRedeem(q, c)
                                \/ \E t \in Session : AuthenticateSession(q, t)
                                \/ \E k \in ApiKey : AuthenticateKey(q, k)
                                \/ RefuseRedeem(q) \/ RequestDies(q)
      PROVE  sessionOf'[s] \in {None, sessionOf[s]}
  BY <1>3 DEF BeginSetup, BeginRecovery, BeginLogin, BeginRedeem, AuthenticateSession, AuthenticateKey,
              RefuseRedeem, RequestDies, membersData
<1>4. ASSUME NEW q \in Request, AddAdmin(q) \/ ClaimAdmin(q) \/ StoreFirstPassword(q)
                                \/ ActivateFirst(q) \/ MarkBootstrap(q) \/ Recovery(q)
      PROVE  sessionOf'[s] \in {None, sessionOf[s]}
  BY <1>4 DEF AddAdmin, ClaimAdmin, StoreFirstPassword, ActivateFirst, MarkBootstrap, Recovery,
              RecoverStore, RecoverActivate, RecoverRevoke, RecoverMark, Revokes
<1>5. ASSUME NEW q \in Request, Handles(q)
      PROVE  sessionOf'[s] \in {None, sessionOf[s]}
  BY <1>5 DEF Handles, ReadsOnly, BeginChange, CreateMember, IssueCode, PatchMember, DeleteMember,
              RevokeSession, CreateKey, UpdateKey, RevokeKey, Revokes, membersData
<1>6. ASSUME NEW q \in Request, FinishChange(q)
      PROVE  sessionOf'[s] \in {None, sessionOf[s]}
  BY <1>6 DEF FinishChange, Revokes
<1>7. ASSUME NEW t \in Session, SessionExpires(t)
      PROVE  sessionOf'[s] \in {None, sessionOf[s]}
  BY <1>7 DEF SessionExpires, Revokes
<1>8. ASSUME NEW c \in Code, CodeExpires(c)
      PROVE  sessionOf'[s] \in {None, sessionOf[s]}
  BY <1>8 DEF CodeExpires
<1> QED
  BY <1>1, <1>2, <1>3, <1>4, <1>5, <1>6, <1>7, <1>8, Zenon DEF MembersNext, Setup

\* So is a key created.
LEMMA KeysGrow ==
  ASSUME MembersTypeOK, MembersNext, NEW k \in ApiKey
  PROVE  keyOf'[k] \in {None, keyOf[k]} \/ status'[keyOf'[k]] = "active"
<1> USE DEF codeVars, keyVars, memberVars
<1>1. ASSUME NEW q \in Request, \/ \E m \in Member : BeginSetup(q, m) \/ BeginRecovery(q, m) \/ BeginLogin(q, m)
                                \/ \E c \in Code : BeginRedeem(q, c)
                                \/ \E t \in Session : AuthenticateSession(q, t)
                                \/ \E l \in ApiKey : AuthenticateKey(q, l)
                                \/ RefuseRedeem(q) \/ RequestDies(q)
      PROVE  keyOf'[k] \in {None, keyOf[k]}
  BY <1>1 DEF BeginSetup, BeginRecovery, BeginLogin, BeginRedeem, AuthenticateSession, AuthenticateKey,
              RefuseRedeem, RequestDies, membersData
<1>2. ASSUME NEW q \in Request, Setup(q) \/ Recovery(q) PROVE keyOf'[k] \in {None, keyOf[k]}
  BY <1>2 DEF Setup, AddAdmin, ClaimAdmin, StoreFirstPassword, ActivateFirst, MarkBootstrap,
              OpenFirstSession, Recovery, RecoverStore, RecoverActivate, RecoverRevoke, RecoverMark
<1>3. ASSUME NEW q \in Request, FinishLogin(q) \/ FinishRedeem(q) \/ FinishChange(q)
      PROVE  keyOf'[k] \in {None, keyOf[k]}
  BY <1>3 DEF FinishLogin, FinishRedeem, FinishChange
<1>4. ASSUME NEW q \in Request, Handles(q)
      PROVE  keyOf'[k] \in {None, keyOf[k]} \/ status'[keyOf'[k]] = "active"
  <2>1. ASSUME NEW l \in ApiKey, NEW m \in Member, NEW a \in BOOLEAN, CreateKey(q, l, m, a)
        PROVE  keyOf'[k] \in {None, keyOf[k]} \/ status'[keyOf'[k]] = "active"
    BY <2>1 DEF CreateKey, MembersTypeOK
  <2>2. ASSUME ~\E l \in ApiKey, m \in Member, a \in BOOLEAN : CreateKey(q, l, m, a)
        PROVE  keyOf'[k] \in {None, keyOf[k]}
    BY <1>4, <2>2 DEF Handles, ReadsOnly, BeginChange, CreateMember, IssueCode, PatchMember,
              DeleteMember, RevokeSession, UpdateKey, RevokeKey, DeletesKeys, membersData
  <2> QED
    BY <2>1, <2>2
<1>5. ASSUME \/ \E s \in Session : SessionExpires(s)
             \/ \E c \in Code : CodeExpires(c)
      PROVE  keyOf'[k] \in {None, keyOf[k]}
  BY <1>5 DEF SessionExpires, CodeExpires
<1> QED
  BY <1>1, <1>2, <1>3, <1>4, <1>5, Zenon DEF MembersNext

\* Who is suspended by a step is left without a session and without a key by it.
LEMMA Suspension ==
  ASSUME MembersTypeOK, MembersNext, NEW m \in Member, status'[m] = "suspended"
  PROVE  \/ status[m] = "suspended"
         \/ SessionsOf(m)' = {} /\ KeysOf(m)' = {}
<1> USE DEF codeVars, keyVars, memberVars
<1>1. ASSUME NEW q \in Request, \/ \E n \in Member : BeginSetup(q, n) \/ BeginRecovery(q, n) \/ BeginLogin(q, n)
                                \/ \E c \in Code : BeginRedeem(q, c)
                                \/ \E t \in Session : AuthenticateSession(q, t)
                                \/ \E l \in ApiKey : AuthenticateKey(q, l)
                                \/ RefuseRedeem(q) \/ RequestDies(q)
      PROVE  status'[m] = status[m]
  BY <1>1 DEF BeginSetup, BeginRecovery, BeginLogin, BeginRedeem, AuthenticateSession, AuthenticateKey,
              RefuseRedeem, RequestDies, membersData
<1>2. ASSUME NEW q \in Request, Setup(q) PROVE status[m] = "suspended"
  BY <1>2 DEF Setup, AddAdmin, ClaimAdmin, StoreFirstPassword, ActivateFirst, MarkBootstrap,
              OpenFirstSession, SetStatus, MembersTypeOK
<1>3. ASSUME NEW q \in Request, Recovery(q) PROVE status[m] = "suspended"
  BY <1>3 DEF Recovery, RecoverStore, RecoverActivate, RecoverRevoke, RecoverMark, SetStatus, MembersTypeOK
<1>4. ASSUME NEW q \in Request, FinishLogin(q) \/ FinishRedeem(q) \/ FinishChange(q)
      PROVE  status[m] = "suspended"
  BY <1>4 DEF FinishLogin, FinishRedeem, FinishChange, SetStatus, StatusAfterRedeem, MembersTypeOK
<1>5. ASSUME NEW q \in Request, Handles(q)
      PROVE  \/ status[m] = "suspended"
             \/ SessionsOf(m)' = {} /\ KeysOf(m)' = {}
  <2>1. ASSUME NEW n \in Member, NEW r \in Role, NEW s \in {"same", "active", "suspended"},
               NEW e \in BOOLEAN, PatchMember(q, n, r, s, e)
        PROVE  \/ status[m] = "suspended"
               \/ SessionsOf(m)' = {} /\ KeysOf(m)' = {}
    <3>1. CASE s = "suspended" /\ m = n
      <4>1. sessionOf' = [t \in Session |-> IF t \in SessionsOf(m) THEN None ELSE sessionOf[t]]
        BY <2>1, <3>1 DEF PatchMember, Revokes
      <4>2. keyOf' = [k \in ApiKey |-> IF k \in KeysOf(m) THEN None ELSE keyOf[k]]
        BY <2>1, <3>1 DEF PatchMember, DeletesKeys
      <4> QED
        BY <4>1, <4>2, MembersAssumption DEF SessionsOf, KeysOf
    <3>2. CASE ~(s = "suspended" /\ m = n)
      BY <2>1, <3>2 DEF PatchMember, SetStatus, MembersTypeOK
    <3> QED
      BY <3>1, <3>2
  <2>2. ASSUME NEW n \in Member, NEW r \in Role, NEW c \in Code, CreateMember(q, n, r, c)
        PROVE  status[m] = "suspended"
    BY <2>2 DEF CreateMember, SetStatus, MembersTypeOK
  <2>3. ASSUME NEW n \in Member, DeleteMember(q, n) PROVE status[m] = "suspended"
    BY <2>3 DEF DeleteMember, SetStatus, MembersTypeOK
  <2>4. ASSUME \/ ReadsOnly(q) \/ BeginChange(q)
               \/ \E n \in Member, kind \in Kind, c \in Code : IssueCode(q, n, kind, c)
               \/ \E s \in Session : RevokeSession(q, s)
               \/ \E k \in ApiKey, n \in Member, a \in BOOLEAN : CreateKey(q, k, n, a)
               \/ \E k \in ApiKey, a \in BOOLEAN : UpdateKey(q, k, a)
               \/ \E k \in ApiKey : RevokeKey(q, k)
        PROVE  status[m] = "suspended"
    BY <2>4 DEF ReadsOnly, BeginChange, IssueCode, RevokeSession, CreateKey, UpdateKey, RevokeKey, membersData
  <2> QED
    BY <1>5, <2>1, <2>2, <2>3, <2>4, Zenon DEF Handles
<1>6. ASSUME \/ \E s \in Session : SessionExpires(s)
             \/ \E c \in Code : CodeExpires(c)
      PROVE  status[m] = "suspended"
  BY <1>6 DEF SessionExpires, CodeExpires
<1> QED
  BY <1>1, <1>2, <1>3, <1>4, <1>5, <1>6, Zenon DEF MembersNext

LEMMA SuspendedIsOutStep ==
  ASSUME MembersTypeOK, SuspendedIsOut, [MembersNext]_membersVars
  PROVE  SuspendedIsOut'
<1>1. CASE UNCHANGED membersVars
  BY <1>1 DEF SuspendedIsOut, SessionsOf, KeysOf, membersVars, membersData, memberVars, keyVars
<1>2. CASE MembersNext
  <2> SUFFICES ASSUME NEW m \in Member, status'[m] = "suspended"
               PROVE  SessionsOf(m)' = {} /\ KeysOf(m)' = {}
    BY DEF SuspendedIsOut
  <2>1. CASE status[m] = "suspended"
    <3>1. \A s \in Session : sessionOf'[s] # m
      <4> SUFFICES ASSUME NEW s \in Session, sessionOf'[s] = m PROVE FALSE
        OBVIOUS
      <4>1. sessionOf[s] = m
        BY <1>2, SessionsGrow, MembersAssumption
      <4> QED
        BY <2>1, <4>1 DEF SuspendedIsOut, SessionsOf
    <3>2. \A k \in ApiKey : keyOf'[k] # m
      <4> SUFFICES ASSUME NEW k \in ApiKey, keyOf'[k] = m PROVE FALSE
        OBVIOUS
      <4>1. keyOf[k] = m
        BY <1>2, KeysGrow, MembersAssumption
      <4> QED
        BY <2>1, <4>1 DEF SuspendedIsOut, KeysOf
    <3> QED
      BY <3>1, <3>2 DEF SessionsOf, KeysOf
  <2>2. CASE status[m] # "suspended"
    BY <1>2, <2>2, Suspension
  <2> QED
    BY <2>1, <2>2
<1> QED
  BY <1>1, <1>2

\* A member keeps the email and the password, unless deleted, with every code.
LEMMA MembersStay ==
  ASSUME MembersTypeOK, MembersNext, NEW m \in Member, Exists(m)
  PROVE  \/ status'[m] = "absent" /\ \A c \in Code : codeOf'[c] # m
         \/ Exists(m)' /\ (email[m] => email'[m]) /\ (password[m] => password'[m])
<1> DEFINE Kept == Exists(m)' /\ (email[m] => email'[m]) /\ (password[m] => password'[m])
<1> USE DEF codeVars, keyVars, memberVars, Exists
<1>1. ASSUME NEW q \in Request, \/ \E n \in Member : BeginSetup(q, n) \/ BeginRecovery(q, n) \/ BeginLogin(q, n)
                                \/ \E c \in Code : BeginRedeem(q, c)
                                \/ \E t \in Session : AuthenticateSession(q, t)
                                \/ \E l \in ApiKey : AuthenticateKey(q, l)
                                \/ RefuseRedeem(q) \/ RequestDies(q)
      PROVE  Kept
  BY <1>1 DEF BeginSetup, BeginRecovery, BeginLogin, BeginRedeem, AuthenticateSession, AuthenticateKey,
              RefuseRedeem, RequestDies, membersData
<1>2. ASSUME NEW q \in Request, Setup(q) PROVE Kept
  BY <1>2 DEF Setup, AddAdmin, ClaimAdmin, StoreFirstPassword, ActivateFirst, MarkBootstrap,
              OpenFirstSession, SetStatus, SetPassword, MembersTypeOK
<1>3. ASSUME NEW q \in Request, Recovery(q) PROVE Kept
  BY <1>3 DEF Recovery, RecoverStore, RecoverActivate, RecoverRevoke, RecoverMark, SetStatus, SetPassword,
              MembersTypeOK
<1>4. ASSUME NEW q \in Request, FinishLogin(q) \/ FinishRedeem(q) \/ FinishChange(q) PROVE Kept
  BY <1>4 DEF FinishLogin, FinishRedeem, FinishChange, SetStatus, SetPassword, StatusAfterRedeem, MembersTypeOK
<1>5. ASSUME NEW q \in Request, NEW n \in Member, DeleteMember(q, n)
      PROVE  Kept \/ (status'[m] = "absent" /\ \A c \in Code : codeOf'[c] # m)
  BY <1>5, MembersAssumption DEF DeleteMember, SetStatus, MembersTypeOK
<1>6. ASSUME NEW q \in Request, NEW n \in Member, NEW r \in Role, NEW s \in {"same", "active", "suspended"},
             NEW e \in BOOLEAN, PatchMember(q, n, r, s, e)
      PROVE  Kept
  <2>1. Exists(m)'
    BY <1>6 DEF PatchMember, SetStatus, MembersTypeOK
  <2>2. email[m] => email'[m]
    <3>1. email' = [email EXCEPT ![n] = @ \/ e]
      BY <1>6 DEF PatchMember
    <3> QED
      BY <3>1, Zenon DEF MembersTypeOK
  <2> QED
    BY <1>6, <2>1, <2>2 DEF PatchMember
<1>7. ASSUME NEW q \in Request,
             \/ ReadsOnly(q) \/ BeginChange(q)
             \/ \E n \in Member, r \in Role, c \in Code : CreateMember(q, n, r, c)
             \/ \E n \in Member, kind \in Kind, c \in Code : IssueCode(q, n, kind, c)
             \/ \E s \in Session : RevokeSession(q, s)
             \/ \E k \in ApiKey, n \in Member, a \in BOOLEAN : CreateKey(q, k, n, a)
             \/ \E k \in ApiKey, a \in BOOLEAN : UpdateKey(q, k, a)
             \/ \E k \in ApiKey : RevokeKey(q, k)
      PROVE  Kept
  BY <1>7 DEF ReadsOnly, BeginChange, CreateMember, IssueCode, RevokeSession, CreateKey, UpdateKey, RevokeKey,
              SetStatus, MembersTypeOK, membersData
<1>8. ASSUME \/ \E s \in Session : SessionExpires(s)
             \/ \E c \in Code : CodeExpires(c)
      PROVE  Kept
  BY <1>8 DEF SessionExpires, CodeExpires
<1> QED
  BY <1>1, <1>2, <1>3, <1>4, <1>5, <1>6, <1>7, <1>8, Zenon DEF MembersNext, Handles

\* A code stays as it is, stops working, is redeemed or is issued anew.
LEMMA CodesMove ==
  ASSUME MembersTypeOK, MembersNext, NEW c \in Code
  PROVE  \/ codeOf'[c] \in {None, codeOf[c]} /\ codeKind'[c] = codeKind[c] /\ spent'[c] = spent[c]
         \/ codeOf[c] # None /\ codeOf'[c] = None /\ spent'[c] = spent[c] + 1
         \/ /\ codeOf'[c] # None /\ spent'[c] = 0
            /\ status'[codeOf'[c]] # "absent" /\ (codeKind'[c] = "enrollment" => email'[codeOf'[c]])
<1> DEFINE Kept == codeOf'[c] \in {None, codeOf[c]} /\ codeKind'[c] = codeKind[c] /\ spent'[c] = spent[c]
           Spends == codeOf[c] # None /\ codeOf'[c] = None /\ spent'[c] = spent[c] + 1
           Issued == /\ codeOf'[c] # None /\ spent'[c] = 0
                     /\ status'[codeOf'[c]] # "absent" /\ (codeKind'[c] = "enrollment" => email'[codeOf'[c]])
<1> USE DEF codeVars, keyVars, memberVars
<1>1. ASSUME NEW q \in Request, \/ \E n \in Member : BeginSetup(q, n) \/ BeginRecovery(q, n) \/ BeginLogin(q, n)
                                \/ \E d \in Code : BeginRedeem(q, d)
                                \/ \E t \in Session : AuthenticateSession(q, t)
                                \/ \E l \in ApiKey : AuthenticateKey(q, l)
                                \/ RefuseRedeem(q) \/ RequestDies(q)
      PROVE  Kept
  BY <1>1 DEF BeginSetup, BeginRecovery, BeginLogin, BeginRedeem, AuthenticateSession, AuthenticateKey,
              RefuseRedeem, RequestDies, membersData
<1>2. ASSUME NEW q \in Request, Setup(q) \/ Recovery(q) PROVE Kept
  BY <1>2 DEF Setup, AddAdmin, ClaimAdmin, StoreFirstPassword, ActivateFirst, MarkBootstrap,
              OpenFirstSession, Recovery, RecoverStore, RecoverActivate, RecoverRevoke, RecoverMark
<1>3. ASSUME NEW q \in Request, FinishLogin(q) \/ FinishChange(q) PROVE Kept
  BY <1>3 DEF FinishLogin, FinishChange
<1>4. ASSUME NEW q \in Request, FinishRedeem(q) PROVE Kept \/ Spends
  <2>1. who[q] \in Member /\ via[q] \in Code /\ codeOf[via[q]] = who[q]
    BY <1>4 DEF FinishRedeem, Redeems, MembersTypeOK
  <2>2. /\ codeOf' = [codeOf EXCEPT ![via[q]] = None]
        /\ spent' = [spent EXCEPT ![via[q]] = @ + 1]
        /\ UNCHANGED codeKind
    BY <1>4 DEF FinishRedeem
  <2> QED
    BY <2>1, <2>2, MembersAssumption DEF MembersTypeOK
<1>5. ASSUME NEW q \in Request, NEW m \in Member, NEW r \in Role, NEW d \in Code, CreateMember(q, m, r, d)
      PROVE  Kept \/ Issued
  <2>1. Exists(m)' /\ email'[m]
    BY <1>5 DEF CreateMember, SetStatus, Exists, MembersTypeOK
  <2>2. Issues(d, m, "enrollment")
    BY <1>5 DEF CreateMember
  <2> QED
    BY <2>1, <2>2, MembersAssumption DEF Issues, Exists, MembersTypeOK
<1>6. ASSUME NEW q \in Request, NEW m \in Member, NEW kind \in Kind, NEW d \in Code, IssueCode(q, m, kind, d)
      PROVE  Kept \/ Issued
  <2>1. Exists(m)' /\ (kind = "enrollment" => email'[m])
    BY <1>6 DEF IssueCode, StatusFor, Exists, MembersTypeOK
  <2>2. Issues(d, m, kind)
    BY <1>6 DEF IssueCode
  <2> QED
    BY <2>1, <2>2, MembersAssumption DEF Issues, Exists, MembersTypeOK
<1>7. ASSUME NEW q \in Request,
             \/ ReadsOnly(q) \/ BeginChange(q)
             \/ \E n \in Member, r \in Role, s \in {"same", "active", "suspended"}, e \in BOOLEAN :
                  PatchMember(q, n, r, s, e)
             \/ \E n \in Member : DeleteMember(q, n)
             \/ \E s \in Session : RevokeSession(q, s)
             \/ \E k \in ApiKey, n \in Member, a \in BOOLEAN : CreateKey(q, k, n, a)
             \/ \E k \in ApiKey, a \in BOOLEAN : UpdateKey(q, k, a)
             \/ \E k \in ApiKey : RevokeKey(q, k)
      PROVE  Kept
  BY <1>7 DEF ReadsOnly, BeginChange, PatchMember, DeleteMember, RevokeSession, CreateKey, UpdateKey, RevokeKey,
              membersData
<1>8. ASSUME \/ \E s \in Session : SessionExpires(s)
             \/ \E d \in Code : CodeExpires(d)
      PROVE  Kept
  BY <1>8 DEF SessionExpires, CodeExpires, MembersTypeOK
<1> QED
  BY <1>1, <1>2, <1>3, <1>4, <1>5, <1>6, <1>7, <1>8, Zenon DEF MembersNext, Handles

LEMMA CodesAreSoundStep ==
  ASSUME MembersTypeOK, CodesAreSound, [MembersNext]_membersVars
  PROVE  CodesAreSound'
<1>1. CASE UNCHANGED membersVars
  BY <1>1 DEF CodesAreSound, Exists, membersVars, membersData, memberVars, codeVars
<1>2. CASE MembersNext
  <2> SUFFICES ASSUME NEW c \in Code, codeOf'[c] # None
               PROVE  /\ spent'[c] = 0
                      /\ status'[codeOf'[c]] # "absent"
                      /\ codeKind'[c] = "enrollment" => email'[codeOf'[c]]
    BY DEF CodesAreSound, Exists
  <2>1. CASE codeOf'[c] = codeOf[c] /\ codeKind'[c] = codeKind[c] /\ spent'[c] = spent[c]
    <3> DEFINE m == codeOf[c]
    <3>1. /\ m \in Member /\ Exists(m) /\ spent[c] = 0
          /\ codeKind[c] = "enrollment" => email[m]
      BY <2>1 DEF CodesAreSound, MembersTypeOK
    <3>2. Exists(m)' /\ (email[m] => email'[m])
      BY <1>2, <2>1, <3>1, MembersStay
    <3> QED
      BY <2>1, <3>1, <3>2 DEF Exists
  <2> QED
    BY <1>2, <2>1, CodesMove
<1> QED
  BY <1>1, <1>2

LEMMA CodeWorksOnceStep ==
  ASSUME MembersTypeOK, CodesAreSound, CodeWorksOnce, [MembersNext]_membersVars
  PROVE  CodeWorksOnce'
<1>1. CASE UNCHANGED membersVars
  BY <1>1 DEF CodeWorksOnce, membersVars, membersData, codeVars
<1>2. CASE MembersNext
  BY <1>2, CodesMove DEF CodesAreSound, CodeWorksOnce
<1> QED
  BY <1>1, <1>2

MembersIInv == MembersTypeOK /\ CodesAreSound /\ CodeWorksOnce /\ SuspendedIsOut

LEMMA MembersInvariance == MembersSpec => []MembersIInv
<1>1. MembersInit => MembersIInv
  <2>1. MembersInit => CodesAreSound /\ CodeWorksOnce
    BY DEF MembersInit, CodesAreSound, CodeWorksOnce
  <2>2. MembersInit => SuspendedIsOut
    BY DEF MembersInit, SuspendedIsOut
  <2> QED
    BY <2>1, <2>2, MembersInitType DEF MembersIInv
<1>2. MembersIInv /\ [MembersNext]_membersVars => MembersIInv'
  BY MembersTypeStep, CodesAreSoundStep, CodeWorksOnceStep, SuspendedIsOutStep DEF MembersIInv
<1> QED
  BY <1>1, <1>2, PTL DEF MembersSpec

\* Members, codes, sessions, keys and requests keep their types.
THEOREM MembersTypesAreKept == MembersSpec => []MembersTypeOK
<1>1. MembersIInv => MembersTypeOK
  BY DEF MembersIInv
<1> QED
  BY <1>1, MembersInvariance, PTL

\* updateMember revokes the sessions and deletes the keys of the member it suspends, and
\* nothing that was under way then (a login, a redemption, a key being created) leaves the
\* member a new one: issueSession and createApiKey read the status again.
THEOREM SuspendedAreOut == MembersSpec => []SuspendedIsOut
<1>1. MembersIInv => SuspendedIsOut
  BY DEF MembersIInv
<1> QED
  BY <1>1, MembersInvariance, PTL

\* consumeMemberAuthToken claims the code in its transaction: however many requests carry it,
\* one of them sets the password.
THEOREM CodesWorkOnce == MembersSpec => []CodeWorksOnce
<1>1. MembersIInv => CodeWorksOnce
  BY DEF MembersIInv
<1> QED
  BY <1>1, MembersInvariance, PTL

-----------------------------------------------------------------------------
(* Members: nobody is locked out.                                          *)
(*                                                                         *)
(* Setup and recovery are run one at a time on the instance host.          *)

OneCommand == \A p, q \in Command : p = q

Early == {"setup", "store", "activate", "mark"}

\* Before an instance is set up there is nothing to come in with: only setup runs.
NothingWorks ==
  ~bootstrapped => /\ \A c \in Code : codeOf[c] = None
                   /\ \A s \in Session : sessionOf[s] = None
                   /\ \A k \in ApiKey : keyOf[k] = None
                   /\ \A q \in Request : at[q] # "idle" => q \in Command /\ at[q] \in Early
SetupIsOver == bootstrapped => \A q \in Request : at[q] \notin Early

\* The one whom a setup makes the administrator is there, and is one.
SetupIsSound ==
  \A q \in Request :
    /\ (at[q] \in {"store", "activate", "mark"} \/ (at[q] = "setup" /\ noted[q]))
         => Exists(who[q]) /\ role[who[q]] = "admin"
    /\ at[q] = "mark" => status[who[q]] = "active"

\* Who is about to be activated has an email and a password, unless deleted meanwhile.
CommandsAreSound ==
  \A q \in Request :
    Exists(who[q]) =>
      /\ at[q] \in {"store", "activate", "recover", "recoverActivate"} => email[who[q]]
      /\ at[q] \in {"activate", "recoverActivate"} => password[who[q]]

SomeAdmin == ~bootstrapped => \/ \A m \in Member : ~Exists(m)
                              \/ \E m \in Member : Exists(m) /\ role[m] = "admin"

LEMMA FirstSteps ==
  ASSUME MembersTypeOK, NothingWorks, ~bootstrapped, MembersNext
  PROVE  \E q \in Command :
           /\ \A p \in Request : at[p] # "idle" => p \in Command
           /\ \/ \E m \in Member : BeginSetup(q, m)
              \/ AddAdmin(q) \/ ClaimAdmin(q) \/ StoreFirstPassword(q) \/ ActivateFirst(q)
              \/ MarkBootstrap(q) \/ RequestDies(q)
<1>1. \A q \in Request : at[q] # "idle" => q \in Command /\ at[q] \in Early
  BY DEF NothingWorks
<1>2. ASSUME NEW q \in Request,
             \/ OpenFirstSession(q) \/ Recovery(q) \/ Handles(q)
             \/ FinishLogin(q) \/ FinishRedeem(q) \/ RefuseRedeem(q) \/ FinishChange(q)
      PROVE  FALSE
  <2>1. at[q] \notin {"idle"} \cup Early
    <3>1. CASE Handles(q)
      BY <3>1 DEF Handles, ReadsOnly, BeginChange, CreateMember, IssueCode, PatchMember, DeleteMember,
                  RevokeSession, CreateKey, UpdateKey, RevokeKey, Administers, Interactive, Early
    <3>2. CASE ~Handles(q)
      BY <1>2, <3>2 DEF OpenFirstSession, Recovery, RecoverStore, RecoverActivate, RecoverRevoke, RecoverMark,
                        FinishLogin, FinishRedeem, RefuseRedeem, FinishChange, Redeems, Early
    <3> QED
      BY <3>1, <3>2
  <2> QED
    BY <1>1, <2>1
<1>3. ASSUME NEW q \in Request,
             \/ \E m \in Member : BeginRecovery(q, m) \/ BeginLogin(q, m)
             \/ \E c \in Code : BeginRedeem(q, c)
             \/ \E s \in Session : AuthenticateSession(q, s)
             \/ \E k \in ApiKey : AuthenticateKey(q, k)
      PROVE  FALSE
  BY <1>3 DEF BeginRecovery, BeginLogin, BeginRedeem, AuthenticateSession, AuthenticateKey, NothingWorks
<1>4. ASSUME \/ \E s \in Session : SessionExpires(s)
             \/ \E c \in Code : CodeExpires(c)
      PROVE  FALSE
  BY <1>4 DEF SessionExpires, CodeExpires, NothingWorks
<1>5. PICK q \in Request :
        \/ \E m \in Member : BeginSetup(q, m)
        \/ AddAdmin(q) \/ ClaimAdmin(q) \/ StoreFirstPassword(q) \/ ActivateFirst(q)
        \/ MarkBootstrap(q) \/ RequestDies(q)
  BY <1>2, <1>3, <1>4, Zenon DEF MembersNext, Setup
<1>6. q \in Command
  <2>1. CASE \E m \in Member : BeginSetup(q, m)
    BY <2>1 DEF BeginSetup
  <2>2. CASE at[q] # "idle"
    BY <1>1, <2>2
  <2> QED
    BY <1>5, <2>1, <2>2 DEF AddAdmin, ClaimAdmin, StoreFirstPassword, ActivateFirst, MarkBootstrap, RequestDies
<1> QED
  BY <1>1, <1>5, <1>6

\* A request stays where it is, ends, goes on where nothing is claimed of it, or takes a
\* step of setup or recovery.
LEMMA RequestsMove ==
  ASSUME MembersTypeOK, MembersNext, NEW p \in Request
  PROVE  \/ UNCHANGED <<at[p], who[p], noted[p]>>
         \/ at'[p] \in {"idle", "verify", "redeem", "act", "change", "open", "recoverRevoke", "recoverMark"}
         \/ \E m \in Member : BeginSetup(p, m) \/ BeginRecovery(p, m)
         \/ AddAdmin(p) \/ ClaimAdmin(p) \/ StoreFirstPassword(p) \/ ActivateFirst(p) \/ RecoverStore(p)
<1> DEFINE Same == UNCHANGED <<at[p], who[p], noted[p]>>
           Elsewhere == at'[p] \in {"idle", "verify", "redeem", "act", "change", "open",
                                    "recoverRevoke", "recoverMark"}
<1>1. ASSUME NEW q \in Request, Ends(q) PROVE Same \/ Elsewhere
  BY <1>1 DEF Ends, Moves, MembersTypeOK
<1>2. ASSUME NEW q \in Request, NEW place, Moves(q, place), Stays(q)
      PROVE  Same \/ (p = q /\ at'[p] = place)
  BY <1>2 DEF Moves, Stays, MembersTypeOK
<1>3. ASSUME NEW q \in Request, NEW place, NEW m, NEW thing, NEW note, Begins(q, place, m, thing, note)
      PROVE  Same \/ (p = q /\ at'[p] = place)
  BY <1>3 DEF Begins, Moves, MembersTypeOK
<1>4. ASSUME NEW q \in Request, NEW m \in Member, BeginSetup(q, m) \/ BeginRecovery(q, m)
      PROVE  Same \/ BeginSetup(p, m) \/ BeginRecovery(p, m)
  BY <1>3, <1>4 DEF BeginSetup, BeginRecovery
<1>5. ASSUME NEW q \in Request, NEW m \in Member, BeginLogin(q, m) PROVE Same \/ Elsewhere
  BY <1>3, <1>5 DEF BeginLogin
<1>6. ASSUME NEW q \in Request, NEW c \in Code, BeginRedeem(q, c) PROVE Same \/ Elsewhere
  BY <1>3, <1>6 DEF BeginRedeem
<1>7. ASSUME NEW q \in Request, \/ \E s \in Session : AuthenticateSession(q, s)
                                \/ \E k \in ApiKey : AuthenticateKey(q, k)
      PROVE  Same \/ Elsewhere
  BY <1>7 DEF AuthenticateSession, AuthenticateKey, Moves, MembersTypeOK
<1>8. ASSUME NEW q \in Request, AddAdmin(q) \/ ClaimAdmin(q) \/ StoreFirstPassword(q) \/ ActivateFirst(q)
      PROVE  Same \/ Elsewhere \/ AddAdmin(p) \/ ClaimAdmin(p) \/ StoreFirstPassword(p) \/ ActivateFirst(p)
  BY <1>1, <1>2, <1>8 DEF AddAdmin, ClaimAdmin, StoreFirstPassword, ActivateFirst
<1>9. ASSUME NEW q \in Request, MarkBootstrap(q) \/ OpenFirstSession(q) PROVE Same \/ Elsewhere
  BY <1>1, <1>2, <1>9 DEF MarkBootstrap, OpenFirstSession
<1>10. ASSUME NEW q \in Request, Recovery(q) PROVE Same \/ Elsewhere \/ RecoverStore(p)
  BY <1>1, <1>2, <1>10 DEF Recovery, RecoverStore, RecoverActivate, RecoverRevoke, RecoverMark
<1>11. ASSUME NEW q \in Request, Handles(q) PROVE Same \/ Elsewhere
  <2>1. CASE BeginChange(q)
    BY <1>2, <2>1 DEF BeginChange
  <2>2. CASE ~BeginChange(q)
    BY <1>1, <1>11, <2>2 DEF Handles, ReadsOnly, CreateMember, IssueCode, PatchMember, DeleteMember,
                             RevokeSession, CreateKey, UpdateKey, RevokeKey
  <2> QED
    BY <2>1, <2>2
<1>12. ASSUME NEW q \in Request, FinishLogin(q) \/ FinishRedeem(q) \/ RefuseRedeem(q) \/ FinishChange(q) \/ RequestDies(q)
       PROVE  Same \/ Elsewhere
  BY <1>1, <1>12 DEF FinishLogin, FinishRedeem, RefuseRedeem, FinishChange, RequestDies
<1>13. ASSUME \/ \E s \in Session : SessionExpires(s)
              \/ \E c \in Code : CodeExpires(c)
       PROVE  Same
  BY <1>13 DEF SessionExpires, CodeExpires, requestVars
<1> QED
  BY <1>4, <1>5, <1>6, <1>7, <1>8, <1>9, <1>10, <1>11, <1>12, <1>13, Zenon DEF MembersNext, Setup

\* A new member is none that a request was about, but for the one that adds it in setup.
LEMMA NewMember ==
  ASSUME MembersTypeOK, CodesAreSound, MembersNext, NEW m \in Member, ~Exists(m), Exists(m)'
  PROVE  \/ \E q \in Request : AddAdmin(q)
         \/ \A p \in Request : who[p] # m /\ who'[p] # m
<1> USE DEF Exists, memberVars
<1>1. ASSUME NEW q \in Request, \/ \E n \in Member : BeginSetup(q, n) \/ BeginRecovery(q, n) \/ BeginLogin(q, n)
                                \/ \E c \in Code : BeginRedeem(q, c)
                                \/ \E t \in Session : AuthenticateSession(q, t)
                                \/ \E l \in ApiKey : AuthenticateKey(q, l)
                                \/ RefuseRedeem(q) \/ RequestDies(q)
      PROVE  FALSE
  BY <1>1 DEF BeginSetup, BeginRecovery, BeginLogin, BeginRedeem, AuthenticateSession, AuthenticateKey,
              RefuseRedeem, RequestDies, membersData
<1>2. ASSUME NEW q \in Request, ClaimAdmin(q) \/ StoreFirstPassword(q) \/ ActivateFirst(q)
                                \/ MarkBootstrap(q) \/ OpenFirstSession(q)
      PROVE FALSE
  BY <1>2 DEF ClaimAdmin, StoreFirstPassword, ActivateFirst, MarkBootstrap, OpenFirstSession, SetStatus,
              MembersTypeOK
<1>3. ASSUME NEW q \in Request, Recovery(q) PROVE FALSE
  BY <1>3 DEF Recovery, RecoverStore, RecoverActivate, RecoverRevoke, RecoverMark, SetStatus, MembersTypeOK
<1>4. ASSUME NEW q \in Request, FinishRedeem(q) PROVE FALSE
  <2>1. who[q] \in Member /\ via[q] \in Code /\ codeOf[via[q]] = who[q]
    BY <1>4 DEF FinishRedeem, Redeems, MembersTypeOK
  <2>2. status[who[q]] # "absent"
    BY <2>1, MembersAssumption DEF CodesAreSound
  <2> QED
    BY <1>4, <2>1, <2>2 DEF FinishRedeem, SetStatus, MembersTypeOK
<1>5. ASSUME NEW q \in Request, FinishLogin(q) \/ FinishChange(q) PROVE FALSE
  BY <1>5 DEF FinishLogin, FinishChange
<1>6. ASSUME NEW q \in Request, NEW n \in Member, NEW r \in Role, NEW c \in Code, CreateMember(q, n, r, c)
      PROVE  \A p \in Request : who[p] # m /\ who'[p] # m
  <2>1. n = m
    BY <1>6 DEF CreateMember, SetStatus, MembersTypeOK
  <2>2. who' = [who EXCEPT ![q] = None]
    BY <1>6 DEF CreateMember, Ends
  <2> QED
    BY <1>6, <2>1, <2>2, MembersAssumption DEF CreateMember, MembersTypeOK
<1>7. ASSUME NEW q \in Request, NEW n \in Member, NEW r \in Role, NEW s \in {"same", "active", "suspended"},
             NEW e \in BOOLEAN, PatchMember(q, n, r, s, e)
      PROVE  FALSE
  BY <1>7 DEF PatchMember, SetStatus, MembersTypeOK
<1>8. ASSUME NEW q \in Request,
             \/ ReadsOnly(q) \/ BeginChange(q)
             \/ \E n \in Member, kind \in Kind, c \in Code : IssueCode(q, n, kind, c)
             \/ \E n \in Member : DeleteMember(q, n)
             \/ \E s \in Session : RevokeSession(q, s)
             \/ \E k \in ApiKey, n \in Member, a \in BOOLEAN : CreateKey(q, k, n, a)
             \/ \E k \in ApiKey, a \in BOOLEAN : UpdateKey(q, k, a)
             \/ \E k \in ApiKey : RevokeKey(q, k)
      PROVE  FALSE
  BY <1>8 DEF ReadsOnly, BeginChange, IssueCode, DeleteMember, RevokeSession, CreateKey, UpdateKey, RevokeKey,
              SetStatus, MembersTypeOK, membersData
<1>9. ASSUME \/ \E s \in Session : SessionExpires(s)
             \/ \E c \in Code : CodeExpires(c)
      PROVE  FALSE
  BY <1>9 DEF SessionExpires, CodeExpires
<1> QED
  BY <1>1, <1>2, <1>3, <1>4, <1>5, <1>6, <1>7, <1>8, <1>9, Zenon DEF MembersNext, Setup, Handles

\* Whoever becomes active has a password and an email by then.
LEMMA Activation ==
  ASSUME MembersTypeOK, CodesAreSound, CommandsAreSound, MembersNext,
         NEW m \in Member, status[m] # "active", status'[m] = "active"
  PROVE  password'[m] /\ email'[m]
<1> USE DEF memberVars
<1>1. ASSUME NEW q \in Request, \/ \E n \in Member : BeginSetup(q, n) \/ BeginRecovery(q, n) \/ BeginLogin(q, n)
                                \/ \E c \in Code : BeginRedeem(q, c)
                                \/ \E t \in Session : AuthenticateSession(q, t)
                                \/ \E l \in ApiKey : AuthenticateKey(q, l)
                                \/ RefuseRedeem(q) \/ RequestDies(q)
      PROVE  FALSE
  BY <1>1 DEF BeginSetup, BeginRecovery, BeginLogin, BeginRedeem, AuthenticateSession, AuthenticateKey,
              RefuseRedeem, RequestDies, membersData
<1>2. ASSUME NEW q \in Request, AddAdmin(q) \/ ClaimAdmin(q) \/ StoreFirstPassword(q)
                                \/ MarkBootstrap(q) \/ OpenFirstSession(q)
      PROVE FALSE
  BY <1>2 DEF AddAdmin, ClaimAdmin, StoreFirstPassword, MarkBootstrap, OpenFirstSession, SetStatus,
              MembersTypeOK
<1>3. ASSUME NEW q \in Request, RecoverStore(q) \/ RecoverRevoke(q) \/ RecoverMark(q)
                                \/ FinishLogin(q) \/ FinishChange(q)
      PROVE  FALSE
  BY <1>3 DEF RecoverStore, RecoverRevoke, RecoverMark, FinishLogin, FinishChange
<1>4. ASSUME NEW q \in Request, ActivateFirst(q) PROVE password'[m] /\ email'[m]
  <2>1. who[q] = m /\ Exists(who[q]) /\ at[q] = "activate" /\ UNCHANGED <<password, email>>
    BY <1>4 DEF ActivateFirst, SetStatus, MembersTypeOK
  <2> QED
    BY <2>1 DEF CommandsAreSound
<1>5. ASSUME NEW q \in Request, RecoverActivate(q) PROVE password'[m] /\ email'[m]
  <2>1. who[q] = m /\ Exists(who[q]) /\ at[q] = "recoverActivate" /\ UNCHANGED <<password, email>>
    BY <1>5 DEF RecoverActivate, SetStatus, MembersTypeOK
  <2> QED
    BY <2>1 DEF CommandsAreSound
<1>6. ASSUME NEW q \in Request, FinishRedeem(q) PROVE password'[m] /\ email'[m]
  <2>1. who[q] \in Member /\ via[q] \in Code /\ codeOf[via[q]] = who[q]
    BY <1>6 DEF FinishRedeem, Redeems, MembersTypeOK
  <2>2. m = who[q] /\ codeKind[via[q]] = "enrollment"
    BY <1>6 DEF FinishRedeem, SetStatus, StatusAfterRedeem, MembersTypeOK
  <2>3. email[m]
    BY <2>1, <2>2, MembersAssumption DEF CodesAreSound
  <2> QED
    BY <1>6, <2>2, <2>3 DEF FinishRedeem, SetPassword, MembersTypeOK
<1>7. ASSUME NEW q \in Request, NEW n \in Member, NEW r \in Role, NEW s \in {"same", "active", "suspended"},
             NEW e \in BOOLEAN, PatchMember(q, n, r, s, e)
      PROVE  password'[m] /\ email'[m]
  <2>1. n = m /\ s = "active"
    BY <1>7 DEF PatchMember, SetStatus, MembersTypeOK
  <2>2. (e \/ email[m]) /\ password[m]
    BY <1>7, <2>1 DEF PatchMember, MayBecome
  <2>3. email' = [email EXCEPT ![m] = @ \/ e] /\ password' = password
    BY <1>7, <2>1 DEF PatchMember
  <2> QED
    BY <2>2, <2>3, Zenon DEF MembersTypeOK
<1>8. ASSUME NEW q \in Request,
             \/ ReadsOnly(q) \/ BeginChange(q)
             \/ \E n \in Member, r \in Role, c \in Code : CreateMember(q, n, r, c)
             \/ \E n \in Member, kind \in Kind, c \in Code : IssueCode(q, n, kind, c)
             \/ \E n \in Member : DeleteMember(q, n)
             \/ \E s \in Session : RevokeSession(q, s)
             \/ \E k \in ApiKey, n \in Member, a \in BOOLEAN : CreateKey(q, k, n, a)
             \/ \E k \in ApiKey, a \in BOOLEAN : UpdateKey(q, k, a)
             \/ \E k \in ApiKey : RevokeKey(q, k)
      PROVE  FALSE
  BY <1>8 DEF ReadsOnly, BeginChange, CreateMember, IssueCode, DeleteMember, RevokeSession, CreateKey, UpdateKey,
              RevokeKey, SetStatus, MembersTypeOK, membersData
<1>9. ASSUME \/ \E s \in Session : SessionExpires(s)
             \/ \E c \in Code : CodeExpires(c)
      PROVE  FALSE
  BY <1>9 DEF SessionExpires, CodeExpires
<1> QED
  BY <1>1, <1>2, <1>3, <1>4, <1>5, <1>6, <1>7, <1>8, <1>9, Zenon DEF MembersNext, Setup, Recovery, Handles

\* Once an instance is set up, no step takes its last active administrator.
LEMMA AdminsStay ==
  ASSUME MembersTypeOK, CodesAreSound, SetupIsOver, bootstrapped, MembersNext, ActiveAdmins # {}
  PROVE  ActiveAdmins' # {}
<1> USE DEF memberVars
<1>1. PICK a \in Member : role[a] = "admin" /\ status[a] = "active"
  BY DEF ActiveAdmins
<1> DEFINE StaysAdmin(n) == role'[n] = "admin" /\ status'[n] = "active"
<1>2. ASSUME NEW n \in Member, StaysAdmin(n) PROVE ActiveAdmins' # {}
  BY <1>2 DEF ActiveAdmins
<1>3. ASSUME NEW q \in Request, \/ \E n \in Member : BeginSetup(q, n) \/ BeginRecovery(q, n) \/ BeginLogin(q, n)
                                \/ \E c \in Code : BeginRedeem(q, c)
                                \/ \E t \in Session : AuthenticateSession(q, t)
                                \/ \E l \in ApiKey : AuthenticateKey(q, l)
                                \/ RefuseRedeem(q) \/ RequestDies(q)
      PROVE  StaysAdmin(a)
  BY <1>1, <1>3 DEF BeginSetup, BeginRecovery, BeginLogin, BeginRedeem, AuthenticateSession, AuthenticateKey,
              RefuseRedeem, RequestDies, membersData
<1>4. ASSUME NEW q \in Request, Setup(q) PROVE StaysAdmin(a)
  BY <1>1, <1>4 DEF Setup, AddAdmin, ClaimAdmin, StoreFirstPassword, ActivateFirst, MarkBootstrap,
              OpenFirstSession, SetupIsOver, Early
<1>5. ASSUME NEW q \in Request, Recovery(q) PROVE StaysAdmin(a)
  BY <1>1, <1>5 DEF Recovery, RecoverStore, RecoverActivate, RecoverRevoke, RecoverMark, SetStatus, MembersTypeOK
<1>6. ASSUME NEW q \in Request, FinishLogin(q) \/ FinishRedeem(q) \/ FinishChange(q) PROVE StaysAdmin(a)
  BY <1>1, <1>6 DEF FinishLogin, FinishRedeem, FinishChange, SetStatus, StatusAfterRedeem, MembersTypeOK
<1>7. ASSUME NEW q \in Request, NEW n \in Member, NEW r \in Role, NEW s \in {"same", "active", "suspended"},
             NEW e \in BOOLEAN, PatchMember(q, n, r, s, e)
      PROVE  ActiveAdmins' # {}
  <2>1. ASSUME NEW b \in Member, b # n, role[b] = "admin", status[b] = "active" PROVE ActiveAdmins' # {}
    BY <1>2, <1>7, <2>1 DEF PatchMember, SetStatus, MembersTypeOK
  <2>2. CASE a # n
    BY <1>1, <2>1, <2>2
  <2>3. CASE a = n /\ (r = "member" \/ s = "suspended")
    <3>1. NotLastAdmin(n)
      BY <1>1, <1>7, <2>3 DEF PatchMember, MayBecome
    <3>2. PICK b \in Member : b # n /\ role[b] = "admin" /\ status[b] = "active"
      BY <1>1, <2>3, <3>1 DEF NotLastAdmin, ActiveAdmins
    <3> QED
      BY <2>1, <3>2
  <2>4. CASE a = n /\ r # "member" /\ s # "suspended"
    BY <1>1, <1>2, <1>7, <2>4 DEF PatchMember, SetStatus, MembersTypeOK, Role
  <2> QED
    BY <2>2, <2>3, <2>4
<1>8. ASSUME NEW q \in Request, NEW n \in Member, DeleteMember(q, n) PROVE ActiveAdmins' # {}
  <2>1. PICK b \in Member : b # n /\ role[b] = "admin" /\ status[b] = "active"
    BY <1>1, <1>8 DEF DeleteMember, NotLastAdmin, ActiveAdmins
  <2> QED
    BY <1>2, <1>8, <2>1 DEF DeleteMember, SetStatus, MembersTypeOK
<1>9. ASSUME NEW q \in Request, NEW n \in Member, NEW r \in Role, NEW c \in Code, CreateMember(q, n, r, c)
      PROVE  StaysAdmin(a)
  BY <1>1, <1>9 DEF CreateMember, Exists, SetStatus, MembersTypeOK
<1>10. ASSUME NEW q \in Request,
             \/ ReadsOnly(q) \/ BeginChange(q)
             \/ \E n \in Member, kind \in Kind, c \in Code : IssueCode(q, n, kind, c)
             \/ \E s \in Session : RevokeSession(q, s)
             \/ \E k \in ApiKey, n \in Member, b \in BOOLEAN : CreateKey(q, k, n, b)
             \/ \E k \in ApiKey, b \in BOOLEAN : UpdateKey(q, k, b)
             \/ \E k \in ApiKey : RevokeKey(q, k)
      PROVE  StaysAdmin(a)
  BY <1>1, <1>10 DEF ReadsOnly, BeginChange, IssueCode, RevokeSession, CreateKey, UpdateKey, RevokeKey, membersData
<1>11. ASSUME \/ \E s \in Session : SessionExpires(s)
              \/ \E c \in Code : CodeExpires(c)
       PROVE  StaysAdmin(a)
  BY <1>1, <1>11 DEF SessionExpires, CodeExpires
<1> QED
  BY <1>2, <1>3, <1>4, <1>5, <1>6, <1>7, <1>8, <1>9, <1>10, <1>11, Zenon DEF MembersNext, Handles

LEMMA StaysSetUp ==
  ASSUME MembersNext, bootstrapped
  PROVE  bootstrapped'
<1>1. ASSUME NEW q \in Request, \/ \E n \in Member : BeginSetup(q, n) \/ BeginRecovery(q, n) \/ BeginLogin(q, n)
                                \/ \E c \in Code : BeginRedeem(q, c)
                                \/ \E t \in Session : AuthenticateSession(q, t)
                                \/ \E l \in ApiKey : AuthenticateKey(q, l)
                                \/ RefuseRedeem(q) \/ RequestDies(q)
      PROVE  bootstrapped'
  BY <1>1 DEF BeginSetup, BeginRecovery, BeginLogin, BeginRedeem, AuthenticateSession, AuthenticateKey,
              RefuseRedeem, RequestDies, membersData
<1>2. ASSUME NEW q \in Request, Setup(q) \/ Recovery(q) \/ FinishLogin(q) \/ FinishRedeem(q) \/ FinishChange(q)
      PROVE  bootstrapped'
  BY <1>2 DEF Setup, AddAdmin, ClaimAdmin, StoreFirstPassword, ActivateFirst, MarkBootstrap, OpenFirstSession,
              Recovery, RecoverStore, RecoverActivate, RecoverRevoke, RecoverMark,
              FinishLogin, FinishRedeem, FinishChange
<1>3. ASSUME NEW q \in Request, Handles(q) PROVE bootstrapped'
  BY <1>3 DEF Handles, ReadsOnly, BeginChange, CreateMember, IssueCode, PatchMember, DeleteMember,
              RevokeSession, CreateKey, UpdateKey, RevokeKey, membersData
<1>4. ASSUME \/ \E s \in Session : SessionExpires(s)
             \/ \E c \in Code : CodeExpires(c)
      PROVE  bootstrapped'
  BY <1>4 DEF SessionExpires, CodeExpires
<1> QED
  BY <1>1, <1>2, <1>3, <1>4, Zenon DEF MembersNext

LEMMA NothingWorksStep ==
  ASSUME MembersTypeOK, NothingWorks, MembersNext
  PROVE  NothingWorks'
<1> SUFFICES ASSUME ~bootstrapped'
             PROVE  /\ \A c \in Code : codeOf'[c] = None
                    /\ \A s \in Session : sessionOf'[s] = None
                    /\ \A k \in ApiKey : keyOf'[k] = None
                    /\ \A p \in Request : at'[p] # "idle" => p \in Command /\ at'[p] \in Early
  BY DEF NothingWorks, Early
<1>1. ~bootstrapped
  BY StaysSetUp
<1>2. PICK q \in Command :
        \/ \E m \in Member : BeginSetup(q, m)
        \/ AddAdmin(q) \/ ClaimAdmin(q) \/ StoreFirstPassword(q) \/ ActivateFirst(q)
        \/ MarkBootstrap(q) \/ RequestDies(q)
  BY <1>1, FirstSteps
<1>3. UNCHANGED <<codeOf, sessionOf, keyOf>>
  BY <1>2 DEF BeginSetup, AddAdmin, ClaimAdmin, StoreFirstPassword, ActivateFirst, MarkBootstrap, RequestDies,
              membersData, codeVars, keyVars
<1>4. ~MarkBootstrap(q)
  BY DEF MarkBootstrap
<1>5. q \in Request
  BY MembersAssumption
<1>6. \E place \in {"idle"} \cup Early : at' = [at EXCEPT ![q] = place]
  BY <1>2, <1>4 DEF BeginSetup, Begins, AddAdmin, ClaimAdmin, StoreFirstPassword, ActivateFirst, RequestDies, Ends,
                    Moves, Early
<1> QED
  BY <1>1, <1>2, <1>3, <1>5, <1>6 DEF NothingWorks, MembersTypeOK

LEMMA SetupIsOverStep ==
  ASSUME OneCommand, MembersTypeOK, NothingWorks, SetupIsOver, MembersNext
  PROVE  SetupIsOver'
<1> SUFFICES ASSUME bootstrapped', NEW p \in Request PROVE at'[p] \notin Early
  BY DEF SetupIsOver, Early
<1>1. CASE bootstrapped
  <2>1. at[p] \notin Early
    BY <1>1 DEF SetupIsOver
  <2> QED
    BY <1>1, <2>1, RequestsMove
    DEF BeginSetup, BeginRecovery, Begins, Moves, AddAdmin, ClaimAdmin, StoreFirstPassword, ActivateFirst,
        RecoverStore, Ends, Early, MembersTypeOK
<1>2. CASE ~bootstrapped
  <2>1. PICK q \in Command :
          /\ \A r \in Request : at[r] # "idle" => r \in Command
          /\ \/ \E m \in Member : BeginSetup(q, m)
             \/ AddAdmin(q) \/ ClaimAdmin(q) \/ StoreFirstPassword(q) \/ ActivateFirst(q)
             \/ MarkBootstrap(q) \/ RequestDies(q)
    BY <1>2, FirstSteps
  <2>2. MarkBootstrap(q)
    BY <1>2, <2>1 DEF BeginSetup, AddAdmin, ClaimAdmin, StoreFirstPassword, ActivateFirst, RequestDies, membersData
  <2>3. at' = [at EXCEPT ![q] = "open"]
    BY <2>2 DEF MarkBootstrap, Moves
  <2>4. p # q => at[p] = "idle"
    BY <2>1 DEF OneCommand
  <2> QED
    BY <2>3, <2>4 DEF MembersTypeOK, Early
<1> QED
  BY <1>1, <1>2

LEMMA SetupIsSoundStep ==
  ASSUME OneCommand, MembersTypeOK, NothingWorks, SetupIsSound, SetupIsOver', MembersNext
  PROVE  SetupIsSound'
<1>1. CASE bootstrapped'
  BY <1>1 DEF SetupIsSound, SetupIsOver, Early
<1>2. CASE ~bootstrapped'
  <2>1. ~bootstrapped
    BY <1>2, StaysSetUp
  <2>2. PICK q \in Command :
          /\ \A r \in Request : at[r] # "idle" => r \in Command
          /\ \/ \E m \in Member : BeginSetup(q, m)
             \/ AddAdmin(q) \/ ClaimAdmin(q) \/ StoreFirstPassword(q) \/ ActivateFirst(q)
             \/ MarkBootstrap(q) \/ RequestDies(q)
    BY <2>1, FirstSteps
  <2>3. q \in Request
    BY MembersAssumption
  <2>4. ASSUME NEW p \in Request, p # q PROVE at'[p] = "idle"
    <3>1. at[p] = "idle"
      BY <2>2, <2>4 DEF OneCommand
    <3> QED
      BY <2>2, <2>3, <2>4, <3>1
      DEF BeginSetup, Begins, AddAdmin, ClaimAdmin, StoreFirstPassword, ActivateFirst, MarkBootstrap, RequestDies,
          Ends, Moves, MembersTypeOK
  <2> SUFFICES /\ (at'[q] \in {"store", "activate", "mark"} \/ (at'[q] = "setup" /\ noted'[q]))
                    => status'[who'[q]] # "absent" /\ role'[who'[q]] = "admin"
               /\ at'[q] = "mark" => status'[who'[q]] = "active"
    BY <2>3, <2>4 DEF SetupIsSound, Exists
  <2>5. CASE RequestDies(q)
    BY <2>3, <2>5 DEF RequestDies, Ends, Moves, MembersTypeOK
  <2>6. ASSUME NEW m \in Member, BeginSetup(q, m)
        PROVE  at'[q] = "setup" /\ (noted'[q] => status'[who'[q]] # "absent" /\ role'[who'[q]] = "admin")
    BY <2>3, <2>6 DEF BeginSetup, Begins, Moves, Exists, MembersTypeOK, membersData, memberVars
  <2>7. CASE AddAdmin(q)
    BY <2>3, <2>7 DEF AddAdmin, Moves, Stays, Ends, SetStatus, MembersTypeOK
  <2>8. CASE ClaimAdmin(q)
    BY <2>3, <2>8 DEF ClaimAdmin, Moves, Stays, Ends, SetStatus, Exists, SetupIsSound, MembersTypeOK
  <2>9. CASE StoreFirstPassword(q)
    BY <2>3, <2>9 DEF StoreFirstPassword, Moves, Stays, Ends, Exists, SetupIsSound, MembersTypeOK
  <2>10. CASE ActivateFirst(q)
    BY <2>3, <2>10 DEF ActivateFirst, Moves, Stays, Ends, SetStatus, Exists, SetupIsSound, MembersTypeOK
  <2>11. ~MarkBootstrap(q)
    BY <1>2 DEF MarkBootstrap
  <2> QED
    BY <2>2, <2>5, <2>6, <2>7, <2>8, <2>9, <2>10, <2>11
<1> QED
  BY <1>1, <1>2

LEMMA CommandsAreSoundStep ==
  ASSUME OneCommand, MembersTypeOK, CodesAreSound, NothingWorks, SetupIsOver, CommandsAreSound, MembersNext
  PROVE  CommandsAreSound'
<1> SUFFICES ASSUME NEW p \in Request, Exists(who[p])'
             PROVE  /\ at'[p] \in {"store", "activate", "recover", "recoverActivate"} => email'[who'[p]]
                    /\ at'[p] \in {"activate", "recoverActivate"} => password'[who'[p]]
  BY DEF CommandsAreSound
<1> USE DEF Exists
<1>1. CASE at'[p] \in {"idle", "verify", "redeem", "act", "change", "open", "recoverRevoke", "recoverMark"}
  BY <1>1
<1>2. CASE \E m \in Member : BeginSetup(p, m) \/ BeginRecovery(p, m)
  BY <1>2 DEF BeginSetup, BeginRecovery, Begins, Moves, MembersTypeOK, membersData, memberVars
<1>3. CASE AddAdmin(p)
  BY <1>3 DEF AddAdmin, Moves, Stays, Ends, MembersTypeOK
<1>4. CASE ClaimAdmin(p)
  BY <1>4 DEF ClaimAdmin, Moves, Stays, Ends, MembersTypeOK
<1>5. CASE StoreFirstPassword(p) \/ RecoverStore(p)
  <2>1. CASE Exists(who[p])
    BY <1>5, <2>1 DEF StoreFirstPassword, RecoverStore, SetPassword, Moves, Stays, Ends, CommandsAreSound,
                      MembersTypeOK
  <2>2. CASE ~Exists(who[p])
    BY <1>5, <2>2 DEF StoreFirstPassword, RecoverStore, Moves, Ends, MembersTypeOK
  <2> QED
    BY <2>1, <2>2
<1>6. CASE ActivateFirst(p)
  BY <1>6 DEF ActivateFirst, Moves, Stays, Ends, MembersTypeOK
<1>7. CASE UNCHANGED <<at[p], who[p], noted[p]>> /\ at[p] # "idle"
  <2> DEFINE m == who[p]
  <2>1. m \in Member
    BY <1>7 DEF MembersTypeOK
  <2>2. CASE Exists(m)
    <3>1. Exists(m)' /\ (email[m] => email'[m]) /\ (password[m] => password'[m])
      BY <1>7, <2>1, <2>2, MembersStay
    <3> QED
      BY <1>7, <2>2, <3>1 DEF CommandsAreSound
  <2>3. CASE ~Exists(m)
    <3>1. PICK q \in Request : AddAdmin(q)
      BY <1>7, <2>1, <2>3, NewMember
    <3>2. at[q] \in Early
      BY <3>1 DEF AddAdmin, Early
    <3>3. ~bootstrapped
      BY <3>2 DEF SetupIsOver
    <3>4. p = q
      BY <1>7, <3>2, <3>3 DEF NothingWorks, OneCommand, Early
    <3> QED
      BY <1>3, <3>1, <3>4
  <2> QED
    BY <2>2, <2>3
<1>8. CASE UNCHANGED <<at[p], who[p], noted[p]>> /\ at[p] = "idle"
  BY <1>8
<1> QED
  BY <1>1, <1>2, <1>3, <1>4, <1>5, <1>6, <1>7, <1>8, RequestsMove

LEMMA SomeAdminStep ==
  ASSUME OneCommand, MembersTypeOK, NothingWorks, SomeAdmin, MembersNext
  PROVE  SomeAdmin'
<1> SUFFICES ASSUME ~bootstrapped'
             PROVE  \/ \A m \in Member : status'[m] = "absent"
                    \/ \E m \in Member : status'[m] # "absent" /\ role'[m] = "admin"
  BY DEF SomeAdmin, Exists
<1>1. ~bootstrapped
  BY StaysSetUp
<1>2. PICK q \in Command :
        \/ \E m \in Member : BeginSetup(q, m)
        \/ AddAdmin(q) \/ ClaimAdmin(q) \/ StoreFirstPassword(q) \/ ActivateFirst(q)
        \/ MarkBootstrap(q) \/ RequestDies(q)
  BY <1>1, FirstSteps
<1>3. ~MarkBootstrap(q) /\ q \in Request
  BY MembersAssumption DEF MarkBootstrap
<1>4. CASE (\E m \in Member : BeginSetup(q, m)) \/ StoreFirstPassword(q) \/ RequestDies(q)
  BY <1>1, <1>4 DEF BeginSetup, StoreFirstPassword, RequestDies, SomeAdmin, Exists, membersData, memberVars
<1>5. CASE AddAdmin(q)
  <2>1. who[q] \in Member
    BY <1>3, <1>5 DEF AddAdmin, MembersTypeOK
  <2> QED
    BY <1>1, <1>3, <1>5, <2>1 DEF AddAdmin, SetStatus, SomeAdmin, Exists, MembersTypeOK
<1>6. CASE ClaimAdmin(q) \/ ActivateFirst(q)
  BY <1>1, <1>3, <1>6 DEF ClaimAdmin, ActivateFirst, SetStatus, SomeAdmin, Exists, MembersTypeOK
<1> QED
  BY <1>2, <1>3, <1>4, <1>5, <1>6

LEMMA AdminRemainsStep ==
  ASSUME MembersTypeOK, CodesAreSound, NothingWorks, SetupIsOver, SetupIsSound, AdminRemains, MembersNext
  PROVE  AdminRemains'
<1>1. CASE bootstrapped
  BY <1>1, AdminsStay DEF AdminRemains
<1>2. CASE ~bootstrapped /\ bootstrapped'
  <2>1. PICK q \in Command :
          \/ \E m \in Member : BeginSetup(q, m)
          \/ AddAdmin(q) \/ ClaimAdmin(q) \/ StoreFirstPassword(q) \/ ActivateFirst(q)
          \/ MarkBootstrap(q) \/ RequestDies(q)
    BY <1>2, FirstSteps
  <2>2. MarkBootstrap(q) /\ q \in Request
    BY <1>2, <2>1, MembersAssumption
    DEF BeginSetup, AddAdmin, ClaimAdmin, StoreFirstPassword, ActivateFirst, RequestDies, membersData
  <2>3. who[q] \in Member /\ role[who[q]] = "admin" /\ status[who[q]] = "active"
    BY <2>2 DEF MarkBootstrap, SetupIsSound, MembersTypeOK
  <2>4. UNCHANGED <<role, status>>
    BY <2>2 DEF MarkBootstrap, memberVars
  <2> QED
    BY <2>3, <2>4 DEF AdminRemains, ActiveAdmins
<1> QED
  BY <1>1, <1>2 DEF AdminRemains

LEMMA ActiveCanLogInStep ==
  ASSUME MembersTypeOK, CodesAreSound, CommandsAreSound, ActiveCanLogIn, MembersNext
  PROVE  ActiveCanLogIn'
<1> SUFFICES ASSUME NEW m \in Member, status'[m] = "active" PROVE password'[m] /\ email'[m]
  BY DEF ActiveCanLogIn
<1>1. CASE status[m] = "active"
  BY <1>1, MembersStay DEF ActiveCanLogIn, Exists
<1>2. CASE status[m] # "active"
  BY <1>2, Activation
<1> QED
  BY <1>1, <1>2

LockInv ==
  /\ MembersIInv
  /\ NothingWorks /\ SetupIsOver /\ SetupIsSound /\ CommandsAreSound
  /\ SomeAdmin /\ AdminRemains /\ ActiveCanLogIn

LEMMA LockInitInv == MembersInit => LockInv
<1> SUFFICES ASSUME MembersInit PROVE LockInv
  OBVIOUS
<1>1. MembersIInv
  <2>1. CodesAreSound /\ CodeWorksOnce /\ SuspendedIsOut
    BY DEF MembersInit, CodesAreSound, CodeWorksOnce, SuspendedIsOut
  <2> QED
    BY <2>1, MembersInitType DEF MembersIInv
<1>2. \A q \in Request : at[q] = "idle"
  BY DEF MembersInit
<1>3. NothingWorks
  BY <1>2 DEF MembersInit, NothingWorks
<1>4. SetupIsOver /\ SetupIsSound /\ CommandsAreSound
  BY <1>2 DEF SetupIsOver, SetupIsSound, CommandsAreSound, Early
<1>5. SomeAdmin
  BY MembersAssumption DEF MembersInit, SomeAdmin, Exists
<1>6. AdminRemains /\ ActiveCanLogIn
  BY DEF MembersInit, AdminRemains, ActiveCanLogIn
<1> QED
  BY <1>1, <1>3, <1>4, <1>5, <1>6 DEF LockInv

LEMMA LockStepInv == ASSUME OneCommand PROVE LockInv /\ [MembersNext]_membersVars => LockInv'
<1> SUFFICES ASSUME LockInv, [MembersNext]_membersVars PROVE LockInv'
  OBVIOUS
<1>1. MembersIInv'
  BY MembersTypeStep, CodesAreSoundStep, CodeWorksOnceStep, SuspendedIsOutStep DEF LockInv, MembersIInv
<1>2. CASE UNCHANGED membersVars
  <2>1. /\ NothingWorks' /\ SetupIsOver' /\ SetupIsSound' /\ CommandsAreSound'
    BY <1>2 DEF LockInv, NothingWorks, SetupIsOver, SetupIsSound, CommandsAreSound, Exists, membersVars,
                membersData, memberVars, codeVars, keyVars, requestVars
  <2>2. SomeAdmin' /\ AdminRemains' /\ ActiveCanLogIn'
    BY <1>2 DEF LockInv, SomeAdmin, AdminRemains, ActiveAdmins, ActiveCanLogIn, Exists, membersVars, membersData,
                memberVars
  <2> QED
    BY <1>1, <2>1, <2>2 DEF LockInv
<1>3. CASE MembersNext
  <2>1. NothingWorks' /\ SetupIsOver' /\ CommandsAreSound' /\ SomeAdmin'
    BY <1>3, NothingWorksStep, SetupIsOverStep, CommandsAreSoundStep, SomeAdminStep DEF LockInv, MembersIInv
  <2>2. SetupIsSound' /\ AdminRemains' /\ ActiveCanLogIn'
    BY <1>3, <2>1, SetupIsSoundStep, AdminRemainsStep, ActiveCanLogInStep DEF LockInv, MembersIInv
  <2> QED
    BY <1>1, <2>1, <2>2 DEF LockInv
<1> QED
  BY <1>2, <1>3

\* With one command at a time on the host, no sequence of updates, removals and redemptions
\* and no interrupted setup or recovery locks an instance out (assertNotLastActiveAdmin),
\* activates a member who cannot log in, or leaves a setup that cannot be run again.
THEOREM NobodyIsLockedOut ==
  ASSUME OneCommand
  PROVE  MembersSpec => []NobodyLockedOut
<1>1. LockInv => NobodyLockedOut
  <2> SUFFICES ASSUME LockInv PROVE NobodyLockedOut
    OBVIOUS
  <2>1. ASSUME \A m \in Member : ~Exists(m) PROVE Count = 0
    <3>1. {m \in Member : Exists(m)} = {}
      BY <2>1
    <3> QED
      BY <3>1, FS_EmptySet DEF Count
  <2> QED
    BY <2>1 DEF LockInv, MembersIInv, SomeAdmin, SetupRemainsPossible, NobodyLockedOut
<1>2. LockInv /\ [MembersNext]_membersVars => LockInv'
  BY LockStepInv
<1> QED
  BY <1>1, <1>2, LockInitInv, PTL DEF MembersSpec

-----------------------------------------------------------------------------
(* LoginLimits: an address is charged what failed and what is under way.   *)

Verifying == {a \in Attempt : attempt[a] = "verifying"}

\* The row of the address is the latest that any attempt was counted in, and its count is
\* right as long as it counts for anything.
LoginIInv ==
  /\ LoginLimitsTypeOK
  /\ IsFiniteSet(Verifying)
  /\ addressSince <= now
  /\ \A a \in Verifying : reserved[a] <= addressSince
  /\ (addressCount > 0 \/ ~Over(addressSince)) => addressCount = failed + Cardinality(InFlight)

LEMMA InFlightIsFinite ==
  ASSUME IsFiniteSet(Verifying)
  PROVE  IsFiniteSet(InFlight) /\ Cardinality(InFlight) \in Nat
<1>1. InFlight \subseteq Verifying
  BY DEF InFlight, Verifying
<1> QED
  BY <1>1, FS_Subset, FS_CardinalityType

LEMMA LoginTypeStep ==
  ASSUME LoginIInv, [LoginLimitsNext]_loginVars
  PROVE  LoginLimitsTypeOK'
<1> USE LoginLimitsAssumption DEF LoginIInv, LoginLimitsTypeOK
<1>1. /\ AddressNow \in 0..AddressLimit
      /\ \A e \in Email : EmailNow(e) \in 0..EmailLimit
  BY DEF AddressNow, EmailNow
<1>2. ASSUME NEW a \in Attempt, NEW e \in Email, Reserve(a, e) PROVE LoginLimitsTypeOK'
  <2>1. EmailNow(e) + 1 \in 0..EmailLimit /\ AddressNow + 1 \in 0..AddressLimit
    BY <1>1, <1>2 DEF Reserve, Limited
  <2>2. emailCount' \in [Email -> 0..EmailLimit]
    <3>1. \A f \in Email : EmailNow(f) + (IF f = e THEN 1 ELSE 0) \in 0..EmailLimit
      BY <1>1, <2>1
    <3> QED
      BY <1>2, <3>1 DEF Reserve
  <2>3. emailSince' \in [Email -> 0..MaxNow] /\ addressSince' \in 0..MaxNow
    BY <1>2 DEF Reserve
  <2>4. addressCount' \in 0..AddressLimit /\ failed' \in Nat /\ now' \in 0..MaxNow
    BY <1>2, <2>1 DEF Reserve
  <2>5. /\ attempt' \in [Attempt -> {"idle", "verifying"}] /\ attemptEmail' \in [Attempt -> Email]
        /\ reserved' \in [Attempt -> 0..MaxNow]
    BY <1>2, <2>3 DEF Reserve
  <2> QED
    BY <2>2, <2>3, <2>4, <2>5
<1>3. ASSUME NEW a \in Attempt, NEW e \in Email, RefuseLogin(a, e) PROVE LoginLimitsTypeOK'
  BY <1>1, <1>3 DEF RefuseLogin
<1>4. ASSUME NEW a \in Attempt, Succeed(a) PROVE LoginLimitsTypeOK'
  BY <1>4 DEF Succeed, StillCounted
<1>5. ASSUME NEW a \in Attempt, FailLogin(a) PROVE LoginLimitsTypeOK'
  BY <1>5 DEF FailLogin
<1>6. CASE LoginTick
  BY <1>6 DEF LoginTick
<1>7. CASE UNCHANGED loginVars
  BY <1>7 DEF loginVars
<1> QED
  BY <1>2, <1>3, <1>4, <1>5, <1>6, <1>7 DEF LoginLimitsNext

\* What is counted when an attempt begins.
LEMMA ReserveCounts ==
  ASSUME LoginIInv, NEW a \in Attempt, NEW e \in Email, Reserve(a, e)
  PROVE  LoginIInv'
<1> USE LoginLimitsAssumption
<1>1. LoginLimitsTypeOK /\ LoginLimitsTypeOK' /\ IsFiniteSet(Verifying)
  BY LoginTypeStep DEF LoginIInv, LoginLimitsNext
<1>2. a \notin Verifying /\ Verifying' = Verifying \cup {a}
  BY <1>1 DEF Reserve, Verifying, LoginLimitsTypeOK
<1>3. IsFiniteSet(Verifying')
  BY <1>1, <1>2, FS_AddElement
<1>4. addressSince' <= now'
  BY <1>1 DEF Reserve, LoginIInv, LoginLimitsTypeOK
<1>5. reserved'[a] = addressSince' /\ \A b \in Attempt : b # a => reserved'[b] = reserved[b]
  BY <1>1 DEF Reserve, LoginLimitsTypeOK
<1>6. addressSince <= addressSince'
  BY <1>1 DEF Reserve, LoginIInv, LoginLimitsTypeOK
<1>7. \A b \in Verifying' : reserved'[b] <= addressSince'
  <2> SUFFICES ASSUME NEW b \in Verifying, b # a PROVE reserved[b] <= addressSince'
    BY <1>1, <1>2, <1>5 DEF LoginLimitsTypeOK, Verifying
  <2> QED
    BY <1>1, <1>6 DEF LoginIInv, LoginLimitsTypeOK, Verifying
<1>8. addressCount' = failed' + Cardinality(InFlight')
  <2>1. IsFiniteSet(InFlight) /\ Cardinality(InFlight) \in Nat /\ a \notin InFlight
    BY <1>1, <1>2, InFlightIsFinite DEF InFlight, Verifying
  <2>2. InFlight' = {b \in Verifying : reserved[b] = addressSince'} \cup {a}
    BY <1>1, <1>2, <1>5 DEF InFlight, Verifying
  <2>3. CASE AddressNow # 0
    <3>1. ~Over(addressSince) /\ addressCount > 0 /\ addressSince' = addressSince
      BY <1>1, <2>3 DEF AddressNow, Reserve, LoginLimitsTypeOK
    <3>2. addressCount' = addressCount + 1 /\ failed' = failed
      BY <2>3, <3>1 DEF Reserve, AddressNow
    <3>3. InFlight' = InFlight \cup {a}
      BY <2>2, <3>1 DEF InFlight, Verifying
    <3>4. Cardinality(InFlight') = Cardinality(InFlight) + 1
      BY <2>1, <3>3, FS_AddElement
    <3> QED
      BY <1>1, <2>1, <3>1, <3>2, <3>4 DEF LoginIInv, LoginLimitsTypeOK
  <2>4. CASE AddressNow = 0
    <3>1. addressCount' = 1 /\ failed' = 0 /\ addressSince' = now
      BY <1>1, <2>4 DEF Reserve
    <3>2. {b \in Verifying : reserved[b] = now} = {}
      <4>1. CASE Over(addressSince)
        <5>1. addressSince < now
          BY <1>1, <4>1 DEF Over, LoginLimitsTypeOK
        <5> QED
          BY <1>1, <5>1 DEF LoginIInv, LoginLimitsTypeOK, Verifying
      <4>2. CASE ~Over(addressSince)
        <5>1. addressCount = 0
          BY <2>4, <4>2 DEF AddressNow
        <5>2. InFlight = {}
          BY <1>1, <2>1, <4>2, <5>1, FS_EmptySet DEF LoginIInv, LoginLimitsTypeOK
        <5>3. ASSUME NEW b \in Verifying, reserved[b] = now PROVE FALSE
          <6>1. reserved[b] = addressSince
            BY <1>1, <5>3 DEF LoginIInv, LoginLimitsTypeOK, Verifying
          <6> QED
            BY <5>2, <6>1 DEF InFlight, Verifying
        <5> QED
          BY <5>3
      <4> QED
        BY <4>1, <4>2
    <3>3. InFlight' = {a}
      BY <2>2, <3>1, <3>2
    <3> QED
      BY <3>1, <3>3, FS_Singleton
  <2> QED
    BY <2>3, <2>4
<1> QED
  BY <1>1, <1>3, <1>4, <1>7, <1>8 DEF LoginIInv

\* An attempt that ends takes itself out of what is under way.
LEMMA EndCounts ==
  ASSUME LoginIInv, NEW a \in Attempt, Succeed(a) \/ FailLogin(a)
  PROVE  LoginIInv'
<1> USE LoginLimitsAssumption
<1>1. LoginLimitsTypeOK /\ LoginLimitsTypeOK' /\ IsFiniteSet(Verifying)
  BY LoginTypeStep DEF LoginIInv, LoginLimitsNext
<1>2. /\ attempt' = [attempt EXCEPT ![a] = "idle"] /\ attempt[a] = "verifying"
      /\ UNCHANGED <<now, addressSince, reserved>>
  BY DEF Succeed, FailLogin
<1>3. a \in Verifying /\ Verifying' = Verifying \ {a}
  BY <1>1, <1>2 DEF Verifying, LoginLimitsTypeOK
<1>4. IsFiniteSet(Verifying')
  BY <1>1, <1>3, FS_RemoveElement
<1>5. addressSince' <= now' /\ \A b \in Verifying' : reserved'[b] <= addressSince'
  BY <1>2, <1>3 DEF LoginIInv
<1>6. IsFiniteSet(InFlight) /\ Cardinality(InFlight) \in Nat
  BY <1>1, InFlightIsFinite
<1>7. InFlight' = InFlight \ {a}
  BY <1>1, <1>2 DEF InFlight, LoginLimitsTypeOK
<1>8. (addressCount' > 0 \/ ~Over(addressSince)') => addressCount' = failed' + Cardinality(InFlight')
  <2> SUFFICES ASSUME addressCount' > 0 \/ ~Over(addressSince)'
               PROVE  addressCount' = failed' + Cardinality(InFlight')
    OBVIOUS
  <2>1. addressCount' > 0 => addressCount > 0
    BY <1>1 DEF Succeed, FailLogin, StillCounted, LoginLimitsTypeOK
  <2>2. Over(addressSince)' <=> Over(addressSince)
    BY <1>2 DEF Over
  <2>3. addressCount = failed + Cardinality(InFlight)
    BY <2>1, <2>2 DEF LoginIInv
  <2>4. CASE reserved[a] = addressSince
    <3>1. a \in InFlight
      BY <1>2, <2>4 DEF InFlight
    <3>2. Cardinality(InFlight') = Cardinality(InFlight) - 1 /\ Cardinality(InFlight) # 0
      BY <1>6, <1>7, <3>1, FS_RemoveElement, FS_EmptySet
    <3>3. addressCount > 0
      BY <1>1, <1>6, <2>3, <3>2 DEF LoginLimitsTypeOK
    <3>4. StillCounted(a)
      BY <2>4, <3>3 DEF StillCounted
    <3>5. addressCount' - failed' = addressCount - failed - 1
      <4>1. /\ addressCount \in Nat /\ failed \in Nat
            /\ \/ addressCount' = addressCount - 1 /\ failed' = failed
               \/ addressCount' = addressCount /\ failed' = failed + 1
        BY <1>1, <3>4 DEF Succeed, FailLogin, LoginLimitsTypeOK
      <4> QED
        BY <4>1
    <3> QED
      BY <1>1, <1>6, <2>3, <3>2, <3>5 DEF LoginLimitsTypeOK
  <2>5. CASE reserved[a] # addressSince
    <3>1. InFlight' = InFlight
      BY <1>7, <2>5 DEF InFlight
    <3>2. addressCount' = addressCount /\ failed' = failed
      BY <2>5 DEF Succeed, FailLogin, StillCounted
    <3> QED
      BY <2>3, <3>1, <3>2
  <2> QED
    BY <2>4, <2>5
<1> QED
  BY <1>1, <1>4, <1>5, <1>8 DEF LoginIInv

LEMMA LoginStep == LoginIInv /\ [LoginLimitsNext]_loginVars => LoginIInv'
<1> SUFFICES ASSUME LoginIInv, [LoginLimitsNext]_loginVars PROVE LoginIInv'
  OBVIOUS
<1> USE LoginLimitsAssumption
<1>1. LoginLimitsTypeOK /\ LoginLimitsTypeOK'
  BY LoginTypeStep DEF LoginIInv
<1>2. ASSUME NEW a \in Attempt, NEW e \in Email, RefuseLogin(a, e) PROVE LoginIInv'
  <2>1. Verifying' = Verifying /\ InFlight' = InFlight /\ (Over(addressSince)' <=> Over(addressSince))
    BY <1>2 DEF RefuseLogin, Verifying, InFlight, Over
  <2>2. (addressCount' > 0 \/ ~Over(addressSince)') => addressCount' = addressCount /\ failed' = failed
    <3>1. ASSUME ~Over(addressSince), AddressNow = 0 PROVE failed = 0
      <4>1. addressCount = 0
        BY <3>1 DEF AddressNow
      <4>2. 0 = failed + Cardinality(InFlight) /\ Cardinality(InFlight) \in Nat
        BY <3>1, <4>1, InFlightIsFinite DEF LoginIInv
      <4> QED
        BY <1>1, <4>2 DEF LoginLimitsTypeOK
    <3> QED
      BY <1>1, <1>2, <2>1, <3>1 DEF RefuseLogin, AddressNow, LoginLimitsTypeOK
  <2>3. addressSince' <= now' /\ \A b \in Verifying' : reserved'[b] <= addressSince'
    BY <1>2, <2>1 DEF RefuseLogin, LoginIInv
  <2>4. (addressCount' > 0 \/ ~Over(addressSince)') => addressCount' = failed' + Cardinality(InFlight')
    BY <2>1, <2>2 DEF LoginIInv
  <2> QED
    BY <1>1, <2>1, <2>3, <2>4 DEF LoginIInv
<1>3. CASE LoginTick
  <2>1. Verifying' = Verifying /\ InFlight' = InFlight /\ (~Over(addressSince)' => ~Over(addressSince))
    BY <1>1, <1>3 DEF LoginTick, Verifying, InFlight, Over, LoginLimitsTypeOK
  <2>2. addressSince' <= now' /\ \A b \in Verifying' : reserved'[b] <= addressSince'
    BY <1>1, <1>3, <2>1 DEF LoginTick, LoginIInv, LoginLimitsTypeOK
  <2>3. (addressCount' > 0 \/ ~Over(addressSince)') => addressCount' = failed' + Cardinality(InFlight')
    BY <1>3, <2>1 DEF LoginTick, LoginIInv
  <2> QED
    BY <1>1, <2>1, <2>2, <2>3 DEF LoginIInv
<1>4. CASE UNCHANGED loginVars
  <2>1. Verifying' = Verifying /\ InFlight' = InFlight /\ (Over(addressSince)' <=> Over(addressSince))
    BY <1>4 DEF loginVars, Verifying, InFlight, Over
  <2> QED
    BY <1>1, <1>4, <2>1 DEF loginVars, LoginIInv
<1> QED
  BY <1>2, <1>3, <1>4, ReserveCounts, EndCounts DEF LoginLimitsNext

\* However attempts overlap and windows end while they are verified, an address is charged
\* exactly its failed attempts and those under way in the window, never beyond the limits.
THEOREM AttemptsStayCounted == LoginLimitsSpec => []AttemptsAreCounted
<1>1. LoginLimitsInit => LoginIInv
  <2> SUFFICES ASSUME LoginLimitsInit PROVE LoginIInv
    OBVIOUS
  <2>1. LoginLimitsTypeOK
    BY LoginLimitsAssumption DEF LoginLimitsInit, LoginLimitsTypeOK
  <2>2. Verifying = {} /\ InFlight = {}
    BY DEF LoginLimitsInit, Verifying, InFlight
  <2> QED
    BY <2>1, <2>2, FS_EmptySet DEF LoginLimitsInit, LoginIInv
<1>2. LoginIInv => AttemptsAreCounted
  BY DEF LoginIInv, AttemptsAreCounted, FailuresAreCounted
<1> QED
  BY <1>1, <1>2, LoginStep, PTL DEF LoginLimitsSpec

-----------------------------------------------------------------------------
(* Connections.                                                            *)

\* A link is held by one state, then by one callback, and then by none.
LinksAreHeldOnce ==
  \A l \in Link :
    /\ saved[l] \in {0, 1}
    /\ link[l].at # "used" => saved[l] = 0 /\ \A f \in Flow : flow[f].link # l
    /\ saved[l] = 1 => /\ \A o \in OAuthState : state[o].link # l
                       /\ \A f \in Flow : flow[f].link # l
    /\ \A o, p \in OAuthState : state[o].link = l /\ state[p].link = l => o = p
    /\ \A f, g \in Flow : flow[f].link = l /\ flow[g].link = l => f = g
    /\ \A o \in OAuthState, f \in Flow : ~(state[o].link = l /\ flow[f].link = l)

\* A callback acts for nobody, a command for its user, settings name an address.
FlowsAreSound ==
  \A f \in Flow : /\ flow[f].at = "exchange" => flow[f].actor = Nothing
                  /\ flow[f].at = "browser" => /\ flow[f].actor \in Owner
                                               /\ flow[f].intent.owner = flow[f].actor
                  /\ flow[f].at = "test" => flow[f].address \in Address

BoxesWithinLimit == boxLimit \in Nat /\ IsFiniteSet(Connected) /\ BoxesWithinPlan

ConnectionsIInv ==
  ConnectionsTypeOK /\ LinksAreHeldOnce /\ FlowsAreSound /\ OneBoxPerAddress /\ BoxesWithinLimit /\ OwnersAuthorize

FlowType == [at : {"idle"} \cup Waiting, kind : BoxKind, intent : Intent,
             actor : Owner \cup {Nothing}, address : Address \cup {Nothing}, link : Link \cup {Nothing}]
StateType == [at : {"none", "pending", "expired"}, kind : OAuthKind, intent : Intent, link : Link \cup {Nothing}]
LinkType == [at : {"none", "available", "expired", "used"}, kind : OAuthKind, intent : Intent]
BoxType == [address : Address \cup {Nothing}, kind : BoxKind, owner : Owner \cup {Nothing}]

LEMMA IntentsAreSound ==
  ASSUME NEW m \in Owner, NEW k \in OAuthKind
  PROVE  /\ OwnIntents(m, k) \cup CommandIntents(m, k) \cup AdminIntents(m, k) \subseteq Intent
         /\ \A i \in CommandIntents(m, k) : i.owner = m
<1>1. \A o \in Owner : For(o) \in Intent
  BY DEF For, Intent
<1>2. \A b \in Connected : Again(b) \in Intent
  BY DEF Again, Intent, Connected
<1>3. OwnIntents(m, k) \subseteq Intent
  BY <1>1, <1>2 DEF OwnIntents
<1>4. AdminIntents(m, k) \subseteq Intent
  BY <1>1, <1>2 DEF AdminIntents
<1>5. \A i \in Intent : [i EXCEPT !.owner = m] \in Intent /\ [i EXCEPT !.owner = m].owner = m
  BY DEF Intent
<1> QED
  BY <1>3, <1>4, <1>5 DEF CommandIntents

LEMMA EntersIsSound ==
  ASSUME ConnectionsTypeOK, NEW f \in Flow, NEW place \in {"exchange", "browser", "test"}, NEW k \in BoxKind,
         NEW i \in Intent, NEW m \in Owner \cup {Nothing}, NEW e \in Address \cup {Nothing},
         NEW l \in Link \cup {Nothing}, Enters(f, place, k, i, m, e, l)
  PROVE  /\ flow' \in [Flow -> FlowType]
         /\ flow'[f] = [at |-> place, kind |-> k, intent |-> i, actor |-> m, address |-> e, link |-> l]
         /\ \A g \in Flow : g # f => flow'[g] = flow[g]
<1>1. [at |-> place, kind |-> k, intent |-> i, actor |-> m, address |-> e, link |-> l] \in FlowType
  BY DEF FlowType, Waiting
<1>2. flow' = [flow EXCEPT ![f] = [at |-> place, kind |-> k, intent |-> i, actor |-> m, address |-> e, link |-> l]]
  BY DEF Enters
<1>3. flow \in [Flow -> FlowType]
  BY DEF ConnectionsTypeOK, FlowType
<1> QED
  BY <1>1, <1>2, <1>3

LEMMA NothingIsSound == NoFlow \in FlowType /\ NoState \in StateType /\ NoLink \in LinkType /\ NoBox \in BoxType
<1>1. For(Nothing) \in Intent
  BY DEF For, Intent
<1> QED
  BY <1>1 DEF NoFlow, NoState, NoLink, NoBox, FlowType, StateType, LinkType, BoxType, BoxKind, OAuthKind

\* A link is prepared or expires: nobody holds it.
LEMMA LinkSteps ==
  ASSUME ConnectionsIInv, NEW l \in Link, UNCHANGED <<box, boxLimit, state, flow, saved, wronged>>,
         NEW rec \in LinkType, link' = [link EXCEPT ![l] = rec], link[l].at # "used", rec.at # "used",
         acts' \in 0..MaxActs
  PROVE  ConnectionsIInv'
<1>1. link' \in [Link -> LinkType]
  BY DEF ConnectionsIInv, ConnectionsTypeOK, LinkType
<1>2. \A k \in Link : link'[k].at = "used" <=> link[k].at = "used"
  BY DEF ConnectionsIInv, ConnectionsTypeOK
<1>3. Connected' = Connected
  BY DEF Connected
<1>4. ConnectionsTypeOK'
  BY <1>1, <1>2, <1>3 DEF ConnectionsIInv, ConnectionsTypeOK, LinkType
<1>5. LinksAreHeldOnce' /\ FlowsAreSound'
  BY <1>2 DEF ConnectionsIInv, LinksAreHeldOnce, FlowsAreSound
<1>6. OneBoxPerAddress' /\ BoxesWithinLimit' /\ OwnersAuthorize'
  BY <1>3 DEF ConnectionsIInv, OneBoxPerAddress, BoxesWithinLimit, BoxesWithinPlan, OwnersAuthorize
<1> QED
  BY <1>4, <1>5, <1>6 DEF ConnectionsIInv

\* A state is overwritten: what it holds afterwards is held by nobody else.
LEMMA StateSteps ==
  ASSUME ConnectionsIInv, NEW o \in OAuthState, UNCHANGED <<box, boxLimit, flow, saved, wronged>>,
         NEW rec \in StateType, state' = [state EXCEPT ![o] = rec], acts' \in 0..MaxActs,
         \/ UNCHANGED link /\ rec.link \in {Nothing, state[o].link}
         \/ /\ rec.link \in Link /\ link[rec.link].at # "used"
            /\ link' = [link EXCEPT ![rec.link].at = "used"]
  PROVE  ConnectionsIInv'
<1> DEFINE new == rec.link
<1>1. state' \in [OAuthState -> StateType] /\ state'[o] = rec /\ \A p \in OAuthState : p # o => state'[p] = state[p]
  BY DEF ConnectionsIInv, ConnectionsTypeOK, StateType
<1>2. /\ link' \in [Link -> LinkType]
      /\ \A k \in Link : link[k].at = "used" => link'[k].at = "used"
      /\ new \in Link => link'[new].at = "used"
      /\ \A k \in Link : k # new => link'[k] = link[k]
  <2>1. CASE UNCHANGED link /\ rec.link \in {Nothing, state[o].link}
    BY <2>1, ConnectionsAssumption DEF ConnectionsIInv, ConnectionsTypeOK, LinkType
  <2>2. CASE rec.link \in Link /\ link' = [link EXCEPT ![rec.link].at = "used"]
    <3>1. link \in [Link -> LinkType]
      BY DEF ConnectionsIInv, ConnectionsTypeOK, LinkType
    <3>2. [link[new] EXCEPT !.at = "used"] \in LinkType /\ [link[new] EXCEPT !.at = "used"].at = "used"
      BY <2>2, <3>1 DEF LinkType
    <3>3. link' = [link EXCEPT ![new] = [link[new] EXCEPT !.at = "used"]]
      BY <2>2
    <3> QED
      BY <2>2, <3>1, <3>2, <3>3
  <2> QED
    BY <2>1, <2>2
<1>3. new \in Link => /\ saved[new] = 0 /\ \A f \in Flow : flow[f].link # new
                      /\ \A p \in OAuthState : p # o => state[p].link # new
  <2>1. CASE UNCHANGED link /\ rec.link \in {Nothing, state[o].link}
    BY <2>1, ConnectionsAssumption DEF ConnectionsIInv, LinksAreHeldOnce
  <2>2. CASE rec.link \in Link /\ link[rec.link].at # "used"
    BY <2>2, ConnectionsAssumption DEF ConnectionsIInv, LinksAreHeldOnce, ConnectionsTypeOK
  <2> QED
    BY <2>1, <2>2
<1>4. Connected' = Connected
  BY DEF Connected
<1>5. \A p \in OAuthState : state'[p].link # Nothing => link'[state'[p].link].at = "used"
  <2> SUFFICES ASSUME NEW p \in OAuthState, state'[p].link # Nothing PROVE link'[state'[p].link].at = "used"
    OBVIOUS
  <2>1. CASE p = o
    BY <1>1, <1>2, <2>1 DEF StateType
  <2>2. CASE p # o
    BY <1>1, <1>2, <2>2 DEF ConnectionsIInv, ConnectionsTypeOK
  <2> QED
    BY <2>1, <2>2
<1>6. ConnectionsTypeOK'
  BY <1>1, <1>2, <1>4, <1>5 DEF ConnectionsIInv, ConnectionsTypeOK, LinkType, StateType
<1>7. LinksAreHeldOnce'
  <2> SUFFICES ASSUME NEW l \in Link
               PROVE  /\ link'[l].at # "used" => link[l].at # "used"
                      /\ saved[l] = 1 => \A p \in OAuthState : state'[p].link # l
                      /\ \A p, r \in OAuthState : state'[p].link = l /\ state'[r].link = l => p = r
                      /\ \A p \in OAuthState, f \in Flow : ~(state'[p].link = l /\ flow[f].link = l)
    BY DEF ConnectionsIInv, LinksAreHeldOnce
  <2>1. CASE l = new
    BY <1>1, <1>2, <1>3, <2>1
  <2>2. CASE l # new
    BY <1>1, <1>2, <2>2 DEF ConnectionsIInv, LinksAreHeldOnce
  <2> QED
    BY <2>1, <2>2
<1>8. FlowsAreSound' /\ OneBoxPerAddress' /\ BoxesWithinLimit' /\ OwnersAuthorize'
  BY <1>4 DEF ConnectionsIInv, FlowsAreSound, OneBoxPerAddress, BoxesWithinLimit, BoxesWithinPlan, OwnersAuthorize
<1> QED
  BY <1>6, <1>7, <1>8 DEF ConnectionsIInv

\* States are forgotten and flows end.
LEMMA Forgetting ==
  ASSUME ConnectionsIInv, UNCHANGED <<box, boxLimit, link, saved, wronged>>, acts' \in 0..MaxActs,
         state' \in [OAuthState -> StateType], flow' \in [Flow -> FlowType],
         \A o \in OAuthState : state'[o] \in {state[o], NoState},
         \A f \in Flow : flow'[f] \in {flow[f], NoFlow}
  PROVE  ConnectionsIInv'
<1>1. NoFlow.link = Nothing /\ NoState.link = Nothing /\ NoFlow.at = "idle"
  BY DEF NoFlow, NoState
<1>2. Connected' = Connected
  BY DEF Connected
<1>3. \A o \in OAuthState : state'[o].link \in {state[o].link, Nothing}
  BY <1>1
<1>4. \A f \in Flow : flow'[f].link \in {flow[f].link, Nothing}
  BY <1>1
<1>5. ConnectionsTypeOK'
  BY <1>2, <1>3 DEF ConnectionsIInv, ConnectionsTypeOK, FlowType, StateType
<1>6. LinksAreHeldOnce'
  BY <1>3, <1>4, ConnectionsAssumption DEF ConnectionsIInv, LinksAreHeldOnce
<1>7. FlowsAreSound'
  BY <1>1 DEF ConnectionsIInv, FlowsAreSound
<1>8. OneBoxPerAddress' /\ BoxesWithinLimit' /\ OwnersAuthorize'
  BY <1>2 DEF ConnectionsIInv, OneBoxPerAddress, BoxesWithinLimit, BoxesWithinPlan, OwnersAuthorize
<1> QED
  BY <1>5, <1>6, <1>7, <1>8 DEF ConnectionsIInv

\* A flow begins, with the link of the state that it ends or with none.
LEMMA Entering ==
  ASSUME ConnectionsIInv, UNCHANGED <<box, boxLimit, link, saved, wronged>>, acts' \in 0..MaxActs,
         NEW f \in Flow, NEW place \in {"exchange", "browser", "test"}, NEW k \in BoxKind,
         NEW i \in Intent, NEW m \in Owner \cup {Nothing}, NEW e \in Address \cup {Nothing},
         NEW l \in Link \cup {Nothing}, Enters(f, place, k, i, m, e, l),
         place = "exchange" => m = Nothing,
         place = "browser" => m \in Owner /\ i.owner = m,
         place = "test" => e \in Address,
         \/ UNCHANGED state /\ l = Nothing
         \/ \E o \in OAuthState : l = state[o].link /\ Forgets(o)
  PROVE  ConnectionsIInv'
<1>1. /\ flow' \in [Flow -> FlowType]
      /\ flow'[f] = [at |-> place, kind |-> k, intent |-> i, actor |-> m, address |-> e, link |-> l]
      /\ \A g \in Flow : g # f => flow'[g] = flow[g]
  BY EntersIsSound DEF ConnectionsIInv
<1>2. Connected' = Connected
  BY DEF Connected
<1>3. /\ state' \in [OAuthState -> StateType]
      /\ \A o \in OAuthState : state'[o].link \in {state[o].link, Nothing}
      /\ l # Nothing => \A o \in OAuthState : state'[o].link # l
      /\ l # Nothing => \E o \in OAuthState : state[o].link = l
  <2>1. CASE UNCHANGED state /\ l = Nothing
    BY <2>1 DEF ConnectionsIInv, ConnectionsTypeOK, StateType
  <2>2. ASSUME NEW o \in OAuthState, l = state[o].link, Forgets(o)
        PROVE  /\ state' \in [OAuthState -> StateType]
               /\ \A p \in OAuthState : state'[p].link \in {state[p].link, Nothing}
               /\ l # Nothing => \A p \in OAuthState : state'[p].link # l
    <3>1. state \in [OAuthState -> StateType]
      BY DEF ConnectionsIInv, ConnectionsTypeOK, StateType
    <3>2. state' = [state EXCEPT ![o] = NoState] /\ NoState.link = Nothing
      BY <2>2 DEF Forgets, NoState
    <3>3. l # Nothing => \A p \in OAuthState : p # o => state[p].link # l
      BY <2>2 DEF ConnectionsIInv, LinksAreHeldOnce
    <3> QED
      BY <3>1, <3>2, <3>3, NothingIsSound
  <2> QED
    BY <2>1, <2>2
<1>4. l # Nothing => l \in Link /\ link[l].at = "used" /\ saved[l] = 0 /\ \A g \in Flow : flow[g].link # l
  BY <1>3 DEF ConnectionsIInv, ConnectionsTypeOK, LinksAreHeldOnce
<1>5. ConnectionsTypeOK'
  BY <1>1, <1>2, <1>3 DEF ConnectionsIInv, ConnectionsTypeOK, FlowType, StateType
<1>6. LinksAreHeldOnce'
  <2> SUFFICES ASSUME NEW j \in Link
               PROVE  /\ link[j].at # "used" => \A g \in Flow : flow'[g].link # j
                      /\ saved[j] = 1 => /\ \A o \in OAuthState : state'[o].link # j
                                         /\ \A g \in Flow : flow'[g].link # j
                      /\ \A o, p \in OAuthState : state'[o].link = j /\ state'[p].link = j => o = p
                      /\ \A g, h \in Flow : flow'[g].link = j /\ flow'[h].link = j => g = h
                      /\ \A o \in OAuthState, g \in Flow : ~(state'[o].link = j /\ flow'[g].link = j)
    BY DEF ConnectionsIInv, LinksAreHeldOnce
  <2>1. j # Nothing
    BY ConnectionsAssumption
  <2>2. CASE j = l
    BY <1>1, <1>3, <1>4, <2>1, <2>2 DEF ConnectionsIInv, LinksAreHeldOnce
  <2>3. CASE j # l
    BY <1>1, <1>3, <2>1, <2>3 DEF ConnectionsIInv, LinksAreHeldOnce
  <2> QED
    BY <2>2, <2>3
<1>7. FlowsAreSound'
  BY <1>1 DEF ConnectionsIInv, FlowsAreSound
<1>8. OneBoxPerAddress' /\ BoxesWithinLimit' /\ OwnersAuthorize'
  BY <1>2 DEF ConnectionsIInv, OneBoxPerAddress, BoxesWithinLimit, BoxesWithinPlan, OwnersAuthorize
<1> QED
  BY <1>5, <1>6, <1>7, <1>8 DEF ConnectionsIInv

\* What a flow saves is recorded, and the flow is over.
LEMMA SavingOnce ==
  ASSUME ConnectionsIInv, NEW f \in Flow, NEW b, Records(f, b), Leaves(f), UNCHANGED <<link, state>>
  PROVE  /\ flow' \in [Flow -> FlowType] /\ saved' \in [Link -> Nat]
         /\ \A g \in Flow : flow'[g] \in {flow[g], NoFlow}
         /\ LinksAreHeldOnce'
<1> DEFINE l == flow[f].link
<1>1. flow \in [Flow -> FlowType] /\ saved \in [Link -> Nat] /\ l \in Link \cup {Nothing}
  BY DEF ConnectionsIInv, ConnectionsTypeOK, FlowType
<1>2. /\ flow' \in [Flow -> FlowType] /\ flow'[f] = NoFlow /\ NoFlow.link = Nothing
      /\ \A g \in Flow : g # f => flow'[g] = flow[g]
  BY <1>1, NothingIsSound DEF Leaves, NoFlow
<1>3. /\ saved' \in [Link -> Nat]
      /\ \A j \in Link : saved'[j] = IF j = l THEN saved[j] + 1 ELSE saved[j]
  BY <1>1, ConnectionsAssumption DEF Records
<1>4. LinksAreHeldOnce'
  <2> SUFFICES ASSUME NEW j \in Link
               PROVE  /\ saved'[j] \in {0, 1}
                      /\ link[j].at # "used" => saved'[j] = 0 /\ \A g \in Flow : flow'[g].link # j
                      /\ saved'[j] = 1 => /\ \A o \in OAuthState : state[o].link # j
                                          /\ \A g \in Flow : flow'[g].link # j
                      /\ \A o, p \in OAuthState : state[o].link = j /\ state[p].link = j => o = p
                      /\ \A g, h \in Flow : flow'[g].link = j /\ flow'[h].link = j => g = h
                      /\ \A o \in OAuthState, g \in Flow : ~(state[o].link = j /\ flow'[g].link = j)
    BY DEF LinksAreHeldOnce
  <2>1. j # Nothing
    BY ConnectionsAssumption
  <2>2. CASE j = l
    <3>1. saved[j] = 0
      BY <2>2 DEF ConnectionsIInv, LinksAreHeldOnce
    <3> QED
      BY <1>2, <1>3, <2>1, <2>2, <3>1 DEF ConnectionsIInv, LinksAreHeldOnce
  <2>3. CASE j # l
    BY <1>2, <1>3, <2>1, <2>3 DEF ConnectionsIInv, LinksAreHeldOnce
  <2> QED
    BY <2>2, <2>3
<1> QED
  BY <1>2, <1>3, <1>4

\* A mailbox that a flow reauthorizes is one it may.
LEMMA OwnersStillAuthorize ==
  ASSUME ConnectionsIInv, NEW f \in Flow, NEW e \in Address, NEW b \in Box,
         flow[f].at \in {"exchange", "browser"}, MayTake(f, e),
         b \in Target(f, e), box[b].address = e
  PROVE  ~Wrongs(f, b)
<1> DEFINE again == flow[f].intent.again
<1>1. again \in Box \cup {Nothing} /\ b \in Connected
  BY ConnectionsAssumption DEF ConnectionsIInv, ConnectionsTypeOK, Intent, Connected
<1>2. b \in Duplicates(e, flow[f].kind)
  BY <1>1 DEF Duplicates
<1> SUFFICES \/ again = b \/ flow[f].intent.owner = box[b].owner \/ flow[f].actor \in Administrator
  BY DEF Wrongs
<1>3. CASE flow[f].at = "browser"
  <2>1. flow[f].actor \in Owner /\ flow[f].intent.owner = flow[f].actor /\ flow[f].actor # Nothing
    BY <1>3, ConnectionsAssumption DEF ConnectionsIInv, FlowsAreSound
  <2>2. CanManage(flow[f].actor, b)
    BY <1>2, <2>1 DEF MayTake
  <2> QED
    BY <2>1, <2>2 DEF CanManage
<1>4. CASE flow[f].at = "exchange"
  <2>1. flow[f].actor = Nothing
    BY <1>4 DEF ConnectionsIInv, FlowsAreSound
  <2>2. CASE again # Nothing
    <3>1. again \in Connected /\ box[again].address = e
      BY <2>1, <2>2 DEF MayTake
    <3> QED
      BY <1>1, <3>1 DEF ConnectionsIInv, OneBoxPerAddress
  <2>3. CASE again = Nothing
    BY <1>2, <2>1, <2>3 DEF MayTake
  <2> QED
    BY <2>2, <2>3
<1> QED
  BY <1>3, <1>4

\* A mailbox that is added has an address of its own, and its place in the plan.
LEMMA AddingABox ==
  ASSUME ConnectionsIInv, NEW f \in Flow, NEW e \in Address, Adds(f, e)
  PROVE  /\ box' \in [Box -> BoxType]
         /\ \A b \in Connected' : box'[b].owner # Nothing
         /\ \A b \in Box \ Connected' : box'[b] = NoBox
         /\ OneBoxPerAddress'
         /\ IsFiniteSet(Connected') /\ Cardinality(Connected') <= boxLimit
         /\ \E b \in Box : Records(f, b) /\ b \notin Connected
<1> DEFINE new == CHOOSE b \in Box : b \notin Connected
           rec == [address |-> e, kind |-> flow[f].kind, owner |-> flow[f].intent.owner]
<1>1. new \in Box /\ new \notin Connected
  BY DEF Adds, Connected
<1>2. box \in [Box -> BoxType] /\ rec \in BoxType /\ rec.address = e /\ rec.owner # Nothing
  BY DEF ConnectionsIInv, ConnectionsTypeOK, BoxType, Intent, Adds, MayAdd
<1>3. box' = [box EXCEPT ![new] = rec] /\ Records(f, new)
  BY DEF Adds
<1>4. e # Nothing
  BY ConnectionsAssumption
<1>5. Connected' = Connected \cup {new}
  BY <1>1, <1>2, <1>3, <1>4 DEF Connected
<1>6. \A b \in Connected : box[b].address # e
  <2>1. Duplicates(e, flow[f].kind) = {}
    BY DEF Adds, MayAdd, Target
  <2> QED
    BY <2>1 DEF Duplicates
<1>7. OneBoxPerAddress'
  BY <1>1, <1>2, <1>3, <1>5, <1>6 DEF ConnectionsIInv, OneBoxPerAddress, Connected
<1>8. IsFiniteSet(Connected') /\ Cardinality(Connected') = Cardinality(Connected) + 1
  BY <1>1, <1>5, FS_AddElement DEF ConnectionsIInv, BoxesWithinLimit
<1>9. Cardinality(Connected) \in Nat /\ Cardinality(Connected) < boxLimit /\ boxLimit \in Nat
  BY FS_CardinalityType DEF ConnectionsIInv, BoxesWithinLimit, Adds, CanAddStill
<1>10. /\ \A b \in Connected' : box'[b].owner # Nothing
       /\ \A b \in Box \ Connected' : box'[b] = NoBox
  BY <1>1, <1>2, <1>3, <1>5 DEF ConnectionsIInv, ConnectionsTypeOK, Connected
<1> QED
  BY <1>1, <1>2, <1>3, <1>7, <1>8, <1>9, <1>10

\* An authorization or settings that work are saved.
LEMMA Saving ==
  ASSUME ConnectionsIInv, NEW f \in Flow, NEW e \in Address, Saves(f, e), Leaves(f),
         UNCHANGED <<boxLimit, link, state>>, acts' \in 0..MaxActs,
         flow[f].at = "test" \/ (flow[f].at \in {"exchange", "browser"} /\ MayTake(f, e))
  PROVE  ConnectionsIInv'
<1>1. PICK b \in Box : /\ Records(f, b)
                       /\ wronged' \subseteq {"test"}
                       /\ box' \in [Box -> BoxType]
                       /\ \A d \in Connected' : box'[d].owner # Nothing
                       /\ \A d \in Box \ Connected' : box'[d] = NoBox
                       /\ OneBoxPerAddress'
                       /\ IsFiniteSet(Connected') /\ Cardinality(Connected') <= boxLimit
  <2>1. CASE Reauthorizes(f, e)
    <3>1. PICK b \in Target(f, e) : box[b].address = e /\ Records(f, b) /\ UNCHANGED box
      BY <2>1 DEF Reauthorizes
    <3>2. b \in Box
      BY <3>1 DEF Target, Duplicates, Connected
    <3>3. wronged' \subseteq {"test"}
      <4>1. CASE flow[f].at = "test"
        BY <3>1, <4>1 DEF Records, ConnectionsIInv, OwnersAuthorize
      <4>2. CASE flow[f].at \in {"exchange", "browser"} /\ MayTake(f, e)
        BY <3>1, <3>2, <4>2, OwnersStillAuthorize DEF Records, ConnectionsIInv, OwnersAuthorize
      <4> QED
        BY <4>1, <4>2
    <3>4. Connected' = Connected
      BY <3>1 DEF Connected
    <3> QED
      BY <3>1, <3>2, <3>3, <3>4
      DEF ConnectionsIInv, ConnectionsTypeOK, BoxType, OneBoxPerAddress, BoxesWithinLimit, BoxesWithinPlan
  <2>2. CASE Adds(f, e)
    <3>1. PICK b \in Box : Records(f, b) /\ b \notin Connected
      BY <2>2, AddingABox
    <3>2. wronged' \subseteq {"test"}
      BY <3>1 DEF Records, Wrongs, ConnectionsIInv, OwnersAuthorize
    <3> QED
      BY <2>2, <3>1, <3>2, AddingABox
  <2> QED
    BY <2>1, <2>2 DEF Saves
<1>2. /\ flow' \in [Flow -> FlowType] /\ saved' \in [Link -> Nat]
      /\ \A g \in Flow : flow'[g] \in {flow[g], NoFlow}
      /\ LinksAreHeldOnce'
  BY <1>1, SavingOnce
<1>3. wronged' \subseteq Waiting
  BY <1>1 DEF Waiting
<1>4. ConnectionsTypeOK'
  BY <1>1, <1>2, <1>3 DEF ConnectionsIInv, ConnectionsTypeOK, BoxType, FlowType
<1>5. FlowsAreSound'
  <2>1. NoFlow.at = "idle"
    BY DEF NoFlow
  <2> QED
    BY <1>2, <2>1 DEF ConnectionsIInv, FlowsAreSound
<1>6. BoxesWithinLimit' /\ OwnersAuthorize'
  BY <1>1 DEF ConnectionsIInv, BoxesWithinLimit, BoxesWithinPlan, OwnersAuthorize
<1> QED
  BY <1>1, <1>2, <1>4, <1>5, <1>6 DEF ConnectionsIInv

\* Mailboxes are removed and handed over, under flows that are about them.
LEMMA BoxSteps ==
  ASSUME ConnectionsIInv, NEW b \in Connected, UNCHANGED <<boxLimit, link, state, flow, saved, wronged>>,
         acts' \in 0..MaxActs,
         \/ box' = [box EXCEPT ![b] = NoBox]
         \/ \E m \in Owner : box' = [box EXCEPT ![b].owner = m]
  PROVE  ConnectionsIInv'
<1>1. box \in [Box -> BoxType] /\ b \in Box
  BY DEF ConnectionsIInv, ConnectionsTypeOK, BoxType, Connected
<1>2. /\ box' \in [Box -> BoxType] /\ OneBoxPerAddress'
      /\ \A d \in Connected' : box'[d].owner # Nothing
      /\ \A d \in Box \ Connected' : box'[d] = NoBox
      /\ Connected' = Connected \/ Connected' = Connected \ {b}
  <2>1. CASE box' = [box EXCEPT ![b] = NoBox]
    <3>1. NoBox \in BoxType /\ NoBox.address = Nothing
      BY NothingIsSound DEF NoBox
    <3>2. Connected' = Connected \ {b}
      BY <1>1, <2>1, <3>1 DEF Connected
    <3> QED
      BY <1>1, <2>1, <3>1, <3>2 DEF ConnectionsIInv, ConnectionsTypeOK, OneBoxPerAddress
  <2>2. ASSUME NEW m \in Owner, box' = [box EXCEPT ![b].owner = m]
        PROVE  /\ box' \in [Box -> BoxType] /\ OneBoxPerAddress'
               /\ \A d \in Connected' : box'[d].owner # Nothing
               /\ \A d \in Box \ Connected' : box'[d] = NoBox
               /\ Connected' = Connected
    <3> DEFINE rec == [box[b] EXCEPT !.owner = m]
    <3>1. rec \in BoxType /\ rec.address = box[b].address /\ rec.owner = m /\ m # Nothing
      BY <1>1, ConnectionsAssumption DEF BoxType
    <3>2. box' = [box EXCEPT ![b] = rec]
      BY <2>2
    <3> HIDE DEF rec
    <3>3. Connected' = Connected
      BY <1>1, <3>1, <3>2 DEF Connected
    <3> QED
      BY <1>1, <3>1, <3>2, <3>3 DEF ConnectionsIInv, ConnectionsTypeOK, OneBoxPerAddress, Connected
  <2> QED
    BY <2>1, <2>2
<1>3. IsFiniteSet(Connected') /\ Cardinality(Connected') <= boxLimit
  <2>1. IsFiniteSet(Connected) /\ Cardinality(Connected) <= boxLimit /\ boxLimit \in Nat
    BY DEF ConnectionsIInv, BoxesWithinLimit, BoxesWithinPlan
  <2>2. Cardinality(Connected) \in Nat
    BY <2>1, FS_CardinalityType
  <2>3. CASE Connected' = Connected
    BY <2>1, <2>3
  <2>4. CASE Connected' = Connected \ {b}
    <3>1. IsFiniteSet(Connected \ {b}) /\ Cardinality(Connected \ {b}) = Cardinality(Connected) - 1
      BY <2>1, FS_RemoveElement
    <3> QED
      BY <2>1, <2>2, <2>4, <3>1
  <2> QED
    BY <1>2, <2>3, <2>4
<1>4. ConnectionsTypeOK'
  BY <1>2 DEF ConnectionsIInv, ConnectionsTypeOK, BoxType
<1>5. LinksAreHeldOnce' /\ FlowsAreSound' /\ BoxesWithinLimit' /\ OwnersAuthorize'
  BY <1>3 DEF ConnectionsIInv, LinksAreHeldOnce, FlowsAreSound, BoxesWithinLimit, BoxesWithinPlan, OwnersAuthorize
<1> QED
  BY <1>2, <1>4, <1>5 DEF ConnectionsIInv

LEMMA ConnectionsActStep ==
  ASSUME ConnectionsIInv, ConnectionsAct, acts' \in 0..MaxActs, UNCHANGED boxLimit
  PROVE  ConnectionsIInv'
<1>1. ASSUME NEW m \in Owner, NEW k \in OAuthKind, NEW l \in Link, Prepare(l, m, k) PROVE ConnectionsIInv'
  <2>1. PICK i \in OwnIntents(m, k) \cup CommandIntents(m, k) \cup AdminIntents(m, k) :
          link' = [link EXCEPT ![l] = [at |-> "available", kind |-> k, intent |-> i]]
    BY <1>1 DEF Prepare
  <2>2. [at |-> "available", kind |-> k, intent |-> i] \in LinkType
    BY <2>1, IntentsAreSound DEF LinkType
  <2>3. UNCHANGED <<box, boxLimit, state, flow, saved, wronged>> /\ link[l].at # "used"
    BY <1>1 DEF Prepare
  <2> QED
    BY <2>1, <2>2, <2>3, LinkSteps
<1>2. ASSUME NEW m \in Owner, NEW k \in OAuthKind, NEW o \in OAuthState, BeginDirect(o, m, k) PROVE ConnectionsIInv'
  <2>1. PICK owner \in Owner : Opens(o, k, For(owner), Nothing)
    BY <1>2 DEF BeginDirect
  <2> DEFINE rec == [at |-> "pending", kind |-> k, intent |-> For(owner), link |-> Nothing]
  <2>2. rec \in StateType /\ rec.link = Nothing
    BY DEF For, Intent, StateType
  <2>3. state' = [state EXCEPT ![o] = rec] /\ UNCHANGED <<box, boxLimit, link, flow, saved, wronged>>
    BY <1>2, <2>1 DEF BeginDirect, Opens
  <2> HIDE DEF rec
  <2> QED
    BY <2>2, <2>3, StateSteps
<1>3. ASSUME NEW m \in Owner, NEW k \in OAuthKind, NEW f \in Flow, OpenBrowser(f, m, k) PROVE ConnectionsIInv'
  <2>1. PICK i \in CommandIntents(m, k) : Enters(f, "browser", k, i, m, Nothing, Nothing)
    BY <1>3 DEF OpenBrowser
  <2>2. i \in Intent /\ i.owner = m /\ k \in BoxKind
    BY IntentsAreSound DEF BoxKind
  <2> QED
    BY <1>3, <2>1, <2>2, Entering DEF OpenBrowser
<1>4. ASSUME NEW f \in Flow, NEW m \in Owner, NEW e \in Address, TestSettings(f, m, e) PROVE ConnectionsIInv'
  <2>1. PICK i \in Settings(m, e) : Enters(f, "test", "imap", i, m, e, Nothing)
    BY <1>4 DEF TestSettings
  <2>2. i \in Intent /\ "imap" \in BoxKind
    BY DEF Settings, For, Again, Intent, BoxKind, Connected
  <2> QED
    BY <1>4, <2>1, <2>2, Entering DEF TestSettings
<1>5. ASSUME NEW b \in Box, AssignBox(b) \/ \E m \in Owner : RemoveBox(b, m) PROVE ConnectionsIInv'
  BY <1>5, BoxSteps DEF AssignBox, RemoveBox
<1> QED
  BY <1>1, <1>2, <1>3, <1>4, <1>5, Zenon DEF ConnectionsAct

LEMMA ConnectionsFollowStep ==
  ASSUME ConnectionsIInv, ConnectionsFollow, acts' \in 0..MaxActs, UNCHANGED boxLimit
  PROVE  ConnectionsIInv'
<1> USE DEF ConnectionsIInv
<1>1. ASSUME NEW l \in Link, ExpireLink(l) PROVE ConnectionsIInv'
  <2> DEFINE rec == [link[l] EXCEPT !.at = "expired"]
  <2>1. rec \in LinkType /\ rec.at = "expired"
    BY DEF ConnectionsTypeOK, LinkType
  <2>2. link' = [link EXCEPT ![l] = rec] /\ UNCHANGED <<box, boxLimit, state, flow, saved, wronged>> /\ link[l].at # "used"
    BY <1>1 DEF ExpireLink
  <2> HIDE DEF rec, ConnectionsIInv
  <2> QED
    BY <2>1, <2>2, LinkSteps
<1>2. ASSUME NEW l \in Link, NEW o \in OAuthState, Claim(l, o) PROVE ConnectionsIInv'
  <2> DEFINE rec == [at |-> "pending", kind |-> link[l].kind, intent |-> link[l].intent, link |-> l]
  <2>1. rec \in StateType /\ rec.link = l
    BY DEF ConnectionsTypeOK, StateType
  <2>2. /\ state' = [state EXCEPT ![o] = rec] /\ UNCHANGED <<box, boxLimit, flow, saved, wronged>>
        /\ link[l].at # "used" /\ link' = [link EXCEPT ![l].at = "used"]
    BY <1>2 DEF Claim, MayClaim, Opens
  <2> HIDE DEF rec, ConnectionsIInv
  <2> QED
    BY <2>1, <2>2, StateSteps
<1>3. ASSUME NEW o \in OAuthState, ExpireState(o) PROVE ConnectionsIInv'
  <2> DEFINE rec == [state[o] EXCEPT !.at = "expired"]
  <2>1. rec \in StateType /\ rec.link = state[o].link
    BY DEF ConnectionsTypeOK, StateType
  <2>2. state' = [state EXCEPT ![o] = rec] /\ UNCHANGED <<box, boxLimit, link, flow, saved, wronged>>
    BY <1>3 DEF ExpireState
  <2> HIDE DEF rec, ConnectionsIInv
  <2> QED
    BY <2>1, <2>2, StateSteps
<1>4. /\ state \in [OAuthState -> StateType] /\ flow \in [Flow -> FlowType]
  BY DEF ConnectionsTypeOK, StateType, FlowType
<1>5. ASSUME NEW o \in OAuthState, Sweep(o) PROVE ConnectionsIInv'
  <2>1. state' = [state EXCEPT ![o] = NoState] /\ UNCHANGED <<box, boxLimit, link, flow, saved, wronged>>
    BY <1>5 DEF Sweep
  <2>2. NoState \in StateType /\ NoState.link = Nothing
    BY NothingIsSound DEF NoState
  <2> HIDE DEF ConnectionsIInv
  <2> QED
    BY <2>1, <2>2, StateSteps
<1>6. ASSUME NEW o \in OAuthState, NEW f \in Flow, Callback(f, o) PROVE ConnectionsIInv'
  <2>1. CASE UNCHANGED flow
    <3>1. state' = [state EXCEPT ![o] = NoState] /\ UNCHANGED <<box, link, saved, wronged>>
      BY <1>6 DEF Callback, Forgets
    <3>2. /\ state' \in [OAuthState -> StateType] /\ flow' \in [Flow -> FlowType]
          /\ \A p \in OAuthState : state'[p] \in {state[p], NoState}
      BY <1>4, <2>1, <3>1, NothingIsSound
    <3> HIDE DEF ConnectionsIInv
    <3> QED
      BY <2>1, <3>1, <3>2, Forgetting
  <2>2. CASE Enters(f, "exchange", state[o].kind, state[o].intent, Nothing, Nothing, state[o].link)
    <3>1. state[o].kind \in BoxKind /\ state[o].intent \in Intent /\ state[o].link \in Link \cup {Nothing}
      BY <1>4 DEF StateType, BoxKind
    <3>2. Forgets(o) /\ UNCHANGED <<box, link, saved, wronged>>
      BY <1>6 DEF Callback
    <3> HIDE DEF ConnectionsIInv
    <3> QED
      BY <2>2, <3>1, <3>2, Entering
  <2> QED
    BY <1>6, <2>1, <2>2 DEF Callback
<1>7. ASSUME NEW f \in Flow, Tested(f) PROVE ConnectionsIInv'
  <2>1. flow[f].address \in Address
    BY <1>7 DEF Tested, FlowsAreSound
  <2> HIDE DEF ConnectionsIInv
  <2> QED
    BY <1>7, <2>1, Saving DEF Tested
<1>8. ASSUME NEW f \in Flow, NEW e \in Address, Authorized(f, e) PROVE ConnectionsIInv'
  <2> HIDE DEF ConnectionsIInv
  <2> QED
    BY <1>8, Saving DEF Authorized
<1>9. ASSUME NEW f \in Flow, GivesUp(f) PROVE ConnectionsIInv'
  <2>1. flow' = [flow EXCEPT ![f] = NoFlow] /\ UNCHANGED <<box, link, state, saved, wronged>>
    BY <1>9 DEF GivesUp, Leaves
  <2>2. flow' \in [Flow -> FlowType] /\ \A g \in Flow : flow'[g] \in {flow[g], NoFlow}
    BY <1>4, <2>1, NothingIsSound
  <2> HIDE DEF ConnectionsIInv
  <2> QED
    BY <1>4, <2>1, <2>2, Forgetting
<1>10. CASE StopServer
  <2>1. /\ state' \in [OAuthState -> StateType] /\ flow' \in [Flow -> FlowType]
        /\ \A o \in OAuthState : state'[o] \in {state[o], NoState}
        /\ \A g \in Flow : flow'[g] \in {flow[g], NoFlow}
    BY <1>4, <1>10, NothingIsSound DEF StopServer
  <2>2. UNCHANGED <<box, link, saved, wronged>>
    BY <1>10 DEF StopServer
  <2> HIDE DEF ConnectionsIInv
  <2> QED
    BY <2>1, <2>2, Forgetting
<1> HIDE DEF ConnectionsIInv
<1> QED
  BY <1>1, <1>2, <1>3, <1>5, <1>6, <1>7, <1>8, <1>9, <1>10, Zenon DEF ConnectionsFollow

LEMMA ConnectionsStep == ConnectionsIInv /\ [ConnectionsNext]_connectionsVars => ConnectionsIInv'
<1> SUFFICES ASSUME ConnectionsIInv, [ConnectionsNext]_connectionsVars PROVE ConnectionsIInv'
  OBVIOUS
<1>1. CASE UNCHANGED connectionsVars
  <2>1. Connected' = Connected
    BY <1>1 DEF connectionsVars, Connected
  <2> QED
    BY <1>1, <2>1 DEF connectionsVars, ConnectionsIInv, ConnectionsTypeOK, LinksAreHeldOnce, FlowsAreSound,
                      OneBoxPerAddress, BoxesWithinLimit, BoxesWithinPlan, OwnersAuthorize
<1>2. CASE ConnectionsNext
  <2>1. acts' \in 0..MaxActs
    BY <1>2, ConnectionsAssumption DEF ConnectionsNext, ConnectionsIInv, ConnectionsTypeOK
  <2> QED
    BY <1>2, <2>1, ConnectionsActStep, ConnectionsFollowStep DEF ConnectionsNext
<1> QED
  BY <1>1, <1>2

\* Whatever callbacks, commands and settings overlap, and whoever is handed or loses a
\* mailbox meanwhile: a link connects one mailbox at most (claimConnectionGrant), an address
\* is one mailbox, the plan holds (assertAccountLimit), and no OAuth authorization replaces
\* the credentials of another member's mailbox.
THEOREM BoxesStaySound == ConnectionsSpec => []BoxesAreSound
<1>1. ConnectionsInit => ConnectionsIInv
  <2> SUFFICES ASSUME ConnectionsInit PROVE ConnectionsIInv
    OBVIOUS
  <2> USE DEF ConnectionsInit
  <2>1. Connected = {}
    BY DEF Connected, NoBox
  <2>2. ConnectionsTypeOK
    <3>1. /\ box \in [Box -> BoxType] /\ link \in [Link -> LinkType] /\ state \in [OAuthState -> StateType]
          /\ flow \in [Flow -> FlowType] /\ \A o \in OAuthState : state[o].link = Nothing
      BY NothingIsSound DEF NoState
    <3>2. \A b \in Box : box[b] = NoBox
      OBVIOUS
    <3>3. acts \in 0..MaxActs /\ saved \in [Link -> Nat]
      <4>1. acts = 0 /\ MaxActs \in Nat
        BY ConnectionsAssumption
      <4> QED
        BY <4>1
    <3>4. wronged \subseteq Waiting
      OBVIOUS
    <3> HIDE DEF ConnectionsInit
    <3> QED
      BY <2>1, <3>1, <3>2, <3>3, <3>4 DEF ConnectionsTypeOK, BoxType, LinkType, StateType, FlowType
  <2>3. LinksAreHeldOnce
    BY ConnectionsAssumption DEF LinksAreHeldOnce, NoFlow, NoState
  <2>4. FlowsAreSound
    BY DEF FlowsAreSound, NoFlow
  <2>5. OneBoxPerAddress /\ OwnersAuthorize
    BY <2>1 DEF OneBoxPerAddress, OwnersAuthorize
  <2>6. BoxesWithinLimit
    BY <2>1, FS_EmptySet, ConnectionsAssumption DEF BoxesWithinLimit, BoxesWithinPlan
  <2> QED
    BY <2>2, <2>3, <2>4, <2>5, <2>6 DEF ConnectionsIInv
<1>2. ConnectionsIInv => BoxesAreSound
  BY DEF ConnectionsIInv, BoxesWithinLimit, LinksAreHeldOnce, LinkConnectsOnce, BoxesAreSound
<1> QED
  BY <1>1, <1>2, ConnectionsStep, PTL DEF ConnectionsSpec

====
