--------------------------- MODULE ImapConnection ---------------------------
(* The one connection of an IMAP provider (client and close of                       *)
(* provider-imap/src/imapProvider.ts): callers share an attempt to connect, and       *)
(* close may come at any await of it.  Clients are numbered in the order in which     *)
(* they are made.  What a caller does with its client is ImapMailbox.                 *)
EXTENDS Integers, FiniteSets

CONSTANTS
  ImapUser,     \* callers that need the connection
  MaxClients    \* bound on the clients that are made

ASSUME ConnectionAssumption == MaxClients \in Nat

VARIABLES
  imap,             \* the client in use, 0 if none
  connectingImap,   \* the client that connects, 0 if none
  imapConnection,   \* the attempt that callers share, 0 if none
  clients,          \* for each client: "new", "connecting", "connected" or "closed"
  settled,          \* attempts that are over
  awaits            \* for each caller: the attempt it waits for, 0 if none
connVars == <<imap, connectingImap, imapConnection, clients, settled, awaits>>

ImapClient == 1..MaxClients
ConnInit ==
  /\ imap = 0 /\ connectingImap = 0 /\ imapConnection = 0
  /\ clients = [k \in ImapClient |-> "new"] /\ settled = {}
  /\ awaits = [u \in ImapUser |-> 0]

Usable(k) == k # 0 /\ clients[k] = "connected"
\* client: the client in use, else the attempt under way, else a new one.
AsksClient(u) ==
  /\ awaits[u] = 0 /\ ~Usable(imap)
  /\ IF imapConnection # 0
     THEN awaits' = [awaits EXCEPT ![u] = imapConnection] /\ UNCHANGED <<connectingImap, imapConnection, clients>>
     ELSE \E k \in ImapClient :
            /\ clients[k] = "new" /\ \A j \in ImapClient : j < k => clients[j] # "new"
            /\ clients' = [clients EXCEPT ![k] = "connecting"]
            /\ connectingImap' = k /\ imapConnection' = k
            /\ awaits' = [awaits EXCEPT ![u] = k]
  /\ UNCHANGED <<imap, settled>>
\* The server accepts the login, refuses it, or ends the connection later.
Accepts(k) ==
  /\ clients[k] = "connecting" /\ clients' = [clients EXCEPT ![k] = "connected"]
  /\ UNCHANGED <<imap, connectingImap, imapConnection, settled, awaits>>
Ends(k) ==
  /\ clients[k] \in {"connecting", "connected"} /\ clients' = [clients EXCEPT ![k] = "closed"]
  /\ UNCHANGED <<imap, connectingImap, imapConnection, settled, awaits>>
Begun == {k \in ImapClient : clients[k] # "new"} \ settled
\* Mutant: an attempt whose provider was closed meanwhile is taken all the same.
MayTakeAlways(k) == Usable(k)
\* An attempt is taken unless it failed or another one, or none, is wanted by now.
MayTake(k) == Usable(k) /\ connectingImap = k
\* Every caller of the attempt gets its client or its error.
Hears(u, k) == IF awaits[u] = k THEN 0 ELSE awaits[u]
Settles(k) ==
  /\ k \in Begun /\ clients[k] # "connecting"
  /\ settled' = settled \union {k}
  /\ IF MayTake(k) THEN imap' = k /\ UNCHANGED clients
     ELSE clients' = [clients EXCEPT ![k] = "closed"] /\ UNCHANGED imap
  /\ connectingImap' = IF connectingImap = k THEN 0 ELSE connectingImap
  /\ imapConnection' = 0
  /\ awaits' = [u \in ImapUser |-> Hears(u, k)]
\* close: what is connected and what connects, and nothing is shared any more.
CloseProvider ==
  /\ clients' = [k \in ImapClient |-> IF k \in {imap, connectingImap} THEN "closed" ELSE clients[k]]
  /\ imap' = 0 /\ connectingImap' = 0 /\ imapConnection' = 0
  /\ UNCHANGED <<settled, awaits>>

ConnNext ==
  \/ \E u \in ImapUser : AsksClient(u)
  \/ \E k \in ImapClient : Accepts(k) \/ Ends(k) \/ Settles(k)
  \/ CloseProvider
ConnSpec == ConnInit /\ [][ConnNext]_connVars

\* Clients are made in order, and who waits waits for an attempt that is not over.
ConnTypeOK ==
  /\ {imap, connectingImap, imapConnection} \subseteq ImapClient \union {0}
  /\ \A j, k \in ImapClient : clients[k] # "new" /\ j < k => clients[j] # "new"
  /\ \A u \in ImapUser : awaits[u] # 0 => awaits[u] \in Begun
\* No client is left open behind the provider's back: one whose attempt is over is
\* the client in use, so close always reaches it and there are never two (client, close).
NoClientLeaks == \A k \in settled : clients[k] = "connected" => imap = k

\* At most one client is logged in, the provider knows it, and who waits waits for one
\* that is still being connected (client, close).
OneKnownClient == ConnTypeOK /\ NoClientLeaks
=============================================================================
