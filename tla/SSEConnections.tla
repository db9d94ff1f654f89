--------------------------- MODULE SSEConnections ---------------------------
(***************************************************************************)
(* The server side of the SSE connections: SSEConnectionManager            *)
(* (src/services/sse-connection-manager.ts) on top of TopicManager, the    *)
(* subscribe handlers of src/index.ts that call it, and the connection     *)
(* counter of HealthMonitor.  Every handler and callback runs to its end   *)
(* on the event loop, so each is one action; between two of them anything  *)
(* may happen: a peer goes away, its 'close' event is still queued, a      *)
(* client connects again under the id of a connection that is still open.  *)
(*                                                                         *)
(* A Response object lives once: idle (not created yet), up, gone (the     *)
(* peer left, the 'close' event is pending), closed (the event was         *)
(* handled).  What Node does with a write to a connection that is gone is  *)
(* external: it may be swallowed, or throw into the catch blocks.          *)
(***************************************************************************)
EXTENDS TopicManager, Naturals

CONSTANTS
  Response,   \* the ServerResponse objects of GET /subscribe requests
  Message,    \* message ids
  NoClient    \* the owner of a response that was never opened

ASSUME ConnectionAssumption ==
  /\ NoClient \notin Client
  /\ IsFiniteSet(Response)

VARIABLES
  clients,            \* client -> [response, subscriptions]
  deliveredMessages,  \* client -> ids of the messages broadcast to it
  activeConnections,  \* HealthMonitor's counter
  owner,              \* response -> the clientId its 'close' listeners captured
  socket,             \* response -> life cycle of its connection
  ended               \* the responses on which end() was called

sseVars == <<clients, deliveredMessages, activeConnections, owner, socket, ended>>
vars == <<tmVars, sseVars>>

Init ==
  /\ TMInit
  /\ clients = << >>
  /\ deliveredMessages = << >>
  /\ activeConnections = 0
  /\ owner = [r \in Response |-> NoClient]
  /\ socket = [r \in Response |-> "idle"]
  /\ ended = {}

\* Mutant of Connect: a reconnect leaves the old delivery record in place.
ConnectKeepsDelivered(c, r, P) ==
  /\ socket[r] = "idle"
  /\ socket' = [socket EXCEPT ![r] = "up"]
  /\ owner' = [owner EXCEPT ![r] = c]
  /\ clients' = SetEntry(clients, c, [response |-> r, subscriptions |-> P])
  /\ deliveredMessages' = IF c \in DOMAIN clients THEN deliveredMessages
                          ELSE SetEntry(deliveredMessages, c, {})
  /\ activeConnections' = activeConnections + 1
  /\ Subscribe(c, P)
  /\ UNCHANGED ended

\* GET /subscribe: addClient overwrites an entry with the same id (its
\* response stays open and its TopicManager subscriptions stay in place),
\* then the query's topics P are subscribed one by one.
Connect(c, r, P) ==
  /\ socket[r] = "idle"
  /\ socket' = [socket EXCEPT ![r] = "up"]
  /\ owner' = [owner EXCEPT ![r] = c]
  /\ clients' = SetEntry(clients, c, [response |-> r, subscriptions |-> P])
  /\ deliveredMessages' = SetEntry(deliveredMessages, c, {})
  /\ activeConnections' = activeConnections + 1
  /\ Subscribe(c, P)
  /\ UNCHANGED ended

\* POST /subscribe for a connected client (404 otherwise, without effect).
AddSubscription(c, p) ==
  /\ c \in DOMAIN clients
  /\ clients' = [clients EXCEPT ![c].subscriptions = @ \cup {p}]
  /\ Subscribe(c, {p})
  /\ UNCHANGED <<deliveredMessages, activeConnections, owner, socket, ended>>

\* DELETE /subscribe for a connected client (404 otherwise).
RemoveSubscription(c, p) ==
  /\ c \in DOMAIN clients
  /\ clients' = [clients EXCEPT ![c].subscriptions = @ \ {p}]
  /\ Unsubscribe(c, p)
  /\ UNCHANGED <<deliveredMessages, activeConnections, owner, socket, ended>>

\* Mutant of RemoveClients: the subscriptions outlive the client.
RemoveClientsKeepingSubscriptions(C, received) ==
  LET gone == C \cap DOMAIN clients
  IN  /\ clients' = Restrict(clients, DOMAIN clients \ gone)
      /\ deliveredMessages' = Restrict(received, DOMAIN received \ gone)
      /\ ended' = ended \cup {clients[c].response : c \in gone}
      /\ UNCHANGED tmVars

\* Mutant of RemoveClients: the delivery record is not deleted.
RemoveClientsKeepingRecord(C, received) ==
  LET gone == C \cap DOMAIN clients
  IN  /\ UnsubscribeAll(gone)
      /\ clients' = Restrict(clients, DOMAIN clients \ gone)
      /\ deliveredMessages' = received
      /\ ended' = ended \cup {clients[c].response : c \in gone}

\* removeClient(c) for the connected clients of C; the others are left alone.
\* received[c] is what the callers added to deliveredMessages before.
RemoveClients(C, received) ==
  LET gone == C \cap DOMAIN clients
  IN  /\ UnsubscribeAll(gone)
      /\ clients' = Restrict(clients, DOMAIN clients \ gone)
      /\ deliveredMessages' = Restrict(received, DOMAIN received \ gone)
      /\ ended' = ended \cup {clients[c].response : c \in gone}

\* The clients a write reaches, and those on whose dead connection it may throw.
Writable == {c \in DOMAIN clients : clients[c].response \notin ended}
MayThrow == {c \in Writable : socket[clients[c].response] = "gone"}

\* broadcast(t, data, m): every matching client is written to, marked as
\* having received m unless the write threw, in which case it is removed.
Broadcast(t, m, failing) ==
  LET targets == MatchingSubscribers(t) \cap Writable
  IN  /\ failing \subseteq targets \cap MayThrow
      /\ RemoveClients(failing,
           [c \in DOMAIN deliveredMessages |->
              IF c \in targets \ failing
              THEN deliveredMessages[c] \cup {m} ELSE deliveredMessages[c]])
      /\ UNCHANGED <<activeConnections, owner, socket>>

\* Mutant of Heartbeat: a failed write also counts the connection out.
HeartbeatCountsOut(failing) ==
  /\ failing \subseteq MayThrow
  /\ RemoveClients(failing, deliveredMessages)
  /\ activeConnections' = IF failing /= {} THEN activeConnections - 1
                          ELSE activeConnections
  /\ UNCHANGED <<owner, socket>>

\* sendHeartbeat() (or a history write) that throws on the clients of failing.
Heartbeat(failing) ==
  /\ failing \subseteq MayThrow
  /\ RemoveClients(failing, deliveredMessages)
  /\ UNCHANGED <<activeConnections, owner, socket>>

\* The peer of r goes away; the 'close' event is now pending.
PeerLeaves(r) ==
  /\ socket[r] = "up"
  /\ socket' = [socket EXCEPT ![r] = "gone"]
  /\ UNCHANGED <<tmVars, clients, deliveredMessages, activeConnections, owner, ended>>

\* Mutant of ResponseClosed: addClient installs no 'close' listener.
ResponseClosedUnheard(r) ==
  /\ socket[r] = "gone" \/ (socket[r] = "up" /\ r \in ended)
  /\ socket' = [socket EXCEPT ![r] = "closed"]
  /\ activeConnections' =
       IF activeConnections > 0 THEN activeConnections - 1 ELSE 0
  /\ UNCHANGED <<tmVars, clients, deliveredMessages, ended, owner>>

\* The 'close' event of r, after the peer left or the server ended it: both
\* listeners run, with the clientId they captured when r was opened.
ResponseClosed(r) ==
  /\ socket[r] = "gone" \/ (socket[r] = "up" /\ r \in ended)
  /\ socket' = [socket EXCEPT ![r] = "closed"]
  /\ RemoveClients({owner[r]}, deliveredMessages)
  /\ activeConnections' =
       IF activeConnections > 0 THEN activeConnections - 1 ELSE 0
  /\ UNCHANGED owner

Next ==
  \/ \E c \in Client, r \in Response, P \in SUBSET Pattern : Connect(c, r, P)
  \/ \E c \in Client, p \in Pattern : AddSubscription(c, p)
  \/ \E c \in Client, p \in Pattern : RemoveSubscription(c, p)
  \/ \E t \in Topic, m \in Message, F \in SUBSET Client : Broadcast(t, m, F)
  \/ \E F \in (SUBSET Client) \ {{}} : Heartbeat(F)
  \/ \E r \in Response : PeerLeaves(r)
  \/ \E r \in Response : ResponseClosed(r)

Spec == Init /\ [][Next]_vars

-----------------------------------------------------------------------------
(* Properties.                                                             *)

TypeOK ==
  /\ TMTypeOK
  /\ DOMAIN clients \subseteq Client
  /\ \A c \in DOMAIN clients :
       clients[c] \in [response : Response, subscriptions : SUBSET Pattern]
  /\ DOMAIN deliveredMessages = DOMAIN clients
  /\ \A c \in DOMAIN clients : deliveredMessages[c] \subseteq Message
  /\ activeConnections \in Nat
  /\ owner \in [Response -> Client \cup {NoClient}]
  /\ socket \in [Response -> {"idle", "up", "gone", "closed"}]
  /\ \A r \in Response : owner[r] = NoClient <=> socket[r] = "idle"
  /\ ended \subseteq {r \in Response : socket[r] /= "idle"}

\* The connections whose 'close' event has not been handled yet.
OpenResponses == {r \in Response : socket[r] \in {"up", "gone"}}

\* A broadcast only ever picks connected clients: whatever the order of
\* reconnects, failed writes and late 'close' events, no subscription survives
\* its client, and everything a client asked for and did not cancel is in the
\* tables the broadcast reads.
SubscribersAreConnected ==
  /\ DOMAIN subscriptions \subseteq DOMAIN clients
  /\ \A c \in DOMAIN clients :
       clients[c].subscriptions \subseteq EntryOf(subscriptions, c)

\* The client table never holds a response that was ended or whose 'close'
\* event was handled, nor one opened under another id: removeClient by a stale
\* listener can end a newer connection but never leave a dead one behind.
ClientsAreOpen ==
  \A c \in DOMAIN clients :
    LET r == clients[c].response
    IN  owner[r] = c /\ r \in OpenResponses /\ r \notin ended

\* The connection counter counts each connection once, from the request to
\* the 'close' event, however often removeClient ran for it in between.
CountIsExact == activeConnections = Cardinality(OpenResponses)

\* The server ends a connection only after its own peer left.
EndsOnlyAfterOwnClose ==
  [][\A r \in ended' \ ended : socket[r] = "gone"]_vars
=============================================================================
