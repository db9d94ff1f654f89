-------------------------- MODULE Delivery_proofs --------------------------
(***************************************************************************)
(* Proofs about the connections and the delivery of messages, for every    *)
(* set of clients, patterns, topics, responses and messages, any buffer    *)
(* sizes and any capacity of the I/O queue.                                *)
(*                                                                         *)
(* First SSEConnections.tla: its types, the consistency of the             *)
(* subscription tables with the client table, and the exactness of the     *)
(* connection counter.  The five invariants are proved together: each step *)
(* needs the types, and removing a client needs the owners of the          *)
(* responses.                                                              *)
(*                                                                         *)
(* Then Delivery.tla: each step of the handlers, of the two workers and of *)
(* a hot reload is a step of the connections or leaves them alone.  What   *)
(* is proved of the connections therefore holds of the composed system,    *)
(* and helps to prove that no live message is missed, that no history is   *)
(* lost and that nothing is written that was not asked for.                *)
(***************************************************************************)
EXTENDS Delivery, SequenceLemmas, FiniteSetTheorems

-----------------------------------------------------------------------------
(* The subscription tables of TopicManager.tla: each method keeps them     *)
(* typed and consistent, and changes only the entries of the clients it is *)
(* called for.                                                             *)

\* A map from K to non-empty subsets of V.
NonEmptyMap(map, K, V) ==
  /\ DOMAIN map \subseteq K
  /\ \A k \in DOMAIN map : map[k] \subseteq V /\ map[k] /= {}

TablesTyped ==
  /\ NonEmptyMap(subscriptions, Client, Pattern)
  /\ NonEmptyMap(patternToClients, Pattern, Client)
  /\ splitPatternCache \subseteq Pattern
  /\ DOMAIN patternToClients \subseteq splitPatternCache

LEMMA TablesTypedEquiv ==
  TMTypeOK /\ TablesConsistent <=> TablesTyped /\ MapsAgree
BY DEF TMTypeOK, TablesConsistent, NoEmptyEntries, TablesTyped, NonEmptyMap

LEMMA TablesTypedEquivNext ==
  TMTypeOK' /\ TablesConsistent' <=> TablesTyped' /\ MapsAgree'
BY TablesTypedEquiv, PTL

\* Reading a map after set() or delete().
LEMMA SetOrDeleteEntry ==
  ASSUME NEW map, NEW k, NEW S
  PROVE  \A j : EntryOf(SetOrDelete(map, k, S), j) =
                  IF j = k THEN S ELSE EntryOf(map, j)
BY DEF SetOrDelete, SetEntry, EntryOf, Restrict

LEMMA SetOrDeleteTyped ==
  ASSUME NEW map, NEW K, NEW V, NonEmptyMap(map, K, V),
         NEW k \in K, NEW S \in SUBSET V
  PROVE  NonEmptyMap(SetOrDelete(map, k, S), K, V)
BY DEF SetOrDelete, SetEntry, Restrict, NonEmptyMap

LEMMA EntryTyped ==
  ASSUME NEW map, NEW K, NEW V, NonEmptyMap(map, K, V), NEW k
  PROVE  EntryOf(map, k) \in SUBSET V
BY DEF EntryOf, NonEmptyMap

\* subscribe() keeps the tables typed and consistent.
LEMMA SubscribeConsistent ==
  ASSUME TMTypeOK, TablesConsistent,
         NEW c \in Client, NEW P \in SUBSET Pattern, Subscribe(c, P)
  PROVE  /\ TMTypeOK' /\ TablesConsistent'
         /\ \A d : EntryOf(subscriptions', d) =
                     IF d = c THEN EntryOf(subscriptions, c) \cup P
                     ELSE EntryOf(subscriptions, d)
<1>1. TablesTyped /\ MapsAgree
  BY TablesTypedEquiv
<1>2. subscriptions' =
        SetOrDelete(subscriptions, c, EntryOf(subscriptions, c) \cup P)
  BY DEF Subscribe
<1>3. \A d : EntryOf(subscriptions', d) =
               IF d = c THEN EntryOf(subscriptions, c) \cup P
               ELSE EntryOf(subscriptions, d)
  BY <1>2, SetOrDeleteEntry
<1>4. patternToClients' = [p \in DOMAIN patternToClients \cup P |->
        EntryOf(patternToClients, p) \cup (IF p \in P THEN {c} ELSE {})]
  BY DEF Subscribe
<1>5. \A p : EntryOf(patternToClients', p) =
               EntryOf(patternToClients, p) \cup (IF p \in P THEN {c} ELSE {})
  BY <1>4 DEF EntryOf
<1>6. NonEmptyMap(subscriptions', Client, Pattern)
  <2>1. EntryOf(subscriptions, c) \cup P \in SUBSET Pattern
    BY <1>1, EntryTyped DEF TablesTyped
  <2>2. QED
    BY <1>1, <1>2, <2>1, SetOrDeleteTyped DEF TablesTyped
<1>7. NonEmptyMap(patternToClients', Pattern, Client)
  BY <1>1, <1>4 DEF TablesTyped, NonEmptyMap, EntryOf
<1>8. /\ splitPatternCache' \subseteq Pattern
      /\ DOMAIN patternToClients' \subseteq splitPatternCache'
  BY <1>1, <1>4 DEF Subscribe, TablesTyped
<1>9. MapsAgree'
  BY <1>1, <1>3, <1>5 DEF MapsAgree
<1>10. QED
  BY <1>3, <1>6, <1>7, <1>8, <1>9, TablesTypedEquivNext DEF TablesTyped

\* unsubscribe() keeps the tables typed and consistent.
LEMMA UnsubscribeConsistent ==
  ASSUME TMTypeOK, TablesConsistent,
         NEW c \in Client, NEW p \in Pattern, Unsubscribe(c, p)
  PROVE  /\ TMTypeOK' /\ TablesConsistent'
         /\ \A d : EntryOf(subscriptions', d) =
                     IF d = c THEN EntryOf(subscriptions, c) \ {p}
                     ELSE EntryOf(subscriptions, d)
<1> DEFINE T == EntryOf(patternToClients, p) \ {c}
<1>1. TablesTyped /\ MapsAgree
  BY TablesTypedEquiv
<1>2. /\ subscriptions' =
           SetOrDelete(subscriptions, c, EntryOf(subscriptions, c) \ {p})
      /\ patternToClients' = SetOrDelete(patternToClients, p, T)
  BY DEF Unsubscribe
<1>3. \A d : EntryOf(subscriptions', d) =
               IF d = c THEN EntryOf(subscriptions, c) \ {p}
               ELSE EntryOf(subscriptions, d)
  BY <1>2, SetOrDeleteEntry
<1>4. \A q : EntryOf(patternToClients', q) =
               IF q = p THEN T ELSE EntryOf(patternToClients, q)
  BY <1>2, SetOrDeleteEntry
<1>5. NonEmptyMap(subscriptions', Client, Pattern)
  <2>1. EntryOf(subscriptions, c) \ {p} \in SUBSET Pattern
    BY <1>1, EntryTyped DEF TablesTyped
  <2>2. QED
    BY <1>1, <1>2, <2>1, SetOrDeleteTyped DEF TablesTyped
<1>6. NonEmptyMap(patternToClients', Pattern, Client)
  <2>1. T \in SUBSET Client
    BY <1>1, EntryTyped DEF TablesTyped
  <2>2. QED
    BY <1>1, <1>2, <2>1, SetOrDeleteTyped DEF TablesTyped
<1>7. splitPatternCache' \subseteq Pattern
  BY <1>1 DEF Unsubscribe, TablesTyped
<1>8. DOMAIN patternToClients' \subseteq splitPatternCache'
  <2>1. CASE p \in DOMAIN patternToClients /\ patternToClients[p] \subseteq {c}
    <3>1. T = {} /\ splitPatternCache' = splitPatternCache \ {p}
      BY <2>1 DEF Unsubscribe, EntryOf
    <3>2. DOMAIN patternToClients' = DOMAIN patternToClients \ {p}
      BY <3>1, <1>2 DEF SetOrDelete, Restrict
    <3>3. QED
      BY <1>1, <3>1, <3>2 DEF TablesTyped
  <2>2. CASE ~ (p \in DOMAIN patternToClients /\ patternToClients[p] \subseteq {c})
    <3>1. splitPatternCache' = splitPatternCache
      BY <2>2 DEF Unsubscribe
    <3>2. T = {} \/ p \in DOMAIN patternToClients
      BY DEF EntryOf
    <3>3. DOMAIN patternToClients' \subseteq DOMAIN patternToClients
      BY <1>2, <3>2 DEF SetOrDelete, SetEntry, Restrict
    <3>4. QED
      BY <1>1, <3>1, <3>3 DEF TablesTyped
  <2>3. QED
    BY <2>1, <2>2
<1>9. MapsAgree'
  BY <1>1, <1>3, <1>4 DEF MapsAgree
<1>10. QED
  BY <1>3, <1>5, <1>6, <1>7, <1>8, <1>9, TablesTypedEquivNext DEF TablesTyped

\* unsubscribeAll() keeps the tables typed and consistent, and takes exactly
\* its clients out of them.
LEMMA UnsubscribeAllConsistent ==
  ASSUME TMTypeOK, TablesConsistent, NEW C \in SUBSET Client, UnsubscribeAll(C)
  PROVE  /\ TMTypeOK' /\ TablesConsistent'
         /\ DOMAIN subscriptions' = DOMAIN subscriptions \ C
         /\ \A d \in DOMAIN subscriptions' : subscriptions'[d] = subscriptions[d]
<1> DEFINE keep == {p \in DOMAIN patternToClients :
                      \/ RemainingClients(p, C) /= {}
                      \/ RemainingClients(p, C) = patternToClients[p]}
<1>1. TablesTyped /\ MapsAgree
  BY TablesTypedEquiv
<1>2. subscriptions' = Restrict(subscriptions, DOMAIN subscriptions \ C)
  BY DEF UnsubscribeAll
<1>3. /\ DOMAIN subscriptions' = DOMAIN subscriptions \ C
      /\ \A d \in DOMAIN subscriptions' : subscriptions'[d] = subscriptions[d]
  BY <1>2 DEF Restrict
<1>4. \A p \in DOMAIN patternToClients :
        RemainingClients(p, C) = patternToClients[p] \ C
  BY <1>1 DEF RemainingClients, TablesTyped, NonEmptyMap, MapsAgree, EntryOf
<1>5. patternToClients' = [p \in keep |-> RemainingClients(p, C)]
  BY DEF UnsubscribeAll
<1>6. \A p \in keep : RemainingClients(p, C) = patternToClients[p] \ C
  BY <1>4
<1>7. keep = {p \in DOMAIN patternToClients : patternToClients[p] \ C /= {}}
  BY <1>1, <1>4 DEF TablesTyped, NonEmptyMap
<1> HIDE DEF keep
<1>8. /\ DOMAIN patternToClients' = keep
      /\ \A p \in keep : patternToClients'[p] = patternToClients[p] \ C
  BY <1>5, <1>6
<1>9. NonEmptyMap(subscriptions', Client, Pattern)
  BY <1>1, <1>3 DEF TablesTyped, NonEmptyMap
<1>10. NonEmptyMap(patternToClients', Pattern, Client)
  BY <1>1, <1>7, <1>8 DEF TablesTyped, NonEmptyMap
<1>11. /\ splitPatternCache' \subseteq Pattern
       /\ DOMAIN patternToClients' \subseteq splitPatternCache'
  BY <1>1, <1>7, <1>8 DEF UnsubscribeAll, TablesTyped
<1>12. MapsAgree'
  <2>1. \A d : EntryOf(subscriptions', d) =
                 IF d \in C THEN {} ELSE EntryOf(subscriptions, d)
    BY <1>3 DEF EntryOf
  <2>2. \A p : EntryOf(patternToClients', p) = EntryOf(patternToClients, p) \ C
    BY <1>7, <1>8 DEF EntryOf
  <2>3. QED
    BY <1>1, <2>1, <2>2 DEF MapsAgree
<1>13. QED
  BY <1>3, <1>9, <1>10, <1>11, <1>12, TablesTypedEquivNext DEF TablesTyped

\* A step that calls no method of TopicManager keeps its tables consistent.
LEMMA TablesUnchanged ==
  ASSUME TMTypeOK, TablesConsistent, UNCHANGED tmVars
  PROVE  TMTypeOK' /\ TablesConsistent'
BY DEF tmVars, TMTypeOK, TablesConsistent, MapsAgree, NoEmptyEntries, EntryOf

\* The empty tables are typed and consistent.
LEMMA TablesInit ==
  ASSUME TMInit
  PROVE  TMTypeOK /\ TablesConsistent
BY DEF TMInit, TMTypeOK, TablesConsistent, MapsAgree, NoEmptyEntries, EntryOf

-----------------------------------------------------------------------------
(* The connections.                                                        *)

IInv ==
  /\ TypeOK
  /\ TablesConsistent
  /\ SubscribersAreConnected
  /\ ClientsAreOpen
  /\ CountIsExact

LEMMA InvInit == Init => IInv
<1> SUFFICES ASSUME Init PROVE IInv
  OBVIOUS
<1>1. TMTypeOK /\ TablesConsistent
  BY TablesInit DEF Init
<1>2. OpenResponses = {}
  BY DEF Init, OpenResponses
<1>3. CountIsExact
  BY <1>2, FS_EmptySet DEF Init, CountIsExact
<1>4. TypeOK
  BY <1>1 DEF Init, TypeOK
<1>5. SubscribersAreConnected /\ ClientsAreOpen
  BY DEF Init, TMInit, SubscribersAreConnected, ClientsAreOpen
<1>6. QED
  BY <1>1, <1>3, <1>4, <1>5 DEF IInv

\* A set of responses is finite, so the counter moves with the open ones.
LEMMA OpenFinite == IsFiniteSet(OpenResponses)
BY ConnectionAssumption, FS_Subset DEF OpenResponses

\* GET /subscribe.
LEMMA ConnectStep ==
  ASSUME IInv, NEW c \in Client, NEW r \in Response, NEW P \in SUBSET Pattern,
         Connect(c, r, P)
  PROVE  IInv'
<1> USE DEF IInv
<1>1. /\ TMTypeOK' /\ TablesConsistent'
      /\ \A d : EntryOf(subscriptions', d) =
                  IF d = c THEN EntryOf(subscriptions, c) \cup P
                  ELSE EntryOf(subscriptions, d)
  BY SubscribeConsistent DEF Connect, TypeOK
<1>2. /\ DOMAIN clients' = DOMAIN clients \cup {c}
      /\ clients'[c] = [response |-> r, subscriptions |-> P]
      /\ \A d \in DOMAIN clients : d /= c => clients'[d] = clients[d]
  BY DEF Connect, SetEntry
<1>3. /\ DOMAIN deliveredMessages' = DOMAIN deliveredMessages \cup {c}
      /\ deliveredMessages'[c] = {}
      /\ \A d \in DOMAIN deliveredMessages :
           d /= c => deliveredMessages'[d] = deliveredMessages[d]
  BY DEF Connect, SetEntry
<1>4. /\ socket[r] = "idle" /\ socket' = [socket EXCEPT ![r] = "up"]
      /\ owner' = [owner EXCEPT ![r] = c]
      /\ activeConnections' = activeConnections + 1
      /\ ended' = ended
  BY DEF Connect
<1>5. TypeOK'
  <2>1. /\ DOMAIN clients' \subseteq Client
        /\ DOMAIN deliveredMessages' = DOMAIN clients'
        /\ activeConnections' \in Nat
    BY <1>2, <1>3, <1>4 DEF TypeOK
  <2>2. \A d \in DOMAIN clients' :
          clients'[d] \in [response : Response, subscriptions : SUBSET Pattern]
    BY <1>2 DEF TypeOK
  <2>3. \A d \in DOMAIN clients' : deliveredMessages'[d] \subseteq Message
    BY <1>2, <1>3 DEF TypeOK
  <2>4. /\ owner' \in [Response -> Client \cup {NoClient}]
        /\ socket' \in [Response -> {"idle", "up", "gone", "closed"}]
        /\ \A s \in Response : owner'[s] = NoClient <=> socket'[s] = "idle"
        /\ ended' \subseteq {s \in Response : socket'[s] /= "idle"}
    BY <1>4, ConnectionAssumption DEF TypeOK
  <2>5. QED
    BY <1>1, <2>1, <2>2, <2>3, <2>4 DEF TypeOK
<1>6. SubscribersAreConnected'
  <2>1. DOMAIN subscriptions' \subseteq DOMAIN clients'
    <3> SUFFICES ASSUME NEW d \in DOMAIN subscriptions'
                 PROVE  d \in DOMAIN clients'
      OBVIOUS
    <3>1. EntryOf(subscriptions', d) /= {}
      BY <1>1 DEF TablesConsistent, NoEmptyEntries, EntryOf
    <3>2. d = c \/ d \in DOMAIN subscriptions
      BY <1>1, <3>1 DEF EntryOf
    <3>3. QED
      BY <1>2, <3>2 DEF SubscribersAreConnected
  <2>2. ASSUME NEW d \in DOMAIN clients'
        PROVE  clients'[d].subscriptions \subseteq EntryOf(subscriptions', d)
    BY <1>1, <1>2 DEF SubscribersAreConnected
  <2>3. QED
    BY <2>1, <2>2 DEF SubscribersAreConnected
<1>7. ClientsAreOpen'
  <2>1. \A d \in DOMAIN clients : clients[d].response /= r
    BY <1>4 DEF ClientsAreOpen, OpenResponses
  <2>2. r \notin ended
    BY <1>4 DEF TypeOK
  <2>3. QED
    BY <1>2, <1>4, <2>1, <2>2 DEF ClientsAreOpen, OpenResponses, TypeOK
<1>8. CountIsExact'
  <2>1. OpenResponses' = OpenResponses \cup {r} /\ r \notin OpenResponses
    BY <1>4 DEF OpenResponses, TypeOK
  <2>2. QED
    BY <1>4, <2>1, OpenFinite, FS_AddElement DEF CountIsExact
<1>9. QED
  BY <1>1, <1>5, <1>6, <1>7, <1>8

\* POST /subscribe.
LEMMA AddSubscriptionStep ==
  ASSUME IInv, NEW c \in Client, NEW p \in Pattern, AddSubscription(c, p)
  PROVE  IInv'
<1> USE DEF IInv
<1>1. /\ TMTypeOK' /\ TablesConsistent'
      /\ \A d : EntryOf(subscriptions', d) =
                  IF d = c THEN EntryOf(subscriptions, c) \cup {p}
                  ELSE EntryOf(subscriptions, d)
  BY SubscribeConsistent DEF AddSubscription, TypeOK
<1>2. /\ c \in DOMAIN clients /\ DOMAIN clients' = DOMAIN clients
      /\ \A d \in DOMAIN clients :
           clients'[d].response = clients[d].response
      /\ \A d \in DOMAIN clients : clients'[d].subscriptions =
           IF d = c THEN clients[c].subscriptions \cup {p}
           ELSE clients[d].subscriptions
      /\ \A d \in DOMAIN clients :
           clients'[d] \in [response : Response, subscriptions : SUBSET Pattern]
  BY DEF AddSubscription, TypeOK
<1>3. UNCHANGED <<deliveredMessages, activeConnections, owner, socket, ended>>
  BY DEF AddSubscription
<1>4. TypeOK'
  BY <1>1, <1>2, <1>3 DEF TypeOK
<1>5. SubscribersAreConnected'
  <2>1. \A d \in DOMAIN subscriptions' : EntryOf(subscriptions', d) /= {}
    BY <1>1 DEF TablesConsistent, NoEmptyEntries, EntryOf
  <2>2. DOMAIN subscriptions' \subseteq DOMAIN clients'
    BY <1>1, <1>2, <2>1 DEF SubscribersAreConnected, EntryOf
  <2>3. QED
    BY <1>1, <1>2, <2>2 DEF SubscribersAreConnected
<1>6. ClientsAreOpen'
  BY <1>2, <1>3 DEF ClientsAreOpen, OpenResponses
<1>7. CountIsExact'
  BY <1>3 DEF CountIsExact, OpenResponses
<1>8. QED
  BY <1>1, <1>4, <1>5, <1>6, <1>7

\* DELETE /subscribe.
LEMMA RemoveSubscriptionStep ==
  ASSUME IInv, NEW c \in Client, NEW p \in Pattern, RemoveSubscription(c, p)
  PROVE  IInv'
<1> USE DEF IInv
<1>1. /\ TMTypeOK' /\ TablesConsistent'
      /\ \A d : EntryOf(subscriptions', d) =
                  IF d = c THEN EntryOf(subscriptions, c) \ {p}
                  ELSE EntryOf(subscriptions, d)
  BY UnsubscribeConsistent DEF RemoveSubscription, TypeOK
<1>2. /\ c \in DOMAIN clients /\ DOMAIN clients' = DOMAIN clients
      /\ \A d \in DOMAIN clients :
           clients'[d].response = clients[d].response
      /\ \A d \in DOMAIN clients : clients'[d].subscriptions =
           IF d = c THEN clients[c].subscriptions \ {p}
           ELSE clients[d].subscriptions
      /\ \A d \in DOMAIN clients :
           clients'[d] \in [response : Response, subscriptions : SUBSET Pattern]
  BY DEF RemoveSubscription, TypeOK
<1>3. UNCHANGED <<deliveredMessages, activeConnections, owner, socket, ended>>
  BY DEF RemoveSubscription
<1>4. TypeOK'
  BY <1>1, <1>2, <1>3 DEF TypeOK
<1>5. SubscribersAreConnected'
  <2>1. \A d \in DOMAIN subscriptions' : EntryOf(subscriptions', d) /= {}
    BY <1>1 DEF TablesConsistent, NoEmptyEntries, EntryOf
  <2>2. DOMAIN subscriptions' \subseteq DOMAIN clients'
    BY <1>1, <1>2, <2>1 DEF SubscribersAreConnected, EntryOf
  <2>3. QED
    BY <1>1, <1>2, <2>2 DEF SubscribersAreConnected
<1>6. ClientsAreOpen'
  BY <1>2, <1>3 DEF ClientsAreOpen, OpenResponses
<1>7. CountIsExact'
  BY <1>3 DEF CountIsExact, OpenResponses
<1>8. QED
  BY <1>1, <1>4, <1>5, <1>6, <1>7

\* removeClient(), called for a set of clients, keeps everything but the
\* counter, which it does not touch.
LEMMA RemoveClientsEffect ==
  ASSUME IInv, NEW C \in SUBSET Client, NEW received,
         DOMAIN received = DOMAIN clients,
         \A c \in DOMAIN clients : received[c] \subseteq Message,
         RemoveClients(C, received)
  PROVE  /\ TMTypeOK' /\ TablesConsistent' /\ SubscribersAreConnected'
         /\ DOMAIN clients' = DOMAIN clients \ C
         /\ \A c \in DOMAIN clients' : clients'[c] = clients[c]
         /\ DOMAIN deliveredMessages' = DOMAIN clients'
         /\ \A c \in DOMAIN clients' : deliveredMessages'[c] \subseteq Message
         /\ ended' \subseteq ended \cup OpenResponses
         /\ \A c \in DOMAIN clients' : clients'[c].response \notin ended'
<1> USE DEF IInv
<1> DEFINE gone == C \cap DOMAIN clients
<1>1. /\ UnsubscribeAll(gone)
      /\ clients' = Restrict(clients, DOMAIN clients \ gone)
      /\ deliveredMessages' = Restrict(received, DOMAIN received \ gone)
      /\ ended' = ended \cup {clients[c].response : c \in gone}
  BY DEF RemoveClients
<1>2. gone \in SUBSET Client /\ DOMAIN clients \ gone = DOMAIN clients \ C
  OBVIOUS
<1>3. /\ TMTypeOK' /\ TablesConsistent'
      /\ DOMAIN subscriptions' = DOMAIN subscriptions \ gone
      /\ \A d \in DOMAIN subscriptions' : subscriptions'[d] = subscriptions[d]
  BY <1>1, <1>2, UnsubscribeAllConsistent DEF TypeOK
<1>4. /\ DOMAIN clients' = DOMAIN clients \ C
      /\ \A c \in DOMAIN clients' : clients'[c] = clients[c]
      /\ DOMAIN deliveredMessages' = DOMAIN clients'
      /\ \A c \in DOMAIN clients' : deliveredMessages'[c] \subseteq Message
  BY <1>1, <1>2 DEF Restrict
<1>5. SubscribersAreConnected'
  BY <1>2, <1>3, <1>4 DEF SubscribersAreConnected, EntryOf
<1>6. ended' \subseteq ended \cup OpenResponses
  BY <1>1 DEF ClientsAreOpen
<1>7. \A c \in DOMAIN clients' : clients'[c].response \notin ended'
  <2> SUFFICES ASSUME NEW c \in DOMAIN clients',
                      clients'[c].response \in ended'
               PROVE  FALSE
    OBVIOUS
  <2>1. /\ c \in DOMAIN clients /\ c \notin gone
        /\ owner[clients[c].response] = c
        /\ clients[c].response \notin ended
        /\ clients'[c] = clients[c]
    BY <1>4 DEF ClientsAreOpen
  <2>2. PICK d \in gone : clients[d].response = clients[c].response
    BY <1>1, <2>1
  <2>3. owner[clients[d].response] = d
    BY DEF ClientsAreOpen
  <2>4. QED
    BY <2>1, <2>2, <2>3
<1>8. QED
  BY <1>3, <1>4, <1>5, <1>6, <1>7

\* Removing clients on a failed write, with or without delivery marks.
LEMMA FailedWriteStep ==
  ASSUME IInv, NEW C \in SUBSET Client, NEW received,
         DOMAIN received = DOMAIN clients,
         \A c \in DOMAIN clients : received[c] \subseteq Message,
         RemoveClients(C, received),
         UNCHANGED <<activeConnections, owner, socket>>
  PROVE  IInv'
<1>1. /\ TMTypeOK' /\ TablesConsistent' /\ SubscribersAreConnected'
      /\ DOMAIN clients' \subseteq DOMAIN clients
      /\ \A c \in DOMAIN clients' : clients'[c] = clients[c]
      /\ DOMAIN deliveredMessages' = DOMAIN clients'
      /\ \A c \in DOMAIN clients' : deliveredMessages'[c] \subseteq Message
      /\ ended' \subseteq ended \cup OpenResponses
      /\ \A c \in DOMAIN clients' : clients'[c].response \notin ended'
  BY RemoveClientsEffect
<1>2. TypeOK'
  BY <1>1 DEF IInv, TypeOK, OpenResponses
<1>3. ClientsAreOpen'
  BY <1>1 DEF IInv, ClientsAreOpen, OpenResponses
<1>4. CountIsExact'
  BY DEF IInv, CountIsExact, OpenResponses
<1>5. QED
  BY <1>1, <1>2, <1>3, <1>4 DEF IInv

LEMMA BroadcastStep ==
  ASSUME IInv, NEW t \in Topic, NEW m \in Message, NEW F \in SUBSET Client,
         Broadcast(t, m, F)
  PROVE  IInv'
<1> DEFINE targets == MatchingSubscribers(t) \cap Writable
           received == [c \in DOMAIN deliveredMessages |->
                          IF c \in targets \ F
                          THEN deliveredMessages[c] \cup {m}
                          ELSE deliveredMessages[c]]
<1>1. /\ RemoveClients(F, received)
      /\ UNCHANGED <<activeConnections, owner, socket>>
  BY DEF Broadcast
<1>2. /\ DOMAIN received = DOMAIN clients
      /\ \A c \in DOMAIN clients : received[c] \subseteq Message
  BY DEF IInv, TypeOK
<1> HIDE DEF received
<1>3. QED
  BY <1>1, <1>2, FailedWriteStep

LEMMA HeartbeatStep ==
  ASSUME IInv, NEW F \in SUBSET Client, Heartbeat(F)
  PROVE  IInv'
<1>1. /\ RemoveClients(F, deliveredMessages)
      /\ UNCHANGED <<activeConnections, owner, socket>>
  BY DEF Heartbeat
<1>2. /\ DOMAIN deliveredMessages = DOMAIN clients
      /\ \A c \in DOMAIN clients : deliveredMessages[c] \subseteq Message
  BY DEF IInv, TypeOK
<1>3. QED
  BY <1>1, <1>2, FailedWriteStep

LEMMA PeerLeavesStep ==
  ASSUME IInv, NEW r \in Response, PeerLeaves(r)
  PROVE  IInv'
<1> USE DEF IInv, PeerLeaves
<1>1. TMTypeOK' /\ TablesConsistent'
  BY TablesUnchanged DEF TypeOK
<1>2. OpenResponses' = OpenResponses
  BY DEF OpenResponses, TypeOK
<1>3. TypeOK'
  BY <1>1 DEF TypeOK
<1>4. SubscribersAreConnected'
  BY DEF SubscribersAreConnected, tmVars, EntryOf
<1>5. ClientsAreOpen'
  BY <1>2 DEF ClientsAreOpen
<1>6. CountIsExact'
  BY <1>2 DEF CountIsExact
<1>7. QED
  BY <1>1, <1>3, <1>4, <1>5, <1>6

\* The 'close' event: the counter drops by one because the response was open,
\* and the response it belongs to leaves the client table with its owner.
LEMMA ResponseClosedStep ==
  ASSUME IInv, NEW r \in Response, ResponseClosed(r)
  PROVE  IInv'
<1> USE DEF IInv
<1>1. /\ socket[r] \in {"up", "gone"}
      /\ socket' = [socket EXCEPT ![r] = "closed"]
      /\ owner' = owner
      /\ activeConnections' =
           IF activeConnections > 0 THEN activeConnections - 1 ELSE 0
  BY DEF ResponseClosed
<1>2. owner[r] \in Client
  BY <1>1 DEF TypeOK
<1>3. /\ TMTypeOK' /\ TablesConsistent' /\ SubscribersAreConnected'
      /\ DOMAIN clients' = DOMAIN clients \ {owner[r]}
      /\ \A c \in DOMAIN clients' : clients'[c] = clients[c]
      /\ DOMAIN deliveredMessages' = DOMAIN clients'
      /\ \A c \in DOMAIN clients' : deliveredMessages'[c] \subseteq Message
      /\ ended' \subseteq ended \cup OpenResponses
      /\ \A c \in DOMAIN clients' : clients'[c].response \notin ended'
  BY <1>2, RemoveClientsEffect DEF ResponseClosed, TypeOK
<1>4. TypeOK'
  BY <1>1, <1>3 DEF TypeOK, OpenResponses
<1>5. ClientsAreOpen'
  BY <1>1, <1>3 DEF ClientsAreOpen, OpenResponses, TypeOK
<1>6. CountIsExact'
  <2>1. r \in OpenResponses /\ OpenResponses' = OpenResponses \ {r}
    BY <1>1 DEF OpenResponses, TypeOK
  <2>2. Cardinality(OpenResponses') = Cardinality(OpenResponses) - 1
    BY <2>1, OpenFinite, FS_RemoveElement
  <2>3. Cardinality(OpenResponses) > 0
    BY <2>1, OpenFinite, FS_EmptySet, FS_CardinalityType
  <2>4. QED
    BY <1>1, <2>2, <2>3 DEF CountIsExact
<1>7. QED
  BY <1>3, <1>4, <1>5, <1>6

LEMMA InvStep == IInv /\ [Next]_vars => IInv'
<1> SUFFICES ASSUME IInv, [Next]_vars PROVE IInv'
  OBVIOUS
<1>1. ASSUME NEW c \in Client, NEW r \in Response, NEW P \in SUBSET Pattern,
             Connect(c, r, P)
      PROVE  IInv'
  BY <1>1, ConnectStep
<1>2. ASSUME NEW c \in Client, NEW p \in Pattern, AddSubscription(c, p)
      PROVE  IInv'
  BY <1>2, AddSubscriptionStep
<1>3. ASSUME NEW c \in Client, NEW p \in Pattern, RemoveSubscription(c, p)
      PROVE  IInv'
  BY <1>3, RemoveSubscriptionStep
<1>4. ASSUME NEW t \in Topic, NEW m \in Message, NEW F \in SUBSET Client,
             Broadcast(t, m, F)
      PROVE  IInv'
  BY <1>4, BroadcastStep
<1>5. ASSUME NEW F \in (SUBSET Client) \ {{}}, Heartbeat(F)
      PROVE  IInv'
  BY <1>5, HeartbeatStep
<1>6. ASSUME NEW r \in Response, PeerLeaves(r) PROVE IInv'
  BY <1>6, PeerLeavesStep
<1>7. ASSUME NEW r \in Response, ResponseClosed(r) PROVE IInv'
  BY <1>7, ResponseClosedStep
<1>8. CASE UNCHANGED vars
  <2>1. TMTypeOK' /\ TablesConsistent'
    BY <1>8, TablesUnchanged DEF vars, IInv, TypeOK
  <2>2. TypeOK'
    BY <1>8, <2>1 DEF vars, sseVars, IInv, TypeOK
  <2>3. SubscribersAreConnected' /\ ClientsAreOpen' /\ CountIsExact'
    BY <1>8 DEF vars, sseVars, tmVars, IInv, SubscribersAreConnected, EntryOf,
                ClientsAreOpen, CountIsExact, OpenResponses
  <2>4. QED
    BY <2>1, <2>2, <2>3 DEF IInv
<1>9. QED
  BY <1>1, <1>2, <1>3, <1>4, <1>5, <1>6, <1>7, <1>8 DEF Next

\* The inductive invariant holds in every reachable state of the connections.
THEOREM InvAlways == Spec => []IInv
BY InvInit, InvStep, PTL DEF Spec

\* The types of the client table, the delivery record, the sockets and the
\* subscription maps, for any number of clients, patterns and responses.
THEOREM TypeCorrect == Spec => []TypeOK
<1>1. IInv => TypeOK
  BY DEF IInv
<1>2. QED
  BY <1>1, InvAlways, PTL

\* The subscription maps of TopicManager agree with each other after every
\* sequence of subscribes, unsubscribes, reconnects, failed writes and closes.
THEOREM TablesAlwaysConsistent == Spec => []TablesConsistent
<1>1. IInv => TablesConsistent
  BY DEF IInv
<1>2. QED
  BY <1>1, InvAlways, PTL

\* No subscription survives its client, and none that was asked for is lost.
THEOREM SubscribersAlwaysConnected == Spec => []SubscribersAreConnected
<1>1. IInv => SubscribersAreConnected
  BY DEF IInv
<1>2. QED
  BY <1>1, InvAlways, PTL

\* The client table never holds an ended or a closed response.
THEOREM ClientsAlwaysOpen == Spec => []ClientsAreOpen
<1>1. IInv => ClientsAreOpen
  BY DEF IInv
<1>2. QED
  BY <1>1, InvAlways, PTL

\* HealthMonitor's activeConnections is the number of connections whose
\* 'close' event is still to come.
THEOREM CountAlwaysExact == Spec => []CountIsExact
<1>1. IInv => CountIsExact
  BY DEF IInv
<1>2. QED
  BY <1>1, InvAlways, PTL

-----------------------------------------------------------------------------
(* The steps of Delivery.tla as steps of SSEConnections.tla.               *)

LEMMA DeliveryStartsConnections == DeliveryInit => Init
BY DEF DeliveryInit

\* A history write that throws removes one client, as a heartbeat would.
LEMMA ServeHistoryStep ==
  ASSUME IInv, WorkerOne
  PROVE  [Next]_vars
<1>1. CASE MarkCompleted
  BY <1>1 DEF MarkCompleted
<1>2. CASE ServeHistory
  BY <1>2 DEF ServeHistory
<1>3. ASSUME NEW n \in 0 .. Len(processed), ServeHistoryFails(n)
      PROVE  Next
  <2>1. PICK c \in MayThrow : Heartbeat({c})
    BY <1>3 DEF ServeHistoryFails
  <2>2. c \in Client
    <3>1. c \in DOMAIN clients
      BY <2>1 DEF MayThrow, Writable
    <3>2. DOMAIN clients \subseteq Client
      BY DEF IInv, TypeOK
    <3>3. QED
      BY <3>1, <3>2
  <2>3. QED
    <3>1. {c} \in SUBSET Client /\ {c} \notin {{}}
      BY <2>2
    <3>2. {c} \in (SUBSET Client) \ {{}}
      BY <3>1
    <3>3. QED
      BY <2>1, <3>2 DEF Next
<1>4. QED
  BY <1>1, <1>2, <1>3 DEF WorkerOne

LEMMA DeliveryStep ==
  ASSUME IInv, [DeliveryNext]_allVars
  PROVE  [Next]_vars
<1>1. ASSUME NEW c \in Client, NEW r \in Response, NEW P \in SUBSET Pattern,
             HandleSubscribe(c, r, P)
      PROVE  Next
  BY <1>1 DEF HandleSubscribe, Next
<1>2. ASSUME NEW c \in Client, NEW p \in Pattern, HandleAddSubscription(c, p)
      PROVE  Next
  BY <1>2 DEF HandleAddSubscription, Next
<1>3. ASSUME NEW c \in Client, NEW p \in Pattern, HandleRemoveSubscription(c, p)
      PROVE  Next
  BY <1>3 DEF HandleRemoveSubscription, Next
<1>4. ASSUME NEW m \in Message, NEW F \in SUBSET Client, Process(m, F)
      PROVE  Next
  <2>1. TopicOf[m] \in Topic
    BY DeliveryAssumption
  <2>2. Broadcast(TopicOf[m], m, F)
    BY <1>4 DEF Process
  <2>3. QED
    BY <2>1, <2>2 DEF Next
<1>5. CASE WorkerOne
  BY <1>5, ServeHistoryStep
<1>6. ASSUME NEW n \in ReloadSizes, HotReload(n)
      PROVE  UNCHANGED vars
  BY <1>6 DEF HotReload
<1>7. CASE ConnectionStep
  BY <1>7 DEF ConnectionStep, Next
<1>8. CASE UNCHANGED allVars
  BY <1>8 DEF allVars
<1>9. QED
  BY <1>1, <1>2, <1>3, <1>4, <1>5, <1>6, <1>7, <1>8 DEF DeliveryNext

LEMMA DeliveryInv == DeliverySpec => []IInv
<1>1. DeliveryInit => IInv
  BY DeliveryStartsConnections, InvInit
<1>2. IInv /\ [DeliveryNext]_allVars => IInv'
  BY DeliveryStep, InvStep
<1>3. QED
  BY <1>1, <1>2, PTL DEF DeliverySpec

\* The safety invariants of the connections hold of the composed system: the
\* tables agree, every subscriber is a client, every client is open.
THEOREM DeliveryKeepsConnectionsSafe ==
  DeliverySpec => [](TablesConsistent /\ SubscribersAreConnected
                     /\ ClientsAreOpen /\ CountIsExact)
<1>1. IInv => TablesConsistent /\ SubscribersAreConnected
              /\ ClientsAreOpen /\ CountIsExact
  BY DEF IInv
<1>2. QED
  BY <1>1, DeliveryInv, PTL

-----------------------------------------------------------------------------
(* The live stream.                                                        *)

\* Nothing is written to a response before its connection is up.
IdleIsEmpty == \A r \in Response : socket[r] = "idle" => written[r] = {}

StreamTyped ==
  /\ written = [r \in Response |-> written[r]]
  /\ processed \in Seq(Message)
  /\ since \in [Client \X Pattern -> Nat]

StreamInv ==
  /\ StreamTyped
  /\ IdleIsEmpty
  /\ RecordMatchesStream
  /\ NoLiveMessageMissed

LEMMA StreamInit == DeliveryInit => StreamInv
<1> SUFFICES ASSUME DeliveryInit PROVE StreamInv
  OBVIOUS
<1>1. DOMAIN clients = {}
  BY DEF DeliveryInit, Init
<1>2. StreamTyped /\ IdleIsEmpty
  BY DEF DeliveryInit, StreamTyped, IdleIsEmpty
<1>3. QED
  BY <1>1, <1>2 DEF StreamInv, RecordMatchesStream, NoLiveMessageMissed

\* No live event is written.
NothingLive ==
  \A r \in Response, m \in Message :
    <<"live", m>> \in written'[r] <=> <<"live", m>> \in written[r]

\* Clients may go, and patterns, but nothing changes for those that stay.
NobodyNew ==
  /\ DOMAIN clients' \subseteq DOMAIN clients
  /\ \A c \in DOMAIN clients' :
       /\ clients'[c].response = clients[c].response
       /\ clients'[c].subscriptions \subseteq clients[c].subscriptions
       /\ deliveredMessages'[c] = deliveredMessages[c]

\* A step that brings no client and writes nothing live.
LEMMA QuietStep ==
  ASSUME IInv, StreamInv, NobodyNew, NothingLive, StreamTyped', IdleIsEmpty',
         processed' = processed, since' = since
  PROVE  StreamInv'
<1>1. \A c \in DOMAIN clients' :
        /\ c \in DOMAIN clients /\ c \in Client
        /\ clients[c].response \in Response
  BY DEF NobodyNew, IInv, TypeOK
<1>2. \A c \in DOMAIN clients' :
        /\ clients'[c].response = clients[c].response
        /\ clients'[c].subscriptions \subseteq clients[c].subscriptions
        /\ deliveredMessages'[c] = deliveredMessages[c]
        /\ {m \in Message : <<"live", m>> \in written'[clients'[c].response]}
             = LiveOn(clients[c].response)
  BY <1>1 DEF NobodyNew, NothingLive, LiveOn
<1>3. RecordMatchesStream'
  BY <1>1, <1>2 DEF StreamInv, RecordMatchesStream, LiveOn
<1>4. NoLiveMessageMissed'
  <2> SUFFICES ASSUME NEW c \in DOMAIN clients', NEW p \in Pattern,
                      p \in clients'[c].subscriptions,
                      NEW i \in since[<<c, p>>] + 1 .. Len(processed),
                      TopicOf[processed[i]] \in TopicsOf(p)
               PROVE  processed[i] \in
                        {m \in Message : <<"live", m>> \in written'[clients'[c].response]}
    BY DEF NoLiveMessageMissed, LiveOn
  <2>1. p \in clients[c].subscriptions /\ c \in DOMAIN clients
    BY <1>1, <1>2
  <2>2. processed[i] \in LiveOn(clients[c].response)
    BY <2>1 DEF StreamInv, NoLiveMessageMissed
  <2>3. QED
    BY <1>2, <2>2
<1>5. QED
  BY <1>3, <1>4 DEF StreamInv

\* Where nothing at all is written, the stream needs no more than its types.
LEMMA NothingWritten ==
  ASSUME StreamInv, UNCHANGED <<written, processed, since>>,
         \A r \in Response : socket'[r] = "idle" => socket[r] = "idle"
  PROVE  NothingLive /\ StreamTyped' /\ IdleIsEmpty'
BY DEF StreamInv, NothingLive, StreamTyped, IdleIsEmpty

\* removeClient() for some clients, on a failed write or a 'close' event.
LEMMA RemovalLeavesOthers ==
  ASSUME IInv, NEW C \in SUBSET Client, RemoveClients(C, deliveredMessages)
  PROVE  NobodyNew
<1>1. /\ clients' = Restrict(clients, DOMAIN clients \ (C \cap DOMAIN clients))
      /\ deliveredMessages' =
           Restrict(deliveredMessages,
                    DOMAIN deliveredMessages \ (C \cap DOMAIN clients))
      /\ DOMAIN deliveredMessages = DOMAIN clients
  BY DEF RemoveClients, IInv, TypeOK
<1>2. QED
  BY <1>1 DEF Restrict, NobodyNew

LEMMA ConnectionStreamStep ==
  ASSUME IInv, StreamInv, ConnectionStep
  PROVE  StreamInv'
<1>1. UNCHANGED <<written, processed, since>>
  BY DEF ConnectionStep, deliveryVars
<1>2. ASSUME NEW F \in SUBSET Client, Heartbeat(F)
      PROVE  StreamInv'
  <2>1. NobodyNew /\ socket' = socket
    BY <1>2, RemovalLeavesOthers DEF Heartbeat
  <2>2. QED
    BY <1>1, <2>1, NothingWritten, QuietStep
<1>3. ASSUME NEW r \in Response, PeerLeaves(r)
      PROVE  StreamInv'
  <2>1. /\ NobodyNew
        /\ \A q \in Response : socket'[q] = "idle" => socket[q] = "idle"
    BY <1>3 DEF PeerLeaves, NobodyNew, IInv, TypeOK
  <2>2. QED
    BY <1>1, <2>1, NothingWritten, QuietStep
<1>4. ASSUME NEW r \in Response, ResponseClosed(r)
      PROVE  StreamInv'
  <2>1. \A q \in Response : socket'[q] = "idle" => socket[q] = "idle"
    BY <1>4 DEF ResponseClosed, IInv, TypeOK
  <2>2. owner[r] \in Client
    BY <1>4 DEF ResponseClosed, IInv, TypeOK
  <2>3. NobodyNew
    BY <1>4, <2>2, RemovalLeavesOthers DEF ResponseClosed
  <2>4. QED
    BY <1>1, <2>1, <2>3, NothingWritten, QuietStep
<1>5. QED
  BY <1>2, <1>3, <1>4 DEF ConnectionStep

\* The replay of Worker 1 writes history events, and only to clients.
LEMMA HistoryWrite ==
  ASSUME IInv, StreamInv, NEW c \in DOMAIN clients, NEW ms, WriteHistory(c, ms),
         UNCHANGED <<socket, processed, since>>
  PROVE  NothingLive /\ StreamTyped' /\ IdleIsEmpty'
<1> DEFINE r == clients[c].response
           events == {<<"history", m>> : m \in ToSet(ms)}
<1>1. r \in Response /\ socket[r] /= "idle"
  BY DEF IInv, TypeOK, ClientsAreOpen, OpenResponses
<1>2. /\ written' = [q \in Response |-> written'[q]]
      /\ written'[r] = written[r] \cup events
      /\ \A q \in Response : q /= r => written'[q] = written[q]
  <2>1. written' = [written EXCEPT ![r] = @ \cup events]
    BY DEF WriteHistory
  <2>2. QED
    BY <1>1, <2>1 DEF StreamInv, StreamTyped
<1>3. \A m \in Message : <<"live", m>> \notin events
  OBVIOUS
<1>4. NothingLive
  BY <1>2, <1>3 DEF NothingLive
<1>5. QED
  BY <1>1, <1>2, <1>4 DEF StreamInv, StreamTyped, IdleIsEmpty

LEMMA WorkerOneStreamStep ==
  ASSUME IInv, StreamInv, WorkerOne
  PROVE  StreamInv'
<1>1. UNCHANGED <<processed, since>>
  BY DEF WorkerOne, MarkCompleted, ServeHistory, ServeHistoryFails, PopTask
<1>2. CASE MarkCompleted
  <2>1. NobodyNew /\ UNCHANGED <<written, socket>>
    BY <1>2 DEF MarkCompleted, vars, sseVars, NobodyNew
  <2>2. QED
    BY <1>1, <2>1, NothingWritten, QuietStep
<1>3. CASE ServeHistory
  <2>1. NobodyNew /\ socket' = socket
    BY <1>3 DEF ServeHistory, vars, sseVars, NobodyNew
  <2>2. NothingLive /\ StreamTyped' /\ IdleIsEmpty'
    <3>1. CASE UNCHANGED written
      BY <1>1, <2>1, <3>1, NothingWritten
    <3>2. ASSUME NEW c \in Writable, NEW ms, WriteHistory(c, ms)
          PROVE  NothingLive /\ StreamTyped' /\ IdleIsEmpty'
      BY <1>1, <2>1, <3>2, HistoryWrite DEF Writable
    <3>3. QED
      BY <1>3, <3>1, <3>2 DEF ServeHistory
  <2>3. QED
    BY <1>1, <2>1, <2>2, QuietStep
<1>4. ASSUME NEW n \in 0 .. Len(processed), ServeHistoryFails(n)
      PROVE  StreamInv'
  <2> DEFINE c == Head(ioTaskQueue).client
             ms == SubSeq(Replay(workerHistory,
                                 TopicsOf(Head(ioTaskQueue).topic)), 1, n)
  <2>1. c \in MayThrow /\ WriteHistory(c, ms) /\ Heartbeat({c})
    BY <1>4 DEF ServeHistoryFails
  <2> HIDE DEF c, ms
  <2>2. c \in DOMAIN clients /\ {c} \in SUBSET Client
    <3>1. c \in DOMAIN clients
      BY <2>1 DEF MayThrow, Writable
    <3>2. QED
      BY <3>1 DEF IInv, TypeOK
  <2>3. NobodyNew /\ socket' = socket
    BY <2>1, <2>2, RemovalLeavesOthers DEF Heartbeat
  <2>4. NothingLive /\ StreamTyped' /\ IdleIsEmpty'
    BY <1>1, <2>1, <2>2, <2>3, HistoryWrite
  <2>5. QED
    BY <1>1, <2>3, <2>4, QuietStep
<1>5. QED
  BY <1>2, <1>3, <1>4 DEF WorkerOne

\* GET /subscribe: the response is new, and so is the delivery record.
LEMMA SubscribeStreamStep ==
  ASSUME IInv, StreamInv, NEW c \in Client, NEW r \in Response,
         NEW P \in SUBSET Pattern, HandleSubscribe(c, r, P)
  PROVE  StreamInv'
<1>1. /\ socket[r] = "idle" /\ socket' = [socket EXCEPT ![r] = "up"]
      /\ clients' = SetEntry(clients, c, [response |-> r, subscriptions |-> P])
      /\ deliveredMessages' = SetEntry(deliveredMessages, c, {})
      /\ UNCHANGED <<written, processed>>
      /\ since' = [cp \in Client \X Pattern |->
                     IF cp[1] = c /\ cp[2] \in P THEN Len(processed) ELSE since[cp]]
  BY DEF HandleSubscribe, Connect, Accepted
<1>2. StreamTyped'
  BY <1>1, LenProperties DEF StreamInv, StreamTyped
<1>3. IdleIsEmpty'
  BY <1>1 DEF StreamInv, IdleIsEmpty, IInv, TypeOK
<1>4. /\ DOMAIN clients' = DOMAIN clients \cup {c}
      /\ clients'[c] = [response |-> r, subscriptions |-> P]
      /\ deliveredMessages'[c] = {}
      /\ \A d \in DOMAIN clients : d /= c =>
           /\ clients'[d] = clients[d]
           /\ deliveredMessages'[d] = deliveredMessages[d]
  BY <1>1 DEF SetEntry, IInv, TypeOK
<1>5. LiveOn(r) = {}
  BY <1>1 DEF StreamInv, IdleIsEmpty, LiveOn
<1>6. RecordMatchesStream'
  BY <1>1, <1>4, <1>5 DEF StreamInv, RecordMatchesStream, LiveOn
<1>7. NoLiveMessageMissed'
  <2> SUFFICES ASSUME NEW d \in DOMAIN clients', NEW p \in Pattern,
                      p \in clients'[d].subscriptions,
                      NEW i \in since'[<<d, p>>] + 1 .. Len(processed),
                      TopicOf[processed[i]] \in TopicsOf(p)
               PROVE  processed[i] \in LiveOn(clients'[d].response)
    BY <1>1 DEF NoLiveMessageMissed, LiveOn
  <2>0. d \in Client /\ Len(processed) \in Nat
    BY <1>4, LenProperties DEF IInv, TypeOK, StreamInv, StreamTyped
  <2>1. CASE d = c
    <3>1. since'[<<d, p>>] = Len(processed)
      BY <1>1, <1>4, <2>0, <2>1
    <3>2. QED
      BY <2>0, <3>1
  <2>2. CASE d /= c
    <3>1. since'[<<d, p>>] = since[<<d, p>>]
      BY <1>1, <2>0, <2>2
    <3>2. d \in DOMAIN clients /\ clients'[d] = clients[d]
      BY <1>4, <2>2
    <3>3. QED
      BY <3>1, <3>2 DEF StreamInv, NoLiveMessageMissed
  <2>3. QED
    BY <2>1, <2>2
<1>8. QED
  BY <1>2, <1>3, <1>6, <1>7 DEF StreamInv

\* POST /subscribe: the stream is owed the pattern's messages from now on.
LEMMA AddStreamStep ==
  ASSUME IInv, StreamInv, NEW c \in Client, NEW p \in Pattern,
         HandleAddSubscription(c, p)
  PROVE  StreamInv'
<1>1. /\ c \in DOMAIN clients
      /\ clients' = [clients EXCEPT ![c].subscriptions = @ \cup {p}]
      /\ UNCHANGED <<written, processed, socket, deliveredMessages>>
      /\ since' = [cp \in Client \X Pattern |->
                     IF cp[1] = c /\ cp[2] \in {p} THEN Len(processed) ELSE since[cp]]
  BY DEF HandleAddSubscription, AddSubscription, Accepted
<1>2. StreamTyped' /\ IdleIsEmpty'
  BY <1>1, LenProperties DEF StreamInv, StreamTyped, IdleIsEmpty
<1>3. /\ DOMAIN clients' = DOMAIN clients
      /\ \A d \in DOMAIN clients :
           /\ clients'[d].response = clients[d].response
           /\ clients'[d].subscriptions \subseteq
                clients[d].subscriptions \cup (IF d = c THEN {p} ELSE {})
  BY <1>1 DEF IInv, TypeOK
<1>4. RecordMatchesStream'
  BY <1>1, <1>3 DEF StreamInv, RecordMatchesStream, LiveOn
<1>5. NoLiveMessageMissed'
  <2> SUFFICES ASSUME NEW d \in DOMAIN clients, NEW q \in Pattern,
                      q \in clients'[d].subscriptions,
                      NEW i \in since'[<<d, q>>] + 1 .. Len(processed),
                      TopicOf[processed[i]] \in TopicsOf(q)
               PROVE  processed[i] \in LiveOn(clients[d].response)
    BY <1>1, <1>3 DEF NoLiveMessageMissed, LiveOn
  <2>0. d \in Client /\ Len(processed) \in Nat
    BY LenProperties DEF IInv, TypeOK, StreamInv, StreamTyped
  <2>1. CASE d = c /\ q = p
    <3>1. since'[<<d, q>>] = Len(processed)
      BY <1>1, <2>0, <2>1
    <3>2. QED
      BY <2>0, <3>1
  <2>2. CASE ~ (d = c /\ q = p)
    <3>1. since'[<<d, q>>] = since[<<d, q>>]
      BY <1>1, <2>0, <2>2
    <3>2. q \in clients[d].subscriptions
      BY <1>3, <2>2
    <3>3. QED
      BY <3>1, <3>2 DEF StreamInv, NoLiveMessageMissed
  <2>3. QED
    BY <2>1, <2>2
<1>6. QED
  BY <1>2, <1>4, <1>5 DEF StreamInv

LEMMA RemoveStreamStep ==
  ASSUME IInv, StreamInv, NEW c \in Client, NEW p \in Pattern,
         HandleRemoveSubscription(c, p)
  PROVE  StreamInv'
<1>1. NobodyNew
  BY DEF HandleRemoveSubscription, RemoveSubscription, NobodyNew, IInv, TypeOK
<1>2. UNCHANGED <<written, processed, since, socket>>
  BY DEF HandleRemoveSubscription, RemoveSubscription
<1>3. QED
  BY <1>1, <1>2, NothingWritten, QuietStep

\* A client that holds a matching pattern is among those a broadcast picks.
LEMMA HoldersAreMatched ==
  ASSUME IInv, NEW c \in DOMAIN clients, NEW p \in clients[c].subscriptions,
         p \in Pattern, NEW t \in TopicsOf(p)
  PROVE  c \in MatchingSubscribers(t) \cap Writable
<1>1. c \in Client /\ p \in EntryOf(subscriptions, c)
  BY DEF IInv, TypeOK, SubscribersAreConnected
<1>2. c \in EntryOf(patternToClients, p)
  BY <1>1 DEF IInv, TablesConsistent, MapsAgree
<1>3. c \in MatchingSubscribers(t)
  BY <1>2 DEF EntryOf, MatchingSubscribers, TopicsOf
<1>4. QED
  BY <1>3 DEF IInv, ClientsAreOpen, Writable

\* Worker 0: whoever holds a matching pattern and stays is written the
\* message, on the response that is its own, and has it in its record.
LEMMA ProcessStreamStep ==
  ASSUME IInv, StreamInv, NEW m \in Message, NEW F \in SUBSET Client, Process(m, F)
  PROVE  StreamInv'
<1> DEFINE targets == MatchingSubscribers(TopicOf[m]) \cap Writable
           received == [c \in DOMAIN deliveredMessages |->
                          IF c \in targets \ F
                          THEN deliveredMessages[c] \cup {m}
                          ELSE deliveredMessages[c]]
<1>1. /\ processed' = Append(processed, m) /\ since' = since
      /\ socket' = socket
      /\ RemoveClients(F, received)
      /\ WriteLive(m, F)
  BY DEF Process, Broadcast
<1>2. /\ DOMAIN clients' \subseteq DOMAIN clients \ F
      /\ \A c \in DOMAIN clients' :
           /\ clients'[c] = clients[c]
           /\ deliveredMessages'[c] = received[c]
  BY <1>1 DEF RemoveClients, Restrict, IInv, TypeOK
<1>3. \A r \in Response :
        written'[r] = IF \E c \in targets \ F : clients[c].response = r
                      THEN written[r] \cup {<<"live", m>>} ELSE written[r]
  BY <1>1 DEF WriteLive
<1>4. StreamTyped'
  BY <1>1 DEF WriteLive, StreamInv, StreamTyped
<1>5. IdleIsEmpty'
  <2> SUFFICES ASSUME NEW r \in Response, socket[r] = "idle"
               PROVE  written'[r] = {}
    BY <1>1 DEF IdleIsEmpty
  <2>1. \A c \in targets : clients[c].response /= r
    BY DEF Writable, IInv, ClientsAreOpen, OpenResponses
  <2>2. QED
    BY <1>3, <2>1 DEF StreamInv, IdleIsEmpty
<1>6. \A c \in DOMAIN clients' :
        {k \in Message : <<"live", k>> \in written'[clients'[c].response]}
          = IF c \in targets THEN LiveOn(clients[c].response) \cup {m}
            ELSE LiveOn(clients[c].response)
  <2> SUFFICES ASSUME NEW c \in DOMAIN clients'
               PROVE  {k \in Message : <<"live", k>> \in written'[clients[c].response]}
                        = IF c \in targets THEN LiveOn(clients[c].response) \cup {m}
                          ELSE LiveOn(clients[c].response)
    BY <1>2
  <2>1. c \in DOMAIN clients /\ c \notin F /\ clients[c].response \in Response
    BY <1>2 DEF IInv, TypeOK
  <2>2. \A d \in targets : clients[d].response = clients[c].response => d = c
    BY <2>1 DEF Writable, IInv, ClientsAreOpen
  <2>3. (\E d \in targets \ F : clients[d].response = clients[c].response)
          <=> c \in targets
    BY <2>1, <2>2
  <2>4. written'[clients[c].response]
          = IF c \in targets THEN written[clients[c].response] \cup {<<"live", m>>}
            ELSE written[clients[c].response]
    BY <1>3, <2>1, <2>3
  <2>5. QED
    BY <2>4 DEF LiveOn
<1>7. RecordMatchesStream'
  <2> SUFFICES ASSUME NEW c \in DOMAIN clients'
               PROVE  deliveredMessages'[c] =
                        {k \in Message : <<"live", k>> \in written'[clients'[c].response]}
    BY DEF RecordMatchesStream, LiveOn
  <2>1. c \in DOMAIN clients /\ c \notin F /\ c \in DOMAIN deliveredMessages
    BY <1>2 DEF IInv, TypeOK
  <2>2. deliveredMessages'[c] = IF c \in targets THEN deliveredMessages[c] \cup {m}
                                ELSE deliveredMessages[c]
    BY <1>2, <2>1
  <2>3. deliveredMessages[c] = LiveOn(clients[c].response)
    BY <2>1 DEF StreamInv, RecordMatchesStream
  <2>4. QED
    BY <1>6, <2>2, <2>3
<1>8. NoLiveMessageMissed'
  <2> SUFFICES ASSUME NEW c \in DOMAIN clients', NEW p \in Pattern,
                      p \in clients'[c].subscriptions,
                      NEW i \in since[<<c, p>>] + 1 .. Len(processed'),
                      TopicOf[processed'[i]] \in TopicsOf(p)
               PROVE  processed'[i] \in
                        {k \in Message : <<"live", k>> \in written'[clients'[c].response]}
    BY <1>1 DEF NoLiveMessageMissed, LiveOn
  <2>1. c \in DOMAIN clients /\ c \in Client /\ p \in clients[c].subscriptions
    BY <1>2 DEF IInv, TypeOK
  <2>2. since[<<c, p>>] \in Nat
    BY <2>1 DEF StreamInv, StreamTyped
  <2>3. /\ Len(processed') = Len(processed) + 1 /\ Len(processed) \in Nat
        /\ processed'[Len(processed) + 1] = m
        /\ \A j \in 1 .. Len(processed) : processed'[j] = processed[j]
    BY <1>1 DEF StreamInv, StreamTyped
  <2>4. CASE i = Len(processed) + 1
    <3>1. c \in targets
      BY <2>1, <2>3, <2>4, HoldersAreMatched
    <3>2. QED
      BY <1>6, <2>3, <2>4, <3>1
  <2>5. CASE i /= Len(processed) + 1
    <3>1. i \in since[<<c, p>>] + 1 .. Len(processed) /\ processed'[i] = processed[i]
      BY <2>2, <2>3, <2>5
    <3>2. processed[i] \in LiveOn(clients[c].response)
      BY <2>1, <3>1 DEF StreamInv, NoLiveMessageMissed
    <3>3. QED
      BY <1>6, <3>1, <3>2
  <2>6. QED
    BY <2>4, <2>5
<1>9. QED
  BY <1>4, <1>5, <1>7, <1>8 DEF StreamInv

LEMMA StreamStep ==
  ASSUME IInv, StreamInv, [DeliveryNext]_allVars
  PROVE  StreamInv'
<1>1. CASE UNCHANGED allVars \/ \E n \in ReloadSizes : HotReload(n)
  <2>1. UNCHANGED vars /\ UNCHANGED <<written, processed, since>>
    BY <1>1 DEF allVars, deliveryVars, HotReload
  <2>2. NobodyNew /\ socket' = socket
    BY <2>1 DEF vars, sseVars, NobodyNew
  <2>3. QED
    BY <2>1, <2>2, NothingWritten, QuietStep
<1>2. QED
  BY <1>1, SubscribeStreamStep, AddStreamStep, RemoveStreamStep,
     ProcessStreamStep, WorkerOneStreamStep, ConnectionStreamStep DEF DeliveryNext

LEMMA StreamAlways == DeliverySpec => []StreamInv
<1>1. IInv /\ StreamInv /\ [DeliveryNext]_allVars => StreamInv'
  BY StreamStep
<1>2. QED
  BY <1>1, StreamInit, DeliveryInv, PTL DEF DeliverySpec

\* No live message is missed by a client that holds a matching pattern,
\* through any number of reconnects, failed writes and reloads (broadcast).
THEOREM LiveMessagesNeverMissed == DeliverySpec => []NoLiveMessageMissed
<1>1. StreamInv => NoLiveMessageMissed
  BY DEF StreamInv
<1>2. QED
  BY <1>1, StreamAlways, PTL

\* The delivery record is that of the present connection, under any number of
\* connections that use one client id (addClient, broadcast).
THEOREM RecordAlwaysMatches == DeliverySpec => []RecordMatchesStream
<1>1. StreamInv => RecordMatchesStream
  BY DEF StreamInv
<1>2. QED
  BY <1>1, StreamAlways, PTL

-----------------------------------------------------------------------------
(* The replay of the history.                                              *)

\* The tasks of Worker 1.
Tasks == {HistoryTask(c, p) : c \in Client, p \in Pattern}
           \cup {CompletedTask(m) : m \in Message}

\* The tasks that are queued, or were lost.
Outstanding == ToSet(ioTaskQueue) \cup dropped

\* A task that brings m to client c.
Brings(task, c, m) == /\ task.type = "serve-history"
                      /\ task.client = c
                      /\ TopicOf[m] \in TopicsOf(task.topic)

Brought(c, m) == \/ m \in SentOn(clients[c].response)
                 \/ \E task \in Outstanding : Brings(task, c, m)

\* NoHistoryLost from the side of the clients.
Served ==
  ~ reloaded =>
    \A c \in DOMAIN clients, m \in Message :
      <<clients[c].response, m>> \in owed /\ Held(m) => Brought(c, m)

\* The buffer holds messages of the topics it lists, and no others.
BufferSound ==
  /\ history \in [size : Nat \ {0}, keys : Seq(Topic), of : [Topic -> Seq(Message)]]
  /\ \A t \in Topic : \A m \in ToSet(history.of[t]) :
       t \in ToSet(history.keys) /\ TopicOf[m] = t /\ m \in ToSet(processed)

\* What a stream is owed was processed before, and its connection is up.
OwedIsPast ==
  \A rm \in owed : /\ rm \in Response \X Message
                   /\ socket[rm[1]] /= "idle"
                   /\ rm[2] \in ToSet(processed)

\* The tasks, the buffers, and what they owe to the streams.
HistoryInv ==
  /\ ioTaskQueue \in Seq(Tasks)
  /\ BufferSound
  /\ ~ reloaded => workerHistory = history
  /\ OwedIsPast
  /\ Served

\* A client's response is its own, and up.
LEMMA ClientFact ==
  ASSUME IInv, NEW c \in DOMAIN clients
  PROVE  /\ c \in Client /\ clients[c].response \in Response
         /\ owner[clients[c].response] = c
         /\ socket[clients[c].response] /= "idle"
         /\ clients[c].response \notin ended
         /\ \A d \in DOMAIN clients :
              clients[d].response = clients[c].response => d = c
BY DEF IInv, TypeOK, ClientsAreOpen, OpenResponses

\* What a stream was promised, on its way or lost, is what Served says of it.
LEMMA ServedIsEnough ==
  ASSUME IInv, HistoryInv
  PROVE  NoHistoryLost
<1> SUFFICES ASSUME ~ reloaded, NEW rm \in owed, Current(rm[1]), Held(rm[2])
             PROVE  \/ rm[2] \in SentOn(rm[1]) \/ Pending(rm[1], rm[2])
                    \/ HistoryDropped(rm[1], rm[2])
  BY DEF NoHistoryLost
<1> DEFINE r == rm[1]
           m == rm[2]
<1>1. PICK c \in DOMAIN clients : clients[c].response = r
  BY DEF Current
<1>2. m \in Message /\ <<clients[c].response, m>> \in owed
  BY <1>1 DEF HistoryInv, OwedIsPast
<1> HIDE DEF r, m
<1>3. Brought(c, m)
  BY <1>2 DEF HistoryInv, Served, m
<1>4. owner[r] = c /\ c \in DOMAIN clients
  BY <1>1, ClientFact
<1>5. ASSUME NEW task \in Outstanding, Brings(task, c, m)
      PROVE  Pending(r, m) \/ HistoryDropped(r, m)
  <2>1. CASE task \in dropped
    BY <1>4, <1>5, <2>1 DEF HistoryDropped, Brings
  <2>2. CASE task \in ToSet(ioTaskQueue)
    <3>1. PICK i \in 1 .. Len(ioTaskQueue) : task = ioTaskQueue[i]
      BY <2>2 DEF ToSet, HistoryInv
    <3> QED
      BY <1>1, <1>5, <3>1 DEF Pending, Brings
  <2> QED
    BY <2>1, <2>2 DEF Outstanding
<1> QED
  BY <1>1, <1>3, <1>5 DEF Brought, r, m

\* What the buffer replays for a pattern is what it holds of its topics.
LEMMA ReplayHolds ==
  ASSUME BufferSound, NEW T \in SUBSET Topic, NEW m
  PROVE  m \in ToSet(Replay(history, T)) <=>
           m \in Message /\ TopicOf[m] \in T /\ Held(m)
<1> DEFINE keys == history.keys
           part(i) == IF keys[i] \in T THEN history.of[keys[i]] ELSE << >>
           ss == [i \in 1 .. Len(keys) |-> part(i)]
<1>1. /\ keys \in Seq(Topic) /\ Len(keys) \in Nat
      /\ history.of \in [Topic -> Seq(Message)]
      /\ \A i \in 1 .. Len(keys) : keys[i] \in Topic
  BY DEF BufferSound
<1>2. << >> \in Seq(Message) /\ ToSet(<< >>) = {}
  BY ToSetSingle
<1>3. \A i \in 1 .. Len(keys) : part(i) \in Seq(Message)
  BY <1>1, <1>2
<1>4. ss \in Seq(Seq(Message)) /\ Len(ss) = Len(keys)
      /\ \A i \in 1 .. Len(keys) : ss[i] = part(i)
  BY <1>1, <1>3
<1>5. Replay(history, T) = FlattenSeq(ss)
  BY DEF Replay
<1> HIDE DEF ss
<1>6. m \in ToSet(Replay(history, T)) <=>
        \E i \in 1 .. Len(ss) : m \in ToSet(ss[i])
  BY <1>4, <1>5, FlattenProperties
<1>7. \A s \in Seq(Message) : ToSet(s) = {s[i] : i \in 1 .. Len(s)}
                              /\ ToSet(s) \subseteq Message
  BY DEF ToSet
<1>8. ASSUME m \in ToSet(Replay(history, T))
      PROVE  m \in Message /\ TopicOf[m] \in T /\ Held(m)
  <2>1. PICK i \in 1 .. Len(keys) : m \in ToSet(part(i))
    BY <1>4, <1>6, <1>8
  <2>2. keys[i] \in T /\ keys[i] \in Topic /\ m \in ToSet(history.of[keys[i]])
    BY <1>1, <1>2, <2>1
  <2>3. TopicOf[m] = keys[i]
    BY <2>2 DEF BufferSound
  <2>4. history.of[keys[i]] \in Seq(Message)
    BY <1>1, <2>2
  <2> QED
    BY <1>7, <2>2, <2>3, <2>4 DEF Held
<1>9. ASSUME m \in Message, TopicOf[m] \in T, Held(m)
      PROVE  m \in ToSet(Replay(history, T))
  <2> DEFINE t == TopicOf[m]
  <2>1. t \in Topic /\ history.of[t] \in Seq(Message)
    BY <1>1, <1>9
  <2>2. m \in ToSet(history.of[t])
    BY <1>7, <1>9, <2>1 DEF Held
  <2>3. t \in ToSet(keys)
    BY <2>1, <2>2 DEF BufferSound
  <2>4. PICK i \in 1 .. Len(keys) : keys[i] = t
    <3>1. \A s \in Seq(Topic) : ToSet(s) = {s[i] : i \in 1 .. Len(s)}
      BY DEF ToSet
    <3>2. ToSet(keys) = {keys[i] : i \in 1 .. Len(keys)}
      BY <1>1, <3>1
    <3> QED
      BY <2>3, <3>2
  <2>5. m \in ToSet(part(i))
    BY <1>9, <2>2, <2>4
  <2> QED
    BY <1>4, <1>6, <2>5
<1> QED
  BY <1>8, <1>9

\* Each task is queued or lost.
LEMMA QueuedOrLost ==
  ASSUME ioTaskQueue \in Seq(Tasks), NEW tasks \in Seq(Tasks), QueueTasks(tasks)
  PROVE  /\ ioTaskQueue' \in Seq(Tasks)
         /\ Outstanding \cup ToSet(tasks) \subseteq Outstanding'
         /\ ToSet(ioTaskQueue') \subseteq ToSet(ioTaskQueue) \cup ToSet(tasks)
<1> DEFINE room == IOCapacity - Len(ioTaskQueue)
           taken == IF Len(tasks) > room THEN room ELSE Len(tasks)
           part == SubSeq(tasks, 1, taken)
<1>1. ioTaskQueue' = ioTaskQueue \o part
      /\ dropped' = dropped \cup (ToSet(tasks) \ ToSet(ioTaskQueue'))
  BY DEF QueueTasks
<1>2. taken \in Int /\ taken <= Len(tasks)
  BY DeliveryAssumption
<1> HIDE DEF taken
<1>3. part \in Seq(Tasks)
  BY <1>2, SubSeqProperties
<1>4. ToSet(part) \subseteq ToSet(tasks)
  BY <1>2 DEF ToSet
<1> HIDE DEF part
<1>5. ToSet(ioTaskQueue') = ToSet(ioTaskQueue) \cup ToSet(part)
  BY <1>1, <1>3, ToSetConcat
<1>6. ioTaskQueue \o part \in Seq(Tasks)
  BY <1>3
<1> QED
  BY <1>1, <1>4, <1>5, <1>6 DEF Outstanding

\* A message that is new to the buffer is added to its topic; those that may
\* have been evicted for it are not held again.
LEMMA RememberKeeps ==
  ASSUME BufferSound, processed \in Seq(Message), NEW m \in Message,
         processed' = Append(processed, m),
         history' = Remember(history, TopicOf[m], m)
  PROVE  /\ BufferSound'
         /\ \A k \in Message : k /= m /\ Held(k)' => Held(k)
<1> DEFINE t == TopicOf[m]
           s == Append(history.of[t], m)
           last == LastOf(s, history.size)
           keys == IF history.of[t] = << >> THEN Append(history.keys, t)
                   ELSE history.keys
<1>1. /\ t \in Topic /\ history.of \in [Topic -> Seq(Message)]
      /\ history.keys \in Seq(Topic) /\ history.size \in Nat \ {0}
      /\ history.of[t] \in Seq(Message)
  BY DeliveryAssumption DEF BufferSound
<1>2. s \in Seq(Message) /\ ToSet(s) = ToSet(history.of[t]) \cup {m}
  BY <1>1, AppendToSet
<1>3. last \in Seq(Message) /\ ToSet(last) \subseteq ToSet(s)
  <2> HIDE DEF s
  <2> DEFINE n == history.size
             a == IF Len(s) > n THEN Len(s) - n + 1 ELSE 1
  <2>1. last = SubSeq(s, a, Len(s))
    BY DEF LastOf
  <2>2. a \in 1 .. Len(s) + 1 /\ Len(s) \in Nat
    BY <1>1, <1>2
  <2> HIDE DEF a, last
  <2>3. last \in Seq(Message) /\ Len(last) = Len(s) + 1 - a
        /\ \A i \in 1 .. Len(last) : last[i] = s[a + i - 1]
    BY <1>2, <2>1, <2>2
  <2>4. \A q \in Seq(Message) : ToSet(q) = {q[i] : i \in 1 .. Len(q)}
    BY DEF ToSet
  <2>5. ASSUME NEW i \in 1 .. Len(last) PROVE a + i - 1 \in 1 .. Len(s)
    BY <2>2, <2>3
  <2>6. \A i \in 1 .. Len(last) : last[i] \in ToSet(s)
    BY <1>2, <2>3, <2>4, <2>5
  <2> QED
    BY <2>3, <2>4, <2>6
<1>4. keys \in Seq(Topic) /\ ToSet(history.keys) \subseteq ToSet(keys)
      /\ t \in ToSet(keys)
  <2>1. CASE history.of[t] = << >>
    BY <1>1, <2>1, AppendToSet
  <2>2. CASE history.of[t] /= << >>
    <3>1. PICK k : k \in ToSet(history.of[t])
      <4>1. Head(history.of[t]) \in ToSet(history.of[t])
        BY <1>1, <2>2, HeadAndTail
      <4> QED
        BY <4>1
    <3> QED
      BY <1>1, <2>2, <3>1 DEF BufferSound
  <2> QED
    BY <2>1, <2>2
<1> HIDE DEF last, keys, s
<1>5. /\ history'.keys = keys /\ history'.size = history.size
      /\ history'.of = [history.of EXCEPT ![t] = last]
      /\ history' = [size |-> history.size, keys |-> keys, of |-> history'.of]
  BY <1>1 DEF Remember, BufferSound, last, keys, s
<1>6. /\ history'.of \in [Topic -> Seq(Message)]
      /\ history'.of[t] = last
      /\ \A u \in Topic : u /= t => history'.of[u] = history.of[u]
  BY <1>1, <1>3, <1>5
<1>7. ToSet(processed') = ToSet(processed) \cup {m}
  BY AppendToSet
<1>8. BufferSound'
  <2>1. history' \in [size : Nat \ {0}, keys : Seq(Topic), of : [Topic -> Seq(Message)]]
    BY <1>1, <1>4, <1>5, <1>6
  <2>2. ASSUME NEW u \in Topic, NEW k \in ToSet(history'.of[u])
        PROVE  u \in ToSet(keys) /\ TopicOf[k] = u /\ k \in ToSet(processed')
    <3>1. CASE u = t
      <4>1. k = m \/ k \in ToSet(history.of[t])
        BY <1>2, <1>3, <1>6, <2>2, <3>1
      <4> QED
        BY <1>1, <1>4, <1>7, <3>1, <4>1 DEF BufferSound
    <3>2. CASE u /= t
      BY <1>4, <1>6, <1>7, <2>2, <3>2 DEF BufferSound
    <3> QED
      BY <3>1, <3>2
  <2> QED
    BY <1>5, <2>1, <2>2 DEF BufferSound
<1>9. ASSUME NEW k \in Message, k /= m, Held(k)'
      PROVE  Held(k)
  <2>1. TopicOf[k] \in Topic
    BY DeliveryAssumption
  <2>2. \A q \in Seq(Message) : \A x :
          (\E i \in 1 .. Len(q) : q[i] = x) <=> x \in ToSet(q)
    BY DEF ToSet
  <2>3. k \in ToSet(history'.of[TopicOf[k]])
    BY <1>6, <1>9, <2>1, <2>2 DEF Held
  <2>4. k \in ToSet(history.of[TopicOf[k]])
    BY <1>2, <1>3, <1>6, <1>9, <2>1, <2>3
  <2> QED
    BY <1>1, <2>1, <2>2, <2>4 DEF Held
<1> QED
  BY <1>8, <1>9

\* A step that brings no client a new response and owes nothing new: what was
\* owed is still brought, if what is outstanding stays so or is written.
LEMMA ServedStays ==
  ASSUME IInv, HistoryInv,
         ~ reloaded' => ~ reloaded, owed' = owed,
         DOMAIN clients' \subseteq DOMAIN clients,
         \A c \in DOMAIN clients' : clients'[c].response = clients[c].response,
         \A rm \in owed : Held(rm[2])' => Held(rm[2]),
         \A c \in DOMAIN clients', m \in Message :
            ~ reloaded /\ Held(m) /\ Brought(c, m) => Brought(c, m)'
  PROVE  Served'
<1> SUFFICES ASSUME ~ reloaded', NEW c \in DOMAIN clients', NEW m \in Message,
                    <<clients'[c].response, m>> \in owed, Held(m)'
             PROVE  Brought(c, m)'
  BY DEF Served
<1>1. c \in DOMAIN clients /\ <<clients[c].response, m>> \in owed
  OBVIOUS
<1>2. Held(m)
  <2>1. <<clients[c].response, m>>[2] = m
    OBVIOUS
  <2> QED
    BY <1>1, <2>1
<1>3. Brought(c, m)
  BY <1>1, <1>2 DEF HistoryInv, Served
<1> QED
  BY <1>2, <1>3

\* At the start nothing is owed.
LEMMA HistoryStart == DeliveryInit => HistoryInv
<1> SUFFICES ASSUME DeliveryInit PROVE HistoryInv
  OBVIOUS
<1>1. /\ history = EmptyHistory(BufferSize) /\ workerHistory = history
      /\ ioTaskQueue = << >> /\ owed = {} /\ dropped = {}
  BY DEF DeliveryInit
<1>2. BufferSound
  BY <1>1, DeliveryAssumption, ToSetSingle DEF BufferSound, EmptyHistory
<1>3. Served /\ OwedIsPast
  BY <1>1 DEF Served, OwedIsPast
<1> QED
  BY <1>1, <1>2, <1>3 DEF HistoryInv

\* GET and POST /subscribe: for what the buffer holds of a pattern a task is
\* queued, or lost.
LEMMA TaskForBuffered ==
  ASSUME BufferSound, NEW c \in Client, NEW P \in SUBSET Pattern, NEW p \in P,
         NEW tasks, \A q \in WithHistory(P) : HistoryTask(c, q) \in ToSet(tasks),
         ToSet(tasks) \subseteq Outstanding', NEW m \in Buffered(p)
  PROVE  \E task \in Outstanding' : Brings(task, c, m)
<1>1. TopicOf[m] \in TopicsOf(p)
  BY ReplayHolds DEF Buffered, TopicsOf
<1>2. p \in WithHistory(P)
  BY DEF WithHistory
<1>3. HistoryTask(c, p) \in Outstanding'
  BY <1>2
<1> QED
  BY <1>1, <1>3 DEF Brings, HistoryTask

\* What the buffer holds for a pattern has been processed.
LEMMA BufferedIsPast ==
  ASSUME BufferSound, NEW p, NEW m \in Buffered(p)
  PROVE  m \in Message /\ m \in ToSet(processed)
<1>1. m \in Message /\ Held(m)
  BY ReplayHolds DEF Buffered, TopicsOf
<1>2. TopicOf[m] \in Topic
  BY <1>1, DeliveryAssumption
<1>3. \A q \in Seq(Message) : \A x :
        (\E i \in 1 .. Len(q) : q[i] = x) => x \in ToSet(q)
  BY DEF ToSet
<1>4. m \in ToSet(history.of[TopicOf[m]])
  BY <1>1, <1>2, <1>3 DEF BufferSound, Held
<1> QED
  BY <1>1, <1>2, <1>4 DEF BufferSound

\* An order of a finite set lists each of its members.
LEMMA OrderIsOnto ==
  ASSUME NEW S, IsFiniteSet(S), NEW order \in SetToSeqs(S)
  PROVE  /\ order \in Seq(S)
         /\ \A x \in S : \E i \in 1 .. Len(order) : order[i] = x
<1> DEFINE n == Cardinality(S)
<1>1. n \in Nat /\ Cardinality(1 .. n) = n /\ IsFiniteSet(1 .. n)
  <2>1. n \in Nat
    BY FS_CardinalityType
  <2>2. IsFiniteSet(1 .. n) /\ Cardinality(1 .. n) = IF 1 > n THEN 0 ELSE n - 1 + 1
    BY <2>1, FS_Interval
  <2> QED
    BY <2>1, <2>2
<1>2. /\ order \in [1 .. n -> S]
      /\ \A i, j \in 1 .. n : i /= j => order[i] /= order[j]
  BY DEF SetToSeqs
<1> HIDE DEF n
<1>3. order \in Injection(1 .. n, S)
  BY <1>2 DEF Injection, IsInjective
<1>4. order \in Surjection(1 .. n, S)
  BY <1>1, <1>3, FS_Injection DEF n
<1>5. order \in Seq(S) /\ Len(order) = n
  BY <1>1, <1>2
<1> QED
  BY <1>4, <1>5 DEF Surjection

\* GET /subscribe: what the buffer holds for the patterns of the query is
\* owed to the new response, and a task is queued for it, or lost.
LEMMA SubscribeHistoryStep ==
  ASSUME IInv, HistoryInv, processed \in Seq(Message), NEW c \in Client,
         NEW r \in Response, NEW P \in SUBSET Pattern, HandleSubscribe(c, r, P)
  PROVE  HistoryInv'
<1>1. /\ socket[r] = "idle" /\ socket' = [socket EXCEPT ![r] = "up"]
      /\ clients' = SetEntry(clients, c, [response |-> r, subscriptions |-> P])
      /\ IsFiniteSet(P)
      /\ owed' = owed \cup {<<r, m>> : m \in UNION {Buffered(p) : p \in P}}
      /\ UNCHANGED <<history, workerHistory, reloaded, processed, written>>
  BY DEF HandleSubscribe, Connect, Accepted
<1>2. PICK order \in SetToSeqs(WithHistory(P)) : QueueHistory(c, order)
  BY DEF HandleSubscribe
<1> DEFINE S == WithHistory(P)
           tasks == [i \in 1 .. Len(order) |-> HistoryTask(c, order[i])]
<1>3. IsFiniteSet(S) /\ S \in SUBSET Pattern
  BY <1>1, FS_Subset DEF WithHistory
<1>4. /\ order \in Seq(S)
      /\ \A p \in S : \E i \in 1 .. Len(order) : order[i] = p
  BY <1>2, <1>3, OrderIsOnto
<1>5. tasks \in Seq(Tasks)
  <2>1. \A i \in 1 .. Len(order) : order[i] \in Pattern
    BY <1>3, <1>4
  <2>2. \A i \in 1 .. Len(order) : HistoryTask(c, order[i]) \in Tasks
    BY <2>1 DEF Tasks
  <2>3. Len(order) \in Nat
    BY <1>4
  <2> QED
    BY <2>2, <2>3
<1>6. \A p \in S : HistoryTask(c, p) \in ToSet(tasks)
  BY <1>4 DEF ToSet
<1>7. /\ ioTaskQueue' \in Seq(Tasks)
      /\ Outstanding \cup ToSet(tasks) \subseteq Outstanding'
  BY <1>2, <1>5, QueuedOrLost DEF QueueHistory, HistoryInv
<1> HIDE DEF tasks
<1>8. /\ DOMAIN clients' = DOMAIN clients \cup {c}
      /\ clients'[c].response = r
      /\ \A d \in DOMAIN clients : d /= c => clients'[d] = clients[d]
  BY <1>1 DEF SetEntry
<1>9. BufferSound' /\ (~ reloaded' => workerHistory' = history')
  BY <1>1 DEF HistoryInv, BufferSound
<1>10. OwedIsPast'
  <2> SUFFICES ASSUME NEW rm \in owed'
               PROVE  /\ rm \in Response \X Message
                      /\ socket'[rm[1]] /= "idle"
                      /\ rm[2] \in ToSet(processed)
    BY <1>1 DEF OwedIsPast
  <2>1. CASE rm \in owed
    BY <1>1, <2>1 DEF HistoryInv, OwedIsPast, IInv, TypeOK
  <2>2. ASSUME NEW p \in P, NEW m \in Buffered(p), rm = <<r, m>>
        PROVE  /\ rm \in Response \X Message
               /\ socket'[rm[1]] /= "idle"
               /\ rm[2] \in ToSet(processed)
    <3>1. m \in Message /\ m \in ToSet(processed)
      BY <2>2, BufferedIsPast DEF HistoryInv
    <3>2. socket'[r] = "up"
      BY <1>1 DEF IInv, TypeOK
    <3> QED
      BY <2>2, <3>1, <3>2
  <2> QED
    BY <1>1, <2>1, <2>2
<1>11. Served'
  <2> SUFFICES ASSUME ~ reloaded, NEW d \in DOMAIN clients', NEW m \in Message,
                      <<clients'[d].response, m>> \in owed', Held(m)
               PROVE  Brought(d, m)'
    BY <1>1 DEF Served, Held
  <2>1. CASE d = c
    <3>1. <<r, m>> \notin owed
      <4>1. <<r, m>>[1] = r
        OBVIOUS
      <4> QED
        BY <1>1, <4>1 DEF HistoryInv, OwedIsPast
    <3>2. PICK B \in {Buffered(p) : p \in P} : m \in B
      BY <1>1, <1>8, <2>1, <3>1
    <3>3. PICK p \in P : m \in Buffered(p)
      BY <3>2
    <3>4. \E task \in Outstanding' : Brings(task, c, m)
      BY <1>6, <1>7, <3>3, TaskForBuffered DEF HistoryInv
    <3> QED
      BY <2>1, <3>4 DEF Brought, Brings
  <2>2. CASE d /= c
    <3>1. d \in DOMAIN clients /\ clients'[d].response = clients[d].response
      BY <1>8, <2>2
    <3>2. clients[d].response /= r
      BY <1>1, <3>1, ClientFact
    <3>3. <<clients[d].response, m>> \in owed
      BY <1>1, <3>1, <3>2
    <3>4. Brought(d, m)
      BY <3>1, <3>3 DEF HistoryInv, Served
    <3> QED
      BY <1>1, <1>7, <3>1, <3>4 DEF Brought, Brings, SentOn
  <2> QED
    BY <2>1, <2>2
<1> QED
  BY <1>7, <1>9, <1>10, <1>11 DEF HistoryInv

\* POST /subscribe: the same for the response the client has.
LEMMA AddHistoryStep ==
  ASSUME IInv, HistoryInv, processed \in Seq(Message), NEW c \in Client,
         NEW p \in Pattern, HandleAddSubscription(c, p)
  PROVE  HistoryInv'
<1> DEFINE r == clients[c].response
           order == IF p \in WithHistory({p}) THEN <<p>> ELSE << >>
           tasks == [i \in 1 .. Len(order) |-> HistoryTask(c, order[i])]
<1>1. /\ c \in DOMAIN clients
      /\ clients' = [clients EXCEPT ![c].subscriptions = @ \cup {p}]
      /\ owed' = owed \cup {<<r, m>> : m \in UNION {Buffered(q) : q \in {p}}}
      /\ QueueTasks(tasks)
      /\ UNCHANGED <<socket, history, workerHistory, reloaded, processed, written>>
  BY DEF HandleAddSubscription, AddSubscription, Accepted, QueueHistory
<1>2. /\ DOMAIN clients' = DOMAIN clients
      /\ \A d \in DOMAIN clients : clients'[d].response = clients[d].response
  BY <1>1 DEF IInv, TypeOK
<1>3. /\ tasks \in Seq(Tasks)
      /\ p \in WithHistory({p}) => HistoryTask(c, p) \in ToSet(tasks)
  <2>1. CASE p \in WithHistory({p})
    <3>1. order = <<p>> /\ Len(order) = 1 /\ order[1] = p
      BY <2>1
    <3>2. HistoryTask(c, p) \in Tasks
      BY DEF Tasks
    <3>3. tasks = [i \in 1 .. 1 |-> HistoryTask(c, p)]
      BY <3>1
    <3> HIDE DEF tasks, order
    <3> QED
      BY <3>2, <3>3 DEF ToSet
  <2>2. CASE p \notin WithHistory({p})
    <3>1. order = << >> /\ Len(order) = 0
      BY <2>2
    <3>2. /\ Len(order) \in Nat
          /\ \A i \in 1 .. Len(order) : HistoryTask(c, order[i]) \in Tasks
      BY <3>1
    <3> HIDE DEF order
    <3> QED
      BY <2>2, <3>2
  <2> QED
    BY <2>1, <2>2
<1> HIDE DEF tasks, order
<1>4. /\ ioTaskQueue' \in Seq(Tasks)
      /\ Outstanding \cup ToSet(tasks) \subseteq Outstanding'
  BY <1>1, <1>3, QueuedOrLost DEF HistoryInv
<1>5. BufferSound' /\ (~ reloaded' => workerHistory' = history')
  BY <1>1 DEF HistoryInv, BufferSound
<1>6. r \in Response /\ socket[r] /= "idle"
  BY <1>1, ClientFact
<1>7. OwedIsPast'
  <2> SUFFICES ASSUME NEW rm \in owed'
               PROVE  /\ rm \in Response \X Message
                      /\ socket[rm[1]] /= "idle"
                      /\ rm[2] \in ToSet(processed)
    BY <1>1 DEF OwedIsPast
  <2>1. CASE rm \in owed
    BY <2>1 DEF HistoryInv, OwedIsPast
  <2>2. ASSUME NEW m \in Buffered(p), rm = <<r, m>>
        PROVE  /\ rm \in Response \X Message
               /\ socket[rm[1]] /= "idle"
               /\ rm[2] \in ToSet(processed)
    <3>1. m \in Message /\ m \in ToSet(processed)
      BY <2>2, BufferedIsPast DEF HistoryInv
    <3> HIDE DEF r
    <3> QED
      BY <1>6, <2>2, <3>1
  <2> QED
    BY <1>1, <2>1, <2>2
<1>8. Served'
  <2> SUFFICES ASSUME ~ reloaded, NEW d \in DOMAIN clients, NEW m \in Message,
                      <<clients[d].response, m>> \in owed', Held(m)
               PROVE  Brought(d, m)'
    BY <1>1, <1>2 DEF Served, Held
  <2>1. CASE <<clients[d].response, m>> \in owed
    <3>1. Brought(d, m)
      BY <2>1 DEF HistoryInv, Served
    <3> QED
      BY <1>1, <1>2, <1>4, <3>1 DEF Brought, Brings, SentOn
  <2>2. ASSUME NEW k \in Buffered(p), <<clients[d].response, m>> = <<r, k>>
        PROVE  Brought(d, m)'
    <3>1. clients[d].response = r /\ m \in Buffered(p)
      BY <2>2
    <3>2. d = c
      BY <1>1, <3>1, ClientFact
    <3>3. \A q \in WithHistory({p}) : HistoryTask(c, q) \in ToSet(tasks)
      BY <1>3 DEF WithHistory
    <3>4. {p} \in SUBSET Pattern /\ p \in {p}
      OBVIOUS
    <3>5. \E task \in Outstanding' : Brings(task, c, m)
      BY <1>4, <3>1, <3>3, <3>4, TaskForBuffered DEF HistoryInv
    <3> QED
      BY <3>2, <3>5 DEF Brought, Brings
  <2> QED
    BY <1>1, <2>1, <2>2
<1> QED
  BY <1>4, <1>5, <1>7, <1>8 DEF HistoryInv

\* Worker 1 pops a task: the others stay.
LEMMA PoppedOthersStay ==
  ASSUME ioTaskQueue \in Seq(Tasks), PopTask
  PROVE  /\ ioTaskQueue' \in Seq(Tasks) /\ Head(ioTaskQueue) \in Tasks
         /\ \A task \in Outstanding : task \in Outstanding' \/ task = Head(ioTaskQueue)
<1>1. ioTaskQueue /= << >> /\ ioTaskQueue' = Tail(ioTaskQueue) /\ dropped' = dropped
  BY DEF PopTask
<1> QED
  BY <1>1, HeadAndTail DEF Outstanding

\* Worker 1 leaves the buffers and what is owed; it does its part when what
\* the task it pops would have brought is written, or its client is gone.
LEMMA WorkerOneKeeps ==
  ASSUME IInv, HistoryInv, PopTask, socket' = socket,
         DOMAIN clients' \subseteq DOMAIN clients,
         \A c \in DOMAIN clients' : clients'[c].response = clients[c].response,
         \A r \in Response : written[r] \subseteq written'[r],
         \A c \in DOMAIN clients', m \in Message :
           ~ reloaded /\ Held(m) /\ Brings(Head(ioTaskQueue), c, m) =>
             m \in {event[2] : event \in written'[clients[c].response]}
  PROVE  HistoryInv'
<1>1. UNCHANGED <<history, workerHistory, reloaded, processed, owed>>
  BY DEF PopTask
<1>2. /\ ioTaskQueue' \in Seq(Tasks)
      /\ \A task \in Outstanding : task \in Outstanding' \/ task = Head(ioTaskQueue)
  BY PoppedOthersStay DEF HistoryInv
<1>3. BufferSound' /\ OwedIsPast' /\ (~ reloaded' => workerHistory' = history')
  BY <1>1 DEF HistoryInv, BufferSound, OwedIsPast
<1>4. ASSUME NEW c \in DOMAIN clients', NEW m \in Message,
             ~ reloaded, Held(m), Brought(c, m)
      PROVE  Brought(c, m)'
  <2>1. /\ c \in DOMAIN clients /\ clients'[c].response = clients[c].response
        /\ clients[c].response \in Response
    BY ClientFact
  <2>2. CASE m \in SentOn(clients[c].response)
    BY <2>1, <2>2 DEF Brought, SentOn
  <2>3. ASSUME NEW task \in Outstanding, Brings(task, c, m)
        PROVE  Brought(c, m)'
    <3>1. CASE task \in Outstanding'
      BY <2>3, <3>1 DEF Brought, Brings
    <3>2. CASE task = Head(ioTaskQueue)
      BY <1>4, <2>1, <2>3, <3>2 DEF Brought, SentOn
    <3> QED
      BY <1>2, <3>1, <3>2
  <2> QED
    BY <1>4, <2>2, <2>3 DEF Brought
<1>5. Served'
  BY <1>1, <1>4, ServedStays DEF Held
<1> QED
  BY <1>2, <1>3, <1>5 DEF HistoryInv

\* What is written of a replay adds to what is on the stream.
LEMMA HistoryWritten ==
  ASSUME IInv, StreamTyped, NEW c \in DOMAIN clients, NEW ms, WriteHistory(c, ms)
  PROVE  /\ \A r \in Response : written[r] \subseteq written'[r]
         /\ \A m \in ToSet(ms) :
              m \in {event[2] : event \in written'[clients[c].response]}
<1> DEFINE r == clients[c].response
           events == {<<"history", m>> : m \in ToSet(ms)}
<1>1. r \in Response
  BY ClientFact
<1>2. written' = [written EXCEPT ![r] = @ \cup events]
  BY DEF WriteHistory
<1>3. /\ written'[r] = written[r] \cup events
      /\ \A q \in Response : q /= r => written'[q] = written[q]
  BY <1>1, <1>2 DEF StreamTyped
<1>4. ASSUME NEW m \in ToSet(ms)
      PROVE  m \in {event[2] : event \in written'[r]}
  <2>1. <<"history", m>> \in written'[r] /\ <<"history", m>>[2] = m
    BY <1>3
  <2> QED
    BY <2>1
<1> QED
  BY <1>3, <1>4

\* Worker 1: all that the buffer holds for the pattern is written, or the client
\* is gone.
LEMMA WorkerOneHistoryStep ==
  ASSUME IInv, StreamTyped, HistoryInv, WorkerOne
  PROVE  HistoryInv'
<1> DEFINE task == Head(ioTaskQueue)
           events == Replay(workerHistory, TopicsOf(task.topic))
<1>1. CASE MarkCompleted
  BY <1>1, WorkerOneKeeps DEF MarkCompleted, Brings, vars, sseVars
<1>2. ASSUME NEW m, ~ reloaded, m \in Message, Held(m),
             TopicOf[m] \in TopicsOf(task.topic)
      PROVE  m \in ToSet(events)
  BY <1>2, ReplayHolds DEF HistoryInv, TopicsOf
<1>3. CASE ServeHistory
  <2>1. PopTask /\ UNCHANGED vars
        /\ IF task.client \in Writable THEN WriteHistory(task.client, events)
           ELSE UNCHANGED written
    BY <1>3 DEF ServeHistory
  <2>2. UNCHANGED <<socket, clients>>
    BY <2>1 DEF vars, sseVars
  <2> HIDE DEF events
  <2>3. CASE task.client \in Writable
    <3>1. task.client \in DOMAIN clients
      BY <2>3 DEF Writable
    <3>2. /\ \A r \in Response : written[r] \subseteq written'[r]
          /\ \A m \in ToSet(events) :
               m \in {event[2] : event \in written'[clients[task.client].response]}
      BY <2>1, <2>3, <3>1, HistoryWritten
    <3>3. \A c \in DOMAIN clients', m \in Message :
            ~ reloaded /\ Held(m) /\ Brings(task, c, m) =>
              m \in {event[2] : event \in written'[clients[c].response]}
      BY <1>2, <3>2 DEF Brings
    <3> QED
      BY <2>1, <2>2, <3>2, <3>3, WorkerOneKeeps
  <2>4. CASE task.client \notin Writable
    <3>1. task.client \notin DOMAIN clients
      BY <2>4, ClientFact DEF Writable
    <3>2. \A r \in Response : written[r] \subseteq written'[r]
      BY <2>1, <2>4
    <3>3. \A c \in DOMAIN clients', m \in Message : ~ Brings(task, c, m)
      BY <2>2, <3>1 DEF Brings
    <3> QED
      BY <2>1, <2>2, <3>2, <3>3, WorkerOneKeeps
  <2> QED
    BY <2>3, <2>4
<1>4. ASSUME NEW n \in 0 .. Len(processed), ServeHistoryFails(n)
      PROVE  HistoryInv'
  <2>1. /\ PopTask /\ task.client \in MayThrow
        /\ WriteHistory(task.client, SubSeq(events, 1, n))
        /\ Heartbeat({task.client})
    BY <1>4 DEF ServeHistoryFails
  <2>2. task.client \in DOMAIN clients /\ {task.client} \in SUBSET Client
    <3>1. task.client \in DOMAIN clients
      BY <2>1 DEF MayThrow, Writable
    <3> QED
      BY <3>1, ClientFact
  <2>3. /\ DOMAIN clients' \subseteq DOMAIN clients \ {task.client}
        /\ \A c \in DOMAIN clients' : clients'[c] = clients[c]
        /\ socket' = socket
    BY <2>1, <2>2 DEF Heartbeat, RemoveClients, Restrict
  <2>4. \A r \in Response : written[r] \subseteq written'[r]
    BY <2>1, <2>2, HistoryWritten
  <2>5. \A c \in DOMAIN clients', m \in Message : ~ Brings(task, c, m)
    BY <2>3 DEF Brings
  <2> QED
    BY <2>1, <2>3, <2>4, <2>5, WorkerOneKeeps
<1> QED
  BY <1>1, <1>3, <1>4 DEF WorkerOne

\* A step of the connections alone, or a DELETE /subscribe: clients may go,
\* but what is owed, outstanding and written stays.
LEMMA AloneKeeps ==
  ASSUME IInv, HistoryInv, DOMAIN clients' \subseteq DOMAIN clients,
         \A c \in DOMAIN clients' : clients'[c].response = clients[c].response,
         \A r \in Response : socket'[r] = "idle" => socket[r] = "idle",
         UNCHANGED <<history, workerHistory, reloaded, ioTaskQueue, processed,
                     written, owed, dropped>>
  PROVE  HistoryInv'
<1>1. BufferSound' /\ ioTaskQueue' \in Seq(Tasks)
      /\ (~ reloaded' => workerHistory' = history')
  BY DEF HistoryInv, BufferSound
<1>2. OwedIsPast'
  <2> SUFFICES ASSUME NEW rm \in owed
               PROVE  /\ rm \in Response \X Message
                      /\ socket'[rm[1]] /= "idle"
                      /\ rm[2] \in ToSet(processed)
    BY DEF OwedIsPast
  <2>1. /\ rm \in Response \X Message /\ socket[rm[1]] /= "idle"
        /\ rm[2] \in ToSet(processed)
    BY DEF HistoryInv, OwedIsPast
  <2>2. rm[1] \in Response
    BY <2>1
  <2> QED
    BY <2>1, <2>2
<1>3. \A c \in DOMAIN clients' : \A m \in Message : Brought(c, m) => Brought(c, m)'
  BY DEF Brought, Brings, SentOn, Outstanding
<1>4. Served'
  BY <1>3, ServedStays DEF Held
<1> QED
  BY <1>1, <1>2, <1>4 DEF HistoryInv

\* Heartbeats, peers that leave and 'close' events.
LEMMA ConnectionHistoryStep ==
  ASSUME IInv, HistoryInv, ConnectionStep
  PROVE  HistoryInv'
<1>1. UNCHANGED <<history, workerHistory, reloaded, ioTaskQueue, processed,
                  written, owed, dropped>>
  BY DEF ConnectionStep, deliveryVars
<1>2. ASSUME NobodyNew, \A r \in Response : socket'[r] = "idle" => socket[r] = "idle"
      PROVE  HistoryInv'
  BY <1>1, <1>2, AloneKeeps DEF NobodyNew
<1>3. ASSUME NEW F \in SUBSET Client, Heartbeat(F)
      PROVE  HistoryInv'
  BY <1>2, <1>3, RemovalLeavesOthers DEF Heartbeat
<1>4. ASSUME NEW r \in Response, PeerLeaves(r)
      PROVE  HistoryInv'
  BY <1>2, <1>4 DEF PeerLeaves, NobodyNew, IInv, TypeOK
<1>5. ASSUME NEW r \in Response, ResponseClosed(r)
      PROVE  HistoryInv'
  <2>1. \A q \in Response : socket'[q] = "idle" => socket[q] = "idle"
    BY <1>5 DEF ResponseClosed, IInv, TypeOK
  <2>2. owner[r] \in Client
    BY <1>5 DEF ResponseClosed, IInv, TypeOK
  <2>3. NobodyNew
    BY <1>5, <2>2, RemovalLeavesOthers DEF ResponseClosed
  <2> QED
    BY <1>2, <2>1, <2>3
<1> QED
  BY <1>3, <1>4, <1>5 DEF ConnectionStep

\* DELETE /subscribe.
LEMMA RemoveHistoryStep ==
  ASSUME IInv, HistoryInv, NEW c \in Client, NEW p \in Pattern,
         HandleRemoveSubscription(c, p)
  PROVE  HistoryInv'
<1>1. /\ clients' = [clients EXCEPT ![c].subscriptions = @ \ {p}]
      /\ UNCHANGED <<socket, history, workerHistory, reloaded, ioTaskQueue,
                     processed, written, owed, dropped>>
  BY DEF HandleRemoveSubscription, RemoveSubscription
<1>2. DOMAIN clients' = DOMAIN clients
      /\ \A d \in DOMAIN clients : clients'[d].response = clients[d].response
  BY <1>1 DEF IInv, TypeOK
<1> QED
  BY <1>1, <1>2, AloneKeeps

\* A hot reload brings an empty buffer, and the promise ends.
LEMMA ReloadHistoryStep ==
  ASSUME HistoryInv, NEW n \in ReloadSizes, HotReload(n)
  PROVE  HistoryInv'
<1>1. /\ history' = EmptyHistory(n) /\ reloaded' /\ n \in Nat \ {0}
      /\ UNCHANGED <<ioTaskQueue, owed, processed, socket>>
  BY DeliveryAssumption DEF HotReload, vars, sseVars
<1>2. BufferSound'
  BY <1>1, ToSetSingle DEF BufferSound, EmptyHistory
<1>3. OwedIsPast' /\ Served'
  BY <1>1 DEF HistoryInv, OwedIsPast, Served
<1> QED
  BY <1>1, <1>2, <1>3 DEF HistoryInv

\* Worker 0: a message that is processed takes the place of none that is owed
\* and still held.
LEMMA ProcessHistoryStep ==
  ASSUME IInv, StreamTyped, HistoryInv, NEW m \in Message, NEW F \in SUBSET Client,
         Process(m, F)
  PROVE  HistoryInv'
<1>1. /\ m \notin ToSet(processed) /\ processed' = Append(processed, m)
      /\ history' = Remember(history, TopicOf[m], m)
      /\ workerHistory' = IF reloaded THEN workerHistory ELSE history'
      /\ WriteLive(m, F) /\ QueueTasks(<<CompletedTask(m)>>)
      /\ UNCHANGED <<reloaded, owed, socket>>
  BY DEF Process, Broadcast
<1>2. /\ DOMAIN clients' \subseteq DOMAIN clients
      /\ \A c \in DOMAIN clients' : clients'[c] = clients[c]
  BY DEF Process, Broadcast, RemoveClients, Restrict
<1>3. BufferSound' /\ \A k \in Message : k /= m /\ Held(k)' => Held(k)
  BY <1>1, RememberKeeps DEF HistoryInv, StreamTyped
<1>4. OwedIsPast'
  <2>1. ToSet(processed) \subseteq ToSet(processed')
    BY <1>1, AppendToSet DEF StreamTyped
  <2> QED
    BY <1>1, <2>1 DEF HistoryInv, OwedIsPast
<1>5. \A rm \in owed : Held(rm[2])' => Held(rm[2])
  <2>1. ASSUME NEW rm \in owed PROVE rm[2] \in Message /\ rm[2] /= m
    BY <1>1 DEF HistoryInv, OwedIsPast
  <2> QED
    BY <1>3, <2>1
<1>6. <<CompletedTask(m)>> \in Seq(Tasks)
  <2>1. CompletedTask(m) \in Tasks
    BY DEF Tasks
  <2> QED
    BY <2>1
<1>7. ioTaskQueue' \in Seq(Tasks) /\ Outstanding \subseteq Outstanding'
  BY <1>1, <1>6, QueuedOrLost DEF HistoryInv
<1>8. \A r \in Response : written[r] \subseteq written'[r]
  BY <1>1 DEF WriteLive, StreamTyped
<1>9. ASSUME NEW c \in DOMAIN clients', NEW k \in Message, Brought(c, k)
      PROVE  Brought(c, k)'
  <2>1. /\ c \in DOMAIN clients /\ clients'[c].response = clients[c].response
        /\ clients[c].response \in Response
    BY <1>2, ClientFact
  <2> QED
    BY <1>7, <1>8, <1>9, <2>1 DEF Brought, Brings, SentOn
<1>10. Served'
  BY <1>1, <1>2, <1>5, <1>9, ServedStays
<1>11. ~ reloaded' => workerHistory' = history'
  BY <1>1
<1> QED
  BY <1>3, <1>4, <1>7, <1>10, <1>11 DEF HistoryInv

\* Every step.
LEMMA HistoryStep ==
  ASSUME IInv, StreamInv, HistoryInv, [DeliveryNext]_allVars
  PROVE  HistoryInv'
<1>1. StreamTyped /\ processed \in Seq(Message)
  BY DEF StreamInv, StreamTyped
<1>2. CASE UNCHANGED allVars
  <2>1. UNCHANGED <<clients, socket, history, workerHistory, reloaded,
                    ioTaskQueue, processed, written, owed, dropped>>
    BY <1>2 DEF allVars, deliveryVars, vars, sseVars
  <2> QED
    BY <2>1, AloneKeeps
<1> QED
  BY <1>1, <1>2, SubscribeHistoryStep, AddHistoryStep, RemoveHistoryStep,
     ProcessHistoryStep, WorkerOneHistoryStep, ReloadHistoryStep,
     ConnectionHistoryStep DEF DeliveryNext

\* While the buffer has not been replaced, what it held when a pattern was
\* accepted reaches the connection, unless newer messages evicted it or the
\* I/O queue was full: for any number of clients, patterns and messages, any
\* sizes of the buffer and the queue, and any interleaving of the handlers with
\* the two workers (handleSubscribe, processIOTask).
THEOREM HistoryNeverLost == DeliverySpec => []NoHistoryLost
<1>1. IInv /\ StreamInv /\ HistoryInv /\ [DeliveryNext]_allVars => HistoryInv'
  BY HistoryStep
<1>2. IInv /\ HistoryInv => NoHistoryLost
  BY ServedIsEnough
<1> QED
  BY <1>1, <1>2, HistoryStart, DeliveryInv, StreamAlways, PTL DEF DeliverySpec
-----------------------------------------------------------------------------
(* Nothing is written that was not asked for.                              *)

\* A buffer whose messages are filed under their topics.
Filed(h) ==
  /\ h \in [size : Nat \ {0}, keys : Seq(Topic), of : [Topic -> Seq(Message)]]
  /\ \A t \in Topic : \A m \in ToSet(h.of[t]) : TopicOf[m] = t

\* Every subscription and every queued replay was asked for.
AskedInv ==
  /\ \A c \in Client, p \in Pattern :
       p \in EntryOf(subscriptions, c) => <<c, p>> \in asked
  /\ \A task \in ToSet(ioTaskQueue) :
       task.type = "serve-history" =>
         task.topic \in Pattern /\ <<task.client, task.topic>> \in asked
  /\ Filed(workerHistory)
  /\ NothingUnasked

LEMMA AskedStart == DeliveryInit => AskedInv
<1> SUFFICES ASSUME DeliveryInit PROVE AskedInv
  OBVIOUS
<1>1. ToSet(ioTaskQueue) = {}
  BY ToSetSingle DEF DeliveryInit
<1>2. Filed(workerHistory)
  BY DeliveryAssumption, ToSetSingle DEF DeliveryInit, Filed, EmptyHistory
<1>3. \A c : EntryOf(subscriptions, c) = {}
  BY DEF DeliveryInit, Init, TMInit, EntryOf
<1>4. NothingUnasked
  BY DEF DeliveryInit, NothingUnasked, SentOn
<1> QED
  BY <1>1, <1>2, <1>3, <1>4 DEF AskedInv

\* A replay holds messages of the topics it was taken for, and no others.
LEMMA ReplayIsOfTopics ==
  ASSUME NEW h, Filed(h), NEW T \in SUBSET Topic, NEW m \in ToSet(Replay(h, T))
  PROVE  TopicOf[m] \in T
<1> DEFINE keys == h.keys
           part(i) == IF keys[i] \in T THEN h.of[keys[i]] ELSE << >>
           ss == [i \in 1 .. Len(keys) |-> part(i)]
<1>1. /\ keys \in Seq(Topic) /\ Len(keys) \in Nat
      /\ \A i \in 1 .. Len(keys) : keys[i] \in Topic /\ h.of[keys[i]] \in Seq(Message)
  BY DEF Filed
<1>2. << >> \in Seq(Message) /\ ToSet(<< >>) = {}
  BY ToSetSingle
<1>3. \A i \in 1 .. Len(keys) : part(i) \in Seq(Message)
  BY <1>1, <1>2
<1>4. ss \in Seq(Seq(Message)) /\ Len(ss) = Len(keys)
      /\ \A i \in 1 .. Len(keys) : ss[i] = part(i)
  BY <1>1, <1>3
<1>5. Replay(h, T) = FlattenSeq(ss)
  BY DEF Replay
<1> HIDE DEF ss
<1>6. PICK i \in 1 .. Len(keys) : m \in ToSet(part(i))
  BY <1>4, <1>5, FlattenProperties
<1>7. keys[i] \in T /\ keys[i] \in Topic /\ m \in ToSet(h.of[keys[i]])
  BY <1>1, <1>2, <1>6
<1> QED
  BY <1>7 DEF Filed

\* A step that queues only what is asked for, adds no subscription but those
\* that are, and writes only what is asked for by the owner of the response.
LEMMA AskedKept ==
  ASSUME AskedInv, asked \subseteq asked', Filed(workerHistory)',
         \A c \in Client : \A p \in EntryOf(subscriptions', c) :
           p \in EntryOf(subscriptions, c) \/ <<c, p>> \in asked',
         \A task \in ToSet(ioTaskQueue') :
           \/ task \in ToSet(ioTaskQueue)
           \/ /\ task.type = "serve-history"
              /\ task.topic \in Pattern /\ <<task.client, task.topic>> \in asked'
           \/ task.type = "mark-completed",
         \A r \in Response : written'[r] /= {} => owner'[r] = owner[r],
         \A r \in Response : \A event \in written'[r] :
           \/ event \in written[r]
           \/ \E p \in Pattern :
                <<owner[r], p>> \in asked' /\ TopicOf[event[2]] \in TopicsOf(p)
  PROVE  AskedInv'
<1>1. \A c \in Client, p \in Pattern :
        p \in EntryOf(subscriptions', c) => <<c, p>> \in asked'
  BY DEF AskedInv
<1>2. \A task \in ToSet(ioTaskQueue') :
        task.type = "serve-history" =>
          task.topic \in Pattern /\ <<task.client, task.topic>> \in asked'
  BY DEF AskedInv
<1>3. ASSUME NEW r \in Response, NEW event \in written'[r]
      PROVE  \E p \in Pattern :
               <<owner'[r], p>> \in asked' /\ TopicOf[event[2]] \in TopicsOf(p)
  <2>1. owner'[r] = owner[r]
    BY <1>3
  <2>2. CASE event \in written[r]
    <3>1. event[2] \in SentOn(r)
      BY <2>2 DEF SentOn
    <3> QED
      BY <2>1, <3>1 DEF AskedInv, NothingUnasked
  <2> QED
    BY <1>3, <2>1, <2>2
<1>4. NothingUnasked'
  BY <1>3 DEF NothingUnasked, SentOn
<1> QED
  BY <1>1, <1>2, <1>4 DEF AskedInv

\* removeClient() takes subscriptions away and gives none.
LEMMA RemovalAsksNothing ==
  ASSUME IInv, NEW C \in SUBSET Client, NEW received, RemoveClients(C, received)
  PROVE  \A d : EntryOf(subscriptions', d) \subseteq EntryOf(subscriptions, d)
<1>1. UnsubscribeAll(C \cap DOMAIN clients) /\ C \cap DOMAIN clients \in SUBSET Client
  BY DEF RemoveClients
<1>2. /\ DOMAIN subscriptions' \subseteq DOMAIN subscriptions
      /\ \A d \in DOMAIN subscriptions' : subscriptions'[d] = subscriptions[d]
  BY <1>1, UnsubscribeAllConsistent DEF IInv, TypeOK
<1> QED
  BY <1>2 DEF EntryOf

\* GET /subscribe: the response is new, the tasks are for the query's topics.
LEMMA SubscribeAskedStep ==
  ASSUME IInv, StreamInv, HistoryInv, AskedInv, NEW c \in Client,
         NEW r \in Response, NEW P \in SUBSET Pattern, HandleSubscribe(c, r, P)
  PROVE  AskedInv'
<1>1. /\ socket[r] = "idle" /\ owner' = [owner EXCEPT ![r] = c]
      /\ Subscribe(c, P) /\ IsFiniteSet(P)
      /\ asked' = asked \cup ({c} \X P)
      /\ UNCHANGED <<workerHistory, written>>
  BY DEF HandleSubscribe, Connect, Accepted
<1>2. PICK order \in SetToSeqs(WithHistory(P)) : QueueHistory(c, order)
  BY DEF HandleSubscribe
<1> DEFINE tasks == [i \in 1 .. Len(order) |-> HistoryTask(c, order[i])]
<1>3. IsFiniteSet(WithHistory(P)) /\ WithHistory(P) \in SUBSET P
  BY <1>1, FS_Subset DEF WithHistory
<1>4. order \in Seq(P) /\ Len(order) \in Nat
  BY <1>2, <1>3, OrderIsOnto
<1>5. \A i \in 1 .. Len(order) : order[i] \in P
  BY <1>4
<1>6. \A i \in 1 .. Len(order) : HistoryTask(c, order[i]) \in Tasks
  BY <1>5 DEF Tasks
<1>7. tasks \in Seq(Tasks)
  BY <1>4, <1>6
<1>8. \A task \in ToSet(tasks) : \E p \in P : task = HistoryTask(c, p)
  BY <1>4, <1>5 DEF ToSet
<1>9. ToSet(ioTaskQueue') \subseteq ToSet(ioTaskQueue) \cup ToSet(tasks)
  BY <1>2, <1>7, QueuedOrLost DEF QueueHistory, HistoryInv
<1> HIDE DEF tasks
<1>10. ASSUME NEW task \in ToSet(tasks)
       PROVE  /\ task.type = "serve-history"
              /\ task.topic \in Pattern /\ <<task.client, task.topic>> \in asked'
  <2>1. PICK p \in P : task = HistoryTask(c, p)
    BY <1>8
  <2>2. task.type = "serve-history" /\ task.client = c /\ task.topic = p
    BY <2>1 DEF HistoryTask
  <2> QED
    BY <1>1, <2>2
<1>11. \A d \in Client : \A p \in EntryOf(subscriptions', d) :
         p \in EntryOf(subscriptions, d) \/ <<d, p>> \in asked'
  <2>1. \A d : EntryOf(subscriptions', d) = IF d = c
                 THEN EntryOf(subscriptions, c) \cup P ELSE EntryOf(subscriptions, d)
    BY <1>1, SubscribeConsistent DEF IInv, TypeOK
  <2> QED
    BY <1>1, <2>1
<1>12. \A q \in Response : written'[q] /= {} => owner'[q] = owner[q]
  BY <1>1 DEF StreamInv, IdleIsEmpty, IInv, TypeOK
<1>13. Filed(workerHistory)'
  BY <1>1 DEF AskedInv
<1>14. asked \subseteq asked'
       /\ \A q \in Response : \A event \in written'[q] : event \in written[q]
  BY <1>1
<1> QED
  BY <1>9, <1>10, <1>11, <1>12, <1>13, <1>14, AskedKept

\* POST /subscribe.
LEMMA AddAskedStep ==
  ASSUME IInv, StreamInv, HistoryInv, AskedInv, NEW c \in Client,
         NEW p \in Pattern, HandleAddSubscription(c, p)
  PROVE  AskedInv'
<1> DEFINE order == IF p \in WithHistory({p}) THEN <<p>> ELSE << >>
           tasks == [i \in 1 .. Len(order) |-> HistoryTask(c, order[i])]
<1>1. /\ Subscribe(c, {p}) /\ asked' = asked \cup ({c} \X {p})
      /\ QueueTasks(tasks)
      /\ UNCHANGED <<workerHistory, written, owner>>
  BY DEF HandleAddSubscription, AddSubscription, Accepted, QueueHistory
<1>2. Len(order) \in Nat /\ \A i \in 1 .. Len(order) : order[i] = p
  OBVIOUS
<1>3. HistoryTask(c, p) \in Tasks
  BY DEF Tasks
<1> HIDE DEF order
<1>4. tasks \in Seq(Tasks)
  BY <1>2, <1>3
<1>5. \A task \in ToSet(tasks) : task = HistoryTask(c, p)
  BY <1>2 DEF ToSet
<1> HIDE DEF tasks
<1>6. ToSet(ioTaskQueue') \subseteq ToSet(ioTaskQueue) \cup ToSet(tasks)
  BY <1>1, <1>4, QueuedOrLost DEF HistoryInv
<1>7. \A task \in ToSet(tasks) :
        /\ task.type = "serve-history"
        /\ task.topic \in Pattern /\ <<task.client, task.topic>> \in asked'
  BY <1>1, <1>5 DEF HistoryTask
<1>8. \A d \in Client : \A q \in EntryOf(subscriptions', d) :
        q \in EntryOf(subscriptions, d) \/ <<d, q>> \in asked'
  <2>1. \A d : EntryOf(subscriptions', d) = IF d = c
                 THEN EntryOf(subscriptions, c) \cup {p} ELSE EntryOf(subscriptions, d)
    BY <1>1, SubscribeConsistent DEF IInv, TypeOK
  <2> QED
    BY <1>1, <2>1
<1>9. /\ asked \subseteq asked' /\ Filed(workerHistory)'
      /\ \A q \in Response : owner'[q] = owner[q] /\ written'[q] = written[q]
  BY <1>1 DEF AskedInv
<1> QED
  BY <1>6, <1>7, <1>8, <1>9, AskedKept

\* Worker 0: a subscriber of a matching pattern asked for it, and its response
\* is its own.
LEMMA ProcessAskedStep ==
  ASSUME IInv, StreamInv, HistoryInv, HistoryInv', AskedInv, NEW m \in Message,
         NEW F \in SUBSET Client, Process(m, F)
  PROVE  AskedInv'
<1> DEFINE reached == (MatchingSubscribers(TopicOf[m]) \cap Writable) \ F
<1>1. /\ workerHistory' = IF reloaded THEN workerHistory ELSE history'
      /\ Broadcast(TopicOf[m], m, F) /\ WriteLive(m, F)
      /\ QueueTasks(<<CompletedTask(m)>>) /\ asked' = asked /\ owner' = owner
  BY DEF Process, Broadcast
<1>2. Filed(workerHistory)'
  BY <1>1 DEF AskedInv, HistoryInv, BufferSound, Filed
<1>3. \A d : EntryOf(subscriptions', d) \subseteq EntryOf(subscriptions, d)
  BY <1>1, RemovalAsksNothing DEF Broadcast
<1>4. \A task \in ToSet(ioTaskQueue') :
        task \in ToSet(ioTaskQueue) \/ task.type = "mark-completed"
  <2>1. CompletedTask(m) \in Tasks /\ CompletedTask(m).type = "mark-completed"
    BY DEF Tasks, CompletedTask
  <2>2. <<CompletedTask(m)>> \in Seq(Tasks)
    BY <2>1
  <2>3. ToSet(<<CompletedTask(m)>>) = {CompletedTask(m)}
    BY ToSetSingle
  <2>4. ToSet(ioTaskQueue') \subseteq ToSet(ioTaskQueue) \cup ToSet(<<CompletedTask(m)>>)
    BY <1>1, <2>2, QueuedOrLost DEF HistoryInv
  <2> QED
    BY <2>1, <2>3, <2>4
<1>5. ASSUME NEW r \in Response, NEW event \in written'[r], event \notin written[r]
      PROVE  \E p \in Pattern :
               <<owner[r], p>> \in asked' /\ TopicOf[event[2]] \in TopicsOf(p)
  <2>1. PICK c \in reached : clients[c].response = r /\ event = <<"live", m>>
    BY <1>1, <1>5 DEF WriteLive
  <2>2. c \in DOMAIN clients /\ owner[r] = c /\ c \in Client
    BY <2>1, ClientFact DEF Writable
  <2>3. PICK p \in DOMAIN patternToClients :
          <<p, TopicOf[m]>> \in Matching /\ c \in patternToClients[p]
    BY <2>1 DEF MatchingSubscribers
  <2>4. p \in Pattern
    BY <2>3 DEF IInv, TypeOK, TMTypeOK
  <2>5. p \in EntryOf(subscriptions, c)
    BY <2>2, <2>3, <2>4 DEF IInv, TablesConsistent, MapsAgree, EntryOf
  <2>6. TopicOf[m] \in TopicsOf(p)
    BY <2>3, DeliveryAssumption DEF TopicsOf
  <2>7. <<c, p>> \in asked /\ event[2] = m
    BY <2>1, <2>2, <2>4, <2>5 DEF AskedInv
  <2> QED
    BY <1>1, <2>2, <2>4, <2>6, <2>7
<1> QED
  BY <1>1, <1>2, <1>3, <1>4, <1>5, AskedKept

\* Worker 1: a replay was asked for under the id of the client it goes to.
LEMMA WorkerOneAskedStep ==
  ASSUME IInv, StreamInv, HistoryInv, AskedInv, WorkerOne
  PROVE  AskedInv'
<1> DEFINE task == Head(ioTaskQueue)
           events == Replay(workerHistory, TopicsOf(task.topic))
<1>1. PopTask /\ asked' = asked /\ workerHistory' = workerHistory /\ owner' = owner
  BY DEF WorkerOne, MarkCompleted, ServeHistory, ServeHistoryFails, PopTask,
         Heartbeat, vars, sseVars
<1>2. /\ task \in ToSet(ioTaskQueue)
      /\ \A other \in ToSet(ioTaskQueue') : other \in ToSet(ioTaskQueue)
  BY <1>1, HeadAndTail DEF PopTask, HistoryInv
<1>3. \A d : EntryOf(subscriptions', d) \subseteq EntryOf(subscriptions, d)
  <2>1. CASE UNCHANGED vars
    BY <2>1 DEF vars, tmVars
  <2>2. ASSUME NEW c \in DOMAIN clients, Heartbeat({c})
        PROVE  \A d : EntryOf(subscriptions', d) \subseteq EntryOf(subscriptions, d)
    <3>1. {c} \in SUBSET Client
      BY ClientFact
    <3> QED
      BY <2>2, <3>1, RemovalAsksNothing DEF Heartbeat
  <2> QED
    BY <2>1, <2>2 DEF WorkerOne, MarkCompleted, ServeHistory, ServeHistoryFails,
                      MayThrow, Writable
<1>4. ASSUME NEW c \in DOMAIN clients, NEW ms, WriteHistory(c, ms), task.client = c,
             task.type = "serve-history", ToSet(ms) \subseteq ToSet(events),
             NEW r \in Response, NEW event \in written'[r], event \notin written[r]
      PROVE  \E p \in Pattern :
               <<owner[r], p>> \in asked' /\ TopicOf[event[2]] \in TopicsOf(p)
  <2>1. /\ task.topic \in Pattern /\ <<c, task.topic>> \in asked
        /\ Filed(workerHistory)
    BY <1>2, <1>4 DEF AskedInv
  <2>2. owner[clients[c].response] = c /\ clients[c].response \in Response
    BY ClientFact
  <2>3. r = clients[c].response /\ \E m \in ToSet(ms) : event = <<"history", m>>
    BY <1>4, <2>2 DEF WriteHistory, StreamInv, StreamTyped
  <2>4. event[2] \in ToSet(events)
    BY <1>4, <2>3
  <2>5. TopicsOf(task.topic) \in SUBSET Topic
    BY DEF TopicsOf
  <2> HIDE DEF task
  <2>6. TopicOf[event[2]] \in TopicsOf(task.topic)
    BY <2>1, <2>4, <2>5, ReplayIsOfTopics
  <2> QED
    BY <1>1, <2>1, <2>2, <2>3, <2>6
<1>5. \A n \in Nat : ToSet(SubSeq(events, 1, n)) \subseteq ToSet(events)
                       \/ n >= Len(events)
  BY DEF ToSet
<1>6. ASSUME NEW r \in Response, NEW event \in written'[r], event \notin written[r]
      PROVE  \E p \in Pattern :
               <<owner[r], p>> \in asked' /\ TopicOf[event[2]] \in TopicsOf(p)
  <2> HIDE DEF task, events
  <2>1. CASE MarkCompleted
    BY <1>6, <2>1 DEF MarkCompleted
  <2>2. CASE ServeHistory
    <3>1. /\ task.client \in Writable /\ WriteHistory(task.client, events)
          /\ task.type = "serve-history"
      BY <1>6, <2>2 DEF ServeHistory, task, events
    <3>2. task.client \in DOMAIN clients
      BY <3>1 DEF Writable
    <3> QED
      BY <1>4, <1>6, <3>1, <3>2
  <2>3. ASSUME NEW n \in 0 .. Len(processed), ServeHistoryFails(n)
        PROVE  \E p \in Pattern :
                 <<owner[r], p>> \in asked' /\ TopicOf[event[2]] \in TopicsOf(p)
    <3>1. /\ task.client \in MayThrow /\ task.type = "serve-history"
          /\ n < Len(events)
          /\ WriteHistory(task.client, SubSeq(events, 1, n))
      BY <2>3 DEF ServeHistoryFails, task, events
    <3>2. task.client \in DOMAIN clients
      BY <3>1 DEF MayThrow, Writable
    <3>3. n \in Nat
      BY DEF StreamInv, StreamTyped
    <3>4. ToSet(SubSeq(events, 1, n)) \subseteq ToSet(events)
      BY <1>5, <3>1, <3>3
    <3> QED
      BY <1>4, <1>6, <3>1, <3>2, <3>4
  <2> QED
    BY <2>1, <2>2, <2>3 DEF WorkerOne
<1>7. Filed(workerHistory)'
  BY <1>1 DEF AskedInv
<1> QED
  BY <1>1, <1>2, <1>3, <1>6, <1>7, AskedKept

\* The steps that write nothing and queue nothing.
LEMMA QuietAskedStep ==
  ASSUME IInv, AskedInv,
         \A d \in Client : EntryOf(subscriptions', d) \subseteq EntryOf(subscriptions, d),
         UNCHANGED <<owner, asked, workerHistory, ioTaskQueue, written>>
  PROVE  AskedInv'
<1>1. Filed(workerHistory)'
  BY DEF AskedInv
<1> QED
  BY <1>1, AskedKept

LEMMA AskedStep ==
  ASSUME IInv, StreamInv, HistoryInv, HistoryInv', AskedInv,
         [DeliveryNext]_allVars
  PROVE  AskedInv'
<1>1. CASE UNCHANGED allVars \/ \E n \in ReloadSizes : HotReload(n)
  <2>1. UNCHANGED <<subscriptions, owner, asked, workerHistory, ioTaskQueue, written>>
    BY <1>1 DEF allVars, deliveryVars, HotReload, vars, tmVars, sseVars
  <2> QED
    BY <2>1, QuietAskedStep
<1>2. ASSUME NEW c \in Client, NEW p \in Pattern, HandleRemoveSubscription(c, p)
      PROVE  AskedInv'
  <2>1. /\ Unsubscribe(c, p)
        /\ UNCHANGED <<owner, asked, workerHistory, ioTaskQueue, written>>
    BY <1>2 DEF HandleRemoveSubscription, RemoveSubscription
  <2>2. \A d : EntryOf(subscriptions', d) \subseteq EntryOf(subscriptions, d)
    BY <2>1, UnsubscribeConsistent DEF IInv, TypeOK
  <2> QED
    BY <2>1, <2>2, QuietAskedStep
<1>3. CASE ConnectionStep
  <2>1. UNCHANGED <<owner, asked, workerHistory, ioTaskQueue, written>>
    BY <1>3 DEF ConnectionStep, deliveryVars, Heartbeat, PeerLeaves, ResponseClosed
  <2>2. ASSUME NEW F \in SUBSET Client, RemoveClients(F, deliveredMessages)
        PROVE  AskedInv'
    BY <2>1, <2>2, RemovalAsksNothing, QuietAskedStep
  <2>3. ASSUME NEW r \in Response, ResponseClosed(r)
        PROVE  AskedInv'
    <3>1. owner[r] \in Client
      BY <2>3 DEF ResponseClosed, IInv, TypeOK
    <3> QED
      BY <2>2, <2>3, <3>1 DEF ResponseClosed
  <2>4. ASSUME NEW r \in Response, PeerLeaves(r)
        PROVE  AskedInv'
    BY <2>1, <2>4, QuietAskedStep DEF PeerLeaves, tmVars
  <2> QED
    BY <1>3, <2>2, <2>3, <2>4 DEF ConnectionStep, Heartbeat
<1> QED
  BY <1>1, <1>2, <1>3, SubscribeAskedStep, AddAskedStep, ProcessAskedStep,
     WorkerOneAskedStep DEF DeliveryNext

\* No client is written a message of a topic that nobody asked for under its
\* id, however tasks, reconnects, unsubscribes, failed writes and reloads
\* interleave (broadcast, processIOTask).
THEOREM NothingUnaskedWritten == DeliverySpec => []NothingUnasked
<1>1. IInv /\ StreamInv /\ HistoryInv /\ HistoryInv' /\ AskedInv
        /\ [DeliveryNext]_allVars => AskedInv'
  BY AskedStep
<1>2. IInv /\ StreamInv /\ HistoryInv /\ [DeliveryNext]_allVars => HistoryInv'
  BY HistoryStep
<1>3. AskedInv => NothingUnasked
  BY DEF AskedInv
<1> QED
  BY <1>1, <1>2, <1>3, AskedStart, HistoryStart, DeliveryInv, StreamAlways, PTL
     DEF DeliverySpec
=============================================================================
