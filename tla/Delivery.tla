------------------------------ MODULE Delivery ------------------------------
(***************************************************************************)
(* How a processed message and a subscriber meet: the two workers of       *)
(* src/services/parallel-processor.ts, the I/O task queue between them,    *)
(* the replay buffer, and the subscribe handlers of src/index.ts.          *)
(*                                                                         *)
(* Worker 0 buffers a message, broadcasts it and queues a 'mark-completed' *)
(* task.  A subscribe handler queues a 'serve-history' task when the       *)
(* buffer has something for the pattern.  Worker 1 pops the tasks.  Each   *)
(* of the three runs without an await in between, so each is one action;   *)
(* they interleave freely.  Messages reach Worker 0 in an arbitrary order, *)
(* each at most once in the life of the process (Pipeline.tla has the      *)
(* queues before it).                                                      *)
(*                                                                         *)
(* A hot reload of the configuration replaces the service's replay buffer, *)
(* while Worker 1 keeps the one it was constructed with.  Until then the   *)
(* two are one object.                                                     *)
(***************************************************************************)
EXTENDS SSEConnections, Sequences

CONSTANTS
  TopicOf,      \* message -> its topic
  BufferSize,   \* topicBufferSize at startup
  ReloadSizes,  \* the values of topicBufferSize that hot reloads bring
  IOCapacity,   \* maxSize of the I/O task queue
  MaxRequests   \* bound on POST and DELETE /subscribe requests

ASSUME DeliveryAssumption ==
  /\ TopicOf \in [Message -> Topic]
  /\ BufferSize \in Nat \ {0}
  /\ ReloadSizes \subseteq Nat \ {0}
  /\ IOCapacity \in Nat \ {0}

VARIABLES
  history,        \* the service's topicBuffer
  workerHistory,  \* the topicBuffer Worker 1 reads
  reloaded,       \* whether the two are different objects by now
  ioTaskQueue,    \* the tasks for Worker 1
  processed,      \* the messages Worker 0 has handled, in order
  completed,      \* the messages marked completed
  written,        \* response -> the <<kind, message>> written to it
  requests,       \* POST and DELETE /subscribe requests so far
  since,          \* <<client, pattern>> -> Len(processed) when subscribed
  asked,          \* the <<client, pattern>> that were ever subscribed
  owed,           \* <<response, message>>: buffered when a pattern was accepted
  dropped         \* the tasks that a full I/O queue refused

\* The last four only record history for the properties.
deliveryVars == <<history, workerHistory, reloaded, ioTaskQueue, processed,
                  completed, written, requests, since, asked, owed, dropped>>
allVars == <<vars, deliveryVars>>

INSTANCE TopicHistory

HistoryTask(c, p) == [type |-> "serve-history", client |-> c, topic |-> p]
CompletedTask(m) == [type |-> "mark-completed", message |-> m]

TopicsOf(p) == {t \in Topic : <<p, t>> \in Matching}

\* The messages the service's buffer holds for pattern p.
Buffered(p) == ToSet(Replay(history, TopicsOf(p)))

\* The patterns of P for which a handler queues a history task.
WithHistory(P) == {p \in P : Buffered(p) /= {}}

\* ioTaskQueue.push(task) for each of tasks: the callers ignore the result, so
\* what a full queue has no room for is dropped.
QueueTasks(tasks) ==
  /\ LET room == IOCapacity - Len(ioTaskQueue)
         taken == IF Len(tasks) > room THEN room ELSE Len(tasks)
     IN  ioTaskQueue' = ioTaskQueue \o SubSeq(tasks, 1, taken)
  /\ dropped' = dropped \cup (ToSet(tasks) \ ToSet(ioTaskQueue'))

DeliveryInit ==
  /\ Init
  /\ history = EmptyHistory(BufferSize)
  /\ workerHistory = EmptyHistory(BufferSize)
  /\ reloaded = FALSE
  /\ ioTaskQueue = << >>
  /\ processed = << >>
  /\ completed = {}
  /\ written = [r \in Response |-> {}]
  /\ requests = 0
  /\ since = [cp \in Client \X Pattern |-> 0]
  /\ asked = {}
  /\ owed = {}
  /\ dropped = {}

\* What the properties remember of c subscribing to P on response r.
Accepted(c, r, P) ==
  /\ since' = [cp \in Client \X Pattern |->
                 IF cp[1] = c /\ cp[2] \in P THEN Len(processed) ELSE since[cp]]
  /\ asked' = asked \cup ({c} \X P)
  /\ owed' = owed \cup {<<r, m>> : m \in UNION {Buffered(p) : p \in P}}

\* One serve-history task per pattern, in the order of the query.
QueueHistory(c, order) ==
  QueueTasks([i \in 1 .. Len(order) |-> HistoryTask(c, order[i])])

\* handleSubscribe, GET /subscribe?topic=...: the topics of the query are
\* subscribed in order; 'connected' is not recorded in written.
HandleSubscribe(c, r, P) ==
  /\ IsFiniteSet(P)
  /\ Connect(c, r, P)
  /\ \E order \in SetToSeqs(WithHistory(P)) : QueueHistory(c, order)
  /\ Accepted(c, r, P)
  /\ UNCHANGED <<history, workerHistory, reloaded, processed, completed,
                 written, requests>>

\* Mutant of HandleAddSubscription: history is only replayed on GET.
HandleAddSubscriptionUnserved(c, p) ==
  /\ requests < MaxRequests
  /\ requests' = requests + 1
  /\ AddSubscription(c, p)
  /\ Accepted(c, clients[c].response, {p})
  /\ UNCHANGED <<history, workerHistory, reloaded, ioTaskQueue, processed,
                 completed, written, dropped>>

\* handleAddSubscription, after its body has been read.
HandleAddSubscription(c, p) ==
  /\ requests < MaxRequests
  /\ requests' = requests + 1
  /\ AddSubscription(c, p)
  /\ QueueHistory(c, IF p \in WithHistory({p}) THEN <<p>> ELSE << >>)
  /\ Accepted(c, clients[c].response, {p})
  /\ UNCHANGED <<history, workerHistory, reloaded, processed, completed, written>>

\* handleRemoveSubscription, after its body has been read; a queued history
\* task for the pattern stays queued.
HandleRemoveSubscription(c, p) ==
  /\ requests < MaxRequests
  /\ requests' = requests + 1
  /\ RemoveSubscription(c, p)
  /\ UNCHANGED <<history, workerHistory, reloaded, ioTaskQueue, processed,
                 completed, written, since, asked, owed, dropped>>

\* The history events for the messages of ms, written to client c.
WriteHistory(c, ms) ==
  written' = [written EXCEPT ![clients[c].response] =
                @ \cup {<<"history", m>> : m \in ToSet(ms)}]

\* Mutant of WriteLive: an event goes to every connection.
WriteLiveToAll(m, failing) ==
  written' = [r \in Response |->
    IF \E c \in Writable \ failing : clients[c].response = r
    THEN written[r] \cup {<<"live", m>>}
    ELSE written[r]]

\* Who is written m: the matching clients, except those whose write throws.
WriteLive(m, failing) ==
  LET reached == (MatchingSubscribers(TopicOf[m]) \cap Writable) \ failing
  IN  written' = [r \in Response |->
        IF \E c \in reached : clients[c].response = r
        THEN written[r] \cup {<<"live", m>>}
        ELSE written[r]]

\* Mutant of Process: no mark-completed task is queued.
ProcessUnmarked(m, failing) ==
  /\ m \notin ToSet(processed)
  /\ processed' = Append(processed, m)
  /\ history' = Remember(history, TopicOf[m], m)
  /\ workerHistory' = IF reloaded THEN workerHistory ELSE history'
  /\ Broadcast(TopicOf[m], m, failing)
  /\ WriteLive(m, failing)
  /\ UNCHANGED <<ioTaskQueue, reloaded, completed, requests, since, asked, owed,
                 dropped>>

\* Worker 0 handles m: topicBuffer.push, broadcast, mark-completed task.
Process(m, failing) ==
  /\ m \notin ToSet(processed)
  /\ processed' = Append(processed, m)
  /\ history' = Remember(history, TopicOf[m], m)
  /\ workerHistory' = IF reloaded THEN workerHistory ELSE history'
  /\ Broadcast(TopicOf[m], m, failing)
  /\ WriteLive(m, failing)
  /\ QueueTasks(<<CompletedTask(m)>>)
  /\ UNCHANGED <<reloaded, completed, requests, since, asked, owed>>

\* Worker 1 pops the next task, leaving everything but what it writes.
PopTask ==
  /\ ioTaskQueue /= << >>
  /\ ioTaskQueue' = Tail(ioTaskQueue)
  /\ UNCHANGED <<history, workerHistory, reloaded, processed, requests, since,
                 asked, owed, dropped>>

\* Mutant of MarkCompleted: the task is peeked at, not popped.
MarkCompletedPeeks ==
  /\ ioTaskQueue /= << >>
  /\ Head(ioTaskQueue).type = "mark-completed"
  /\ completed' = completed \cup {Head(ioTaskQueue).message}
  /\ UNCHANGED <<history, workerHistory, reloaded, ioTaskQueue, processed,
                 written, requests, since, asked, owed, dropped, vars>>

\* processIOTask, 'mark-completed'.
MarkCompleted ==
  /\ PopTask
  /\ Head(ioTaskQueue).type = "mark-completed"
  /\ completed' = completed \cup {Head(ioTaskQueue).message}
  /\ UNCHANGED <<written, vars>>

\* processIOTask, 'serve-history': whoever has the client id by now is sent
\* all that Worker 1's buffer holds for the pattern.  A client that is gone,
\* or whose response was ended, is sent nothing.
ServeHistory ==
  /\ PopTask
  /\ Head(ioTaskQueue).type = "serve-history"
  /\ LET task == Head(ioTaskQueue)
     IN  IF task.client \in Writable
         THEN WriteHistory(task.client,
                           Replay(workerHistory, TopicsOf(task.topic)))
         ELSE UNCHANGED written
  /\ UNCHANGED <<completed, vars>>

\* The same, but the write after the first n events throws: the client is
\* removed, and the remaining events find no client.
ServeHistoryFails(n) ==
  /\ PopTask
  /\ Head(ioTaskQueue).type = "serve-history"
  /\ LET task == Head(ioTaskQueue)
         events == Replay(workerHistory, TopicsOf(task.topic))
     IN  /\ task.client \in MayThrow
         /\ n < Len(events)
         /\ WriteHistory(task.client, SubSeq(events, 1, n))
         /\ Heartbeat({task.client})
  /\ UNCHANGED completed

\* onConfigChange: a new, empty buffer of the configured size.
HotReload(n) ==
  /\ history' = EmptyHistory(n)
  /\ reloaded' = TRUE
  /\ UNCHANGED <<vars, workerHistory, ioTaskQueue, processed, completed,
                 written, requests, since, asked, owed, dropped>>

\* The steps that only concern the connections.
ConnectionStep ==
  /\ \/ \E F \in (SUBSET Client) \ {{}} : Heartbeat(F)
     \/ \E r \in Response : PeerLeaves(r)
     \/ \E r \in Response : ResponseClosed(r)
  /\ UNCHANGED deliveryVars

WorkerOne ==
  \/ MarkCompleted
  \/ ServeHistory
  \/ \E n \in 0 .. Len(processed) : ServeHistoryFails(n)

DeliveryNext ==
  \/ \E c \in Client, r \in Response, P \in SUBSET Pattern : HandleSubscribe(c, r, P)
  \/ \E c \in Client, p \in Pattern : HandleAddSubscription(c, p)
  \/ \E c \in Client, p \in Pattern : HandleRemoveSubscription(c, p)
  \/ \E m \in Message, F \in SUBSET Client : Process(m, F)
  \/ WorkerOne
  \/ \E n \in ReloadSizes : HotReload(n)
  \/ ConnectionStep

\* Worker 1's loop pops a task or sleeps a millisecond, for as long as the
\* service runs; nothing else is obliged to happen.
DeliverySpec ==
  DeliveryInit /\ [][DeliveryNext]_allVars /\ WF_allVars(WorkerOne)

-----------------------------------------------------------------------------
(* Properties.                                                             *)

Current(r) == \E c \in DOMAIN clients : clients[c].response = r
LiveOn(r) == {m \in Message : <<"live", m>> \in written[r]}
SentOn(r) == {event[2] : event \in written[r]}
Held(m) == \E i \in 1 .. Len(history.of[TopicOf[m]]) : history.of[TopicOf[m]][i] = m

\* A connected client has been written every message processed since it
\* subscribed to a pattern it still holds, through reconnects under its id,
\* other clients' unsubscribes and disconnects, and failed writes.
NoLiveMessageMissed ==
  \A c \in DOMAIN clients, p \in Pattern :
    p \in clients[c].subscriptions =>
      \A i \in since[<<c, p>>] + 1 .. Len(processed) :
        TopicOf[processed[i]] \in TopicsOf(p) =>
          processed[i] \in LiveOn(clients[c].response)

\* deliveredMessages records exactly the broadcasts written to the client's
\* present connection, never those of an earlier one under the same id.
RecordMatchesStream ==
  \A c \in DOMAIN clients : deliveredMessages[c] = LiveOn(clients[c].response)

\* Whatever is written to a client, live or replayed, is of a topic that was
\* once asked for under its id: no broadcast to the subscribers of another
\* pattern, and no task that finds its client id reconnected, reaches a
\* stranger.  It may come after the pattern was given up.
NothingUnasked ==
  \A r \in Response : \A m \in SentOn(r) :
    \E p \in Pattern : <<owner[r], p>> \in asked /\ TopicOf[m] \in TopicsOf(p)

\* Where m still is on its way to r, or was lost: a queued task will bring it,
\* or the I/O queue was full.
Pending(r, m) ==
  \E i \in 1 .. Len(ioTaskQueue) :
    LET task == ioTaskQueue[i]
    IN  /\ task.type = "serve-history"
        /\ task.client \in DOMAIN clients
        /\ clients[task.client].response = r
        /\ TopicOf[m] \in TopicsOf(task.topic)

HistoryDropped(r, m) ==
  \E task \in dropped :
    /\ task.type = "serve-history"
    /\ task.client = owner[r]
    /\ TopicOf[m] \in TopicsOf(task.topic)

\* While the buffer has not been replaced, what it held when a pattern was
\* accepted is on the connection's stream, or a queued task will bring it, or
\* newer messages have evicted it, or the I/O queue was full: nothing falls
\* between the replay and the live stream.
NoHistoryLost ==
  ~ reloaded =>
    \A rm \in owed :
      LET r == rm[1]
          m == rm[2]
      IN  Current(r) /\ Held(m) =>
            m \in SentOn(r) \/ Pending(r, m) \/ HistoryDropped(r, m)

ReplayEnds(r, m) ==
  \/ m \in SentOn(r) \/ HistoryDropped(r, m)
  \/ ~ Held(m) \/ ~ Current(r)

\* "When a client subscribes, they immediately receive recent messages
\* matching their pattern" (docs/SUBSCRIPTION-ARCHITECTURE.md:149): with the
\* buffer that Worker 1 knows, the replay arrives.
HistoryArrives ==
  \A r \in Response, m \in Message :
    <<r, m>> \in owed ~> ReplayEnds(r, m) \/ reloaded

\* Every processed message is marked completed, unless the queue was full.
ProcessedCompletes ==
  \A m \in Message :
    m \in ToSet(processed) ~> m \in completed \/ CompletedTask(m) \in dropped
=============================================================================
