------------------------------ MODULE Pipeline ------------------------------
(***************************************************************************)
(* The life of a message from POST /ingest to 'completed', over restarts   *)
(* of the service (src/index.ts, src/services/parallel-processor.ts,       *)
(* src/services/message-persistence.ts):                                   *)
(*                                                                         *)
(*   ingestionFifo -> ingestion worker (persist) -> processingFifo         *)
(*     -> Worker 0 (broadcast) -> ioTaskQueue -> Worker 1 (markCompleted)  *)
(*                                                                         *)
(* The ingestion worker awaits the disk while it persists, and so does the *)
(* hourly compaction; everything else runs without an await.  The log is   *)
(* taken as a whole here: the messages whose entry and index line are on   *)
(* disk, in order, and the index in memory; a write is one step, and a     *)
(* compaction takes one at each point where a write, an update or a crash  *)
(* finds it in another state.  MessageLog.tla has the single writes.       *)
(***************************************************************************)
EXTENDS QueueOps, Selection, SequencesExt

CONSTANTS
  Message,             \* message ids
  SourceOf,            \* message -> its sourceModelId
  IngestionCapacity,   \* ingestionFifoSize
  ProcessingCapacity,  \* processingFifoSize
  IOCapacity,          \* maxSize of the I/O task queue
  NoMessage,           \* the ingestion worker is not persisting anything
  MaxStarts,           \* bound on the number of starts
  Faults               \* those of "write", "process" and "crash" that occur

ASSUME PipelineAssumption ==
  /\ DOMAIN SourceOf = Message
  /\ {IngestionCapacity, ProcessingCapacity, IOCapacity} \subseteq Nat \ {0}
  /\ NoMessage \notin Message
  /\ MaxStarts \in Nat
  /\ Faults \subseteq {"write", "process", "crash"}

VARIABLES
  phase,           \* "down", "running" or "stopping"
  ingestionFifo, processingFifo, ioTaskQueue,
  persisting,      \* the message whose persist() is awaited
  log,             \* the messages on disk, in order
  index,           \* the index in memory: message -> status
  logBroken,       \* a failed write has left the write lock rejected
  compaction,      \* where compact() is: "idle", "reading", "archived" or
                   \* "opened"
  kept,            \* the entries it has collected to rewrite, in order
  misplaced,       \* the log believes its segment larger than it is
  appended,        \* all messages passed to append(), in order: their timestamps
  overflowCount,   \* of both FIFOs together
  starts,          \* starts so far
  \* What the properties remember.
  acknowledged,    \* the messages answered with 200, in order
  entered,         \* the messages ingested or recovered since the last start
  processed,       \* the messages Worker 0 broadcast since then
  failed,          \* the messages whose processing threw since then
  discarded,       \* the messages the FIFOs displaced since then
  completed,       \* the messages marked completed since then
  exposed          \* the messages whose write was under way while a compaction
                   \* collected the pending entries, or had a wrong offset

queues == <<ingestionFifo, processingFifo, ioTaskQueue, persisting>>
compacting == <<compaction, kept>>
store == <<log, index, logBroken, misplaced>>
memory == <<acknowledged, entered, processed, failed, discarded, completed>>
overlap == <<appended, exposed>>
vars == <<phase, queues, store, compacting, overflowCount, starts, memory, overlap>>

Init ==
  /\ phase = "down"
  /\ ingestionFifo = << >> /\ processingFifo = << >> /\ ioTaskQueue = << >>
  /\ persisting = NoMessage
  /\ log = << >> /\ index = << >> /\ logBroken = FALSE
  /\ compaction = "idle" /\ kept = << >> /\ misplaced = FALSE
  /\ overflowCount = 0 /\ starts = 0
  /\ acknowledged = << >> /\ entered = {} /\ processed = << >>
  /\ failed = {} /\ discarded = {} /\ completed = {}
  /\ appended = << >> /\ exposed = {}

\* Mutant of BySource: the index is walked from its newest entry.
BySourceNewestFirst(s) == Reverse(s)

\* The messages of s by source, the sources in the order of their first
\* message and each source's messages in the order of their timestamps: the
\* groups of getPendingMessagesBySource.  (Messages of the same millisecond
\* keep their order in s; no compaction fits between two such appends.)
BySource(s) ==
  FlattenSeq([i \in 1 .. Len(s) |->
    IF \E j \in 1 .. i - 1 : SourceOf[s[j]] = SourceOf[s[i]] THEN << >>
    ELSE Selected(appended, {m \in ToSet(s) : SourceOf[m] = SourceOf[s[i]]})])

\* start(): the startup compaction keeps what the index on disk says is
\* pending, which is all of it, as updateStatus never writes; then every
\* message is pushed to the processing queue in one go.
Start ==
  /\ phase = "down"
  /\ starts < MaxStarts
  /\ phase' = "running"
  /\ starts' = starts + 1
  /\ index' = [m \in ToSet(log) |-> "pending"]
  /\ logBroken' = FALSE /\ misplaced' = FALSE
  /\ compaction' = "idle" /\ kept' = << >> /\ exposed' = {}
  /\ LET pending == BySource(log)
         excess == IF Len(pending) > ProcessingCapacity
                   THEN Len(pending) - ProcessingCapacity ELSE 0
     IN  /\ processingFifo' = SubSeq(pending, excess + 1, Len(pending))
         /\ discarded' = ToSet(SubSeq(pending, 1, excess))
         /\ overflowCount' = excess
  /\ ingestionFifo' = << >> /\ ioTaskQueue' = << >> /\ persisting' = NoMessage
  /\ entered' = ToSet(log) /\ processed' = << >> /\ failed' = {} /\ completed' = {}
  /\ UNCHANGED <<log, acknowledged, appended>>

\* start() fails, or the process dies in it, before the startup compaction
\* has rewritten all of the log: the service does not serve.
StartFails ==
  /\ phase = "down"
  /\ starts < MaxStarts
  /\ {"write", "crash"} \cap Faults /= {}
  /\ \E n \in 0 .. Len(log) : log' = SubSeq(log, 1, n)
  /\ UNCHANGED <<phase, queues, index, logBroken, misplaced, compacting, starts,
                 overflowCount, memory, overlap>>

\* Mutant of Ingest: the displaced message is not counted.
IngestUncounted(m) ==
  /\ phase \in {"running", "stopping"}
  /\ m \notin ToSet(acknowledged)
  /\ acknowledged' = Append(acknowledged, m)
  /\ entered' = entered \cup {m}
  /\ ingestionFifo' = AppendDiscardingOldest(ingestionFifo, m, IngestionCapacity)
  /\ discarded' = discarded \cup Displaced(ingestionFifo, IngestionCapacity)
  /\ UNCHANGED <<phase, processingFifo, ioTaskQueue, persisting, store, compacting,
                 starts, processed, failed, completed, overflowCount, overlap>>

\* handleIngest: the push never fails under discard-oldest, so the answer is
\* 200 for each message, while stop() is under way too.
Ingest(m) ==
  /\ phase \in {"running", "stopping"}
  /\ m \notin ToSet(acknowledged)
  /\ acknowledged' = Append(acknowledged, m)
  /\ entered' = entered \cup {m}
  /\ ingestionFifo' = AppendDiscardingOldest(ingestionFifo, m, IngestionCapacity)
  /\ discarded' = discarded \cup Displaced(ingestionFifo, IngestionCapacity)
  /\ overflowCount' = overflowCount
                      + Cardinality(Displaced(ingestionFifo, IngestionCapacity))
  /\ UNCHANGED <<phase, processingFifo, ioTaskQueue, persisting, store, compacting,
                 starts, processed, failed, completed, overlap>>

\* runIngestionWorker pops a message and awaits persist().
StartPersist ==
  /\ phase = "running"
  /\ persisting = NoMessage
  /\ ingestionFifo /= << >>
  /\ persisting' = Head(ingestionFifo)
  /\ ingestionFifo' = Tail(ingestionFifo)
  /\ appended' = Append(appended, Head(ingestionFifo))
  /\ exposed' = IF compaction = "reading"
                THEN exposed \cup {Head(ingestionFifo)} ELSE exposed
  /\ UNCHANGED <<phase, processingFifo, ioTaskQueue, store, compacting,
                 overflowCount, starts, memory>>

\* Mutant of PushToProcessing: the queue grows past its capacity.
PushPastCapacity ==
  /\ processingFifo' = Append(processingFifo, persisting)
  /\ persisting' = NoMessage
  /\ UNCHANGED <<phase, ingestionFifo, ioTaskQueue, compacting, starts, overflowCount,
                 memory, appended>>

\* The push to the processing queue once persist() has returned.
PushToProcessing ==
  /\ processingFifo' =
       AppendDiscardingOldest(processingFifo, persisting, ProcessingCapacity)
  /\ discarded' = discarded \cup Displaced(processingFifo, ProcessingCapacity)
  /\ overflowCount' = overflowCount
                      + Cardinality(Displaced(processingFifo, ProcessingCapacity))
  /\ persisting' = NoMessage
  /\ UNCHANGED <<phase, ingestionFifo, ioTaskQueue, compacting, starts,
                 acknowledged, entered, processed, failed, completed, appended>>

\* The entry and the index line of the message can reach the files that have
\* the names of the log: the lock is free or held by this write, and the
\* streams are open.
CanWrite ==
  /\ phase \in {"running", "stopping"}
  /\ persisting /= NoMessage
  /\ ~ logBroken
  /\ \/ compaction = "reading"
     \/ compaction \in {"idle", "opened"} /\ persisting \notin ToSet(kept)

\* The messages of s are written to the log, in vain where they are indexed at
\* a wrong offset.
Written(s) == log' = IF misplaced THEN log ELSE log \o s

\* m is pending in the index in memory.
Indexed(m) ==
  [k \in DOMAIN index \cup {m} |-> IF k = m THEN "pending" ELSE index[k]]

\* Mutant of PersistSucceeds: the log entry is left to a later batch.
PersistLater ==
  /\ CanWrite
  /\ index' = Indexed(persisting)
  /\ exposed' = IF misplaced THEN exposed \cup {persisting}
                ELSE IF compaction = "reading" THEN exposed
                ELSE exposed \ {persisting}
  /\ PushToProcessing
  /\ UNCHANGED <<log, logBroken, misplaced>>

\* persist() has written the entry and its index line.
PersistSucceeds ==
  /\ CanWrite
  /\ Written(<<persisting>>)
  /\ index' = Indexed(persisting)
  /\ exposed' = IF misplaced THEN exposed \cup {persisting}
                ELSE IF compaction = "reading" THEN exposed
                ELSE exposed \ {persisting}
  /\ PushToProcessing
  /\ UNCHANGED <<logBroken, misplaced>>

\* A write that was under way when the files were archived succeeds: its
\* entry is in the archive.  With the new segment open it may be indexed
\* there, and the length of its entry is added to the size of that segment.
PersistArchived ==
  /\ phase \in {"running", "stopping"}
  /\ persisting \in exposed
  /\ ~ logBroken
  /\ \/ compaction = "archived" /\ UNCHANGED <<index, misplaced>>
     \/ /\ compaction \in {"idle", "opened"}
        /\ index' \in {index, Indexed(persisting)}
        /\ misplaced' = TRUE
  /\ PushToProcessing
  /\ UNCHANGED <<log, logBroken, exposed>>

\* Mutant of PersistFails: a message that could not be persisted is dropped.
PersistFailsDrops ==
  /\ phase \in {"running", "stopping"}
  /\ persisting /= NoMessage
  /\ logBroken \/ "write" \in Faults
  /\ logBroken' = TRUE
  /\ persisting' = NoMessage
  /\ UNCHANGED <<phase, ingestionFifo, processingFifo, ioTaskQueue, starts, log,
                 index, misplaced, compacting, overflowCount, memory, overlap>>

\* persist() returns success: false, which its caller ignores.  One failed
\* write rejects the promise that every later write waits for.  While a
\* compaction has the streams closed every new write fails on a healthy disk,
\* and while stop() closes them one under way can.
PersistFails ==
  /\ phase \in {"running", "stopping"}
  /\ persisting /= NoMessage
  /\ logBroken \/ "write" \in Faults \/ phase = "stopping" \/ compaction = "archived"
  /\ logBroken' = TRUE
  /\ PushToProcessing
  /\ UNCHANGED <<log, index, misplaced, exposed>>

\* Worker 0 pops a message and broadcasts it; the task that would mark it
\* completed is dropped without notice when the I/O queue is full.
Broadcast ==
  /\ phase = "running"
  /\ processingFifo /= << >>
  /\ processingFifo' = Tail(processingFifo)
  /\ processed' = Append(processed, Head(processingFifo))
  /\ ioTaskQueue' = IF Len(ioTaskQueue) >= IOCapacity THEN ioTaskQueue
                    ELSE Append(ioTaskQueue, Head(processingFifo))
  /\ UNCHANGED <<phase, ingestionFifo, persisting, store, compacting, overflowCount,
                 starts, acknowledged, entered, failed, discarded, completed,
                 overlap>>

\* Something in Worker 0's try block throws: the message is neither retried
\* nor marked, and stays pending in the index.
BroadcastFails ==
  /\ phase = "running"
  /\ "process" \in Faults
  /\ processingFifo /= << >>
  /\ processingFifo' = Tail(processingFifo)
  /\ failed' = failed \cup {Head(processingFifo)}
  /\ UNCHANGED <<phase, ingestionFifo, ioTaskQueue, persisting, store, compacting,
                 overflowCount, starts, acknowledged, entered, processed, discarded,
                 completed, overlap>>

\* Worker 1 marks the message of the next task completed, in memory.  A
\* compaction that has yet to look at its entry passes it over.
MarkCompleted ==
  /\ phase = "running"
  /\ ioTaskQueue /= << >>
  /\ ioTaskQueue' = Tail(ioTaskQueue)
  /\ index' = [m \in DOMAIN index |->
                 IF m = Head(ioTaskQueue) THEN "completed" ELSE index[m]]
  /\ kept' \in {kept} \cup
       IF compaction = "reading"
       THEN {Selected(kept, Message \ {Head(ioTaskQueue)})} ELSE {}
  /\ completed' = completed \cup {Head(ioTaskQueue)}
  /\ UNCHANGED <<phase, ingestionFifo, processingFifo, persisting, log, logBroken,
                 misplaced, compaction, overflowCount, starts, acknowledged, entered,
                 processed, failed, discarded, overlap>>

-----------------------------------------------------------------------------
(* The hourly compact().                                                   *)

InFlight == IF persisting = NoMessage THEN << >> ELSE <<persisting>>

\* The timer fires, whatever else is under way; flush() would reject if a
\* failed compaction had left its entries.  getPendingMessages collects the
\* pending entries, a message being written among them if it is indexed.
CompactBegin ==
  /\ phase \in {"running", "stopping"}
  /\ compaction = "idle" /\ kept = << >>
  /\ compaction' = "reading"
  /\ LET pending == Selected(log, {m \in DOMAIN index : index[m] = "pending"})
     IN  kept' \in {pending} \cup (IF logBroken THEN {} ELSE {pending \o InFlight})
  /\ exposed' = exposed \cup ToSet(InFlight)
  /\ UNCHANGED <<phase, queues, store, overflowCount, starts, memory, appended>>

\* The streams are ended, the files are renamed, to be deleted in the end, and
\* the index is cleared.  Awaits between the three let only a write under way
\* move on, as it may before the first of them or after the last.
CompactArchive ==
  /\ phase \in {"running", "stopping"}
  /\ compaction = "reading"
  /\ compaction' = "archived"
  /\ log' = << >> /\ index' = << >>
  /\ UNCHANGED <<phase, queues, logBroken, misplaced, kept, overflowCount, starts,
                 memory, overlap>>

\* New files are open; without entries to rewrite that is all.
CompactOpen ==
  /\ phase \in {"running", "stopping"}
  /\ compaction = "archived"
  /\ compaction' = IF kept = << >> THEN "idle" ELSE "opened"
  /\ misplaced' = FALSE
  /\ UNCHANGED <<phase, queues, log, index, logBroken, kept, overflowCount, starts, memory, overlap>>

\* The first n of the entries are rewritten, as pending as they were when they
\* were read.
Rewritten(n) ==
  /\ Written(SubSeq(kept, 1, n))
  /\ index' = [m \in DOMAIN index \cup ToSet(SubSeq(kept, 1, n)) |->
                 IF m \in ToSet(SubSeq(kept, 1, n)) THEN "pending" ELSE index[m]]

\* flush() gets the lock: a persist() that is under way has yet to begin its
\* write.
CanRewrite ==
  /\ phase \in {"running", "stopping"}
  /\ compaction = "opened"
  /\ ~ logBroken
  /\ persisting \notin ToSet(kept)

\* No other write has the lock until all is rewritten.
CompactRewrite ==
  /\ CanRewrite
  /\ Rewritten(Len(kept))
  /\ compaction' = "idle" /\ kept' = << >>
  /\ exposed' = IF misplaced THEN (exposed \ {persisting}) \cup ToSet(kept)
                ELSE exposed \ ({persisting} \cup ToSet(kept))
  /\ UNCHANGED <<phase, queues, logBroken, misplaced, overflowCount, starts, memory,
                 appended>>

\* flush() finds the lock broken, or a write of its own fails: compact()
\* rejects, and what it had collected is in memory and in the archive only.
CompactFails ==
  /\ phase \in {"running", "stopping"}
  /\ compaction = "opened"
  /\ \/ logBroken /\ UNCHANGED <<log, index>>
     \/ /\ CanRewrite
        /\ "write" \in Faults \/ phase = "stopping"
        /\ \E n \in 0 .. Len(kept) - 1 : Rewritten(n)
  /\ compaction' = "idle"
  /\ logBroken' = TRUE
  /\ UNCHANGED <<phase, queues, misplaced, kept, overflowCount, starts, memory, overlap>>

-----------------------------------------------------------------------------

\* stop(): the loops end, the server still takes requests until it closes.
StopWorkers ==
  /\ phase = "running"
  /\ phase' = "stopping"
  /\ UNCHANGED <<queues, store, compacting, overflowCount, starts, memory, overlap>>

\* The process ends: nothing in memory survives.
GoDown ==
  /\ phase' = "down"
  /\ ingestionFifo' = << >> /\ processingFifo' = << >> /\ ioTaskQueue' = << >>
  /\ persisting' = NoMessage
  /\ index' = << >> /\ logBroken' = FALSE /\ misplaced' = FALSE
  /\ compaction' = "idle" /\ kept' = << >>
  /\ overflowCount' = 0
  /\ entered' = {} /\ processed' = << >> /\ failed' = {} /\ discarded' = {}
  /\ completed' = {} /\ exposed' = {}
  /\ UNCHANGED <<starts, acknowledged, appended>>

\* stop() has returned.
Exit ==
  /\ phase = "stopping"
  /\ GoDown
  /\ UNCHANGED log

\* The process dies, with a write that was under way either done or not, or
\* with the first entries of a compaction rewritten.
Crash ==
  /\ "crash" \in Faults
  /\ phase \in {"running", "stopping"}
  /\ GoDown
  /\ \/ UNCHANGED log
     \/ CanWrite /\ Written(<<persisting>>)
     \/ CanRewrite /\ \E n \in 1 .. Len(kept) : Written(SubSeq(kept, 1, n))

IngestionWorker ==
  StartPersist \/ PersistSucceeds \/ PersistArchived \/ PersistFails
WorkerZero == Broadcast \/ BroadcastFails

Next ==
  \/ Start
  \/ StartFails
  \/ \E m \in Message : Ingest(m)
  \/ IngestionWorker
  \/ WorkerZero
  \/ MarkCompleted
  \/ CompactBegin \/ CompactArchive \/ CompactOpen \/ CompactRewrite \/ CompactFails
  \/ StopWorkers
  \/ Exit
  \/ Crash

\* Each worker's loop goes on for as long as the service runs, and a disk
\* write ends in success or in an error.
Spec ==
  /\ Init /\ [][Next]_vars
  /\ WF_vars(IngestionWorker) /\ WF_vars(WorkerZero) /\ WF_vars(MarkCompleted)

-----------------------------------------------------------------------------
(* Properties.                                                             *)

TypeOK ==
  /\ phase \in {"down", "running", "stopping"}
  /\ ingestionFifo \in Seq(Message) /\ Len(ingestionFifo) <= IngestionCapacity
  /\ processingFifo \in Seq(Message) /\ Len(processingFifo) <= ProcessingCapacity
  /\ ioTaskQueue \in Seq(Message) /\ Len(ioTaskQueue) <= IOCapacity
  /\ persisting \in Message \cup {NoMessage}
  /\ log \in Seq(Message)
  /\ DOMAIN index \subseteq Message
  /\ \A m \in DOMAIN index : index[m] \in {"pending", "completed"}
  /\ logBroken \in BOOLEAN /\ misplaced \in BOOLEAN
  /\ compaction \in {"idle", "reading", "archived", "opened"}
  /\ kept \in Seq(Message) /\ appended \in Seq(Message)
  /\ overflowCount \in Nat /\ starts \in 0 .. MaxStarts
  /\ acknowledged \in Seq(Message) /\ processed \in Seq(Message)
  /\ entered \subseteq Message
  /\ failed \subseteq Message /\ discarded \subseteq Message
  /\ completed \subseteq Message /\ exposed \subseteq Message

\* Where a message can be in this life of the service, oldest place first.
Places == processed \o processingFifo \o InFlight \o ingestionFifo

\* Every message that entered this life of the service is in exactly one
\* place, or its processing failed, or it was displaced and the overflow
\* counters of /metrics account for it: none is lost between two stages and
\* none is processed twice.
Conserved ==
  phase /= "down" =>
    /\ IsInjective(Places)
    /\ ToSet(Places) = entered \ (failed \cup discarded)
    /\ failed \cup discarded \subseteq entered
    /\ failed \cap discarded = {}
    /\ overflowCount = Cardinality(discarded)

\* Where a message that is not completed has to be: in the log, or with a
\* compaction that has archived it and is to rewrite it.
Stored ==
  ToSet(log) \cup
    IF compaction \in {"archived", "opened"} THEN ToSet(kept) ELSE {}

\* As long as no write fails, what has been persisted and is not completed is
\* in the log or about to be rewritten, with the index of the same opinion:
\* but for a compaction's last steps, a crash costs only what is still before
\* persist().  Two kinds of messages are excepted, one by one (exposed): those
\* being written while a compaction collected the pending entries, as it may
\* archive and delete what it has not seen, and those written after such a
\* write has shifted the offsets of the new segment (misplaced).
DurableUntilCompleted ==
  phase = "running" /\ ~ logBroken =>
    /\ \A m \in Message \ exposed : m \in ToSet(log) <=> m \in DOMAIN index
    /\ \A m \in (ToSet(processingFifo) \cup ToSet(ioTaskQueue) \cup failed) \ exposed :
         m \in Stored /\ (m \in ToSet(log) => index[m] = "pending")
    /\ \A m \in ToSet(processed) \ (Stored \cup exposed) : m \in completed

\* Messages of one source are processed in the order they were received,
\* the recovered ones included
\* (tests/property/message-ordering.property.test.ts:5-6).
SourceOrder ==
  \A i, j \in 1 .. Len(processed) :
    i < j /\ SourceOf[processed[i]] = SourceOf[processed[j]] =>
      \E k, l \in 1 .. Len(acknowledged) :
        k < l /\ acknowledged[k] = processed[i] /\ acknowledged[l] = processed[j]

\* A message that is queued while the service keeps running is processed, or
\* its processing fails, or a newer message displaces it.
QueuedIsProcessed ==
  \A m \in Message :
    phase = "running" /\ m \in ToSet(ingestionFifo \o InFlight \o processingFifo)
      ~> \/ m \in ToSet(processed) \cup failed \cup discarded
         \/ phase /= "running"

=============================================================================
