# A TLA+ model of NodeMQ

NodeMQ is a sensor publish/subscribe service: devices `POST /ingest` messages,
clients hold a Server-Sent-Events connection (`GET /subscribe`) and are sent
the messages whose topic matches one of their patterns. Messages are logged on
disk before they are processed, and a ring of recent messages per topic is
replayed to new subscribers. Everything runs on one Node.js event loop:
handlers and the bodies of worker loops are atomic between their awaits, and
interleave at every await.

The repository also holds the Python demo of CoreModel
(`docs/coremodel-ADI-Demo`, here `demo/`): clients that attach simulated devices
to the buses of a virtual machine, and the devices: clocks on I2C, SPI and CAN,
USB keyboards, and the measurement schedule of a MAX30123. Paths below are
relative to the repository.

Contents: 1 inventory, 2 plan, 3 modules and code, 4 runs, 5 bounds,
6 fairness, 7 proofs, 8 where code and documentation disagree, 9 what is not
modelled.

## 1. Inventory

| Component | State | Operations |
| --- | --- | --- |
| FIFO queue (`src/utils/fifo.ts`) | slots, head, tail, count, overflow counter | push, pop, drain, clear, resetOverflowCount; two policies when full |
| Replay buffer (`src/utils/topic-message-buffer.ts`) | topic -> ring (slots, head, count) | push, getForPattern, clear |
| I/O task queue (`src/utils/io-task-queue.ts`) | a bounded list | push (refuses when full), pop |
| Topic manager (`src/services/topic-manager.ts`) | client -> patterns, pattern -> clients, cache of split patterns | subscribe, unsubscribe, unsubscribeAll, getMatchingSubscribers, matchTopic |
| SSE connection manager (`src/services/sse-connection-manager.ts`) | client -> response and patterns, client -> delivered ids | addClient, removeClient, subscribe, unsubscribe, broadcast, heartbeat, the `close` listener |
| Parallel processor (`src/services/parallel-processor.ts`) | running flag; reads the queues | Worker 0 (processing), Worker 1 (I/O tasks) |
| Service (`src/index.ts`) | both FIFOs, I/O queue, replay buffer | ingest and subscribe handlers, ingestion worker, start, recovery, stop |
| Message log (`src/services/message-log.ts`) | segment files, index file, index in memory, write lock, batch | append, updateStatus, flush, compact, initialize |
| Persistence (`src/services/message-persistence.ts`) | compaction timer | persist, markCompleted, purgeStaleMessages, close |
| Health monitor (`src/services/health-monitor.ts`) | connection counter, latencies, alerts | increment/decrementConnections, statistics |
| Configuration manager (`src/services/config-manager.ts`) | current configuration, watcher, debounce timer | load, reload, callbacks |
| Worker pool (`src/services/worker-pool.ts`) | threads, task queue | spawn, respawn, process, shutdown |
| Retry utilities (`src/utils/retry.ts`) | id -> retry record | enqueue, getReadyMessages, remove; not called by the service |
| Topic registry (`src/services/topic-registry.ts`) | topic -> last seen sensor | register, queries |
| Sensor ingestion (`src/services/sensor-ingestion-service.ts`) | none | validates a request, builds a message |
| CoreModel Python client (`demo/python-examples/coremodel.py`) | receive and send queue, interfaces with a queue and a busy state each, device list, the query under way | connect, list, attach, main loop, detach, disconnect; classes for UART, I2C, SPI, GPIO, USBH, CAN |
| CoreModel thread client (`demo/coremodel.py`) | connection, attached objects, device list, stop event; a thread | list, attach, run, stop, teardown; calls from the main thread |
| RTC programs (`demo/python-examples/coremodel_rtc.py` and the three programs that use it) | time, two alarms, control and status; memory; per bus the state of a transaction | the callbacks of I2C, SPI, CAN; `update_alarms` |
| Older I2C clock (`demo/examples/i2c-ds3231-rtc`) | plain registers | start, write, read, stop |
| USB keyboards (`demo/python-examples/coremodel-usbh.py`, `demo/examples/usbh`) | endpoint 0, paused endpoints | reset, transfer, pause, ready |
| MAX30123 demo (`demo/examples/spi-adi`) | registers, timer, sample list | `Sequencer`, `create_Data`, the file |

How they interact:

    POST /ingest -> ingestionFifo -> ingestion worker (awaits persist())
      -> processingFifo -> Worker 0: topicBuffer.push, broadcast,
                                     'mark-completed' task
    GET/POST /subscribe -> SSE and topic manager, 'serve-history' task
    ioTaskQueue -> Worker 1: markCompleted | replay to one client
    timers: heartbeat, compaction of the log; file watcher: hot reload
    'close' event of a connection: removeClient, decrementConnections

    virtual machine <-TCP-> Python client: rxbufs -> interface -> callbacks
                                           of a device -> txbufs
    virtual machine <-> C library <-> thread (callbacks) and main thread
    registers -> Sequencer() -> create_Data() -> file

What is hard about it, and what makes each part correct:

* **Rings.** Redundant fields and wrap-around. Correct: a FIFO is a bounded
  queue; a replay ring holds the last N messages in order.
* **Connections.** A client id is chosen by the client and may be used by a
  second connection while the first is open; removals come from failed writes,
  heartbeats, late `close` events. The relation of clients and patterns is
  stored twice. Correct: the tables agree, a subscriber is a client, a client
  is open, every connection is counted once.
* **Replay against live stream.** The subscription takes effect at once, its
  replay when Worker 1 gets to it; broadcasts, evictions, reconnects and hot
  reloads come in between. Correct: no message falls between the two.
* **The pipeline.** Four places a message can be in, three bounded queues with
  two policies, failing writes, failing processing, restarts. Correct: every
  message is in one place or accounted for; what is on disk and unfinished
  comes back; per-source order is kept.
* **The log.** Appends, batch flushes and the compaction share a promise chain
  as a lock, streams that compaction closes and reopens, and files it renames.
  Correct: a pending message survives a compaction, even one that overlaps the
  append of another; nobody waits for ever.
* **The Python client.** A callback may stall a packet or take half of it while
  other packets of its interface queue up; the kernel takes part of what is
  sent; a device list comes in pages. Correct: each interface answers in the
  order asked, a list is whole, nobody waits for an answer that cannot come.
* **The thread client.** Callbacks run in one thread while the main thread
  calls the same library, stops the thread and tears everything down. Correct:
  nothing is closed under the thread, and a stop ends.
* **Devices.** A register holds one of two meanings by a bit of another, an
  address wraps, a transfer comes in pieces, acknowledgements gate the next
  frame. Correct: an alarm rings on its day and until acknowledged, registers
  read back, one CAN answer is under way, a data stage serves its request.
* **The schedule.** Dividers, sequences and restarts. Correct: the FIFO holds
  what the registers ask for, in the order of time.

The hazards at their lines are in `PROJECT.json`.

## 2. Plan

Done, in the order of importance to a subscriber and to a message:

1. `FIFO` and its abstract queue `BoundedQueue`; proofs.
2. `TopicManager`, `SSEConnections` (which composes it); proofs.
3. `TopicMatch`, the matching algorithm on its own; proofs.
4. `TopicHistory` (abstract) and `TopicBuffer` (the rings); proofs.
5. `Delivery`, which composes `SSEConnections`, `TopicHistory` and the I/O
   task queue; proofs.
6. `Pipeline`, the way of a message over restarts, with the log as a whole and
   the compaction in steps; proofs.
7. `MessageLog`, the log await by await; proofs.
8. The devices: `DsRtc`, the clock, under `RtcSpi`, `RtcI2C` and `RtcCan`; the
   abstract `RegisterFile`; the keyboards; `Devices`, which composes them;
   proofs.
9. `Sequencer`, the schedule of the MAX30123; proofs.
10. The two CoreModel clients and `Clients`, which composes them; proofs.

What would come next:

* segments in `MessageLog`: rotation, offsets, the numbering after a
  compaction, the batch threshold of a flush;
* an abstract log (append, complete, recover, and what a compaction may cost)
  that `MessageLog` implements and that `Pipeline` uses, replacing its own
  account of the log;
* `WorkerPool`, `RetryQueue` and the debounce of `ConfigManager`, should the
  service come to depend on them, and the order of the steps in `start` and
  `stop`.

## 3. Modules and code

`FIFO` has the fields of the class as variables and one action per method; a
push is three actions by the way it takes (room, reject, discard).
`BoundedQueue` is what callers rely on; `FIFO` implements it under the mapping
`queue <- toArray`. `QueueOps` has the discard-oldest push as an operator for
the two FIFOs of `Pipeline`, and `Selection` what `filter()` of an array
returns, as a recursive function that proofs can reason about.

`TopicMatch` runs the loop of `matchTopic` one iteration a step; a pattern is a
sequence of levels. `TopicManager` has the two maps and the cache; a map is a
function on the keys it holds, so that "deletes the entry when the set is
empty" is part of the state. Whether a pattern matches a topic is the constant
relation `Matching`.

`SSEConnections` adds the client table, the delivery record, the connection
counter and the life of each response object (idle, up, gone with `close`
pending, closed). A handler or callback is one action. Whether a write to a
connection that is gone throws is external (node:http) and left open.

`TopicBuffer` has the rings and the insertion order of the map; `TopicHistory`
is the last-N history they implement and is what `Delivery` uses.

`Delivery` composes: `HandleSubscribe` is `Connect` with its history tasks,
`Process` is Worker 0's body (buffer, broadcast, completion task), `WorkerOne`
the I/O tasks, `HotReload` the configuration callback. `history` is the
service's buffer and `workerHistory` the one Worker 1 was constructed with.
`since`, `asked`, `owed`, `dropped` and `written` only record what happened;
`written` is, for each response, the set of messages sent as live and as
history events, `asked` the patterns ever subscribed under a client id.

`Pipeline` has the queues, the message whose `persist()` is awaited, the log
(what is on disk, in order) and the index in memory. `PersistFails` covers a
disk error and what follows from it: the write lock is a rejected promise from
then on. `Start` is `initialize` and `recoverPendingMessages`: the index is
read from disk, where every entry is pending, as `updateStatus` never writes.
`StartFails` is a startup compaction that does not get to its end.

The hourly compaction of `Pipeline` starts whenever its timer fires, also while
a message is being persisted, and takes a step at each point where something
else can find the log in another state: `CompactBegin` collects the pending
entries (`kept`), `CompactArchive` ends the streams, renames the files and
clears the index, `CompactOpen` opens new ones, `CompactRewrite` writes what was
collected, or `CompactFails`. A `persist()` that overlaps it ends in one of
three ways: in time (`PersistSucceeds`), in the archive (`PersistArchived`: it
returns success, and its message is gone unless the compaction had seen its
index entry) or, with the streams closed, with an error that breaks the lock
(`PersistFails`). A write that returns when the new segment is open adds its
length to the size of that segment; from then on (`misplaced`) entries are
indexed where they are not. `exposed` remembers, message by message, which
writes were under way while a compaction collected and which were indexed at
such an offset.

`MessageLog` has the same log write by write. It numbers the generations of the
files: `liveSegment` and `liveIndex` say which generation has the names that a
restart looks for. The write lock is `free`, held, or `broken` (rejected).
`compact` is a step per await: reading the pending entries, ending the streams,
the renames, the new files, the flush of the batch. `serving` says that
`initialize()` is over: a restart starts with a compaction, and nothing is
appended or updated before it ends; if it fails the service does not come up.
`shifted` is the size of the segment being wrong; what is written then has an
index entry that points nowhere (`Pointer`). `overtaken` remembers the messages
whose own append was under way while a compaction collected; `whole` that every
compaction that renamed a file has rewritten its entries, and that no append has
shifted the offsets.

`DsRtc` is the clock of `coremodel_rtc.py` as operators on a record: reading and
writing each register, the alarms with their masks, the status flags. Its time
is one of a few `Instants` that the system clock moves to between any two bus
calls. `RtcDevice` holds the record; `RtcSpi` adds the select line, the register
address and the memory, one action per transfer; `RtcI2C` start, chunks of
writes and reads, stop; `RtcCan` the frame handlers and `ebusy`, with the frames
under way. `Ds3231` is the older clock. `RegisterFile` is what software on the
virtual machine relies on: memory, with an address that wraps. `ControlEndpoint`
is the setup, data and status stage of endpoint 0 as operators, `UsbKeyboard`
the keyboard with paused endpoints and the reply buffer of `USBH_t`, `UsbhClass`
the older one. A run of `Devices` is one of the programs.

`Sequencer` has an action per iteration of a loop of the program: one
measurement of manual mode, of a frame, of the place after the last frame; one
value; one line. The registers are decoded by operators named as in the source.

`CoreModelClient` has the state of the class (`rxbufs`, `txbufs`, the queue and
busy state of each interface, the query) and the place in `processfds`; one
action per step of its loop, one per call of the program, and the virtual
machine with its two streams, which keep order. `CoreModelThread` interleaves
the main thread and the thread at the calls of the C library, which is
external. `Clients` says that a program has one or the other.

Definitions named "Mutant of X" above a definition X are X with a plausible
bug. They occur in no specification and serve to see that a property notices.

## 4. Runs

| Run | Shows |
| --- | --- |
| `fifo` | The ring agrees with itself (`RingConsistent`) and implements the bounded queue under both policies. |
| `topic_buffer` | Rings are readable from the derived start position and implement the last-N history through wrap-around and `clear`. |
| `topic_match` | `matchTopic` ends and returns what its comment says; `LoopInvariant` says why. |
| `sse` | Tables, clients and counter stay consistent through reconnects under an open id, failed writes, late `close` events. |
| `delivery` | Two clients with overlapping patterns: no live message is missed, the delivery record is that of the present connection, no history falls between replay and stream, and nothing is written of a topic that was never asked for under the client's id (`NothingUnasked`). |
| `delivery_live` | The replay arrives and processed messages are marked completed, unless the full I/O queue refused the task; what follows a hot reload is excused (section 8). |
| `pipeline` | Conservation, durability and source order over overflow, failing writes and processing, crash, restart and compactions that overlap all of it; what is queued is processed, fails or is displaced. While no write has failed, `DurableUntilCompleted` excepts only the messages of `exposed`, one by one. |
| `log` | A message that was appended and is not completed is retained whatever other appends, disk errors and crashes do, but for the three cases section 8 tells of: its own append overlapped a compaction (`overtaken`), such an append shifted the offsets, a compaction ended between its renames and its rewrite (`whole`). Whatever fails, appends and compactions return. |
| `devices` | Six programs, each under any order of bus calls: alarm flags stay until acknowledged and rise in a poll only, a clock rings on its day only, the SPI clock implements `RegisterFile`, one CAN answer is under way, a data stage returns the descriptor asked for. |
| `sequencer` | The samples are those the registers ask for, in the order of time, whatever the dividers and restarts; the program ends and writes a line for each. |
| `clients` | Answers keep the order of the requests through stalls, half-sent buffers and lost connections; lists are whole; nothing is torn down under the thread; waits end. |
| `sse_own_close` | A counterexample; section 8. |

`CHECK_DEADLOCK FALSE` stands where the model may stop: the match has returned,
every message has been processed and every response used, the log's bounds are
reached, a demo program has ended or died of an exception.

## 5. Bounds

* `fifo`: capacity 3 and two items reach every pair of positions and every
  wrap; the overflow counter is cut at 2 (`MaxOverflow`), which no other field
  depends on.
* `topic_buffer`: rings of 3, two topics, two messages: full, partly filled and
  wrapped rings side by side. No bound on the number of pushes.
* `topic_match`: all patterns of up to four levels over two plain levels, `+`
  and `#`, against all topics of up to four levels: `#` in every position, and
  standing for no level.
* `sse`: two clients, two overlapping patterns, three responses, so that an id
  is reused twice and a late `close` meets the third connection. Clients and
  responses are symmetric.
* `delivery`: two clients, two responses, two messages on two topics, of which
  one pattern matches both and the other one, one message of history per topic, an I/O queue of two and one POST or DELETE request
  (`MaxRequests`), which is enough for a task to wait behind another, for a
  reconnect to find a queued task of its id, for an unsubscribe to come before
  a replay, and for the queue to refuse. Hot reloads, and messages that evict
  one another from the buffer, are in `delivery_live`, with one client, which
  frees the size for the temporal properties; symmetry, unsound for those, is
  declared in `delivery` only, which has invariants alone.
* `pipeline`: three messages of two sources, queues of 1, 2 and 1 so that each
  overflows, and two starts (`MaxStarts`), so that what the first life of the
  service leaves in the log is recovered in the second. The number of
  compactions is not bounded. For any number of starts there are the proofs.
* `log`: two messages, three compactions (`MaxGenerations` 4), one crash
  (`MaxCrashes`) at any step; the second compaction finds what the first
  rewrote, the third what the crash left.
* `devices`: three instants (1, 2 and 8 September 2024, the last at 20:00:05),
  so that a day of the week and a day of the month coincide and differ, in both
  halves of the day. Eleven SPI transfers, seven I2C writes and nine CAN frames,
  chosen for alarms by day and by date, 12-hour mode, masks, acknowledgements,
  and addresses that wrap, also within one transfer; an I2C transaction has two pieces (`MaxChunks`).
  `SramSize` is 2 (255 in the code), `BufSize` 3 (512 in `examples/usbh`, 256 in
  `python-examples`), `TrnIds` 3 (256) and
  descriptors have up to 3 bytes, so that the memory and the transaction index
  wrap and a descriptor is cut by the buffer, by the request and by the
  transfer (`Sizes`). Memory cell 255, reached only by name, is not exercised.
* `sequencer`: 84 register contents: manual and automatic mode, with and
  without restart, three sample counts, and seven settings that between them
  take every branch. `SetTime` is 0.9 s (300 s in the code): enough for sequences to
  follow one another.
* `clients`: an I2C interface beside an SPI or a UART one, two requests to each
  (`MaxRequests`), three devices in the list, so that it comes in one page or
  several; three objects, two of which the program may do without.

## 6. Fairness

`Delivery`: weak fairness of Worker 1; its loop pops a task or sleeps a
millisecond, for as long as the service runs. `Pipeline`: weak fairness of the
ingestion worker, Worker 0 and Worker 1, as of any loop of the event loop whose
body ends; a disk write ends in success or in an error. A message may be
processed or fail to be: the choice is not fair. No fairness is asked of the
compaction: `QueuedIsProcessed` does not wait for one. `MessageLog`: weak fairness of
an append under way and of a compaction under way. Nobody is obliged to connect,
ingest, append, compact, reload or crash. `TopicMatch`: the loop goes on.
`FIFO`, `TopicBuffer`, `SSEConnections` and `Devices` have safety properties
only.

`CoreModelClient`: weak fairness of the program's own steps and of the virtual
machine taking what has arrived; strong fairness of receiving and of sending
something, as the kernel may take nothing on one pass of `select` but not for
ever. Nobody is obliged to interrupt, close or cut a packet in two.
`CoreModelThread`: weak fairness of both threads, strong fairness of the return
of `coremodel_mainloop()`, which ends after its time although callbacks may go
on coming. `Sequencer`: weak fairness of the program, one loop after another.

## 7. Proofs

Proved with TLAPS, for every value of the constants under the named
assumptions of the modules:

* `Storage_proofs`, on the ring of `fifo.ts` and on the log. Of the ring:
  `RingTypeCorrect`, `RingAlwaysConsistent`, `RingImplementsQueue`. The
  invariant is types and `RingConsistent` together; `x % Capacity` for `x < 2
  * Capacity` is brought to a case distinction once (`Advance`), and the
  refinement compares `toArray` before and after each method point by point.

  Of the log: `TypeCorrect`, `PendingAlwaysRetained`,
  `IndexAlwaysMatchesFiles`, from `LogAssumption`. The invariant is
  `TypeOK /\ Shape /\ (whole => Sound)`: `Shape` relates the stage of a
  compaction to the streams, the lock and the generations, and holds whatever
  fails; `Sound` adds that the files and the index agree on every message but
  the `Loose` ones (failed, overtaken or under way), and that what a compaction
  has read and not yet rewritten (`Kept`) covers everything pending that the
  index no longer has. Without `Kept` the renames would seem to lose it; `Clean`
  says that an append that was not overtaken never writes to closed or renamed
  files, so that overlaps harm the message that overlaps and no other.
* `Topics_proofs`, on the matching and on the rings. `LoopInvariantHolds` and
  `MatchTopicCorrect` are for patterns and topics of any length; the invariant:
  both indexes are equal and all levels before them match without `#`.
  `TypeCorrect`, `RingsAlwaysReadable` and `RingsImplementHistory` rest on
  `PushRemembers`: what `toArray` returns after a push is the last N of what it
  returned before with the message appended. It needs that a ring that is not
  full starts at slot 0 and is written without a gap, which is `RingsReadable`.
* `Delivery_proofs`, first on the connections: `TypeCorrect`,
  `TablesAlwaysConsistent`, `SubscribersAlwaysConnected`, `ClientsAlwaysOpen`,
  `CountAlwaysExact`. Lemmas on the maps of `TopicManager` say what each
  operation does to one entry, and that `TablesConsistent` survives it. The
  four invariants are inductive only together with the types: a `close` event
  removes the client with the captured id whoever holds it, and that it leaves
  no dead client behind needs the owner of each response; that the counter
  never meets its floor of zero needs that it equals a cardinality.

  Then on the delivery: `DeliveryKeepsConnectionsSafe` (the invariants of the
  connections hold of the composed system); `LiveMessagesNeverMissed` and
  `RecordAlwaysMatches`. `StreamInv` adds to those two that idle responses have
  nothing written; a step is split by what it does to the stream (nothing, a
  history write, a broadcast, a new response), and `RemovalLeavesOthers` says
  that removing clients changes nothing for the others.

  `HistoryNeverLost`: `NoHistoryLost` asks what became of each message a stream
  is owed and becomes inductive as `Served`: the message has been written, is
  evicted from the buffer, or a task that brings it is queued or was dropped.
  That a task brings what it promises needs `BufferSound` (a topic with
  messages is among the keys, and holds messages of that topic only) and that
  Worker 1 reads the service's buffer until the first reload. `ReplayHolds`:
  a replay returns exactly what the buffer holds of the topics of the pattern.

  `NothingUnaskedWritten`: `AskedInv` adds to the property that every
  subscription and every queued replay was asked for, and that the buffer Worker
  1 reads, which after a reload is no longer the service's, files messages under
  their topics. A replay goes to the connection that has the client id by then;
  that the owner of its response is that id is one of the invariants above.
* `Pipeline_proofs`: `TypeCorrect`, `AlwaysConserved`, `AlwaysDurable`,
  `SourceOrderKept`, from `PipelineAssumption`, for any number of messages,
  sources and starts. The pipeline is seen as one line: processed, queued,
  being persisted, ingested. `OrderInv` says that in it, and in the line with
  the log in place of the first two, nothing repeats and each source is in the
  order of acknowledgement; `CountInv` says which messages the line holds. The
  second line is what makes a restart work: recovery re-sorts the log by source
  and cuts what exceeds the queue, so that the first line becomes a part of the
  second; a compaction that overlaps a write puts the log itself out of order,
  which the sort by time of append undoes. `IndexInv` says where the log, the
  index and a compaction have the messages: what a compaction has collected
  covers everything that is not completed (`Remaining`), but for the `exposed`.
* `Devices_proofs`: `AlwaysOneFrameInFlight`, with the transaction index in its
  range added, and `DataStageAlwaysServes`, from `UsbAssumption`: sizes are
  natural numbers, and a descriptor fits the buffer. Its invariant says that what has
  been served is what lies before `ep0ptr` in the buffer, and that the buffer
  begins with the descriptor of the latest request. It covers both keyboards:
  each action is proved once for the operators they share.

  On the clock, for any instants, bytes and transfers (`InstantsAssumption`,
  `SpiAssumption`, `I2CAssumption`, `CanAssumption`: instants are calendar
  records, what software sends is bytes, and the memory has a cell):
  `ClocksWellFormed` (registers stay in their ranges, whatever is written),
  `FlagsAlwaysSticky`, `AlwaysRingsOnItsDay`, and `ClockRefinesRegisterFile`.
  A transfer is a fold over its bytes, and what holds after it is proved by
  naming a set of clocks that the first one is in and that every byte stays in
  (`ClockInv`). The refinement needs more: which byte of a transfer is the last
  for a memory cell when the address wraps (`CellsInv`), and that a transfer that
  leaves the control register alone is shorter than one round of the registers.
* `Sequencer_proofs`: `SamplesAlwaysAsConfigured`, from `RegistersAssumption`
  (registers are bytes, the time at the start is a natural number), for any
  register contents and any number of frames and sequences. First, what one
  measurement enters: its steps are waits and samples, and `StepsCount` says how
  many are samples (a chrono measurement repeats its pulse; of the eleven
  channels those with their V-SEL bit are sampled, and RE1 never is); `EntriesMeasured` that these come to the FIFO
  in the order of time, after all that is there and not after the clock. Then how
  often each measurement has run: `Schedule` says where in a sequence each phase
  can be (which frame, which measurement of it), and `Configured` that each
  measurement has entered its samples once for each of its turns. A turn is a
  multiple of the divider in the counter of frames; that the next frame is one,
  or is not, is `QuotientNext`.
* `Clients_proofs`: `AlwaysTornDownLast`, from `ObjectsAssumption` (the objects
  differ). The invariant ties each stage of the main thread to the thread and
  to the handles: what is left to detach while leaving, whether the connection
  exists, which handle is in use. `ListsAlwaysWhole`, from `ClientAssumption`
  (the names of interfaces and of their packets are not those of queries). Its
  invariant says that at any time a query is one packet in one of `rxbufs`,
  `net`, `uplink` and `txbufs`, among any number of others, and continues the
  list where `device_list` ends; lemmas say what moving a part of one sequence
  to another does to that packet. `AnswersAlwaysInOrder`: `PacketChain` says
  that for each interface the answers the machine has, those under way to it,
  the packets waiting in the interface and those under way from the machine
  are, in this order, the requests; every step moves packets between two
  neighbours of this chain or adds to its end.
* `SequenceLemmas`: what a selection, a concatenation, a suffix and an order of
  two members of a sequence obey, and quotients. The induction theorems of the library have an
  operator as a parameter, which no installed prover can instantiate. Here
  induction is stated for a set of numbers or of sequences (`NatInduct`,
  `SeqInduct`), as is the existence of what a recursive function chooses
  (`RecursionExists`), so that facts about folds, `FlattenSeq` and filtered
  sequences are proved for any length. It works for recursive functions only:
  `RECURSIVE` operators are out of the prover's reach, and the modules that
  are proved about have none.

Every invariant and every action property of the passing runs is stated by one
of these theorems. Only model-checked is everything under fairness
(`Terminates`, `HistoryArrives`, `ProcessedCompletes`, `QueuedIsProcessed`,
`WaitersReturn`, `WaitsEnd`, `WritesEveryLine`): the prover handles neither
fairness nor ENABLED.

## 8. Where code and documentation disagree

With a counterexample among the runs:

* **A stale `close` ends a new connection** (`sse_own_close`). The listener
  `addClient` installs (`sse-connection-manager.ts:75`) removes the client by
  id. After a reconnect under the same id the late event of the old connection
  ends the new one. The documentation tells clients to reconnect
  (`docs/SUBSCRIPTION-ARCHITECTURE.md:617`).

Met while modelling, part of the models, and not given runs of their own. In the
service:

* After a hot reload `index.ts:417` replaces the buffer; Worker 1 keeps reading
  the old one, so later subscribers miss what the new one holds
  (`docs/SUBSCRIPTION-ARCHITECTURE.md:149`, `README.md:631`). `NoHistoryLost`
  and `HistoryArrives` speak of what comes before a reload.
* Completed messages come back: `updateStatus` (`message-log.ts:392`) is in
  memory only, so the startup purge (`index.ts:405`) finds nothing completed and
  all are processed again.
* One failed write loses the log: the rejected promise stays the write lock
  (`message-log.ts:263`); the next compaction archives the files and its flush
  rejects (`tests/property/failed-message-retention.property.test.ts:5-6`).
* The connection counter counts open responses, not the "SSE clients connected"
  of `docs/API-ENDPOINTS.md:409`: an id in use twice counts twice.
* A reconnect under the id of an open connection inherits its subscriptions
  (`sse-connection-manager.ts:56`), and may be sent topics it did not ask for
  (`tests/property/topic-subscription.property.test.ts:5-8`).
* `unsubscribeAll` leaves split patterns in the cache that `unsubscribe` would
  remove (`topic-manager.ts:95`, `106-122`).
* A queued history task is served after its client has unsubscribed
  (`parallel-processor.ts:177`,
  `tests/property/unsubscribe.property.test.ts:5-6`).
* `docs/SUBSCRIPTION-ARCHITECTURE.md:174,487` give the buffer size as a total
  over all topics; the code and `README.md:627-629` have it per topic.
* The result of `persist()` is ignored (`index.ts:164`), so a message that is
  not on disk is processed and marked
  (`tests/property/persist-before-process.property.test.ts:5-6`).
* Recovery pushes without yielding and displaces what exceeds the processing
  queue (`index.ts:430-441`, comment at `872`).
* The "Queue Full (503)" answer (`docs/API-ENDPOINTS.md:87`) cannot occur: both
  FIFOs discard their oldest message (`index.ts:382-390`, `520`).
* `compact` ends the streams without the write lock (`message-log.ts:493-501`),
  so an append at that time fails and breaks the lock ("Thread-safe", `217`).
* An append can succeed and be lost. `compact` collects the pending entries
  (`message-log.ts:490`) and clears the index (`513`) without the write lock; an
  append that completes in between, and that `compact` did not see, is archived
  with the other files, dropped from the index and deleted (`533-543`). Nothing
  fails; the message is still processed, but a crash before that loses it
  ("Thread-safe - can be called from multiple workers", `217`).
  `PendingIsRetained` and `DurableUntilCompleted` except such a message
  (`overtaken`, `exposed`) and show that no other is harmed.
* Such an append can also harm others: if it returns when the new segment is
  open it adds its length to `currentSegmentSize` (`message-log.ts:299`) after
  `compact` has set it to 0 (`515`). All that is written to that segment
  afterwards is indexed at too large an offset and cannot be read after a
  restart.
* While `stop()` waits for the server to close, `POST /ingest` is answered with
  200, but the loops have ended and nothing is persisted (`index.ts:891-936`).
* A full I/O queue refuses tasks and no caller looks (`index.ts:225`): the
  replay, or the mark, is lost.
* A batch kept "for retry" (`message-log.ts:376`) finds the lock rejected.
* A crash inside a compaction leaves the pending messages in `archive.*` files,
  which `initialize` never reads (`message-log.ts:502-515`).
* The idle back-off doubles a minimum of 0 ms (`index.ts:36`, `175`).

In the clients of the demo (`coremodel.py` is that of `python-examples`):

* `process_rxq` hands on a packet whose end has not arrived yet and reads the
  end as a header.
* A failed attach returns a handle: `conn_if` is never `CONN_QUERY` when it is
  compared; a later `detach` raises.
* No class has `ready()`, so an interface that has stalled stays stalled; one
  that took part of a packet never takes the rest.
* `disconnect` removes from the list it iterates over, and what `detach` queues
  is never sent; packets read just before the end of the stream are not
  processed.
* In `demo/coremodel.py` a NULL device list is compared with `None` and raises.

In the devices:

* `hours & 40` (decimal) in the clock takes hours such as 8 for 12-hour mode;
  its `hours_24` makes every a.m. hour into 0; Saturday is day 0.
* `write_control` raises `AttributeError`. Register 0xD writes alarm 1.
* An I2C write that begins with its register in one piece lands one register
  late.
* The CAN clock's alarm by day of the week leaves the date at 1, so that it may
  ring by date.
* The reply buffer of `USBH_t` never shrinks: after a long transfer a short one
  sends more data than its length says. A SETUP that stalls is not answered.

In the sequencer:

* `RE1_VSEL` is decoded with a wrong shift, and RE1 is never measured; M6 never
  runs in automatic mode; `SEQ_RESTART` acts inverted.
* The offset samples of an arbitrary pulse get no value, and the program ends
  with `IndexError`: the second disjunct of `WritesEveryLine`.

## 9. What is not modelled, and why

* Segment rotation, the values of offsets and the batch threshold of a flush:
  all segments of a generation are one file. An offset is right or leads nowhere
  (`Pointer`); that a wrong one could by chance be the place of another entry of
  the same length, or that a shift of the size could make a rotation early, is
  left out. `getPendingMessages` would compare offsets, but only among entries
  of one id, and an index has one entry for each.
* Errors of reads and renames: only writes fail.
* `ConfigManager` beyond the effect of one successful reload; `WorkerPool`,
  which the parallel processor starts and gives no tasks; `RetryQueue`, which
  nothing calls; the order of the steps inside `start` and `stop`.
* What grows without a bound: topics of the replay buffer, split patterns of
  clients that disconnected, delivered ids of a long connection.
* `runProcessingWorker`, the single-threaded alternative to Worker 0: the switch
  for it is never off.
* Validation, topic building, JSON, logging, metrics and latency statistics, the
  topic registry, static pages: functions of one request, without state that
  the properties are about.
* Demos without behaviour of their own: the class of the accelerometer cannot
  be constructed, the callbacks of `spi-ds3234-rtc.py` raise, `can-cr3020.py`
  sees every frame as extended and only acknowledges. The C sources are the
  library the thread client takes as external, and a telemetry sender.
* Of the Python client: what follows a packet cut in two (`framed`), calls made
  from callbacks, and the rate of the main loop. Of the devices: console text,
  keys (the keyboard never has a report), the formulas behind a sample's value.
* Dashboards and scripts: clients of the service.
* Time. Heartbeats, compactions and reloads may happen at any moment.
