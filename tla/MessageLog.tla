----------------------------- MODULE MessageLog -----------------------------
(***************************************************************************)
(* The message log of src/services/message-log.ts at the granularity of    *)
(* its awaits: appends (one at a time, by the ingestion worker), the       *)
(* compaction (hourly, and once at startup), status updates, crashes.      *)
(*                                                                         *)
(* A compaction renames the files to archive.* and starts new ones under   *)
(* the old names.  The files are numbered by generation: liveSegment and   *)
(* liveIndex say which generation has the names a restart will look for.   *)
(* An index line points into the segment of a generation; in a segment of  *)
(* another one its offset leads nowhere (None).                            *)
(*                                                                         *)
(* Left out: the rotation of a full segment (all segments together are one *)
(* file here), and that a batch of a hundred entries ends a flush.         *)
(***************************************************************************)
EXTENDS Naturals, Functions, FiniteSets

CONSTANTS
  Message,        \* message ids
  DiskErrors,     \* whether writes fail
  MaxGenerations, \* bound on the number of compactions
  MaxCrashes      \* bound on the number of crashes

None == 0            \* no file has the name, or the stream is null
NoMessage == "none"  \* no append is under way
Generation == 1 .. MaxGenerations

ASSUME LogAssumption ==
  /\ MaxGenerations \in Nat \ {0}
  /\ MaxCrashes \in Nat
  /\ NoMessage \notin Message
  /\ DiskErrors \in BOOLEAN

VARIABLES
  \* On disk.
  entries,      \* generation -> messages with an entry in its segment
  lines,        \* generation -> (message -> generation its index line points to)
  liveSegment,  \* the generation of the file messages.000001
  liveIndex,    \* the generation of the file messages.index
  \* In memory.
  index,        \* message -> [status, at]: status and generation of its entry
  stream,       \* the generation the streams write entries to, or None: closed
  shifted,      \* the size it believes its segment to have is too large
  lock,         \* the write lock: "free", "append", "flush" or "broken"
  appending,    \* [pc, message, at]: the append under way; at is the
                \* generation its current write goes to
  compaction,   \* where compact() is
  unread,       \* the index entries getPendingMessages has yet to look at
  pending,      \* what it has found
  writeBatch,   \* the entries to be flushed
  newest,       \* the newest generation
  crashes,
  serving,      \* initialize() is over: requests, workers and timers run
  \* What the properties remember.
  persisted,    \* the messages whose append succeeded
  refused,      \* the messages whose append failed
  done,         \* the messages marked completed
  overtaken,    \* the messages whose append was under way while a compaction
                \* collected the pending entries
  whole         \* each compaction that renamed a file has rewritten its
                \* entries, and no append has shifted the offsets

disk == <<entries, lines, liveSegment, liveIndex, newest>>
compacting == <<compaction, unread, pending, writeBatch>>
life == <<crashes, serving>>
ghosts == <<persisted, refused, done, overtaken, whole>>
vars == <<disk, index, stream, shifted, lock, appending, compacting, life, ghosts>>

Idle == [pc |-> "idle", message |-> NoMessage, at |-> None]

Init ==
  /\ entries = [g \in Generation |-> {}]
  /\ lines = [g \in Generation |-> << >>]
  /\ liveSegment = 1 /\ liveIndex = 1 /\ newest = 1
  /\ index = << >> /\ stream = 1 /\ shifted = FALSE /\ lock = "free"
  /\ appending = Idle
  /\ compaction = "idle" /\ unread = {} /\ pending = {} /\ writeBatch = {}
  /\ crashes = 0 /\ serving = TRUE /\ persisted = {} /\ refused = {} /\ done = {}
  /\ overtaken = {} /\ whole = TRUE

\* map.set(k, v).
Put(map, k, v) == [j \in DOMAIN map \cup {k} |-> IF j = k THEN v ELSE map[j]]

\* readMessage finds the entry of m where its index entry says it is.
Readable(m) ==
  index[m].at = liveSegment /\ liveSegment /= None /\ m \in entries[liveSegment]

\* Where the index says an entry is that was written to generation g.
Pointer(g) == IF shifted THEN None ELSE g

-----------------------------------------------------------------------------
(* append -> writeEntryDirect                                              *)

\* append(m) waits for the writes before it.
BeginAppend(m) ==
  /\ appending = Idle
  /\ m \notin persisted \cup refused
  /\ serving
  /\ appending' = [pc |-> "waiting", message |-> m, at |-> None]
  /\ overtaken' = IF compaction = "reading" THEN overtaken \cup {m} ELSE overtaken
  /\ UNCHANGED <<disk, index, stream, shifted, lock, compacting, life, persisted,
                 refused, done, whole>>

\* The append rejects, and with it the promise the next write waits for.
AppendFails ==
  /\ lock' = "broken"
  /\ refused' = refused \cup {appending.message}
  /\ appending' = Idle
  /\ UNCHANGED <<entries, liveSegment, liveIndex, newest, stream, shifted, compacting,
                 life, persisted, done, overtaken, whole>>

\* The promise it waits for was rejected.
AppendRefused ==
  /\ appending.pc = "waiting"
  /\ lock = "broken"
  /\ AppendFails
  /\ UNCHANGED <<index, lines>>

\* With the lock, writeStream.write(line).
AppendWrite ==
  /\ appending.pc = "waiting"
  /\ lock = "free"
  /\ stream /= None
  /\ lock' = "append"
  /\ appending' = [appending EXCEPT !.pc = "writing", !.at = stream]
  /\ UNCHANGED <<disk, index, stream, shifted, compacting, life, ghosts>>

\* writeStream is null: compact() has closed it.
AppendWriteThrows ==
  /\ appending.pc = "waiting"
  /\ lock = "free"
  /\ stream = None
  /\ AppendFails
  /\ UNCHANGED <<index, lines>>

\* The entry is written and indexed in memory; indexStream.write(line).
AppendWritten ==
  /\ appending.pc = "writing"
  /\ entries' = [entries EXCEPT ![appending.at] = @ \cup {appending.message}]
  /\ index' = Put(index, appending.message,
                  [status |-> "pending", at |-> Pointer(appending.at)])
  /\ IF stream = None
     THEN /\ lock' = "broken"
          /\ refused' = refused \cup {appending.message}
          /\ appending' = Idle
          /\ UNCHANGED lines
     ELSE /\ lines' = [lines EXCEPT ![liveIndex] =
                         Put(@, appending.message, Pointer(appending.at))]
          /\ appending' = [appending EXCEPT !.pc = "indexing", !.at = stream]
          /\ UNCHANGED <<lock, refused>>
  /\ UNCHANGED <<liveSegment, liveIndex, newest, stream, shifted, compacting, life,
                 persisted, done, overtaken, whole>>

\* The index line is written too: the append resolves.  The length of its
\* entry is added to the size of the segment, which by now may be a newer one
\* than the entry is in.
AppendReturns ==
  /\ appending.pc = "indexing"
  /\ persisted' = persisted \cup {appending.message}
  /\ appending' = Idle
  /\ shifted' = (shifted \/ appending.message \notin entries[newest])
  /\ whole' = (whole /\ appending.message \in entries[newest])
  /\ UNCHANGED <<disk, index, stream, compacting, life, refused, done, overtaken>>

\* Mutant of AppendDone: the lock is kept.
AppendDoneLocked == AppendReturns /\ UNCHANGED lock

AppendDone == AppendReturns /\ lock' = "free"

\* The index lines without the one that is being written.
LineLost ==
  [lines EXCEPT ![appending.at] = Restrict(@, DOMAIN @ \ {appending.message})]

\* The disk reports an error for the entry or for its index line.
AppendDiskError ==
  /\ DiskErrors
  /\ \/ appending.pc = "writing" /\ UNCHANGED lines
     \/ appending.pc = "indexing" /\ lines' = LineLost
  /\ AppendFails
  /\ UNCHANGED index

\* Mutant of UpdateStatus: a message is completed before it was processed.
UpdateStatusEarly(m) ==
  /\ m \notin done
  /\ index' = IF m \in DOMAIN index
              THEN [index EXCEPT ![m].status = "completed"] ELSE index
  /\ done' = done \cup {m}
  /\ UNCHANGED <<disk, stream, shifted, lock, appending, compacting, life,
                 persisted, refused, overtaken, whole>>

\* updateStatus(m, 'completed'), once m has been processed: in memory only,
\* and without effect when m has no index entry.
UpdateStatus(m) ==
  /\ serving
  /\ m \in (persisted \cup refused) \ done
  /\ index' = IF m \in DOMAIN index
              THEN [index EXCEPT ![m].status = "completed"] ELSE index
  /\ done' = done \cup {m}
  /\ UNCHANGED <<disk, stream, shifted, lock, appending, compacting, life,
                 persisted, refused, overtaken, whole>>

-----------------------------------------------------------------------------
(* compact                                                                 *)

\* The hourly timer.  flush() rejects when an earlier batch is still there,
\* as the lock is broken then; otherwise getPendingMessages takes the index.
CompactStart ==
  /\ serving
  /\ compaction = "idle"
  /\ newest < MaxGenerations
  /\ writeBatch = {}
  /\ compaction' = "reading"
  /\ unread' = DOMAIN index
  /\ pending' = {}
  /\ overtaken' = overtaken \cup ({appending.message} \ {NoMessage})
  /\ UNCHANGED <<disk, index, stream, shifted, lock, appending, writeBatch, life,
                 persisted, refused, done, whole>>

\* initialize() has loaded the index; the startup compaction does the same.
StartupCompact ==
  /\ compaction = "startup"
  /\ newest < MaxGenerations
  /\ compaction' = "reading"
  /\ unread' = DOMAIN index
  /\ pending' = {}
  /\ UNCHANGED <<disk, index, stream, shifted, lock, appending, writeBatch, life, ghosts>>

\* Mutant of CompactRead: only what was appended before the first compaction
\* is found.
CompactReadSkips(m) ==
  /\ compaction = "reading"
  /\ m \in unread
  /\ unread' = unread \ {m}
  /\ pending' = IF index[m].status /= "completed" /\ Readable(m) /\ index[m].at = 1
                THEN pending \cup {m} ELSE pending
  /\ UNCHANGED <<disk, index, stream, shifted, lock, appending, compaction, writeBatch,
                 life, ghosts>>

\* One entry is looked at, and read unless it is completed by now.
CompactRead(m) ==
  /\ compaction = "reading"
  /\ m \in unread
  /\ unread' = unread \ {m}
  /\ pending' = IF index[m].status /= "completed" /\ Readable(m)
                THEN pending \cup {m} ELSE pending
  /\ UNCHANGED <<disk, index, stream, shifted, lock, appending, compaction, writeBatch,
                 life, ghosts>>

\* All are read: both streams are ended.
CompactClose ==
  /\ compaction = "reading"
  /\ unread = {}
  /\ compaction' = "archiving"
  /\ stream' = None
  /\ UNCHANGED <<disk, index, shifted, lock, appending, unread, pending, writeBatch,
                 life, ghosts>>

\* The segment is renamed to archive.*, over an older archive.
CompactArchiveSegment ==
  /\ compaction = "archiving"
  /\ liveSegment /= None
  /\ liveSegment' = None
  /\ UNCHANGED <<entries, lines, liveIndex, newest, index, stream, shifted, lock,
                 appending, compacting, life, ghosts>>

\* Mutant of CompactArchiveIndex: the index in memory is not cleared.
CompactArchiveIndexOnly ==
  /\ compaction = "archiving"
  /\ liveSegment = None
  /\ liveIndex' = None
  /\ compaction' = "opening"
  /\ UNCHANGED <<entries, lines, liveSegment, newest, index, stream, shifted, lock,
                 appending, unread, pending, writeBatch, life, ghosts>>

\* So is the index, the last of the files; the index in memory is cleared.
CompactArchiveIndex ==
  /\ compaction = "archiving"
  /\ liveSegment = None
  /\ liveIndex' = None
  /\ index' = << >>
  /\ compaction' = "opening"
  /\ UNCHANGED <<entries, lines, liveSegment, newest, stream, shifted, lock, appending,
                 unread, pending, writeBatch, life, ghosts>>

\* New files, and the pending entries into the batch.
CompactOpen ==
  /\ compaction = "opening"
  /\ newest' = newest + 1
  /\ liveSegment' = newest' /\ liveIndex' = newest' /\ stream' = newest'
  /\ shifted' = FALSE
  /\ writeBatch' = pending
  /\ compaction' = IF pending = {} THEN "idle" ELSE "flushing"
  /\ serving' = (serving \/ pending = {})
  /\ UNCHANGED <<entries, lines, index, lock, appending, unread, pending,
                 crashes, ghosts>>

\* flush() gets the lock.
FlushBegin ==
  /\ compaction = "flushing"
  /\ lock = "free"
  /\ lock' = "flush"
  /\ compaction' = "writing"
  /\ UNCHANGED <<disk, index, stream, shifted, appending, unread, pending, writeBatch,
                 life, ghosts>>

\* One entry of the batch and its index line; pending counts them down.
FlushEntry(m) ==
  /\ compaction = "writing"
  /\ m \in pending
  /\ pending' = pending \ {m}
  /\ entries' = [entries EXCEPT ![stream] = @ \cup {m}]
  /\ index' = Put(index, m, [status |-> "pending", at |-> Pointer(stream)])
  /\ lines' = [lines EXCEPT ![liveIndex] = Put(@, m, Pointer(stream))]
  /\ UNCHANGED <<liveSegment, liveIndex, newest, stream, shifted, lock, appending,
                 compaction, unread, writeBatch, life, ghosts>>

\* The batch is written: the archives are deleted.
FlushDone ==
  /\ compaction = "writing"
  /\ pending = {}
  /\ lock' = "free"
  /\ writeBatch' = {}
  /\ compaction' = "idle"
  /\ serving' = TRUE
  /\ UNCHANGED <<disk, index, stream, shifted, appending, unread, pending, crashes, ghosts>>

\* flush() finds the lock broken, or breaks it on a disk error, of an entry
\* or of the index line after it: the batch is kept "for retry" and compact()
\* rejects, leaving the archives where they are.  At startup it takes
\* initialize() with it, and the service never serves.
FlushFails ==
  /\ \/ /\ compaction = "flushing" /\ lock = "broken"
        /\ UNCHANGED <<entries, index>>
     \/ /\ compaction = "writing" /\ DiskErrors
        /\ \E m \in pending :
             \/ UNCHANGED <<entries, index>>
             \/ /\ entries' = [entries EXCEPT ![stream] = @ \cup {m}]
                /\ index' = Put(index, m, [status |-> "pending", at |-> Pointer(stream)])
  /\ lock' = "broken"
  /\ compaction' = "idle"
  /\ whole' = FALSE
  /\ UNCHANGED <<lines, liveSegment, liveIndex, newest, stream, shifted, appending, unread,
                 pending, writeBatch, life, persisted, refused, done, overtaken>>

\* The process dies and is started again; initialize() loads the index file
\* and opens the live segment, or makes one where a rename left none.  An
\* index line that was being written may or may not be in the file.
Crash ==
  /\ crashes < MaxCrashes
  /\ liveSegment = None => newest < MaxGenerations
  /\ crashes' = crashes + 1
  /\ serving' = FALSE
  /\ newest' = IF liveSegment = None THEN newest + 1 ELSE newest
  /\ liveSegment' = IF liveSegment = None THEN newest' ELSE liveSegment
  /\ liveIndex' = IF liveIndex = None THEN newest' ELSE liveIndex
  /\ \/ UNCHANGED lines
     \/ appending.pc = "indexing" /\ lines' = LineLost
  /\ index' = [m \in DOMAIN lines'[liveIndex'] |->
                 [status |-> "pending", at |-> lines'[liveIndex'][m]]]
  /\ stream' = liveSegment' /\ shifted' = FALSE
  /\ lock' = "free" /\ appending' = Idle
  /\ refused' = refused \cup ({appending.message} \ {NoMessage})
  /\ compaction' = "startup"
  /\ unread' = {} /\ pending' = {} /\ writeBatch' = {}
  /\ whole' = (whole /\ liveSegment /= None /\ compaction \notin {"flushing", "writing"})
  /\ UNCHANGED <<entries, persisted, done, overtaken>>

AppendStep ==
  \/ AppendRefused \/ AppendWrite \/ AppendWriteThrows
  \/ AppendWritten \/ AppendDone \/ AppendDiskError

CompactStep ==
  \/ StartupCompact
  \/ \E m \in Message : CompactRead(m)
  \/ CompactClose \/ CompactArchiveSegment \/ CompactArchiveIndex \/ CompactOpen
  \/ FlushBegin \/ \E m \in Message : FlushEntry(m)
  \/ FlushDone \/ FlushFails

Next ==
  \/ \E m \in Message : BeginAppend(m) \/ UpdateStatus(m)
  \/ CompactStart
  \/ AppendStep
  \/ CompactStep
  \/ Crash

\* Disk operations end, and what waits for a promise is resumed; nobody is
\* obliged to append, to compact or to crash.
Spec == Init /\ [][Next]_vars /\ WF_vars(AppendStep) /\ WF_vars(CompactStep)

-----------------------------------------------------------------------------
(* Properties.                                                             *)

Phases == {"idle", "startup", "reading", "archiving", "opening", "flushing", "writing"}

TypeOK ==
  /\ entries \in [Generation -> SUBSET Message]
  /\ \A g \in Generation :
       /\ DOMAIN lines[g] \subseteq Message
       /\ \A m \in DOMAIN lines[g] : lines[g][m] \in Generation \cup {None}
  /\ newest \in Generation
  /\ liveSegment \in 0 .. newest /\ liveIndex \in 0 .. newest
  /\ DOMAIN index \subseteq Message
  /\ \A m \in DOMAIN index :
       index[m] \in [status : {"pending", "completed"}, at : Generation \cup {None}]
  /\ stream \in 0 .. newest /\ shifted \in BOOLEAN
  /\ lock \in {"free", "append", "flush", "broken"}
  /\ appending \in [pc : {"idle", "waiting", "writing", "indexing"},
                    message : Message \cup {NoMessage}, at : 0 .. newest]
  /\ compaction \in Phases
  /\ unread \subseteq Message /\ pending \subseteq Message
  /\ writeBatch \subseteq Message
  /\ crashes \in 0 .. MaxCrashes /\ serving \in BOOLEAN
  /\ persisted \subseteq Message /\ refused \subseteq Message
  /\ done \subseteq persisted \cup refused
  /\ overtaken \subseteq Message /\ whole \in BOOLEAN

\* What a restart would recover from the files as they are.
Recoverable(m) ==
  /\ liveIndex /= None /\ liveSegment /= None
  /\ m \in DOMAIN lines[liveIndex]
  /\ lines[liveIndex][m] = liveSegment
  /\ m \in entries[liveSegment]

\* Until a compaction renames the files, a restart recovers every message
\* whose append succeeded and that was not marked completed, whatever appends
\* have failed and whenever the process has died.  Three cases lose messages:
\* an append under way while a compaction collects the pending entries, which
\* it may archive and delete (that message only); such an append that returns
\* when the new segment is open already, as the offsets of all that is written
\* there from then on are too large; and a compaction that renamed the files
\* and died, or failed, before it had rewritten the entries.
PendingIsRetained ==
  whole /\ compaction \in {"idle", "startup", "reading"} =>
    \A m \in persisted \ (done \cup overtaken) : Recoverable(m)

\* Between compactions the index in memory and the index file list the same
\* messages, and every entry can be read, but for those that PendingIsRetained
\* excepts, the appends that failed and the one under way.
IndexMatchesFiles ==
  whole /\ compaction = "idle" =>
    \A m \in Message \ (refused \cup overtaken \cup {appending.message}) :
      /\ m \in DOMAIN index <=> m \in DOMAIN lines[liveIndex]
      /\ m \in DOMAIN index => Readable(m) /\ Recoverable(m)

\* Whatever fails, an append comes back to its caller, and a compaction ends:
\* no order of lock, close and reopen leaves the two waiting for each other.
WaitersReturn ==
  /\ appending /= Idle ~> appending = Idle
  /\ compaction \notin {"idle", "startup"} ~> compaction \in {"idle", "startup"}

=============================================================================
