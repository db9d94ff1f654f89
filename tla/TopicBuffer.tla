----------------------------- MODULE TopicBuffer ----------------------------
(***************************************************************************)
(* TopicMessageBuffer and its CircularBuffer<T>                            *)
(* (src/utils/topic-message-buffer.ts): a map from topic to a ring of      *)
(* maxPerTopic slots with the next write position and a count.  The read   *)
(* position is not stored: toArray starts at 0 until the ring is full and  *)
(* at the write position from then on.  clear() drops every ring.          *)
(***************************************************************************)
EXTENDS Integers, Sequences

CONSTANTS
  Topic,        \* concrete topics
  Message,      \* the buffered messages (never undefined)
  MaxPerTopic,  \* the constructor's maxPerTopic
  Undefined     \* an unwritten slot

\* validateConfig refuses a topicBufferSize below 1.
ASSUME BufferAssumption ==
  /\ MaxPerTopic \in Nat \ {0}
  /\ Undefined \notin Message

VARIABLES
  keys,     \* the keys of the buffers map, in insertion order
  buffers   \* topic -> its ring

vars == <<keys, buffers>>

Slot == 0 .. MaxPerTopic - 1

\* new CircularBuffer(maxPerTopic).
NewRing == [buffer |-> [i \in Slot |-> Undefined], head |-> 0, count |-> 0]

\* Mutant of PushRing: the count is not stopped at the capacity.
PushRingUncapped(r, m) ==
  [buffer |-> [r.buffer EXCEPT ![r.head] = m],
   head   |-> (r.head + 1) % MaxPerTopic,
   count  |-> r.count + 1]

\* CircularBuffer.push(m).
PushRing(r, m) ==
  [buffer |-> [r.buffer EXCEPT ![r.head] = m],
   head   |-> (r.head + 1) % MaxPerTopic,
   count  |-> IF r.count < MaxPerTopic THEN r.count + 1 ELSE r.count]

\* Mutant of StartIdx: the oldest slot is taken to be slot 0 for good.
StartIdxAlwaysZero(r) == 0

StartIdx(r) == IF r.count < MaxPerTopic THEN 0 ELSE r.head

\* CircularBuffer.toArray(); every slot it reads has been written.
ToArray(r) ==
  [i \in 1 .. r.count |-> r.buffer[(StartIdx(r) + i - 1) % MaxPerTopic]]

Known(t) == \E i \in 1 .. Len(keys) : keys[i] = t

Init ==
  /\ keys = << >>
  /\ buffers = [t \in Topic |-> NewRing]

\* push(t, m), creating the ring of a new topic.
Push(t, m) ==
  /\ keys' = IF Known(t) THEN keys ELSE Append(keys, t)
  /\ buffers' = [buffers EXCEPT ![t] = PushRing(@, m)]

\* Mutant of Clear: the map is emptied but the rings are reused.
ClearKeepsRings ==
  /\ keys' = << >>
  /\ UNCHANGED buffers

Clear ==
  /\ keys' = << >>
  /\ buffers' = [t \in Topic |-> NewRing]

Next ==
  \/ \E t \in Topic, m \in Message : Push(t, m)
  \/ Clear

Spec == Init /\ [][Next]_vars

-----------------------------------------------------------------------------
(* Properties.                                                             *)

TypeOK ==
  /\ keys \in Seq(Topic)
  /\ buffers \in [Topic -> [buffer : [Slot -> Message \cup {Undefined}],
                            head : Slot, count : 0 .. MaxPerTopic]]

\* toArray never meets an unwritten slot (the code would silently skip it),
\* a ring that is not full has been written from slot 0 on without a gap,
\* and a topic is in the map exactly when it holds a message, once.
RingsReadable ==
  /\ \A t \in Topic :
       /\ \A i \in Slot :
            buffers[t].buffer[i] = Undefined <=> i >= buffers[t].count
       /\ buffers[t].count < MaxPerTopic => buffers[t].head = buffers[t].count
       /\ Known(t) <=> buffers[t].count > 0
  /\ \A i, j \in 1 .. Len(keys) : keys[i] = keys[j] => i = j

\* The rings implement "the last MaxPerTopic messages of each topic": after
\* any number of wrap-arounds a replay is in arrival order and complete.
History ==
  INSTANCE TopicHistory WITH
    history <- [size |-> MaxPerTopic, keys |-> keys,
                of |-> [t \in Topic |-> ToArray(buffers[t])]]

ImplementsHistory == History!HistorySpec
=============================================================================
