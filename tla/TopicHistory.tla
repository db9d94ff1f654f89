---------------------------- MODULE TopicHistory ----------------------------
(***************************************************************************)
(* What TopicMessageBuffer (src/utils/topic-message-buffer.ts) promises:   *)
(* the last maxPerTopic messages of each topic, in arrival order, and the  *)
(* topics in the order in which they first appeared.  TopicBuffer.tla      *)
(* shows that the ring buffers keep this promise; Delivery.tla uses it as  *)
(* the replay buffer of the service.                                       *)
(***************************************************************************)
EXTENDS Integers, SequencesExt

CONSTANTS
  Topic,    \* concrete topics
  Message   \* the buffered messages

VARIABLE history   \* [size, keys, of]: limit, topics in order, messages by topic

\* new TopicMessageBuffer(n).
EmptyHistory(n) ==
  [size |-> n, keys |-> << >>, of |-> [t \in Topic |-> << >>]]

\* The last n elements of s.
LastOf(s, n) == SubSeq(s, IF Len(s) > n THEN Len(s) - n + 1 ELSE 1, Len(s))

\* push(t, m) on a buffer h.
Remember(h, t, m) ==
  [h EXCEPT !.keys = IF h.of[t] = << >> THEN Append(@, t) ELSE @,
            !.of[t] = LastOf(Append(@, m), h.size)]

\* getForPattern, for a pattern that matches the topics of T.
Replay(h, T) ==
  FlattenSeq([i \in 1 .. Len(h.keys) |->
                IF h.keys[i] \in T THEN h.of[h.keys[i]] ELSE << >>])

HistoryInit == history.size \in Nat /\ history = EmptyHistory(history.size)
HistoryPush(t, m) == history' = Remember(history, t, m)
HistoryClear == history' = EmptyHistory(history.size)

HistoryNext ==
  \/ \E t \in Topic, m \in Message : HistoryPush(t, m)
  \/ HistoryClear

HistorySpec == HistoryInit /\ [][HistoryNext]_history
=============================================================================
