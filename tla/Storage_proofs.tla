--------------------------- MODULE Storage_proofs ---------------------------
(***************************************************************************)
(* Proofs about what keeps the messages: the rings in memory and the log   *)
(* on disk.                                                                *)
(*                                                                         *)
(* FIFO.tla, for every item set, capacity and policy: its type invariant,  *)
(* the consistency of the ring, and that it implements BoundedQueue.       *)
(*                                                                         *)
(* MessageLog.tla, for any number of messages, compactions and crashes and *)
(* any set of faults: its types, and that while nothing fails no           *)
(* compaction or restart loses a pending message.  A compaction hands the  *)
(* pending messages on from the index in memory to the set it reads them   *)
(* into, from there to the batch, and back into the index and the new      *)
(* files; Kept says where they are at each stage.                          *)
(***************************************************************************)
EXTENDS FIFO, MessageLog, SequenceTheorems, TLAPS

-----------------------------------------------------------------------------
(* FIFO.tla.                                                               *)

Wrap(n) == IF n < Capacity THEN n ELSE n - Capacity

\* The only modular arithmetic the code does: an index below twice the
\* capacity wraps around once.
LEMMA WrapOnce ==
  ASSUME NEW n \in Nat, n < 2 * Capacity
  PROVE  n % Capacity = Wrap(n)
BY FIFOAssumption, SMTT(30) DEF Wrap

LEMMA SumWraps ==
  ASSUME NEW i \in Slot, NEW k \in 0 .. Capacity
  PROVE  /\ (i + k) % Capacity = Wrap(i + k)
         /\ (i + k) % Capacity \in Slot
<1>1. i + k \in Nat /\ i + k < 2 * Capacity
  BY FIFOAssumption DEF Slot
<1>2. QED
  BY <1>1, WrapOnce, FIFOAssumption DEF Slot, Wrap

LEMMA AdvanceWraps ==
  ASSUME NEW i \in Slot
  PROVE  /\ Advance(i) \in Slot
         /\ Advance(i) = IF i + 1 < Capacity THEN i + 1 ELSE 0
<1>1. i + 1 \in Nat /\ i + 1 < 2 * Capacity
  BY FIFOAssumption DEF Slot
<1>2. QED
  BY <1>1, WrapOnce, FIFOAssumption DEF Slot, Advance, Wrap

\* Every step keeps the fields of the buffer in their types.
LEMMA RingTypeStep == RingTypeOK /\ [RingNext]_ringVars => RingTypeOK'
<1> SUFFICES ASSUME RingTypeOK, [RingNext]_ringVars PROVE RingTypeOK'
  OBVIOUS
<1>0. UNCHANGED overflowPolicy
  BY DEF RingNext, ringVars
<1> USE <1>0, FIFOAssumption DEF RingTypeOK
<1>1. ASSUME NEW x \in Item, Push(x) PROVE RingTypeOK'
  BY <1>1, AdvanceWraps DEF Push, isFull
<1>2. ASSUME NEW x \in Item, PushReject(x) PROVE RingTypeOK'
  BY <1>2 DEF PushReject
<1>3. ASSUME NEW x \in Item, PushDiscard(x) PROVE RingTypeOK'
  BY <1>3, AdvanceWraps DEF PushDiscard, isFull
<1>4. CASE Pop
  BY <1>4, AdvanceWraps DEF Pop, isEmpty
<1>5. CASE PopEmpty
  BY <1>5 DEF PopEmpty
<1>6. CASE Drain
  <2>1. (head + count) % Capacity \in Slot
    BY SumWraps
  <2>2. QED
    BY <1>6, <2>1 DEF Drain
<1>7. CASE Clear
  BY <1>7 DEF Clear, Slot
<1>8. CASE ResetOverflowCount
  BY <1>8 DEF ResetOverflowCount
<1>9. CASE UNCHANGED ringVars
  BY <1>9 DEF ringVars
<1>10. QED
  BY <1>1, <1>2, <1>3, <1>4, <1>5, <1>6, <1>7, <1>8, <1>9 DEF RingNext, Call

\* FIFO<T>'s pointers, count and slots stay in range, whatever the calls.
THEOREM RingTypeCorrect == RingSpec => []RingTypeOK
<1>1. RingInit => RingTypeOK
  BY FIFOAssumption DEF RingInit, RingTypeOK, Slot
<1>2. QED
  BY <1>1, RingTypeStep, PTL DEF RingSpec

\* The ring invariant is inductive relative to the types.
LEMMA RingStep == RingTypeOK /\ RingConsistent /\ [RingNext]_ringVars => RingConsistent'
<1> SUFFICES ASSUME RingTypeOK, RingConsistent, [RingNext]_ringVars PROVE RingConsistent'
  OBVIOUS
<1> USE FIFOAssumption DEF RingTypeOK, RingConsistent, Live, Slot
<1>1. ASSUME NEW x \in Item, Push(x) PROVE RingConsistent'
  BY <1>1, AdvanceWraps DEF Push, isFull
<1>2. ASSUME NEW x \in Item, PushReject(x) PROVE RingConsistent'
  BY <1>2 DEF PushReject
<1>3. ASSUME NEW x \in Item, PushDiscard(x) PROVE RingConsistent'
  BY <1>3, AdvanceWraps DEF PushDiscard, isFull
<1>4. CASE Pop
  <2>1. head' = IF head + 1 < Capacity THEN head + 1 ELSE 0
    BY <1>4, AdvanceWraps DEF Pop
  <2>2. count > 0 /\ count' = count - 1 /\ tail' = tail
    BY <1>4 DEF Pop, isEmpty
  <2>3. buffer' = [buffer EXCEPT ![head] = Undefined]
    BY <1>4 DEF Pop
  <2>4. tail' = (IF head' + count' < Capacity
                 THEN head' + count' ELSE head' + count' - Capacity)
    BY <2>1, <2>2
  <2>5. ASSUME NEW i \in Slot PROVE (buffer'[i] /= Undefined) <=> Live(i)'
    <3>1. CASE i = head
      BY <3>1, <2>1, <2>2, <2>3
    <3>2. CASE i /= head
      <4>1. buffer'[i] = buffer[i]
        BY <3>2, <2>3
      <4>2. Live(i) <=> Live(i)'
        BY <3>2, <2>1, <2>2
      <4>3. QED
        BY <4>1, <4>2
    <3>3. QED
      BY <3>1, <3>2
  <2>6. QED
    BY <2>4, <2>5
<1>5. CASE PopEmpty
  BY <1>5 DEF PopEmpty
<1>6. CASE Drain
  <2>1. (head + count) % Capacity = tail
    <3>1. (head + count) % Capacity = Wrap(head + count)
      BY SumWraps, Zenon
    <3>2. Wrap(head + count) = tail
      BY DEF Wrap
    <3>3. QED
      BY <3>1, <3>2, Zenon
  <2>2. head' = tail /\ tail' = tail /\ count' = 0
    BY <1>6, <2>1, Zenon DEF Drain
  <2>3. buffer' = [i \in Slot |-> Undefined]
    BY <1>6, Zenon DEF Drain
  <2>4. QED
    BY <2>2, <2>3
<1>7. CASE Clear
  BY <1>7 DEF Clear
<1>8. CASE ResetOverflowCount
  BY <1>8 DEF ResetOverflowCount
<1>9. CASE UNCHANGED ringVars
  BY <1>9 DEF ringVars
<1>10. QED
  BY <1>1, <1>2, <1>3, <1>4, <1>5, <1>6, <1>7, <1>8, <1>9 DEF RingNext, Call

\* Head, tail and count agree, and exactly the live slots hold an item,
\* after any sequence of pushes, discards, pops, drains and clears.
THEOREM RingAlwaysConsistent == RingSpec => []RingConsistent
<1>1. RingInit => RingTypeOK /\ RingConsistent
  BY FIFOAssumption DEF RingInit, RingTypeOK, RingConsistent, Live, Slot
<1>2. QED
  BY <1>1, RingTypeStep, RingStep, PTL DEF RingSpec

-----------------------------------------------------------------------------
(* Refinement of BoundedQueue.                                             *)

\* toArray is the sequence of the live slots, oldest first.
ArrayOK ==
  /\ toArray \in Seq(Item)
  /\ Len(toArray) = count
  /\ \A i \in 1 .. count : toArray[i] = buffer[Wrap(head + (i - 1))]

LEMMA ArrayWellFormed == RingTypeOK /\ RingConsistent => ArrayOK
<1> SUFFICES ASSUME RingTypeOK, RingConsistent PROVE ArrayOK
  OBVIOUS
<1> USE FIFOAssumption
<1>1. ASSUME NEW i \in 1 .. count
      PROVE  /\ peekAt(i - 1) = buffer[Wrap(head + (i - 1))]
             /\ peekAt(i - 1) \in Item
  <2>1. head \in Slot /\ i - 1 \in 0 .. Capacity /\ i - 1 < count
    BY DEF RingTypeOK
  <2>2. /\ (head + (i - 1)) % Capacity = Wrap(head + (i - 1))
        /\ (head + (i - 1)) % Capacity \in Slot
    <3>1. PICK k \in 0 .. Capacity : k = i - 1
      BY <2>1
    <3>2. /\ (head + k) % Capacity = Wrap(head + k)
          /\ (head + k) % Capacity \in Slot
      BY <2>1, SumWraps, Zenon
    <3>3. QED
      BY <3>1, <3>2, Zenon
  <2>3. Live(Wrap(head + (i - 1)))
    BY <2>1 DEF Live, Wrap, RingTypeOK, Slot
  <2>4. buffer[Wrap(head + (i - 1))] /= Undefined
    BY <2>2, <2>3, Zenon DEF RingConsistent
  <2>5. QED
    BY <2>2, <2>4, Zenon DEF RingTypeOK, peekAt
<1>2. toArray = [i \in 1 .. count |-> peekAt(i - 1)]
  BY DEF toArray
<1>3. \A i \in 1 .. count : toArray[i] = peekAt(i - 1)
  BY <1>2
<1>4. toArray \in [1 .. count -> Item]
  BY <1>1, <1>2
<1>5. toArray \in Seq(Item) /\ Len(toArray) = count
  BY <1>4 DEF RingTypeOK
<1>6. QED
  BY <1>1, <1>3, <1>5 DEF ArrayOK

LEMMA ArrayWellFormedNext == RingTypeOK' /\ RingConsistent' => ArrayOK'
BY ArrayWellFormed, PTL

\* Writing the tail slot appends to the sequence of items.
LEMMA PushAppends ==
  ASSUME RingTypeOK, RingConsistent, ArrayOK, ArrayOK', NEW x \in Item, Push(x)
  PROVE  toArray' = Append(toArray, x)
<1> USE FIFOAssumption
<1>1. count \in Nat /\ count < Capacity /\ count' = count + 1 /\ head' = head
  BY DEF Push, isFull, RingTypeOK
<1>2. tail = Wrap(head + count) /\ tail \in Slot /\ head \in Slot
  BY DEF RingConsistent, Wrap, RingTypeOK
<1>3. /\ Append(toArray, x) \in Seq(Item)
      /\ Len(Append(toArray, x)) = count'
      /\ \A i \in 1 .. count : Append(toArray, x)[i] = toArray[i]
      /\ Append(toArray, x)[count'] = x
  BY <1>1 DEF ArrayOK
<1>4. ASSUME NEW i \in 1 .. count' PROVE toArray'[i] = Append(toArray, x)[i]
  <2>1. toArray'[i] = buffer'[Wrap(head + (i - 1))]
    BY <1>1 DEF ArrayOK
  <2>2. buffer' = [buffer EXCEPT ![tail] = x]
    BY DEF Push
  <2>3. CASE i = count'
    BY <1>1, <1>2, <1>3, <2>1, <2>2, <2>3 DEF RingTypeOK
  <2>4. CASE i /= count'
    <3>1. i \in 1 .. count
      BY <2>4, <1>1
    <3>2. Wrap(head + (i - 1)) \in Slot /\ Wrap(head + (i - 1)) /= tail
      BY <3>1, <1>1, <1>2 DEF Wrap, Slot
    <3>3. buffer'[Wrap(head + (i - 1))] = buffer[Wrap(head + (i - 1))]
      BY <2>2, <3>2 DEF RingTypeOK
    <3>4. QED
      BY <2>1, <3>1, <3>3, <1>3 DEF ArrayOK
  <2>5. QED
    BY <2>3, <2>4
<1>5. toArray' \in Seq(Item) /\ Len(toArray') = count'
  BY DEF ArrayOK
<1>6. QED
  BY <1>3, <1>4, <1>5, SeqEqual

\* Popping the head slot removes the first of the items and returns it.
LEMMA PopIsTail ==
  ASSUME RingTypeOK, RingConsistent, ArrayOK, ArrayOK', Pop
  PROVE  /\ toArray /= << >>
         /\ toArray' = Tail(toArray)
         /\ buffer[head] = Head(toArray)
<1> USE FIFOAssumption
<1>1. /\ count \in Nat /\ count > 0 /\ count <= Capacity /\ count' = count - 1
      /\ head \in Slot /\ head' = Wrap(head + 1)
  BY AdvanceWraps DEF Pop, isEmpty, RingTypeOK, Wrap, Slot
<1>2. toArray /= << >>
  BY <1>1 DEF ArrayOK
<1>3. /\ Tail(toArray) \in Seq(Item)
      /\ Len(Tail(toArray)) = count'
      /\ \A i \in 1 .. count' : Tail(toArray)[i] = toArray[i + 1]
  BY <1>1, <1>2, HeadTailProperties DEF ArrayOK
<1>4. ASSUME NEW i \in 1 .. count' PROVE toArray'[i] = Tail(toArray)[i]
  <2>1. toArray'[i] = buffer'[Wrap(head' + (i - 1))]
    BY DEF ArrayOK
  <2>2. /\ Wrap(head' + (i - 1)) = Wrap(head + i)
        /\ Wrap(head + i) \in Slot /\ Wrap(head + i) /= head
    BY <1>1 DEF Wrap, Slot
  <2>3. buffer' = [buffer EXCEPT ![head] = Undefined]
    BY DEF Pop
  <2>4. buffer'[Wrap(head + i)] = buffer[Wrap(head + i)]
    BY <2>2, <2>3 DEF RingTypeOK
  <2>5. i + 1 \in 1 .. count /\ (i + 1) - 1 = i
    BY <1>1
  <2>6. toArray[i + 1] = buffer[Wrap(head + ((i + 1) - 1))]
    BY <2>5 DEF ArrayOK
  <2>7. QED
    BY <2>1, <2>2, <2>4, <2>5, <2>6, <1>3
<1>5. toArray' \in Seq(Item) /\ Len(toArray') = count'
  BY DEF ArrayOK
<1>6. toArray' = Tail(toArray)
  BY <1>3, <1>4, <1>5, SeqEqual
<1>7. buffer[head] = Head(toArray)
  <2>1. toArray[1] = buffer[Wrap(head + (1 - 1))]
    BY <1>1 DEF ArrayOK
  <2>2. Wrap(head + (1 - 1)) = head
    BY <1>1 DEF Wrap, Slot
  <2>3. QED
    BY <2>1, <2>2
<1>8. QED
  BY <1>2, <1>6, <1>7

\* Overwriting the oldest slot of a full ring drops the first item and
\* appends the new one.
LEMMA DiscardShifts ==
  ASSUME RingTypeOK, RingConsistent, ArrayOK, ArrayOK', NEW x \in Item,
         PushDiscard(x)
  PROVE  toArray' = Append(Tail(toArray), x)
<1> USE FIFOAssumption
<1>1. /\ count = Capacity /\ count' = Capacity /\ Capacity \in Nat \ {0}
      /\ head \in Slot /\ head' = Wrap(head + 1) /\ tail = head
  BY AdvanceWraps DEF PushDiscard, isFull, RingTypeOK, Wrap, Slot, RingConsistent
<1>2. toArray /= << >>
  BY <1>1 DEF ArrayOK
<1>3. /\ Tail(toArray) \in Seq(Item)
      /\ Len(Tail(toArray)) = Capacity - 1
      /\ \A i \in 1 .. Capacity - 1 : Tail(toArray)[i] = toArray[i + 1]
  BY <1>1, <1>2, HeadTailProperties DEF ArrayOK
<1>4. /\ Append(Tail(toArray), x) \in Seq(Item)
      /\ Len(Append(Tail(toArray), x)) = Capacity
      /\ \A i \in 1 .. Capacity - 1 :
           Append(Tail(toArray), x)[i] = toArray[i + 1]
      /\ Append(Tail(toArray), x)[Capacity] = x
  BY <1>1, <1>3
<1>5. ASSUME NEW i \in 1 .. Capacity
      PROVE  toArray'[i] = Append(Tail(toArray), x)[i]
  <2>1. toArray'[i] = buffer'[Wrap(head' + (i - 1))]
    BY <1>1 DEF ArrayOK
  <2>2. buffer' = [buffer EXCEPT ![head] = x]
    BY <1>1 DEF PushDiscard
  <2>3. CASE i = Capacity
    <3>1. Wrap(head' + (i - 1)) = head
      BY <1>1, <2>3 DEF Wrap, Slot
    <3>2. QED
      BY <1>1, <1>4, <2>1, <2>2, <2>3, <3>1 DEF RingTypeOK
  <2>4. CASE i /= Capacity
    <3>1. /\ Wrap(head' + (i - 1)) = Wrap(head + i)
          /\ Wrap(head + i) \in Slot /\ Wrap(head + i) /= head
      BY <1>1, <2>4 DEF Wrap, Slot
    <3>2. buffer'[Wrap(head + i)] = buffer[Wrap(head + i)]
      BY <2>2, <3>1 DEF RingTypeOK
    <3>3. i + 1 \in 1 .. count /\ (i + 1) - 1 = i /\ i \in 1 .. Capacity - 1
      BY <1>1, <2>4
    <3>4. toArray[i + 1] = buffer[Wrap(head + ((i + 1) - 1))]
      BY <3>3 DEF ArrayOK
    <3>5. QED
      BY <2>1, <3>1, <3>2, <3>3, <3>4, <1>4
  <2>5. QED
    BY <2>3, <2>4
<1>6. toArray' \in Seq(Item) /\ Len(toArray') = Capacity
  BY <1>1 DEF ArrayOK
<1>7. QED
  BY <1>4, <1>5, <1>6, SeqEqual

\* A method that leaves the slots, the head and the count alone leaves the
\* items alone.
LEMMA SameItems ==
  ASSUME UNCHANGED <<buffer, head, count>>
  PROVE  toArray' = toArray
BY DEF toArray, peekAt

LEMMA EmptyItems ==
  ASSUME ArrayOK, count = 0
  PROVE  toArray = << >>
BY DEF ArrayOK

LEMMA EmptyItemsNext ==
  ASSUME ArrayOK', count' = 0
  PROVE  toArray' = << >>
BY DEF ArrayOK

\* Every step of the ring is the same-named step of the abstract queue.
LEMMA RefinementStep ==
  RingTypeOK /\ RingConsistent /\ RingTypeOK' /\ RingConsistent' /\ [RingNext]_ringVars
    => [Queue!Next]_(Queue!vars)
<1> SUFFICES ASSUME RingTypeOK, RingConsistent, RingTypeOK', RingConsistent',
                    [RingNext]_ringVars
             PROVE  [Queue!Next]_(Queue!vars)
  OBVIOUS
<1>0. UNCHANGED overflowPolicy
  BY DEF RingNext, ringVars
<1>1. ArrayOK /\ ArrayOK'
  BY ArrayWellFormed, ArrayWellFormedNext
<1>2. count = Len(toArray) /\ (count = 0 <=> toArray = << >>)
  BY <1>1, EmptyItems DEF ArrayOK, RingTypeOK
<1>3. ASSUME NEW x \in Item, Push(x) PROVE Queue!Push(x)
  <2>1. toArray' = Append(toArray, x)
    BY <1>1, <1>3, PushAppends
  <2>2. QED
    BY <1>2, <1>3, <2>1 DEF Push, isFull, Queue!Push, Queue!IsFull
<1>4. ASSUME NEW x \in Item, PushReject(x) PROVE Queue!PushReject(x)
  BY <1>2, <1>4, SameItems DEF PushReject, isFull, Queue!PushReject, Queue!IsFull
<1>5. ASSUME NEW x \in Item, PushDiscard(x) PROVE Queue!PushDiscard(x)
  <2>1. toArray' = Append(Tail(toArray), x)
    BY <1>1, <1>5, DiscardShifts
  <2>2. QED
    BY <1>2, <1>5, <2>1 DEF PushDiscard, isFull, Queue!PushDiscard, Queue!IsFull,
       Queue!AppendDiscardingOldest
<1>6. CASE Pop
  <2>1. /\ toArray /= << >> /\ toArray' = Tail(toArray)
        /\ buffer[head] = Head(toArray)
    BY <1>1, <1>6, PopIsTail
  <2>2. Queue!Pop
    BY <1>6, <2>1 DEF Pop, Queue!Pop
  <2>3. QED
    BY <1>0, <2>2 DEF Queue!Next, Queue!Call
<1>7. CASE PopEmpty
  <2>1. Queue!PopEmpty
    BY <1>2, <1>7, SameItems DEF PopEmpty, isEmpty, Queue!PopEmpty
  <2>2. QED
    BY <1>0, <2>1 DEF Queue!Next, Queue!Call
<1>8. CASE Drain
  <2>1. toArray' = << >>
    BY <1>1, <1>8, EmptyItemsNext DEF Drain
  <2>2. Queue!Drain
    BY <1>8, <2>1 DEF Drain, Queue!Drain
  <2>3. QED
    BY <1>0, <2>2 DEF Queue!Next, Queue!Call
<1>9. CASE Clear
  <2>1. toArray' = << >>
    BY <1>1, <1>9, EmptyItemsNext DEF Clear
  <2>2. Queue!Clear
    BY <1>9, <2>1 DEF Clear, Queue!Clear
  <2>3. QED
    BY <1>0, <2>2 DEF Queue!Next, Queue!Call
<1>10. CASE ResetOverflowCount
  <2>1. Queue!ResetOverflowCount
    BY <1>10, SameItems DEF ResetOverflowCount, Queue!ResetOverflowCount
  <2>2. QED
    BY <1>0, <2>1 DEF Queue!Next, Queue!Call
<1>11. CASE UNCHANGED ringVars
  BY <1>11, SameItems DEF ringVars, Queue!vars
<1>12. QED
  BY <1>3, <1>4, <1>5, <1>6, <1>7, <1>8, <1>9, <1>10, <1>11, <1>0
     DEF RingNext, Call, Queue!Next, Queue!Call

\* FIFO<T> implements the bounded queue: whatever methods its callers use, in
\* whatever order, the items, the overflow counter and the returned values
\* are those of BoundedQueue.
THEOREM RingImplementsQueue == RingSpec => ImplementsQueue
<1>1. RingInit => RingTypeOK /\ RingConsistent
  BY FIFOAssumption DEF RingInit, RingTypeOK, RingConsistent, Live, Slot
<1>2. RingInit => Queue!Init
  <2> SUFFICES ASSUME RingInit PROVE Queue!Init
    OBVIOUS
  <2>1. toArray = << >>
    BY <1>1, ArrayWellFormed, EmptyItems DEF RingInit
  <2>2. QED
    BY <2>1 DEF RingInit, Queue!Init
<1>3. QED
  BY <1>1, <1>2, RingTypeStep, RingStep, RefinementStep, PTL
     DEF RingSpec, ImplementsQueue, Queue!Spec

-----------------------------------------------------------------------------
(* MessageLog.tla.                                                         *)

Closed == {"archiving", "opening"}

\* What the types need: which files there are at which stage of a compaction,
\* and that nothing is written ahead of the newest generation.
Shape ==
  /\ lines = [g \in Generation |-> lines[g]]
  /\ \A g \in Generation : g > newest => entries[g] = {} /\ DOMAIN lines[g] = {}
  /\ stream = None <=> compaction \in Closed
  /\ compaction \notin Closed => liveSegment /= None /\ liveIndex /= None
  /\ compaction = "archiving" => liveIndex /= None
  /\ compaction = "opening" => liveSegment = None
  /\ compaction \in {"reading"} \cup Closed => newest < MaxGenerations
  /\ compaction = "startup" => ~ serving /\ appending = Idle
  /\ appending.pc \in {"writing", "indexing"} => appending.at /= None
  /\ appending.pc /= "idle" => appending.message \in Message
  /\ appending.message \notin persisted \cup refused
  /\ persisted \cap refused = {}
  /\ \A m \in DOMAIN index \ done : index[m].status = "pending"

\* The index in memory and the newest files agree on m.
Agree(m) ==
  /\ m \in DOMAIN index <=> m \in DOMAIN lines[newest]
  /\ m \in DOMAIN index => /\ m \in entries[newest]
                           /\ index[m].at = newest
                           /\ lines[newest][m] = newest

\* Of these the index may say anything: what failed, what a compaction met on
\* its way, and what is being appended.
Loose == refused \cup overtaken \cup {appending.message}

\* The newest files still have the names a restart looks for.
Named == compaction \notin Closed \/ liveSegment /= None

FilesAgree ==
  /\ liveSegment = newest /\ liveIndex = newest
  /\ \A m \in Message \ Loose : Agree(m)

\* An append that writes, and that no compaction has met.
Clean ==
  appending.pc \in {"writing", "indexing"} /\ appending.message \notin overtaken

\* Where a message that has to be kept is, stage by stage.
Kept(m) ==
  /\ compaction \in {"idle", "startup", "reading", "archiving"} => m \in DOMAIN index
  /\ compaction = "reading" => m \in unread \cup pending
  /\ compaction \in Closed => m \in pending
  /\ compaction \in {"flushing", "writing"} => m \in pending \cup DOMAIN index

Sound ==
  /\ Named => FilesAgree
  /\ compaction \notin Closed => stream = newest
  /\ ~ shifted
  /\ compaction = "reading" /\ appending.pc /= "idle" => appending.message \in overtaken
  /\ Clean => compaction \notin {"reading"} \cup Closed /\ appending.at = newest
  /\ Clean /\ appending.pc = "indexing" =>
       appending.message \in DOMAIN index /\ Agree(appending.message)
  /\ compaction = "opening" => DOMAIN index \subseteq Loose
  /\ \A m \in persisted \ (done \cup overtaken) : Kept(m)

IInv == TypeOK /\ Shape /\ (whole => Sound)

LEMMA InvInit == Init => IInv
<1> SUFFICES ASSUME Init PROVE IInv
  OBVIOUS
<1> USE LogAssumption DEF Init
<1>1. TypeOK
  <2>1. 1 \in Generation /\ 0 \in 0 .. 1 /\ 1 \in 0 .. 1 /\ 0 \in 0 .. MaxCrashes
    BY DEF Generation
  <2>2. appending \in [pc : {"idle", "waiting", "writing", "indexing"},
                       message : Message \cup {NoMessage}, at : 0 .. newest]
    BY <2>1 DEF Idle, None
  <2>3. \A g \in Generation : DOMAIN lines[g] = {}
    OBVIOUS
  <2>4. QED
    BY <2>1, <2>2, <2>3 DEF TypeOK, Phases
<1>2. Shape
  BY DEF Shape, Idle, None, Generation, Closed
<1>3. Sound
  BY DEF Sound, Idle, Closed, FilesAgree, Agree, Named, Clean, Kept, Generation
<1>4. QED
  BY <1>1, <1>2, <1>3 DEF IInv

\* A message to be kept is none of those the index may say anything of.
LEMMA KeptIsFirm ==
  ASSUME IInv
  PROVE  persisted \ (done \cup overtaken) \subseteq Message \ Loose
BY DEF IInv, TypeOK, Shape, Loose

LEMMA SoundIsEnough == IInv => PendingIsRetained /\ IndexMatchesFiles
<1> SUFFICES ASSUME IInv, whole PROVE PendingIsRetained /\ IndexMatchesFiles
  BY DEF PendingIsRetained, IndexMatchesFiles
<1>1. /\ newest /= None /\ Sound
      /\ Named => FilesAgree
  BY DEF IInv, TypeOK, Generation, Sound, None
<1>2. PendingIsRetained
  BY <1>1, KeptIsFirm DEF Sound, Named, FilesAgree, Agree, Kept, Closed,
     PendingIsRetained, Recoverable
<1>3. IndexMatchesFiles
  BY <1>1 DEF Named, FilesAgree, Agree, Closed, Loose, IndexMatchesFiles,
     Recoverable, Readable
<1>4. QED
  BY <1>2, <1>3

LEMMA GenerationFacts ==
  /\ Generation \subseteq Nat
  /\ None \notin Generation
  /\ \A n \in Generation : 1 .. n \subseteq Generation /\ n \in 0 .. n
  /\ 1 \in Generation
BY LogAssumption DEF Generation, None

-----------------------------------------------------------------------------
(* append and updateStatus                                                 *)

LEMMA AppendBegins ==
  ASSUME IInv, NEW m \in Message, BeginAppend(m)
  PROVE  IInv'
<1> USE DEF IInv, BeginAppend, disk, compacting, life
<1>1. TypeOK'
  BY DEF TypeOK, Idle, None
<1>2. Shape'
  BY DEF Shape, TypeOK, Idle
<1>3. ASSUME whole PROVE Sound'
  <2>1. Loose \ {NoMessage} \subseteq Loose' /\ overtaken \subseteq overtaken' /\ ~ Clean'
    BY DEF Loose, Idle, Clean
  <2>2. \A k \in Message : Agree(k) <=> Agree(k)'
    BY DEF Agree
  <2>3. Named' => FilesAgree'
    BY <1>3, <2>1, <2>2, LogAssumption DEF Sound, Named, FilesAgree
  <2>4. compaction' = "opening" => DOMAIN index' \subseteq Loose'
    BY <1>3, <2>1, LogAssumption DEF Sound, TypeOK
  <2>5. QED
    BY <1>3, <2>1, <2>3, <2>4 DEF Sound, Kept
<1>4. QED
  BY <1>1, <1>2, <1>3

\* A rejected append: whatever it leaves behind, the message is Loose for good.
LEMMA AppendRejected ==
  ASSUME IInv, appending.pc /= "idle", AppendFails,
         lines' = [g \in Generation |-> lines'[g]],
         \A g \in Generation :
           /\ DOMAIN lines'[g] \subseteq DOMAIN lines[g]
           /\ DOMAIN lines[g] \subseteq DOMAIN lines'[g] \cup {appending.message}
           /\ \A m \in DOMAIN lines'[g] : lines'[g][m] = lines[g][m],
         index' = index
  PROVE  IInv'
<1> USE DEF IInv
<1>1. /\ refused' = refused \cup {appending.message} /\ appending' = Idle
      /\ UNCHANGED <<entries, liveSegment, liveIndex, newest, stream, shifted, compaction,
                     unread, pending, writeBatch, crashes, serving, persisted,
                     done, overtaken, whole>>
      /\ appending.message \in Message \ (persisted \cup refused)
      /\ lock' = "broken"
  BY DEF AppendFails, compacting, life, Shape
<1>2. TypeOK'
  BY <1>1, LogAssumption DEF TypeOK, Shape, Idle, None, Generation
<1>3. Shape'
  BY <1>1, LogAssumption DEF Shape, TypeOK, Idle
<1>4. ASSUME whole PROVE Sound'
  <2>1. Loose \subseteq Loose' /\ ~ Clean'
    BY <1>1 DEF Loose, Idle, Clean
  <2>2. ASSUME NEW k \in Message \ Loose, Agree(k) PROVE Agree(k)'
    BY <1>1, <2>2 DEF Agree, Loose, TypeOK
  <2>3. Named' => FilesAgree'
    BY <1>1, <1>4, <2>1, <2>2 DEF Sound, Named, FilesAgree
  <2>4. compaction' = "opening" => DOMAIN index' \subseteq Loose'
    BY <1>1, <1>4, <2>1 DEF Sound
  <2>5. QED
    BY <1>1, <1>4, <2>1, <2>3, <2>4 DEF Sound, Kept, Idle
<1>5. QED
  BY <1>1, <1>2, <1>3, <1>4

LEMMA AppendRejections ==
  ASSUME IInv, AppendRefused \/ AppendWriteThrows \/ AppendDiskError
  PROVE  IInv'
<1>1. lines = [g \in Generation |-> lines[g]]
  BY DEF IInv, Shape
<1>2. CASE AppendRefused
  BY <1>1, <1>2, AppendRejected DEF AppendRefused
<1>3. CASE AppendWriteThrows
  BY <1>1, <1>3, AppendRejected DEF AppendWriteThrows
<1>4. CASE AppendDiskError
  <2>1. /\ lines' = [g \in Generation |-> lines'[g]]
        /\ \A g \in Generation :
             /\ DOMAIN lines'[g] \subseteq DOMAIN lines[g]
             /\ DOMAIN lines[g] \subseteq DOMAIN lines'[g] \cup {appending.message}
             /\ \A m \in DOMAIN lines'[g] : lines'[g][m] = lines[g][m]
    <3>1. CASE lines' = lines
      BY <1>1, <3>1
    <3>2. CASE lines' = LineLost
      BY <1>1, <3>2 DEF LineLost, Restrict
    <3>3. QED
      BY <1>4, <3>1, <3>2 DEF AppendDiskError
  <2>2. appending.pc /= "idle" /\ AppendFails /\ index' = index
    BY <1>4 DEF AppendDiskError
  <2>3. QED
    BY <2>1, <2>2, AppendRejected
<1>5. QED
  BY <1>2, <1>3, <1>4

LEMMA AppendWriteStep ==
  ASSUME IInv, AppendWrite
  PROVE  IInv'
<1> USE DEF IInv, AppendWrite, disk, compacting, life, ghosts
<1>1. TypeOK'
  BY DEF TypeOK
<1>2. Shape'
  BY DEF Shape, TypeOK, Idle
<1>3. ASSUME whole PROVE Sound'
  <2>1. /\ appending'.pc = "writing" /\ appending'.at = stream
        /\ appending'.message = appending.message
    BY DEF TypeOK
  <2>2. Loose' = Loose
    BY <2>1 DEF Loose
  <2>3. Named' => FilesAgree'
    BY <1>3, <2>2 DEF Sound, Named, FilesAgree, Agree
  <2>4. Clean' => compaction \notin {"reading"} \cup Closed /\ stream = newest
    BY <1>3, <2>1 DEF Sound, Clean, Shape
  <2>5. ~ (Clean' /\ appending'.pc = "indexing")
    BY <2>1
  <2>6. QED
    BY <1>3, <2>1, <2>2, <2>3, <2>4, <2>5 DEF Sound, Kept
<1>4. QED
  BY <1>1, <1>2, <1>3

LEMMA AppendWrittenStep ==
  ASSUME IInv, AppendWritten
  PROVE  IInv'
<1> USE DEF IInv
<1> DEFINE m == appending.message
           g == appending.at
<1>1. /\ m \in Message \ (persisted \cup refused)
      /\ g \in Generation /\ g \in 0 .. newest /\ g > 0
      /\ newest \in Generation /\ Pointer(g) \in Generation \cup {None}
  BY GenerationFacts DEF AppendWritten, Shape, TypeOK, None, Generation, Pointer
<1>2. /\ DOMAIN index' = DOMAIN index \cup {m}
      /\ index'[m] = [status |-> "pending", at |-> Pointer(g)]
      /\ \A k \in DOMAIN index : k /= m => index'[k] = index[k]
  <2>1. index' = Put(index, m, [status |-> "pending", at |-> Pointer(g)])
    BY DEF AppendWritten
  <2>2. QED
    BY <2>1 DEF Put
<1>3. /\ entries'[g] = entries[g] \cup {m}
      /\ \A h \in Generation : h /= g => entries'[h] = entries[h]
      /\ entries' \in [Generation -> SUBSET Message]
  BY <1>1 DEF AppendWritten, TypeOK
<1>4. CASE stream = None
  <2>1. /\ lock' = "broken" /\ refused' = refused \cup {m} /\ appending' = Idle
        /\ UNCHANGED <<lines, liveSegment, liveIndex, newest, stream, shifted,
                       compacting, life, persisted, done, overtaken, whole>>
    BY <1>4 DEF AppendWritten
  <2>2. TypeOK'
    <3>1. Idle \in [pc : {"idle", "waiting", "writing", "indexing"},
                     message : Message \cup {NoMessage}, at : 0 .. newest]
      BY LogAssumption DEF Idle, None, TypeOK, Generation
    <3>2. QED
      BY <1>1, <1>2, <1>3, <2>1, <3>1 DEF TypeOK, compacting, life
  <2>3. Shape'
    <3>1. \A h \in Generation : h > newest' => entries'[h] = {} /\ DOMAIN lines'[h] = {}
      BY <1>1, <1>3, <2>1 DEF Shape, Generation
    <3>2. /\ appending' = Idle /\ NoMessage \notin persisted' \cup refused'
          /\ persisted' \cap refused' = {}
      BY <1>1, <2>1, LogAssumption DEF Shape, TypeOK
    <3>3. \A k \in DOMAIN index' \ done' : index'[k].status = "pending"
      BY <1>2, <2>1 DEF Shape
    <3>4. QED
      BY <1>4, <2>1, <3>1, <3>2, <3>3 DEF Shape, Idle, compacting, life
  <2>4. ASSUME whole PROVE Sound'
    <3>1. /\ Loose \subseteq Loose' /\ m \in Loose /\ m \in Loose' /\ ~ Clean'
          /\ compaction' = compaction
      BY <2>1 DEF Loose, Idle, Clean, compacting
    <3>2. ASSUME NEW k \in Message \ Loose', Agree(k) PROVE Agree(k)'
      BY <1>1, <1>2, <1>3, <2>1, <3>1, <3>2 DEF Agree
    <3>3. Named' => FilesAgree'
      BY <2>1, <2>4, <3>1, <3>2 DEF Sound, Named, FilesAgree
    <3>4. \A k \in persisted' \ (done' \cup overtaken') : Kept(k)'
      BY <1>2, <2>1, <2>4 DEF Sound, Kept, compacting
    <3>5. compaction' = "opening" => DOMAIN index' \subseteq Loose'
      BY <1>2, <2>4, <3>1 DEF Sound
    <3>6. appending'.pc = "idle"
      BY <2>1 DEF Idle
    <3>7. (compaction' \notin Closed => stream' = newest') /\ ~ shifted'
      BY <2>1, <2>4, <3>1 DEF Sound
    <3>8. QED
      BY <3>1, <3>3, <3>4, <3>5, <3>6, <3>7 DEF Sound
  <2>5. QED
    BY <2>1, <2>2, <2>3, <2>4
<1>5. CASE stream /= None
  <2>1. /\ lines' = [lines EXCEPT ![liveIndex] = Put(@, m, Pointer(g))]
        /\ appending' = [appending EXCEPT !.pc = "indexing", !.at = stream]
        /\ UNCHANGED <<liveSegment, liveIndex, newest, stream, shifted, lock, refused,
                       compacting, life, persisted, done, overtaken, whole>>
    BY <1>5 DEF AppendWritten
  <2>2. liveIndex \in Generation /\ liveIndex \in 0 .. newest /\ liveIndex > 0
    BY <1>1, <1>5, LogAssumption DEF Shape, TypeOK, None, Generation
  <2>3. /\ lines' = [h \in Generation |-> lines'[h]]
        /\ DOMAIN lines'[liveIndex] = DOMAIN lines[liveIndex] \cup {m}
        /\ lines'[liveIndex][m] = Pointer(g)
        /\ \A k \in DOMAIN lines[liveIndex] :
             k /= m => lines'[liveIndex][k] = lines[liveIndex][k]
        /\ \A h \in Generation : h /= liveIndex => lines'[h] = lines[h]
    <3>1. lines'[liveIndex] = Put(lines[liveIndex], m, Pointer(g))
      BY <2>1, <2>2 DEF Shape
    <3>2. /\ DOMAIN Put(lines[liveIndex], m, Pointer(g)) = DOMAIN lines[liveIndex] \cup {m}
          /\ Put(lines[liveIndex], m, Pointer(g))[m] = Pointer(g)
          /\ \A k \in DOMAIN lines[liveIndex] :
               k /= m => Put(lines[liveIndex], m, Pointer(g))[k] = lines[liveIndex][k]
      BY DEF Put
    <3>3. /\ lines' = [h \in Generation |-> lines'[h]]
          /\ \A h \in Generation : h /= liveIndex => lines'[h] = lines[h]
      BY <2>1, <2>2 DEF Shape
    <3>4. QED
      BY <3>1, <3>2, <3>3
  <2>4. TypeOK'
    <3>1. \A h \in Generation :
            /\ DOMAIN lines'[h] \subseteq Message
            /\ \A k \in DOMAIN lines'[h] : lines'[h][k] \in Generation \cup {None}
      BY <1>1, <2>2, <2>3 DEF TypeOK
    <3>2. appending' \in [pc : {"idle", "waiting", "writing", "indexing"},
                          message : Message \cup {NoMessage}, at : 0 .. newest]
      BY <2>1 DEF TypeOK
    <3>3. \A k \in DOMAIN index' :
            index'[k] \in [status : {"pending", "completed"}, at : Generation \cup {None}]
      BY <1>1, <1>2 DEF TypeOK
    <3>4. QED
      BY <1>1, <1>2, <1>3, <2>1, <3>1, <3>2, <3>3 DEF TypeOK, compacting, life
  <2>5. Shape'
    <3>1. \A h \in Generation : h > newest' => entries'[h] = {} /\ DOMAIN lines'[h] = {}
      BY <1>1, <1>3, <2>1, <2>2, <2>3, GenerationFacts DEF Shape, Generation
    <3>2. /\ appending'.pc = "indexing" /\ appending'.at = stream
          /\ appending'.message = m
      BY <2>1 DEF TypeOK
    <3>3. QED
      BY <1>1, <1>2, <1>5, <2>1, <2>3, <3>1, <3>2 DEF Shape, Idle, AppendWritten, compacting, life
  <2>6. ASSUME whole PROVE Sound'
    <3>1. /\ appending'.pc = "indexing" /\ appending'.at = stream
          /\ appending'.message = m /\ appending.pc = "writing"
          /\ compaction' = compaction /\ compaction \notin Closed
          /\ stream = newest /\ FilesAgree /\ Pointer(g) = g /\ ~ shifted
      BY <1>5, <2>1, <2>6 DEF TypeOK, compacting, Shape, Sound, Named, AppendWritten, Pointer
    <3>2. Loose' = Loose /\ m \in Loose /\ (Clean' => Clean)
      BY <2>1, <3>1 DEF Loose, Clean
    <3>3. ASSUME NEW k \in Message \ Loose, Agree(k) PROVE Agree(k)'
      BY <1>1, <1>2, <1>3, <2>1, <2>2, <2>3, <3>2, <3>3 DEF Agree
    <3>4. FilesAgree'
      BY <2>1, <3>1, <3>2, <3>3 DEF FilesAgree
    <3>5. Clean' => /\ compaction \notin {"reading"} \cup Closed /\ g = newest
                    /\ m \in DOMAIN index' /\ Agree(m)'
      BY <1>1, <1>2, <1>3, <2>1, <2>2, <2>3, <2>6, <3>1, <3>2
         DEF Sound, FilesAgree, Agree
    <3>6. \A k \in persisted' \ (done' \cup overtaken') : Kept(k)'
      BY <1>2, <2>1, <2>6 DEF Sound, Kept, compacting
    <3>7. compaction' = "reading" => appending'.message \in overtaken'
      BY <2>1, <2>6, <3>1 DEF Sound
    <3>8. compaction' /= "opening" /\ stream' = newest' /\ newest' = newest
          /\ ~ shifted'
      BY <2>1, <3>1 DEF Closed
    <3>9. QED
      BY <3>1, <3>4, <3>5, <3>6, <3>7, <3>8 DEF Sound
  <2>7. QED
    BY <2>1, <2>4, <2>5, <2>6
<1>6. QED
  BY <1>4, <1>5

LEMMA AppendDoneStep ==
  ASSUME IInv, AppendDone
  PROVE  IInv'
<1> USE DEF IInv, AppendDone, AppendReturns, disk, compacting, life
<1>1. TypeOK'
  BY LogAssumption DEF TypeOK, Idle, None, Shape, Generation
<1>2. Shape'
  BY LogAssumption DEF Shape, TypeOK, Idle
<1>3. ASSUME whole' PROVE Sound'
  <2> DEFINE m == appending.message
  <2>0. whole /\ ~ shifted'
    BY <1>3 DEF Sound, TypeOK
  <2>1. /\ Loose \subseteq Loose' \cup {m} /\ ~ Clean' /\ appending'.pc = "idle"
        /\ m \in Message
    BY DEF Loose, Idle, Clean, Shape
  <2>2. m \notin overtaken =>
          /\ compaction \notin {"reading"} \cup Closed
          /\ m \in DOMAIN index /\ Agree(m)
    BY <2>0 DEF Sound, Clean
  <2>3. m \in overtaken => m \in Loose'
    BY DEF Loose
  <2>4. \A k \in Message : Agree(k) <=> Agree(k)'
    BY DEF Agree
  <2>5. Named' => FilesAgree'
    BY <2>0, <2>1, <2>2, <2>3, <2>4 DEF Sound, Named, FilesAgree
  <2>6. \A k \in persisted' \ (done' \cup overtaken') : Kept(k)'
    BY <2>0, <2>2 DEF Sound, Kept, Closed, TypeOK, Phases
  <2>7. compaction' = "opening" => DOMAIN index' \subseteq Loose'
    BY <2>0, <2>1, <2>2, <2>3 DEF Sound, Closed
  <2>8. QED
    BY <2>0, <2>1, <2>5, <2>6, <2>7 DEF Sound
<1>4. QED
  BY <1>1, <1>2, <1>3

LEMMA UpdateStatusStep ==
  ASSUME IInv, NEW m \in Message, UpdateStatus(m)
  PROVE  IInv'
<1> USE DEF IInv
<1>1. /\ done' = done \cup {m} /\ m \in persisted \cup refused
      /\ UNCHANGED <<disk, stream, shifted, lock, appending, compacting, life,
                     persisted, refused, overtaken, whole>>
      /\ DOMAIN index' = DOMAIN index
      /\ \A k \in DOMAIN index : k /= m => index'[k] = index[k]
      /\ \A k \in DOMAIN index :
           /\ index'[k] \in [status : {"pending", "completed"}, at : Generation \cup {None}]
           /\ index'[k].at = index[k].at
  BY DEF UpdateStatus, TypeOK
<1>2. TypeOK'
  BY <1>1 DEF TypeOK, disk, compacting, life
<1>3. Shape'
  BY <1>1 DEF Shape, disk, compacting, life
<1>4. ASSUME whole PROVE Sound'
  <2>1. Loose' = Loose /\ (Clean' <=> Clean) /\ appending' = appending
    BY <1>1 DEF Loose, Clean
  <2>2. \A k \in Message : Agree(k) <=> Agree(k)'
    BY <1>1 DEF Agree, disk
  <2>3. Named' => FilesAgree'
    BY <1>1, <1>4, <2>1, <2>2 DEF Sound, Named, FilesAgree, disk, compacting
  <2>4. Clean /\ appending.pc = "indexing" => appending.message \in Message
    BY DEF Shape
  <2>5. QED
    BY <1>1, <1>4, <2>1, <2>2, <2>3, <2>4
       DEF Sound, Kept, disk, compacting
<1>5. QED
  BY <1>1, <1>2, <1>3, <1>4

-----------------------------------------------------------------------------
(* compact                                                                 *)

LEMMA CompactBegins ==
  ASSUME IInv, CompactStart \/ StartupCompact
  PROVE  IInv'
<1> USE DEF IInv, CompactStart, StartupCompact, disk, life
<1>1. TypeOK'
  BY DEF TypeOK, Phases, ghosts
<1>2. Shape'
  BY DEF Shape, Closed, ghosts
<1>3. ASSUME whole PROVE Sound'
  <2>1. /\ UNCHANGED <<entries, lines, liveSegment, liveIndex, newest, index,
                       stream, shifted, appending, persisted, refused, done>>
        /\ overtaken \subseteq overtaken' /\ unread' = DOMAIN index
        /\ compaction' = "reading" /\ compaction \in {"idle", "startup"}
    BY DEF ghosts
  <2>2. appending.pc /= "idle" => appending.message \in overtaken'
    BY LogAssumption DEF ghosts, Shape, Idle
  <2>3. ~ Clean' /\ Loose \subseteq Loose'
    BY <2>1, <2>2 DEF Clean, Loose
  <2>4. FilesAgree'
    BY <1>3, <2>1, <2>3 DEF Sound, Named, Closed, FilesAgree, Agree
  <2>5. \A k \in persisted' \ (done' \cup overtaken') : Kept(k)'
    BY <1>3, <2>1 DEF Sound, Kept, Closed
  <2>6. QED
    BY <1>3, <2>1, <2>2, <2>3, <2>4, <2>5 DEF Sound, Closed
<1>4. QED
  BY <1>1, <1>2, <1>3 DEF ghosts

\* getPendingMessages passes over no message to be kept: its entry can be read.
LEMMA CompactReadStep ==
  ASSUME IInv, NEW m \in Message, CompactRead(m)
  PROVE  IInv'
<1> USE DEF IInv, CompactRead, disk, life, ghosts
<1>1. TypeOK'
  BY DEF TypeOK
<1>2. Shape'
  BY DEF Shape
<1>3. ASSUME whole PROVE Sound'
  <2>1. /\ Named /\ FilesAgree /\ Loose' = Loose /\ (Clean' <=> Clean)
    BY <1>3 DEF Sound, Named, Closed, Loose, Clean
  <2>2. FilesAgree'
    BY <2>1 DEF FilesAgree, Agree
  <2>3. ASSUME NEW k \in persisted \ (done \cup overtaken) PROVE Kept(k)'
    <3>1. k \in DOMAIN index /\ k \in unread \cup pending /\ k \in Message \ Loose
      BY <1>3, <2>3, KeptIsFirm DEF Sound, Kept
    <3>2. index[k].status = "pending" /\ Readable(k)
      BY <2>1, <2>3, <3>1, GenerationFacts
         DEF Shape, FilesAgree, Agree, Readable, TypeOK
    <3>3. QED
      BY <3>1, <3>2 DEF Kept, Closed
  <2>4. QED
    BY <1>3, <2>1, <2>2, <2>3 DEF Sound, Closed
<1>4. QED
  BY <1>1, <1>2, <1>3

LEMMA CompactFilesStep ==
  ASSUME IInv, CompactClose \/ CompactArchiveSegment \/ CompactArchiveIndex
  PROVE  IInv'
<1> USE DEF IInv, CompactClose, CompactArchiveSegment, CompactArchiveIndex, disk,
            compacting, life, ghosts
<1>1. TypeOK'
  BY GenerationFacts DEF TypeOK, Phases, None, Generation
<1>2. Shape'
  BY DEF Shape, Closed
<1>3. ASSUME whole PROVE Sound'
  <2>1. Loose' = Loose /\ (Clean' <=> Clean)
    BY DEF Loose, Clean
  <2>2. CASE CompactClose
    BY <1>3, <2>1, <2>2 DEF Sound, Closed, Named, FilesAgree, Agree, Kept
  <2>3. CASE CompactArchiveSegment
    BY <1>3, <2>1, <2>3 DEF Sound, Closed, Named, Kept, None
  <2>4. CASE CompactArchiveIndex
    BY <1>3, <2>1, <2>4 DEF Sound, Closed, Named, Kept
  <2>5. QED
    BY <2>2, <2>3, <2>4
<1>4. QED
  BY <1>1, <1>2, <1>3

LEMMA CompactOpenStep ==
  ASSUME IInv, CompactOpen
  PROVE  IInv'
<1> USE DEF IInv, CompactOpen
<1>1. newest' = newest + 1 /\ newest' \in Generation /\ newest \in Generation
  BY LogAssumption DEF Shape, Closed, TypeOK, Generation
<1>2. TypeOK'
  <2>1. newest' \in 0 .. newest' /\ 0 .. newest \subseteq 0 .. newest'
    BY <1>1 DEF Generation
  <2>2. appending' \in [pc : {"idle", "waiting", "writing", "indexing"},
                        message : Message \cup {NoMessage}, at : 0 .. newest']
    BY <2>1 DEF TypeOK
  <2>3. QED
    BY <1>1, <2>1, <2>2 DEF TypeOK, Phases, ghosts
<1>3. Shape'
  <2>1. \A h \in Generation : h > newest' => entries'[h] = {} /\ DOMAIN lines'[h] = {}
    BY <1>1 DEF Shape, Generation
  <2>2. compaction' \in {"idle", "flushing"} /\ newest' /= None
    BY <1>1, LogAssumption DEF None, Generation
  <2>3. QED
    BY <2>1, <2>2 DEF Shape, Closed, ghosts
<1>4. ASSUME whole PROVE Sound'
  <2>1. /\ entries[newest'] = {} /\ DOMAIN lines[newest'] = {}
        /\ DOMAIN index \subseteq Loose /\ Loose' = Loose /\ ~ Clean'
    BY <1>1, <1>4 DEF Shape, Sound, Generation, Loose, Clean, Closed, ghosts
  <2>2. FilesAgree'
    BY <2>1 DEF FilesAgree, Agree
  <2>3. \A k \in persisted' \ (done' \cup overtaken') : Kept(k)'
    BY <1>4, <2>1 DEF Sound, Kept, Closed, ghosts
  <2>4. QED
    BY <1>4, <2>1, <2>2, <2>3 DEF Sound, Closed
<1>5. QED
  BY <1>2, <1>3, <1>4 DEF ghosts

LEMMA FlushLockStep ==
  ASSUME IInv, FlushBegin \/ FlushDone
  PROVE  IInv'
<1> USE DEF IInv, FlushBegin, FlushDone, disk, life, ghosts
<1>1. TypeOK'
  BY DEF TypeOK, Phases
<1>2. Shape'
  BY DEF Shape, Closed
<1>3. ASSUME whole PROVE Sound'
  <2>1. Loose' = Loose /\ (Clean' <=> Clean)
    BY DEF Loose, Clean
  <2>2. QED
    <3>1. UNCHANGED <<entries, lines, liveSegment, liveIndex, newest, index, stream,
                      shifted, appending, persisted, refused, done, overtaken>>
      OBVIOUS
    <3>2. Named /\ Named' /\ FilesAgree /\ stream = newest /\ ~ shifted
      BY <1>3 DEF Sound, Closed, Named
    <3>3. FilesAgree'
      BY <2>1, <3>1, <3>2 DEF FilesAgree, Agree
    <3>4. \A k \in persisted' \ (done' \cup overtaken') : Kept(k)'
      BY <1>3 DEF Sound, Closed, Kept
    <3>5. Clean => compaction' \notin {"reading"} \cup Closed /\ appending.at = newest
      BY <1>3 DEF Sound, Closed
    <3>6. Clean /\ appending.pc = "indexing" =>
            appending.message \in DOMAIN index' /\ Agree(appending.message)'
      BY <1>3, <3>1 DEF Sound, Agree
    <3>7. QED
      BY <2>1, <3>1, <3>2, <3>3, <3>4, <3>5, <3>6 DEF Sound, Closed
<1>4. QED
  BY <1>1, <1>2, <1>3

\* One entry of the batch goes back into the index and into the new files.
LEMMA FlushEntryStep ==
  ASSUME IInv, NEW m \in Message, FlushEntry(m)
  PROVE  IInv'
<1> USE DEF IInv
<1>1. /\ stream \in Generation /\ stream \in 0 .. newest
      /\ liveIndex \in Generation /\ liveIndex \in 0 .. newest
      /\ newest \in Generation /\ Pointer(stream) \in Generation \cup {None}
  BY LogAssumption DEF FlushEntry, Shape, Closed, TypeOK, None, Generation, Pointer
<1>2. /\ DOMAIN index' = DOMAIN index \cup {m}
      /\ index'[m] = [status |-> "pending", at |-> Pointer(stream)]
      /\ \A k \in DOMAIN index : k /= m => index'[k] = index[k]
  BY DEF FlushEntry, Put
<1>3. /\ entries'[stream] = entries[stream] \cup {m}
      /\ \A h \in Generation : h /= stream => entries'[h] = entries[h]
      /\ entries' \in [Generation -> SUBSET Message]
  BY <1>1 DEF FlushEntry, TypeOK
<1>4. /\ lines' = [h \in Generation |-> lines'[h]]
      /\ DOMAIN lines'[liveIndex] = DOMAIN lines[liveIndex] \cup {m}
      /\ lines'[liveIndex][m] = Pointer(stream)
      /\ \A k \in DOMAIN lines[liveIndex] :
           k /= m => lines'[liveIndex][k] = lines[liveIndex][k]
      /\ \A h \in Generation : h /= liveIndex => lines'[h] = lines[h]
  <2>1. lines' = [lines EXCEPT ![liveIndex] = Put(@, m, Pointer(stream))]
    BY DEF FlushEntry
  <2>2. /\ lines' = [h \in Generation |-> lines'[h]]
        /\ lines'[liveIndex] = Put(lines[liveIndex], m, Pointer(stream))
        /\ \A h \in Generation : h /= liveIndex => lines'[h] = lines[h]
    BY <1>1, <2>1 DEF Shape
  <2>3. QED
    BY <2>2 DEF Put
<1>5. /\ pending' = pending \ {m} /\ m \in pending /\ compaction = "writing"
      /\ UNCHANGED <<liveSegment, liveIndex, newest, stream, shifted, lock, appending,
                     compaction, unread, writeBatch, life, ghosts>>
  BY DEF FlushEntry
<1>6. TypeOK'
  <2>1. \A h \in Generation :
          /\ DOMAIN lines'[h] \subseteq Message
          /\ \A k \in DOMAIN lines'[h] : lines'[h][k] \in Generation \cup {None}
    BY <1>1, <1>4 DEF TypeOK
  <2>2. \A k \in DOMAIN index' :
          index'[k] \in [status : {"pending", "completed"}, at : Generation \cup {None}]
    BY <1>1, <1>2 DEF TypeOK
  <2>3. QED
    BY <1>2, <1>3, <1>5, <2>1, <2>2 DEF TypeOK, life, ghosts
<1>7. Shape'
  <2>1. \A h \in Generation : h > newest => entries'[h] = {} /\ DOMAIN lines'[h] = {}
    BY <1>1, <1>3, <1>4 DEF Shape, Generation
  <2>2. QED
    BY <1>2, <1>4, <1>5, <2>1 DEF Shape, life, ghosts
<1>8. ASSUME whole PROVE Sound'
  <2>1. /\ FilesAgree /\ stream = newest /\ Pointer(stream) = stream
        /\ Loose' = Loose /\ (Clean' <=> Clean)
    BY <1>5, <1>8 DEF Sound, Named, Closed, Loose, Clean, ghosts, Pointer
  <2>2. ASSUME NEW k \in Message, k = m \/ Agree(k)
        PROVE  Agree(k)' /\ (k \in DOMAIN index \/ k = m => k \in DOMAIN index')
    BY <1>1, <1>2, <1>3, <1>4, <1>5, <2>1, <2>2 DEF Agree, FilesAgree
  <2>3. FilesAgree'
    BY <1>5, <2>1, <2>2 DEF FilesAgree
  <2>4. \A k \in persisted' \ (done' \cup overtaken') : Kept(k)'
    BY <1>2, <1>5, <1>8 DEF Sound, Kept, Closed, ghosts
  <2>5. Clean /\ appending.pc = "indexing" =>
          appending.message \in DOMAIN index' /\ Agree(appending.message)'
    <3>1. SUFFICES ASSUME Clean, appending.pc = "indexing"
                   PROVE  /\ appending.message \in DOMAIN index'
                          /\ Agree(appending.message)'
      OBVIOUS
    <3>2. /\ appending.message \in Message /\ appending.message \in DOMAIN index
          /\ Agree(appending.message) /\ appending' = appending
      BY <1>5, <1>8, <3>1 DEF Sound, Shape
    <3>3. PICK k \in Message : k = appending.message /\ k = appending'.message
      BY <3>2
    <3>4. Agree(k)' /\ k \in DOMAIN index'
      BY <2>2, <3>2, <3>3
    <3>5. QED
      BY <3>3, <3>4 DEF Agree
  <2>6. QED
    BY <1>2, <1>5, <1>8, <2>1, <2>3, <2>4, <2>5 DEF Sound, Closed, ghosts
<1>9. QED
  BY <1>5, <1>6, <1>7, <1>8 DEF ghosts

LEMMA FlushFailsStep ==
  ASSUME IInv, FlushFails
  PROVE  IInv'
<1> USE DEF IInv
<1>1. /\ lock' = "broken" /\ compaction' = "idle" /\ whole' = FALSE
      /\ UNCHANGED <<lines, liveSegment, liveIndex, newest, stream, shifted, appending,
                     unread, pending, writeBatch, life, persisted, refused,
                     done, overtaken>>
  BY DEF FlushFails
<1>2. \/ UNCHANGED <<entries, index>>
      \/ \E m \in pending :
           /\ entries' = [entries EXCEPT ![stream] = @ \cup {m}]
           /\ index' = Put(index, m, [status |-> "pending", at |-> Pointer(stream)])
  BY DEF FlushFails
<1>3. /\ compaction \notin Closed /\ stream \in Generation
      /\ stream \in 0 .. newest /\ newest \in Generation
      /\ Pointer(stream) \in Generation \cup {None}
  BY LogAssumption DEF FlushFails, Shape, Closed, TypeOK, None, Generation, Pointer
<1>4. CASE UNCHANGED <<entries, index>>
  <2>1. TypeOK'
    BY <1>1, <1>4 DEF TypeOK, Phases, life
  <2>2. Shape'
    BY <1>1, <1>3, <1>4 DEF Shape, Closed, life
  <2>3. QED
    BY <1>1, <2>1, <2>2
<1>5. ASSUME NEW m \in pending,
             entries' = [entries EXCEPT ![stream] = @ \cup {m}],
             index' = Put(index, m, [status |-> "pending", at |-> Pointer(stream)])
      PROVE  IInv'
  <2>1. /\ DOMAIN index' = DOMAIN index \cup {m}
        /\ index'[m] = [status |-> "pending", at |-> Pointer(stream)]
        /\ \A k \in DOMAIN index : k /= m => index'[k] = index[k]
    BY <1>5 DEF Put
  <2>2. m \in Message
    BY DEF TypeOK
  <2>3. /\ entries'[stream] = entries[stream] \cup {m}
        /\ \A h \in Generation : h /= stream => entries'[h] = entries[h]
        /\ entries' \in [Generation -> SUBSET Message]
    BY <1>3, <1>5, <2>2 DEF TypeOK
  <2>4. TypeOK'
    <3>1. \A k \in DOMAIN index' :
            index'[k] \in [status : {"pending", "completed"}, at : Generation \cup {None}]
      BY <1>3, <2>1, <2>2 DEF TypeOK
    <3>2. QED
      BY <1>1, <1>3, <2>1, <2>2, <2>3, <3>1 DEF TypeOK, Phases, life
  <2>5. Shape'
    <3>1. \A h \in Generation : h > newest => entries'[h] = {} /\ DOMAIN lines'[h] = {}
      BY <1>1, <1>3, <2>3 DEF Shape, Generation
    <3>2. QED
      BY <1>1, <1>3, <2>1, <3>1 DEF Shape, Closed, life
  <2>6. QED
    BY <1>1, <2>4, <2>5
<1>6. QED
  BY <1>2, <1>4, <1>5

-----------------------------------------------------------------------------
(* Crash and restart                                                       *)

\* An index line that is lost is that of an append that has not returned.
LEMMA CrashStep ==
  ASSUME IInv, Crash
  PROVE  IInv'
<1> USE DEF IInv
<1>1. /\ newest' \in Generation /\ newest' \in {newest, newest + 1}
      /\ newest \in Generation
      /\ newest' = newest + 1 => liveSegment = None
      /\ liveSegment' \in 1 .. newest' /\ liveIndex' \in 1 .. newest'
      /\ stream' = liveSegment' /\ shifted' = FALSE /\ liveIndex' \in Generation
      /\ liveSegment /= None => liveSegment' = liveSegment
      /\ liveIndex /= None => liveIndex' = liveIndex
      /\ liveSegment /= None => newest' = newest
  BY LogAssumption DEF Crash, TypeOK, None, Generation
<1>2. /\ crashes < MaxCrashes /\ crashes' = crashes + 1 /\ serving' = FALSE
      /\ lock' = "free" /\ appending' = Idle
      /\ refused' = refused \cup ({appending.message} \ {NoMessage})
      /\ compaction' = "startup" /\ unread' = {} /\ pending' = {}
      /\ writeBatch' = {}
      /\ whole' = (whole /\ liveSegment /= None
                  /\ compaction \notin {"flushing", "writing"})
      /\ UNCHANGED <<entries, persisted, done, overtaken>>
  BY DEF Crash
<1>3. index' = [m \in DOMAIN lines'[liveIndex'] |->
                  [status |-> "pending", at |-> lines'[liveIndex'][m]]]
  BY DEF Crash
<1>4. \/ lines' = lines
      \/ appending.pc = "indexing" /\ lines' = LineLost
  BY DEF Crash
<1>5. /\ lines' = [h \in Generation |-> lines'[h]]
      /\ \A h \in Generation :
           /\ DOMAIN lines'[h] \subseteq DOMAIN lines[h]
           /\ \A k \in DOMAIN lines'[h] : lines'[h][k] = lines[h][k]
           /\ \A k \in DOMAIN lines[h] :
                k \in DOMAIN lines'[h]
                \/ (appending.pc = "indexing" /\ k = appending.message)
  <2>1. CASE lines' = lines
    BY <2>1 DEF Shape
  <2>2. CASE appending.pc = "indexing" /\ lines' = LineLost
    BY <2>2 DEF LineLost, Restrict, Shape
  <2>3. QED
    BY <1>4, <2>1, <2>2
<1>6. TypeOK'
  <2>1. \A h \in Generation :
          /\ DOMAIN lines'[h] \subseteq Message
          /\ \A k \in DOMAIN lines'[h] : lines'[h][k] \in Generation \cup {None}
    BY <1>5 DEF TypeOK
  <2>2. /\ DOMAIN index' \subseteq Message
        /\ \A k \in DOMAIN index' :
             index'[k] \in [status : {"pending", "completed"}, at : Generation \cup {None}]
    BY <1>1, <1>3, <2>1
  <2>3. appending' \in [pc : {"idle", "waiting", "writing", "indexing"},
                        message : Message \cup {NoMessage}, at : 0 .. newest']
    BY <1>1, <1>2, LogAssumption DEF Idle, None, Generation
  <2>4. crashes' \in 0 .. MaxCrashes
    BY <1>2, LogAssumption DEF TypeOK
  <2>5. refused' \subseteq Message
    BY <1>2 DEF TypeOK
  <2>6. liveSegment' \in 0 .. newest' /\ liveIndex' \in 0 .. newest'
        /\ stream' \in 0 .. newest'
    BY <1>1, LogAssumption DEF Generation
  <2>7. whole' \in BOOLEAN
    BY <1>2
  <2>8. done' \subseteq persisted' \cup refused' /\ persisted' \subseteq Message
    BY <1>2 DEF TypeOK
  <2>9. QED
    BY <1>1, <1>2, <2>1, <2>2, <2>3, <2>4, <2>5, <2>6, <2>7, <2>8
       DEF TypeOK, Phases
<1>7. Shape'
  <2>1. \A h \in Generation :
          h > newest' => entries'[h] = {} /\ DOMAIN lines'[h] = {}
    BY <1>1, <1>2, <1>5, LogAssumption DEF Shape, Generation
  <2>2. \A k \in DOMAIN index' : index'[k].status = "pending"
    BY <1>3
  <2>3. liveSegment' /= None /\ liveIndex' /= None /\ stream' /= None
    BY <1>1, LogAssumption DEF None, Generation
  <2>4. QED
    BY <1>2, <1>5, <2>1, <2>2, <2>3, LogAssumption DEF Shape, TypeOK, Closed, Idle
<1>8. ASSUME whole' PROVE Sound'
  <2>1. /\ whole /\ compaction \in {"idle", "startup", "reading", "archiving"}
        /\ FilesAgree
        /\ \A k \in persisted \ (done \cup overtaken) : k \in DOMAIN index
    BY <1>2, <1>8 DEF Sound, Named, Closed, Shape, TypeOK, Phases, Kept
  <2>2. /\ liveSegment' = newest /\ liveIndex' = newest /\ stream' = newest
        /\ newest' = newest
    BY <1>1, <2>1, GenerationFacts DEF FilesAgree
  <2>3. /\ Loose \ {NoMessage} \subseteq Loose' /\ ~ Clean'
        /\ appending.message \in Loose
    BY <1>2 DEF Loose, Idle, Clean
  <2>4. ASSUME NEW k \in Message \ Loose'
        PROVE  k \in Message \ Loose /\ Agree(k)'
    <3>1. k \in Message \ Loose /\ Agree(k)
      BY <2>1, <2>3, <2>4, LogAssumption DEF FilesAgree
    <3>2. /\ DOMAIN index' = DOMAIN lines'[newest]
          /\ k \in DOMAIN index' => index'[k].at = lines'[newest][k]
      BY <1>3, <2>2
    <3>3. k \in DOMAIN lines'[newest] =>
            lines'[newest][k] = newest /\ k \in entries[newest]
      BY <1>1, <1>5, <3>1 DEF Agree
    <3>4. QED
      BY <1>2, <2>2, <3>1, <3>2, <3>3 DEF Agree
  <2>5. ASSUME NEW k \in persisted' \ (done' \cup overtaken') PROVE Kept(k)'
    <3>1. k \in DOMAIN lines[newest] /\ k /= appending.message
      BY <1>2, <2>1, <2>3, <2>5, KeptIsFirm DEF FilesAgree, Agree
    <3>2. k \in DOMAIN index'
      BY <1>1, <1>3, <1>5, <2>2, <3>1
    <3>3. QED
      BY <1>2, <3>2 DEF Kept, Closed
  <2>6. FilesAgree'
    BY <2>2, <2>4 DEF FilesAgree
  <2>7. appending'.pc = "idle"
    BY <1>2 DEF Idle
  <2>8. QED
    BY <1>1, <1>2, <2>2, <2>3, <2>5, <2>6, <2>7 DEF Sound, Closed
<1>9. QED
  BY <1>6, <1>7, <1>8

-----------------------------------------------------------------------------

LEMMA InvStep == IInv /\ [Next]_vars => IInv'
<1> SUFFICES ASSUME IInv, [Next]_vars PROVE IInv'
  OBVIOUS
<1>1. CASE AppendStep
  BY <1>1, AppendRejections, AppendWriteStep, AppendWrittenStep, AppendDoneStep
     DEF AppendStep
<1>2. CASE CompactStep
  BY <1>2, CompactBegins, CompactReadStep, CompactFilesStep, CompactOpenStep,
     FlushLockStep, FlushEntryStep, FlushFailsStep DEF CompactStep
<1>3. CASE UNCHANGED vars
  <2>1. TypeOK'
    BY <1>3 DEF IInv, TypeOK, vars, disk, compacting, life, ghosts
  <2>2. Shape' /\ (Sound => Sound')
    BY <1>3 DEF IInv, Shape, Sound, Named, FilesAgree, Agree, Loose, Clean, Kept,
       vars, disk, compacting, life, ghosts
  <2>3. QED
    BY <1>3, <2>1, <2>2 DEF IInv, vars, ghosts
<1>4. QED
  BY <1>1, <1>2, <1>3, AppendBegins, UpdateStatusStep, CompactBegins, CrashStep
     DEF Next

LEMMA InvAlways == Spec => []IInv
BY InvInit, InvStep, PTL DEF Spec

\* The files, the index and the state of the lock stay in their types through
\* every order of appends, compactions, failures and crashes.
THEOREM TypeCorrect == Spec => []TypeOK
<1>1. IInv => TypeOK
  BY DEF IInv
<1>2. QED
  BY <1>1, InvAlways, PTL

\* A message that was appended, that no compaction met on its way and that is
\* not completed is recovered by any restart before the next rename, although
\* other appends overlap compactions, fail or break the lock and the process
\* dies at any time; `whole` excepts only a compaction that has renamed the
\* segment and dies or fails before it has rewritten the entries, and what
\* follows an append that has shifted the offsets of a segment (append, compact,
\* initialize).
THEOREM PendingAlwaysRetained == Spec => []PendingIsRetained
BY InvAlways, SoundIsEnough, PTL

\* Between compactions the index in memory and the files agree on every such
\* message (append, updateStatus, compact, initialize).
THEOREM IndexAlwaysMatchesFiles == Spec => []IndexMatchesFiles
BY InvAlways, SoundIsEnough, PTL
=============================================================================
