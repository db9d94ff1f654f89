--------------------------- MODULE Pipeline_proofs --------------------------
(***************************************************************************)
(* Proofs about Pipeline.tla for any set of messages and sources, any      *)
(* capacities of the queues and any number of starts: no message is lost   *)
(* or processed twice between ingestion and the I/O task, what has been    *)
(* persisted stays on disk until it is completed, over compactions that    *)
(* overlap everything else, but for the messages DurableUntilCompleted     *)
(* names, and the messages of a source are processed in the order they     *)
(* were acknowledged.                                                      *)
(*                                                                         *)
(* The three hang together, so one invariant carries them.  The pipeline   *)
(* is seen as a line: the messages processed, those queued for processing, *)
(* the one being persisted and those ingested.  OrderInv says that in this *)
(* line, and in the line of the messages passed to the log and those       *)
(* ingested, nothing repeats and each source is in the order of            *)
(* acknowledgement.  CountInv says which messages the line holds, and      *)
(* IndexInv where the log, the index and a compaction have them.           *)
(***************************************************************************)
EXTENDS Pipeline, SequenceLemmas, FiniteSetTheorems

\* s repeats nothing, and keeps the messages of a source in the order a.
InOrder(s, a) ==
  \A x, y \in ToSet(s) :
    Before(s, x, y) => x # y /\ (SourceOf[x] = SourceOf[y] => Before(a, x, y))

\* The messages of a, of b, the one at p and those of d, in this order.
Line(a, b, p, d) == a \o b \o (IF p = NoMessage THEN << >> ELSE <<p>>) \o d

OrderInv ==
  /\ InOrder(acknowledged, acknowledged)
  /\ InOrder(appended, acknowledged) /\ ToSet(appended) \subseteq ToSet(acknowledged)
  /\ ToSet(log) \cup ToSet(kept) \subseteq ToSet(appended)
  /\ InOrder(processed, acknowledged)
  /\ phase # "down" =>
       /\ InOrder(Line(processed, processingFifo, persisting, ingestionFifo),
                  acknowledged)
       /\ InOrder(Line(appended, << >>, NoMessage, ingestionFifo), acknowledged)
       /\ {persisting} \ {NoMessage} \subseteq ToSet(appended)

CountInv ==
  phase # "down" =>
    /\ ToSet(Places) = entered \ (failed \cup discarded)
    /\ failed \cup discarded \subseteq entered
    /\ failed \cap discarded = {}
    /\ entered \subseteq ToSet(acknowledged)
    /\ IsFiniteSet(discarded)
    /\ overflowCount = Cardinality(discarded)

\* The messages that still have to be completed, without the excepted ones.
Remaining == (ToSet(processingFifo) \cup ToSet(ioTaskQueue) \cup failed) \ exposed

\* What the log, the index in memory and the entries a compaction has read
\* hold of the messages.
StoreInv ==
  /\ \A m \in Message \ exposed : m \in ToSet(log) <=> m \in DOMAIN index
  /\ \A m \in Remaining : m \in Stored /\ (m \in ToSet(log) => index[m] = "pending")
  /\ ToSet(processed) \ (Stored \cup exposed) \subseteq completed
  /\ compaction = "reading" =>
       /\ Remaining \subseteq ToSet(kept)
       /\ ToSet(processed) \ (ToSet(kept) \cup exposed) \subseteq completed

\* The message that is being persisted is nowhere yet, and a compaction that
\* collects the pending entries exposes it.
WriteInv ==
  /\ persisting \notin ToSet(log) \cup DOMAIN index
  /\ compaction = "reading" => {persisting} \ {NoMessage} \subseteq exposed

TaskInv ==
  /\ ToSet(ioTaskQueue) \subseteq ToSet(processed)
  /\ \A x \in ToSet(ioTaskQueue) : ~ Before(ioTaskQueue, x, x)
  /\ \A m \in DOMAIN index : index[m] = "completed" => m \in completed

IndexInv ==
  /\ DOMAIN index \subseteq ToSet(appended)
  /\ phase # "down" => WriteInv /\ TaskInv
  /\ phase # "down" /\ ~ logBroken => StoreInv

IInv == TypeOK /\ OrderInv /\ CountInv /\ IndexInv

\* x is before y in the line of a, b, p and d.
Earlier(a, b, p, d, x, y) ==
  \/ Before(a, x, y) \/ Before(b, x, y) \/ Before(d, x, y)
  \/ x \in ToSet(a) /\ y \in ToSet(b)
  \/ x \in ToSet(a) \cup ToSet(b) /\ y = p /\ p # NoMessage
  \/ x \in ToSet(a) \cup ToSet(b) /\ y \in ToSet(d)
  \/ x = p /\ p # NoMessage /\ y \in ToSet(d)

\* The members and the order of a line.
LEMMA LineFacts ==
  ASSUME NEW a \in Seq(Message), NEW b \in Seq(Message),
         NEW p \in Message \cup {NoMessage}, NEW d \in Seq(Message)
  PROVE  /\ Line(a, b, p, d) \in Seq(Message)
         /\ ToSet(Line(a, b, p, d)) =
              ToSet(a) \cup ToSet(b) \cup ({p} \ {NoMessage}) \cup ToSet(d)
         /\ \A x, y : Before(Line(a, b, p, d), x, y) <=> Earlier(a, b, p, d, x, y)
<1> DEFINE c == IF p = NoMessage THEN << >> ELSE <<p>>
           ab == a \o b
           abc == ab \o c
<1>1. c \in Seq(Message)
  OBVIOUS
<1>2. ToSet(c) = {p} \ {NoMessage} /\ \A x, y : ~ Before(c, x, y)
  <2>1. CASE p = NoMessage
    <3>1. c = << >>
      BY <2>1
    <3>2. QED
      BY ONLY <2>1, <3>1, ToSetSingle, BeforeNothing
  <2>2. CASE p # NoMessage
    <3>1. c = <<p>>
      BY <2>2
    <3>2. QED
      BY ONLY <2>2, <3>1, ToSetSingle, BeforeNothing
  <2>3. QED
    BY <2>1, <2>2
<1>3. Line(a, b, p, d) = abc \o d
  BY DEF Line
<1> HIDE DEF c
<1>4. ab \in Seq(Message)
  OBVIOUS
<1>5. ToSet(ab) = ToSet(a) \cup ToSet(b)
  BY ToSetConcat
<1>6. \A x, y : Before(ab, x, y) <=> \/ Before(a, x, y) \/ Before(b, x, y)
                                     \/ x \in ToSet(a) /\ y \in ToSet(b)
  BY BeforeConcat
<1> HIDE DEF ab
<1>7. abc \in Seq(Message)
  BY <1>1, <1>4
<1>8. ToSet(abc) = ToSet(ab) \cup ToSet(c)
  BY <1>1, <1>4, ToSetConcat
<1>9. \A x, y : Before(abc, x, y) <=> \/ Before(ab, x, y) \/ Before(c, x, y)
                                      \/ x \in ToSet(ab) /\ y \in ToSet(c)
  BY <1>1, <1>4, BeforeConcat
<1> HIDE DEF abc
<1>10. abc \o d \in Seq(Message)
  BY <1>7
<1>11. ToSet(abc \o d) = ToSet(abc) \cup ToSet(d)
  BY <1>7, ToSetConcat
<1>12. \A x, y : Before(abc \o d, x, y) <=> \/ Before(abc, x, y) \/ Before(d, x, y)
                                            \/ x \in ToSet(abc) /\ y \in ToSet(d)
  BY <1>7, BeforeConcat
<1>13. QED
  <2>1. ToSet(abc \o d) = ToSet(a) \cup ToSet(b) \cup ({p} \ {NoMessage}) \cup ToSet(d)
    BY ONLY <1>2, <1>5, <1>8, <1>11
  <2>2. \A x, y : Before(abc \o d, x, y) <=> Earlier(a, b, p, d, x, y)
    BY ONLY <1>2, <1>5, <1>6, <1>8, <1>9, <1>12 DEF Earlier
  <2>3. QED
    BY <1>3, <1>10, <2>1, <2>2

-----------------------------------------------------------------------------
(* BySource orders the messages of each source by their timestamps.        *)

\* The messages stay the same, and so does the order within a source.
LEMMA BySourceFacts ==
  ASSUME NEW s \in Seq(Message), appended \in Seq(Message),
         \A x : ~ Before(appended, x, x), ToSet(s) \subseteq ToSet(appended)
  PROVE  /\ BySource(s) \in Seq(Message)
         /\ ToSet(BySource(s)) = ToSet(s)
         /\ \A x, y : Before(BySource(s), x, y) =>
              x # y /\ (SourceOf[x] = SourceOf[y] => Before(appended, x, y))
<1> DEFINE Seen(i) == \E j \in 1 .. i - 1 : SourceOf[s[j]] = SourceOf[s[i]]
           Same(i) == {m \in ToSet(s) : SourceOf[m] = SourceOf[s[i]]}
           ss == [i \in 1 .. Len(s) |->
                    IF Seen(i) THEN << >> ELSE Selected(appended, Same(i))]
<1>1. ss \in Seq(Seq(Message)) /\ Len(ss) = Len(s)
  <2>1. \A i \in 1 .. Len(s) : Selected(appended, Same(i)) \in Seq(Message)
    BY SelectedTyped
  <2>2. ss \in [1 .. Len(s) -> Seq(Message)]
    BY <2>1
  <2>3. QED
    BY <2>2
<1>2. BySource(s) = FlattenSeq(ss)
  BY DEF BySource
<1>3. \A i \in 1 .. Len(s) : s[i] \in Message /\ s[i] \in ToSet(s)
  BY DEF ToSet
<1>4. \A x : x \in ToSet(s) => x \in Message
  BY DEF ToSet
<1>5. ASSUME NEW i \in 1 .. Len(s), NEW x
      PROVE  x \in ToSet(ss[i]) <=>
               ~ Seen(i) /\ x \in ToSet(s) /\ SourceOf[x] = SourceOf[s[i]]
  <2>1. CASE Seen(i)
    <3>1. ss[i] = << >>
      BY <2>1
    <3> HIDE DEF ss, Seen
    <3>2. QED
      BY <2>1, <3>1, ToSetSingle
  <2>2. CASE ~ Seen(i)
    <3>1. ss[i] = Selected(appended, Same(i))
      BY <2>2
    <3>2. ToSet(Selected(appended, Same(i))) = ToSet(appended) \cap Same(i)
      BY SelectedRange
    <3> HIDE DEF ss, Seen
    <3>3. QED
      BY <1>4, <2>2, <3>1, <3>2
  <2>3. QED
    BY <2>1, <2>2
<1>6. ASSUME NEW i \in 1 .. Len(s), NEW x, NEW y, Before(ss[i], x, y)
      PROVE  Before(appended, x, y)
  <2>1. CASE Seen(i)
    <3>1. ss[i] = << >>
      BY <2>1
    <3>2. QED
      BY <1>6, <3>1, BeforeNothing
  <2>2. CASE ~ Seen(i)
    <3> DEFINE q == Selected(appended, Same(i))
    <3>1. ss[i] = q
      BY <2>2
    <3>2. q \in Seq(Message) /\ IsSubsequence(q, appended)
      BY SelectedTyped, SelectedIsSubsequence
    <3> HIDE DEF q, ss
    <3>3. DOMAIN q = 1 .. Len(q) /\ DOMAIN appended = 1 .. Len(appended)
      BY <3>2
    <3>4. Before(q, x, y)
      BY <1>6, <3>1
    <3>5. QED
      BY <3>2, <3>3, <3>4, BeforeInSubsequence
  <2>3. QED
    BY <2>1, <2>2
<1> HIDE DEF ss
<1>7. /\ FlattenSeq(ss) \in Seq(Message)
      /\ \A x : x \in ToSet(FlattenSeq(ss)) <=> \E k \in 1 .. Len(s) : x \in ToSet(ss[k])
      /\ \A x, y : Before(FlattenSeq(ss), x, y) => BeforeIn(ss, Len(s), x, y)
  BY <1>1, FlattenProperties
<1>8. ASSUME NEW x \in ToSet(s)
      PROVE  \E k \in 1 .. Len(s) : x \in ToSet(ss[k])
  <2> DEFINE Ones == {k \in 1 .. Len(s) : SourceOf[s[k]] = SourceOf[x]}
  <2>1. PICK i \in 1 .. Len(s) : s[i] = x
    BY DEF ToSet
  <2>2. Ones \subseteq Nat /\ Ones # {}
    BY <2>1
  <2>3. PICK k \in Ones : \A l \in Ones : k <= l
    <3> HIDE DEF Ones
    <3>1. QED
      BY <2>2, NatMin
  <2>4. ~ Seen(k)
    BY <2>3
  <2>5. QED
    BY <1>5, <2>4
<1>9. ToSet(FlattenSeq(ss)) = ToSet(s)
  <2>1. \A x : x \in ToSet(FlattenSeq(ss)) => x \in ToSet(s)
    BY <1>5, <1>7
  <2>2. \A x : x \in ToSet(s) => x \in ToSet(FlattenSeq(ss))
    BY <1>7, <1>8
  <2>3. QED
    BY <2>1, <2>2
<1>10. ASSUME NEW x, NEW y, Before(FlattenSeq(ss), x, y)
       PROVE  x # y /\ (SourceOf[x] = SourceOf[y] => Before(appended, x, y))
  <2>1. BeforeIn(ss, Len(s), x, y)
    BY <1>7, <1>10
  <2>2. CASE \E k \in 1 .. Len(s) : Before(ss[k], x, y)
    <3>1. Before(appended, x, y)
      BY <1>6, <2>2
    <3>2. QED
      BY <3>1
  <2>3. CASE \E k, l \in 1 .. Len(s) : k < l /\ x \in ToSet(ss[k]) /\ y \in ToSet(ss[l])
    <3>1. PICK k, l \in 1 .. Len(s) : k < l /\ x \in ToSet(ss[k]) /\ y \in ToSet(ss[l])
      BY <2>3
    <3>2. SourceOf[x] = SourceOf[s[k]] /\ SourceOf[y] = SourceOf[s[l]] /\ ~ Seen(l)
      BY <1>5, <3>1
    <3>3. k \in 1 .. l - 1
      BY <3>1
    <3>4. SourceOf[s[k]] # SourceOf[s[l]]
      BY <3>2, <3>3
    <3>5. QED
      BY <3>2, <3>4
  <2>4. QED
    BY <2>1, <2>2, <2>3 DEF BeforeIn
<1>11. QED
  BY <1>2, <1>7, <1>9, <1>10

-----------------------------------------------------------------------------
(* A push to a queue that discards its oldest message.                     *)

\* The queue q has become `rest` and x, and the messages of D are gone.
Pushed(q, r, x, D, rest) ==
  /\ rest \in Seq(Message)
  /\ ToSet(r) = ToSet(rest) \cup {x}
  /\ \A a, b : Before(r, a, b) <=> Before(rest, a, b) \/ (a \in ToSet(rest) /\ b = x)
  /\ ToSet(q) = D \cup ToSet(rest)
  /\ \A a, b : Before(q, a, b) <=> Before(rest, a, b) \/ (a \in D /\ b \in ToSet(rest))

\* A push displaces the oldest message of a full queue, and only that.
LEMMA PushFacts ==
  ASSUME NEW q \in Seq(Message), NEW capacity \in Nat \ {0}, Len(q) <= capacity,
         NEW x \in Message
  PROVE  LET r == AppendDiscardingOldest(q, x, capacity)
             D == Displaced(q, capacity)
         IN  /\ r \in Seq(Message) /\ Len(r) <= capacity
             /\ D \subseteq Message
             /\ D = {} \/ \E d : D = {d}
             /\ \E rest : Pushed(q, r, x, D, rest)
<1> DEFINE r == AppendDiscardingOldest(q, x, capacity)
           D == Displaced(q, capacity)
<1>1. CASE IsFull(q, capacity)
  <2>1. q # << >> /\ Len(q) = capacity
    BY <1>1 DEF IsFull
  <2> DEFINE t == Tail(q)
             h == Head(q)
  <2>2. /\ h \in Message /\ t \in Seq(Message) /\ Len(t) = Len(q) - 1
        /\ ToSet(q) = {h} \cup ToSet(t)
        /\ \A a, b : Before(q, a, b) <=> Before(t, a, b) \/ (a = h /\ b \in ToSet(t))
    BY <2>1, HeadAndTail
  <2>3. r = Append(t, x) /\ D = {h}
    BY <1>1 DEF AppendDiscardingOldest, Displaced
  <2> HIDE DEF r, D, t, h
  <2>4. r \in Seq(Message) /\ Len(r) <= capacity
    BY <2>1, <2>2, <2>3
  <2>5. ToSet(r) = ToSet(t) \cup {x}
    BY <2>2, <2>3, AppendToSet
  <2>6. \A a, b : Before(r, a, b) <=> Before(t, a, b) \/ (a \in ToSet(t) /\ b = x)
    BY <2>2, <2>3, BeforeAppend
  <2>7. Pushed(q, r, x, D, t)
    BY <2>2, <2>3, <2>5, <2>6 DEF Pushed
  <2>8. QED
    BY <2>2, <2>3, <2>4, <2>7 DEF r, D
<1>2. CASE ~ IsFull(q, capacity)
  <2>1. Len(q) < capacity
    BY <1>2 DEF IsFull
  <2>2. r = Append(q, x) /\ D = {}
    BY <1>2 DEF AppendDiscardingOldest, Displaced
  <2> HIDE DEF r, D
  <2>3. r \in Seq(Message) /\ Len(r) <= capacity
    BY <2>1, <2>2
  <2>4. ToSet(r) = ToSet(q) \cup {x}
    BY <2>2, AppendToSet
  <2>5. \A a, b : Before(r, a, b) <=> Before(q, a, b) \/ (a \in ToSet(q) /\ b = x)
    BY <2>2, BeforeAppend
  <2>6. Pushed(q, r, x, D, q)
    BY <2>2, <2>4, <2>5 DEF Pushed
  <2>7. QED
    BY <2>2, <2>3, <2>6 DEF r, D
<1>3. QED
  BY <1>1, <1>2

\* What is assumed of the constants.
LEMMA Capacities ==
  /\ IngestionCapacity \in Nat \ {0} /\ ProcessingCapacity \in Nat \ {0}
  /\ IOCapacity \in Nat \ {0} /\ MaxStarts \in Nat /\ NoMessage \notin Message
BY PipelineAssumption

\* The excess of the recovered messages over the queue, and the rest of them.
LEMMA SplitAt ==
  ASSUME NEW X, NEW s \in Seq(X), NEW n \in 0 .. Len(s)
  PROVE  /\ SubSeq(s, 1, n) \in Seq(X) /\ Len(SubSeq(s, 1, n)) = n
         /\ SubSeq(s, n + 1, Len(s)) \in Seq(X)
         /\ Len(SubSeq(s, n + 1, Len(s))) = Len(s) - n
         /\ s = SubSeq(s, 1, n) \o SubSeq(s, n + 1, Len(s))
<1>1. /\ SubSeq(s, 1, n) \in Seq(X) /\ Len(SubSeq(s, 1, n)) = n
      /\ SubSeq(s, n + 1, Len(s)) \in Seq(X)
      /\ Len(SubSeq(s, n + 1, Len(s))) = Len(s) - n
  OBVIOUS
<1>2. 1 \in 1 .. Len(s) + 1 /\ n \in 1 - 1 .. Len(s) /\ Len(s) \in n .. Len(s)
  OBVIOUS
<1>3. SubSeq(s, 1, n) \o SubSeq(s, n + 1, Len(s)) = SubSeq(s, 1, Len(s))
  BY <1>2, ConcatAdjacentSubSeq
<1>4. SubSeq(s, 1, Len(s)) = s
  BY SubSeqFull
<1>5. QED
  BY <1>1, <1>3, <1>4

\* What recovery makes of the log.
LEMMA RecoveredFacts ==
  ASSUME TypeOK, OrderInv
  PROVE  /\ BySource(log) \in Seq(Message)
         /\ ToSet(BySource(log)) = ToSet(log)
         /\ \A x, y : Before(BySource(log), x, y) =>
              x # y /\ (SourceOf[x] = SourceOf[y] => Before(acknowledged, x, y))
<1>1. log \in Seq(Message) /\ appended \in Seq(Message)
  BY DEF TypeOK
<1>2. \A x, y : Before(appended, x, y) =>
                  x # y /\ (SourceOf[x] = SourceOf[y] => Before(acknowledged, x, y))
  BY BeforeIsIn DEF OrderInv, InOrder
<1>3. \A x : ~ Before(appended, x, x)
  BY <1>2
<1>4. ToSet(log) \subseteq ToSet(appended)
  BY DEF OrderInv
<1>5. /\ BySource(log) \in Seq(Message) /\ ToSet(BySource(log)) = ToSet(log)
      /\ \A x, y : Before(BySource(log), x, y) =>
           x # y /\ (SourceOf[x] = SourceOf[y] => Before(appended, x, y))
  BY <1>1, <1>3, <1>4, BySourceFacts
<1>6. QED
  BY <1>2, <1>5

Excess == IF Len(BySource(log)) > ProcessingCapacity
          THEN Len(BySource(log)) - ProcessingCapacity ELSE 0

\* As many recovered messages are displaced as do not fit.
LEMMA ExcessFacts ==
  ASSUME BySource(log) \in Seq(Message)
  PROVE  Excess \in 0 .. Len(BySource(log))
         /\ Len(BySource(log)) - Excess <= ProcessingCapacity
BY Capacities DEF Excess

-----------------------------------------------------------------------------
(* Types.                                                                  *)

\* The members of a sequence of messages are messages.
LEMMA ToSetTyped == \A X : \A s \in Seq(X) : ToSet(s) \subseteq X
BY DEF ToSet

\* At most one message is displaced.
LEMMA DisplacedCount ==
  ASSUME NEW q \in Seq(Message), NEW capacity \in Nat \ {0}, Len(q) <= capacity
  PROVE  /\ IsFiniteSet(Displaced(q, capacity))
         /\ Cardinality(Displaced(q, capacity)) \in Nat
         /\ Displaced(q, capacity) \subseteq Message
<1>1. Displaced(q, capacity) = {} \/ \E d : Displaced(q, capacity) = {d}
  BY DEF Displaced
<1>2. IsFiniteSet({}) /\ \A d : IsFiniteSet({d})
  BY ONLY FS_EmptySet, FS_Singleton
<1> HIDE DEF Displaced
<1>5. IsFiniteSet(Displaced(q, capacity))
  <2> DEFINE D == Displaced(q, capacity)
  <2>1. D = {} \/ \E d : D = {d}
    BY <1>1
  <2> HIDE DEF D
  <2>2. IsFiniteSet(D)
    BY ONLY <1>2, <2>1
  <2> QED
    BY <2>2 DEF D
<1>3. IsFull(q, capacity) => Head(q) \in Message
  BY DEF IsFull
<1>4. QED
  BY <1>5, <1>3, FS_CardinalityType DEF Displaced

\* Each action keeps the types.
LEMMA StartTypes == TypeOK /\ OrderInv /\ Start => TypeOK'
<1>1. SUFFICES ASSUME TypeOK, OrderInv, Start PROVE TypeOK'
  OBVIOUS
<1>3. log \in Seq(Message) /\ BySource(log) \in Seq(Message)
  BY <1>1, RecoveredFacts DEF TypeOK
<1>4. /\ Excess \in 0 .. Len(BySource(log))
      /\ Len(BySource(log)) - Excess <= ProcessingCapacity
  BY <1>3, ExcessFacts
<1>5. /\ processingFifo' = SubSeq(BySource(log), Excess + 1, Len(BySource(log)))
      /\ discarded' = ToSet(SubSeq(BySource(log), 1, Excess))
      /\ overflowCount' = Excess
  BY <1>1 DEF Start, Excess
<1>6. /\ processingFifo' \in Seq(Message)
      /\ Len(processingFifo') <= ProcessingCapacity
      /\ discarded' \subseteq Message
  <2> DEFINE pending == BySource(log)
             n == Excess
  <2>1. pending \in Seq(Message) /\ n \in 0 .. Len(pending)
    BY <1>3, <1>4
  <2>2. /\ processingFifo' = SubSeq(pending, n + 1, Len(pending))
        /\ discarded' = ToSet(SubSeq(pending, 1, n))
        /\ Len(pending) - n <= ProcessingCapacity
    BY <1>4, <1>5
  <2> HIDE DEF pending, n
  <2>3. /\ SubSeq(pending, 1, n) \in Seq(Message)
        /\ SubSeq(pending, n + 1, Len(pending)) \in Seq(Message)
        /\ Len(SubSeq(pending, n + 1, Len(pending))) = Len(pending) - n
    BY <2>1, SplitAt
  <2>4. QED
    BY <2>2, <2>3, ToSetTyped
<1>7. overflowCount' \in Nat
  BY <1>4, <1>5
<1>8. ToSet(log) \subseteq Message
  BY <1>3, ToSetTyped
<1>9. /\ DOMAIN index' = ToSet(log)
      /\ \A m \in DOMAIN index' : index'[m] \in {"pending", "completed"}
  BY <1>1 DEF Start
<1>10. starts' \in 0 .. MaxStarts
  BY <1>1, Capacities DEF TypeOK, Start
<1>11. /\ phase' = "running" /\ ingestionFifo' = << >> /\ ioTaskQueue' = << >>
       /\ persisting' = NoMessage /\ logBroken' = FALSE /\ misplaced' = FALSE
       /\ log' = log /\ compaction' = "idle" /\ kept' = << >> /\ exposed' = {}
       /\ acknowledged' = acknowledged /\ appended' = appended /\ completed' = {}
       /\ entered' = ToSet(log) /\ processed' = << >> /\ failed' = {}
  BY <1>1 DEF Start
<1>12. << >> \in Seq(Message) /\ Len(<< >>) = 0
  OBVIOUS
<1>13. QED
  <2>1. << >> \in Seq(Message) /\ 0 <= IngestionCapacity /\ 0 <= IOCapacity
    BY Capacities
  <2>2. /\ log \in Seq(Message) /\ acknowledged \in Seq(Message)
        /\ appended \in Seq(Message)
    BY <1>1 DEF TypeOK
  <2>3. QED
    BY ONLY <1>6, <1>7, <1>8, <1>9, <1>10, <1>11, <1>12, <2>1, <2>2 DEF TypeOK

LEMMA IngestTypes ==
  ASSUME TypeOK, NEW m \in Message, Ingest(m) PROVE TypeOK'
<1>1. /\ ingestionFifo' \in Seq(Message) /\ Len(ingestionFifo') <= IngestionCapacity
      /\ Displaced(ingestionFifo, IngestionCapacity) \subseteq Message
  BY PushFacts, Capacities DEF TypeOK, Ingest
<1>2. Cardinality(Displaced(ingestionFifo, IngestionCapacity)) \in Nat
  BY DisplacedCount, Capacities DEF TypeOK
<1>3. overflowCount' \in Nat
  BY <1>2 DEF TypeOK, Ingest
<1>4. acknowledged' \in Seq(Message) /\ discarded' \subseteq Message /\ entered' \subseteq Message
  BY <1>1 DEF TypeOK, Ingest
<1>5. QED
  BY <1>1, <1>3, <1>4 DEF TypeOK, Ingest, store, compacting, overlap

LEMMA StartPersistTypes == TypeOK /\ StartPersist => TypeOK'
<1>1. SUFFICES ASSUME TypeOK, StartPersist PROVE TypeOK'
  OBVIOUS
<1>2. /\ ingestionFifo' \in Seq(Message) /\ Len(ingestionFifo') <= IngestionCapacity
      /\ persisting' \in Message
  BY <1>1, HeadTailProperties, Capacities DEF TypeOK, StartPersist
<1>3. appended' \in Seq(Message) /\ exposed' \subseteq Message
  BY <1>1, <1>2 DEF TypeOK, StartPersist
<1>4. QED
  BY <1>1, <1>2, <1>3 DEF TypeOK, StartPersist, store, compacting, memory

\* The three ways in which persist() ends.
PersistEnds == PersistSucceeds \/ PersistArchived \/ PersistFails

\* However persist() ends, its message moves on, and a success that can be
\* found in the log has appended it there.
LEMMA PersistFacts ==
  ASSUME TypeOK, PersistEnds
  PROVE  /\ phase # "down" /\ persisting \in Message /\ persisting # NoMessage
         /\ PushToProcessing
         /\ log' = log \/ log' = Append(log, persisting)
<1>1. persisting # NoMessage
  BY Capacities DEF TypeOK, PersistEnds, PersistSucceeds, PersistArchived, PersistFails,
     CanWrite
<1>2. persisting \in Message /\ log \in Seq(Message)
  BY <1>1 DEF TypeOK
<1>3. log \o <<persisting>> = Append(log, persisting)
  BY <1>2, AppendIsConcat
<1>4. log' = log \/ log' = log \o <<persisting>>
  BY DEF PersistEnds, PersistSucceeds, PersistArchived, PersistFails, Written
<1>5. phase # "down" /\ PushToProcessing
  BY DEF PersistEnds, PersistSucceeds, PersistArchived, PersistFails, CanWrite
<1>6. QED
  BY <1>1, <1>2, <1>3, <1>4, <1>5

LEMMA PushTypes ==
  ASSUME TypeOK, persisting # NoMessage, PushToProcessing
  PROVE  /\ processingFifo' \in Seq(Message)
         /\ Len(processingFifo') <= ProcessingCapacity
         /\ discarded' \subseteq Message
         /\ overflowCount' \in Nat
<1>1. persisting \in Message
  BY DEF TypeOK
<1>2. /\ processingFifo' \in Seq(Message) /\ Len(processingFifo') <= ProcessingCapacity
      /\ Displaced(processingFifo, ProcessingCapacity) \subseteq Message
  BY <1>1, PushFacts, Capacities DEF TypeOK, PushToProcessing
<1>3. Cardinality(Displaced(processingFifo, ProcessingCapacity)) \in Nat
  BY DisplacedCount, Capacities DEF TypeOK
<1>4. QED
  BY <1>2, <1>3 DEF TypeOK, PushToProcessing

\* With a message more in the index, pending.
LEMMA IndexedTypes ==
  ASSUME TypeOK, NEW m \in Message
  PROVE  /\ DOMAIN Indexed(m) = DOMAIN index \cup {m}
         /\ Indexed(m)[m] = "pending"
         /\ \A k \in DOMAIN index : k # m => Indexed(m)[k] = index[k]
         /\ \A k \in DOMAIN Indexed(m) : Indexed(m)[k] \in {"pending", "completed"}
BY DEF TypeOK, Indexed

LEMMA PersistTypes == TypeOK /\ PersistEnds => TypeOK'
<1>1. SUFFICES ASSUME TypeOK, PersistEnds PROVE TypeOK'
  OBVIOUS
<1>2. /\ phase # "down" /\ persisting \in Message /\ persisting # NoMessage
      /\ PushToProcessing
      /\ log' = log \/ log' = Append(log, persisting)
  BY <1>1, PersistFacts
<1>3. log' \in Seq(Message)
  <2>1. log \in Seq(Message)
    BY <1>1 DEF TypeOK
  <2>2. QED
    BY ONLY <1>2, <2>1, AppendProperties
<1>4. index' = index \/ index' = Indexed(persisting)
  BY <1>1 DEF PersistEnds, PersistSucceeds, PersistArchived, PersistFails
<1>5. /\ DOMAIN index' \subseteq Message
      /\ \A m \in DOMAIN index' : index'[m] \in {"pending", "completed"}
  <2>1. CASE index' = index
    BY <1>1, <2>1 DEF TypeOK
  <2>2. CASE index' = Indexed(persisting)
    <3>1. DOMAIN index' = DOMAIN index \cup {persisting}
      BY <1>1, <1>2, <2>2, IndexedTypes
    <3>2. \A m \in DOMAIN index' : index'[m] \in {"pending", "completed"}
      BY <1>1, <1>2, <2>2, IndexedTypes
    <3>3. QED
      BY <1>1, <1>2, <3>1, <3>2 DEF TypeOK
  <2>3. QED
    BY <1>4, <2>1, <2>2
<1>6. logBroken' \in BOOLEAN /\ misplaced' \in BOOLEAN /\ exposed' \subseteq Message
  BY <1>1, <1>2 DEF TypeOK, PersistEnds, PersistSucceeds, PersistArchived, PersistFails
<1>7. /\ processingFifo' \in Seq(Message) /\ Len(processingFifo') <= ProcessingCapacity
      /\ discarded' \subseteq Message /\ overflowCount' \in Nat
  BY <1>1, <1>2, PushTypes
<1>8. /\ persisting' = NoMessage
      /\ UNCHANGED <<phase, ingestionFifo, ioTaskQueue, compaction, kept, starts,
                     acknowledged, entered, processed, failed, completed, appended>>
  BY <1>2 DEF PushToProcessing, compacting
<1>9. QED
  BY <1>1, <1>3, <1>5, <1>6, <1>7, <1>8 DEF TypeOK

LEMMA WorkerZeroTypes == TypeOK /\ WorkerZero => TypeOK'
<1>1. ASSUME TypeOK, processingFifo # << >>
      PROVE  /\ Head(processingFifo) \in Message /\ Tail(processingFifo) \in Seq(Message)
             /\ Len(Tail(processingFifo)) <= ProcessingCapacity
  BY <1>1, HeadTailProperties, Capacities DEF TypeOK
<1>2. ASSUME TypeOK, Broadcast PROVE TypeOK'
  <2>1. ioTaskQueue' \in Seq(Message) /\ Len(ioTaskQueue') <= IOCapacity
    <3>1. CASE Len(ioTaskQueue) >= IOCapacity
      BY <1>2, <3>1 DEF TypeOK, Broadcast
    <3>2. CASE ~ (Len(ioTaskQueue) >= IOCapacity)
      BY <1>1, <1>2, <3>2, Capacities DEF TypeOK, Broadcast
    <3>3. QED
      BY <3>1, <3>2
  <2>2. processed' \in Seq(Message)
    BY <1>1, <1>2 DEF TypeOK, Broadcast
  <2>3. QED
    BY <1>1, <1>2, <2>1, <2>2 DEF TypeOK, Broadcast, store, compacting, overlap
<1>3. ASSUME TypeOK, BroadcastFails PROVE TypeOK'
  BY <1>1, <1>3 DEF TypeOK, BroadcastFails, store, compacting, overlap
<1>4. QED
  BY <1>2, <1>3 DEF WorkerZero

LEMMA MarkCompletedTypes == TypeOK /\ MarkCompleted => TypeOK'
<1>1. SUFFICES ASSUME TypeOK, MarkCompleted PROVE TypeOK'
  OBVIOUS
<1>2. /\ Head(ioTaskQueue) \in Message /\ ioTaskQueue' \in Seq(Message)
      /\ Len(ioTaskQueue') <= IOCapacity
  BY <1>1, HeadTailProperties, Capacities DEF TypeOK, MarkCompleted
<1>3. /\ DOMAIN index' \subseteq Message
      /\ \A m \in DOMAIN index' : index'[m] \in {"pending", "completed"}
  BY <1>1 DEF TypeOK, MarkCompleted
<1>4. kept' \in Seq(Message)
  <2>1. kept' = kept \/ kept' = Selected(kept, Message \ {Head(ioTaskQueue)})
    BY <1>1 DEF MarkCompleted
  <2>2. kept \in Seq(Message)
    BY <1>1 DEF TypeOK
  <2>3. QED
    BY <2>1, <2>2, SelectedTyped
<1>5. completed' \subseteq Message
  BY <1>1, <1>2 DEF TypeOK, MarkCompleted
<1>6. QED
  BY <1>1, <1>2, <1>3, <1>4, <1>5 DEF TypeOK, MarkCompleted, overlap

\* The entries that are rewritten are in the log afterwards, unless their
\* offsets are wrong, and pending in the index.
LEMMA RewrittenFacts ==
  ASSUME TypeOK, NEW n \in 0 .. Len(kept), Rewritten(n)
  PROVE  LET P == ToSet(SubSeq(kept, 1, n))
         IN  /\ P \subseteq ToSet(kept) /\ (n = Len(kept) => P = ToSet(kept))
             /\ log' \in Seq(Message)
             /\ ToSet(log') = IF misplaced THEN ToSet(log) ELSE ToSet(log) \cup P
             /\ DOMAIN index' = DOMAIN index \cup P /\ DOMAIN index' \subseteq Message
             /\ \A m \in P : index'[m] = "pending"
             /\ \A m \in DOMAIN index \ P : index'[m] = index[m]
             /\ \A m \in DOMAIN index' : index'[m] \in {"pending", "completed"}
<1> DEFINE first == SubSeq(kept, 1, n)
           P == ToSet(first)
<1>1. kept \in Seq(Message) /\ log \in Seq(Message)
  BY DEF TypeOK
<1>2. first \in Seq(Message) /\ P \subseteq ToSet(kept)
  <2>1. /\ first \in Seq(Message) /\ SubSeq(kept, n + 1, Len(kept)) \in Seq(Message)
        /\ kept = first \o SubSeq(kept, n + 1, Len(kept))
    BY <1>1, SplitAt
  <2> DEFINE rest == SubSeq(kept, n + 1, Len(kept))
  <2> HIDE DEF first, rest
  <2>2. ToSet(first \o rest) = ToSet(first) \cup ToSet(rest)
    BY <2>1, ToSetConcat DEF rest
  <2>3. QED
    BY <2>1, <2>2 DEF rest
<1>3. n = Len(kept) => P = ToSet(kept)
  BY <1>1, SubSeqFull
<1>4. /\ log' = IF misplaced THEN log ELSE log \o first
      /\ index' = [m \in DOMAIN index \cup P |-> IF m \in P THEN "pending" ELSE index[m]]
  BY DEF Rewritten, Written
<1> HIDE DEF first
<1>5. log' \in Seq(Message)
  BY <1>1, <1>2, <1>4
<1>6. ToSet(log \o first) = ToSet(log) \cup P
  BY <1>1, <1>2, ToSetConcat
<1>7. P \subseteq Message
  BY <1>2, ToSetTyped
<1> HIDE DEF P
<1>8. /\ DOMAIN index' = DOMAIN index \cup P /\ DOMAIN index' \subseteq Message
      /\ \A m \in P : index'[m] = "pending"
      /\ \A m \in DOMAIN index \ P : index'[m] = index[m]
      /\ \A m \in DOMAIN index' : index'[m] \in {"pending", "completed"}
  BY <1>4, <1>7 DEF TypeOK
<1>9. QED
  BY <1>2, <1>3, <1>4, <1>5, <1>6, <1>8 DEF P, first

CompactSteps ==
  CompactBegin \/ CompactArchive \/ CompactOpen \/ CompactRewrite \/ CompactFails

\* The message that is being persisted, if any, as a set.
LEMMA InFlightFacts ==
  ASSUME TypeOK
  PROVE  InFlight \in Seq(Message) /\ ToSet(InFlight) = {persisting} \ {NoMessage}
<1>1. persisting \in Message \cup {NoMessage}
  BY DEF TypeOK
<1>2. CASE persisting = NoMessage
  <2>1. InFlight = << >>
    BY <1>2 DEF InFlight
  <2>2. QED
    BY <1>2, <2>1, ToSetSingle
<1>3. CASE persisting # NoMessage
  <2>1. InFlight = <<persisting>> /\ persisting \in Message
    BY <1>1, <1>3 DEF InFlight
  <2>2. ToSet(InFlight) = {persisting}
    BY <2>1, ToSetSingle
  <2>3. QED
    BY <1>3, <2>1, <2>2
<1>4. QED
  BY <1>2, <1>3

\* The entries that a compaction begins with.
LEMMA CollectedFacts ==
  ASSUME TypeOK, CompactBegin
  PROVE  LET pending == {m \in DOMAIN index : index[m] = "pending"}
         IN  /\ kept' \in Seq(Message)
             /\ ToSet(log) \cap pending \subseteq ToSet(kept')
             /\ ToSet(kept') \subseteq ToSet(log) \cup ({persisting} \ {NoMessage})
<1> DEFINE pending == {m \in DOMAIN index : index[m] = "pending"}
           q == Selected(log, pending)
           f == InFlight
<1>1. log \in Seq(Message)
  BY DEF TypeOK
<1>2. q \in Seq(Message) /\ ToSet(q) = ToSet(log) \cap pending
  BY <1>1, SelectedTyped, SelectedRange
<1>3. f \in Seq(Message) /\ ToSet(f) = {persisting} \ {NoMessage}
  BY InFlightFacts
<1>4. kept' = q \/ kept' = q \o f
  BY DEF CompactBegin
<1> HIDE DEF q, f, pending
<1>5. q \o f \in Seq(Message) /\ ToSet(q \o f) = ToSet(q) \cup ToSet(f)
  BY <1>2, <1>3, ToSetConcat
<1>6. QED
  BY <1>2, <1>3, <1>4, <1>5 DEF pending

\* What no step of a compaction touches, and what it may move.
LEMMA CompactFacts ==
  ASSUME TypeOK, CompactSteps
  PROVE  /\ phase # "down"
         /\ UNCHANGED <<phase, queues, overflowCount, starts, memory, appended>>
         /\ log' \in Seq(Message) /\ kept' \in Seq(Message)
         /\ ToSet(log') \subseteq ToSet(log) \cup ToSet(kept)
         /\ ToSet(kept') \subseteq
              ToSet(kept) \cup ToSet(log) \cup ({persisting} \ {NoMessage})
         /\ DOMAIN index' \subseteq DOMAIN index \cup ToSet(kept)
<1>1. log \in Seq(Message) /\ kept \in Seq(Message)
  BY DEF TypeOK
<1>2. << >> \in Seq(Message) /\ DOMAIN << >> = {} /\ ToSet(<< >>) = {}
  BY ToSetSingle
<1>3. CASE CompactBegin
  BY <1>1, <1>3, CollectedFacts DEF CompactBegin, store
<1>4. CASE CompactArchive
  <2>1. log' = << >> /\ index' = << >> /\ kept' = kept
    BY <1>4 DEF CompactArchive
  <2>2. ToSet(log') = {} /\ DOMAIN index' = {}
    BY <1>2, <2>1
  <2>3. phase # "down" /\ UNCHANGED <<phase, queues, overflowCount, starts, memory, appended>>
    BY <1>4 DEF CompactArchive, overlap
  <2>4. QED
    BY <1>1, <1>2, <2>1, <2>2, <2>3
<1>5. CASE CompactOpen
  BY <1>1, <1>5 DEF CompactOpen, overlap
<1>6. CASE CompactRewrite
  <2>1. Len(kept) \in 0 .. Len(kept) /\ Rewritten(Len(kept)) /\ kept' = << >>
    BY <1>1, <1>6 DEF CompactRewrite
  <2>2. /\ log' \in Seq(Message) /\ ToSet(log') \subseteq ToSet(log) \cup ToSet(kept)
        /\ DOMAIN index' \subseteq DOMAIN index \cup ToSet(kept)
    BY <2>1, RewrittenFacts
  <2>3. phase # "down" /\ UNCHANGED <<phase, queues, overflowCount, starts, memory, appended>>
    BY <1>6 DEF CompactRewrite, CanRewrite
  <2>4. QED
    BY <1>2, <2>1, <2>2, <2>3
<1>7. CASE CompactFails
  <2>1. CASE UNCHANGED <<log, index>>
    BY <1>1, <1>7, <2>1 DEF CompactFails, overlap
  <2>2. CASE \E n \in 0 .. Len(kept) - 1 : Rewritten(n)
    <3>1. PICK n \in 0 .. Len(kept) - 1 : Rewritten(n)
      BY <2>2
    <3>2. n \in 0 .. Len(kept)
      BY <1>1
    <3>3. /\ log' \in Seq(Message) /\ ToSet(log') \subseteq ToSet(log) \cup ToSet(kept)
          /\ DOMAIN index' \subseteq DOMAIN index \cup ToSet(kept)
      BY <3>1, <3>2, RewrittenFacts
    <3>4. QED
      BY <1>1, <1>7, <3>3 DEF CompactFails, overlap
  <2>3. QED
    BY <1>7, <2>1, <2>2 DEF CompactFails
<1>8. QED
  BY <1>3, <1>4, <1>5, <1>6, <1>7 DEF CompactSteps

LEMMA CompactTypes == TypeOK /\ CompactSteps => TypeOK'
<1>1. SUFFICES ASSUME TypeOK, CompactSteps PROVE TypeOK'
  OBVIOUS
<1>2. /\ UNCHANGED <<phase, queues, overflowCount, starts, memory, appended>>
      /\ log' \in Seq(Message) /\ kept' \in Seq(Message)
      /\ DOMAIN index' \subseteq DOMAIN index \cup ToSet(kept)
  BY <1>1, CompactFacts
<1>3. ToSet(kept) \subseteq Message /\ ToSet(InFlight) \subseteq Message
  BY <1>1, InFlightFacts, ToSetTyped DEF TypeOK
<1>4. DOMAIN index' \subseteq Message
  BY <1>1, <1>2, <1>3 DEF TypeOK
<1>5. \A m \in DOMAIN index' : index'[m] \in {"pending", "completed"}
  <2>1. CASE index' = index
    BY <1>1, <2>1 DEF TypeOK
  <2>2. CASE index' = << >>
    BY <2>2
  <2>3. CASE \E n \in 0 .. Len(kept) : Rewritten(n)
    BY <1>1, <2>3, RewrittenFacts
  <2>4. QED
    <3>1. kept \in Seq(Message)
      BY <1>1 DEF TypeOK
    <3>2. Len(kept) \in 0 .. Len(kept) /\ 0 .. Len(kept) - 1 \subseteq 0 .. Len(kept)
      BY <3>1
    <3>3. CompactRewrite => Rewritten(Len(kept))
      BY DEF CompactRewrite
    <3>4. CompactFails => index' = index \/ \E n \in 0 .. Len(kept) - 1 : Rewritten(n)
      BY DEF CompactFails
    <3>5. /\ CompactBegin => index' = index
          /\ CompactArchive => index' = << >>
          /\ CompactOpen => index' = index
      BY DEF CompactBegin, CompactArchive, CompactOpen, store
    <3>6. QED
      BY <1>1, <2>1, <2>2, <2>3, <3>2, <3>3, <3>4, <3>5 DEF CompactSteps
<1>6. /\ logBroken' \in BOOLEAN /\ misplaced' \in BOOLEAN
      /\ compaction' \in {"idle", "reading", "archived", "opened"}
  BY <1>1 DEF TypeOK, CompactSteps, CompactBegin, CompactArchive, CompactOpen,
     CompactRewrite, CompactFails, store
<1>7. exposed' \subseteq Message
  BY <1>1, <1>3 DEF TypeOK, CompactSteps, CompactBegin, CompactArchive, CompactOpen,
     CompactRewrite, CompactFails, overlap
<1>8. QED
  BY <1>1, <1>2, <1>4, <1>5, <1>6, <1>7 DEF TypeOK, queues, memory

\* What a crash leaves of the log.
LEMMA CrashFacts ==
  ASSUME TypeOK, Crash
  PROVE  /\ phase # "down" /\ GoDown /\ log' \in Seq(Message)
         /\ ToSet(log') \subseteq
              ToSet(log) \cup ToSet(kept) \cup ({persisting} \ {NoMessage})
<1>1. log \in Seq(Message) /\ kept \in Seq(Message) /\ phase # "down" /\ GoDown
  BY DEF TypeOK, Crash
<1>2. ASSUME NEW t \in Seq(Message), Written(t)
      PROVE  log' \in Seq(Message) /\ ToSet(log') \subseteq ToSet(log) \cup ToSet(t)
  <2>1. log \o t \in Seq(Message) /\ ToSet(log \o t) = ToSet(log) \cup ToSet(t)
    BY <1>1, ToSetConcat
  <2>2. log' = log \/ log' = log \o t
    BY <1>2 DEF Written
  <2>3. QED
    BY <1>1, <2>1, <2>2
<1>3. CASE UNCHANGED log
  BY <1>1, <1>3
<1>4. CASE CanWrite /\ Written(<<persisting>>)
  <2>1. persisting # NoMessage /\ persisting \in Message
    BY <1>4 DEF CanWrite, TypeOK
  <2>2. <<persisting>> \in Seq(Message) /\ ToSet(<<persisting>>) = {persisting}
    BY <2>1, ToSetSingle
  <2>3. QED
    BY <1>1, <1>2, <1>4, <2>1, <2>2
<1>5. CASE \E n \in 1 .. Len(kept) : Written(SubSeq(kept, 1, n))
  <2>1. PICK n \in 1 .. Len(kept) : Written(SubSeq(kept, 1, n))
    BY <1>5
  <2> DEFINE first == SubSeq(kept, 1, n)
             rest == SubSeq(kept, n + 1, Len(kept))
  <2>2. n \in 0 .. Len(kept)
    BY <1>1
  <2>3. first \in Seq(Message) /\ rest \in Seq(Message) /\ kept = first \o rest
    BY <1>1, <2>2, SplitAt
  <2> HIDE DEF first, rest
  <2>4. ToSet(first \o rest) = ToSet(first) \cup ToSet(rest)
    BY <2>3, ToSetConcat
  <2>5. ToSet(first) \subseteq ToSet(kept)
    BY <2>3, <2>4
  <2>6. Written(first)
    BY <2>1 DEF first
  <2>7. QED
    BY <1>1, <1>2, <2>3, <2>5, <2>6
<1>6. QED
  BY <1>3, <1>4, <1>5 DEF Crash

\* The beginning of the log that a failed start leaves.
LEMMA StartFailsFacts ==
  ASSUME TypeOK, StartFails
  PROVE  /\ log' \in Seq(Message) /\ ToSet(log') \subseteq ToSet(log)
         /\ phase = "down"
         /\ UNCHANGED <<phase, queues, index, logBroken, misplaced, compacting, starts,
                        overflowCount, memory, overlap>>
<1>1. log \in Seq(Message)
  BY DEF TypeOK
<1>2. PICK n \in 0 .. Len(log) : log' = SubSeq(log, 1, n)
  BY DEF StartFails
<1> DEFINE first == SubSeq(log, 1, n)
           rest == SubSeq(log, n + 1, Len(log))
<1>3. first \in Seq(Message) /\ rest \in Seq(Message) /\ log = first \o rest
  BY <1>1, SplitAt
<1> HIDE DEF first, rest
<1>4. ToSet(first \o rest) = ToSet(first) \cup ToSet(rest)
  BY <1>3, ToSetConcat
<1>5. log' = first
  BY <1>2 DEF first
<1>6. /\ phase = "down"
      /\ UNCHANGED <<phase, queues, index, logBroken, misplaced, compacting, starts,
                     overflowCount, memory, overlap>>
  BY DEF StartFails
<1>7. QED
  BY <1>3, <1>4, <1>5, <1>6

LEMMA EndTypes ==
  TypeOK /\ (StartFails \/ StopWorkers \/ Exit \/ Crash) => TypeOK'
<1>1. ASSUME TypeOK, StopWorkers PROVE TypeOK'
  BY <1>1 DEF TypeOK, StopWorkers, queues, store, compacting, memory, overlap
<1>2. ASSUME TypeOK, GoDown, log' \in Seq(Message) PROVE TypeOK'
  <2>1. << >> \in Seq(Message) /\ Len(<< >>) = 0 /\ DOMAIN << >> = {} /\ 0 \in Nat
        /\ 0 <= IngestionCapacity /\ 0 <= ProcessingCapacity /\ 0 <= IOCapacity
    BY Capacities
  <2>2. /\ phase' = "down" /\ ingestionFifo' = << >> /\ processingFifo' = << >>
        /\ ioTaskQueue' = << >> /\ persisting' = NoMessage /\ index' = << >>
        /\ logBroken' = FALSE /\ misplaced' = FALSE /\ compaction' = "idle"
        /\ kept' = << >> /\ overflowCount' = 0 /\ entered' = {} /\ processed' = << >>
        /\ failed' = {} /\ discarded' = {} /\ completed' = {} /\ exposed' = {}
        /\ UNCHANGED <<starts, acknowledged, appended>>
    BY <1>2 DEF GoDown
  <2>3. /\ starts \in 0 .. MaxStarts /\ acknowledged \in Seq(Message)
        /\ appended \in Seq(Message)
    BY <1>2 DEF TypeOK
  <2>4. DOMAIN index' = {}
    BY <2>1, <2>2
  <2>5. QED
    BY ONLY <1>2, <2>1, <2>2, <2>3, <2>4 DEF TypeOK
<1>3. ASSUME TypeOK, Exit PROVE TypeOK'
  BY <1>2, <1>3 DEF Exit, TypeOK
<1>4. ASSUME TypeOK, Crash PROVE TypeOK'
  BY <1>2, <1>4, CrashFacts
<1>5. ASSUME TypeOK, StartFails PROVE TypeOK'
  <2>1. /\ log' \in Seq(Message)
        /\ UNCHANGED <<phase, queues, index, logBroken, misplaced, compacting, starts,
                       overflowCount, memory, overlap>>
    BY <1>5, StartFailsFacts
  <2>2. QED
    BY <1>5, <2>1 DEF TypeOK, queues, compacting, memory, overlap
<1>6. QED
  BY <1>1, <1>3, <1>4, <1>5

\* Every step keeps the types.
LEMMA TypeStep == TypeOK /\ OrderInv /\ [Next]_vars => TypeOK'
<1>1. ASSUME TypeOK, UNCHANGED vars PROVE TypeOK'
  BY <1>1 DEF TypeOK, vars, queues, store, compacting, memory, overlap
<1>2. QED
  BY <1>1, StartTypes, IngestTypes, StartPersistTypes, PersistTypes, WorkerZeroTypes,
     MarkCompletedTypes, CompactTypes, EndTypes
  DEF Next, IngestionWorker, PersistEnds, CompactSteps

-----------------------------------------------------------------------------
(* What is before what in a line, and what keeps a line in order.          *)

\* A line is in order when what is earlier in it is.
LEMMA LineInOrder ==
  ASSUME NEW a \in Seq(Message), NEW b \in Seq(Message),
         NEW p \in Message \cup {NoMessage}, NEW d \in Seq(Message), NEW o
  PROVE  InOrder(Line(a, b, p, d), o) <=>
           \A x, y : Earlier(a, b, p, d, x, y) =>
                       x # y /\ (SourceOf[x] = SourceOf[y] => Before(o, x, y))
<1> DEFINE l == Line(a, b, p, d)
<1>1. \A x, y : Before(l, x, y) <=> Earlier(a, b, p, d, x, y)
  BY LineFacts
<1> HIDE DEF l
<1>2. \A x, y : Before(l, x, y) => x \in ToSet(l) /\ y \in ToSet(l)
  BY BeforeIsIn
<1>3. InOrder(l, o) <=>
        \A x, y : Earlier(a, b, p, d, x, y) =>
                    x # y /\ (SourceOf[x] = SourceOf[y] => Before(o, x, y))
  BY ONLY <1>1, <1>2 DEF InOrder
<1>4. QED
  BY <1>3 DEF l

\* The two lines of OrderInv, spelled out.
Ordered(a, b, p, d, o) ==
  \A x, y : Earlier(a, b, p, d, x, y) =>
              x # y /\ (SourceOf[x] = SourceOf[y] => Before(o, x, y))

\* The two lines of OrderInv in this form, before a step and after it.
LEMMA OrderedLines ==
  ASSUME TypeOK
  PROVE  /\ InOrder(Line(processed, processingFifo, persisting, ingestionFifo), acknowledged)
              <=> Ordered(processed, processingFifo, persisting, ingestionFifo, acknowledged)
         /\ InOrder(Line(appended, << >>, NoMessage, ingestionFifo), acknowledged)
              <=> Ordered(appended, << >>, NoMessage, ingestionFifo, acknowledged)
<1>1. /\ processed \in Seq(Message) /\ processingFifo \in Seq(Message)
      /\ persisting \in Message \cup {NoMessage} /\ ingestionFifo \in Seq(Message)
      /\ appended \in Seq(Message) /\ << >> \in Seq(Message)
      /\ NoMessage \in Message \cup {NoMessage}
  BY DEF TypeOK
<1>2. QED
  BY ONLY <1>1, LineInOrder DEF Ordered

LEMMA OrderedLinesPrime ==
  ASSUME TypeOK'
  PROVE  /\ InOrder(Line(processed', processingFifo', persisting', ingestionFifo'), acknowledged')
              <=> Ordered(processed', processingFifo', persisting', ingestionFifo', acknowledged')
         /\ InOrder(Line(appended', << >>, NoMessage, ingestionFifo'), acknowledged')
              <=> Ordered(appended', << >>, NoMessage, ingestionFifo', acknowledged')
<1>1. /\ processed' \in Seq(Message) /\ processingFifo' \in Seq(Message)
      /\ persisting' \in Message \cup {NoMessage} /\ ingestionFifo' \in Seq(Message)
      /\ appended' \in Seq(Message) /\ << >> \in Seq(Message)
      /\ NoMessage \in Message \cup {NoMessage}
  BY DEF TypeOK
<1>2. QED
  BY ONLY <1>1, LineInOrder DEF Ordered

\* Every message ahead in the pipeline has been acknowledged.
LEMMA PlacesAcknowledged ==
  ASSUME TypeOK, OrderInv, CountInv, phase # "down"
  PROVE  /\ ToSet(Places) = ToSet(processed) \cup ToSet(processingFifo)
                              \cup ({persisting} \ {NoMessage}) \cup ToSet(ingestionFifo)
         /\ ToSet(Places) \subseteq ToSet(acknowledged)
<1>1. Places = Line(processed, processingFifo, persisting, ingestionFifo)
  BY DEF Places, InFlight, Line
<1>2. ToSet(Places) = ToSet(processed) \cup ToSet(processingFifo)
                        \cup ({persisting} \ {NoMessage}) \cup ToSet(ingestionFifo)
  <2>1. /\ processed \in Seq(Message) /\ processingFifo \in Seq(Message)
        /\ persisting \in Message \cup {NoMessage} /\ ingestionFifo \in Seq(Message)
    BY DEF TypeOK
  <2>2. QED
    BY ONLY <1>1, <2>1, LineFacts
<1>3. QED
  BY <1>2 DEF CountInv

-----------------------------------------------------------------------------
(* OrderInv is kept.                                                       *)

\* What a sequence in order says of every pair.
LEMMA InOrderAll ==
  \A s, o : InOrder(s, o) <=>
    \A x, y : Before(s, x, y) => x # y /\ (SourceOf[x] = SourceOf[y] => Before(o, x, y))
BY BeforeIsIn DEF InOrder

\* Recovery arranges the log by source, in the order of the timestamps.
LEMMA StartOrder == IInv /\ Start /\ TypeOK' => OrderInv'
<1>1. SUFFICES ASSUME IInv, Start, TypeOK' PROVE OrderInv'
  OBVIOUS
<1> DEFINE pending == BySource(log)
           n == Excess
<1>2. TypeOK /\ OrderInv
  BY <1>1 DEF IInv
<1>3. /\ pending \in Seq(Message)
      /\ \A x, y : Before(pending, x, y) =>
                     x # y /\ (SourceOf[x] = SourceOf[y] => Before(acknowledged, x, y))
  BY <1>2, RecoveredFacts
<1>4. n \in 0 .. Len(pending) /\ processingFifo' = SubSeq(pending, n + 1, Len(pending))
  BY <1>1, <1>3, ExcessFacts DEF Start, Excess
<1> HIDE DEF pending, n
<1>5. \A x, y : Before(processingFifo', x, y) => Before(pending, x, y)
  <2> DEFINE first == SubSeq(pending, 1, n)
             rest == SubSeq(pending, n + 1, Len(pending))
  <2>1. first \in Seq(Message) /\ rest \in Seq(Message) /\ pending = first \o rest
    BY <1>3, <1>4, SplitAt
  <2>2. processingFifo' = rest
    BY <1>4
  <2> HIDE DEF first, rest
  <2>3. \A x, y : Before(rest, x, y) => Before(first \o rest, x, y)
    BY <2>1, BeforeConcat
  <2>4. QED
    BY ONLY <2>1, <2>2, <2>3
<1>6. /\ processed' = << >> /\ persisting' = NoMessage /\ ingestionFifo' = << >>
      /\ log' = log /\ kept' = << >> /\ appended' = appended
      /\ acknowledged' = acknowledged
  BY <1>1 DEF Start
<1>7. \A x, y : Earlier(<< >>, processingFifo', NoMessage, << >>, x, y)
                  => Before(processingFifo', x, y)
  BY ToSetSingle, BeforeNothing DEF Earlier
<1>8. \A x, y : Earlier(appended, << >>, NoMessage, << >>, x, y) => Before(appended, x, y)
  BY ToSetSingle, BeforeNothing DEF Earlier
<1>9. Ordered(<< >>, processingFifo', NoMessage, << >>, acknowledged)
  BY <1>3, <1>5, <1>7 DEF Ordered
<1>10. Ordered(appended, << >>, NoMessage, << >>, acknowledged)
  BY <1>2, <1>8, InOrderAll DEF Ordered, OrderInv
<1>11. InOrder(<< >>, acknowledged) /\ ToSet(<< >>) = {}
  BY InOrderAll, BeforeNothing, ToSetSingle
<1>12. QED
  BY <1>1, <1>2, <1>6, <1>9, <1>10, <1>11, OrderedLinesPrime DEF OrderInv

\* A new message is behind every other one, in the pipeline and in the record.
LEMMA IngestOrder ==
  ASSUME IInv, NEW m \in Message, Ingest(m), TypeOK' PROVE OrderInv'
<1>1. /\ phase # "down" /\ phase' = phase /\ m \notin ToSet(acknowledged)
      /\ acknowledged' = Append(acknowledged, m)
      /\ ingestionFifo' = AppendDiscardingOldest(ingestionFifo, m, IngestionCapacity)
      /\ processed' = processed /\ processingFifo' = processingFifo
      /\ persisting' = persisting /\ log' = log /\ kept' = kept /\ appended' = appended
  BY DEF Ingest, store, compacting, overlap
<1>2. TypeOK /\ OrderInv /\ CountInv
  BY DEF IInv
<1> DEFINE D == Displaced(ingestionFifo, IngestionCapacity)
           ack == acknowledged
           new == Append(acknowledged, m)
<1>3. PICK rest : Pushed(ingestionFifo, ingestionFifo', m, D, rest)
  BY <1>1, <1>2, PushFacts, Capacities DEF TypeOK
<1>4. \A x, y : Before(new, x, y) <=> Before(ack, x, y) \/ (x \in ToSet(ack) /\ y = m)
  BY <1>2, BeforeAppend DEF TypeOK
<1>5. ToSet(new) = ToSet(ack) \cup {m}
  BY <1>2, AppendToSet DEF TypeOK
<1> HIDE DEF new, ack, D
<1>6. ASSUME NEW s, InOrder(s, acknowledged) PROVE InOrder(s, new)
  BY <1>4, <1>6, InOrderAll DEF ack
<1>7. /\ ToSet(processed) \cup ToSet(processingFifo) \cup ({persisting} \ {NoMessage})
           \cup ToSet(ingestionFifo) \subseteq ToSet(ack)
      /\ ToSet(appended) \subseteq ToSet(ack)
  BY <1>1, <1>2, PlacesAcknowledged DEF OrderInv, ack
<1>8. /\ Ordered(processed, processingFifo, persisting, ingestionFifo, ack)
      /\ Ordered(appended, << >>, NoMessage, ingestionFifo, ack)
  BY <1>1, <1>2, OrderedLines DEF OrderInv, ack
<1>9. /\ ToSet(ingestionFifo') = ToSet(rest) \cup {m}
      /\ \A a, b : Before(ingestionFifo', a, b)
                     => Before(rest, a, b) \/ (a \in ToSet(rest) /\ b = m)
      /\ ToSet(rest) \subseteq ToSet(ingestionFifo)
      /\ \A a, b : Before(rest, a, b) => Before(ingestionFifo, a, b)
  BY <1>3 DEF Pushed
<1>10. ASSUME NEW a, NEW b, ToSet(a) \subseteq ToSet(ack), ToSet(b) \subseteq ToSet(ack),
              NEW p, {p} \ {NoMessage} \subseteq ToSet(ack),
              Ordered(a, b, p, ingestionFifo, ack)
       PROVE  Ordered(a, b, p, ingestionFifo', new)
  <2>1. SUFFICES ASSUME NEW x, NEW y,
                        Earlier(a, b, p, ingestionFifo', x, y)
                 PROVE  x # y /\ (SourceOf[x] = SourceOf[y] => Before(new, x, y))
    BY DEF Ordered
  <2>2. Earlier(a, b, p, ingestionFifo, x, y) \/ (x \in ToSet(ack) /\ y = m)
    <3>1. p # NoMessage => p \in ToSet(ack)
      BY <1>10
    <3>2. ToSet(rest) \subseteq ToSet(ack)
      BY <1>7, <1>9
    <3>3. QED
      BY ONLY <1>9, <1>10, <2>1, <3>1, <3>2 DEF Earlier
  <2>3. CASE Earlier(a, b, p, ingestionFifo, x, y)
    BY <1>4, <1>10, <2>3 DEF Ordered
  <2>4. CASE x \in ToSet(ack) /\ y = m
    BY <1>1, <1>4, <2>4 DEF ack
  <2>5. QED
    BY <2>2, <2>3, <2>4
<1>11. /\ ToSet(<< >>) \subseteq ToSet(ack) /\ {NoMessage} \ {NoMessage} = {}
       /\ {persisting} \ {NoMessage} \subseteq ToSet(ack)
  BY <1>7, ToSetSingle
<1>12. /\ Ordered(processed, processingFifo, persisting, ingestionFifo', new)
       /\ Ordered(appended, << >>, NoMessage, ingestionFifo', new)
  BY <1>7, <1>8, <1>10, <1>11
<1>13. InOrder(new, new)
  <2>1. \A x, y : Before(ack, x, y) =>
                    x # y /\ (SourceOf[x] = SourceOf[y] => Before(ack, x, y))
    BY <1>2, InOrderAll DEF OrderInv, ack
  <2>2. \A x : x \in ToSet(ack) => x # m
    BY <1>1 DEF ack
  <2>3. \A x, y : Before(new, x, y) => x # y
    BY <1>4, <2>1, <2>2
  <2>4. QED
    BY <2>3, InOrderAll
<1>14. acknowledged' = new
  BY <1>1 DEF new
<1>15. QED
  BY <1>1, <1>2, <1>5, <1>6, <1>12, <1>13, <1>14, <1>7, OrderedLinesPrime DEF OrderInv, ack

\* Lines whose precedence only shrinks stay in order.
LEMMA OrderShrinks ==
  ASSUME IInv, TypeOK', acknowledged' = acknowledged,
         phase # "down",
         \A x, y : Earlier(processed', processingFifo', persisting', ingestionFifo', x, y)
                     => Earlier(processed, processingFifo, persisting, ingestionFifo, x, y),
         \A x, y : Earlier(appended', << >>, NoMessage, ingestionFifo', x, y)
                     => Earlier(appended, << >>, NoMessage, ingestionFifo, x, y),
         ToSet(appended') \subseteq ToSet(acknowledged),
         ToSet(log') \cup ToSet(kept') \cup ({persisting'} \ {NoMessage})
           \subseteq ToSet(appended')
  PROVE  OrderInv'
<1>1. /\ Ordered(processed, processingFifo, persisting, ingestionFifo, acknowledged)
      /\ Ordered(appended, << >>, NoMessage, ingestionFifo, acknowledged)
  BY OrderedLines DEF IInv, OrderInv
<1>2. /\ Ordered(processed', processingFifo', persisting', ingestionFifo', acknowledged)
      /\ Ordered(appended', << >>, NoMessage, ingestionFifo', acknowledged)
  BY <1>1 DEF Ordered
<1>3. /\ InOrder(processed', acknowledged) /\ InOrder(appended', acknowledged)
  <2>1. \A x, y : Before(processed', x, y)
                    => Earlier(processed', processingFifo', persisting', ingestionFifo', x, y)
    BY DEF Earlier
  <2>2. \A x, y : Before(appended', x, y)
                    => Earlier(appended', << >>, NoMessage, ingestionFifo', x, y)
    BY DEF Earlier
  <2>3. QED
    BY <1>2, <2>1, <2>2, InOrderAll DEF Ordered
<1>4. QED
  BY <1>2, <1>3, OrderedLinesPrime DEF IInv, OrderInv

\* The messages known to the log are the same.
LEMMA AppendedSame ==
  ASSUME OrderInv, phase # "down", appended' = appended,
         ToSet(log') \cup ToSet(kept') \cup ({persisting'} \ {NoMessage})
           \subseteq ToSet(log) \cup ToSet(kept) \cup ({persisting} \ {NoMessage})
  PROVE  /\ ToSet(appended') \subseteq ToSet(acknowledged)
         /\ ToSet(log') \cup ToSet(kept') \cup ({persisting'} \ {NoMessage})
              \subseteq ToSet(appended')
BY DEF OrderInv

LEMMA StartPersistOrder == IInv /\ StartPersist /\ TypeOK' => OrderInv'
<1>1. SUFFICES ASSUME IInv, StartPersist, TypeOK' PROVE OrderInv'
  OBVIOUS
<1>2. /\ phase # "down" /\ persisting = NoMessage /\ persisting' = Head(ingestionFifo)
      /\ ingestionFifo' = Tail(ingestionFifo) /\ ingestionFifo # << >>
      /\ processed' = processed /\ processingFifo' = processingFifo
      /\ log' = log /\ kept' = kept /\ acknowledged' = acknowledged
      /\ appended' = Append(appended, persisting')
  BY <1>1 DEF StartPersist, store, compacting, memory
<1>3. /\ ToSet(ingestionFifo) = {persisting'} \cup ToSet(ingestionFifo')
      /\ \A x, y : Before(ingestionFifo, x, y) <=>
                     Before(ingestionFifo', x, y)
                     \/ (x = persisting' /\ y \in ToSet(ingestionFifo'))
      /\ persisting' \in Message
  BY <1>1, <1>2, HeadAndTail DEF IInv, TypeOK
<1>4. \A x, y : Earlier(processed, processingFifo, persisting', ingestionFifo', x, y)
                  => Earlier(processed, processingFifo, NoMessage, ingestionFifo, x, y)
  BY ONLY <1>3 DEF Earlier
<1>5. \A x, y : Earlier(processed', processingFifo', persisting', ingestionFifo', x, y)
                  => Earlier(processed, processingFifo, persisting, ingestionFifo, x, y)
  BY ONLY <1>2, <1>4
<1>6. TypeOK /\ OrderInv /\ CountInv
  BY <1>1 DEF IInv
<1>7. /\ ToSet(appended') = ToSet(appended) \cup {persisting'}
      /\ \A x, y : Before(appended', x, y) <=>
                     Before(appended, x, y) \/ (x \in ToSet(appended) /\ y = persisting')
  BY <1>2, <1>3, <1>6, AppendToSet, BeforeAppend DEF TypeOK
<1>8. \A x, y : Earlier(appended', << >>, NoMessage, ingestionFifo', x, y)
                  => Earlier(appended, << >>, NoMessage, ingestionFifo, x, y)
  BY ONLY <1>3, <1>7, ToSetSingle, BeforeNothing DEF Earlier
<1>9. ToSet(appended) \cup {persisting'} \subseteq ToSet(acknowledged)
  BY <1>2, <1>3, <1>6, PlacesAcknowledged DEF OrderInv
<1>10. ToSet(log) \cup ToSet(kept) \subseteq ToSet(appended)
  BY <1>6 DEF OrderInv
<1>11. QED
  BY <1>1, <1>2, <1>5, <1>7, <1>8, <1>9, <1>10, OrderShrinks

\* The end of a persist(), with the message written or not.
LEMMA PersistOrder == IInv /\ PersistEnds /\ TypeOK' => OrderInv'
<1>1. SUFFICES ASSUME IInv, PersistEnds, TypeOK' PROVE OrderInv'
  OBVIOUS
<1> DEFINE D == Displaced(processingFifo, ProcessingCapacity)
<1>2. TypeOK /\ OrderInv
  BY <1>1 DEF IInv
<1>3. /\ phase # "down" /\ persisting \in Message /\ persisting # NoMessage
      /\ PushToProcessing
      /\ log' = log \/ log' = Append(log, persisting)
  BY <1>1, <1>2, PersistFacts
<1>4. /\ persisting' = NoMessage
      /\ processingFifo' =
           AppendDiscardingOldest(processingFifo, persisting, ProcessingCapacity)
      /\ ingestionFifo' = ingestionFifo /\ processed' = processed
      /\ acknowledged' = acknowledged /\ kept' = kept /\ appended' = appended
  BY <1>3 DEF PushToProcessing, compacting
<1>5. PICK rest : Pushed(processingFifo, processingFifo', persisting, D, rest)
  BY <1>2, <1>3, <1>4, PushFacts, Capacities DEF TypeOK
<1> HIDE DEF D
<1>6. /\ ToSet(processingFifo') = ToSet(rest) \cup {persisting}
      /\ \A a, b : Before(processingFifo', a, b)
                     => Before(rest, a, b) \/ (a \in ToSet(rest) /\ b = persisting)
      /\ ToSet(rest) \subseteq ToSet(processingFifo)
      /\ \A a, b : Before(rest, a, b) => Before(processingFifo, a, b)
  BY <1>5 DEF Pushed
<1>7. \A x, y : Earlier(processed, processingFifo', NoMessage, ingestionFifo, x, y)
                  => Earlier(processed, processingFifo, persisting, ingestionFifo, x, y)
  BY ONLY <1>3, <1>6 DEF Earlier
<1>8. ToSet(log') \subseteq ToSet(log) \cup {persisting}
  <2>1. ToSet(Append(log, persisting)) = ToSet(log) \cup {persisting}
    BY <1>2, <1>3, AppendToSet DEF TypeOK
  <2>2. QED
    BY ONLY <1>3, <2>1
<1>9. /\ ToSet(appended') \subseteq ToSet(acknowledged)
      /\ ToSet(log') \cup ToSet(kept') \cup ({persisting'} \ {NoMessage})
           \subseteq ToSet(appended')
  BY <1>2, <1>3, <1>4, <1>8, AppendedSame
<1>10. QED
  BY <1>1, <1>3, <1>4, <1>7, <1>9, OrderShrinks

LEMMA WorkerZeroOrder == IInv /\ WorkerZero /\ TypeOK' => OrderInv'
<1>1. SUFFICES ASSUME IInv, WorkerZero, TypeOK' PROVE OrderInv'
  OBVIOUS
<1> DEFINE h == Head(processingFifo)
<1>2. /\ phase # "down" /\ processingFifo # << >>
      /\ processingFifo' = Tail(processingFifo)
      /\ processed' = processed \/ processed' = Append(processed, h)
      /\ persisting' = persisting /\ ingestionFifo' = ingestionFifo
      /\ log' = log /\ kept' = kept /\ appended' = appended
      /\ acknowledged' = acknowledged
  BY <1>1 DEF WorkerZero, Broadcast, BroadcastFails, store, compacting, overlap
<1>3. TypeOK
  BY <1>1 DEF IInv
<1>4. /\ h \in Message
      /\ ToSet(processingFifo) = {h} \cup ToSet(processingFifo')
      /\ \A x, y : Before(processingFifo, x, y) <=>
                     Before(processingFifo', x, y)
                     \/ (x = h /\ y \in ToSet(processingFifo'))
  BY <1>2, <1>3, HeadAndTail DEF TypeOK
<1> HIDE DEF h
<1>5. \A x, y : Earlier(processed', processingFifo', persisting, ingestionFifo, x, y)
                  => Earlier(processed, processingFifo, persisting, ingestionFifo, x, y)
  <2>1. CASE processed' = processed
    BY ONLY <1>4, <2>1 DEF Earlier
  <2>2. CASE processed' = Append(processed, h)
    <3>1. ToSet(processed') = ToSet(processed) \cup {h}
      BY <1>3, <1>4, <2>2, AppendToSet DEF TypeOK
    <3>2. \A x, y : Before(processed', x, y) <=>
                      Before(processed, x, y) \/ (x \in ToSet(processed) /\ y = h)
      BY <1>3, <1>4, <2>2, BeforeAppend DEF TypeOK
    <3>3. QED
      BY ONLY <1>4, <3>1, <3>2 DEF Earlier
  <2>3. QED
    BY <1>2, <2>1, <2>2
<1>6. QED
  BY <1>1, <1>2, <1>5, OrderShrinks DEF IInv, OrderInv

LEMMA CompactOrder == IInv /\ CompactSteps /\ TypeOK' => OrderInv'
<1>1. SUFFICES ASSUME IInv, CompactSteps, TypeOK' PROVE OrderInv'
  OBVIOUS
<1>2. TypeOK /\ OrderInv
  BY <1>1 DEF IInv
<1>3. /\ phase # "down"
      /\ UNCHANGED <<phase, queues, overflowCount, starts, memory, appended>>
      /\ ToSet(log') \subseteq ToSet(log) \cup ToSet(kept)
      /\ ToSet(kept') \subseteq ToSet(kept) \cup ToSet(log) \cup ({persisting} \ {NoMessage})
  BY <1>1, <1>2, CompactFacts
<1>4. /\ processed' = processed /\ processingFifo' = processingFifo
      /\ persisting' = persisting /\ ingestionFifo' = ingestionFifo
      /\ acknowledged' = acknowledged /\ appended' = appended
  BY <1>3 DEF queues, memory
<1>5. ToSet(log') \cup ToSet(kept') \cup ({persisting'} \ {NoMessage})
        \subseteq ToSet(log) \cup ToSet(kept) \cup ({persisting} \ {NoMessage})
  BY ONLY <1>3, <1>4
<1>6. /\ ToSet(appended') \subseteq ToSet(acknowledged)
      /\ ToSet(log') \cup ToSet(kept') \cup ({persisting'} \ {NoMessage})
           \subseteq ToSet(appended')
  BY <1>2, <1>3, <1>4, <1>5, AppendedSame
<1>7. QED
  BY <1>1, <1>3, <1>4, <1>6, OrderShrinks

LEMMA MarkCompletedOrder == IInv /\ MarkCompleted /\ TypeOK' => OrderInv'
<1>1. SUFFICES ASSUME IInv, MarkCompleted, TypeOK' PROVE OrderInv'
  OBVIOUS
<1>2. TypeOK /\ OrderInv
  BY <1>1 DEF IInv
<1>3. /\ phase # "down" /\ processed' = processed /\ processingFifo' = processingFifo
      /\ persisting' = persisting /\ ingestionFifo' = ingestionFifo
      /\ acknowledged' = acknowledged /\ appended' = appended /\ log' = log
      /\ kept' = kept \/ kept' = Selected(kept, Message \ {Head(ioTaskQueue)})
  BY <1>1 DEF MarkCompleted, overlap
<1>4. ToSet(Selected(kept, Message \ {Head(ioTaskQueue)})) \subseteq ToSet(kept)
  BY <1>2, SelectedRange DEF TypeOK
<1>5. /\ ToSet(appended') \subseteq ToSet(acknowledged)
      /\ ToSet(log') \cup ToSet(kept') \cup ({persisting'} \ {NoMessage})
           \subseteq ToSet(appended')
  BY <1>2, <1>3, <1>4, AppendedSame
<1>6. QED
  BY <1>1, <1>3, <1>5, OrderShrinks

\* The end of the process leaves part of what was known to the log.
LEMMA GoDownOrder ==
  ASSUME IInv, phase # "down", GoDown,
         ToSet(log') \subseteq ToSet(log) \cup ToSet(kept) \cup ({persisting} \ {NoMessage})
  PROVE  OrderInv'
<1>1. /\ phase' = "down" /\ processed' = << >> /\ kept' = << >>
      /\ appended' = appended /\ acknowledged' = acknowledged
  BY DEF GoDown
<1>2. InOrder(<< >>, acknowledged) /\ ToSet(<< >>) = {}
  BY InOrderAll, BeforeNothing, ToSetSingle
<1>3. ToSet(log') \cup ToSet(kept') \subseteq ToSet(appended)
  BY <1>1, <1>2 DEF IInv, OrderInv
<1>4. QED
  BY <1>1, <1>2, <1>3 DEF IInv, OrderInv

LEMMA EndOrder ==
  IInv /\ (StartFails \/ StopWorkers \/ Exit \/ Crash) => OrderInv'
<1>1. SUFFICES ASSUME IInv, StartFails \/ StopWorkers \/ Exit \/ Crash PROVE OrderInv'
  OBVIOUS
<1>2. TypeOK /\ OrderInv
  BY <1>1 DEF IInv
<1>3. CASE StartFails
  <2>1. /\ ToSet(log') \subseteq ToSet(log) /\ phase = "down"
        /\ UNCHANGED <<phase, queues, index, logBroken, misplaced, compacting, starts,
                       overflowCount, memory, overlap>>
    BY <1>2, <1>3, StartFailsFacts
  <2>2. QED
    BY <1>2, <2>1 DEF OrderInv, queues, compacting, memory, overlap
<1>4. CASE StopWorkers
  <2>1. phase # "down" /\ UNCHANGED <<queues, store, compacting, memory, overlap>>
    BY <1>4 DEF StopWorkers
  <2>2. QED
    BY <1>2, <2>1 DEF OrderInv, queues, store, compacting, memory, overlap
<1>5. CASE Exit
  BY <1>1, <1>5, GoDownOrder DEF Exit
<1>6. CASE Crash
  BY <1>1, <1>2, <1>6, CrashFacts, GoDownOrder
<1>7. QED
  BY <1>1, <1>3, <1>4, <1>5, <1>6

-----------------------------------------------------------------------------
(* CountInv is kept.                                                       *)

\* One displaced message more adds one to the count.
LEMMA MoreCounted ==
  ASSUME NEW S, IsFiniteSet(S), NEW D, D = {} \/ \E d : D = {d}, D \cap S = {}
  PROVE  /\ IsFiniteSet(S \cup D)
         /\ Cardinality(S \cup D) = Cardinality(S) + Cardinality(D)
         /\ Cardinality(S) \in Nat /\ Cardinality(D) \in Nat
<1>1. Cardinality(S) \in Nat
  BY FS_CardinalityType
<1>2. CASE D = {}
  <2>1. S \cup D = S /\ Cardinality(D) = 0
    BY <1>2, FS_EmptySet
  <2>2. QED
    BY <1>1, <2>1
<1>3. CASE \E d : D = {d}
  <2>1. PICK d : D = {d}
    BY <1>3
  <2>2. d \notin S /\ Cardinality(D) = 1
    BY <2>1, FS_Singleton
  <2>3. IsFiniteSet(S \cup {d}) /\ Cardinality(S \cup {d}) = Cardinality(S) + 1
    BY <2>2, FS_AddElement
  <2>4. QED
    BY <1>1, <2>1, <2>2, <2>3
<1>4. QED
  BY <1>2, <1>3

\* A sequence without repetitions has as many members as places.
LEMMA DistinctCount ==
  ASSUME NEW X
  PROVE  \A s \in Seq(X) : (\A x : ~ Before(s, x, x)) =>
           IsFiniteSet(ToSet(s)) /\ Cardinality(ToSet(s)) = Len(s)
<1> DEFINE P == {s \in Seq(X) : (\A x : ~ Before(s, x, x)) =>
                    IsFiniteSet(ToSet(s)) /\ Cardinality(ToSet(s)) = Len(s)}
<1>1. << >> \in P
  <2>1. << >> \in Seq(X) /\ Len(<< >>) = 0
    OBVIOUS
  <2>2. IsFiniteSet(ToSet(<< >>)) /\ Cardinality(ToSet(<< >>)) = 0
    <3>1. ToSet(<< >>) = {}
      BY ToSetSingle
    <3>2. QED
      BY ONLY <3>1, FS_EmptySet
  <2>3. QED
    BY ONLY <2>1, <2>2
<1>2. ASSUME NEW s \in Seq(X), NEW x \in X, s \in P PROVE Append(s, x) \in P
  <2> DEFINE t == Append(s, x)
  <2>1. /\ t \in Seq(X) /\ Len(t) = Len(s) + 1
        /\ ToSet(t) = ToSet(s) \cup {x}
        /\ \A a, b : Before(t, a, b) <=> Before(s, a, b) \/ (a \in ToSet(s) /\ b = x)
    BY AppendToSet, BeforeAppend
  <2> HIDE DEF t
  <2>2. ASSUME \A a : ~ Before(t, a, a)
        PROVE  IsFiniteSet(ToSet(t)) /\ Cardinality(ToSet(t)) = Len(t)
    <3>1. x \notin ToSet(s) /\ \A a : ~ Before(s, a, a)
      BY <2>1, <2>2
    <3>2. IsFiniteSet(ToSet(s)) /\ Cardinality(ToSet(s)) = Len(s)
      BY <1>2, <3>1
    <3>3. IsFiniteSet(ToSet(s) \cup {x})
          /\ Cardinality(ToSet(s) \cup {x}) = Cardinality(ToSet(s)) + 1
      BY <3>1, <3>2, FS_AddElement
    <3>4. QED
      BY <2>1, <3>2, <3>3
  <2>3. t \in P
    BY <2>1, <2>2
  <2>4. QED
    BY <2>3 DEF t
<1> HIDE DEF P
<1>3. \A s \in Seq(X) : s \in P
  BY <1>1, <1>2, SeqInduct
<1>4. QED
  BY <1>3 DEF P

\* No message is in two places.
LEMMA NothingTwice ==
  ASSUME TypeOK, OrderInv, phase # "down"
  PROVE  \A x : ~ Earlier(processed, processingFifo, persisting, ingestionFifo, x, x)
BY OrderedLines DEF OrderInv, Ordered

LEMMA PlacesPrime ==
  ASSUME TypeOK'
  PROVE  ToSet(Places') = ToSet(processed') \cup ToSet(processingFifo')
                            \cup ({persisting'} \ {NoMessage}) \cup ToSet(ingestionFifo')
<1>1. Places' = Line(processed', processingFifo', persisting', ingestionFifo')
  BY DEF Places, InFlight, Line
<1>2. /\ processed' \in Seq(Message) /\ processingFifo' \in Seq(Message)
      /\ persisting' \in Message \cup {NoMessage} /\ ingestionFifo' \in Seq(Message)
  BY DEF TypeOK
<1>3. QED
  BY ONLY <1>1, <1>2, LineFacts

\* What recovery displaces is counted, and the rest is in the queue.
LEMMA StartCount == IInv /\ Start /\ TypeOK' => CountInv'
<1>1. SUFFICES ASSUME IInv, Start, TypeOK' PROVE CountInv'
  OBVIOUS
<1> DEFINE pending == BySource(log)
           n == Excess
           first == SubSeq(pending, 1, n)
           rest == SubSeq(pending, n + 1, Len(pending))
<1>2. TypeOK /\ OrderInv
  BY <1>1 DEF IInv
<1>3. /\ pending \in Seq(Message) /\ ToSet(pending) = ToSet(log)
      /\ \A x, y : Before(pending, x, y) => x # y
  BY <1>2, RecoveredFacts
<1>4. /\ pending \in Seq(Message) /\ ToSet(pending) = ToSet(log)
      /\ \A x : ~ Before(pending, x, x)
  BY <1>3
<1>5. n \in 0 .. Len(pending)
  BY <1>4, ExcessFacts
<1>6. /\ processingFifo' = rest /\ discarded' = ToSet(first) /\ overflowCount' = n
      /\ ingestionFifo' = << >> /\ persisting' = NoMessage /\ processed' = << >>
      /\ entered' = ToSet(log) /\ failed' = {} /\ acknowledged' = acknowledged
  BY <1>1 DEF Start, Excess
<1> HIDE DEF pending, n
<1>7. /\ first \in Seq(Message) /\ Len(first) = n /\ rest \in Seq(Message)
      /\ pending = first \o rest
  BY <1>4, <1>5, SplitAt
<1> HIDE DEF first, rest
<1>8. /\ ToSet(pending) = ToSet(first) \cup ToSet(rest)
      /\ \A x, y : Before(pending, x, y) <=> \/ Before(first, x, y) \/ Before(rest, x, y)
                                             \/ x \in ToSet(first) /\ y \in ToSet(rest)
  BY <1>7, ToSetConcat, BeforeConcat
<1>9. (\A x : ~ Before(first, x, x)) /\ ToSet(first) \cap ToSet(rest) = {}
  BY <1>4, <1>8
<1>10. IsFiniteSet(ToSet(first)) /\ Cardinality(ToSet(first)) = n
  BY <1>7, <1>9, DistinctCount
<1>11. ToSet(Places') = ToSet(rest)
  BY <1>1, <1>6, PlacesPrime, ToSetSingle
<1>12. ToSet(log) \subseteq ToSet(acknowledged)
  BY <1>2 DEF OrderInv
<1>13. QED
  BY <1>4, <1>6, <1>8, <1>9, <1>10, <1>11, <1>12 DEF CountInv

\* A new message enters the line, and the one it displaces leaves it.
LEMMA IngestCount ==
  ASSUME IInv, NEW m \in Message, Ingest(m), TypeOK' PROVE CountInv'
<1> DEFINE D == Displaced(ingestionFifo, IngestionCapacity)
<1>1. /\ phase # "down" /\ m \notin ToSet(acknowledged)
      /\ acknowledged' = Append(acknowledged, m)
      /\ entered' = entered \cup {m} /\ failed' = failed
      /\ ingestionFifo' = AppendDiscardingOldest(ingestionFifo, m, IngestionCapacity)
      /\ processed' = processed /\ processingFifo' = processingFifo
      /\ persisting' = persisting /\ discarded' = discarded \cup D
      /\ overflowCount' = overflowCount + Cardinality(D)
  BY DEF Ingest
<1>2. TypeOK /\ OrderInv /\ CountInv
  BY DEF IInv
<1>3. /\ D = {} \/ \E d : D = {d}
      /\ \E rest : Pushed(ingestionFifo, ingestionFifo', m, D, rest)
  BY <1>1, <1>2, PushFacts, Capacities DEF TypeOK
<1> HIDE DEF D
<1>4. PICK rest : Pushed(ingestionFifo, ingestionFifo', m, D, rest)
  BY <1>3
<1>5. /\ ToSet(ingestionFifo') = ToSet(rest) \cup {m}
      /\ ToSet(ingestionFifo) = D \cup ToSet(rest)
      /\ \A a, b : a \in D /\ b \in ToSet(rest) => Before(ingestionFifo, a, b)
  BY <1>4 DEF Pushed
<1> DEFINE others == ToSet(processed) \cup ToSet(processingFifo) \cup ({persisting} \ {NoMessage})
<1>6. /\ ToSet(Places) = others \cup ToSet(ingestionFifo)
      /\ ToSet(Places) \subseteq ToSet(acknowledged)
      /\ ToSet(Places') = others \cup ToSet(ingestionFifo')
  BY <1>1, <1>2, PlacesAcknowledged, PlacesPrime
<1>7. \A x : ~ Earlier(processed, processingFifo, persisting, ingestionFifo, x, x)
  BY <1>1, <1>2, NothingTwice
<1>8. D \cap others = {} /\ D \cap ToSet(rest) = {}
  BY ONLY <1>5, <1>7 DEF Earlier
<1> HIDE DEF others
<1>9. /\ ToSet(Places) = entered \ (failed \cup discarded)
      /\ failed \cup discarded \subseteq entered /\ failed \cap discarded = {}
      /\ entered \subseteq ToSet(acknowledged) /\ IsFiniteSet(discarded)
      /\ overflowCount = Cardinality(discarded)
  BY <1>1, <1>2 DEF CountInv
<1>10. D \cap discarded = {} /\ D \subseteq entered /\ D \cap failed = {}
  BY ONLY <1>5, <1>6, <1>9
<1>11. /\ IsFiniteSet(discarded') /\ overflowCount' = Cardinality(discarded')
  BY <1>1, <1>3, <1>9, <1>10, MoreCounted
<1>12. ToSet(acknowledged') = ToSet(acknowledged) \cup {m}
  BY <1>1, <1>2, AppendToSet DEF TypeOK
<1>13. ToSet(Places') = entered' \ (failed' \cup discarded')
  BY ONLY <1>1, <1>5, <1>6, <1>8, <1>9, <1>10
<1>14. /\ failed' \cup discarded' \subseteq entered' /\ failed' \cap discarded' = {}
       /\ entered' \subseteq ToSet(acknowledged')
  BY ONLY <1>1, <1>9, <1>10, <1>12
<1>15. QED
  BY ONLY <1>11, <1>13, <1>14 DEF CountInv

\* The steps that move messages from one place to the next.
LEMMA MoveCount ==
  ASSUME CountInv, phase # "down", ToSet(Places') = ToSet(Places),
         UNCHANGED <<entered, failed, discarded, overflowCount, acknowledged>>
  PROVE  CountInv'
BY DEF CountInv

LEMMA StartPersistCount == IInv /\ StartPersist /\ TypeOK' => CountInv'
<1>1. SUFFICES ASSUME IInv, StartPersist, TypeOK' PROVE CountInv'
  OBVIOUS
<1>2. /\ phase # "down" /\ persisting = NoMessage /\ persisting' = Head(ingestionFifo)
      /\ ingestionFifo' = Tail(ingestionFifo) /\ ingestionFifo # << >>
      /\ processed' = processed /\ processingFifo' = processingFifo
      /\ UNCHANGED <<entered, failed, discarded, overflowCount, acknowledged>>
  BY <1>1 DEF StartPersist, memory
<1>3. TypeOK /\ OrderInv /\ CountInv
  BY <1>1 DEF IInv
<1>4. ToSet(ingestionFifo) = {persisting'} \cup ToSet(ingestionFifo') /\ persisting' \in Message
  BY <1>2, <1>3, HeadAndTail DEF TypeOK
<1>5. ToSet(Places') = ToSet(Places)
  <2>1. ToSet(Places) = ToSet(processed) \cup ToSet(processingFifo)
                          \cup ({persisting} \ {NoMessage}) \cup ToSet(ingestionFifo)
    BY <1>2, <1>3, PlacesAcknowledged
  <2>2. ToSet(Places') = ToSet(processed') \cup ToSet(processingFifo')
                           \cup ({persisting'} \ {NoMessage}) \cup ToSet(ingestionFifo')
    BY <1>1, PlacesPrime
  <2>3. persisting' # NoMessage
    BY <1>4, Capacities
  <2>4. QED
    BY ONLY <1>2, <1>4, <2>1, <2>2, <2>3
<1>6. QED
  BY <1>2, <1>3, <1>5, MoveCount

\* The same when a message is handed on to the processing queue.
LEMMA PersistCount == IInv /\ PersistEnds /\ TypeOK' => CountInv'
<1>1. SUFFICES ASSUME IInv, PersistEnds, TypeOK' PROVE CountInv'
  OBVIOUS
<1> DEFINE D == Displaced(processingFifo, ProcessingCapacity)
<1>0. phase # "down" /\ persisting # NoMessage /\ PushToProcessing
  BY <1>1, PersistFacts DEF IInv
<1>2. /\ phase # "down" /\ persisting # NoMessage /\ persisting' = NoMessage
      /\ processingFifo' =
           AppendDiscardingOldest(processingFifo, persisting, ProcessingCapacity)
      /\ ingestionFifo' = ingestionFifo /\ processed' = processed
      /\ acknowledged' = acknowledged /\ entered' = entered /\ failed' = failed
      /\ discarded' = discarded \cup D
      /\ overflowCount' = overflowCount + Cardinality(D)
  BY <1>0 DEF PushToProcessing
<1>3. TypeOK /\ OrderInv /\ CountInv /\ persisting \in Message
  BY <1>1, <1>2 DEF IInv, TypeOK
<1>4. /\ D = {} \/ \E d : D = {d}
      /\ \E rest : Pushed(processingFifo, processingFifo', persisting, D, rest)
  BY <1>2, <1>3, PushFacts, Capacities DEF TypeOK
<1> HIDE DEF D
<1>5. PICK rest : Pushed(processingFifo, processingFifo', persisting, D, rest)
  BY <1>4
<1>6. /\ ToSet(processingFifo') = ToSet(rest) \cup {persisting}
      /\ ToSet(processingFifo) = D \cup ToSet(rest)
      /\ \A a, b : a \in D /\ b \in ToSet(rest) => Before(processingFifo, a, b)
  BY <1>5 DEF Pushed
<1>7. /\ ToSet(Places) = ToSet(processed) \cup ToSet(processingFifo)
                           \cup {persisting} \cup ToSet(ingestionFifo)
      /\ ToSet(Places') = ToSet(processed) \cup ToSet(processingFifo')
                            \cup ToSet(ingestionFifo)
  <2>1. ToSet(Places) = ToSet(processed) \cup ToSet(processingFifo)
                          \cup ({persisting} \ {NoMessage}) \cup ToSet(ingestionFifo)
    BY <1>2, <1>3, PlacesAcknowledged
  <2>2. ToSet(Places') = ToSet(processed') \cup ToSet(processingFifo')
                           \cup ({persisting'} \ {NoMessage}) \cup ToSet(ingestionFifo')
    BY <1>1, PlacesPrime
  <2>3. QED
    BY ONLY <1>2, <2>1, <2>2
<1>8. \A x : ~ Earlier(processed, processingFifo, persisting, ingestionFifo, x, x)
  BY <1>2, <1>3, NothingTwice
<1>9. /\ D \cap ToSet(processed) = {} /\ D \cap ToSet(rest) = {}
      /\ D \cap ToSet(ingestionFifo) = {} /\ persisting \notin D
  BY ONLY <1>2, <1>6, <1>8 DEF Earlier
<1>10. /\ ToSet(Places) = entered \ (failed \cup discarded)
       /\ failed \cup discarded \subseteq entered /\ failed \cap discarded = {}
       /\ entered \subseteq ToSet(acknowledged) /\ IsFiniteSet(discarded)
       /\ overflowCount = Cardinality(discarded)
  BY <1>2, <1>3 DEF CountInv
<1>11. D \cap discarded = {} /\ D \subseteq entered /\ D \cap failed = {}
  BY ONLY <1>6, <1>7, <1>10
<1>12. IsFiniteSet(discarded') /\ overflowCount' = Cardinality(discarded')
  BY <1>2, <1>4, <1>10, <1>11, MoreCounted
<1>13. ToSet(Places') = entered' \ (failed' \cup discarded')
  BY ONLY <1>2, <1>6, <1>7, <1>9, <1>10, <1>11
<1>14. /\ failed' \cup discarded' \subseteq entered' /\ failed' \cap discarded' = {}
       /\ entered' \subseteq ToSet(acknowledged')
  BY ONLY <1>2, <1>10, <1>11
<1>15. QED
  BY ONLY <1>12, <1>13, <1>14 DEF CountInv

LEMMA WorkerZeroCount == IInv /\ WorkerZero /\ TypeOK' => CountInv'
<1>1. SUFFICES ASSUME IInv, WorkerZero, TypeOK' PROVE CountInv'
  OBVIOUS
<1> DEFINE h == Head(processingFifo)
<1>2. /\ phase # "down" /\ processingFifo # << >>
      /\ processingFifo' = Tail(processingFifo)
      /\ persisting' = persisting /\ ingestionFifo' = ingestionFifo
      /\ acknowledged' = acknowledged /\ entered' = entered
      /\ discarded' = discarded /\ overflowCount' = overflowCount
      /\ \/ processed' = Append(processed, h) /\ failed' = failed
         \/ processed' = processed /\ failed' = failed \cup {h}
  BY <1>1 DEF WorkerZero, Broadcast, BroadcastFails
<1>3. TypeOK /\ OrderInv /\ CountInv
  BY <1>1 DEF IInv
<1>4. /\ h \in Message
      /\ ToSet(processingFifo) = {h} \cup ToSet(processingFifo')
      /\ \A y : y \in ToSet(processingFifo') => Before(processingFifo, h, y)
  BY <1>2, <1>3, HeadAndTail DEF TypeOK
<1> HIDE DEF h
<1>5. ToSet(Append(processed, h)) = ToSet(processed) \cup {h}
  BY <1>3, <1>4, AppendToSet DEF TypeOK
<1> DEFINE P == {persisting} \ {NoMessage}
<1>6. /\ ToSet(Places) = ToSet(processed) \cup ToSet(processingFifo)
                           \cup P \cup ToSet(ingestionFifo)
      /\ ToSet(Places') = ToSet(processed') \cup ToSet(processingFifo')
                            \cup P \cup ToSet(ingestionFifo)
  BY <1>1, <1>2, <1>3, PlacesAcknowledged, PlacesPrime
<1>7. \A x : ~ Earlier(processed, processingFifo, persisting, ingestionFifo, x, x)
  BY <1>2, <1>3, NothingTwice
<1>8. h \notin ToSet(processed) \cup ToSet(processingFifo') \cup P \cup ToSet(ingestionFifo)
  BY ONLY <1>4, <1>7 DEF Earlier
<1> HIDE DEF P
<1>9. /\ ToSet(Places) = entered \ (failed \cup discarded)
      /\ failed \cup discarded \subseteq entered /\ failed \cap discarded = {}
      /\ entered \subseteq ToSet(acknowledged) /\ IsFiniteSet(discarded)
      /\ overflowCount = Cardinality(discarded)
  BY <1>2, <1>3 DEF CountInv
<1>10. CASE processed' = Append(processed, h) /\ failed' = failed
  <2>1. ToSet(Places') = ToSet(Places)
    BY ONLY <1>4, <1>5, <1>6, <1>10
  <2>2. QED
    BY <1>2, <1>3, <1>10, <2>1, MoveCount
<1>11. CASE processed' = processed /\ failed' = failed \cup {h}
  <2>1. h \in entered /\ h \notin discarded
    BY ONLY <1>4, <1>6, <1>9
  <2>2. ToSet(Places') = entered' \ (failed' \cup discarded')
    BY ONLY <1>2, <1>4, <1>6, <1>8, <1>9, <1>11
  <2>3. /\ failed' \cup discarded' \subseteq entered' /\ failed' \cap discarded' = {}
        /\ entered' \subseteq ToSet(acknowledged') /\ IsFiniteSet(discarded')
        /\ overflowCount' = Cardinality(discarded')
    BY ONLY <1>2, <1>9, <1>11, <2>1
  <2>4. QED
    BY ONLY <2>2, <2>3 DEF CountInv
<1>12. QED
  BY <1>2, <1>10, <1>11

-----------------------------------------------------------------------------
(* IndexInv is kept.                                                       *)

\* Recovery marks everything on disk pending.
LEMMA StartIndex == IInv /\ Start /\ TypeOK' => IndexInv'
<1>1. SUFFICES ASSUME IInv, Start, TypeOK' PROVE IndexInv'
  OBVIOUS
<1> DEFINE pending == BySource(log)
           n == Excess
           first == SubSeq(pending, 1, n)
           rest == SubSeq(pending, n + 1, Len(pending))
<1>2. TypeOK /\ OrderInv
  BY <1>1 DEF IInv
<1>3. pending \in Seq(Message) /\ ToSet(pending) = ToSet(log)
  BY <1>2, RecoveredFacts
<1>4. n \in 0 .. Len(pending)
  BY <1>3, ExcessFacts
<1>5. /\ processingFifo' = rest /\ processed' = << >> /\ ioTaskQueue' = << >>
      /\ failed' = {} /\ log' = log /\ index' = [m \in ToSet(log) |-> "pending"]
      /\ persisting' = NoMessage /\ compaction' = "idle" /\ exposed' = {}
      /\ appended' = appended
  BY <1>1 DEF Start, Excess
<1> HIDE DEF pending, n
<1>6. first \in Seq(Message) /\ rest \in Seq(Message) /\ pending = first \o rest
  BY <1>3, <1>4, SplitAt
<1> HIDE DEF first, rest
<1>7. ToSet(processingFifo') \subseteq ToSet(log)
  BY <1>3, <1>5, <1>6, ToSetConcat
<1>8. /\ DOMAIN index' = ToSet(log)
      /\ \A m \in ToSet(log) : index'[m] = "pending"
  BY <1>5
<1>9. /\ ToSet(processed') = {} /\ ToSet(ioTaskQueue') = {}
      /\ \A x : ~ Before(ioTaskQueue', x, x)
  BY <1>5, ToSetSingle, BeforeNothing
<1>10. ToSet(log) \subseteq ToSet(appended) /\ NoMessage \notin ToSet(log)
  <2>1. ToSet(log) \subseteq Message
    BY <1>2, ToSetTyped DEF TypeOK
  <2>2. QED
    BY <1>2, <2>1, Capacities DEF OrderInv
<1>11. WriteInv'
  BY ONLY <1>5, <1>8, <1>10 DEF WriteInv
<1>12. TaskInv'
  <2>1. "pending" # "completed"
    OBVIOUS
  <2>2. QED
    BY ONLY <1>8, <1>9, <2>1 DEF TaskInv
<1>13. StoreInv'
  <2>1. "idle" # "reading" /\ ToSet(log') \subseteq Stored'
    BY <1>5 DEF Stored
  <2>2. Remaining' \subseteq ToSet(log)
    BY ONLY <1>5, <1>7, <1>9 DEF Remaining
  <2>3. QED
    BY ONLY <1>5, <1>8, <1>9, <2>1, <2>2 DEF StoreInv
<1>14. QED
  BY <1>5, <1>8, <1>10, <1>11, <1>12, <1>13 DEF IndexInv

LEMMA IngestIndex == IInv /\ (\E m \in Message : Ingest(m)) => IndexInv'
<1>1. SUFFICES ASSUME IInv, \E m \in Message : Ingest(m) PROVE IndexInv'
  OBVIOUS
<1>2. UNCHANGED <<phase, processingFifo, ioTaskQueue, persisting, log, index, logBroken,
                  compaction, kept, processed, failed, completed, appended, exposed>>
  BY <1>1 DEF Ingest, store, compacting, overlap
<1>3. QED
  BY <1>1, <1>2 DEF IInv, IndexInv, WriteInv, TaskInv, StoreInv, Remaining, Stored

\* A message whose write begins is new to the log, and it is exposed when a
\* compaction is reading.
LEMMA StartPersistIndex == IInv /\ StartPersist => IndexInv'
<1>1. SUFFICES ASSUME IInv, StartPersist PROVE IndexInv'
  OBVIOUS
<1>2. TypeOK /\ OrderInv /\ IndexInv
  BY <1>1 DEF IInv
<1> DEFINE h == Head(ingestionFifo)
<1>3. /\ phase # "down" /\ ingestionFifo # << >> /\ persisting' = h
      /\ appended' = Append(appended, h)
      /\ exposed' = IF compaction = "reading" THEN exposed \cup {h} ELSE exposed
      /\ UNCHANGED <<phase, processingFifo, ioTaskQueue, log, index, logBroken,
                     compaction, kept, processed, failed, completed>>
  BY <1>1 DEF StartPersist, store, compacting, memory
<1>4. h \in Message /\ h \in ToSet(ingestionFifo)
  BY <1>2, <1>3, HeadAndTail DEF TypeOK
<1> HIDE DEF h
<1>5. ToSet(appended') = ToSet(appended) \cup {h}
  BY <1>2, <1>3, <1>4, AppendToSet DEF TypeOK
<1>6. h \notin ToSet(appended)
  <2>1. Ordered(appended, << >>, NoMessage, ingestionFifo, acknowledged)
    BY <1>2, <1>3, OrderedLines DEF OrderInv
  <2>2. QED
    BY ONLY <1>4, <2>1 DEF Ordered, Earlier
<1>7. ToSet(log) \cup DOMAIN index \subseteq ToSet(appended)
  BY <1>2 DEF OrderInv, IndexInv
<1>8. WriteInv'
  BY ONLY <1>3, <1>6, <1>7 DEF WriteInv
<1>9. TaskInv'
  BY <1>2, <1>3 DEF IndexInv, TaskInv
<1>10. ASSUME ~ logBroken PROVE StoreInv'
  <2>1. StoreInv
    BY <1>2, <1>3, <1>10 DEF IndexInv
  <2>2. exposed \subseteq exposed' /\ Remaining' \subseteq Remaining /\ Stored' = Stored
    BY <1>3 DEF Remaining, Stored
  <2>3. QED
    BY ONLY <1>3, <2>1, <2>2 DEF StoreInv
<1>11. QED
  BY <1>3, <1>5, <1>7, <1>8, <1>9, <1>10 DEF IndexInv

LEMMA RemainingTyped == TypeOK => Remaining \subseteq Message \ exposed
BY ToSetTyped DEF TypeOK, Remaining

\* The message that has been persisted is in the log, or it is exposed.
LEMMA PersistIndex == IInv /\ PersistEnds /\ TypeOK' => IndexInv'
<1>1. SUFFICES ASSUME IInv, PersistEnds, TypeOK' PROVE IndexInv'
  OBVIOUS
<1>2. TypeOK /\ OrderInv /\ CountInv /\ IndexInv
  BY <1>1 DEF IInv
<1>3. /\ phase # "down" /\ persisting \in Message /\ persisting # NoMessage
      /\ PushToProcessing
      /\ log' = log \/ log' = Append(log, persisting)
  BY <1>1, <1>2, PersistFacts
<1>4. /\ persisting' = NoMessage
      /\ processingFifo' =
           AppendDiscardingOldest(processingFifo, persisting, ProcessingCapacity)
      /\ UNCHANGED <<phase, ioTaskQueue, compaction, kept, processed, failed, completed,
                     appended>>
  BY <1>3 DEF PushToProcessing, compacting
<1>5. ToSet(processingFifo') \subseteq ToSet(processingFifo) \cup {persisting}
  <2>1. PICK rest : Pushed(processingFifo, processingFifo', persisting,
                           Displaced(processingFifo, ProcessingCapacity), rest)
    BY <1>2, <1>3, <1>4, PushFacts, Capacities DEF TypeOK
  <2>2. QED
    BY <2>1 DEF Pushed
<1>6. ToSet(Append(log, persisting)) = ToSet(log) \cup {persisting}
  BY <1>2, <1>3, AppendToSet DEF TypeOK
<1>7. index' = index \/ index' = Indexed(persisting)
  BY <1>1 DEF PersistEnds, PersistSucceeds, PersistArchived, PersistFails
<1>8. /\ DOMAIN Indexed(persisting) = DOMAIN index \cup {persisting}
      /\ Indexed(persisting)[persisting] = "pending"
      /\ \A m \in DOMAIN index : m # persisting => Indexed(persisting)[m] = index[m]
  BY <1>2, <1>3, IndexedTypes
<1>9. DOMAIN index \cup {persisting} \subseteq ToSet(appended)
  BY <1>2, <1>3 DEF OrderInv, IndexInv
<1>10. DOMAIN index' \subseteq ToSet(appended')
  BY ONLY <1>4, <1>7, <1>8, <1>9
<1>11. NoMessage \notin ToSet(log') /\ NoMessage \notin DOMAIN index'
  BY <1>1, ToSetTyped, Capacities DEF TypeOK
<1>12. WriteInv'
  BY <1>4, <1>11 DEF WriteInv
<1>13. TaskInv'
  <2>1. TaskInv /\ "pending" # "completed"
    BY <1>2, <1>3 DEF IndexInv
  <2>2. QED
    BY ONLY <1>4, <1>7, <1>8, <2>1 DEF TaskInv
<1>14. persisting \notin ToSet(processed) \cup ToSet(processingFifo) \cup failed
  <2>1. \A x : ~ Earlier(processed, processingFifo, persisting, ingestionFifo, x, x)
    BY <1>2, <1>3, NothingTwice
  <2>2. persisting \notin ToSet(processed) \cup ToSet(processingFifo)
    BY ONLY <1>3, <2>1 DEF Earlier
  <2>3. persisting \in ToSet(Places)
    BY <1>2, <1>3, PlacesAcknowledged
  <2>4. QED
    BY <1>2, <1>3, <2>2, <2>3 DEF CountInv
<1>15. /\ WriteInv /\ TaskInv
       /\ Remaining' \subseteq (Remaining \cup exposed \cup {persisting}) \ exposed'
  <2>1. Remaining' = (ToSet(processingFifo') \cup ToSet(ioTaskQueue) \cup failed) \ exposed'
    BY <1>4 DEF Remaining
  <2>2. QED
    BY <1>2, <1>3, <1>5, <2>1 DEF IndexInv, Remaining
<1>16. CASE PersistFails
  <2>1. logBroken'
    BY <1>16 DEF PersistFails
  <2>2. QED
    BY <1>10, <1>12, <1>13, <2>1 DEF IndexInv
<1>17. CASE PersistArchived
  <2>1. /\ ~ logBroken /\ persisting \in exposed /\ log' = log /\ exposed' = exposed
        /\ logBroken' = logBroken
    BY <1>17 DEF PersistArchived
  <2>2. StoreInv /\ Stored' = Stored /\ Remaining' \subseteq Remaining
    BY <1>2, <1>3, <1>4, <1>15, <2>1 DEF IndexInv, Stored
  <2>3. \A m \in Message \ exposed : /\ m \in DOMAIN index' <=> m \in DOMAIN index
                                     /\ m \in DOMAIN index => index'[m] = index[m]
    BY ONLY <1>7, <1>8, <2>1
  <2>4. Remaining \subseteq Message \ exposed
    BY <1>2, RemainingTyped
  <2>5. StoreInv'
    BY ONLY <1>4, <2>1, <2>2, <2>3, <2>4 DEF StoreInv
  <2>6. QED
    BY <1>10, <1>12, <1>13, <2>5 DEF IndexInv
<1>18. CASE PersistSucceeds
  <2>1. /\ ~ logBroken /\ index' = Indexed(persisting)
        /\ log' = (IF misplaced THEN log ELSE Append(log, persisting))
        /\ exposed' = IF misplaced THEN exposed \cup {persisting}
                      ELSE IF compaction = "reading" THEN exposed
                      ELSE exposed \ {persisting}
    <3>1. log \o <<persisting>> = Append(log, persisting)
      BY <1>2, <1>3, AppendIsConcat DEF TypeOK
    <3>2. QED
      BY <1>18, <3>1 DEF PersistSucceeds, CanWrite, Written
  <2>2. StoreInv
    BY <1>2, <1>3, <2>1 DEF IndexInv
  <2>3. /\ ToSet(log) \subseteq ToSet(log') /\ ToSet(log') \subseteq ToSet(log) \cup {persisting}
        /\ persisting \in ToSet(log') \cup exposed' /\ exposed \ {persisting} \subseteq exposed'
    <3>1. compaction = "reading" => persisting \in exposed
      BY <1>3, <1>15 DEF WriteInv
    <3>2. CASE misplaced
      BY <2>1, <3>2
    <3>3. CASE ~ misplaced
      BY <1>6, <2>1, <3>1, <3>3
    <3>4. QED
      BY <3>2, <3>3
  <2>4. /\ Stored \subseteq Stored' /\ ToSet(log') \subseteq Stored'
    BY <1>4, <2>3 DEF Stored
  <2>5. \A m \in Message \ exposed' : m \in ToSet(log') <=> m \in DOMAIN index'
    BY ONLY <1>8, <2>1, <2>2, <2>3 DEF StoreInv
  <2>6. ToSet(processed') \ (Stored' \cup exposed') \subseteq completed'
    BY ONLY <1>4, <1>14, <2>2, <2>3, <2>4 DEF StoreInv
  <2>7. compaction' = "reading" =>
          /\ Remaining' \subseteq ToSet(kept')
          /\ ToSet(processed') \ (ToSet(kept') \cup exposed') \subseteq completed'
    <3>1. SUFFICES ASSUME compaction' = "reading"
                   PROVE  /\ Remaining' \subseteq ToSet(kept')
                          /\ ToSet(processed') \ (ToSet(kept') \cup exposed') \subseteq completed'
      OBVIOUS
    <3>2. persisting \in exposed /\ exposed \subseteq exposed'
      BY <1>3, <1>4, <1>15, <2>1, <3>1 DEF WriteInv
    <3>3. Remaining' \subseteq Remaining
      BY ONLY <1>15, <3>2
    <3>4. QED
      BY ONLY <1>4, <2>2, <3>1, <3>2, <3>3 DEF StoreInv
  <2>8. \A m \in Remaining' : m \in Stored' /\ (m \in ToSet(log') => index'[m] = "pending")
    <3>1. SUFFICES ASSUME NEW m \in Remaining'
                   PROVE  m \in Stored' /\ (m \in ToSet(log') => index'[m] = "pending")
      OBVIOUS
    <3>2. CASE m = persisting
      <4>1. m \in ToSet(log')
        BY <2>3, <3>1, <3>2 DEF Remaining
      <4>2. QED
        BY <1>8, <2>1, <2>4, <3>2, <4>1
    <3>3. CASE m # persisting
      <4>1. m \in Remaining /\ m \notin exposed
        BY <1>15, <2>3, <3>1, <3>3 DEF Remaining
      <4>2. m \in Stored /\ (m \in ToSet(log) => index[m] = "pending")
        BY <2>2, <4>1 DEF StoreInv
      <4>3. m \in ToSet(log') => m \in ToSet(log) /\ m \in DOMAIN index
        <5>1. m \in Message
          BY <1>2, <4>1, RemainingTyped
        <5>2. QED
          BY ONLY <2>2, <2>3, <3>3, <4>1, <5>1 DEF StoreInv
      <4>4. QED
        BY ONLY <1>8, <2>1, <2>4, <3>3, <4>2, <4>3
    <3>4. QED
      BY <3>2, <3>3
  <2>9. StoreInv'
    BY ONLY <2>5, <2>6, <2>7, <2>8 DEF StoreInv
  <2>10. QED
    BY <1>10, <1>12, <1>13, <2>9 DEF IndexInv
<1>19. QED
  BY <1>1, <1>16, <1>17, <1>18 DEF PersistEnds

LEMMA BroadcastIndex == IInv /\ Broadcast => IndexInv'
<1>1. SUFFICES ASSUME IInv, Broadcast PROVE IndexInv'
  OBVIOUS
<1> DEFINE h == Head(processingFifo)
<1>2. /\ phase # "down" /\ phase' = phase /\ processingFifo # << >>
      /\ processingFifo' = Tail(processingFifo) /\ processed' = Append(processed, h)
      /\ ioTaskQueue' = ioTaskQueue \/ ioTaskQueue' = Append(ioTaskQueue, h)
      /\ UNCHANGED <<persisting, log, index, logBroken, compaction, kept, failed,
                     completed, appended, exposed>>
  BY <1>1 DEF Broadcast, store, compacting, overlap
<1>3. TypeOK /\ OrderInv /\ IndexInv
  BY <1>1 DEF IInv
<1>4. h \in Message /\ ToSet(processingFifo) = {h} \cup ToSet(processingFifo')
  BY <1>2, <1>3, HeadAndTail DEF TypeOK
<1> HIDE DEF h
<1>5. ToSet(processed') = ToSet(processed) \cup {h}
  BY <1>2, <1>3, <1>4, AppendToSet DEF TypeOK
<1>6. h \notin ToSet(processed)
  <2>1. \A x : ~ Earlier(processed, processingFifo, persisting, ingestionFifo, x, x)
    BY <1>2, <1>3, NothingTwice
  <2>2. QED
    BY ONLY <1>4, <2>1 DEF Earlier
<1>7. /\ ToSet(Append(ioTaskQueue, h)) = ToSet(ioTaskQueue) \cup {h}
      /\ \A x, y : Before(Append(ioTaskQueue, h), x, y) <=>
                     Before(ioTaskQueue, x, y) \/ (x \in ToSet(ioTaskQueue) /\ y = h)
  BY <1>3, <1>4, AppendToSet, BeforeAppend DEF TypeOK
<1>8. TaskInv /\ WriteInv
  BY <1>2, <1>3 DEF IndexInv
<1>9. /\ ToSet(ioTaskQueue') \subseteq ToSet(ioTaskQueue) \cup {h}
      /\ \A x \in ToSet(ioTaskQueue') : ~ Before(ioTaskQueue', x, x)
  <2>1. \A x : ~ Before(ioTaskQueue, x, x)
    BY <1>8, BeforeIsIn DEF TaskInv
  <2>2. h \notin ToSet(ioTaskQueue)
    BY <1>6, <1>8 DEF TaskInv
  <2>3. CASE ioTaskQueue' = ioTaskQueue
    BY ONLY <2>1, <2>3
  <2>4. CASE ioTaskQueue' = Append(ioTaskQueue, h)
    <3>1. ToSet(ioTaskQueue') = ToSet(ioTaskQueue) \cup {h}
      BY ONLY <1>7, <2>4
    <3>2. \A x, y : Before(ioTaskQueue', x, y) <=>
                      Before(ioTaskQueue, x, y) \/ (x \in ToSet(ioTaskQueue) /\ y = h)
      BY ONLY <1>7, <2>4
    <3>3. QED
      BY ONLY <2>1, <2>2, <3>1, <3>2
  <2>5. QED
    BY ONLY <1>2, <2>3, <2>4
<1>10. TaskInv' /\ WriteInv'
  BY ONLY <1>2, <1>5, <1>8, <1>9 DEF TaskInv, WriteInv
<1>11. ASSUME ~ logBroken PROVE StoreInv'
  <2>1. StoreInv
    BY <1>2, <1>3, <1>11 DEF IndexInv
  <2>2. Stored' = Stored
    BY <1>2 DEF Stored
  <2>3. Remaining' \subseteq Remaining
    BY ONLY <1>2, <1>4, <1>9 DEF Remaining
  <2>4. h \in Remaining \cup exposed
    BY ONLY <1>4 DEF Remaining
  <2>5. h \in Stored \cup exposed /\ (compaction = "reading" => h \in ToSet(kept) \cup exposed)
    BY ONLY <2>1, <2>4 DEF StoreInv
  <2>6. QED
    BY ONLY <1>2, <1>5, <2>1, <2>2, <2>3, <2>5 DEF StoreInv
<1>12. QED
  BY <1>2, <1>3, <1>10, <1>11 DEF IndexInv

LEMMA BroadcastFailsIndex == IInv /\ BroadcastFails => IndexInv'
<1>1. SUFFICES ASSUME IInv, BroadcastFails PROVE IndexInv'
  OBVIOUS
<1> DEFINE h == Head(processingFifo)
<1>2. /\ phase # "down" /\ phase' = phase /\ processingFifo # << >>
      /\ processingFifo' = Tail(processingFifo) /\ failed' = failed \cup {h}
      /\ UNCHANGED <<persisting, ioTaskQueue, processed, log, index, logBroken, compaction,
                     kept, completed, appended, exposed>>
  BY <1>1 DEF BroadcastFails, store, compacting, overlap
<1>3. ToSet(processingFifo) = {h} \cup ToSet(processingFifo')
  BY <1>1, <1>2, HeadAndTail DEF IInv, TypeOK
<1> HIDE DEF h
<1>4. Remaining' = Remaining /\ Stored' = Stored
  BY <1>2, <1>3 DEF Remaining, Stored
<1>5. QED
  BY <1>1, <1>2, <1>4 DEF IInv, IndexInv, WriteInv, TaskInv, StoreInv

\* The message marked completed is queued nowhere and has not failed.
LEMMA MarkCompletedIndex == IInv /\ MarkCompleted => IndexInv'
<1>1. SUFFICES ASSUME IInv, MarkCompleted PROVE IndexInv'
  OBVIOUS
<1> DEFINE h == Head(ioTaskQueue)
<1>2. /\ phase # "down" /\ phase' = phase /\ ioTaskQueue # << >>
      /\ ioTaskQueue' = Tail(ioTaskQueue)
      /\ index' = [m \in DOMAIN index |-> IF m = h THEN "completed" ELSE index[m]]
      /\ completed' = completed \cup {h}
      /\ processingFifo' = processingFifo /\ processed' = processed
      /\ UNCHANGED <<persisting, log, logBroken, compaction, failed, appended, exposed>>
      /\ kept' = kept \/ kept' = Selected(kept, Message \ {h})
  BY <1>1 DEF MarkCompleted, overlap
<1>3. TypeOK /\ OrderInv /\ CountInv /\ IndexInv
  BY <1>1 DEF IInv
<1>4. /\ h \in ToSet(ioTaskQueue)
      /\ ToSet(ioTaskQueue) = {h} \cup ToSet(ioTaskQueue')
      /\ \A x, y : Before(ioTaskQueue, x, y) <=>
                     Before(ioTaskQueue', x, y) \/ (x = h /\ y \in ToSet(ioTaskQueue'))
  BY <1>2, <1>3, HeadAndTail DEF TypeOK
<1> HIDE DEF h
<1>5. TaskInv /\ WriteInv
  BY <1>2, <1>3 DEF IndexInv
<1>6. h \notin ToSet(ioTaskQueue') /\ h \in ToSet(processed)
      /\ \A x \in ToSet(ioTaskQueue') : ~ Before(ioTaskQueue', x, x)
  BY ONLY <1>4, <1>5 DEF TaskInv
<1>7. h \notin ToSet(processingFifo)
  <2>1. \A x : ~ Earlier(processed, processingFifo, persisting, ingestionFifo, x, x)
    BY <1>2, <1>3, NothingTwice
  <2>2. QED
    BY ONLY <1>6, <2>1 DEF Earlier
<1>8. h \notin failed
  <2>1. h \in ToSet(Places)
    BY <1>2, <1>3, <1>6, PlacesAcknowledged
  <2>2. QED
    BY <1>2, <1>3, <2>1 DEF CountInv
<1>9. /\ DOMAIN index' = DOMAIN index
      /\ \A m \in DOMAIN index : m # h => index'[m] = index[m]
  BY <1>2
<1>10. TaskInv'
  BY ONLY <1>2, <1>4, <1>5, <1>6, <1>9 DEF TaskInv
<1>11. WriteInv'
  BY ONLY <1>2, <1>5, <1>9 DEF WriteInv
<1>12. ToSet(kept') \subseteq ToSet(kept) /\ ToSet(kept) \subseteq ToSet(kept') \cup {h}
  <2>1. kept \in Seq(Message) /\ ToSet(kept) \subseteq Message
    BY <1>3, ToSetTyped DEF TypeOK
  <2>2. ToSet(Selected(kept, Message \ {h})) = ToSet(kept) \cap (Message \ {h})
    BY <2>1, SelectedRange
  <2>3. QED
    BY ONLY <1>2, <2>1, <2>2
<1>13. ASSUME ~ logBroken PROVE StoreInv'
  <2>1. StoreInv
    BY <1>2, <1>3, <1>13 DEF IndexInv
  <2>2. Remaining' \subseteq Remaining \ {h}
    BY ONLY <1>2, <1>4, <1>6, <1>7, <1>8 DEF Remaining
  <2>3. Stored' \subseteq Stored /\ Stored \subseteq Stored' \cup {h}
    BY <1>2, <1>12 DEF Stored
  <2>4. Remaining \subseteq Message \ exposed
    BY <1>3, RemainingTyped
  <2>5. \A m \in Remaining' : m \in Stored' /\ (m \in ToSet(log') => index'[m] = "pending")
    BY ONLY <1>2, <1>9, <2>1, <2>2, <2>3, <2>4 DEF StoreInv
  <2>6. ToSet(processed') \ (Stored' \cup exposed') \subseteq completed'
    BY ONLY <1>2, <2>1, <2>3 DEF StoreInv
  <2>7. compaction' = "reading" =>
          /\ Remaining' \subseteq ToSet(kept')
          /\ ToSet(processed') \ (ToSet(kept') \cup exposed') \subseteq completed'
    BY ONLY <1>2, <1>12, <2>1, <2>2 DEF StoreInv
  <2>8. \A m \in Message \ exposed' : m \in ToSet(log') <=> m \in DOMAIN index'
    BY ONLY <1>2, <1>9, <2>1 DEF StoreInv
  <2>9. QED
    BY ONLY <2>5, <2>6, <2>7, <2>8 DEF StoreInv
<1>14. DOMAIN index' \subseteq ToSet(appended')
  BY <1>2, <1>3, <1>9 DEF IndexInv
<1>15. QED
  BY <1>2, <1>10, <1>11, <1>13, <1>14 DEF IndexInv

\* No step of a compaction completes a message, or writes one that is being
\* persisted.
LEMMA CompactTasks ==
  ASSUME IInv, CompactSteps
  PROVE  /\ DOMAIN index' \subseteq ToSet(appended')
         /\ TaskInv'
         /\ persisting' \notin ToSet(log') \cup DOMAIN index'
<1>1. TypeOK /\ OrderInv /\ IndexInv
  BY DEF IInv
<1>2. /\ phase # "down" /\ UNCHANGED <<phase, queues, memory, appended>>
      /\ DOMAIN index' \subseteq DOMAIN index \cup ToSet(kept)
  BY <1>1, CompactFacts
<1>3. TaskInv /\ WriteInv
  BY <1>1, <1>2 DEF IndexInv
<1>4. DOMAIN index' \subseteq ToSet(appended')
  BY <1>1, <1>2 DEF OrderInv, IndexInv
<1>5. ASSUME NEW n \in 0 .. Len(kept), Rewritten(n), CanRewrite
      PROVE  /\ \A m \in DOMAIN index' : index'[m] = "completed" =>
                  m \in DOMAIN index /\ index[m] = "completed"
             /\ persisting \notin ToSet(log') \cup DOMAIN index'
  <2> DEFINE P == ToSet(SubSeq(kept, 1, n))
  <2>1. /\ P \subseteq ToSet(kept)
        /\ ToSet(log') = IF misplaced THEN ToSet(log) ELSE ToSet(log) \cup P
        /\ DOMAIN index' = DOMAIN index \cup P
        /\ \A m \in P : index'[m] = "pending"
        /\ \A m \in DOMAIN index \ P : index'[m] = index[m]
    BY <1>1, <1>5, RewrittenFacts
  <2> HIDE DEF P
  <2>2. persisting \notin ToSet(kept) /\ "pending" # "completed"
    BY <1>5 DEF CanRewrite
  <2>3. QED
    BY ONLY <1>3, <2>1, <2>2 DEF WriteInv
<1>6. \/ index' = index /\ log' = log
      \/ index' = << >> /\ log' = << >>
      \/ \E n \in 0 .. Len(kept) : Rewritten(n) /\ CanRewrite
  <2>1. kept \in Seq(Message)
    BY <1>1 DEF TypeOK
  <2>2. Len(kept) \in 0 .. Len(kept) /\ 0 .. Len(kept) - 1 \subseteq 0 .. Len(kept)
    BY <2>1
  <2>3. CompactRewrite => Rewritten(Len(kept)) /\ CanRewrite
    BY DEF CompactRewrite
  <2>4. CompactFails => \/ index' = index /\ log' = log
                        \/ \E n \in 0 .. Len(kept) - 1 : Rewritten(n) /\ CanRewrite
    BY DEF CompactFails
  <2>5. /\ CompactBegin => index' = index /\ log' = log
        /\ CompactArchive => index' = << >> /\ log' = << >>
        /\ CompactOpen => index' = index /\ log' = log
    BY DEF CompactBegin, CompactArchive, CompactOpen, store
  <2>6. QED
    BY <2>2, <2>3, <2>4, <2>5 DEF CompactSteps
<1>7. ToSet(<< >>) = {} /\ DOMAIN << >> = {}
  BY ToSetSingle
<1>8. /\ \A m \in DOMAIN index' : index'[m] = "completed" =>
           m \in DOMAIN index /\ index[m] = "completed"
      /\ persisting \notin ToSet(log') \cup DOMAIN index'
  <2>1. CASE index' = index /\ log' = log
    BY ONLY <1>3, <2>1 DEF WriteInv
  <2>2. CASE index' = << >> /\ log' = << >>
    BY ONLY <1>7, <2>2
  <2>3. CASE \E n \in 0 .. Len(kept) : Rewritten(n) /\ CanRewrite
    BY <1>5, <2>3
  <2>4. QED
    BY <1>6, <2>1, <2>2, <2>3
<1>9. TaskInv'
  BY <1>2, <1>3, <1>8 DEF TaskInv, queues, memory
<1>10. QED
  BY <1>2, <1>4, <1>8, <1>9 DEF queues

\* What a compaction collects is all that still has to be completed, but for
\* the exposed messages.
LEMMA CompactBeginIndex == IInv /\ CompactBegin => WriteInv' /\ (~ logBroken' => StoreInv')
<1>1. SUFFICES ASSUME IInv, CompactBegin PROVE WriteInv' /\ (~ logBroken' => StoreInv')
  OBVIOUS
<1> DEFINE pending == {m \in DOMAIN index : index[m] = "pending"}
<1>2. TypeOK /\ OrderInv /\ IndexInv
  BY <1>1 DEF IInv
<1>3. /\ phase # "down" /\ compaction = "idle" /\ compaction' = "reading"
      /\ exposed' = exposed \cup ({persisting} \ {NoMessage})
      /\ UNCHANGED <<persisting, processingFifo, ioTaskQueue, log, index, logBroken,
                     processed, failed, completed>>
  BY <1>1, <1>2, InFlightFacts DEF CompactBegin, queues, store, memory
<1>4. ToSet(log) \cap pending \subseteq ToSet(kept')
  BY <1>1, <1>2, CollectedFacts
<1>5. WriteInv'
  BY <1>2, <1>3 DEF IndexInv, WriteInv
<1>6. ASSUME ~ logBroken PROVE StoreInv'
  <2>1. StoreInv /\ TaskInv
    BY <1>2, <1>3, <1>6 DEF IndexInv
  <2>2. Stored = ToSet(log) /\ Stored' = ToSet(log)
    BY <1>3 DEF Stored
  <2>3. Remaining' \subseteq Remaining /\ Remaining \subseteq Message \ exposed
    BY <1>2, <1>3, RemainingTyped DEF Remaining
  <2>4. Remaining' \subseteq ToSet(kept')
    BY ONLY <1>4, <2>1, <2>2, <2>3 DEF StoreInv
  <2>5. ToSet(processed) \ (ToSet(kept') \cup exposed') \subseteq completed
    <3>1. SUFFICES ASSUME NEW m \in ToSet(processed), m \notin ToSet(kept') \cup exposed'
                   PROVE  m \in completed
      OBVIOUS
    <3>2. m \in Message /\ m \notin exposed
      BY <1>2, <1>3, <3>1, ToSetTyped DEF TypeOK
    <3>3. CASE m \in ToSet(log)
      <4>1. m \in DOMAIN index /\ index[m] # "pending"
        BY <1>4, <2>1, <3>1, <3>2, <3>3 DEF StoreInv
      <4>2. index[m] = "completed"
        BY <1>2, <4>1 DEF TypeOK
      <4>3. QED
        BY <2>1, <4>1, <4>2 DEF TaskInv
    <3>4. CASE m \notin ToSet(log)
      BY <2>1, <2>2, <3>1, <3>2, <3>4 DEF StoreInv
    <3>5. QED
      BY <3>3, <3>4
  <2>6. QED
    BY ONLY <1>3, <2>1, <2>2, <2>3, <2>4, <2>5 DEF StoreInv
<1>7. QED
  BY <1>3, <1>5, <1>6

\* While its entries are archived a compaction has what is still needed.
LEMMA CompactArchiveIndex ==
  IInv /\ (CompactArchive \/ CompactOpen) => WriteInv' /\ (~ logBroken' => StoreInv')
<1>1. SUFFICES ASSUME IInv, CompactArchive \/ CompactOpen
               PROVE  WriteInv' /\ (~ logBroken' => StoreInv')
  OBVIOUS
<1>2. TypeOK /\ OrderInv /\ IndexInv
  BY <1>1 DEF IInv
<1>3. /\ phase # "down" /\ compaction' # "reading"
      /\ UNCHANGED <<persisting, processingFifo, ioTaskQueue, logBroken, kept, exposed,
                     processed, failed, completed>>
  BY <1>1 DEF CompactArchive, CompactOpen, queues, memory, overlap
<1>4. Remaining' = Remaining
  BY <1>3 DEF Remaining
<1>5. WriteInv'
  <2>1. persisting' \notin ToSet(log') \cup DOMAIN index'
    BY <1>1, CompactTasks DEF CompactSteps
  <2>2. QED
    BY <1>3, <2>1 DEF WriteInv
<1>6. CASE CompactArchive
  <2>1. /\ compaction = "reading" /\ compaction' = "archived"
        /\ log' = << >> /\ index' = << >>
    BY <1>6 DEF CompactArchive
  <2>2. ToSet(log') = {} /\ DOMAIN index' = {}
    BY <2>1, ToSetSingle
  <2>3. Stored' = ToSet(kept)
    BY <1>3, <2>1, <2>2 DEF Stored
  <2>4. ~ logBroken => StoreInv
    BY <1>2, <1>3 DEF IndexInv
  <2>5. ~ logBroken => StoreInv'
    BY ONLY <1>3, <1>4, <2>1, <2>2, <2>3, <2>4 DEF StoreInv
  <2>6. QED
    BY <1>3, <1>5, <2>5
<1>7. CASE CompactOpen
  <2>1. /\ compaction = "archived" /\ log' = log /\ index' = index
        /\ compaction' = IF kept = << >> THEN "idle" ELSE "opened"
    BY <1>7 DEF CompactOpen
  <2>2. Stored' = Stored
    <3>1. kept = << >> => ToSet(kept) = {}
      BY ToSetSingle
    <3>2. QED
      BY <1>3, <2>1, <3>1 DEF Stored
  <2>3. ~ logBroken => StoreInv
    BY <1>2, <1>3 DEF IndexInv
  <2>4. ~ logBroken => StoreInv'
    BY ONLY <1>3, <1>4, <2>1, <2>2, <2>3 DEF StoreInv
  <2>5. QED
    BY <1>3, <1>5, <2>4
<1>8. QED
  BY <1>1, <1>6, <1>7

\* The rewritten entries are back in the log, or exposed.
LEMMA CompactRewriteIndex ==
  IInv /\ CompactRewrite => WriteInv' /\ (~ logBroken' => StoreInv')
<1>1. SUFFICES ASSUME IInv, CompactRewrite PROVE WriteInv' /\ (~ logBroken' => StoreInv')
  OBVIOUS
<1>2. TypeOK /\ OrderInv /\ CountInv /\ IndexInv
  BY <1>1 DEF IInv
<1> DEFINE K == ToSet(kept)
<1>3. /\ phase # "down" /\ ~ logBroken /\ compaction = "opened" /\ compaction' = "idle"
      /\ persisting \notin K
      /\ exposed' = IF misplaced THEN (exposed \ {persisting}) \cup K
                    ELSE exposed \ ({persisting} \cup K)
      /\ UNCHANGED <<persisting, processingFifo, ioTaskQueue, logBroken, processed,
                     failed, completed>>
  BY <1>1 DEF CompactRewrite, CanRewrite, queues, memory
<1>4. /\ ToSet(log') = IF misplaced THEN ToSet(log) ELSE ToSet(log) \cup K
      /\ DOMAIN index' = DOMAIN index \cup K
      /\ \A m \in K : index'[m] = "pending"
      /\ \A m \in DOMAIN index \ K : index'[m] = index[m]
  <2>1. kept \in Seq(Message) /\ Rewritten(Len(kept))
    BY <1>1, <1>2 DEF TypeOK, CompactRewrite
  <2>2. Len(kept) \in 0 .. Len(kept)
    BY <2>1
  <2>3. QED
    BY <1>2, <2>1, <2>2, RewrittenFacts
<1>5. StoreInv /\ WriteInv /\ TaskInv
  BY <1>2, <1>3 DEF IndexInv
<1>6. Stored = ToSet(log) \cup K /\ Stored' = ToSet(log')
  BY <1>3 DEF Stored
<1>7. persisting \notin ToSet(processed) \cup Remaining \cup Remaining'
  <2>1. CASE persisting = NoMessage
    <3>1. /\ ToSet(processed) \subseteq Message /\ ToSet(processingFifo) \subseteq Message
          /\ ToSet(ioTaskQueue) \subseteq Message /\ failed \subseteq Message
      BY <1>2, ToSetTyped DEF TypeOK
    <3>2. NoMessage \notin Message
      BY Capacities
    <3>3. QED
      BY <1>3, <2>1, <3>1, <3>2 DEF Remaining
  <2>2. CASE persisting # NoMessage
    <3>1. \A x : ~ Earlier(processed, processingFifo, persisting, ingestionFifo, x, x)
      BY <1>2, <1>3, NothingTwice
    <3>2. persisting \notin ToSet(processed) \cup ToSet(processingFifo)
      BY ONLY <2>2, <3>1 DEF Earlier
    <3>3. persisting \in ToSet(Places)
      BY <1>2, <1>3, <2>2, PlacesAcknowledged
    <3>4. persisting \notin failed
      BY <1>2, <1>3, <3>3 DEF CountInv
    <3>5. QED
      BY ONLY <1>3, <1>5, <3>2, <3>4 DEF Remaining, TaskInv
  <2>3. QED
    BY <2>1, <2>2
<1> HIDE DEF K
<1>8. WriteInv'
  BY ONLY <1>3, <1>4, <1>5 DEF WriteInv
<1>9. ToSet(log) \subseteq ToSet(log') /\ ToSet(log') \subseteq ToSet(log) \cup K
      /\ K \subseteq ToSet(log') \cup exposed'
      /\ exposed \subseteq exposed' \cup {persisting} \cup K
  <2>1. CASE misplaced
    BY <1>3, <1>4, <2>1
  <2>2. CASE ~ misplaced
    BY <1>3, <1>4, <2>2
  <2>3. QED
    BY <2>1, <2>2
<1>10. \A m \in Message \ exposed' : m \in ToSet(log') <=> m \in DOMAIN index'
  <2>1. SUFFICES ASSUME NEW m \in Message \ exposed'
                 PROVE  m \in ToSet(log') <=> m \in DOMAIN index'
    OBVIOUS
  <2>2. CASE m \in K
    BY <1>4, <1>9, <2>1, <2>2
  <2>3. CASE m = persisting
    BY ONLY <1>3, <1>4, <1>5, <1>9, <2>3 DEF WriteInv
  <2>4. CASE m \notin K /\ m # persisting
    <3>1. m \in ToSet(log) <=> m \in DOMAIN index
      BY ONLY <1>5, <1>9, <2>1, <2>4 DEF StoreInv
    <3>2. QED
      BY ONLY <1>4, <1>9, <2>4, <3>1
  <2>5. QED
    BY <2>2, <2>3, <2>4
<1>11. \A m \in Remaining' : m \in Stored' /\ (m \in ToSet(log') => index'[m] = "pending")
  <2>1. SUFFICES ASSUME NEW m \in Remaining'
                 PROVE  m \in ToSet(log') /\ index'[m] = "pending"
    BY <1>6
  <2>2. m \notin exposed' /\ m # persisting
    BY <1>7, <2>1 DEF Remaining
  <2>3. CASE m \in K
    BY ONLY <1>4, <1>9, <2>2, <2>3
  <2>4. CASE m \notin K
    <3>1. m \in Remaining /\ m \in Message \ exposed
      <4>1. m \notin exposed
        BY ONLY <1>9, <2>2, <2>4
      <4>2. m \in Remaining
        BY ONLY <1>3, <2>1, <4>1 DEF Remaining
      <4>3. QED
        BY <1>2, <4>2, RemainingTyped
    <3>2. m \in ToSet(log) /\ index[m] = "pending" /\ m \in DOMAIN index
      BY ONLY <1>5, <1>6, <2>4, <3>1 DEF StoreInv
    <3>3. QED
      BY ONLY <1>4, <1>9, <2>4, <3>2
  <2>5. QED
    BY <2>3, <2>4
<1>12. ToSet(processed') \ (Stored' \cup exposed') \subseteq completed'
  BY ONLY <1>3, <1>5, <1>6, <1>7, <1>9 DEF StoreInv
<1>13. QED
  BY <1>3, <1>8, <1>10, <1>11, <1>12 DEF StoreInv

\* A compaction that fails leaves the lock of the log broken.
LEMMA CompactFailsIndex == IInv /\ CompactFails => WriteInv' /\ logBroken'
<1>1. SUFFICES ASSUME IInv, CompactFails PROVE WriteInv' /\ logBroken'
  OBVIOUS
<1>2. compaction' = "idle" /\ logBroken'
  BY <1>1 DEF CompactFails
<1>3. persisting' \notin ToSet(log') \cup DOMAIN index'
  BY <1>1, CompactTasks DEF CompactSteps
<1>4. QED
  BY <1>2, <1>3 DEF WriteInv

LEMMA CompactIndex == IInv /\ CompactSteps => IndexInv'
<1>1. SUFFICES ASSUME IInv, CompactSteps PROVE IndexInv'
  OBVIOUS
<1>2. DOMAIN index' \subseteq ToSet(appended') /\ TaskInv'
  BY <1>1, CompactTasks
<1>3. WriteInv' /\ (~ logBroken' => StoreInv')
  BY <1>1, CompactBeginIndex, CompactArchiveIndex, CompactRewriteIndex, CompactFailsIndex
  DEF CompactSteps
<1>4. QED
  BY <1>2, <1>3 DEF IndexInv

\* Starting and stopping.
LEMMA EndKeeps ==
  IInv /\ (StartFails \/ StopWorkers \/ Exit \/ Crash) => CountInv' /\ IndexInv'
<1>1. SUFFICES ASSUME IInv, StartFails \/ StopWorkers \/ Exit \/ Crash
               PROVE  CountInv' /\ IndexInv'
  OBVIOUS
<1>2. CASE StartFails
  <2>1. phase' = "down" /\ index' = index /\ appended' = appended
    BY <1>2 DEF StartFails, overlap
  <2>2. QED
    BY <1>1, <2>1 DEF IInv, CountInv, IndexInv
<1>3. CASE StopWorkers
  <2>1. /\ UNCHANGED <<queues, store, compacting, overflowCount, memory, overlap>>
        /\ phase # "down"
    BY <1>3 DEF StopWorkers
  <2>2. CountInv'
    BY <1>1, <2>1 DEF IInv, CountInv, Places, InFlight, queues, memory
  <2>3. Remaining' = Remaining /\ Stored' = Stored
    BY <2>1 DEF Remaining, Stored, queues, store, compacting, memory, overlap
  <2>4. IndexInv'
    BY <1>1, <2>1, <2>3 DEF IInv, IndexInv, WriteInv, TaskInv, StoreInv, queues, store,
       compacting, memory, overlap
  <2>5. QED
    BY <2>2, <2>4
<1>4. CASE Exit \/ Crash
  <2>1. phase' = "down" /\ index' = << >>
    BY <1>4 DEF Exit, Crash, GoDown
  <2>2. DOMAIN index' = {}
    BY <2>1
  <2>3. QED
    BY <2>1, <2>2 DEF CountInv, IndexInv
<1>5. QED
  BY <1>1, <1>2, <1>3, <1>4

-----------------------------------------------------------------------------
(* The invariant and the theorems.                                         *)

\* The service starts with an empty line.
LEMMA InitInv == Init => IInv
<1>1. SUFFICES ASSUME Init PROVE IInv
  OBVIOUS
<1>2. /\ phase = "down" /\ ingestionFifo = << >> /\ processingFifo = << >>
      /\ ioTaskQueue = << >> /\ persisting = NoMessage /\ log = << >> /\ index = << >>
      /\ logBroken = FALSE /\ misplaced = FALSE /\ compaction = "idle" /\ kept = << >>
      /\ overflowCount = 0 /\ starts = 0 /\ acknowledged = << >> /\ appended = << >>
      /\ entered = {} /\ processed = << >> /\ failed = {} /\ discarded = {}
      /\ completed = {} /\ exposed = {}
  BY <1>1 DEF Init
<1>3. /\ << >> \in Seq(Message) /\ Len(<< >>) = 0 /\ DOMAIN << >> = {}
  OBVIOUS
<1>4. TypeOK
  <2>1. DOMAIN index = {}
    BY <1>2
  <2>2. 0 \in 0 .. MaxStarts /\ 0 <= IngestionCapacity /\ 0 <= ProcessingCapacity
        /\ 0 <= IOCapacity /\ 0 \in Nat
    BY Capacities
  <2>3. QED
    BY ONLY <1>2, <1>3, <2>1, <2>2 DEF TypeOK
<1>5. OrderInv
  <2>1. InOrder(<< >>, << >>)
    BY InOrderAll, BeforeNothing
  <2>2. QED
    BY <1>2, <2>1, ToSetSingle DEF OrderInv
<1>6. CountInv /\ IndexInv
  <2>1. DOMAIN index = {}
    BY <1>2
  <2>2. QED
    BY <1>2, <2>1 DEF CountInv, IndexInv
<1>7. QED
  BY <1>4, <1>5, <1>6 DEF IInv

\* Every step keeps the three parts of the invariant.
LEMMA OrderStep == IInv /\ Next /\ TypeOK' => OrderInv'
BY StartOrder, IngestOrder, StartPersistOrder, PersistOrder, WorkerZeroOrder,
   MarkCompletedOrder, CompactOrder, EndOrder
DEF Next, IngestionWorker, PersistEnds, CompactSteps

LEMMA CountStep == IInv /\ Next /\ TypeOK' => CountInv'
<1>1. ASSUME IInv, MarkCompleted PROVE CountInv'
  BY <1>1 DEF MarkCompleted, IInv, CountInv, Places, InFlight
<1>2. ASSUME IInv, CompactSteps PROVE CountInv'
  <2>1. UNCHANGED <<phase, queues, overflowCount, memory>>
    BY <1>2, CompactFacts DEF IInv
  <2>2. QED
    BY <1>2, <2>1 DEF queues, memory, IInv, CountInv, Places, InFlight
<1>3. QED
  BY <1>1, <1>2, StartCount, IngestCount, StartPersistCount, PersistCount, WorkerZeroCount,
     EndKeeps DEF Next, IngestionWorker, PersistEnds, CompactSteps

LEMMA IndexStep == IInv /\ Next /\ TypeOK' => IndexInv'
BY StartIndex, IngestIndex, StartPersistIndex, PersistIndex, BroadcastIndex,
   BroadcastFailsIndex, MarkCompletedIndex, CompactIndex, EndKeeps
DEF Next, IngestionWorker, WorkerZero, PersistEnds, CompactSteps

LEMMA InvStep == IInv /\ [Next]_vars => IInv'
<1>1. ASSUME IInv, Next PROVE IInv'
  <2>1. TypeOK'
    BY <1>1, TypeStep DEF IInv
  <2>2. QED
    BY <1>1, <2>1, OrderStep, CountStep, IndexStep DEF IInv
<1>2. ASSUME IInv, UNCHANGED vars PROVE IInv'
  <2>1. TypeOK' /\ OrderInv'
    BY <1>2 DEF IInv, TypeOK, OrderInv, vars, queues, store, compacting, memory, overlap
  <2>2. CountInv'
    BY <1>2 DEF IInv, CountInv, Places, InFlight, vars, queues, memory
  <2>3. Remaining' = Remaining /\ Stored' = Stored
    BY <1>2 DEF Remaining, Stored, vars, queues, store, compacting, memory, overlap
  <2>4. IndexInv'
    BY <1>2, <2>3 DEF IInv, IndexInv, WriteInv, TaskInv, StoreInv, vars, queues, store,
       compacting, memory, overlap
  <2>5. QED
    BY <2>1, <2>2, <2>4 DEF IInv
<1>3. QED
  BY <1>1, <1>2

LEMMA Invariance == Spec => []IInv
BY InitInv, InvStep, PTL DEF Spec

\* Every variable has its type: no queue outgrows its capacity (FIFO.push,
\* parallel-processor.ts), at any time.
THEOREM TypeCorrect == Spec => []TypeOK
<1>1. IInv => TypeOK
  BY DEF IInv
<1>2. QED
  BY <1>1, Invariance, PTL

\* Each message that entered is in one place, failed, or was displaced and
\* counted in the overflow counters (the workers of parallel-processor.ts).
THEOREM AlwaysConserved == Spec => []Conserved
<1>1. IInv => Conserved
  <2>1. SUFFICES ASSUME IInv, phase # "down"
                 PROVE  /\ IsInjective(Places)
                        /\ ToSet(Places) = entered \ (failed \cup discarded)
                        /\ failed \cup discarded \subseteq entered
                        /\ failed \cap discarded = {}
                        /\ overflowCount = Cardinality(discarded)
    BY DEF Conserved
  <2>2. Places = Line(processed, processingFifo, persisting, ingestionFifo)
    BY DEF Places, InFlight, Line
  <2>3. /\ processed \in Seq(Message) /\ processingFifo \in Seq(Message)
        /\ persisting \in Message \cup {NoMessage} /\ ingestionFifo \in Seq(Message)
    BY <2>1 DEF IInv, TypeOK
  <2>4. Places \in Seq(Message)
    BY ONLY <2>2, <2>3, LineFacts
  <2>5. \A x : ~ Before(Places, x, x)
    <3>1. InOrder(Places, acknowledged)
      BY <2>1, <2>2 DEF IInv, OrderInv
    <3>2. QED
      BY <3>1, InOrderAll
  <2>6. IsInjective(Places)
    BY ONLY <2>4, <2>5, InjectiveBefore
  <2>7. QED
    BY <2>1, <2>6 DEF IInv, CountInv
<1>2. QED
  BY <1>1, Invariance, PTL

\* What has been persisted and is not completed is in the log, or with a
\* compaction that is to rewrite it, and pending in the index, over every
\* overlap of compact() with the workers (message-log.ts:483-546) and over
\* crashes, as long as no write has failed.  Excepted are, one by one, the
\* messages whose write was under way while a compaction collected the pending
\* entries, and those written at the offsets such a write has shifted.
THEOREM AlwaysDurable == Spec => []DurableUntilCompleted
<1>1. IInv => DurableUntilCompleted
  BY DEF IInv, IndexInv, StoreInv, Remaining, DurableUntilCompleted
<1>2. QED
  BY <1>1, Invariance, PTL

\* Messages of one source are processed in the order in which POST /ingest
\* acknowledged them, the recovered ones included.
THEOREM SourceOrderKept == Spec => []SourceOrder
<1>1. IInv => SourceOrder
  <2>1. SUFFICES ASSUME IInv, NEW i \in 1 .. Len(processed), NEW j \in 1 .. Len(processed),
                        i < j, SourceOf[processed[i]] = SourceOf[processed[j]]
                 PROVE  \E k, l \in 1 .. Len(acknowledged) :
                          /\ k < l /\ acknowledged[k] = processed[i]
                          /\ acknowledged[l] = processed[j]
    BY DEF SourceOrder
  <2>2. DOMAIN processed = 1 .. Len(processed) /\ DOMAIN acknowledged = 1 .. Len(acknowledged)
    BY <2>1 DEF IInv, TypeOK
  <2>3. Before(processed, processed[i], processed[j])
    BY <2>1, <2>2 DEF Before
  <2>4. Before(acknowledged, processed[i], processed[j])
    BY <2>1, <2>3, InOrderAll DEF IInv, OrderInv
  <2>5. QED
    BY <2>2, <2>4 DEF Before
<1>2. QED
  BY <1>1, Invariance, PTL
=============================================================================
