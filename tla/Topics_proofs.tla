---------------------------- MODULE Topics_proofs ---------------------------
(***************************************************************************)
(* Proofs about the two algorithms that work on topics.                    *)
(*                                                                         *)
(* TopicMatch.tla: matchTopic decides the matching rules for every pattern *)
(* and topic, of any length: what it returns follows from the loop         *)
(* invariant at each of its four returns.                                  *)
(*                                                                         *)
(* TopicBuffer.tla, for every set of topics and messages and every ring    *)
(* size: types, readability of the rings, and that the rings implement the *)
(* last-N history of TopicHistory.tla.                                     *)
(***************************************************************************)
EXTENDS TopicBuffer, TopicMatch, SequenceTheorems, TLAPS

-----------------------------------------------------------------------------
(* TopicMatch.tla.                                                         *)

\* What the loop has established when it returns.
MatchInv == LoopInvariant /\ ReturnsMatches

LEMMA Typing ==
  ASSUME LoopInvariant
  PROVE  /\ Len(pattern) \in Nat /\ Len(topic) \in Nat
         /\ pattern \in Seq(Level \cup {Plus, Hash}) /\ topic \in Seq(Level)
         /\ \A i \in 1 .. Len(topic) : topic[i] /= Hash
BY MatchAssumption DEF LoopInvariant

\* A '#' that is not last, or a mismatch, leaves nothing that could match.
LEMMA NoMatch ==
  ASSUME LoopInvariant, patternIdx <= Len(pattern),
         \/ pattern[patternIdx] = Hash /\ patternIdx /= Len(pattern)
         \/ pattern[patternIdx] /= Hash /\ topicIdx > Len(topic)
         \/ pattern[patternIdx] \notin {Plus, Hash, topic[topicIdx]}
  PROVE  ~ Matches(pattern, topic)
<1> DEFINE i == patternIdx
<1>1. i \in 1 .. Len(pattern) /\ i = topicIdx /\ Len(topic) \in Nat /\ Len(pattern) \in Nat
  BY Typing DEF LoopInvariant
<1>2. CASE pattern[i] = Hash /\ i /= Len(pattern)
  BY <1>1, <1>2 DEF Matches
<1>3. CASE pattern[i] /= Hash /\ topicIdx > Len(topic)
  BY <1>1, <1>3 DEF Matches
<1>4. CASE pattern[i] \notin {Plus, Hash, topic[topicIdx]}
  BY <1>1, <1>4 DEF Matches, LevelMatches
<1>5. QED
  BY <1>2, <1>3, <1>4

\* A '#' that is reached as the last level matches what is left, if anything.
LEMMA HashMatches ==
  ASSUME LoopInvariant, patternIdx = Len(pattern), pattern[patternIdx] = Hash
  PROVE  Matches(pattern, topic)
<1> DEFINE n == Len(pattern)
<1>1. n \in Nat /\ Len(topic) \in Nat /\ n > 0 /\ Len(topic) >= n - 1
  BY Typing DEF LoopInvariant
<1>2. {i \in 1 .. n : pattern[i] /= Hash} = 1 .. n - 1
  BY <1>1 DEF LoopInvariant
<1>3. \A i \in 1 .. n - 1 : LevelMatches(pattern, topic, i)
  BY <1>1 DEF LoopInvariant
<1>4. QED
  BY <1>1, <1>2, <1>3 DEF Matches

\* At the end of the pattern it is the length of the topic that decides.
LEMMA EndMatches ==
  ASSUME LoopInvariant, PatternExhausted
  PROVE  TopicExhausted <=> Matches(pattern, topic)
<1> DEFINE n == Len(pattern)
<1>1. n \in Nat /\ Len(topic) \in Nat /\ patternIdx = n + 1 /\ topicIdx = n + 1
      /\ Len(topic) >= n
  BY Typing DEF LoopInvariant, PatternExhausted
<1>2. \A i \in 1 .. n : pattern[i] /= Hash /\ LevelMatches(pattern, topic, i)
  BY <1>1 DEF LoopInvariant
<1>3. {i \in 1 .. n : pattern[i] /= Hash} = 1 .. n
  BY <1>2
<1>4. 1 .. n /= 1 .. n - 1 \/ n = 0
  BY <1>1
<1>5. Len(topic) = n <=> Matches(pattern, topic)
  BY <1>1, <1>2, <1>3, <1>4 DEF Matches
<1>6. QED
  BY <1>1, <1>5 DEF TopicExhausted

LEMMA MatchInitInv == MatchInit => MatchInv
<1> SUFFICES ASSUME MatchInit PROVE MatchInv
  OBVIOUS
<1>1. pattern \in Seq(Level \cup {Plus, Hash}) /\ topic \in Seq(Level)
  BY MatchAssumption DEF MatchInit
<1>2. Len(pattern) \in Nat /\ Len(topic) \in Nat
  BY <1>1
<1>3. QED
  BY <1>2 DEF MatchInit, MatchInv, LoopInvariant, ReturnsMatches, Running

LEMMA MatchStepInv == MatchInv /\ [MatchNext]_matchVars => MatchInv'
<1> SUFFICES ASSUME MatchInv, [MatchNext]_matchVars PROVE MatchInv'
  OBVIOUS
<1>0. LoopInvariant
  BY DEF MatchInv
<1>a. ASSUME NEW b \in BOOLEAN, Return(b), b <=> Matches(pattern, topic)
      PROVE  MatchInv'
  <2>1. LoopInvariant'
    BY <1>0, <1>a DEF LoopInvariant, Return, LevelMatches
  <2>2. Matches(pattern, topic)' <=> Matches(pattern, topic)
    BY <1>a DEF Return
  <2>3. ReturnsMatches'
    BY <1>a, <2>2 DEF Return, ReturnsMatches
  <2>4. QED
    BY <2>1, <2>3 DEF MatchInv
<1>1. CASE MultiLevel
  <2>1. patternIdx <= Len(pattern)
    BY <1>0, <1>1, Typing DEF MultiLevel, PatternExhausted, LoopInvariant
  <2>2. CASE patternIdx = Len(pattern)
    BY <1>0, <1>1, <1>a, <2>2, HashMatches DEF MultiLevel
  <2>3. CASE patternIdx /= Len(pattern)
    BY <1>0, <1>1, <1>a, <2>1, <2>3, NoMatch DEF MultiLevel
  <2>4. QED
    BY <2>2, <2>3
<1>2. CASE OutOfTopic
  <2>1. patternIdx <= Len(pattern)
    BY <1>0, <1>2, Typing DEF OutOfTopic, PatternExhausted, LoopInvariant
  <2>2. QED
    BY <1>0, <1>2, <1>a, <2>1, NoMatch DEF OutOfTopic, TopicExhausted
<1>3. CASE NextLevel
  <2>1. /\ Len(pattern) \in Nat /\ Len(topic) \in Nat
        /\ patternIdx \in 1 .. Len(pattern) /\ topicIdx \in 1 .. Len(topic)
        /\ patternIdx = topicIdx
    BY <1>0, <1>3, Typing
       DEF NextLevel, LoopInvariant, PatternExhausted, TopicExhausted
  <2>2. pattern[patternIdx] /= Hash /\ LevelMatches(pattern, topic, patternIdx)
    <3>1. topic[topicIdx] /= Hash
      BY <1>0, <2>1, Typing
    <3>2. QED
      BY <1>3, <2>1, <3>1, MatchAssumption DEF NextLevel, LevelMatches
  <2>3. LoopInvariant'
    BY <1>0, <1>3, <2>1, <2>2 DEF NextLevel, LoopInvariant, LevelMatches
  <2>4. ReturnsMatches'
    BY <1>3 DEF NextLevel, ReturnsMatches, Running
  <2>5. QED
    BY <2>3, <2>4 DEF MatchInv
<1>4. CASE Mismatch
  <2>1. patternIdx <= Len(pattern)
    BY <1>0, <1>4, Typing DEF Mismatch, PatternExhausted, LoopInvariant
  <2>2. QED
    BY <1>0, <1>4, <1>a, <2>1, NoMatch DEF Mismatch
<1>5. CASE EndOfPattern
  <2>1. PatternExhausted /\ Return(TopicExhausted)
    BY <1>5 DEF EndOfPattern
  <2>2. TopicExhausted <=> Matches(pattern, topic)
    BY <1>0, <2>1, EndMatches
  <2>3. CASE TopicExhausted
    <3>1. Return(TRUE)
      BY <2>1, <2>3 DEF Return
    <3>2. QED
      BY <1>a, <2>2, <2>3, <3>1
  <2>4. CASE ~ TopicExhausted
    <3>1. Return(FALSE)
      BY <2>1, <2>4 DEF Return
    <3>2. QED
      BY <1>a, <2>2, <2>4, <3>1
  <2>5. QED
    BY <2>3, <2>4
<1>6. CASE UNCHANGED matchVars
  BY <1>6 DEF matchVars, MatchInv, LoopInvariant, ReturnsMatches, Matches, LevelMatches, Running
<1>7. QED
  BY <1>1, <1>2, <1>3, <1>4, <1>5, <1>6 DEF MatchNext

\* matchTopic's loop keeps its two indexes together (topic-manager.ts:165).
THEOREM LoopInvariantHolds == MatchSpec => []LoopInvariant
<1>1. MatchInv => LoopInvariant
  BY DEF MatchInv
<1>2. QED
  BY MatchInitInv, MatchStepInv, <1>1, PTL DEF MatchSpec

\* matchTopic returns true exactly for the topics its comment promises
\* (topic-manager.ts:147-149), for patterns and topics of any length.
THEOREM MatchTopicCorrect == MatchSpec => []ReturnsMatches
<1>1. MatchInv => ReturnsMatches
  BY DEF MatchInv
<1>2. QED
  BY MatchInitInv, MatchStepInv, <1>1, PTL DEF MatchSpec

-----------------------------------------------------------------------------
(* TopicBuffer.tla.                                                        *)

Ring == [buffer : [Slot -> Message \cup {Undefined}],
         head : Slot, count : 0 .. MaxPerTopic]

Wrap(n) == IF n < MaxPerTopic THEN n ELSE n - MaxPerTopic

\* Every index the code computes is below twice the size.
LEMMA WrapOnce ==
  ASSUME NEW n \in Nat, n < 2 * MaxPerTopic
  PROVE  n % MaxPerTopic = Wrap(n) /\ n % MaxPerTopic \in Slot
<1>1. n % MaxPerTopic = Wrap(n)
  BY BufferAssumption, SMTT(30) DEF Wrap
<1>2. QED
  BY <1>1, BufferAssumption DEF Wrap, Slot

LEMMA NewRingTyped == NewRing \in Ring
BY BufferAssumption DEF NewRing, Ring, Slot

\* What a push does to a ring, field by field.
LEMMA PushRingFields ==
  ASSUME NEW r \in Ring, NEW m \in Message
  PROVE  /\ PushRing(r, m) \in Ring
         /\ PushRing(r, m).head = Wrap(r.head + 1)
         /\ PushRing(r, m).count =
              IF r.count < MaxPerTopic THEN r.count + 1 ELSE MaxPerTopic
         /\ \A i \in Slot : PushRing(r, m).buffer[i] =
              IF i = r.head THEN m ELSE r.buffer[i]
<1>1. r.head \in Slot /\ r.head + 1 \in Nat /\ r.head + 1 < 2 * MaxPerTopic
  BY BufferAssumption DEF Ring, Slot
<1>2. (r.head + 1) % MaxPerTopic = Wrap(r.head + 1)
      /\ (r.head + 1) % MaxPerTopic \in Slot
  BY <1>1, WrapOnce
<1>3. r.count \in 0 .. MaxPerTopic /\ r.buffer \in [Slot -> Message \cup {Undefined}]
  BY DEF Ring
<1>4. QED
  BY <1>1, <1>2, <1>3, BufferAssumption DEF PushRing, Ring

\* A ring whose written slots are exactly those toArray reads.
Readable(r) ==
  /\ r \in Ring
  /\ \A i \in Slot : r.buffer[i] = Undefined <=> i >= r.count
  /\ r.count < MaxPerTopic => r.head = r.count

LEMMA PushRingReadable ==
  ASSUME NEW r, Readable(r), NEW m \in Message
  PROVE  Readable(PushRing(r, m))
<1> DEFINE s == PushRing(r, m)
<1>1. /\ s \in Ring /\ s.head = Wrap(r.head + 1)
      /\ s.count = IF r.count < MaxPerTopic THEN r.count + 1 ELSE MaxPerTopic
      /\ \A i \in Slot : s.buffer[i] = IF i = r.head THEN m ELSE r.buffer[i]
  BY PushRingFields DEF Readable
<1>2. /\ r.count \in 0 .. MaxPerTopic /\ r.head \in Slot
      /\ MaxPerTopic \in Nat \ {0} /\ Undefined \notin Message
  BY BufferAssumption DEF Readable, Ring
<1> HIDE DEF s
<1>3. \A i \in Slot : s.buffer[i] = Undefined <=> i >= s.count
  BY <1>1, <1>2 DEF Readable, Slot
<1>4. s.count < MaxPerTopic => s.head = s.count
  BY <1>1, <1>2 DEF Readable, Slot, Wrap
<1>5. QED
  BY <1>1, <1>3, <1>4 DEF Readable, s

\* The i-th message toArray returns, without the modulus.
LEMMA ToArrayRead ==
  ASSUME NEW r, Readable(r)
  PROVE  /\ ToArray(r) \in Seq(Message) /\ Len(ToArray(r)) = r.count
         /\ \A i \in 1 .. r.count :
              ToArray(r)[i] = r.buffer[IF r.count < MaxPerTopic THEN i - 1
                                       ELSE Wrap(r.head + i - 1)]
<1>1. r.count \in 0 .. MaxPerTopic /\ r.head \in Slot
  BY DEF Readable, Ring
<1>2. ASSUME NEW i \in 1 .. r.count
      PROVE  /\ (StartIdx(r) + i - 1) % MaxPerTopic \in Slot
             /\ (StartIdx(r) + i - 1) % MaxPerTopic =
                  (IF r.count < MaxPerTopic THEN i - 1 ELSE Wrap(r.head + i - 1))
             /\ (StartIdx(r) + i - 1) % MaxPerTopic < r.count
  <2>1. StartIdx(r) + i - 1 \in Nat /\ StartIdx(r) + i - 1 < 2 * MaxPerTopic
    BY <1>1, BufferAssumption DEF StartIdx, Slot
  <2>2. /\ (StartIdx(r) + i - 1) % MaxPerTopic = Wrap(StartIdx(r) + i - 1)
        /\ (StartIdx(r) + i - 1) % MaxPerTopic \in Slot
    BY <2>1, WrapOnce
  <2>3. QED
    BY <1>1, <2>2, BufferAssumption DEF StartIdx, Wrap, Slot
<1>3. ASSUME NEW i \in Slot, i < r.count
      PROVE  r.buffer[i] \in Message
  <2>1. r.buffer[i] \in Message \cup {Undefined}
    BY DEF Readable, Ring
  <2>2. ~ (i >= r.count)
    BY <1>1, <1>3 DEF Slot
  <2>3. QED
    BY <2>1, <2>2 DEF Readable
<1>4. \A i \in 1 .. r.count :
        r.buffer[(StartIdx(r) + i - 1) % MaxPerTopic] \in Message
  BY <1>2, <1>3
<1>5. ToArray(r) \in [1 .. r.count -> Message]
  BY <1>4 DEF ToArray
<1>6. ToArray(r) \in Seq(Message) /\ Len(ToArray(r)) = r.count
  BY <1>1, <1>5
<1>7. \A i \in 1 .. r.count : ToArray(r)[i] =
        r.buffer[IF r.count < MaxPerTopic THEN i - 1 ELSE Wrap(r.head + i - 1)]
  BY <1>2 DEF ToArray
<1>8. QED
  BY <1>6, <1>7

\* The heart of the matter: a push appends to what toArray returns and, once
\* the ring is full, drops the oldest.
LEMMA PushRemembers ==
  ASSUME NEW r, Readable(r), NEW m \in Message
  PROVE  ToArray(PushRing(r, m)) =
           History!LastOf(Append(ToArray(r), m), MaxPerTopic)
<1> DEFINE s == PushRing(r, m)
           a == ToArray(r)
           b == ToArray(s)
           c == Append(a, m)
           d == History!LastOf(c, MaxPerTopic)
<1>1. /\ s.head = Wrap(r.head + 1)
      /\ s.count = IF r.count < MaxPerTopic THEN r.count + 1 ELSE MaxPerTopic
      /\ \A i \in Slot : s.buffer[i] = IF i = r.head THEN m ELSE r.buffer[i]
  BY PushRingFields DEF Readable
<1>2. /\ r.count \in 0 .. MaxPerTopic /\ r.head \in Slot
      /\ MaxPerTopic \in Nat \ {0} /\ (r.count < MaxPerTopic => r.head = r.count)
  BY BufferAssumption DEF Readable, Ring
<1>3. /\ a \in Seq(Message) /\ Len(a) = r.count
      /\ \A i \in 1 .. r.count : a[i] =
           r.buffer[IF r.count < MaxPerTopic THEN i - 1 ELSE Wrap(r.head + i - 1)]
  BY ToArrayRead
<1>4. Readable(s)
  BY PushRingReadable
<1> HIDE DEF s
<1>5. /\ b \in Seq(Message) /\ Len(b) = s.count
      /\ \A i \in 1 .. s.count : b[i] =
           s.buffer[IF s.count < MaxPerTopic THEN i - 1 ELSE Wrap(s.head + i - 1)]
  BY <1>4, ToArrayRead
<1> HIDE DEF a, b
<1>6. /\ c \in Seq(Message) /\ Len(c) = r.count + 1 /\ c[r.count + 1] = m
      /\ \A i \in 1 .. r.count : c[i] = a[i]
  BY <1>2, <1>3
<1> HIDE DEF c
<1>7. CASE r.count < MaxPerTopic
  <2>1. d = c
    <3>1. d = SubSeq(c, 1, Len(c))
      BY <1>2, <1>6, <1>7 DEF History!LastOf
    <3>2. QED
      BY <1>6, <3>1
  <2>2. Len(b) = Len(c)
    BY <1>1, <1>5, <1>6, <1>7
  <2>3. ASSUME NEW i \in 1 .. r.count + 1
        PROVE  b[i] = c[i]
    <3>1. b[i] = s.buffer[i - 1] /\ i - 1 \in Slot
      <4>1. i - 1 \in Slot
        BY <1>2, <1>7 DEF Slot
      <4>2. s.count < MaxPerTopic \/ s.head = 0
        BY <1>1, <1>2, <1>7 DEF Wrap
      <4>3. s.count < MaxPerTopic \/ Wrap(s.head + i - 1) = i - 1
        BY <4>1, <4>2, <1>2 DEF Wrap, Slot
      <4>4. QED
        BY <1>1, <1>5, <1>7, <4>1, <4>3
    <3>2. CASE i = r.count + 1
      BY <1>1, <1>2, <1>6, <1>7, <3>1, <3>2
    <3>3. CASE i \in 1 .. r.count
      <4>1. i - 1 /= r.head
        BY <1>2, <1>7, <3>3
      <4>2. QED
        BY <1>1, <1>3, <1>6, <1>7, <3>1, <3>3, <4>1
    <3>4. QED
      BY <1>2, <3>2, <3>3
  <2>4. Len(c) = r.count + 1
    BY <1>6
  <2>5. b = c
    BY <1>5, <1>6, <2>2, <2>3, <2>4
  <2>6. b = d
    BY <2>1, <2>5
  <2>7. QED
    BY <2>6 DEF b, s, c, a
<1>8. CASE r.count = MaxPerTopic
  <2>1. d = SubSeq(c, 2, MaxPerTopic + 1)
    BY <1>2, <1>6, <1>8 DEF History!LastOf
  <2>2. /\ d \in Seq(Message) /\ Len(d) = MaxPerTopic
        /\ \A i \in 1 .. MaxPerTopic : d[i] = c[i + 1]
    BY <1>2, <1>6, <1>8, <2>1
  <2>3. ASSUME NEW i \in 1 .. MaxPerTopic
        PROVE  b[i] = c[i + 1]
    <3>1. b[i] = s.buffer[Wrap(Wrap(r.head + 1) + i - 1)]
      BY <1>1, <1>2, <1>5, <1>8
    <3>2. CASE i = MaxPerTopic
      <4>1. Wrap(Wrap(r.head + 1) + i - 1) = r.head
        BY <1>2, <3>2 DEF Wrap, Slot
      <4>2. QED
        BY <1>1, <1>2, <1>6, <1>8, <3>1, <3>2, <4>1
    <3>3. CASE i < MaxPerTopic
      <4>1. /\ Wrap(Wrap(r.head + 1) + i - 1) = Wrap(r.head + i)
            /\ Wrap(r.head + i) \in Slot /\ Wrap(r.head + i) /= r.head
        BY <1>2, <3>3 DEF Wrap, Slot
      <4>2. i + 1 \in 1 .. r.count /\ r.head + (i + 1) - 1 = r.head + i
        BY <1>2, <1>8, <3>3 DEF Slot
      <4>3. c[i + 1] = r.buffer[Wrap(r.head + i)]
        BY <1>2, <1>3, <1>6, <1>8, <4>2
      <4>4. QED
        BY <1>1, <3>1, <4>1, <4>3
    <3>4. QED
      BY <1>2, <3>2, <3>3
  <2>4. Len(b) = MaxPerTopic
    BY <1>1, <1>2, <1>5, <1>8
  <2>5. b = d
    BY <1>2, <1>5, <2>2, <2>3, <2>4
  <2>6. QED
    BY <2>5 DEF b, s, c, a
<1>9. QED
  BY <1>2, <1>7, <1>8

-----------------------------------------------------------------------------
(* The invariant.                                                          *)

Inv ==
  /\ keys \in Seq(Topic)
  /\ \A i, j \in 1 .. Len(keys) : keys[i] = keys[j] => i = j
  /\ buffers \in [Topic -> Ring]
  /\ \A t \in Topic : Readable(buffers[t]) /\ (Known(t) <=> buffers[t].count > 0)

LEMMA InvGivesParts == Inv => TypeOK /\ RingsReadable
BY DEF Inv, TypeOK, RingsReadable, Readable, Ring

LEMMA NewRingReadable == Readable(NewRing) /\ NewRing.count = 0
BY NewRingTyped, BufferAssumption DEF Readable, NewRing, Slot

\* The state after start or clear(), with primes for the latter.
LEMMA EmptyIsInv ==
  ASSUME keys = << >>, buffers = [t \in Topic |-> NewRing]
  PROVE  Inv
BY NewRingTyped, NewRingReadable DEF Inv, Known

LEMMA InitInv == Init => Inv
BY EmptyIsInv DEF Init

LEMMA ClearInv == Clear => Inv'
<1>1. (keys = << >> /\ buffers = [t \in Topic |-> NewRing] => Inv)'
  BY EmptyIsInv, PTL
<1>2. QED
  BY <1>1 DEF Clear

\* The keys after a push.
LEMMA PushKeys ==
  ASSUME Inv, NEW t \in Topic, NEW m \in Message, Push(t, m)
  PROVE  /\ keys' \in Seq(Topic)
         /\ \A i, j \in 1 .. Len(keys') : keys'[i] = keys'[j] => i = j
         /\ \A u \in Topic : Known(u)' <=> Known(u) \/ u = t
<1>1. keys \in Seq(Topic) /\ \A i, j \in 1 .. Len(keys) : keys[i] = keys[j] => i = j
  BY DEF Inv
<1>2. CASE Known(t)
  <2>1. keys' = keys
    BY <1>2 DEF Push
  <2>2. QED
    BY <1>1, <1>2, <2>1 DEF Known
<1>3. CASE ~ Known(t)
  <2>1. /\ keys' \in Seq(Topic) /\ Len(keys') = Len(keys) + 1
        /\ keys'[Len(keys) + 1] = t
        /\ \A i \in 1 .. Len(keys) : keys'[i] = keys[i]
    BY <1>1, <1>3 DEF Push
  <2>2. \A i \in 1 .. Len(keys) : keys[i] /= t
    BY <1>3 DEF Known
  <2>3. Len(keys) \in Nat
    BY <1>1
  <2>4. \A i \in 1 .. Len(keys') : i \in 1 .. Len(keys) \/ i = Len(keys) + 1
    BY <2>1, <2>3
  <2>5. \A i, j \in 1 .. Len(keys') : keys'[i] = keys'[j] => i = j
    BY <1>1, <2>1, <2>2, <2>4
  <2>6. \A u \in Topic : Known(u)' <=> Known(u) \/ u = t
    <3>1. TAKE u \in Topic
    <3>2. Known(u)' => Known(u) \/ u = t
      BY <2>1, <2>4 DEF Known
    <3>3. Known(u) => Known(u)'
      BY <2>1, <2>3 DEF Known
    <3>4. Known(t)'
      BY <2>1, <2>3 DEF Known
    <3>5. QED
      BY <3>2, <3>3, <3>4
  <2>7. QED
    BY <2>1, <2>5, <2>6
<1>4. QED
  BY <1>2, <1>3

\* The rings after a push.
LEMMA PushRings ==
  ASSUME Inv, NEW t \in Topic, NEW m \in Message, Push(t, m)
  PROVE  /\ buffers' \in [Topic -> Ring]
         /\ \A u \in Topic : buffers'[u] =
              IF u = t THEN PushRing(buffers[t], m) ELSE buffers[u]
         /\ \A u \in Topic : Readable(buffers'[u])
         /\ buffers'[t].count > 0
<1>1. buffers \in [Topic -> Ring] /\ \A u \in Topic : Readable(buffers[u])
  BY DEF Inv
<1>2. /\ PushRing(buffers[t], m) \in Ring
      /\ PushRing(buffers[t], m).count =
           IF buffers[t].count < MaxPerTopic THEN buffers[t].count + 1 ELSE MaxPerTopic
  BY <1>1, PushRingFields
<1>3. Readable(PushRing(buffers[t], m))
  BY <1>1, PushRingReadable
<1>4. /\ buffers' \in [Topic -> Ring]
      /\ \A u \in Topic : buffers'[u] =
           IF u = t THEN PushRing(buffers[t], m) ELSE buffers[u]
  BY <1>1, <1>2 DEF Push
<1>5. buffers[t].count \in 0 .. MaxPerTopic
  BY <1>1 DEF Ring
<1>6. QED
  BY <1>1, <1>2, <1>3, <1>4, <1>5, BufferAssumption

LEMMA PushInv ==
  ASSUME Inv, NEW t \in Topic, NEW m \in Message, Push(t, m)
  PROVE  Inv'
<1>1. \A u \in Topic : Known(u) <=> buffers[u].count > 0
  BY DEF Inv
<1>2. \A u \in Topic : Known(u)' <=> buffers'[u].count > 0
  BY <1>1, PushKeys, PushRings
<1>3. QED
  BY <1>2, PushKeys, PushRings DEF Inv, Readable, Known

LEMMA NextInv == Inv /\ [Next]_vars => Inv'
<1>1. SUFFICES ASSUME Inv, [Next]_vars PROVE Inv'
  OBVIOUS
<1>2. ASSUME NEW t \in Topic, NEW m \in Message, Push(t, m) PROVE Inv'
  BY <1>1, <1>2, PushInv
<1>3. CASE Clear
  BY <1>3, ClearInv
<1>4. CASE UNCHANGED vars
  BY <1>1, <1>4 DEF Inv, vars, Known, Readable
<1>5. QED
  BY <1>1, <1>2, <1>3, <1>4 DEF Next

LEMMA Invariance == Spec => []Inv
BY InitInv, NextInv, PTL DEF Spec

\* The types of the buffer, for every ring size.
THEOREM TypeCorrect == Spec => []TypeOK
BY Invariance, InvGivesParts, PTL

\* toArray never meets an unwritten slot, and the map of buffers lists each
\* topic that holds a message exactly once.
THEOREM RingsAlwaysReadable == Spec => []RingsReadable
BY Invariance, InvGivesParts, PTL

-----------------------------------------------------------------------------
(* The refinement of TopicHistory.                                         *)

\* The history a state of the rings stands for.
Mapped == [size |-> MaxPerTopic, keys |-> keys,
           of |-> [t \in Topic |-> ToArray(buffers[t])]]

LEMMA NewRingHoldsNothing == ToArray(NewRing) = << >>
<1>1. ToArray(NewRing) \in Seq(Message) /\ Len(ToArray(NewRing)) = 0
  BY NewRingReadable, ToArrayRead
<1>2. QED
  BY <1>1

LEMMA EmptyIsMapped ==
  ASSUME keys = << >>, buffers = [t \in Topic |-> NewRing]
  PROVE  Mapped = History!EmptyHistory(MaxPerTopic)
<1>1. \A t \in Topic : ToArray(buffers[t]) = << >>
  BY NewRingHoldsNothing
<1>2. [t \in Topic |-> ToArray(buffers[t])] = [t \in Topic |-> << >>]
  BY <1>1
<1>3. QED
  BY <1>2 DEF Mapped, History!EmptyHistory

LEMMA InitIsHistoryInit == Init => History!HistoryInit
<1>1. SUFFICES ASSUME Init PROVE History!HistoryInit
  OBVIOUS
<1>2. Mapped = History!EmptyHistory(MaxPerTopic)
  BY <1>1, EmptyIsMapped DEF Init
<1>3. Mapped.size = MaxPerTopic /\ MaxPerTopic \in Nat
  BY BufferAssumption DEF Mapped
<1>4. QED
  BY <1>2, <1>3 DEF History!HistoryInit, Mapped

LEMMA ClearIsHistoryClear == Clear => History!HistoryClear
<1>1. SUFFICES ASSUME Clear PROVE History!HistoryClear
  OBVIOUS
<1>2. (keys = << >> /\ buffers = [t \in Topic |-> NewRing]
        => Mapped = History!EmptyHistory(MaxPerTopic))'
  BY EmptyIsMapped, PTL
<1>3. Mapped' = History!EmptyHistory(MaxPerTopic)'
  BY <1>1, <1>2 DEF Clear
<1>4. Mapped' = History!EmptyHistory(MaxPerTopic)
  BY <1>3 DEF History!EmptyHistory
<1>5. Mapped.size = MaxPerTopic
  BY DEF Mapped
<1>6. QED
  BY <1>4, <1>5 DEF History!HistoryClear, Mapped

LEMMA PushIsHistoryPush ==
  ASSUME Inv, NEW t \in Topic, NEW m \in Message, Push(t, m)
  PROVE  History!HistoryPush(t, m)
<1> DEFINE h == Mapped
           of == [u \in Topic |-> ToArray(buffers[u])]
           remembered == History!LastOf(Append(ToArray(buffers[t]), m), MaxPerTopic)
<1>1. \A u \in Topic : Readable(buffers[u]) /\ (Known(u) <=> buffers[u].count > 0)
  BY DEF Inv
<1>2. \A u \in Topic : ToArray(buffers'[u]) =
        IF u = t THEN remembered ELSE ToArray(buffers[u])
  BY <1>1, PushRings, PushRemembers
<1>3. [u \in Topic |-> ToArray(buffers'[u])] = [of EXCEPT ![t] = remembered]
  BY <1>2
<1>4. Known(t) <=> ToArray(buffers[t]) /= << >>
  <2>1. ToArray(buffers[t]) \in Seq(Message)
        /\ Len(ToArray(buffers[t])) = buffers[t].count
    BY <1>1, ToArrayRead
  <2>2. buffers[t].count \in 0 .. MaxPerTopic
    BY DEF Inv, Ring
  <2>3. QED
    BY <1>1, <2>1, <2>2, BufferAssumption
<1>5. keys' = IF ToArray(buffers[t]) = << >> THEN Append(keys, t) ELSE keys
  BY <1>4 DEF Push
<1>6. Mapped' = [size |-> MaxPerTopic, keys |-> keys',
                 of |-> [u \in Topic |-> ToArray(buffers'[u])]]
  BY DEF Mapped, ToArray, StartIdx
<1>7. History!Remember(h, t, m) =
        [size |-> MaxPerTopic,
         keys |-> IF ToArray(buffers[t]) = << >> THEN Append(keys, t) ELSE keys,
         of |-> [of EXCEPT ![t] = remembered]]
  <2>1. h.size = MaxPerTopic /\ h.keys = keys /\ h.of = of
    BY DEF Mapped
  <2>2. h.of[t] = ToArray(buffers[t])
    BY <2>1
  <2>3. h = [size |-> MaxPerTopic, keys |-> keys, of |-> of]
    BY DEF Mapped
  <2> HIDE DEF h, of
  <2>4. History!Remember(h, t, m) =
          [h EXCEPT !.keys = IF h.of[t] = << >> THEN Append(h.keys, t) ELSE h.keys,
                    !.of[t] = remembered]
    BY <2>1, <2>2 DEF History!Remember
  <2>5. QED
    BY <2>1, <2>2, <2>3, <2>4
<1>8. Mapped' = History!Remember(Mapped, t, m)
  BY <1>3, <1>5, <1>6, <1>7
<1>9. QED
  BY <1>8 DEF History!HistoryPush, Mapped

LEMMA NextIsHistoryNext ==
  Inv /\ [Next]_vars => [History!HistoryNext]_Mapped
<1>1. SUFFICES ASSUME Inv, [Next]_vars PROVE [History!HistoryNext]_Mapped
  OBVIOUS
<1>2. ASSUME NEW t \in Topic, NEW m \in Message, Push(t, m)
      PROVE  History!HistoryNext
  BY <1>1, <1>2, PushIsHistoryPush DEF History!HistoryNext
<1>3. CASE Clear
  BY <1>3, ClearIsHistoryClear DEF History!HistoryNext
<1>4. CASE UNCHANGED vars
  BY <1>4 DEF vars, Mapped, ToArray, StartIdx
<1>5. QED
  BY <1>1, <1>2, <1>3, <1>4 DEF Next

\* The rings implement the last-N history of each topic: after any number of
\* wrap-arounds, toArray returns the last MaxPerTopic messages in order.
THEOREM RingsImplementHistory == Spec => ImplementsHistory
<1>1. Inv /\ [Next]_vars
        => [History!HistoryNext]_([size |-> MaxPerTopic, keys |-> keys,
                                   of |-> [t \in Topic |-> ToArray(buffers[t])]])
  BY NextIsHistoryNext DEF Mapped
<1>2. QED
  BY <1>1, InitIsHistoryInit, Invariance, PTL
     DEF Spec, ImplementsHistory, History!HistorySpec
=============================================================================
