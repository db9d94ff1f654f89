-------------------------- MODULE Sequencer_proofs --------------------------
(***************************************************************************)
(* Proofs about Sequencer.tla, for any register contents: the FIFO holds   *)
(* the samples the registers ask for, in the order of time.                *)
(*                                                                         *)
(* First, what one measurement enters: how many of its steps are samples   *)
(* (StepsCount), and that these are stamped in increasing order after all  *)
(* that is there (EntriesMeasured).  Then how often each measurement has   *)
(* run: ScheduleInv says where in a sequence each phase can be.            *)
(***************************************************************************)
EXTENDS Sequencer, SequenceLemmas

-----------------------------------------------------------------------------
(* Registers.                                                              *)

LEMMA FieldRange ==
  ASSUME reg_data \in Registers, NEW a, NEW unit \in Nat \ {0}, NEW size \in Nat \ {0}
  PROVE  /\ Reg(a) \in 0 .. 255
         /\ Field(a, unit, size) \in 0 .. size - 1
<1>1. Reg(a) \in 0 .. 255
  BY RegistersAssumption DEF Reg
<1> DEFINE q == Reg(a) \div unit
<1>2. q \in Nat
  <2>1. \A x \in 0 .. 255 : x \in Nat
    OBVIOUS
  <2>2. Reg(a) \in Nat
    BY <1>1, <2>1
  <2>3. QED
    BY <2>2, DivMod
<1> HIDE DEF q
<1>3. q % size \in 0 .. size - 1
  BY <1>2, DivMod
<1>4. QED
  BY <1>1, <1>3 DEF Field, q

\* The time of a conversion.
LEMMA ConversionTime ==
  ASSUME reg_data \in Registers, NEW n
  PROVE  /\ CONV_TIME(n) \in Nat \ {0}
         /\ Pause(n) \in Nat \ {0}
<1> DEFINE k == Field(112 + 2 * n, 1, 8)
           m == AtMost(Reg(99 + 2 * n), 6)
<1>1. k \in 0 .. 7 /\ m \in 0 .. 6
  <2>1. 1 \in Nat \ {0} /\ 8 \in Nat \ {0}
    OBVIOUS
  <2>2. k \in 0 .. 8 - 1 /\ Reg(99 + 2 * n) \in 0 .. 255
    BY <2>1, FieldRange
  <2>3. m \in 0 .. 6
    BY <2>2 DEF AtMost
  <2>4. QED
    BY <2>2, <2>3
<1> HIDE DEF k, m
<1>2. CONV_LIST[k + 1] \in Nat
  <2>1. k = 0 \/ k = 1 \/ k = 2 \/ k = 3 \/ k = 4 \/ k = 5 \/ k = 6 \/ k = 7
    BY <1>1
  <2>2. QED
    BY <2>1 DEF CONV_LIST
<1> DEFINE b == ((75 + m) * 78125) \div 256
<1>3. b \in Nat
  BY <1>1
<1> HIDE DEF b
<1>4. CONV_TIME(n) = CONV_LIST[k + 1] + Tpre + b
  BY DEF CONV_TIME, k, m, b
<1>5. QED
  BY <1>2, <1>3, <1>4 DEF Pause, Tpre, Tsetup

-----------------------------------------------------------------------------
(* Steps and samples.                                                      *)

\* The names of the voltages, and that "none" is not one of them.
LEMMA ChannelNames ==
  /\ Len(Channels) = 11 /\ DOMAIN Channels = 1 .. 11
  /\ \A k \in 1 .. 11 : /\ Channels[k] \in ToSet(Channels)
                        /\ Channels[k].type \in Types
                        /\ Channels[k].type # "none"
                        /\ Channels[k].tag \in Tags
<1>1. Len(Channels) = 11 /\ DOMAIN Channels = 1 .. 11
  BY DEF Channels
<1>2. \A k \in 1 .. 11 : Channels[k] \in ToSet(Channels)
  BY <1>1 DEF ToSet
<1>3. ASSUME NEW k \in 1 .. 11 PROVE Channels[k].type # "none"
  <2>1. \/ k = 1 \/ k = 2 \/ k = 3 \/ k = 4 \/ k = 5 \/ k = 6 \/ k = 7
        \/ k = 8 \/ k = 9 \/ k = 10 \/ k = 11
    OBVIOUS
  <2>2. /\ Channels[1].type # "none" /\ Channels[2].type # "none"
        /\ Channels[3].type # "none" /\ Channels[4].type # "none"
        /\ Channels[5].type # "none" /\ Channels[6].type # "none"
        /\ Channels[7].type # "none" /\ Channels[8].type # "none"
        /\ Channels[9].type # "none" /\ Channels[10].type # "none"
        /\ Channels[11].type # "none"
    BY DEF Channels, Channel
  <2>3. QED
    BY <2>1, <2>2
<1>4. QED
  BY <1>1, <1>2, <1>3 DEF Types, Tags

LEMMA NoneIsNoType == "none" \notin Types
<1>1. ASSUME NEW ch \in ToSet(Channels) PROVE ch.type # "none"
  <2>1. \E k \in 1 .. 11 : ch = Channels[k]
    BY ChannelNames DEF ToSet
  <2>2. QED
    BY <2>1, ChannelNames
<1>2. QED
  BY <1>1 DEF Types

\* The steps that enter a sample, and these with those that only wait.
Taken == [time : Nat \ {0}, type : Types, tag : Tags]
Step  == Taken \cup [time : Nat \ {0}, type : {"none"}, tag : {"none"}]

\* s is a sequence of steps, k of which are samples.
Counts(s, k) == s \in Seq(Step) /\ Len(Selected(s, Taken)) = k

LEMMA CountsEmpty == Counts(<< >>, 0)
<1>1. << >> \in Seq(Step)
  OBVIOUS
<1>2. QED
  BY <1>1, SelectedEmpty DEF Counts

LEMMA CountsConcat ==
  ASSUME NEW s, NEW t, NEW j, NEW k, Counts(s, j), Counts(t, k)
  PROVE  Counts(s \o t, j + k)
<1>1. s \in Seq(Step) /\ t \in Seq(Step) /\ s \o t \in Seq(Step)
  BY DEF Counts
<1>2. Selected(s \o t, Taken) = Selected(s, Taken) \o Selected(t, Taken)
  BY <1>1, SelectedConcat
<1>3. Selected(s, Taken) \in Seq(Step) /\ Selected(t, Taken) \in Seq(Step)
  BY <1>1, SelectedTyped
<1>4. Len(Selected(s \o t, Taken)) = Len(Selected(s, Taken)) + Len(Selected(t, Taken))
  BY <1>2, <1>3
<1>5. QED
  BY <1>1, <1>4 DEF Counts

LEMMA CountsOne ==
  ASSUME NEW x \in Step
  PROVE  Counts(<<x>>, IF x.type = "none" THEN 0 ELSE 1)
<1> DEFINE e == << >>
<1>1. <<x>> \in Seq(Step) /\ e \in Seq(Step) /\ <<x>> = Append(e, x)
  OBVIOUS
<1>2. Selected(e, Taken) = e
  BY SelectedEmpty
<1> HIDE DEF e
<1>3. Selected(Append(e, x), Taken) = IF x \in Taken THEN Append(e, x) ELSE e
  BY <1>1, <1>2, SelectedAppend
<1>4. x \in Taken <=> x.type # "none"
  BY NoneIsNoType DEF Step, Taken
<1>5. Len(e) = 0 /\ Len(<<x>>) = 1
  BY DEF e
<1>6. QED
  BY <1>1, <1>3, <1>4, <1>5 DEF Counts

LEMMA CountsSample ==
  ASSUME NEW t \in Nat \ {0}, NEW type \in Types, NEW tag \in Tags
  PROVE  Counts(<<Sample(t, type, tag)>>, 1)
<1>1. Sample(t, type, tag) \in Step /\ Sample(t, type, tag).type # "none"
  <2>1. Sample(t, type, tag) \in Taken
    BY DEF Taken, Sample
  <2>2. Sample(t, type, tag).type \in Types
    BY DEF Sample
  <2>3. QED
    BY <2>1, <2>2, NoneIsNoType DEF Step
<1>2. QED
  BY <1>1, CountsOne

LEMMA CountsWait ==
  ASSUME NEW t \in Nat \ {0}
  PROVE  Counts(<<Wait(t)>>, 0)
<1>1. Wait(t) = [time |-> t, type |-> "none", tag |-> "none"]
  BY DEF Wait, Sample
<1>2. Wait(t) \in Step /\ Wait(t).type = "none"
  BY <1>1 DEF Step
<1>3. QED
  BY <1>2, CountsOne

\* What is repeated n times enters n times as much.
LEMMA CountsRepeat ==
  ASSUME NEW s, NEW k \in Nat, Counts(s, k), NEW n \in Nat
  PROVE  Counts(Repeat(n, s), n * k)
<1> DEFINE ss == [j \in 1 .. n |-> s]
<1>1. /\ ss \in Seq(Seq(Step)) /\ Len(ss) = n
      /\ \A j \in 1 .. n : ss[j] = s
  BY DEF Counts
<1>2. PICK g : Joins(g, ss, Step) /\ FlattenSeq(ss) = g[Len(ss)]
  BY <1>1, FlattenJoins
<1>3. Repeat(n, s) = FlattenSeq(ss)
  BY DEF Repeat
<1> HIDE DEF ss
<1>4. /\ g[0] = << >>
      /\ \A j \in 1 .. n : g[j] = g[j - 1] \o s
  BY <1>1, <1>2 DEF Joins
<1> DEFINE P == {j \in Nat : j <= n => Counts(g[j], j * k)}
<1>5. 0 \in P
  <2>1. 0 * k = 0
    OBVIOUS
  <2>2. QED
    BY <1>4, <2>1, CountsEmpty
<1>6. ASSUME NEW j \in Nat, j \in P PROVE j + 1 \in P
  <2>1. SUFFICES ASSUME j + 1 <= n PROVE Counts(g[j + 1], (j + 1) * k)
    OBVIOUS
  <2>2. j + 1 \in 1 .. n /\ (j + 1) - 1 = j /\ j <= n
    BY <2>1
  <2>3. g[j + 1] = g[j] \o s
    BY <1>4, <2>2
  <2>4. Counts(g[j], j * k)
    BY <1>6, <2>2
  <2>5. Counts(g[j] \o s, (j * k) + k)
    BY <2>4, CountsConcat
  <2>6. (j * k) + k = (j + 1) * k
    OBVIOUS
  <2>7. QED
    BY <2>3, <2>5, <2>6
<1>7. \A j \in Nat : j \in P
  <2> HIDE DEF P
  <2>1. QED
    BY <1>5, <1>6, NatInduct
<1>8. QED
  BY <1>1, <1>2, <1>3, <1>7

-----------------------------------------------------------------------------
(* What the registers can hold.                                            *)

LEMMA Modes ==
  ASSUME reg_data \in Registers
  PROVE  /\ AUTO_MODE \in 0 .. 1 /\ SEQ_RESTART \in 0 .. 1
         /\ SAMPLE_COUNT \in Nat
         /\ SSP \in Nat \ {0}
<1>1. 2 \in Nat \ {0} /\ 128 \in Nat \ {0}
  OBVIOUS
<1>2. AUTO_MODE \in 0 .. 2 - 1 /\ SEQ_RESTART \in 0 .. 2 - 1
  BY <1>1, FieldRange DEF AUTO_MODE, SEQ_RESTART
<1>3. /\ Reg(97) \in 0 .. 255 /\ Reg(21) \in 0 .. 255
      /\ Reg(22) \in 0 .. 255 /\ Reg(23) \in 0 .. 255
  BY <1>1, FieldRange
<1> DEFINE clocks == AtLeast(65536 * Reg(21) + 256 * Reg(22) + Reg(23), 128)
<1>4. clocks \in Nat /\ clocks >= 128
  <2> DEFINE x == Reg(21)
             y == Reg(22)
             z == Reg(23)
  <2>1. x \in 0 .. 255 /\ y \in 0 .. 255 /\ z \in 0 .. 255
    BY <1>3
  <2>2. 65536 * x + 256 * y + z \in Nat
    <3> HIDE DEF x, y, z
    <3>1. QED
      BY ONLY <2>1
  <2>3. QED
    BY <2>2 DEF AtLeast
<1> HIDE DEF clocks
<1>5. (clocks * 78125) \div 256 \in Nat \ {0}
  BY <1>4
<1>6. QED
  BY <1>2, <1>3, <1>5 DEF SAMPLE_COUNT, SSP, clocks

LEMMA Settings ==
  ASSUME reg_data \in Registers, NEW n
  PROVE  /\ Mn_SRD(n) \in Nat \ {0}
         /\ Meas(n) \in 0 .. 7
         /\ I_CONV_TYPE(n) \in 0 .. 3 /\ V_CONV_TYPE(n) \in 0 .. 1
<1>1. /\ 1 \in Nat \ {0} /\ 2 \in Nat \ {0} /\ 4 \in Nat \ {0} /\ 8 \in Nat \ {0}
      /\ 16 \in Nat \ {0} /\ 32 \in Nat \ {0} /\ 64 \in Nat \ {0}
  OBVIOUS
<1>2. /\ Field(98 + 2 * n, 32, 8) \in 0 .. 8 - 1
      /\ Field(98 + 2 * n, 1, 32) \in 0 .. 32 - 1
      /\ Field(112 + 2 * n, 64, 4) \in 0 .. 4 - 1
      /\ Field(112 + 2 * n, 16, 2) \in 0 .. 2 - 1
  BY <1>1, FieldRange
<1>3. QED
  BY <1>2 DEF Mn_SRD, Meas, I_CONV_TYPE, V_CONV_TYPE

LEMMA PulseSettings ==
  ASSUME reg_data \in Registers
  PROVE  /\ AP_STEP \in Nat /\ AP_STEP >= 2 /\ AP_REC \in Nat /\ AP_REC >= 2
         /\ TEMP_PIN_SEL \in 0 .. 2
<1>1. 1 \in Nat \ {0} /\ 4 \in Nat \ {0}
  OBVIOUS
<1>2. /\ Field(132, 1, 4) \in 0 .. 4 - 1
      /\ Reg(91) \in 0 .. 255 /\ Reg(92) \in 0 .. 255
  BY <1>1, FieldRange
<1>3. QED
  BY <1>2 DEF AP_STEP, AP_REC, TEMP_PIN_SEL, AtLeast, AtMost

\* What the registers of a chrono amperometry can say.
ChronoType ==
  [AUTO_SUBTRACT : 0 .. 1, POST_PULSE_EN : 0 .. 1, DELAY : Nat \ {0},
   PRE : Nat \ {0}, STEP : Nat \ {0}, POST : Nat, BLANK : Nat \ {0},
   REPEAT : Nat \ {0}]

LEMMA ChronoSettings ==
  ASSUME reg_data \in Registers, NEW base PROVE ChronoRegs(base) \in ChronoType
<1>1. /\ 1 \in Nat \ {0} /\ 2 \in Nat \ {0} /\ 4 \in Nat \ {0} /\ 8 \in Nat \ {0}
      /\ 32 \in Nat \ {0} /\ 64 \in Nat \ {0}
  OBVIOUS
<1>2. /\ Field(base, 8, 2) \in 0 .. 2 - 1 /\ Field(base, 32, 2) \in 0 .. 2 - 1
      /\ Field(base, 1, 8) \in 0 .. 8 - 1 /\ Field(base, 64, 4) \in 0 .. 4 - 1
  BY <1>1, FieldRange
<1>3. /\ Reg(base + 1) \in 0 .. 255 /\ Reg(base + 2) \in 0 .. 255
      /\ Reg(base + 3) \in 0 .. 255 /\ Reg(base + 4) \in 0 .. 255
  BY <1>1, FieldRange
<1>4. QED
  BY <1>2, <1>3 DEF ChronoRegs, ChronoType

-----------------------------------------------------------------------------
(* The steps of each kind of measurement.                                  *)

\* The names of the samples.
LEMMA Names ==
  /\ "PSTAT" \in Types /\ "CHRONO A" \in Types /\ "CHRONO B" \in Types
  /\ "AP" \in Types /\ "TEMPERATURE" \in Types
  /\ "0" \in Tags /\ "1" \in Tags /\ "2" \in Tags /\ "3" \in Tags
  /\ "4" \in Tags /\ "1E" \in Tags
BY DEF Types, Tags

\* Two samples.
LEMMA CountsTwo ==
  ASSUME NEW t \in Nat \ {0}, NEW u \in Nat \ {0}, NEW type \in Types,
         NEW a \in Tags, NEW b \in Tags
  PROVE  Counts(<< Sample(t, type, a), Sample(u, type, b) >>, 2)
<1> DEFINE x == << Sample(t, type, a) >>
           y == << Sample(u, type, b) >>
           z == << Sample(t, type, a), Sample(u, type, b) >>
<1>1. z = x \o y
  OBVIOUS
<1>2. Counts(x, 1) /\ Counts(y, 1)
  BY CountsSample
<1> HIDE DEF x, y, z
<1>3. Counts(x \o y, 1 + 1)
  BY <1>2, CountsConcat
<1>4. Counts(z, 2)
  <2>1. 1 + 1 = 2
    OBVIOUS
  <2>2. QED
    BY <1>1, <1>3, <2>1
<1>5. QED
  BY <1>4 DEF z

LEMMA PstatCount ==
  ASSUME reg_data \in Registers, NEW n
  PROVE  Counts(Pstat(n), IF I_CONV_TYPE(n) = 2 THEN 2 ELSE 1)
<1>1. /\ Counts(<< Sample(Pause(n), "PSTAT", "0") >>, 1)
      /\ Counts(<< Sample(Pause(n), "PSTAT", "1") >>, 1)
      /\ Counts(<< Sample(Pause(n), "PSTAT", "0"),
                   Sample(CONV_TIME(n), "PSTAT", "1") >>, 2)
  BY ConversionTime, Names, CountsSample, CountsTwo
<1>2. QED
  BY <1>1, Settings DEF Pstat

LEMMA ChronoCount ==
  ASSUME reg_data \in Registers, NEW n, NEW c \in ChronoType, NEW type \in Types
  PROVE  Counts(Chrono(n, c, type), ChronoWords(n, c))
<1> DEFINE taken(tag) == << Sample(Pause(n), type, tag) >>
           quiet == << Wait(Pause(n)) >>
           delay == << Wait(c.DELAY) >>
           subtracted == c.AUTO_SUBTRACT = 1 /\ I_CONV_TYPE(n) = 3
           post == CASE c.POST > 0 -> c.POST
                     [] c.POST = 0 /\ c.POST_PULSE_EN = 1 -> c.STEP
                     [] OTHER -> 0
           before == IF subtracted THEN quiet ELSE taken("2")
           w == IF subtracted THEN 0 ELSE 1
           s1 == Repeat(c.PRE, before)
           s2 == s1 \o delay
           s3 == s2 \o Repeat(c.STEP, taken("3"))
           s4 == s3 \o delay
           s5 == s4 \o Repeat(post, taken("4"))
           s6 == s5 \o Repeat(c.BLANK, quiet)
<1>1. /\ c.AUTO_SUBTRACT \in 0 .. 1 /\ c.POST_PULSE_EN \in 0 .. 1
      /\ c.DELAY \in Nat \ {0} /\ c.PRE \in Nat /\ c.STEP \in Nat /\ c.POST \in Nat
      /\ c.BLANK \in Nat /\ c.REPEAT \in Nat
  BY DEF ChronoType
<1>2. post \in Nat /\ post = AfterPulse(c) /\ w \in Nat
  BY <1>1 DEF AfterPulse
<1>3. /\ Counts(taken("2"), 1) /\ Counts(taken("3"), 1) /\ Counts(taken("4"), 1)
      /\ Counts(quiet, 0) /\ Counts(delay, 0)
  BY <1>1, ConversionTime, Names, CountsSample, CountsWait
<1>4. Counts(before, w)
  BY <1>3
<1>5. ChronoPulse(n, c, type) = s6
  BY DEF ChronoPulse
<1>6. ChronoWords(n, c) = c.REPEAT * ((c.PRE * w) + c.STEP + post)
  <2>1. (IF subtracted THEN 0 ELSE c.PRE) = c.PRE * w
    BY <1>1
  <2>2. ChronoWords(n, c) = c.REPEAT * ((IF subtracted THEN 0 ELSE c.PRE)
                                          + c.STEP + AfterPulse(c))
    BY DEF ChronoWords
  <2> HIDE DEF subtracted, w, post
  <2>3. QED
    BY <1>2, <2>1, <2>2
<1> HIDE DEF taken, quiet, delay, subtracted, post, before, w
<1>7. Counts(s1, c.PRE * w)
  BY <1>1, <1>2, <1>4, CountsRepeat
<1>8. Counts(Repeat(c.STEP, taken("3")), c.STEP)
  <2>1. Counts(Repeat(c.STEP, taken("3")), c.STEP * 1)
    BY <1>1, <1>3, CountsRepeat
  <2>2. c.STEP * 1 = c.STEP
    BY <1>1
  <2>3. QED
    BY <2>1, <2>2
<1>9. Counts(Repeat(post, taken("4")), post)
  <2>1. Counts(Repeat(post, taken("4")), post * 1)
    BY <1>2, <1>3, CountsRepeat
  <2>2. post * 1 = post
    BY <1>2
  <2>3. QED
    BY <2>1, <2>2
<1>10. Counts(Repeat(c.BLANK, quiet), 0)
  <2>1. Counts(Repeat(c.BLANK, quiet), c.BLANK * 0)
    BY <1>1, <1>3, CountsRepeat
  <2>2. c.BLANK * 0 = 0
    BY <1>1
  <2>3. QED
    BY <2>1, <2>2
<1> DEFINE p == c.PRE * w
<1>11. p \in Nat
  BY <1>1, <1>2
<1> HIDE DEF p, s1
<1>12. Counts(s2, p + 0)
  BY <1>3, <1>7, CountsConcat DEF p
<1> HIDE DEF s2
<1>13. Counts(s3, (p + 0) + c.STEP)
  BY <1>8, <1>12, CountsConcat
<1> HIDE DEF s3
<1>14. Counts(s4, ((p + 0) + c.STEP) + 0)
  BY <1>3, <1>13, CountsConcat
<1> HIDE DEF s4
<1>15. Counts(s5, (((p + 0) + c.STEP) + 0) + post)
  BY <1>9, <1>14, CountsConcat
<1> HIDE DEF s5
<1>16. Counts(s6, ((((p + 0) + c.STEP) + 0) + post) + 0)
  BY <1>10, <1>15, CountsConcat
<1> HIDE DEF s6
<1> DEFINE words == p + c.STEP + post
<1>17. ((((p + 0) + c.STEP) + 0) + post) + 0 = words /\ words \in Nat
  BY <1>1, <1>2, <1>11
<1>18. Counts(Repeat(c.REPEAT, s6), c.REPEAT * words)
  <2>1. Counts(s6, words)
    BY <1>16, <1>17
  <2> HIDE DEF words
  <2>2. QED
    BY <1>1, <1>17, <2>1, CountsRepeat
<1>19. QED
  BY <1>5, <1>6, <1>18 DEF Chrono, p

LEMMA PulseCount ==
  ASSUME reg_data \in Registers, NEW n
  PROVE  Counts(ArbitraryPulse(n),
                (AP_STEP + AP_REC - 2) * (IF I_CONV_TYPE(n) = 3 THEN 2 ELSE 1))
<1> DEFINE both == I_CONV_TYPE(n) = 3
           w == IF both THEN 2 ELSE 1
           wait == << Wait(IF both THEN Pause(n) + CONV_TIME(n) ELSE Pause(n)) >>
           each(tag) == IF both THEN << Sample(Pause(n), "AP", "0"),
                                        Sample(CONV_TIME(n), "AP", tag) >>
                        ELSE << Sample(Pause(n), "AP", tag) >>
           part(count, tag) == wait \o Repeat(count - 1, each(tag))
<1>1. w \in Nat
  OBVIOUS
<1>2. Counts(wait, 0)
  <2>1. Pause(n) + CONV_TIME(n) \in Nat \ {0} /\ Pause(n) \in Nat \ {0}
    BY ConversionTime
  <2>2. QED
    BY <2>1, CountsWait
<1>3. ASSUME NEW tag \in Tags PROVE Counts(each(tag), w)
  <2>1. Counts(<< Sample(Pause(n), "AP", "0"), Sample(CONV_TIME(n), "AP", tag) >>, 2)
    BY ConversionTime, Names, CountsTwo
  <2>2. Counts(<< Sample(Pause(n), "AP", tag) >>, 1)
    BY ConversionTime, Names, CountsSample
  <2>3. QED
    BY <2>1, <2>2
<1>4. ArbitraryPulse(n) = part(AP_STEP, "3") \o part(AP_REC, "4")
  BY DEF ArbitraryPulse
<1> HIDE DEF wait, each
<1>5. ASSUME NEW count \in Nat, count >= 2, NEW tag \in Tags
      PROVE  Counts(part(count, tag), (count - 1) * w)
  <2>1. count - 1 \in Nat
    BY <1>5
  <2>2. Counts(Repeat(count - 1, each(tag)), (count - 1) * w)
    BY <1>1, <1>3, <2>1, CountsRepeat
  <2>3. (count - 1) * w \in Nat /\ 0 + ((count - 1) * w) = (count - 1) * w
    BY <1>1, <2>1
  <2>4. QED
    BY <1>2, <2>2, <2>3, CountsConcat
<1>6. /\ Counts(part(AP_STEP, "3"), (AP_STEP - 1) * w)
      /\ Counts(part(AP_REC, "4"), (AP_REC - 1) * w)
  BY <1>5, PulseSettings, Names
<1> HIDE DEF part
<1>7. Counts(ArbitraryPulse(n), ((AP_STEP - 1) * w) + ((AP_REC - 1) * w))
  BY <1>4, <1>6, CountsConcat
<1>8. ((AP_STEP - 1) * w) + ((AP_REC - 1) * w) = (AP_STEP + AP_REC - 2) * w
  BY PulseSettings
<1>9. QED
  BY <1>7, <1>8

\* The offset of a voltage, converted once, is no sample.
LEMMA OffsetCount ==
  ASSUME reg_data \in Registers, NEW n
  PROVE  Counts(OffsetOnce(n), 0) /\ SignalTime(n) \in Nat \ {0}
BY ConversionTime, CountsWait, CountsEmpty DEF OffsetOnce, SignalTime

LEMMA TemperatureCount ==
  ASSUME reg_data \in Registers, NEW n
  PROVE  Counts(Temperature(n), IF TEMP_PIN_SEL = 2 THEN 2 ELSE 1)
<1> DEFINE k == IF TEMP_PIN_SEL = 2 THEN 2 ELSE 1
           s == << Sample(SignalTime(n), "TEMPERATURE", "1E") >>
<1>1. Counts(s, 1)
  BY OffsetCount, Names, CountsSample
<1>2. k \in Nat /\ k * 1 = k /\ 0 + k = k
  OBVIOUS
<1>3. Temperature(n) = OffsetOnce(n) \o Repeat(k, s)
  BY DEF Temperature
<1> HIDE DEF k, s
<1>4. Counts(Repeat(k, s), k)
  <2>1. Counts(Repeat(k, s), k * 1)
    BY <1>1, <1>2, CountsRepeat
  <2>2. QED
    BY <1>2, <2>1
<1>5. Counts(OffsetOnce(n) \o Repeat(k, s), 0 + k)
  BY <1>4, OffsetCount, CountsConcat
<1>6. QED
  BY <1>2, <1>3, <1>5 DEF k

\* A bit that is shifted to the right place is 1 when it is set; that of RE1
\* never is.
LEMMA Shifts ==
  ASSUME NEW x \in 0 .. 1
  PROVE  /\ (x * 64) \div 64 = x /\ (x * 32) \div 32 = x /\ (x * 16) \div 16 = x
         /\ (x * 8) \div 8 = x /\ (x * 4) \div 4 = x /\ (x * 2) \div 2 = x
         /\ (x * 1) \div 1 = x /\ (x * 8) \div 4 # 1
OBVIOUS

\* What selects each of the voltages.
LEMMA Selectors ==
  ASSUME reg_data \in Registers
  PROVE  /\ VSEL(Channels[1]) = Field(134, 64, 2)
         /\ VSEL(Channels[2]) = Field(134, 32, 2)
         /\ VSEL(Channels[3]) = Field(134, 16, 2)
         /\ VSEL(Channels[4]) = Field(134, 8, 2)
         /\ VSEL(Channels[5]) = Field(134, 4, 2)
         /\ VSEL(Channels[6]) = Field(134, 1, 2)
         /\ VSEL(Channels[7]) = Field(134, 2, 2)
         /\ VSEL(Channels[8]) = Field(133, 64, 2)
         /\ VSEL(Channels[9]) = Field(133, 16, 2)
         /\ VSEL(Channels[10]) # 1
         /\ VSEL(Channels[11]) = Field(133, 1, 2)
<1>1. ASSUME NEW reg, NEW bit \in Nat \ {0} PROVE Field(reg, bit, 2) \in 0 .. 1
  <2>1. 2 \in Nat \ {0} /\ 2 - 1 = 1
    OBVIOUS
  <2>2. Field(reg, bit, 2) \in 0 .. 2 - 1
    BY <2>1, FieldRange
  <2>3. QED
    BY <2>1, <2>2
<1>2. /\ VSEL(Channels[1]) = (Field(134, 64, 2) * 64) \div 64
      /\ VSEL(Channels[2]) = (Field(134, 32, 2) * 32) \div 32
      /\ VSEL(Channels[3]) = (Field(134, 16, 2) * 16) \div 16
      /\ VSEL(Channels[4]) = (Field(134, 8, 2) * 8) \div 8
      /\ VSEL(Channels[5]) = (Field(134, 4, 2) * 4) \div 4
      /\ VSEL(Channels[6]) = (Field(134, 1, 2) * 1) \div 1
      /\ VSEL(Channels[7]) = (Field(134, 2, 2) * 2) \div 2
      /\ VSEL(Channels[8]) = (Field(133, 64, 2) * 64) \div 64
      /\ VSEL(Channels[9]) = (Field(133, 16, 2) * 16) \div 16
      /\ VSEL(Channels[10]) = (Field(133, 8, 2) * 8) \div 4
      /\ VSEL(Channels[11]) = (Field(133, 1, 2) * 1) \div 1
  <2>1. /\ Channels[1].reg = 134 /\ Channels[1].bit = 64 /\ Channels[1].unit = 64
        /\ Channels[2].reg = 134 /\ Channels[2].bit = 32 /\ Channels[2].unit = 32
        /\ Channels[3].reg = 134 /\ Channels[3].bit = 16 /\ Channels[3].unit = 16
        /\ Channels[4].reg = 134 /\ Channels[4].bit = 8 /\ Channels[4].unit = 8
        /\ Channels[5].reg = 134 /\ Channels[5].bit = 4 /\ Channels[5].unit = 4
        /\ Channels[6].reg = 134 /\ Channels[6].bit = 1 /\ Channels[6].unit = 1
        /\ Channels[7].reg = 134 /\ Channels[7].bit = 2 /\ Channels[7].unit = 2
        /\ Channels[8].reg = 133 /\ Channels[8].bit = 64 /\ Channels[8].unit = 64
        /\ Channels[9].reg = 133 /\ Channels[9].bit = 16 /\ Channels[9].unit = 16
        /\ Channels[10].reg = 133 /\ Channels[10].bit = 8 /\ Channels[10].unit = 4
        /\ Channels[11].reg = 133 /\ Channels[11].bit = 1 /\ Channels[11].unit = 1
    BY DEF Channels, Channel
  <2>2. QED
    BY <2>1 DEF VSEL
<1>3. /\ Field(134, 64, 2) \in 0 .. 1
      /\ Field(134, 32, 2) \in 0 .. 1
      /\ Field(134, 16, 2) \in 0 .. 1
      /\ Field(134, 8, 2) \in 0 .. 1
      /\ Field(134, 4, 2) \in 0 .. 1
      /\ Field(134, 1, 2) \in 0 .. 1
      /\ Field(134, 2, 2) \in 0 .. 1
      /\ Field(133, 64, 2) \in 0 .. 1
      /\ Field(133, 16, 2) \in 0 .. 1
      /\ Field(133, 8, 2) \in 0 .. 1
      /\ Field(133, 1, 2) \in 0 .. 1
  BY <1>1
<1>4. QED
  BY ONLY <1>2, <1>3, Shifts

LEMMA ChannelsSequence == Channels \in Seq(ToSet(Channels))
<1>1. Channels = [k \in 1 .. 11 |-> Channels[k]]
  BY DEF Channels
<1>2. ASSUME NEW X, NEW n \in Nat, NEW f,
             f = [k \in 1 .. n |-> f[k]], \A k \in 1 .. n : f[k] \in X
      PROVE  f \in Seq(X)
  <2>1. f \in [1 .. n -> X]
    BY <1>2
  <2>2. QED
    BY <2>1
<1>3. 11 \in Nat
  OBVIOUS
<1>4. QED
  BY <1>1, <1>2, <1>3, ChannelNames

\* So many voltages are selected.
LEMMA ChannelsSelected ==
  ASSUME reg_data \in Registers
  PROVE  LET T == {ch \in ToSet(Channels) : VSEL(ch) = 1}
         IN  Len(Selected(Channels, T)) = VoltageWords
<1> DEFINE X == ToSet(Channels)
           T == {ch \in X : VSEL(ch) = 1}
           f == SelectedUpTo(Channels, T)
           one(k) == IF VSEL(Channels[k]) = 1 THEN 1 ELSE 0
<1>1. Channels \in Seq(X) /\ Len(Channels) = 11
  BY ChannelsSequence, ChannelNames
<1>2. /\ \A k \in 0 .. 11 : f[k] \in Seq(X)
      /\ f[0] = << >>
      /\ \A k \in 1 .. 11 : f[k] = IF Channels[k] \in T
                                  THEN Append(f[k - 1], Channels[k]) ELSE f[k - 1]
  <2> HIDE DEF X, T
  <2>1. /\ f \in [0 .. Len(Channels) -> Seq(X)]
        /\ f[0] = << >>
        /\ \A k \in 1 .. Len(Channels) :
             f[k] = IF Channels[k] \in T
                    THEN Append(f[k - 1], Channels[k]) ELSE f[k - 1]
    <3> DEFINE c == Channels
    <3>1. c \in Seq(X)
      BY <1>1
    <3> HIDE DEF c
    <3>2. QED
      BY <3>1, SelectedUpToIs DEF c
  <2> HIDE DEF f
  <2>2. QED
    BY ONLY <1>1, <2>1
<1>3. ASSUME NEW k \in 1 .. 11 PROVE Len(f[k]) = Len(f[k - 1]) + one(k)
  <2>1. Channels[k] \in T <=> VSEL(Channels[k]) = 1
    BY ChannelNames
  <2> DEFINE r == f[k - 1]
             c == Channels[k]
  <2>2. r \in Seq(X) /\ c \in X
    <3>1. k - 1 \in 0 .. 11
      OBVIOUS
    <3>2. Channels[k] \in X
      BY ChannelNames
    <3> HIDE DEF f, X, T
    <3>3. QED
      BY <1>2, <3>1, <3>2
  <2> HIDE DEF f, X, T
  <2>3. f[k] = IF c \in T THEN Append(r, c) ELSE r
    BY <1>2
  <2>4. Len(Append(r, c)) = Len(r) + 1 /\ Len(r) + 0 = Len(r)
    <3> HIDE DEF r, c
    <3>1. QED
      BY <2>2
  <2>5. Len(f[k]) = Len(r) + (IF c \in T THEN 1 ELSE 0)
    <3> HIDE DEF r, c
    <3>1. QED
      BY ONLY <2>3, <2>4
  <2>6. one(k) = IF c \in T THEN 1 ELSE 0
    BY <2>1
  <2> HIDE DEF one
  <2>7. QED
    BY ONLY <2>5, <2>6 DEF r
<1>4. Len(f[0]) = 0
  BY <1>2
<1> HIDE DEF f
<1>5. /\ Len(f[1]) = Len(f[0]) + one(1) /\ Len(f[2]) = Len(f[1]) + one(2)
      /\ Len(f[3]) = Len(f[2]) + one(3) /\ Len(f[4]) = Len(f[3]) + one(4)
      /\ Len(f[5]) = Len(f[4]) + one(5) /\ Len(f[6]) = Len(f[5]) + one(6)
      /\ Len(f[7]) = Len(f[6]) + one(7) /\ Len(f[8]) = Len(f[7]) + one(8)
      /\ Len(f[9]) = Len(f[8]) + one(9) /\ Len(f[10]) = Len(f[9]) + one(10)
      /\ Len(f[11]) = Len(f[10]) + one(11)
  <2> HIDE DEF one
  <2>1. ASSUME NEW j \in 0 .. 10 PROVE Len(f[j + 1]) = Len(f[j]) + one(j + 1)
    <3>1. j + 1 \in 1 .. 11 /\ (j + 1) - 1 = j
      OBVIOUS
    <3>2. QED
      BY <1>3, <3>1
  <2>2. QED
    BY <2>1
<1>6. ASSUME NEW reg, NEW bit \in Nat \ {0} PROVE Field(reg, bit, 2) \in 0 .. 1
  <2>1. 2 \in Nat \ {0} /\ 2 - 1 = 1
    OBVIOUS
  <2>2. Field(reg, bit, 2) \in 0 .. 2 - 1
    BY <2>1, FieldRange
  <2>3. QED
    BY <2>1, <2>2
<1>7. /\ Field(134, 64, 2) \in 0 .. 1 /\ Field(134, 32, 2) \in 0 .. 1
      /\ Field(134, 16, 2) \in 0 .. 1 /\ Field(134, 8, 2) \in 0 .. 1
      /\ Field(134, 4, 2) \in 0 .. 1 /\ Field(134, 2, 2) \in 0 .. 1
      /\ Field(134, 1, 2) \in 0 .. 1 /\ Field(133, 64, 2) \in 0 .. 1
      /\ Field(133, 16, 2) \in 0 .. 1 /\ Field(133, 1, 2) \in 0 .. 1
  BY <1>6
<1>8. /\ one(1) = Field(134, 64, 2) /\ one(2) = Field(134, 32, 2)
      /\ one(3) = Field(134, 16, 2) /\ one(4) = Field(134, 8, 2)
      /\ one(5) = Field(134, 4, 2) /\ one(6) = Field(134, 1, 2)
      /\ one(7) = Field(134, 2, 2) /\ one(8) = Field(133, 64, 2)
      /\ one(9) = Field(133, 16, 2) /\ one(10) = 0 /\ one(11) = Field(133, 1, 2)
  BY <1>7, Selectors
<1> HIDE DEF one
<1>9. Len(f[11]) = VoltageWords
  BY ONLY <1>4, <1>5, <1>7, <1>8 DEF VoltageWords
<1>10. Selected(Channels, T) = f[11]
  BY ChannelNames DEF Selected, f
<1>11. QED
  BY ONLY <1>9, <1>10

LEMMA VoltageCount ==
  ASSUME reg_data \in Registers, NEW n
  PROVE  Counts(Voltage(n), VoltageWords)
<1> DEFINE X == ToSet(Channels)
           T == {ch \in X : VSEL(ch) = 1}
           on == Selected(Channels, T)
           s == [k \in DOMAIN on |-> Sample(SignalTime(n), on[k].type, on[k].tag)]
<1>1. /\ Channels \in Seq(X)
      /\ \A ch \in X : ch.type \in Types /\ ch.tag \in Tags
  <2>1. X = {Channels[k] : k \in 1 .. 11}
    BY ChannelNames DEF ToSet
  <2>2. QED
    BY <2>1, ChannelNames, ChannelsSequence
<1>2. Len(on) = VoltageWords
  BY ChannelsSelected
<1>3. on \in Seq(X)
  <2> HIDE DEF X, T
  <2>1. QED
    BY <1>1, SelectedTyped
<1>4. Voltage(n) = OffsetOnce(n) \o s
  BY DEF Voltage
<1> HIDE DEF on
<1>5. s \in Seq(Taken) /\ Len(s) = Len(on)
  <2>1. DOMAIN on = 1 .. Len(on) /\ \A k \in 1 .. Len(on) : on[k] \in X
    BY <1>3
  <2>2. ASSUME NEW k \in 1 .. Len(on)
        PROVE  Sample(SignalTime(n), on[k].type, on[k].tag) \in Taken
    <3>1. on[k].type \in Types /\ on[k].tag \in Tags
      BY <1>1, <2>1
    <3>2. QED
      BY <3>1, OffsetCount DEF Sample, Taken
  <2>3. Len(on) \in Nat
    BY <1>3
  <2>4. QED
    BY <2>1, <2>2, <2>3
<1> HIDE DEF s, X
<1>6. Counts(s, VoltageWords)
  <2>1. Selected(s, Taken) = s
    BY <1>5, SelectedAll
  <2>2. Taken \subseteq Step
    BY DEF Taken, Step
  <2>3. s \in Seq(Step)
    BY <1>5, <2>2
  <2>4. QED
    BY <1>2, <1>5, <2>1, <2>3 DEF Counts
<1>7. Counts(OffsetOnce(n) \o s, 0 + VoltageWords)
  BY <1>6, OffsetCount, CountsConcat
<1>8. 0 + VoltageWords = VoltageWords
  <2>1. VoltageWords \in Nat
    BY <1>2, <1>3
  <2>2. QED
    BY <2>1
<1>9. QED
  BY <1>4, <1>7, <1>8

\* What Steps(n) enters is what the registers say.
LEMMA StepsCount ==
  ASSUME reg_data \in Registers, NEW n
  PROVE  Counts(Steps(n), Words(n))
<1>1. CHRONOA \in ChronoType /\ CHRONOB \in ChronoType
  BY ChronoSettings DEF CHRONOA, CHRONOB
<1>2. /\ Counts(Chrono(n, CHRONOA, "CHRONO A"), ChronoWords(n, CHRONOA))
      /\ Counts(Chrono(n, CHRONOB, "CHRONO B"), ChronoWords(n, CHRONOB))
  BY <1>1, ChronoCount, Names
<1>3. CASE Meas(n) = PSTAT
  BY <1>3, PstatCount DEF Steps, Words, PSTAT, CHRONO_A, CHRONO_B, AP, TEMPERATURE, VOLTAGE
<1>4. CASE Meas(n) = CHRONO_A
  <2>1. /\ Steps(n) = Chrono(n, CHRONOA, "CHRONO A")
        /\ Words(n) = ChronoWords(n, CHRONOA)
    BY <1>4 DEF Steps, Words, PSTAT, CHRONO_A, CHRONO_B, AP, TEMPERATURE, VOLTAGE
  <2>2. QED
    BY <1>2, <2>1
<1>5. CASE Meas(n) = CHRONO_B
  <2>1. /\ Steps(n) = Chrono(n, CHRONOB, "CHRONO B")
        /\ Words(n) = ChronoWords(n, CHRONOB)
    BY <1>5 DEF Steps, Words, PSTAT, CHRONO_A, CHRONO_B, AP, TEMPERATURE, VOLTAGE
  <2>2. QED
    BY <1>2, <2>1
<1>6. CASE Meas(n) = AP
  <2>1. Steps(n) = ArbitraryPulse(n)
    BY <1>6 DEF Steps, PSTAT, CHRONO_A, CHRONO_B, AP, TEMPERATURE, VOLTAGE
  <2>2. Words(n) = (AP_STEP + AP_REC - 2) * (IF I_CONV_TYPE(n) = 3 THEN 2 ELSE 1)
    BY <1>6 DEF Words, PSTAT, CHRONO_A, CHRONO_B, AP, TEMPERATURE, VOLTAGE
  <2>3. QED
    BY <2>1, <2>2, PulseCount
<1>7. CASE Meas(n) = TEMPERATURE
  <2>1. Steps(n) = Temperature(n)
    BY <1>7 DEF Steps, PSTAT, CHRONO_A, CHRONO_B, AP, TEMPERATURE, VOLTAGE
  <2>2. Words(n) = IF TEMP_PIN_SEL = 2 THEN 2 ELSE 1
    BY <1>7 DEF Words, PSTAT, CHRONO_A, CHRONO_B, AP, TEMPERATURE, VOLTAGE
  <2>3. QED
    BY <2>1, <2>2, TemperatureCount
<1>8. CASE Meas(n) = VOLTAGE
  <2>1. Steps(n) = Voltage(n) /\ Words(n) = VoltageWords
    BY <1>8 DEF Steps, Words, PSTAT, CHRONO_A, CHRONO_B, AP, TEMPERATURE, VOLTAGE
  <2>2. QED
    BY <2>1, VoltageCount
<1>9. CASE Meas(n) \notin {PSTAT, CHRONO_A, CHRONO_B, AP, TEMPERATURE, VOLTAGE}
  <2>1. Steps(n) = << >> /\ Words(n) = 0
    BY <1>9 DEF Steps, Words
  <2>2. QED
    BY <2>1, CountsEmpty
<1>10. QED
  BY <1>3, <1>4, <1>5, <1>6, <1>7, <1>8, <1>9

-----------------------------------------------------------------------------
(* The samples of one measurement, with their times.                       *)

\* s is in the order of time, after lo and not after hi.
Rising(s, lo, hi) ==
  /\ \A k \in 1 .. Len(s) : lo < s[k].time /\ s[k].time <= hi
  /\ \A k \in 1 .. Len(s) - 1 : s[k].time < s[k + 1].time

LEMMA EntryTimes ==
  /\ \A e \in Entry : e.time \in Nat
  /\ \A s \in Seq(Entry) : \A k \in 1 .. Len(s) : s[k].time \in Nat
<1>1. \A e \in Entry : e.time \in Nat
  BY DEF Entry
<1>2. QED
  BY <1>1

LEMMA RisingAppend ==
  ASSUME NEW s \in Seq(Entry), NEW x \in Entry, NEW lo \in Int, NEW hi \in Int,
         Rising(s, lo, hi), lo <= hi, hi < x.time
  PROVE  Rising(Append(s, x), lo, x.time)
<1> DEFINE r == Append(s, x)
<1>1. /\ Len(r) = Len(s) + 1 /\ r[Len(s) + 1] = x /\ Len(s) \in Nat
      /\ \A k \in 1 .. Len(s) : r[k] = s[k]
  OBVIOUS
<1>2. x.time \in Nat /\ \A k \in 1 .. Len(s) : s[k].time \in Nat
  BY EntryTimes
<1> HIDE DEF r
<1>3. \A k \in 1 .. Len(r) : lo < r[k].time /\ r[k].time <= x.time
  <2>1. ASSUME NEW k \in 1 .. Len(s) PROVE lo < r[k].time /\ r[k].time <= x.time
    BY <1>1, <1>2 DEF Rising
  <2>2. lo < r[Len(s) + 1].time /\ r[Len(s) + 1].time <= x.time
    BY <1>1, <1>2
  <2>3. \A k \in 1 .. Len(r) : k \in 1 .. Len(s) \/ k = Len(s) + 1
    BY <1>1
  <2>4. QED
    BY <2>1, <2>2, <2>3
<1>4. ASSUME NEW k \in 1 .. Len(r) - 1 PROVE r[k].time < r[k + 1].time
  <2>1. CASE k < Len(s)
    <3>1. k \in 1 .. Len(s) - 1 /\ k \in 1 .. Len(s) /\ k + 1 \in 1 .. Len(s)
      BY <1>1, <2>1
    <3>2. s[k].time < s[k + 1].time
      BY <3>1 DEF Rising
    <3>3. QED
      BY <1>1, <3>1, <3>2
  <2>2. CASE k = Len(s)
    <3>1. k \in 1 .. Len(s) /\ r[k] = s[k] /\ r[k + 1] = x
      BY <1>1, <2>2
    <3>2. s[k].time <= hi
      BY <3>1 DEF Rising
    <3>3. QED
      BY <1>2, <3>1, <3>2
  <2>3. QED
    BY <1>1, <2>1, <2>2
<1>5. QED
  BY <1>3, <1>4 DEF Rising, r

LEMMA RisingWiden ==
  ASSUME NEW s \in Seq(Entry), NEW lo \in Int, NEW hi \in Int, NEW later \in Int,
         Rising(s, lo, hi), hi <= later
  PROVE  Rising(s, lo, later)
<1>1. \A k \in 1 .. Len(s) : s[k].time \in Nat
  BY EntryTimes
<1>2. QED
  BY <1>1 DEF Rising

LEMMA RisingConcat ==
  ASSUME NEW s \in Seq(Entry), NEW t \in Seq(Entry),
         NEW lo \in Int, NEW mid \in Int, NEW hi \in Int,
         Rising(s, lo, mid), Rising(t, mid, hi), lo <= mid, mid <= hi
  PROVE  Rising(s \o t, lo, hi)
<1> DEFINE r == s \o t
<1>1. /\ Len(r) = Len(s) + Len(t) /\ Len(s) \in Nat /\ Len(t) \in Nat
      /\ \A k \in 1 .. Len(s) : r[k] = s[k]
      /\ \A k \in 1 .. Len(t) : r[Len(s) + k] = t[k]
  OBVIOUS
<1>2. /\ \A k \in 1 .. Len(s) : s[k].time \in Nat
      /\ \A k \in 1 .. Len(t) : t[k].time \in Nat
  BY EntryTimes
<1>3. \A k \in 1 .. Len(r) :
        \/ k \in 1 .. Len(s) /\ r[k] = s[k]
        \/ k - Len(s) \in 1 .. Len(t) /\ r[k] = t[k - Len(s)]
  <2>1. SUFFICES ASSUME NEW k \in 1 .. Len(r), ~ (k \in 1 .. Len(s))
                 PROVE  k - Len(s) \in 1 .. Len(t) /\ r[k] = t[k - Len(s)]
    BY <1>1
  <2> HIDE DEF r
  <2>2. k - Len(s) \in 1 .. Len(t) /\ Len(s) + (k - Len(s)) = k
    BY <1>1, <2>1
  <2>3. QED
    BY <1>1, <2>2
<1> HIDE DEF r
<1>4. \A k \in 1 .. Len(r) : lo < r[k].time /\ r[k].time <= hi
  <2>1. ASSUME NEW k \in 1 .. Len(s) PROVE lo < s[k].time /\ s[k].time <= hi
    BY <1>2 DEF Rising
  <2>2. ASSUME NEW k \in 1 .. Len(t) PROVE lo < t[k].time /\ t[k].time <= hi
    BY <1>2 DEF Rising
  <2>3. QED
    BY <1>3, <2>1, <2>2
<1>5. ASSUME NEW k \in 1 .. Len(r) - 1 PROVE r[k].time < r[k + 1].time
  <2>1. CASE k < Len(s)
    <3>1. k \in 1 .. Len(s) - 1 /\ k \in 1 .. Len(s) /\ k + 1 \in 1 .. Len(s)
      BY <1>1, <2>1
    <3>2. s[k].time < s[k + 1].time
      BY <3>1 DEF Rising
    <3>3. QED
      BY <1>1, <3>1, <3>2
  <2>2. CASE k = Len(s)
    <3>1. k \in 1 .. Len(s) /\ 1 \in 1 .. Len(t)
      BY <1>1, <2>2
    <3>2. r[k] = s[k] /\ r[k + 1] = t[1]
      BY <1>1, <2>2, <3>1
    <3>3. s[k].time <= mid /\ mid < t[1].time
      BY <3>1 DEF Rising
    <3>4. QED
      BY <1>2, <3>1, <3>2, <3>3
  <2>3. CASE k > Len(s)
    <3> DEFINE j == k - Len(s)
    <3>1. j \in 1 .. Len(t) - 1 /\ j + 1 \in 1 .. Len(t) /\ j \in 1 .. Len(t)
      BY <1>1, <2>3
    <3>2. Len(s) + j = k /\ Len(s) + (j + 1) = k + 1
      BY <1>1
    <3> HIDE DEF j
    <3>3. r[k] = t[j] /\ r[k + 1] = t[j + 1]
      BY <1>1, <3>1, <3>2
    <3>4. QED
      BY <3>1, <3>3 DEF Rising
  <2>4. QED
    BY <1>1, <2>1, <2>2, <2>3
<1>6. QED
  BY <1>4, <1>5 DEF Rising, r

\* The recursive function satisfies its definition.
LEMMA TimeAfterIs ==
  ASSUME timer \in Nat, NEW steps \in Seq(Step)
  PROVE  /\ TimeAfter(steps) \in [0 .. Len(steps) -> Nat]
         /\ TimeAfter(steps)[0] = timer
         /\ \A k \in 1 .. Len(steps) :
              /\ steps[k].time \in Nat \ {0}
              /\ TimeAfter(steps)[k] = TimeAfter(steps)[k - 1] + steps[k].time
<1> DEFINE N == Len(steps)
           G == [k \in 1 .. N |-> [r \in Nat |-> r + steps[k].time]]
           F(f) == [k \in 0 .. N |-> IF k = 0 THEN timer ELSE f[k - 1] + steps[k].time]
<1>1. N \in Nat /\ \A k \in 1 .. N : steps[k].time \in Nat \ {0}
  <2>1. ASSUME NEW k \in 1 .. N PROVE steps[k].time \in Nat \ {0}
    <3>1. steps[k] \in Step
      OBVIOUS
    <3>2. \A x \in Step : x.time \in Nat \ {0}
      BY DEF Step, Taken
    <3>3. QED
      BY <3>1, <3>2
  <2>2. QED
    BY <2>1
<1>2. G \in [1 .. N -> [Nat -> Nat]]
  BY <1>1
<1>3. \A k \in 1 .. N, r \in Nat : G[k][r] = r + steps[k].time
  OBVIOUS
<1> HIDE DEF G, N
<1>4. PICK f : Recurs(f, Nat, N, timer, G)
  BY <1>1, <1>2, RecursionExists
<1>5. /\ f \in [0 .. N -> Nat] /\ f[0] = timer
      /\ \A k \in 1 .. N : f[k] = f[k - 1] + steps[k].time
  <2>1. f \in [0 .. N -> Nat] /\ f[0] = timer
    BY <1>4 DEF Recurs
  <2>2. ASSUME NEW k \in 1 .. N PROVE f[k] = f[k - 1] + steps[k].time
    <3>1. k - 1 \in 0 .. N
      BY <1>1
    <3>2. f[k - 1] \in Nat /\ f[k] = G[k][f[k - 1]]
      BY <1>4, <2>1, <3>1 DEF Recurs
    <3>3. QED
      BY <1>3, <3>2
  <2>3. QED
    BY <2>1, <2>2
<1>6. f = F(f)
  <2>1. ASSUME NEW k \in 0 .. N
        PROVE  f[k] = IF k = 0 THEN timer ELSE f[k - 1] + steps[k].time
    <3>1. k = 0 \/ k \in 1 .. N
      BY <1>1
    <3>2. QED
      BY <1>5, <3>1
  <2>2. f = [k \in 0 .. N |-> f[k]]
    BY <1>5
  <2>3. QED
    BY <2>1, <2>2
<1> DEFINE g == TimeAfter(steps)
<1>7. g = F(g)
  BY <1>6 DEF TimeAfter, N
<1> HIDE DEF g
<1>8. /\ DOMAIN g = 0 .. N
      /\ \A k \in 0 .. N : g[k] = IF k = 0 THEN timer ELSE g[k - 1] + steps[k].time
  BY <1>7
<1>9. /\ g[0] = timer
      /\ \A k \in 1 .. N : g[k] = g[k - 1] + steps[k].time
  <2>1. 0 \in 0 .. N /\ \A k \in 1 .. N : k \in 0 .. N /\ k # 0
    BY <1>1
  <2>2. QED
    BY <1>8, <2>1
<1> DEFINE P == {k \in Nat : k <= N => g[k] = f[k]}
<1>10. 0 \in P
  BY <1>5, <1>9
<1>11. ASSUME NEW k \in Nat, k \in P PROVE k + 1 \in P
  <2>1. SUFFICES ASSUME k + 1 <= N PROVE g[k + 1] = f[k + 1]
    OBVIOUS
  <2>2. k + 1 \in 1 .. N /\ (k + 1) - 1 = k /\ g[k] = f[k]
    BY <1>1, <1>11, <2>1
  <2>3. QED
    BY <1>5, <1>9, <2>2
<1>12. \A k \in Nat : k \in P
  <2> HIDE DEF P
  <2>1. QED
    BY <1>10, <1>11, NatInduct
<1>13. g = f
  <2>1. \A k \in 0 .. N : g[k] = f[k]
    BY <1>1, <1>12
  <2>2. g = [k \in 0 .. N |-> g[k]] /\ f = [k \in 0 .. N |-> f[k]]
    BY <1>5, <1>7
  <2>3. QED
    BY <2>1, <2>2
<1>14. QED
  BY <1>1, <1>5, <1>13 DEF g, N

\* The steps with their times: those that are samples are entries of Mn.
LEMMA StampedIs ==
  ASSUME timer \in Nat, NEW steps \in Seq(Step), NEW n \in 0 .. 6
  PROVE  \E X : /\ Stamped(n, steps) \in Seq(X)
                /\ Len(Stamped(n, steps)) = Len(steps)
                /\ \A k \in 1 .. Len(steps) :
                     LET e == Stamped(n, steps)[k]
                     IN  /\ e.time = TimeAfter(steps)[k]
                         /\ e \in Entry <=> steps[k] \in Taken
                         /\ e \in Entry => e \in EntriesOf(n)
<1> DEFINE u == Stamped(n, steps)
           t == TimeAfter(steps)
           X == [time : Nat, type : Types \cup {"none"}, Mn : 0 .. 6,
                 tag : Tags \cup {"none"}]
<1>1. /\ DOMAIN steps = 1 .. Len(steps) /\ Len(steps) \in Nat
      /\ \A k \in 1 .. Len(steps) : steps[k] \in Step
  OBVIOUS
<1>2. \A k \in 1 .. Len(steps) : t[k] \in Nat
  <2>1. t \in [0 .. Len(steps) -> Nat]
    BY TimeAfterIs
  <2> HIDE DEF t
  <2>2. QED
    BY <1>1, <2>1
<1> HIDE DEF t
<1>3. u = [k \in 1 .. Len(steps) |->
             [time |-> t[k], type |-> steps[k].type, Mn |-> n, tag |-> steps[k].tag]]
  BY <1>1 DEF Stamped, t
<1> HIDE DEF u
<1>4. ASSUME NEW x \in Step, NEW a \in Nat
      PROVE  LET e == [time |-> a, type |-> x.type, Mn |-> n, tag |-> x.tag]
             IN  /\ e \in X /\ e.time = a
                 /\ e \in Entry <=> x \in Taken
                 /\ e \in Entry => e \in EntriesOf(n)
  <2> DEFINE e == [time |-> a, type |-> x.type, Mn |-> n, tag |-> x.tag]
  <2>1. e.time = a /\ e.type = x.type /\ e.Mn = n
    OBVIOUS
  <2>2. CASE x \in Taken
    <3>1. x.type \in Types /\ x.tag \in Tags
      BY <2>2 DEF Taken
    <3>2. e \in Entry /\ e \in X
      BY <3>1 DEF Entry
    <3>3. QED
      BY <2>1, <2>2, <3>2 DEF EntriesOf
  <2>3. CASE x \notin Taken
    <3>1. x.type = "none" /\ x.tag = "none"
      BY <2>3 DEF Step
    <3>2. e \in X
      BY <3>1
    <3>3. e \notin Entry
      BY <2>1, <3>1, NoneIsNoType DEF Entry
    <3>4. QED
      BY <2>1, <2>3, <3>2, <3>3
  <2>4. QED
    BY <2>2, <2>3
<1>5. \A k \in 1 .. Len(steps) :
        /\ u[k] \in X /\ u[k].time = t[k]
        /\ u[k] \in Entry <=> steps[k] \in Taken
        /\ u[k] \in Entry => u[k] \in EntriesOf(n)
  <2> HIDE DEF X
  <2>1. ASSUME NEW k \in 1 .. Len(steps)
        PROVE  /\ u[k] \in X /\ u[k].time = t[k]
               /\ u[k] \in Entry <=> steps[k] \in Taken
               /\ u[k] \in Entry => u[k] \in EntriesOf(n)
    <3>1. u[k] = [time |-> t[k], type |-> steps[k].type, Mn |-> n, tag |-> steps[k].tag]
      BY <1>3
    <3>2. steps[k] \in Step /\ t[k] \in Nat
      BY <1>1, <1>2
    <3>3. QED
      BY <1>4, <3>1, <3>2
  <2>2. QED
    BY <2>1
<1> HIDE DEF X
<1>6. u \in Seq(X) /\ Len(u) = Len(steps)
  <2>1. u \in [1 .. Len(steps) -> X]
    BY <1>3, <1>5
  <2>2. QED
    BY <1>1, <2>1
<1>7. QED
  BY <1>5, <1>6 DEF u, t

\* As many as there are samples, all of Mn, one after the other.
LEMMA StampedSelected ==
  ASSUME timer \in Nat, NEW steps \in Seq(Step), NEW n \in 0 .. 6
  PROVE  LET s == Selected(Stamped(n, steps), Entry)
             end == TimeAfter(steps)[Len(steps)]
         IN  /\ s \in Seq(EntriesOf(n))
             /\ Len(s) = Len(Selected(steps, Taken))
             /\ end \in Nat /\ timer <= end
             /\ Rising(s, timer, end)
<1> DEFINE u == Stamped(n, steps)
           t == TimeAfter(steps)
           N == Len(steps)
           g == SelectedUpTo(u, Entry)
           h == SelectedUpTo(steps, Taken)
           E == EntriesOf(n)
<1>1. PICK X : /\ u \in Seq(X) /\ Len(u) = N
               /\ \A k \in 1 .. N : /\ u[k].time = t[k]
                                    /\ u[k] \in Entry <=> steps[k] \in Taken
                                    /\ u[k] \in Entry => u[k] \in E
  <2> HIDE DEF E
  <2>1. QED
    BY StampedIs DEF E
<1>2. /\ \A k \in 0 .. N : t[k] \in Nat
      /\ t[0] = timer
      /\ \A k \in 1 .. N : steps[k].time \in Nat \ {0} /\ t[k] = t[k - 1] + steps[k].time
  BY TimeAfterIs
<1>3. N \in Nat
  OBVIOUS
<1> HIDE DEF u, t
<1>4. /\ g[0] = << >> /\ h[0] = << >>
      /\ \A k \in 0 .. N : h[k] \in Seq(Step)
      /\ \A k \in 1 .. N : g[k] = IF u[k] \in Entry THEN Append(g[k - 1], u[k]) ELSE g[k - 1]
      /\ \A k \in 1 .. N : h[k] = IF steps[k] \in Taken THEN Append(h[k - 1], steps[k])
                                                       ELSE h[k - 1]
  BY <1>1, SelectedUpToIs
<1>5. /\ Selected(u, Entry) = g[N] /\ Selected(steps, Taken) = h[N]
  BY <1>1 DEF Selected
<1> HIDE DEF g, h, N
<1> DEFINE P == {k \in Nat : k <= N =>
                   /\ g[k] \in Seq(E) /\ Len(g[k]) = Len(h[k])
                   /\ timer <= t[k] /\ Rising(g[k], timer, t[k])}
<1>6. 0 \in P
  <2>1. g[0] \in Seq(E) /\ Len(g[0]) = 0 /\ Len(h[0]) = 0 /\ timer <= t[0]
    BY <1>2, <1>4
  <2>2. Rising(g[0], timer, t[0])
    BY <2>1 DEF Rising
  <2>3. QED
    BY <2>1, <2>2
<1>7. ASSUME NEW k \in Nat, k \in P PROVE k + 1 \in P
  <2> DEFINE r == g[k]
             x == u[k + 1]
             b == t[k + 1]
             q == h[k]
             y == steps[k + 1]
  <2>1. SUFFICES ASSUME k + 1 <= N
                 PROVE  /\ g[k + 1] \in Seq(E) /\ Len(g[k + 1]) = Len(h[k + 1])
                        /\ timer <= b /\ Rising(g[k + 1], timer, b)
    OBVIOUS
  <2>2. k + 1 \in 1 .. N /\ (k + 1) - 1 = k /\ k \in 0 .. N /\ k + 1 \in 0 .. N
    BY <1>3, <2>1
  <2>3. r \in Seq(E) /\ Len(r) = Len(q) /\ timer <= t[k] /\ Rising(r, timer, t[k])
    BY <1>7, <2>2
  <2>4. t[k] \in Nat /\ b \in Nat /\ t[k] < b /\ timer <= b /\ timer \in Int
    <3>1. t[k] \in Nat /\ b \in Nat
      BY <1>2, <2>2
    <3>2. steps[k + 1].time \in Nat \ {0} /\ b = t[k] + steps[k + 1].time
      BY <1>2, <2>2
    <3> HIDE DEF b, r
    <3>3. QED
      BY <2>3, <3>1, <3>2
  <2>5. /\ g[k + 1] = IF x \in Entry THEN Append(r, x) ELSE r
        /\ h[k + 1] = IF y \in Taken THEN Append(q, y) ELSE q
        /\ q \in Seq(Step) /\ y \in Step
    BY <1>4, <2>2 DEF N
  <2>6. x.time = b /\ (x \in Entry <=> y \in Taken) /\ (x \in Entry => x \in E)
    BY <1>1, <2>2
  <2>7. E \subseteq Entry /\ r \in Seq(Entry)
    <3>1. E \subseteq Entry
      BY DEF EntriesOf
    <3> HIDE DEF E, r
    <3>2. QED
      BY <2>3, <3>1
  <2> HIDE DEF E, r, x, b, q, y
  <2>8. CASE x \in Entry
    <3>1. Append(r, x) \in Seq(E) /\ Len(Append(r, x)) = Len(r) + 1
      BY <2>3, <2>6, <2>8
    <3>2. Len(Append(q, y)) = Len(q) + 1
      BY <2>5
    <3>3. Rising(Append(r, x), timer, x.time)
      BY <2>3, <2>4, <2>6, <2>7, <2>8, RisingAppend
    <3>4. g[k + 1] = Append(r, x) /\ h[k + 1] = Append(q, y)
      BY <2>5, <2>6, <2>8
    <3>5. QED
      BY ONLY <2>3, <2>4, <2>6, <3>1, <3>2, <3>3, <3>4
  <2>9. CASE x \notin Entry
    <3>1. Rising(r, timer, b)
      <4>1. t[k] \in Int /\ b \in Int /\ t[k] <= b
        BY <2>4
      <4>2. QED
        BY <2>3, <2>4, <2>7, <4>1, RisingWiden
    <3>2. g[k + 1] = r /\ h[k + 1] = q
      BY <2>5, <2>6, <2>9
    <3>3. QED
      BY ONLY <2>3, <2>4, <3>1, <3>2
  <2>10. QED
    BY <2>8, <2>9
<1>8. N \in P
  <2> HIDE DEF P
  <2>1. QED
    BY <1>3, <1>6, <1>7, NatInduct
<1>9. N \in 0 .. N
  BY <1>3
<1>10. /\ g[N] \in Seq(E) /\ Len(g[N]) = Len(h[N])
       /\ t[N] \in Nat /\ timer <= t[N] /\ Rising(g[N], timer, t[N])
  BY <1>2, <1>8, <1>9
<1>11. QED
  BY ONLY <1>5, <1>10 DEF u, t, N, E

-----------------------------------------------------------------------------
(* What an action adds to the FIFO.                                        *)

\* The entries of Mn in the FIFO.
Entered(n) == Len(Selected(output_list, EntriesOf(n)))

\* The FIFO is in the order of time, and the clock not behind it.
InOrder == /\ timer \in Nat
           /\ output_list \in Seq(Entry)
           /\ Rising(output_list, -1, timer)

\* Mn enters its words, after all that is there.
LEMMA EntriesMeasured ==
  ASSUME reg_data \in Registers, InOrder, NEW n \in 0 .. 6, Measure(n)
  PROVE  /\ InOrder'
         /\ \A m \in 0 .. 6 :
              Entered(m)' = Entered(m) + (IF m = n THEN Words(n) ELSE 0)
         /\ Words(n) \in Nat
<1> DEFINE steps == Steps(n)
           s == Selected(Stamped(n, steps), Entry)
           end == TimeAfter(steps)[Len(steps)]
<1>1. timer' = end /\ output_list' = output_list \o s
  BY DEF Measure
<1>2. steps \in Seq(Step) /\ Len(Selected(steps, Taken)) = Words(n)
  BY StepsCount DEF Counts
<1>3. timer \in Nat /\ output_list \in Seq(Entry) /\ Rising(output_list, -1, timer)
  BY DEF InOrder
<1>4. /\ s \in Seq(EntriesOf(n)) /\ Len(s) = Words(n)
      /\ end \in Nat /\ timer <= end /\ Rising(s, timer, end)
  <2> HIDE DEF steps
  <2>1. QED
    BY <1>2, <1>3, StampedSelected
<1> HIDE DEF s, end, steps
<1>5. \A m : EntriesOf(m) \subseteq Entry
  BY DEF EntriesOf
<1>6. s \in Seq(Entry)
  BY <1>4, <1>5
<1>7. InOrder'
  <2>1. output_list \o s \in Seq(Entry)
    BY <1>3, <1>6
  <2>2. Rising(output_list \o s, -1, end)
    <3>1. -1 \in Int /\ timer \in Int /\ end \in Int /\ -1 <= timer
      BY <1>3, <1>4
    <3>2. QED
      BY <1>3, <1>4, <1>6, <3>1, RisingConcat
  <2>3. QED
    BY <1>1, <1>4, <2>1, <2>2 DEF InOrder
<1>8. ASSUME NEW m \in 0 .. 6
      PROVE  Entered(m)' = Entered(m) + (IF m = n THEN Words(n) ELSE 0)
  <2> DEFINE E == EntriesOf(m)
  <2>1. Selected(output_list \o s, E) = Selected(output_list, E) \o Selected(s, E)
    BY <1>3, <1>6, SelectedConcat
  <2>2. Selected(output_list, E) \in Seq(Entry) /\ Selected(s, E) \in Seq(Entry)
    BY <1>3, <1>6, SelectedTyped
  <2>3. Len(Selected(s, E)) = IF m = n THEN Words(n) ELSE 0
    <3>1. CASE m = n
      <4>1. Selected(s, E) = s
        BY <1>4, <3>1, SelectedAll
      <4>2. QED
        BY <1>4, <3>1, <4>1
    <3>2. CASE m # n
      <4>1. EntriesOf(n) \cap E = {}
        BY <3>2 DEF EntriesOf
      <4> HIDE DEF E
      <4>2. Selected(s, E) = << >>
        BY <1>4, <4>1, SelectedNone
      <4>3. QED
        BY <3>2, <4>2
    <3>3. QED
      BY <3>1, <3>2
  <2>4. Entered(m)' = Len(Selected(output_list \o s, E))
    BY <1>1 DEF Entered
  <2>5. Entered(m) = Len(Selected(output_list, E))
    BY DEF Entered
  <2> DEFINE a == Selected(output_list, E)
             b == Selected(s, E)
  <2>6. Len(a \o b) = Len(a) + Len(b)
    <3> HIDE DEF a, b
    <3>1. QED
      BY <2>2 DEF a, b
  <2>7. QED
    BY ONLY <2>1, <2>3, <2>4, <2>5, <2>6 DEF a, b
<1>9. Words(n) \in Nat
  BY <1>4, <1>6
<1>10. QED
  BY <1>7, <1>8, <1>9

\* Time goes on, and nothing is entered.
LEMMA EntriesKept ==
  ASSUME InOrder, output_list' = output_list, timer' \in Nat, timer <= timer'
  PROVE  InOrder' /\ \A m \in 0 .. 6 : Entered(m)' = Entered(m)
<1>1. \A m : Entered(m)' = Entered(m)
  BY DEF Entered
<1>2. timer \in Nat /\ output_list \in Seq(Entry) /\ Rising(output_list, -1, timer)
  BY DEF InOrder
<1>3. -1 \in Int /\ timer \in Int /\ timer' \in Int
  BY <1>2
<1>4. Rising(output_list, -1, timer')
  BY <1>2, <1>3, RisingWiden
<1>5. QED
  BY <1>1, <1>2, <1>4 DEF InOrder

\* The end of a frame is later.
LEMMA FrameEnds ==
  ASSUME reg_data \in Registers, timer \in Nat, EndOfFrame
  PROVE  timer' \in Nat /\ timer <= timer'
<1> DEFINE r == timer % SSP
<1>1. SSP \in Nat \ {0}
  BY Modes
<1>2. r \in 0 .. SSP - 1
  BY <1>1, DivMod
<1>3. timer' = timer + (SSP - r)
  BY DEF EndOfFrame
<1> HIDE DEF r
<1>4. QED
  BY <1>1, <1>2, <1>3

-----------------------------------------------------------------------------
(* The schedule.                                                           *)

\* Where in a sequence each phase can be.
Schedule ==
  /\ reg_data \in Registers
  /\ sample_counter \in Nat /\ sequences \in Nat /\ i \in 0 .. 6
  /\ phase = "manual" => AUTO_MODE = 0
  /\ phase \in {"sequence", "frame", "last"} => AUTO_MODE = 1
  /\ phase = "sequence" => i = 0 /\ sample_counter = 0
  /\ phase = "frame" => /\ i <= 4 /\ sample_counter <= SAMPLE_COUNT
                        /\ i > 0 => sample_counter < SAMPLE_COUNT
  /\ phase = "last" => i \in 4 .. 6 /\ sample_counter = SAMPLE_COUNT

\* The registers say the same as long as they hold the same.
LEMMA RegistersKept ==
  ASSUME reg_data' = reg_data
  PROVE  /\ AUTO_MODE' = AUTO_MODE /\ SEQ_RESTART' = SEQ_RESTART
         /\ SAMPLE_COUNT' = SAMPLE_COUNT
         /\ \A n : Mn_SRD(n)' = Mn_SRD(n)
         /\ \A n : Words(n)' = Words(n)
<1>1. /\ \A a : Reg(a)' = Reg(a)
      /\ \A a, unit, size : Field(a, unit, size)' = Field(a, unit, size)
  BY DEF Reg, Field
<1>2. /\ AUTO_MODE' = AUTO_MODE /\ SEQ_RESTART' = SEQ_RESTART
      /\ SAMPLE_COUNT' = SAMPLE_COUNT
  BY <1>1 DEF AUTO_MODE, SEQ_RESTART, SAMPLE_COUNT
<1>3. \A n : Mn_SRD(n)' = Mn_SRD(n)
  BY <1>1 DEF Mn_SRD
<1>4. \A n : Words(n)' = Words(n)
  BY <1>1 DEF Words, Meas, I_CONV_TYPE, ChronoWords, CHRONOA, CHRONOB, ChronoRegs,
              AfterPulse, AP_STEP, AP_REC, TEMP_PIN_SEL, VoltageWords
<1>5. QED
  BY <1>2, <1>3, <1>4

LEMMA ScheduleStarts == Init => Schedule
BY Modes DEF Init, Schedule

\* Every step keeps it.
LEMMA ScheduleKept ==
  ASSUME Schedule, [Next]_vars
  PROVE  Schedule'
<1>1. /\ reg_data \in Registers /\ sample_counter \in Nat /\ sequences \in Nat
      /\ i \in 0 .. 6 /\ SAMPLE_COUNT \in Nat
  BY Modes DEF Schedule
<1>2. reg_data' = reg_data
  BY DEF Next, vars, ManualMeasurement, BeginSequence, RestartingFrames, SingleFrames,
         FrameMeasurement, EndFrame, EndFrames, RestartingLast, SingleLast,
         LastMeasurement, EndSequence, CreateData, WriteLine
<1>3. AUTO_MODE' = AUTO_MODE /\ SAMPLE_COUNT' = SAMPLE_COUNT
  BY <1>2, RegistersKept
<1>4. CASE UNCHANGED vars
  BY <1>3, <1>4 DEF vars, Schedule
<1>5. CASE ManualMeasurement
  BY <1>1, <1>2, <1>3, <1>5 DEF ManualMeasurement, Schedule
<1>6. CASE BeginSequence
  BY <1>1, <1>2, <1>3, <1>6 DEF BeginSequence, Schedule
<1>7. CASE FrameMeasurement
  BY <1>1, <1>2, <1>3, <1>7 DEF FrameMeasurement, Schedule
<1>8. CASE EndFrame
  BY <1>1, <1>2, <1>3, <1>8 DEF EndFrame, Schedule
<1>9. CASE EndFrames
  BY <1>1, <1>2, <1>3, <1>9 DEF EndFrames, Schedule
<1>10. CASE LastMeasurement
  BY <1>1, <1>2, <1>3, <1>10 DEF LastMeasurement, Schedule
<1>11. CASE EndSequence
  BY <1>1, <1>2, <1>3, <1>11 DEF EndSequence, Schedule
<1>12. CASE CreateData
  BY <1>1, <1>2, <1>3, <1>12 DEF CreateData, Schedule
<1>13. CASE WriteLine
  BY <1>1, <1>2, <1>3, <1>13 DEF WriteLine, Schedule
<1>14. QED
  BY <1>4, <1>5, <1>6, <1>7, <1>8, <1>9, <1>10, <1>11, <1>12, <1>13
     DEF Next, RestartingFrames, SingleFrames, RestartingLast, SingleLast

-----------------------------------------------------------------------------
(* How often each measurement has run.                                     *)

\* Whole sequences, and the place of M4 and M5 after the last frame.
Full(n) == SAMPLE_COUNT \div Mn_SRD(n)
Once(n) == IF (SAMPLE_COUNT + 1) % Mn_SRD(n) = 0 THEN 1 ELSE 0

\* Times(n) in each phase of a sequence.
LEMMA TimesInSequence ==
  ASSUME Schedule, AUTO_MODE = 1, NEW n \in 0 .. 6
  PROVE  /\ n < 4 => Times(n) = (sequences * Full(n))
                        + (IF phase \in {"last", "frame"}
                           THEN Frames(n) \div Mn_SRD(n) ELSE 0)
         /\ n \in {4, 5} => Times(n) = (sequences * Once(n))
                        + (IF phase = "last" THEN Over(n) * Once(n) ELSE 0)
         /\ n = 6 => Times(n) = 0
BY DEF Times, Full, Once

LEMMA TimesInSequenceNext ==
  ASSUME Schedule, AUTO_MODE = 1, reg_data' = reg_data, NEW n \in 0 .. 6
  PROVE  /\ n < 4 => Times(n)' = (sequences' * Full(n))
                        + (IF phase' \in {"last", "frame"}
                           THEN Frames(n)' \div Mn_SRD(n) ELSE 0)
         /\ n \in {4, 5} => Times(n)' = (sequences' * Once(n))
                        + (IF phase' = "last" THEN Over(n)' * Once(n) ELSE 0)
         /\ n = 6 => Times(n)' = 0
<1>1. AUTO_MODE' = 1 /\ SAMPLE_COUNT' = SAMPLE_COUNT /\ Mn_SRD(n)' = Mn_SRD(n)
  BY RegistersKept
<1>2. QED
  BY <1>1 DEF Times, Full, Once

\* The numbers it is made of.
LEMMA TimesTyped ==
  ASSUME Schedule, NEW n \in 0 .. 6
  PROVE  /\ Full(n) \in Nat /\ Once(n) \in 0 .. 1 /\ Over(n) \in 0 .. 1
         /\ Frames(n) \in Nat /\ Times(n) \in Nat
<1>1. /\ SAMPLE_COUNT \in Nat /\ Mn_SRD(n) \in Nat \ {0} /\ AUTO_MODE \in 0 .. 1
      /\ sequences \in Nat /\ sample_counter \in Nat
  BY Modes, Settings DEF Schedule
<1>2. Full(n) \in Nat
  BY <1>1, DivMod DEF Full
<1>3. Once(n) \in 0 .. 1 /\ Over(n) \in 0 .. 1 /\ Frames(n) \in Nat
  BY <1>1 DEF Once, Over, Frames
<1>4. Frames(n) \div Mn_SRD(n) \in Nat
  BY <1>1, <1>3, DivMod
<1>5. \A x, y \in Nat : x * y \in Nat
  OBVIOUS
<1>6. Over(n) \in Nat /\ Once(n) \in Nat
  BY <1>3
<1>7. /\ sequences * Full(n) \in Nat /\ sequences * Once(n) \in Nat
      /\ Over(n) * Once(n) \in Nat
  BY <1>1, <1>2, <1>5, <1>6
<1>8. Times(n) \in Nat
  <2>1. CASE AUTO_MODE = 0
    BY <1>6, <2>1 DEF Times
  <2>2. CASE AUTO_MODE = 1
    <3> DEFINE a == sequences * Full(n)
               b == sequences * Once(n)
               c == Over(n) * Once(n)
               d == Frames(n) \div Mn_SRD(n)
    <3>1. a \in Nat /\ b \in Nat /\ c \in Nat /\ d \in Nat
      BY <1>4, <1>7
    <3>2. /\ n < 4 => Times(n) = a + (IF phase \in {"last", "frame"} THEN d ELSE 0)
          /\ n \in {4, 5} => Times(n) = b + (IF phase = "last" THEN c ELSE 0)
          /\ n = 6 => Times(n) = 0
      BY <2>2, TimesInSequence
    <3> HIDE DEF a, b, c, d
    <3>3. n < 4 \/ n \in {4, 5} \/ n = 6
      OBVIOUS
    <3>4. QED
      BY <3>1, <3>2, <3>3
  <2>3. QED
    BY <1>1, <2>1, <2>2
<1>9. QED
  BY <1>2, <1>3, <1>8

\* In the manual mode.
LEMMA TimesManual ==
  ASSUME Schedule, ManualMeasurement, NEW m \in 0 .. 6
  PROVE  Times(m)' = Times(m) + (IF m = i THEN 1 ELSE 0)
<1>1. AUTO_MODE = 0 /\ AUTO_MODE' = 0 /\ i \in 0 .. 6 /\ phase = "manual"
  BY RegistersKept DEF Schedule, ManualMeasurement
<1>2. Times(m) = IF m < i THEN 1 ELSE 0
  BY <1>1 DEF Times, Over
<1>3. Times(m)' = IF i = 6 \/ m < i + 1 THEN 1 ELSE 0
  BY <1>1 DEF Times, Over, ManualMeasurement
<1>4. QED
  BY <1>1, <1>2, <1>3

\* In a frame: Frames(m) goes from one frame to the next.
LEMMA TimesInFrame ==
  ASSUME Schedule, FrameMeasurement, NEW m \in 0 .. 6
  PROVE  Times(m)' = Times(m) + (IF m = i /\ InTurn(i) THEN 1 ELSE 0)
<1>1. /\ AUTO_MODE = 1 /\ phase = "frame" /\ phase' = "frame" /\ i \in 0 .. 3 /\ i' = i + 1
      /\ sample_counter' = sample_counter /\ sequences' = sequences /\ reg_data' = reg_data
      /\ reg_data \in Registers /\ sample_counter \in Nat
  BY DEF Schedule, FrameMeasurement
<1> DEFINE S == Mn_SRD(m)
           a == sequences * Full(m)
           d == sample_counter \div S
           e == (sample_counter + 1) \div S
           turn == IF (sample_counter + 1) % S = 0 THEN 1 ELSE 0
<1>2. /\ m < 4 => Times(m) = a + (Frames(m) \div S) /\ Times(m)' = a + (Frames(m)' \div S)
      /\ m \in {4, 5} => Times(m)' = (sequences * Once(m)) + 0 /\ Times(m) = (sequences * Once(m)) + 0
      /\ m = 6 => Times(m)' = 0 /\ Times(m) = 0
  BY <1>1, TimesInSequence, TimesInSequenceNext
<1>3. /\ Frames(m) = IF m < i THEN sample_counter + 1 ELSE sample_counter
      /\ Frames(m)' = IF m < i + 1 THEN sample_counter + 1 ELSE sample_counter
  BY <1>1 DEF Frames
<1>4. S \in Nat \ {0}
  BY <1>1, Settings
<1>5. e = d + turn
  BY <1>1, <1>4, QuotientNext
<1>6. d \in Nat
  BY <1>1, <1>4, DivMod
<1>7. a \in Nat
  <2>1. Full(m) \in Nat /\ sequences \in Nat
    BY TimesTyped DEF Schedule
  <2>2. QED
    BY <2>1
<1>8. turn = IF InTurn(m) THEN 1 ELSE 0
  BY DEF InTurn
<1>9. Times(m) \in Nat
  BY TimesTyped
<1> HIDE DEF S, a, d, e, turn
<1>10. CASE m < 4
  <2>1. /\ Times(m) = a + (IF m < i THEN e ELSE d)
        /\ Times(m)' = a + (IF m < i + 1 THEN e ELSE d)
    BY <1>2, <1>3, <1>10 DEF d, e
  <2>2. CASE m = i
    <3>1. Times(m) = a + d /\ Times(m)' = a + e
      BY <1>1, <2>1, <2>2
    <3>2. turn = IF InTurn(i) THEN 1 ELSE 0
      BY <1>8, <2>2
    <3>3. QED
      BY <1>5, <1>6, <1>7, <2>2, <3>1, <3>2
  <2>3. CASE m # i
    BY <1>1, <1>5, <1>6, <1>7, <1>9, <2>1, <2>3
  <2>4. QED
    BY <2>2, <2>3
<1>11. CASE m \in {4, 5, 6}
  <2>1. Times(m)' = Times(m) /\ m # i
    BY <1>1, <1>2, <1>11
  <2>2. QED
    BY <1>9, <2>1
<1>12. QED
  BY <1>10, <1>11

\* After the last frame.
LEMMA TimesLast ==
  ASSUME Schedule, LastMeasurement, NEW m \in 0 .. 6
  PROVE  Times(m)' = Times(m) + (IF m = i /\ InTurn(i) THEN 1 ELSE 0)
<1>1. /\ AUTO_MODE = 1 /\ phase = "last" /\ phase' = "last" /\ i \in {4, 5} /\ i' = i + 1
      /\ sample_counter = SAMPLE_COUNT
      /\ sample_counter' = sample_counter /\ sequences' = sequences /\ reg_data' = reg_data
  BY DEF Schedule, LastMeasurement
<1> DEFINE S == Mn_SRD(m)
           a == sequences * Full(m)
           b == sequences * Once(m)
<1>2. /\ m < 4 => Times(m) = a + (Frames(m) \div S) /\ Times(m)' = a + (Frames(m)' \div S)
      /\ m \in {4, 5} => Times(m) = b + (Over(m) * Once(m)) /\ Times(m)' = b + (Over(m)' * Once(m))
      /\ m = 6 => Times(m)' = 0 /\ Times(m) = 0
  BY <1>1, TimesInSequence, TimesInSequenceNext
<1>3. Frames(m)' = Frames(m)
  BY <1>1 DEF Frames
<1>4. Over(m) = (IF m < i THEN 1 ELSE 0) /\ Over(m)' = IF m < i + 1 THEN 1 ELSE 0
  BY <1>1 DEF Over
<1>5. Once(m) \in 0 .. 1 /\ Times(m) \in Nat
  BY TimesTyped
<1>6. Once(m) = IF InTurn(m) THEN 1 ELSE 0
  BY <1>1 DEF Once, InTurn
<1>7. b \in Nat
  <2>1. Once(m) \in Nat /\ sequences \in Nat
    BY <1>5 DEF Schedule
  <2>2. QED
    BY <2>1
<1> HIDE DEF S, a, b
<1>8. CASE m = i
  <2>1. Times(m) = b + (0 * Once(m)) /\ Times(m)' = b + (1 * Once(m))
    BY <1>1, <1>2, <1>4, <1>8
  <2>2. 0 * Once(m) = 0 /\ 1 * Once(m) = Once(m)
    BY <1>5
  <2>3. Once(m) = IF InTurn(i) THEN 1 ELSE 0
    BY <1>6, <1>8
  <2>4. QED
    BY <1>7, <1>8, <2>1, <2>2, <2>3
<1>9. CASE m # i
  <2>1. Over(m)' = Over(m)
    BY <1>1, <1>4, <1>9
  <2>2. Times(m)' = Times(m)
    BY <1>2, <1>3, <2>1
  <2>3. QED
    BY <1>5, <1>9, <2>2
<1>10. QED
  BY <1>8, <1>9

\* The other steps: a sequence begins with no frames, and its frames are
\* counted in `sequences` when it ends.
LEMMA TimesKept ==
  ASSUME Schedule, NEW m \in 0 .. 6,
         \/ BeginSequence \/ EndFrame \/ EndFrames \/ EndSequence
         \/ CreateData \/ WriteLine \/ UNCHANGED vars
  PROVE  Times(m)' = Times(m)
<1> DEFINE S == Mn_SRD(m)
           a == sequences * Full(m)
           b == sequences * Once(m)
<1>1. /\ reg_data' = reg_data /\ reg_data \in Registers /\ sequences \in Nat
      /\ sample_counter \in Nat /\ AUTO_MODE \in 0 .. 1
  BY Modes DEF Schedule, vars, BeginSequence, EndFrame, EndFrames, EndSequence,
               CreateData, WriteLine
<1>2. AUTO_MODE' = AUTO_MODE /\ SAMPLE_COUNT' = SAMPLE_COUNT /\ S' = S
  BY <1>1, RegistersKept
<1>3. Full(m) \in Nat /\ Once(m) \in 0 .. 1 /\ Frames(m) \in Nat /\ S \in Nat \ {0}
  BY <1>1, TimesTyped, Settings
<1>4. a \in Nat /\ b \in Nat
  <2>1. Once(m) \in Nat
    BY <1>3
  <2>2. QED
    BY <1>1, <1>3, <2>1
<1>5. AUTO_MODE = 1 =>
        /\ m < 4 => /\ Times(m) = a + (IF phase \in {"last", "frame"}
                                       THEN Frames(m) \div S ELSE 0)
                    /\ Times(m)' = (sequences' * Full(m))
                                      + (IF phase' \in {"last", "frame"}
                                         THEN Frames(m)' \div S ELSE 0)
        /\ m \in {4, 5} => /\ Times(m) = b + (IF phase = "last" THEN Over(m) * Once(m) ELSE 0)
                           /\ Times(m)' = (sequences' * Once(m))
                                 + (IF phase' = "last" THEN Over(m)' * Once(m) ELSE 0)
        /\ m = 6 => Times(m) = 0 /\ Times(m)' = 0
  BY <1>1, TimesInSequence, TimesInSequenceNext
<1>6. 0 \div S = 0
  BY <1>3, ZeroQuotient
<1>7. m < 4 \/ m \in {4, 5} \/ m = 6
  OBVIOUS
<1>8. CASE BeginSequence
  <2>1. /\ AUTO_MODE = 1 /\ phase = "sequence" /\ i = 0 /\ sample_counter = 0
        /\ phase' \in {"frame", "data"} /\ i' = i /\ sample_counter' = sample_counter
        /\ sequences' = sequences
    BY <1>8 DEF Schedule, BeginSequence
  <2>2. Frames(m)' = 0
    BY <2>1 DEF Frames
  <2>3. phase \notin {"last", "frame"} /\ phase # "last" /\ phase' # "last"
    BY <2>1
  <2> HIDE DEF S, a, b
  <2>4. m < 4 => Times(m) = a + 0 /\ Times(m)' = a + 0
    BY <1>5, <1>6, <2>1, <2>2, <2>3 DEF a
  <2>5. m \in {4, 5} => Times(m) = b + 0 /\ Times(m)' = b + 0
    BY <1>5, <2>1, <2>3 DEF b
  <2>6. m = 6 => Times(m) = Times(m)'
    BY <1>5, <2>1
  <2>7. QED
    BY ONLY <1>7, <2>4, <2>5, <2>6
<1>9. CASE EndFrame
  <2>1. /\ AUTO_MODE = 1 /\ phase = "frame" /\ phase' = "frame" /\ i = 4 /\ i' = 0
        /\ sample_counter' = sample_counter + 1 /\ sequences' = sequences
    BY <1>9 DEF Schedule, EndFrame
  <2>2. m < 4 => Frames(m)' = Frames(m)
    BY <2>1 DEF Frames
  <2>3. QED
    BY <1>5, <1>7, <2>1, <2>2
<1>10. CASE EndFrames
  <2>1. /\ AUTO_MODE = 1 /\ phase = "frame" /\ phase' = "last" /\ i = 0 /\ i' = 4
        /\ sample_counter' = sample_counter /\ sequences' = sequences
    BY <1>10 DEF Schedule, EndFrames
  <2>2. Frames(m)' = Frames(m) /\ (m \in {4, 5} => Over(m)' = 0)
    BY <2>1 DEF Frames, Over
  <2>3. 0 * Once(m) = 0
    BY <1>3
  <2> HIDE DEF S, a, b
  <2>4. m < 4 => Times(m) = Times(m)'
    BY <1>5, <2>1, <2>2 DEF a
  <2>5. m \in {4, 5} => Times(m) = b + 0 /\ Times(m)' = b + 0
    BY <1>5, <2>1, <2>2, <2>3 DEF b
  <2>6. m = 6 => Times(m) = Times(m)'
    BY <1>5, <2>1
  <2>7. QED
    BY ONLY <1>7, <2>4, <2>5, <2>6
<1>11. CASE EndSequence
  <2>1. /\ AUTO_MODE = 1 /\ phase = "last" /\ i = 6 /\ sample_counter = SAMPLE_COUNT
        /\ phase' \in {"sequence", "data"} /\ sequences' = sequences + 1
    BY <1>11 DEF Schedule, EndSequence
  <2>2. Frames(m) \div S = Full(m)
    BY <2>1 DEF Frames, Full
  <2>3. m < 6 => Over(m) = 1
    BY <2>1 DEF Over
  <2>4. /\ (sequences + 1) * Full(m) = a + Full(m)
        /\ (sequences + 1) * Once(m) = b + Once(m)
        /\ 1 * Once(m) = Once(m)
    BY <1>1, <1>3
  <2>5. phase' \notin {"last", "frame"} /\ phase' # "last"
    BY <2>1
  <2> HIDE DEF S, a, b
  <2>6. m < 4 => Times(m) = a + Full(m) /\ Times(m)' = (a + Full(m)) + 0
    BY <1>5, <2>1, <2>2, <2>4, <2>5
  <2>7. m \in {4, 5} => Times(m) = b + Once(m) /\ Times(m)' = (b + Once(m)) + 0
    BY <1>5, <2>1, <2>3, <2>4, <2>5
  <2>8. m = 6 => Times(m) = Times(m)'
    BY <1>5, <2>1
  <2>9. Once(m) \in Nat
    BY <1>3
  <2>10. QED
    BY ONLY <1>3, <1>4, <1>7, <2>6, <2>7, <2>8, <2>9
<1>12. CASE CreateData \/ WriteLine
  <2>1. /\ phase \in {"data", "writing"} /\ phase' \in {"data", "writing", "written", "failed"}
        /\ sequences' = sequences
    BY <1>12 DEF CreateData, WriteLine
  <2>2. /\ phase # "manual" /\ phase' # "manual" /\ phase # "last" /\ phase' # "last"
        /\ phase # "frame" /\ phase' # "frame"
    BY <2>1
  <2>3. CASE AUTO_MODE = 0
    BY <1>2, <2>2, <2>3 DEF Times
  <2>4. CASE AUTO_MODE = 1
    <3>1. m < 4 => Times(m) = Times(m)'
      BY <1>5, <2>1, <2>2, <2>4
    <3>2. m \in {4, 5} => Times(m) = Times(m)'
      BY <1>5, <2>1, <2>2, <2>4
    <3>3. QED
      BY <1>5, <1>7, <2>4, <3>1, <3>2
  <2>5. QED
    BY <1>1, <2>3, <2>4
<1>13. CASE UNCHANGED vars
  BY <1>2, <1>13 DEF vars, Times, Frames, Over
<1>14. QED
  BY <1>8, <1>9, <1>10, <1>11, <1>12, <1>13

-----------------------------------------------------------------------------
(* The inductive invariant.                                                *)

\* Each measurement has entered its words as often as it has run.
Configured == \A m \in 0 .. 6 : Entered(m) = Times(m) * Words(m)

ScheduleInv == Schedule /\ InOrder /\ Configured

\* A measurement that is one more time over, and has entered its words.
LEMMA ConfiguredMeasured ==
  ASSUME ScheduleInv, reg_data' = reg_data, NEW n \in 0 .. 6, Measure(n),
         \A m \in 0 .. 6 : Times(m)' = Times(m) + (IF m = n THEN 1 ELSE 0)
  PROVE  InOrder' /\ Configured'
<1>1. /\ InOrder'
      /\ \A m \in 0 .. 6 : Entered(m)' = Entered(m) + (IF m = n THEN Words(n) ELSE 0)
      /\ Words(n) \in Nat
  BY EntriesMeasured DEF ScheduleInv, Schedule
<1>2. ASSUME NEW m \in 0 .. 6 PROVE Entered(m)' = Times(m)' * Words(m)'
  <2>1. /\ Entered(m) = Times(m) * Words(m) /\ Times(m) \in Nat
        /\ Words(m)' = Words(m) /\ Entered(m) \in Nat
    <3>1. Times(m) \in Nat
      BY TimesTyped DEF ScheduleInv
    <3>2. Entered(m) \in Nat
      <4>1. Selected(output_list, EntriesOf(m)) \in Seq(Entry)
        BY SelectedTyped DEF ScheduleInv, InOrder
      <4>2. QED
        BY <4>1 DEF Entered
    <3>3. QED
      BY <3>1, <3>2, RegistersKept DEF ScheduleInv, Configured
  <2>2. CASE m = n
    <3> DEFINE x == Times(m)
               w == Words(m)
    <3>1. x \in Nat /\ w \in Nat /\ Entered(m) = x * w
      BY <1>1, <2>1, <2>2
    <3>2. Times(m)' = x + 1 /\ Entered(m)' = (x * w) + w /\ Words(m)' = w
      BY <1>1, <2>1, <2>2
    <3> HIDE DEF x, w
    <3>3. (x + 1) * w = (x * w) + w
      BY <3>1
    <3>4. QED
      BY ONLY <3>2, <3>3
  <2>3. CASE m # n
    <3>1. Times(m)' = Times(m) /\ Entered(m)' = Entered(m)
      BY <1>1, <2>1, <2>3
    <3>2. QED
      BY ONLY <2>1, <3>1
  <2>4. QED
    BY <2>2, <2>3
<1>3. QED
  BY <1>1, <1>2 DEF Configured

\* Nothing is entered, and nothing is over.
LEMMA ConfiguredKept ==
  ASSUME ScheduleInv, reg_data' = reg_data, output_list' = output_list,
         timer' \in Nat, timer <= timer',
         \A m \in 0 .. 6 : Times(m)' = Times(m)
  PROVE  InOrder' /\ Configured'
<1>1. InOrder' /\ \A m \in 0 .. 6 : Entered(m)' = Entered(m)
  BY EntriesKept DEF ScheduleInv
<1>2. \A m \in 0 .. 6 : Words(m)' = Words(m)
  BY RegistersKept
<1>3. QED
  BY <1>1, <1>2 DEF ScheduleInv, Configured

\* One of M0 to M5 in a frame, when it is its turn.
LEMMA ConfiguredInTurn ==
  ASSUME ScheduleInv, reg_data' = reg_data, i \in 0 .. 6, MeasureInTurn(i),
         \A m \in 0 .. 6 :
            Times(m)' = Times(m) + (IF m = i /\ InTurn(i) THEN 1 ELSE 0)
  PROVE  InOrder' /\ Configured'
<1>1. CASE InTurn(i) /\ Measure(i)
  <2>1. \A m \in 0 .. 6 : Times(m)' = Times(m) + (IF m = i THEN 1 ELSE 0)
    BY <1>1
  <2>2. QED
    BY <1>1, <2>1, ConfiguredMeasured
<1>2. CASE ~ InTurn(i) /\ UNCHANGED <<timer, output_list>>
  <2>1. \A m \in 0 .. 6 : Times(m)' = Times(m)
    <3>1. ASSUME NEW m \in 0 .. 6 PROVE Times(m) \in Nat /\ Times(m)' = Times(m) + 0
      BY <1>2, TimesTyped DEF ScheduleInv
    <3>2. QED
      BY <3>1
  <2>2. timer' \in Nat /\ timer <= timer' /\ output_list' = output_list
    BY <1>2 DEF ScheduleInv, InOrder
  <2>3. QED
    BY <2>1, <2>2, ConfiguredKept
<1>3. QED
  BY <1>1, <1>2 DEF MeasureInTurn

LEMMA ScheduleInvStarts == Init => ScheduleInv
<1>1. SUFFICES ASSUME Init PROVE ScheduleInv
  OBVIOUS
<1>2. Schedule
  BY <1>1, ScheduleStarts
<1>3. timer = 0 /\ output_list = << >> /\ sequences = 0 /\ i = 0 /\ sample_counter = 0
      /\ phase = IF AUTO_MODE = 0 THEN "manual" ELSE "sequence"
  BY <1>1 DEF Init
<1>4. InOrder
  BY <1>3 DEF InOrder, Rising
<1>5. ASSUME NEW m \in 0 .. 6 PROVE Entered(m) = Times(m) * Words(m)
  <2>1. Entered(m) = 0
    BY <1>3, SelectedEmpty DEF Entered
  <2>2. Words(m) \in Nat
    <3>1. Selected(Steps(m), Taken) \in Seq(Step) /\ Len(Selected(Steps(m), Taken)) = Words(m)
      BY <1>2, StepsCount, SelectedTyped DEF Schedule, Counts
    <3>2. QED
      BY <3>1
  <2>3. Times(m) = 0
    <3>1. CASE AUTO_MODE = 0
      BY <1>3, <3>1 DEF Times, Over
    <3>2. CASE AUTO_MODE # 0
      <4>1. AUTO_MODE = 1 /\ Full(m) \in Nat /\ Once(m) \in Nat
        BY <1>2, <3>2, Modes, TimesTyped DEF Schedule
      <4>2. 0 * Full(m) = 0 /\ 0 * Once(m) = 0
        BY <4>1
      <4>3. phase = "sequence" /\ sequences = 0
        BY <1>3, <3>2
      <4>4. m < 4 \/ m \in {4, 5} \/ m = 6
        OBVIOUS
      <4>5. /\ m < 4 => Times(m) = (0 * Full(m)) + 0
            /\ m \in {4, 5} => Times(m) = (0 * Once(m)) + 0
            /\ m = 6 => Times(m) = 0
        BY <1>2, <4>1, <4>3, TimesInSequence
      <4>6. QED
        BY ONLY <4>2, <4>4, <4>5
    <3>3. QED
      BY <3>1, <3>2
  <2>4. QED
    BY <2>1, <2>2, <2>3
<1>6. QED
  BY <1>2, <1>4, <1>5 DEF ScheduleInv, Configured

LEMMA ScheduleInvKept == ScheduleInv /\ [Next]_vars => ScheduleInv'
<1>1. SUFFICES ASSUME ScheduleInv, [Next]_vars PROVE ScheduleInv'
  OBVIOUS
<1>2. Schedule'
  BY <1>1, ScheduleKept DEF ScheduleInv
<1>3. Schedule /\ reg_data \in Registers /\ i \in 0 .. 6 /\ timer \in Nat
  BY <1>1 DEF ScheduleInv, Schedule, InOrder
<1>4. CASE ManualMeasurement
  <2>1. reg_data' = reg_data /\ Measure(i)
    BY <1>4 DEF ManualMeasurement
  <2>2. QED
    BY <1>1, <1>2, <1>3, <1>4, <2>1, TimesManual, ConfiguredMeasured DEF ScheduleInv
<1>5. CASE FrameMeasurement
  <2>1. reg_data' = reg_data /\ MeasureInTurn(i)
    BY <1>5 DEF FrameMeasurement
  <2>2. QED
    BY <1>1, <1>2, <1>3, <1>5, <2>1, TimesInFrame, ConfiguredInTurn DEF ScheduleInv
<1>6. CASE LastMeasurement
  <2>1. reg_data' = reg_data /\ MeasureInTurn(i)
    BY <1>6 DEF LastMeasurement
  <2>2. QED
    BY <1>1, <1>2, <1>3, <1>6, <2>1, TimesLast, ConfiguredInTurn DEF ScheduleInv
<1>7. CASE \/ BeginSequence \/ EndFrame \/ EndFrames \/ EndSequence
           \/ CreateData \/ WriteLine \/ UNCHANGED vars
  <2>1. reg_data' = reg_data /\ output_list' = output_list
    BY <1>7 DEF vars, BeginSequence, EndFrame, EndFrames, EndSequence, CreateData, WriteLine
  <2>2. timer' = timer \/ EndOfFrame
    BY <1>7 DEF vars, BeginSequence, EndFrame, EndFrames, EndSequence, CreateData, WriteLine
  <2>3. timer' \in Nat /\ timer <= timer'
    BY <1>3, <2>2, FrameEnds
  <2>4. \A m \in 0 .. 6 : Times(m)' = Times(m)
    BY <1>3, <1>7, TimesKept
  <2>5. QED
    BY <1>1, <1>2, <2>1, <2>3, <2>4, ConfiguredKept DEF ScheduleInv
<1>8. QED
  BY <1>1, <1>4, <1>5, <1>6, <1>7
     DEF Next, RestartingFrames, SingleFrames, RestartingLast, SingleLast

\* The FIFO holds what the registers ask for, in the order of time: each
\* measurement has entered its words as often as its divider says, after any
\* number of frames and of sequences (EntriesAsConfigured).
THEOREM SamplesAlwaysAsConfigured == Spec => []EntriesAsConfigured
<1>1. ScheduleInv => EntriesAsConfigured
  <2>1. SUFFICES ASSUME ScheduleInv PROVE EntriesAsConfigured
    OBVIOUS
  <2>2. \A n \in 0 .. 6 : Len(Selected(output_list, EntriesOf(n))) = Times(n) * Words(n)
    BY <2>1 DEF ScheduleInv, Configured, Entered
  <2>3. output_list \in Seq(Entry) /\ Rising(output_list, -1, timer)
    BY <2>1 DEF ScheduleInv, InOrder
  <2>4. output_list # << >> => output_list[Len(output_list)].time <= timer
    <3>1. output_list # << >> => Len(output_list) \in 1 .. Len(output_list)
      BY <2>3
    <3>2. QED
      BY <2>3, <3>1 DEF Rising
  <2>5. QED
    BY <2>2, <2>3, <2>4 DEF Rising, EntriesAsConfigured
<1>2. QED
  BY <1>1, ScheduleInvStarts, ScheduleInvKept, PTL DEF Spec
=============================================================================
