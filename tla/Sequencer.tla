----------------------------- MODULE Sequencer -----------------------------
(***************************************************************************)
(* The MAX30123 demo, examples/spi-adi/Viser_max30123_Meas_Timing.py: from *)
(* the registers of the part, Sequencer() lists the samples that enter its *)
(* FIFO and when, create_Data() makes up a value for each, and the program *)
(* writes them to a file.                                                  *)
(*                                                                         *)
(*   reg_data        the registers, constant once the run has begun        *)
(*   timer           the time so far                                       *)
(*   output_list     the samples: [time, type, Mn, tag]                    *)
(*   sample_counter  the frames of this sequence that are over             *)
(*   i               the next measurement, M0 to M6                        *)
(*   phase           where the program is: "manual", "sequence" (the test  *)
(*                   of the outer loop), "frame" (M0 to M3), "last" (M4    *)
(*                   and M5), "data" (create_Data()), "writing" the file,  *)
(*                   and its end, "written" or "failed"                    *)
(*   sequences       the sequences that are over (a history variable)      *)
(*   data            what create_Data() has added to the samples           *)
(*   time            its local variable, the age of the pulse              *)
(*   lines           the lines written                                     *)
(*                                                                         *)
(* Time is counted in units of 0.1 microsecond, to which the conversion    *)
(* and the frame times are rounded.  Registers is the set of register      *)
(* contents to run with, each a function on the registers that are not 0;  *)
(* SetTime is set_time, 300 seconds in the code.                           *)
(***************************************************************************)
EXTENDS Integers, SequencesExt, Selection

CONSTANTS Registers, SetTime

\* The registers are read from a file of bytes.
ASSUME RegistersAssumption ==
    /\ \A regs \in Registers : \A a \in DOMAIN regs : regs[a] \in 0 .. 255
    /\ SetTime \in Nat

VARIABLES reg_data, timer, output_list, sample_counter, i, phase, sequences,
          data, time, lines

dataVars == <<data, time, lines>>
vars == <<reg_data, timer, output_list, sample_counter, i, phase, sequences,
          dataVars>>

-----------------------------------------------------------------------------
(* What the registers mean.                                                *)

Reg(a) == IF a \in DOMAIN reg_data THEN reg_data[a] ELSE 0

\* The field of register a whose lowest bit counts `unit`, with `size` values.
Field(a, unit, size) == (Reg(a) \div unit) % size
AtLeast(n, least) == IF n < least THEN least ELSE n
AtMost(n, most)   == IF n > most THEN most ELSE n

Tsetup == 10000
Tpre   == 25000
CONV_LIST == <<2000000, 1000000, 400000, 200000, 333300, 166700, 27600, 13800>>

AUTO_MODE    == Field(96, 2, 2)
SEQ_RESTART  == Field(96, 128, 2)
SAMPLE_COUNT == Reg(97)

\* The registers of CHRONO A begin at 0x37, those of CHRONO B at 0x3D.
ChronoRegs(base) ==
    [AUTO_SUBTRACT |-> Field(base, 8, 2),
     POST_PULSE_EN |-> Field(base, 32, 2),
     DELAY         |-> 248 * (Field(base, 1, 8) + 1),
     PRE           |-> Field(base, 64, 4) + 1,
     STEP          |-> Reg(base + 1) + 1,
     POST          |-> Reg(base + 2),
     BLANK         |-> Reg(base + 3) + 1,
     REPEAT        |-> Reg(base + 4) + 1]
CHRONOA == ChronoRegs(55)
CHRONOB == ChronoRegs(61)

AP_STEP == AtLeast(Reg(91), 2)
AP_REC  == AtLeast(Reg(92), 2)
TEMP_PIN_SEL == AtMost(Field(132, 1, 4), 2)

\* The voltages in the order they are measured: name, tag, register, the bit
\* that selects it, and what the code divides by.
Channel(type, tag, reg, bit, unit) ==
    [type |-> type, tag |-> tag, reg |-> reg, bit |-> bit, unit |-> unit]

Channels == << Channel("VREF/Switch", "1C", 134, 64, 64),
               Channel("Charge Pump", "1F", 134, 32, 32),
               Channel("VDD", "1D", 134, 16, 16),
               Channel("VREF/Switch", "1C", 134, 8, 8),
               Channel("VBAT", "1B", 134, 4, 4),
               Channel("GPIO2", "1A", 134, 1, 1),
               Channel("GPIO1", "19", 134, 2, 2),
               Channel("GR1", "17", 133, 64, 64),
               Channel("CE1", "15", 133, 16, 16),
               Channel("RE1", "13", 133, 8, 4),
               Channel("WE1", "11", 133, 1, 1) >>

\* One of the _VSEL fields.  The bit of RE1 is shifted by 2 and not by 3, so
\* that the field is 2 when it is set, and never 1.
VSEL(ch) == (Field(ch.reg, ch.bit, 2) * ch.bit) \div ch.unit

\* The Sequence Sample Period, AUTO_CLK_DIV periods of a clock of 32768 Hz.
SSP == (AtLeast(65536 * Reg(21) + 256 * Reg(22) + Reg(23), 128) * 78125) \div 256

\* Measurement Mn: what it measures, and in which frames (all, for M0).
Meas(n) == Field(98 + 2 * n, 32, 8)
Mn_SRD(n) == IF n = 0 THEN 1 ELSE Field(98 + 2 * n, 1, 32) + 1

PSTAT == 1  CHRONO_A == 2  CHRONO_B == 3  AP == 4  TEMPERATURE == 6  VOLTAGE == 7

\* How it converts: I_CONV_TYPE for currents, V_CONV_TYPE for voltages.
I_CONV_TYPE(n) == Field(112 + 2 * n, 64, 4)
V_CONV_TYPE(n) == Field(112 + 2 * n, 16, 2)
CONV_TIME(n) ==
    CONV_LIST[Field(112 + 2 * n, 1, 8) + 1] + Tpre
        + ((75 + AtMost(Reg(99 + 2 * n), 6)) * 78125) \div 256

-----------------------------------------------------------------------------
(* One measurement is a sequence of steps: each lets time pass, and may    *)
(* then put a sample into the FIFO.                                        *)

Sample(t, type, tag) == [time |-> t, type |-> type, tag |-> tag]
Wait(t) == Sample(t, "none", "none")

Repeat(n, steps) == FlattenSeq([k \in 1 .. n |-> steps])
Pause(n) == Tsetup + CONV_TIME(n)

\* PSTAT: offset and current apart take a second conversion.
Pstat(n) ==
    CASE I_CONV_TYPE(n) = 1 -> << Sample(Pause(n), "PSTAT", "0") >>
      [] I_CONV_TYPE(n) = 2 -> << Sample(Pause(n), "PSTAT", "0"),
                                  Sample(CONV_TIME(n), "PSTAT", "1") >>
      [] OTHER              -> << Sample(Pause(n), "PSTAT", "1") >>

\* CHRONO A and B: samples before, during and after a pulse, then a blank.
\* Those before it do not enter the FIFO when they are subtracted.
ChronoPulse(n, c, type) ==
    LET taken(tag) == << Sample(Pause(n), type, tag) >>
        quiet      == << Wait(Pause(n)) >>
        subtracted == c.AUTO_SUBTRACT = 1 /\ I_CONV_TYPE(n) = 3
        post       == CASE c.POST > 0 -> c.POST
                        [] c.POST = 0 /\ c.POST_PULSE_EN = 1 -> c.STEP
                        [] OTHER -> 0
    IN  Repeat(c.PRE, IF subtracted THEN quiet ELSE taken("2"))
          \o << Wait(c.DELAY) >>
          \o Repeat(c.STEP, taken("3"))
          \o << Wait(c.DELAY) >>
          \o Repeat(post, taken("4"))
          \o Repeat(c.BLANK, quiet)

Chrono(n, c, type) == Repeat(c.REPEAT, ChronoPulse(n, c, type))

\* Arbitrary pulse: steps and recovery, of each the first one is discarded;
\* signal and offset take two conversions.
ArbitraryPulse(n) ==
    LET both == I_CONV_TYPE(n) = 3
        part(count, tag) ==
            << Wait(IF both THEN Pause(n) + CONV_TIME(n) ELSE Pause(n)) >>
              \o Repeat(count - 1,
                        IF both THEN << Sample(Pause(n), "AP", "0"),
                                        Sample(CONV_TIME(n), "AP", tag) >>
                                ELSE << Sample(Pause(n), "AP", tag) >>)
    IN  part(AP_STEP, "3") \o part(AP_REC, "4")

\* Voltages convert offset and signal each time, or the offset only once.
OffsetOnce(n) == IF V_CONV_TYPE(n) = 0 THEN <<>> ELSE << Wait(Pause(n)) >>
SignalTime(n) == IF V_CONV_TYPE(n) = 0 THEN Pause(n) + CONV_TIME(n) ELSE Pause(n)

Temperature(n) ==
    OffsetOnce(n)
      \o Repeat(IF TEMP_PIN_SEL = 2 THEN 2 ELSE 1,
                << Sample(SignalTime(n), "TEMPERATURE", "1E") >>)

Voltage(n) ==
    OffsetOnce(n)
      \o LET on == Selected(Channels, {ch \in ToSet(Channels) : VSEL(ch) = 1})
         IN  [k \in DOMAIN on |-> Sample(SignalTime(n), on[k].type, on[k].tag)]

Steps(n) == CASE Meas(n) = PSTAT       -> Pstat(n)
              [] Meas(n) = CHRONO_A    -> Chrono(n, CHRONOA, "CHRONO A")
              [] Meas(n) = CHRONO_B    -> Chrono(n, CHRONOB, "CHRONO B")
              [] Meas(n) = AP          -> ArbitraryPulse(n)
              [] Meas(n) = TEMPERATURE -> Temperature(n)
              [] Meas(n) = VOLTAGE     -> Voltage(n)
              [] OTHER                 -> <<>>

\* The time after each of the steps, which begin now.
TimeAfter(steps) ==
    LET t[k \in 0 .. Len(steps)] == IF k = 0 THEN timer
                                    ELSE t[k - 1] + steps[k].time
    IN  t

Stamped(n, steps) ==
    [k \in DOMAIN steps |-> [time |-> TimeAfter(steps)[k], type |-> steps[k].type,
                             Mn |-> n, tag |-> steps[k].tag]]

\* What enters the FIFO: all that is not a mere wait.
Types == {"PSTAT", "CHRONO A", "CHRONO B", "AP", "TEMPERATURE"}
           \union {ch.type : ch \in ToSet(Channels)}
Tags  == {"0", "1", "2", "3", "4", "1E"} \union {ch.tag : ch \in ToSet(Channels)}
Entry == [time : Nat, type : Types, Mn : 0 .. 6, tag : Tags]

\* Run Mn, one step after the other.
Measure(n) ==
    \E steps \in {Steps(n)} :
        /\ timer' = TimeAfter(steps)[Len(steps)]
        /\ output_list' = output_list \o Selected(Stamped(n, steps), Entry)

\* The clock goes on to the end of the frame, or by a whole one.
EndOfFrame == timer' = timer + (SSP - (timer % SSP))

-----------------------------------------------------------------------------
(* Sequencer().                                                            *)

Init == /\ reg_data \in Registers
        /\ timer = 0 /\ output_list = <<>>
        /\ sample_counter = 0 /\ i = 0 /\ sequences = 0
        /\ phase = IF AUTO_MODE = 0 THEN "manual" ELSE "sequence"
        /\ data = <<>> /\ time = 0 /\ lines = 0

\* In manual mode each measurement runs once.
ManualMeasurement ==
    /\ phase = "manual"
    /\ Measure(i)
    /\ i' = IF i = 6 THEN 0 ELSE i + 1
    /\ phase' = IF i = 6 THEN "data" ELSE phase
    /\ UNCHANGED <<reg_data, sample_counter, sequences, dataVars>>

\* The outer loop; a sequence that does not restart is run once.
BeginSequence ==
    /\ phase = "sequence"
    /\ phase' = IF SEQ_RESTART = 1 \/ timer < SetTime THEN "frame" ELSE "data"
    /\ UNCHANGED <<reg_data, timer, output_list, sample_counter, i, sequences,
                   dataVars>>

\* Mutant of InTurn: frames counted from 0.
InTurnFromZero(n) == sample_counter % Mn_SRD(n) = 0

\* Frames are counted from 1.
InTurn(n) == (sample_counter + 1) % Mn_SRD(n) = 0

MeasureInTurn(n) == \/ InTurn(n) /\ Measure(n)
                    \/ ~InTurn(n) /\ UNCHANGED <<timer, output_list>>

\* M0 to M3, once in each frame of which it is their turn.
FrameMeasurement ==
    /\ phase = "frame" /\ sample_counter < SAMPLE_COUNT /\ i < 4
    /\ MeasureInTurn(i)
    /\ i' = i + 1
    /\ UNCHANGED <<reg_data, sample_counter, phase, sequences, dataVars>>

EndFrame ==
    /\ phase = "frame" /\ i = 4
    /\ sample_counter' = sample_counter + 1
    /\ EndOfFrame
    /\ i' = 0
    /\ UNCHANGED <<reg_data, output_list, phase, sequences, dataVars>>

EndFrames ==
    /\ phase = "frame" /\ sample_counter >= SAMPLE_COUNT /\ i = 0
    /\ i' = 4
    /\ phase' = "last"
    /\ UNCHANGED <<reg_data, timer, output_list, sample_counter, sequences, dataVars>>

\* M4 and M5 after the last frame (M6 is for the manual mode only).
LastMeasurement ==
    /\ phase = "last" /\ i < 6
    /\ MeasureInTurn(i)
    /\ i' = i + 1
    /\ UNCHANGED <<reg_data, sample_counter, phase, sequences, dataVars>>

EndSequence ==
    /\ phase = "last" /\ i = 6
    /\ i' = 0
    /\ sequences' = sequences + 1
    /\ \/ /\ SEQ_RESTART = 0
          /\ sample_counter' = 0
          /\ EndOfFrame
          /\ phase' = "sequence"
       \/ /\ SEQ_RESTART = 1
          /\ phase' = "data"
          /\ UNCHANGED <<timer, sample_counter>>
    /\ UNCHANGED <<reg_data, output_list, dataVars>>

\* The code has a copy of the frames and of the last measurements for each
\* value of SEQ_RESTART.
RestartingFrames == SEQ_RESTART = 0 /\ FrameMeasurement
RestartingLast   == SEQ_RESTART = 0 /\ LastMeasurement
SingleFrames     == SEQ_RESTART = 1 /\ FrameMeasurement
SingleLast       == SEQ_RESTART = 1 /\ LastMeasurement

-----------------------------------------------------------------------------
(* create_Data() and the file.  A value is either steady (a level with     *)
(* some noise) or decays with the age of the pulse.                        *)

Here == output_list[Len(data) + 1]
Follows(type, tag) == /\ Len(data) > 0
                      /\ output_list[Len(data)].type = type
                      /\ output_list[Len(data)].tag = tag
SincePrevious == Here.time - output_list[Len(data)].time

Add(value) == data' = Append(data, [Mn |-> Here.Mn, tag |-> Here.tag, value |-> value])

\* The age goes on after a sample of the part `tag` and else begins anew.
Decay(type, tag, delay) ==
    /\ time' = IF Follows(type, tag) THEN time + SincePrevious ELSE delay
    /\ Add(time')

Steady == Add("steady") /\ UNCHANGED time

\* Mutant of ChronoData: a sample before the pulse without a value.
ChronoDataPulseOnly(c, type) ==
    /\ Here.type = type
    /\ \/ Here.tag = "2" /\ data' = Append(data, <<>>) /\ UNCHANGED time
       \/ Here.tag = "3" /\ Decay(type, "3", c.DELAY)
       \/ Here.tag = "4" /\ c.POST = 0 /\ Steady
       \/ Here.tag = "4" /\ c.POST > 0 /\ Decay(type, "4", c.DELAY)

ChronoData(c, type) ==
    /\ Here.type = type
    /\ \/ Here.tag = "2" /\ Steady
       \/ Here.tag = "3" /\ Decay(type, "3", c.DELAY)
       \/ Here.tag = "4" /\ c.POST = 0 /\ Steady
       \/ Here.tag = "4" /\ c.POST > 0 /\ Decay(type, "4", c.DELAY)

ChronoAData == ChronoData(CHRONOA, "CHRONO A")
ChronoBData == ChronoData(CHRONOB, "CHRONO B")

\* The recovery goes on with the age of the step, for its first sample only;
\* an offset sample is left as it is.
PulseData ==
    /\ Here.type = "AP"
    /\ \/ Here.tag \in {"3", "4"} /\ Decay("AP", "3", 50000)
       \/ Here.tag = "0" /\ data' = Append(data, <<>>) /\ UNCHANGED time

PstatData   == Here.type = "PSTAT" /\ Steady
VoltageData == Here.type \notin {"AP", "CHRONO A", "CHRONO B", "PSTAT"} /\ Steady

CreateData ==
    /\ phase = "data"
    /\ \/ /\ Len(data) < Len(output_list)
          /\ ChronoAData \/ ChronoBData \/ PulseData \/ PstatData \/ VoltageData
          /\ UNCHANGED phase
       \/ /\ Len(data) = Len(output_list)
          /\ phase' = "writing"
          /\ UNCHANGED <<data, time>>
    /\ UNCHANGED <<reg_data, timer, output_list, sample_counter, i, sequences, lines>>

\* A sample without a value ends the program in the middle of the file.
WriteLine ==
    /\ phase = "writing"
    /\ \/ /\ lines < Len(data) /\ data[lines + 1] # <<>>
          /\ lines' = lines + 1
          /\ UNCHANGED phase
       \/ /\ lines < Len(data) /\ data[lines + 1] = <<>>
          /\ phase' = "failed"
          /\ UNCHANGED lines
       \/ /\ lines = Len(data)
          /\ phase' = "written"
          /\ UNCHANGED lines
    /\ UNCHANGED <<reg_data, timer, output_list, sample_counter, i, sequences,
                   data, time>>

Next == \/ ManualMeasurement
        \/ BeginSequence
        \/ RestartingFrames \/ SingleFrames
        \/ EndFrame \/ EndFrames
        \/ RestartingLast \/ SingleLast
        \/ EndSequence
        \/ CreateData
        \/ WriteLine

\* The program is one loop after another: a step that can be taken is taken.
Spec == Init /\ [][Next]_vars /\ WF_vars(Next)

-----------------------------------------------------------------------------
(* Properties.                                                             *)

\* How many samples a measurement enters, from the registers alone.
AfterPulse(pulse) == IF pulse.POST > 0 THEN pulse.POST
                  ELSE pulse.POST_PULSE_EN * pulse.STEP

ChronoWords(n, c) ==
    c.REPEAT * ( (IF c.AUTO_SUBTRACT = 1 /\ I_CONV_TYPE(n) = 3 THEN 0 ELSE c.PRE)
                 + c.STEP + AfterPulse(c) )

\* The voltages selected.  RE1 is left out: its bit is decoded wrong, and it is
\* never measured.
VoltageWords ==
    Field(134, 64, 2) + Field(134, 32, 2) + Field(134, 16, 2) + Field(134, 8, 2)
      + Field(134, 4, 2) + Field(134, 2, 2) + Field(134, 1, 2)
      + Field(133, 64, 2) + Field(133, 16, 2) + Field(133, 1, 2)

Words(n) ==
    CASE Meas(n) = PSTAT       -> IF I_CONV_TYPE(n) = 2 THEN 2 ELSE 1
      [] Meas(n) = CHRONO_A    -> ChronoWords(n, CHRONOA)
      [] Meas(n) = CHRONO_B    -> ChronoWords(n, CHRONOB)
      [] Meas(n) = AP          -> (AP_STEP + AP_REC - 2)
                                    * (IF I_CONV_TYPE(n) = 3 THEN 2 ELSE 1)
      [] Meas(n) = TEMPERATURE -> IF TEMP_PIN_SEL = 2 THEN 2 ELSE 1
      [] Meas(n) = VOLTAGE     -> VoltageWords
      [] OTHER                 -> 0

\* How often Mn has run: M0 to M3 in each frame that their divider selects,
\* M4 and M5 in the place of the frame after the last.
Over(n) == IF n < i THEN 1 ELSE 0

Frames(n) == IF phase = "frame" /\ n < i THEN sample_counter + 1
             ELSE sample_counter

Times(n) ==
    IF AUTO_MODE = 0
    THEN IF phase = "manual" THEN Over(n) ELSE 1
    ELSE LET once == IF (SAMPLE_COUNT + 1) % Mn_SRD(n) = 0 THEN 1 ELSE 0
             full == SAMPLE_COUNT \div Mn_SRD(n)
             last == phase = "last" \/ phase = "frame"
         IN  CASE n < 4 -> sequences * full
                             + (IF last THEN Frames(n) \div Mn_SRD(n) ELSE 0)
               [] n \in {4, 5} -> sequences * once
                             + (IF phase = "last" THEN Over(n) * once ELSE 0)
               [] OTHER -> 0

\* What Mn enters.
EntriesOf(n) == {e \in Entry : e.Mn = n}

\* The FIFO holds, at any time, the samples the registers ask for, in the
\* order of time: each measurement as often as its divider says, however
\* frames, sequences and restarts follow one another.
EntriesAsConfigured ==
    /\ \A n \in 0 .. 6 :
          Len(Selected(output_list, EntriesOf(n))) = Times(n) * Words(n)
    /\ \A k \in 1 .. Len(output_list) - 1 :
          output_list[k].time < output_list[k + 1].time
    /\ output_list # <<>> => output_list[Len(output_list)].time <= timer

\* The schedule ends, whatever the registers hold, and the file gets a line
\* for every sample, unless an arbitrary pulse converts signal and offset:
\* create_Data() gives its offsets no value, and the file ends there.
WritesEveryLine ==
    <>( \/ phase = "written" /\ lines = Len(output_list)
        \/ phase = "failed" /\ \E n \in 0 .. 6 : Meas(n) = AP /\ I_CONV_TYPE(n) = 3 )
=============================================================================
