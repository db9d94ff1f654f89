------------------------------- MODULE RtcCan -------------------------------
(***************************************************************************)
(* The CAN clock, coremodel-can-cr3020.py, with the part of CAN_t of       *)
(* coremodel.py that carries its answers: one frame at a time, which the   *)
(* virtual machine acknowledges by its transaction index.                  *)
(*                                                                         *)
(*   initialized  the device has been woken by the broadcast               *)
(*   nodeId       its CANopen node, which an alarm command may change      *)
(*   ebusy        CAN_t.ebusy: a frame is under way                        *)
(*   trnidx       CAN_t.trnidx, modulo TrnIds (256 in the code)            *)
(*   frames       frames sent and not acknowledged: [id, trnidx]           *)
(*                                                                         *)
(* CanFrames is the set of frames the virtual machine may send: records    *)
(* [id, ide, data].                                                        *)
(***************************************************************************)
EXTENDS RtcDevice

CONSTANTS CanFrames, TrnIds

ASSUME CanAssumption ==
    CanFrames \subseteq [id : Nat, ide : BOOLEAN, data : Seq(Byte)]

VARIABLES initialized, nodeId, ebusy, trnidx, frames

canVars == <<initialized, nodeId, ebusy, trnidx, frames>>

CanInit == /\ initialized = FALSE
           /\ nodeId = 19
           /\ ebusy = 0
           /\ trnidx = 0
           /\ frames = {}

\* Mutant of Answer: an answer sent while another is under way.
AnswerAnyway(id) == /\ trnidx' = (trnidx + 1) % TrnIds
                    /\ ebusy' = 1
                    /\ frames' = frames \union {[id |-> id, trnidx |-> trnidx']}

\* can_rx(): refused, and the answer lost, while a frame is under way.
Answer(id) ==
    \/ ebusy # 0 /\ UNCHANGED <<ebusy, trnidx, frames>>
    \/ /\ ebusy = 0
       /\ trnidx' = (trnidx + 1) % TrnIds
       /\ ebusy' = 1
       /\ frames' = frames \union {[id |-> id, trnidx |-> trnidx']}

NoAnswer == UNCHANGED <<ebusy, trnidx, frames>>

\* A frame is for the device when its number is that of the command and node.
Command(f, base) == initialized /\ f.id = base + nodeId

\* tx() polls the alarms before it looks at a standard frame.
Polled == UpdateAlarms(rtc, Instants[now])

Initialize(f) ==
    /\ f.id = 2047 /\ f.data = <<>>
    /\ initialized' = TRUE
    /\ rtc' = Polled
    /\ UNCHANGED nodeId
    /\ Answer(2046)

\* "RTC Set" (six bytes, which are ignored), "RTC Request" and "Request Time
\* to Alarm" only answer; what they answer is not modelled.
Query(f) ==
    /\ rtc' = Polled
    /\ UNCHANGED <<initialized, nodeId>>
    /\ \/ Command(f, 768) /\ Len(f.data) = 6 /\ Answer(640 + nodeId)
       \/ Command(f, 512) /\ Len(f.data) = 0 /\ Answer(384 + nodeId)
       \/ Command(f, 1024) /\ Len(f.data) = 0 /\ Answer(896 + nodeId)

\* "Alarm Set": days, hours and minutes from now, twice the new node, the
\* baud rate and 0 to enable the alarm.  Each part is taken when in range.
AlarmAfter(r, d) ==
    LET a   == r.Alarm1
        day == ((r.time.day - 1 + d[1]) % 7) + 1 + (IF d[7] = 0 THEN 64 ELSE 0)
        a1  == IF d[1] < 7 THEN WriteDay(a, day) ELSE a
        a2  == IF d[2] < 24 THEN WriteHours(a1, (r.time.hours + d[2]) % 24) ELSE a1
    IN  IF d[3] < 60 THEN [a2 EXCEPT !.minutes = (r.time.minutes + d[3]) % 60]
                     ELSE a2

SetAlarm(f) ==
    /\ Command(f, 1280) /\ Len(f.data) = 7
    /\ rtc' = [Polled EXCEPT !.Alarm1 = AlarmAfter(Polled, f.data)]
    /\ nodeId' = IF f.data[4] = f.data[5] /\ f.data[4] < 64 THEN f.data[4] ELSE nodeId
    /\ UNCHANGED initialized
    /\ Answer(1152 + nodeId')

Unanswered(f) ==
    /\ ~(f.id = 2047 /\ f.data = <<>>)
    /\ ~(Command(f, 768) /\ Len(f.data) = 6)
    /\ ~(Command(f, 512) /\ Len(f.data) = 0)
    /\ ~(Command(f, 1024) /\ Len(f.data) = 0)
    /\ ~(Command(f, 1280) /\ Len(f.data) = 7)
    /\ rtc' = Polled
    /\ UNCHANGED <<initialized, nodeId>>
    /\ NoAnswer

\* The device answers standard frames only; every frame is acknowledged.
CanTx ==
    /\ up
    /\ UNCHANGED <<now, up>>
    /\ \E f \in CanFrames :
          \/ f.ide /\ UNCHANGED <<rtc, canVars>>
          \/ ~f.ide /\ (Initialize(f) \/ Query(f) \/ SetAlarm(f) \/ Unanswered(f))

\* The virtual machine acknowledges a frame, in any order it likes:
\* CAN_RX_ACK of CAN_t.advance_if().
CanRxAck ==
    /\ up
    /\ \E f \in frames :
          /\ frames' = frames \ {f}
          /\ ebusy' = IF f.trnidx = trnidx THEN 0 ELSE ebusy
    /\ UNCHANGED <<rtcVars, initialized, nodeId, trnidx>>

CanNext == CanTx \/ CanRxAck \/ (Tick /\ UNCHANGED canVars)
=============================================================================
