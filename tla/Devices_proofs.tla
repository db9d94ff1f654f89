--------------------------- MODULE Devices_proofs ---------------------------
(***************************************************************************)
(* Proofs about the device programs (Devices.tla): the CAN clock has one   *)
(* answer under way, for any set of frames and any size of the transaction *)
(* index; the keyboards return the beginning of the descriptor that was    *)
(* asked for, for any descriptors, requests and transfer sizes; the alarms *)
(* of the clocks ring until they are acknowledged and on their own day,    *)
(* for any transfers, commands and instants; and the alarm registers and   *)
(* the memory of the SPI clock implement RegisterFile.                     *)
(***************************************************************************)
EXTENDS Devices, SequenceLemmas

-----------------------------------------------------------------------------
(* The CAN clock.                                                          *)

FrameInv == ebusy \in {0, 1} /\ OneFrameInFlight

\* A device that has been woken may answer at any time.
LEMMA AnswerStep ==
  ASSUME FrameInv, NEW id, Answer(id), initialized'
  PROVE  FrameInv'
<1>1. CASE ebusy # 0 /\ UNCHANGED <<ebusy, trnidx, frames>>
  BY <1>1 DEF FrameInv, OneFrameInFlight
<1>2. CASE /\ ebusy = 0 /\ ebusy' = 1
           /\ frames' = frames \union {[id |-> id, trnidx |-> trnidx']}
  <2>1. frames' = {[id |-> id, trnidx |-> trnidx']}
    BY <1>2 DEF FrameInv, OneFrameInFlight
  <2>2. \E f \in frames' : frames' = {f} /\ f.trnidx = trnidx'
    BY <2>1
  <2> QED
    BY <1>2, <2>2 DEF FrameInv, OneFrameInFlight
<1> QED
  BY <1>1, <1>2 DEF Answer

LEMMA CanTxStep == FrameInv /\ CanTx => FrameInv'
<1> SUFFICES ASSUME FrameInv, CanTx PROVE FrameInv'
  OBVIOUS
<1>1. CASE UNCHANGED canVars
  BY <1>1 DEF canVars, FrameInv, OneFrameInFlight
<1>2. ASSUME NEW f \in CanFrames, Initialize(f) PROVE FrameInv'
  BY <1>2, AnswerStep DEF Initialize
<1>3. ASSUME NEW f \in CanFrames, Query(f) PROVE FrameInv'
  <2>1. initialized'
    BY <1>3 DEF Query, Command
  <2>2. Answer(640 + nodeId) \/ Answer(384 + nodeId) \/ Answer(896 + nodeId)
    BY <1>3 DEF Query
  <2> QED
    BY <2>1, <2>2, AnswerStep
<1>4. ASSUME NEW f \in CanFrames, SetAlarm(f) PROVE FrameInv'
  <2>1. initialized' /\ Answer(1152 + nodeId')
    BY <1>4 DEF SetAlarm, Command
  <2> QED
    BY <2>1, AnswerStep
<1>5. ASSUME NEW f \in CanFrames, Unanswered(f) PROVE FrameInv'
  BY <1>5 DEF Unanswered, NoAnswer, FrameInv, OneFrameInFlight
<1> QED
  BY <1>1, <1>2, <1>3, <1>4, <1>5 DEF CanTx

LEMMA CanRxAckStep == FrameInv /\ CanRxAck => FrameInv'
<1> SUFFICES ASSUME FrameInv, CanRxAck PROVE FrameInv'
  OBVIOUS
<1>1. PICK f \in frames : /\ frames' = frames \ {f}
                          /\ ebusy' = IF f.trnidx = trnidx THEN 0 ELSE ebusy
  BY DEF CanRxAck
<1>2. frames = {f} /\ f.trnidx = trnidx /\ ebusy = 1
  BY <1>1 DEF FrameInv, OneFrameInFlight
<1>3. frames' = {} /\ ebusy' = 0
  BY <1>1, <1>2
<1> QED
  BY <1>3 DEF FrameInv, OneFrameInFlight

LEMMA FrameStep == FrameInv /\ [Next]_vars => FrameInv'
<1> SUFFICES ASSUME FrameInv, [Next]_vars PROVE FrameInv'
  OBVIOUS
<1>1. CASE UNCHANGED canVars
  BY <1>1 DEF canVars, FrameInv, OneFrameInFlight
<1>2. CASE CanNext
  BY <1>1, <1>2, CanTxStep, CanRxAckStep DEF CanNext
<1> QED
  BY <1>1, <1>2 DEF Next, vars

\* The CAN clock has one answer under way exactly while ebusy says so, under
\* the index it waits for (can_rx, advance_if of CAN_t).
THEOREM AlwaysOneFrameInFlight == Spec => []OneFrameInFlight
<1>1. Init => FrameInv
  BY DEF Init, CanInit, FrameInv, OneFrameInFlight
<1>2. FrameInv /\ [Next]_vars => FrameInv'
  BY FrameStep
<1>3. FrameInv => OneFrameInFlight
  BY DEF FrameInv
<1> QED
  BY <1>1, <1>2, <1>3, PTL DEF Spec
-----------------------------------------------------------------------------
(* The USB keyboards.  A state of endpoint 0 is sound when the buffer holds *)
(* the first wLength bytes of the descriptor that was asked for, and what   *)
(* the data stage has returned are those before ep0ptr.                     *)

Patches == (Offered \union {"zero", "host"}) \X Nat

DeviceType == [in_setup : BOOLEAN, request : Requests \union {NoRequest},
               wLength : Nat, ep0ptr : Nat,
               ep0buf : [0 .. BufSize - 1 -> Patches],
               bAddr : {q.value : q \in Requests} \union {0}]

First(kind, n) == [k \in 1 .. n |-> <<kind, k - 1>>]

\* The descriptors one of the keyboards recognises are among those offered.
Serves(c, out) ==
    /\ c.request.kind \in Offered /\ c.request.dir = "in"
    /\ c.wLength = Smaller(DescSize[c.request.kind], c.request.length)
    /\ \A p \in 0 .. c.wLength - 1 : c.ep0buf[p] = <<c.request.kind, p>>
    /\ out = First(c.request.kind, c.ep0ptr)

KnownHere == IF program = "usbh class" THEN Old!Known(device.request)
                                       ELSE Known(device.request)

UsbInv == /\ device \in DeviceType
          /\ device.ep0ptr <= device.wLength
          /\ KnownHere => Serves(device, served)

LEMMA SmallerFact ==
  ASSUME NEW a \in Int, NEW b \in Int
  PROVE  Smaller(a, b) \in {a, b} /\ Smaller(a, b) <= a /\ Smaller(a, b) <= b
BY DEF Smaller

\* What IN returns is what comes next of the descriptor.
LEMMA FirstGrows ==
  ASSUME NEW kind, NEW n \in Nat, NEW m \in Nat,
         NEW more, more = [k \in 1 .. m |-> <<kind, n + k - 1>>]
  PROVE  First(kind, n) \o more = First(kind, n + m)
<1> DEFINE S == {<<kind, p>> : p \in Int}
<1>1. First(kind, n) \in Seq(S) /\ Len(First(kind, n)) = n
  BY DEF First
<1>2. more \in Seq(S) /\ Len(more) = m
  OBVIOUS
<1> QED
  BY <1>1, <1>2 DEF First

\* SETUP starts a data stage of its own.
LEMMA SetupStep ==
  ASSUME NEW c \in DeviceType, NEW q \in Requests
  PROVE  /\ Setup(c, q) \in DeviceType
         /\ Setup(c, q).ep0ptr <= Setup(c, q).wLength
         /\ Setup(c, q).request = q
         /\ Known(q) => Serves(Setup(c, q), <<>>)
<1> DEFINE n == Smaller(DescSize[q.kind], q.length)
           s == [c EXCEPT !.in_setup = TRUE, !.request = q, !.ep0ptr = 0,
                          !.wLength = q.length]
           t == [s EXCEPT !.wLength = n,
                          !.ep0buf = [p \in DOMAIN @ |->
                              IF p < n \/ p \in Patched(q.kind)
                              THEN <<q.kind, p>> ELSE @[p]]]
<1>1. Setup(c, q) = IF Known(q) THEN t ELSE s
  BY DEF Setup
<1>2. /\ s \in DeviceType /\ s.ep0ptr = 0 /\ s.wLength = q.length
      /\ s.request = q /\ s.ep0buf = c.ep0buf
  BY UsbAssumption DEF DeviceType
<1>3. CASE ~Known(q)
  BY <1>1, <1>2, <1>3, UsbAssumption
<1>4. CASE Known(q)
  <2>1. n \in Nat /\ n <= DescSize[q.kind] /\ DescSize[q.kind] \in 0 .. BufSize
    BY <1>4, SmallerFact, UsbAssumption DEF Known
  <2> DEFINE buf == [p \in 0 .. BufSize - 1 |->
                        IF p < n \/ p \in Patched(q.kind)
                        THEN <<q.kind, p>> ELSE c.ep0buf[p]]
  <2>2. t = [s EXCEPT !.wLength = n, !.ep0buf = buf]
    BY <1>2 DEF DeviceType
  <2>3. /\ t.in_setup = s.in_setup /\ t.request = q /\ t.ep0ptr = 0
        /\ t.wLength = n /\ t.bAddr = s.bAddr /\ t.ep0buf = buf
        /\ t = [in_setup |-> t.in_setup, request |-> t.request,
                wLength |-> t.wLength, ep0ptr |-> t.ep0ptr,
                ep0buf |-> t.ep0buf, bAddr |-> t.bAddr]
    <3> HIDE DEF n, s, t, buf
    <3> QED
      BY <1>2, <2>2 DEF DeviceType
  <2> HIDE DEF n, s, t
  <2>4. t.ep0buf \in [0 .. BufSize - 1 -> Patches]
    <3>1. ASSUME NEW p \in 0 .. BufSize - 1
          PROVE  <<q.kind, p>> \in Patches /\ c.ep0buf[p] \in Patches
      BY <1>4, UsbAssumption DEF Known, Patches, DeviceType
    <3> QED
      BY <2>3, <3>1
  <2>5. t \in DeviceType
    BY <1>2, <2>1, <2>3, <2>4 DEF DeviceType
  <2>6. \A p \in 0 .. n - 1 : t.ep0buf[p] = <<q.kind, p>>
    BY <2>1, <2>3, UsbAssumption
  <2>7. First(q.kind, 0) = <<>>
    BY DEF First
  <2>8. Serves(t, <<>>)
    BY <1>4, <2>3, <2>6, <2>7 DEF Serves, Known, n
  <2> QED
    BY <1>1, <1>4, <2>1, <2>3, <2>5, <2>8
<1> QED
  BY <1>3, <1>4

\* The older keyboard recognises fewer descriptors and treats them alike.
LEMMA OldSetupStep ==
  ASSUME NEW c \in DeviceType, NEW q \in Requests
  PROVE  /\ Old!Setup(c, q) \in DeviceType
         /\ Old!Setup(c, q).ep0ptr <= Old!Setup(c, q).wLength
         /\ Old!Setup(c, q).request = q
         /\ Old!Known(q) => Serves(Old!Setup(c, q), <<>>)
<1> DEFINE s == [c EXCEPT !.in_setup = TRUE, !.request = q, !.ep0ptr = 0,
                          !.wLength = q.length]
<1>1. CASE Old!Known(q)
  <2>1. Known(q)
    BY <1>1 DEF Known, Old!Known
  <2>2. Old!Setup(c, q) = Setup(c, q)
    BY <1>1, <2>1 DEF Setup, Old!Setup, Smaller, Old!Smaller, Patched, Old!Patched
  <2> QED
    BY <2>1, <2>2, SetupStep
<1>2. CASE ~Old!Known(q)
  <2>1. Old!Setup(c, q) = s
    BY <1>2 DEF Old!Setup
  <2>2. s \in DeviceType /\ s.ep0ptr = 0 /\ s.wLength = q.length /\ s.request = q
    BY UsbAssumption DEF DeviceType
  <2> QED
    BY <1>2, <2>1, <2>2, UsbAssumption
<1> QED
  BY <1>1, <1>2

\* OUT leaves what an "in" request has been given.
LEMMA OutStep ==
  ASSUME NEW c \in DeviceType, c.ep0ptr <= c.wLength, NEW size \in Sizes
  PROVE  /\ Out(c, size).state \in DeviceType
         /\ Out(c, size).state.ep0ptr <= Out(c, size).state.wLength
         /\ Out(c, size).state.request = c.request
         /\ \A out : Serves(c, out) => Serves(Out(c, size).state, out)
<1>1. c.request.dir \in {"in", "out"} /\ size \in Nat
  BY UsbAssumption DEF DeviceType, NoRequest
<1>2. CASE ~c.in_setup
  <2>1. Out(c, size).state = c
    BY <1>2 DEF Out, Stalled
  <2> QED
    BY <2>1
<1>3. CASE c.in_setup /\ c.request.dir = "in"
  <2>1. Out(c, size).state = [c EXCEPT !.in_setup = FALSE]
    BY <1>3 DEF Out, Acknowledge
  <2> DEFINE d == [c EXCEPT !.in_setup = FALSE]
  <2>2. /\ d \in DeviceType /\ d.ep0ptr = c.ep0ptr /\ d.wLength = c.wLength
        /\ d.request = c.request /\ d.ep0buf = c.ep0buf
    BY DEF DeviceType
  <2> QED
    BY <2>1, <2>2 DEF Serves
<1>4. CASE c.in_setup /\ c.request.dir = "out"
  <2> DEFINE step == Step(c, size)
             buf == [p \in 0 .. BufSize - 1 |->
                        IF p \in c.ep0ptr .. c.ep0ptr + step - 1
                        THEN <<"host", p>> ELSE c.ep0buf[p]]
             d == [c EXCEPT !.ep0ptr = @ + step, !.ep0buf = buf]
  <2>1. Out(c, size).state = d
    BY <1>4 DEF Out, DeviceType
  <2>2. step \in Nat /\ step <= c.wLength - c.ep0ptr
    BY <1>1, SmallerFact DEF Step, DeviceType
  <2>3. buf \in [0 .. BufSize - 1 -> Patches]
    <3>1. ASSUME NEW p \in 0 .. BufSize - 1
          PROVE  <<"host", p>> \in Patches /\ c.ep0buf[p] \in Patches
      BY UsbAssumption DEF Patches, DeviceType
    <3> QED
      BY <3>1
  <2> HIDE DEF buf, step
  <2>4. c.ep0ptr + step \in Nat
    BY <2>2 DEF DeviceType
  <2>5. /\ d \in DeviceType /\ d.ep0ptr = c.ep0ptr + step
        /\ d.wLength = c.wLength /\ d.request = c.request
    BY <2>3, <2>4 DEF DeviceType
  <2>6. d.ep0ptr <= d.wLength
    BY <2>2, <2>5 DEF DeviceType
  <2> QED
    BY <1>4, <2>1, <2>5, <2>6 DEF Serves
<1> QED
  BY <1>1, <1>2, <1>3, <1>4 DEF DeviceType

\* IN goes on where the data stage is.
LEMMA InStep ==
  ASSUME NEW c \in DeviceType, c.ep0ptr <= c.wLength, NEW size \in Sizes
  PROVE  /\ In(c, size).state \in DeviceType
         /\ In(c, size).state.ep0ptr <= In(c, size).state.wLength
         /\ In(c, size).state.request = c.request
         /\ \A out : Serves(c, out) =>
                        Serves(In(c, size).state, out \o In(c, size).data)
<1>1. c.request.dir \in {"in", "out"} /\ size \in Nat
  BY UsbAssumption DEF DeviceType, NoRequest
<1>2. ASSUME NEW kind, NEW n \in Nat
      PROVE  First(kind, n) \o <<>> = First(kind, n)
  BY FirstGrows, <1>2 DEF First
<1>3. CASE ~c.in_setup
  <2>1. In(c, size).state = c /\ In(c, size).data = <<>>
    BY <1>3 DEF In, Stalled
  <2>2. ASSUME NEW out, Serves(c, out) PROVE out \o <<>> = out
    BY <1>2, <2>2 DEF Serves, DeviceType
  <2> QED
    BY <2>1, <2>2
<1>4. CASE c.in_setup /\ c.request.dir = "out"
  <2> DEFINE acknowledged == [c EXCEPT !.in_setup = FALSE]
             moved == [acknowledged EXCEPT !.bAddr = c.request.value]
  <2>1. In(c, size).state \in {acknowledged, moved}
    BY <1>4 DEF In, Stalled, Acknowledge
  <2>2. c.request.value \in {q.value : q \in Requests} \union {0}
    BY DEF DeviceType, NoRequest
  <2>3. ASSUME NEW d \in {acknowledged, moved}
        PROVE  /\ d \in DeviceType /\ d.ep0ptr = c.ep0ptr
               /\ d.wLength = c.wLength /\ d.request = c.request
    BY <2>2 DEF DeviceType
  <2> QED
    BY <1>4, <2>1, <2>3 DEF Serves
<1>5. CASE c.in_setup /\ c.request.dir = "in"
  <2> DEFINE step == Step(c, size)
             d == [c EXCEPT !.ep0ptr = @ + step]
             data == [k \in 1 .. step |-> c.ep0buf[c.ep0ptr + k - 1]]
  <2>1. In(c, size).state = d /\ In(c, size).data = data
    BY <1>5 DEF In
  <2>2. step \in Nat /\ step <= c.wLength - c.ep0ptr
    BY <1>1, SmallerFact DEF Step, DeviceType
  <2>3. /\ d \in DeviceType /\ d.ep0ptr = c.ep0ptr + step
        /\ d.wLength = c.wLength /\ d.request = c.request
        /\ d.ep0buf = c.ep0buf
    BY <2>2 DEF DeviceType
  <2>4. d.ep0ptr <= d.wLength
    BY <2>2, <2>3 DEF DeviceType
  <2>5. ASSUME NEW out, Serves(c, out)
        PROVE  Serves(d, out \o data)
    <3> DEFINE kind == c.request.kind
    <3>1. ASSUME NEW k \in 1 .. step
          PROVE  c.ep0buf[c.ep0ptr + k - 1] = <<kind, c.ep0ptr + k - 1>>
      BY <2>2, <2>5, <3>1 DEF Serves, DeviceType
    <3>2. data = [k \in 1 .. step |-> <<kind, c.ep0ptr + k - 1>>]
      BY <3>1
    <3>3. First(kind, c.ep0ptr) \o data = First(kind, c.ep0ptr + step)
      <4>1. c.ep0ptr \in Nat
        BY DEF DeviceType
      <4> HIDE DEF data, step, kind
      <4> QED
        BY <2>2, <3>2, <4>1, FirstGrows
    <3> QED
      BY <2>3, <2>5, <3>3 DEF Serves
  <2> QED
    BY <2>1, <2>3, <2>4, <2>5
<1> QED
  BY <1>1, <1>3, <1>4, <1>5 DEF DeviceType

\* Endpoint 0 of the older keyboard answers IN and OUT in the same way.
LEMMA OldAnswersAlike ==
  ASSUME NEW c, NEW size
  PROVE  Old!Out(c, size) = Out(c, size) /\ Old!In(c, size) = In(c, size)
BY DEF Old!Out, Out, Old!In, In, Old!Step, Step, Old!Smaller, Smaller,
       Old!Stalled, Stalled, Old!Acknowledge, Acknowledge,
       Old!XFR_STALL, XFR_STALL

LEMMA UsbStart == Init => UsbInv
<1> SUFFICES ASSUME Init PROVE UsbInv
  OBVIOUS
<1>1. device = PowerOn /\ served = <<>>
  BY DEF Init, UsbInit
<1>2. PowerOn \in DeviceType
  BY UsbAssumption DEF PowerOn, DeviceType, Patches
<1>3. ~Known(PowerOn.request) /\ ~Old!Known(PowerOn.request)
  BY DEF PowerOn, NoRequest, Known, Old!Known
<1>4. PowerOn.ep0ptr <= PowerOn.wLength
  BY DEF PowerOn
<1> QED
  BY <1>1, <1>2, <1>3, <1>4 DEF UsbInv, KnownHere

LEMMA UsbStep == UsbInv /\ [Next]_vars => UsbInv'
<1> SUFFICES ASSUME UsbInv, [Next]_vars PROVE UsbInv'
  OBVIOUS
<1>1. program' = program
  BY DEF Next, vars
<1>2. CASE UNCHANGED <<device, served>>
  BY <1>1, <1>2 DEF UsbInv, KnownHere
<1>3. ASSUME NEW q \in Requests, program = "usbh", device' = Setup(device, q),
             served' = <<>>
      PROVE  UsbInv'
  BY <1>1, <1>3, SetupStep DEF UsbInv, KnownHere
<1>4. ASSUME NEW q \in Requests, program = "usbh class",
             device' = Old!Setup(device, q), served' = <<>>
      PROVE  UsbInv'
  BY <1>1, <1>4, OldSetupStep DEF UsbInv, KnownHere
<1>5. ASSUME NEW size \in Sizes, device' = Out(device, size).state,
             served' = served
      PROVE  UsbInv'
  BY <1>1, <1>5, OutStep DEF UsbInv, KnownHere
<1>6. ASSUME NEW size \in Sizes, device' = In(device, size).state,
             served' = served \o In(device, size).data
      PROVE  UsbInv'
  BY <1>1, <1>6, InStep DEF UsbInv, KnownHere
<1>7. CASE program = "usbh" /\ UsbNext
  BY <1>2, <1>3, <1>5, <1>6, <1>7
     DEF UsbNext, UsbReset, UsbSetup, UsbOut, UsbIn, UsbOther
<1>8. CASE program = "usbh class" /\ OldNext
  BY <1>2, <1>4, <1>5, <1>6, <1>8, OldAnswersAlike
     DEF OldNext, UsbReset, OldSetup, OldOut, OldIn, OldOther, UsbOther
<1>9. CASE UNCHANGED usbVars
  BY <1>2, <1>9 DEF usbVars
<1> QED
  BY <1>7, <1>8, <1>9 DEF Next, vars

LEMMA UsbInvIsEnough == UsbInv => DataStageServesRequest
<1> SUFFICES ASSUME UsbInv, KnownHere
             PROVE  /\ Len(served) <= Smaller(DescSize[device.request.kind],
                                              device.request.length)
                    /\ \A k \in DOMAIN served :
                          served[k] = <<device.request.kind, k - 1>>
  BY DEF DataStageServesRequest, KnownHere
<1>1. /\ served = First(device.request.kind, device.ep0ptr)
      /\ device.wLength = Smaller(DescSize[device.request.kind],
                                  device.request.length)
      /\ device.ep0ptr <= device.wLength /\ device.ep0ptr \in Nat
  BY DEF UsbInv, Serves, DeviceType
<1>2. Len(served) = device.ep0ptr /\ DOMAIN served = 1 .. device.ep0ptr
  BY <1>1 DEF First
<1> QED
  BY <1>1, <1>2 DEF First

\* What the keyboards return for a descriptor they know is the beginning of
\* that descriptor and no more than was asked for, in any order of SETUP,
\* IN, OUT and reset (usbh_xfr_int).
THEOREM DataStageAlwaysServes == Spec => []DataStageServesRequest
<1>1. Init => UsbInv
  BY UsbStart
<1>2. UsbInv /\ [Next]_vars => UsbInv'
  BY UsbStep
<1>3. UsbInv => DataStageServesRequest
  BY UsbInvIsEnough
<1> QED
  BY <1>1, <1>2, <1>3, PTL DEF Spec
-----------------------------------------------------------------------------
(* The clocks and what their registers hold.                               *)

\* The function that Written ends with.
WrittenUpTo(r, regs, bytes) ==
  LET upTo[k \in 0 .. Len(bytes)] ==
        IF k = 0 THEN r ELSE WriteReg(upTo[k - 1], regs[k], bytes[k])
  IN  upTo

\* A set of clocks that every byte of a transfer stays in.
Stays(S, regs, bytes) ==
  \A x \in S : \A k \in 1 .. Len(bytes) : WriteReg(x, regs[k], bytes[k]) \in S

\* The loop satisfies its definition.
LEMMA WrittenUpToIs ==
  ASSUME NEW S, NEW r \in S, NEW regs, NEW bytes, Len(bytes) \in Nat,
         Stays(S, regs, bytes)
  PROVE  /\ WrittenUpTo(r, regs, bytes) \in [0 .. Len(bytes) -> S]
         /\ WrittenUpTo(r, regs, bytes)[0] = r
         /\ \A k \in 1 .. Len(bytes) :
              WrittenUpTo(r, regs, bytes)[k] =
                WriteReg(WrittenUpTo(r, regs, bytes)[k - 1], regs[k], bytes[k])
<1> DEFINE n == Len(bytes)
           G == [k \in 1 .. n |-> [x \in S |-> WriteReg(x, regs[k], bytes[k])]]
           F(f) == [k \in 0 .. n |-> IF k = 0 THEN r
                                     ELSE WriteReg(f[k - 1], regs[k], bytes[k])]
           g == WrittenUpTo(r, regs, bytes)
<1>1. G \in [1 .. n -> [S -> S]]
  BY DEF Stays
<1>2. PICK f \in [0 .. n -> S] :
        f[0] = r /\ \A k \in 1 .. n : f[k] = G[k][f[k - 1]]
  <2> HIDE DEF G, n
  <2>1. n \in Nat
    BY DEF n
  <2>2. \E f : Recurs(f, S, n, r, G)
    BY <1>1, <2>1, RecursionExists
  <2> QED
    BY <2>2 DEF Recurs
<1>3. f = F(f)
  <2>1. ASSUME NEW k \in 1 .. n
        PROVE  f[k] = WriteReg(f[k - 1], regs[k], bytes[k])
    <3>1. f[k - 1] \in S
      OBVIOUS
    <3> QED
      BY <1>2, <3>1
  <2>2. ASSUME NEW k \in 0 .. n
        PROVE  f[k] = IF k = 0 THEN r ELSE WriteReg(f[k - 1], regs[k], bytes[k])
    <3>1. k = 0 \/ k \in 1 .. n
      OBVIOUS
    <3> HIDE DEF G
    <3> QED
      BY <1>2, <2>1, <3>1
  <2>3. f = [k \in 0 .. n |-> f[k]]
    OBVIOUS
  <2> HIDE DEF G
  <2> QED
    BY <2>2, <2>3
<1>4. g = F(g)
  BY <1>3 DEF WrittenUpTo
<1>5. /\ DOMAIN g = 0 .. n /\ g[0] = r
      /\ \A k \in 1 .. n : g[k] = WriteReg(g[k - 1], regs[k], bytes[k])
      /\ g = [k \in 0 .. n |-> g[k]]
  <2> HIDE DEF g, G
  <2>1. \A k \in 0 .. n : g[k] = IF k = 0 THEN r
                                 ELSE WriteReg(g[k - 1], regs[k], bytes[k])
    BY <1>4
  <2>2. DOMAIN g = 0 .. n /\ g = [k \in 0 .. n |-> g[k]]
    BY <1>4
  <2>3. \A k \in 1 .. n : k \in 0 .. n /\ k # 0
    OBVIOUS
  <2> HIDE DEF n
  <2>4. 0 \in 0 .. n
    BY DEF n
  <2> QED
    BY <2>1, <2>2, <2>3, <2>4
<1> DEFINE P == {k \in Nat : k <= n => g[k] \in S}
<1>6. 0 \in P
  BY <1>5
<1>7. ASSUME NEW k \in Nat, k \in P PROVE k + 1 \in P
  <2>1. SUFFICES ASSUME k + 1 <= n PROVE g[k + 1] \in S
    OBVIOUS
  <2>2. k + 1 \in 1 .. n /\ k <= n /\ k + 1 - 1 = k
    BY <2>1
  <2>3. g[k] \in S
    BY <1>7, <2>2
  <2> HIDE DEF g
  <2>4. g[k + 1] = WriteReg(g[k], regs[k + 1], bytes[k + 1])
    <3> DEFINE i == k + 1
    <3>1. i \in 1 .. n /\ i - 1 = k
      BY <2>2
    <3> HIDE DEF i, n
    <3>2. g[i] = WriteReg(g[i - 1], regs[i], bytes[i])
      BY ONLY <1>5, <3>1
    <3> QED
      BY ONLY <3>1, <3>2 DEF i
  <2> QED
    BY <2>2, <2>3, <2>4 DEF Stays
<1>8. \A k \in Nat : k \in P
  <2> HIDE DEF P
  <2> QED
    BY <1>6, <1>7, NatInduct
<1>9. \A k \in 0 .. n : g[k] \in S
  BY <1>8
<1> HIDE DEF g, G
<1> QED
  BY <1>5, <1>9 DEF g

\* What a transfer writes stays in a set that each of its bytes stays in.
LEMMA WrittenStays ==
  ASSUME NEW S, NEW r \in S, NEW regs, NEW bytes, Len(bytes) \in Nat,
         Stays(S, regs, bytes)
  PROVE  Written(r, regs, bytes) \in S
<1>1. Written(r, regs, bytes) = WrittenUpTo(r, regs, bytes)[Len(bytes)]
  BY DEF Written, WrittenUpTo
<1>2. WrittenUpTo(r, regs, bytes) \in [0 .. Len(bytes) -> S]
  BY WrittenUpToIs
<1> QED
  BY <1>1, <1>2

-----------------------------------------------------------------------------
(* The clock.                                                              *)

\* An alarm that is for a day of the week is for no day of the month.
AlarmTime == {a \in TimeType : Has(a.day, 64) => a.date % 64 = 0}

ClockTime == [seconds : Int, minutes : Int, hours : Int, day : Int,
              date : Int, month : Int, year : Int]

Clocks(A) == [time : ClockTime, Alarm1 : A, Alarm2 : A,
              control : Int, status : Int, aging : Int]

AlarmFields == {"seconds", "minutes", "hours", "day_date"}
TimeFields  == {"seconds", "minutes", "hours", "day", "date", "month", "year"}

\* Which field of which group a register of the clock or an alarm holds.
LEMMA PlaceIs ==
  ASSUME NEW reg \in 0 .. 13
  PROVE  \/ Place(reg)[1] = "time" /\ Place(reg)[2] \in TimeFields
         \/ Place(reg)[1] \in {"Alarm1", "Alarm2"} /\ Place(reg)[2] \in AlarmFields
<1>1. CASE reg \in 0 .. 6
  <2>1. Place(reg) = <<"time", <<"seconds", "minutes", "hours", "day", "date",
                                 "month", "year">>[reg + 1]>>
    BY <1>1 DEF Place
  <2>2. reg = 0 \/ reg = 1 \/ reg = 2 \/ reg = 3 \/ reg = 4 \/ reg = 5 \/ reg = 6
    BY <1>1
  <2> QED
    BY <2>1, <2>2 DEF TimeFields
<1>2. CASE reg \in 7 .. 10
  <2>1. Place(reg) = <<"Alarm1", <<"seconds", "minutes", "hours",
                                   "day_date">>[reg - 6]>>
    BY <1>2 DEF Place
  <2>2. reg = 7 \/ reg = 8 \/ reg = 9 \/ reg = 10
    BY <1>2
  <2> QED
    BY <2>1, <2>2 DEF AlarmFields
<1>3. CASE reg \in 11 .. 13
  <2>1. Place(reg) = <<"Alarm2", <<"minutes", "hours", "day_date">>[reg - 10]>>
    BY <1>3 DEF Place
  <2>2. reg = 11 \/ reg = 12 \/ reg = 13
    BY <1>3
  <2> QED
    BY <2>1, <2>2 DEF AlarmFields
<1> QED
  BY <1>1, <1>2, <1>3

\* A byte keeps its upper bits where a write masks the others.
LEMMA Masked64 ==
  ASSUME NEW b \in Byte
  PROVE  /\ (b \div 64) * 64 + (b % 8) \in Byte
         /\ Has((b \div 64) * 64 + (b % 8), 64) = Has(b, 64)
         /\ (b \div 128) * 128 + (b % 64) \in Byte
         /\ (b \div 128) * 128 + (b % 32) \in Byte
BY DEF Byte, Has

\* What write_hours() stores is a byte again.
LEMMA HoursByte ==
  ASSUME NEW b \in Byte
  PROVE  (IF Has(b, 64) /\ b % 32 = 0
          THEN (IF Has(b, 32) THEN b - 32 ELSE b + 32) + 1
          ELSE b) \in Byte
BY DEF Byte, Has

\* A byte written to a field of an alarm leaves an alarm.
LEMMA AlarmWritten ==
  ASSUME NEW a \in AlarmTime, NEW field \in AlarmFields, NEW b \in Byte
  PROVE  WriteTime(a, field, b) \in AlarmTime
<1>1. CASE field = "hours"
  BY <1>1, HoursByte DEF WriteTime, WriteHours, AlarmTime, TimeType
<1>2. CASE field = "seconds"
  BY <1>2 DEF WriteTime, AlarmTime, TimeType
<1>3. CASE field = "minutes"
  BY <1>3 DEF WriteTime, AlarmTime, TimeType
<1>4. CASE field = "day_date"
  <2>1. /\ (0 \div 64) * 64 + (0 % 8) = 0 /\ (0 \div 128) * 128 + (0 % 64) = 0
        /\ 0 \in Byte /\ ~Has(0, 64) /\ 0 % 64 = 0
    BY DEF Byte, Has
  <2>2. CASE Has(b, 64)
    <3> DEFINE day == (b \div 64) * 64 + (b % 8)
    <3>1. WriteTime(a, field, b) = [a EXCEPT !.date = 0, !.day = day]
      BY <1>4, <2>1, <2>2
         DEF WriteTime, WriteDayDate, WriteDay, WriteDate, AlarmTime, TimeType
    <3>2. day \in Byte
      BY Masked64
    <3> HIDE DEF day
    <3> QED
      BY <2>1, <3>1, <3>2 DEF AlarmTime, TimeType
  <2>3. CASE ~Has(b, 64)
    <3> DEFINE date == (b \div 128) * 128 + (b % 64)
    <3>1. WriteTime(a, field, b) = [a EXCEPT !.day = 0, !.date = date]
      BY <1>4, <2>1, <2>3
         DEF WriteTime, WriteDayDate, WriteDay, WriteDate, AlarmTime, TimeType
    <3>2. date \in Byte
      BY Masked64
    <3> HIDE DEF date
    <3> QED
      BY <2>1, <3>1, <3>2 DEF AlarmTime, TimeType
  <2> QED
    BY <2>2, <2>3
<1> QED
  BY <1>1, <1>2, <1>3, <1>4 DEF AlarmFields

\* A byte written to a field of the clock leaves a time.
LEMMA TimeWritten ==
  ASSUME NEW t \in ClockTime, NEW field \in TimeFields, NEW b \in Byte
  PROVE  WriteTime(t, field, b) \in ClockTime
<1>1. CASE field = "hours"
  BY <1>1, HoursByte DEF WriteTime, WriteHours, ClockTime, Byte
<1>2. CASE field \in {"day", "date", "month"}
  <2>1. /\ (b \div 64) * 64 + (b % 8) \in Int
        /\ (b \div 128) * 128 + (b % 64) \in Int
        /\ (b \div 128) * 128 + (b % 32) \in Int
    BY DEF Byte
  <2>2. CASE field = "day"
    BY <2>1, <2>2 DEF WriteTime, WriteDay, ClockTime
  <2>3. CASE field = "date"
    BY <2>1, <2>3 DEF WriteTime, WriteDate, ClockTime
  <2>4. CASE field = "month"
    BY <2>1, <2>4 DEF WriteTime, WriteMonth, ClockTime
  <2> QED
    BY <1>2, <2>2, <2>3, <2>4
<1>3. CASE field \in {"seconds", "minutes", "year"}
  BY <1>3 DEF WriteTime, ClockTime, Byte
<1> QED
  BY <1>1, <1>2, <1>3 DEF TimeFields

\* Whether the flag of weight w is on after a byte has been written to register reg.
Keeps(r, reg, b, w) == Has(r.status, w) /\ (reg = 15 => Has(b, w))

\* write_status() clears the flags that are written with a 0, and no other.
LEMMA StatusWritten ==
  ASSUME NEW r \in Clocks(AlarmTime), NEW b \in Byte
  PROVE  /\ WriteStatus(r, b) \in Clocks(AlarmTime)
         /\ \A w \in {1, 2} : Has(WriteStatus(r, b).status, w)
                              <=> Has(r.status, w) /\ Has(b, w)
<1> DEFINE kept(w) == IF Has(r.status, w) /\ Has(b, w) THEN w ELSE 0
           bsy == IF Has(b, 4) THEN 4 ELSE 0
           status == kept(128) + kept(2) + kept(1) + bsy
<1>1. WriteStatus(r, b) = [r EXCEPT !.status = status]
  BY DEF WriteStatus
<1>2. kept(128) \in {0, 128} /\ kept(2) \in {0, 2} /\ kept(1) \in {0, 1}
      /\ bsy \in {0, 4}
  OBVIOUS
<1>3. status \in Int
  BY <1>2
<1>4. Has(status, 1) <=> kept(1) = 1
  <2> HIDE DEF kept, bsy
  <2> QED
    BY <1>2 DEF Has, status
<1>5. Has(status, 2) <=> kept(2) = 2
  <2> HIDE DEF kept, bsy
  <2> QED
    BY <1>2 DEF Has, status
<1>6. WriteStatus(r, b) \in Clocks(AlarmTime) /\ WriteStatus(r, b).status = status
  <2> HIDE DEF status
  <2> QED
    BY <1>1, <1>3 DEF Clocks
<1> HIDE DEF status
<1> QED
  BY <1>4, <1>5, <1>6

\* What one byte of a transfer does: the clock stays one, and a flag stays on
\* unless a 0 is written to it and never comes on.
LEMMA RegWritten ==
  ASSUME NEW r \in Clocks(AlarmTime), NEW reg \in 0 .. 18, reg # 14,
         NEW b \in Byte
  PROVE  /\ WriteReg(r, reg, b) \in Clocks(AlarmTime)
         /\ \A w \in {1, 2} : Has(WriteReg(r, reg, b).status, w)
                              <=> Keeps(r, reg, b, w)
<1>1. CASE reg \in 0 .. 13
  <2> DEFINE field == Place(reg)[2]
             group == Place(reg)[1]
  <2>1. WriteReg(r, reg, b) = [r EXCEPT ![group] = WriteTime(@, field, b)]
    BY <1>1 DEF WriteReg, Control
  <2>2. CASE group = "time" /\ field \in TimeFields
    <3>1. WriteTime(r.time, field, b) \in ClockTime
      BY <2>2, TimeWritten DEF Clocks
    <3>2. WriteReg(r, reg, b) = [r EXCEPT !.time = WriteTime(r.time, field, b)]
      BY <2>1, <2>2 DEF Clocks
    <3> HIDE DEF field, group
    <3>3. /\ WriteReg(r, reg, b) \in Clocks(AlarmTime)
          /\ WriteReg(r, reg, b).status = r.status
      BY <3>1, <3>2 DEF Clocks
    <3> QED
      BY <1>1, <3>3 DEF Keeps
  <2>3. CASE group = "Alarm1" /\ field \in AlarmFields
    <3>1. WriteTime(r.Alarm1, field, b) \in AlarmTime
      BY <2>3, AlarmWritten DEF Clocks
    <3>2. WriteReg(r, reg, b) = [r EXCEPT !.Alarm1 = WriteTime(r.Alarm1, field, b)]
      BY <2>1, <2>3 DEF Clocks
    <3> HIDE DEF field, group
    <3>3. /\ WriteReg(r, reg, b) \in Clocks(AlarmTime)
          /\ WriteReg(r, reg, b).status = r.status
      BY <3>1, <3>2 DEF Clocks
    <3> QED
      BY <1>1, <3>3 DEF Keeps
  <2>4. CASE group = "Alarm2" /\ field \in AlarmFields
    <3>1. WriteTime(r.Alarm2, field, b) \in AlarmTime
      BY <2>4, AlarmWritten DEF Clocks
    <3>2. WriteReg(r, reg, b) = [r EXCEPT !.Alarm2 = WriteTime(r.Alarm2, field, b)]
      BY <2>1, <2>4 DEF Clocks
    <3> HIDE DEF field, group
    <3>3. /\ WriteReg(r, reg, b) \in Clocks(AlarmTime)
          /\ WriteReg(r, reg, b).status = r.status
      BY <3>1, <3>2 DEF Clocks
    <3> QED
      BY <1>1, <3>3 DEF Keeps
  <2> QED
    BY <1>1, <2>2, <2>3, <2>4, PlaceIs
<1>2. CASE reg = 15
  BY <1>2, StatusWritten DEF WriteReg, Control, Keeps
<1>3. CASE reg = 16
  <2>1. WriteReg(r, reg, b) = [r EXCEPT !.aging = b]
    BY <1>3 DEF WriteReg, Control
  <2>2. b \in Int
    BY DEF Byte
  <2> QED
    BY <1>3, <2>1, <2>2 DEF Clocks, Keeps
<1>4. CASE reg \in {17, 18}
  BY <1>4 DEF WriteReg, Control, Keeps
<1> QED
  BY <1>1, <1>2, <1>3, <1>4

\* Registers and bytes that a transfer may write.
Writable(regs, bytes) ==
  /\ Len(bytes) \in Nat
  /\ \A k \in 1 .. Len(bytes) : regs[k] \in (0 .. 18) \ {14} /\ bytes[k] \in Byte

\* What a whole transfer does.
LEMMA TransferWritten ==
  ASSUME NEW r \in Clocks(AlarmTime), NEW regs, NEW bytes, Writable(regs, bytes)
  PROVE  /\ Written(r, regs, bytes) \in Clocks(AlarmTime)
         /\ \A w \in {1, 2} :
              /\ ~Has(r.status, w) => ~Has(Written(r, regs, bytes).status, w)
              /\ Has(r.status, w) /\ ~Has(Written(r, regs, bytes).status, w) =>
                   \E k \in 1 .. Len(bytes) : regs[k] = 15 /\ ~Has(bytes[k], w)
<1>1. Written(r, regs, bytes) \in Clocks(AlarmTime)
  <2>1. Stays(Clocks(AlarmTime), regs, bytes)
    BY RegWritten DEF Stays, Writable
  <2> QED
    BY <2>1, WrittenStays DEF Writable
<1>2. ASSUME NEW w \in {1, 2}, ~Has(r.status, w)
      PROVE  ~Has(Written(r, regs, bytes).status, w)
  <2> DEFINE S == {x \in Clocks(AlarmTime) : ~Has(x.status, w)}
  <2>1. Stays(S, regs, bytes)
    <3>1. ASSUME NEW x \in S, NEW k \in 1 .. Len(bytes)
          PROVE  WriteReg(x, regs[k], bytes[k]) \in S
      <4> DEFINE y == WriteReg(x, regs[k], bytes[k])
      <4>1. regs[k] \in 0 .. 18 /\ regs[k] # 14 /\ bytes[k] \in Byte
        BY DEF Writable
      <4>2. x \in Clocks(AlarmTime) /\ w \in {1, 2}
        OBVIOUS
      <4>3. /\ y \in Clocks(AlarmTime)
            /\ Has(y.status, w) <=> Keeps(x, regs[k], bytes[k], w)
        BY ONLY <4>1, <4>2, RegWritten
      <4> HIDE DEF y
      <4>4. y \in S
        BY <4>3 DEF Keeps
      <4> QED
        BY <4>4 DEF y
    <3> QED
      BY <3>1 DEF Stays
  <2>2. r \in S
    BY <1>2
  <2>3. Written(r, regs, bytes) \in S
    <3> HIDE DEF S
    <3> QED
      BY <2>1, <2>2, WrittenStays DEF Writable
  <2> QED
    BY <2>3
<1>3. ASSUME NEW w \in {1, 2}, Has(r.status, w),
             \A k \in 1 .. Len(bytes) : regs[k] = 15 => Has(bytes[k], w)
      PROVE  Has(Written(r, regs, bytes).status, w)
  <2> DEFINE S == {x \in Clocks(AlarmTime) : Has(x.status, w)}
  <2>1. Stays(S, regs, bytes)
    <3>1. ASSUME NEW x \in S, NEW k \in 1 .. Len(bytes)
          PROVE  WriteReg(x, regs[k], bytes[k]) \in S
      <4> DEFINE y == WriteReg(x, regs[k], bytes[k])
      <4>1. regs[k] \in 0 .. 18 /\ regs[k] # 14 /\ bytes[k] \in Byte
        BY DEF Writable
      <4>2. x \in Clocks(AlarmTime) /\ w \in {1, 2}
        OBVIOUS
      <4>3. /\ y \in Clocks(AlarmTime)
            /\ Has(y.status, w) <=> Keeps(x, regs[k], bytes[k], w)
        BY ONLY <4>1, <4>2, RegWritten
      <4> HIDE DEF y
      <4>4. y \in S
        BY <1>3, <4>3 DEF Keeps
      <4> QED
        BY <4>4 DEF y
    <3> QED
      BY <3>1 DEF Stays
  <2>2. r \in S
    BY <1>3
  <2>3. Written(r, regs, bytes) \in S
    <3> HIDE DEF S
    <3> QED
      BY <2>1, <2>2, WrittenStays DEF Writable
  <2> QED
    BY <2>3
<1> QED
  BY <1>1, <1>2, <1>3

\* Raising a flag leaves the other as it is.
LEMMA SetFlag ==
  ASSUME NEW b \in Int
  PROVE  /\ Set(b, 1) \in Int /\ Set(b, 2) \in Int
         /\ Has(Set(b, 1), 1) /\ (Has(Set(b, 1), 2) <=> Has(b, 2))
         /\ Has(Set(b, 2), 2) /\ (Has(Set(b, 2), 1) <=> Has(b, 1))
<1>1. CASE b % 2 = 1
  BY <1>1 DEF Set, Has
<1>2. CASE b % 2 = 0
  BY <1>2 DEF Set, Has
<1> QED
  BY <1>1, <1>2

LocalTime == [year : Int, mon : Int, mday : 1 .. 31, wday : Int,
              hour : Int, min : Int, sec : Int]

\* The clock never reads as the 0th of a month.
LEMMA ClockRead ==
  ASSUME NEW t \in ClockTime, NEW l \in LocalTime
  PROVE  GetClock(t, l) \in ClockTime /\ GetClock(t, l).date % 64 # 0
<1>1. \A n \in Int : Bcd7(n) \in Int /\ Bcd6(n) \in Int /\ Bcd5(n) \in Int
  BY DEF Bcd7, Bcd6, Bcd5
<1>2. \A n \in 1 .. 31 : Bcd6(n) % 64 # 0
  BY DEF Bcd7, Bcd6
<1>3. /\ l.year \in Int /\ l.mon \in Int /\ l.mday \in 1 .. 31 /\ l.wday \in Int
      /\ l.hour \in Int /\ l.min \in Int /\ l.sec \in Int
  BY DEF LocalTime
<1>4. GetClock(t, l).date = Bcd6(l.mday)
  BY DEF GetClock
<1>5. GetClock(t, l) \in ClockTime
  <2> DEFINE hours == IF ~(Has(t.hours, 32) \/ Has(t.hours, 8)) THEN Bcd6(l.hour)
                      ELSE IF l.hour > 11 THEN Bcd5(l.hour - 12) + 96
                      ELSE Bcd5(l.hour) + 64
             day == (l.wday + 2) % 7
             month == (l.year \div 100 - 19) * 128 + Bcd5(l.mon)
             year == ((l.year % 100) \div 10) * 16 + (l.year % 10)
  <2>1. hours \in Int
    <3>1. l.hour - 12 \in Int
      BY <1>3
    <3>2. Bcd5(l.hour - 12) \in Int /\ Bcd5(l.hour) \in Int /\ Bcd6(l.hour) \in Int
      BY <1>1, <1>3, <3>1
    <3> QED
      BY <3>2
  <2>2. day \in Int /\ year \in Int
    BY <1>3
  <2>3. month \in Int
    <3>1. Bcd5(l.mon) \in Int
      BY <1>1, <1>3
    <3> QED
      BY <1>3, <3>1
  <2>4. Bcd7(l.sec) \in Int /\ Bcd7(l.min) \in Int /\ Bcd6(l.mday) \in Int
    <3>1. l.mday \in Int
      BY <1>3
    <3> QED
      BY <1>1, <1>3, <3>1
  <2>5. GetClock(t, l) = [seconds |-> Bcd7(l.sec), minutes |-> Bcd7(l.min),
                          hours |-> hours, day |-> day, date |-> Bcd6(l.mday),
                          month |-> month, year |-> year]
    BY DEF GetClock
  <2> HIDE DEF hours, day, month, year
  <2> QED
    BY <2>1, <2>2, <2>3, <2>4, <2>5 DEF ClockTime
<1> QED
  BY <1>2, <1>3, <1>4, <1>5

\* A poll reads the clock and raises the flags of the alarms that are due.
LEMMA AlarmsPolled ==
  ASSUME NEW A, NEW r \in Clocks(A), NEW l \in LocalTime
  PROVE  /\ UpdateAlarms(r, l) \in Clocks(A)
         /\ UpdateAlarms(r, l).time = GetClock(r.time, l)
         /\ Has(UpdateAlarms(r, l).status, 1) <=>
              Has(r.status, 1) \/ Alarm1Due(r.Alarm1, GetClock(r.time, l))
         /\ Has(UpdateAlarms(r, l).status, 2) <=>
              Has(r.status, 2) \/ Alarm2Due(r.Alarm2, GetClock(r.time, l))
<1> DEFINE t == GetClock(r.time, l)
           one == IF Alarm1Due(r.Alarm1, t) THEN Set(r.status, 1) ELSE r.status
           both == IF Alarm2Due(r.Alarm2, t) THEN Set(one, 2) ELSE one
<1>1. t \in ClockTime
  BY ClockRead DEF Clocks
<1>2. UpdateAlarms(r, l) = [r EXCEPT !.time = t, !.status = both]
  BY DEF UpdateAlarms
<1>3. r.status \in Int
  BY DEF Clocks
<1> HIDE DEF t
<1>4. /\ one \in Int
      /\ Has(one, 1) <=> Has(r.status, 1) \/ Alarm1Due(r.Alarm1, t)
      /\ Has(one, 2) <=> Has(r.status, 2)
  BY <1>3, SetFlag
<1> HIDE DEF one
<1>5. /\ both \in Int
      /\ Has(both, 2) <=> Has(r.status, 2) \/ Alarm2Due(r.Alarm2, t)
      /\ Has(both, 1) <=> Has(one, 1)
  BY <1>4, SetFlag
<1> HIDE DEF both
<1>6. /\ UpdateAlarms(r, l) \in Clocks(A)
      /\ UpdateAlarms(r, l).time = t /\ UpdateAlarms(r, l).status = both
  BY <1>1, <1>2, <1>5 DEF Clocks
<1> QED
  BY <1>4, <1>5, <1>6 DEF t

\* An alarm that is due has a mask bit set, or is for this day.
LEMMA DueOnItsDay ==
  ASSUME NEW a \in AlarmTime, NEW t \in ClockTime, t.date % 64 # 0,
         Alarm1Due(a, t) \/ Alarm2Due(a, t)
  PROVE  Masked(a) \/ OnItsDay(a, t)
<1>1. \A b \in Byte : Has(b, 128) => b >= 128
  BY DEF Byte, Has
<1>2. /\ a.seconds \in Byte /\ a.minutes \in Byte /\ a.hours \in Byte
      /\ a.day \in Byte /\ a.date \in Byte
      /\ Has(a.day, 64) => a.date % 64 = 0
  BY DEF AlarmTime, TimeType
<1>3. CASE \/ Has(a.seconds, 128) \/ Has(a.minutes, 128) \/ Has(a.hours, 128)
           \/ Has(a.day, 128) \/ Has(a.date, 128)
  BY <1>1, <1>2, <1>3 DEF Masked
<1>4. CASE \/ Has(a.day, 64) /\ a.day % 8 = t.day % 8
           \/ a.date % 64 = t.date % 64
  BY <1>2, <1>4 DEF OnItsDay
<1> QED
  BY <1>3, <1>4 DEF Alarm1Due, Alarm2Due

-----------------------------------------------------------------------------
(* The programs that hold a clock.                                         *)

\* The type of the clocks: what one byte after another keeps.
ClockInv ==
  /\ program \in {"i2c", "spi"} => rtc \in Clocks(AlarmTime)
  /\ program = "can" => rtc \in Clocks(TimeType)
  /\ now \in DOMAIN Instants
  /\ index \in Int
  /\ ds \in DsType

\* The local time a poll reads.
LEMMA LocalNow == ClockInv => Instants[now] \in LocalTime
<1>1. Instants \in Seq(LocalTime)
  BY InstantsAssumption DEF LocalTime
<1>2. ClockInv => now \in DOMAIN Instants
  BY DEF ClockInv
<1> QED
  BY ONLY <1>1, <1>2

\* What a poll of the alarms does to either kind of clock.
LEMMA PollStep ==
  ASSUME ClockInv, NEW A, rtc \in Clocks(A), Poll
  PROVE  /\ rtc' \in Clocks(A)
         /\ \A w \in {1, 2} : Has(rtc.status, w) => Has(rtc'.status, w)
BY LocalNow, AlarmsPolled DEF Poll

\* An alarm that a poll makes ring is for this day, or is masked.
LEMMA PollRings ==
  ASSUME ClockInv, program \in {"i2c", "spi"}, Poll
  PROVE  RingOnItsDay
<1> DEFINE l == Instants[now]
           t == GetClock(rtc.time, l)
<1>1. rtc \in Clocks(AlarmTime) /\ l \in LocalTime /\ rtc' = UpdateAlarms(rtc, l)
  BY LocalNow DEF ClockInv, Poll
<1>2. /\ rtc.Alarm1 \in AlarmTime /\ rtc.Alarm2 \in AlarmTime
      /\ rtc.time \in ClockTime
  BY <1>1 DEF Clocks
<1>3. t \in ClockTime /\ t.date % 64 # 0
  BY <1>1, <1>2, ClockRead
<1>4. /\ rtc'.time = t
      /\ Rings(1) => Alarm1Due(rtc.Alarm1, t)
      /\ Rings(2) => Alarm2Due(rtc.Alarm2, t)
  <2> HIDE DEF l
  <2> QED
    BY <1>1, AlarmsPolled DEF Rings
<1> HIDE DEF t
<1> QED
  BY <1>2, <1>3, <1>4, DueOnItsDay DEF RingOnItsDay

\* No flag comes on.
NotRaised == \A w \in {1, 2} : Has(rtc'.status, w) => Has(rtc.status, w)
\* A flag that goes off is acknowledged.
ClearedWhenTold ==
  \A w \in {1, 2} : Has(rtc.status, w) /\ ~Has(rtc'.status, w) => Acknowledged(w)

\* A write to the registers of the SPI clock (Ds3234_t::xfr).
LEMMA SpiWriteStep ==
  ASSUME ClockInv, program = "spi", NEW tr \in SpiTransfers, SpiWriteRegs(tr)
  PROVE  rtc' \in Clocks(AlarmTime) /\ NotRaised /\ ClearedWhenTold
<1> DEFINE bytes == Data(tr)
           regs == [k \in DOMAIN bytes |-> Reg(tr, k)]
<1>1. /\ tr \in Seq(Byte) /\ tr # <<>> /\ bytes \in Seq(Byte)
      /\ tr[1] \in Byte
  BY SpiAssumption DEF Data
<1>2. rtc' = Written(rtc, regs, bytes) /\ rtc \in Clocks(AlarmTime)
  BY DEF SpiWriteRegs, ClockInv
<1>3. /\ Len(bytes) \in Nat /\ DOMAIN bytes = 1 .. Len(bytes)
      /\ \A k \in 1 .. Len(bytes) : bytes[k] \in Byte
  BY <1>1
<1> HIDE DEF bytes
<1>4. \A k \in 1 .. Len(bytes) : Reg(tr, k) \in 0 .. 18
  <2>1. ASSUME NEW a \in Int, NEW k \in Int PROVE (a + k - 1) % (18 + 1) \in 0 .. 18
    OBVIOUS
  <2>2. Addr(tr) \in Int
    <3>1. \A b \in Byte : b % 128 \in Int
      BY DEF Byte
    <3>2. tr[1] % 128 \in Int
      BY ONLY <1>1, <3>1
    <3> QED
      BY <3>2 DEF Addr
  <2>3. ASSUME NEW k \in 1 .. Len(bytes) PROVE k \in Int
    BY <1>3
  <2> QED
    BY <2>1, <2>2, <2>3 DEF Reg, LastReg
<1>5. \A k \in 1 .. Len(bytes) : Reg(tr, k) # 14
  BY DEF SpiWriteRegs, Control, bytes
<1>6. \A k \in 1 .. Len(bytes) : regs[k] = Reg(tr, k)
  BY <1>3
<1>7. Writable(regs, bytes)
  <2> HIDE DEF regs
  <2> QED
    BY <1>3, <1>4, <1>5, <1>6 DEF Writable
<1> HIDE DEF regs
<1>8. rtc' \in Clocks(AlarmTime) /\ NotRaised
  BY <1>2, <1>7, TransferWritten DEF NotRaised
<1>9. ASSUME NEW w \in {1, 2}, Has(rtc.status, w), ~Has(rtc'.status, w)
      PROVE  Acknowledged(w)
  <2>1. PICK k \in 1 .. Len(bytes) : regs[k] = 15 /\ ~Has(bytes[k], w)
    BY <1>2, <1>7, <1>9, TransferWritten
  <2>2. k \in DOMAIN Data(tr) /\ Reg(tr, k) = 15 /\ Clears(Data(tr)[k], w)
    BY <1>3, <1>6, <2>1 DEF Clears, bytes
  <2> QED
    BY <2>2 DEF Acknowledged
<1> QED
  BY <1>8, <1>9 DEF ClearedWhenTold

\* Every step of the SPI clock: only a poll makes an alarm ring, and only a
\* 0 written to status ends it.
LEMMA SpiStep ==
  ASSUME ClockInv, program = "spi", SpiNext
  PROVE  /\ rtc' \in Clocks(AlarmTime) /\ ClearedWhenTold
         /\ NotRaised \/ (SpiSelect /\ Poll)
<1>1. rtc \in Clocks(AlarmTime)
  BY DEF ClockInv
<1>2. CASE SpiSelect
  BY <1>1, <1>2, PollStep DEF SpiSelect, ClearedWhenTold
<1>3. CASE UNCHANGED rtc
  BY <1>1, <1>3 DEF ClearedWhenTold, NotRaised
<1>4. CASE \E tr \in SpiTransfers : SpiWriteRegs(tr)
  BY <1>4, SpiWriteStep
<1> QED
  BY <1>2, <1>3, <1>4
     DEF SpiNext, SpiTransfer, SpiWriteControl, SpiReadRegs, SpiSramAddress,
         SpiSramData, SpiUndefined, Tick, Dies, rtcVars

\* The bytes of a transfer to the I2C clock: a flag goes off for one of them
\* that is 0 there and goes to status.
LEMMA I2CWriteStep ==
  ASSUME ClockInv, program = "i2c", NEW from \in Int, NEW first \in {0, 1},
         NEW bytes \in Seq(Byte), WriteBytes(from, first, bytes)
  PROVE  /\ rtc' \in Clocks(AlarmTime) /\ index' \in Int /\ now' = now /\ NotRaised
         /\ \A w \in {1, 2} :
              Has(rtc.status, w) /\ ~Has(rtc'.status, w) =>
                \E k \in 1 .. Len(bytes) :
                   ~Has(bytes[k], w) /\ (from + first + k - 1) % 19 = 15
<1> DEFINE reg(k) == (from + first + k - 1) % (LastReg + 1)
           n == Len(bytes)
           regs == [k \in 1 .. n |-> Target(reg(k))]
<1>1. rtc \in Clocks(AlarmTime) /\ index \in Int
  BY DEF ClockInv
<1>2. /\ n \in Nat /\ DOMAIN bytes = 1 .. n
      /\ \A k \in 1 .. n : bytes[k] \in Byte
  OBVIOUS
<1>3. CASE Dies /\ UNCHANGED index
  BY <1>1, <1>3 DEF Dies, NotRaised
<1>4. CASE /\ \A k \in 1 .. n : reg(k) # Control
           /\ rtc' = Written(rtc, regs, bytes)
           /\ index' = (reg(n) + 1) % (LastReg + 1)
           /\ UNCHANGED <<now, up>>
  <2> HIDE DEF n
  <2>1. \A k \in Nat : reg(k) = (from + first + k - 1) % 19 /\ reg(k) \in 0 .. 18
    BY DEF LastReg
  <2>2. index' \in Int
    BY <1>2, <1>4, <2>1 DEF LastReg
  <2>3. \A k \in 1 .. n : regs[k] = Target(reg(k))
    OBVIOUS
  <2> HIDE DEF reg, regs
  <2>4. \A k \in 1 .. n : k \in Nat
    BY <1>2
  <2>5. \A k \in 1 .. n : /\ regs[k] \in (0 .. 18) \ {14}
                          /\ regs[k] = 15 => reg(k) = 15
    <3>1. \A k \in 1 .. n : reg(k) \in 0 .. 18 /\ reg(k) # 14
      BY <1>4, <2>1, <2>4 DEF Control
    <3>2. QED
      <4>1. ASSUME NEW k \in 1 .. n
            PROVE  /\ regs[k] \in (0 .. 18) \ {14}
                   /\ regs[k] = 15 => reg(k) = 15
        <5> DEFINE x == reg(k)
        <5>1. x \in 0 .. 18 /\ x # 14 /\ regs[k] = Target(x)
          BY <2>3, <3>1, <4>1
        <5> HIDE DEF x
        <5>2. regs[k] \in (0 .. 18) \ {14} /\ (regs[k] = 15 => x = 15)
          BY <5>1 DEF Target
        <5> QED
          BY ONLY <5>2 DEF x
      <4> QED
        BY ONLY <4>1
  <2>6. Writable(regs, bytes)
    BY <1>2, <2>5 DEF Writable, n
  <2>7. rtc' \in Clocks(AlarmTime) /\ NotRaised
    BY <1>1, <1>4, <2>6, TransferWritten DEF NotRaised
  <2>8. ASSUME NEW w \in {1, 2}, Has(rtc.status, w), ~Has(rtc'.status, w)
        PROVE  \E k \in 1 .. Len(bytes) :
                   ~Has(bytes[k], w) /\ (from + first + k - 1) % 19 = 15
    <3>1. PICK k \in 1 .. Len(bytes) : regs[k] = 15 /\ ~Has(bytes[k], w)
      BY <1>1, <1>4, <2>6, <2>8, TransferWritten
    <3>2. reg(k) = (from + first + k - 1) % 19 /\ reg(k) = 15
      BY <2>1, <2>4, <2>5, <3>1 DEF n
    <3> QED
      BY <3>1, <3>2
  <2> QED
    BY <1>4, <2>2, <2>7, <2>8
<1>5. \/ Dies /\ UNCHANGED index
      \/ /\ \A k \in 1 .. n : reg(k) # Control
         /\ rtc' = Written(rtc, regs, bytes)
         /\ index' = (reg(n) + 1) % (LastReg + 1)
         /\ UNCHANGED <<now, up>>
  <2> HIDE DEF ClearedWhenTold
  <2> QED
    BY DEF WriteBytes
<1> QED
  BY <1>3, <1>4, <1>5 DEF Dies

\* The first transfer after a START, whose first byte is the register.
LEMMA I2CFirstStep ==
  ASSUME ClockInv, program = "i2c", I2CWriteFirst
  PROVE  /\ rtc' \in Clocks(AlarmTime) /\ index' \in Int /\ now' = now
         /\ ClearedWhenTold /\ NotRaised
<1>1. rtc \in Clocks(AlarmTime)
  BY DEF ClockInv
<1>2. PICK bytes \in I2CWrites :
         \/ Len(bytes) = 1 /\ index' = bytes[1] /\ UNCHANGED rtcVars
         \/ Len(bytes) > 1 /\ WriteBytes(bytes[1], 1, Tail(bytes))
  BY DEF I2CWriteFirst
<1>3. bytes \in Seq(Byte) /\ bytes # <<>> /\ bytes[1] \in Byte
  BY I2CAssumption
<1>4. bytes[1] \in Int
  <2>1. \A b \in Byte : b \in Int
    BY DEF Byte
  <2> QED
    BY ONLY <1>3, <2>1
<1>5. CASE Len(bytes) = 1 /\ index' = bytes[1] /\ UNCHANGED rtcVars
  BY <1>1, <1>4, <1>5 DEF rtcVars, ClearedWhenTold, NotRaised
<1>6. CASE Len(bytes) > 1 /\ WriteBytes(bytes[1], 1, Tail(bytes))
  <2> DEFINE rest == Tail(bytes)
             b1 == bytes[1]
  <2>1. /\ rest \in Seq(Byte) /\ Len(rest) = Len(bytes) - 1
        /\ \A k \in 1 .. Len(rest) : rest[k] = bytes[k + 1]
        /\ \A k \in 1 .. Len(rest) : k + 1 \in DOMAIN bytes
    BY <1>3, <1>6
  <2>2. WriteBytes(b1, 1, rest) /\ b1 \in Int /\ 1 \in {0, 1}
    BY <1>4, <1>6
  <2>3. started /\ phase' = "writing"
    BY DEF I2CWriteFirst
  <2> HIDE DEF rest
  <2>4. /\ rtc' \in Clocks(AlarmTime) /\ index' \in Int /\ now' = now /\ NotRaised
        /\ \A w \in {1, 2} :
             Has(rtc.status, w) /\ ~Has(rtc'.status, w) =>
               \E k \in 1 .. Len(rest) :
                  ~Has(rest[k], w) /\ (b1 + 1 + k - 1) % 19 = 15
    <3> HIDE DEF b1
    <3> QED
      BY <2>1, <2>2, I2CWriteStep
  <2>5. ASSUME NEW w \in {1, 2}, Has(rtc.status, w), ~Has(rtc'.status, w)
        PROVE  Acknowledged(w)
    <3>1. PICK k \in 1 .. Len(rest) :
             ~Has(rest[k], w) /\ (b1 + 1 + k - 1) % 19 = 15
      BY <2>4, <2>5
    <3> DEFINE i == k + 1
    <3>2. /\ i \in DOMAIN bytes /\ Clears(bytes[i], w)
          /\ 15 = (bytes[1] + i - 1) % 19
      <4>1. k \in Int
        BY <2>1
      <4>2. b1 + 1 + k - 1 = b1 + i - 1
        BY <2>2, <4>1
      <4>3. ~Has(bytes[i], w) /\ i \in DOMAIN bytes
        BY <2>1, <3>1
      <4> HIDE DEF i
      <4> QED
        BY <3>1, <4>2, <4>3 DEF Clears
    <3> HIDE DEF i
    <3> QED
      BY <2>3, <3>2 DEF Acknowledged
  <2> QED
    BY <2>4, <2>5 DEF ClearedWhenTold
<1> QED
  BY <1>2, <1>5, <1>6

\* The transfers after it go on at the index.
LEMMA I2CMoreStep ==
  ASSUME ClockInv, program = "i2c", I2CWriteMore
  PROVE  /\ rtc' \in Clocks(AlarmTime) /\ index' \in Int /\ now' = now
         /\ ClearedWhenTold /\ NotRaised
<1>1. PICK bytes \in I2CMore : WriteBytes(index, 0, bytes)
  BY DEF I2CWriteMore
<1>2. bytes \in Seq(Byte) /\ index \in Int /\ 0 \in {0, 1}
      /\ DOMAIN bytes = 1 .. Len(bytes)
  BY I2CAssumption DEF ClockInv
<1>3. /\ rtc' \in Clocks(AlarmTime) /\ index' \in Int /\ now' = now /\ NotRaised
      /\ \A w \in {1, 2} :
           Has(rtc.status, w) /\ ~Has(rtc'.status, w) =>
             \E k \in 1 .. Len(bytes) :
                ~Has(bytes[k], w) /\ (index + 0 + k - 1) % 19 = 15
  BY <1>1, <1>2, I2CWriteStep
<1>4. ~started /\ phase' = "writing"
  BY DEF I2CWriteMore
<1>5. ASSUME NEW w \in {1, 2}, Has(rtc.status, w), ~Has(rtc'.status, w)
      PROVE  Acknowledged(w)
  <2>1. PICK k \in 1 .. Len(bytes) :
             ~Has(bytes[k], w) /\ (index + 0 + k - 1) % 19 = 15
    BY <1>3, <1>5
  <2>2. k \in DOMAIN bytes /\ Clears(bytes[k], w) /\ 15 = (index + k - 1) % 19
    BY <1>2, <2>1 DEF Clears
  <2> QED
    BY <1>4, <2>2 DEF Acknowledged
<1> QED
  BY <1>3, <1>5 DEF ClearedWhenTold

\* Time goes on to another of the instants.
LEMMA TickStep == ClockInv /\ Tick => now' \in DOMAIN Instants /\ UNCHANGED rtc
<1>1. ASSUME NEW i \in DOMAIN Instants, NEW j \in i + 1 .. Len(Instants)
      PROVE  j \in DOMAIN Instants
  BY InstantsAssumption
<1> QED
  BY <1>1 DEF ClockInv, Tick

\* Every step of the I2C clock.
LEMMA I2CStep ==
  ASSUME ClockInv, program = "i2c", I2CNext
  PROVE  /\ rtc' \in Clocks(AlarmTime) /\ index' \in Int
         /\ now' \in DOMAIN Instants /\ ClearedWhenTold
         /\ NotRaised \/ (I2CStart /\ Poll)
<1>1. rtc \in Clocks(AlarmTime) /\ index \in Int /\ now \in DOMAIN Instants
  BY DEF ClockInv
<1>2. CASE I2CStart
  BY <1>1, <1>2, PollStep DEF I2CStart, ClearedWhenTold
<1>3. CASE UNCHANGED <<rtc, index>> /\ now' \in DOMAIN Instants
  BY <1>1, <1>3 DEF ClearedWhenTold, NotRaised
<1>4. CASE I2CWriteFirst
  BY <1>1, <1>4, I2CFirstStep
<1>5. CASE I2CWriteMore
  BY <1>1, <1>5, I2CMoreStep
<1>6. CASE I2CStop
  BY <1>1, <1>3, <1>6 DEF I2CStop, rtcVars
<1>7. CASE I2CRead
  <2>1. CASE Dies /\ UNCHANGED index
    BY <1>1, <1>3, <2>1 DEF Dies
  <2>2. ASSUME NEW n \in I2CReads, index' = (((index + n - 1) % (LastReg + 1)) + 1) % (LastReg + 1),
               UNCHANGED rtcVars
        PROVE  index' \in Int /\ UNCHANGED <<rtc, now>>
    BY <1>1, <2>2, I2CAssumption DEF LastReg, rtcVars
  <2>3. \/ Dies /\ UNCHANGED index
        \/ /\ UNCHANGED rtcVars
           /\ \E n \in I2CReads :
                index' = (((index + n - 1) % (LastReg + 1)) + 1) % (LastReg + 1)
    BY <1>7 DEF I2CRead
  <2>4. CASE index' \in Int /\ UNCHANGED <<rtc, now>>
    BY <1>1, <2>4 DEF ClearedWhenTold, NotRaised
  <2> QED
    BY <2>1, <2>2, <2>3, <2>4
<1>8. CASE Tick /\ UNCHANGED i2cVars
  BY <1>3, <1>8, TickStep DEF i2cVars
<1> QED
  BY <1>2, <1>4, <1>5, <1>6, <1>7, <1>8 DEF I2CNext

\* What an alarm command stores is an alarm again.
LEMMA AlarmAfterType ==
  ASSUME NEW r \in Clocks(TimeType), NEW d \in Seq(Byte), Len(d) = 7
  PROVE  AlarmAfter(r, d) \in TimeType
<1> DEFINE a == r.Alarm1
           day == ((r.time.day - 1 + d[1]) % 7) + 1 + (IF d[7] = 0 THEN 64 ELSE 0)
           a1 == IF d[1] < 7 THEN WriteDay(a, day) ELSE a
           hours == (r.time.hours + d[2]) % 24
           a2 == IF d[2] < 24 THEN WriteHours(a1, hours) ELSE a1
           minutes == (r.time.minutes + d[3]) % 60
<1>1. /\ a \in TimeType /\ r.time.day \in Int /\ r.time.hours \in Int
      /\ r.time.minutes \in Int
  BY DEF Clocks, ClockTime
<1>2. \A b \in Byte : b \in Int
  BY DEF Byte
<1>3. d[1] \in Byte /\ d[2] \in Byte /\ d[3] \in Byte
  <2>1. \A i \in 1 .. Len(d) : d[i] \in Byte
    <3>1. \A s \in Seq(Byte) : \A i \in 1 .. Len(s) : s[i] \in Byte
      OBVIOUS
    <3>2. d \in Seq(Byte)
      OBVIOUS
    <3> QED
      BY ONLY <3>1, <3>2
  <2>2. 1 \in 1 .. Len(d) /\ 2 \in 1 .. Len(d) /\ 3 \in 1 .. Len(d)
    OBVIOUS
  <2> QED
    BY ONLY <2>1, <2>2
<1>4. d[1] \in Int /\ d[2] \in Int /\ d[3] \in Int
  BY ONLY <1>2, <1>3
<1>5. day \in Byte
  <2>1. ASSUME NEW x \in Int PROVE (x % 7) + 1 \in 1 .. 7
    OBVIOUS
  <2>2. r.time.day - 1 + d[1] \in Int
    BY <1>1, <1>4
  <2>3. ((r.time.day - 1 + d[1]) % 7) + 1 \in 1 .. 7
    BY <2>1, <2>2
  <2>4. \A x \in 1 .. 7 : x + 64 \in Byte /\ x + 0 \in Byte
    BY DEF Byte
  <2>5. CASE d[7] = 0
    <3>1. day = ((r.time.day - 1 + d[1]) % 7) + 1 + 64
      BY <2>5
    <3> HIDE DEF day
    <3> QED
      BY ONLY <2>3, <2>4, <3>1
  <2>6. CASE d[7] # 0
    <3>1. day = ((r.time.day - 1 + d[1]) % 7) + 1 + 0
      BY <2>6
    <3> HIDE DEF day
    <3> QED
      BY ONLY <2>3, <2>4, <3>1
  <2> QED
    BY <2>5, <2>6
<1>6. hours \in Byte
  <2>1. ASSUME NEW x \in Int PROVE x % 24 \in Byte
    BY DEF Byte
  <2>2. r.time.hours + d[2] \in Int
    BY <1>1, <1>4
  <2> QED
    BY <2>1, <2>2
<1>7. minutes \in Byte
  <2>1. ASSUME NEW x \in Int PROVE x % 60 \in Byte
    BY DEF Byte
  <2>2. r.time.minutes + d[3] \in Int
    BY <1>1, <1>4
  <2> QED
    BY <2>1, <2>2
<1>8. AlarmAfter(r, d) = IF d[3] < 60 THEN [a2 EXCEPT !.minutes = minutes] ELSE a2
  BY DEF AlarmAfter
<1> HIDE DEF day, hours, minutes, a
<1>9. a1 \in TimeType
  <2>1. (day \div 64) * 64 + (day % 8) \in Byte
    BY <1>5, Masked64
  <2> QED
    BY <1>1, <2>1 DEF WriteDay, TimeType
<1> HIDE DEF a1
<1>10. a2 \in TimeType
  <2>1. (IF Has(hours, 64) /\ hours % 32 = 0
         THEN (IF Has(hours, 32) THEN hours - 32 ELSE hours + 32) + 1
         ELSE hours) \in Byte
    BY <1>6, HoursByte
  <2> QED
    BY <1>9, <2>1 DEF WriteHours, TimeType
<1> HIDE DEF a2
<1> QED
  BY <1>7, <1>8, <1>10 DEF TimeType

\* Every step of the CAN clock: no alarm ever stops ringing.
LEMMA CanStep ==
  ASSUME ClockInv, program = "can", CanNext
  PROVE  /\ rtc' \in Clocks(TimeType) /\ now' \in DOMAIN Instants
         /\ \A w \in {1, 2} : Has(rtc.status, w) => Has(rtc'.status, w)
         /\ NotRaised \/ CanTx
<1>1. rtc \in Clocks(TimeType) /\ now \in DOMAIN Instants
  BY DEF ClockInv
<1>2. CASE UNCHANGED rtc /\ now' \in DOMAIN Instants
  BY <1>1, <1>2 DEF NotRaised
<1>3. /\ Polled \in Clocks(TimeType)
      /\ \A w \in {1, 2} : Has(rtc.status, w) => Has(Polled.status, w)
  BY <1>1, LocalNow, AlarmsPolled DEF Polled
<1>4. CASE CanTx
  <2>1. PICK f \in CanFrames :
          \/ f.ide /\ UNCHANGED <<rtc, canVars>>
          \/ ~f.ide /\ (Initialize(f) \/ Query(f) \/ SetAlarm(f) \/ Unanswered(f))
    BY <1>4 DEF CanTx
  <2>2. now' = now
    BY <1>4 DEF CanTx
  <2>3. CASE rtc' = Polled
    BY <1>1, <1>3, <1>4, <2>2, <2>3
  <2>4. CASE SetAlarm(f)
    <3> DEFINE alarm == AlarmAfter(Polled, f.data)
    <3>1. f.data \in Seq(Byte) /\ Len(f.data) = 7
      BY <2>4, CanAssumption DEF SetAlarm
    <3>2. alarm \in TimeType
      BY <1>3, <3>1, AlarmAfterType
    <3>3. rtc' = [Polled EXCEPT !.Alarm1 = alarm]
      BY <2>4 DEF SetAlarm
    <3> HIDE DEF alarm
    <3>4. rtc' \in Clocks(TimeType) /\ rtc'.status = Polled.status
      BY <1>3, <3>2, <3>3 DEF Clocks
    <3> QED
      BY <1>1, <1>3, <1>4, <2>2, <3>4
  <2> QED
    BY <1>1, <1>2, <2>1, <2>2, <2>3, <2>4 DEF Initialize, Query, Unanswered
<1>5. CASE CanRxAck
  BY <1>1, <1>2, <1>5 DEF CanRxAck, rtcVars
<1>6. CASE Tick /\ UNCHANGED canVars
  BY <1>2, <1>6, TickStep
<1> QED
  BY <1>4, <1>5, <1>6 DEF CanNext

-----------------------------------------------------------------------------
(* The older I2C clock.                                                    *)

\* The function that DsWritten ends with, and a set its bytes stay in.
DsWrittenUpTo(o, regs, bytes) ==
  LET upTo[k \in 0 .. Len(bytes)] ==
        IF k <= 1 THEN o ELSE DsWriteReg(upTo[k - 1], regs[k], bytes[k])
  IN  upTo
DsStays(S, regs, bytes) ==
  \A x \in S : \A k \in 2 .. Len(bytes) : DsWriteReg(x, regs[k], bytes[k]) \in S

\* What a transfer to the older clock writes stays in a set that each of its
\* bytes stays in.
LEMMA DsWrittenStays ==
  ASSUME NEW S, NEW o \in S, NEW regs, NEW bytes, Len(bytes) \in Nat,
         DsStays(S, regs, bytes)
  PROVE  DsWritten(o, regs, bytes) \in S
<1> DEFINE n == Len(bytes)
           Next1(x, k) == IF k = 1 THEN o ELSE DsWriteReg(x, regs[k], bytes[k])
           G == [k \in 1 .. n |-> [x \in S |-> Next1(x, k)]]
           F(f) == [k \in 0 .. n |-> IF k <= 1 THEN o
                                     ELSE DsWriteReg(f[k - 1], regs[k], bytes[k])]
           g == DsWrittenUpTo(o, regs, bytes)
<1>1. G \in [1 .. n -> [S -> S]]
  <2>1. ASSUME NEW k \in 1 .. n, NEW x \in S PROVE Next1(x, k) \in S
    <3>1. k = 1 \/ k \in 2 .. n
      OBVIOUS
    <3> QED
      BY <3>1 DEF DsStays
  <2> HIDE DEF Next1
  <2> QED
    BY <2>1
<1>2. PICK f \in [0 .. n -> S] :
        f[0] = o /\ \A k \in 1 .. n : f[k] = G[k][f[k - 1]]
  <2> HIDE DEF G, n
  <2>1. n \in Nat
    BY DEF n
  <2>2. \E f : Recurs(f, S, n, o, G)
    BY <1>1, <2>1, RecursionExists
  <2> QED
    BY <2>2 DEF Recurs
<1>3. f = F(f)
  <2>1. ASSUME NEW k \in 1 .. n
        PROVE  f[k] = Next1(f[k - 1], k)
    <3>1. f[k - 1] \in S
      OBVIOUS
    <3> HIDE DEF Next1
    <3> QED
      BY <1>2, <3>1
  <2>2. ASSUME NEW k \in 0 .. n
        PROVE  f[k] = IF k <= 1 THEN o ELSE DsWriteReg(f[k - 1], regs[k], bytes[k])
    <3>1. k = 0 \/ (k = 1 /\ k \in 1 .. n) \/ (k \in 1 .. n /\ ~(k <= 1) /\ k # 1)
      OBVIOUS
    <3> HIDE DEF G, F
    <3>2. CASE k = 0
      BY <1>2, <3>2
    <3>3. CASE k = 1 /\ k \in 1 .. n
      BY <2>1, <3>3
    <3>4. CASE k \in 1 .. n /\ ~(k <= 1) /\ k # 1
      BY <2>1, <3>4
    <3> QED
      BY <3>1, <3>2, <3>3, <3>4
  <2>3. f = [k \in 0 .. n |-> f[k]]
    OBVIOUS
  <2> HIDE DEF G
  <2> QED
    BY <2>2, <2>3
<1>4. g = F(g)
  BY <1>3 DEF DsWrittenUpTo
<1>5. \A k \in 0 .. n : g[k] = IF k <= 1 THEN o
                               ELSE DsWriteReg(g[k - 1], regs[k], bytes[k])
  <2> HIDE DEF g
  <2> QED
    BY <1>4
<1> DEFINE P == {k \in Nat : k <= n => g[k] \in S}
<1> HIDE DEF g
<1>6. 0 \in P
  <2>1. 0 \in 0 .. n /\ 0 <= 1
    OBVIOUS
  <2>2. g[0] = o
    BY <1>5, <2>1
  <2> QED
    BY <2>2
<1>7. ASSUME NEW k \in Nat, k \in P PROVE k + 1 \in P
  <2>1. SUFFICES ASSUME k + 1 <= n PROVE g[k + 1] \in S
    OBVIOUS
  <2> DEFINE i == k + 1
  <2>2. i \in 0 .. n /\ i - 1 = k /\ (i <= 1 \/ i \in 2 .. n) /\ k <= n
    BY <2>1
  <2>3. g[k] \in S
    BY <1>7, <2>2
  <2> HIDE DEF i, n, P
  <2>4. g[i] = IF i <= 1 THEN o ELSE DsWriteReg(g[i - 1], regs[i], bytes[i])
    BY ONLY <1>5, <2>2
  <2>5. g[i] \in S
    <3>1. CASE i <= 1
      BY <2>4, <3>1
    <3>2. CASE ~(i <= 1)
      <4>1. g[i] = DsWriteReg(g[k], regs[i], bytes[i]) /\ i \in 2 .. n
        BY <2>2, <2>4, <3>2
      <4> QED
        BY <2>3, <4>1 DEF DsStays, n
    <3> QED
      BY <3>1, <3>2
  <2> QED
    BY <2>5 DEF i
<1>8. \A k \in Nat : k \in P
  <2> HIDE DEF P
  <2> QED
    BY <1>6, <1>7, NatInduct
<1>9. g[n] \in S
  BY <1>8
<1> QED
  BY <1>9 DEF g, DsWritten, DsWrittenUpTo

\* A flag stays on unless a 0 is written to it, and no write raises one.
LEMMA DsRegWritten ==
  ASSUME NEW o \in DsType, NEW reg \in 0 .. 18, NEW b \in Byte
  PROVE  /\ DsWriteReg(o, reg, b) \in DsType
         /\ \A w \in {1, 2} : Has(DsWriteReg(o, reg, b).status, w)
                              <=> Keeps(o, reg, b, w)
<1>1. CASE reg = 15
  <2> DEFINE kept(w) == IF Has(b, w) /\ Has(o.status, w) THEN w ELSE 0
             high == IF Has(b, 8) THEN 8 ELSE 128
             status == high + kept(2) + kept(1)
  <2>1. DsWriteReg(o, reg, b) = [o EXCEPT !.status = status]
    BY <1>1 DEF DsWriteReg, DsWriteStatus
  <2>2. high \in {8, 128} /\ kept(2) \in {0, 2} /\ kept(1) \in {0, 1}
    OBVIOUS
  <2>3. /\ status \in Byte
        /\ Has(status, 1) <=> kept(1) = 1
        /\ Has(status, 2) <=> kept(2) = 2
    <3> HIDE DEF kept, high
    <3> QED
      BY <2>2 DEF Has, Byte, status
  <2>4. DsWriteReg(o, reg, b) \in DsType /\ DsWriteReg(o, reg, b).status = status
    <3>1. status \in Byte
      BY <2>3
    <3> HIDE DEF status
    <3> QED
      BY <2>1, <3>1 DEF DsType
  <2> HIDE DEF status
  <2> QED
    BY <1>1, <2>3, <2>4 DEF Keeps
<1>2. CASE reg # 15
  <2> DEFINE x == DsWriteReg(o, reg, b)
  <2>1. x \in DsType /\ x.status = o.status
    <3>1. b % 32 \in Byte
      BY DEF Byte
    <3>2. CASE reg = 2
      BY <3>2 DEF DsWriteReg, DsType
    <3>3. CASE reg = 7
      BY <3>3 DEF DsWriteReg, DsType
    <3>4. CASE reg = 8
      BY <3>4 DEF DsWriteReg, DsType
    <3>5. CASE reg = 9
      BY <3>5 DEF DsWriteReg, DsType
    <3>6. CASE reg \in {10, 13}
      BY <3>6 DEF DsWriteReg, DsType
    <3>7. CASE reg = 11
      BY <3>7 DEF DsWriteReg, DsType
    <3>8. CASE reg = 12
      BY <3>8 DEF DsWriteReg, DsType
    <3>9. CASE reg = 14
      BY <3>1, <3>9 DEF DsWriteReg, DsType
    <3>10. CASE reg = 16
      BY <3>10 DEF DsWriteReg, DsType
    <3>11. CASE reg \in {0, 1, 3, 4, 5, 6, 17, 18}
      BY <3>11 DEF DsWriteReg
    <3> QED
      BY <1>2, <3>2, <3>3, <3>4, <3>5, <3>6, <3>7, <3>8, <3>9, <3>10, <3>11
  <2> HIDE DEF x
  <2> QED
    BY <1>2, <2>1 DEF x, Keeps
<1> QED
  BY <1>1, <1>2

\* The bytes of a transfer to the older clock.
LEMMA DsWriteBytesStep ==
  ASSUME ClockInv, NEW from \in Int, NEW bytes \in Seq(Byte), bytes # <<>>,
         DsWriteBytes(from, bytes)
  PROVE  /\ ds' \in DsType /\ index' \in Int
         /\ \A w \in {1, 2} :
              /\ Has(ds'.status, w) => Has(ds.status, w)
              /\ Has(ds.status, w) /\ ~Has(ds'.status, w) =>
                   \E k \in DOMAIN bytes :
                      ~Has(bytes[k], w) /\ (from + k - 1) % 19 = 15
<1> DEFINE reg(k) == (from + k - 1) % (LastReg + 1)
           n == Len(bytes)
           regs == [k \in 1 .. n |-> reg(k)]
<1>1. /\ ds' = DsWritten(ds, regs, bytes)
      /\ index' = IF n = 1 THEN 1 ELSE (reg(n) + 1) % (LastReg + 1)
  BY DEF DsWriteBytes
<1>2. /\ n \in Nat /\ DOMAIN bytes = 1 .. n /\ ds \in DsType
      /\ \A k \in 1 .. n : bytes[k] \in Byte
  BY DEF ClockInv
<1> HIDE DEF n
<1>3. \A k \in Nat : reg(k) = (from + k - 1) % 19 /\ reg(k) \in 0 .. 18
  BY DEF LastReg
<1>4. index' \in Int
  BY <1>1, <1>2, <1>3 DEF LastReg
<1>5. \A k \in 1 .. n : k \in Nat /\ regs[k] = reg(k)
  BY <1>2
<1> HIDE DEF reg, regs
<1>6. \A k \in 1 .. n : /\ regs[k] = (from + k - 1) % 19
                        /\ regs[k] \in 0 .. 18
  BY <1>3, <1>5
<1>7. \A k \in 2 .. n : k \in 1 .. n
  BY <1>2
<1>8. ds' \in DsType
  <2>1. DsStays(DsType, regs, bytes)
    BY <1>2, <1>6, <1>7, DsRegWritten DEF DsStays, n
  <2> QED
    BY <1>1, <1>2, <2>1, DsWrittenStays DEF n
<1>9. ASSUME NEW w \in {1, 2}, ~Has(ds.status, w)
      PROVE  ~Has(ds'.status, w)
  <2> DEFINE S == {x \in DsType : ~Has(x.status, w)}
  <2>1. DsStays(S, regs, bytes)
    <3>1. ASSUME NEW x \in S, NEW k \in 2 .. n
          PROVE  DsWriteReg(x, regs[k], bytes[k]) \in S
      <4> DEFINE y == DsWriteReg(x, regs[k], bytes[k])
      <4>1. regs[k] \in 0 .. 18 /\ bytes[k] \in Byte
        BY <1>2, <1>6, <1>7
      <4>2. x \in DsType /\ w \in {1, 2}
        OBVIOUS
      <4>3. y \in DsType /\ (Has(y.status, w) <=> Keeps(x, regs[k], bytes[k], w))
        BY ONLY <4>1, <4>2, DsRegWritten
      <4> HIDE DEF y
      <4>4. y \in S
        BY <4>3 DEF Keeps
      <4> QED
        BY <4>4 DEF y
    <3> QED
      BY <3>1 DEF DsStays, n
  <2>2. ds \in S
    BY <1>2, <1>9
  <2>3. ds' \in S
    <3> HIDE DEF S
    <3> QED
      BY <1>1, <1>2, <2>1, <2>2, DsWrittenStays DEF n
  <2> QED
    BY <2>3
<1>10. ASSUME NEW w \in {1, 2}, Has(ds.status, w),
              \A k \in 1 .. n : regs[k] = 15 => Has(bytes[k], w)
       PROVE  Has(ds'.status, w)
  <2> DEFINE S == {x \in DsType : Has(x.status, w)}
  <2>1. DsStays(S, regs, bytes)
    <3>1. ASSUME NEW x \in S, NEW k \in 2 .. n
          PROVE  DsWriteReg(x, regs[k], bytes[k]) \in S
      <4> DEFINE y == DsWriteReg(x, regs[k], bytes[k])
      <4>1. regs[k] \in 0 .. 18 /\ bytes[k] \in Byte
        BY <1>2, <1>6, <1>7
      <4>2. x \in DsType /\ w \in {1, 2}
        OBVIOUS
      <4>3. y \in DsType /\ (Has(y.status, w) <=> Keeps(x, regs[k], bytes[k], w))
        BY ONLY <4>1, <4>2, DsRegWritten
      <4> HIDE DEF y
      <4>4. y \in S
        BY <1>7, <1>10, <4>3 DEF Keeps
      <4> QED
        BY <4>4 DEF y
    <3> QED
      BY <3>1 DEF DsStays, n
  <2>2. ds \in S
    BY <1>2, <1>10
  <2>3. ds' \in S
    <3> HIDE DEF S
    <3> QED
      BY <1>1, <1>2, <2>1, <2>2, DsWrittenStays DEF n
  <2> QED
    BY <2>3
<1>11. ASSUME NEW w \in {1, 2}, Has(ds.status, w), ~Has(ds'.status, w)
       PROVE  \E k \in DOMAIN bytes :
                 ~Has(bytes[k], w) /\ (from + k - 1) % 19 = 15
  <2>1. PICK k \in 1 .. n : regs[k] = 15 /\ ~Has(bytes[k], w)
    BY <1>10, <1>11
  <2> QED
    BY <1>2, <1>6, <2>1
<1> QED
  BY <1>4, <1>8, <1>9, <1>11

\* A transfer to the older clock, the one that carries the register or a
\* later one.
LEMMA DsWriteStep ==
  ASSUME ClockInv, program = "ds3231", DsWrite
  PROVE  /\ ds' \in DsType /\ index' \in Int /\ UNCHANGED rtcVars
         /\ \A w \in {1, 2} :
              /\ Has(ds'.status, w) => Has(ds.status, w)
              /\ Has(ds.status, w) /\ ~Has(ds'.status, w) => Acknowledged(w)
<1>1. ds \in DsType /\ index \in Int
  BY DEF ClockInv
<1>2. phase' = "writing" /\ UNCHANGED rtcVars
  BY DEF DsWrite
<1>3. \A b \in Byte : b \in Int
  BY DEF Byte
<1>4. ASSUME started, NEW bytes \in I2CWrites, DsWriteBytes(bytes[1], bytes)
      PROVE  /\ ds' \in DsType /\ index' \in Int
             /\ \A w \in {1, 2} :
                  /\ Has(ds'.status, w) => Has(ds.status, w)
                  /\ Has(ds.status, w) /\ ~Has(ds'.status, w) => Acknowledged(w)
  <2> DEFINE b1 == bytes[1]
  <2>1. bytes \in Seq(Byte) /\ bytes # <<>> /\ b1 \in Byte
    BY I2CAssumption
  <2>2. b1 \in Int
    BY ONLY <1>3, <2>1
  <2>3. DsWriteBytes(b1, bytes)
    BY <1>4
  <2> HIDE DEF b1
  <2>4. /\ ds' \in DsType /\ index' \in Int
        /\ \A w \in {1, 2} :
             /\ Has(ds'.status, w) => Has(ds.status, w)
             /\ Has(ds.status, w) /\ ~Has(ds'.status, w) =>
                  \E k \in DOMAIN bytes :
                     ~Has(bytes[k], w) /\ (b1 + k - 1) % 19 = 15
    BY <2>1, <2>2, <2>3, DsWriteBytesStep
  <2>5. ASSUME NEW w \in {1, 2}, Has(ds.status, w), ~Has(ds'.status, w)
        PROVE  Acknowledged(w)
    <3>1. PICK k \in DOMAIN bytes : ~Has(bytes[k], w) /\ (b1 + k - 1) % 19 = 15
      BY <2>4, <2>5
    <3>2. Clears(bytes[k], w) /\ 15 = (bytes[1] + k - 1) % 19
      BY <3>1 DEF Clears, b1
    <3> QED
      BY <1>2, <1>4, <3>2 DEF Acknowledged
  <2> QED
    BY <2>4, <2>5
<1>5. ASSUME ~started, NEW bytes \in I2CMore, DsWriteBytes(index, bytes)
      PROVE  /\ ds' \in DsType /\ index' \in Int
             /\ \A w \in {1, 2} :
                  /\ Has(ds'.status, w) => Has(ds.status, w)
                  /\ Has(ds.status, w) /\ ~Has(ds'.status, w) => Acknowledged(w)
  <2>1. bytes \in Seq(Byte) /\ bytes # <<>>
    BY I2CAssumption
  <2>2. /\ ds' \in DsType /\ index' \in Int
        /\ \A w \in {1, 2} :
             /\ Has(ds'.status, w) => Has(ds.status, w)
             /\ Has(ds.status, w) /\ ~Has(ds'.status, w) =>
                  \E k \in DOMAIN bytes :
                     ~Has(bytes[k], w) /\ (index + k - 1) % 19 = 15
    BY <1>1, <1>5, <2>1, DsWriteBytesStep
  <2>3. ASSUME NEW w \in {1, 2}, Has(ds.status, w), ~Has(ds'.status, w)
        PROVE  Acknowledged(w)
    <3>1. PICK k \in DOMAIN bytes : ~Has(bytes[k], w) /\ (index + k - 1) % 19 = 15
      BY <2>2, <2>3
    <3>2. Clears(bytes[k], w) /\ 15 = (index + k - 1) % 19
      BY <3>1 DEF Clears
    <3> QED
      BY <1>2, <1>5, <3>2 DEF Acknowledged
  <2> QED
    BY <2>2, <2>3
<1>6. ASSUME NEW bytes \in I2CWrites, index' = bytes[1], UNCHANGED ds
      PROVE  /\ ds' \in DsType /\ index' \in Int
             /\ \A w \in {1, 2} :
                  /\ Has(ds'.status, w) => Has(ds.status, w)
                  /\ Has(ds.status, w) /\ ~Has(ds'.status, w) => Acknowledged(w)
  <2>1. bytes[1] \in Byte
    BY I2CAssumption
  <2>2. index' \in Int
    BY ONLY <1>3, <1>6, <2>1
  <2> QED
    BY <1>1, <1>6, <2>2
<1> QED
  BY <1>2, <1>4, <1>5, <1>6 DEF DsWrite

\* A START of the older clock polls the alarms.
LEMMA DsStartStep ==
  ASSUME ClockInv, DsStart
  PROVE  /\ ds' \in DsType /\ index' = index /\ UNCHANGED rtcVars
         /\ \A w \in {1, 2} : Has(ds.status, w) => Has(ds'.status, w)
<1> DEFINE old == Instants[ds.system_time]
           t == Instants[now]
           one == IF DsAlarm1Due(ds, old, t) THEN Set(ds.status, 1) ELSE ds.status
           both == IF DsAlarm2Due(ds, old, t) THEN Set(one, 2) ELSE one
<1>1. /\ ds' = [ds EXCEPT !.system_time = now, !.status = both]
      /\ index' = index /\ UNCHANGED rtcVars
  BY DEF DsStart
<1>2. ds \in DsType /\ ds.status \in Byte /\ now \in DOMAIN Instants
  BY DEF ClockInv, DsType
<1>3. \A b \in Byte : /\ Set(b, 1) \in Byte /\ Set(b, 2) \in Byte
                      /\ Has(b, 1) => Has(Set(b, 2), 1) /\ Set(b, 1) = b
                      /\ Has(b, 2) => Has(Set(b, 1), 2) /\ Set(b, 2) = b
  BY DEF Byte, Has, Set
<1>4. one \in Byte /\ \A w \in {1, 2} : Has(ds.status, w) => Has(one, w)
  BY <1>2, <1>3
<1> HIDE DEF one
<1>5. both \in Byte /\ \A w \in {1, 2} : Has(ds.status, w) => Has(both, w)
  BY <1>3, <1>4
<1> HIDE DEF both
<1>6. ds' \in DsType /\ ds'.status = both
  BY <1>1, <1>2, <1>5 DEF DsType
<1> QED
  BY <1>1, <1>5, <1>6

\* Every step of the older clock.
LEMMA DsStep ==
  ASSUME ClockInv, program = "ds3231", DsNext
  PROVE  /\ ds' \in DsType /\ index' \in Int /\ now' \in DOMAIN Instants
         /\ \A w \in {1, 2} :
              /\ Has(ds.status, w) /\ ~Has(ds'.status, w) => Acknowledged(w)
              /\ ~Has(ds.status, w) /\ Has(ds'.status, w) => DsStart
<1>1. ds \in DsType /\ index \in Int /\ now \in DOMAIN Instants
  BY DEF ClockInv
<1>2. CASE DsStart
  BY <1>1, <1>2, DsStartStep DEF rtcVars
<1>3. CASE DsWrite
  BY <1>1, <1>3, DsWriteStep DEF rtcVars
<1>4. CASE UNCHANGED ds /\ index' \in Int /\ now' \in DOMAIN Instants
  BY <1>1, <1>4
<1>5. CASE DsRead
  <2>1. PICK n \in I2CReads :
           index' = (((index + n - 1) % (LastReg + 1)) + 1) % (LastReg + 1)
    BY <1>5 DEF DsRead
  <2>2. n \in Nat
    BY I2CAssumption
  <2>3. index' \in Int
    BY <1>1, <2>1, <2>2 DEF LastReg
  <2> QED
    BY <1>1, <1>4, <1>5, <2>3 DEF DsRead, rtcVars
<1>6. CASE I2CStop /\ UNCHANGED ds
  BY <1>1, <1>4, <1>6 DEF I2CStop, rtcVars
<1>7. CASE Tick /\ UNCHANGED <<i2cVars, ds>>
  BY <1>1, <1>4, <1>7, TickStep DEF i2cVars
<1> QED
  BY <1>2, <1>3, <1>5, <1>6, <1>7 DEF DsNext

-----------------------------------------------------------------------------
(* The clocks of the demo.                                                 *)

\* The clocks start as ones.
LEMMA ClockStart == Init => ClockInv
<1> SUFFICES ASSUME Init PROVE ClockInv
  OBVIOUS
<1>1. PowerOnTime \in TimeType /\ PowerOnTime \in ClockTime
  BY DEF PowerOnTime, TimeType, ClockTime, Byte
<1>2. PowerOnTime \in AlarmTime
  <2>1. PowerOnTime.day = 1 /\ ~Has(1, 64)
    BY DEF PowerOnTime, Has
  <2> QED
    BY <1>1, <2>1 DEF AlarmTime
<1>3. PowerOnRtc \in Clocks(AlarmTime) /\ PowerOnRtc \in Clocks(TimeType)
  BY <1>1, <1>2 DEF PowerOnRtc, Clocks
<1>4. 1 \in DOMAIN Instants
  BY InstantsAssumption
<1>5. ds \in DsType
  <2>1. DsPowerOn \in DsType
    BY <1>4 DEF DsPowerOn, DsType, Byte
  <2> QED
    BY <2>1 DEF Init
<1>6. rtc = PowerOnRtc /\ now = 1 /\ index \in Int
  BY DEF Init, RtcInit, DsInit, I2CInit, NoIndex
<1> QED
  BY <1>3, <1>4, <1>5, <1>6 DEF ClockInv

\* Every step keeps them so.
LEMMA ClockStep == ClockInv /\ [Next]_vars => ClockInv'
<1> SUFFICES ASSUME ClockInv, [Next]_vars PROVE ClockInv'
  OBVIOUS
<1>1. program' = program
  BY DEF Next, vars
<1>2. CASE UNCHANGED <<rtc, now, index, ds>>
  BY <1>1, <1>2 DEF ClockInv
<1>3. CASE program = "i2c" /\ I2CNext /\ UNCHANGED <<program, spiVars, canVars, ds, usbVars>>
  BY <1>1, <1>3, I2CStep DEF ClockInv
<1>4. CASE program = "spi" /\ SpiNext /\ UNCHANGED <<program, i2cVars, canVars, ds, usbVars>>
  <2>1. now' \in DOMAIN Instants
    BY <1>4, TickStep
       DEF SpiNext, SpiSelect, SpiTransfer, SpiWriteRegs, SpiWriteControl,
           SpiReadRegs, SpiSramAddress, SpiSramData, SpiUndefined, Dies, rtcVars,
           ClockInv
  <2>2. UNCHANGED <<index, ds>>
    BY <1>4 DEF i2cVars
  <2> QED
    BY <1>1, <1>4, <2>1, <2>2, SpiStep DEF ClockInv
<1>5. CASE program = "can" /\ CanNext /\ UNCHANGED <<program, spiVars, i2cVars, ds, usbVars>>
  <2>1. UNCHANGED <<index, ds>>
    BY <1>5 DEF i2cVars
  <2> QED
    BY <1>1, <1>5, <2>1, CanStep DEF ClockInv
<1>6. CASE program = "ds3231" /\ DsNext
  BY <1>1, <1>6, DsStep DEF ClockInv
<1>7. CASE UNCHANGED <<rtcVars, i2cVars, ds>>
  BY <1>2, <1>7 DEF rtcVars, i2cVars
<1> QED
  BY <1>3, <1>4, <1>5, <1>6, <1>7 DEF Next, vars

\* Every step: a flag goes off when it is acknowledged, and comes on in a
\* poll.
LEMMA FlagsStep ==
  ASSUME ClockInv, [Next]_vars
  PROVE  \A w \in {1, 2} :
           /\ Has(Status, w) /\ ~Has(Status', w) => Acknowledged(w)
           /\ ~Has(Status, w) /\ Has(Status', w) =>
                \/ SpiSelect \/ I2CStart \/ CanTx \/ DsStart
<1>1. program' = program
  BY DEF Next, vars
<1>2. CASE UNCHANGED <<rtc, ds>>
  BY <1>1, <1>2 DEF Status
<1>3. CASE program = "i2c" /\ I2CNext
  BY <1>1, <1>3, I2CStep DEF Status, ClearedWhenTold, NotRaised
<1>4. CASE program = "spi" /\ SpiNext
  BY <1>1, <1>4, SpiStep DEF Status, ClearedWhenTold, NotRaised
<1>5. CASE program = "can" /\ CanNext
  BY <1>1, <1>5, CanStep DEF Status, NotRaised
<1>6. CASE program = "ds3231" /\ DsNext
  BY <1>1, <1>6, DsStep DEF Status
<1>7. CASE UNCHANGED <<rtcVars, ds>>
  BY <1>2, <1>7 DEF rtcVars
<1> QED
  BY <1>3, <1>4, <1>5, <1>6, <1>7 DEF Next, vars

\* Every step of a clock that keeps an alarm for a day.
LEMMA RingsStep ==
  ASSUME ClockInv, [Next]_vars, program \in {"i2c", "spi"}
  PROVE  RingOnItsDay
<1>1. CASE Poll
  BY <1>1, PollRings
<1>2. CASE NotRaised
  BY <1>2 DEF NotRaised, RingOnItsDay, Rings
<1>3. CASE UNCHANGED vars
  BY <1>2, <1>3 DEF vars, rtcVars, NotRaised
<1>4. CASE program = "i2c" /\ I2CNext
  BY <1>1, <1>2, <1>4, I2CStep
<1>5. CASE program = "spi" /\ SpiNext
  BY <1>1, <1>2, <1>5, SpiStep
<1> QED
  BY <1>3, <1>4, <1>5 DEF Next

\* The clocks of the demo keep their type, and the I2C and SPI clocks never
\* hold an alarm for both a day of the week and a day of the month.
THEOREM ClocksWellFormed == Spec => []ClockInv
<1>1. Init => ClockInv
  BY ClockStart
<1>2. ClockInv /\ [Next]_vars => ClockInv'
  BY ClockStep
<1> QED
  BY <1>1, <1>2, PTL DEF Spec

\* An alarm that has rung stays on until the virtual machine acknowledges it,
\* and only a poll makes one ring, whatever is written in whatever order
\* (update_alarms, write_status, and start and write of the older clock).
THEOREM FlagsAlwaysSticky == Spec => AlarmFlagsSticky
<1>1. ClockInv /\ [Next]_vars =>
        [\A w \in {1, 2} :
           /\ Has(Status, w) /\ ~Has(Status', w) => Acknowledged(w)
           /\ ~Has(Status, w) /\ Has(Status', w) =>
                \/ SpiSelect \/ I2CStart \/ CanTx \/ DsStart]_vars
  BY FlagsStep
<1> QED
  BY <1>1, ClocksWellFormed, PTL DEF Spec, AlarmFlagsSticky

\* An alarm of the I2C and SPI clocks rings on the day it is set for, for any
\* bytes written to its registers and any times at which it is polled
\* (write_day_date, update_alarms).
THEOREM AlwaysRingsOnItsDay == Spec => RingsOnlyOnItsDay
<1>1. ClockInv /\ [Next]_vars =>
        [(program = "i2c" \/ program = "spi") => RingOnItsDay]_vars
  BY RingsStep
<1> QED
  BY <1>1, ClocksWellFormed, PTL DEF Spec, RingsOnlyOnItsDay
-----------------------------------------------------------------------------
(* The alarm registers and the memory of the SPI clock are a register file: *)
(* arithmetic round a ring, the last byte for a cell, and each alarm field   *)
(* as a cell of its own.                                                     *)

-----------------------------------------------------------------------------
(* The register file.                                                      *)

\* The remainder of the next number.
LEMMA ModNext ==
  ASSUME NEW x \in Nat, NEW S \in Nat \ {0}
  PROVE  ((x % S) + 1) % S = (x + 1) % S
<1> DEFINE r == x % S
           q == x \div S
           y == r + 1
           z == x + 1
           yq == y \div S
           yr == y % S
           zq == z \div S
           zr == z % S
<1>1. x = (S * q) + r /\ r \in 0 .. S - 1 /\ q \in Nat
  BY DivMod
<1> HIDE DEF r, q
<1>2. y \in Nat /\ z \in Nat /\ z = (S * q) + y
  BY <1>1
<1> HIDE DEF y, z
<1>3. /\ y = (S * yq) + yr /\ yr \in 0 .. S - 1 /\ yq \in Nat
      /\ z = (S * zq) + zr /\ zr \in 0 .. S - 1 /\ zq \in Nat
  BY <1>2, DivMod
<1> HIDE DEF yq, yr, zq, zr
<1>4. (S * zq) + zr = (S * (q + yq)) + yr
  <2>1. S * (q + yq) = (S * q) + (S * yq)
    BY <1>1, <1>3
  <2> QED
    BY <1>1, <1>2, <1>3, <2>1
<1>5. q + yq \in Int /\ zq \in Int
  BY <1>1, <1>3
<1>6. zr = yr
  <2> DEFINE d == q + yq
  <2>1. d \in Int /\ zq \in Int /\ (S * zq) + zr = (S * d) + yr
    BY <1>4, <1>5
  <2> HIDE DEF d
  <2> QED
    BY <2>1, <1>3, RemainderUnique
<1> QED
  BY <1>6 DEF yr, y, r, zr, z

\* The accesses of a transfer are the states of E, when these follow one
\* another by AccessCell.
LEMMA AccessedIs ==
  ASSUME NEW s, NEW write, NEW bytes, Len(bytes) \in Nat, NEW E,
         E = [k \in 0 .. Len(bytes) |-> E[k]], E[0] = s,
         \A k \in 1 .. Len(bytes) : E[k] = AccessCell(E[k - 1], write, bytes[k])
  PROVE  Accessed(s, write, bytes) = E[Len(bytes)]
<1> DEFINE n == Len(bytes)
           F(f) == [k \in 0 .. n |-> IF k = 0 THEN s
                                     ELSE AccessCell(f[k - 1], write, bytes[k])]
           g == CHOOSE f : f = F(f)
<1>1. E = F(E)
  <2>1. ASSUME NEW k \in 0 .. n
        PROVE  E[k] = IF k = 0 THEN s ELSE AccessCell(E[k - 1], write, bytes[k])
    <3>1. k = 0 \/ (k \in 1 .. n /\ k # 0)
      OBVIOUS
    <3> QED
      BY <3>1
  <2> QED
    BY <2>1
<1>2. g = F(g)
  <2> HIDE DEF F
  <2> QED
    BY <1>1
<1>3. Accessed(s, write, bytes) = g[n]
  BY DEF Accessed
<1> HIDE DEF g
<1>4. \A k \in 0 .. n : g[k] = IF k = 0 THEN s
                               ELSE AccessCell(g[k - 1], write, bytes[k])
  BY <1>2
<1> DEFINE P == {k \in Nat : k <= n => g[k] = E[k]}
<1>5. 0 \in P
  <2>1. 0 \in 0 .. n
    OBVIOUS
  <2>2. g[0] = s
    BY <1>4, <2>1
  <2> QED
    BY <2>2
<1>6. ASSUME NEW k \in Nat, k \in P PROVE k + 1 \in P
  <2>1. SUFFICES ASSUME k + 1 <= n PROVE g[k + 1] = E[k + 1]
    OBVIOUS
  <2> DEFINE i == k + 1
  <2>2. i \in 0 .. n /\ i \in 1 .. n /\ i # 0 /\ i - 1 = k /\ k <= n
    BY <2>1
  <2>3. g[k] = E[k]
    BY <1>6, <2>2
  <2> HIDE DEF i, P, n, F
  <2>4. g[i] = AccessCell(g[k], write, bytes[i])
    BY ONLY <1>4, <2>2
  <2>5. E[i] = AccessCell(E[i - 1], write, bytes[i])
    BY <2>2 DEF n
  <2>6. g[i] = E[i]
    BY ONLY <2>2, <2>3, <2>4, <2>5
  <2> QED
    BY <2>6 DEF i
<1>7. \A k \in Nat : k \in P
  <2> HIDE DEF P
  <2> QED
    BY <1>5, <1>6, NatInduct
<1>8. g[n] = E[n]
  <2> HIDE DEF n, F
  <2>1. n \in Nat /\ n <= n
    BY DEF n
  <2> QED
    BY <1>7, <2>1
<1> HIDE DEF n
<1> QED
  BY <1>3, <1>8 DEF n

\* The memory is a function from cells, and the address a number.
CellsInv ==
  /\ sramAddress \in Nat
  /\ sramData = [c \in DOMAIN sramData |-> sramData[c]]

\* The cell of the next byte.
LEMMA NextCell ==
  ASSUME CellsInv, NEW k \in Nat \ {0}
  PROVE  /\ File!CellOf(k) \in Nat
         /\ File!CellOf(k + 1) = (File!CellOf(k) + 1) % SramSize
         /\ File!CellOf(k + 1) = (sramAddress + k) % SramSize
<1>1. \A x \in Nat : x % SramSize \in Nat
  BY SpiAssumption
<1>2. CASE k = 1
  BY <1>1, <1>2 DEF File!CellOf, CellsInv
<1>3. CASE k # 1
  <2> DEFINE x == sramAddress + k - 1
  <2>1. x \in Nat /\ x + 1 = sramAddress + k /\ sramAddress + (k + 1) - 1 = x + 1
    BY DEF CellsInv
  <2>2. File!CellOf(k) = x % SramSize
    BY <1>3 DEF File!CellOf
  <2>3. File!CellOf(k + 1) = (sramAddress + (k + 1) - 1) % SramSize
    BY <1>3 DEF File!CellOf
  <2> HIDE DEF x
  <2>4. ((x % SramSize) + 1) % SramSize = (x + 1) % SramSize
    BY <2>1, SpiAssumption, ModNext
  <2> QED
    BY <1>1, <2>1, <2>2, <2>3, <2>4
<1> QED
  BY <1>2, <1>3

\* Byte j is the last of n for cell c.
IsLast(j, c, n) == /\ j \in 1 .. n /\ File!CellOf(j) = c
                   /\ \A i \in j + 1 .. n : File!CellOf(i) # c

\* There is one last byte for a cell, the one LastFor chooses.
LEMMA LastUnique ==
  ASSUME NEW c, NEW n \in Nat, NEW j, IsLast(j, c, n)
  PROVE  File!LastFor(c, n) = j
<1>1. ASSUME NEW i, IsLast(i, c, n) PROVE i = j
  <2>1. i \in 1 .. n /\ j \in 1 .. n
    BY <1>1 DEF IsLast
  <2>2. ~(i < j) /\ ~(j < i)
    <3>1. i < j => j \in i + 1 .. n
      BY <2>1
    <3>2. j < i => i \in j + 1 .. n
      BY <2>1
    <3> QED
      BY <1>1, <3>1, <3>2 DEF IsLast
  <2> QED
    BY <2>1, <2>2
<1>2. File!LastFor(c, n) = CHOOSE k \in 1 .. n : IsLast(k, c, n)
  BY DEF File!LastFor, IsLast
<1>3. j \in 1 .. n
  BY DEF IsLast
<1>4. IsLast(File!LastFor(c, n), c, n)
  BY <1>2, <1>3
<1> QED
  BY <1>1, <1>4

\* A cell some byte is for has a last one.
LEMMA LastExists ==
  ASSUME NEW c
  PROVE  \A n \in Nat : (\E k \in 1 .. n : File!CellOf(k) = c) =>
                           \E j : IsLast(j, c, n)
<1> DEFINE P == {n \in Nat : (\E k \in 1 .. n : File!CellOf(k) = c) =>
                                \E j : IsLast(j, c, n)}
<1>1. 0 \in P
  OBVIOUS
<1>2. ASSUME NEW n \in Nat, n \in P PROVE n + 1 \in P
  <2>1. SUFFICES ASSUME NEW k \in 1 .. n + 1, File!CellOf(k) = c
                 PROVE  \E j : IsLast(j, c, n + 1)
    OBVIOUS
  <2>2. CASE File!CellOf(n + 1) = c
    <3>1. IsLast(n + 1, c, n + 1)
      BY <2>2 DEF IsLast
    <3> QED
      BY <3>1
  <2>3. CASE File!CellOf(n + 1) # c
    <3>1. k \in 1 .. n
      <4>1. k # n + 1
        BY <2>1, <2>3
      <4> QED
        BY <4>1
    <3>2. PICK j : IsLast(j, c, n)
      BY <1>2, <2>1, <3>1
    <3>3. \A i \in j + 1 .. n + 1 : i \in j + 1 .. n \/ i = n + 1
      OBVIOUS
    <3>4. IsLast(j, c, n + 1)
      BY <2>3, <3>2, <3>3 DEF IsLast
    <3> QED
      BY <3>4
  <2> QED
    BY <2>2, <2>3
<1> HIDE DEF P
<1>3. \A n \in Nat : n \in P
  BY <1>1, <1>2, NatInduct
<1> QED
  BY <1>3 DEF P

\* The last byte for a cell is the next one, or it stays what it was.
LEMMA LastGrows ==
  ASSUME NEW c, NEW n \in Nat
  PROVE  /\ File!CellOf(n + 1) = c => File!LastFor(c, n + 1) = n + 1
         /\ File!CellOf(n + 1) # c /\ (\E k \in 1 .. n : File!CellOf(k) = c) =>
              /\ File!LastFor(c, n + 1) = File!LastFor(c, n)
              /\ File!LastFor(c, n) \in 1 .. n
<1>1. n + 1 \in Nat
  OBVIOUS
<1>2. ASSUME File!CellOf(n + 1) = c
      PROVE  File!LastFor(c, n + 1) = n + 1
  <2>1. IsLast(n + 1, c, n + 1)
    BY <1>2 DEF IsLast
  <2> QED
    BY <1>1, <2>1, LastUnique
<1>3. ASSUME File!CellOf(n + 1) # c, \E k \in 1 .. n : File!CellOf(k) = c
      PROVE  /\ File!LastFor(c, n + 1) = File!LastFor(c, n)
             /\ File!LastFor(c, n) \in 1 .. n
  <2>1. PICK j : IsLast(j, c, n)
    BY <1>3, LastExists
  <2>2. \A i \in j + 1 .. n + 1 : i \in j + 1 .. n \/ i = n + 1
    BY <2>1 DEF IsLast
  <2>3. j \in 1 .. n /\ j \in 1 .. n + 1
    BY <2>1 DEF IsLast
  <2>4. IsLast(j, c, n + 1)
    BY <1>3, <2>1, <2>2, <2>3 DEF IsLast
  <2> QED
    BY <1>1, <2>1, <2>3, <2>4, LastUnique
<1> QED
  BY <1>2, <1>3

\* The cells after k bytes of data have been written.
CellsAfter(data, k) ==
  [c \in DOMAIN sramData \union {File!CellOf(j) : j \in 1 .. k} |->
     IF \E j \in 1 .. k : File!CellOf(j) = c
     THEN data[File!LastFor(c, k)] ELSE sramData[c]]

\* One more byte goes to the cell the address has come to.
LEMMA CellsGrow ==
  ASSUME NEW data, NEW k \in Nat
  PROVE  CellsAfter(data, k + 1) =
           [a \in DOMAIN CellsAfter(data, k) \union {File!CellOf(k + 1)} |->
              IF a = File!CellOf(k + 1) THEN data[k + 1]
              ELSE CellsAfter(data, k)[a]]
<1> DEFINE before == CellsAfter(data, k)
           at == File!CellOf(k + 1)
           D(n) == DOMAIN sramData \union {File!CellOf(j) : j \in 1 .. n}
<1>1. \A j \in 1 .. k + 1 : j \in 1 .. k \/ j = k + 1
  OBVIOUS
<1>2. \A j \in 1 .. k : j \in 1 .. k + 1
  OBVIOUS
<1>3. k + 1 \in 1 .. k + 1
  OBVIOUS
<1>4. DOMAIN before = D(k) /\ D(k + 1) = D(k) \union {at}
  BY <1>1, <1>2, <1>3 DEF CellsAfter
<1>5. ASSUME NEW a \in D(k + 1)
      PROVE  (IF \E j \in 1 .. k + 1 : File!CellOf(j) = a
              THEN data[File!LastFor(a, k + 1)] ELSE sramData[a])
             = IF a = at THEN data[k + 1] ELSE before[a]
  <2>1. CASE a = at
    BY <1>3, <2>1, LastGrows
  <2>2. CASE a # at /\ \E j \in 1 .. k : File!CellOf(j) = a
    <3>1. before[a] = data[File!LastFor(a, k)]
      BY <1>4, <1>5, <2>2 DEF CellsAfter
    <3>2. File!LastFor(a, k + 1) = File!LastFor(a, k)
      BY <2>2, LastGrows
    <3> QED
      BY <1>2, <2>2, <3>1, <3>2
  <2>3. CASE a # at /\ ~ \E j \in 1 .. k : File!CellOf(j) = a
    <3>1. a \in D(k)
      BY <1>4, <1>5, <2>3
    <3>2. before[a] = sramData[a]
      BY <2>3, <3>1 DEF CellsAfter
    <3>3. ~ \E j \in 1 .. k + 1 : File!CellOf(j) = a
      BY <1>1, <2>3
    <3> QED
      BY <2>3, <3>2, <3>3
  <2> QED
    BY <2>1, <2>2, <2>3
<1>6. CellsAfter(data, k + 1) =
        [a \in D(k + 1) |-> IF \E j \in 1 .. k + 1 : File!CellOf(j) = a
                            THEN data[File!LastFor(a, k + 1)] ELSE sramData[a]]
  BY DEF CellsAfter
<1> HIDE DEF before, D
<1>7. CellsAfter(data, k + 1) = [a \in D(k + 1) |-> IF a = at THEN data[k + 1] ELSE before[a]]
  BY <1>5, <1>6
<1> QED
  BY <1>4, <1>7 DEF before

\* One more member of a sequence.
Begin(s, k) == [j \in 1 .. k |-> s[j]]

\* One more member of a sequence, appended.
LEMMA BeginGrows ==
  ASSUME NEW s, NEW k \in Nat
  PROVE  Append(Begin(s, k), s[k + 1]) = Begin(s, k + 1)
<1> DEFINE b == Begin(s, k)
           x == s[k + 1]
<1>1. b \in Seq({s[j] : j \in 1 .. k + 1}) /\ Len(b) = k
      /\ \A j \in 1 .. k : b[j] = s[j]
  BY DEF Begin
<1>2. x \in {s[j] : j \in 1 .. k + 1}
  OBVIOUS
<1> HIDE DEF b, x
<1> DEFINE c == Append(b, x)
<1>3. c = [j \in 1 .. k + 1 |-> IF j = k + 1 THEN x ELSE b[j]]
  <2>1. /\ c \in Seq({s[j] : j \in 1 .. k + 1}) /\ Len(c) = k + 1
        /\ \A j \in 1 .. k : c[j] = b[j]
        /\ c[k + 1] = x
    BY <1>1, <1>2, AppendProperties
  <2> HIDE DEF c
  <2>2. c = [j \in 1 .. k + 1 |-> c[j]]
    BY <2>1
  <2>3. \A j \in 1 .. k + 1 : j \in 1 .. k \/ j = k + 1
    OBVIOUS
  <2>4. \A j \in 1 .. k + 1 : c[j] = IF j = k + 1 THEN x ELSE b[j]
    BY <2>1, <2>3
  <2> QED
    BY <2>2, <2>4
<1>4. \A j \in 1 .. k + 1 : (IF j = k + 1 THEN x ELSE b[j]) = s[j]
  BY <1>1 DEF x
<1> QED
  BY <1>3, <1>4 DEF Begin, b

\* What a transfer to the memory leaves there: the last byte for each cell.
LEMMA CellsWritten ==
  ASSUME CellsInv, NEW data, Len(data) \in Nat
  PROVE  LET s == [at |-> sramAddress, cells |-> sramData, out |-> <<>>]
             n == Len(data)
         IN  Accessed(s, TRUE, data) =
               [at |-> File!CellOf(n + 1), cells |-> CellsAfter(data, n),
                out |-> Begin(data, n)]
<1> DEFINE s == [at |-> sramAddress, cells |-> sramData, out |-> <<>>]
           n == Len(data)
           E == [k \in 0 .. n |-> [at |-> File!CellOf(k + 1),
                                   cells |-> CellsAfter(data, k),
                                   out |-> Begin(data, k)]]
<1>1. E[0] = s
  <2>1. File!CellOf(0 + 1) = sramAddress
    BY DEF File!CellOf
  <2>2. CellsAfter(data, 0) = sramData
    <3>1. \A j \in 1 .. 0 : FALSE
      OBVIOUS
    <3>2. CellsAfter(data, 0) = [c \in DOMAIN sramData |-> sramData[c]]
      BY <3>1 DEF CellsAfter
    <3> QED
      BY <3>2 DEF CellsInv
  <2>3. Begin(data, 0) = <<>>
    BY DEF Begin
  <2>4. 0 \in 0 .. n
    OBVIOUS
  <2>5. E[0] = [at |-> File!CellOf(0 + 1), cells |-> CellsAfter(data, 0),
                out |-> Begin(data, 0)]
    BY <2>4
  <2> QED
    BY ONLY <2>1, <2>2, <2>3, <2>5
<1>2. ASSUME NEW k \in 1 .. n
      PROVE  E[k] = AccessCell(E[k - 1], TRUE, data[k])
  <2> DEFINE i == k - 1
             e == E[i]
             cells == [a \in DOMAIN e.cells \union {e.at} |->
                         IF a = e.at THEN data[k] ELSE e.cells[a]]
  <2>1. i \in Nat /\ i \in 0 .. n /\ i + 1 = k /\ k \in 0 .. n
    OBVIOUS
  <2> HIDE DEF i
  <2>2. e = [at |-> File!CellOf(i + 1), cells |-> CellsAfter(data, i),
             out |-> Begin(data, i)]
    BY <2>1
  <2>3. e.at = File!CellOf(k) /\ e.cells = CellsAfter(data, i)
        /\ e.out = Begin(data, i)
    BY <2>1, <2>2
  <2>4. E[k] = [at |-> File!CellOf(k + 1), cells |-> CellsAfter(data, k),
                out |-> Begin(data, k)]
    BY <2>1
  <2> HIDE DEF e, E
  <2>5. cells = CellsAfter(data, k)
    <3>1. CellsAfter(data, i + 1) =
            [a \in DOMAIN CellsAfter(data, i) \union {File!CellOf(i + 1)} |->
               IF a = File!CellOf(i + 1) THEN data[i + 1]
               ELSE CellsAfter(data, i)[a]]
      BY <2>1, CellsGrow
    <3> QED
      BY ONLY <2>1, <2>3, <3>1
  <2>6. Cell(cells, e.at) = data[k]
    BY DEF Cell
  <2>7. Append(Begin(data, i), data[k]) = Begin(data, k)
    BY <2>1, BeginGrows
  <2>8. File!CellOf(k + 1) = (e.at + 1) % SramSize
    <3>1. k \in Nat \ {0}
      OBVIOUS
    <3> QED
      BY <2>3, <3>1, NextCell
  <2>9. AccessCell(e, TRUE, data[k]) =
          [at |-> (e.at + 1) % SramSize, cells |-> cells,
           out |-> Append(e.out, Cell(cells, e.at))]
    BY DEF AccessCell
  <2> HIDE DEF cells
  <2>10. AccessCell(e, TRUE, data[k]) = E[k]
    BY ONLY <2>3, <2>4, <2>5, <2>6, <2>7, <2>8, <2>9
  <2> QED
    BY <2>10 DEF e, i
<1>3. E = [k \in 0 .. n |-> E[k]]
  OBVIOUS
<1>4. Accessed(s, TRUE, data) = E[n]
  <2> HIDE DEF E, s
  <2> QED
    BY <1>1, <1>2, <1>3, AccessedIs
<1>5. E[n] = [at |-> File!CellOf(n + 1), cells |-> CellsAfter(data, n),
              out |-> Begin(data, n)]
  <2>1. n \in 0 .. n
    OBVIOUS
  <2> QED
    BY <2>1
<1> QED
  BY <1>4, <1>5

\* What a transfer reads, and the address it leaves.
LEMMA CellsRead ==
  ASSUME CellsInv, NEW data, Len(data) \in Nat
  PROVE  LET s == [at |-> sramAddress, cells |-> sramData, out |-> <<>>]
             n == Len(data)
         IN  Accessed(s, FALSE, data) =
               [at |-> File!CellOf(n + 1), cells |-> sramData,
                out |-> [k \in 1 .. n |-> File!Content(File!CellOf(k))]]
<1> DEFINE s == [at |-> sramAddress, cells |-> sramData, out |-> <<>>]
           n == Len(data)
           content == [k \in 1 .. n + 1 |-> File!Content(File!CellOf(k))]
           E == [k \in 0 .. n |-> [at |-> File!CellOf(k + 1),
                                   cells |-> sramData,
                                   out |-> Begin(content, k)]]
<1>1. E[0] = s
  <2>1. File!CellOf(0 + 1) = sramAddress
    BY DEF File!CellOf
  <2>2. Begin(content, 0) = <<>>
    BY DEF Begin
  <2>3. 0 \in 0 .. n
    OBVIOUS
  <2>4. E[0] = [at |-> File!CellOf(0 + 1), cells |-> sramData,
                out |-> Begin(content, 0)]
    BY <2>3
  <2> QED
    BY ONLY <2>1, <2>2, <2>4
<1>2. ASSUME NEW k \in 1 .. n
      PROVE  E[k] = AccessCell(E[k - 1], FALSE, data[k])
  <2> DEFINE i == k - 1
             e == E[i]
  <2>1. i \in Nat /\ i \in 0 .. n /\ i + 1 = k /\ k \in 0 .. n /\ k \in 1 .. n + 1
    OBVIOUS
  <2>2. content[k] = File!Content(File!CellOf(k))
    BY <2>1
  <2> HIDE DEF i, content
  <2>3. e = [at |-> File!CellOf(i + 1), cells |-> sramData,
             out |-> Begin(content, i)]
    BY <2>1
  <2>4. e.at = File!CellOf(k) /\ e.cells = sramData /\ e.out = Begin(content, i)
    BY <2>1, <2>3
  <2>5. E[k] = [at |-> File!CellOf(k + 1), cells |-> sramData,
                out |-> Begin(content, k)]
    BY <2>1
  <2> HIDE DEF e, E
  <2>6. Cell(sramData, e.at) = content[k]
    BY <2>2, <2>4 DEF Cell, File!Content
  <2>7. Append(Begin(content, i), content[k]) = Begin(content, k)
    BY <2>1, BeginGrows
  <2>8. File!CellOf(k + 1) = (e.at + 1) % SramSize
    <3>1. k \in Nat \ {0}
      OBVIOUS
    <3> QED
      BY <2>4, <3>1, NextCell
  <2>9. AccessCell(e, FALSE, data[k]) =
          [at |-> (e.at + 1) % SramSize, cells |-> e.cells,
           out |-> Append(e.out, Cell(e.cells, e.at))]
    BY DEF AccessCell
  <2>10. AccessCell(e, FALSE, data[k]) = E[k]
    BY ONLY <2>4, <2>5, <2>6, <2>7, <2>8, <2>9
  <2> QED
    BY <2>10 DEF e, i
<1>3. E = [k \in 0 .. n |-> E[k]]
  OBVIOUS
<1>4. Accessed(s, FALSE, data) = E[n]
  <2> HIDE DEF E, s
  <2> QED
    BY <1>1, <1>2, <1>3, AccessedIs
<1>5. E[n] = [at |-> File!CellOf(n + 1), cells |-> sramData,
              out |-> Begin(content, n)]
  <2>1. n \in 0 .. n
    OBVIOUS
  <2> QED
    BY <2>1
<1>6. Begin(content, n) = [k \in 1 .. n |-> File!Content(File!CellOf(k))]
  BY DEF Begin
<1> QED
  BY <1>4, <1>5, <1>6

\* Which field of which alarm register m is.
LEMMA AlarmPlace ==
  /\ Place(7) = <<"Alarm1", "seconds">> /\ Place(8) = <<"Alarm1", "minutes">>
  /\ Place(9) = <<"Alarm1", "hours">> /\ Place(10) = <<"Alarm1", "day_date">>
  /\ Place(11) = <<"Alarm2", "minutes">> /\ Place(12) = <<"Alarm2", "hours">>
  /\ Place(13) = <<"Alarm2", "day_date">>
BY DEF Place

\* A field of an alarm is memory: what is read is what was written to it, and
\* to no other.
StoredIn(field, b) ==
  CASE field = "hours" /\ b % 128 = 64     -> b + 33
    [] field = "hours" /\ b % 128 = 96     -> b - 31
    [] field = "day_date" /\ b % 128 >= 64 -> (b \div 64) * 64 + (b % 8)
    [] OTHER -> b

LEMMA FieldMemory ==
  ASSUME NEW a \in AlarmTime, NEW field \in AlarmFields, NEW f \in AlarmFields,
         NEW b \in Byte
  PROVE  ReadTime(WriteTime(a, field, b), f) =
           IF f = field THEN StoredIn(field, b) ELSE ReadTime(a, f)
<1>1. b \in 0 .. 255
  BY DEF Byte
<1>2. CASE field \in {"seconds", "minutes"}
  BY <1>2 DEF WriteTime, ReadTime, ReadDayDate, StoredIn, AlarmFields,
              AlarmTime, TimeType
<1>3. CASE field = "hours"
  <2> DEFINE h == IF Has(b, 64) /\ b % 32 = 0
                  THEN (IF Has(b, 32) THEN b - 32 ELSE b + 32) + 1
                  ELSE b
  <2>1. WriteTime(a, field, b) = [a EXCEPT !.hours = h]
    BY <1>3 DEF WriteTime, WriteHours
  <2>2. h = StoredIn("hours", b)
    BY <1>1 DEF StoredIn, Has
  <2> HIDE DEF h
  <2> QED
    BY <1>3, <2>1, <2>2 DEF ReadTime, ReadDayDate, AlarmFields, AlarmTime, TimeType
<1>4. CASE field = "day_date"
  <2>1. /\ (0 \div 64) * 64 + (0 % 8) = 0 /\ (0 \div 128) * 128 + (0 % 64) = 0
        /\ ~Has(0, 64)
    BY DEF Has
  <2>2. CASE Has(b, 64)
    <3> DEFINE day == (b \div 64) * 64 + (b % 8)
    <3>1. WriteTime(a, field, b) = [a EXCEPT !.date = 0, !.day = day]
      BY <1>4, <2>1, <2>2
         DEF WriteTime, WriteDayDate, WriteDay, WriteDate, AlarmTime, TimeType
    <3>2. Has(day, 64)
      BY <2>2, Masked64
    <3>3. StoredIn("day_date", b) = day
      <4>1. b % 128 >= 64
        BY <1>1, <2>2 DEF Has
      <4> QED
        BY <4>1 DEF StoredIn
    <3> HIDE DEF day
    <3> QED
      BY <1>4, <3>1, <3>2, <3>3
         DEF ReadTime, ReadDayDate, AlarmFields, AlarmTime, TimeType
  <2>3. CASE ~Has(b, 64)
    <3> DEFINE date == (b \div 128) * 128 + (b % 64)
    <3>1. WriteTime(a, field, b) = [a EXCEPT !.day = 0, !.date = date]
      BY <1>4, <2>1, <2>3
         DEF WriteTime, WriteDayDate, WriteDay, WriteDate, AlarmTime, TimeType
    <3>2. ~(b % 128 >= 64) /\ date = b
      BY <1>1, <2>3 DEF Has
    <3>3. StoredIn("day_date", b) = date
      BY <3>2 DEF StoredIn
    <3> HIDE DEF date
    <3> QED
      BY <1>4, <2>1, <3>1, <3>3
         DEF ReadTime, ReadDayDate, AlarmFields, AlarmTime, TimeType
  <2> QED
    BY <2>2, <2>3
<1> QED
  BY <1>2, <1>3, <1>4 DEF AlarmFields

\* Each alarm register is memory.
LEMMA RegMemory ==
  ASSUME NEW r \in Clocks(AlarmTime), NEW reg \in 0 .. 18, reg # 14,
         NEW b \in Byte, NEW m \in 7 .. 13
  PROVE  ReadReg(WriteReg(r, reg, b), m) =
           IF m = reg THEN File!Stored(m, b) ELSE ReadReg(r, m)
<1> DEFINE x == WriteReg(r, reg, b)
           f == Place(m)[2]
           g == Place(m)[1]
<1>1. \A y : ReadReg(y, m) = ReadTime(y[g], f)
  <2>1. m < 14 /\ ~(14 < 14) /\ m # 14 /\ m # 15 /\ m # 16 /\ m # 17 /\ m # 18
    OBVIOUS
  <2>2. ASSUME NEW y PROVE ReadReg(y, m) = ReadTime(y[g], f)
    BY <2>1 DEF ReadReg, Control, LastReg
  <2> QED
    BY <2>2
<1>2. /\ g \in {"Alarm1", "Alarm2"} /\ f \in AlarmFields
      /\ \A k \in 7 .. 13 : k # m => Place(k)[1] # g \/ Place(k)[2] # f
      /\ \A c : StoredIn(f, c) = File!Stored(m, c)
  <2>1. m = 7 \/ m = 8 \/ m = 9 \/ m = 10 \/ m = 11 \/ m = 12 \/ m = 13
    OBVIOUS
  <2>2. g \in {"Alarm1", "Alarm2"} /\ f \in AlarmFields
    BY <2>1, AlarmPlace DEF AlarmFields
  <2>3. ASSUME NEW k \in 7 .. 13, k # m PROVE Place(k)[1] # g \/ Place(k)[2] # f
    <3>1. k = 7 \/ k = 8 \/ k = 9 \/ k = 10 \/ k = 11 \/ k = 12 \/ k = 13
      OBVIOUS
    <3> QED
      BY <2>1, <2>3, <3>1, AlarmPlace
  <2>4. ASSUME NEW c PROVE StoredIn(f, c) = File!Stored(m, c)
    <3>1. CASE m \in {9, 12}
      <4>1. f = "hours"
        BY <3>1, AlarmPlace
      <4> QED
        BY <3>1, <4>1 DEF StoredIn, File!Stored
    <3>2. CASE m \in {10, 13}
      <4>1. f = "day_date"
        BY <3>2, AlarmPlace
      <4> QED
        BY <3>2, <4>1 DEF StoredIn, File!Stored
    <3>3. CASE m \in {7, 8, 11}
      <4>1. f \in {"seconds", "minutes"}
        BY <3>3, AlarmPlace
      <4> QED
        BY <3>3, <4>1 DEF StoredIn, File!Stored
    <3> QED
      BY <2>1, <3>1, <3>2, <3>3
  <2> HIDE DEF f, g
  <2> QED
    BY <2>2, <2>3, <2>4
<1>3. r[g] \in AlarmTime
  <2> HIDE DEF g, f
  <2> QED
    BY <1>2 DEF Clocks
<1>4. CASE reg \in 0 .. 13
  <2> DEFINE field == Place(reg)[2]
             group == Place(reg)[1]
  <2>1. x = [r EXCEPT ![group] = WriteTime(@, field, b)]
    BY <1>4 DEF WriteReg, Control
  <2>2. CASE group # g
    <3>1. x[g] = r[g]
      <4> HIDE DEF x, field, group, f, g
      <4> QED
        BY <1>2, <2>1, <2>2 DEF Clocks
    <3>2. m # reg
      BY <2>2
    <3> HIDE DEF x, f, g
    <3> QED
      BY <1>1, <3>1, <3>2 DEF x
  <2>3. CASE group = g
    <3>1. field \in AlarmFields
      BY <1>2, <1>4, <2>3, PlaceIs
    <3>2. x[g] = WriteTime(r[g], field, b)
      <4> HIDE DEF x, field, group, f, g
      <4> QED
        BY <1>2, <2>1, <2>3 DEF Clocks
    <3>3. ReadTime(x[g], f) = IF f = field THEN StoredIn(field, b) ELSE ReadTime(r[g], f)
      <4> HIDE DEF x, field, group, f, g
      <4> QED
        BY <1>2, <1>3, <3>1, <3>2, FieldMemory
    <3>4. f = field <=> m = reg
      <4>1. m = reg => f = field
        OBVIOUS
      <4>2. ASSUME f = field PROVE m = reg
        <5>1. reg \in 7 .. 13
          <6>1. SUFFICES ASSUME reg \in 0 .. 6 PROVE FALSE
            BY <1>4
          <6>2. Place(reg)[1] = "time"
            BY <6>1 DEF Place
          <6> QED
            BY <1>2, <2>3, <6>2
        <5> HIDE DEF f, g
        <5> QED
          BY <1>2, <2>3, <4>2, <5>1
      <4> QED
        BY <4>1, <4>2
    <3> HIDE DEF x, field, group, f, g
    <3> QED
      BY <1>1, <1>2, <3>3, <3>4 DEF x
  <2> QED
    BY <2>2, <2>3
<1>5. CASE reg = 15
  <2>1. x.Alarm1 = r.Alarm1 /\ x.Alarm2 = r.Alarm2
    BY <1>5 DEF WriteReg, WriteStatus, Control, Clocks
  <2> HIDE DEF x, f, g
  <2> QED
    BY <1>1, <1>2, <1>5, <2>1 DEF x
<1>6. CASE reg = 16
  <2>1. x.Alarm1 = r.Alarm1 /\ x.Alarm2 = r.Alarm2
    BY <1>6 DEF WriteReg, Control, Clocks
  <2> HIDE DEF x, f, g
  <2> QED
    BY <1>1, <1>2, <1>6, <2>1 DEF x
<1>7. CASE reg \in {17, 18}
  <2>1. x = r
    BY <1>7 DEF WriteReg, Control
  <2> HIDE DEF x
  <2> QED
    BY <1>7, <2>1 DEF x
<1> QED
  BY <1>4, <1>5, <1>6, <1>7

\* A transfer that does not come to control writes each alarm register at most
\* once: it is shorter than once round.
LEMMA OnceRound ==
  ASSUME NEW first \in 0 .. 18, NEW n \in Nat,
         \A k \in 1 .. n : (first + k - 1) % 19 # 14
  PROVE  /\ n < 19
         /\ \A k \in 1 .. n : \A m \in 7 .. 13 :
              (first + k - 1) % 19 = m <=> k = File!Position(first, m)
<1>1. n < 19
  <2>1. SUFFICES ASSUME n >= 19 PROVE FALSE
    OBVIOUS
  <2> DEFINE k == 1 + ((14 - first) % 19)
  <2>2. k \in 1 .. 19 /\ (first + k - 1) % 19 = 14
    OBVIOUS
  <2>3. k \in 1 .. n
    BY <2>1, <2>2
  <2> HIDE DEF k
  <2> QED
    BY <2>2, <2>3
<1>2. ASSUME NEW k \in 1 .. n, NEW m \in 7 .. 13
      PROVE  (first + k - 1) % 19 = m <=> k = File!Position(first, m)
  <2>1. k \in 1 .. 18
    BY <1>1
  <2>2. \A i \in 0 .. 18 : \A j \in 1 .. 18 : \A l \in 7 .. 13 :
          (i + j - 1) % 19 = l <=> j = 1 + ((l - i) % 19)
    OBVIOUS
  <2> QED
    BY <2>1, <2>2 DEF File!Position, File!Regs
<1> QED
  BY <1>1, <1>2

\* The registers follow one another from the first, round and round.
Round(first, regs, n) == \A k \in 1 .. n : regs[k] = (first + k - 1) % 19

\* What is read of register m of clock x after bytes went to clock r.
Leaves(r, x, first, bytes, m) ==
  ReadReg(x, m) = IF File!Position(first, m) <= Len(bytes)
                  THEN File!Stored(m, bytes[File!Position(first, m)])
                  ELSE ReadReg(r, m)

\* What a transfer leaves in the alarm registers.
LEMMA WrittenMemory ==
  ASSUME NEW r \in Clocks(AlarmTime), NEW first \in 0 .. 18, NEW regs, NEW bytes,
         Writable(regs, bytes), Round(first, regs, Len(bytes)), NEW m \in 7 .. 13
  PROVE  Leaves(r, Written(r, regs, bytes), first, bytes, m)
<1> DEFINE n == Len(bytes)
           g == WrittenUpTo(r, regs, bytes)
           pos == File!Position(first, m)
           stored == File!Stored(m, bytes[pos])
           P == {k \in Nat : k <= n => ReadReg(g[k], m) = IF pos <= k THEN stored
                                                          ELSE ReadReg(r, m)}
<1>1. n \in Nat /\ \A k \in 1 .. n : regs[k] \in (0 .. 18) \ {14} /\ bytes[k] \in Byte
  BY DEF Writable
<1>2. Stays(Clocks(AlarmTime), regs, bytes)
  BY RegWritten DEF Stays, Writable
<1>3. /\ g \in [0 .. n -> Clocks(AlarmTime)] /\ g[0] = r
      /\ \A k \in 1 .. n : g[k] = WriteReg(g[k - 1], regs[k], bytes[k])
  BY <1>1, <1>2, WrittenUpToIs
<1>4. Written(r, regs, bytes) = g[n]
  BY DEF Written, WrittenUpTo
<1>5. \A k \in 1 .. n : regs[k] = m <=> k = pos
  <2>1. \A k \in 1 .. n : (first + k - 1) % 19 # 14
    BY <1>1 DEF Round
  <2>2. \A k \in 1 .. n : (first + k - 1) % 19 = m <=> k = pos
    <3>1. first \in 0 .. 18 /\ m \in 7 .. 13 /\ n \in Nat
      BY <1>1
    <3> HIDE DEF n
    <3>2. \A k \in 1 .. n : \A j \in 7 .. 13 :
             (first + k - 1) % 19 = j <=> k = File!Position(first, j)
      BY ONLY <2>1, <3>1, OnceRound
    <3> QED
      BY ONLY <3>1, <3>2
  <2> QED
    BY <2>2 DEF Round
<1>6. pos \in Nat /\ pos >= 1
  BY DEF File!Position, File!Regs
<1> HIDE DEF g, pos
<1>7. 0 \in P
  BY <1>3, <1>6
<1>8. ASSUME NEW k \in Nat, k \in P PROVE k + 1 \in P
  <2> DEFINE i == k + 1
  <2>1. SUFFICES ASSUME i <= n
                 PROVE  ReadReg(g[i], m) = IF pos <= i THEN stored ELSE ReadReg(r, m)
    OBVIOUS
  <2>2. i \in 1 .. n /\ i - 1 = k /\ k \in 0 .. n /\ k <= n /\ i \in Nat
    BY <2>1
  <2>3. ReadReg(g[k], m) = IF pos <= k THEN stored ELSE ReadReg(r, m)
    BY <1>8, <2>2
  <2>4. pos <= i <=> pos <= k \/ pos = i
    BY <1>6
  <2>5. pos = i => ~(pos <= k)
    BY <1>6
  <2> HIDE DEF i, n, P
  <2>6. g[i] = WriteReg(g[k], regs[i], bytes[i])
    <3>1. g[i] = WriteReg(g[i - 1], regs[i], bytes[i])
      BY <1>3, <2>2
    <3> QED
      BY <2>2, <3>1
  <2>7. g[k] \in Clocks(AlarmTime)
    BY <1>3, <2>2
  <2>8. regs[i] \in 0 .. 18 /\ regs[i] # 14 /\ bytes[i] \in Byte
    BY <1>1, <2>2
  <2>9. ReadReg(g[i], m) = IF m = regs[i] THEN File!Stored(m, bytes[i])
                           ELSE ReadReg(g[k], m)
    <3> DEFINE c == g[k]
               reg == regs[i]
               b == bytes[i]
    <3>1. /\ c \in Clocks(AlarmTime) /\ reg \in 0 .. 18 /\ reg # 14 /\ b \in Byte
          /\ m \in 7 .. 13 /\ g[i] = WriteReg(c, reg, b)
      BY <2>6, <2>7, <2>8
    <3> HIDE DEF c, reg, b
    <3>2. ReadReg(WriteReg(c, reg, b), m) = IF m = reg THEN File!Stored(m, b)
                                                       ELSE ReadReg(c, m)
      BY ONLY <3>1, RegMemory
    <3> QED
      BY ONLY <3>1, <3>2 DEF c, reg, b
  <2>10. m = regs[i] <=> i = pos
    BY <1>5, <2>2
  <2>11. CASE i = pos
    <3>1. ReadReg(g[i], m) = stored
      BY <2>9, <2>10, <2>11
    <3> QED
      BY <2>4, <2>11, <3>1
  <2>12. CASE i # pos
    <3> HIDE DEF stored
    <3> QED
      BY <2>3, <2>4, <2>9, <2>10, <2>12
  <2> QED
    BY <2>11, <2>12
<1>9. \A k \in Nat : k \in P
  <2> HIDE DEF P
  <2> QED
    BY <1>7, <1>8, NatInduct
<1>10. ReadReg(g[n], m) = IF pos <= n THEN stored ELSE ReadReg(r, m)
  <2> HIDE DEF stored
  <2> QED
    BY <1>1, <1>9
<1> QED
  BY <1>4, <1>10 DEF pos, Leaves

\* A poll leaves the alarm registers alone.
LEMMA PollMemory ==
  ASSUME NEW A, NEW r \in Clocks(A), NEW l, NEW m \in 7 .. 13
  PROVE  ReadReg(UpdateAlarms(r, l), m) = ReadReg(r, m)
<1> DEFINE x == UpdateAlarms(r, l)
<1>1. x.Alarm1 = r.Alarm1 /\ x.Alarm2 = r.Alarm2
  BY DEF UpdateAlarms, Clocks
<1> HIDE DEF x
<1>2. m < 14 /\ (m = 7 \/ m = 8 \/ m = 9 \/ m = 10 \/ m = 11 \/ m = 12 \/ m = 13)
  OBVIOUS
<1>3. \A y : ReadReg(y, m) = ReadTime(y[Place(m)[1]], Place(m)[2])
  <2>1. ASSUME NEW y PROVE ReadReg(y, m) = ReadTime(y[Place(m)[1]], Place(m)[2])
    BY <1>2 DEF ReadReg, Control, LastReg
  <2> QED
    BY <2>1
<1>4. Place(m)[1] \in {"Alarm1", "Alarm2"}
  BY <1>2, AlarmPlace
<1> QED
  BY <1>1, <1>3, <1>4 DEF x

\* The alarm registers as they are read.
Memory(r) == [reg \in 7 .. 13 |-> ReadReg(r, reg)]

\* A transfer of the SPI clock, as it starts: its bytes and its address.
LEMMA TransferShape ==
  ASSUME NEW tr \in SpiTransfers
  PROVE  /\ tr \in Seq(Byte) /\ Data(tr) \in Seq(Byte)
         /\ Data(tr) = Tail(tr) /\ Len(tr) = Len(Data(tr)) + 1
         /\ Len(Data(tr)) \in Nat
         /\ DOMAIN Data(tr) = 1 .. Len(Data(tr))
         /\ \A k \in 1 .. Len(Data(tr)) : Data(tr)[k] = tr[k + 1] /\ Data(tr)[k] \in Byte
         /\ tr[1] \in Byte
         /\ Addr(tr) \in Nat /\ Addr(tr) = tr[1] % 128
<1>1. tr \in Seq(Byte) /\ tr # <<>>
  BY SpiAssumption
<1>2. tr[1] \in Byte /\ Tail(tr) \in Seq(Byte) /\ Len(Tail(tr)) \in Nat
  BY <1>1
<1>3. Addr(tr) \in Nat /\ Addr(tr) = tr[1] % 128
  <2>1. \A b \in Byte : b % 128 \in Nat
    BY DEF Byte
  <2>2. tr[1] % 128 \in Nat
    BY ONLY <1>2, <2>1
  <2> QED
    BY <2>2 DEF Addr
<1>4. /\ Len(tr) = Len(Tail(tr)) + 1
      /\ DOMAIN Tail(tr) = 1 .. Len(Tail(tr))
      /\ \A k \in 1 .. Len(Tail(tr)) : Tail(tr)[k] = tr[k + 1] /\ Tail(tr)[k] \in Byte
  BY <1>1
<1> QED
  BY <1>1, <1>2, <1>3, <1>4 DEF Data

\* The registers in terms of the clock, while the SPI clock runs.
FileMem == [reg \in 7 .. 13 |-> IF program = "spi" THEN ReadReg(rtc, reg)
                                ELSE ReadReg(PowerOnRtc, reg)]

\* While the SPI clock runs these are the registers as it reads them.
LEMMA FileMemIs ==
  program = "spi" /\ program' = "spi" => FileMem = Memory(rtc) /\ FileMem' = Memory(rtc')
BY DEF FileMem, Memory

\* A transfer to the registers.
LEMMA WriteRefines ==
  ASSUME ClockInv, program = "spi", program' = "spi", NEW tr \in SpiTransfers,
         SpiWriteRegs(tr)
  PROVE  File!Write(Addr(tr), Data(tr))
<1> DEFINE data == Data(tr)
           n == Len(data)
           first == Addr(tr)
           regs == [k \in DOMAIN data |-> Reg(tr, k)]
<1>1. /\ data \in Seq(Byte) /\ n \in Nat /\ DOMAIN data = 1 .. n /\ first \in Nat
      /\ \A k \in 1 .. n : data[k] \in Byte
  BY TransferShape
<1>2. /\ rtc' = Written(rtc, regs, data) /\ rtc \in Clocks(AlarmTime)
      /\ first \in 0 .. 18 /\ Writes(tr)
      /\ \A k \in 1 .. n : Reg(tr, k) # 14
      /\ rddata' = Returned(tr, data, 0)
      /\ UNCHANGED <<sramAddress, sramData>>
  BY <1>1 DEF SpiWriteRegs, ClockInv, LastReg, Control
<1>3. \A k \in 1 .. n : Reg(tr, k) = (first + k - 1) % 19
  BY DEF Reg, LastReg
<1>4. \A k \in 1 .. n : regs[k] = (first + k - 1) % 19
  BY <1>1, <1>3
<1> HIDE DEF regs, data, first
<1>5. Writable(regs, data)
  <2>1. ASSUME NEW k \in 1 .. n PROVE (first + k - 1) % 19 \in 0 .. 18
    BY <1>1, <1>2
  <2>2. \A k \in 1 .. n : regs[k] # 14
    BY <1>2, <1>3, <1>4
  <2> QED
    BY <1>1, <1>4, <2>1, <2>2 DEF Writable
<1>6. ASSUME NEW m \in 7 .. 13
      PROVE  ReadReg(rtc', m) =
               IF File!Position(first, m) <= n
               THEN File!Stored(m, data[File!Position(first, m)])
               ELSE ReadReg(rtc, m)
  <2>1. /\ rtc \in Clocks(AlarmTime) /\ first \in 0 .. 18 /\ m \in 7 .. 13
        /\ rtc' = Written(rtc, regs, data)
        /\ Round(first, regs, Len(data))
    BY <1>2, <1>4 DEF Round
  <2>2. Leaves(rtc, Written(rtc, regs, data), first, data, m)
    BY ONLY <1>5, <2>1, WrittenMemory
  <2> QED
    BY <2>1, <2>2 DEF Leaves
<1>7. FileMem' = [reg \in 7 .. 13 |->
                    IF File!Position(first, reg) <= n
                    THEN File!Stored(reg, data[File!Position(first, reg)])
                    ELSE FileMem[reg]]
  BY <1>6, FileMemIs DEF Memory
<1>8. rddata' = << 0 >> \o data
  BY <1>2 DEF Returned
<1> QED
  BY <1>2, <1>7, <1>8 DEF File!Write, File!Alarms, FileMem, data, first

\* A step that leaves the registers, the memory and its address alone.
LEMMA MemoryStays ==
  ASSUME program = "spi", program' = "spi", UNCHANGED rtc
  PROVE  FileMem' = FileMem
BY FileMemIs

\* A read of the registers, of no byte or of several.
LEMMA ReadRefines ==
  ASSUME ClockInv, program = "spi", program' = "spi", NEW tr \in SpiTransfers,
         SpiReadRegs(tr)
  PROVE  \/ Len(Data(tr)) > 0 /\ File!Read(Addr(tr), Len(Data(tr)))
         \/ Len(Data(tr)) = 0 /\ File!ReadOne(Addr(tr))
<1> DEFINE data == Data(tr)
           n == Len(data)
           first == Addr(tr)
           bytes == [k \in 1 .. n |-> ReadReg(rtc, Reg(tr, k))]
<1>1. /\ n \in Nat /\ DOMAIN data = 1 .. n /\ first \in Nat /\ Len(tr) = n + 1
  BY TransferShape
<1>2. /\ first \in 0 .. 18 /\ ~Writes(tr)
      /\ rddata' = Returned(tr, bytes, ReadReg(rtc, first))
      /\ UNCHANGED <<rtcVars, sramAddress, sramData>>
  BY <1>1 DEF SpiReadRegs, LastReg
<1>3. /\ FileMem' = FileMem
      /\ \A m \in 7 .. 13 : FileMem[m] = ReadReg(rtc, m)
  BY <1>2, MemoryStays DEF rtcVars, FileMem
<1> HIDE DEF data, first
<1>4. CASE n = 0
  <2>1. rddata' = <<ReadReg(rtc, first)>>
    BY <1>1, <1>2, <1>4 DEF Returned
  <2>2. Len(rddata') = 1 /\ (first \in 7 .. 13 => rddata' = <<FileMem[first]>>)
    BY <1>3, <2>1
  <2> QED
    BY <1>2, <1>3, <1>4, <2>2 DEF File!ReadOne, File!Alarms, FileMem, data, first, n
<1>5. CASE n > 0
  <2>1. rddata' = << 0 >> \o bytes
    BY <1>1, <1>2, <1>5 DEF Returned
  <2>2. Len(<< 0 >> \o bytes) = n + 1 /\ \A k \in 1 .. n : (<< 0 >> \o bytes)[1 + k] = bytes[k]
    <3> DEFINE Values == {0} \union {bytes[k] : k \in 1 .. n}
    <3>1. bytes \in Seq(Values) /\ Len(bytes) = n
      <4>1. \A k \in 1 .. n : bytes[k] \in Values
        OBVIOUS
      <4>2. DOMAIN bytes = 1 .. n
        OBVIOUS
      <4>3. bytes \in [1 .. n -> Values]
        <5> HIDE DEF Values
        <5> QED
          BY <4>1
      <4> HIDE DEF bytes, Values, n
      <4> QED
        BY <1>1, <4>3
    <3>2. << 0 >> \in Seq(Values) /\ Len(<< 0 >>) = 1
      OBVIOUS
    <3> HIDE DEF bytes, Values
    <3> QED
      BY <1>1, <3>1, <3>2
  <2>3. ASSUME NEW m \in 7 .. 13, File!Position(first, m) <= n
        PROVE  rddata'[1 + File!Position(first, m)] = FileMem[m]
    <3> DEFINE pos == File!Position(first, m)
    <3>1. pos \in 1 .. n /\ pos \in 1 .. 19 /\ (first + pos - 1) % 19 = m
      <4>1. \A i \in 0 .. 18 : \A l \in 7 .. 13 :
              1 + ((l - i) % 19) \in 1 .. 19 /\ (i + (1 + ((l - i) % 19)) - 1) % 19 = l
        OBVIOUS
      <4>2. pos = 1 + ((m - first) % 19)
        BY DEF File!Position, File!Regs
      <4>3. pos \in 1 .. 19 /\ (first + pos - 1) % 19 = m
        BY <1>2, <4>1, <4>2
      <4>4. pos <= n
        BY <2>3
      <4> HIDE DEF pos, n
      <4>5. pos \in 1 .. n
        BY ONLY <1>1, <4>3, <4>4
      <4> QED
        BY <4>3, <4>5
    <3> HIDE DEF pos
    <3>2. Reg(tr, pos) = m
      BY <3>1 DEF Reg, LastReg, first
    <3>3. bytes[pos] = ReadReg(rtc, m)
      BY <3>1, <3>2
    <3> HIDE DEF bytes
    <3>4. rddata'[1 + pos] = bytes[pos]
      BY ONLY <2>1, <2>2, <3>1
    <3> QED
      BY <1>3, <3>3, <3>4 DEF pos
  <2>4. Len(rddata') = n + 1
    <3> HIDE DEF bytes
    <3> QED
      BY ONLY <2>1, <2>2
  <2> QED
    BY <1>2, <1>3, <1>5, <2>3, <2>4 DEF File!Read, File!Alarms, FileMem, data, first, n
<1> QED
  BY <1>1, <1>4, <1>5

\* An access to the address of the memory.
LEMMA AddressRefines ==
  ASSUME ClockInv, program = "spi", program' = "spi", NEW tr \in SpiTransfers,
         SpiSramAddress(tr)
  PROVE  /\ Addr(tr) = 24
         /\ \/ tr[1] >= 128 /\ Len(Data(tr)) > 0 /\ File!MoveCursor(Data(tr)[1])
            \/ (tr[1] < 128 \/ Len(Data(tr)) = 0) /\ File!Otherwise(tr)
<1> DEFINE data == Data(tr)
           n == Len(data)
           to == IF Writes(tr) /\ Len(tr) > 1 THEN tr[2] ELSE sramAddress
           bytes == [k \in 1 .. n |-> IF k = 1 THEN to ELSE 0]
<1>1. /\ n \in Nat /\ DOMAIN data = 1 .. n /\ Len(tr) = n + 1
      /\ \A k \in 1 .. n : data[k] = tr[k + 1]
      /\ tr[1] \in Int
  <2>1. \A b \in Byte : b \in Int
    BY DEF Byte
  <2>2. tr[1] \in Byte
    BY TransferShape
  <2>3. tr[1] \in Int
    BY ONLY <2>1, <2>2
  <2> QED
    BY <2>3, TransferShape
<1>2. /\ Addr(tr) = 24 /\ sramAddress' = to
      /\ rddata' = Returned(tr, bytes, sramAddress)
      /\ UNCHANGED <<rtcVars, sramData>>
  BY <1>1 DEF SpiSramAddress
<1>3. FileMem' = FileMem
  BY <1>2, MemoryStays DEF rtcVars
<1>4. Writes(tr) <=> ~(tr[1] < 128)
  BY <1>1 DEF Writes
<1>5. n = 0 <=> Len(tr) = 1
  BY <1>1
<1>6. n > 0 => data[1] = tr[2]
  BY <1>1
<1> HIDE DEF data
<1>7. ASSUME NEW x, rddata' = << 0 >> \o bytes
      PROVE  Len(rddata') = n + 1 /\ rddata'[1] = 0
  <2> DEFINE Values == {0, to}
  <2>1. bytes \in Seq(Values) /\ Len(bytes) = n
    <3>1. bytes \in [1 .. n -> Values]
      OBVIOUS
    <3>2. DOMAIN bytes = 1 .. n
      OBVIOUS
    <3> HIDE DEF bytes, Values, n
    <3> QED
      BY <1>1, <3>1, <3>2
  <2>2. << 0 >> \in Seq(Values) /\ Len(<< 0 >>) = 1 /\ << 0 >>[1] = 0
    OBVIOUS
  <2> HIDE DEF bytes, Values
  <2>3. Len(<< 0 >> \o bytes) = n + 1 /\ (<< 0 >> \o bytes)[1] = 0
    BY <1>1, <2>1, <2>2
  <2> QED
    BY ONLY <1>7, <2>3
<1> HIDE DEF bytes, n
<1>8. CASE Writes(tr) /\ n > 0
  <2>1. rddata' = << 0 >> \o bytes
    BY <1>2, <1>8 DEF Returned
  <2>2. rddata'[1] = 0 /\ sramAddress' = data[1]
    BY <1>1, <1>2, <1>6, <1>7, <1>8, <2>1
  <2> QED
    BY <1>1, <1>2, <1>3, <1>4, <1>8, <2>2 DEF File!MoveCursor, FileMem, data, n
<1>9. CASE ~(Writes(tr) /\ n > 0)
  <2>1. sramAddress' = sramAddress /\ (tr[1] < 128 \/ n = 0)
    BY <1>1, <1>2, <1>4, <1>9
  <2>2. Len(rddata') = Len(tr)
    <3>1. CASE Len(tr) = 1 /\ ~Writes(tr)
      <4>1. rddata' = <<sramAddress>>
        BY <1>2, <3>1 DEF Returned
      <4> QED
        BY <3>1, <4>1
    <3>2. CASE ~(Len(tr) = 1 /\ ~Writes(tr))
      <4>1. rddata' = << 0 >> \o bytes
        BY <1>2, <3>2 DEF Returned
      <4> QED
        BY <1>1, <1>7, <4>1
    <3> QED
      BY <3>1, <3>2
  <2> QED
    BY <1>2, <1>3, <2>1, <2>2 DEF File!Otherwise, FileMem, data, n
<1> QED
  BY <1>8, <1>9

\* An access to a register that there is not.
LEMMA UndefinedRefines ==
  ASSUME program = "spi", program' = "spi", NEW tr \in SpiTransfers,
         SpiUndefined(tr)
  PROVE  Addr(tr) \notin (0 .. 18) \union {24, 25} /\ File!Otherwise(tr)
<1>1. tr \in Seq(Byte) /\ Addr(tr) \in Nat
  BY TransferShape
<1>2. Addr(tr) \notin (0 .. 18) \union {24, 25}
  BY <1>1 DEF SpiUndefined, LastReg
<1>3. Len(rddata') = Len(tr)
  <2>1. rddata' = [k \in DOMAIN tr |-> 48 + ((k - 1) % 64)]
    BY DEF SpiUndefined
  <2>2. Len(tr) \in Nat /\ DOMAIN tr = 1 .. Len(tr)
    BY <1>1
  <2> DEFINE n == Len(tr)
  <2>3. rddata' = [k \in 1 .. n |-> 48 + ((k - 1) % 64)] /\ n \in Nat
    BY <2>1, <2>2
  <2> HIDE DEF n
  <2>4. Len(rddata') = n
    BY <2>3
  <2> QED
    BY <2>4 DEF n
<1>4. UNCHANGED <<rtcVars, sramAddress, sramData>>
  BY DEF SpiUndefined
<1>5. FileMem' = FileMem
  BY <1>4, MemoryStays DEF rtcVars
<1> QED
  BY <1>2, <1>3, <1>4, <1>5 DEF File!Otherwise, FileMem

\* Where a transfer of n bytes leaves the address.
LEMMA CursorAfter ==
  ASSUME CellsInv, NEW n \in Nat
  PROVE  /\ File!CellOf(n + 1) = IF n = 0 THEN sramAddress
                                 ELSE (sramAddress + n) % SramSize
         /\ File!CellOf(n + 1) \in Nat
<1>1. CASE n = 0
  BY <1>1 DEF File!CellOf, CellsInv
<1>2. CASE n # 0
  <2>1. n \in Nat \ {0} /\ n + 1 \in Nat \ {0}
    BY <1>2
  <2> QED
    BY <1>2, <2>1, NextCell
<1> QED
  BY <1>1, <1>2

\* An access to the memory of the clock, and what it keeps.
LEMMA DataRefines ==
  ASSUME CellsInv, program = "spi", program' = "spi", NEW tr \in SpiTransfers,
         SpiSramData(tr)
  PROVE  /\ Addr(tr) = 25 /\ CellsInv'
         /\ \/ tr[1] >= 128 /\ File!WriteCells(Data(tr))
            \/ tr[1] < 128 /\ Len(Data(tr)) > 0 /\ File!ReadCells(Len(Data(tr)), << 0 >>)
            \/ tr[1] < 128 /\ Len(Data(tr)) = 0 /\ File!ReadCells(1, <<>>)
<1> DEFINE data == Data(tr)
           n == Len(data)
           s == [at |-> sramAddress, cells |-> sramData, out |-> <<>>]
           bytes == IF Len(tr) = 1 /\ ~Writes(tr) THEN tr ELSE data
           end == Accessed(s, Writes(tr), bytes)
           content(k) == [i \in 1 .. k |-> File!Content(File!CellOf(i))]
<1>1. /\ n \in Nat /\ data \in Seq(Byte) /\ tr \in Seq(Byte) /\ Len(tr) = n + 1
      /\ tr[1] \in Int
  <2>1. \A b \in Byte : b \in Int
    BY DEF Byte
  <2>2. tr[1] \in Byte
    BY TransferShape
  <2>3. tr[1] \in Int
    BY ONLY <2>1, <2>2
  <2> QED
    BY <2>3, TransferShape
<1>2. /\ Addr(tr) = 25 /\ sramAddress' = end.at /\ sramData' = end.cells
      /\ rddata' = IF bytes = tr THEN end.out ELSE << 0 >> \o end.out
      /\ UNCHANGED rtcVars
  BY DEF SpiSramData
<1>3. FileMem' = FileMem
  BY <1>2, MemoryStays DEF rtcVars
<1>4. data # tr
  <2>1. Len(data) # Len(tr)
    BY <1>1
  <2> QED
    BY <2>1
<1>5. Begin(data, n) = data
  <2>1. data = [j \in 1 .. n |-> data[j]]
    BY <1>1
  <2> QED
    BY <2>1 DEF Begin
<1>6. n = 0 <=> Len(tr) = 1
  BY <1>1
<1>7. CASE Writes(tr)
  <2>1. bytes = data /\ Writes(tr) = TRUE
    BY <1>7 DEF Writes
  <2>2. end = Accessed(s, TRUE, data)
    BY <2>1
  <2> HIDE DEF data, bytes, end
  <2>3. end = [at |-> File!CellOf(n + 1), cells |-> CellsAfter(data, n),
               out |-> data]
    <3>1. Accessed(s, TRUE, data) = [at |-> File!CellOf(n + 1),
                                     cells |-> CellsAfter(data, n),
                                     out |-> Begin(data, n)]
      BY <1>1, CellsWritten
    <3> QED
      BY ONLY <1>5, <2>2, <3>1
  <2>4. /\ sramAddress' = File!CellOf(n + 1) /\ sramData' = CellsAfter(data, n)
        /\ rddata' = << 0 >> \o data
    <3>1. end.at = File!CellOf(n + 1) /\ end.cells = CellsAfter(data, n)
          /\ end.out = data
      BY <2>3
    <3>2. rddata' = << 0 >> \o end.out
      BY <1>2, <1>4, <2>1
    <3> QED
      BY ONLY <1>2, <3>1, <3>2
  <2>5. /\ sramAddress' = IF n = 0 THEN sramAddress ELSE (sramAddress + n) % SramSize
        /\ sramAddress' \in Nat
    BY <1>1, <2>4, CursorAfter
  <2>6. CellsInv'
    <3>1. sramData' = [c \in DOMAIN sramData' |-> sramData'[c]]
      BY <2>4 DEF CellsAfter
    <3> QED
      BY <2>5, <3>1 DEF CellsInv
  <2>7. tr[1] >= 128
    BY <1>7 DEF Writes
  <2>8. File!WriteCells(data)
    BY <1>3, <2>4, <2>5 DEF File!WriteCells, CellsAfter, FileMem
  <2> QED
    BY <1>2, <2>6, <2>7, <2>8 DEF data
<1>8. ASSUME ~Writes(tr), NEW reads, reads \in Seq(Byte), reads = bytes
      PROVE  /\ end = [at |-> File!CellOf(Len(reads) + 1), cells |-> sramData,
                       out |-> content(Len(reads))]
             /\ Len(reads) \in Nat
  <2>1. Writes(tr) = FALSE
    BY <1>8 DEF Writes
  <2>2. end = Accessed(s, FALSE, reads)
    BY <1>8, <2>1
  <2>3. Len(reads) \in Nat
    BY <1>8
  <2> HIDE DEF bytes, end, data
  <2>4. Accessed(s, FALSE, reads) = [at |-> File!CellOf(Len(reads) + 1),
                                     cells |-> sramData, out |-> content(Len(reads))]
    BY <2>3, CellsRead
  <2> QED
    BY ONLY <2>2, <2>3, <2>4
<1>9. ASSUME ~Writes(tr), NEW k \in Nat, k # 0,
             end = [at |-> File!CellOf(k + 1), cells |-> sramData, out |-> content(k)],
             NEW first, rddata' = first \o end.out
      PROVE  CellsInv' /\ File!ReadCells(k, first)
  <2> HIDE DEF data, bytes, end, content
  <2>1. end.at = File!CellOf(k + 1) /\ end.cells = sramData /\ end.out = content(k)
    BY <1>9
  <2>2. /\ sramAddress' = File!CellOf(k + 1) /\ sramData' = sramData
        /\ rddata' = first \o content(k)
    BY ONLY <1>2, <1>9, <2>1
  <2>3. sramAddress' = (sramAddress + k) % SramSize /\ sramAddress' \in Nat
    BY <1>9, <2>2, CursorAfter
  <2>4. CellsInv'
    BY <2>2, <2>3 DEF CellsInv
  <2> QED
    BY <1>3, <1>9, <2>2, <2>3, <2>4 DEF File!ReadCells, FileMem, content
<1>10. ~Writes(tr) => tr[1] < 128
  BY <1>1 DEF Writes
<1>11. CASE ~Writes(tr) /\ n > 0
  <2>1. bytes = data /\ bytes \in Seq(Byte)
    BY <1>1, <1>11
  <2>2. rddata' = << 0 >> \o end.out
    <3> HIDE DEF data, end
    <3>1. bytes # tr
      BY <1>4, <2>1
    <3> HIDE DEF bytes
    <3> QED
      BY <1>2, <3>1
  <2>3. end = [at |-> File!CellOf(n + 1), cells |-> sramData, out |-> content(n)]
    <3> HIDE DEF bytes, end, content, data, s
    <3> QED
      BY <1>8, <1>11, <2>1
  <2> HIDE DEF data, bytes, end, content
  <2>4. CellsInv' /\ File!ReadCells(n, << 0 >>)
    <3>1. n \in Nat /\ n # 0 /\ ~Writes(tr)
      BY <1>1, <1>11
    <3> HIDE DEF n, s
    <3> QED
      BY ONLY <1>9, <2>2, <2>3, <3>1
  <2> QED
    BY <1>2, <1>10, <1>11, <2>4 DEF data
<1>12. CASE ~Writes(tr) /\ n = 0
  <2>1. bytes = tr /\ bytes \in Seq(Byte) /\ Len(bytes) = 1
    BY <1>1, <1>6, <1>12
  <2>2. rddata' = end.out
    <3> HIDE DEF data, end, bytes
    <3> QED
      BY <1>2, <2>1
  <2>3. end = [at |-> File!CellOf(1 + 1), cells |-> sramData, out |-> content(1)]
    <3> HIDE DEF bytes, end, content, data, s
    <3> QED
      BY <1>8, <1>12, <2>1
  <2>4. <<>> \o end.out = end.out
    <3>1. end.out = content(1)
      <4> HIDE DEF end, content
      <4> QED
        BY <2>3
    <3>2. content(1) \in Seq({File!Content(File!CellOf(1))})
      OBVIOUS
    <3> HIDE DEF content, end
    <3> QED
      BY <3>1, <3>2
  <2> HIDE DEF data, bytes, end, content
  <2>5. CellsInv' /\ File!ReadCells(1, <<>>)
    <3> DEFINE one == 1
    <3>1. one \in Nat /\ one # 0 /\ ~Writes(tr)
      BY <1>12
    <3>2. end = [at |-> File!CellOf(one + 1), cells |-> sramData,
                 out |-> content(one)]
      BY <2>3
    <3>3. rddata' = <<>> \o end.out
      BY ONLY <2>2, <2>4
    <3> HIDE DEF one, n, s
    <3>4. CellsInv' /\ File!ReadCells(one, <<>>)
      BY ONLY <1>9, <3>1, <3>2, <3>3
    <3> QED
      BY <3>4 DEF one
  <2> QED
    BY <1>2, <1>10, <1>12, <2>5 DEF data
<1> QED
  BY <1>1, <1>7, <1>11, <1>12

\* What a transfer does is what the register file does.
LEMMA TransferRefines ==
  ASSUME ClockInv, CellsInv, program = "spi", program' = "spi",
         NEW tr \in SpiTransfers,
         \/ SpiWriteRegs(tr) \/ SpiReadRegs(tr) \/ SpiSramAddress(tr)
         \/ SpiSramData(tr) \/ SpiUndefined(tr)
  PROVE  CellsInv' /\ File!Next
<1> DEFINE reg == tr[1] % 128
           data == Tail(tr)
           n == Len(data)
           Steps == \/ reg < 19 /\ tr[1] >= 128 /\ File!Write(reg, data)
                    \/ reg < 19 /\ tr[1] < 128 /\ n > 0 /\ File!Read(reg, n)
                    \/ reg < 19 /\ tr[1] < 128 /\ n = 0 /\ File!ReadOne(reg)
                    \/ reg = 25 /\ tr[1] >= 128 /\ File!WriteCells(data)
                    \/ reg = 25 /\ tr[1] < 128 /\ n > 0 /\ File!ReadCells(n, << 0 >>)
                    \/ reg = 25 /\ tr[1] < 128 /\ n = 0 /\ File!ReadCells(1, <<>>)
                    \/ reg = 24 /\ tr[1] >= 128 /\ n > 0 /\ File!MoveCursor(data[1])
                    \/ reg = 24 /\ (tr[1] < 128 \/ n = 0) /\ File!Otherwise(tr)
                    \/ reg \notin (0 .. 18) \union {24, 25} /\ File!Otherwise(tr)
<1>1. Steps => File!Next
  BY DEF File!Next, File!Regs
<1>2. /\ Addr(tr) = reg /\ Data(tr) = data /\ reg \in Nat /\ n \in Nat
      /\ tr[1] \in Byte
      /\ \A k \in 1 .. n : data[k] \in Byte
  BY TransferShape
<1>3. tr[1] \in Int /\ (Writes(tr) <=> tr[1] >= 128) /\ (~Writes(tr) <=> tr[1] < 128)
  <2>1. \A b \in Byte : b \in Int
    BY DEF Byte
  <2>2. tr[1] \in Int
    BY ONLY <1>2, <2>1
  <2> QED
    BY <2>2 DEF Writes
<1> HIDE DEF reg, data, n
<1>4. CASE SpiWriteRegs(tr)
  <2>1. reg < 19 /\ Writes(tr) /\ UNCHANGED <<sramAddress, sramData>>
    BY <1>2, <1>4 DEF SpiWriteRegs, LastReg
  <2>2. File!Write(reg, data)
    <3>1. File!Write(Addr(tr), Data(tr))
      BY <1>4, WriteRefines
    <3> QED
      BY <1>2, <3>1
  <2> QED
    BY <1>1, <1>3, <2>1, <2>2 DEF CellsInv
<1>5. CASE SpiReadRegs(tr)
  <2>1. reg < 19 /\ ~Writes(tr) /\ UNCHANGED <<sramAddress, sramData>>
    BY <1>2, <1>5 DEF SpiReadRegs, LastReg
  <2>2. \/ n > 0 /\ File!Read(reg, n)
        \/ n = 0 /\ File!ReadOne(reg)
    <3>1. \/ Len(Data(tr)) > 0 /\ File!Read(Addr(tr), Len(Data(tr)))
          \/ Len(Data(tr)) = 0 /\ File!ReadOne(Addr(tr))
      BY <1>5, ReadRefines
    <3>2. Len(Data(tr)) = n
      BY <1>2 DEF n
    <3> QED
      BY <1>2, <3>1, <3>2
  <2> QED
    BY <1>1, <1>3, <2>1, <2>2 DEF CellsInv
<1>6. CASE SpiSramAddress(tr)
  <2>1. /\ reg = 24
        /\ \/ tr[1] >= 128 /\ n > 0 /\ File!MoveCursor(data[1])
           \/ (tr[1] < 128 \/ n = 0) /\ File!Otherwise(tr)
    <3>1. /\ Addr(tr) = 24
          /\ \/ tr[1] >= 128 /\ Len(Data(tr)) > 0 /\ File!MoveCursor(Data(tr)[1])
             \/ (tr[1] < 128 \/ Len(Data(tr)) = 0) /\ File!Otherwise(tr)
      BY <1>6, AddressRefines
    <3>2. Len(Data(tr)) = n
      BY <1>2 DEF n
    <3> QED
      BY <1>2, <3>1, <3>2
  <2>2. CellsInv'
    <3>1. sramData' = sramData
      BY <1>6 DEF SpiSramAddress
    <3>2. sramAddress' \in Nat
      <4>1. CASE File!MoveCursor(data[1]) /\ n > 0
        <5>1. data[1] \in Byte
          BY <1>2, <4>1
        <5>2. sramAddress' = data[1]
          BY <4>1 DEF File!MoveCursor
        <5>3. \A b \in Byte : b \in Nat
          BY DEF Byte
        <5> QED
          BY ONLY <5>1, <5>2, <5>3
      <4>2. CASE File!Otherwise(tr)
        BY <4>2 DEF File!Otherwise, CellsInv
      <4> QED
        BY <2>1, <4>1, <4>2
    <3> QED
      BY <3>1, <3>2 DEF CellsInv
  <2> QED
    BY <1>1, <2>1, <2>2
<1>7. CASE SpiSramData(tr)
  <2>1. /\ reg = 25 /\ CellsInv'
        /\ \/ tr[1] >= 128 /\ File!WriteCells(data)
           \/ tr[1] < 128 /\ n > 0 /\ File!ReadCells(n, << 0 >>)
           \/ tr[1] < 128 /\ n = 0 /\ File!ReadCells(1, <<>>)
    <3>1. /\ Addr(tr) = 25 /\ CellsInv'
          /\ \/ tr[1] >= 128 /\ File!WriteCells(Data(tr))
             \/ tr[1] < 128 /\ Len(Data(tr)) > 0 /\ File!ReadCells(Len(Data(tr)), << 0 >>)
             \/ tr[1] < 128 /\ Len(Data(tr)) = 0 /\ File!ReadCells(1, <<>>)
      BY <1>7, DataRefines
    <3>2. Len(Data(tr)) = n
      BY <1>2 DEF n
    <3> QED
      BY <1>2, <3>1, <3>2
  <2> QED
    BY <1>1, <2>1
<1>8. CASE SpiUndefined(tr)
  <2>1. reg \notin (0 .. 18) \union {24, 25} /\ File!Otherwise(tr)
    BY <1>2, <1>8, UndefinedRefines
  <2>2. CellsInv'
    BY <1>8 DEF SpiUndefined, CellsInv
  <2> QED
    BY <1>1, <2>1, <2>2
<1> QED
  BY <1>4, <1>5, <1>6, <1>7, <1>8

\* Any other step leaves the registers and the memory as they are.
LEMMA FileStep ==
  ClockInv /\ CellsInv /\ [Next]_vars => CellsInv' /\ [File!Next]_(File!vars)
<1> SUFFICES ASSUME ClockInv, CellsInv, [Next]_vars
             PROVE  CellsInv' /\ [File!Next]_(File!vars)
  OBVIOUS
<1>1. program' = program
  BY DEF Next, vars
<1>2. ASSUME FileMem' = FileMem, UNCHANGED spiVars
      PROVE  CellsInv' /\ [File!Next]_(File!vars)
  BY <1>2 DEF spiVars, CellsInv, File!vars, FileMem
<1>3. CASE program # "spi" /\ UNCHANGED spiVars
  <2>1. FileMem' = FileMem
    BY <1>1, <1>3 DEF FileMem
  <2> QED
    BY <1>2, <1>3, <2>1
<1>4. CASE UNCHANGED <<rtc, spiVars>>
  <2>1. FileMem' = FileMem
    BY <1>1, <1>4 DEF FileMem
  <2> QED
    BY <1>2, <1>4, <2>1
<1>5. CASE program = "spi" /\ SpiNext
  <2>1. CASE SpiSelect
    <3>1. rtc' = UpdateAlarms(rtc, Instants[now]) /\ rtc \in Clocks(AlarmTime)
          /\ UNCHANGED spiVars
      BY <1>5, <2>1 DEF SpiSelect, Poll, ClockInv
    <3>2. \A m \in 7 .. 13 : ReadReg(rtc', m) = ReadReg(rtc, m)
      BY <3>1, PollMemory
    <3>3. FileMem' = FileMem
      BY <1>1, <1>5, <3>2 DEF FileMem
    <3> QED
      BY <1>2, <3>1, <3>3
  <2>2. CASE Tick /\ UNCHANGED spiVars
    BY <1>4, <2>2 DEF Tick
  <2>3. CASE SpiTransfer
    <3>1. PICK tr \in SpiTransfers :
            \/ SpiWriteRegs(tr) \/ SpiWriteControl(tr) \/ SpiReadRegs(tr)
            \/ SpiSramAddress(tr) \/ SpiSramData(tr) \/ SpiUndefined(tr)
      BY <2>3 DEF SpiTransfer
    <3>2. CASE SpiWriteControl(tr)
      BY <1>4, <3>2 DEF SpiWriteControl, Dies
    <3>3. CASE ~SpiWriteControl(tr)
      <4>1. CellsInv' /\ File!Next
        BY <1>1, <1>5, <3>1, <3>3, TransferRefines
      <4> QED
        BY <4>1
    <3> QED
      BY <3>2, <3>3
  <2> QED
    BY <1>5, <2>1, <2>2, <2>3 DEF SpiNext
<1>6. CASE UNCHANGED vars
  BY <1>4, <1>6 DEF vars, rtcVars
<1>7. CASE /\ program \in {"i2c", "can", "ds3231", "usbh", "usbh class"}
           /\ UNCHANGED spiVars
  BY <1>3, <1>7
<1> QED
  BY <1>5, <1>6, <1>7 DEF Next

\* The clock starts as the register file does.
LEMMA FileStart == Init => CellsInv /\ File!Init
<1> SUFFICES ASSUME Init PROVE CellsInv /\ File!Init
  OBVIOUS
<1>1. sramAddress = 0 /\ sramData = <<>> /\ rddata = <<>> /\ rtc = PowerOnRtc
  BY DEF Init, SpiInit, RtcInit
<1>2. <<>> = [c \in DOMAIN <<>> |-> <<>>[c]]
  OBVIOUS
<1>3. CellsInv
  BY <1>1, <1>2 DEF CellsInv
<1>4. ASSUME NEW m \in 7 .. 13
      PROVE  ReadReg(PowerOnRtc, m) = IF m \in {10, 13} THEN 1 ELSE 0
  <2>1. m = 7 \/ m = 8 \/ m = 9 \/ m = 10 \/ m = 11 \/ m = 12 \/ m = 13
    OBVIOUS
  <2>2. \A y : ReadReg(y, m) = ReadTime(y[Place(m)[1]], Place(m)[2])
    <3>1. m < 14 /\ ~(14 < 14) /\ m # 14 /\ m # 15 /\ m # 16 /\ m # 17 /\ m # 18
      OBVIOUS
    <3>2. ASSUME NEW y
          PROVE  ReadReg(y, m) = ReadTime(y[Place(m)[1]], Place(m)[2])
      BY <3>1 DEF ReadReg, Control, LastReg
    <3> QED
      BY <3>2
  <2>3. PowerOnRtc[Place(m)[1]] = PowerOnTime
    BY <2>1, AlarmPlace DEF PowerOnRtc
  <2>4. /\ PowerOnTime["seconds"] = 0 /\ PowerOnTime["minutes"] = 0
        /\ PowerOnTime["hours"] = 0 /\ ReadDayDate(PowerOnTime) = 1
    BY DEF PowerOnTime, ReadDayDate, Has
  <2> QED
    BY <2>1, <2>2, <2>3, <2>4, AlarmPlace DEF ReadTime
<1>5. FileMem = [reg \in 7 .. 13 |-> IF reg \in {10, 13} THEN 1 ELSE 0]
  BY <1>1, <1>4 DEF FileMem
<1> QED
  BY <1>1, <1>3, <1>5 DEF File!Init, File!Alarms, FileMem

\* The alarm registers and the memory of the SPI clock are memory, for any
\* transfers, wrap-around and polls between them (access_reg, xfr).
THEOREM ClockRefinesRegisterFile == Spec => ImplementsRegisterFile
<1>1. Init => ClockInv /\ CellsInv /\ File!Init
  BY ClockStart, FileStart
<1>2. ClockInv /\ CellsInv /\ [Next]_vars => ClockInv' /\ CellsInv'
  BY ClockStep, FileStep
<1>3. ClockInv /\ CellsInv /\ [Next]_vars => [File!Next]_(File!vars)
  BY FileStep
<1> QED
  BY <1>1, <1>2, <1>3, PTL DEF Spec, ImplementsRegisterFile, File!Spec
=============================================================================
