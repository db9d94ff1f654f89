---------------------------- MODULE UsbKeyboard ----------------------------
(***************************************************************************)
(* The USB keyboard on its bus: ControlEndpoint.tla under USBH_t of        *)
(* coremodel.py, which calls it for the packets of the virtual machine.    *)
(*                                                                         *)
(*   device   the state of endpoint 0                                      *)
(*   paused   ebusy: the <<endpoint, token>> pairs that answered NAK       *)
(*   rdbuf    the buffer IN transfers are read into; it never shrinks      *)
(*   done     the last USBH_DONE packet: the size its length field gives   *)
(*            and the data that follow on the stream                       *)
(*   alive    the program runs                                             *)
(*   served   what the data stage has returned since the last SETUP (a     *)
(*            history variable, read by the properties only)               *)
(*                                                                         *)
(* Requests is the set of requests the host may make, Sizes the sizes of   *)
(* its transfers, Others the other <<endpoint, token>> pairs it polls.     *)
(***************************************************************************)
EXTENDS ControlEndpoint

CONSTANTS Requests, Sizes, Others

\* The buffer of endpoint 0 (512 bytes) is larger than any descriptor.
ASSUME UsbAssumption ==
    /\ BufSize \in Nat
    /\ \A kind \in Offered : DescSize[kind] \in 0 .. BufSize
    /\ \A q \in Requests : q.dir \in {"in", "out"} /\ q.length \in Nat
    /\ Sizes \subseteq Nat

VARIABLES device, paused, rdbuf, done, alive, served

usbVars == <<device, paused, rdbuf, done, alive, served>>

NothingDone == [size |-> 0, data |-> <<>>]

UsbInit == /\ device = PowerOn
           /\ paused = {}
           /\ rdbuf = <<>>
           /\ done = NothingDone
           /\ alive = TRUE
           /\ served = <<>>

\* USBH_RESET: the interface is retried once and lets go of every pause; the
\* device only prints.
UsbReset == /\ alive
            /\ paused' = {}
            /\ UNCHANGED <<device, rdbuf, done, alive, served>>

\* SETUP clears its own pause, and its result is not looked at: a request
\* that is refused is not answered either.
UsbSetup == /\ alive
            /\ \E q \in Requests : device' = Setup(device, q)
            /\ paused' = paused \ {<<0, "SETUP">>}
            /\ served' = <<>>
            /\ UNCHANGED <<rdbuf, done, alive>>

\* OUT on endpoint 0: the answer carries two bytes of length.
UsbOut == /\ alive /\ <<0, "OUT">> \notin paused
          /\ \E size \in Sizes :
                LET r == Out(device, size) IN
                /\ device' = r.state
                /\ done' = [size |-> 2,
                            data |-> <<IF r.res < 0 THEN 0 ELSE r.res, 0>>]
          /\ UNCHANGED <<paused, rdbuf, alive, served>>

\* buf[:step] = ... replaces the beginning of the buffer.
Overwritten(buf, data) == data \o SubSeq(buf, Len(data) + 1, Len(buf))

\* IN on endpoint 0.  xfr() then prints as many bytes as were announced,
\* which ends the program when the buffer holds fewer.
UsbIn == /\ alive /\ <<0, "IN">> \notin paused
         /\ \E size \in Sizes :
               LET r   == In(device, size)
                   buf == Overwritten(rdbuf, r.data)
               IN  /\ device' = r.state
                   /\ rdbuf' = buf
                   /\ served' = served \o r.data
                   /\ \/ /\ r.res <= Len(buf)
                         /\ done' = IF r.res < 0
                                    THEN [size |-> 0, data |-> <<0, 0>>]
                                    ELSE [size |-> r.res, data |-> buf]
                         /\ UNCHANGED alive
                      \/ /\ r.res > Len(buf)
                         /\ alive' = FALSE
                         /\ UNCHANGED done
         /\ UNCHANGED paused

\* Any other endpoint: the keyboard never has a report, so that the endpoint
\* is paused, and nothing can un-pause it but a reset.
UsbOther == /\ alive
            /\ \E e \in Others \ paused : paused' = paused \union {e}
            /\ UNCHANGED <<device, rdbuf, done, alive, served>>

UsbNext == UsbReset \/ UsbSetup \/ UsbOut \/ UsbIn \/ UsbOther
=============================================================================
