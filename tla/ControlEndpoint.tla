-------------------------- MODULE ControlEndpoint --------------------------
(***************************************************************************)
(* Endpoint 0 of the USB keyboard, usbh_xfr_int() of coremodel-usbh.py: a  *)
(* request (SETUP), its data stage and its status stage, as operators that *)
(* take the device's state to the next one and say what is returned.       *)
(*                                                                         *)
(* A request is a record [dir, kind, length, value]: dir "in" is device to *)
(* host, and kind then names what is asked for.  Descriptor bytes are      *)
(* pairs <<kind, position>>; DescSize gives each descriptor's size, and    *)
(* Offered the descriptors the SETUP stage recognises.                     *)
(***************************************************************************)
EXTENDS Integers, Sequences

CONSTANTS DescSize, Offered, BufSize

XFR_NAK   == -1
XFR_STALL == -2

Smaller(a, b) == IF a < b THEN a ELSE b

NoRequest == [dir |-> "out", kind |-> "none", length |-> 0, value |-> 0]

PowerOn == [in_setup |-> FALSE, request |-> NoRequest, wLength |-> 0,
            ep0ptr |-> 0, ep0buf |-> [p \in 0 .. BufSize - 1 |-> <<"zero", p>>],
            bAddr |-> 0]

Known(q) == q.dir = "in" /\ q.kind \in Offered

\* Bytes of a descriptor are copied up to the length asked for; the length
\* fields of the configuration (bytes 2, 3) and of strings (byte 0) are then
\* patched in the buffer, whatever was copied.
Patched(kind) == CASE kind = "config" -> {2, 3}
                   [] kind = "string" -> {0}
                   [] OTHER           -> {}

\* Mutant of Setup: a SETUP that goes on where the last
\* data stage was left.
SetupGoingOn(c, q) ==
    LET n == Smaller(DescSize[q.kind], q.length)
        s == [c EXCEPT !.in_setup = TRUE, !.request = q, !.wLength = q.length]
    IN  IF Known(q)
        THEN [s EXCEPT !.wLength = n,
                       !.ep0buf = [p \in DOMAIN @ |->
                           IF p < n \/ p \in Patched(q.kind)
                           THEN <<q.kind, p>> ELSE @[p]]]
        ELSE s

\* SETUP.  A request that is not known keeps the length it asked for.
Setup(c, q) ==
    LET n == Smaller(DescSize[q.kind], q.length)
        s == [c EXCEPT !.in_setup = TRUE, !.request = q, !.ep0ptr = 0,
                       !.wLength = q.length]
    IN  IF Known(q)
        THEN [s EXCEPT !.wLength = n,
                       !.ep0buf = [p \in DOMAIN @ |->
                           IF p < n \/ p \in Patched(q.kind)
                           THEN <<q.kind, p>> ELSE @[p]]]
        ELSE s

\* How much of the data stage a transfer of `size` bytes can carry.
Step(c, size) == Smaller(c.wLength - c.ep0ptr, size)

Stalled(c) == [state |-> c, res |-> XFR_STALL, data |-> <<>>]
Acknowledge(c, size) == [state |-> c, res |-> size, data |-> <<>>]

\* OUT: the status stage of an "in" request, or data of an "out" request.
Out(c, size) ==
    CASE ~c.in_setup           -> Stalled(c)
      [] c.in_setup /\ c.request.dir = "in"
                               -> Acknowledge([c EXCEPT !.in_setup = FALSE], size)
      [] c.in_setup /\ c.request.dir = "out" ->
           LET step == Step(c, size) IN
           [state |-> [c EXCEPT !.ep0ptr = @ + step,
                                !.ep0buf = [p \in DOMAIN @ |->
                                    IF p \in c.ep0ptr .. c.ep0ptr + step - 1
                                    THEN <<"host", p>> ELSE @[p]]],
            res |-> step, data |-> <<>>]

\* IN: the status stage of an "out" request, which is when it takes effect,
\* or data of an "in" request.
In(c, size) ==
    LET done == [c EXCEPT !.in_setup = FALSE]
        step == Step(c, size)
    IN  CASE ~c.in_setup -> Stalled(c)
          [] c.in_setup /\ c.request.dir = "out" ->
               CASE c.request.kind = "address" ->
                      Acknowledge([done EXCEPT !.bAddr = c.request.value], size)
                 [] c.request.kind \in {"configuration", "clear feature"} ->
                      Acknowledge(done, size)
                 [] OTHER -> Stalled(done)
          [] c.in_setup /\ c.request.dir = "in" ->
               [state |-> [c EXCEPT !.ep0ptr = @ + step], res |-> step,
                data |-> [k \in 1 .. step |-> c.ep0buf[c.ep0ptr + k - 1]]]
=============================================================================
