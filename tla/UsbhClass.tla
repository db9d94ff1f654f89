----------------------------- MODULE UsbhClass -----------------------------
(***************************************************************************)
(* The older keyboard, class Usbh of examples/usbh/coremodel-usbh.py, that *)
(* the C library calls through coremodel.py of the demo.  Its endpoint 0   *)
(* works like that of ControlEndpoint.tla, except that the branches for    *)
(* configuration and string descriptors compare the wrong field and are    *)
(* never taken; each transfer has a buffer of its own.                     *)
(*                                                                         *)
(* The variables are those of UsbKeyboard.tla; rdbuf is not used.          *)
(***************************************************************************)
EXTENDS UsbKeyboard

Old == INSTANCE ControlEndpoint WITH Offered <- Offered \ {"config", "string"}

OldInit == UsbInit

OldSetup == /\ alive
            /\ \E q \in Requests : device' = Old!Setup(device, q)
            /\ paused' = paused \ {<<0, "SETUP">>}
            /\ served' = <<>>
            /\ UNCHANGED <<rdbuf, done, alive>>

OldOut == /\ alive /\ <<0, "OUT">> \notin paused
          /\ \E size \in Sizes :
                LET r == Old!Out(device, size) IN
                /\ device' = r.state
                /\ done' = [size |-> 2,
                            data |-> <<IF r.res < 0 THEN 0 ELSE r.res, 0>>]
          /\ UNCHANGED <<paused, rdbuf, alive, served>>

OldIn == /\ alive /\ <<0, "IN">> \notin paused
         /\ \E size \in Sizes :
               LET r == Old!In(device, size) IN
               /\ device' = r.state
               /\ served' = served \o r.data
               /\ done' = [size |-> IF r.res < 0 THEN 0 ELSE r.res, data |-> r.data]
         /\ UNCHANGED <<paused, rdbuf, alive>>

\* No report is ever pending: every other endpoint answers NAK.
OldOther == UsbOther

OldNext == UsbReset \/ OldSetup \/ OldOut \/ OldIn \/ OldOther
=============================================================================
