------------------------------ MODULE Devices ------------------------------
(***************************************************************************)
(* The device programs of the CoreModel demo, each attached to a bus of    *)
(* the virtual machine: the clock on I2C, SPI and CAN, the USB keyboard,   *)
(* and the older I2C clock and keyboard that the C library calls.  A run   *)
(* of the demo is one of the programs; `program` says which.               *)
(***************************************************************************)
EXTENDS RtcSpi, RtcCan, Ds3231, UsbhClass

CONSTANT Programs       \* the programs of the demo that may be run

VARIABLE program

vars == <<program, rtcVars, spiVars, i2cVars, canVars, ds, usbVars>>

Init == /\ program \in Programs
        /\ RtcInit /\ SpiInit /\ CanInit /\ UsbInit
        /\ ds = DsPowerOn
        /\ IF program = "ds3231" THEN DsInit ELSE I2CInit

Next == \/ /\ program = "i2c" /\ I2CNext
           /\ UNCHANGED <<program, spiVars, canVars, ds, usbVars>>
        \/ /\ program = "spi" /\ SpiNext
           /\ UNCHANGED <<program, i2cVars, canVars, ds, usbVars>>
        \/ /\ program = "can" /\ CanNext
           /\ UNCHANGED <<program, spiVars, i2cVars, ds, usbVars>>
        \/ /\ program = "ds3231" /\ DsNext
           /\ UNCHANGED <<program, spiVars, canVars, usbVars>>
        \/ /\ program = "usbh" /\ UsbNext
           /\ UNCHANGED <<program, rtcVars, spiVars, i2cVars, canVars, ds>>
        \/ /\ program = "usbh class" /\ OldNext
           /\ UNCHANGED <<program, rtcVars, spiVars, i2cVars, canVars, ds>>

Spec == Init /\ [][Next]_vars

-----------------------------------------------------------------------------
(* Properties.                                                             *)

Status == IF program = "ds3231" THEN ds.status ELSE rtc.status

Clears(b, w) == ~Has(b, w)

\* A byte without bit w is written to the status register in this step.
Acknowledged(w) ==
    \/ /\ program = "spi"
       /\ \E tr \in SpiTransfers : \E k \in DOMAIN Data(tr) :
             SpiWriteRegs(tr) /\ Reg(tr, k) = 15 /\ Clears(Data(tr)[k], w)
    \/ /\ program \in {"i2c", "ds3231"}
       /\ \E bytes \in I2CWrites \union I2CMore : \E k \in DOMAIN bytes :
             /\ Clears(bytes[k], w)
             /\ 15 = IF started THEN (bytes[1] + k - 1) % 19 ELSE (index + k - 1) % 19
       /\ phase' = "writing"

\* An alarm that has rung stays on until the virtual machine acknowledges it,
\* and only the poll that begins a transaction makes one ring: update_alarms,
\* start() and write_status().
AlarmFlagsSticky ==
    [][\A w \in {1, 2} :
          /\ Has(Status, w) /\ ~Has(Status', w) => Acknowledged(w)
          /\ ~Has(Status, w) /\ Has(Status', w) =>
                \/ SpiSelect \/ I2CStart \/ CanTx \/ DsStart]_vars

Rings(w) == ~Has(rtc.status, w) /\ Has(rtc'.status, w)

Masked(a) == \E field \in {"seconds", "minutes", "hours", "day", "date"} :
                 a[field] >= 128

OnItsDay(a, t) == IF Has(a.day, 64) THEN a.day % 8 = t.day % 8
                                    ELSE a.date % 64 = t.date % 64

RingOnItsDay ==
    /\ Rings(1) => Masked(rtc.Alarm1) \/ OnItsDay(rtc.Alarm1, rtc'.time)
    /\ Rings(2) => Masked(rtc.Alarm2) \/ OnItsDay(rtc.Alarm2, rtc'.time)

\* An alarm of the I2C and SPI clocks whose mask bits are clear rings only on
\* the day of the week, or else the day of the month, it is set for: a write
\* of one must not leave the other behind (write_day_date, update_alarms).
RingsOnlyOnItsDay ==
    [][(program = "i2c" \/ program = "spi") => RingOnItsDay]_vars

\* The alarm registers and the memory of the SPI clock are memory, through
\* every transfer, wrap-around and poll: RegisterFile.tla.
File == INSTANCE RegisterFile WITH
            Transfers <- SpiTransfers,
            mem    <- [reg \in 7 .. 13 |-> IF program = "spi" THEN ReadReg(rtc, reg)
                                           ELSE ReadReg(PowerOnRtc, reg)],
            cells  <- sramData,
            cursor <- sramAddress,
            out    <- rddata
ImplementsRegisterFile == File!Spec

\* The CAN clock has one answer under way exactly while ebusy says so, under
\* the index whose acknowledgement it waits for; a lost or second answer
\* would leave it silent for ever (can_rx, advance_if of CAN_t).
OneFrameInFlight ==
    /\ ebusy = 1 => \E f \in frames : frames = {f} /\ f.trnidx = trnidx
    /\ ebusy = 0 => frames = {}
    /\ ~initialized => frames = {}

\* What the keyboards return for a descriptor they know is the beginning of
\* that descriptor and no more than was asked for, however SETUP, IN, OUT and
\* reset follow one another (usbh_xfr_int).
DataStageServesRequest ==
    LET q == device.request
        known == IF program = "usbh class" THEN Old!Known(q) ELSE Known(q)
    IN  known => /\ Len(served) <= Smaller(DescSize[q.kind], q.length)
                 /\ \A k \in DOMAIN served : served[k] = <<q.kind, k - 1>>
=============================================================================
