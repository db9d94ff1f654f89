------------------------------- MODULE RtcSpi -------------------------------
(***************************************************************************)
(* The SPI clock with battery-backed memory, coremodel-spi-ds3234.py.      *)
(*                                                                         *)
(*   sramAddress  SRAM_Address                                             *)
(*   sramData     SRAM_Data: the cells written since the start; the others *)
(*                still hold 0                                             *)
(*   rddata       the bytes the last transfer returned                     *)
(*                                                                         *)
(* SpiTransfers is the set of transfers the virtual machine may make, each *)
(* a nonempty sequence of bytes of which the first names the register.     *)
(***************************************************************************)
EXTENDS RtcDevice

CONSTANT SpiTransfers,
         SramSize         \* the cells that follow one another, 255 in the code

ASSUME SpiAssumption ==
    /\ SpiTransfers \subseteq Seq(Byte) \ {<<>>}
    /\ SramSize \in Nat \ {0}

VARIABLES sramAddress, sramData, rddata

spiVars == <<sramAddress, sramData, rddata>>

Cell(cells, a) == IF a \in DOMAIN cells THEN cells[a] ELSE 0

SpiInit == sramAddress = 0 /\ sramData = <<>> /\ rddata = <<>>

\* cs(1): the chip is selected.
SpiSelect == up /\ Poll /\ UNCHANGED <<now, up, spiVars>>

Addr(tr)    == tr[1] % 128
Writes(tr)  == tr[1] >= 128
Data(tr)    == Tail(tr)
Reg(tr, k)  == (Addr(tr) + k - 1) % (LastReg + 1)    \* of data byte k

\* The first byte returned is 0, except in a read of one byte.
Returned(tr, bytes, only) == IF Len(tr) = 1 /\ ~Writes(tr) THEN <<only>>
                             ELSE <<0>> \o bytes

SpiWriteRegs(tr) ==
    /\ Addr(tr) <= LastReg /\ Writes(tr)
    /\ \A k \in 1 .. Len(Data(tr)) : Reg(tr, k) # Control
    /\ rtc' = Written(rtc, [k \in DOMAIN Data(tr) |-> Reg(tr, k)], Data(tr))
    /\ rddata' = Returned(tr, Data(tr), 0)
    /\ UNCHANGED <<now, up, sramAddress, sramData>>

SpiWriteControl(tr) ==
    /\ Addr(tr) <= LastReg /\ Writes(tr)
    /\ \E k \in 1 .. Len(Data(tr)) : Reg(tr, k) = Control
    /\ Dies
    /\ UNCHANGED spiVars

SpiReadRegs(tr) ==
    /\ Addr(tr) <= LastReg /\ ~Writes(tr)
    /\ rddata' = Returned(tr, [k \in DOMAIN Data(tr) |-> ReadReg(rtc, Reg(tr, k))],
                          ReadReg(rtc, Addr(tr)))
    /\ UNCHANGED <<rtcVars, sramAddress, sramData>>

\* Only the second byte counts.
SpiSramAddress(tr) ==
    /\ Addr(tr) = 24
    /\ sramAddress' = IF Writes(tr) /\ Len(tr) > 1 THEN tr[2] ELSE sramAddress
    /\ rddata' = Returned(tr, [k \in DOMAIN Data(tr) |->
                                  IF k = 1 THEN sramAddress' ELSE 0],
                          sramAddress)
    /\ UNCHANGED <<rtcVars, sramData>>

\* Mutant of AccessCell: an address that moves on writes only.
AccessCellStaying(s, write, b) ==
    LET cells == IF write THEN [a \in DOMAIN s.cells \union {s.at} |->
                                    IF a = s.at THEN b ELSE s.cells[a]]
                          ELSE s.cells
    IN  [at |-> IF write THEN (s.at + 1) % SramSize ELSE s.at, cells |-> cells,
         out |-> Append(s.out, Cell(cells, s.at))]

\* access_reg(0x19, ..): one cell, and the address moves on.
AccessCell(s, write, b) ==
    LET cells == IF write THEN [a \in DOMAIN s.cells \union {s.at} |->
                                    IF a = s.at THEN b ELSE s.cells[a]]
                          ELSE s.cells
    IN  [at |-> (s.at + 1) % SramSize, cells |-> cells,
         out |-> Append(s.out, Cell(cells, s.at))]

\* One cell for each of the bytes.
Accessed(s, write, bytes) ==
    LET upTo[k \in 0 .. Len(bytes)] ==
            IF k = 0 THEN s ELSE AccessCell(upTo[k - 1], write, bytes[k])
    IN  upTo[Len(bytes)]

SpiSramData(tr) ==
    LET bytes == IF Len(tr) = 1 /\ ~Writes(tr) THEN tr ELSE Data(tr)
        end   == Accessed([at |-> sramAddress, cells |-> sramData, out |-> <<>>],
                          Writes(tr), bytes)
    IN  /\ Addr(tr) = 25
        /\ sramAddress' = end.at
        /\ sramData' = end.cells
        /\ rddata' = IF bytes = tr THEN end.out ELSE <<0>> \o end.out
        /\ UNCHANGED rtcVars

\* No such register: the bytes are counted, from the character '0'.
SpiUndefined(tr) ==
    /\ Addr(tr) > LastReg /\ Addr(tr) \notin {24, 25}
    /\ rddata' = [k \in DOMAIN tr |-> 48 + ((k - 1) % 64)]
    /\ UNCHANGED <<rtcVars, sramAddress, sramData>>

\* xfr().
SpiTransfer ==
    /\ up
    /\ \E tr \in SpiTransfers :
          \/ SpiWriteRegs(tr)
          \/ SpiWriteControl(tr)
          \/ SpiReadRegs(tr)
          \/ SpiSramAddress(tr)
          \/ SpiSramData(tr)
          \/ SpiUndefined(tr)

SpiNext == SpiSelect \/ SpiTransfer \/ (Tick /\ UNCHANGED spiVars)
=============================================================================
