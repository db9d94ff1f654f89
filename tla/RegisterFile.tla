---------------------------- MODULE RegisterFile ----------------------------
(***************************************************************************)
(* What the alarm registers and the memory of the SPI clock promise to the *)
(* virtual machine: they are memory.  Byte k of a transfer belongs to the  *)
(* k-th register after the one its first byte names, wrapping round; a     *)
(* register holds what was last written to it, and a read returns it and   *)
(* changes nothing but the address of the next memory cell.                *)
(*                                                                         *)
(*   mem     what a read of each alarm register returns                    *)
(*   cells   the memory cells written so far                               *)
(*   cursor  the cell the next access to the data register is for          *)
(*   out     the bytes the last transfer returned                          *)
(*                                                                         *)
(* Transfers and SramSize are as in RtcSpi.tla.  The clock's own registers *)
(* change by themselves, and nothing is said of them.                      *)
(***************************************************************************)
EXTENDS Integers, Sequences, FiniteSets

CONSTANTS Transfers, SramSize

VARIABLES mem, cells, cursor, out

vars == <<mem, cells, cursor, out>>

Alarms == 7 .. 13
Regs   == 19

\* What a register makes of a byte: the hours registers (9 and 12) have no
\* 0 o'clock in 12-hour mode, the day and date registers (10 and 13) keep the
\* day of the week without its three unused bits.
Stored(reg, b) ==
    CASE reg \in {9, 12} /\ b % 128 = 64  -> b + 33
      [] reg \in {9, 12} /\ b % 128 = 96  -> b - 31
      [] reg \in {10, 13} /\ b % 128 >= 64 -> (b \div 64) * 64 + (b % 8)
      [] OTHER -> b

\* The data byte of a transfer that starts at `first` which is for `reg`.
Position(first, reg) == 1 + ((reg - first) % Regs)

Init == /\ mem = [reg \in Alarms |-> IF reg \in {10, 13} THEN 1 ELSE 0]
        /\ cells = <<>>
        /\ cursor = 0
        /\ out = <<>>

Write(first, data) ==
    /\ mem' = [reg \in Alarms |->
                  IF Position(first, reg) <= Len(data)
                  THEN Stored(reg, data[Position(first, reg)]) ELSE mem[reg]]
    /\ out' = <<0>> \o data
    /\ UNCHANGED <<cells, cursor>>

Read(first, n) ==
    /\ Len(out') = n + 1
    /\ \A reg \in Alarms :
          Position(first, reg) <= n => out'[1 + Position(first, reg)] = mem[reg]
    /\ UNCHANGED <<mem, cells, cursor>>

ReadOne(reg) ==
    /\ Len(out') = 1
    /\ reg \in Alarms => out' = <<mem[reg]>>
    /\ UNCHANGED <<mem, cells, cursor>>

\* Cells 0 to SramSize - 1 follow one another; the last is reached only by name.
CellOf(k) == IF k = 1 THEN cursor ELSE (cursor + k - 1) % SramSize
Content(c) == IF c \in DOMAIN cells THEN cells[c] ELSE 0

\* The last of n bytes that is for cell c.
LastFor(c, n) == CHOOSE k \in 1 .. n :
                    CellOf(k) = c /\ \A j \in k + 1 .. n : CellOf(j) # c

WriteCells(data) ==
    LET n == Len(data) IN
    /\ cells' = [c \in DOMAIN cells \union {CellOf(k) : k \in 1 .. n} |->
                    IF \E k \in 1 .. n : CellOf(k) = c
                    THEN data[LastFor(c, n)] ELSE cells[c]]
    /\ cursor' = IF n = 0 THEN cursor ELSE (cursor + n) % SramSize
    /\ out' = <<0>> \o data
    /\ UNCHANGED mem

ReadCells(n, first) ==
    /\ cursor' = IF n = 0 THEN cursor ELSE (cursor + n) % SramSize
    /\ out' = first \o [k \in 1 .. n |-> Content(CellOf(k))]
    /\ UNCHANGED <<mem, cells>>

MoveCursor(a) == /\ cursor' = a
                 /\ out'[1] = 0
                 /\ UNCHANGED <<mem, cells>>

\* Any other transfer leaves everything as it is.
Otherwise(tr) == /\ Len(out') = Len(tr)
                 /\ UNCHANGED <<mem, cells, cursor>>

Next ==
    \E tr \in Transfers :
        LET reg  == tr[1] % 128
            data == Tail(tr)
            n    == Len(data)
        IN  \/ reg < Regs /\ tr[1] >= 128 /\ Write(reg, data)
            \/ reg < Regs /\ tr[1] < 128 /\ n > 0 /\ Read(reg, n)
            \/ reg < Regs /\ tr[1] < 128 /\ n = 0 /\ ReadOne(reg)
            \/ reg = 25 /\ tr[1] >= 128 /\ WriteCells(data)
            \/ reg = 25 /\ tr[1] < 128 /\ n > 0 /\ ReadCells(n, <<0>>)
            \/ reg = 25 /\ tr[1] < 128 /\ n = 0 /\ ReadCells(1, <<>>)
            \/ reg = 24 /\ tr[1] >= 128 /\ n > 0 /\ MoveCursor(data[1])
            \/ reg = 24 /\ (tr[1] < 128 \/ n = 0) /\ Otherwise(tr)
            \/ reg \notin (0 .. 18) \union {24, 25} /\ Otherwise(tr)

Spec == Init /\ [][Next]_vars
=============================================================================
