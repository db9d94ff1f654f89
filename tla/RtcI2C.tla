------------------------------- MODULE RtcI2C -------------------------------
(***************************************************************************)
(* The I2C clock, coremodel-i2c-ds3231.py.                                 *)
(*                                                                         *)
(*   phase    what the bus has done since START: "idle", "started",        *)
(*            "writing" or "reading"                                       *)
(*   started  the next WRITE begins with a register number                 *)
(*   index    the register of the next byte; NoIndex until the first WRITE *)
(*   readData the bytes the last READ of the transaction returned          *)
(*                                                                         *)
(*   chunks   the calls of this transaction, a bound: at most MaxChunks    *)
(*                                                                         *)
(* I2CWrites is the set of chunks of bytes that may begin what the virtual *)
(* machine WRITEs, I2CMore the set of later ones, I2CReads the set of      *)
(* lengths it may READ.                                                    *)
(***************************************************************************)
EXTENDS RtcDevice

CONSTANTS I2CWrites, I2CMore, I2CReads, MaxChunks

ASSUME I2CAssumption ==
    /\ I2CWrites \subseteq Seq(Byte) \ {<<>>}
    /\ I2CMore \subseteq Seq(Byte) \ {<<>>}
    /\ I2CReads \subseteq Nat \ {0}

VARIABLES phase, started, index, readData, chunks

i2cVars == <<phase, started, index, readData, chunks>>

NoIndex == -1

I2CInit == /\ phase = "idle" /\ started = FALSE /\ chunks = 0
           /\ index = NoIndex /\ readData = <<>>

\* start(); a START may be repeated inside a transaction.
I2CStart == /\ up
            /\ Poll
            /\ phase' = "started"
            /\ started' = TRUE
            /\ chunks' = 0
            /\ readData' = <<>>
            /\ UNCHANGED <<now, up, index>>

I2CStop == /\ up /\ phase # "idle"
           /\ phase' = "idle"
           /\ readData' = <<>>
           /\ UNCHANGED <<rtcVars, started, index, chunks>>

\* The next call of the transaction.
Chunk == chunks < MaxChunks /\ chunks' = chunks + 1

\* Register 13 is written to the day and date of Alarm 1.
Target(reg) == IF reg = 13 THEN 10 ELSE reg

\* In the chunk that names the register the data bytes are counted from 1,
\* so that they land one register further than in a chunk of their own.
WriteBytes(from, first, bytes) ==
    LET reg(k) == (from + first + k - 1) % (LastReg + 1)
        n      == Len(bytes)
    IN  \/ /\ \A k \in 1 .. n : reg(k) # Control
           /\ rtc' = Written(rtc, [k \in 1 .. n |-> Target(reg(k))], bytes)
           /\ index' = (reg(n) + 1) % (LastReg + 1)
           /\ UNCHANGED <<now, up>>
        \/ /\ \E k \in 1 .. n : reg(k) = Control
           /\ Dies
           /\ UNCHANGED index

\* write(), the chunk that begins with a register number.
I2CWriteFirst ==
    /\ up /\ started /\ phase = "started" /\ Chunk
    /\ \E bytes \in I2CWrites :
          \/ /\ Len(bytes) = 1
             /\ index' = bytes[1]
             /\ UNCHANGED rtcVars
          \/ Len(bytes) > 1 /\ WriteBytes(bytes[1], 1, Tail(bytes))
    /\ started' = FALSE
    /\ phase' = "writing"
    /\ UNCHANGED readData

\* write(), a later chunk.
I2CWriteMore ==
    /\ up /\ ~started /\ phase = "writing" /\ Chunk
    /\ \E bytes \in I2CMore : WriteBytes(index, 0, bytes)
    /\ UNCHANGED <<started, phase, readData>>

\* read(): n bytes from the register of index.  Before the first WRITE the
\* attribute does not exist, and the program ends.
I2CRead ==
    /\ up /\ phase \in {"started", "reading"} /\ Chunk
    /\ phase' = "reading"
    /\ UNCHANGED started
    /\ \/ /\ index = NoIndex
          /\ Dies
          /\ UNCHANGED <<index, readData>>
       \/ /\ index # NoIndex
          /\ \E n \in I2CReads :
                LET reg(k) == (index + k - 1) % (LastReg + 1) IN
                /\ readData' = [k \in 1 .. n |-> ReadReg(rtc, reg(k))]
                /\ index' = (reg(n) + 1) % (LastReg + 1)
          /\ UNCHANGED rtcVars

I2CNext == \/ I2CStart
           \/ I2CStop
           \/ I2CWriteFirst
           \/ I2CWriteMore
           \/ I2CRead
           \/ Tick /\ UNCHANGED i2cVars
=============================================================================
