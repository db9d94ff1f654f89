------------------------------- MODULE Ds3231 -------------------------------
(***************************************************************************)
(* The older I2C clock, class ds3231 of examples/i2c-ds3231-rtc, which the *)
(* C library calls.  It shares the bus of RtcI2C.tla (phase, started,      *)
(* index, readData, and the bytes the virtual machine may write), and      *)
(* keeps plain registers:                                                  *)
(*                                                                         *)
(*   ds  its fields: alarm, control, status and aging registers, the       *)
(*       12-hour flag, and the system time that the last START took        *)
(***************************************************************************)
EXTENDS RtcI2C

VARIABLE ds

DsType == [Alarm1_Sec : Byte, Alarm1_Min : Byte, Alarm1_Hours : Byte,
           Alarm1_DayDate : Byte, Alarm2_Min : Byte, Alarm2_Hours : Byte,
           Alarm2_DayDate : Byte, control : Byte, status : Byte, aging : Byte,
           twelve_hour_flag : {0, 1}, system_time : DOMAIN Instants]

DsPowerOn == [Alarm1_Sec |-> 0, Alarm1_Min |-> 0, Alarm1_Hours |-> 0,
              Alarm1_DayDate |-> 1, Alarm2_Min |-> 0, Alarm2_Hours |-> 0,
              Alarm2_DayDate |-> 1, control |-> 28, status |-> 136, aging |-> 0,
              twelve_hour_flag |-> 0, system_time |-> 1]

\* format_7bit_bcd of a number that may be negative: int() cuts towards zero.
DsBcd7(n) == ((IF n < 0 THEN -((-n) \div 10) ELSE n \div 10) * 16 + (n % 10)) % 128

\* The hours register at time t; hour - 12 is negative in the morning.
DsHours(o, t) ==
    IF o.twelve_hour_flag = 0 THEN Bcd6(t.hour)
    ELSE (DsBcd7(t.hour - 12) % 32) + (IF t.hour > 11 THEN 96 ELSE 64)

\* start(): one comparison per alarm, chosen by the highest flag that is set;
\* `old` is the time of the last START, compared in binary with a BCD number.
DsAlarm1Due(o, old, t) ==
    IF Has(o.Alarm1_Sec, 128) THEN old.sec # Bcd7(t.sec)
    ELSE IF Has(o.Alarm1_Min, 128) THEN o.Alarm1_Sec % 128 = Bcd7(t.sec)
    ELSE IF Has(o.Alarm1_Hours, 128) THEN o.Alarm1_Min % 128 = Bcd7(t.min)
    ELSE IF Has(o.Alarm1_DayDate, 128) THEN o.Alarm1_Hours % 128 = DsHours(o, t)
    ELSE IF Has(o.Alarm1_DayDate, 64) THEN o.Alarm1_DayDate % 64 = t.mday + 1
    ELSE o.Alarm1_DayDate % 64 = Bcd6(t.mday)

DsAlarm2Due(o, old, t) ==
    IF Has(o.Alarm2_Min, 128) THEN old.min # Bcd7(t.min)
    ELSE IF Has(o.Alarm2_Hours, 128) THEN o.Alarm2_Min % 128 = Bcd7(t.min)
    ELSE IF Has(o.Alarm2_DayDate, 128) THEN o.Alarm2_Hours % 128 = DsHours(o, t)
    ELSE IF Has(o.Alarm2_DayDate, 64) THEN o.Alarm2_DayDate % 64 = t.mday + 1
    ELSE o.Alarm2_DayDate % 64 = Bcd6(t.mday)

DsStart ==
    /\ phase' = "started"
    /\ started' = TRUE
    /\ chunks' = 0
    /\ LET old == Instants[ds.system_time]
           t   == Instants[now]
           one == IF DsAlarm1Due(ds, old, t) THEN Set(ds.status, 1) ELSE ds.status
       IN  ds' = [ds EXCEPT !.system_time = now,
                            !.status = IF DsAlarm2Due(ds, old, t)
                                       THEN Set(one, 2) ELSE one]
    /\ readData' = <<>>
    /\ UNCHANGED <<rtcVars, index>>

\* write() of the status register: the alarm flags stay where 1 is written.
DsWriteStatus(o, b) ==
    LET kept(w) == IF Has(b, w) /\ Has(o.status, w) THEN w ELSE 0
    IN  [o EXCEPT !.status = (IF Has(b, 8) THEN 8 ELSE 128) + kept(2) + kept(1)]

\* write() of one register; the clock itself cannot be set, and register 13
\* is written to Alarm 1.
DsWriteReg(o, reg, b) ==
    CASE reg = 2         -> [o EXCEPT !.twelve_hour_flag = IF Has(b, 64) THEN 1 ELSE 0]
      [] reg = 7         -> [o EXCEPT !.Alarm1_Sec = b]
      [] reg = 8         -> [o EXCEPT !.Alarm1_Min = b]
      [] reg = 9         -> [o EXCEPT !.Alarm1_Hours = b]
      [] reg \in {10, 13} -> [o EXCEPT !.Alarm1_DayDate = b]
      [] reg = 11        -> [o EXCEPT !.Alarm2_Min = b]
      [] reg = 12        -> [o EXCEPT !.Alarm2_Hours = b]
      [] reg = 14        -> [o EXCEPT !.control = b % 32]
      [] reg = 15        -> DsWriteStatus(o, b)
      [] reg = 16        -> [o EXCEPT !.aging = b]
      [] OTHER           -> o

\* The loop of write() skips the first byte of every chunk, the register
\* number or, in a later chunk, a byte of data.
DsWritten(o, regs, bytes) ==
    LET upTo[k \in 0 .. Len(bytes)] ==
            IF k <= 1 THEN o ELSE DsWriteReg(upTo[k - 1], regs[k], bytes[k])
    IN  upTo[Len(bytes)]

DsWriteBytes(from, bytes) ==
    LET reg(k) == (from + k - 1) % (LastReg + 1)
        n      == Len(bytes)
    IN  /\ ds' = DsWritten(ds, [k \in 1 .. n |-> reg(k)], bytes)
        /\ index' = IF n = 1 THEN 1 ELSE (reg(n) + 1) % (LastReg + 1)

DsWrite ==
    /\ phase \in {"started", "writing"} /\ Chunk
    /\ phase = "started" => started
    /\ \/ /\ started
          /\ \E bytes \in I2CWrites :
                \/ Len(bytes) = 1 /\ index' = bytes[1] /\ UNCHANGED ds
                \/ Len(bytes) > 1 /\ DsWriteBytes(bytes[1], bytes)
       \/ ~started /\ \E bytes \in I2CMore : DsWriteBytes(index, bytes)
    /\ phase' = "writing"
    /\ started' = FALSE
    /\ UNCHANGED <<rtcVars, readData>>

\* read(): the time registers show the system time of the last START, the
\* day of the month plus one standing for the day of the week.
DsReadReg(o, reg) ==
    LET t == Instants[o.system_time] IN
    CASE reg = 0  -> Bcd7(t.sec)
      [] reg = 1  -> Bcd7(t.min)
      [] reg = 2  -> DsHours(o, t)
      [] reg = 3  -> t.mday + 1
      [] reg = 4  -> Bcd6(t.mday)
      [] reg = 5  -> ((t.year \div 100) * 128 + Bcd5(t.mon + 1)) % 256
      [] reg = 6  -> ((t.year % 100) \div 10) * 16 + (t.year % 10)
      [] reg = 7  -> o.Alarm1_Sec
      [] reg = 8  -> o.Alarm1_Min
      [] reg = 9  -> o.Alarm1_Hours
      [] reg \in {10, 13} -> o.Alarm1_DayDate
      [] reg = 11 -> o.Alarm2_Min
      [] reg = 12 -> o.Alarm2_Hours
      [] reg = 14 -> o.control
      [] reg = 15 -> o.status
      [] reg = 16 -> o.aging
      [] reg = 17 -> 25
      [] reg = 18 -> 64

DsRead ==
    /\ phase \in {"started", "reading"} /\ Chunk
    /\ \E n \in I2CReads :
          LET reg(k) == (index + k - 1) % (LastReg + 1) IN
          /\ readData' = [k \in 1 .. n |-> DsReadReg(ds, reg(k))]
          /\ index' = (reg(n) + 1) % (LastReg + 1)
    /\ phase' = "reading"
    /\ UNCHANGED <<rtcVars, started, ds>>

DsInit == /\ ds = DsPowerOn
          /\ phase = "idle" /\ started = FALSE /\ chunks = 0
          /\ index = 0 /\ readData = <<>>

DsNext == \/ DsStart
          \/ DsWrite
          \/ DsRead
          \/ I2CStop /\ UNCHANGED ds
          \/ Tick /\ UNCHANGED <<i2cVars, ds>>
=============================================================================
