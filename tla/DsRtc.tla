------------------------------- MODULE DsRtc -------------------------------
(***************************************************************************)
(* The real-time clock that three programs of the CoreModel demo put on a  *)
(* bus of the virtual machine (python-examples/coremodel_rtc.py): two      *)
(* classes, bcd_time (a group of BCD registers) and ds_rtc (the clock, two *)
(* alarms, control and status), as operators on records.                   *)
(*                                                                         *)
(* A register holds a byte, a number in 0 .. 255.  The text each method    *)
(* returns for the console is left out.                                    *)
(***************************************************************************)
EXTENDS Integers

Byte == 0 .. 255

\* Bit of weight w of byte b, and b with that bit set.
Has(b, w) == (b \div w) % 2 = 1
Set(b, w) == IF Has(b, w) THEN b ELSE b + w

\* format_7bit_bcd, format_6bit_bcd, format_5bit_bcd.
Bcd7(n) == ((n \div 10) * 16 + (n % 10)) % 128
Bcd6(n) == Bcd7(n) % 64
Bcd5(n) == Bcd7(n) % 32

-----------------------------------------------------------------------------
(* class bcd_time.  A time is a record of the seven registers.             *)

TimeType == [seconds : Byte, minutes : Byte, hours : Byte, day : Byte,
             date : Byte, month : Byte, year : Byte]

PowerOnTime == [seconds |-> 0, minutes |-> 0, hours |-> 0, day |-> 1,
                date |-> 1, month |-> 1, year |-> 0]

\* get_clock() at local time `now`.  "hours & 40" tests the bits of weight
\* 32 and 8, not the 12-hour bit of weight 64.
GetClock(t, now) ==
    [seconds |-> Bcd7(now.sec),
     minutes |-> Bcd7(now.min),
     hours   |-> IF ~(Has(t.hours, 32) \/ Has(t.hours, 8)) THEN Bcd6(now.hour)
                 ELSE IF now.hour > 11 THEN Bcd5(now.hour - 12) + 96
                 ELSE Bcd5(now.hour) + 64,
     day     |-> (now.wday + 2) % 7,
     date    |-> Bcd6(now.mday),
     month   |-> (now.year \div 100 - 19) * 128 + Bcd5(now.mon),
     year    |-> ((now.year % 100) \div 10) * 16 + (now.year % 10)]

\* write_hours(): 0 o'clock in 12-hour mode is stored as 1 of the other half.
WriteHours(t, b) ==
    [t EXCEPT !.hours = IF Has(b, 64) /\ b % 32 = 0
                        THEN (IF Has(b, 32) THEN b - 32 ELSE b + 32) + 1
                        ELSE b]

\* hours_24(): the conditional takes in the whole sum, so AM reads as 0.
Hours24(t) ==
    IF Has(t.hours, 64)
    THEN (IF Has(t.hours, 32) THEN (t.hours % 32) + 12 ELSE 0) % 24
    ELSE t.hours % 64

\* write_day(), write_date(), write_month(): the masks 0xc7, 0xbf, 0x9f.
WriteDay(t, b)   == [t EXCEPT !.day = (b \div 64) * 64 + (b % 8)]
WriteDate(t, b)  == [t EXCEPT !.date = (b \div 128) * 128 + (b % 64)]
WriteMonth(t, b) == [t EXCEPT !.month = (b \div 128) * 128 + (b % 32)]

\* Mutant of WriteDayDate: one left as it was when the other is set.
WriteDayDateKeeping(t, b) == IF Has(b, 64) THEN WriteDay(t, b) ELSE WriteDate(t, b)

\* One register for both: the bit of weight 64 selects the day of the week.
WriteDayDate(t, b) == IF Has(b, 64) THEN WriteDay(WriteDate(t, 0), b)
                                    ELSE WriteDate(WriteDay(t, 0), b)
ReadDayDate(t) == IF Has(t.day, 64) THEN t.day ELSE t.date

-----------------------------------------------------------------------------
(* class ds_rtc.                                                           *)

RtcType == [time : TimeType, Alarm1 : TimeType, Alarm2 : TimeType,
            control : Byte, status : Byte, aging : Byte]

PowerOnRtc == [time |-> PowerOnTime, Alarm1 |-> PowerOnTime,
               Alarm2 |-> PowerOnTime, control |-> 28, status |-> 136,
               aging |-> 0]

SameLow7(a, b) == a % 128 = b % 128

\* The branches of update_alarms() set the same flag, so that the chain of
\* elif is a disjunction.  Alarm 1 also compares seconds.
Alarm1Due(a, t) ==
    \/ Has(a.seconds, 128) /\ ~SameLow7(a.seconds, t.seconds)
    \/ /\ SameLow7(a.seconds, t.seconds)
       /\ \/ Has(a.minutes, 128)
          \/ /\ SameLow7(a.minutes, t.minutes)
             /\ \/ Has(a.hours, 128)
                \/ /\ Hours24(a) = Hours24(t)
                   /\ \/ Has(a.day, 128) \/ Has(a.date, 128)
                      \/ Has(a.day, 64) /\ a.day % 8 = t.day % 8
                      \/ a.date % 64 = t.date % 64

Alarm2Due(a, t) ==
    \/ Has(a.minutes, 128) /\ ~SameLow7(a.minutes, t.minutes)
    \/ /\ SameLow7(a.minutes, t.minutes)
       /\ \/ Has(a.hours, 128)
          \/ /\ Hours24(a) = Hours24(t)
             /\ \/ Has(a.day, 128) \/ Has(a.date, 128)
                \/ Has(a.day, 64) /\ a.day % 8 = t.day % 8
                \/ a.date % 64 = t.date % 64

\* The clock is read and the flags A1F (weight 1) and A2F (weight 2) raised.
UpdateAlarms(r, now) ==
    LET t    == GetClock(r.time, now)
        one  == IF Alarm1Due(r.Alarm1, t) THEN Set(r.status, 1) ELSE r.status
        both == IF Alarm2Due(r.Alarm2, t) THEN Set(one, 2) ELSE one
    IN  [r EXCEPT !.time = t, !.status = both]

\* Mutant of WriteStatus: alarm flags that can be written.
WriteStatusPlainly(r, b) == [r EXCEPT !.status = b]

\* OSF, A2F and A1F stay where the program writes 1; BSY is what it writes.
WriteStatus(r, b) ==
    LET kept(w) == IF Has(r.status, w) /\ Has(b, w) THEN w ELSE 0
    IN  [r EXCEPT !.status = kept(128) + kept(2) + kept(1)
                             + (IF Has(b, 4) THEN 4 ELSE 0)]
=============================================================================
