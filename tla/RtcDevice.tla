----------------------------- MODULE RtcDevice -----------------------------
(***************************************************************************)
(* What the three programs that put the clock of DsRtc.tla on a bus have   *)
(* in common: the clock object, the local time it is read from, whether    *)
(* the program still runs, and the register map of the DS3231 and DS3234.  *)
(*                                                                         *)
(* Instants is the sequence of local times that may pass while the program *)
(* runs; any number of them may pass between two calls.                    *)
(***************************************************************************)
EXTENDS DsRtc, Sequences

CONSTANT Instants

ASSUME InstantsAssumption ==
    /\ Instants \in Seq([year : Int, mon : Int, mday : 1 .. 31, wday : Int,
                         hour : Int, min : Int, sec : Int])
    /\ Instants # <<>>

VARIABLES rtc, now, up

rtcVars == <<rtc, now, up>>

RtcInit == rtc = PowerOnRtc /\ now = 1 /\ up = TRUE

\* Local time moves on.
Tick == /\ up
        /\ now' \in now + 1 .. Len(Instants)
        /\ UNCHANGED <<rtc, up>>

\* The first callback of a transaction polls the alarms.
Poll == rtc' = UpdateAlarms(rtc, Instants[now])

\* An exception leaves mainloop() and ends the program.
Dies == up' = FALSE /\ UNCHANGED <<rtc, now>>

-----------------------------------------------------------------------------
(* The register map.  Registers 0 to 13 hold a field of the time or of an  *)
(* alarm, 14 is control, 15 status, 16 aging, 17 and 18 the temperature.   *)

LastReg == 18
Control == 14

Place(reg) ==
    CASE reg < 7  -> <<"time", <<"seconds", "minutes", "hours", "day", "date",
                                 "month", "year">>[reg + 1]>>
      [] reg \in 7 .. 10 -> <<"Alarm1", <<"seconds", "minutes", "hours",
                                          "day_date">>[reg - 6]>>
      [] reg > 10 -> <<"Alarm2", <<"minutes", "hours", "day_date">>[reg - 10]>>

WriteTime(t, field, b) ==
    CASE field = "hours"    -> WriteHours(t, b)
      [] field = "day"      -> WriteDay(t, b)
      [] field = "date"     -> WriteDate(t, b)
      [] field = "month"    -> WriteMonth(t, b)
      [] field = "day_date" -> WriteDayDate(t, b)
      [] OTHER              -> [t EXCEPT ![field] = b]

ReadTime(t, field) == IF field = "day_date" THEN ReadDayDate(t) ELSE t[field]

\* access_reg() of spi_func, writing and reading.  Control is not among the
\* writable ones: write_control() calls control_string(), which does not
\* exist, so that the program ends (Dies).
WriteReg(r, reg, b) ==
    CASE reg < Control -> [r EXCEPT ![Place(reg)[1]] =
                                        WriteTime(@, Place(reg)[2], b)]
      [] reg = 15      -> WriteStatus(r, b)
      [] reg = 16      -> [r EXCEPT !.aging = b]
      [] OTHER         -> r

\* The loops of xfr() and write(): bytes[k] goes to register regs[k].
Written(r, regs, bytes) ==
    LET upTo[k \in 0 .. Len(bytes)] ==
            IF k = 0 THEN r ELSE WriteReg(upTo[k - 1], regs[k], bytes[k])
    IN  upTo[Len(bytes)]

ReadReg(r, reg) ==
    CASE reg < Control -> ReadTime(r[Place(reg)[1]], Place(reg)[2])
      [] reg = Control -> r.control
      [] reg = 15      -> r.status
      [] reg = 16      -> r.aging
      [] reg = 17      -> 25
      [] reg = LastReg -> 64
=============================================================================
