----------------------------- MODULE MCDevices -----------------------------
(***************************************************************************)
(* Instance of Devices.tla for TLC.  The local times are chosen so that an *)
(* alarm can be due and not due by day of the week, by day of the month,   *)
(* by hour (both halves of the day, and an hour that flips the clock to    *)
(* 12-hour mode) and by second.                                            *)
(***************************************************************************)
EXTENDS Devices

At(mon, mday, wday, hour, sec) ==
    [year |-> 2024, mon |-> mon, mday |-> mday, wday |-> wday,
     hour |-> hour, min |-> 0, sec |-> sec]

\* Sunday 1 September and Monday 2nd at 0:00:00, Sunday 8th 20:00:05.
MCInstants == << At(9, 1, 6, 0, 0), At(9, 2, 0, 0, 0), At(9, 8, 6, 20, 5) >>

\* Alarm 1 for a day of the week, or a day of the month and an hour of
\* 12-hour mode; alarm 2 for a day and then control, the wrap-around; the
\* status flags; the memory at both ends; reads.
MCSpiTransfers ==
    { <<138, 66>>, <<137, 64, 2>>, <<141, 65, 1>>, <<146, 0, 1>>, <<143, 130>>,
      <<152, 1>>, <<153, 7, 8, 9>>, <<25, 0, 0>>, <<25>>,
      <<10, 0, 0, 0, 0>>, <<32, 0>> }

\* A message begins with the register, or holds register and data.
MCI2CWrites == { <<13>>, <<13, 1>>, <<15>>, <<9, 66>>, <<18, 64>> }

\* Days for either alarm, an hour of 12-hour mode, acknowledgements.
MCI2CMore == { <<2>>, <<66, 129>> }

Frame(id, data) == [id |-> id, ide |-> FALSE, data |-> data]

MCCanFrames ==
    { Frame(2047, <<>>), [id |-> 2047, ide |-> TRUE, data |-> <<>>],
      Frame(768 + 19, <<1, 1, 1, 1, 1, 1>>), Frame(512 + 19, <<>>),
      Frame(512 + 5, <<>>), Frame(1024 + 19, <<>>),
      Frame(1280 + 19, <<0, 0, 0, 5, 5, 2, 0>>),
      Frame(1280 + 5, <<1, 24, 60, 19, 19, 2, 255>>),
      Frame(1280 + 5, <<1, 3>>) }

Ask(kind, length)  == [dir |-> "in", kind |-> kind, length |-> length, value |-> 0]
Tell(kind, length) == [dir |-> "out", kind |-> kind, length |-> length, value |-> 1]

MCDescSize == [kind \in {"device", "config", "string", "report"} |->
                  CASE kind = "device" -> 2 [] kind = "config" -> 3
                    [] kind = "string" -> 2 [] kind = "report" -> 1]

MCOthers == { <<1, "IN">> }

MCRequests == { Ask("device", 3), Ask("config", 3),
                Ask("status", 2),
                Tell("address", 0), Tell("report", 2) }
=============================================================================
