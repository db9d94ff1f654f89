---------------------------- MODULE MCSequencer ----------------------------
(***************************************************************************)
(* Instance of Sequencer.tla for TLC: register contents that between them  *)
(* take every branch of the program.  Mode(n, what, srd) is the register   *)
(* 0x62 + 2 n, Conv(n, type, v, code) is 0x70 + 2 n.                       *)
(***************************************************************************)
EXTENDS Sequencer, TLC

Mode(n, what, srd)       == (98 + 2 * n) :> (32 * what + srd - 1)
Conv(n, itype, v, code)  == (112 + 2 * n) :> (64 * itype + 16 * v + code)

\* Currents: PSTAT of each type, both CHRONOs, pulses of each type.
Currents(itype) ==
    Mode(0, 1, 1) @@ Conv(0, itype, 0, 7) @@ Mode(1, 2, 2) @@ Conv(1, itype, 0, 6)
      @@ Mode(2, 3, 1) @@ Conv(2, itype, 0, 7) @@ Mode(3, 4, 2) @@ Conv(3, itype, 0, 7)
      @@ Mode(4, 1, 3) @@ Conv(4, 2, 0, 7) @@ Mode(5, 4, 1) @@ Conv(5, 0, 0, 7)
      @@ Mode(6, 1, 1)
      @@ 55 :> 104 @@ 56 :> 1 @@ 57 :> itype % 2 @@ 59 :> 1
      @@ 61 :> 41 @@ 62 :> 1 @@ 63 :> 1 - (itype % 2) @@ 91 :> 3

\* Voltages and temperature, the offset each time or once.
Voltages(v, pins) ==
    Mode(0, 6, 1) @@ Conv(0, 0, v, 7) @@ Mode(1, 7, 1) @@ Conv(1, 0, v, 7)
      @@ Mode(2, 0, 3) @@ Mode(3, 5, 1) @@ Mode(4, 6, 2) @@ Conv(4, 0, 1 - v, 7)
      @@ Mode(5, 7, 2) @@ Conv(5, 0, v, 6) @@ Mode(6, 7, 1)
      @@ 132 :> pins @@ 133 :> 89 @@ 134 :> 37 @@ 99 :> 9 @@ 23 :> 200

Run(auto, restart, count) == 96 :> (2 * auto + 128 * restart) @@ 97 :> count

MCRegisters ==
    { Run(auto, restart, count) @@ rest :
         auto \in {0, 1}, restart \in {0, 1}, count \in {0, 2, 3},
         rest \in { Currents(0), Currents(1), Currents(2), Currents(3),
                    Voltages(0, 0), Voltages(1, 2), Voltages(0, 3) } }
=============================================================================
