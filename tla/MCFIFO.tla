------------------------------- MODULE MCFIFO -------------------------------
(* FIFO on a small array: three slots wrap around within a few pushes.     *)
EXTENDS FIFO

CONSTANT MaxOverflow   \* bound on the overflow counter

MCNext ==
  /\ RingNext
  /\ overflowCount' <= MaxOverflow

MCSpec == RingInit /\ [][MCNext]_ringVars
=============================================================================
