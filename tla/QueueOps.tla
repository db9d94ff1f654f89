------------------------------ MODULE QueueOps ------------------------------
(* A discard-oldest queue of the service, as a sequence with a capacity.   *)
EXTENDS Naturals, Sequences

IsFull(q, capacity) == Len(q) = capacity

\* The contents after a push under the discard-oldest policy.
AppendDiscardingOldest(q, x, capacity) ==
  Append(IF IsFull(q, capacity) THEN Tail(q) ELSE q, x)

\* What that push displaces.
Displaced(q, capacity) == IF IsFull(q, capacity) THEN {Head(q)} ELSE {}
=============================================================================
