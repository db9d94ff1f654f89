---------------------------- MODULE BoundedQueue ----------------------------
(***************************************************************************)
(* What a FIFO<T> (src/utils/fifo.ts) promises its callers, with the ring  *)
(* of slots abstracted away: a queue of at most Capacity items that either *)
(* rejects a push or discards its oldest item when it is full, counts each *)
(* such event, and hands items out in the order they came in.  FIFO.tla    *)
(* implements it; Pipeline.tla uses the operators of QueueOps.tla for the  *)
(* two queues of the service.                                              *)
(***************************************************************************)
EXTENDS QueueOps

CONSTANTS
  Item,      \* the values a caller may push
  Capacity,  \* the fixed size of the queue
  Nothing    \* the undefined that pop() returns on an empty queue

VARIABLES
  queue,     \* the items held, oldest first
  overflow,  \* pushes that found the queue full since the last reset
  policy,    \* what a push does when the queue is full
  returned   \* what the last operation returned to its caller

vars == <<queue, overflow, policy, returned>>

Init ==
  /\ queue = << >>
  /\ overflow = 0
  /\ policy \in {"discard-oldest", "reject-new"}
  /\ returned = [op |-> "none"]

Push(x) ==
  /\ ~ IsFull(queue, Capacity)
  /\ queue' = Append(queue, x)
  /\ returned' = [op |-> "push", ok |-> TRUE]
  /\ UNCHANGED overflow

PushReject(x) ==
  /\ IsFull(queue, Capacity)
  /\ policy = "reject-new"
  /\ overflow' = overflow + 1
  /\ returned' = [op |-> "push", ok |-> FALSE]
  /\ UNCHANGED queue

PushDiscard(x) ==
  /\ IsFull(queue, Capacity)
  /\ policy = "discard-oldest"
  /\ queue' = AppendDiscardingOldest(queue, x, Capacity)
  /\ overflow' = overflow + 1
  /\ returned' = [op |-> "push", ok |-> TRUE]

Pop ==
  /\ queue /= << >>
  /\ queue' = Tail(queue)
  /\ returned' = [op |-> "pop", item |-> Head(queue)]
  /\ UNCHANGED overflow

PopEmpty ==
  /\ queue = << >>
  /\ returned' = [op |-> "pop", item |-> Nothing]
  /\ UNCHANGED <<queue, overflow>>

Drain ==
  /\ queue' = << >>
  /\ returned' = [op |-> "drain", items |-> queue]
  /\ UNCHANGED overflow

Clear ==
  /\ queue' = << >>
  /\ returned' = [op |-> "clear"]
  /\ UNCHANGED overflow

ResetOverflowCount ==
  /\ overflow' = 0
  /\ returned' = [op |-> "reset"]
  /\ UNCHANGED queue

Call ==
  \/ \E x \in Item : Push(x) \/ PushReject(x) \/ PushDiscard(x)
  \/ Pop
  \/ PopEmpty
  \/ Drain
  \/ Clear
  \/ ResetOverflowCount

Next == Call /\ UNCHANGED policy

Spec == Init /\ [][Next]_vars
=============================================================================
