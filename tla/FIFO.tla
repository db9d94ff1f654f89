-------------------------------- MODULE FIFO --------------------------------
(***************************************************************************)
(* The circular buffer FIFO<T> of src/utils/fifo.ts: a fixed array of      *)
(* Capacity slots with a head (next read), a tail (next write) and a       *)
(* count.  One action per method that changes state; the pure readers are  *)
(* operators.  No method awaits, so each one is a single step.             *)
(***************************************************************************)
EXTENDS Naturals, Sequences

CONSTANTS
  Item,      \* the values a caller may push (never undefined)
  Capacity,  \* the constructor's capacity
  Undefined  \* the JavaScript undefined: an empty slot, and pop() on empty

\* The constructor throws unless capacity > 0; callers push objects.
ASSUME FIFOAssumption ==
  /\ Capacity \in Nat \ {0}
  /\ Undefined \notin Item

VARIABLES
  buffer,         \* slot index -> item or Undefined
  head,           \* next read position
  tail,           \* next write position
  count,          \* items held
  overflowCount,  \* pushes that found the buffer full
  overflowPolicy, \* the constructor's overflowPolicy, never assigned again
  returned        \* what the last method call returned

ringVars == <<buffer, head, tail, count, overflowCount, overflowPolicy, returned>>

Slot == 0 .. Capacity - 1

\* (i + 1) % this.capacity, the step of both pointers.
Advance(i) == (i + 1) % Capacity

isEmpty == count = 0
isFull == count = Capacity

peekAt(i) == buffer[(head + i) % Capacity]

\* The items in FIFO order (index 1 is the oldest).
toArray == [i \in 1 .. count |-> peekAt(i - 1)]

RingInit ==
  /\ buffer = [i \in Slot |-> Undefined]
  /\ head = 0
  /\ tail = 0
  /\ count = 0
  /\ overflowCount = 0
  /\ overflowPolicy \in {"discard-oldest", "reject-new"}
  /\ returned = [op |-> "none"]

\* Mutant of Push: the write position is not wrapped.
PushNoWrap(x) ==
  /\ ~ isFull
  /\ buffer' = [buffer EXCEPT ![tail] = x]
  /\ tail' = tail + 1
  /\ count' = count + 1
  /\ returned' = [op |-> "push", ok |-> TRUE]
  /\ UNCHANGED <<head, overflowCount>>

\* push() on a buffer with room.
Push(x) ==
  /\ ~ isFull
  /\ buffer' = [buffer EXCEPT ![tail] = x]
  /\ tail' = Advance(tail)
  /\ count' = count + 1
  /\ returned' = [op |-> "push", ok |-> TRUE]
  /\ UNCHANGED <<head, overflowCount>>

\* push() on a full buffer under reject-new: only the counter moves.
PushReject(x) ==
  /\ isFull
  /\ overflowPolicy = "reject-new"
  /\ overflowCount' = overflowCount + 1
  /\ returned' = [op |-> "push", ok |-> FALSE]
  /\ UNCHANGED <<buffer, head, tail, count>>

\* Mutant of PushDiscard: the head stays on the overwritten slot.
PushDiscardKeepsHead(x) ==
  /\ isFull
  /\ overflowPolicy = "discard-oldest"
  /\ overflowCount' = overflowCount + 1
  /\ buffer' = [buffer EXCEPT ![tail] = x]
  /\ tail' = Advance(tail)
  /\ returned' = [op |-> "push", ok |-> TRUE]
  /\ UNCHANGED <<head, count>>

\* push() on a full buffer under discard-oldest: the head is advanced past
\* the oldest item and the new one written at the tail.
PushDiscard(x) ==
  /\ isFull
  /\ overflowPolicy = "discard-oldest"
  /\ overflowCount' = overflowCount + 1
  /\ head' = Advance(head)
  /\ buffer' = [buffer EXCEPT ![tail] = x]
  /\ tail' = Advance(tail)
  /\ count' = count - 1 + 1
  /\ returned' = [op |-> "push", ok |-> TRUE]

\* Mutant of Pop: the slot is left holding the popped item.
PopKeepsSlot ==
  /\ ~ isEmpty
  /\ returned' = [op |-> "pop", item |-> buffer[head]]
  /\ head' = Advance(head)
  /\ count' = count - 1
  /\ UNCHANGED <<buffer, tail, overflowCount>>

\* pop() on a buffer that holds something: the slot is cleared.
Pop ==
  /\ ~ isEmpty
  /\ returned' = [op |-> "pop", item |-> buffer[head]]
  /\ buffer' = [buffer EXCEPT ![head] = Undefined]
  /\ head' = Advance(head)
  /\ count' = count - 1
  /\ UNCHANGED <<tail, overflowCount>>

PopEmpty ==
  /\ isEmpty
  /\ returned' = [op |-> "pop", item |-> Undefined]
  /\ UNCHANGED <<buffer, head, tail, count, overflowCount>>

\* drain() pops until the buffer is empty, so the head ends at the tail.
Drain ==
  /\ returned' = [op |-> "drain", items |-> toArray]
  /\ buffer' = [i \in Slot |-> Undefined]
  /\ head' = (head + count) % Capacity
  /\ count' = 0
  /\ UNCHANGED <<tail, overflowCount>>

\* clear() resets the pointers and the slots but not the overflow counter.
Clear ==
  /\ buffer' = [i \in Slot |-> Undefined]
  /\ head' = 0
  /\ tail' = 0
  /\ count' = 0
  /\ returned' = [op |-> "clear"]
  /\ UNCHANGED overflowCount

ResetOverflowCount ==
  /\ overflowCount' = 0
  /\ returned' = [op |-> "reset"]
  /\ UNCHANGED <<buffer, head, tail, count>>

\* One call of a method.
Call ==
  \/ \E x \in Item : Push(x) \/ PushReject(x) \/ PushDiscard(x)
  \/ Pop
  \/ PopEmpty
  \/ Drain
  \/ Clear
  \/ ResetOverflowCount

RingNext == Call /\ UNCHANGED overflowPolicy

RingSpec == RingInit /\ [][RingNext]_ringVars

-----------------------------------------------------------------------------
(* Properties.                                                             *)

\* Every pointer stays inside the array, the count inside the capacity, and
\* a slot holds an item or undefined (the private fields of FIFO<T>).
RingTypeOK ==
  /\ buffer \in [Slot -> Item \cup {Undefined}]
  /\ head \in Slot
  /\ tail \in Slot
  /\ count \in 0 .. Capacity
  /\ overflowCount \in Nat
  /\ overflowPolicy \in {"discard-oldest", "reject-new"}

\* The slots from head on, count of them, are the live ones.
Live(i) == \/ head <= i /\ i < head + count
           \/ i + Capacity < head + count

\* The three redundant fields agree through every wrap-around, discard, clear
\* and drain: the next write position is count slots after the next read
\* position, exactly the live slots hold an item, and every slot that is not
\* live has been cleared (pop() clears it "to help GC").
RingConsistent ==
  /\ tail = (IF head + count < Capacity
             THEN head + count ELSE head + count - Capacity)
  /\ \A i \in Slot : (buffer[i] /= Undefined) <=> Live(i)

\* The ring implements the bounded queue: every method has the abstract
\* method's effect on the items, on the overflow counter and on its result.
Queue == INSTANCE BoundedQueue WITH
  queue    <- toArray,
  overflow <- overflowCount,
  policy   <- overflowPolicy,
  Nothing  <- Undefined

ImplementsQueue == Queue!Spec
=============================================================================
