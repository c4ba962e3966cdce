------------------------------ MODULE SpscQueue ------------------------------
(***************************************************************************)
(* SpscQueue of the OpenKNX router: a ring of Capacity slots between one   *)
(* producer and one consumer, with two free-running counters of Word       *)
(* values.  Each side publishes its counter only after it has copied the   *)
(* item, so push and pop are two steps each and the other side may run in  *)
(* between.  A counter read early only makes push or pop give up sooner,   *)
(* so the load and the copy are one step.                                  *)
(*                                                                         *)
(* Fifo below is the promise this queue implements.                        *)
(***************************************************************************)
EXTENDS Integers, Sequences

CONSTANTS
    Items, NoItem,
    Capacity,   \* kInputQueueCapacity
    Word        \* values of a uint32_t counter, scaled

\* The code only asks for Capacity > 0.  Its capacities are powers of two, which
\* is what keeps write % Capacity in step when a counter wraps.
ASSUME QueueAssumption ==
    /\ Capacity \in Nat \ {0} /\ Word \in Nat
    /\ Word > Capacity /\ Word % Capacity = 0
    /\ NoItem \notin Items

VARIABLES
    slots, write, read,
    pushing,    \* the item the producer has copied and not yet published
    popping     \* the item the consumer has copied and not yet released

queueVars == <<slots, write, read, pushing, popping>>

QueueInit ==
    /\ slots = [i \in 0..(Capacity - 1) |-> NoItem]
    /\ write = 0 /\ read = 0
    /\ pushing = NoItem /\ popping = NoItem

Waiting == (write - read) % Word

MutantIsFull == Waiting > Capacity
IsFull == Waiting >= Capacity
IsEmpty == read = write

PushCopies(item) ==
    /\ pushing = NoItem
    /\ ~IsFull
    /\ slots' = [slots EXCEPT ![write % Capacity] = item]
    /\ pushing' = item
    /\ UNCHANGED <<write, read, popping>>

PushPublishes ==
    /\ pushing # NoItem
    /\ write' = (write + 1) % Word
    /\ pushing' = NoItem
    /\ UNCHANGED <<slots, read, popping>>

PopCopies ==
    /\ popping = NoItem
    /\ ~IsEmpty
    /\ popping' = slots[read % Capacity]
    /\ UNCHANGED <<slots, write, read, pushing>>

PopReleases ==
    /\ popping # NoItem
    /\ read' = (read + 1) % Word
    /\ popping' = NoItem
    /\ UNCHANGED <<slots, write, pushing>>

\* Refinement mapping: the published items the consumer has not copied yet,
\* oldest first.
Copied    == IF popping = NoItem THEN 0 ELSE 1
Published == [i \in 1..(Waiting - Copied) |-> slots[(read + Copied + i - 1) % Capacity]]

Fifo == INSTANCE BoundedFifo WITH queue <- Published, taken <- popping
=============================================================================
