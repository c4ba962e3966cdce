----------------------------- MODULE BoundedFifo -----------------------------
(***************************************************************************)
(* What a bounded queue between two tasks promises: the consumer is handed *)
(* every item that went in, once, unchanged and in that order, one at a    *)
(* time, and never more than Capacity of them wait.                        *)
(***************************************************************************)
EXTENDS Naturals, Sequences

CONSTANTS Items, NoItem, Capacity

VARIABLES queue, taken

Init == queue = <<>> /\ taken = NoItem

Push(item) ==
    /\ Len(queue) < Capacity
    /\ queue' = Append(queue, item)
    /\ UNCHANGED taken

Take ==
    /\ taken = NoItem /\ queue # <<>>
    /\ taken' = Head(queue) /\ queue' = Tail(queue)

Finish ==
    /\ taken # NoItem
    /\ taken' = NoItem
    /\ UNCHANGED queue

Next == Take \/ Finish \/ \E item \in Items : Push(item)

Spec == Init /\ [][Next]_<<queue, taken>>
=============================================================================
