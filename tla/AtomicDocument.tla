--------------------------- MODULE AtomicDocument ---------------------------
(***************************************************************************)
(* What a document store promises across failures and crashes: the stored  *)
(* document is always one that some call was given, whole, or none; while  *)
(* a call that replaces it is under way it is the old or the new one, and  *)
(* between calls it does not change.                                       *)
(***************************************************************************)
CONSTANTS Stored    \* what the store may hold: documents, or none

VARIABLES document, old, new, busy

vars == <<document, old, new, busy>>

Init ==
    /\ document \in Stored /\ old = document /\ new = document
    /\ busy = FALSE

\* A call begins; one that only reads has new = old.
Begin ==
    /\ ~busy
    /\ busy' = TRUE /\ old' = document /\ new' \in Stored
    /\ UNCHANGED document

\* The old document becomes the new one, or the new one the old one again.
Install == busy /\ document' = new /\ UNCHANGED <<old, new, busy>>
Undo    == busy /\ document' = old /\ UNCHANGED <<old, new, busy>>

\* The call returns, or the power fails.
End ==
    /\ busy
    /\ busy' = FALSE /\ document' \in {old, new}
    /\ UNCHANGED <<old, new>>

Next == Begin \/ Install \/ Undo \/ End

Spec == Init /\ [][Next]_vars
=============================================================================
