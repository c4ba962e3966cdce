--------------------------- MODULE MCLogikRuntime ---------------------------
(***************************************************************************)
(* Small instances of LogikRuntime for TLC.                                *)
(***************************************************************************)
EXTENDS LogikRuntime

CONSTANTS r1, r2

\* Block 1 feeds blocks 2 and 3 through signal 1; block 2 feeds block 3
\* through signal 2 (a diamond: block 3 may run twice in a cascade).
DiamondProducer  == <<1, 2>>
DiamondConsumers == <<<<2, 3>>, <<3>>>>

\* Block 1 feeds block 2 through one signal with two consumer endpoints.
PairProducer  == <<1>>
PairConsumers == <<<<2, 2>>>>

\* r2 is the larger program: two blocks with it exceed the total of 3.
SourceSizes == [r \in Revisions |-> IF r = r1 THEN 1 ELSE 2]
=============================================================================
