---------------------------- MODULE MCSchedules ----------------------------
(***************************************************************************)
(* Two blocks.  Block 1 has a dense rule, whose occurrences coalesce, and  *)
(* a schedule that is switched off; block 2 a sparse rule that runs out.   *)
(***************************************************************************)
EXTENDS Schedules

MCBlockOf      == <<1, 2, 1>>
MCSwitched     == <<TRUE, TRUE, FALSE>>
MCOccurrences  == <<{1, 2, 4}, {3}, {2}>>
=============================================================================
