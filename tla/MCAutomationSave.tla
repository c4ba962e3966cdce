-------------------------- MODULE MCAutomationSave --------------------------
(* Instance: two tabs edit, remove and add two blocks. *)
EXTENDS AutomationSave, TLC

MCInitialFile ==
    [b \in Blocks |->
        [revision |-> 1, source |-> "a", enabled |-> TRUE, shape |-> "x"]]

\* Another logic under revisions that a removed block may have had.
MCNewEntries ==
    {[revision |-> r, source |-> "a", enabled |-> FALSE, shape |-> "x"] : r \in 1..2}

=============================================================================
