--------------------------- MODULE AutomationStore ---------------------------
(***************************************************************************)
(* The firmware's store for the automation document: one file that is      *)
(* replaced by writing, flushing and renaming a temporary one, and that is *)
(* put back when the runtime refuses to activate the new document.         *)
(*                                                                         *)
(* Every call of the file system is a step.  Each may fail, and the power  *)
(* may fail before, between or after any of them.  The file system is the  *)
(* one the seam AutomationFileSystem stands for: rename replaces its       *)
(* target as a whole, and what was written and not flushed may be lost in  *)
(* part.                                                                   *)
(*                                                                         *)
(* An operator named Mutant... is a plausible mistake in the definition    *)
(* that follows it; no specification uses it.                              *)
(***************************************************************************)
CONSTANTS
    Documents,      \* what a caller may save
    Unfit,          \* those that are empty or larger than kAutomationMaxBytes
    Malformed,      \* those the validator refuses
    Missing, Torn   \* no file; part of a document

ASSUME StoreAssumption ==
    /\ Unfit \subseteq Documents /\ Malformed \subseteq Documents
    /\ Missing \notin Documents /\ Torn \notin Documents /\ Missing # Torn

VARIABLES
    main, temp,     \* kAutomationPath and kAutomationTempPath
    unflushed,      \* the files a power failure may tear
    mounted, enabled, status,   \* _mounted, _runtime_enabled, _last_status
    step, op, doc,    \* the call under way and its document
    writing,        \* what atomic_write was given
    previous,       \* _previous and _previous_exists
    rollback,       \* atomic_write puts _previous back
    running,        \* the document the runtime has activated
    applied,        \* history: the enabled document was loaded or activated
    before          \* history: main when the call began

fileVars  == <<main, temp, unflushed>>
stateVars == <<mounted, enabled, status>>
callVars  == <<op, doc, before>>
writeVars == <<writing, previous, rollback>>
runVars   == <<running, applied>>
storeVars == <<fileVars, stateVars, step, callVars, writeVars, runVars>>

Fit    == Documents \ Unfit
Stored == Fit \cup {Missing}

Saves == {"save", "save_and_activate"}
Loads == {"load", "load_validated"}

Status == {"Ready", "Missing", "InvalidDocument", "MountFailed", "ReadFailed", "TooLarge",
           "Full", "ShortWrite", "FlushFailed", "RenameFailed", "ActivationFailed",
           "RollbackFailed"}

StoreTypes ==
    /\ main \in Stored \cup {Torn} /\ temp \in Stored \cup {Torn}
    /\ unflushed \subseteq {"main", "temp"}
    /\ mounted \in BOOLEAN /\ enabled \in BOOLEAN /\ status \in Status
    /\ step \in {"idle", "mount", "load", "previous", "space", "write", "flush", "rename",
               "activate", "remove"}
    /\ op \in Saves \cup Loads /\ doc \in Documents
    /\ writing \in Documents \cup {Torn} /\ previous \in Stored \cup {Torn}
    /\ rollback \in BOOLEAN
    /\ running \in Stored \cup {Torn} /\ applied \in BOOLEAN
    /\ before \in Stored \cup {Torn}

\* A device that was never written, or was.
StoreInit ==
    /\ main \in Stored /\ temp = Missing /\ unflushed = {}
    /\ mounted = FALSE /\ enabled = FALSE /\ status = "MountFailed"
    /\ step = "idle" /\ op = "load" /\ doc \in Documents
    /\ writing = doc /\ previous = Missing /\ rollback = FALSE
    /\ running = Missing /\ applied = TRUE /\ before = main

-----------------------------------------------------------------------------
Call ==
    /\ step = "idle"
    /\ step' = "mount"
    /\ op' \in Saves \cup Loads /\ doc' \in Documents
    /\ writing' = doc' /\ rollback' = FALSE /\ before' = main
    /\ UNCHANGED <<fileVars, stateVars, previous, runVars>>

Return(s) == step' = "idle" /\ status' = s

mount ==
    /\ step = "mount"
    /\ \/ /\ mounted' = TRUE
          /\ step' = CASE op \in Loads -> "load"
                     [] op = "save" -> "space"
                     [] op = "save_and_activate" -> "previous"
          /\ UNCHANGED <<enabled, status>>
       \/ /\ ~mounted
          /\ enabled' = FALSE /\ Return("MountFailed")
          /\ UNCHANGED mounted
    /\ UNCHANGED <<fileVars, callVars, writeVars, runVars>>

\* load and load_validated.  Their caller runs a document that is Ready.
load ==
    /\ step = "load"
    /\ \/ /\ main = Missing
          /\ enabled' = FALSE /\ Return("Missing")
          /\ UNCHANGED runVars
       \/ /\ main # Missing
          /\ enabled' = FALSE /\ \E s \in {"ReadFailed", "TooLarge"} : Return(s)
          /\ UNCHANGED runVars
       \/ /\ op = "load_validated" /\ main \in Malformed \cup {Torn}
          /\ enabled' = FALSE /\ Return("InvalidDocument")
          /\ UNCHANGED runVars
       \/ /\ main # Missing
          /\ op = "load_validated" => main \notin Malformed \cup {Torn}
          /\ enabled' = TRUE /\ Return("Ready")
          /\ running' = main /\ applied' = TRUE
    /\ UNCHANGED <<fileVars, mounted, callVars, writeVars>>

MutantReadPrevious ==
    /\ step = "previous" /\ doc \in Fit
    /\ previous' = Missing /\ step' = "space"
    /\ UNCHANGED <<fileVars, stateVars, callVars, writing, rollback, runVars>>
\* save_and_activate keeps a copy of the stored document first.
read_previous ==
    /\ step = "previous"
    /\ \/ /\ doc \in Unfit
          /\ Return("TooLarge")
          /\ UNCHANGED previous
       \/ /\ doc \in Fit /\ main # Missing
          /\ Return("ReadFailed")
          /\ UNCHANGED previous
       \/ /\ doc \in Fit
          /\ previous' = main /\ step' = "space"
          /\ UNCHANGED status
    /\ UNCHANGED <<fileVars, mounted, enabled, callVars, writing, rollback, runVars>>

-----------------------------------------------------------------------------
(* atomic_write: what its callers do with its result, then its steps *)

MutantWriteFails(s) ==
    /\ enabled' = (op # "save" /\ enabled)
    /\ Return(IF rollback THEN "RollbackFailed" ELSE s)
\* A failed rollback, and a failed save, disable the runtime.
WriteFails(s) ==
    /\ enabled' = (op # "save" /\ ~rollback /\ enabled)
    /\ Return(IF rollback THEN "RollbackFailed" ELSE s)

\* Putting the previous document back enables the runtime, whether or not it was
\* enabled before.
WriteSucceeds ==
    \/ /\ op = "save_and_activate" /\ ~rollback
       /\ step' = "activate"
       /\ UNCHANGED <<enabled, status, applied>>
    \/ /\ op = "save_and_activate" /\ rollback
       /\ enabled' = TRUE /\ Return("ActivationFailed")
       /\ applied' = (applied /\ enabled)
    \/ /\ op = "save"
       /\ enabled' = TRUE /\ applied' = FALSE /\ Return("Ready")

check_space ==
    /\ step = "space"
    /\ \/ writing \in Unfit /\ WriteFails("TooLarge")
       \/ writing \notin Unfit /\ WriteFails("Full")
       \/ /\ writing \notin Unfit
          /\ step' = "write"
          /\ UNCHANGED <<enabled, status>>
    /\ UNCHANGED <<fileVars, mounted, callVars, writeVars, runVars>>

\* A write that fails leaves nothing, a part or all of the document behind.
write_temp ==
    /\ step = "write"
    /\ unflushed' = unflushed \cup {"temp"}
    /\ \/ /\ temp' = writing
          /\ step' = "flush"
          /\ UNCHANGED <<enabled, status>>
       \/ temp' \in {temp, Torn} /\ WriteFails("ShortWrite")
       \/ temp' = writing /\ WriteFails("ReadFailed")
    /\ UNCHANGED <<main, mounted, callVars, writeVars, runVars>>

\* A failing call removes the temporary file, if that succeeds.
FailsAndRemoves(s) == temp' \in {temp, Missing} /\ WriteFails(s)

flush_temp ==
    /\ step = "flush"
    /\ \/ /\ unflushed' = unflushed \ {"temp"}
          /\ step' = "rename"
          /\ UNCHANGED <<temp, enabled, status>>
       \/ /\ FailsAndRemoves("FlushFailed")
          /\ UNCHANGED unflushed
    /\ UNCHANGED <<main, mounted, callVars, writeVars, runVars>>

rename_temp ==
    /\ step = "rename"
    /\ \/ /\ main' = temp /\ temp' = Missing
          /\ unflushed' = IF "temp" \in unflushed THEN {"main"} ELSE {}
          /\ WriteSucceeds
       \/ /\ FailsAndRemoves("RenameFailed")
          /\ UNCHANGED <<main, unflushed, applied>>
    /\ UNCHANGED <<mounted, callVars, writeVars, running>>

-----------------------------------------------------------------------------
MutantActivate ==
    /\ step = "activate"
    /\ \/ /\ running' = doc /\ applied' = TRUE
          /\ enabled' = TRUE /\ Return("Ready")
       \/ /\ Return("ActivationFailed")
          /\ UNCHANGED <<enabled, runVars>>
    /\ UNCHANGED <<fileVars, mounted, callVars, writeVars>>
\* The runtime takes the document or keeps the one it has.
activate ==
    /\ step = "activate"
    /\ \/ /\ doc \notin Malformed
          /\ running' = doc /\ applied' = TRUE
          /\ enabled' = TRUE /\ Return("Ready")
          /\ UNCHANGED <<writing, rollback>>
       \/ /\ previous # Missing
          /\ writing' = previous /\ rollback' = TRUE /\ step' = "space"
          /\ UNCHANGED <<enabled, status, runVars>>
       \/ /\ previous = Missing
          /\ step' = "remove"
          /\ UNCHANGED <<enabled, status, writing, rollback, runVars>>
    /\ UNCHANGED <<fileVars, mounted, callVars, previous>>

\* There was no document to put back.
remove_main ==
    /\ step = "remove"
    /\ enabled' = FALSE
    /\ \/ main' = Missing /\ unflushed' = unflushed \ {"main"} /\ Return("ActivationFailed")
       \/ Return("RollbackFailed") /\ UNCHANGED <<main, unflushed>>
    /\ UNCHANGED <<temp, mounted, callVars, writeVars, runVars>>

-----------------------------------------------------------------------------
After(file, content) == IF file \in unflushed THEN {content, Torn} ELSE {content}

\* The power fails and comes back.
PowerFails ==
    /\ main' \in After("main", main) /\ temp' \in After("temp", temp)
    /\ unflushed' = {}
    /\ mounted' = FALSE /\ enabled' = FALSE /\ status' = "MountFailed"
    /\ step' = "idle"
    /\ running' = Missing /\ applied' = TRUE
    /\ UNCHANGED <<callVars, writeVars>>

StoreNext ==
    \/ Call \/ mount \/ load \/ read_previous
    \/ check_space \/ write_temp \/ flush_temp \/ rename_temp
    \/ activate \/ remove_main \/ PowerFails

StoreSpec == StoreInit /\ [][StoreNext]_storeVars

-----------------------------------------------------------------------------
(* Properties *)

\* automation_store.cpp atomic_write: whatever fails and whenever the power does, the
\* stored file is a whole document or absent.
NeverTorn == main # Torn

\* A call that reports a failure, other than that of its own rollback, has left the
\* stored document as it found it: also after a rename that succeeded.  (After a power
\* failure the store is not mounted until a call begins.)
FailedCallKeepsDocument ==
    step = "idle" /\ mounted /\ status \notin {"Ready", "RollbackFailed"} => main = before

\* While the store reports the runtime as enabled, the runtime runs the document that
\* is stored, unless one was saved without activating it, or a rollback enabled what
\* was not enabled before.
StoredAndRunningAgree == step = "idle" /\ enabled /\ applied => running = main

\* Refinement mapping: between calls nothing is pending.
Atomic ==
    INSTANCE AtomicDocument WITH
        document <- main,
        old      <- before,
        new      <- IF op \in Saves /\ doc \in Fit THEN doc ELSE before,
        busy     <- step # "idle"

\* The store implements AtomicDocument.
StoreIsAtomic == Atomic!Spec
=============================================================================
