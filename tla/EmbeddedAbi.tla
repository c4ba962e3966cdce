----------------------------- MODULE EmbeddedAbi -----------------------------
(***************************************************************************)
(* The C ABI of the embedded runtime: what one call does to the handle.    *)
(* A handle owns a core runtime and two revisions.  Every call clones the  *)
(* runtime first and puts the clone back when the call must leave nothing  *)
(* behind.                                                                 *)
(*                                                                         *)
(* The core runtime is abstracted to one block: its clock, its named       *)
(* timers, its health, its source and its enabled flag.  Each operator     *)
(* returns the set of results a call may have: a Lua handler's result is   *)
(* not known to its host.                                                  *)
(***************************************************************************)
EXTENDS Integers, FiniteSets

CONSTANTS
    Timers,           \* names a Lua handler may give its timers
    Sources,          \* Lua sources
    BuiltIn,          \* the source compiled into the firmware
    Unloadable,       \* sources that do not compile
    MaxEffects,       \* bound: outputs of one cascade
    MaxAfter,         \* bound: delay of a timer, which is never 0
    Threshold         \* BLOCK_FAILURE_SUSPENSION_THRESHOLD, scaled

ASSUME AbiAssumption ==
    /\ BuiltIn \in Sources \ Unloadable
    /\ MaxEffects \in Nat \ {0} /\ MaxAfter \in Nat \ {0} /\ Threshold \in Nat \ {0}

None == "none"
Any  == 0           \* an expected revision of 0: the check is skipped

Health == {"Disabled", "Active", "SuspendedScriptFailures", "SuspendedEventRate"}

Runtime ==
    [last : Nat, pending : SUBSET [name : Timers, due : Nat], failures : 0..Threshold,
     health : Health, enabled : BOOLEAN, source : Sources]

Handle == [runtime : Runtime, document_revision : Nat]

HealthFor(on) == IF on THEN "Active" ELSE "Disabled"

\* logiksmith_runtime_create: one block, and revisions that start at 1.
Created ==
    [runtime |-> [last |-> 0, pending |-> {}, failures |-> 0, health |-> "Active",
                  enabled |-> TRUE, source |-> BuiltIn],
     document_revision |-> 1]

-----------------------------------------------------------------------------
(* The core runtime behind a handle *)

Outcome(result, runtime, effects) ==
    [result |-> result, runtime |-> runtime, effects |-> effects]

Runnable(r) == r.enabled /\ r.health = "Active"

\* The program built into the firmware turns its one output on and keeps no
\* timers; another program may do what the runtime's limits allow.
MostEffects(r) == IF r.source = BuiltIn THEN 1 ELSE MaxEffects
TimersOf(r)    == IF r.source = BuiltIn THEN {} ELSE Timers

Named(pending, name) == {p \in pending : p.name = name}

Quiet(r) == [r EXCEPT !.failures = 0]

\* set_timer replaces the timer of its name; cancel_timer removes it.
Armed(r, name, after) ==
    [r EXCEPT !.pending =
        (@ \ Named(@, name)) \cup {[name |-> name, due |-> r.last + after]}]
Cancelled(r, name) == [r EXCEPT !.pending = @ \ Named(@, name)]

\* The handler returns: its outputs, and perhaps what it did to one timer.
Succeeds(r) ==
    {Outcome("Ok", n, effects) :
        n \in {Quiet(r)} \cup
              {Armed(Quiet(r), name, after) : name \in TimersOf(r), after \in 1..MaxAfter} \cup
              {Cancelled(Quiet(r), name) : name \in TimersOf(r)},
        effects \in 0..MostEffects(r)}

\* The handler raises an error: the execution is recorded, and the block is
\* suspended at the threshold.
Fails(r) ==
    {Outcome("LogicError",
             IF r.failures + 1 < Threshold THEN [r EXCEPT !.failures = @ + 1]
             ELSE [r EXCEPT !.failures = Threshold, !.pending = {},
                            !.health = "SuspendedScriptFailures"], 0)}

\* Too many executions in a second: the block is suspended instead of run.
RateExceeded(r) ==
    {Outcome("Ok", [r EXCEPT !.failures = 0, !.pending = {},
                             !.health = "SuspendedEventRate"], 0)}

Refused(r, result) == {Outcome(result, r, 0)}

\* An admitted execution; a limit exceeded after it makes the core roll back.
Executes(r, before) ==
    Succeeds(r) \cup RateExceeded(r)
        \cup (IF r.source = BuiltIn THEN {} ELSE Fails(r) \cup Refused(before, "RuntimeLimit"))

MutantInputCascade(r, now) ==
    IF now <= r.last THEN Refused(r, "TimeWentBackwards")
    ELSE IF Runnable(r) THEN Executes([r EXCEPT !.last = now], r)
    ELSE {Outcome("Ok", [r EXCEPT !.last = now], 0)}
process_input_cascade(r, now) ==
    IF now < r.last THEN Refused(r, "TimeWentBackwards")
    ELSE IF Runnable(r) THEN Executes([r EXCEPT !.last = now], r)
    ELSE {Outcome("Ok", [r EXCEPT !.last = now], 0)}

DueTimers(r, now) ==
    IF Runnable(r) THEN {p \in r.pending : p.due <= now} ELSE {}

\* At most one timer, the earliest: of equal ones, one that CHOOSE fixes stands
\* for the first by name.
process_next_due_timer_cascade(r, now) ==
    LET due   == DueTimers(r, now)
        first == CHOOSE p \in due : \A q \in due : p.due <= q.due
    IN IF now < r.last THEN Refused(r, "TimeWentBackwards")
       ELSE IF due = {} THEN {Outcome("Ok", [r EXCEPT !.last = now], 0)}
       ELSE Executes([r EXCEPT !.last = now, !.pending = @ \ {first}], r)

-----------------------------------------------------------------------------
(* Calls of the ABI *)

Result(status, handle, effects) ==
    [status |-> status, handle |-> handle, effects |-> effects]

Committed(h, o) == Result(o.result, [h EXCEPT !.runtime = o.runtime], o.effects)
RolledBack(h, status) == Result(status, h, 0)

\* write_execution_effects: all effects or none.
write_effects(h, o, capacity) ==
    IF o.effects > capacity THEN RolledBack(h, "OutputBufferTooSmall")
    ELSE Committed(h, o)

\* A failed handler has accepted its input: that observation is kept.
logiksmith_runtime_process_input(h, now, capacity) ==
    {IF o.result \in {"Ok", "LogicError"} THEN write_effects(h, o, capacity)
     ELSE RolledBack(h, o.result) : o \in process_input_cascade(h.runtime, now)}

\* process_runtime_operation: here a failed handler is rolled back as well.
logiksmith_runtime_process_due_timer(h, now, capacity) ==
    {IF o.result = "Ok" THEN write_effects(h, o, capacity)
     ELSE RolledBack(h, o.result) : o \in process_next_due_timer_cascade(h.runtime, now)}

check_revision(current, expected) == expected = Any \/ expected = current

Current(h, c) ==
    /\ check_revision(h.document_revision, c.document_revision)
    /\ check_revision(h.runtime.source, c.block_revision)

\* Runtime::activate on one block: a change resets its health, a new source or
\* a disabled block loses its timers.
Activated(r, source, on) ==
    LET changed == source # r.source \/ on # r.enabled
        clears  == source # r.source \/ (r.enabled /\ ~on)
    IN [r EXCEPT !.source = source, !.enabled = on,
                 !.pending = IF clears THEN {} ELSE @,
                 !.failures = IF changed THEN 0 ELSE @,
                 !.health = IF changed THEN HealthFor(on) ELSE @]

Document(r) == [source |-> r.source, enabled |-> r.enabled]

NextRevision(h, r) ==
    IF Document(r) # Document(h.runtime) THEN h.document_revision + 1
    ELSE h.document_revision

\* c.source is None, or the source to activate; c.enabled is None, or the flag.
logiksmith_runtime_activate(h, c) ==
    LET source == IF c.source = None THEN h.runtime.source ELSE c.source
        on     == IF c.enabled = None THEN h.runtime.enabled ELSE c.enabled = "on"
        r      == Activated(h.runtime, source, on)
    IN IF ~Current(h, c) THEN RolledBack(h, "RevisionConflict")
       ELSE IF source \in Unloadable THEN RolledBack(h, "InvalidSource")
       ELSE Result("Ok", [runtime |-> r, document_revision |-> NextRevision(h, r)], 0)

\* resume_health clears a suspension; cancelled timers do not come back.
Resumed(r) == [r EXCEPT !.health = HealthFor(r.enabled), !.failures = 0]

logiksmith_runtime_resume(h, c) ==
    IF ~Current(h, c) THEN RolledBack(h, "RevisionConflict")
    ELSE Result("Ok", [h EXCEPT !.runtime = Resumed(h.runtime)], 0)
=============================================================================
