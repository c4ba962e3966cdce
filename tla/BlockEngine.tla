----------------------------- MODULE BlockEngine -----------------------------
(***************************************************************************)
(* One logic block: the inputs its engine holds, its transient state, its  *)
(* named timers and its active source, its flag and its health; what a     *)
(* live event does to it, and the dry runs (simulations) of the same       *)
(* handler on supplied data.                                               *)
(* A Lua handler runs in a fresh interpreter without clock or I/O, but the *)
(* sandbox gives it the whole math table, and Lua seeds math.random of     *)
(* every interpreter from the clock and an address.  So an execution       *)
(* depends on the source, on what the handler is shown and on a draw, the  *)
(* numbers its generator gives: an operator takes the draw, and a step of  *)
(* a specification chooses it.                                             *)
(*                                                                         *)
(* A source stands for its revision too, which is a hash of it.  A list of *)
(* a request is a function from its positions, whatever they are: the      *)
(* order of a list decides only which of its errors is reported.           *)
(*                                                                         *)
(* An operator named Mutant... is a plausible mistake in the definition    *)
(* that follows it; no specification uses it.                              *)
(***************************************************************************)
EXTENDS Integers, FiniteSets

CONSTANTS
    Inputs,             \* the input endpoints of a block
    Dpt,                \* for each input, the values of its datapoint type
    Timers,             \* names of timers
    Keys, StateValues,  \* the names and the values of transient state
    Outputs,            \* lists of output values
    Sources,            \* Lua sources
    Unloadable,         \* those that do not load
    Draws,              \* what math.random may return to an execution
    Handler(_, _, _),   \* what the handler of a source returns for what it is shown and drew
    MaxState, MaxTimers,\* max_state_entries_per_block, max_pending_timers_per_block
    Threshold           \* BLOCK_FAILURE_SUSPENSION_THRESHOLD, scaled

ASSUME EngineAssumption ==
    /\ IsFiniteSet(Timers)
    /\ Draws # {}
    /\ Unloadable \subseteq Sources
    /\ MaxState \in Nat /\ MaxTimers \in Nat /\ Threshold \in Nat \ {0}

None   == "none"        \* no value, no source, no result
Never  == -1            \* no time, no age
Cancel == 0             \* a timer effect; a delay is positive

Unavailable == "unavailable"     \* the time context without a wall clock

ASSUME ValuesAssumption == None \notin Sources /\ \A i \in Inputs : None \notin Dpt[i]

InputState   == [value : (UNION {Dpt[i] : i \in Inputs}) \cup {None}, observed_at : Nat \cup {Never}]
PendingTimer == [scheduled_at : Nat, due_at : Nat, revision : Sources]
NoTimer      == [due_at |-> Never]

\* The maps of an engine, with None or NoTimer for a name that is not in them.
State    == [Keys -> StateValues \cup {None}]
TimerMap == [Timers -> PendingTimer \cup {NoTimer}]
Engine ==
    [source : Sources \ Unloadable, inputs : [Inputs -> InputState], state : State,
     timers : TimerMap]

Absent   == [value |-> None, observed_at |-> Never]
NoState  == [k \in Keys |-> None]
NoTimers == [n \in Timers |-> NoTimer]
NewEngine(source) ==
    [source |-> source, inputs |-> [i \in Inputs |-> Absent], state |-> NoState,
     timers |-> NoTimers]

\* What a handler returns when it does not raise an error: a patch of the state, for each
\* timer nothing, a cancellation or a delay, and output values.
Transition ==
    [patch : State, timers : [Timers -> Nat \cup {Never}], outputs : Outputs]
Failed  == [error |-> "handler"]
Refused == [error |-> "request"]        \* the answer to a dry run that cannot be made

-----------------------------------------------------------------------------
(* Running a handler *)

merge_state(state, patch) ==
    [k \in Keys |-> IF patch[k] # None THEN patch[k] ELSE state[k]]

apply_timer_effects(pending, effects, now, revision) ==
    [n \in Timers |->
        IF effects[n] = Never THEN pending[n]
        ELSE IF effects[n] = Cancel THEN NoTimer
        ELSE [scheduled_at |-> now, due_at |-> now + effects[n], revision |-> revision]]

Armed(pending) == {n \in Timers : pending[n] # NoTimer}

StateFits(state)   == Cardinality({k \in Keys : state[k] # None}) <= MaxState
TimersFit(pending) == Cardinality(Armed(pending)) <= MaxTimers

\* convert_result: the form of the result and the limits of the block.
convert_result(result, state, pending, now, revision) ==
    /\ result \in Transition
    /\ StateFits(merge_state(state, result.patch))
    /\ TimersFit(apply_timer_effects(pending, result.timers, now, revision))

\* execute_logic, and the Execution made of its outcome.  A handler sees neither the
\* pending timers nor the monotonic time.
Execution(source, trigger, inputs, state, pending, now, time, draw) ==
    LET result == Handler(source, [trigger |-> trigger, inputs |-> inputs, state |-> state,
                                   time |-> time], draw)
        ok     == convert_result(result, state, pending, now, source)
    IN [revision       |-> source,
        trigger        |-> trigger,
        inputs         |-> inputs,
        state_before   |-> state,
        state_after    |-> IF ok THEN merge_state(state, result.patch) ELSE state,
        pending_timers |-> IF ok THEN apply_timer_effects(pending, result.timers, now, source)
                           ELSE pending,
        outcome        |-> IF ok THEN result ELSE Failed,
        time           |-> time]

input_trigger(endpoint, value, previous) ==
    [type |-> "input", endpoint |-> endpoint, value |-> value, previous |-> previous,
     changed |-> previous # None /\ previous # value,
     rising  |-> previous = "off" /\ value = "on",
     falling |-> previous = "on" /\ value = "off"]

timer_trigger(name, timer, fired_at) ==
    [type |-> "timer", timer |-> name, scheduled_at |-> timer.scheduled_at,
     due_at |-> timer.due_at, fired_at |-> fired_at]

SaturatingSub(m, n) == IF m < n THEN 0 ELSE m - n

MutantInputSnapshots(e, now) ==
    [i \in Inputs |->
        [value |-> e.inputs[i].value,
         valid |-> e.inputs[i].value # None,
         age   |-> SaturatingSub(now, e.inputs[i].observed_at)]]
input_snapshots(e, now) ==
    [i \in Inputs |->
        LET held == e.inputs[i] IN
        [value |-> held.value,
         valid |-> held.value # None /\ held.observed_at # Never,
         age   |-> IF held.observed_at = Never THEN Never
                   ELSE SaturatingSub(now, held.observed_at)]]

-----------------------------------------------------------------------------
(* Live events.  The runtime has accepted their time, which is not before the *)
(* time of any event before: accept_time does not refuse it again.            *)

\* Observe, trigger and invalidate replace what the input holds: an update is [kind, value].
InputHeld(e, i, update, now) ==
    [e EXCEPT !.inputs[i] =
        IF update.kind = "invalidate" THEN Absent
        ELSE [value |-> update.value, observed_at |-> now]]

Committed(e, x) == [e EXCEPT !.state = x.state_after, !.timers = x.pending_timers]

\* process_input_update_with_context for a trigger.
InputExecution(e, i, value, now, time, draw) ==
    LET held == InputHeld(e, i, [kind |-> "trigger", value |-> value], now)
    IN Execution(e.source, input_trigger(i, value, e.inputs[i].value),
                 input_snapshots(held, now), e.state, e.timers, now, time, draw)

Without(pending, n) == [pending EXCEPT ![n] = NoTimer]

DueNames(e, now) == {n \in Armed(e.timers) : e.timers[n].due_at <= now}

\* The earliest due timer: of equal ones, one that CHOOSE fixes stands for the first
\* by name.
NextDue(e, now) ==
    CHOOSE n \in DueNames(e, now) :
        \A m \in DueNames(e, now) : e.timers[n].due_at <= e.timers[m].due_at

\* process_next_due_timer_with_context, for a timer of the active revision.
TimerExecution(e, n, now, time, draw) ==
    Execution(e.source, timer_trigger(n, e.timers[n], now), input_snapshots(e, now),
              e.state, Without(e.timers, n), now, time, draw)

MutantActivateSource(e, source) == [e EXCEPT !.source = source]
\* A new source keeps inputs and state and loses the timers.
activate_source(e, source) ==
    IF source = e.source THEN e ELSE [e EXCEPT !.source = source, !.timers = NoTimers]

-----------------------------------------------------------------------------
(* The block around the engine *)

Suspended == {"SuspendedEventRate", "SuspendedScriptFailures"}
Health    == {"Active", "Disabled"} \cup Suspended
LogicBlock ==
    [engine : Engine, enabled : BOOLEAN, health : Health, failures : 0..Threshold]

HealthFor(on) == IF on THEN "Active" ELSE "Disabled"
NewBlock(source, on) ==
    [engine |-> NewEngine(source), enabled |-> on, health |-> HealthFor(on), failures |-> 0]

Runnable(k) == k.enabled /\ k.health = "Active"

\* admit_live_execution refuses.  How many executions the last second saw is not in
\* this model: a runnable block may be over its rate at any event.
RateSuspended(k) ==
    [k EXCEPT !.health = "SuspendedEventRate", !.failures = 0, !.engine.timers = NoTimers]

record_live_execution(k, x) ==
    IF x.outcome # Failed THEN [k EXCEPT !.failures = 0]
    ELSE IF k.failures + 1 < Threshold THEN [k EXCEPT !.failures = @ + 1]
    ELSE [k EXCEPT !.failures = Threshold, !.health = "SuspendedScriptFailures",
                   !.engine.timers = NoTimers]

Ran(k, e, x) == record_live_execution([k EXCEPT !.engine = Committed(e, x)], x)

\* What process_input may make of a block, whatever its handler draws.
AfterInput(k, i, value, now, time) ==
    LET held == InputHeld(k.engine, i, [kind |-> "trigger", value |-> value], now) IN
    IF Runnable(k)
    THEN {RateSuspended([k EXCEPT !.engine = held])} \cup
         {Ran(k, held, InputExecution(k.engine, i, value, now, time, draw)) : draw \in Draws}
    ELSE {[k EXCEPT !.engine = held]}

\* What process_next_due_timer may make of a runnable block with a due timer: the timer
\* is consumed whatever the handler does.
AfterTimer(k, now, time) ==
    {RateSuspended(k)} \cup
    {Ran(k, k.engine, TimerExecution(k.engine, NextDue(k.engine, now), now, time, draw)) :
        draw \in Draws}

\* Runtime::activate on one block.
Activated(k, source, on) ==
    LET changed == source # k.engine.source \/ on # k.enabled
        e       == activate_source(k.engine, source)
    IN [engine   |-> IF k.enabled /\ ~on THEN [e EXCEPT !.timers = NoTimers] ELSE e,
        enabled  |-> on,
        health   |-> IF changed THEN HealthFor(on) ELSE k.health,
        failures |-> IF changed THEN 0 ELSE k.failures]

Resumed(k) == [k EXCEPT !.health = HealthFor(k.enabled), !.failures = 0]

-----------------------------------------------------------------------------
(* snapshot_at: the lists a projection shows *)

ProjectedInputs(e, now) ==
    [i \in Inputs |->
        LET s == input_snapshots(e, now)[i]
        IN [endpoint |-> i, value |-> s.value, valid |-> s.valid, age |-> s.age]]

ProjectedTimers(e) ==
    [n \in Armed(e.timers) |->
        [name |-> n, scheduled_at |-> e.timers[n].scheduled_at, due_at |-> e.timers[n].due_at,
         revision |-> e.timers[n].revision]]

\* What the projection of time now shows, except that input i has just taken value.
WithInput(e, i, value, now) ==
    [ProjectedInputs(e, now) EXCEPT
        ![i] = [endpoint |-> i, value |-> value, valid |-> TRUE, age |-> 0]]

-----------------------------------------------------------------------------
(* Dry runs.  Each is an execution with a draw of its own, or Refused. *)

\* validate_simulation_input and validate_simulation_value.
validate_simulation_input(input) ==
    /\ input.endpoint \in Inputs
    /\ IF input.valid THEN input.value \in Dpt[input.endpoint] /\ input.age # Never
       ELSE input.value = None /\ input.age = Never

\* Every input is there once.
validate_inputs(list) ==
    /\ \A p \in DOMAIN list : validate_simulation_input(list[p])
    /\ \A i \in Inputs : \E p \in DOMAIN list : list[p].endpoint = i
    /\ \A p, q \in DOMAIN list : list[p].endpoint = list[q].endpoint => p = q

build_snapshots(list) ==
    [i \in Inputs |->
        LET p == CHOOSE p \in DOMAIN list : list[p].endpoint = i
        IN [value |-> list[p].value, valid |-> list[p].valid, age |-> list[p].age]]

\* validate_pending_timers: names differ, and all are of the revision that will run.
validate_pending_timers(list, revision) ==
    /\ \A p, q \in DOMAIN list : list[p].name = list[q].name => p = q
    /\ Cardinality(DOMAIN list) <= MaxTimers
    /\ \A p \in DOMAIN list : list[p].revision = revision

timer_map(list) ==
    [n \in Timers |->
        LET named == {p \in DOMAIN list : list[p].name = n}
            p     == CHOOSE p \in named : TRUE
        IN IF named = {} THEN NoTimer
           ELSE [scheduled_at |-> list[p].scheduled_at, due_at |-> list[p].due_at,
                 revision |-> list[p].revision]]

\* The triggering input is valid, of age 0, and holds the trigger's value.
validate_trigger(trigger, inputs) ==
    /\ trigger.endpoint \in Inputs
    /\ trigger.value \in Dpt[trigger.endpoint]
    /\ trigger.previous # None => trigger.previous \in Dpt[trigger.endpoint]
    /\ LET supplied == build_snapshots(inputs)[trigger.endpoint]
       IN supplied.valid /\ supplied.value = trigger.value /\ supplied.age = 0

DryInput(source, scenario, state, pending, now, draw) ==
    Execution(source,
              input_trigger(scenario.trigger.endpoint, scenario.trigger.value,
                            scenario.trigger.previous),
              build_snapshots(scenario.inputs), state, pending, now, Unavailable, draw)

\* simulate_input_with_state and simulate_input_against.
simulate_input_with_state(e, scenario, state, timers, now, draw) ==
    IF /\ StateFits(state)
       /\ validate_pending_timers(timers, e.source)
       /\ validate_inputs(scenario.inputs)
       /\ validate_trigger(scenario.trigger, scenario.inputs)
    THEN DryInput(e.source, scenario, state, timer_map(timers), now, draw)
    ELSE Refused

\* The timer of the scenario need not be due.
simulate_timer(e, scenario, draw) ==
    LET supplied == timer_map(scenario.pending_timers) IN
    IF /\ StateFits(scenario.state)
       /\ validate_pending_timers(scenario.pending_timers, e.source)
       /\ scenario.timer \in Armed(supplied)
       /\ validate_inputs(scenario.inputs)
    THEN Execution(e.source,
                   timer_trigger(scenario.timer, supplied[scenario.timer], scenario.fired_at),
                   build_snapshots(scenario.inputs), scenario.state,
                   Without(supplied, scenario.timer), scenario.fired_at, Unavailable, draw)
    ELSE Refused

\* The *_with_source forms: a draft is activated on a clone of the engine.
simulate_input_with_source(e, source, scenario, state, timers, now, draw) ==
    IF source \in Unloadable THEN Refused
    ELSE simulate_input_with_state(activate_source(e, source), scenario, state, timers, now, draw)

simulate_timer_with_source(e, source, scenario, draw) ==
    IF source \in Unloadable THEN Refused
    ELSE simulate_timer(activate_source(e, source), scenario, draw)
=============================================================================
