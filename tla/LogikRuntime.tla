---------------------------- MODULE LogikRuntime ----------------------------
(***************************************************************************)
(* The portable serial runtime of logiksmith-core: up to N isolated logic  *)
(* blocks, their named timers, their health (rate and failure suspension), *)
(* the typed internal signals that connect them, and the depth-first       *)
(* signal cascade that every accepted event starts.                        *)
(*                                                                         *)
(* Runtime methods are called one at a time, so a cascade is never         *)
(* interleaved with another call.  It is modelled one frame of             *)
(* propagate_from_execution at a time (variable work is the call stack),   *)
(* which lets every intermediate state be looked at; every other action    *)
(* needs phase = "idle".                                                   *)
(*                                                                         *)
(* What a Lua handler returns is chosen nondeterministically among all     *)
(* results that convert_result accepts; a result it refuses is a failure.  *)
(*                                                                         *)
(* An operator named Mutant... is a plausible mistake in the definition    *)
(* that follows it.  No specification uses it: it is there to show that a  *)
(* run would notice the mistake.                                           *)
(***************************************************************************)
EXTENDS Integers, Sequences, FiniteSets, Functions

CONSTANTS
    NumBlocks,          \* blocks are 1..NumBlocks, ordered by block id
    NumTimers,          \* timer names are 1..NumTimers, ordered by name
    NumSignals,         \* signals are 1..NumSignals, in endpoint declaration order
    Producer,           \* the block whose output endpoint is bound to a signal
    Consumers,          \* a signal's consumer endpoints (their blocks), in order
    Values, NoValue,    \* signal values; an endpoint or signal without one
    Revisions,          \* logic revisions (a hash of the Lua source)
    SourceBytes,        \* size of the source behind each revision
    MaxBlockTimers, MaxTotalTimers,
    MaxBlockState, MaxTotalState,
    MaxTotalSource,
    MaxCascade,         \* max_cascade_executions
    MaxRate,            \* max_live_executions_per_block_per_second
    Window,             \* the 1000 ms admission window, scaled
    FailureThreshold,   \* BLOCK_FAILURE_SUSPENSION_THRESHOLD, scaled
    HasTimeBudget,      \* is signal_cascade_time_budget_ms set (embedded profile)?
    MaxTime, MaxAfter,  \* bounds of the model: clock values, timer delays
    Remembered          \* bound of the model: admission times a history keeps

Blocks     == 1..NumBlocks
TimerNames == 1..NumTimers
Signals    == 1..NumSignals
NoSignal   == 0
Time       == 0..MaxTime

ASSUME SizesAssumption ==
    /\ NumBlocks \in Nat \ {0}
    /\ NumTimers \in Nat
    /\ NumSignals \in Nat
    /\ MaxTime \in Nat
    /\ MaxAfter \in Nat
    /\ Remembered \in Nat
ASSUME SignalsAssumption ==
    /\ Producer \in [Signals -> Blocks]
    /\ Consumers \in [Signals -> Seq(Blocks)]
    /\ NoValue \notin Values
ASSUME LimitsAssumption ==
    /\ MaxBlockTimers \in Nat /\ MaxTotalTimers \in Nat
    /\ MaxBlockState \in Nat /\ MaxTotalState \in Nat
    /\ SourceBytes \in [Revisions -> Nat] /\ MaxTotalSource \in Nat
    /\ MaxCascade \in Nat \ {0} /\ MaxRate \in Nat \ {0}
    /\ Window \in Nat \ {0} /\ FailureThreshold \in Nat \ {0}
    /\ HasTimeBudget \in BOOLEAN

VARIABLES
    enabled,        \* [Blocks -> BOOLEAN]            config.enabled
    health,         \* [Blocks -> Health]             LogicBlock.health
    failures,       \* [Blocks -> Nat]                consecutive_failures
    window,         \* [Blocks -> Seq(Time)]          live_execution_times
    admitted,       \* [Blocks -> Seq(Time)]          history: the latest admissions
                    \* since the block was activated or resumed, pruned or not
    revision,       \* [Blocks -> Revisions]          active_logic_revision()
    pending,        \* set of PendingTimer            every engine's pending_timers
    stateBytes,     \* [Blocks -> Nat]                size of each engine's state
    signals,        \* [Signals -> Values or none]    SignalState.value
    inputs,         \* inputs[s][i]: value held by the i-th consumer endpoint of s
    lastAcceptedAt, \* Runtime.last_accepted_at
    phase,          \* "idle", or "cascade" while a cascade call runs
    checkpoint,     \* the clone of the runtime taken when the call began
    work,           \* stack of propagate_from_execution frames, innermost first
    executions      \* executions.len() of the running cascade

blockVars  == <<enabled, revision>>
liveVars   == <<health, failures, window, admitted, pending, stateBytes, signals,
                inputs, lastAcceptedAt>>
callVars   == <<phase, checkpoint, work, executions>>
vars       == <<blockVars, liveVars, callVars>>

Suspended  == {"SuspendedEventRate", "SuspendedScriptFailures"}
Health     == {"Active", "Disabled"} \cup Suspended

PendingTimer ==
    [block : Blocks, name : TimerNames, scheduledAt : Nat, due : Nat,
     revision : Revisions]

\* One activation of propagate_from_execution: the outputs it has not handled
\* yet, and the signal whose consumers it is visiting.
Frame ==
    [outputs : [Signals -> Values \cup {NoValue}],
     signal  : Signals \cup {NoSignal},
     value   : Values \cup {NoValue},
     next    : Nat \ {0}]

\* The part of the runtime that events change, and the values it may take.
SnapshotType ==
    [health : [Blocks -> Health], failures : [Blocks -> Nat],
     window : [Blocks -> Seq(Nat)], admitted : [Blocks -> Seq(Nat)],
     pending : SUBSET PendingTimer, stateBytes : [Blocks -> Nat],
     signals : [Signals -> Values \cup {NoValue}],
     inputs : [Signals -> Seq(Values \cup {NoValue})], lastAcceptedAt : Nat]

Snapshot ==
    [health |-> health, failures |-> failures, window |-> window,
     admitted |-> admitted, pending |-> pending, stateBytes |-> stateBytes,
     signals |-> signals, inputs |-> inputs, lastAcceptedAt |-> lastAcceptedAt]

-----------------------------------------------------------------------------
\* Helpers

TimersOf(set, b)   == {p \in set : p.block = b}
Total(f)           == FoldFunction(+, 0, f)
HealthFor(isOn)    == IF isOn THEN "Active" ELSE "Disabled"
Runnable(b)        == enabled[b] /\ health[b] = "Active"
Idle               == phase = "idle"

\* validate_usage: the three totals checked before a cascade is committed.
TimersWithinLimit  == Cardinality(pending) <= MaxTotalTimers
StateWithinLimit   == Total(stateBytes) <= MaxTotalState
SourceWithinLimit  == Total([b \in Blocks |-> SourceBytes[revision[b]]]) <= MaxTotalSource
ValidateUsage      == TimersWithinLimit /\ StateWithinLimit /\ SourceWithinLimit

MutantPrunesTooEarly(w, now) ==
    {SubSeq(w, k + 1, Len(w)) :
        k \in {k \in 0..Len(w) :
                  /\ \A i \in 1..k : now - w[i] >= Window - 1
                  /\ k < Len(w) => now - w[k + 1] < Window - 1}}

\* The window without its expired front; a set with exactly one member.
PruneLiveExecutionWindow(w, now) ==
    {SubSeq(w, k + 1, Len(w)) :
        k \in {k \in 0..Len(w) :
                  /\ \A i \in 1..k : now - w[i] >= Window
                  /\ k < Len(w) => now - w[k + 1] < Window}}

\* A history of admissions, cut to the latest ones.
Remember(times) == IF Len(times) > Remembered THEN Tail(times) ELSE times

\* What one handler may ask for its timers: for some names a delay, or Cancel.
Cancel       == 0
TimerEffects == UNION {[names -> {Cancel} \cup 1..MaxAfter] : names \in SUBSET TimerNames}

ApplyTimerEffects(set, b, effects, now) ==
    {p \in set : ~(p.block = b /\ p.name \in DOMAIN effects)} \cup
    {[block |-> b, name |-> n, scheduledAt |-> now, due |-> now + effects[n],
      revision |-> revision[b]] : n \in {n \in DOMAIN effects : effects[n] # Cancel}}

\* The outputs one handler of block b may return.
Outputs(b) ==
    {o \in [Signals -> Values \cup {NoValue}] :
        \A s \in Signals : Producer[s] # b => o[s] = NoValue}
NoOutputs == [s \in Signals |-> NoValue]

\* cascade_size: the executions a change of block b can cause at most, counting
\* a block once for every path that reaches it.
CascadeSize[b \in Blocks] ==
    1 + Total([s \in {s \in Signals : Producer[s] = b} |->
                  Total([i \in DOMAIN Consumers[s] |-> CascadeSize[Consumers[s][i]]])])

\* validate_with_limits refuses every other wiring of signals.
ASSUME WiringAssumption == \A b \in Blocks : CascadeSize[b] <= MaxCascade

NewFrame(outputs) ==
    [outputs |-> outputs, signal |-> NoSignal, value |-> NoValue, next |-> 1]

-----------------------------------------------------------------------------
\* One live execution of block b at time now.  live is its pruned window,
\* timersBefore the timers pending when the handler starts, below the stack
\* the new propagate_from_execution frame is pushed on.

\* admit_live_execution refuses: the block is suspended and loses its timers.
RejectAdmission(b, live) ==
    /\ Len(live) >= MaxRate
    /\ health' = [health EXCEPT ![b] = "SuspendedEventRate"]
    /\ failures' = [failures EXCEPT ![b] = 0]
    /\ window' = [window EXCEPT ![b] = live]
    /\ pending' = pending \ TimersOf(pending, b)
    /\ UNCHANGED <<admitted, stateBytes>>

HandlerSucceeds(b, now, live, timersBefore, below) ==
    \E effects \in TimerEffects, bytes \in 0..MaxBlockState, outputs \in Outputs(b) :
        /\ pending' = ApplyTimerEffects(timersBefore, b, effects, now)
        /\ Cardinality(TimersOf(pending', b)) <= MaxBlockTimers
        /\ stateBytes' = [stateBytes EXCEPT ![b] = bytes]
        /\ failures' = [failures EXCEPT ![b] = 0]
        /\ window' = [window EXCEPT ![b] = Append(live, now)]
        /\ UNCHANGED health
        /\ work' = <<NewFrame(outputs)>> \o below

MutantSuspendedKeepsTimers(b, now, live, timersBefore, below) ==
    /\ failures' = [failures EXCEPT ![b] = @ + 1]
    /\ health' = [health EXCEPT ![b] =
                     IF failures[b] + 1 < FailureThreshold THEN @ ELSE "SuspendedScriptFailures"]
    /\ window' = [window EXCEPT ![b] = Append(live, now)]
    /\ pending' = timersBefore
    /\ UNCHANGED stateBytes
    /\ work' = <<NewFrame(NoOutputs)>> \o below

\* A failing handler changes no state and no timer, except that the fifth
\* failure in a row suspends the block.
HandlerFails(b, now, live, timersBefore, below) ==
    /\ failures' = [failures EXCEPT ![b] = @ + 1]
    /\ \/ /\ failures[b] + 1 < FailureThreshold
          /\ window' = [window EXCEPT ![b] = Append(live, now)]
          /\ pending' = timersBefore
          /\ UNCHANGED health
       \/ /\ failures[b] + 1 >= FailureThreshold
          /\ health' = [health EXCEPT ![b] = "SuspendedScriptFailures"]
          /\ window' = [window EXCEPT ![b] = <<>>]
          /\ pending' = timersBefore \ TimersOf(timersBefore, b)
    /\ UNCHANGED stateBytes
    /\ work' = <<NewFrame(NoOutputs)>> \o below

Execute(b, now, live, timersBefore, below) ==
    /\ Len(live) < MaxRate
    /\ admitted' = [admitted EXCEPT ![b] = Remember(Append(@, now))]
    /\ \/ HandlerSucceeds(b, now, live, timersBefore, below)
       \/ HandlerFails(b, now, live, timersBefore, below)

-----------------------------------------------------------------------------
\* Calls of the host while no cascade runs.  Every call carries a monotonic
\* time; ensure_time refuses one that is before lastAcceptedAt, and a refused
\* call changes nothing.

ObserveOnly(now) ==
    /\ lastAcceptedAt' = now
    /\ UNCHANGED <<health, failures, window, admitted, pending, stateBytes, signals, inputs>>
    /\ UNCHANGED <<blockVars, callVars>>

MutantRootCountedTwice ==
    /\ phase' = "cascade"
    /\ checkpoint' = Snapshot
    /\ executions' = 2

BeginCascade ==
    /\ phase' = "cascade"
    /\ checkpoint' = Snapshot
    /\ executions' = 1

\* The root event of block b is refused by the rate limit, or runs its handler
\* and starts a cascade.
RootEvent(b, now, timersBefore) ==
    \E live \in PruneLiveExecutionWindow(window[b], now) :
        \/ /\ RejectAdmission(b, live)
           /\ UNCHANGED callVars
        \/ /\ Execute(b, now, live, timersBefore, <<>>)
           /\ BeginCascade

\* observe_input, and the Observe and Invalidate forms of an input update.
ObserveInput(now) ==
    /\ Idle
    /\ now >= lastAcceptedAt
    /\ ObserveOnly(now)

\* process_input_cascade and the Trigger form of an input update.  External
\* endpoints are not signal endpoints, so the stored value is not in the model.
ProcessInput(b, now) ==
    /\ Idle
    /\ now >= lastAcceptedAt
    /\ \/ ~Runnable(b) /\ ObserveOnly(now)
       \/ /\ Runnable(b)
          /\ RootEvent(b, now, pending)
          /\ lastAcceptedAt' = now
          /\ UNCHANGED <<signals, inputs, blockVars>>

\* process_schedule_cascade.  A trigger that matches no current cursor, or
\* whose block cannot run, is dropped; its time is accepted all the same.
ProcessSchedule(b, now, current) ==
    /\ Idle
    /\ now >= lastAcceptedAt
    /\ \/ ~(current /\ Runnable(b)) /\ ObserveOnly(now)
       \/ /\ current /\ Runnable(b)
          /\ RootEvent(b, now, pending)
          /\ lastAcceptedAt' = now
          /\ UNCHANGED <<signals, inputs, blockVars>>

\* The due timers the runtime may fire, and the order it fires them in.
DueTimers(now) == {p \in pending : Runnable(p.block) /\ p.due <= now}
Before(p, q) ==
    \/ p.due < q.due
    \/ p.due = q.due /\ p.block < q.block
    \/ p.due = q.due /\ p.block = q.block /\ p.name <= q.name

\* process_next_due_timer_cascade: the timer is consumed whatever the handler
\* does; a refused admission takes it with the rest of the block's timers.
ProcessNextDueTimer(now) ==
    /\ Idle
    /\ now >= lastAcceptedAt
    /\ \/ DueTimers(now) = {} /\ ObserveOnly(now)
       \/ \E p \in DueTimers(now) :
             /\ \A q \in DueTimers(now) : Before(p, q)
             /\ RootEvent(p.block, now, pending \ {p})
             /\ lastAcceptedAt' = now
             /\ UNCHANGED <<signals, inputs, blockVars>>

-----------------------------------------------------------------------------
\* Steps of a running cascade; the top of the stack is Head(work).

Running == phase = "cascade" /\ work # <<>>

\* check_cascade_budget, at the entry of every frame: the host's probe may
\* report that the budget is spent.  The error is not rolled back.
CascadeTimeLimit ==
    /\ Running
    /\ HasTimeBudget
    /\ Head(work).signal = NoSignal
    /\ phase' = "idle"
    /\ checkpoint' = NoValue
    /\ work' = <<>>
    /\ executions' = 0
    /\ UNCHANGED <<blockVars, liveVars>>

Delivering(frame) ==
    frame.signal # NoSignal /\ frame.next <= Len(Consumers[frame.signal])

MutantOutputRepeated ==
    /\ Running
    /\ LET top == Head(work) IN
       /\ ~Delivering(top)
       /\ \E s \in Signals :
             /\ top.outputs[s] # NoValue
             /\ signals' = [signals EXCEPT ![s] = top.outputs[s]]
             /\ work' = <<[top EXCEPT !.signal = s, !.value = top.outputs[s], !.next = 1]>>
                            \o Tail(work)
    /\ UNCHANGED <<inputs, health, failures, window, admitted, pending, stateBytes, lastAcceptedAt>>
    /\ UNCHANGED <<blockVars, phase, checkpoint, executions>>

\* The next output of the frame sets its signal.  A changed value starts the
\* visit of the consumers; an equal one is only observed by all of them.
PublishOutput ==
    /\ Running
    /\ LET top == Head(work) IN
       /\ ~Delivering(top)
       /\ \E s \in Signals :
             /\ top.outputs[s] # NoValue
             /\ \A r \in Signals : top.outputs[r] # NoValue => s <= r
             /\ signals' = [signals EXCEPT ![s] = top.outputs[s]]
             /\ \/ /\ signals[s] # top.outputs[s]
                   /\ work' = <<[outputs |-> [top.outputs EXCEPT ![s] = NoValue],
                                 signal  |-> s,
                                 value   |-> top.outputs[s],
                                 next    |-> 1]>> \o Tail(work)
                   /\ UNCHANGED inputs
                \/ /\ signals[s] = top.outputs[s]
                   /\ work' = <<[outputs |-> [top.outputs EXCEPT ![s] = NoValue],
                                 signal  |-> s,
                                 value   |-> top.outputs[s],
                                 next    |-> Len(Consumers[s]) + 1]>> \o Tail(work)
                   /\ inputs' = [inputs EXCEPT ![s] =
                                    [i \in DOMAIN Consumers[s] |-> top.outputs[s]]]
    /\ UNCHANGED <<health, failures, window, admitted, pending, stateBytes, lastAcceptedAt>>
    /\ UNCHANGED <<blockVars, phase, checkpoint, executions>>

MutantInactiveConsumerSkipped ==
    /\ Running
    /\ LET top   == Head(work)
           s     == top.signal
           b     == Consumers[s][top.next]
           below == <<[top EXCEPT !.next = @ + 1]>> \o Tail(work)
       IN /\ Delivering(top)
          /\ \/ /\ ~Runnable(b)
                /\ work' = below
                /\ UNCHANGED <<inputs, health, failures, window, admitted, pending, stateBytes,
                               executions>>
             \/ /\ Runnable(b)
                /\ inputs' = [inputs EXCEPT ![s][top.next] = top.value]
                /\ \E live \in PruneLiveExecutionWindow(window[b], lastAcceptedAt) :
                      /\ Execute(b, lastAcceptedAt, live, pending, below)
                      /\ executions' = executions + 1
    /\ UNCHANGED <<signals, lastAcceptedAt, blockVars, phase, checkpoint>>

\* The next consumer endpoint of a changed signal: it stores the value, and its
\* block runs its handler unless it is disabled, suspended or over its rate.
\* (executions < MaxCascade: the CascadeLimit error, see CascadeFits.)
VisitConsumer ==
    /\ Running
    /\ LET top   == Head(work)
           s     == top.signal
           b     == Consumers[s][top.next]
           below == <<[top EXCEPT !.next = @ + 1]>> \o Tail(work)
       IN /\ Delivering(top)
          /\ inputs' = [inputs EXCEPT ![s][top.next] = top.value]
          /\ \/ /\ ~Runnable(b)
                /\ work' = below
                /\ UNCHANGED <<health, failures, window, admitted, pending, stateBytes,
                               executions>>
             \/ /\ Runnable(b)
                /\ executions < MaxCascade
                /\ \E live \in PruneLiveExecutionWindow(window[b], lastAcceptedAt) :
                      \/ /\ RejectAdmission(b, live)
                         /\ work' = below
                         /\ UNCHANGED executions
                      \/ /\ Execute(b, lastAcceptedAt, live, pending, below)
                         /\ executions' = executions + 1
    /\ UNCHANGED <<signals, lastAcceptedAt, blockVars, phase, checkpoint>>

\* A frame with nothing left to do returns to its caller.
PropagationReturns ==
    /\ Running
    /\ ~Delivering(Head(work))
    /\ Head(work).outputs = NoOutputs
    /\ work' = Tail(work)
    /\ UNCHANGED <<blockVars, liveVars, phase, checkpoint, executions>>

\* The end of every *_cascade method: validate_usage, then commit or restore.
CommitCascade ==
    /\ phase = "cascade" /\ work = <<>>
    /\ ValidateUsage
    /\ phase' = "idle" /\ checkpoint' = NoValue /\ executions' = 0
    /\ UNCHANGED <<blockVars, liveVars, work>>

MutantFailuresNotRolledBack ==
    /\ phase = "cascade" /\ work = <<>>
    /\ ~ValidateUsage
    /\ health' = checkpoint.health
    /\ window' = checkpoint.window
    /\ admitted' = checkpoint.admitted
    /\ pending' = checkpoint.pending
    /\ stateBytes' = checkpoint.stateBytes
    /\ signals' = checkpoint.signals
    /\ inputs' = checkpoint.inputs
    /\ lastAcceptedAt' = checkpoint.lastAcceptedAt
    /\ phase' = "idle" /\ checkpoint' = NoValue /\ executions' = 0
    /\ UNCHANGED <<failures, blockVars, work>>

RollBackCascade ==
    /\ phase = "cascade" /\ work = <<>>
    /\ ~ValidateUsage
    /\ health' = checkpoint.health
    /\ failures' = checkpoint.failures
    /\ window' = checkpoint.window
    /\ admitted' = checkpoint.admitted
    /\ pending' = checkpoint.pending
    /\ stateBytes' = checkpoint.stateBytes
    /\ signals' = checkpoint.signals
    /\ inputs' = checkpoint.inputs
    /\ lastAcceptedAt' = checkpoint.lastAcceptedAt
    /\ phase' = "idle" /\ checkpoint' = NoValue /\ executions' = 0
    /\ UNCHANGED <<blockVars, work>>

CascadeStep ==
    \/ CascadeTimeLimit
    \/ PublishOutput
    \/ VisitConsumer
    \/ PropagationReturns
    \/ CommitCascade
    \/ RollBackCascade

-----------------------------------------------------------------------------
\* Operator calls: activation of new sources or flags, and resume.

\* Runtime::activate on a valid batch: source and on are the revisions and flags
\* it leads to (an update that names the active revision or flag, or leaves it
\* out, changes nothing).  A batch with an empty update, an unknown or repeated
\* block or a source that does not compile is refused before anything changes.
\* The total source size is not checked.
Activate(source, on) ==
    LET newSource(b) == source[b] # revision[b]
        newFlag(b)   == on[b] # enabled[b]
        resets(b)    == newSource(b) \/ newFlag(b)
        clears(b)    == newSource(b) \/ (newFlag(b) /\ ~on[b])
    IN /\ Idle
       /\ revision' = source
       /\ enabled'  = on
       /\ pending'  = {p \in pending : ~clears(p.block)}
       /\ health'   = [b \in Blocks |-> IF resets(b) THEN HealthFor(on[b]) ELSE health[b]]
       /\ failures' = [b \in Blocks |-> IF resets(b) THEN 0 ELSE failures[b]]
       /\ window'   = [b \in Blocks |-> IF resets(b) THEN <<>> ELSE window[b]]
       /\ admitted' = [b \in Blocks |-> IF resets(b) THEN <<>> ELSE admitted[b]]
       /\ UNCHANGED <<stateBytes, signals, inputs, lastAcceptedAt, callVars>>

\* resume_block: health is reset; cancelled timers do not come back.
ResumeBlock(b) ==
    /\ Idle
    /\ health' = [health EXCEPT ![b] = HealthFor(enabled[b])]
    /\ failures' = [failures EXCEPT ![b] = 0]
    /\ window' = [window EXCEPT ![b] = <<>>]
    /\ admitted' = [admitted EXCEPT ![b] = <<>>]
    /\ UNCHANGED <<pending, stateBytes, signals, inputs, lastAcceptedAt>>
    /\ UNCHANGED <<blockVars, callVars>>

-----------------------------------------------------------------------------
\* Runtime::try_new on a configuration that validate_with_limits accepts.
Init ==
    /\ enabled \in [Blocks -> BOOLEAN]
    /\ revision \in [Blocks -> Revisions]
    /\ SourceWithinLimit
    /\ health = [b \in Blocks |-> HealthFor(enabled[b])]
    /\ failures = [b \in Blocks |-> 0]
    /\ window = [b \in Blocks |-> <<>>]
    /\ admitted = [b \in Blocks |-> <<>>]
    /\ pending = {}
    /\ stateBytes = [b \in Blocks |-> 0]
    /\ signals = [s \in Signals |-> NoValue]
    /\ inputs = [s \in Signals |-> [i \in DOMAIN Consumers[s] |-> NoValue]]
    /\ lastAcceptedAt = 0
    /\ phase = "idle" /\ checkpoint = NoValue /\ work = <<>> /\ executions = 0

Next ==
    \/ \E now \in Time : ObserveInput(now)
    \/ \E now \in Time, b \in Blocks : ProcessInput(b, now)
    \/ \E now \in Time, b \in Blocks, current \in BOOLEAN : ProcessSchedule(b, now, current)
    \/ \E now \in Time : ProcessNextDueTimer(now)
    \/ CascadeStep
    \/ \E source \in [Blocks -> Revisions], on \in [Blocks -> BOOLEAN] : Activate(source, on)
    \/ \E b \in Blocks : ResumeBlock(b)

Spec == Init /\ [][Next]_vars

\* A cascade is one synchronous call, so it keeps taking steps until it returns.
FairSpec == Spec /\ WF_vars(CascadeStep)

-----------------------------------------------------------------------------
\* Properties

\* Every variable has the type the Rust structures give it.
TypeOK ==
    /\ enabled \in [Blocks -> BOOLEAN]
    /\ revision \in [Blocks -> Revisions]
    /\ Snapshot \in SnapshotType
    /\ phase \in {"idle", "cascade"}
    /\ phase = "cascade" => checkpoint \in SnapshotType
    /\ work \in Seq(Frame)
    /\ executions \in Nat

\* A pending timer always belongs to the logic that is active now, of a block that
\* may run.  Activating another revision (or the same one again later) never leaves
\* a timer of the old one behind, so the StaleTimer error of the engine cannot be
\* returned.  And next_timer_deadline looks at enabled alone, process_next_due_timer
\* also at health: a timer of a suspended block would be due for ever and never fire.
PendingTimersAreLive ==
    \A p \in pending : p.revision = revision[p.block] /\ Runnable(p.block)

\* Reusing a timer name replaces its deadline: a block never has two pending
\* timers of one name, whatever its handlers schedule and rollbacks restore.
TimersAreKeyedByName ==
    \A p, q \in pending : p.block = q.block /\ p.name = q.name => p = q

\* The suspension reasons agree with the counters that cause them, through
\* rollback, activation, resume and cascades: a block is suspended for failures
\* exactly while it carries FailureThreshold of them, and Disabled is the
\* health of exactly the blocks that are switched off.
SuspensionMatchesCause ==
    \A b \in Blocks :
        /\ health[b] = "Disabled" <=> ~enabled[b]
        /\ health[b] = "SuspendedScriptFailures" <=> failures[b] >= FailureThreshold
        /\ health[b] = "SuspendedEventRate" => failures[b] = 0

\* prune_live_execution_window forgets an admission only when it no longer counts:
\* any MaxRate + 1 executions of a block in a row span at least Window, over every
\* route to the handler (input, timer, schedule, the depth of a cascade), every
\* refusal and every rollback.  Resuming or activating the block starts the count
\* again, and the executions of an event that was rolled back do not count.
RateRespected ==
    \A b \in Blocks : \A i, j \in DOMAIN admitted[b] :
        j - i >= MaxRate => admitted[b][j] - admitted[b][i] >= Window

\* Between calls every consumer endpoint holds the current value of its signal,
\* whether its block ran, was disabled or suspended, or the event was rolled
\* back: "a signal has a current value, an event when it changes".
ConsumersHoldSignalValue ==
    Idle => \A s \in Signals : \A i \in DOMAIN Consumers[s] : inputs[s][i] = signals[s]

\* The configuration check (cascade_size <= max_cascade_executions) makes the
\* CascadeLimit error of propagate_from_execution unreachable.
CascadeFits ==
    (Running /\ Delivering(Head(work)) /\ Runnable(Consumers[Head(work).signal][Head(work).next]))
        => executions < MaxCascade

\* Every cascade returns to the host.
CascadeReturns == phase = "cascade" ~> phase = "idle"

=============================================================================
