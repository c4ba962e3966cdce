--------------------------- MODULE RuntimeApiProofs ---------------------------
(***************************************************************************)
(* Proofs about RuntimeApi: facts about one block and its dry runs first,  *)
(* then the invariant of the adapter.                                      *)
(***************************************************************************)
EXTENDS RuntimeApi, FiniteSetTheorems, TLAPS

\* What every engine of a running block satisfies: its timers are of its own source, an
\* input holds a value of its type together with the time it was observed, or neither, and
\* state and timers are within the limits of the block.
TimersOf(timers, source) == \A n \in Timers : timers[n] # NoTimer => timers[n].revision = source
InputsOK(inputs) ==
    \A i \in Inputs :
        /\ inputs[i].value # None => inputs[i].value \in Dpt[i] /\ inputs[i].observed_at \in Nat
        /\ inputs[i].value = None => inputs[i].observed_at = Never
EngineOK(e) ==
    /\ e \in Engine
    /\ TimersOf(e.timers, e.source)
    /\ InputsOK(e.inputs)
    /\ StateFits(e.state)
    /\ TimersFit(e.timers)
BlockOK(k) == k \in LogicBlock /\ EngineOK(k.engine)

\* What an execution of a source may commit.
Commits(x, source) ==
    /\ x.state_after \in State /\ StateFits(x.state_after)
    /\ x.pending_timers \in TimerMap /\ TimersFit(x.pending_timers)
    /\ TimersOf(x.pending_timers, source)

-----------------------------------------------------------------------------
(* One block *)

\* No timers are within every limit, and belong to every source.
LEMMA NoTimersOK ==
    /\ NoTimers \in TimerMap
    /\ TimersFit(NoTimers)
    /\ \A source : TimersOf(NoTimers, source)
<1>1. Armed(NoTimers) = {}
  BY DEF Armed, NoTimers
<1>2. Cardinality(Armed(NoTimers)) = 0
  BY <1>1, FS_EmptySet
<1> QED
  BY <1>2, EngineAssumption DEF TimersFit, NoTimers, TimerMap, TimersOf

\* A timer that is taken away leaves the others within the limit.
LEMMA WithoutOK ==
    ASSUME NEW timers \in TimerMap, TimersFit(timers), NEW source, TimersOf(timers, source),
           NEW n
    PROVE  /\ Without(timers, n) \in TimerMap
           /\ TimersFit(Without(timers, n))
           /\ TimersOf(Without(timers, n), source)
<1>1. Without(timers, n) \in TimerMap /\ TimersOf(Without(timers, n), source)
  BY DEF Without, TimerMap, TimersOf
<1>2. Armed(Without(timers, n)) \subseteq Armed(timers)
  BY DEF Armed, Without, TimerMap
<1>3. IsFiniteSet(Armed(timers))
  BY EngineAssumption, FS_Subset DEF Armed
<1>4. /\ Cardinality(Armed(Without(timers, n))) <= Cardinality(Armed(timers))
      /\ IsFiniteSet(Armed(Without(timers, n)))
  BY <1>2, <1>3, FS_Subset
<1>5. Cardinality(Armed(timers)) \in Nat /\ Cardinality(Armed(Without(timers, n))) \in Nat
  BY <1>3, <1>4, FS_CardinalityType
<1> QED
  BY <1>1, <1>4, <1>5, EngineAssumption DEF TimersFit

\* What an execution commits: state and timers of their types, within the limits, and the
\* timers of the source that ran.  A handler that fails changes neither.
LEMMA ExecutionOK ==
    ASSUME NEW source \in Sources \ Unloadable, NEW shown, NEW inputs, NEW time,
           NEW state \in State, StateFits(state),
           NEW timers \in TimerMap, TimersFit(timers), TimersOf(timers, source),
           NEW now \in Nat, NEW draw
    PROVE  Commits(Execution(source, shown, inputs, state, timers, now, time, draw), source)
<1> DEFINE x      == Execution(source, shown, inputs, state, timers, now, time, draw)
           result == Handler(source, [trigger |-> shown, inputs |-> inputs, state |-> state,
                                      time |-> time], draw)
           ok     == convert_result(result, state, timers, now, source)
           after  == apply_timer_effects(timers, result.timers, now, source)
<1>1. x.state_after = IF ok THEN merge_state(state, result.patch) ELSE state
  BY DEF Execution
<1>2. x.pending_timers = IF ok THEN after ELSE timers
  BY DEF Execution
<1>3. CASE ~ok
  BY <1>1, <1>2, <1>3 DEF Commits
<1>4. CASE ok
  <2>1. result.patch \in State /\ result.timers \in [Timers -> Nat \cup {Never}]
    BY <1>4 DEF convert_result, Transition
  <2>2. merge_state(state, result.patch) \in State
    BY <2>1 DEF merge_state, State
  <2>3. ASSUME NEW n \in Timers
        PROVE  /\ after[n] \in PendingTimer \cup {NoTimer}
               /\ after[n] # NoTimer => after[n].revision = source
    <3>1. CASE result.timers[n] = Never
      BY <3>1 DEF apply_timer_effects, TimerMap, TimersOf
    <3>2. CASE result.timers[n] = Cancel
      BY <3>2 DEF apply_timer_effects, Cancel, Never
    <3>3. CASE result.timers[n] # Never /\ result.timers[n] # Cancel
      <4>1. after[n] = [scheduled_at |-> now, due_at |-> now + result.timers[n],
                        revision |-> source]
        BY <3>3 DEF apply_timer_effects
      <4>2. now + result.timers[n] \in Nat
        BY <2>1, <3>3
      <4> QED
        BY <4>1, <4>2 DEF PendingTimer
    <3> QED
      BY <3>1, <3>2, <3>3
  <2>4. after \in TimerMap /\ TimersOf(after, source)
    <3>1. after = [n \in Timers |-> after[n]]
      BY DEF apply_timer_effects
    <3> HIDE DEF after
    <3> QED
      BY <2>3, <3>1 DEF TimerMap, TimersOf
  <2> QED
    BY <1>1, <1>2, <1>4, <2>2, <2>4 DEF convert_result, Commits
<1> QED
  BY <1>3, <1>4

\* An update of an input leaves the rest of an engine as it is.
LEMMA HeldOK ==
    ASSUME NEW e, EngineOK(e), NEW i \in Inputs, NEW value \in Dpt[i], NEW now \in Nat,
           NEW kind \in {"trigger", "observe"}
    PROVE  LET held == InputHeld(e, i, [kind |-> kind, value |-> value], now)
           IN EngineOK(held) /\ held.source = e.source /\ held.state = e.state
                             /\ held.timers = e.timers
<1> DEFINE new  == [value |-> value, observed_at |-> now]
           held == InputHeld(e, i, [kind |-> kind, value |-> value], now)
<1>1. held = [e EXCEPT !.inputs = [e.inputs EXCEPT ![i] = new]]
  BY DEF InputHeld, EngineOK, Engine
<1>2. new \in InputState
  BY DEF InputState
<1>3. held \in Engine /\ held.inputs = [e.inputs EXCEPT ![i] = new]
  BY <1>1, <1>2 DEF EngineOK, Engine
<1>4. held.source = e.source /\ held.state = e.state /\ held.timers = e.timers
  BY <1>1 DEF EngineOK, Engine
<1>5. InputsOK(held.inputs)
  <2>1. e.inputs \in [Inputs -> InputState] /\ InputsOK(e.inputs)
    BY DEF EngineOK, Engine
  <2>2. value # None
    BY ValuesAssumption
  <2> QED
    BY <1>3, <2>1, <2>2 DEF InputsOK
<1> QED
  BY <1>3, <1>4, <1>5 DEF EngineOK

\* Committing an execution of the engine's own source.
LEMMA CommittedOK ==
    ASSUME NEW e, EngineOK(e), NEW x, Commits(x, e.source)
    PROVE  EngineOK(Committed(e, x)) /\ Committed(e, x).source = e.source
<1> DEFINE c == Committed(e, x)
<1>1. /\ c \in Engine /\ c.source = e.source /\ c.inputs = e.inputs
      /\ c.state = x.state_after /\ c.timers = x.pending_timers
  BY DEF Committed, Commits, EngineOK, Engine
<1> QED
  BY <1>1 DEF EngineOK, Commits

\* An engine that loses its timers.
LEMMA ClearedOK ==
    ASSUME NEW e, EngineOK(e)
    PROVE  EngineOK([e EXCEPT !.timers = NoTimers])
<1> DEFINE c == [e EXCEPT !.timers = NoTimers]
<1>1. /\ c \in Engine /\ c.source = e.source /\ c.inputs = e.inputs
      /\ c.state = e.state /\ c.timers = NoTimers
  BY NoTimersOK DEF EngineOK, Engine
<1> QED
  BY <1>1, NoTimersOK DEF EngineOK

\* A block is the record of its fields.
LEMMA BlockRecord ==
    ASSUME NEW k, k \in LogicBlock
    PROVE  /\ k = [engine |-> k.engine, enabled |-> k.enabled, health |-> k.health,
                   failures |-> k.failures]
           /\ k.engine \in Engine /\ k.enabled \in BOOLEAN /\ k.health \in Health
           /\ k.failures \in 0..Threshold
BY DEF LogicBlock

\* A block suspended for its rate keeps its source and flag, and has no timer.
LEMMA RateSuspendedOK ==
    ASSUME NEW k, BlockOK(k)
    PROVE  BlockOK(RateSuspended(k)) /\ RateSuspended(k).enabled = k.enabled
                                     /\ RateSuspended(k).engine.source = k.engine.source
<1> DEFINE e == [k.engine EXCEPT !.timers = NoTimers]
<1>1. EngineOK(e) /\ e.source = k.engine.source
  BY ClearedOK DEF BlockOK, EngineOK, Engine
<1>2. RateSuspended(k) = [k EXCEPT !.health = "SuspendedEventRate", !.failures = 0, !.engine = e]
  BY DEF RateSuspended, BlockOK, LogicBlock
<1>3. "SuspendedEventRate" \in Health /\ 0 \in 0..Threshold /\ k.enabled \in BOOLEAN
  BY EngineAssumption, BlockRecord DEF Health, Suspended, BlockOK
<1> HIDE DEF e
<1>4. /\ RateSuspended(k).engine = e /\ RateSuspended(k).enabled = k.enabled
      /\ RateSuspended(k) \in LogicBlock
  BY <1>1, <1>2, <1>3 DEF BlockOK, EngineOK, LogicBlock
<1> QED
  BY <1>1, <1>4 DEF BlockOK

\* Recording an execution keeps source and flag, whatever the outcome.
LEMMA RecordedOK ==
    ASSUME NEW k, BlockOK(k), NEW x
    PROVE  /\ BlockOK(record_live_execution(k, x))
           /\ record_live_execution(k, x).enabled = k.enabled
           /\ record_live_execution(k, x).engine.source = k.engine.source
<1> DEFINE r == record_live_execution(k, x)
           e == [k.engine EXCEPT !.timers = NoTimers]
<1>1. EngineOK(e) /\ e.source = k.engine.source
  BY ClearedOK DEF BlockOK, EngineOK, Engine
<1>2. CASE x.outcome # Failed
  BY <1>2, EngineAssumption DEF record_live_execution, BlockOK, LogicBlock
<1>3. CASE x.outcome = Failed /\ k.failures + 1 < Threshold
  BY <1>3, EngineAssumption DEF record_live_execution, BlockOK, LogicBlock
<1>4. CASE x.outcome = Failed /\ ~(k.failures + 1 < Threshold)
  <2>1. r = [k EXCEPT !.failures = Threshold, !.health = "SuspendedScriptFailures", !.engine = e]
    BY <1>4 DEF record_live_execution, BlockOK, LogicBlock
  <2>2. /\ "SuspendedScriptFailures" \in Health /\ Threshold \in 0..Threshold
        /\ k.enabled \in BOOLEAN
    BY EngineAssumption, BlockRecord DEF Health, Suspended, BlockOK
  <2> HIDE DEF e, r
  <2>3. r.engine = e /\ r.enabled = k.enabled /\ r \in LogicBlock
    BY <1>1, <2>1, <2>2 DEF BlockOK, EngineOK, LogicBlock
  <2> QED
    BY <1>1, <2>3 DEF BlockOK, r
<1> QED
  BY <1>2, <1>3, <1>4

\* A live execution: the block around the engine e that the event left.
LEMMA RanOK ==
    ASSUME NEW k, BlockOK(k), NEW e, EngineOK(e), e.source = k.engine.source,
           NEW x, Commits(x, e.source)
    PROVE  BlockOK(Ran(k, e, x)) /\ Ran(k, e, x).enabled = k.enabled
                                 /\ Ran(k, e, x).engine.source = k.engine.source
<1> DEFINE c == [k EXCEPT !.engine = Committed(e, x)]
<1>1. EngineOK(Committed(e, x)) /\ Committed(e, x).source = e.source
  BY CommittedOK
<1>2. BlockOK(c) /\ c.enabled = k.enabled /\ c.engine.source = k.engine.source
  BY <1>1 DEF BlockOK, EngineOK, LogicBlock
<1>3. Ran(k, e, x) = record_live_execution(c, x)
  BY DEF Ran
<1> HIDE DEF c
<1> QED
  BY <1>2, <1>3, RecordedOK

\* A delivered input leaves a well formed block with its source and flag, whatever its
\* handler draws.
LEMMA AfterInputOK ==
    ASSUME NEW k, BlockOK(k), NEW i \in Inputs, NEW value \in Dpt[i], NEW now \in Nat,
           NEW time, NEW r \in AfterInput(k, i, value, now, time)
    PROVE  BlockOK(r) /\ r.enabled = k.enabled /\ r.engine.source = k.engine.source
<1> DEFINE held    == InputHeld(k.engine, i, [kind |-> "trigger", value |-> value], now)
           x(draw) == InputExecution(k.engine, i, value, now, time, draw)
           h       == [k EXCEPT !.engine = held]
<1>1. /\ EngineOK(held) /\ held.source = k.engine.source
      /\ held.state = k.engine.state /\ held.timers = k.engine.timers
  BY HeldOK DEF BlockOK
<1>2. /\ held.timers \in TimerMap /\ TimersFit(held.timers) /\ TimersOf(held.timers, held.source)
      /\ held.source \in Sources \ Unloadable /\ held.state \in State /\ StateFits(held.state)
  BY <1>1 DEF EngineOK, Engine
<1>3. ASSUME NEW draw
      PROVE  /\ BlockOK(Ran(k, held, x(draw))) /\ Ran(k, held, x(draw)).enabled = k.enabled
             /\ Ran(k, held, x(draw)).engine.source = k.engine.source
  <2>1. x(draw) = Execution(held.source, input_trigger(i, value, k.engine.inputs[i].value),
                            input_snapshots(held, now), held.state, held.timers, now, time, draw)
    BY <1>1 DEF InputExecution
  <2> HIDE DEF held, x
  <2>2. Commits(x(draw), held.source)
    BY <1>2, <2>1, ExecutionOK
  <2> QED
    BY <1>1, <2>2, RanOK
<1>4. BlockOK(h) /\ h.enabled = k.enabled /\ h.engine.source = k.engine.source
  BY <1>1 DEF BlockOK, EngineOK, LogicBlock
<1>5. r \in {h, RateSuspended(h)} \/ \E draw \in Draws : r = Ran(k, held, x(draw))
  BY DEF AfterInput
<1> HIDE DEF held, x, h
<1> QED
  BY <1>3, <1>4, <1>5, RateSuspendedOK

\* A due timer leaves a well formed block with its source and flag, whatever its handler
\* draws.
LEMMA AfterTimerOK ==
    ASSUME NEW k, BlockOK(k), NEW now \in Nat, NEW time, NEW r \in AfterTimer(k, now, time)
    PROVE  BlockOK(r) /\ r.enabled = k.enabled /\ r.engine.source = k.engine.source
<1> DEFINE e       == k.engine
           n       == NextDue(e, now)
           x(draw) == TimerExecution(e, n, now, time, draw)
<1>1. /\ EngineOK(e) /\ e.timers \in TimerMap /\ TimersFit(e.timers)
      /\ TimersOf(e.timers, e.source)
  BY DEF BlockOK, EngineOK, Engine
<1>2. /\ Without(e.timers, n) \in TimerMap /\ TimersFit(Without(e.timers, n))
      /\ TimersOf(Without(e.timers, n), e.source)
  <2> HIDE DEF n
  <2> QED
    BY <1>1, WithoutOK
<1>3. ASSUME NEW draw
      PROVE  /\ BlockOK(Ran(k, e, x(draw))) /\ Ran(k, e, x(draw)).enabled = k.enabled
             /\ Ran(k, e, x(draw)).engine.source = k.engine.source
  <2>1. x(draw) = Execution(e.source, timer_trigger(n, e.timers[n], now),
                            input_snapshots(e, now), e.state, Without(e.timers, n), now, time,
                            draw)
    BY DEF TimerExecution
  <2> HIDE DEF n, x
  <2>2. Commits(x(draw), e.source)
    BY <1>1, <1>2, <2>1, ExecutionOK DEF EngineOK, Engine
  <2> QED
    BY <1>1, <2>2, RanOK
<1>4. r = RateSuspended(k) \/ \E draw \in Draws : r = Ran(k, e, x(draw))
  BY DEF AfterTimer
<1> HIDE DEF n, x
<1> QED
  BY <1>3, <1>4, RateSuspendedOK

\* Activation of a source that loads, and the flag with it.
LEMMA ActivatedOK ==
    ASSUME NEW k, BlockOK(k), NEW source \in Sources \ Unloadable, NEW on \in BOOLEAN
    PROVE  LET r == Activated(k, source, on)
           IN BlockOK(r) /\ r.enabled = on /\ r.engine.source = source
<1> DEFINE e == activate_source(k.engine, source)
           r == Activated(k, source, on)
<1>1. EngineOK(e) /\ e.source = source
  <2>1. EngineOK(k.engine)
    BY DEF BlockOK
  <2>2. CASE source = k.engine.source
    BY <2>1, <2>2 DEF activate_source
  <2>3. CASE source # k.engine.source
    <3> DEFINE c == [k.engine EXCEPT !.source = source, !.timers = NoTimers]
    <3>1. /\ c \in Engine /\ c.source = source /\ c.inputs = k.engine.inputs
          /\ c.state = k.engine.state /\ c.timers = NoTimers
      BY <2>1, NoTimersOK DEF EngineOK, Engine
    <3>2. e = c
      BY <2>3 DEF activate_source
    <3> QED
      BY <2>1, <3>1, <3>2, NoTimersOK DEF EngineOK
  <2> QED
    BY <2>2, <2>3
<1>2. EngineOK([e EXCEPT !.timers = NoTimers]) /\ [e EXCEPT !.timers = NoTimers].source = source
  BY <1>1, ClearedOK DEF EngineOK, Engine
<1>3. EngineOK(r.engine) /\ r.engine.source = source
  BY <1>1, <1>2 DEF Activated
<1>4. r.enabled = on /\ r.health \in Health /\ r.failures \in 0..Threshold
  BY EngineAssumption DEF Activated, BlockOK, LogicBlock, Health, HealthFor
<1>5. r = [engine |-> r.engine, enabled |-> r.enabled, health |-> r.health,
           failures |-> r.failures]
  BY DEF Activated
<1> QED
  BY <1>3, <1>4, <1>5 DEF BlockOK, EngineOK, LogicBlock

\* A resumed block keeps its source and flag.
LEMMA ResumedOK ==
    ASSUME NEW k, BlockOK(k)
    PROVE  BlockOK(Resumed(k)) /\ Resumed(k).enabled = k.enabled
                               /\ Resumed(k).engine.source = k.engine.source
<1>1. Resumed(k) = [k EXCEPT !.health = HealthFor(k.enabled), !.failures = 0]
  BY DEF Resumed
<1>2. HealthFor(k.enabled) \in Health /\ 0 \in 0..Threshold
  BY EngineAssumption DEF Health, HealthFor
<1> QED
  BY <1>1, <1>2 DEF BlockOK, LogicBlock

\* A block built from a loadable source is well formed.
LEMMA NewBlockOK ==
    ASSUME NEW source \in Sources \ Unloadable, NEW on \in BOOLEAN
    PROVE  BlockOK(NewBlock(source, on))
<1> DEFINE e == NewEngine(source)
<1>1. /\ e.source = source /\ e.inputs = [i \in Inputs |-> Absent] /\ e.state = NoState
      /\ e.timers = NoTimers
  BY DEF NewEngine
<1>2. e.inputs \in [Inputs -> InputState] /\ InputsOK(e.inputs)
  BY <1>1 DEF InputsOK, InputState, Absent
<1>3. NoState \in State /\ StateFits(NoState)
  <2>1. {k \in Keys : NoState[k] # None} = {}
    BY DEF NoState
  <2>2. Cardinality({k \in Keys : NoState[k] # None}) = 0
    BY <2>1, FS_EmptySet
  <2> QED
    BY <2>2, EngineAssumption DEF State, StateFits, NoState
<1>4. e \in Engine
  BY <1>2, <1>3, NoTimersOK DEF NewEngine, Engine
<1>5. EngineOK(e)
  BY <1>1, <1>2, <1>3, <1>4, NoTimersOK DEF EngineOK
<1> QED
  BY <1>5, EngineAssumption
  DEF NewBlock, BlockOK, EngineOK, LogicBlock, Health, HealthFor

-----------------------------------------------------------------------------
(* Dry runs *)

\* A list that has every input once, at the position of its name, is the map of its entries.
LEMMA SnapshotsOfList ==
    ASSUME NEW list, DOMAIN list = Inputs, \A i \in Inputs : list[i].endpoint = i
    PROVE  build_snapshots(list) =
             [i \in Inputs |->
                 [value |-> list[i].value, valid |-> list[i].valid, age |-> list[i].age]]
<1> DEFINE at(i) == CHOOSE p \in DOMAIN list : list[p].endpoint = i
<1>1. ASSUME NEW i \in Inputs PROVE at(i) = i
  <2>1. i \in DOMAIN list /\ list[i].endpoint = i
    OBVIOUS
  <2>2. at(i) \in DOMAIN list /\ list[at(i)].endpoint = i
    BY <2>1, Zenon
  <2> HIDE DEF at
  <2> QED
    BY <2>2
<1>2. build_snapshots(list) =
        [i \in Inputs |-> [value |-> list[at(i)].value, valid |-> list[at(i)].valid,
                           age |-> list[at(i)].age]]
  BY Zenon DEF build_snapshots
<1> HIDE DEF at
<1> QED
  BY <1>1, <1>2

\* The timers of a projection are accepted, and are those of the engine.
LEMMA ProjectedTimersOK ==
    ASSUME NEW e, EngineOK(e)
    PROVE  /\ validate_pending_timers(ProjectedTimers(e), e.source)
           /\ timer_map(ProjectedTimers(e)) = e.timers
<1> DEFINE list     == ProjectedTimers(e)
           named(n) == {p \in DOMAIN list : list[p].name = n}
           first(n) == CHOOSE p \in named(n) : TRUE
<1>1. e.timers \in TimerMap /\ TimersOf(e.timers, e.source) /\ TimersFit(e.timers)
  BY DEF EngineOK, Engine
<1>2. /\ DOMAIN list = Armed(e.timers)
      /\ \A p \in Armed(e.timers) :
            /\ list[p].name = p /\ list[p].scheduled_at = e.timers[p].scheduled_at
            /\ list[p].due_at = e.timers[p].due_at /\ list[p].revision = e.timers[p].revision
  BY DEF ProjectedTimers
<1> HIDE DEF list
<1>3. validate_pending_timers(list, e.source)
  BY <1>1, <1>2 DEF validate_pending_timers, TimersOf, TimersFit, Armed
<1>4. ASSUME NEW n \in Timers
      PROVE  e.timers[n] =
               IF named(n) = {} THEN NoTimer
               ELSE [scheduled_at |-> list[first(n)].scheduled_at,
                     due_at |-> list[first(n)].due_at, revision |-> list[first(n)].revision]
  <2>1. CASE e.timers[n] = NoTimer
    <3>1. named(n) = {}
      BY <1>2, <2>1 DEF Armed
    <3> QED
      BY <2>1, <3>1
  <2>2. CASE e.timers[n] # NoTimer
    <3>1. n \in Armed(e.timers)
      BY <2>2 DEF Armed
    <3>2. named(n) = {n}
      BY <1>2, <3>1
    <3> HIDE DEF named
    <3>3. first(n) \in named(n)
      BY <3>2, Zenon
    <3> HIDE DEF first
    <3>4. first(n) = n
      BY <3>2, <3>3
    <3>5. e.timers[n] \in PendingTimer
      BY <1>1, <2>2 DEF TimerMap
    <3>6. e.timers[n] = [scheduled_at |-> e.timers[n].scheduled_at,
                         due_at |-> e.timers[n].due_at, revision |-> e.timers[n].revision]
      BY <3>5 DEF PendingTimer
    <3> QED
      BY <1>2, <3>1, <3>2, <3>4, <3>6
  <2> QED
    BY <2>1, <2>2
<1>5. timer_map(list) =
        [n \in Timers |->
            IF named(n) = {} THEN NoTimer
            ELSE [scheduled_at |-> list[first(n)].scheduled_at, due_at |-> list[first(n)].due_at,
                  revision |-> list[first(n)].revision]]
  BY Zenon DEF timer_map
<1>6. e.timers = [n \in Timers |-> e.timers[n]]
  BY <1>1 DEF TimerMap
<1> HIDE DEF named, first
<1>7. timer_map(list) = e.timers
  BY <1>4, <1>5, <1>6
<1> QED
  BY <1>3, <1>7 DEF list

\* No timers at all.
LEMMA EmptyTimersOK ==
    ASSUME NEW source
    PROVE  validate_pending_timers(<<>>, source) /\ timer_map(<<>>) = NoTimers
<1>1. DOMAIN <<>> = {}
  OBVIOUS
<1>2. Cardinality(DOMAIN <<>>) = 0
  BY <1>1, FS_EmptySet
<1>3. validate_pending_timers(<<>>, source)
  BY <1>1, <1>2, EngineAssumption DEF validate_pending_timers
<1>4. \A n : {p \in DOMAIN <<>> : <<>>[p].name = n} = {}
  BY <1>1
<1>5. timer_map(<<>>) = NoTimers
  BY <1>4, Zenon DEF timer_map, NoTimers
<1> QED
  BY <1>3, <1>5

\* What is shown of an input: an age exactly when it is valid, and no value otherwise.
ShownOK(s, i) ==
    \/ s.valid = TRUE /\ s.value \in Dpt[i] /\ s.age # Never
    \/ s.valid = FALSE /\ s.value = None /\ s.age = Never

\* What a snapshot shows of a held input.
LEMMA SnapshotOK ==
    ASSUME NEW e, EngineOK(e), NEW i \in Inputs, NEW now \in Nat, NEW s,
           s = input_snapshots(e, now)[i]
    PROVE  s = [value |-> s.value, valid |-> s.valid, age |-> s.age] /\ ShownOK(s, i)
<1> DEFINE held == e.inputs[i]
           ok   == held.value # None /\ held.observed_at # Never
           age  == IF held.observed_at = Never THEN Never
                   ELSE SaturatingSub(now, held.observed_at)
<1>1. s = [value |-> held.value, valid |-> ok, age |-> age]
  BY DEF input_snapshots
<1>2. /\ held.value # None => held.value \in Dpt[i] /\ held.observed_at \in Nat
      /\ held.value = None => held.observed_at = Never
  BY DEF EngineOK, InputsOK
<1>3. held.observed_at \in Nat => SaturatingSub(now, held.observed_at) \in Nat
  BY DEF SaturatingSub
<1> HIDE DEF held
<1>4. \/ ok = TRUE /\ held.value \in Dpt[i] /\ age # Never
      \/ ok = FALSE /\ held.value = None /\ age = Never
  <2>1. CASE held.value = None
    BY <1>2, <2>1
  <2>2. CASE held.value # None
    BY <1>2, <1>3, <2>2 DEF Never
  <2> QED
    BY <2>1, <2>2
<1> HIDE DEF ok, age
<1> QED
  BY <1>1, <1>4 DEF ShownOK

\* A list whose entries are what an engine shows is accepted, and shows the same: leaving
\* out the value of an input that is not valid leaves nothing out.
LEMMA ShownList ==
    ASSUME NEW e, EngineOK(e), NEW now \in Nat, NEW with, DOMAIN with = Inputs,
           \A p \in Inputs :
               LET s == input_snapshots(e, now)[p]
               IN with[p] = [endpoint |-> p, value |-> s.value, valid |-> s.valid, age |-> s.age]
    PROVE  /\ validate_inputs(simulation_inputs(with))
           /\ build_snapshots(simulation_inputs(with)) = input_snapshots(e, now)
<1> DEFINE list == simulation_inputs(with)
           s(p) == input_snapshots(e, now)[p]
<1>1. ASSUME NEW p \in Inputs
      PROVE  /\ with[p] = [endpoint |-> p, value |-> s(p).value, valid |-> s(p).valid,
                           age |-> s(p).age]
             /\ s(p) = [value |-> s(p).value, valid |-> s(p).valid, age |-> s(p).age]
             /\ ShownOK(s(p), p)
  BY SnapshotOK
<1>2. DOMAIN list = Inputs
  BY DEF simulation_inputs
<1>3. ASSUME NEW p \in Inputs
      PROVE  /\ list[p].endpoint = p /\ list[p].value = s(p).value
             /\ list[p].valid = s(p).valid /\ list[p].age = s(p).age
  <2> DEFINE left == IF with[p].valid THEN with[p].value ELSE None
  <2>1. list[p] = [with[p] EXCEPT !.value = left]
    BY DEF simulation_inputs
  <2> HIDE DEF list, s
  <2>2. with[p] = [endpoint |-> p, value |-> s(p).value, valid |-> s(p).valid, age |-> s(p).age]
    BY <1>1
  <2>3. with[p].valid = s(p).valid /\ with[p].value = s(p).value
    BY <2>2
  <2>4. left = s(p).value
    <3>1. CASE s(p).valid = TRUE
      BY <2>3, <3>1, Zenon
    <3>2. CASE s(p).valid = FALSE /\ s(p).value = None
      BY <2>3, <3>2, Zenon
    <3> QED
      BY <1>1, <3>1, <3>2, Zenon DEF ShownOK
  <2> HIDE DEF left
  <2> QED
    BY <2>1, <2>2, <2>4
<1> HIDE DEF list
<1>4. \A p \in Inputs : validate_simulation_input(list[p])
  <2> HIDE DEF s
  <2> QED
    BY <1>1, <1>3 DEF validate_simulation_input, ShownOK
<1>5. validate_inputs(list)
  BY <1>2, <1>3, <1>4 DEF validate_inputs
<1>6. build_snapshots(list) = input_snapshots(e, now)
  <2>1. build_snapshots(list) =
          [p \in Inputs |-> [value |-> s(p).value, valid |-> s(p).valid, age |-> s(p).age]]
    <3> HIDE DEF s
    <3> QED
      BY <1>2, <1>3, SnapshotsOfList
  <2>2. \A p \in Inputs : s(p) = [value |-> s(p).value, valid |-> s(p).valid, age |-> s(p).age]
    BY <1>1
  <2>3. input_snapshots(e, now) = [p \in Inputs |-> s(p)]
    BY DEF input_snapshots
  <2> HIDE DEF s
  <2> QED
    BY <2>1, <2>2, <2>3
<1> QED
  BY <1>5, <1>6 DEF list

\* The projected inputs of a live engine are accepted and give back its snapshots.
LEMMA ProjectedInputsOK ==
    ASSUME NEW e, EngineOK(e), NEW now \in Nat
    PROVE  /\ validate_inputs(simulation_inputs(ProjectedInputs(e, now)))
           /\ build_snapshots(simulation_inputs(ProjectedInputs(e, now))) = input_snapshots(e, now)
<1> DEFINE with == ProjectedInputs(e, now)
<1>1. DOMAIN with = Inputs
  BY DEF ProjectedInputs
<1>2. \A p \in Inputs :
          LET s == input_snapshots(e, now)[p]
          IN with[p] = [endpoint |-> p, value |-> s.value, valid |-> s.valid, age |-> s.age]
  BY DEF ProjectedInputs
<1> HIDE DEF with
<1>3. /\ validate_inputs(simulation_inputs(with))
      /\ build_snapshots(simulation_inputs(with)) = input_snapshots(e, now)
  BY <1>1, <1>2, ShownList
<1> QED
  BY <1>3 DEF with

\* The entries of a request made from a projection with input i changed are the inputs the
\* engine shows once i has taken the value.
LEMMA RequestInputsOK ==
    ASSUME NEW e, EngineOK(e), NEW i \in Inputs, NEW value \in Dpt[i], NEW now \in Nat
    PROVE  LET list == simulation_inputs(WithInput(e, i, value, now))
               held == InputHeld(e, i, [kind |-> "trigger", value |-> value], now)
           IN /\ validate_inputs(list)
              /\ build_snapshots(list) = input_snapshots(held, now)
              /\ input_snapshots(held, now)[i] = [value |-> value, valid |-> TRUE, age |-> 0]
<1> DEFINE held == InputHeld(e, i, [kind |-> "trigger", value |-> value], now)
           with == WithInput(e, i, value, now)
           s(p) == input_snapshots(held, now)[p]
<1>1. EngineOK(held)
  BY HeldOK
<1>2. held.inputs = [e.inputs EXCEPT ![i] = [value |-> value, observed_at |-> now]]
  BY DEF InputHeld, EngineOK, Engine
<1>3. e.inputs \in [Inputs -> InputState]
  BY DEF EngineOK, Engine
<1>4. s(i) = [value |-> value, valid |-> TRUE, age |-> 0]
  <2>1. held.inputs[i] = [value |-> value, observed_at |-> now]
    BY <1>2, <1>3
  <2>2. value # None /\ now # Never /\ SaturatingSub(now, now) = 0
    BY ValuesAssumption DEF Never, SaturatingSub
  <2> HIDE DEF held
  <2>3. s(i) = [value |-> value, valid |-> value # None /\ now # Never,
                age |-> IF now = Never THEN Never ELSE SaturatingSub(now, now)]
    BY <2>1 DEF input_snapshots
  <2>4. (value # None /\ now # Never) = TRUE
    BY <2>2
  <2> QED
    BY <2>2, <2>3, <2>4
<1>5. ASSUME NEW p \in Inputs
      PROVE  with[p] = [endpoint |-> p, value |-> s(p).value, valid |-> s(p).valid,
                        age |-> s(p).age]
  <2>1. CASE p = i
    <3>1. with[p] = [endpoint |-> i, value |-> value, valid |-> TRUE, age |-> 0]
      BY <2>1 DEF WithInput, ProjectedInputs
    <3>2. s(p) = [value |-> value, valid |-> TRUE, age |-> 0]
      BY <1>4, <2>1
    <3> HIDE DEF s, with
    <3>3. s(p).value = value /\ s(p).valid = TRUE /\ s(p).age = 0
      BY <3>2
    <3> QED
      BY <2>1, <3>1, <3>3
  <2>2. CASE p # i
    <3>1. held.inputs[p] = e.inputs[p]
      BY <1>2, <1>3, <2>2
    <3> HIDE DEF held
    <3>2. s(p) = input_snapshots(e, now)[p]
      BY <3>1 DEF input_snapshots
    <3>3. with[p] = ProjectedInputs(e, now)[p]
      BY <2>2 DEF WithInput, ProjectedInputs
    <3> QED
      BY <3>2, <3>3 DEF ProjectedInputs
  <2> QED
    BY <2>1, <2>2
<1>6. DOMAIN with = Inputs
  BY DEF WithInput, ProjectedInputs
<1> HIDE DEF with, held
<1>7. /\ validate_inputs(simulation_inputs(with))
      /\ build_snapshots(simulation_inputs(with)) = input_snapshots(held, now)
  BY <1>1, <1>5, <1>6, ShownList
<1> QED
  BY <1>4, <1>7 DEF with, held

\* The scenario of a request made from the inputs of an engine.
InputScenario(e, i, value, now) ==
    [trigger |-> [endpoint |-> i, value |-> value, previous |-> e.inputs[i].value],
     inputs  |-> simulation_inputs(WithInput(e, i, value, now))]

\* A dry run of an input on the engine's own state and timers is the live execution that
\* draws the same numbers.
LEMMA InputDryRun ==
    ASSUME NEW e, EngineOK(e), NEW i \in Inputs, NEW value \in Dpt[i], NEW now \in Nat,
           NEW timers, validate_pending_timers(timers, e.source), timer_map(timers) = e.timers,
           NEW draw
    PROVE  simulate_input_with_state(e, InputScenario(e, i, value, now), e.state, timers, now, draw)
             = InputExecution(e, i, value, now, Unavailable, draw)
<1> DEFINE sc   == InputScenario(e, i, value, now)
           list == simulation_inputs(WithInput(e, i, value, now))
           held == InputHeld(e, i, [kind |-> "trigger", value |-> value], now)
<1>1. /\ validate_inputs(list)
      /\ build_snapshots(list) = input_snapshots(held, now)
      /\ input_snapshots(held, now)[i] = [value |-> value, valid |-> TRUE, age |-> 0]
  BY RequestInputsOK
<1>2. /\ sc.trigger.endpoint = i /\ sc.trigger.value = value
      /\ sc.trigger.previous = e.inputs[i].value /\ sc.inputs = list
  BY DEF InputScenario
<1> HIDE DEF sc, list, held
<1>3. build_snapshots(list)[i] = [value |-> value, valid |-> TRUE, age |-> 0]
  BY <1>1
<1>4. validate_trigger(sc.trigger, sc.inputs)
  <2>1. e.inputs[i].value # None => e.inputs[i].value \in Dpt[i]
    BY DEF EngineOK, InputsOK
  <2>2. /\ build_snapshots(list)[i].valid /\ build_snapshots(list)[i].value = value
        /\ build_snapshots(list)[i].age = 0
    BY <1>3
  <2> QED
    BY <1>2, <2>1, <2>2, Zenon DEF validate_trigger
<1>5. StateFits(e.state)
  BY DEF EngineOK
<1>6. simulate_input_with_state(e, sc, e.state, timers, now, draw)
        = DryInput(e.source, sc, e.state, e.timers, now, draw)
  BY <1>1, <1>2, <1>4, <1>5, Zenon DEF simulate_input_with_state
<1>7. DryInput(e.source, sc, e.state, e.timers, now, draw)
        = Execution(e.source, input_trigger(i, value, e.inputs[i].value),
                    input_snapshots(held, now), e.state, e.timers, now, Unavailable, draw)
  BY <1>1, <1>2, Zenon DEF DryInput
<1>8. InputExecution(e, i, value, now, Unavailable, draw)
        = Execution(e.source, input_trigger(i, value, e.inputs[i].value),
                    input_snapshots(held, now), e.state, e.timers, now, Unavailable, draw)
  BY Zenon DEF InputExecution, held
<1> QED
  BY <1>6, <1>7, <1>8, Zenon DEF sc

\* The same of a pending timer, whether or not it is due.
LEMMA TimerDryRun ==
    ASSUME NEW e, EngineOK(e), NEW n \in Armed(e.timers), NEW now \in Nat, NEW draw
    PROVE  SimulateTimer(e, TimerRequest(e, n, now), draw)
             = TimerExecution(e, n, now, Unavailable, draw)
<1> DEFINE list == simulation_inputs(ProjectedInputs(e, now))
           pend == ProjectedTimers(e)
           sc   == [timer |-> n, fired_at |-> now, state |-> e.state, inputs |-> list,
                    pending_timers |-> pend]
<1>1. SimulateTimer(e, TimerRequest(e, n, now), draw) = simulate_timer(e, sc, draw)
  BY DEF SimulateTimer, TimerRequest
<1>2. validate_pending_timers(pend, e.source) /\ timer_map(pend) = e.timers
  BY ProjectedTimersOK
<1>3. StateFits(e.state)
  BY DEF EngineOK
<1>4. validate_inputs(list) /\ build_snapshots(list) = input_snapshots(e, now)
  BY ProjectedInputsOK
<1> HIDE DEF list, pend
<1>5. simulate_timer(e, sc, draw) =
        Execution(e.source, timer_trigger(n, e.timers[n], now), input_snapshots(e, now),
                  e.state, Without(e.timers, n), now, Unavailable, draw)
  <2>1. /\ sc.timer = n /\ sc.fired_at = now /\ sc.state = e.state /\ sc.inputs = list
        /\ sc.pending_timers = pend
    OBVIOUS
  <2> HIDE DEF sc
  <2> QED
    BY <1>2, <1>3, <1>4, <2>1, Zenon DEF simulate_timer
<1> QED
  BY <1>1, <1>5, Zenon DEF TimerExecution

-----------------------------------------------------------------------------
(* The invariant of the adapter *)

BlocksOK == \A b \in Blocks : BlockOK(blocks[b])

\* A document revision below the limit names the document, and a block revision that
\* tells edits apart names the block: no client holds one that is to come.
SeenDocuments ==
    \A c \in Clients :
        /\ seen[c].document_revision <= document_revision
        /\ seen[c].document_revision = document_revision /\ document_revision < MaxRevision =>
              \A b \in Blocks : seen[c].blocks[b] = ContentOf(b)
SeenBlocks ==
    \A c \in Clients, b \in Blocks :
        /\ seen[c].revisions[b] <= block_revisions[b]
        /\ seen[c].revisions[b] = block_revisions[b] /\ Distinct(b) =>
              seen[c].blocks[b] = ContentOf(b)

IInv ==
    /\ TypeOK
    /\ BlocksOK
    /\ DocumentMatchesRuntime
    /\ \A b \in Blocks : document[b].revision >= StoredRevision[b]
    /\ SeenDocuments
    /\ SeenBlocks

\* A step that replaces the runtime's block b by one of the same source and flag, and no
\* revision.
LEMMA BlockStep ==
    ASSUME IInv, NEW b \in Blocks, NEW k, BlockOK(k), k.enabled = blocks[b].enabled,
           k.engine.source = blocks[b].engine.source,
           blocks' = [blocks EXCEPT ![b] = k], last' \in Nat, UNCHANGED editVars
    PROVE  IInv'
<1>1. TypeOK'
  BY DEF IInv, TypeOK, BlockOK, editVars
<1>2. BlocksOK'
  BY DEF IInv, TypeOK, BlocksOK
<1>3. DocumentMatchesRuntime'
  BY DEF IInv, TypeOK, DocumentMatchesRuntime, editVars
<1>4. SeenDocuments' /\ SeenBlocks'
  BY DEF IInv, SeenDocuments, SeenBlocks, ContentOf, Distinct, editVars
<1> QED
  BY <1>1, <1>2, <1>3, <1>4 DEF IInv, editVars

\* The runtime is built from the initial document.
LEMMA InitIInv == Init => IInv
<1> SUFFICES ASSUME NEW on \in [Blocks -> BOOLEAN],
                    blocks = [b \in Blocks |-> NewBlock(FirstSource[b], on[b])],
                    last = 0,
                    document = [b \in Blocks |->
                                   [source |-> FirstSource[b], enabled |-> on[b],
                                    revision |-> StoredRevision[b]]],
                    document_revision = 0,
                    block_revisions = [b \in Blocks |-> AtLeast(StoredRevision[b], 1)],
                    seen = [c \in Clients |-> CurrentView]
             PROVE  IInv
  BY DEF Init
<1>1. ASSUME NEW b \in Blocks
      PROVE  /\ BlockOK(blocks[b]) /\ blocks[b] \in LogicBlock
             /\ blocks[b].engine.source = FirstSource[b] /\ blocks[b].enabled = on[b]
  <2>1. blocks[b] = NewBlock(FirstSource[b], on[b]) /\ FirstSource[b] \in Sources \ Unloadable
    BY ApiAssumption
  <2> QED
    BY <2>1, NewBlockOK DEF BlockOK, NewBlock, NewEngine
<1>2. CurrentView \in View
  BY ApiAssumption DEF CurrentView, View, ContentOf, Content, Revision, AtLeast
<1>3. TypeOK
  BY <1>1, <1>2, ApiAssumption DEF TypeOK, Revision, AtLeast
<1>4. DocumentMatchesRuntime
  BY <1>1 DEF DocumentMatchesRuntime
<1>5. \A c \in Clients : /\ seen[c].document_revision = document_revision
                         /\ \A b \in Blocks : /\ seen[c].revisions[b] = block_revisions[b]
                                              /\ seen[c].blocks[b] = ContentOf(b)
  BY DEF CurrentView
<1>6. SeenDocuments /\ SeenBlocks
  BY <1>3, <1>5 DEF SeenDocuments, SeenBlocks, TypeOK, Revision
<1>7. \A b \in Blocks : document[b].revision >= StoredRevision[b]
  BY ApiAssumption
<1> QED
  BY <1>1, <1>3, <1>4, <1>6, <1>7 DEF IInv, BlocksOK

\* A delivered input changes one block and no document.
LEMMA DeliverInputIInv ==
    ASSUME IInv, NEW b \in Blocks, NEW i \in Inputs, NEW value \in Dpt[i], NEW now \in Nat,
           DeliverInput(b, i, value, now)
    PROVE  IInv'
<1>1. PICK k \in AfterInput(blocks[b], i, value, now, Unavailable) :
          blocks' = [blocks EXCEPT ![b] = k]
  BY DEF DeliverInput
<1>2. BlockOK(k) /\ k.enabled = blocks[b].enabled /\ k.engine.source = blocks[b].engine.source
  BY AfterInputOK DEF IInv, BlocksOK
<1> QED
  BY <1>1, <1>2, BlockStep DEF DeliverInput

\* An observed input changes one block and no document.
LEMMA ObserveInputIInv ==
    ASSUME IInv, NEW b \in Blocks, NEW i \in Inputs, NEW value \in Dpt[i], NEW now \in Nat,
           ObserveInput(b, i, value, now)
    PROVE  IInv'
<1> DEFINE held == InputHeld(blocks[b].engine, i, [kind |-> "observe", value |-> value], now)
           k    == [blocks[b] EXCEPT !.engine = held]
<1>1. EngineOK(held) /\ held.source = blocks[b].engine.source
  BY HeldOK DEF IInv, BlocksOK, BlockOK
<1>2. blocks' = [blocks EXCEPT ![b] = k]
  BY DEF ObserveInput
<1> HIDE DEF held
<1>3. BlockOK(k) /\ k.enabled = blocks[b].enabled /\ k.engine.source = blocks[b].engine.source
  BY <1>1 DEF IInv, BlocksOK, BlockOK, EngineOK, LogicBlock
<1> HIDE DEF k
<1> QED
  BY <1>2, <1>3, BlockStep DEF ObserveInput

\* A due timer changes one block and no document.
LEMMA ProcessDueTimerIInv ==
    ASSUME IInv, NEW now \in Nat, ProcessDueTimer(now)
    PROVE  IInv'
<1>1. CASE UNCHANGED blocks
  BY <1>1 DEF ProcessDueTimer, IInv, TypeOK, BlocksOK, DocumentMatchesRuntime, SeenDocuments,
              SeenBlocks, ContentOf, Distinct, editVars
<1>2. CASE \E b \in DueBlocks(now) : \E k \in AfterTimer(blocks[b], now, Unavailable) :
              blocks' = [blocks EXCEPT ![b] = k]
  <2>0. PICK b \in Blocks : \E k \in AfterTimer(blocks[b], now, Unavailable) :
            blocks' = [blocks EXCEPT ![b] = k]
    BY <1>2 DEF DueBlocks
  <2>1. PICK k \in AfterTimer(blocks[b], now, Unavailable) : blocks' = [blocks EXCEPT ![b] = k]
    BY <2>0
  <2>2. /\ BlockOK(k) /\ k.enabled = blocks[b].enabled
        /\ k.engine.source = blocks[b].engine.source
    BY AfterTimerOK DEF IInv, BlocksOK
  <2> QED
    BY <2>1, <2>2, BlockStep DEF ProcessDueTimer
<1> QED
  BY <1>1, <1>2 DEF ProcessDueTimer

\* A view hands out the tokens and the content of the present document.
LEMMA ReadIInv ==
    ASSUME IInv, NEW c \in Clients, Read(c)
    PROVE  IInv'
<1>1. CurrentView \in View
  BY DEF IInv, TypeOK, CurrentView, View, ContentOf, Content
<1>2. TypeOK'
  BY <1>1 DEF IInv, TypeOK, Read
<1>3. \A b \in Blocks : ContentOf(b)' = ContentOf(b) /\ Distinct(b)' = Distinct(b)
  BY DEF Read, ContentOf, Distinct
<1>4. /\ seen' = [seen EXCEPT ![c] = CurrentView]
      /\ UNCHANGED <<document_revision, block_revisions>>
  BY DEF Read
<1>5. /\ CurrentView.document_revision = document_revision
      /\ CurrentView.revisions = block_revisions
      /\ \A b \in Blocks : CurrentView.blocks[b] = ContentOf(b)
  BY DEF CurrentView
<1>6. document_revision \in Nat /\ \A b \in Blocks : block_revisions[b] \in Nat
  BY ApiAssumption DEF IInv, TypeOK, Revision
<1>7. SeenDocuments'
  BY <1>3, <1>4, <1>5, <1>6 DEF IInv, TypeOK, SeenDocuments
<1>8. SeenBlocks'
  BY <1>3, <1>4, <1>5, <1>6 DEF IInv, TypeOK, SeenBlocks
<1> QED
  BY <1>2, <1>7, <1>8 DEF IInv, BlocksOK, DocumentMatchesRuntime, Read

\* A resume passes the compare-and-set and changes the health of one block.
LEMMA ResumeIInv ==
    ASSUME IInv, NEW c \in Clients, NEW b \in Blocks, Resume(c, b)
    PROVE  IInv'
<1> DEFINE k == Resumed(blocks[b])
<1>1. BlockOK(k) /\ k.enabled = blocks[b].enabled /\ k.engine.source = blocks[b].engine.source
  BY ResumedOK DEF IInv, BlocksOK
<1>2. blocks' = [blocks EXCEPT ![b] = k] /\ last' = last
  BY DEF Resume
<1> HIDE DEF k
<1> QED
  BY <1>1, <1>2, BlockStep DEF Resume, IInv, TypeOK

\* The revision after n is new unless n was 0 or at the limit.
LEMMA NextRevision ==
    ASSUME NEW n \in Revision, NEW r, r = AtLeast(SaturatingNext(n), 1)
    PROVE  /\ r \in Revision /\ r >= n /\ r >= AtLeast(n, 1)
           /\ r > AtLeast(n, 1) \/ (n = 0 /\ r = 1) \/ r = MaxRevision
<1> DEFINE m == MaxRevision
<1>1. m \in Nat /\ m >= 1 /\ n \in Nat /\ n <= m
  BY ApiAssumption DEF Revision
<1>2. r = IF n < m THEN n + 1 ELSE m
  BY <1>1 DEF AtLeast, SaturatingNext
<1>3. AtLeast(n, 1) = IF n = 0 THEN 1 ELSE n
  BY <1>1 DEF AtLeast
<1> QED
  BY <1>1, <1>2, <1>3 DEF Revision

\* The revision of an edited block grows, but for the top of the range and a stored zero.
LEMMA EditedRevision ==
    ASSUME NEW d, d.revision \in Revision, NEW source, NEW on
    PROVE  LET r == Edited(d, source, on).revision
           IN /\ r \in Revision /\ r >= d.revision /\ r >= AtLeast(d.revision, 1)
              /\ r > AtLeast(d.revision, 1) \/ (d.revision = 0 /\ r = 1) \/ r = MaxRevision
<1>1. Edited(d, source, on).revision = AtLeast(SaturatingNext(d.revision), 1)
  BY DEF Edited
<1> QED
  BY <1>1, NextRevision

\* The document revision grows until it saturates.
LEMMA NewRevisionGrows ==
    ASSUME NEW requested \in Revision, document_revision \in Revision
    PROVE  /\ NewRevision(requested) \in Revision /\ NewRevision(requested) >= document_revision
           /\ NewRevision(requested) > document_revision \/ NewRevision(requested) = MaxRevision
BY ApiAssumption DEF NewRevision, AtLeast, SaturatingNext, Revision

\* An activation installs the edited document and a new runtime, or changes nothing.
LEMMA ActivateIInv ==
    ASSUME IInv, NEW c \in Clients, NEW b \in Blocks, NEW source \in Sources \cup {None},
           NEW on \in {None, "on", "off"}, NEW requested \in Revision,
           Activate(c, b, source, on, requested)
    PROVE  IInv'
<1> DEFINE d      == document[b]
           wanted == IF source = None THEN blocks[b].engine.source ELSE source
           flag   == IF on = None THEN blocks[b].enabled ELSE on = "on"
           edited == Edited(d, IF source = None THEN d.source ELSE source,
                               IF on = None THEN d.enabled ELSE on = "on")
           r      == edited.revision
           now    == [source |-> wanted, enabled |-> flag]
<1>1. /\ d.source = blocks[b].engine.source /\ d.enabled = blocks[b].enabled
      /\ block_revisions[b] = AtLeast(d.revision, 1) /\ BlockOK(blocks[b])
      /\ d.revision \in Revision /\ d.revision >= StoredRevision[b]
  BY DEF IInv, TypeOK, DocumentMatchesRuntime, BlocksOK
<1>2. wanted \in Sources \ Unloadable /\ flag \in BOOLEAN
  BY <1>1 DEF Activate, BlockOK, LogicBlock, EngineOK, Engine
<1>3. edited = [source |-> wanted, enabled |-> flag, revision |-> r]
  BY <1>1 DEF Edited
<1>4. /\ r \in Revision /\ r >= d.revision /\ r >= block_revisions[b]
      /\ r > block_revisions[b] \/ (d.revision = 0 /\ r = 1) \/ r = MaxRevision
  BY <1>1, EditedRevision
<1>5. /\ blocks' = [blocks EXCEPT ![b] = Activated(blocks[b], wanted, flag)]
      /\ document' = [document EXCEPT ![b] = edited]
      /\ document_revision' = NewRevision(requested)
      /\ block_revisions' = [block_revisions EXCEPT ![b] = r]
      /\ seen' = [seen EXCEPT ![c].document_revision = document_revision',
                             ![c].revisions[b] = r,
                             ![c].blocks[b] = [source |-> edited.source,
                                               enabled |-> edited.enabled]]
      /\ last' = last /\ seen[c].document_revision = document_revision
  BY DEF Activate, check_cas
<1>6. edited.source = wanted /\ edited.enabled = flag /\ edited.revision = r
  BY <1>3
<1> HIDE DEF edited, r, wanted, flag
<1>7. /\ BlockOK(Activated(blocks[b], wanted, flag))
      /\ Activated(blocks[b], wanted, flag).enabled = flag
      /\ Activated(blocks[b], wanted, flag).engine.source = wanted
  BY <1>1, <1>2, ActivatedOK
<1>8. /\ document_revision' \in Revision /\ document_revision' >= document_revision
      /\ document_revision' > document_revision \/ document_revision' = MaxRevision
  BY <1>5, NewRevisionGrows DEF IInv, TypeOK
<1>9. ASSUME NEW p \in Clients
      PROVE  /\ seen'[p] \in View
             /\ seen'[p].document_revision = IF p = c THEN document_revision'
                                             ELSE seen[p].document_revision
             /\ seen'[p].revisions = IF p = c THEN [seen[p].revisions EXCEPT ![b] = r]
                                     ELSE seen[p].revisions
             /\ seen'[p].blocks = IF p = c THEN [seen[p].blocks EXCEPT ![b] = now]
                                  ELSE seen[p].blocks
  <2>1. seen \in [Clients -> View] /\ seen[p] \in View
    BY DEF IInv, TypeOK
  <2>2. now \in Content
    BY <1>2 DEF Content
  <2>3. CASE p = c
    <3>1. seen'[p] = [seen[p] EXCEPT !.document_revision = document_revision',
                                     !.revisions = [seen[p].revisions EXCEPT ![b] = r],
                                     !.blocks = [seen[p].blocks EXCEPT ![b] = now]]
      BY <1>5, <1>6, <2>1, <2>3 DEF View
    <3> DEFINE rev  == [seen[p].revisions EXCEPT ![b] = r]
               here == [seen[p].blocks EXCEPT ![b] = now]
    <3> HIDE DEF now
    <3>2. rev \in [Blocks -> Revision] /\ here \in [Blocks -> Content]
      BY <1>4, <2>1, <2>2 DEF View
    <3>3. seen'[p] = [seen[p] EXCEPT !.document_revision = document_revision',
                                     !.revisions = rev, !.blocks = here]
      BY <3>1
    <3> HIDE DEF rev, here
    <3>4. /\ seen'[p] \in View /\ seen'[p].document_revision = document_revision'
          /\ seen'[p].revisions = rev /\ seen'[p].blocks = here
      BY <1>8, <2>1, <3>2, <3>3 DEF View
    <3> QED
      BY <2>3, <3>4 DEF rev, here
  <2>4. CASE p # c
    BY <1>5, <2>1, <2>4
  <2> QED
    BY <2>3, <2>4
<1>10. ASSUME NEW q \in Blocks
       PROVE  ContentOf(q)' = IF q = b THEN now ELSE ContentOf(q)
  BY <1>5, <1>6 DEF ContentOf, IInv, TypeOK
<1>11. TypeOK'
  <2>1. seen' \in [Clients -> View]
    BY <1>5, <1>9 DEF IInv, TypeOK
  <2>2. edited \in [source : Sources \ Unloadable, enabled : BOOLEAN, revision : Revision]
    BY <1>2, <1>3, <1>4
  <2> QED
    BY <1>4, <1>5, <1>7, <1>8, <2>1, <2>2 DEF IInv, TypeOK, BlockOK
<1>12. BlocksOK'
  BY <1>5, <1>7 DEF IInv, TypeOK, BlocksOK
<1>13. DocumentMatchesRuntime'
  <2>1. r = AtLeast(r, 1)
    BY <1>1, <1>4, ApiAssumption DEF AtLeast, Revision
  <2> QED
    BY <1>5, <1>6, <1>7, <2>1 DEF IInv, TypeOK, DocumentMatchesRuntime
<1>14. \A q \in Blocks : document'[q].revision >= StoredRevision[q]
  <2>1. r >= StoredRevision[b]
    BY <1>1, <1>4, ApiAssumption DEF Revision
  <2> QED
    BY <1>5, <1>6, <2>1 DEF IInv, TypeOK
<1>15. SeenDocuments'
  <2> SUFFICES ASSUME NEW p \in Clients
               PROVE  /\ seen'[p].document_revision <= document_revision'
                      /\ seen'[p].document_revision = document_revision'
                            /\ document_revision' < MaxRevision =>
                         \A q \in Blocks : seen'[p].blocks[q] = ContentOf(q)'
    BY DEF SeenDocuments
  <2>1. /\ seen[p].document_revision <= document_revision
        /\ seen[p].document_revision = document_revision /\ document_revision < MaxRevision =>
              \A q \in Blocks : seen[p].blocks[q] = ContentOf(q)
        /\ seen[p].document_revision \in Nat /\ document_revision \in Nat
        /\ seen[p].blocks \in [Blocks -> Content]
    BY ApiAssumption DEF IInv, TypeOK, View, Revision, SeenDocuments
  <2>2. CASE p = c
    <3>1. document_revision' < MaxRevision => document_revision < MaxRevision
      BY <1>8, <2>1, ApiAssumption DEF Revision
    <3>2. /\ seen'[p].document_revision = document_revision'
          /\ seen'[p].blocks = [seen[p].blocks EXCEPT ![b] = now]
      BY <1>9, <2>2
    <3>3. document_revision < MaxRevision =>
              \A q \in Blocks : seen'[p].blocks[q] = ContentOf(q)'
      BY <1>5, <1>10, <2>1, <2>2, <3>2
    <3>4. document_revision' \in Nat
      BY <1>8, ApiAssumption DEF Revision
    <3> QED
      BY <3>1, <3>2, <3>3, <3>4
  <2>3. CASE p # c
    <3>1. seen'[p].document_revision = seen[p].document_revision
      BY <1>9, <2>3
    <3>2. document_revision' \in Nat
      BY <1>8, ApiAssumption DEF Revision
    <3> QED
      BY <1>8, <2>1, <3>1, <3>2
  <2> QED
    BY <2>2, <2>3
<1>16. SeenBlocks'
  <2> SUFFICES ASSUME NEW p \in Clients, NEW q \in Blocks
               PROVE  /\ seen'[p].revisions[q] <= block_revisions'[q]
                      /\ seen'[p].revisions[q] = block_revisions'[q] /\ Distinct(q)' =>
                         seen'[p].blocks[q] = ContentOf(q)'
    BY DEF SeenBlocks
  <2>1. /\ seen[p].revisions[q] <= block_revisions[q]
        /\ seen[p].revisions[q] = block_revisions[q] /\ Distinct(q) =>
              seen[p].blocks[q] = ContentOf(q)
        /\ seen[p].revisions[q] \in Nat /\ block_revisions[q] \in Nat
        /\ block_revisions \in [Blocks -> Revision]
        /\ seen[p].blocks \in [Blocks -> Content] /\ seen[p].revisions \in [Blocks -> Revision]
    BY ApiAssumption DEF IInv, TypeOK, View, Revision, SeenBlocks
  <2>2. CASE q # b
    <3>1. block_revisions'[q] = block_revisions[q] /\ Distinct(q)' = Distinct(q)
      BY <1>5, <2>1, <2>2 DEF Distinct
    <3> QED
      BY <1>9, <1>10, <2>1, <2>2, <3>1
  <2>3. CASE q = b /\ p = c
    <3>1. /\ seen'[p].revisions = [seen[p].revisions EXCEPT ![b] = r]
          /\ seen'[p].blocks = [seen[p].blocks EXCEPT ![b] = now]
      BY <1>9, <2>3
    <3>2. block_revisions'[q] = r /\ ContentOf(q)' = now /\ r \in Nat
      BY <1>4, <1>5, <1>10, <2>1, <2>3, ApiAssumption DEF Revision
    <3> QED
      BY <2>1, <2>3, <3>1, <3>2
  <2>4. CASE q = b /\ p # c
    <3>1. block_revisions'[q] = r /\ seen'[p].revisions[q] = seen[p].revisions[q]
      BY <1>5, <1>9, <2>1, <2>4
    <3>2. r > block_revisions[q] \/ ~Distinct(q)'
      BY <1>1, <1>4, <2>1, <2>4, <3>1, ApiAssumption DEF Distinct, Revision
    <3> QED
      BY <1>4, <2>1, <2>4, <3>1, <3>2 DEF Revision
  <2> QED
    BY <2>2, <2>3, <2>4
<1> QED
  BY <1>11, <1>12, <1>13, <1>14, <1>15, <1>16 DEF IInv

-----------------------------------------------------------------------------
(* Theorems *)

\* Every step of the facade preserves the invariant.
LEMMA NextIInv == IInv /\ [Next]_vars => IInv'
<1> SUFFICES ASSUME IInv, [Next]_vars PROVE IInv'
  OBVIOUS
<1>1. 0..MaxTime \subseteq Nat
  BY ApiAssumption
<1>2. CASE UNCHANGED vars
  BY <1>2 DEF vars, IInv, TypeOK, BlocksOK, DocumentMatchesRuntime, SeenDocuments, SeenBlocks,
              ContentOf, Distinct
<1>3. ASSUME NEW b \in Blocks, NEW i \in Inputs, NEW now \in 0..MaxTime, NEW value \in Dpt[i],
             DeliverInput(b, i, value, now) \/ ObserveInput(b, i, value, now)
      PROVE  IInv'
  BY <1>1, <1>3, DeliverInputIInv, ObserveInputIInv
<1>4. ASSUME NEW now \in 0..MaxTime, ProcessDueTimer(now) PROVE IInv'
  BY <1>1, <1>4, ProcessDueTimerIInv
<1>5. ASSUME NEW c \in Clients, Read(c) PROVE IInv'
  BY <1>5, ReadIInv
<1>6. ASSUME NEW c \in Clients, NEW b \in Blocks, NEW source \in Sources \cup {None},
             NEW on \in {None, "on", "off"}, NEW requested \in Revision,
             Activate(c, b, source, on, requested)
      PROVE  IInv'
  BY <1>6, ActivateIInv
<1>7. ASSUME NEW c \in Clients, NEW b \in Blocks, Resume(c, b) PROVE IInv'
  BY <1>7, ResumeIInv
<1> QED
  BY <1>2, <1>3, <1>4, <1>5, <1>6, <1>7 DEF Next

\* The inductive invariant holds of every reachable state of the runtime facade
\* (operations.rs): document and runtime agree, and tokens handed out name one content.
THEOREM Invariance == Spec => []IInv
BY InitIInv, NextIInv, PTL DEF Spec

\* The types of the adapter's variables.
THEOREM TypeCorrect == Spec => []TypeOK
BY Invariance, PTL DEF IInv

\* activate leaves the document and the runtime in agreement, whatever came before it.
THEOREM DocumentAgreement == Spec => []DocumentMatchesRuntime
BY Invariance, PTL DEF IInv

\* Revisions that check_cas accepts are of what the client saw.
THEOREM TokensNameContentTheorem == Spec => []TokensNameContent
<1>1. IInv => TokensNameContent
  BY DEF IInv, SeenDocuments, SeenBlocks, TokensNameContent, check_cas
<1> QED
  BY <1>1, Invariance, PTL

\* The projection of any block, sent back as a dry run, is the live execution that draws
\* the same numbers.
THEOREM ProjectionReplaysTheorem == Spec => []ProjectionReplays
<1>1. IInv => ProjectionReplays
  <2> SUFFICES ASSUME IInv, NEW b \in Blocks, NEW now \in Times, NEW draw \in Draws
               PROVE  LET e == blocks[b].engine IN
                      /\ \A i \in Inputs : \A value \in Dpt[i] :
                            SimulateInput(e, InputRequest(e, i, value, now), draw)
                                = InputExecution(e, i, value, now, Unavailable, draw)
                      /\ \A n \in Armed(e.timers) :
                            SimulateTimer(e, TimerRequest(e, n, now), draw)
                                = TimerExecution(e, n, now, Unavailable, draw)
    BY DEF ProjectionReplays
  <2> DEFINE e == blocks[b].engine
  <2>1. EngineOK(e)
    BY DEF IInv, BlocksOK, BlockOK
  <2>2. now \in Nat
    BY ApiAssumption DEF Times, IInv, TypeOK
  <2> HIDE DEF e
  <2>3. ASSUME NEW i \in Inputs, NEW value \in Dpt[i]
        PROVE  SimulateInput(e, InputRequest(e, i, value, now), draw)
                 = InputExecution(e, i, value, now, Unavailable, draw)
    <3>1. SimulateInput(e, InputRequest(e, i, value, now), draw)
            = simulate_input_with_state(e, InputScenario(e, i, value, now), e.state,
                                        ProjectedTimers(e), now, draw)
      BY DEF SimulateInput, InputRequest, InputScenario
    <3> QED
      BY <2>1, <2>2, <3>1, ProjectedTimersOK, InputDryRun
  <2>4. \A n \in Armed(e.timers) :
            SimulateTimer(e, TimerRequest(e, n, now), draw)
                = TimerExecution(e, n, now, Unavailable, draw)
    BY <2>1, <2>2, TimerDryRun
  <2> QED
    BY <2>3, <2>4 DEF e
<1> QED
  BY <1>1, Invariance, PTL

\* Random numbers are all that keeps a captured input from replaying: where no handler
\* uses them, every dry run of a projection has the outcome of the event.
THEOREM DrawFreeReplay ==
    ASSUME \A source, view : \A drawn, draw \in Draws :
               Handler(source, view, draw) = Handler(source, view, drawn)
    PROVE  Spec => []CapturedExecutionsReplay
<1>1. ProjectionReplays => CapturedExecutionsReplay
  <2> SUFFICES ASSUME ProjectionReplays, NEW b \in Blocks, NEW now \in Times, NEW i \in Inputs,
                      NEW drawn \in Draws, NEW draw \in Draws, NEW value \in Dpt[i]
               PROVE  SimulateInput(blocks[b].engine,
                                    InputRequest(blocks[b].engine, i, value, now), draw)
                        = InputExecution(blocks[b].engine, i, value, now, Unavailable, drawn)
    BY DEF CapturedExecutionsReplay
  <2> DEFINE e == blocks[b].engine
  <2>1. SimulateInput(e, InputRequest(e, i, value, now), draw)
          = InputExecution(e, i, value, now, Unavailable, draw)
    BY DEF ProjectionReplays
  <2>2. ASSUME NEW source, NEW shown, NEW inputs, NEW state, NEW timers, NEW time
        PROVE  Execution(source, shown, inputs, state, timers, now, time, draw)
                 = Execution(source, shown, inputs, state, timers, now, time, drawn)
    <3>1. \A view : Handler(source, view, draw) = Handler(source, view, drawn)
      OBVIOUS
    <3> QED
      BY <3>1, Zenon DEF Execution
  <2>3. InputExecution(e, i, value, now, Unavailable, draw)
          = InputExecution(e, i, value, now, Unavailable, drawn)
    BY <2>2, Zenon DEF InputExecution
  <2> QED
    BY <2>1, <2>3
<1> QED
  BY <1>1, ProjectionReplaysTheorem, PTL

\* A dry run of a draft is what the next input does once the draft is active, if it draws
\* the same numbers.
THEOREM DraftPredictsActivationTheorem == Spec => []DraftPredictsActivation
<1>1. IInv => DraftPredictsActivation
  <2> SUFFICES ASSUME IInv, NEW b \in Blocks, NEW now \in Times, NEW i \in Inputs,
                      NEW source \in Sources \ Unloadable, source # blocks[b].engine.source,
                      NEW value \in Dpt[i], NEW draw \in Draws
               PROVE  SimulateInput(blocks[b].engine,
                          [InputRequest(blocks[b].engine, i, value, now) EXCEPT
                              !.source = source, !.pending_timers = <<>>], draw)
                        = InputExecution(Activated(blocks[b], source, TRUE).engine, i, value,
                                         now, Unavailable, draw)
    BY DEF DraftPredictsActivation
  <2> DEFINE e     == blocks[b].engine
             draft == activate_source(e, source)
             r     == [InputRequest(e, i, value, now) EXCEPT
                          !.source = source, !.pending_timers = <<>>]
  <2>1. BlockOK(blocks[b]) /\ EngineOK(e) /\ e \in Engine
    BY DEF IInv, BlocksOK, BlockOK, EngineOK
  <2>2. now \in Nat
    BY ApiAssumption DEF Times, IInv, TypeOK
  <2>3. Activated(blocks[b], source, TRUE).engine = draft
    BY DEF Activated
  <2>4. EngineOK(draft)
    <3>1. TRUE \in BOOLEAN
      OBVIOUS
    <3>2. BlockOK(Activated(blocks[b], source, TRUE))
      BY <2>1, <3>1, ActivatedOK
    <3>3. EngineOK(Activated(blocks[b], source, TRUE).engine)
      BY <3>2 DEF BlockOK
    <3> QED
      BY <2>3, <3>3
  <2>5. /\ draft.source = source /\ draft.inputs = e.inputs /\ draft.state = e.state
        /\ draft.timers = NoTimers
    <3>1. draft = [e EXCEPT !.source = source, !.timers = NoTimers]
      BY DEF activate_source
    <3> HIDE DEF draft, e
    <3> QED
      BY <2>1, <3>1 DEF Engine
  <2>6. WithInput(e, i, value, now) = WithInput(draft, i, value, now)
    <3> HIDE DEF e, draft
    <3> QED
      BY <2>5, Zenon DEF WithInput, ProjectedInputs, input_snapshots
  <2>7. /\ r.source = source /\ r.pending_timers = <<>> /\ r.now = now /\ r.state = e.state
        /\ r.inputs = WithInput(e, i, value, now)
        /\ r.trigger = [endpoint |-> i, value |-> value, previous |-> e.inputs[i].value]
    BY DEF InputRequest
  <2> HIDE DEF e, draft, r
  <2>8. SimulateInput(e, r, draw) =
          simulate_input_with_state(draft, InputScenario(draft, i, value, now), draft.state,
                                    <<>>, now, draw)
    <3>1. source # None
      BY ValuesAssumption
    <3>2. InputScenario(draft, i, value, now)
            = [trigger |-> r.trigger, inputs |-> simulation_inputs(r.inputs)]
      BY <2>5, <2>6, <2>7, Zenon DEF InputScenario
    <3>3. SimulateInput(e, r, draw) =
            simulate_input_with_source(e, source, InputScenario(draft, i, value, now), r.state,
                                       r.pending_timers, r.now, draw)
      BY <2>7, <3>1, <3>2, Zenon DEF SimulateInput
    <3>4. source \notin Unloadable
      OBVIOUS
    <3> QED
      BY <2>5, <2>7, <3>3, <3>4, Zenon DEF simulate_input_with_source, draft
  <2>9. validate_pending_timers(<<>>, draft.source) /\ timer_map(<<>>) = draft.timers
    BY <2>5, EmptyTimersOK
  <2>10. SimulateInput(e, r, draw) = InputExecution(draft, i, value, now, Unavailable, draw)
    BY <2>2, <2>4, <2>8, <2>9, InputDryRun
  <2> QED
    BY <2>3, <2>10, Zenon DEF e, r
<1> QED
  BY <1>1, Invariance, PTL
=============================================================================
