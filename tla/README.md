# TLA+ model of LogikSmith

LogikSmith runs small Lua programs ("logic blocks") against a KNX installation.
A portable serial runtime (`crates/logiksmith-core`) owns blocks, timers,
signals and schedules. Two hosts drive it: a desktop host
(`crates/logiksmith-desktop`) from a Tokio event loop, which talks to KNX through
a Python bridge process (`bridges/xknx`) and to browsers through a web server;
and OpenKNX firmware (`logiksmith-openknx`) through a C ABI
(`crates/logiksmith-embedded-abi`). This directory models the parts that keep
state across calls or run concurrently, checks them with TLC on small instances,
and proves the safety invariants and two refinements with TLAPS for every
value of the constants.

## 1. Inventory

| Part | State it keeps | Operations | Interacts with | Hard behaviour | What makes it correct |
|---|---|---|---|---|---|
| Serial runtime (`runtime_*.rs`) | blocks with flag, health, failure counter, rate window; signals; last accepted time | input, observation, timer, schedule, activation, resume | called by the host, one call at a time | depth-first cascade over several blocks that may suspend, fail, or be rolled back as a whole | timers belong to the logic and eligibility of their block; counters and health agree; consumers hold the signal's value; totals within limits |
| Block engine (`engine*.rs`, `state.rs`) | inputs, Lua state, pending timers | one handler execution | runtime | a failing handler must change nothing | effects are applied all or not at all |
| Lua handlers (`lua_*.rs`, `program.rs`) | none between calls | load, execute, convert the result | engine | untrusted results, budgets, random numbers from `math` | only converted results reach the engine |
| Schedule engine (`runtime_impl.rs`, `schedule_rules.rs`) | one cursor per schedule, last wall clock | poll, initialise, rebaseline, activation | host scheduler | wall clock jumps and outages, disabling between polls, coalescing | each occurrence at most once, in order, none lost on duty, none delivered that passed while off |
| Host scheduler (`host_scheduler.rs`) | one sleep | compute wait, drain timers, poll schedules | runtime, session | deadlines that pass while a turn runs, timer storms | no timer or occurrence is overslept; a storm ends |
| Bridge session (`host_runtime.rs`, `host_bridge.rs`, `host_limits.rs`) | lane, write table, health cell, session position | startup, `select!` branches, dispatch, termination | bridge over pipes, other tasks over health and lanes | three concurrent actors, full queues, crashes at any point, late subscription | results attributed, telegrams in order, every failure ends the session |
| XKNX bridge (`bridge.py`) | protocol position | hello, configure, connect, serve, stop | host over stdin and stdout, XKNX | callback before the tunnel is reported ready, loss of the tunnel | the startup sequence of the wire protocol |
| External sources (`external.rs`, webhook in `web_server.rs`) | next poll, staleness deadline, retry count, last values; a card per poll | poll loop, webhook | session over a bounded lane, dashboard | a request that is out when its values expire, failures, a full lane, a refused update | no value is used beyond its staleness; card and input agree; a valid value has run its handler |
| Automation save (`web_automation.rs`, `web_blocks.rs`, `host_requests.rs`) | file, revisions, active document, restart flag | GET, PUT, source, enabled, resume, simulate, activate | session over a lane with a reply, a timeout in one case | the lock ends before the activation begins; two writers of the store; blocks added and removed; restore after a failure; restart | a revision names one logic while its block stays, no logic is replaced unseen, what runs is what is saved unless a restart is asked for |
| Dashboard stream (`diagnostics_store_history.rs`, `web_events.rs`, `dashboard-client.ts`) | journal, broadcast ring; cursor, page, timers of the client | publish, subscribe, stream, poll, reconnect, reduce | browser over SSE and HTTP | lag, lost connections, late snapshots, restarts of the host | no silent gap, the page becomes current |
| Embedded ABI (`embedded-abi/src/lib.rs`) | runtime, document revision | process input, due timer, activate, resume | firmware | all or nothing per call, buffers too small | a revision names one document |
| OpenKNX firmware (`logic_smith_module.cpp` and others) | start-up state, queues, mailbox | loop with four slices, observer, start-up task, admission | KNX stack, HTTP glue, ABI | observer and task run concurrently with the loop; one clock for queued inputs and ticks | no use of a runtime that is being created, queue is FIFO, commands are served |
| Document store (`automation_store.cpp`) | main and temporary file, status, enabled flag | mount, load, save, save and activate | LittleFS, activation callback | every file operation may fail, power may fail between any two | the stored document is atomic and agrees with the running one |
| Runtime API (`logiksmith-runtime-api/src/operations.rs`) | a runtime, its document, document and block revisions | views, edits with compare-and-set, resume, inputs, timers, dry runs | one host, one call at a time; clients hold what they read | revisions that clients choose, saturate or were stored as 0; edits refused after their checks; a projection sent back as a dry run; handlers that draw random numbers | equal revisions mean equal content; document and runtime agree; a dry run of the projection is the live event, if it draws the same numbers |
| Simulation (`host_requests.rs`, `simulation.rs`, `runtime_simulation.rs`, `engine_simulation.rs`) | none: it runs on a clone | dry run of an input, a timer, an occurrence; of the active source or a draft | page, facade, live block | the block runs on between the page's read and its request | it runs what it was sent on the source it names, or answers a conflict |
| Vendored Lua | | | | | not modelled: section 8 |

## 2. Modules

* `LogikRuntime` models `Runtime` of logiksmith-core. Every host call is an
  action: `ObserveInput`, `ProcessInput`, `ProcessSchedule`,
  `ProcessNextDueTimer`, `Activate`, `ResumeBlock`. A call that runs a handler
  starts a cascade, which is modelled one step of `propagate_from_execution` at
  a time: `work` is its call stack, `checkpoint` the clone of the runtime that a
  rollback restores, and `PublishOutput`, `VisitConsumer`, `PropagationReturns`,
  `CommitCascade`, `RollBackCascade`, `CascadeTimeLimit` are its steps. A Lua
  handler is a choice among all results `convert_result` accepts (timer effects,
  a state size, outputs), or a failure. State and source are reduced to their
  sizes, values to a small set. Values of external inputs, execution ids and
  diagnostics are left out. `admitted` is a history of when the executions of a
  block were admitted; the code keeps only what still counts (`window`). An instance
  remembers the last `Remembered` of them, or none when `Remembered` is 0.
* `Schedules` models the schedule engine. A rule is the set of its occurrences
  and `NextOccurrenceAfter` the least one after a time; every wall clock sample
  is arbitrary or absent. `delivered`, `trigger`, `watched` and `missed` are
  history variables for the properties.
* `HostScheduler` composes `Schedules` with the host's sleep, its timer drain and
  its turns. The clock may advance between any two steps of a turn. Timers are
  their due times; what a cascade does to them is nondeterministic.
* `BridgeSession` models the bridge process, the ingress task that reads its
  stdout into a bounded lane, the session task, `PendingWrites` and `HostHealth`.
  Tokio channels, pipes and XKNX are external and modelled by how they are used:
  `try_send` drops when the lane is full, `recv` yields `None` when it is closed
  and empty (the `select!` branch is then disabled), `watch::send` reaches nobody
  when there is no receiver.
* `AutomationSave` models the web handlers that change the automation, the
  activation lane, `apply_activation`, the file and the document part of the
  diagnostic store. A document gives each block it has a revision, a source, a flag
  and a shape (what makes a restart necessary); a block it does not have is `Absent`.
  A PUT edits, adds or removes a block. `MergeAccepts` compares only the blocks that
  the file and the candidate share, as `merge_block_revisions` does. `lives` counts how
  often a block was removed, `lost` the blocks removed since a client last fetched the
  document; both are history variables. A handler is one or two steps: the save
  under the lock, and what it does with the reply. A refused request is a
  stuttering step. A lane that is full reports a failure to `HostHealth` (`fatal`)
  and the session ends when its `select!` takes it; until then it may serve more
  requests.
* `DashboardStream` models the diagnostic journal, the broadcast channel, the
  unfold behind `/api/events` and the browser's client with its reducer. A
  snapshot is the process and the revision it shows. `/api/changes` is not a route
  of the desktop host, so the client's poll gets 404 and falls back to a snapshot.
  `Replay` is what `subscribe` sends first: the journal from the cursor on, or a
  resync.
* `BlockEngine` gives one block without variables: what a live input or timer
  does to it, and the dry runs of the same handler on supplied data. A handler
  runs in a fresh interpreter without clock or I/O, but the sandbox copies the whole
  `math` table (`lua_sandbox.rs`), and Lua seeds `math.random` of every interpreter
  from the clock and an address. Its result is therefore a function of its source, of
  what it is shown and of a draw from `Draws`, chosen anew for every execution (in
  `LogikRuntime` the result is a choice). Whether the rate limit stops an event is a
  choice too. The conversion of values to and from the wire is left out, and a list of
  a request is the function from its positions.
* `RuntimeApi` models the facade of logiksmith-runtime-api over `BlockEngine`:
  `Read`, `Activate`, `Resume`, `DeliverInput`, `ObserveInput`, `ProcessDueTimer`
  are actions, a dry run is an operator of the state and the request. `seen` is
  what each client has read, revisions and contents. `deliver_input` runs one block
  and no cascade, the document revision starts at 0 with every instance, and the
  structural revision never changes while one lives. Live and dry runs have no wall
  clock there.
* `ExternalInputs` models `poll_loop`, the webhook route, the external lane,
  `apply_external_input` and the cards. Time is counted in ticks that no sleep and
  no request timeout is passed over by.
* `EmbeddedAbi` gives the result of every ABI call as a set of outcomes over a
  runtime of one block; it has no variables. `SpscQueue` models the lock-free
  queue of `raw_binding_router.h`, whose push and pop are two steps each, over
  counters that wrap; `BoundedFifo` is its abstract specification. `OpenKnxHost`
  composes the two with the module's loop, the start-up task, the KNX observer and
  the management gate. What the command handler does with a command is external
  to the repository and taken to be the ABI call of its name.
* `AutomationStore` models the device's document store one file operation at a
  time; `PowerFails` may happen in any state and may tear a file that was not
  flushed. `AtomicDocument` is what it
  implements.
* `MC...` modules give the instances. The theorems are in `LogikRuntimeProofs`,
  `SchedulesProofs` (with those of `HostScheduler`), `BridgeSessionProofs`,
  `ExternalInputsProofs`, `RuntimeApiProofs`, `DashboardStreamProofs`,
  `AutomationSaveProofs` and `OpenKnxProofs` (`OpenKnxHost`, `SpscQueue` and
  `AutomationStore`; the store's definitions are named `Store...`, so that one
  module can speak of both).

`TypeOK` of a module (`StoreTypes` in `AutomationStore`) declares what its variables
hold. It is proved for every module that has proofs, except `Schedules` and
`HostScheduler`, where the invariant contains it; it is not among the properties of
the runs.

Operators named `Mutant...` are plausible mistakes in the definition that follows
them. No specification uses one; each makes the property it is listed with fail,
which shows that the run would notice the mistake.

## 3. Runs

| Run | States | Checks | Shows |
|---|---|---|---|
| `runtime_pair` | 1,903,256 | `PendingTimersAreLive`, `SuspensionMatchesCause`, `RateRespected` | two blocks, a signal with two consumer endpoints, a timer each, two revisions, shared limits and a time budget: timers never outlive the logic or the eligibility they were armed under, and flag, health and counter survive failure, suspension and rollback inside a cascade, activation and resume; no interval of the window's length holds more executions of a block than the limit |
| `runtime_diamond` | 190,512 | `ConsumersHoldSignalValue`, `CascadeFits`, `CascadeReturns` | three blocks, two signals that meet: consumers agree with signals, the static cascade bound suffices, cascades end |
| `schedules` | 36,472 | `DeliveredOnceInOrder`, `MissedStaysMissed`, `NoOccurrenceSkipped` | three schedules, two blocks, arbitrary clock samples |
| `host_scheduler` | 935,116 | `NoDeadlineOverslept`, `SchedulesGetTheirPoll` | the one sleep and the bounded drain |
| `bridge` | 78,038 | `WritesAccountedFor`, `TelegramsInOrder`, `FailureEndsSession`, `WritesSettle` | every interleaving of bridge, ingress and session with crashes and full queues |
| `automation_save` | 247,875 | `RevisionNamesOneLogic`, `NoUnseenOverwrite`, `NoRestartMeansRunning`, `AcknowledgedSaveStays`, `SimulationRunsNamedRevision`, `EveryRequestAnswered` | two clients who edit, add and remove blocks, failing activations, ends of the session and a restart |
| `dashboard` | 538,801 | `NoSilentGap`, `ResyncIsUnderWay`, `ViewMatchesCursor`, `EventuallyCurrent` | journal, stream and page with lag, faults and a restart of the host |
| `external` | 1,117,365 | `HeldValueIsFresh`, `CardMatchesInput`, `ValidInputHasRun`, `SilentSourceGoesStale` | a poll of two values and a webhook over a lane of two |
| `openknx` | 672,002 | `LoopOwnsRuntime`, `RefusedOnlyIfOvertaken`, `InputQueueIsFifo`, `EveryCommandServed` | observer, loop, start-up task and management in every interleaving; `SpscQueue` implements `BoundedFifo` |
| `store` | 245,046 | `FailedCallKeepsDocument`, `StoredAndRunningAgree`, `StoreIsAtomic` | every failing file operation and power failure; `AutomationStore` implements `AtomicDocument` |
| `runtime_api` | 117,486 | `ProjectionReplays`, `DraftPredictsActivation`, `TokensNameContent`, `DocumentMatchesRuntime` | a block through inputs, timers, failures, suspension and resume, edited by two clients with document revisions chosen up to the largest: its projection replays and a draft predicts its activation if the same numbers are drawn, equal revisions mean equal content |
| `embedded_failing_timer` (violation) | | `RepeatedFailuresSuspend` | the finding below |

Finding: through the C ABI a due timer whose handler fails is rolled back with its
failure count and its consumed timer (`process_runtime_operation`), so the timer is due
again on the next pass and the block is never suspended, although `runtime_model.rs`
says that five consecutive failures suspend it. `logiksmith_runtime_process_input` keeps
a failed execution.

## 4. Bounds, and where the properties stop

Bounds:

* Runtime: `MaxTime` and `MaxAfter` give timers that are early, exactly due and
  overdue; `Window` (1000 ms) is scaled to one or two units so that executions
  leave it; `FailureThreshold` (5) is scaled to 2, so a success in between and a
  run of failures both happen; `MaxRate` is 2, reached inside one cascade.
  Limits are small enough that a cascade exceeds each of them and is rolled
  back. The diamond's `MaxCascade` is exactly the cascade size, so one
  execution too many would show. Counters and windows are bounded by these
  limits, so the state space is finite without a constraint. For `RateRespected` the
  pair remembers the last three admissions of each block, one more than the limit, and
  its clock reaches the end of the window; the diamond remembers none. The theorem holds
  for histories of any length. One timer name is enough while a block may have one
  timer: a second name would only rename it.
* Schedules: five wall clock values against occurrences at four of them; block 1
  has a rule dense enough to coalesce and a switched-off schedule, block 2 a rule
  that runs out. `MaxDelivered` stops a schedule that has delivered more often
  than it has occurrences.
* Host scheduler: `Cap` < `Day` < `Word` keep the order of 30 s, 86,400 s and
  2^64 ms. Two timers and a batch of two make a full batch with work left.
* Bridge: the lane of three and the write table of two overflow, before and after
  the session listens.
* Save: two saves suffice for a conflict, a withdrawn revision and a second use of
  it, and for a block that is removed and added again, or edited by one client and removed
  unseen by the other; the file starts with two blocks, and an added block comes with
  revision 1 or 2; a lane of two fills; one
  source compiles and is refused by the profile.
* Dashboard: journal and broadcast ring hold one and two updates of five, so a
  client falls behind both; two faults and one restart, in any order.
* External: the poll period, the staleness and the retry delays are a few ticks, in
  the order of their defaults; a lane of two fills with one answer and a webhook.
  `MaxDenied` bounds the updates the runtime does not run.
* OpenKNX: a queue of two under counters that wrap at four, telegrams bound to two
  inputs, slices of one, a program that exceeds the effect buffer and one that does
  not compile; timers are armed for 1 up to `MaxAfter`, since a zero delay is refused.
* Runtime API: `MaxRevision` stands for 2^64 - 1 and is reached; the block is stored
  with revision 0, the harder case. The handlers of the instance arm, cancel and keep
  timers, exceed the state and timer limits and fail; one arms its timer for a delay
  that is drawn from two. Times go up to 2 with delays
  of 1 and 2. That edits of one block tell the readers of another apart is left to
  the theorems, which hold for any number of blocks. The two clients are
  symmetric, and no liveness property is checked there.
* Store: two good documents, a malformed and an oversized one; nothing is counted.

`CHECK_DEADLOCK FALSE` is set where the system really stops: an ended session or
process, and the end of bounded time, saves, faults or revisions.

Some properties name a condition without which the code does not have them. Each
was found by checking the property without it:

* `RateRespected` counts from the last resume or activation of a block, which empty
  its window, and does not count the executions of an event that was rolled back:
  the rollback restores the window with everything else, so a block may run its
  handler more often than the limit when every one of its events is rolled back.
* `ConsumersHoldSignalValue` is checked without a time budget. With
  `HasTimeBudget` set, a cascade stopped by its budget (`runtime_signals.rs`,
  `should_rollback_after_propagation`) leaves a changed signal that its consumers
  never see.
* `NoOccurrenceSkipped` needs a wall clock when a block is re-enabled
  (`ReenableSamples`). Without one, `rebaseline_block_schedules` forgets the last
  sample of all blocks, and the next poll skips what was due for the others.
* `NoDeadlineOverslept` is, for schedules, about a deadline that is still ahead. One
  that passed while another turn ran becomes an enormous unsigned wait (`timer_wait`),
  and the host sleeps for its timers alone.
* `FailureEndsSession` excepts `Unnoticed`: a failure
  reported before the session subscribes has no receiver and mutes all later ones.
  A telegram that XKNX delivers before `ready` ends the session at startup.
* `WritesSettle` lets the bridge stop answering at any point, and the deadline branch
  then ends the session. It does not cover a session that hangs in `send_message`: the
  pipe of the model is unbounded (section 8).
* `MissedStaysMissed` counts as missed what a poll saw pass while its schedule was off.
  Of what passes while a block is off with no poll in between it says nothing.
* `NoRestartMeansRunning`, `AcknowledgedSaveStays` and
  `SimulationRunsNamedRevision` are about saves that do not overlap another
  request. Overlapping handlers write the store in any order, and
  `restore_document` writes back a whole document that another handler has
  replaced. A restored file also frees its revision for another logic
  (`RevisionNamesOneLogic`).
* `RevisionNamesOneLogic` speaks of one life of a block, from its addition to its
  removal. A block that is removed and added again comes with a revision the client
  chose, which may have named other logic before.
* `NoUnseenOverwrite` is about the logic of blocks that stay. `merge_block_revisions`
  compares nothing else: a PUT whose document lacks a block removes it, also one that
  another client added or edited since; one that still has a removed block adds it again;
  and a block that came new to the file may carry by chance the revision that a PUT
  expects, since its client chose it. No document of the repository promises more, so
  these are exceptions and no finding.
* `AcknowledgedSaveStays` ends for a block when a save removes it.
* `NoRestartMeansRunning` and `SimulationRunsNamedRevision` except a session that a
  full lane is about to end (`fatal`). A PUT that finds the lane full has saved its
  file; it does not tell the store, and the session goes on with the old logic until
  its `select!`, which is not biased, takes the failure. The attempt to prove the
  invariant showed this: resumes alone can fill the lane, so no save need overlap.
* `TokensNameContent` excepts a document revision that a client has driven to the
  largest one, if also the block's own revision is at its largest or is the first
  one of a block stored with revision 0, which is 1 before and after its first edit.
* `ProjectionReplays` and `DraftPredictsActivation` compare executions that draw the same
  random numbers. `docs/design-brief.md` (line 152) asks for more: captured executions
  should replay from the event, inputs, state and persistent values. That is
  `CapturedExecutionsReplay`, and the code does not have it: what a handler drew from
  `math.random` is in no projection and no record of its execution, and the dry run's
  interpreter is seeded anew. TLC refutes it on the instance of `runtime_api`, where a
  handler arms a timer for a random delay and the dry run of all that the event started
  from arms it for another. `DrawFreeReplay` proves it for handlers that do not draw.
* `DocumentMatchesRuntime` looks at the facade between calls. An edit checks all it can
  be refused for before it changes anything, so a refused edit is a stuttering step.
* `DraftPredictsActivation` is about a draft sent without timers: a draft with the
  timers of the active source is refused (their revision is not the draft's), and
  activation cancels them.
* `EventuallyCurrent` excepts a page of an earlier process that has seen at least
  as many revisions as the new one has published: it takes every update for an old
  one until the new process has caught up.
* `CardMatchesInput` and `ValidInputHasRun` hold while the runtime takes what it is
  sent: a `Trigger` it refuses or only observes is not sent again.
* `RefusedOnlyIfOvertaken` says which telegrams the firmware loses: those still in
  the queue when `tick` moves the runtime's clock past them.
* `StoredAndRunningAgree` excepts a document saved without activation, and a
  rollback, which sets the enabled flag also when the runtime was not enabled.

## 5. Fairness

* `LogikRuntime`: weak fairness of `CascadeStep`. A cascade is one synchronous
  call; it runs until it returns.
* `HostScheduler`: weak fairness of the two steps of `drain_due_timers`, for the
  same reason. Which outcome a timer has stays free: it may be rolled back every
  time.
* `BridgeSession`: weak fairness of the ingress task and of the session's awaits,
  because Tokio schedules a task that can run, and of the deadline branch, whose
  interval ticks every 100 ms (`WritesSettle` rests on it); strong fairness of the
  two `select!` branches that end a session, because `select!` picks among ready
  branches at random. The bridge, KNX, the operator and other tasks are under no
  fairness.
* `AutomationSave`: weak fairness of every handler, a Tokio task, and of the
  session taking requests from its lane. The end of the session and the restart
  are under none; a session that ends drops the replies of its lane.
* `DashboardStream`: weak fairness of the host's tasks and of the browser's timers
  and callbacks. Updates, faults and restarts are under none.
* `ExternalInputs`: weak fairness of the poll task, of time, of the session and of
  the webhook handler. Nothing is assumed of the polled server.
* `OpenKnxHost`: weak fairness of the loop, of the start-up task and of time.
  Nothing is assumed of the bus, of Wi-Fi or of the clients.

## 6. Proofs

`LogikRuntimeProofs` proves, for any number of blocks, timers and signals, any
wiring and any limits allowed by the named assumptions:

* `TypeCorrect`: `Spec => []TypeOK`;
* `RuntimeInvariant`, from which follow `PendingTimersAreLiveHolds`,
  `TimersAreKeyedByNameHolds`, `SuspensionMatchesCauseHolds` and `RateRespectedHolds`;
* `CascadeInvariant`, from which follows `ConsumersHoldSignalValueHolds`;
* `FitsInvariant`, from which follows `CascadeFitsHolds`.

None of these is inductive as it stands. `RollBackCascade` restores the checkpoint, so
the invariant says the same facts of the live state and, while a cascade runs, of the
checkpoint. `PendingTimersAreLive` needs that a suspended or disabled block has no
timers in either. `RateRespected` compares admissions of any age, but the code keeps
only its window: `AdmissionInv` says that the end of the history is the window of an
active block, and that what is older lies at least `Window` before the last accepted
time (`Aligned`), so whoever finds room in the pruned window is far enough from the
admission `MaxRate` places before (`Spaced`). There is one lemma per action and one step
per conjunct the action disturbs.

`ConsumersHoldSignalValue` speaks of the moments between cascades; inside one,
signals are ahead of their consumers. `CascadeInv` says who may be behind and which
frame of the call stack brings it the value: the frame that still has the consumer to
visit (`Owed`), and only the top one while a visit is under way. A frame could go stale
if the same signal were published again below it; the signals of a stack are different
ones because the wiring can be ranked (`Acyclic`), which is what `detect_signal_cycle`
of `blocks.rs` establishes before a runtime exists. The theorem is stated under
`Acyclic`, and without a time budget (section 4).

`CascadeFits` compares what a cascade does with `CascadeSize`, a recursive function made
of two sums. Three things are proved first. `Total` is the number of pairs of a position
and a number up to its value (`TotalIsWeight`), which makes sums monotone and lets an
element be taken out; this is an induction over the cardinality of the domain, written
with a least counterexample, since the library's induction rules cannot be used.
`CascadeSize` exists and has numbers as values, by the same kind of induction over the
ranks of `Acyclic` (`CascadeSizes`): its definition as a recursive function would say
nothing of a wiring with a cycle. And a frame's `Debt`, what it may still cause, is at most
`CascadeSize` less one when its handler has returned, does not grow when it publishes, and
shrinks by the consumer's `CascadeSize` when it visits one. The invariant gives every frame
of the stack a number of executions within which it returns, the lowest frame at most
`max_cascade_executions`; a call takes its share from the frame that makes it. It needs
`Acyclic` and `WiringAssumption`, and holds with a time budget too.

`SchedulesProofs` proves `DeliveredOnceInOrderHolds` for any rules and any
sequence of wall clock samples, through `EngineInvariant`: everything a schedule
has delivered is at most its `last`, and its `next` is after it. Lemmas give what
`NextOccurrenceAfter` and `Latest` return. `MissedStaysMissedHolds` needs that what
passed while a schedule was off lies before the cursor's `next` (`MissedInvariant`);
the action property `NoOccurrenceSkippedHolds` needs that a cursor passes over nothing
after the latest time it watched (`WatchedInvariant`), and is stated for a host that
has a wall clock whenever a block is re-enabled (section 4).

For the host around it the module proves `NoDeadlineOversleptHolds` and, since every
step of the host is a step of the engine or leaves it alone,
`HostDeliversOnceInOrder`. `NoDeadlineOverslept` is inductive together with the
engine's invariant and the types (`SchedulerInvariant`), because every turn of the host
ends by computing its sleep again; what has to be shown is that `timer_wait` covers every
deadline at that moment: the least of a set of deadlines is one of them, the cast to
`u64` keeps a wait that is not negative, and the clamps only shorten it.

`BridgeSessionProofs` proves `SessionTypeOK`, `WritesAccountedForHolds` and
`TelegramsInOrderHolds` for any capacity of lane and write table and any number of
telegrams, writes and effects, from `SessionInvariant`. A write is in exactly one
place: on stdin, on stdout or in the lane as a result, and while bridge and ingress
live nothing else is pending (`WritesOK`); before the tunnel is up there is no write
and no `ready` on its way (`StartOK`), so a bridge that starts serving finds an empty
table; the numbers of the telegrams in the lane are continued by those in the pipe
(`TelegramsOK`). Lemmas give what appending, taking and concatenating do to the ids in
a queue.

For the document store, `OpenKnxProofs` proves `StoreNeverTorn`, `StoreFailedCall`,
`StoreAgreement` and `StoreImplementsAtomic` for any set of documents, from one
inductive invariant (`StoreInvariant`). The properties speak of the main file
between calls; the invariant says what holds inside one: the main file is the
document of the beginning before the rename and the one being written after it;
the file that a rename installs has been flushed; the copy kept for a rollback is
the document of the beginning; a rollback is under way only after an activation
that failed. The refinement needs it too: each step of a call is shown to be a
step of `AtomicDocument` or to leave its four mapped values alone, one lemma per
action.

For the firmware, it proves `LoopOwnsRuntimeHolds`, `RefusedOnlyIfOvertakenHolds`,
`RevisionNamesDocumentHolds` and `QueueImplementsFifo`, for any capacity of queue and
mailbox, any wrap of the counters that the capacity divides and is below, any programs and
times, from `HostInvariant`. Its parts:

* `StartInv`: the runtime has one owner, the start-up task until it has ended and the
  loop afterwards, and a module that failed has none;
* `QueueInv`: the ring read from its `read` counter on (`Line`) is the item being
  popped, those published and the item being pushed, although the counters wrap; this
  is what maps a step of `SpscQueue` to a step of `BoundedFifo` or to a stutter, one
  lemma per action;
* `OrderInv`, `OvertakenInv`: the events in the ring are in the order of their numbers
  and times, none later than the present, and each one that the runtime's clock has
  passed was overtaken by a tick;
* `RevisionInv`: the revisions named so far are those up to the present one, which
  names the document that runs. It rests on lemmas about every outcome of an ABI call.

`ExternalInputsProofs` proves `HeldValueIsFreshHolds`, `CardMatchesInputHolds` and
`ValidInputHasRunHolds` for any number of polled values, any lane, any periods and
timeouts, from `ExternalInvariant`. The difficulty is the lane between the poll task
and the runtime: the task acts on what it has sent, the inputs change when it is
applied. The invariant therefore speaks of the inputs as they will be once the lane
is applied (`Ends`): they end with what the task believes, unless the runtime has
refused an update; and with no value once the values are stale, even then
(`DeliveryInv`). `HeldValueIsFresh` also needs that age and staleness deadline add up,
and that only a request that is out when the deadline passes makes the values older
(`AgeInv`); `ValidInputHasRun` that an `Observe` in the lane repeats what the input
will hold when its turn comes (`ObserveInv`).

`RuntimeApiProofs` proves `DocumentAgreement` (`DocumentMatchesRuntime`),
`TokensNameContentTheorem`, `ProjectionReplaysTheorem` and
`DraftPredictsActivationTheorem`, for any number of blocks, clients, inputs, timers and
keys, any sources and any handler, whatever it draws. `ProjectionReplaysTheorem` and
`DraftPredictsActivationTheorem` are about equal draws; `DrawFreeReplay` says that the
dry run is the live event whatever either draws, if no handler looks at its draw. They
compare a dry run with a live event of the same engine and need to know what engines are
reachable: timers belong to the source of the block, an input holds a value of its type
together with its time or neither, state and timers are within their limits
(`EngineOK`). One lemma per operator of `BlockEngine` shows that it preserves this.
`TokensNameContent` needs two facts of what clients have read: no revision read is ahead
of the present one, and an equal one stands for the present content (`SeenDocuments`,
`SeenBlocks`).

`DashboardStreamProofs` proves `NoSilentGapTheorem`, `ResyncTheorem`
(`ResyncIsUnderWay`) and `CursorTheorem` (`ViewMatchesCursor`), for any capacity of
journal, broadcast ring and connection and any number of faults and restarts.
`NoSilentGap` speaks of the moment the page applies an event; the invariant follows
an update from the journal to the page: the journal is a run of revisions up to the
present one (`JournalOK`), the replay ends just before the first update taken from
the ring (`ReplayOK`), and what is on the wire, up to its first resync, continues
the page's cursor without a gap and is continued by the replay (`Chained`), unless
the page polls, which replaces its cursor.

`AutomationSaveProofs` proves `RevisionNamesOneLogicTheorem`, the action property
`NoUnseenOverwriteTheorem`, `NoRestartMeansRunningTheorem`,
`AcknowledgedSaveStaysTheorem` and `SimulationRunsNamedRevisionTheorem`, for any number
of blocks, clients, saves and restarts and any lane, with blocks added and removed at
any time. The invariant has two halves. One holds however requests interleave: every
document in use, in the file, the store, a handler, the lane or a browser, was saved
(`AllSaved`), the file holds the newest revision of the present life of every block, and
what a client knows of a block not removed since belongs to that life, until a file is
restored (`FileIsNewest`), and a queued activation belongs to one waiting handler or to
a PUT that has given up (`LaneOK`). The other holds while saves do not overlap: one
handler has the file, and what it would restore still holds every acknowledged revision
(`OneSaver`); an activation that was given up is ahead of the one of the handler that
saves (`LaneInOrder`), which is why a late activation cannot undo a newer one; and the
runtime runs the active document and, once a mutation was refused, exactly what its
handler will restore (`SessionRuns`). The order matters: a PUT that timed out may still
be queued when the next save begins.

The inductive invariants were checked with TLC, on the instances of the runs, before
they were proved.

Assumptions: `SizesAssumption`, `SignalsAssumption`, `LimitsAssumption`,
`WiringAssumption` of `LogikRuntime` (what `validate_with_limits` accepts),
`ScheduleAssumption` of `Schedules`, `BridgeAssumption` of `BridgeSession` (bounds are
numbers, the lane has room), `StoreAssumption` of `AutomationStore`, `EngineAssumption`
and `ValuesAssumption` of `BlockEngine` (finitely many timer names, "no value" is not a
value, an execution draws something), `ApiAssumption` of `RuntimeApi` (the document
loads), `DashboardAssumption` of `DashboardStream` (capacities are positive) and
`DocumentAssumption` of `AutomationSave` (the first document is one, with revisions from
1 on, since the desktop host reads a 0 as 1 everywhere; the blocks a client may add have
them too; no source or shape stands for a block that is not there; the lane has room),
`HostSchedulerAssumption` of `HostScheduler` (the order of the cap, a day and 2^64 ms),
`PollAssumption` of `ExternalInputs` (what the configuration accepts: the timeout is at
most the period and the staleness at least; `PollOrder` lists the values of the poll),
`AbiAssumption` of `EmbeddedAbi` (the built-in source loads, a timer's longest delay is
not zero), `QueueAssumption` of `SpscQueue` (the wrap of the counters is a multiple of
the capacity, as 2^32 is of 16) and `HostAssumption` of `OpenKnxHost` (capacities are
positive; the queue can hold every event). TLC evaluates them in the runs.

Only proved, and in no run: `RevisionNamesDocument`, `StoreNeverTorn`,
`TimersAreKeyedByNameHolds` and `HostDeliversOnceInOrder`. Only model-checked: the
liveness properties, since fairness is out of the prover's reach. Every invariant, every action property and both refinements of the passing runs
have a theorem.

## 7. Plan

Done, in order of importance: `LogikRuntime` and its proofs, `Schedules` and its
proofs, `BridgeSession` and its proofs, `HostScheduler`, `AutomationSave` and its proofs,
`ExternalInputs`, `DashboardStream` and its proofs, `OpenKnxHost` with `EmbeddedAbi`
and `SpscQueue`, `AutomationStore` with its refinement and proofs, `BlockEngine`,
`RuntimeApi` and its proofs, then the proofs of `HostScheduler`, `OpenKnxHost` with the
refinement of `BoundedFifo`, `ExternalInputs`, and the cascade limit of `LogikRuntime`.

Worth adding next: the projections and the wire format of the embedded ABI, the dry run of
a schedule occurrence, and a bridge that stops reading its stdin (section 8).

## 8. Not modelled

* The records and projections of the diagnostics store beyond revisions, active
  document and cards; rendering in the browser; routes that only read.
* Of the runtime API: the wire format of values and documents, and the validation of
  a document when the facade is built.
* Of the simulation: the dry run of a schedule occurrence, and how the desktop host
  and the C ABI complete a request from the live block.
* Parsing and validation of configuration and automation files, which produce the
  constants of these models.
* `next_occurrence_after` is modelled by its result; time zones, daylight saving
  and solar positions are calendar data and floating point.
* Of the embedded ABI: dry runs, byte projections and creation from a document. Of the
  firmware: device configuration, OTA after its start, static assets, the byte
  transport, and the wrap of `millis()`, after which the runtime refuses every call.
* A bridge that neither reads its stdin nor exits: the pipe is unbounded.
* Lua, Tokio, XKNX, LittleFS, the browser and the operating system are external and
  modelled by how the code uses them.
