----------------------------- MODULE OpenKnxHost -----------------------------
(***************************************************************************)
(* The LogicSmith module of the OpenKNX firmware: the raw KNX observer     *)
(* that feeds the input queue, the module's loop with its four bounded     *)
(* slices (inputs, timers, outputs, one management command), the task that *)
(* creates the Rust runtime, and the admission gate of the management      *)
(* server.  The runtime behind the ABI is that of EmbeddedAbi.             *)
(*                                                                         *)
(* The queue is written for an observer on another task, so the observer   *)
(* may run between any two steps of the loop.  HTTP requests are admitted  *)
(* between steps of the loop too.                                          *)
(*                                                                         *)
(* An operator named Mutant... is a plausible mistake in the definition    *)
(* that follows it; no specification uses it.                              *)
(***************************************************************************)
EXTENDS EmbeddedAbi, SpscQueue, Functions

CONSTANTS
    OutputCapacity,    \* kOutputQueueCapacity
    EffectCapacity,    \* kEffectCapacity
    Slice,             \* inputs and outputs of one pass
    Grace,             \* kRuntimeStartupGraceMs
    Dynamic,           \* kHttpMaxDynamicRequests
    Fanout,            \* input bindings of the telegrams' address
    MaxMillis, MaxTelegrams, MaxEdits     \* bounds of the model

ASSUME HostAssumption ==
    /\ OutputCapacity \in Nat \ {0} /\ EffectCapacity \in Nat /\ Slice \in Nat \ {0}
    /\ Grace \in Nat /\ Dynamic \in Nat \ {0} /\ Fanout \in Nat \ {0}
    /\ MaxMillis \in Nat /\ MaxTelegrams \in Nat /\ MaxEdits \in Nat
    /\ [id : 1..(MaxTelegrams * Fanout), at : 0..MaxMillis] \subseteq Items

VARIABLES
    millis,     \* milliseconds since the reset that led to Init; its wrap is left out
    boot,       \* the module's start-up state
    task,       \* the task that creates the runtime
    handle,     \* _runtime: NoHandle, or what the ABI returned
    pc, popped, \* where the loop is; inputs popped in this pass
    outputs,    \* how many values the output queue holds
    ingress,    \* the telegram the observer is delivering: its time, its bindings left
    mailbox, current, inFlight, programming,    \* the management server
    telegrams, edits,                   \* counters for the bounds
    trace       \* history, see TypeOK

NoHandle  == [document_revision |-> 0]
NoCommand == [op |-> None]

startVars == <<boot, task>>
loopVars  == <<pc, popped, outputs>>
webVars   == <<mailbox, current, inFlight, programming, edits>>
busVars   == <<ingress, telegrams>>
vars == <<millis, startVars, handle, loopVars, webVars, busVars, queueVars, trace>>

\* What a management request asks of the runtime.
Command ==
    [op : {"activate", "resume", "get"}, source : Sources \cup {None},
     enabled : {None, "on", "off"}, document_revision : Nat \cup {Any},
     block_revision : Sources \cup {Any}]

\* trace.overtaken  inputs on their way to the runtime that a tick has overtaken
\* trace.wronged    an input was refused as too old that no tick had overtaken
\* trace.named      the document each revision was first seen with
\* trace.streak     handler failures since the last success or activation
TypeOK ==
    /\ millis \in 0..MaxMillis
    /\ boot \in [status : {"idle", "starting", "initialized", "active", "failed"},
                 pending : {"no", "deferred", "now"}, failed : BOOLEAN, hook : BOOLEAN,
                 processor : {"disabled", "abi", "none"}]
    /\ task \in {"none", "running", "created", "unavailable", "done"}
    /\ handle \in Handle \cup {NoHandle}
    /\ pc \in {"top", "inputs", "tick", "drain", "manage", "handle"} /\ popped \in 0..Slice
    /\ outputs \in 0..OutputCapacity
    /\ ingress \in [at : 0..MaxMillis, left : 0..Fanout]
    /\ mailbox \in Seq(Command) /\ Len(mailbox) <= Dynamic /\ current \in Command \cup {NoCommand}
    /\ inFlight \in 0..Dynamic /\ programming \in BOOLEAN
    /\ telegrams \in 0..MaxTelegrams /\ edits \in 0..MaxEdits

Fresh ==
    [overtaken |-> {}, wronged |-> FALSE, named |-> <<Document(Created.runtime)>>, streak |-> 0]

\* setup: a recovery boot, after a panic or a watchdog reset, never starts Rust;
\* a clean boot starts it, at once or, with OTA configured, when OTA is ready.
Setup(pending) ==
    [status |-> "idle", pending |-> pending, failed |-> pending = "no", hook |-> FALSE,
     processor |-> "disabled"]

Idle == [at |-> 0, left |-> 0]

\* A reset of any kind starts a new behaviour: nothing of the module survives it.
Init ==
    /\ millis = 0
    /\ boot \in {Setup(pending) : pending \in {"no", "deferred", "now"}}
    /\ task = "none" /\ handle = NoHandle
    /\ pc = "top" /\ popped = 0 /\ outputs = 0
    /\ ingress = Idle /\ telegrams = 0
    /\ mailbox = <<>> /\ current = NoCommand /\ inFlight = 0 /\ programming = FALSE
    /\ edits = 0 /\ trace = Fresh
    /\ QueueInit

-----------------------------------------------------------------------------
(* The KNX observer: RawBindingRouter::ingest *)

\* A telegram whose address is bound; others, and malformed ones, are counted only.
TelegramArrives ==
    /\ boot.hook /\ ingress.left = 0 /\ telegrams < MaxTelegrams
    /\ ingress' = [at |-> millis, left |-> Fanout]
    /\ telegrams' = telegrams + 1
    /\ UNCHANGED <<millis, startVars, handle, loopVars, webVars, queueVars, trace>>

Arriving == (telegrams - 1) * Fanout + Fanout - ingress.left + 1

\* One event for each input binding of the address, until the queue is full.
Ingest ==
    /\ ingress.left > 0 /\ pushing = NoItem
    /\ \/ /\ PushCopies([id |-> Arriving, at |-> ingress.at])
          /\ UNCHANGED ingress
       \/ /\ IsFull
          /\ ingress' = Idle
          /\ UNCHANGED queueVars
    /\ UNCHANGED <<millis, startVars, handle, loopVars, webVars, telegrams, trace>>

Ingested ==
    /\ PushPublishes
    /\ ingress' = IF ingress.left = 1 THEN Idle ELSE [ingress EXCEPT !.left = @ - 1]
    /\ UNCHANGED <<millis, startVars, handle, loopVars, webVars, telegrams, trace>>

-----------------------------------------------------------------------------
(* Starting the runtime *)

\* process_wifi_ota: Wi-Fi is connected and OTA begins; later it changes nothing here.
OtaBegins ==
    /\ boot.pending = "deferred"
    /\ boot' = [boot EXCEPT !.pending = "now"]
    /\ UNCHANGED <<millis, task, handle, loopVars, webVars, busVars, queueVars, trace>>

MutantStarting == boot.pending = "now"
\* A deferred start waits no longer than the grace period.
Starting == boot.pending = "now" \/ (boot.pending = "deferred" /\ millis >= Grace)

\* start_runtime: the task is created, or is not.
StartRuntime ==
    /\ pc = "top" /\ Starting
    /\ \/ /\ boot' = [boot EXCEPT !.pending = "no", !.status = "starting"]
          /\ task' = "running"
       \/ /\ boot' = [boot EXCEPT !.pending = "no", !.status = "failed"]
          /\ UNCHANGED task
    /\ UNCHANGED <<millis, handle, loopVars, webVars, busVars, queueVars, trace>>

\* runtime_start_task, concurrently with the loop: AbiRuntimeProcessor::start
\* creates a runtime and stores its handle, or fails ...
TaskCreates ==
    /\ task = "running"
    /\ \/ handle' = Created /\ task' = "created"
       \/ UNCHANGED handle /\ task' = "unavailable"
    /\ UNCHANGED <<millis, boot, loopVars, webVars, busVars, queueVars, trace>>

\* ... and the task publishes the outcome and ends.
TaskEnds ==
    /\ task \in {"created", "unavailable"}
    /\ task' = "done"
    /\ boot' = [boot EXCEPT !.status = IF task = "created" THEN "initialized" ELSE "failed"]
    /\ UNCHANGED <<millis, handle, loopVars, webVars, busVars, queueVars, trace>>

MutantStatusSeen(b) ==
    IF b.status \in {"starting", "initialized"}
    THEN [b EXCEPT !.status = "active", !.processor = "abi", !.hook = TRUE]
    ELSE IF b.status = "failed"
    THEN [b EXCEPT !.status = "active", !.processor = "none", !.failed = TRUE]
    ELSE b
\* The loop notices the outcome.  A release image has no runtime but the ABI's.
StatusSeen(b) ==
    IF b.status = "initialized"
    THEN [b EXCEPT !.status = "active", !.processor = "abi", !.hook = TRUE]
    ELSE IF b.status = "failed"
    THEN [b EXCEPT !.status = "active", !.processor = "none", !.failed = TRUE]
    ELSE b

\* The pass ends here while the runtime is not running.
LoopBegins ==
    /\ pc = "top" /\ ~Starting
    /\ boot' = StatusSeen(boot)
    /\ pc' = IF boot'.status = "active" /\ ~boot'.failed THEN "inputs" ELSE "top"
    /\ popped' = 0
    /\ UNCHANGED <<millis, task, handle, outputs, webVars, busVars, queueVars, trace>>

-----------------------------------------------------------------------------
(* The slices of a pass *)

\* copy_endpoint and encode_value: an effect whose name or value has no form on the
\* bus, or that no output is bound to, is left out.
Routed(effects) == 0..effects

\* enqueue_output for every effect: one that finds the queue full is dropped.
Enqueued(queued, n) == IF queued + n > OutputCapacity THEN OutputCapacity ELSE queued + n

\* The history of a call's result.
Traced(t, r) ==
    [t EXCEPT !.streak =
        IF r.status = "LogicError" THEN (IF @ < Threshold THEN @ + 1 ELSE @)
        ELSE IF r.status = "Ok" /\ r.handle.runtime.failures = 0 THEN 0 ELSE @]

PopInput ==
    /\ pc = "inputs" /\ popped < Slice
    /\ PopCopies
    /\ UNCHANGED <<millis, startVars, handle, loopVars, webVars, busVars, trace>>

\* AbiRuntimeProcessor::process_input: a call that does not return Ok is dropped.
\* LoopOwnsRuntime says why its check for a missing runtime never fires.
ProcessInput ==
    /\ pc = "inputs"
    /\ PopReleases
    /\ popped' = popped + 1
    /\ \E r \in logiksmith_runtime_process_input(handle, popping.at, EffectCapacity) :
          /\ handle' = r.handle
          /\ \E n \in Routed(r.effects) : outputs' = Enqueued(outputs, n)
          /\ trace' = [Traced(trace, r) EXCEPT
                          !.overtaken = @ \ {popping.id},
                          !.wronged = @ \/ /\ r.status = "TimeWentBackwards"
                                           /\ popping.id \notin trace.overtaken]
    /\ UNCHANGED <<millis, startVars, pc, webVars, busVars>>

InputsDone ==
    /\ pc = "inputs" /\ popping = NoItem
    /\ popped = Slice \/ IsEmpty
    /\ pc' = "tick"
    /\ UNCHANGED <<millis, startVars, handle, popped, outputs, webVars, busVars, queueVars,
                   trace>>

OnTheirWay ==
    {item.id : item \in Range(Published)}
        \cup (IF ingress.left > 0 THEN Arriving..(telegrams * Fanout) ELSE {})

\* AbiRuntimeProcessor::tick: one due timer at most.
Tick ==
    /\ pc = "tick"
    /\ pc' = "drain"
    /\ \E r \in logiksmith_runtime_process_due_timer(handle, millis, EffectCapacity) :
          /\ handle' = r.handle
          /\ \E n \in Routed(r.effects) : outputs' = Enqueued(outputs, n)
          /\ trace' = [Traced(trace, r) EXCEPT !.overtaken = @ \cup OnTheirWay]
    /\ UNCHANGED <<millis, startVars, popped, webVars, busVars, queueVars>>

\* drain_outputs: each value is sent, or its sending fails; it leaves the queue
\* either way.
DrainOutputs ==
    /\ pc = "drain"
    /\ pc' = "manage"
    /\ outputs' = IF outputs < Slice THEN 0 ELSE outputs - Slice
    /\ UNCHANGED <<millis, startVars, handle, popped, webVars, busVars, queueVars, trace>>

-----------------------------------------------------------------------------
(* The management server *)

\* Edits of one field, and the other requests; a client names a revision it has
\* read, or none.
Requests ==
    LET Request(op, source, enabled, revision) ==
            [op |-> op, source |-> source, enabled |-> enabled,
             document_revision |-> revision, block_revision |-> Any]
    IN {Request("activate", source, None, n) :
            source \in Sources, n \in {Any} \cup 1..handle.document_revision}
       \cup {Request("activate", None, on, Any) : on \in {"on", "off"}}
       \cup {Request(op, None, None, Any) : op \in {"resume", "get"}}

is_mutation(c) == c.op \notin {"get", None}

\* accept: a mutation needs programming mode now; a full gate answers 503.
Admits(c) ==
    /\ is_mutation(c) => programming
    /\ inFlight < Dynamic /\ Len(mailbox) < Dynamic

Accept ==
    /\ edits < MaxEdits
    /\ \E c \in Requests :
          /\ Admits(c)
          /\ mailbox' = Append(mailbox, c)
    /\ inFlight' = inFlight + 1 /\ edits' = edits + 1
    /\ UNCHANGED <<millis, startVars, handle, loopVars, current, programming, busVars,
                   queueVars, trace>>

\* set_programming_mode, by the button of the device.
SetProgrammingMode ==
    /\ programming' = ~programming
    /\ UNCHANGED <<millis, startVars, handle, loopVars, mailbox, current, inFlight, edits,
                   busVars, queueVars, trace>>

\* process_one, the last slice of a pass: one command is popped ...
ManagePops ==
    /\ pc = "manage"
    /\ \/ /\ mailbox = <<>>
          /\ pc' = "top"
          /\ UNCHANGED <<mailbox, current>>
       \/ /\ mailbox # <<>>
          /\ pc' = "handle" /\ current' = Head(mailbox) /\ mailbox' = Tail(mailbox)
    /\ UNCHANGED <<millis, startVars, handle, popped, outputs, inFlight, programming, edits,
                   busVars, queueVars, trace>>

\* The command handler, which the firmware's glue supplies.
Handled(h, c) ==
    CASE c.op = "activate" -> logiksmith_runtime_activate(h, c).handle
      [] c.op = "resume"   -> logiksmith_runtime_resume(h, c).handle
      [] c.op = "get"      -> h

\* ... handled, and its place in the gate given back.
ManageHandles ==
    /\ pc = "handle"
    /\ pc' = "top" /\ current' = NoCommand /\ inFlight' = inFlight - 1
    /\ handle' = Handled(handle, current)
    /\ trace' = [trace EXCEPT
                    !.streak = IF is_mutation(current) THEN 0 ELSE @,
                    !.named = IF handle'.document_revision > Len(@)
                              THEN Append(@, Document(handle'.runtime)) ELSE @]
    /\ UNCHANGED <<millis, startVars, popped, outputs, mailbox, programming, edits, busVars,
                   queueVars>>

-----------------------------------------------------------------------------
TimePasses ==
    /\ millis < MaxMillis
    /\ millis' = millis + 1
    /\ UNCHANGED <<startVars, handle, loopVars, webVars, busVars, queueVars, trace>>

\* processBeforeRestart, between two passes; the device then resets.
BeforeRestart ==
    /\ pc = "top" /\ ~boot.failed
    /\ handle' = NoHandle
    /\ boot' = [boot EXCEPT !.processor = "none", !.failed = TRUE]
    /\ UNCHANGED <<millis, task, loopVars, webVars, busVars, queueVars, trace>>

Observer == TelegramArrives \/ Ingest \/ Ingested
InitTask == TaskCreates \/ TaskEnds
Loop ==
    \/ StartRuntime \/ LoopBegins
    \/ PopInput \/ ProcessInput \/ InputsDone
    \/ Tick \/ DrainOutputs
    \/ ManagePops \/ ManageHandles

Next ==
    \/ Observer \/ InitTask \/ Loop
    \/ OtaBegins \/ Accept \/ SetProgrammingMode \/ TimePasses \/ BeforeRestart

\* The loop and the start-up task are scheduled again and again, and time passes.
\* Nothing is assumed of the bus, of Wi-Fi or of the clients.
Fairness == WF_vars(Loop) /\ WF_vars(InitTask) /\ WF_vars(TimePasses)

Spec == Init /\ [][Next]_vars /\ Fairness

-----------------------------------------------------------------------------
(* Properties *)

\* RawBindingRouter's input queue hands every event it accepted to the loop once,
\* unchanged and in order, whatever the observer does between two steps of pop and
\* however often the counters wrap.
InputQueueIsFifo == Fifo!Spec

\* logic_smith_module.cpp loop: while a slice of a pass runs, the runtime exists and
\* the start-up task, which writes the same handle without a lock, has ended.
LoopOwnsRuntime == pc # "top" => handle # NoHandle /\ task = "done"

\* tick passes millis() to the runtime on every pass and so moves its clock past
\* inputs that still wait: those, and no others, are refused as TimeWentBackwards.
RefusedOnlyIfOvertaken == ~trace.wronged

\* A document revision names one document from the moment it first appears: an edit
\* that expects a revision edits what its client read.
RevisionNamesDocument ==
    handle # NoHandle =>
        trace.named[handle.document_revision] = Document(handle.runtime)

\* Every request the gate admitted, before the runtime is up or after, is served
\* unless start-up failed: Wi-Fi that never comes up only delays it by the grace
\* period, and a burst of telegrams or timers does not starve the last slice.
EveryCommandServed ==
    \A n \in 1..MaxEdits :
        edits >= n ~> (edits - Len(mailbox) >= n \/ boot.failed)

\* core/runtime_model.rs: "Five consecutive live execution failures suspend one
\* block"; here as the host sees them, from the statuses of its calls.
RepeatedFailuresSuspend ==
    handle # NoHandle /\ trace.streak >= Threshold =>
        handle.runtime.health = "SuspendedScriptFailures"
=============================================================================
