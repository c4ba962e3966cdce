--------------------------- MODULE BridgeSession ---------------------------
(***************************************************************************)
(* One session of the desktop host with the XKNX bridge: the bridge        *)
(* process, the ingress task that reads its stdout into a bounded lane,    *)
(* the serial session task, the table of KNX writes in flight, and the     *)
(* health cell through which any task may end the process.                 *)
(*                                                                         *)
(* The three run concurrently.  A turn of the session task that dispatches *)
(* effects awaits the write of each, so the other two run in between, but  *)
(* no other branch of its select! does.                                    *)
(*                                                                         *)
(* An operator named Mutant... is a plausible mistake in the definition    *)
(* that follows it; no specification uses it.                              *)
(***************************************************************************)
EXTENDS Integers, Sequences, FiniteSets, Functions

CONSTANTS
    LaneCapacity,       \* knx_ingress_queue
    PendingLimit,       \* pending_knx_writes
    MaxTelegrams,       \* bound of the model: telegrams of one session
    MaxWrites,          \* bound of the model: KNX writes of one session
    MaxEffects          \* KNX writes of one turn

ASSUME BridgeAssumption ==
    /\ LaneCapacity \in Nat \ {0} /\ PendingLimit \in Nat
    /\ MaxTelegrams \in Nat /\ MaxWrites \in Nat /\ MaxEffects \in Nat

VARIABLES
    bridge,     \* where the bridge process is
    stdout,     \* lines the bridge wrote and the ingress task has not read
    stdin,      \* lines the host wrote and the bridge has not read
    telegrams,  \* telegrams the bridge has passed on so far
    ingress,    \* "reading", or "stopped" when the ingress task has returned
    lane,       \* the bounded channel from the ingress task to the session
    session,    \* where the session task is
    result,     \* why it ended
    toSend,     \* effects the running turn has still to dispatch
    pending,    \* PendingWrites: request ids in flight
    nextId,     \* next_request_id
    handled,    \* telegrams the session has processed
    health      \* [ready, fatal, notified]: HostHealth and its watch channel

hostVars   == <<session, result, toSend, pending, nextId, handled>>
bridgeVars == <<bridge, stdout, stdin, telegrams>>
laneVars   == <<ingress, lane>>
vars       == <<hostVars, bridgeVars, laneVars, health>>

Msg(type, id) == [type |-> type, id |-> id]
Hello     == Msg("bridge_hello", 0)
Configure == Msg("configure", 0)
Ready     == Msg("ready", 0)
Fatal     == Msg("fatal", 0)
Garbled   == Msg("garbled", 0)      \* a line cut short by a crash
Shutdown  == Msg("shutdown", 0)
Eof       == Msg("eof", 0)          \* BridgeIngress::Eof
Error     == Msg("error", 0)        \* BridgeIngress::Error

\* The ids of the messages of one type in a queue.
Ids(s, type) == {m.id : m \in {x \in Range(s) : x.type = type}}
Results(s)   == Ids(s, "command_result")
Writes(s)    == Ids(s, "knx_write")
IsEvent(m)   == m.type = "knx_event"

-----------------------------------------------------------------------------
\* HostHealth

\* fail: only the first reason is kept, and watch::send reaches no receiver
\* when none has subscribed.
Listening == session = "running"
Failed(h) ==
    IF h.fatal THEN h
    ELSE [ready |-> FALSE, fatal |-> TRUE, notified |-> Listening]

MarkReady(h) == IF h.fatal THEN h ELSE [h EXCEPT !.ready = TRUE]

-----------------------------------------------------------------------------
\* The bridge process (bridge.py).  Its stdout is broken once the ingress task
\* has returned: a telegram is then lost, a result or a fatal message ends it.

WriteLine(m) == stdout' = IF ingress = "reading" THEN Append(stdout, m) ELSE stdout

BridgeHello ==
    /\ bridge = "started"
    /\ bridge' = "hello"
    /\ WriteLine(Hello)
    /\ UNCHANGED <<stdin, telegrams, hostVars, laneVars, health>>

BridgeConfigured ==
    /\ bridge = "hello"
    /\ stdin # <<>>
    /\ stdin' = Tail(stdin)
    /\ IF Head(stdin) = Configure
       THEN bridge' = "connecting" /\ UNCHANGED stdout
       ELSE bridge' = "exited" /\ WriteLine(Fatal)
    /\ UNCHANGED <<telegrams, hostVars, laneVars, health>>

\* _make_xknx returns: the tunnel is up.
BridgeConnected ==
    /\ bridge = "connecting"
    /\ bridge' = "serving"
    /\ WriteLine(Ready)
    /\ UNCHANGED <<stdin, telegrams, hostVars, laneVars, health>>

\* telegram_received; the callback is registered before xknx.start() and is
\* live until _stop_xknx has disconnected the tunnel.
TelegramReceived ==
    /\ bridge \in {"connecting", "serving", "stopping"}
    /\ telegrams < MaxTelegrams
    /\ telegrams' = telegrams + 1
    /\ WriteLine(Msg("knx_event", telegrams + 1))
    /\ UNCHANGED <<bridge, stdin, hostVars, laneVars, health>>

\* The read_task of _serve: one command of the host.
MutantResultRepeated ==
    /\ bridge = "serving"
    /\ stdin # <<>> /\ Head(stdin).type = "knx_write"
    /\ stdin' \in {stdin, Tail(stdin)}
    /\ WriteLine(Msg("command_result", Head(stdin).id))
    /\ UNCHANGED <<bridge, telegrams, hostVars, laneVars, health>>
BridgeServes ==
    /\ bridge = "serving"
    /\ stdin # <<>>
    /\ stdin' = Tail(stdin)
    /\ \/ /\ Head(stdin).type = "knx_write"
          /\ WriteLine(Msg("command_result", Head(stdin).id))
          /\ bridge' = IF ingress = "reading" THEN bridge ELSE "exited"
       \/ /\ Head(stdin) = Shutdown
          /\ bridge' = "stopping"
          /\ UNCHANGED stdout
    /\ UNCHANGED <<telegrams, hostVars, laneVars, health>>

\* The tunnel cannot be established (XKNX is stopped first) or is lost (it is
\* stopped on the way out): one fatal message, then exit.
BridgeGivesUp ==
    /\ \/ bridge = "connecting" /\ bridge' = "exited"
       \/ bridge = "serving" /\ bridge' = "stopping"
    /\ WriteLine(Fatal)
    /\ UNCHANGED <<stdin, telegrams, hostVars, laneVars, health>>

\* _stop_xknx is done, within its three seconds.
BridgeStops ==
    /\ bridge = "stopping"
    /\ bridge' = "exited"
    /\ UNCHANGED <<stdout, stdin, telegrams, hostVars, laneVars, health>>

\* The process dies, possibly in the middle of a line.
BridgeCrashes ==
    /\ bridge # "exited"
    /\ bridge' = "exited"
    /\ \/ UNCHANGED stdout
       \/ WriteLine(Garbled)
    /\ UNCHANGED <<stdin, telegrams, hostVars, laneVars, health>>

Bridge ==
    \/ BridgeHello \/ BridgeConfigured \/ BridgeConnected \/ TelegramReceived
    \/ BridgeServes \/ BridgeGivesUp \/ BridgeStops \/ BridgeCrashes

-----------------------------------------------------------------------------
\* The ingress task (spawn_bridge_ingress)

\* try_send of a last item: dropped when the lane is full.
TrySend(m) == lane' = IF Len(lane) < LaneCapacity THEN Append(lane, m) ELSE lane
Stop       == ingress' = "stopped"

MutantFullLaneDropsMessage ==
    /\ ingress = "reading"
    /\ stdout # <<>>
    /\ stdout' = Tail(stdout)
    /\ TrySend(Head(stdout))
    /\ UNCHANGED <<bridge, stdin, telegrams, hostVars, ingress, health>>
IngressReads ==
    /\ ingress = "reading"
    /\ stdout # <<>>
    /\ stdout' = Tail(stdout)
    /\ \/ /\ Head(stdout) = Garbled
          /\ health' = Failed(health) /\ TrySend(Error) /\ Stop
       \/ /\ Head(stdout) # Garbled
          /\ session # "ended" /\ Len(lane) < LaneCapacity
          /\ lane' = Append(lane, Head(stdout))
          /\ UNCHANGED <<ingress, health>>
       \/ /\ Head(stdout) # Garbled
          /\ session # "ended" /\ Len(lane) = LaneCapacity
          /\ health' = Failed(health) /\ Stop
          /\ UNCHANGED lane
       \/ /\ Head(stdout) # Garbled
          /\ session = "ended"
          /\ Stop
          /\ UNCHANGED <<lane, health>>
    /\ UNCHANGED <<bridge, stdin, telegrams, hostVars>>

MutantEofOnlyLogged ==
    /\ ingress = "reading"
    /\ stdout = <<>> /\ bridge = "exited"
    /\ Stop
    /\ UNCHANGED <<bridgeVars, hostVars, lane, health>>
IngressEof ==
    /\ ingress = "reading"
    /\ stdout = <<>> /\ bridge = "exited"
    /\ health' = Failed(health)
    /\ TrySend(Eof)
    /\ Stop
    /\ UNCHANGED <<bridgeVars, hostVars>>

\* A webhook, poll, activation or simulation finds its own lane full.
OtherLaneOverflows ==
    /\ ~health.fatal
    /\ health' = Failed(health)
    /\ UNCHANGED <<hostVars, bridgeVars, laneVars>>

-----------------------------------------------------------------------------
\* The session task (run_session, and the end of run_with_bridge)

\* An error ends the session: the process is marked failed, the bridge is told
\* to shut down and is terminated.
EndWith(reason) ==
    /\ session' = "ended"
    /\ result' = reason
    /\ toSend' = 0
    /\ health' = IF reason = "interrupted" THEN health ELSE Failed(health)
    /\ stdin' = Append(stdin, Shutdown)

\* What ingress.recv() yields: the head of the lane, or None when the lane is
\* empty and the ingress task is gone.
Received(m) == lane # <<>> /\ Head(lane) = m /\ lane' = Tail(lane)
LaneClosed  == lane = <<>> /\ ingress = "stopped"

\* Startup expects bridge_hello, then ready.
AwaitHello ==
    /\ session = "hello"
    /\ \/ /\ Received(Hello)
          /\ bridge # "exited"
          /\ session' = "ready"
          /\ stdin' = Append(stdin, Configure)
          /\ UNCHANGED <<result, toSend, health>>
       \/ /\ Received(Hello)
          /\ bridge = "exited"
          /\ EndWith("io")
       \/ /\ lane # <<>> /\ Head(lane) # Hello
          /\ lane' = Tail(lane)
          /\ EndWith("startup")
       \/ /\ LaneClosed
          /\ EndWith("eof")
          /\ UNCHANGED lane
    /\ UNCHANGED <<pending, nextId, handled, bridge, stdout, telegrams, ingress>>

AwaitReady ==
    /\ session = "ready"
    /\ \/ /\ Received(Ready)
          /\ session' = "starting"
          /\ health' = MarkReady(health)
          /\ UNCHANGED <<result, toSend, stdin>>
       \/ /\ lane # <<>> /\ Head(lane) # Ready
          /\ lane' = Tail(lane)
          /\ EndWith(IF IsEvent(Head(lane)) THEN "expected ready" ELSE "startup")
       \/ /\ LaneClosed
          /\ EndWith("eof")
          /\ UNCHANGED lane
    /\ UNCHANGED <<pending, nextId, handled, bridge, stdout, telegrams, ingress>>

\* subscribe_fatal: only failures from here on are noticed.
SubscribeFatal ==
    /\ session = "starting"
    /\ session' = "running"
    /\ UNCHANGED <<result, toSend, pending, nextId, handled, bridgeVars, laneVars, health>>

AtSelect == session = "running" /\ toSend = 0
SomeWrites == {n \in 0..MaxEffects : nextId + n <= MaxWrites + 1}

\* The ingress branch of select!.
HandleMessage ==
    /\ AtSelect
    /\ lane # <<>>
    /\ lane' = Tail(lane)
    /\ LET m == Head(lane) IN
       \/ /\ IsEvent(m)
          /\ handled' = m.id
          /\ toSend' \in SomeWrites
          /\ UNCHANGED <<session, result, pending, health, stdin>>
       \/ /\ m.type = "command_result"
          /\ pending' = pending \ {m.id}
          /\ IF m.id \in pending
             THEN UNCHANGED <<session, result, toSend, health, stdin>>
             ELSE EndWith("unknown request")
          /\ UNCHANGED handled
       \/ /\ ~IsEvent(m) /\ m.type # "command_result"
          /\ EndWith(m.type)
          /\ UNCHANGED <<pending, handled>>
    /\ UNCHANGED <<nextId, bridge, stdout, telegrams, ingress>>

\* A timer, schedule, external input or activation turn that writes to KNX.
LocalTurn ==
    /\ AtSelect
    /\ toSend' \in SomeWrites \ {0}
    /\ UNCHANGED <<session, result, pending, nextId, handled, bridgeVars, laneVars, health>>

\* dispatch_effects: one effect.
DispatchEffect ==
    /\ toSend > 0
    /\ nextId' = nextId + 1
    /\ \/ /\ Cardinality(pending) >= PendingLimit
          /\ EndWith("pending capacity")
          /\ UNCHANGED pending
       \/ /\ Cardinality(pending) < PendingLimit
          /\ bridge = "exited"
          /\ EndWith("io")
          /\ UNCHANGED pending
       \/ /\ Cardinality(pending) < PendingLimit
          /\ bridge # "exited"
          /\ pending' = pending \cup {nextId}
          /\ stdin' = Append(stdin, Msg("knx_write", nextId))
          /\ toSend' = toSend - 1
          /\ UNCHANGED <<session, result, health>>
    /\ UNCHANGED <<handled, bridge, stdout, telegrams, laneVars>>

MutantDeadlineOnlyOnMessage ==
    /\ AtSelect
    /\ pending # {} /\ lane # <<>>
    /\ EndWith("pending timeout")
    /\ UNCHANGED <<pending, nextId, handled, bridge, stdout, telegrams, laneVars>>
\* The deadline branch: a write has been in flight for pending_write_timeout_ms.
PendingWriteTimeout ==
    /\ AtSelect
    /\ pending # {}
    /\ EndWith("pending timeout")
    /\ UNCHANGED <<pending, nextId, handled, bridge, stdout, telegrams, laneVars>>

\* The fatal.changed() branch.
FatalHost ==
    /\ AtSelect
    /\ health.notified
    /\ EndWith("fatal host")
    /\ UNCHANGED <<pending, nextId, handled, bridge, stdout, telegrams, laneVars>>

Interrupt ==
    /\ AtSelect
    /\ EndWith("interrupted")
    /\ UNCHANGED <<pending, nextId, handled, bridge, stdout, telegrams, laneVars>>

\* terminate_child: what is left of the bridge after 250 ms is killed.
TerminateChild ==
    /\ session = "ended"
    /\ bridge # "exited"
    /\ bridge' = "exited"
    /\ UNCHANGED <<stdout, stdin, telegrams, hostVars, laneVars, health>>

Session ==
    \/ AwaitHello \/ AwaitReady \/ SubscribeFatal \/ HandleMessage \/ LocalTurn
    \/ DispatchEffect \/ PendingWriteTimeout \/ FatalHost \/ Interrupt \/ TerminateChild

-----------------------------------------------------------------------------
Init ==
    /\ bridge = "started" /\ stdout = <<>> /\ stdin = <<>> /\ telegrams = 0
    /\ ingress = "reading" /\ lane = <<>>
    /\ session = "hello" /\ result = "none" /\ toSend = 0
    /\ pending = {} /\ nextId = 1 /\ handled = 0
    /\ health = [ready |-> FALSE, fatal |-> FALSE, notified |-> FALSE]

Next ==
    \/ Bridge
    \/ IngressReads \/ IngressEof
    \/ OtherLaneOverflows
    \/ Session

Spec == Init /\ [][Next]_vars

\* The ingress task and the session task are scheduled by Tokio as long as they
\* can run.  select! picks among its ready branches at random, so a branch that
\* is ready again and again is taken: strong fairness.  The deadline interval
\* ticks every 100 ms, so a write nobody answers times out.
FairSpec ==
    /\ Spec
    /\ WF_vars(IngressReads) /\ WF_vars(IngressEof)
    /\ WF_vars(AwaitHello) /\ WF_vars(AwaitReady) /\ WF_vars(SubscribeFatal)
    /\ WF_vars(DispatchEffect) /\ WF_vars(PendingWriteTimeout)
    /\ SF_vars(HandleMessage) /\ SF_vars(FatalHost)

-----------------------------------------------------------------------------
\* Properties

Messages == [type : {"bridge_hello", "configure", "ready", "knx_event", "knx_write",
                     "command_result", "fatal", "garbled", "shutdown", "eof", "error"},
             id   : Nat]

\* The queues hold messages, the lane and the write table respect their limits.
TypeOK ==
    /\ bridge \in {"started", "hello", "connecting", "serving", "stopping", "exited"}
    /\ stdout \in Seq(Messages) /\ stdin \in Seq(Messages)
    /\ lane \in Seq(Messages) /\ Len(lane) <= LaneCapacity
    /\ session \in {"hello", "ready", "starting", "running", "ended"}
    /\ ingress \in {"reading", "stopped"}
    /\ pending \in SUBSET (1..MaxWrites) /\ Cardinality(pending) <= PendingLimit
    /\ nextId \in Nat \ {0} /\ toSend \in Nat /\ telegrams \in Nat /\ handled \in Nat
    /\ health \in [ready : BOOLEAN, fatal : BOOLEAN, notified : BOOLEAN]

\* While the session runs, every result on its way to it belongs to exactly one
\* write in flight; and as long as the bridge serves, every write in flight is
\* on its way to the bridge or its result on the way back.  So a result is
\* never unknown, and none is lost while both sides live.
WritesAccountedFor ==
    session = "running" =>
        LET back == lane \o stdout
        IN /\ Results(back) \subseteq pending
           /\ \A i, j \in DOMAIN back :
                 back[i].type = "command_result" /\ back[i] = back[j] => i = j
           /\ Results(back) \cap Writes(stdin) = {}
           /\ bridge = "serving" /\ ingress = "reading"
                 => pending = Results(back) \cup Writes(stdin)

\* Telegrams reach the runtime in order and without a gap: what the session has
\* handled, the lane and the pipe hold together every telegram the bridge sent.
TelegramsInOrder ==
    session = "running" /\ ingress = "reading" =>
        LET waiting == lane \o stdout
        IN /\ Ids(waiting, "knx_event") = (handled + 1)..telegrams
           /\ \A i, j \in DOMAIN waiting :
                 (i < j /\ IsEvent(waiting[i]) /\ IsEvent(waiting[j]))
                    => waiting[i].id < waiting[j].id

\* A failure was reported before the session subscribed to failures: the watch
\* channel did not keep it, and HostHealth keeps only the first one.
Unnoticed == health.fatal /\ ~health.notified

\* "The desktop must treat bridge fatal or unexpected exit as terminal and must
\* not silently continue": the session ends after the bridge has given up or
\* gone, whatever lane is full by then, and after a failure any task reports,
\* whatever the session was doing, unless a failure went unnoticed.
FailureEndsSession ==
    (bridge \in {"stopping", "exited"} \/ health.fatal) ~> (session = "ended" \/ Unnoticed)

\* A write in flight is answered or ends the session, also if the bridge neither reads nor
\* exits and nothing else wakes the session (the deadline branch of run_session).
WritesSettle ==
    \A id \in 1..MaxWrites : id \in pending ~> (id \notin pending \/ session = "ended")

=============================================================================
