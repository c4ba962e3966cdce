--------------------------- MODULE DashboardStream ---------------------------
(***************************************************************************)
(* How a browser follows the diagnostic store of the desktop host.         *)
(*                                                                         *)
(* The host publishes every change of the store under its mutex: it raises *)
(* the revision, appends the snapshot to a bounded journal and sends it to *)
(* a broadcast channel (publish_locked).  A browser loads one snapshot,    *)
(* then opens /api/events?since=<revision>: the host replays the journal,  *)
(* or says "resync" when the journal no longer reaches back, and goes on   *)
(* with the broadcast, saying "resync" again when that reader lagged.      *)
(* DashboardClient keeps the revision it has seen and hands snapshots and  *)
(* events to the reducer behind the page (reduceDashboardState).           *)
(*                                                                         *)
(* The content of a snapshot is the process that made it and its revision. *)
(* A restarted host starts its revisions again.                            *)
(***************************************************************************)
EXTENDS Naturals, Sequences, FiniteSets

CONSTANTS
  diagnostic_journal,  \* revisions the journal keeps
  JOURNAL_CAPACITY,    \* revisions the broadcast channel keeps
  WireCapacity,        \* events the connection holds before the host waits
  MaxRevision,         \* bound: revisions one process publishes
  MaxRestarts,         \* bound: restarts of the host process
  MaxFaults            \* bound: failed requests and broken connections

ASSUME DashboardAssumption ==
  /\ diagnostic_journal \in Nat \ {0}
  /\ JOURNAL_CAPACITY \in Nat \ {0}
  /\ WireCapacity \in Nat \ {0}
  /\ {MaxRevision, MaxRestarts, MaxFaults} \subseteq Nat

VARIABLES
  process,    \* which process runs the host
  revision,   \* inner.revision
  journal,    \* inner.journal, as the revisions it holds
  stream,     \* the host's side of /api/events: EventStreamState
  wire,       \* events on their way to the browser
  client,     \* the fields of DashboardClient
  answer,     \* the answer on its way to the request in progress
  view,       \* DashboardState, as far as freshness goes
  faults      \* bound: faults so far

vars == <<process, revision, journal, stream, wire, client, answer, view, faults>>
host == <<process, revision, journal>>

None == [process |-> 0, revision |-> 0]
Failed == [process |-> 0, revision |-> 1]
NotFound == [process |-> 0, revision |-> 2]

Snapshots == [process : 1 .. MaxRestarts + 1, revision : 0 .. MaxRevision]
snapshot == [process |-> process, revision |-> revision]

Event == [kind : {"update", "resync"}, snapshot : Snapshots]
update_event(r) == [kind |-> "update", snapshot |-> [process |-> process, revision |-> r]]
resync_event == [kind |-> "resync", snapshot |-> snapshot]

Closed == [open |-> FALSE, initial |-> <<>>, next |-> 0]

TypeOK ==
  /\ process \in 1 .. MaxRestarts + 1
  /\ revision \in 0 .. MaxRevision
  /\ journal \in Seq(1 .. MaxRevision) /\ Len(journal) <= diagnostic_journal
  /\ stream \in [open : BOOLEAN, initial : Seq(Event), next : 0 .. MaxRevision + 1]
  /\ wire \in Seq(Event) /\ Len(wire) <= WireCapacity
  /\ client \in [source : {"none", "connecting", "open"}, since : 0 .. MaxRevision, reconnect : BOOLEAN,
                 request : {"none", "start", "snapshot", "changes"}, pollTimer : BOOLEAN,
                 revision : 0 .. MaxRevision, needsSnapshot : BOOLEAN, snapshotLoaded : BOOLEAN]
  /\ answer \in Snapshots \cup {None, Failed, NotFound}
  /\ view \in [snapshot : Snapshots \cup {None}, revision : 0 .. MaxRevision,
               stale : BOOLEAN, needsResync : BOOLEAN]
  /\ faults \in 0 .. MaxFaults

\* onMount: start() asks for the first snapshot
Init ==
  /\ process = 1 /\ revision = 0 /\ journal = <<>>
  /\ stream = Closed /\ wire = <<>>
  /\ client = [source |-> "none", since |-> 0, reconnect |-> FALSE, request |-> "start",
               pollTimer |-> FALSE, revision |-> 0, needsSnapshot |-> TRUE,
               snapshotLoaded |-> FALSE]
  /\ answer = None
  /\ view = [snapshot |-> None, revision |-> 0, stale |-> TRUE, needsResync |-> FALSE]
  /\ faults = 0

-----------------------------------------------------------------------------
(* The host *)

\* every recording or setting operation of the store ends with this
publish_locked ==
  /\ revision < MaxRevision
  /\ revision' = revision + 1
  /\ LET kept == Append(journal, revision + 1)
     IN journal' = SubSeq(kept, Len(kept) - (IF Len(kept) > diagnostic_journal
                                             THEN diagnostic_journal ELSE Len(kept)) + 1,
                          Len(kept))
  /\ UNCHANGED <<process, stream, wire, client, answer, view, faults>>

\* the entries after a revision: the journal is in order, so they are its last ones
Newer(since) ==
  LET count == Cardinality({i \in DOMAIN journal : journal[i] > since})
  IN SubSeq(journal, Len(journal) - count + 1, Len(journal))

Replay(since) == [i \in DOMAIN Newer(since) |-> update_event(Newer(since)[i])]

MutantReplaysAfterGap(since) ==
  [open |-> TRUE, initial |-> Replay(since), next |-> revision + 1]

\* the store answers GET /api/events: replay and receiver under one lock
subscribe(since) ==
  [open |-> TRUE,
   initial |-> IF journal # <<>> /\ since + 1 < Head(journal)
               THEN <<resync_event>> ELSE Replay(since),
   next |-> revision + 1]

\* the oldest revision the broadcast channel still holds
OldestSent == IF revision < JOURNAL_CAPACITY THEN 1 ELSE revision - JOURNAL_CAPACITY + 1

MutantLagIsSkipped ==
  /\ stream.open /\ Len(wire) < WireCapacity
  /\ \/ /\ stream.initial # <<>>
        /\ wire' = Append(wire, Head(stream.initial))
        /\ stream' = [stream EXCEPT !.initial = Tail(@)]
     \/ /\ stream.initial = <<>> /\ stream.next < OldestSent
        /\ stream' = [stream EXCEPT !.next = OldestSent]
        /\ UNCHANGED wire
     \/ /\ stream.initial = <<>> /\ stream.next \in OldestSent .. revision
        /\ wire' = Append(wire, update_event(stream.next))
        /\ stream' = [stream EXCEPT !.next = @ + 1]
  /\ UNCHANGED <<host, client, answer, view, faults>>

\* one step of the unfold behind the response
event_stream ==
  /\ stream.open /\ Len(wire) < WireCapacity
  /\ \/ /\ stream.initial # <<>>
        /\ wire' = Append(wire, Head(stream.initial))
        /\ stream' = [stream EXCEPT !.initial = Tail(@)]
     \/ /\ stream.initial = <<>> /\ stream.next < OldestSent
        /\ wire' = Append(wire, resync_event)
        /\ stream' = [stream EXCEPT !.next = OldestSent]
     \/ /\ stream.initial = <<>> /\ stream.next \in OldestSent .. revision
        /\ wire' = Append(wire, update_event(stream.next))
        /\ stream' = [stream EXCEPT !.next = @ + 1]
  /\ UNCHANGED <<host, client, answer, view, faults>>

\* the host answers the request in progress; /api/changes is not one of its routes
Answer ==
  /\ client.request # "none" /\ answer = None
  /\ answer' = IF client.request = "changes" THEN NotFound ELSE snapshot
  /\ UNCHANGED <<host, stream, wire, client, view, faults>>

-----------------------------------------------------------------------------
(* The reducer behind the page *)

StaleState(v) == [v EXCEPT !.stale = TRUE]

SnapshotLoaded(v, s) ==
  [v EXCEPT !.snapshot = s, !.revision = s.revision, !.needsResync = FALSE,
            !.stale = @ /\ v.snapshot # None]

StreamOpen(v) == IF v.needsResync THEN StaleState(v) ELSE [v EXCEPT !.stale = FALSE]

EventReceived(v, s) ==
  CASE s.revision <= v.revision -> v
    [] s.revision > v.revision + 1 -> [v EXCEPT !.stale = TRUE, !.needsResync = TRUE]
    [] OTHER -> [snapshot |-> s, revision |-> s.revision, stale |-> FALSE, needsResync |-> FALSE]

-----------------------------------------------------------------------------
(* DashboardClient *)

MutantNeverGoesBack(c, s) ==
  [c EXCEPT !.revision = IF s.revision > @ THEN s.revision ELSE @,
            !.snapshotLoaded = TRUE, !.needsSnapshot = FALSE]

acceptSnapshot(c, s) ==
  [c EXCEPT !.revision = s.revision, !.snapshotLoaded = TRUE, !.needsSnapshot = FALSE]

\* poll() up to its first await: nothing while another poll is in progress
Poll(c) ==
  IF c.request # "none" THEN c
  ELSE [c EXCEPT !.request = IF c.needsSnapshot \/ ~c.snapshotLoaded THEN "snapshot" ELSE "changes"]

\* connectEventSource: the request carries the revision of this moment
connectEventSource(c) == [c EXCEPT !.source = "connecting", !.since = c.revision]

\* start(): the first snapshot, then the event stream; without it the poll loop
Start ==
  /\ client.request = "start" /\ answer # None
  /\ answer' = None
  /\ IF answer # Failed
     THEN /\ client' = connectEventSource([acceptSnapshot(client, answer) EXCEPT !.request = "none"])
          /\ view' = StreamOpen(SnapshotLoaded(view, answer))
     ELSE /\ client' = [client EXCEPT !.request = "none", !.pollTimer = TRUE]
          /\ view' = StaleState(view)
  /\ UNCHANGED <<host, stream, wire, faults>>

\* the host takes the stream's request: the handler's subscription, onopen
Connect ==
  /\ client.source = "connecting"
  /\ stream' = subscribe(client.since)
  /\ client' = [client EXCEPT !.source = "open"]
  /\ view' = StreamOpen(view)
  /\ UNCHANGED <<host, wire, answer, faults>>

MutantKeepsAskingForChanges ==
  /\ client.request \in {"snapshot", "changes"} /\ answer # None
  /\ answer' = None
  /\ IF answer \in Snapshots
     THEN /\ client' = [acceptSnapshot(client, answer) EXCEPT !.request = "none", !.pollTimer = TRUE]
          /\ view' = StreamOpen(SnapshotLoaded(view, answer))
     ELSE /\ client' = [client EXCEPT !.request = "none", !.pollTimer = TRUE, !.needsSnapshot = FALSE]
          /\ view' = StaleState(view)
  /\ UNCHANGED <<host, stream, wire, faults>>

\* poll() after its await: the snapshot is taken as it is, an error decides
\* whether the next poll asks for a snapshot (isRestart), and both arm the timer
PollAnswered ==
  /\ client.request \in {"snapshot", "changes"} /\ answer # None
  /\ answer' = None
  /\ IF answer \in Snapshots
     THEN /\ client' = [acceptSnapshot(client, answer) EXCEPT !.request = "none", !.pollTimer = TRUE]
          /\ view' = StreamOpen(SnapshotLoaded(view, answer))
     ELSE /\ client' = [client EXCEPT !.request = "none", !.pollTimer = TRUE,
                                      !.needsSnapshot = answer = NotFound]
          /\ view' = StaleState(view)
  /\ UNCHANGED <<host, stream, wire, faults>>

PollTimer ==
  /\ client.pollTimer
  /\ client' = Poll([client EXCEPT !.pollTimer = FALSE])
  /\ UNCHANGED <<host, stream, wire, answer, view, faults>>

\* pollNow(), from the page's refresh after a block was resumed
Refresh ==
  /\ view.snapshot # None /\ client.request = "none"
  /\ client' = Poll(client)
  /\ UNCHANGED <<host, stream, wire, answer, view, faults>>

\* handleEvent
handleEvent ==
  /\ wire # <<>> /\ client.source = "open"
  /\ wire' = Tail(wire)
  /\ LET s == Head(wire).snapshot
     IN \/ /\ Head(wire).kind = "resync"
           /\ client' = Poll([client EXCEPT !.needsSnapshot = TRUE])
           /\ UNCHANGED view
        \/ /\ Head(wire).kind = "update" /\ s.revision > client.revision
           /\ client' = [client EXCEPT !.revision = s.revision]
           /\ view' = EventReceived(view, s)
        \/ /\ Head(wire).kind = "update" /\ s.revision <= client.revision
           /\ UNCHANGED <<client, view>>
  /\ UNCHANGED <<host, stream, answer, faults>>

\* scheduleLegacyReconnect's timer
Reconnect ==
  /\ client.reconnect
  /\ client' = connectEventSource([client EXCEPT !.reconnect = FALSE])
  /\ UNCHANGED <<host, stream, wire, answer, view, faults>>

-----------------------------------------------------------------------------
(* Faults *)

\* source.onerror
ConnectionLost(c, v) ==
  /\ wire' = <<>>
  /\ stream' = Closed
  /\ IF c.source # "none"
     THEN /\ client' = [c EXCEPT !.source = "none", !.reconnect = TRUE]
          /\ view' = StaleState(v)
     ELSE UNCHANGED <<client, view>>

Disconnect ==
  /\ faults < MaxFaults /\ faults' = faults + 1
  /\ client.source # "none"
  /\ ConnectionLost(client, view)
  /\ UNCHANGED <<host, answer>>

RequestFails ==
  /\ faults < MaxFaults /\ faults' = faults + 1
  /\ client.request # "none" /\ answer # Failed
  /\ answer' = Failed
  /\ UNCHANGED <<host, stream, wire, client, view>>

\* a new process: its store starts from revision 0
Restart ==
  /\ process <= MaxRestarts
  /\ process' = process + 1 /\ revision' = 0 /\ journal' = <<>>
  /\ ConnectionLost(client, view)
  /\ answer' = IF client.request = "none" THEN None ELSE Failed
  /\ UNCHANGED faults

Next ==
  \/ publish_locked \/ event_stream \/ Answer
  \/ Start \/ PollAnswered \/ PollTimer \/ Refresh \/ handleEvent
  \/ Connect \/ Reconnect
  \/ Disconnect \/ RequestFails \/ Restart

\* the host's tasks and the browser's timers and callbacks all run eventually
Fairness ==
  /\ WF_vars(event_stream) /\ WF_vars(Answer)
  /\ WF_vars(Start) /\ WF_vars(PollAnswered) /\ WF_vars(PollTimer)
  /\ WF_vars(handleEvent) /\ WF_vars(Connect) /\ WF_vars(Reconnect)

Spec == Init /\ [][Next]_vars /\ Fairness

-----------------------------------------------------------------------------
(* Properties *)

Polling == client.request \in {"snapshot", "changes"} \/ client.pollTimer

\* revisions the connection will still bring
Coming ==
  LET queued == wire \o stream.initial
  IN {queued[i].snapshot.revision : i \in {j \in DOMAIN queued : queued[j].kind = "update"}}
     \cup stream.next .. revision

ResyncComing ==
  \/ \E i \in DOMAIN wire : wire[i].kind = "resync"
  \/ \E i \in DOMAIN stream.initial : stream.initial[i].kind = "resync"
  \/ stream.next < OldestSent

\* A page that shows itself live, of the process that runs, over an open
\* stream, misses no revision in silence: whatever it has not shown yet is
\* still on its way, or a resync is, or the poll loop runs and fetches it.
NoSilentGap ==
  (client.source = "open" /\ ~view.stale /\ view.snapshot.process = process)
    => \/ \A r \in view.revision + 1 .. revision : r \in Coming
       \/ ResyncComing
       \/ Polling

\* A page that waits for a resynchronisation gets one: the poll loop runs, so
\* the reducer's needsResync, which nothing in the client reads, cannot stay.
ResyncIsUnderWay == view.needsResync => Polling

\* A page that is not waiting for a resynchronisation shows the very revision
\* the client will ask the next stream to go on from, so a reconnection cannot
\* skip what the page has not shown.
ViewMatchesCursor ==
  (view.snapshot # None /\ ~view.needsResync) =>
    /\ view.revision = client.revision
    /\ view.snapshot.revision = view.revision

\* Once the host publishes nothing more, the page comes to show its last
\* snapshot, whatever was lost before; except that a page of an earlier process
\* that has seen at least as many revisions takes every new one for an old one.
AheadOfHost == view.snapshot.process < process /\ client.revision >= revision
EventuallyCurrent == <>[](view.snapshot = snapshot \/ AheadOfHost)
=============================================================================
