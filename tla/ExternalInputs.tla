--------------------------- MODULE ExternalInputs ---------------------------
(***************************************************************************)
(* The external sources of the desktop host: one task per HTTP poll        *)
(* (poll_loop) and one handler per webhook request, both feeding a bounded *)
(* queue (the external lane) that the session drains into block inputs     *)
(* (apply_external_input).                                                 *)
(*                                                                         *)
(* The poll task wakes at the earlier of its next poll and of the moment   *)
(* its values go stale, but not while a request is out: that is where a    *)
(* late answer, its timeout and the staleness deadline race.  A value is   *)
(* delivered as Trigger when it changed and as Observe when it did not;    *)
(* what the runtime makes of a Trigger is never told to the task.          *)
(*                                                                         *)
(* Time is kept as the ticks left to each deadline.                        *)
(***************************************************************************)
EXTENDS Integers, Sequences

CONSTANTS
  PollValues,            \* the values one poll extracts ...
  PollOrder,             \* ... and the order its configuration lists them in
  Values,                \* what a source may answer
  Requests,              \* webhook requests
  every, timeout, stale_after,
  HTTP_RETRY_DELAYS,     \* back-off after the first, second, ... failure
  external_input_queue,  \* capacity of the lane
  MaxDenied              \* bound: Triggers the runtime does not run in full

None == "none"
Webhook == "webhook"

\* automation_builder accepts no other poll
ASSUME PollAssumption ==
  /\ PollOrder \in Seq(PollValues) /\ Webhook \notin PollValues
  /\ \A v \in PollValues : \E i \in 1 .. Len(PollOrder) : PollOrder[i] = v
  /\ None \notin Values /\ None \notin Requests
  /\ every \in Nat \ {0} /\ timeout \in 1 .. every /\ stale_after \in Nat /\ stale_after >= every
  /\ HTTP_RETRY_DELAYS \in Seq(Nat \ {0}) /\ HTTP_RETRY_DELAYS # <<>>
  /\ external_input_queue \in Nat \ {0} /\ MaxDenied \in Nat

VARIABLES
  source,    \* the polled server: "up", "down", or "slow" (answers too late)
  task,      \* poll_loop
  store,     \* the poll's and the webhook's card in the diagnostic store
  lane,      \* the external queue
  session,   \* the runtime's owner: "starting", "running", "ended"
  fatal,     \* HostHealth: "none", "heard" by the session, or set before it listened
  input,     \* the value of the endpoint bound to each source
  ran,       \* the value the handler last ran on, since the input was invalid
  hook,      \* each webhook request
  denied,    \* bound: Triggers so far that did not run in full
  age        \* history: ticks since the poll's last answer was accepted

vars == <<source, task, store, lane, session, fatal, input, ran, hook, denied, age>>

Sources == PollValues \cup {Webhook}
Optional == Values \cup {None}

Message == [source : Sources, update : {"Observe", "Trigger", "Invalidate"},
            value : Optional, reply : Requests \cup {None}]

\* the tasks left to send: Invalidates of a stale poll or the values of an answer
Sending == {"stale", "fresh"}

TooOld == stale_after + timeout + 1

Task == [at : {"select", "fetch", "returned"} \cup Sending,
         toSend : Seq(Message), next : 0 .. every, stale : 0 .. stale_after,
         fresh : BOOLEAN, retry : 0 .. Len(HTTP_RETRY_DELAYS),
         elapsed : 0 .. timeout, values : [PollValues -> Optional]]

Card == [status : {"starting", "healthy", "failing", "stale"},
         values : [Sources -> Optional], failures : 0 .. Len(HTTP_RETRY_DELAYS)]

Hook == [at : {"idle", "waiting", "timed out", "accepted", "refused"},
         value : Optional, reply : {None, "ok", "error"}]

TypeOK ==
  /\ source \in {"up", "down", "slow"}
  /\ task \in Task /\ store \in Card
  /\ lane \in Seq(Message) /\ Len(lane) <= external_input_queue
  /\ session \in {"starting", "running", "ended"}
  /\ fatal \in {"none", "heard", "missed"}
  /\ input \in [Sources -> Optional] /\ ran \in [Sources -> Optional]
  /\ hook \in [Requests -> Hook]
  /\ denied \in 0 .. MaxDenied /\ age \in 0 .. TooOld

Init ==
  /\ source = "up"
  /\ task = [at |-> "select", toSend |-> <<>>, next |-> 0, stale |-> 0,
             fresh |-> FALSE, retry |-> 0, elapsed |-> 0,
             values |-> [v \in PollValues |-> None]]
  /\ store = [status |-> "starting", values |-> [s \in Sources |-> None], failures |-> 0]
  /\ lane = <<>> /\ session = "starting" /\ fatal = "none"
  /\ input = [s \in Sources |-> None] /\ ran = [s \in Sources |-> None]
  /\ hook = [r \in Requests |-> [at |-> "idle", value |-> None, reply |-> None]]
  /\ denied = 0 /\ age = 0

-----------------------------------------------------------------------------
(* poll_loop *)

\* one message for each value of the poll, in their order
Messages(updates, values) ==
  [i \in 1 .. Len(PollOrder) |->
     [source |-> PollOrder[i], update |-> updates[PollOrder[i]],
      value |-> values[PollOrder[i]], reply |-> None]]

\* the values on the card once the poll's are these
CardWith(values) == [s \in Sources |-> IF s \in PollValues THEN values[s] ELSE store.values[s]]

failure_delay(t) ==
  LET delay == HTTP_RETRY_DELAYS[IF t.retry + 1 > Len(HTTP_RETRY_DELAYS)
                                 THEN Len(HTTP_RETRY_DELAYS) ELSE t.retry + 1]
  IN [retry |-> IF t.retry < Len(HTTP_RETRY_DELAYS) THEN t.retry + 1 ELSE t.retry,
      next  |-> IF delay < every THEN delay ELSE every]

MutantStaleOnlyOnCard ==
  /\ task.at = "select" /\ task.fresh /\ task.stale = 0
  /\ task' = [task EXCEPT !.at = "stale", !.toSend = <<>>]
  /\ UNCHANGED <<source, store, lane, session, fatal, input, ran, hook, denied, age>>

\* after the select: the values go stale, ...
GoStale ==
  /\ task.at = "select" /\ task.fresh /\ task.stale = 0
  /\ task' = [task EXCEPT !.at = "stale",
                          !.toSend = Messages([v \in PollValues |-> "Invalidate"],
                                              [v \in PollValues |-> None])]
  /\ UNCHANGED <<source, store, lane, session, fatal, input, ran, hook, denied, age>>

\* ... and the next poll starts
record_external_poll_attempt ==
  /\ task.at = "select" /\ task.next = 0 /\ ~(task.fresh /\ task.stale = 0)
  /\ task' = [task EXCEPT !.at = "fetch", !.elapsed = 0]
  /\ UNCHANGED <<source, store, lane, session, fatal, input, ran, hook, denied, age>>

\* fetch_poll: every value was found in the answer and has its type
FetchSucceeds ==
  /\ task.at = "fetch" /\ source = "up"
  /\ \E answer \in [PollValues -> Values] :
       /\ task' = [task EXCEPT
            !.at = "fresh", !.retry = 0, !.fresh = TRUE, !.stale = stale_after,
            !.values = answer,
            !.toSend = Messages([v \in PollValues |->
                                    IF task.values[v] = answer[v] THEN "Observe" ELSE "Trigger"],
                                answer)]
       /\ store' = [store EXCEPT !.status = "healthy", !.failures = 0,
                                 !.values = CardWith(answer)]
  /\ age' = 0
  /\ UNCHANGED <<source, lane, session, fatal, input, ran, hook, denied>>

MutantFailureKeepsFresh ==
  /\ task.at = "fetch"
  /\ source = "down" \/ task.elapsed = timeout
  /\ LET backoff == failure_delay(task)
     IN task' = [task EXCEPT !.at = "select", !.retry = backoff.retry, !.next = backoff.next,
                             !.stale = stale_after]
  /\ store' = [store EXCEPT !.status = "failing",
                            !.failures = IF @ < Len(HTTP_RETRY_DELAYS) THEN @ + 1 ELSE @]
  /\ UNCHANGED <<source, lane, session, fatal, input, ran, hook, denied, age>>

\* fetch_poll: no connection, an error status, an answer that does not convert,
\* or, after `timeout`, no complete answer
FetchFails ==
  /\ task.at = "fetch"
  /\ source = "down" \/ task.elapsed = timeout
  /\ LET backoff == failure_delay(task)
     IN task' = [task EXCEPT !.at = "select", !.retry = backoff.retry, !.next = backoff.next]
  /\ store' = [store EXCEPT !.status = "failing",
                            !.failures = IF @ < Len(HTTP_RETRY_DELAYS) THEN @ + 1 ELSE @]
  /\ UNCHANGED <<source, lane, session, fatal, input, ran, hook, denied, age>>

\* HostHealth::fail: a session that does not listen yet never hears of it
Fail == IF fatal # "none" THEN fatal ELSE IF session = "starting" THEN "missed" ELSE "heard"

\* one try_send of the task; a full or closed lane ends the task
TrySend ==
  /\ task.at \in Sending /\ task.toSend # <<>>
  /\ IF session # "ended" /\ Len(lane) < external_input_queue
     THEN /\ lane' = Append(lane, Head(task.toSend))
          /\ task' = [task EXCEPT !.toSend = Tail(@)]
          /\ UNCHANGED fatal
     ELSE /\ task' = [task EXCEPT !.at = "returned", !.toSend = <<>>]
          /\ fatal' = IF session = "ended" THEN fatal ELSE Fail
          /\ UNCHANGED lane
  /\ UNCHANGED <<source, store, session, input, ran, hook, denied, age>>

MutantCardNotCleared ==
  /\ task.at \in Sending /\ task.toSend = <<>>
  /\ task' = IF task.at = "stale"
             THEN [task EXCEPT !.at = "select", !.fresh = FALSE,
                               !.values = [v \in PollValues |-> None]]
             ELSE [task EXCEPT !.at = "select", !.next = every]
  /\ UNCHANGED <<source, store, lane, session, fatal, input, ran, hook, denied, age>>
MutantKeepsLastValues ==
  /\ task.at \in Sending /\ task.toSend = <<>>
  /\ IF task.at = "stale"
     THEN /\ task' = [task EXCEPT !.at = "select", !.fresh = FALSE]
          /\ store' = [store EXCEPT !.status = "stale",
                         !.values = CardWith([v \in PollValues |-> None])]
     ELSE /\ task' = [task EXCEPT !.at = "select", !.next = every]
          /\ UNCHANGED store
  /\ UNCHANGED <<source, lane, session, fatal, input, ran, hook, denied, age>>

\* record_external_poll_stale, or record_external_poll_next_attempt
SentAll ==
  /\ task.at \in Sending /\ task.toSend = <<>>
  /\ IF task.at = "stale"
     THEN /\ task' = [task EXCEPT !.at = "select", !.fresh = FALSE,
                                  !.values = [v \in PollValues |-> None]]
          /\ store' = [store EXCEPT !.status = "stale",
                         !.values = CardWith([v \in PollValues |-> None])]
     ELSE /\ task' = [task EXCEPT !.at = "select", !.next = every]
          /\ UNCHANGED store
  /\ UNCHANGED <<source, lane, session, fatal, input, ran, hook, denied, age>>

\* ExternalTasks::shutdown: the select sees the watch, a task that does not
\* come back is aborted after two seconds
Shutdown ==
  /\ session = "ended" /\ task.at # "returned"
  /\ task' = [task EXCEPT !.at = "returned", !.toSend = <<>>]
  /\ UNCHANGED <<source, store, lane, session, fatal, input, ran, hook, denied, age>>

-----------------------------------------------------------------------------
(* webhook *)

\* a request that passed the checks on its type, size, token and value
Post(r) ==
  /\ hook[r].at = "idle"
  /\ \E w \in Values :
       IF session # "ended" /\ Len(lane) < external_input_queue
       THEN /\ lane' = Append(lane, [source |-> Webhook, update |-> "Trigger", value |-> w, reply |-> r])
            /\ hook' = [hook EXCEPT ![r] = [at |-> "waiting", value |-> w, reply |-> None]]
            /\ UNCHANGED fatal
       ELSE /\ hook' = [hook EXCEPT ![r] = [at |-> "refused", value |-> w, reply |-> None]]
            /\ fatal' = IF session = "ended" THEN fatal ELSE Fail
            /\ UNCHANGED lane
  /\ UNCHANGED <<source, task, store, session, input, ran, denied, age>>

\* the session's reply, recorded by the handler whenever it runs again
Answered(r) ==
  /\ hook[r].at = "waiting" /\ hook[r].reply # None
  /\ IF hook[r].reply = "ok"
     THEN /\ hook' = [hook EXCEPT ![r] = [hook[r] EXCEPT !.at = "accepted"]]
          /\ store' = [store EXCEPT !.values = [store.values EXCEPT ![Webhook] = hook[r].value]]
     ELSE /\ hook' = [hook EXCEPT ![r] = [hook[r] EXCEPT !.at = "refused"]]
          /\ UNCHANGED store
  /\ UNCHANGED <<source, task, lane, session, fatal, input, ran, denied, age>>

\* ten seconds without a reply; the message stays in the lane
TimedOut(r) ==
  /\ hook[r].at = "waiting" /\ hook[r].reply = None
  /\ hook' = [hook EXCEPT ![r] = [hook[r] EXCEPT !.at = "timed out"]]
  /\ UNCHANGED <<source, task, store, lane, session, fatal, input, ran, denied, age>>

-----------------------------------------------------------------------------
(* The session *)

SessionStarts ==
  /\ session = "starting" /\ session' = "running"
  /\ UNCHANGED <<source, task, store, lane, fatal, input, ran, hook, denied, age>>

\* process_input_update: a Trigger runs the handler, is taken as an
\* observation (block disabled, suspended or over its rate), is rolled back, or
\* fails after its handler ran
Outcomes(update) ==
  IF update # "Trigger" THEN {"done"}
  ELSE {"done"} \cup IF denied < MaxDenied THEN {"observed", "rolled back", "failed"} ELSE {}

apply_external_input ==
  /\ session = "running" /\ lane # <<>>
  /\ lane' = Tail(lane)
  /\ LET m == Head(lane)
     IN \E outcome \in Outcomes(m.update) :
          /\ denied' = IF outcome = "done" THEN denied ELSE denied + 1
          /\ input' = IF outcome = "rolled back" THEN input ELSE [input EXCEPT ![m.source] = m.value]
          /\ ran' = IF m.update = "Invalidate" THEN [ran EXCEPT ![m.source] = None]
                    ELSE IF m.update = "Trigger" /\ outcome \in {"done", "failed"}
                         THEN [ran EXCEPT ![m.source] = m.value] ELSE ran
          /\ hook' = IF m.reply = None THEN hook
                     ELSE [hook EXCEPT ![m.reply] = [hook[m.reply] EXCEPT
                             !.reply = IF outcome \in {"done", "observed"} THEN "ok" ELSE "error"]]
  /\ UNCHANGED <<source, task, store, session, fatal, age>>

\* the fatal branch of the select, an interrupt, or another failure; the
\* replies still in the lane are dropped with it
SessionEnds ==
  /\ session = "running"
  /\ session' = "ended" /\ lane' = <<>>
  /\ hook' = [r \in Requests |-> IF hook[r].at = "waiting" /\ hook[r].reply = None
                                 THEN [hook[r] EXCEPT !.reply = "error"] ELSE hook[r]]
  /\ UNCHANGED <<source, task, store, fatal, input, ran, denied, age>>

-----------------------------------------------------------------------------
(* Time and the polled server *)

Less(n) == IF n = 0 THEN 0 ELSE n - 1

\* a tick passes for everyone; sleep returns at its deadline and a request ends
\* at its timeout, so no tick passes over either
Tick ==
  /\ \/ task.at = "select" /\ task.next > 0 /\ (task.fresh => task.stale > 0)
     \/ task.at = "fetch" /\ task.elapsed < timeout
  /\ task' = [task EXCEPT !.next = Less(@), !.stale = Less(@),
                          !.elapsed = IF task.at = "fetch" THEN @ + 1 ELSE @]
  /\ age' = IF age < TooOld THEN age + 1 ELSE age
  /\ UNCHANGED <<source, store, lane, session, fatal, input, ran, hook, denied>>

SourceChanges ==
  /\ source' \in {"up", "down", "slow"} \ {source}
  /\ UNCHANGED <<task, store, lane, session, fatal, input, ran, hook, denied, age>>

Next ==
  \/ GoStale \/ record_external_poll_attempt \/ FetchSucceeds \/ FetchFails \/ TrySend \/ SentAll
  \/ Shutdown
  \/ \E r \in Requests : Post(r) \/ Answered(r) \/ TimedOut(r)
  \/ SessionStarts \/ apply_external_input \/ SessionEnds
  \/ Tick \/ SourceChanges

\* the host's tasks run, time passes, and a session that hears of a failure ends
Fairness ==
  /\ WF_vars(GoStale \/ record_external_poll_attempt \/ FetchFails \/ TrySend \/ SentAll)
  /\ WF_vars(FetchSucceeds) /\ WF_vars(Tick)
  /\ WF_vars(SessionStarts) /\ WF_vars(apply_external_input)
  /\ WF_vars(fatal = "heard" /\ SessionEnds) /\ WF_vars(Shutdown)
  /\ \A r \in Requests : WF_vars(Answered(r))

Spec == Init /\ [][Next]_vars /\ Fairness

-----------------------------------------------------------------------------
(* Properties *)

\* nothing of the poll is still on its way to the inputs
Settled(v) == /\ task.at \notin Sending
              /\ \A i \in DOMAIN lane : lane[i].source # v

Alive == session = "running" /\ fatal = "none"

\* A block never works with an old value: an input that is valid once the lane
\* has been drained was answered at most stale_after, and the timeout of one
\* request that was out when that deadline passed, ago.
HeldValueIsFresh ==
  \A v \in PollValues :
    (Alive /\ Settled(v) /\ input[v] # None)
      => age <= stale_after + timeout

\* The dashboard's card and the block agree on every value of a poll, as long
\* as the runtime took what it was sent, and whatever was stale or late before.
CardMatchesInput ==
  \A v \in PollValues :
    (Alive /\ Settled(v) /\ denied = 0) => store.values[v] = input[v]

\* A block's handler has run on the value its input holds, and has run on it
\* since the value last went stale: a poll never demotes a change to an
\* observation.  (A Trigger the runtime does not run is not sent again.)
ValidInputHasRun ==
  \A v \in PollValues :
    (denied = 0 /\ input[v] # None) => ran[v] = input[v]

\* When the polled server stays away, its values do not stay valid, unless the
\* session ended or the failure of a full lane was reported before it listened.
SilentSourceGoesStale ==
  <>[](source # "up") =>
    <>[](session = "ended" \/ fatal = "missed" \/ \A v \in PollValues : input[v] = None)
=============================================================================
