------------------------ MODULE ExternalInputsProofs ------------------------
(***************************************************************************)
(* Machine-checked proofs about ExternalInputs, for any number of values   *)
(* and requests, any periods and back-off, and any capacity of the lane.   *)
(*                                                                         *)
(* The invariant follows a value of the poll from the task to the block's  *)
(* input: what is in the lane, applied in order to what the input holds,   *)
(* ends with what the task believes it has delivered.                      *)
(***************************************************************************)
EXTENDS ExternalInputs, TLAPS, SequenceTheorems

-----------------------------------------------------------------------------
\* What the lane will leave behind

\* An input that holds h holds w when the messages of the queue q before the i-th have
\* been applied: the last of them for v carries w, or there is none and h is w.
Before(q, i, v, h, w) ==
  \/ h = w /\ \A j \in 1 .. (i - 1) : q[j].source # v
  \/ \E j \in 1 .. (i - 1) :
       /\ q[j].source = v /\ q[j].value = w
       /\ \A k \in (j + 1) .. (i - 1) : q[k].source # v

\* ... and when all of them have.
Ends(q, v, h, w) == Before(q, Len(q) + 1, v, h, w)

-----------------------------------------------------------------------------
\* The parts of the invariant

\* What the poll sends: only an Invalidate carries no value.
FromPoll(m) ==
  /\ m.source \in PollValues
  /\ m.value = None <=> m.update = "Invalidate"

\* A batch is sent while the task is sending: of Invalidates, or of what it has read.
BatchInv ==
  /\ task.at \notin Sending => task.toSend = <<>>
  /\ task.at \in Sending => task.fresh = TRUE
  /\ \A i \in 1 .. Len(task.toSend) :
       /\ FromPoll(task.toSend[i])
       /\ task.at = "stale" => task.toSend[i].update = "Invalidate"
       /\ task.at = "fresh" => task.toSend[i].value = task.values[task.toSend[i].source]
  /\ \A i \in 1 .. Len(lane) : lane[i].source # Webhook => FromPoll(lane[i])

\* A task that gave up has said so, while there was a session to hear it.
ReturnInv == session # "ended" /\ fatal = "none" => task.at # "returned"

\* Nothing of v is left to send.
Sent(v) == \A i \in 1 .. Len(task.toSend) : task.toSend[i].source # v

Working == session # "ended" /\ task.at # "returned"

\* The card shows the last values, and the inputs are on their way to them; to none, when
\* the values are stale, even if the runtime refused some of them.
DeliveryInv ==
  Working =>
    \A v \in PollValues :
      /\ task.at # "stale" => store.values[v] = task.values[v]
      /\ denied = 0 /\ task.at # "stale" /\ Sent(v) => Ends(lane, v, input[v], task.values[v])
      /\ (task.at = "stale" \/ ~task.fresh) /\ Sent(v) => Ends(lane, v, input[v], None)

\* An Observe repeats what the input will hold when it is applied.
ObserveInv ==
  session # "ended" /\ denied = 0 =>
    /\ \A i \in 1 .. Len(lane) :
         lane[i].source \in PollValues /\ lane[i].update = "Observe" =>
           Before(lane, i, lane[i].source, input[lane[i].source], lane[i].value)
    /\ \A i \in 1 .. Len(task.toSend) :
         task.toSend[i].update = "Observe" =>
           Ends(lane, task.toSend[i].source, input[task.toSend[i].source], task.toSend[i].value)

\* The time to the staleness deadline is what the answer's age leaves; only a request that
\* is out when it passes makes the values older.
AgeInv ==
  task.fresh =>
    /\ task.stale > 0 => age + task.stale = stale_after
    /\ task.at = "fetch" => age <= stale_after + task.elapsed
    /\ task.at \in {"select", "fresh"} => age <= stale_after + timeout

ExternalInv ==
  /\ TypeOK /\ BatchInv /\ ReturnInv /\ DeliveryInv /\ ObserveInv /\ AgeInv
  /\ ValidInputHasRun
-----------------------------------------------------------------------------
\* Queues of messages

LEMMA AppendAt ==
  ASSUME NEW D, NEW q \in Seq(D), NEW m \in D
  PROVE  /\ Append(q, m) \in Seq(D) /\ Len(Append(q, m)) = Len(q) + 1
         /\ \A j \in 1 .. Len(q) : Append(q, m)[j] = q[j]
         /\ Append(q, m)[Len(q) + 1] = m
  BY AppendProperties

LEMMA TailAt ==
  ASSUME NEW D, NEW q \in Seq(D), q # <<>>
  PROVE  /\ Tail(q) \in Seq(D) /\ Len(q) \in Nat /\ Len(q) >= 1 /\ Len(Tail(q)) = Len(q) - 1
         /\ \A j \in 1 .. (Len(q) - 1) : Tail(q)[j] = q[j + 1]
         /\ Head(q) = q[1] /\ q[1] \in D
  BY HeadTailProperties, EmptySeq, LenProperties, ElementOfSeq

\* A message put into the queue changes nothing for those before it.
LEMMA BeforeAppended ==
  ASSUME NEW D, NEW q \in Seq(D), NEW m \in D, NEW i \in 1 .. (Len(q) + 1),
         NEW v, NEW h, NEW w, Before(q, i, v, h, w)
  PROVE  Before(Append(q, m), i, v, h, w)
<1> DEFINE a == Append(q, m)
<1>0. Len(q) \in Nat /\ i \in Nat
  BY LenProperties
<1>1. \A j \in 1 .. (i - 1) : a[j] = q[j]
  BY <1>0, AppendAt
<1> HIDE DEF a
<1>2. Before(a, i, v, h, w)
  <2>1. CASE h = w /\ \A j \in 1 .. (i - 1) : q[j].source # v
    BY <2>1, <1>1 DEF Before
  <2>2. CASE \E j \in 1 .. (i - 1) : /\ q[j].source = v /\ q[j].value = w
                                     /\ \A k \in (j + 1) .. (i - 1) : q[k].source # v
    <3>1. PICK j \in 1 .. (i - 1) : /\ q[j].source = v /\ q[j].value = w
                                    /\ \A k \in (j + 1) .. (i - 1) : q[k].source # v
      BY <2>2
    <3>2. a[j].source = v /\ a[j].value = w
      BY <3>1, <1>1
    <3>3. \A k \in (j + 1) .. (i - 1) : a[k].source # v
      BY <3>1, <1>1, <1>0
    <3> QED
      BY <3>2, <3>3 DEF Before
  <2> QED
    BY <2>1, <2>2 DEF Before
<1> QED
  BY <1>2 DEF a

\* A message of another source does not change where the queue ends ...
LEMMA EndsAppended ==
  ASSUME NEW D, NEW q \in Seq(D), NEW m \in D,
         NEW v, NEW h, NEW w, Ends(q, v, h, w), m.source # v
  PROVE  Ends(Append(q, m), v, h, w)
<1> DEFINE a == Append(q, m)
<1>0. Len(q) \in Nat /\ Len(a) = Len(q) + 1 /\ a[Len(q) + 1] = m
  BY LenProperties, AppendAt
<1>1. Before(a, Len(q) + 1, v, h, w)
  BY <1>0, BeforeAppended DEF Ends
<1> HIDE DEF a
<1>2. Before(a, Len(q) + 2, v, h, w)
  <2>1. CASE h = w /\ \A j \in 1 .. (Len(q) + 1 - 1) : a[j].source # v
    <3>1. \A j \in 1 .. (Len(q) + 2 - 1) : a[j].source # v
      BY <2>1, <1>0
    <3> QED
      BY <2>1, <3>1 DEF Before
  <2>2. CASE \E j \in 1 .. (Len(q) + 1 - 1) :
                /\ a[j].source = v /\ a[j].value = w
                /\ \A k \in (j + 1) .. (Len(q) + 1 - 1) : a[k].source # v
    <3>1. PICK j \in 1 .. (Len(q) + 1 - 1) :
                /\ a[j].source = v /\ a[j].value = w
                /\ \A k \in (j + 1) .. (Len(q) + 1 - 1) : a[k].source # v
      BY <2>2
    <3>2. \A k \in (j + 1) .. (Len(q) + 2 - 1) : a[k].source # v
      BY <3>1, <1>0
    <3>3. j \in 1 .. (Len(q) + 2 - 1)
      BY <1>0
    <3> QED
      BY <3>1, <3>2, <3>3 DEF Before
  <2> QED
    BY <2>1, <2>2, <1>1 DEF Before
<1>3. Len(q) + 2 = Len(a) + 1
  BY <1>0
<1>4. Before(a, Len(a) + 1, v, h, w)
  BY <1>2, <1>3
<1> QED
  BY <1>4 DEF Ends, a

\* ... and one of this source ends it.
LEMMA EndsWith ==
  ASSUME NEW D, NEW q \in Seq(D), NEW m \in D, NEW h
  PROVE  Ends(Append(q, m), m.source, h, m.value)
<1> DEFINE a == Append(q, m)
<1>0. Len(q) \in Nat /\ Len(a) = Len(q) + 1 /\ a[Len(q) + 1] = m
  BY LenProperties, AppendAt
<1> HIDE DEF a
<1>1. /\ Len(q) + 1 \in 1 .. (Len(a) + 1 - 1)
      /\ \A k \in (Len(q) + 1 + 1) .. (Len(a) + 1 - 1) : a[k].source # m.source
  BY <1>0
<1>2. Before(a, Len(a) + 1, m.source, h, m.value)
  BY <1>0, <1>1 DEF Before
<1> QED
  BY <1>2 DEF Ends, a

\* The first message is applied: the input holds h2.
LEMMA BeforeTail ==
  ASSUME NEW D, NEW q \in Seq(D), q # <<>>, NEW i \in 1 .. Len(q),
         NEW v, NEW h, NEW h2, NEW w, Before(q, i + 1, v, h, w),
         q[1].source # v => h2 = h,
         q[1].source = v /\ q[1].value = w => h2 = w
  PROVE  Before(Tail(q), i, v, h2, w)
<1> DEFINE t == Tail(q)
<1>0. Len(q) \in Nat /\ i \in Nat /\ i >= 1 /\ i <= Len(q)
  BY LenProperties
<1>1. \A j \in 1 .. (i - 1) : t[j] = q[j + 1]
  BY <1>0, TailAt
<1> HIDE DEF t
<1>2. Before(t, i, v, h2, w)
  <2>1. CASE h = w /\ \A j \in 1 .. (i + 1 - 1) : q[j].source # v
    <3>1. q[1].source # v
      BY <2>1, <1>0
    <3>2. \A j \in 1 .. (i - 1) : t[j].source # v
      BY <2>1, <1>0, <1>1
    <3> QED
      BY <3>1, <3>2, <2>1 DEF Before
  <2>2. CASE \E j \in 1 .. (i + 1 - 1) :
                /\ q[j].source = v /\ q[j].value = w
                /\ \A k \in (j + 1) .. (i + 1 - 1) : q[k].source # v
    <3>1. PICK j \in 1 .. (i + 1 - 1) :
                /\ q[j].source = v /\ q[j].value = w
                /\ \A k \in (j + 1) .. (i + 1 - 1) : q[k].source # v
      BY <2>2
    <3>2. CASE j = 1
      <4>1. h2 = w
        BY <3>1, <3>2
      <4>2. \A k \in 1 .. (i - 1) : t[k].source # v
        BY <3>1, <3>2, <1>0, <1>1
      <4> QED
        BY <4>1, <4>2 DEF Before
    <3>3. CASE j # 1
      <4>1. j - 1 \in 1 .. (i - 1) /\ t[j - 1] = q[j]
        BY <3>3, <1>0, <1>1
      <4>2. \A k \in ((j - 1) + 1) .. (i - 1) : t[k].source # v
        BY <3>1, <3>3, <1>0, <1>1
      <4> QED
        BY <4>1, <4>2, <3>1 DEF Before
    <3> QED
      BY <3>2, <3>3
  <2> QED
    BY <2>1, <2>2 DEF Before
<1> QED
  BY <1>2 DEF t

LEMMA EndsTail ==
  ASSUME NEW D, NEW q \in Seq(D), q # <<>>,
         NEW v, NEW h, NEW h2, NEW w, Ends(q, v, h, w),
         q[1].source # v => h2 = h,
         q[1].source = v /\ q[1].value = w => h2 = w
  PROVE  Ends(Tail(q), v, h2, w)
<1>0. Len(q) \in Nat /\ Len(q) >= 1 /\ Len(Tail(q)) + 1 = Len(q)
  BY TailAt
<1>1. Len(q) \in 1 .. Len(q)
  BY <1>0
<1>2. Before(Tail(q), Len(q), v, h2, w)
  BY <1>1, BeforeTail DEF Ends
<1> QED
  BY <1>0, <1>2 DEF Ends

LEMMA EndsNow ==
  ASSUME NEW q, NEW v, NEW h, \A j \in 1 .. (Len(q) + 1 - 1) : q[j].source # v
  PROVE  Ends(q, v, h, h)
  BY DEF Ends, Before

\* Where nothing of v is in the queue, the input holds what the queue ends with.
LEMMA EndsEmpty ==
  ASSUME NEW q, NEW v, NEW h, NEW w, Len(q) \in Nat, Ends(q, v, h, w),
         \A j \in 1 .. Len(q) : q[j].source # v
  PROVE  h = w
<1>1. \A j \in 1 .. (Len(q) + 1 - 1) : q[j].source # v
  OBVIOUS
<1> QED
  BY <1>1 DEF Ends, Before
-----------------------------------------------------------------------------
\* The batches of a poll

Updates == {"Observe", "Trigger", "Invalidate"}

LEMMA MessagesOf ==
  ASSUME NEW updates \in [PollValues -> Updates], NEW values \in [PollValues -> Optional]
  PROVE  /\ Messages(updates, values) \in Seq(Message)
         /\ \A i \in 1 .. Len(Messages(updates, values)) :
              LET m == Messages(updates, values)[i]
              IN  /\ m.source \in PollValues
                  /\ m.update = updates[m.source] /\ m.value = values[m.source]
         /\ \A v \in PollValues :
              \E i \in 1 .. Len(Messages(updates, values)) : Messages(updates, values)[i].source = v
<1>0. Len(PollOrder) \in Nat /\ \A i \in 1 .. Len(PollOrder) : PollOrder[i] \in PollValues
  BY PollAssumption, LenProperties, ElementOfSeq
<1> DEFINE ms == Messages(updates, values)
<1>1. ms = [i \in 1 .. Len(PollOrder) |->
              [source |-> PollOrder[i], update |-> updates[PollOrder[i]],
               value |-> values[PollOrder[i]], reply |-> None]]
  BY DEF Messages
<1>2. \A i \in 1 .. Len(PollOrder) :
        [source |-> PollOrder[i], update |-> updates[PollOrder[i]],
         value |-> values[PollOrder[i]], reply |-> None] \in Message
  BY <1>0 DEF Message, Sources, Updates
<1>3. ms \in [1 .. Len(PollOrder) -> Message]
  BY <1>1, <1>2
<1>4. ms \in Seq(Message)
  BY <1>0, <1>3
<1>5. Len(ms) = Len(PollOrder)
  <2>1. DOMAIN ms = 1 .. Len(PollOrder)
    BY <1>1
  <2> HIDE DEF ms
  <2>2. Len(ms) \in Nat /\ DOMAIN ms = 1 .. Len(ms)
    BY <1>4, LenProperties
  <2> QED
    BY <2>1, <2>2, <1>0
<1>6. \A i \in 1 .. Len(PollOrder) :
        /\ ms[i].source = PollOrder[i] /\ ms[i].update = updates[PollOrder[i]]
        /\ ms[i].value = values[PollOrder[i]]
  BY <1>1
<1> HIDE DEF ms
<1>7. \A v \in PollValues : \E i \in 1 .. Len(PollOrder) : ms[i].source = v
  <2> SUFFICES ASSUME NEW v \in PollValues
               PROVE  \E i \in 1 .. Len(PollOrder) : ms[i].source = v
    OBVIOUS
  <2>1. PICK i \in 1 .. Len(PollOrder) : PollOrder[i] = v
    BY PollAssumption
  <2> QED
    BY <2>1, <1>6
<1>8. \A i \in 1 .. Len(ms) : /\ ms[i].source \in PollValues
                              /\ ms[i].update = updates[ms[i].source]
                              /\ ms[i].value = values[ms[i].source]
  BY <1>0, <1>5, <1>6
<1>9. /\ ms \in Seq(Message)
      /\ \A v \in PollValues : \E i \in 1 .. Len(ms) : ms[i].source = v
  BY <1>4, <1>5, <1>7
<1> QED
  BY <1>8, <1>9 DEF ms

\* The poll's part of the card.
LEMMA CardWithOK ==
  ASSUME store.values \in [Sources -> Optional], NEW values \in [PollValues -> Optional]
  PROVE  /\ CardWith(values) \in [Sources -> Optional]
         /\ \A v \in PollValues : CardWith(values)[v] = values[v]
  BY DEF CardWith, Sources

LEMMA failure_delayOK ==
  ASSUME TypeOK
  PROVE  /\ failure_delay(task).retry \in 0 .. Len(HTTP_RETRY_DELAYS)
         /\ failure_delay(task).next \in 0 .. every
<1>0. /\ Len(HTTP_RETRY_DELAYS) \in Nat /\ Len(HTTP_RETRY_DELAYS) >= 1
      /\ \A i \in 1 .. Len(HTTP_RETRY_DELAYS) : HTTP_RETRY_DELAYS[i] \in Nat
  BY PollAssumption, LenProperties, EmptySeq, ElementOfSeq
<1>1. task.retry \in 0 .. Len(HTTP_RETRY_DELAYS) /\ every \in Nat
  BY PollAssumption DEF TypeOK, Task
<1>2. PICK last \in 1 .. Len(HTTP_RETRY_DELAYS) :
        last = IF task.retry + 1 > Len(HTTP_RETRY_DELAYS)
               THEN Len(HTTP_RETRY_DELAYS) ELSE task.retry + 1
  BY <1>0, <1>1
<1>3. PICK delay \in Nat : delay = HTTP_RETRY_DELAYS[last]
  BY <1>0
<1>4. failure_delay(task) =
        [retry |-> IF task.retry < Len(HTTP_RETRY_DELAYS) THEN task.retry + 1 ELSE task.retry,
         next  |-> IF delay < every THEN delay ELSE every]
  BY <1>2, <1>3 DEF failure_delay
<1>5. failure_delay(task).next = IF delay < every THEN delay ELSE every
  BY <1>4
<1>6. failure_delay(task).retry =
        IF task.retry < Len(HTTP_RETRY_DELAYS) THEN task.retry + 1 ELSE task.retry
  BY <1>4
<1> QED
  BY <1>0, <1>1, <1>5, <1>6
-----------------------------------------------------------------------------
\* Types

LEMMA InitTypes == Init => TypeOK
<1> SUFFICES ASSUME Init PROVE TypeOK
  OBVIOUS
<1>0. /\ Len(HTTP_RETRY_DELAYS) \in Nat /\ every \in Nat /\ timeout \in Nat /\ stale_after \in Nat
      /\ MaxDenied \in Nat /\ external_input_queue \in Nat
  BY PollAssumption, LenProperties
<1>1. <<>> \in Seq(Message) /\ Len(<<>>) = 0
  OBVIOUS
<1>2. [v \in PollValues |-> None] \in [PollValues -> Optional]
  BY DEF Optional
<1>3. [s \in Sources |-> None] \in [Sources -> Optional]
  BY DEF Optional
<1>4. task \in Task
  BY <1>0, <1>1, <1>2 DEF Init, Task
<1>5. store \in Card
  BY <1>0, <1>3 DEF Init, Card
<1>6. hook \in [Requests -> Hook]
  BY DEF Init, Hook, Optional
<1>7. /\ lane \in Seq(Message) /\ Len(lane) <= external_input_queue
      /\ input \in [Sources -> Optional] /\ ran \in [Sources -> Optional]
  BY <1>0, <1>1, <1>3 DEF Init
<1>8. denied \in 0 .. MaxDenied /\ age \in 0 .. TooOld
  BY <1>0 DEF Init, TooOld
<1> QED
  BY <1>4, <1>5, <1>6, <1>7, <1>8 DEF Init, TypeOK

LEMMA GoStaleTypes == ASSUME TypeOK, GoStale PROVE TypeOK'
<1>1. task' \in Task
  <2>1. PICK ms \in Seq(Message) : task' = [task EXCEPT !.at = "stale", !.toSend = ms]
    BY MessagesOf DEF GoStale, Optional, Updates
  <2> QED
    BY <2>1 DEF TypeOK, Task, Sending
<1> QED
  BY <1>1 DEF TypeOK, GoStale

LEMMA AttemptTypes == ASSUME TypeOK, record_external_poll_attempt PROVE TypeOK'
<1>0. 0 \in 0 .. timeout
  BY PollAssumption
<1>1. task' \in Task
  BY <1>0 DEF TypeOK, Task, record_external_poll_attempt
<1> QED
  BY <1>1 DEF TypeOK, record_external_poll_attempt

\* What an answer is made of.
LEMMA Fetched ==
  ASSUME TypeOK, FetchSucceeds
  PROVE  \E answer \in [PollValues -> Values], ms \in Seq(Message) :
           /\ task' = [task EXCEPT !.at = "fresh", !.retry = 0, !.fresh = TRUE, !.stale = stale_after,
                                   !.values = answer, !.toSend = ms]
           /\ store' = [store EXCEPT !.status = "healthy", !.failures = 0, !.values = CardWith(answer)]
           /\ \A i \in 1 .. Len(ms) :
                /\ ms[i].source \in PollValues /\ ms[i].value = answer[ms[i].source]
                /\ ms[i].update = IF task.values[ms[i].source] = answer[ms[i].source]
                                  THEN "Observe" ELSE "Trigger"
           /\ \A v \in PollValues : \E i \in 1 .. Len(ms) : ms[i].source = v
<1>1. PICK answer \in [PollValues -> Values] :
        /\ task' = [task EXCEPT
            !.at = "fresh", !.retry = 0, !.fresh = TRUE, !.stale = stale_after,
            !.values = answer,
            !.toSend = Messages([v \in PollValues |->
                                    IF task.values[v] = answer[v] THEN "Observe" ELSE "Trigger"],
                                answer)]
        /\ store' = [store EXCEPT !.status = "healthy", !.failures = 0,
                                  !.values = CardWith(answer)]
  BY DEF FetchSucceeds
<1>2. PICK updates : updates = [v \in PollValues |->
                                  IF task.values[v] = answer[v] THEN "Observe" ELSE "Trigger"]
  OBVIOUS
<1>3. updates \in [PollValues -> Updates]
  BY <1>2 DEF Updates
<1>4. answer \in [PollValues -> Optional]
  BY DEF Optional
<1>5. PICK ms \in Seq(Message) : ms = Messages(updates, answer)
  BY <1>3, <1>4, MessagesOf
<1>6. /\ ms \in Seq(Message)
      /\ \A i \in 1 .. Len(ms) : /\ ms[i].source \in PollValues
                                 /\ ms[i].update = updates[ms[i].source]
                                 /\ ms[i].value = answer[ms[i].source]
      /\ \A v \in PollValues : \E i \in 1 .. Len(ms) : ms[i].source = v
  BY <1>3, <1>4, <1>5, MessagesOf
<1>7. \A i \in 1 .. Len(ms) :
        ms[i].update = IF task.values[ms[i].source] = answer[ms[i].source]
                       THEN "Observe" ELSE "Trigger"
  BY <1>2, <1>6
<1>8. task' = [task EXCEPT !.at = "fresh", !.retry = 0, !.fresh = TRUE, !.stale = stale_after,
                           !.values = answer, !.toSend = ms]
  BY <1>1, <1>2, <1>5
<1>9. \A i \in 1 .. Len(ms) :
        /\ ms[i].source \in PollValues /\ ms[i].value = answer[ms[i].source]
        /\ ms[i].update = IF task.values[ms[i].source] = answer[ms[i].source]
                          THEN "Observe" ELSE "Trigger"
  BY <1>6, <1>7
<1> WITNESS answer \in [PollValues -> Values], ms \in Seq(Message)
<1> QED
  BY <1>1, <1>6, <1>8, <1>9

LEMMA FetchSucceedsTypes == ASSUME TypeOK, FetchSucceeds PROVE TypeOK'
<1>1. PICK answer \in [PollValues -> Values], ms \in Seq(Message) :
        /\ task' = [task EXCEPT !.at = "fresh", !.retry = 0, !.fresh = TRUE, !.stale = stale_after,
                                !.values = answer, !.toSend = ms]
        /\ store' = [store EXCEPT !.status = "healthy", !.failures = 0, !.values = CardWith(answer)]
  BY Fetched
<1>2. /\ 0 \in 0 .. Len(HTTP_RETRY_DELAYS) /\ stale_after \in 0 .. stale_after
      /\ stale_after \in Nat /\ timeout \in Nat
  BY PollAssumption, LenProperties
<1>3. answer \in [PollValues -> Optional]
  BY DEF Optional
<1>4. task' \in Task
  BY <1>1, <1>2, <1>3 DEF TypeOK, Task, Sending
<1>5. CardWith(answer) \in [Sources -> Optional]
  <2>1. store.values \in [Sources -> Optional]
    BY DEF TypeOK, Card
  <2> QED
    BY <2>1, <1>3, CardWithOK
<1>6. store' \in Card
  BY <1>1, <1>2, <1>5 DEF TypeOK, Card
<1>7. age' \in 0 .. TooOld
  BY <1>2 DEF FetchSucceeds, TooOld
<1> QED
  BY <1>4, <1>6, <1>7 DEF TypeOK, FetchSucceeds

LEMMA FetchFailsTypes == ASSUME TypeOK, FetchFails PROVE TypeOK'
<1>0. Len(HTTP_RETRY_DELAYS) \in Nat
  BY PollAssumption, LenProperties
<1>1. task' \in Task
  <2>1. PICK retry \in 0 .. Len(HTTP_RETRY_DELAYS), next \in 0 .. every :
          task' = [task EXCEPT !.at = "select", !.retry = retry, !.next = next]
    BY failure_delayOK DEF FetchFails
  <2> QED
    BY <2>1 DEF TypeOK, Task
<1>2. store' \in Card
  <2>1. store.failures \in 0 .. Len(HTTP_RETRY_DELAYS)
    BY DEF TypeOK, Card
  <2>2. PICK n \in 0 .. Len(HTTP_RETRY_DELAYS) :
          n = IF store.failures < Len(HTTP_RETRY_DELAYS) THEN store.failures + 1 ELSE store.failures
    BY <1>0, <2>1
  <2>3. store' = [store EXCEPT !.status = "failing", !.failures = n]
    BY <2>2 DEF FetchFails, TypeOK, Card
  <2> QED
    BY <2>3 DEF TypeOK, Card
<1> QED
  BY <1>1, <1>2 DEF TypeOK, FetchFails
\* The head of a batch, and what is left of it.
LEMMA HeadOfBatch ==
  ASSUME TypeOK, task.toSend # <<>>
  PROVE  /\ Head(task.toSend) \in Message /\ Head(task.toSend) = task.toSend[1]
         /\ Tail(task.toSend) \in Seq(Message)
         /\ Len(task.toSend) \in Nat /\ Len(task.toSend) >= 1
         /\ Len(Tail(task.toSend)) = Len(task.toSend) - 1
         /\ \A j \in 1 .. (Len(task.toSend) - 1) : Tail(task.toSend)[j] = task.toSend[j + 1]
<1>1. task.toSend \in Seq(Message)
  BY DEF TypeOK, Task
<1> QED
  BY <1>1, TailAt

LEMMA TrySendTypes == ASSUME TypeOK, TrySend PROVE TypeOK'
<1>0. lane \in Seq(Message) /\ Len(lane) \in Nat /\ external_input_queue \in Nat
  BY PollAssumption, LenProperties DEF TypeOK
<1>1. CASE session # "ended" /\ Len(lane) < external_input_queue
  <2>1. PICK m \in Message : m = Head(task.toSend)
    BY HeadOfBatch DEF TrySend
  <2>2. lane' \in Seq(Message) /\ Len(lane') = Len(lane) + 1
    BY <2>1, <1>0, <1>1, AppendAt DEF TrySend
  <2>3. PICK rest \in Seq(Message) : rest = Tail(task.toSend)
    BY HeadOfBatch DEF TrySend
  <2>4. task' = [task EXCEPT !.toSend = rest] /\ fatal' = fatal
    BY <2>3, <1>1 DEF TrySend
  <2>5. task' \in Task
    BY <2>4 DEF TypeOK, Task
  <2>6. Len(lane') <= external_input_queue
    BY <2>2, <1>0, <1>1
  <2> QED
    BY <2>2, <2>4, <2>5, <2>6 DEF TrySend, TypeOK
<1>2. CASE ~(session # "ended" /\ Len(lane) < external_input_queue)
  <2>1. task' = [task EXCEPT !.at = "returned", !.toSend = <<>>] /\ lane' = lane
    BY <1>2 DEF TrySend
  <2>2. <<>> \in Seq(Message)
    OBVIOUS
  <2>3. task' \in Task
    BY <2>1, <2>2 DEF TypeOK, Task
  <2>4. fatal' \in {"none", "heard", "missed"}
    BY <1>2 DEF TrySend, Fail, TypeOK
  <2> QED
    BY <2>1, <2>3, <2>4 DEF TrySend, TypeOK
<1> QED
  BY <1>1, <1>2

LEMMA SentAllTypes == ASSUME TypeOK, SentAll PROVE TypeOK'
<1>0. every \in 0 .. every
  BY PollAssumption
<1>1. CASE task.at = "stale"
  <2>1. PICK none \in [PollValues -> Optional] : none = [v \in PollValues |-> None]
    BY DEF Optional
  <2>2. task' = [task EXCEPT !.at = "select", !.fresh = FALSE, !.values = none]
    BY <1>1, <2>1 DEF SentAll
  <2>3. task' \in Task
    BY <2>2 DEF TypeOK, Task
  <2>4. store.values \in [Sources -> Optional]
    BY DEF TypeOK, Card
  <2>5. PICK card \in [Sources -> Optional] : card = CardWith(none)
    BY <2>4, CardWithOK
  <2>6. store' = [store EXCEPT !.status = "stale", !.values = card]
    BY <1>1, <2>1, <2>5 DEF SentAll
  <2>7. store' \in Card
    BY <2>6 DEF TypeOK, Card
  <2> QED
    BY <2>3, <2>7 DEF SentAll, TypeOK
<1>2. CASE task.at # "stale"
  <2>1. task' = [task EXCEPT !.at = "select", !.next = every] /\ store' = store
    BY <1>2 DEF SentAll
  <2>2. task' \in Task
    BY <2>1, <1>0 DEF TypeOK, Task
  <2> QED
    BY <2>1, <2>2 DEF SentAll, TypeOK
<1> QED
  BY <1>1, <1>2

LEMMA ShutdownTypes == ASSUME TypeOK, Shutdown PROVE TypeOK'
<1>1. <<>> \in Seq(Message)
  OBVIOUS
<1>2. task' \in Task
  BY <1>1 DEF Shutdown, TypeOK, Task
<1> QED
  BY <1>2 DEF Shutdown, TypeOK

LEMMA PostTypes == ASSUME TypeOK, NEW r \in Requests, Post(r) PROVE TypeOK'
<1>0. lane \in Seq(Message) /\ Len(lane) \in Nat /\ external_input_queue \in Nat
  BY PollAssumption, LenProperties DEF TypeOK
<1>1. CASE session # "ended" /\ Len(lane) < external_input_queue
  <2>1. PICK w \in Values :
          /\ lane' = Append(lane, [source |-> Webhook, update |-> "Trigger", value |-> w, reply |-> r])
          /\ hook' = [hook EXCEPT ![r] = [at |-> "waiting", value |-> w, reply |-> None]]
          /\ fatal' = fatal
    BY <1>1 DEF Post
  <2>2. PICK m \in Message : m = [source |-> Webhook, update |-> "Trigger", value |-> w, reply |-> r]
    BY DEF Message, Sources, Optional
  <2>3. lane' \in Seq(Message) /\ Len(lane') = Len(lane) + 1
    BY <2>1, <2>2, <1>0, AppendAt
  <2>4. Len(lane') <= external_input_queue
    BY <2>3, <1>0, <1>1
  <2>5. [at |-> "waiting", value |-> w, reply |-> None] \in Hook
    BY DEF Hook, Optional
  <2>6. hook' \in [Requests -> Hook]
    BY <2>1, <2>5 DEF TypeOK
  <2> QED
    BY <2>1, <2>3, <2>4, <2>6 DEF Post, TypeOK
<1>2. CASE ~(session # "ended" /\ Len(lane) < external_input_queue)
  <2>1. PICK w \in Values :
          /\ hook' = [hook EXCEPT ![r] = [at |-> "refused", value |-> w, reply |-> None]]
          /\ fatal' = IF session = "ended" THEN fatal ELSE Fail
          /\ lane' = lane
    BY <1>2 DEF Post
  <2>2. [at |-> "refused", value |-> w, reply |-> None] \in Hook
    BY DEF Hook, Optional
  <2>3. hook' \in [Requests -> Hook]
    BY <2>1, <2>2 DEF TypeOK
  <2>4. fatal' \in {"none", "heard", "missed"}
    BY <2>1 DEF Fail, TypeOK
  <2> QED
    BY <2>1, <2>3, <2>4 DEF Post, TypeOK
<1> QED
  BY <1>1, <1>2

LEMMA AnsweredTypes == ASSUME TypeOK, NEW r \in Requests, Answered(r) PROVE TypeOK'
<1>0. hook[r] \in Hook
  BY DEF TypeOK
<1>1. CASE hook[r].reply = "ok"
  <2>1. PICK h \in Hook : h = [hook[r] EXCEPT !.at = "accepted"]
    BY <1>0 DEF Hook
  <2>2. hook' \in [Requests -> Hook]
    BY <2>1, <1>1 DEF Answered, TypeOK
  <2>3. hook[r].value \in Optional /\ store.values \in [Sources -> Optional]
    BY <1>0 DEF Hook, TypeOK, Card
  <2>4. PICK card \in [Sources -> Optional] : card = [store.values EXCEPT ![Webhook] = hook[r].value]
    BY <2>3
  <2>5. store' \in Card
    BY <2>4, <1>1 DEF Answered, TypeOK, Card
  <2> QED
    BY <2>2, <2>5 DEF Answered, TypeOK
<1>2. CASE hook[r].reply # "ok"
  <2>1. PICK h \in Hook : h = [hook[r] EXCEPT !.at = "refused"]
    BY <1>0 DEF Hook
  <2>2. hook' \in [Requests -> Hook] /\ store' = store
    BY <2>1, <1>2 DEF Answered, TypeOK
  <2> QED
    BY <2>2 DEF Answered, TypeOK
<1> QED
  BY <1>1, <1>2

LEMMA TimedOutTypes == ASSUME TypeOK, NEW r \in Requests, TimedOut(r) PROVE TypeOK'
<1>0. hook[r] \in Hook
  BY DEF TypeOK
<1>1. PICK h \in Hook : h = [hook[r] EXCEPT !.at = "timed out"]
  BY <1>0 DEF Hook
<1>2. hook' \in [Requests -> Hook]
  BY <1>1 DEF TimedOut, TypeOK
<1> QED
  BY <1>2 DEF TimedOut, TypeOK

\* The message the session applies, and what the lane keeps.
LEMMA HeadOfLane ==
  ASSUME TypeOK, lane # <<>>
  PROVE  /\ Head(lane) \in Message /\ Head(lane) = lane[1]
         /\ Tail(lane) \in Seq(Message)
         /\ Len(lane) \in Nat /\ Len(lane) >= 1 /\ Len(Tail(lane)) = Len(lane) - 1
         /\ \A j \in 1 .. (Len(lane) - 1) : Tail(lane)[j] = lane[j + 1]
<1>1. lane \in Seq(Message)
  BY DEF TypeOK
<1> QED
  BY <1>1, TailAt

LEMMA ApplyTypes == ASSUME TypeOK, apply_external_input PROVE TypeOK'
<1>1. PICK m \in Message : m = Head(lane)
  BY HeadOfLane DEF apply_external_input
<1>2. PICK outcome \in Outcomes(m.update) :
        /\ denied' = IF outcome = "done" THEN denied ELSE denied + 1
        /\ input' = IF outcome = "rolled back" THEN input ELSE [input EXCEPT ![m.source] = m.value]
        /\ ran' = IF m.update = "Invalidate" THEN [ran EXCEPT ![m.source] = None]
                  ELSE IF m.update = "Trigger" /\ outcome \in {"done", "failed"}
                       THEN [ran EXCEPT ![m.source] = m.value] ELSE ran
        /\ hook' = IF m.reply = None THEN hook
                   ELSE [hook EXCEPT ![m.reply] = [hook[m.reply] EXCEPT
                           !.reply = IF outcome \in {"done", "observed"} THEN "ok" ELSE "error"]]
  BY <1>1 DEF apply_external_input
<1>3. m.source \in Sources /\ m.value \in Optional /\ m.reply \in Requests \cup {None}
  BY DEF Message
<1>4. input' \in [Sources -> Optional]
  BY <1>2, <1>3 DEF TypeOK
<1>5. ran' \in [Sources -> Optional]
  BY <1>2, <1>3 DEF TypeOK, Optional
<1>6. denied' \in 0 .. MaxDenied
  <2>1. denied \in 0 .. MaxDenied /\ MaxDenied \in Nat
    BY PollAssumption DEF TypeOK
  <2>2. outcome # "done" => denied < MaxDenied
    BY DEF Outcomes
  <2>3. CASE outcome = "done"
    BY <2>1, <2>3, <1>2
  <2>4. CASE outcome # "done"
    <3>1. denied' = denied + 1
      BY <2>4, <1>2
    <3> QED
      BY <2>1, <2>2, <2>4, <3>1
  <2> QED
    BY <2>3, <2>4
<1>7. hook' \in [Requests -> Hook]
  <2>1. CASE m.reply = None
    BY <2>1, <1>2 DEF TypeOK
  <2>2. CASE m.reply # None
    <3>1. hook[m.reply] \in Hook /\ m.reply \in Requests
      BY <2>2, <1>3 DEF TypeOK
    <3>2. PICK h \in Hook : h = [hook[m.reply] EXCEPT
                                   !.reply = IF outcome \in {"done", "observed"} THEN "ok" ELSE "error"]
      BY <3>1 DEF Hook
    <3>3. hook' = [hook EXCEPT ![m.reply] = h]
      BY <3>2, <2>2, <1>2
    <3> QED
      BY <3>1, <3>3 DEF TypeOK
  <2> QED
    BY <2>1, <2>2
<1>8. lane' \in Seq(Message) /\ Len(lane') <= external_input_queue
  <2>1. lane' = Tail(lane) /\ Tail(lane) \in Seq(Message)
    BY HeadOfLane DEF apply_external_input
  <2>2. Len(lane) \in Nat /\ Len(Tail(lane)) = Len(lane) - 1
    BY HeadOfLane DEF apply_external_input
  <2>3. Len(lane) <= external_input_queue /\ external_input_queue \in Nat
    BY PollAssumption DEF TypeOK
  <2> QED
    BY <2>1, <2>2, <2>3
<1> QED
  BY <1>4, <1>5, <1>6, <1>7, <1>8 DEF apply_external_input, TypeOK

LEMMA SessionEndsTypes == ASSUME TypeOK, SessionEnds PROVE TypeOK'
<1>1. <<>> \in Seq(Message) /\ Len(<<>>) = 0 /\ external_input_queue \in Nat
  BY PollAssumption
<1>2. \A r \in Requests : hook[r] \in Hook
  BY DEF TypeOK
<1>3. \A r \in Requests : [hook[r] EXCEPT !.reply = "error"] \in Hook
  BY <1>2 DEF Hook
<1>4. hook' \in [Requests -> Hook]
  BY <1>2, <1>3 DEF SessionEnds
<1>5. lane' = <<>> /\ session' = "ended"
  BY DEF SessionEnds
<1> QED
  BY <1>1, <1>4, <1>5 DEF SessionEnds, TypeOK

LEMMA TickTypes == ASSUME TypeOK, Tick PROVE TypeOK'
<1>0. /\ task.next \in 0 .. every /\ task.stale \in 0 .. stale_after /\ task.elapsed \in 0 .. timeout
      /\ every \in Nat /\ stale_after \in Nat /\ timeout \in Nat
      /\ age \in 0 .. TooOld /\ TooOld \in Nat
  BY PollAssumption DEF TypeOK, Task, TooOld
<1>1. Less(task.next) \in 0 .. every /\ Less(task.stale) \in 0 .. stale_after
  BY <1>0 DEF Less
<1>2. task.at = "fetch" => task.elapsed < timeout
  BY DEF Tick
<1>3. PICK elapsed \in 0 .. timeout :
        elapsed = IF task.at = "fetch" THEN task.elapsed + 1 ELSE task.elapsed
  BY <1>0, <1>2
<1>4. task' = [task EXCEPT !.next = Less(task.next), !.stale = Less(task.stale), !.elapsed = elapsed]
  BY <1>3 DEF Tick, TypeOK, Task
<1>5. task' \in Task
  BY <1>1, <1>4 DEF TypeOK, Task
<1>6. age' \in 0 .. TooOld
  BY <1>0 DEF Tick
<1> QED
  BY <1>5, <1>6 DEF Tick, TypeOK
-----------------------------------------------------------------------------
\* The invariant: it holds at the start, ...

LEMMA InitExternal == Init => ExternalInv
<1> SUFFICES ASSUME Init PROVE ExternalInv
  OBVIOUS
<1>1. /\ task.at = "select" /\ task.toSend = <<>> /\ task.fresh = FALSE
      /\ \A v \in PollValues : task.values[v] = None
      /\ \A v \in PollValues : store.values[v] = None /\ input[v] = None
      /\ lane = <<>> /\ Len(lane) = 0 /\ Len(task.toSend) = 0
  BY DEF Init, Sources
<1>2. BatchInv /\ ReturnInv /\ AgeInv
  BY <1>1 DEF BatchInv, ReturnInv, AgeInv, Sending
<1>3. \A v \in PollValues : Ends(lane, v, input[v], None)
  <2>1. \A v \in PollValues : \A j \in 1 .. (Len(lane) + 1 - 1) : lane[j].source # v
    BY <1>1
  <2>2. \A v \in PollValues : input[v] = None
    BY <1>1
  <2> QED
    BY <2>1, <2>2, EndsNow
<1>4. DeliveryInv
  BY <1>1, <1>3 DEF DeliveryInv
<1>5. ObserveInv /\ ValidInputHasRun
  BY <1>1 DEF ObserveInv, ValidInputHasRun
<1> QED
  BY <1>2, <1>4, <1>5, InitTypes DEF ExternalInv

\* ... and no step of the poll task, ...

LEMMA GoStaleKeeps == ASSUME ExternalInv, GoStale PROVE ExternalInv'
<1> USE DEF ExternalInv
<1>1. PICK ms \in Seq(Message) :
        /\ task' = [task EXCEPT !.at = "stale", !.toSend = ms]
        /\ \A i \in 1 .. Len(ms) : /\ ms[i].source \in PollValues
                                   /\ ms[i].update = "Invalidate" /\ ms[i].value = None
        /\ \A v \in PollValues : \E i \in 1 .. Len(ms) : ms[i].source = v
  <2>1. PICK none, invalidate :
          /\ none = [v \in PollValues |-> None] /\ invalidate = [v \in PollValues |-> "Invalidate"]
    OBVIOUS
  <2>2. none \in [PollValues -> Optional] /\ invalidate \in [PollValues -> Updates]
    BY <2>1 DEF Optional, Updates
  <2>3. PICK ms \in Seq(Message) : ms = Messages(invalidate, none)
    BY <2>2, MessagesOf
  <2>4. /\ \A i \in 1 .. Len(ms) : /\ ms[i].source \in PollValues
                                   /\ ms[i].update = invalidate[ms[i].source]
                                   /\ ms[i].value = none[ms[i].source]
        /\ \A v \in PollValues : \E i \in 1 .. Len(ms) : ms[i].source = v
    BY <2>2, <2>3, MessagesOf
  <2>5. \A i \in 1 .. Len(ms) : ms[i].update = "Invalidate" /\ ms[i].value = None
    BY <2>1, <2>4
  <2>6. task' = [task EXCEPT !.at = "stale", !.toSend = ms]
    BY <2>1, <2>3 DEF GoStale
  <2> QED
    BY <2>4, <2>5, <2>6
<1>2. /\ task'.at = "stale" /\ task'.toSend = ms /\ task'.values = task.values
      /\ task'.fresh = task.fresh /\ task'.stale = task.stale
  BY <1>1 DEF TypeOK, Task
<1>3. /\ lane' = lane /\ session' = session /\ fatal' = fatal /\ store' = store /\ input' = input
      /\ denied' = denied /\ ran' = ran /\ age' = age /\ task.fresh = TRUE
  BY DEF GoStale, TypeOK, Task
<1>4. BatchInv'
  BY <1>1, <1>2, <1>3 DEF BatchInv, FromPoll, Sending
<1>5. ReturnInv'
  BY <1>2 DEF ReturnInv
<1>6. DeliveryInv'
  BY <1>1, <1>2, <1>3 DEF DeliveryInv, Sent
<1>7. ObserveInv'
  BY <1>1, <1>2, <1>3 DEF ObserveInv
<1>8. AgeInv' /\ ValidInputHasRun'
  BY <1>2, <1>3 DEF AgeInv, ValidInputHasRun
<1> QED
  BY <1>4, <1>5, <1>6, <1>7, <1>8, GoStaleTypes

LEMMA AttemptKeeps == ASSUME ExternalInv, record_external_poll_attempt PROVE ExternalInv'
<1> USE DEF ExternalInv
<1>2. /\ task'.at = "fetch" /\ task'.toSend = task.toSend /\ task'.values = task.values
      /\ task'.fresh = task.fresh /\ task'.stale = task.stale /\ task'.elapsed = 0
      /\ task.at = "select"
  BY DEF TypeOK, Task, record_external_poll_attempt
<1>3. /\ lane' = lane /\ session' = session /\ fatal' = fatal /\ store' = store /\ input' = input
      /\ denied' = denied /\ ran' = ran /\ age' = age
  BY DEF record_external_poll_attempt
<1>4. BatchInv'
  BY <1>2, <1>3 DEF BatchInv, Sending
<1>5. ReturnInv'
  BY <1>2 DEF ReturnInv
<1>6. DeliveryInv'
  BY <1>2, <1>3 DEF DeliveryInv, Sent, Working
<1>7. ObserveInv' /\ ValidInputHasRun'
  BY <1>2, <1>3 DEF ObserveInv, ValidInputHasRun
<1>8. AgeInv'
  <2>1. task.fresh => task.stale # 0
    BY DEF record_external_poll_attempt
  <2>2. task.stale \in Nat /\ age \in Nat /\ stale_after \in Nat
    BY PollAssumption DEF TypeOK, Task, TooOld
  <2> QED
    BY <1>2, <1>3, <2>1, <2>2 DEF AgeInv
<1> QED
  BY <1>4, <1>5, <1>6, <1>7, <1>8, AttemptTypes

LEMMA FetchSucceedsKeeps == ASSUME ExternalInv, FetchSucceeds PROVE ExternalInv'
<1> USE DEF ExternalInv
<1>1. PICK answer \in [PollValues -> Values], ms \in Seq(Message) :
        /\ task' = [task EXCEPT !.at = "fresh", !.retry = 0, !.fresh = TRUE, !.stale = stale_after,
                                !.values = answer, !.toSend = ms]
        /\ store' = [store EXCEPT !.status = "healthy", !.failures = 0, !.values = CardWith(answer)]
        /\ \A i \in 1 .. Len(ms) :
             /\ ms[i].source \in PollValues /\ ms[i].value = answer[ms[i].source]
             /\ ms[i].update = IF task.values[ms[i].source] = answer[ms[i].source]
                               THEN "Observe" ELSE "Trigger"
        /\ \A v \in PollValues : \E i \in 1 .. Len(ms) : ms[i].source = v
  BY Fetched
<1>2. /\ task'.at = "fresh" /\ task'.toSend = ms /\ task'.values = answer
      /\ task'.fresh = TRUE /\ task'.stale = stale_after
  BY <1>1 DEF TypeOK, Task
<1>3. /\ lane' = lane /\ session' = session /\ fatal' = fatal /\ input' = input
      /\ denied' = denied /\ ran' = ran /\ age' = 0 /\ task.at = "fetch"
  BY DEF FetchSucceeds
<1>4. BatchInv'
  <2>1. \A v \in PollValues : answer[v] # None
    BY PollAssumption
  <2>2. \A i \in 1 .. Len(ms) : FromPoll(ms[i])
    BY <1>1, <2>1 DEF FromPoll
  <2> QED
    BY <1>1, <1>2, <1>3, <2>2 DEF BatchInv, Sending
<1>5. ReturnInv'
  BY <1>2 DEF ReturnInv
<1>6. DeliveryInv'
  <2>1. store.values \in [Sources -> Optional] /\ answer \in [PollValues -> Optional]
    BY DEF TypeOK, Card, Optional
  <2>2. \A v \in PollValues : CardWith(answer)[v] = answer[v]
    BY <2>1, CardWithOK
  <2>3. store'.values = CardWith(answer)
    BY <1>1 DEF TypeOK, Card
  <2> QED
    BY <1>1, <1>2, <2>2, <2>3 DEF DeliveryInv, Sent
<1>7. ObserveInv'
  <2> SUFFICES ASSUME session # "ended", denied = 0 PROVE ObserveInv'
    BY <1>3 DEF ObserveInv
  <2>1. \A v \in PollValues : Ends(lane, v, input[v], task.values[v])
    <3>1. task.toSend = <<>> /\ Len(task.toSend) = 0
      BY <1>3 DEF BatchInv, Sending
    <3>2. \A v \in PollValues : Sent(v)
      BY <3>1 DEF Sent
    <3> QED
      BY <3>2, <1>3 DEF DeliveryInv, Working
  <2>2. \A i \in 1 .. Len(ms) : ms[i].update = "Observe" =>
          Ends(lane, ms[i].source, input[ms[i].source], ms[i].value)
    BY <1>1, <2>1
  <2> QED
    BY <2>2, <1>2, <1>3 DEF ObserveInv
<1>8. AgeInv' /\ ValidInputHasRun'
  BY <1>2, <1>3, PollAssumption DEF AgeInv, ValidInputHasRun
<1> QED
  BY <1>4, <1>5, <1>6, <1>7, <1>8, FetchSucceedsTypes

LEMMA FetchFailsKeeps == ASSUME ExternalInv, FetchFails PROVE ExternalInv'
<1> USE DEF ExternalInv
<1>1. PICK retry, next : task' = [task EXCEPT !.at = "select", !.retry = retry, !.next = next]
  BY DEF FetchFails
<1>2. /\ task'.at = "select" /\ task'.toSend = task.toSend /\ task'.values = task.values
      /\ task'.fresh = task.fresh /\ task'.stale = task.stale /\ task.at = "fetch"
  BY <1>1 DEF TypeOK, Task, FetchFails
<1>3. /\ lane' = lane /\ session' = session /\ fatal' = fatal /\ input' = input
      /\ denied' = denied /\ ran' = ran /\ age' = age /\ store'.values = store.values
  BY DEF FetchFails, TypeOK, Card
<1>4. BatchInv'
  BY <1>2, <1>3 DEF BatchInv, Sending
<1>5. ReturnInv'
  BY <1>2 DEF ReturnInv
<1>6. DeliveryInv'
  BY <1>2, <1>3 DEF DeliveryInv, Sent, Working
<1>7. ObserveInv' /\ ValidInputHasRun'
  BY <1>2, <1>3 DEF ObserveInv, ValidInputHasRun
<1>8. AgeInv'
  <2>1. task.elapsed \in 0 .. timeout /\ timeout \in Nat /\ age \in Nat /\ stale_after \in Nat
    BY PollAssumption DEF TypeOK, Task, TooOld
  <2> QED
    BY <1>2, <1>3, <2>1 DEF AgeInv
<1> QED
  BY <1>4, <1>5, <1>6, <1>7, <1>8, FetchFailsTypes
LEMMA TrySendKeeps == ASSUME ExternalInv, TrySend PROVE ExternalInv'
<1> USE DEF ExternalInv
<1>0. /\ task.at \in Sending /\ session' = session /\ store' = store /\ input' = input
      /\ denied' = denied /\ ran' = ran /\ age' = age
  BY DEF TrySend
<1>a. ValidInputHasRun'
  BY <1>0 DEF ValidInputHasRun
<1>1. CASE session # "ended" /\ Len(lane) < external_input_queue
  <2> DEFINE old == task.toSend
  <2>0. /\ old \in Seq(Message) /\ Len(old) \in Nat /\ Len(old) >= 1
        /\ Len(Tail(old)) = Len(old) - 1
        /\ \A j \in 1 .. (Len(old) - 1) : Tail(old)[j] = old[j + 1]
    BY HeadOfBatch DEF TrySend, TypeOK, Task
  <2>1. PICK m \in Message : m = Head(old) /\ m = old[1]
    BY HeadOfBatch DEF TrySend
  <2>2. PICK q \in Seq(Message) : q = lane
    BY DEF TypeOK
  <2>3. lane' = Append(q, m) /\ fatal' = fatal /\ task' = [task EXCEPT !.toSend = Tail(old)]
    BY <1>1, <2>1, <2>2 DEF TrySend
  <2>4. /\ task'.at = task.at /\ task'.toSend = Tail(old) /\ task'.values = task.values
        /\ task'.fresh = task.fresh /\ task'.stale = task.stale /\ task'.elapsed = task.elapsed
    BY <2>3 DEF TypeOK, Task
  <2>5. /\ Len(q) \in Nat /\ Len(lane') = Len(q) + 1 /\ lane'[Len(q) + 1] = m
        /\ \A j \in 1 .. Len(q) : lane'[j] = q[j]
    BY <2>3, AppendAt, LenProperties
  <2>6. \A j \in 1 .. Len(task'.toSend) : j + 1 \in 1 .. Len(old) /\ task'.toSend[j] = old[j + 1]
    BY <2>0, <2>4
  <2>7. /\ FromPoll(m)
        /\ task.at = "stale" => m.update = "Invalidate"
        /\ task.at = "fresh" => m.value = task.values[m.source]
    BY <2>0, <2>1 DEF BatchInv
  <2> HIDE DEF old
  <2>8. BatchInv'
    <3>1. \A i \in 1 .. Len(lane') : lane'[i].source # Webhook => FromPoll(lane'[i])
      <4>1. \A i \in 1 .. Len(q) : q[i].source # Webhook => FromPoll(q[i])
        BY <2>2 DEF BatchInv
      <4>2. \A i \in 1 .. Len(lane') : i \in 1 .. Len(q) \/ i = Len(q) + 1
        BY <2>5
      <4> QED
        BY <4>1, <4>2, <2>5, <2>7
    <3>2. \A i \in 1 .. Len(task'.toSend) :
            /\ FromPoll(task'.toSend[i])
            /\ task.at = "stale" => task'.toSend[i].update = "Invalidate"
            /\ task.at = "fresh" => task'.toSend[i].value = task.values[task'.toSend[i].source]
      BY <2>6 DEF BatchInv, old
    <3> QED
      BY <3>1, <3>2, <2>4, <1>0 DEF BatchInv
  <2>9. ReturnInv' /\ AgeInv'
    BY <1>0, <2>3, <2>4 DEF ReturnInv, AgeInv
  \* where the lane ends, for those whose turn is over
  <2>10. ASSUME NEW v \in PollValues, Sent(v)' PROVE m.source = v \/ (m.source # v /\ Sent(v))
    <3>1. ASSUME m.source # v, NEW i \in 1 .. Len(old) PROVE old[i].source # v
      <4>1. CASE i = 1
        BY <4>1, <3>1, <2>1
      <4>2. CASE i # 1
        <5>1. i - 1 \in 1 .. Len(task'.toSend) /\ task'.toSend[i - 1] = old[i]
          BY <4>2, <2>0, <2>4
        <5> QED
          BY <5>1, <2>10 DEF Sent
      <4> QED
        BY <4>1, <4>2
    <3> QED
      BY <3>1 DEF Sent, old
  <2>11. DeliveryInv'
    <3> SUFFICES ASSUME Working', NEW v \in PollValues
                 PROVE  /\ task.at # "stale" => store.values[v] = task.values[v]
                        /\ denied = 0 /\ task.at # "stale" /\ Sent(v)' =>
                              Ends(lane', v, input[v], task.values[v])
                        /\ (task.at = "stale" \/ ~task.fresh) /\ Sent(v)' =>
                              Ends(lane', v, input[v], None)
      BY <1>0, <2>4 DEF DeliveryInv
    <3>1. Working
      BY <1>0, <2>4 DEF Working
    <3>2. task.at # "stale" => store.values[v] = task.values[v]
      BY <3>1 DEF DeliveryInv
    <3>3. CASE ~Sent(v)'
      BY <3>2, <3>3
    <3>4. CASE Sent(v)' /\ m.source = v
      <4>1. Ends(lane', v, input[v], m.value)
        BY <2>3, <3>4, EndsWith
      <4>2. task.at = "stale" => m.value = None
        BY <2>7 DEF FromPoll
      <4>3. task.at = "fresh" \/ task.at = "stale"
        BY <1>0 DEF Sending
      <4>4. task.at = "fresh" => task.fresh = TRUE
        BY DEF BatchInv, Sending
      <4> QED
        BY <4>1, <4>2, <4>3, <4>4, <3>2, <3>4, <2>7
    <3>5. CASE Sent(v)' /\ m.source # v
      <4>1. Sent(v)
        BY <2>10, <3>5
      <4>2. \A w : Ends(q, v, input[v], w) => Ends(lane', v, input[v], w)
        BY <2>3, <3>5, EndsAppended
      <4> QED
        BY <4>1, <4>2, <3>1, <3>2, <2>2 DEF DeliveryInv
    <3> QED
      BY <3>3, <3>4, <3>5
  <2>12. ObserveInv'
    <3> SUFFICES ASSUME denied = 0
                 PROVE  /\ \A i \in 1 .. Len(lane') :
                             lane'[i].source \in PollValues /\ lane'[i].update = "Observe" =>
                               Before(lane', i, lane'[i].source, input[lane'[i].source], lane'[i].value)
                        /\ \A i \in 1 .. Len(task'.toSend) :
                             task'.toSend[i].update = "Observe" =>
                               Ends(lane', task'.toSend[i].source, input[task'.toSend[i].source],
                                    task'.toSend[i].value)
      BY <1>0 DEF ObserveInv
    <3>1. /\ \A i \in 1 .. Len(q) :
               q[i].source \in PollValues /\ q[i].update = "Observe" =>
                 Before(q, i, q[i].source, input[q[i].source], q[i].value)
          /\ \A i \in 1 .. Len(old) :
               old[i].update = "Observe" =>
                 Ends(q, old[i].source, input[old[i].source], old[i].value)
      BY <1>1, <2>2 DEF ObserveInv, old
    <3>2. ASSUME NEW i \in 1 .. Len(lane'), lane'[i].source \in PollValues, lane'[i].update = "Observe"
          PROVE  Before(lane', i, lane'[i].source, input[lane'[i].source], lane'[i].value)
      <4>1. CASE i \in 1 .. Len(q)
        <5>1. lane'[i] = q[i] /\ i \in 1 .. (Len(q) + 1)
          BY <4>1, <2>5
        <5>2. Before(q, i, q[i].source, input[q[i].source], q[i].value)
          BY <5>1, <4>1, <3>1, <3>2
        <5>3. Before(Append(q, m), i, q[i].source, input[q[i].source], q[i].value)
          BY <5>1, <5>2, BeforeAppended
        <5> QED
          BY <5>1, <5>3, <2>3
      <4>2. CASE i \notin 1 .. Len(q)
        <5>1. i = Len(q) + 1 /\ lane'[i] = m /\ i \in 1 .. (Len(q) + 1)
          BY <4>2, <2>5
        <5>2. Ends(q, m.source, input[m.source], m.value)
          BY <5>1, <3>1, <3>2, <2>0, <2>1
        <5>3. Before(q, i, m.source, input[m.source], m.value)
          BY <5>1, <5>2 DEF Ends
        <5>4. Before(Append(q, m), i, m.source, input[m.source], m.value)
          BY <5>1, <5>3, BeforeAppended
        <5> QED
          BY <5>1, <5>4, <2>3
      <4> QED
        BY <4>1, <4>2
    <3>3. ASSUME NEW i \in 1 .. Len(task'.toSend), task'.toSend[i].update = "Observe"
          PROVE  Ends(lane', task'.toSend[i].source, input[task'.toSend[i].source],
                      task'.toSend[i].value)
      <4>1. PICK o : o = task'.toSend[i] /\ o = old[i + 1] /\ i + 1 \in 1 .. Len(old)
        BY <2>6
      <4>2. o.update = "Observe" /\ Ends(q, o.source, input[o.source], o.value)
        BY <4>1, <3>1, <3>3
      <4>3. CASE m.source # o.source
        <5>1. Ends(Append(q, m), o.source, input[o.source], o.value)
          BY <4>2, <4>3, EndsAppended
        <5> QED
          BY <5>1, <4>1, <2>3
      <4>4. CASE m.source = o.source
        <5>1. task.at = "fresh"
          BY <4>1, <4>2, <1>0 DEF BatchInv, Sending, old
        <5>2. o.value = m.value
          BY <5>1, <4>1, <4>4, <2>7 DEF BatchInv, old
        <5>3. Ends(Append(q, m), m.source, input[o.source], m.value)
          BY EndsWith
        <5> QED
          BY <5>2, <5>3, <4>1, <4>4, <2>3
      <4> QED
        BY <4>3, <4>4
    <3> QED
      BY <3>2, <3>3
  <2> QED
    BY <2>8, <2>9, <2>11, <2>12, <1>a, TrySendTypes
<1>2. CASE ~(session # "ended" /\ Len(lane) < external_input_queue)
  <2>1. /\ task' = [task EXCEPT !.at = "returned", !.toSend = <<>>] /\ lane' = lane
        /\ fatal' = IF session = "ended" THEN fatal ELSE Fail
    BY <1>2 DEF TrySend
  <2>2. /\ task'.at = "returned" /\ task'.toSend = <<>> /\ task'.values = task.values
        /\ task'.fresh = task.fresh /\ task'.stale = task.stale /\ Len(task'.toSend) = 0
    BY <2>1 DEF TypeOK, Task
  <2>3. BatchInv'
    BY <2>1, <2>2 DEF BatchInv, Sending
  <2>4. ReturnInv'
    BY <1>0, <2>1 DEF ReturnInv, Fail
  <2>5. DeliveryInv' /\ AgeInv'
    BY <2>2, <1>0 DEF DeliveryInv, Working, AgeInv
  <2>6. ObserveInv'
    BY <2>1, <2>2, <1>0 DEF ObserveInv
  <2> QED
    BY <2>3, <2>4, <2>5, <2>6, <1>a, TrySendTypes
<1> QED
  BY <1>1, <1>2
LEMMA SentAllKeeps == ASSUME ExternalInv, SentAll PROVE ExternalInv'
<1> USE DEF ExternalInv
<1>0. /\ task.at \in Sending /\ task.toSend = <<>> /\ Len(task.toSend) = 0
      /\ lane' = lane /\ session' = session /\ fatal' = fatal /\ input' = input
      /\ denied' = denied /\ ran' = ran /\ age' = age
  BY DEF SentAll
<1>1. ValidInputHasRun'
  BY <1>0 DEF ValidInputHasRun
<1>2. /\ task'.at = "select" /\ task'.toSend = <<>> /\ Len(task'.toSend) = 0
      /\ task'.stale = task.stale
  BY <1>0 DEF SentAll, TypeOK, Task
<1>3. BatchInv' /\ ReturnInv' /\ ObserveInv'
  BY <1>0, <1>2 DEF BatchInv, ReturnInv, ObserveInv, Sending
<1>4. \A v \in PollValues : Sent(v)
  BY <1>0 DEF Sent
<1>5. Working' => Working
  BY <1>0 DEF Working, Sending
<1>6. CASE task.at = "stale"
  <2>1. PICK none \in [PollValues -> Optional] : none = [v \in PollValues |-> None]
    BY DEF Optional
  <2>2. task' = [task EXCEPT !.at = "select", !.fresh = FALSE, !.values = none]
    BY <1>6, <2>1 DEF SentAll
  <2>3. task'.fresh = FALSE /\ task'.values = none
    BY <2>2 DEF TypeOK, Task
  <2>4. store' = [store EXCEPT !.status = "stale", !.values = CardWith(none)]
    BY <1>6, <2>1 DEF SentAll
  <2>5. store'.values = CardWith(none)
    BY <2>4 DEF TypeOK, Card
  <2>6. store.values \in [Sources -> Optional]
    BY DEF TypeOK, Card
  <2>7. \A v \in PollValues : store'.values[v] = None /\ task'.values[v] = None
    BY <2>1, <2>3, <2>5, <2>6, CardWithOK
  <2>8. AgeInv'
    BY <2>3 DEF AgeInv
  <2>9. Working => \A v \in PollValues : Ends(lane, v, input[v], None)
    BY <1>4, <1>6 DEF DeliveryInv
  <2>10. DeliveryInv'
    BY <1>0, <1>2, <1>5, <2>7, <2>9 DEF DeliveryInv
  <2> QED
    BY <2>8, <2>10, <1>1, <1>3, SentAllTypes
<1>7. CASE task.at # "stale"
  <2>1. task' = [task EXCEPT !.at = "select", !.next = every] /\ store' = store
    BY <1>7 DEF SentAll
  <2>2. task'.fresh = task.fresh /\ task'.values = task.values /\ task.at = "fresh"
    BY <2>1, <1>0, <1>7 DEF TypeOK, Task, Sending
  <2>3. AgeInv'
    BY <1>0, <1>2, <2>2 DEF AgeInv
  <2>4. task.fresh = TRUE
    BY <1>0 DEF BatchInv
  <2>5. DeliveryInv'
    BY <1>0, <1>2, <1>4, <1>5, <2>1, <2>2, <2>4 DEF DeliveryInv
  <2> QED
    BY <2>3, <2>5, <1>1, <1>3, SentAllTypes
<1> QED
  BY <1>6, <1>7

LEMMA ShutdownKeeps == ASSUME ExternalInv, Shutdown PROVE ExternalInv'
<1> USE DEF ExternalInv
<1>1. /\ task'.at = "returned" /\ task'.toSend = <<>> /\ Len(task'.toSend) = 0
      /\ task'.fresh = task.fresh /\ task'.stale = task.stale
  BY DEF Shutdown, TypeOK, Task
<1>2. /\ session = "ended" /\ session' = session /\ lane' = lane /\ fatal' = fatal /\ input' = input
      /\ denied' = denied /\ ran' = ran /\ age' = age
  BY DEF Shutdown
<1>3. BatchInv'
  BY <1>1, <1>2 DEF BatchInv, Sending
<1>4. ReturnInv' /\ DeliveryInv' /\ ObserveInv' /\ AgeInv' /\ ValidInputHasRun'
  BY <1>1, <1>2 DEF ReturnInv, DeliveryInv, Working, ObserveInv, AgeInv, ValidInputHasRun
<1> QED
  BY <1>3, <1>4, ShutdownTypes

\* ... no webhook request, ...

LEMMA PostKeeps == ASSUME ExternalInv, NEW r \in Requests, Post(r) PROVE ExternalInv'
<1> USE DEF ExternalInv
<1>0. /\ task' = task /\ store' = store /\ session' = session /\ input' = input
      /\ denied' = denied /\ ran' = ran /\ age' = age
  BY DEF Post
<1>a. ValidInputHasRun' /\ AgeInv'
  BY <1>0 DEF ValidInputHasRun, AgeInv
<1>1. CASE session # "ended" /\ Len(lane) < external_input_queue
  <2>1. PICK w \in Values :
          /\ lane' = Append(lane, [source |-> Webhook, update |-> "Trigger", value |-> w, reply |-> r])
          /\ fatal' = fatal
    BY <1>1 DEF Post
  <2>2. PICK m \in Message : m = [source |-> Webhook, update |-> "Trigger", value |-> w, reply |-> r]
    BY DEF Message, Sources, Optional
  <2>3. m.source = Webhook /\ m.source \notin PollValues
    BY <2>2, PollAssumption
  <2>4. PICK q \in Seq(Message) : q = lane
    BY DEF TypeOK
  <2>5. lane' = Append(q, m)
    BY <2>1, <2>2, <2>4
  <2>6. /\ Len(q) \in Nat /\ Len(lane') = Len(q) + 1 /\ lane'[Len(q) + 1] = m
        /\ \A j \in 1 .. Len(q) : lane'[j] = q[j]
    BY <2>5, AppendAt, LenProperties
  <2>7. \A i \in 1 .. Len(lane') : i \in 1 .. Len(q) \/ (i = Len(q) + 1 /\ lane'[i] = m)
    BY <2>6
  <2>8. \A v \in PollValues : \A h, z : Ends(q, v, h, z) => Ends(lane', v, h, z)
    BY <2>3, <2>5, EndsAppended
  <2>9. BatchInv'
    <3>1. \A i \in 1 .. Len(q) : q[i].source # Webhook => FromPoll(q[i])
      BY <2>4 DEF BatchInv
    <3>2. \A i \in 1 .. Len(lane') : lane'[i].source # Webhook => FromPoll(lane'[i])
      BY <3>1, <2>3, <2>6, <2>7
    <3> QED
      BY <3>2, <1>0 DEF BatchInv
  <2>10. ReturnInv'
    BY <1>0, <2>1 DEF ReturnInv
  <2>11. DeliveryInv'
    <3> SUFFICES ASSUME Working, NEW v \in PollValues
                 PROVE  /\ task.at # "stale" => store.values[v] = task.values[v]
                        /\ denied = 0 /\ task.at # "stale" /\ Sent(v) =>
                              Ends(lane', v, input[v], task.values[v])
                        /\ (task.at = "stale" \/ ~task.fresh) /\ Sent(v) =>
                              Ends(lane', v, input[v], None)
      BY <1>0 DEF DeliveryInv, Working, Sent
    <3> QED
      BY <2>4, <2>8 DEF DeliveryInv
  <2>12. ObserveInv'
    <3> SUFFICES ASSUME denied = 0
                 PROVE  /\ \A i \in 1 .. Len(lane') :
                             lane'[i].source \in PollValues /\ lane'[i].update = "Observe" =>
                               Before(lane', i, lane'[i].source, input[lane'[i].source], lane'[i].value)
                        /\ \A i \in 1 .. Len(task.toSend) :
                             task.toSend[i].update = "Observe" =>
                               Ends(lane', task.toSend[i].source, input[task.toSend[i].source],
                                    task.toSend[i].value)
      BY <1>0 DEF ObserveInv
    <3>1. /\ \A i \in 1 .. Len(q) :
               q[i].source \in PollValues /\ q[i].update = "Observe" =>
                 Before(q, i, q[i].source, input[q[i].source], q[i].value)
          /\ \A i \in 1 .. Len(task.toSend) :
               task.toSend[i].update = "Observe" =>
                 Ends(q, task.toSend[i].source, input[task.toSend[i].source], task.toSend[i].value)
      BY <1>1, <2>4 DEF ObserveInv
    <3>2. ASSUME NEW i \in 1 .. Len(lane'), lane'[i].source \in PollValues, lane'[i].update = "Observe"
          PROVE  Before(lane', i, lane'[i].source, input[lane'[i].source], lane'[i].value)
      <4>1. lane'[i] = q[i] /\ i \in 1 .. Len(q) /\ i \in 1 .. (Len(q) + 1)
        BY <2>3, <2>6, <2>7, <3>2
      <4>2. Before(q, i, q[i].source, input[q[i].source], q[i].value)
        BY <4>1, <3>1, <3>2
      <4>3. Before(Append(q, m), i, q[i].source, input[q[i].source], q[i].value)
        BY <4>1, <4>2, BeforeAppended
      <4> QED
        BY <4>1, <4>3, <2>5
    <3>3. \A i \in 1 .. Len(task.toSend) : task.toSend[i].source \in PollValues
      BY DEF BatchInv, FromPoll
    <3> QED
      BY <3>1, <3>2, <3>3, <2>8
  <2> QED
    BY <2>9, <2>10, <2>11, <2>12, <1>a, PostTypes
<1>2. CASE ~(session # "ended" /\ Len(lane) < external_input_queue)
  <2>1. lane' = lane /\ fatal' = IF session = "ended" THEN fatal ELSE Fail
    BY <1>2 DEF Post
  <2>2. BatchInv' /\ DeliveryInv' /\ ObserveInv'
    BY <1>0, <2>1 DEF BatchInv, DeliveryInv, Working, Sent, ObserveInv
  <2>3. ReturnInv'
    BY <1>0, <2>1 DEF ReturnInv, Fail
  <2> QED
    BY <2>2, <2>3, <1>a, PostTypes
<1> QED
  BY <1>1, <1>2

LEMMA AnsweredKeeps == ASSUME ExternalInv, NEW r \in Requests, Answered(r) PROVE ExternalInv'
<1> USE DEF ExternalInv
<1>1. /\ task' = task /\ lane' = lane /\ session' = session /\ fatal' = fatal /\ input' = input
      /\ denied' = denied /\ ran' = ran /\ age' = age
  BY DEF Answered
<1>2. \A v \in PollValues : store'.values[v] = store.values[v]
  <2>1. store.values \in [Sources -> Optional]
    BY DEF TypeOK, Card
  <2>2. CASE hook[r].reply = "ok"
    <3>1. store'.values = [store.values EXCEPT ![Webhook] = hook[r].value]
      BY <2>2 DEF Answered, TypeOK, Card
    <3> QED
      BY <3>1, <2>1, PollAssumption DEF Sources
  <2>3. CASE hook[r].reply # "ok"
    BY <2>3 DEF Answered
  <2> QED
    BY <2>2, <2>3
<1>3. DeliveryInv'
  BY <1>1, <1>2 DEF DeliveryInv, Working, Sent
<1>4. BatchInv' /\ ReturnInv' /\ ObserveInv' /\ AgeInv' /\ ValidInputHasRun'
  BY <1>1 DEF BatchInv, ReturnInv, ObserveInv, AgeInv, ValidInputHasRun
<1> QED
  BY <1>3, <1>4, AnsweredTypes
\* ... and nothing the session does with a message breaks it.

LEMMA ApplyKeeps == ASSUME ExternalInv, apply_external_input PROVE ExternalInv'
<1> USE DEF ExternalInv
<1>1. PICK q \in Seq(Message) : q = lane /\ q # <<>>
  BY DEF TypeOK, apply_external_input
<1>2. PICK m \in Message : m = Head(lane) /\ m = q[1]
  BY <1>1, HeadOfLane DEF apply_external_input
<1>3. PICK outcome \in Outcomes(m.update) :
        /\ denied' = IF outcome = "done" THEN denied ELSE denied + 1
        /\ input' = IF outcome = "rolled back" THEN input ELSE [input EXCEPT ![m.source] = m.value]
        /\ ran' = IF m.update = "Invalidate" THEN [ran EXCEPT ![m.source] = None]
                  ELSE IF m.update = "Trigger" /\ outcome \in {"done", "failed"}
                       THEN [ran EXCEPT ![m.source] = m.value] ELSE ran
  BY <1>2 DEF apply_external_input
<1>4. /\ lane' = Tail(q) /\ task' = task /\ store' = store /\ session' = session
      /\ fatal' = fatal /\ age' = age /\ session = "running"
  BY <1>1 DEF apply_external_input
<1>5. /\ Len(q) \in Nat /\ Len(q) >= 1 /\ Len(lane') = Len(q) - 1
      /\ \A j \in 1 .. (Len(q) - 1) : lane'[j] = q[j + 1]
  BY <1>1, <1>4, TailAt
<1>6. m.source \in Sources /\ m.value \in Optional /\ m.update \in Updates
  BY DEF Message, Updates
<1>7. denied' = 0 => denied = 0 /\ outcome = "done"
  <2>1. denied \in Nat
    BY DEF TypeOK
  <2>2. CASE outcome # "done"
    <3>1. denied' = denied + 1
      BY <2>2, <1>3
    <3> QED
      BY <3>1, <2>1
  <2> QED
    BY <2>2, <1>3
\* what becomes of the inputs
<1>8. \A v \in PollValues : m.source # v => input'[v] = input[v]
  BY <1>3, <1>6 DEF TypeOK, Sources
<1>9. outcome = "done" => \A v \in PollValues : m.source = v => input'[v] = m.value
  BY <1>3, <1>6 DEF TypeOK, Sources
<1>10. m.source \in PollValues => FromPoll(m)
  BY <1>1, <1>2, <1>5, PollAssumption DEF BatchInv
<1>11. m.source \in PollValues /\ m.value = None => outcome = "done"
  BY <1>10 DEF FromPoll, Outcomes
<1>12. \A v \in PollValues : Ends(q, v, input[v], None) => Ends(lane', v, input'[v], None)
  <2> SUFFICES ASSUME NEW v \in PollValues, Ends(q, v, input[v], None)
               PROVE  Ends(lane', v, input'[v], None)
    OBVIOUS
  <2>1. q[1].source # v => input'[v] = input[v]
    BY <1>2, <1>8
  <2>2. q[1].source = v /\ q[1].value = None => input'[v] = None
    BY <1>2, <1>9, <1>11
  <2>3. Ends(Tail(q), v, input'[v], None)
    BY <2>1, <2>2, <1>1, EndsTail
  <2> QED
    BY <2>3, <1>4
<1>13. outcome = "done" =>
         \A v \in PollValues : \A w : Ends(q, v, input[v], w) => Ends(lane', v, input'[v], w)
  <2> SUFFICES ASSUME outcome = "done", NEW v \in PollValues, NEW w, Ends(q, v, input[v], w)
               PROVE  Ends(lane', v, input'[v], w)
    OBVIOUS
  <2>1. q[1].source # v => input'[v] = input[v]
    BY <1>2, <1>8
  <2>2. q[1].source = v /\ q[1].value = w => input'[v] = w
    BY <1>2, <1>9
  <2>3. Ends(Tail(q), v, input'[v], w)
    BY <2>1, <2>2, <1>1, EndsTail
  <2> QED
    BY <2>3, <1>4
<1>14. BatchInv'
  <2>1. \A i \in 1 .. Len(q) : q[i].source # Webhook => FromPoll(q[i])
    BY <1>1 DEF BatchInv
  <2>2. \A i \in 1 .. Len(lane') : i + 1 \in 1 .. Len(q) /\ lane'[i] = q[i + 1]
    BY <1>5
  <2>3. \A i \in 1 .. Len(lane') : lane'[i].source # Webhook => FromPoll(lane'[i])
    BY <2>1, <2>2
  <2> QED
    BY <2>3, <1>4 DEF BatchInv
<1>15. ReturnInv' /\ AgeInv'
  BY <1>4 DEF ReturnInv, AgeInv
<1>16. DeliveryInv'
  <2> SUFFICES ASSUME Working, NEW v \in PollValues
               PROVE  /\ task.at # "stale" => store.values[v] = task.values[v]
                      /\ denied' = 0 /\ task.at # "stale" /\ Sent(v) =>
                            Ends(lane', v, input'[v], task.values[v])
                      /\ (task.at = "stale" \/ ~task.fresh) /\ Sent(v) =>
                            Ends(lane', v, input'[v], None)
    BY <1>4 DEF DeliveryInv, Working, Sent
  <2>1. task.at # "stale" => store.values[v] = task.values[v]
    BY DEF DeliveryInv
  <2>2. ASSUME denied' = 0, task.at # "stale", Sent(v)
        PROVE  Ends(lane', v, input'[v], task.values[v])
    <3>1. Ends(q, v, input[v], task.values[v])
      BY <2>2, <1>1, <1>7 DEF DeliveryInv
    <3> QED
      BY <3>1, <2>2, <1>7, <1>13
  <2>3. ASSUME task.at = "stale" \/ ~task.fresh, Sent(v)
        PROVE  Ends(lane', v, input'[v], None)
    <3>1. Ends(q, v, input[v], None)
      BY <2>3, <1>1 DEF DeliveryInv
    <3> QED
      BY <3>1, <1>12
  <2> QED
    BY <2>1, <2>2, <2>3
<1>17. ObserveInv'
  <2> SUFFICES ASSUME denied' = 0
               PROVE  /\ \A i \in 1 .. Len(lane') :
                           lane'[i].source \in PollValues /\ lane'[i].update = "Observe" =>
                             Before(lane', i, lane'[i].source, input'[lane'[i].source], lane'[i].value)
                      /\ \A i \in 1 .. Len(task.toSend) :
                           task.toSend[i].update = "Observe" =>
                             Ends(lane', task.toSend[i].source, input'[task.toSend[i].source],
                                  task.toSend[i].value)
    BY <1>4 DEF ObserveInv
  <2>0. denied = 0 /\ outcome = "done"
    BY <1>7
  <2>1. /\ \A i \in 1 .. Len(q) :
             q[i].source \in PollValues /\ q[i].update = "Observe" =>
               Before(q, i, q[i].source, input[q[i].source], q[i].value)
        /\ \A i \in 1 .. Len(task.toSend) :
             task.toSend[i].update = "Observe" =>
               Ends(q, task.toSend[i].source, input[task.toSend[i].source], task.toSend[i].value)
    BY <1>1, <1>4, <2>0 DEF ObserveInv
  <2>2. ASSUME NEW i \in 1 .. Len(lane'), lane'[i].source \in PollValues, lane'[i].update = "Observe"
        PROVE  Before(lane', i, lane'[i].source, input'[lane'[i].source], lane'[i].value)
    <3>1. PICK o : o = lane'[i] /\ o = q[i + 1]
      BY <1>5
    <3>2. i \in 1 .. Len(q) /\ i + 1 \in 1 .. Len(q)
      BY <1>5
    <3>3. Before(q, i + 1, o.source, input[o.source], o.value)
      BY <3>1, <3>2, <2>1, <2>2
    <3>4. q[1].source # o.source => input'[o.source] = input[o.source]
      BY <1>2, <1>8, <3>1, <2>2
    <3>5. q[1].source = o.source /\ q[1].value = o.value => input'[o.source] = o.value
      BY <1>2, <1>9, <3>1, <2>0, <2>2
    <3>6. Before(Tail(q), i, o.source, input'[o.source], o.value)
      BY <3>2, <3>3, <3>4, <3>5, <1>1, BeforeTail
    <3> QED
      BY <3>1, <3>6, <1>4
  <2>3. \A i \in 1 .. Len(task.toSend) : task.toSend[i].source \in PollValues
    BY DEF BatchInv, FromPoll
  <2> QED
    BY <2>0, <2>1, <2>2, <2>3, <1>13
<1>18. ValidInputHasRun'
  <2> SUFFICES ASSUME NEW v \in PollValues, denied' = 0, input'[v] # None
               PROVE  ran'[v] = input'[v]
    BY DEF ValidInputHasRun
  <2>0. denied = 0 /\ outcome = "done"
    BY <1>7
  <2>1. CASE m.source # v
    <3>1. input'[v] = input[v] /\ ran'[v] = ran[v]
      BY <2>1, <1>3, <1>6, <1>8 DEF TypeOK, Sources
    <3> QED
      BY <3>1, <2>0 DEF ValidInputHasRun
  <2>2. CASE m.source = v
    <3>0. input'[v] = m.value /\ FromPoll(m)
      BY <2>0, <2>2, <1>9, <1>10
    <3>1. CASE m.update = "Invalidate"
      BY <3>0, <3>1 DEF FromPoll
    <3>2. CASE m.update = "Trigger"
      <4>1. ran' = [ran EXCEPT ![m.source] = m.value]
        BY <3>2, <2>0, <1>3
      <4> QED
        BY <4>1, <3>0, <2>2 DEF TypeOK, Sources
    <3>3. CASE m.update = "Observe"
      <4>1. ran' = ran
        BY <3>3, <1>3
      <4>2. Before(q, 1, v, input[v], m.value)
        BY <3>3, <2>0, <2>2, <1>1, <1>2, <1>4, <1>5 DEF ObserveInv
      <4>3. input[v] = m.value
        BY <4>2 DEF Before
      <4> QED
        BY <4>1, <4>3, <3>0, <2>0 DEF ValidInputHasRun
    <3> QED
      BY <3>1, <3>2, <3>3, <1>6 DEF Updates
  <2> QED
    BY <2>1, <2>2
<1> QED
  BY <1>14, <1>15, <1>16, <1>17, <1>18, ApplyTypes

LEMMA SessionEndsKeeps == ASSUME ExternalInv, SessionEnds PROVE ExternalInv'
<1> USE DEF ExternalInv
<1>1. /\ session' = "ended" /\ lane' = <<>> /\ Len(lane') = 0 /\ task' = task /\ fatal' = fatal
      /\ input' = input /\ denied' = denied /\ ran' = ran /\ age' = age
  BY DEF SessionEnds
<1>2. BatchInv'
  BY <1>1 DEF BatchInv
<1>3. ReturnInv' /\ DeliveryInv' /\ ObserveInv' /\ AgeInv' /\ ValidInputHasRun'
  BY <1>1 DEF ReturnInv, DeliveryInv, Working, ObserveInv, AgeInv, ValidInputHasRun
<1> QED
  BY <1>2, <1>3, SessionEndsTypes

\* The deadline comes nearer as the answer gets older.
LEMMA TickKeeps == ASSUME ExternalInv, Tick PROVE ExternalInv'
<1> USE DEF ExternalInv
<1>0. /\ task.next \in Nat /\ task.stale \in Nat /\ task.elapsed \in 0 .. timeout
      /\ stale_after \in Nat /\ timeout \in Nat /\ age \in Nat
  BY PollAssumption DEF TypeOK, Task, TooOld
<1>1. /\ task'.at = task.at /\ task'.toSend = task.toSend /\ task'.values = task.values
      /\ task'.fresh = task.fresh /\ task'.stale = Less(task.stale)
      /\ task.at = "fetch" => task'.elapsed = task.elapsed + 1
  BY DEF Tick, TypeOK, Task
<1>2. /\ lane' = lane /\ session' = session /\ fatal' = fatal /\ store' = store /\ input' = input
      /\ denied' = denied /\ ran' = ran /\ age' = IF age < TooOld THEN age + 1 ELSE age
      /\ task.at \in {"select", "fetch"}
      /\ task.at = "select" /\ task.fresh => task.stale > 0
  BY DEF Tick
<1>3. BatchInv' /\ ReturnInv'
  BY <1>1, <1>2 DEF BatchInv, ReturnInv
<1>4. DeliveryInv'
  BY <1>1, <1>2 DEF DeliveryInv, Working, Sent
<1>5. ObserveInv' /\ ValidInputHasRun'
  BY <1>1, <1>2 DEF ObserveInv, ValidInputHasRun
<1>6. AgeInv'
  <2> SUFFICES ASSUME task.fresh
               PROVE  /\ task'.stale > 0 => age' + task'.stale = stale_after
                      /\ task.at = "fetch" => age' <= stale_after + task'.elapsed
                      /\ task.at \in {"select", "fresh"} => age' <= stale_after + timeout
    BY <1>1 DEF AgeInv
  <2>1. task'.stale = IF task.stale = 0 THEN 0 ELSE task.stale - 1
    BY <1>1 DEF Less
  <2>2. age' \in Nat /\ age' <= age + 1 /\ (age <= stale_after => age' = age + 1)
    BY <1>0, <1>2 DEF TooOld
  <2>3. task.stale > 0 => age + task.stale = stale_after
    BY DEF AgeInv
  <2>4. ASSUME task'.stale > 0 PROVE age' + task'.stale = stale_after
    <3>1. task.stale > 0 /\ task'.stale = task.stale - 1
      BY <2>1, <2>4, <1>0
    <3>2. age + task.stale = stale_after /\ age' = age + 1
      BY <3>1, <2>2, <2>3, <1>0
    <3> QED
      BY <3>1, <3>2, <1>0
  <2>5. task.at = "fetch" => age' <= stale_after + task'.elapsed
    BY <1>0, <1>1, <2>2 DEF AgeInv
  <2>6. task.at = "select" => age' <= stale_after + timeout
    BY <1>0, <1>2, <2>2, <2>3
  <2> QED
    BY <2>4, <2>5, <2>6, <1>2
<1> QED
  BY <1>3, <1>4, <1>5, <1>6, TickTypes

\* What these parts of the invariant do not mention may change.
LEMMA OthersKeep ==
  ASSUME ExternalInv, TypeOK',
         UNCHANGED <<task, store, lane, fatal, input, ran, denied, age>>,
         session' = "ended" <=> session = "ended"
  PROVE  ExternalInv'
<1>1. BatchInv' /\ ReturnInv'
  BY DEF ExternalInv, BatchInv, ReturnInv
<1>2. DeliveryInv'
  BY DEF ExternalInv, DeliveryInv, Working, Sent
<1>3. ObserveInv' /\ AgeInv' /\ ValidInputHasRun'
  BY DEF ExternalInv, ObserveInv, AgeInv, ValidInputHasRun
<1> QED
  BY <1>1, <1>2, <1>3 DEF ExternalInv

LEMMA NextExternal == ASSUME ExternalInv, [Next]_vars PROVE ExternalInv'
<1>1. CASE GoStale
  BY <1>1, GoStaleKeeps
<1>2. CASE record_external_poll_attempt
  BY <1>2, AttemptKeeps
<1>3. CASE FetchSucceeds
  BY <1>3, FetchSucceedsKeeps
<1>4. CASE FetchFails
  BY <1>4, FetchFailsKeeps
<1>5. CASE TrySend
  BY <1>5, TrySendKeeps
<1>6. CASE SentAll
  BY <1>6, SentAllKeeps
<1>7. CASE Shutdown
  BY <1>7, ShutdownKeeps
<1>8. ASSUME NEW r \in Requests, Post(r) PROVE ExternalInv'
  BY <1>8, PostKeeps
<1>9. ASSUME NEW r \in Requests, Answered(r) PROVE ExternalInv'
  BY <1>9, AnsweredKeeps
<1>10. ASSUME NEW r \in Requests, TimedOut(r) PROVE ExternalInv'
  <2>1. TypeOK'
    BY <1>10, TimedOutTypes DEF ExternalInv
  <2> QED
    BY <1>10, <2>1, OthersKeep DEF TimedOut
<1>11. CASE SessionStarts
  <2>1. TypeOK'
    BY <1>11 DEF ExternalInv, SessionStarts, TypeOK
  <2> QED
    BY <1>11, <2>1, OthersKeep DEF SessionStarts
<1>12. CASE apply_external_input
  BY <1>12, ApplyKeeps
<1>13. CASE SessionEnds
  BY <1>13, SessionEndsKeeps
<1>14. CASE Tick
  BY <1>14, TickKeeps
<1>15. CASE SourceChanges
  <2>1. TypeOK'
    BY <1>15 DEF ExternalInv, SourceChanges, TypeOK
  <2> QED
    BY <1>15, <2>1, OthersKeep DEF SourceChanges
<1>16. CASE UNCHANGED vars
  <2>1. TypeOK'
    BY <1>16 DEF ExternalInv, vars, TypeOK
  <2> QED
    BY <1>16, <2>1, OthersKeep DEF vars
<1> QED
  BY <1>1, <1>2, <1>3, <1>4, <1>5, <1>6, <1>7, <1>8, <1>9, <1>10, <1>11, <1>12, <1>13, <1>14,
     <1>15, <1>16 DEF Next

-----------------------------------------------------------------------------
\* The theorems

\* Whatever the server, the lane, the webhooks and the runtime do, the card, the lane and
\* the inputs are what the poll task takes them for.
THEOREM ExternalInvariant == Spec => []ExternalInv
  BY InitExternal, NextExternal, PTL DEF Spec

\* Every variable keeps its type, and the lane its capacity.
THEOREM ExternalTypes == Spec => []TypeOK
<1>1. ExternalInv => TypeOK
  BY DEF ExternalInv
<1> QED
  BY <1>1, ExternalInvariant, PTL

\* poll_loop: an input that is valid, with nothing left on its way to it, was answered at
\* most stale_after and one request's timeout ago, for any periods, and whatever the
\* runtime made of the messages before.
THEOREM HeldValueIsFreshHolds == Spec => []HeldValueIsFresh
<1>1. ExternalInv => HeldValueIsFresh
  <2> SUFFICES ASSUME ExternalInv, NEW v \in PollValues, Alive, Settled(v), input[v] # None
               PROVE  age <= stale_after + timeout
    BY DEF HeldValueIsFresh
  <2>0. task.at \in {"select", "fetch"} /\ Working
    BY DEF Alive, Settled, ExternalInv, ReturnInv, TypeOK, Task, Working
  <2>1. lane \in Seq(Message) /\ Len(lane) \in Nat
    BY LenProperties DEF ExternalInv, TypeOK
  <2>2. \A j \in 1 .. Len(lane) : lane[j].source # v
    BY <2>1, LenProperties DEF Settled
  <2>3. task.toSend = <<>> /\ Len(task.toSend) = 0
    BY <2>0 DEF ExternalInv, BatchInv, Sending
  <2>4. Sent(v)
    BY <2>3 DEF Sent
  <2>5. task.fresh
    <3>1. ASSUME ~task.fresh PROVE FALSE
      <4>1. Ends(lane, v, input[v], None)
        BY <3>1, <2>0, <2>4 DEF ExternalInv, DeliveryInv
      <4> QED
        BY <4>1, <2>1, <2>2, EndsEmpty
    <3> QED
      BY <3>1
  <2>6. task.elapsed \in 0 .. timeout /\ timeout \in Nat /\ stale_after \in Nat /\ age \in Nat
    BY PollAssumption DEF ExternalInv, TypeOK, Task, TooOld
  <2> QED
    BY <2>0, <2>5, <2>6 DEF ExternalInv, AgeInv
<1> QED
  BY <1>1, ExternalInvariant, PTL

\* record_external_poll_success and record_external_poll_stale: the card of the poll and
\* the inputs it feeds agree once the lane is drained, if the runtime took all it was sent.
THEOREM CardMatchesInputHolds == Spec => []CardMatchesInput
<1>1. ExternalInv => CardMatchesInput
  <2> SUFFICES ASSUME ExternalInv, NEW v \in PollValues, Alive, Settled(v), denied = 0
               PROVE  store.values[v] = input[v]
    BY DEF CardMatchesInput
  <2>0. task.at \in {"select", "fetch"} /\ Working
    BY DEF Alive, Settled, ExternalInv, ReturnInv, TypeOK, Task, Working
  <2>1. lane \in Seq(Message) /\ Len(lane) \in Nat
    BY LenProperties DEF ExternalInv, TypeOK
  <2>2. \A j \in 1 .. Len(lane) : lane[j].source # v
    BY <2>1, LenProperties DEF Settled
  <2>3. task.toSend = <<>> /\ Len(task.toSend) = 0
    BY <2>0 DEF ExternalInv, BatchInv, Sending
  <2>4. Sent(v)
    BY <2>3 DEF Sent
  <2>5. store.values[v] = task.values[v] /\ Ends(lane, v, input[v], task.values[v])
    BY <2>0, <2>4 DEF ExternalInv, DeliveryInv
  <2> QED
    BY <2>1, <2>2, <2>5, EndsEmpty
<1> QED
  BY <1>1, ExternalInvariant, PTL

\* poll_loop sends an unchanged value as an observation: the handler of a block whose
\* input is valid has run on the value it holds, for any interleaving of polls, stale
\* values, full lanes and webhooks.
THEOREM ValidInputHasRunHolds == Spec => []ValidInputHasRun
<1>1. ExternalInv => ValidInputHasRun
  BY DEF ExternalInv
<1> QED
  BY <1>1, ExternalInvariant, PTL
=============================================================================
