------------------------ MODULE DashboardStreamProofs ------------------------
(***************************************************************************)
(* Proofs about DashboardStream: what the page shows, what the connection  *)
(* will bring and when the poll loop runs, for every size of the journal,  *)
(* of the broadcast channel and of the connection.                         *)
(***************************************************************************)
EXTENDS DashboardStream, FiniteSetTheorems, SequenceTheorems, TLAPS

-----------------------------------------------------------------------------
(* The inductive invariant *)

\* The journal holds the last revisions, all of them from its first on.
JournalOK ==
  /\ Len(journal) <= revision
  /\ revision > 0 => Len(journal) > 0
  /\ \A i \in DOMAIN journal : journal[i] = revision - Len(journal) + i

\* Only a poll for changes is answered with 404, and nothing else happens before the
\* first snapshot was asked for and answered.
RequestOK ==
  /\ answer = NotFound => client.request = "changes"
  /\ answer # None => client.request # "none"
  /\ client.request = "start" =>
        client.source = "none" /\ ~client.reconnect /\ ~client.pollTimer /\ ~view.needsResync
  /\ client.reconnect => client.source = "none"
  /\ client.source # "none" \/ client.reconnect => view.snapshot # None

\* A connection that is not open carries nothing; an open one is not ahead of the store.
StreamOK ==
  /\ client.source # "open" => wire = <<>> /\ stream = Closed
  /\ client.source = "open" => stream.open
  /\ stream.next <= revision + 1

\* What the handler has still to replay: one resync, or the revisions before the first
\* one it takes from the broadcast.
ReplayOK ==
  \/ Len(stream.initial) = 1 /\ stream.initial[1].kind = "resync"
  \/ /\ Len(stream.initial) <= stream.next
     /\ \A k \in DOMAIN stream.initial :
          /\ stream.initial[k].kind = "update"
          /\ stream.initial[k].snapshot.revision = stream.next - Len(stream.initial) + k - 1

ReplaysResync == Len(stream.initial) > 0 /\ stream.initial[1].kind = "resync"

\* The revision of the next update the handler sends, unless it says resync.
Front == stream.next - Len(stream.initial)

\* The first j events of a connection are updates.
Clear(w, j) == \A i \in 1 .. j : w[i].kind = "update"

\* The updates of a connection w before its first resync follow each other and the cursor
\* without a gap, and front, the next update unless the replay says resync, follows them.
Chain(w, resync, front, cursor) ==
  /\ \A j \in DOMAIN w : Clear(w, j) => w[j].snapshot.revision = w[1].snapshot.revision + j - 1
  /\ Len(w) > 0 /\ Clear(w, Len(w)) /\ ~resync => front = w[1].snapshot.revision + Len(w)
  /\ Len(w) > 0 /\ Clear(w, 1) => w[1].snapshot.revision <= cursor + 1
  /\ Len(w) = 0 /\ ~resync => front <= cursor + 1

ChainOK == Chain(wire, ReplaysResync, Front, client.revision)

\* As long as no poll loop runs, the connection goes on from the cursor.
Chained ==
  \/ Polling
  \/ /\ client.source = "connecting" => client.since = client.revision
     /\ client.source = "open" => ChainOK

IInv ==
  /\ TypeOK /\ JournalOK /\ RequestOK /\ StreamOK
  /\ client.source = "open" => ReplayOK
  /\ Chained /\ ResyncIsUnderWay /\ ViewMatchesCursor

-----------------------------------------------------------------------------
(* Steps that leave the connection as it is *)

\* A sequence over a set, index by index.
LEMMA Elements ==
  ASSUME NEW S, NEW s \in Seq(S)
  PROVE  Len(s) \in Nat /\ DOMAIN s = 1 .. Len(s) /\ \A i \in 1 .. Len(s) : s[i] \in S
OBVIOUS

\* The last n entries of a sequence.
LEMMA LastEntries ==
  ASSUME NEW S, NEW s \in Seq(S), NEW n \in Nat, n <= Len(s),
         NEW t, t = SubSeq(s, Len(s) - n + 1, Len(s))
  PROVE  /\ t \in Seq(S) /\ Len(t) = n
         /\ \A i \in 1 .. n : t[i] = s[Len(s) - n + i]
<1> DEFINE m == Len(s) - n + 1
           l == Len(s)
<1>1. /\ m \in Int /\ l \in Int /\ m <= l + 1 /\ l - m + 1 = n /\ l \in Nat /\ m >= 1
      /\ \A i \in 1 .. l : s[i] \in S
  BY Elements
<1>2. \A i \in 1 .. n : m + i - 1 = Len(s) - n + i
  BY <1>1
<1>3. t = SubSeq(s, m, l)
  OBVIOUS
<1> HIDE DEF m, l
<1>4. \A i \in m .. l : s[i] \in S
  BY <1>1
<1>5. /\ SubSeq(s, m, l) \in Seq(S)
      /\ Len(SubSeq(s, m, l)) = IF m <= l THEN l - m + 1 ELSE 0
      /\ \A i \in 1 .. l - m + 1 : SubSeq(s, m, l)[i] = s[m + i - 1]
  BY <1>1, <1>4, SubSeqProperties
<1>6. n = IF m <= l THEN l - m + 1 ELSE 0
  BY <1>1
<1> QED
  BY <1>1, <1>2, <1>3, <1>5, <1>6

\* The capacities and bounds are naturals.
LEMMA Bounds ==
  /\ diagnostic_journal \in Nat \ {0} /\ JOURNAL_CAPACITY \in Nat \ {0}
  /\ WireCapacity \in Nat \ {0}
  /\ MaxRevision \in Nat /\ MaxRestarts \in Nat /\ MaxFaults \in Nat
BY DashboardAssumption

\* An empty store and a page that has not started satisfy the invariant.
LEMMA InitIInv == Init => IInv
<1> SUFFICES ASSUME Init PROVE IInv
  OBVIOUS
<1> USE DashboardAssumption
<1>1. TypeOK
  BY DEF Init, TypeOK, Closed
<1>2. JournalOK /\ StreamOK
  BY DEF Init, JournalOK, StreamOK, Closed
<1>3. RequestOK /\ Chained /\ ResyncIsUnderWay /\ ViewMatchesCursor
  BY DEF Init, RequestOK, Chained, ResyncIsUnderWay, ViewMatchesCursor, NotFound, None
<1> QED
  BY <1>1, <1>2, <1>3 DEF IInv, Init

\* What is on its way to the page depends on the stream and the wire only.
LEMMA SamePipe ==
  ASSUME UNCHANGED <<stream, wire>>
  PROVE  /\ ReplayOK' = ReplayOK
         /\ client'.revision = client.revision => ChainOK' = ChainOK
<1>1. ReplayOK' = ReplayOK /\ Front' = Front /\ ReplaysResync' = ReplaysResync
  BY Zenon DEF ReplayOK, Front, ReplaysResync
<1> QED
  BY <1>1, Zenon DEF ChainOK

\* The server answers a request with its present state.
LEMMA AnswerIInv == IInv /\ Answer => IInv'
<1> SUFFICES ASSUME IInv, Answer PROVE IInv'
  OBVIOUS
<1>1. TypeOK'
  BY DEF IInv, TypeOK, Answer, host, snapshot, Snapshots
<1>2. RequestOK'
  BY DEF IInv, RequestOK, Answer, TypeOK, snapshot, NotFound
<1>3. UNCHANGED <<process, revision, journal, stream, wire, client, view>>
  BY DEF Answer, host
<1>4. JournalOK' /\ StreamOK' /\ ResyncIsUnderWay' /\ ViewMatchesCursor' /\ Polling' = Polling
  BY <1>3 DEF IInv, JournalOK, StreamOK, ResyncIsUnderWay, ViewMatchesCursor, Polling
<1> QED
  BY <1>1, <1>2, <1>3, <1>4, SamePipe DEF IInv, Chained

\* A failed request is answered as such.
LEMMA RequestFailsIInv == IInv /\ RequestFails => IInv'
<1> SUFFICES ASSUME IInv, RequestFails PROVE IInv'
  OBVIOUS
<1>1. TypeOK'
  BY DashboardAssumption DEF IInv, TypeOK, RequestFails, host
<1>2. RequestOK'
  BY DEF IInv, RequestOK, RequestFails, NotFound, Failed
<1>3. UNCHANGED <<process, revision, journal, stream, wire, client, view>>
  BY DEF RequestFails, host
<1>4. JournalOK' /\ StreamOK' /\ ResyncIsUnderWay' /\ ViewMatchesCursor' /\ Polling' = Polling
  BY <1>3 DEF IInv, JournalOK, StreamOK, ResyncIsUnderWay, ViewMatchesCursor, Polling
<1> QED
  BY <1>1, <1>2, <1>3, <1>4, SamePipe DEF IInv, Chained

\* A published change extends the journal and every subscription, or marks the slow one lagged.
LEMMA PublishIInv == IInv /\ publish_locked => IInv'
<1> SUFFICES ASSUME IInv, publish_locked PROVE IInv'
  OBVIOUS
<1> DEFINE kept == Append(journal, revision + 1)
           n    == IF Len(kept) > diagnostic_journal THEN diagnostic_journal ELSE Len(kept)
<1>0. /\ revision < MaxRevision /\ revision' = revision + 1
      /\ journal' = SubSeq(kept, Len(kept) - n + 1, Len(kept))
      /\ UNCHANGED <<process, stream, wire, client, answer, view, faults>>
  BY DEF publish_locked
<1>1. /\ journal \in Seq(1 .. MaxRevision) /\ Len(journal) <= diagnostic_journal
      /\ revision \in Nat /\ Len(journal) <= revision
      /\ \A i \in 1 .. Len(journal) : journal[i] = revision - Len(journal) + i
  BY Bounds DEF IInv, TypeOK, JournalOK
<1>2. revision' \in 1 .. MaxRevision /\ revision' \in Nat
  BY <1>0, <1>1, Bounds
<1>3. /\ kept \in Seq(1 .. MaxRevision) /\ Len(kept) = Len(journal) + 1
      /\ \A i \in 1 .. Len(kept) : kept[i] = revision' - Len(kept) + i
  BY <1>0, <1>1, <1>2
<1>4. n \in Nat \ {0} /\ n <= Len(kept) /\ n <= diagnostic_journal
  BY <1>1, <1>3, Bounds
<1> HIDE DEF kept, n
<1>5. /\ journal' \in Seq(1 .. MaxRevision) /\ Len(journal') = n
      /\ \A i \in 1 .. n : journal'[i] = kept[Len(kept) - n + i]
  <2> DEFINE R == 1 .. MaxRevision
  <2>1. kept \in Seq(R) /\ n \in Nat /\ n <= Len(kept)
    BY <1>3, <1>4
  <2>2. journal' = SubSeq(kept, Len(kept) - n + 1, Len(kept))
    BY <1>0
  <2> HIDE DEF R
  <2>3. /\ journal' \in Seq(R) /\ Len(journal') = n
        /\ \A i \in 1 .. n : journal'[i] = kept[Len(kept) - n + i]
    BY <2>1, <2>2, LastEntries
  <2> QED
    BY <2>3 DEF R
<1>6. JournalOK'
  <2>1. Len(kept) \in Nat /\ DOMAIN journal' = 1 .. n
    BY <1>3, <1>5, Elements
  <2>2. \A i \in 1 .. n : Len(kept) - n + i \in 1 .. Len(kept)
    BY <1>4, <2>1
  <2>3. \A i \in 1 .. n : kept[Len(kept) - n + i] = revision' - Len(kept) + (Len(kept) - n + i)
    BY <1>3, <2>2
  <2>4. \A i \in 1 .. n : revision' - Len(kept) + (Len(kept) - n + i) = revision' - n + i
    BY <1>2, <1>4, <2>1
  <2>5. n <= revision'
    BY <1>0, <1>1, <1>3, <1>4
  <2>6. \A i \in 1 .. n : journal'[i] = revision' - n + i
    BY <1>5, <2>3, <2>4
  <2>7. Len(journal') = n /\ n > 0
    BY <1>4, <1>5
  <2> QED
    BY <2>1, <2>5, <2>6, <2>7 DEF JournalOK
<1>7. TypeOK'
  BY <1>0, <1>2, <1>4, <1>5, Bounds DEF IInv, TypeOK
<1>8. StreamOK'
  BY <1>0, <1>1, Bounds DEF IInv, TypeOK, StreamOK
<1>9. Chained' /\ (client.source = "open" => ReplayOK)'
  BY <1>0, SamePipe DEF IInv, Chained, Polling
<1>10. RequestOK' /\ ResyncIsUnderWay' /\ ViewMatchesCursor'
  BY <1>0 DEF IInv, RequestOK, Polling, ResyncIsUnderWay, ViewMatchesCursor
<1> QED
  BY <1>6, <1>7, <1>8, <1>9, <1>10 DEF IInv

-----------------------------------------------------------------------------
(* The client's requests and timers *)

\* A step of the client that keeps the connection and its source.
LEMMA ClientStep ==
  ASSUME IInv, TypeOK', RequestOK', ResyncIsUnderWay', ViewMatchesCursor', Chained',
         client'.source = client.source, UNCHANGED <<process, revision, journal, stream, wire>>
  PROVE  IInv'
<1>1. JournalOK' /\ StreamOK'
  BY DEF IInv, JournalOK, StreamOK
<1>2. client'.source = "open" => ReplayOK'
  BY SamePipe DEF IInv
<1> QED
  BY <1>1, <1>2 DEF IInv

\* A page that starts asks for the dashboard.
LEMMA StartIInv == IInv /\ Start => IInv'
<1> SUFFICES ASSUME IInv, Start PROVE IInv'
  OBVIOUS
<1>1. /\ client.source = "none" /\ ~client.reconnect /\ ~client.pollTimer /\ ~view.needsResync
      /\ answer \in Snapshots \cup {Failed} /\ answer' = None
      /\ UNCHANGED <<process, revision, journal, stream, wire, faults>>
  BY DEF IInv, RequestOK, Start, TypeOK, host
<1>2. CASE answer # Failed
  <2>1. answer \in Snapshots /\ answer # None
    BY <1>1, <1>2 DEF Snapshots, None
  <2>2. /\ client' = [client EXCEPT !.revision = answer.revision, !.snapshotLoaded = TRUE,
                     !.needsSnapshot = FALSE, !.request = "none", !.source = "connecting",
                     !.since = answer.revision]
        /\ view' = StreamOpen(SnapshotLoaded(view, answer))
    BY <1>2 DEF Start, IInv, TypeOK, connectEventSource, acceptSnapshot
  <2>3. /\ view'.snapshot = answer /\ view'.revision = answer.revision
        /\ ~view'.needsResync /\ view'.stale \in BOOLEAN
        /\ view' \in [snapshot : Snapshots \cup {None}, revision : 0 .. MaxRevision,
                      stale : BOOLEAN, needsResync : BOOLEAN]
    BY <2>1, <2>2 DEF StreamOpen, SnapshotLoaded, IInv, TypeOK, Snapshots
  <2>4. TypeOK'
    BY <1>1, <2>1, <2>2, <2>3 DEF IInv, TypeOK, Snapshots
  <2>5. RequestOK'
    BY <1>1, <2>1, <2>2, <2>3 DEF RequestOK, IInv, TypeOK, None, NotFound
  <2>6. ResyncIsUnderWay' /\ ViewMatchesCursor' /\ Chained'
    BY <2>2, <2>3 DEF ResyncIsUnderWay, ViewMatchesCursor, Chained, IInv, TypeOK
  <2>7. JournalOK' /\ StreamOK'
    BY <1>1, <2>2 DEF IInv, TypeOK, JournalOK, StreamOK
  <2> QED
    BY <2>2, <2>4, <2>5, <2>6, <2>7 DEF IInv, TypeOK
<1>3. CASE answer = Failed
  <2>1. /\ client' = [client EXCEPT !.request = "none", !.pollTimer = TRUE]
        /\ view' = [view EXCEPT !.stale = TRUE]
    BY <1>3 DEF Start, StaleState
  <2>2. TypeOK'
    BY <1>1, <2>1 DEF IInv, TypeOK
  <2>3. RequestOK' /\ Polling' /\ client'.source = client.source
    BY <1>1, <2>1 DEF IInv, TypeOK, RequestOK, Polling, None, NotFound
  <2>4. ResyncIsUnderWay' /\ ViewMatchesCursor' /\ Chained'
    BY <2>1, <2>3 DEF ResyncIsUnderWay, ViewMatchesCursor, Chained, IInv, TypeOK
  <2> QED
    BY <1>1, <2>2, <2>3, <2>4, ClientStep
<1> QED
  BY <1>2, <1>3

\* The page takes the answer to its poll and moves its cursor.
LEMMA PollAnsweredIInv == IInv /\ PollAnswered => IInv'
<1> SUFFICES ASSUME IInv, PollAnswered PROVE IInv'
  OBVIOUS
<1>1. /\ client.request \in {"snapshot", "changes"} /\ answer # None /\ answer' = None
      /\ UNCHANGED <<process, revision, journal, stream, wire, faults>>
  BY DEF PollAnswered, host
<1>2. CASE answer \in Snapshots
  <2>1. /\ client' = [client EXCEPT !.revision = answer.revision, !.snapshotLoaded = TRUE,
                     !.needsSnapshot = FALSE, !.request = "none", !.pollTimer = TRUE]
        /\ view' = StreamOpen(SnapshotLoaded(view, answer))
    BY <1>2 DEF PollAnswered, IInv, TypeOK, acceptSnapshot
  <2>2. /\ view'.snapshot = answer /\ view'.revision = answer.revision
        /\ ~view'.needsResync /\ view'.stale \in BOOLEAN
        /\ view' \in [snapshot : Snapshots \cup {None}, revision : 0 .. MaxRevision,
                      stale : BOOLEAN, needsResync : BOOLEAN]
    BY <1>2, <2>1 DEF StreamOpen, SnapshotLoaded, IInv, TypeOK, Snapshots
  <2>3. TypeOK'
    BY <1>1, <1>2, <2>1, <2>2 DEF IInv, TypeOK, Snapshots
  <2>4. RequestOK' /\ Polling' /\ client'.source = client.source
    BY <1>1, <1>2, <2>1, <2>2 DEF RequestOK, Polling, IInv, TypeOK, None, NotFound
  <2>5. ResyncIsUnderWay' /\ ViewMatchesCursor' /\ Chained'
    BY <2>1, <2>2, <2>4 DEF ResyncIsUnderWay, ViewMatchesCursor, Chained, IInv, TypeOK
  <2> QED
    BY <1>1, <2>3, <2>4, <2>5, ClientStep
<1>3. CASE answer \notin Snapshots
  <2>1. /\ client' = [client EXCEPT !.request = "none", !.pollTimer = TRUE,
                                   !.needsSnapshot = answer = NotFound]
        /\ view' = [view EXCEPT !.stale = TRUE]
    BY <1>3 DEF PollAnswered, StaleState
  <2>2. TypeOK'
    BY <1>1, <2>1 DEF IInv, TypeOK
  <2>3. RequestOK' /\ Polling' /\ client'.source = client.source
    BY <1>1, <2>1 DEF IInv, TypeOK, RequestOK, Polling, None, NotFound
  <2>4. ResyncIsUnderWay' /\ ViewMatchesCursor' /\ Chained'
    BY <2>1, <2>3 DEF ResyncIsUnderWay, ViewMatchesCursor, Chained, IInv, TypeOK
  <2> QED
    BY <1>1, <2>2, <2>3, <2>4, ClientStep
<1> QED
  BY <1>2, <1>3

\* The fields of DashboardClient, as TypeOK has them.
ClientType ==
  [source : {"none", "connecting", "open"}, since : 0 .. MaxRevision, reconnect : BOOLEAN,
   request : {"none", "start", "snapshot", "changes"}, pollTimer : BOOLEAN,
   revision : 0 .. MaxRevision, needsSnapshot : BOOLEAN, snapshotLoaded : BOOLEAN]

\* Poll starts a request unless one is in progress.
LEMMA PollOK ==
  ASSUME NEW c \in ClientType, c.request # "start"
  PROVE  \E r \in {"snapshot", "changes"} :
            Poll(c) = [c EXCEPT !.request = r] /\ (c.request # "none" => r = c.request)
<1>1. CASE c.request = "none"
  BY <1>1 DEF Poll, ClientType
<1>2. CASE c.request # "none"
  BY <1>2 DEF Poll, ClientType
<1> QED
  BY <1>1, <1>2

\* The poll timer asks again from the cursor.
LEMMA PollTimerIInv == IInv /\ PollTimer => IInv'
<1> SUFFICES ASSUME IInv, PollTimer PROVE IInv'
  OBVIOUS
<1> DEFINE c == [client EXCEPT !.pollTimer = FALSE]
<1>1. /\ client.pollTimer /\ client' = Poll(c) /\ client.request # "start"
      /\ UNCHANGED <<process, revision, journal, stream, wire, answer, view, faults>>
  BY DEF PollTimer, host, IInv, RequestOK
<1>2. PICK r \in {"snapshot", "changes"} :
          /\ client' = [client EXCEPT !.pollTimer = FALSE, !.request = r]
          /\ client.request # "none" => r = client.request
  <2>1. c \in ClientType /\ c.request = client.request
    BY DEF IInv, TypeOK, ClientType
  <2> HIDE DEF c
  <2>2. \E r \in {"snapshot", "changes"} :
            Poll(c) = [c EXCEPT !.request = r] /\ (c.request # "none" => r = c.request)
    BY <1>1, <2>1, PollOK DEF IInv
  <2> QED
    BY <1>1, <2>1, <2>2 DEF c
<1> HIDE DEF c
<1>3. TypeOK'
  BY <1>1, <1>2 DEF IInv, TypeOK
<1>4. RequestOK' /\ Polling' /\ client'.source = client.source
  BY <1>1, <1>2 DEF IInv, TypeOK, RequestOK, Polling
<1>5. ResyncIsUnderWay' /\ ViewMatchesCursor' /\ Chained'
  BY <1>1, <1>2, <1>4 DEF ResyncIsUnderWay, ViewMatchesCursor, Chained, IInv, TypeOK
<1> QED
  BY <1>1, <1>3, <1>4, <1>5, ClientStep

\* A page that was told of a change polls from its cursor.
LEMMA RefreshIInv == IInv /\ Refresh => IInv'
<1> SUFFICES ASSUME IInv, Refresh PROVE IInv'
  OBVIOUS
<1>1. /\ client.request = "none" /\ client' = Poll(client)
      /\ UNCHANGED <<process, revision, journal, stream, wire, answer, view, faults>>
  BY DEF Refresh, host
<1>2. PICK r \in {"snapshot", "changes"} : client' = [client EXCEPT !.request = r]
  BY <1>1, PollOK DEF IInv, TypeOK, ClientType
<1>3. TypeOK'
  BY <1>1, <1>2 DEF IInv, TypeOK
<1>4. RequestOK' /\ Polling' /\ client'.source = client.source
  BY <1>1, <1>2 DEF IInv, TypeOK, RequestOK, Polling, NotFound, None
<1>5. ResyncIsUnderWay' /\ ViewMatchesCursor' /\ Chained'
  BY <1>1, <1>2, <1>4 DEF ResyncIsUnderWay, ViewMatchesCursor, Chained, IInv, TypeOK
<1> QED
  BY <1>1, <1>3, <1>4, <1>5, ClientStep

-----------------------------------------------------------------------------
(* The connection *)

\* The page opens a new stream from its cursor.
LEMMA ReconnectIInv == IInv /\ Reconnect => IInv'
<1> SUFFICES ASSUME IInv, Reconnect PROVE IInv'
  OBVIOUS
<1>1. /\ client.reconnect /\ view.snapshot # None /\ client.source = "none"
      /\ client' = [client EXCEPT !.reconnect = FALSE, !.source = "connecting",
                                 !.since = client.revision]
      /\ UNCHANGED <<process, revision, journal, stream, wire, answer, view, faults>>
  BY DEF Reconnect, connectEventSource, host, IInv, RequestOK, TypeOK
<1>2. TypeOK'
  BY <1>1 DEF IInv, TypeOK
<1>3. RequestOK' /\ Chained' /\ ResyncIsUnderWay' /\ ViewMatchesCursor'
  BY <1>1 DEF IInv, TypeOK, RequestOK, Chained, Polling, ResyncIsUnderWay, ViewMatchesCursor
<1> QED
  BY <1>1, <1>2, <1>3 DEF IInv, TypeOK, JournalOK, StreamOK

\* The types of the host's variables.
HostTypeOK ==
  /\ process \in 1 .. MaxRestarts + 1 /\ revision \in 0 .. MaxRevision
  /\ journal \in Seq(1 .. MaxRevision) /\ Len(journal) <= diagnostic_journal

\* After the connection is lost.
LEMMA LostIInv ==
  ASSUME IInv, ConnectionLost(client, view), HostTypeOK', JournalOK', faults' \in 0 .. MaxFaults,
         answer' \in Snapshots \cup {None, Failed, NotFound},
         answer' = NotFound => client.request = "changes",
         answer' # None => client.request # "none"
  PROVE  IInv'
<1>1. wire' = <<>> /\ stream' = Closed
  BY DEF ConnectionLost
<1>0. /\ stream' \in [open : BOOLEAN, initial : Seq(Event), next : 0 .. MaxRevision + 1]
      /\ wire' \in Seq(Event) /\ Len(wire') <= WireCapacity
      /\ stream'.next <= revision' + 1
  <2>1. Closed \in [open : BOOLEAN, initial : Seq(Event), next : 0 .. MaxRevision + 1]
    BY Bounds DEF Closed
  <2>2. Closed.next = 0 /\ <<>> \in Seq(Event) /\ Len(<<>>) = 0
    BY DEF Closed
  <2>3. revision' \in Nat /\ 0 <= WireCapacity
    BY Bounds DEF HostTypeOK
  <2>4. 0 <= revision' + 1
    <3>1. \A r \in Nat : 0 <= r + 1
      OBVIOUS
    <3> QED
      BY <2>3, <3>1, Zenon
  <2> QED
    BY <1>1, <2>1, <2>2, <2>3, <2>4
<1>2. CASE client.source # "none"
  <2>1. /\ client' = [client EXCEPT !.source = "none", !.reconnect = TRUE]
        /\ view' = [view EXCEPT !.stale = TRUE]
    BY <1>2 DEF ConnectionLost, StaleState
  <2>2. TypeOK'
    BY <1>0, <2>1 DEF IInv, TypeOK, HostTypeOK
  <2>3. RequestOK' /\ Chained' /\ ResyncIsUnderWay' /\ ViewMatchesCursor'
    BY <1>2, <2>1
    DEF IInv, TypeOK, RequestOK, Chained, Polling, ResyncIsUnderWay, ViewMatchesCursor
  <2>4. StreamOK' /\ client'.source # "open"
    BY <1>0, <1>1, <2>1 DEF IInv, TypeOK, StreamOK
  <2> QED
    BY <2>2, <2>3, <2>4 DEF IInv
<1>3. CASE client.source = "none"
  <2>1. UNCHANGED <<client, view>>
    BY <1>3 DEF ConnectionLost
  <2>2. TypeOK'
    BY <1>0, <2>1 DEF IInv, TypeOK, HostTypeOK
  <2>3. RequestOK' /\ Chained' /\ ResyncIsUnderWay' /\ ViewMatchesCursor'
    BY <1>3, <2>1
    DEF IInv, TypeOK, RequestOK, Chained, Polling, ResyncIsUnderWay, ViewMatchesCursor
  <2>4. StreamOK' /\ client'.source # "open"
    BY <1>0, <1>1, <1>3, <2>1 DEF IInv, TypeOK, StreamOK
  <2> QED
    BY <2>2, <2>3, <2>4 DEF IInv
<1> QED
  BY <1>2, <1>3

\* A lost stream drops what was on the wire.
LEMMA DisconnectIInv == IInv /\ Disconnect => IInv'
<1> SUFFICES ASSUME IInv, Disconnect PROVE IInv'
  OBVIOUS
<1>1. /\ ConnectionLost(client, view) /\ UNCHANGED <<process, revision, journal, answer>>
      /\ faults' \in 0 .. MaxFaults
  BY Bounds DEF Disconnect, host, IInv, TypeOK
<1>2. JournalOK' /\ HostTypeOK'
  BY <1>1 DEF IInv, JournalOK, TypeOK, HostTypeOK
<1> QED
  BY <1>1, <1>2, LostIInv DEF IInv, TypeOK, RequestOK

\* A restarted server starts a new session and an empty journal.
LEMMA RestartIInv == IInv /\ Restart => IInv'
<1> SUFFICES ASSUME IInv, Restart PROVE IInv'
  OBVIOUS
<1>1. /\ ConnectionLost(client, view) /\ process' \in 1 .. MaxRestarts + 1
      /\ revision' = 0 /\ journal' = <<>> /\ faults' = faults
      /\ answer' = IF client.request = "none" THEN None ELSE Failed
  BY Bounds DEF Restart, IInv, TypeOK
<1>2. JournalOK' /\ journal' \in Seq(1 .. MaxRevision) /\ Len(journal') = 0
  BY <1>1 DEF JournalOK
<1>3. Failed # NotFound /\ None # NotFound
  BY DEF Failed, NotFound, None
<1>4. revision' \in 0 .. MaxRevision /\ 0 <= diagnostic_journal /\ faults' \in 0 .. MaxFaults
  BY <1>1, Bounds DEF IInv, TypeOK
<1>5. HostTypeOK'
  BY <1>1, <1>2, <1>4 DEF HostTypeOK
<1> QED
  BY <1>1, <1>2, <1>3, <1>4, <1>5, LostIInv

\* What the store answers a stream that goes on from `since`: the revisions that follow it
\* without a gap, or a resync.
LEMMA SubscribeOK ==
  ASSUME IInv, NEW since \in 0 .. MaxRevision, NEW st, st = subscribe(since)
  PROVE  /\ st.open = TRUE /\ st.next = revision + 1
         /\ st \in [open : BOOLEAN, initial : Seq(Event), next : 0 .. MaxRevision + 1]
         /\ \/ Len(st.initial) = 1 /\ st.initial[1].kind = "resync"
            \/ /\ Len(st.initial) <= st.next /\ st.next - Len(st.initial) <= since + 1
               /\ \A k \in DOMAIN st.initial :
                     /\ st.initial[k].kind = "update"
                     /\ st.initial[k].snapshot.revision = st.next - Len(st.initial) + k - 1
<1>1. /\ journal \in Seq(1 .. MaxRevision) /\ Len(journal) \in Nat
      /\ Len(journal) <= revision /\ revision \in 0 .. MaxRevision /\ revision \in Nat
      /\ \A i \in 1 .. Len(journal) : journal[i] = revision - Len(journal) + i
      /\ revision > 0 => Len(journal) > 0
      /\ since \in Nat /\ DOMAIN journal = 1 .. Len(journal)
  <2>1. journal \in Seq(1 .. MaxRevision) /\ revision \in 0 .. MaxRevision
    BY DEF IInv, TypeOK
  <2>2. Len(journal) \in Nat /\ DOMAIN journal = 1 .. Len(journal)
    BY <2>1
  <2>3. revision \in Nat /\ since \in Nat
    BY <2>1, Bounds
  <2> QED
    BY <2>1, <2>2, <2>3 DEF IInv, JournalOK
<1>2. st.open = TRUE /\ st.next = revision + 1 /\ st.next \in 0 .. MaxRevision + 1
  BY <1>1, Bounds DEF subscribe
<1>3. CASE journal # <<>> /\ since + 1 < Head(journal)
  <2>1. st = [open |-> TRUE, initial |-> <<resync_event>>, next |-> revision + 1]
    BY <1>3 DEF subscribe
  <2>2. resync_event \in Event /\ resync_event.kind = "resync"
    BY DEF resync_event, Event, snapshot, Snapshots, IInv, TypeOK
  <2> HIDE DEF resync_event
  <2> QED
    BY <1>2, <2>1, <2>2
<1>4. CASE ~(journal # <<>> /\ since + 1 < Head(journal))
  <2> DEFINE first == IF since < revision - Len(journal) THEN revision - Len(journal)
                      ELSE IF since < revision THEN since ELSE revision
             n     == revision - first
             kept  == {i \in DOMAIN journal : journal[i] > since}
  <2>1. kept = Len(journal) - n + 1 .. Len(journal) /\ n \in Nat /\ n <= Len(journal)
    BY <1>1
  <2>2. Cardinality(kept) = n
    <3> DEFINE a == Len(journal) - n + 1
               l == Len(journal)
    <3>1. a \in Int /\ l \in Int /\ (IF a > l THEN 0 ELSE l - a + 1) = n
      <4>1. n \in Nat /\ n <= l /\ l \in Nat
        BY <1>1, <2>1
      <4> HIDE DEF n, l
      <4> QED
        BY <4>1 DEF l
    <3>2. kept = a .. l
      BY <2>1
    <3> HIDE DEF a, l, n, kept
    <3> QED
      BY <3>1, <3>2, FS_Interval
  <2>3. first <= since /\ first <= revision /\ first \in Nat
    <3>1. CASE Len(journal) = 0
      BY <1>1, <3>1
    <3>2. CASE Len(journal) > 0
      <4>1. Head(journal) = revision - Len(journal) + 1 /\ journal # <<>>
        BY <1>1, <3>2
      <4> QED
        BY <1>1, <1>4, <4>1
    <3> QED
      BY <1>1, <3>1, <3>2
  <2>0. n = revision - first /\ n \in Nat
    BY <1>1, <2>3
  <2> HIDE DEF first
  <2>4. Newer(since) = SubSeq(journal, Len(journal) - n + 1, Len(journal))
    <3> HIDE DEF n
    <3> QED
      BY <2>2 DEF Newer
  <2>5. /\ Newer(since) \in Seq(1 .. MaxRevision) /\ Len(Newer(since)) = n
        /\ \A i \in 1 .. n : Newer(since)[i] = journal[Len(journal) - n + i]
    <3> DEFINE R == 1 .. MaxRevision
    <3>1. journal \in Seq(R) /\ n \in Nat /\ n <= Len(journal)
      BY <1>1, <2>1
    <3> HIDE DEF R, n
    <3>2. /\ Newer(since) \in Seq(R) /\ Len(Newer(since)) = n
          /\ \A i \in 1 .. n : Newer(since)[i] = journal[Len(journal) - n + i]
      BY <2>4, <3>1, LastEntries
    <3> QED
      BY <3>2 DEF R
  <2>6. \A i \in 1 .. n : Newer(since)[i] = first + i /\ first + i \in 0 .. MaxRevision
    <3>1. \A i \in 1 .. n : Len(journal) - n + i \in 1 .. Len(journal)
      BY <1>1, <2>1
    <3>2. \A i \in 1 .. n : journal[Len(journal) - n + i]
                             = revision - Len(journal) + (Len(journal) - n + i)
      BY <1>1, <3>1
    <3>3. \A i \in 1 .. n : /\ revision - Len(journal) + (Len(journal) - n + i) = first + i
                           /\ first + i \in 0 .. MaxRevision
      <4>1. /\ Len(journal) \in Nat /\ revision \in Nat /\ revision <= MaxRevision
            /\ MaxRevision \in Nat /\ first \in Nat /\ n = revision - first /\ n \in Nat
        BY <1>1, <2>0, <2>3, Bounds
      <4> HIDE DEF n
      <4> QED
        BY <4>1
    <3> QED
      BY <2>5, <3>2, <3>3
  <2>7. st.initial = [i \in 1 .. n |-> update_event(first + i)]
    <3>1. DOMAIN Newer(since) = 1 .. n
      BY <2>1, <2>5
    <3>2. st.initial = Replay(since)
      BY <1>4 DEF subscribe
    <3> HIDE DEF n
    <3> QED
      BY <2>6, <3>1, <3>2 DEF Replay
  <2>8. \A i \in 1 .. n : /\ update_event(first + i) \in Event
                         /\ update_event(first + i).kind = "update"
                         /\ update_event(first + i).snapshot.revision = first + i
    BY <2>6 DEF update_event, Event, Snapshots, IInv, TypeOK
  <2>9. /\ st.initial \in Seq(Event) /\ Len(st.initial) = n /\ DOMAIN st.initial = 1 .. n
        /\ \A k \in 1 .. n : /\ st.initial[k].kind = "update"
                             /\ st.initial[k].snapshot.revision = first + k
    <3> HIDE DEF n
    <3> QED
      BY <2>1, <2>7, <2>8
  <2>10. st.next - n = first + 1 /\ n <= st.next
         /\ \A k \in 1 .. n : first + k = st.next - n + k - 1
    BY <1>1, <1>2, <2>0, <2>3
  <2>11. st = [open |-> st.open, initial |-> st.initial, next |-> st.next]
    BY DEF subscribe
  <2> HIDE DEF n
  <2>12. st \in [open : BOOLEAN, initial : Seq(Event), next : 0 .. MaxRevision + 1]
    BY <1>2, <2>9, <2>11
  <2>13. st.next - Len(st.initial) <= since + 1 /\ Len(st.initial) <= st.next
    BY <1>1, <2>3, <2>9, <2>10
  <2> QED
    BY <1>2, <2>9, <2>10, <2>12, <2>13
<1> QED
  BY <1>3, <1>4

\* subscribe decides between a replay and a resync.
LEMMA ConnectIInv == IInv /\ Connect => IInv'
<1> SUFFICES ASSUME IInv, Connect PROVE IInv'
  OBVIOUS
<1>1. /\ client.source = "connecting" /\ wire = <<>> /\ view.snapshot # None
      /\ client' = [client EXCEPT !.source = "open"] /\ view' = StreamOpen(view)
      /\ stream' = subscribe(client.since) /\ client.since \in 0 .. MaxRevision
      /\ UNCHANGED <<process, revision, journal, wire, answer, faults>>
  BY DEF Connect, host, IInv, StreamOK, RequestOK, TypeOK
<1>2. /\ stream'.open = TRUE /\ stream'.next = revision + 1
      /\ stream' \in [open : BOOLEAN, initial : Seq(Event), next : 0 .. MaxRevision + 1]
      /\ \/ Len(stream'.initial) = 1 /\ stream'.initial[1].kind = "resync"
         \/ /\ Len(stream'.initial) <= stream'.next
            /\ stream'.next - Len(stream'.initial) <= client.since + 1
            /\ \A k \in DOMAIN stream'.initial :
                  /\ stream'.initial[k].kind = "update"
                  /\ stream'.initial[k].snapshot.revision = stream'.next - Len(stream'.initial) + k - 1
  BY <1>1, SubscribeOK
<1>3. /\ view'.snapshot = view.snapshot /\ view'.revision = view.revision
      /\ view'.needsResync = view.needsResync
      /\ view' \in [snapshot : Snapshots \cup {None}, revision : 0 .. MaxRevision,
                    stale : BOOLEAN, needsResync : BOOLEAN]
  BY <1>1 DEF IInv, TypeOK, StreamOpen, StaleState
<1>4. TypeOK'
  BY <1>1, <1>2, <1>3 DEF IInv, TypeOK
<1>5. RequestOK' /\ ResyncIsUnderWay' /\ ViewMatchesCursor' /\ Polling' = Polling
  BY <1>1, <1>3
  DEF IInv, TypeOK, RequestOK, ResyncIsUnderWay, ViewMatchesCursor, Polling
<1>6. JournalOK' /\ StreamOK'
  <2>1. revision + 1 <= revision + 1
    BY Bounds DEF IInv, TypeOK
  <2> QED
    BY <1>1, <1>2, <2>1 DEF IInv, TypeOK, JournalOK, StreamOK
<1>7. ReplayOK'
  BY <1>2 DEF ReplayOK
<1>8. Chained'
  <2>1. CASE Polling
    BY <1>5, <2>1 DEF Chained
  <2>2. CASE ~Polling
    <3>1. client.since = client.revision /\ client'.revision = client.revision
      BY <1>1, <2>2 DEF IInv, Chained, TypeOK
    <3>2. wire' = <<>> /\ Len(wire') = 0
      BY <1>1
    <3>3. ReplaysResync' \/ Front' <= client'.revision + 1
      BY <1>2, <3>1 DEF ReplaysResync, Front
    <3>4. ChainOK'
      <4>1. DOMAIN wire' = {}
        BY <3>2
      <4> QED
        BY <3>2, <3>3, <4>1 DEF ChainOK, Chain
    <3> QED
      BY <1>1, <3>4 DEF Chained, IInv, TypeOK
  <2> QED
    BY <2>1, <2>2
<1> QED
  BY <1>4, <1>5, <1>6, <1>7, <1>8 DEF IInv

\* An event put at the end of the chain: a resync, or the next update.
LEMMA AppendChain ==
  ASSUME NEW w \in Seq(Event), NEW resync \in BOOLEAN, NEW front \in Int, NEW cursor \in Nat,
         Chain(w, resync, front, cursor), NEW ev \in Event, NEW resync2 \in BOOLEAN,
         NEW front2 \in Int,
         \/ ev.kind = "resync"
         \/ /\ ev.kind = "update" /\ ~resync /\ ev.snapshot.revision = front
            /\ front2 = front + 1
  PROVE  Chain(Append(w, ev), resync2, front2, cursor)
<1> DEFINE n    == Len(w)
           v    == Append(w, ev)
           r(i) == w[i].snapshot.revision
           q(i) == v[i].snapshot.revision
<1>1. n \in Nat /\ DOMAIN w = 1 .. n
  OBVIOUS
<1>2. /\ Len(v) = n + 1 /\ DOMAIN v = 1 .. n + 1
      /\ v[n + 1] = ev /\ \A i \in 1 .. n : v[i] = w[i]
  OBVIOUS
<1>3. \A e \in Event : e.snapshot.revision \in Nat
  BY Bounds DEF Event, Snapshots
<1>4. (\A i \in 1 .. n : r(i) \in Nat) /\ ev.snapshot.revision \in Nat
  BY <1>1, <1>3
<1> HIDE DEF v
<1>5. \A i \in 1 .. n : q(i) = r(i)
  BY <1>2
<1>6. q(n + 1) = ev.snapshot.revision
  BY <1>2
<1>7. \A j \in 1 .. n : Clear(v, j) => Clear(w, j)
  BY <1>1, <1>2 DEF Clear
<1>8. Clear(v, n + 1) => ev.kind = "update" /\ Clear(w, n)
  BY <1>1, <1>2 DEF Clear
<1>9. /\ \A j \in 1 .. n : Clear(w, j) => r(j) = r(1) + j - 1
      /\ n > 0 /\ Clear(w, n) /\ ~resync => front = r(1) + n
      /\ n > 0 /\ Clear(w, 1) => r(1) <= cursor + 1
      /\ n = 0 /\ ~resync => front <= cursor + 1
  BY <1>1 DEF Chain
<1> HIDE DEF n, r, q
<1>10. q(1) \in Nat
  <2>1. CASE n = 0
    BY <1>4, <1>6, <2>1
  <2>2. CASE n > 0
    BY <1>1, <1>4, <1>5, <2>2
  <2> QED
    BY <1>1, <2>1, <2>2
<1>11. Clear(v, n + 1) => ev.snapshot.revision = q(1) + n /\ front2 = q(1) + n + 1
  <2> SUFFICES ASSUME Clear(v, n + 1)
               PROVE  ev.snapshot.revision = q(1) + n /\ front2 = q(1) + n + 1
    OBVIOUS
  <2>1. /\ ev.kind = "update" /\ ~resync /\ ev.snapshot.revision = front
        /\ front2 = front + 1 /\ Clear(w, n)
    BY <1>8
  <2>2. CASE n = 0
    BY <1>4, <1>6, <2>1, <2>2
  <2>3. CASE n > 0
    BY <1>1, <1>4, <1>5, <1>9, <2>1, <2>3
  <2> QED
    BY <1>1, <2>2, <2>3
<1>12. \A j \in 1 .. n + 1 : Clear(v, j) => q(j) = q(1) + j - 1
  <2> SUFFICES ASSUME NEW j \in 1 .. n + 1, Clear(v, j) PROVE q(j) = q(1) + j - 1
    OBVIOUS
  <2>1. CASE j = n + 1
    BY <1>1, <1>6, <1>10, <1>11, <2>1
  <2>2. CASE j # n + 1
    BY <1>1, <1>5, <1>7, <1>9, <2>2
  <2> QED
    BY <2>1, <2>2
<1>13. Clear(v, 1) => q(1) <= cursor + 1
  <2>1. CASE n = 0
    BY <1>6, <1>8, <1>9, <2>1
  <2>2. CASE n > 0
    BY <1>1, <1>5, <1>7, <1>9, <2>2
  <2> QED
    BY <1>1, <2>1, <2>2
<1>14. q(1) + n + 1 = q(1) + (n + 1) /\ n + 1 > 0 /\ n + 1 # 0
  BY <1>1, <1>10
<1> QED
  BY <1>2, <1>11, <1>12, <1>13, <1>14 DEF Chain, q, v

\* An update taken from the front of the chain, with the cursor moved to it.
LEMMA TailChain ==
  ASSUME NEW w \in Seq(Event), NEW resync \in BOOLEAN, NEW front \in Int, NEW cursor \in Nat,
         Chain(w, resync, front, cursor), w # <<>>, w[1].kind = "update", NEW cursor2 \in Nat,
         w[1].snapshot.revision <= cursor2
  PROVE  Chain(Tail(w), resync, front, cursor2)
<1> DEFINE n    == Len(w)
           v    == Tail(w)
           r(i) == w[i].snapshot.revision
           q(i) == v[i].snapshot.revision
<1>1. n \in Nat /\ n > 0 /\ DOMAIN w = 1 .. n
  OBVIOUS
<1>2. Len(v) = n - 1 /\ DOMAIN v = 1 .. n - 1 /\ \A i \in 1 .. n - 1 : v[i] = w[i + 1]
  OBVIOUS
<1>3. \A e \in Event : e.snapshot.revision \in Nat
  BY Bounds DEF Event, Snapshots
<1>4. \A i \in 1 .. n : r(i) \in Nat
  BY <1>1, <1>3
<1> HIDE DEF v
<1>5. \A i \in 1 .. n - 1 : q(i) = r(i + 1)
  BY <1>2
<1>6. ASSUME NEW j \in 1 .. n - 1, Clear(v, j) PROVE Clear(w, j + 1)
  <2> SUFFICES ASSUME NEW i \in 1 .. j + 1 PROVE w[i].kind = "update"
    BY DEF Clear
  <2>1. CASE i = 1
    BY <2>1
  <2>2. CASE i # 1
    <3>1. i - 1 \in 1 .. j /\ i - 1 \in 1 .. n - 1 /\ (i - 1) + 1 = i
      BY <1>1, <2>2
    <3> QED
      BY <1>2, <1>6, <3>1 DEF Clear
  <2> QED
    BY <2>1, <2>2
<1>7. /\ \A j \in 1 .. n : Clear(w, j) => r(j) = r(1) + j - 1
      /\ Clear(w, n) /\ ~resync => front = r(1) + n
  BY <1>1 DEF Chain
<1>8. r(1) <= cursor2 /\ Clear(w, 1)
  BY DEF Clear
<1> HIDE DEF n, r, q
<1>9. ASSUME NEW j \in 1 .. n - 1, Clear(v, j)
      PROVE  q(j) = r(1) + j /\ q(1) = r(1) + 1 /\ q(j) = q(1) + j - 1
  <2>1. Clear(v, 1) /\ 1 \in 1 .. n - 1
    BY <1>1, <1>9 DEF Clear
  <2>2. Clear(w, j + 1) /\ Clear(w, 1 + 1) /\ j + 1 \in 1 .. n /\ 1 + 1 \in 1 .. n
    BY <1>1, <1>6, <1>9, <2>1
  <2>3. r(j + 1) = r(1) + (j + 1) - 1 /\ r(1 + 1) = r(1) + (1 + 1) - 1
    BY <1>7, <2>2
  <2>4. q(j) = r(j + 1) /\ q(1) = r(1 + 1) /\ r(1) \in Nat
    BY <1>1, <1>4, <1>5, <2>1
  <2> QED
    BY <2>3, <2>4
<1>10. \A j \in DOMAIN v : Clear(v, j) => q(j) = q(1) + j - 1
  BY <1>2, <1>9
<1>11. Len(v) > 0 /\ Clear(v, Len(v)) /\ ~resync => front = q(1) + Len(v)
  <2> SUFFICES ASSUME n - 1 > 0, Clear(v, n - 1), ~resync PROVE front = q(1) + (n - 1)
    BY <1>2
  <2>1. n - 1 \in 1 .. n - 1 /\ (n - 1) + 1 = n /\ r(1) \in Nat
    BY <1>1, <1>4
  <2>2. Clear(w, n) /\ q(1) = r(1) + 1
    BY <1>6, <1>9, <2>1
  <2> QED
    BY <1>1, <1>7, <2>1, <2>2
<1>12. Len(v) > 0 /\ Clear(v, 1) => q(1) <= cursor2 + 1
  <2> SUFFICES ASSUME n - 1 > 0, Clear(v, 1) PROVE q(1) <= cursor2 + 1
    BY <1>2
  <2>1. 1 \in 1 .. n - 1 /\ r(1) \in Nat
    BY <1>1, <1>4
  <2>2. q(1) = r(1) + 1
    BY <1>9, <2>1
  <2> QED
    BY <1>8, <2>1, <2>2
<1>13. Len(v) = 0 /\ ~resync => front <= cursor2 + 1
  <2> SUFFICES ASSUME n - 1 = 0, ~resync PROVE front <= cursor2 + 1
    BY <1>2
  <2>1. n = 1 /\ r(1) \in Nat
    BY <1>1, <1>4
  <2> QED
    BY <1>7, <1>8, <2>1
<1> QED
  BY <1>10, <1>11, <1>12, <1>13 DEF Chain, q, v

\* The same for every event that continues the chain.
LEMMA Appended ==
  \A w \in Seq(Event) : \A ev \in Event : \A a, b \in BOOLEAN : \A f, g \in Int : \A c \in Nat :
    /\ Chain(w, a, f, c)
    /\ \/ ev.kind = "resync"
       \/ ev.kind = "update" /\ ~a /\ ev.snapshot.revision = f /\ g = f + 1
    => Chain(Append(w, ev), b, g, c)
BY AppendChain

\* The handler puts one event on the connection: a resync, or the next update.
LEMMA SendIInv ==
  ASSUME IInv, client.source = "open", Len(wire) < WireCapacity,
         UNCHANGED <<process, revision, journal, client, answer, view, faults>>,
         NEW ev \in Event, wire' = Append(wire, ev),
         stream' \in [open : BOOLEAN, initial : Seq(Event), next : 0 .. MaxRevision + 1],
         stream'.open, stream'.next <= revision + 1, ReplayOK',
         \/ ev.kind = "resync"
         \/ /\ ev.kind = "update" /\ ~ReplaysResync /\ ev.snapshot.revision = Front
            /\ Front' = Front + 1
  PROVE  IInv'
<1>1. /\ wire \in Seq(Event) /\ wire' \in Seq(Event)
      /\ Len(wire') = Len(wire) + 1 /\ Len(wire') <= WireCapacity
  BY Bounds DEF IInv, TypeOK
<1>2. TypeOK'
  BY <1>1 DEF IInv, TypeOK
<1>3. JournalOK' /\ RequestOK' /\ ResyncIsUnderWay' /\ ViewMatchesCursor' /\ Polling' = Polling
  BY DEF IInv, JournalOK, RequestOK, ResyncIsUnderWay, ViewMatchesCursor, Polling
<1>4. StreamOK'
  BY DEF StreamOK
<1>5. /\ Front \in Int /\ Front' \in Int /\ client.revision \in Nat
      /\ ReplaysResync \in BOOLEAN /\ ReplaysResync' \in BOOLEAN
  <2>1. \A st \in [open : BOOLEAN, initial : Seq(Event), next : 0 .. MaxRevision + 1] :
          st.next - Len(st.initial) \in Int
    BY Bounds, Elements
  <2>2. Front \in Int /\ Front' \in Int
    BY <2>1 DEF Front, IInv, TypeOK
  <2>3. client.revision \in Nat
    BY Bounds DEF IInv, TypeOK
  <2> QED
    BY <2>2, <2>3 DEF ReplaysResync
<1>6. ASSUME ChainOK PROVE ChainOK'
  <2>2. Chain(wire, ReplaysResync, Front, client.revision)
    BY <1>6 DEF ChainOK
  <2>3. Chain(Append(wire, ev), ReplaysResync', Front', client.revision)
    BY <1>1, <1>5, <2>2, Appended
  <2> QED
    BY <2>3 DEF ChainOK
<1> QED
  BY <1>2, <1>3, <1>4, <1>6 DEF IInv, Chained

\* event_stream writes the replay first, then what the receiver holds.
LEMMA EventStreamIInv == IInv /\ event_stream => IInv'
<1> SUFFICES ASSUME IInv, event_stream PROVE IInv'
  OBVIOUS
<1> DEFINE S == [open : BOOLEAN, initial : Seq(Event), next : 0 .. MaxRevision + 1]
<1>1. /\ stream.open /\ Len(wire) < WireCapacity
      /\ UNCHANGED <<process, revision, journal, client, answer, view, faults>>
  BY DEF event_stream, host
<1>2. client.source = "open"
  BY <1>1 DEF IInv, StreamOK, Closed
<1>3. /\ stream \in S /\ stream.initial \in Seq(Event) /\ stream.next \in Nat
      /\ stream.next <= revision + 1 /\ revision \in 0 .. MaxRevision /\ ReplayOK
  BY <1>2, Bounds DEF IInv, TypeOK, StreamOK
<1>4. CASE /\ stream.initial # <<>>
           /\ wire' = Append(wire, Head(stream.initial))
           /\ stream' = [stream EXCEPT !.initial = Tail(@)]
  <2> DEFINE t == stream.initial
             n == Len(t)
  <2>1. /\ n \in Nat \ {0} /\ Head(t) = t[1] /\ t[1] \in Event /\ Tail(t) \in Seq(Event)
        /\ Len(Tail(t)) = n - 1 /\ \A i \in 1 .. n - 1 : Tail(t)[i] = t[i + 1]
        /\ DOMAIN t = 1 .. n /\ DOMAIN Tail(t) = 1 .. n - 1
    BY <1>3, <1>4
  <2>2. /\ stream' \in S /\ stream'.open /\ stream'.next = stream.next
        /\ stream'.initial = Tail(t)
    BY <1>1, <1>3, <1>4, <2>1
  <2>3. CASE t[1].kind = "resync"
    <3>1. n = 1 \/ (n <= stream.next /\ t[1].kind = "update")
      BY <1>3, <2>1 DEF ReplayOK
    <3>2. Len(stream'.initial) = 0 /\ DOMAIN stream'.initial = {}
      BY <2>1, <2>2, <2>3, <3>1
    <3>3. ReplayOK'
      BY <1>3, <2>2, <3>2 DEF ReplayOK
    <3>4. Head(t) \in Event /\ Head(t).kind = "resync"
      BY <2>1, <2>3
    <3> HIDE DEF t, n
    <3> QED
      BY <1>1, <1>2, <1>3, <1>4, <2>2, <3>3, <3>4, SendIInv DEF t
  <2>4. CASE t[1].kind # "resync"
    <3>1. /\ n <= stream.next
          /\ \A k \in 1 .. n : /\ t[k].kind = "update"
                               /\ t[k].snapshot.revision = stream.next - n + k - 1
      BY <1>3, <2>1, <2>4 DEF ReplayOK
    <3>2. \A k \in 1 .. n - 1 : /\ k + 1 \in 1 .. n
                                /\ stream.next - n + (k + 1) - 1 = stream.next - (n - 1) + k - 1
      BY <1>3, <2>1
    <3>3. \A k \in 1 .. n - 1 : /\ Tail(t)[k].kind = "update"
                                /\ Tail(t)[k].snapshot.revision = stream.next - (n - 1) + k - 1
      BY <2>1, <3>1, <3>2
    <3>4. n - 1 <= stream.next
      BY <1>3, <2>1, <3>1
    <3>5. ReplayOK'
      BY <2>1, <2>2, <3>3, <3>4 DEF ReplayOK
    <3>6. Front = stream.next - n /\ Front' = stream.next - (n - 1)
      BY <2>1, <2>2 DEF Front
    <3>7. stream.next - (n - 1) = stream.next - n + 1 /\ stream.next - n + 1 - 1 = stream.next - n
      BY <1>3, <2>1
    <3>8. 1 \in 1 .. n
      BY <2>1
    <3>9. /\ Head(t) \in Event /\ Head(t).kind = "update"
          /\ Head(t).snapshot.revision = Front /\ Front' = Front + 1
      BY <2>1, <3>1, <3>6, <3>7, <3>8
    <3>10. ~ReplaysResync
      BY <2>4 DEF ReplaysResync
    <3> HIDE DEF t, n
    <3> QED
      BY <1>1, <1>2, <1>3, <1>4, <2>2, <3>5, <3>9, <3>10, SendIInv DEF t
  <2> QED
    BY <2>3, <2>4
<1>5. ASSUME stream.initial = <<>>
      PROVE  ~ReplaysResync /\ Front = stream.next
  BY <1>3, <1>5 DEF ReplaysResync, Front
<1>6. ASSUME stream.initial = <<>>, NEW n \in 0 .. MaxRevision + 1, n <= revision + 1,
             stream' = [stream EXCEPT !.next = n]
      PROVE  /\ stream' \in S /\ stream'.open /\ stream'.next <= revision + 1
             /\ ReplayOK' /\ Front' = n
  <2>1. stream' \in S /\ stream'.open /\ stream'.next = n /\ stream'.initial = <<>>
    BY <1>1, <1>3, <1>6
  <2>2. Len(stream'.initial) = 0 /\ DOMAIN stream'.initial = {} /\ 0 <= n /\ n - 0 = n
    BY <2>1, Bounds
  <2> QED
    BY <1>6, <2>1, <2>2 DEF ReplayOK, Front
<1>7. CASE /\ stream.initial = <<>> /\ stream.next < OldestSent
           /\ wire' = Append(wire, resync_event)
           /\ stream' = [stream EXCEPT !.next = OldestSent]
  <2>1. OldestSent \in 0 .. MaxRevision + 1 /\ OldestSent <= revision + 1
    BY <1>3, Bounds DEF OldestSent
  <2>2. resync_event \in Event /\ resync_event.kind = "resync"
    BY DEF resync_event, Event, snapshot, Snapshots, IInv, TypeOK
  <2>3. stream' \in S /\ stream'.open /\ stream'.next <= revision + 1 /\ ReplayOK'
    BY <1>6, <1>7, <2>1
  <2> QED
    BY <1>1, <1>2, <1>7, <2>2, <2>3, SendIInv
<1>8. CASE /\ stream.initial = <<>> /\ stream.next \in OldestSent .. revision
           /\ wire' = Append(wire, update_event(stream.next))
           /\ stream' = [stream EXCEPT !.next = @ + 1]
  <2>1. /\ stream.next \in 0 .. MaxRevision /\ stream.next + 1 \in 0 .. MaxRevision + 1
        /\ stream.next + 1 <= revision + 1
    BY <1>3, <1>8, Bounds DEF OldestSent
  <2>2. /\ update_event(stream.next) \in Event /\ update_event(stream.next).kind = "update"
        /\ update_event(stream.next).snapshot.revision = stream.next
    BY <2>1 DEF update_event, Event, Snapshots, IInv, TypeOK
  <2>3. /\ stream' \in S /\ stream'.open /\ stream'.next <= revision + 1 /\ ReplayOK'
        /\ Front' = stream.next + 1
    BY <1>6, <1>8, <2>1
  <2> QED
    BY <1>1, <1>2, <1>5, <1>8, <2>2, <2>3, SendIInv
<1> QED
  BY <1>4, <1>7, <1>8 DEF event_stream

\* An update taken from the connection while no poll loop runs, with the cursor at or past it.
LEMMA TakeChain ==
  ASSUME IInv, client.source = "open", ~Polling, wire # <<>>, Head(wire).kind = "update",
         wire' = Tail(wire), stream' = stream, client'.revision \in Nat,
         Head(wire).snapshot.revision <= client'.revision
  PROVE  ChainOK'
<1>1. /\ wire \in Seq(Event) /\ Head(wire) = wire[1]
      /\ Chain(wire, ReplaysResync, Front, client.revision)
  BY DEF IInv, TypeOK, Chained, ChainOK
<1>2. Front \in Int /\ client.revision \in Nat /\ ReplaysResync \in BOOLEAN
  <2>1. \A st \in [open : BOOLEAN, initial : Seq(Event), next : 0 .. MaxRevision + 1] :
          st.next - Len(st.initial) \in Int
    BY Bounds, Elements
  <2>2. client.revision \in Nat
    BY Bounds DEF IInv, TypeOK
  <2> QED
    BY <2>1, <2>2 DEF Front, ReplaysResync, IInv, TypeOK
<1>3. \A a \in BOOLEAN : \A f \in Int : \A c, d \in Nat :
        Chain(wire, a, f, c) /\ Head(wire).snapshot.revision <= d => Chain(Tail(wire), a, f, d)
  BY <1>1, TailChain
<1>4. Chain(Tail(wire), ReplaysResync, Front, client'.revision)
  BY <1>1, <1>2, <1>3
<1>5. Front' = Front /\ ReplaysResync' = ReplaysResync
  BY Zenon DEF Front, ReplaysResync
<1> QED
  BY <1>4, <1>5 DEF ChainOK

\* The page applies the next event, or asks for a resync.
LEMMA HandleEventIInv == IInv /\ handleEvent => IInv'
<1> SUFFICES ASSUME IInv, handleEvent PROVE IInv'
  OBVIOUS
<1> DEFINE s == Head(wire).snapshot
<1>1. /\ wire # <<>> /\ client.source = "open" /\ wire' = Tail(wire)
      /\ UNCHANGED <<process, revision, journal, stream, answer, faults>>
  BY DEF handleEvent, host
<1>2. /\ wire \in Seq(Event) /\ Head(wire) = wire[1] /\ Head(wire) \in Event
      /\ wire' \in Seq(Event) /\ Len(wire') <= WireCapacity
  BY <1>1, Bounds DEF IInv, TypeOK
<1>3. /\ s \in Snapshots /\ s.revision \in 0 .. MaxRevision /\ s # None
      /\ s.revision \in Nat /\ client.revision \in Nat /\ view.revision \in Nat
  <2>1. s \in Snapshots /\ s.revision \in 0 .. MaxRevision /\ s # None
    BY <1>2 DEF Event, Snapshots, None
  <2>2. client.revision \in 0 .. MaxRevision /\ view.revision \in 0 .. MaxRevision
    BY DEF IInv, TypeOK
  <2> QED
    BY <2>1, <2>2, Bounds
<1>4. client.request # "start" /\ view.snapshot # None
  BY <1>1 DEF IInv, RequestOK
<1>5. ASSUME client'.source = client.source, TypeOK', RequestOK', Chained', ResyncIsUnderWay',
             ViewMatchesCursor'
      PROVE  IInv'
  <2>1. JournalOK' /\ StreamOK'
    BY <1>1, <1>5 DEF IInv, JournalOK, StreamOK
  <2>2. ReplayOK' = ReplayOK
    BY <1>1, Zenon DEF ReplayOK
  <2> QED
    BY <1>1, <1>5, <2>1, <2>2 DEF IInv
<1>6. CASE /\ Head(wire).kind = "resync"
           /\ client' = Poll([client EXCEPT !.needsSnapshot = TRUE])
           /\ UNCHANGED view
  <2> DEFINE c == [client EXCEPT !.needsSnapshot = TRUE]
  <2>1. PICK r \in {"snapshot", "changes"} :
          /\ client' = [client EXCEPT !.needsSnapshot = TRUE, !.request = r]
          /\ client.request # "none" => r = client.request
    <3>1. c \in ClientType /\ c.request = client.request
      BY DEF IInv, TypeOK, ClientType
    <3> HIDE DEF c
    <3>2. \E r \in {"snapshot", "changes"} :
            Poll(c) = [c EXCEPT !.request = r] /\ (c.request # "none" => r = c.request)
      BY <1>4, <3>1, PollOK
    <3> QED
      BY <1>6, <3>1, <3>2 DEF c
  <2> HIDE DEF c
  <2>2. TypeOK'
    BY <1>1, <1>2, <1>6, <2>1 DEF IInv, TypeOK
  <2>3. RequestOK' /\ Polling' /\ client'.source = client.source
    BY <1>1, <1>6, <2>1 DEF IInv, TypeOK, RequestOK, Polling
  <2>4. ResyncIsUnderWay' /\ ViewMatchesCursor' /\ Chained'
    BY <1>6, <2>1, <2>3 DEF ResyncIsUnderWay, ViewMatchesCursor, Chained, IInv, TypeOK
  <2> QED
    BY <1>5, <2>2, <2>3, <2>4
<1>7. CASE /\ Head(wire).kind = "update" /\ s.revision > client.revision
           /\ client' = [client EXCEPT !.revision = s.revision]
           /\ view' = EventReceived(view, s)
  <2>1. /\ client'.source = client.source /\ client'.revision = s.revision
        /\ client'.request = client.request /\ client'.pollTimer = client.pollTimer
        /\ client'.reconnect = client.reconnect /\ Polling' = Polling
    BY <1>7 DEF IInv, TypeOK, Polling
  <2>2. /\ view' \in [snapshot : Snapshots \cup {None}, revision : 0 .. MaxRevision,
                      stale : BOOLEAN, needsResync : BOOLEAN]
        /\ view'.snapshot # None
    BY <1>3, <1>4, <1>7 DEF EventReceived, IInv, TypeOK
  <2>3. TypeOK'
    BY <1>1, <1>2, <1>3, <1>7, <2>2 DEF IInv, TypeOK
  <2>4. RequestOK'
    BY <1>1, <1>4, <2>1, <2>2 DEF IInv, RequestOK
  <2>5. ViewMatchesCursor'
    <3>1. CASE s.revision <= view.revision
      <4>1. view' = view /\ view.revision # client.revision
        BY <1>3, <1>7, <3>1 DEF EventReceived
      <4> QED
        BY <1>4, <4>1 DEF IInv, ViewMatchesCursor
    <3>2. CASE s.revision > view.revision + 1
      <4>1. view' = [view EXCEPT !.stale = TRUE, !.needsResync = TRUE]
        BY <1>3, <1>7, <3>2 DEF EventReceived
      <4>2. view'.needsResync
        BY <4>1 DEF IInv, TypeOK
      <4> QED
        BY <4>2 DEF ViewMatchesCursor
    <3>3. CASE ~(s.revision <= view.revision) /\ ~(s.revision > view.revision + 1)
      <4>1. view' = [snapshot |-> s, revision |-> s.revision, stale |-> FALSE, needsResync |-> FALSE]
        BY <1>7, <3>3 DEF EventReceived
      <4> QED
        BY <2>1, <4>1 DEF ViewMatchesCursor
    <3> QED
      BY <3>1, <3>2, <3>3
  <2>6. ASSUME ~Polling PROVE ChainOK' /\ ~view'.needsResync
    <3>1. ChainOK'
      BY <1>1, <1>3, <1>7, <2>1, <2>6, TakeChain
    <3>2. ~view.needsResync /\ view.revision = client.revision
      BY <1>4, <2>6 DEF IInv, ResyncIsUnderWay, ViewMatchesCursor
    <3>3. s.revision <= client.revision + 1
      <4>1. Len(wire) > 0 /\ Clear(wire, 1)
        BY <1>1, <1>2, <1>7 DEF Clear
      <4>2. ChainOK
        BY <1>1, <2>6 DEF IInv, Chained
      <4> QED
        BY <1>2, <4>1, <4>2 DEF ChainOK, Chain
    <3>4. ~(s.revision <= view.revision) /\ ~(s.revision > view.revision + 1)
      BY <1>3, <1>7, <3>2, <3>3
    <3> QED
      BY <1>7, <3>1, <3>4 DEF EventReceived
  <2>7. ResyncIsUnderWay' /\ Chained'
    BY <1>1, <2>1, <2>6 DEF ResyncIsUnderWay, Chained
  <2> QED
    BY <1>5, <2>1, <2>3, <2>4, <2>5, <2>7
<1>8. CASE /\ Head(wire).kind = "update" /\ s.revision <= client.revision
           /\ UNCHANGED <<client, view>>
  <2>1. TypeOK'
    BY <1>1, <1>2, <1>8 DEF IInv, TypeOK
  <2>2. RequestOK' /\ ResyncIsUnderWay' /\ ViewMatchesCursor' /\ Polling' = Polling
    BY <1>1, <1>8 DEF IInv, RequestOK, ResyncIsUnderWay, ViewMatchesCursor, Polling
  <2>3. ASSUME ~Polling PROVE ChainOK'
    BY <1>1, <1>3, <1>8, <2>3, TakeChain
  <2>4. Chained'
    BY <1>1, <1>8, <2>2, <2>3 DEF Chained
  <2> QED
    BY <1>5, <1>8, <2>1, <2>2, <2>4
<1> QED
  BY <1>6, <1>7, <1>8 DEF handleEvent

\* Every step of server, stream and page preserves the invariant.
LEMMA NextIInv == IInv /\ [Next]_vars => IInv'
<1> SUFFICES ASSUME IInv, [Next]_vars PROVE IInv'
  OBVIOUS
<1>1. CASE UNCHANGED vars
  <2>1. UNCHANGED <<process, revision, journal, stream, wire, client, answer, view, faults>>
    BY <1>1 DEF vars
  <2>2. TypeOK' /\ RequestOK'
    BY <2>1 DEF IInv, TypeOK, RequestOK
  <2>3. JournalOK' /\ StreamOK' /\ ResyncIsUnderWay' /\ ViewMatchesCursor' /\ Polling' = Polling
    BY <2>1 DEF IInv, JournalOK, StreamOK, ResyncIsUnderWay, ViewMatchesCursor, Polling
  <2> QED
    BY <2>1, <2>2, <2>3, SamePipe DEF IInv, Chained
<1>2. CASE Next
  BY <1>2, PublishIInv, EventStreamIInv, AnswerIInv, StartIInv, PollAnsweredIInv, PollTimerIInv,
     RefreshIInv, HandleEventIInv, ConnectIInv, ReconnectIInv, DisconnectIInv, RequestFailsIInv,
     RestartIInv DEF Next
<1> QED
  BY <1>1, <1>2

-----------------------------------------------------------------------------
(* The theorems *)

\* The inductive invariant holds of every reachable state of the dashboard protocol
\* (diagnostics_store_history.rs, web_server.rs and the page script).
THEOREM Invariance == Spec => []IInv
<1>1. Init => IInv
  BY InitIInv
<1>2. IInv /\ [Next]_vars => IInv'
  BY NextIInv
<1> QED
  BY <1>1, <1>2, PTL DEF Spec

\* Every variable keeps the type of the field it stands for.
THEOREM TypeCorrect == Spec => []TypeOK
<1>1. IInv => TypeOK
  BY DEF IInv
<1> QED
  BY <1>1, Invariance, PTL

\* The reducer's needsResync is only ever set while the poll loop runs.
THEOREM ResyncTheorem == Spec => []ResyncIsUnderWay
<1>1. IInv => ResyncIsUnderWay
  BY DEF IInv
<1> QED
  BY <1>1, Invariance, PTL

\* What the page shows and where the next stream goes on are the same revision.
THEOREM CursorTheorem == Spec => []ViewMatchesCursor
<1>1. IInv => ViewMatchesCursor
  BY DEF IInv
<1> QED
  BY <1>1, Invariance, PTL

\* Without a poll loop and without a resync, the connection brings every revision after the
\* cursor: first what is on the wire, then the replay, then the broadcast.
LEMMA ConnectionBringsAll ==
  ASSUME IInv, client.source = "open", ~Polling, ~ResyncComing,
         NEW r \in client.revision + 1 .. revision
  PROVE  r \in Coming
<1> DEFINE w == wire
           t == stream.initial
           m == Len(w)
           n == Len(t)
           q == w \o t
           next == stream.next
           cursor == client.revision
           rev(e) == e.snapshot.revision
<1>1. w \in Seq(Event) /\ t \in Seq(Event)
  BY DEF IInv, TypeOK
<1>2. /\ m \in Nat /\ n \in Nat /\ DOMAIN q = 1 .. m + n /\ DOMAIN w = 1 .. m /\ DOMAIN t = 1 .. n
      /\ \A i \in 1 .. m : q[i] = w[i]
      /\ \A k \in 1 .. n : q[m + k] = t[k]
  BY <1>1
<1>3. /\ cursor \in Nat /\ next \in Nat /\ revision \in Nat /\ r \in Nat
      /\ cursor + 1 <= r /\ r <= revision
  <2>1. cursor \in Nat /\ next \in Nat /\ revision \in Nat
    BY Bounds DEF IInv, TypeOK
  <2> QED
    BY <2>1
<1>4. /\ \A i \in 1 .. m : w[i].kind = "update"
      /\ \A k \in 1 .. n : t[k].kind = "update"
  <2>1. \A e \in Event : e.kind # "resync" => e.kind = "update"
    BY DEF Event
  <2>2. \A i \in 1 .. m : w[i].kind # "resync"
    BY <1>2, Zenon DEF ResyncComing
  <2>3. \A k \in 1 .. n : t[k].kind # "resync"
    BY <1>2, Zenon DEF ResyncComing
  <2>4. (\A i \in 1 .. m : w[i] \in Event) /\ (\A k \in 1 .. n : t[k] \in Event)
    BY <1>1, Elements
  <2> QED
    BY <2>1, <2>2, <2>3, <2>4, Zenon
<1>5. n <= next /\ \A k \in 1 .. n : rev(t[k]) = next - n + k - 1
  <2>1. ReplayOK
    BY DEF IInv
  <2>2. ~(n = 1 /\ t[1].kind = "resync")
    BY <1>4
  <2> QED
    BY <1>2, <2>1, <2>2 DEF ReplayOK
<1>6. /\ \A j \in 1 .. m : rev(w[j]) = rev(w[1]) + j - 1
      /\ m > 0 => next - n = rev(w[1]) + m /\ rev(w[1]) <= cursor + 1
      /\ m = 0 => next - n <= cursor + 1
  <2>1. Chain(w, ReplaysResync, Front, cursor)
    BY DEF IInv, Chained, ChainOK
  <2>2. \A j \in 0 .. m : Clear(w, j)
    BY <1>2, <1>4 DEF Clear
  <2>3. ~ReplaysResync
    BY <1>2, <1>4 DEF ReplaysResync
  <2>4. m > 0 => Clear(w, m) /\ Clear(w, 1)
    BY <1>2, <2>2
  <2> QED
    BY <1>2, <2>1, <2>2, <2>3, <2>4 DEF Chain, Front
<1>7. \A e \in Event : rev(e) \in Nat
  BY Bounds DEF Event, Snapshots
<1>8. \A i \in 1 .. m + n : q[i].kind = "update" => rev(q[i]) \in Coming
  BY <1>2 DEF Coming
<1>9. next .. revision \subseteq Coming
  BY DEF Coming
<1>10. \A i \in 1 .. m : w[i] \in Event
  BY <1>1, <1>2
<1> HIDE DEF w, t, m, n, q, next, cursor
<1>11. CASE r >= next
  BY <1>3, <1>9, <1>11
<1>12. CASE r < next /\ r >= next - n
  <2> DEFINE k == r - (next - n) + 1
  <2>1. /\ k \in 1 .. n /\ next - n + k - 1 = r /\ m + k \in 1 .. m + n
    BY <1>2, <1>3, <1>5, <1>12
  <2> HIDE DEF k
  <2>2. q[m + k] = t[k] /\ t[k].kind = "update" /\ rev(t[k]) = r
    BY <1>2, <1>4, <1>5, <2>1
  <2> QED
    BY <1>8, <2>1, <2>2
<1>13. CASE r < next - n
  <2>1. m > 0
    BY <1>2, <1>3, <1>6, <1>13
  <2>2. rev(w[1]) \in Nat
    BY <1>2, <1>7, <1>10, <2>1
  <2> DEFINE j == r - rev(w[1]) + 1
             a == rev(w[1])
  <2>3. a \in Nat /\ next - n = a + m /\ a <= cursor + 1
    BY <1>6, <2>1, <2>2
  <2>4. j = r - a + 1
    OBVIOUS
  <2> HIDE DEF a, j
  <2>5. j \in 1 .. m /\ a + j - 1 = r /\ j \in 1 .. m + n
    BY <1>2, <1>3, <1>13, <2>3, <2>4
  <2>6. q[j] = w[j] /\ w[j].kind = "update" /\ rev(w[j]) = r
    BY <1>2, <1>4, <1>6, <2>5 DEF a
  <2> QED
    BY <1>8, <2>5, <2>6
<1> QED
  BY <1>2, <1>3, <1>11, <1>12, <1>13

\* A live page over an open stream misses no revision in silence, whatever the sizes of the
\* journal, of the broadcast channel and of the connection.
THEOREM NoSilentGapTheorem == Spec => []NoSilentGap
<1>1. IInv => NoSilentGap
  <2> SUFFICES ASSUME IInv, client.source = "open", ~Polling, ~ResyncComing
               PROVE  \A r \in view.revision + 1 .. revision : r \in Coming
    BY DEF NoSilentGap
  <2>1. view.revision = client.revision
    BY DEF IInv, RequestOK, ResyncIsUnderWay, ViewMatchesCursor
  <2> QED
    BY <2>1, ConnectionBringsAll
<1> QED
  BY <1>1, Invariance, PTL
====
