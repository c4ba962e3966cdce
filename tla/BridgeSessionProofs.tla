------------------------ MODULE BridgeSessionProofs ------------------------
(***************************************************************************)
(* Machine-checked proofs about BridgeSession, for any capacity of the     *)
(* lane, any limit of writes in flight and any number of telegrams and     *)
(* writes.                                                                 *)
(*                                                                         *)
(* A write travels from the table of the session through stdin to the      *)
(* bridge and comes back as a result through stdout and the lane.  The     *)
(* invariant follows it: its id is in exactly one of the three queues, and *)
(* before the tunnel is up there is no write at all.  Telegrams take the   *)
(* second half of that way; their numbers continue from one queue to the   *)
(* next.                                                                   *)
(***************************************************************************)
EXTENDS BridgeSession, TLAPS, SequenceTheorems, FiniteSetTheorems

\* No two messages of the type are the same.
Unique(q, type) ==
    \A i, j \in 1..Len(q) : q[i].type = type /\ q[i] = q[j] => i = j

\* The telegrams of a queue are in the order of their numbers.
Sorted(q) ==
    \A i, j \in 1..Len(q) : i < j /\ IsEvent(q[i]) /\ IsEvent(q[j]) => q[i].id < q[j].id

Events(q) == Ids(q, "knx_event")

\* The table of writes: its ids are used up, and the effects still to be dispatched
\* stay within the bound of the model.
TableOK ==
    /\ pending \subseteq 1..(nextId - 1)
    /\ nextId + toSend <= MaxWrites + 1
    /\ toSend > 0 => session = "running"

\* A write is in one place.
WritesOK ==
    /\ Results(lane) \cup Results(stdout) \cup Writes(stdin) \subseteq pending
    /\ Unique(lane, "command_result") /\ Unique(stdout, "command_result")
    /\ Unique(stdin, "knx_write")
    /\ Results(lane) \cap Results(stdout) = {}
    /\ Writes(stdin) \cap (Results(lane) \cup Results(stdout)) = {}
    /\ session # "ended" /\ bridge = "serving" /\ ingress = "reading"
          => pending \subseteq Results(lane) \cup Results(stdout) \cup Writes(stdin)

\* Until the tunnel is up the session has nothing to do with writes.
StartOK ==
    bridge \in {"started", "hello", "connecting"} =>
        /\ session \in {"hello", "ready", "ended"}
        /\ pending = {}
        /\ Ids(lane, "ready") = {} /\ Ids(stdout, "ready") = {}

\* The telegrams the session has not handled.
TelegramsOK ==
    session # "ended" /\ ingress = "reading" =>
        /\ Sorted(lane) /\ Sorted(stdout)
        /\ \A x \in Events(lane), y \in Events(stdout) : x < y
        /\ Events(lane) \cup Events(stdout) = (handled + 1)..telegrams
        /\ handled <= telegrams

SessionInv == TypeOK /\ TableOK /\ WritesOK /\ StartOK /\ TelegramsOK

-----------------------------------------------------------------------------
\* Queues

LEMMA IdsMember ==
    ASSUME NEW q \in Seq(Messages), NEW type
    PROVE  \A x : x \in Ids(q, type) <=> \E i \in 1..Len(q) : q[i].type = type /\ q[i].id = x
<1>1. DOMAIN q = 1..Len(q)
  BY LenProperties
<1> QED
  BY <1>1 DEF Ids, Range

LEMMA IdsOfEmpty ==
    /\ <<>> \in Seq(Messages)
    /\ \A type : Ids(<<>>, type) = {} /\ Unique(<<>>, type)
    /\ Sorted(<<>>)
<1>1. <<>> \in Seq(Messages) /\ 1..Len(<<>>) = {}
  BY EmptySeq
<1>2. \A type : Ids(<<>>, type) = {}
  BY <1>1, IdsMember
<1> QED
  BY <1>1, <1>2 DEF Unique, Sorted

LEMMA MessageIsItsParts ==
    ASSUME NEW m \in Messages, NEW n \in Messages, m.type = n.type, m.id = n.id
    PROVE  m = n
BY DEF Messages

\* One more message at the end.
LEMMA Appended ==
    ASSUME NEW q \in Seq(Messages), NEW m \in Messages
    PROVE  /\ Append(q, m) \in Seq(Messages)
           /\ \A type : m.type = type => Ids(Append(q, m), type) = Ids(q, type) \cup {m.id}
           /\ \A type : m.type # type => Ids(Append(q, m), type) = Ids(q, type)
           /\ \A type : Unique(q, type) /\ (m.type = type => m.id \notin Ids(q, type))
                           => Unique(Append(q, m), type)
           /\ Sorted(q) /\ (IsEvent(m) => \A x \in Events(q) : x < m.id) => Sorted(Append(q, m))
<1> DEFINE p == Append(q, m)
           n == Len(q) + 1
<1>1. /\ p \in Seq(Messages) /\ Len(p) = n /\ Len(q) \in Nat /\ p[n] = m
      /\ \A i \in 1..Len(q) : p[i] = q[i]
  BY AppendProperties, LenProperties
<1>2. \A i \in 1..Len(p) : i = n \/ i \in 1..Len(q)
  BY <1>1
<1>3. n \in 1..Len(p) /\ \A i \in 1..Len(q) : i \in 1..Len(p)
  BY <1>1
<1> HIDE DEF p
<1>4. ASSUME NEW type, NEW x
      PROVE  x \in Ids(p, type) <=> x \in Ids(q, type) \/ (m.type = type /\ x = m.id)
  BY <1>1, <1>2, <1>3, IdsMember
<1>5. \A type : m.type = type => Ids(p, type) = Ids(q, type) \cup {m.id}
  BY <1>4
<1>6. ASSUME NEW type, m.type # type
      PROVE  Ids(p, type) = Ids(q, type)
  <2>1. \A x : x \in Ids(p, type) <=> x \in Ids(q, type)
    BY <1>4, <1>6
  <2> QED
    BY <2>1
<1>7. ASSUME NEW type, Unique(q, type), m.type = type => m.id \notin Ids(q, type),
             NEW i \in 1..Len(p), NEW j \in 1..Len(p), p[i].type = type, p[i] = p[j]
      PROVE  i = j
  <2>1. CASE i \in 1..Len(q) /\ j \in 1..Len(q)
    BY <1>1, <1>7, <2>1 DEF Unique
  <2>2. CASE i = n /\ j \in 1..Len(q)
    BY <1>1, <1>7, <2>2, IdsMember
  <2>3. CASE i \in 1..Len(q) /\ j = n
    BY <1>1, <1>7, <2>3, IdsMember
  <2> QED
    BY <1>2, <2>1, <2>2, <2>3
<1>8. ASSUME Sorted(q), IsEvent(m) => \A x \in Events(q) : x < m.id,
             NEW i \in 1..Len(p), NEW j \in 1..Len(p), i < j, IsEvent(p[i]), IsEvent(p[j])
      PROVE  p[i].id < p[j].id
  <2>1. i \in 1..Len(q)
    BY <1>1, <1>8
  <2>2. CASE j \in 1..Len(q)
    BY <1>1, <1>8, <2>1, <2>2 DEF Sorted
  <2>3. CASE j = n
    <3>1. q[i].id \in Events(q)
      BY <1>1, <1>8, <2>1, IdsMember DEF Events, IsEvent
    <3> QED
      BY <1>1, <1>8, <2>1, <2>3, <3>1
  <2> QED
    BY <1>2, <2>2, <2>3
<1>9. \A type : Unique(q, type) /\ (m.type = type => m.id \notin Ids(q, type)) => Unique(p, type)
  BY <1>7 DEF Unique
<1>10. Sorted(q) /\ (IsEvent(m) => \A x \in Events(q) : x < m.id) => Sorted(p)
  BY <1>8 DEF Sorted
<1> QED
  BY <1>1, <1>5, <1>6, <1>9, <1>10 DEF p

\* The first message is taken.
LEMMA Taken ==
    ASSUME NEW q \in Seq(Messages), q # <<>>
    PROVE  /\ Tail(q) \in Seq(Messages) /\ Head(q) \in Messages
           /\ \A type : Head(q).type = type => Ids(q, type) = Ids(Tail(q), type) \cup {Head(q).id}
           /\ \A type : Head(q).type # type => Ids(q, type) = Ids(Tail(q), type)
           /\ \A type : Unique(q, type) =>
                 Unique(Tail(q), type) /\ (Head(q).type = type => Head(q).id \notin Ids(Tail(q), type))
           /\ Sorted(q) => /\ Sorted(Tail(q))
                           /\ IsEvent(Head(q)) => \A x \in Events(Tail(q)) : Head(q).id < x
<1> DEFINE t == Tail(q)
           m == Head(q)
<1>1. /\ t \in Seq(Messages) /\ Len(q) \in Nat \ {0} /\ Len(t) = Len(q) - 1
      /\ m \in Messages /\ m = q[1]
      /\ \A i \in 1..Len(t) : t[i] = q[i + 1]
  BY HeadTailProperties, LenProperties, EmptySeq, ElementOfSeq
<1>2. \A i \in 1..Len(q) : i = 1 \/ (i - 1 \in 1..Len(t) /\ t[i - 1] = q[i])
  BY <1>1
<1>3. 1 \in 1..Len(q) /\ \A i \in 1..Len(t) : i + 1 \in 1..Len(q)
  BY <1>1
<1> HIDE DEF t, m
<1>4. ASSUME NEW type, NEW x
      PROVE  x \in Ids(q, type) <=> x \in Ids(t, type) \/ (m.type = type /\ x = m.id)
  <2>1. ASSUME x \in Ids(q, type) PROVE x \in Ids(t, type) \/ (m.type = type /\ x = m.id)
    <3>1. PICK i \in 1..Len(q) : q[i].type = type /\ q[i].id = x
      BY <2>1, IdsMember
    <3>2. CASE i = 1
      BY <1>1, <3>1, <3>2
    <3>3. CASE i - 1 \in 1..Len(t) /\ t[i - 1] = q[i]
      BY <1>1, <3>1, <3>3, IdsMember
    <3> QED
      BY <1>2, <3>2, <3>3
  <2>2. ASSUME x \in Ids(t, type) PROVE x \in Ids(q, type)
    <3>1. PICK i \in 1..Len(t) : t[i].type = type /\ t[i].id = x
      BY <1>1, <2>2, IdsMember
    <3> QED
      BY <1>1, <1>3, <3>1, IdsMember
  <2>3. m.type = type /\ x = m.id => x \in Ids(q, type)
    BY <1>1, <1>3, IdsMember
  <2> QED
    BY <2>1, <2>2, <2>3
<1>5. \A type : m.type = type => Ids(q, type) = Ids(t, type) \cup {m.id}
  BY <1>4
<1>6. ASSUME NEW type, m.type # type
      PROVE  Ids(q, type) = Ids(t, type)
  <2>1. \A x : x \in Ids(q, type) <=> x \in Ids(t, type)
    BY <1>4, <1>6
  <2> QED
    BY <2>1
<1>7. ASSUME NEW type, Unique(q, type)
      PROVE  Unique(t, type) /\ (m.type = type => m.id \notin Ids(t, type))
  <2>1. ASSUME NEW i \in 1..Len(t), NEW j \in 1..Len(t), t[i].type = type, t[i] = t[j]
        PROVE  i = j
    <3>1. i + 1 = j + 1
      BY <1>1, <1>3, <1>7, <2>1 DEF Unique
    <3> QED
      BY <3>1
  <2>2. ASSUME m.type = type, m.id \in Ids(t, type) PROVE FALSE
    <3>1. PICK i \in 1..Len(t) : t[i].type = type /\ t[i].id = m.id
      BY <1>1, <2>2, IdsMember
    <3>2. q[i + 1] = q[1]
      <4>1. q[i + 1] \in Messages /\ q[1] \in Messages
        BY <1>1, <1>3, ElementOfSeq
      <4> QED
        BY <1>1, <2>2, <3>1, <4>1, MessageIsItsParts
    <3>3. 1 = i + 1
      BY <1>1, <1>3, <1>7, <2>2, <3>2 DEF Unique
    <3> QED
      BY <3>3
  <2> QED
    BY <2>1, <2>2 DEF Unique
<1>8. ASSUME Sorted(q)
      PROVE  Sorted(t) /\ (IsEvent(m) => \A x \in Events(t) : m.id < x)
  <2>1. ASSUME NEW i \in 1..Len(t), NEW j \in 1..Len(t), i < j, IsEvent(t[i]), IsEvent(t[j])
        PROVE  t[i].id < t[j].id
    <3>1. i + 1 < j + 1
      BY <2>1
    <3> QED
      BY <1>1, <1>3, <1>8, <2>1, <3>1 DEF Sorted
  <2>2. ASSUME IsEvent(m), NEW x \in Events(t) PROVE m.id < x
    <3>1. PICK i \in 1..Len(t) : t[i].type = "knx_event" /\ t[i].id = x
      BY <1>1, IdsMember DEF Events
    <3>2. 1 < i + 1 /\ IsEvent(q[i + 1])
      BY <1>1, <3>1 DEF IsEvent
    <3> QED
      BY <1>1, <1>3, <1>8, <2>2, <3>1, <3>2 DEF Sorted
  <2> QED
    BY <2>1, <2>2 DEF Sorted
<1> QED
  BY <1>1, <1>5, <1>6, <1>7, <1>8 DEF t, m

\* What the two do to the ids of one type.
LEMMA AppendedIds ==
    ASSUME NEW q \in Seq(Messages), NEW m \in Messages, NEW type
    PROVE  /\ m.type = type => Ids(Append(q, m), type) = Ids(q, type) \cup {m.id}
           /\ m.type # type => Ids(Append(q, m), type) = Ids(q, type)
BY Appended

LEMMA AppendedOwnIds ==
    ASSUME NEW q \in Seq(Messages), NEW m \in Messages
    PROVE  Ids(Append(q, m), m.type) = Ids(q, m.type) \cup {m.id}
BY AppendedIds

LEMMA TakenIds ==
    ASSUME NEW q \in Seq(Messages), q # <<>>, NEW type
    PROVE  /\ Head(q).type = type => Ids(q, type) = Ids(Tail(q), type) \cup {Head(q).id}
           /\ Head(q).type # type => Ids(q, type) = Ids(Tail(q), type)
BY Taken

\* What holds of two queues in a row.
LEMMA InARow ==
    ASSUME NEW p \in Seq(Messages), NEW q \in Seq(Messages)
    PROVE  /\ p \o q \in Seq(Messages) /\ DOMAIN (p \o q) = 1..Len(p \o q)
           /\ \A type : Ids(p \o q, type) = Ids(p, type) \cup Ids(q, type)
           /\ \A type : Unique(p, type) /\ Unique(q, type) /\ Ids(p, type) \cap Ids(q, type) = {}
                           => Unique(p \o q, type)
           /\ Sorted(p) /\ Sorted(q) /\ (\A x \in Events(p), y \in Events(q) : x < y)
                 => Sorted(p \o q)
<1> DEFINE r == p \o q
<1>1. /\ r \in Seq(Messages) /\ Len(r) = Len(p) + Len(q) /\ Len(p) \in Nat /\ Len(q) \in Nat
      /\ \A i \in 1..Len(r) : r[i] = IF i <= Len(p) THEN p[i] ELSE q[i - Len(p)]
      /\ DOMAIN r = 1..Len(r)
  BY ConcatProperties, LenProperties
<1>2. \A i \in 1..Len(r) : \/ i \in 1..Len(p) /\ r[i] = p[i]
                           \/ i - Len(p) \in 1..Len(q) /\ r[i] = q[i - Len(p)] /\ i > Len(p)
  BY <1>1
<1>3. /\ \A i \in 1..Len(p) : i \in 1..Len(r) /\ r[i] = p[i]
      /\ \A i \in 1..Len(q) : i + Len(p) \in 1..Len(r) /\ r[i + Len(p)] = q[i]
  BY <1>1
<1> HIDE DEF r
<1>4. ASSUME NEW type PROVE Ids(r, type) = Ids(p, type) \cup Ids(q, type)
  <2>1. ASSUME NEW x \in Ids(r, type) PROVE x \in Ids(p, type) \/ x \in Ids(q, type)
    <3>1. PICK i \in 1..Len(r) : r[i].type = type /\ r[i].id = x
      BY <1>1, IdsMember
    <3>2. CASE i \in 1..Len(p) /\ r[i] = p[i]
      BY <3>1, <3>2, IdsMember
    <3>3. CASE i - Len(p) \in 1..Len(q) /\ r[i] = q[i - Len(p)]
      BY <3>1, <3>3, IdsMember
    <3> QED
      BY <1>2, <3>2, <3>3
  <2>2. \A x : x \in Ids(p, type) => x \in Ids(r, type)
    BY <1>1, <1>3, IdsMember
  <2>3. ASSUME NEW x \in Ids(q, type) PROVE x \in Ids(r, type)
    <3>1. PICK i \in 1..Len(q) : q[i].type = type /\ q[i].id = x
      BY IdsMember
    <3>2. i + Len(p) \in 1..Len(r) /\ r[i + Len(p)].type = type /\ r[i + Len(p)].id = x
      BY <1>3, <3>1
    <3> QED
      BY <1>1, <3>2, IdsMember
  <2> QED
    BY <2>1, <2>2, <2>3
<1>5. ASSUME NEW type, Unique(p, type), Unique(q, type), Ids(p, type) \cap Ids(q, type) = {},
             NEW i \in 1..Len(r), NEW j \in 1..Len(r), r[i].type = type, r[i] = r[j]
      PROVE  i = j
  <2>1. CASE i \in 1..Len(p) /\ r[i] = p[i] /\ j \in 1..Len(p) /\ r[j] = p[j]
    BY <1>5, <2>1 DEF Unique
  <2>2. CASE /\ i - Len(p) \in 1..Len(q) /\ r[i] = q[i - Len(p)]
             /\ j - Len(p) \in 1..Len(q) /\ r[j] = q[j - Len(p)]
    <3>1. i - Len(p) = j - Len(p)
      BY <1>5, <2>2 DEF Unique
    <3> QED
      BY <1>1, <3>1
  <2>3. CASE i \in 1..Len(p) /\ r[i] = p[i] /\ j - Len(p) \in 1..Len(q) /\ r[j] = q[j - Len(p)]
    <3>1. r[i].id \in Ids(p, type)
      BY <1>5, <2>3, IdsMember
    <3>2. r[j].id \in Ids(q, type)
      <4>1. q[j - Len(p)].type = type /\ q[j - Len(p)].id = r[j].id
        BY <1>5, <2>3
      <4> QED
        BY <2>3, <4>1, IdsMember
    <3> QED
      BY <1>5, <3>1, <3>2
  <2>4. CASE j \in 1..Len(p) /\ r[j] = p[j] /\ i - Len(p) \in 1..Len(q) /\ r[i] = q[i - Len(p)]
    <3>1. r[j].id \in Ids(p, type) /\ r[i].id \in Ids(q, type)
      BY <1>5, <2>4, IdsMember
    <3> QED
      BY <1>5, <3>1
  <2> QED
    BY <1>2, <2>1, <2>2, <2>3, <2>4
<1>6. ASSUME Sorted(p), Sorted(q), \A x \in Events(p), y \in Events(q) : x < y,
             NEW i \in 1..Len(r), NEW j \in 1..Len(r), i < j, IsEvent(r[i]), IsEvent(r[j])
      PROVE  r[i].id < r[j].id
  <2>1. CASE i \in 1..Len(p) /\ r[i] = p[i] /\ j \in 1..Len(p) /\ r[j] = p[j]
    BY <1>6, <2>1 DEF Sorted
  <2>2. CASE /\ i - Len(p) \in 1..Len(q) /\ r[i] = q[i - Len(p)]
             /\ j - Len(p) \in 1..Len(q) /\ r[j] = q[j - Len(p)]
    <3>1. i - Len(p) < j - Len(p)
      BY <1>1, <1>6
    <3> QED
      BY <1>6, <2>2, <3>1 DEF Sorted
  <2>3. CASE i \in 1..Len(p) /\ r[i] = p[i] /\ j - Len(p) \in 1..Len(q) /\ r[j] = q[j - Len(p)]
    <3>1. r[i].id \in Events(p) /\ r[j].id \in Events(q)
      BY <1>6, <2>3, IdsMember DEF Events, IsEvent
    <3> QED
      BY <1>6, <3>1
  <2>4. ~(i > Len(p) /\ j \in 1..Len(p))
    BY <1>1, <1>6
  <2> QED
    BY <1>2, <2>1, <2>2, <2>3, <2>4
<1>7. \A type : Unique(p, type) /\ Unique(q, type) /\ Ids(p, type) \cap Ids(q, type) = {}
                   => Unique(r, type)
  <2>1. SUFFICES ASSUME NEW type, Unique(p, type), Unique(q, type),
                        Ids(p, type) \cap Ids(q, type) = {}
                 PROVE  Unique(r, type)
    OBVIOUS
  <2>2. \A i, j \in 1..Len(r) : r[i].type = type /\ r[i] = r[j] => i = j
    BY <1>5, <2>1
  <2> QED
    BY <2>2 DEF Unique
<1>8. Sorted(p) /\ Sorted(q) /\ (\A x \in Events(p), y \in Events(q) : x < y) => Sorted(r)
  BY <1>6 DEF Sorted
<1> QED
  BY <1>1, <1>4, <1>7, <1>8 DEF r

\* Messages that are neither results, telegrams nor ready leave what is said of a
\* queue as it is.
Same(p, q) ==
    /\ Results(p) = Results(q) /\ Events(p) = Events(q) /\ Ids(p, "ready") = Ids(q, "ready")
    /\ Unique(q, "command_result") => Unique(p, "command_result")
    /\ Sorted(q) => Sorted(p)

Plain(m) == m.type \notin {"command_result", "knx_event", "ready"}

LEMMA PlainLines ==
    /\ {Hello, Configure, Ready, Fatal, Garbled, Shutdown, Eof, Error} \subseteq Messages
    /\ \A m \in {Hello, Configure, Fatal, Garbled, Shutdown, Eof, Error} : Plain(m)
    /\ Ready.type = "ready"
    /\ Configure.type # "knx_write" /\ Shutdown.type # "knx_write"
BY DEF Messages, Msg, Plain, Hello, Configure, Ready, Fatal, Garbled, Shutdown, Eof, Error

LEMMA PlainAppended ==
    ASSUME NEW q \in Seq(Messages), NEW m \in Messages, Plain(m)
    PROVE  Same(Append(q, m), q)
<1>1. m.type # "command_result" /\ m.type # "knx_event" /\ m.type # "ready"
  BY DEF Plain
<1>2. /\ Ids(Append(q, m), "command_result") = Ids(q, "command_result")
      /\ Ids(Append(q, m), "knx_event") = Ids(q, "knx_event")
      /\ Ids(Append(q, m), "ready") = Ids(q, "ready")
  BY <1>1, AppendedIds
<1>3. Unique(q, "command_result") => Unique(Append(q, m), "command_result")
  BY <1>1, Appended
<1>4. Sorted(q) => Sorted(Append(q, m))
  BY <1>1, Appended DEF IsEvent
<1> QED
  BY <1>2, <1>3, <1>4 DEF Same, Results, Events

LEMMA PlainTaken ==
    ASSUME NEW q \in Seq(Messages), q # <<>>, Plain(Head(q))
    PROVE  Same(Tail(q), q)
<1>1. Head(q).type # "command_result" /\ Head(q).type # "knx_event" /\ Head(q).type # "ready"
  BY DEF Plain
<1>2. /\ Ids(Tail(q), "command_result") = Ids(q, "command_result")
      /\ Ids(Tail(q), "knx_event") = Ids(q, "knx_event")
      /\ Ids(Tail(q), "ready") = Ids(q, "ready")
  BY <1>1, TakenIds
<1>3. Unique(q, "command_result") => Unique(Tail(q), "command_result")
  BY Taken
<1>4. Sorted(q) => Sorted(Tail(q))
  BY Taken
<1> QED
  BY <1>2, <1>3, <1>4 DEF Same, Results, Events

LEMMA SameReflexive == \A q : Same(q, q)
BY DEF Same

HealthType == [ready : BOOLEAN, fatal : BOOLEAN, notified : BOOLEAN]

LEMMA HealthStays ==
    ASSUME health \in HealthType
    PROVE  Failed(health) \in HealthType /\ MarkReady(health) \in HealthType
BY DEF HealthType, Failed, MarkReady, Listening

LEMMA QueuesHoldMessages ==
    ASSUME TypeOK
    PROVE  stdout \in Seq(Messages) /\ stdin \in Seq(Messages) /\ lane \in Seq(Messages)
           /\ health \in HealthType
BY DEF TypeOK, HealthType

-----------------------------------------------------------------------------
\* The bridge

\* Steps of the bridge that touch neither a write, a telegram nor ready.
LEMMA PlainBridgeStep ==
    ASSUME SessionInv, Same(stdout', stdout), stdout' \in Seq(Messages),
           stdin' = stdin \/ (stdin # <<>> /\ stdin' = Tail(stdin)),
           bridge' \in {"started", "hello", "connecting", "serving", "stopping", "exited"},
           bridge' # "serving",
           bridge' \in {"started", "hello", "connecting"}
               => bridge \in {"started", "hello", "connecting"},
           UNCHANGED <<telegrams, hostVars, laneVars, health>>
    PROVE  SessionInv'
<1>1. stdin' \in Seq(Messages) /\ Writes(stdin') \subseteq Writes(stdin)
      /\ Unique(stdin', "knx_write")
  <2>1. stdin \in Seq(Messages) /\ Unique(stdin, "knx_write")
    BY QueuesHoldMessages DEF SessionInv, WritesOK
  <2>2. ASSUME stdin # <<>>
        PROVE  /\ Tail(stdin) \in Seq(Messages) /\ Unique(Tail(stdin), "knx_write")
               /\ Ids(Tail(stdin), "knx_write") \subseteq Ids(stdin, "knx_write")
    <3>1. /\ Tail(stdin) \in Seq(Messages) /\ Unique(Tail(stdin), "knx_write")
      BY <2>1, <2>2, Taken
    <3>2. CASE Head(stdin).type = "knx_write"
      BY <2>1, <2>2, <3>2, Taken
    <3>3. CASE Head(stdin).type # "knx_write"
      BY <2>1, <2>2, <3>3, Taken
    <3> QED
      BY <3>1, <3>2, <3>3
  <2> QED
    BY <2>1, <2>2 DEF Writes
<1>2. TypeOK'
  BY <1>1 DEF SessionInv, TypeOK, hostVars, laneVars
<1>3. TableOK'
  BY DEF SessionInv, TableOK, hostVars
<1>4. WritesOK'
  BY <1>1 DEF SessionInv, WritesOK, Same, hostVars, laneVars
<1>5. StartOK'
  BY DEF SessionInv, StartOK, Same, hostVars, laneVars
<1>6. TelegramsOK'
  BY DEF SessionInv, TelegramsOK, Same, hostVars, laneVars
<1> QED
  BY <1>2, <1>3, <1>4, <1>5, <1>6 DEF SessionInv

\* A line that the bridge writes when nobody is left to read it is dropped.
LEMMA LineWritten ==
    ASSUME TypeOK, NEW m \in Messages, WriteLine(m)
    PROVE  /\ stdout' \in Seq(Messages)
           /\ Plain(m) => Same(stdout', stdout)
           /\ ingress = "reading" => stdout' = Append(stdout, m)
           /\ ingress # "reading" => stdout' = stdout
<1>1. stdout \in Seq(Messages)
  BY QueuesHoldMessages
<1>2. ingress = "reading" => stdout' = Append(stdout, m)
  BY DEF WriteLine
<1>3. ingress # "reading" => stdout' = stdout
  BY DEF WriteLine
<1>4. Append(stdout, m) \in Seq(Messages)
  BY <1>1, Appended
<1>5. Plain(m) => Same(Append(stdout, m), stdout)
  BY <1>1, PlainAppended
<1> QED
  BY <1>1, <1>2, <1>3, <1>4, <1>5, SameReflexive

LEMMA BridgeConnectedInv ==
    ASSUME SessionInv, BridgeConnected
    PROVE  SessionInv'
<1>1. stdout \in Seq(Messages) /\ TypeOK
  BY QueuesHoldMessages DEF SessionInv
<1>2. WriteLine(Ready) /\ Ready \in Messages /\ Ready.type = "ready"
  BY PlainLines DEF BridgeConnected
<1>3. stdout' \in Seq(Messages)
  BY <1>1, <1>2, LineWritten
<1>4. /\ Results(stdout') = Results(stdout) /\ Events(stdout') = Events(stdout)
      /\ Unique(stdout, "command_result") => Unique(stdout', "command_result")
      /\ Sorted(stdout) => Sorted(stdout')
  <2>1. CASE stdout' = stdout
    BY <2>1
  <2>2. CASE stdout' = Append(stdout, Ready)
    <3>1. /\ Ids(stdout', "command_result") = Ids(stdout, "command_result")
          /\ Ids(stdout', "knx_event") = Ids(stdout, "knx_event")
      BY <1>1, <1>2, <2>2, AppendedIds
    <3>2. Unique(stdout, "command_result") => Unique(stdout', "command_result")
      BY <1>1, <1>2, <2>2, Appended
    <3>3. Sorted(stdout) => Sorted(stdout')
      BY <1>1, <1>2, <2>2, Appended DEF IsEvent
    <3> QED
      BY <3>1, <3>2, <3>3 DEF Results, Events
  <2> QED
    BY <1>1, <1>2, <2>1, <2>2, LineWritten
<1>5. pending = {} /\ bridge' = "serving"
      /\ UNCHANGED <<stdin, telegrams, hostVars, laneVars, health>>
  BY DEF SessionInv, StartOK, BridgeConnected
<1>6. TypeOK'
  BY <1>3, <1>5 DEF SessionInv, TypeOK, hostVars, laneVars
<1>7. TableOK'
  BY <1>5 DEF SessionInv, TableOK, hostVars
<1>8. WritesOK'
  BY <1>4, <1>5 DEF SessionInv, WritesOK, hostVars, laneVars
<1>9. StartOK'
  BY <1>5 DEF StartOK
<1>10. TelegramsOK'
  BY <1>4, <1>5 DEF SessionInv, TelegramsOK, hostVars, laneVars
<1> QED
  BY <1>6, <1>7, <1>8, <1>9, <1>10 DEF SessionInv

LEMMA TelegramReceivedInv ==
    ASSUME SessionInv, TelegramReceived
    PROVE  SessionInv'
<1> DEFINE m == Msg("knx_event", telegrams + 1)
<1>1. stdout \in Seq(Messages) /\ lane \in Seq(Messages) /\ TypeOK /\ telegrams \in Nat
      /\ handled \in Nat
  BY QueuesHoldMessages DEF SessionInv, TypeOK
<1>2. m \in Messages /\ m.type = "knx_event" /\ m.id = telegrams + 1 /\ IsEvent(m)
  BY <1>1 DEF Msg, Messages, IsEvent
<1>3. /\ WriteLine(m) /\ telegrams' = telegrams + 1
      /\ UNCHANGED <<bridge, stdin, hostVars, laneVars, health>>
  BY DEF TelegramReceived
<1> HIDE DEF m
<1>4. stdout' \in Seq(Messages) /\ (stdout' = stdout \/ stdout' = Append(stdout, m))
  BY <1>1, <1>2, <1>3, LineWritten
<1>5. /\ Results(stdout') = Results(stdout) /\ Ids(stdout', "ready") = Ids(stdout, "ready")
      /\ Unique(stdout, "command_result") => Unique(stdout', "command_result")
  <2>1. CASE stdout' = stdout
    BY <2>1
  <2>2. CASE stdout' = Append(stdout, m)
    <3>1. /\ Ids(stdout', "command_result") = Ids(stdout, "command_result")
          /\ Ids(stdout', "ready") = Ids(stdout, "ready")
      BY <1>1, <1>2, <2>2, AppendedIds
    <3>2. Unique(stdout, "command_result") => Unique(stdout', "command_result")
      BY <1>1, <1>2, <2>2, Appended
    <3> QED
      BY <3>1, <3>2 DEF Results
  <2> QED
    BY <1>4, <2>1, <2>2
<1>6. TypeOK'
  BY <1>1, <1>3, <1>4 DEF TypeOK, hostVars, laneVars
<1>7. TableOK'
  BY <1>3 DEF SessionInv, TableOK, hostVars
<1>8. WritesOK'
  BY <1>3, <1>5 DEF SessionInv, WritesOK, hostVars, laneVars
<1>9. StartOK'
  BY <1>3, <1>5 DEF SessionInv, StartOK, hostVars, laneVars
<1>10. TelegramsOK'
  <2> SUFFICES ASSUME session # "ended", ingress = "reading"
               PROVE  /\ Sorted(lane) /\ Sorted(stdout')
                      /\ \A x \in Events(lane), y \in Events(stdout') : x < y
                      /\ Events(lane) \cup Events(stdout') = (handled + 1)..(telegrams + 1)
                      /\ handled <= telegrams + 1
    BY <1>3 DEF TelegramsOK, hostVars, laneVars
  <2>1. /\ Sorted(lane) /\ Sorted(stdout)
        /\ \A x \in Events(lane), y \in Events(stdout) : x < y
        /\ Events(lane) \cup Events(stdout) = (handled + 1)..telegrams
        /\ handled <= telegrams
    BY DEF SessionInv, TelegramsOK
  <2>2. stdout' = Append(stdout, m)
    BY <1>1, <1>2, <1>3, LineWritten
  <2>3. Events(stdout') = Events(stdout) \cup {telegrams + 1}
    <3>1. Ids(Append(stdout, m), m.type) = Ids(stdout, m.type) \cup {m.id}
      BY <1>1, <1>2, AppendedOwnIds
    <3> QED
      BY <1>2, <2>2, <3>1 DEF Events
  <2>4. \A x \in Events(lane) \cup Events(stdout) : x < telegrams + 1
    BY <1>1, <2>1
  <2>5. Sorted(stdout')
    <3>1. IsEvent(m) => \A x \in Events(stdout) : x < m.id
      BY <1>2, <2>4
    <3> QED
      BY <1>1, <1>2, <2>1, <2>2, <3>1, Appended
  <2>6. (handled + 1)..telegrams \cup {telegrams + 1} = (handled + 1)..(telegrams + 1)
    BY <1>1, <2>1
  <2> QED
    BY <1>1, <2>1, <2>3, <2>4, <2>5, <2>6
<1> QED
  BY <1>6, <1>7, <1>8, <1>9, <1>10 DEF SessionInv

LEMMA BridgeServesInv ==
    ASSUME SessionInv, BridgeServes
    PROVE  SessionInv'
<1> DEFINE id == Head(stdin).id
           m  == Msg("command_result", id)
<1>1. /\ stdout \in Seq(Messages) /\ stdin \in Seq(Messages) /\ TypeOK /\ stdin # <<>>
      /\ stdin' = Tail(stdin) /\ Head(stdin) \in Messages
      /\ UNCHANGED <<telegrams, hostVars, laneVars, health>>
  BY QueuesHoldMessages, Taken DEF SessionInv, BridgeServes
<1>2. stdin' \in Seq(Messages) /\ Unique(stdin', "knx_write")
  BY <1>1, Taken DEF SessionInv, WritesOK
<1>3. TableOK'
  BY <1>1 DEF SessionInv, TableOK, hostVars
<1>4. CASE /\ Head(stdin).type = "knx_write" /\ WriteLine(m)
           /\ bridge' = IF ingress = "reading" THEN bridge ELSE "exited"
  <2>1. m \in Messages /\ m.type = "command_result" /\ m.id = id
    BY <1>1 DEF Msg, Messages
  <2>2. stdout' \in Seq(Messages)
    BY <1>1, <1>4, <2>1, LineWritten
  <2>3. Writes(stdin) = Writes(stdin') \cup {id} /\ id \notin Writes(stdin')
    <3>1. Ids(stdin, "knx_write") = Ids(Tail(stdin), "knx_write") \cup {id}
          /\ id \notin Ids(Tail(stdin), "knx_write")
      BY <1>1, <1>4, Taken DEF SessionInv, WritesOK
    <3> QED
      BY <1>1, <3>1 DEF Writes
  <2>4. bridge = "serving"
    BY DEF BridgeServes
  <2>5. CASE ingress # "reading"
    <3>1. stdout' = stdout /\ bridge' = "exited"
      BY <1>1, <1>4, <2>1, <2>5, LineWritten
    <3>2. TypeOK'
      BY <1>1, <1>2, <3>1 DEF TypeOK, hostVars, laneVars
    <3>3. WritesOK'
      BY <1>1, <1>2, <2>3, <3>1 DEF SessionInv, WritesOK, hostVars, laneVars
    <3>4. StartOK'
      BY <3>1 DEF StartOK
    <3>5. TelegramsOK'
      BY <1>1, <3>1 DEF SessionInv, TelegramsOK, hostVars, laneVars
    <3> QED
      BY <1>3, <3>2, <3>3, <3>4, <3>5 DEF SessionInv
  <2>6. CASE ingress = "reading"
    <3>1. stdout' = Append(stdout, m) /\ bridge' = "serving"
      BY <1>1, <1>4, <2>1, <2>4, <2>6, LineWritten
    <3> HIDE DEF m
    <3>2. Ids(stdout', "command_result") = Ids(stdout, "command_result") \cup {id}
      <4>1. Ids(stdout', "command_result") = Ids(stdout, "command_result") \cup {m.id}
        <5>1. Ids(Append(stdout, m), m.type) = Ids(stdout, m.type) \cup {m.id}
          BY <1>1, <2>1, AppendedOwnIds
        <5> QED
          BY <1>1, <2>1, <3>1, <5>1
      <4> QED
        BY <2>1, <4>1
    <3>3. Ids(stdout', "knx_event") = Ids(stdout, "knx_event")
      BY <1>1, <2>1, <3>1, AppendedIds
    <3>4. Sorted(stdout) => Sorted(stdout')
      BY <1>1, <2>1, <3>1, Appended DEF IsEvent
    <3>5. id \notin Results(lane) \cup Results(stdout) /\ id \in pending
      BY <2>3 DEF SessionInv, WritesOK
    <3>6. Unique(stdout', "command_result")
      <4>1. Unique(stdout, "command_result") /\ id \notin Ids(stdout, "command_result")
        BY <3>5 DEF SessionInv, WritesOK, Results
      <4> QED
        BY <1>1, <2>1, <3>1, <4>1, Appended
    <3>7. TypeOK'
      BY <1>1, <1>2, <2>2, <3>1 DEF TypeOK, hostVars, laneVars
    <3>8. WritesOK'
      <4>1. Results(stdout') = Results(stdout) \cup {id}
        BY <3>2 DEF Results
      <4> HIDE DEF id
      <4> QED
        BY <1>1, <1>2, <2>3, <2>4, <3>1, <3>5, <3>6, <4>1
           DEF SessionInv, WritesOK, hostVars, laneVars
    <3>9. StartOK'
      BY <3>1 DEF StartOK
    <3>10. TelegramsOK'
      BY <1>1, <3>3, <3>4 DEF SessionInv, TelegramsOK, Events, hostVars, laneVars
    <3> QED
      BY <1>3, <3>7, <3>8, <3>9, <3>10 DEF SessionInv
  <2> QED
    BY <2>5, <2>6
<1>5. CASE bridge' = "stopping" /\ UNCHANGED stdout
  BY <1>1, <1>5, SameReflexive, PlainBridgeStep
<1> QED
  BY <1>4, <1>5 DEF BridgeServes

LEMMA BridgeInv ==
    ASSUME SessionInv, Bridge
    PROVE  SessionInv'
<1>0. TypeOK /\ stdout \in Seq(Messages)
  BY QueuesHoldMessages DEF SessionInv
<1>1. ASSUME NEW m \in {Hello, Fatal, Garbled}, WriteLine(m)
      PROVE  stdout' \in Seq(Messages) /\ Same(stdout', stdout)
  <2>1. m \in Messages /\ Plain(m)
    BY PlainLines
  <2> QED
    BY <1>0, <1>1, <2>1, LineWritten
<1>2. UNCHANGED stdout => stdout' \in Seq(Messages) /\ Same(stdout', stdout)
  BY <1>0, SameReflexive
<1>3. CASE BridgeHello
  <2>1. stdout' \in Seq(Messages) /\ Same(stdout', stdout)
    BY <1>1, <1>3 DEF BridgeHello
  <2> QED
    BY <1>3, <2>1, PlainBridgeStep DEF BridgeHello
<1>4. CASE BridgeConfigured
  <2>1. stdout' \in Seq(Messages) /\ Same(stdout', stdout) /\ bridge' \in {"connecting", "exited"}
    BY <1>1, <1>2, <1>4 DEF BridgeConfigured
  <2> QED
    BY <1>4, <2>1, PlainBridgeStep DEF BridgeConfigured
<1>5. CASE BridgeConnected
  BY <1>5, BridgeConnectedInv
<1>6. CASE TelegramReceived
  BY <1>6, TelegramReceivedInv
<1>7. CASE BridgeServes
  BY <1>7, BridgeServesInv
<1>8. CASE BridgeGivesUp
  <2>1. stdout' \in Seq(Messages) /\ Same(stdout', stdout) /\ bridge' \in {"stopping", "exited"}
    BY <1>1, <1>8 DEF BridgeGivesUp
  <2> QED
    BY <1>8, <2>1, PlainBridgeStep DEF BridgeGivesUp
<1>9. CASE BridgeStops
  BY <1>2, <1>9, PlainBridgeStep DEF BridgeStops
<1>10. CASE BridgeCrashes
  <2>1. stdout' \in Seq(Messages) /\ Same(stdout', stdout)
    BY <1>1, <1>2, <1>10 DEF BridgeCrashes
  <2> QED
    BY <1>10, <2>1, PlainBridgeStep DEF BridgeCrashes
<1> QED
  BY <1>3, <1>4, <1>5, <1>6, <1>7, <1>8, <1>9, <1>10 DEF Bridge

-----------------------------------------------------------------------------
\* The ingress task

\* The task returns: what is on its way may be cut short, but nothing is added.
LEMMA IngressStopsInv ==
    ASSUME SessionInv, ingress' = "stopped", health' \in HealthType,
           stdout' \in Seq(Messages), lane' \in Seq(Messages), Len(lane') <= LaneCapacity,
           Same(lane', lane),
           Results(stdout') \subseteq Results(stdout), Unique(stdout', "command_result"),
           Ids(stdout', "ready") \subseteq Ids(stdout, "ready"),
           UNCHANGED <<bridge, stdin, telegrams, hostVars>>
    PROVE  SessionInv'
<1>1. TypeOK'
  BY DEF SessionInv, TypeOK, HealthType, hostVars
<1>2. TableOK'
  BY DEF SessionInv, TableOK, hostVars
<1>3. WritesOK'
  BY DEF SessionInv, WritesOK, Same, hostVars
<1>4. StartOK'
  BY DEF SessionInv, StartOK, Same, hostVars
<1>5. TelegramsOK'
  BY DEF TelegramsOK
<1> QED
  BY <1>1, <1>2, <1>3, <1>4, <1>5 DEF SessionInv

LEMMA TrySendSame ==
    ASSUME TypeOK, NEW m \in Messages, Plain(m), TrySend(m)
    PROVE  lane' \in Seq(Messages) /\ Len(lane') <= LaneCapacity /\ Same(lane', lane)
<1>1. lane \in Seq(Messages) /\ Len(lane) <= LaneCapacity /\ Len(lane) \in Nat
  BY LenProperties DEF TypeOK
<1>2. CASE Len(lane) < LaneCapacity
  <2>1. lane' = Append(lane, m)
    BY <1>2 DEF TrySend
  <2>2. Len(Append(lane, m)) = Len(lane) + 1 /\ Append(lane, m) \in Seq(Messages)
    BY <1>1, AppendProperties
  <2> QED
    BY <1>1, <1>2, <2>1, <2>2, PlainAppended, BridgeAssumption
<1>3. CASE ~(Len(lane) < LaneCapacity)
  BY <1>1, <1>3, SameReflexive DEF TrySend
<1> QED
  BY <1>2, <1>3

\* The next line moves from the pipe to the lane.
LEMMA LineMovesInv ==
    ASSUME SessionInv, stdout # <<>>, stdout' = Tail(stdout), Len(lane) < LaneCapacity,
           lane' = Append(lane, Head(stdout)),
           UNCHANGED <<bridge, stdin, telegrams, hostVars, ingress, health>>
    PROVE  SessionInv'
<1>0. PICK m : m = Head(stdout)
  OBVIOUS
<1>1. /\ stdout \in Seq(Messages) /\ lane \in Seq(Messages) /\ TypeOK
      /\ m \in Messages /\ stdout' \in Seq(Messages)
      /\ lane' = Append(lane, m) /\ m = Head(stdout)
  BY <1>0, QueuesHoldMessages, Taken DEF SessionInv
<1>2. lane' \in Seq(Messages) /\ Len(lane') = Len(lane) + 1 /\ Len(lane) \in Nat
  BY <1>1, AppendProperties, LenProperties
<1>3. ASSUME NEW type PROVE Ids(lane', type) \cup Ids(stdout', type) = Ids(lane, type) \cup Ids(stdout, type)
  <2>1. CASE m.type = type
    <3>1. Ids(lane', type) = Ids(lane, type) \cup {m.id}
      <4>1. Ids(Append(lane, m), m.type) = Ids(lane, m.type) \cup {m.id}
        BY <1>1, <2>1, AppendedOwnIds
      <4> QED
        BY <1>1, <2>1, <4>1
    <3>2. Ids(stdout, type) = Ids(stdout', type) \cup {m.id}
      BY <1>1, <2>1, TakenIds
    <3> QED
      BY <3>1, <3>2
  <2>2. CASE m.type # type
    <3>1. Ids(lane', type) = Ids(lane, type)
      BY <1>1, <2>2, AppendedIds
    <3>2. Ids(stdout, type) = Ids(stdout', type)
      BY <1>1, <2>2, TakenIds
    <3> QED
      BY <3>1, <3>2
  <2> QED
    BY <2>1, <2>2
<1>4. TypeOK'
  BY <1>1, <1>2, BridgeAssumption DEF TypeOK, hostVars
<1>5. TableOK'
  BY DEF SessionInv, TableOK, hostVars
<1>6. WritesOK'
  <2>1. Results(lane') \cup Results(stdout') = Results(lane) \cup Results(stdout)
    BY <1>3 DEF Results
  <2>2. Unique(stdout', "command_result")
    BY <1>1, Taken DEF SessionInv, WritesOK
  <2>3. Unique(lane', "command_result") /\ Results(lane') \cap Results(stdout') = {}
    <3>1. CASE m.type = "command_result"
      <4>1. Ids(lane', "command_result") = Ids(lane, "command_result") \cup {m.id}
        <5>1. Ids(Append(lane, m), m.type) = Ids(lane, m.type) \cup {m.id}
          BY <1>1, AppendedOwnIds
        <5> QED
          BY <1>1, <3>1, <5>1
      <4>2. Ids(stdout, "command_result") = Ids(stdout', "command_result") \cup {m.id}
        BY <1>1, <3>1, TakenIds
      <4>3. m.id \notin Ids(stdout', "command_result")
        BY <1>1, <3>1, Taken DEF SessionInv, WritesOK
      <4>4. Unique(lane, "command_result") /\ m.id \notin Ids(lane, "command_result")
        BY <4>2 DEF SessionInv, WritesOK, Results
      <4>5. Unique(lane', "command_result")
        BY <1>1, <4>4, Appended
      <4> QED
        BY <4>1, <4>2, <4>3, <4>5 DEF SessionInv, WritesOK, Results
    <3>2. CASE m.type # "command_result"
      <4>1. Ids(lane', "command_result") = Ids(lane, "command_result")
        BY <1>1, <3>2, AppendedIds
      <4>2. Ids(stdout, "command_result") = Ids(stdout', "command_result")
        BY <1>1, <3>2, TakenIds
      <4>3. Unique(lane', "command_result")
        BY <1>1, <3>2, Appended DEF SessionInv, WritesOK
      <4> QED
        BY <4>1, <4>2, <4>3 DEF SessionInv, WritesOK, Results
    <3> QED
      BY <3>1, <3>2
  <2> QED
    BY <2>1, <2>2, <2>3 DEF SessionInv, WritesOK, hostVars
<1>7. StartOK'
  <2>1. Ids(lane', "ready") \cup Ids(stdout', "ready") = Ids(lane, "ready") \cup Ids(stdout, "ready")
    BY <1>3
  <2> QED
    BY <2>1 DEF SessionInv, StartOK, hostVars
<1>8. TelegramsOK'
  <2> SUFFICES ASSUME session # "ended", ingress = "reading"
               PROVE  /\ Sorted(lane') /\ Sorted(stdout')
                      /\ \A x \in Events(lane'), y \in Events(stdout') : x < y
                      /\ Events(lane') \cup Events(stdout') = (handled + 1)..telegrams
                      /\ handled <= telegrams
    BY DEF TelegramsOK, hostVars
  <2>1. /\ Sorted(lane) /\ Sorted(stdout)
        /\ \A x \in Events(lane), y \in Events(stdout) : x < y
        /\ Events(lane) \cup Events(stdout) = (handled + 1)..telegrams
        /\ handled <= telegrams
    BY DEF SessionInv, TelegramsOK
  <2>2. Events(lane') \cup Events(stdout') = (handled + 1)..telegrams
    BY <1>3, <2>1 DEF Events
  <2>3. Sorted(stdout') /\ (IsEvent(m) => \A y \in Events(stdout') : m.id < y)
    BY <1>1, <2>1, Taken
  <2>4. CASE m.type = "knx_event"
    <3>1. Ids(lane', "knx_event") = Ids(lane, "knx_event") \cup {m.id}
      <4>1. Ids(Append(lane, m), m.type) = Ids(lane, m.type) \cup {m.id}
        BY <1>1, AppendedOwnIds
      <4> QED
        BY <1>1, <2>4, <4>1
    <3>2. Ids(stdout, "knx_event") = Ids(stdout', "knx_event") \cup {m.id}
      BY <1>1, <2>4, TakenIds
    <3>3. \A x \in Events(lane) : x < m.id
      BY <2>1, <3>2 DEF Events
    <3>4. Sorted(lane')
      BY <1>1, <2>1, <3>3, Appended
    <3>5. \A x \in Events(lane'), y \in Events(stdout') : x < y
      BY <2>1, <2>3, <2>4, <3>1, <3>2 DEF Events, IsEvent
    <3> QED
      BY <2>1, <2>2, <2>3, <3>4, <3>5
  <2>5. CASE m.type # "knx_event"
    <3>1. Ids(lane', "knx_event") = Ids(lane, "knx_event")
      BY <1>1, <2>5, AppendedIds
    <3>2. Ids(stdout, "knx_event") = Ids(stdout', "knx_event")
      BY <1>1, <2>5, TakenIds
    <3>3. Sorted(lane')
      BY <1>1, <2>1, <2>5, Appended DEF IsEvent
    <3> QED
      BY <2>1, <2>2, <2>3, <3>1, <3>2, <3>3 DEF Events
  <2> QED
    BY <2>4, <2>5
<1> QED
  BY <1>4, <1>5, <1>6, <1>7, <1>8 DEF SessionInv

LEMMA IngressInv ==
    ASSUME SessionInv, IngressReads \/ IngressEof
    PROVE  SessionInv'
<1>0. TypeOK /\ stdout \in Seq(Messages) /\ lane \in Seq(Messages) /\ health \in HealthType
      /\ Len(lane) <= LaneCapacity /\ Unique(stdout, "command_result")
  BY QueuesHoldMessages DEF SessionInv, TypeOK, WritesOK
<1>1. Failed(health) \in HealthType
  BY <1>0, HealthStays
<1>2. CASE IngressReads
  <2>1. /\ stdout # <<>> /\ stdout' = Tail(stdout)
        /\ UNCHANGED <<bridge, stdin, telegrams, hostVars>>
    BY <1>2 DEF IngressReads
  <2>2. /\ stdout' \in Seq(Messages) /\ Unique(stdout', "command_result")
        /\ Results(stdout') \subseteq Results(stdout)
        /\ Ids(stdout', "ready") \subseteq Ids(stdout, "ready")
    <3>1. stdout' \in Seq(Messages) /\ Unique(stdout', "command_result")
      BY <1>0, <2>1, Taken
    <3>2. ASSUME NEW type PROVE Ids(stdout', type) \subseteq Ids(stdout, type)
      <4>1. CASE Head(stdout).type = type
        BY <1>0, <2>1, <4>1, TakenIds
      <4>2. CASE Head(stdout).type # type
        BY <1>0, <2>1, <4>2, TakenIds
      <4> QED
        BY <4>1, <4>2
    <3> QED
      BY <3>1, <3>2 DEF Results
  <2>3. CASE health' = Failed(health) /\ TrySend(Error) /\ Stop
    <3>1. Error \in Messages /\ Plain(Error)
      BY PlainLines
    <3>2. lane' \in Seq(Messages) /\ Len(lane') <= LaneCapacity /\ Same(lane', lane)
      BY <1>0, <2>3, <3>1, TrySendSame
    <3> QED
      BY <1>1, <2>1, <2>2, <2>3, <3>2, IngressStopsInv DEF Stop
  <2>4. CASE health' \in {health, Failed(health)} /\ Stop /\ UNCHANGED lane
    BY <1>0, <1>1, <2>1, <2>2, <2>4, SameReflexive, IngressStopsInv DEF Stop
  <2>5. CASE Len(lane) < LaneCapacity /\ lane' = Append(lane, Head(stdout))
             /\ UNCHANGED <<ingress, health>>
    BY <2>1, <2>5, LineMovesInv
  <2> QED
    BY <1>2, <2>3, <2>4, <2>5 DEF IngressReads
<1>3. CASE IngressEof
  <2>1. Eof \in Messages /\ Plain(Eof)
    BY PlainLines
  <2>2. lane' \in Seq(Messages) /\ Len(lane') <= LaneCapacity /\ Same(lane', lane)
    BY <1>0, <1>3, <2>1, TrySendSame DEF IngressEof
  <2>3. stdout' = stdout /\ health' \in HealthType /\ ingress' = "stopped"
        /\ UNCHANGED <<bridge, stdin, telegrams, hostVars>>
    BY <1>1, <1>3 DEF IngressEof, Stop, bridgeVars
  <2> QED
    BY <1>0, <2>2, <2>3, IngressStopsInv
<1> QED
  BY <1>2, <1>3

-----------------------------------------------------------------------------
\* The session

LEMMA PendingFinite ==
    ASSUME TypeOK
    PROVE  IsFiniteSet(pending) /\ Cardinality(pending) \in Nat
<1>1. pending \in SUBSET (1..MaxWrites) /\ 1 \in Int /\ MaxWrites \in Int
  BY BridgeAssumption DEF TypeOK
<1>2. IsFiniteSet(1..MaxWrites)
  BY <1>1, FS_Interval
<1>3. IsFiniteSet(pending)
  BY <1>1, <1>2, FS_Subset
<1> QED
  BY <1>3, FS_CardinalityType

\* The session may take the first message of its lane, whatever it is.
LEMMA LaneTaken ==
    ASSUME SessionInv, lane # <<>>, lane' = Tail(lane)
    PROVE  /\ lane' \in Seq(Messages) /\ Len(lane') <= LaneCapacity /\ Head(lane) \in Messages
           /\ Unique(lane', "command_result")
           /\ \A type : Ids(lane', type) \subseteq Ids(lane, type)
<1>1. lane \in Seq(Messages) /\ Len(lane) <= LaneCapacity /\ Unique(lane, "command_result")
  BY QueuesHoldMessages DEF SessionInv, TypeOK, WritesOK
<1>2. Len(Tail(lane)) = Len(lane) - 1 /\ Len(lane) \in Nat
  BY <1>1, HeadTailProperties, LenProperties
<1>3. lane' \in Seq(Messages) /\ Head(lane) \in Messages /\ Unique(lane', "command_result")
  BY <1>1, Taken
<1>4. ASSUME NEW type PROVE Ids(lane', type) \subseteq Ids(lane, type)
  <2>1. CASE Head(lane).type = type
    BY <1>1, <2>1, TakenIds
  <2>2. CASE Head(lane).type # type
    BY <1>1, <2>2, TakenIds
  <2> QED
    BY <2>1, <2>2
<1> QED
  BY <1>1, <1>2, <1>3, <1>4, BridgeAssumption

\* A command to the bridge that is no write.
LEMMA CommandSent ==
    ASSUME SessionInv, NEW m \in {Configure, Shutdown}, stdin' = Append(stdin, m)
    PROVE  stdin' \in Seq(Messages) /\ Writes(stdin') = Writes(stdin) /\ Unique(stdin', "knx_write")
<1>1. stdin \in Seq(Messages) /\ m \in Messages /\ m.type # "knx_write"
      /\ Unique(stdin, "knx_write")
  BY QueuesHoldMessages, PlainLines DEF SessionInv, WritesOK
<1>2. Ids(stdin', "knx_write") = Ids(stdin, "knx_write")
  BY <1>1, AppendedIds
<1>3. stdin' \in Seq(Messages) /\ Unique(stdin', "knx_write")
  BY <1>1, Appended
<1> QED
  BY <1>2, <1>3 DEF Writes

\* An id that was used stays below the next one.
LEMMA UsedIdsGrow ==
    ASSUME NEW a \in Nat, NEW b \in Nat, a <= b
    PROVE  1..(a - 1) \subseteq 1..(b - 1)
  OBVIOUS

\* The end of the session, with or without a message taken.
LEMMA EndInv ==
    ASSUME SessionInv, NEW reason, EndWith(reason),
           lane' = lane \/ (lane # <<>> /\ lane' = Tail(lane)),
           nextId' = nextId \/ (nextId' = nextId + 1 /\ toSend > 0),
           pending' = pending,
           UNCHANGED <<handled, bridge, stdout, telegrams, ingress>>
    PROVE  SessionInv'
<1>1. /\ lane' \in Seq(Messages) /\ Len(lane') <= LaneCapacity
      /\ Unique(lane', "command_result")
      /\ \A type : Ids(lane', type) \subseteq Ids(lane, type)
  <2>1. CASE lane' = lane
    BY <2>1 DEF SessionInv, TypeOK, WritesOK
  <2>2. CASE lane # <<>> /\ lane' = Tail(lane)
    BY <2>2, LaneTaken
  <2> QED
    BY <2>1, <2>2
<1>2. session' = "ended" /\ toSend' = 0 /\ stdin' = Append(stdin, Shutdown)
      /\ health' \in {health, Failed(health)}
  BY DEF EndWith
<1>3. stdin' \in Seq(Messages) /\ Writes(stdin') = Writes(stdin) /\ Unique(stdin', "knx_write")
  BY <1>2, CommandSent
<1>4. health' \in HealthType
  BY <1>2, HealthStays, QueuesHoldMessages DEF SessionInv
<1>5. nextId' \in Nat \ {0} /\ nextId <= nextId' /\ nextId' <= MaxWrites + 1
  BY BridgeAssumption DEF SessionInv, TypeOK, TableOK
<1>6. TypeOK'
  BY <1>1, <1>2, <1>3, <1>4, <1>5 DEF SessionInv, TypeOK, HealthType
<1>7. TableOK'
  <2>1. nextId \in Nat /\ pending \subseteq 1..(nextId - 1)
    BY DEF SessionInv, TypeOK, TableOK
  <2>2. 1..(nextId - 1) \subseteq 1..(nextId' - 1)
    <3>1. nextId' \in Nat /\ nextId <= nextId'
      BY <1>5
    <3> QED
      BY <2>1, <3>1, UsedIdsGrow
  <2>3. nextId' + toSend' <= MaxWrites + 1 /\ ~(toSend' > 0)
    BY <1>2, <1>5
  <2> QED
    BY <2>1, <2>2, <2>3 DEF TableOK
<1>8. WritesOK'
  <2>1. Results(lane') \subseteq Results(lane)
    BY <1>1 DEF Results
  <2> QED
    BY <1>1, <1>2, <1>3, <2>1 DEF SessionInv, WritesOK
<1>9. StartOK'
  BY <1>1, <1>2 DEF SessionInv, StartOK
<1>10. TelegramsOK'
  BY <1>2 DEF TelegramsOK
<1> QED
  BY <1>6, <1>7, <1>8, <1>9, <1>10 DEF SessionInv

\* Start-up goes on: hello or ready is taken.
LEMMA StartupInv ==
    ASSUME SessionInv, AwaitHello \/ AwaitReady
    PROVE  SessionInv'
<1>1. ASSUME Received(Hello), session = "hello", session' = "ready",
             stdin' = Append(stdin, Configure),
             UNCHANGED <<result, toSend, health, pending, nextId, handled, bridge, stdout,
                         telegrams, ingress>>
      PROVE  SessionInv'
  <2>1. lane # <<>> /\ Head(lane) = Hello /\ lane' = Tail(lane) /\ lane \in Seq(Messages)
    BY <1>1, QueuesHoldMessages DEF Received, SessionInv
  <2>2. lane' \in Seq(Messages) /\ Len(lane') <= LaneCapacity
    BY <2>1, LaneTaken
  <2>3. Same(lane', lane)
    BY <2>1, PlainTaken, PlainLines
  <2>4. stdin' \in Seq(Messages) /\ Writes(stdin') = Writes(stdin) /\ Unique(stdin', "knx_write")
    BY <1>1, CommandSent
  <2>5. TypeOK'
    BY <1>1, <2>2, <2>4 DEF SessionInv, TypeOK
  <2>6. TableOK'
    BY <1>1 DEF SessionInv, TableOK
  <2>7. WritesOK'
    BY <1>1, <2>3, <2>4 DEF SessionInv, WritesOK, Same
  <2>8. StartOK'
    BY <1>1, <2>3 DEF SessionInv, StartOK, Same
  <2>9. TelegramsOK'
    BY <1>1, <2>3 DEF SessionInv, TelegramsOK, Same
  <2> QED
    BY <2>5, <2>6, <2>7, <2>8, <2>9 DEF SessionInv
<1>2. ASSUME Received(Ready), session = "ready", session' = "starting",
             health' = MarkReady(health),
             UNCHANGED <<result, toSend, stdin, pending, nextId, handled, bridge, stdout,
                         telegrams, ingress>>
      PROVE  SessionInv'
  <2>1. lane # <<>> /\ Head(lane) = Ready /\ lane' = Tail(lane) /\ lane \in Seq(Messages)
        /\ health \in HealthType
    BY <1>2, QueuesHoldMessages DEF Received, SessionInv
  <2>2. lane' \in Seq(Messages) /\ Len(lane') <= LaneCapacity /\ Unique(lane', "command_result")
    BY <2>1, LaneTaken
  <2>3. Head(lane).type = "ready"
    BY <2>1, PlainLines
  <2>4. Ids(lane', "command_result") = Ids(lane, "command_result")
    BY <2>1, <2>3, TakenIds
  <2>5. Ids(lane', "knx_event") = Ids(lane, "knx_event")
    BY <2>1, <2>3, TakenIds
  <2>6. Sorted(lane) => Sorted(lane')
    BY <2>1, Taken
  <2>7. Ids(lane, "ready") # {}
    <3>1. Ids(lane, "ready") = Ids(Tail(lane), "ready") \cup {Head(lane).id}
      BY <2>1, <2>3, TakenIds
    <3> QED
      BY <3>1
  <2>8. TypeOK'
    BY <1>2, <2>1, <2>2, HealthStays DEF SessionInv, TypeOK, HealthType
  <2>9. TableOK'
    BY <1>2 DEF SessionInv, TableOK
  <2>10. WritesOK'
    BY <1>2, <2>2, <2>4 DEF SessionInv, WritesOK, Results
  <2>11. StartOK'
    BY <1>2, <2>7 DEF SessionInv, StartOK
  <2>12. TelegramsOK'
    BY <1>2, <2>5, <2>6 DEF SessionInv, TelegramsOK, Events
  <2> QED
    BY <2>8, <2>9, <2>10, <2>11, <2>12 DEF SessionInv
<1>3. CASE AwaitHello
  <2>1. ASSUME NEW reason, EndWith(reason),
               lane' = lane \/ (lane # <<>> /\ lane' = Tail(lane))
        PROVE  SessionInv'
    BY <1>3, <2>1, EndInv DEF AwaitHello
  <2> QED
    BY <1>1, <1>3, <2>1 DEF AwaitHello, Received
<1>4. CASE AwaitReady
  <2>1. ASSUME NEW reason, EndWith(reason),
               lane' = lane \/ (lane # <<>> /\ lane' = Tail(lane))
        PROVE  SessionInv'
    BY <1>4, <2>1, EndInv DEF AwaitReady
  <2> QED
    BY <1>2, <1>4, <2>1 DEF AwaitReady, Received
<1> QED
  BY <1>3, <1>4

LEMMA HandleMessageInv ==
    ASSUME SessionInv, HandleMessage
    PROVE  SessionInv'
<1>0. PICK m : m = Head(lane)
  OBVIOUS
<1>1. /\ lane # <<>> /\ lane' = Tail(lane) /\ lane \in Seq(Messages) /\ m = Head(lane)
      /\ session = "running" /\ toSend = 0
      /\ UNCHANGED <<nextId, bridge, stdout, telegrams, ingress>> /\ TypeOK
  BY <1>0, QueuesHoldMessages DEF SessionInv, HandleMessage, AtSelect
<1>2. /\ lane' \in Seq(Messages) /\ Len(lane') <= LaneCapacity /\ m \in Messages
      /\ Unique(lane', "command_result")
      /\ \A type : Ids(lane', type) \subseteq Ids(lane, type)
  BY <1>1, LaneTaken
<1>3. bridge \notin {"started", "hello", "connecting"}
  BY <1>1 DEF SessionInv, StartOK
<1>4. StartOK'
  BY <1>1, <1>3 DEF StartOK
<1>5. CASE /\ IsEvent(m) /\ handled' = m.id /\ toSend' \in SomeWrites
           /\ UNCHANGED <<session, result, pending, health, stdin>>
  <2>1. m.type = "knx_event" /\ m.id \in Nat
    BY <1>2, <1>5 DEF IsEvent, Messages
  <2>2. Ids(lane, "knx_event") = Ids(lane', "knx_event") \cup {m.id}
    BY <1>1, <2>1, TakenIds
  <2>3. Ids(lane, "command_result") = Ids(lane', "command_result")
    BY <1>1, <2>1, TakenIds
  <2>4. TypeOK'
    BY <1>1, <1>2, <1>5, <2>1 DEF TypeOK, SomeWrites
  <2>5. TableOK'
    BY <1>1, <1>5, BridgeAssumption DEF SessionInv, TableOK, TypeOK, SomeWrites
  <2>6. WritesOK'
    BY <1>1, <1>2, <1>5, <2>3 DEF SessionInv, WritesOK, Results
  <2>7. TelegramsOK'
    <3> SUFFICES ASSUME ingress = "reading"
                 PROVE  /\ Sorted(lane') /\ Sorted(stdout)
                        /\ \A x \in Events(lane'), y \in Events(stdout) : x < y
                        /\ Events(lane') \cup Events(stdout) = (m.id + 1)..telegrams
                        /\ m.id <= telegrams
      BY <1>1, <1>5 DEF TelegramsOK
    <3>1. /\ Sorted(lane) /\ Sorted(stdout)
          /\ \A x \in Events(lane), y \in Events(stdout) : x < y
          /\ Events(lane) \cup Events(stdout) = (handled + 1)..telegrams
          /\ handled <= telegrams /\ handled \in Nat /\ telegrams \in Nat
      BY <1>1 DEF SessionInv, TelegramsOK, TypeOK
    <3>2. Sorted(lane') /\ \A x \in Events(lane') : m.id < x
      BY <1>1, <1>5, <3>1, Taken
    <3>3. Events(lane) = Events(lane') \cup {m.id}
      BY <2>2 DEF Events
    <3>4. \A y \in Events(stdout) : m.id < y
      BY <3>1, <3>3
    <3>5. m.id \in (handled + 1)..telegrams
      BY <3>1, <3>3
    <3>6. m.id = handled + 1
      <4>1. handled + 1 \in Events(lane') \cup {m.id} \cup Events(stdout)
        BY <3>1, <3>3, <3>5
      <4> QED
        BY <3>1, <3>2, <3>4, <3>5, <4>1
    <3>7. Events(lane') \cup Events(stdout) = ((handled + 1)..telegrams) \ {m.id}
      <4>1. m.id \notin Events(lane') \cup Events(stdout)
        BY <2>1, <3>2, <3>4
      <4> QED
        BY <3>1, <3>3, <4>1
    <3>8. ((handled + 1)..telegrams) \ {m.id} = (m.id + 1)..telegrams
      BY <3>1, <3>6
    <3> QED
      BY <3>1, <3>2, <3>3, <3>5, <3>7, <3>8
  <2> QED
    BY <1>4, <2>4, <2>5, <2>6, <2>7 DEF SessionInv
<1>6. CASE /\ m.type = "command_result" /\ pending' = pending \ {m.id}
           /\ UNCHANGED <<session, result, toSend, health, stdin, handled>>
  <2>1. Ids(lane, "command_result") = Ids(lane', "command_result") \cup {m.id}
    BY <1>1, <1>6, TakenIds
  <2>2. m.id \notin Ids(lane', "command_result")
    BY <1>1, <1>6, Taken DEF SessionInv, WritesOK
  <2>3. Ids(lane, "knx_event") = Ids(lane', "knx_event")
    BY <1>1, <1>6, TakenIds
  <2>4. Sorted(lane) => Sorted(lane')
    BY <1>1, Taken
  <2>5. TypeOK'
    <3>1. IsFiniteSet(pending) /\ Cardinality(pending) \in Nat /\ pending' \subseteq pending
      BY <1>1, <1>6, PendingFinite
    <3>2. IsFiniteSet(pending') /\ Cardinality(pending') <= Cardinality(pending)
          /\ Cardinality(pending') \in Nat
      BY <3>1, FS_Subset, FS_CardinalityType
    <3>3. pending' \in SUBSET (1..MaxWrites) /\ Cardinality(pending') <= PendingLimit
      BY <1>1, <3>1, <3>2, BridgeAssumption DEF TypeOK
    <3> QED
      BY <1>1, <1>2, <1>6, <3>3 DEF TypeOK
  <2>6. TableOK'
    BY <1>1, <1>6 DEF SessionInv, TableOK
  <2>7. WritesOK'
    BY <1>1, <1>2, <1>6, <2>1, <2>2 DEF SessionInv, WritesOK, Results
  <2>8. TelegramsOK'
    BY <1>1, <1>6, <2>3, <2>4 DEF SessionInv, TelegramsOK, Events
  <2> QED
    BY <1>4, <2>5, <2>6, <2>7, <2>8 DEF SessionInv
<1>7. CASE /\ m.type = "command_result" /\ m.id \notin pending
  <2>1. m.id \in Ids(lane, "command_result")
    <3>1. Ids(lane, "command_result") = Ids(lane', "command_result") \cup {m.id}
      BY <1>1, <1>7, TakenIds
    <3> QED
      BY <3>1
  <2> QED
    BY <1>7, <2>1 DEF SessionInv, WritesOK, Results
<1>8. ASSUME NEW reason, EndWith(reason), UNCHANGED <<pending, handled>>
      PROVE  SessionInv'
  BY <1>1, <1>8, EndInv
<1> QED
  BY <1>1, <1>5, <1>6, <1>7, <1>8 DEF HandleMessage

\* dispatch_effects gives a write a fresh id and puts it in the table and in the pipe.
LEMMA DispatchEffectInv ==
    ASSUME SessionInv, DispatchEffect
    PROVE  SessionInv'
<1>1. /\ toSend > 0 /\ nextId' = nextId + 1 /\ session = "running" /\ TypeOK
      /\ UNCHANGED <<handled, bridge, stdout, telegrams, laneVars>>
  BY DEF SessionInv, TableOK, DispatchEffect
<1>2. ASSUME NEW reason, EndWith(reason), UNCHANGED pending
      PROVE  SessionInv'
  BY <1>1, <1>2, EndInv DEF laneVars
<1>3. CASE /\ Cardinality(pending) < PendingLimit
           /\ pending' = pending \cup {nextId}
           /\ stdin' = Append(stdin, Msg("knx_write", nextId))
           /\ toSend' = toSend - 1
           /\ UNCHANGED <<session, result, health>>
  <2>1. PICK m \in Messages : m.type = "knx_write" /\ m.id = nextId /\ stdin' = Append(stdin, m)
    BY <1>1, <1>3 DEF Msg, Messages, TypeOK
  <2>2. /\ stdin \in Seq(Messages) /\ Unique(stdin, "knx_write") /\ nextId \in Nat \ {0}
        /\ toSend \in Nat /\ nextId + toSend <= MaxWrites + 1 /\ pending \subseteq 1..(nextId - 1)
    BY DEF SessionInv, TypeOK, WritesOK, TableOK
  <2>3. nextId \notin pending
    BY <2>2
  <2>4. nextId \notin Writes(stdin) \cup Results(lane) \cup Results(stdout)
    BY <2>3 DEF SessionInv, WritesOK
  <2>5. Writes(stdin') = Writes(stdin) \cup {nextId}
    <3>1. Ids(Append(stdin, m), m.type) = Ids(stdin, m.type) \cup {m.id}
      BY <2>2, AppendedOwnIds
    <3> QED
      BY <2>1, <3>1 DEF Writes
  <2>6. stdin' \in Seq(Messages) /\ Unique(stdin', "knx_write")
    <3>1. m.type = "knx_write" => m.id \notin Ids(stdin, "knx_write")
      BY <2>1, <2>4 DEF Writes
    <3> QED
      BY <2>1, <2>2, <3>1, Appended
  <2>7. TypeOK'
    <3>1. IsFiniteSet(pending) /\ Cardinality(pending) \in Nat
      BY <1>1, PendingFinite
    <3>2. Cardinality(pending \cup {nextId}) = Cardinality(pending) + 1
      BY <2>3, <3>1, FS_AddElement
    <3>3. Cardinality(pending') <= PendingLimit
      BY <1>3, <3>1, <3>2, BridgeAssumption
    <3>4. pending' \in SUBSET (1..MaxWrites)
      <4>1. nextId \in 1..MaxWrites
        BY <1>1, <2>2, BridgeAssumption
      <4> QED
        BY <1>1, <1>3, <4>1 DEF TypeOK
    <3>5. nextId' \in Nat \ {0} /\ toSend' \in Nat
      BY <1>1, <1>3, <2>2
    <3> QED
      BY <1>1, <1>3, <2>6, <3>3, <3>4, <3>5 DEF TypeOK, laneVars
  <2>8. TableOK'
    <3>1. \A x \in pending' : x \in 1..(nextId' - 1)
      BY <1>1, <1>3, <2>2
    <3>2. nextId' + toSend' <= MaxWrites + 1
      BY <1>1, <1>3, <2>2, BridgeAssumption
    <3> QED
      BY <1>1, <1>3, <3>1, <3>2 DEF TableOK
  <2>9. WritesOK'
    BY <1>1, <1>3, <2>4, <2>5, <2>6 DEF SessionInv, WritesOK, laneVars
  <2>10. StartOK'
    BY <1>1, <1>3 DEF SessionInv, StartOK, laneVars
  <2>11. TelegramsOK'
    BY <1>1, <1>3 DEF SessionInv, TelegramsOK, laneVars
  <2> QED
    BY <2>7, <2>8, <2>9, <2>10, <2>11 DEF SessionInv
<1> QED
  BY <1>2, <1>3 DEF DispatchEffect

LEMMA SessionStepInv ==
    ASSUME SessionInv, Session
    PROVE  SessionInv'
<1>1. CASE AwaitHello \/ AwaitReady
  BY <1>1, StartupInv
<1>2. CASE SubscribeFatal
  <2>1. /\ session = "starting" /\ session' = "running"
        /\ UNCHANGED <<result, toSend, pending, nextId, handled, bridgeVars, laneVars, health>>
    BY <1>2 DEF SubscribeFatal
  <2>2. TypeOK' /\ TableOK'
    BY <2>1 DEF SessionInv, TypeOK, TableOK, bridgeVars, laneVars
  <2>3. WritesOK'
    BY <2>1 DEF SessionInv, WritesOK, bridgeVars, laneVars
  <2>4. StartOK' /\ TelegramsOK'
    BY <2>1 DEF SessionInv, StartOK, TelegramsOK, bridgeVars, laneVars
  <2> QED
    BY <2>2, <2>3, <2>4 DEF SessionInv
<1>3. CASE HandleMessage
  BY <1>3, HandleMessageInv
<1>4. CASE LocalTurn
  <2>1. /\ session = "running" /\ toSend' \in SomeWrites
        /\ UNCHANGED <<session, result, pending, nextId, handled, bridgeVars, laneVars, health>>
    BY <1>4 DEF LocalTurn, AtSelect
  <2>2. TypeOK' /\ TableOK'
    BY <2>1 DEF SessionInv, TypeOK, TableOK, SomeWrites, bridgeVars, laneVars
  <2>3. WritesOK' /\ StartOK' /\ TelegramsOK'
    BY <2>1 DEF SessionInv, WritesOK, StartOK, TelegramsOK, bridgeVars, laneVars
  <2> QED
    BY <2>2, <2>3 DEF SessionInv
<1>5. CASE DispatchEffect
  BY <1>5, DispatchEffectInv
<1>6. CASE PendingWriteTimeout \/ FatalHost \/ Interrupt
  BY <1>6, EndInv DEF PendingWriteTimeout, FatalHost, Interrupt, laneVars
<1>7. CASE TerminateChild
  <2>1. stdout \in Seq(Messages)
    BY QueuesHoldMessages DEF SessionInv
  <2> QED
    BY <1>7, <2>1, SameReflexive, PlainBridgeStep DEF TerminateChild
<1> QED
  BY <1>1, <1>2, <1>3, <1>4, <1>5, <1>6, <1>7 DEF Session

\* The inductive invariant: the bridge, the ingress task and the session, in any
\* interleaving, with crashes, overflows and time-outs, keep every write in one place
\* and the telegrams in order.
THEOREM SessionInvariant == Spec => []SessionInv
<1>1. Init => SessionInv
  <2> SUFFICES ASSUME Init PROVE SessionInv
    OBVIOUS
  <2>1. TypeOK
    <3>1. Cardinality({}) = 0
      BY FS_EmptySet
    <3>2. Len(<<>>) = 0
      BY EmptySeq
    <3> QED
      BY <3>1, <3>2, IdsOfEmpty, BridgeAssumption DEF Init, TypeOK
  <2>2. TableOK
    BY BridgeAssumption DEF Init, TableOK
  <2>3. WritesOK
    BY IdsOfEmpty DEF Init, WritesOK, Results, Writes
  <2>4. StartOK
    BY IdsOfEmpty DEF Init, StartOK
  <2>5. TelegramsOK
    BY IdsOfEmpty DEF Init, TelegramsOK, Events
  <2> QED
    BY <2>1, <2>2, <2>3, <2>4, <2>5 DEF SessionInv
<1>2. SessionInv /\ [Next]_vars => SessionInv'
  <2> SUFFICES ASSUME SessionInv, [Next]_vars PROVE SessionInv'
    OBVIOUS
  <2>1. CASE OtherLaneOverflows
    <3>1. /\ health' \in HealthType /\ UNCHANGED <<hostVars, bridgeVars, laneVars>>
      BY <2>1, HealthStays, QueuesHoldMessages DEF OtherLaneOverflows, SessionInv
    <3>2. TypeOK' /\ TableOK'
      BY <3>1 DEF SessionInv, TypeOK, TableOK, HealthType, hostVars, bridgeVars, laneVars
    <3>3. WritesOK' /\ StartOK' /\ TelegramsOK'
      BY <3>1 DEF SessionInv, WritesOK, StartOK, TelegramsOK, hostVars, bridgeVars, laneVars
    <3> QED
      BY <3>2, <3>3 DEF SessionInv
  <2>2. CASE UNCHANGED vars
    <3>1. TypeOK' /\ TableOK'
      BY <2>2 DEF SessionInv, TypeOK, TableOK, vars, hostVars, bridgeVars, laneVars
    <3>2. WritesOK' /\ StartOK' /\ TelegramsOK'
      BY <2>2 DEF SessionInv, WritesOK, StartOK, TelegramsOK, vars, hostVars, bridgeVars, laneVars
    <3> QED
      BY <3>1, <3>2 DEF SessionInv
  <2> QED
    BY <2>1, <2>2, BridgeInv, IngressInv, SessionStepInv DEF Next
<1> QED
  BY <1>1, <1>2, PTL DEF Spec

\* The queues hold messages, the lane stays within knx_ingress_queue and the table of
\* writes within pending_knx_writes.
THEOREM SessionTypeOK == Spec => []TypeOK
<1>1. SessionInv => TypeOK
  BY DEF SessionInv
<1> QED
  BY <1>1, SessionInvariant, PTL

\* handle_command_result never meets a result it does not know, whatever is lost, cut
\* short or timed out elsewhere, and a result gets lost only with a side that is gone.
THEOREM WritesAccountedForHolds == Spec => []WritesAccountedFor
<1>1. SessionInv => WritesAccountedFor
  <2> SUFFICES ASSUME SessionInv, session = "running"
               PROVE  WritesAccountedFor
    BY DEF WritesAccountedFor
  <2> DEFINE back == lane \o stdout
  <2>1. lane \in Seq(Messages) /\ stdout \in Seq(Messages)
    BY QueuesHoldMessages DEF SessionInv
  <2>2. DOMAIN back = 1..Len(back) /\ Results(back) = Results(lane) \cup Results(stdout)
    BY <2>1, InARow DEF Results
  <2>3. Unique(back, "command_result")
    BY <2>1, InARow DEF SessionInv, WritesOK, Results
  <2>4. \A i, j \in DOMAIN back : back[i].type = "command_result" /\ back[i] = back[j] => i = j
    BY <2>2, <2>3 DEF Unique
  <2>5. Results(back) \subseteq pending /\ Results(back) \cap Writes(stdin) = {}
    BY <2>2 DEF SessionInv, WritesOK
  <2>6. bridge = "serving" /\ ingress = "reading" => pending = Results(back) \cup Writes(stdin)
    BY <2>2 DEF SessionInv, WritesOK
  <2> HIDE DEF back
  <2> QED
    BY <2>4, <2>5, <2>6 DEF WritesAccountedFor, back
<1> QED
  BY <1>1, SessionInvariant, PTL

\* Telegrams reach the runtime in the order in which telegram_received passed them on,
\* and as long as the ingress task reads none is missing.
THEOREM TelegramsInOrderHolds == Spec => []TelegramsInOrder
<1>1. SessionInv => TelegramsInOrder
  <2> SUFFICES ASSUME SessionInv, session = "running", ingress = "reading"
               PROVE  TelegramsInOrder
    BY DEF TelegramsInOrder
  <2> DEFINE waiting == lane \o stdout
  <2>1. lane \in Seq(Messages) /\ stdout \in Seq(Messages)
    BY QueuesHoldMessages DEF SessionInv
  <2>2. /\ Sorted(lane) /\ Sorted(stdout)
        /\ \A x \in Events(lane), y \in Events(stdout) : x < y
        /\ Events(lane) \cup Events(stdout) = (handled + 1)..telegrams
    BY DEF SessionInv, TelegramsOK
  <2>3. DOMAIN waiting = 1..Len(waiting)
        /\ Ids(waiting, "knx_event") = (handled + 1)..telegrams
    BY <2>1, <2>2, InARow DEF Events
  <2>4. Sorted(waiting)
    BY <2>1, <2>2, InARow
  <2>5. \A i, j \in DOMAIN waiting :
           (i < j /\ IsEvent(waiting[i]) /\ IsEvent(waiting[j])) => waiting[i].id < waiting[j].id
    BY <2>3, <2>4 DEF Sorted
  <2> HIDE DEF waiting
  <2> QED
    BY <2>3, <2>5 DEF TelegramsInOrder, waiting
<1> QED
  BY <1>1, SessionInvariant, PTL
=============================================================================
