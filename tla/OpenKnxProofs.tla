---------------------------- MODULE OpenKnxProofs ----------------------------
(***************************************************************************)
(* Machine-checked proofs about the firmware: first OpenKnxHost, for any   *)
(* capacity of the queues, any word size that is a multiple of the ring,   *)
(* any fan-out and any number of telegrams and edits; then                 *)
(* AutomationStore, for every set of documents.                            *)
(*                                                                         *)
(* The invariant of OpenKnxHost has four parts: who may touch the runtime  *)
(* (StartInv), the ring and its counters (QueueInv), the order of the      *)
(* events in it (OrderInv, OvertakenInv), and the documents the revisions  *)
(* name (RevisionInv).  That of AutomationStore says, for each place in a  *)
(* call, which document is in which file and which of them is safe from a  *)
(* power failure.                                                          *)
(***************************************************************************)
EXTENDS OpenKnxHost, AutomationStore, TLAPS, SequenceTheorems

Event == [id : 1..(MaxTelegrams * Fanout), at : 0..MaxMillis]

-----------------------------------------------------------------------------
\* The parts of the invariant

\* The runtime has one owner at a time: the start-up task until it has ended, then
\* the loop.  Whoever finds the module failed does not touch it.
StartInv ==
    /\ boot.pending # "no" => boot.status = "idle"
    /\ boot.status = "idle" => task = "none"
    /\ task \in {"running", "created", "unavailable"} => boot.status = "starting"
    /\ task = "created" /\ ~boot.failed => handle # NoHandle
    /\ boot.status \in {"initialized", "active"} /\ ~boot.failed =>
          task = "done" /\ handle # NoHandle
    /\ pc # "top" => boot.status = "active" /\ ~boot.failed

\* What the observer has put into the ring and the loop has not released, oldest first:
\* the item being popped, those published, and the item being pushed.
Held == Waiting + (IF pushing = NoItem THEN 0 ELSE 1)
Line == [j \in 1..Held |-> slots[(read + j - 1) % Capacity]]

QueueInv ==
    /\ write \in 0..(Word - 1) /\ read \in 0..(Word - 1)
    /\ slots \in [0..(Capacity - 1) -> Items \cup {NoItem}]
    /\ Held <= Capacity
    /\ \A j \in 1..Held : Line[j] \in Items
    /\ pushing # NoItem => pushing = Line[Held]
    /\ popping # NoItem => Waiting > 0 /\ popping = Line[1]

\* The number of the last event that was put into the ring or dropped.
Last == telegrams * Fanout - ingress.left + (IF pushing = NoItem THEN 0 ELSE 1)

\* Events are in the order of their numbers and of their times.
OrderInv ==
    /\ \A j \in 1..Held : Line[j] \in Event /\ Line[j].at <= millis /\ Line[j].id <= Last
    /\ \A i, j \in 1..Held : i < j => Line[i].id < Line[j].id /\ Line[i].at <= Line[j].at
    /\ ingress.left > 0 =>
          ingress.at <= millis /\ telegrams > 0 /\ \A j \in 1..Held : Line[j].at <= ingress.at
    /\ pushing # NoItem =>
          ingress.left > 0 /\ pushing = [id |-> Last, at |-> ingress.at]

\* An event that the runtime's clock has passed was overtaken by a tick.
OvertakenInv ==
    /\ ~trace.wronged
    /\ handle # NoHandle =>
          /\ handle.runtime.last <= millis
          /\ \A j \in 1..Held : Line[j].at < handle.runtime.last => Line[j].id \in trace.overtaken
          /\ ingress.left > 0 /\ ingress.at < handle.runtime.last =>
                \A n \in (telegrams * Fanout - ingress.left + 1)..(telegrams * Fanout) :
                    n \in trace.overtaken

\* The revisions named so far are those up to the present one.
RevisionInv ==
    /\ task # "done" => trace.named = Fresh.named
    /\ handle # NoHandle =>
          /\ handle.document_revision > 0
          /\ Len(trace.named) = handle.document_revision
          /\ trace.named[handle.document_revision] = Document(handle.runtime)

Traces ==
    [overtaken : SUBSET Nat, wronged : BOOLEAN,
     named : Seq([source : Sources, enabled : BOOLEAN]), streak : 0..Threshold]

\* What the type invariant needs: the gate counts the admitted commands, and an item is
\* taken from the ring only within a slice.
GateInv ==
    /\ inFlight = Len(mailbox) + (IF pc = "handle" THEN 1 ELSE 0)
    /\ pc = "handle" => current \in Command
    /\ popping # NoItem => pc = "inputs" /\ popped < Slice
    /\ trace \in Traces

HostInv ==
    /\ TypeOK /\ GateInv /\ StartInv
    /\ QueueInv /\ OrderInv /\ OvertakenInv /\ RevisionInv

-----------------------------------------------------------------------------
\* Arithmetic of the counters

LEMMA Division ==
    ASSUME NEW a \in Int, NEW n \in Nat \ {0}
    PROVE  /\ a % n \in 0..(n - 1) /\ a \div n \in Int
           /\ a = n * (a \div n) + (a % n)
  OBVIOUS

LEMMA Multiples ==
    ASSUME NEW n \in Nat \ {0}, NEW q \in Int, NEW p \in Int, q < p
    PROVE  n * q + n <= n * p
<1>1. PICK d \in Nat : p = q + 1 + d
  <2>1. p - q - 1 \in Nat /\ p = q + 1 + (p - q - 1)
    OBVIOUS
  <2> QED
    BY <2>1
<1>2. n * p = n * q + n + n * d
  BY <1>1
<1>3. n * d \in Nat
  OBVIOUS
<1> QED
  BY <1>2, <1>3

LEMMA Apart ==
    ASSUME NEW n \in Int, NEW x \in Int, NEW y \in Int, NEW r \in 0..(n - 1), NEW s \in 0..(n - 1),
           x + r = y + s
    PROVE  ~(x + n <= y)
  OBVIOUS

\* A remainder is the only one.
LEMMA Remainder ==
    ASSUME NEW n \in Nat \ {0}, NEW q \in Int, NEW r \in 0..(n - 1)
    PROVE  (n * q + r) % n = r
<1> DEFINE a == n * q + r
<1>1. a \in Int /\ n * q \in Int
  OBVIOUS
<1>2. PICK p \in Int : a = n * p + (a % n)
  BY <1>1, Division
<1>3. PICK s \in 0..(n - 1) : s = a % n
  BY <1>1, Division
<1>4. n * q + r = n * p + s /\ n * p \in Int
  BY <1>2, <1>3
<1>5. ~(q < p)
  <2>1. ~(n * q + n <= n * p)
    BY <1>1, <1>4, Apart
  <2> QED
    BY <2>1, Multiples
<1>6. ~(p < q)
  <2>1. ~(n * p + n <= n * q)
    BY <1>1, <1>4, Apart
  <2> QED
    BY <2>1, Multiples
<1>7. p = q
  BY <1>5, <1>6
<1>8. n * q + r = n * q + s
  BY <1>4, <1>7
<1>9. r = s
  BY <1>1, <1>8
<1> QED
  BY <1>3, <1>9

\* A whole number of rounds leads to the same slot.
LEMMA Rounds ==
    ASSUME NEW n \in Nat \ {0}, NEW a \in Int, NEW w \in Int, w % n = 0
    PROVE  (a + w) % n = a % n
<1>1. PICK q \in Int : a = n * q + (a % n)
  BY Division
<1>2. PICK r \in 0..(n - 1) : r = a % n
  BY Division
<1>3. PICK p \in Int : w = n * p
  <2>1. w = n * (w \div n) + (w % n) /\ w \div n \in Int
    BY Division
  <2>2. n * (w \div n) \in Int
    BY <2>1
  <2>3. w = n * (w \div n)
    BY <2>1, <2>2
  <2> QED
    BY <2>1, <2>3
<1>4. a + w = n * (q + p) + r
  <2>1. n * (q + p) = n * q + n * p
    OBVIOUS
  <2>2. n * q \in Int /\ n * p \in Int
    OBVIOUS
  <2>3. a = n * q + r
    BY <1>1, <1>2
  <2> QED
    BY <1>3, <2>1, <2>2, <2>3
<1>5. (n * (q + p) + r) % n = r
  BY Remainder
<1> QED
  BY <1>2, <1>4, <1>5

\* Less than a round apart, two counts have different slots.
LEMMA DifferentSlots ==
    ASSUME NEW n \in Nat \ {0}, NEW a \in Int, NEW i \in 0..(n - 1), NEW j \in 0..(n - 1), i < j
    PROVE  (a + i) % n # (a + j) % n
<1> SUFFICES ASSUME (a + i) % n = (a + j) % n PROVE FALSE
  OBVIOUS
<1>1. a + i \in Int /\ a + j \in Int
  OBVIOUS
<1>2. PICK q \in Int : a + i = n * q + ((a + i) % n)
  BY <1>1, Division
<1>3. PICK p \in Int : a + j = n * p + ((a + j) % n)
  BY <1>1, Division
<1>4. PICK r \in 0..(n - 1) : r = (a + i) % n
  BY <1>1, Division
<1>5. a + i = n * q + r /\ a + j = n * p + r
  BY <1>2, <1>3, <1>4
<1>6. n * q \in Int /\ n * p \in Int
  OBVIOUS
<1>7. n * p = n * q + (j - i)
  BY <1>5, <1>6
<1>8. ~(q < p)
  <2>1. ~(n * q + n <= n * p)
    BY <1>6, <1>7
  <2> QED
    BY <2>1, Multiples
<1>9. ~(p < q)
  <2>1. ~(n * p + n <= n * q)
    BY <1>6, <1>7
  <2> QED
    BY <2>1, Multiples
<1>10. p = q
  BY <1>8, <1>9
<1>11. n * q = n * q + (j - i)
  BY <1>7, <1>10
<1> QED
  BY <1>6, <1>11

LEMMA OneRound ==
    ASSUME NEW w \in Nat \ {0}, NEW x \in Int, -w <= x, x <= w
    PROVE  x % w = IF x = w THEN 0 ELSE IF x >= 0 THEN x ELSE x + w
<1>1. CASE x >= 0 /\ x < w
  <2>1. x = w * 0 + x /\ x \in 0..(w - 1)
    BY <1>1
  <2>2. (w * 0 + x) % w = x
    BY <2>1, Remainder
  <2> QED
    BY <1>1, <2>1, <2>2
<1>2. CASE x < 0
  <2>1. x = w * (-1) + (x + w) /\ x + w \in 0..(w - 1)
    BY <1>2
  <2>2. (w * (-1) + (x + w)) % w = x + w
    BY <2>1, Remainder
  <2> QED
    BY <1>2, <2>1, <2>2
<1>3. CASE x = w
  <2>1. x = w * 1 + 0 /\ 0 \in 0..(w - 1)
    BY <1>3
  <2>2. (w * 1 + 0) % w = 0
    BY <2>1, Remainder
  <2> QED
    BY <1>3, <2>1, <2>2
<1> QED
  BY <1>1, <1>2, <1>3

\* How far a writer at w is ahead of a reader at r.
Distance(w, r) == (w - r) % Word
Up(w) == (w + 1) % Word

LEMMA DistanceValue ==
    ASSUME NEW w \in 0..(Word - 1), NEW r \in 0..(Word - 1)
    PROVE  /\ Distance(w, r) = IF w >= r THEN w - r ELSE w - r + Word
           /\ Distance(w, r) \in 0..(Word - 1)
<1>1. Word \in Nat \ {0}
  BY QueueAssumption
<1>2. PICK x \in Int : x = w - r /\ -Word <= x /\ x <= Word /\ x # Word
  <2>1. w - r \in Int /\ -Word <= w - r /\ w - r <= Word /\ w - r # Word
    BY <1>1
  <2> QED
    BY <2>1
<1>3. x % Word = IF x = Word THEN 0 ELSE IF x >= 0 THEN x ELSE x + Word
  BY <1>1, <1>2, OneRound
<1>4. Distance(w, r) = x % Word
  BY <1>2 DEF Distance
<1> QED
  BY <1>1, <1>2, <1>3, <1>4

LEMMA UpValue ==
    ASSUME NEW w \in 0..(Word - 1)
    PROVE  Up(w) = (IF w = Word - 1 THEN 0 ELSE w + 1) /\ Up(w) \in 0..(Word - 1)
<1>1. w + 1 \in Int /\ -Word <= w + 1 /\ w + 1 <= Word /\ w + 1 >= 0 /\ Word \in Nat \ {0}
  BY QueueAssumption
<1>2. (w + 1) % Word = IF w + 1 = Word THEN 0 ELSE IF w + 1 >= 0 THEN w + 1 ELSE w + 1 + Word
  BY <1>1, OneRound
<1> QED
  BY <1>1, <1>2 DEF Up

LEMMA DistanceSteps ==
    ASSUME NEW w \in 0..(Word - 1), NEW r \in 0..(Word - 1)
    PROVE  /\ Distance(w, r) < Word - 1 => Distance(Up(w), r) = Distance(w, r) + 1
           /\ Distance(w, r) > 0 => Distance(w, Up(r)) = Distance(w, r) - 1
           /\ Distance(w, r) = 0 <=> w = r
<1>1. Up(w) \in 0..(Word - 1) /\ Up(r) \in 0..(Word - 1)
  BY UpValue
<1>2. /\ Distance(w, r) = IF w >= r THEN w - r ELSE w - r + Word
      /\ Distance(Up(w), r) = IF Up(w) >= r THEN Up(w) - r ELSE Up(w) - r + Word
      /\ Distance(w, Up(r)) = IF w >= Up(r) THEN w - Up(r) ELSE w - Up(r) + Word
  BY <1>1, DistanceValue
<1>3. Up(w) = (IF w = Word - 1 THEN 0 ELSE w + 1) /\ Up(r) = (IF r = Word - 1 THEN 0 ELSE r + 1)
  BY UpValue
<1> QED
  BY <1>2, <1>3, QueueAssumption

\* The slot of the writer, and the slots of a reader that has moved on, are those of the
\* counts: the word is a multiple of the ring.
LEMMA WriterSlot ==
    ASSUME NEW w \in 0..(Word - 1), NEW r \in 0..(Word - 1)
    PROVE  w % Capacity = (r + Distance(w, r)) % Capacity
<1>1. Distance(w, r) = IF w >= r THEN w - r ELSE w - r + Word
  BY DistanceValue
<1>2. CASE w >= r
  <2>1. r + Distance(w, r) = w
    BY <1>1, <1>2, QueueAssumption
  <2> QED
    BY <2>1
<1>3. CASE ~(w >= r)
  <2>1. r + Distance(w, r) = w + Word
    BY <1>1, <1>3, QueueAssumption
  <2>2. Capacity \in Nat \ {0} /\ w \in Int /\ Word \in Int /\ Word % Capacity = 0
    BY QueueAssumption
  <2>3. (w + Word) % Capacity = w % Capacity
    BY <2>2, Rounds
  <2> QED
    BY <2>1, <2>3
<1> QED
  BY <1>2, <1>3

LEMMA ReaderSlots ==
    ASSUME NEW r \in 0..(Word - 1), NEW j \in Int
    PROVE  (Up(r) + j) % Capacity = (r + 1 + j) % Capacity
<1>1. Up(r) = IF r = Word - 1 THEN 0 ELSE r + 1
  BY UpValue
<1>2. CASE r = Word - 1
  <2>1. Up(r) + j = j /\ r + 1 + j = j + Word
    BY <1>1, <1>2, QueueAssumption
  <2>2. Capacity \in Nat \ {0} /\ Word \in Int /\ Word % Capacity = 0
    BY QueueAssumption
  <2>3. (j + Word) % Capacity = j % Capacity
    BY <2>2, Rounds
  <2> QED
    BY <2>1, <2>3
<1>3. CASE r # Word - 1
  <2>1. Up(r) + j = r + 1 + j
    BY <1>1, <1>3
  <2> QED
    BY <2>1
<1> QED
  BY <1>2, <1>3

-----------------------------------------------------------------------------
\* The ring

LEMMA RingFacts ==
    ASSUME QueueInv
    PROVE  /\ Waiting = Distance(write, read)
           /\ Waiting \in 0..Capacity /\ Held \in 0..Capacity
           /\ (pushing = NoItem => Held = Waiting) /\ (pushing # NoItem => Held = Waiting + 1)
           /\ Capacity < Word /\ Capacity \in Nat \ {0} /\ Word \in Nat
           /\ IsEmpty <=> Waiting = 0
<1>1. Waiting = Distance(write, read) /\ write \in 0..(Word - 1) /\ read \in 0..(Word - 1)
  BY DEF QueueInv, Waiting, Distance
<1>2. Distance(write, read) \in 0..(Word - 1) /\ (Distance(write, read) = 0 <=> write = read)
  BY <1>1, DistanceValue, DistanceSteps
<1>3. Waiting \in Nat /\ Held <= Capacity
  BY <1>1, <1>2 DEF QueueInv
<1>4. Capacity < Word /\ Capacity \in Nat \ {0} /\ Word \in Nat
  BY QueueAssumption
<1>5. Held \in 0..Capacity /\ Waiting \in 0..Capacity
      /\ (pushing = NoItem => Held = Waiting) /\ (pushing # NoItem => Held = Waiting + 1)
  BY <1>3, <1>4 DEF Held
<1> QED
  BY <1>1, <1>2, <1>4, <1>5 DEF IsEmpty

LEMMA LineAt ==
    ASSUME QueueInv, NEW j \in 1..Held
    PROVE  /\ Line[j] = slots[(read + (j - 1)) % Capacity]
           /\ (read + (j - 1)) % Capacity \in 0..(Capacity - 1)
<1>1. Held \in Nat /\ read \in Int /\ Capacity \in Nat \ {0}
  BY RingFacts DEF QueueInv
<1>2. read + j - 1 = read + (j - 1) /\ read + (j - 1) \in Int
  BY <1>1
<1>3. Line[j] = slots[(read + j - 1) % Capacity]
  BY DEF Line
<1>4. (read + (j - 1)) % Capacity \in 0..(Capacity - 1)
  BY <1>1, <1>2, Division
<1> QED
  BY <1>2, <1>3, <1>4

\* push, before the counter moves: the slot written is none of those in use.
LEMMA PushCopiesLine ==
    ASSUME QueueInv, NEW item \in Items, PushCopies(item)
    PROVE  /\ QueueInv' /\ Waiting' = Waiting /\ Held = Waiting /\ Held' = Held + 1
           /\ \A j \in 1..Held : Line'[j] = Line[j]
           /\ Line'[Held + 1] = item
<1>1. /\ pushing = NoItem /\ ~IsFull /\ pushing' = item
      /\ slots' = [slots EXCEPT ![write % Capacity] = item]
      /\ write' = write /\ read' = read /\ popping' = popping
  BY DEF PushCopies
<1>2. Waiting' = Waiting /\ item # NoItem
  BY <1>1, QueueAssumption DEF Waiting
<1>3. /\ Waiting = Distance(write, read) /\ Held = Waiting /\ Waiting \in Nat /\ Waiting < Capacity
      /\ Held' = Waiting + 1 /\ Capacity \in Nat \ {0}
      /\ write \in 0..(Word - 1) /\ read \in 0..(Word - 1) /\ read \in Int
      /\ slots \in [0..(Capacity - 1) -> Items \cup {NoItem}]
  BY <1>1, <1>2, RingFacts DEF IsFull, QueueInv, Held
<1>4. write % Capacity = (read + Waiting) % Capacity /\ write % Capacity \in 0..(Capacity - 1)
  <2>1. write \in Int
    BY <1>3
  <2> QED
    BY <1>3, <2>1, WriterSlot, Division
<1>5. ASSUME NEW j \in 1..Held
      PROVE  slots'[(read + (j - 1)) % Capacity] = slots[(read + (j - 1)) % Capacity]
  <2>1. j - 1 \in 0..(Capacity - 1) /\ Waiting \in 0..(Capacity - 1) /\ j - 1 < Waiting
    BY <1>3
  <2>2. (read + (j - 1)) % Capacity # (read + Waiting) % Capacity
    BY <1>3, <2>1, DifferentSlots
  <2>3. (read + (j - 1)) % Capacity \in 0..(Capacity - 1)
    BY LineAt
  <2> QED
    BY <1>1, <1>3, <1>4, <2>2, <2>3
<1>6. Line' = [j \in 1..Held' |-> slots'[(read + j - 1) % Capacity]]
  BY <1>1 DEF Line
<1>7. \A j \in 1..Held : Line'[j] = Line[j]
  <2> SUFFICES ASSUME NEW j \in 1..Held PROVE Line'[j] = Line[j]
    OBVIOUS
  <2>1. j \in 1..Held' /\ read + j - 1 = read + (j - 1)
    BY <1>3
  <2>2. Line'[j] = slots'[(read + (j - 1)) % Capacity]
    BY <1>6, <2>1
  <2> QED
    BY <1>5, <2>2, LineAt
<1>8. Line'[Held + 1] = item
  <2>1. Held + 1 \in 1..Held' /\ read + (Held + 1) - 1 = read + Waiting
    BY <1>3
  <2>2. Line'[Held + 1] = slots'[(read + Waiting) % Capacity]
    BY <1>6, <2>1
  <2> QED
    BY <1>1, <1>3, <1>4, <2>2
<1>9. QueueInv'
  <2>1. write' \in 0..(Word - 1) /\ read' \in 0..(Word - 1) /\ Held' <= Capacity
    BY <1>1, <1>3
  <2>2. slots' \in [0..(Capacity - 1) -> Items \cup {NoItem}]
    BY <1>1, <1>3, <1>4
  <2>3. \A j \in 1..Held' : Line'[j] \in Items
    <3> SUFFICES ASSUME NEW j \in 1..Held' PROVE Line'[j] \in Items
      OBVIOUS
    <3>1. j \in 1..Held \/ j = Held + 1
      BY <1>3
    <3>2. j \in 1..Held => Line[j] \in Items
      BY DEF QueueInv
    <3> QED
      BY <1>7, <1>8, <3>1, <3>2
  <2>4. pushing' # NoItem => pushing' = Line'[Held']
    BY <1>1, <1>3, <1>8
  <2>5. popping' # NoItem => Waiting' > 0 /\ popping' = Line'[1]
    <3> SUFFICES ASSUME popping # NoItem PROVE Waiting > 0 /\ popping = Line'[1]
      BY <1>1, <1>2
    <3>1. Waiting > 0 /\ popping = Line[1]
      BY DEF QueueInv
    <3>2. 1 \in 1..Held
      BY <1>3, <3>1
    <3> QED
      BY <1>7, <3>1, <3>2
  <2> QED
    BY <2>1, <2>2, <2>3, <2>4, <2>5 DEF QueueInv
<1> QED
  BY <1>2, <1>3, <1>7, <1>8, <1>9

\* push, the counter: what is held does not change.
LEMMA PushPublishesLine ==
    ASSUME QueueInv, PushPublishes
    PROVE  QueueInv' /\ Waiting' = Waiting + 1 /\ Held' = Held /\ Line' = Line
<1>1. /\ pushing # NoItem /\ write' = Up(write) /\ pushing' = NoItem
      /\ slots' = slots /\ read' = read /\ popping' = popping
  BY DEF PushPublishes, Up
<1>2. /\ Waiting = Distance(write, read) /\ Held = Waiting + 1 /\ Held <= Capacity
      /\ Capacity < Word /\ Waiting \in Nat /\ Capacity \in Nat /\ Word \in Nat
      /\ write \in 0..(Word - 1) /\ read \in 0..(Word - 1)
  BY <1>1, RingFacts DEF QueueInv
<1>3. Waiting' = Distance(Up(write), read)
  BY <1>1 DEF Waiting, Distance
<1>4. Distance(write, read) < Word - 1
  BY <1>2
<1>5. Waiting' = Waiting + 1
  BY <1>2, <1>3, <1>4, DistanceSteps
<1>6. Held' = Waiting + 1
  BY <1>1, <1>2, <1>5 DEF Held
<1>7. Held' = Held /\ Line' = Line
  <2>1. Held' = Held
    BY <1>2, <1>6
  <2> QED
    BY <1>1, <2>1 DEF Line
<1>8. write' \in 0..(Word - 1)
  BY <1>1, <1>2, UpValue
<1>9. popping' # NoItem => Waiting' > 0
  BY <1>2, <1>5
<1>10. QueueInv'
  BY <1>1, <1>7, <1>8, <1>9 DEF QueueInv
<1> QED
  BY <1>5, <1>7, <1>10

\* pop, before the counter moves.
LEMMA PopCopiesLine ==
    ASSUME QueueInv, PopCopies
    PROVE  /\ QueueInv' /\ Waiting' = Waiting /\ Held' = Held /\ Line' = Line
           /\ popping = NoItem /\ Waiting > 0 /\ popping' = Line[1]
<1>1. /\ popping = NoItem /\ ~IsEmpty /\ popping' = slots[read % Capacity]
      /\ slots' = slots /\ write' = write /\ read' = read /\ pushing' = pushing
  BY DEF PopCopies
<1>2. Waiting > 0 /\ Held \in Nat /\ 1 \in 1..Held
  BY <1>1, RingFacts
<1>3. popping' = Line[1]
  <2>1. read + (1 - 1) = read
    BY DEF QueueInv
  <2> QED
    BY <1>1, <1>2, <2>1, LineAt
<1>4. Waiting' = Waiting
  BY <1>1 DEF Waiting
<1>5. Held' = Held
  BY <1>1, <1>4 DEF Held
<1>6. Line' = Line
  BY <1>1, <1>5 DEF Line
<1>7. QueueInv'
  BY <1>1, <1>2, <1>3, <1>4, <1>5, <1>6 DEF QueueInv
<1> QED
  BY <1>1, <1>2, <1>3, <1>4, <1>5, <1>6, <1>7

\* pop, the counter: the oldest leaves.
LEMMA PopReleasesLine ==
    ASSUME QueueInv, PopReleases
    PROVE  /\ QueueInv' /\ Waiting' = Waiting - 1 /\ Held' = Held - 1 /\ Held > 0
           /\ \A j \in 1..Held' : Line'[j] = Line[j + 1]
           /\ popping # NoItem /\ popping = Line[1] /\ popping' = NoItem /\ pushing' = pushing
<1>1. /\ popping # NoItem /\ read' = Up(read) /\ popping' = NoItem
      /\ slots' = slots /\ write' = write /\ pushing' = pushing
  BY DEF PopReleases, Up
<1>2. popping = Line[1] /\ Waiting > 0
  BY <1>1 DEF QueueInv
<1>3. /\ Waiting = Distance(write, read) /\ Waiting \in Nat /\ Held \in Nat /\ Held >= Waiting
      /\ Held <= Capacity /\ Capacity \in Nat \ {0}
      /\ write \in 0..(Word - 1) /\ read \in 0..(Word - 1)
  BY RingFacts DEF QueueInv
<1>4. Waiting' = Distance(write, Up(read))
  BY <1>1 DEF Waiting, Distance
<1>5. Waiting' = Waiting - 1
  BY <1>2, <1>3, <1>4, DistanceSteps
<1>6. Held' = Held - 1 /\ Held > 0
  BY <1>1, <1>2, <1>3, <1>5 DEF Held
<1>7. ASSUME NEW j \in 1..Held' PROVE Line'[j] = Line[j + 1] /\ j + 1 \in 1..Held
  <2>1. j + 1 \in 1..Held /\ j - 1 \in Int /\ read \in Int /\ Up(read) \in Int
    BY <1>3, <1>6, UpValue, QueueAssumption
  <2>2. Line'[j] = slots[(Up(read) + j - 1) % Capacity]
    BY <1>1 DEF Line
  <2>3. Up(read) + j - 1 = Up(read) + (j - 1) /\ read + 1 + (j - 1) = read + ((j + 1) - 1)
    BY <2>1
  <2>4. (Up(read) + (j - 1)) % Capacity = (read + 1 + (j - 1)) % Capacity
    BY <1>3, <2>1, ReaderSlots
  <2>5. Line[j + 1] = slots[(read + ((j + 1) - 1)) % Capacity]
    BY <2>1, LineAt
  <2> QED
    BY <2>1, <2>2, <2>3, <2>4, <2>5
<1>8. QueueInv'
  <2>1. read' \in 0..(Word - 1)
    BY <1>1, <1>3, UpValue
  <2>2. \A j \in 1..Held' : Line'[j] \in Items
    BY <1>7 DEF QueueInv
  <2>3. pushing' # NoItem => pushing' = Line'[Held']
    <3> SUFFICES ASSUME pushing # NoItem PROVE pushing = Line'[Held']
      BY <1>1
    <3>1. Held = Waiting + 1 /\ pushing = Line[Held]
      BY RingFacts DEF QueueInv
    <3>2. Held' \in 1..Held' /\ Held' + 1 = Held
      BY <1>2, <1>3, <1>6, <3>1
    <3> QED
      BY <1>7, <3>1, <3>2
  <2>4. Held' <= Capacity
    BY <1>3, <1>6
  <2> QED
    BY <1>1, <2>1, <2>2, <2>3, <2>4 DEF QueueInv
<1> QED
  BY <1>1, <1>2, <1>5, <1>6, <1>7, <1>8

-----------------------------------------------------------------------------
\* The ring implements BoundedFifo

PublishedIsLine ==
    /\ Copied \in 0..1 /\ Waiting - Copied \in Nat /\ Waiting \in Nat
    /\ Published = [i \in 1..(Waiting - Copied) |-> Line[Copied + i]]
    /\ Published \in Seq(Items) /\ Len(Published) = Waiting - Copied

LEMMA PublishedLine == QueueInv => PublishedIsLine
<1> SUFFICES ASSUME QueueInv PROVE PublishedIsLine
  OBVIOUS
<1>1. Copied \in 0..1 /\ Waiting - Copied \in Nat /\ Waiting \in Nat /\ Held \in Nat
      /\ Waiting <= Held /\ read \in Int
  <2>1. popping # NoItem => Waiting > 0
    BY DEF QueueInv
  <2> QED
    BY <2>1, RingFacts DEF QueueInv, Copied
<1>2. ASSUME NEW i \in 1..(Waiting - Copied)
      PROVE  Copied + i \in 1..Held
             /\ slots[(read + Copied + i - 1) % Capacity] = Line[Copied + i]
  <2>1. Copied + i \in 1..Held /\ read + Copied + i - 1 = read + ((Copied + i) - 1)
    BY <1>1
  <2>2. Line[Copied + i] = slots[(read + ((Copied + i) - 1)) % Capacity]
    BY <2>1, LineAt
  <2> QED
    BY <2>1, <2>2
<1>3. Published = [i \in 1..(Waiting - Copied) |-> Line[Copied + i]]
  BY <1>2 DEF Published
<1>4. \A i \in 1..(Waiting - Copied) : Line[Copied + i] \in Items
  BY <1>2 DEF QueueInv
<1>5. Published \in [1..(Waiting - Copied) -> Items]
  BY <1>3, <1>4
<1>6. Published \in Seq(Items) /\ Len(Published) = Waiting - Copied
  BY <1>1, <1>5
<1> QED
  BY <1>1, <1>3, <1>6 DEF PublishedIsLine

LEMMA PushCopiesFifo ==
    ASSUME QueueInv, NEW item \in Items, PushCopies(item)
    PROVE  UNCHANGED <<Published, popping>>
<1>1. /\ QueueInv' /\ Waiting' = Waiting /\ Held = Waiting
      /\ \A j \in 1..Held : Line'[j] = Line[j]
  BY PushCopiesLine
<1>2. popping' = popping
  BY DEF PushCopies
<1>3. Copied' = Copied
  BY <1>2 DEF Copied
<1>4. Published' = [i \in 1..(Waiting - Copied) |-> Line'[Copied + i]]
  <2>1. Published' = [i \in 1..(Waiting' - Copied') |-> Line'[Copied' + i]]
    <3>1. PublishedIsLine'
      BY <1>1, PublishedLine, PTL
    <3> QED
      BY <3>1 DEF PublishedIsLine
  <2> QED
    BY <1>1, <1>3, <2>1
<1>5. /\ Published = [i \in 1..(Waiting - Copied) |-> Line[Copied + i]]
      /\ Copied \in 0..1 /\ Waiting - Copied \in Nat /\ Waiting \in Nat
  BY PublishedLine DEF PublishedIsLine
<1>6. \A i \in 1..(Waiting - Copied) : Copied + i \in 1..Held
  BY <1>1, <1>5
<1>7. Published' = Published
  BY <1>1, <1>4, <1>5, <1>6
<1> QED
  BY <1>2, <1>7

LEMMA PushPublishesFifo ==
    ASSUME QueueInv, PushPublishes
    PROVE  Fifo!Push(pushing) /\ pushing \in Items
<1>1. QueueInv' /\ Waiting' = Waiting + 1 /\ Line' = Line
  BY PushPublishesLine
<1>2. pushing # NoItem /\ popping' = popping
  BY DEF PushPublishes
<1>3. Copied' = Copied
  BY <1>2 DEF Copied
<1>4. PublishedIsLine /\ PublishedIsLine'
  BY <1>1, PublishedLine, PTL
<1>5. Published' = [i \in 1..(Waiting + 1 - Copied) |-> Line[Copied + i]]
  BY <1>1, <1>3, <1>4 DEF PublishedIsLine
<1>6. /\ Published = [i \in 1..(Waiting - Copied) |-> Line[Copied + i]]
      /\ Copied \in 0..1 /\ Waiting - Copied \in Nat /\ Waiting \in Nat
      /\ Published \in Seq(Items) /\ Len(Published) = Waiting - Copied
  BY <1>4 DEF PublishedIsLine
<1>7. Held = Waiting + 1 /\ pushing = Line[Held] /\ Held \in 1..Held /\ Held <= Capacity
      /\ Capacity \in Nat
  BY <1>2, <1>6, RingFacts DEF QueueInv
<1>8. pushing \in Items
  BY <1>7 DEF QueueInv
<1>9. Published' = Append(Published, pushing)
  <2>1. /\ Append(Published, pushing) \in Seq(Items)
        /\ Len(Append(Published, pushing)) = Waiting - Copied + 1
        /\ \A i \in 1..(Waiting - Copied) : Append(Published, pushing)[i] = Line[Copied + i]
        /\ Append(Published, pushing)[Waiting - Copied + 1] = pushing
    BY <1>6, <1>8
  <2>2. Published' \in Seq(Items) /\ Len(Published') = Waiting - Copied + 1
    BY <1>1, <1>3, <1>4, <1>6 DEF PublishedIsLine
  <2>3. \A i \in 1..(Waiting - Copied + 1) : Published'[i] = Append(Published, pushing)[i]
    <3> SUFFICES ASSUME NEW i \in 1..(Waiting - Copied + 1)
                 PROVE  Published'[i] = Append(Published, pushing)[i]
      OBVIOUS
    <3>1. i \in 1..(Waiting - Copied) \/ i = Waiting - Copied + 1
      BY <1>6
    <3>2. Published'[i] = Line[Copied + i]
      BY <1>5, <1>6
    <3>3. i = Waiting - Copied + 1 => Copied + i = Held
      BY <1>6, <1>7
    <3> QED
      BY <1>7, <2>1, <3>1, <3>2, <3>3
  <2> QED
    BY <2>1, <2>2, <2>3, SeqEqual
<1>10. Len(Published) < Capacity
  BY <1>6, <1>7
<1> QED
  BY <1>2, <1>8, <1>9, <1>10 DEF Fifo!Push

LEMMA PopCopiesFifo ==
    ASSUME QueueInv, PopCopies
    PROVE  Fifo!Take
<1>1. /\ QueueInv' /\ Waiting' = Waiting /\ Held' = Held /\ Line' = Line
      /\ popping = NoItem /\ Waiting > 0 /\ popping' = Line[1]
  BY PopCopiesLine
<1>2. PublishedIsLine /\ PublishedIsLine'
  BY <1>1, PublishedLine, PTL
<1>3. popping' # NoItem
  <2>1. Held >= Waiting /\ Held \in Nat /\ Waiting \in Nat
    BY RingFacts
  <2>2. Line[1] \in Items
    BY <1>1, <2>1 DEF QueueInv
  <2> QED
    BY <1>1, <2>2, QueueAssumption
<1>4. Copied = 0 /\ Copied' = 1
  BY <1>1, <1>3 DEF Copied
<1>5. /\ Published = [i \in 1..Waiting |-> Line[0 + i]] /\ Waiting \in Nat
      /\ Published \in Seq(Items) /\ Len(Published) = Waiting
  BY <1>2, <1>4 DEF PublishedIsLine
<1>6. /\ Published' = [i \in 1..(Waiting - 1) |-> Line[1 + i]]
      /\ Published' \in Seq(Items) /\ Len(Published') = Waiting - 1
  BY <1>1, <1>2, <1>4 DEF PublishedIsLine
<1>7. Published # <<>> /\ Head(Published) = Line[1]
  <2>1. Published[1] = Line[1] /\ Len(Published) > 0
    BY <1>1, <1>5
  <2> QED
    BY <1>5, <2>1
<1>8. Published' = Tail(Published)
  <2>1. /\ Tail(Published) \in Seq(Items) /\ Len(Tail(Published)) = Waiting - 1
        /\ \A i \in 1..(Waiting - 1) : Tail(Published)[i] = Published[i + 1]
    BY <1>1, <1>5, <1>7
  <2>2. \A i \in 1..(Waiting - 1) : Published'[i] = Tail(Published)[i]
    <3> SUFFICES ASSUME NEW i \in 1..(Waiting - 1) PROVE Published'[i] = Tail(Published)[i]
      OBVIOUS
    <3>1. Published'[i] = Line[1 + i]
      BY <1>6
    <3>2. Published[i + 1] = Line[0 + (i + 1)] /\ 0 + (i + 1) = 1 + i
      BY <1>1, <1>5
    <3> QED
      BY <2>1, <3>1, <3>2
  <2> QED
    BY <1>6, <2>1, <2>2, SeqEqual
<1> QED
  BY <1>1, <1>7, <1>8 DEF Fifo!Take

LEMMA PopReleasesFifo ==
    ASSUME QueueInv, PopReleases
    PROVE  Fifo!Finish
<1>1. /\ QueueInv' /\ Waiting' = Waiting - 1 /\ Held' = Held - 1
      /\ \A j \in 1..Held' : Line'[j] = Line[j + 1]
      /\ popping # NoItem /\ popping' = NoItem
  BY PopReleasesLine
<1>2. PublishedIsLine /\ PublishedIsLine'
  BY <1>1, PublishedLine, PTL
<1>3. Copied = 1 /\ Copied' = 0
  BY <1>1 DEF Copied
<1>4. /\ Published = [i \in 1..(Waiting - 1) |-> Line[1 + i]] /\ Waiting \in Nat
      /\ Waiting - 1 \in Nat
  BY <1>2, <1>3 DEF PublishedIsLine
<1>5. Published' = [i \in 1..(Waiting - 1 - 0) |-> Line'[0 + i]]
  BY <1>1, <1>2, <1>3 DEF PublishedIsLine
<1>6. ASSUME NEW i \in 1..(Waiting - 1) PROVE Line'[0 + i] = Line[1 + i]
  <2>1. i \in 1..Held' /\ 0 + i = i /\ i + 1 = 1 + i
    BY <1>1, <1>4, RingFacts
  <2> QED
    BY <1>1, <2>1
<1>7. Published' = Published
  <2>1. Waiting - 1 - 0 = Waiting - 1
    BY <1>4
  <2> QED
    BY <1>4, <1>5, <1>6, <2>1
<1> QED
  BY <1>1, <1>7 DEF Fifo!Finish

-----------------------------------------------------------------------------
\* The calls of the ABI

\* n is r after an execution: the clock and the document stay.
Executed(r, n) ==
    n \in Runtime /\ n.last = r.last /\ n.source = r.source /\ n.enabled = r.enabled

LEMMA SucceedsExecutes ==
    ASSUME NEW r \in Runtime, NEW o \in Succeeds(r)
    PROVE  o.result = "Ok" /\ Executed(r, o.runtime) /\ o.effects \in Nat
<1>1. Quiet(r) \in Runtime /\ Executed(r, Quiet(r))
  BY AbiAssumption DEF Runtime, Executed, Quiet
<1>2. ASSUME NEW name \in TimersOf(r), NEW after \in 1..MaxAfter
      PROVE  Executed(r, Armed(Quiet(r), name, after))
  <2>1. PICK q \in Runtime : q = Quiet(r) /\ Executed(r, q)
    BY <1>1
  <2>2. name \in Timers /\ q.last + after \in Nat
    BY AbiAssumption DEF TimersOf, Runtime
  <2>3. (q.pending \ Named(q.pending, name)) \cup {[name |-> name, due |-> q.last + after]}
            \in SUBSET [name : Timers, due : Nat]
    BY <2>2 DEF Runtime, Named
  <2>4. Executed(q, Armed(q, name, after))
    BY <2>3 DEF Runtime, Executed, Armed
  <2> QED
    BY <2>1, <2>4 DEF Executed
<1>3. ASSUME NEW name \in TimersOf(r) PROVE Executed(r, Cancelled(Quiet(r), name))
  <2>1. PICK q \in Runtime : q = Quiet(r) /\ Executed(r, q)
    BY <1>1
  <2>2. q.pending \ Named(q.pending, name) \in SUBSET [name : Timers, due : Nat]
    BY DEF Runtime, Named
  <2>3. Executed(q, Cancelled(q, name))
    BY <2>2 DEF Runtime, Executed, Cancelled
  <2> QED
    BY <2>1, <2>3 DEF Executed
<1>4. MostEffects(r) \in Nat
  BY AbiAssumption DEF MostEffects
<1>5. PICK n \in {Quiet(r)} \cup
                 {Armed(Quiet(r), name, after) : name \in TimersOf(r), after \in 1..MaxAfter} \cup
                 {Cancelled(Quiet(r), name) : name \in TimersOf(r)},
          effects \in 0..MostEffects(r) : o = Outcome("Ok", n, effects)
  BY DEF Succeeds
<1>6. Executed(r, n)
  BY <1>1, <1>2, <1>3
<1> QED
  BY <1>4, <1>5, <1>6 DEF Outcome

LEMMA FailsExecutes ==
    ASSUME NEW r \in Runtime, NEW o \in Fails(r) \cup RateExceeded(r)
    PROVE  o.result \in {"Ok", "LogicError"} /\ Executed(r, o.runtime) /\ o.effects \in Nat
<1> DEFINE limited   == [r EXCEPT !.failures = 0, !.pending = {}, !.health = "SuspendedEventRate"]
           counted   == [r EXCEPT !.failures = @ + 1]
           suspended == [r EXCEPT !.failures = Threshold, !.pending = {},
                                  !.health = "SuspendedScriptFailures"]
<1>1. r.failures \in 0..Threshold /\ Threshold \in Nat \ {0}
  BY AbiAssumption DEF Runtime
<1>2. Executed(r, limited)
  <2>1. {} \in SUBSET [name : Timers, due : Nat] /\ "SuspendedEventRate" \in Health
        /\ 0 \in 0..Threshold /\ Threshold \in 0..Threshold
    BY <1>1 DEF Health
  <2> QED
    BY <2>1 DEF Runtime, Executed
<1>3. r.failures + 1 < Threshold => Executed(r, counted)
  BY <1>1 DEF Runtime, Executed
<1>4. Executed(r, suspended)
  <2>1. {} \in SUBSET [name : Timers, due : Nat] /\ "SuspendedScriptFailures" \in Health
        /\ 0 \in 0..Threshold /\ Threshold \in 0..Threshold
    BY <1>1 DEF Health
  <2> QED
    BY <2>1 DEF Runtime, Executed
<1>5. \/ o = Outcome("Ok", limited, 0)
      \/ o = Outcome("LogicError", IF r.failures + 1 < Threshold THEN counted ELSE suspended, 0)
  BY Zenon DEF Fails, RateExceeded
<1> HIDE DEF limited, counted, suspended
<1>6. PICK n : Executed(r, n) /\ o \in {Outcome("Ok", n, 0), Outcome("LogicError", n, 0)}
  BY <1>2, <1>3, <1>4, <1>5
<1> QED
  BY <1>6 DEF Outcome

\* A cascade keeps the document; it moves the clock to now or not at all, and never back.
Cascaded(r, now, o) ==
    /\ o.runtime \in Runtime /\ o.effects \in Nat
    /\ o.runtime.source = r.source /\ o.runtime.enabled = r.enabled
    /\ o.runtime.last = r.last \/ (o.runtime.last = now /\ r.last <= now)
    /\ o.result = "TimeWentBackwards" => now < r.last

LEMMA ExecutesCascade ==
    ASSUME NEW r \in Runtime, NEW old \in Runtime, NEW now \in Nat, old.last <= now,
           r.last = now, r.source = old.source, r.enabled = old.enabled,
           NEW o \in Executes(r, old)
    PROVE  Cascaded(old, now, o)
<1>1. CASE o \in Succeeds(r)
  <2>1. o.result = "Ok" /\ Executed(r, o.runtime) /\ o.effects \in Nat
    BY <1>1, SucceedsExecutes
  <2> QED
    BY <2>1 DEF Executed, Cascaded
<1>2. CASE o \in Fails(r) \cup RateExceeded(r)
  <2>1. o.result \in {"Ok", "LogicError"} /\ Executed(r, o.runtime) /\ o.effects \in Nat
    BY <1>2, FailsExecutes
  <2> QED
    BY <2>1 DEF Executed, Cascaded
<1>3. CASE o \in Refused(old, "RuntimeLimit")
  BY <1>3 DEF Refused, Outcome, Cascaded
<1> QED
  BY <1>1, <1>2, <1>3 DEF Executes

LEMMA InputCascade ==
    ASSUME NEW r \in Runtime, NEW now \in Nat, NEW o \in process_input_cascade(r, now)
    PROVE  Cascaded(r, now, o)
<1> DEFINE moved == [r EXCEPT !.last = now]
<1>1. moved \in Runtime /\ moved.last = now /\ moved.source = r.source /\ moved.enabled = r.enabled
      /\ r.last \in Nat
  BY DEF Runtime
<1>2. CASE now < r.last
  BY <1>2 DEF process_input_cascade, Refused, Outcome, Cascaded
<1>3. CASE ~(now < r.last) /\ Runnable(r)
  <2>1. o \in Executes(moved, r) /\ r.last <= now
    BY <1>1, <1>3 DEF process_input_cascade
  <2> HIDE DEF moved
  <2> QED
    BY <1>1, <2>1, ExecutesCascade
<1>4. CASE ~(now < r.last) /\ ~Runnable(r)
  <2>1. o = Outcome("Ok", moved, 0) /\ r.last <= now
    BY <1>1, <1>4 DEF process_input_cascade
  <2> HIDE DEF moved
  <2> QED
    BY <1>1, <2>1 DEF Outcome, Cascaded
<1> QED
  BY <1>2, <1>3, <1>4

LEMMA TimerCascade ==
    ASSUME NEW r \in Runtime, NEW now \in Nat, NEW o \in process_next_due_timer_cascade(r, now)
    PROVE  Cascaded(r, now, o)
<1> DEFINE due   == DueTimers(r, now)
           first == CHOOSE p \in due : \A q \in due : p.due <= q.due
           moved == [r EXCEPT !.last = now]
           taken == [r EXCEPT !.last = now, !.pending = @ \ {first}]
<1>1. moved \in Runtime /\ moved.last = now /\ moved.source = r.source /\ moved.enabled = r.enabled
      /\ r.last \in Nat
  BY DEF Runtime
<1>2. taken \in Runtime /\ taken.last = now /\ taken.source = r.source /\ taken.enabled = r.enabled
  <2> HIDE DEF first
  <2> QED
    BY DEF Runtime
<1>3. o \in IF now < r.last THEN Refused(r, "TimeWentBackwards")
            ELSE IF due = {} THEN {Outcome("Ok", moved, 0)}
            ELSE Executes(taken, r)
  BY Zenon DEF process_next_due_timer_cascade
<1> HIDE DEF due, first, moved, taken
<1>4. CASE now < r.last
  BY <1>3, <1>4 DEF Refused, Outcome, Cascaded
<1>5. CASE ~(now < r.last) /\ due = {}
  <2>1. o = Outcome("Ok", moved, 0) /\ r.last <= now
    BY <1>1, <1>3, <1>5
  <2> QED
    BY <1>1, <2>1 DEF Outcome, Cascaded
<1>6. CASE ~(now < r.last) /\ due # {}
  <2>1. o \in Executes(taken, r) /\ r.last <= now
    BY <1>1, <1>3, <1>6
  <2> QED
    BY <1>2, <2>1, ExecutesCascade
<1> QED
  BY <1>4, <1>5, <1>6

\* A call keeps the document and its revision, and moves the clock like the cascade.
Called(h, now, r) ==
    /\ r.handle \in Handle /\ r.effects \in Nat
    /\ r.handle.document_revision = h.document_revision
    /\ Document(r.handle.runtime) = Document(h.runtime)
    /\ \/ r.handle.runtime.last = h.runtime.last
       \/ r.handle.runtime.last = now /\ h.runtime.last <= now
    /\ r.status = "TimeWentBackwards" => now < h.runtime.last

LEMMA CommittedCalls ==
    ASSUME NEW h \in Handle, NEW now \in Nat, NEW o, Cascaded(h.runtime, now, o),
           NEW r, r \in {write_effects(h, o, EffectCapacity), RolledBack(h, o.result)}
    PROVE  Called(h, now, r)
<1>1. h.runtime \in Runtime /\ h.document_revision \in Nat
  BY DEF Handle
<1>2. CASE r = Committed(h, o)
  <2> DEFINE g == [h EXCEPT !.runtime = o.runtime]
  <2>1. g \in Handle /\ g.runtime = o.runtime /\ g.document_revision = h.document_revision
    BY DEF Handle, Cascaded
  <2>2. r.handle = g /\ r.status = o.result /\ r.effects = o.effects
    BY <1>2 DEF Committed, Result
  <2> HIDE DEF g
  <2> QED
    BY <2>1, <2>2 DEF Called, Cascaded, Document
<1>3. CASE r \in {RolledBack(h, o.result), RolledBack(h, "OutputBufferTooSmall")}
  <2>1. r.handle = h /\ r.effects = 0 /\ r.status \in {o.result, "OutputBufferTooSmall"}
    BY <1>3 DEF RolledBack, Result
  <2> QED
    BY <1>1, <2>1 DEF Called, Cascaded
<1> QED
  BY <1>2, <1>3 DEF write_effects

LEMMA InputCall ==
    ASSUME NEW h \in Handle, NEW now \in Nat,
           NEW r \in logiksmith_runtime_process_input(h, now, EffectCapacity)
    PROVE  Called(h, now, r)
<1>1. PICK o \in process_input_cascade(h.runtime, now) :
         r \in {write_effects(h, o, EffectCapacity), RolledBack(h, o.result)}
  BY DEF logiksmith_runtime_process_input
<1>2. h.runtime \in Runtime
  BY DEF Handle
<1>3. Cascaded(h.runtime, now, o)
  BY <1>2, InputCascade
<1> QED
  BY <1>1, <1>3, CommittedCalls

LEMMA TimerCall ==
    ASSUME NEW h \in Handle, NEW now \in Nat,
           NEW r \in logiksmith_runtime_process_due_timer(h, now, EffectCapacity)
    PROVE  Called(h, now, r)
<1>1. PICK o \in process_next_due_timer_cascade(h.runtime, now) :
         r \in {write_effects(h, o, EffectCapacity), RolledBack(h, o.result)}
  BY DEF logiksmith_runtime_process_due_timer
<1>2. h.runtime \in Runtime
  BY DEF Handle
<1>3. Cascaded(h.runtime, now, o)
  BY <1>2, TimerCascade
<1> QED
  BY <1>1, <1>3, CommittedCalls

-----------------------------------------------------------------------------
\* The management commands

\* A command keeps the clock; the revision stays with the document or moves on by one.
Managed(h, g) ==
    /\ g \in Handle /\ g.runtime.last = h.runtime.last
    /\ \/ g.document_revision = h.document_revision /\ Document(g.runtime) = Document(h.runtime)
       \/ g.document_revision = h.document_revision + 1

LEMMA ActivatedRuntime ==
    ASSUME NEW r \in Runtime, NEW source \in Sources, NEW on \in BOOLEAN
    PROVE  Activated(r, source, on) \in Runtime /\ Activated(r, source, on).last = r.last
<1>1. HealthFor(on) \in Health /\ r.health \in Health
  BY DEF HealthFor, Health, Runtime
<1>2. /\ {} \in SUBSET [name : Timers, due : Nat] /\ r.pending \in SUBSET [name : Timers, due : Nat]
      /\ 0 \in 0..Threshold /\ r.failures \in 0..Threshold
  BY AbiAssumption DEF Runtime
<1>3. PICK pending \in SUBSET [name : Timers, due : Nat], failures \in 0..Threshold,
           health \in Health :
         Activated(r, source, on) =
             [r EXCEPT !.source = source, !.enabled = on, !.pending = pending,
                       !.failures = failures, !.health = health]
  <2> DEFINE changed == source # r.source \/ on # r.enabled
             clears  == source # r.source \/ (r.enabled /\ ~on)
  <2>1. Activated(r, source, on) =
            [r EXCEPT !.source = source, !.enabled = on,
                      !.pending = IF clears THEN {} ELSE r.pending,
                      !.failures = IF changed THEN 0 ELSE r.failures,
                      !.health = IF changed THEN HealthFor(on) ELSE r.health]
    BY DEF Activated, Runtime
  <2>2. /\ (IF clears THEN {} ELSE r.pending) \in SUBSET [name : Timers, due : Nat]
        /\ (IF changed THEN 0 ELSE r.failures) \in 0..Threshold
        /\ (IF changed THEN HealthFor(on) ELSE r.health) \in Health
    BY <1>1, <1>2
  <2> HIDE DEF changed, clears
  <2> QED
    BY <2>1, <2>2
<1> QED
  BY <1>3 DEF Runtime

LEMMA ActivateManages ==
    ASSUME NEW h \in Handle, NEW c \in Command
    PROVE  Managed(h, logiksmith_runtime_activate(h, c).handle)
<1> DEFINE source == IF c.source = None THEN h.runtime.source ELSE c.source
           on     == IF c.enabled = None THEN h.runtime.enabled ELSE c.enabled = "on"
           r      == Activated(h.runtime, source, on)
           next   == [runtime |-> r, document_revision |-> NextRevision(h, r)]
<1>1. h.runtime \in Runtime /\ h.document_revision \in Nat
  BY DEF Handle
<1>2. source \in Sources /\ on \in BOOLEAN
  BY <1>1 DEF Runtime, Command
<1>3. r \in Runtime /\ r.last = h.runtime.last
  <2> HIDE DEF source, on
  <2> QED
    BY <1>1, <1>2, ActivatedRuntime
<1>4. logiksmith_runtime_activate(h, c) \in
          {RolledBack(h, "RevisionConflict"), RolledBack(h, "InvalidSource"), Result("Ok", next, 0)}
  BY Zenon DEF logiksmith_runtime_activate
<1> HIDE DEF r
<1>5. Managed(h, next)
  BY <1>1, <1>3 DEF NextRevision, Managed, Handle
<1>6. Managed(h, h)
  BY <1>1 DEF Managed
<1>7. logiksmith_runtime_activate(h, c).handle \in {h, next}
  BY <1>4 DEF RolledBack, Result
<1> QED
  BY <1>5, <1>6, <1>7

LEMMA ResumeManages ==
    ASSUME NEW h \in Handle, NEW c \in Command
    PROVE  Managed(h, logiksmith_runtime_resume(h, c).handle)
<1> DEFINE g == [h EXCEPT !.runtime = Resumed(h.runtime)]
<1>1. h.runtime \in Runtime /\ h.document_revision \in Nat
  BY DEF Handle
<1>2. HealthFor(h.runtime.enabled) \in Health /\ 0 \in 0..Threshold
  BY AbiAssumption DEF HealthFor, Health
<1>3. /\ Resumed(h.runtime) \in Runtime /\ Resumed(h.runtime).last = h.runtime.last
      /\ Document(Resumed(h.runtime)) = Document(h.runtime)
  BY <1>1, <1>2 DEF Runtime, Document, Resumed
<1>4. /\ g \in Handle /\ g.runtime = Resumed(h.runtime)
      /\ g.document_revision = h.document_revision
  BY <1>3 DEF Handle
<1>5. logiksmith_runtime_resume(h, c) \in {RolledBack(h, "RevisionConflict"), Result("Ok", g, 0)}
  BY Zenon DEF logiksmith_runtime_resume
<1> HIDE DEF g
<1>6. Managed(h, g)
  BY <1>3, <1>4 DEF Managed
<1>7. Managed(h, h)
  BY <1>1 DEF Managed
<1>8. logiksmith_runtime_resume(h, c).handle \in {h, g}
  BY <1>5 DEF RolledBack, Result
<1> QED
  BY <1>6, <1>7, <1>8

LEMMA HandledManages ==
    ASSUME NEW h \in Handle, NEW c \in Command
    PROVE  Managed(h, Handled(h, c))
<1>1. c.op \in {"activate", "resume", "get"}
  BY DEF Command
<1>2. CASE c.op = "activate"
  BY <1>2, ActivateManages DEF Handled
<1>3. CASE c.op = "resume"
  BY <1>3, ResumeManages DEF Handled
<1>4. CASE c.op = "get"
  BY <1>4 DEF Handled, Managed
<1> QED
  BY <1>1, <1>2, <1>3, <1>4

-----------------------------------------------------------------------------
\* What a step leaves alone

LEMMA QueueFrame ==
    ASSUME QueueInv, UNCHANGED queueVars
    PROVE  /\ QueueInv' /\ Held' = Held /\ Line' = Line /\ Waiting' = Waiting
           /\ pushing' = pushing /\ popping' = popping
<1>1. /\ slots' = slots /\ write' = write /\ read' = read
      /\ pushing' = pushing /\ popping' = popping
  BY DEF queueVars
<1>2. Waiting' = Waiting
  BY <1>1 DEF Waiting
<1>3. Held' = Held
  BY <1>1, <1>2 DEF Held
<1>4. Line' = Line
  BY <1>1, <1>3 DEF Line
<1>5. QueueInv'
  BY <1>1, <1>2, <1>3, <1>4 DEF QueueInv
<1> QED
  BY <1>1, <1>2, <1>3, <1>4, <1>5

LEMMA HostTypes ==
    ASSUME HostInv
    PROVE  /\ millis \in Nat /\ Held \in Nat /\ Waiting \in Nat /\ ingress.left \in 0..Fanout
           /\ ingress.at \in Nat /\ telegrams \in Nat /\ telegrams * Fanout \in Nat
           /\ Fanout \in Nat \ {0} /\ Last \in Int
           /\ handle # NoHandle =>
                 handle \in Handle /\ handle.runtime \in Runtime /\ handle.runtime.last \in Nat
           /\ \A j \in 1..Held : Line[j].id \in Nat /\ Line[j].at \in Nat /\ Line[j] \in Items
<1>1. QueueInv /\ OrderInv
  BY DEF HostInv
<1>2. Held \in Nat /\ Waiting \in Nat
  BY <1>1, RingFacts
<1>3. /\ millis \in Nat /\ ingress.left \in 0..Fanout /\ ingress.at \in Nat /\ telegrams \in Nat
      /\ Fanout \in Nat \ {0} /\ MaxMillis \in Nat /\ MaxTelegrams \in Nat
  BY HostAssumption DEF HostInv, TypeOK
<1>4. telegrams * Fanout \in Nat /\ MaxTelegrams * Fanout \in Nat
  BY <1>3
<1>5. Last \in Int
  BY <1>3, <1>4 DEF Last
<1>6. handle # NoHandle =>
          handle \in Handle /\ handle.runtime \in Runtime /\ handle.runtime.last \in Nat
  BY DEF HostInv, TypeOK, Handle, Runtime
<1>7. \A j \in 1..Held : Line[j].id \in Nat /\ Line[j].at \in Nat /\ Line[j] \in Items
  <2>1. \A j \in 1..Held : Line[j] \in Event /\ Line[j] \in Items
    BY <1>1 DEF OrderInv, QueueInv
  <2> QED
    BY <1>3, <1>4, <2>1 DEF Event
<1> QED
  BY <1>2, <1>3, <1>4, <1>5, <1>6, <1>7

LEMMA OrderFrame ==
    ASSUME HostInv, Held' = Held, Line' = Line, pushing' = pushing, UNCHANGED busVars,
           millis' \in Nat, millis <= millis'
    PROVE  OrderInv'
<1>1. ingress' = ingress /\ telegrams' = telegrams
  BY DEF busVars
<1>2. Last' = Last
  BY <1>1 DEF Last
<1>3. OrderInv
  BY DEF HostInv
<1>4. /\ \A j \in 1..Held : Line[j].at \in Nat
      /\ millis \in Nat /\ ingress.at \in Nat
  BY HostTypes
<1>5. \A j \in 1..Held : Line[j] \in Event /\ Line[j].at <= millis' /\ Line[j].id <= Last
  BY <1>3, <1>4 DEF OrderInv
<1>6. ingress.left > 0 =>
          ingress.at <= millis' /\ telegrams > 0 /\ \A j \in 1..Held : Line[j].at <= ingress.at
  BY <1>3, <1>4 DEF OrderInv
<1> QED
  BY <1>1, <1>2, <1>3, <1>5, <1>6 DEF OrderInv

LEMMA OvertakenFrame ==
    ASSUME HostInv, Held' = Held, Line' = Line, UNCHANGED <<busVars, trace, handle>>,
           millis' \in Nat, millis <= millis'
    PROVE  OvertakenInv'
<1>1. ingress' = ingress /\ telegrams' = telegrams /\ trace' = trace /\ handle' = handle
  BY DEF busVars
<1>2. OvertakenInv
  BY DEF HostInv
<1>3. handle # NoHandle => handle.runtime.last <= millis'
  BY <1>2, HostTypes DEF OvertakenInv
<1> QED
  BY <1>1, <1>2, <1>3 DEF OvertakenInv

\* A step that touches neither the queues nor the runtime.
LEMMA AsideFrame ==
    ASSUME HostInv, UNCHANGED <<handle, busVars, queueVars, trace>>,
           millis' \in Nat, millis <= millis'
    PROVE  /\ QueueInv' /\ OrderInv' /\ OvertakenInv'
           /\ popping' = popping /\ pushing' = pushing
<1>1. QueueInv /\ UNCHANGED queueVars
  BY DEF HostInv
<1>2. /\ QueueInv' /\ Held' = Held /\ Line' = Line
      /\ popping' = popping /\ pushing' = pushing
  BY <1>1, QueueFrame
<1>3. OrderInv' /\ OvertakenInv'
  BY <1>2, OrderFrame, OvertakenFrame
<1> QED
  BY <1>2, <1>3

-----------------------------------------------------------------------------
\* Init, and the actions that leave the queue and the runtime alone

LEMMA InitHostInv ==
    ASSUME Init
    PROVE  HostInv
<1>1. /\ Word \in Nat \ {0} /\ Capacity \in Nat \ {0}
      /\ write = 0 /\ read = 0 /\ pushing = NoItem /\ popping = NoItem
      /\ slots = [i \in 0..(Capacity - 1) |-> NoItem]
  BY QueueAssumption DEF Init, QueueInit
<1>2. Waiting = 0
  <2>1. 0 \in 0..(Word - 1)
    BY <1>1
  <2>2. Distance(0, 0) = 0
    BY <2>1, DistanceSteps
  <2> QED
    BY <1>1, <2>2 DEF Waiting, Distance
<1>3. Held = 0
  BY <1>1, <1>2 DEF Held
<1>4. QueueInv
  BY <1>1, <1>2, <1>3 DEF QueueInv
<1>5. /\ trace = Fresh /\ handle = NoHandle /\ task = "none" /\ pc = "top" /\ mailbox = <<>>
      /\ inFlight = 0 /\ ingress = Idle /\ telegrams = 0 /\ millis = 0
      /\ boot \in {Setup(pending) : pending \in {"no", "deferred", "now"}}
  BY DEF Init
<1>6. OrderInv
  BY <1>1, <1>3, <1>5 DEF OrderInv, Idle
<1>7. OvertakenInv /\ RevisionInv
  BY <1>5 DEF OvertakenInv, RevisionInv, Fresh
<1>8. StartInv
  <2>1. PICK pending \in {"no", "deferred", "now"} : boot = Setup(pending)
    BY <1>5
  <2> QED
    BY <1>5, <2>1 DEF StartInv, Setup
<1>9. GateInv
  <2>1. Document(Created.runtime) \in [source : Sources, enabled : BOOLEAN]
    BY AbiAssumption DEF Document, Created
  <2>2. Fresh.named \in Seq([source : Sources, enabled : BOOLEAN])
    BY <2>1 DEF Fresh
  <2>3. Fresh \in Traces
    <3>1. {} \in SUBSET Nat /\ FALSE \in BOOLEAN /\ 0 \in 0..Threshold
      BY AbiAssumption
    <3> DEFINE named == <<Document(Created.runtime)>>
    <3>2. named \in Seq([source : Sources, enabled : BOOLEAN])
      BY <2>2 DEF Fresh
    <3>3. Fresh = [overtaken |-> {}, wronged |-> FALSE, named |-> named, streak |-> 0]
      BY DEF Fresh
    <3> HIDE DEF named
    <3> QED
      BY <3>1, <3>2, <3>3 DEF Traces
  <2> QED
    BY <1>1, <1>5, <2>3 DEF GateInv
<1>10. TypeOK
  <2>1. boot \in [status : {"idle", "starting", "initialized", "active", "failed"},
                  pending : {"no", "deferred", "now"}, failed : BOOLEAN, hook : BOOLEAN,
                  processor : {"disabled", "abi", "none"}]
    <3>1. PICK pending \in {"no", "deferred", "now"} : boot = Setup(pending)
      BY <1>5
    <3> QED
      BY <3>1 DEF Setup
  <2>2. ingress \in [at : 0..MaxMillis, left : 0..Fanout]
    BY <1>5, HostAssumption DEF Idle
  <2>3. mailbox \in Seq(Command) /\ Len(mailbox) <= Dynamic
    BY <1>5, HostAssumption
  <2>4. /\ millis \in 0..MaxMillis /\ popped \in 0..Slice /\ outputs \in 0..OutputCapacity
        /\ inFlight \in 0..Dynamic /\ telegrams \in 0..MaxTelegrams /\ edits \in 0..MaxEdits
    BY HostAssumption DEF Init
  <2>5. /\ task \in {"none", "running", "created", "unavailable", "done"}
        /\ handle \in Handle \cup {NoHandle} /\ current \in Command \cup {NoCommand}
        /\ pc \in {"top", "inputs", "tick", "drain", "manage", "handle"} /\ programming \in BOOLEAN
    BY Zenon DEF Init
  <2> QED
    BY <2>1, <2>2, <2>3, <2>4, <2>5 DEF TypeOK
<1> QED
  BY <1>4, <1>6, <1>7, <1>8, <1>9, <1>10 DEF HostInv

LEMMA RequestIsCommand ==
    ASSUME HostInv
    PROVE  Requests \subseteq Command
<1> SUFFICES ASSUME NEW c \in Requests PROVE c \in Command
  OBVIOUS
<1>1. handle.document_revision \in Nat
  BY DEF HostInv, TypeOK, Handle, NoHandle
<1>2. PICK name \in {"activate", "resume", "get"}, source \in Sources \cup {None},
           flag \in {None, "on", "off"}, n \in {Any} \cup 1..handle.document_revision :
         c = [op |-> name, source |-> source, enabled |-> flag,
              document_revision |-> n, block_revision |-> Any]
  BY DEF Requests
<1> QED
  BY <1>1, <1>2 DEF Command, Any

LEMMA AcceptPreserves ==
    ASSUME HostInv, Accept
    PROVE  HostInv'
<1>1. UNCHANGED <<millis, startVars, handle, loopVars, current, programming, busVars, queueVars, trace>>
  BY DEF Accept
<1>2. PICK c \in Requests : Admits(c) /\ mailbox' = Append(mailbox, c)
  BY DEF Accept
<1>3. /\ c \in Command /\ inFlight' = inFlight + 1 /\ edits' = edits + 1 /\ edits < MaxEdits
      /\ inFlight < Dynamic /\ Len(mailbox) < Dynamic
  BY <1>2, RequestIsCommand DEF Accept, Admits
<1>4. QueueInv' /\ OrderInv' /\ OvertakenInv' /\ popping' = popping
  BY <1>1, AsideFrame, HostTypes
<1>5. mailbox \in Seq(Command) /\ Dynamic \in Nat /\ MaxEdits \in Nat
  BY HostAssumption DEF HostInv, TypeOK
<1>6. mailbox' \in Seq(Command) /\ Len(mailbox') = Len(mailbox) + 1 /\ Len(mailbox) \in Nat
  BY <1>2, <1>3, <1>5
<1>7. TypeOK'
  BY <1>1, <1>3, <1>5, <1>6 DEF HostInv, TypeOK, startVars, loopVars, busVars
<1>8. GateInv'
  BY <1>1, <1>3, <1>4, <1>5, <1>6 DEF HostInv, GateInv, loopVars
<1>9. StartInv' /\ RevisionInv'
  BY <1>1 DEF HostInv, StartInv, RevisionInv, startVars, loopVars
<1> QED
  BY <1>4, <1>7, <1>8, <1>9 DEF HostInv

LEMMA SetProgrammingModePreserves ==
    ASSUME HostInv, SetProgrammingMode
    PROVE  HostInv'
<1>1. UNCHANGED <<millis, startVars, handle, loopVars, mailbox, current, inFlight, edits, busVars, queueVars, trace>>
  BY DEF SetProgrammingMode
<1>2. QueueInv' /\ OrderInv' /\ OvertakenInv' /\ popping' = popping
  BY <1>1, AsideFrame, HostTypes
<1>3. programming' \in BOOLEAN
  BY DEF SetProgrammingMode
<1>4. TypeOK'
  BY <1>1, <1>3 DEF HostInv, TypeOK, startVars, loopVars, busVars
<1>5. GateInv' /\ StartInv' /\ RevisionInv'
  BY <1>1, <1>2 DEF HostInv, GateInv, StartInv, RevisionInv, startVars, loopVars
<1> QED
  BY <1>2, <1>4, <1>5 DEF HostInv

LEMMA TimePassesPreserves ==
    ASSUME HostInv, TimePasses
    PROVE  HostInv'
<1>1. UNCHANGED <<startVars, handle, loopVars, webVars, busVars, queueVars, trace>>
  BY DEF TimePasses
<1>2. millis' \in 0..MaxMillis /\ millis' \in Nat /\ millis <= millis'
  BY HostAssumption DEF TimePasses, HostInv, TypeOK
<1>3. QueueInv' /\ OrderInv' /\ OvertakenInv' /\ popping' = popping
  BY <1>1, <1>2, AsideFrame
<1>4. TypeOK'
  BY <1>1, <1>2 DEF HostInv, TypeOK, startVars, loopVars, webVars, busVars
<1>5. GateInv' /\ StartInv' /\ RevisionInv'
  BY <1>1, <1>3 DEF HostInv, GateInv, StartInv, RevisionInv, startVars, loopVars, webVars
<1> QED
  BY <1>3, <1>4, <1>5 DEF HostInv

LEMMA ManagePopsPreserves ==
    ASSUME HostInv, ManagePops
    PROVE  HostInv'
<1>1. UNCHANGED <<millis, startVars, handle, popped, outputs, inFlight, programming, edits, busVars, queueVars, trace>>
  BY DEF ManagePops
<1>2. QueueInv' /\ OrderInv' /\ OvertakenInv' /\ popping' = popping
  BY <1>1, AsideFrame, HostTypes
<1>3. /\ pc = "manage" /\ mailbox \in Seq(Command) /\ Len(mailbox) <= Dynamic /\ Dynamic \in Nat
      /\ inFlight = Len(mailbox) /\ popping = NoItem
  BY HostAssumption DEF ManagePops, HostInv, TypeOK, GateInv
<1>4. /\ mailbox' \in Seq(Command) /\ Len(mailbox') <= Dynamic
      /\ pc' \in {"top", "handle"} /\ inFlight = Len(mailbox') + (IF pc' = "handle" THEN 1 ELSE 0)
      /\ current' \in {current} \cup Command /\ (pc' = "handle" => current' \in Command)
  <2>1. CASE mailbox = <<>>
    BY <1>3, <2>1 DEF ManagePops
  <2>2. CASE mailbox # <<>>
    <3>1. pc' = "handle" /\ current' = Head(mailbox) /\ mailbox' = Tail(mailbox)
      BY <2>2 DEF ManagePops
    <3>2. /\ Head(mailbox) \in Command /\ Tail(mailbox) \in Seq(Command)
          /\ Len(Tail(mailbox)) = Len(mailbox) - 1 /\ Len(mailbox) \in Nat
      BY <1>3, <2>2
    <3> QED
      BY <1>3, <3>1, <3>2
  <2> QED
    BY <2>1, <2>2
<1>5. TypeOK'
  BY <1>1, <1>4 DEF HostInv, TypeOK, startVars, busVars
<1>6. GateInv'
  BY <1>1, <1>2, <1>3, <1>4 DEF HostInv, GateInv
<1>7. StartInv' /\ RevisionInv'
  BY <1>1, <1>3, <1>4 DEF HostInv, StartInv, RevisionInv, startVars
<1> QED
  BY <1>2, <1>5, <1>6, <1>7 DEF HostInv

LEMMA InputsDonePreserves ==
    ASSUME HostInv, InputsDone
    PROVE  HostInv'
<1>1. /\ UNCHANGED <<millis, startVars, handle, popped, outputs, webVars, busVars, queueVars, trace>>
      /\ pc = "inputs" /\ pc' = "tick" /\ popping = NoItem
  BY DEF InputsDone
<1>2. QueueInv' /\ OrderInv' /\ OvertakenInv' /\ popping' = popping
  BY <1>1, AsideFrame, HostTypes
<1>3. TypeOK'
  BY <1>1 DEF HostInv, TypeOK, startVars, webVars, busVars
<1>4. GateInv' /\ StartInv' /\ RevisionInv'
  BY <1>1, <1>2 DEF HostInv, GateInv, StartInv, RevisionInv, startVars, webVars
<1> QED
  BY <1>2, <1>3, <1>4 DEF HostInv

LEMMA DrainOutputsPreserves ==
    ASSUME HostInv, DrainOutputs
    PROVE  HostInv'
<1>1. /\ UNCHANGED <<millis, startVars, handle, popped, webVars, busVars, queueVars, trace>>
      /\ pc = "drain" /\ pc' = "manage"
  BY DEF DrainOutputs
<1>2. QueueInv' /\ OrderInv' /\ OvertakenInv' /\ popping' = popping
  BY <1>1, AsideFrame, HostTypes
<1>3. outputs' \in 0..OutputCapacity
  BY HostAssumption DEF DrainOutputs, HostInv, TypeOK
<1>4. TypeOK'
  BY <1>1, <1>3 DEF HostInv, TypeOK, startVars, webVars, busVars
<1>5. GateInv' /\ StartInv' /\ RevisionInv'
  BY <1>1, <1>2 DEF HostInv, GateInv, StartInv, RevisionInv, startVars, webVars
<1> QED
  BY <1>2, <1>4, <1>5 DEF HostInv

-----------------------------------------------------------------------------
\* Starting and stopping the runtime

LEMMA OtaBeginsPreserves ==
    ASSUME HostInv, OtaBegins
    PROVE  HostInv'
<1>1. /\ UNCHANGED <<millis, task, handle, loopVars, webVars, busVars, queueVars, trace>>
      /\ boot.pending = "deferred" /\ boot' = [boot EXCEPT !.pending = "now"]
  BY DEF OtaBegins
<1>2. QueueInv' /\ OrderInv' /\ OvertakenInv' /\ popping' = popping
  BY <1>1, AsideFrame, HostTypes
<1>3. TypeOK'
  BY <1>1 DEF HostInv, TypeOK, loopVars, webVars, busVars
<1>4. GateInv' /\ RevisionInv'
  BY <1>1, <1>2 DEF HostInv, GateInv, RevisionInv, loopVars, webVars
<1>5. StartInv'
  BY <1>1 DEF HostInv, TypeOK, StartInv, loopVars
<1> QED
  BY <1>2, <1>3, <1>4, <1>5 DEF HostInv

LEMMA StartRuntimePreserves ==
    ASSUME HostInv, StartRuntime
    PROVE  HostInv'
<1>1. /\ UNCHANGED <<millis, handle, loopVars, webVars, busVars, queueVars, trace>>
      /\ pc = "top" /\ boot.pending # "no"
  BY DEF StartRuntime, Starting
<1>2. PICK at \in {"starting", "failed"} :
         boot' = [boot EXCEPT !.pending = "no", !.status = at] /\
         task' = IF at = "starting" THEN "running" ELSE task
  BY DEF StartRuntime
<1>3. QueueInv' /\ OrderInv' /\ OvertakenInv' /\ popping' = popping
  BY <1>1, AsideFrame, HostTypes
<1>4. task = "none" /\ boot.status = "idle"
  BY <1>1 DEF HostInv, StartInv
<1>5. TypeOK'
  BY <1>1, <1>2 DEF HostInv, TypeOK, loopVars, webVars, busVars
<1>6. GateInv'
  BY <1>1, <1>3 DEF HostInv, GateInv, loopVars, webVars
<1>7. RevisionInv'
  BY <1>1, <1>4 DEF HostInv, RevisionInv
<1>8. StartInv'
  BY <1>1, <1>2, <1>4 DEF HostInv, TypeOK, StartInv, loopVars
<1> QED
  BY <1>3, <1>5, <1>6, <1>7, <1>8 DEF HostInv

LEMMA CreatedHandle ==
    /\ Created \in Handle /\ Created # NoHandle
    /\ Created.document_revision = 1 /\ Created.runtime.last = 0
    /\ Fresh.named[1] = Document(Created.runtime) /\ Len(Fresh.named) = 1
<1>1. /\ {} \in SUBSET [name : Timers, due : Nat] /\ 0 \in 0..Threshold /\ "Active" \in Health
      /\ BuiltIn \in Sources /\ TRUE \in BOOLEAN /\ 0 \in Nat
  BY AbiAssumption DEF Health
<1>2. Created.runtime \in Runtime
  BY <1>1 DEF Created, Runtime
<1>3. Created.document_revision = 1 /\ Created.runtime.last = 0
  BY DEF Created
<1>4. Created \in Handle
  <2>1. Created = [runtime |-> Created.runtime, document_revision |-> 1]
    BY DEF Created
  <2> QED
    BY <1>2, <2>1 DEF Handle
<1>5. Created # NoHandle
  BY <1>3 DEF NoHandle
<1>6. Fresh.named[1] = Document(Created.runtime) /\ Len(Fresh.named) = 1
  BY DEF Fresh
<1> QED
  BY <1>3, <1>4, <1>5, <1>6

LEMMA TaskCreatesPreserves ==
    ASSUME HostInv, TaskCreates
    PROVE  HostInv'
<1>1. /\ UNCHANGED <<millis, boot, loopVars, webVars, busVars, queueVars, trace>>
      /\ task = "running"
      /\ \/ handle' = Created /\ task' = "created"
         \/ handle' = handle /\ task' = "unavailable"
  BY DEF TaskCreates
<1>2. /\ QueueInv' /\ Held' = Held /\ Line' = Line /\ pushing' = pushing /\ popping' = popping
  BY <1>1, QueueFrame DEF HostInv
<1>3. OrderInv'
  BY <1>1, <1>2, OrderFrame, HostTypes
<1>4. OvertakenInv'
  <2>1. CASE handle' = handle
    BY <1>1, <1>2, <2>1, OvertakenFrame, HostTypes
  <2>2. CASE handle' = Created
    <3>1. millis' = millis /\ millis \in Nat /\ ingress' = ingress /\ trace' = trace
          /\ ingress.at \in Nat
      BY <1>1, HostTypes DEF busVars
    <3>2. ~trace.wronged
      BY DEF HostInv, OvertakenInv
    <3>3. \A j \in 1..Held : ~(Line[j].at < 0)
      BY HostTypes
    <3> QED
      BY <1>2, <2>2, <3>1, <3>2, <3>3, CreatedHandle DEF OvertakenInv
  <2> QED
    BY <1>1, <2>1, <2>2
<1>5. TypeOK'
  BY <1>1, CreatedHandle DEF HostInv, TypeOK, loopVars, webVars, busVars
<1>6. GateInv'
  BY <1>1, <1>2 DEF HostInv, GateInv, loopVars, webVars
<1>7. RevisionInv'
  <2>1. trace' = trace /\ trace.named = Fresh.named
    BY <1>1 DEF HostInv, RevisionInv
  <2>2. CASE handle' = handle
    BY <1>1, <2>1, <2>2 DEF HostInv, RevisionInv
  <2>3. CASE handle' = Created
    BY <2>1, <2>3, CreatedHandle DEF RevisionInv
  <2> QED
    BY <1>1, <2>2, <2>3
<1>8. StartInv'
  BY <1>1, CreatedHandle DEF HostInv, TypeOK, StartInv, loopVars
<1> QED
  BY <1>2, <1>3, <1>4, <1>5, <1>6, <1>7, <1>8 DEF HostInv

LEMMA TaskEndsPreserves ==
    ASSUME HostInv, TaskEnds
    PROVE  HostInv'
<1>1. /\ UNCHANGED <<millis, handle, loopVars, webVars, busVars, queueVars, trace>>
      /\ task \in {"created", "unavailable"} /\ task' = "done"
  BY DEF TaskEnds
<1>2. PICK at \in {"initialized", "failed"} :
         boot' = [boot EXCEPT !.status = at] /\ (at = "initialized" => task = "created")
  BY DEF TaskEnds
<1>3. QueueInv' /\ OrderInv' /\ OvertakenInv' /\ popping' = popping
  BY <1>1, AsideFrame, HostTypes
<1>4. boot.status = "starting" /\ boot.pending = "no"
  BY <1>1 DEF HostInv, TypeOK, StartInv
<1>5. TypeOK'
  BY <1>1, <1>2 DEF HostInv, TypeOK, loopVars, webVars, busVars
<1>6. GateInv' /\ RevisionInv'
  BY <1>1, <1>3 DEF HostInv, GateInv, RevisionInv, loopVars, webVars
<1>7. StartInv'
  BY <1>1, <1>2, <1>4 DEF HostInv, TypeOK, StartInv, loopVars
<1> QED
  BY <1>3, <1>5, <1>6, <1>7 DEF HostInv

LEMMA LoopBeginsPreserves ==
    ASSUME HostInv, LoopBegins
    PROVE  HostInv'
<1>1. /\ UNCHANGED <<millis, task, handle, outputs, webVars, busVars, queueVars, trace>>
      /\ pc = "top" /\ boot.pending # "now" /\ boot' = StatusSeen(boot) /\ popped' = 0
      /\ pc' = IF boot'.status = "active" /\ ~boot'.failed THEN "inputs" ELSE "top"
  BY DEF LoopBegins, Starting
<1>2. QueueInv' /\ OrderInv' /\ OvertakenInv' /\ popping' = popping
  BY <1>1, AsideFrame, HostTypes
<1>3. boot \in [status : {"idle", "starting", "initialized", "active", "failed"},
                pending : {"no", "deferred", "now"}, failed : BOOLEAN, hook : BOOLEAN,
                processor : {"disabled", "abi", "none"}]
  BY DEF HostInv, TypeOK
<1>4. /\ boot' \in [status : {"idle", "starting", "initialized", "active", "failed"},
                    pending : {"no", "deferred", "now"}, failed : BOOLEAN, hook : BOOLEAN,
                    processor : {"disabled", "abi", "none"}]
      /\ boot'.pending = boot.pending
      /\ boot.status = "initialized" => boot'.status = "active" /\ boot'.failed = boot.failed
      /\ boot.status = "failed" => boot'.status = "active" /\ boot'.failed
      /\ boot.status \notin {"initialized", "failed"} => boot' = boot
  BY <1>1, <1>3 DEF StatusSeen
<1>5. TypeOK'
  BY <1>1, <1>4, HostAssumption DEF HostInv, TypeOK, webVars, busVars
<1>6. popping' = NoItem
  BY <1>1, <1>2 DEF HostInv, GateInv
<1>7. GateInv' /\ RevisionInv'
  BY <1>1, <1>6 DEF HostInv, GateInv, RevisionInv, webVars
<1>8. StartInv'
  BY <1>1, <1>3, <1>4 DEF HostInv, StartInv
<1> QED
  BY <1>2, <1>5, <1>7, <1>8 DEF HostInv

LEMMA BeforeRestartPreserves ==
    ASSUME HostInv, BeforeRestart
    PROVE  HostInv'
<1>1. /\ UNCHANGED <<millis, task, loopVars, webVars, busVars, queueVars, trace>>
      /\ pc = "top" /\ handle' = NoHandle
      /\ boot' = [boot EXCEPT !.processor = "none", !.failed = TRUE]
  BY DEF BeforeRestart
<1>2. /\ QueueInv' /\ Held' = Held /\ Line' = Line /\ pushing' = pushing /\ popping' = popping
  BY <1>1, QueueFrame DEF HostInv
<1>3. OrderInv'
  BY <1>1, <1>2, OrderFrame, HostTypes
<1>4. OvertakenInv' /\ RevisionInv'
  BY <1>1 DEF HostInv, OvertakenInv, RevisionInv
<1>5. TypeOK'
  BY <1>1 DEF HostInv, TypeOK, loopVars, webVars, busVars
<1>6. GateInv'
  BY <1>1, <1>2 DEF HostInv, GateInv, loopVars, webVars
<1>7. StartInv'
  BY <1>1 DEF HostInv, TypeOK, StartInv, loopVars
<1> QED
  BY <1>2, <1>3, <1>4, <1>5, <1>6, <1>7 DEF HostInv

-----------------------------------------------------------------------------
\* The observer

\* The numbers of a telegram's events follow those of the telegram before it.
LEMMA Numbering ==
    ASSUME NEW n \in Nat, NEW m \in Nat, NEW f \in Nat
    PROVE  /\ (n + 1) * f = n * f + f /\ (n > 0 => (n - 1) * f + f = n * f)
           /\ (n > 0 => f <= n * f) /\ (n <= m => n * f <= m * f)
<1>1. n * f \in Nat /\ m * f \in Nat
  OBVIOUS
<1>2. (n + 1) * f = n * f + f
  OBVIOUS
<1>3. n > 0 => (n - 1) * f + f = n * f
  OBVIOUS
<1>4. n > 0 => f <= n * f
  <2>1. SUFFICES ASSUME n > 0 PROVE f <= n * f
    OBVIOUS
  <2>2. n - 1 \in Nat
    BY <2>1
  <2>3. (n - 1) * f \in Nat
    BY <2>2
  <2> QED
    BY <1>1, <1>3, <2>1, <2>3
<1>5. n <= m => n * f <= m * f
  <2>1. SUFFICES ASSUME n <= m PROVE n * f <= m * f
    OBVIOUS
  <2>2. PICK d \in Nat : m = n + d
    <3>1. m - n \in Nat /\ m = n + (m - n)
      BY <2>1
    <3> QED
      BY <3>1
  <2>3. m * f = n * f + d * f /\ d * f \in Nat
    BY <2>2
  <2> QED
    BY <1>1, <2>3
<1> QED
  BY <1>2, <1>3, <1>4, <1>5

LEMMA ArrivingNumber ==
    ASSUME HostInv, ingress.left > 0
    PROVE  /\ Arriving = telegrams * Fanout - ingress.left + 1
           /\ Arriving \in 1..(MaxTelegrams * Fanout)
           /\ [id |-> Arriving, at |-> ingress.at] \in Event
           /\ [id |-> Arriving, at |-> ingress.at] \in Items
<1>1. /\ ingress.left \in 0..Fanout /\ telegrams \in Nat /\ telegrams * Fanout \in Nat
      /\ Fanout \in Nat /\ telegrams > 0
  BY HostTypes DEF HostInv, OrderInv
<1>2. telegrams <= MaxTelegrams /\ MaxTelegrams \in Nat /\ ingress.at \in 0..MaxMillis
  BY HostAssumption DEF HostInv, TypeOK
<1>3. /\ (telegrams - 1) * Fanout + Fanout = telegrams * Fanout
      /\ Fanout <= telegrams * Fanout /\ telegrams * Fanout <= MaxTelegrams * Fanout
  BY <1>1, <1>2, Numbering
<1>4. MaxTelegrams * Fanout \in Nat
  BY <1>1, <1>2
<1>5. Arriving = telegrams * Fanout - ingress.left + 1
  BY <1>1, <1>3 DEF Arriving
<1>6. Arriving \in 1..(MaxTelegrams * Fanout)
  BY <1>1, <1>3, <1>4, <1>5
<1>7. [id |-> Arriving, at |-> ingress.at] \in Event
  BY <1>2, <1>6 DEF Event
<1>8. Event \subseteq Items
  BY HostAssumption DEF Event
<1> QED
  BY <1>5, <1>6, <1>7, <1>8

LEMMA TelegramArrivesPreserves ==
    ASSUME HostInv, TelegramArrives
    PROVE  HostInv'
<1>1. /\ UNCHANGED <<millis, startVars, handle, loopVars, webVars, queueVars, trace>>
      /\ ingress.left = 0 /\ telegrams < MaxTelegrams
      /\ ingress' = [at |-> millis, left |-> Fanout] /\ telegrams' = telegrams + 1
  BY DEF TelegramArrives
<1>2. /\ QueueInv' /\ Held' = Held /\ Line' = Line /\ pushing' = pushing /\ popping' = popping
  BY <1>1, QueueFrame DEF HostInv
<1>3. /\ millis \in Nat /\ telegrams \in Nat /\ telegrams * Fanout \in Nat /\ Fanout \in Nat \ {0}
      /\ millis \in 0..MaxMillis /\ MaxTelegrams \in Nat
  BY HostTypes, HostAssumption DEF HostInv, TypeOK
<1>4. pushing = NoItem
  BY <1>1 DEF HostInv, OrderInv
<1>5. telegrams' * Fanout = telegrams * Fanout + Fanout
  BY <1>1, <1>3, Numbering
<1>6. Last' = Last
  BY <1>1, <1>2, <1>3, <1>4, <1>5 DEF Last
<1>7. OrderInv'
  BY <1>1, <1>2, <1>3, <1>4, <1>6 DEF HostInv, OrderInv
<1>8. OvertakenInv'
  <2>1. ~(handle # NoHandle /\ ingress'.at < handle.runtime.last)
    BY <1>1, HostTypes DEF HostInv, OvertakenInv
  <2> QED
    BY <1>1, <1>2, <2>1 DEF HostInv, OvertakenInv
<1>9. TypeOK'
  BY <1>1, <1>3 DEF HostInv, TypeOK, startVars, loopVars, webVars
<1>10. GateInv' /\ StartInv' /\ RevisionInv'
  BY <1>1, <1>2 DEF HostInv, GateInv, StartInv, RevisionInv, startVars, loopVars, webVars
<1> QED
  BY <1>2, <1>7, <1>8, <1>9, <1>10 DEF HostInv

\* The last event of a telegram, or the ones a full queue drops.
LEMMA TelegramEnds ==
    ASSUME HostInv, Held' = Held, Line' = Line, pushing' = NoItem, telegrams' = telegrams,
           millis' = millis, ingress' = Idle, handle' = handle, trace' = trace
    PROVE  OrderInv' /\ OvertakenInv'
<1>1. /\ telegrams * Fanout \in Nat /\ ingress.left \in 0..Fanout /\ Last \in Int
      /\ \A j \in 1..Held : Line[j].id \in Nat
  BY HostTypes
<1>2. pushing # NoItem => ingress.left > 0
  BY DEF HostInv, OrderInv
<1>3. Last' = telegrams * Fanout
  BY <1>1 DEF Last, Idle
<1>4. Last <= Last' /\ Last' \in Int
  BY <1>1, <1>2, <1>3 DEF Last
<1>5. \A j \in 1..Held : Line[j].id <= Last'
  BY <1>1, <1>4 DEF HostInv, OrderInv
<1>6. OrderInv'
  BY <1>5 DEF HostInv, OrderInv, Idle
<1>7. OvertakenInv'
  BY DEF HostInv, OvertakenInv, Idle
<1> QED
  BY <1>6, <1>7

LEMMA IngestPreserves ==
    ASSUME HostInv, Ingest
    PROVE  HostInv'
<1> DEFINE item == [id |-> Arriving, at |-> ingress.at]
<1>1. /\ UNCHANGED <<millis, startVars, handle, loopVars, webVars, telegrams, trace>>
      /\ ingress.left > 0 /\ pushing = NoItem
  BY DEF Ingest
<1>2. /\ Arriving = telegrams * Fanout - ingress.left + 1 /\ item \in Event /\ item \in Items
  BY <1>1, ArrivingNumber
<1>3. CASE IsFull /\ ingress' = Idle /\ UNCHANGED queueVars
  <2>1. /\ QueueInv' /\ Held' = Held /\ Line' = Line /\ pushing' = pushing /\ popping' = popping
    BY <1>3, QueueFrame DEF HostInv
  <2>2. OrderInv' /\ OvertakenInv'
    BY <1>1, <1>3, <2>1, TelegramEnds
  <2>3. ingress' \in [at : 0..MaxMillis, left : 0..Fanout]
    BY <1>3, HostAssumption DEF Idle
  <2>4. TypeOK'
    BY <1>1, <2>3 DEF HostInv, TypeOK, startVars, loopVars, webVars
  <2>5. GateInv' /\ StartInv' /\ RevisionInv'
    BY <1>1, <2>1 DEF HostInv, GateInv, StartInv, RevisionInv, startVars, loopVars, webVars
  <2> QED
    BY <2>1, <2>2, <2>4, <2>5 DEF HostInv
<1>4. CASE PushCopies(item) /\ UNCHANGED ingress
  <2> HIDE DEF item
  <2>1. /\ QueueInv' /\ Held' = Held + 1
        /\ \A j \in 1..Held : Line'[j] = Line[j]
        /\ Line'[Held + 1] = item
    BY <1>2, <1>4, PushCopiesLine DEF HostInv
  <2>2. pushing' = item /\ item # NoItem /\ popping' = popping /\ ingress' = ingress
        /\ item.id = Arriving /\ item.at = ingress.at
    BY <1>2, <1>4, QueueAssumption DEF PushCopies, item
  <2>3. /\ Held \in Nat /\ telegrams * Fanout \in Nat /\ ingress.left \in 0..Fanout
        /\ millis \in Nat /\ ingress.at \in Nat /\ Last \in Int
        /\ \A j \in 1..Held : Line[j].id \in Nat /\ Line[j].at \in Nat
    BY HostTypes
  <2>4. Last' = Arriving /\ Last = Arriving - 1
    BY <1>1, <1>2, <2>2, <2>3 DEF Last
  <2>5. ASSUME NEW j \in 1..Held' PROVE j \in 1..Held \/ j = Held + 1
    BY <2>1, <2>3
  <2>6. /\ \A j \in 1..Held : Line[j] \in Event /\ Line[j].at <= millis /\ Line[j].id < Arriving
        /\ \A j \in 1..Held : Line[j].at <= ingress.at
        /\ ingress.at <= millis /\ telegrams > 0
    <3>1. Arriving \in Int /\ (\A k \in Int : k <= Last => k < Arriving)
      BY <1>2, <2>3, <2>4
    <3>2. /\ \A j \in 1..Held : Line[j] \in Event /\ Line[j].at <= millis /\ Line[j].id <= Last
          /\ \A j \in 1..Held : Line[j].at <= ingress.at
          /\ ingress.at <= millis /\ telegrams > 0
      BY <1>1 DEF HostInv, OrderInv
    <3> QED
      BY <2>3, <3>1, <3>2
  <2>7. OrderInv'
    <3>1. \A j \in 1..Held' : Line'[j] \in Event /\ Line'[j].at <= millis /\ Line'[j].id <= Last'
      BY <1>2, <2>1, <2>2, <2>3, <2>4, <2>5, <2>6
    <3>2. \A i, j \in 1..Held' :
              i < j => Line'[i].id < Line'[j].id /\ Line'[i].at <= Line'[j].at
      <4> SUFFICES ASSUME NEW i \in 1..Held', NEW j \in 1..Held', i < j
                   PROVE  Line'[i].id < Line'[j].id /\ Line'[i].at <= Line'[j].at
        OBVIOUS
      <4>1. i \in 1..Held /\ Line'[i] = Line[i]
        BY <2>1, <2>3
      <4>2. CASE j \in 1..Held
        BY <2>1, <4>1, <4>2 DEF HostInv, OrderInv
      <4>3. CASE j = Held + 1
        BY <2>1, <2>2, <2>6, <4>1, <4>3
      <4> QED
        BY <2>5, <4>2, <4>3
    <3>3. \A j \in 1..Held' : Line'[j].at <= ingress.at
      BY <2>1, <2>2, <2>3, <2>5, <2>6
    <3>4. pushing' = [id |-> Last', at |-> ingress.at]
      BY <2>2, <2>4 DEF item
    <3> QED
      BY <1>1, <2>2, <2>6, <3>1, <3>2, <3>3, <3>4 DEF OrderInv
  <2>8. OvertakenInv'
    <3>1. handle' = handle /\ trace' = trace /\ millis' = millis /\ telegrams' = telegrams
      BY <1>1
    <3>2. ASSUME handle # NoHandle, NEW j \in 1..Held', Line'[j].at < handle.runtime.last
          PROVE  Line'[j].id \in trace.overtaken
      <4>1. CASE j \in 1..Held
        BY <2>1, <3>2, <4>1 DEF HostInv, OvertakenInv
      <4>2. CASE j = Held + 1
        <5>1. Line'[j] = item /\ ingress.at < handle.runtime.last
          BY <2>1, <2>2, <3>2, <4>2
        <5>2. \A n \in (telegrams * Fanout - ingress.left + 1)..(telegrams * Fanout) :
                  n \in trace.overtaken
          BY <1>1, <3>2, <5>1 DEF HostInv, OvertakenInv
        <5>3. Arriving \in (telegrams * Fanout - ingress.left + 1)..(telegrams * Fanout)
          BY <1>1, <1>2, <2>3
        <5> QED
          BY <2>2, <5>1, <5>2, <5>3
      <4> QED
        BY <2>5, <4>1, <4>2
    <3> QED
      BY <2>2, <3>1, <3>2 DEF HostInv, OvertakenInv
  <2>9. TypeOK'
    BY <1>1, <2>2 DEF HostInv, TypeOK, startVars, loopVars, webVars
  <2>10. GateInv' /\ StartInv' /\ RevisionInv'
    BY <1>1, <2>2 DEF HostInv, GateInv, StartInv, RevisionInv, startVars, loopVars, webVars
  <2> QED
    BY <2>1, <2>7, <2>8, <2>9, <2>10 DEF HostInv
<1> QED
  BY <1>3, <1>4 DEF Ingest

LEMMA IngestedPreserves ==
    ASSUME HostInv, Ingested
    PROVE  HostInv'
<1>1. /\ UNCHANGED <<millis, startVars, handle, loopVars, webVars, telegrams, trace>>
      /\ PushPublishes
      /\ ingress' = IF ingress.left = 1 THEN Idle ELSE [ingress EXCEPT !.left = @ - 1]
  BY DEF Ingested
<1>2. /\ QueueInv' /\ Held' = Held /\ Line' = Line
      /\ pushing # NoItem /\ pushing' = NoItem /\ popping' = popping
  BY <1>1, PushPublishesLine DEF HostInv, PushPublishes
<1>3. /\ ingress.left > 0 /\ ingress.left \in 0..Fanout /\ telegrams * Fanout \in Nat
      /\ ingress \in [at : 0..MaxMillis, left : 0..Fanout] /\ Fanout \in Nat
  BY <1>2, HostTypes DEF HostInv, OrderInv, TypeOK
<1>4. ingress' \in [at : 0..MaxMillis, left : 0..Fanout]
  BY <1>1, <1>3, HostAssumption DEF Idle
<1>5. OrderInv' /\ OvertakenInv'
  <2>1. CASE ingress.left = 1
    BY <1>1, <1>2, <2>1, TelegramEnds
  <2>2. CASE ingress.left # 1
    <3>1. ingress'.left = ingress.left - 1 /\ ingress'.at = ingress.at
      BY <1>1, <1>3, <2>2
    <3>2. Last' = Last
      BY <1>1, <1>2, <1>3, <3>1 DEF Last
    <3>3. OrderInv'
      BY <1>1, <1>2, <1>3, <3>1, <3>2 DEF HostInv, OrderInv
    <3>4. \A n \in (telegrams * Fanout - ingress'.left + 1)..(telegrams * Fanout) :
              n \in (telegrams * Fanout - ingress.left + 1)..(telegrams * Fanout)
      BY <1>3, <3>1
    <3>5. OvertakenInv'
      BY <1>1, <1>2, <1>3, <3>1, <3>4 DEF HostInv, OvertakenInv
    <3> QED
      BY <3>3, <3>5
  <2> QED
    BY <2>1, <2>2
<1>6. TypeOK'
  BY <1>1, <1>4 DEF HostInv, TypeOK, startVars, loopVars, webVars
<1>7. GateInv' /\ StartInv' /\ RevisionInv'
  BY <1>1, <1>2 DEF HostInv, GateInv, StartInv, RevisionInv, startVars, loopVars, webVars
<1> QED
  BY <1>2, <1>5, <1>6, <1>7 DEF HostInv

-----------------------------------------------------------------------------
\* The loop's slices

LEMMA PopInputPreserves ==
    ASSUME HostInv, PopInput
    PROVE  HostInv'
<1>1. /\ UNCHANGED <<millis, startVars, handle, loopVars, webVars, busVars, trace>>
      /\ pc = "inputs" /\ popped < Slice /\ PopCopies
  BY DEF PopInput
<1>2. QueueInv' /\ Held' = Held /\ Line' = Line /\ pushing' = pushing
  BY <1>1, PopCopiesLine DEF HostInv, PopCopies
<1>3. OrderInv' /\ OvertakenInv'
  BY <1>1, <1>2, OrderFrame, OvertakenFrame, HostTypes
<1>4. TypeOK'
  BY <1>1 DEF HostInv, TypeOK, startVars, loopVars, webVars, busVars
<1>5. GateInv' /\ StartInv' /\ RevisionInv'
  BY <1>1 DEF HostInv, GateInv, StartInv, RevisionInv, startVars, loopVars, webVars
<1> QED
  BY <1>2, <1>3, <1>4, <1>5 DEF HostInv

\* While a slice runs, the runtime is there and belongs to the loop.
LEMMA LoopHasRuntime ==
    ASSUME HostInv, pc # "top"
    PROVE  handle # NoHandle /\ handle \in Handle /\ task = "done" /\ handle.document_revision > 0
  BY DEF HostInv, StartInv, TypeOK, RevisionInv

LEMMA TracedKeeps ==
    ASSUME NEW t \in Traces, NEW r
    PROVE  /\ Traced(t, r) \in Traces /\ Traced(t, r).overtaken = t.overtaken
           /\ Traced(t, r).wronged = t.wronged /\ Traced(t, r).named = t.named
<1> DEFINE streak == IF r.status = "LogicError"
                     THEN (IF t.streak < Threshold THEN t.streak + 1 ELSE t.streak)
                     ELSE IF r.status = "Ok" /\ r.handle.runtime.failures = 0 THEN 0
                     ELSE t.streak
<1>1. t.streak \in 0..Threshold /\ Threshold \in Nat
  BY AbiAssumption DEF Traces
<1>2. streak \in 0..Threshold
  BY <1>1
<1>3. Traced(t, r) = [t EXCEPT !.streak = streak]
  BY DEF Traced, Traces
<1> HIDE DEF streak
<1> QED
  BY <1>2, <1>3 DEF Traces

\* A call keeps what the invariant says of the revisions.
LEMMA CallRevision ==
    ASSUME HostInv, pc # "top", NEW now, NEW r, Called(handle, now, r), handle' = r.handle,
           trace'.named = trace.named, task' = task
    PROVE  RevisionInv' /\ handle' \in Handle /\ handle' # NoHandle
<1>1. handle # NoHandle /\ handle.document_revision > 0 /\ handle \in Handle
  BY LoopHasRuntime
<1>2. /\ handle' \in Handle /\ handle'.document_revision = handle.document_revision
      /\ Document(handle'.runtime) = Document(handle.runtime)
  BY DEF Called
<1>3. handle' # NoHandle
  BY <1>1, <1>2 DEF NoHandle, Handle
<1>4. /\ task # "done" => trace.named = Fresh.named
      /\ Len(trace.named) = handle.document_revision
      /\ trace.named[handle.document_revision] = Document(handle.runtime)
  BY <1>1 DEF HostInv, RevisionInv
<1>5. RevisionInv'
  BY <1>1, <1>2, <1>4 DEF RevisionInv
<1> QED
  BY <1>2, <1>3, <1>5

LEMMA EnqueuedFits ==
    ASSUME NEW queued \in 0..OutputCapacity, NEW n \in Nat
    PROVE  Enqueued(queued, n) \in 0..OutputCapacity
  BY HostAssumption DEF Enqueued

LEMMA ProcessInputPreserves ==
    ASSUME HostInv, ProcessInput
    PROVE  HostInv'
<1>1. /\ UNCHANGED <<millis, startVars, pc, webVars, busVars>>
      /\ pc = "inputs" /\ PopReleases /\ popped' = popped + 1
  BY DEF ProcessInput
<1>2. PICK r \in logiksmith_runtime_process_input(handle, popping.at, EffectCapacity) :
         /\ handle' = r.handle
         /\ \E n \in Routed(r.effects) : outputs' = Enqueued(outputs, n)
         /\ trace' = [Traced(trace, r) EXCEPT
                         !.overtaken = @ \ {popping.id},
                         !.wronged = @ \/ /\ r.status = "TimeWentBackwards"
                                          /\ popping.id \notin trace.overtaken]
  BY DEF ProcessInput
<1>3. /\ QueueInv' /\ Waiting' = Waiting - 1 /\ Held' = Held - 1 /\ Held > 0 /\ Waiting > 0
      /\ \A j \in 1..Held' : Line'[j] = Line[j + 1]
      /\ popping # NoItem /\ popping = Line[1] /\ popping' = NoItem /\ pushing' = pushing
  BY <1>1, PopReleasesLine DEF HostInv, QueueInv
<1>4. /\ millis \in Nat /\ Held \in Nat /\ Waiting \in Nat /\ ingress.left \in 0..Fanout
      /\ ingress.at \in Nat /\ telegrams * Fanout \in Nat /\ Last \in Int
      /\ \A j \in 1..Held : Line[j].id \in Nat /\ Line[j].at \in Nat
  BY HostTypes
<1>5. 1 \in 1..Held /\ \A j \in 1..Held' : j \in 1..Held /\ j + 1 \in 1..Held /\ 1 < j + 1
  BY <1>3, <1>4
<1>6. /\ popping.at \in Nat /\ popping.id \in Nat /\ popping.at <= millis /\ popping.id <= Last
  BY <1>3, <1>4, <1>5 DEF HostInv, OrderInv
<1>7. handle # NoHandle /\ handle \in Handle
  BY <1>1, LoopHasRuntime
<1>8. Called(handle, popping.at, r)
  BY <1>2, <1>6, <1>7, InputCall
<1>9. /\ handle.runtime.last \in Nat /\ handle.runtime.last <= millis
      /\ \A j \in 1..Held : Line[j].at < handle.runtime.last => Line[j].id \in trace.overtaken
      /\ ingress.left > 0 /\ ingress.at < handle.runtime.last =>
            \A n \in (telegrams * Fanout - ingress.left + 1)..(telegrams * Fanout) :
                n \in trace.overtaken
      /\ ~trace.wronged
  BY <1>7, HostTypes DEF HostInv, OvertakenInv
<1>10. PICK wronged \in BOOLEAN :
          /\ trace' = [Traced(trace, r) EXCEPT
                          !.overtaken = trace.overtaken \ {popping.id}, !.wronged = wronged]
          /\ wronged => r.status = "TimeWentBackwards" /\ popping.id \notin trace.overtaken
  <2> DEFINE wronged == r.status = "TimeWentBackwards" /\ popping.id \notin trace.overtaken
  <2>1. trace \in Traces
    BY DEF HostInv, GateInv
  <2>2. /\ Traced(trace, r) \in Traces /\ Traced(trace, r).overtaken = trace.overtaken
        /\ Traced(trace, r).wronged = FALSE
    <3>1. trace.wronged = FALSE
      BY <1>9, <2>1 DEF Traces
    <3> QED
      BY <2>1, <3>1, TracedKeeps
  <2>3. trace' = [Traced(trace, r) EXCEPT
                     !.overtaken = Traced(trace, r).overtaken \ {popping.id},
                     !.wronged = Traced(trace, r).wronged \/ wronged]
    BY <1>2
  <2>4. trace' = [Traced(trace, r) EXCEPT
                     !.overtaken = trace.overtaken \ {popping.id}, !.wronged = FALSE \/ wronged]
    BY <2>2, <2>3
  <2>5. (FALSE \/ wronged) \in BOOLEAN
    OBVIOUS
  <2> QED
    BY <2>4, <2>5
<1>11. /\ trace' \in Traces /\ trace'.overtaken = trace.overtaken \ {popping.id}
       /\ trace'.wronged = wronged /\ trace'.named = trace.named
  <2>1. trace \in Traces
    BY DEF HostInv, GateInv
  <2>2. Traced(trace, r) \in Traces /\ Traced(trace, r).named = trace.named
    BY <2>1, TracedKeeps
  <2>3. trace.overtaken \ {popping.id} \in SUBSET Nat
    BY <2>1 DEF Traces
  <2> QED
    BY <1>10, <2>2, <2>3 DEF Traces
<1>12. ~wronged
  <2>1. SUFFICES ASSUME r.status = "TimeWentBackwards" PROVE popping.id \in trace.overtaken
    BY <1>10
  <2>2. popping.at < handle.runtime.last
    BY <1>8, <2>1 DEF Called
  <2> QED
    BY <1>3, <1>5, <1>9, <2>2
<1>13. millis' = millis /\ ingress' = ingress /\ telegrams' = telegrams /\ Last' = Last
  BY <1>1, <1>3 DEF busVars, Last
<1>14. OrderInv'
  <2>1. \A j \in 1..Held' : Line'[j] \in Event /\ Line'[j].at <= millis /\ Line'[j].id <= Last
    BY <1>3, <1>5 DEF HostInv, OrderInv
  <2>2. \A i, j \in 1..Held' : i < j => Line'[i].id < Line'[j].id /\ Line'[i].at <= Line'[j].at
    <3> SUFFICES ASSUME NEW i \in 1..Held', NEW j \in 1..Held', i < j
                 PROVE  Line'[i].id < Line'[j].id /\ Line'[i].at <= Line'[j].at
      OBVIOUS
    <3>1. i + 1 \in 1..Held /\ j + 1 \in 1..Held /\ i + 1 < j + 1
      BY <1>5
    <3>2. Line'[i] = Line[i + 1] /\ Line'[j] = Line[j + 1]
      BY <1>3
    <3> QED
      BY <3>1, <3>2 DEF HostInv, OrderInv
  <2>3. ingress.left > 0 =>
            ingress.at <= millis /\ telegrams > 0 /\ \A j \in 1..Held' : Line'[j].at <= ingress.at
    BY <1>3, <1>5 DEF HostInv, OrderInv
  <2>4. pushing # NoItem => ingress.left > 0 /\ pushing = [id |-> Last, at |-> ingress.at]
    BY DEF HostInv, OrderInv
  <2> QED
    BY <1>3, <1>13, <2>1, <2>2, <2>3, <2>4 DEF OrderInv
<1>15. OvertakenInv'
  <2>1. \/ handle'.runtime.last = handle.runtime.last
        \/ handle'.runtime.last = popping.at /\ handle.runtime.last <= popping.at
    BY <1>2, <1>8 DEF Called
  <2>2. handle'.runtime.last <= millis
    BY <1>6, <1>9, <2>1
  <2>3. ASSUME NEW j \in 1..Held', Line'[j].at < handle'.runtime.last
        PROVE  Line'[j].id \in trace'.overtaken
    <3>1. /\ Line'[j] = Line[j + 1] /\ j + 1 \in 1..Held /\ 1 < j + 1
          /\ Line[j + 1].at \in Nat /\ Line[j + 1].id \in Nat
      BY <1>3, <1>4, <1>5
    <3>2. popping.id < Line[j + 1].id /\ popping.at <= Line[j + 1].at
      BY <1>3, <1>5, <3>1 DEF HostInv, OrderInv
    <3>3. Line[j + 1].at < handle.runtime.last
      BY <1>6, <1>9, <2>1, <2>3, <3>1, <3>2
    <3>4. Line[j + 1].id \in trace.overtaken
      BY <1>9, <3>1, <3>3
    <3>5. Line[j + 1].id # popping.id
      BY <1>6, <3>1, <3>2
    <3> QED
      BY <1>11, <3>1, <3>4, <3>5
  <2>4. ASSUME ingress.left > 0, ingress.at < handle'.runtime.last,
               NEW n \in (telegrams * Fanout - ingress.left + 1)..(telegrams * Fanout)
        PROVE  n \in trace'.overtaken
    <3>1. popping.at <= ingress.at
      BY <1>3, <1>5, <2>4 DEF HostInv, OrderInv
    <3>2. ingress.at < handle.runtime.last
      BY <1>4, <1>6, <1>9, <2>1, <2>4, <3>1
    <3>3. n \in trace.overtaken
      BY <1>9, <2>4, <3>2
    <3>4. popping.id < telegrams * Fanout - ingress.left + 1
      <4>1. CASE pushing = NoItem
        BY <1>4, <1>6, <4>1 DEF Last
      <4>2. CASE pushing # NoItem
        <5>1. Held = Waiting + 1 /\ pushing = Line[Held] /\ pushing.id = Last
          <6>1. Held = Waiting + 1 /\ pushing = Line[Held]
            BY <4>2, RingFacts DEF HostInv, QueueInv
          <6>2. pushing = [id |-> Last, at |-> ingress.at]
            BY <4>2 DEF HostInv, OrderInv
          <6> QED
            BY <6>1, <6>2
        <5>2. Held \in 1..Held /\ 1 < Held
          BY <1>3, <1>4, <5>1
        <5>3. Line[1].id < Line[Held].id
          BY <1>5, <5>2 DEF HostInv, OrderInv
        <5>4. Last = telegrams * Fanout - ingress.left + 1
          BY <1>4, <4>2 DEF Last
        <5> QED
          BY <1>3, <5>1, <5>3, <5>4
      <4> QED
        BY <4>1, <4>2
    <3>5. n # popping.id
      BY <1>4, <1>6, <3>4
    <3> QED
      BY <1>11, <3>3, <3>5
  <2> QED
    BY <1>11, <1>12, <1>13, <2>2, <2>3, <2>4 DEF OvertakenInv
<1>16. task' = task /\ pc # "top"
  BY <1>1 DEF startVars
<1>17. RevisionInv' /\ handle' \in Handle /\ handle' # NoHandle
  BY <1>2, <1>8, <1>11, <1>16, CallRevision
<1>18. outputs' \in 0..OutputCapacity
  <2>1. PICK n \in Routed(r.effects) : outputs' = Enqueued(outputs, n)
    BY <1>2
  <2>2. n \in Nat
    BY <1>8 DEF Called, Routed
  <2> QED
    BY <2>1, <2>2, EnqueuedFits DEF HostInv, TypeOK
<1>19. popped' \in 0..Slice
  BY <1>1, <1>3, HostAssumption DEF HostInv, TypeOK, GateInv
<1>20. TypeOK'
  BY <1>1, <1>17, <1>18, <1>19 DEF HostInv, TypeOK, startVars, webVars, busVars
<1>21. GateInv'
  BY <1>1, <1>3, <1>11 DEF HostInv, GateInv, webVars
<1>22. StartInv'
  BY <1>1, <1>17 DEF HostInv, StartInv, startVars
<1> QED
  BY <1>3, <1>14, <1>15, <1>17, <1>20, <1>21, <1>22 DEF HostInv

\* A tick finds every event that the loop has not taken on its way.
LEMMA EveryEventOnItsWay ==
    ASSUME HostInv, popping = NoItem
    PROVE  /\ OnTheirWay \in SUBSET Nat
           /\ \A j \in 1..Held : Line[j].id \in OnTheirWay
           /\ ingress.left > 0 =>
                 \A n \in (telegrams * Fanout - ingress.left + 1)..(telegrams * Fanout) :
                     n \in OnTheirWay
<1>1. /\ Held \in Nat /\ Waiting \in Nat /\ telegrams * Fanout \in Nat /\ ingress.left \in 0..Fanout
      /\ \A j \in 1..Held : Line[j].id \in Nat
  BY HostTypes
<1>2. QueueInv /\ Copied = 0 /\ (pushing = NoItem => Held = Waiting)
      /\ (pushing # NoItem => Held = Waiting + 1)
  BY RingFacts DEF HostInv, Copied
<1>3. Published = [i \in 1..Waiting |-> Line[i]]
  <2>1. Published = [i \in 1..(Waiting - 0) |-> Line[0 + i]]
    BY <1>2, PublishedLine DEF PublishedIsLine
  <2>2. Waiting - 0 = Waiting /\ \A i \in 1..Waiting : 0 + i = i
    BY <1>1
  <2> QED
    BY <2>1, <2>2
<1>4. \A item \in Range(Published) : \E i \in 1..Waiting : item = Line[i]
  BY <1>3 DEF Range
<1>5. \A i \in 1..Waiting : Line[i] \in Range(Published) /\ i \in 1..Held
  BY <1>1, <1>2, <1>3 DEF Range
<1>6. ingress.left > 0 => Arriving = telegrams * Fanout - ingress.left + 1 /\ Arriving \in Nat
  BY <1>1, ArrivingNumber, HostAssumption
<1>7. {item.id : item \in Range(Published)} \in SUBSET Nat
  BY <1>1, <1>4, <1>5
<1>8. OnTheirWay \in SUBSET Nat
  BY <1>1, <1>6, <1>7 DEF OnTheirWay
<1>9. ingress.left > 0 =>
          \A n \in (telegrams * Fanout - ingress.left + 1)..(telegrams * Fanout) :
              n \in OnTheirWay
  BY <1>6 DEF OnTheirWay
<1>10. ASSUME NEW j \in 1..Held PROVE Line[j].id \in OnTheirWay
  <2>1. CASE j \in 1..Waiting
    BY <1>5, <2>1 DEF OnTheirWay
  <2>2. CASE j \notin 1..Waiting
    <3>1. pushing # NoItem /\ j = Held
      BY <1>1, <1>2, <2>2
    <3>2. pushing = Line[Held]
      BY <1>2, <3>1 DEF QueueInv
    <3>3. ingress.left > 0 /\ pushing = [id |-> Last, at |-> ingress.at]
      BY <3>1 DEF HostInv, OrderInv
    <3>4. Last = telegrams * Fanout - ingress.left + 1
      BY <1>1, <3>1 DEF Last
    <3>5. Last \in (telegrams * Fanout - ingress.left + 1)..(telegrams * Fanout)
      BY <1>1, <3>3, <3>4
    <3> QED
      BY <1>9, <3>1, <3>2, <3>3, <3>5
  <2> QED
    BY <2>1, <2>2
<1> QED
  BY <1>8, <1>9, <1>10

LEMMA TickPreserves ==
    ASSUME HostInv, Tick
    PROVE  HostInv'
<1>1. /\ UNCHANGED <<millis, startVars, popped, webVars, busVars, queueVars>>
      /\ pc = "tick" /\ pc' = "drain"
  BY DEF Tick
<1>2. PICK r \in logiksmith_runtime_process_due_timer(handle, millis, EffectCapacity) :
         /\ handle' = r.handle
         /\ \E n \in Routed(r.effects) : outputs' = Enqueued(outputs, n)
         /\ trace' = [Traced(trace, r) EXCEPT !.overtaken = @ \cup OnTheirWay]
  BY DEF Tick
<1>3. /\ QueueInv' /\ Held' = Held /\ Line' = Line /\ pushing' = pushing /\ popping' = popping
  BY <1>1, QueueFrame DEF HostInv
<1>4. popping = NoItem
  BY <1>1 DEF HostInv, GateInv
<1>5. handle # NoHandle /\ handle \in Handle /\ millis \in Nat /\ handle.runtime.last \in Nat
  BY <1>1, LoopHasRuntime, HostTypes
<1>6. Called(handle, millis, r)
  BY <1>2, <1>5, TimerCall
<1>7. /\ trace' \in Traces /\ trace'.overtaken = trace.overtaken \cup OnTheirWay
      /\ trace'.wronged = trace.wronged /\ trace'.named = trace.named
  <2>1. trace \in Traces
    BY DEF HostInv, GateInv
  <2>2. /\ Traced(trace, r) \in Traces /\ Traced(trace, r).overtaken = trace.overtaken
        /\ Traced(trace, r).wronged = trace.wronged /\ Traced(trace, r).named = trace.named
    BY <2>1, TracedKeeps
  <2>3. PICK t \in Traces : t = Traced(trace, r)
    BY <2>2
  <2>4. t.overtaken \cup OnTheirWay \in SUBSET Nat
    BY <1>4, EveryEventOnItsWay DEF Traces
  <2>5. trace' = [t EXCEPT !.overtaken = t.overtaken \cup OnTheirWay]
    BY <1>2, <2>3
  <2>6. /\ trace' \in Traces /\ trace'.overtaken = t.overtaken \cup OnTheirWay
        /\ trace'.wronged = t.wronged /\ trace'.named = t.named
    BY <2>4, <2>5 DEF Traces
  <2> QED
    BY <2>2, <2>3, <2>6
<1>8. OrderInv'
  BY <1>1, <1>3, <1>5, OrderFrame
<1>9. OvertakenInv'
  <2>1. millis' = millis /\ ingress' = ingress /\ telegrams' = telegrams
    BY <1>1 DEF busVars
  <2>2. handle'.runtime.last <= millis
    <3>1. handle.runtime.last <= millis
      BY <1>5 DEF HostInv, OvertakenInv
    <3> QED
      BY <1>2, <1>5, <1>6, <3>1 DEF Called
  <2>3. ~trace.wronged
    BY DEF HostInv, OvertakenInv
  <2> QED
    BY <1>3, <1>4, <1>7, <2>1, <2>2, <2>3, EveryEventOnItsWay DEF OvertakenInv
<1>10. task' = task /\ pc # "top"
  BY <1>1 DEF startVars
<1>11. RevisionInv' /\ handle' \in Handle /\ handle' # NoHandle
  BY <1>2, <1>6, <1>7, <1>10, CallRevision
<1>12. outputs' \in 0..OutputCapacity
  <2>1. PICK n \in Routed(r.effects) : outputs' = Enqueued(outputs, n)
    BY <1>2
  <2>2. n \in Nat
    BY <1>6 DEF Called, Routed
  <2> QED
    BY <2>1, <2>2, EnqueuedFits DEF HostInv, TypeOK
<1>13. TypeOK'
  BY <1>1, <1>11, <1>12 DEF HostInv, TypeOK, startVars, webVars, busVars
<1>14. GateInv'
  BY <1>1, <1>3, <1>4, <1>7 DEF HostInv, GateInv, webVars
<1>15. StartInv'
  BY <1>1, <1>11 DEF HostInv, StartInv, startVars
<1> QED
  BY <1>3, <1>8, <1>9, <1>11, <1>13, <1>14, <1>15 DEF HostInv

LEMMA ManageHandlesPreserves ==
    ASSUME HostInv, ManageHandles
    PROVE  HostInv'
<1>1. /\ UNCHANGED <<millis, startVars, popped, outputs, mailbox, programming, edits, busVars, queueVars>>
      /\ pc = "handle" /\ pc' = "top" /\ current' = NoCommand /\ inFlight' = inFlight - 1
      /\ handle' = Handled(handle, current)
  BY DEF ManageHandles
<1>2. /\ QueueInv' /\ Held' = Held /\ Line' = Line /\ pushing' = pushing /\ popping' = popping
  BY <1>1, QueueFrame DEF HostInv
<1>3. /\ handle # NoHandle /\ handle \in Handle /\ task = "done" /\ handle.document_revision > 0
      /\ current \in Command /\ millis \in Nat
  BY <1>1, LoopHasRuntime, HostTypes DEF HostInv, GateInv
<1>4. Managed(handle, handle')
  BY <1>1, <1>3, HandledManages
<1>5. /\ handle' \in Handle /\ handle'.runtime.last = handle.runtime.last
      /\ handle.document_revision \in Nat
      /\ \/ /\ handle'.document_revision = handle.document_revision
            /\ Document(handle'.runtime) = Document(handle.runtime)
         \/ handle'.document_revision = handle.document_revision + 1
  BY <1>3, <1>4 DEF Managed, Handle
<1>6. handle' # NoHandle /\ handle'.document_revision > 0
  BY <1>3, <1>5 DEF NoHandle
<1>7. /\ trace \in Traces /\ Len(trace.named) = handle.document_revision
      /\ trace.named[handle.document_revision] = Document(handle.runtime)
      /\ trace.named \in Seq([source : Sources, enabled : BOOLEAN])
  BY <1>3 DEF HostInv, GateInv, RevisionInv, Traces
<1> DEFINE named == IF handle'.document_revision > Len(trace.named)
                    THEN Append(trace.named, Document(handle'.runtime)) ELSE trace.named
<1>8. Document(handle'.runtime) \in [source : Sources, enabled : BOOLEAN]
  <2>1. handle'.runtime \in Runtime
    BY <1>5 DEF Handle
  <2> QED
    BY <2>1 DEF Runtime, Document
<1>9. /\ named \in Seq([source : Sources, enabled : BOOLEAN])
      /\ Len(named) = handle'.document_revision
      /\ named[handle'.document_revision] = Document(handle'.runtime)
  <2>1. CASE handle'.document_revision = handle.document_revision + 1
    <3>1. PICK D : D = [source : Sources, enabled : BOOLEAN]
      OBVIOUS
    <3>2. PICK d \in D : d = Document(handle'.runtime)
      BY <1>8, <3>1
    <3>3. trace.named \in Seq(D) /\ Len(trace.named) \in Nat
          /\ handle'.document_revision = Len(trace.named) + 1
      BY <1>7, <2>1, <3>1
    <3>4. named = Append(trace.named, d)
      BY <3>2, <3>3
    <3>5. /\ Append(trace.named, d) \in Seq(D) /\ Len(Append(trace.named, d)) = Len(trace.named) + 1
          /\ Append(trace.named, d)[Len(trace.named) + 1] = d
      BY <3>2, <3>3
    <3> QED
      BY <3>1, <3>2, <3>3, <3>4, <3>5
  <2>2. CASE /\ handle'.document_revision = handle.document_revision
             /\ Document(handle'.runtime) = Document(handle.runtime)
    BY <1>5, <1>7, <2>2
  <2> QED
    BY <1>5, <2>1, <2>2
<1>10. PICK streak \in 0..Threshold : trace' = [trace EXCEPT !.streak = streak, !.named = named]
  <2>1. trace.streak \in 0..Threshold /\ 0 \in 0..Threshold
    BY <1>7, AbiAssumption DEF Traces
  <2>2. trace' = [trace EXCEPT !.streak = IF is_mutation(current) THEN 0 ELSE trace.streak,
                               !.named = named]
    BY <1>7 DEF ManageHandles, Traces
  <2> HIDE DEF named
  <2>3. (IF is_mutation(current) THEN 0 ELSE trace.streak) \in 0..Threshold
    BY <2>1
  <2> QED
    BY <2>2, <2>3
<1> HIDE DEF named
<1>11. /\ trace' \in Traces /\ trace'.named = named
       /\ trace'.overtaken = trace.overtaken /\ trace'.wronged = trace.wronged
  BY <1>7, <1>9, <1>10 DEF Traces
<1>12. RevisionInv'
  <2>1. task' = "done"
    BY <1>1, <1>3 DEF startVars
  <2> QED
    BY <1>6, <1>9, <1>11, <2>1 DEF RevisionInv
<1>13. OrderInv'
  BY <1>1, <1>2, <1>3, OrderFrame
<1>14. OvertakenInv'
  <2>1. millis' = millis /\ ingress' = ingress /\ telegrams' = telegrams
    BY <1>1 DEF busVars
  <2> QED
    BY <1>2, <1>3, <1>5, <1>11, <2>1 DEF HostInv, OvertakenInv
<1>15. inFlight = Len(mailbox) + 1 /\ mailbox \in Seq(Command) /\ inFlight \in 0..Dynamic
  BY <1>1 DEF HostInv, GateInv, TypeOK
<1>16. inFlight' = Len(mailbox) /\ inFlight' \in 0..Dynamic
  BY <1>1, <1>15, HostAssumption
<1>17. TypeOK'
  BY <1>1, <1>5, <1>16 DEF HostInv, TypeOK, startVars, busVars
<1>18. GateInv'
  <2>1. popping = NoItem
    BY <1>1 DEF HostInv, GateInv
  <2> QED
    BY <1>1, <1>2, <1>11, <1>15, <1>16, <2>1 DEF GateInv
<1>19. StartInv'
  BY <1>1, <1>6 DEF HostInv, StartInv, startVars
<1> QED
  BY <1>2, <1>12, <1>13, <1>14, <1>17, <1>18, <1>19 DEF HostInv

-----------------------------------------------------------------------------
\* The theorems

LEMMA NextPreserves ==
    ASSUME HostInv, [Next]_vars
    PROVE  HostInv'
<1>1. CASE UNCHANGED vars
  <2>1. UNCHANGED <<millis, startVars, handle, loopVars, webVars, busVars, queueVars, trace>>
    BY <1>1 DEF vars
  <2>2. QueueInv' /\ OrderInv' /\ OvertakenInv' /\ popping' = popping
    BY <2>1, AsideFrame, HostTypes
  <2>3. TypeOK'
    BY <2>1 DEF HostInv, TypeOK, startVars, loopVars, webVars, busVars
  <2>4. GateInv' /\ StartInv' /\ RevisionInv'
    BY <2>1, <2>2 DEF HostInv, GateInv, StartInv, RevisionInv, startVars, loopVars, webVars
  <2> QED
    BY <2>2, <2>3, <2>4 DEF HostInv
<1>2. CASE Observer
  BY <1>2, TelegramArrivesPreserves, IngestPreserves, IngestedPreserves DEF Observer
<1>3. CASE InitTask
  BY <1>3, TaskCreatesPreserves, TaskEndsPreserves DEF InitTask
<1>4. CASE Loop
  BY <1>4, StartRuntimePreserves, LoopBeginsPreserves, PopInputPreserves, ProcessInputPreserves,
     InputsDonePreserves, TickPreserves, DrainOutputsPreserves, ManagePopsPreserves,
     ManageHandlesPreserves DEF Loop
<1>5. CASE OtaBegins \/ Accept \/ SetProgrammingMode \/ TimePasses \/ BeforeRestart
  BY <1>5, OtaBeginsPreserves, AcceptPreserves, SetProgrammingModePreserves, TimePassesPreserves,
     BeforeRestartPreserves
<1> QED
  BY <1>1, <1>2, <1>3, <1>4, <1>5 DEF Next

\* The inductive invariant of the firmware's loop, observer, start-up task and
\* management server.
THEOREM HostInvariant == Spec => []HostInv
<1>1. Init => HostInv
  BY InitHostInv
<1>2. HostInv /\ [Next]_vars => HostInv'
  BY NextPreserves
<1> QED
  BY <1>1, <1>2, PTL DEF Spec

\* Every variable of the firmware keeps its type: the queues, the gate and the counters
\* stay within their capacities.
THEOREM HostTypeOK == Spec => []TypeOK
<1>1. HostInv => TypeOK
  BY DEF HostInv
<1> QED
  BY <1>1, HostInvariant, PTL

\* logic_smith_module.cpp loop: a slice never runs without a runtime, nor while the
\* start-up task may still write the handle.
THEOREM LoopOwnsRuntimeHolds == Spec => []LoopOwnsRuntime
<1>1. HostInv => LoopOwnsRuntime
  BY DEF HostInv, StartInv, LoopOwnsRuntime
<1> QED
  BY <1>1, HostInvariant, PTL

\* tick moves the runtime's clock past events that still wait: only those are refused as
\* TimeWentBackwards.
THEOREM RefusedOnlyIfOvertakenHolds == Spec => []RefusedOnlyIfOvertaken
<1>1. HostInv => RefusedOnlyIfOvertaken
  BY DEF HostInv, OvertakenInv, RefusedOnlyIfOvertaken
<1> QED
  BY <1>1, HostInvariant, PTL

\* commit_runtime: a document revision names one document from the moment it appears.
THEOREM RevisionNamesDocumentHolds == Spec => []RevisionNamesDocument
<1>1. HostInv => RevisionNamesDocument
  BY DEF HostInv, RevisionInv, RevisionNamesDocument
<1> QED
  BY <1>1, HostInvariant, PTL

LEMMA InitFifo ==
    ASSUME Init
    PROVE  Fifo!Init
<1>1. HostInv /\ popping = NoItem /\ write = read
  BY InitHostInv DEF Init, QueueInit
<1>2. Waiting = 0 /\ Copied = 0
  BY <1>1, RingFacts DEF HostInv, IsEmpty, Copied
<1>3. Published \in Seq(Items) /\ Len(Published) = 0
  BY <1>1, <1>2, PublishedLine DEF HostInv, PublishedIsLine
<1>4. Published = <<>>
  BY <1>3
<1> QED
  BY <1>1, <1>4 DEF Fifo!Init

LEMMA StepsFifo ==
    ASSUME HostInv, [Next]_vars
    PROVE  [Fifo!Next]_<<Published, popping>>
<1>1. CASE UNCHANGED queueVars
  <2>1. /\ slots' = slots /\ write' = write /\ read' = read /\ popping' = popping
    BY <1>1 DEF queueVars
  <2>2. Waiting' = Waiting /\ Copied' = Copied
    BY <2>1 DEF Waiting, Copied
  <2>3. Published' = Published
    BY <2>1, <2>2 DEF Published
  <2> QED
    BY <2>1, <2>3
<1>2. CASE Ingest /\ ~UNCHANGED queueVars
  <2>1. /\ ingress.left > 0 /\ PushCopies([id |-> Arriving, at |-> ingress.at])
    BY <1>2 DEF Ingest
  <2>2. PICK item \in Items : PushCopies(item)
    BY <2>1, ArrivingNumber
  <2> QED
    BY <2>2, PushCopiesFifo DEF HostInv
<1>3. CASE Ingested
  <2>1. Fifo!Push(pushing) /\ pushing \in Items
    BY <1>3, PushPublishesFifo DEF HostInv, Ingested
  <2> QED
    BY <2>1 DEF Fifo!Next
<1>4. CASE PopInput
  BY <1>4, PopCopiesFifo DEF HostInv, PopInput, Fifo!Next
<1>5. CASE ProcessInput
  BY <1>5, PopReleasesFifo DEF HostInv, ProcessInput, Fifo!Next
<1>6. \/ UNCHANGED queueVars \/ Ingest \/ Ingested \/ PopInput \/ ProcessInput
  <2>1. CASE UNCHANGED vars
    BY <2>1 DEF vars
  <2>2. CASE Observer
    BY <2>2 DEF Observer, TelegramArrives
  <2>3. CASE InitTask
    BY <2>3 DEF InitTask, TaskCreates, TaskEnds
  <2>4. CASE Loop
    BY <2>4 DEF Loop, StartRuntime, LoopBegins, InputsDone, Tick, DrainOutputs, ManagePops,
                ManageHandles
  <2>5. CASE OtaBegins \/ Accept \/ SetProgrammingMode \/ TimePasses \/ BeforeRestart
    BY <2>5 DEF OtaBegins, Accept, SetProgrammingMode, TimePasses, BeforeRestart
  <2> QED
    BY <2>1, <2>2, <2>3, <2>4, <2>5 DEF Next
<1> QED
  BY <1>1, <1>2, <1>3, <1>4, <1>5, <1>6

\* RawBindingRouter's ring implements BoundedFifo: whatever the other side does between
\* the two steps of push and pop, and however often the counters wrap, every accepted
\* event is handed to the loop once, unchanged and in order.
THEOREM QueueImplementsFifo == Spec => InputQueueIsFifo
<1>1. Init => Fifo!Init
  BY InitFifo
<1>2. HostInv /\ [Next]_vars => [Fifo!Next]_<<Published, popping>>
  BY StepsFifo
<1> QED
  BY <1>1, <1>2, HostInvariant, PTL DEF Spec, InputQueueIsFifo, Fifo!Spec

-----------------------------------------------------------------------------
(* The document store *)

\* The types again, with torn contents only where they can be.
Contents ==
    /\ main \in Stored /\ temp \in Stored \cup {Torn}
    /\ unflushed \subseteq {"temp"}
    /\ op \in Saves \cup Loads /\ doc \in Documents
    /\ writing \in Documents /\ previous \in Stored
    /\ running \in Stored /\ before \in Stored

Flags ==
    /\ mounted \in BOOLEAN /\ enabled \in BOOLEAN
    /\ rollback \in BOOLEAN /\ applied \in BOOLEAN

Control ==
    /\ status \in Status
    /\ step \in {"idle", "mount", "load", "previous", "space", "write", "flush", "rename",
               "activate", "remove"}

\* Nothing of the call has happened yet.
Untouched == main = before /\ writing = doc /\ rollback = FALSE

\* atomic_write writes the call's document over the old one, or the old one back.
Writing ==
    /\ op \in Saves
    /\ op = "save_and_activate" => previous = before /\ doc \in Fit
    /\ \/ Untouched
       \/ /\ op = "save_and_activate" /\ rollback = TRUE
          /\ main = doc /\ writing = before /\ before # Missing

\* The new document is stored and not yet activated.
Installed ==
    /\ op = "save_and_activate" /\ doc \in Fit
    /\ main = doc /\ previous = before /\ rollback = FALSE

Places ==
    /\ step = "mount" => Untouched
    /\ step = "load" => Untouched /\ op \in Loads
    /\ step = "previous" => Untouched /\ op = "save_and_activate"
    /\ step \in {"space", "write", "flush", "rename"} => Writing
    /\ step \in {"write", "flush", "rename"} => writing \in Fit
    /\ step \in {"flush", "rename"} => temp = writing
    /\ step = "rename" => unflushed = {}
    /\ step \in {"activate", "remove"} => Installed
    /\ step = "remove" => before = Missing

\* What the runtime runs: between calls, and while a call is under way.
Runs ==
    /\ StoredAndRunningAgree
    /\ step # "idle" /\ enabled = TRUE /\ applied = TRUE => running = before

StoreInv == Contents /\ Flags /\ Control /\ Places /\ Runs /\ FailedCallKeepsDocument

USE DEF fileVars, stateVars, callVars, writeVars, runVars, Untouched

-----------------------------------------------------------------------------
(* The invariant is inductive *)

LEMMA InitStoreInv == StoreInit => StoreInv
<1> SUFFICES ASSUME StoreInit PROVE StoreInv
  OBVIOUS
<1>1. Contents /\ Flags /\ Control
  BY StoreAssumption DEF StoreInit, Contents, Flags, Control, Stored, Fit, Saves, Loads, Status
<1>2. Places /\ Runs /\ FailedCallKeepsDocument
  BY DEF StoreInit, Places, Runs, StoredAndRunningAgree, FailedCallKeepsDocument
<1> QED
  BY <1>1, <1>2 DEF StoreInv

LEMMA CallKeeps == ASSUME StoreInv, Call PROVE StoreInv'
<1> USE StoreAssumption DEF StoreInv
<1>1. Contents'
  BY DEF Call, Places, Untouched, Writing, Installed, Contents, Stored, Fit, Saves,
     Loads
<1>2. Flags'
  BY DEF Call, Flags
<1>3. Control'
  BY DEF Call, Contents, Control, Stored, Fit, Saves, Loads, Status
<1>4. Places'
  BY DEF Call, Places, Untouched, Writing, Installed, Contents, Stored, Fit, Saves,
     Loads
<1>5. Runs'
  BY DEF Call, Places, Untouched, Writing, Installed, Contents, Runs,
     StoredAndRunningAgree, Stored, Fit, Saves, Loads
<1>6. FailedCallKeepsDocument'
  BY DEF Call, Places, Untouched, Writing, Installed, Contents,
     FailedCallKeepsDocument, Stored, Fit, Saves, Loads
<1> QED
  BY <1>1, <1>2, <1>3, <1>4, <1>5, <1>6

LEMMA MountKeeps == ASSUME StoreInv, mount PROVE StoreInv'
<1> USE StoreAssumption DEF StoreInv
<1>1. Contents'
  BY DEF mount, Return, Places, Untouched, Writing, Installed, Contents, Stored,
     Fit, Saves, Loads
<1>2. Flags'
  BY DEF mount, Return, Flags
<1>3. Control'
  BY DEF mount, Return, Contents, Control, Stored, Fit, Saves, Loads, Status
<1>4. Places'
  BY DEF mount, Return, Places, Untouched, Writing, Installed, Contents, Stored,
     Fit, Saves, Loads
<1>5. Runs'
  BY DEF mount, Return, Places, Untouched, Writing, Installed, Contents, Runs,
     StoredAndRunningAgree, Stored, Fit, Saves, Loads
<1>6. FailedCallKeepsDocument'
  BY DEF mount, Return, Places, Untouched, Writing, Installed, Contents,
     FailedCallKeepsDocument, Stored, Fit, Saves, Loads
<1> QED
  BY <1>1, <1>2, <1>3, <1>4, <1>5, <1>6

LEMMA LoadKeeps == ASSUME StoreInv, load PROVE StoreInv'
<1> USE StoreAssumption DEF StoreInv
<1>1. Contents'
  BY DEF load, Return, Places, Untouched, Writing, Installed, Contents, Stored, Fit,
     Saves, Loads
<1>2. Flags'
  BY DEF load, Return, Flags
<1>3. Control'
  BY DEF load, Return, Contents, Control, Stored, Fit, Saves, Loads, Status
<1>4. Places'
  BY DEF load, Return, Places, Untouched, Writing, Installed, Contents, Stored, Fit,
     Saves, Loads
<1>5. Runs'
  BY DEF load, Return, Places, Untouched, Writing, Installed, Contents, Runs,
     StoredAndRunningAgree, Stored, Fit, Saves, Loads
<1>6. FailedCallKeepsDocument'
  BY DEF load, Return, Places, Untouched, Writing, Installed, Contents,
     FailedCallKeepsDocument, Stored, Fit, Saves, Loads
<1> QED
  BY <1>1, <1>2, <1>3, <1>4, <1>5, <1>6

LEMMA ReadPreviousKeeps == ASSUME StoreInv, read_previous PROVE StoreInv'
<1> USE StoreAssumption DEF StoreInv
<1>1. Contents'
  BY DEF read_previous, Return, Places, Untouched, Writing, Installed, Contents,
     Stored, Fit, Saves, Loads
<1>2. Flags'
  BY DEF read_previous, Return, Flags
<1>3. Control'
  BY DEF read_previous, Return, Contents, Control, Stored, Fit, Saves, Loads, Status
<1>4. Places'
  BY DEF read_previous, Return, Places, Untouched, Writing, Installed, Contents,
     Stored, Fit, Saves, Loads
<1>5. Runs'
  BY DEF read_previous, Return, Places, Untouched, Writing, Installed, Contents,
     Runs, StoredAndRunningAgree, Stored, Fit, Saves, Loads
<1>6. FailedCallKeepsDocument'
  BY DEF read_previous, Return, Places, Untouched, Writing, Installed, Contents,
     FailedCallKeepsDocument, Stored, Fit, Saves, Loads
<1> QED
  BY <1>1, <1>2, <1>3, <1>4, <1>5, <1>6

LEMMA CheckSpaceKeeps == ASSUME StoreInv, check_space PROVE StoreInv'
<1> USE StoreAssumption DEF StoreInv
<1>1. Contents'
  BY DEF check_space, Return, WriteFails, Places, Untouched, Writing, Installed,
     Contents, Stored, Fit, Saves, Loads
<1>2. Flags'
  BY DEF check_space, Return, WriteFails, Flags
<1>3. Control'
  BY DEF check_space, Return, WriteFails, Contents, Control, Stored, Fit, Saves,
     Loads, Status
<1>4. Places'
  BY DEF check_space, Return, WriteFails, Places, Untouched, Writing, Installed,
     Contents, Stored, Fit, Saves, Loads
<1>5. Runs'
  BY DEF check_space, Return, WriteFails, Places, Untouched, Writing, Installed,
     Contents, Runs, StoredAndRunningAgree, Stored, Fit, Saves, Loads
<1>6. FailedCallKeepsDocument'
  BY DEF check_space, Return, WriteFails, Places, Untouched, Writing, Installed,
     Contents, FailedCallKeepsDocument, Stored, Fit, Saves, Loads
<1> QED
  BY <1>1, <1>2, <1>3, <1>4, <1>5, <1>6

LEMMA WriteTempKeeps == ASSUME StoreInv, write_temp PROVE StoreInv'
<1> USE StoreAssumption DEF StoreInv
<1>1. Contents'
  BY DEF write_temp, Return, WriteFails, Places, Untouched, Writing, Installed,
     Contents, Stored, Fit, Saves, Loads
<1>2. Flags'
  BY DEF write_temp, Return, WriteFails, Flags
<1>3. Control'
  BY DEF write_temp, Return, WriteFails, Contents, Control, Stored, Fit, Saves,
     Loads, Status
<1>4. Places'
  BY DEF write_temp, Return, WriteFails, Places, Untouched, Writing, Installed,
     Contents, Stored, Fit, Saves, Loads
<1>5. Runs'
  BY DEF write_temp, Return, WriteFails, Places, Untouched, Writing, Installed,
     Contents, Runs, StoredAndRunningAgree, Stored, Fit, Saves, Loads
<1>6. FailedCallKeepsDocument'
  BY DEF write_temp, Return, WriteFails, Places, Untouched, Writing, Installed,
     Contents, FailedCallKeepsDocument, Stored, Fit, Saves, Loads
<1> QED
  BY <1>1, <1>2, <1>3, <1>4, <1>5, <1>6

LEMMA FlushTempKeeps == ASSUME StoreInv, flush_temp PROVE StoreInv'
<1> USE StoreAssumption DEF StoreInv
<1>1. Contents'
  BY DEF flush_temp, Return, WriteFails, FailsAndRemoves, Places, Untouched,
     Writing, Installed, Contents, Stored, Fit, Saves, Loads
<1>2. Flags'
  BY DEF flush_temp, Return, WriteFails, FailsAndRemoves, Flags
<1>3. Control'
  BY DEF flush_temp, Return, WriteFails, FailsAndRemoves, Contents, Control, Stored,
     Fit, Saves, Loads, Status
<1>4. Places'
  BY DEF flush_temp, Return, WriteFails, FailsAndRemoves, Places, Untouched,
     Writing, Installed, Contents, Stored, Fit, Saves, Loads
<1>5. Runs'
  BY DEF flush_temp, Return, WriteFails, FailsAndRemoves, Places, Untouched,
     Writing, Installed, Contents, Runs, StoredAndRunningAgree, Stored, Fit, Saves,
     Loads
<1>6. FailedCallKeepsDocument'
  BY DEF flush_temp, Return, WriteFails, FailsAndRemoves, Places, Untouched,
     Writing, Installed, Contents, FailedCallKeepsDocument, Stored, Fit, Saves,
     Loads
<1> QED
  BY <1>1, <1>2, <1>3, <1>4, <1>5, <1>6

LEMMA RenameTempKeeps == ASSUME StoreInv, rename_temp PROVE StoreInv'
<1> USE StoreAssumption DEF StoreInv
<1>1. Contents'
  BY DEF rename_temp, Return, WriteFails, WriteSucceeds, FailsAndRemoves, Places,
     Untouched, Writing, Installed, Contents, Stored, Fit, Saves, Loads
<1>2. Flags'
  BY DEF rename_temp, Return, WriteFails, WriteSucceeds, FailsAndRemoves, Flags
<1>3. Control'
  BY DEF rename_temp, Return, WriteFails, WriteSucceeds, FailsAndRemoves, Contents,
     Control, Stored, Fit, Saves, Loads, Status
<1>4. Places'
  BY DEF rename_temp, Return, WriteFails, WriteSucceeds, FailsAndRemoves, Places,
     Untouched, Writing, Installed, Contents, Stored, Fit, Saves, Loads
<1>5. Runs'
  BY DEF rename_temp, Return, WriteFails, WriteSucceeds, FailsAndRemoves, Places,
     Untouched, Writing, Installed, Contents, Runs, StoredAndRunningAgree, Stored,
     Fit, Saves, Loads
<1>6. FailedCallKeepsDocument'
  BY DEF rename_temp, Return, WriteFails, WriteSucceeds, FailsAndRemoves, Places,
     Untouched, Writing, Installed, Contents, FailedCallKeepsDocument, Stored, Fit,
     Saves, Loads
<1> QED
  BY <1>1, <1>2, <1>3, <1>4, <1>5, <1>6

LEMMA ActivateKeeps == ASSUME StoreInv, activate PROVE StoreInv'
<1> USE StoreAssumption DEF StoreInv
<1>1. Contents'
  BY DEF activate, Return, Places, Untouched, Writing, Installed, Contents, Stored,
     Fit, Saves, Loads
<1>2. Flags'
  BY DEF activate, Return, Flags
<1>3. Control'
  BY DEF activate, Return, Contents, Control, Stored, Fit, Saves, Loads, Status
<1>4. Places'
  BY DEF activate, Return, Places, Untouched, Writing, Installed, Contents, Stored,
     Fit, Saves, Loads
<1>5. Runs'
  BY DEF activate, Return, Places, Untouched, Writing, Installed, Contents, Runs,
     StoredAndRunningAgree, Stored, Fit, Saves, Loads
<1>6. FailedCallKeepsDocument'
  BY DEF activate, Return, Places, Untouched, Writing, Installed, Contents,
     FailedCallKeepsDocument, Stored, Fit, Saves, Loads
<1> QED
  BY <1>1, <1>2, <1>3, <1>4, <1>5, <1>6

LEMMA RemoveMainKeeps == ASSUME StoreInv, remove_main PROVE StoreInv'
<1> USE StoreAssumption DEF StoreInv
<1>1. Contents'
  BY DEF remove_main, Return, Places, Untouched, Writing, Installed, Contents,
     Stored, Fit, Saves, Loads
<1>2. Flags'
  BY DEF remove_main, Return, Flags
<1>3. Control'
  BY DEF remove_main, Return, Contents, Control, Stored, Fit, Saves, Loads, Status
<1>4. Places'
  BY DEF remove_main, Return, Places, Untouched, Writing, Installed, Contents,
     Stored, Fit, Saves, Loads
<1>5. Runs'
  BY DEF remove_main, Return, Places, Untouched, Writing, Installed, Contents, Runs,
     StoredAndRunningAgree, Stored, Fit, Saves, Loads
<1>6. FailedCallKeepsDocument'
  BY DEF remove_main, Return, Places, Untouched, Writing, Installed, Contents,
     FailedCallKeepsDocument, Stored, Fit, Saves, Loads
<1> QED
  BY <1>1, <1>2, <1>3, <1>4, <1>5, <1>6

LEMMA PowerFailsKeeps == ASSUME StoreInv, PowerFails PROVE StoreInv'
<1> USE StoreAssumption DEF StoreInv
<1>1. Contents'
  BY DEF PowerFails, After, Places, Untouched, Writing, Installed, Contents, Stored,
     Fit, Saves, Loads
<1>2. Flags'
  BY DEF PowerFails, After, Flags
<1>3. Control'
  BY DEF PowerFails, After, Contents, Control, Stored, Fit, Saves, Loads, Status
<1>4. Places'
  BY DEF PowerFails, After, Places, Untouched, Writing, Installed, Contents, Stored,
     Fit, Saves, Loads
<1>5. Runs'
  BY DEF PowerFails, After, Places, Untouched, Writing, Installed, Contents, Runs,
     StoredAndRunningAgree, Stored, Fit, Saves, Loads
<1>6. FailedCallKeepsDocument'
  BY DEF PowerFails, After, Places, Untouched, Writing, Installed, Contents,
     FailedCallKeepsDocument, Stored, Fit, Saves, Loads
<1> QED
  BY <1>1, <1>2, <1>3, <1>4, <1>5, <1>6

LEMMA NextStoreInv == ASSUME StoreInv, [StoreNext]_storeVars PROVE StoreInv'
<1>1. CASE Call
  BY <1>1, CallKeeps
<1>2. CASE mount
  BY <1>2, MountKeeps
<1>3. CASE load
  BY <1>3, LoadKeeps
<1>4. CASE read_previous
  BY <1>4, ReadPreviousKeeps
<1>5. CASE check_space
  BY <1>5, CheckSpaceKeeps
<1>6. CASE write_temp
  BY <1>6, WriteTempKeeps
<1>7. CASE flush_temp
  BY <1>7, FlushTempKeeps
<1>8. CASE rename_temp
  BY <1>8, RenameTempKeeps
<1>9. CASE activate
  BY <1>9, ActivateKeeps
<1>10. CASE remove_main
  BY <1>10, RemoveMainKeeps
<1>11. CASE PowerFails
  BY <1>11, PowerFailsKeeps
<1>12. CASE UNCHANGED storeVars
  BY <1>12 DEF storeVars, StoreInv, Contents, Flags, Control, Places, Writing, Installed, Runs,
     StoredAndRunningAgree, FailedCallKeepsDocument
<1> QED
  BY <1>1, <1>2, <1>3, <1>4, <1>5, <1>6, <1>7, <1>8, <1>9, <1>10, <1>11, <1>12 DEF StoreNext

THEOREM StoreInvariant == StoreSpec => []StoreInv
  BY InitStoreInv, NextStoreInv, PTL DEF StoreSpec

-----------------------------------------------------------------------------
(* What it implies *)

\* The variables of the store have their types.
THEOREM StoreTypeOK == StoreSpec => []StoreTypes
<1>1. StoreInv => StoreTypes
  BY DEF StoreInv, Contents, Flags, Control, StoreTypes
<1> QED
  BY <1>1, StoreInvariant, PTL

\* Whenever the power fails, the stored file is a whole document or absent.
THEOREM StoreNeverTorn == StoreSpec => []NeverTorn
<1>1. StoreInv => NeverTorn
  BY StoreAssumption DEF StoreInv, Contents, NeverTorn, Stored, Fit
<1> QED
  BY <1>1, StoreInvariant, PTL

\* A call that reports a failure has left the stored document as it found it.
THEOREM StoreFailedCall == StoreSpec => []FailedCallKeepsDocument
<1>1. StoreInv => FailedCallKeepsDocument
  BY DEF StoreInv
<1> QED
  BY <1>1, StoreInvariant, PTL

\* While the runtime is enabled it runs the stored document.
THEOREM StoreAgreement == StoreSpec => []StoredAndRunningAgree
<1>1. StoreInv => StoredAndRunningAgree
  BY DEF StoreInv, Runs
<1> QED
  BY <1>1, StoreInvariant, PTL

-----------------------------------------------------------------------------
(* The store implements AtomicDocument *)

LEMMA AtomicInit == StoreInit => Atomic!Init
  BY DEF StoreInit, Atomic!Init, Stored, Fit, Saves

LEMMA CallIsBegin == ASSUME StoreInv, Call PROVE Atomic!Begin
  BY DEF StoreInv, Contents, Call, Atomic!Begin, Stored, Fit, Saves, Loads

LEMMA MountImplements == ASSUME StoreInv, mount PROVE [Atomic!Next]_(Atomic!vars)
  BY StoreAssumption DEF StoreInv, mount, Return, Places, Writing, Installed, Contents,
     Atomic!Next, Atomic!vars, Atomic!Install, Atomic!Undo, Atomic!End, Stored, Fit,
     Saves, Loads

LEMMA LoadImplements == ASSUME StoreInv, load PROVE [Atomic!Next]_(Atomic!vars)
  BY StoreAssumption DEF StoreInv, load, Return, Places, Writing, Installed, Contents,
     Atomic!Next, Atomic!vars, Atomic!Install, Atomic!Undo, Atomic!End, Stored, Fit,
     Saves, Loads

LEMMA ReadPreviousImplements == ASSUME StoreInv, read_previous PROVE [Atomic!Next]_(Atomic!vars)
  BY StoreAssumption DEF StoreInv, read_previous, Return, Places, Writing, Installed,
     Contents, Atomic!Next, Atomic!vars, Atomic!Install, Atomic!Undo, Atomic!End,
     Stored, Fit, Saves, Loads

LEMMA CheckSpaceImplements == ASSUME StoreInv, check_space PROVE [Atomic!Next]_(Atomic!vars)
  BY StoreAssumption DEF StoreInv, check_space, Return, WriteFails, Places, Writing,
     Installed, Contents, Atomic!Next, Atomic!vars, Atomic!Install, Atomic!Undo,
     Atomic!End, Stored, Fit, Saves, Loads

LEMMA WriteTempImplements == ASSUME StoreInv, write_temp PROVE [Atomic!Next]_(Atomic!vars)
  BY StoreAssumption DEF StoreInv, write_temp, Return, WriteFails, Places, Writing,
     Installed, Contents, Atomic!Next, Atomic!vars, Atomic!Install, Atomic!Undo,
     Atomic!End, Stored, Fit, Saves, Loads

LEMMA FlushTempImplements == ASSUME StoreInv, flush_temp PROVE [Atomic!Next]_(Atomic!vars)
  BY StoreAssumption DEF StoreInv, flush_temp, Return, WriteFails, FailsAndRemoves,
     Places, Writing, Installed, Contents, Atomic!Next, Atomic!vars, Atomic!Install,
     Atomic!Undo, Atomic!End, Stored, Fit, Saves, Loads

LEMMA RenameTempImplements == ASSUME StoreInv, rename_temp PROVE [Atomic!Next]_(Atomic!vars)
  BY StoreAssumption DEF StoreInv, rename_temp, Return, WriteFails, WriteSucceeds,
     FailsAndRemoves, Places, Writing, Installed, Contents, Atomic!Next,
     Atomic!vars, Atomic!Install, Atomic!Undo, Atomic!End, Stored, Fit, Saves, Loads

LEMMA ActivateImplements == ASSUME StoreInv, activate PROVE [Atomic!Next]_(Atomic!vars)
  BY StoreAssumption DEF StoreInv, activate, Return, Places, Writing, Installed,
     Contents, Atomic!Next, Atomic!vars, Atomic!Install, Atomic!Undo, Atomic!End,
     Stored, Fit, Saves, Loads

LEMMA RemoveMainImplements == ASSUME StoreInv, remove_main PROVE [Atomic!Next]_(Atomic!vars)
  BY StoreAssumption DEF StoreInv, remove_main, Return, Places, Writing, Installed,
     Contents, Atomic!Next, Atomic!vars, Atomic!Install, Atomic!Undo, Atomic!End,
     Stored, Fit, Saves, Loads

LEMMA PowerFailsImplements == ASSUME StoreInv, PowerFails PROVE [Atomic!Next]_(Atomic!vars)
<1>1. main' = main
  BY DEF StoreInv, Contents, PowerFails, After
<1>2. CASE step = "idle"
  BY <1>1, <1>2 DEF PowerFails, Atomic!vars
<1>3. CASE step # "idle"
  <2>1. main \in {before, IF op \in Saves /\ doc \in Fit THEN doc ELSE before}
    BY <1>3 DEF StoreInv, Control, Places, Writing, Installed, Saves, Loads
  <2> QED
    BY <1>1, <1>3, <2>1 DEF PowerFails, Atomic!Next, Atomic!End
<1> QED
  BY <1>2, <1>3

\* Every step of the store is a step of AtomicDocument or leaves its variables alone.
THEOREM StoreImplementsAtomic == StoreSpec => StoreIsAtomic
<1>1. StoreInit => Atomic!Init
  BY AtomicInit
<1>2. StoreInv /\ [StoreNext]_storeVars => [Atomic!Next]_(Atomic!vars)
  <2> SUFFICES ASSUME StoreInv, [StoreNext]_storeVars PROVE [Atomic!Next]_(Atomic!vars)
    OBVIOUS
  <2>1. CASE Call
    BY <2>1, CallIsBegin DEF Atomic!Next
  <2>2. CASE mount
    BY <2>2, MountImplements
  <2>3. CASE load
    BY <2>3, LoadImplements
  <2>4. CASE read_previous
    BY <2>4, ReadPreviousImplements
  <2>5. CASE check_space
    BY <2>5, CheckSpaceImplements
  <2>6. CASE write_temp
    BY <2>6, WriteTempImplements
  <2>7. CASE flush_temp
    BY <2>7, FlushTempImplements
  <2>8. CASE rename_temp
    BY <2>8, RenameTempImplements
  <2>9. CASE activate
    BY <2>9, ActivateImplements
  <2>10. CASE remove_main
    BY <2>10, RemoveMainImplements
  <2>11. CASE PowerFails
    BY <2>11, PowerFailsImplements
  <2>12. CASE UNCHANGED storeVars
    BY <2>12 DEF storeVars, Atomic!vars
  <2> QED
    BY <2>1, <2>2, <2>3, <2>4, <2>5, <2>6, <2>7, <2>8, <2>9, <2>10, <2>11, <2>12 DEF StoreNext
<1> QED
  BY <1>1, <1>2, StoreInvariant, PTL DEF StoreSpec, StoreIsAtomic, Atomic!Spec
=============================================================================
