-------------------------- MODULE SchedulesProofs --------------------------
(***************************************************************************)
(* For every set of schedules, every rule and every behaviour of the wall  *)
(* clock: the cursors are well typed, a schedule delivers its occurrences  *)
(* in increasing order, none that passed while its block was off, and      *)
(* skips none while it is on duty.  For the host around it, with any       *)
(* timers and clamps: its one sleep covers every deadline.                 *)
(***************************************************************************)
EXTENDS HostScheduler, TLAPS, WellFoundedInduction, SequenceTheorems

\* A set of naturals has a least member.
LEMMA LeastNatural ==
    ASSUME NEW S \in SUBSET Nat, S # {}
    PROVE  \E x \in S : \A y \in S : x <= y
<1>1. PICK x \in S : \A y \in S : <<y, x>> \notin OpToRel(<, Nat)
  BY NatLessThanWellFounded, WFMin
<1>2. \A y \in S : ~(y < x)
  BY <1>1 DEF OpToRel
<1> QED
  BY <1>2

\* A set of naturals with an upper bound has a greatest member.
LEMMA GreatestNatural ==
    ASSUME NEW S \in SUBSET Nat, S # {}, NEW bound \in Nat, \A y \in S : y <= bound
    PROVE  \E x \in S : \A y \in S : y <= x
<1> DEFINE D == {bound - y : y \in S}
<1>1. D \in SUBSET Nat /\ D # {}
  <2>1. \A y \in S : y \in Nat /\ y <= bound /\ bound - y \in Nat
    OBVIOUS
  <2> QED
    BY <2>1
<1>2. PICK d \in D : \A e \in D : d <= e
  BY <1>1, LeastNatural
<1>3. PICK x \in S : d = bound - x
  OBVIOUS
<1>4. \A y \in S : bound - x <= bound - y
  BY <1>2, <1>3
<1>5. \A y \in S : y \in Nat
  OBVIOUS
<1> QED
  BY <1>3, <1>4, <1>5

\* next_occurrence_after returns an occurrence strictly after its argument.
LEMMA NextOccurrenceAfterResult ==
    ASSUME NEW k \in ScheduleKeys, NEW t \in Nat
    PROVE  \/ NextOccurrenceAfter(k, t) = NoTime
           \/ NextOccurrenceAfter(k, t) \in Occurrences[k] /\ NextOccurrenceAfter(k, t) > t
<1>1. CASE \E o \in Occurrences[k] : o > t
  <2> DEFINE S == {o \in Occurrences[k] : o > t}
  <2>1. S \in SUBSET Nat /\ S # {}
    BY <1>1, ScheduleAssumption
  <2>2. PICK o \in S : \A p \in S : o <= p
    BY <2>1, LeastNatural
  <2>3. \E q \in Occurrences[k] : q > t /\ \A p \in Occurrences[k] : p > t => q <= p
    BY <2>2
  <2> QED
    BY <1>1, <2>3 DEF NextOccurrenceAfter
<1>2. CASE ~\E o \in Occurrences[k] : o > t
  BY <1>2 DEF NextOccurrenceAfter
<1> QED
  BY <1>1, <1>2

\* The coalescing loop stops at an occurrence between next and now.
LEMMA LatestResult ==
    ASSUME NEW k \in ScheduleKeys, NEW next \in Occurrences[k], NEW at \in Nat, next <= at
    PROVE  /\ Latest(k, next, at) \in Occurrences[k]
           /\ next <= Latest(k, next, at) /\ Latest(k, next, at) <= at
<1> DEFINE S == {o \in Occurrences[k] : o <= at}
<1>1. S \in SUBSET Nat /\ next \in S
  BY ScheduleAssumption
<1>2. PICK o \in S : \A p \in S : p <= o
  BY <1>1, GreatestNatural
<1>3. \E q \in Occurrences[k] :
         /\ next <= q /\ q <= at
         /\ \A p \in Occurrences[k] : p <= at => p <= q
  BY <1>1, <1>2
<1> QED
  BY <1>3 DEF Latest

-----------------------------------------------------------------------------
\* The inductive invariant.  A cursor waits for an occurrence after the last
\* one it delivered; that is what makes a wall clock that jumps back harmless.

CursorOK(k, c) ==
    /\ c \in Cursor
    /\ c.next # NoTime => c.next \in Occurrences[k]
    /\ c.next # NoTime /\ c.last # NoTime => c.last < c.next
DeliveredOK(d, c) ==
    /\ d \in Seq(Nat)
    /\ c.last = NoTime => d = <<>>
    /\ c.last # NoTime => \A i \in 1..Len(d) : d[i] <= c.last
    /\ \A i, j \in 1..Len(d) : i < j => d[i] < d[j]
EngineInv ==
    /\ enabled \in [Blocks -> BOOLEAN]
    /\ cursor \in [ScheduleKeys -> Cursor]
    /\ lastWall \in Times
    /\ delivered \in [ScheduleKeys -> Seq(Nat)]
    /\ \A k \in ScheduleKeys : CursorOK(k, cursor[k]) /\ DeliveredOK(delivered[k], cursor[k])

\* A cursor that waits for a new baseline is sound and keeps its last delivery.
LEMMA PausedOK ==
    ASSUME NEW k \in ScheduleKeys, NEW c, CursorOK(k, c)
    PROVE  CursorOK(k, Paused(c)) /\ Paused(c).last = c.last
BY DEF CursorOK, Paused, Cursor, Times

\* A new baseline is in the future, and after the last delivery.
LEMMA RebasedOK ==
    ASSUME NEW k \in ScheduleKeys, NEW c, CursorOK(k, c), NEW at \in Nat
    PROVE  CursorOK(k, Rebased(k, c, at)) /\ Rebased(k, c, at).last = c.last
<1> DEFINE t == IF c.last # NoTime /\ c.last > at THEN c.last ELSE at
<1>1. c.last \in Times /\ c.next \in Times
  BY DEF CursorOK, Cursor
<1>2. t \in Nat /\ t >= at /\ (c.last # NoTime => t >= c.last)
  BY <1>1, ScheduleAssumption DEF Times
<1>3. NextNotBefore(k, at, c.last) = NextOccurrenceAfter(k, t)
  BY DEF NextNotBefore
<1> HIDE DEF t
<1>4. \/ NextNotBefore(k, at, c.last) = NoTime
      \/ /\ NextNotBefore(k, at, c.last) \in Occurrences[k]
         /\ NextNotBefore(k, at, c.last) > t
  BY <1>2, <1>3, NextOccurrenceAfterResult
<1>5. Occurrences[k] \subseteq Nat
  BY ScheduleAssumption
<1> DEFINE n == NextNotBefore(k, at, c.last)
           r == Rebased(k, c, at)
<1>6. r = [last |-> c.last, next |-> n, rebase |-> FALSE]
  BY DEF Rebased
<1>7. n \in Times /\ (n # NoTime => n \in Occurrences[k])
  BY <1>4, <1>5 DEF Times
<1>8. n # NoTime /\ c.last # NoTime => c.last < n
  <2>1. SUFFICES ASSUME n # NoTime, c.last # NoTime PROVE c.last < n
    OBVIOUS
  <2>2. n \in Nat /\ n > t /\ c.last \in Nat /\ t >= c.last
    BY <1>1, <1>2, <1>4, <1>5, <2>1 DEF Times
  <2> QED
    BY <1>2, <2>2
<1> HIDE DEF n, r
<1> QED
  BY <1>1, <1>6, <1>7, <1>8 DEF CursorOK, Cursor, r

\* The cursor a poll works with is sound and keeps its last delivery.
LEMMA PolledOK ==
    ASSUME EngineInv, NEW k \in ScheduleKeys, NEW at \in Utc
    PROVE  CursorOK(k, Polled(k, at)) /\ Polled(k, at).last = cursor[k].last
<1>1. at \in Nat /\ CursorOK(k, cursor[k])
  BY ScheduleAssumption DEF EngineInv
<1>2. CursorOK(k, Recomputed(k, at)) /\ Recomputed(k, at).last = cursor[k].last
  BY <1>1, RebasedOK DEF Recomputed
<1> QED
  BY <1>1, <1>2, RebasedOK DEF Polled

\* Appending an occurrence after the last one keeps the log increasing.
LEMMA AppendOK ==
    ASSUME NEW c, c.last \in Times, NEW d, DeliveredOK(d, c),
           NEW o \in Nat, c.last # NoTime => c.last < o, NEW e, e.last = o
    PROVE  DeliveredOK(Append(d, o), e)
<1> DEFINE a == Append(d, o)
<1>1. d \in Seq(Nat) /\ Len(d) \in Nat
  BY LenProperties DEF DeliveredOK
<1>2. /\ a \in Seq(Nat) /\ Len(a) = Len(d) + 1
      /\ \A i \in 1..Len(d) : a[i] = d[i]
      /\ a[Len(d) + 1] = o
  BY <1>1, AppendProperties
<1>3. \A i \in 1..Len(d) : d[i] \in Nat /\ d[i] < o
  <2>1. CASE c.last = NoTime
    <3>1. d = <<>>
      BY <2>1 DEF DeliveredOK
    <3> QED
      BY <3>1, EmptySeq
  <2>2. CASE c.last # NoTime
    <3>1. \A i \in 1..Len(d) : d[i] \in Nat /\ d[i] <= c.last
      BY <1>1, <2>2, ElementOfSeq DEF DeliveredOK
    <3>2. c.last \in Nat /\ c.last < o
      BY <2>2 DEF Times
    <3> QED
      BY <3>1, <3>2
  <2> QED
    BY <2>1, <2>2
<1>4. \A i \in 1..Len(a) : a[i] <= o
  BY <1>1, <1>2, <1>3
<1>5. \A i, j \in 1..Len(d) : i < j => d[i] < d[j]
  BY DEF DeliveredOK
<1>6. \A i, j \in 1..Len(a) : i < j => a[i] < a[j]
  BY <1>1, <1>2, <1>3, <1>5
<1>7. e.last # NoTime
  BY ScheduleAssumption
<1> HIDE DEF a
<1> QED
  BY <1>2, <1>4, <1>6, <1>7 DEF DeliveredOK, a

\* A poll leaves every cursor waiting for a later occurrence than the ones
\* that it and earlier polls have delivered.
LEMMA PollSchedulesInv ==
    ASSUME EngineInv, NEW at \in Utc, PollSchedules(at)
    PROVE  EngineInv'
<1>0. at \in Nat
  BY ScheduleAssumption
<1>1. ASSUME NEW k \in ScheduleKeys
      PROVE  CursorOK(k, cursor'[k]) /\ DeliveredOK(delivered'[k], cursor'[k])
  <2>1. CursorOK(k, Polled(k, at)) /\ Polled(k, at).last = cursor[k].last
    BY <1>1, PolledOK
  <2>2. DeliveredOK(delivered[k], cursor[k]) /\ CursorOK(k, cursor[k])
    BY DEF EngineInv
  <2>3. CASE ~Due(k, at)
    <3>1. cursor'[k] = Polled(k, at) /\ delivered'[k] = delivered[k]
      BY <2>3 DEF PollSchedules
    <3> QED
      BY <2>1, <2>2, <3>1 DEF DeliveredOK
  <2>4. CASE Due(k, at)
    <3> DEFINE next == Polled(k, at).next
               o    == Latest(k, next, at)
               n    == NextOccurrenceAfter(k, at)
    <3>1. next \in Occurrences[k] /\ next <= at
      BY <2>1, <2>4 DEF Due, CursorOK
    <3>2. o \in Occurrences[k] /\ next <= o /\ o <= at
      BY <1>0, <3>1, LatestResult
    <3>3. o \in Nat /\ next \in Nat
      BY <3>1, <3>2, ScheduleAssumption
    <3>4. cursor'[k] = [last |-> o, next |-> n, rebase |-> FALSE]
          /\ delivered'[k] = Append(delivered[k], o)
      BY <2>4 DEF PollSchedules
    <3>5. n = NoTime \/ (n \in Occurrences[k] /\ n > at)
      BY <1>0, NextOccurrenceAfterResult
    <3>6. cursor[k].last \in Times /\ (cursor[k].last # NoTime => cursor[k].last < o)
      <4>1. cursor[k].last \in Times
        BY <2>2 DEF CursorOK, Cursor
      <4>2. next # NoTime
        BY <3>3, ScheduleAssumption
      <4>3. cursor[k].last # NoTime => cursor[k].last < next
        BY <2>1, <4>2 DEF CursorOK
      <4> QED
        BY <3>2, <3>3, <4>1, <4>3 DEF Times
    <3> HIDE DEF next, o, n
    <3>7. DeliveredOK(Append(delivered[k], o), cursor'[k])
      BY <2>2, <3>3, <3>4, <3>6, AppendOK
    <3>8. n \in Times /\ (n # NoTime => n \in Occurrences[k] /\ o < n)
      <4>1. Occurrences[k] \subseteq Nat
        BY ScheduleAssumption
      <4> QED
        BY <1>0, <3>2, <3>3, <3>5, <4>1 DEF Times
    <3>9. CursorOK(k, cursor'[k])
      BY <3>3, <3>4, <3>8 DEF CursorOK, Cursor, Times
    <3> QED
      BY <3>4, <3>7, <3>9
  <2> QED
    BY <2>3, <2>4
<1>2. \A k \in ScheduleKeys : cursor'[k] \in Cursor /\ delivered'[k] \in Seq(Nat)
  BY <1>1 DEF CursorOK, DeliveredOK
<1>3. DOMAIN cursor' = ScheduleKeys /\ DOMAIN delivered' = ScheduleKeys
  BY DEF PollSchedules
<1>4. cursor' = [k \in ScheduleKeys |-> cursor'[k]]
      /\ delivered' = [k \in ScheduleKeys |-> delivered'[k]]
  BY DEF PollSchedules
<1>5. cursor' \in [ScheduleKeys -> Cursor] /\ delivered' \in [ScheduleKeys -> Seq(Nat)]
  BY <1>2, <1>4
<1> QED
  BY <1>0, <1>1, <1>5 DEF EngineInv, PollSchedules, Times

\* A call that delivers nothing, and whose new cursors wait for occurrences
\* after the last delivery, keeps the invariant.
LEMMA QuietInv ==
    ASSUME EngineInv, enabled' \in [Blocks -> BOOLEAN], lastWall' \in Times,
           delivered' = delivered,
           NEW f, cursor' = f, f = [k \in ScheduleKeys |-> f[k]],
           \A k \in ScheduleKeys : CursorOK(k, f[k]) /\ f[k].last = cursor[k].last
    PROVE  EngineInv'
<1>1. cursor' \in [ScheduleKeys -> Cursor]
  BY DEF CursorOK
<1>2. \A k \in ScheduleKeys : DeliveredOK(delivered'[k], cursor'[k])
  BY DEF EngineInv, DeliveredOK
<1> QED
  BY <1>1, <1>2 DEF EngineInv

\* initialise_schedules, with a sample or without.
LEMMA InitialisedInv ==
    ASSUME NEW wall \in Utc \cup {NoTime}, InitialiseSchedules(wall),
           enabled \in [Blocks -> BOOLEAN], delivered = [k \in ScheduleKeys |-> <<>>]
    PROVE  EngineInv
<1>1. ASSUME NEW k \in ScheduleKeys
      PROVE  CursorOK(k, cursor[k]) /\ DeliveredOK(delivered[k], cursor[k])
  <2> DEFINE n == IF wall = NoTime THEN NoTime ELSE NextOccurrenceAfter(k, wall)
  <2>1. cursor[k] = [last |-> NoTime, next |-> n, rebase |-> wall = NoTime]
    BY DEF InitialiseSchedules
  <2>2. n = NoTime \/ n \in Occurrences[k]
    BY ScheduleAssumption, NextOccurrenceAfterResult
  <2>3. n \in Times
    BY <2>2, ScheduleAssumption DEF Times
  <2> HIDE DEF n
  <2>4. CursorOK(k, cursor[k])
    BY <2>1, <2>2, <2>3 DEF CursorOK, Cursor, Times
  <2>5. delivered[k] = <<>>
    OBVIOUS
  <2>6. DeliveredOK(delivered[k], cursor[k])
    BY <2>1, <2>5, EmptySeq DEF DeliveredOK
  <2> QED
    BY <2>4, <2>6
<1>2. cursor = [k \in ScheduleKeys |-> cursor[k]] /\ delivered = [k \in ScheduleKeys |-> delivered[k]]
  BY DEF InitialiseSchedules
<1>3. cursor \in [ScheduleKeys -> Cursor] /\ delivered \in [ScheduleKeys -> Seq(Nat)]
  BY <1>1, <1>2 DEF CursorOK, DeliveredOK
<1> QED
  BY <1>1, <1>3, ScheduleAssumption DEF InitialiseSchedules, EngineInv, Times

LEMMA PollUnavailableInv ==
    ASSUME EngineInv, PollUnavailable
    PROVE  EngineInv'
<1> DEFINE f == [k \in ScheduleKeys |-> Paused(cursor[k])]
<1>1. \A k \in ScheduleKeys : CursorOK(k, f[k]) /\ f[k].last = cursor[k].last
  BY PausedOK DEF EngineInv
<1> QED
  BY <1>1, QuietInv DEF PollUnavailable, EngineInv, Times

LEMMA ActivatedOK ==
    ASSUME EngineInv, NEW b \in Blocks
    PROVE  \A k \in ScheduleKeys :
              CursorOK(k, Activated(b)[k]) /\ Activated(b)[k].last = cursor[k].last
  BY PausedOK DEF Activated, EngineInv

LEMMA ActivateBlockInv ==
    ASSUME EngineInv, NEW b \in Blocks, NEW on \in BOOLEAN, ActivateBlock(b, on)
    PROVE  EngineInv'
<1> DEFINE f == Activated(b)
<1>1. f = [k \in ScheduleKeys |-> f[k]]
  BY DEF Activated
<1>2. cursor' = f /\ delivered' = delivered /\ lastWall' = lastWall
      /\ enabled' \in [Blocks -> BOOLEAN]
  BY DEF ActivateBlock, EngineInv
<1>3. \A k \in ScheduleKeys : CursorOK(k, f[k]) /\ f[k].last = cursor[k].last
  BY ActivatedOK
<1>4. lastWall' \in Times
  BY <1>2 DEF EngineInv
<1> HIDE DEF f
<1> QED
  BY <1>1, <1>2, <1>3, <1>4, QuietInv

LEMMA ReenableBlockInv ==
    ASSUME EngineInv, NEW b \in Blocks, NEW wall \in Utc \cup {NoTime}, ReenableBlock(b, wall)
    PROVE  EngineInv'
<1> DEFINE a == Activated(b)
           f == Rebaselined(a, b, wall)
<1>1. f = [k \in ScheduleKeys |-> f[k]]
  BY DEF Rebaselined
<1>2. cursor' = f /\ delivered' = delivered /\ lastWall' \in {NoTime, lastWall}
      /\ enabled' \in [Blocks -> BOOLEAN]
  BY DEF ReenableBlock, EngineInv
<1>3. \A k \in ScheduleKeys : CursorOK(k, a[k]) /\ a[k].last = cursor[k].last
  BY ActivatedOK
<1>4. wall = NoTime \/ wall \in Nat
  BY ScheduleAssumption
<1> HIDE DEF a
<1>5. \A k \in ScheduleKeys : CursorOK(k, f[k]) /\ f[k].last = cursor[k].last
  BY <1>3, <1>4, PausedOK, RebasedOK DEF Rebaselined
<1>6. lastWall' \in Times
  BY <1>2 DEF EngineInv, Times
<1> HIDE DEF f
<1> QED
  BY <1>1, <1>2, <1>5, <1>6, QuietInv

\* The cursors are sound in every reachable state, whatever the wall clock does.
THEOREM EngineInvariant == Spec => []EngineInv
<1>1. Init => EngineInv
  BY InitialisedInv DEF Init
<1>2. EngineInv /\ [Next]_vars => EngineInv'
  <2> SUFFICES ASSUME EngineInv, [Next]_vars PROVE EngineInv'
    OBVIOUS
  <2>1. CASE \E b \in Blocks, wall \in ReenableSamples : ReenableBlock(b, wall)
    BY <2>1, ReenableBlockInv, ScheduleAssumption
  <2>2. CASE UNCHANGED vars
    BY <2>2 DEF vars, EngineInv
  <2> QED
    BY <2>1, <2>2, PollUnavailableInv, PollSchedulesInv, ActivateBlockInv DEF Next
<1> QED
  BY <1>1, <1>2, PTL DEF Spec

LEMMA OrderedLog == EngineInv => DeliveredOnceInOrder
<1> SUFFICES ASSUME EngineInv, NEW k \in ScheduleKeys
             PROVE  \A i, j \in DOMAIN delivered[k] : i < j => delivered[k][i] < delivered[k][j]
  BY DEF DeliveredOnceInOrder
<1>1. DeliveredOK(delivered[k], cursor[k])
  BY DEF EngineInv
<1>2. DOMAIN delivered[k] = 1..Len(delivered[k])
  BY <1>1, LenProperties DEF DeliveredOK
<1> QED
  BY <1>1, <1>2 DEF DeliveredOK

\* poll_schedules never delivers an occurrence twice or out of order, whatever
\* the wall clock does and however blocks are switched off and on.
THEOREM DeliveredOnceInOrderHolds == Spec => []DeliveredOnceInOrder
  BY OrderedLog, EngineInvariant, PTL

-----------------------------------------------------------------------------
\* What passes while a schedule is off, and while it is on duty

\* next_occurrence_after passes over no occurrence.
LEMMA NextOccurrenceAfterLeast ==
    ASSUME NEW k \in ScheduleKeys, NEW t \in Nat, NEW o \in Occurrences[k], o > t
    PROVE  NextOccurrenceAfter(k, t) # NoTime /\ NextOccurrenceAfter(k, t) <= o
<1> DEFINE S == {p \in Occurrences[k] : p > t}
<1>1. S \in SUBSET Nat /\ S # {}
  BY ScheduleAssumption
<1>2. PICK q \in S : \A p \in S : q <= p
  BY <1>1, LeastNatural
<1>3. \E q1 \in Occurrences[k] : q1 > t /\ \A p \in Occurrences[k] : p > t => q1 <= p
  BY <1>2
<1>4. NextOccurrenceAfter(k, t) \in Occurrences[k] /\ NextOccurrenceAfter(k, t) <= o
  BY <1>3 DEF NextOccurrenceAfter
<1> QED
  BY <1>4, ScheduleAssumption

\* The coalescing loop passes over no later occurrence.
LEMMA LatestGreatest ==
    ASSUME NEW k \in ScheduleKeys, NEW next \in Occurrences[k], NEW at \in Nat, next <= at,
           NEW p \in Occurrences[k], p <= at
    PROVE  p <= Latest(k, next, at)
<1> DEFINE S == {o \in Occurrences[k] : o <= at}
<1>1. S \in SUBSET Nat /\ next \in S
  BY ScheduleAssumption
<1>2. PICK o \in S : \A q \in S : q <= o
  BY <1>1, GreatestNatural
<1>3. \E q \in Occurrences[k] :
         /\ next <= q /\ q <= at
         /\ \A r \in Occurrences[k] : r <= at => r <= q
  BY <1>1, <1>2
<1> QED
  BY <1>3 DEF Latest

\* A cursor with a baseline at time now: it waits for the first occurrence after now
\* and after the last delivery.
Fresh(k, c, at) ==
    /\ c.rebase = FALSE
    /\ c.next # NoTime => c.next \in Nat /\ c.next > at
    /\ \A o \in Occurrences[k] :
          o > at /\ (c.last # NoTime => o > c.last) => c.next # NoTime /\ c.next <= o

\* rebaseline: the new baseline passes over nothing after it.
LEMMA RebasedFresh ==
    ASSUME NEW k \in ScheduleKeys, NEW c, CursorOK(k, c), NEW at \in Nat
    PROVE  Fresh(k, Rebased(k, c, at), at)
<1> DEFINE t == IF c.last # NoTime /\ c.last > at THEN c.last ELSE at
           n == NextNotBefore(k, at, c.last)
<1>1. c.last \in Times
  BY DEF CursorOK, Cursor
<1>2. t \in Nat /\ t >= at
  BY <1>1, ScheduleAssumption DEF Times
<1>3. n = NextOccurrenceAfter(k, t)
  BY DEF NextNotBefore
<1>4. Occurrences[k] \subseteq Nat
  BY ScheduleAssumption
<1>5. \A o \in Occurrences[k] : o > at /\ (c.last # NoTime => o > c.last) => o > t
  BY <1>1, <1>4 DEF Times
<1>6. Rebased(k, c, at) = [last |-> c.last, next |-> n, rebase |-> FALSE]
  BY DEF Rebased
<1> HIDE DEF t, n
<1>7. n # NoTime => n \in Nat /\ n > at
  <2>1. n = NoTime \/ (n \in Occurrences[k] /\ n > t)
    BY <1>2, <1>3, NextOccurrenceAfterResult
  <2> QED
    BY <1>2, <1>4, <2>1
<1>8. \A o \in Occurrences[k] :
         o > at /\ (c.last # NoTime => o > c.last) => n # NoTime /\ n <= o
  BY <1>2, <1>3, <1>5, NextOccurrenceAfterLeast
<1> QED
  BY <1>6, <1>7, <1>8 DEF Fresh

\* A poll gives a schedule on duty a new baseline, or uses the cursor it has.
LEMMA PolledOnDuty ==
    ASSUME EngineInv, NEW k \in ScheduleKeys, NEW at \in Utc, OnDuty(k)
    PROVE  \/ Fresh(k, Polled(k, at), at)
           \/ ~ClockLost(at) /\ ~cursor[k].rebase /\ Polled(k, at) = cursor[k]
<1>1. at \in Nat /\ CursorOK(k, cursor[k])
  BY ScheduleAssumption DEF EngineInv
<1>2. CASE ClockLost(at)
  <2>1. Recomputed(k, at) = Rebased(k, cursor[k], at)
    BY <1>2 DEF Recomputed
  <2>2. Fresh(k, Recomputed(k, at), at)
    BY <1>1, <2>1, RebasedFresh
  <2>3. Polled(k, at) = Recomputed(k, at)
    BY <2>2 DEF Polled, Fresh
  <2> QED
    BY <2>2, <2>3
<1>3. CASE ~ClockLost(at)
  <2>1. Recomputed(k, at) = cursor[k]
    BY <1>3 DEF Recomputed
  <2>2. CASE cursor[k].rebase
    <3>1. Polled(k, at) = Rebased(k, cursor[k], at)
      BY <2>1, <2>2 DEF Polled
    <3> QED
      BY <1>1, <3>1, RebasedFresh
  <2>3. CASE ~cursor[k].rebase
    BY <1>3, <2>1, <2>3 DEF Polled
  <2> QED
    BY <2>2, <2>3
<1> QED
  BY <1>2, <1>3

\* Everything a schedule on duty has missed is before the occurrence it waits for.
MissedOK(k) ==
    /\ missed[k] \subseteq Nat
    /\ OnDuty(k) /\ cursor[k].next # NoTime => \A o \in missed[k] : o < cursor[k].next
    /\ trigger[k] \notin missed[k]
MissedInv == \A k \in ScheduleKeys : MissedOK(k)

\* poll_schedules: what is due is after everything missed; what passes a schedule that is
\* off is missed, and not delivered.
LEMMA PollSchedulesMissed ==
    ASSUME EngineInv, MissedInv, NEW at \in Utc, PollSchedules(at)
    PROVE  MissedInv'
<1> SUFFICES ASSUME NEW k \in ScheduleKeys PROVE MissedOK(k)'
  BY DEF MissedInv
<1>1. at \in Nat /\ at # NoTime /\ NoTime \notin Nat /\ Occurrences[k] \subseteq Nat
  BY ScheduleAssumption
<1>2. MissedOK(k)
  BY DEF MissedInv
<1>3. OnDuty(k)' <=> OnDuty(k)
  BY DEF PollSchedules, OnDuty
<1>4. StillPast(k, at) = {o \in missed[k] : o <= at}
  BY <1>1 DEF StillPast
<1>5. CASE ~OnDuty(k)
  <2>1. trigger'[k] = NoTime
    BY <1>5 DEF PollSchedules, Due
  <2>2. \/ missed'[k] = StillPast(k, at)
        \/ missed'[k] = StillPast(k, at) \cup {o \in Occurrences[k] : lastWall < o /\ o <= at}
    BY DEF PollSchedules
  <2>3. missed'[k] \subseteq Nat
    BY <1>1, <1>2, <1>4, <2>2 DEF MissedOK
  <2> QED
    BY <1>1, <1>3, <1>5, <2>1, <2>3 DEF MissedOK
<1>6. CASE OnDuty(k)
  <2>1. missed'[k] = {o \in missed[k] : o <= at}
    BY <1>4, <1>6 DEF PollSchedules
  <2>2. missed'[k] \subseteq Nat
    BY <1>2, <2>1 DEF MissedOK
  <2> DEFINE next == Polled(k, at).next
  <2>3. next # NoTime => next \in Nat /\ \A o \in missed'[k] : o < next
    <3>1. CursorOK(k, Polled(k, at))
      BY PolledOK
    <3>2. next # NoTime => next \in Nat
      BY <1>1, <3>1 DEF CursorOK
    <3>3. CASE Fresh(k, Polled(k, at), at)
      BY <1>1, <2>1, <2>2, <3>2, <3>3 DEF Fresh
    <3>4. CASE Polled(k, at) = cursor[k]
      BY <1>2, <1>6, <2>1, <3>2, <3>4 DEF MissedOK
    <3> QED
      BY <1>6, <3>3, <3>4, PolledOnDuty
  <2>4. CASE ~Due(k, at)
    <3>1. trigger'[k] = NoTime /\ cursor'[k] = Polled(k, at)
      BY <2>4 DEF PollSchedules
    <3> QED
      BY <1>1, <2>2, <2>3, <3>1 DEF MissedOK
  <2>5. CASE Due(k, at)
    <3> DEFINE o == Latest(k, next, at)
               n == NextOccurrenceAfter(k, at)
    <3>1. trigger'[k] = o /\ cursor'[k].next = n
      BY <2>5 DEF PollSchedules
    <3>2. next \in Occurrences[k] /\ next <= at /\ next # NoTime
      BY <2>5, PolledOK DEF Due, CursorOK
    <3>3. o \in Occurrences[k] /\ next <= o
      BY <1>1, <3>2, LatestResult
    <3>4. n = NoTime \/ (n \in Occurrences[k] /\ n > at)
      BY <1>1, NextOccurrenceAfterResult
    <3> HIDE DEF next, o, n
    <3>5. o \notin missed'[k]
      BY <1>1, <2>2, <2>3, <3>2, <3>3
    <3>6. n # NoTime => \A p \in missed'[k] : p < n
      BY <1>1, <2>1, <2>2, <3>4
    <3> QED
      BY <2>2, <3>1, <3>5, <3>6 DEF MissedOK
  <2> QED
    BY <2>4, <2>5
<1> QED
  BY <1>5, <1>6

\* rebaseline_block_schedules with a sample gives the block's cursors a new baseline,
\* without one it leaves them waiting for it; other cursors stay as they are.
LEMMA ReenabledCursor ==
    ASSUME EngineInv, NEW b \in Blocks, NEW wall \in Utc \cup {NoTime}, ReenableBlock(b, wall),
           NEW k \in ScheduleKeys
    PROVE  /\ BlockOf[k] # b => cursor'[k] = cursor[k]
           /\ BlockOf[k] = b /\ wall = NoTime => cursor'[k].next = NoTime /\ cursor'[k].rebase
           /\ BlockOf[k] = b /\ wall # NoTime => Fresh(k, cursor'[k], wall)
<1>1. CursorOK(k, cursor[k])
  BY DEF EngineInv
<1>2. cursor' = Rebaselined(Activated(b), b, wall)
  BY DEF ReenableBlock
<1>3. CASE BlockOf[k] # b
  BY <1>2, <1>3 DEF Rebaselined, Activated
<1>4. CASE BlockOf[k] = b
  <2> DEFINE c == Activated(b)[k]
  <2>1. c = Paused(cursor[k]) /\ CursorOK(k, c)
    BY <1>1, <1>4, PausedOK DEF Activated
  <2> HIDE DEF c
  <2>2. cursor'[k] = IF wall = NoTime THEN Paused(c) ELSE Rebased(k, c, wall)
    BY <1>2, <1>4 DEF Rebaselined, c
  <2>3. CASE wall = NoTime
    BY <1>4, <2>1, <2>2, <2>3 DEF Paused, CursorOK, Cursor
  <2>4. CASE wall # NoTime
    BY <1>4, <2>1, <2>2, <2>4, RebasedFresh, ScheduleAssumption
  <2> QED
    BY <2>3, <2>4
<1> QED
  BY <1>3, <1>4

\* A block that is enabled again waits for occurrences after the sample.
LEMMA ReenableBlockMissed ==
    ASSUME EngineInv, MissedInv, NEW b \in Blocks, NEW wall \in Utc \cup {NoTime},
           ReenableBlock(b, wall)
    PROVE  MissedInv'
<1> SUFFICES ASSUME NEW k \in ScheduleKeys PROVE MissedOK(k)'
  BY DEF MissedInv
<1>1. MissedOK(k) /\ NoTime \notin Nat /\ (wall # NoTime => wall \in Nat)
  BY ScheduleAssumption DEF MissedInv
<1>2. trigger'[k] = NoTime /\ missed'[k] = StillPast(k, wall)
  BY DEF ReenableBlock, Nothing
<1>3. missed'[k] \subseteq missed[k] /\ missed'[k] \subseteq Nat
      /\ (wall # NoTime => \A o \in missed'[k] : o <= wall)
  BY <1>1, <1>2 DEF MissedOK, StillPast
<1>4. CASE BlockOf[k] # b
  <2>1. cursor'[k] = cursor[k] /\ (OnDuty(k)' <=> OnDuty(k))
    BY <1>4, ReenabledCursor, ScheduleAssumption DEF ReenableBlock, OnDuty, EngineInv
  <2> QED
    BY <1>1, <1>2, <1>3, <2>1 DEF MissedOK
<1>5. CASE BlockOf[k] = b
  <2>1. cursor'[k].next # NoTime => wall # NoTime /\ cursor'[k].next \in Nat /\ cursor'[k].next > wall
    BY <1>5, ReenabledCursor DEF Fresh
  <2> QED
    BY <1>1, <1>2, <1>3, <2>1 DEF MissedOK
<1> QED
  BY <1>4, <1>5

\* A changed flag leaves the block's cursors without an occurrence.
LEMMA ActivateBlockMissed ==
    ASSUME EngineInv, MissedInv, NEW b \in Blocks, NEW on \in BOOLEAN, ActivateBlock(b, on)
    PROVE  MissedInv'
<1> SUFFICES ASSUME NEW k \in ScheduleKeys PROVE MissedOK(k)'
  BY DEF MissedInv
<1>1. MissedOK(k) /\ NoTime \notin Nat /\ cursor[k] \in Cursor
  BY ScheduleAssumption DEF MissedInv, EngineInv
<1>2. trigger'[k] = NoTime /\ missed'[k] = missed[k]
  BY DEF ActivateBlock, Nothing
<1>3. CASE BlockOf[k] # b
  <2>1. cursor'[k] = cursor[k] /\ (OnDuty(k)' <=> OnDuty(k))
    BY <1>3, ScheduleAssumption DEF ActivateBlock, Activated, OnDuty, EngineInv
  <2> QED
    BY <1>1, <1>2, <2>1 DEF MissedOK
<1>4. CASE BlockOf[k] = b
  <2>1. cursor'[k].next = NoTime
    BY <1>1, <1>4 DEF ActivateBlock, Activated, Paused, Cursor
  <2> QED
    BY <1>1, <1>2, <2>1 DEF MissedOK
<1> QED
  BY <1>3, <1>4

\* What a schedule has missed while its block was off is behind its cursor.
THEOREM MissedInvariant == Spec => []MissedInv
<1>1. Init => MissedInv
  BY ScheduleAssumption DEF Init, MissedInv, MissedOK, Nothing
<1>2. EngineInv /\ MissedInv /\ [Next]_vars => MissedInv'
  <2> SUFFICES ASSUME EngineInv, MissedInv, [Next]_vars PROVE MissedInv'
    OBVIOUS
  <2>1. CASE PollUnavailable
    <3> SUFFICES ASSUME NEW k \in ScheduleKeys PROVE MissedOK(k)'
      BY DEF MissedInv
    <3>1. MissedOK(k) /\ NoTime \notin Nat /\ cursor[k] \in Cursor
      BY ScheduleAssumption DEF MissedInv, EngineInv
    <3>2. trigger'[k] = NoTime /\ missed'[k] = missed[k] /\ cursor'[k].next = NoTime
      BY <2>1, <3>1 DEF PollUnavailable, Nothing, Paused, Cursor
    <3> QED
      BY <3>1, <3>2 DEF MissedOK
  <2>2. CASE \E at \in Utc : PollSchedules(at)
    BY <2>2, PollSchedulesMissed
  <2>3. CASE \E b \in Blocks, on \in BOOLEAN : ActivateBlock(b, on)
    BY <2>3, ActivateBlockMissed
  <2>4. CASE \E b \in Blocks, wall \in ReenableSamples : ReenableBlock(b, wall)
    BY <2>4, ReenableBlockMissed, ScheduleAssumption
  <2>5. CASE UNCHANGED vars
    BY <2>5 DEF vars, MissedInv, MissedOK, OnDuty
  <2> QED
    BY <2>1, <2>2, <2>3, <2>4, <2>5 DEF Next
<1> QED
  BY <1>1, <1>2, EngineInvariant, PTL DEF Spec

\* What passed while a block was off is never delivered when it is on again, unless the
\* clock has gone back before it: poll_schedules re-baselines before it looks for due
\* occurrences.
THEOREM MissedStaysMissedHolds == Spec => []MissedStaysMissed
<1>1. MissedInv => MissedStaysMissed
  BY DEF MissedInv, MissedOK, MissedStaysMissed
<1> QED
  BY <1>1, MissedInvariant, PTL

-----------------------------------------------------------------------------
\* While a schedule is on duty no occurrence passes it by

\* The cursor c waits for every occurrence after base and after its last delivery.
Awaits(k, c, base) ==
    \A o \in Occurrences[k] :
        o > base /\ (c.last # NoTime => o > c.last) => c.next # NoTime /\ c.next <= o

\* A schedule that is watched is on duty with a baseline and a clock that has not passed
\* the time it was watched until.  A cursor with a baseline passes over nothing after
\* that time, or after the last sample when the schedule is not watched.
WatchedOK(k) ==
    /\ watched[k] \in Times
    /\ watched[k] # NoTime =>
          OnDuty(k) /\ ~cursor[k].rebase /\ lastWall # NoTime /\ lastWall <= watched[k]
    /\ OnDuty(k) /\ ~cursor[k].rebase /\ lastWall # NoTime =>
          Awaits(k, cursor[k], IF watched[k] # NoTime THEN watched[k] ELSE lastWall)
WatchedInv == \A k \in ScheduleKeys : WatchedOK(k)

\* The last delivery is in the log.
LoggedOK(d, c) == c.last # NoTime => \E i \in 1..Len(d) : d[i] = c.last
LoggedInv == \A k \in ScheduleKeys : LoggedOK(delivered[k], cursor[k])

\* Waiting for everything after a time is waiting for everything after a later one.
LEMMA AwaitsLater ==
    ASSUME NEW k \in ScheduleKeys, NEW c, NEW s \in Nat, NEW t \in Nat, s <= t, Awaits(k, c, s)
    PROVE  Awaits(k, c, t)
<1>1. Occurrences[k] \subseteq Nat
  BY ScheduleAssumption
<1> QED
  BY <1>1 DEF Awaits

\* A cursor with a baseline at now waits for everything after now.
LEMMA FreshAwaits ==
    ASSUME NEW k \in ScheduleKeys, NEW c, NEW at, Fresh(k, c, at)
    PROVE  ~c.rebase /\ Awaits(k, c, at)
BY DEF Fresh, Awaits

\* A cursor that has just delivered waits for everything after the poll.
LEMMA DeliveredAwaits ==
    ASSUME NEW k \in ScheduleKeys, NEW at \in Nat, NEW c, c.next = NextOccurrenceAfter(k, at)
    PROVE  Awaits(k, c, at)
BY NextOccurrenceAfterLeast DEF Awaits

\* poll_schedules, with or without a new baseline, passes over nothing after the poll.
LEMMA PollSchedulesWatched ==
    ASSUME EngineInv, WatchedInv, NEW at \in Utc, PollSchedules(at)
    PROVE  WatchedInv'
<1> SUFFICES ASSUME NEW k \in ScheduleKeys PROVE WatchedOK(k)'
  BY DEF WatchedInv
<1>1. at \in Nat /\ at # NoTime /\ NoTime \notin Nat
  BY ScheduleAssumption
<1>2. WatchedOK(k) /\ lastWall \in Times
  BY DEF WatchedInv, EngineInv
<1>3. (OnDuty(k)' <=> OnDuty(k)) /\ lastWall' = at
  BY DEF PollSchedules, OnDuty
<1>4. CASE ~OnDuty(k)
  <2>1. watched'[k] = NoTime
    BY <1>4 DEF PollSchedules
  <2> QED
    BY <1>3, <1>4, <2>1 DEF WatchedOK, Times
<1>5. CASE OnDuty(k)
  <2> DEFINE w == IF ClockLost(at) \/ watched[k] = NoTime THEN at
                  ELSE IF watched[k] > at THEN watched[k] ELSE at
  <2>1. watched'[k] = w
    BY <1>5 DEF PollSchedules
  <2>2. w \in Nat /\ at <= w
    BY <1>1, <1>2 DEF WatchedOK, Times
  <2>3. ~ClockLost(at) /\ ~cursor[k].rebase => Awaits(k, cursor[k], w)
    <3> SUFFICES ASSUME ~ClockLost(at), ~cursor[k].rebase PROVE Awaits(k, cursor[k], w)
      OBVIOUS
    <3>1. lastWall # NoTime /\ lastWall \in Nat /\ lastWall <= at
      BY <1>1, <1>2 DEF ClockLost, Times
    <3> DEFINE base == IF watched[k] # NoTime THEN watched[k] ELSE lastWall
    <3>2. Awaits(k, cursor[k], base)
      BY <1>2, <1>5, <3>1 DEF WatchedOK
    <3>3. base \in Nat /\ base <= w
      BY <1>1, <1>2, <3>1 DEF WatchedOK, Times
    <3> HIDE DEF base, w
    <3> QED
      BY <2>2, <3>2, <3>3, AwaitsLater
  <2> HIDE DEF w
  <2>4. ~cursor'[k].rebase /\ Awaits(k, cursor'[k], w)
    <3>1. CASE Due(k, at)
      <4>1. cursor'[k].next = NextOccurrenceAfter(k, at) /\ cursor'[k].rebase = FALSE
        BY <3>1 DEF PollSchedules
      <4>2. Awaits(k, cursor'[k], at)
        BY <1>1, <4>1, DeliveredAwaits
      <4> QED
        BY <1>1, <2>2, <4>1, <4>2, AwaitsLater
    <3>2. CASE ~Due(k, at)
      <4>1. cursor'[k] = Polled(k, at)
        BY <3>2 DEF PollSchedules
      <4>2. CASE Fresh(k, Polled(k, at), at)
        <5>1. ~cursor'[k].rebase /\ Awaits(k, cursor'[k], at)
          BY <4>1, <4>2, FreshAwaits
        <5> QED
          BY <1>1, <2>2, <5>1, AwaitsLater
      <4>3. CASE ~ClockLost(at) /\ ~cursor[k].rebase /\ Polled(k, at) = cursor[k]
        BY <2>3, <4>1, <4>3
      <4> QED
        BY <1>5, <4>2, <4>3, PolledOnDuty
    <3> QED
      BY <3>1, <3>2
  <2>5. w # NoTime
    BY <1>1, <2>2
  <2> QED
    BY <1>1, <1>3, <1>5, <2>1, <2>2, <2>4, <2>5 DEF WatchedOK, Times
<1> QED
  BY <1>4, <1>5

\* A sample that is behind the clock of the polls leaves a cursor that waits for more than
\* it must; one in step with it starts the watch.
LEMMA ReenableBlockWatched ==
    ASSUME EngineInv, WatchedInv, NEW b \in Blocks, NEW wall \in Utc, ReenableBlock(b, wall)
    PROVE  WatchedInv'
<1> SUFFICES ASSUME NEW k \in ScheduleKeys PROVE WatchedOK(k)'
  BY DEF WatchedInv
<1>1. wall \in Nat /\ wall # NoTime /\ NoTime \notin Nat
  BY ScheduleAssumption
<1>2. WatchedOK(k) /\ lastWall \in Times
  BY DEF WatchedInv, EngineInv
<1>3. lastWall' = lastWall
  BY <1>1 DEF ReenableBlock
<1>4. CASE BlockOf[k] # b
  <2>1. cursor'[k] = cursor[k]
    BY <1>4, ReenabledCursor
  <2>2. OnDuty(k)' <=> OnDuty(k)
    BY <1>4, ScheduleAssumption DEF ReenableBlock, OnDuty, EngineInv
  <2>3. watched'[k] = watched[k]
    BY <1>4 DEF ReenableBlock
  <2> QED
    BY <1>2, <1>3, <2>1, <2>2, <2>3 DEF WatchedOK
<1>5. CASE BlockOf[k] = b
  <2>1. Fresh(k, cursor'[k], wall)
    BY <1>1, <1>5, ReenabledCursor
  <2>2. ~cursor'[k].rebase /\ Awaits(k, cursor'[k], wall)
    BY <2>1, FreshAwaits
  <2>3. OnDuty(k)' <=> Switched[k]
    BY <1>5, ScheduleAssumption DEF ReenableBlock, OnDuty, EngineInv
  <2>4. CASE Switched[k] /\ InStep(wall)
    <3>1. watched'[k] = wall
      BY <1>5, <2>4 DEF ReenableBlock
    <3>2. lastWall # NoTime /\ lastWall <= wall
      BY <2>4 DEF InStep
    <3> QED
      BY <1>1, <1>3, <2>2, <2>3, <2>4, <3>1, <3>2 DEF WatchedOK, Times
  <2>5. CASE ~(Switched[k] /\ InStep(wall))
    <3>1. watched'[k] = NoTime
      BY <1>5, <2>5 DEF ReenableBlock
    <3>2. Switched[k] /\ lastWall # NoTime => Awaits(k, cursor'[k], lastWall)
      <4>1. Switched[k] /\ lastWall # NoTime => lastWall \in Nat /\ wall <= lastWall
        BY <1>1, <1>2, <2>5 DEF InStep, Times
      <4> QED
        BY <1>1, <2>2, <4>1, AwaitsLater
    <3> QED
      BY <1>3, <2>3, <3>1, <3>2 DEF WatchedOK, Times
  <2> QED
    BY <2>4, <2>5
<1> QED
  BY <1>4, <1>5

\* A changed flag ends the watch of the block's schedules.
LEMMA ActivateBlockWatched ==
    ASSUME EngineInv, WatchedInv, NEW b \in Blocks, NEW on \in BOOLEAN, ActivateBlock(b, on)
    PROVE  WatchedInv'
<1> SUFFICES ASSUME NEW k \in ScheduleKeys PROVE WatchedOK(k)'
  BY DEF WatchedInv
<1>1. WatchedOK(k) /\ cursor[k] \in Cursor /\ lastWall' = lastWall
  BY DEF WatchedInv, EngineInv, ActivateBlock
<1>2. CASE BlockOf[k] # b
  <2>1. cursor'[k] = cursor[k] /\ (OnDuty(k)' <=> OnDuty(k)) /\ watched'[k] = watched[k]
    BY <1>2, ScheduleAssumption DEF ActivateBlock, Activated, OnDuty, EngineInv
  <2> QED
    BY <1>1, <2>1 DEF WatchedOK
<1>3. CASE BlockOf[k] = b
  <2>1. cursor'[k].rebase /\ watched'[k] = NoTime
    BY <1>1, <1>3 DEF ActivateBlock, Activated, Paused, Cursor
  <2> QED
    BY <2>1 DEF WatchedOK, Times
<1> QED
  BY <1>2, <1>3

\* With a wall clock at every re-enabling, no cursor passes over an occurrence while its
\* schedule is on duty.
THEOREM WatchedInvariant ==
    ASSUME NoTime \notin ReenableSamples
    PROVE  Spec => []WatchedInv
<1>1. Init => WatchedInv
  <2> SUFFICES ASSUME Init, NEW k \in ScheduleKeys PROVE WatchedOK(k)
    BY DEF WatchedInv
  <2>1. PICK wall \in Utc \cup {NoTime} : InitialiseSchedules(wall)
    BY DEF Init
  <2>2. lastWall = wall /\ watched[k] = IF OnDuty(k) THEN wall ELSE NoTime
    BY <2>1 DEF InitialiseSchedules
  <2>3. CASE wall = NoTime
    BY <2>2, <2>3 DEF WatchedOK, Times
  <2>4. CASE wall # NoTime
    <3>1. wall \in Nat
      BY <2>4, ScheduleAssumption
    <3>2. cursor[k].next = NextOccurrenceAfter(k, wall) /\ ~cursor[k].rebase
      BY <2>1, <2>4 DEF InitialiseSchedules
    <3>3. Awaits(k, cursor[k], wall)
      BY <3>1, <3>2, DeliveredAwaits
    <3> QED
      BY <2>2, <2>4, <3>1, <3>2, <3>3 DEF WatchedOK, Times
  <2> QED
    BY <2>3, <2>4
<1>2. EngineInv /\ WatchedInv /\ [Next]_vars => WatchedInv'
  <2> SUFFICES ASSUME EngineInv, WatchedInv, [Next]_vars PROVE WatchedInv'
    OBVIOUS
  <2>1. CASE PollUnavailable
    <3> SUFFICES ASSUME NEW k \in ScheduleKeys PROVE WatchedOK(k)'
      BY DEF WatchedInv
    <3>1. watched'[k] = NoTime /\ lastWall' = NoTime
      BY <2>1 DEF PollUnavailable, Nothing
    <3> QED
      BY <3>1 DEF WatchedOK, Times
  <2>2. CASE \E at \in Utc : PollSchedules(at)
    BY <2>2, PollSchedulesWatched
  <2>3. CASE \E b \in Blocks, on \in BOOLEAN : ActivateBlock(b, on)
    BY <2>3, ActivateBlockWatched
  <2>4. CASE \E b \in Blocks, wall \in ReenableSamples : ReenableBlock(b, wall)
    BY <2>4, ReenableBlockWatched, ScheduleAssumption
  <2>5. CASE UNCHANGED vars
    BY <2>5 DEF vars, WatchedInv, WatchedOK, OnDuty
  <2> QED
    BY <2>1, <2>2, <2>3, <2>4, <2>5 DEF Next
<1> QED
  BY <1>1, <1>2, EngineInvariant, PTL DEF Spec

\* Every delivery of a cursor is logged: the log and poll_schedules agree on the last one.
THEOREM LoggedInvariant == Spec => []LoggedInv
<1>1. Init => LoggedInv
  BY DEF Init, InitialiseSchedules, LoggedInv, LoggedOK
<1>2. EngineInv /\ LoggedInv /\ [Next]_vars => LoggedInv'
  <2> SUFFICES ASSUME EngineInv, LoggedInv, [Next]_vars, NEW k \in ScheduleKeys
               PROVE  LoggedOK(delivered'[k], cursor'[k])
    BY DEF LoggedInv
  <2>1. LoggedOK(delivered[k], cursor[k]) /\ CursorOK(k, cursor[k])
    BY DEF LoggedInv, EngineInv
  <2>2. ASSUME delivered'[k] = delivered[k], cursor'[k].last = cursor[k].last
        PROVE  LoggedOK(delivered'[k], cursor'[k])
    BY <2>1, <2>2 DEF LoggedOK
  <2>3. CASE PollUnavailable
    BY <2>1, <2>2, <2>3, PausedOK DEF PollUnavailable
  <2>4. ASSUME NEW at \in Utc, PollSchedules(at)
        PROVE  LoggedOK(delivered'[k], cursor'[k])
    <3>1. CASE ~Due(k, at)
      <4>1. cursor'[k] = Polled(k, at) /\ delivered'[k] = delivered[k]
        BY <2>4, <3>1 DEF PollSchedules
      <4>2. Polled(k, at).last = cursor[k].last
        BY <2>4, PolledOK
      <4> QED
        BY <2>2, <4>1, <4>2
    <3>2. CASE Due(k, at)
      <4>1. cursor'[k].last = trigger'[k] /\ delivered'[k] = Append(delivered[k], trigger'[k])
        BY <2>4, <3>2 DEF PollSchedules
      <4>2. trigger'[k] \in Nat
        <5> DEFINE next == Polled(k, at).next
        <5>1. next \in Occurrences[k] /\ next <= at
          BY <2>4, <3>2, PolledOK DEF Due, CursorOK
        <5>2. trigger'[k] = Latest(k, next, at)
          BY <2>4, <3>2 DEF PollSchedules
        <5> HIDE DEF next
        <5>3. trigger'[k] \in Occurrences[k]
          BY <5>1, <5>2, LatestResult, ScheduleAssumption
        <5> QED
          BY <5>3, ScheduleAssumption
      <4>3. delivered[k] \in Seq(Nat)
        BY DEF EngineInv
      <4>4. /\ Len(delivered'[k]) = Len(delivered[k]) + 1 /\ Len(delivered[k]) \in Nat
            /\ delivered'[k][Len(delivered[k]) + 1] = trigger'[k]
        BY <4>1, <4>2, <4>3, AppendProperties, LenProperties
      <4>5. Len(delivered'[k]) \in 1..Len(delivered'[k])
        BY <4>4
      <4> QED
        BY <4>1, <4>4, <4>5 DEF LoggedOK
    <3> QED
      BY <3>1, <3>2
  <2>5. ASSUME NEW b \in Blocks, NEW on \in BOOLEAN, ActivateBlock(b, on)
        PROVE  LoggedOK(delivered'[k], cursor'[k])
    BY <2>1, <2>2, <2>5, PausedOK DEF ActivateBlock, Activated
  <2>6. ASSUME NEW b \in Blocks, NEW wall \in ReenableSamples, ReenableBlock(b, wall)
        PROVE  LoggedOK(delivered'[k], cursor'[k])
    <3> DEFINE c == Activated(b)[k]
    <3>1. CursorOK(k, c) /\ c.last = cursor[k].last
      BY <2>1, PausedOK DEF Activated
    <3> HIDE DEF c
    <3>2. cursor'[k] = IF BlockOf[k] # b THEN c
                       ELSE IF wall = NoTime THEN Paused(c) ELSE Rebased(k, c, wall)
      BY <2>6 DEF ReenableBlock, Rebaselined, c
    <3>3. wall # NoTime => wall \in Nat
      BY ScheduleAssumption
    <3>4. cursor'[k].last = cursor[k].last
      BY <3>1, <3>2, <3>3, PausedOK, RebasedOK
    <3> QED
      BY <2>2, <2>6, <3>4 DEF ReenableBlock
  <2>7. CASE UNCHANGED vars
    BY <2>2, <2>7 DEF vars
  <2> QED
    BY <2>3, <2>4, <2>5, <2>6, <2>7 DEF Next
<1> QED
  BY <1>1, <1>2, EngineInvariant, PTL DEF Spec

\* poll_schedules delivers, or coalesces into a later one of the same poll, every
\* occurrence that passes while a schedule is on duty and its clock moves forward, if
\* there is a wall clock whenever a block is re-enabled.
THEOREM NoOccurrenceSkippedHolds ==
    ASSUME NoTime \notin ReenableSamples
    PROVE  Spec => NoOccurrenceSkipped
<1> DEFINE Skipless(k, at) ==
      (/\ lastWall' = at /\ PollSchedules(at)
       /\ OnDuty(k) /\ watched[k] # NoTime /\ watched[k] <= at)
      => \A o \in Occurrences[k] :
            (/\ watched[k] < o /\ o <= at
             /\ \A i \in DOMAIN delivered[k] : delivered[k][i] < o)
            => trigger'[k] # NoTime /\ o <= trigger'[k]
<1>1. EngineInv /\ WatchedInv /\ LoggedInv => \A k \in ScheduleKeys, at \in Utc : Skipless(k, at)
  <2> SUFFICES ASSUME EngineInv, WatchedInv, LoggedInv, NEW k \in ScheduleKeys, NEW at \in Utc,
                      PollSchedules(at), OnDuty(k), watched[k] # NoTime, watched[k] <= at,
                      NEW o \in Occurrences[k], watched[k] < o, o <= at,
                      \A i \in DOMAIN delivered[k] : delivered[k][i] < o
               PROVE  trigger'[k] # NoTime /\ o <= trigger'[k]
    OBVIOUS
  <2>1. at \in Nat /\ o \in Nat /\ NoTime \notin Nat
    BY ScheduleAssumption
  <2>2. WatchedOK(k) /\ LoggedOK(delivered[k], cursor[k]) /\ lastWall \in Times
        /\ cursor[k] \in Cursor /\ delivered[k] \in Seq(Nat)
    BY DEF WatchedInv, LoggedInv, EngineInv
  <2>3. /\ ~cursor[k].rebase /\ lastWall # NoTime /\ lastWall <= watched[k]
        /\ Awaits(k, cursor[k], watched[k]) /\ watched[k] \in Nat /\ lastWall \in Nat
    BY <2>2 DEF WatchedOK, Times
  <2>4. ~ClockLost(at)
    BY <2>1, <2>3 DEF ClockLost
  <2>5. Polled(k, at) = cursor[k]
    BY <2>3, <2>4 DEF Polled, Recomputed
  <2>6. cursor[k].last # NoTime => o > cursor[k].last
    <3>1. DOMAIN delivered[k] = 1..Len(delivered[k])
      BY <2>2, LenProperties
    <3>2. cursor[k].last # NoTime => cursor[k].last < o
      BY <2>2, <3>1 DEF LoggedOK
    <3>3. cursor[k].last \in Times
      BY <2>2 DEF Cursor
    <3> QED
      BY <2>1, <3>2, <3>3 DEF Times
  <2> DEFINE next == cursor[k].next
  <2>7. next # NoTime /\ next <= o
    BY <2>1, <2>3, <2>6 DEF Awaits
  <2>8. next \in Occurrences[k] /\ next \in Nat
    BY <2>7, ScheduleAssumption DEF EngineInv, CursorOK
  <2>9. next <= at
    BY <2>1, <2>7, <2>8
  <2>10. trigger'[k] = Latest(k, next, at)
    BY <2>5, <2>7, <2>9 DEF PollSchedules, Due
  <2> HIDE DEF next
  <2>11. Latest(k, next, at) \in Occurrences[k] /\ o <= Latest(k, next, at)
    BY <2>1, <2>8, <2>9, LatestResult, LatestGreatest
  <2> QED
    BY <2>10, <2>11, ScheduleAssumption
<1>2. [][\A k \in ScheduleKeys, at \in Utc : Skipless(k, at)]_vars <=> NoOccurrenceSkipped
  BY DEF NoOccurrenceSkipped
<1> HIDE DEF Skipless
<1> QED
  BY <1>1, <1>2, EngineInvariant, WatchedInvariant, LoggedInvariant, PTL

-----------------------------------------------------------------------------
\* The host's scheduler

\* What the one sleep stands for, with the types that its arithmetic needs.
SchedulerInv ==
    /\ EngineInv
    /\ now \in 0..MaxNow /\ wallKnown \in BOOLEAN /\ wakeAt \in Nat
    /\ due \in [Timers -> Times]
    /\ NoDeadlineOverslept

\* next_timer_deadline and next_schedule_deadline return the least of the times.
LEMMA EarliestResult ==
    ASSUME NEW S \in SUBSET Times
    PROVE  /\ Earliest(S) \in Times
           /\ \A u \in S : u # NoTime => Earliest(S) # NoTime /\ Earliest(S) <= u
<1>1. CASE S \subseteq {NoTime}
  BY <1>1 DEF Earliest, Times
<1>2. CASE ~(S \subseteq {NoTime})
  <2> DEFINE T == S \ {NoTime}
  <2>1. T \in SUBSET Nat /\ T # {}
    BY <1>2 DEF Times
  <2>2. \E x \in T : \A y \in T : x <= y
    BY <2>1, LeastNatural
  <2>3. Earliest(S) = CHOOSE t \in T : \A u \in T : t <= u
    BY <1>2 DEF Earliest
  <2>4. Earliest(S) \in T /\ \A u \in T : Earliest(S) <= u
    BY <2>2, <2>3
  <2> QED
    BY <2>1, <2>4 DEF Times
<1> QED
  BY <1>1, <1>2

\* "as u64" keeps a duration that is not negative.
LEMMA AsU64Keeps ==
    ASSUME NEW i \in Int
    PROVE  AsU64(i) \in Nat /\ (0 <= i /\ i < Word => AsU64(i) = i)
<1>1. Word \in Nat \ {0}
  BY HostSchedulerAssumption
<1>2. i % Word \in 0..(Word - 1) /\ i \div Word \in Int /\ i = Word * (i \div Word) + (i % Word)
  BY <1>1
<1>3. PICK q \in Int, r \in 0..(Word - 1) : i = Word * q + r /\ r = i % Word
  BY <1>2
<1>4. ASSUME 0 <= i, i < Word PROVE q = 0
  <2>1. ASSUME q >= 1 PROVE FALSE
    <3>1. q - 1 \in Nat /\ Word * q = Word * (q - 1) + Word
      BY <1>1, <2>1
    <3>2. Word * (q - 1) \in Nat
      BY <1>1, <3>1
    <3> QED
      BY <1>1, <1>3, <1>4, <3>1, <3>2
  <2>2. ASSUME q <= -1 PROVE FALSE
    <3>1. -q - 1 \in Nat /\ Word * q = -(Word * (-q - 1)) - Word
      BY <1>1, <2>2
    <3>2. Word * (-q - 1) \in Nat
      BY <1>1, <3>1
    <3> QED
      BY <1>1, <1>3, <1>4, <3>1, <3>2
  <2> QED
    BY <2>1, <2>2
<1>5. 0 <= i /\ i < Word => r = i
  BY <1>1, <1>3, <1>4
<1> QED
  BY <1>1, <1>3, <1>5 DEF AsU64

LEMMA DeadlineTypes ==
    ASSUME EngineInv, due \in [Timers -> Times]
    PROVE  /\ NextTimerDeadline \in Times /\ NextScheduleDeadline \in Times
           /\ \A t \in Timers : due[t] # NoTime =>
                 NextTimerDeadline # NoTime /\ NextTimerDeadline <= due[t]
           /\ NextScheduleDeadline # NoTime => ScheduleKeys # {}
<1>1. {due[t] : t \in Timers} \in SUBSET Times
  OBVIOUS
<1>2. {cursor[k].next : k \in {k \in ScheduleKeys : OnDuty(k)}} \in SUBSET Times
  BY DEF EngineInv, Cursor
<1>3. NextScheduleDeadline # NoTime => ScheduleKeys # {}
  <2>1. ScheduleKeys = {} => {cursor[k].next : k \in {k \in ScheduleKeys : OnDuty(k)}} = {}
    OBVIOUS
  <2>2. Earliest({}) = NoTime
    BY DEF Earliest
  <2> QED
    BY <2>1, <2>2 DEF NextScheduleDeadline
<1>4. NextTimerDeadline \in Times /\ NextScheduleDeadline \in Times
  BY <1>1, <1>2, EarliestResult DEF NextTimerDeadline, NextScheduleDeadline
<1>5. \A u \in {due[t] : t \in Timers} : u # NoTime =>
          NextTimerDeadline # NoTime /\ NextTimerDeadline <= u
  BY <1>1, EarliestResult DEF NextTimerDeadline
<1> QED
  BY <1>3, <1>4, <1>5

\* timer_wait: the sleep armed now ends by every deadline that is ahead.
LEMMA TimerWaitCovers ==
    ASSUME EngineInv, now \in 0..MaxNow, wallKnown \in BOOLEAN, due \in [Timers -> Times]
    PROVE  /\ TimerWait \in Nat
           /\ \A t \in Timers :
                 due[t] # NoTime => now + TimerWait <= due[t] \/ now + TimerWait <= now
           /\ NextScheduleDeadline # NoTime /\ now <= NextScheduleDeadline =>
                 now + TimerWait <= NextScheduleDeadline \/ now + TimerWait <= now + Cap
<1>1. /\ now \in Nat /\ Cap \in Nat /\ Day \in Nat /\ Word \in Nat /\ Cap < Word /\ NoTime \notin Nat
  BY HostSchedulerAssumption, ScheduleAssumption
<1>2. /\ NextTimerDeadline \in Nat \cup {NoTime} /\ NextScheduleDeadline \in Nat \cup {NoTime}
      /\ \A t \in Timers : due[t] # NoTime =>
            NextTimerDeadline # NoTime /\ NextTimerDeadline <= due[t]
      /\ \A t \in Timers : due[t] \in Nat \cup {NoTime}
      /\ NextScheduleDeadline # NoTime => ScheduleKeys # {}
  BY DeadlineTypes DEF Times
<1>3. /\ TimerOnlyWait \in Nat
      /\ NextTimerDeadline # NoTime =>
            now + TimerOnlyWait <= NextTimerDeadline \/ TimerOnlyWait = 0
  <2>1. CASE NextTimerDeadline = NoTime
    BY <1>1, <2>1 DEF TimerOnlyWait
  <2>2. CASE NextTimerDeadline # NoTime
    BY <1>1, <1>2, <2>2 DEF TimerOnlyWait, Until
  <2> QED
    BY <2>1, <2>2
<1>4. /\ ScheduleWait \in Nat
      /\ NextScheduleDeadline # NoTime /\ now <= NextScheduleDeadline =>
            now + ScheduleWait <= NextScheduleDeadline \/ ScheduleWait <= Cap
  <2>1. CASE NextScheduleDeadline # NoTime /\ Wall # NoTime
    <3>1. Wall = now /\ NextScheduleDeadline \in Nat
      BY <1>2, <2>1 DEF Wall
    <3>2. PICK i \in Int : i = Min(NextScheduleDeadline - now, Cap)
      <4>1. NextScheduleDeadline - now \in Int /\ Cap \in Int
        BY <1>1, <3>1
      <4>2. Min(NextScheduleDeadline - now, Cap) \in Int
        BY <4>1 DEF Min
      <4> QED
        BY <4>2
    <3>3. ScheduleWait = AsU64(i)
      BY <2>1, <3>1, <3>2 DEF ScheduleWait
    <3>4. now <= NextScheduleDeadline => 0 <= i /\ i < Word /\ i <= Cap
      BY <1>1, <3>1, <3>2 DEF Min
    <3> QED
      BY <3>3, <3>4, AsU64Keeps
  <2>2. CASE ~(NextScheduleDeadline # NoTime /\ Wall # NoTime)
    BY <1>1, <1>2, <2>2 DEF ScheduleWait
  <2> QED
    BY <2>1, <2>2
<1>5. TimerWait \in Nat /\ TimerWait <= TimerOnlyWait /\ TimerWait <= ScheduleWait
  BY <1>3, <1>4 DEF TimerWait, Min
<1>6. ASSUME NEW t \in Timers, due[t] # NoTime
      PROVE  now + TimerWait <= due[t] \/ now + TimerWait <= now
  <2>1. due[t] \in Nat /\ NextTimerDeadline \in Nat /\ NextTimerDeadline # NoTime
        /\ NextTimerDeadline <= due[t]
    BY <1>2, <1>6
  <2> QED
    BY <1>1, <1>3, <1>5, <2>1
<1>7. ASSUME NextScheduleDeadline # NoTime, now <= NextScheduleDeadline
      PROVE  now + TimerWait <= NextScheduleDeadline \/ now + TimerWait <= now + Cap
  <2>1. NextScheduleDeadline \in Nat
    BY <1>2, <1>7
  <2> QED
    BY <1>1, <1>4, <1>5, <1>7, <2>1
<1> QED
  BY <1>5, <1>6, <1>7

\* Cascades leave every timer with a deadline or without one.
LEMMA CancelledTimes ==
    ASSUME NEW d \in [Timers -> Times], NEW e \in Cancelled(d)
    PROVE  e \in [Timers -> Times]
<1>1. PICK off \in SUBSET Timers : e = [t \in Timers |-> IF t \in off THEN NoTime ELSE d[t]]
  BY DEF Cancelled
<1> QED
  BY <1>1 DEF Times

LEMMA TimersAfterTimes ==
    ASSUME now \in 0..MaxNow, NEW d \in [Timers -> Times], NEW e \in TimersAfter(d)
    PROVE  e \in [Timers -> Times]
<1>1. PICK c \in Cancelled(d), armed \in UNION {[on -> Delays] : on \in SUBSET Timers} :
         e = [t \in Timers |-> IF t \in DOMAIN armed THEN armed[t] ELSE c[t]]
  BY DEF TimersAfter
<1>2. PICK on \in SUBSET Timers : armed \in [on -> Delays]
  OBVIOUS
<1>3. c \in [Timers -> Times]
  BY CancelledTimes
<1>4. Delays \subseteq Times
  BY HostSchedulerAssumption DEF Delays, Times
<1>5. \A t \in Timers : t \in DOMAIN armed => armed[t] \in Times
  BY <1>2, <1>4
<1> QED
  BY <1>1, <1>3, <1>5

LEMMA WallSample ==
    ASSUME now \in 0..MaxNow, wallKnown \in BOOLEAN
    PROVE  Wall \in Utc \cup {NoTime} /\ (Wall # NoTime => Wall \in Utc)
  BY HostSchedulerAssumption DEF Wall

LEMMA HostInitInv ==
    ASSUME HostInit
    PROVE  SchedulerInv
<1>1. now = 0 /\ now \in 0..MaxNow /\ wallKnown \in BOOLEAN
  BY HostSchedulerAssumption DEF HostInit
<1>2. due \in [Timers -> Times]
  BY DEF HostInit, Times
<1>3. EngineInv
  BY <1>1, WallSample, InitialisedInv DEF HostInit
<1>4. wakeAt = TimerWait
  BY DEF HostInit
<1>5. /\ TimerWait \in Nat
      /\ \A t \in Timers :
            due[t] # NoTime => now + TimerWait <= due[t] \/ now + TimerWait <= now
      /\ NextScheduleDeadline # NoTime /\ now <= NextScheduleDeadline =>
            now + TimerWait <= NextScheduleDeadline \/ now + TimerWait <= now + Cap
  BY <1>1, <1>2, <1>3, TimerWaitCovers
<1>6. now + TimerWait = wakeAt
  BY <1>1, <1>4, <1>5
<1>7. NoDeadlineOverslept
  BY <1>5, <1>6 DEF NoDeadlineOverslept
<1> QED
  BY <1>1, <1>2, <1>3, <1>4, <1>5, <1>7 DEF SchedulerInv

LEMMA WithinLater ==
    ASSUME NEW a \in Nat, NEW b \in Nat, a <= b, NEW c \in Nat, NEW w \in Nat
    PROVE  w <= a + c => w <= b + c
  OBVIOUS

\* Between turns nothing but time moves.
LEMMA WaitingInv ==
    ASSUME SchedulerInv, UNCHANGED <<engineVars, due, wakeAt, pc>>,
           now' \in Nat, now <= now'
    PROVE  EngineInv' /\ NoDeadlineOverslept'
<1>1. enabled' = enabled /\ cursor' = cursor /\ lastWall' = lastWall /\ delivered' = delivered
  BY DEF engineVars, vars
<1>2. EngineInv'
  BY <1>1 DEF SchedulerInv, EngineInv
<1>3. NextScheduleDeadline' = NextScheduleDeadline
  BY <1>1 DEF NextScheduleDeadline, OnDuty
<1>4. NextScheduleDeadline \in Times /\ now \in Nat /\ wakeAt \in Nat /\ Cap \in Nat
      /\ due \in [Timers -> Times] /\ NoTime \notin Nat
  BY DeadlineTypes, HostSchedulerAssumption, ScheduleAssumption DEF SchedulerInv
<1>5. SUFFICES ASSUME pc = "select"
               PROVE  /\ \A t \in Timers : due[t] # NoTime => wakeAt <= due[t] \/ wakeAt <= now'
                      /\ NextScheduleDeadline # NoTime /\ now' <= NextScheduleDeadline
                            => wakeAt <= NextScheduleDeadline \/ wakeAt <= now' + Cap
  BY <1>2, <1>3 DEF NoDeadlineOverslept
<1>6. /\ \A t \in Timers : due[t] # NoTime => wakeAt <= due[t] \/ wakeAt <= now
      /\ NextScheduleDeadline # NoTime /\ now <= NextScheduleDeadline
            => wakeAt <= NextScheduleDeadline \/ wakeAt <= now + Cap
  BY <1>5 DEF SchedulerInv, NoDeadlineOverslept
<1>7. \A t \in Timers : due[t] # NoTime => wakeAt <= due[t] \/ wakeAt <= now'
  BY <1>4, <1>6
<1>8. NextScheduleDeadline # NoTime /\ now' <= NextScheduleDeadline
          => wakeAt <= NextScheduleDeadline \/ wakeAt <= now' + Cap
  <2>1. SUFFICES ASSUME NextScheduleDeadline # NoTime, now' <= NextScheduleDeadline
                 PROVE  wakeAt <= NextScheduleDeadline \/ wakeAt <= now' + Cap
    OBVIOUS
  <2>2. NextScheduleDeadline \in Nat
    BY <1>4, <2>1 DEF Times
  <2>3. now <= NextScheduleDeadline
    BY <1>4, <2>1, <2>2
  <2>4. wakeAt <= NextScheduleDeadline \/ wakeAt <= now + Cap
    BY <1>6, <2>1, <2>3
  <2>5. now \in Nat /\ Cap \in Nat /\ wakeAt \in Nat
    BY <1>4
  <2>6. wakeAt <= now + Cap => wakeAt <= now' + Cap
    BY <2>5, WithinLater
  <2> QED
    BY <2>4, <2>6
<1> QED
  BY <1>7, <1>8

LEMMA EngineFrame ==
    ASSUME EngineInv, UNCHANGED engineVars
    PROVE  EngineInv'
  BY DEF engineVars, vars, EngineInv

LEMMA HostNextInv ==
    ASSUME SchedulerInv, [HostNext]_<<engineVars, hostVars>>
    PROVE  SchedulerInv'
<1>1. /\ EngineInv /\ now \in 0..MaxNow /\ wallKnown \in BOOLEAN /\ wakeAt \in Nat
      /\ due \in [Timers -> Times] /\ now \in Nat /\ MaxNow \in Nat
  BY HostSchedulerAssumption DEF SchedulerInv
<1>2. CASE Wake
  <2>1. pc' # "select" /\ UNCHANGED <<engineVars, now, wallKnown, due, wakeAt>>
    BY <1>2 DEF Wake
  <2> QED
    BY <1>1, <2>1, EngineFrame DEF SchedulerInv, NoDeadlineOverslept
<1>3. CASE DrainTimer
  <2>1. pc = "drain" /\ pc' \in {"drain", "poll"} /\ UNCHANGED <<engineVars, now, wallKnown, wakeAt>>
    BY <1>3 DEF DrainTimer, Draining
  <2>2. due' \in [Timers -> Times]
    <3>1. PICK t \in Timers : \/ due' \in TimersAfter([due EXCEPT ![t] = NoTime])
                              \/ due' = due
                              \/ due' \in Cancelled([due EXCEPT ![t] = NoTime])
      BY <1>3 DEF DrainTimer
    <3>2. [due EXCEPT ![t] = NoTime] \in [Timers -> Times]
      BY <1>1 DEF Times
    <3> QED
      BY <1>1, <3>1, <3>2, TimersAfterTimes, CancelledTimes
  <2> QED
    BY <1>1, <2>1, <2>2, EngineFrame DEF SchedulerInv, NoDeadlineOverslept
<1>4. CASE DrainReturns
  <2>1. pc' # "select" /\ UNCHANGED <<engineVars, now, wallKnown, due, wakeAt>>
    BY <1>4 DEF DrainReturns
  <2> QED
    BY <1>1, <2>1, EngineFrame DEF SchedulerInv, NoDeadlineOverslept
<1>5. CASE PollAndProcess
  <2>1. pc' # "select" /\ UNCHANGED <<now, wallKnown, wakeAt>>
    BY <1>5 DEF PollAndProcess
  <2>2. EngineInv'
    BY <1>1, <1>5, WallSample, PollSchedulesInv, PollUnavailableInv DEF PollAndProcess
  <2>3. due' \in [Timers -> Times]
    BY <1>1, <1>5, TimersAfterTimes DEF PollAndProcess
  <2> QED
    BY <1>1, <2>1, <2>2, <2>3 DEF SchedulerInv, NoDeadlineOverslept
<1>6. CASE EventTurn
  <2>1. pc' # "select" /\ due' \in TimersAfter(due) /\ UNCHANGED <<engineVars, now, wallKnown, wakeAt>>
    BY <1>6 DEF EventTurn
  <2> QED
    BY <1>1, <2>1, EngineFrame, TimersAfterTimes DEF SchedulerInv, NoDeadlineOverslept
<1>7. CASE ActivationTurn
  <2>1. pc' # "select" /\ due' \in Cancelled(due) /\ UNCHANGED <<now, wallKnown, wakeAt>>
    BY <1>7 DEF ActivationTurn
  <2>2. PICK b \in Blocks : ActivateBlock(b, FALSE) \/ ReenableBlock(b, Wall)
    BY <1>7 DEF ActivationTurn
  <2>3. EngineInv'
    BY <1>1, <2>2, WallSample, ActivateBlockInv, ReenableBlockInv
  <2> QED
    BY <1>1, <2>1, <2>3, CancelledTimes DEF SchedulerInv, NoDeadlineOverslept
<1>8. CASE ResetTimerSleep
  <2>1. wakeAt' = now + TimerWait /\ UNCHANGED <<engineVars, now, wallKnown, due>>
    BY <1>8 DEF ResetTimerSleep
  <2>2. NextScheduleDeadline' = NextScheduleDeadline
    BY <2>1 DEF NextScheduleDeadline, OnDuty, engineVars, vars
  <2>3. /\ TimerWait \in Nat
        /\ \A t \in Timers :
              due[t] # NoTime => now + TimerWait <= due[t] \/ now + TimerWait <= now
        /\ NextScheduleDeadline # NoTime /\ now <= NextScheduleDeadline =>
              now + TimerWait <= NextScheduleDeadline \/ now + TimerWait <= now + Cap
    BY <1>1, TimerWaitCovers
  <2>4. NoDeadlineOverslept'
    BY <2>1, <2>2, <2>3 DEF NoDeadlineOverslept
  <2> QED
    BY <1>1, <2>1, <2>3, <2>4, EngineFrame DEF SchedulerInv
<1>9. CASE Tick
  <2>1. now' = now + 1 /\ now < MaxNow /\ UNCHANGED <<engineVars, wallKnown, due, wakeAt, pc>>
    BY <1>9 DEF Tick
  <2> QED
    BY <1>1, <2>1, WaitingInv DEF SchedulerInv
<1>10. CASE WallClockChanges
  <2>1. wallKnown' = ~wallKnown /\ UNCHANGED <<engineVars, now, due, wakeAt, pc>>
    BY <1>10 DEF WallClockChanges
  <2> QED
    BY <1>1, <2>1, WaitingInv DEF SchedulerInv
<1>11. CASE UNCHANGED <<engineVars, hostVars>>
  <2>1. UNCHANGED <<engineVars, now, wallKnown, due, wakeAt, pc>>
    BY <1>11 DEF hostVars
  <2> QED
    BY <1>1, <2>1, WaitingInv DEF SchedulerInv
<1> QED
  BY <1>2, <1>3, <1>4, <1>5, <1>6, <1>7, <1>8, <1>9, <1>10, <1>11 DEF HostNext

THEOREM SchedulerInvariant == HostSpec => []SchedulerInv
<1>1. HostInit => SchedulerInv
  BY HostInitInv
<1>2. SchedulerInv /\ [HostNext]_<<engineVars, hostVars>> => SchedulerInv'
  BY HostNextInv
<1> QED
  BY <1>1, <1>2, PTL DEF HostSpec

\* timer_wait and reset_timer_sleep: whatever the turns and the clock do between two
\* resets, the host never sleeps past the earliest timer, nor past the next occurrence
\* or the cap.
THEOREM NoDeadlineOversleptHolds == HostSpec => []NoDeadlineOverslept
<1>1. SchedulerInv => NoDeadlineOverslept
  BY DEF SchedulerInv
<1> QED
  BY <1>1, SchedulerInvariant, PTL

\* The engine's promise holds within the host's turns too, where a block is re-enabled
\* with whatever the wall clock then shows.
THEOREM HostDeliversOnceInOrder == HostSpec => []DeliveredOnceInOrder
<1>1. SchedulerInv => DeliveredOnceInOrder
  BY OrderedLog DEF SchedulerInv
<1> QED
  BY <1>1, SchedulerInvariant, PTL
=============================================================================
