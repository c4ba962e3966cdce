----------------------------- MODULE Schedules -----------------------------
(***************************************************************************)
(* The schedule engine of logiksmith-core: one cursor per schedule, moved  *)
(* by polls with a sample of the host's wall clock.  The wall clock is not *)
(* trusted: every sample is an arbitrary time, or none at all, so it may   *)
(* jump either way between two calls.  (The monotonic half of a sample is  *)
(* the business of module LogikRuntime.)                                   *)
(*                                                                         *)
(* A rule is modelled by the set of its occurrences; next_occurrence_after *)
(* computes the least one after a time.                                    *)
(*                                                                         *)
(* An operator named Mutant... is a plausible mistake in the definition    *)
(* that follows it; no specification uses it.                              *)
(*                                                                         *)
(* delivered, trigger, watched and missed are history variables: no code   *)
(* reads them.                                                             *)
(***************************************************************************)
EXTENDS Integers, Sequences

CONSTANTS
    ScheduleKeys,       \* (block id, schedule name) pairs
    Blocks,
    BlockOf,            \* the block of a schedule
    Switched,           \* BlockSchedule.enabled, fixed by the configuration
    Occurrences,        \* the occurrences of a schedule's rule
    Utc,                \* wall clock times a host may sample
    ReenableSamples,    \* samples the desktop may take when it re-enables a block
    NoTime,             \* no sample, no occurrence
    MaxDelivered        \* bound of the model: deliveries per schedule

ASSUME ScheduleAssumption ==
    /\ BlockOf \in [ScheduleKeys -> Blocks]
    /\ Switched \in [ScheduleKeys -> BOOLEAN]
    /\ Occurrences \in [ScheduleKeys -> SUBSET Nat]
    /\ Utc \subseteq Nat
    /\ NoTime \notin Nat
    /\ ReenableSamples \subseteq Utc \cup {NoTime}
    /\ MaxDelivered \in Nat

VARIABLES
    enabled,    \* [Blocks -> BOOLEAN]
    cursor,     \* [ScheduleKeys -> Cursor]       schedule_cursors
    lastWall,   \* last_schedule_wall_clock_utc_ms
    delivered,  \* history: the occurrences delivered by each schedule, in order
    trigger,    \* history: what the latest call delivered, NoTime if nothing
    watched,    \* history: the wall time since when a schedule has been on duty
    missed      \* history: occurrences that passed while a block was disabled

vars == <<enabled, cursor, lastWall, delivered, trigger, watched, missed>>

Times  == Nat \cup {NoTime}
Cursor == [last : Times, next : Times, rebase : BOOLEAN]

-----------------------------------------------------------------------------
\* Occurrences

\* next_occurrence_after: the first occurrence strictly after t.
NextOccurrenceAfter(k, t) ==
    IF \E o \in Occurrences[k] : o > t
    THEN CHOOSE o \in Occurrences[k] : o > t /\ \A p \in Occurrences[k] : p > t => o <= p
    ELSE NoTime

\* next_occurrence_after_not_before: nor before the last one delivered.
MutantLastDeliveredForgotten(k, now, last) == NextOccurrenceAfter(k, now)
NextNotBefore(k, now, last) ==
    NextOccurrenceAfter(k, IF last # NoTime /\ last > now THEN last ELSE now)

\* The cursor with a future-only baseline at now.
Rebased(k, c, now) ==
    [last |-> c.last, next |-> NextNotBefore(k, now, c.last), rebase |-> FALSE]
Paused(c) == [c EXCEPT !.next = NoTime, !.rebase = TRUE]

\* A valid poll at now.  lost: the wall clock went backwards or was unknown, so
\* every cursor is recomputed first.
MutantEveryPollRebaselines(now) == lastWall = NoTime \/ now # lastWall
ClockLost(now)  == lastWall = NoTime \/ now < lastWall
Recomputed(k, now) ==
    IF ClockLost(now) THEN Rebased(k, cursor[k], now) ELSE cursor[k]
OnDuty(k)       == enabled[BlockOf[k]] /\ Switched[k]
Polled(k, now)  ==
    IF OnDuty(k) /\ Recomputed(k, now).rebase
    THEN Rebased(k, Recomputed(k, now), now)
    ELSE Recomputed(k, now)
Due(k, now)     == OnDuty(k) /\ Polled(k, now).next # NoTime /\ Polled(k, now).next <= now

\* The coalescing loop of poll_schedules: of the occurrences from next up to
\* now, the latest one.
Latest(k, next, now) ==
    CHOOSE o \in Occurrences[k] :
        /\ next <= o /\ o <= now
        /\ \A p \in Occurrences[k] : p <= now => p <= o

-----------------------------------------------------------------------------
\* History

Nothing == [k \in ScheduleKeys |-> NoTime]

\* The occurrences of k that are still in the past after a sample of wall.
StillPast(k, wall) ==
    IF wall = NoTime THEN missed[k] ELSE {o \in missed[k] : o <= wall}

\* A sample that continues the clock of the latest poll.
InStep(wall) == wall # NoTime /\ lastWall # NoTime /\ lastWall <= wall

-----------------------------------------------------------------------------
\* Operations

\* poll_schedules with an unavailable clock pauses every schedule.
PollUnavailable ==
    /\ lastWall' = NoTime
    /\ cursor' = [k \in ScheduleKeys |-> Paused(cursor[k])]
    /\ trigger' = Nothing
    /\ watched' = Nothing
    /\ UNCHANGED <<enabled, delivered, missed>>

\* poll_schedules with a sample now.
PollSchedules(now) ==
    /\ \A k \in ScheduleKeys : Len(delivered[k]) < MaxDelivered
    /\ trigger' = [k \in ScheduleKeys |->
                      IF Due(k, now) THEN Latest(k, Polled(k, now).next, now) ELSE NoTime]
    /\ cursor' = [k \in ScheduleKeys |->
                     IF Due(k, now)
                     THEN [last |-> trigger'[k], next |-> NextOccurrenceAfter(k, now),
                           rebase |-> FALSE]
                     ELSE Polled(k, now)]
    /\ lastWall' = now
    /\ delivered' = [k \in ScheduleKeys |->
                        IF Due(k, now) THEN Append(delivered[k], trigger'[k]) ELSE delivered[k]]
    /\ watched' = [k \in ScheduleKeys |->
                      CASE ~OnDuty(k) -> NoTime
                        [] OnDuty(k) /\ (ClockLost(now) \/ watched[k] = NoTime) -> now
                        [] OTHER -> IF watched[k] > now THEN watched[k] ELSE now]
    /\ missed' = [k \in ScheduleKeys |->
                     IF OnDuty(k) \/ lastWall = NoTime
                     THEN StillPast(k, now)
                     ELSE StillPast(k, now) \cup
                          {o \in Occurrences[k] : lastWall < o /\ o <= now}]
    /\ UNCHANGED enabled

\* Runtime::activate with a changed flag: the block's cursors wait for a new
\* baseline, which the next poll gives them.
MutantCursorsKept(b) == cursor
Activated(b) ==
    [k \in ScheduleKeys |-> IF BlockOf[k] = b THEN Paused(cursor[k]) ELSE cursor[k]]

ActivateBlock(b, on) ==
    /\ on # enabled[b]
    /\ enabled' = [enabled EXCEPT ![b] = on]
    /\ cursor' = Activated(b)
    /\ trigger' = Nothing
    /\ watched' = [k \in ScheduleKeys |-> IF BlockOf[k] = b THEN NoTime ELSE watched[k]]
    /\ UNCHANGED <<lastWall, delivered, missed>>

\* rebaseline_block_schedules; without a sample the engine forgets the wall
\* clock, so that the next poll recomputes every block's cursors.
Rebaselined(c, b, wall) ==
    [k \in ScheduleKeys |->
        IF BlockOf[k] # b THEN c[k]
        ELSE IF wall = NoTime THEN Paused(c[k]) ELSE Rebased(k, c[k], wall)]

\* apply_activation of the desktop host that re-enables a block: activation and
\* a rebaseline with a fresh sample, in one turn of the host.
ReenableBlock(b, wall) ==
    /\ ~enabled[b]
    /\ enabled' = [enabled EXCEPT ![b] = TRUE]
    /\ cursor' = Rebaselined(Activated(b), b, wall)
    /\ lastWall' = IF wall = NoTime THEN NoTime ELSE lastWall
    /\ trigger' = Nothing
    /\ watched' = [k \in ScheduleKeys |->
                      CASE BlockOf[k] # b -> watched[k]
                        [] BlockOf[k] = b /\ Switched[k] /\ InStep(wall) -> wall
                        [] OTHER -> NoTime]
    /\ missed' = [k \in ScheduleKeys |-> StillPast(k, wall)]
    /\ UNCHANGED delivered

\* initialise_schedules at the start of a session.
InitialiseSchedules(wall) ==
    /\ lastWall = wall
    /\ cursor = [k \in ScheduleKeys |->
                    [last   |-> NoTime,
                     next   |-> IF wall = NoTime THEN NoTime ELSE NextOccurrenceAfter(k, wall),
                     rebase |-> wall = NoTime]]
    /\ watched = [k \in ScheduleKeys |-> IF OnDuty(k) THEN wall ELSE NoTime]

Init ==
    /\ enabled \in [Blocks -> BOOLEAN]
    /\ \E wall \in Utc \cup {NoTime} : InitialiseSchedules(wall)
    /\ delivered = [k \in ScheduleKeys |-> <<>>]
    /\ trigger = Nothing
    /\ missed = [k \in ScheduleKeys |-> {}]

Next ==
    \/ PollUnavailable
    \/ \E now \in Utc : PollSchedules(now)
    \/ \E b \in Blocks, on \in BOOLEAN : ActivateBlock(b, on)
    \/ \E b \in Blocks, wall \in ReenableSamples : ReenableBlock(b, wall)

Spec == Init /\ [][Next]_vars

-----------------------------------------------------------------------------
\* Properties

\* Cursors and history have the types of ScheduleCursor and of its fields.
TypeOK ==
    /\ enabled \in [Blocks -> BOOLEAN]
    /\ cursor \in [ScheduleKeys -> Cursor]
    /\ lastWall \in Times
    /\ delivered \in [ScheduleKeys -> Seq(Nat)]
    /\ trigger \in [ScheduleKeys -> Times]
    /\ watched \in [ScheduleKeys -> Times]
    /\ missed \in [ScheduleKeys -> SUBSET Nat]

\* However the wall clock jumps, fails and comes back, and however a block is
\* switched off and on: a schedule delivers its occurrences in increasing
\* order, each at most once.
DeliveredOnceInOrder ==
    \A k \in ScheduleKeys : \A i, j \in DOMAIN delivered[k] :
        i < j => delivered[k][i] < delivered[k][j]

\* "an occurrence missed while disabled is never delivered on wake": what
\* passed while a block was off stays undelivered, unless the clock has since
\* gone back before it.
MissedStaysMissed ==
    \A k \in ScheduleKeys : trigger[k] \notin missed[k]

\* While a schedule is on duty and its clock moves forward, every occurrence
\* that passes is delivered, or coalesced into a later one of the same poll.
NoOccurrenceSkipped ==
    [][\A k \in ScheduleKeys, at \in Utc :
          (/\ lastWall' = at /\ PollSchedules(at)
           /\ OnDuty(k) /\ watched[k] # NoTime /\ watched[k] <= at)
          => \A o \in Occurrences[k] :
                (/\ watched[k] < o /\ o <= at
                 /\ \A i \in DOMAIN delivered[k] : delivered[k][i] < o)
                => trigger'[k] # NoTime /\ o <= trigger'[k]]_vars

=============================================================================
