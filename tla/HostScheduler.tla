--------------------------- MODULE HostScheduler ---------------------------
(***************************************************************************)
(* The scheduler of the desktop host: one sleep that stands for the next   *)
(* due timer and the next schedule occurrence, the bounded drain of due    *)
(* timers, and the poll of the schedule engine (module Schedules).         *)
(*                                                                         *)
(* A turn of the host takes time: the clock may advance between its steps, *)
(* so what was ahead when a turn began may be overdue when it ends.        *)
(* Wall clock and monotonic clock advance together here (jumps are treated *)
(* in Schedules), but the wall clock may be unavailable.  Which timers a   *)
(* handler arms or cancels, and whether a cascade is rolled back, is       *)
(* nondeterministic (module LogikRuntime).                                 *)
(*                                                                         *)
(* An operator named Mutant... is a plausible mistake in the definition    *)
(* that follows it; no specification uses it.                              *)
(***************************************************************************)
EXTENDS Schedules

CONSTANTS
    Timers,     \* the pending timers of all enabled blocks
    MaxAfter,   \* bound of the model: timer delays
    MaxNow,     \* bound of the model: clock values
    Cap,        \* 30 s: the longest sleep of a host with schedules
    Day,        \* 86,400 s: the longest sleep of any host
    Word,       \* 2^64, scaled
    Batch       \* due_work_batch

ASSUME HostSchedulerAssumption ==
    /\ MaxAfter \in Nat /\ MaxNow \in Nat /\ 0..MaxNow \subseteq Utc
    /\ Cap \in Nat /\ Day \in Nat /\ Word \in Nat /\ Batch \in Nat \ {0}
    /\ Cap <= Day /\ Day < Word

VARIABLES
    now,        \* the monotonic clock
    wallKnown,  \* does wall_clock_ms return a time?
    due,        \* [Timers -> Nat or NoTime]
    wakeAt,     \* when timer_sleep elapses
    pc,         \* where the turn of the host is; "select" between turns
    drainAt,    \* the time drain_due_timers compares deadlines with
    processed   \* timers it has tried so far

engineVars == vars
hostVars   == <<now, wallKnown, due, wakeAt, pc, drainAt, processed>>

Wall       == IF wallKnown THEN now ELSE NoTime
Min(a, b)  == IF a <= b THEN a ELSE b

-----------------------------------------------------------------------------
\* timer_wait

\* next_timer_deadline and next_schedule_deadline.
Earliest(times) ==
    IF times \subseteq {NoTime} THEN NoTime
    ELSE CHOOSE t \in times \ {NoTime} : \A u \in times \ {NoTime} : t <= u
NextTimerDeadline    == Earliest({due[t] : t \in Timers})
NextScheduleDeadline == Earliest({cursor[k].next : k \in {k \in ScheduleKeys : OnDuty(k)}})

\* saturating_sub of unsigned times; "as u64" of a signed difference.
Until(t)   == IF t > now THEN t - now ELSE 0
AsU64(i)   == i % Word

TimerOnlyWait ==
    IF NextTimerDeadline = NoTime THEN Day ELSE Until(NextTimerDeadline)
ScheduleWait ==
    IF NextScheduleDeadline # NoTime /\ Wall # NoTime
    THEN AsU64(Min(NextScheduleDeadline - Wall, Cap))
    ELSE IF ScheduleKeys # {} THEN Cap ELSE Day

MutantSchedulesNotFolded == TimerOnlyWait
TimerWait == Min(TimerOnlyWait, ScheduleWait)

-----------------------------------------------------------------------------
\* Turns of the host

\* What a cascade may leave of the timers: each is kept, cancelled or armed anew.
Delays         == (now + 1)..(now + MaxAfter)
Cancelled(d)   == {[t \in Timers |-> IF t \in off THEN NoTime ELSE d[t]] : off \in SUBSET Timers}
TimersAfter(d) ==
    {[t \in Timers |-> IF t \in DOMAIN armed THEN armed[t] ELSE e[t]] :
        e \in Cancelled(d), armed \in UNION {[on -> Delays] : on \in SUBSET Timers}}

\* The sleep branch of select!: drain_due_timers begins.
Wake ==
    /\ pc = "select"
    /\ now >= wakeAt
    /\ pc' = "drain" /\ drainAt' = now /\ processed' = 0
    /\ UNCHANGED <<engineVars, now, wallKnown, due, wakeAt>>

Draining ==
    /\ pc = "drain"
    /\ NextTimerDeadline # NoTime /\ NextTimerDeadline <= drainAt
    /\ processed < Batch

\* One due timer: its cascade commits and the timer is consumed; or it is rolled
\* back and the timer is pending as before; or the block is over its rate, which
\* costs it its timers and ends the drain.
MutantBatchRestarts ==
    /\ Draining
    /\ processed' = (processed + 1) % Batch
    /\ \/ \E t \in {t \in Timers : due[t] = NextTimerDeadline} :
             due' \in TimersAfter([due EXCEPT ![t] = NoTime])
       \/ UNCHANGED due
    /\ UNCHANGED <<engineVars, now, wallKnown, wakeAt, pc, drainAt>>
DrainTimer ==
    /\ Draining
    /\ processed' = processed + 1
    /\ \E t \in {t \in Timers : due[t] = NextTimerDeadline} :
          \/ due' \in TimersAfter([due EXCEPT ![t] = NoTime]) /\ UNCHANGED pc
          \/ UNCHANGED <<due, pc>>
          \/ due' \in Cancelled([due EXCEPT ![t] = NoTime]) /\ pc' = "poll"
    /\ UNCHANGED <<engineVars, now, wallKnown, wakeAt, drainAt>>

DrainReturns ==
    /\ pc = "drain" /\ ~Draining
    /\ pc' = "poll"
    /\ UNCHANGED <<engineVars, now, wallKnown, due, wakeAt, drainAt, processed>>

\* poll_and_process_schedules: the poll, then a cascade for every trigger.
PollAndProcess ==
    /\ pc = "poll"
    /\ \/ Wall # NoTime /\ PollSchedules(Wall)
       \/ Wall = NoTime /\ PollUnavailable
    /\ IF trigger' = Nothing THEN UNCHANGED due ELSE due' \in TimersAfter(due)
    /\ pc' = "reset"
    /\ UNCHANGED <<now, wallKnown, wakeAt, drainAt, processed>>

\* A telegram, an external input or a write result.
EventTurn ==
    /\ pc = "select"
    /\ due' \in TimersAfter(due)
    /\ pc' = "reset"
    /\ UNCHANGED <<engineVars, now, wallKnown, wakeAt, drainAt, processed>>

\* apply_activation: timers of the block may go; enabling comes with a rebaseline.
ActivationTurn ==
    /\ pc = "select"
    /\ \E b \in Blocks : ActivateBlock(b, FALSE) \/ ReenableBlock(b, Wall)
    /\ due' \in Cancelled(due)
    /\ pc' = "reset"
    /\ UNCHANGED <<now, wallKnown, wakeAt, drainAt, processed>>

\* reset_timer_sleep, the end of every turn that may have changed a deadline.
ResetTimerSleep ==
    /\ pc = "reset"
    /\ wakeAt' = now + TimerWait
    /\ pc' = "select"
    /\ UNCHANGED <<engineVars, now, wallKnown, due, drainAt, processed>>

Tick ==
    /\ now < MaxNow
    /\ now' = now + 1
    /\ UNCHANGED <<engineVars, wallKnown, due, wakeAt, pc, drainAt, processed>>

WallClockChanges ==
    /\ wallKnown' = ~wallKnown
    /\ UNCHANGED <<engineVars, now, due, wakeAt, pc, drainAt, processed>>

-----------------------------------------------------------------------------
HostInit ==
    /\ now = 0 /\ wallKnown \in BOOLEAN
    /\ enabled \in [Blocks -> BOOLEAN]
    /\ InitialiseSchedules(Wall)
    /\ delivered = [k \in ScheduleKeys |-> <<>>]
    /\ trigger = Nothing
    /\ missed = [k \in ScheduleKeys |-> {}]
    /\ due = [t \in Timers |-> NoTime]
    /\ wakeAt = TimerWait
    /\ pc = "select" /\ drainAt = 0 /\ processed = 0

HostNext ==
    \/ Wake \/ DrainTimer \/ DrainReturns \/ PollAndProcess
    \/ EventTurn \/ ActivationTurn
    \/ ResetTimerSleep
    \/ Tick \/ WallClockChanges

HostSpec == HostInit /\ [][HostNext]_<<engineVars, hostVars>>

\* drain_due_timers is one call: while it runs nothing else of the host does.
HostFairSpec ==
    HostSpec /\ WF_<<engineVars, hostVars>>(DrainTimer) /\ WF_<<engineVars, hostVars>>(DrainReturns)

-----------------------------------------------------------------------------
\* Properties

\* While the host waits, its one sleep stands for every deadline, whatever the turns
\* since it was armed have done: it ends no later than the earliest armed timer is due;
\* and while the next occurrence of every schedule is still ahead, no later than that
\* occurrence, or within the cap when the host could not know it.
NoDeadlineOverslept ==
    pc = "select" =>
        /\ \A t \in Timers : due[t] # NoTime => wakeAt <= due[t] \/ wakeAt <= now
        /\ NextScheduleDeadline # NoTime /\ now <= NextScheduleDeadline
              => wakeAt <= NextScheduleDeadline \/ wakeAt <= now + Cap

\* A storm of due timers, even one whose cascades are always rolled back and
\* whose timers stay due, ends after one batch: the schedules get their poll.
SchedulesGetTheirPoll == pc = "drain" ~> pc = "poll"

=============================================================================
