-------------------------- MODULE MCHostScheduler --------------------------
(***************************************************************************)
(* One block with one schedule, and two timers, over a few units of time.  *)
(***************************************************************************)
EXTENDS HostScheduler

CONSTANTS s, t1, t2

TheBlock       == [k \in ScheduleKeys |-> "b"]
AllSwitched    == [k \in ScheduleKeys |-> TRUE]
TwoOccurrences == [k \in ScheduleKeys |-> {2, 4}]
UtcTimes       == 0..MaxNow
=============================================================================
