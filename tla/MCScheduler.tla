---------------------------- MODULE MCScheduler ----------------------------
(* Instances of Scheduler for TLC: a one-time wake-up of a sub-agent, and a   *)
(* recurring one of "main" with an end.                                     *)
EXTENDS Scheduler, TLC

CONSTANTS once, capped

MCInterval == [s \in Schedules |-> IF s = once THEN 0 ELSE 1]
MCEndTime == [s \in Schedules |-> IF s = once THEN Forever ELSE 2]
=============================================================================
