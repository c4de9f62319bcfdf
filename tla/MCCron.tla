------------------------------- MODULE MCCron -------------------------------
(* Instances of Cron for TLC. *)
EXTENDS Cron

\* Schedules: a ConstantDelaySchedule of s seconds; 0 is a SpecSchedule that
\* no time satisfies.
DelayNext(s, t) == IF s = 0 THEN 0 ELSE t + s

TwoDelays == {0, 1}
OneDelay  == {1}
=============================================================================
