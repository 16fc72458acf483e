-------------------------- MODULE MCCronScheduler --------------------------
(* Two jobs on short schedules. *)
EXTENDS CronScheduler

CONSTANTS daily, ping

TwoJobs    == {daily, ping}
TwoPeriods == {0, 2}
=============================================================================
