-------------------------- MODULE MCCronScheduler ---------------------------
(* Instances of CronScheduler for TLC. *)
EXTENDS CronScheduler

CONSTANTS c1, c2, c3, w1, w2, k1, k2

OneId == <<c1>>
TwoIds == <<c1, c2>>

\* A trigger is the period it fires at; 0 is a trigger that does not parse.
Periodic(period, time) == ((time \div period) + 1) * period
=============================================================================
