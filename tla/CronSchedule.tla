---------------------------- MODULE CronSchedule -----------------------------
(***************************************************************************)
(* What a schedule of crons promises, with no threads and no queue: each   *)
(* cron has a next run time, a run replaces it by the run time that        *)
(* follows some moment at which it had been reached, and a cron that is    *)
(* overdue is run. A run time is never brought back and never skipped      *)
(* before it has come.                                                     *)
(***************************************************************************)
EXTENDS Naturals

CONSTANTS Jobs,           \* the crons
          After(_, _),    \* After(j, m): the first run time of j after m
          Horizon         \* bound on the clock

VARIABLES clock, due

Init == clock = 0 /\ due = [j \in Jobs |-> After(j, 0)]

Tick == clock < Horizon /\ clock' = clock + 1 /\ UNCHANGED due

Run(j) ==
    /\ \E m \in due[j]..clock : due' = [due EXCEPT ![j] = After(j, m)]
    /\ UNCHANGED clock

Overdue(j) == due[j] < clock

Next == Tick \/ \E j \in Jobs : Run(j)

Spec == Init /\ [][Next]_<<clock, due>>

FairSpec == Spec /\ \A j \in Jobs : WF_<<clock, due>>(Overdue(j) /\ Run(j))
=============================================================================
