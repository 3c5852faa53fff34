----------------------------- MODULE MCCronJob -----------------------------
(* TLC instances of CronJob: the triggers the runs use.                    *)
EXTENDS CronJob

\* The first second of every day, and the second second of the second day.
MCTriggers == {[day |-> Any, second |-> 0], [day |-> 1, second |-> 1]}
=============================================================================
