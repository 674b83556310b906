----------------------------- MODULE MCScheduler ------------------------------
(* A job with a cron expression and a manual one, as `scheduled-promotion' *)
(* and `socios-evidence-runtime-closure' are.                              *)
EXTENDS Scheduler

MCJobs == {"promotion", "closure"}
MCCronJobs == {"promotion"}

=============================================================================
