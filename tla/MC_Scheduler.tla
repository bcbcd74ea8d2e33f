---------------------------- MODULE MC_Scheduler ----------------------------
(* Model-checking instance of Scheduler: pids 0..3, a time slice of 2.    *)
EXTENDS Scheduler
=============================================================================
