---------------------------- MODULE MCScheduler ----------------------------
(* Small instances of Scheduler for TLC; the .cfg files give the values.   *)
EXTENDS Scheduler
=============================================================================
