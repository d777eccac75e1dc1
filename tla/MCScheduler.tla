---------------------------- MODULE MCScheduler -----------------------------
(***************************************************************************)
(* Small instances for TLC: at most MaxID processes are ever started.      *)
(***************************************************************************)
EXTENDS SchedulerProps
=============================================================================
