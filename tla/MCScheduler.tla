---------------------------- MODULE MCScheduler ----------------------------
(* Two jobs, entries with the same id, disabled ones and malformed ones, restarts. *)
EXTENDS Scheduler
=============================================================================
