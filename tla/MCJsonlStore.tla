---------------------------- MODULE MCJsonlStore ----------------------------
(* Two files, three tasks, faults at any point. *)
EXTENDS JsonlStore
=============================================================================
