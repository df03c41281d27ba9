----------------------------- MODULE MCOpencode -----------------------------
(* Two callers, configured or not, alone or at once. *)
EXTENDS Opencode
=============================================================================
