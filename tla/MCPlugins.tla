----------------------------- MODULE MCPlugins -----------------------------
(* Two plugins that are on file. *)
EXTENDS Plugins
=============================================================================
