----------------------------- MODULE MCToolset -----------------------------
(* Two plugins with a manifest that offer one name, and the SSH plugin. *)
EXTENDS Toolset, TLC

CONSTANTS p1, p2, Shared

Offered == (p1 :> {Shared}) @@ (p2 :> {Shared}) @@ (Ssh :> {Shell})

Symmetric == Permutations(Sessions) \cup Permutations(Callers)
=============================================================================
