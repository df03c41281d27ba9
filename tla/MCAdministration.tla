-------------------------- MODULE MCAdministration --------------------------
(* Two skills, servers and tasks. *)
EXTENDS Administration, TLC

\* Nothing tells the skills from each other, the servers, or the tasks.
Symmetric == Permutations(Skills) \cup Permutations(Servers) \cup Permutations(Tasks)
=============================================================================
