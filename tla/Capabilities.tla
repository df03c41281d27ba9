---------------------------- MODULE Capabilities ----------------------------
(***************************************************************************)
(* services/capability_registry.py, and the provider of the plugin manager *)
(* in it: which function a name leads to when a tool is called.  The       *)
(* registry keeps what was registered by hand (plugins/context.py) and     *)
(* asks its provider anew at each use; the last binding of a name counts.  *)
(*                                                                         *)
(* known, enabled and code are those of Plugins.                           *)
(***************************************************************************)
EXTENDS SequencesExt

CONSTANTS
  Plugins,
  Names,   \* names of functions
  Offers,  \* Offers[p]: the names that functions() of p's code lists
  None     \* nobody

(* What Toolset assumes of them. *)
CapabilitiesAssumption ==
  Offers \in [Plugins -> SUBSET Names] /\ None \notin Plugins

VARIABLES
  known, enabled, code,
  byHand,  \* byHand[n]: the plugin that _specs and _handlers have the name n from
  raising  \* plugins whose functions() raises

vars == <<byHand, raising>>

TypeOK ==
  /\ byHand \in [Names -> Plugins \cup {None}]
  /\ raising \subseteq Plugins

Init ==
  /\ byHand = [n \in Names |-> None]
  /\ raising = {}

-----------------------------------------------------------------------------
(* A plugin that is on, with code that can be asked, offers n. *)
Offering(p, n) ==
  /\ enabled[p] = "on" /\ code[p] # None /\ p \notin raising
  /\ n \in Offers[code[p]]

(* Variants of the operators below, each with one plausible mistake. *)
UpToFirstError(n) ==
  {i \in DOMAIN known : Offering(known[i], n) /\ \A k \in 1 .. i : known[k] \notin raising}

-----------------------------------------------------------------------------
\* function_bindings: an error of one plugin costs its own functions only.
Bindings(n) == {i \in DOMAIN known : Offering(known[i], n)}

\* _snapshot: the last binding of n replaces the others and what was registered by hand.
Server(n) ==
  IF Bindings(n) # {} THEN [by |-> "plugin", of |-> known[Max(Bindings(n))]]
                      ELSE [by |-> "hand", of |-> byHand[n]]

-----------------------------------------------------------------------------
(* register_function of a plugin's context.  Nothing takes it back when the plugin is
   disabled. *)
Register(p, n) ==
  /\ code[p] # None
  /\ byHand' = [byHand EXCEPT ![n] = p]
  /\ UNCHANGED raising

Unregister(n) ==
  /\ byHand' = [byHand EXCEPT ![n] = None]
  /\ UNCHANGED raising

UnregisterByPlugin(p) ==
  /\ byHand' = [n \in Names |-> IF byHand[n] = p THEN None ELSE byHand[n]]
  /\ UNCHANGED raising

(* functions() of a plugin begins or ceases to raise. *)
Falter(p) ==
  /\ code[p] # None
  /\ raising' = IF p \in raising THEN raising \ {p} ELSE raising \cup {p}
  /\ UNCHANGED byHand

(* The process ends; the next one has a new registry. *)
Stop ==
  /\ byHand' = [n \in Names |-> None]
  /\ raising' = {}

Next ==
  \/ \E p \in Plugins : \/ \E n \in Names : Register(p, n)
                        \/ UnregisterByPlugin(p) \/ Falter(p)
  \/ \E n \in Names : Unregister(n)
  \/ Stop

-----------------------------------------------------------------------------
(* The properties. *)

\* x can serve n, whether it does or not.
Stands(x, n) == IF x.by = "plugin" THEN Offering(x.of, n) ELSE x.of = byHand[n]

\* A name passes from one function to another only when the one that had it goes, or the
\* one that gets it was not there before: that some other plugin is activated again, raises
\* or is disabled takes no name from a plugin that still offers it.
HandsChangeForCause ==
  \A n \in Names : \A a \in {Server(n)}, b \in {Server(n)'} :
    a # b => ~Stands(a, n)' \/ ~Stands(b, n)
=============================================================================
