------------------------------ MODULE Plugins ------------------------------
(***************************************************************************)
(* services/plugin_manager.py over plugin_loader.py and plugin_store.py:   *)
(* which plugins are enabled, in memory and in registry.json5, and whose   *)
(* code runs for them.                                                     *)
(*                                                                         *)
(* A plugin with a manifest is a file plugin.py in a directory of its own, *)
(* imported under the name "plugin": the code is the first that sys.path   *)
(* leads to.  A plugin without a manifest is part of the package and is    *)
(* imported by its own name, or it is made by the program and cannot be    *)
(* imported at all.  No step suspends.                                     *)
(***************************************************************************)
EXTENDS SequencesExt

CONSTANTS
  Plugins,    \* the plugins
  Builtin,    \* those without a manifest
  Broken,     \* those without a module that could be imported for them
  Registered, \* those of registry.json5, to which nothing adds
  None        \* not known, no code

(* What Toolset assumes of them. *)
PluginsAssumption ==
  /\ Builtin \subseteq Plugins /\ Broken \subseteq Plugins
  /\ Registered \subseteq Plugins /\ IsFiniteSet(Registered)
  /\ None \notin Plugins \cup {"on", "off"}

VARIABLES
  running,   \* there is a manager
  known,     \* _plugins: every plugin it knows, in the order of the dictionary
  enabled,   \* enabled[p]: the flag of p's descriptor, "on" or "off", or None
  code,      \* code[p]: whose code runs as plugin p; None for metadata only
  sysPath,   \* the plugins' directories on sys.path, the first one first
  registry,  \* registry[p]: the flag in registry.json5
  order,     \* the plugins of registry.json5 in the order of the file
  unsaved    \* plugins activated or changed with no save after it that succeeded

vars == <<running, known, enabled, code, sysPath, registry, order, unsaved>>

TypeOK ==
  /\ running \in BOOLEAN
  /\ enabled \in [Plugins -> {"on", "off", None}]
  /\ known \in Seq(Plugins) /\ \A p \in Plugins : Contains(known, p) <=> enabled[p] # None
  /\ code \in [Plugins -> Plugins \cup {None}]
  /\ \A p \in Plugins : code[p] # None => enabled[p] = "on"
  /\ sysPath \in Seq(Plugins)
  /\ registry \in [Registered -> {"on", "off"}]
  /\ order \in SetToSeqs(Registered)
  /\ unsaved \subseteq Plugins

-----------------------------------------------------------------------------
\* The directories on a path that have a plugin.py.
Importable(path) == {i \in DOMAIN path : path[i] \notin Broken}

(* Variants of the operators below, each with one plausible mistake. *)
OnlyRegistered == registry
SavedBefore == [p \in Registered |-> enabled[p]]
LastOf(path) == path[CHOOSE i \in Importable(path) : \A k \in Importable(path) : k <= i]
MovedToEnd(p) == Append(Remove(known, p), p)

-----------------------------------------------------------------------------
\* What a new manager makes of the registry: metadata only, enabled or not.
FromRegistry == [p \in Plugins |-> IF p \in Registered THEN registry[p] ELSE None]

Init ==
  /\ running = TRUE
  /\ order \in SetToSeqs(Registered)
  /\ known = order
  /\ registry \in [Registered -> {"on", "off"}]
  /\ enabled = FromRegistry
  /\ code = [p \in Plugins |-> None]
  /\ sysPath = <<>>
  /\ unsaved = {}

-----------------------------------------------------------------------------
\* _plugins[pid] = ...: a plugin that is known keeps its place.
Placed(p) == IF Contains(known, p) THEN known ELSE Append(known, p)

\* _add_to_path: a directory that is on the path stays where it is.
PathWith(p) == IF Contains(sysPath, p) THEN sysPath ELSE <<p>> \o sysPath

\* import_module("plugin"), which sys.modules has forgotten.
Imported(path) == path[CHOOSE i \in Importable(path) : \A k \in Importable(path) : i <= k]

WithoutCode(p) == [code EXCEPT ![p] = None]

\* _save_registry, after the change of p: every registered plugin is known to the manager.
Flags == [p \in Registered |-> enabled'[p]]

\* The file is written in the order of a set of strings, which the process chooses.
Save ==
  /\ registry' = Flags /\ unsaved' = {}
  /\ order' \in SetToSeqs(Registered)

SaveRaises(p) == unsaved' = unsaved \cup {p} /\ UNCHANGED <<registry, order>>

\* activate_instance: nothing is saved.
Activated(p, c) ==
  /\ running
  /\ enabled' = [enabled EXCEPT ![p] = "on"]
  /\ code' = [code EXCEPT ![p] = c]
  /\ known' = Placed(p)
  /\ unsaved' = unsaved \cup {p}
  /\ UNCHANGED <<running, registry, order>>

\* load: what becomes of sys.path, and the code that is imported, None if none can be.
Loads(p, c) ==
  \/ /\ p \in Builtin /\ UNCHANGED sysPath
     /\ c = IF p \in Broken THEN None ELSE p
  \/ /\ p \notin Builtin /\ sysPath' = PathWith(p)
     /\ c = IF Importable(sysPath') = {} THEN None ELSE Imported(sysPath')

(* The program activates a plugin that it made, or had loaded. *)
ActivateInstance(p) == Activated(p, p) /\ UNCHANGED sysPath

ActivateLoaded(p) == \E c \in Plugins : Loads(p, c) /\ Activated(p, c)

(* enable.  A plugin that cannot be loaded is enabled all the same, and what ran for it
   before runs on. *)
Enable(p) ==
  /\ running /\ enabled[p] # None
  /\ enabled' = [enabled EXCEPT ![p] = "on"]
  /\ \E c \in Plugins \cup {None} :
       /\ Loads(p, c)
       /\ code' = IF c = None THEN code ELSE [code EXCEPT ![p] = c]
  /\ Save \/ SaveRaises(p)
  /\ UNCHANGED <<running, known>>

Disable(p) ==
  /\ running /\ enabled[p] # None
  /\ enabled' = [enabled EXCEPT ![p] = "off"]
  /\ code' = WithoutCode(p)
  /\ Save \/ SaveRaises(p)
  /\ UNCHANGED <<running, known, sysPath>>

(* The process ends, and another one makes a new manager. *)
Stop ==
  /\ running
  /\ running' = FALSE
  /\ known' = <<>>
  /\ enabled' = [p \in Plugins |-> None]
  /\ code' = [p \in Plugins |-> None]
  /\ sysPath' = <<>>
  /\ unsaved' = {}
  /\ UNCHANGED <<registry, order>>

Start ==
  /\ ~running
  /\ running' = TRUE
  /\ known' = order
  /\ enabled' = FromRegistry
  /\ UNCHANGED <<code, sysPath, registry, order, unsaved>>

Next ==
  \/ \E p \in Plugins : ActivateInstance(p) \/ ActivateLoaded(p) \/ Enable(p) \/ Disable(p)
  \/ Stop \/ Start

Spec == Init /\ [][Next]_vars

-----------------------------------------------------------------------------
(* The properties. *)

\* What the manager enables and disables is in registry.json5, so that the next process has
\* it again, also when a plugin cannot be loaded; but for plugins that were activated
\* without a save, or whose save raised, with no save after that.
RegistryAgrees ==
  running => \A p \in Registered \ unsaved : registry[p] = enabled[p]

\* A plugin runs the code of another one only if that one's directory was put on sys.path
\* after its own, or if it has no code: the first load of a plugin is always its own.
ForeignCodeIsInFront ==
  \A p \in Plugins : code[p] \notin {None, p} =>
    \/ p \in Broken
    \/ \E i, k \in DOMAIN sysPath : i < k /\ sysPath[i] = code[p] /\ sysPath[k] = p

\* plugin_loader.py:20: "Import and return the plugin instance from the plugin module."
\* A plugin that has code runs its own.
OwnCode == \A p \in Plugins : code[p] \in {None, p}
=============================================================================
