------------------------------ MODULE Toolset ------------------------------
(***************************************************************************)
(* What the tools of an agent are: the plugins that are on (Plugins), the  *)
(* functions that names lead to (Capabilities), and the tools of a plugin  *)
(* with a state of its own, SSH (SshSessions), whose pool lives as long as *)
(* an instance of the plugin does.                                         *)
(***************************************************************************)
EXTENDS Naturals

CONSTANTS
  Plugins, Builtin, Broken, Registered,  \* Plugins
  Names, Offers,                         \* Capabilities
  Sessions, Callers, MaxInstances,       \* SshSessions
  Ssh,    \* the SSH plugin
  Shell,  \* the names of its three functions
  None,
  MaxOps  \* bound: operations asked for, restarts included

VARIABLES
  running, known, enabled, code, sysPath, registry, order, unsaved,
  byHand, raising,
  instance, made, pool, client, call, told, closed, unheard, stuck,
  ops  \* operations so far

Manager == INSTANCE Plugins
Functions == INSTANCE Capabilities
Pools == INSTANCE SshSessions

ASSUME ToolsetAssumption ==
  /\ Manager!PluginsAssumption
  /\ Functions!CapabilitiesAssumption
  /\ Pools!SshSessionsAssumption
  /\ Ssh \in Builtin \ Broken /\ Shell \in Offers[Ssh]
  /\ MaxOps \in Nat

pluginVars == <<running, known, enabled, code, sysPath, registry, order, unsaved>>
functionVars == <<byHand, raising>>
sshVars == <<instance, made, pool, client, call, told, closed, unheard, stuck>>

vars == <<pluginVars, functionVars, sshVars, ops>>

TypeOK ==
  /\ Manager!TypeOK /\ Functions!TypeOK /\ Pools!TypeOK
  /\ instance # None <=> code[Ssh] = Ssh
  /\ ops \in 0 .. MaxOps

Init ==
  /\ Manager!Init /\ Functions!Init /\ Pools!Init
  /\ ops = 0

-----------------------------------------------------------------------------
Asked == ops < MaxOps /\ ops' = ops + 1

(* The program manages the plugins.  To load the SSH plugin again makes a new pool; a
   plugin that is disabled is replaced by its metadata. *)
Manage(p) ==
  /\ Asked
  /\ \/ Manager!ActivateInstance(p) /\ (IF p = Ssh THEN Pools!Activate ELSE UNCHANGED sshVars)
     \/ Manager!ActivateLoaded(p) /\ (IF p = Ssh THEN Pools!Load ELSE UNCHANGED sshVars)
     \/ Manager!Enable(p) /\ (IF p = Ssh THEN Pools!Load ELSE UNCHANGED sshVars)
     \/ Manager!Disable(p) /\ (IF p = Ssh THEN Pools!Deactivate ELSE UNCHANGED sshVars)
  /\ UNCHANGED functionVars

(* The program, or a plugin, changes what is registered by hand; a plugin falters. *)
Register ==
  /\ running /\ Asked
  /\ \/ \E p \in Plugins : \/ \E n \in Names : Functions!Register(p, n)
                           \/ Functions!UnregisterByPlugin(p) \/ Functions!Falter(p)
     \/ \E n \in Names : Functions!Unregister(n)
  /\ UNCHANGED <<pluginVars, sshVars>>

\* What the names of the SSH functions lead to.
ShellIsSsh == Functions!Server(Shell) = [by |-> "plugin", of |-> Ssh]

(* execute_stream calls it. *)
CallSsh ==
  /\ running /\ Asked
  /\ ShellIsSsh
  /\ Pools!Calling
  /\ UNCHANGED <<pluginVars, functionVars>>

Work ==
  /\ Pools!Working
  /\ UNCHANGED <<pluginVars, functionVars, ops>>

End == Asked /\ Manager!Stop /\ Functions!Stop /\ Pools!Stop

Begin == Manager!Start /\ UNCHANGED <<functionVars, sshVars, ops>>

Next == (\E p \in Plugins : Manage(p)) \/ Register \/ CallSsh \/ Work \/ End \/ Begin

Spec == Init /\ [][Next]_vars

-----------------------------------------------------------------------------
(* The properties of the parts, in the process as a whole. *)

\* Plugins: the next process enables what this one does.
RegistryAgrees == Manager!RegistryAgrees

\* Plugins: the code of another plugin runs only for one whose directory is hidden by it.
ForeignCodeIsInFront == Manager!ForeignCodeIsInFront

\* Capabilities: within a process no plugin loses a name that it still offers to one that
\* offered it before.
HandsChangeForCause ==
  [][running /\ running' => Functions!HandsChangeForCause]_<<pluginVars, functionVars>>

\* What keeps a call of an SSH function from the plugin that is on: its functions() raises,
\* or another plugin offers the name too.
Hidden == Ssh \in raising \/ \E p \in Plugins \ {Ssh} : Functions!Offering(p, Shell)

\* Who has a connection that is open: the model, which was told its id, and a pool, from
\* which a call takes it out if the pool is that of the instance that is active and the
\* name leads to it; or a call that closes it now; or nobody, if its open was cancelled or
\* its close raised.  The pool of an instance that was replaced or disabled has its
\* connections still, and no call reaches it.
OpenIsClosable ==
  \A s \in Sessions : client[s] = "open" =>
    \/ s \in told /\ pool[s] # None /\ (pool[s] = instance => ShellIsSsh \/ Hidden)
    \/ \E c \in Callers : Pools!At(c, "close", "remote") /\ call[c].id = s
    \/ s \in unheard \cup stuck

\* SshSessions: a session that was closed is gone.
ClosedIsGone == Pools!ClosedIsGone
=============================================================================
