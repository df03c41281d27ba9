--------------------------- MODULE Administration ---------------------------
(***************************************************************************)
(* What one process holds and administers beside the threads: the agent's  *)
(* changes of itself (SelfMutation) and the MCP connections (McpSessions), *)
(* from app/lifespan.py's build_container to the end of the process.  The  *)
(* actions of an engine's decision reach them through                      *)
(* runtime/action_router.py, those of a client or of the program that      *)
(* embeds the agent directly.                                              *)
(*                                                                         *)
(* A step of one leaves the others alone, but they start and end together, *)
(* and an agent whose active model is unknown does not start.              *)
(***************************************************************************)
EXTENDS Naturals

CONSTANTS
  Skills, Servers, Models, Default, Unknown,  \* SelfMutation
  Tasks, MaxClients,                          \* McpSessions
  None,
  MaxOps  \* bound: operations asked for, restarts included

VARIABLES
  up, loaded, held, onFile, state, stateFile, pending, told, doubtful,
  sessions, tools, process, task, created, upset,
  ops  \* operations so far

Mutation == INSTANCE SelfMutation
Mcp == INSTANCE McpSessions

ASSUME AdministrationAssumption ==
  /\ Mutation!SelfMutationAssumption
  /\ Mcp!McpSessionsAssumption
  /\ MaxOps \in Nat

mutationVars == <<up, loaded, held, onFile, state, stateFile, pending, told, doubtful>>
sessionVars == <<sessions, tools, process, task, created, upset>>

vars == <<mutationVars, sessionVars, ops>>

TypeOK ==
  /\ Mutation!TypeOK /\ Mcp!TypeOK
  /\ ops \in 0 .. MaxOps

Init ==
  /\ Mutation!Init /\ Mcp!Init
  /\ ops = 0

-----------------------------------------------------------------------------
Asked == ops < MaxOps /\ ops' = ops + 1

(* Nothing else runs between the halves of a change: no step of it suspends. *)
Free == up /\ pending = None

(* An action of a decision, or a request of a client, that changes the agent: _dispatch
   awaits the service, and route turns what it raises into a result. *)
ChangeAgent ==
  /\ Asked
  /\ Mutation!Answered \/ Mutation!Raised
  /\ UNCHANGED sessionVars

FinishChange ==
  /\ Mutation!Enlist \/ Mutation!EnlistRaises
  /\ UNCHANGED <<sessionVars, ops>>

(* The program that embeds the agent connects and disconnects servers, and an engine's
   decision calls their tools. *)
UseServers ==
  /\ Free /\ Asked
  /\ \E t \in Tasks :
       \/ \E s \in Servers :
            Mcp!Connect(t, s) \/ Mcp!Disconnect(t, {s}) \/ Mcp!CallTool(t, s)
       \/ Mcp!Disconnect(t, {s \in Servers : sessions[s] # None})
  /\ UNCHANGED mutationVars

ServeTask ==
  /\ Free
  /\ \E t \in Tasks : Mcp!Serve(t)
  /\ UNCHANGED <<mutationVars, ops>>

(* The process ends, however it does, and the servers it started end with their input. *)
End ==
  /\ Asked
  /\ Mutation!Stop /\ Mcp!Stop

(* build_container and startup. *)
Begin ==
  /\ Mutation!Start
  /\ UNCHANGED <<sessionVars, ops>>

Next ==
  ChangeAgent \/ FinishChange \/ UseServers \/ ServeTask \/ End \/ Begin

Spec == Init /\ [][Next]_vars

-----------------------------------------------------------------------------
(* The properties of the parts, in the process as a whole. *)

\* SelfMutation: what was answered stays on file.
AnsweredIsKept == Mutation!AnsweredIsKept

\* SelfMutation: the state lists nothing that is off, but for changes that were cut.
ListedIsOn == Mutation!ListedIsOn

\* McpSessions: no kept session was stopped.
SessionsAreLive == Mcp!SessionsAreLive

\* McpSessions: no process is left without a session unless connects overlap.
EveryProcessIsKept == Mcp!EveryProcessIsKept

\* McpSessions: the tools of a server are those of its session.
ToolsAreOfSession == Mcp!ToolsAreOfSession
=============================================================================
