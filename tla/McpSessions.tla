---------------------------- MODULE McpSessions ----------------------------
(***************************************************************************)
(* services/mcp_session_manager.py over integrations/mcp/stdio_client.py:  *)
(* connections to MCP servers, opened, closed and used by several tasks.   *)
(*                                                                         *)
(* A task suspends in client.start, in list_tools, in session.stop and in  *)
(* call_tool; what it does in between is one step.  A client is the number *)
(* of its process, and the MCP SDK is modelled from its use here: a start  *)
(* that raises leaves no process, a request may raise at any time (the     *)
(* server may have died) and does when its client is closed, and so may a  *)
(* stop, which ends the process all the same.                              *)
(***************************************************************************)
EXTENDS Naturals

CONSTANTS
  Servers,    \* ids of MCP servers
  Tasks,      \* the tasks that open, close and use connections
  None,
  MaxClients  \* bound: clients created

(* What Administration assumes of them. *)
McpSessionsAssumption == MaxClients \in Nat /\ None \notin Nat

Clients == 1 .. MaxClients

VARIABLES
  sessions,  \* _sessions[s]: the client of server s
  tools,     \* _tools[s]: the client that told the tools of s
  process,   \* process[c]: "none", "up", or "gone" when its client has closed it
  task,      \* task[t]: what it is doing, with which server and client, what is left to do
  created,   \* clients so far
  upset      \* whether tasks overlapped on a server, a stop raised, a start was cancelled

vars == <<sessions, tools, process, task, created, upset>>

Task ==
  [pc : {"idle", "start", "list", "stop", "call"}, server : Servers \cup {None},
   client : Clients \cup {None}, rest : SUBSET Servers]

Idle == [pc |-> "idle", server |-> None, client |-> None, rest |-> {}]

TypeOK ==
  /\ sessions \in [Servers -> Clients \cup {None}]
  /\ tools \in [Servers -> Clients \cup {None}]
  /\ process \in [Clients -> {"none", "up", "gone"}]
  /\ task \in [Tasks -> Task]
  /\ created \in 0 .. MaxClients
  /\ upset \subseteq {"overlap", "raised", "cancelled"}

Init ==
  /\ sessions = [s \in Servers |-> None] /\ tools = sessions
  /\ process = [c \in Clients |-> "none"]
  /\ task = [t \in Tasks |-> Idle]
  /\ created = 0
  /\ upset = {}

-----------------------------------------------------------------------------
(* Variants of the operators below, each with one plausible mistake. *)
KeptSession(s) == sessions
KeptTools(s) == tools
NotYet(t) == sessions

-----------------------------------------------------------------------------
\* Some task opens or closes a connection to s.
Busy(s) ==
  \E t \in Tasks : \/ task[t].server = s /\ task[t].pc \in {"start", "list", "stop"}
                  \/ s \in task[t].rest

\* connect keeps the session before it asks for the tools.
Opened(t) == [sessions EXCEPT ![task[t].server] = task[t].client]

\* disconnect pops the session before it stops it, and the tools after.
WithoutSession(s) == [sessions EXCEPT ![s] = None]
WithoutTools(s) == [tools EXCEPT ![s] = None]

Becomes(t, u) == task' = [task EXCEPT ![t] = u]

(* connect: a client of the server is created and starts its process. *)
Connect(t, s) ==
  /\ task[t] = Idle
  /\ created < MaxClients
  /\ created' = created + 1
  /\ process' = [process EXCEPT ![created + 1] = "up"]
  /\ Becomes(t, [pc |-> "start", server |-> s, client |-> created + 1, rest |-> {}])
  /\ upset' = IF sessions[s] # None \/ Busy(s) THEN upset \cup {"overlap"} ELSE upset
  /\ UNCHANGED <<sessions, tools>>

(* The session is open: it takes the place of any other, and is asked for its tools. *)
Started(t) ==
  /\ task[t].pc = "start"
  /\ sessions' = Opened(t)
  /\ Becomes(t, [task[t] EXCEPT !.pc = "list"])
  /\ UNCHANGED <<tools, process, created, upset>>

StartRaises(t) ==
  /\ task[t].pc = "start"
  /\ process' = [process EXCEPT ![task[t].client] = "gone"]
  /\ Becomes(t, Idle)
  /\ UNCHANGED <<sessions, tools, created, upset>>

(* The task is cancelled, and start closes what it opened for an Exception only: whether
   the process ends is up to the garbage collector. *)
StartCancelled(t) ==
  /\ task[t].pc = "start"
  /\ Becomes(t, Idle)
  /\ upset' = upset \cup {"cancelled"}
  /\ process' \in {process, [process EXCEPT ![task[t].client] = "gone"]}
  /\ UNCHANGED <<sessions, tools, created>>

(* The tools are known, and saved for no one to read. *)
ToolsListed(t) ==
  /\ task[t].pc = "list"
  /\ process[task[t].client] = "up"
  /\ tools' = [tools EXCEPT ![task[t].server] = task[t].client]
  /\ Becomes(t, Idle)
  /\ UNCHANGED <<sessions, process, created, upset>>

(* connect raises and leaves the session where it is. *)
ListRaises(t) ==
  /\ task[t].pc = "list"
  /\ Becomes(t, Idle)
  /\ UNCHANGED <<sessions, tools, process, created, upset>>

\* disconnect, of one server after the other: the next one with a session is stopped.  Those
\* without one lose their tools at once; which of them come before it is left open.
DisconnectNext(t, rest, T) ==
  LET open == {s \in rest : sessions[s] # None} IN
  \/ /\ open = {}
     /\ tools' = [s \in Servers |-> IF s \in rest THEN None ELSE T[s]]
     /\ Becomes(t, Idle)
     /\ UNCHANGED sessions
  \/ \E s \in open, passed \in SUBSET (rest \ open) :
       /\ sessions' = WithoutSession(s)
       /\ tools' = [i \in Servers |-> IF i \in passed THEN None ELSE T[i]]
       /\ Becomes(t, [pc |-> "stop", server |-> s, client |-> sessions[s],
                      rest |-> rest \ (passed \cup {s})])

(* disconnect, or disconnect_all of the sessions that there are when it begins. *)
Disconnect(t, S) ==
  /\ task[t] = Idle
  /\ DisconnectNext(t, S, tools)
  /\ upset' = IF \E s \in Servers : Busy(s) THEN upset \cup {"overlap"} ELSE upset
  /\ UNCHANGED <<process, created>>

(* The process has ended: its tools go, and the task turns to the next server. *)
Stopped(t) ==
  /\ task[t].pc = "stop"
  /\ process' = [process EXCEPT ![task[t].client] = "gone"]
  /\ DisconnectNext(t, task[t].rest, WithoutTools(task[t].server))
  /\ UNCHANGED <<created, upset>>

(* The process has ended with an exception: what is left to do stays undone. *)
StopRaises(t) ==
  /\ task[t].pc = "stop"
  /\ process' = [process EXCEPT ![task[t].client] = "gone"]
  /\ Becomes(t, Idle)
  /\ upset' = upset \cup {"raised"}
  /\ UNCHANGED <<sessions, tools, created>>

(* CallMcpToolAction: the session is looked up and asked. *)
CallTool(t, s) ==
  /\ task[t] = Idle
  /\ sessions[s] # None
  /\ Becomes(t, [pc |-> "call", server |-> s, client |-> sessions[s], rest |-> {}])
  /\ UNCHANGED <<sessions, tools, process, created, upset>>

(* It answers or raises. *)
Called(t) ==
  /\ task[t].pc = "call"
  /\ Becomes(t, Idle)
  /\ UNCHANGED <<sessions, tools, process, created, upset>>

(* The process ends: its tasks and sessions are gone, and the servers end with their
   input. *)
Stop ==
  /\ sessions' = [s \in Servers |-> None] /\ tools' = sessions'
  /\ process' = [c \in Clients |-> IF process[c] = "none" THEN "none" ELSE "gone"]
  /\ task' = [t \in Tasks |-> Idle]
  /\ upset' = {}
  /\ UNCHANGED created

Serve(t) ==
  \/ Started(t) \/ StartRaises(t) \/ StartCancelled(t) \/ ToolsListed(t) \/ ListRaises(t)
  \/ Stopped(t) \/ StopRaises(t) \/ Called(t)

Next ==
  \/ \E t \in Tasks :
       \/ \E s \in Servers : Connect(t, s) \/ Disconnect(t, {s}) \/ CallTool(t, s)
       \/ Disconnect(t, {s \in Servers : sessions[s] # None})
       \/ Serve(t)
  \/ Stop

Spec == Init /\ [][Next]_vars

-----------------------------------------------------------------------------
(* The properties. *)

\* However connects, disconnects and failures overlap, a session that is kept has not been
\* stopped: a call of a tool never finds one that another task has closed.
SessionsAreLive == \A s \in Servers : sessions[s] # None => process[sessions[s]] = "up"

\* As long as nobody connects a server that is connected, opens and closes one at the same
\* time, or cancels a start, each process that runs has a session, so that disconnect_all can
\* stop it, or a task that is about to make or end it: also when the start, the listing of
\* the tools or a stop raises.  (Otherwise a second connect overwrites the session of the
\* first, whose process stays.)
EveryProcessIsKept ==
  upset \subseteq {"raised"} =>
    \A c \in Clients : process[c] = "up" =>
      \/ \E s \in Servers : sessions[s] = c
      \/ \E t \in Tasks : task[t].client = c /\ task[t].pc \in {"start", "stop"}

\* If no stop raises, and connects and disconnects do not overlap, the tools of a server are
\* those of its session.
ToolsAreOfSession ==
  upset \subseteq {"cancelled"} =>
    \A s \in Servers : tools[s] # None => tools[s] = sessions[s] \/ Busy(s)
=============================================================================
