---------------------------- MODULE SshSessions ----------------------------
(***************************************************************************)
(* plugins/builtin/ssh: SSH connections kept in the pool of an instance of *)
(* the plugin, under ids that are told to the model.                       *)
(*                                                                         *)
(* The tools run in worker threads (tool_executor.py), one per call.  The  *)
(* thread of a call whose turn is cancelled runs on, and its answer is     *)
(* lost.  A call keeps the instance that it was looked up in.              *)
(***************************************************************************)
EXTENDS Naturals

CONSTANTS
  Sessions,      \* ids, as many as can be opened
  Callers,       \* as many calls as can be at work at once
  MaxInstances,  \* bound: instances of the plugin
  None

Instances == 1 .. MaxInstances

(* What is being done, whether in the thread's queue or past its pool, with which id (one
   that was closed before?), in which instance, and whether its turn is gone. *)
Calls ==
  [does : {"open"}, at : {"remote"}, id : {None}, stale : {FALSE}, in : Instances,
   gone : BOOLEAN]
  \cup [does : {"execute", "close"}, at : {"queued", "remote"}, id : Sessions,
        stale : BOOLEAN, in : Instances, gone : BOOLEAN]

(* What Toolset assumes of them. *)
SshSessionsAssumption ==
  /\ MaxInstances \in Nat
  /\ None \notin Nat \cup Sessions \cup Calls

VARIABLES
  instance,  \* the instance that the tools' names lead to, None when the plugin is off
  made,      \* instances made so far
  pool,      \* pool[s]: the instance whose _clients has s, or None
  client,    \* client[s]: the connection, "none" before it is open
  call,      \* call[c]: a call at work, or None
  told,      \* ids that the model was told
  closed,    \* ids that it was told are closed
  unheard,   \* ids that it was not told, since the turn was cancelled meanwhile
  stuck      \* ids whose close() raised

vars == <<instance, made, pool, client, call, told, closed, unheard, stuck>>

TypeOK ==
  /\ made \in 0 .. MaxInstances
  /\ instance \in 1 .. made \cup {None}
  /\ pool \in [Sessions -> Instances \cup {None}]
  /\ client \in [Sessions -> {"none", "open", "lost", "closed"}]
  /\ call \in [Callers -> Calls \cup {None}]
  /\ told \subseteq Sessions /\ closed \subseteq told
  /\ unheard \subseteq Sessions /\ stuck \subseteq Sessions

Init ==
  /\ instance = None /\ made = 0
  /\ pool = [s \in Sessions |-> None]
  /\ client = [s \in Sessions |-> "none"]
  /\ call = [c \in Callers |-> None]
  /\ told = {} /\ closed = {} /\ unheard = {} /\ stuck = {}

-----------------------------------------------------------------------------
(* Variants of the operators below, each with one plausible mistake. *)
StillThere(s) == pool
AllDropped(s) == [t \in Sessions |-> IF pool[t] = pool[s] THEN None ELSE pool[t]]

-----------------------------------------------------------------------------
\* A call ends.  What a thread whose turn is gone returns reaches nobody.
Ends(c) == call' = [call EXCEPT ![c] = None]
Heard(c) == ~call[c].gone

Without(s) == [pool EXCEPT ![s] = None]

At(c, does, at) == call[c] # None /\ call[c].does = does /\ call[c].at = at

\* A thread looks its id up in the pool of its instance, and raises if it is not there.
Found(c) == pool[call[c].id] = call[c].in

-----------------------------------------------------------------------------
(* A turn calls a tool. *)
Open(c) ==
  /\ instance # None /\ call[c] = None
  /\ call' = [call EXCEPT ![c] = [does |-> "open", at |-> "remote", id |-> None,
                                  stale |-> FALSE, in |-> instance, gone |-> FALSE]]
  /\ UNCHANGED <<instance, made, pool, client, told, closed, unheard, stuck>>

Use(c, does, s) ==
  /\ instance # None /\ call[c] = None
  /\ s \in told
  /\ call' = [call EXCEPT ![c] = [does |-> does, at |-> "queued", id |-> s,
                                  stale |-> s \in closed, in |-> instance, gone |-> FALSE]]
  /\ UNCHANGED <<instance, made, pool, client, told, closed, unheard, stuck>>

(* open_session: connect returns, the client goes into the pool under a new id. *)
Opened(c, s) ==
  /\ At(c, "open", "remote")
  /\ client[s] = "none"
  /\ client' = [client EXCEPT ![s] = "open"]
  /\ pool' = [pool EXCEPT ![s] = call[c].in]
  /\ IF Heard(c) THEN told' = told \cup {s} /\ UNCHANGED unheard
                 ELSE unheard' = unheard \cup {s} /\ UNCHANGED told
  /\ Ends(c)
  /\ UNCHANGED <<instance, made, closed, stuck>>

(* connect raises, or a command has been answered or raises. *)
EndsAlone(c) ==
  /\ At(c, "open", "remote") \/ At(c, "execute", "remote")
  /\ Ends(c)
  /\ UNCHANGED <<instance, made, pool, client, told, closed, unheard, stuck>>

(* execute_command gets the client; the command runs, for as long as it likes. *)
Execute(c) ==
  /\ At(c, "execute", "queued")
  /\ IF Found(c) THEN call' = [call EXCEPT ![c].at = "remote"] ELSE Ends(c)
  /\ UNCHANGED <<instance, made, pool, client, told, closed, unheard, stuck>>

(* close_session takes the client out of the pool, then closes it. *)
TakeOut(c) ==
  /\ At(c, "close", "queued")
  /\ IF Found(c)
       THEN pool' = Without(call[c].id) /\ call' = [call EXCEPT ![c].at = "remote"]
       ELSE Ends(c) /\ UNCHANGED pool
  /\ UNCHANGED <<instance, made, client, told, closed, unheard, stuck>>

Closed(c) ==
  /\ At(c, "close", "remote")
  /\ client' = [client EXCEPT ![call[c].id] = "closed"]
  /\ closed' = IF Heard(c) THEN closed \cup {call[c].id} ELSE closed
  /\ Ends(c)
  /\ UNCHANGED <<instance, made, pool, told, unheard, stuck>>

CloseRaises(c) ==
  /\ At(c, "close", "remote")
  /\ stuck' = stuck \cup {call[c].id}
  /\ Ends(c)
  /\ UNCHANGED <<instance, made, pool, client, told, closed, unheard>>

(* The turn of a call is cancelled. *)
Cancel(c) ==
  /\ call[c] # None /\ Heard(c)
  /\ call' = [call EXCEPT ![c].gone = TRUE]
  /\ UNCHANGED <<instance, made, pool, client, told, closed, unheard, stuck>>

(* The other side, or the network, ends a connection: it stays in the pool. *)
Lose(s) ==
  /\ client[s] = "open"
  /\ client' = [client EXCEPT ![s] = "lost"]
  /\ UNCHANGED <<instance, made, pool, call, told, closed, unheard, stuck>>

-----------------------------------------------------------------------------
(* The plugin is activated with a new instance or with one made before, or it is disabled.
   Nothing closes the connections of the instance that is left. *)
Activate ==
  /\ \/ made < MaxInstances /\ made' = made + 1 /\ instance' = made + 1
     \/ UNCHANGED made /\ instance' \in 1 .. made
  /\ UNCHANGED <<pool, client, call, told, closed, unheard, stuck>>

Load ==
  /\ made < MaxInstances /\ made' = made + 1 /\ instance' = made + 1
  /\ UNCHANGED <<pool, client, call, told, closed, unheard, stuck>>

Deactivate ==
  /\ instance' = None
  /\ UNCHANGED <<made, pool, client, call, told, closed, unheard, stuck>>

(* The process ends, its connections with it; what the model was told is on file. *)
Stop ==
  /\ instance' = None
  /\ pool' = [s \in Sessions |-> None]
  /\ client' = [s \in Sessions |-> IF client[s] = "open" THEN "closed" ELSE client[s]]
  /\ call' = [c \in Callers |-> None]
  /\ UNCHANGED <<made, told, closed, unheard, stuck>>

Calling == \E c \in Callers :
  Open(c) \/ \E s \in Sessions, does \in {"execute", "close"} : Use(c, does, s)

Working ==
  \/ \E c \in Callers : \/ \E s \in Sessions : Opened(c, s)
                        \/ EndsAlone(c) \/ Execute(c) \/ TakeOut(c)
                        \/ Closed(c) \/ CloseRaises(c) \/ Cancel(c)
  \/ \E s \in Sessions : Lose(s)

Next == Calling \/ Working \/ Activate \/ Load \/ Deactivate \/ Stop

-----------------------------------------------------------------------------
(* The properties. *)

\* A session that was answered closed is served no more: a call that began after that
\* gets no client, and of two calls that close a session at once only one does.
ClosedIsGone ==
  /\ \A c \in Callers :
       call[c] # None /\ call[c].at = "remote" => ~call[c].stale
  /\ \A c, d \in Callers :
       At(c, "close", "remote") /\ At(d, "close", "remote") /\ call[c].id = call[d].id
         => c = d
=============================================================================
