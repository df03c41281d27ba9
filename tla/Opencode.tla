------------------------------ MODULE Opencode ------------------------------
(***************************************************************************)
(* plugins/builtin/opencode/tools.py: calls of opencode_execute_task, each *)
(* in a worker thread (asyncio.to_thread), that share one server process,  *)
(* its port and password and one session, with no lock around any of them. *)
(*                                                                         *)
(* A step is the code between two accesses to what is shared: a field of   *)
(* _OpencodeSessionState, or the server through one HTTP request.  (The    *)
(* port and the password that a request carries are read with it.)  The    *)
(* server is modelled from its use here: a process listens on its port or  *)
(* exits if the port is taken, answers 401 to a wrong password and 404 for *)
(* a session it does not have, may fail or leave unanswered any request,   *)
(* and loses its sessions when it dies.  It outlives the tool.             *)
(***************************************************************************)
EXTENDS Naturals, FiniteSets

CONSTANTS
  Callers,    \* the turns that call the tool
  None,
  Configured, \* the port, or the password, that the configuration sets
  MaxLives,   \* bound: processes of the tool, one after the other
  MaxCalls,   \* bound: calls of the tool
  MaxUpsets   \* bound: deaths of the server

ASSUME OpencodeAssumption ==
  /\ Configured \notin Callers \X Nat
  /\ None \notin (Callers \X Nat) \cup Nat \cup {Configured}
  /\ MaxLives \in Nat \ {0} /\ MaxCalls \in Nat /\ MaxUpsets \in Nat

VARIABLES
  fixedPort, fixedPassword,  \* configured, or chosen when first needed
  alone,      \* no call is made while another one runs
  life,       \* the tool's process, or its instance, since the first one
  port,       \* the port of _base_url: _state.selected_port unless it is configured
  password,   \* the password of the requests: likewise
  session,    \* _state.session_id
  starting,   \* processes that were started and do not listen yet
  server,     \* server[p]: the password of the process that listens on port p, or None
  live,       \* live[p]: its sessions
  call,       \* call[c]: the locals of a call
  unanswered, \* the calls whose request the server keeps waiting
  calls,      \* calls so far
  made,       \* sessions created so far
  upsets,     \* deaths so far
  kept        \* history variable: no creation of a session has failed since the last save

vars == <<fixedPort, fixedPassword, alone, life, port, password, session, starting, server,
          live, call, unanswered, calls, made, upsets, kept>>
setup == <<fixedPort, fixedPassword, alone>>
shared == <<port, password, session>>
external == <<starting, server, live, made, upsets>>

\* A port or password that a call makes up is known by the call's turn and process.
Choices == (Callers \X (1 .. MaxLives)) \cup {Configured}

Sessions == 1 .. MaxCalls

\* The stages at which a request is sent and awaited.
Requesting == {"health", "wait", "validate", "create", "post"}

Running == Requesting \cup {"port", "start", "password", "resolve", "spawn", "session",
                            "read", "save"}

Call ==
  [pc : Running \cup {"idle"}, fresh : BOOLEAN, port : Choices \cup {None},
   session : Sessions \cup {None}]

AtRest == [pc |-> "idle", fresh |-> FALSE, port |-> None, session |-> None]

TypeOK ==
  /\ fixedPort \in BOOLEAN /\ fixedPassword \in BOOLEAN /\ alone \in BOOLEAN
  /\ life \in 1 .. MaxLives
  /\ port \in Choices \cup {None} /\ password \in Choices \cup {None}
  /\ session \in Sessions \cup {None}
  /\ starting \subseteq [port : Choices, password : Choices]
  /\ server \in [Choices -> Choices \cup {None}]
  /\ live \in [Choices -> SUBSET Sessions]
  /\ call \in [Callers -> Call] /\ unanswered \subseteq Callers
  /\ calls \in 0 .. MaxCalls /\ made \in 0 .. MaxCalls
  /\ upsets \in 0 .. MaxUpsets /\ kept \in BOOLEAN

\* What a new instance knows of a port or a password.
AtFirst(fixed) == IF fixed THEN Configured ELSE None

Init ==
  /\ fixedPort \in BOOLEAN /\ fixedPassword \in BOOLEAN /\ alone \in BOOLEAN
  /\ life = 1
  /\ port = AtFirst(fixedPort) /\ password = AtFirst(fixedPassword)
  /\ session = None
  /\ starting = {}
  /\ server = [p \in Choices |-> None]
  /\ live = [p \in Choices |-> {}]
  /\ call = [c \in Callers |-> AtRest] /\ unanswered = {}
  /\ calls = 0 /\ made = 0 /\ upsets = 0 /\ kept = TRUE

-----------------------------------------------------------------------------
(* Variants of the operators below, each with one plausible mistake. *)
AlwaysChooses(field) == TRUE
NeverChooses(field) == FALSE
ForgetsSession(c) == session
NeverTimesOut(c) == FALSE

-----------------------------------------------------------------------------
Listens(p) == p # None /\ server[p] # None
Healthy == Listens(port) /\ server[port] = password

\* `if self._state.<field> is None`
Unset(field) == field = None

\* What a call makes up.
Own(c) == <<c, life>>

\* _state.session_id once new_session has had its effect, and once a session was created.
Dropped(c) == IF call[c].fresh THEN None ELSE session
Saved(c) == call[c].session

\* The deadline of the poll for the server's health passes in the end.
TimesOut(c) == call[c].pc = "wait"

At(c, pc) == call[c].pc = pc
\* The call goes on; if it is over its locals are gone.
Goes(c, pc) ==
  call' = [call EXCEPT ![c] = IF pc = "idle" THEN AtRest ELSE [@ EXCEPT !.pc = pc]]

\* The request of stage pc comes back, with an answer or an error.
Returns(c, pc) == At(c, pc) /\ c \notin unanswered

\* What no step of a call touches, and what only few do.
Keeps == UNCHANGED <<setup, life, calls, unanswered>>
Quiet == Keeps /\ UNCHANGED <<external, kept>>

-----------------------------------------------------------------------------
(* execute_task is called; the URL is resolved. *)
CallTask(c) ==
  /\ call[c].pc = "idle"
  /\ calls < MaxCalls /\ calls' = calls + 1
  /\ alone => \A d \in Callers : call[d].pc = "idle"
  /\ \E fresh \in BOOLEAN :
       call' = [call EXCEPT ![c] = [AtRest EXCEPT
                  !.pc = IF Unset(port) THEN "port" ELSE "health", !.fresh = fresh]]
  /\ UNCHANGED <<setup, life, shared, external, unanswered, kept>>

(* The thread found no port and picks one. *)
PickPort(c) ==
  /\ At(c, "port")
  /\ port' = Own(c)
  /\ Goes(c, "health")
  /\ Quiet /\ UNCHANGED <<password, session>>

(* GET /global/health.  A status such as 401 is none of the errors that are caught; any
   other error and any other answer count as unhealthy. *)
CheckHealth(c) ==
  /\ Returns(c, "health")
  /\ \/ Healthy /\ Goes(c, "session")
     \/ Listens(port) /\ Goes(c, "idle")
     \/ Goes(c, "start")
  /\ Quiet /\ UNCHANGED shared

(* The server is to be started: the command names the port.  Then the model that the
   configuration names is looked up, perhaps in vain. *)
BuildCommand(c) ==
  /\ At(c, "start")
  /\ \/ call' = [call EXCEPT ![c] = [@ EXCEPT !.pc = "resolve", !.port = port]]
     \/ Goes(c, "idle")
  /\ Quiet /\ UNCHANGED shared

(* Has the tool a password yet? *)
ResolvePassword(c) ==
  /\ At(c, "resolve")
  /\ Goes(c, IF Unset(password) THEN "password" ELSE "spawn")
  /\ Quiet /\ UNCHANGED shared

(* The thread found no password and makes one up. *)
PickPassword(c) ==
  /\ At(c, "password")
  /\ password' = Own(c)
  /\ Goes(c, "spawn")
  /\ Quiet /\ UNCHANGED <<port, session>>

(* `opencode serve` is started with the password that is read now, or not found. *)
Spawn(c) ==
  /\ At(c, "spawn")
  /\ \/ /\ starting' = starting \cup {[port |-> call[c].port, password |-> password]}
        /\ Goes(c, "wait")
     \/ Goes(c, "idle") /\ UNCHANGED starting
  /\ Keeps /\ UNCHANGED <<shared, server, live, made, upsets, kept>>

(* The poll finds the server healthy, meets a status that is not caught, or gives up at
   its deadline. *)
Poll(c) ==
  /\ Returns(c, "wait")
  /\ \/ Healthy /\ Goes(c, "session")
     \/ Listens(port) /\ Goes(c, "idle")
     \/ TimesOut(c) /\ Goes(c, "idle")
  /\ Quiet /\ UNCHANGED shared

(* new_session drops the session. *)
DropSession(c) ==
  /\ At(c, "session")
  /\ session' = Dropped(c)
  /\ Goes(c, "read")
  /\ Quiet /\ UNCHANGED <<port, password>>

(* The session is read, to be validated if there is one. *)
ReadSession(c) ==
  /\ At(c, "read")
  /\ call' = [call EXCEPT ![c] = [@ EXCEPT
                !.pc = IF session = None THEN "create" ELSE "validate", !.session = session]]
  /\ Quiet /\ UNCHANGED shared

(* GET /session/<id>: any error but a 404 ends the call. *)
ValidateSession(c) ==
  /\ Returns(c, "validate")
  /\ \/ Healthy /\ Goes(c, IF call[c].session \in live[port] THEN "post" ELSE "create")
     \/ Goes(c, "idle")
  /\ Quiet /\ UNCHANGED shared

(* POST /session: the server has a new session, or it has not; and if it has, its answer
   may be lost or without an id. *)
CreateSession(c) ==
  /\ Returns(c, "create")
  /\ \/ /\ Healthy
        /\ made' = made + 1
        /\ live' = [live EXCEPT ![port] = @ \cup {made + 1}]
        /\ \/ /\ call' = [call EXCEPT ![c] = [@ EXCEPT !.pc = "save", !.session = made + 1]]
              /\ UNCHANGED kept
           \/ Goes(c, "idle") /\ kept' = FALSE
     \/ Goes(c, "idle") /\ kept' = FALSE /\ UNCHANGED <<made, live>>
  /\ Keeps /\ UNCHANGED <<shared, starting, server, upsets>>

(* The new session becomes the one that later calls find. *)
SaveSession(c) ==
  /\ At(c, "save")
  /\ session' = Saved(c)
  /\ kept' = TRUE
  /\ Goes(c, "post")
  /\ Keeps /\ UNCHANGED <<port, password, external>>

(* The prompt is posted to the session and answered, or that fails: the call is over. *)
PostMessage(c) ==
  /\ Returns(c, "post")
  /\ Goes(c, "idle")
  /\ Quiet /\ UNCHANGED shared

(* A server that took a request does not answer it: no request has a timeout, the polls
   before the deadline included. *)
Unanswered(c) ==
  /\ c \notin unanswered /\ call[c].pc \in Requesting /\ Listens(port)
  /\ unanswered' = unanswered \cup {c}
  /\ UNCHANGED <<setup, life, shared, external, call, calls, kept>>

(* It answers after all, or the connection breaks. *)
Released(c) ==
  /\ c \in unanswered
  /\ unanswered' = unanswered \ {c}
  /\ UNCHANGED <<setup, life, shared, external, call, calls, kept>>

(* A started process listens, or exits because its port is taken or for its own
   reasons. *)
ServerStarts ==
  /\ \E s \in starting :
       /\ starting' = starting \ {s}
       /\ server' = IF server[s.port] = None THEN [server EXCEPT ![s.port] = s.password]
                                             ELSE server
  /\ Keeps /\ UNCHANGED <<shared, live, call, made, upsets, kept>>

(* A process dies, with its sessions. *)
ServerDies ==
  /\ upsets < MaxUpsets
  /\ upsets' = upsets + 1
  /\ \/ \E s \in starting : starting' = starting \ {s} /\ UNCHANGED <<server, live>>
     \/ \E p \in Choices :
          /\ server[p] # None
          /\ server' = [server EXCEPT ![p] = None]
          /\ live' = [live EXCEPT ![p] = {}]
          /\ UNCHANGED starting
  /\ Keeps /\ UNCHANGED <<shared, call, made, kept>>

(* The tool's process ends and is started again, or the plugin is activated anew between
   two calls.  The server runs in a session of its own and lives on. *)
Restart ==
  /\ life < MaxLives /\ life' = life + 1
  /\ port' = AtFirst(fixedPort) /\ password' = AtFirst(fixedPassword) /\ session' = None
  /\ call' = [c \in Callers |-> AtRest] /\ unanswered' = {}
  /\ kept' = FALSE
  /\ UNCHANGED <<setup, external, calls>>

Proceed(c) ==
  \/ PickPort(c) \/ CheckHealth(c) \/ BuildCommand(c) \/ ResolvePassword(c)
  \/ PickPassword(c) \/ Spawn(c) \/ Poll(c) \/ DropSession(c) \/ ReadSession(c)
  \/ ValidateSession(c) \/ CreateSession(c) \/ SaveSession(c) \/ PostMessage(c)

Next ==
  \/ \E c \in Callers : CallTask(c) \/ Proceed(c) \/ Unanswered(c) \/ Released(c)
  \/ ServerStarts \/ ServerDies \/ Restart

(* Threads run, a request that is not left unanswered comes back, and time passes for the
   poll.  Nothing obliges a process to listen, or a server to answer in the end. *)
Fairness == \A c \in Callers : WF_vars(Proceed(c))

Spec == Init /\ [][Next]_vars /\ Fairness

-----------------------------------------------------------------------------
(* The properties. *)

Agrees == Listens(port) => server[port] = password

\* Once the password is known, the server that the tool talks to takes it, over deaths,
\* late starts, second starts and restarts of the tool: if the password is configured, or if
\* calls never overlap and no earlier process of the tool has left a server on the same port.
PasswordFits == fixedPassword \/ (alone /\ (fixedPort => life = 1)) => Agrees

\* tools.py:73: later calls reuse the same live session.  When no call runs, and the server
\* has a session, the cached one is live, unless the creation of a session has failed since:
\* it leaves None behind a new_session.  Calls that overlap need a configured port and a
\* server that does not die.
CachedSessionLives ==
  /\ kept
  /\ alone \/ (fixedPort /\ upsets = 0)
  /\ \A c \in Callers : call[c].pc = "idle"
  /\ port # None /\ live[port] # {}
  => session \in live[port]

\* Every call comes to an end, also when the server never listens, dies or turns it away,
\* unless the server leaves one of its requests unanswered.
CallEnds ==
  \A c \in Callers : call[c].pc \in Running ~> call[c].pc = "idle" \/ c \in unanswered

\* README.md:138: the first use starts the server if needed, creates a session and submits
\* the task.  A server that the tool has started takes the password that the tool sends.
ServerIsUsable == Agrees
=============================================================================
