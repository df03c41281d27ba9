---------------------------- MODULE Opencode_proofs ----------------------------
(***************************************************************************)
(* What holds of Opencode for any number of callers, calls, restarts of    *)
(* the tool and deaths of the server.                                      *)
(***************************************************************************)
EXTENDS Opencode, FiniteSetTheorems, TLAPS

(***************************************************************************)
(* A call creates one session at most, so that a call which has not done   *)
(* so yet has an id left.                                                  *)
(***************************************************************************)
Creating == {c \in Callers : call[c].pc \notin {"idle", "save", "post"}}

IdsLeft == IsFiniteSet(Creating) /\ made + Cardinality(Creating) <= calls

(***************************************************************************)
(* The port is known to a call that is past its choice, the password to    *)
(* one that starts the server; and whoever chooses finds nothing chosen,   *)
(* if there is nothing to choose or nobody else.                           *)
(***************************************************************************)
\* The ports that this process of the tool may use.
Ports == IF fixedPort THEN {Configured} ELSE Callers \X {life}

\* c is starting a server: the command is built.
Commands(c) == At(c, "resolve") \/ At(c, "password") \/ At(c, "spawn")

Chosen ==
  /\ port \in Ports \cup {None} /\ (fixedPort => port = Configured)
  /\ fixedPassword => password = Configured
  /\ \A c \in Callers : /\ ~At(c, "idle") /\ ~At(c, "port") => port # None
                        /\ At(c, "spawn") => password # None
                        /\ Commands(c) => call[c].port \in Ports

OneByOne ==
  alone => /\ \A c, d \in Callers : ~At(c, "idle") /\ ~At(d, "idle") => c = d
           /\ \A c \in Callers : /\ Commands(c) => call[c].port = port
                                 /\ At(c, "validate") => call[c].session = session

FirstChoice ==
  \A c \in Callers : /\ At(c, "port") => ~fixedPort /\ (alone => port = None)
                     /\ At(c, "password") => ~fixedPassword /\ (alone => password = None)

\* All servers that the tool may meet on its port, those to come included, take its password.
OnePassword ==
  /\ fixedPassword => /\ \A s \in starting : s.password = Configured
                      /\ \A p \in Choices : server[p] \in {None, Configured}
  /\ alone /\ (fixedPort => life = 1) =>
       /\ \A s \in starting : s.port = port => s.password = password
       /\ port # None => server[port] \in {None, password}

\* No server is on a port that nobody has picked yet.
Unused(p) == server[p] = None /\ \A s \in starting : s.port # p

Unborn ==
  \A c \in Callers, n \in 1 .. MaxLives :
    n > life \/ (n = life /\ alone /\ port = None) => Unused(<<c, n>>)

\* Only a server has sessions.
SessionsOfServers == \A p \in Choices : server[p] = None => live[p] = {}

(***************************************************************************)
(* The cached session is live between the calls because whoever drops it   *)
(* or finds it dead is about to put another one in its place, or finds no  *)
(* server, or fails to create one.                                         *)
(***************************************************************************)
Replaces(c) == At(c, "read") \/ At(c, "create") \/ At(c, "save")

Served == port # None /\ live[port] # {}

CachedAlone ==
  alone /\ Served =>
    /\ \A c \in Callers : At(c, "save") => call[c].session \in live[port]
    /\ kept /\ (\A c \in Callers : ~At(c, "save")) =>
         session \in live[port] \/ (session = None /\ \E c \in Callers : Replaces(c))

CachedByAll ==
  fixedPort /\ upsets = 0 =>
    /\ session # None => session \in live[port]
    /\ \A c \in Callers : At(c, "save") => call[c].session \in live[port]
    /\ kept /\ Served /\ session = None => \E c \in Callers : Replaces(c)

Cached == CachedAlone /\ CachedByAll

Choosing == Chosen /\ OneByOne /\ FirstChoice

Servers == OnePassword /\ Unborn /\ SessionsOfServers

IInv == TypeOK /\ IdsLeft /\ Choosing /\ Servers /\ Cached

-----------------------------------------------------------------------------
\* What a step of a call does to the calls, and what it leaves alone.
Moved(c) ==
  /\ ~At(c, "idle")
  /\ call' \in [Callers -> Call]
  /\ \A d \in Callers : d # c => call'[d] = call[d]
  /\ UNCHANGED <<fixedPort, fixedPassword, alone, life, calls, unanswered>>

Outside == UNCHANGED <<starting, server, live, made, upsets>>

\* A call goes on, or is over.
LEMMA GoesOn ==
  ASSUME TypeOK, NEW c \in Callers, NEW pc \in Running \cup {"idle"}, Goes(c, pc)
  PROVE  /\ call' \in [Callers -> Call]
         /\ call'[c].pc = pc
         /\ pc # "idle" => call'[c].session = call[c].session /\ call'[c].port = call[c].port
         /\ \A d \in Callers : d # c => call'[d] = call[d]
<1>1. call[c] \in Call /\ AtRest \in Call /\ AtRest.pc = "idle"
  BY DEF TypeOK, Call, AtRest
<1>2. CASE pc = "idle"
  BY <1>1, <1>2 DEF TypeOK, Goes
<1>3. CASE pc # "idle"
  <2>1. [call[c] EXCEPT !.pc = pc] \in Call
    BY <1>1 DEF Call
  <2>2. call' = [call EXCEPT ![c] = [call[c] EXCEPT !.pc = pc]]
    BY <1>3 DEF Goes
  <2>3. QED  BY <1>1, <1>3, <2>1, <2>2 DEF TypeOK, Call
<1>4. QED  BY <1>2, <1>3

\* A call goes on with new locals.
LEMMA Gets ==
  ASSUME TypeOK, NEW c \in Callers, NEW u \in Call, call' = [call EXCEPT ![c] = u]
  PROVE  /\ call' \in [Callers -> Call] /\ call'[c] = u
         /\ \A d \in Callers : d # c => call'[d] = call[d]
BY DEF TypeOK

\* What each step does to its call and to what is shared.
LEMMA PickPortMoves ==
  ASSUME TypeOK, NEW c \in Callers, PickPort(c)
  PROVE  /\ Moved(c) /\ At(c, "port") /\ call'[c].pc = "health"
         /\ port' = <<c, life>> /\ UNCHANGED <<password, session, kept>> /\ Outside
<1>1. Goes(c, "health") /\ At(c, "port")
  BY DEF PickPort
<1>2. QED
  BY <1>1, GoesOn DEF PickPort, Own, Moved, At, Quiet, Keeps, Outside, external, setup, Running,
                      Requesting

\* Steps that leave what is shared, and the server, alone.
Calm(c) == Moved(c) /\ Outside /\ UNCHANGED <<port, password, session, kept>>

\* A step that goes on and changes nothing else.
LEMMA QuietGoes ==
  ASSUME TypeOK, NEW c \in Callers, NEW pc \in Running \cup {"idle"}, Goes(c, pc),
         Quiet, UNCHANGED shared, ~At(c, "idle")
  PROVE  /\ Calm(c) /\ call'[c].pc = pc
         /\ pc # "idle" => call'[c].session = call[c].session /\ call'[c].port = call[c].port
BY GoesOn DEF Calm, Moved, Outside, Quiet, Keeps, shared, external, setup

\* A request for the health: the call goes on, starts a server, or raises.
LEMMA CheckHealthMoves ==
  ASSUME TypeOK, NEW c \in Callers, CheckHealth(c)
  PROVE  Calm(c) /\ At(c, "health") /\ call'[c].pc \in {"session", "idle", "start"}
<1>1. PICK pc \in {"session", "idle", "start"} : Goes(c, pc)
  BY DEF CheckHealth
<1>2. /\ pc \in Running \cup {"idle"} /\ Quiet /\ UNCHANGED shared
      /\ At(c, "health") /\ ~At(c, "idle")
  BY <1>1 DEF CheckHealth, Returns, At, Running, Requesting
<1>3. QED  BY <1>1, <1>2, QuietGoes

\* The command is built with the port of that moment, or the call raises.
LEMMA BuildCommandMoves ==
  ASSUME TypeOK, NEW c \in Callers, BuildCommand(c)
  PROVE  /\ Calm(c) /\ At(c, "start")
         /\ \/ call'[c].pc = "resolve" /\ call'[c].port = port
            \/ call'[c].pc = "idle"
<1>1. /\ Quiet /\ UNCHANGED shared
      /\ At(c, "start") /\ ~At(c, "idle")
  BY DEF BuildCommand, At
<1>2. CASE Goes(c, "idle")
  BY <1>1, <1>2, QuietGoes
<1>3. CASE call' = [call EXCEPT ![c] = [@ EXCEPT !.pc = "resolve", !.port = port]]
  <2> DEFINE u == [call[c] EXCEPT !.pc = "resolve", !.port = port]
  <2>1. u \in Call /\ u.pc = "resolve" /\ u.port = port
    BY DEF TypeOK, Call, Running
  <2>2. call' = [call EXCEPT ![c] = u]
    BY <1>3
  <2> HIDE DEF u
  <2>3. /\ call' \in [Callers -> Call] /\ call'[c] = u
        /\ \A d \in Callers : d # c => call'[d] = call[d]
    BY <2>1, <2>2, Gets
  <2>4. QED
    BY <1>1, <2>1, <2>3 DEF Calm, Moved, Outside, Quiet, Keeps, shared, external, setup
<1>4. QED  BY <1>2, <1>3 DEF BuildCommand

\* The password is chosen unless there is one.
LEMMA ResolvePasswordMoves ==
  ASSUME TypeOK, NEW c \in Callers, ResolvePassword(c)
  PROVE  /\ Calm(c) /\ At(c, "resolve")
         /\ call'[c].pc = IF password = None THEN "password" ELSE "spawn"
         /\ call'[c].port = call[c].port
<1>1. PICK pc \in {"password", "spawn"} :
        Goes(c, pc) /\ pc = IF password = None THEN "password" ELSE "spawn"
  BY DEF ResolvePassword, Unset
<1>2. /\ pc \in Running \cup {"idle"} /\ pc # "idle" /\ Quiet /\ UNCHANGED shared
      /\ At(c, "resolve") /\ ~At(c, "idle")
  BY <1>1 DEF ResolvePassword, At, Running
<1>3. QED  BY <1>1, <1>2, QuietGoes

\* Whoever chooses a password is the one that it is named after.
LEMMA PickPasswordMoves ==
  ASSUME TypeOK, NEW c \in Callers, PickPassword(c)
  PROVE  /\ Moved(c) /\ At(c, "password") /\ call'[c].pc = "spawn"
         /\ call'[c].port = call[c].port
         /\ password' = <<c, life>> /\ UNCHANGED <<port, session, kept>> /\ Outside
<1>1. Goes(c, "spawn") /\ At(c, "password")
  BY DEF PickPassword
<1>2. QED
  BY <1>1, GoesOn DEF PickPassword, Own, Moved, At, Quiet, Keeps, Outside, external, setup,
                      Running

\* A server is started with the password of that moment, or cannot be.
LEMMA SpawnMoves ==
  ASSUME TypeOK, NEW c \in Callers, Spawn(c)
  PROVE  /\ Moved(c) /\ At(c, "spawn") /\ call'[c].pc \in {"wait", "idle"}
         /\ \/ starting' = starting
            \/ starting' = starting \cup {[port |-> call[c].port, password |-> password]}
         /\ UNCHANGED <<port, password, session, server, live, made, upsets, kept>>
<1>1. PICK pc \in {"wait", "idle"} : Goes(c, pc)
  BY DEF Spawn
<1>2. QED  BY <1>1, GoesOn DEF Spawn, Moved, At, Keeps, setup, shared, Running, Requesting

\* The server answers in time or does not.
LEMMA PollMoves ==
  ASSUME TypeOK, NEW c \in Callers, Poll(c)
  PROVE  Calm(c) /\ At(c, "wait") /\ call'[c].pc \in {"session", "idle"}
<1>1. PICK pc \in {"session", "idle"} : Goes(c, pc)
  BY DEF Poll
<1>2. /\ pc \in Running \cup {"idle"} /\ Quiet /\ UNCHANGED shared
      /\ At(c, "wait") /\ ~At(c, "idle")
  BY <1>1 DEF Poll, Returns, At, Running
<1>3. QED  BY <1>1, <1>2, QuietGoes

\* A call that wants a session of its own forgets the cached one.
LEMMA DropSessionMoves ==
  ASSUME TypeOK, NEW c \in Callers, DropSession(c)
  PROVE  /\ Moved(c) /\ At(c, "session") /\ call'[c].pc = "read"
         /\ session' \in {session, None} /\ UNCHANGED <<port, password, kept>> /\ Outside
<1>1. Goes(c, "read") /\ session' \in {session, None}
  BY DEF DropSession, Dropped
<1>2. QED
  BY <1>1, GoesOn DEF DropSession, Moved, At, Quiet, Keeps, Outside, external, setup, Running

\* The call goes on with the cached session.
LEMMA ReadSessionMoves ==
  ASSUME TypeOK, NEW c \in Callers, ReadSession(c)
  PROVE  /\ Calm(c) /\ At(c, "read") /\ call'[c].session = session
         /\ call'[c].pc = IF session = None THEN "create" ELSE "validate"
<1> DEFINE u == [call[c] EXCEPT !.pc = IF session = None THEN "create" ELSE "validate",
                                !.session = session]
<1>1. u \in Call /\ u.session = session
      /\ u.pc = IF session = None THEN "create" ELSE "validate"
  BY DEF TypeOK, Call, Running, Requesting
<1>2. call' = [call EXCEPT ![c] = u]
  BY DEF ReadSession
<1> HIDE DEF u
<1>3. /\ call' \in [Callers -> Call] /\ call'[c] = u
      /\ \A d \in Callers : d # c => call'[d] = call[d]
  BY <1>1, <1>2, Gets
<1>4. QED
  BY <1>1, <1>3 DEF ReadSession, Calm, Moved, At, Outside, Quiet, Keeps, shared, external, setup

\* The cached session is used if the server has it.
LEMMA ValidateSessionMoves ==
  ASSUME TypeOK, NEW c \in Callers, ValidateSession(c)
  PROVE  /\ Calm(c) /\ At(c, "validate") /\ call'[c].pc \in {"idle", "post", "create"}
         /\ call'[c].pc = "create" => call[c].session \notin live[port]
<1>1. PICK pc \in {"idle", "post", "create"} :
        Goes(c, pc) /\ (pc = "create" => call[c].session \notin live[port])
  BY DEF ValidateSession
<1>2. /\ pc \in Running \cup {"idle"} /\ Quiet /\ UNCHANGED shared
      /\ At(c, "validate") /\ ~At(c, "idle")
  BY <1>1 DEF ValidateSession, Returns, At, Running, Requesting
<1>3. QED  BY <1>1, <1>2, QuietGoes

\* The server has a session with the next id, which the call may not hear of, or has none.
LEMMA CreateSessionMoves ==
  ASSUME TypeOK, NEW c \in Callers, CreateSession(c), made + 1 \in Sessions
  PROVE  /\ Moved(c) /\ At(c, "create")
         /\ UNCHANGED <<port, password, session, starting, server, upsets>>
         /\ \/ UNCHANGED <<made, live>>
            \/ /\ Healthy /\ made' = made + 1
               /\ live' = [live EXCEPT ![port] = @ \cup {made + 1}]
         /\ \/ call'[c].pc = "idle" /\ kept' = FALSE
            \/ /\ call'[c].pc = "save" /\ call'[c].session = made + 1 /\ kept' = kept
               /\ live' = [live EXCEPT ![port] = @ \cup {made + 1}]
               /\ Healthy /\ made' = made + 1
<1>1. /\ Keeps /\ UNCHANGED <<shared, starting, server, upsets>>
      /\ At(c, "create") /\ ~At(c, "idle")
      /\ \/ UNCHANGED <<made, live>>
         \/ /\ Healthy /\ made' = made + 1
            /\ live' = [live EXCEPT ![port] = @ \cup {made + 1}]
  BY DEF CreateSession, Returns, At
<1>2. CASE Goes(c, "idle") /\ kept' = FALSE
  BY <1>1, <1>2, GoesOn DEF Moved, Keeps, setup, shared
<1>3. CASE /\ call' = [call EXCEPT ![c] = [@ EXCEPT !.pc = "save", !.session = made + 1]]
           /\ kept' = kept /\ Healthy /\ made' = made + 1
           /\ live' = [live EXCEPT ![port] = @ \cup {made + 1}]
  <2> DEFINE u == [call[c] EXCEPT !.pc = "save", !.session = made + 1]
  <2>1. u \in Call /\ u.pc = "save" /\ u.session = made + 1
    BY DEF TypeOK, Call, Running
  <2>2. call' = [call EXCEPT ![c] = u]
    BY <1>3
  <2> HIDE DEF u
  <2>3. /\ call' \in [Callers -> Call] /\ call'[c] = u
        /\ \A d \in Callers : d # c => call'[d] = call[d]
    BY <2>1, <2>2, Gets
  <2>4. QED  BY <1>1, <1>3, <2>1, <2>3 DEF Moved, Keeps, setup, shared
<1>4. QED  BY <1>2, <1>3 DEF CreateSession

\* The new session is cached.
LEMMA SaveSessionMoves ==
  ASSUME TypeOK, NEW c \in Callers, SaveSession(c)
  PROVE  /\ Moved(c) /\ At(c, "save") /\ call'[c].pc = "post"
         /\ session' = call[c].session /\ kept' = TRUE
         /\ UNCHANGED <<port, password>> /\ Outside
<1>1. Goes(c, "post")
  BY DEF SaveSession
<1>2. QED
  BY <1>1, GoesOn DEF SaveSession, Saved, Moved, At, Keeps, Outside, external, setup, Running,
                      Requesting

\* The message is posted, and the call is over.
LEMMA PostMessageMoves ==
  ASSUME TypeOK, NEW c \in Callers, PostMessage(c)
  PROVE  Calm(c) /\ At(c, "post") /\ call'[c].pc = "idle"
<1>1. /\ Goes(c, "idle") /\ Quiet /\ UNCHANGED shared
      /\ At(c, "post") /\ ~At(c, "idle")
  BY DEF PostMessage, Returns, At
<1>2. QED  BY <1>1, QuietGoes

-----------------------------------------------------------------------------
(* Types and ids. *)

\* What the assumptions say of the values that stand for ports and passwords.
LEMMA Values ==
  /\ None \notin Choices /\ None \notin Sessions /\ Configured \in Choices
  /\ \A c \in Callers, n \in 1 .. MaxLives : <<c, n>> \in Choices /\ <<c, n>> # Configured
BY OpencodeAssumption DEF Choices, Sessions

\* A call that has not created its session has an id left for it.
LEMMA IdIsLeft ==
  ASSUME TypeOK, IdsLeft, NEW c \in Creating
  PROVE  made + 1 <= calls /\ made + 1 \in Sessions
<1>1. IsFiniteSet(Creating) /\ Creating # {}
  BY DEF IdsLeft
<1>2. Cardinality(Creating) \in Nat /\ Cardinality(Creating) # 0
  BY <1>1, FS_CardinalityType, FS_EmptySet
<1>3. QED  BY <1>2, OpencodeAssumption DEF IdsLeft, TypeOK, Sessions

\* Every step of a call keeps the types.
LEMMA TypeStep ==
  ASSUME TypeOK, IdsLeft, Choosing, NEW c \in Callers, Proceed(c)
  PROVE  TypeOK'
<1>1. ASSUME Calm(c) PROVE TypeOK'
  BY <1>1 DEF TypeOK, Calm, Moved, Outside
<1>2. CASE PickPort(c)
  <2>1. <<c, life>> \in Choices
    BY Values DEF TypeOK
  <2>2. QED  BY <1>2, <2>1, PickPortMoves DEF TypeOK, Moved, Outside
<1>3. CASE PickPassword(c)
  <2>1. <<c, life>> \in Choices
    BY Values DEF TypeOK
  <2>2. QED  BY <1>3, <2>1, PickPasswordMoves DEF TypeOK, Moved, Outside
<1>4. CASE Spawn(c)
  <2>1. password \in Choices /\ call[c].port \in Ports /\ Ports \subseteq Choices
    BY <1>4, SpawnMoves, Values DEF TypeOK, Choosing, Chosen, Commands, Ports
  <2>2. starting' \subseteq [port : Choices, password : Choices]
    BY <1>4, <2>1, SpawnMoves DEF TypeOK
  <2>3. QED  BY <1>4, <2>2, SpawnMoves DEF TypeOK, Moved
<1>5. CASE DropSession(c)
  BY <1>5, DropSessionMoves DEF TypeOK, Moved, Outside
<1>6. CASE CreateSession(c)
  <2>1. made + 1 <= calls /\ made + 1 \in Sessions
    BY <1>6, IdIsLeft DEF CreateSession, Returns, Creating, At
  <2>2. made' \in 0 .. MaxCalls /\ live' \in [Choices -> SUBSET Sessions]
    <3>1. CASE made' = made + 1 /\ live' = [live EXCEPT ![port] = @ \cup {made + 1}]
      <4>1. made' \in 0 .. MaxCalls
        BY <2>1, <3>1, OpencodeAssumption DEF TypeOK, Sessions
      <4>2. QED  BY <2>1, <3>1, <4>1 DEF TypeOK
    <3>2. CASE UNCHANGED <<made, live>>
      BY <3>2 DEF TypeOK
    <3>3. QED  BY <1>6, <2>1, <3>1, <3>2, CreateSessionMoves
  <2>3. kept' \in BOOLEAN
    BY <1>6, <2>1, CreateSessionMoves DEF TypeOK
  <2>4. QED  BY <1>6, <2>1, <2>2, <2>3, CreateSessionMoves DEF TypeOK, Moved
<1>7. CASE SaveSession(c)
  <2>1. call[c].session \in Sessions \cup {None}
    BY DEF TypeOK, Call
  <2>2. QED  BY <1>7, <2>1, SaveSessionMoves DEF TypeOK, Moved, Outside
<1>8. QED
  BY <1>1, <1>2, <1>3, <1>4, <1>5, <1>6, <1>7, CheckHealthMoves, BuildCommandMoves,
     ResolvePasswordMoves, PollMoves, ReadSessionMoves, ValidateSessionMoves, PostMessageMoves
     DEF Proceed

\* A step that creates nothing leaves as many ids.
LEMMA IdsLeftStays ==
  ASSUME TypeOK, IdsLeft, NEW c \in Callers, Moved(c),
         call[c].pc \in {"save", "post"} => call'[c].pc \in {"idle", "post"}, made' = made
  PROVE  IdsLeft'
<1>1. Creating' \subseteq Creating
  BY DEF Creating, Moved, At
<1>2. IsFiniteSet(Creating') /\ Cardinality(Creating') <= Cardinality(Creating)
  BY <1>1, FS_Subset DEF IdsLeft
<1>3. Cardinality(Creating) \in Nat /\ Cardinality(Creating') \in Nat
  BY <1>2, FS_CardinalityType DEF IdsLeft
<1>4. QED  BY <1>2, <1>3 DEF IdsLeft, TypeOK, Moved

\* Every step of a call leaves an id for each call that still needs one.
LEMMA IdsLeftStep ==
  ASSUME TypeOK, IdsLeft, NEW c \in Callers, Proceed(c)
  PROVE  IdsLeft'
<1>1. CASE CreateSession(c)
  <2>1. c \in Creating /\ made + 1 \in Sessions
    BY <1>1, IdIsLeft DEF CreateSession, Returns, Creating, At
  <2>2. Moved(c) /\ At(c, "create") /\ call'[c].pc \in {"save", "idle"}
    BY <1>1, <2>1, CreateSessionMoves
  <2>3. CASE made' = made
    BY <2>2, <2>3, IdsLeftStays DEF At
  <2>4. CASE made' = made + 1
    <3>1. Creating' = Creating \ {c}
      BY <2>2 DEF Creating, Moved
    <3>2. /\ IsFiniteSet(Creating') /\ Cardinality(Creating') = Cardinality(Creating) - 1
          /\ Cardinality(Creating) \in Nat
      BY <2>1, <3>1, FS_RemoveElement, FS_CardinalityType DEF IdsLeft
    <3>3. QED  BY <2>2, <2>4, <3>2 DEF IdsLeft, TypeOK, Moved
  <2>5. QED  BY <1>1, <2>1, <2>3, <2>4, CreateSessionMoves
<1>2. CASE PickPort(c)
  BY <1>2, PickPortMoves, IdsLeftStays DEF At, Calm, Outside
<1>3. CASE CheckHealth(c)
  BY <1>3, CheckHealthMoves, IdsLeftStays DEF At, Calm, Outside
<1>4. CASE BuildCommand(c)
  BY <1>4, BuildCommandMoves, IdsLeftStays DEF At, Calm, Outside
<1>5. CASE ResolvePassword(c)
  BY <1>5, ResolvePasswordMoves, IdsLeftStays DEF At, Calm, Outside
<1>6. CASE PickPassword(c)
  BY <1>6, PickPasswordMoves, IdsLeftStays DEF At, Calm, Outside
<1>7. CASE Spawn(c)
  BY <1>7, SpawnMoves, IdsLeftStays DEF At, Calm, Outside
<1>8. CASE Poll(c)
  BY <1>8, PollMoves, IdsLeftStays DEF At, Calm, Outside
<1>9. CASE DropSession(c)
  BY <1>9, DropSessionMoves, IdsLeftStays DEF At, Calm, Outside
<1>10. CASE ReadSession(c)
  BY <1>10, ReadSessionMoves, IdsLeftStays DEF At, Calm, Outside
<1>11. CASE ValidateSession(c)
  BY <1>11, ValidateSessionMoves, IdsLeftStays DEF At, Calm, Outside
<1>12. CASE SaveSession(c)
  BY <1>12, SaveSessionMoves, IdsLeftStays DEF At, Calm, Outside
<1>13. CASE PostMessage(c)
  BY <1>13, PostMessageMoves, IdsLeftStays DEF At, Calm, Outside
<1>14. QED
  BY <1>1, <1>2, <1>3, <1>4, <1>5, <1>6, <1>7, <1>8, <1>9, <1>10, <1>11, <1>12, <1>13
     DEF Proceed

-----------------------------------------------------------------------------
(* Port and password. *)

\* A step that chooses neither.
LEMMA StaysChosen ==
  ASSUME IInv, NEW c \in Callers, Moved(c), ~At(c, "port"), UNCHANGED <<port, password>>,
         call'[c].pc # "port",
         call'[c].pc = "password" => password = None,
         call'[c].pc = "spawn" => password # None,
         call'[c].pc \in {"resolve", "password", "spawn"} =>
           call'[c].port \in Ports /\ (alone => call'[c].port = port),
         call'[c].pc = "validate" => call'[c].session = session'
  PROVE  Choosing'
<1>1. Ports' = Ports /\ \A d \in Callers : d # c => (Commands(d)' <=> Commands(d))
  BY DEF Ports, Moved, Commands, At
<1>2. Chosen'
  BY <1>1 DEF IInv, Choosing, Chosen, Moved, At, Commands
<1>3. OneByOne'
  <2>1. ASSUME alone PROVE \A d \in Callers : d # c => call'[d].pc = "idle"
    BY <2>1 DEF IInv, Choosing, OneByOne, Moved, At
  <2>2. QED  BY <2>1 DEF OneByOne, Moved, At, Commands
<1>4. fixedPassword => password # None
  BY Values DEF IInv, Choosing, Chosen
<1>5. FirstChoice'
  BY <1>4 DEF IInv, Choosing, FirstChoice, Moved, At
<1>6. QED  BY <1>2, <1>3, <1>5 DEF Choosing

\* Every step of a call keeps what was chosen.
LEMMA ChoosingStep ==
  ASSUME IInv, NEW c \in Callers, Proceed(c)
  PROVE  Choosing'
<1>0. TypeOK /\ Choosing
  BY DEF IInv
<1>1. CASE PickPort(c)
  <2>1. /\ Moved(c) /\ At(c, "port") /\ call'[c].pc = "health"
        /\ port' = <<c, life>> /\ password' = password /\ session' = session
    BY <1>0, <1>1, PickPortMoves
  <2>2. ~fixedPort /\ Ports' = Ports /\ <<c, life>> \in Ports
    BY <1>0, <2>1 DEF Choosing, FirstChoice, Ports, Moved
  <2>3. <<c, life>> # None
    BY Values DEF IInv, TypeOK
  <2>4. \A d \in Callers : Commands(d)' <=> Commands(d) /\ d # c
    BY <2>1 DEF Moved, Commands, At
  <2>5. Chosen'
    BY <1>0, <2>1, <2>2, <2>3, <2>4 DEF Choosing, Chosen, Moved, At
  <2>6. OneByOne'
    BY <1>0, <2>1, <2>4 DEF Choosing, OneByOne, Moved, At, Commands
  <2>7. FirstChoice'
    BY <1>0, <2>1 DEF Choosing, OneByOne, FirstChoice, Moved, At
  <2>8. QED  BY <2>5, <2>6, <2>7 DEF Choosing
<1>2. CASE PickPassword(c)
  <2>1. /\ Moved(c) /\ At(c, "password") /\ call'[c].pc = "spawn"
        /\ call'[c].port = call[c].port
        /\ password' = <<c, life>> /\ port' = port /\ session' = session
    BY <1>0, <1>2, PickPasswordMoves
  <2>2. ~fixedPassword /\ Ports' = Ports
    BY <1>0, <2>1 DEF Choosing, FirstChoice, Ports, Moved
  <2>3. <<c, life>> # None
    BY Values DEF IInv, TypeOK
  <2>4. \A d \in Callers : Commands(d)' <=> Commands(d)
    BY <2>1 DEF Moved, Commands, At
  <2>5. Chosen'
    BY <1>0, <2>1, <2>2, <2>3, <2>4 DEF Choosing, Chosen, Moved, At, Commands
  <2>6. OneByOne'
    BY <1>0, <2>1, <2>4 DEF Choosing, OneByOne, Moved, At, Commands
  <2>7. FirstChoice'
    BY <1>0, <2>1 DEF Choosing, OneByOne, FirstChoice, Moved, At
  <2>8. QED  BY <2>5, <2>6, <2>7 DEF Choosing
<1>3. CASE BuildCommand(c)
  <2>1. /\ Moved(c) /\ At(c, "start") /\ UNCHANGED <<port, password, session>>
        /\ \/ call'[c].pc = "resolve" /\ call'[c].port = port
           \/ call'[c].pc = "idle"
    BY <1>0, <1>3, BuildCommandMoves DEF Calm
  <2>2. port \in Ports
    BY <1>0, <2>1 DEF Choosing, Chosen, At
  <2>3. QED  BY <2>1, <2>2, StaysChosen DEF At
<1>4. CASE ResolvePassword(c)
  <2>1. /\ Moved(c) /\ At(c, "resolve") /\ UNCHANGED <<port, password, session>>
        /\ call'[c].pc = IF password = None THEN "password" ELSE "spawn"
        /\ call'[c].port = call[c].port
    BY <1>0, <1>4, ResolvePasswordMoves DEF Calm
  <2>2. call[c].port \in Ports /\ (alone => call[c].port = port)
    BY <1>0, <2>1 DEF Choosing, Chosen, OneByOne, Commands
  <2>3. QED  BY <2>1, <2>2, StaysChosen DEF At
<1>5. CASE ReadSession(c)
  <2>1. /\ Moved(c) /\ At(c, "read") /\ UNCHANGED <<port, password, session>>
        /\ call'[c].session = session
        /\ call'[c].pc = IF session = None THEN "create" ELSE "validate"
    BY <1>0, <1>5, ReadSessionMoves DEF Calm
  <2>2. QED  BY <2>1, StaysChosen DEF At
<1>6. CASE CreateSession(c)
  <2>1. made + 1 \in Sessions
    BY <1>6, IdIsLeft DEF IInv, CreateSession, Returns, Creating, At
  <2>2. /\ Moved(c) /\ At(c, "create") /\ UNCHANGED <<port, password, session>>
        /\ call'[c].pc \in {"save", "idle"}
    BY <1>0, <1>6, <2>1, CreateSessionMoves
  <2>3. QED  BY <2>2, StaysChosen DEF At
<1>7. CASE CheckHealth(c)
  BY <1>0, <1>7, CheckHealthMoves, StaysChosen DEF At, Calm
<1>8. CASE Spawn(c)
  BY <1>0, <1>8, SpawnMoves, StaysChosen DEF At
<1>9. CASE Poll(c)
  BY <1>0, <1>9, PollMoves, StaysChosen DEF At, Calm
<1>10. CASE DropSession(c)
  BY <1>0, <1>10, DropSessionMoves, StaysChosen DEF At
<1>11. CASE ValidateSession(c)
  BY <1>0, <1>11, ValidateSessionMoves, StaysChosen DEF At, Calm
<1>12. CASE SaveSession(c)
  BY <1>0, <1>12, SaveSessionMoves, StaysChosen DEF At
<1>13. CASE PostMessage(c)
  BY <1>0, <1>13, PostMessageMoves, StaysChosen DEF At, Calm
<1>14. QED
  BY <1>1, <1>2, <1>3, <1>4, <1>5, <1>6, <1>7, <1>8, <1>9, <1>10, <1>11, <1>12, <1>13
     DEF Proceed

-----------------------------------------------------------------------------
(* The servers. *)

\* Every step of a call keeps what is said of the servers.
LEMMA ServersStep ==
  ASSUME IInv, NEW c \in Callers, Proceed(c)
  PROVE  Servers'
<1>0. TypeOK /\ Choosing /\ Servers /\ life \in 1 .. MaxLives
  BY DEF IInv, TypeOK
<1>1. ASSUME Moved(c), UNCHANGED <<port, password, starting, server, live>>
      PROVE  Servers'
  BY <1>0, <1>1 DEF Servers, OnePassword, Unborn, Unused, SessionsOfServers, Moved
<1>2. CASE PickPort(c)
  <2>1. /\ Moved(c) /\ At(c, "port") /\ port' = <<c, life>> /\ password' = password /\ Outside
    BY <1>0, <1>2, PickPortMoves
  <2>2. ~fixedPort /\ (alone => port = None)
    BY <1>0, <2>1 DEF Choosing, FirstChoice
  <2>3. alone => Unused(<<c, life>>)
    BY <1>0, <2>2 DEF Servers, Unborn
  <2>4. OnePassword'
    BY <1>0, <2>1, <2>3 DEF Servers, OnePassword, Unused, Moved, Outside
  <2>5. port' # None
    BY <1>0, <2>1, Values
  <2>6. Unborn' /\ SessionsOfServers'
    BY <1>0, <2>1, <2>5 DEF Servers, Unborn, Unused, SessionsOfServers, Moved, Outside
  <2>7. QED  BY <2>4, <2>6 DEF Servers
<1>3. CASE PickPassword(c)
  <2>1. /\ Moved(c) /\ At(c, "password") /\ password' = <<c, life>> /\ port' = port /\ Outside
    BY <1>0, <1>3, PickPasswordMoves
  <2>2. ~fixedPassword /\ (alone => password = None) /\ port # None
    BY <1>0, <2>1 DEF Choosing, FirstChoice, Chosen, At
  <2>3. OnePassword'
    <3>1. ASSUME alone, fixedPort => life = 1
          PROVE  server[port] = None /\ \A s \in starting : s.port # port
      BY <1>0, <2>2, <3>1, Values DEF TypeOK, Servers, OnePassword
    <3>2. QED  BY <2>1, <2>2, <3>1 DEF OnePassword, Moved, Outside
  <2>4. Unborn' /\ SessionsOfServers'
    BY <1>0, <2>1 DEF Servers, Unborn, Unused, SessionsOfServers, Moved, Outside
  <2>5. QED  BY <2>3, <2>4 DEF Servers
<1>4. CASE Spawn(c)
  <2> DEFINE s == [port |-> call[c].port, password |-> password]
  <2>1. /\ Moved(c) /\ At(c, "spawn")
        /\ starting' = starting \/ starting' = starting \cup {s}
        /\ UNCHANGED <<port, password, server, live>>
    BY <1>0, <1>4, SpawnMoves
  <2>2. /\ call[c].port \in Ports /\ port # None
        /\ fixedPassword => password = Configured
    BY <1>0, <2>1 DEF Choosing, Chosen, Commands, At
  <2>3. OnePassword'
    BY <1>0, <2>1, <2>2 DEF Servers, OnePassword, Moved
  <2>4. Unborn'
    <3>1. SUFFICES ASSUME NEW d \in Callers, NEW n \in 1 .. MaxLives,
                          n > life \/ (n = life /\ alone /\ port = None)
                   PROVE  Unused(<<d, n>>)'
      BY <2>1 DEF Unborn, Moved
    <3>2. n > life /\ Unused(<<d, n>>)
      BY <1>0, <2>2, <3>1 DEF Servers, Unborn
    <3>3. call[c].port # <<d, n>>
      BY <1>0, <2>2, <3>2, Values DEF Ports
    <3>4. QED  BY <2>1, <3>2, <3>3 DEF Unused
  <2>5. SessionsOfServers'
    BY <1>0, <2>1 DEF Servers, SessionsOfServers
  <2>6. QED  BY <2>3, <2>4, <2>5 DEF Servers
<1>5. CASE CreateSession(c)
  <2>1. made + 1 \in Sessions
    BY <1>5, IdIsLeft DEF IInv, CreateSession, Returns, Creating, At
  <2>2. /\ Moved(c) /\ UNCHANGED <<port, password, starting, server>>
        /\ \/ live' = live
           \/ Healthy /\ live' = [live EXCEPT ![port] = @ \cup {made + 1}]
    BY <1>0, <1>5, <2>1, CreateSessionMoves
  <2>3. SessionsOfServers'
    BY <1>0, <2>2 DEF TypeOK, Servers, SessionsOfServers, Healthy, Listens
  <2>4. OnePassword' /\ Unborn'
    BY <1>0, <2>2 DEF Servers, OnePassword, Unborn, Unused, Moved
  <2>5. QED  BY <2>3, <2>4 DEF Servers
<1>6. QED
  BY <1>0, <1>1, <1>2, <1>3, <1>4, <1>5, CheckHealthMoves, BuildCommandMoves,
     ResolvePasswordMoves, PollMoves, DropSessionMoves, ReadSessionMoves, ValidateSessionMoves,
     SaveSessionMoves, PostMessageMoves
     DEF Proceed, Calm, Outside

-----------------------------------------------------------------------------
(* The cached session. *)

\* A step that neither touches the session nor is about to.
LEMMA CalmCached ==
  ASSUME IInv, NEW c \in Callers, Calm(c), ~Replaces(c),
         call'[c].pc \notin {"read", "create", "save"}
  PROVE  Cached'
<1>1. /\ \A d \in Callers : Replaces(d)' <=> Replaces(d)
      /\ \A d \in Callers : At(d, "save") => call'[d].session = call[d].session
      /\ \A d \in Callers : At(d, "save")' <=> At(d, "save")
  BY DEF Replaces, Calm, Moved, At
<1>2. Served' = Served
  BY DEF Served, Calm, Outside
<1>3. UNCHANGED <<alone, fixedPort, upsets, port, session, live, kept>>
  BY DEF Calm, Moved, Outside
<1>4. QED  BY <1>1, <1>2, <1>3 DEF IInv, Cached, CachedAlone, CachedByAll

\* Whoever is alone is the only one that saves or replaces.
LEMMA Alone ==
  ASSUME IInv, NEW c \in Callers, Moved(c), alone, NEW d \in Callers, d # c
  PROVE  /\ ~At(d, "save") /\ ~Replaces(d) /\ ~At(d, "save")' /\ ~Replaces(d)'
BY DEF IInv, Choosing, OneByOne, Moved, At, Replaces

\* Every step of a call keeps the cached session live, or is about to replace it.
LEMMA CachedStep ==
  ASSUME IInv, NEW c \in Callers, Proceed(c)
  PROVE  Cached'
<1>0. TypeOK /\ Choosing /\ Servers /\ CachedAlone /\ CachedByAll
  BY DEF IInv, Cached
<1>1. CASE PickPort(c)
  <2>1. /\ Moved(c) /\ At(c, "port") /\ call'[c].pc = "health"
        /\ port' = <<c, life>> /\ UNCHANGED <<session, kept>> /\ Outside
    BY <1>0, <1>1, PickPortMoves
  <2>2. ~fixedPort /\ (alone => port = None)
    BY <1>0, <2>1 DEF Choosing, FirstChoice
  <2>3. alone => live'[<<c, life>>] = {}
    <3>1. life \in 1 .. MaxLives /\ <<c, life>> \in Choices
      BY <1>0, Values DEF TypeOK
    <3>2. alone => server[<<c, life>>] = None
      BY <1>0, <2>2, <3>1 DEF Servers, Unborn, Unused
    <3>3. QED  BY <1>0, <2>1, <3>1, <3>2 DEF Servers, SessionsOfServers, Outside
  <2>4. QED  BY <2>1, <2>2, <2>3 DEF Cached, CachedAlone, CachedByAll, Served, Moved
<1>2. CASE DropSession(c)
  <2>1. /\ Moved(c) /\ At(c, "session") /\ call'[c].pc = "read"
        /\ session' \in {session, None} /\ UNCHANGED <<port, kept>> /\ Outside
    BY <1>0, <1>2, DropSessionMoves
  <2>2. Replaces(c)' /\ \A d \in Callers : At(d, "save")' <=> At(d, "save")
    BY <2>1 DEF Replaces, Moved, At
  <2>3. \A d \in Callers : At(d, "save") => call'[d] = call[d]
    BY <2>1 DEF Moved, At
  <2>4. UNCHANGED <<alone, fixedPort, upsets, port, live, kept, Served>>
    BY <2>1 DEF Moved, Outside, Served
  <2>5. CachedAlone'
    BY <1>0, <2>1, <2>2, <2>3, <2>4 DEF CachedAlone
  <2>6. CachedByAll'
    BY <1>0, <2>1, <2>2, <2>3, <2>4 DEF CachedByAll
  <2>7. QED  BY <2>5, <2>6 DEF Cached
<1>3. CASE ReadSession(c)
  <2>1. /\ Moved(c) /\ At(c, "read") /\ UNCHANGED <<port, session, kept>> /\ Outside
        /\ call'[c].pc = IF session = None THEN "create" ELSE "validate"
    BY <1>0, <1>3, ReadSessionMoves DEF Calm
  <2>2. /\ \A d \in Callers : At(d, "save")' <=> At(d, "save")
        /\ \A d \in Callers : At(d, "save") => call'[d] = call[d]
    BY <2>1 DEF Moved, At
  <2>3. session = None => \A d \in Callers : Replaces(d) => Replaces(d)'
    BY <2>1 DEF Replaces, Moved, At
  <2>4. UNCHANGED <<alone, fixedPort, upsets, port, session, live, kept, Served>>
    BY <2>1 DEF Moved, Outside, Served
  <2>5. CachedAlone'
    BY <1>0, <2>2, <2>3, <2>4 DEF CachedAlone
  <2>6. CachedByAll'
    BY <1>0, <2>2, <2>3, <2>4 DEF CachedByAll
  <2>7. QED  BY <2>5, <2>6 DEF Cached
<1>4. CASE ValidateSession(c)
  <2>1. /\ Moved(c) /\ At(c, "validate") /\ UNCHANGED <<port, session, kept>> /\ Outside
        /\ call'[c].pc \in {"idle", "post", "create"}
    BY <1>0, <1>4, ValidateSessionMoves DEF Calm
  <2>2. /\ \A d \in Callers : At(d, "save")' <=> At(d, "save")
        /\ \A d \in Callers : At(d, "save") => call'[d] = call[d]
        /\ \A d \in Callers : Replaces(d) => Replaces(d)'
    BY <2>1 DEF Moved, At, Replaces
  <2>3. UNCHANGED <<alone, fixedPort, upsets, port, session, live, kept, Served>>
    BY <2>1 DEF Moved, Outside, Served
  <2>4. CachedAlone'
    BY <1>0, <2>2, <2>3 DEF CachedAlone
  <2>5. CachedByAll'
    BY <1>0, <2>2, <2>3 DEF CachedByAll
  <2>6. QED  BY <2>4, <2>5 DEF Cached
<1>5. CASE CreateSession(c)
  <2>1. made + 1 \in Sessions
    BY <1>5, IdIsLeft DEF IInv, CreateSession, Returns, Creating, At
  <2>2. /\ Moved(c) /\ At(c, "create") /\ UNCHANGED <<port, session, upsets>>
        /\ \/ live' = live
           \/ Healthy /\ live' = [live EXCEPT ![port] = @ \cup {made + 1}]
        /\ \/ call'[c].pc = "idle" /\ kept' = FALSE
           \/ /\ call'[c].pc = "save" /\ call'[c].session = made + 1 /\ kept' = kept
              /\ live' = [live EXCEPT ![port] = @ \cup {made + 1}] /\ Healthy
    BY <1>0, <1>5, <2>1, CreateSessionMoves
  <2>3. /\ live[port] \subseteq live'[port]
        /\ At(c, "save")' => call'[c].session \in live'[port]
    <3>1. Healthy => port \in Choices
      BY <1>0 DEF TypeOK, Healthy, Listens
    <3>2. QED  BY <1>0, <2>2, <3>1 DEF TypeOK, At
  <2>4. \A d \in Callers : d # c => call'[d] = call[d]
    BY <2>2 DEF Moved
  <2>5. CachedAlone'
    <3>1. SUFFICES ASSUME alone, Served'
                   PROVE  CachedAlone'
      BY <2>2 DEF CachedAlone, Moved
    <3>2. \A d \in Callers : At(d, "save")' => d = c
      BY <2>2, <3>1, Alone
    <3>3. kept' => At(c, "save")'
      BY <2>2 DEF At
    <3>4. QED  BY <2>2, <2>3, <3>2, <3>3 DEF CachedAlone
  <2>6. CachedByAll'
    <3>1. SUFFICES ASSUME fixedPort, upsets = 0
                   PROVE  CachedByAll'
      BY <2>2 DEF CachedByAll, Moved
    <3>2. \A d \in Callers : At(d, "save")' => call'[d].session \in live'[port]
      BY <1>0, <2>3, <2>4, <3>1 DEF CachedByAll, At
    <3>3. kept' => Replaces(c)'
      BY <2>2 DEF Replaces, At
    <3>4. session # None => session \in live'[port]
      BY <1>0, <2>3, <3>1 DEF CachedByAll
    <3>5. QED  BY <2>2, <3>2, <3>3, <3>4 DEF CachedByAll
  <2>7. QED  BY <2>5, <2>6 DEF Cached
<1>6. CASE SaveSession(c)
  <2>1. /\ Moved(c) /\ At(c, "save") /\ call'[c].pc = "post"
        /\ session' = call[c].session /\ kept' = TRUE /\ port' = port /\ Outside
    BY <1>0, <1>6, SaveSessionMoves
  <2>2. /\ \A d \in Callers : At(d, "save")' <=> At(d, "save") /\ d # c
        /\ \A d \in Callers : d # c => call'[d] = call[d]
    BY <2>1 DEF Moved, At
  <2>3. UNCHANGED <<alone, fixedPort, upsets, port, live, Served>>
    BY <2>1 DEF Moved, Outside, Served
  <2>4. CachedAlone'
    <3>1. alone /\ Served => call[c].session \in live[port]
      BY <1>0, <2>1 DEF CachedAlone
    <3>2. QED  BY <1>0, <2>1, <2>2, <2>3, <3>1 DEF CachedAlone
  <2>5. CachedByAll'
    <3>1. fixedPort /\ upsets = 0 => call[c].session \in live[port]
      BY <1>0, <2>1 DEF CachedByAll
    <3>2. fixedPort => port \in Choices
      BY <1>0, Values DEF Choosing, Chosen
    <3>3. fixedPort /\ upsets = 0 => call[c].session # None
      BY <1>0, <3>1, <3>2, Values DEF TypeOK
    <3>4. QED  BY <1>0, <2>1, <2>2, <2>3, <3>1, <3>3 DEF CachedByAll
  <2>6. QED  BY <2>4, <2>5 DEF Cached
<1>7. CASE Spawn(c)
  <2>1. /\ Moved(c) /\ At(c, "spawn") /\ call'[c].pc \in {"wait", "idle"}
        /\ UNCHANGED <<port, session, live, upsets, kept>>
    BY <1>0, <1>7, SpawnMoves
  <2>2. /\ \A d \in Callers : Replaces(d)' <=> Replaces(d)
        /\ \A d \in Callers : At(d, "save")' <=> At(d, "save")
        /\ \A d \in Callers : At(d, "save") => call'[d] = call[d]
    BY <2>1 DEF Replaces, Moved, At
  <2>3. UNCHANGED <<alone, fixedPort, upsets, port, session, live, kept, Served>>
    BY <2>1 DEF Moved, Served
  <2>4. QED  BY <1>0, <2>2, <2>3 DEF Cached, CachedAlone, CachedByAll
<1>8. CASE PickPassword(c)
  <2>1. /\ Moved(c) /\ At(c, "password") /\ call'[c].pc = "spawn"
        /\ UNCHANGED <<port, session, kept>> /\ Outside
    BY <1>0, <1>8, PickPasswordMoves
  <2>2. /\ \A d \in Callers : Replaces(d)' <=> Replaces(d)
        /\ \A d \in Callers : At(d, "save")' <=> At(d, "save")
        /\ \A d \in Callers : At(d, "save") => call'[d] = call[d]
    BY <2>1 DEF Replaces, Moved, At
  <2>3. UNCHANGED <<alone, fixedPort, upsets, port, session, live, kept, Served>>
    BY <2>1 DEF Moved, Outside, Served
  <2>4. QED  BY <1>0, <2>2, <2>3 DEF Cached, CachedAlone, CachedByAll
<1>9. CASE CheckHealth(c)
  BY <1>0, <1>9, CheckHealthMoves, CalmCached DEF At, Replaces
<1>10. CASE BuildCommand(c)
  BY <1>0, <1>10, BuildCommandMoves, CalmCached DEF At, Replaces
<1>11. CASE ResolvePassword(c)
  BY <1>0, <1>11, ResolvePasswordMoves, CalmCached DEF At, Replaces
<1>12. CASE Poll(c)
  BY <1>0, <1>12, PollMoves, CalmCached DEF At, Replaces
<1>13. CASE PostMessage(c)
  BY <1>0, <1>13, PostMessageMoves, CalmCached DEF At, Replaces
<1>14. QED
  BY <1>1, <1>2, <1>3, <1>4, <1>5, <1>6, <1>7, <1>8, <1>9, <1>10, <1>11, <1>12, <1>13
     DEF Proceed

-----------------------------------------------------------------------------
(* The other steps: a call begins, a request hangs, a server starts or dies, the tool is
   started again. *)

\* No call has begun at first.
LEMMA InitInv == Init => IInv
<1> SUFFICES ASSUME Init PROVE IInv
  OBVIOUS
<1>1. TypeOK
  BY Values, OpencodeAssumption DEF Init, TypeOK, Call, AtRest, AtFirst
<1>2. \A c \in Callers : At(c, "idle")
  BY DEF Init, At, AtRest
<1>3. IdsLeft
  <2>1. Creating = {}
    BY <1>2 DEF Creating, At
  <2>2. QED  BY <2>1, FS_EmptySet DEF IdsLeft, Init
<1>4. Choosing
  BY <1>2 DEF Init, AtFirst, Choosing, Chosen, OneByOne, FirstChoice, Commands, Ports, At
<1>5. Servers
  BY Values DEF Init, Servers, OnePassword, Unborn, Unused, SessionsOfServers, AtFirst
<1>6. Cached
  <2>1. ~Served
    BY Values DEF Init, Served, AtFirst
  <2>2. QED  BY <1>2, <2>1 DEF Init, Cached, CachedAlone, CachedByAll, At
<1>7. QED  BY <1>1, <1>3, <1>4, <1>5, <1>6 DEF IInv

\* A call begins.
LEMMA CallTaskStep ==
  ASSUME IInv, NEW c \in Callers, CallTask(c)
  PROVE  IInv'
<1>0. TypeOK /\ Choosing /\ Servers /\ Cached
  BY DEF IInv
<1>1. /\ At(c, "idle") /\ calls < MaxCalls /\ calls' = calls + 1
      /\ alone => \A d \in Callers : At(d, "idle")
      /\ UNCHANGED <<fixedPort, fixedPassword, alone, life, port, password, session, starting,
                     server, live, made, upsets, unanswered, kept>>
  BY DEF CallTask, At, setup, shared, external
<1>2. /\ call' \in [Callers -> Call]
      /\ \A d \in Callers : d # c => call'[d] = call[d]
      /\ call'[c].pc = IF port = None THEN "port" ELSE "health"
  <2>1. PICK fresh \in BOOLEAN :
          call' = [call EXCEPT ![c] = [AtRest EXCEPT
                     !.pc = IF Unset(port) THEN "port" ELSE "health", !.fresh = fresh]]
    BY DEF CallTask
  <2> DEFINE new == [AtRest EXCEPT
                       !.pc = IF Unset(port) THEN "port" ELSE "health", !.fresh = fresh]
  <2>2. new \in Call /\ new.pc = IF port = None THEN "port" ELSE "health"
    BY DEF AtRest, Call, Running, Requesting, Unset
  <2>3. call' = [call EXCEPT ![c] = new]
    BY <2>1
  <2> HIDE DEF new
  <2>4. QED  BY <1>0, <2>2, <2>3, Gets
<1>3. TypeOK'
  BY <1>0, <1>1, <1>2, OpencodeAssumption DEF TypeOK
<1>4. IdsLeft'
  <2>1. Creating' = Creating \cup {c} /\ c \notin Creating
    BY <1>1, <1>2 DEF Creating, At
  <2>2. /\ IsFiniteSet(Creating') /\ Cardinality(Creating') = Cardinality(Creating) + 1
        /\ Cardinality(Creating) \in Nat
    BY <2>1, FS_AddElement, FS_CardinalityType DEF IInv, IdsLeft
  <2>3. QED  BY <1>1, <2>2 DEF IInv, IdsLeft, TypeOK
<1>5. Choosing'
  <2>1. \A d \in Callers : Commands(d)' <=> Commands(d) /\ d # c
    BY <1>1, <1>2 DEF Commands, At
  <2>2. Chosen'
    BY <1>0, <1>1, <1>2, <2>1 DEF Choosing, Chosen, Ports, At
  <2>3. OneByOne'
    BY <1>0, <1>1, <1>2, <2>1 DEF Choosing, OneByOne, At, Commands
  <2>4. fixedPort => port # None
    BY <1>0, Values DEF Choosing, Chosen
  <2>5. FirstChoice'
    BY <1>0, <1>1, <1>2, <2>4 DEF Choosing, FirstChoice, At
  <2>6. QED  BY <2>2, <2>3, <2>5 DEF Choosing
<1>6. Servers'
  BY <1>0, <1>1 DEF Servers, OnePassword, Unborn, Unused, SessionsOfServers
<1>7. Cached'
  <2>1. /\ \A d \in Callers : Replaces(d)' <=> Replaces(d)
        /\ \A d \in Callers : At(d, "save") => call'[d] = call[d]
        /\ \A d \in Callers : At(d, "save")' <=> At(d, "save")
    BY <1>1, <1>2 DEF Replaces, At
  <2>2. Served' = Served
    BY <1>1 DEF Served
  <2>3. QED  BY <1>0, <1>1, <2>1, <2>2 DEF Cached, CachedAlone, CachedByAll
<1>8. QED  BY <1>3, <1>4, <1>5, <1>6, <1>7 DEF IInv

\* A request hangs, or no longer does; or nothing happens at all.
LEMMA HangStep ==
  ASSUME IInv, unanswered' \subseteq Callers,
         UNCHANGED <<fixedPort, fixedPassword, alone, life, port, password, session, starting,
                     server, live, call, calls, made, upsets, kept>>
  PROVE  IInv'
<1>1. TypeOK' /\ IdsLeft'
  BY DEF IInv, TypeOK, IdsLeft, Creating
<1>2. Choosing'
  BY DEF IInv, Choosing, Chosen, OneByOne, FirstChoice, Commands, Ports, At
<1>3. Servers'
  BY DEF IInv, Servers, OnePassword, Unborn, Unused, SessionsOfServers
<1>4. Cached'
  BY DEF IInv, Cached, CachedAlone, CachedByAll, Served, Replaces, At
<1>5. QED  BY <1>1, <1>2, <1>3, <1>4 DEF IInv

\* What the calls know stays true while the servers change.
LEMMA CallsStay ==
  ASSUME IInv, UNCHANGED <<fixedPort, fixedPassword, alone, life, port, password, session, call,
                           calls, made>>
  PROVE  IdsLeft' /\ Choosing'
<1>1. IdsLeft'
  BY DEF IInv, IdsLeft, Creating
<1>2. Choosing'
  BY DEF IInv, Choosing, Chosen, OneByOne, FirstChoice, Commands, Ports, At
<1>3. QED  BY <1>1, <1>2

\* A process listens on its port, or exits if the port is taken.
LEMMA ServerStartsStep ==
  ASSUME IInv, ServerStarts
  PROVE  IInv'
<1>0. TypeOK /\ Servers /\ Cached
  BY DEF IInv
<1>1. PICK s \in starting :
        /\ starting' = starting \ {s}
        /\ server' = IF server[s.port] = None THEN [server EXCEPT ![s.port] = s.password]
                                              ELSE server
  BY DEF ServerStarts
<1>2. UNCHANGED <<fixedPort, fixedPassword, alone, life, port, password, session, live, call,
                  calls, made, upsets, unanswered, kept>>
  BY DEF ServerStarts, Keeps, setup, shared
<1>3. s.port \in Choices /\ s.password \in Choices
  BY <1>0 DEF TypeOK
<1>4. /\ server' \in [Choices -> Choices \cup {None}]
      /\ \A p \in Choices : server'[p] = server[p] \/ (p = s.port /\ server'[p] = s.password)
      /\ \A p \in Choices : server[p] # None => server'[p] = server[p]
  BY <1>0, <1>1, <1>3 DEF TypeOK
<1>5. TypeOK'
  BY <1>0, <1>1, <1>2, <1>4 DEF TypeOK
<1>6. OnePassword'
  <2>1. port # None => port \in Choices
    BY <1>0 DEF TypeOK
  <2>2. QED  BY <1>0, <1>1, <1>2, <1>4, <2>1 DEF Servers, OnePassword
<1>7. Unborn'
  BY <1>0, <1>1, <1>2, <1>4, Values DEF Servers, Unborn, Unused
<1>8. SessionsOfServers'
  BY <1>0, <1>2, <1>4 DEF Servers, SessionsOfServers
<1>9. Cached'
  BY <1>0, <1>2 DEF Cached, CachedAlone, CachedByAll, Served, Replaces, At
<1>10. QED  BY <1>2, <1>5, <1>6, <1>7, <1>8, <1>9, CallsStay DEF IInv, Servers

\* A server dies with its sessions.
LEMMA ServerDiesStep ==
  ASSUME IInv, ServerDies
  PROVE  IInv'
<1>0. TypeOK /\ Servers /\ Cached
  BY DEF IInv
<1>1. /\ upsets' = upsets + 1 /\ upsets < MaxUpsets
      /\ UNCHANGED <<fixedPort, fixedPassword, alone, life, port, password, session, call,
                     calls, made, unanswered, kept>>
  BY DEF ServerDies, Keeps, setup, shared
<1>2. /\ starting' \subseteq starting
      /\ server' \in [Choices -> Choices \cup {None}] /\ live' \in [Choices -> SUBSET Sessions]
      /\ \A p \in Choices : \/ server'[p] = server[p] /\ live'[p] = live[p]
                            \/ server'[p] = None /\ live'[p] = {}
  BY <1>0 DEF ServerDies, TypeOK
<1>3. TypeOK'
  BY <1>0, <1>1, <1>2, OpencodeAssumption DEF TypeOK
<1>4. port # None => port \in Choices
  BY <1>0 DEF TypeOK
<1>5. OnePassword'
  BY <1>0, <1>1, <1>2, <1>4 DEF Servers, OnePassword
<1>6. Unborn' /\ SessionsOfServers'
  BY <1>0, <1>1, <1>2, Values DEF Servers, Unborn, Unused, SessionsOfServers
<1>7. Cached'
  <2>1. upsets' # 0
    BY <1>0, <1>1 DEF TypeOK
  <2>2. Served' => live'[port] = live[port] /\ Served
    BY <1>1, <1>2, <1>4 DEF Served
  <2>3. QED  BY <1>0, <1>1, <2>1, <2>2 DEF Cached, CachedAlone, CachedByAll, Replaces, At
<1>8. QED  BY <1>1, <1>3, <1>5, <1>6, <1>7, CallsStay DEF IInv, Servers

\* A new process of the tool knows what is configured, and meets the servers of the earlier
\* ones.
LEMMA RestartStep ==
  ASSUME IInv, Restart
  PROVE  IInv'
<1>0. TypeOK /\ IdsLeft /\ Choosing /\ Servers /\ Cached
  BY DEF IInv
<1>1. /\ life < MaxLives /\ life' = life + 1
      /\ port' = AtFirst(fixedPort) /\ password' = AtFirst(fixedPassword) /\ session' = None
      /\ call' = [c \in Callers |-> AtRest] /\ unanswered' = {} /\ kept' = FALSE
      /\ UNCHANGED <<fixedPort, fixedPassword, alone, starting, server, live, made, upsets,
                     calls>>
  BY DEF Restart, setup, external
<1>2. \A c \in Callers : At(c, "idle")'
  BY <1>1 DEF At, AtRest
<1>3. life' \in 1 .. MaxLives /\ life' # 1
  BY <1>0, <1>1, OpencodeAssumption DEF TypeOK
<1>4. TypeOK'
  BY <1>0, <1>1, <1>3, Values DEF TypeOK, Call, AtRest, AtFirst
<1>5. IdsLeft'
  <2>1. Creating' = {}
    BY <1>2 DEF Creating, At
  <2>2. made <= calls
    <3>1. Cardinality(Creating) \in Nat
      BY <1>0, FS_CardinalityType DEF IdsLeft
    <3>2. QED  BY <1>0, <3>1 DEF IdsLeft, TypeOK
  <2>3. QED  BY <1>0, <1>1, <2>1, <2>2, FS_EmptySet DEF IdsLeft, TypeOK
<1>6. Choosing'
  BY <1>1, <1>2 DEF AtFirst, Choosing, Chosen, OneByOne, FirstChoice, Commands, Ports, At
<1>7. OnePassword'
  <2>1. ASSUME ~fixedPort PROVE port' = None
    BY <1>1, <2>1 DEF AtFirst
  <2>2. \A s \in starting : s.port # None
    BY <1>0, Values DEF TypeOK
  <2>3. QED  BY <1>0, <1>1, <1>3, <2>1, <2>2 DEF Servers, OnePassword
<1>8. Unborn'
  BY <1>0, <1>1 DEF TypeOK, Servers, Unborn, Unused
<1>9. SessionsOfServers'
  BY <1>0, <1>1 DEF Servers, SessionsOfServers
<1>10. Cached'
  BY <1>1, <1>2 DEF Cached, CachedAlone, CachedByAll, At
<1>11. QED  BY <1>4, <1>5, <1>6, <1>7, <1>8, <1>9, <1>10 DEF IInv, Servers

\* Every step keeps the invariant.
LEMMA StepInv == IInv /\ [Next]_vars => IInv'
<1> SUFFICES ASSUME IInv, [Next]_vars PROVE IInv'
  OBVIOUS
<1>1. ASSUME NEW c \in Callers, CallTask(c) PROVE IInv'
  BY <1>1, CallTaskStep
<1>2. ASSUME NEW c \in Callers, Proceed(c) PROVE IInv'
  BY <1>2, TypeStep, IdsLeftStep, ChoosingStep, ServersStep, CachedStep DEF IInv
<1>3. ASSUME NEW c \in Callers, Unanswered(c) \/ Released(c) PROVE IInv'
  BY <1>3, HangStep DEF Unanswered, Released, setup, shared, external, IInv, TypeOK
<1>4. CASE ServerStarts
  BY <1>4, ServerStartsStep
<1>5. CASE ServerDies
  BY <1>5, ServerDiesStep
<1>6. CASE Restart
  BY <1>6, RestartStep
<1>7. CASE UNCHANGED vars
  BY <1>7, HangStep DEF vars, IInv, TypeOK
<1>8. QED  BY <1>1, <1>2, <1>3, <1>4, <1>5, <1>6, <1>7 DEF Next

\* Every reachable state is one of the invariant.
LEMMA Invariance == Spec => []IInv
BY InitInv, StepInv, PTL DEF Spec

-----------------------------------------------------------------------------
\* Type correctness; in particular every call has an id for its session.
THEOREM TypeCorrect == Spec => []TypeOK
<1>1. IInv => TypeOK
  BY DEF IInv
<1>2. QED  BY <1>1, Invariance, PTL

\* A tool that has its password from the configuration, or that is used by one call at a time
\* and meets no server of an earlier process on its port, fits the servers that it meets.
THEOREM PasswordAlwaysFits == Spec => []PasswordFits
<1>1. IInv => PasswordFits
  <2>1. SUFFICES ASSUME IInv, fixedPassword \/ (alone /\ (fixedPort => life = 1)), Listens(port)
                 PROVE  server[port] = password
    BY DEF PasswordFits, Agrees
  <2>2. port \in Choices /\ server[port] # None
    BY <2>1 DEF IInv, TypeOK, Listens
  <2>3. QED
    BY <2>1, <2>2, Values DEF IInv, Servers, OnePassword, Choosing, Chosen
<1>2. QED  BY <1>1, Invariance, PTL

\* Between the calls the cached session is one that the server has, unless the creation of
\* one has failed since.
THEOREM SessionsAreReused == Spec => []CachedSessionLives
<1>1. IInv => CachedSessionLives
  <2>1. SUFFICES ASSUME IInv, kept, alone \/ (fixedPort /\ upsets = 0), Served,
                        \A c \in Callers : At(c, "idle")
                 PROVE  session \in live[port]
    BY DEF CachedSessionLives, Served, At
  <2>2. \A c \in Callers : ~At(c, "save") /\ ~Replaces(c)
    BY <2>1 DEF At, Replaces
  <2>3. QED  BY <2>1, <2>2 DEF IInv, Cached, CachedAlone, CachedByAll
<1>2. QED  BY <1>1, Invariance, PTL
=============================================================================
