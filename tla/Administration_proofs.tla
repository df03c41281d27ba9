------------------------- MODULE Administration_proofs -------------------------
(***************************************************************************)
(* What holds of Administration for any number of skills, servers, models, *)
(* tasks and operations.                                                   *)
(***************************************************************************)
EXTENDS Administration, TLAPS

(***************************************************************************)
(* The agent's changes of itself.  A service that has read its list holds  *)
(* what is on file, but for entries whose change was never answered; while *)
(* a change is half done its entry is the same in both.  What the state in *)
(* memory lists is sound as well, since the next save writes all of it.    *)
(***************************************************************************)
HeldAgrees ==
  \A k \in Mutation!Ids : Mutation!List(k) \in loaded =>
    held[k] = onFile[k] \/ (told[k] = None /\ k \in doubtful)

HalfDone ==
  pending # None =>
    /\ onFile[pending.id] = Mutation!Value(pending.op)
    /\ held[pending.id] = onFile[pending.id]
    /\ pending.id \in doubtful

StatesAreSound ==
  \A k \in state.listed \cup stateFile.listed : onFile[k] = "on" \/ k \in doubtful

MutationInv ==
  Mutation!TypeOK /\ HeldAgrees /\ HalfDone /\ AnsweredIsKept /\ StatesAreSound

\* Skills and servers are in two lists, and each id is in its own.
LEMMA Lists ==
  \A i, k \in Mutation!Ids :
    /\ i \in Mutation!List(i)
    /\ Mutation!List(i) \in {Skills, Servers}
    /\ k \in Mutation!List(i) <=> Mutation!List(k) = Mutation!List(i)
BY AdministrationAssumption DEF Mutation!SelfMutationAssumption, Mutation!Ids, Mutation!List

\* add, enable and disable change the entry they are about; the others of its list become
\* what they were on file if the list had not been read.
LEMMA ChangedHolds ==
  ASSUME MutationInv, NEW i \in Mutation!Ids, NEW op \in Mutation!Ops, Mutation!Changed(op, i)
  PROVE  /\ loaded' = loaded \cup {Mutation!List(i)} /\ loaded' \subseteq {Skills, Servers}
         /\ held' \in [Mutation!Ids -> Mutation!Entry]
         /\ held'[i] = Mutation!Value(op)
         /\ \A k \in Mutation!Ids : k # i /\ k \in Mutation!List(i) =>
              held'[k] = onFile[k] \/ (told[k] = None /\ k \in doubtful)
         /\ \A k \in Mutation!Ids : k \notin Mutation!List(i) => held'[k] = held[k]
<1>1. loaded \subseteq {Skills, Servers} /\ held \in [Mutation!Ids -> Mutation!Entry]
      /\ onFile \in [Mutation!Ids -> Mutation!Entry]
  BY DEF MutationInv, Mutation!TypeOK
<1>2. \A k \in Mutation!Ids : Mutation!Known(k) \in Mutation!Entry
  BY <1>1 DEF Mutation!Known
<1>3. Mutation!Value(op) \in Mutation!Entry
  BY DEF Mutation!Value, Mutation!Entry
<1>4. loaded' = loaded \cup {Mutation!List(i)}
      /\ held' = [k \in Mutation!Ids |->
                    IF k = i THEN Mutation!Value(op)
                    ELSE IF k \in Mutation!List(i) THEN Mutation!Known(k) ELSE held[k]]
  BY DEF Mutation!Changed
<1>5. held' \in [Mutation!Ids -> Mutation!Entry]
  BY <1>1, <1>2, <1>3, <1>4
<1>6. ASSUME NEW k \in Mutation!Ids, k # i, k \in Mutation!List(i)
      PROVE  held'[k] = onFile[k] \/ (told[k] = None /\ k \in doubtful)
  <2>1. held'[k] = Mutation!Known(k)
    BY <1>4, <1>6
  <2>2. QED  BY <2>1 DEF Mutation!Known, MutationInv, HeldAgrees
<1>7. \A k \in Mutation!Ids : k \notin Mutation!List(i) => held'[k] = held[k]
  BY <1>4, Lists
<1>8. QED  BY <1>1, <1>4, <1>5, <1>6, <1>7, Lists

\* Saving a list makes the file what the service holds of it, and leaves the other file.
LEMMA Saved ==
  ASSUME MutationInv, NEW i \in Mutation!Ids, NEW op \in Mutation!Ops, Mutation!Changed(op, i),
         Mutation!SaveList(i)
  PROVE  /\ onFile' \in [Mutation!Ids -> Mutation!Entry]
         /\ \A k \in Mutation!Ids : k \in Mutation!List(i) => onFile'[k] = held'[k]
         /\ \A k \in Mutation!Ids : k \notin Mutation!List(i) => onFile'[k] = onFile[k]
BY ChangedHolds DEF MutationInv, Mutation!TypeOK, Mutation!SaveList

\* The first half of a change.
LEMMA ChangeKeeps ==
  ASSUME MutationInv, NEW i \in Mutation!Ids, NEW op \in Mutation!Ops, Mutation!Change(op, i)
  PROVE  MutationInv'
<1> USE DEF Mutation!Change
<1>1. Mutation!Changed(op, i) /\ Mutation!SaveList(i)
  OBVIOUS
<1>2. Mutation!TypeOK'
  BY <1>1, ChangedHolds, Saved DEF MutationInv, Mutation!TypeOK
<1>3. HeldAgrees'
  BY <1>1, ChangedHolds, Saved, Lists DEF MutationInv, HeldAgrees, Mutation!TypeOK, Mutation!Changed
<1>4. HalfDone'
  BY <1>1, ChangedHolds, Saved, Lists DEF HalfDone
<1>5. AnsweredIsKept'
  BY <1>1, ChangedHolds, Saved, Lists
     DEF MutationInv, AnsweredIsKept, Mutation!AnsweredIsKept, Mutation!TypeOK
<1>6. StatesAreSound'
  BY <1>1, ChangedHolds, Saved, Lists
  DEF MutationInv, StatesAreSound, Mutation!TypeOK, Mutation!State
<1>7. QED  BY <1>2, <1>3, <1>4, <1>5, <1>6 DEF MutationInv

\* A list that cannot be written: only the entry of the change is ahead of its file.
LEMMA ChangeRaisesKeeps ==
  ASSUME MutationInv, NEW i \in Mutation!Ids, NEW op \in Mutation!Ops,
         Mutation!ChangeRaises(op, i)
  PROVE  MutationInv'
<1> USE DEF Mutation!ChangeRaises
<1>1. Mutation!Changed(op, i)
  OBVIOUS
<1>2. Mutation!TypeOK'
  BY <1>1, ChangedHolds DEF MutationInv, Mutation!TypeOK
<1>3. HeldAgrees'
  BY <1>1, ChangedHolds, Lists DEF MutationInv, HeldAgrees, Mutation!TypeOK
<1>4. HalfDone'
  BY <1>1 DEF HalfDone, Mutation!Changed
<1>5. AnsweredIsKept'
  BY DEF MutationInv, AnsweredIsKept, Mutation!AnsweredIsKept, Mutation!TypeOK
<1>6. StatesAreSound'
  BY DEF MutationInv, StatesAreSound
<1>7. QED  BY <1>2, <1>3, <1>4, <1>5, <1>6 DEF MutationInv

\* A change of what is not there reads the list.
LEMMA NotFoundKeeps ==
  ASSUME MutationInv, NEW i \in Mutation!Ids, NEW op \in Mutation!Ops,
         Mutation!NotFound(op, i)
  PROVE  MutationInv'
<1> USE DEF Mutation!NotFound
<1>1. \A k \in Mutation!Ids : Mutation!Known(k) \in Mutation!Entry
  BY DEF MutationInv, Mutation!TypeOK, Mutation!Known
<1>2. Mutation!TypeOK'
  BY <1>1, Lists DEF MutationInv, Mutation!TypeOK
<1>3. HeldAgrees'
  <2>1. SUFFICES ASSUME NEW k \in Mutation!Ids, Mutation!List(k) \in loaded'
                 PROVE  held'[k] = onFile[k] \/ (told[k] = None /\ k \in doubtful)
    BY DEF HeldAgrees
  <2>2. CASE k \in Mutation!List(i)
    BY <2>2 DEF MutationInv, HeldAgrees, Mutation!Known
  <2>3. CASE k \notin Mutation!List(i)
    BY <2>1, <2>3, Lists DEF MutationInv, HeldAgrees
  <2>4. QED  BY <2>2, <2>3
<1>4. HalfDone' /\ AnsweredIsKept' /\ StatesAreSound'
  BY DEF MutationInv, HalfDone, AnsweredIsKept, Mutation!AnsweredIsKept, StatesAreSound
<1>5. QED  BY <1>2, <1>3, <1>4 DEF MutationInv

\* A client adds to the list only.
LEMMA AddByRequestKeeps ==
  ASSUME MutationInv, NEW i \in Mutation!Ids, Mutation!AddByRequest(i)
  PROVE  MutationInv'
<1> USE DEF Mutation!AddByRequest
<1>1. Mutation!Changed("add", i) /\ Mutation!SaveList(i) /\ "add" \in Mutation!Ops
      /\ Mutation!Value("add") = "on"
  BY DEF Mutation!Ops, Mutation!Value
<1>2. Mutation!TypeOK'
  BY <1>1, ChangedHolds, Saved DEF MutationInv, Mutation!TypeOK
<1>3. HeldAgrees'
  BY <1>1, ChangedHolds, Saved, Lists DEF MutationInv, HeldAgrees, Mutation!TypeOK
<1>4. HalfDone'
  BY <1>1 DEF HalfDone, Mutation!Changed
<1>5. AnsweredIsKept'
  BY <1>1, ChangedHolds, Saved, Lists
  DEF MutationInv, AnsweredIsKept, Mutation!AnsweredIsKept, Mutation!TypeOK
<1>6. StatesAreSound'
  BY <1>1, ChangedHolds, Saved, Lists
  DEF MutationInv, StatesAreSound, Mutation!TypeOK, Mutation!State
<1>7. QED  BY <1>2, <1>3, <1>4, <1>5, <1>6 DEF MutationInv

\* The second half of a change: the entry is settled if the state on file has it.
LEMMA EnlistKeeps ==
  ASSUME MutationInv, Mutation!Enlist \/ Mutation!EnlistRaises
  PROVE  MutationInv'
<1>1. PICK i \in Mutation!Ids, op \in Mutation!Ops : i = pending.id /\ op = pending.op
  BY DEF MutationInv, Mutation!TypeOK, Mutation!Enlist, Mutation!EnlistRaises
<1>2. /\ onFile[i] = Mutation!Value(op) /\ held[i] = onFile[i] /\ i \in doubtful
      /\ pending' = None
      /\ UNCHANGED <<up, loaded, held, onFile>>
  BY <1>1 DEF MutationInv, HalfDone, Mutation!Enlist, Mutation!EnlistRaises
<1>3. state.listed \subseteq Mutation!Ids /\ Mutation!Listed(op, i) \subseteq Mutation!Ids
  BY DEF MutationInv, Mutation!TypeOK, Mutation!State, Mutation!Listed
<1>4. \A k \in Mutation!Listed(op, i) :
        IF k = i THEN onFile[k] = "on" ELSE onFile[k] = "on" \/ k \in doubtful
  BY <1>2 DEF MutationInv, StatesAreSound, Mutation!Listed, Mutation!Value
<1>5. state' \in Mutation!State /\ state'.listed = Mutation!Listed(op, i)
  BY <1>1, <1>3 DEF MutationInv, Mutation!TypeOK, Mutation!State, Mutation!Enlist,
                    Mutation!EnlistRaises
<1>6. CASE Mutation!Enlist
  <2>1. /\ stateFile' = state' \/ (stateFile' = stateFile /\ doubtful' = doubtful)
        /\ doubtful' \in {doubtful, doubtful \ {i}}
        /\ told' = [told EXCEPT ![i] = Mutation!Value(op)]
    BY <1>1, <1>6 DEF Mutation!Enlist
  <2>2. Mutation!TypeOK'
    BY <1>2, <1>5, <2>1 DEF MutationInv, Mutation!TypeOK, Mutation!Value
  <2>3. HeldAgrees' /\ AnsweredIsKept'
    BY <1>2, <2>1 DEF MutationInv, HeldAgrees, AnsweredIsKept, Mutation!AnsweredIsKept,
                      Mutation!TypeOK
  <2>4. StatesAreSound'
    BY <1>2, <1>4, <1>5, <2>1 DEF MutationInv, StatesAreSound
  <2>5. QED  BY <1>2, <2>2, <2>3, <2>4 DEF MutationInv, HalfDone
<1>7. CASE Mutation!EnlistRaises
  <2>1. UNCHANGED <<stateFile, told, doubtful>>
    BY <1>7 DEF Mutation!EnlistRaises
  <2>2. Mutation!TypeOK' /\ HeldAgrees' /\ AnsweredIsKept'
    BY <1>2, <1>5, <2>1 DEF MutationInv, HeldAgrees, AnsweredIsKept,
                            Mutation!AnsweredIsKept, Mutation!TypeOK
  <2>3. StatesAreSound'
    BY <1>2, <1>4, <1>5, <2>1 DEF MutationInv, StatesAreSound
  <2>4. QED  BY <1>2, <2>2, <2>3 DEF MutationInv, HalfDone
<1>8. QED  BY <1>6, <1>7

\* A switch of the model leaves what the state lists, and saves all of it.
LEMMA SwitchKeeps ==
  ASSUME MutationInv, NEW m \in Models \cup {Unknown},
         Mutation!SwitchModel(m) \/ Mutation!SwitchRaises(m)
  PROVE  MutationInv'
<1>1. state' \in Mutation!State /\ state'.listed = state.listed
      /\ stateFile' \in {state', stateFile} /\ pending' = None
      /\ UNCHANGED <<up, loaded, held, onFile, told, doubtful>>
  BY DEF MutationInv, Mutation!TypeOK, Mutation!State, Mutation!SwitchModel,
         Mutation!SwitchRaises
<1>2. QED
  BY <1>1 DEF MutationInv, Mutation!TypeOK, HeldAgrees, HalfDone, AnsweredIsKept,
              Mutation!AnsweredIsKept, StatesAreSound

\* The process ends and the next one starts: what was not saved is forgotten.
LEMMA RestartKeeps ==
  ASSUME MutationInv, Mutation!Stop \/ Mutation!Start
  PROVE  MutationInv'
<1>1. CASE Mutation!Stop
  BY <1>1 DEF MutationInv, Mutation!TypeOK, HeldAgrees, HalfDone, AnsweredIsKept,
              Mutation!AnsweredIsKept, StatesAreSound, Mutation!Stop, Mutation!Ids,
              Mutation!List, Mutation!Entry
<1>2. CASE Mutation!Start
  BY <1>2 DEF MutationInv, Mutation!TypeOK, HeldAgrees, HalfDone, AnsweredIsKept,
              Mutation!AnsweredIsKept, StatesAreSound, Mutation!Start
<1>3. QED  BY <1>1, <1>2

\* No step of the services breaks it.
LEMMA MutationStep ==
  ASSUME MutationInv, [Mutation!Next]_mutationVars
  PROVE  MutationInv'
<1>1. CASE UNCHANGED mutationVars
  BY <1>1 DEF mutationVars, MutationInv, Mutation!TypeOK, HeldAgrees, HalfDone,
              AnsweredIsKept, Mutation!AnsweredIsKept, StatesAreSound
<1>2. CASE Mutation!Answered
  BY <1>2, AddByRequestKeeps, ChangeKeeps, SwitchKeeps DEF Mutation!Answered
<1>3. CASE Mutation!Raised
  BY <1>3, ChangeRaisesKeeps, NotFoundKeeps, SwitchKeeps DEF Mutation!Raised
<1>4. CASE Mutation!Enlist \/ Mutation!EnlistRaises
  BY <1>4, EnlistKeeps
<1>5. CASE Mutation!Stop \/ Mutation!Start
  BY <1>5, RestartKeeps
<1>6. QED  BY <1>1, <1>2, <1>3, <1>4, <1>5 DEF Mutation!Next

\* Nothing was changed yet.
LEMMA MutationInit == Mutation!Init => MutationInv
BY AdministrationAssumption
DEF Mutation!Init, MutationInv, Mutation!TypeOK, HeldAgrees, HalfDone, AnsweredIsKept,
    Mutation!AnsweredIsKept, StatesAreSound, Mutation!SelfMutationAssumption,
    Mutation!Entry, Mutation!State

-----------------------------------------------------------------------------
(* The agent's changes in the process as a whole. *)

\* What any step of the process is for the services of the agent.
LEMMA MutationSteps == [Next]_vars => [Mutation!Next]_mutationVars
BY DEF Next, vars, ChangeAgent, FinishChange, UseServers, ServeTask, End, Begin,
       Mutation!Next, mutationVars

\* What holds of them always.
LEMMA MutationInvariance == Spec => []MutationInv
<1>1. Init => MutationInv
  BY MutationInit DEF Init
<1>2. MutationInv /\ [Next]_vars => MutationInv'
  BY MutationStep, MutationSteps
<1>3. QED  BY <1>1, <1>2, PTL DEF Spec

\* What the agent or a client was told of a skill or server is what its file has.
THEOREM AnswersAreKept == Spec => []AnsweredIsKept
<1>1. MutationInv => AnsweredIsKept
  BY DEF MutationInv
<1>2. QED  BY <1>1, MutationInvariance, PTL

\* The state on file lists nothing that is off, but for a change that is in doubt.
THEOREM StateListsWhatIsOn == Spec => []ListedIsOn
<1>1. MutationInv => ListedIsOn
  BY DEF MutationInv, StatesAreSound, ListedIsOn, Mutation!ListedIsOn
<1>2. QED  BY <1>1, MutationInvariance, PTL

-----------------------------------------------------------------------------
(***************************************************************************)
(* The MCP connections.  A client belongs to one session, or to one task   *)
(* that starts or stops it; the tasks that were never found on the same    *)
(* server work on different ones.                                          *)
(***************************************************************************)
Owns(t) == task[t].pc \in {"start", "stop"}
WorksOn(t) ==
  {s \in Servers : \/ task[t].server = s /\ task[t].pc \in {"start", "list", "stop"}
                   \/ s \in task[t].rest}

LocalsFit ==
  /\ \A t \in Tasks :
       /\ task[t].pc # "idle" => task[t].server \in Servers /\ task[t].client \in 1 .. created
       /\ task[t].pc # "stop" => task[t].rest = {}
  /\ \A s \in Servers : sessions[s] # None => sessions[s] \in 1 .. created
  /\ \A c \in Mcp!Clients : c > created => process[c] = "none"

OneOwner ==
  /\ \A s, r \in Servers : sessions[s] # None /\ sessions[s] = sessions[r] => s = r
  /\ \A t \in Tasks, s \in Servers : Owns(t) => sessions[s] # task[t].client
  /\ \A t, u \in Tasks : Owns(t) /\ Owns(u) /\ task[t].client = task[u].client => t = u
  /\ \A t \in Tasks : task[t].pc = "start" => process[task[t].client] = "up"

Apart ==
  "overlap" \notin upset =>
    /\ \A t, u \in Tasks : t # u => WorksOn(t) \cap WorksOn(u) = {}
    /\ \A t \in Tasks : task[t].pc = "start" => sessions[task[t].server] = None
    /\ \A t \in Tasks : task[t].pc = "list" => sessions[task[t].server] = task[t].client

NoToolsYet ==
  upset \subseteq {"cancelled"} =>
    \A t \in Tasks : task[t].pc \in {"start", "list"} => tools[task[t].server] = None

SessionInv ==
  /\ Mcp!TypeOK /\ LocalsFit /\ OneOwner /\ Apart /\ NoToolsYet
  /\ SessionsAreLive /\ EveryProcessIsKept /\ ToolsAreOfSession

\* A server is busy when a task works on it.
LEMMA BusyWorks ==
  \A s \in Servers : /\ Mcp!Busy(s) <=> \E t \in Tasks : s \in WorksOn(t)
                     /\ Mcp!Busy(s)' <=> \E t \in Tasks : s \in WorksOn(t)'
BY DEF Mcp!Busy, WorksOn

\* An idle task works on no server.
LEMMA IdleWorks ==
  ASSUME SessionInv, NEW t \in Tasks, task[t].pc \in {"idle", "call"}
  PROVE  WorksOn(t) = {}
BY DEF SessionInv, LocalsFit, WorksOn

\* A connection begins: its client is new, and if nobody works on its server that has no
\* session and no tools.
LEMMA ConnectKeeps ==
  ASSUME SessionInv, NEW t \in Tasks, NEW s \in Servers, Mcp!Connect(t, s)
  PROVE  SessionInv'
<1> DEFINE n == created + 1
           new == [pc |-> "start", server |-> s, client |-> n, rest |-> {}]
<1>1. /\ task[t] = Mcp!Idle /\ created \in Nat /\ n \in Mcp!Clients /\ created' = n
      /\ process' = [process EXCEPT ![n] = "up"] /\ task' = [task EXCEPT ![t] = new]
      /\ upset' = IF sessions[s] # None \/ Mcp!Busy(s) THEN upset \cup {"overlap"} ELSE upset
      /\ UNCHANGED <<sessions, tools>>
  <2>1. created \in Nat /\ MaxClients \in Nat
    BY AdministrationAssumption DEF SessionInv, Mcp!TypeOK, Mcp!McpSessionsAssumption
  <2>2. QED  BY <2>1 DEF Mcp!Connect, Mcp!Becomes, Mcp!Clients
<1>2. Mcp!TypeOK
  BY DEF SessionInv
<1>3. task'[t] = new /\ \A u \in Tasks : u # t => task'[u] = task[u]
  BY <1>1, <1>2 DEF Mcp!TypeOK
<1>4. /\ WorksOn(t)' = {s} /\ WorksOn(t) = {}
      /\ \A u \in Tasks : u # t => WorksOn(u)' = WorksOn(u)
  BY <1>1, <1>3, IdleWorks DEF WorksOn, Mcp!Idle
<1>5. Mcp!TypeOK'
  BY <1>1, <1>2 DEF Mcp!TypeOK, Mcp!Task, Mcp!Clients
<1>6. LocalsFit'
  BY <1>1, <1>2, <1>3 DEF SessionInv, LocalsFit, Mcp!TypeOK, Mcp!Clients
<1>7. OneOwner'
  BY <1>1, <1>2, <1>3, AdministrationAssumption
  DEF SessionInv, LocalsFit, OneOwner, Owns, Mcp!TypeOK, Mcp!Clients, Mcp!McpSessionsAssumption
<1>8. Apart'
  BY <1>1, <1>3, <1>4, BusyWorks DEF SessionInv, Apart
<1>9. NoToolsYet'
  BY <1>1, <1>3, <1>4, BusyWorks
  DEF SessionInv, NoToolsYet, ToolsAreOfSession, Mcp!ToolsAreOfSession
<1>10. SessionsAreLive' /\ EveryProcessIsKept'
  BY <1>1, <1>2, <1>3 DEF SessionInv, SessionsAreLive, Mcp!SessionsAreLive, EveryProcessIsKept,
     Mcp!EveryProcessIsKept, Mcp!TypeOK, Mcp!Idle, Mcp!Clients, LocalsFit
<1>11. ToolsAreOfSession'
  BY <1>1, <1>4, BusyWorks DEF SessionInv, ToolsAreOfSession, Mcp!ToolsAreOfSession
<1>12. QED
  BY <1>5, <1>6, <1>7, <1>8, <1>9, <1>10, <1>11 DEF SessionInv

\* The session of a client that has started takes its place.
LEMMA StartedKeeps ==
  ASSUME SessionInv, NEW t \in Tasks, Mcp!Started(t)
  PROVE  SessionInv'
<1> DEFINE s == task[t].server
           c == task[t].client
<1>1. /\ task[t].pc = "start" /\ s \in Servers /\ c \in 1 .. created
      /\ sessions' = [sessions EXCEPT ![s] = c]
      /\ task' = [task EXCEPT ![t] = [task[t] EXCEPT !.pc = "list"]]
      /\ UNCHANGED <<tools, process, created, upset>>
  <2>1. task[t].pc = "start"
    BY DEF Mcp!Started
  <2>2. s \in Servers /\ c \in 1 .. created
    BY <2>1 DEF SessionInv, LocalsFit
  <2>3. QED  BY <2>1, <2>2 DEF Mcp!Started, Mcp!Opened, Mcp!Becomes
<1>2. Mcp!TypeOK
  BY DEF SessionInv
<1>3. /\ task'[t] = [task[t] EXCEPT !.pc = "list"] /\ task'[t].pc = "list"
      /\ task'[t].server = s /\ task'[t].client = c /\ task'[t].rest = task[t].rest
      /\ \A u \in Tasks : u # t => task'[u] = task[u]
  BY <1>1, <1>2 DEF Mcp!TypeOK, Mcp!Task
<1>4. /\ sessions'[s] = c /\ \A r \in Servers : r # s => sessions'[r] = sessions[r]
  BY <1>1, <1>2 DEF Mcp!TypeOK
<1>5. \A u \in Tasks : WorksOn(u)' = WorksOn(u)
  BY <1>1, <1>3 DEF WorksOn
<1>6. s \in WorksOn(t)
  BY <1>1 DEF WorksOn
<1>7. Mcp!TypeOK'
  BY <1>1, <1>2 DEF Mcp!TypeOK, Mcp!Task, Mcp!Clients
<1>8. LocalsFit' /\ OneOwner'
  BY <1>1, <1>3, <1>4 DEF SessionInv, LocalsFit, OneOwner, Owns
<1>9. ASSUME NEW u \in Tasks, u # t, "overlap" \notin upset, task[u].pc \in {"start", "list"}
      PROVE  task[u].server # s /\ task[u].server \in Servers
  BY <1>6, <1>9 DEF SessionInv, LocalsFit, Apart, WorksOn
<1>10. Apart'
  BY <1>1, <1>3, <1>4, <1>5, <1>9 DEF SessionInv, Apart
<1>11. NoToolsYet'
  BY <1>1, <1>3 DEF SessionInv, NoToolsYet
<1>12. SessionsAreLive'
  BY <1>1, <1>4 DEF SessionInv, OneOwner, SessionsAreLive, Mcp!SessionsAreLive
<1>13. EveryProcessIsKept'
  <2>1. SUFFICES ASSUME upset \subseteq {"raised"}, NEW d \in Mcp!Clients, process[d] = "up"
                 PROVE  \/ \E r \in Servers : sessions'[r] = d
                        \/ \E u \in Tasks : task'[u].client = d /\ task'[u].pc \in {"start", "stop"}
    BY <1>1 DEF EveryProcessIsKept, Mcp!EveryProcessIsKept
  <2>2. sessions[s] = None /\ d # None
    BY <1>1, <2>1, AdministrationAssumption
    DEF SessionInv, Apart, Mcp!McpSessionsAssumption, Mcp!Clients
  <2>3. \/ \E r \in Servers : sessions[r] = d
        \/ \E u \in Tasks : task[u].client = d /\ task[u].pc \in {"start", "stop"}
    BY <2>1 DEF SessionInv, EveryProcessIsKept, Mcp!EveryProcessIsKept
  <2>4. QED  BY <1>1, <1>3, <1>4, <2>2, <2>3
<1>14. ToolsAreOfSession'
  BY <1>1, <1>4, <1>5, <1>6, BusyWorks
  DEF SessionInv, ToolsAreOfSession, Mcp!ToolsAreOfSession
<1>15. QED
  BY <1>7, <1>8, <1>10, <1>11, <1>12, <1>13, <1>14 DEF SessionInv

\* A task ends, with its client's process if it owns it.
LEMMA EndKeeps ==
  ASSUME SessionInv, NEW t \in Tasks,
         \/ Mcp!StartRaises(t) \/ Mcp!StartCancelled(t) \/ Mcp!ListRaises(t)
         \/ Mcp!StopRaises(t) \/ Mcp!Called(t)
  PROVE  SessionInv'
<1> DEFINE c == task[t].client
           gone == [process EXCEPT ![c] = "gone"]
<1>1. /\ task' = [task EXCEPT ![t] = Mcp!Idle] /\ task[t].pc # "idle"
      /\ UNCHANGED <<sessions, tools, created>>
      /\ \/ process' = process /\ upset' = upset /\ task[t].pc \in {"list", "call"}
         \/ process' = gone /\ upset' = upset /\ task[t].pc = "start"
         \/ process' = gone /\ upset' = upset \cup {"raised"} /\ task[t].pc = "stop"
         \/ process' \in {process, gone} /\ upset' = upset \cup {"cancelled"}
            /\ task[t].pc = "start"
  BY DEF Mcp!StartRaises, Mcp!StartCancelled, Mcp!ListRaises, Mcp!StopRaises, Mcp!Called,
         Mcp!Becomes
<1>2. Mcp!TypeOK /\ c \in 1 .. created /\ c \in Mcp!Clients
  BY <1>1, AdministrationAssumption
  DEF SessionInv, LocalsFit, Mcp!TypeOK, Mcp!Clients, Mcp!McpSessionsAssumption
<1>3. task'[t].pc = "idle" /\ task'[t].rest = {} /\ \A u \in Tasks : u # t => task'[u] = task[u]
  BY <1>1, <1>2 DEF Mcp!TypeOK, Mcp!Idle
<1>4. WorksOn(t)' = {} /\ \A u \in Tasks : u # t => WorksOn(u)' = WorksOn(u)
  BY <1>3 DEF WorksOn
<1>5. \A d \in Mcp!Clients : process'[d] = process[d] \/ (process'[d] = "gone" /\ d = c /\ Owns(t))
  BY <1>1, <1>2 DEF Mcp!TypeOK, Owns
<1>6. /\ "overlap" \notin upset' => "overlap" \notin upset
      /\ upset' \subseteq {"cancelled"} =>
           upset \subseteq {"cancelled"} /\ task[t].pc \in {"start", "list", "call"}
      /\ upset' \subseteq {"raised"} =>
           upset \subseteq {"raised"} /\ (Owns(t) => process'[c] = "gone")
  BY <1>1, <1>2 DEF Owns, Mcp!TypeOK
<1>7. Mcp!TypeOK'
  BY <1>1, <1>2 DEF Mcp!TypeOK, Mcp!Task, Mcp!Idle
<1>8. LocalsFit'
  BY <1>1, <1>2, <1>3, <1>5 DEF SessionInv, LocalsFit, Mcp!TypeOK, Mcp!Clients
<1>9. OneOwner'
  BY <1>1, <1>2, <1>3, <1>5, AdministrationAssumption
  DEF SessionInv, LocalsFit, OneOwner, Owns, Mcp!TypeOK, Mcp!Clients, Mcp!McpSessionsAssumption
<1>10. Apart' /\ NoToolsYet'
  <2>1. \A u \in Tasks : task'[u].pc # "idle" => u # t /\ task'[u] = task[u]
    BY <1>3
  <2>2. Apart'
    BY <1>1, <1>4, <1>6, <2>1 DEF SessionInv, Apart
  <2>3. NoToolsYet'
    BY <1>1, <1>6, <2>1 DEF SessionInv, NoToolsYet
  <2>4. QED  BY <2>2, <2>3
<1>11. SessionsAreLive'
  <2>1. ASSUME NEW s \in Servers, sessions[s] # None
        PROVE  process'[sessions[s]] = "up"
    <3>1. sessions[s] \in Mcp!Clients /\ process[sessions[s]] = "up"
      BY <1>2, <2>1 DEF SessionInv, SessionsAreLive, Mcp!SessionsAreLive, Mcp!TypeOK
    <3>2. Owns(t) => sessions[s] # c
      BY DEF SessionInv, OneOwner
    <3>3. QED  BY <1>5, <3>1, <3>2
  <2>2. QED  BY <1>1, <2>1 DEF SessionsAreLive, Mcp!SessionsAreLive
<1>12. EveryProcessIsKept'
  <2>1. SUFFICES ASSUME upset' \subseteq {"raised"}, NEW d \in Mcp!Clients, process'[d] = "up"
                 PROVE  \/ \E r \in Servers : sessions[r] = d
                        \/ \E u \in Tasks : task'[u].client = d /\ task'[u].pc \in {"start", "stop"}
    BY <1>1 DEF EveryProcessIsKept, Mcp!EveryProcessIsKept
  <2>2. process[d] = "up" /\ ~(d = c /\ Owns(t))
    BY <1>5, <1>6, <2>1
  <2>3. \/ \E r \in Servers : sessions[r] = d
        \/ \E u \in Tasks : task[u].client = d /\ task[u].pc \in {"start", "stop"}
    BY <1>6, <2>1, <2>2 DEF SessionInv, EveryProcessIsKept, Mcp!EveryProcessIsKept
  <2>4. QED  BY <1>3, <2>2, <2>3 DEF Owns
<1>13. ToolsAreOfSession'
  <2>1. ASSUME upset' \subseteq {"cancelled"}, NEW s \in Servers, s \in WorksOn(t)
        PROVE  tools[s] = None
    <3>1. task[t].pc \in {"start", "list"} /\ task[t].server = s
      BY <1>6, <2>1 DEF SessionInv, LocalsFit, WorksOn
    <3>2. QED  BY <1>6, <2>1, <3>1 DEF SessionInv, NoToolsYet
  <2>2. QED
    BY <1>1, <1>4, <1>6, <2>1, BusyWorks DEF SessionInv, ToolsAreOfSession, Mcp!ToolsAreOfSession
<1>14. QED
  BY <1>7, <1>8, <1>9, <1>10, <1>11, <1>12, <1>13 DEF SessionInv

\* The tools that a connection has listed are those of the session that it has put in place,
\* unless others have worked on the server.
LEMMA ToolsListedKeeps ==
  ASSUME SessionInv, NEW t \in Tasks, Mcp!ToolsListed(t)
  PROVE  SessionInv'
<1> DEFINE s == task[t].server
           c == task[t].client
<1>1. /\ task' = [task EXCEPT ![t] = Mcp!Idle] /\ task[t].pc = "list"
      /\ tools' = [tools EXCEPT ![s] = c]
      /\ UNCHANGED <<sessions, process, created, upset>>
  BY DEF Mcp!ToolsListed, Mcp!Becomes
<1>2. /\ Mcp!TypeOK /\ s \in Servers /\ c \in Mcp!Clients /\ s \in WorksOn(t)
  BY <1>1, AdministrationAssumption
  DEF SessionInv, LocalsFit, Mcp!TypeOK, Mcp!Clients, Mcp!McpSessionsAssumption, WorksOn
<1>3. task'[t].pc = "idle" /\ task'[t].rest = {} /\ \A u \in Tasks : u # t => task'[u] = task[u]
  BY <1>1, <1>2 DEF Mcp!TypeOK, Mcp!Idle
<1>4. WorksOn(t)' = {} /\ \A u \in Tasks : u # t => WorksOn(u)' = WorksOn(u)
  BY <1>3 DEF WorksOn
<1>5. tools'[s] = c /\ \A r \in Servers : r # s => tools'[r] = tools[r]
  BY <1>1, <1>2 DEF Mcp!TypeOK
<1>6. \A r \in Servers : r \in WorksOn(t) => r = s
  BY <1>1 DEF SessionInv, LocalsFit, WorksOn
<1>7. Mcp!TypeOK'
  BY <1>1, <1>2 DEF Mcp!TypeOK, Mcp!Task, Mcp!Idle
<1>8. LocalsFit' /\ OneOwner'
  BY <1>1, <1>3 DEF SessionInv, LocalsFit, OneOwner, Owns
<1>9. Apart'
  BY <1>1, <1>3, <1>4 DEF SessionInv, Apart
<1>10. NoToolsYet'
  <2>1. ASSUME upset \subseteq {"cancelled"}, NEW u \in Tasks, u # t,
               task[u].pc \in {"start", "list"}
        PROVE  task[u].server # s /\ task[u].server \in Servers
    BY <1>2, <2>1 DEF SessionInv, LocalsFit, Apart, WorksOn
  <2>2. QED  BY <1>1, <1>3, <1>5, <2>1 DEF SessionInv, NoToolsYet
<1>11. SessionsAreLive' /\ EveryProcessIsKept'
  BY <1>1, <1>3
  DEF SessionInv, SessionsAreLive, Mcp!SessionsAreLive, EveryProcessIsKept, Mcp!EveryProcessIsKept
<1>12. ToolsAreOfSession'
  <2>1. upset \subseteq {"cancelled"} => tools'[s] = sessions[s]
    BY <1>1, <1>5 DEF SessionInv, Apart
  <2>2. QED
    BY <1>1, <1>4, <1>5, <1>6, <2>1, BusyWorks
    DEF SessionInv, ToolsAreOfSession, Mcp!ToolsAreOfSession
<1>13. QED
  BY <1>7, <1>8, <1>9, <1>10, <1>11, <1>12 DEF SessionInv

\* What disconnect has done when it turns to the next server of those in rest: the sessions
\* taken out, the servers left to do, and what the task does then.
TakesOut(t, rest, T, out, left, new) ==
  /\ task' = [task EXCEPT ![t] = new]
  /\ sessions' = [s \in Servers |-> IF s \in out THEN None ELSE sessions[s]]
  /\ tools' \in [Servers -> Mcp!Clients \cup {None}]
  /\ \A s \in Servers : tools'[s] = T[s] \/ tools'[s] = None
  /\ \A s \in rest : s \in out \cup left \/ tools'[s] = None
  /\ \/ out = {} /\ left = {} /\ new = Mcp!Idle
     \/ \E s \in rest :
          /\ out = {s} /\ sessions[s] # None
          /\ new = [pc |-> "stop", server |-> s, client |-> sessions[s], rest |-> left]

\* disconnect turns to the next server of those in rest, after the process of the last one
\* has ended (or before any has): the session it takes out becomes its own, and those that it
\* has done with have no tools.
LEMMA DisconnectNextKeeps ==
  ASSUME SessionInv, NEW t \in Tasks, NEW rest \in SUBSET Servers, NEW T,
         Mcp!DisconnectNext(t, rest, T), created' = created,
         T \in [Servers -> Mcp!Clients \cup {None}],
         \A s \in Servers : T[s] \in {tools[s], None},
         \A s \in WorksOn(t) : s \in rest \/ T[s] = None,
         \/ task[t].pc = "idle" /\ process' = process
         \/ task[t].pc = "stop" /\ process' = [process EXCEPT ![task[t].client] = "gone"],
         upset' \in {upset, upset \cup {"overlap"}},
         "overlap" \notin upset' => \A u \in Tasks : u # t => rest \cap WorksOn(u) = {}
  PROVE  SessionInv'
<1> DEFINE c == task[t].client
<1>1. Mcp!TypeOK
  BY DEF SessionInv
<1>2. PICK out \in SUBSET Servers, left \in SUBSET rest, new \in Mcp!Task :
        TakesOut(t, rest, T, out, left, new)
  <2> DEFINE open == {s \in rest : sessions[s] # None}
  <2>1. ASSUME /\ tools' = [s \in Servers |-> IF s \in rest THEN None ELSE T[s]]
               /\ Mcp!Becomes(t, Mcp!Idle)
               /\ UNCHANGED sessions
        PROVE  Mcp!Idle \in Mcp!Task /\ TakesOut(t, rest, T, {}, {}, Mcp!Idle)
    BY <1>1, <2>1 DEF Mcp!TypeOK, Mcp!Becomes, Mcp!Task, Mcp!Idle, TakesOut
  <2>2. ASSUME NEW s \in open, NEW passed \in SUBSET (rest \ open),
               /\ sessions' = Mcp!WithoutSession(s)
               /\ tools' = [i \in Servers |-> IF i \in passed THEN None ELSE T[i]]
               /\ Mcp!Becomes(t, [pc |-> "stop", server |-> s, client |-> sessions[s],
                                  rest |-> rest \ (passed \cup {s})])
        PROVE  \E left \in SUBSET rest, new \in Mcp!Task : TakesOut(t, rest, T, {s}, left, new)
    <3> DEFINE left == rest \ (passed \cup {s})
               new == [pc |-> "stop", server |-> s, client |-> sessions[s], rest |-> left]
    <3>1. new \in Mcp!Task /\ left \in SUBSET rest
      BY <1>1 DEF Mcp!TypeOK, Mcp!Task
    <3>2. TakesOut(t, rest, T, {s}, left, new)
      BY <1>1, <2>2 DEF Mcp!TypeOK, Mcp!Becomes, Mcp!WithoutSession, TakesOut
    <3>3. QED  BY <3>1, <3>2
  <2>3. \/ /\ tools' = [s \in Servers |-> IF s \in rest THEN None ELSE T[s]]
           /\ Mcp!Becomes(t, Mcp!Idle)
           /\ UNCHANGED sessions
        \/ \E s \in open, passed \in SUBSET (rest \ open) :
             /\ sessions' = Mcp!WithoutSession(s)
             /\ tools' = [i \in Servers |-> IF i \in passed THEN None ELSE T[i]]
             /\ Mcp!Becomes(t, [pc |-> "stop", server |-> s, client |-> sessions[s],
                                rest |-> rest \ (passed \cup {s})])
    BY DEF Mcp!DisconnectNext
  <2>4. CASE /\ tools' = [s \in Servers |-> IF s \in rest THEN None ELSE T[s]]
             /\ Mcp!Becomes(t, Mcp!Idle)
             /\ UNCHANGED sessions
    <3>1. {} \in SUBSET Servers /\ {} \in SUBSET rest
      OBVIOUS
    <3>2. QED  BY <2>1, <2>4, <3>1
  <2>5. ASSUME NEW s \in open, NEW passed \in SUBSET (rest \ open),
               /\ sessions' = Mcp!WithoutSession(s)
               /\ tools' = [i \in Servers |-> IF i \in passed THEN None ELSE T[i]]
               /\ Mcp!Becomes(t, [pc |-> "stop", server |-> s, client |-> sessions[s],
                                  rest |-> rest \ (passed \cup {s})])
        PROVE  \E out \in SUBSET Servers, left \in SUBSET rest, new \in Mcp!Task :
                 TakesOut(t, rest, T, out, left, new)
    <3>1. {s} \in SUBSET Servers
      OBVIOUS
    <3>2. QED  BY <2>2, <2>5, <3>1
  <2>6. QED  BY <2>3, <2>4, <2>5
<1>3. /\ task'[t] = new /\ \A u \in Tasks : u # t => task'[u] = task[u]
      /\ new.pc \in {"idle", "stop"}
  BY <1>1, <1>2 DEF Mcp!TypeOK, Mcp!Idle, TakesOut
<1>4. /\ WorksOn(t)' \subseteq rest /\ out \subseteq WorksOn(t)' /\ left \subseteq WorksOn(t)'
      /\ \A u \in Tasks : u # t => WorksOn(u)' = WorksOn(u)
  BY <1>2, <1>3 DEF WorksOn, Mcp!Idle, TakesOut
<1>5. /\ \A s \in Servers : sessions'[s] = IF s \in out THEN None ELSE sessions[s]
      /\ \A s \in Servers : tools'[s] = tools[s] \/ tools'[s] = None
  BY <1>1, <1>2 DEF Mcp!TypeOK, TakesOut
<1>6. /\ \A d \in Mcp!Clients : process'[d] = process[d] \/ (process'[d] = "gone" /\ d = c /\ Owns(t))
      /\ Owns(t) => process'[c] = "gone" /\ c \in 1 .. created /\ c \in Mcp!Clients
      /\ process' \in [Mcp!Clients -> {"none", "up", "gone"}]
  BY <1>1, AdministrationAssumption
  DEF Mcp!TypeOK, Owns, SessionInv, LocalsFit, Mcp!Clients, Mcp!McpSessionsAssumption
<1>7. /\ "overlap" \notin upset' => "overlap" \notin upset
      /\ upset' \subseteq {"cancelled"} => upset \subseteq {"cancelled"}
      /\ upset' \subseteq {"raised"} => upset \subseteq {"raised"}
  OBVIOUS
<1>8. Mcp!TypeOK'
  BY <1>1, <1>2, <1>6 DEF Mcp!TypeOK, TakesOut
<1>9. LocalsFit'
  <2>1. new.pc # "idle" => new.server \in Servers /\ new.client \in 1 .. created
    BY <1>2 DEF SessionInv, LocalsFit, Mcp!Idle, TakesOut
  <2>2. new.pc # "stop" => new.rest = {}
    BY <1>2 DEF Mcp!Idle, TakesOut
  <2>3. \A s \in Servers : sessions'[s] # None => sessions'[s] \in 1 .. created
    BY <1>5 DEF SessionInv, LocalsFit
  <2>4. \A d \in Mcp!Clients : d > created => process'[d] = "none"
    BY <1>1, <1>6 DEF SessionInv, LocalsFit, Mcp!TypeOK, Mcp!Clients
  <2>5. QED  BY <1>3, <2>1, <2>2, <2>3, <2>4 DEF SessionInv, LocalsFit
<1>10. OneOwner'
  <2>1. Owns(t)' => \E s \in out : s \in Servers /\ new.client = sessions[s] /\ sessions[s] # None
    BY <1>2, <1>3 DEF Owns, Mcp!Idle, TakesOut
  <2>2. \A u \in Tasks : u # t => Owns(u)' = Owns(u)
    BY <1>3 DEF Owns
  <2>3. \A u \in Tasks : task'[u].pc = "start" => process'[task'[u].client] = "up"
    <3>1. SUFFICES ASSUME NEW u \in Tasks, task'[u].pc = "start"
                   PROVE  process'[task'[u].client] = "up"
      OBVIOUS
    <3>2. u # t /\ task'[u] = task[u] /\ task[u].client \in Mcp!Clients /\ Owns(u)
      BY <1>1, <1>3, <3>1, AdministrationAssumption
      DEF SessionInv, LocalsFit, Mcp!TypeOK, Mcp!Clients, Mcp!McpSessionsAssumption, Owns
    <3>3. process[task[u].client] = "up" /\ (Owns(t) => task[u].client # c)
      BY <3>1, <3>2 DEF SessionInv, OneOwner
    <3>4. QED  BY <1>6, <3>2, <3>3
  <2>4. \A s, r \in Servers : sessions'[s] # None /\ sessions'[s] = sessions'[r] => s = r
    BY <1>5 DEF SessionInv, OneOwner
  <2>5. \A u \in Tasks, s \in Servers : Owns(u)' => sessions'[s] # task'[u].client
    <3>1. SUFFICES ASSUME NEW u \in Tasks, NEW s \in Servers, Owns(u)', sessions'[s] # None
                   PROVE  sessions'[s] # task'[u].client
      BY <1>1, <1>3, <2>1, <2>2, AdministrationAssumption
      DEF SessionInv, LocalsFit, Owns, Mcp!TypeOK, Mcp!McpSessionsAssumption
    <3>2. sessions'[s] = sessions[s] /\ s \notin out
      BY <1>5, <3>1
    <3>3. CASE u = t
      BY <1>3, <2>1, <3>1, <3>2, <3>3 DEF SessionInv, OneOwner
    <3>4. CASE u # t
      BY <1>3, <2>2, <3>1, <3>2, <3>4 DEF SessionInv, OneOwner
    <3>5. QED  BY <3>3, <3>4
  <2>6. \A u, v \in Tasks : Owns(u)' /\ Owns(v)' /\ task'[u].client = task'[v].client => u = v
    BY <1>3, <2>1, <2>2 DEF SessionInv, OneOwner
  <2>7. QED  BY <2>3, <2>4, <2>5, <2>6 DEF OneOwner
<1>11. Apart'
  <2>1. SUFFICES ASSUME "overlap" \notin upset'
                 PROVE  /\ \A u, v \in Tasks : u # v => WorksOn(u)' \cap WorksOn(v)' = {}
                        /\ \A u \in Tasks : task'[u].pc = "start" => sessions'[task'[u].server] = None
                        /\ \A u \in Tasks : task'[u].pc = "list" => sessions'[task'[u].server] = task'[u].client
    BY DEF Apart
  <2>2. \A u, v \in Tasks : u # v => WorksOn(u)' \cap WorksOn(v)' = {}
    BY <1>4, <1>7, <2>1 DEF SessionInv, Apart
  <2>3. ASSUME NEW u \in Tasks, task'[u].pc \in {"start", "list"}
        PROVE  /\ u # t /\ task'[u] = task[u] /\ task[u].server \in Servers
               /\ task[u].server \notin out
    BY <1>3, <1>4, <2>1, <2>3 DEF SessionInv, LocalsFit, WorksOn
  <2>4. QED  BY <1>5, <1>7, <2>1, <2>2, <2>3 DEF SessionInv, Apart
<1>12. NoToolsYet'
  <2>1. \A u \in Tasks : task'[u].pc \in {"start", "list"} =>
          u # t /\ task'[u] = task[u] /\ task[u].server \in Servers
    BY <1>3 DEF SessionInv, LocalsFit
  <2>2. QED  BY <1>5, <1>7, <2>1 DEF SessionInv, NoToolsYet
<1>13. SessionsAreLive'
  <2>1. SUFFICES ASSUME NEW s \in Servers, sessions'[s] # None
                 PROVE  process'[sessions'[s]] = "up"
    BY DEF SessionsAreLive, Mcp!SessionsAreLive
  <2>2. sessions'[s] = sessions[s] /\ sessions[s] # None
    BY <1>5, <2>1
  <2>3. sessions[s] \in Mcp!Clients /\ process[sessions[s]] = "up" /\ (Owns(t) => sessions[s] # c)
    BY <1>1, <2>2
    DEF SessionInv, SessionsAreLive, Mcp!SessionsAreLive, OneOwner, Mcp!TypeOK
  <2>4. QED  BY <1>6, <2>2, <2>3
<1>14. EveryProcessIsKept'
  <2>1. SUFFICES ASSUME upset' \subseteq {"raised"}, NEW d \in Mcp!Clients, process'[d] = "up"
                 PROVE  \/ \E r \in Servers : sessions'[r] = d
                        \/ \E u \in Tasks : task'[u].client = d /\ task'[u].pc \in {"start", "stop"}
    BY DEF EveryProcessIsKept, Mcp!EveryProcessIsKept
  <2>2. process[d] = "up" /\ ~(d = c /\ Owns(t))
    BY <1>6, <2>1
  <2>3. \/ \E r \in Servers : sessions[r] = d
        \/ \E u \in Tasks : task[u].client = d /\ task[u].pc \in {"start", "stop"}
    BY <1>7, <2>1, <2>2 DEF SessionInv, EveryProcessIsKept, Mcp!EveryProcessIsKept
  <2>4. ASSUME NEW r \in out, r \in Servers
        PROVE  task'[t].client = sessions[r] /\ task'[t].pc = "stop"
    BY <1>2, <1>3, <2>4 DEF TakesOut, Mcp!Idle
  <2>5. QED  BY <1>3, <1>5, <2>2, <2>3, <2>4 DEF Owns
<1>15. ToolsAreOfSession'
  <2>1. SUFFICES ASSUME upset' \subseteq {"cancelled"}, NEW s \in Servers, tools'[s] # None
                 PROVE  tools'[s] = sessions'[s] \/ \E u \in Tasks : s \in WorksOn(u)'
    BY BusyWorks DEF ToolsAreOfSession, Mcp!ToolsAreOfSession
  <2>2. tools'[s] = tools[s] /\ T[s] # None
    BY <1>2, <1>5, <2>1 DEF TakesOut
  <2>3. tools[s] = sessions[s] \/ \E u \in Tasks : s \in WorksOn(u)
    BY <1>7, <2>1, <2>2, BusyWorks DEF SessionInv, ToolsAreOfSession, Mcp!ToolsAreOfSession
  <2>4. s \in WorksOn(t) => s \in WorksOn(t)'
    BY <1>2, <1>4, <2>1, <2>2 DEF TakesOut
  <2>5. QED  BY <1>4, <1>5, <2>2, <2>3, <2>4
<1>16. QED
  BY <1>8, <1>9, <1>10, <1>11, <1>12, <1>13, <1>14, <1>15 DEF SessionInv

\* disconnect, and disconnect_all, begin.
LEMMA DisconnectKeeps ==
  ASSUME SessionInv, NEW t \in Tasks, NEW S \in SUBSET Servers, Mcp!Disconnect(t, S)
  PROVE  SessionInv'
<1>1. /\ Mcp!DisconnectNext(t, S, tools) /\ task[t].pc = "idle"
      /\ created' = created /\ process' = process
      /\ upset' = IF \E s \in Servers : Mcp!Busy(s) THEN upset \cup {"overlap"} ELSE upset
  BY DEF Mcp!Disconnect, Mcp!Idle
<1>2. tools \in [Servers -> Mcp!Clients \cup {None}]
  BY DEF SessionInv, Mcp!TypeOK
<1>3. WorksOn(t) = {}
  BY <1>1, IdleWorks
<1>4. "overlap" \notin upset' => \A u \in Tasks : u # t => S \cap WorksOn(u) = {}
  BY <1>1, BusyWorks
<1>5. QED  BY <1>1, <1>2, <1>3, <1>4, DisconnectNextKeeps

\* The process of a session has ended, and disconnect turns to the next server.
LEMMA StoppedKeeps ==
  ASSUME SessionInv, NEW t \in Tasks, Mcp!Stopped(t)
  PROVE  SessionInv'
<1> DEFINE s == task[t].server
           rest == task[t].rest
<1>1. /\ Mcp!DisconnectNext(t, rest, Mcp!WithoutTools(s)) /\ task[t].pc = "stop"
      /\ process' = [process EXCEPT ![task[t].client] = "gone"]
      /\ created' = created /\ upset' = upset
  BY DEF Mcp!Stopped
<1>2. /\ rest \in SUBSET Servers /\ s \in Servers
      /\ Mcp!WithoutTools(s) \in [Servers -> Mcp!Clients \cup {None}]
      /\ \A r \in Servers : Mcp!WithoutTools(s)[r] = IF r = s THEN None ELSE tools[r]
  BY <1>1 DEF SessionInv, LocalsFit, Mcp!TypeOK, Mcp!Task, Mcp!WithoutTools
<1>3. \A r \in WorksOn(t) : r \in rest \/ Mcp!WithoutTools(s)[r] = None
  BY <1>2 DEF WorksOn
<1>4. "overlap" \notin upset' => \A u \in Tasks : u # t => rest \cap WorksOn(u) = {}
  <2>1. rest \subseteq WorksOn(t)
    BY <1>2 DEF WorksOn
  <2>2. QED  BY <1>1, <2>1 DEF SessionInv, Apart
<1>5. PICK T, R : T = Mcp!WithoutTools(s) /\ R = rest
  OBVIOUS
<1>6. /\ Mcp!DisconnectNext(t, R, T) /\ R \in SUBSET Servers
      /\ T \in [Servers -> Mcp!Clients \cup {None}]
      /\ \A r \in Servers : T[r] \in {tools[r], None}
      /\ \A r \in WorksOn(t) : r \in R \/ T[r] = None
      /\ "overlap" \notin upset' => \A u \in Tasks : u # t => R \cap WorksOn(u) = {}
  BY <1>1, <1>2, <1>3, <1>4, <1>5
<1>7. QED  BY <1>1, <1>6, DisconnectNextKeeps

\* A call of a tool takes the client of a session, and owns nothing.
LEMMA CallToolKeeps ==
  ASSUME SessionInv, NEW t \in Tasks, NEW s \in Servers, Mcp!CallTool(t, s)
  PROVE  SessionInv'
<1> DEFINE new == [pc |-> "call", server |-> s, client |-> sessions[s], rest |-> {}]
<1>1. /\ task[t].pc = "idle" /\ task' = [task EXCEPT ![t] = new]
      /\ sessions[s] # None
      /\ UNCHANGED <<sessions, tools, process, created, upset>>
  BY DEF Mcp!CallTool, Mcp!Becomes, Mcp!Idle
<1>2. Mcp!TypeOK /\ new \in Mcp!Task /\ sessions[s] \in 1 .. created
  BY <1>1 DEF SessionInv, LocalsFit, Mcp!TypeOK, Mcp!Task
<1>3. task'[t] = new /\ \A u \in Tasks : u # t => task'[u] = task[u]
  BY <1>1, <1>2 DEF Mcp!TypeOK
<1>4. \A u \in Tasks : WorksOn(u)' = WorksOn(u)
  BY <1>1, <1>3, IdleWorks DEF WorksOn
<1>5. Mcp!TypeOK'
  BY <1>1, <1>2 DEF Mcp!TypeOK
<1>6. LocalsFit' /\ OneOwner'
  BY <1>1, <1>2, <1>3 DEF SessionInv, LocalsFit, OneOwner, Owns
<1>7. Apart' /\ NoToolsYet'
  BY <1>1, <1>3, <1>4 DEF SessionInv, Apart, NoToolsYet
<1>8. SessionsAreLive' /\ EveryProcessIsKept'
  BY <1>1, <1>3
  DEF SessionInv, SessionsAreLive, Mcp!SessionsAreLive, EveryProcessIsKept, Mcp!EveryProcessIsKept
<1>9. ToolsAreOfSession'
  BY <1>1, <1>4, BusyWorks DEF SessionInv, ToolsAreOfSession, Mcp!ToolsAreOfSession
<1>10. QED
  BY <1>5, <1>6, <1>7, <1>8, <1>9 DEF SessionInv

\* The process ends with its servers.
LEMMA StopKeeps ==
  ASSUME SessionInv, Mcp!Stop
  PROVE  SessionInv'
<1>1. /\ sessions' = [s \in Servers |-> None] /\ tools' = [s \in Servers |-> None]
      /\ process' = [c \in Mcp!Clients |-> IF process[c] = "none" THEN "none" ELSE "gone"]
      /\ task' = [t \in Tasks |-> Mcp!Idle]
      /\ upset' = {} /\ created' = created
  BY DEF Mcp!Stop
<1>2. Mcp!TypeOK'
  BY <1>1 DEF SessionInv, Mcp!TypeOK, Mcp!Task, Mcp!Idle
<1>3. LocalsFit'
  BY <1>1 DEF SessionInv, LocalsFit, Mcp!TypeOK, Mcp!Idle
<1>4. OneOwner' /\ Apart' /\ NoToolsYet'
  BY <1>1 DEF OneOwner, Owns, Apart, NoToolsYet, WorksOn, Mcp!Idle
<1>5. SessionsAreLive' /\ EveryProcessIsKept' /\ ToolsAreOfSession'
  BY <1>1 DEF SessionsAreLive, Mcp!SessionsAreLive, EveryProcessIsKept, Mcp!EveryProcessIsKept,
              ToolsAreOfSession, Mcp!ToolsAreOfSession
<1>6. QED  BY <1>2, <1>3, <1>4, <1>5 DEF SessionInv

\* No step of the connections breaks it.
LEMMA SessionStep ==
  ASSUME SessionInv, [Mcp!Next]_sessionVars
  PROVE  SessionInv'
<1>1. CASE UNCHANGED sessionVars
  BY <1>1 DEF sessionVars, SessionInv, Mcp!TypeOK, LocalsFit, OneOwner, Owns, Apart, NoToolsYet,
     WorksOn, SessionsAreLive, Mcp!SessionsAreLive, EveryProcessIsKept, Mcp!EveryProcessIsKept,
     ToolsAreOfSession, Mcp!ToolsAreOfSession, Mcp!Busy
<1>2. ASSUME NEW t \in Tasks, NEW s \in Servers,
             Mcp!Connect(t, s) \/ Mcp!Disconnect(t, {s}) \/ Mcp!CallTool(t, s)
      PROVE  SessionInv'
  BY <1>2, ConnectKeeps, DisconnectKeeps, CallToolKeeps
<1>3. ASSUME NEW t \in Tasks, Mcp!Disconnect(t, {s \in Servers : sessions[s] # None})
      PROVE  SessionInv'
  BY <1>3, DisconnectKeeps
<1>4. ASSUME NEW t \in Tasks, Mcp!Serve(t)
      PROVE  SessionInv'
  BY <1>4, StartedKeeps, EndKeeps, ToolsListedKeeps, StoppedKeeps DEF Mcp!Serve
<1>5. QED
  BY <1>1, <1>2, <1>3, <1>4, StopKeeps DEF Mcp!Next

\* No connection was made yet.
LEMMA SessionInit == Mcp!Init => SessionInv
BY AdministrationAssumption
DEF Mcp!Init, SessionInv, Mcp!TypeOK, Mcp!Task, Mcp!Idle, Mcp!Clients, Mcp!McpSessionsAssumption,
    LocalsFit, OneOwner, Owns, Apart, NoToolsYet, WorksOn, SessionsAreLive, Mcp!SessionsAreLive,
    EveryProcessIsKept, Mcp!EveryProcessIsKept, ToolsAreOfSession, Mcp!ToolsAreOfSession

-----------------------------------------------------------------------------
(* The connections in the process as a whole. *)

\* What any step of the process is for the connections.
LEMMA SessionSteps == [Next]_vars => [Mcp!Next]_sessionVars
BY DEF Next, vars, ChangeAgent, FinishChange, UseServers, ServeTask, End, Begin, Mcp!Next,
       sessionVars

\* What holds of them always.
LEMMA SessionInvariance == Spec => []SessionInv
<1>1. Init => SessionInv
  BY SessionInit DEF Init
<1>2. SessionInv /\ [Next]_vars => SessionInv'
  BY SessionStep, SessionSteps
<1>3. QED  BY <1>1, <1>2, PTL DEF Spec

\* A session that is kept has not been stopped, however connects, disconnects and failures
\* overlap.
THEOREM KeptSessionsLive == Spec => []SessionsAreLive
<1>1. SessionInv => SessionsAreLive
  BY DEF SessionInv
<1>2. QED  BY <1>1, SessionInvariance, PTL

\* Each process that runs has a session or a task at it, unless tasks overlapped on a server
\* or a start was cancelled.
THEOREM NoProcessIsLost == Spec => []EveryProcessIsKept
<1>1. SessionInv => EveryProcessIsKept
  BY DEF SessionInv
<1>2. QED  BY <1>1, SessionInvariance, PTL

\* The tools of a server are those of its session, unless tasks overlapped or a stop raised.
THEOREM ToolsFollowSessions == Spec => []ToolsAreOfSession
<1>1. SessionInv => ToolsAreOfSession
  BY DEF SessionInv
<1>2. QED  BY <1>1, SessionInvariance, PTL

\* Type correctness of the process as a whole.
THEOREM TypeCorrect == Spec => []TypeOK
<1>1. Init => ops \in 0 .. MaxOps
  BY AdministrationAssumption DEF Init
<1>2. ops \in 0 .. MaxOps /\ [Next]_vars => (ops \in 0 .. MaxOps)'
  BY AdministrationAssumption
  DEF Next, vars, Asked, ChangeAgent, FinishChange, UseServers, ServeTask, End, Begin
<1>3. MutationInv /\ SessionInv /\ ops \in 0 .. MaxOps => TypeOK
  BY DEF MutationInv, SessionInv, TypeOK
<1>4. QED  BY <1>1, <1>2, <1>3, MutationInvariance, SessionInvariance, PTL DEF Spec
=============================================================================
