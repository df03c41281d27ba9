---------------------------- MODULE SelfMutation ----------------------------
(***************************************************************************)
(* services/self_mutation_service.py over skill_service.py, mcp_service.py *)
(* and agent_service.py: what the agent changes of itself.  A change goes  *)
(* to two files, first the list of skills or servers, then the agent's     *)
(* state, each held in memory too and changed there before it is saved.    *)
(*                                                                         *)
(* Json5Store.write never suspends, so nothing runs between the two halves *)
(* of a change: only a failed write or the end of the process parts them.  *)
(***************************************************************************)
EXTENDS FiniteSets

CONSTANTS
  Skills,   \* ids of skills
  Servers,  \* ids of MCP servers
  Models,   \* ids of the models in config.yaml
  Default,  \* the one of an agent that was never switched
  Unknown,  \* a model id that is not configured
  None      \* no change, no answer

(* What Administration assumes of them. *)
SelfMutationAssumption ==
  /\ Skills \cap Servers = {}
  /\ Default \in Models /\ Unknown \notin Models
  /\ None \notin {"on", "off"}

Ids == Skills \cup Servers
Ops == {"add", "enable", "disable"}

VARIABLES
  up,         \* the process runs
  loaded,     \* the lists that were read since it started
  held,       \* held[i]: skill or server i as the service holds it
  onFile,     \* onFile[i]: as skills.json5 or servers.json5 has it
  state,      \* AgentService._state: the active model and the ids listed as enabled
  stateFile,  \* state.json5
  pending,    \* the change that has done its first half
  told,       \* told[i]: what the last change of i made of it, if it was answered so
  doubtful    \* ids whose last change is not complete on both files

vars == <<up, loaded, held, onFile, state, stateFile, pending, told, doubtful>>

Entry == {"absent", "on", "off"}
State == [model : Models \cup {Unknown}, listed : SUBSET Ids]

TypeOK ==
  /\ up \in BOOLEAN
  /\ loaded \subseteq {Skills, Servers}
  /\ held \in [Ids -> Entry] /\ onFile \in [Ids -> Entry]
  /\ state \in State /\ stateFile \in State
  /\ pending \in [op : Ops, id : Ids] \cup {None}
  /\ told \in [Ids -> {"on", "off", None}]
  /\ doubtful \subseteq Ids

Init ==
  /\ up = TRUE
  /\ loaded = {}
  /\ held = [i \in Ids |-> "absent"] /\ onFile = held
  /\ state = [model |-> Default, listed |-> {}] /\ stateFile = state
  /\ pending = None
  /\ told = [i \in Ids |-> None]
  /\ doubtful = {}

-----------------------------------------------------------------------------
(* Variants of the operators below, each with one plausible mistake. *)
NeverRead(i) == held[i]
OneFlag(i) == Ids
OnlyAdds(op, i) == state.listed \cup {i}

-----------------------------------------------------------------------------
\* The ids in the same list.
List(i) == IF i \in Skills THEN Skills ELSE Servers

\* What the service holds of i after _ensure_loaded.
Known(i) == IF List(i) \in loaded THEN held[i] ELSE onFile[i]

Value(op) == IF op = "disable" THEN "off" ELSE "on"

\* The ids that the agent's state lists after the second half of a change.
Listed(op, i) == IF op = "disable" THEN state.listed \ {i} ELSE state.listed \cup {i}

\* add, enable and disable of the service, up to the save.
Changed(op, i) ==
  /\ up /\ pending = None
  /\ op = "add" \/ Known(i) # "absent"
  /\ loaded' = loaded \cup {List(i)}
  /\ held' = [k \in Ids |-> IF k = i THEN Value(op)
                            ELSE IF k \in List(i) THEN Known(k) ELSE held[k]]

\* save_all and save_servers write the whole list.
SaveList(i) == onFile' = [k \in Ids |-> IF k \in List(i) THEN held'[k] ELSE onFile[k]]

(* The first half of add_skill, enable_skill, disable_skill, and the same of servers. *)
Change(op, i) ==
  /\ Changed(op, i)
  /\ SaveList(i)
  /\ pending' = [op |-> op, id |-> i]
  /\ told' = [told EXCEPT ![i] = None]
  /\ doubtful' = doubtful \cup {i}
  /\ UNCHANGED <<up, state, stateFile>>

(* The list cannot be written: the change ends, with the service ahead of its file. *)
ChangeRaises(op, i) ==
  /\ Changed(op, i)
  /\ told' = [told EXCEPT ![i] = None]
  /\ doubtful' = doubtful \cup {i}
  /\ UNCHANGED <<up, onFile, state, stateFile, pending>>

(* There is nothing to enable or disable: KeyError. *)
NotFound(op, i) ==
  /\ up /\ pending = None
  /\ op # "add" /\ Known(i) = "absent"
  /\ loaded' = loaded \cup {List(i)}
  /\ held' = [k \in Ids |-> IF k \in List(i) THEN Known(k) ELSE held[k]]
  /\ UNCHANGED <<up, onFile, state, stateFile, pending, told, doubtful>>

(* The HTTP routes add to the list only. *)
AddByRequest(i) ==
  /\ Changed("add", i)
  /\ SaveList(i)
  /\ told' = [told EXCEPT ![i] = "on"]
  /\ UNCHANGED <<up, state, stateFile, pending, doubtful>>

(* The second half: the agent's state, saved if the list in it changes. *)
Enlist ==
  /\ pending # None
  /\ LET i == pending.id
         after == [state EXCEPT !.listed = Listed(pending.op, i)] IN
       /\ state' = after
       /\ stateFile' = IF after = state THEN stateFile ELSE after
       /\ told' = [told EXCEPT ![i] = Value(pending.op)]
       /\ doubtful' = IF stateFile' = after THEN doubtful \ {i} ELSE doubtful
  /\ pending' = None
  /\ UNCHANGED <<up, loaded, held, onFile>>

(* The state cannot be written: the service is ahead of its file here, too. *)
EnlistRaises ==
  /\ pending # None
  /\ Listed(pending.op, pending.id) # state.listed
  /\ state' = [state EXCEPT !.listed = Listed(pending.op, pending.id)]
  /\ pending' = None
  /\ UNCHANGED <<up, loaded, held, onFile, stateFile, told, doubtful>>

(* switch_model takes any id. *)
SwitchModel(m) ==
  /\ up /\ pending = None
  /\ state' = [state EXCEPT !.model = m]
  /\ stateFile' = state'
  /\ UNCHANGED <<up, loaded, held, onFile, pending, told, doubtful>>

SwitchRaises(m) ==
  /\ up /\ pending = None
  /\ state' = [state EXCEPT !.model = m]
  /\ UNCHANGED <<up, loaded, held, onFile, stateFile, pending, told, doubtful>>

(* The process ends, in the middle of a change perhaps; the next one reads the state. *)
Stop ==
  /\ up
  /\ up' = FALSE
  /\ loaded' = {} /\ held' = [i \in Ids |-> "absent"]
  /\ state' = stateFile
  /\ pending' = None
  /\ UNCHANGED <<onFile, stateFile, told, doubtful>>

(* build_container reads the state and looks its model up: KeyError if it is unknown. *)
Start ==
  /\ ~up
  /\ stateFile.model \in Models
  /\ up' = TRUE
  /\ UNCHANGED <<loaded, held, onFile, state, stateFile, pending, told, doubtful>>

Answered ==
  \/ \E i \in Ids : AddByRequest(i) \/ \E op \in Ops : Change(op, i)
  \/ \E m \in Models \cup {Unknown} : SwitchModel(m)

Raised ==
  \/ \E i \in Ids, op \in Ops : ChangeRaises(op, i) \/ NotFound(op, i)
  \/ \E m \in Models \cup {Unknown} : SwitchRaises(m)

Next == Answered \/ Raised \/ Enlist \/ EnlistRaises \/ Stop \/ Start

Spec == Init /\ [][Next]_vars

-----------------------------------------------------------------------------
(* The properties. *)

\* What the agent or a client was told it made of a skill or server is what the file has,
\* until the next change of it: through the changes of others in the same file, those that
\* raise half way, and restarts, after which the list is read only when it is needed.
AnsweredIsKept == \A i \in Ids : told[i] # None => onFile[i] = told[i]

\* On file, the state lists no skill or server that is off, but for one whose last change
\* raised, or met the end of the process, between the two files.  A change that is tried
\* again after the state could not be saved finds it changed in memory and saves nothing:
\* it does not settle the matter either.
ListedIsOn == \A i \in stateFile.listed : onFile[i] = "on" \/ i \in doubtful
=============================================================================
