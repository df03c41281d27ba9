----------------------------- MODULE TurnStream -----------------------------
(***************************************************************************)
(* What the client of a streamed turn sees: _run_loop_stream of            *)
(* runtime/agent_runtime.py over stream_decide of integrations/llm/        *)
(* atomic_agents_engine.py and execute_stream of services/                 *)
(* tool_executor.py, each an async generator that feeds the next.          *)
(*                                                                         *)
(* One turn, with what it logs in its thread's history: AgentRuntime has   *)
(* the interleaving of turns.  Events that are yielded one right behind    *)
(* the other are one step: a client that leaves in between has seen a      *)
(* prefix of them.                                                         *)
(***************************************************************************)
EXTENDS Naturals, FiniteSets, SequencesExt, Subsequences

CONSTANTS
  Indices,    \* the places of tool calls in a streamed answer, from 1
  Blocks,     \* the answers of Anthropic's API: sequences of "text" and "tool_use"
  MaxSteps,   \* max_loop_steps
  MaxInputs,  \* bound: chunks of streamed answers and items of streaming tools
  MaxFaults   \* bound: appends that raise

ASSUME TurnStreamAssumption ==
  /\ Indices \subseteq Nat \ {0}
  /\ Blocks \subseteq Seq({"text", "tool_use"})
  /\ MaxSteps \in Nat \ {0}
  /\ MaxInputs \in Nat /\ MaxFaults \in Nat

VARIABLES
  provider,   \* the kind of the model's provider
  pc,         \* where the turn stands
  step,       \* the iteration of the loop, from 1
  answer,     \* the locals of _stream_openai
  streamed,   \* streamed_text is not empty
  seen,       \* seen_tool_calls
  plan, pos,  \* decision.actions, and the action at hand
  final,      \* the RespondAction that set final_text, 0 for None
  tool,       \* the tool that runs, and what it yielded
  buffer,     \* streamed_events
  out,        \* what the client was sent
  file,       \* what the turn has logged behind the user's message
  inputs,     \* chunks and items so far
  faults      \* appends that raised

vars == <<provider, pc, step, answer, streamed, seen, plan, pos, final, tool, buffer,
          out, file, inputs, faults>>

-----------------------------------------------------------------------------
(* Calls, events and rows. *)

\* The id that a provider gives to a call is one of a kind.  The one that the adapter
\* makes up, call_<index>, is the same in every step: step 0.
OwnId(i) == [step |-> step, index |-> i]
MadeUpId(i) == [step |-> 0, index |-> i]
NoCall == [step |-> 0, index |-> 0]
CallId == [step : 0 .. MaxSteps, index : Nat]

\* data: the numbers of the pieces of text or arguments, or of a tool's item; none for an
\* error.
Ev(type, call, data) == [ev |-> type, step |-> step, call |-> call, data |-> data]

EventType ==
  {"assistant_text_delta", "tool_call_started", "tool_call_delta", "tool_call_finished",
   "tool_progress", "tool_progress_summary", "tool_result", "assistant_text_done",
   "turn_done"}
Event == [ev : EventType, step : 1 .. MaxSteps, call : CallId \cup {NoCall}, data : SUBSET Nat]

\* The appends: the stage in which the turn waits for one, and the type of its event.
RowType ==
  [calling     |-> "assistant_tool_call",
   progressing |-> "tool_progress",
   noting      |-> "assistant_progress",
   recording   |-> "tool_result",
   replying    |-> "assistant_message"]
Appending == DOMAIN RowType
Row == [type : {RowType[s] : s \in Appending}, step : 1 .. MaxSteps, pos : Nat, data : SUBSET Nat]

Respond(text) == [kind |-> "respond", call |-> NoCall, data |-> text]
Call(id, args) == [kind |-> "call", call |-> id, data |-> args]
Action == [kind : {"respond", "call"}, call : CallId \cup {NoCall}, data : SUBSET Nat]

Ended == {"done", "failed", "gone"}
Stage == Ended \cup Appending \cup {"deciding", "acting", "running", "summarising"}

Nothing == [text |-> 0, order |-> <<>>, ids |-> <<>>, args |-> <<>>]
NoTool == [streams |-> FALSE, items |-> <<>>, final |-> 0, error |-> FALSE]

TypeOK ==
  /\ provider \in {"openai_compatible", "anthropic"}
  /\ pc \in Stage
  /\ step \in 1 .. MaxSteps
  /\ answer.text \in 0 .. MaxInputs
  /\ answer.order \in Seq(Indices)
  /\ DOMAIN answer.ids = ToSet(answer.order) /\ DOMAIN answer.args = ToSet(answer.order)
  /\ streamed \in BOOLEAN
  /\ seen \subseteq CallId
  /\ plan \in Seq(Action)
  /\ pos \in Nat /\ final \in 0 .. pos
  /\ tool.items \in Seq({"progress", "final"}) /\ tool.final \in 0 .. MaxInputs + 1
  /\ buffer \in Seq(Event) /\ out \in Seq(Event)
  /\ file \in Seq(Row)
  /\ inputs \in 0 .. MaxInputs /\ faults \in 0 .. MaxFaults

Init ==
  /\ provider \in {"openai_compatible", "anthropic"}
  /\ pc = "deciding" /\ step = 1
  /\ answer = Nothing
  /\ streamed = FALSE /\ seen = {}
  /\ plan = <<>> /\ pos = 0 /\ final = 0
  /\ tool = NoTool /\ buffer = <<>>
  /\ out = <<>> /\ file = <<>>
  /\ inputs = 0 /\ faults = 0

-----------------------------------------------------------------------------
(* Variants of the operators below, each with one plausible mistake. *)
OwnOrMadeUp(i, given) == IF given # NoCall THEN given ELSE MadeUpId(i)
NeverSeen(id) == seen
AlwaysDelta(a) == <<Ev("assistant_text_delta", NoCall, a.data)>>
BufferKept(t) == <<>>
FirstFinal(t) == IF t.final = 0 THEN Len(t.items) + 1 ELSE t.final
Unlimited == FALSE

-----------------------------------------------------------------------------
\* tc.id or tool_ids.get(index) or "call_<index>".
IdOf(i, given) ==
  IF given # NoCall THEN given
  ELSE IF i \in DOMAIN answer.ids THEN answer.ids[i]
  ELSE MadeUpId(i)

\* A provider gives a call's id in its first chunk or never.
MayGive(i) ==
  {NoCall} \cup IF i \in DOMAIN answer.ids /\ answer.ids[i].step = 0 THEN {} ELSE {OwnId(i)}

Saw(id) == seen \cup {id}

Started(id) == IF id \in seen THEN <<>> ELSE <<Ev("tool_call_started", id, {})>>

\* The reply is sent as a delta unless some text of the turn was streamed.
ReplyDelta(a) ==
  IF ~streamed /\ a.data # {} THEN <<Ev("assistant_text_delta", NoCall, a.data)>> ELSE <<>>

\* The last final item counts.
FinalItem(t) == Len(t.items) + 1

LastStep == step = MaxSteps

\* What is sent once a tool has ended: the events of its progress, collected until now,
\* and the result.
Collected(t) == buffer
ResultOf(t) == IF t.error THEN {} ELSE {t.final}

Answered(t) ==
  /\ tool' = t
  /\ out' = out \o Collected(t) \o <<Ev("tool_result", plan[pos].call, ResultOf(t))>>
  /\ buffer' = <<>>
  /\ pc' = "recording"

Failed(t) == Answered([t EXCEPT !.error = TRUE])

-----------------------------------------------------------------------------
(* The model's answer. *)

Chunk ==
  /\ pc = "deciding" /\ provider = "openai_compatible"
  /\ inputs < MaxInputs /\ inputs' = inputs + 1
  /\ UNCHANGED <<provider, pc, step, plan, pos, final, tool, buffer, file, faults>>

(* A chunk with text. *)
TextChunk ==
  /\ Chunk
  /\ answer' = [answer EXCEPT !.text = @ + 1]
  /\ streamed' = TRUE
  /\ out' = Append(out, Ev("assistant_text_delta", NoCall, {answer.text + 1}))
  /\ UNCHANGED seen

(* A chunk about the call at index i: it may carry its id, its function, a piece of its
   arguments. *)
ToolChunk(i, given, function, piece) ==
  LET id   == IdOf(i, given)
      args == IF i \in DOMAIN answer.args THEN answer.args[i] ELSE 0
      n    == IF function /\ piece THEN args + 1 ELSE args
      With(f, v) == [k \in DOMAIN f \cup {i} |-> IF k = i THEN v ELSE f[k]] IN
  /\ Chunk
  /\ given \in MayGive(i)
  /\ answer' = [answer EXCEPT
       !.order = IF i \in DOMAIN answer.ids THEN @ ELSE Append(@, i),
       !.ids = With(@, id),
       !.args = With(@, n)]
  /\ IF function
     THEN /\ seen' = Saw(id)
          /\ out' = out \o Started(id) \o <<Ev("tool_call_delta", id, args + 1 .. n)>>
     ELSE UNCHANGED <<seen, out>>
  /\ UNCHANGED streamed

\* The decision is carried out.
Decided(actions) ==
  /\ plan' = actions
  /\ pos' = 1 /\ final' = 0
  /\ pc' = "acting"
  /\ answer' = Nothing
  /\ UNCHANGED <<provider, step, streamed, seen, tool, buffer, out, file, inputs,
                 faults>>

(* The stream ends: its calls in the order of their first chunks, arguments that do not
   parse left out; or its text. *)
StreamEnds ==
  /\ pc = "deciding" /\ provider = "openai_compatible"
  /\ IF answer.order = <<>>
     THEN Decided(<<Respond(1 .. answer.text)>>)
     ELSE \E parsed \in SUBSET ToSet(answer.order) :
            Decided([k \in DOMAIN answer.order |->
                       LET i == answer.order[k] IN
                       Call(answer.ids[i], IF i \in parsed THEN 1 .. answer.args[i] ELSE {})])

(* Anthropic's API answers in one piece. *)
WholeAnswer ==
  /\ pc = "deciding" /\ provider = "anthropic"
  /\ \E blocks \in Blocks :
       Decided([k \in DOMAIN blocks |-> IF blocks[k] = "text" THEN Respond({k})
                                                              ELSE Call(OwnId(k), {1})])

(* Building the context, compacting or the engine raises. *)
EngineRaises ==
  /\ pc = "deciding"
  /\ pc' = "failed"
  /\ UNCHANGED <<provider, step, answer, streamed, seen, plan, pos, final, tool, buffer,
                 out, file, inputs, faults>>

-----------------------------------------------------------------------------
(* The actions of a decision. *)

Acts(kind) ==
  /\ pc = "acting"
  /\ pos <= Len(plan)
  /\ plan[pos].kind = kind
  /\ UNCHANGED <<provider, step, answer, streamed, seen, plan, pos, tool, buffer, file,
                 inputs, faults>>

(* A CallFunctionAction is announced, and its event is appended. *)
CallFunction ==
  /\ Acts("call")
  /\ out' = out \o Started(plan[pos].call)
                \o <<Ev("tool_call_finished", plan[pos].call, plan[pos].data)>>
  /\ pc' = "calling"
  /\ UNCHANGED final

(* A RespondAction is sent, unless it was streamed, and its event is appended. *)
RespondAction ==
  /\ Acts("respond")
  /\ final' = pos
  /\ out' = out \o ReplyDelta(plan[pos])
  /\ pc' = "replying"

\* The event that is being appended.
RowNow ==
  [type |-> RowType[pc], step |-> step, pos |-> pos,
   data |-> CASE pc \in {"progressing", "noting"} -> {Len(tool.items)}
              [] pc = "recording" -> ResultOf(tool)
              [] OTHER -> plan[pos].data]

\* What is collected for the client when an append in a tool's stream returns.
Progress == [progressing |-> "tool_progress", noting |-> "tool_progress_summary"]

(* _append returns. *)
Appended ==
  /\ pc \in Appending
  /\ file' = Append(file, RowNow)
  /\ \/ /\ pc = "calling"
        /\ pc' = "running"
        /\ \E streams \in BOOLEAN : tool' = [NoTool EXCEPT !.streams = streams]
        /\ UNCHANGED <<pos, buffer>>
     \/ /\ pc \in DOMAIN Progress
        /\ pc' = IF pc = "progressing" THEN "summarising" ELSE "running"
        /\ buffer' = Append(buffer, Ev(Progress[pc], plan[pos].call, {Len(tool.items)}))
        /\ UNCHANGED <<tool, pos>>
     \/ /\ pc \in {"recording", "replying"}
        /\ pc' = "acting"
        /\ pos' = pos + 1
        /\ tool' = NoTool
        /\ UNCHANGED buffer
  /\ UNCHANGED <<provider, step, answer, streamed, seen, plan, final, out, inputs,
                 faults>>

(* _append raises, with or without the event on file: that is the tool's error if it was
   about its progress, and otherwise the end of the stream. *)
AppendRaises ==
  /\ pc \in Appending
  /\ faults < MaxFaults
  /\ faults' = faults + 1
  /\ file' \in {file, Append(file, RowNow)}
  /\ IF pc \in DOMAIN Progress
     THEN Failed(tool)
     ELSE pc' = "failed" /\ UNCHANGED <<tool, buffer, out>>
  /\ UNCHANGED <<provider, step, answer, streamed, seen, plan, pos, final, inputs>>

ToolRuns ==
  /\ pc = "running"
  /\ UNCHANGED <<provider, step, answer, streamed, seen, plan, pos, final, file, faults>>

(* A tool that does not stream returns. *)
ToolReturns ==
  /\ ToolRuns
  /\ ~tool.streams
  /\ UNCHANGED inputs
  /\ Answered([tool EXCEPT !.items = <<"final">>, !.final = FinalItem(tool)])

(* The tool is not registered or disabled, it raises, or it yields what it must not. *)
ToolRaises == ToolRuns /\ Failed(tool) /\ UNCHANGED inputs

(* A streaming tool yields progress, which is logged, or a final result. *)
ToolYields ==
  /\ ToolRuns
  /\ tool.streams
  /\ inputs < MaxInputs /\ inputs' = inputs + 1
  /\ \/ /\ tool' = [tool EXCEPT !.items = Append(@, "progress")]
        /\ pc' = "progressing"
     \/ /\ tool' = [tool EXCEPT !.items = Append(@, "final"), !.final = FinalItem(tool)]
        /\ UNCHANGED pc
  /\ UNCHANGED <<buffer, out>>

(* A streaming tool ends: it must have yielded a final result. *)
ToolEnds ==
  /\ ToolRuns
  /\ tool.streams
  /\ IF tool.final # 0 THEN Answered(tool) ELSE Failed(tool)
  /\ UNCHANGED inputs

(* The engine is asked to sum up the progress: there is something new, or not, or it
   raises. *)
Summarised ==
  /\ pc = "summarising"
  /\ \/ pc' \in {"noting", "running"} /\ UNCHANGED <<tool, buffer, out>>
     \/ Failed(tool)
  /\ UNCHANGED <<provider, step, answer, streamed, seen, plan, pos, final, file, inputs,
                 faults>>

(* The actions of the step are done: the turn has its reply, or its last step, or goes
   on. *)
EndStep ==
  /\ pc = "acting"
  /\ pos > Len(plan)
  /\ \/ /\ final # 0
        /\ out' = out \o <<Ev("assistant_text_done", NoCall, plan[final].data),
                           Ev("turn_done", NoCall, {})>>
        /\ pc' = "done"
        /\ UNCHANGED <<step, plan, pos>>
     \/ /\ final = 0 /\ LastStep
        /\ pc' = "done"
        /\ UNCHANGED <<step, plan, pos, out>>
     \/ /\ final = 0 /\ ~LastStep
        /\ pc' = "deciding"
        /\ step' = step + 1
        /\ plan' = <<>> /\ pos' = 0
        /\ UNCHANGED out
  /\ UNCHANGED <<provider, answer, streamed, seen, final, tool, buffer, file, inputs, faults>>

(* The client disconnects and the stream's task is cancelled. *)
Cancel ==
  /\ pc \notin Ended
  /\ pc' = "gone"
  /\ file' \in {file} \cup IF pc \in Appending THEN {Append(file, RowNow)} ELSE {}
  /\ UNCHANGED <<provider, step, answer, streamed, seen, plan, pos, final, tool, buffer,
                 out, inputs, faults>>

Next ==
  \/ TextChunk
  \/ \E i \in Indices, function, piece \in BOOLEAN :
       \E given \in {NoCall, OwnId(i)} : ToolChunk(i, given, function, piece)
  \/ StreamEnds \/ WholeAnswer \/ EngineRaises
  \/ CallFunction \/ RespondAction \/ Appended \/ AppendRaises
  \/ ToolReturns \/ ToolRaises \/ ToolYields \/ ToolEnds \/ Summarised
  \/ EndStep \/ Cancel

Spec == Init /\ [][Next]_vars

-----------------------------------------------------------------------------
(* The properties. *)

\* The order of a call's events.
Phase ==
  [tool_call_started |-> 1, tool_call_delta |-> 2, tool_call_finished |-> 3,
   tool_progress |-> 4, tool_progress_summary |-> 4, tool_result |-> 5]

\* A client can follow a call through its events: an id is announced before anything else
\* is said of it; and in a step the call is announced once at most, its arguments come
\* before they are finished, and then its progress and one result.
CallsAreFollowed ==
  \A k \in DOMAIN out : out[k].call # NoCall =>
    /\ \E i \in 1 .. k : out[i].call = out[k].call /\ out[i].ev = "tool_call_started"
    /\ \A i \in 1 .. k - 1 : out[i].call = out[k].call /\ out[i].step = out[k].step =>
         \/ Phase[out[i].ev] < Phase[out[k].ev]
         \/ Phase[out[i].ev] = Phase[out[k].ev] /\ Phase[out[k].ev] \in {2, 4}

\* The pieces of arguments that were streamed add up to the arguments of the call that is
\* carried out, or these did not parse.
DeltasAddUp ==
  \A i \in DOMAIN out : out[i].ev = "tool_call_finished" =>
    LET D == {j \in DOMAIN out : /\ out[j].ev = "tool_call_delta"
                                 /\ out[j].call = out[i].call /\ out[j].step = out[i].step} IN
    D # {} => out[i].data \in {{}, UNION {out[j].data : j \in D}}

\* The reply of a turn was streamed in full, no piece of it twice, and the stream ends
\* with it.
ReplyWasStreamed ==
  \A i \in DOMAIN out : out[i].ev = "assistant_text_done" =>
    /\ \A n \in out[i].data :
         Cardinality({j \in 1 .. i : /\ out[j].ev = "assistant_text_delta"
                                     /\ out[j].step = out[i].step
                                     /\ n \in out[j].data}) = 1
    /\ Len(out) = i + 1

\* What the client was told by events of a type, and what the rows of a type log.
Data(S, K) == Subsequence([i \in DOMAIN S |-> S[i].data], K)
Told(S, type) == Data(S, {i \in DOMAIN S : S[i].ev = type})
Logged(type) == Data(file, {i \in DOMAIN file : file[i].type = type})

\* What a client was told and what is on file stay together: a result is told right
\* before it is logged; unless an append raises, progress is logged before it is told, and
\* none is held back at the end.
ClientAgreesWithFile ==
  LET results == Told(out, "tool_result")
      progress == Told(out, "tool_progress")
      whole == pc = "done" /\ faults = 0 IN
  /\ IsPrefix(Logged("tool_result"), results)
  /\ Len(results) <= Len(Logged("tool_result")) + 1
  /\ faults = 0 => IsPrefix(progress, Logged("tool_progress"))
  /\ whole =>
       /\ results = Logged("tool_result")
       /\ progress = Logged("tool_progress")
       /\ Told(out, "tool_progress_summary") = Logged("assistant_progress")

\* A call is answered with the last result that its tool yielded, unless the tool, or
\* what was made of its progress, failed.
AnswerIsFinal ==
  pc = "recording" =>
    LET n == Last(out).data IN
    /\ \A k \in DOMAIN tool.items : k \in n <=>
         /\ ~tool.error /\ tool.items[k] = "final"
         /\ \A l \in k + 1 .. Len(tool.items) : tool.items[l] # "final"
    /\ n = {} => tool.error
=============================================================================
