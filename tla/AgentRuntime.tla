---------------------------- MODULE AgentRuntime ----------------------------
(***************************************************************************)
(* runtime/agent_runtime.py with action_router.py, compact_manager.py,     *)
(* compact_service.py and the part of context_builder.py that decides what *)
(* the model sees: turns that run concurrently, as asyncio tasks, over the *)
(* append-only histories of their threads.                                 *)
(*                                                                         *)
(* A turn is a loop: build the context, compact if it is long, let the     *)
(* engine decide, carry out the actions one by one and log them.  It can   *)
(* be suspended at every await, hence one action per stretch of code       *)
(* between two awaits.  The engine, the tools and the router's handlers    *)
(* may answer anything or raise.                                           *)
(*                                                                         *)
(* The histories obey EventLog, which JsonlStore implements.  What a       *)
(* reader may see of the append in progress is nothing, or a line cut      *)
(* short; that it may see the whole line is the same as reading later.     *)
(* Left out: a stream's append that is cancelled in close and whose record *)
(* comes late (EventLog's Abandon); it is on file, or it is not.           *)
(***************************************************************************)
EXTENDS Naturals, FiniteSets, SequencesExt

CONSTANTS
  Threads,      \* the conversation threads
  Turns,        \* the turns that are ever run
  Kinds,        \* how they are started: see Kind
  Decisions,    \* Decisions[t]: what the engine may decide in t: sequences of ActionKinds
  MaxSteps,     \* max_loop_steps
  MaxProgress,  \* bound: progress events of a turn's tools
  MaxFaults,    \* bound: I/O errors and crashes
  Window,       \* recent_window: the events of the thread that a context shows
  SummaryWindow \* the events of the thread that a compaction summarises

ActionKinds == {"call", "respond", "other"}

\* run_user_turn, run_user_turn_stream and run_timer_turn.
Kind == {"user", "stream", "timer"}

ASSUME AgentRuntimeAssumption ==
  /\ Kinds \subseteq Kind
  /\ Decisions \in [Turns -> SUBSET Seq(ActionKinds)]
  /\ MaxSteps \in Nat \ {0}
  /\ MaxProgress \in Nat
  /\ MaxFaults \in Nat
  /\ Window \in Nat \ {0}
  /\ SummaryWindow \in Nat \ {0}

VARIABLES
  log, queue, damaged,  \* the histories, as in EventLog
  turn,                 \* turn[t]: the local state of a turn
  snapshot,             \* snapshot[th]: the lines that compact.json5 tells of
  faults,               \* I/O errors and crashes so far
  settled               \* history variable: snapshot[th] when th was last not being compacted

vars == <<log, queue, damaged, turn, snapshot, faults, settled>>

-----------------------------------------------------------------------------
(* Events. *)

\* "action_result" is a tool_result of an action that is not a CallFunctionAction;
\* no assistant_tool_call belongs to it.
EventType ==
  {"user_message", "system_event", "assistant_tool_call", "tool_progress",
   "assistant_progress", "tool_result", "action_result", "assistant_message"}

\* An action is known by the step that decided it and its position there.
Event == [type : EventType, turn : Turns, step : Nat, pos : Nat]

\* A line that json.loads rejects.
Spoiled == [type |-> "spoiled"]

Log == INSTANCE EventLog WITH
  Paths <- Threads, Writers <- Turns, Records <- Event, late <- [th \in Threads |-> {}]

\* The events that ContextBuilder turns into messages.
ContextTypes ==
  {"user_message", "assistant_message", "assistant_tool_call", "tool_result",
   "action_result", "tool_progress", "assistant_progress"}

-----------------------------------------------------------------------------
(* Turns. *)

\* The awaits on _append, and where the code goes on after each.
After ==
  [ opening     |-> "context",      \* the user's message or the timer's event
    calling     |-> "running",
    progressing |-> "summarising",
    noting      |-> "running",
    recording   |-> "acting",
    replying    |-> "acting" ]

Appending == DOMAIN After

Ended == {"done", "failed", "cancelled", "dead"}

Stage ==
  Appending \cup Ended \cup
  {"idle", "context", "compacting", "deciding", "acting", "running", "summarising",
   "routing", "returned"}

Turn ==
  [ pc     : Stage,
    thread : Threads,
    kind   : Kinds,
    steps  : 0 .. MaxSteps,     \* TurnResult.steps
    plan   : Seq(ActionKinds),  \* decision.actions
    pos    : Nat,               \* the action being carried out
    final  : Nat,               \* the RespondAction that set final_text, 0 for None
    ticks  : Nat,               \* progress events so far
    seen   : Nat,               \* the length of the history when the context was built
    memory : SUBSET Nat ]       \* what the snapshot told of then

TypeOK ==
  /\ Log!TypeOK
  /\ turn \in [Turns -> Turn]
  /\ snapshot \in [Threads -> SUBSET Nat]
  /\ faults \in 0 .. MaxFaults
  /\ settled \in [Threads -> SUBSET Nat]

Init ==
  /\ Log!Init
  /\ turn \in [Turns -> [pc : {"idle"}, thread : Threads, kind : Kinds, steps : {0},
                         plan : {<<>>}, pos : {0}, final : {0}, ticks : {0}, seen : {0},
                         memory : {{}}]]
  /\ snapshot = [th \in Threads |-> {}]
  /\ faults = 0
  /\ settled = snapshot

-----------------------------------------------------------------------------
(* Variants of the operators below, each with one plausible mistake. *)
CallIdLost(t, type) ==
  [type |-> type, turn |-> t, step |-> turn[t].steps,
   pos |-> IF type = "tool_result" THEN 0 ELSE turn[t].pos]
HeadOfFile(th) == IF Len(log[th]) > Window THEN Window ELSE Len(log[th])
FirstReply(u) == IF u.final = 0 THEN u.pos ELSE u.final
Unrecorded(u) == [u EXCEPT !.pc = "acting", !.pos = @ + 1]
OnlyRecent(u) == {i \in 1 .. u.seen : i + SummaryWindow > u.seen}
Unlimited(u) == FALSE
StaysQueued(t) == UNCHANGED <<log, queue, damaged>>

-----------------------------------------------------------------------------
Active(t) == turn[t].pc \notin Ended \cup {"idle"}

Thread(t) == turn[t].thread

\* The event of the given type that t has to log now.
EventNow(t, type) ==
  [type |-> type, turn |-> t, step |-> turn[t].steps, pos |-> turn[t].pos]

\* read_events: all that is on file.  It raises if a line does not parse, and it may
\* meet a line that is being written.
EventsRead(th) == Len(log[th])
ReadMayRaise(th) == ~Log!Readable(th) \/ queue[th] # <<>>

\* final_text is overwritten by every RespondAction of the step.
FinalText(u) == u.pos

\* An error in a tool's stream, in the summary of its progress or in logging either
\* becomes the tool's result.
Caught(u) == [u EXCEPT !.pc = "returned"]
Catching == {"progressing", "noting", "summarising"}

\* What a summary tells of: its prompt holds the previous summary and the last 200 of the
\* events.  Lines that neither holds are in no summary any more.
Covered(u) == u.memory \cup {i \in 1 .. u.seen : i + SummaryWindow > u.seen}

\* An append whose task is cancelled: the wait for the lock, or the write, is given up.
GivenUp(t) == Log!Abort(t, Thread(t)) /\ UNCHANGED damaged

\* The loop is over: a step with a reply was its last, or the limit is reached.
LastStep(u) == u.steps >= MaxSteps

\* The turn is over: its context and its decision are gone.
Over(u, pc) == [u EXCEPT !.pc = pc, !.plan = <<>>, !.ticks = 0, !.seen = 0, !.memory = {}]

\* Requests the append of an event and waits for it in stage pc.
Logs(t, type, pc) ==
  /\ Log!Request(t, Thread(t), EventNow(t, type))
  /\ turn' = [turn EXCEPT ![t].pc = pc]
  /\ UNCHANGED <<snapshot, faults>>

\* Goes on without logging.
Becomes(t, u) ==
  /\ turn' = [turn EXCEPT ![t] = u]
  /\ UNCHANGED <<log, queue, damaged, faults>>

-----------------------------------------------------------------------------
(* A turn starts: its opening event is appended. *)
Start(t) ==
  /\ turn[t].pc = "idle"
  /\ Logs(t, IF turn[t].kind = "timer" THEN "system_event" ELSE "user_message", "opening")

(* _append returns. *)
Appended(t) ==
  /\ turn[t].pc \in Appending
  /\ Log!Commit(t, Thread(t))
  /\ turn' = [turn EXCEPT
       ![t].pc = After[@],
       ![t].pos = IF turn[t].pc \in {"recording", "replying"} THEN @ + 1 ELSE @]
  /\ UNCHANGED <<snapshot, faults>>

(* _append raises, with or without the event on file: the turn fails, unless the
   event was about a tool's progress. *)
AppendRaises(t) ==
  /\ turn[t].pc \in Appending
  /\ faults < MaxFaults
  /\ faults' = faults + 1
  /\ Log!Commit(t, Thread(t)) \/ Log!Abort(t, Thread(t))
  /\ turn' = [turn EXCEPT ![t] = IF @.pc \in Catching THEN Caught(@)
                                                      ELSE Over(@, "failed")]
  /\ UNCHANGED snapshot

(* The context is built, and compaction begins if it is near the model's window: the
   history and the snapshot are read in the same go. *)
BuildContext(t) ==
  /\ turn[t].pc = "context"
  /\ Log!Readable(Thread(t))
  /\ \E pc \in {"compacting", "deciding"} :
       Becomes(t, [turn[t] EXCEPT !.pc = pc, !.seen = EventsRead(Thread(t)),
                                  !.memory = snapshot[Thread(t)]])
  /\ UNCHANGED snapshot

(* The context cannot be built: the history cannot be read, or the model that was
   active when the turn began is unknown. *)
ContextRaises(t) ==
  /\ turn[t].pc = "context"
  /\ ReadMayRaise(Thread(t)) \/ turn[t].steps = 0
  /\ Becomes(t, Over(turn[t], "failed"))
  /\ UNCHANGED snapshot

(* engine.summarise answers and the snapshot is saved. *)
Compacted(t) ==
  /\ turn[t].pc = "compacting"
  /\ snapshot' = [snapshot EXCEPT ![Thread(t)] = Covered(turn[t])]
  /\ Becomes(t, [turn[t] EXCEPT !.pc = "deciding"])

(* engine.summarise, saving the snapshot or the engine's decision raises. *)
EngineRaises(t) ==
  /\ turn[t].pc \in {"compacting", "deciding"}
  /\ Becomes(t, Over(turn[t], "failed"))
  /\ UNCHANGED snapshot

(* The engine decides. *)
Decide(t) ==
  /\ turn[t].pc = "deciding"
  /\ \E plan \in Decisions[t] :
       Becomes(t, [turn[t] EXCEPT !.pc = "acting", !.steps = @ + 1, !.plan = plan,
                                  !.pos = 1, !.final = 0, !.seen = 0, !.memory = {}])
  /\ UNCHANGED snapshot

(* The engine's stream ends without a decision: the turn ends without a reply. *)
NoDecision(t) ==
  /\ turn[t].pc = "deciding"
  /\ turn[t].kind = "stream"
  /\ Becomes(t, Over([turn[t] EXCEPT !.final = 0], "done"))
  /\ UNCHANGED snapshot

\* The action at hand.
Acts(t, kind) ==
  /\ turn[t].pc = "acting"
  /\ turn[t].pos <= Len(turn[t].plan)
  /\ turn[t].plan[turn[t].pos] = kind

(* A CallFunctionAction: the call is logged, then the tool runs. *)
CallFunction(t) == Acts(t, "call") /\ Logs(t, "assistant_tool_call", "calling")

(* A RespondAction: final_text is set and the message logged.  The actions behind it
   are still carried out. *)
Respond(t) ==
  /\ Acts(t, "respond")
  /\ Log!Request(t, Thread(t), EventNow(t, "assistant_message"))
  /\ turn' = [turn EXCEPT ![t].pc = "replying", ![t].final = FinalText(turn[t])]
  /\ UNCHANGED <<snapshot, faults>>

(* Any other action goes to the router's handler. *)
Route(t) ==
  /\ Acts(t, "other")
  /\ Becomes(t, [turn[t] EXCEPT !.pc = "routing"])
  /\ UNCHANGED snapshot

(* The tool or the handler returns or raises: either way there is a result. *)
ActionReturns(t) ==
  /\ turn[t].pc \in {"running", "routing"}
  /\ Becomes(t, [turn[t] EXCEPT !.pc = "returned"])
  /\ UNCHANGED snapshot

(* The tool yields progress. *)
ToolProgress(t) ==
  /\ turn[t].pc = "running"
  /\ turn[t].ticks < MaxProgress
  /\ Log!Request(t, Thread(t), EventNow(t, "tool_progress"))
  /\ turn' = [turn EXCEPT ![t].pc = "progressing", ![t].ticks = @ + 1]
  /\ UNCHANGED <<snapshot, faults>>

(* The engine has a new summary of the progress, or none. *)
Summarised(t) ==
  /\ turn[t].pc = "summarising"
  /\ \/ Logs(t, "assistant_progress", "noting")
     \/ Becomes(t, [turn[t] EXCEPT !.pc = "running"]) /\ UNCHANGED snapshot

(* The engine raises while it summarises progress. *)
SummaryRaises(t) ==
  /\ turn[t].pc = "summarising"
  /\ Becomes(t, Caught(turn[t]))
  /\ UNCHANGED snapshot

(* The result of the action is logged. *)
RecordResult(t) ==
  /\ turn[t].pc = "returned"
  /\ Logs(t, IF turn[t].plan[turn[t].pos] = "call" THEN "tool_result" ELSE "action_result",
          "recording")

(* All actions of the step are done. *)
EndStep(t) ==
  /\ turn[t].pc = "acting"
  /\ turn[t].pos > Len(turn[t].plan)
  /\ Becomes(t, IF turn[t].final # 0 \/ LastStep(turn[t])
                THEN Over(turn[t], "done") ELSE [turn[t] EXCEPT !.pc = "context"])
  /\ UNCHANGED snapshot

(* The client of a stream disconnects and its task is cancelled.  An append in
   progress is given up, or finished on the way out. *)
Cancel(t) ==
  /\ turn[t].kind = "stream"
  /\ Active(t)
  /\ turn' = [turn EXCEPT ![t] = Over(@, "cancelled")]
  /\ IF turn[t].pc \in Appending
     THEN \/ Log!Commit(t, Thread(t))
          \/ GivenUp(t)
     ELSE UNCHANGED <<log, queue, damaged>>
  /\ UNCHANGED <<snapshot, faults>>

(* The process dies and is started again. *)
Crash ==
  /\ faults < MaxFaults
  /\ faults' = faults + 1
  /\ Log!Crash
  /\ turn' = [t \in Turns |-> IF Active(t) THEN Over(turn[t], "dead") ELSE turn[t]]
  /\ UNCHANGED snapshot

Proceed(t) ==
  \/ Appended(t) \/ BuildContext(t) \/ ContextRaises(t) \/ Compacted(t)
  \/ EngineRaises(t) \/ Decide(t) \/ NoDecision(t)
  \/ CallFunction(t) \/ Respond(t) \/ Route(t) \/ ActionReturns(t)
  \/ ToolProgress(t) \/ Summarised(t) \/ SummaryRaises(t)
  \/ RecordResult(t) \/ EndStep(t)

\* Some turn waits for the summary of th.
Compacting(th) == \E t \in Turns : turn[t].pc = "compacting" /\ Thread(t) = th

\* The history variable follows the snapshot except while th is compacted.
Settle ==
  settled' = [th \in Threads |-> IF Compacting(th)' THEN settled[th] ELSE snapshot'[th]]

Next ==
  /\ \/ \E t \in Turns : Start(t) \/ Proceed(t) \/ AppendRaises(t) \/ Cancel(t)
     \/ Crash
  /\ Settle

(* The event loop runs every task that can go on; the engine and the tools answer or
   raise in the end.  Nothing obliges a turn to start, an append to fail or a client
   to disconnect. *)
Fairness == \A t \in Turns : WF_vars(Proceed(t) /\ Settle)

Spec == Init /\ [][Next]_vars /\ Fairness

-----------------------------------------------------------------------------
(* The properties. *)

\* e, or a line that e may have been spoiled in, stands in the history before place i.
Precedes(th, e, i) == \E j \in 1 .. i - 1 : log[th][j] \in {e, Spoiled}

\* What must have been logged before the event e: the message or timer event that
\* opened the turn, the call that a result or a progress event is about, the progress
\* that a note is about.
Opening(e) == IF turn[e.turn].kind = "timer" THEN "system_event" ELSE "user_message"

Cause(e) ==
  CASE e.type \in {"assistant_tool_call", "assistant_message", "action_result"} ->
         [type |-> Opening(e), turn |-> e.turn, step |-> 0, pos |-> 0]
    [] e.type \in {"tool_progress", "tool_result"} ->
         [e EXCEPT !.type = "assistant_tool_call"]
    [] e.type = "assistant_progress" -> [e EXCEPT !.type = "tool_progress"]
    [] OTHER -> e

\* Effects follow their causes in the history of a thread, however turns interleave:
\* an event that is not an opening one stands behind the event that caused it.
Causality ==
  \A th \in Threads : \A i \in DOMAIN log[th] :
    LET e == log[th][i] IN
    e # Spoiled /\ Cause(e) # e => Precedes(th, Cause(e), i)

Result(call) == [call EXCEPT !.type = "tool_result"]

\* A turn that ended by itself has answered each of its calls exactly once: calls
\* without a result come from turns that failed, were cancelled or died.
CallsAnswered ==
  \A t \in Turns : turn[t].pc = "done" =>
    LET L == log[Thread(t)] IN
    \A i \in DOMAIN L :
      L[i].type = "assistant_tool_call" /\ L[i].turn = t =>
        \/ Cardinality({j \in i + 1 .. Len(L) : L[j] = Result(L[i])}) = 1
        \/ \E j \in i + 1 .. Len(L) : L[j] = Spoiled

\* The history and the caller agree on a turn's reply: the text that is returned is
\* the last assistant_message of the turn, and a turn that returns none logged none.
ReplyOnFile ==
  \A t \in Turns : turn[t].pc = "done" =>
    LET L == log[Thread(t)]
        Messages == {i \in DOMAIN L : L[i].type = "assistant_message" /\ L[i].turn = t} IN
    /\ \A i \in Messages : L[i].step = turn[t].steps /\ L[i].pos <= turn[t].final
    /\ turn[t].final # 0 =>
         \/ \E i \in Messages : L[i].pos = turn[t].final
         \/ \E i \in DOMAIN L : L[i] = Spoiled

\* What long-term memory told of when nobody was compacting the thread is never lost,
\* however compactions overlap, fail, are cancelled or die: an older snapshot that is saved
\* last costs no more than what the compactions it overlapped with had added.
MemoryIsKept == \A th \in Threads : settled[th] \subseteq snapshot[th]

\* Every turn that is started comes to an end: with a reply, at max_loop_steps, or by
\* an error, and no turn waits for ever for another one's append.
TurnEnds == \A t \in Turns : Active(t) ~> turn[t].pc \in Ended

\* The lines that the context built for t shows.
Context(t) ==
  {i \in 1 .. turn[t].seen : i + Window > turn[t].seen
                             /\ log[Thread(t)][i].type \in ContextTypes}

\* The engine is shown what the turn has done: each event of the turn that is on file is in
\* the context, the result of a call behind the call, unless a whole window of other lines
\* stands behind the event, or it is of the one type that no context shows (a timer's event).
OwnWritesShown ==
  \A t \in Turns : turn[t].pc \in {"compacting", "deciding"} =>
    LET L == log[Thread(t)]
        Own == {i \in DOMAIN L : L[i] # Spoiled /\ L[i].turn = t} IN
    /\ \E i \in Own : L[i].step = 0
    /\ \A i \in Own :
         /\ \/ i \in Context(t)
            \/ i + Window <= turn[t].seen
            \/ L[i].type = "system_event"
         /\ i \in Context(t) /\ L[i].type = "assistant_tool_call" =>
              \E j \in Context(t) : j > i /\ L[j] = Result(L[i])

\* The calls and results of turn u in the context built for t.
Exchanges(t, u) ==
  {i \in Context(t) : log[Thread(t)][i].type \in {"assistant_tool_call", "tool_result"}
                      /\ log[Thread(t)][i].turn = u}

\* What a provider asks of the messages: a call is followed by its result.  In the context
\* that the engine is shown each turn's calls and results alternate, whatever other turns
\* have in between: a result without its call is the first of its turn, the window having
\* cut the call off, and a call without its result is the last of another turn, which has
\* not answered it yet or never will.
ContextIsPaired ==
  \A t \in Turns : turn[t].pc \in {"compacting", "deciding"} =>
    \A u \in Turns : \A i \in Exchanges(t, u) :
      LET L == log[Thread(t)]
          Before == {j \in Exchanges(t, u) : j < i}
          Behind == {j \in Exchanges(t, u) : j > i} IN
      IF L[i].type = "tool_result"
        THEN Before # {} => L[i] = Result(L[Max(Before)])
        ELSE IF Behind # {} THEN L[Min(Behind)] = Result(L[i]) ELSE u # t

\* docs/programmatic-usage.md:684: a timer turn injects the instruction and runs the
\* agent loop.  The first context of a turn shows what the turn is about, unless more
\* than a window of other events has come in between.
InstructionReachesModel ==
  \A t \in Turns : turn[t].pc = "deciding" /\ turn[t].steps = 0 =>
    LET L == log[Thread(t)] IN
    \E i \in 1 .. turn[t].seen :
      L[i].turn = t /\ L[i].step = 0 /\ (i + Window > turn[t].seen => i \in Context(t))
=============================================================================
