# A TLA+ model of adomcore

adomcore is a single-process agent runtime: asyncio tasks run *turns* (a loop of building a
context, asking an LLM engine for a decision and carrying out its actions) over threads of
conversation that are kept in append-only JSONL files, with a cron scheduler, a plugin system
and tools. This directory holds TLA+ modules translated from the Python source, the
configurations that TLC checks them with, and proofs that TLAPS checks. Paths below are
relative to `src/adomcore/`.

Run `tlc -config X.cfg M` for a run of `PROJECT.json`, `tlapm M_proofs.tla` for a proof.
`PROJECT.json` maps every definition to the lines it models.

## The system

| Component | Code | State | Operations | Interacts with |
|---|---|---|---|---|
| JSONL files | `storage/jsonl_store.py`, `file_lock.py` | the files; a lock per path | `append`, `read_all`, `read_tail` | everything that keeps a history |
| JSON5 / YAML files | `storage/json5_store.py`, `atomic_writer.py` | one document per file | `read`, `write` (replace atomically, never yields) | stores |
| Agent runtime | `runtime/agent_runtime.py`, `response_builder.py` | locals of each turn | user turn, streamed turn, timer turn | context builder, compaction, engine, router, history |
| Context, compaction | `runtime/context_builder.py`, `compact_manager.py`, `services/compact_service.py` | `compact.json5` per thread | `build`, `maybe_compact`, `compact` | history, engine |
| Action router | `runtime/action_router.py` | none | `route`, `route_function_stream` | tool executor, self-mutation |
| Tool executor | `services/tool_executor.py` | none | `execute`, `execute_stream` | capability registry, threads |
| Engine adapters | `integrations/llm/` | locals of a stream | `decide`, `stream_decide`, `summarise` | providers |
| Scheduler | `services/scheduler_service.py`, `cron_dispatch_service.py`, `integrations/scheduler/` | `jobs.json5`, `history.jsonl`, APScheduler's memory | `start`, `stop`, `add_job`, `remove_job`, `dispatch` | runtime (timer turns) |
| Self-mutation, skills, MCP registry, agent state | `services/self_mutation_service.py`, `skill_service.py`, `mcp_service.py`, `agent_service.py` | skill, MCP and state files | add, enable, disable, switch model | router, context builder |
| Plugins | `services/plugin_manager.py`, `plugin_loader.py` | plugins it knows, their code, `sys.path`, `registry.json5` | enable, disable, activate | capability registry |
| Capability registry | `services/capability_registry.py`, `plugins/context.py` | functions registered by hand | register, unregister, look up a name | tool executor, context builder |
| SSH tools | `plugins/builtin/ssh/` | a pool of connections per instance of the plugin | open, execute, close in worker threads | tool executor |
| MCP sessions | `services/mcp_session_manager.py`, `integrations/mcp/` | client processes | connect, disconnect, call | router |
| opencode tool | `plugins/builtin/opencode/tools.py` | port, password, session; a server process | `execute_task` in worker threads | tool executor |
| Other builtin plugins, OpenAPI plugin, token estimators, HTTP API, start-up code | `plugins/`, `api/`, `app/` | little | one call each | services |

What is hard here: turns suspend at every `await` and interleave on one history; a client may
disconnect (cancelling its turn) and the process may die at any of those points; state is read
before an await and used after it (context, compaction); files are written by threads behind a
lock that cancellation must release; a cron run may outlive its job; two generators and a tool
are chained into one event stream; and the opencode tool shares state between threads with no
lock at all. `PROJECT.json` lists each hazard at its line, with the properties that watch it.

## The modules

`EventLog` is the contract of an append-only file. `JsonlStore` implements it; `AgentRuntime`
and `Scheduler` are built on it by `INSTANCE`. `Administration` composes `SelfMutation`
and `McpSessions`, `Toolset` composes `Plugins`, `Capabilities` and `SshSessions`. `TurnStream` and
`Opencode` stand alone.
`Subsequences` has what a filter over a list returns, defined by the places it keeps instead of by
recursion. `QueueFacts` and the `*_proofs` modules hold theorems, the `MC*` modules and their `.cfg`
files the instances for TLC.

### EventLog: what a history promises
Appends to a path take effect one at a time in the order of their calls; what is on file does
not change; an append that fails may leave a fragment, which spoils at most the one line written
next (the two become one line that `json.loads` rejects). The record of a task that is cancelled
while its file is being closed may come late, whole or run together with others, or never.

### JsonlStore: `append` with its lock and file operations
| Model | Code |
|---|---|
| `locks[p]` | the FIFO queue of `asyncio.Lock` of path `p`, its head the holder |
| `lines[p]`, `torn[p]` | the file: lines with the ticket of their append, and bytes of a dead append behind the last newline |
| `CallAppend`, `Open`, `Write`, `Close` | `append` from its call to the release of the lock |
| `Abandon`, `Flush`, `FlushFails` | a task cancelled while `close()` runs in aiofiles' worker thread: the lock is released, the thread goes on |
| `Cancel`, `Raise`, `Crash` | a task cancelled before `f.write`; an `OSError` from open, write or close; the process dies |

Readers are the predicate `Parses`: `read_all` and `read_tail` take no lock. A record is a ticket
number, since no property looks inside one.

`late[p]` has the lines whose threads go on, `cuts` counts those of them that were half on file when
their lock was released.

Properties: `CallOrder` (but for late lines), `LossBound` (each fault costs at most one line, each cut
at most two), `AppendReturns` (no lock stays with a task that is gone) and `ImplementsEventLog`, the refinement
to `EventLog!Spec` with `log` the lines, `queue` the lock's queue and `damaged` the fragment.

### AgentRuntime: concurrent turns over shared histories
One action per stretch of code between two awaits. `turn[t]` holds the locals of a turn: `pc`,
the step, the plan (`decision.actions`), the position in it, `final_text`. `Start` is
`run_user_turn`, `run_user_turn_stream` or `run_timer_turn` by `kind`; `BuildContext`,
`Compacted`, `Decide`, `CallFunction`, `Respond`, `Route`, `ToolProgress`, `Summarised`,
`RecordResult` and `EndStep` are the loop; `Appended` and `AppendRaises` the return of `_append`;
`ContextRaises`, `EngineRaises`, `SummaryRaises`, `Cancel` and `Crash` the ways out. Engine,
tools and handlers may answer anything or raise. An event is known by its type, turn, step and
position in the plan; payloads are left out. `EventLog` is used without its late records.

A context is the last `Window` lines, less those of types that the builder has no branch for. A summary
tells of the last `SummaryWindow` lines (200 in the code) and of what the summary before it told of;
`snapshot[th]` is the set of lines that the snapshot on file tells of, `turn[t].memory` what it told of
when turn `t` read it. `settled[th]`, a history variable, is the snapshot as it was when the thread was
last not being compacted. Compactions that overlap lose what only the overwritten snapshot told of; the
property promises nothing of that. Saving the snapshot never suspends, so `Compacted` is one step and
a compaction that is cancelled saves nothing.

Properties: `Causality` (effects stand behind their causes in the file, however turns
interleave), `CallsAnswered` (a turn that ended by itself answered each call exactly once),
`OwnWritesShown` (each event of the turn is in the context that the engine is shown, a call with its
result, unless a whole window of other lines stands behind it or it is a timer's event),
`ContextIsPaired` (each turn's calls and results alternate in the context, whatever stands between;
a pair is broken only at the edge of the window, or in another turn that has not answered or never
will), `MemoryIsKept` (what the long-term memory told of while nobody compacted the thread is never
lost, though compactions overlap, the older snapshot is saved last, or one fails or is cancelled),
`ReplyOnFile`, `TurnEnds` (a turn ends, whatever another one does that has the file's lock). And a statement of the documentation that the
code does not keep: `InstructionReachesModel`.

### TurnStream: what the client of a streamed turn sees
One turn, from the provider's chunks through `_stream_openai` (or Anthropic's whole answer),
`_run_loop_stream` and `execute_stream` to the client, against what it logs. `out` is what was
sent, `file` what was logged, `answer` the tables `tool_ids` and `tool_args` of the adapter,
`seen` and `streamed` the locals that outlive a step, `buffer` the `streamed_events` of a tool.
Yields that follow one another with no await between them are one step.

Properties: `CallsAreFollowed` (announced, streamed, finished, progress, result, in this order),
`DeltasAddUp` (streamed argument pieces add up to the arguments carried out), `ReplyWasStreamed`
(each piece of the reply streamed exactly once, although `streamed_text` spans steps),
`ClientAgreesWithFile`, `AnswerIsFinal` (the last final item of a tool, or an error). The model
also shows three weaknesses that no property denies: the progress of a tool is sent when the tool
has ended; a turn that reaches its step limit sends no `turn_done`; and the id `call_<index>` that
the adapter makes up is the same in every step, so that a second call with it is not announced
again.

### Scheduler: jobs on file, jobs in memory, runs
`jobs` is `jobs.json5`, `sched` what APScheduler holds, `run[id]` the dispatch of a job, and the
history of runs an instance of `EventLog`. `Start`, `AddJob`, `RemoveJob` and `GoDown` never
suspend and are one action each; `Fire` is APScheduler (external: it fires what it holds, one run
of a job at a time); `Dispatch`, `TurnOver`, `Recorded` and `RecordRaises` are
`CronDispatchService.dispatch` between its awaits. Entries may share an id, be disabled or
have an expression that APScheduler rejects.

Properties: `SchedulerAgreesWithFile`, `RemovedNeverRuns` (nor does one that was disabled), `RunsRecorded` (in order, none twice,
and a missing one is accounted for by a stop, crash or failed append), `RunEnds`. Against the
comment in the code: `RebuiltOnStartup`.

### Opencode: worker threads that share a server
A step is the code between two accesses to the shared `_OpencodeSessionState` or to the server.
`fixedPort` and `fixedPassword` say what is configured, `alone` that calls do not overlap; all three are
chosen at the start. The command takes the port before the password is resolved (`BuildCommand`,
`ResolvePassword`). Every request may fail, on a healthy server too: a failed `POST /session` leaves
`None` cached if `new_session` had dropped the session before (`kept` is FALSE from then until the next
one is saved). A request may also stay unanswered (`Unanswered`), since none has a timeout. The server
is external: a process listens on its port or exits if the port is taken, rejects a wrong password with
401, has no session after its own restart. It outlives the tool: `Restart` is a new process or
instance of the tool, which may meet it. A port or password that is made up is a pair of the call's
turn and the tool's process, so two random ones never agree.

Properties: `PasswordFits` and `CachedSessionLives` under the conditions that they name, and `CallEnds`:
a call ends, or waits for a request that the server leaves unanswered. Against the README of the
repository: `ServerIsUsable`.

### SelfMutation, McpSessions, Administration: what the agent and its host change
`SelfMutation`: `held[i]` is skill or server `i` as its service holds it, `onFile[i]` as
`skills.json5` or `servers.json5` has it, `state` and `stateFile` the agent's state. A change is two
steps, `Change` (the list) and `Enlist` (the state), each of which may raise and leave memory ahead
of the file (`ChangeRaises`, `EnlistRaises`); `Stop` may come between them. `AddByRequest` is the
HTTP routes' add, `NotFound` the `KeyError`, `SwitchModel` takes any id, and `Start` looks it up.
Properties: `AnsweredIsKept` (an answered change stays on file through everything that happens to
others in the same file, although a list is read late and written whole) and `ListedIsOn` (on file,
the state lists nothing that is off, except after a change that was cut between the files).
`told` and `doubtful` are history variables for these two.

`McpSessions`: `sessions[s]` and `tools[s]` are the manager's tables, `process[c]` the process of
client `c`, `task[t]` what a task is doing between the awaits of `connect`, `disconnect`,
`disconnect_all` and `call_tool`. `upset` says which of the conditions of the properties fail.
Properties: `SessionsAreLive`, `EveryProcessIsKept`, `ToolsAreOfSession`.

`Administration` is one process with both. Its own content: nothing runs between the halves of a
change, since neither half suspends (`Free`); they end together (`End`) and begin together
(`Begin`), and an unknown model keeps both of them down.

### Plugins, Capabilities, SshSessions, Toolset: which tools an agent has
`Plugins`: `known` is the dictionary `_plugins` in its order, `enabled[p]` and `registry[p]` are the
flag in memory and on file, `order` is the order of the file, `code[p]` whose code runs as `p`,
`sysPath` the plugins' directories on `sys.path`. A plugin has a manifest and is imported as
`plugin`, or is `Builtin` and imported by its own name; `Broken` ones cannot be imported. `Enable`,
`Disable`, `ActivateInstance` and `ActivateLoaded` (load, then activate) never suspend; the save at
the end of the first two may raise and writes the plugins in the order of a set of strings, so in
any. A process that starts has metadata only: the plugins that were on have no code until they are
activated again.
Properties: `RegistryAgrees`, `ForeignCodeIsInFront`. Against the comment in the code: `OwnCode`.

`Capabilities`: `byHand[n]` is `_handlers`, `Bindings(n)` what the provider of the plugin manager
adds to it at each use, `Server(n)` the one that is called. A plugin's `functions()` may raise.
Property: `HandsChangeForCause` (inside a process a name passes to another only when the one that
had it stops offering it, or the one that gets it did not offer it before).

`SshSessions`: `pool[s]` is the instance whose `_clients` has the session, `client[s]` the
connection, `call[c]` a call in its worker thread, with the instance that it was looked up in. A
thread runs on when its turn is cancelled (`Cancel`), and its answer is lost.
Property: `ClosedIsGone`.

`Toolset` is one process with the three. A call of an SSH function goes where `Server` leads it
(`CallSsh`), and the plugin manager decides which pool that is: to activate or enable the plugin
makes a new one and leaves the other with its connections, to disable it leaves the pool to the
calls that are in it, and `End` is the end of all.
Property: `OpenIsClosable`, which needs all three: an open connection is told to the model and in a pool,
or being closed, or one whose open was cancelled or whose close raised; and if that pool is the active
instance's, a call of the function reaches it, unless the plugin's own error or another plugin hides
the name. No call reaches the pool of an instance that was replaced or disabled: nothing closes its
connections before the process ends, and the property does not say so.

## The runs

| Run | Module and cfg | Bounds | Shows |
|---|---|---|---|
| `jsonl_store` | `MCJsonlStore` | 2 paths, 3 tasks, 3 appends in all, 2 faults | order, loss, liveness and refinement of the store |
| `overlap` | `MCAgentRuntime_overlap` | 2 streamed turns of one thread, 2 steps, 1 fault, a window of 3 lines for contexts and summaries; the turns are symmetric | interleaving, cancellation and crash of turns; contexts that are cut, compactions that overlap |
| `actions` | `MCAgentRuntime_actions` | 2 streamed turns of one thread, one with 5 plans, the other with an engine that never decides; 2 steps, 1 progress event, 1 fault | every kind of action and error path; no turn waits for ever |
| `timer_instruction` | `MCAgentRuntime_timer` | 1 turn | counterexample: the model is not shown what a timer asks |
| `stream` | `MCTurnStream` | 2 call indices, 2 steps, 3 chunks or items, 1 failed append | the client's events |
| `scheduler` | `MCScheduler` | 2 ids, 2 expressions and a malformed one, 2 entries, 2 runs a job, 2 upsets | jobs, runs, restarts |
| `rebuild` | `MCScheduler_rebuild` | 2 ids, 2 entries | counterexample: one malformed job blocks the others |
| `administration` | `MCAdministration` | 2 skills, servers and tasks, 3 clients, 1 model and an unknown one, 5 operations; skills, servers and tasks are symmetric | changes cut between two files, restarts, connections |
| `toolset` | `MCToolset` | 2 plugins with a manifest that offer one name, the SSH plugin with 2 sessions, 2 callers and 2 instances, 5 operations; sessions and callers are symmetric | plugins that contend for a name, pools that are replaced, disabled or hidden, restarts |
| `own_code` | `MCPlugins` | 2 plugins | counterexample: a plugin runs another one's code |
| `opencode` | `MCOpencode` | 2 callers, 2 calls, 2 processes of the tool, 1 death | sessions, passwords, deaths and restarts |
| `first_use` | `MCOpencode_first_use` | 2 callers, 2 calls | counterexample: the server rejects the tool's password for good |

Why the bounds are enough. Three writers on a path are the fewest with a holder, a waiter that
gives up and one behind it; two faults let a fragment be spoiled and a second fault follow. Two
turns are the fewest that interleave, and two steps the fewest in which a context is built after
an action. In `overlap` the turns write up to ten lines, so that a window of three cuts a turn's own events
and a summary of three lines needs the one before it. In `actions` the second turn appends its opening event and may
be cancelled or fail while the first waits for the lock, or the other way round; the kinds of turns
differ in their opening event and in what a stream adds to them, so streamed turns have every step. Two
calls of `opencode` are the fewest that overlap, and the fewest of which one finds what the other left,
a restart or a death in between. Three inputs of a stream are two calls whose chunks interleave and an item, or text
in one step and text in the next, with progress and a result in Anthropic's case. Two entries
with one id give duplicates and replacement; two upsets a crash after a failed record. Five
operations of `administration` are an add, a change that is cut, the same change tried again, one
more of another id in the same file and a restart; or three connects of two servers and two
disconnects. Those of `toolset` are two plugins activated, a third step that makes one of them
raise or puts it off, and two more; or an instance, two sessions opened in it, a second instance and
a call. The steps of tasks and threads, the second halves of changes and the start of a process are
not counted. The plugins of `toolset` can all be loaded; that
`RegistryAgrees` holds with ones that cannot is proved. What depends on larger numbers is proved
where the table of theorems says so.

`CHECK_DEADLOCK FALSE` is in every cfg because every instance may stop: all turns over, all
bounds used, the process down.

Every property of a passing run has a mutant in `PROJECT.json`: an operator of the model with a
plausible mistake, defined in the module under "Variants", under which TLC finds the property
violated.

## Fairness

* `JsonlStore`: weak fairness of the steps of the task that holds a lock. aiofiles runs them in
  worker threads and the event loop resumes the task. None for calls, cancellations or faults.
* `AgentRuntime`: weak fairness of `Proceed(t)`. The loop resumes every task that can go on, and
  the engine and tools answer or raise in the end (an engine that hangs would hang the turn: the
  code sets no timeout). Nothing obliges a turn to start, to be cancelled or to fail.
* `Scheduler`: weak fairness of a run's steps; that the turn inside ends is
  `AgentRuntime!TurnEnds`. Nothing obliges a job to fire.
* `Opencode`: weak fairness of a call's steps. Threads run, a request that the server does not leave
  unanswered comes back, and time passes, so the health poll ends. Nothing obliges a started
  process to listen, or a server to answer in the end.
* `TurnStream`, `Administration` and `Toolset` have safety properties only.

## What is proved

From the assumptions on the constants alone (bounds are naturals, kinds and plans are what the
code allows), for any number of paths, tasks, threads, turns, steps, skills, servers, plugins, names,
sessions, jobs, runs, calls, chunks, items, faults and operations. Every invariant and action property
that a passing run checks is a theorem; only the liveness properties are not.

| Theorem | Statement |
|---|---|
| `JsonlStore_proofs!TypeCorrect`, `Invariance` | `[]TypeOK`, `[]IInv` |
| `JsonlStore_proofs!AppendsInCallOrder` | `[]CallOrder` |
| `JsonlStore_proofs!FaultsCostOneRecord` | `[]LossBound` |
| `JsonlStore_proofs!ReadsSucceedAtRest` | `[]ReadableAtRest`: without faults and cuts a file that nobody writes parses |
| `JsonlStore_proofs!Refinement` | `Spec => ImplementsEventLog` |
| `AgentRuntime_proofs!TypeCorrect` | `[]TypeOK` |
| `AgentRuntime_proofs!CausesComeFirst` | `[]Causality` |
| `AgentRuntime_proofs!MemoryOutlastsCompactions` | `[]MemoryIsKept` |
| `AgentRuntime_proofs!CallsAreAnswered`, `RepliesAreOnFile` | `[]CallsAnswered`, `[]ReplyOnFile` |
| `AgentRuntime_proofs!TurnsAreShownTheirOwnWrites`, `ContextsArePaired` | `[]OwnWritesShown`, `[]ContextIsPaired` |
| `AgentRuntime_proofs!HistoriesAreLogs`, `Scheduler_proofs!HistoryIsLog` | `Spec => Log!Spec`: the histories are those of `EventLog` |
| `TurnStream_proofs!TypeCorrect` | `[]TypeOK` |
| `TurnStream_proofs!ClientsFollowCalls`, `PiecesAddUp` | `[]CallsAreFollowed`, `[]DeltasAddUp` |
| `TurnStream_proofs!RepliesAreStreamed`, `AnswersAreFinal` | `[]ReplyWasStreamed`, `[]AnswerIsFinal` |
| `TurnStream_proofs!ClientAndFileAgree` | `[]ClientAgreesWithFile` |
| `Administration_proofs!TypeCorrect` | `[]TypeOK` |
| `Administration_proofs!AnswersAreKept`, `StateListsWhatIsOn` | `[]AnsweredIsKept`, `[]ListedIsOn` |
| `Administration_proofs!KeptSessionsLive`, `NoProcessIsLost`, `ToolsFollowSessions` | `[]SessionsAreLive`, `[]EveryProcessIsKept`, `[]ToolsAreOfSession` |
| `Toolset_proofs!TypeCorrect` | `[]TypeOK` |
| `Toolset_proofs!RegistryAgreesAlways`, `ForeignCodeNeedsPath` | `[]RegistryAgrees`, `[]ForeignCodeIsInFront` |
| `Toolset_proofs!NamesChangeHandsForCause` | `HandsChangeForCause` |
| `Toolset_proofs!OpenConnectionsAreClosable`, `ClosedSessionsAreGone` | `[]OpenIsClosable`, `[]ClosedIsGone` |
| `Scheduler_proofs!TypeCorrect`, `RunsAreRecorded` | `[]TypeOK`, `[]RunsRecorded` |
| `Scheduler_proofs!ScheduledAsOnFile` | `[]SchedulerAgreesWithFile` |
| `Scheduler_proofs!RemovedJobsNeverRun` | `RemovedNeverRuns` |
| `Opencode_proofs!TypeCorrect` | `[]TypeOK` |
| `Opencode_proofs!PasswordAlwaysFits`, `SessionsAreReused` | `[]PasswordFits`, `[]CachedSessionLives` |

**JsonlStore.** `CallOrder` is not inductive: a line is appended with the ticket of the lock's
holder, so the invariant has to say that the tickets in the queue ascend, lie above those on file
and at most at the counter; that each task is in at most one queue, and that those in the queue
and only those are inside `append`, the head alone past "waiting". A late line has the ticket of an
append that left the queue, below all that are in it (`LateOrder`). `LossBound` is inductive once
faults are counted with the fragment, and once each cut line that is still to come has one of its two
losses set aside for it (`LossInv`). The refinement maps `Close` to `Commit`, `Cancel` and
`Raise` to `Abort`, `Abandon`, `Flush` and `FlushFails` to `Abandon`, `Arrive` and `Vanish`, `Crash` to `Crash`, `CallAppend` to `Request`, and `Open` and `Write` to
stuttering.

The other side of the contract is `HistoriesAreLogs` and `HistoryIsLog`: whatever turns, runs,
cancellations and crashes do to a history, each step is one of `EventLog` or leaves the history alone, so
that `AgentRuntime` and `Scheduler` allow for every way in which their own steps may end an append.
`JsonlStore` may add late records to that, which the two leave out (see below).

**AgentRuntime.** `Causality` speaks of what is on file; a step only adds what a turn has in the
queue, so the invariant ties each entry of a queue to a turn of that thread that waits for exactly
that event (`Waits`), says that a turn waits for one append at most (`OneAppend`), and that what a
turn has done so far is on file in a form that its program counter determines (`OnFile`): the
opening event once it is past `opening`, the call's event while its tool runs, the progress event
while it is summed up. A spoiled line stands for any event. `Shown` says that the history which a
context was built over has the turn's events, from which `OwnWritesShown` follows with the places of the
calls and their results (`ShownWhole`, below). `StepsLeft` keeps the count of steps in its type.

`MemoryIsKept` is inductive once it is said of every compaction that waits for its summary what it will
save: what its turn read holds all that was settled (`Remembers`), since nothing settles while a thread
is being compacted.

The other properties compare a turn's events with each other, and need that a turn never goes
back: its events stand in the file in the order of step and position (`InOrder`), and in the file of its
own thread (`Belongs`). On that rests the second invariant, `TalkInv`. A turn has said nothing of the
actions that are still to come, and of the one at hand no more than the call; each call that it has left
behind is answered, and it says nothing in between (`Talks`). Until a step has a reply there is none,
and then `final_text` is the last (`Replies`). While a context is built and shown, each call in it stands
before its result (`ShownWhole`). A line that two appends have spoiled stands for whatever may have
been in it: a result that was lost that way is answered by the spoiled line in `AnsweredIn`, and a
context is never built over one, since the read raises.

`QueueFacts` has the lemmas about sequences that several proofs cite: `Append`, `Tail` and
`RemoveAt`, first and last places, what is left of a filtered sequence, and prefixes.

**TurnStream.** The invariant (`StreamInv`) is about the story, `out \o buffer`: what the client was
sent, and behind it the progress that is held back until the tool has ended. Before the properties can be
stated for a story that goes on, it must be known what is still to be said. While the model answers
(`Answering`), its step has seen nothing but text, announcements and pieces, and these are what
`tool_args` and the reply consist of. While the plan is carried out (`Doing`), of a call that is ahead only
the announcement and the pieces were sent, and they add up to its arguments; the one at hand is
announced and not answered; and each piece of a reply was sent once or, if nothing was streamed, not
yet. With that, each new event stands where a client expects it (`Events`). `Plans` (the calls of a
plan have different ids, its replies different texts) and `Control` (what the stage says of the other
locals) come first and need nothing else (`Basics`); `Finals` follows the last final item of a tool.
`Filed` compares what the client was told with what is logged, one kind of event at a time: results are
told first, progress is logged first, and the two differ by the one that is under way. The steps of a
tool's stream are proved as four kinds (a result is told, the stream breaks off, it runs on, an append
returns), since a failed append has many causes and one effect.

**Administration.** A list is read late and written whole, so what is on file after a save is what
the service held before it. The invariant (`MutationInv`) says that a list that has been read agrees
with its file but for entries whose change nobody was told of (`HeldAgrees`), what holds of the file
between the halves of a change (`HalfDone`), and that the state in memory lists nothing else than
the one on file may (`StatesAreSound`), since the next save writes it. For sessions (`SessionInv`) it
says what a task between its awaits has in its locals (`LocalsFit`), that a client belongs to one
task or one table entry at most (`OneOwner`), and that tasks are apart if they have not overlapped
(`Apart`, `NoToolsYet`).

**Toolset.** `ClosedIsGone` needs that a session once out of the pool stays out: ids are told only when
their connection was made, and are never made twice (`IdsWereMade`, `TakenOut`). `RegistryAgrees`
needs that every plugin on file is known to a running manager (`RegisteredAreKnown`), and
`ForeignCodeIsInFront` that nothing remains of a process that has ended (`NothingAtRest`).
`HandsChangeForCause` follows from the order of `known`: a step leaves each plugin its place and puts
new ones last, so that of two plugins that offer a name before and after, the same one is last. The
last one exists because a set of naturals below a bound has a greatest element, from the library's
theorem about well-founded orders. That the instance and the code of the SSH plugin come and go
together, and that it is on while it has them (`SshHasInstance`), joins the parts: with it a plugin
that has an instance and is not hidden serves its names (`ShellServes`), which is what `OpenIsClosable`
adds to the pools' own invariant (`OpenIsKept`).

**Scheduler.** A record is made when the turn is over and written later, so the invariant ties each
entry of the queue to the one run that waits for it, with that run's number (`Waits`), and says that
what is on file of a job is earlier than the run that is going (`Earlier`); the order of the runs
follows. `Numbered` keeps the numbers in their type. The count is kept by an argument that every
step shares (`SameLines`, `MoreLines`): the runs that are neither going nor paid for by an upset
increase only by a step that adds a line, which is a record of that job or a spoiled one.
`SchedulerAgreesWithFile` is inductive with the types of jobs (`JobInv`). The last entry of an id that
asks for a job decides what is wanted of it (`WantedFacts`), and of each operation on the list the proof
says what becomes of the entries that ask: one more at the end, or, in `RemoveJob`, none of that id and
the others in their order.

**Opencode.** What a step of a call relies on was true when an earlier one looked. `Chosen` says that
port and password are known where they are used, and `FirstChoice` that whoever chooses finds nothing
chosen, provided that calls come one by one (`OneByOne`). `OnePassword` says of all servers that the tool
may meet, those still starting included, that they have its password; for a port that is still to be
picked this needs that nobody listens there yet (`Unborn`). `Cached` says who is about to put a session
in place of a dead or dropped one when the cached session is not live, as long as no creation has
failed. `IdsLeft` keeps the ids of sessions in their type: there are as many left as there are calls
that may need one.

**Only model-checked.** Liveness (`AppendReturns`, `TurnEnds`, `RunEnds`, `CallEnds`), since the
prover does neither fairness nor ENABLED; and the four counterexamples. `SelectSeq` is defined by
recursion, and induction over it is out of the prover's reach: the model filters lists with `Subsequence`
instead, whose definition names the places that are kept.

## What disagrees with the documentation

`PROJECT.json` has the quotations under "findings".

1. The instruction of a timer turn is logged and never shown to the model (`timer_instruction`).
2. A job with a malformed expression is saved before it is rejected, and every later start raises
   at it, leaving the jobs behind it unscheduled (`rebuild`).
3. A plugin that is loaded again after another one runs the other's code under its own name
   (`own_code`): all are imported as `plugin` from the first directory of `sys.path`.
4. Two first uses of the opencode tool at once can leave a server that rejects it (`first_use`).

Seen while modelling, without a run: `docs/programmatic-usage.md:716` promises real-time progress,
which the stream holds back until the tool has ended; and the tools of the builtin plugin
`core_admin` (`plugins/builtin/core_admin/tools.py:10-24`) report success without doing anything.
A `RespondAction` ends the turn only after the actions behind it in the plan. The settings
`recent_messages_window` and `auto_compact` are not passed on to what they are named for, and nothing
reads `covers_up_to_event_id`. Plugins that are on in `registry.json5` have no code after a restart
until the program activates them. A restarted opencode tool with a configured port and a made-up password meets the
server of its earlier process, which turns it away with 401 until it ends; `startup_timeout_seconds`
does not bound a poll that the server leaves unanswered; and a failed `POST /session` after
`new_session` loses a session that still lives. Nothing calls `unregister`, so a function that a plugin registers
by hand survives `disable`; and since the registry is written in the order of a set, another plugin
may serve a shared name after a restart.

## What is not modelled

* Contents: prompts, token counts, payloads, formatting, dates (the numbering of days of the week
  in a cron expression among them).
* In `JsonlStore`: durability beyond the operating system's (there is no `fsync`).
* In `Scheduler`: a second `start()` while it runs (APScheduler raises), jobs added before
  `start()`, the pass of the event loop by which APScheduler defers its shutdown.
* In `AgentRuntime` and `TurnStream`: an engine stream that ends without a decision is in the
  former only, since no adapter of the repository does that.
* In both, and in `Scheduler`: late closes (`EventLog!Abandon`). Only a cancellation in the last of the
  three file operations of an append causes one, and `JsonlStore` has its consequences.
* In `SelfMutation` and `McpSessions`: what a skill, server or tool consists of; the temporary file
  that a crash leaves; the file of discovered tools, which nobody reads. That the engine keeps its
  model after `switch_model` until the next start follows from `Start`, and no property is about it.
* In `Plugins` and `Capabilities`: skills and prompts of plugins, which are read whole at each context
  like their functions; the flag `enabled` of a function, which is a constant of its code.
* In `Opencode`: a configured `base_url`, the command line and the inline configuration, a password
  from the environment, two random ports that agree, and a plugin that is activated anew while calls run.
* In `SshSessions`: what a command writes, and the windows of paramiko's channels.
* Components with status `not_modelled` in `PROJECT.json`, each with its reason.

## Plan

1. `AgentRuntime` with the late records of `EventLog` (`Abandon`, `Arrive`, `Vanish`), and what of its
   theorems still holds then: a late result may stand behind the next call of its turn.
2. `Administration` with `Scheduler`: the jobs that a decision creates.
