------------------------ MODULE AgentRuntime_proofs ------------------------
(***************************************************************************)
(* AgentRuntime, proved for any threads, turns, decisions and bounds.      *)
(***************************************************************************)
EXTENDS AgentRuntime, QueueFacts, FiniteSetTheorems

FileLine == Event \cup {Spoiled}
Entry == [by : Turns, rec : Event]

-----------------------------------------------------------------------------
(* Type correctness. *)

\* The types of the histories and their queues, one thread at a time.
LEMMA LogTypes ==
  ASSUME Log!TypeOK, NEW th \in Threads
  PROVE  /\ log[th] \in Seq(FileLine)
         /\ queue[th] \in Seq(Entry)
         /\ damaged[th] \in BOOLEAN
         /\ \A i \in DOMAIN queue[th] :
              /\ queue[th][i] \in Entry
              /\ queue[th][i].by \in Turns
              /\ queue[th][i].rec \in Event
<1>1. /\ log[th] \in Seq(FileLine)
      /\ queue[th] \in Seq(Entry)
      /\ damaged[th] \in BOOLEAN
  BY DEF Log!TypeOK, Log!Pending, FileLine, Entry
<1>2. \A i \in DOMAIN queue[th] : queue[th][i] \in Entry
  BY <1>1
<1> QED
  BY <1>1, <1>2 DEF Entry

\* The line that is written next.
LEMMA NextLineType ==
  ASSUME Log!TypeOK, NEW th \in Threads, queue[th] # <<>>
  PROVE  /\ 1 \in DOMAIN queue[th]
         /\ Head(queue[th]) = queue[th][1]
         /\ Log!NextLine(th) \in {Spoiled, queue[th][1].rec}
         /\ Log!NextLine(th) \in FileLine
<1>1. queue[th] \in Seq(Entry)
  BY LogTypes
<1>2. 1 \in DOMAIN queue[th] /\ Head(queue[th]) = queue[th][1]
  BY <1>1, EmptySeq
<1>3. queue[th][1].rec \in Event
  BY <1>2, LogTypes
<1> QED
  BY <1>2, <1>3 DEF Log!NextLine, FileLine

LEMMA RequestType ==
  ASSUME Log!TypeOK, NEW t \in Turns, NEW th \in Threads, NEW e \in Event,
         Log!Request(t, th, e)
  PROVE  Log!TypeOK'
<1>1. [by |-> t, rec |-> e] \in Entry
  BY DEF Entry
<1>2. queue[th] \in Seq(Entry)
  BY LogTypes
<1>3. Append(queue[th], [by |-> t, rec |-> e]) \in Seq(Entry)
  BY <1>1, <1>2, QueueAppend
<1>4. queue' \in [Threads -> Seq(Entry)]
  BY <1>3 DEF Log!Request, Log!TypeOK, Log!Pending, Entry
<1> QED
  BY <1>4 DEF Log!Request, Log!TypeOK, Log!Pending, Entry

LEMMA CommitType ==
  ASSUME Log!TypeOK, NEW t \in Turns, NEW th \in Threads, Log!Commit(t, th)
  PROVE  Log!TypeOK'
<1>1. queue[th] \in Seq(Entry) /\ queue[th] # <<>> /\ log[th] \in Seq(FileLine)
  BY LogTypes DEF Log!Commit
<1>2. Tail(queue[th]) \in Seq(Entry)
  BY <1>1
<1>3. Append(log[th], Log!NextLine(th)) \in Seq(FileLine)
  BY <1>1, NextLineType, QueueAppend
<1>4. queue' \in [Threads -> Seq(Entry)]
  BY <1>2 DEF Log!Commit, Log!TypeOK, Log!Pending, Entry
<1>5. log' \in [Threads -> Seq(FileLine)]
  BY <1>3 DEF Log!Commit, Log!TypeOK, FileLine
<1>6. damaged' \in [Threads -> BOOLEAN]
  BY DEF Log!Commit, Log!TypeOK
<1> QED
  BY <1>4, <1>5, <1>6 DEF Log!TypeOK, Log!Pending, FileLine, Entry

LEMMA AbortType ==
  ASSUME Log!TypeOK, NEW t \in Turns, NEW th \in Threads, Log!Abort(t, th)
  PROVE  Log!TypeOK'
<1>1. PICK i \in DOMAIN queue[th] :
        /\ queue' = [queue EXCEPT ![th] = Log!RemoveAt(@, i)]
        /\ damaged' = damaged \/ damaged' = [damaged EXCEPT ![th] = TRUE]
  BY DEF Log!Abort
<1>2. queue[th] \in Seq(Entry)
  BY LogTypes
<1>3. RemoveAt(queue[th], i) \in Seq(Entry)
  BY <1>2, RemoveAtFrom
<1>4. queue' \in [Threads -> Seq(Entry)]
  BY <1>1, <1>3 DEF Log!TypeOK, Log!Pending, Entry, RemoveAt, Log!RemoveAt
<1>5. damaged' \in [Threads -> BOOLEAN]
  BY <1>1 DEF Log!TypeOK
<1> QED
  BY <1>4, <1>5 DEF Log!Abort, Log!TypeOK, Log!Pending, Entry

\* What a crash does to one history.
LEMMA CrashEffect ==
  ASSUME Log!TypeOK, Log!Crash, NEW th \in Threads
  PROVE  /\ queue'[th] = <<>>
         /\ damaged'[th] \in BOOLEAN
         /\ \/ log'[th] = log[th]
            \/ queue[th] # <<>> /\ log'[th] = Append(log[th], Log!NextLine(th))
<1>1. PICK whole, part \in SUBSET {p \in Threads : queue[p] # <<>>} :
        /\ log' = [p \in Threads |->
                     IF p \in whole THEN Append(log[p], Log!NextLine(p)) ELSE log[p]]
        /\ damaged' = [p \in Threads |->
                         IF p \in whole THEN FALSE ELSE damaged[p] \/ p \in part]
  BY DEF Log!Crash
<1>2. queue'[th] = <<>>
  BY DEF Log!Crash
<1>3. damaged'[th] = FALSE \/ damaged'[th] = (damaged[th] \/ th \in part)
  BY <1>1
<1> QED
  BY <1>1, <1>2, <1>3

LEMMA CrashType ==
  ASSUME Log!TypeOK, Log!Crash
  PROVE  Log!TypeOK'
<1>1. \A th \in Threads : log'[th] \in Seq(FileLine) /\ damaged'[th] \in BOOLEAN
  <2> SUFFICES ASSUME NEW th \in Threads
               PROVE  log'[th] \in Seq(FileLine) /\ damaged'[th] \in BOOLEAN
    OBVIOUS
  <2>1. log[th] \in Seq(FileLine)
    BY LogTypes
  <2>2. \/ log'[th] = log[th]
        \/ queue[th] # <<>> /\ log'[th] = Append(log[th], Log!NextLine(th))
    BY CrashEffect
  <2>3. CASE log'[th] = log[th]
    BY <2>1, <2>3, CrashEffect
  <2>4. CASE queue[th] # <<>> /\ log'[th] = Append(log[th], Log!NextLine(th))
    <3>1. Log!NextLine(th) \in FileLine
      BY <2>4, NextLineType
    <3> QED
      BY <2>1, <2>4, <3>1, QueueAppend, CrashEffect
  <2> QED
    BY <2>2, <2>3, <2>4
<1>2. /\ log' = [th \in Threads |-> log'[th]]
      /\ damaged' = [th \in Threads |-> damaged'[th]]
  BY DEF Log!Crash
<1>3. log' \in [Threads -> Seq(FileLine)] /\ damaged' \in [Threads -> BOOLEAN]
  BY <1>1, <1>2
<1>4. queue' \in [Threads -> Seq(Entry)]
  BY DEF Log!Crash
<1> QED
  BY <1>3, <1>4 DEF Log!TypeOK, Log!Pending, FileLine, Entry

\* Before it decides, a turn has a step left: without this, steps may pass MaxSteps.
Fresh == {"idle", "opening", "context", "compacting", "deciding"}
StepsLeft == \A t \in Turns : turn[t].pc \in Fresh => turn[t].steps < MaxSteps

LEMMA InitType == Init => TypeOK /\ StepsLeft
<1> SUFFICES ASSUME Init
             PROVE  TypeOK /\ StepsLeft
  OBVIOUS
<1>1. Log!TypeOK
  BY DEF Init, Log!Init, Log!TypeOK
<1>2. turn \in [Turns -> Turn]
  <2>1. [pc : {"idle"}, thread : Threads, kind : Kinds, steps : {0}, plan : {<<>>},
         pos : {0}, final : {0}, ticks : {0}, seen : {0}, memory : {{}}] \subseteq Turn
    <3>1. <<>> \in Seq(ActionKinds) /\ 0 \in 0 .. MaxSteps /\ 0 \in Nat /\ {} \in SUBSET Nat
      BY EmptySeq, AgentRuntimeAssumption
    <3>2. "idle" \in Stage
      BY DEF Stage
    <3> QED
      BY <3>1, <3>2 DEF Turn
  <2> QED
    BY <2>1 DEF Init
<1>3. /\ snapshot \in [Threads -> SUBSET Nat] /\ settled \in [Threads -> SUBSET Nat]
      /\ faults \in 0 .. MaxFaults
  BY AgentRuntimeAssumption DEF Init
<1>4. StepsLeft
  BY AgentRuntimeAssumption DEF Init, StepsLeft
<1> QED
  BY <1>1, <1>2, <1>3, <1>4 DEF TypeOK

\* The types of one turn.
LEMMA TurnTypes ==
  ASSUME TypeOK, NEW t \in Turns
  PROVE  /\ turn[t] \in Turn
         /\ Thread(t) \in Threads
         /\ turn[t].steps \in 0 .. MaxSteps
         /\ turn[t].pos \in Nat
         /\ turn[t].ticks \in Nat
         /\ \A type \in EventType : EventNow(t, type) \in Event
BY AgentRuntimeAssumption DEF TypeOK, Turn, Thread, EventNow, Event

\* A step of one turn that leaves the types of the histories alone.
LEMMA TurnStepType ==
  ASSUME TypeOK, StepsLeft, Log!TypeOK', NEW t \in Turns, NEW u \in Turn,
         u.pc \in Fresh => u.steps < MaxSteps,
         turn' = [turn EXCEPT ![t] = u],
         snapshot' \in [Threads -> SUBSET Nat], settled' \in [Threads -> SUBSET Nat],
         faults' \in 0 .. MaxFaults
  PROVE  TypeOK' /\ StepsLeft'
BY DEF TypeOK, StepsLeft

\* Logging is such a step.
LEMMA LogsType ==
  ASSUME TypeOK, StepsLeft, NEW t \in Turns, NEW type \in EventType, NEW pc \in Appending,
         pc = "opening" => turn[t].pc = "idle", Logs(t, type, pc),
         settled' \in [Threads -> SUBSET Nat]
  PROVE  TypeOK' /\ StepsLeft'
<1> DEFINE u == [turn[t] EXCEPT !.pc = pc]
<1>1. u \in Turn /\ u.pc = pc /\ u.steps = turn[t].steps
  BY TurnTypes DEF Turn, Stage
<1>2. pc \in Fresh => pc = "opening"
  BY DEF Fresh, Appending, After
<1>3. u.pc \in Fresh => u.steps < MaxSteps
  BY <1>1, <1>2 DEF StepsLeft, Fresh
<1>4. Log!TypeOK'
  BY RequestType, TurnTypes DEF TypeOK, Logs
<1>5. turn' = [turn EXCEPT ![t] = u]
  BY DEF Logs, TypeOK
<1> QED
  BY <1>1, <1>3, <1>4, <1>5, TurnStepType DEF Logs, TypeOK

\* Going on without logging is such a step.
LEMMA BecomesType ==
  ASSUME TypeOK, StepsLeft, NEW t \in Turns, NEW u \in Turn,
         u.pc \in Fresh => u.steps < MaxSteps,
         Becomes(t, u), snapshot' \in [Threads -> SUBSET Nat],
         settled' \in [Threads -> SUBSET Nat]
  PROVE  TypeOK' /\ StepsLeft'
<1>1. Log!TypeOK'
  BY DEF TypeOK, Becomes, Log!TypeOK, Log!Pending
<1> QED
  BY <1>1, TurnStepType DEF Becomes, TypeOK

\* What is left of a turn that is over.
LEMMA OverFacts ==
  ASSUME NEW u \in Turn, NEW pc \in Ended
  PROVE  /\ Over(u, pc) \in Turn
         /\ Over(u, pc).pc = pc
         /\ Over(u, pc).thread = u.thread
         /\ Over(u, pc).kind = u.kind
         /\ Over(u, pc).steps = u.steps
         /\ Over(u, pc).pos = u.pos
         /\ Over(u, pc).final = u.final
<1>1. <<>> \in Seq(ActionKinds) /\ 0 \in Nat /\ {} \in SUBSET Nat /\ pc \in Stage
  BY EmptySeq DEF Stage
<1> QED
  BY <1>1 DEF Over, Turn

\* What a summary tells of are lines of the file.
LEMMA CoveredType ==
  ASSUME TypeOK, NEW t \in Turns
  PROVE  Covered(turn[t]) \in SUBSET Nat
BY DEF TypeOK, Turn, Covered

\* Every step keeps the types of the snapshots and of their history.
LEMMA SnapshotType ==
  ASSUME TypeOK, [Next]_vars
  PROVE  /\ snapshot' \in [Threads -> SUBSET Nat]
         /\ settled' \in [Threads -> SUBSET Nat]
<1>1. snapshot \in [Threads -> SUBSET Nat] /\ settled \in [Threads -> SUBSET Nat]
  BY DEF TypeOK
<1>2. ASSUME NEW t \in Turns, Compacted(t)
      PROVE  snapshot' \in [Threads -> SUBSET Nat]
  BY <1>1, <1>2, CoveredType DEF Compacted
<1>3. snapshot' = snapshot \/ \E t \in Turns : Compacted(t)
  BY DEF Next, Proceed, vars, Start, Appended, AppendRaises, BuildContext, ContextRaises,
         EngineRaises, Decide, NoDecision, CallFunction, Respond, Route, ActionReturns,
         ToolProgress, Summarised, SummaryRaises, RecordResult, EndStep, Cancel, Crash, Logs
<1>4. snapshot' \in [Threads -> SUBSET Nat]
  BY <1>1, <1>2, <1>3
<1>5. CASE UNCHANGED vars
  BY <1>1, <1>4, <1>5 DEF vars
<1>6. CASE Next
  BY <1>1, <1>4, <1>6 DEF Next, Settle
<1> QED
  BY <1>4, <1>5, <1>6

\* Every step keeps the types.
LEMMA TypeStep ==
  ASSUME TypeOK, StepsLeft, [Next]_vars
  PROVE  TypeOK' /\ StepsLeft'
<1> USE DEF Log!TypeOK, Log!Pending
<1>1. /\ snapshot \in [Threads -> SUBSET Nat] /\ faults \in 0 .. MaxFaults
      /\ settled' \in [Threads -> SUBSET Nat]
  BY SnapshotType DEF TypeOK
<1>2. ASSUME NEW t \in Turns, Start(t)
      PROVE  TypeOK' /\ StepsLeft'
  <2>1. (IF turn[t].kind = "timer" THEN "system_event" ELSE "user_message") \in EventType
    BY DEF EventType
  <2>2. "opening" \in Appending
    BY DEF Appending, After
  <2> QED
    BY <1>1, <1>2, <2>1, <2>2, LogsType DEF Start
<1>3. ASSUME NEW t \in Turns, Appended(t)
      PROVE  TypeOK' /\ StepsLeft'
  <2> DEFINE u == [turn[t] EXCEPT !.pc = After[@],
                     !.pos = IF turn[t].pc \in {"recording", "replying"} THEN @ + 1 ELSE @]
  <2>1. turn[t] \in Turn /\ turn[t].pc \in Appending /\ turn[t].pos \in Nat
    BY <1>3, TurnTypes DEF Appended
  <2>2. After[turn[t].pc] \in Stage
    BY <2>1 DEF Appending, After, Stage
  <2>3. u \in Turn /\ u.pc = After[turn[t].pc] /\ u.steps = turn[t].steps
    <3> DEFINE p == IF turn[t].pc \in {"recording", "replying"} THEN turn[t].pos + 1
                                                               ELSE turn[t].pos
               v == [turn[t] EXCEPT !.pc = After[turn[t].pc], !.pos = p]
    <3>1. p \in Nat
      BY <2>1
    <3>2. u = v
      BY <2>1 DEF Turn
    <3> HIDE DEF p
    <3>3. v \in Turn /\ v.pc = After[turn[t].pc] /\ v.steps = turn[t].steps
      BY <2>1, <2>2, <3>1 DEF Turn
    <3> QED
      BY <3>2, <3>3
  <2>4. After[turn[t].pc] \in Fresh => turn[t].pc = "opening"
    BY <2>1 DEF Appending, After, Fresh
  <2>5. u.pc \in Fresh => u.steps < MaxSteps
    BY <2>3, <2>4 DEF StepsLeft, Fresh
  <2>6. turn' = [turn EXCEPT ![t] = u]
    BY <1>3, <2>1 DEF Appended, TypeOK, Turn
  <2>7. Log!TypeOK'
    BY <1>3, <2>1, TurnTypes, CommitType DEF Appended, TypeOK
  <2> QED
    BY <1>1, <1>3, <2>3, <2>5, <2>6, <2>7, TurnStepType DEF Appended
<1>4. ASSUME NEW t \in Turns, AppendRaises(t)
      PROVE  TypeOK' /\ StepsLeft'
  <2> DEFINE u == IF turn[t].pc \in Catching THEN Caught(turn[t])
                                              ELSE Over(turn[t], "failed")
  <2>1. u \in Turn /\ u.pc \notin Fresh
    <3>1. turn[t] \in Turn /\ "failed" \in Ended
      BY TurnTypes DEF Ended
    <3>2. Over(turn[t], "failed") \in Turn /\ Over(turn[t], "failed").pc = "failed"
      BY <3>1, OverFacts
    <3>3. Caught(turn[t]) \in Turn /\ Caught(turn[t]).pc = "returned"
      BY <3>1 DEF Turn, Stage, Caught
    <3> QED
      BY <3>2, <3>3 DEF Fresh
  <2>2. turn' = [turn EXCEPT ![t] = u]
    BY <1>4 DEF AppendRaises
  <2>3. Log!TypeOK'
    BY <1>4, TurnTypes, CommitType, AbortType DEF AppendRaises, TypeOK
  <2>4. faults' \in 0 .. MaxFaults
    BY <1>1, <1>4, AgentRuntimeAssumption DEF AppendRaises
  <2> QED
    BY <1>1, <1>4, <2>1, <2>2, <2>3, <2>4, TurnStepType DEF AppendRaises
<1>5. ASSUME NEW t \in Turns, BuildContext(t)
      PROVE  TypeOK' /\ StepsLeft'
  <2>1. PICK pc \in {"compacting", "deciding"} :
          Becomes(t, [turn[t] EXCEPT !.pc = pc, !.seen = EventsRead(Thread(t)),
                                     !.memory = snapshot[Thread(t)]])
    BY <1>5 DEF BuildContext
  <2>2. EventsRead(Thread(t)) \in Nat /\ snapshot[Thread(t)] \in SUBSET Nat
    <3>1. Thread(t) \in Threads /\ log[Thread(t)] \in Seq(FileLine)
      BY TurnTypes, LogTypes DEF TypeOK
    <3>2. Len(log[Thread(t)]) \in Nat
      BY <3>1
    <3> QED
      BY <1>1, <3>1, <3>2 DEF EventsRead
  <2>3. turn[t].steps < MaxSteps
    BY <1>5 DEF BuildContext, StepsLeft, Fresh
  <2> DEFINE u == [turn[t] EXCEPT !.pc = pc, !.seen = EventsRead(Thread(t)),
                                  !.memory = snapshot[Thread(t)]]
  <2>4. u \in Turn /\ u.steps = turn[t].steps
    BY <2>2, TurnTypes DEF Turn, Stage
  <2> QED
    BY <1>1, <1>5, <2>1, <2>3, <2>4, BecomesType DEF BuildContext
<1>6. ASSUME NEW t \in Turns, NEW pc \in Stage \ Fresh,
             Becomes(t, [turn[t] EXCEPT !.pc = pc]), snapshot' = snapshot
      PROVE  TypeOK' /\ StepsLeft'
  <2> DEFINE u == [turn[t] EXCEPT !.pc = pc]
  <2>1. u \in Turn /\ u.pc = pc
    BY TurnTypes DEF Turn
  <2> QED
    BY <1>1, <1>6, <2>1, BecomesType
<1>7. ASSUME NEW t \in Turns, Compacted(t)
      PROVE  TypeOK' /\ StepsLeft'
  <2> DEFINE u == [turn[t] EXCEPT !.pc = "deciding"]
  <2>1. u \in Turn /\ u.steps = turn[t].steps /\ Covered(turn[t]) \in SUBSET Nat
    BY TurnTypes, CoveredType DEF Turn, Stage
  <2>2. turn[t].steps < MaxSteps
    BY <1>7 DEF Compacted, StepsLeft, Fresh
  <2>3. snapshot' \in [Threads -> SUBSET Nat]
    BY <1>1, <1>7, <2>1 DEF Compacted
  <2> QED
    BY <1>1, <1>7, <2>1, <2>2, <2>3, BecomesType DEF Compacted
<1>8. ASSUME NEW t \in Turns, Decide(t)
      PROVE  TypeOK' /\ StepsLeft'
  <2>1. PICK plan \in Decisions[t] :
          Becomes(t, [turn[t] EXCEPT !.pc = "acting", !.steps = @ + 1, !.plan = plan,
                                     !.pos = 1, !.final = 0, !.seen = 0, !.memory = {}])
    BY <1>8 DEF Decide
  <2> DEFINE u == [turn[t] EXCEPT !.pc = "acting", !.steps = @ + 1, !.plan = plan,
                                  !.pos = 1, !.final = 0, !.seen = 0, !.memory = {}]
  <2>2. turn[t].steps + 1 \in 0 .. MaxSteps
    BY <1>8, TurnTypes, AgentRuntimeAssumption DEF Decide, StepsLeft, Fresh
  <2>3. plan \in Seq(ActionKinds)
    BY AgentRuntimeAssumption
  <2>4. u \in Turn /\ u.pc = "acting"
    BY <2>2, <2>3, TurnTypes DEF Turn, Stage
  <2> QED
    BY <1>1, <1>8, <2>1, <2>4, BecomesType DEF Decide, Fresh
<1>9. ASSUME NEW t \in Turns, NoDecision(t)
      PROVE  TypeOK' /\ StepsLeft'
  <2> DEFINE u == Over([turn[t] EXCEPT !.final = 0], "done")
  <2>1. u \in Turn /\ u.pc = "done"
    <3>1. [turn[t] EXCEPT !.final = 0] \in Turn /\ "done" \in Ended
      BY TurnTypes DEF Turn, Ended
    <3> QED
      BY <3>1, OverFacts
  <2> HIDE DEF u
  <2>2. Becomes(t, u) /\ UNCHANGED snapshot
    BY <1>9 DEF NoDecision, u
  <2> QED
    BY <2>2, <1>1, <1>9, <2>1, BecomesType DEF NoDecision, Fresh
<1>10. ASSUME NEW t \in Turns, CallFunction(t)
       PROVE  TypeOK' /\ StepsLeft'
  BY <1>1, <1>10, LogsType DEF CallFunction, EventType, Appending, After
<1>11. ASSUME NEW t \in Turns, NEW type \in EventType, NEW u \in Turn, u.pc \notin Fresh,
              Log!Request(t, Thread(t), EventNow(t, type)),
              turn' = [turn EXCEPT ![t] = u], UNCHANGED <<snapshot, faults>>
       PROVE  TypeOK' /\ StepsLeft'
  <2>1. Log!TypeOK'
    BY <1>11, RequestType, TurnTypes DEF TypeOK
  <2> QED
    BY <1>1, <1>11, <2>1, TurnStepType
<1>12. ASSUME NEW t \in Turns, Respond(t)
       PROVE  TypeOK' /\ StepsLeft'
  <2> DEFINE u == [turn[t] EXCEPT !.pc = "replying", !.final = FinalText(turn[t])]
  <2>1. u \in Turn /\ u.pc = "replying"
    BY TurnTypes DEF Turn, Stage, Appending, After, FinalText
  <2>2. turn' = [turn EXCEPT ![t] = u]
    BY <1>12, TurnTypes DEF Respond, TypeOK
  <2> QED
    BY <1>12, <1>11, <2>1, <2>2 DEF Respond, EventType, Fresh
<1>13. ASSUME NEW t \in Turns, ToolProgress(t)
       PROVE  TypeOK' /\ StepsLeft'
  <2> DEFINE u == [turn[t] EXCEPT !.pc = "progressing", !.ticks = @ + 1]
  <2>1. u \in Turn /\ u.pc = "progressing"
    <3>1. turn[t].ticks + 1 \in Nat
      BY TurnTypes
    <3> QED
      BY <3>1, TurnTypes DEF Turn, Stage, Appending, After
  <2>2. turn' = [turn EXCEPT ![t] = u]
    BY <1>13, TurnTypes DEF ToolProgress, TypeOK
  <2> QED
    BY <1>13, <1>11, <2>1, <2>2 DEF ToolProgress, EventType, Fresh
<1>14. ASSUME NEW t \in Turns, Summarised(t)
       PROVE  TypeOK' /\ StepsLeft'
  BY <1>1, <1>14, <1>6, LogsType DEF Summarised, EventType, Appending, After, Stage, Fresh
<1>15. ASSUME NEW t \in Turns, RecordResult(t)
       PROVE  TypeOK' /\ StepsLeft'
  BY <1>1, <1>15, LogsType DEF RecordResult, EventType, Appending, After
<1>16. ASSUME NEW t \in Turns, EndStep(t)
       PROVE  TypeOK' /\ StepsLeft'
  <2>1. CASE turn[t].final # 0 \/ LastStep(turn[t])
    <3> DEFINE u == Over(turn[t], "done")
    <3>1. u \in Turn /\ u.pc = "done"
      BY TurnTypes, OverFacts DEF Ended
    <3> HIDE DEF u
    <3>2. Becomes(t, u) /\ UNCHANGED snapshot
      BY <1>16, <2>1 DEF EndStep, u
    <3> QED
      BY <1>1, <3>1, <3>2, BecomesType DEF Fresh
  <2>2. CASE ~(turn[t].final # 0 \/ LastStep(turn[t]))
    <3> DEFINE u == [turn[t] EXCEPT !.pc = "context"]
    <3>1. u \in Turn /\ u.steps = turn[t].steps
      BY TurnTypes DEF Turn, Stage
    <3>2. turn[t].steps < MaxSteps
      BY <2>2, TurnTypes, AgentRuntimeAssumption DEF LastStep
    <3> QED
      BY <1>1, <1>16, <2>2, <3>1, <3>2, BecomesType DEF EndStep
  <2> QED
    BY <2>1, <2>2
<1>17. ASSUME NEW t \in Turns, Cancel(t)
       PROVE  TypeOK' /\ StepsLeft'
  <2> DEFINE u == Over(turn[t], "cancelled")
  <2>1. u \in Turn /\ u.pc = "cancelled"
    BY TurnTypes, OverFacts DEF Ended
  <2>2. turn' = [turn EXCEPT ![t] = u]
    BY <1>17 DEF Cancel, TypeOK
  <2>3. Log!TypeOK'
    BY <1>17, TurnTypes, CommitType, AbortType DEF Cancel, GivenUp, TypeOK
  <2> QED
    BY <1>1, <1>17, <2>1, <2>2, <2>3, TurnStepType DEF Cancel, Fresh
<1>18. ASSUME Crash
       PROVE  TypeOK' /\ StepsLeft'
  <2>1. Log!TypeOK'
    BY <1>18, CrashType DEF Crash, TypeOK
  <2>2. \A t \in Turns : Over(turn[t], "dead") \in Turn /\ Over(turn[t], "dead").pc = "dead"
    BY TurnTypes, OverFacts DEF Ended
  <2>3. turn' \in [Turns -> Turn]
    BY <1>18, <2>2, TurnTypes DEF Crash
  <2>4. StepsLeft'
    BY <1>18, <2>2 DEF Crash, StepsLeft, Fresh
  <2>5. faults' \in 0 .. MaxFaults /\ snapshot' \in [Threads -> SUBSET Nat]
    BY <1>1, <1>18, AgentRuntimeAssumption DEF Crash
  <2> QED
    BY <1>1, <2>1, <2>3, <2>4, <2>5 DEF TypeOK
<1>19. ASSUME NEW t \in Turns, Route(t) \/ ActionReturns(t) \/ SummaryRaises(t)
       PROVE  TypeOK' /\ StepsLeft'
  BY <1>6, <1>19 DEF Route, ActionReturns, SummaryRaises, Caught, Stage, Fresh
<1>21. ASSUME NEW t \in Turns, ContextRaises(t) \/ EngineRaises(t)
       PROVE  TypeOK' /\ StepsLeft'
  <2> DEFINE u == Over(turn[t], "failed")
  <2>1. u \in Turn /\ u.pc = "failed"
    BY TurnTypes, OverFacts DEF Ended
  <2> HIDE DEF u
  <2>2. Becomes(t, u) /\ UNCHANGED snapshot
    BY <1>21 DEF ContextRaises, EngineRaises, u
  <2> QED
    BY <1>1, <2>1, <2>2, BecomesType DEF Fresh
<1>20. CASE UNCHANGED vars
  BY <1>20 DEF vars, TypeOK, StepsLeft
<1> QED
  BY <1>2, <1>3, <1>4, <1>5, <1>7, <1>8, <1>9, <1>10, <1>12, <1>13, <1>14, <1>15, <1>16,
     <1>17, <1>18, <1>19, <1>20, <1>21 DEF Next, Proceed

\* Every reachable state is well-typed; in particular no turn takes more than MaxSteps
\* steps.
THEOREM TypeCorrect == Spec => []TypeOK
<1>1. Init => TypeOK /\ StepsLeft
  BY InitType
<1>2. TypeOK /\ StepsLeft /\ [Next]_vars => (TypeOK /\ StepsLeft)'
  BY TypeStep
<1> QED
  BY <1>1, <1>2, PTL DEF Spec

-----------------------------------------------------------------------------
(* Causality.  It is not inductive: an event is appended when the append     *)
(* that was requested for it completes, so the invariant must say which      *)
(* event each turn waits to see on file, and what is on file when a turn is  *)
(* at a stage that logs an effect next.                                      *)

\* e is on file, or a line that it may have been spoiled in is.
Holds(L, e) == \E j \in DOMAIN L : L[j] \in {e, Spoiled}
Has(th, e) == Holds(log[th], e)

OpeningType(t) == IF turn[t].kind = "timer" THEN "system_event" ELSE "user_message"

\* The type of the event that t waits to see on file.
Awaited(t) ==
  CASE turn[t].pc = "opening" -> OpeningType(t)
    [] turn[t].pc = "calling" -> "assistant_tool_call"
    [] turn[t].pc = "progressing" -> "tool_progress"
    [] turn[t].pc = "noting" -> "assistant_progress"
    [] turn[t].pc = "replying" -> "assistant_message"
    [] turn[t].pc = "recording" -> IF turn[t].plan[turn[t].pos] = "call"
                                   THEN "tool_result" ELSE "action_result"

\* An entry of a queue belongs to a turn of that thread that waits for it.
Waits(th, k) ==
  LET t == queue[th][k].by IN
  /\ Thread(t) = th
  /\ turn[t].pc \in Appending
  /\ queue[th][k].rec = EventNow(t, Awaited(t))

QueueInv == \A th \in Threads : \A k \in DOMAIN queue[th] : Waits(th, k)

\* No turn waits twice.
OneAppend ==
  \A th \in Threads : \A i, k \in DOMAIN queue[th] :
    queue[th][i].by = queue[th][k].by => i = k

\* The stages of a turn whose call is on file, and whose progress event is.
Called(t) ==
  \/ turn[t].pc \in {"running", "progressing", "summarising", "noting"}
  \/ turn[t].pc \in {"returned", "recording"} /\ turn[t].plan[turn[t].pos] = "call"
Progressed(t) == turn[t].pc \in {"summarising", "noting"}

\* What a turn has on file at the stage that it is in.
OnFile(t) ==
  /\ turn[t].pc \in {"idle", "opening"} => turn[t].steps = 0 /\ turn[t].pos = 0
  /\ turn[t].pc \notin {"idle", "opening"} \cup Ended =>
       Has(Thread(t), [type |-> OpeningType(t), turn |-> t, step |-> 0, pos |-> 0])
  /\ Called(t) => Has(Thread(t), EventNow(t, "assistant_tool_call"))
  /\ Progressed(t) => Has(Thread(t), EventNow(t, "tool_progress"))
  /\ turn[t].pc = "routing" => turn[t].plan[turn[t].pos] # "call"

\* An event of t that is on file is not newer than the context that t was shown.
Shown(t) ==
  turn[t].pc \in {"compacting", "deciding"} =>
    \A i \in DOMAIN log[Thread(t)] :
      log[Thread(t)][i] # Spoiled /\ log[Thread(t)][i].turn = t => i <= turn[t].seen

IInv ==
  /\ TypeOK /\ StepsLeft
  /\ QueueInv /\ OneAppend
  /\ \A t \in Turns : OnFile(t) /\ Shown(t)
  /\ Causality

\* A history never loses what it holds.
LEMMA HoldsStays ==
  ASSUME NEW L \in Seq(FileLine), NEW x \in FileLine, NEW e
  PROVE  /\ Holds(L, e) => Holds(Append(L, x), e)
         /\ x \in {e, Spoiled} => Holds(Append(L, x), e)
<1>1. /\ DOMAIN Append(L, x) = 1 .. Len(L) + 1
      /\ DOMAIN L = 1 .. Len(L)
      /\ Append(L, x)[Len(L) + 1] = x
      /\ \A i \in DOMAIN L : Append(L, x)[i] = L[i]
      /\ Len(L) \in Nat
  BY QueueAppend
<1> QED
  BY <1>1 DEF Holds

\* What a step may do to a history.
Grown(th) ==
  \/ log'[th] = log[th]
  \/ queue[th] # <<>> /\ log'[th] = Append(log[th], Log!NextLine(th))

LEMMA HasStays ==
  ASSUME TypeOK, NEW th \in Threads, Grown(th), NEW e, Has(th, e)
  PROVE  Holds(log'[th], e)
<1>1. log[th] \in Seq(FileLine)
  BY LogTypes DEF TypeOK
<1>2. CASE queue[th] # <<>> /\ log'[th] = Append(log[th], Log!NextLine(th))
  BY <1>1, <1>2, NextLineType, HoldsStays DEF TypeOK, Has
<1> QED
  BY <1>2 DEF Grown, Has

\* The event that a turn waits to see on file has its cause on file.
LEMMA CauseOnFile ==
  ASSUME TypeOK, NEW t \in Turns, turn[t].pc \in Appending, OnFile(t),
         NEW e, e = EventNow(t, Awaited(t)), Cause(e) # e
  PROVE  Has(Thread(t), Cause(e))
<1>1. e.turn = t /\ e.type = Awaited(t) /\ Opening(e) = OpeningType(t)
  BY DEF EventNow, Opening, OpeningType
<1>2. CASE turn[t].pc = "opening"
  BY <1>1, <1>2 DEF Cause, Awaited, OpeningType
<1>3. CASE \/ turn[t].pc \in {"calling", "replying"}
           \/ turn[t].pc = "recording" /\ turn[t].plan[turn[t].pos] # "call"
  <2>1. Cause(e) = [type |-> OpeningType(t), turn |-> t, step |-> 0, pos |-> 0]
    BY <1>1, <1>3 DEF Cause, Awaited
  <2> QED
    BY <1>3, <2>1 DEF OnFile, Ended
<1>4. CASE \/ turn[t].pc = "progressing"
           \/ turn[t].pc = "recording" /\ turn[t].plan[turn[t].pos] = "call"
  <2>1. Cause(e) = EventNow(t, "assistant_tool_call")
    BY <1>1, <1>4 DEF Cause, Awaited, EventNow
  <2> QED
    BY <1>4, <2>1 DEF OnFile, Called
<1>5. CASE turn[t].pc = "noting"
  <2>1. Cause(e) = EventNow(t, "tool_progress")
    BY <1>1, <1>5 DEF Cause, Awaited, EventNow
  <2> QED
    BY <1>5, <2>1 DEF OnFile, Progressed
<1> QED
  BY <1>2, <1>3, <1>4, <1>5 DEF Appending, After

\* The line that is written next: whose it is, and what it is.
LEMMA NextLineOwner ==
  ASSUME TypeOK, QueueInv, NEW th \in Threads, queue[th] # <<>>
  PROVE  /\ Head(queue[th]).by \in Turns
         /\ Thread(Head(queue[th]).by) = th
         /\ turn[Head(queue[th]).by].pc \in Appending
         /\ Head(queue[th]).rec =
              EventNow(Head(queue[th]).by, Awaited(Head(queue[th]).by))
         /\ Log!NextLine(th) \in {Spoiled, Head(queue[th]).rec}
         /\ Log!NextLine(th) \in FileLine
<1>1. 1 \in DOMAIN queue[th] /\ Head(queue[th]) = queue[th][1]
  BY NextLineType DEF TypeOK
<1> QED
  BY <1>1, NextLineType, LogTypes DEF TypeOK, QueueInv, Waits

\* However a history grows, causes stay before their effects.
LEMMA CausalityStays ==
  ASSUME IInv, \A th \in Threads : Grown(th),
         \A t \in Turns : turn'[t].kind = turn[t].kind
  PROVE  Causality'
<1> SUFFICES ASSUME NEW th \in Threads, NEW i \in DOMAIN log'[th],
                    log'[th][i] # Spoiled, Cause(log[th][i])' # log'[th][i]
             PROVE  Precedes(th, Cause(log[th][i]), i)'
  BY DEF Causality
<1> DEFINE L == log[th]
           e == log'[th][i]
<1>1. /\ L \in Seq(FileLine) /\ Len(L) \in Nat /\ DOMAIN L = 1 .. Len(L)
      /\ \A j \in DOMAIN L : L[j] \in FileLine
  BY LogTypes DEF IInv, TypeOK
<1>2. CASE i \in DOMAIN L /\ \A j \in DOMAIN L : log'[th][j] = L[j]
  <2>1. e = L[i] /\ e \in Event
    BY <1>1, <1>2 DEF FileLine
  <2>2. Cause(log[th][i])' = Cause(L[i])
    BY <2>1 DEF Cause, Opening, Event
  <2>3. Precedes(th, Cause(L[i]), i)
    BY <1>2, <2>1, <2>2 DEF IInv, Causality
  <2>4. \A j \in 1 .. i - 1 : j \in DOMAIN L
    BY <1>1, <1>2
  <2> QED
    BY <1>2, <2>2, <2>3, <2>4 DEF Precedes
<1>3. CASE ~(i \in DOMAIN L /\ \A j \in DOMAIN L : log'[th][j] = L[j])
  <2>1. /\ queue[th] # <<>>
        /\ log'[th] = Append(L, Log!NextLine(th))
    BY <1>3 DEF Grown
  <2> DEFINE x == Log!NextLine(th)
             t == Head(queue[th]).by
  <2>2. x \in FileLine
    BY <2>1, NextLineOwner DEF IInv
  <2>3. i = Len(L) + 1 /\ e = x
    BY <1>1, <1>3, <2>1, <2>2, QueueAppend
  <2>4. t \in Turns /\ Thread(t) = th /\ turn[t].pc \in Appending /\ e = EventNow(t, Awaited(t))
    BY <2>1, <2>3, NextLineOwner DEF IInv
  <2>5. Cause(log[th][i])' = Cause(e)
    BY <2>4 DEF Cause, Opening, EventNow
  <2>6. Has(th, Cause(e))
    <3>1. TypeOK /\ OnFile(t) /\ Cause(e) # e
      BY <2>4, <2>5 DEF IInv
    <3> HIDE DEF e, t
    <3> QED
      BY <2>4, <3>1, CauseOnFile
  <2>7. \A j \in DOMAIN L : log'[th][j] = L[j]
    BY <1>1, <2>1, <2>2, QueueAppend
  <2>8. PICK j \in DOMAIN L : L[j] \in {Cause(e), Spoiled}
    BY <2>6 DEF Has, Holds
  <2>9. j \in 1 .. i - 1 /\ log'[th][j] \in {Cause(e), Spoiled}
    BY <1>1, <2>3, <2>7, <2>8
  <2> QED
    BY <2>5, <2>9 DEF Precedes
<1> QED
  BY <1>2, <1>3

\* A turn that is not at an append has no entry in a queue.
LEMMA NotQueued ==
  ASSUME TypeOK, QueueInv, NEW t \in Turns, turn[t].pc \notin Appending
  PROVE  \A th \in Threads : \A k \in DOMAIN queue[th] : queue[th][k].by # t
BY DEF QueueInv, Waits

\* An entry still belongs to its turn, wherever it stands, if that turn stands still.
LEMMA WaitsStays ==
  ASSUME NEW th \in Threads, NEW j \in DOMAIN queue[th], Waits(th, j),
         NEW k, queue'[th][k] = queue[th][j],
         turn'[queue[th][j].by] = turn[queue[th][j].by]
  PROVE  Waits(th, k)'
BY DEF Waits, Thread, EventNow, Awaited, OpeningType

\* A turn keeps what it has on file while it stands still.
LEMMA OnFileStays ==
  ASSUME TypeOK, NEW t \in Turns, OnFile(t), turn'[t] = turn[t],
         \A th \in Threads : Grown(th)
  PROVE  OnFile(t)'
<1>1. /\ Thread(t) \in Threads /\ Thread(t)' = Thread(t)
      /\ OpeningType(t)' = OpeningType(t)
      /\ \A type : EventNow(t, type)' = EventNow(t, type)
      /\ Called(t)' <=> Called(t)
      /\ Progressed(t)' <=> Progressed(t)
  BY TurnTypes DEF Thread, OpeningType, EventNow, Called, Progressed
<1>2. \A e : Has(Thread(t), e) => Holds(log'[Thread(t)], e)
  BY <1>1, HasStays
<1>3. \A e : Has(Thread(t), e) => Holds(log'[Thread(t)'], e)
  BY <1>1, <1>2
<1>4. EventNow(t, "assistant_tool_call")' = EventNow(t, "assistant_tool_call")
  BY DEF EventNow
<1>5. EventNow(t, "tool_progress")' = EventNow(t, "tool_progress")
  BY DEF EventNow
<1> QED
  BY <1>1, <1>3, <1>4, <1>5 DEF OnFile, Has

\* What a turn was shown includes its events, for no other turn logs for it.
LEMMA ShownStays ==
  ASSUME TypeOK, QueueInv, NEW t \in Turns, Shown(t), \A th \in Threads : Grown(th),
         turn'[t].thread = turn[t].thread,
         turn'[t].pc \in {"compacting", "deciding"} =>
           /\ turn[t].pc \in {"compacting", "deciding"}
           /\ turn'[t].seen = turn[t].seen
  PROVE  Shown(t)'
<1> SUFFICES ASSUME turn'[t].pc \in {"compacting", "deciding"},
                    NEW i \in DOMAIN log'[Thread(t)'],
                    log'[Thread(t)'][i] # Spoiled, log'[Thread(t)'][i].turn = t
             PROVE  i <= turn'[t].seen
  BY DEF Shown
<1> DEFINE L == log[Thread(t)]
<1>1. Thread(t) \in Threads /\ Thread(t)' = Thread(t)
  BY TurnTypes DEF Thread
<1>2. L \in Seq(FileLine) /\ DOMAIN L = 1 .. Len(L) /\ Len(L) \in Nat
  BY <1>1, LogTypes DEF TypeOK
<1>3. CASE log'[Thread(t)] = L
  BY <1>1, <1>3 DEF Shown
<1>4. CASE queue[Thread(t)] # <<>> /\ log'[Thread(t)] = Append(L, Log!NextLine(Thread(t)))
  <2> DEFINE s == Head(queue[Thread(t)]).by
             x == Log!NextLine(Thread(t))
  <2>1. /\ s \in Turns /\ turn[s].pc \in Appending /\ x \in FileLine
        /\ x \in {Spoiled, EventNow(s, Awaited(s))}
    BY <1>1, <1>4, NextLineOwner
  <2>2. s # t
    BY <2>1 DEF Appending, After
  <2>3. x = Spoiled \/ x.turn # t
    BY <2>1, <2>2 DEF EventNow
  <2>4. i # Len(L) + 1
    BY <1>1, <1>2, <1>4, <2>1, <2>3, QueueAppend
  <2>5. i \in DOMAIN L /\ log'[Thread(t)'][i] = L[i]
    BY <1>1, <1>2, <1>4, <2>1, <2>4, QueueAppend
  <2> QED
    BY <2>5 DEF Shown
<1> QED
  BY <1>1, <1>3, <1>4 DEF Grown

\* A step of t keeps the invariant if it keeps the queues and what is said of t.
LEMMA TurnStepInv ==
  ASSUME IInv, TypeOK', StepsLeft', NEW t \in Turns, \A th \in Threads : Grown(th),
         \A s \in Turns : s # t => turn'[s] = turn[s],
         turn'[t].thread = turn[t].thread, turn'[t].kind = turn[t].kind,
         QueueInv', OneAppend', OnFile(t)', Shown(t)'
  PROVE  IInv'
<1>1. \A s \in Turns : s # t => OnFile(s)'
  BY OnFileStays DEF IInv
<1>2. \A s \in Turns : s # t => Shown(s)'
  BY ShownStays DEF IInv
<1>3. Causality'
  BY CausalityStays
<1> QED
  BY <1>1, <1>2, <1>3 DEF IInv

\* A step of t that touches no history.
LEMMA BecomesInv ==
  ASSUME IInv, TypeOK', StepsLeft', NEW t \in Turns, NEW u, Becomes(t, u),
         turn[t].pc \notin Appending,
         u.thread = turn[t].thread, u.kind = turn[t].kind,
         OnFile(t)', Shown(t)'
  PROVE  IInv'
<1>1. /\ turn' = [turn EXCEPT ![t] = u] /\ turn'[t] = u
      /\ \A s \in Turns : s # t => turn'[s] = turn[s]
      /\ log' = log /\ queue' = queue
  BY DEF Becomes, IInv, TypeOK
<1>2. \A th \in Threads : Grown(th)
  BY <1>1 DEF Grown
<1>3. OneAppend'
  BY <1>1 DEF OneAppend, IInv
<1>4. QueueInv'
  <2> SUFFICES ASSUME NEW th \in Threads, NEW k \in DOMAIN queue[th]
               PROVE  Waits(th, k)'
    BY <1>1 DEF QueueInv
  <2>1. queue[th][k].by # t
    BY NotQueued DEF IInv
  <2>2. queue[th][k].by \in Turns
    BY LogTypes DEF IInv, TypeOK
  <2>3. Waits(th, k)
    BY DEF IInv, QueueInv
  <2> QED
    BY <1>1, <2>1, <2>2, <2>3, WaitsStays
<1> QED
  BY <1>1, <1>2, <1>3, <1>4, TurnStepInv

\* A step of t that requests the append of an event.
LEMMA RequestInv ==
  ASSUME IInv, TypeOK', StepsLeft', NEW t \in Turns, NEW u, NEW e \in Event,
         Log!Request(t, Thread(t), e), turn' = [turn EXCEPT ![t] = u],
         turn[t].pc \notin Appending, u.pc \in Appending,
         u.thread = turn[t].thread, u.kind = turn[t].kind,
         e = EventNow(t, Awaited(t))',
         OnFile(t)'
  PROVE  IInv'
<1> DEFINE q == queue[Thread(t)]
           r == [by |-> t, rec |-> e]
<1>1. /\ turn'[t] = u
      /\ \A s \in Turns : s # t => turn'[s] = turn[s]
      /\ log' = log
      /\ Thread(t) \in Threads
      /\ queue'[Thread(t)] = Append(q, r)
      /\ \A th \in Threads : th # Thread(t) => queue'[th] = queue[th]
  BY TurnTypes DEF Log!Request, Log!TypeOK, IInv, TypeOK
<1>2. q \in Seq(Entry) /\ r \in Entry
  BY <1>1, LogTypes DEF Entry, IInv, TypeOK
<1>3. /\ DOMAIN Append(q, r) = 1 .. Len(q) + 1 /\ DOMAIN q = 1 .. Len(q) /\ Len(q) \in Nat
      /\ Append(q, r)[Len(q) + 1] = r
      /\ \A k \in DOMAIN q : Append(q, r)[k] = q[k]
  BY <1>2, QueueAppend
<1>4. \A th \in Threads : Grown(th)
  BY <1>1 DEF Grown
<1>5. \A th \in Threads : \A k \in DOMAIN queue[th] : queue[th][k].by # t
  BY NotQueued DEF IInv
<1>6. OneAppend'
  <2> SUFFICES ASSUME NEW th \in Threads, NEW i \in DOMAIN queue'[th],
                      NEW k \in DOMAIN queue'[th], queue'[th][i].by = queue'[th][k].by
               PROVE  i = k
    BY DEF OneAppend
  <2>1. CASE th # Thread(t)
    BY <1>1, <2>1 DEF IInv, OneAppend
  <2>2. CASE th = Thread(t)
    <3>1. r.by = t
      OBVIOUS
    <3>2. CASE i \in DOMAIN q /\ k \in DOMAIN q
      BY <1>1, <1>3, <2>2, <3>2 DEF IInv, OneAppend
    <3>3. CASE i = Len(q) + 1 \/ k = Len(q) + 1
      BY <1>1, <1>3, <1>5, <2>2, <3>1, <3>3
    <3> QED
      BY <1>1, <1>3, <2>2, <3>2, <3>3
  <2> QED
    BY <2>1, <2>2
<1>7. QueueInv'
  <2> SUFFICES ASSUME NEW th \in Threads, NEW k \in DOMAIN queue'[th]
               PROVE  Waits(th, k)'
    BY DEF QueueInv
  <2>1. CASE th = Thread(t) /\ k = Len(q) + 1
    <3>1. queue'[th][k] = r
      BY <1>1, <1>3, <2>1
    <3>2. queue'[th][k].by = t /\ queue'[th][k].rec = e
      BY <3>1
    <3>3. Thread(t)' = th /\ turn'[t].pc \in Appending /\ e = EventNow(t, Awaited(t))'
      BY <1>1, <2>1 DEF Thread
    <3> QED
      BY <3>2, <3>3 DEF Waits, Thread, EventNow, Awaited, OpeningType
  <2>2. CASE ~(th = Thread(t) /\ k = Len(q) + 1)
    <3>1. k \in DOMAIN queue[th] /\ queue'[th][k] = queue[th][k]
      BY <1>1, <1>3, <2>2
    <3>2. queue[th][k].by \in Turns /\ queue[th][k].by # t
      BY <1>5, <3>1, LogTypes DEF IInv, TypeOK
    <3>3. Waits(th, k)
      BY <3>1 DEF IInv, QueueInv
    <3> QED
      BY <1>1, <3>1, <3>2, <3>3, WaitsStays
  <2> QED
    BY <2>1, <2>2
<1>8. Shown(t)'
  BY <1>1 DEF Shown, Appending, After
<1> QED
  BY <1>1, <1>4, <1>6, <1>7, <1>8, TurnStepInv

\* A step of t in which its append leaves the queue.
LEMMA LeaveInv ==
  ASSUME IInv, TypeOK', StepsLeft', NEW t \in Turns, NEW u, NEW i \in DOMAIN queue[Thread(t)],
         queue[Thread(t)][i].by = t,
         \A k \in DOMAIN queue'[Thread(t)] :
           /\ From(i, k) \in DOMAIN queue[Thread(t)]
           /\ From(i, k) # i
           /\ queue'[Thread(t)][k] = queue[Thread(t)][From(i, k)],
         \A j, k \in DOMAIN queue'[Thread(t)] : From(i, j) = From(i, k) => j = k,
         \A th \in Threads : th # Thread(t) => queue'[th] = queue[th],
         \A th \in Threads : Grown(th),
         turn' = [turn EXCEPT ![t] = u],
         u.thread = turn[t].thread, u.kind = turn[t].kind,
         u.pc \notin {"compacting", "deciding"},
         OnFile(t)'
  PROVE  IInv'
<1> DEFINE q == queue[Thread(t)]
<1>1. /\ turn'[t] = u
      /\ \A s \in Turns : s # t => turn'[s] = turn[s]
      /\ Thread(t) \in Threads
  BY TurnTypes DEF IInv, TypeOK
<1>2. \A j, k \in DOMAIN q : q[j].by = q[k].by => j = k
  BY <1>1 DEF IInv, OneAppend
<1>3. \A th \in Threads : \A k \in DOMAIN queue'[th] :
        \E j \in DOMAIN queue[th] : queue'[th][k] = queue[th][j] /\ queue[th][j].by # t
  <2> SUFFICES ASSUME NEW th \in Threads, NEW k \in DOMAIN queue'[th]
               PROVE  \E j \in DOMAIN queue[th] :
                        queue'[th][k] = queue[th][j] /\ queue[th][j].by # t
    OBVIOUS
  <2>1. CASE th = Thread(t)
    BY <1>2, <2>1
  <2>2. CASE th # Thread(t)
    BY <2>2 DEF IInv, QueueInv, Waits
  <2> QED
    BY <2>1, <2>2
<1>4. OneAppend'
  <2> SUFFICES ASSUME NEW th \in Threads, NEW j \in DOMAIN queue'[th],
                      NEW k \in DOMAIN queue'[th], queue'[th][j].by = queue'[th][k].by
               PROVE  j = k
    BY DEF OneAppend
  <2>1. CASE th = Thread(t)
    <3>1. /\ From(i, j) \in DOMAIN q /\ queue'[th][j] = q[From(i, j)]
          /\ From(i, k) \in DOMAIN q /\ queue'[th][k] = q[From(i, k)]
      BY <2>1
    <3>2. From(i, j) = From(i, k)
      BY <1>2, <3>1
    <3> QED
      BY <2>1, <3>2
  <2>2. CASE th # Thread(t)
    BY <2>2 DEF IInv, OneAppend
  <2> QED
    BY <2>1, <2>2
<1>5. QueueInv'
  <2> SUFFICES ASSUME NEW th \in Threads, NEW k \in DOMAIN queue'[th]
               PROVE  Waits(th, k)'
    BY DEF QueueInv
  <2>1. PICK j \in DOMAIN queue[th] : queue'[th][k] = queue[th][j] /\ queue[th][j].by # t
    BY <1>3
  <2>2. queue[th][j].by \in Turns
    BY LogTypes DEF IInv, TypeOK
  <2>3. Waits(th, j)
    BY DEF IInv, QueueInv
  <2> QED
    BY <1>1, <2>1, <2>2, <2>3, WaitsStays
<1>6. Shown(t)'
  BY <1>1 DEF Shown
<1> QED
  BY <1>1, <1>4, <1>5, <1>6, TurnStepInv

\* An append that completes leaves the queue, and what was awaited is on file.
LEMMA CommitInv ==
  ASSUME IInv, TypeOK', StepsLeft', NEW t \in Turns, NEW u,
         Log!Commit(t, Thread(t)), turn' = [turn EXCEPT ![t] = u],
         u.thread = turn[t].thread, u.kind = turn[t].kind,
         u.pc \notin {"compacting", "deciding"},
         OnFile(t)'
  PROVE  IInv'
<1> DEFINE q == queue[Thread(t)]
<1>1. Thread(t) \in Threads /\ q \in Seq(Entry) /\ q # <<>>
  BY TurnTypes, LogTypes DEF IInv, TypeOK, Log!Commit
<1>2. 1 \in DOMAIN q /\ q[1].by = t
  BY <1>1, NextLineType DEF IInv, TypeOK, Log!Commit
<1>3. /\ queue'[Thread(t)] = Tail(q)
      /\ \A th \in Threads : th # Thread(t) => queue'[th] = queue[th]
  BY <1>1 DEF Log!Commit, Log!TypeOK, IInv, TypeOK
<1>4. \A k \in DOMAIN Tail(q) :
        k \in Nat /\ k >= 1 /\ k + 1 \in DOMAIN q /\ Tail(q)[k] = q[k + 1]
  BY <1>1
<1>5. \A k \in DOMAIN Tail(q) : From(1, k) = k + 1
  BY <1>4 DEF From
<1>6. \A k \in DOMAIN Tail(q) :
        From(1, k) \in DOMAIN q /\ From(1, k) # 1 /\ Tail(q)[k] = q[From(1, k)]
  BY <1>4, <1>5
<1>7. \A j, k \in DOMAIN Tail(q) : From(1, j) = From(1, k) => j = k
  BY <1>4, <1>5
<1>8. \A th \in Threads : Grown(th)
  BY <1>1 DEF Log!Commit, Log!TypeOK, IInv, TypeOK, Grown
<1>9. /\ \A k \in DOMAIN queue'[Thread(t)] :
           /\ From(1, k) \in DOMAIN queue[Thread(t)]
           /\ From(1, k) # 1
           /\ queue'[Thread(t)][k] = queue[Thread(t)][From(1, k)]
      /\ \A j, k \in DOMAIN queue'[Thread(t)] : From(1, j) = From(1, k) => j = k
  BY <1>3, <1>6, <1>7
<1> QED
  BY <1>2, <1>3, <1>8, <1>9, LeaveInv

\* An append that is given up leaves the queue.
LEMMA AbortInv ==
  ASSUME IInv, TypeOK', StepsLeft', NEW t \in Turns, NEW u,
         Log!Abort(t, Thread(t)), turn' = [turn EXCEPT ![t] = u],
         u.thread = turn[t].thread, u.kind = turn[t].kind,
         u.pc \notin {"compacting", "deciding"},
         OnFile(t)'
  PROVE  IInv'
<1> DEFINE q == queue[Thread(t)]
<1>1. Thread(t) \in Threads /\ q \in Seq(Entry)
  BY TurnTypes, LogTypes DEF IInv, TypeOK
<1>2. PICK i \in DOMAIN q :
        /\ q[i].by = t
        /\ queue' = [queue EXCEPT ![Thread(t)] = RemoveAt(@, i)]
        /\ log' = log
  BY DEF Log!Abort, RemoveAt, Log!RemoveAt
<1>3. /\ queue'[Thread(t)] = RemoveAt(q, i)
      /\ \A th \in Threads : th # Thread(t) => queue'[th] = queue[th]
  BY <1>1, <1>2 DEF Log!TypeOK, IInv, TypeOK
<1>4. \A th \in Threads : Grown(th)
  BY <1>2 DEF Grown
<1>5. /\ \A k \in DOMAIN RemoveAt(q, i) :
           From(i, k) \in DOMAIN q /\ From(i, k) # i /\ RemoveAt(q, i)[k] = q[From(i, k)]
      /\ \A j, k \in DOMAIN RemoveAt(q, i) : From(i, j) = From(i, k) => j = k
  BY <1>1, RemoveAtFrom
<1>6. /\ \A k \in DOMAIN queue'[Thread(t)] :
           /\ From(i, k) \in DOMAIN queue[Thread(t)]
           /\ From(i, k) # i
           /\ queue'[Thread(t)][k] = queue[Thread(t)][From(i, k)]
      /\ \A j, k \in DOMAIN queue'[Thread(t)] : From(i, j) = From(i, k) => j = k
  BY <1>3, <1>5
<1> QED
  BY <1>2, <1>3, <1>4, <1>6, LeaveInv

LEMMA CrashInv ==
  ASSUME IInv, TypeOK', StepsLeft', Crash
  PROVE  IInv'
<1>1. \A th \in Threads : queue'[th] = <<>> /\ Grown(th)
  BY CrashEffect DEF Crash, IInv, TypeOK, Grown
<1>2. QueueInv' /\ OneAppend'
  BY <1>1 DEF QueueInv, OneAppend
<1>3. \A t \in Turns :
        /\ turn'[t].kind = turn[t].kind /\ turn'[t].thread = turn[t].thread
        /\ turn'[t].pc \in Ended \/ (turn[t].pc = "idle" /\ turn'[t] = turn[t])
  <2>1. \A t \in Turns :
          /\ Over(turn[t], "dead").pc = "dead"
          /\ Over(turn[t], "dead").kind = turn[t].kind
          /\ Over(turn[t], "dead").thread = turn[t].thread
    BY TurnTypes, OverFacts DEF IInv, Ended
  <2>2. \A t \in Turns :
          turn'[t] = IF Active(t) THEN Over(turn[t], "dead") ELSE turn[t]
    BY DEF Crash
  <2> QED
    BY <2>1, <2>2 DEF Active, Ended
<1>4. ASSUME NEW t \in Turns
      PROVE  OnFile(t)'
  <2>1. CASE turn'[t].pc \in Ended
    BY <2>1 DEF OnFile, Ended, Called, Progressed
  <2>2. CASE turn'[t] = turn[t]
    BY <1>1, <2>2, OnFileStays DEF IInv
  <2> QED
    BY <1>3, <2>1, <2>2
<1>5. \A t \in Turns : Shown(t)'
  BY <1>3 DEF Shown, Ended
<1>6. Causality'
  BY <1>1, <1>3, CausalityStays
<1> QED
  BY <1>2, <1>4, <1>5, <1>6 DEF IInv

LEMMA InitInv == Init => IInv
<1> SUFFICES ASSUME Init
             PROVE  IInv
  OBVIOUS
<1>1. \A th \in Threads : log[th] = <<>> /\ queue[th] = <<>>
  BY DEF Init, Log!Init
<1>2. QueueInv /\ OneAppend /\ Causality
  BY <1>1 DEF QueueInv, OneAppend, Causality
<1>3. \A t \in Turns : turn[t].pc = "idle" /\ turn[t].steps = 0 /\ turn[t].pos = 0
  BY DEF Init
<1>4. \A t \in Turns : OnFile(t) /\ Shown(t)
  BY <1>3 DEF OnFile, Shown, Called, Progressed
<1> QED
  BY <1>2, <1>4, InitType DEF IInv

\* A turn may go on to a stage that needs nothing more on file than the one before.
LEMMA GoesOn ==
  ASSUME TypeOK, NEW t \in Turns, OnFile(t), \A th \in Threads : Grown(th),
         turn'[t].thread = turn[t].thread, turn'[t].kind = turn[t].kind,
         turn'[t].pc \in {"idle", "opening"} =>
           turn[t].pc \in {"idle", "opening"}
           /\ turn'[t].steps = turn[t].steps /\ turn'[t].pos = turn[t].pos,
         turn'[t].pc \notin {"idle", "opening"} \cup Ended =>
           turn[t].pc \notin {"idle", "opening"} \cup Ended,
         Called(t)' =>
           Called(t) /\ turn'[t].steps = turn[t].steps /\ turn'[t].pos = turn[t].pos,
         Progressed(t)' =>
           Progressed(t) /\ turn'[t].steps = turn[t].steps /\ turn'[t].pos = turn[t].pos,
         turn'[t].pc = "routing" => turn'[t].plan[turn'[t].pos] # "call"
  PROVE  OnFile(t)'
<1>1. Thread(t) \in Threads /\ Thread(t)' = Thread(t) /\ OpeningType(t)' = OpeningType(t)
  BY TurnTypes DEF Thread, OpeningType
<1>2. \A e : Has(Thread(t), e) => Holds(log'[Thread(t)'], e)
  BY <1>1, HasStays
<1>3. Called(t)' =>
        Called(t) /\ EventNow(t, "assistant_tool_call")' = EventNow(t, "assistant_tool_call")
  BY DEF EventNow
<1>4. Progressed(t)' =>
        Progressed(t) /\ EventNow(t, "tool_progress")' = EventNow(t, "tool_progress")
  BY DEF EventNow
<1> QED
  BY <1>1, <1>2, <1>3, <1>4 DEF OnFile, Has

\* The event that was awaited, or the line it was spoiled in, is on file at last.
LEMMA AppendedOnFile ==
  ASSUME IInv, NEW t \in Turns, turn[t].pc \in Appending, Log!Commit(t, Thread(t))
  PROVE  Holds(log'[Thread(t)], EventNow(t, Awaited(t)))
<1>1. Thread(t) \in Threads /\ queue[Thread(t)] # <<>> /\ Head(queue[Thread(t)]).by = t
  BY TurnTypes DEF Log!Commit, IInv
<1>2. Log!NextLine(Thread(t)) \in {Spoiled, EventNow(t, Awaited(t))} \cap FileLine
  BY <1>1, NextLineOwner DEF IInv
<1>3. log[Thread(t)] \in Seq(FileLine)
  BY <1>1, LogTypes DEF IInv, TypeOK
<1>4. log'[Thread(t)] = Append(log[Thread(t)], Log!NextLine(Thread(t)))
  BY <1>1 DEF Log!Commit, Log!TypeOK, IInv, TypeOK
<1> QED
  BY <1>2, <1>3, <1>4, HoldsStays

LEMMA AppendedInv ==
  ASSUME IInv, TypeOK', StepsLeft', NEW t \in Turns, Appended(t)
  PROVE  IInv'
<1> DEFINE p == IF turn[t].pc \in {"recording", "replying"} THEN turn[t].pos + 1
                                                           ELSE turn[t].pos
           u == [turn[t] EXCEPT !.pc = After[turn[t].pc], !.pos = p]
<1>1. turn[t] \in Turn /\ turn[t].pc \in Appending /\ Log!Commit(t, Thread(t))
  BY TurnTypes DEF Appended, IInv
<1>2. /\ turn' = [turn EXCEPT ![t] = u] /\ turn'[t] = u
      /\ u.thread = turn[t].thread /\ u.kind = turn[t].kind
      /\ u.pc = After[turn[t].pc] /\ u.steps = turn[t].steps /\ u.plan = turn[t].plan
      /\ u.pos = p
  BY <1>1 DEF Appended, IInv, TypeOK, Turn
<1>3. \A th \in Threads : Grown(th)
  BY <1>1 DEF Log!Commit, Log!TypeOK, IInv, TypeOK, Grown
<1>4. /\ Thread(t) \in Threads /\ Thread(t)' = Thread(t)
      /\ OpeningType(t)' = OpeningType(t)
  BY <1>2, TurnTypes DEF Thread, OpeningType, IInv
<1>5. \A e : Has(Thread(t), e) => Holds(log'[Thread(t)'], e)
  BY <1>3, <1>4, HasStays DEF IInv
<1>6. OnFile(t) /\ Holds(log'[Thread(t)'], EventNow(t, Awaited(t)))
  BY <1>1, <1>4, AppendedOnFile DEF IInv
<1> HIDE DEF u
<1>7. OnFile(t)'
  <2>1. CASE turn[t].pc = "opening"
    <3>1. EventNow(t, Awaited(t)) =
            [type |-> OpeningType(t), turn |-> t, step |-> 0, pos |-> 0]
      BY <1>6, <2>1 DEF EventNow, Awaited, OnFile
    <3>2. turn'[t].pc = "context"
      BY <1>2, <2>1 DEF After
    <3> QED
      BY <1>4, <1>6, <3>1, <3>2 DEF OnFile, Has, Called, Progressed
  <2>2. CASE turn[t].pc = "calling"
    <3>1. EventNow(t, Awaited(t)) = EventNow(t, "assistant_tool_call")
      BY <2>2 DEF Awaited
    <3>2. EventNow(t, "assistant_tool_call")' = EventNow(t, "assistant_tool_call")
      BY <1>2, <2>2 DEF EventNow
    <3>3. turn'[t].pc = "running"
      BY <1>2, <2>2 DEF After
    <3> QED
      BY <1>4, <1>5, <1>6, <2>2, <3>1, <3>2, <3>3 DEF OnFile, Has, Progressed, Ended
  <2>3. CASE turn[t].pc = "progressing"
    <3>1. EventNow(t, Awaited(t)) = EventNow(t, "tool_progress") /\ Called(t)
      BY <2>3 DEF Awaited, Called
    <3>2. /\ EventNow(t, "assistant_tool_call")' = EventNow(t, "assistant_tool_call")
          /\ EventNow(t, "tool_progress")' = EventNow(t, "tool_progress")
      BY <1>2, <2>3 DEF EventNow
    <3>3. turn'[t].pc = "summarising"
      BY <1>2, <2>3 DEF After
    <3> QED
      BY <1>4, <1>5, <1>6, <2>3, <3>1, <3>2, <3>3 DEF OnFile, Has, Ended
  <2>4. CASE turn[t].pc = "noting"
    <3>1. turn'[t].pc = "running" /\ turn'[t].pos = turn[t].pos
      BY <1>2, <2>4 DEF After
    <3>2. Called(t) /\ ~Progressed(t)'
      BY <2>4, <3>1 DEF Called, Progressed
    <3> QED
      BY <1>2, <1>3, <2>4, <3>1, <3>2, <1>6, GoesOn DEF IInv, Ended
  <2>5. CASE turn[t].pc \in {"recording", "replying"}
    <3>1. turn'[t].pc = "acting"
      BY <1>2, <2>5 DEF After
    <3>2. ~Called(t)' /\ ~Progressed(t)'
      BY <3>1 DEF Called, Progressed
    <3> QED
      BY <1>2, <1>3, <2>5, <3>1, <3>2, <1>6, GoesOn DEF IInv, Ended
  <2> QED
    BY <1>1, <2>1, <2>2, <2>3, <2>4, <2>5 DEF Appending, After
<1>8. u.pc \notin {"compacting", "deciding"}
  BY <1>1, <1>2 DEF Appending, After
<1> QED
  BY <1>1, <1>2, <1>7, <1>8, CommitInv

\* A step without logging, to a stage that needs nothing more on file.
LEMMA BecomesStep ==
  ASSUME IInv, TypeOK', StepsLeft', NEW t \in Turns, NEW u, Becomes(t, u),
         turn[t].pc \notin Appending \cup Ended \cup {"idle"},
         u.thread = turn[t].thread, u.kind = turn[t].kind,
         u.pc \notin {"idle", "opening"},
         u.pc \in {"compacting", "deciding"} =>
           \/ u.seen = Len(log[Thread(t)])
           \/ turn[t].pc \in {"compacting", "deciding"} /\ u.seen = turn[t].seen,
         Called(t)' => Called(t) /\ u.steps = turn[t].steps /\ u.pos = turn[t].pos,
         ~Progressed(t)',
         u.pc = "routing" => u.plan[u.pos] # "call"
  PROVE  IInv'
<1>1. turn'[t] = u /\ log' = log
  BY DEF Becomes, IInv, TypeOK
<1>2. \A th \in Threads : Grown(th)
  BY <1>1 DEF Grown
<1>3. turn[t].pc \notin {"idle", "opening"} \cup Ended
  BY DEF Appending, After
<1>4. OnFile(t)'
  BY <1>1, <1>2, <1>3, GoesOn DEF IInv
<1>5. Shown(t)'
  <2>1. CASE u.pc \notin {"compacting", "deciding"}
    BY <1>1, <2>1 DEF Shown
  <2>2. CASE u.pc \in {"compacting", "deciding"} /\ u.seen = Len(log[Thread(t)])
    <3>1. Thread(t) \in Threads /\ Thread(t)' = Thread(t)
      BY <1>1, TurnTypes DEF Thread, IInv
    <3>2. \A i \in DOMAIN log[Thread(t)] : i <= Len(log[Thread(t)])
      BY <3>1, LogTypes DEF IInv, TypeOK
    <3> QED
      BY <1>1, <2>2, <3>1, <3>2 DEF Shown
  <2>3. CASE turn[t].pc \in {"compacting", "deciding"} /\ u.seen = turn[t].seen
    BY <1>1, <1>2, <2>3, ShownStays DEF IInv
  <2> QED
    BY <2>1, <2>2, <2>3
<1> QED
  BY <1>4, <1>5, BecomesInv

\* A step that logs, and needs nothing more on file until it has.
LEMMA RequestStep ==
  ASSUME IInv, TypeOK', StepsLeft', NEW t \in Turns, NEW u, NEW type \in EventType,
         Log!Request(t, Thread(t), EventNow(t, type)), turn' = [turn EXCEPT ![t] = u],
         turn[t].pc \notin Appending \cup Ended, u.pc \in Appending,
         u.thread = turn[t].thread, u.kind = turn[t].kind,
         u.steps = turn[t].steps, u.pos = turn[t].pos,
         u.pc = "opening" <=> turn[t].pc = "idle",
         type = Awaited(t)',
         Called(t)' => Called(t), Progressed(t)' => Progressed(t)
  PROVE  IInv'
<1>1. turn'[t] = u /\ log' = log
  BY DEF Log!Request, IInv, TypeOK
<1>2. \A th \in Threads : Grown(th)
  BY <1>1 DEF Grown
<1>3. EventNow(t, type) \in Event
  BY TurnTypes DEF IInv
<1>4. EventNow(t, type) = EventNow(t, Awaited(t))'
  BY <1>1 DEF EventNow
<1>5. /\ u.pc \notin {"idle", "routing"} /\ turn[t].pc # "opening"
      /\ u.pc # "opening" => turn[t].pc \notin {"idle", "opening"} \cup Ended
  BY DEF Appending, After
<1>6. OnFile(t)'
  BY <1>1, <1>2, <1>5, GoesOn DEF IInv
<1> QED
  BY <1>3, <1>4, <1>6, RequestInv

\* Every step keeps the invariant.
LEMMA InvStep ==
  ASSUME IInv, [Next]_vars
  PROVE  IInv'
<1>1. TypeOK' /\ StepsLeft'
  BY TypeStep DEF IInv
<1>2. ASSUME NEW t \in Turns
      PROVE  /\ turn[t] \in Turn
             /\ TypeOK
  BY TurnTypes DEF IInv
<1> USE DEF Appending, After, Ended, Called, Progressed
<1>3. ASSUME NEW t \in Turns, Start(t)
      PROVE  IInv'
  <2> DEFINE u == [turn[t] EXCEPT !.pc = "opening"]
             type == IF turn[t].kind = "timer" THEN "system_event" ELSE "user_message"
  <2>1. /\ turn' = [turn EXCEPT ![t] = u] /\ turn'[t] = u
        /\ u.pc = "opening" /\ u.thread = turn[t].thread /\ u.kind = turn[t].kind
        /\ u.steps = turn[t].steps /\ u.pos = turn[t].pos
    BY <1>2, <1>3 DEF Start, Logs, TypeOK, Turn
  <2>2. type \in EventType /\ type = Awaited(t)'
    BY <2>1 DEF EventType, Awaited, OpeningType
  <2>3. Log!Request(t, Thread(t), EventNow(t, type)) /\ turn[t].pc = "idle"
    BY <1>3 DEF Start, Logs
  <2>4. ~Called(t)' /\ ~Progressed(t)'
    BY <2>1
  <2> HIDE DEF u, type
  <2> QED
    BY <1>1, <2>1, <2>2, <2>3, <2>4, RequestStep
<1>4. ASSUME NEW t \in Turns, Appended(t)
      PROVE  IInv'
  BY <1>1, <1>4, AppendedInv
<1>5. ASSUME NEW t \in Turns, AppendRaises(t)
      PROVE  IInv'
  <2> DEFINE u == IF turn[t].pc \in Catching THEN Caught(turn[t])
                                              ELSE Over(turn[t], "failed")
  <2>6. /\ Over(turn[t], "failed").pc = "failed"
        /\ Over(turn[t], "failed").thread = turn[t].thread
        /\ Over(turn[t], "failed").kind = turn[t].kind
        /\ Over(turn[t], "failed").steps = turn[t].steps
        /\ Over(turn[t], "failed").pos = turn[t].pos
    BY <1>2, OverFacts
  <2>7. turn' = [turn EXCEPT ![t] = u]
    BY <1>2, <1>5 DEF AppendRaises
  <2>1. /\ turn' = [turn EXCEPT ![t] = u] /\ turn'[t] = u
        /\ u.pc = (IF turn[t].pc \in Catching THEN "returned" ELSE "failed")
        /\ u.thread = turn[t].thread /\ u.kind = turn[t].kind
        /\ u.steps = turn[t].steps /\ u.pos = turn[t].pos
        /\ turn[t].pc \in Catching => u.plan = turn[t].plan
    <3>1. turn'[t] = u
      BY <1>2, <2>7 DEF TypeOK
    <3>2. CASE turn[t].pc \in Catching
      BY <1>2, <2>7, <3>1, <3>2 DEF Turn, Caught
    <3>3. CASE turn[t].pc \notin Catching
      BY <2>6, <2>7, <3>1, <3>3
    <3> QED
      BY <3>2, <3>3
  <2> HIDE DEF u
  <2>2. \A th \in Threads : Grown(th)
    BY <1>2, <1>5 DEF AppendRaises, Grown, Log!Commit, Log!Abort, Log!TypeOK, TypeOK
  <2>3. OnFile(t)'
    <3>1. Called(t)' => Called(t)
      BY <2>1 DEF Catching
    <3>2. ~Progressed(t)'
      BY <2>1
    <3> QED
      BY <1>2, <2>1, <2>2, <3>1, <3>2, GoesOn DEF IInv, Catching
  <2> QED
    BY <1>1, <1>5, <2>1, <2>3, CommitInv, AbortInv DEF AppendRaises
<1>6. ASSUME NEW t \in Turns, BuildContext(t)
      PROVE  IInv'
  <2>1. PICK pc \in {"compacting", "deciding"} :
          Becomes(t, [turn[t] EXCEPT !.pc = pc, !.seen = EventsRead(Thread(t)),
                                     !.memory = snapshot[Thread(t)]])
    BY <1>6 DEF BuildContext
  <2> DEFINE u == [turn[t] EXCEPT !.pc = pc, !.seen = EventsRead(Thread(t)),
                                  !.memory = snapshot[Thread(t)]]
  <2>2. /\ u.pc = pc /\ u.thread = turn[t].thread /\ u.kind = turn[t].kind
        /\ u.seen = Len(log[Thread(t)]) /\ turn'[t] = u
    BY <1>2, <2>1 DEF Turn, TypeOK, EventsRead, Becomes
  <2>3. turn[t].pc = "context"
    BY <1>6 DEF BuildContext
  <2> QED
    BY <1>1, <2>1, <2>2, <2>3, BecomesStep
<1>7. ASSUME NEW t \in Turns, NEW pc, Becomes(t, [turn[t] EXCEPT !.pc = pc]),
             \/ turn[t].pc \in {"context", "compacting", "deciding", "acting"}
             \/ turn[t].pc \in {"running", "routing", "summarising"},
             \/ pc \in {"failed", "done", "context"}
             \/ pc = "running" /\ turn[t].pc = "summarising"
             \/ pc = "returned" /\ turn[t].pc \in {"running", "routing", "summarising"}
             \/ pc = "routing" /\ turn[t].plan[turn[t].pos] = "other"
             \/ pc = "deciding" /\ turn[t].pc = "compacting"
      PROVE  IInv'
  <2> DEFINE u == [turn[t] EXCEPT !.pc = pc]
  <2>1. /\ u.pc = pc /\ u.thread = turn[t].thread /\ u.kind = turn[t].kind
        /\ u.seen = turn[t].seen /\ u.steps = turn[t].steps /\ u.pos = turn[t].pos
        /\ u.plan = turn[t].plan /\ turn'[t] = u
    BY <1>2, <1>7 DEF Turn, TypeOK, Becomes
  <2>2. turn[t].pc = "routing" => turn[t].plan[turn[t].pos] # "call"
    BY DEF IInv, OnFile
  <2>3. /\ Called(t)' => Called(t)
        /\ ~Progressed(t)'
    BY <1>7, <2>1, <2>2
  <2>4. Becomes(t, u)
    BY <1>7
  <2>5. /\ u.pc \notin {"idle", "opening"}
        /\ turn[t].pc \notin Appending \cup Ended \cup {"idle"}
        /\ u.pc \in {"compacting", "deciding"} => turn[t].pc \in {"compacting", "deciding"}
        /\ u.pc = "routing" => u.plan[u.pos] # "call"
    BY <1>7, <2>1
  <2> HIDE DEF u
  <2> QED
    BY <1>1, <2>1, <2>3, <2>4, <2>5, BecomesStep
<1>8. ASSUME NEW t \in Turns, Decide(t)
      PROVE  IInv'
  <2>1. PICK plan \in Decisions[t] :
          Becomes(t, [turn[t] EXCEPT !.pc = "acting", !.steps = @ + 1, !.plan = plan,
                                     !.pos = 1, !.final = 0, !.seen = 0, !.memory = {}])
    BY <1>8 DEF Decide
  <2> DEFINE u == [turn[t] EXCEPT !.pc = "acting", !.steps = @ + 1, !.plan = plan,
                                  !.pos = 1, !.final = 0, !.seen = 0, !.memory = {}]
  <2>2. /\ u.pc = "acting" /\ u.thread = turn[t].thread /\ u.kind = turn[t].kind
        /\ turn'[t] = u
    BY <1>2, <2>1 DEF Turn, TypeOK, Becomes
  <2>3. turn[t].pc = "deciding"
    BY <1>8 DEF Decide
  <2> QED
    BY <1>1, <2>1, <2>2, <2>3, BecomesStep
<1>20. ASSUME NEW t \in Turns, NEW w \in Turn, NEW pc \in {"failed", "done"},
              w.thread = turn[t].thread, w.kind = turn[t].kind, Becomes(t, Over(w, pc)),
              turn[t].pc \in {"context", "compacting", "deciding", "acting"}
       PROVE  IInv'
  <2>1. pc \in Ended
    OBVIOUS
  <2> DEFINE u == Over(w, pc)
  <2>2. /\ u.pc = pc /\ u.thread = turn[t].thread /\ u.kind = turn[t].kind
    BY <1>20, <2>1, OverFacts
  <2> HIDE DEF u
  <2>3. Becomes(t, u)
    BY <1>20 DEF u
  <2>4. turn'[t] = u
    BY <1>2, <2>3 DEF Becomes, TypeOK
  <2> QED
    BY <1>1, <1>20, <2>2, <2>3, <2>4, BecomesStep
<1>9. ASSUME NEW t \in Turns, NoDecision(t)
      PROVE  IInv'
  <2> DEFINE w == [turn[t] EXCEPT !.final = 0]
  <2>1. w \in Turn /\ w.thread = turn[t].thread /\ w.kind = turn[t].kind
    BY <1>2 DEF Turn
  <2>2. Becomes(t, Over(w, "done")) /\ turn[t].pc = "deciding"
    BY <1>9 DEF NoDecision
  <2> HIDE DEF w
  <2> QED
    BY <1>20, <2>1, <2>2
<1>10. ASSUME NEW t \in Turns, NEW u, NEW type \in EventType,
              Log!Request(t, Thread(t), EventNow(t, type)), turn' = [turn EXCEPT ![t] = u],
              turn[t].pc \in {"acting", "running", "summarising", "returned"},
              u.thread = turn[t].thread, u.kind = turn[t].kind, u.plan = turn[t].plan,
              u.steps = turn[t].steps, u.pos = turn[t].pos,
              \/ u.pc = "calling" /\ type = "assistant_tool_call"
              \/ u.pc = "replying" /\ type = "assistant_message"
              \/ u.pc = "progressing" /\ type = "tool_progress" /\ turn[t].pc = "running"
              \/ u.pc = "noting" /\ type = "assistant_progress" /\ turn[t].pc = "summarising"
              \/ /\ u.pc = "recording" /\ turn[t].pc = "returned"
                 /\ type = IF u.plan[u.pos] = "call" THEN "tool_result" ELSE "action_result"
       PROVE  IInv'
  <2>1. turn'[t] = u
    BY <1>2, <1>10 DEF TypeOK
  <2>2. type = Awaited(t)'
    BY <1>10, <2>1 DEF Awaited
  <2>3. (Called(t)' => Called(t)) /\ (Progressed(t)' => Progressed(t))
    BY <1>10, <2>1
  <2> QED
    BY <1>1, <1>10, <2>1, <2>2, <2>3, RequestStep
<1>11. ASSUME NEW t \in Turns, CallFunction(t)
       PROVE  IInv'
  <2> DEFINE u == [turn[t] EXCEPT !.pc = "calling"]
  <2>1. /\ u.pc = "calling" /\ u.thread = turn[t].thread /\ u.kind = turn[t].kind
        /\ u.steps = turn[t].steps /\ u.pos = turn[t].pos /\ u.plan = turn[t].plan
        /\ turn' = [turn EXCEPT ![t] = u]
    BY <1>2, <1>11 DEF Turn, TypeOK, CallFunction, Logs
  <2> QED
    BY <1>10, <1>11, <2>1 DEF CallFunction, Acts, Logs, EventType
<1>12. ASSUME NEW t \in Turns, Respond(t)
       PROVE  IInv'
  <2> DEFINE u == [turn[t] EXCEPT !.pc = "replying", !.final = FinalText(turn[t])]
  <2>1. /\ u.pc = "replying" /\ u.thread = turn[t].thread /\ u.kind = turn[t].kind
        /\ u.steps = turn[t].steps /\ u.pos = turn[t].pos /\ u.plan = turn[t].plan
        /\ turn' = [turn EXCEPT ![t] = u]
    BY <1>2, <1>12 DEF Turn, TypeOK, Respond
  <2> QED
    BY <1>10, <1>12, <2>1 DEF Respond, Acts, EventType
<1>13. ASSUME NEW t \in Turns, ToolProgress(t)
       PROVE  IInv'
  <2> DEFINE u == [turn[t] EXCEPT !.pc = "progressing", !.ticks = @ + 1]
  <2>1. /\ u.pc = "progressing" /\ u.thread = turn[t].thread /\ u.kind = turn[t].kind
        /\ u.steps = turn[t].steps /\ u.pos = turn[t].pos /\ u.plan = turn[t].plan
        /\ turn' = [turn EXCEPT ![t] = u]
    BY <1>2, <1>13 DEF Turn, TypeOK, ToolProgress
  <2> QED
    BY <1>10, <1>13, <2>1 DEF ToolProgress, EventType
<1>14. ASSUME NEW t \in Turns, Summarised(t)
       PROVE  IInv'
  <2> DEFINE u == [turn[t] EXCEPT !.pc = "noting"]
  <2>1. CASE Logs(t, "assistant_progress", "noting")
    <3>1. /\ u.pc = "noting" /\ u.thread = turn[t].thread /\ u.kind = turn[t].kind
          /\ u.steps = turn[t].steps /\ u.pos = turn[t].pos /\ u.plan = turn[t].plan
          /\ turn' = [turn EXCEPT ![t] = u]
      BY <1>2, <2>1 DEF Turn, TypeOK, Logs
    <3> QED
      BY <1>10, <1>14, <2>1, <3>1 DEF Summarised, Logs, EventType
  <2>2. CASE Becomes(t, [turn[t] EXCEPT !.pc = "running"])
    BY <1>7, <1>14, <2>2 DEF Summarised
  <2> QED
    BY <1>14, <2>1, <2>2 DEF Summarised
<1>15. ASSUME NEW t \in Turns, RecordResult(t)
       PROVE  IInv'
  <2> DEFINE u == [turn[t] EXCEPT !.pc = "recording"]
  <2>1. /\ u.pc = "recording" /\ u.thread = turn[t].thread /\ u.kind = turn[t].kind
        /\ u.steps = turn[t].steps /\ u.pos = turn[t].pos /\ u.plan = turn[t].plan
        /\ turn' = [turn EXCEPT ![t] = u]
    BY <1>2, <1>15 DEF Turn, TypeOK, RecordResult, Logs
  <2> DEFINE type == IF u.plan[u.pos] = "call" THEN "tool_result" ELSE "action_result"
  <2>2. type \in EventType
    BY DEF EventType
  <2>3. Log!Request(t, Thread(t), EventNow(t, type)) /\ turn[t].pc = "returned"
    BY <1>15, <2>1 DEF RecordResult, Logs
  <2> HIDE DEF u
  <2> QED
    BY <1>10, <2>1, <2>2, <2>3
<1>16. ASSUME NEW t \in Turns, Cancel(t)
       PROVE  IInv'
  <2> DEFINE u == Over(turn[t], "cancelled")
  <2>5. u.pc = "cancelled" /\ u.thread = turn[t].thread /\ u.kind = turn[t].kind
    BY <1>2, OverFacts
  <2>6. turn' = [turn EXCEPT ![t] = u]
    BY <1>16 DEF Cancel
  <2> HIDE DEF u
  <2>1. /\ turn' = [turn EXCEPT ![t] = u] /\ turn'[t] = u /\ u.pc = "cancelled"
        /\ u.thread = turn[t].thread /\ u.kind = turn[t].kind
    BY <1>2, <2>5, <2>6 DEF TypeOK
  <2>2. OnFile(t)'
    BY <2>1 DEF OnFile
  <2>3. CASE turn[t].pc \in Appending
    BY <1>1, <1>16, <2>1, <2>2, <2>3, CommitInv, AbortInv DEF Cancel, GivenUp
  <2>4. CASE turn[t].pc \notin Appending
    <3>1. Becomes(t, u)
      BY <1>16, <2>1, <2>4 DEF Cancel, Becomes
    <3>2. Shown(t)'
      BY <2>1 DEF Shown
    <3> QED
      BY <1>1, <2>1, <2>2, <2>4, <3>1, <3>2, BecomesInv
  <2> QED
    BY <2>3, <2>4
<1>17. ASSUME NEW t \in Turns,
              Compacted(t) \/ Route(t) \/ ActionReturns(t) \/ SummaryRaises(t)
       PROVE  IInv'
  BY <1>7, <1>17 DEF Compacted, Route, Acts, ActionReturns, SummaryRaises, Caught
<1>21. ASSUME NEW t \in Turns, ContextRaises(t) \/ EngineRaises(t)
       PROVE  IInv'
  BY <1>2, <1>20, <1>21 DEF ContextRaises, EngineRaises
<1>22. ASSUME NEW t \in Turns, EndStep(t)
       PROVE  IInv'
  <2>1. turn[t].pc = "acting"
    BY <1>22 DEF EndStep
  <2>2. CASE Becomes(t, Over(turn[t], "done"))
    BY <1>2, <1>20, <2>1, <2>2
  <2>3. CASE Becomes(t, [turn[t] EXCEPT !.pc = "context"])
    BY <1>7, <2>1, <2>3
  <2> QED
    BY <1>22, <2>2, <2>3 DEF EndStep
<1>18. CASE Crash
  BY <1>1, <1>18, CrashInv
<1>19. CASE UNCHANGED vars
  <2>1. QueueInv' /\ OneAppend'
    BY <1>19, WaitsStays DEF vars, IInv, QueueInv, OneAppend
  <2>2. \A th \in Threads : Grown(th)
    BY <1>19 DEF vars, Grown
  <2>3. \A t \in Turns : OnFile(t)' /\ Shown(t)'
    BY <1>19, <2>2, OnFileStays, ShownStays DEF vars, IInv
  <2>4. Causality'
    BY <1>19, <2>2, CausalityStays DEF vars
  <2> QED
    BY <1>1, <2>1, <2>3, <2>4 DEF IInv
<1> QED
  BY <1>3, <1>4, <1>5, <1>6, <1>8, <1>9, <1>11, <1>12, <1>13, <1>14, <1>15, <1>16, <1>17,
     <1>18, <1>19, <1>21, <1>22 DEF Next, Proceed

LEMMA Invariance == Spec => []IInv
<1>1. Init => IInv
  BY InitInv
<1>2. IInv /\ [Next]_vars => IInv'
  BY InvStep
<1> QED
  BY <1>1, <1>2, PTL DEF Spec

\* However the turns of a thread interleave, fail, are cancelled or die, an event stands
\* in the history behind the event that caused it: a result behind its call, an action
\* behind the message that opened the turn.
THEOREM CausesComeFirst == Spec => []Causality
<1>1. IInv => Causality
  BY DEF IInv
<1> QED
  BY <1>1, Invariance, PTL

-----------------------------------------------------------------------------
(* Long-term memory.  A compaction saves what it read before the engine was  *)
(* awaited, so the invariant speaks of what every waiting compaction holds.  *)

Remembers(t) == turn[t].pc = "compacting" => settled[Thread(t)] \subseteq turn[t].memory

MemoryInv == MemoryIsKept /\ \A t \in Turns : Remembers(t)

\* A step of turn u, unless it builds the context: no compaction begins.
LEMMA NoneBegins ==
  ASSUME TypeOK, NEW u \in Turns, NEW v, v.pc # "compacting",
         turn' = [turn EXCEPT ![u] = v],
         NEW t \in Turns, turn'[t].pc = "compacting"
  PROVE  turn'[t] = turn[t]
BY DEF TypeOK

\* A compaction that waits after a step waited before, or has just read the snapshot.
LEMMA CompactionBegins ==
  ASSUME TypeOK, [Next]_vars, NEW t \in Turns, turn'[t].pc = "compacting"
  PROVE  /\ turn'[t].thread = turn[t].thread
         /\ \/ turn[t].pc = "compacting" /\ turn'[t].memory = turn[t].memory
            \/ turn'[t].memory = snapshot[Thread(t)] /\ snapshot' = snapshot
<1> DEFINE Same == turn'[t] = turn[t]
<1>1. ASSUME NEW u \in Turns, BuildContext(u)
      PROVE  \/ Same
             \/ /\ turn'[t].thread = turn[t].thread /\ snapshot' = snapshot
                /\ turn'[t].memory = snapshot[Thread(t)]
  <2>1. PICK pc \in {"compacting", "deciding"} :
          turn' = [turn EXCEPT ![u] = [turn[u] EXCEPT !.pc = pc,
                     !.seen = EventsRead(Thread(u)), !.memory = snapshot[Thread(u)]]]
    BY <1>1 DEF BuildContext, Becomes
  <2>2. CASE t = u
    BY <1>1, <2>1, <2>2, TurnTypes DEF TypeOK, BuildContext, Turn
  <2>3. CASE t # u
    BY <2>1, <2>3 DEF TypeOK
  <2> QED
    BY <2>2, <2>3
<1>2. ASSUME NEW u \in Turns, NEW type, NEW pc \in Appending, Logs(u, type, pc)
      PROVE  Same
  <2> DEFINE v == [turn[u] EXCEPT !.pc = pc]
  <2>1. v.pc # "compacting"
    BY TurnTypes DEF Turn, Appending, After
  <2>2. turn' = [turn EXCEPT ![u] = v]
    BY <1>2 DEF Logs
  <2> QED
    BY <2>1, <2>2, NoneBegins
<1>3. ASSUME NEW u \in Turns, Start(u) \/ CallFunction(u) \/ RecordResult(u)
      PROVE  Same
  BY <1>2, <1>3 DEF Start, CallFunction, RecordResult, Appending, After
<1>4. ASSUME NEW u \in Turns, NEW v, v.pc # "compacting", Becomes(u, v)
      PROVE  Same
  BY <1>4, NoneBegins DEF Becomes
<1>5. ASSUME NEW u \in Turns, ContextRaises(u) \/ EngineRaises(u)
      PROVE  Same
  <2>1. Over(turn[u], "failed").pc # "compacting"
    BY TurnTypes, OverFacts DEF Ended
  <2> QED
    BY <1>4, <1>5, <2>1 DEF ContextRaises, EngineRaises
<1>6. ASSUME NEW u \in Turns, Compacted(u) \/ Route(u) \/ ActionReturns(u) \/ SummaryRaises(u)
      PROVE  Same
  <2>1. \A pc \in {"deciding", "routing", "returned"} :
          [turn[u] EXCEPT !.pc = pc].pc # "compacting"
    BY TurnTypes DEF Turn
  <2> QED
    BY <1>4, <1>6, <2>1 DEF Compacted, Route, ActionReturns, SummaryRaises, Caught
<1>7. ASSUME NEW u \in Turns, Summarised(u)
      PROVE  Same
  <2>1. [turn[u] EXCEPT !.pc = "running"].pc # "compacting"
    BY TurnTypes DEF Turn
  <2> QED
    BY <1>2, <1>4, <1>7, <2>1 DEF Summarised, Appending, After
<1>8. ASSUME NEW u \in Turns, Decide(u)
      PROVE  Same
  <2>1. PICK plan \in Decisions[u] :
          Becomes(u, [turn[u] EXCEPT !.pc = "acting", !.steps = @ + 1, !.plan = plan,
                                     !.pos = 1, !.final = 0, !.seen = 0, !.memory = {}])
    BY <1>8 DEF Decide
  <2> DEFINE v == [turn[u] EXCEPT !.pc = "acting", !.steps = @ + 1, !.plan = plan,
                                  !.pos = 1, !.final = 0, !.seen = 0, !.memory = {}]
  <2>2. v.pc # "compacting"
    BY TurnTypes DEF Turn
  <2> HIDE DEF v
  <2> QED
    BY <1>4, <2>1, <2>2 DEF v
<1>9. ASSUME NEW u \in Turns, NoDecision(u)
      PROVE  Same
  <2>1. [turn[u] EXCEPT !.final = 0] \in Turn /\ "done" \in Ended
    BY TurnTypes DEF Turn, Ended
  <2>2. Over([turn[u] EXCEPT !.final = 0], "done").pc # "compacting"
    BY <2>1, OverFacts
  <2> QED
    BY <1>4, <1>9, <2>2 DEF NoDecision
<1>10. ASSUME NEW u \in Turns, EndStep(u)
       PROVE  Same
  <2>1. Over(turn[u], "done").pc # "compacting"
    BY TurnTypes, OverFacts DEF Ended
  <2>2. [turn[u] EXCEPT !.pc = "context"].pc # "compacting"
    BY TurnTypes DEF Turn
  <2> QED
    BY <1>4, <1>10, <2>1, <2>2 DEF EndStep
<1>11. ASSUME NEW u \in Turns, Appended(u)
       PROVE  Same
  <2> DEFINE v == [turn[u] EXCEPT !.pc = After[@],
                     !.pos = IF turn[u].pc \in {"recording", "replying"} THEN @ + 1 ELSE @]
  <2>1. turn[u] \in Turn /\ turn[u].pc \in Appending
    BY <1>11, TurnTypes DEF Appended
  <2>2. v.pc # "compacting"
    BY <2>1 DEF Turn, Appending, After
  <2>3. turn' = [turn EXCEPT ![u] = v]
    BY <1>11, <2>1 DEF Appended, TypeOK, Turn
  <2> HIDE DEF v
  <2> QED
    BY <2>2, <2>3, NoneBegins
<1>12. ASSUME NEW u \in Turns, AppendRaises(u)
       PROVE  Same
  <2> DEFINE v == IF turn[u].pc \in Catching THEN Caught(turn[u]) ELSE Over(turn[u], "failed")
  <2>1. v.pc # "compacting"
    <3>1. Over(turn[u], "failed").pc = "failed"
      BY TurnTypes, OverFacts DEF Ended
    <3>2. Caught(turn[u]).pc = "returned"
      BY TurnTypes DEF Turn, Caught
    <3> QED
      BY <3>1, <3>2
  <2>2. turn' = [turn EXCEPT ![u] = v]
    BY <1>12 DEF AppendRaises
  <2> HIDE DEF v
  <2> QED
    BY <2>1, <2>2, NoneBegins
<1>13. ASSUME NEW u \in Turns, Respond(u) \/ ToolProgress(u)
       PROVE  Same
  <2> DEFINE v == [turn[u] EXCEPT !.pc = "replying", !.final = FinalText(turn[u])]
             w == [turn[u] EXCEPT !.pc = "progressing", !.ticks = @ + 1]
  <2>1. v.pc # "compacting" /\ w.pc # "compacting"
    BY TurnTypes DEF Turn
  <2>2. turn' = [turn EXCEPT ![u] = v] \/ turn' = [turn EXCEPT ![u] = w]
    BY <1>13, TurnTypes DEF Respond, ToolProgress, TypeOK, Turn
  <2> HIDE DEF v, w
  <2> QED
    BY <2>1, <2>2, NoneBegins
<1>14. ASSUME NEW u \in Turns, Cancel(u)
       PROVE  Same
  <2>1. Over(turn[u], "cancelled").pc # "compacting"
    BY TurnTypes, OverFacts DEF Ended
  <2>2. turn' = [turn EXCEPT ![u] = Over(turn[u], "cancelled")]
    BY <1>14 DEF Cancel
  <2> QED
    BY <2>1, <2>2, NoneBegins
<1>15. ASSUME Crash
       PROVE  Same
  <2>1. turn'[t] = turn[t] \/ turn'[t] = Over(turn[t], "dead")
    BY <1>15 DEF Crash
  <2>2. Over(turn[t], "dead").pc = "dead"
    BY TurnTypes, OverFacts DEF Ended
  <2> QED
    BY <2>1, <2>2
<1>16. ASSUME UNCHANGED vars
       PROVE  Same
  BY <1>16 DEF vars
<1>17. \/ Same
       \/ /\ turn'[t].thread = turn[t].thread /\ snapshot' = snapshot
          /\ turn'[t].memory = snapshot[Thread(t)]
  <2>1. CASE \E u \in Turns : Start(u) \/ Proceed(u) \/ AppendRaises(u) \/ Cancel(u)
    <3>1. PICK u \in Turns : Start(u) \/ Proceed(u) \/ AppendRaises(u) \/ Cancel(u)
      BY <2>1
    <3>2. CASE Proceed(u)
      <4>1. CASE BuildContext(u)
        BY <1>1, <4>1
      <4>2. CASE CallFunction(u) \/ RecordResult(u)
        BY <1>3, <4>2
      <4>3. CASE ContextRaises(u) \/ EngineRaises(u)
        BY <1>5, <4>3
      <4>4. CASE Compacted(u) \/ Route(u) \/ ActionReturns(u) \/ SummaryRaises(u)
        BY <1>6, <4>4
      <4>5. CASE Summarised(u) \/ Decide(u) \/ NoDecision(u) \/ EndStep(u) \/ Appended(u)
        BY <1>7, <1>8, <1>9, <1>10, <1>11, <4>5
      <4>6. CASE Respond(u) \/ ToolProgress(u)
        BY <1>13, <4>6
      <4> QED
        BY <3>2, <4>1, <4>2, <4>3, <4>4, <4>5, <4>6 DEF Proceed
    <3> QED
      BY <1>3, <1>12, <1>14, <3>1, <3>2
  <2> QED
    BY <1>15, <1>16, <2>1 DEF Next
<1> QED
  BY <1>17

\* What a step does to the snapshot of a thread.
LEMMA SnapshotStep ==
  ASSUME TypeOK, [Next]_vars, NEW th \in Threads
  PROVE  \/ snapshot'[th] = snapshot[th]
         \/ \E t \in Turns : /\ turn[t].pc = "compacting" /\ Thread(t) = th
                            /\ turn[t].memory \subseteq snapshot'[th]
<1>1. snapshot' = snapshot \/ \E t \in Turns : Compacted(t)
  BY DEF Next, Proceed, vars, Start, Appended, AppendRaises, BuildContext, ContextRaises,
         EngineRaises, Decide, NoDecision, CallFunction, Respond, Route, ActionReturns,
         ToolProgress, Summarised, SummaryRaises, RecordResult, EndStep, Cancel, Crash, Logs
<1>2. ASSUME NEW t \in Turns, Compacted(t)
      PROVE  snapshot'[th] = snapshot[th] \/ (Thread(t) = th /\ snapshot'[th] = Covered(turn[t]))
  BY <1>2 DEF Compacted, TypeOK
<1> QED
  BY <1>1, <1>2 DEF Compacted, Covered

\* Every step keeps what the waiting compactions hold, and so what the snapshots tell of.
LEMMA MemoryStep ==
  ASSUME TypeOK, MemoryInv, [Next]_vars
  PROVE  MemoryInv'
<1>1. CASE UNCHANGED vars
  BY <1>1 DEF vars, MemoryInv, MemoryIsKept, Remembers, Thread
<1>2. CASE Next
  <2>1. ASSUME NEW th \in Threads
        PROVE  settled'[th] = IF Compacting(th)' THEN settled[th] ELSE snapshot'[th]
    BY <1>2 DEF Next, Settle
  <2>2. ASSUME NEW th \in Threads
        PROVE  settled[th] \subseteq snapshot'[th]
    BY SnapshotStep DEF MemoryInv, MemoryIsKept, Remembers
  <2>3. MemoryIsKept'
    BY <2>1, <2>2 DEF MemoryIsKept
  <2>4. ASSUME NEW t \in Turns, turn'[t].pc = "compacting"
        PROVE  settled'[Thread(t)'] \subseteq turn'[t].memory
    <3>1. Thread(t)' = Thread(t) /\ Thread(t) \in Threads
      BY <2>4, CompactionBegins, TurnTypes DEF Thread
    <3>2. Compacting(Thread(t))'
      BY <2>4, <3>1 DEF Compacting
    <3>3. settled'[Thread(t)] = settled[Thread(t)]
      BY <2>1, <3>1, <3>2
    <3>4. settled[Thread(t)] \subseteq turn'[t].memory
      BY <2>4, <3>1, CompactionBegins DEF MemoryInv, MemoryIsKept, Remembers
    <3> QED
      BY <3>1, <3>3, <3>4
  <2> QED
    BY <2>3, <2>4 DEF MemoryInv, Remembers
<1> QED
  BY <1>1, <1>2

\* However many compactions of a thread overlap, fail, are cancelled or die, and whichever
\* is saved last, the snapshot goes on telling of what it told of when none was under way.
THEOREM MemoryOutlastsCompactions == Spec => []MemoryIsKept
<1>1. Init => MemoryInv
  BY DEF Init, MemoryInv, MemoryIsKept, Remembers
<1>2. TypeOK /\ MemoryInv /\ [Next]_vars => MemoryInv'
  BY MemoryStep
<1>3. MemoryInv => MemoryIsKept
  BY DEF MemoryInv
<1> QED
  BY <1>1, <1>2, <1>3, TypeCorrect, PTL DEF Spec

-----------------------------------------------------------------------------
(* The calls and results of a turn, its replies, and what the engine is shown. *)

\* The calls and results of turn t in L.
Talk(L, t) ==
  {i \in DOMAIN L : L[i].type \in {"assistant_tool_call", "tool_result"} /\ L[i].turn = t}

\* e comes before f in what a turn does: in an earlier action, or e is a call and f its result.
Sooner(e, f) ==
  \/ e.step < f.step
  \/ e.step = f.step /\ e.pos < f.pos
  \/ e.step = f.step /\ e.pos = f.pos /\ e.type = "assistant_tool_call" /\ f.type = "tool_result"

\* e is of an action that t has left behind.
Past(t, e) ==
  e.step < turn[t].steps \/ (e.step = turn[t].steps /\ e.pos < turn[t].pos)

\* The action that t is at.
AtHand(t, e) == e.step = turn[t].steps /\ e.pos = turn[t].pos

\* A turn talks in the order of its actions.
InOrder(th) ==
  \A t \in Turns : \A i, k \in Talk(log[th], t) : i < k => Sooner(log[th][i], log[th][k])

\* The history of a thread holds the events of its own turns.
Belongs(th) ==
  \A i \in DOMAIN log[th] : log[th][i] # Spoiled => Thread(log[th][i].turn) = th

\* L[i], a call of t, has its result at a place behind it, or a line that it may have been
\* spoiled in, and t says nothing in between.
AnsweredIn(L, t, i) ==
  \E j \in DOMAIN L : /\ i < j /\ L[j] \in {Result(L[i]), Spoiled}
                      /\ \A k \in Talk(L, t) : ~(i < k /\ k < j)

\* The stages of a turn that has stopped in the middle of an action.
Stopped == {"failed", "cancelled", "dead"}

\* t has said nothing of the actions to come, and of the one at hand no more than the call;
\* the calls that it has left behind are answered.
Talks(t) ==
  LET L == log[Thread(t)] IN
  /\ \A i \in Talk(L, t) : Past(t, L[i]) \/ AtHand(t, L[i])
  /\ turn[t].pc \notin Stopped => \A i \in Talk(L, t) :
       Past(t, L[i]) \/ (Called(t) /\ AtHand(t, L[i]) /\ L[i].type = "assistant_tool_call")
  /\ \A i \in Talk(L, t) :
       L[i].type = "assistant_tool_call" /\ Past(t, L[i]) => AnsweredIn(L, t, i)

\* A tool runs for a call.
RunsCall(t) ==
  turn[t].pc \in {"calling", "running", "progressing", "summarising", "noting"} =>
    turn[t].plan[turn[t].pos] = "call"

Messages(L, t) == {i \in DOMAIN L : L[i].type = "assistant_message" /\ L[i].turn = t}

\* The message that has final_text.
Reply(t) ==
  [type |-> "assistant_message", turn |-> t, step |-> turn[t].steps, pos |-> turn[t].final]

\* Until a step has a reply there is none, and then final_text is the last.
Undecided == {"idle", "opening", "context", "compacting", "deciding"}

Replies(t) ==
  LET L == log[Thread(t)] IN
  turn[t].pc \notin Stopped =>
    /\ turn[t].pc \in Undecided => turn[t].final = 0
    /\ turn[t].pc \notin Undecided \cup {"done"} => turn[t].pos >= 1
    /\ \A i \in Messages(L, t) :
         /\ L[i].step = turn[t].steps
         /\ L[i].pos >= 1 /\ L[i].pos <= turn[t].final /\ L[i].pos < turn[t].pos
    /\ turn[t].final # 0 /\ turn[t].pc # "replying" => Has(Thread(t), Reply(t))
    /\ turn[t].pc = "replying" => turn[t].final = turn[t].pos

\* The engine is shown whole lines, and with them all that the turn has done.
ShownWhole(t) ==
  LET L == log[Thread(t)] IN
  turn[t].pc \in {"compacting", "deciding"} =>
    /\ turn[t].seen <= Len(L) /\ \A i \in 1 .. turn[t].seen : L[i] # Spoiled
    /\ \E i \in 1 .. turn[t].seen : L[i].turn = t /\ L[i].step = 0
    /\ \A i \in Talk(L, t) : L[i].type = "assistant_tool_call" =>
         \E j \in i + 1 .. turn[t].seen : L[j] = Result(L[i])

TalkInv ==
  /\ \A th \in Threads : InOrder(th) /\ Belongs(th)
  /\ \A t \in Turns : Talks(t) /\ RunsCall(t) /\ Replies(t) /\ ShownWhole(t)

\* The lines that a step adds to a history.
New(th) == DOMAIN log'[th] \ DOMAIN log[th]

\* A step adds a line at the end at most: the event that one of the thread's turns waits
\* to see on file, or what is left of it.
LEMMA GrownFacts ==
  ASSUME IInv, NEW th \in Threads, Grown(th)
  PROVE  /\ log[th] \in Seq(FileLine) /\ log'[th] \in Seq(FileLine)
         /\ DOMAIN log[th] = 1 .. Len(log[th]) /\ Len(log[th]) \in Nat
         /\ DOMAIN log'[th] = 1 .. Len(log'[th]) /\ Len(log'[th]) \in Nat
         /\ Len(log[th]) <= Len(log'[th])
         /\ \A i \in DOMAIN log[th] :
              i \in DOMAIN log'[th] /\ log'[th][i] = log[th][i]
         /\ \A i \in New(th) :
              /\ i = Len(log[th]) + 1
              /\ \/ log'[th][i] = Spoiled
                 \/ \E t \in Turns : /\ Thread(t) = th /\ turn[t].pc \in Appending
                                     /\ log'[th][i] = EventNow(t, Awaited(t))
<1>1. log[th] \in Seq(FileLine) /\ TypeOK /\ QueueInv
  BY LogTypes DEF IInv, TypeOK
<1>2. CASE log'[th] = log[th]
  BY <1>1, <1>2 DEF New
<1>3. CASE queue[th] # <<>> /\ log'[th] = Append(log[th], Log!NextLine(th))
  <2> DEFINE x == Log!NextLine(th)
             t == Head(queue[th]).by
  <2>1. /\ t \in Turns /\ Thread(t) = th /\ turn[t].pc \in Appending
        /\ x \in {Spoiled, EventNow(t, Awaited(t))} /\ x \in FileLine
    BY <1>1, <1>3, NextLineOwner
  <2> HIDE DEF x, t
  <2>2. log'[th] = Append(log[th], x)
    BY <1>3 DEF x
  <2>3. /\ log'[th] \in Seq(FileLine)
        /\ Len(log'[th]) = Len(log[th]) + 1
        /\ DOMAIN log'[th] = 1 .. Len(log[th]) + 1
        /\ \A k \in 1 .. Len(log[th]) : log'[th][k] = log[th][k]
        /\ log'[th][Len(log[th]) + 1] = x
    BY <1>1, <2>1, <2>2, QueueAppend
  <2>4. DOMAIN log[th] = 1 .. Len(log[th]) /\ Len(log[th]) \in Nat
    BY <1>1
  <2>5. \A i \in New(th) : i = Len(log[th]) + 1
    BY <2>3, <2>4 DEF New
  <2>6. \A i \in New(th) : log'[th][i] = x
    BY <2>3, <2>5
  <2> QED
    BY <1>1, <2>1, <2>3, <2>4, <2>5, <2>6
<1> QED
  BY <1>2, <1>3 DEF Grown

\* The step logs an event of t.
Speaks(t) ==
  \E i \in New(Thread(t)) : log'[Thread(t)][i] # Spoiled /\ log'[Thread(t)][i].turn = t

\* A new line that is an event of t is the one that t waits for.
LEMMA NewOfTurn ==
  ASSUME IInv, NEW th \in Threads, Grown(th), NEW i \in New(th), NEW t,
         log'[th][i] # Spoiled, log'[th][i].turn = t
  PROVE  Thread(t) = th /\ turn[t].pc \in Appending /\ log'[th][i] = EventNow(t, Awaited(t))
<1>1. PICK s \in Turns : /\ Thread(s) = th /\ turn[s].pc \in Appending
                        /\ log'[th][i] = EventNow(s, Awaited(s))
  BY GrownFacts
<1>2. s = t
  BY <1>1 DEF EventNow
<1> QED
  BY <1>1, <1>2

\* Calls and results are events of their turn.
LEMMA TalkEvents ==
  ASSUME NEW L \in Seq(FileLine), NEW t, NEW i \in Talk(L, t)
  PROVE  /\ i \in DOMAIN L /\ i \in Nat
         /\ L[i] \in Event /\ L[i] # Spoiled
         /\ L[i].turn = t /\ L[i].step \in Nat /\ L[i].pos \in Nat
         /\ L[i].type \in {"assistant_tool_call", "tool_result"}
         /\ L[i].type = "assistant_tool_call" \/ L[i].type = "tool_result"
<1>1. i \in DOMAIN L /\ L[i].type \in {"assistant_tool_call", "tool_result"} /\ L[i].turn = t
  BY DEF Talk
<1>2. L[i] # Spoiled
  BY <1>1 DEF Spoiled
<1>3. L[i] \in Event
  BY <1>1, <1>2 DEF FileLine
<1> QED
  BY <1>1, <1>2, <1>3 DEF Event

\* When a turn waits to see a call, a result or a reply on file.
LEMMA AwaitedTypes ==
  ASSUME NEW t, turn[t].pc \in Appending
  PROVE  /\ Awaited(t) = "assistant_tool_call" <=> turn[t].pc = "calling"
         /\ Awaited(t) = "tool_result" <=>
              turn[t].pc = "recording" /\ turn[t].plan[turn[t].pos] = "call"
         /\ Awaited(t) = "assistant_message" <=> turn[t].pc = "replying"
BY DEF Awaited, OpeningType, Appending, After

\* What is said of a turn's talk stays said of the old part of a history.
LEMMA OldTalk ==
  ASSUME IInv, NEW th \in Threads, Grown(th), NEW t
  PROVE  /\ Talk(log[th], t) = Talk(log'[th], t) \cap DOMAIN log[th]
         /\ Talk(log'[th], t) \ Talk(log[th], t) \subseteq New(th)
         /\ \A i \in Talk(log'[th], t) : i \notin New(th) => i \in Talk(log[th], t)
         /\ \A i \in Talk(log[th], t) : AnsweredIn(log[th], t, i) => AnsweredIn(log'[th], t, i)
<1>1. /\ \A i \in DOMAIN log[th] : i \in DOMAIN log'[th] /\ log'[th][i] = log[th][i]
      /\ DOMAIN log[th] \subseteq Nat /\ DOMAIN log'[th] \subseteq Nat
      /\ \A i \in New(th) : \A j \in DOMAIN log[th] : j < i
  BY GrownFacts
<1>2. Talk(log[th], t) = Talk(log'[th], t) \cap DOMAIN log[th]
  BY <1>1 DEF Talk
<1>3. \A i \in Talk(log'[th], t) : i \notin New(th) => i \in Talk(log[th], t)
  BY <1>2 DEF New, Talk
<1>4. ASSUME NEW i \in Talk(log[th], t), AnsweredIn(log[th], t, i)
      PROVE  AnsweredIn(log'[th], t, i)
  <2>1. PICK j \in DOMAIN log[th] :
          /\ i < j /\ log[th][j] \in {Result(log[th][i]), Spoiled}
          /\ \A k \in Talk(log[th], t) : ~(i < k /\ k < j)
    BY <1>4 DEF AnsweredIn
  <2>2. j \in DOMAIN log'[th] /\ log'[th][j] \in {Result(log'[th][i]), Spoiled}
    BY <1>1, <2>1 DEF Talk
  <2>3. \A k \in Talk(log'[th], t) : ~(i < k /\ k < j)
    <3> SUFFICES ASSUME NEW k \in Talk(log'[th], t), i < k, k < j
                 PROVE  FALSE
      OBVIOUS
    <3>1. k \in New(th)
      BY <1>3, <2>1
    <3> QED
      BY <1>1, <2>1, <3>1 DEF New
  <2> QED
    BY <2>1, <2>2, <2>3 DEF AnsweredIn
<1> QED
  BY <1>2, <1>3, <1>4

\* However a history grows, a turn talks in order.
LEMMA InOrderStays ==
  ASSUME IInv, TalkInv, NEW th \in Threads, Grown(th)
  PROVE  InOrder(th)'
<1> SUFFICES ASSUME NEW t \in Turns, NEW i \in Talk(log'[th], t), NEW k \in Talk(log'[th], t),
                    i < k
             PROVE  Sooner(log'[th][i], log'[th][k])
  BY DEF InOrder
<1>1. /\ log'[th] \in Seq(FileLine) /\ log[th] \in Seq(FileLine)
      /\ \A j \in DOMAIN log[th] : log'[th][j] = log[th][j]
      /\ \A j \in New(th) : j = Len(log[th]) + 1
      /\ DOMAIN log[th] = 1 .. Len(log[th]) /\ Len(log[th]) \in Nat
  BY GrownFacts
<1>2. i \in Nat /\ k \in Nat /\ i \in DOMAIN log'[th]
  BY <1>1, TalkEvents
<1>3. CASE k \notin New(th)
  <2>1. k \in Talk(log[th], t) /\ k \in DOMAIN log[th]
    BY <1>3, OldTalk DEF Talk
  <2>2. i \notin New(th)
    BY <1>1, <1>2, <2>1
  <2>3. i \in Talk(log[th], t) /\ i \in DOMAIN log[th]
    BY <2>2, OldTalk DEF Talk
  <2>4. Sooner(log[th][i], log[th][k])
    BY <2>1, <2>3 DEF TalkInv, InOrder
  <2> QED
    BY <1>1, <2>1, <2>3, <2>4
<1>4. CASE k \in New(th)
  <2>1. i \in Talk(log[th], t) /\ i \in DOMAIN log[th]
    <3>1. i \notin New(th)
      BY <1>1, <1>2, <1>4
    <3> QED
      BY <3>1, OldTalk DEF Talk
  <2> DEFINE e == log[th][i]
             f == log'[th][k]
  <2>2. f # Spoiled /\ f.turn = t /\ f.type \in {"assistant_tool_call", "tool_result"}
    BY <1>1, TalkEvents
  <2>3. Thread(t) = th /\ turn[t].pc \in Appending /\ f = EventNow(t, Awaited(t))
    BY <1>4, <2>2, NewOfTurn
  <2>4. f.step = turn[t].steps /\ f.pos = turn[t].pos /\ f.type = Awaited(t)
    BY <2>3 DEF EventNow
  <2>5. Past(t, e) \/ (Called(t) /\ AtHand(t, e) /\ e.type = "assistant_tool_call")
    <3>1. turn[t].pc \notin Stopped
      BY <2>3 DEF Appending, After, Stopped
    <3> QED
      BY <2>1, <2>3, <3>1 DEF TalkInv, Talks
  <2>6. Called(t) => f.type = "tool_result"
    BY <2>2, <2>3, <2>4, AwaitedTypes DEF Called
  <2>7. log'[th][i] = e
    BY <1>1, <2>1
  <2> HIDE DEF e, f
  <2>8. Sooner(e, f)
    BY <2>4, <2>5, <2>6 DEF Past, AtHand, Sooner
  <2> QED
    BY <2>7, <2>8 DEF f
<1> QED
  BY <1>3, <1>4

\* A step in which a turn stays at its action keeps what is said of its talk, unless it
\* logs a result of a call.
LEMMA TalksStays ==
  ASSUME IInv, TalkInv, NEW t \in Turns, \A th \in Threads : Grown(th),
         turn'[t].thread = turn[t].thread,
         turn'[t].steps = turn[t].steps, turn'[t].pos = turn[t].pos,
         turn'[t].pc \notin Stopped =>
           /\ turn[t].pc \notin Stopped
           /\ Called(t) => Called(t)'
           /\ turn[t].pc \in Appending /\ Speaks(t) =>
                /\ Awaited(t) # "tool_result"
                /\ Awaited(t) = "assistant_tool_call" => Called(t)'
  PROVE  Talks(t)'
<1> DEFINE L == log[Thread(t)]
           M == log'[Thread(t)]
<1>1. Thread(t) \in Threads /\ Thread(t)' = Thread(t)
  BY TurnTypes DEF Thread, IInv
<1>2. /\ L \in Seq(FileLine) /\ M \in Seq(FileLine)
      /\ \A i \in DOMAIN L : M[i] = L[i]
      /\ \A i \in Talk(M, t) : i \notin New(Thread(t)) => i \in Talk(L, t) /\ i \in DOMAIN L
      /\ \A i \in Talk(L, t) : AnsweredIn(L, t, i) => AnsweredIn(M, t, i)
  BY <1>1, GrownFacts, OldTalk DEF Talk
<1>3. \A e : (Past(t, e)' <=> Past(t, e)) /\ (AtHand(t, e)' <=> AtHand(t, e))
  BY DEF Past, AtHand
<1>4. turn[t].steps \in Nat /\ turn[t].pos \in Nat
  BY TurnTypes DEF IInv
<1>5. ASSUME NEW i \in Talk(M, t), i \in New(Thread(t))
      PROVE  /\ turn[t].pc \in Appending /\ Speaks(t)
             /\ M[i].type = Awaited(t) /\ AtHand(t, M[i]) /\ ~Past(t, M[i])
             /\ M[i].type = "assistant_tool_call" \/ M[i].type = "tool_result"
  <2>1. /\ M[i] # Spoiled /\ M[i].turn = t
        /\ M[i].type = "assistant_tool_call" \/ M[i].type = "tool_result"
    BY <1>2, TalkEvents
  <2>2. turn[t].pc \in Appending /\ M[i] = EventNow(t, Awaited(t))
    BY <1>1, <1>5, <2>1, NewOfTurn
  <2> QED
    BY <1>4, <1>5, <2>1, <2>2 DEF EventNow, Past, AtHand, Speaks
<1> DEFINE OK(e) == Past(t, e) \/ (Called(t) /\ AtHand(t, e) /\ e.type = "assistant_tool_call")
<1>6. /\ \A i \in Talk(L, t) : Past(t, L[i]) \/ AtHand(t, L[i])
      /\ turn[t].pc \notin Stopped => \A i \in Talk(L, t) : OK(L[i])
      /\ \A i \in Talk(L, t) :
           L[i].type = "assistant_tool_call" /\ Past(t, L[i]) => AnsweredIn(L, t, i)
  BY DEF TalkInv, Talks
<1>7. \A i \in Talk(M, t) : Past(t, M[i]) \/ AtHand(t, M[i])
  BY <1>2, <1>5, <1>6
<1>8. ASSUME turn'[t].pc \notin Stopped, NEW i \in Talk(M, t)
      PROVE  \/ Past(t, M[i])
             \/ Called(t)' /\ AtHand(t, M[i]) /\ M[i].type = "assistant_tool_call"
  <2>1. CASE i \in New(Thread(t))
    BY <1>5, <1>8, <2>1
  <2>2. CASE i \notin New(Thread(t))
    BY <1>2, <1>6, <1>8, <2>2
  <2> QED
    BY <2>1, <2>2
<1>9. \A i \in Talk(M, t) :
        M[i].type = "assistant_tool_call" /\ Past(t, M[i]) => AnsweredIn(M, t, i)
  BY <1>2, <1>5, <1>6
<1> HIDE DEF OK
<1> QED
  BY <1>1, <1>3, <1>7, <1>8, <1>9 DEF Talks

\* The record of the action at hand ends it: a call is answered at once.
LEMMA TalksRecorded ==
  ASSUME IInv, TalkInv, NEW t \in Turns, Appended(t),
         turn[t].pc \in {"recording", "replying"},
         turn'[t].pc = "acting", turn'[t].thread = turn[t].thread,
         turn'[t].steps = turn[t].steps, turn'[t].pos = turn[t].pos + 1
  PROVE  Talks(t)'
<1> DEFINE L == log[Thread(t)]
           M == log'[Thread(t)]
           x == Log!NextLine(Thread(t))
<1>1. Thread(t) \in Threads /\ Thread(t)' = Thread(t) /\ turn[t].pc \in Appending
  BY TurnTypes DEF Thread, IInv, Appended
<1>2. /\ \A th \in Threads : Grown(th)
      /\ queue[Thread(t)] # <<>> /\ Head(queue[Thread(t)]).by = t
      /\ M = Append(L, x)
  BY <1>1 DEF Appended, Log!Commit, Log!TypeOK, IInv, TypeOK, Grown
<1>3. x \in {Spoiled, EventNow(t, Awaited(t))} /\ x \in FileLine
  BY <1>1, <1>2, NextLineOwner DEF IInv
<1>4. /\ L \in Seq(FileLine) /\ M \in Seq(FileLine)
      /\ \A i \in DOMAIN L : M[i] = L[i]
      /\ \A i \in Talk(M, t) : i \notin New(Thread(t)) => i \in Talk(L, t) /\ i \in DOMAIN L
      /\ \A i \in Talk(L, t) : AnsweredIn(L, t, i) => AnsweredIn(M, t, i)
      /\ DOMAIN L = 1 .. Len(L) /\ Len(L) \in Nat /\ Len(M) \in Nat
      /\ \A i \in New(Thread(t)) : i = Len(L) + 1
  BY <1>1, <1>2, GrownFacts, OldTalk DEF Talk
<1> HIDE DEF x
<1>5. Len(L) + 1 \in DOMAIN M /\ M[Len(L) + 1] = x
  BY <1>2, <1>3, <1>4, QueueAppend
<1>6. turn[t].steps \in Nat /\ turn[t].pos \in Nat
  BY TurnTypes DEF IInv
<1>7. \A i \in Talk(L, t) :
        \/ Past(t, L[i])
        \/ /\ AtHand(t, L[i]) /\ L[i].type = "assistant_tool_call"
           /\ turn[t].pc = "recording" /\ turn[t].plan[turn[t].pos] = "call"
  BY DEF TalkInv, Talks, Stopped, Called
<1> DEFINE Gone(e) ==
             e.step < turn[t].steps \/ (e.step = turn[t].steps /\ e.pos < turn[t].pos + 1)
<1>8. \A e : Past(t, e)' <=> Gone(e)
  BY DEF Past
<1>9. \A i \in Talk(M, t) : Gone(M[i])
  <2> SUFFICES ASSUME NEW i \in Talk(M, t)
               PROVE  Gone(M[i])
    OBVIOUS
  <2>1. CASE i \in New(Thread(t))
    <3>1. M[i] # Spoiled /\ M[i].turn = t
      BY <1>4, TalkEvents
    <3>2. M[i] = EventNow(t, Awaited(t))
      BY <1>1, <1>2, <2>1, <3>1, NewOfTurn
    <3>3. M[i].step = turn[t].steps /\ M[i].pos = turn[t].pos
      BY <3>2 DEF EventNow
    <3> QED
      BY <1>6, <3>3
  <2>2. CASE i \notin New(Thread(t))
    <3>1. i \in Talk(L, t) /\ M[i] = L[i]
      BY <1>4, <2>2
    <3>2. M[i].step \in Nat /\ M[i].pos \in Nat
      BY <1>4, TalkEvents
    <3> QED
      BY <1>6, <1>7, <3>1, <3>2 DEF Past, AtHand
  <2> QED
    BY <2>1, <2>2
<1>10. ASSUME NEW i \in Talk(M, t), M[i].type = "assistant_tool_call"
       PROVE  AnsweredIn(M, t, i)
  <2>1. i \in Talk(L, t) /\ i \in DOMAIN L /\ M[i] = L[i]
    <3>1. i \notin New(Thread(t))
      <4> SUFFICES ASSUME i \in New(Thread(t))
                   PROVE  FALSE
        OBVIOUS
      <4>1. M[i] # Spoiled /\ M[i].turn = t
        BY <1>4, TalkEvents
      <4>2. M[i] = EventNow(t, Awaited(t))
        BY <1>1, <1>2, <4>1, NewOfTurn
      <4> QED
        BY <1>1, <1>10, <4>2, AwaitedTypes DEF EventNow
    <3> QED
      BY <1>4, <3>1
  <2>2. CASE Past(t, L[i])
    BY <1>4, <1>10, <2>1, <2>2 DEF TalkInv, Talks
  <2>3. CASE ~Past(t, L[i])
    <3>1. /\ AtHand(t, L[i]) /\ L[i].type = "assistant_tool_call"
          /\ turn[t].pc = "recording" /\ turn[t].plan[turn[t].pos] = "call"
      BY <1>7, <2>1, <2>3
    <3>2. Awaited(t) = "tool_result"
      BY <1>1, <3>1, AwaitedTypes
    <3>3. EventNow(t, "tool_result") = Result(L[i])
      <4>1. L[i] \in Event /\ L[i].turn = t
        BY <1>4, <2>1, TalkEvents
      <4> QED
        BY <3>1, <4>1 DEF EventNow, Result, AtHand, Event
    <3>4. x \in {Result(M[i]), Spoiled}
      BY <1>3, <2>1, <3>2, <3>3
    <3>5. \A k \in Talk(M, t) : ~(i < k /\ k < Len(L) + 1)
      <4> SUFFICES ASSUME NEW k \in Talk(M, t), i < k, k < Len(L) + 1
                   PROVE  FALSE
        OBVIOUS
      <4>1. k \notin New(Thread(t))
        BY <1>4
      <4>2. k \in Talk(L, t)
        BY <1>4, <4>1
      <4>3. Sooner(L[i], L[k])
        BY <1>1, <2>1, <4>2 DEF TalkInv, InOrder
      <4>4. L[k].step \in Nat /\ L[k].pos \in Nat
        BY <1>4, <4>2, TalkEvents
      <4> QED
        BY <1>6, <1>7, <3>1, <4>2, <4>3, <4>4 DEF Sooner, Past, AtHand
    <3>6. i < Len(L) + 1
      BY <1>4, <2>1
    <3> QED
      BY <1>5, <3>4, <3>5, <3>6 DEF AnsweredIn
  <2> QED
    BY <2>2, <2>3
<1> HIDE DEF Gone
<1> QED
  BY <1>1, <1>8, <1>9, <1>10 DEF Talks

\* When the engine decides, the actions of the step before are left behind.
LEMMA TalksDecided ==
  ASSUME IInv, TalkInv, NEW t \in Turns, turn[t].pc = "deciding", log' = log,
         turn'[t].thread = turn[t].thread, turn'[t].steps = turn[t].steps + 1
  PROVE  Talks(t)'
<1> DEFINE L == log[Thread(t)]
<1>1. Thread(t) \in Threads /\ Thread(t)' = Thread(t)
  BY TurnTypes DEF Thread, IInv
<1>2. \A i \in Talk(L, t) : Past(t, L[i])
  BY DEF TalkInv, Talks, Stopped, Called
<1>3. turn[t].steps \in Nat /\ L \in Seq(FileLine)
  BY <1>1, TurnTypes, LogTypes DEF IInv, TypeOK
<1>4. \A i \in Talk(L, t) : L[i].step < turn'[t].steps
  <2> SUFFICES ASSUME NEW i \in Talk(L, t)
               PROVE  L[i].step < turn[t].steps + 1
    OBVIOUS
  <2>1. L[i].step \in Nat
    BY <1>3, TalkEvents
  <2> QED
    BY <1>2, <1>3, <2>1 DEF Past
<1>5. \A i \in Talk(L, t) : L[i].type = "assistant_tool_call" => AnsweredIn(L, t, i)
  BY <1>2 DEF TalkInv, Talks
<1> QED
  BY <1>1, <1>4, <1>5 DEF Talks, Past

\* However a history grows, it holds the events of its own turns.
LEMMA BelongsStays ==
  ASSUME IInv, TalkInv, NEW th \in Threads, Grown(th),
         \A t \in Turns : turn'[t].thread = turn[t].thread
  PROVE  Belongs(th)'
<1> SUFFICES ASSUME NEW i \in DOMAIN log'[th], log'[th][i] # Spoiled
             PROVE  turn'[log'[th][i].turn].thread = th
  BY DEF Belongs, Thread
<1>1. log'[th][i].turn \in Turns
  BY GrownFacts DEF FileLine, Event
<1>2. CASE i \in New(th)
  BY <1>1, <1>2, NewOfTurn DEF Thread
<1>3. CASE i \notin New(th)
  <2>1. i \in DOMAIN log[th] /\ log'[th][i] = log[th][i]
    BY <1>3, GrownFacts DEF New
  <2> QED
    BY <1>1, <2>1 DEF TalkInv, Belongs, Thread
<1> QED
  BY <1>2, <1>3

\* Messages are events of their turn, and a new one is the one that its turn waits for.
LEMMA NewMessages ==
  ASSUME IInv, NEW th \in Threads, Grown(th), NEW t, NEW i \in Messages(log'[th], t)
  PROVE  /\ i \in DOMAIN log'[th] /\ log'[th][i] # Spoiled
         /\ log'[th][i].step \in Nat /\ log'[th][i].pos \in Nat
         /\ i \notin New(th) => i \in Messages(log[th], t) /\ log'[th][i] = log[th][i]
         /\ i \in New(th) => /\ Thread(t) = th /\ turn[t].pc = "replying"
                             /\ log'[th][i] = EventNow(t, "assistant_message")
<1> DEFINE e == log'[th][i]
<1>1. i \in DOMAIN log'[th] /\ e.type = "assistant_message" /\ e.turn = t
  BY DEF Messages
<1>2. e # Spoiled
  BY <1>1 DEF Spoiled
<1>3. e \in Event
  BY <1>1, <1>2, GrownFacts DEF FileLine
<1>4. i \notin New(th) => i \in DOMAIN log[th] /\ e = log[th][i]
  BY <1>1, GrownFacts DEF New
<1>5. ASSUME i \in New(th)
      PROVE  Thread(t) = th /\ turn[t].pc = "replying" /\ e = EventNow(t, "assistant_message")
  <2>1. Thread(t) = th /\ turn[t].pc \in Appending /\ e = EventNow(t, Awaited(t))
    BY <1>1, <1>2, <1>5, NewOfTurn
  <2>2. Awaited(t) = "assistant_message"
    BY <1>1, <2>1 DEF EventNow
  <2> QED
    BY <2>1, <2>2, AwaitedTypes
<1> QED
  BY <1>1, <1>2, <1>3, <1>4, <1>5 DEF Messages, Event

\* A step that sets no final_text and logs no message keeps what is said of the replies.
LEMMA RepliesStay ==
  ASSUME IInv, TalkInv, NEW t \in Turns, \A th \in Threads : Grown(th),
         turn'[t].thread = turn[t].thread, turn'[t].steps = turn[t].steps,
         turn'[t].final = turn[t].final, turn'[t].pos \in Nat, turn'[t].pos >= turn[t].pos,
         turn'[t].pc \notin Stopped =>
           /\ turn[t].pc \notin Stopped
           /\ turn[t].pc = "replying" =>
                turn'[t].pc = "replying" /\ ~Speaks(t) /\ turn'[t].pos = turn[t].pos
           /\ turn'[t].pc = "replying" => turn[t].pc = "replying"
           /\ turn'[t].pc \in Undecided => turn[t].pc \in Undecided \/ turn[t].final = 0
           /\ turn'[t].pc \notin Undecided \cup {"done"} =>
                turn[t].pc \notin Undecided \cup {"done"}
  PROVE  Replies(t)'
<1> DEFINE M == log'[Thread(t)]
<1> SUFFICES ASSUME turn'[t].pc \notin Stopped
             PROVE  Replies(t)'
  BY DEF Replies
<1>1. Thread(t) \in Threads /\ Thread(t)' = Thread(t)
  BY TurnTypes DEF Thread, IInv
<1>2. \A i \in Messages(M, t) : i \in Messages(log[Thread(t)], t) /\ M[i] = log[Thread(t)][i]
  <2> SUFFICES ASSUME NEW i \in Messages(M, t)
               PROVE  i \notin New(Thread(t))
    BY <1>1, NewMessages
  <2>1. M[i] # Spoiled /\ M[i].turn = t
    BY <1>1, NewMessages DEF Messages
  <2>2. i \in New(Thread(t)) => turn[t].pc = "replying"
    BY <1>1, NewMessages
  <2> QED
    BY <2>1, <2>2 DEF Speaks
<1>3. \A i \in Messages(M, t) : M[i].pos \in Nat
  BY <1>1, NewMessages
<1>4. turn[t].pos \in Nat /\ turn[t].final \in Nat
  BY TurnTypes DEF IInv, Turn
<1>5. \A i \in Messages(M, t) :
        /\ M[i].step = turn'[t].steps
        /\ M[i].pos >= 1 /\ M[i].pos <= turn'[t].final /\ M[i].pos < turn'[t].pos
  BY <1>2, <1>3, <1>4 DEF TalkInv, Replies
<1>6. /\ turn'[t].pc \in Undecided => turn'[t].final = 0
      /\ turn'[t].pc \notin Undecided \cup {"done"} => turn'[t].pos >= 1
      /\ turn'[t].pc = "replying" => turn'[t].final = turn'[t].pos
  BY <1>4 DEF TalkInv, Replies
<1>7. Reply(t)' = Reply(t)
  BY DEF Reply
<1>8. turn'[t].final # 0 /\ turn'[t].pc # "replying" => Has(Thread(t), Reply(t))'
  <2>1. Has(Thread(t), Reply(t)) => Holds(M, Reply(t))
    BY <1>1, HasStays DEF IInv
  <2> QED
    BY <1>1, <1>7, <2>1 DEF TalkInv, Replies, Has
<1> QED
  BY <1>1, <1>5, <1>6, <1>8 DEF Replies

\* A RespondAction sets the text.
LEMMA RepliesResponded ==
  ASSUME IInv, TalkInv, NEW t \in Turns, log' = log, turn[t].pc = "acting",
         turn'[t].pc = "replying", turn'[t].thread = turn[t].thread,
         turn'[t].steps = turn[t].steps, turn'[t].pos = turn[t].pos,
         turn'[t].final = turn[t].pos
  PROVE  Replies(t)'
<1> DEFINE L == log[Thread(t)]
<1>1. Thread(t)' = Thread(t) /\ turn[t].pos \in Nat
  BY TurnTypes DEF Thread, IInv
<1>2. /\ turn[t].pos >= 1
      /\ \A i \in Messages(L, t) :
           L[i].step = turn[t].steps /\ L[i].pos >= 1 /\ L[i].pos < turn[t].pos
  BY DEF TalkInv, Replies, Stopped, Undecided
<1>3. \A th \in Threads : Grown(th)
  BY DEF Grown
<1>4. \A i \in Messages(L, t) : L[i].pos \in Nat
  BY <1>3, NewMessages, TurnTypes DEF IInv
<1>5. \A i \in Messages(L, t) : L[i].pos <= turn[t].pos
  BY <1>1, <1>2, <1>4
<1> QED
  BY <1>1, <1>2, <1>5 DEF Replies, Undecided

\* The message that has the text is on file when its append returns.
LEMMA RepliesAppended ==
  ASSUME IInv, TalkInv, NEW t \in Turns, Appended(t), turn[t].pc = "replying",
         turn'[t].pc = "acting", turn'[t].thread = turn[t].thread,
         turn'[t].steps = turn[t].steps, turn'[t].pos = turn[t].pos + 1,
         turn'[t].final = turn[t].final
  PROVE  Replies(t)'
<1> DEFINE M == log'[Thread(t)]
<1>1. Thread(t) \in Threads /\ Thread(t)' = Thread(t) /\ turn[t].pc \in Appending
  BY TurnTypes DEF Thread, IInv, Appended
<1>2. \A th \in Threads : Grown(th)
  BY <1>1 DEF Appended, Log!Commit, Log!TypeOK, IInv, TypeOK, Grown
<1>3. /\ turn[t].pos >= 1 /\ turn[t].final = turn[t].pos
      /\ \A i \in Messages(log[Thread(t)], t) :
           /\ log[Thread(t)][i].step = turn[t].steps
           /\ log[Thread(t)][i].pos >= 1 /\ log[Thread(t)][i].pos < turn[t].pos
  BY DEF TalkInv, Replies, Stopped, Undecided
<1>4. turn[t].pos \in Nat
  BY TurnTypes DEF IInv
<1>5. ASSUME NEW i \in Messages(M, t)
      PROVE  /\ M[i].step = turn'[t].steps
             /\ M[i].pos >= 1 /\ M[i].pos <= turn'[t].final /\ M[i].pos < turn'[t].pos
  <2>1. CASE i \in New(Thread(t))
    <3>1. M[i] = EventNow(t, "assistant_message")
      BY <1>1, <1>2, <2>1, NewMessages
    <3>2. M[i].step = turn[t].steps /\ M[i].pos = turn[t].pos
      BY <3>1 DEF EventNow
    <3> QED
      BY <1>3, <1>4, <3>2
  <2>2. CASE i \notin New(Thread(t))
    <3>1. i \in Messages(log[Thread(t)], t) /\ M[i] = log[Thread(t)][i] /\ M[i].pos \in Nat
      BY <1>1, <1>2, <2>2, NewMessages
    <3> QED
      BY <1>3, <1>4, <3>1
  <2> QED
    BY <2>1, <2>2
<1>6. Holds(M, EventNow(t, Awaited(t)))
  BY <1>1, AppendedOnFile DEF Appended
<1>7. EventNow(t, Awaited(t)) = Reply(t)'
  BY <1>1, <1>3, AwaitedTypes DEF EventNow, Reply
<1> QED
  BY <1>1, <1>3, <1>4, <1>5, <1>6, <1>7 DEF Replies, Has, Undecided

\* A new step has no reply yet, and the turn had none before.
LEMMA RepliesDecided ==
  ASSUME IInv, TalkInv, NEW t \in Turns, log' = log, turn[t].pc = "deciding",
         turn'[t].pc = "acting", turn'[t].thread = turn[t].thread,
         turn'[t].pos = 1, turn'[t].final = 0
  PROVE  Replies(t)'
<1> DEFINE L == log[Thread(t)]
<1>1. Thread(t) \in Threads /\ Thread(t)' = Thread(t)
  BY TurnTypes DEF Thread, IInv
<1>2. \A i \in Messages(L, t) : L[i].pos >= 1 /\ L[i].pos <= 0
  BY DEF TalkInv, Replies, Stopped, Undecided
<1>3. Grown(Thread(t))
  BY DEF Grown
<1>4. \A i \in Messages(L, t) : L[i].pos \in Nat
  BY <1>1, <1>3, NewMessages
<1>5. Messages(L, t) = {}
  BY <1>2, <1>4
<1> QED
  BY <1>1, <1>5 DEF Replies, Undecided

\* What the engine was shown stays whole: the turn itself logs nothing meanwhile.
LEMMA ShownWholeStays ==
  ASSUME IInv, TalkInv, NEW t \in Turns, \A th \in Threads : Grown(th),
         turn'[t].thread = turn[t].thread,
         turn'[t].pc \in {"compacting", "deciding"} =>
           /\ turn[t].pc \in {"compacting", "deciding"}
           /\ turn'[t].seen = turn[t].seen
  PROVE  ShownWhole(t)'
<1> SUFFICES ASSUME turn'[t].pc \in {"compacting", "deciding"}
             PROVE  ShownWhole(t)'
  BY DEF ShownWhole
<1> DEFINE L == log[Thread(t)]
           M == log'[Thread(t)]
           n == turn[t].seen
<1>1. Thread(t) \in Threads /\ Thread(t)' = Thread(t) /\ n \in Nat
  BY TurnTypes DEF Thread, IInv, Turn
<1>2. /\ M \in Seq(FileLine)
      /\ DOMAIN L = 1 .. Len(L) /\ Len(L) \in Nat /\ Len(M) \in Nat /\ Len(L) <= Len(M)
      /\ \A i \in DOMAIN L : M[i] = L[i]
      /\ \A i \in Talk(M, t) : i \notin New(Thread(t)) => i \in Talk(L, t)
  BY <1>1, GrownFacts, OldTalk
<1>3. /\ n <= Len(L) /\ \A i \in 1 .. n : L[i] # Spoiled
      /\ \E i \in 1 .. n : L[i].turn = t /\ L[i].step = 0
      /\ \A i \in Talk(L, t) : L[i].type = "assistant_tool_call" =>
           \E j \in i + 1 .. n : L[j] = Result(L[i])
  BY DEF TalkInv, ShownWhole
<1>4. \A i \in 1 .. n : i \in DOMAIN L /\ M[i] = L[i]
  BY <1>1, <1>2, <1>3
<1>5. \A i \in Talk(M, t) : i \in Talk(L, t) /\ i \in Nat /\ M[i] = L[i]
  <2> SUFFICES ASSUME NEW i \in Talk(M, t)
               PROVE  i \in Talk(L, t) /\ i \in Nat /\ M[i] = L[i]
    OBVIOUS
  <2>1. M[i] # Spoiled /\ M[i].turn = t /\ i \in Nat
    BY <1>2, TalkEvents
  <2>2. i \notin New(Thread(t))
    BY <1>1, <2>1, NewOfTurn DEF Appending, After
  <2>3. i \in Talk(L, t)
    BY <1>2, <2>2
  <2> QED
    BY <1>2, <2>1, <2>3 DEF Talk
<1>6. \A i \in Talk(M, t) : M[i].type = "assistant_tool_call" =>
        \E j \in i + 1 .. n : M[j] = Result(M[i])
  <2> SUFFICES ASSUME NEW i \in Talk(M, t), M[i].type = "assistant_tool_call"
               PROVE  \E j \in i + 1 .. n : M[j] = Result(M[i])
    OBVIOUS
  <2>1. PICK j \in i + 1 .. n : L[j] = Result(L[i])
    BY <1>3, <1>5
  <2>2. j \in 1 .. n
    BY <1>1, <1>5, <2>1
  <2> QED
    BY <1>4, <1>5, <2>1, <2>2
<1>7. n <= Len(M) /\ \A i \in 1 .. n : M[i] # Spoiled
  BY <1>1, <1>2, <1>3, <1>4
<1>8. \E i \in 1 .. n : M[i].turn = t /\ M[i].step = 0
  BY <1>3, <1>4
<1> QED
  BY <1>1, <1>6, <1>7, <1>8 DEF ShownWhole

\* A context is built of whole lines, the turn's own among them.
LEMMA ShownWholeBuilt ==
  ASSUME IInv, TalkInv, NEW t \in Turns, log' = log, turn[t].pc = "context",
         Log!Readable(Thread(t)), turn'[t].thread = turn[t].thread,
         turn'[t].seen = Len(log[Thread(t)])
  PROVE  ShownWhole(t)'
<1> DEFINE L == log[Thread(t)]
           e == [type |-> OpeningType(t), turn |-> t, step |-> 0, pos |-> 0]
<1>1. Thread(t) \in Threads /\ Thread(t)' = Thread(t)
  BY TurnTypes DEF Thread, IInv
<1>2. L \in Seq(FileLine) /\ DOMAIN L = 1 .. Len(L) /\ Len(L) \in Nat
  BY <1>1, LogTypes DEF IInv, TypeOK
<1>3. \A i \in 1 .. Len(L) : L[i] # Spoiled
  BY <1>2 DEF Log!Readable
<1>4. Has(Thread(t), e)
  BY DEF IInv, OnFile, Ended
<1>5. PICK i \in 1 .. Len(L) : L[i] \in {e, Spoiled}
  BY <1>2, <1>4 DEF Has, Holds
<1>6. L[i].turn = t /\ L[i].step = 0
  BY <1>3, <1>5
<1>7. ASSUME NEW k \in Talk(L, t), L[k].type = "assistant_tool_call"
      PROVE  \E j \in k + 1 .. Len(L) : L[j] = Result(L[k])
  <2>1. AnsweredIn(L, t, k)
    BY <1>7 DEF TalkInv, Talks, Stopped, Called
  <2>2. PICK j \in DOMAIN L : k < j /\ L[j] \in {Result(L[k]), Spoiled}
    BY <2>1 DEF AnsweredIn
  <2>3. k \in Nat
    BY <1>2, TalkEvents
  <2>4. j \in k + 1 .. Len(L)
    BY <1>2, <2>2, <2>3
  <2> QED
    BY <1>2, <1>3, <2>2, <2>4
<1> QED
  BY <1>1, <1>2, <1>3, <1>6, <1>7 DEF ShownWhole

\* A turn speaks only while it waits for an append, and only by its own.
LEMMA SpeakersWait ==
  ASSUME IInv, \A th \in Threads : Grown(th), NEW s \in Turns, Speaks(s)
  PROVE  /\ turn[s].pc \in Appending /\ log' # log
         /\ \A t \in Turns : Log!Commit(t, Thread(t)) => t = s
<1>1. Thread(s) \in Threads
  BY TurnTypes DEF IInv
<1>2. PICK i \in New(Thread(s)) : log'[Thread(s)][i] # Spoiled /\ log'[Thread(s)][i].turn = s
  BY DEF Speaks
<1>3. turn[s].pc \in Appending
  BY <1>1, <1>2, NewOfTurn
<1>4. log' # log
  BY <1>2 DEF New
<1>5. ASSUME NEW t \in Turns, Log!Commit(t, Thread(t))
      PROVE  t = s
  <2>1. Thread(t) \in Threads
    BY TurnTypes DEF IInv
  <2>2. Thread(t) = Thread(s)
    BY <1>1, <1>2, <1>5, <2>1 DEF New, Log!Commit, Log!TypeOK, IInv, TypeOK
  <2>3. /\ queue[Thread(s)] # <<>> /\ Head(queue[Thread(s)]).by = t
        /\ log'[Thread(s)] = Append(log[Thread(s)], Log!NextLine(Thread(s)))
    BY <1>5, <2>1, <2>2 DEF Log!Commit, Log!TypeOK, IInv, TypeOK
  <2> DEFINE x == Log!NextLine(Thread(s))
  <2>4. x \in {Spoiled, EventNow(t, Awaited(t))} /\ x \in FileLine
    BY <1>1, <2>3, NextLineOwner DEF IInv
  <2>5. log[Thread(s)] \in Seq(FileLine) /\ i = Len(log[Thread(s)]) + 1
    BY <1>1, <1>2, GrownFacts
  <2> HIDE DEF x
  <2>6. log'[Thread(s)] = Append(log[Thread(s)], x)
    BY <2>3 DEF x
  <2>7. log'[Thread(s)][i] = x
    BY <2>4, <2>5, <2>6, QueueAppend
  <2> QED
    BY <1>2, <2>4, <2>7 DEF EventNow
<1> QED
  BY <1>3, <1>4, <1>5

\* A tool still runs for the call at hand.
LEMMA RunsCallStays ==
  ASSUME TalkInv, NEW t \in Turns,
         turn'[t].pc \in {"calling", "running", "progressing", "summarising", "noting"} =>
           /\ turn'[t].plan = turn[t].plan /\ turn'[t].pos = turn[t].pos
           /\ \/ turn[t].pc \in {"calling", "running", "progressing", "summarising", "noting"}
              \/ turn[t].plan[turn[t].pos] = "call"
  PROVE  RunsCall(t)'
BY DEF TalkInv, RunsCall

\* What is said of a turn stays said while it stands still and others log.
LEMMA StandsStill ==
  ASSUME IInv, TalkInv, NEW s \in Turns, \A th \in Threads : Grown(th),
         turn'[s] = turn[s], ~Speaks(s)
  PROVE  Talks(s)' /\ RunsCall(s)' /\ Replies(s)' /\ ShownWhole(s)'
<1>1. turn[s].pos \in Nat
  BY TurnTypes DEF IInv
<1>2. Called(s)' <=> Called(s)
  BY DEF Called
<1>3. Talks(s)'
  BY <1>2, TalksStays
<1>4. Replies(s)'
  BY <1>1, RepliesStay
<1> QED
  BY <1>3, <1>4, RunsCallStays, ShownWholeStays

\* A step of t keeps the invariant if it keeps what is said of t.
LEMMA TalkStep ==
  ASSUME IInv, TalkInv, NEW t \in Turns, \A th \in Threads : Grown(th),
         \A s \in Turns : s # t => turn'[s] = turn[s] /\ ~Speaks(s),
         turn'[t].thread = turn[t].thread, Talks(t)', RunsCall(t)', Replies(t)', ShownWhole(t)'
  PROVE  TalkInv'
<1>1. \A th \in Threads : InOrder(th)' /\ Belongs(th)'
  BY InOrderStays, BelongsStays
<1>2. \A s \in Turns : Talks(s)' /\ RunsCall(s)' /\ Replies(s)' /\ ShownWhole(s)'
  BY StandsStill
<1> QED
  BY <1>1, <1>2 DEF TalkInv

\* The steps of a turn that stays at its action and at its final_text.
Plain(t) ==
  LET p == turn[t].pc
      q == turn'[t].pc IN
  \/ q \in Stopped
  \/ q = "opening" /\ p = "idle"
  \/ q = "context" /\ (p = "opening" \/ (p = "acting" /\ turn[t].final = 0))
  \/ q \in {"compacting", "deciding"} /\ p \in {"context", "compacting"}
  \/ q = "done" /\ p \in {"deciding", "acting"}
  \/ q = "calling" /\ p = "acting" /\ turn[t].plan[turn[t].pos] = "call"
  \/ q = "routing" /\ p = "acting"
  \/ q = "running" /\ p \in {"calling", "noting", "summarising"}
  \/ q = "progressing" /\ p = "running"
  \/ q = "summarising" /\ p = "progressing"
  \/ q = "noting" /\ p = "summarising"
  \/ q = "returned" /\ p \in {"running", "routing", "progressing", "noting", "summarising"}
  \/ q = "recording" /\ p = "returned"

\* Such a step keeps what is said of the turn's calls, results and replies.
LEMMA PlainKeeps ==
  ASSUME IInv, TalkInv, NEW t \in Turns, \A th \in Threads : Grown(th), Plain(t),
         turn'[t].thread = turn[t].thread, turn'[t].steps = turn[t].steps,
         turn'[t].pc \notin Ended => turn'[t].plan = turn[t].plan,
         turn'[t].pos = turn[t].pos, turn'[t].final = turn[t].final
  PROVE  Talks(t)' /\ RunsCall(t)' /\ Replies(t)'
<1>1. turn[t].pos \in Nat /\ RunsCall(t)
  BY TurnTypes DEF IInv, TalkInv
<1> DEFINE p == turn[t].pc
           q == turn'[t].pc
<1>2. Talks(t)'
  <2>1. q \notin Stopped => p \notin Stopped
    BY DEF Plain, Stopped
  <2>2. q \notin Stopped /\ Called(t) => Called(t)'
    BY <1>1 DEF Plain, RunsCall, Called, Ended
  <2>3. q \notin Stopped /\ p \in Appending =>
          Awaited(t) # "tool_result" /\ (Awaited(t) = "assistant_tool_call" => Called(t)')
    <3>1. q \notin Stopped /\ p \in Appending => p # "recording"
      BY DEF Plain, Stopped, Appending, After
    <3>2. q \notin Stopped /\ p = "calling" => Called(t)'
      BY DEF Plain, Called
    <3> QED
      BY <3>1, <3>2, AwaitedTypes
  <2> QED
    BY <2>1, <2>2, <2>3, TalksStays
<1>3. RunsCall(t)'
  BY RunsCallStays DEF Plain, Stopped, Ended
<1>4. Replies(t)'
  <2>1. q \notin Stopped =>
          /\ p \notin Stopped /\ p # "replying" /\ q # "replying"
          /\ q \in Undecided => p \in Undecided \/ turn[t].final = 0
          /\ q \notin Undecided \cup {"done"} => p \notin Undecided \cup {"done"}
    BY DEF Plain, Stopped, Undecided
  <2> QED
    BY <1>1, <2>1, RepliesStay
<1> QED
  BY <1>2, <1>3, <1>4

LEMMA TalkInit == Init => TalkInv
<1> SUFFICES ASSUME Init
             PROVE  TalkInv
  OBVIOUS
<1>1. \A t \in Turns : /\ turn[t].pc = "idle" /\ turn[t].final = 0
                       /\ log[Thread(t)] = <<>>
  BY InitType, TurnTypes DEF Init, Log!Init
<1>2. \A th \in Threads : InOrder(th) /\ Belongs(th)
  BY DEF Init, Log!Init, InOrder, Belongs, Talk
<1>3. \A t \in Turns : Talks(t) /\ RunsCall(t) /\ ShownWhole(t)
  BY <1>1 DEF Talks, RunsCall, ShownWhole, Talk
<1>4. \A t \in Turns : Replies(t)
  BY <1>1 DEF Replies, Messages, Undecided
<1> QED
  BY <1>2, <1>3, <1>4 DEF TalkInv

\* An append that returns: the action at hand goes on, or the next one is at hand.
LEMMA AppendedTalk ==
  ASSUME IInv, TalkInv, NEW t \in Turns, Appended(t)
  PROVE  Talks(t)' /\ RunsCall(t)' /\ Replies(t)' /\ ShownWhole(t)'
<1> DEFINE p == IF turn[t].pc \in {"recording", "replying"} THEN turn[t].pos + 1
                                                           ELSE turn[t].pos
           u == [turn[t] EXCEPT !.pc = After[turn[t].pc], !.pos = p]
<1>1. /\ turn[t] \in Turn /\ turn[t].pc \in Appending /\ Log!Commit(t, Thread(t))
      /\ Thread(t) \in Threads /\ turn[t].pos \in Nat
  BY TurnTypes DEF Appended, IInv
<1>2. /\ turn'[t] = u
      /\ u.thread = turn[t].thread
      /\ u.pc = After[turn[t].pc] /\ u.steps = turn[t].steps /\ u.plan = turn[t].plan
      /\ u.pos = p /\ u.final = turn[t].final
  BY <1>1 DEF Appended, IInv, TypeOK, Turn
<1>3. \A th \in Threads : Grown(th)
  BY <1>1 DEF Log!Commit, Log!TypeOK, IInv, TypeOK, Grown
<1> HIDE DEF u
<1>4. CASE turn[t].pc \notin {"recording", "replying"}
  <2>1. u.pos = turn[t].pos /\ Plain(t) /\ u.pc \notin {"compacting", "deciding"}
    BY <1>1, <1>2, <1>4 DEF Plain, Appending, After
  <2> QED
    BY <1>2, <1>3, <2>1, PlainKeeps, ShownWholeStays
<1>5. CASE turn[t].pc \in {"recording", "replying"}
  <2>1. u.pos = turn[t].pos + 1 /\ u.pc = "acting"
    BY <1>2, <1>5 DEF After
  <2>2. Talks(t)'
    BY <1>2, <1>5, <2>1, TalksRecorded
  <2>3. RunsCall(t)' /\ ShownWhole(t)'
    BY <1>2, <1>3, <2>1, RunsCallStays, ShownWholeStays
  <2>4. Replies(t)'
    <3>1. CASE turn[t].pc = "replying"
      BY <1>2, <2>1, <3>1, RepliesAppended
    <3>2. CASE turn[t].pc = "recording"
      BY <1>1, <1>2, <1>3, <2>1, <3>2, RepliesStay DEF Stopped, Undecided
    <3> QED
      BY <1>5, <3>1, <3>2
  <2> QED
    BY <2>2, <2>3, <2>4
<1> QED
  BY <1>4, <1>5

\* Every step keeps the invariant.
LEMMA TalkInvStep ==
  ASSUME IInv, TalkInv, [Next]_vars
  PROVE  TalkInv'
<1>1. /\ TypeOK
      /\ \A t \in Turns : turn[t] \in Turn /\ Thread(t) \in Threads
      /\ \A t \in Turns : \A u : turn' = [turn EXCEPT ![t] = u] =>
           turn'[t] = u /\ \A s \in Turns : s # t => turn'[s] = turn[s]
  BY TurnTypes DEF IInv, TypeOK
<1>2. ASSUME NEW t \in Turns, NEW u, turn' = [turn EXCEPT ![t] = u],
             log' = log \/ Log!Commit(t, Thread(t))
      PROVE  /\ \A th \in Threads : Grown(th)
             /\ \A s \in Turns : s # t => turn'[s] = turn[s] /\ ~Speaks(s)
  <2>1. \A th \in Threads : Grown(th)
    BY <1>1, <1>2 DEF Log!Commit, Log!TypeOK, TypeOK, Grown
  <2> QED
    BY <1>1, <1>2, <2>1, SpeakersWait
<1>3. ASSUME NEW t \in Turns, NEW u, turn' = [turn EXCEPT ![t] = u],
             log' = log \/ Log!Commit(t, Thread(t)), Plain(t),
             u.thread = turn[t].thread, u.steps = turn[t].steps,
             u.pc \notin Ended => u.plan = turn[t].plan,
             u.pos = turn[t].pos, u.final = turn[t].final,
             u.pc \in {"compacting", "deciding"} =>
               turn[t].pc = "compacting" /\ u.seen = turn[t].seen
      PROVE  TalkInv'
  <2>1. turn'[t] = u
    BY <1>1, <1>3
  <2>2. /\ \A th \in Threads : Grown(th)
        /\ \A s \in Turns : s # t => turn'[s] = turn[s] /\ ~Speaks(s)
    BY <1>2, <1>3
  <2>3. Talks(t)' /\ RunsCall(t)' /\ Replies(t)'
    BY <1>3, <2>1, <2>2, PlainKeeps
  <2>4. ShownWhole(t)'
    BY <1>3, <2>1, <2>2, ShownWholeStays
  <2> QED
    BY <1>3, <2>1, <2>2, <2>3, <2>4, TalkStep
<1>4. ASSUME NEW t \in Turns, NEW pc, Becomes(t, [turn[t] EXCEPT !.pc = pc]),
             LET p == turn[t].pc IN
             \/ pc = "context" /\ p = "acting" /\ turn[t].final = 0
             \/ pc = "deciding" /\ p = "compacting"
             \/ pc = "routing" /\ p = "acting"
             \/ pc = "running" /\ p = "summarising"
             \/ pc = "returned" /\ p \in {"running", "routing", "summarising"}
      PROVE  TalkInv'
  <2> DEFINE u == [turn[t] EXCEPT !.pc = pc]
  <2>1. /\ u.pc = pc /\ u.thread = turn[t].thread /\ u.steps = turn[t].steps
        /\ u.plan = turn[t].plan /\ u.pos = turn[t].pos /\ u.final = turn[t].final
        /\ u.seen = turn[t].seen
        /\ turn' = [turn EXCEPT ![t] = u] /\ log' = log
    BY <1>1, <1>4 DEF Turn, Becomes
  <2> HIDE DEF u
  <2>2. turn'[t] = u
    BY <1>1, <2>1
  <2>3. Plain(t)
    BY <1>4, <2>1, <2>2 DEF Plain
  <2>4. pc \in {"compacting", "deciding"} => turn[t].pc = "compacting"
    BY <1>4
  <2> QED
    BY <1>3, <2>1, <2>3, <2>4
<1>19. ASSUME NEW t \in Turns, NEW pc \in Stopped \cup {"done"}, pc \in Ended,
              turn' = [turn EXCEPT ![t] = Over(turn[t], pc)],
              log' = log \/ Log!Commit(t, Thread(t)),
              pc = "done" => turn[t].pc \in {"deciding", "acting"}
       PROVE  TalkInv'
  <2> DEFINE u == Over(turn[t], pc)
  <2>1. /\ u.pc = pc /\ u.thread = turn[t].thread /\ u.steps = turn[t].steps
        /\ u.pos = turn[t].pos /\ u.final = turn[t].final
    BY <1>1, <1>19, OverFacts
  <2>2. turn' = [turn EXCEPT ![t] = u]
    BY <1>19
  <2> HIDE DEF u
  <2>3. turn'[t] = u
    BY <1>1, <2>2
  <2>4. Plain(t) /\ u.pc \notin {"compacting", "deciding"}
    BY <1>19, <2>1, <2>3 DEF Plain, Stopped
  <2> QED
    BY <1>3, <1>19, <2>1, <2>2, <2>4
<1>5. ASSUME NEW t \in Turns, NEW e, NEW pc, Log!Request(t, Thread(t), e),
             turn' = [turn EXCEPT ![t].pc = pc],
             LET p == turn[t].pc IN
             \/ pc = "opening" /\ p = "idle"
             \/ pc = "calling" /\ p = "acting" /\ turn[t].plan[turn[t].pos] = "call"
             \/ pc = "noting" /\ p = "summarising"
             \/ pc = "recording" /\ p = "returned"
      PROVE  TalkInv'
  <2> DEFINE u == [turn[t] EXCEPT !.pc = pc]
  <2>1. /\ u.pc = pc /\ u.thread = turn[t].thread /\ u.steps = turn[t].steps
        /\ u.plan = turn[t].plan /\ u.pos = turn[t].pos /\ u.final = turn[t].final
        /\ turn' = [turn EXCEPT ![t] = u] /\ log' = log
    BY <1>1, <1>5 DEF Turn, TypeOK, Log!Request
  <2> HIDE DEF u
  <2>2. turn'[t] = u
    BY <1>1, <2>1
  <2>3. Plain(t) /\ u.pc \notin {"compacting", "deciding"}
    BY <1>5, <2>1, <2>2 DEF Plain
  <2> QED
    BY <1>3, <2>1, <2>3
<1>6. ASSUME NEW t \in Turns, Appended(t)
      PROVE  TalkInv'
  <2> DEFINE u == [turn[t] EXCEPT
               !.pc = After[@],
               !.pos = IF turn[t].pc \in {"recording", "replying"} THEN @ + 1 ELSE @]
  <2>1. /\ turn' = [turn EXCEPT ![t] = u] /\ Log!Commit(t, Thread(t))
        /\ u.thread = turn[t].thread
    <3>1. turn' = [turn EXCEPT ![t] = u] /\ Log!Commit(t, Thread(t))
      BY <1>1, <1>6 DEF Appended, TypeOK
    <3>2. u.thread = turn[t].thread
      BY <1>1 DEF Turn
    <3> QED
      BY <3>1, <3>2
  <2> HIDE DEF u
  <2>2. turn'[t].thread = turn[t].thread
    BY <1>1, <2>1
  <2> QED
    BY <1>2, <1>6, <2>1, <2>2, AppendedTalk, TalkStep
<1>7. ASSUME NEW t \in Turns, AppendRaises(t)
      PROVE  TalkInv'
  <2>2. log' = log \/ Log!Commit(t, Thread(t))
    BY <1>7 DEF AppendRaises, Log!Abort
  <2>3. turn' = [turn EXCEPT ![t] = IF turn[t].pc \in Catching THEN Caught(turn[t])
                                                               ELSE Over(turn[t], "failed")]
    BY <1>7 DEF AppendRaises
  <2>4. CASE turn[t].pc \notin Catching
    BY <1>19, <2>2, <2>3, <2>4 DEF Stopped, Ended
  <2>5. CASE turn[t].pc \in Catching
    <3> DEFINE u == Caught(turn[t])
    <3>1. /\ u.pc = "returned"
          /\ u.thread = turn[t].thread /\ u.steps = turn[t].steps /\ u.plan = turn[t].plan
          /\ u.pos = turn[t].pos /\ u.final = turn[t].final
      BY <1>1 DEF Turn, Caught
    <3>2. turn' = [turn EXCEPT ![t] = u]
      BY <2>3, <2>5
    <3> HIDE DEF u
    <3>3. turn'[t] = u
      BY <1>1, <3>2
    <3>4. Plain(t) /\ u.pc \notin {"compacting", "deciding"}
      BY <2>5, <3>1, <3>3 DEF Plain, Catching
    <3> QED
      BY <1>3, <2>2, <3>1, <3>2, <3>4
  <2> QED
    BY <2>4, <2>5
<1>8. ASSUME NEW t \in Turns, BuildContext(t)
      PROVE  TalkInv'
  <2>1. PICK pc \in {"compacting", "deciding"} :
          Becomes(t, [turn[t] EXCEPT !.pc = pc, !.seen = EventsRead(Thread(t)),
                                     !.memory = snapshot[Thread(t)]])
    BY <1>8 DEF BuildContext
  <2> DEFINE u == [turn[t] EXCEPT !.pc = pc, !.seen = EventsRead(Thread(t)),
                                  !.memory = snapshot[Thread(t)]]
  <2>2. /\ u.pc = pc /\ u.thread = turn[t].thread /\ u.steps = turn[t].steps
        /\ u.plan = turn[t].plan /\ u.pos = turn[t].pos /\ u.final = turn[t].final
        /\ u.seen = Len(log[Thread(t)])
        /\ turn' = [turn EXCEPT ![t] = u] /\ log' = log
        /\ turn[t].pc = "context" /\ Log!Readable(Thread(t))
    <3>1. /\ u.pc = pc /\ u.thread = turn[t].thread /\ u.steps = turn[t].steps
          /\ u.plan = turn[t].plan /\ u.pos = turn[t].pos /\ u.final = turn[t].final
      BY <1>1 DEF Turn
    <3>2. u.seen = Len(log[Thread(t)])
      BY <1>1 DEF Turn, EventsRead
    <3>3. turn' = [turn EXCEPT ![t] = u] /\ log' = log
      BY <2>1 DEF Becomes
    <3>4. turn[t].pc = "context" /\ Log!Readable(Thread(t))
      BY <1>8 DEF BuildContext
    <3> QED
      BY <3>1, <3>2, <3>3, <3>4
  <2> HIDE DEF u
  <2>3. turn'[t] = u
    BY <1>1, <2>2
  <2>4. /\ \A th \in Threads : Grown(th)
        /\ \A s \in Turns : s # t => turn'[s] = turn[s] /\ ~Speaks(s)
    BY <1>2, <2>2
  <2>5. Plain(t)
    BY <2>2, <2>3 DEF Plain
  <2>6. Talks(t)' /\ RunsCall(t)' /\ Replies(t)'
    BY <2>2, <2>3, <2>4, <2>5, PlainKeeps
  <2>7. ShownWhole(t)'
    BY <2>2, <2>3, ShownWholeBuilt
  <2> QED
    BY <2>2, <2>3, <2>4, <2>6, <2>7, TalkStep
<1>9. ASSUME NEW t \in Turns, Decide(t)
      PROVE  TalkInv'
  <2>1. PICK plan \in Decisions[t] :
          Becomes(t, [turn[t] EXCEPT !.pc = "acting", !.steps = @ + 1, !.plan = plan,
                                     !.pos = 1, !.final = 0, !.seen = 0, !.memory = {}])
    BY <1>9 DEF Decide
  <2> DEFINE u == [turn[t] EXCEPT !.pc = "acting", !.steps = @ + 1, !.plan = plan,
                                  !.pos = 1, !.final = 0, !.seen = 0, !.memory = {}]
  <2>2. /\ u.pc = "acting" /\ u.thread = turn[t].thread /\ u.steps = turn[t].steps + 1
        /\ u.pos = 1 /\ u.final = 0
        /\ turn' = [turn EXCEPT ![t] = u] /\ log' = log
        /\ turn[t].pc = "deciding"
    <3>1. turn' = [turn EXCEPT ![t] = u] /\ log' = log /\ turn[t].pc = "deciding"
      BY <1>9, <2>1 DEF Becomes, Decide
    <3>2. /\ u.pc = "acting" /\ u.thread = turn[t].thread /\ u.steps = turn[t].steps + 1
          /\ u.pos = 1 /\ u.final = 0
      BY <1>1 DEF Turn
    <3> QED
      BY <3>1, <3>2
  <2> HIDE DEF u
  <2>3. turn'[t] = u
    BY <1>1, <2>2
  <2>4. /\ \A th \in Threads : Grown(th)
        /\ \A s \in Turns : s # t => turn'[s] = turn[s] /\ ~Speaks(s)
    BY <1>2, <2>2
  <2>5. Talks(t)' /\ Replies(t)'
    BY <2>2, <2>3, TalksDecided, RepliesDecided
  <2>6. RunsCall(t)' /\ ShownWhole(t)'
    BY <2>2, <2>3, <2>4, RunsCallStays, ShownWholeStays
  <2> QED
    BY <2>2, <2>3, <2>4, <2>5, <2>6, TalkStep
<1>10. ASSUME NEW t \in Turns, NoDecision(t)
       PROVE  TalkInv'
  <2>1. turn[t].pc = "deciding" /\ turn[t].final = 0
    BY <1>10 DEF NoDecision, TalkInv, Replies, Undecided, Stopped
  <2>2. [turn[t] EXCEPT !.final = 0] = turn[t]
    BY <1>1, <2>1 DEF Turn
  <2>3. Becomes(t, Over(turn[t], "done"))
    BY <1>10, <2>2 DEF NoDecision
  <2> QED
    BY <1>19, <2>1, <2>3 DEF Becomes, Ended
<1>11. ASSUME NEW t \in Turns, Respond(t)
       PROVE  TalkInv'
  <2> DEFINE u == [turn[t] EXCEPT !.pc = "replying", !.final = FinalText(turn[t])]
  <2>1. /\ u.pc = "replying" /\ u.thread = turn[t].thread /\ u.steps = turn[t].steps
        /\ u.pos = turn[t].pos /\ u.final = turn[t].pos
        /\ turn' = [turn EXCEPT ![t] = u] /\ log' = log /\ turn[t].pc = "acting"
    <3>1. u.thread = turn[t].thread /\ u.pc = "replying" /\ u.final = turn[t].pos
      BY <1>1 DEF Turn, FinalText
    <3>2. u.steps = turn[t].steps /\ u.pos = turn[t].pos
      BY <1>1 DEF Turn
    <3>3. turn' = [turn EXCEPT ![t] = u]
      BY <1>1, <1>11 DEF TypeOK, Respond
    <3>4. log' = log /\ turn[t].pc = "acting"
      BY <1>11 DEF Respond, Log!Request, Acts
    <3> QED
      BY <3>1, <3>2, <3>3, <3>4
  <2> HIDE DEF u
  <2>2. turn'[t] = u
    BY <1>1, <2>1
  <2>3. /\ \A th \in Threads : Grown(th)
        /\ \A s \in Turns : s # t => turn'[s] = turn[s] /\ ~Speaks(s)
    BY <1>2, <2>1
  <2>4. Talks(t)'
    BY <2>1, <2>2, <2>3, TalksStays DEF Stopped, Called, Appending, After
  <2>5. Replies(t)'
    BY <2>1, <2>2, RepliesResponded
  <2>6. RunsCall(t)' /\ ShownWhole(t)'
    BY <2>1, <2>2, <2>3, RunsCallStays, ShownWholeStays
  <2> QED
    BY <2>1, <2>2, <2>3, <2>4, <2>5, <2>6, TalkStep
<1>12. ASSUME NEW t \in Turns, ToolProgress(t)
       PROVE  TalkInv'
  <2> DEFINE u == [turn[t] EXCEPT !.pc = "progressing", !.ticks = @ + 1]
  <2>1. /\ u.pc = "progressing" /\ u.thread = turn[t].thread /\ u.steps = turn[t].steps
        /\ u.plan = turn[t].plan /\ u.pos = turn[t].pos /\ u.final = turn[t].final
        /\ turn' = [turn EXCEPT ![t] = u] /\ log' = log /\ turn[t].pc = "running"
    <3>1. /\ u.pc = "progressing" /\ u.thread = turn[t].thread /\ u.steps = turn[t].steps
          /\ u.plan = turn[t].plan /\ u.pos = turn[t].pos /\ u.final = turn[t].final
      BY <1>1 DEF Turn
    <3>2. turn' = [turn EXCEPT ![t] = u]
      BY <1>1, <1>12 DEF TypeOK, ToolProgress
    <3>3. log' = log /\ turn[t].pc = "running"
      BY <1>12 DEF ToolProgress, Log!Request
    <3> QED
      BY <3>1, <3>2, <3>3
  <2> HIDE DEF u
  <2>2. turn'[t] = u
    BY <1>1, <2>1
  <2>3. Plain(t) /\ u.pc \notin {"compacting", "deciding"}
    BY <2>1, <2>2 DEF Plain
  <2> QED
    BY <1>3, <2>1, <2>3
<1>13. ASSUME NEW t \in Turns, Cancel(t)
       PROVE  TalkInv'
  <2>1. turn' = [turn EXCEPT ![t] = Over(turn[t], "cancelled")]
    BY <1>13 DEF Cancel
  <2>2. log' = log \/ Log!Commit(t, Thread(t))
    BY <1>13 DEF Cancel, GivenUp, Log!Abort
  <2> QED
    BY <1>19, <2>1, <2>2 DEF Stopped, Ended
<1>14. ASSUME NEW t \in Turns,
              \/ Start(t) \/ CallFunction(t) \/ RecordResult(t)
       PROVE  TalkInv'
  BY <1>5, <1>14 DEF Start, CallFunction, Acts, RecordResult, Logs
<1>15. ASSUME NEW t \in Turns, Summarised(t)
       PROVE  TalkInv'
  <2>1. CASE Logs(t, "assistant_progress", "noting")
    BY <1>5, <1>15, <2>1 DEF Summarised, Logs
  <2>2. CASE Becomes(t, [turn[t] EXCEPT !.pc = "running"])
    BY <1>4, <1>15, <2>2 DEF Summarised
  <2> QED
    BY <1>15, <2>1, <2>2 DEF Summarised
<1>16. ASSUME NEW t \in Turns,
              Compacted(t) \/ Route(t) \/ ActionReturns(t) \/ SummaryRaises(t)
       PROVE  TalkInv'
  BY <1>4, <1>16 DEF Compacted, Route, Acts, ActionReturns, SummaryRaises, Caught
<1>20. ASSUME NEW t \in Turns, ContextRaises(t) \/ EngineRaises(t)
       PROVE  TalkInv'
  BY <1>19, <1>20 DEF ContextRaises, EngineRaises, Becomes, Stopped, Ended
<1>21. ASSUME NEW t \in Turns, EndStep(t)
       PROVE  TalkInv'
  <2>1. CASE turn[t].final # 0 \/ LastStep(turn[t])
    BY <1>19, <1>21, <2>1 DEF EndStep, Becomes, Ended
  <2>2. CASE ~(turn[t].final # 0 \/ LastStep(turn[t]))
    <3>1. Becomes(t, [turn[t] EXCEPT !.pc = "context"]) /\ turn[t].final = 0
      BY <1>21, <2>2 DEF EndStep
    <3>2. turn[t].pc = "acting"
      BY <1>21 DEF EndStep
    <3> QED
      BY <1>4, <3>1, <3>2
  <2> QED
    BY <2>1, <2>2
<1>17. CASE Crash
  <2>1. \A th \in Threads : Grown(th)
    BY <1>1, <1>17, CrashEffect DEF Crash, TypeOK, Grown
  <2>5. \A s \in Turns :
          /\ Over(turn[s], "dead").pc = "dead"
          /\ Over(turn[s], "dead").thread = turn[s].thread
          /\ Over(turn[s], "dead").steps = turn[s].steps
          /\ Over(turn[s], "dead").pos = turn[s].pos
          /\ Over(turn[s], "dead").final = turn[s].final
    BY <1>1, OverFacts DEF Ended
  <2>6. \A s \in Turns : turn'[s] = IF Active(s) THEN Over(turn[s], "dead") ELSE turn[s]
    BY <1>17 DEF Crash
  <2>2. ASSUME NEW s \in Turns
        PROVE  Talks(s)' /\ RunsCall(s)' /\ Replies(s)' /\ ShownWhole(s)'
    <3>1. CASE Active(s)
      <4>1. /\ turn'[s].pc = "dead" /\ turn'[s].thread = turn[s].thread
            /\ turn'[s].steps = turn[s].steps
            /\ turn'[s].pos = turn[s].pos /\ turn'[s].final = turn[s].final
        BY <3>1, <2>5, <2>6
      <4>2. Plain(s)
        BY <4>1 DEF Plain, Stopped
      <4>3. Talks(s)' /\ RunsCall(s)' /\ Replies(s)'
        BY <2>1, <4>1, <4>2, PlainKeeps DEF Ended
      <4> QED
        BY <2>1, <4>1, <4>3, ShownWholeStays
    <3>2. CASE ~Active(s)
      <4>1. turn'[s] = turn[s] /\ turn[s].pc \notin Appending
        BY <1>17, <3>2 DEF Crash, Active, Ended, Appending, After
      <4> QED
        BY <2>1, <4>1, SpeakersWait, StandsStill
    <3> QED
      BY <3>1, <3>2
  <2>3. \A s \in Turns : turn'[s].thread = turn[s].thread
    BY <2>5, <2>6
  <2>4. \A th \in Threads : InOrder(th)' /\ Belongs(th)'
    BY <2>1, <2>3, InOrderStays, BelongsStays
  <2> QED
    BY <2>2, <2>4 DEF TalkInv
<1>18. CASE UNCHANGED vars
  <2>1. turn' = turn /\ log' = log /\ \A th \in Threads : Grown(th)
    BY <1>18 DEF vars, Grown
  <2>2. \A s \in Turns : turn'[s] = turn[s] /\ ~Speaks(s)
    BY <2>1, SpeakersWait
  <2>3. \A th \in Threads : InOrder(th)' /\ Belongs(th)'
    BY <2>1, InOrderStays, BelongsStays
  <2> QED
    BY <2>1, <2>2, <2>3, StandsStill DEF TalkInv
<1> QED
  BY <1>6, <1>7, <1>8, <1>9, <1>10, <1>11, <1>12, <1>13, <1>14, <1>15, <1>16, <1>17, <1>18,
     <1>20, <1>21 DEF Next, Proceed

LEMMA TalkInvariance == Spec => [](IInv /\ TalkInv)
<1>1. Init => IInv /\ TalkInv
  BY InitInv, TalkInit
<1>2. IInv /\ TalkInv /\ [Next]_vars => (IInv /\ TalkInv)'
  BY InvStep, TalkInvStep
<1> QED
  BY <1>1, <1>2, PTL DEF Spec

\* A turn that ended by itself has answered each of its calls once, however other turns
\* of the thread came in between: neither a failed tool nor the step limit leaves a call
\* without a result.
THEOREM CallsAreAnswered == Spec => []CallsAnswered
<1>1. IInv /\ TalkInv => CallsAnswered
  <2> SUFFICES ASSUME IInv, TalkInv, NEW t \in Turns, turn[t].pc = "done",
                      NEW i \in DOMAIN log[Thread(t)],
                      log[Thread(t)][i].type = "assistant_tool_call",
                      log[Thread(t)][i].turn = t
               PROVE  LET L == log[Thread(t)] IN
                      \/ Cardinality({j \in i + 1 .. Len(L) : L[j] = Result(L[i])}) = 1
                      \/ \E j \in i + 1 .. Len(L) : L[j] = Spoiled
    BY DEF CallsAnswered
  <2> DEFINE L == log[Thread(t)]
  <2>1. /\ Thread(t) \in Threads
        /\ L \in Seq(FileLine) /\ DOMAIN L = 1 .. Len(L) /\ Len(L) \in Nat
    BY TurnTypes, LogTypes DEF IInv, TypeOK
  <2>2. i \in Talk(L, t) /\ i \in Nat
    BY <2>1 DEF Talk
  <2>3. AnsweredIn(L, t, i)
    BY <2>2 DEF TalkInv, Talks, Called, Stopped
  <2>4. PICK j \in DOMAIN L : i < j /\ L[j] \in {Result(L[i]), Spoiled}
    BY <2>3 DEF AnsweredIn
  <2>5. j \in i + 1 .. Len(L)
    BY <2>1, <2>2, <2>4
  <2>6. CASE L[j] = Result(L[i])
    <3>1. \A k \in DOMAIN L : L[k] = Result(L[i]) =>
            k \in Talk(L, t) /\ L[k].type = "tool_result"
      <4>1. L[i] \in Event
        BY <2>1, <2>2, TalkEvents
      <4> QED
        BY <4>1 DEF Result, Talk, Event
    <3>2. \A k \in DOMAIN L : L[k] = Result(L[i]) => k = j
      <4> SUFFICES ASSUME NEW k \in DOMAIN L, L[k] = Result(L[i]), k # j
                   PROVE  FALSE
        OBVIOUS
      <4>1. k < j \/ j < k
        BY <2>1
      <4>2. Sooner(L[k], L[j])
        BY <2>1, <2>6, <3>1, <4>1 DEF TalkInv, InOrder
      <4>3. L[k] = L[j] /\ L[k].type = "tool_result" /\ L[k].step \in Nat /\ L[k].pos \in Nat
        BY <2>1, <2>6, <3>1, TalkEvents
      <4> QED
        BY <4>2, <4>3 DEF Sooner
    <3>3. {k \in i + 1 .. Len(L) : L[k] = Result(L[i])} = {j}
      BY <2>1, <2>2, <2>5, <2>6, <3>2
    <3> QED
      BY <3>3, FS_Singleton
  <2>7. CASE L[j] = Spoiled
    BY <2>5, <2>7
  <2> QED
    BY <2>4, <2>6, <2>7
<1> QED
  BY <1>1, TalkInvariance, PTL

\* In the context that the engine is shown nothing of what its own turn has done is missing
\* but what a whole window of lines stands behind and a timer's event, and a call of the
\* turn that is in it has its result in it.
THEOREM TurnsAreShownTheirOwnWrites == Spec => []OwnWritesShown
<1>1. ASSUME IInv, TalkInv, NEW t \in Turns, turn[t].pc \in {"compacting", "deciding"}
      PROVE  LET L == log[Thread(t)]
                 Own == {i \in DOMAIN L : L[i] # Spoiled /\ L[i].turn = t} IN
             /\ \E i \in Own : L[i].step = 0
             /\ \A i \in Own :
                  /\ \/ i \in Context(t)
                     \/ i + Window <= turn[t].seen
                     \/ L[i].type = "system_event"
                  /\ i \in Context(t) /\ L[i].type = "assistant_tool_call" =>
                       \E j \in Context(t) : j > i /\ L[j] = Result(L[i])
  <2> DEFINE L == log[Thread(t)]
             Own == {i \in DOMAIN L : L[i] # Spoiled /\ L[i].turn = t}
             n == turn[t].seen
  <2>1. Thread(t) \in Threads /\ n \in Nat
    BY <1>1, TurnTypes DEF IInv, Turn
  <2>2. L \in Seq(FileLine) /\ DOMAIN L = 1 .. Len(L) /\ Len(L) \in Nat
    BY <1>1, <2>1, LogTypes DEF IInv, TypeOK
  <2>3. n <= Len(L) /\ \A i \in 1 .. n : L[i] # Spoiled
    BY <1>1 DEF TalkInv, ShownWhole
  <2>4. \E i \in Own : L[i].step = 0
    BY <1>1, <2>1, <2>2, <2>3 DEF TalkInv, ShownWhole
  <2>5. ASSUME NEW i \in Own
        PROVE  i \in Context(t) \/ i + Window <= n \/ L[i].type = "system_event"
    <3>1. i \in 1 .. n
      BY <1>1, <2>1, <2>2, <2>5 DEF IInv, Shown
    <3>2. L[i] \in Event
      BY <2>2, <2>5 DEF FileLine
    <3>3. L[i].type \in ContextTypes \/ L[i].type = "system_event"
      BY <3>2 DEF Event, EventType, ContextTypes
    <3>4. i + Window > n \/ i + Window <= n
      BY <2>1, <3>1, AgentRuntimeAssumption
    <3> QED
      BY <3>1, <3>3, <3>4 DEF Context
  <2>6. ASSUME NEW i \in Own, i \in Context(t), L[i].type = "assistant_tool_call"
        PROVE  \E j \in Context(t) : j > i /\ L[j] = Result(L[i])
    <3>1. i \in Talk(L, t)
      BY <2>6 DEF Talk
    <3>2. PICK j \in i + 1 .. n : L[j] = Result(L[i])
      BY <1>1, <2>6, <3>1 DEF TalkInv, ShownWhole
    <3>3. i \in 1 .. n /\ i + Window > n
      BY <2>6 DEF Context
    <3>4. j \in 1 .. n /\ j + Window > n /\ j > i
      BY <2>1, <3>2, <3>3, AgentRuntimeAssumption
    <3>5. L[i] \in Event
      BY <2>2, <2>6 DEF FileLine
    <3>6. L[j].type = "tool_result"
      BY <3>2, <3>5 DEF Result, Event
    <3> QED
      BY <3>2, <3>4, <3>6 DEF Context, ContextTypes
  <2> QED
    BY <2>4, <2>5, <2>6
<1>2. IInv /\ TalkInv => OwnWritesShown
  BY <1>1 DEF OwnWritesShown
<1> QED
  BY <1>2, TalkInvariance, PTL

\* What the caller is told and what the history shows of a turn's reply agree, also when
\* a step has several replies or actions behind its reply.
THEOREM RepliesAreOnFile == Spec => []ReplyOnFile
<1>1. IInv /\ TalkInv => ReplyOnFile
  <2> SUFFICES ASSUME IInv, TalkInv, NEW t \in Turns, turn[t].pc = "done"
               PROVE  LET L == log[Thread(t)]
                          N == {i \in DOMAIN L : L[i].type = "assistant_message"
                                                 /\ L[i].turn = t} IN
                      /\ \A i \in N : L[i].step = turn[t].steps /\ L[i].pos <= turn[t].final
                      /\ turn[t].final # 0 =>
                           \/ \E i \in N : L[i].pos = turn[t].final
                           \/ \E i \in DOMAIN L : L[i] = Spoiled
    BY DEF ReplyOnFile
  <2>1. Replies(t) /\ "done" \notin Stopped
    BY DEF TalkInv, Stopped
  <2> QED
    BY <2>1 DEF Replies, Messages, Has, Holds, Reply
<1> QED
  BY <1>1, TalkInvariance, PTL

\* The exchanges of a turn that a context shows: they are its talk, nothing of it is left
\* out in between, and no line among them is spoiled.
LEMMA ExchangeFacts ==
  ASSUME IInv, TalkInv, NEW t \in Turns, turn[t].pc \in {"compacting", "deciding"},
         NEW u \in Turns
  PROVE  LET L == log[Thread(t)] IN
         /\ L \in Seq(FileLine) /\ turn[t].seen \in Nat /\ turn[t].seen <= Len(L)
         /\ Exchanges(t, u) \subseteq Talk(L, u) \cap 1 .. turn[t].seen
         /\ \A i \in 1 .. turn[t].seen : i \in DOMAIN L /\ L[i] # Spoiled
         /\ \A i \in Exchanges(t, u) : \A k \in Talk(L, u) :
              i <= k /\ k <= turn[t].seen => k \in Exchanges(t, u)
<1> DEFINE L == log[Thread(t)]
           n == turn[t].seen
<1>1. L \in Seq(FileLine) /\ n \in Nat /\ DOMAIN L = 1 .. Len(L) /\ Len(L) \in Nat
  <2>1. turn[t] \in Turn /\ Thread(t) \in Threads
    BY TurnTypes DEF IInv
  <2>2. L \in Seq(FileLine)
    BY <2>1, LogTypes DEF IInv, TypeOK
  <2> QED
    BY <2>1, <2>2 DEF Turn
<1>2. n <= Len(L) /\ \A i \in 1 .. n : L[i] # Spoiled
  BY DEF TalkInv, ShownWhole
<1>3. \A i \in 1 .. n : i \in DOMAIN L
  BY <1>1, <1>2
<1>4. Exchanges(t, u) \subseteq Talk(L, u) \cap 1 .. n
  BY <1>3 DEF Exchanges, Context, Talk
<1>5. ASSUME NEW i \in Exchanges(t, u), NEW k \in Talk(L, u), i <= k, k <= n
      PROVE  k \in Exchanges(t, u)
  <2>1. i \in 1 .. n /\ i + Window > n
    BY DEF Exchanges, Context
  <2>2. k \in 1 .. n /\ k + Window > n
    BY <1>1, <1>5, <2>1, TalkEvents, AgentRuntimeAssumption
  <2> QED
    BY <2>2 DEF Exchanges, Context, Talk, ContextTypes
<1> QED
  BY <1>1, <1>2, <1>3, <1>4, <1>5

\* In every context the messages pair: a result stands right behind its call, as far as
\* its turn is concerned, and a call without its result is another turn's last.
THEOREM ContextsArePaired == Spec => []ContextIsPaired
<1>1. ASSUME IInv, TalkInv, NEW t \in Turns, turn[t].pc \in {"compacting", "deciding"},
             NEW u \in Turns, NEW i \in Exchanges(t, u)
      PROVE  LET L == log[Thread(t)]
                 Before == {j \in Exchanges(t, u) : j < i}
                 Behind == {j \in Exchanges(t, u) : j > i} IN
             IF L[i].type = "tool_result"
               THEN Before # {} => L[i] = Result(L[Max(Before)])
               ELSE IF Behind # {} THEN L[Min(Behind)] = Result(L[i]) ELSE u # t
  <2> DEFINE L == log[Thread(t)]
             n == turn[t].seen
             E == Exchanges(t, u)
             Before == {j \in E : j < i}
             Behind == {j \in E : j > i}
  <2>1. /\ L \in Seq(FileLine) /\ n \in Nat
        /\ E \subseteq Talk(L, u) /\ E \subseteq 1 .. n
        /\ \A k \in 1 .. n : k \in DOMAIN L /\ L[k] # Spoiled
        /\ \A k \in E : \A j \in Talk(L, u) : k <= j /\ j <= n => j \in E
    BY <1>1, ExchangeFacts
  <2>2. \A k \in Talk(L, u) :
          /\ k \in Nat /\ k \in DOMAIN L /\ L[k] \in Event /\ L[k].turn = u
          /\ L[k].step \in Nat /\ L[k].pos \in Nat
          /\ L[k].type = "assistant_tool_call" \/ L[k].type = "tool_result"
    BY <2>1, TalkEvents
  <2>3. Thread(t) \in Threads /\ Thread(u) = Thread(t)
    <3>1. Thread(t) \in Threads
      BY <1>1, TurnTypes DEF IInv
    <3>2. i \in DOMAIN L /\ L[i].turn = u /\ L[i] # Spoiled
      BY <2>1, <2>2
    <3> QED
      BY <1>1, <3>1, <3>2 DEF TalkInv, Belongs
  <2>4. \A j, k \in Talk(L, u) : j < k => Sooner(L[j], L[k])
    BY <1>1, <2>3 DEF TalkInv, InOrder
  <2>5. i \in Talk(L, u) /\ i \in 1 .. n
    BY <2>1
  <2>6. ASSUME L[i].type = "tool_result", Before # {}
        PROVE  L[i] = Result(L[Max(Before)])
    <3> DEFINE m == Max(Before)
               c == [L[i] EXCEPT !.type = "assistant_tool_call"]
    <3>1. m \in Before /\ \A y \in Before : m >= y
      <4>1. Before \in SUBSET (1 .. n)
        BY <2>1
      <4> HIDE DEF Before
      <4> QED
        BY <2>1, <2>6, <4>1, MaxMin
    <3> HIDE DEF m
    <3>2. Cause(L[i]) = c /\ c # L[i] /\ L[i] # Spoiled
      BY <2>1, <2>2, <2>5, <2>6 DEF Cause, Event
    <3>3. Precedes(Thread(t), c, i)
      BY <1>1, <2>2, <2>3, <2>5, <3>2 DEF IInv, Causality
    <3>4. PICK j \in 1 .. i - 1 : L[j] \in {c, Spoiled}
      BY <3>3 DEF Precedes
    <3>5. j \in 1 .. n /\ j < i /\ L[j] = c
      BY <2>1, <2>5, <3>4
    <3>6. /\ L[i] = Result(L[j]) /\ j \in Talk(L, u)
          /\ L[j].step = L[i].step /\ L[j].pos = L[i].pos
          /\ L[j].type = "assistant_tool_call"
      BY <2>1, <2>2, <2>5, <2>6, <3>5 DEF Result, Talk, Event
    <3>7. m \in Talk(L, u) /\ m \in E /\ m < i
      BY <2>1, <3>1
    <3>8. ~(j < m)
      <4> SUFFICES ASSUME j < m
                   PROVE  FALSE
        OBVIOUS
      <4>1. Sooner(L[j], L[m]) /\ Sooner(L[m], L[i])
        BY <2>4, <2>5, <3>6, <3>7
      <4>2. /\ L[m].step \in Nat /\ L[m].pos \in Nat
            /\ L[i].step \in Nat /\ L[i].pos \in Nat
        BY <2>2, <2>5, <3>7
      <4> QED
        BY <2>6, <3>6, <4>1, <4>2 DEF Sooner
    <3>9. ~(m < j)
      <4> SUFFICES ASSUME m < j
                   PROVE  FALSE
        OBVIOUS
      <4>1. j \in E
        BY <2>1, <2>2, <3>5, <3>6, <3>7
      <4> QED
        BY <2>2, <3>1, <3>5, <3>6, <3>7, <4>1
    <3>10. m = j
      BY <2>2, <3>6, <3>7, <3>8, <3>9
    <3> QED
      BY <3>6, <3>10 DEF m
  <2>7. ASSUME L[i].type # "tool_result", Behind # {}
        PROVE  L[Min(Behind)] = Result(L[i])
    <3> DEFINE k == Min(Behind)
    <3>1. k \in Behind /\ \A y \in Behind : k <= y
      <4>1. Behind \in SUBSET (1 .. n)
        BY <2>1
      <4> HIDE DEF Behind
      <4> QED
        BY <2>1, <2>7, <4>1, MaxMin
    <3> HIDE DEF k
    <3>2. k \in Talk(L, u) /\ k \in E /\ k > i /\ k \in 1 .. n
      BY <2>1, <3>1
    <3>3. L[i].type = "assistant_tool_call" /\ Sooner(L[i], L[k])
      BY <2>2, <2>4, <2>5, <2>7, <3>2
    <3>4. CASE L[k].step = L[i].step /\ L[k].pos = L[i].pos
      <4>1. L[k].type = "tool_result"
        BY <2>2, <2>5, <3>2, <3>3, <3>4 DEF Sooner
      <4>2. L[k] = Result(L[i])
        BY <2>2, <2>5, <3>2, <3>4, <4>1 DEF Result, Event
      <4> QED
        BY <4>2 DEF k
    <3>5. CASE ~(L[k].step = L[i].step /\ L[k].pos = L[i].pos)
      <4>1. Past(u, L[k]) \/ AtHand(u, L[k])
        BY <1>1, <2>3, <3>2 DEF TalkInv, Talks
      <4>2. turn[u].steps \in Nat /\ turn[u].pos \in Nat
        BY <1>1, TurnTypes, AgentRuntimeAssumption DEF IInv
      <4>3. Past(u, L[i])
        BY <2>2, <2>5, <3>2, <3>3, <3>5, <4>1, <4>2 DEF Sooner, Past, AtHand
      <4>4. AnsweredIn(L, u, i)
        BY <1>1, <2>3, <2>5, <3>3, <4>3 DEF TalkInv, Talks
      <4>5. PICK j \in DOMAIN L : /\ i < j /\ L[j] \in {Result(L[i]), Spoiled}
                                  /\ \A y \in Talk(L, u) : ~(i < y /\ y < j)
        BY <4>4 DEF AnsweredIn
      <4>6. j \in Nat /\ j <= k
        BY <2>1, <2>2, <3>2, <4>5
      <4>7. j \in 1 .. n /\ L[j] = Result(L[i])
        BY <2>1, <2>5, <3>2, <4>5, <4>6
      <4>8. j \in Talk(L, u)
        BY <2>2, <2>5, <4>5, <4>7 DEF Talk, Result, Event
      <4>9. j \in Behind
        BY <2>1, <2>5, <4>5, <4>7, <4>8
      <4>10. j = k
        BY <2>2, <3>1, <3>2, <4>6, <4>9
      <4> QED
        BY <4>7, <4>10 DEF k
    <3> QED
      BY <3>4, <3>5
  <2>8. ASSUME L[i].type # "tool_result", Behind = {}
        PROVE  u # t
    <3> SUFFICES ASSUME u = t
                 PROVE  FALSE
      OBVIOUS
    <3>1. L[i].type = "assistant_tool_call"
      BY <2>2, <2>5, <2>8
    <3>2. PICK j \in i + 1 .. n : L[j] = Result(L[i])
      BY <1>1, <2>5, <3>1 DEF TalkInv, ShownWhole
    <3>3. j \in 1 .. n /\ j > i
      BY <2>1, <2>5
    <3>4. j \in Talk(L, u)
      BY <2>1, <2>2, <2>5, <3>2, <3>3 DEF Talk, Result, Event
    <3>5. j \in Behind
      BY <2>1, <2>5, <3>3, <3>4
    <3> QED
      BY <2>8, <3>5
  <2> QED
    BY <2>6, <2>7, <2>8
<1>2. IInv /\ TalkInv => ContextIsPaired
  BY <1>1 DEF ContextIsPaired
<1> QED
  BY <1>2, TalkInvariance, PTL

-----------------------------------------------------------------------------
(* The histories as EventLog has them: JsonlStore implements that contract,  *)
(* so that the store may take the place of the histories of this module.     *)

\* A step of a turn requests an append, ends one, or leaves the histories alone.
LEMMA LogStep ==
  ASSUME TypeOK, [Next]_vars
  PROVE  [Log!Next]_(Log!logVars)
<1> DEFINE Quiet == UNCHANGED <<log, queue, damaged>>
<1>1. \A t \in Turns : /\ Thread(t) \in Threads
                       /\ \A type \in EventType : EventNow(t, type) \in Event
  BY TurnTypes
<1>2. Quiet => UNCHANGED Log!logVars
  BY DEF Log!logVars
<1>3. ASSUME NEW t \in Turns, NEW type \in EventType,
             Log!Request(t, Thread(t), EventNow(t, type))
      PROVE  Log!Next
  BY <1>1, <1>3 DEF Log!Next
<1>4. ASSUME NEW t \in Turns, Log!Commit(t, Thread(t)) \/ Log!Abort(t, Thread(t))
      PROVE  Log!Next
  BY <1>1, <1>4 DEF Log!Next
<1>5. CASE UNCHANGED vars
  BY <1>2, <1>5 DEF vars
<1>6. ASSUME NEW t \in Turns,
             Start(t) \/ CallFunction(t) \/ Respond(t) \/ ToolProgress(t) \/ RecordResult(t)
      PROVE  Log!Next
  <2>1. \E type \in EventType : Log!Request(t, Thread(t), EventNow(t, type))
    BY <1>6 DEF Start, CallFunction, Respond, ToolProgress, RecordResult, Logs, EventType
  <2> QED
    BY <1>3, <2>1
<1>7. ASSUME NEW t \in Turns, Appended(t) \/ AppendRaises(t)
      PROVE  Log!Next
  BY <1>4, <1>7 DEF Appended, AppendRaises
<1>8. ASSUME NEW t \in Turns,
             \/ BuildContext(t) \/ ContextRaises(t) \/ Compacted(t) \/ EngineRaises(t)
             \/ Decide(t) \/ NoDecision(t) \/ Route(t) \/ ActionReturns(t)
             \/ SummaryRaises(t) \/ EndStep(t)
      PROVE  Quiet
  BY <1>8 DEF BuildContext, ContextRaises, Compacted, EngineRaises, Decide, NoDecision,
       Route, ActionReturns, SummaryRaises, EndStep, Becomes
<1>9. ASSUME NEW t \in Turns, Summarised(t)
      PROVE  Quiet \/ Log!Next
  <2>1. CASE Logs(t, "assistant_progress", "noting")
    BY <1>3, <2>1 DEF Logs, EventType
  <2>2. CASE Becomes(t, [turn[t] EXCEPT !.pc = "running"])
    BY <2>2 DEF Becomes
  <2> QED
    BY <1>9, <2>1, <2>2 DEF Summarised
<1>10. ASSUME NEW t \in Turns, Cancel(t)
       PROVE  Quiet \/ Log!Next
  BY <1>4, <1>10 DEF Cancel, GivenUp
<1>11. CASE Crash
  BY <1>11 DEF Crash, Log!Next
<1> HIDE DEF Quiet
<1> QED
  BY <1>2, <1>5, <1>6, <1>7, <1>8, <1>9, <1>10, <1>11 DEF Next, Proceed

\* What turns do to the histories of their threads, one that is cancelled or dies included,
\* is what EventLog allows: the histories only grow, in the order of the appends, and lose at
\* most what the contract says.
THEOREM HistoriesAreLogs == Spec => Log!Spec
<1>1. Init => Log!Init
  BY DEF Init
<1>2. TypeOK /\ [Next]_vars => [Log!Next]_(Log!logVars)
  BY LogStep
<1> QED
  BY <1>1, <1>2, TypeCorrect, PTL DEF Spec, Log!Spec
=============================================================================
