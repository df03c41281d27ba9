----------------------------- MODULE Scheduler -----------------------------
(***************************************************************************)
(* services/scheduler_service.py, services/cron_dispatch_service.py and    *)
(* integrations/scheduler/apscheduler_backend.py: the cron jobs on file    *)
(* (jobs.json5), the jobs that APScheduler holds in memory, and the runs   *)
(* that it fires, each of which leaves a record in history.jsonl.          *)
(*                                                                         *)
(* start, add_job and remove_job never suspend: Json5Store takes a lock    *)
(* that nobody holds across an await.  They are one action each.  A        *)
(* dispatch suspends in the timer turn and in the append of its record.    *)
(*                                                                         *)
(* APScheduler is modelled from its use here: it fires what it holds, runs *)
(* a job once at a time, and forgets all when it stops.                    *)
(***************************************************************************)
EXTENDS Naturals, FiniteSets, SequencesExt, Subsequences

CONSTANTS
  Ids,        \* job ids
  Exprs,      \* cron expressions that CronTrigger accepts
  Malformed,  \* one that it rejects
  None,       \* no expression: the job is not scheduled
  MaxJobs,    \* bound: entries of jobs.json5
  MaxRuns,    \* bound: runs of a job
  MaxUpsets   \* bound: stops, crashes and failed appends

ASSUME SchedulerAssumption ==
  /\ Malformed \notin Exprs /\ None \notin Exprs /\ None # Malformed
  /\ "spoiled" \notin Ids  \* no job has the name that Spoiled gives to lost ones
  /\ MaxJobs \in Nat /\ MaxRuns \in Nat /\ MaxUpsets \in Nat

VARIABLES
  jobs,    \* jobs.json5, in order
  sched,   \* sched[id]: the expression that APScheduler holds for id
  state,   \* "down"; "up"; "broken": running, but start() raised
  run,     \* run[id]: the dispatch of id
  upsets,  \* stops, crashes and failed appends so far
  log, queue, damaged  \* history.jsonl, as in EventLog

vars == <<jobs, sched, state, run, upsets, log, queue, damaged>>

Job == [id : Ids, enabled : BOOLEAN, expr : Exprs \cup {Malformed}]

\* n: the runs of the job that started a turn.
Run == [pc : {"idle", "fired", "turn", "recording"}, n : 0 .. MaxRuns]

File == "history"
Row == [job : Ids, run : 1 .. MaxRuns]
Spoiled == [job |-> "spoiled"]
Log == INSTANCE EventLog WITH
  Paths <- {File}, Writers <- Ids, Records <- Row, late <- [p \in {File} |-> {}]

TypeOK ==
  /\ Log!TypeOK
  /\ jobs \in Seq(Job)
  /\ sched \in [Ids -> Exprs \cup {None}]
  /\ state \in {"down", "up", "broken"}
  /\ run \in [Ids -> Run]
  /\ upsets \in 0 .. MaxUpsets

Init ==
  /\ Log!Init
  /\ jobs = <<>>
  /\ sched = [id \in Ids |-> None]
  /\ state = "down"
  /\ run = [id \in Ids |-> [pc |-> "idle", n |-> 0]]
  /\ upsets = 0

-----------------------------------------------------------------------------
(* Variants of the operators below, each with one plausible mistake. *)
EnabledOnly(j) == j.enabled
StillHeld(id) == sched
Unchecked(id) == TRUE
Unnumbered(id) == [job |-> id, run |-> 1]
Unfinished(u) == u

-----------------------------------------------------------------------------
\* _schedule_job is called and does not raise.
Schedulable(j) == j.enabled /\ j.expr # Malformed

\* What APScheduler holds once the jobs of J have been scheduled one after the other.
Wanted(J) ==
  [id \in Ids |->
     LET mine == {i \in DOMAIN J : J[i].id = id /\ Schedulable(J[i])} IN
     IF mine = {} THEN None ELSE J[Max(mine)].expr]

\* sched.remove_job: an id that it does not hold is no error.
Without(id) == [sched EXCEPT ![id] = None]

\* dispatch looks the job up again: the last entry with the id counts.
Standing(id) ==
  LET mine == {i \in DOMAIN jobs : jobs[i].id = id} IN
  mine # {} /\ jobs[Max(mine)].enabled

Record(id) == [job |-> id, run |-> run[id].n]

Finished(u) == [u EXCEPT !.pc = "idle"]

-----------------------------------------------------------------------------
(* The scheduler starts and schedules the enabled jobs in their order, up to one that
   APScheduler rejects. *)
Start ==
  /\ state = "down"
  /\ LET rejected == {i \in DOMAIN jobs : jobs[i].enabled /\ jobs[i].expr = Malformed} IN
       IF rejected = {}
       THEN state' = "up" /\ sched' = Wanted(jobs)
       ELSE state' = "broken" /\ sched' = Wanted(SubSeq(jobs, 1, Min(rejected) - 1))
  /\ UNCHANGED <<jobs, run, upsets, log, queue, damaged>>

(* A job is saved, then scheduled.  A malformed expression raises when it is saved. *)
AddJob(j) ==
  /\ state # "down"
  /\ Len(jobs) < MaxJobs
  /\ jobs' = Append(jobs, j)
  /\ sched' = IF Schedulable(j) THEN [sched EXCEPT ![j.id] = j.expr] ELSE sched
  /\ UNCHANGED <<state, run, upsets, log, queue, damaged>>

(* Every entry with the id goes, on file and in memory. *)
RemoveJob(id) ==
  /\ state # "down"
  /\ jobs' = Subsequence(jobs, {i \in DOMAIN jobs : jobs[i].id # id})
  /\ sched' = Without(id)
  /\ UNCHANGED <<state, run, upsets, log, queue, damaged>>

(* APScheduler fires a job that is not running: a task is created. *)
Fire(id) ==
  /\ sched[id] # None
  /\ run[id].pc = "idle" /\ run[id].n < MaxRuns
  /\ run' = [run EXCEPT ![id].pc = "fired"]
  /\ UNCHANGED <<jobs, sched, state, upsets, log, queue, damaged>>

(* The task begins: the timer turn is started if the job still stands. *)
Dispatch(id) ==
  /\ run[id].pc = "fired"
  /\ run' = [run EXCEPT ![id] = IF Standing(id) THEN [pc |-> "turn", n |-> @.n + 1]
                                                ELSE Finished(@)]
  /\ UNCHANGED <<jobs, sched, state, upsets, log, queue, damaged>>

(* The turn returns or raises, and the append of the run's record begins. *)
TurnOver(id) ==
  /\ run[id].pc = "turn"
  /\ Log!Request(id, File, Record(id))
  /\ run' = [run EXCEPT ![id].pc = "recording"]
  /\ UNCHANGED <<jobs, sched, state, upsets>>

Recorded(id) ==
  /\ run[id].pc = "recording"
  /\ Log!Commit(id, File)
  /\ run' = [run EXCEPT ![id] = Finished(@)]
  /\ UNCHANGED <<jobs, sched, state, upsets>>

(* The append raises: nobody catches it, and the run is over. *)
RecordRaises(id) ==
  /\ run[id].pc = "recording"
  /\ upsets < MaxUpsets
  /\ upsets' = upsets + 1
  /\ Log!Commit(id, File) \/ Log!Abort(id, File)
  /\ run' = [run EXCEPT ![id] = Finished(@)]
  /\ UNCHANGED <<jobs, sched, state>>

(* The scheduler is shut down without waiting, or the process dies: what is in memory is
   gone and the runs are cancelled.  A cancelled append ends in a way a crash allows. *)
GoDown ==
  /\ state # "down"
  /\ upsets < MaxUpsets
  /\ upsets' = upsets + 1
  /\ state' = "down"
  /\ sched' = [id \in Ids |-> None]
  /\ run' = [id \in Ids |-> [run[id] EXCEPT !.pc = "idle"]]
  /\ Log!Crash
  /\ UNCHANGED jobs

Proceed(id) == Dispatch(id) \/ TurnOver(id) \/ Recorded(id)

Next ==
  \/ Start
  \/ \E j \in Job : AddJob(j)
  \/ \E id \in Ids : RemoveJob(id) \/ Fire(id) \/ Proceed(id) \/ RecordRaises(id)
  \/ GoDown

(* A task runs when it can; a timer turn ends (AgentRuntime!TurnEnds).  Nothing obliges a
   job to fire. *)
Fairness == \A id \in Ids : WF_vars(Proceed(id))

Spec == Init /\ [][Next]_vars /\ Fairness

-----------------------------------------------------------------------------
(* The properties. *)

\* After a start() that succeeded, and until the scheduler goes down, APScheduler holds
\* what jobs.json5 asks for, whatever was added, replaced, disabled or removed since; and
\* never, not even after a failed start(), does it hold a job that is not on file.
SchedulerAgreesWithFile ==
  /\ state = "up" => sched = Wanted(jobs)
  /\ \A id \in Ids : sched[id] # None => Wanted(jobs)[id] # None

\* No turn starts for a job that was removed or disabled, though it may have been fired
\* before: what was saved last under its id is enabled.
RemovedNeverRuns ==
  [][\A id \in Ids : run'[id].n # run[id].n =>
       \E i \in DOMAIN jobs :
         /\ jobs[i].id = id /\ jobs[i].enabled
         /\ \A k \in DOMAIN jobs : jobs[k].id = id => k <= i]_vars

\* The history has the runs of a job in their order and none twice, and a run that is
\* over is missing only because of a stop, a crash or a failed append, one for each.
RunsRecorded ==
  LET L == log[File]
      spoiled == Cardinality({i \in DOMAIN L : L[i] = Spoiled}) IN
  \A id \in Ids :
    LET mine == {i \in DOMAIN L : L[i].job = id}
        going == IF run[id].pc \in {"turn", "recording"} THEN 1 ELSE 0 IN
    /\ \A i, k \in mine : i < k => L[i].run < L[k].run
    /\ run[id].n <= Cardinality(mine) + spoiled + going + upsets

\* A run that was fired comes to an end, and the job can fire again.
RunEnds == \A id \in Ids : run[id].pc # "idle" ~> run[id].pc = "idle"

\* scheduler_service.py:1: "rebuild jobs from CronStore on startup".  While the scheduler
\* runs, every job on file that can be scheduled is scheduled.
RebuiltOnStartup ==
  state # "down" => \A id \in Ids : Wanted(jobs)[id] # None => sched[id] # None
=============================================================================
