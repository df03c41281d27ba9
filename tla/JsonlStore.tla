----------------------------- MODULE JsonlStore -----------------------------
(***************************************************************************)
(* storage/jsonl_store.py with storage/file_lock.py: the append-only event *)
(* files, written by asyncio tasks that take a FIFO lock per path and do   *)
(* the file operations in aiofiles' worker threads.                        *)
(*                                                                         *)
(* A record is known by its ticket, the number of its append call.         *)
(* Between f.write and the end of close none, some or all of its bytes are *)
(* on file: a line that fits the buffer is written by close, of a longer   *)
(* one the first part by f.write, and either may be cut short.             *)
(*                                                                         *)
(* A task that is cancelled while it waits for close releases the lock,    *)
(* and the worker thread that closes the file goes on without it: what is  *)
(* left of its line reaches the file at any later time.                    *)
(***************************************************************************)
EXTENDS Naturals, FiniteSets, SequencesExt

CONSTANTS
  Paths,       \* the .jsonl files
  Writers,     \* the tasks that append to them
  MaxAppends,  \* bound: append calls
  MaxFaults    \* bound: I/O errors and process crashes

ASSUME JsonlStoreAssumption == MaxAppends \in Nat /\ MaxFaults \in Nat

VARIABLES
  lines,    \* lines[p]: the newline-terminated lines of p, with the ticket of the
            \* append that ended the line, whether it holds that record alone, and
            \* whether its task was gone by then
  torn,     \* torn[p]: bytes of an append whose task is gone follow the last newline
  begun,    \* begun[p]: they are the first part of this append's line and nothing
            \* else (0 for none)
  late,     \* late[p]: the closes that run on without their task; cut: the first
            \* part of the line was on file before
  cuts,     \* cuts[p]: lines that were in two parts when their task was cancelled
  locks,    \* locks[p]: the tasks inside `async with self._locks.get(path)`, in
            \* the order of asyncio.Lock; the head holds the lock
  pc,       \* pc[w]: where the task stands in append
  tickets,  \* append calls so far
  faults    \* I/O errors and crashes so far

vars == <<lines, torn, begun, late, cuts, locks, pc, tickets, faults>>

Ticket == 1 .. MaxAppends
Line == [n : Ticket, whole : BOOLEAN, late : BOOLEAN]
Unclosed == [n : Ticket, cut : BOOLEAN]
Stage == {"idle", "waiting", "open", "written"}

TypeOK ==
  /\ lines \in [Paths -> Seq(Line)]
  /\ torn \in [Paths -> BOOLEAN]
  /\ begun \in [Paths -> {0} \cup Ticket]
  /\ late \in [Paths -> SUBSET Unclosed]
  /\ cuts \in [Paths -> Nat]
  /\ locks \in [Paths -> Seq([by : Writers, rec : Ticket])]
  /\ pc \in [Writers -> Stage]
  /\ tickets \in 0 .. MaxAppends
  /\ faults \in 0 .. MaxFaults

Init ==
  /\ lines = [p \in Paths |-> <<>>]
  /\ torn = [p \in Paths |-> FALSE]
  /\ begun = [p \in Paths |-> 0]
  /\ late = [p \in Paths |-> {}]
  /\ cuts = [p \in Paths |-> 0]
  /\ locks = [p \in Paths |-> <<>>]
  /\ pc = [w \in Writers |-> "idle"]
  /\ tickets = 0
  /\ faults = 0

-----------------------------------------------------------------------------
(* Variants of the operators below, each with one plausible mistake. *)
JoinFirst(q, e) == IF q = <<>> THEN <<e>> ELSE <<Head(q), e>> \o Tail(q)
TicketBefore(p) == [n |-> Head(locks[p]).rec - 1, whole |-> ~torn[p], late |-> FALSE]
AlwaysWhole(p) == [n |-> Head(locks[p]).rec, whole |-> TRUE, late |-> FALSE]
NoNewline == TRUE
KeepLock(q, i) == q

-----------------------------------------------------------------------------
Holds(w, p) == locks[p] # <<>> /\ Head(locks[p]).by = w

\* asyncio.Lock serves its waiters in the order of their calls.
Join(q, e) == Append(q, e)

\* The task at position i leaves the lock: it released it, or it gave up waiting.
Leave(q, i) == RemoveAt(q, i)

\* The holder has called f.write: its bytes are on their way to the file.
Writing(p) == \E w \in Writers : Holds(w, p) /\ pc[w] = "written"

\* The line that the lock's holder ends: behind a fragment the two are one line.
EndedLine(p) == [n |-> Head(locks[p]).rec, whole |-> ~torn[p], late |-> FALSE]

\* The line that a close without its task ends: a line in two parts is whole if nothing
\* came between them.
LateLine(p, x) ==
  [n |-> x.n, whole |-> IF x.cut THEN begun[p] = x.n ELSE ~torn[p], late |-> TRUE]

\* What follows the last newline once a line is ended.
RestAfterLine == FALSE

\* read_all: json.loads accepts every line, an unterminated one included.
Parses(p) ==
  /\ ~torn[p]
  /\ \A i \in DOMAIN lines[p] : lines[p][i].whole
  /\ ~Writing(p) /\ late[p] = {}

-----------------------------------------------------------------------------
(* append() up to the lock. *)
CallAppend(w, p) ==
  /\ pc[w] = "idle"
  /\ tickets < MaxAppends
  /\ tickets' = tickets + 1
  /\ locks' = [locks EXCEPT ![p] = Join(@, [by |-> w, rec |-> tickets + 1])]
  /\ pc' = [pc EXCEPT ![w] = "waiting"]
  /\ UNCHANGED <<lines, torn, begun, late, cuts, faults>>

(* The lock is acquired and aiofiles.open runs in a worker thread. *)
Open(w, p) ==
  /\ Holds(w, p)
  /\ pc[w] = "waiting"
  /\ pc' = [pc EXCEPT ![w] = "open"]
  /\ UNCHANGED <<lines, torn, begun, late, cuts, locks, tickets, faults>>

(* f.write(line). *)
Write(w, p) ==
  /\ Holds(w, p)
  /\ pc[w] = "open"
  /\ pc' = [pc EXCEPT ![w] = "written"]
  /\ UNCHANGED <<lines, torn, begun, late, cuts, locks, tickets, faults>>

(* The line is on file with its newline, the file is closed and the lock released.
   A task cancelled in f.write does the same on its way out.  The same is left when
   close raises with the line on file. *)
Close(w, p) ==
  /\ Holds(w, p)
  /\ pc[w] = "written"
  /\ lines' = [lines EXCEPT ![p] = Append(@, EndedLine(p))]
  /\ torn' = [torn EXCEPT ![p] = RestAfterLine]
  /\ begun' = [begun EXCEPT ![p] = 0]
  /\ locks' = [locks EXCEPT ![p] = Leave(@, 1)]
  /\ pc' = [pc EXCEPT ![w] = "idle"]
  /\ UNCHANGED <<late, cuts, tickets, faults>>

(* The task is cancelled before f.write: it leaves the lock, or the queue for it. *)
Cancel(w, p) ==
  /\ pc[w] \in {"waiting", "open"}
  /\ \E i \in DOMAIN locks[p] :
       /\ locks[p][i].by = w
       /\ locks' = [locks EXCEPT ![p] = Leave(@, i)]
  /\ pc' = [pc EXCEPT ![w] = "idle"]
  /\ UNCHANGED <<lines, torn, begun, late, cuts, tickets, faults>>

(* The task is cancelled while it waits for close: the lock is released, the thread
   goes on.  Of a long line the first part is on file. *)
Abandon(w, p) ==
  /\ Holds(w, p)
  /\ pc[w] = "written"
  /\ \E cut \in BOOLEAN :
       /\ late' = [late EXCEPT ![p] = @ \cup {[n |-> Head(locks[p]).rec, cut |-> cut]}]
       /\ IF cut
          THEN /\ torn' = [torn EXCEPT ![p] = TRUE]
               /\ begun' = [begun EXCEPT ![p] = IF torn[p] THEN 0 ELSE Head(locks[p]).rec]
               /\ cuts' = [cuts EXCEPT ![p] = @ + 1]
          ELSE UNCHANGED <<torn, begun, cuts>>
  /\ locks' = [locks EXCEPT ![p] = Leave(@, 1)]
  /\ pc' = [pc EXCEPT ![w] = "idle"]
  /\ UNCHANGED <<lines, tickets, faults>>

(* The thread of such a close is done: the line is on file. *)
Flush(p, x) ==
  /\ x \in late[p]
  /\ lines' = [lines EXCEPT ![p] = Append(@, LateLine(p, x))]
  /\ torn' = [torn EXCEPT ![p] = RestAfterLine]
  /\ begun' = [begun EXCEPT ![p] = 0]
  /\ late' = [late EXCEPT ![p] = @ \ {x}]
  /\ UNCHANGED <<cuts, locks, pc, tickets, faults>>

(* Or it raises OSError, which nobody sees. *)
FlushFails(p, x) ==
  /\ x \in late[p]
  /\ faults < MaxFaults
  /\ faults' = faults + 1
  /\ late' = [late EXCEPT ![p] = @ \ {x}]
  /\ \/ UNCHANGED torn
     \/ torn' = [torn EXCEPT ![p] = TRUE]
  /\ begun' = [begun EXCEPT ![p] = 0]
  /\ UNCHANGED <<lines, cuts, locks, pc, tickets>>

(* open, write or close raises OSError: the lock is released, and the bytes that
   reached the file stay there. *)
Raise(w, p) ==
  /\ Holds(w, p)
  /\ pc[w] \in {"open", "written"}
  /\ faults < MaxFaults
  /\ faults' = faults + 1
  /\ \/ UNCHANGED <<torn, begun>>
     \/ /\ pc[w] = "written"
        /\ torn' = [torn EXCEPT ![p] = TRUE]
        /\ begun' = [begun EXCEPT ![p] = 0]
  /\ locks' = [locks EXCEPT ![p] = Leave(@, 1)]
  /\ pc' = [pc EXCEPT ![w] = "idle"]
  /\ UNCHANGED <<lines, late, cuts, tickets>>

(* The process dies and is started again: the tasks, their locks, their threads and
   their buffers are gone.  Of a line being written nothing or a part is on file; the
   death of a task that has the whole line on file is this step after Close or Flush. *)
Crash ==
  /\ faults < MaxFaults
  /\ faults' = faults + 1
  /\ \E part \in SUBSET {p \in Paths : Writing(p) \/ late[p] # {}} :
       torn' = [p \in Paths |-> torn[p] \/ p \in part]
  /\ begun' = [p \in Paths |-> 0]
  /\ late' = [p \in Paths |-> {}]
  /\ locks' = [p \in Paths |-> <<>>]
  /\ pc' = [w \in Writers |-> "idle"]
  /\ UNCHANGED <<lines, cuts, tickets>>

Next ==
  \/ \E w \in Writers, p \in Paths :
       \/ CallAppend(w, p) \/ Open(w, p) \/ Write(w, p) \/ Close(w, p)
       \/ Cancel(w, p) \/ Abandon(w, p) \/ Raise(w, p)
  \/ \E p \in Paths, x \in Unclosed : Flush(p, x) \/ FlushFails(p, x)
  \/ Crash

(* The worker threads run and asyncio.Lock wakes its waiters: a task that holds the
   lock gets on.  Nothing obliges a task to call append, to be cancelled or to
   fail. *)
Fairness ==
  \A w \in Writers : WF_vars(\E p \in Paths : Open(w, p) \/ Write(w, p) \/ Close(w, p))

Spec == Init /\ [][Next]_vars /\ Fairness

-----------------------------------------------------------------------------
(* The properties. *)

\* Appends reach the file in the order in which append was called on its path,
\* whichever of them were cancelled or failed in between.  Only a record whose task was
\* cancelled in close can come after one that was appended later.
CallOrder ==
  \A p \in Paths : \A i, j \in DOMAIN lines[p] :
    i < j /\ ~lines[p][j].late => lines[p][i].n < lines[p][j].n

Spoilt(p) == {i \in DOMAIN lines[p] : ~lines[p][i].whole}

\* A failed or interrupted append costs at most one record besides its own: each
\* I/O error or crash accounts for at most one line that readers cannot parse, and so
\* does a task that was cancelled with half its line on file, besides that line.
LossBound ==
  \A p \in Paths :
    Cardinality(Spoilt(p)) + (IF torn[p] THEN 1 ELSE 0) <= faults + 2 * cuts[p]

\* While no append and no thread is at work on a file that met no fault and kept no half
\* line of a cancelled task, read_all succeeds.
ReadableAtRest ==
  \A p \in Paths :
    faults = 0 /\ cuts[p] = 0 /\ locks[p] = <<>> /\ late[p] = {} => Parses(p)

\* Every append comes to an end: no lock is kept by a task that is gone.
AppendReturns == \A w \in Writers : pc[w] = "waiting" ~> pc[w] = "idle"

\* Tickets start at 1.
Spoiled == 0

\* The contract: the file is EventLog's log, a task in append a pending request.
Contract == INSTANCE EventLog WITH
  Records <- Ticket,
  log     <- [p \in Paths |-> [i \in DOMAIN lines[p] |->
                IF lines[p][i].whole THEN lines[p][i].n ELSE Spoiled]],
  queue   <- locks,
  damaged <- torn,
  late    <- [p \in Paths |-> {x.n : x \in late[p]}]

\* The store implements the contract of an append-only log.
ImplementsEventLog == Contract!Spec
=============================================================================
