------------------------------ MODULE EventLog ------------------------------
(***************************************************************************)
(* What the rest of adomcore may rely on about an append-only JSONL file   *)
(* (the thread histories and the cron history).                            *)
(*                                                                         *)
(* Appends to one path take effect one at a time, in the order in which    *)
(* they were called; what is on file never changes; an append that fails   *)
(* may leave a fragment behind, which spoils at most the one line that is  *)
(* written next.  The record of a task that is cancelled while its file is *)
(* closed may come late, behind records that were appended after it.       *)
(* JsonlStore implements this contract and AgentRuntime is built on it.    *)
(***************************************************************************)
EXTENDS Naturals, SequencesExt

CONSTANTS
  Paths,    \* the .jsonl files
  Writers,  \* the tasks that call append
  Records,  \* what may be appended
  Spoiled   \* no record: a line that json.loads rejects, a fragment and a record run
            \* together

VARIABLES
  log,      \* log[p]: the lines of file p
  queue,    \* queue[p]: the appends in progress on p, in the order of their calls
  damaged,  \* damaged[p]: the file ends in the fragment of a record
  late      \* late[p]: the records that may still come though their task is gone

logVars == <<log, queue, damaged, late>>

Pending == [by : Writers, rec : Records]

TypeOK ==
  /\ log \in [Paths -> Seq(Records \cup {Spoiled})]
  /\ queue \in [Paths -> Seq(Pending)]
  /\ damaged \in [Paths -> BOOLEAN]
  /\ late \in [Paths -> SUBSET Records]

Init ==
  /\ log = [p \in Paths |-> <<>>]
  /\ queue = [p \in Paths |-> <<>>]
  /\ damaged = [p \in Paths |-> FALSE]
  /\ late = [p \in Paths |-> {}]

Appending(w, p) == \E i \in DOMAIN queue[p] : queue[p][i].by = w

\* Every line parses and no fragment stands at the end: a reader that meets no
\* append in progress gets all the records.
Readable(p) == ~damaged[p] /\ \A i \in DOMAIN log[p] : log[p][i] # Spoiled

\* The line that the oldest append on p ends: behind a fragment the two are one line.
NextLine(p) == IF damaged[p] THEN Spoiled ELSE Head(queue[p]).rec

-----------------------------------------------------------------------------
(* The task w calls append(p, r). *)
Request(w, p, r) ==
  /\ queue' = [queue EXCEPT ![p] = Append(@, [by |-> w, rec |-> r])]
  /\ UNCHANGED <<log, damaged, late>>

(* The oldest append on p, which is w's, completes; or it fails when its line is on
   file. *)
Commit(w, p) ==
  /\ queue[p] # <<>>
  /\ Head(queue[p]).by = w
  /\ log' = [log EXCEPT ![p] = Append(@, NextLine(p))]
  /\ queue' = [queue EXCEPT ![p] = Tail(@)]
  /\ damaged' = [damaged EXCEPT ![p] = FALSE]
  /\ UNCHANGED late

(* The task w's append is cancelled or raises and its record is not written: only
   the oldest append, the one that has the file open, can leave a fragment. *)
Abort(w, p) ==
  /\ \E i \in DOMAIN queue[p] :
       /\ queue[p][i].by = w
       /\ queue' = [queue EXCEPT ![p] = RemoveAt(@, i)]
       /\ \/ UNCHANGED damaged
          \/ i = 1 /\ damaged' = [damaged EXCEPT ![p] = TRUE]
  /\ UNCHANGED <<log, late>>

(* The task w is cancelled while the file is closed: the next append goes ahead, and a
   part of w's record may be on file. *)
Abandon(w, p) ==
  /\ queue[p] # <<>>
  /\ Head(queue[p]).by = w
  /\ late' = [late EXCEPT ![p] = @ \cup {Head(queue[p]).rec}]
  /\ queue' = [queue EXCEPT ![p] = Tail(@)]
  /\ UNCHANGED damaged \/ damaged' = [damaged EXCEPT ![p] = TRUE]
  /\ UNCHANGED log

(* Such a record comes, whole or run together with what came between. *)
Arrive(p, r) ==
  /\ r \in late[p]
  /\ \E line \in {r, Spoiled} : log' = [log EXCEPT ![p] = Append(@, line)]
  /\ damaged' = [damaged EXCEPT ![p] = FALSE]
  /\ late' = [late EXCEPT ![p] = @ \ {r}]
  /\ UNCHANGED queue

(* Or it never does. *)
Vanish(p, r) ==
  /\ r \in late[p]
  /\ late' = [late EXCEPT ![p] = @ \ {r}]
  /\ UNCHANGED damaged \/ damaged' = [damaged EXCEPT ![p] = TRUE]
  /\ UNCHANGED <<log, queue>>

(* The process dies and every append in progress is gone.  On each path the oldest
   one leaves nothing, a fragment or its line. *)
Crash ==
  /\ \E whole \in SUBSET {p \in Paths : queue[p] # <<>>},
        part \in SUBSET {p \in Paths : queue[p] # <<>> \/ late[p] # {}} :
       /\ log' = [p \in Paths |->
                    IF p \in whole THEN Append(log[p], NextLine(p)) ELSE log[p]]
       /\ damaged' = [p \in Paths |->
                        IF p \in whole THEN FALSE ELSE damaged[p] \/ p \in part]
  /\ queue' = [p \in Paths |-> <<>>]
  /\ late' = [p \in Paths |-> {}]

Next ==
  \/ \E w \in Writers, p \in Paths :
       \/ \E r \in Records : Request(w, p, r)
       \/ Commit(w, p)
       \/ Abort(w, p)
       \/ Abandon(w, p)
  \/ \E p \in Paths, r \in Records : Arrive(p, r) \/ Vanish(p, r)
  \/ Crash

Spec == Init /\ [][Next]_logVars
=============================================================================
