------------------------- MODULE JsonlStore_proofs -------------------------
(***************************************************************************)
(* JsonlStore, proved for any files, tasks and bounds: appends take effect *)
(* in the order of their calls, a fault costs at most one record besides   *)
(* its own, and the store implements EventLog.                             *)
(***************************************************************************)
EXTENDS JsonlStore, QueueFacts, FiniteSetTheorems

Entry == [by : Writers, rec : Ticket]

\* A task is in the queue of at most one lock, once.
QueuedOnce ==
  \A p, q \in Paths : \A i \in DOMAIN locks[p], j \in DOMAIN locks[q] :
    locks[p][i].by = locks[q][j].by => p = q /\ i = j

\* A queued task is inside append, and past the lock only if it is the head.
OnlyHolderWrites ==
  \A p \in Paths : \A i \in DOMAIN locks[p] :
    /\ pc[locks[p][i].by] # "idle"
    /\ i > 1 => pc[locks[p][i].by] = "waiting"

\* The queue is in call order, behind every line on file and no newer than the last
\* call.
QueueOrder ==
  \A p \in Paths :
    /\ \A i, j \in DOMAIN locks[p] : i < j => locks[p][i].rec < locks[p][j].rec
    /\ \A i \in DOMAIN locks[p] : locks[p][i].rec <= tickets
    /\ \A i \in DOMAIN lines[p] : lines[p][i].n <= tickets
    /\ \A i \in DOMAIN lines[p], j \in DOMAIN locks[p] :
         lines[p][i].n < locks[p][j].rec

\* The records that come late were appended before those that wait, and come once.
LateOrder ==
  \A p \in Paths : \A x \in late[p] :
    /\ x.n <= tickets
    /\ \A y \in late[p] : x.n = y.n => x = y
    /\ \A j \in DOMAIN locks[p] : x.n < locks[p][j].rec

OrderInv == CallOrder /\ QueueOrder /\ LateOrder

-----------------------------------------------------------------------------
\* Releasing the lock leaves the rest of the queue.
LEMMA LeaveFirst ==
  ASSUME NEW S, NEW q \in Seq(S), q # <<>>
  PROVE  Leave(q, 1) = Tail(q)
<1>1. 1 \in 1 .. Len(q)
  BY EmptySeq
<1>2. /\ Tail(q) \in Seq(S)
      /\ Len(Tail(q)) = Len(q) - 1
      /\ \A k \in 1 .. Len(Tail(q)) : Tail(q)[k] = q[k + 1]
  BY HeadTailProperties
<1>3. /\ Leave(q, 1) \in Seq(S)
      /\ Len(Leave(q, 1)) = Len(q) - 1
      /\ \A k \in 1 .. Len(q) - 1 : Leave(q, 1)[k] = q[k + 1]
  BY <1>1, QueueRemoveAt DEF Leave
<1> QED
  BY <1>2, <1>3, SeqEqual

-----------------------------------------------------------------------------
(* Type correctness. *)

\* The types of what the queues and the files hold.
LEMMA Entries ==
  ASSUME TypeOK, NEW q \in Paths
  PROVE  /\ locks[q] \in Seq(Entry)
         /\ lines[q] \in Seq(Line)
         /\ tickets \in Nat
         /\ \A x \in late[q] : x.n \in Nat
         /\ \A k \in DOMAIN locks[q] :
              /\ locks[q][k] \in Entry
              /\ locks[q][k].by \in Writers
              /\ locks[q][k].rec \in Nat
         /\ \A k \in DOMAIN lines[q] : lines[q][k].n \in Nat
<1>1. locks[q] \in Seq(Entry) /\ lines[q] \in Seq(Line) /\ tickets \in Nat
  <2>1. locks[q] \in Seq(Entry) /\ lines[q] \in Seq(Line)
    BY DEF TypeOK, Entry
  <2>2. tickets \in 0 .. MaxAppends
    BY DEF TypeOK
  <2> QED
    BY <2>1, <2>2
<1>6. \A x \in late[q] : x.n \in Nat
  BY JsonlStoreAssumption DEF TypeOK, Unclosed, Ticket
<1>2. \A k \in DOMAIN locks[q] : locks[q][k] \in Entry
  BY <1>1
<1>3. \A k \in DOMAIN lines[q] : lines[q][k] \in Line
  BY <1>1
<1>4. \A e \in Entry : e.by \in Writers /\ e.rec \in Nat
  BY JsonlStoreAssumption DEF Entry, Ticket
<1>5. \A l \in Line : l.n \in Nat
  BY JsonlStoreAssumption DEF Line, Ticket
<1> QED
  BY <1>1, <1>2, <1>3, <1>4, <1>5, <1>6

LEMMA InitType == Init => TypeOK
BY JsonlStoreAssumption DEF Init, TypeOK, Stage

\* The head of the queue is an entry, and makes a line or a close without its task.
LEMMA HeadEntry ==
  ASSUME TypeOK, NEW w \in Writers, NEW p \in Paths, Holds(w, p)
  PROVE  /\ 1 \in DOMAIN locks[p]
         /\ locks[p][1] = Head(locks[p])
         /\ locks[p][1] \in Entry
         /\ locks[p][1].by = w
         /\ EndedLine(p) = [n |-> locks[p][1].rec, whole |-> ~torn[p], late |-> FALSE]
         /\ EndedLine(p) \in Line
         /\ \A c \in BOOLEAN : [n |-> locks[p][1].rec, cut |-> c] \in Unclosed
<1>1. locks[p] \in Seq(Entry) /\ locks[p] # <<>>
  BY DEF TypeOK, Holds, Entry
<1>2. 1 \in DOMAIN locks[p] /\ locks[p][1] = Head(locks[p]) /\ locks[p][1] \in Entry
  BY <1>1, EmptySeq
<1>3. torn[p] \in BOOLEAN
  BY DEF TypeOK
<1>4. locks[p][1].rec \in Ticket
  BY <1>2 DEF Entry
<1> QED
  BY <1>2, <1>3, <1>4 DEF Holds, EndedLine, Line, Unclosed

\* A close without its task ends a line, too.
LEMMA LateEntry ==
  ASSUME TypeOK, NEW p \in Paths, NEW x \in late[p]
  PROVE  /\ x \in Unclosed
         /\ x.n \in Ticket
         /\ x.cut \in BOOLEAN
         /\ LateLine(p, x) \in Line
         /\ LateLine(p, x).n = x.n
         /\ LateLine(p, x).late
         /\ ~x.cut /\ ~torn[p] => LateLine(p, x).whole
<1>1. x \in Unclosed /\ torn[p] \in BOOLEAN
  BY DEF TypeOK
<1>2. x.n \in Ticket /\ x.cut \in BOOLEAN
  BY <1>1 DEF Unclosed
<1>3. (IF x.cut THEN begun[p] = x.n ELSE ~torn[p]) \in BOOLEAN
  BY <1>1, <1>2
<1> QED
  BY <1>1, <1>2, <1>3 DEF LateLine, Line

\* A step ends the line l of a file.
EndsLine(p, l) ==
  /\ l \in Line
  /\ lines'[p] = Append(lines[p], l)
  /\ torn'[p] = FALSE

\* Closing a file does it, and leaves the others alone.
LEMMA CloseEffect ==
  ASSUME TypeOK, NEW w \in Writers, NEW p \in Paths, Close(w, p)
  PROVE  /\ EndsLine(p, EndedLine(p))
         /\ \A q \in Paths : q # p => lines'[q] = lines[q] /\ torn'[q] = torn[q]
<1>1. EndedLine(p) \in Line
  BY HeadEntry DEF Close
<1> QED
  BY <1>1 DEF Close, TypeOK, EndsLine, RestAfterLine

LEMMA FlushEffect ==
  ASSUME TypeOK, NEW p \in Paths, NEW x, Flush(p, x)
  PROVE  /\ EndsLine(p, LateLine(p, x))
         /\ \A q \in Paths : q # p => lines'[q] = lines[q] /\ torn'[q] = torn[q]
<1>1. LateLine(p, x) \in Line
  BY LateEntry DEF Flush
<1> QED
  BY <1>1 DEF Flush, TypeOK, EndsLine, RestAfterLine

LEMMA TypeStep == TypeOK /\ [Next]_vars => TypeOK'
<1> SUFFICES ASSUME TypeOK, [Next]_vars
             PROVE  TypeOK'
  OBVIOUS
<1> USE JsonlStoreAssumption
<1>1. ASSUME NEW w \in Writers, NEW p \in Paths, CallAppend(w, p)
      PROVE  TypeOK'
  <2> DEFINE e == [by |-> w, rec |-> tickets + 1]
  <2>1. tickets + 1 \in Ticket /\ tickets + 1 \in 0 .. MaxAppends
    BY <1>1 DEF TypeOK, CallAppend, Ticket
  <2>2. e \in Entry
    BY <2>1 DEF Entry
  <2>3. Append(locks[p], e) \in Seq(Entry)
    <3>1. locks[p] \in Seq(Entry)
      BY DEF TypeOK, Entry
    <3> HIDE DEF e
    <3> QED
      BY <2>2, <3>1, QueueAppend
  <2>4. locks' \in [Paths -> Seq(Entry)]
    BY <1>1, <2>3 DEF TypeOK, CallAppend, Join, Entry
  <2>5. tickets' \in 0 .. MaxAppends
    BY <1>1, <2>1 DEF TypeOK, CallAppend
  <2>6. pc' \in [Writers -> Stage]
    BY <1>1 DEF TypeOK, CallAppend, Stage
  <2> QED
    BY <1>1, <2>4, <2>5, <2>6 DEF TypeOK, CallAppend, Entry
<1>2. ASSUME NEW w \in Writers, NEW p \in Paths, Open(w, p)
      PROVE  TypeOK'
  BY <1>2 DEF TypeOK, Open, Stage
<1>3. ASSUME NEW w \in Writers, NEW p \in Paths, Write(w, p)
      PROVE  TypeOK'
  BY <1>3 DEF TypeOK, Write, Stage
<1>4. ASSUME NEW w \in Writers, NEW p \in Paths, Close(w, p)
      PROVE  TypeOK'
  <2>1. 1 \in DOMAIN locks[p] /\ EndedLine(p) \in Line
    BY <1>4, HeadEntry DEF Close
  <2>2. Append(lines[p], EndedLine(p)) \in Seq(Line)
    BY <2>1 DEF TypeOK
  <2>3. Leave(locks[p], 1) \in Seq(Entry)
    BY <2>1, RemoveAtFrom DEF TypeOK, Entry, Leave
  <2>4. lines' \in [Paths -> Seq(Line)]
    BY <1>4, <2>2 DEF Close, TypeOK
  <2>5. locks' \in [Paths -> Seq(Entry)]
    BY <1>4, <2>3 DEF Close, TypeOK, Entry
  <2>6. /\ torn' \in [Paths -> BOOLEAN] /\ pc' \in [Writers -> Stage]
        /\ begun' \in [Paths -> {0} \cup Ticket]
    BY <1>4 DEF Close, TypeOK, RestAfterLine, Stage
  <2> QED
    BY <1>4, <2>4, <2>5, <2>6 DEF TypeOK, Close, Entry
<1>5. ASSUME NEW w \in Writers, NEW p \in Paths, Cancel(w, p)
      PROVE  TypeOK'
  <2>1. PICK i \in DOMAIN locks[p] : locks' = [locks EXCEPT ![p] = Leave(@, i)]
    BY <1>5 DEF Cancel
  <2>2. Leave(locks[p], i) \in Seq(Entry)
    BY RemoveAtFrom DEF TypeOK, Entry, Leave
  <2>3. locks' \in [Paths -> Seq(Entry)]
    BY <2>1, <2>2 DEF TypeOK, Entry
  <2>4. pc' \in [Writers -> Stage]
    BY <1>5 DEF Cancel, TypeOK, Stage
  <2> QED
    BY <1>5, <2>3, <2>4 DEF TypeOK, Cancel, Entry
<1>6. ASSUME NEW w \in Writers, NEW p \in Paths, Raise(w, p)
      PROVE  TypeOK'
  <2>1. 1 \in DOMAIN locks[p]
    BY <1>6, HeadEntry DEF Raise
  <2>2. Leave(locks[p], 1) \in Seq(Entry)
    BY <2>1, RemoveAtFrom DEF TypeOK, Entry, Leave
  <2>3. locks' \in [Paths -> Seq(Entry)]
    BY <1>6, <2>2 DEF Raise, TypeOK, Entry
  <2>4. /\ torn' \in [Paths -> BOOLEAN] /\ pc' \in [Writers -> Stage]
        /\ begun' \in [Paths -> {0} \cup Ticket]
    BY <1>6 DEF Raise, TypeOK, Stage
  <2>5. faults' \in 0 .. MaxFaults
    BY <1>6 DEF Raise, TypeOK
  <2> QED
    BY <1>6, <2>3, <2>4, <2>5 DEF TypeOK, Raise, Entry
<1>7. CASE Crash
  <2>1. /\ locks' \in [Paths -> Seq(Entry)] /\ pc' \in [Writers -> Stage]
        /\ begun' \in [Paths -> {0} \cup Ticket]
        /\ late' \in [Paths -> SUBSET Unclosed]
    BY <1>7 DEF Crash, Stage
  <2>2. torn' \in [Paths -> BOOLEAN]
    BY <1>7 DEF Crash, TypeOK
  <2>3. faults' \in 0 .. MaxFaults
    BY <1>7 DEF Crash, TypeOK
  <2> QED
    BY <1>7, <2>1, <2>2, <2>3 DEF TypeOK, Crash, Entry
<1>9. ASSUME NEW w \in Writers, NEW p \in Paths, Abandon(w, p)
      PROVE  TypeOK'
  <2>1. 1 \in DOMAIN locks[p] /\ Head(locks[p]) = locks[p][1] /\ Head(locks[p]).rec \in Ticket
    BY <1>9, HeadEntry DEF Abandon, Entry
  <2>2. Leave(locks[p], 1) \in Seq(Entry)
    BY <2>1, RemoveAtFrom DEF TypeOK, Entry, Leave
  <2>3. locks' \in [Paths -> Seq(Entry)]
    BY <1>9, <2>2 DEF Abandon, TypeOK, Entry
  <2>4. PICK c \in BOOLEAN :
          /\ late' = [late EXCEPT ![p] = @ \cup {[n |-> Head(locks[p]).rec, cut |-> c]}]
          /\ IF c
             THEN /\ torn' = [torn EXCEPT ![p] = TRUE]
                  /\ begun' = [begun EXCEPT ![p] = IF torn[p] THEN 0 ELSE Head(locks[p]).rec]
                  /\ cuts' = [cuts EXCEPT ![p] = @ + 1]
             ELSE UNCHANGED <<torn, begun, cuts>>
    BY <1>9 DEF Abandon
  <2>5. [n |-> Head(locks[p]).rec, cut |-> c] \in Unclosed
    BY <2>1 DEF Unclosed
  <2>6. late' \in [Paths -> SUBSET Unclosed]
    BY <2>4, <2>5 DEF TypeOK
  <2>7. /\ torn' \in [Paths -> BOOLEAN]
        /\ begun' \in [Paths -> {0} \cup Ticket]
        /\ cuts' \in [Paths -> Nat]
    <3>1. CASE ~c
      BY <2>4, <3>1 DEF TypeOK
    <3>2. CASE c
      <4>0. /\ torn' = [torn EXCEPT ![p] = TRUE]
            /\ cuts' = [cuts EXCEPT ![p] = @ + 1]
        BY <2>4, <3>2
      <4>1. torn' \in [Paths -> BOOLEAN] /\ cuts' \in [Paths -> Nat]
        <5>1. cuts[p] + 1 \in Nat
          BY DEF TypeOK
        <5> QED
          BY <4>0, <5>1 DEF TypeOK
      <4>2. (IF torn[p] THEN 0 ELSE Head(locks[p]).rec) \in {0} \cup Ticket
        BY <2>1
      <4>3. begun' \in [Paths -> {0} \cup Ticket]
        BY <2>4, <3>2, <4>2 DEF TypeOK
      <4> QED
        BY <4>1, <4>3
    <3> QED
      BY <3>1, <3>2
  <2>8. pc' \in [Writers -> Stage]
    BY <1>9 DEF Abandon, TypeOK, Stage
  <2> QED
    BY <1>9, <2>3, <2>6, <2>7, <2>8 DEF TypeOK, Abandon, Entry
<1>10. ASSUME NEW p \in Paths, NEW x \in Unclosed, Flush(p, x)
       PROVE  TypeOK'
  <2>1. LateLine(p, x) \in Line
    BY <1>10, LateEntry DEF Flush
  <2>2. Append(lines[p], LateLine(p, x)) \in Seq(Line)
    BY <2>1 DEF TypeOK
  <2>3. lines' \in [Paths -> Seq(Line)]
    BY <1>10, <2>2 DEF Flush, TypeOK
  <2>4. /\ torn' \in [Paths -> BOOLEAN]
        /\ begun' \in [Paths -> {0} \cup Ticket]
        /\ late' \in [Paths -> SUBSET Unclosed]
    BY <1>10 DEF Flush, TypeOK, RestAfterLine
  <2> QED
    BY <1>10, <2>3, <2>4 DEF TypeOK, Flush
<1>11. ASSUME NEW p \in Paths, NEW x \in Unclosed, FlushFails(p, x)
       PROVE  TypeOK'
  <2>1. /\ torn' \in [Paths -> BOOLEAN]
        /\ begun' \in [Paths -> {0} \cup Ticket]
        /\ late' \in [Paths -> SUBSET Unclosed]
    BY <1>11 DEF FlushFails, TypeOK
  <2>2. faults' \in 0 .. MaxFaults
    BY <1>11 DEF FlushFails, TypeOK
  <2> QED
    BY <1>11, <2>1, <2>2 DEF TypeOK, FlushFails
<1>8. CASE UNCHANGED vars
  BY <1>8 DEF TypeOK, vars
<1> QED
  BY <1>1, <1>2, <1>3, <1>4, <1>5, <1>6, <1>7, <1>8, <1>9, <1>10, <1>11 DEF Next

\* The variables keep their types.
THEOREM TypeCorrect == Spec => []TypeOK
BY InitType, TypeStep, PTL DEF Spec

-----------------------------------------------------------------------------
(* The queue of a lock. *)

LockInv == QueuedOnce /\ OnlyHolderWrites

\* Whoever leaves a lock, the tasks that stay are queued as before.
LEMMA LeaveKeepsLockInv ==
  ASSUME TypeOK, LockInv,
         NEW w \in Writers, NEW p \in Paths, NEW i \in DOMAIN locks[p],
         locks[p][i].by = w,
         locks' = [locks EXCEPT ![p] = Leave(@, i)],
         pc' = [pc EXCEPT ![w] = "idle"]
  PROVE  LockInv'
<1> DEFINE F(q, k) == IF q = p THEN From(i, k) ELSE k
<1>1. \A q \in Paths : locks[q] \in Seq(Entry)
  BY DEF TypeOK, Entry
<1>2. locks'[p] = Leave(locks[p], i) /\ \A q \in Paths : q # p => locks'[q] = locks[q]
  BY DEF TypeOK
<1>3. \A q \in Paths : \A k \in DOMAIN locks'[q] :
        /\ F(q, k) \in DOMAIN locks[q]
        /\ q = p => F(q, k) # i
        /\ k > 1 => F(q, k) > 1
        /\ locks'[q][k] = locks[q][F(q, k)]
  BY <1>1, <1>2, RemoveAtFrom DEF Leave
<1>4. \A q \in Paths : \A j, k \in DOMAIN locks'[q] : F(q, j) = F(q, k) => j = k
  BY <1>1, <1>2, RemoveAtFrom DEF Leave
<1>5. \A q \in Paths : \A k \in DOMAIN locks'[q] :
        locks[q][F(q, k)].by # w /\ locks[q][F(q, k)].by \in Writers
  <2> SUFFICES ASSUME NEW q \in Paths, NEW k \in DOMAIN locks'[q]
               PROVE  locks[q][F(q, k)].by # w /\ locks[q][F(q, k)].by \in Writers
    OBVIOUS
  <2>1. F(q, k) \in DOMAIN locks[q] /\ (q = p => F(q, k) # i)
    BY <1>3
  <2> HIDE DEF F
  <2>2. locks[q][F(q, k)] \in Entry
    BY <2>1, <1>1
  <2> QED
    BY <2>1, <2>2 DEF LockInv, QueuedOnce, Entry
<1> HIDE DEF F
<1>6. QueuedOnce'
  BY <1>3, <1>4 DEF LockInv, QueuedOnce
<1>7. OnlyHolderWrites'
  <2>1. \A v \in Writers : v # w => pc'[v] = pc[v]
    BY DEF TypeOK
  <2> QED
    BY <1>3, <1>5, <2>1 DEF LockInv, OnlyHolderWrites
<1> QED
  BY <1>6, <1>7 DEF LockInv

LEMMA LockStep == TypeOK /\ LockInv /\ [Next]_vars => LockInv'
<1> SUFFICES ASSUME TypeOK, LockInv, [Next]_vars
             PROVE  LockInv'
  OBVIOUS
<1>0. \A q \in Paths :
        locks[q] \in Seq(Entry) /\ \A k \in DOMAIN locks[q] : locks[q][k].by \in Writers
  BY Entries
<1>1. ASSUME NEW w \in Writers, NEW p \in Paths, CallAppend(w, p)
      PROVE  LockInv'
  <2> DEFINE e == [by |-> w, rec |-> tickets + 1]
  <2>1. e \in Entry /\ e.by = w
    BY <1>1, JsonlStoreAssumption DEF CallAppend, TypeOK, Ticket, Entry
  <2>2. locks'[p] = Append(locks[p], e) /\ \A q \in Paths : q # p => locks'[q] = locks[q]
    BY <1>1 DEF CallAppend, TypeOK, Join
  <2> HIDE DEF e
  <2>3. /\ DOMAIN locks'[p] = 1 .. Len(locks[p]) + 1
        /\ \A k \in 1 .. Len(locks[p]) : locks'[p][k] = locks[p][k]
        /\ locks'[p][Len(locks[p]) + 1] = e
    BY <1>0, <2>1, <2>2, QueueAppend
  <2>4. \A q \in Paths : \A k \in DOMAIN locks'[q] :
          \/ k \in DOMAIN locks[q] /\ locks'[q][k] = locks[q][k]
          \/ q = p /\ k = Len(locks[p]) + 1 /\ locks'[q][k] = e
    BY <1>0, <2>2, <2>3
  <2>5. \A q \in Paths : \A k \in DOMAIN locks[q] :
          locks[q][k].by # w /\ locks[q][k].by \in Writers
    BY <1>0, <1>1 DEF CallAppend, LockInv, OnlyHolderWrites
  <2>6. QueuedOnce'
    BY <2>1, <2>4, <2>5 DEF LockInv, QueuedOnce
  <2>7. pc'[w] = "waiting" /\ \A v \in Writers : v # w => pc'[v] = pc[v]
    BY <1>1 DEF CallAppend, TypeOK
  <2>8. OnlyHolderWrites'
    BY <2>1, <2>4, <2>5, <2>7 DEF LockInv, OnlyHolderWrites
  <2> QED
    BY <2>6, <2>8 DEF LockInv
<1>2. ASSUME NEW w \in Writers, NEW p \in Paths, Open(w, p) \/ Write(w, p)
      PROVE  LockInv'
  <2>1. Holds(w, p) /\ locks' = locks
    BY <1>2 DEF Open, Write
  <2>2. 1 \in DOMAIN locks[p] /\ locks[p][1].by = w
    BY <2>1, HeadEntry
  <2>3. pc'[w] # "idle" /\ \A v \in Writers : v # w => pc'[v] = pc[v]
    BY <1>2 DEF Open, Write, TypeOK
  <2>4. \A q \in Paths : \A k \in DOMAIN locks[q] :
          locks[q][k].by \in Writers /\ (k > 1 => locks[q][k].by # w)
    BY <1>0, <2>2 DEF LockInv, QueuedOnce
  <2> QED
    BY <2>1, <2>3, <2>4 DEF LockInv, QueuedOnce, OnlyHolderWrites
<1>3. ASSUME NEW w \in Writers, NEW p \in Paths,
             Close(w, p) \/ Raise(w, p) \/ Abandon(w, p)
      PROVE  LockInv'
  <2>1. Holds(w, p)
    BY <1>3 DEF Close, Raise, Abandon
  <2>2. 1 \in DOMAIN locks[p] /\ locks[p][1].by = w
    BY <2>1, HeadEntry
  <2>3. /\ locks' = [locks EXCEPT ![p] = Leave(@, 1)]
        /\ pc' = [pc EXCEPT ![w] = "idle"]
    BY <1>3 DEF Close, Raise, Abandon
  <2> QED
    BY <2>2, <2>3, LeaveKeepsLockInv
<1>4. ASSUME NEW w \in Writers, NEW p \in Paths, Cancel(w, p)
      PROVE  LockInv'
  <2>1. PICK i \in DOMAIN locks[p] :
          locks[p][i].by = w /\ locks' = [locks EXCEPT ![p] = Leave(@, i)]
    BY <1>4 DEF Cancel
  <2>2. pc' = [pc EXCEPT ![w] = "idle"]
    BY <1>4 DEF Cancel
  <2> QED
    BY <2>1, <2>2, LeaveKeepsLockInv
<1>5. CASE Crash
  BY <1>5 DEF Crash, LockInv, QueuedOnce, OnlyHolderWrites
<1>6. CASE UNCHANGED vars
  BY <1>6 DEF vars, LockInv, QueuedOnce, OnlyHolderWrites
<1>7. ASSUME NEW p \in Paths, NEW x \in Unclosed, Flush(p, x) \/ FlushFails(p, x)
      PROVE  LockInv'
  BY <1>7 DEF Flush, FlushFails, LockInv, QueuedOnce, OnlyHolderWrites
<1> QED
  BY <1>1, <1>2, <1>3, <1>4, <1>5, <1>6, <1>7 DEF Next

-----------------------------------------------------------------------------
(* Call order. *)

\* An appended line keeps the files in order, if it is the youngest or comes late.
LEMMA OrderOfEndedLine ==
  ASSUME TypeOK, CallOrder, NEW p \in Paths, NEW l, EndsLine(p, l),
         l.late \/ \A i \in DOMAIN lines[p] : lines[p][i].n < l.n
  PROVE  /\ \A i, j \in DOMAIN lines'[p] :
              i < j /\ ~lines'[p][j].late => lines'[p][i].n < lines'[p][j].n
         /\ \A i \in DOMAIN lines'[p] :
              \/ i \in DOMAIN lines[p] /\ lines'[p][i] = lines[p][i]
              \/ lines'[p][i] = l
<1>1. lines[p] \in Seq(Line) /\ l \in Line
  BY Entries DEF EndsLine
<1>2. /\ DOMAIN lines'[p] = 1 .. Len(lines[p]) + 1
      /\ \A k \in 1 .. Len(lines[p]) : lines'[p][k] = lines[p][k]
      /\ lines'[p][Len(lines[p]) + 1] = l
      /\ DOMAIN lines[p] = 1 .. Len(lines[p])
      /\ Len(lines[p]) \in Nat
  BY <1>1, QueueAppend DEF EndsLine
<1>3. \A k \in DOMAIN lines'[p] :
        \/ k \in DOMAIN lines[p] /\ lines'[p][k] = lines[p][k]
        \/ k = Len(lines[p]) + 1 /\ lines'[p][k] = l
  BY <1>2
<1>4. ASSUME NEW i \in DOMAIN lines'[p], NEW j \in DOMAIN lines'[p],
             i < j, ~lines'[p][j].late
      PROVE  lines'[p][i].n < lines'[p][j].n
  <2>1. i \in DOMAIN lines[p] /\ lines'[p][i] = lines[p][i]
    BY <1>2, <1>3, <1>4
  <2>2. CASE j \in DOMAIN lines[p] /\ lines'[p][j] = lines[p][j]
    BY <1>4, <2>1, <2>2 DEF CallOrder
  <2>3. CASE lines'[p][j] = l
    BY <1>4, <2>1, <2>3
  <2> QED
    BY <1>3, <2>2, <2>3
<1> QED
  BY <1>3, <1>4

\* The head has left the queue of p: what stays is younger.
HeadLeft(p) ==
  /\ 1 \in DOMAIN locks[p]
  /\ \A q \in Paths : q # p => locks'[q] = locks[q]
  /\ \A q \in Paths : \A j \in DOMAIN locks'[q] :
       \E k \in DOMAIN locks[q] : locks'[q][j] = locks[q][k]
  /\ \A i, j \in DOMAIN locks'[p] : i < j => locks'[p][i].rec < locks'[p][j].rec
  /\ \A j \in DOMAIN locks'[p] : locks[p][1].rec < locks'[p][j].rec
  /\ \A j \in DOMAIN locks'[p] : locks'[p][j].rec <= tickets
  /\ \A j \in DOMAIN locks'[p] : locks'[p][j].rec \in Nat
  /\ locks[p][1].rec <= tickets /\ locks[p][1].rec \in Nat

LEMMA OrderStep == TypeOK /\ OrderInv /\ [Next]_vars => OrderInv'
<1> SUFFICES ASSUME TypeOK, OrderInv, [Next]_vars
             PROVE  OrderInv'
  OBVIOUS
<1>0. \A q \in Paths :
        /\ locks[q] \in Seq(Entry)
        /\ lines[q] \in Seq(Line)
        /\ tickets \in Nat
        /\ \A x \in late[q] : x.n \in Nat
        /\ \A k \in DOMAIN locks[q] : locks[q][k].rec \in Nat
        /\ \A k \in DOMAIN lines[q] : lines[q][k].n \in Nat
  BY Entries
\* Leaving the queue, without a line.
<1>1. ASSUME NEW p \in Paths, NEW i \in DOMAIN locks[p],
             locks' = [locks EXCEPT ![p] = Leave(@, i)],
             UNCHANGED <<lines, late, tickets>>
      PROVE  OrderInv'
  <2>1. locks'[p] = Leave(locks[p], i) /\ \A q \in Paths : q # p => locks'[q] = locks[q]
    BY <1>1 DEF TypeOK
  <2>2. /\ \A k \in DOMAIN locks'[p] :
             From(i, k) \in DOMAIN locks[p] /\ locks'[p][k] = locks[p][From(i, k)]
        /\ \A j, k \in DOMAIN locks'[p] : j < k => From(i, j) < From(i, k)
    BY <1>0, <2>1, RemoveAtFrom DEF Leave
  <2> QED
    BY <1>1, <2>1, <2>2 DEF OrderInv, CallOrder, QueueOrder, LateOrder
<1>2. ASSUME NEW w \in Writers, NEW p \in Paths, Holds(w, p),
             locks' = [locks EXCEPT ![p] = Leave(@, 1)]
      PROVE  HeadLeft(p)
  <2>1. locks'[p] = Leave(locks[p], 1) /\ \A q \in Paths : q # p => locks'[q] = locks[q]
    BY <1>2 DEF TypeOK
  <2>2. 1 \in DOMAIN locks[p]
    BY <1>2, HeadEntry
  <2>3. \A k \in DOMAIN locks'[p] :
          /\ From(1, k) \in DOMAIN locks[p]
          /\ From(1, k) # 1
          /\ locks'[p][k] = locks[p][From(1, k)]
    BY <1>0, <2>1, <2>2, RemoveAtFrom DEF Leave
  <2>4. /\ \A k \in DOMAIN locks'[p] : 1 < From(1, k)
        /\ \A j, k \in DOMAIN locks'[p] : j < k => From(1, j) < From(1, k)
    BY <1>0, <2>1, <2>2, <2>3, RemoveAtFrom DEF Leave
  <2>5. \A i, j \in DOMAIN locks'[p] : i < j => locks'[p][i].rec < locks'[p][j].rec
    BY <2>3, <2>4 DEF OrderInv, QueueOrder
  <2>6. \A j \in DOMAIN locks'[p] : locks[p][1].rec < locks'[p][j].rec
    BY <2>2, <2>3, <2>4 DEF OrderInv, QueueOrder
  <2>7. \A j \in DOMAIN locks'[p] : locks'[p][j].rec <= tickets
    BY <2>3 DEF OrderInv, QueueOrder
  <2>8. locks[p][1].rec <= tickets
    BY <2>2 DEF OrderInv, QueueOrder
  <2>9. \A q \in Paths : \A j \in DOMAIN locks'[q] :
          \E k \in DOMAIN locks[q] : locks'[q][j] = locks[q][k]
    BY <2>1, <2>3
  <2> QED
    BY <1>0, <2>1, <2>2, <2>3, <2>5, <2>6, <2>7, <2>8, <2>9 DEF HeadLeft
<1>3. ASSUME NEW w \in Writers, NEW p \in Paths, CallAppend(w, p)
      PROVE  OrderInv'
  <2> DEFINE e == [by |-> w, rec |-> tickets + 1]
  <2>1. e \in Entry /\ e.rec = tickets + 1
    BY <1>3, JsonlStoreAssumption DEF CallAppend, TypeOK, Ticket, Entry
  <2>2. /\ locks'[p] = Append(locks[p], e)
        /\ \A q \in Paths : q # p => locks'[q] = locks[q]
        /\ tickets' = tickets + 1
        /\ lines' = lines /\ late' = late
    BY <1>3 DEF CallAppend, TypeOK, Join
  <2> HIDE DEF e
  <2>3. /\ DOMAIN locks'[p] = 1 .. Len(locks[p]) + 1
        /\ \A k \in 1 .. Len(locks[p]) : locks'[p][k] = locks[p][k]
        /\ locks'[p][Len(locks[p]) + 1] = e
        /\ DOMAIN locks[p] = 1 .. Len(locks[p])
        /\ Len(locks[p]) \in Nat
    BY <1>0, <2>1, <2>2, QueueAppend
  <2>4. \A q \in Paths : \A k \in DOMAIN locks'[q] :
          \/ k \in DOMAIN locks[q] /\ locks'[q][k] = locks[q][k]
          \/ q = p /\ k = Len(locks[q]) + 1 /\ locks'[q][k].rec = tickets + 1
    BY <2>1, <2>2, <2>3
  <2>5. CallOrder'
    BY <2>2 DEF OrderInv, CallOrder
  <2>6. ASSUME NEW q \in Paths, NEW i \in DOMAIN locks'[q], NEW j \in DOMAIN locks'[q], i < j
        PROVE  locks'[q][i].rec < locks'[q][j].rec
    <3>1. i \in DOMAIN locks[q] /\ locks'[q][i] = locks[q][i]
      <4>1. CASE q = p
        <5>1. i \in 1 .. Len(locks[p]) + 1 /\ j \in 1 .. Len(locks[p]) + 1
          BY <2>3, <2>6, <4>1
        <5>2. i \in 1 .. Len(locks[p])
          BY <2>3, <2>6, <5>1
        <5> QED
          BY <2>3, <4>1, <5>2
      <4>2. CASE q # p
        BY <2>4, <4>2
      <4> QED
        BY <4>1, <4>2
    <3>2. CASE j \in DOMAIN locks[q] /\ locks'[q][j] = locks[q][j]
      BY <2>6, <3>1, <3>2 DEF OrderInv, QueueOrder
    <3>3. CASE locks'[q][j].rec = tickets + 1
      <4>1. locks[q][i].rec <= tickets /\ locks[q][i].rec \in Nat /\ tickets \in Nat
        BY <1>0, <3>1 DEF OrderInv, QueueOrder
      <4> QED
        BY <3>1, <3>3, <4>1
    <3> QED
      BY <2>4, <3>2, <3>3
  <2>7. \A q \in Paths : \A i \in DOMAIN locks'[q] : locks'[q][i].rec <= tickets'
    <3> SUFFICES ASSUME NEW q \in Paths, NEW i \in DOMAIN locks'[q]
                 PROVE  locks'[q][i].rec <= tickets'
      OBVIOUS
    <3>1. CASE i \in DOMAIN locks[q] /\ locks'[q][i] = locks[q][i]
      <4>1. locks[q][i].rec <= tickets /\ locks[q][i].rec \in Nat /\ tickets \in Nat
        BY <1>0, <3>1 DEF OrderInv, QueueOrder
      <4> QED
        BY <2>2, <3>1, <4>1
    <3>2. CASE locks'[q][i].rec = tickets + 1
      BY <1>0, <2>2, <3>2
    <3> QED
      BY <2>4, <3>1, <3>2
  <2>8. \A q \in Paths : \A i \in DOMAIN lines'[q] : lines'[q][i].n <= tickets'
    <3> SUFFICES ASSUME NEW q \in Paths, NEW i \in DOMAIN lines[q]
                 PROVE  lines[q][i].n <= tickets'
      BY <2>2
    <3>1. lines[q][i].n <= tickets /\ lines[q][i].n \in Nat /\ tickets \in Nat
      BY <1>0 DEF OrderInv, QueueOrder
    <3> QED
      BY <2>2, <3>1
  <2>9. \A q \in Paths : \A i \in DOMAIN lines'[q], j \in DOMAIN locks'[q] :
          lines'[q][i].n < locks'[q][j].rec
    <3> SUFFICES ASSUME NEW q \in Paths, NEW i \in DOMAIN lines[q], NEW j \in DOMAIN locks'[q]
                 PROVE  lines[q][i].n < locks'[q][j].rec
      BY <2>2
    <3>1. CASE j \in DOMAIN locks[q] /\ locks'[q][j] = locks[q][j]
      BY <3>1 DEF OrderInv, QueueOrder
    <3>2. CASE locks'[q][j].rec = tickets + 1
      <4>1. lines[q][i].n <= tickets /\ lines[q][i].n \in Nat /\ tickets \in Nat
        BY <1>0 DEF OrderInv, QueueOrder
      <4> QED
        BY <3>2, <4>1
    <3> QED
      BY <2>4, <3>1, <3>2
  <2>10. LateOrder'
    <3> SUFFICES ASSUME NEW q \in Paths, NEW x \in late[q]
                 PROVE  /\ x.n <= tickets'
                        /\ \A y \in late[q] : x.n = y.n => x = y
                        /\ \A j \in DOMAIN locks'[q] : x.n < locks'[q][j].rec
      BY <2>2 DEF LateOrder
    <3>1. /\ x.n <= tickets /\ x.n \in Nat /\ tickets \in Nat
          /\ \A y \in late[q] : x.n = y.n => x = y
      BY <1>0 DEF OrderInv, LateOrder
    <3>2. ASSUME NEW j \in DOMAIN locks'[q]
          PROVE  x.n < locks'[q][j].rec
      <4>1. CASE j \in DOMAIN locks[q] /\ locks'[q][j] = locks[q][j]
        BY <4>1 DEF OrderInv, LateOrder
      <4>2. CASE locks'[q][j].rec = tickets + 1
        BY <3>1, <4>2
      <4> QED
        BY <2>4, <4>1, <4>2
    <3> QED
      BY <2>2, <3>1, <3>2
  <2> QED
    BY <2>5, <2>6, <2>7, <2>8, <2>9, <2>10 DEF OrderInv, QueueOrder
<1>4. ASSUME NEW w \in Writers, NEW p \in Paths, Open(w, p) \/ Write(w, p)
      PROVE  OrderInv'
  BY <1>4 DEF Open, Write, OrderInv, CallOrder, QueueOrder, LateOrder
<1>5. ASSUME NEW w \in Writers, NEW p \in Paths, Close(w, p)
      PROVE  OrderInv'
  <2>1. EndsLine(p, EndedLine(p)) /\ \A q \in Paths : q # p => lines'[q] = lines[q]
    BY <1>5, CloseEffect
  <2>2. /\ Holds(w, p) /\ locks' = [locks EXCEPT ![p] = Leave(@, 1)]
        /\ tickets' = tickets /\ late' = late
    BY <1>5 DEF Close
  <2>3. EndedLine(p).n = locks[p][1].rec /\ 1 \in DOMAIN locks[p]
    BY <2>2, HeadEntry
  <2>4. \A i \in DOMAIN lines[p] : lines[p][i].n < EndedLine(p).n
    BY <2>3 DEF OrderInv, QueueOrder
  <2>10. HeadLeft(p)
    BY <1>2, <2>2
  <2>5. /\ \A i, j \in DOMAIN lines'[p] :
             i < j /\ ~lines'[p][j].late => lines'[p][i].n < lines'[p][j].n
        /\ \A i \in DOMAIN lines'[p] :
             \/ i \in DOMAIN lines[p] /\ lines'[p][i] = lines[p][i]
             \/ lines'[p][i] = EndedLine(p)
    BY <2>1, <2>4, OrderOfEndedLine DEF OrderInv
  <2>6. CallOrder'
    BY <2>1, <2>5 DEF OrderInv, CallOrder
  <2>7. \A i \in DOMAIN lines'[p] :
          lines'[p][i].n \in Nat /\ lines'[p][i].n <= locks[p][1].rec
    BY <1>0, <2>3, <2>4, <2>5
  <2>8. ASSUME NEW q \in Paths
        PROVE  /\ \A i, j \in DOMAIN locks'[q] : i < j => locks'[q][i].rec < locks'[q][j].rec
               /\ \A i \in DOMAIN locks'[q] : locks'[q][i].rec <= tickets
               /\ \A i \in DOMAIN lines'[q] : lines'[q][i].n <= tickets
               /\ \A i \in DOMAIN lines'[q], j \in DOMAIN locks'[q] :
                    lines'[q][i].n < locks'[q][j].rec
    <3>1. CASE q # p
      BY <3>1, <2>1, <2>10 DEF OrderInv, QueueOrder, HeadLeft
    <3>2. CASE q = p
      <4>1. tickets \in Nat
        BY <1>0
      <4>2. \A i \in DOMAIN lines'[p] : lines'[p][i].n <= tickets
        BY <2>7, <2>10, <4>1 DEF HeadLeft
      <4>3. \A i \in DOMAIN lines'[p], j \in DOMAIN locks'[p] :
              lines'[p][i].n < locks'[p][j].rec
        BY <2>7, <2>10 DEF HeadLeft
      <4> QED
        BY <3>2, <2>10, <4>2, <4>3 DEF HeadLeft
    <3> QED
      BY <3>1, <3>2
  <2>9. LateOrder'
    <3> SUFFICES ASSUME NEW q \in Paths, NEW x \in late[q]
                 PROVE  /\ x.n <= tickets
                        /\ \A y \in late'[q] : x.n = y.n => x = y
                        /\ \A j \in DOMAIN locks'[q] : x.n < locks'[q][j].rec
      BY <2>2 DEF LateOrder
    <3>1. \A j \in DOMAIN locks'[q] : \E k \in DOMAIN locks[q] : locks'[q][j] = locks[q][k]
      BY <2>10 DEF HeadLeft
    <3> QED
      BY <2>2, <3>1 DEF OrderInv, LateOrder
  <2> QED
    BY <2>2, <2>6, <2>8, <2>9 DEF OrderInv, QueueOrder
<1>6. ASSUME NEW w \in Writers, NEW p \in Paths, Cancel(w, p) \/ Raise(w, p)
      PROVE  OrderInv'
  <2>1. Raise(w, p) => 1 \in DOMAIN locks[p]
    BY HeadEntry DEF Raise
  <2>2. \E i \in DOMAIN locks[p] : locks' = [locks EXCEPT ![p] = Leave(@, i)]
    BY <1>6, <2>1 DEF Cancel, Raise
  <2> QED
    BY <1>1, <1>6, <2>2 DEF Cancel, Raise
<1>8. ASSUME NEW w \in Writers, NEW p \in Paths, Abandon(w, p)
      PROVE  OrderInv'
  <2>1. /\ Holds(w, p) /\ locks' = [locks EXCEPT ![p] = Leave(@, 1)]
        /\ tickets' = tickets /\ lines' = lines
    BY <1>8 DEF Abandon
  <2>2. locks[p][1] = Head(locks[p])
    BY <2>1, HeadEntry
  <2>3. PICK c \in BOOLEAN :
          late' = [late EXCEPT ![p] = @ \cup {[n |-> locks[p][1].rec, cut |-> c]}]
    BY <1>8, <2>2 DEF Abandon
  <2> DEFINE e == [n |-> locks[p][1].rec, cut |-> c]
  <2>8. \A q \in Paths : \A x \in late'[q] : x \in late[q] \/ (q = p /\ x = e)
    BY <2>3 DEF TypeOK
  <2>9. e.n = locks[p][1].rec
    OBVIOUS
  <2> HIDE DEF e
  <2>4. CallOrder'
    BY <2>1 DEF OrderInv, CallOrder
  <2>10. HeadLeft(p)
    BY <1>2, <2>1
  <2>5. \A q \in Paths : \A j \in DOMAIN locks'[q] :
          \E k \in DOMAIN locks[q] : locks'[q][j] = locks[q][k]
    BY <2>10 DEF HeadLeft
  <2>6. QueueOrder'
    <3>1. \A q \in Paths : \A i, j \in DOMAIN locks'[q] :
            i < j => locks'[q][i].rec < locks'[q][j].rec
      BY <2>10 DEF OrderInv, QueueOrder, HeadLeft
    <3> QED
      BY <2>1, <2>5, <3>1 DEF OrderInv, QueueOrder
  <2>7. LateOrder'
    <3> SUFFICES ASSUME NEW q \in Paths, NEW x \in late'[q]
                 PROVE  /\ x.n <= tickets
                        /\ \A y \in late'[q] : x.n = y.n => x = y
                        /\ \A j \in DOMAIN locks'[q] : x.n < locks'[q][j].rec
      BY <2>1 DEF LateOrder
    <3>0. \A y \in late[p] : y.n < e.n /\ y.n \in Nat /\ e.n \in Nat
      BY <1>0, <2>10, <2>9 DEF OrderInv, LateOrder, HeadLeft
    <3>1. CASE x \in late[q]
      <4>1. \A y \in late'[q] : x.n = y.n => x = y
        <5> SUFFICES ASSUME NEW y \in late'[q], x.n = y.n
                     PROVE  x = y
          OBVIOUS
        <5>1. CASE y \in late[q]
          BY <3>1, <5>1 DEF OrderInv, LateOrder
        <5>2. CASE q = p /\ y = e
          BY <3>0, <3>1, <5>2
        <5> QED
          BY <2>8, <5>1, <5>2
      <4> QED
        BY <2>5, <3>1, <4>1 DEF OrderInv, LateOrder
    <3>2. CASE q = p /\ x = e
      <4>1. \A y \in late'[q] : x.n = y.n => x = y
        BY <2>8, <3>0, <3>2
      <4> QED
        BY <2>10, <2>9, <3>2, <4>1 DEF HeadLeft
    <3> QED
      BY <2>8, <3>1, <3>2
  <2> QED
    BY <2>4, <2>6, <2>7 DEF OrderInv
<1>9. ASSUME NEW p \in Paths, NEW x \in Unclosed, Flush(p, x)
      PROVE  OrderInv'
  <2>1. EndsLine(p, LateLine(p, x)) /\ \A q \in Paths : q # p => lines'[q] = lines[q]
    BY <1>9, FlushEffect
  <2>2. x \in late[p] /\ tickets' = tickets /\ locks' = locks
    BY <1>9 DEF Flush
  <2>3. LateLine(p, x).late /\ LateLine(p, x).n = x.n
    BY <2>2, LateEntry
  <2>4. /\ \A i, j \in DOMAIN lines'[p] :
             i < j /\ ~lines'[p][j].late => lines'[p][i].n < lines'[p][j].n
        /\ \A i \in DOMAIN lines'[p] :
             \/ i \in DOMAIN lines[p] /\ lines'[p][i] = lines[p][i]
             \/ lines'[p][i] = LateLine(p, x)
    BY <2>1, <2>3, OrderOfEndedLine DEF OrderInv
  <2>5. CallOrder'
    BY <2>1, <2>4 DEF OrderInv, CallOrder
  <2>6. x.n <= tickets /\ \A j \in DOMAIN locks[p] : x.n < locks[p][j].rec
    BY <2>2 DEF OrderInv, LateOrder
  <2>7. ASSUME NEW q \in Paths, NEW i \in DOMAIN lines'[q]
        PROVE  /\ lines'[q][i].n <= tickets
               /\ \A j \in DOMAIN locks[q] : lines'[q][i].n < locks[q][j].rec
    <3>1. CASE i \in DOMAIN lines[q] /\ lines'[q][i] = lines[q][i]
      BY <3>1 DEF OrderInv, QueueOrder
    <3>2. CASE q = p /\ lines'[q][i] = LateLine(p, x)
      BY <2>3, <2>6, <3>2
    <3> QED
      BY <2>1, <2>4, <2>7, <3>1, <3>2
  <2>8. QueueOrder'
    BY <2>2, <2>7 DEF OrderInv, QueueOrder
  <2>9. LateOrder'
    BY <1>9 DEF Flush, TypeOK, OrderInv, LateOrder
  <2> QED
    BY <2>5, <2>8, <2>9 DEF OrderInv
<1>10. ASSUME NEW p \in Paths, NEW x \in Unclosed, FlushFails(p, x)
       PROVE  OrderInv'
  BY <1>10 DEF FlushFails, TypeOK, OrderInv, CallOrder, QueueOrder, LateOrder
<1>11. CASE Crash
  BY <1>11 DEF Crash, OrderInv, CallOrder, QueueOrder, LateOrder
<1>7. CASE UNCHANGED vars
  BY <1>7 DEF vars, OrderInv, CallOrder, QueueOrder, LateOrder
<1> QED
  BY <1>3, <1>4, <1>5, <1>6, <1>7, <1>8, <1>9, <1>10, <1>11 DEF Next

-----------------------------------------------------------------------------
(* What faults cost. *)

LEMMA SpoiltFinite ==
  ASSUME TypeOK, NEW p \in Paths
  PROVE  /\ IsFiniteSet(Spoilt(p))
         /\ Cardinality(Spoilt(p)) \in Nat
         /\ \A i \in Spoilt(p) : i \in 1 .. Len(lines[p])
<1>1. lines[p] \in Seq(Line)
  BY Entries
<1>2. Spoilt(p) \subseteq 1 .. Len(lines[p])
  BY <1>1 DEF Spoilt
<1>3. Len(lines[p]) \in Nat
  BY <1>1
<1>4. IsFiniteSet(1 .. Len(lines[p]))
  BY <1>3, FS_Interval
<1>5. IsFiniteSet(Spoilt(p))
  BY <1>2, <1>4, FS_Subset
<1> QED
  BY <1>2, <1>5, FS_CardinalityType

\* A line that is not whole is one more spoilt line.
LEMMA SpoiltByEndedLine ==
  ASSUME TypeOK, NEW p \in Paths, NEW l, EndsLine(p, l)
  PROVE  Cardinality(Spoilt(p)') = Cardinality(Spoilt(p)) + (IF l.whole THEN 0 ELSE 1)
<1>1. lines[p] \in Seq(Line) /\ l \in Line
  BY Entries DEF EndsLine
<1>2. /\ DOMAIN lines'[p] = 1 .. Len(lines[p]) + 1
      /\ \A k \in 1 .. Len(lines[p]) : lines'[p][k] = lines[p][k]
      /\ lines'[p][Len(lines[p]) + 1] = l
      /\ DOMAIN lines[p] = 1 .. Len(lines[p])
      /\ Len(lines[p]) \in Nat
  BY <1>1, QueueAppend DEF EndsLine
<1>3. /\ DOMAIN lines'[p] = DOMAIN lines[p] \cup {Len(lines[p]) + 1}
      /\ Len(lines[p]) + 1 \notin DOMAIN lines[p]
      /\ \A k \in DOMAIN lines[p] : lines'[p][k] = lines[p][k]
      /\ lines'[p][Len(lines[p]) + 1].whole = l.whole
  BY <1>2
<1>4. CASE ~l.whole
  <2>1. \A i : i \in DOMAIN lines'[p] /\ ~lines'[p][i].whole
                <=> i \in Spoilt(p) \/ i = Len(lines[p]) + 1
    BY <1>3, <1>4 DEF Spoilt
  <2>2. Spoilt(p)' = Spoilt(p) \cup {Len(lines[p]) + 1}
    BY <2>1 DEF Spoilt
  <2>3. Len(lines[p]) + 1 \notin Spoilt(p)
    BY <1>2, SpoiltFinite
  <2> QED
    BY <1>4, <2>2, <2>3, SpoiltFinite, FS_AddElement
<1>5. CASE l.whole
  <2>1. \A i : i \in DOMAIN lines'[p] /\ ~lines'[p][i].whole <=> i \in Spoilt(p)
    BY <1>3, <1>5 DEF Spoilt
  <2>2. Spoilt(p)' = Spoilt(p)
    BY <2>1 DEF Spoilt
  <2> QED
    BY <1>5, <2>2, SpoiltFinite
<1> QED
  BY <1>4, <1>5

\* The long lines whose second part is still to come: each may spoil its own line
\* besides the one that its first part has spoilt.
Cut(p) == {x \in late[p] : x.cut}

Lost(p) == Cardinality(Spoilt(p)) + (IF torn[p] THEN 1 ELSE 0) + Cardinality(Cut(p))

LossInv ==
  \A p \in Paths : IsFiniteSet(late[p]) /\ Lost(p) <= faults + 2 * cuts[p]

LEMMA CutFinite ==
  ASSUME NEW p \in Paths, IsFiniteSet(late[p])
  PROVE  IsFiniteSet(Cut(p)) /\ Cardinality(Cut(p)) \in Nat
<1>1. Cut(p) \subseteq late[p]
  BY DEF Cut
<1> QED
  BY <1>1, FS_Subset, FS_CardinalityType

LEMMA LossStep == TypeOK /\ LossInv /\ [Next]_vars => LossInv'
<1> SUFFICES ASSUME TypeOK, LossInv, [Next]_vars, NEW p \in Paths
             PROVE  IsFiniteSet(late'[p]) /\ Lost(p)' <= faults' + 2 * cuts'[p]
  BY DEF LossInv
<1> DEFINE S == Cardinality(Spoilt(p))
           C == Cardinality(Cut(p))
           Goal == IsFiniteSet(late'[p]) /\ Lost(p)' <= faults' + 2 * cuts'[p]
<1>0. /\ IsFiniteSet(late[p]) /\ IsFiniteSet(Cut(p))
      /\ S \in Nat /\ C \in Nat /\ faults \in Nat /\ cuts[p] \in Nat
      /\ torn[p] \in BOOLEAN
      /\ S + (IF torn[p] THEN 1 ELSE 0) + C <= faults + 2 * cuts[p]
  <2>1. faults \in 0 .. MaxFaults /\ cuts[p] \in Nat /\ torn[p] \in BOOLEAN
    BY DEF TypeOK
  <2>2. IsFiniteSet(late[p])
    BY DEF LossInv
  <2> QED
    BY <2>1, <2>2, SpoiltFinite, CutFinite DEF LossInv, Lost
\* Nothing happens to the file.
<1>1. ASSUME lines'[p] = lines[p], torn'[p] = torn[p], late'[p] = late[p],
             cuts'[p] = cuts[p], faults' \in {faults, faults + 1}
      PROVE  Goal
  <2>1. Spoilt(p)' = Spoilt(p) /\ Cut(p)' = Cut(p)
    BY <1>1 DEF Spoilt, Cut
  <2> QED
    BY <1>0, <1>1, <2>1 DEF Lost
\* An error, which may leave a fragment and end closes.
<1>2. ASSUME lines'[p] = lines[p], torn'[p] \in BOOLEAN, late'[p] \subseteq late[p],
             cuts'[p] = cuts[p], faults' = faults + 1
      PROVE  Goal
  <2>1. Spoilt(p)' = Spoilt(p)
    BY <1>2 DEF Spoilt
  <2>2. IsFiniteSet(late'[p])
    BY <1>0, <1>2, FS_Subset
  <2>3. Cut(p)' \subseteq Cut(p)
    BY <1>2 DEF Cut
  <2>4. Cardinality(Cut(p)') \in Nat /\ Cardinality(Cut(p)') <= C
    BY <1>0, <2>3, FS_Subset, FS_CardinalityType
  <2> QED
    BY <1>0, <1>2, <2>1, <2>2, <2>4 DEF Lost
<1>3. ASSUME NEW w \in Writers, NEW q \in Paths, Close(w, q)
      PROVE  Goal
  <2>1. faults' = faults /\ late' = late /\ cuts' = cuts
    BY <1>3 DEF Close
  <2>2. CASE q # p
    BY <1>1, <1>3, <2>1, <2>2, CloseEffect
  <2>3. CASE q = p
    <3>1. EndsLine(p, EndedLine(p)) /\ torn'[p] = FALSE
      BY <1>3, <2>3, CloseEffect DEF EndsLine
    <3>2. EndedLine(p).whole = ~torn[p]
      BY DEF EndedLine
    <3>3. Cardinality(Spoilt(p)') = S + (IF torn[p] THEN 1 ELSE 0)
      BY <1>0, <3>1, <3>2, SpoiltByEndedLine
    <3>4. Cut(p)' = Cut(p)
      BY <2>1 DEF Cut
    <3> QED
      BY <1>0, <2>1, <3>1, <3>3, <3>4 DEF Lost
  <2> QED
    BY <2>2, <2>3
<1>4. ASSUME NEW q \in Paths, NEW x \in Unclosed, Flush(q, x)
      PROVE  Goal
  <2>1. faults' = faults /\ cuts' = cuts
    BY <1>4 DEF Flush
  <2>2. CASE q # p
    <3>1. late'[p] = late[p]
      BY <1>4, <2>2 DEF Flush, TypeOK
    <3> QED
      BY <1>1, <1>4, <2>1, <2>2, <3>1, FlushEffect
  <2>3. CASE q = p
    <3>1. EndsLine(p, LateLine(p, x)) /\ torn'[p] = FALSE
      BY <1>4, <2>3, FlushEffect DEF EndsLine
    <3>2. x \in late[p] /\ late'[p] = late[p] \ {x}
      BY <1>4, <2>3 DEF Flush, TypeOK
    <3>3. /\ ~x.cut /\ ~torn[p] => LateLine(p, x).whole
          /\ LateLine(p, x).whole \in BOOLEAN
      BY <3>2, LateEntry DEF Line
    <3>4. IsFiniteSet(late'[p])
      BY <1>0, <3>2, FS_Subset
    <3>5. Cardinality(Spoilt(p)') = S + (IF LateLine(p, x).whole THEN 0 ELSE 1)
      BY <3>1, SpoiltByEndedLine
    <3>6. CASE x.cut
      <4>1. Cut(p)' = Cut(p) \ {x} /\ x \in Cut(p)
        BY <3>2, <3>6 DEF Cut
      <4>2. Cardinality(Cut(p)') = C - 1 /\ C - 1 \in Nat
        <5>1. Cardinality(Cut(p)') = C - 1
          BY <1>0, <4>1, FS_RemoveElement
        <5>2. IsFiniteSet(Cut(p) \ {x})
          BY <1>0, FS_RemoveElement
        <5>3. Cardinality(Cut(p) \ {x}) \in Nat
          BY <5>2, FS_CardinalityType
        <5> QED
          BY <4>1, <5>1, <5>3
      <4> HIDE DEF S, C
      <4> QED
        BY <1>0, <2>1, <3>1, <3>3, <3>4, <3>5, <4>2 DEF Lost
    <3>7. CASE ~x.cut
      <4>1. Cut(p)' = Cut(p)
        BY <3>2, <3>7 DEF Cut
      <4> QED
        BY <1>0, <2>1, <3>1, <3>3, <3>4, <3>5, <3>7, <4>1 DEF Lost
    <3> QED
      BY <3>6, <3>7
  <2> QED
    BY <2>2, <2>3
<1>5. ASSUME NEW q \in Paths, NEW x \in Unclosed, FlushFails(q, x)
      PROVE  Goal
  <2>1. /\ torn'[p] \in BOOLEAN /\ late'[p] \subseteq late[p]
        /\ lines' = lines /\ cuts' = cuts /\ faults' = faults + 1
    BY <1>5 DEF FlushFails, TypeOK
  <2> QED
    BY <1>2, <2>1
<1>6. ASSUME NEW w \in Writers, NEW q \in Paths, Raise(w, q)
      PROVE  Goal
  <2>1. /\ torn'[p] \in BOOLEAN
        /\ lines' = lines /\ late' = late /\ cuts' = cuts /\ faults' = faults + 1
    BY <1>6 DEF Raise, TypeOK
  <2> QED
    BY <1>2, <2>1
<1>7. CASE Crash
  <2>1. /\ torn'[p] \in BOOLEAN /\ late'[p] = {}
        /\ lines' = lines /\ cuts' = cuts /\ faults' = faults + 1
    BY <1>7 DEF Crash, TypeOK
  <2> QED
    BY <1>2, <2>1
<1>8. ASSUME NEW w \in Writers, NEW q \in Paths, Abandon(w, q)
      PROVE  Goal
  <2>1. faults' = faults /\ lines' = lines
    BY <1>8 DEF Abandon
  <2>2. PICK c \in BOOLEAN :
          /\ late' = [late EXCEPT ![q] = @ \cup {[n |-> Head(locks[q]).rec, cut |-> c]}]
          /\ IF c
             THEN /\ torn' = [torn EXCEPT ![q] = TRUE]
                  /\ cuts' = [cuts EXCEPT ![q] = @ + 1]
             ELSE UNCHANGED <<torn, cuts>>
    BY <1>8 DEF Abandon
  <2> DEFINE e == [n |-> Head(locks[q]).rec, cut |-> c]
  <2>3. e.cut = c
    OBVIOUS
  <2>4. late' = [late EXCEPT ![q] = @ \cup {e}]
    BY <2>2
  <2> HIDE DEF e
  <2>5. CASE q # p
    <3>1. late'[p] = late[p] /\ torn'[p] = torn[p] /\ cuts'[p] = cuts[p]
      BY <2>2, <2>4, <2>5 DEF TypeOK
    <3> QED
      BY <1>1, <2>1, <3>1
  <2>6. CASE q = p
    <3>1. late'[p] = late[p] \cup {e}
      BY <2>4, <2>6 DEF TypeOK
    <3>2. IsFiniteSet(late'[p])
      BY <1>0, <3>1, FS_AddElement
    <3>3. Spoilt(p)' = Spoilt(p)
      BY <2>1 DEF Spoilt
    <3>4. CASE c
      <4>1. Cut(p)' = Cut(p) \cup {e}
        BY <2>3, <3>1, <3>4 DEF Cut
      <4>2. Cardinality(Cut(p)') \in Nat /\ Cardinality(Cut(p)') <= C + 1
        <5>1. CASE e \in Cut(p)
          <6>1. Cut(p)' = Cut(p)
            BY <4>1, <5>1
          <6> QED
            BY <1>0, <6>1
        <5>2. CASE e \notin Cut(p)
          <6>1. Cardinality(Cut(p) \cup {e}) = C + 1
            BY <1>0, <5>2, FS_AddElement
          <6> HIDE DEF C
          <6> QED
            BY <1>0, <4>1, <6>1
        <5> QED
          BY <5>1, <5>2
      <4>3. torn'[p] = TRUE /\ cuts'[p] = cuts[p] + 1
        BY <2>2, <2>6, <3>4 DEF TypeOK
      <4> HIDE DEF S, C
      <4>4. Lost(p)' = Cardinality(Spoilt(p)) + 1 + Cardinality(Cut(p)')
        BY <3>3, <4>3 DEF Lost
      <4> QED
        BY <1>0, <2>1, <3>2, <4>2, <4>3, <4>4 DEF S
    <3>5. CASE ~c
      <4>1. Cut(p)' = Cut(p)
        BY <2>3, <3>1, <3>5 DEF Cut
      <4>2. torn'[p] = torn[p] /\ cuts'[p] = cuts[p]
        BY <2>2, <3>5
      <4> QED
        BY <1>0, <2>1, <3>2, <3>3, <4>1, <4>2 DEF Lost
    <3> QED
      BY <3>4, <3>5
  <2> QED
    BY <2>5, <2>6
<1>9. ASSUME UNCHANGED <<lines, torn, late, cuts, faults>>
      PROVE  Goal
  BY <1>1, <1>9
<1> QED
  BY <1>3, <1>4, <1>5, <1>6, <1>7, <1>8, <1>9
     DEF Next, CallAppend, Open, Write, Cancel, vars

-----------------------------------------------------------------------------
(* The invariant and what follows from it. *)

IInv == TypeOK /\ LockInv /\ OrderInv /\ LossInv

LEMMA InitInv == Init => IInv
<1> SUFFICES ASSUME Init
             PROVE  IInv
  OBVIOUS
<1>1. TypeOK
  BY InitType
<1>2. \A p \in Paths :
        lines[p] = <<>> /\ locks[p] = <<>> /\ ~torn[p] /\ late[p] = {} /\ cuts[p] = 0
  BY DEF Init
<1>3. LockInv /\ OrderInv
  BY <1>2 DEF LockInv, QueuedOnce, OnlyHolderWrites, OrderInv, CallOrder, QueueOrder, LateOrder
<1>4. \A p \in Paths : Spoilt(p) = {} /\ Cut(p) = {}
  BY <1>2 DEF Spoilt, Cut
<1>5. LossInv
  <2>1. \A p \in Paths : Cardinality(Spoilt(p)) = 0 /\ Cardinality(Cut(p)) = 0
    BY <1>4, FS_EmptySet
  <2>2. faults = 0
    BY DEF Init
  <2>3. \A p \in Paths : IsFiniteSet(late[p])
    BY <1>2, FS_EmptySet
  <2> QED
    BY <1>2, <2>1, <2>2, <2>3 DEF LossInv, Lost
<1> QED
  BY <1>1, <1>3, <1>5 DEF IInv

LEMMA StepInv == IInv /\ [Next]_vars => IInv'
BY TypeStep, LockStep, OrderStep, LossStep DEF IInv

THEOREM Invariance == Spec => []IInv
BY InitInv, StepInv, PTL DEF Spec

\* Appends reach the file in the order of their calls (asyncio.Lock is FIFO and the
\* record is written by the lock's holder alone).
THEOREM AppendsInCallOrder == Spec => []CallOrder
<1>1. IInv => CallOrder
  BY DEF IInv, OrderInv
<1> QED
  BY <1>1, Invariance, PTL

LEMMA LossFollows == IInv => LossBound
<1> SUFFICES ASSUME IInv, NEW p \in Paths
             PROVE  Cardinality(Spoilt(p)) + (IF torn[p] THEN 1 ELSE 0) <= faults + 2 * cuts[p]
  BY DEF LossBound
<1>1. faults \in 0 .. MaxFaults /\ cuts[p] \in Nat /\ torn[p] \in BOOLEAN
  BY DEF IInv, TypeOK
<1>2. Cardinality(Spoilt(p)) \in Nat /\ Cardinality(Cut(p)) \in Nat
  BY SpoiltFinite, CutFinite DEF IInv, LossInv
<1>3. Lost(p) <= faults + 2 * cuts[p]
  BY DEF IInv, LossInv
<1> QED
  BY <1>1, <1>2, <1>3 DEF Lost

\* A failed append or a crash costs at most one record besides its own, a task that is
\* cancelled with half its line on file at most one besides that line.
THEOREM FaultsCostOneRecord == Spec => []LossBound
BY LossFollows, Invariance, PTL

\* read_all succeeds on a file that met no fault and no half line of a cancelled task,
\* while no append and no thread is at work on it.
THEOREM ReadsSucceedAtRest == Spec => []ReadableAtRest
<1>1. ASSUME IInv
      PROVE  ReadableAtRest
  <2> SUFFICES ASSUME NEW p \in Paths, faults = 0, cuts[p] = 0, locks[p] = <<>>, late[p] = {}
               PROVE  Parses(p)
    BY DEF ReadableAtRest
  <2>1. TypeOK /\ LossBound
    BY <1>1, LossFollows DEF IInv
  <2>2. IsFiniteSet(Spoilt(p)) /\ Cardinality(Spoilt(p)) \in Nat
    BY <2>1, SpoiltFinite
  <2>3. Cardinality(Spoilt(p)) = 0 /\ ~torn[p]
    BY <2>1, <2>2 DEF LossBound
  <2>4. Spoilt(p) = {}
    BY <2>2, <2>3, FS_EmptySet
  <2> QED
    BY <2>3, <2>4 DEF Parses, Spoilt, Writing, Holds
<1> QED
  BY <1>1, Invariance, PTL

-----------------------------------------------------------------------------
(* The store implements EventLog. *)

\* The contract's view of the files.
View == [p \in Paths |-> [i \in DOMAIN lines[p] |->
           IF lines[p][i].whole THEN lines[p][i].n ELSE Spoiled]]

\* A step that ends no line leaves the contract's log alone.
LEMMA SameView ==
  ASSUME lines' = lines
  PROVE  View' = View
BY DEF View

\* A function on 1 .. n + 1 is the sequence on 1 .. n with its last value appended.
LEMMA ExtendedFunction ==
  ASSUME NEW S, NEW n \in Nat, NEW f \in [1 .. n -> S], NEW g \in [1 .. n + 1 -> S],
         \A k \in 1 .. n : g[k] = f[k]
  PROVE  g = Append(f, g[n + 1])
<1>1. f \in Seq(S) /\ g \in Seq(S) /\ Len(f) = n /\ Len(g) = n + 1
  OBVIOUS
<1>2. g[n + 1] \in S
  OBVIOUS
<1>3. /\ Append(f, g[n + 1]) \in Seq(S)
      /\ Len(Append(f, g[n + 1])) = n + 1
      /\ \A k \in 1 .. n : Append(f, g[n + 1])[k] = f[k]
      /\ Append(f, g[n + 1])[n + 1] = g[n + 1]
  BY <1>1, <1>2, QueueAppend
<1> QED
  BY <1>1, <1>3, SeqEqual

\* Ending a line appends its record, or a spoiled line.
LEMMA ViewOfEndedLine ==
  ASSUME TypeOK, NEW p \in Paths, NEW l, EndsLine(p, l)
  PROVE  View'[p] = Append(View[p], IF l.whole THEN l.n ELSE Spoiled)
<1> DEFINE r == IF l.whole THEN l.n ELSE Spoiled
           S == Ticket \cup {Spoiled}
<1>1. lines[p] \in Seq(Line) /\ l \in Line
  BY Entries DEF EndsLine
<1>2. /\ DOMAIN lines'[p] = 1 .. Len(lines[p]) + 1
      /\ \A k \in 1 .. Len(lines[p]) : lines'[p][k] = lines[p][k]
      /\ lines'[p][Len(lines[p]) + 1] = l
      /\ DOMAIN lines[p] = 1 .. Len(lines[p])
      /\ Len(lines[p]) \in Nat
      /\ \A k \in 1 .. Len(lines[p]) + 1 : lines'[p][k] \in Line
  BY <1>1, QueueAppend DEF EndsLine
<1>3. \A m \in Line : (IF m.whole THEN m.n ELSE Spoiled) \in S
  BY DEF Line
<1>4. View[p] = [i \in 1 .. Len(lines[p]) |->
                   IF lines[p][i].whole THEN lines[p][i].n ELSE Spoiled]
  BY <1>2 DEF View
<1>5. View'[p] = [i \in 1 .. Len(lines[p]) + 1 |->
                    IF lines'[p][i].whole THEN lines'[p][i].n ELSE Spoiled]
  BY <1>2 DEF View
<1>6. \A k \in 1 .. Len(lines[p]) : lines[p][k] \in Line
  BY <1>1
<1>7. View[p] \in [1 .. Len(lines[p]) -> S]
  <2> HIDE DEF S
  <2> QED
    BY <1>3, <1>4, <1>6
<1>8. View'[p] \in [1 .. Len(lines[p]) + 1 -> S]
  <2> HIDE DEF S
  <2> QED
    BY <1>2, <1>3, <1>5
<1>9. Len(lines[p]) + 1 \in 1 .. Len(lines[p]) + 1
  BY <1>2
<1>10. View'[p][Len(lines[p]) + 1] = r
  BY <1>2, <1>5, <1>9
<1>11. \A k \in 1 .. Len(lines[p]) : View'[p][k] = View[p][k]
  BY <1>2, <1>4, <1>5
<1> HIDE DEF r, S
<1>12. View'[p] = Append(View[p], r)
  BY <1>2, <1>7, <1>8, <1>10, <1>11, ExtendedFunction
<1> QED
  BY <1>12 DEF r

\* The same for the whole of the contract's log.
LEMMA ViewOfStep ==
  ASSUME TypeOK, NEW p \in Paths, NEW l, EndsLine(p, l),
         \A q \in Paths : q # p => lines'[q] = lines[q]
  PROVE  View' = [View EXCEPT ![p] = Append(@, IF l.whole THEN l.n ELSE Spoiled)]
<1>1. View'[p] = Append(View[p], IF l.whole THEN l.n ELSE Spoiled)
  BY ViewOfEndedLine
<1>2. ASSUME NEW q \in Paths, q # p
      PROVE  View'[q] = View[q]
  BY <1>2 DEF View
<1>3. View' = [q \in Paths |-> View'[q]] /\ View = [q \in Paths |-> View[q]]
  BY DEF View
<1> HIDE DEF View
<1> QED
  BY <1>1, <1>2, <1>3

\* The records that may come late.
LateView == [p \in Paths |-> {x.n : x \in late[p]}]

LEMMA LateViewGrows ==
  ASSUME TypeOK, NEW p \in Paths, NEW e, late' = [late EXCEPT ![p] = @ \cup {e}]
  PROVE  LateView' = [LateView EXCEPT ![p] = @ \cup {e.n}]
BY DEF LateView, TypeOK

LEMMA LateViewShrinks ==
  ASSUME TypeOK, LateOrder, NEW p \in Paths, NEW e \in late[p],
         late' = [late EXCEPT ![p] = @ \ {e}]
  PROVE  LateView' = [LateView EXCEPT ![p] = @ \ {e.n}]
<1>1. \A y \in late[p] : y.n = e.n => y = e
  BY DEF LateOrder
<1>2. {x.n : x \in late[p] \ {e}} = {x.n : x \in late[p]} \ {e.n}
  BY <1>1
<1> QED
  BY <1>2 DEF LateView, TypeOK

LEMMA RefinedInit == Init => Contract!Init
BY DEF Init, Contract!Init

LEMMA RefinedStep == IInv /\ [Next]_vars => [Contract!Next]_Contract!logVars
<1> SUFFICES ASSUME IInv, [Next]_vars
             PROVE  [Contract!Next]_Contract!logVars
  OBVIOUS
<1>0. TypeOK /\ LateOrder
  BY DEF IInv, OrderInv
<1>1. ASSUME NEW w \in Writers, NEW p \in Paths, CallAppend(w, p)
      PROVE  Contract!Request(w, p, tickets + 1) /\ tickets + 1 \in Ticket
  <2>1. View' = View /\ LateView' = LateView
    BY <1>1, SameView DEF CallAppend, LateView
  <2>2. tickets + 1 \in Ticket
    BY <1>0, <1>1, JsonlStoreAssumption DEF CallAppend, TypeOK, Ticket
  <2> QED
    BY <1>1, <2>1, <2>2 DEF CallAppend, Join, Contract!Request, View, LateView
<1>2. ASSUME NEW w \in Writers, NEW p \in Paths, Open(w, p) \/ Write(w, p)
      PROVE  UNCHANGED Contract!logVars
  <2>1. View' = View /\ LateView' = LateView
    BY <1>2, SameView DEF Open, Write, LateView
  <2> QED
    BY <1>2, <2>1 DEF Open, Write, Contract!logVars, View, LateView
<1>3. ASSUME NEW w \in Writers, NEW p \in Paths, Close(w, p)
      PROVE  Contract!Commit(w, p)
  <2>1. EndsLine(p, EndedLine(p)) /\ \A q \in Paths : q # p => lines'[q] = lines[q]
    BY <1>0, <1>3, CloseEffect
  <2>2. /\ EndedLine(p).whole = ~torn[p] /\ EndedLine(p).n = Head(locks[p]).rec
        /\ torn[p] \in BOOLEAN
    BY <1>0 DEF EndedLine, TypeOK
  <2>3. View' = [View EXCEPT ![p] = Append(@, Contract!NextLine(p))]
    BY <1>0, <2>1, <2>2, ViewOfStep DEF Contract!NextLine
  <2>4. locks[p] \in Seq(Entry) /\ locks[p] # <<>> /\ Head(locks[p]).by = w
    BY <1>0, <1>3, Entries DEF Close, Holds
  <2>5. Leave(locks[p], 1) = Tail(locks[p])
    BY <2>4, LeaveFirst
  <2>6. locks' = [locks EXCEPT ![p] = Tail(@)] /\ torn' = [torn EXCEPT ![p] = FALSE]
    BY <1>3, <2>5 DEF Close, RestAfterLine
  <2>7. LateView' = LateView
    BY <1>3 DEF Close, LateView
  <2> QED
    BY <2>3, <2>4, <2>6, <2>7 DEF Contract!Commit, View, LateView
<1>4. ASSUME NEW w \in Writers, NEW p \in Paths, Cancel(w, p)
      PROVE  Contract!Abort(w, p)
  <2>1. View' = View /\ LateView' = LateView
    BY <1>4, SameView DEF Cancel, LateView
  <2> QED
    BY <1>4, <2>1
       DEF Cancel, Leave, RemoveAt, Contract!RemoveAt, Contract!Abort, View, LateView
<1>5. ASSUME NEW w \in Writers, NEW p \in Paths, Raise(w, p)
      PROVE  Contract!Abort(w, p)
  <2>1. View' = View /\ LateView' = LateView
    BY <1>5, SameView DEF Raise, LateView
  <2>2. 1 \in DOMAIN locks[p] /\ locks[p][1].by = w
    BY <1>0, <1>5, HeadEntry DEF Raise
  <2>3. locks' = [locks EXCEPT ![p] =
                    Contract!RemoveAt(@, 1)]
    BY <1>5 DEF Raise, Leave, RemoveAt, Contract!RemoveAt
  <2>4. UNCHANGED torn \/ torn' = [torn EXCEPT ![p] = TRUE]
    BY <1>5 DEF Raise
  <2> QED
    BY <2>1, <2>2, <2>3, <2>4 DEF Contract!Abort, View, LateView
<1>6. ASSUME NEW w \in Writers, NEW p \in Paths, Abandon(w, p)
      PROVE  Contract!Abandon(w, p)
  <2>1. View' = View
    BY <1>6, SameView DEF Abandon
  <2>2. locks[p] \in Seq(Entry) /\ locks[p] # <<>> /\ Head(locks[p]).by = w
    BY <1>0, <1>6, Entries DEF Abandon, Holds
  <2>3. locks' = [locks EXCEPT ![p] = Tail(@)]
    BY <1>6, <2>2, LeaveFirst DEF Abandon
  <2>4. UNCHANGED torn \/ torn' = [torn EXCEPT ![p] = TRUE]
    BY <1>6 DEF Abandon
  <2>5. PICK c \in BOOLEAN :
          late' = [late EXCEPT ![p] = @ \cup {[n |-> Head(locks[p]).rec, cut |-> c]}]
    BY <1>6 DEF Abandon
  <2>6. LateView' = [LateView EXCEPT ![p] = @ \cup {Head(locks[p]).rec}]
    <3> DEFINE e == [n |-> Head(locks[p]).rec, cut |-> c]
    <3>1. e.n = Head(locks[p]).rec
      OBVIOUS
    <3>2. late' = [late EXCEPT ![p] = @ \cup {e}]
      BY <2>5
    <3> HIDE DEF e
    <3>3. LateView' = [LateView EXCEPT ![p] = @ \cup {e.n}]
      BY <1>0, <3>2, LateViewGrows
    <3> QED
      BY <3>1, <3>3
  <2> QED
    BY <2>1, <2>2, <2>3, <2>4, <2>6 DEF Contract!Abandon, View, LateView
<1>7. ASSUME NEW p \in Paths, NEW x \in Unclosed, Flush(p, x)
      PROVE  Contract!Arrive(p, x.n) /\ x.n \in Ticket
  <2>1. EndsLine(p, LateLine(p, x)) /\ \A q \in Paths : q # p => lines'[q] = lines[q]
    BY <1>0, <1>7, FlushEffect
  <2>2. x \in late[p] /\ late' = [late EXCEPT ![p] = @ \ {x}]
    BY <1>7 DEF Flush
  <2>3. LateLine(p, x).n = x.n /\ x.n \in Ticket
    BY <1>0, <2>2, LateEntry
  <2>4. \E line \in {x.n, Spoiled} : View' = [View EXCEPT ![p] = Append(@, line)]
    BY <1>0, <2>1, <2>3, ViewOfStep
  <2>5. LateView' = [LateView EXCEPT ![p] = @ \ {x.n}]
    BY <1>0, <2>2, LateViewShrinks
  <2>6. x.n \in LateView[p]
    BY <2>2 DEF LateView
  <2>7. torn' = [torn EXCEPT ![p] = FALSE] /\ UNCHANGED locks
    BY <1>7 DEF Flush, RestAfterLine
  <2> QED
    BY <2>3, <2>4, <2>5, <2>6, <2>7 DEF Contract!Arrive, View, LateView
<1>8. ASSUME NEW p \in Paths, NEW x \in Unclosed, FlushFails(p, x)
      PROVE  Contract!Vanish(p, x.n) /\ x.n \in Ticket
  <2>1. View' = View
    BY <1>8, SameView DEF FlushFails
  <2>2. x \in late[p] /\ late' = [late EXCEPT ![p] = @ \ {x}]
    BY <1>8 DEF FlushFails
  <2>3. x.n \in Ticket
    BY <1>0, <2>2, LateEntry
  <2>4. LateView' = [LateView EXCEPT ![p] = @ \ {x.n}]
    BY <1>0, <2>2, LateViewShrinks
  <2>5. x.n \in LateView[p]
    BY <2>2 DEF LateView
  <2>6. (UNCHANGED torn \/ torn' = [torn EXCEPT ![p] = TRUE]) /\ UNCHANGED locks
    BY <1>8 DEF FlushFails
  <2> QED
    BY <2>1, <2>3, <2>4, <2>5, <2>6 DEF Contract!Vanish, View, LateView
<1>9. ASSUME Crash
      PROVE  Contract!Crash
  <2>1. PICK part \in SUBSET {q \in Paths : Writing(q) \/ late[q] # {}} :
          torn' = [q \in Paths |-> torn[q] \/ q \in part]
    BY <1>9 DEF Crash
  <2>2. part \in SUBSET {q \in Paths : locks[q] # <<>> \/ LateView[q] # {}}
    <3>1. ASSUME NEW q \in Paths, Writing(q)
          PROVE  locks[q] # <<>>
      BY <3>1 DEF Writing, Holds
    <3>2. ASSUME NEW q \in Paths, late[q] # {}
          PROVE  LateView[q] # {}
      BY <3>2 DEF LateView
    <3> QED
      BY <2>1, <3>1, <3>2
  <2>3. View' = View
    BY <1>9, SameView DEF Crash
  <2>4. View' = [q \in Paths |-> IF q \in {} THEN Append(View[q], Contract!NextLine(q))
                                ELSE View[q]]
    <3>1. View = [q \in Paths |-> View[q]]
      BY DEF View
    <3> HIDE DEF View
    <3> QED
      BY <2>3, <3>1
  <2>5. torn' = [q \in Paths |-> IF q \in {} THEN FALSE ELSE torn[q] \/ q \in part]
    BY <2>1
  <2>6. locks' = [q \in Paths |-> <<>>] /\ LateView' = [q \in Paths |-> {}]
    BY <1>9 DEF Crash, LateView
  <2>7. {} \in SUBSET {q \in Paths : locks[q] # <<>>}
    OBVIOUS
  <2> QED
    BY <2>2, <2>4, <2>5, <2>6, <2>7 DEF Contract!Crash, View, LateView
<1>10. CASE UNCHANGED vars
  <2>1. View' = View /\ LateView' = LateView
    BY <1>10, SameView DEF vars, LateView
  <2> QED
    BY <1>10, <2>1 DEF vars, Contract!logVars, View, LateView
<1> QED
  BY <1>1, <1>2, <1>3, <1>4, <1>5, <1>6, <1>7, <1>8, <1>9, <1>10 DEF Next, Contract!Next

\* Every behaviour of the store, its lock and its worker threads is one of EventLog.
THEOREM Refinement == Spec => ImplementsEventLog
BY RefinedInit, RefinedStep, Invariance, PTL DEF Spec, ImplementsEventLog, Contract!Spec
=============================================================================
