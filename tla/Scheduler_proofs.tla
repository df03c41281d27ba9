---------------------------- MODULE Scheduler_proofs ----------------------------
(***************************************************************************)
(* What holds of Scheduler for any number of jobs, runs, stops and         *)
(* failures: first of the runs and their records (IInv), then of what is   *)
(* scheduled and what is on file (JobInv).                                 *)
(***************************************************************************)
EXTENDS Scheduler, FiniteSetTheorems, QueueFacts

FileLine == Row \cup {Spoiled}
Entry == [by : Ids, rec : Row]

Lines == log[File]
Waiting == queue[File]

(***************************************************************************)
(* The types of all but the jobs, which no property of the runs is about.  *)
(***************************************************************************)
TypesOfRuns == Log!TypeOK /\ run \in [Ids -> Run] /\ upsets \in Nat

\* A run that was fired has a number left, and one that started a turn has its number.
Numbered ==
  \A id \in Ids : /\ run[id].pc = "fired" => run[id].n < MaxRuns
                  /\ run[id].pc \in {"turn", "recording"} => run[id].n >= 1

\* An append that is in progress is that of a run which waits for it, and the only one.
Waits ==
  /\ \A i \in DOMAIN Waiting :
       run[Waiting[i].by].pc = "recording" /\ Waiting[i].rec = Record(Waiting[i].by)
  /\ \A i, k \in DOMAIN Waiting : Waiting[i].by = Waiting[k].by => i = k

\* The runs on file are earlier ones: earlier than one that is not on file yet.
Earlier ==
  \A i \in DOMAIN Lines : \A id \in Ids : Lines[i].job = id =>
    /\ Lines[i].run <= run[id].n
    /\ run[id].pc \in {"turn", "recording"} => Lines[i].run < run[id].n

IInv == TypesOfRuns /\ Numbered /\ Waits /\ Earlier /\ RunsRecorded

\* The parts of RunsRecorded.
Mine(id) == {i \in DOMAIN Lines : Lines[i].job = id}
Lost == {i \in DOMAIN Lines : Lines[i] = Spoiled}
Going(id) == IF run[id].pc \in {"turn", "recording"} THEN 1 ELSE 0
Missing(id) == run[id].n - Going(id) - upsets

Ordered(id) == \A i, k \in Mine(id) : i < k => Lines[i].run < Lines[k].run
Accounted(id) == Missing(id) <= Cardinality(Mine(id)) + Cardinality(Lost)
Parts == \A id \in Ids : Ordered(id) /\ Accounted(id)

-----------------------------------------------------------------------------
\* The history and its queue have their types.
LEMMA LogTypes ==
  ASSUME Log!TypeOK
  PROVE  /\ Lines \in Seq(FileLine) /\ Waiting \in Seq(Entry) /\ damaged[File] \in BOOLEAN
         /\ \A i \in DOMAIN Waiting : Waiting[i].by \in Ids /\ Waiting[i].rec \in Row
<1>1. Lines \in Seq(FileLine) /\ Waiting \in Seq(Entry) /\ damaged[File] \in BOOLEAN
  BY DEF Log!TypeOK, Log!Pending, FileLine, Entry, Lines, Waiting
<1>2. \A i \in DOMAIN Waiting : Waiting[i] \in Entry
  BY <1>1
<1>3. QED  BY <1>1, <1>2 DEF Entry

\* The lines of a job and those that were lost can be counted.
LEMMA Counts ==
  ASSUME Log!TypeOK, NEW id
  PROVE  /\ IsFiniteSet(Mine(id)) /\ Cardinality(Mine(id)) \in Nat
         /\ IsFiniteSet(Lost) /\ Cardinality(Lost) \in Nat
<1>1. Len(Lines) \in Nat /\ DOMAIN Lines = 1 .. Len(Lines)
  BY LogTypes
<1>2. IsFiniteSet(1 .. Len(Lines))
  BY <1>1, FS_Interval
<1>3. Mine(id) \subseteq 1 .. Len(Lines) /\ Lost \subseteq 1 .. Len(Lines)
  BY <1>1 DEF Mine, Lost
<1>4. QED  BY <1>2, <1>3, FS_Subset, FS_CardinalityType

\* Their numbers when a line is added.
LEMMA CountsOfMore ==
  ASSUME Log!TypeOK, NEW x \in FileLine, Lines' = Append(Lines, x), NEW id \in Ids
  PROVE  /\ Mine(id)' = IF x.job = id THEN Mine(id) \cup {Len(Lines) + 1} ELSE Mine(id)
         /\ Cardinality(Mine(id)') = Cardinality(Mine(id)) + (IF x.job = id THEN 1 ELSE 0)
         /\ Cardinality(Lost') = Cardinality(Lost) + (IF x = Spoiled THEN 1 ELSE 0)
<1>1. /\ Len(Lines) \in Nat /\ DOMAIN Lines = 1 .. Len(Lines)
      /\ DOMAIN Lines' = 1 .. Len(Lines) + 1 /\ Lines'[Len(Lines) + 1] = x
      /\ \A i \in 1 .. Len(Lines) : Lines'[i] = Lines[i]
  BY LogTypes, QueueAppend
<1>2. /\ Mine(id)' = IF x.job = id THEN Mine(id) \cup {Len(Lines) + 1} ELSE Mine(id)
      /\ Lost' = IF x = Spoiled THEN Lost \cup {Len(Lines) + 1} ELSE Lost
  BY <1>1 DEF Mine, Lost
<1>3. Len(Lines) + 1 \notin Mine(id) /\ Len(Lines) + 1 \notin Lost
  BY <1>1 DEF Mine, Lost
<1>4. /\ IsFiniteSet(Mine(id)) /\ Cardinality(Mine(id)) \in Nat
      /\ IsFiniteSet(Lost) /\ Cardinality(Lost) \in Nat
  BY Counts
<1>5. /\ Cardinality(Mine(id) \cup {Len(Lines) + 1}) = Cardinality(Mine(id)) + 1
      /\ Cardinality(Lost \cup {Len(Lines) + 1}) = Cardinality(Lost) + 1
  BY <1>3, <1>4, FS_AddElement
<1>6. Cardinality(Mine(id)') = Cardinality(Mine(id)) + (IF x.job = id THEN 1 ELSE 0)
  BY <1>2, <1>4, <1>5
<1>7. Cardinality(Lost') = Cardinality(Lost) + (IF x = Spoiled THEN 1 ELSE 0)
  BY <1>2, <1>4, <1>5
<1>8. QED  BY <1>2, <1>6, <1>7

\* RunsRecorded in its parts.
LEMMA InParts == TypesOfRuns => (RunsRecorded <=> Parts)
<1> SUFFICES ASSUME TypesOfRuns
             PROVE  RunsRecorded <=> Parts
  OBVIOUS
<1>1. \A id \in Ids : /\ Cardinality(Mine(id)) \in Nat /\ Cardinality(Lost) \in Nat
                      /\ run[id].n \in Nat /\ upsets \in Nat /\ Going(id) \in Nat
  BY Counts DEF TypesOfRuns, Run, Going
<1>2. ASSUME NEW id \in Ids
      PROVE  Accounted(id) <=>
               run[id].n <= Cardinality(Mine(id)) + Cardinality(Lost) + Going(id) + upsets
  BY <1>1 DEF Accounted, Missing
<1>3. QED  BY <1>2 DEF RunsRecorded, Parts, Ordered, Mine, Lost, Going, Lines

\* And in the next state.
LEMMA InPartsNext == TypesOfRuns' => (RunsRecorded' <=> Parts')
BY InParts, PTL

\* The runs that a step may leave going: those that were, and those it numbers.
OnlyGoing ==
  \A id \in Ids :
    /\ run'[id].n >= run[id].n
    /\ run'[id].pc \in {"turn", "recording"} =>
         run[id].pc \in {"turn", "recording"} \/ run'[id].n > run[id].n

\* A step that adds no line and accounts for the runs that it ends.
LEMMA SameLines ==
  ASSUME IInv, TypesOfRuns', Lines' = Lines, OnlyGoing,
         \A id \in Ids : Missing(id)' <= Missing(id)
  PROVE  Earlier' /\ RunsRecorded'
<1>1. \A id \in Ids : run[id] \in Run /\ run'[id] \in Run
  BY DEF IInv, TypesOfRuns
<1>2. Earlier'
  <2> SUFFICES ASSUME NEW i \in DOMAIN Lines, NEW id \in Ids, Lines[i].job = id
               PROVE  /\ Lines[i].run <= run'[id].n
                      /\ run'[id].pc \in {"turn", "recording"} => Lines[i].run < run'[id].n
    BY DEF Earlier
  <2>1. Lines[i] \in Row
    BY LogTypes, SchedulerAssumption DEF IInv, TypesOfRuns, FileLine, Spoiled
  <2>2. Lines[i].run \in Nat /\ run[id].n \in Nat /\ run'[id].n \in Nat
    BY <1>1, <2>1 DEF Row, Run
  <2>3. QED  BY <2>2 DEF IInv, Earlier, OnlyGoing
<1>3. \A id \in Ids : Ordered(id) /\ Accounted(id)
  BY InParts DEF IInv, Parts
<1>4. \A id \in Ids : Mine(id)' = Mine(id) /\ Lost' = Lost
  BY DEF Mine, Lost
<1>5. \A id \in Ids : Ordered(id)'
  BY <1>3, <1>4 DEF Ordered
<1>6. ASSUME NEW id \in Ids PROVE Accounted(id)'
  <2>1. /\ Cardinality(Mine(id)) \in Nat /\ Cardinality(Lost) \in Nat
        /\ Missing(id) \in Int /\ Missing(id)' \in Int
    BY <1>1, Counts DEF IInv, TypesOfRuns, Missing, Going, Run
  <2>2. QED  BY <1>3, <1>4, <2>1 DEF Accounted
<1>7. QED  BY <1>2, <1>5, <1>6, InPartsNext DEF Parts

\* A step that adds one: a lost one, or the record of a run which is over now.
LEMMA MoreLines ==
  ASSUME IInv, TypesOfRuns', OnlyGoing, NEW x \in FileLine, Lines' = Append(Lines, x),
         x # Spoiled => /\ x.job \in Ids /\ run[x.job].pc = "recording"
                        /\ x.run = run[x.job].n /\ run'[x.job].pc = "idle",
         \A id \in Ids :
           Missing(id)' <= Missing(id) + (IF x = Spoiled \/ x.job = id THEN 1 ELSE 0)
  PROVE  Earlier' /\ RunsRecorded'
<1>1. \A id \in Ids : run[id] \in Run /\ run'[id] \in Run
  BY DEF IInv, TypesOfRuns
<1>2. /\ Len(Lines) \in Nat /\ DOMAIN Lines = 1 .. Len(Lines)
      /\ DOMAIN Lines' = 1 .. Len(Lines) + 1 /\ Lines'[Len(Lines) + 1] = x
      /\ \A i \in 1 .. Len(Lines) : Lines'[i] = Lines[i]
  BY LogTypes, QueueAppend DEF IInv, TypesOfRuns
<1>3. \A id \in Ids : x.job = id => x # Spoiled
  BY SchedulerAssumption DEF Spoiled
<1>4. \A i \in DOMAIN Lines : \A id \in Ids : Lines[i].job = id => Lines[i].run \in Nat
  <2> SUFFICES ASSUME NEW i \in DOMAIN Lines, NEW id \in Ids, Lines[i].job = id
               PROVE  Lines[i].run \in Nat
    OBVIOUS
  <2>1. Lines[i] \in Row
    BY LogTypes, SchedulerAssumption DEF IInv, TypesOfRuns, FileLine, Spoiled
  <2>2. QED  BY <2>1 DEF Row
<1>5. Earlier'
  <2> SUFFICES ASSUME NEW i \in DOMAIN Lines', NEW id \in Ids, Lines'[i].job = id
               PROVE  /\ Lines'[i].run <= run'[id].n
                      /\ run'[id].pc \in {"turn", "recording"} => Lines'[i].run < run'[id].n
    BY DEF Earlier
  <2>1. run[id].n \in Nat /\ run'[id].n \in Nat
    BY <1>1 DEF Run
  <2>2. CASE i = Len(Lines) + 1
    BY <1>2, <1>3, <2>1, <2>2 DEF OnlyGoing
  <2>3. CASE i \in DOMAIN Lines
    <3>1. Lines'[i] = Lines[i] /\ Lines[i].run \in Nat
      BY <1>2, <1>4, <2>3
    <3>2. QED  BY <2>1, <2>3, <3>1 DEF IInv, Earlier, OnlyGoing
  <2>4. QED  BY <1>2, <2>2, <2>3
<1>6. \A id \in Ids : Ordered(id) /\ Accounted(id)
  BY InParts DEF IInv, Parts
<1>7. ASSUME NEW id \in Ids PROVE Ordered(id)'
  <2> SUFFICES ASSUME NEW i \in Mine(id)', NEW k \in Mine(id)', i < k
               PROVE  Lines'[i].run < Lines'[k].run
    BY DEF Ordered
  <2>1. i \in DOMAIN Lines
    BY <1>2 DEF Mine
  <2>2. i \in Mine(id) /\ Lines'[i] = Lines[i]
    BY <1>2, <2>1 DEF Mine
  <2>3. CASE k \in DOMAIN Lines
    BY <1>2, <1>6, <2>2, <2>3 DEF Mine, Ordered
  <2>4. CASE k = Len(Lines) + 1
    <3>1. x.job = id /\ x # Spoiled
      BY <1>2, <1>3, <2>4 DEF Mine
    <3>2. QED  BY <1>2, <2>1, <2>2, <2>4, <3>1 DEF IInv, Earlier, Mine
  <2>5. QED  BY <1>2, <2>3, <2>4 DEF Mine
<1>8. ASSUME NEW id \in Ids PROVE Accounted(id)'
  <2>1. /\ Cardinality(Mine(id)) \in Nat /\ Cardinality(Lost) \in Nat
        /\ Missing(id) \in Int /\ Missing(id)' \in Int
    BY <1>1, Counts DEF IInv, TypesOfRuns, Missing, Going, Run
  <2>2. /\ Cardinality(Mine(id)') = Cardinality(Mine(id)) + (IF x.job = id THEN 1 ELSE 0)
        /\ Cardinality(Lost') = Cardinality(Lost) + (IF x = Spoiled THEN 1 ELSE 0)
    BY CountsOfMore DEF IInv, TypesOfRuns
  <2>3. QED  BY <1>6, <2>1, <2>2 DEF Accounted
<1>9. QED  BY <1>5, <1>7, <1>8, InPartsNext DEF Parts

-----------------------------------------------------------------------------
\* A run that was over, or not begun, makes a step; nobody waits for an append of it.
LEMMA RunSteps ==
  ASSUME IInv, UNCHANGED <<upsets, log, queue, damaged>>, NEW id \in Ids, NEW r \in Run,
         run' = [run EXCEPT ![id] = r], run[id].pc \in {"idle", "fired"}, r.n >= run[id].n,
         \/ r.pc = "idle" /\ r.n = run[id].n
         \/ r.pc = "fired" /\ r.n = run[id].n /\ r.n < MaxRuns
         \/ r.pc = "turn" /\ r.n = run[id].n + 1
  PROVE  IInv'
<1>1. /\ run[id] \in Run /\ run'[id] = r
      /\ \A k \in Ids : k # id => run'[k] = run[k]
      /\ TypesOfRuns'
  BY DEF IInv, TypesOfRuns, Log!TypeOK
<1>2. run[id].n \in Nat /\ r.n \in Nat /\ upsets \in Nat
  BY <1>1 DEF Run, IInv, TypesOfRuns
<1>3. Numbered'
  BY <1>1, <1>2 DEF IInv, Numbered
<1>4. \A i \in DOMAIN Waiting : Waiting[i].by \in Ids \ {id}
  BY LogTypes DEF IInv, TypesOfRuns, Waits
<1>5. Waits'
  BY <1>1, <1>4 DEF IInv, Waits, Waiting, Record
<1>6. OnlyGoing /\ \A k \in Ids : Missing(k)' <= Missing(k)
  <2>1. \A k \in Ids : run[k].n \in Nat /\ Missing(k) \in Int
    BY DEF IInv, TypesOfRuns, Run, Missing, Going
  <2>2. OnlyGoing
    BY <1>1, <1>2, <2>1 DEF OnlyGoing
  <2>3. Missing(id)' <= Missing(id)
    BY <1>1, <1>2 DEF Missing, Going
  <2>4. \A k \in Ids : k # id => Missing(k)' = Missing(k)
    BY <1>1 DEF Missing, Going
  <2>5. QED  BY <2>1, <2>2, <2>3, <2>4
<1>7. QED  BY <1>1, <1>3, <1>5, <1>6, SameLines DEF IInv, Lines

\* The turn is over: the run waits for the append of its record.
LEMMA TurnOverStep ==
  ASSUME IInv, NEW id \in Ids, TurnOver(id)
  PROVE  IInv'
<1>1. /\ run[id].pc = "turn" /\ run[id] \in Run /\ run[id].n \in 1 .. MaxRuns
      /\ run' = [run EXCEPT ![id].pc = "recording"]
      /\ UNCHANGED <<log, damaged, upsets>>
      /\ queue' = [queue EXCEPT ![File] = Append(@, [by |-> id, rec |-> Record(id)])]
  BY SchedulerAssumption DEF TurnOver, Log!Request, IInv, TypesOfRuns, Numbered, Run
<1> DEFINE e == [by |-> id, rec |-> Record(id)]
<1>2. e \in Entry
  BY <1>1 DEF Entry, Record, Row
<1>3. /\ run'[id].pc = "recording" /\ run'[id].n = run[id].n /\ run'[id] \in Run
      /\ \A k \in Ids : k # id => run'[k] = run[k]
  BY <1>1 DEF IInv, TypesOfRuns, Run
<1>4. queue' = [queue EXCEPT ![File] = Append(Waiting, e)]
  BY <1>1 DEF Waiting
<1>5. Waiting' = Append(Waiting, e) /\ queue' \in [{File} -> Seq(Entry)]
  BY <1>2, <1>4, LogTypes, QueueAppend
     DEF IInv, TypesOfRuns, Log!TypeOK, Waiting, Log!Pending, Entry
<1>6. TypesOfRuns'
  BY <1>1, <1>3, <1>5 DEF IInv, TypesOfRuns, Log!TypeOK, Log!Pending, Entry
<1>7. Numbered'
  BY <1>1, <1>3 DEF IInv, Numbered
<1>8. \A i \in DOMAIN Waiting : Waiting[i].by \in Ids \ {id}
  BY <1>1, LogTypes DEF IInv, TypesOfRuns, Waits
<1>9. /\ Len(Waiting) \in Nat /\ DOMAIN Waiting = 1 .. Len(Waiting)
      /\ DOMAIN Waiting' = 1 .. Len(Waiting) + 1 /\ Waiting'[Len(Waiting) + 1] = e
      /\ \A i \in 1 .. Len(Waiting) : Waiting'[i] = Waiting[i]
  BY <1>2, <1>5, LogTypes, QueueAppend DEF IInv, TypesOfRuns
<1>10. Waits'
  <2>1. ASSUME NEW i \in DOMAIN Waiting'
        PROVE  /\ run'[Waiting'[i].by].pc = "recording"
               /\ Waiting'[i].rec = [job |-> Waiting'[i].by, run |-> run'[Waiting'[i].by].n]
    BY <1>3, <1>8, <1>9, <2>1 DEF IInv, Waits, Record
  <2>2. ASSUME NEW i \in DOMAIN Waiting', NEW k \in DOMAIN Waiting',
               Waiting'[i].by = Waiting'[k].by
        PROVE  i = k
    BY <1>8, <1>9, <2>2 DEF IInv, Waits
  <2>3. QED  BY <2>1, <2>2 DEF Waits, Record
<1>11. OnlyGoing /\ \A k \in Ids : Missing(k)' = Missing(k)
  BY <1>1, <1>3 DEF OnlyGoing, Missing, Going, IInv, TypesOfRuns, Run
<1>12. \A k \in Ids : Missing(k) \in Int
  BY DEF IInv, TypesOfRuns, Run, Missing, Going
<1>13. QED  BY <1>1, <1>6, <1>7, <1>10, <1>11, <1>12, SameLines DEF IInv, Lines

-----------------------------------------------------------------------------
\* What is left of the queue still waits when the run of an entry is over.
LEMMA WaitsWithout ==
  ASSUME IInv, NEW id \in Ids, NEW i \in DOMAIN Waiting, Waiting[i].by = id,
         \A k \in Ids : k # id => run'[k] = run[k],
         \A k \in DOMAIN Waiting' : /\ From(i, k) \in DOMAIN Waiting /\ From(i, k) # i
                                    /\ Waiting'[k] = Waiting[From(i, k)],
         \A j, k \in DOMAIN Waiting' : From(i, j) = From(i, k) => j = k
  PROVE  Waits'
<1>1. \A j \in DOMAIN Waiting : j # i => Waiting[j].by \in Ids \ {id}
  BY LogTypes DEF IInv, TypesOfRuns, Waits
<1>2. ASSUME NEW k \in DOMAIN Waiting'
      PROVE  /\ run'[Waiting'[k].by].pc = "recording"
             /\ Waiting'[k].rec = [job |-> Waiting'[k].by, run |-> run'[Waiting'[k].by].n]
  BY <1>1 DEF IInv, Waits, Record
<1>3. ASSUME NEW j \in DOMAIN Waiting', NEW k \in DOMAIN Waiting',
             Waiting'[j].by = Waiting'[k].by
      PROVE  j = k
  <2>1. From(i, j) = From(i, k)
    BY <1>3 DEF IInv, Waits
  <2>2. QED  BY <2>1
<1>4. QED  BY <1>2, <1>3 DEF Waits, Record

\* A run is over.
LEMMA RunEnded ==
  ASSUME TypesOfRuns, NEW id \in Ids, run' = [run EXCEPT ![id] = Finished(@)]
  PROVE  /\ run' \in [Ids -> Run] /\ run'[id].pc = "idle" /\ run'[id].n = run[id].n
         /\ \A k \in Ids : k # id => run'[k] = run[k]
         /\ OnlyGoing
<1>1. run[id] \in Run
  BY DEF TypesOfRuns
<1>2. /\ Finished(run[id]) \in Run /\ Finished(run[id]).pc = "idle"
      /\ Finished(run[id]).n = run[id].n
  BY <1>1 DEF Finished, Run
<1>3. run' \in [Ids -> Run] /\ run'[id] = Finished(run[id])
      /\ \A k \in Ids : k # id => run'[k] = run[k]
  BY <1>2 DEF TypesOfRuns
<1>4. \A k \in Ids : run[k].n \in Nat
  BY DEF TypesOfRuns, Run
<1>5. OnlyGoing
  BY <1>2, <1>3, <1>4 DEF OnlyGoing
<1>6. QED  BY <1>2, <1>3, <1>5

\* The line that is written next is the record of its run, or it is lost.
LEMMA NextLineIs ==
  ASSUME IInv, Waiting # <<>>
  PROVE  /\ 1 \in DOMAIN Waiting /\ Head(Waiting) = Waiting[1]
         /\ Log!NextLine(File) \in {Spoiled, Record(Waiting[1].by)}
         /\ Log!NextLine(File) \in FileLine
         /\ Waiting[1].by \in Ids /\ run[Waiting[1].by].pc = "recording"
<1>1. Waiting \in Seq(Entry)
  BY LogTypes DEF IInv, TypesOfRuns
<1>2. 1 \in DOMAIN Waiting /\ Head(Waiting) = Waiting[1]
  BY <1>1, EmptySeq
<1>3. Waiting[1].rec \in Row /\ Waiting[1].by \in Ids
  BY <1>2, LogTypes DEF IInv, TypesOfRuns
<1>4. Waiting[1].rec = Record(Waiting[1].by) /\ run[Waiting[1].by].pc = "recording"
  BY <1>2 DEF IInv, Waits
<1>5. Log!NextLine(File) \in {Spoiled, Waiting[1].rec}
  BY <1>2 DEF Log!NextLine, Waiting
<1>6. QED  BY <1>2, <1>3, <1>4, <1>5 DEF FileLine

\* An append ends with its line on file, and its run is over.
LEMMA CommitStep ==
  ASSUME IInv, NEW id \in Ids, run[id].pc = "recording", Log!Commit(id, File),
         run' = [run EXCEPT ![id] = Finished(@)], upsets' \in {upsets, upsets + 1}
  PROVE  IInv'
<1> DEFINE x == Log!NextLine(File)
<1>1. /\ Waiting # <<>> /\ Head(Waiting).by = id
      /\ log' = [log EXCEPT ![File] = Append(Lines, x)]
      /\ queue' = [queue EXCEPT ![File] = Tail(Waiting)]
      /\ damaged' = [damaged EXCEPT ![File] = FALSE]
  BY DEF Log!Commit, Waiting, Lines
<1>2. /\ 1 \in DOMAIN Waiting /\ Waiting[1].by = id
      /\ x \in {Spoiled, Record(id)} /\ x \in FileLine
  BY <1>1, NextLineIs
<1>3. Lines \in Seq(FileLine) /\ Waiting \in Seq(Entry)
  BY LogTypes DEF IInv, TypesOfRuns
<1>4. Append(Lines, x) \in Seq(FileLine)
  BY <1>2, <1>3, QueueAppend
<1>5. Tail(Waiting) \in Seq(Entry)
  BY <1>1, <1>3
<1>6. /\ log' \in [{File} -> Seq(FileLine)] /\ Lines' = Append(Lines, x)
      /\ queue' \in [{File} -> Seq(Entry)] /\ Waiting' = Tail(Waiting)
      /\ damaged' \in [{File} -> BOOLEAN]
  BY <1>1, <1>4, <1>5
     DEF IInv, TypesOfRuns, Log!TypeOK, Log!Pending, Lines, Waiting, FileLine, Entry
<1>7. /\ run' \in [Ids -> Run] /\ run'[id].pc = "idle" /\ run'[id].n = run[id].n
      /\ \A k \in Ids : k # id => run'[k] = run[k]
      /\ OnlyGoing
  BY RunEnded DEF IInv
<1>8. TypesOfRuns'
  BY <1>6, <1>7 DEF IInv, TypesOfRuns, Log!TypeOK, Log!Pending, FileLine, Entry
<1>9. Numbered'
  BY <1>7 DEF IInv, Numbered
<1>10. Waits'
  <2>1. \A k \in DOMAIN Tail(Waiting) :
          k \in Nat /\ k >= 1 /\ k + 1 \in DOMAIN Waiting /\ Tail(Waiting)[k] = Waiting[k + 1]
    BY <1>1, <1>3
  <2>2. \A k \in DOMAIN Waiting' : From(1, k) = k + 1
    BY <1>6, <2>1 DEF From
  <2>3. /\ \A k \in DOMAIN Waiting' : /\ From(1, k) \in DOMAIN Waiting /\ From(1, k) # 1
                                      /\ Waiting'[k] = Waiting[From(1, k)]
        /\ \A j, k \in DOMAIN Waiting' : From(1, j) = From(1, k) => j = k
    BY <1>6, <2>1, <2>2
  <2>4. QED  BY <1>2, <1>7, <2>3, WaitsWithout
<1>11. x # Spoiled => x.job = id /\ x.run = run[id].n
  BY <1>2 DEF Record
<1>12. \A k \in Ids : Missing(k)' <= Missing(k) + (IF x = Spoiled \/ x.job = k THEN 1 ELSE 0)
  <2> SUFFICES ASSUME NEW k \in Ids
               PROVE  Missing(k)' <= Missing(k) + (IF x = Spoiled \/ x.job = k THEN 1 ELSE 0)
    OBVIOUS
  <2>1. run[k].n \in Nat /\ upsets \in Nat
    BY DEF IInv, TypesOfRuns, Run
  <2>2. CASE k = id
    BY <1>7, <1>11, <2>1, <2>2 DEF Missing, Going
  <2>3. CASE k # id
    <3>1. run'[k] = run[k]
      BY <1>7, <2>3
    <3>2. Missing(k) \in Int /\ Missing(k)' <= Missing(k) /\ Missing(k)' \in Int
      BY <2>1, <3>1 DEF Missing, Going
    <3>3. QED  BY <3>2
  <2>4. QED  BY <2>2, <2>3
<1>13. Earlier' /\ RunsRecorded'
  BY <1>2, <1>6, <1>7, <1>8, <1>11, <1>12, MoreLines
<1>14. QED  BY <1>8, <1>9, <1>10, <1>13 DEF IInv

\* An append fails with no line on file, which counts as an upset.
LEMMA AbortStep ==
  ASSUME IInv, NEW id \in Ids, run[id].pc = "recording", Log!Abort(id, File),
         run' = [run EXCEPT ![id] = Finished(@)], upsets' = upsets + 1
  PROVE  IInv'
<1>1. PICK i \in DOMAIN Waiting :
        /\ Waiting[i].by = id
        /\ queue' = [queue EXCEPT ![File] = RemoveAt(Waiting, i)]
        /\ log' = log
        /\ damaged' = damaged \/ damaged' = [damaged EXCEPT ![File] = TRUE]
  BY DEF Log!Abort, RemoveAt, Log!RemoveAt, Waiting
<1>2. Waiting \in Seq(Entry)
  BY LogTypes DEF IInv, TypesOfRuns
<1>3. /\ RemoveAt(Waiting, i) \in Seq(Entry)
      /\ \A k \in DOMAIN RemoveAt(Waiting, i) :
           /\ From(i, k) \in DOMAIN Waiting /\ From(i, k) # i
           /\ RemoveAt(Waiting, i)[k] = Waiting[From(i, k)]
      /\ \A j, k \in DOMAIN RemoveAt(Waiting, i) : From(i, j) = From(i, k) => j = k
  BY <1>2, RemoveAtFrom
<1>4. /\ queue' \in [{File} -> Seq(Entry)] /\ Waiting' = RemoveAt(Waiting, i)
      /\ damaged' \in [{File} -> BOOLEAN]
  BY <1>1, <1>3 DEF IInv, TypesOfRuns, Log!TypeOK, Log!Pending, Waiting, Entry
<1>5. /\ run' \in [Ids -> Run] /\ run'[id].pc = "idle" /\ run'[id].n = run[id].n
      /\ \A k \in Ids : k # id => run'[k] = run[k]
      /\ OnlyGoing
  BY RunEnded DEF IInv
<1>6. TypesOfRuns'
  BY <1>1, <1>4, <1>5 DEF IInv, TypesOfRuns, Log!TypeOK, Log!Pending, FileLine, Entry
<1>7. Numbered'
  BY <1>5 DEF IInv, Numbered
<1>8. Waits'
  BY <1>1, <1>3, <1>4, <1>5, WaitsWithout
<1>9. \A k \in Ids : Missing(k)' <= Missing(k)
  <2> SUFFICES ASSUME NEW k \in Ids PROVE Missing(k)' <= Missing(k)
    OBVIOUS
  <2>1. run[k].n \in Nat /\ upsets \in Nat
    BY DEF IInv, TypesOfRuns, Run
  <2>2. run'[k].n = run[k].n /\ (k # id => run'[k] = run[k])
    BY <1>5
  <2>3. QED  BY <2>1, <2>2 DEF Missing, Going
<1>10. QED  BY <1>1, <1>5, <1>6, <1>7, <1>8, <1>9, SameLines DEF IInv, Lines

\* The scheduler goes down: what waits is lost or, the first of it, on file.
LEMMA GoDownStep ==
  ASSUME IInv, GoDown
  PROVE  IInv'
<1>1. PICK whole \in SUBSET {p \in {File} : queue[p] # <<>>}, part \in SUBSET {File} :
        /\ log' = [p \in {File} |->
                     IF p \in whole THEN Append(log[p], Log!NextLine(p)) ELSE log[p]]
        /\ damaged' = [p \in {File} |->
                         IF p \in whole THEN FALSE ELSE damaged[p] \/ p \in part]
  BY DEF GoDown, Log!Crash
<1>2. /\ queue' = [p \in {File} |-> <<>>] /\ upsets' = upsets + 1
      /\ run' = [id \in Ids |-> [run[id] EXCEPT !.pc = "idle"]]
  BY DEF GoDown, Log!Crash
<1>3. \A id \in Ids : /\ run[id] \in Run /\ run'[id] \in Run /\ run'[id].pc = "idle"
                      /\ run'[id].n = run[id].n
  BY <1>2 DEF IInv, TypesOfRuns, Run
<1>4. run' \in [Ids -> Run] /\ upsets \in Nat /\ upsets' \in Nat
  BY <1>2, <1>3 DEF IInv, TypesOfRuns
<1>5. \A id \in Ids : run[id].n \in Nat
  BY <1>3 DEF Run
<1>6. OnlyGoing
  BY <1>3, <1>5 DEF OnlyGoing
<1>7. damaged' \in [{File} -> BOOLEAN]
  <2>1. damaged'[File] = FALSE \/ damaged'[File] = (damaged[File] \/ File \in part)
    BY <1>1
  <2>2. damaged'[File] \in BOOLEAN
    BY <2>1
  <2>3. damaged' = [p \in {File} |-> damaged'[p]]
    BY <1>1
  <2>4. QED  BY <2>2, <2>3
<1>8. queue' \in [{File} -> Seq(Entry)] /\ Waiting' = <<>>
  BY <1>2 DEF Waiting
<1>9. Numbered' /\ Waits'
  BY <1>3, <1>8 DEF Numbered, Waits
<1>10. \A id \in Ids : Missing(id)' <= Missing(id)
  <2> SUFFICES ASSUME NEW id \in Ids PROVE Missing(id)' <= Missing(id)
    OBVIOUS
  <2>1. QED  BY <1>2, <1>3, <1>4, <1>5 DEF Missing, Going
<1>11. \A id \in Ids : Missing(id) \in Int /\ Missing(id)' \in Int
  BY <1>3, <1>4, <1>5 DEF Missing, Going
<1>12. CASE File \notin whole
  <2>1. Lines' = Lines /\ log' \in [{File} -> Seq(FileLine)]
    BY <1>1, <1>12, LogTypes DEF IInv, TypesOfRuns, Lines
  <2>2. TypesOfRuns'
    BY <1>4, <1>7, <1>8, <2>1 DEF TypesOfRuns, Log!TypeOK, Log!Pending, FileLine, Entry
  <2>3. QED  BY <1>6, <1>9, <1>10, <2>1, <2>2, SameLines DEF IInv
<1>13. CASE File \in whole
  <2> DEFINE x == Log!NextLine(File)
  <2>1. Waiting # <<>> /\ Lines' = Append(Lines, x)
    BY <1>1, <1>13 DEF Waiting, Lines
  <2>2. /\ x \in {Spoiled, Record(Waiting[1].by)} /\ x \in FileLine
        /\ Waiting[1].by \in Ids /\ run[Waiting[1].by].pc = "recording"
    BY <2>1, NextLineIs
  <2>3. Lines' \in Seq(FileLine)
    BY <2>1, <2>2, LogTypes, QueueAppend DEF IInv, TypesOfRuns
  <2>4. log' \in [{File} -> Seq(FileLine)]
    BY <1>1, <2>3 DEF Lines
  <2>5. TypesOfRuns'
    BY <1>4, <1>7, <1>8, <2>4 DEF TypesOfRuns, Log!TypeOK, Log!Pending, FileLine, Entry
  <2>6. x # Spoiled => /\ x.job \in Ids /\ run[x.job].pc = "recording"
                       /\ x.run = run[x.job].n /\ run'[x.job].pc = "idle"
    BY <1>3, <2>2 DEF Record
  <2>7. \A id \in Ids :
          Missing(id)' <= Missing(id) + (IF x = Spoiled \/ x.job = id THEN 1 ELSE 0)
    <3> SUFFICES ASSUME NEW id \in Ids, NEW one \in {0, 1}
                 PROVE  Missing(id)' <= Missing(id) + one
      OBVIOUS
    <3>1. QED  BY <1>10, <1>11
  <2> HIDE DEF x
  <2>8. Earlier' /\ RunsRecorded'
    BY <1>6, <2>1, <2>2, <2>5, <2>6, <2>7, MoreLines
  <2>9. QED  BY <1>9, <2>5, <2>8 DEF IInv
<1>14. QED  BY <1>12, <1>13

\* A step that leaves the runs and the history alone.
LEMMA QuietStep ==
  ASSUME IInv, UNCHANGED <<run, upsets, log, queue, damaged>>
  PROVE  IInv'
<1>1. TypesOfRuns' /\ Numbered' /\ Waits' /\ OnlyGoing /\ Lines' = Lines
  BY DEF IInv, TypesOfRuns, Log!TypeOK, Numbered, Waits, Waiting, Record, Lines, OnlyGoing, Run
<1>2. \A id \in Ids : Missing(id)' <= Missing(id)
  BY DEF IInv, TypesOfRuns, Run, Missing, Going
<1>3. QED  BY <1>1, <1>2, SameLines DEF IInv

\* Nothing has run at first.
LEMMA InitInv == Init => IInv
<1> SUFFICES ASSUME Init PROVE IInv
  OBVIOUS
<1>1. /\ Lines = <<>> /\ Waiting = <<>> /\ upsets = 0
      /\ log = [p \in {File} |-> <<>>] /\ queue = [p \in {File} |-> <<>>]
      /\ damaged = [p \in {File} |-> FALSE]
      /\ run = [id \in Ids |-> [pc |-> "idle", n |-> 0]]
  BY DEF Init, Log!Init, Lines, Waiting
<1>2. Log!TypeOK
  BY <1>1 DEF Log!TypeOK
<1>3. TypesOfRuns
  BY <1>1, <1>2, SchedulerAssumption DEF TypesOfRuns, Run
<1>4. Numbered /\ Waits /\ Earlier
  BY <1>1 DEF Numbered, Waits, Earlier
<1>5. \A id \in Ids : Ordered(id) /\ Missing(id) = 0
  BY <1>1 DEF Ordered, Mine, Missing, Going
<1>6. \A id \in Ids : Accounted(id)
  BY <1>2, <1>5, Counts DEF Accounted
<1>7. QED  BY <1>3, <1>4, <1>5, <1>6, InParts DEF IInv, Parts

\* Every step keeps the invariant.
LEMMA StepInv == IInv /\ [Next]_vars => IInv'
<1> SUFFICES ASSUME IInv, [Next]_vars PROVE IInv'
  OBVIOUS
<1>1. ASSUME Start \/ (\E j \in Job : AddJob(j)) \/ (\E id \in Ids : RemoveJob(id))
             \/ UNCHANGED vars
      PROVE  IInv'
  BY <1>1, QuietStep DEF Start, AddJob, RemoveJob, vars
<1>2. ASSUME NEW id \in Ids, Fire(id) PROVE IInv'
  <2> DEFINE r == [run[id] EXCEPT !.pc = "fired"]
  <2>1. run[id] \in Run /\ run[id].n < MaxRuns /\ run[id].pc = "idle"
    BY <1>2 DEF Fire, IInv, TypesOfRuns
  <2>2. r \in Run /\ r.pc = "fired" /\ r.n = run[id].n /\ r.n >= run[id].n /\ r.n < MaxRuns
    BY <2>1, SchedulerAssumption DEF Run
  <2>3. run' = [run EXCEPT ![id] = r] /\ UNCHANGED <<upsets, log, queue, damaged>>
    BY <1>2 DEF Fire
  <2> HIDE DEF r
  <2>4. QED  BY <2>1, <2>2, <2>3, RunSteps
<1>3. ASSUME NEW id \in Ids, Dispatch(id) PROVE IInv'
  <2>1. run[id] \in Run /\ run[id].n < MaxRuns /\ run[id].pc = "fired"
    BY <1>3 DEF Dispatch, IInv, TypesOfRuns, Numbered
  <2>2. PICK r \in {[pc |-> "turn", n |-> run[id].n + 1], Finished(run[id])} :
          run' = [run EXCEPT ![id] = r] /\ UNCHANGED <<upsets, log, queue, damaged>>
    BY <1>3 DEF Dispatch
  <2>3. /\ r \in Run /\ r.n >= run[id].n
        /\ \/ r.pc = "idle" /\ r.n = run[id].n
           \/ r.pc = "turn" /\ r.n = run[id].n + 1
    BY <2>1, SchedulerAssumption DEF Finished, Run
  <2>4. QED  BY <2>1, <2>2, <2>3, RunSteps
<1>4. ASSUME NEW id \in Ids, TurnOver(id) PROVE IInv'
  BY <1>4, TurnOverStep
<1>5. ASSUME NEW id \in Ids, Recorded(id) PROVE IInv'
  BY <1>5, CommitStep DEF Recorded
<1>6. ASSUME NEW id \in Ids, RecordRaises(id) PROVE IInv'
  BY <1>6, CommitStep, AbortStep DEF RecordRaises
<1>7. ASSUME GoDown PROVE IInv'
  BY <1>7, GoDownStep
<1>8. QED  BY <1>1, <1>2, <1>3, <1>4, <1>5, <1>6, <1>7 DEF Next, Proceed

\* Every reachable state is one of the invariant.
LEMMA Invariance == Spec => []IInv
BY InitInv, StepInv, PTL DEF Spec

-----------------------------------------------------------------------------
\* The history has the runs of a job in their order and none twice, and a run that is over
\* is missing only because of a stop, a crash or a failed append, one for each.
THEOREM RunsAreRecorded == Spec => []RunsRecorded
<1>1. IInv => RunsRecorded
  BY DEF IInv
<1>2. QED  BY <1>1, Invariance, PTL

-----------------------------------------------------------------------------
(***************************************************************************)
(* The jobs on file and those in memory.                                   *)
(***************************************************************************)
TypesOfJobs ==
  /\ jobs \in Seq(Job)
  /\ sched \in [Ids -> Exprs \cup {None}]
  /\ state \in {"down", "up", "broken"}
  /\ upsets \in 0 .. MaxUpsets

JobInv == TypesOfJobs /\ SchedulerAgreesWithFile

\* The entries of J that ask for a job with this id.
Asking(J, id) == {i \in DOMAIN J : J[i].id = id /\ Schedulable(J[i])}

\* The entries of a list that ask for a job, the last of which counts.
LEMMA WantedFacts ==
  ASSUME NEW J \in Seq(Job), NEW id \in Ids
  PROVE  /\ Wanted(J)[id] \in Exprs \cup {None}
         /\ Wanted(J)[id] # None <=> Asking(J, id) # {}
         /\ Asking(J, id) # {} =>
              \E m \in Asking(J, id) :
                (\A i \in Asking(J, id) : i <= m) /\ Wanted(J)[id] = J[m].expr
<1> DEFINE A == Asking(J, id)
           m == Max(A)
<1>1. Len(J) \in Nat /\ A \in SUBSET (1 .. Len(J))
  BY DEF Asking
<1>2. Wanted(J)[id] = IF A = {} THEN None ELSE J[m].expr
  BY DEF Wanted, Asking
<1>3. \A i \in A : J[i] \in Job /\ Schedulable(J[i])
  BY DEF Asking
<1>4. \A i \in A : J[i].expr \in Exprs /\ J[i].expr # None
  BY <1>3, SchedulerAssumption DEF Job, Schedulable
<1>5. ASSUME A # {} PROVE m \in A /\ \A i \in A : i <= m
  <2> HIDE DEF A
  <2>1. m \in A /\ \A i \in A : m >= i
    BY <1>1, <1>5, MaxMin
  <2> HIDE DEF m
  <2>2. \A i \in A : i \in Int
    BY <1>1
  <2> QED
    BY <2>1, <2>2
<1> HIDE DEF m
<1> QED
  BY <1>2, <1>4, <1>5

\* The last entry that asks for a job decides.
LEMMA WantedIs ==
  ASSUME NEW J \in Seq(Job), NEW id \in Ids, NEW m \in Asking(J, id),
         \A i \in Asking(J, id) : i <= m
  PROVE  Wanted(J)[id] = J[m].expr
<1>1. PICK k \in Asking(J, id) :
        (\A i \in Asking(J, id) : i <= k) /\ Wanted(J)[id] = J[k].expr
  BY WantedFacts
<1>2. m <= k /\ k <= m
  BY <1>1
<1>3. k \in Int /\ m \in Int
  BY DEF Asking
<1> QED
  BY <1>1, <1>2, <1>3

\* A list is wanted for its entries alone.
LEMMA WantedType ==
  ASSUME NEW J \in Seq(Job)
  PROVE  Wanted(J) \in [Ids -> Exprs \cup {None}]
<1>1. \A id \in Ids : Wanted(J)[id] \in Exprs \cup {None}
  BY WantedFacts
<1>2. Wanted(J) = [id \in Ids |-> Wanted(J)[id]]
  BY DEF Wanted
<1> QED
  BY <1>1, <1>2

\* A job that is added counts if it can be scheduled.
LEMMA WantedMore ==
  ASSUME NEW J \in Seq(Job), NEW j \in Job
  PROVE  Wanted(Append(J, j)) =
           IF Schedulable(j) THEN [Wanted(J) EXCEPT ![j.id] = j.expr] ELSE Wanted(J)
<1> DEFINE n == Len(J)
           M == Append(J, j)
<1>1. /\ n \in Nat /\ DOMAIN J = 1 .. n /\ DOMAIN M = 1 .. n + 1 /\ M \in Seq(Job)
      /\ M[n + 1] = j /\ \A i \in 1 .. n : M[i] = J[i]
  BY QueueAppend
<1>2. j.id \in Ids
  BY DEF Job
<1> HIDE DEF M
<1>3. ASSUME NEW id \in Ids
      PROVE  Asking(M, id) = IF Schedulable(j) /\ j.id = id
                             THEN Asking(J, id) \cup {n + 1} ELSE Asking(J, id)
  BY <1>1 DEF Asking
<1>4. ASSUME NEW id \in Ids, Schedulable(j), j.id = id
      PROVE  Wanted(M)[id] = j.expr
  <2>1. n + 1 \in Asking(M, id)
    BY <1>3, <1>4
  <2>2. \A i \in Asking(M, id) : i <= n + 1
    BY <1>1 DEF Asking
  <2>3. Wanted(M)[id] = M[n + 1].expr
    BY <1>1, <2>1, <2>2, WantedIs
  <2> QED
    BY <1>1, <2>3
<1>5. ASSUME NEW id \in Ids, ~(Schedulable(j) /\ j.id = id)
      PROVE  Wanted(M)[id] = Wanted(J)[id]
  <2>1. Asking(M, id) = Asking(J, id)
    BY <1>3, <1>5
  <2>2. CASE Asking(J, id) = {}
    BY <1>1, <2>1, <2>2, WantedFacts
  <2>3. CASE Asking(J, id) # {}
    <3>1. PICK m \in Asking(J, id) :
            (\A i \in Asking(J, id) : i <= m) /\ Wanted(J)[id] = J[m].expr
      BY <2>3, WantedFacts
    <3>2. Wanted(M)[id] = M[m].expr
      BY <1>1, <2>1, <3>1, WantedIs
    <3>3. m \in 1 .. n
      BY <1>1, <3>1 DEF Asking
    <3> QED
      BY <1>1, <3>1, <3>2, <3>3
  <2> QED
    BY <2>2, <2>3
<1>6. Wanted(M) = [id \in Ids |-> Wanted(M)[id]] /\ Wanted(J) = [id \in Ids |-> Wanted(J)[id]]
  BY DEF Wanted
<1>7. CASE Schedulable(j)
  <2> DEFINE W == [Wanted(J) EXCEPT ![j.id] = j.expr]
  <2>1. \A id \in Ids : W[id] = Wanted(M)[id]
    BY <1>4, <1>5, <1>6, <1>7
  <2>2. W = [id \in Ids |-> W[id]]
    BY <1>6
  <2> HIDE DEF W
  <2>3. W = Wanted(M)
    BY <1>6, <2>1, <2>2
  <2> QED
    BY <1>7, <2>3 DEF W, M
<1>8. CASE ~Schedulable(j)
  <2>1. \A id \in Ids : Wanted(M)[id] = Wanted(J)[id]
    BY <1>5, <1>8
  <2>2. Wanted(M) = Wanted(J)
    BY <1>6, <2>1
  <2> QED
    BY <1>8, <2>2 DEF M
<1> QED
  BY <1>7, <1>8

\* Removing the entries of one id leaves those of the others, in their order.
LEMMA WantedLess ==
  ASSUME NEW J \in Seq(Job), NEW id \in Ids
  PROVE  LET K == {i \in DOMAIN J : J[i].id # id} IN
         /\ Subsequence(J, K) \in Seq(Job)
         /\ Wanted(Subsequence(J, K)) = [Wanted(J) EXCEPT ![id] = None]
<1> DEFINE K == {i \in DOMAIN J : J[i].id # id}
           M == Subsequence(J, K)
<1>1. DOMAIN J = 1 .. Len(J) /\ Len(J) \in Nat /\ K \in SUBSET (DOMAIN J)
  OBVIOUS
<1> HIDE DEF K
<1>2. /\ M \in Seq(Job) /\ Cardinality(K) \in Nat /\ DOMAIN M = 1 .. Cardinality(K)
      /\ \A k \in 1 .. Cardinality(K) : Place(K, k) \in K /\ M[k] = J[Place(K, k)]
  BY <1>1, SubsequenceType
<1>3. /\ \A k, l \in 1 .. Cardinality(K) : k < l => Place(K, k) < Place(K, l)
      /\ \A i \in K : \E k \in 1 .. Cardinality(K) : Place(K, k) = i
  BY <1>1, PlaceFacts
<1> HIDE DEF M
<1>4. \A o \in Ids : \A k \in Asking(M, o) : /\ k \in 1 .. Cardinality(K)
                                             /\ Place(K, k) \in Asking(J, o) /\ o # id
  BY <1>1, <1>2 DEF Asking, K
<1>5. Wanted(M)[id] = None
  <2>1. Asking(M, id) = {}
    BY <1>4
  <2> QED
    BY <1>2, <2>1, WantedFacts
<1>6. ASSUME NEW o \in Ids, o # id
      PROVE  Wanted(M)[o] = Wanted(J)[o]
  <2>1. CASE Asking(J, o) = {}
    <3>1. Asking(M, o) = {}
      BY <1>4, <2>1
    <3> QED
      BY <1>2, <2>1, <3>1, WantedFacts
  <2>2. CASE Asking(J, o) # {}
    <3>1. PICK m \in Asking(J, o) :
            (\A i \in Asking(J, o) : i <= m) /\ Wanted(J)[o] = J[m].expr
      BY <2>2, WantedFacts
    <3>2. m \in K
      BY <1>6, <3>1 DEF Asking, K
    <3>3. PICK k \in 1 .. Cardinality(K) : Place(K, k) = m
      BY <1>3, <3>2
    <3>4. k \in Asking(M, o)
      BY <1>2, <3>1, <3>3 DEF Asking
    <3>5. ASSUME NEW l \in Asking(M, o) PROVE l <= k
      <4>1. l \in 1 .. Cardinality(K) /\ Place(K, l) \in Asking(J, o)
        BY <1>4
      <4>2. Place(K, l) <= Place(K, k)
        BY <3>1, <3>3, <4>1
      <4>3. Place(K, l) \in Int /\ Place(K, k) \in Int
        BY <1>1, <1>2, <4>1
      <4>4. ~(k < l)
        BY <1>3, <4>1, <4>2, <4>3
      <4> QED
        BY <1>2, <4>1, <4>4
    <3>6. Wanted(M)[o] = M[k].expr
      BY <1>2, <3>4, <3>5, WantedIs
    <3> QED
      BY <1>2, <3>1, <3>3, <3>6
  <2> QED
    BY <2>1, <2>2
<1>7. Wanted(M) = [o \in Ids |-> Wanted(M)[o]] /\ Wanted(J) = [o \in Ids |-> Wanted(J)[o]]
  BY DEF Wanted
<1>8. Wanted(M) = [Wanted(J) EXCEPT ![id] = None]
  <2> DEFINE W == [Wanted(J) EXCEPT ![id] = None]
  <2>1. \A o \in Ids : W[o] = Wanted(M)[o]
    BY <1>5, <1>6, <1>7
  <2>2. W = [o \in Ids |-> W[o]]
    BY <1>7
  <2> HIDE DEF W
  <2>3. W = Wanted(M)
    BY <1>7, <2>1, <2>2
  <2> QED
    BY <2>3 DEF W
<1> QED
  BY <1>2, <1>8 DEF M, K

\* What the first entries of a list ask for, the whole list asks for.
LEMMA WantedPrefix ==
  ASSUME NEW J \in Seq(Job), NEW n \in 0 .. Len(J)
  PROVE  /\ SubSeq(J, 1, n) \in Seq(Job)
         /\ \A id \in Ids : Wanted(SubSeq(J, 1, n))[id] # None => Wanted(J)[id] # None
<1> DEFINE M == SubSeq(J, 1, n)
<1>1. /\ Len(J) \in Nat /\ DOMAIN J = 1 .. Len(J) /\ n \in Nat /\ n <= Len(J)
      /\ M \in Seq(Job) /\ DOMAIN M = 1 .. n /\ \A i \in 1 .. n : M[i] = J[i]
  OBVIOUS
<1> HIDE DEF M
<1>2. ASSUME NEW id \in Ids, Wanted(M)[id] # None PROVE Wanted(J)[id] # None
  <2>1. Asking(M, id) # {}
    BY <1>1, <1>2, WantedFacts
  <2>2. Asking(M, id) \subseteq Asking(J, id)
    BY <1>1 DEF Asking
  <2> QED
    BY <2>1, <2>2, WantedFacts
<1> QED
  BY <1>1, <1>2 DEF M

\* A step that leaves the jobs alone, up to a stop.
LEMMA JobsKept ==
  ASSUME JobInv, UNCHANGED <<jobs, sched, state>>, upsets' \in 0 .. MaxUpsets
  PROVE  JobInv'
<1>1. TypesOfJobs'
  BY DEF JobInv, TypesOfJobs
<1>2. Wanted(jobs)' = Wanted(jobs)
  BY DEF Wanted, Schedulable
<1>3. SchedulerAgreesWithFile'
  BY <1>2 DEF JobInv, SchedulerAgreesWithFile
<1> QED
  BY <1>1, <1>3 DEF JobInv

\* Every step keeps what is scheduled in line with the file.
LEMMA JobStep == JobInv /\ [Next]_vars => JobInv'
<1> SUFFICES ASSUME JobInv, [Next]_vars PROVE JobInv'
  OBVIOUS
<1> jobs \in Seq(Job) /\ sched \in [Ids -> Exprs \cup {None}] /\ upsets \in 0 .. MaxUpsets
  BY DEF JobInv, TypesOfJobs
<1>1. ASSUME Start PROVE JobInv'
  <2> DEFINE rejected == {i \in DOMAIN jobs : jobs[i].enabled /\ jobs[i].expr = Malformed}
             M == SubSeq(jobs, 1, Min(rejected) - 1)
  <2>1. jobs' = jobs /\ upsets' = upsets
    BY <1>1 DEF Start
  <2>2. CASE rejected = {}
    <3>1. state' = "up" /\ sched' = Wanted(jobs)
      BY <1>1, <2>2 DEF Start
    <3>2. sched' \in [Ids -> Exprs \cup {None}]
      BY <3>1, WantedType
    <3>3. SchedulerAgreesWithFile'
      <4>1. Wanted(jobs') = Wanted(jobs)
        BY <2>1
      <4> QED
        BY <3>1, <4>1 DEF SchedulerAgreesWithFile, Wanted, Schedulable
    <3> QED
      BY <2>1, <3>1, <3>2, <3>3 DEF JobInv, TypesOfJobs
  <2>3. CASE rejected # {}
    <3>1. state' = "broken" /\ sched' = Wanted(M)
      BY <1>1, <2>3 DEF Start
    <3>2. Len(jobs) \in Nat /\ rejected \in SUBSET (1 .. Len(jobs))
      OBVIOUS
    <3> HIDE DEF rejected
    <3>3. Min(rejected) \in 1 .. Len(jobs)
      BY <2>3, <3>2, MaxMin
    <3>4. Min(rejected) - 1 \in 0 .. Len(jobs)
      BY <3>2, <3>3
    <3>5. /\ M \in Seq(Job)
          /\ \A id \in Ids : Wanted(M)[id] # None => Wanted(jobs)[id] # None
      BY <3>4, WantedPrefix
    <3> HIDE DEF M
    <3>6. sched' \in [Ids -> Exprs \cup {None}]
      BY <3>1, <3>5, WantedType
    <3>7. SchedulerAgreesWithFile'
      BY <2>1, <3>1, <3>5 DEF SchedulerAgreesWithFile, Wanted, Schedulable
    <3> QED
      BY <2>1, <3>1, <3>6, <3>7 DEF JobInv, TypesOfJobs
  <2> QED
    BY <2>2, <2>3
<1>2. ASSUME NEW j \in Job, AddJob(j) PROVE JobInv'
  <2>1. /\ jobs' = Append(jobs, j) /\ state # "down" /\ state' = state /\ upsets' = upsets
        /\ sched' = IF Schedulable(j) THEN [sched EXCEPT ![j.id] = j.expr] ELSE sched
    BY <1>2 DEF AddJob
  <2>2. jobs' \in Seq(Job)
    BY <2>1
  <2>3. j.id \in Ids /\ (Schedulable(j) => j.expr \in Exprs /\ j.expr # None)
    BY SchedulerAssumption DEF Job, Schedulable
  <2>4. sched' \in [Ids -> Exprs \cup {None}]
    BY <2>1, <2>3
  <2>5. Wanted(jobs') =
          IF Schedulable(j) THEN [Wanted(jobs) EXCEPT ![j.id] = j.expr] ELSE Wanted(jobs)
    BY <2>1, WantedMore
  <2>6. Wanted(jobs) \in [Ids -> Exprs \cup {None}]
    BY WantedType
  <2>7. state = "up" => sched = Wanted(jobs)
    BY DEF JobInv, SchedulerAgreesWithFile
  <2>8. \A id \in Ids : sched[id] # None => Wanted(jobs)[id] # None
    BY DEF JobInv, SchedulerAgreesWithFile
  <2>9. state' = "up" => sched' = Wanted(jobs')
    BY <2>1, <2>5, <2>7
  <2>10. \A id \in Ids : sched'[id] # None => Wanted(jobs')[id] # None
    BY <2>1, <2>3, <2>5, <2>6, <2>8
  <2>11. SchedulerAgreesWithFile'
    BY <2>9, <2>10 DEF SchedulerAgreesWithFile, Wanted, Schedulable
  <2> QED
    BY <2>1, <2>2, <2>4, <2>11 DEF JobInv, TypesOfJobs
<1>3. ASSUME NEW id \in Ids, RemoveJob(id) PROVE JobInv'
  <2> DEFINE K == {i \in DOMAIN jobs : jobs[i].id # id}
  <2>1. /\ jobs' = Subsequence(jobs, K) /\ sched' = [sched EXCEPT ![id] = None]
        /\ state' = state /\ upsets' = upsets
    BY <1>3 DEF RemoveJob, Without
  <2>2. jobs' \in Seq(Job) /\ Wanted(jobs') = [Wanted(jobs) EXCEPT ![id] = None]
    BY <2>1, WantedLess
  <2>3. sched' \in [Ids -> Exprs \cup {None}]
    BY <2>1
  <2>4. Wanted(jobs) \in [Ids -> Exprs \cup {None}]
    BY WantedType
  <2>5. state = "up" => sched = Wanted(jobs)
    BY DEF JobInv, SchedulerAgreesWithFile
  <2>6. \A o \in Ids : sched[o] # None => Wanted(jobs)[o] # None
    BY DEF JobInv, SchedulerAgreesWithFile
  <2> HIDE DEF K
  <2>7. state' = "up" => sched' = Wanted(jobs')
    BY <2>1, <2>2, <2>5
  <2>8. \A o \in Ids : sched'[o] # None => Wanted(jobs')[o] # None
    BY <2>1, <2>2, <2>4, <2>6
  <2>9. SchedulerAgreesWithFile'
    BY <2>7, <2>8 DEF SchedulerAgreesWithFile, Wanted, Schedulable
  <2> QED
    BY <2>1, <2>2, <2>3, <2>9 DEF JobInv, TypesOfJobs
<1>4. ASSUME NEW id \in Ids, Fire(id) \/ Dispatch(id) \/ TurnOver(id) \/ Recorded(id)
      PROVE  JobInv'
  <2>1. UNCHANGED <<jobs, sched, state, upsets>>
    BY <1>4 DEF Fire, Dispatch, TurnOver, Recorded
  <2> QED
    BY <2>1, JobsKept
<1>5. ASSUME NEW id \in Ids, RecordRaises(id) PROVE JobInv'
  <2>1. UNCHANGED <<jobs, sched, state>> /\ upsets < MaxUpsets /\ upsets' = upsets + 1
    BY <1>5 DEF RecordRaises
  <2>2. upsets' \in 0 .. MaxUpsets
    BY <2>1, SchedulerAssumption
  <2> QED
    BY <2>1, <2>2, JobsKept
<1>6. ASSUME GoDown PROVE JobInv'
  <2>1. /\ jobs' = jobs /\ upsets < MaxUpsets /\ upsets' = upsets + 1
        /\ state' = "down" /\ sched' = [id \in Ids |-> None]
    BY <1>6 DEF GoDown
  <2>2. upsets' \in 0 .. MaxUpsets
    BY <2>1, SchedulerAssumption
  <2>3. SchedulerAgreesWithFile'
    BY <2>1 DEF SchedulerAgreesWithFile
  <2> QED
    BY <2>1, <2>2, <2>3 DEF JobInv, TypesOfJobs
<1>7. ASSUME UNCHANGED vars PROVE JobInv'
  BY <1>7, JobsKept DEF vars
<1> QED
  BY <1>1, <1>2, <1>3, <1>4, <1>5, <1>6, <1>7 DEF Next, Proceed

\* At first no job is on file and none is scheduled.
LEMMA JobInit == Init => JobInv
<1> SUFFICES ASSUME Init PROVE JobInv
  OBVIOUS
<1>1. /\ jobs = <<>> /\ sched = [id \in Ids |-> None] /\ state = "down" /\ upsets = 0
  BY DEF Init
<1>2. jobs \in Seq(Job)
  BY <1>1
<1>3. sched \in [Ids -> Exprs \cup {None}]
  BY <1>1
<1>4. upsets \in 0 .. MaxUpsets
  BY <1>1, SchedulerAssumption
<1>5. SchedulerAgreesWithFile
  BY <1>1 DEF SchedulerAgreesWithFile
<1> QED
  BY <1>1, <1>2, <1>3, <1>4, <1>5 DEF JobInv, TypesOfJobs

\* Every reachable state is one of the invariant.
LEMMA JobInvariance == Spec => []JobInv
BY JobInit, JobStep, PTL DEF Spec

\* No turn starts for a job that was removed or disabled, though it may have been fired
\* before: the dispatch looks it up again.
THEOREM RemovedJobsNeverRun == Spec => RemovedNeverRuns
<1> DEFINE LastIsOn(id) ==
             \E i \in DOMAIN jobs :
               /\ jobs[i].id = id /\ jobs[i].enabled
               /\ \A k \in DOMAIN jobs : jobs[k].id = id => k <= i
           Stands == \A id \in Ids : run'[id].n # run[id].n => LastIsOn(id)
<1>1. ASSUME IInv, JobInv, [Next]_vars PROVE Stands
  <2> SUFFICES ASSUME NEW k \in Ids, run'[k].n # run[k].n
               PROVE  LastIsOn(k)
    OBVIOUS
  <2>1. run \in [Ids -> Run] /\ jobs \in Seq(Job)
    BY <1>1 DEF IInv, TypesOfRuns, JobInv, TypesOfJobs
  <2>2. ASSUME NEW id \in Ids, Dispatch(id) PROVE LastIsOn(k)
    <3>1. id = k /\ Standing(id)
      BY <2>1, <2>2 DEF Dispatch, Finished, Run
    <3> DEFINE mine == {i \in DOMAIN jobs : jobs[i].id = k}
    <3>2. mine # {} /\ jobs[Max(mine)].enabled
      BY <3>1 DEF Standing
    <3>3. Len(jobs) \in Nat /\ mine \in SUBSET (1 .. Len(jobs))
      BY <2>1
    <3>4. \E x \in mine : \A y \in mine : x >= y
      <4> HIDE DEF mine
      <4>1. QED  BY <3>2, <3>3, LastOf
    <3>5. Max(mine) \in mine /\ \A y \in mine : Max(mine) >= y
      BY <3>4 DEF Max
    <3>6. QED  BY <3>2, <3>3, <3>5
  <2>3. ASSUME NEW id \in Ids,
               Fire(id) \/ TurnOver(id) \/ Recorded(id) \/ RecordRaises(id)
        PROVE  run'[k].n = run[k].n
    BY <2>1, <2>3 DEF Fire, TurnOver, Recorded, RecordRaises, Finished, Run
  <2>4. ASSUME GoDown PROVE run'[k].n = run[k].n
    BY <2>1, <2>4 DEF GoDown, Run
  <2>5. ASSUME Start \/ (\E j \in Job : AddJob(j)) \/ (\E id \in Ids : RemoveJob(id))
               \/ UNCHANGED vars
        PROVE  run' = run
    BY <2>5 DEF Start, AddJob, RemoveJob, vars
  <2>6. QED  BY <1>1, <2>2, <2>3, <2>4, <2>5 DEF Next, Proceed
<1>2. IInv /\ JobInv /\ [Next]_vars => [Stands]_vars
  BY <1>1
<1>3. QED  BY <1>2, Invariance, JobInvariance, PTL DEF Spec, RemovedNeverRuns

\* The variables have their types: above all, no malformed expression is ever scheduled.
THEOREM TypeCorrect == Spec => []TypeOK
<1>1. IInv /\ JobInv => TypeOK
  BY DEF IInv, TypesOfRuns, JobInv, TypesOfJobs, TypeOK
<1>2. QED  BY <1>1, Invariance, JobInvariance, PTL

\* After a start that succeeded APScheduler holds what jobs.json5 asks for, whatever was added,
\* replaced, disabled or removed since; and never a job that is not on file.
THEOREM ScheduledAsOnFile == Spec => []SchedulerAgreesWithFile
<1>1. JobInv => SchedulerAgreesWithFile
  BY DEF JobInv
<1>2. QED  BY <1>1, JobInvariance, PTL

-----------------------------------------------------------------------------
(* The history as EventLog has it, which is what JsonlStore implements.      *)

\* A step requests the append of a record, ends one, or leaves the history alone.
LEMMA LogStep ==
  ASSUME IInv, [Next]_vars
  PROVE  [Log!Next]_(Log!logVars)
<1> DEFINE Quiet == UNCHANGED <<log, queue, damaged>>
<1>1. Quiet => UNCHANGED Log!logVars
  BY DEF Log!logVars
<1>2. CASE UNCHANGED vars
  BY <1>1, <1>2 DEF vars
<1>3. CASE Start \/ \E j \in Job : AddJob(j)
  BY <1>1, <1>3 DEF Start, AddJob
<1>4. ASSUME NEW id \in Ids, RemoveJob(id) \/ Fire(id) \/ Dispatch(id)
      PROVE  Quiet
  BY <1>4 DEF RemoveJob, Fire, Dispatch
<1>5. ASSUME NEW id \in Ids, TurnOver(id)
      PROVE  Log!Next
  <2>1. run[id] \in Run /\ run[id].n >= 1
    BY <1>5 DEF TurnOver, IInv, TypesOfRuns, Numbered
  <2>2. run[id].n \in 1 .. MaxRuns
    BY <2>1, SchedulerAssumption DEF Run
  <2>3. Record(id) \in Row
    BY <2>2 DEF Record, Row
  <2>4. Log!Request(id, File, Record(id))
    BY <1>5 DEF TurnOver
  <2> QED
    BY <2>3, <2>4 DEF Log!Next
<1>6. ASSUME NEW id \in Ids, Recorded(id) \/ RecordRaises(id)
      PROVE  Log!Next
  <2>1. Log!Commit(id, File) \/ Log!Abort(id, File)
    BY <1>6 DEF Recorded, RecordRaises
  <2> QED
    BY <2>1 DEF Log!Next
<1>7. CASE GoDown
  BY <1>7 DEF GoDown, Log!Next
<1> HIDE DEF Quiet
<1> QED
  BY <1>1, <1>2, <1>3, <1>4, <1>5, <1>6, <1>7 DEF Next, Proceed

\* What runs, stops and crashes do to history.jsonl is what EventLog allows: it only grows, in
\* the order in which the runs ended, and what is lost is what the contract says.
THEOREM HistoryIsLog == Spec => Log!Spec
<1>1. Init => Log!Init
  BY DEF Init
<1>2. IInv /\ [Next]_vars => [Log!Next]_(Log!logVars)
  BY LogStep
<1> QED
  BY <1>1, <1>2, Invariance, PTL DEF Spec, Log!Spec
=============================================================================
