---------------------------- MODULE TurnStream_proofs ----------------------------
(***************************************************************************)
(* What holds of a streamed turn for any number of steps, calls, chunks,   *)
(* items and failed appends.                                               *)
(***************************************************************************)
EXTENDS TurnStream, QueueFacts

\* What the client was sent and what is collected for it: in a tool's stream the events of
\* its progress come before its result, but the client sees them only with it.
Story == out \o buffer

\* The call at hand is announced and has no result yet; its tool runs.
ToolRunning == {"running", "progressing", "summarising", "noting"}
Busy == ToolRunning \cup {"calling"}

\* The actions of a decision are carried out.
Carrying == Stage \ (Ended \cup {"deciding"})

\* The action k is still to be carried out.
Ahead(k) == k > pos \/ (k = pos /\ pc = "acting")

-----------------------------------------------------------------------------
(* Types, and what the stages say of the other variables. *)

Shapes ==
  /\ TypeOK
  /\ answer = [text |-> answer.text, order |-> answer.order, ids |-> answer.ids,
               args |-> answer.args]
  /\ answer.text <= inputs
  /\ \A i \in DOMAIN answer.ids :
       /\ i \in Indices
       /\ answer.ids[i] \in {OwnId(i), MadeUpId(i)} /\ answer.args[i] \in Nat
  /\ \A j, k \in DOMAIN answer.order : answer.order[j] = answer.order[k] => j = k
  /\ tool \in [streams : BOOLEAN, items : Seq({"progress", "final"}), final : Nat,
               error : BOOLEAN]

\* The actions of a plan are told apart: its calls by their ids, its replies by their text.
Plans ==
  \A k \in DOMAIN plan :
    /\ plan[k].kind = "call" => plan[k].call # NoCall
    /\ \A l \in DOMAIN plan : k # l /\ plan[k].kind = plan[l].kind =>
         /\ plan[k].kind = "call" => plan[k].call # plan[l].call
         /\ plan[k].kind = "respond" => plan[k].data \cap plan[l].data = {}

Control ==
  /\ provider = "anthropic" => answer = Nothing /\ ~streamed
  /\ pc = "deciding" => final = 0
  /\ pc \in Carrying =>
       /\ answer = Nothing
       /\ pos \in 1 .. Len(plan) + 1
       /\ pc # "acting" => pos <= Len(plan)
       /\ pc \in Busy \cup {"recording"} => plan[pos].kind = "call"
       /\ pc = "replying" => plan[pos].kind = "respond"
       /\ final # 0 => /\ final \in DOMAIN plan /\ plan[final].kind = "respond"
                       /\ ~Ahead(final)
  /\ buffer # <<>> => pc \in ToolRunning \cup {"gone"}
  /\ \A i \in DOMAIN buffer : buffer[i].ev \in {"tool_progress", "tool_progress_summary"}

\* The last final item of a tool is known.
Finals ==
  /\ pc \in ToolRunning => /\ Len(tool.items) <= inputs /\ ~tool.error
                           /\ ~tool.streams => tool.items = <<>>
  /\ tool.final <= Len(tool.items)
  /\ tool.final # 0 => tool.items[tool.final] = "final"
  /\ \A l \in DOMAIN tool.items : l > tool.final => tool.items[l] # "final"
  /\ pc = "recording" => /\ out # <<>> /\ Last(out).data = ResultOf(tool)
                         /\ tool.error \/ tool.final # 0

-----------------------------------------------------------------------------
(* The events.  Z is the story, or part of it; s is a step. *)

Follows(e, f) ==
  \/ Phase[e.ev] < Phase[f.ev]
  \/ Phase[e.ev] = Phase[f.ev] /\ Phase[f.ev] \in {2, 4}

Announced(Z, id) == \E i \in DOMAIN Z : Z[i].call = id /\ Z[i].ev = "tool_call_started"

\* The event at k is where a client expects it.
Followed(Z, k) ==
  Z[k].call # NoCall =>
    /\ \E i \in 1 .. k : Z[i].call = Z[k].call /\ Z[i].ev = "tool_call_started"
    /\ \A i \in 1 .. k - 1 :
         Z[i].call = Z[k].call /\ Z[i].step = Z[k].step => Follows(Z[i], Z[k])

\* The pieces of the arguments of a call, and the arguments they add up to.
Pieces(Z, id, s) ==
  {j \in DOMAIN Z : Z[j].ev = "tool_call_delta" /\ Z[j].call = id /\ Z[j].step = s}
Sum(Z, id, s) == UNION {Z[j].data : j \in Pieces(Z, id, s)}

AddsUp(Z, id, s, data) == Pieces(Z, id, s) # {} => data \in {{}, Sum(Z, id, s)}

\* Where a piece of text was sent; and it was sent once.
Texts(Z, n, s) ==
  {j \in DOMAIN Z : Z[j].ev = "assistant_text_delta" /\ Z[j].step = s /\ n \in Z[j].data}
Once(Z, n, s) == \E i \in DOMAIN Z : Texts(Z, n, s) = {i}

\* While the model answers, its step has seen text, announcements and pieces of the calls
\* of the answer, and these are what the answer consists of.
Answering ==
  pc = "deciding" =>
    /\ \A i \in DOMAIN Story : Story[i].step = step =>
         \/ /\ Story[i].ev = "assistant_text_delta" /\ Story[i].call = NoCall
            /\ Story[i].data \subseteq 1 .. answer.text
         \/ /\ Story[i].ev \in {"tool_call_started", "tool_call_delta"}
            /\ Story[i].call \in seen
            /\ \E x \in DOMAIN answer.ids : Story[i].call = answer.ids[x]
    /\ \A x \in DOMAIN answer.ids : Sum(Story, answer.ids[x], step) = 1 .. answer.args[x]
    /\ \A n \in 1 .. answer.text : Once(Story, n, step)
    /\ answer.text > 0 => streamed

\* What was said in this step of a call that is still ahead, of the call at hand, and of a
\* reply, which is to be sent or was.
SaidAhead(Z, a) ==
  /\ \A i \in DOMAIN Z : Z[i].step = step /\ Z[i].call = a.call =>
       /\ Z[i].ev \in {"tool_call_started", "tool_call_delta"}
       /\ a.call \in seen
  /\ AddsUp(Z, a.call, step, a.data)

SaidNow(Z, a) ==
  /\ Announced(Z, a.call)
  /\ \A i \in DOMAIN Z : Z[i].step = step /\ Z[i].call = a.call =>
       Z[i].ev \in {"tool_call_started", "tool_call_delta", "tool_call_finished",
                    "tool_progress", "tool_progress_summary"}

SaidReply(Z, a, unsent) ==
  \A n \in a.data : IF unsent THEN Texts(Z, n, step) = {} ELSE Once(Z, n, step)

Doing ==
  /\ pc \in Carrying => \A k \in DOMAIN plan :
       /\ plan[k].kind = "call" /\ Ahead(k) => SaidAhead(Story, plan[k])
       /\ plan[k].kind = "respond" => SaidReply(Story, plan[k], Ahead(k) /\ ~streamed)
  /\ pc \in Busy => SaidNow(Story, plan[pos])

\* A story up to step s that a client can follow.
Followable(Z, s) ==
  \A i \in DOMAIN Z :
    /\ Z[i].step <= s
    /\ Followed(Z, i)
    /\ Z[i].ev = "tool_call_finished" => AddsUp(Z, Z[i].call, Z[i].step, Z[i].data)

Events ==
  /\ Followable(Story, step)
  /\ \A id \in seen : Announced(Story, id)
  /\ pc # "done" => \A i \in DOMAIN Story : Story[i].ev # "assistant_text_done"

-----------------------------------------------------------------------------
(* The file. *)

Results(Z) == Told(Z, "tool_result")

Filed ==
  /\ Results(out) = Results(Story)
  /\ pc \notin {"recording", "failed", "gone"} => Results(Story) = Logged("tool_result")
  /\ pc = "recording" => Results(Story) = Append(Logged("tool_result"), ResultOf(tool))
  /\ IsPrefix(Logged("tool_result"), Results(out))
  /\ Len(Results(out)) <= Len(Logged("tool_result")) + 1
  /\ faults = 0 => IsPrefix(Told(out, "tool_progress"), Logged("tool_progress"))
  /\ faults = 0 /\ pc # "gone" =>
       /\ Told(Story, "tool_progress") = Logged("tool_progress")
       /\ Told(Story, "tool_progress_summary") = Logged("assistant_progress")

StreamInv ==
  /\ Shapes /\ Plans /\ Control /\ Finals
  /\ Answering /\ Doing /\ Events
  /\ pc = "done" => ReplyWasStreamed
  /\ Filed

-----------------------------------------------------------------------------
(* Stories that grow. *)

\* The data of the entries of a sequence, when one is added.
LEMMA DataMore ==
  ASSUME NEW S \in {Event, Row}, NEW Z \in Seq(S), NEW e \in S,
         NEW K \in SUBSET (DOMAIN Z)
  PROVE  /\ Data(Z, K) \in Seq(SUBSET Nat)
         /\ Data(Append(Z, e), K) = Data(Z, K)
         /\ Data(Append(Z, e), K \cup {Len(Z) + 1}) = Append(Data(Z, K), e.data)
<1> DEFINE d == [i \in DOMAIN Z |-> Z[i].data]
           c == [i \in DOMAIN Append(Z, e) |-> Append(Z, e)[i].data]
<1>9. \A x \in S : x.data \in SUBSET Nat
  <2>1. S = Event \/ S = Row
    OBVIOUS
  <2>2. CASE S = Event
    BY <2>2 DEF Event
  <2>3. CASE S = Row
    BY <2>3 DEF Row
  <2> QED
    BY <2>1, <2>2, <2>3
<1>1. /\ Append(Z, e) \in Seq(S) /\ Len(Z) \in Nat /\ DOMAIN Z = 1 .. Len(Z)
      /\ DOMAIN Append(Z, e) = 1 .. Len(Z) + 1
      /\ \A k \in 1 .. Len(Z) : Append(Z, e)[k] = Z[k]
      /\ Append(Z, e)[Len(Z) + 1] = e
  BY QueueAppend
<1>2. d \in Seq(SUBSET Nat) /\ Len(d) = Len(Z)
  <2>1. \A i \in 1 .. Len(Z) : Z[i] \in S
    BY <1>1
  <2>2. d \in [1 .. Len(Z) -> SUBSET Nat]
    BY <1>1, <1>9, <2>1
  <2> QED
    BY <1>1, <2>2
<1>3. c \in Seq(SUBSET Nat) /\ Len(c) = Len(Z) + 1
  <2>1. \A i \in 1 .. Len(Z) + 1 : Append(Z, e)[i] \in S
    BY <1>1
  <2>2. c \in [1 .. Len(Z) + 1 -> SUBSET Nat]
    BY <1>1, <1>9, <2>1
  <2> QED
    BY <1>1, <2>2
<1> DEFINE T == SUBSET Nat
           x == e.data
<1>7. x \in T /\ d \in Seq(T) /\ c \in Seq(T)
  BY <1>2, <1>3, <1>9
<1>8. \A k \in 1 .. Len(Z) : d[k] = Z[k].data /\ c[k] = Z[k].data
  BY <1>1
<1>10. c[Len(Z) + 1] = x
  BY <1>1
<1>5. K \in SUBSET (DOMAIN d)
  OBVIOUS
<1>6. Data(Z, K) = Subsequence(d, K) /\ \A M : Data(Append(Z, e), M) = Subsequence(c, M)
  BY DEF Data
<1> HIDE DEF c, d, T, x
<1>4. c = Append(d, x)
  <2>1. /\ Append(d, x) \in Seq(T) /\ Len(Append(d, x)) = Len(Z) + 1
        /\ \A k \in 1 .. Len(Z) : Append(d, x)[k] = d[k]
        /\ Append(d, x)[Len(Z) + 1] = x
    BY <1>2, <1>7, QueueAppend
  <2>4. ASSUME NEW k \in 1 .. Len(Z) + 1 PROVE c[k] = Append(d, x)[k]
    <3>1. k \in 1 .. Len(Z) \/ k = Len(Z) + 1
      BY <1>1
    <3> QED
      BY <1>8, <1>10, <2>1, <3>1
  <2> QED
    BY <1>3, <1>7, <2>1, <2>4, SeqEqual
<1>11. Subsequence(d, K) \in Seq(T)
  BY <1>5, <1>7, SubsequenceType
<1>12. /\ Subsequence(Append(d, x), K) = Subsequence(d, K)
       /\ Subsequence(Append(d, x), K \cup {Len(d) + 1}) = Append(Subsequence(d, K), x)
  BY <1>5, <1>7, SubsequenceAppend
<1> QED
  BY <1>2, <1>4, <1>6, <1>11, <1>12 DEF T, x

\* What is told of a type, when an event is added.
LEMMA ToldMore ==
  ASSUME NEW Z \in Seq(Event), NEW e \in Event, NEW type
  PROVE  /\ Told(Z, type) \in Seq(SUBSET Nat)
         /\ Told(Append(Z, e), type) =
              IF e.ev = type THEN Append(Told(Z, type), e.data) ELSE Told(Z, type)
<1> DEFINE K == {i \in DOMAIN Z : Z[i].ev = type}
           M == {i \in DOMAIN Append(Z, e) : Append(Z, e)[i].ev = type}
<1>1. /\ Len(Z) \in Nat /\ DOMAIN Z = 1 .. Len(Z)
      /\ DOMAIN Append(Z, e) = 1 .. Len(Z) + 1
      /\ \A k \in 1 .. Len(Z) : Append(Z, e)[k] = Z[k]
      /\ Append(Z, e)[Len(Z) + 1] = e
  BY QueueAppend
<1>2. M = IF e.ev = type THEN K \cup {Len(Z) + 1} ELSE K
  BY <1>1
<1>3. K \in SUBSET (DOMAIN Z)
  OBVIOUS
<1>5. Told(Z, type) = Data(Z, K) /\ Told(Append(Z, e), type) = Data(Append(Z, e), M)
  BY DEF Told
<1> HIDE DEF K, M
<1>6. /\ Data(Z, K) \in Seq(SUBSET Nat) /\ Data(Append(Z, e), K) = Data(Z, K)
      /\ Data(Append(Z, e), K \cup {Len(Z) + 1}) = Append(Data(Z, K), e.data)
  BY <1>3, DataMore
<1> QED
  BY <1>2, <1>6, <1>5

\* What is logged of a type, when a row is added.
LEMMA LoggedMore ==
  ASSUME file \in Seq(Row), NEW r \in Row, file' = Append(file, r), NEW type
  PROVE  /\ Logged(type) \in Seq(SUBSET Nat)
         /\ Logged(type)' =
              IF r.type = type THEN Append(Logged(type), r.data) ELSE Logged(type)
<1> DEFINE K == {i \in DOMAIN file : file[i].type = type}
           M == {i \in DOMAIN file' : file'[i].type = type}
<1>1. /\ Len(file) \in Nat /\ DOMAIN file = 1 .. Len(file)
      /\ DOMAIN Append(file, r) = 1 .. Len(file) + 1
      /\ \A k \in 1 .. Len(file) : Append(file, r)[k] = file[k]
      /\ Append(file, r)[Len(file) + 1] = r
  BY QueueAppend
<1>2. M = IF r.type = type THEN K \cup {Len(file) + 1} ELSE K
  BY <1>1
<1>3. K \in SUBSET (DOMAIN file)
  OBVIOUS
<1>5. Logged(type) = Data(file, K) /\ Logged(type)' = Data(Append(file, r), M)
  BY DEF Logged, Data
<1> HIDE DEF K, M
<1>6. /\ Data(file, K) \in Seq(SUBSET Nat) /\ Data(Append(file, r), K) = Data(file, K)
      /\ Data(Append(file, r), K \cup {Len(file) + 1}) = Append(Data(file, K), r.data)
  BY <1>3, DataMore
<1> QED
  BY <1>2, <1>6, <1>5

\* Nothing is told or logged at first.
LEMMA ToldNothing ==
  ASSUME NEW type
  PROVE  /\ Told(<<>>, type) = <<>>
         /\ file = <<>> => Logged(type) = <<>>
<1>1. ASSUME NEW K, K = {} PROVE Data(<<>>, K) = <<>>
  <2>1. Cardinality(K) = 0
    BY <1>1, FS_EmptySet
  <2> QED
    BY <2>1 DEF Data, Subsequence
<1>2. Told(<<>>, type) = <<>>
  <2>1. {i \in DOMAIN <<>> : <<>>[i].ev = type} = {}
    OBVIOUS
  <2> QED
    BY <1>1, <2>1 DEF Told
<1>3. ASSUME file = <<>> PROVE Logged(type) = <<>>
  <2>1. {i \in DOMAIN file : file[i].type = type} = {}
    BY <1>3
  <2> QED
    BY <1>1, <1>3, <2>1 DEF Logged
<1> QED
  BY <1>2, <1>3

\* What an event adds to the pieces of a call's arguments.
LEMMA MorePieces ==
  ASSUME NEW Z \in Seq(Event), NEW e \in Event, NEW id, NEW s
  PROVE  /\ e.ev = "tool_call_delta" /\ e.call = id /\ e.step = s =>
              Sum(Append(Z, e), id, s) = Sum(Z, id, s) \cup e.data
         /\ ~(e.ev = "tool_call_delta" /\ e.call = id /\ e.step = s) =>
              /\ Pieces(Append(Z, e), id, s) = Pieces(Z, id, s)
              /\ Sum(Append(Z, e), id, s) = Sum(Z, id, s)
<1> DEFINE Y == Append(Z, e)
<1>1. /\ Len(Z) \in Nat /\ DOMAIN Z = 1 .. Len(Z)
      /\ DOMAIN Y = 1 .. Len(Z) + 1
      /\ \A k \in 1 .. Len(Z) : Y[k] = Z[k]
      /\ Y[Len(Z) + 1] = e
  BY QueueAppend
<1>2. /\ DOMAIN Y = DOMAIN Z \cup {Len(Z) + 1} /\ Y[Len(Z) + 1] = e
      /\ \A k \in DOMAIN Z : Y[k] = Z[k]
  BY <1>1
<1> HIDE DEF Y
<1>3. \A j \in Pieces(Z, id, s) : Y[j] = Z[j]
  BY <1>2 DEF Pieces
<1>4. ASSUME e.ev = "tool_call_delta" /\ e.call = id /\ e.step = s
      PROVE  Sum(Y, id, s) = Sum(Z, id, s) \cup e.data
  <2>1. Pieces(Y, id, s) = Pieces(Z, id, s) \cup {Len(Z) + 1}
    BY <1>2, <1>4 DEF Pieces
  <2>2. \A x : x \in Sum(Y, id, s) <=> \E j \in Pieces(Y, id, s) : x \in Y[j].data
    BY DEF Sum
  <2>3. \A x : x \in Sum(Z, id, s) <=> \E j \in Pieces(Z, id, s) : x \in Z[j].data
    BY DEF Sum
  <2>4. \A x : x \in Sum(Y, id, s) <=> x \in Sum(Z, id, s) \/ x \in e.data
    BY <1>2, <1>3, <2>1, <2>2, <2>3
  <2> QED
    BY <2>4
<1>5. ASSUME ~(e.ev = "tool_call_delta" /\ e.call = id /\ e.step = s)
      PROVE  Pieces(Y, id, s) = Pieces(Z, id, s) /\ Sum(Y, id, s) = Sum(Z, id, s)
  <2>1. Pieces(Y, id, s) = Pieces(Z, id, s)
    BY <1>2, <1>5 DEF Pieces
  <2>2. Sum(Y, id, s) = Sum(Z, id, s)
    BY <1>3, <2>1 DEF Sum
  <2> QED
    BY <2>1, <2>2
<1> QED
  BY <1>4, <1>5 DEF Y

\* What a piece of a call's arguments adds to them.
LEMMA MoreSum ==
  ASSUME NEW Z \in Seq(Event), NEW e \in Event, e.ev = "tool_call_delta"
  PROVE  Sum(Append(Z, e), e.call, e.step) = Sum(Z, e.call, e.step) \cup e.data
<1> DEFINE id == e.call
           s == e.step
<1>1. e.ev = "tool_call_delta" /\ e.call = id /\ e.step = s
  OBVIOUS
<1> HIDE DEF id, s
<1>2. Sum(Append(Z, e), id, s) = Sum(Z, id, s) \cup e.data
  BY <1>1, MorePieces
<1> QED
  BY <1>2 DEF id, s

\* What it adds to the places of a piece of text.
LEMMA MoreTexts ==
  ASSUME NEW Z \in Seq(Event), NEW e \in Event, NEW n, NEW s
  PROVE  /\ e.ev = "assistant_text_delta" /\ e.step = s /\ n \in e.data =>
              Texts(Append(Z, e), n, s) = Texts(Z, n, s) \cup {Len(Z) + 1}
         /\ ~(e.ev = "assistant_text_delta" /\ e.step = s /\ n \in e.data) =>
              Texts(Append(Z, e), n, s) = Texts(Z, n, s)
         /\ Len(Z) + 1 \in DOMAIN Append(Z, e)
         /\ ~(e.ev = "assistant_text_delta" /\ e.step = s /\ n \in e.data) /\ Once(Z, n, s)
              => Once(Append(Z, e), n, s)
<1> DEFINE Y == Append(Z, e)
<1>1. /\ Len(Z) \in Nat /\ DOMAIN Z = 1 .. Len(Z)
      /\ DOMAIN Y = 1 .. Len(Z) + 1
      /\ \A k \in 1 .. Len(Z) : Y[k] = Z[k]
      /\ Y[Len(Z) + 1] = e
  BY QueueAppend
<1>2. /\ DOMAIN Y = DOMAIN Z \cup {Len(Z) + 1} /\ Y[Len(Z) + 1] = e
      /\ \A k \in DOMAIN Z : Y[k] = Z[k]
  BY <1>1
<1> HIDE DEF Y
<1>3. ASSUME e.ev = "assistant_text_delta" /\ e.step = s /\ n \in e.data
      PROVE  Texts(Y, n, s) = Texts(Z, n, s) \cup {Len(Z) + 1}
  BY <1>2, <1>3 DEF Texts
<1>4. ASSUME ~(e.ev = "assistant_text_delta" /\ e.step = s /\ n \in e.data)
      PROVE  Texts(Y, n, s) = Texts(Z, n, s)
  BY <1>2, <1>4 DEF Texts
<1>5. DOMAIN Z \subseteq DOMAIN Y /\ Len(Z) + 1 \in DOMAIN Y
  BY <1>2
<1> QED
  BY <1>3, <1>4, <1>5 DEF Y, Once

\* And to what is announced.
LEMMA MoreAnnounced ==
  ASSUME NEW Z \in Seq(Event), NEW e \in Event, NEW id
  PROVE  /\ Announced(Z, id) => Announced(Append(Z, e), id)
         /\ e.call = id /\ e.ev = "tool_call_started" => Announced(Append(Z, e), id)
<1> DEFINE Y == Append(Z, e)
<1>1. /\ Len(Z) \in Nat /\ DOMAIN Z = 1 .. Len(Z)
      /\ DOMAIN Y = 1 .. Len(Z) + 1
      /\ \A k \in 1 .. Len(Z) : Y[k] = Z[k]
      /\ Y[Len(Z) + 1] = e
  BY QueueAppend
<1>2. /\ DOMAIN Y = DOMAIN Z \cup {Len(Z) + 1} /\ Y[Len(Z) + 1] = e
      /\ \A k \in DOMAIN Z : Y[k] = Z[k]
  BY <1>1
<1> HIDE DEF Y
<1>3. Announced(Z, id) => Announced(Y, id)
  BY <1>2 DEF Announced
<1>4. e.call = id /\ e.ev = "tool_call_started" => Announced(Y, id)
  BY <1>2 DEF Announced
<1> QED
  BY <1>3, <1>4 DEF Y

\* The order of the events of a call.
LEMMA PhaseFacts ==
  ASSUME NEW e \in Event, NEW f \in Event
  PROVE  LET early == {"tool_call_started", "tool_call_delta"}
             late  == {"tool_call_finished", "tool_progress", "tool_progress_summary"} IN
         /\ f.ev = "tool_call_delta" /\ e.ev \in early => Follows(e, f)
         /\ f.ev = "tool_call_finished" /\ e.ev \in early => Follows(e, f)
         /\ f.ev \in {"tool_progress", "tool_progress_summary"} /\ e.ev \in early \cup late
              => Follows(e, f)
         /\ f.ev = "tool_result" /\ e.ev \in early \cup late => Follows(e, f)
BY DEF Follows, Phase

\* An event that may come next.
Next1(Z, s, e) ==
  /\ e.step = s
  /\ e.call # NoCall =>
       /\ e.ev = "tool_call_started" \/ Announced(Z, e.call)
       /\ \A i \in DOMAIN Z : Z[i].call = e.call /\ Z[i].step = s => Follows(Z[i], e)
  /\ e.ev = "tool_call_delta" =>
       \A i \in DOMAIN Z : Z[i].step = s /\ Z[i].call = e.call => Z[i].ev # "tool_call_finished"
  /\ e.ev = "tool_call_finished" => AddsUp(Z, e.call, s, e.data)

\* A story remains one that a client can follow.
LEMMA FollowableMore ==
  ASSUME NEW Z \in Seq(Event), NEW s \in Nat, Followable(Z, s), NEW e \in Event, Next1(Z, s, e)
  PROVE  Followable(Append(Z, e), s)
<1> DEFINE Y == Append(Z, e)
           n == Len(Z)
<1>1. /\ n \in Nat /\ DOMAIN Z = 1 .. n /\ DOMAIN Y = 1 .. n + 1
      /\ \A k \in 1 .. n : Y[k] = Z[k]
      /\ Y[n + 1] = e
  BY QueueAppend
<1> HIDE DEF Y
<1>3. ASSUME NEW k \in DOMAIN Y
      PROVE  /\ Y[k].step <= s /\ Followed(Y, k)
             /\ Y[k].ev = "tool_call_finished" => AddsUp(Y, Y[k].call, Y[k].step, Y[k].data)
  <2>1. CASE k \in 1 .. n
    <3>1. Z[k].step <= s /\ Followed(Z, k)
      BY <1>1, <2>1 DEF Followable
    <3>2. Y[k] = Z[k] /\ \A i \in 1 .. k : Y[i] = Z[i]
      BY <1>1, <2>1
    <3>3. k - 1 \in Int /\ \A i \in 1 .. k - 1 : i \in 1 .. k
      BY <1>1, <2>1
    <3>4. Followed(Y, k)
      BY <3>1, <3>2, <3>3 DEF Followed
    <3>5. ASSUME Z[k].ev = "tool_call_finished"
          PROVE  AddsUp(Y, Z[k].call, Z[k].step, Z[k].data)
      <4>1. AddsUp(Z, Z[k].call, Z[k].step, Z[k].data)
        BY <1>1, <2>1, <3>5 DEF Followable
      <4>2. ~(e.ev = "tool_call_delta" /\ e.call = Z[k].call /\ e.step = Z[k].step)
        BY <1>1, <2>1, <3>5 DEF Next1
      <4>4. /\ Pieces(Y, Z[k].call, Z[k].step) = Pieces(Z, Z[k].call, Z[k].step)
            /\ Sum(Y, Z[k].call, Z[k].step) = Sum(Z, Z[k].call, Z[k].step)
        BY <4>2, MorePieces DEF Y
      <4> QED
        BY <4>1, <4>4 DEF AddsUp
    <3> QED
      BY <3>1, <3>2, <3>4, <3>5
  <2>2. CASE k = n + 1
    <3>1. Y[k] = e /\ e.step = s
      BY <1>1, <2>2 DEF Next1
    <3>2. s <= s
      OBVIOUS
    <3>3. Followed(Y, k)
      <4> SUFFICES ASSUME e.call # NoCall
                   PROVE  /\ \E i \in 1 .. k : Y[i].call = e.call /\ Y[i].ev = "tool_call_started"
                          /\ \A i \in 1 .. k - 1 : Y[i].call = e.call /\ Y[i].step = e.step
                               => Follows(Y[i], e)
        BY <3>1 DEF Followed
      <4>1. \E i \in 1 .. k : Y[i].call = e.call /\ Y[i].ev = "tool_call_started"
        <5>1. CASE e.ev = "tool_call_started"
          <6>1. k \in 1 .. k
            BY <1>1, <2>2
          <6> QED
            BY <3>1, <5>1, <6>1
        <5>2. CASE e.ev # "tool_call_started"
          <6>1. Announced(Z, e.call)
            BY <5>2 DEF Next1
          <6>2. PICK i \in 1 .. n : Z[i].call = e.call /\ Z[i].ev = "tool_call_started"
            BY <1>1, <6>1 DEF Announced
          <6>3. i \in 1 .. k /\ Y[i] = Z[i]
            BY <1>1, <2>2
          <6> QED
            BY <6>2, <6>3
        <5> QED
          BY <5>1, <5>2
      <4>2. \A i \in 1 .. k - 1 : i \in 1 .. n
        BY <1>1, <2>2
      <4>3. \A i \in 1 .. n : Z[i].call = e.call /\ Z[i].step = s => Follows(Z[i], e)
        BY <1>1 DEF Next1
      <4> QED
        BY <1>1, <3>1, <4>1, <4>2, <4>3
    <3>4. ASSUME e.ev = "tool_call_finished" PROVE AddsUp(Y, e.call, e.step, e.data)
      <4>1. AddsUp(Z, e.call, s, e.data)
        BY <3>4 DEF Next1
      <4>2. Pieces(Y, e.call, s) = Pieces(Z, e.call, s) /\ Sum(Y, e.call, s) = Sum(Z, e.call, s)
        BY <3>4, MorePieces DEF Y
      <4> QED
        BY <3>1, <4>1, <4>2 DEF AddsUp
    <3> QED
      BY <3>1, <3>2, <3>3, <3>4
  <2> QED
    BY <1>1, <2>1, <2>2
<1> QED
  BY <1>3 DEF Followable, Y

\* What is collected is behind what was sent, and the sequences have the events of a turn.
LEMMA StoryFacts ==
  ASSUME TypeOK
  PROVE  /\ Story \in Seq(Event) /\ out \in Seq(Event) /\ buffer \in Seq(Event)
         /\ file \in Seq(Row) /\ Len(Story) = Len(out) + Len(buffer)
         /\ Len(Story) \in Nat /\ Len(out) \in Nat /\ Len(buffer) \in Nat
         /\ \A i \in DOMAIN Story : i \in 1 .. Len(Story) /\ Story[i] \in Event
         /\ \A i \in 1 .. Len(out) : Story[i] = out[i]
         /\ \A i \in 1 .. Len(buffer) : Story[Len(out) + i] = buffer[i]
         /\ buffer = <<>> => Story = out
         /\ step \in Nat /\ step >= 1
<1>1. out \in Seq(Event) /\ buffer \in Seq(Event) /\ file \in Seq(Row) /\ step \in 1 .. MaxSteps
  BY DEF TypeOK
<1>2. /\ Story \in Seq(Event) /\ Len(Story) = Len(out) + Len(buffer)
      /\ \A i \in 1 .. Len(out) + Len(buffer) :
           Story[i] = IF i <= Len(out) THEN out[i] ELSE buffer[i - Len(out)]
  BY <1>1, ConcatProperties DEF Story
<1>3. Len(Story) \in Nat /\ Len(out) \in Nat /\ Len(buffer) \in Nat
  BY <1>1, <1>2
<1>4. \A i \in 1 .. Len(out) : Story[i] = out[i]
  BY <1>2, <1>3
<1>5. \A i \in 1 .. Len(buffer) : Story[Len(out) + i] = buffer[i]
  <2> SUFFICES ASSUME NEW i \in 1 .. Len(buffer) PROVE Story[Len(out) + i] = buffer[i]
    OBVIOUS
  <2>1. /\ Len(out) + i \in 1 .. Len(out) + Len(buffer) /\ ~(Len(out) + i <= Len(out))
        /\ Len(out) + i - Len(out) = i
    BY <1>3
  <2> QED
    BY <1>2, <2>1
<1>6. buffer = <<>> => Story = out
  BY <1>1, ConcatEmptySeq DEF Story
<1>7. \A i \in DOMAIN Story : i \in 1 .. Len(Story) /\ Story[i] \in Event
  <2>1. \A i \in 1 .. Len(Story) : Story[i] \in Event
    BY <1>2
  <2>2. DOMAIN Story = 1 .. Len(Story)
    BY <1>2
  <2> QED
    BY <2>1, <2>2
<1>8. step \in Nat /\ step >= 1
  BY <1>1, TurnStreamAssumption
<1> QED
  BY <1>1, <1>2, <1>3, <1>4, <1>5, <1>6, <1>7, <1>8

\* The events that a turn makes.
LEMMA EvFacts ==
  ASSUME TypeOK, NEW type \in EventType, NEW call \in CallId \cup {NoCall},
         NEW data \in SUBSET Nat
  PROVE  /\ Ev(type, call, data) \in Event
         /\ Ev(type, call, data).ev = type /\ Ev(type, call, data).step = step
         /\ Ev(type, call, data).call = call /\ Ev(type, call, data).data = data
<1>1. step \in 1 .. MaxSteps
  BY DEF TypeOK
<1> QED
  BY <1>1 DEF Ev, Event

-----------------------------------------------------------------------------
(* Types and control. *)

Basics == Shapes /\ Plans /\ Control /\ Finals

\* The stages.
LEMMA StageFacts ==
  /\ Appending = {"calling", "progressing", "noting", "recording", "replying"}
  /\ Carrying = {"acting", "running", "summarising", "calling", "progressing", "noting",
                 "recording", "replying"}
  /\ Stage = Carrying \cup {"done", "failed", "gone", "deciding"}
  /\ DOMAIN Progress = {"progressing", "noting"}
  /\ Progress["progressing"] = "tool_progress" /\ Progress["noting"] = "tool_progress_summary"
  /\ RowType["calling"] = "assistant_tool_call" /\ RowType["progressing"] = "tool_progress"
  /\ RowType["noting"] = "assistant_progress" /\ RowType["recording"] = "tool_result"
  /\ RowType["replying"] = "assistant_message"
<1>1. Appending = {"calling", "progressing", "noting", "recording", "replying"}
  BY DEF Appending, RowType
<1>2. /\ Carrying = {"acting", "running", "summarising", "calling", "progressing", "noting",
                     "recording", "replying"}
      /\ Stage = Carrying \cup {"done", "failed", "gone", "deciding"}
  BY <1>1 DEF Carrying, Stage, Ended
<1> QED
  BY <1>1, <1>2 DEF Progress, RowType

\* The action at hand, while one is carried out.
LEMMA ActionFacts ==
  ASSUME Basics, pc \in Carrying, pc # "acting" \/ pos <= Len(plan)
  PROVE  /\ pos \in DOMAIN plan /\ plan[pos] \in Action /\ pos \in Nat
         /\ plan[pos].call \in CallId \cup {NoCall} /\ plan[pos].data \in SUBSET Nat
         /\ plan[pos].kind = "call" => plan[pos].call \in CallId /\ plan[pos].call # NoCall
<1>1. plan \in Seq(Action) /\ pos \in 1 .. Len(plan)
  BY DEF Basics, Shapes, TypeOK, Control
<1>2. pos \in DOMAIN plan /\ plan[pos] \in Action /\ pos \in Nat
  BY <1>1
<1>3. plan[pos].call \in CallId \cup {NoCall} /\ plan[pos].data \in SUBSET Nat
  BY <1>2 DEF Action
<1>4. plan[pos].kind = "call" => plan[pos].call # NoCall
  BY <1>2 DEF Basics, Plans
<1> QED
  BY <1>2, <1>3, <1>4

\* The results of tools.
LEMMA ResultFacts ==
  ASSUME NEW t, t.final \in Nat
  PROVE  ResultOf(t) \in SUBSET Nat
BY DEF ResultOf

\* The row that is being appended.
LEMMA RowFacts ==
  ASSUME Basics, pc \in Appending
  PROVE  /\ RowNow \in Row /\ RowNow.type = RowType[pc]
         /\ pc = "recording" => RowNow.data = ResultOf(tool)
         /\ pc \in {"progressing", "noting"} => RowNow.data = {Len(tool.items)}
         /\ Append(file, RowNow) \in Seq(Row)
<1>1. pos \in Nat /\ plan[pos].data \in SUBSET Nat
  BY StageFacts, ActionFacts
<1>2. ResultOf(tool) \in SUBSET Nat /\ Len(tool.items) \in Nat
  BY ResultFacts DEF Basics, Shapes
<1>3. step \in 1 .. MaxSteps /\ file \in Seq(Row)
  BY DEF Basics, Shapes, TypeOK
<1>4. RowNow.data \in SUBSET Nat
  BY <1>1, <1>2 DEF RowNow
<1>5. RowNow.type = RowType[pc] /\ RowNow.step = step /\ RowNow.pos = pos
  BY DEF RowNow
<1>6. RowNow \in Row
  BY <1>1, <1>3, <1>4, <1>5 DEF RowNow, Row
<1>7. Append(file, RowNow) \in Seq(Row)
  BY <1>3, <1>6
<1> QED
  BY <1>5, <1>6, <1>7 DEF RowNow

\* An id is announced unless it was seen.
LEMMA StartedFacts ==
  ASSUME TypeOK, NEW id \in CallId, NEW Z \in Seq(Event)
  PROVE  Z \o Started(id) =
           IF id \in seen THEN Z ELSE Append(Z, Ev("tool_call_started", id, {}))
<1>1. Ev("tool_call_started", id, {}) \in Event
  BY EvFacts DEF EventType
<1> QED
  BY <1>1, ConcatAppend DEF Started

\* Between the parts of a turn there is nothing collected.
LEMMA NothingCollected ==
  ASSUME Basics, pc \notin ToolRunning \cup {"gone"}
  PROVE  buffer = <<>> /\ Story = out
BY StoryFacts DEF Basics, Shapes, Control

\* A chunk of text.
LEMMA TextChunkBasics ==
  ASSUME Basics, TextChunk
  PROVE  Basics'
<1> DEFINE e == Ev("assistant_text_delta", NoCall, {answer.text + 1})
<1>1. /\ pc = "deciding" /\ provider = "openai_compatible" /\ inputs < MaxInputs
      /\ inputs' = inputs + 1 /\ answer' = [answer EXCEPT !.text = @ + 1]
      /\ streamed' = TRUE /\ out' = Append(out, e)
      /\ UNCHANGED <<provider, pc, step, plan, pos, final, tool, buffer, file, faults, seen>>
  BY DEF TextChunk, Chunk
<1>2. /\ answer = [text |-> answer.text, order |-> answer.order, ids |-> answer.ids,
                   args |-> answer.args]
      /\ answer.text \in Nat /\ inputs \in Nat /\ answer.text <= inputs /\ TypeOK
  BY TurnStreamAssumption DEF Basics, Shapes, TypeOK
<1>3. /\ answer'.text = answer.text + 1 /\ answer'.order = answer.order
      /\ answer'.ids = answer.ids /\ answer'.args = answer.args
      /\ answer' = [text |-> answer'.text, order |-> answer'.order, ids |-> answer'.ids,
                    args |-> answer'.args]
  BY <1>1, <1>2
<1>4. e \in Event
  BY <1>2, EvFacts DEF EventType
<1> HIDE DEF e
<1>5. out' \in Seq(Event)
  BY <1>1, <1>2, <1>4 DEF TypeOK
<1>9. inputs' \in 0 .. MaxInputs /\ answer'.text \in 0 .. MaxInputs
  BY <1>1, <1>2, <1>3, TurnStreamAssumption
<1>6. TypeOK'
  BY <1>1, <1>2, <1>3, <1>5, <1>9 DEF TypeOK
<1>7. Shapes'
  BY <1>1, <1>2, <1>3, <1>6 DEF Basics, Shapes, OwnId, MadeUpId
<1>8. Plans' /\ Control' /\ Finals'
  BY <1>1, StageFacts DEF Basics, Plans, Control, Finals, ToolRunning, Busy, Ahead
<1> QED
  BY <1>7, <1>8 DEF Basics

\* The ids of calls tell their places, and none of them is the empty one.
LEMMA IdFacts ==
  ASSUME TypeOK, NEW x \in Nat \ {0}
  PROVE  /\ OwnId(x) \in CallId /\ OwnId(x).index = x /\ OwnId(x) # NoCall
         /\ MadeUpId(x) \in CallId /\ MadeUpId(x).index = x /\ MadeUpId(x) # NoCall
         /\ OwnId(x).step # 0 /\ MadeUpId(x).step = 0
<1>1. step \in 1 .. MaxSteps /\ MaxSteps \in Nat
  BY TurnStreamAssumption DEF TypeOK
<1>2. OwnId(x) \in CallId /\ OwnId(x).index = x /\ OwnId(x).step # 0
  BY <1>1 DEF OwnId, CallId
<1>3. MadeUpId(x) \in CallId /\ MadeUpId(x).index = x /\ MadeUpId(x).step = 0
  BY <1>1 DEF MadeUpId, CallId
<1>4. NoCall.index = 0
  BY DEF NoCall
<1> QED
  BY <1>2, <1>3, <1>4

\* The answer after a chunk about a call.
LEMMA ToolChunkAnswer ==
  ASSUME Basics, NEW i \in Indices, NEW function \in BOOLEAN, NEW piece \in BOOLEAN,
         NEW given \in {NoCall, OwnId(i)}, ToolChunk(i, given, function, piece)
  PROVE  LET id   == IdOf(i, given)
             args == IF i \in DOMAIN answer.args THEN answer.args[i] ELSE 0
             n    == IF function /\ piece THEN args + 1 ELSE args IN
         /\ args \in Nat /\ n \in {args, args + 1}
         /\ id \in {OwnId(i), MadeUpId(i)} /\ id \in CallId /\ id # NoCall
         /\ i \in DOMAIN answer.ids => id = answer.ids[i]
         /\ \A x \in DOMAIN answer.ids : x # i => answer.ids[x] # id
         /\ i \notin DOMAIN answer.ids => \A x \in DOMAIN answer.ids : answer.ids[x] # id
         /\ DOMAIN answer.args = DOMAIN answer.ids
         /\ answer'.text = answer.text
         /\ answer'.order = IF i \in DOMAIN answer.ids THEN answer.order
                                                       ELSE Append(answer.order, i)
         /\ DOMAIN answer'.ids = DOMAIN answer.ids \cup {i}
         /\ DOMAIN answer'.args = DOMAIN answer.ids \cup {i}
         /\ answer'.ids[i] = id /\ answer'.args[i] = n
         /\ \A x \in DOMAIN answer.ids : x # i =>
              answer'.ids[x] = answer.ids[x] /\ answer'.args[x] = answer.args[x]
         /\ answer' = [text |-> answer'.text, order |-> answer'.order, ids |-> answer'.ids,
                       args |-> answer'.args]
<1> DEFINE id   == IdOf(i, given)
           args == IF i \in DOMAIN answer.args THEN answer.args[i] ELSE 0
           n    == IF function /\ piece THEN args + 1 ELSE args
           ids2  == [k \in DOMAIN answer.ids \cup {i} |-> IF k = i THEN id ELSE answer.ids[k]]
           args2 == [k \in DOMAIN answer.args \cup {i} |-> IF k = i THEN n ELSE answer.args[k]]
           order2 == IF i \in DOMAIN answer.ids THEN answer.order ELSE Append(answer.order, i)
<1>1. /\ answer = [text |-> answer.text, order |-> answer.order, ids |-> answer.ids,
                   args |-> answer.args]
      /\ DOMAIN answer.args = DOMAIN answer.ids /\ step \in 1 .. MaxSteps
      /\ \A x \in DOMAIN answer.ids :
           /\ x \in Indices
           /\ answer.ids[x] \in {OwnId(x), MadeUpId(x)} /\ answer.args[x] \in Nat
  BY DEF Basics, Shapes, TypeOK
<1>2. /\ given \in MayGive(i)
      /\ answer' = [answer EXCEPT !.order = order2, !.ids = ids2, !.args = args2]
  BY DEF ToolChunk
<1>3. args \in Nat
  BY <1>1
<1>4. n \in {args, args + 1}
  OBVIOUS
<1>5. \A x \in Indices : /\ x \in Nat \ {0} /\ OwnId(x).index = x /\ MadeUpId(x).index = x
                         /\ OwnId(x).step = step /\ MadeUpId(x).step = 0
                         /\ OwnId(x) \in CallId /\ MadeUpId(x) \in CallId
  BY <1>1, TurnStreamAssumption DEF OwnId, MadeUpId, CallId
<1>6. \A x \in Indices : OwnId(x) # NoCall /\ MadeUpId(x) # NoCall
  <2>1. NoCall.index = 0
    BY DEF NoCall
  <2> QED
    BY <1>5, <2>1
<1>7. i \in DOMAIN answer.ids => id = answer.ids[i]
  <2> SUFFICES ASSUME i \in DOMAIN answer.ids PROVE id = answer.ids[i]
    OBVIOUS
  <2>1. CASE given = NoCall
    BY <2>1 DEF IdOf
  <2>2. CASE given # NoCall
    <3>1. given = OwnId(i) /\ id = given
      BY <2>2 DEF IdOf
    <3>2. answer.ids[i].step # 0
      BY <1>2, <2>2 DEF MayGive
    <3>3. answer.ids[i] = OwnId(i)
      BY <1>1, <1>5, <3>2
    <3> QED
      BY <3>1, <3>3
  <2> QED
    BY <2>1, <2>2
<1>8. id \in {OwnId(i), MadeUpId(i)}
  BY <1>1, <1>7 DEF IdOf
<1>9. id \in CallId /\ id # NoCall /\ id.index = i
  BY <1>5, <1>6, <1>8
<1>10. \A x \in DOMAIN answer.ids : x # i => answer.ids[x] # id
  BY <1>1, <1>5, <1>9
<1> HIDE DEF id, args, n
<1>11. /\ answer'.text = answer.text /\ answer'.order = order2
       /\ answer'.ids = ids2 /\ answer'.args = args2
  BY <1>1, <1>2
<1>12. answer' = [text |-> answer'.text, order |-> answer'.order, ids |-> answer'.ids,
                  args |-> answer'.args]
  BY <1>1, <1>2
<1>13. /\ DOMAIN answer'.ids = DOMAIN answer.ids \cup {i}
       /\ DOMAIN answer'.args = DOMAIN answer.ids \cup {i}
       /\ answer'.ids[i] = id /\ answer'.args[i] = n
       /\ \A x \in DOMAIN answer.ids : x # i =>
            answer'.ids[x] = answer.ids[x] /\ answer'.args[x] = answer.args[x]
  BY <1>1, <1>11
<1>14. i \notin DOMAIN answer.ids => \A x \in DOMAIN answer.ids : answer.ids[x] # id
  BY <1>10
<1> QED
  BY <1>1, <1>3, <1>4, <1>7, <1>8, <1>9, <1>10, <1>11, <1>12, <1>13, <1>14 DEF id, args, n

\* What a chunk about a call says, if it names a function.
LEMMA ToolChunkStory ==
  ASSUME Basics, NEW i \in Indices, NEW piece \in BOOLEAN,
         NEW given \in {NoCall, OwnId(i)}, ToolChunk(i, given, TRUE, piece)
  PROVE  LET id   == IdOf(i, given)
             args == IF i \in DOMAIN answer.args THEN answer.args[i] ELSE 0
             n    == IF piece THEN args + 1 ELSE args
             b    == Ev("tool_call_started", id, {})
             e    == Ev("tool_call_delta", id, args + 1 .. n)
             Y    == IF id \in seen THEN out ELSE Append(out, b) IN
         /\ b \in Event /\ e \in Event /\ Y \in Seq(Event)
         /\ out' = Append(Y, e) /\ out' \in Seq(Event)
<1> DEFINE id   == IdOf(i, given)
           args == IF i \in DOMAIN answer.args THEN answer.args[i] ELSE 0
           n    == IF piece THEN args + 1 ELSE args
           b    == Ev("tool_call_started", id, {})
           e    == Ev("tool_call_delta", id, args + 1 .. n)
           Y    == IF id \in seen THEN out ELSE Append(out, b)
<1>1. args \in Nat /\ n \in Nat /\ id \in CallId
  <2>1. TRUE \in BOOLEAN
    OBVIOUS
  <2>2. args \in Nat /\ id \in CallId
    BY <2>1, ToolChunkAnswer
  <2> QED
    BY <2>2
<1>2. out' = out \o Started(id) \o <<e>>
  BY DEF ToolChunk
<1>3. TypeOK /\ out \in Seq(Event)
  BY DEF Basics, Shapes, TypeOK
<1> HIDE DEF id, args, n
<1>4. b \in Event
  BY <1>1, <1>3, EvFacts DEF EventType
<1>5. args + 1 .. n \in SUBSET Nat
  BY <1>1
<1>6. e \in Event
  BY <1>1, <1>3, <1>5, EvFacts DEF EventType
<1> HIDE DEF b, e
<1>7. Y \in Seq(Event)
  BY <1>3, <1>4
<1>8. out \o Started(id) = Y
  BY <1>1, <1>3, StartedFacts DEF b
<1> HIDE DEF Y
<1>9. out' = Append(Y, e)
  BY <1>2, <1>6, <1>7, <1>8, ConcatAppend
<1>10. out' \in Seq(Event)
  BY <1>6, <1>7, <1>9
<1> QED
  BY <1>4, <1>6, <1>7, <1>9, <1>10 DEF Y, b, e, id, args, n

\* A chunk about a call.
LEMMA ToolChunkBasics ==
  ASSUME Basics, NEW i \in Indices, NEW function \in BOOLEAN, NEW piece \in BOOLEAN,
         NEW given \in {NoCall, OwnId(i)}, ToolChunk(i, given, function, piece)
  PROVE  Basics'
<1> DEFINE id   == IdOf(i, given)
           args == IF i \in DOMAIN answer.args THEN answer.args[i] ELSE 0
           n    == IF function /\ piece THEN args + 1 ELSE args
<1>1. /\ pc = "deciding" /\ provider = "openai_compatible" /\ inputs < MaxInputs
      /\ inputs' = inputs + 1
      /\ UNCHANGED <<provider, pc, step, plan, pos, final, tool, buffer, file, faults,
                     streamed>>
  BY DEF ToolChunk, Chunk
<1>2. /\ args \in Nat /\ n \in {args, args + 1}
      /\ id \in {OwnId(i), MadeUpId(i)} /\ id \in CallId
      /\ DOMAIN answer.args = DOMAIN answer.ids
      /\ answer'.text = answer.text
      /\ answer'.order = IF i \in DOMAIN answer.ids THEN answer.order
                                                    ELSE Append(answer.order, i)
      /\ DOMAIN answer'.ids = DOMAIN answer.ids \cup {i}
      /\ DOMAIN answer'.args = DOMAIN answer.ids \cup {i}
      /\ answer'.ids[i] = id /\ answer'.args[i] = n
      /\ \A x \in DOMAIN answer.ids : x # i =>
           answer'.ids[x] = answer.ids[x] /\ answer'.args[x] = answer.args[x]
      /\ answer' = [text |-> answer'.text, order |-> answer'.order, ids |-> answer'.ids,
                    args |-> answer'.args]
  BY ToolChunkAnswer
<1>3. seen' \in {seen, seen \cup {id}}
  BY DEF ToolChunk, Saw
<1> HIDE DEF id, args, n
<1>4. /\ answer.text \in Nat /\ inputs \in Nat /\ answer.text <= inputs /\ TypeOK
      /\ DOMAIN answer.ids = ToSet(answer.order) /\ answer.order \in Seq(Indices)
      /\ \A j, k \in DOMAIN answer.order : answer.order[j] = answer.order[k] => j = k
      /\ \A x \in DOMAIN answer.ids :
           /\ x \in Indices
           /\ answer.ids[x] \in {OwnId(x), MadeUpId(x)} /\ answer.args[x] \in Nat
  BY TurnStreamAssumption DEF Basics, Shapes, TypeOK
<1>5. /\ answer'.order \in Seq(Indices)
      /\ ToSet(answer'.order) = DOMAIN answer.ids \cup {i}
      /\ \A j, k \in DOMAIN answer'.order : answer'.order[j] = answer'.order[k] => j = k
  <2>1. CASE i \in DOMAIN answer.ids
    BY <1>2, <1>4, <2>1
  <2>2. CASE i \notin DOMAIN answer.ids
    <3> DEFINE q == answer.order
               r == answer'.order
    <3>1. /\ r = Append(q, i) /\ r \in Seq(Indices) /\ Len(q) \in Nat
          /\ DOMAIN q = 1 .. Len(q) /\ DOMAIN r = 1 .. Len(q) + 1
          /\ r[Len(q) + 1] = i /\ \A k \in 1 .. Len(q) : r[k] = q[k]
      BY <1>2, <1>4, <2>2, QueueAppend
    <3>2. \A k \in DOMAIN q : q[k] # i
      BY <1>4, <2>2 DEF ToSet
    <3>3. \A j, k \in DOMAIN q : q[j] = q[k] => j = k
      BY <1>4
    <3>4. ToSet(q) = DOMAIN answer.ids
      BY <1>4
    <3> HIDE DEF q, r
    <3>5. DOMAIN r = DOMAIN q \cup {Len(q) + 1}
      BY <3>1
    <3>6. ToSet(r) = ToSet(q) \cup {i}
      BY <3>1, <3>5 DEF ToSet
    <3>7. \A j, k \in DOMAIN r : r[j] = r[k] => j = k
      BY <3>1, <3>2, <3>3, <3>5
    <3> QED
      BY <3>1, <3>4, <3>6, <3>7 DEF r
  <2> QED
    BY <2>1, <2>2
<1>6. out' \in Seq(Event)
  <2>1. CASE function = TRUE
    BY <2>1, ToolChunkStory
  <2>2. CASE function = FALSE
    <3>1. out' = out
      BY <2>2 DEF ToolChunk
    <3> QED
      BY <1>4, <3>1 DEF TypeOK
  <2> QED
    BY <2>1, <2>2
<1>7. inputs' \in 0 .. MaxInputs /\ answer'.text \in 0 .. MaxInputs /\ seen' \subseteq CallId
  <2>1. inputs' \in 0 .. MaxInputs
    BY <1>1, <1>4, TurnStreamAssumption
  <2>2. answer'.text \in 0 .. MaxInputs
    BY <1>2, <1>4 DEF TypeOK
  <2>3. seen' \subseteq CallId
    BY <1>2, <1>3, <1>4 DEF TypeOK
  <2> QED
    BY <2>1, <2>2, <2>3
<1>8. TypeOK'
  BY <1>1, <1>2, <1>4, <1>5, <1>6, <1>7 DEF TypeOK
<1>9. \A x \in DOMAIN answer'.ids :
        /\ x \in Indices
        /\ answer'.ids[x] \in {OwnId(x), MadeUpId(x)} /\ answer'.args[x] \in Nat
  <2>1. n \in Nat
    BY <1>2
  <2> QED
    BY <1>2, <1>4, <2>1
<1>10. answer'.text <= inputs'
  BY <1>1, <1>2, <1>4
<1>12. tool \in [streams : BOOLEAN, items : Seq({"progress", "final"}), final : Nat,
                 error : BOOLEAN]
  BY DEF Basics, Shapes
<1>11. Shapes'
  <2>1. \A x : OwnId(x)' = OwnId(x) /\ MadeUpId(x)' = MadeUpId(x)
    BY <1>1 DEF OwnId, MadeUpId
  <2>2. \A x \in DOMAIN answer'.ids :
          /\ x \in Indices
          /\ answer'.ids[x] \in {OwnId(x)', MadeUpId(x)'} /\ answer'.args[x] \in Nat
    BY <1>9, <2>1
  <2>3. tool' = tool
    BY <1>1
  <2> QED
    BY <1>2, <1>5, <1>8, <1>10, <1>12, <2>2, <2>3 DEF Shapes
<1>13. Plans' /\ Control' /\ Finals'
  <2>1. Plans'
    BY <1>1 DEF Basics, Plans
  <2>2. Control'
    BY <1>1, StageFacts DEF Basics, Control, ToolRunning, Busy, Ahead
  <2>3. Finals'
    BY <1>1 DEF Basics, Finals, ToolRunning
  <2> QED
    BY <2>1, <2>2, <2>3
<1> QED
  BY <1>11, <1>13 DEF Basics

\* A decision: its plan is one whose actions can be told apart.
LEMMA DecidedBasics ==
  ASSUME Basics, pc = "deciding", NEW actions \in Seq(Action), Decided(actions),
         Plans'
  PROVE  Basics'
<1>1. /\ plan' = actions /\ pos' = 1 /\ final' = 0 /\ pc' = "acting" /\ answer' = Nothing
      /\ UNCHANGED <<provider, step, streamed, seen, tool, buffer, out, file, inputs, faults>>
  BY DEF Decided
<1>2. TypeOK /\ buffer = <<>> /\ MaxInputs \in Nat
  BY NothingCollected, TurnStreamAssumption DEF Basics, Shapes, ToolRunning
<1>3. /\ answer'.text = 0 /\ answer'.order = <<>> /\ answer'.ids = <<>> /\ answer'.args = <<>>
      /\ answer' = [text |-> answer'.text, order |-> answer'.order, ids |-> answer'.ids,
                    args |-> answer'.args]
  BY <1>1 DEF Nothing
<1>4. /\ ToSet(answer'.order) = {} /\ DOMAIN answer'.ids = {} /\ DOMAIN answer'.args = {}
      /\ answer'.order \in Seq(Indices) /\ DOMAIN answer'.order = {}
  BY <1>3 DEF ToSet
<1>5. inputs \in Nat /\ answer'.text \in 0 .. MaxInputs /\ answer'.text <= inputs
  BY <1>2, <1>3 DEF TypeOK
<1>6. TypeOK'
  BY <1>1, <1>2, <1>4, <1>5, StageFacts DEF TypeOK
<1>7. Shapes'
  <2>1. tool \in [streams : BOOLEAN, items : Seq({"progress", "final"}), final : Nat,
                  error : BOOLEAN]
    BY DEF Basics, Shapes
  <2> QED
    BY <1>1, <1>3, <1>4, <1>5, <1>6, <2>1 DEF Shapes
<1>8. Control'
  <2>1. Len(plan') \in Nat /\ pos' \in 1 .. Len(plan') + 1
    BY <1>1
  <2>2. provider' = "anthropic" => answer' = Nothing /\ ~streamed'
    BY <1>1 DEF Basics, Control
  <2> QED
    BY <1>1, <1>2, <2>1, <2>2 DEF Control, Busy, ToolRunning
<1>9. Finals'
  BY <1>1 DEF Basics, Finals, ToolRunning
<1> QED
  BY <1>7, <1>8, <1>9 DEF Basics

\* The plan that a stream ends with.
LEMMA StreamPlan ==
  ASSUME Basics, StreamEnds
  PROVE  /\ pc = "deciding" /\ provider = "openai_compatible"
         /\ \E actions \in Seq(Action) : Decided(actions)
         /\ \/ /\ plan' = <<Respond(1 .. answer.text)>>
            \/ /\ \A k \in DOMAIN plan' :
                    /\ k \in DOMAIN answer.order /\ answer.order[k] \in DOMAIN answer.ids
                    /\ plan'[k].kind = "call"
                    /\ plan'[k].call = answer.ids[answer.order[k]]
                    /\ plan'[k].data \in {{}, 1 .. answer.args[answer.order[k]]}
         /\ Plans'
<1>1. /\ answer.text \in Nat /\ answer.order \in Seq(Indices) /\ TypeOK
      /\ \A j, k \in DOMAIN answer.order : answer.order[j] = answer.order[k] => j = k
      /\ DOMAIN answer.ids = ToSet(answer.order)
      /\ \A x \in DOMAIN answer.ids :
           /\ x \in Indices
           /\ answer.ids[x] \in {OwnId(x), MadeUpId(x)} /\ answer.args[x] \in Nat
      /\ step \in 1 .. MaxSteps
  BY TurnStreamAssumption DEF Basics, Shapes, TypeOK
<1>2. \A x \in Indices : /\ x \in Nat \ {0} /\ OwnId(x).index = x /\ MadeUpId(x).index = x
                         /\ OwnId(x) \in CallId /\ MadeUpId(x) \in CallId
  BY <1>1, IdFacts, TurnStreamAssumption
<1>3. pc = "deciding" /\ provider = "openai_compatible"
  BY DEF StreamEnds
<1>4. CASE answer.order = <<>>
  <2> DEFINE a == Respond(1 .. answer.text)
  <2>1. a \in Action /\ a.kind = "respond"
    BY <1>1 DEF Respond, Action
  <2>2. Decided(<<a>>)
    BY <1>4 DEF StreamEnds
  <2> HIDE DEF a
  <2>3. <<a>> \in Seq(Action) /\ plan' = <<a>>
    BY <2>1, <2>2 DEF Decided
  <2>4. DOMAIN plan' = {1} /\ plan'[1].kind = "respond"
    BY <2>1, <2>3
  <2>5. Plans'
    BY <2>4 DEF Plans
  <2> QED
    BY <1>3, <2>2, <2>3, <2>5 DEF a
<1>5. CASE answer.order # <<>>
  <2>1. PICK parsed \in SUBSET ToSet(answer.order) :
            Decided([k \in DOMAIN answer.order |->
                       LET i == answer.order[k] IN
                       Call(answer.ids[i], IF i \in parsed THEN 1 .. answer.args[i] ELSE {})])
    BY <1>5 DEF StreamEnds
  <2> DEFINE p == [k \in DOMAIN answer.order |->
                       LET i == answer.order[k] IN
                       Call(answer.ids[i], IF i \in parsed THEN 1 .. answer.args[i] ELSE {})]
  <2>2. /\ Decided(p) /\ DOMAIN p = DOMAIN answer.order
        /\ \A k \in DOMAIN p :
             p[k] = Call(answer.ids[answer.order[k]],
                         IF answer.order[k] \in parsed THEN 1 .. answer.args[answer.order[k]]
                                                       ELSE {})
    BY <2>1
  <2>3. DOMAIN p = 1 .. Len(answer.order) /\ Len(answer.order) \in Nat
    BY <1>1, <2>2
  <2> HIDE DEF p
  <2>4. \A k \in DOMAIN p : answer.order[k] \in DOMAIN answer.ids /\ answer.order[k] \in Indices
    BY <1>1, <2>2 DEF ToSet
  <2>5. \A k \in DOMAIN p :
             /\ p[k].kind = "call" /\ p[k].call = answer.ids[answer.order[k]]
             /\ p[k].data \in {{}, 1 .. answer.args[answer.order[k]]}
    <3> SUFFICES ASSUME NEW k \in DOMAIN p
                 PROVE  /\ p[k].kind = "call" /\ p[k].call = answer.ids[answer.order[k]]
                        /\ p[k].data \in {{}, 1 .. answer.args[answer.order[k]]}
      OBVIOUS
    <3>1. PICK data \in {{}, 1 .. answer.args[answer.order[k]]} :
            p[k] = Call(answer.ids[answer.order[k]], data)
      BY <2>2
    <3> QED
      BY <3>1 DEF Call
  <2>6. \A k \in DOMAIN p : /\ p[k].call \in CallId /\ p[k].call.index = answer.order[k]
                            /\ answer.order[k] # 0 /\ answer.args[answer.order[k]] \in Nat
    BY <1>1, <1>2, <2>4, <2>5
  <2>7. \A k \in DOMAIN p : p[k] \in Action
    <3> SUFFICES ASSUME NEW k \in DOMAIN p PROVE p[k] \in Action
      OBVIOUS
    <3>1. p[k].data \in SUBSET Nat /\ p[k].call \in CallId
      BY <2>5, <2>6
    <3>2. p[k] = [kind |-> "call", call |-> p[k].call, data |-> p[k].data]
      <4>1. PICK data \in {{}, 1 .. answer.args[answer.order[k]]} :
              p[k] = Call(answer.ids[answer.order[k]], data)
        BY <2>2
      <4> QED
        BY <4>1 DEF Call
    <3> QED
      BY <3>1, <3>2 DEF Action
  <2>8. p \in Seq(Action)
    <3>1. p = [k \in 1 .. Len(answer.order) |-> p[k]]
      BY <2>3, <2>2 DEF p
    <3>2. p \in [1 .. Len(answer.order) -> Action]
      BY <2>3, <2>7, <3>1
    <3> QED
      BY <2>3, <3>2
  <2>9. plan' = p
    BY <2>2 DEF Decided
  <2>10. \A k, l \in DOMAIN p : k # l => p[k].call # p[l].call
    BY <1>1, <2>2, <2>6
  <2>11. \A k \in DOMAIN p : p[k].call # NoCall
    <3>1. NoCall.index = 0
      BY DEF NoCall
    <3> QED
      BY <2>6, <3>1
  <2>12. Plans'
    BY <2>5, <2>9, <2>10, <2>11 DEF Plans
  <2> QED
    BY <1>3, <2>2, <2>4, <2>5, <2>8, <2>9, <2>12
<1> QED
  BY <1>4, <1>5

\* The plan of an answer in one piece.
LEMMA WholePlan ==
  ASSUME Basics, WholeAnswer
  PROVE  /\ pc = "deciding" /\ provider = "anthropic"
         /\ \E actions \in Seq(Action) : Decided(actions)
         /\ Plans'
<1>1. TypeOK
  BY DEF Basics, Shapes
<1>2. pc = "deciding" /\ provider = "anthropic"
  BY DEF WholeAnswer
<1>3. PICK blocks \in Blocks :
         Decided([k \in DOMAIN blocks |-> IF blocks[k] = "text" THEN Respond({k})
                                                                ELSE Call(OwnId(k), {1})])
  BY DEF WholeAnswer
<1> DEFINE p == [k \in DOMAIN blocks |-> IF blocks[k] = "text" THEN Respond({k})
                                                                ELSE Call(OwnId(k), {1})]
<1>4. blocks \in Seq({"text", "tool_use"})
  BY TurnStreamAssumption
<1>5. /\ DOMAIN p = 1 .. Len(blocks) /\ Len(blocks) \in Nat /\ Decided(p)
      /\ \A k \in DOMAIN p : p[k] = IF blocks[k] = "text" THEN Respond({k})
                                                          ELSE Call(OwnId(k), {1})
      /\ p = [k \in 1 .. Len(blocks) |-> p[k]]
  BY <1>3, <1>4
<1> HIDE DEF p
<1>6. \A k \in DOMAIN p :
        \/ p[k].kind = "respond" /\ p[k].call = NoCall /\ p[k].data = {k} /\ p[k] = Respond({k})
        \/ /\ p[k].kind = "call" /\ p[k].call = OwnId(k) /\ p[k].data = {1}
           /\ p[k] = Call(OwnId(k), {1})
  BY <1>5 DEF Respond, Call
<1>7. \A k \in DOMAIN p : /\ k \in Nat /\ OwnId(k) \in CallId /\ OwnId(k).index = k
                          /\ k # 0 /\ OwnId(k) # NoCall
  <2>1. \A k \in DOMAIN p : k \in Nat \ {0}
    BY <1>5
  <2> QED
    BY <1>1, <2>1, IdFacts
<1>8. \A k \in DOMAIN p : p[k] \in Action
  <2> SUFFICES ASSUME NEW k \in DOMAIN p PROVE p[k] \in Action
    OBVIOUS
  <2>1. CASE p[k].kind = "respond"
    <3>1. p[k] = Respond({k}) /\ {k} \in SUBSET Nat
      BY <1>6, <1>7, <2>1
    <3> QED
      BY <3>1 DEF Respond, Action
  <2>2. CASE p[k].kind = "call"
    <3>1. p[k] = Call(OwnId(k), {1}) /\ OwnId(k) \in CallId
      BY <1>6, <1>7, <2>2
    <3> QED
      BY <3>1 DEF Call, Action
  <2> QED
    BY <1>6, <2>1, <2>2
<1>9. p \in Seq(Action)
  <2>1. p \in [1 .. Len(blocks) -> Action]
    BY <1>5, <1>8
  <2> QED
    BY <1>5, <2>1
<1>10. plan' = p
  BY <1>5 DEF Decided
<1>12. \A k \in DOMAIN p : p[k].kind = "call" => p[k].call # NoCall
  <2> SUFFICES ASSUME NEW k \in DOMAIN p, p[k].kind = "call" PROVE p[k].call # NoCall
    OBVIOUS
  <2>1. p[k].call = OwnId(k)
    BY <1>6
  <2> QED
    BY <1>7, <2>1
<1>13. \A k, l \in DOMAIN p : k # l /\ p[k].kind = p[l].kind =>
         /\ p[k].kind = "call" => p[k].call # p[l].call
         /\ p[k].kind = "respond" => p[k].data \cap p[l].data = {}
  <2> SUFFICES ASSUME NEW k \in DOMAIN p, NEW l \in DOMAIN p, k # l, p[k].kind = p[l].kind
               PROVE  /\ p[k].kind = "call" => p[k].call # p[l].call
                      /\ p[k].kind = "respond" => p[k].data \cap p[l].data = {}
    OBVIOUS
  <2>1. ASSUME p[k].kind = "call" PROVE p[k].call # p[l].call
    <3>1. p[k].call = OwnId(k) /\ p[l].call = OwnId(l)
      BY <1>6, <2>1
    <3>2. OwnId(k).index = k /\ OwnId(l).index = l
      BY <1>7
    <3> QED
      BY <3>1, <3>2
  <2>2. ASSUME p[k].kind = "respond" PROVE p[k].data \cap p[l].data = {}
    <3>1. p[k].data = {k} /\ p[l].data = {l}
      BY <1>6, <2>2
    <3> QED
      BY <3>1
  <2> QED
    BY <2>1, <2>2
<1>14. Plans'
  BY <1>10, <1>12, <1>13 DEF Plans
<1> QED
  BY <1>2, <1>5, <1>9, <1>14

\* What the actions of a decision send.
LEMMA ActStory ==
  ASSUME Basics
  PROVE  /\ CallFunction =>
              LET id == plan[pos].call
                  b  == Ev("tool_call_started", id, {})
                  e  == Ev("tool_call_finished", id, plan[pos].data)
                  Y  == IF id \in seen THEN out ELSE Append(out, b) IN
              /\ b \in Event /\ e \in Event /\ Y \in Seq(Event)
              /\ out' = Append(Y, e) /\ out' \in Seq(Event)
         /\ RespondAction =>
              LET e == Ev("assistant_text_delta", NoCall, plan[pos].data) IN
              /\ e \in Event /\ out' \in Seq(Event)
              /\ out' = IF ~streamed /\ plan[pos].data # {} THEN Append(out, e) ELSE out
<1>1. TypeOK /\ out \in Seq(Event)
  BY DEF Basics, Shapes, TypeOK
<1>2. ASSUME CallFunction
      PROVE  LET id == plan[pos].call
                 b  == Ev("tool_call_started", id, {})
                 e  == Ev("tool_call_finished", id, plan[pos].data)
                 Y  == IF id \in seen THEN out ELSE Append(out, b) IN
             /\ b \in Event /\ e \in Event /\ Y \in Seq(Event)
             /\ out' = Append(Y, e) /\ out' \in Seq(Event)
  <2> DEFINE id == plan[pos].call
             b  == Ev("tool_call_started", id, {})
             e  == Ev("tool_call_finished", id, plan[pos].data)
             Y  == IF id \in seen THEN out ELSE Append(out, b)
  <2>1. id \in CallId /\ plan[pos].data \in SUBSET Nat
    BY <1>2, ActionFacts, StageFacts DEF CallFunction, Acts
  <2>2. out' = out \o Started(id) \o <<e>>
    BY <1>2 DEF CallFunction
  <2>3. b \in Event /\ e \in Event
    BY <1>1, <2>1, EvFacts DEF EventType
  <2> HIDE DEF b, e, id
  <2>4. Y \in Seq(Event)
    BY <1>1, <2>3
  <2>5. out \o Started(id) = Y
    BY <1>1, <2>1, StartedFacts DEF b
  <2> HIDE DEF Y
  <2>6. out' = Append(Y, e) /\ out' \in Seq(Event)
    BY <2>2, <2>3, <2>4, <2>5, ConcatAppend
  <2> QED
    BY <2>3, <2>4, <2>6 DEF Y, b, e, id
<1>3. ASSUME RespondAction
      PROVE  LET e == Ev("assistant_text_delta", NoCall, plan[pos].data) IN
             /\ e \in Event /\ out' \in Seq(Event)
             /\ out' = IF ~streamed /\ plan[pos].data # {} THEN Append(out, e) ELSE out
  <2> DEFINE e == Ev("assistant_text_delta", NoCall, plan[pos].data)
  <2>1. plan[pos].data \in SUBSET Nat
    BY <1>3, ActionFacts, StageFacts DEF RespondAction, Acts
  <2>2. e \in Event
    BY <1>1, <2>1, EvFacts DEF EventType
  <2>3. out' = out \o (IF ~streamed /\ plan[pos].data # {} THEN <<e>> ELSE <<>>)
    BY <1>3 DEF RespondAction, ReplyDelta
  <2> HIDE DEF e
  <2>4. out \o <<e>> = Append(out, e) /\ out \o <<>> = out
    BY <1>1, <2>2, ConcatAppend
  <2>5. out' = IF ~streamed /\ plan[pos].data # {} THEN Append(out, e) ELSE out
    BY <2>3, <2>4
  <2>6. out' \in Seq(Event)
    BY <1>1, <2>2, <2>5
  <2> QED
    BY <2>2, <2>5, <2>6 DEF e
<1> QED
  BY <1>2, <1>3

\* An action of a decision begins.
LEMMA ActBasics ==
  ASSUME Basics, CallFunction \/ RespondAction
  PROVE  Basics'
<1>1. /\ pc = "acting" /\ pos \in Nat /\ pos <= Len(plan) /\ pos \in DOMAIN plan
      /\ UNCHANGED <<provider, step, answer, streamed, seen, plan, pos, tool, buffer, file,
                     inputs, faults>>
  BY ActionFacts, StageFacts DEF CallFunction, RespondAction, Acts
<1>2. out' \in Seq(Event)
  BY ActStory
<1>3. \/ plan[pos].kind = "call" /\ pc' = "calling" /\ final' = final
      \/ plan[pos].kind = "respond" /\ pc' = "replying" /\ final' = pos
  BY DEF CallFunction, RespondAction, Acts
<1>4. final \in 0 .. pos /\ TypeOK
  BY DEF Basics, Shapes, TypeOK
<1>5. final' \in 0 .. pos
  BY <1>1, <1>3, <1>4
<1>6. pc' \in Stage
  BY <1>3, StageFacts
<1>7. TypeOK'
  BY <1>1, <1>2, <1>4, <1>5, <1>6 DEF TypeOK
<1>8. Shapes'
  BY <1>1, <1>7 DEF Basics, Shapes, OwnId, MadeUpId
<1>9. Plans' /\ Finals'
  BY <1>1, <1>3 DEF Basics, Plans, Finals, ToolRunning
<1>10. Control'
  <2>1. buffer = <<>>
    BY <1>1, NothingCollected DEF ToolRunning
  <2>2. /\ pos \in 1 .. Len(plan) + 1 /\ answer = Nothing
        /\ provider = "anthropic" => answer = Nothing /\ ~streamed
    BY <1>1, StageFacts DEF Basics, Control
  <2>3. ASSUME final' # 0
        PROVE  /\ final' \in DOMAIN plan /\ plan[final'].kind = "respond"
               /\ ~(final' > pos)
    <3>1. CASE final' = pos /\ plan[pos].kind = "respond"
      BY <1>1, <3>1
    <3>2. CASE final' = final /\ plan[pos].kind = "call"
      <4>1. final \in DOMAIN plan /\ plan[final].kind = "respond" /\ ~Ahead(final)
        BY <1>1, <2>3, <3>2, StageFacts DEF Basics, Control
      <4> QED
        BY <3>2, <4>1 DEF Ahead
    <3> QED
      BY <1>3, <3>1, <3>2
  <2> QED
    BY <1>1, <1>3, <2>1, <2>2, <2>3 DEF Control, Busy, ToolRunning, Ahead
<1> QED
  BY <1>8, <1>9, <1>10 DEF Basics

ToolType == [streams : BOOLEAN, items : Seq({"progress", "final"}), final : Nat, error : BOOLEAN]

\* A tool that may have ended: its last final item is known, and without one it has failed.
Ended1(t) ==
  /\ t \in ToolType /\ t.final <= Len(t.items) /\ t.final <= MaxInputs + 1
  /\ t.final # 0 => t.items[t.final] = "final"
  /\ \A l \in DOMAIN t.items : l > t.final => t.items[l] # "final"
  /\ t.error \/ t.final # 0

\* A tool is answered: what it did is told with its result.
LEMMA AnsweredStory ==
  ASSUME Basics, pc \in ToolRunning, NEW t, t.final \in Nat, Answered(t)
  PROVE  LET e == Ev("tool_result", plan[pos].call, ResultOf(t)) IN
         /\ e \in Event /\ e.ev = "tool_result" /\ e.call = plan[pos].call /\ e.step = step
         /\ e.data = ResultOf(t)
         /\ out' = Append(Story, e) /\ out' \in Seq(Event) /\ Story' = out'
         /\ buffer' = <<>> /\ tool' = t /\ pc' = "recording"
         /\ out' # <<>> /\ Last(out') = e
<1> DEFINE e == Ev("tool_result", plan[pos].call, ResultOf(t))
<1>1. plan[pos].call \in CallId \cup {NoCall} /\ ResultOf(t) \in SUBSET Nat
  BY ActionFacts, ResultFacts, StageFacts DEF ToolRunning
<1>2. /\ e \in Event /\ e.ev = "tool_result" /\ e.call = plan[pos].call /\ e.step = step
      /\ e.data = ResultOf(t)
  BY <1>1, EvFacts DEF EventType, Basics, Shapes
<1>3. /\ out' = out \o buffer \o <<e>> /\ buffer' = <<>> /\ tool' = t /\ pc' = "recording"
  BY DEF Answered, Collected
<1> HIDE DEF e
<1>4. Story \in Seq(Event)
  BY StoryFacts DEF Basics, Shapes
<1>5. out' = Append(Story, e)
  BY <1>2, <1>3, <1>4, ConcatAppend DEF Story
<1>6. /\ out' \in Seq(Event) /\ Len(out') = Len(Story) + 1 /\ Len(Story) \in Nat
      /\ out'[Len(Story) + 1] = e
  BY <1>2, <1>4, <1>5, QueueAppend
<1>7. Story' = out'
  <2>1. Story' = out' \o <<>>
    BY <1>3 DEF Story
  <2> QED
    BY <1>6, <2>1, ConcatEmptySeq
<1>8. out' # <<>> /\ Last(out') = e
  BY <1>6 DEF Last
<1> QED
  BY <1>2, <1>3, <1>5, <1>6, <1>7, <1>8 DEF e

\* The types after that.
LEMMA AnsweredBasics ==
  ASSUME Basics, pc \in ToolRunning, NEW t, Ended1(t), Answered(t), file' \in Seq(Row),
         faults' \in 0 .. MaxFaults, inputs' = inputs,
         UNCHANGED <<provider, step, answer, streamed, seen, plan, pos, final>>
  PROVE  Basics'
<1>1. t.final \in Nat /\ t \in ToolType
  BY DEF Ended1, ToolType
<1>2. /\ out' \in Seq(Event) /\ out' # <<>> /\ Last(out').data = ResultOf(t)
      /\ buffer' = <<>> /\ tool' = t /\ pc' = "recording"
  BY <1>1, AnsweredStory
<1>3. t.items \in Seq({"progress", "final"}) /\ t.final \in 0 .. MaxInputs + 1
  BY <1>1, TurnStreamAssumption DEF Ended1, ToolType
<1>4. TypeOK'
  BY <1>2, <1>3, StageFacts DEF Basics, Shapes, TypeOK
<1>5. Shapes'
  BY <1>1, <1>2, <1>4 DEF Basics, Shapes, OwnId, MadeUpId, ToolType
<1>6. Plans'
  BY DEF Basics, Plans
<1>7. Finals'
  BY <1>2 DEF Finals, Ended1, ToolRunning, ResultOf
<1>8. Control'
  <2>1. pc \in Carrying /\ pc # "acting" /\ pc \in Busy
    BY StageFacts DEF ToolRunning, Busy
  <2>2. /\ pos \in 1 .. Len(plan) + 1 /\ pos <= Len(plan) /\ plan[pos].kind = "call"
        /\ answer = Nothing /\ (provider = "anthropic" => answer = Nothing /\ ~streamed)
        /\ final # 0 => /\ final \in DOMAIN plan /\ plan[final].kind = "respond"
                        /\ ~(final > pos)
    BY <2>1 DEF Basics, Control, Ahead
  <2> QED
    BY <1>2, <2>2 DEF Control, Ahead, Busy, ToolRunning
<1> QED
  BY <1>5, <1>6, <1>7, <1>8 DEF Basics

\* A tool that failed has ended.
LEMMA FailedEnded ==
  ASSUME Basics, pc \in ToolRunning
  PROVE  /\ Ended1([tool EXCEPT !.error = TRUE])
         /\ tool.final # 0 => Ended1(tool)
         /\ ~tool.streams /\ pc = "running" =>
              Ended1([tool EXCEPT !.items = <<"final">>, !.final = FinalItem(tool)])
<1>1. /\ tool \in ToolType /\ tool.final <= Len(tool.items)
      /\ tool.final # 0 => tool.items[tool.final] = "final"
      /\ \A l \in DOMAIN tool.items : l > tool.final => tool.items[l] # "final"
      /\ tool.final \in 0 .. MaxInputs + 1 /\ MaxInputs \in Nat
      /\ ~tool.streams => tool.items = <<>>
  BY TurnStreamAssumption DEF Basics, Shapes, Finals, TypeOK, ToolType
<1>2. tool.final <= MaxInputs + 1
  BY <1>1
<1>3. Ended1([tool EXCEPT !.error = TRUE])
  <2> DEFINE t == [tool EXCEPT !.error = TRUE]
  <2>1. /\ t \in ToolType /\ t.final = tool.final /\ t.items = tool.items /\ t.error
    BY <1>1 DEF ToolType
  <2> HIDE DEF t
  <2>2. Ended1(t)
    BY <1>1, <1>2, <2>1 DEF Ended1
  <2> QED
    BY <2>2 DEF t
<1>4. tool.final # 0 => Ended1(tool)
  BY <1>1, <1>2 DEF Ended1
<1>5. ASSUME ~tool.streams
      PROVE  Ended1([tool EXCEPT !.items = <<"final">>, !.final = FinalItem(tool)])
  <2> DEFINE t == [tool EXCEPT !.items = <<"final">>, !.final = FinalItem(tool)]
  <2>1. tool.items = <<>> /\ FinalItem(tool) = 1
    BY <1>1, <1>5 DEF FinalItem
  <2>5. /\ t.streams = tool.streams /\ t.error = tool.error
        /\ t.final = FinalItem(tool) /\ t.items = <<"final">>
    BY <1>1 DEF ToolType
  <2>6. <<"final">> \in Seq({"progress", "final"}) /\ FinalItem(tool) \in Nat
    BY <2>1
  <2>7. t \in ToolType
    BY <1>1, <2>6 DEF ToolType
  <2> HIDE DEF t
  <2>2. t.final = 1 /\ t.items = <<"final">>
    BY <2>1, <2>5
  <2>3. Len(t.items) = 1 /\ DOMAIN t.items = {1} /\ t.items[1] = "final"
    BY <2>2
  <2>4. Ended1(t)
    BY <1>1, <2>2, <2>3, <2>7 DEF Ended1
  <2> QED
    BY <2>4 DEF t
<1> QED
  BY <1>3, <1>4, <1>5

\* What is collected when an append returns.
LEMMA AppendedStory ==
  ASSUME Basics, Appended
  PROVE  LET e == Ev(Progress[pc], plan[pos].call, {Len(tool.items)}) IN
         /\ pc \in DOMAIN Progress =>
              /\ e \in Event /\ e.ev = Progress[pc] /\ e.call = plan[pos].call /\ e.step = step
              /\ e.data = {Len(tool.items)}
              /\ buffer' = Append(buffer, e) /\ buffer' \in Seq(Event)
              /\ Story' = Append(Story, e)
         /\ pc \notin DOMAIN Progress => buffer' = buffer /\ Story' = Story
         /\ out' = out
<1> DEFINE e == Ev(Progress[pc], plan[pos].call, {Len(tool.items)})
<1>1. /\ Story \in Seq(Event) /\ out \in Seq(Event) /\ buffer \in Seq(Event) /\ TypeOK
  BY StoryFacts DEF Basics, Shapes
<1>2. out' = out /\ pc \in Appending
  BY DEF Appended
<1>3. ASSUME pc \in DOMAIN Progress
      PROVE  /\ e \in Event /\ e.ev = Progress[pc] /\ e.call = plan[pos].call /\ e.step = step
             /\ e.data = {Len(tool.items)}
             /\ buffer' = Append(buffer, e) /\ buffer' \in Seq(Event)
             /\ Story' = Append(Story, e)
  <2>1. buffer' = Append(buffer, e)
    BY <1>3, StageFacts DEF Appended
  <2>2. plan[pos].call \in CallId \cup {NoCall} /\ {Len(tool.items)} \in SUBSET Nat
    <3>1. pc \in Carrying /\ pc # "acting"
      BY <1>3, StageFacts
    <3>2. Len(tool.items) \in Nat
      BY DEF Basics, Shapes
    <3> QED
      BY <3>1, <3>2, ActionFacts
  <2>3. Progress[pc] \in EventType
    BY <1>3, StageFacts DEF EventType
  <2>4. /\ e \in Event /\ e.ev = Progress[pc] /\ e.call = plan[pos].call /\ e.step = step
        /\ e.data = {Len(tool.items)}
    <3> DEFINE type == Progress[pc]
               call == plan[pos].call
               data == {Len(tool.items)}
    <3>1. type \in EventType /\ call \in CallId \cup {NoCall} /\ data \in SUBSET Nat
      BY <2>2, <2>3
    <3> HIDE DEF type, call, data
    <3>2. /\ Ev(type, call, data) \in Event
          /\ Ev(type, call, data).ev = type /\ Ev(type, call, data).step = step
          /\ Ev(type, call, data).call = call /\ Ev(type, call, data).data = data
      <4>1. step \in 1 .. MaxSteps
        BY <1>1 DEF TypeOK
      <4> QED
        BY <3>1, <4>1 DEF Ev, Event
    <3> QED
      BY <3>2 DEF type, call, data
  <2> HIDE DEF e
  <2>5. buffer' \in Seq(Event) /\ out \o Append(buffer, e) = Append(out \o buffer, e)
    BY <1>1, <2>1, <2>4, ConcatAppend, QueueAppend
  <2>6. Story' = Append(Story, e)
    BY <1>2, <2>1, <2>5 DEF Story
  <2> QED
    BY <2>1, <2>4, <2>5, <2>6
<1>4. ASSUME pc \notin DOMAIN Progress PROVE buffer' = buffer /\ Story' = Story
  BY <1>2, <1>4, StageFacts DEF Appended, Story
<1> QED
  BY <1>2, <1>3, <1>4

\* Where the actions stand, when a step keeps the decision.
Standing ==
  /\ pos \in 1 .. Len(plan) + 1 /\ answer = Nothing
  /\ provider = "anthropic" => answer = Nothing /\ ~streamed
  /\ final # 0 => /\ final \in DOMAIN plan /\ plan[final].kind = "respond" /\ final <= pos
  /\ pc # "acting" => /\ pos <= Len(plan)
                      /\ pc \in Busy \cup {"recording"} => plan[pos].kind = "call"
                      /\ pc = "replying" => plan[pos].kind = "respond"
  /\ pc = "acting" => final < pos
  /\ final \in Nat /\ pos \in Nat

\* It says what Control does.
LEMMA Stands ==
  ASSUME Basics, pc \in Carrying
  PROVE  Standing
<1>1. final \in 0 .. pos /\ pos \in 1 .. Len(plan) + 1 /\ plan \in Seq(Action)
  BY DEF Basics, Shapes, TypeOK, Control
<1>2. /\ answer = Nothing /\ (provider = "anthropic" => answer = Nothing /\ ~streamed)
      /\ final # 0 => final \in DOMAIN plan /\ plan[final].kind = "respond" /\ ~Ahead(final)
      /\ pc # "acting" => /\ pos <= Len(plan)
                          /\ pc \in Busy \cup {"recording"} => plan[pos].kind = "call"
                          /\ pc = "replying" => plan[pos].kind = "respond"
  BY DEF Basics, Control
<1>3. final # 0 /\ pc = "acting" => final < pos
  BY <1>1, <1>2 DEF Ahead
<1>4. final = 0 => final < pos
  BY <1>1
<1> QED
  BY <1>1, <1>2, <1>3, <1>4 DEF Standing

\* A record of a tool that is about to run.
LEMMA NoToolFacts ==
  ASSUME NEW b \in BOOLEAN
  PROVE  LET t == [NoTool EXCEPT !.streams = b] IN
         /\ t \in ToolType /\ NoTool \in ToolType
         /\ t.items = <<>> /\ t.final = 0 /\ ~t.error
         /\ NoTool.items = <<>> /\ NoTool.final = 0
<1>1. <<>> \in Seq({"progress", "final"})
  OBVIOUS
<1>2. NoTool \in ToolType /\ NoTool.items = <<>> /\ NoTool.final = 0 /\ ~NoTool.error
  BY <1>1 DEF NoTool, ToolType
<1> DEFINE t == [NoTool EXCEPT !.streams = b]
<1>3. t \in ToolType /\ t.items = <<>> /\ t.final = 0 /\ ~t.error
  BY <1>2 DEF ToolType
<1> QED
  BY <1>2, <1>3

\* An append returns.
LEMMA AppendedBasics ==
  ASSUME Basics, Appended
  PROVE  Basics'
<1>1. /\ pc \in Appending /\ file' = Append(file, RowNow)
      /\ UNCHANGED <<provider, step, answer, streamed, seen, plan, final, out, inputs, faults>>
  BY DEF Appended
<1>2. Standing /\ pc # "acting" /\ pc \in Carrying /\ plan \in Seq(Action)
  BY <1>1, Stands, StageFacts DEF Basics, Shapes, TypeOK
<1>3. file' \in Seq(Row)
  BY <1>1, RowFacts
<1>4. buffer' \in Seq(Event)
  <2>1. buffer \in Seq(Event)
    BY DEF Basics, Shapes, TypeOK
  <2> QED
    BY <2>1, AppendedStory
<1>5. \/ /\ pc = "calling" /\ pc' = "running" /\ pos' = pos /\ buffer' = buffer
         /\ \E b \in BOOLEAN : tool' = [NoTool EXCEPT !.streams = b]
      \/ /\ pc \in {"progressing", "noting"} /\ pc' \in {"summarising", "running"}
         /\ tool' = tool /\ pos' = pos
      \/ /\ pc \in {"recording", "replying"} /\ pc' = "acting" /\ pos' = pos + 1
         /\ tool' = NoTool /\ buffer' = buffer
  BY StageFacts DEF Appended
<1>6. /\ tool' \in ToolType /\ tool'.items \in Seq({"progress", "final"})
      /\ tool'.final \in 0 .. MaxInputs + 1
  <2>1. tool \in ToolType /\ tool.final \in 0 .. MaxInputs + 1 /\ MaxInputs \in Nat
    BY TurnStreamAssumption DEF Basics, Shapes, TypeOK, ToolType
  <2>2. tool' = tool \/ tool' = NoTool \/ \E b \in BOOLEAN : tool' = [NoTool EXCEPT !.streams = b]
    BY <1>5
  <2>3. /\ tool' \in ToolType
        /\ tool'.final \in 0 .. MaxInputs + 1
    <3>1. CASE tool' = tool
      BY <2>1, <3>1
    <3>2. CASE tool' = NoTool
      <4>1. NoTool \in ToolType /\ NoTool.final = 0
        BY NoToolFacts
      <4> QED
        BY <2>1, <3>2, <4>1
    <3>3. ASSUME NEW b \in BOOLEAN, tool' = [NoTool EXCEPT !.streams = b]
          PROVE  tool' \in ToolType /\ tool'.final = 0
      BY <3>3, NoToolFacts
    <3> QED
      BY <2>1, <2>2, <3>1, <3>2, <3>3
  <2> QED
    BY <2>3 DEF ToolType
<1>7. pc' \in Stage /\ pos' \in Nat /\ final' \in 0 .. pos'
  <2>1. pos \in Nat /\ final \in 0 .. pos
    BY DEF Basics, Shapes, TypeOK
  <2> QED
    BY <1>1, <1>5, <2>1, StageFacts
<1>8. TypeOK'
  BY <1>1, <1>3, <1>4, <1>6, <1>7 DEF Basics, Shapes, TypeOK
<1>9. Shapes'
  BY <1>1, <1>6, <1>8 DEF Basics, Shapes, OwnId, MadeUpId, ToolType
<1>10. Plans'
  BY <1>1 DEF Basics, Plans
<1>11. Finals'
  <2>1. CASE tool' = tool /\ pc \in {"progressing", "noting"}
    BY <1>1, <1>5, <2>1 DEF Basics, Finals, ToolRunning
  <2>2. CASE pc' # "recording" /\ tool'.items = <<>> /\ tool'.final = 0 /\ ~tool'.error
    <3>1. inputs \in Nat
      BY DEF Basics, Shapes, TypeOK
    <3> QED
      BY <1>1, <2>2, <3>1 DEF Finals
  <2>3. ~NoTool.error
    BY DEF NoTool
  <2> QED
    BY <1>5, <2>1, <2>2, <2>3, NoToolFacts
<1>12. Control'
  <2>1. /\ \A i \in DOMAIN buffer' :
             buffer'[i].ev \in {"tool_progress", "tool_progress_summary"}
        /\ buffer' # <<>> => pc' \in ToolRunning \cup {"gone"}
    <3>0. /\ \A i \in DOMAIN buffer :
               buffer[i].ev \in {"tool_progress", "tool_progress_summary"}
          /\ buffer \in Seq(Event)
      BY DEF Basics, Control, Shapes, TypeOK
    <3>1. CASE pc \in {"progressing", "noting"}
      <4> DEFINE e == Ev(Progress[pc], plan[pos].call, {Len(tool.items)})
      <4>1. e \in Event /\ e.ev = Progress[pc] /\ buffer' = Append(buffer, e)
        BY <3>1, StageFacts, AppendedStory
      <4>2. e.ev \in {"tool_progress", "tool_progress_summary"}
        BY <3>1, <4>1, StageFacts
      <4> HIDE DEF e
      <4>3. /\ DOMAIN buffer' = 1 .. Len(buffer) + 1 /\ buffer'[Len(buffer) + 1] = e
            /\ \A k \in 1 .. Len(buffer) : buffer'[k] = buffer[k]
        BY <3>0, <4>1, QueueAppend
      <4>4. \A i \in DOMAIN buffer' : i \in 1 .. Len(buffer) \/ i = Len(buffer) + 1
        BY <3>0, <4>3
      <4>5. \A i \in DOMAIN buffer' :
              buffer'[i].ev \in {"tool_progress", "tool_progress_summary"}
        BY <3>0, <4>2, <4>3, <4>4
      <4> QED
        BY <1>5, <3>1, <4>5 DEF ToolRunning
    <3>2. CASE pc \notin {"progressing", "noting"}
      <4>1. buffer' = buffer /\ buffer = <<>>
        BY <1>1, <1>5, <3>2, NothingCollected, StageFacts DEF ToolRunning
      <4> QED
        BY <4>1
    <3> QED
      BY <3>1, <3>2
  <2>2. /\ pos' \in 1 .. Len(plan) + 1 /\ (pc' # "acting" => pos' <= Len(plan))
        /\ pc' \in Busy \cup {"recording"} => plan[pos'].kind = "call"
        /\ pc' # "replying" /\ pc' # "deciding"
    BY <1>2, <1>5 DEF Standing, Busy, ToolRunning
  <2>3. final # 0 => /\ final \in DOMAIN plan /\ plan[final].kind = "respond"
                     /\ final <= pos' /\ (pc' = "acting" => final < pos')
    BY <1>2, <1>5 DEF Standing
  <2>4. final # 0 => ~Ahead(final)'
    BY <1>1, <2>3, <1>2, <1>7 DEF Ahead, Standing
  <2> QED
    BY <1>1, <1>2, <2>1, <2>2, <2>3, <2>4 DEF Control, Standing
<1> QED
  BY <1>9, <1>10, <1>11, <1>12 DEF Basics

-----------------------------------------------------------------------------
(* The steps, by what they do to the story. *)

\* A tool's result is told: nothing else happens, or an append about its progress raises.
ToldResult(t) ==
  /\ pc \in ToolRunning /\ Ended1(t) /\ Answered(t)
  /\ UNCHANGED <<provider, step, answer, streamed, seen, plan, pos, final, inputs>>
  /\ \/ UNCHANGED <<file, faults>>
     \/ /\ pc \in {"progressing", "noting"} /\ faults < MaxFaults /\ faults' = faults + 1
        /\ file' \in {file, Append(file, RowNow)}

\* The turn breaks off.
BreaksOff ==
  /\ pc \notin Ended /\ pc' \in {"failed", "gone"}
  /\ UNCHANGED <<provider, step, answer, streamed, seen, plan, pos, final, tool, buffer,
                 out, inputs>>
  /\ file' = file \/ (pc \in Appending /\ file' = Append(file, RowNow))
  /\ faults' = faults \/ (faults < MaxFaults /\ faults' = faults + 1)
  /\ pc' = "failed" => buffer = <<>> /\ (faults' = faults => file' = file)

\* A tool runs on.
RunsOn ==
  /\ pc \in {"running", "summarising"} /\ pc' \in ToolRunning
  /\ UNCHANGED <<provider, step, answer, streamed, seen, plan, pos, final, buffer, out,
                 file, faults>>
  /\ \/ UNCHANGED <<tool, inputs>>
     \/ ToolYields

\* A tool that ends, or whose progress cannot be told, tells a result.
LEMMA ResultSteps ==
  ASSUME Basics,
         \/ AppendRaises /\ pc \in DOMAIN Progress
         \/ ToolReturns \/ ToolRaises \/ ToolEnds
         \/ Summarised /\ Failed(tool)
  PROVE  \E t : ToldResult(t)
<1>1. CASE AppendRaises /\ pc \in DOMAIN Progress
  <2>1. pc \in {"progressing", "noting"} /\ pc \in ToolRunning
    BY <1>1, StageFacts DEF ToolRunning
  <2>2. Ended1([tool EXCEPT !.error = TRUE])
    BY <2>1, FailedEnded
  <2>3. ToldResult([tool EXCEPT !.error = TRUE])
    BY <1>1, <2>1, <2>2 DEF ToldResult, AppendRaises, Failed
  <2> QED
    BY <2>3
<1>2. CASE ToolReturns
  <2> DEFINE t == [tool EXCEPT !.items = <<"final">>, !.final = FinalItem(tool)]
  <2>1. pc \in ToolRunning /\ Ended1(t)
    BY <1>2, FailedEnded DEF ToolReturns, ToolRuns, ToolRunning
  <2>2. Answered(t)
    BY <1>2 DEF ToolReturns
  <2> HIDE DEF t
  <2>3. ToldResult(t)
    BY <1>2, <2>1, <2>2 DEF ToldResult, ToolReturns, ToolRuns
  <2> QED
    BY <2>3
<1>3. CASE ToolRaises
  <2> DEFINE t == [tool EXCEPT !.error = TRUE]
  <2>1. pc \in ToolRunning /\ Ended1(t)
    BY <1>3, FailedEnded DEF ToolRaises, ToolRuns, ToolRunning
  <2>2. Answered(t)
    BY <1>3 DEF ToolRaises, Failed
  <2> HIDE DEF t
  <2>3. ToldResult(t)
    BY <1>3, <2>1, <2>2 DEF ToldResult, ToolRaises, ToolRuns
  <2> QED
    BY <2>3
<1>4. CASE ToolEnds
  <2>1. PICK t \in {tool, [tool EXCEPT !.error = TRUE]} :
          Answered(t) /\ (t = tool => tool.final # 0 \/ tool = [tool EXCEPT !.error = TRUE])
    BY <1>4 DEF ToolEnds, Failed
  <2>2. pc \in ToolRunning
    BY <1>4 DEF ToolEnds, ToolRuns, ToolRunning
  <2>4. Ended1([tool EXCEPT !.error = TRUE]) /\ (tool.final # 0 => Ended1(tool))
    BY <2>2, FailedEnded
  <2>5. Ended1(t)
    BY <2>1, <2>4
  <2>3. ToldResult(t)
    BY <1>4, <2>1, <2>2, <2>5 DEF ToldResult, ToolEnds, ToolRuns
  <2> QED
    BY <2>3
<1>5. CASE Summarised /\ Failed(tool)
  <2>1. pc \in ToolRunning
    BY <1>5 DEF Summarised, ToolRunning
  <2>2. Ended1([tool EXCEPT !.error = TRUE])
    BY <2>1, FailedEnded
  <2>3. ToldResult([tool EXCEPT !.error = TRUE])
    BY <1>5, <2>1, <2>2 DEF ToldResult, Summarised, Failed
  <2> QED
    BY <2>3
<1> QED
  BY <1>1, <1>2, <1>3, <1>4, <1>5

\* Every step is one of these.
LEMMA Steps ==
  ASSUME Basics, Next
  PROVE  \/ TextChunk
         \/ \E i \in Indices, function, piece \in BOOLEAN :
              \E given \in {NoCall, OwnId(i)} : ToolChunk(i, given, function, piece)
         \/ StreamEnds \/ WholeAnswer \/ CallFunction \/ RespondAction \/ Appended \/ EndStep
         \/ \E t : ToldResult(t)
         \/ RunsOn \/ BreaksOff
<1>1. faults \in Nat /\ faults + 1 # faults
  BY DEF Basics, Shapes, TypeOK
<1>2. CASE EngineRaises
  <2>1. buffer = <<>>
    BY <1>2, NothingCollected DEF EngineRaises, ToolRunning
  <2>2. BreaksOff
    BY <1>2, <2>1 DEF EngineRaises, BreaksOff, Ended
  <2> QED
    BY <2>2
<1>3. CASE Cancel
  <2>1. file' = file \/ (pc \in Appending /\ file' = Append(file, RowNow))
    BY <1>3 DEF Cancel
  <2>2. BreaksOff
    BY <1>3, <2>1 DEF Cancel, BreaksOff
  <2> QED
    BY <2>2
<1>4. CASE AppendRaises
  <2>1. CASE pc \in DOMAIN Progress
    BY <1>4, <2>1, ResultSteps
  <2>2. CASE pc \notin DOMAIN Progress
    <3>1. pc \in Appending /\ pc \notin ToolRunning /\ pc # "gone" /\ pc \notin Ended
      BY <1>4, <2>2, StageFacts DEF AppendRaises, ToolRunning, Ended
    <3>2. buffer = <<>>
      BY <3>1, NothingCollected
    <3>3. BreaksOff
      BY <1>1, <1>4, <2>2, <3>1, <3>2 DEF AppendRaises, BreaksOff
    <3> QED
      BY <3>3
  <2> QED
    BY <2>1, <2>2
<1>5. CASE ToolYields
  <2>1. RunsOn
    BY <1>5 DEF ToolYields, RunsOn, ToolRuns, ToolRunning
  <2> QED
    BY <2>1
<1>6. CASE Summarised
  <2>1. CASE Failed(tool)
    BY <1>6, <2>1, ResultSteps
  <2>2. CASE ~Failed(tool)
    <3>1. RunsOn
      BY <1>6, <2>2 DEF Summarised, RunsOn, ToolRunning
    <3> QED
      BY <3>1
  <2> QED
    BY <2>1, <2>2
<1>7. CASE ToolReturns \/ ToolRaises \/ ToolEnds
  BY <1>7, ResultSteps
<1> QED
  BY <1>2, <1>3, <1>4, <1>5, <1>6, <1>7 DEF Next

\* A turn that breaks off.
LEMMA BreaksOffBasics ==
  ASSUME Basics, BreaksOff
  PROVE  Basics'
<1>1. /\ pc' \in {"failed", "gone"} /\ (buffer # <<>> => pc' = "gone")
      /\ UNCHANGED <<provider, step, answer, streamed, seen, plan, pos, final, tool, buffer,
                     out, inputs>>
  BY DEF BreaksOff
<1>2. file' \in Seq(Row)
  <2>1. file \in Seq(Row)
    BY DEF Basics, Shapes, TypeOK
  <2>2. file' = file \/ (pc \in Appending /\ file' = Append(file, RowNow))
    BY DEF BreaksOff
  <2> QED
    BY <2>1, <2>2, RowFacts
<1>3. faults' \in 0 .. MaxFaults
  <2>1. faults \in 0 .. MaxFaults /\ MaxFaults \in Nat
    BY TurnStreamAssumption DEF Basics, Shapes, TypeOK
  <2> QED
    BY <2>1 DEF BreaksOff
<1>4. TypeOK'
  BY <1>1, <1>2, <1>3, StageFacts DEF Basics, Shapes, TypeOK
<1>5. Shapes'
  BY <1>1, <1>4 DEF Basics, Shapes, OwnId, MadeUpId
<1>6. Plans' /\ Control' /\ Finals'
  BY <1>1, StageFacts DEF Basics, Plans, Control, Finals, Busy, ToolRunning
<1> QED
  BY <1>5, <1>6 DEF Basics

\* A tool that runs on.
LEMMA RunsOnBasics ==
  ASSUME Basics, RunsOn
  PROVE  Basics'
<1>1. /\ pc \in {"running", "summarising"} /\ pc' \in ToolRunning
      /\ UNCHANGED <<provider, step, answer, streamed, seen, plan, pos, final, buffer, out,
                     file, faults>>
  BY DEF RunsOn
<1>2. /\ tool \in ToolType /\ tool.final <= Len(tool.items) /\ Len(tool.items) \in Nat
      /\ tool.final # 0 => tool.items[tool.final] = "final"
      /\ \A l \in DOMAIN tool.items : l > tool.final => tool.items[l] # "final"
      /\ tool.final \in 0 .. MaxInputs + 1 /\ MaxInputs \in Nat /\ inputs \in 0 .. MaxInputs
      /\ Len(tool.items) <= inputs /\ ~tool.error /\ answer.text <= inputs
      /\ ~tool.streams => tool.items = <<>>
      /\ tool.items \in Seq({"progress", "final"}) /\ tool.final \in Nat
      /\ DOMAIN tool.items = 1 .. Len(tool.items)
  BY <1>1, TurnStreamAssumption DEF Basics, Shapes, Finals, TypeOK, ToolType, ToolRunning
<1>3. /\ tool' \in ToolType /\ inputs' \in 0 .. MaxInputs /\ inputs' >= inputs
      /\ tool'.final \in 0 .. MaxInputs + 1 /\ tool'.final <= Len(tool'.items)
      /\ tool'.final # 0 => tool'.items[tool'.final] = "final"
      /\ \A l \in DOMAIN tool'.items : l > tool'.final => tool'.items[l] # "final"
      /\ Len(tool'.items) <= inputs' /\ ~tool'.error
      /\ ~tool'.streams => tool'.items = <<>>
  <2>1. CASE UNCHANGED <<tool, inputs>>
    BY <1>2, <2>1
  <2>2. ASSUME ToolYields, NEW item \in {"progress", "final"},
               NEW n \in {tool.final, Len(tool.items) + 1},
               n # tool.final <=> item = "final",
               tool' = [tool EXCEPT !.items = Append(@, item), !.final = n]
        PROVE  /\ tool' \in ToolType /\ inputs' \in 0 .. MaxInputs /\ inputs' >= inputs
               /\ tool'.final \in 0 .. MaxInputs + 1 /\ tool'.final <= Len(tool'.items)
               /\ tool'.final # 0 => tool'.items[tool'.final] = "final"
               /\ \A l \in DOMAIN tool'.items : l > tool'.final => tool'.items[l] # "final"
               /\ Len(tool'.items) <= inputs' /\ ~tool'.error
               /\ ~tool'.streams => tool'.items = <<>>
    <3>1. /\ tool.streams /\ inputs < MaxInputs /\ inputs' = inputs + 1
      BY <2>2 DEF ToolYields
    <3>2. /\ tool'.items = Append(tool.items, item) /\ tool'.final = n
          /\ tool'.streams = tool.streams /\ tool'.error = tool.error
      BY <1>2, <2>2 DEF ToolType
    <3>3. /\ Append(tool.items, item) \in Seq({"progress", "final"})
          /\ Len(Append(tool.items, item)) = Len(tool.items) + 1
          /\ DOMAIN Append(tool.items, item) = 1 .. Len(tool.items) + 1
          /\ \A k \in 1 .. Len(tool.items) : Append(tool.items, item)[k] = tool.items[k]
          /\ Append(tool.items, item)[Len(tool.items) + 1] = item
      BY <1>2, QueueAppend
    <3>4. n \in Nat /\ n <= MaxInputs + 1 /\ n <= Len(tool.items) + 1
      BY <1>2, <3>1
    <3>5. tool' \in ToolType
      BY <1>2, <2>2, <3>3, <3>4 DEF ToolType
    <3>6. n # 0 => Append(tool.items, item)[n] = "final"
      BY <1>2, <2>2, <3>3
    <3>7. ASSUME NEW l \in 1 .. Len(tool.items) + 1, l > n
          PROVE  Append(tool.items, item)[l] # "final"
      <4>1. CASE l \in 1 .. Len(tool.items)
        <5>1. n = tool.final
          BY <1>2, <3>7, <4>1
        <5> QED
          BY <1>2, <3>3, <3>7, <4>1, <5>1
      <4>2. CASE l = Len(tool.items) + 1
        <5>1. n = tool.final /\ item # "final"
          BY <1>2, <2>2, <3>7, <4>2
        <5> QED
          BY <3>3, <4>2, <5>1
      <4> QED
        BY <1>2, <4>1, <4>2
    <3> QED
      BY <1>2, <3>1, <3>2, <3>3, <3>4, <3>5, <3>6, <3>7
  <2>3. CASE ToolYields
    <3>1. CASE tool' = [tool EXCEPT !.items = Append(@, "progress")]
      <4>1. tool' = [tool EXCEPT !.items = Append(@, "progress"), !.final = tool.final]
        BY <1>2, <3>1 DEF ToolType
      <4> QED
        BY <2>2, <2>3, <4>1
    <3>2. CASE tool' = [tool EXCEPT !.items = Append(@, "final"), !.final = FinalItem(tool)]
      <4>1. FinalItem(tool) = Len(tool.items) + 1 /\ FinalItem(tool) # tool.final
        BY <1>2 DEF FinalItem
      <4> QED
        BY <2>2, <2>3, <3>2, <4>1
    <3> QED
      BY <2>3, <3>1, <3>2 DEF ToolYields
  <2> QED
    BY <2>1, <2>3 DEF RunsOn
<1>4. pc' \in Stage
  BY <1>1, StageFacts DEF ToolRunning
<1>5. TypeOK'
  <2>1. tool'.items \in Seq({"progress", "final"})
    BY <1>3 DEF ToolType
  <2> QED
    BY <1>1, <1>3, <1>4, <2>1 DEF Basics, Shapes, TypeOK
<1>6. Shapes'
  <2>1. answer'.text <= inputs'
    <3>1. answer.text \in Nat
      BY <1>2 DEF Basics, Shapes, TypeOK
    <3> QED
      BY <1>1, <1>2, <1>3, <3>1
  <2> QED
    BY <1>1, <1>3, <1>5, <2>1 DEF Basics, Shapes, OwnId, MadeUpId, ToolType
<1>7. Plans'
  BY <1>1 DEF Basics, Plans
<1>8. Finals'
  BY <1>1, <1>3 DEF Finals, ToolRunning
<1>9. Control'
  <2>1. pc \in Carrying /\ pc # "acting" /\ pc \in Busy
    BY <1>1, StageFacts DEF Busy, ToolRunning
  <2>2. /\ pc' \in Carrying /\ pc' # "acting" /\ pc' \in Busy
        /\ pc' # "replying" /\ pc' # "deciding"
    BY <1>1, StageFacts DEF Busy, ToolRunning
  <2>3. Standing /\ \A i \in DOMAIN buffer :
                       buffer[i].ev \in {"tool_progress", "tool_progress_summary"}
    BY <2>1, Stands DEF Basics, Control
  <2>4. final # 0 => ~Ahead(final)'
    BY <1>1, <2>2, <2>3 DEF Ahead, Standing
  <2> QED
    BY <1>1, <2>1, <2>2, <2>3, <2>4 DEF Control, Standing
<1> QED
  BY <1>6, <1>7, <1>8, <1>9 DEF Basics

\* A result is told.
LEMMA ToldResultBasics ==
  ASSUME Basics, NEW t, ToldResult(t)
  PROVE  Basics'
<1>1. /\ pc \in ToolRunning /\ Ended1(t) /\ Answered(t) /\ inputs' = inputs
      /\ UNCHANGED <<provider, step, answer, streamed, seen, plan, pos, final>>
  BY DEF ToldResult
<1>2. /\ faults \in 0 .. MaxFaults /\ MaxFaults \in Nat /\ file \in Seq(Row)
  BY TurnStreamAssumption DEF Basics, Shapes, TypeOK
<1>3. faults' \in 0 .. MaxFaults /\ file' \in Seq(Row)
  <2>1. CASE UNCHANGED <<file, faults>>
    BY <1>2, <2>1
  <2>2. CASE /\ pc \in {"progressing", "noting"} /\ faults < MaxFaults /\ faults' = faults + 1
             /\ file' \in {file, Append(file, RowNow)}
    <3>1. Append(file, RowNow) \in Seq(Row)
      BY <2>2, RowFacts, StageFacts
    <3> QED
      BY <1>2, <2>2, <3>1
  <2> QED
    BY <2>1, <2>2 DEF ToldResult
<1> QED
  BY <1>1, <1>3, AnsweredBasics

\* What the end of a turn sends.
LEMMA EndStory ==
  ASSUME Basics, EndStep
  PROVE  LET e == Ev("assistant_text_done", NoCall, plan[final].data)
             f == Ev("turn_done", NoCall, {}) IN
         /\ Story = out /\ buffer = <<>> /\ pc = "acting" /\ pos > Len(plan) /\ Standing
         /\ UNCHANGED <<provider, answer, streamed, seen, final, tool, buffer, file, inputs,
                        faults>>
         /\ \/ /\ final # 0 /\ pc' = "done" /\ UNCHANGED <<step, plan, pos>>
               /\ e \in Event /\ f \in Event
               /\ Append(out, e) \in Seq(Event) /\ out' = Append(Append(out, e), f)
               /\ out' \in Seq(Event) /\ Story' = out'
               /\ e.ev = "assistant_text_done" /\ e.call = NoCall /\ e.step = step
               /\ e.data = plan[final].data
               /\ f.ev = "turn_done" /\ f.call = NoCall /\ f.step = step
            \/ /\ final = 0 /\ pc' = "done" /\ UNCHANGED <<step, plan, pos>>
               /\ out' = out /\ Story' = Story
            \/ /\ final = 0 /\ pc' = "deciding" /\ step' = step + 1 /\ step # MaxSteps
               /\ plan' = <<>> /\ pos' = 0 /\ out' = out /\ Story' = Story
<1> DEFINE e == Ev("assistant_text_done", NoCall, plan[final].data)
           f == Ev("turn_done", NoCall, {})
<1>1. /\ pc = "acting" /\ pos > Len(plan) /\ Standing /\ TypeOK
      /\ UNCHANGED <<provider, answer, streamed, seen, final, tool, buffer, file, inputs,
                     faults>>
  BY Stands, StageFacts DEF EndStep, Basics, Shapes
<1>2. Story = out /\ buffer = <<>> /\ out \in Seq(Event)
  BY <1>1, NothingCollected, StoryFacts DEF ToolRunning
<1>3. out' = out => Story' = Story
  BY <1>1 DEF Story
<1>4. ASSUME final # 0, out' = out \o <<e, f>>
      PROVE  /\ e \in Event /\ f \in Event
             /\ Append(out, e) \in Seq(Event) /\ out' = Append(Append(out, e), f)
             /\ out' \in Seq(Event) /\ Story' = out'
             /\ e.ev = "assistant_text_done" /\ e.call = NoCall /\ e.step = step
             /\ e.data = plan[final].data
             /\ f.ev = "turn_done" /\ f.call = NoCall /\ f.step = step
  <2>1. plan[final].data \in SUBSET Nat
    <3>1. final \in DOMAIN plan /\ plan \in Seq(Action)
      BY <1>1, <1>4 DEF Standing, TypeOK
    <3>2. plan[final] \in Action
      BY <3>1
    <3> QED
      BY <3>2 DEF Action
  <2>2. /\ e \in Event /\ f \in Event
        /\ e.ev = "assistant_text_done" /\ e.call = NoCall /\ e.step = step
        /\ e.data = plan[final].data
        /\ f.ev = "turn_done" /\ f.call = NoCall /\ f.step = step
    BY <1>1, <2>1, EvFacts DEF EventType
  <2>3. out' = out \o <<e, f>>
    BY <1>4
  <2> HIDE DEF e, f
  <2>4. <<e, f>> = Append(<<e>>, f) /\ <<e>> \in Seq(Event)
    BY <2>2
  <2>5. out' = Append(Append(out, e), f)
    BY <1>2, <2>2, <2>3, <2>4, ConcatAppend
  <2>6. Append(out, e) \in Seq(Event) /\ out' \in Seq(Event)
    BY <1>2, <2>2, <2>5, QueueAppend
  <2>7. Story' = out'
    <3>1. Story' = out' \o <<>>
      BY <1>1, <1>2 DEF Story
    <3> QED
      BY <2>6, <3>1, ConcatEmptySeq
  <2> QED
    BY <2>2, <2>5, <2>6, <2>7
<1> QED
  BY <1>1, <1>2, <1>3, <1>4 DEF EndStep, LastStep

\* The end of a step.
LEMMA EndStepBasics ==
  ASSUME Basics, EndStep
  PROVE  Basics'
<1>1. /\ pc = "acting" /\ pos > Len(plan) /\ Standing /\ buffer = <<>>
      /\ UNCHANGED <<provider, answer, streamed, seen, final, tool, buffer, file, inputs,
                     faults>>
  BY EndStory
<1>2. \/ pc' = "done" /\ UNCHANGED <<step, plan, pos>>
      \/ /\ final = 0 /\ pc' = "deciding" /\ step' = step + 1 /\ step # MaxSteps
         /\ plan' = <<>> /\ pos' = 0
  BY EndStory
<1>3. out' \in Seq(Event)
  BY EndStory DEF Basics, Shapes, TypeOK
<1>4. step' \in 1 .. MaxSteps
  <2>1. step \in 1 .. MaxSteps /\ MaxSteps \in Nat
    BY TurnStreamAssumption DEF Basics, Shapes, TypeOK
  <2> QED
    BY <1>2, <2>1
<1>5. pc' \in Stage /\ pos' \in Nat /\ final' \in 0 .. pos' /\ plan' \in Seq(Action)
  <2>1. pos \in Nat /\ final \in 0 .. pos /\ plan \in Seq(Action)
    BY DEF Basics, Shapes, TypeOK
  <2>2. <<>> \in Seq(Action)
    OBVIOUS
  <2>3. pc' \in Stage /\ pos' \in Nat /\ final' \in 0 .. pos'
    BY <1>1, <1>2, <2>1, StageFacts
  <2> QED
    BY <1>2, <2>1, <2>2, <2>3
<1>6. TypeOK'
  BY <1>1, <1>3, <1>4, <1>5 DEF Basics, Shapes, TypeOK
<1>7. Shapes'
  <2>1. answer' = Nothing
    BY <1>1 DEF Standing
  <2>2. DOMAIN answer'.ids = {}
    BY <2>1 DEF Nothing
  <2> QED
    BY <1>1, <1>6, <2>2 DEF Basics, Shapes
<1>8. Plans'
  <2>1. CASE plan' = plan
    BY <2>1 DEF Basics, Plans
  <2>2. CASE plan' = <<>>
    BY <2>2 DEF Plans
  <2> QED
    BY <1>2, <2>1, <2>2
<1>9. Finals'
  BY <1>1, <1>2 DEF Basics, Finals, ToolRunning
<1>10. Control'
  BY <1>1, <1>2, StageFacts DEF Basics, Control, Standing, Busy, ToolRunning
<1> QED
  BY <1>7, <1>8, <1>9, <1>10 DEF Basics

\* A new turn.
LEMMA InitBasics ==
  ASSUME Init
  PROVE  Basics
<1>1. /\ pc = "deciding" /\ step = 1 /\ answer = Nothing /\ streamed = FALSE /\ seen = {}
      /\ plan = <<>> /\ pos = 0 /\ final = 0 /\ tool = NoTool /\ buffer = <<>>
      /\ out = <<>> /\ file = <<>> /\ inputs = 0 /\ faults = 0
      /\ provider \in {"openai_compatible", "anthropic"}
  BY DEF Init
<1>2. /\ answer.text = 0 /\ answer.order = <<>> /\ answer.ids = <<>> /\ answer.args = <<>>
      /\ answer = [text |-> answer.text, order |-> answer.order, ids |-> answer.ids,
                   args |-> answer.args]
      /\ ToSet(<<>>) = {}
  BY <1>1 DEF Nothing, ToSet
<1>3. /\ tool \in ToolType /\ tool.items = <<>> /\ tool.final = 0
      /\ tool.items \in Seq({"progress", "final"})
  <2>1. NoTool \in ToolType /\ NoTool.items = <<>> /\ NoTool.final = 0
    BY NoToolFacts
  <2> QED
    BY <1>1, <2>1
<1>4. TypeOK
  <2>1. 1 \in 1 .. MaxSteps /\ MaxInputs \in Nat /\ MaxFaults \in Nat
    BY TurnStreamAssumption
  <2>2. DOMAIN answer.ids = ToSet(answer.order) /\ DOMAIN answer.args = ToSet(answer.order)
    BY <1>2
  <2>3. pc \in Stage
    BY <1>1, StageFacts
  <2>4. /\ answer.order \in Seq(Indices) /\ plan \in Seq(Action)
        /\ buffer \in Seq(Event) /\ out \in Seq(Event) /\ file \in Seq(Row)
    BY <1>1, <1>2
  <2>5. /\ answer.text \in 0 .. MaxInputs /\ inputs \in 0 .. MaxInputs
        /\ faults \in 0 .. MaxFaults /\ tool.final \in 0 .. MaxInputs + 1
    BY <1>1, <1>2, <1>3, <2>1
  <2>6. step \in 1 .. MaxSteps /\ pos \in Nat /\ final \in 0 .. pos
    BY <1>1, <2>1
  <2>7. seen \subseteq CallId /\ streamed \in BOOLEAN
    BY <1>1
  <2> QED
    BY <1>1, <1>3, <2>2, <2>3, <2>4, <2>5, <2>6, <2>7 DEF TypeOK
<1>5. Shapes
  BY <1>1, <1>2, <1>3, <1>4 DEF Shapes, ToolType
<1>6. Plans /\ Control
  BY <1>1, StageFacts DEF Plans, Control, Busy, ToolRunning
<1>7. Finals
  BY <1>1, <1>3 DEF Finals, ToolRunning
<1> QED
  BY <1>5, <1>6, <1>7 DEF Basics

\* Every step keeps the types and the control.
LEMMA StepBasics ==
  ASSUME Basics, [Next]_vars
  PROVE  Basics'
<1>1. CASE UNCHANGED vars
  <2>1. UNCHANGED <<provider, pc, step, answer, streamed, seen, plan, pos, final, tool,
                    buffer, out, file, inputs, faults>>
    BY <1>1 DEF vars
  <2>2. TypeOK'
    BY <2>1 DEF Basics, Shapes, TypeOK
  <2>3. Shapes'
    BY <2>1, <2>2 DEF Basics, Shapes, OwnId, MadeUpId
  <2>4. Plans' /\ Control' /\ Finals'
    BY <2>1 DEF Basics, Plans, Control, Finals, Ahead, ResultOf
  <2> QED
    BY <2>3, <2>4 DEF Basics
<1>2. CASE Next
  <2>1. ASSUME \E actions \in Seq(Action) : Decided(actions), Plans', pc = "deciding"
        PROVE  Basics'
    BY <2>1, DecidedBasics
  <2>2. StreamEnds \/ WholeAnswer => Basics'
    BY <2>1, StreamPlan, WholePlan
  <2>3. (\E i \in Indices, function, piece \in BOOLEAN :
           \E given \in {NoCall, OwnId(i)} : ToolChunk(i, given, function, piece)) => Basics'
    BY ToolChunkBasics
  <2>4. (\E t : ToldResult(t)) => Basics'
    BY ToldResultBasics
  <2> QED
    BY <1>2, <2>2, <2>3, <2>4, Steps, TextChunkBasics, ActBasics, AppendedBasics,
       EndStepBasics, RunsOnBasics, BreaksOffBasics
<1> QED
  BY <1>1, <1>2

-----------------------------------------------------------------------------
(* The events. *)

\* The entries of a story to which one is added.
LEMMA Entries ==
  ASSUME NEW S, NEW Z \in Seq(S), NEW e \in S
  PROVE  /\ \A k \in DOMAIN Append(Z, e) :
              \/ k \in DOMAIN Z /\ Append(Z, e)[k] = Z[k]
              \/ k = Len(Z) + 1 /\ Append(Z, e)[k] = e
         /\ \A k \in DOMAIN Z : k \in DOMAIN Append(Z, e) /\ Append(Z, e)[k] = Z[k]
         /\ Len(Z) + 1 \in DOMAIN Append(Z, e) /\ Append(Z, e)[Len(Z) + 1] = e
         /\ Append(Z, e) \in Seq(S)
<1>1. /\ Append(Z, e) \in Seq(S) /\ DOMAIN Append(Z, e) = 1 .. Len(Z) + 1
      /\ \A k \in 1 .. Len(Z) : Append(Z, e)[k] = Z[k]
      /\ Append(Z, e)[Len(Z) + 1] = e
      /\ DOMAIN Z = 1 .. Len(Z) /\ Len(Z) \in Nat
  BY QueueAppend
<1>2. \A k \in 1 .. Len(Z) + 1 : k \in 1 .. Len(Z) \/ k = Len(Z) + 1
  BY <1>1
<1>3. Len(Z) + 1 \in 1 .. Len(Z) + 1 /\ \A k \in 1 .. Len(Z) : k \in 1 .. Len(Z) + 1
  BY <1>1
<1> QED
  BY <1>1, <1>2, <1>3

\* No arguments were streamed of a call that was not spoken of.
LEMMA Unsaid ==
  ASSUME NEW Z, NEW id, NEW s, \A j \in DOMAIN Z : Z[j].step = s => Z[j].call # id
  PROVE  Pieces(Z, id, s) = {} /\ Sum(Z, id, s) = {}
<1>1. Pieces(Z, id, s) = {}
  BY DEF Pieces
<1> QED
  BY <1>1 DEF Sum

\* Before the end of a turn its reply is not complete.
LEMMA NoReplyYet ==
  ASSUME TypeOK, Events, pc # "done"
  PROVE  ReplyWasStreamed
<1>1. \A i \in DOMAIN Story : Story[i].ev # "assistant_text_done"
  BY DEF Events
<1>2. \A i \in DOMAIN out : i \in DOMAIN Story /\ Story[i] = out[i]
  <2>1. /\ Len(Story) = Len(out) + Len(buffer) /\ Len(out) \in Nat /\ Len(buffer) \in Nat
        /\ \A i \in 1 .. Len(out) : Story[i] = out[i]
        /\ out \in Seq(Event) /\ Story \in Seq(Event)
    BY StoryFacts
  <2>2. DOMAIN out = 1 .. Len(out) /\ DOMAIN Story = 1 .. Len(Story)
    BY <2>1
  <2> QED
    BY <2>1, <2>2
<1> QED
  BY <1>1, <1>2 DEF ReplyWasStreamed

\* An event that is said, so that the story stays one to follow.
LEMMA SayMore ==
  ASSUME TypeOK, Events, NEW e \in Event, Next1(Story, step, e), pc # "done",
         e.ev # "assistant_text_done", Story' = Append(Story, e), step' = step,
         NEW id, seen' \in {seen, seen \cup {id}},
         seen' # seen => Announced(Append(Story, e), id)
  PROVE  Events'
<1>1. Story \in Seq(Event) /\ step \in Nat
  BY StoryFacts
<1>2. Followable(Story, step) /\ \A x \in seen : Announced(Story, x)
  BY DEF Events
<1>3. Followable(Append(Story, e), step)
  BY <1>1, <1>2, FollowableMore
<1>4. \A x \in seen' : Announced(Append(Story, e), x)
  BY <1>1, <1>2, MoreAnnounced
<1>5. \A i \in DOMAIN Story : Story[i].ev # "assistant_text_done"
  BY DEF Events
<1>6. \A i \in DOMAIN Append(Story, e) : Append(Story, e)[i].ev # "assistant_text_done"
  BY <1>1, <1>5, Entries
<1> HIDE DEF Followable, Announced
<1>7. /\ Followable(Story', step') /\ \A x \in seen' : Announced(Story', x)
      /\ \A i \in DOMAIN Story' : Story'[i].ev # "assistant_text_done"
  BY <1>3, <1>4, <1>6
<1> QED
  BY <1>7 DEF Events, Followable, Followed, AddsUp, Pieces, Sum, Announced, Follows

\* A chunk of text.
LEMMA TextChunkStory ==
  ASSUME Basics, Events, Answering, TextChunk
  PROVE  Events' /\ Answering' /\ Doing'
<1> DEFINE e == Ev("assistant_text_delta", NoCall, {answer.text + 1})
<1>1. /\ pc = "deciding" /\ answer' = [answer EXCEPT !.text = @ + 1]
      /\ streamed' = TRUE /\ out' = Append(out, e)
      /\ UNCHANGED <<provider, pc, step, plan, pos, final, tool, buffer, file, faults, seen>>
  BY DEF TextChunk, Chunk
<1>2. /\ answer = [text |-> answer.text, order |-> answer.order, ids |-> answer.ids,
                   args |-> answer.args]
      /\ answer.text \in Nat /\ TypeOK
  BY TurnStreamAssumption DEF Basics, Shapes, TypeOK
<1>3. /\ answer'.text = answer.text + 1
      /\ answer'.ids = answer.ids /\ answer'.args = answer.args
  BY <1>1, <1>2
<1>4. buffer = <<>> /\ Story = out /\ Story \in Seq(Event)
  BY <1>1, <1>2, NothingCollected, StoryFacts DEF ToolRunning
<1>5. /\ e \in Event /\ e.ev = "assistant_text_delta" /\ e.step = step /\ e.call = NoCall
      /\ e.data = {answer.text + 1}
  BY <1>2, EvFacts DEF EventType
<1> HIDE DEF e
<1>6. Story' = Append(Story, e)
  <2>1. Story' = Append(out, e) \o <<>> /\ Append(out, e) \in Seq(Event)
    BY <1>1, <1>4, <1>5, QueueAppend DEF Story
  <2> QED
    BY <1>4, <2>1, ConcatEmptySeq
<1>7. Events'
  <2>1. Next1(Story, step, e)
    BY <1>5 DEF Next1
  <2>2. seen' = seen /\ pc # "done" /\ step' = step
    BY <1>1
  <2> QED
    BY <1>2, <1>5, <1>6, <2>1, <2>2, SayMore
<1> DEFINE Y == Append(Story, e)
           m == answer.text
<1>8. /\ \A i \in DOMAIN Story : Story[i].step = step =>
           \/ /\ Story[i].ev = "assistant_text_delta" /\ Story[i].call = NoCall
              /\ Story[i].data \subseteq 1 .. m
           \/ /\ Story[i].ev \in {"tool_call_started", "tool_call_delta"}
              /\ Story[i].call \in seen
              /\ \E x \in DOMAIN answer.ids : Story[i].call = answer.ids[x]
      /\ \A x \in DOMAIN answer.ids : Sum(Story, answer.ids[x], step) = 1 .. answer.args[x]
      /\ \A n \in 1 .. m : Once(Story, n, step)
  BY <1>1 DEF Answering
<1>9. \A i \in DOMAIN Y : Y[i].step = step =>
        \/ /\ Y[i].ev = "assistant_text_delta" /\ Y[i].call = NoCall
           /\ Y[i].data \subseteq 1 .. m + 1
        \/ /\ Y[i].ev \in {"tool_call_started", "tool_call_delta"}
           /\ Y[i].call \in seen
           /\ \E x \in DOMAIN answer.ids : Y[i].call = answer.ids[x]
  <2> SUFFICES ASSUME NEW i \in DOMAIN Y, Y[i].step = step
               PROVE  \/ /\ Y[i].ev = "assistant_text_delta" /\ Y[i].call = NoCall
                         /\ Y[i].data \subseteq 1 .. m + 1
                      \/ /\ Y[i].ev \in {"tool_call_started", "tool_call_delta"}
                         /\ Y[i].call \in seen
                         /\ \E x \in DOMAIN answer.ids : Y[i].call = answer.ids[x]
    OBVIOUS
  <2>1. 1 .. m \subseteq 1 .. m + 1 /\ {m + 1} \subseteq 1 .. m + 1
    BY <1>2
  <2>2. (i \in DOMAIN Story /\ Y[i] = Story[i]) \/ Y[i] = e
    BY <1>4, <1>5, Entries
  <2> HIDE DEF Y
  <2> QED
    BY <1>5, <1>8, <2>1, <2>2
<1>10. \A x \in DOMAIN answer.ids : Sum(Y, answer.ids[x], step) = 1 .. answer.args[x]
  BY <1>4, <1>5, <1>8, MorePieces
<1>11. \A n \in 1 .. m + 1 : Once(Y, n, step)
  <2> SUFFICES ASSUME NEW n \in 1 .. m + 1 PROVE Once(Y, n, step)
    OBVIOUS
  <2>1. CASE n \in 1 .. m
    <3>1. n \notin e.data
      BY <1>2, <1>5, <2>1
    <3> QED
      BY <1>4, <1>5, <1>8, <2>1, <3>1, MoreTexts
  <2>2. CASE n = m + 1
    <3>1. Texts(Story, n, step) = {}
      <4>1. \A j \in DOMAIN Story : ~(/\ Story[j].ev = "assistant_text_delta"
                                      /\ Story[j].step = step /\ n \in Story[j].data)
        BY <1>2, <1>8, <2>2
      <4> QED
        BY <4>1 DEF Texts
    <3>2. Texts(Y, n, step) = Texts(Story, n, step) \cup {Len(Story) + 1}
      BY <1>4, <1>5, <2>2, MoreTexts
    <3>3. Texts(Y, n, step) = {Len(Story) + 1}
      BY <3>1, <3>2
    <3>4. Len(Story) + 1 \in DOMAIN Y
      BY <1>4, <1>5, Entries
    <3> QED
      BY <3>3, <3>4 DEF Once
  <2> QED
    BY <1>2, <2>1, <2>2
<1>12. Answering'
  <2>1. /\ \A i \in DOMAIN Story' : Story'[i].step = step' =>
             \/ /\ Story'[i].ev = "assistant_text_delta" /\ Story'[i].call = NoCall
                /\ Story'[i].data \subseteq 1 .. answer'.text
             \/ /\ Story'[i].ev \in {"tool_call_started", "tool_call_delta"}
                /\ Story'[i].call \in seen'
                /\ \E x \in DOMAIN answer'.ids : Story'[i].call = answer'.ids[x]
        /\ \A x \in DOMAIN answer'.ids :
             Sum(Story', answer'.ids[x], step') = 1 .. answer'.args[x]
        /\ \A n \in 1 .. answer'.text : Once(Story', n, step')
        /\ streamed'
    BY <1>1, <1>3, <1>6, <1>9, <1>10, <1>11
  <2> QED
    BY <2>1 DEF Answering, Sum, Pieces, Once, Texts
<1>13. Doing'
  BY <1>1, StageFacts DEF Doing, Busy, ToolRunning
<1> QED
  BY <1>7, <1>12, <1>13

\* What an announcement adds to what is said of the calls of an answer.
LEMMA AnnouncedFirst ==
  ASSUME Basics, Events, Answering, pc = "deciding", NEW id \in CallId, id \notin seen,
         id # NoCall
  PROVE  LET b == Ev("tool_call_started", id, {})
             Y == Append(Story, b) IN
         /\ Followable(Y, step) /\ Y \in Seq(Event) /\ b \in Event
         /\ \A x \in seen \cup {id} : Announced(Y, x)
         /\ \A i \in DOMAIN Y : Y[i].ev # "assistant_text_done"
         /\ \A i \in DOMAIN Y : Y[i].step = step =>
              \/ /\ Y[i].ev = "assistant_text_delta" /\ Y[i].call = NoCall
                 /\ Y[i].data \subseteq 1 .. answer.text
              \/ /\ Y[i].ev \in {"tool_call_started", "tool_call_delta"}
                 /\ Y[i].call \in seen \cup {id}
                 /\ Y[i].call = id \/ \E x \in DOMAIN answer.ids : Y[i].call = answer.ids[x]
         /\ \A x : Sum(Y, x, step) = Sum(Story, x, step)
         /\ \A n \in 1 .. answer.text : Once(Y, n, step)
<1> DEFINE b == Ev("tool_call_started", id, {})
           Y == Append(Story, b)
<1>1. /\ Story \in Seq(Event) /\ step \in Nat /\ TypeOK
  BY StoryFacts DEF Basics, Shapes
<1>2. b \in Event /\ b.ev = "tool_call_started" /\ b.step = step /\ b.call = id /\ b.data = {}
  BY <1>1, EvFacts DEF EventType
<1>3. /\ \A i \in DOMAIN Story : Story[i].step = step =>
           \/ /\ Story[i].ev = "assistant_text_delta" /\ Story[i].call = NoCall
              /\ Story[i].data \subseteq 1 .. answer.text
           \/ /\ Story[i].ev \in {"tool_call_started", "tool_call_delta"}
              /\ Story[i].call \in seen
              /\ \E x \in DOMAIN answer.ids : Story[i].call = answer.ids[x]
      /\ \A n \in 1 .. answer.text : Once(Story, n, step)
  BY DEF Answering
<1>4. /\ Followable(Story, step) /\ \A x \in seen : Announced(Story, x)
      /\ \A i \in DOMAIN Story : Story[i].ev # "assistant_text_done"
  BY DEF Events
<1> HIDE DEF b
<1>5. Next1(Story, step, b)
  <2>1. \A i \in DOMAIN Story : Story[i].step = step => Story[i].call # id
    BY <1>3
  <2> QED
    BY <1>2, <2>1 DEF Next1
<1>6. Followable(Y, step) /\ Y \in Seq(Event)
  BY <1>1, <1>2, <1>4, <1>5, FollowableMore, Entries
<1>7. \A x \in seen \cup {id} : Announced(Y, x)
  BY <1>1, <1>2, <1>4, MoreAnnounced
<1>8. \A i \in DOMAIN Y : (i \in DOMAIN Story /\ Y[i] = Story[i]) \/ Y[i] = b
  BY <1>1, <1>2, Entries
<1>9. /\ \A x : Sum(Y, x, step) = Sum(Story, x, step)
      /\ \A n \in 1 .. answer.text : Once(Y, n, step)
  BY <1>1, <1>2, <1>3, MorePieces, MoreTexts
<1> HIDE DEF Y
<1>10. \A i \in DOMAIN Y : Y[i].ev # "assistant_text_done"
  BY <1>2, <1>4, <1>8
<1>11. \A i \in DOMAIN Y : Y[i].step = step =>
          \/ /\ Y[i].ev = "assistant_text_delta" /\ Y[i].call = NoCall
             /\ Y[i].data \subseteq 1 .. answer.text
          \/ /\ Y[i].ev \in {"tool_call_started", "tool_call_delta"}
             /\ Y[i].call \in seen \cup {id}
             /\ Y[i].call = id \/ \E x \in DOMAIN answer.ids : Y[i].call = answer.ids[x]
  BY <1>2, <1>3, <1>8
<1> QED
  BY <1>2, <1>6, <1>7, <1>9, <1>10, <1>11 DEF Y, b

\* A piece of a call of the answer.
LEMMA ToolChunkTold ==
  ASSUME Basics, Events, Answering, NEW i \in Indices, NEW function \in BOOLEAN,
         NEW piece \in BOOLEAN, NEW given \in {NoCall, OwnId(i)},
         ToolChunk(i, given, function, piece)
  PROVE  function => Events' /\ Answering'
<1> DEFINE id   == IdOf(i, given)
           args == IF i \in DOMAIN answer.args THEN answer.args[i] ELSE 0
           n    == IF function /\ piece THEN args + 1 ELSE args
           b    == Ev("tool_call_started", id, {})
           e    == Ev("tool_call_delta", id, args + 1 .. n)
           Y    == IF id \in seen THEN out ELSE Append(out, b)
<1>18. /\ args \in Nat /\ n \in {args, args + 1} /\ id \in CallId /\ id # NoCall
  BY ToolChunkAnswer
<1>19. /\ i \in DOMAIN answer.ids => id = answer.ids[i]
       /\ i \notin DOMAIN answer.ids => \A x \in DOMAIN answer.ids : answer.ids[x] # id
       /\ DOMAIN answer.args = DOMAIN answer.ids
       /\ answer'.text = answer.text
       /\ DOMAIN answer'.ids = DOMAIN answer.ids \cup {i}
       /\ answer'.ids[i] = id /\ answer'.args[i] = n
  BY ToolChunkAnswer
<1>20. \A x \in DOMAIN answer.ids : x # i => answer.ids[x] # id
  BY ToolChunkAnswer
<1>2. /\ args \in Nat /\ n \in {args, args + 1} /\ id \in CallId /\ id # NoCall
      /\ i \in DOMAIN answer.ids => id = answer.ids[i]
      /\ \A x \in DOMAIN answer.ids : x # i => answer.ids[x] # id
      /\ i \notin DOMAIN answer.ids => \A x \in DOMAIN answer.ids : answer.ids[x] # id
      /\ DOMAIN answer.args = DOMAIN answer.ids
      /\ answer'.text = answer.text
      /\ DOMAIN answer'.ids = DOMAIN answer.ids \cup {i}
      /\ answer'.ids[i] = id /\ answer'.args[i] = n
      /\ \A x \in DOMAIN answer.ids : x # i =>
           answer'.ids[x] = answer.ids[x] /\ answer'.args[x] = answer.args[x]
  <2>1. \A x \in DOMAIN answer.ids : x # i =>
           answer'.ids[x] = answer.ids[x] /\ answer'.args[x] = answer.args[x]
    BY ToolChunkAnswer
  <2> HIDE DEF id, args, n
  <2> QED
    BY <1>18, <1>19, <1>20, <2>1
<1>0. SUFFICES ASSUME function = TRUE PROVE Events' /\ Answering'
  OBVIOUS
<1>1. /\ pc = "deciding" /\ seen' = seen \cup {id}
      /\ UNCHANGED <<provider, pc, step, plan, pos, final, tool, buffer, file, faults, streamed>>
  BY <1>0 DEF ToolChunk, Chunk, Saw
<1>3. /\ TypeOK /\ buffer = <<>> /\ Story = out /\ Story \in Seq(Event) /\ step \in Nat
  BY <1>1, NothingCollected, StoryFacts DEF ToolRunning, Basics, Shapes
<1>4. /\ b \in Event /\ e \in Event /\ Y \in Seq(Event)
      /\ out' = Append(Y, e) /\ out' \in Seq(Event)
  <2>1. function = TRUE
    BY <1>0
  <2>2. ToolChunk(i, given, TRUE, piece)
    BY <2>1
  <2> DEFINE m == IF piece THEN args + 1 ELSE args
             f == Ev("tool_call_delta", id, args + 1 .. m)
  <2>3. n = m
    BY <2>1
  <2>4. /\ b \in Event /\ f \in Event /\ Y \in Seq(Event)
        /\ out' = Append(Y, f) /\ out' \in Seq(Event)
    BY <2>2, ToolChunkStory
  <2>5. e = f
    BY <2>3
  <2> QED
    BY <2>4, <2>5
<1>5. /\ e.ev = "tool_call_delta" /\ e.step = step /\ e.call = id
      /\ e.data = args + 1 .. n
  BY DEF Ev
<1>6. Story' = Append(Y, e)
  <2>1. Story' = out' \o <<>>
    BY <1>1, <1>3 DEF Story
  <2> QED
    BY <1>4, <2>1, ConcatEmptySeq
<1>16. i \in DOMAIN answer.args => args = answer.args[i]
  OBVIOUS
<1>17. i \notin DOMAIN answer.args => args = 0
  OBVIOUS
<1>7. /\ Followable(Y, step)
      /\ \A x \in seen \cup {id} : Announced(Y, x)
      /\ \A k \in DOMAIN Y : Y[k].ev # "assistant_text_done"
      /\ \A k \in DOMAIN Y : Y[k].step = step =>
           \/ /\ Y[k].ev = "assistant_text_delta" /\ Y[k].call = NoCall
              /\ Y[k].data \subseteq 1 .. answer.text
           \/ /\ Y[k].ev \in {"tool_call_started", "tool_call_delta"}
              /\ Y[k].call \in seen \cup {id}
              /\ Y[k].call = id \/ \E x \in DOMAIN answer.ids : Y[k].call = answer.ids[x]
      /\ \A x : Sum(Y, x, step) = Sum(Story, x, step)
      /\ \A m \in 1 .. answer.text : Once(Y, m, step)
  <2>1. CASE id \in seen
    <3>1. Y = Story
      BY <1>3, <2>1
    <3>2. seen \cup {id} = seen
      BY <2>1
    <3> HIDE DEF Y, id
    <3> QED
      BY <1>1, <3>1, <3>2 DEF Events, Answering
  <2>2. CASE id \notin seen
    <3>1. Y = Append(Story, b)
      BY <1>3, <2>2
    <3> HIDE DEF Y, id
    <3> QED
      BY <1>1, <1>2, <2>2, <3>1, AnnouncedFirst DEF b
  <2> QED
    BY <2>1, <2>2
<1> HIDE DEF Y, e, b, id, args, n
<1>8. Next1(Y, step, e)
  <2>1. Announced(Y, id)
    BY <1>7
  <2>2. \A k \in DOMAIN Y : Y[k].step = step /\ Y[k].call = id =>
          Y[k].ev \in {"tool_call_started", "tool_call_delta"} /\ Follows(Y[k], e)
    <3> SUFFICES ASSUME NEW k \in DOMAIN Y, Y[k].step = step, Y[k].call = id
                 PROVE  Y[k].ev \in {"tool_call_started", "tool_call_delta"}
                        /\ Follows(Y[k], e)
      OBVIOUS
    <3>1. Y[k].ev \in {"tool_call_started", "tool_call_delta"} /\ Y[k] \in Event
      BY <1>2, <1>4, <1>7
    <3> QED
      BY <1>4, <1>5, <3>1, PhaseFacts
  <2> QED
    BY <1>5, <2>1, <2>2 DEF Next1
<1>9. /\ Followable(Append(Y, e), step)
      /\ \A x \in seen \cup {id} : Announced(Append(Y, e), x)
      /\ \A k \in DOMAIN Append(Y, e) : \/ k \in DOMAIN Y /\ Append(Y, e)[k] = Y[k]
                                        \/ Append(Y, e)[k] = e
  BY <1>3, <1>4, <1>7, <1>8, FollowableMore, MoreAnnounced, Entries
<1>10. Events'
  <2>1. \A k \in DOMAIN Append(Y, e) : Append(Y, e)[k].ev # "assistant_text_done"
    BY <1>5, <1>7, <1>9
  <2> HIDE DEF Followable, Announced
  <2>2. /\ Followable(Story', step') /\ \A x \in seen' : Announced(Story', x)
        /\ \A k \in DOMAIN Story' : Story'[k].ev # "assistant_text_done"
    BY <1>1, <1>6, <1>9, <2>1
  <2> QED
    BY <2>2 DEF Events, Followable, Followed, AddsUp, Pieces, Sum, Announced, Follows
<1>11. \A k \in DOMAIN Append(Y, e) : Append(Y, e)[k].step = step =>
         \/ /\ Append(Y, e)[k].ev = "assistant_text_delta" /\ Append(Y, e)[k].call = NoCall
            /\ Append(Y, e)[k].data \subseteq 1 .. answer.text
         \/ /\ Append(Y, e)[k].ev \in {"tool_call_started", "tool_call_delta"}
            /\ Append(Y, e)[k].call \in seen \cup {id}
            /\ \E x \in DOMAIN answer'.ids : Append(Y, e)[k].call = answer'.ids[x]
  <2>1. \A x \in DOMAIN answer.ids : x \in DOMAIN answer'.ids /\ answer'.ids[x] = answer.ids[x]
    BY <1>2
  <2>2. i \in DOMAIN answer'.ids /\ id = answer'.ids[i]
    BY <1>2
  <2> SUFFICES ASSUME NEW k \in DOMAIN Append(Y, e), Append(Y, e)[k].step = step
               PROVE  \/ /\ Append(Y, e)[k].ev = "assistant_text_delta"
                         /\ Append(Y, e)[k].call = NoCall
                         /\ Append(Y, e)[k].data \subseteq 1 .. answer.text
                      \/ /\ Append(Y, e)[k].ev \in {"tool_call_started", "tool_call_delta"}
                         /\ Append(Y, e)[k].call \in seen \cup {id}
                         /\ \E x \in DOMAIN answer'.ids : Append(Y, e)[k].call = answer'.ids[x]
    OBVIOUS
  <2>3. CASE Append(Y, e)[k] = e
    BY <1>5, <2>2, <2>3
  <2>4. CASE k \in DOMAIN Y /\ Append(Y, e)[k] = Y[k]
    BY <1>7, <2>1, <2>2, <2>4
  <2> QED
    BY <1>9, <2>3, <2>4
<1>12. \A x \in DOMAIN answer'.ids :
         Sum(Append(Y, e), answer'.ids[x], step) = 1 .. answer'.args[x]
  <2>0. \A x \in DOMAIN answer.ids : Sum(Story, answer.ids[x], step) = 1 .. answer.args[x]
    BY <1>1 DEF Answering
  <2>1. ASSUME NEW x \in DOMAIN answer.ids, x # i
        PROVE  Sum(Append(Y, e), answer'.ids[x], step) = 1 .. answer'.args[x]
    <3>1. answer'.ids[x] = answer.ids[x] /\ answer'.args[x] = answer.args[x]
          /\ answer.ids[x] # id
      BY <1>2, <2>1
    <3>2. Sum(Append(Y, e), answer.ids[x], step) = Sum(Y, answer.ids[x], step)
      BY <1>4, <1>5, <3>1, MorePieces
    <3>3. Sum(Y, answer.ids[x], step) = Sum(Story, answer.ids[x], step)
      BY <1>7
    <3>4. Sum(Story, answer.ids[x], step) = 1 .. answer.args[x]
      BY <2>0
    <3> QED
      BY <3>1, <3>2, <3>3, <3>4
  <2>2. Sum(Append(Y, e), id, step) = 1 .. n
    <3>1. Sum(Append(Y, e), id, step) = Sum(Y, id, step) \cup (args + 1 .. n)
      <4>1. Sum(Append(Y, e), e.call, e.step) = Sum(Y, e.call, e.step) \cup e.data
        BY <1>4, <1>5, MoreSum
      <4>2. e.call = id /\ e.step = step /\ e.data = args + 1 .. n
        BY <1>5
      <4> QED
        BY <4>1, <4>2
    <3>2. Sum(Story, id, step) = 1 .. args
      <4>1. CASE i \in DOMAIN answer.ids
        <5>1. id = answer.ids[i] /\ args = answer.args[i]
          BY <1>2, <1>16, <4>1
        <5> QED
          BY <2>0, <4>1, <5>1
      <4>2. CASE i \notin DOMAIN answer.ids
        <5>1. \A j \in DOMAIN Story : Story[j].step = step => Story[j].call # id
          BY <1>1, <1>2, <4>2 DEF Answering
        <5>2. Sum(Story, id, step) = {} /\ args = 0
          BY <1>2, <1>17, <4>2, <5>1, Unsaid
        <5> QED
          BY <5>2
      <4> QED
        BY <4>1, <4>2
    <3>3. (1 .. args) \cup (args + 1 .. n) = 1 .. n
      BY <1>2
    <3> QED
      BY <1>7, <3>1, <3>2, <3>3
  <2> QED
    BY <1>2, <2>1, <2>2
<1>13. \A m \in 1 .. answer.text : Once(Append(Y, e), m, step)
  BY <1>4, <1>5, <1>7, MoreTexts
<1>14. answer.text > 0 => streamed
  BY <1>1 DEF Answering
<1>15. Answering'
  <2>1. /\ \A k \in DOMAIN Story' : Story'[k].step = step' =>
             \/ /\ Story'[k].ev = "assistant_text_delta" /\ Story'[k].call = NoCall
                /\ Story'[k].data \subseteq 1 .. answer'.text
             \/ /\ Story'[k].ev \in {"tool_call_started", "tool_call_delta"}
                /\ Story'[k].call \in seen'
                /\ \E x \in DOMAIN answer'.ids : Story'[k].call = answer'.ids[x]
        /\ \A x \in DOMAIN answer'.ids :
             Sum(Story', answer'.ids[x], step') = 1 .. answer'.args[x]
        /\ \A m \in 1 .. answer'.text : Once(Story', m, step')
        /\ answer'.text > 0 => streamed'
    BY <1>1, <1>2, <1>6, <1>11, <1>12, <1>13, <1>14
  <2> QED
    BY <2>1 DEF Answering, Sum, Pieces, Once, Texts
<1> QED
  BY <1>10, <1>15

\* A chunk about a call.
LEMMA ToolChunkEvents ==
  ASSUME Basics, Events, Answering, NEW i \in Indices, NEW function \in BOOLEAN,
         NEW piece \in BOOLEAN, NEW given \in {NoCall, OwnId(i)},
         ToolChunk(i, given, function, piece)
  PROVE  Events' /\ Answering' /\ Doing'
<1>1. pc = "deciding" /\ pc' = "deciding"
  BY DEF ToolChunk, Chunk
<1>2. Doing'
  BY <1>1, StageFacts DEF Doing, Busy, ToolRunning
<1>3. CASE function
  BY <1>2, <1>3, ToolChunkTold
<1>4. CASE ~function
  <2> DEFINE id   == IdOf(i, given)
             args == IF i \in DOMAIN answer.args THEN answer.args[i] ELSE 0
             n    == IF function /\ piece THEN args + 1 ELSE args
  <2>1. /\ UNCHANGED <<provider, pc, step, plan, pos, final, tool, buffer, file, faults,
                       streamed, seen, out>>
    BY <1>4 DEF ToolChunk, Chunk
  <2>2. /\ args \in Nat /\ n \in {args, args + 1} /\ id \in CallId
        /\ i \in DOMAIN answer.ids => id = answer.ids[i]
        /\ i \notin DOMAIN answer.ids => \A x \in DOMAIN answer.ids : answer.ids[x] # id
        /\ DOMAIN answer.args = DOMAIN answer.ids
        /\ answer'.text = answer.text
        /\ DOMAIN answer'.ids = DOMAIN answer.ids \cup {i}
        /\ answer'.ids[i] = id /\ answer'.args[i] = n
        /\ \A x \in DOMAIN answer.ids : x # i =>
             answer'.ids[x] = answer.ids[x] /\ answer'.args[x] = answer.args[x]
    BY ToolChunkAnswer
  <2>3. n = args /\ (i \in DOMAIN answer.args => args = answer.args[i])
        /\ (i \notin DOMAIN answer.args => args = 0)
    BY <1>4
  <2>4. Story' = Story
    BY <2>1 DEF Story
  <2>5. Events'
    BY <2>1, <2>4 DEF Events, Followable, Followed, AddsUp, Pieces, Sum, Announced, Follows
  <2> HIDE DEF id, args, n
  <2>6. \A x \in DOMAIN answer'.ids :
          Sum(Story, answer'.ids[x], step) = 1 .. answer'.args[x]
    <3>0. \A x \in DOMAIN answer.ids : Sum(Story, answer.ids[x], step) = 1 .. answer.args[x]
      BY <1>1 DEF Answering
    <3>1. \A x \in DOMAIN answer.ids :
            answer'.ids[x] = answer.ids[x] /\ answer'.args[x] = answer.args[x]
      BY <2>2, <2>3
    <3>2. CASE i \in DOMAIN answer.ids
      BY <2>2, <3>0, <3>1, <3>2
    <3>3. CASE i \notin DOMAIN answer.ids
      <4>1. \A j \in DOMAIN Story : Story[j].step = step => Story[j].call # id
        <5>1. id # NoCall
          BY ToolChunkAnswer DEF id
        <5> QED
          BY <1>1, <2>2, <3>3, <5>1 DEF Answering
      <4>2. Sum(Story, id, step) = {} /\ n = 0
        BY <2>2, <2>3, <3>3, <4>1, Unsaid
      <4>3. Sum(Story, answer'.ids[i], step) = 1 .. answer'.args[i]
        BY <2>2, <4>2
      <4> QED
        BY <2>2, <3>0, <3>1, <4>3
    <3> QED
      BY <3>2, <3>3
  <2>7. Answering'
    <3>1. \A x \in DOMAIN answer.ids : x \in DOMAIN answer'.ids /\ answer'.ids[x] = answer.ids[x]
      BY <2>2
    <3>2. /\ \A k \in DOMAIN Story : Story[k].step = step =>
               \/ /\ Story[k].ev = "assistant_text_delta" /\ Story[k].call = NoCall
                  /\ Story[k].data \subseteq 1 .. answer.text
               \/ /\ Story[k].ev \in {"tool_call_started", "tool_call_delta"}
                  /\ Story[k].call \in seen
                  /\ \E x \in DOMAIN answer'.ids : Story[k].call = answer'.ids[x]
          /\ \A m \in 1 .. answer.text : Once(Story, m, step)
          /\ answer.text > 0 => streamed
      BY <1>1, <3>1 DEF Answering
    <3>3. /\ \A k \in DOMAIN Story' : Story'[k].step = step' =>
               \/ /\ Story'[k].ev = "assistant_text_delta" /\ Story'[k].call = NoCall
                  /\ Story'[k].data \subseteq 1 .. answer'.text
               \/ /\ Story'[k].ev \in {"tool_call_started", "tool_call_delta"}
                  /\ Story'[k].call \in seen'
                  /\ \E x \in DOMAIN answer'.ids : Story'[k].call = answer'.ids[x]
          /\ \A x \in DOMAIN answer'.ids :
               Sum(Story', answer'.ids[x], step') = 1 .. answer'.args[x]
          /\ \A m \in 1 .. answer'.text : Once(Story', m, step')
          /\ answer'.text > 0 => streamed'
      BY <2>1, <2>2, <2>4, <2>6, <3>2
    <3> QED
      BY <3>3 DEF Answering, Sum, Pieces, Once, Texts
  <2> QED
    BY <1>2, <2>5, <2>7
<1> QED
  BY <1>3, <1>4

\* What is said of the actions after a step of the same iteration.
LEMMA SaidThen ==
  ASSUME step' = step, seen' = seen, NEW k
  PROVE  /\ SaidAhead(Story, plan[k])' <=> SaidAhead(Story', plan'[k])
         /\ SaidNow(Story, plan[k])' <=> SaidNow(Story', plan'[k])
         /\ SaidReply(Story, plan[k], Ahead(k) /\ ~streamed)'
              <=> SaidReply(Story', plan'[k], Ahead(k)' /\ ~streamed')
<1> HIDE DEF Story, Ahead
<1>1. SaidAhead(Story, plan[k])' <=> SaidAhead(Story', plan'[k])
  BY DEF SaidAhead, AddsUp, Pieces, Sum
<1>2. SaidNow(Story, plan[k])' <=> SaidNow(Story', plan'[k])
  BY DEF SaidNow, Announced
<1>3. SaidReply(Story, plan[k], Ahead(k) /\ ~streamed)'
        <=> SaidReply(Story', plan'[k], Ahead(k)' /\ ~streamed')
  BY DEF SaidReply, Texts, Once
<1> QED
  BY <1>1, <1>2, <1>3

\* The answer is complete, and becomes a plan.
LEMMA DecidedStory ==
  ASSUME Basics, Events, Answering, pc = "deciding", \E actions \in Seq(Action) : Decided(actions),
         Plans',
         \A k \in DOMAIN plan' :
           \/ /\ plan'[k].kind = "call"
              /\ \E x \in DOMAIN answer.ids : /\ plan'[k].call = answer.ids[x]
                                              /\ plan'[k].data \in {{}, 1 .. answer.args[x]}
           \/ plan'[k].kind = "respond" /\ plan'[k].data \subseteq 1 .. answer.text
           \/ answer = Nothing /\ ~streamed
  PROVE  Events' /\ Answering' /\ Doing'
<1>1. /\ pos' = 1 /\ pc' = "acting"
      /\ UNCHANGED <<provider, step, streamed, seen, tool, buffer, out, file, inputs, faults>>
  BY DEF Decided
<1>2. Story' = Story
  BY <1>1 DEF Story
<1>3. Events'
  BY <1>1, <1>2 DEF Events, Followable, Followed, AddsUp, Pieces, Sum, Announced, Follows
<1>4. Answering'
  BY <1>1 DEF Answering
<1>5. /\ \A i \in DOMAIN Story : Story[i].step = step =>
           \/ /\ Story[i].ev = "assistant_text_delta" /\ Story[i].call = NoCall
              /\ Story[i].data \subseteq 1 .. answer.text
           \/ /\ Story[i].ev \in {"tool_call_started", "tool_call_delta"}
              /\ Story[i].call \in seen
              /\ \E x \in DOMAIN answer.ids : Story[i].call = answer.ids[x]
      /\ \A x \in DOMAIN answer.ids : Sum(Story, answer.ids[x], step) = 1 .. answer.args[x]
      /\ \A n \in 1 .. answer.text : Once(Story, n, step)
      /\ answer.text > 0 => streamed
  BY DEF Answering
<1>6. answer.text \in Nat
  BY TurnStreamAssumption DEF Basics, Shapes, TypeOK
<1>7. answer = Nothing => DOMAIN answer.ids = {} /\ answer.text = 0
  BY DEF Nothing
<1>8. ASSUME NEW k \in DOMAIN plan', plan'[k].kind = "call"
      PROVE  SaidAhead(Story, plan'[k])
  <2>1. plan'[k].call # NoCall
    BY <1>8 DEF Plans
  <2>2. \A i \in DOMAIN Story : Story[i].step = step /\ Story[i].call = plan'[k].call =>
          /\ Story[i].ev \in {"tool_call_started", "tool_call_delta"}
          /\ plan'[k].call \in seen
          /\ \E x \in DOMAIN answer.ids : plan'[k].call = answer.ids[x]
    BY <1>5, <2>1
  <2>3. AddsUp(Story, plan'[k].call, step, plan'[k].data)
    <3>1. CASE answer = Nothing
      <4>1. \A i \in DOMAIN Story : Story[i].step = step => Story[i].call # plan'[k].call
        BY <1>7, <2>2, <3>1
      <4> QED
        BY <4>1, Unsaid DEF AddsUp
    <3>2. CASE answer # Nothing
      <4>1. PICK x \in DOMAIN answer.ids : /\ plan'[k].call = answer.ids[x]
                                           /\ plan'[k].data \in {{}, 1 .. answer.args[x]}
        BY <1>8, <3>2
      <4>2. Sum(Story, answer.ids[x], step) = 1 .. answer.args[x]
        BY <1>5
      <4> QED
        BY <4>1, <4>2 DEF AddsUp
    <3> QED
      BY <3>1, <3>2
  <2> QED
    BY <2>2, <2>3 DEF SaidAhead
<1>9. ASSUME NEW k \in DOMAIN plan', plan'[k].kind = "respond", NEW unsent \in BOOLEAN,
             unsent <=> ~streamed
      PROVE  SaidReply(Story, plan'[k], unsent)
  <2>1. CASE answer = Nothing /\ ~streamed
    <3>1. \A n \in plan'[k].data : Texts(Story, n, step) = {}
      <4> SUFFICES ASSUME NEW n \in plan'[k].data PROVE Texts(Story, n, step) = {}
        OBVIOUS
      <4>1. \A j \in DOMAIN Story : ~(/\ Story[j].ev = "assistant_text_delta"
                                      /\ Story[j].step = step /\ n \in Story[j].data)
        BY <1>5, <1>7, <2>1
      <4> QED
        BY <4>1 DEF Texts
    <3> QED
      BY <1>9, <2>1, <3>1 DEF SaidReply
  <2>2. CASE plan'[k].data \subseteq 1 .. answer.text
    <3>1. \A n \in plan'[k].data : Once(Story, n, step) /\ streamed
      BY <1>5, <1>6, <2>2
    <3> QED
      BY <1>9, <3>1 DEF SaidReply
  <2> QED
    BY <1>9, <2>1, <2>2
<1>10. \A k \in DOMAIN plan' : k > 1 \/ k = 1
  <2>1. plan' \in Seq(Action)
    BY DEF Decided
  <2> QED
    BY <2>1
<1>11. Doing'
  <2>1. ASSUME NEW k \in DOMAIN plan'
        PROVE  /\ plan'[k].kind = "call" => SaidAhead(Story, plan[k])'
               /\ plan'[k].kind = "respond" =>
                    SaidReply(Story, plan[k], Ahead(k) /\ ~streamed)'
    <3>1. plan'[k].kind = "call" => SaidAhead(Story', plan'[k])
      BY <1>2, <1>8
    <3>2. Ahead(k)'
      BY <1>1, <1>10 DEF Ahead
    <3>3. ASSUME plan'[k].kind = "respond"
          PROVE  SaidReply(Story', plan'[k], Ahead(k)' /\ ~streamed')
      <4>1. (Ahead(k)' /\ ~streamed') <=> ~streamed
        BY <1>1, <3>2
      <4>2. SaidReply(Story, plan'[k], Ahead(k)' /\ ~streamed')
        BY <1>9, <3>3, <4>1 DEF SaidReply
      <4> QED
        BY <1>2, <4>2
    <3> QED
      BY <1>1, <3>1, <3>3, SaidThen
  <2>2. pc' \notin Busy
    BY <1>1 DEF Busy, ToolRunning
  <2> QED
    BY <2>1, <2>2 DEF Doing
<1> QED
  BY <1>3, <1>4, <1>11

\* So for a streamed answer, and for one in one piece.
LEMMA AnswerStory ==
  ASSUME Basics, Events, Answering, StreamEnds \/ WholeAnswer
  PROVE  Events' /\ Answering' /\ Doing'
<1>1. CASE StreamEnds
  <2>1. /\ pc = "deciding" /\ Plans'
        /\ \E actions \in Seq(Action) : Decided(actions)
        /\ \/ plan' = <<Respond(1 .. answer.text)>>
           \/ /\ \A k \in DOMAIN plan' :
                   /\ k \in DOMAIN answer.order /\ answer.order[k] \in DOMAIN answer.ids
                   /\ plan'[k].kind = "call"
                   /\ plan'[k].call = answer.ids[answer.order[k]]
                   /\ plan'[k].data \in {{}, 1 .. answer.args[answer.order[k]]}
    BY <1>1, StreamPlan
  <2>2. plan' = <<Respond(1 .. answer.text)>> =>
          \A k \in DOMAIN plan' : plan'[k].kind = "respond" /\ plan'[k].data = 1 .. answer.text
    BY DEF Respond
  <2>3. \A k \in DOMAIN plan' :
           \/ /\ plan'[k].kind = "call"
              /\ \E x \in DOMAIN answer.ids : /\ plan'[k].call = answer.ids[x]
                                              /\ plan'[k].data \in {{}, 1 .. answer.args[x]}
           \/ plan'[k].kind = "respond" /\ plan'[k].data \subseteq 1 .. answer.text
    BY <2>1, <2>2
  <2> QED
    BY <2>1, <2>3, DecidedStory
<1>2. CASE WholeAnswer
  <2>1. /\ pc = "deciding" /\ Plans' /\ provider = "anthropic"
        /\ \E actions \in Seq(Action) : Decided(actions)
    BY <1>2, WholePlan
  <2>2. answer = Nothing /\ ~streamed
    BY <2>1 DEF Basics, Control
  <2> QED
    BY <2>1, <2>2, DecidedStory
<1> QED
  BY <1>1, <1>2

\* What an event about one action leaves of what is said of the others.
LEMMA SaidMore ==
  ASSUME NEW Z \in Seq(Event), NEW e \in Event, NEW a
  PROVE  /\ SaidAhead(Z, a) /\ e.call # a.call => SaidAhead(Append(Z, e), a)
         /\ SaidNow(Z, a) /\ e.ev \in {"tool_call_started", "tool_call_delta",
               "tool_call_finished", "tool_progress", "tool_progress_summary"}
              => SaidNow(Append(Z, e), a)
         /\ \A h \in BOOLEAN :
              SaidReply(Z, a, h) /\ (e.ev # "assistant_text_delta" \/ e.data \cap a.data = {})
                => SaidReply(Append(Z, e), a, h)
<1> DEFINE Y == Append(Z, e)
<1>1. \A i \in DOMAIN Y : (i \in DOMAIN Z /\ Y[i] = Z[i]) \/ Y[i] = e
  BY Entries
<1>2. ASSUME SaidAhead(Z, a), e.call # a.call PROVE SaidAhead(Y, a)
  <2>1. /\ Pieces(Y, a.call, step) = Pieces(Z, a.call, step)
        /\ Sum(Y, a.call, step) = Sum(Z, a.call, step)
    BY <1>2, MorePieces
  <2> HIDE DEF Y
  <2>2. AddsUp(Y, a.call, step, a.data)
    BY <1>2, <2>1 DEF SaidAhead, AddsUp
  <2> QED
    BY <1>1, <1>2, <2>2 DEF SaidAhead
<1>3. ASSUME SaidNow(Z, a), e.ev \in {"tool_call_started", "tool_call_delta",
               "tool_call_finished", "tool_progress", "tool_progress_summary"}
      PROVE  SaidNow(Y, a)
  <2>1. Announced(Y, a.call)
    BY <1>3, MoreAnnounced DEF SaidNow
  <2> HIDE DEF Y
  <2> QED
    BY <1>1, <1>3, <2>1 DEF SaidNow
<1>4. ASSUME NEW h \in BOOLEAN, SaidReply(Z, a, h),
             e.ev # "assistant_text_delta" \/ e.data \cap a.data = {}
      PROVE  SaidReply(Y, a, h)
  <2>1. \A n \in a.data : ~(e.ev = "assistant_text_delta" /\ e.step = step /\ n \in e.data)
    BY <1>4
  <2>2. \A n \in a.data : /\ Texts(Y, n, step) = Texts(Z, n, step)
                          /\ Once(Z, n, step) => Once(Y, n, step)
    BY <2>1, MoreTexts
  <2> HIDE DEF Y
  <2> QED
    BY <1>4, <2>2 DEF SaidReply
<1> QED
  BY <1>2, <1>3, <1>4

\* A step that says something of the call at hand only, or nothing, or takes up the next
\* action.
LEMMA CarryOn ==
  ASSUME Basics, Doing, pc \in Carrying, pc' \in Carrying, NEW Y, Story' = Y,
         UNCHANGED <<plan, step, seen, streamed>>,
         \A k \in DOMAIN plan :
           /\ plan[k].kind = "call" /\ Ahead(k)' =>
                /\ Ahead(k)
                /\ SaidAhead(Story, plan[k]) => SaidAhead(Y, plan[k])
           /\ plan[k].kind = "respond" =>
                /\ Ahead(k)' <=> Ahead(k)
                /\ \A h \in BOOLEAN :
                     SaidReply(Story, plan[k], h) => SaidReply(Y, plan[k], h),
         pc' \in Busy => pos \in DOMAIN plan /\ pos' = pos /\ SaidNow(Y, plan[pos])
  PROVE  Doing' /\ Answering'
<1>1. ASSUME NEW k \in DOMAIN plan
      PROVE  /\ plan[k].kind = "call" /\ Ahead(k)' => SaidAhead(Story, plan[k])'
             /\ plan[k].kind = "respond" =>
                  SaidReply(Story, plan[k], Ahead(k) /\ ~streamed)'
  <2>1. ASSUME plan[k].kind = "call", Ahead(k)' PROVE SaidAhead(Story', plan'[k])
    <3>1. SaidAhead(Story, plan[k])
      BY <2>1 DEF Doing
    <3> QED
      BY <2>1, <3>1
  <2>2. ASSUME plan[k].kind = "respond"
        PROVE  SaidReply(Story', plan'[k], Ahead(k)' /\ ~streamed')
    <3> DEFINE h == Ahead(k) /\ ~streamed
    <3>1. SaidReply(Story, plan[k], h) /\ h \in BOOLEAN
      BY <2>2 DEF Doing
    <3> HIDE DEF h
    <3>2. SaidReply(Y, plan[k], h)
      BY <2>2, <3>1
    <3>3. (Ahead(k)' /\ ~streamed') <=> h
      BY <2>2 DEF h
    <3> QED
      BY <3>2, <3>3 DEF SaidReply
  <2> QED
    BY <2>1, <2>2, SaidThen
<1>2. ASSUME pc' \in Busy PROVE SaidNow(Story, plan[pos])'
  <2>1. SaidNow(Story', plan'[pos]) /\ pos' = pos
    BY <1>2
  <2>2. SaidNow(Story, plan[pos])' <=> SaidNow(Story', plan'[pos'])
    BY DEF SaidNow, Announced
  <2> QED
    BY <2>1, <2>2
<1>3. Doing'
  BY <1>1, <1>2 DEF Doing
<1>4. Answering'
  BY StageFacts DEF Answering
<1> QED
  BY <1>3, <1>4

\* A story that stays the same.
LEMMA SameStory ==
  ASSUME Events, Story' = Story, step' = step, seen' = seen,
         pc' # "done" => \A i \in DOMAIN Story : Story[i].ev # "assistant_text_done"
  PROVE  Events'
BY DEF Events, Followable, Followed, AddsUp, Pieces, Sum, Announced, Follows

\* What an event of the call at hand, before its result, leaves to be followed.
LEMMA SayOfCall ==
  ASSUME Basics, Events, Doing, pc \in Busy, NEW e \in Event,
         e.ev \in {"tool_progress", "tool_progress_summary", "tool_result"},
         e.call = plan[pos].call, e.step = step, Story' = Append(Story, e), step' = step,
         seen' = seen
  PROVE  Events'
<1>1. TypeOK /\ pc # "done" /\ Story \in Seq(Event)
  BY StoryFacts DEF Basics, Shapes, Busy, ToolRunning
<1>2. SaidNow(Story, plan[pos])
  BY DEF Doing
<1>3. Next1(Story, step, e)
  <2>1. Announced(Story, e.call)
    BY <1>2 DEF SaidNow
  <2>2. \A i \in DOMAIN Story : Story[i].call = e.call /\ Story[i].step = step
          => Follows(Story[i], e)
    <3> SUFFICES ASSUME NEW i \in DOMAIN Story, Story[i].call = e.call, Story[i].step = step
                 PROVE  Follows(Story[i], e)
      OBVIOUS
    <3>1. /\ Story[i].ev \in {"tool_call_started", "tool_call_delta", "tool_call_finished",
                              "tool_progress", "tool_progress_summary"}
          /\ Story[i] \in Event
      BY <1>1, <1>2 DEF SaidNow
    <3> QED
      BY <3>1, PhaseFacts
  <2> QED
    BY <2>1, <2>2 DEF Next1
<1> QED
  BY <1>1, <1>3, SayMore

\* Which actions are ahead before and after a step.
LEMMA AheadFacts ==
  ASSUME Basics, pc \in Carrying, NEW k \in DOMAIN plan, pos' \in {pos, pos + 1}
  PROVE  /\ k \in Nat /\ pos \in Nat /\ plan[k] \in Action
         /\ pos' = pos /\ pc' # "acting" => (Ahead(k)' <=> k > pos)
         /\ pc # "acting" => (Ahead(k) <=> k > pos)
         /\ pc = "acting" => (Ahead(k) <=> k > pos \/ k = pos)
         /\ pos' = pos + 1 /\ pc' = "acting" => (Ahead(k)' <=> k > pos)
<1>1. plan \in Seq(Action) /\ pos \in Nat
  BY DEF Basics, Shapes, TypeOK
<1>2. k \in Nat /\ plan[k] \in Action
  BY <1>1
<1> QED
  BY <1>1, <1>2 DEF Ahead

\* A call is announced and carried out.
LEMMA CallFunctionStory ==
  ASSUME Basics, Events, Doing, CallFunction
  PROVE  Events' /\ Answering' /\ Doing'
<1> DEFINE id == plan[pos].call
           b  == Ev("tool_call_started", id, {})
           e  == Ev("tool_call_finished", id, plan[pos].data)
           Y  == IF id \in seen THEN out ELSE Append(out, b)
<1>1. /\ pc = "acting" /\ pc' = "calling" /\ pos <= Len(plan) /\ plan[pos].kind = "call"
      /\ UNCHANGED <<provider, step, answer, streamed, seen, plan, pos, final, tool, buffer,
                     file, inputs, faults>>
  BY DEF CallFunction, Acts
<1>2. /\ pos \in DOMAIN plan /\ pos \in Nat /\ id \in CallId /\ id # NoCall
      /\ plan[pos].data \in SUBSET Nat /\ pc \in Carrying
  BY <1>1, ActionFacts, StageFacts
<1>3. /\ TypeOK /\ Story = out /\ out \in Seq(Event) /\ buffer = <<>> /\ step \in Nat
  BY <1>1, NothingCollected, StoryFacts DEF ToolRunning, Basics, Shapes
<1>4. /\ b \in Event /\ e \in Event /\ Y \in Seq(Event)
      /\ out' = Append(Y, e) /\ out' \in Seq(Event)
  BY ActStory
<1>5. /\ b.ev = "tool_call_started" /\ b.call = id /\ b.step = step /\ b.data = {}
      /\ e.ev = "tool_call_finished" /\ e.call = id /\ e.step = step /\ e.data = plan[pos].data
  BY DEF Ev
<1>6. Story' = Append(Y, e)
  <2>1. Story' = out' \o <<>>
    BY <1>1, <1>3 DEF Story
  <2> QED
    BY <1>4, <2>1, ConcatEmptySeq
<1>7. SaidAhead(Story, plan[pos])
  BY <1>1, <1>2 DEF Doing, Ahead
<1>8. /\ \A i \in DOMAIN Story : Story[i].step = step /\ Story[i].call = id =>
           Story[i].ev \in {"tool_call_started", "tool_call_delta"} /\ id \in seen
      /\ AddsUp(Story, id, step, e.data)
  BY <1>5, <1>7 DEF SaidAhead
<1>9. /\ Followable(Story, step) /\ \A x \in seen : Announced(Story, x)
      /\ \A i \in DOMAIN Story : Story[i].ev # "assistant_text_done"
  BY <1>1 DEF Events
<1>10. id \in seen => Y = Story
  BY <1>3
<1>11. id \notin seen => Y = Append(Story, b)
  BY <1>3
<1> HIDE DEF Y, b, e, id
<1>12. /\ Followable(Y, step) /\ Announced(Y, id)
       /\ \A x \in seen : Announced(Y, x)
       /\ \A i \in DOMAIN Y : Y[i].ev # "assistant_text_done"
       /\ \A i \in DOMAIN Y : Y[i].step = step /\ Y[i].call = id =>
            Y[i].ev \in {"tool_call_started", "tool_call_delta"}
       /\ AddsUp(Y, id, step, e.data)
       /\ \A k \in DOMAIN plan :
            /\ SaidAhead(Story, plan[k]) /\ plan[k].call # id => SaidAhead(Y, plan[k])
            /\ \A h \in BOOLEAN : SaidReply(Story, plan[k], h) => SaidReply(Y, plan[k], h)
  <2>1. CASE id \in seen
    BY <1>8, <1>9, <1>10, <2>1
  <2>2. CASE id \notin seen
    <3>1. Y = Append(Story, b)
      BY <1>11, <2>2
    <3>2. Next1(Story, step, b)
      BY <1>5, <1>8, <2>2 DEF Next1
    <3>3. Followable(Y, step)
      BY <1>3, <1>4, <1>9, <3>1, <3>2, FollowableMore
    <3>4. Announced(Y, id) /\ \A x \in seen : Announced(Y, x)
      BY <1>3, <1>4, <1>5, <1>9, <3>1, MoreAnnounced
    <3>5. \A i \in DOMAIN Y : (i \in DOMAIN Story /\ Y[i] = Story[i]) \/ Y[i] = b
      BY <1>3, <1>4, <3>1, Entries
    <3>6. Pieces(Y, id, step) = Pieces(Story, id, step) /\ Sum(Y, id, step) = Sum(Story, id, step)
      BY <1>3, <1>4, <1>5, <3>1, MorePieces
    <3>7. AddsUp(Y, id, step, e.data)
      BY <1>8, <3>6 DEF AddsUp
    <3>8. \A k \in DOMAIN plan :
            /\ SaidAhead(Story, plan[k]) /\ plan[k].call # id => SaidAhead(Y, plan[k])
            /\ \A h \in BOOLEAN : SaidReply(Story, plan[k], h) => SaidReply(Y, plan[k], h)
      BY <1>3, <1>4, <1>5, <3>1, SaidMore
    <3>9. /\ \A i \in DOMAIN Y : Y[i].ev # "assistant_text_done"
          /\ \A i \in DOMAIN Y : Y[i].step = step /\ Y[i].call = id =>
               Y[i].ev \in {"tool_call_started", "tool_call_delta"}
      BY <1>5, <1>8, <1>9, <3>5
    <3> QED
      BY <3>3, <3>4, <3>7, <3>8, <3>9
  <2> QED
    BY <2>1, <2>2
<1>13. Next1(Y, step, e)
  <2>1. \A i \in DOMAIN Y : Y[i].call = id /\ Y[i].step = step => Follows(Y[i], e)
    <3> SUFFICES ASSUME NEW i \in DOMAIN Y, Y[i].call = id, Y[i].step = step
                 PROVE  Follows(Y[i], e)
      OBVIOUS
    <3>1. Y[i].ev \in {"tool_call_started", "tool_call_delta"} /\ Y[i] \in Event
      BY <1>4, <1>12
    <3> QED
      BY <1>4, <1>5, <3>1, PhaseFacts
  <2> QED
    BY <1>5, <1>12, <2>1 DEF Next1
<1> DEFINE X == Append(Y, e)
<1>14. /\ Followable(X, step)
       /\ \A x \in seen : Announced(X, x)
       /\ Announced(X, id)
       /\ \A k \in DOMAIN X : (k \in DOMAIN Y /\ X[k] = Y[k]) \/ X[k] = e
  BY <1>3, <1>4, <1>12, <1>13, FollowableMore, MoreAnnounced, Entries
<1>15. \A k \in DOMAIN plan :
         /\ SaidAhead(Story, plan[k]) /\ plan[k].call # id => SaidAhead(X, plan[k])
         /\ \A h \in BOOLEAN : SaidReply(Story, plan[k], h) => SaidReply(X, plan[k], h)
  BY <1>4, <1>5, <1>12, SaidMore
<1>16. Story' = X
  BY <1>6
<1> HIDE DEF X
<1>17. Events'
  <2>1. \A k \in DOMAIN X : X[k].ev # "assistant_text_done"
    BY <1>5, <1>12, <1>14
  <2> HIDE DEF Followable, Announced
  <2>2. /\ Followable(Story', step') /\ \A x \in seen' : Announced(Story', x)
        /\ \A k \in DOMAIN Story' : Story'[k].ev # "assistant_text_done"
    BY <1>1, <1>14, <1>16, <2>1
  <2> QED
    BY <2>2 DEF Events, Followable, Followed, AddsUp, Pieces, Sum, Announced, Follows
<1>18. SaidNow(X, plan[pos])
  <2>1. \A k \in DOMAIN X : X[k].step = step /\ X[k].call = id =>
          X[k].ev \in {"tool_call_started", "tool_call_delta", "tool_call_finished"}
    BY <1>5, <1>12, <1>14
  <2> QED
    BY <1>14, <2>1 DEF SaidNow, id
<1>19. ASSUME NEW k \in DOMAIN plan
       PROVE  /\ plan[k].kind = "call" /\ Ahead(k)' =>
                   /\ Ahead(k)
                   /\ SaidAhead(Story, plan[k]) => SaidAhead(X, plan[k])
              /\ plan[k].kind = "respond" =>
                   /\ Ahead(k)' <=> Ahead(k)
                   /\ \A h \in BOOLEAN :
                        SaidReply(Story, plan[k], h) => SaidReply(X, plan[k], h)
  <2>1. (Ahead(k)' <=> k > pos) /\ (Ahead(k) <=> k > pos \/ k = pos)
    BY <1>1, <1>2, AheadFacts
  <2>2. ASSUME plan[k].kind = "call", k > pos PROVE plan[k].call # id
    <3>1. k # pos
      BY <1>2, <2>2
    <3> QED
      BY <1>1, <1>2, <2>2, <3>1 DEF Basics, Plans, id
  <2>3. plan[k].kind = "respond" => k # pos
    BY <1>1
  <2> QED
    BY <1>15, <2>1, <2>2, <2>3
<1>20. pc' \in Carrying
  BY <1>1, StageFacts
<1> QED
  BY <1>1, <1>2, <1>16, <1>17, <1>18, <1>19, <1>20, CarryOn

\* A reply is sent, unless it was streamed.
LEMMA RespondStory ==
  ASSUME Basics, Events, Doing, RespondAction
  PROVE  Events' /\ Answering' /\ Doing'
<1> DEFINE e == Ev("assistant_text_delta", NoCall, plan[pos].data)
<1>1. /\ pc = "acting" /\ pc' = "replying" /\ pos <= Len(plan) /\ plan[pos].kind = "respond"
      /\ UNCHANGED <<provider, step, answer, streamed, seen, plan, pos, tool, buffer,
                     file, inputs, faults>>
  BY DEF RespondAction, Acts
<1>2. pos \in DOMAIN plan /\ pos \in Nat /\ pc \in Carrying /\ pc' \in Carrying
  BY <1>1, ActionFacts, StageFacts
<1>3. /\ TypeOK /\ Story = out /\ out \in Seq(Event) /\ buffer = <<>> /\ step \in Nat
  BY <1>1, NothingCollected, StoryFacts DEF ToolRunning, Basics, Shapes
<1>4. /\ e \in Event /\ out' \in Seq(Event)
      /\ out' = IF ~streamed /\ plan[pos].data # {} THEN Append(out, e) ELSE out
  BY ActStory
<1>5. /\ e.ev = "assistant_text_delta" /\ e.call = NoCall /\ e.step = step
      /\ e.data = plan[pos].data
  BY DEF Ev
<1> HIDE DEF e
<1>6. Story' = out'
  <2>1. Story' = out' \o <<>>
    BY <1>1, <1>3 DEF Story
  <2> QED
    BY <1>4, <2>1, ConcatEmptySeq
<1>7. SaidReply(Story, plan[pos], ~streamed)
  <2>1. SaidReply(Story, plan[pos], Ahead(pos) /\ ~streamed)
    BY <1>1, <1>2 DEF Doing
  <2>2. Ahead(pos) /\ ~streamed <=> ~streamed
    BY <1>1 DEF Ahead
  <2> QED
    BY <2>1, <2>2 DEF SaidReply
<1>8. Events'
  <2>1. CASE ~streamed /\ plan[pos].data # {}
    <3>1. Next1(Story, step, e)
      BY <1>5 DEF Next1
    <3>2. Story' = Append(Story, e) /\ pc # "done" /\ step' = step /\ seen' = seen
      BY <1>1, <1>3, <1>4, <1>6, <2>1
    <3> QED
      BY <1>3, <1>4, <1>5, <3>1, <3>2, SayMore
  <2>2. CASE ~(~streamed /\ plan[pos].data # {})
    <3>1. Story' = Story /\ step' = step /\ seen' = seen
      BY <1>1, <1>3, <1>4, <1>6, <2>2
    <3>2. \A i \in DOMAIN Story : Story[i].ev # "assistant_text_done"
      BY <1>1 DEF Events
    <3> QED
      BY <3>1, <3>2, SameStory
  <2> QED
    BY <2>1, <2>2
<1> DEFINE X == Story'
<1>9. ASSUME NEW k \in DOMAIN plan, k # pos
      PROVE  /\ plan[k].kind = "call" /\ SaidAhead(Story, plan[k]) => SaidAhead(X, plan[k])
             /\ \A h \in BOOLEAN : plan[k].kind = "respond" /\ SaidReply(Story, plan[k], h)
                  => SaidReply(X, plan[k], h)
  <2>1. CASE out' = out
    BY <1>3, <1>6, <2>1
  <2>2. CASE out' = Append(out, e)
    <3>1. X = Append(Story, e)
      BY <1>3, <1>6, <2>2
    <3> HIDE DEF X
    <3>2. plan[k].kind = "call" => e.call # plan[k].call
      BY <1>5 DEF Basics, Plans
    <3>3. plan[k].kind = "respond" => e.data \cap plan[k].data = {}
      BY <1>1, <1>2, <1>5, <1>9 DEF Basics, Plans
    <3> QED
      BY <1>3, <1>4, <3>1, <3>2, <3>3, SaidMore
  <2> QED
    BY <1>4, <2>1, <2>2
<1>10. SaidReply(X, plan[pos], FALSE)
  <2> SUFFICES ASSUME NEW n \in plan[pos].data PROVE Once(X, n, step)
    BY DEF SaidReply
  <2>1. CASE streamed
    <3>1. X = Story
      BY <1>3, <1>4, <1>6, <2>1
    <3> QED
      BY <1>7, <2>1, <3>1 DEF SaidReply
  <2>2. CASE ~streamed
    <3>1. X = Append(Story, e)
      BY <1>3, <1>4, <1>6, <2>2
    <3> HIDE DEF X
    <3>2. Texts(Story, n, step) = {}
      BY <1>7, <2>2 DEF SaidReply
    <3>3. /\ Texts(X, n, step) = Texts(Story, n, step) \cup {Len(Story) + 1}
          /\ Len(Story) + 1 \in DOMAIN X
      <4>1. Story \in Seq(Event) /\ e \in Event /\ n \in e.data /\ e.step = step
            /\ e.ev = "assistant_text_delta"
        BY <1>3, <1>4, <1>5
      <4>2. Texts(Append(Story, e), n, step) = Texts(Story, n, step) \cup {Len(Story) + 1}
        BY <4>1, MoreTexts
      <4>3. Len(Story) + 1 \in DOMAIN Append(Story, e)
        BY <4>1, Entries
      <4> QED
        BY <3>1, <4>2, <4>3
    <3>4. Texts(X, n, step) = {Len(Story) + 1}
      BY <3>2, <3>3
    <3> QED
      BY <3>3, <3>4 DEF Once
  <2> QED
    BY <2>1, <2>2
<1>11. ASSUME NEW k \in DOMAIN plan
       PROVE  /\ (Ahead(k)' <=> k > pos) /\ (Ahead(k) <=> k > pos \/ k = pos)
              /\ k \in Nat
  BY <1>1, <1>2, <1>11, AheadFacts
<1>12. Doing'
  <2>1. ASSUME NEW k \in DOMAIN plan
        PROVE  /\ plan[k].kind = "call" /\ Ahead(k)' => SaidAhead(Story, plan[k])'
               /\ plan[k].kind = "respond" =>
                    SaidReply(Story, plan[k], Ahead(k) /\ ~streamed)'
    <3> DEFINE h == Ahead(k) /\ ~streamed
               g == Ahead(k)' /\ ~streamed'
    <3>1. ASSUME plan[k].kind = "call", Ahead(k)' PROVE SaidAhead(X, plan[k])
      <4>1. k # pos /\ Ahead(k)
        BY <1>2, <1>11, <3>1
      <4>2. SaidAhead(Story, plan[k])
        BY <1>2, <3>1, <4>1 DEF Doing
      <4> HIDE DEF X
      <4> QED
        BY <1>9, <3>1, <4>1, <4>2
    <3>2. ASSUME plan[k].kind = "respond" PROVE SaidReply(X, plan[k], g)
      <4>1. CASE k = pos
        <5>1. ~g
          BY <1>2, <1>11, <4>1
        <5> QED
          BY <1>10, <4>1, <5>1 DEF SaidReply
      <4>2. CASE k # pos
        <5>1. SaidReply(Story, plan[k], h)
          BY <1>2, <3>2 DEF Doing
        <5>2. h <=> g
          BY <1>1, <1>11, <4>2
        <5>3. h \in BOOLEAN
          OBVIOUS
        <5> HIDE DEF X, h
        <5>4. SaidReply(X, plan[k], h)
          BY <1>9, <3>2, <4>2, <5>1, <5>3
        <5> QED
          BY <5>2, <5>4 DEF SaidReply
      <4> QED
        BY <4>1, <4>2
    <3> QED
      BY <1>1, <3>1, <3>2, SaidThen
  <2>2. pc' \notin Busy
    BY <1>1 DEF Busy, ToolRunning
  <2> QED
    BY <1>1, <2>1, <2>2 DEF Doing
<1>13. Answering'
  BY <1>1 DEF Answering
<1> QED
  BY <1>8, <1>12, <1>13

\* An append returns.
LEMMA AppendedTold ==
  ASSUME Basics, Events, Doing, Appended
  PROVE  Events' /\ Answering' /\ Doing'
<1> DEFINE e == Ev(Progress[pc], plan[pos].call, {Len(tool.items)})
<1>1. /\ pc \in Appending /\ UNCHANGED <<plan, step, seen, streamed>>
      /\ pc # "acting" /\ pc # "done" /\ pc \in Carrying /\ pc' \in Carrying
  BY StageFacts DEF Appended
<1>2. \/ /\ pc \in {"calling", "progressing", "noting"} /\ pos' = pos
         /\ pc' \in {"running", "summarising"}
      \/ pc \in {"recording", "replying"} /\ pos' = pos + 1 /\ pc' = "acting"
  BY StageFacts DEF Appended
<1>3. /\ pos \in DOMAIN plan /\ pos \in Nat /\ TypeOK /\ Story \in Seq(Event)
  BY <1>1, ActionFacts, StoryFacts DEF Basics, Shapes
<1>4. \A i \in DOMAIN Story : Story[i].ev # "assistant_text_done"
  BY <1>1 DEF Events
<1>5. ASSUME NEW k \in DOMAIN plan PROVE Ahead(k)' <=> Ahead(k)
  BY <1>1, <1>2, <1>3, AheadFacts
<1>6. CASE pc \in {"progressing", "noting"}
  <2>1. /\ e \in Event /\ e.ev = Progress[pc] /\ e.call = plan[pos].call /\ e.step = step
        /\ Story' = Append(Story, e)
    BY <1>6, AppendedStory, StageFacts
  <2>2. e.ev \in {"tool_progress", "tool_progress_summary"}
    BY <1>6, <2>1, StageFacts
  <2>3. pc \in Busy /\ plan[pos].kind = "call"
    BY <1>1, <1>6 DEF Busy, ToolRunning, Basics, Control
  <2> HIDE DEF e
  <2>4. Events'
    BY <1>1, <2>1, <2>2, <2>3, SayOfCall
  <2>5. SaidNow(Append(Story, e), plan[pos])
    <3>1. SaidNow(Story, plan[pos])
      BY <2>3 DEF Doing
    <3> QED
      BY <1>3, <2>1, <2>2, <3>1, SaidMore
  <2> DEFINE Y == Append(Story, e)
  <2>6. ASSUME NEW k \in DOMAIN plan
        PROVE  /\ plan[k].kind = "call" /\ Ahead(k)' =>
                    /\ Ahead(k)
                    /\ SaidAhead(Story, plan[k]) => SaidAhead(Y, plan[k])
               /\ plan[k].kind = "respond" =>
                    /\ Ahead(k)' <=> Ahead(k)
                    /\ \A h \in BOOLEAN :
                         SaidReply(Story, plan[k], h) => SaidReply(Y, plan[k], h)
    <3>1. Ahead(k)' => k # pos
      BY <1>2, <1>3, <1>6 DEF Ahead
    <3>2. plan[k].kind = "call" /\ k # pos => e.call # plan[k].call
      BY <1>3, <2>1, <2>3 DEF Basics, Plans
    <3>3. e.ev # "assistant_text_delta"
      BY <2>2
    <3> QED
      BY <1>3, <1>5, <2>1, <3>1, <3>2, <3>3, SaidMore
  <2>7. pos' = pos
    BY <1>2, <1>6
  <2>8. Story' = Y /\ SaidNow(Y, plan[pos])
    BY <2>1, <2>5
  <2> HIDE DEF Y
  <2> QED
    BY <1>1, <1>3, <2>4, <2>6, <2>7, <2>8, CarryOn
<1>7. CASE pc \notin {"progressing", "noting"}
  <2>1. Story' = Story
    BY <1>7, AppendedStory, StageFacts
  <2>2. Events'
    BY <1>1, <1>4, <2>1, SameStory
  <2>3. pc' \in Busy => pc \in Busy /\ pos' = pos
    BY <1>2 DEF Busy, ToolRunning
  <2>4. pc' \in Busy => pos \in DOMAIN plan /\ pos' = pos /\ SaidNow(Story, plan[pos])
    BY <1>3, <2>3 DEF Doing
  <2> QED
    BY <1>1, <1>5, <2>1, <2>2, <2>4, CarryOn
<1> QED
  BY <1>6, <1>7

\* A result is told.
LEMMA ToldResultStory ==
  ASSUME Basics, Events, Doing, NEW t, ToldResult(t)
  PROVE  Events' /\ Answering' /\ Doing'
<1> DEFINE e == Ev("tool_result", plan[pos].call, ResultOf(t))
<1>1. /\ pc \in ToolRunning /\ Ended1(t) /\ Answered(t)
      /\ UNCHANGED <<plan, step, seen, streamed, pos>> /\ t.final \in Nat
  BY DEF ToldResult, Ended1, ToolType
<1>2. /\ e \in Event /\ e.ev = "tool_result" /\ e.call = plan[pos].call /\ e.step = step
      /\ Story' = Append(Story, e) /\ pc' = "recording"
  BY <1>1, AnsweredStory
<1>3. /\ pc \in Busy /\ pc \in Carrying /\ pc' \in Carrying /\ pc # "acting" /\ pc' \notin Busy
  BY <1>1, <1>2, StageFacts DEF Busy, ToolRunning
<1>4. /\ pos \in DOMAIN plan /\ pos \in Nat /\ TypeOK /\ Story \in Seq(Event)
      /\ plan[pos].kind = "call"
  BY <1>3, ActionFacts, StoryFacts DEF Basics, Shapes, Control
<1> HIDE DEF e
<1>5. Events'
  BY <1>1, <1>2, <1>3, SayOfCall
<1> DEFINE Y == Append(Story, e)
<1>6. ASSUME NEW k \in DOMAIN plan
      PROVE  /\ plan[k].kind = "call" /\ Ahead(k)' =>
                  /\ Ahead(k)
                  /\ SaidAhead(Story, plan[k]) => SaidAhead(Y, plan[k])
             /\ plan[k].kind = "respond" =>
                  /\ Ahead(k)' <=> Ahead(k)
                  /\ \A h \in BOOLEAN :
                       SaidReply(Story, plan[k], h) => SaidReply(Y, plan[k], h)
  <2>1. (Ahead(k)' <=> k > pos) /\ (Ahead(k) <=> k > pos) /\ k \in Nat
    BY <1>1, <1>2, <1>3, AheadFacts
  <2>2. plan[k].kind = "call" /\ k > pos => e.call # plan[k].call
    <3>1. k > pos => k # pos
      BY <1>4, <2>1
    <3> QED
      BY <1>2, <1>4, <3>1 DEF Basics, Plans
  <2>3. e.ev # "assistant_text_delta"
    BY <1>2
  <2> QED
    BY <1>2, <1>4, <2>1, <2>2, <2>3, SaidMore
<1>7. Story' = Y
  BY <1>2
<1> HIDE DEF Y
<1> QED
  BY <1>1, <1>3, <1>5, <1>6, <1>7, CarryOn

\* A tool runs on.
LEMMA RunsOnStory ==
  ASSUME Basics, Events, Doing, RunsOn
  PROVE  Events' /\ Answering' /\ Doing' /\ Story' = Story
<1>1. /\ pc \in {"running", "summarising"} /\ pc' \in ToolRunning
      /\ UNCHANGED <<step, streamed, seen, plan, pos, buffer, out>>
  BY DEF RunsOn
<1>2. Story' = Story
  BY <1>1 DEF Story
<1>3. /\ pc \in Busy /\ pc \in Carrying /\ pc' \in Carrying /\ pc # "acting" /\ pc' # "acting"
      /\ pc # "done"
  BY <1>1, StageFacts DEF Busy, ToolRunning
<1>4. Events'
  BY <1>1, <1>2, <1>3, SameStory DEF Events
<1>5. pos \in DOMAIN plan /\ SaidNow(Story, plan[pos])
  BY <1>3, ActionFacts DEF Doing
<1>6. ASSUME NEW k \in DOMAIN plan PROVE Ahead(k)' <=> Ahead(k)
  BY <1>1, <1>3, AheadFacts
<1> QED
  BY <1>1, <1>2, <1>3, <1>4, <1>5, <1>6, CarryOn

\* A turn breaks off.
LEMMA BreaksOffStory ==
  ASSUME Basics, Events, BreaksOff
  PROVE  Events' /\ Answering' /\ Doing' /\ Story' = Story
<1>1. /\ pc \notin Ended /\ pc' \in {"failed", "gone"} /\ UNCHANGED <<step, seen, buffer, out>>
  BY DEF BreaksOff
<1>2. Story' = Story
  BY <1>1 DEF Story
<1>3. Events'
  BY <1>1, <1>2, SameStory DEF Events, Ended
<1>4. Answering' /\ Doing'
  BY <1>1, StageFacts DEF Answering, Doing, Busy, ToolRunning
<1> QED
  BY <1>2, <1>3, <1>4

\* A step ends, and with the last one or a reply the turn.
LEMMA EndStepStory ==
  ASSUME Basics, Events, Doing, EndStep
  PROVE  Events' /\ Answering' /\ Doing' /\ (pc' = "done" => ReplyWasStreamed')
<1> DEFINE e == Ev("assistant_text_done", NoCall, plan[final].data)
           f == Ev("turn_done", NoCall, {})
<1>1. /\ Story = out /\ buffer = <<>> /\ pc = "acting" /\ pos > Len(plan) /\ Standing
      /\ UNCHANGED <<provider, answer, streamed, seen, final, tool, buffer, file, inputs,
                     faults>>
  BY EndStory
<1>2. /\ TypeOK /\ Story \in Seq(Event) /\ step \in Nat /\ pc # "done" /\ pc \in Carrying
  BY <1>1, StoryFacts, StageFacts DEF Basics, Shapes
<1>3. /\ Followable(Story, step) /\ \A x \in seen : Announced(Story, x)
      /\ \A i \in DOMAIN Story : Story[i].ev # "assistant_text_done"
  BY <1>1 DEF Events
<1>4. CASE /\ final # 0 /\ pc' = "done" /\ UNCHANGED <<step, plan, pos>>
           /\ e \in Event /\ f \in Event
           /\ Append(out, e) \in Seq(Event) /\ out' = Append(Append(out, e), f)
           /\ out' \in Seq(Event) /\ Story' = out'
           /\ e.ev = "assistant_text_done" /\ e.call = NoCall /\ e.step = step
           /\ e.data = plan[final].data
           /\ f.ev = "turn_done" /\ f.call = NoCall /\ f.step = step
  <2> HIDE DEF e, f
  <2> DEFINE Y == Append(Story, e)
             X == Append(Y, f)
  <2>1. Y \in Seq(Event) /\ Story' = X /\ out' = X /\ X \in Seq(Event)
    BY <1>1, <1>4
  <2>2. Next1(Story, step, e) /\ Next1(Y, step, f)
    BY <1>4 DEF Next1
  <2>3. Followable(Y, step) /\ \A x \in seen : Announced(Y, x)
    BY <1>2, <1>3, <1>4, <2>2, FollowableMore, MoreAnnounced
  <2>4. Followable(X, step) /\ \A x \in seen : Announced(X, x)
    BY <1>2, <1>4, <2>1, <2>2, <2>3, FollowableMore, MoreAnnounced
  <2>5. /\ DOMAIN X = 1 .. Len(Story) + 2 /\ Len(X) = Len(Story) + 2 /\ Len(Story) \in Nat
        /\ X[Len(Story) + 1] = e /\ X[Len(Story) + 2] = f
        /\ \A k \in 1 .. Len(Story) : X[k] = Story[k]
        /\ DOMAIN Story = 1 .. Len(Story)
    <3>1. /\ Len(Y) = Len(Story) + 1 /\ Len(Story) \in Nat /\ Y[Len(Story) + 1] = e
          /\ \A k \in 1 .. Len(Story) : Y[k] = Story[k]
      BY <1>2, <1>4, QueueAppend
    <3> HIDE DEF Y
    <3>2. /\ Len(X) = Len(Y) + 1 /\ X[Len(Y) + 1] = f /\ DOMAIN X = 1 .. Len(Y) + 1
          /\ \A k \in 1 .. Len(Y) : X[k] = Y[k]
      BY <1>4, <2>1, QueueAppend
    <3> HIDE DEF X
    <3> QED
      BY <1>2, <3>1, <3>2
  <2>6. \A n \in plan[final].data : Once(X, n, step)
    <3> SUFFICES ASSUME NEW n \in plan[final].data PROVE Once(X, n, step)
      OBVIOUS
    <3>1. final \in DOMAIN plan /\ plan[final].kind = "respond" /\ ~Ahead(final)
      BY <1>1, <1>2, <1>4 DEF Basics, Control
    <3>2. Once(Story, n, step)
      BY <1>2, <3>1 DEF Doing, SaidReply
    <3>3. Once(Y, n, step)
      BY <1>2, <1>4, <3>2, MoreTexts
    <3> HIDE DEF Y
    <3> QED
      BY <1>4, <2>1, <3>3, MoreTexts
  <2> HIDE DEF X, Y
  <2>7. Events'
    <3> HIDE DEF Followable, Announced
    <3>1. /\ Followable(Story', step') /\ pc' = "done"
          /\ \A x \in seen' : Announced(Story', x)
      BY <1>1, <1>4, <2>1, <2>4
    <3> QED
      BY <3>1 DEF Events, Followable, Followed, AddsUp, Pieces, Sum, Announced, Follows
  <2>8. ReplyWasStreamed'
    <3>1. \A i \in DOMAIN X : X[i].ev = "assistant_text_done" => i = Len(Story) + 1 /\ X[i] = e
      <4> SUFFICES ASSUME NEW i \in DOMAIN X, X[i].ev = "assistant_text_done"
                   PROVE  i = Len(Story) + 1 /\ X[i] = e
        OBVIOUS
      <4>1. i \in 1 .. Len(Story) \/ i = Len(Story) + 1 \/ i = Len(Story) + 2
        BY <2>5
      <4>2. i \notin 1 .. Len(Story)
        BY <1>3, <2>5
      <4>3. i # Len(Story) + 2
        BY <1>4, <2>5
      <4> QED
        BY <2>5, <4>1, <4>2, <4>3
    <3>2. ASSUME NEW n \in plan[final].data
          PROVE  Cardinality({j \in 1 .. Len(Story) + 1 :
                                /\ X[j].ev = "assistant_text_delta" /\ X[j].step = step
                                /\ n \in X[j].data}) = 1
      <4> DEFINE D == {j \in 1 .. Len(Story) + 1 :
                         /\ X[j].ev = "assistant_text_delta" /\ X[j].step = step
                         /\ n \in X[j].data}
      <4>1. PICK i \in DOMAIN X : Texts(X, n, step) = {i}
        BY <2>6, <3>2 DEF Once
      <4>2. i # Len(Story) + 2
        <5>1. X[i].ev = "assistant_text_delta"
          BY <4>1 DEF Texts
        <5> QED
          BY <1>4, <2>5, <5>1
      <4>3. i \in 1 .. Len(Story) + 1
        BY <2>5, <4>1, <4>2
      <4>4. \A j \in 1 .. Len(Story) + 1 : j \in DOMAIN X
        BY <2>5
      <4>5. D = {i}
        BY <4>1, <4>3, <4>4 DEF Texts
      <4> QED
        BY <4>5, FS_Singleton
    <3>3. ASSUME NEW i \in DOMAIN X, X[i].ev = "assistant_text_done"
          PROVE  /\ \A n \in X[i].data :
                      Cardinality({j \in 1 .. i : /\ X[j].ev = "assistant_text_delta"
                                                  /\ X[j].step = X[i].step
                                                  /\ n \in X[j].data}) = 1
                 /\ Len(X) = i + 1
      <4>1. i = Len(Story) + 1 /\ X[i] = e
        BY <3>1, <3>3
      <4>2. X[i].data = plan[final].data /\ X[i].step = step
        BY <1>4, <4>1
      <4>3. Len(X) = i + 1
        BY <2>5, <4>1
      <4> QED
        BY <3>2, <4>1, <4>2, <4>3
    <3> QED
      BY <2>1, <3>3 DEF ReplyWasStreamed
  <2> QED
    BY <1>4, <2>7, <2>8, StageFacts DEF Answering, Doing, Busy, ToolRunning
<1>5. CASE /\ final = 0 /\ pc' = "done" /\ UNCHANGED <<step, plan, pos>>
           /\ out' = out /\ Story' = Story
  <2>1. Events'
    BY <1>1, <1>2, <1>3, <1>5, SameStory
  <2>2. ReplyWasStreamed
    BY <1>2, NoReplyYet
  <2>3. ReplyWasStreamed'
    BY <1>5, <2>2 DEF ReplyWasStreamed
  <2> QED
    BY <1>5, <2>1, <2>3, StageFacts DEF Answering, Doing, Busy, ToolRunning
<1>6. CASE /\ final = 0 /\ pc' = "deciding" /\ step' = step + 1
           /\ plan' = <<>> /\ pos' = 0 /\ out' = out /\ Story' = Story
  <2>1. \A i \in DOMAIN Story : Story[i].step <= step /\ Story[i].step \in Nat
    <3>1. \A i \in DOMAIN Story : Story[i] \in Event
      BY <1>2
    <3>2. \A x \in Event : x.step \in Nat
      BY DEF Event
    <3> QED
      BY <1>3, <3>1, <3>2 DEF Followable
  <2>2. Followable(Story, step + 1)
    BY <1>2, <1>3, <2>1 DEF Followable
  <2>3. Events'
    <3> HIDE DEF Followable, Announced
    <3>1. /\ Followable(Story', step') /\ \A x \in seen' : Announced(Story', x)
          /\ \A i \in DOMAIN Story' : Story'[i].ev # "assistant_text_done"
      BY <1>1, <1>3, <1>6, <2>2
    <3> QED
      BY <3>1 DEF Events, Followable, Followed, AddsUp, Pieces, Sum, Announced, Follows
  <2>4. Answering'
    <3>1. DOMAIN answer'.ids = {} /\ answer'.text = 0
      BY <1>1 DEF Standing, Nothing
    <3>2. \A i \in DOMAIN Story' : Story'[i].step # step'
      BY <1>2, <1>6, <2>1
    <3> QED
      BY <3>1, <3>2 DEF Answering
  <2>5. Doing'
    BY <1>6, StageFacts DEF Doing, Busy, ToolRunning
  <2> QED
    BY <1>6, <2>3, <2>4, <2>5
<1> QED
  BY <1>4, <1>5, <1>6, EndStory

\* Every step keeps what is said of the events.
LEMMA StepEvents ==
  ASSUME Basics, Events, Answering, Doing, pc = "done" => ReplyWasStreamed, [Next]_vars
  PROVE  Events' /\ Answering' /\ Doing' /\ (pc' = "done" => ReplyWasStreamed')
<1>1. CASE UNCHANGED vars
  <2>1. UNCHANGED <<pc, step, answer, streamed, seen, plan, pos, buffer, out>>
    BY <1>1 DEF vars
  <2>2. Story' = Story
    BY <2>1 DEF Story
  <2>3. Events'
    BY <2>1, <2>2, SameStory DEF Events
  <2>4. Answering'
    BY <2>1, <2>2 DEF Answering, Sum, Pieces, Once, Texts
  <2>5. \A k : Ahead(k)' <=> Ahead(k)
    BY <2>1 DEF Ahead
  <2>6. ASSUME NEW k \in DOMAIN plan, pc \in Carrying
        PROVE  /\ plan[k].kind = "call" /\ Ahead(k)' => SaidAhead(Story, plan[k])'
               /\ plan[k].kind = "respond" =>
                    SaidReply(Story, plan[k], Ahead(k) /\ ~streamed)'
    <3>1. /\ plan[k].kind = "call" /\ Ahead(k)' => SaidAhead(Story', plan'[k])
          /\ plan[k].kind = "respond" => SaidReply(Story', plan'[k], Ahead(k)' /\ ~streamed')
      BY <2>1, <2>2, <2>5, <2>6 DEF Doing, SaidReply
    <3> QED
      BY <2>1, <3>1, SaidThen
  <2>7. ASSUME pc \in Busy PROVE SaidNow(Story, plan[pos])'
    BY <2>1, <2>2, <2>7 DEF Doing, SaidNow, Announced
  <2>8. Doing'
    BY <2>1, <2>6, <2>7 DEF Doing
  <2>9. pc' = "done" => ReplyWasStreamed'
    BY <2>1 DEF ReplyWasStreamed
  <2> QED
    BY <2>3, <2>4, <2>8, <2>9
<1>2. CASE Next
  <2>1. CASE EndStep
    BY <2>1, EndStepStory
  <2>2. CASE \E t : ToldResult(t)
    <3>1. pc' # "done"
      BY <2>2 DEF ToldResult, Answered
    <3> QED
      BY <2>2, <3>1, ToldResultStory
  <2>3. CASE \E i \in Indices, function, piece \in BOOLEAN :
               \E given \in {NoCall, OwnId(i)} : ToolChunk(i, given, function, piece)
    <3>1. pc' # "done"
      BY <2>3 DEF ToolChunk, Chunk
    <3> QED
      BY <2>3, <3>1, ToolChunkEvents
  <2>4. CASE TextChunk
    BY <2>4, TextChunkStory DEF TextChunk, Chunk
  <2>5. CASE StreamEnds \/ WholeAnswer
    <3>1. pc' # "done"
      BY <2>5, StreamPlan, WholePlan DEF Decided
    <3> QED
      BY <2>5, <3>1, AnswerStory
  <2>6. CASE CallFunction
    BY <2>6, CallFunctionStory DEF CallFunction
  <2>7. CASE RespondAction
    BY <2>7, RespondStory DEF RespondAction
  <2>8. CASE Appended
    BY <2>8, AppendedTold DEF Appended
  <2>9. CASE RunsOn
    BY <2>9, RunsOnStory DEF RunsOn, ToolRunning
  <2>10. CASE BreaksOff
    BY <2>10, BreaksOffStory DEF BreaksOff
  <2> QED
    BY <1>2, <2>1, <2>2, <2>3, <2>4, <2>5, <2>6, <2>7, <2>8, <2>9, <2>10, Steps
<1> QED
  BY <1>1, <1>2

-----------------------------------------------------------------------------
(* The file. *)

\* What was told and logged after a step.
LEMMA ToldThen ==
  ASSUME NEW type
  PROVE  /\ Told(out, type)' = Told(out', type)
         /\ Told(Story, type)' = Told(Story', type)
         /\ Results(out)' = Results(out') /\ Results(Story)' = Results(Story')
<1> HIDE DEF Story
<1>1. Told(out, type)' = Told(out', type) /\ Told(Story, type)' = Told(Story', type)
  BY DEF Told, Data
<1>2. Results(out)' = Results(out') /\ Results(Story)' = Results(Story')
  BY DEF Results, Told, Data
<1> QED
  BY <1>1, <1>2

\* The events that are logged.
Logs == {"tool_result", "tool_progress", "tool_progress_summary"}

\* What is told and logged are sequences of data.
LEMMA FileTypes ==
  ASSUME TypeOK, NEW type
  PROVE  /\ Told(out, type) \in Seq(SUBSET Nat) /\ Told(Story, type) \in Seq(SUBSET Nat)
         /\ Logged(type) \in Seq(SUBSET Nat)
<1>1. Told(out, type) \in Seq(SUBSET Nat) /\ Told(Story, type) \in Seq(SUBSET Nat)
  <2> SUFFICES ASSUME NEW Z \in Seq(Event) PROVE Told(Z, type) \in Seq(SUBSET Nat)
    BY StoryFacts
  <2> DEFINE K == {i \in DOMAIN Z : Z[i].ev = type}
             d == [i \in DOMAIN Z |-> Z[i].data]
  <2>1. d \in Seq(SUBSET Nat) /\ K \in SUBSET (DOMAIN d)
    <3>1. \A i \in DOMAIN Z : Z[i].data \in SUBSET Nat
      <4>1. \A i \in DOMAIN Z : Z[i] \in Event
        OBVIOUS
      <4> QED
        BY <4>1 DEF Event
    <3>2. DOMAIN Z = 1 .. Len(Z) /\ Len(Z) \in Nat
      OBVIOUS
    <3> QED
      BY <3>1, <3>2
  <2>2. Told(Z, type) = Subsequence(d, K)
    BY DEF Told, Data
  <2> DEFINE T == SUBSET Nat
  <2>3. d \in Seq(T)
    BY <2>1
  <2> HIDE DEF d, K, T
  <2>4. Subsequence(d, K) \in Seq(T)
    BY <2>1, <2>3, SubsequenceType
  <2> QED
    BY <2>2, <2>4 DEF T
<1>2. Logged(type) \in Seq(SUBSET Nat)
  <2> DEFINE K == {i \in DOMAIN file : file[i].type = type}
             d == [i \in DOMAIN file |-> file[i].data]
  <2>1. d \in Seq(SUBSET Nat) /\ K \in SUBSET (DOMAIN d)
    <3>0. file \in Seq(Row)
      BY DEF TypeOK
    <3>1. \A i \in DOMAIN file : file[i].data \in SUBSET Nat
      <4>1. \A i \in DOMAIN file : file[i] \in Row
        BY <3>0
      <4> QED
        BY <4>1 DEF Row
    <3>2. DOMAIN file = 1 .. Len(file) /\ Len(file) \in Nat
      BY <3>0
    <3> QED
      BY <3>1, <3>2
  <2>2. Logged(type) = Subsequence(d, K)
    BY DEF Logged, Data
  <2> DEFINE T == SUBSET Nat
  <2>3. d \in Seq(T)
    BY <2>1
  <2> HIDE DEF d, K, T
  <2>4. Subsequence(d, K) \in Seq(T)
    BY <2>1, <2>3, SubsequenceType
  <2> QED
    BY <2>2, <2>4 DEF T
<1> QED
  BY <1>1, <1>2

\* A step that tells and logs nothing of a tool.
LEMMA QuietFiled ==
  ASSUME Filed, file' = file, faults' = faults,
         pc \notin {"recording", "failed", "gone"},
         pc' \notin {"recording", "failed", "gone"},
         \A type \in Logs : /\ Told(out', type) = Told(out, type)
                            /\ Told(Story', type) = Told(Story, type)
  PROVE  Filed'
<1>1. \A type \in Logs : /\ Told(out, type)' = Told(out, type)
                         /\ Told(Story, type)' = Told(Story, type)
  BY ToldThen
<1>2. Results(out)' = Results(out) /\ Results(Story)' = Results(Story)
  BY ToldThen DEF Results, Logs
<1>3. \A type : Logged(type)' = Logged(type)
  BY DEF Logged, Data
<1> HIDE DEF Results, Told, Logged, Story
<1> QED
  BY <1>1, <1>2, <1>3 DEF Filed, Logs

\* What an event of another kind tells of tools.
LEMMA TellsNothing ==
  ASSUME NEW Z \in Seq(Event), NEW e \in Event, e.ev \notin Logs
  PROVE  \A type \in Logs : Told(Append(Z, e), type) = Told(Z, type)
BY ToldMore

\* An append returns.
LEMMA AppendedFiled ==
  ASSUME Basics, Filed, Appended
  PROVE  Filed'
<1> DEFINE e == Ev(Progress[pc], plan[pos].call, {Len(tool.items)})
<1>1. /\ pc \in Appending /\ file' = Append(file, RowNow) /\ faults' = faults /\ out' = out
      /\ pc \notin {"failed", "gone"} /\ pc' \notin {"recording", "failed", "gone"}
  BY StageFacts DEF Appended
<1>2. TypeOK /\ Story \in Seq(Event) /\ file \in Seq(Row) /\ RowNow \in Row
  BY <1>1, StoryFacts, RowFacts DEF Basics, Shapes
<1>3. /\ RowNow.type = RowType[pc]
      /\ pc = "recording" => RowNow.data = ResultOf(tool)
      /\ pc \in {"progressing", "noting"} => RowNow.data = {Len(tool.items)}
  BY <1>1, RowFacts
<1>4. /\ pc \in {"progressing", "noting"} =>
           /\ e \in Event /\ e.ev = Progress[pc] /\ e.data = {Len(tool.items)}
           /\ Story' = Append(Story, e)
      /\ pc \notin {"progressing", "noting"} => Story' = Story
  BY AppendedStory, StageFacts
<1>5. \A type : Logged(type)' =
        IF RowType[pc] = type THEN Append(Logged(type), RowNow.data) ELSE Logged(type)
  BY <1>1, <1>2, <1>3, LoggedMore
<1>6. \A type : Told(out, type)' = Told(out, type) /\ Told(Story, type)' = Told(Story', type)
  BY <1>1, ToldThen
<1>7. Results(out)' = Results(out) /\ Results(Story)' = Told(Story', "tool_result")
  BY <1>6 DEF Results
<1>8. \A type : /\ Told(out, type) \in Seq(SUBSET Nat) /\ Told(Story, type) \in Seq(SUBSET Nat)
                /\ Logged(type) \in Seq(SUBSET Nat)
  BY <1>2, FileTypes
<1>9. Results(Story) = Told(Story, "tool_result") /\ Results(out) = Told(out, "tool_result")
  BY DEF Results
<1> DEFINE T == SUBSET Nat
<1>10. /\ \A type : /\ Told(out, type) \in Seq(T) /\ Told(Story, type) \in Seq(T)
                    /\ Logged(type) \in Seq(T)
  BY <1>8
<1>11. RowNow.data \in T
  BY <1>2 DEF Row
<1> HIDE DEF Results, Told, Logged, Story, e, T
<1>12. CASE pc \in {"calling", "replying"}
  <2>1. \A type \in Logs \cup {"assistant_progress"} : Logged(type)' = Logged(type)
    BY <1>5, <1>12, StageFacts DEF Logs
  <2>2. Story' = Story
    BY <1>4, <1>12
  <2>3. \A type : Told(Story, type)' = Told(Story, type)
    BY <1>6, <2>2
  <2>4. Results(Story)' = Results(Story)
    BY <1>7, <1>9, <2>2
  <2> QED
    BY <1>1, <1>6, <1>7, <1>12, <2>1, <2>3, <2>4 DEF Filed, Logs
<1>13. CASE pc = "recording"
  <2>1. /\ Logged("tool_result")' = Append(Logged("tool_result"), ResultOf(tool))
        /\ Logged("tool_progress")' = Logged("tool_progress")
        /\ Logged("assistant_progress")' = Logged("assistant_progress")
    BY <1>3, <1>5, <1>13, StageFacts
  <2>2. Story' = Story
    BY <1>4, <1>13
  <2>3. \A type : Told(Story, type)' = Told(Story, type)
    BY <1>6, <2>2
  <2>4. Results(Story)' = Results(Story) /\ Results(Story) = Logged("tool_result")'
    BY <1>7, <1>9, <1>13, <2>1, <2>2 DEF Filed
  <2>5. IsPrefix(Logged("tool_result")', Results(out)')
    <3>1. Logged("tool_result")' = Results(out) /\ Results(out)' = Results(out)
      BY <1>7, <2>4 DEF Filed
    <3>2. Results(out) \in Seq(T)
      BY <1>9, <1>10
    <3>3. IsPrefix(Results(out), Results(out))
      BY <1>11, <3>2, PrefixFacts
    <3> QED
      BY <3>1, <3>3
  <2>6. Len(Results(out)') <= Len(Logged("tool_result")') + 1
    <3>1. Logged("tool_result")' = Results(out) /\ Results(out)' = Results(out)
      BY <1>7, <2>4 DEF Filed
    <3>2. Len(Results(out)) \in Nat
      BY <1>9, <1>10
    <3> QED
      BY <3>1, <3>2
  <2> QED
    BY <1>1, <1>6, <1>7, <1>13, <2>1, <2>3, <2>4, <2>5, <2>6 DEF Filed
<1>14. CASE pc \in {"progressing", "noting"}
  <2>1. /\ e \in Event /\ e.ev = Progress[pc] /\ e.data = RowNow.data /\ Story' = Append(Story, e)
    BY <1>3, <1>4, <1>14
  <2>2. \A type : Told(Story, type)' =
          IF Progress[pc] = type THEN Append(Told(Story, type), RowNow.data) ELSE Told(Story, type)
    BY <1>2, <1>6, <2>1, ToldMore
  <2>3. /\ Logged("tool_result")' = Logged("tool_result")
        /\ Results(Story)' = Results(Story)
    <3>1. Told(Story, "tool_result")' = Told(Story, "tool_result")
      BY <1>14, <2>2, StageFacts
    <3>2. Logged("tool_result")' = Logged("tool_result")
      BY <1>5, <1>14, StageFacts
    <3> QED
      BY <1>6, <1>7, <1>9, <3>1, <3>2
  <2>4. CASE pc = "progressing"
    <3>1. /\ Told(Story, "tool_progress")' = Append(Told(Story, "tool_progress"), RowNow.data)
          /\ Told(Story, "tool_progress_summary")' = Told(Story, "tool_progress_summary")
          /\ Logged("tool_progress")' = Append(Logged("tool_progress"), RowNow.data)
          /\ Logged("assistant_progress")' = Logged("assistant_progress")
      BY <1>5, <2>2, <2>4, StageFacts
    <3>2. ASSUME faults = 0 PROVE IsPrefix(Told(out, "tool_progress"), Logged("tool_progress")')
      <4>1. IsPrefix(Told(out, "tool_progress"), Logged("tool_progress"))
        BY <3>2 DEF Filed
      <4>2. /\ Told(out, "tool_progress") \in Seq(T) /\ Logged("tool_progress") \in Seq(T)
            /\ RowNow.data \in T
        BY <1>10, <1>11
      <4>3. IsPrefix(Told(out, "tool_progress"), Append(Logged("tool_progress"), RowNow.data))
        BY <4>1, <4>2, PrefixFacts
      <4> QED
        BY <3>1, <4>3
    <3> QED
      BY <1>1, <1>6, <1>7, <2>3, <2>4, <3>1, <3>2 DEF Filed
  <2>5. CASE pc = "noting"
    <3>1. /\ Told(Story, "tool_progress_summary")'
               = Append(Told(Story, "tool_progress_summary"), RowNow.data)
          /\ Told(Story, "tool_progress")' = Told(Story, "tool_progress")
          /\ Logged("assistant_progress")' = Append(Logged("assistant_progress"), RowNow.data)
          /\ Logged("tool_progress")' = Logged("tool_progress")
      BY <1>5, <2>2, <2>5, StageFacts
    <3> QED
      BY <1>1, <1>6, <1>7, <2>3, <2>5, <3>1 DEF Filed
  <2> QED
    BY <1>14, <2>4, <2>5
<1> QED
  BY <1>1, <1>12, <1>13, <1>14, StageFacts

\* A result is told.
LEMMA ToldResultFiled ==
  ASSUME Basics, Filed, NEW t, ToldResult(t)
  PROVE  Filed'
<1> DEFINE e == Ev("tool_result", plan[pos].call, ResultOf(t))
           T == SUBSET Nat
<1>1. /\ pc \in ToolRunning /\ Answered(t) /\ t.final \in Nat
      /\ \/ file' = file /\ faults' = faults
         \/ /\ pc \in {"progressing", "noting"} /\ faults' = faults + 1
            /\ file' \in {file, Append(file, RowNow)}
  BY DEF ToldResult, Ended1, ToolType
<1>2. /\ e \in Event /\ e.ev = "tool_result" /\ e.data = ResultOf(t)
      /\ out' = Append(Story, e) /\ Story' = out' /\ pc' = "recording" /\ tool' = t
  BY <1>1, AnsweredStory
<1>3. /\ TypeOK /\ Story \in Seq(Event) /\ file \in Seq(Row) /\ faults \in Nat
  BY StoryFacts DEF Basics, Shapes, TypeOK
<1>4. ResultOf(t) \in T
  BY <1>1, ResultFacts
<1>5. pc \notin {"recording", "failed", "gone"}
  BY <1>1 DEF ToolRunning
<1>6. /\ Logged("tool_result")' = Logged("tool_result")
      /\ faults' = 0 => /\ faults = 0
                        /\ Logged("tool_progress")' = Logged("tool_progress")
                        /\ Logged("assistant_progress")' = Logged("assistant_progress")
  <2>1. CASE file' = file
    <3>1. \A type : Logged(type)' = Logged(type)
      BY <2>1 DEF Logged, Data
    <3> QED
      BY <1>1, <1>3, <3>1
  <2>2. CASE /\ pc \in {"progressing", "noting"} /\ faults' = faults + 1
             /\ file' = Append(file, RowNow)
    <3>1. RowNow \in Row /\ RowNow.type # "tool_result"
      BY <2>2, RowFacts, StageFacts
    <3>2. Logged("tool_result")' = Logged("tool_result")
      BY <1>3, <2>2, <3>1, LoggedMore
    <3> QED
      BY <1>3, <2>2, <3>2
  <2> QED
    BY <1>1, <2>1, <2>2
<1>7. /\ \A type : /\ Told(Story, type) \in Seq(T) /\ Logged(type) \in Seq(T)
      /\ Results(Story) = Told(Story, "tool_result")
  BY <1>3, FileTypes DEF Results
<1>8. ResultOf(tool)' = ResultOf(t)
  BY <1>2 DEF ResultOf
<1>9. \A type : Told(Append(Story, e), type) =
        IF type = "tool_result" THEN Append(Told(Story, type), ResultOf(t)) ELSE Told(Story, type)
  BY <1>2, <1>3, ToldMore
<1>10. /\ \A type : /\ Told(out, type)' = Told(Append(Story, e), type)
                    /\ Told(Story, type)' = Told(Append(Story, e), type)
       /\ Results(out)' = Told(Append(Story, e), "tool_result")
       /\ Results(Story)' = Told(Append(Story, e), "tool_result")
  BY <1>2, ToldThen DEF Results
<1> HIDE DEF Results, Told, Logged, Story, T, e
<1>11. /\ Results(Story) = Logged("tool_result")
       /\ faults = 0 => /\ Told(Story, "tool_progress") = Logged("tool_progress")
                        /\ Told(Story, "tool_progress_summary") = Logged("assistant_progress")
  BY <1>5 DEF Filed
<1>12. /\ Results(out)' = Append(Logged("tool_result"), ResultOf(t))
       /\ Results(Story)' = Append(Logged("tool_result"), ResultOf(t))
       /\ Told(out, "tool_progress")' = Told(Story, "tool_progress")
       /\ Told(Story, "tool_progress")' = Told(Story, "tool_progress")
       /\ Told(Story, "tool_progress_summary")' = Told(Story, "tool_progress_summary")
  BY <1>7, <1>9, <1>10, <1>11
<1>13. /\ IsPrefix(Logged("tool_result"), Append(Logged("tool_result"), ResultOf(t)))
       /\ Len(Append(Logged("tool_result"), ResultOf(t))) = Len(Logged("tool_result")) + 1
       /\ Len(Logged("tool_result")) \in Nat
       /\ IsPrefix(Logged("tool_progress"), Logged("tool_progress"))
  BY <1>4, <1>7, PrefixFacts
<1>14. faults' = 0 => IsPrefix(Told(out, "tool_progress")', Logged("tool_progress")')
  BY <1>6, <1>11, <1>12, <1>13
<1>15. IsPrefix(Logged("tool_result")', Results(out)')
  BY <1>6, <1>12, <1>13
<1>16. Len(Results(out)') <= Len(Logged("tool_result")') + 1
  BY <1>6, <1>12, <1>13
<1>17. Results(Story)' = Append(Logged("tool_result")', ResultOf(tool)')
  BY <1>6, <1>8, <1>12
<1>18. faults' = 0 => /\ Told(Story, "tool_progress")' = Logged("tool_progress")'
                      /\ Told(Story, "tool_progress_summary")' = Logged("assistant_progress")'
  BY <1>6, <1>11, <1>12
<1> HIDE DEF ResultOf
<1> QED
  BY <1>2, <1>12, <1>14, <1>15, <1>16, <1>17, <1>18 DEF Filed

\* A turn breaks off.
LEMMA BreaksOffFiled ==
  ASSUME Basics, Filed, BreaksOff
  PROVE  Filed'
<1> DEFINE T == SUBSET Nat
<1>1. /\ pc \notin Ended /\ pc' \in {"failed", "gone"} /\ UNCHANGED <<buffer, out>>
      /\ file' = file \/ (pc \in Appending /\ file' = Append(file, RowNow))
      /\ faults' = faults \/ faults' = faults + 1
      /\ pc' = "failed" => (faults' = faults => file' = file)
  BY DEF BreaksOff
<1>2. TypeOK /\ file \in Seq(Row) /\ faults \in Nat /\ Story' = Story
  BY <1>1 DEF Basics, Shapes, TypeOK, Story
<1>3. faults' = 0 => faults = 0 /\ faults' = faults
  BY <1>1, <1>2
<1>4. \A type : /\ Told(out, type)' = Told(out, type) /\ Told(Story, type)' = Told(Story, type)
  BY <1>1, <1>2, ToldThen
<1>5. /\ Results(out)' = Results(out) /\ Results(Story)' = Results(Story)
      /\ Results(out) = Told(out, "tool_result")
  BY <1>1, <1>2, ToldThen DEF Results
<1>6. \A type : Told(out, type) \in Seq(T) /\ Logged(type) \in Seq(T)
  BY <1>2, FileTypes
<1>7. CASE file' = file
  <2>1. \A type : Logged(type)' = Logged(type)
    BY <1>7 DEF Logged, Data
  <2> HIDE DEF Results, Told, Logged, Story
  <2> QED
    BY <1>1, <1>3, <1>4, <1>5, <2>1 DEF Filed, Ended
<1>8. CASE pc \in Appending /\ file' = Append(file, RowNow)
  <2>1. /\ RowNow \in Row /\ RowNow.type = RowType[pc] /\ RowNow.data \in T
        /\ pc = "recording" => RowNow.data = ResultOf(tool)
    <3>1. \A r \in Row : r.data \in T
      BY DEF Row
    <3> QED
      BY <1>8, <3>1, RowFacts
  <2>2. \A type : Logged(type)' =
          IF RowType[pc] = type THEN Append(Logged(type), RowNow.data) ELSE Logged(type)
    BY <1>2, <1>8, <2>1, LoggedMore
  <2> HIDE DEF Results, Told, Logged, Story, T
  <2>3. faults' = 0 => pc' = "gone"
    <3>1. file' # file
      <4>1. Len(file') = Len(file) + 1 /\ Len(file) \in Nat
        BY <1>2, <1>8, <2>1, QueueAppend
      <4> QED
        BY <4>1
    <3> QED
      BY <1>1, <1>3, <3>1
  <2>4. faults' = 0 => IsPrefix(Told(out, "tool_progress")', Logged("tool_progress")')
    <3> SUFFICES ASSUME faults' = 0
                 PROVE  IsPrefix(Told(out, "tool_progress")', Logged("tool_progress")')
      OBVIOUS
    <3>1. IsPrefix(Told(out, "tool_progress"), Logged("tool_progress"))
      BY <1>3 DEF Filed
    <3>2. Told(out, "tool_progress") \in Seq(T) /\ Logged("tool_progress") \in Seq(T)
      BY <1>6
    <3>3. IsPrefix(Told(out, "tool_progress"), Append(Logged("tool_progress"), RowNow.data))
      BY <2>1, <3>1, <3>2, PrefixFacts
    <3> QED
      BY <1>4, <2>2, <3>1, <3>3
  <2>5. /\ IsPrefix(Logged("tool_result")', Results(out)')
        /\ Len(Results(out)') <= Len(Logged("tool_result")') + 1
    <3>1. CASE pc = "recording"
      <4>1. Logged("tool_result")' = Append(Logged("tool_result"), ResultOf(tool))
        BY <2>1, <2>2, <3>1, StageFacts
      <4>2. Results(out) = Append(Logged("tool_result"), ResultOf(tool))
        BY <3>1 DEF Filed
      <4>3. Logged("tool_result")' = Results(out)'
        BY <1>5, <4>1, <4>2
      <4>4. IsPrefix(Results(out), Results(out)) /\ Len(Results(out)) \in Nat
        BY <1>5, <1>6, <2>1, PrefixFacts
      <4> QED
        BY <1>5, <4>3, <4>4
    <3>2. CASE pc # "recording"
      <4>1. Logged("tool_result")' = Logged("tool_result")
        BY <1>8, <2>2, <3>2, StageFacts
      <4> QED
        BY <1>5, <4>1 DEF Filed
    <3> QED
      BY <3>1, <3>2
  <2> QED
    BY <1>1, <1>5, <2>3, <2>4, <2>5 DEF Filed
<1> QED
  BY <1>1, <1>7, <1>8

\* Between the tools nothing is told or logged of one.
LEMMA SentFiled ==
  ASSUME Basics, Filed, pc \in {"deciding", "acting"}, buffer' = buffer, file' = file,
         faults' = faults, pc' \notin {"recording", "failed", "gone"}, out' \in Seq(Event),
         \A type \in Logs : Told(out', type) = Told(out, type)
  PROVE  Filed'
<1>1. Story = out /\ buffer = <<>>
  BY NothingCollected DEF ToolRunning
<1>2. Story' = out'
  <2>1. Story' = out' \o <<>>
    BY <1>1 DEF Story
  <2> QED
    BY <2>1, ConcatEmptySeq
<1>3. pc \notin {"recording", "failed", "gone"}
  OBVIOUS
<1>4. \A type \in Logs : /\ Told(out', type) = Told(out, type)
                         /\ Told(Story', type) = Told(Story, type)
  BY <1>1, <1>2
<1> QED
  BY <1>3, <1>4, QuietFiled

\* A chunk about a call tells of no result.
LEMMA ToolChunkTells ==
  ASSUME Basics, NEW i \in Indices, NEW piece \in BOOLEAN,
         NEW given \in {NoCall, OwnId(i)}, ToolChunk(i, given, TRUE, piece)
  PROVE  out' \in Seq(Event) /\ \A type \in Logs : Told(out', type) = Told(out, type)
<1> DEFINE id   == IdOf(i, given)
           args == IF i \in DOMAIN answer.args THEN answer.args[i] ELSE 0
           n    == IF piece THEN args + 1 ELSE args
           b    == Ev("tool_call_started", id, {})
           e    == Ev("tool_call_delta", id, args + 1 .. n)
           Y    == IF id \in seen THEN out ELSE Append(out, b)
<1>1. /\ b \in Event /\ e \in Event /\ Y \in Seq(Event)
      /\ out' = Append(Y, e) /\ out' \in Seq(Event)
  BY ToolChunkStory
<1>2. out \in Seq(Event)
  BY DEF Basics, Shapes, TypeOK
<1>3. b.ev \notin Logs /\ e.ev \notin Logs
  BY DEF Ev, Logs
<1>4. Y = out \/ Y = Append(out, b)
  OBVIOUS
<1> HIDE DEF Y, e, b, id, args, n
<1>5. \A type \in Logs : Told(Y, type) = Told(out, type)
  <2>1. \A type \in Logs : Told(Append(out, b), type) = Told(out, type)
    BY <1>1, <1>2, <1>3, TellsNothing
  <2> QED
    BY <1>4, <2>1
<1>6. \A type \in Logs : Told(out', type) = Told(Y, type)
  BY <1>1, <1>3, TellsNothing
<1> QED
  BY <1>1, <1>5, <1>6

\* Every step keeps the client and the file together.
LEMMA StepFiled ==
  ASSUME Basics, Filed, [Next]_vars
  PROVE  Filed'
<1>0. TypeOK /\ out \in Seq(Event)
  BY DEF Basics, Shapes, TypeOK
<1>1. CASE UNCHANGED vars
  <2>1. UNCHANGED <<pc, tool, buffer, out, file, faults>>
    BY <1>1 DEF vars
  <2>2. Story' = Story
    BY <2>1 DEF Story
  <2>3. \A type : /\ Told(out, type)' = Told(out, type) /\ Told(Story, type)' = Told(Story, type)
                  /\ Logged(type)' = Logged(type)
    BY <2>1, <2>2, ToldThen DEF Logged, Data
  <2>4. Results(out)' = Results(out) /\ Results(Story)' = Results(Story)
    BY <2>1, <2>2, ToldThen
  <2>5. ResultOf(tool)' = ResultOf(tool)
    BY <2>1 DEF ResultOf
  <2> HIDE DEF Results, Told, Logged, Story, ResultOf
  <2> QED
    BY <2>1, <2>3, <2>4, <2>5 DEF Filed
<1>2. CASE TextChunk
  <2> DEFINE e == Ev("assistant_text_delta", NoCall, {answer.text + 1})
  <2>1. /\ pc = "deciding" /\ pc' = "deciding" /\ buffer' = buffer /\ file' = file
        /\ faults' = faults /\ out' = Append(out, e)
    BY <1>2 DEF TextChunk, Chunk
  <2>2. e \in Event /\ e.ev \notin Logs
    <3>1. answer.text \in Nat
      BY TurnStreamAssumption DEF Basics, Shapes, TypeOK
    <3>2. /\ {answer.text + 1} \in SUBSET Nat /\ NoCall \in CallId \cup {NoCall}
          /\ "assistant_text_delta" \in EventType
      BY <3>1 DEF EventType
    <3>3. e \in Event
      BY <1>0, <3>2, EvFacts
    <3>4. e.ev \notin Logs
      BY DEF Ev, Logs
    <3> QED
      BY <3>3, <3>4
  <2> HIDE DEF e
  <2>3. out' \in Seq(Event) /\ \A type \in Logs : Told(out', type) = Told(out, type)
    BY <1>0, <2>1, <2>2, TellsNothing, QueueAppend
  <2> QED
    BY <2>1, <2>3, SentFiled
<1>3. ASSUME NEW i \in Indices, NEW function \in BOOLEAN, NEW piece \in BOOLEAN,
             NEW given \in {NoCall, OwnId(i)}, ToolChunk(i, given, function, piece)
      PROVE  Filed'
  <2>1. /\ pc = "deciding" /\ pc' = "deciding" /\ buffer' = buffer /\ file' = file
        /\ faults' = faults
    BY <1>3 DEF ToolChunk, Chunk
  <2>2. out' \in Seq(Event) /\ \A type \in Logs : Told(out', type) = Told(out, type)
    <3>1. CASE ~function
      <4>1. out' = out
        BY <1>3, <3>1 DEF ToolChunk
      <4> QED
        BY <1>0, <4>1
    <3>2. CASE function
      <4>1. function = TRUE
        BY <3>2
      <4>2. ToolChunk(i, given, TRUE, piece)
        BY <1>3, <4>1
      <4> QED
        BY <4>2, ToolChunkTells
    <3> QED
      BY <3>1, <3>2
  <2> QED
    BY <2>1, <2>2, SentFiled
<1>4. CASE StreamEnds \/ WholeAnswer
  <2>1. pc = "deciding" /\ \E actions \in Seq(Action) : Decided(actions)
    BY <1>4, StreamPlan, WholePlan
  <2>2. pc' = "acting" /\ UNCHANGED <<buffer, out, file, faults>>
    BY <2>1 DEF Decided
  <2>3. out' \in Seq(Event) /\ \A type \in Logs : Told(out', type) = Told(out, type)
    BY <1>0, <2>2
  <2> QED
    BY <2>1, <2>2, <2>3, SentFiled
<1>5. CASE CallFunction
  <2> DEFINE id == plan[pos].call
             b  == Ev("tool_call_started", id, {})
             e  == Ev("tool_call_finished", id, plan[pos].data)
             Y  == IF id \in seen THEN out ELSE Append(out, b)
  <2>1. pc = "acting" /\ pc' = "calling" /\ UNCHANGED <<buffer, file, faults>>
    BY <1>5 DEF CallFunction, Acts
  <2>2. /\ b \in Event /\ e \in Event /\ Y \in Seq(Event)
        /\ out' = Append(Y, e) /\ out' \in Seq(Event)
    BY <1>5, ActStory
  <2>3. b.ev \notin Logs /\ e.ev \notin Logs
    BY DEF Ev, Logs
  <2>4. Y = out \/ Y = Append(out, b)
    OBVIOUS
  <2> HIDE DEF Y, e, b, id
  <2>5. \A type \in Logs : Told(Y, type) = Told(out, type)
    BY <1>0, <2>2, <2>3, <2>4, TellsNothing
  <2>6. \A type \in Logs : Told(out', type) = Told(Y, type)
    BY <2>2, <2>3, TellsNothing
  <2>7. \A type \in Logs : Told(out', type) = Told(out, type)
    BY <2>5, <2>6
  <2> QED
    BY <2>1, <2>2, <2>7, SentFiled
<1>6. CASE RespondAction
  <2> DEFINE e == Ev("assistant_text_delta", NoCall, plan[pos].data)
  <2>1. pc = "acting" /\ pc' = "replying" /\ UNCHANGED <<buffer, file, faults>>
    BY <1>6 DEF RespondAction, Acts
  <2>2. /\ e \in Event /\ out' \in Seq(Event)
        /\ out' = IF ~streamed /\ plan[pos].data # {} THEN Append(out, e) ELSE out
    BY <1>6, ActStory
  <2>3. e.ev \notin Logs
    BY DEF Ev, Logs
  <2> HIDE DEF e
  <2>4. \A type \in Logs : Told(out', type) = Told(out, type)
    BY <1>0, <2>2, <2>3, TellsNothing
  <2> QED
    BY <2>1, <2>2, <2>4, SentFiled
<1>7. CASE EndStep
  <2> DEFINE e == Ev("assistant_text_done", NoCall, plan[final].data)
             f == Ev("turn_done", NoCall, {})
  <2>1. /\ pc = "acting" /\ UNCHANGED <<buffer, file, faults>> /\ pc' \in {"done", "deciding"}
    BY <1>7, EndStory
  <2>2. \/ out' = out
        \/ /\ e \in Event /\ f \in Event /\ Append(out, e) \in Seq(Event)
           /\ out' = Append(Append(out, e), f) /\ out' \in Seq(Event)
    BY <1>7, EndStory
  <2>3. e.ev \notin Logs /\ f.ev \notin Logs
    BY DEF Ev, Logs
  <2> HIDE DEF e, f
  <2>4. out' \in Seq(Event) /\ \A type \in Logs : Told(out', type) = Told(out, type)
    <3>1. CASE out' = out
      BY <1>0, <3>1
    <3>2. CASE /\ e \in Event /\ f \in Event /\ Append(out, e) \in Seq(Event)
               /\ out' = Append(Append(out, e), f) /\ out' \in Seq(Event)
      <4> DEFINE Y == Append(out, e)
      <4>1. Y \in Seq(Event) /\ out' = Append(Y, f)
        BY <3>2
      <4>2. \A type \in Logs : Told(Y, type) = Told(out, type)
        BY <1>0, <2>3, <3>2, TellsNothing
      <4> HIDE DEF Y
      <4>3. \A type \in Logs : Told(out', type) = Told(Y, type)
        BY <2>3, <3>2, <4>1, TellsNothing
      <4> QED
        BY <3>2, <4>2, <4>3
    <3> QED
      BY <2>2, <3>1, <3>2
  <2> QED
    BY <2>1, <2>4, SentFiled
<1>8. CASE RunsOn
  <2>1. /\ pc \in {"running", "summarising"} /\ pc' \in ToolRunning
        /\ UNCHANGED <<buffer, out, file, faults>>
    BY <1>8 DEF RunsOn
  <2>2. Story' = Story
    BY <2>1 DEF Story
  <2>3. /\ \A type \in Logs : /\ Told(out', type) = Told(out, type)
                               /\ Told(Story', type) = Told(Story, type)
        /\ pc \notin {"recording", "failed", "gone"}
        /\ pc' \notin {"recording", "failed", "gone"}
    BY <2>1, <2>2 DEF ToolRunning
  <2> QED
    BY <2>1, <2>3, QuietFiled
<1>9. (\E t : ToldResult(t)) => Filed'
  BY ToldResultFiled
<1>10. BreaksOff \/ Appended => Filed'
  BY BreaksOffFiled, AppendedFiled
<1> QED
  BY <1>1, <1>2, <1>3, <1>4, <1>5, <1>6, <1>7, <1>8, <1>9, <1>10, Steps

-----------------------------------------------------------------------------
(* The invariant, and what it says. *)

\* A new turn has it.
LEMMA InitInv ==
  ASSUME Init
  PROVE  StreamInv
<1>1. /\ pc = "deciding" /\ step = 1 /\ answer = Nothing /\ streamed = FALSE /\ seen = {}
      /\ buffer = <<>> /\ out = <<>> /\ file = <<>> /\ faults = 0
  BY DEF Init
<1>2. Basics
  BY InitBasics
<1>3. Story = <<>> /\ out = <<>>
  BY <1>1, <1>2, NothingCollected DEF ToolRunning
<1>4. Answering
  <2>1. DOMAIN answer.ids = {} /\ answer.text = 0
    BY <1>1 DEF Nothing
  <2> QED
    BY <1>3, <2>1 DEF Answering
<1>5. Doing
  BY <1>1, StageFacts DEF Doing, Busy, ToolRunning
<1>6. Events
  BY <1>1, <1>3 DEF Events, Followable
<1>7. Filed
  <2>1. \A type : Told(out, type) = <<>> /\ Told(Story, type) = <<>> /\ Logged(type) = <<>>
    BY <1>1, <1>3, ToldNothing
  <2>2. IsPrefix(<<>>, <<>>) /\ Len(<<>>) = 0
    BY DEF IsPrefix
  <2> HIDE DEF Told, Logged, Story
  <2> QED
    BY <1>1, <2>1, <2>2 DEF Filed, Results
<1> QED
  BY <1>1, <1>2, <1>4, <1>5, <1>6, <1>7 DEF StreamInv, Basics

\* Every step keeps it.
LEMMA StepInv ==
  ASSUME StreamInv, [Next]_vars
  PROVE  StreamInv'
<1>1. Basics /\ Events /\ Answering /\ Doing /\ Filed /\ (pc = "done" => ReplyWasStreamed)
  BY DEF StreamInv, Basics
<1>2. Basics'
  BY <1>1, StepBasics
<1>3. Events' /\ Answering' /\ Doing' /\ (pc' = "done" => ReplyWasStreamed')
  BY <1>1, StepEvents
<1>4. Filed'
  BY <1>1, StepFiled
<1> QED
  BY <1>2, <1>3, <1>4 DEF StreamInv, Basics

\* It always holds.
LEMMA Invariance == Spec => []StreamInv
<1>1. Init => StreamInv
  BY InitInv
<1>2. StreamInv /\ [Next]_vars => StreamInv'
  BY StepInv
<1> QED
  BY <1>1, <1>2, PTL DEF Spec

\* The variables have their types: TypeOK.
THEOREM TypeCorrect == Spec => []TypeOK
<1>1. StreamInv => TypeOK
  BY DEF StreamInv, Shapes
<1> QED
  BY <1>1, Invariance, PTL

\* What was sent is the beginning of the story.
LEMMA SentFirst ==
  ASSUME TypeOK
  PROVE  /\ \A k \in DOMAIN out : k \in DOMAIN Story /\ Story[k] = out[k]
         /\ \A k \in DOMAIN out : k \in Nat /\ \A i \in 1 .. k : i \in DOMAIN out
         /\ \A j \in DOMAIN Story :
              j \in DOMAIN out \/ \E i \in DOMAIN buffer : Story[j] = buffer[i]
<1>1. /\ Len(Story) = Len(out) + Len(buffer) /\ Len(out) \in Nat /\ Len(buffer) \in Nat
      /\ \A i \in 1 .. Len(out) : Story[i] = out[i]
      /\ \A i \in 1 .. Len(buffer) : Story[Len(out) + i] = buffer[i]
      /\ out \in Seq(Event) /\ Story \in Seq(Event) /\ buffer \in Seq(Event)
  BY StoryFacts
<1>2. /\ DOMAIN out = 1 .. Len(out) /\ DOMAIN Story = 1 .. Len(Story)
      /\ DOMAIN buffer = 1 .. Len(buffer)
  BY <1>1
<1>3. ASSUME NEW j \in DOMAIN Story, j \notin DOMAIN out
      PROVE  \E i \in DOMAIN buffer : Story[j] = buffer[i]
  <2>1. j - Len(out) \in 1 .. Len(buffer) /\ Len(out) + (j - Len(out)) = j
    BY <1>1, <1>2, <1>3
  <2> QED
    BY <1>1, <1>2, <2>1
<1>4. \A k \in DOMAIN out : k \in Nat /\ \A i \in 1 .. k : i \in DOMAIN out
  BY <1>1, <1>2
<1>5. \A k \in DOMAIN out : k \in DOMAIN Story /\ Story[k] = out[k]
  BY <1>1, <1>2
<1> QED
  BY <1>3, <1>4, <1>5

\* A client can follow a call through its events: an id is announced first, and in a step the
\* call is announced, streamed, finished, told of and answered in this order.
THEOREM ClientsFollowCalls == Spec => []CallsAreFollowed
<1>1. StreamInv => CallsAreFollowed
  <2> SUFFICES ASSUME StreamInv, NEW k \in DOMAIN out, out[k].call # NoCall
               PROVE  /\ \E i \in 1 .. k : out[i].call = out[k].call
                                           /\ out[i].ev = "tool_call_started"
                      /\ \A i \in 1 .. k - 1 :
                           out[i].call = out[k].call /\ out[i].step = out[k].step =>
                             \/ Phase[out[i].ev] < Phase[out[k].ev]
                             \/ /\ Phase[out[i].ev] = Phase[out[k].ev]
                                /\ Phase[out[k].ev] \in {2, 4}
    BY DEF CallsAreFollowed
  <2>1. TypeOK
    BY DEF StreamInv, Shapes
  <2>2. Followed(Story, k)
    BY <2>1, SentFirst DEF StreamInv, Events, Followable
  <2>3. /\ Story[k] = out[k] /\ k \in Nat
        /\ \A i \in 1 .. k : Story[i] = out[i]
        /\ \A i \in 1 .. k - 1 : i \in 1 .. k
    BY <2>1, SentFirst
  <2> HIDE DEF Story
  <2>4. PICK i \in 1 .. k : Story[i].call = Story[k].call /\ Story[i].ev = "tool_call_started"
    BY <2>2, <2>3 DEF Followed
  <2>5. ASSUME NEW j \in 1 .. k - 1, out[j].call = out[k].call, out[j].step = out[k].step
        PROVE  Follows(out[j], out[k])
    BY <2>2, <2>3, <2>5 DEF Followed
  <2> QED
    BY <2>3, <2>4, <2>5 DEF Follows
<1> QED
  BY <1>1, Invariance, PTL

\* The pieces of arguments that were streamed add up to the arguments of the call that is
\* carried out, or these did not parse.
THEOREM PiecesAddUp == Spec => []DeltasAddUp
<1>1. StreamInv => DeltasAddUp
  <2> SUFFICES ASSUME StreamInv, NEW i \in DOMAIN out, out[i].ev = "tool_call_finished"
               PROVE  LET D == {j \in DOMAIN out : /\ out[j].ev = "tool_call_delta"
                                                   /\ out[j].call = out[i].call
                                                   /\ out[j].step = out[i].step} IN
                      D # {} => out[i].data \in {{}, UNION {out[j].data : j \in D}}
    BY DEF DeltasAddUp
  <2> DEFINE D == {j \in DOMAIN out : /\ out[j].ev = "tool_call_delta"
                                      /\ out[j].call = out[i].call
                                      /\ out[j].step = out[i].step}
  <2>1. TypeOK /\ \A b \in DOMAIN buffer :
                    buffer[b].ev \in {"tool_progress", "tool_progress_summary"}
    BY DEF StreamInv, Shapes, Control
  <2>2. /\ \A k \in DOMAIN out : k \in DOMAIN Story /\ Story[k] = out[k]
        /\ \A j \in DOMAIN Story : j \in DOMAIN out \/ \E b \in DOMAIN buffer : Story[j] = buffer[b]
    BY <2>1, SentFirst
  <2>3. AddsUp(Story, out[i].call, out[i].step, out[i].data)
    BY <2>2 DEF StreamInv, Events, Followable
  <2> HIDE DEF Story
  <2>4. Pieces(Story, out[i].call, out[i].step) = D
    BY <2>1, <2>2 DEF Pieces
  <2>5. {Story[j].data : j \in D} = {out[j].data : j \in D}
    BY <2>2
  <2> QED
    BY <2>3, <2>4, <2>5 DEF AddsUp, Sum
<1> QED
  BY <1>1, Invariance, PTL

\* The reply of a turn was streamed in full, no piece of it twice, and the stream ends with it.
THEOREM RepliesAreStreamed == Spec => []ReplyWasStreamed
<1>1. StreamInv => ReplyWasStreamed
  BY NoReplyYet DEF StreamInv, Shapes
<1> QED
  BY <1>1, Invariance, PTL

\* A result is told right before it is logged; unless an append raises, progress is logged
\* before it is told, and none is held back at the end.
THEOREM ClientAndFileAgree == Spec => []ClientAgreesWithFile
<1>1. StreamInv => ClientAgreesWithFile
  <2> SUFFICES ASSUME StreamInv PROVE ClientAgreesWithFile
    OBVIOUS
  <2>1. Basics /\ Filed
    BY DEF StreamInv, Basics
  <2>2. pc = "done" => Story = out
    BY <2>1, NothingCollected DEF ToolRunning
  <2> HIDE DEF Told, Logged, Story
  <2> QED
    BY <2>1, <2>2 DEF Filed, Results, ClientAgreesWithFile
<1> QED
  BY <1>1, Invariance, PTL

\* A call is answered with the last result that its tool yielded, unless it failed.
THEOREM AnswersAreFinal == Spec => []AnswerIsFinal
<1>1. StreamInv => AnswerIsFinal
  <2> SUFFICES ASSUME StreamInv, pc = "recording" PROVE AnswerIsFinal
    BY DEF AnswerIsFinal
  <2>1. /\ tool.final \in Nat /\ tool.final <= Len(tool.items)
        /\ tool.final # 0 => tool.items[tool.final] = "final"
        /\ \A l \in DOMAIN tool.items : l > tool.final => tool.items[l] # "final"
        /\ Last(out).data = ResultOf(tool) /\ (tool.error \/ tool.final # 0)
        /\ DOMAIN tool.items = 1 .. Len(tool.items) /\ Len(tool.items) \in Nat
        /\ tool.error \in BOOLEAN
    BY DEF StreamInv, Shapes, Finals
  <2>2. ASSUME NEW k \in DOMAIN tool.items
        PROVE  k \in Last(out).data <=>
                 /\ ~tool.error /\ tool.items[k] = "final"
                 /\ \A l \in k + 1 .. Len(tool.items) : tool.items[l] # "final"
    <3>1. CASE tool.error
      BY <2>1, <3>1 DEF ResultOf
    <3>2. CASE ~tool.error
      <4>1. k \in Last(out).data <=> k = tool.final
        BY <2>1, <3>2 DEF ResultOf
      <4>2. CASE k = tool.final
        BY <2>1, <3>2, <4>1, <4>2
      <4>3. CASE k > tool.final
        BY <2>1, <4>1, <4>3
      <4>4. CASE k < tool.final
        <5>1. tool.final \in k + 1 .. Len(tool.items) /\ tool.items[tool.final] = "final"
          BY <2>1, <4>4
        <5> QED
          BY <4>1, <4>4, <5>1
      <4> QED
        BY <2>1, <4>2, <4>3, <4>4
    <3> QED
      BY <3>1, <3>2
  <2>3. Last(out).data = {} => tool.error
    BY <2>1 DEF ResultOf
  <2> QED
    BY <2>2, <2>3 DEF AnswerIsFinal
<1> QED
  BY <1>1, Invariance, PTL
=============================================================================
