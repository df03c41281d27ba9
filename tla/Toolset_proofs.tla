---------------------------- MODULE Toolset_proofs ----------------------------
(***************************************************************************)
(* What holds of Toolset for any number of plugins, names, sessions,       *)
(* callers and operations.                                                 *)
(***************************************************************************)
EXTENDS Toolset, QueueFacts, FiniteSetTheorems

(***************************************************************************)
(* The SSH sessions.  An id is told only once its connection is made, so   *)
(* it never gets another one; and once it is out of the pool it stays out, *)
(* which is the case from the first close that finds it.                   *)
(***************************************************************************)
Closing(c) == Pools!At(c, "close", "remote")

IdsWereMade ==
  /\ \A s \in told : client[s] # "none"
  /\ \A c \in Callers : call[c] # None /\ call[c].does # "open" =>
       call[c].id \in told /\ (call[c].stale => call[c].id \in closed)

TakenOut ==
  /\ \A s \in closed : pool[s] = None
  /\ \A c \in Callers : Closing(c) => pool[call[c].id] = None

OpenIsKept ==
  \A s \in Sessions : client[s] = "open" =>
    \/ pool[s] # None /\ s \in told
    \/ \E c \in Callers : Closing(c) /\ call[c].id = s
    \/ s \in unheard \cup stuck

PoolInv == Pools!TypeOK /\ IdsWereMade /\ TakenOut /\ OpenIsKept /\ ClosedIsGone

\* The types of a call, and of what becomes of one.
LEMMA CallTypes ==
  ASSUME Pools!TypeOK, NEW c \in Callers, call[c] # None
  PROVE  /\ call[c] \in Pools!Calls
         /\ call[c].in \in Pools!Instances /\ call[c].in # None
         /\ call[c].does # "open" => call[c].id \in Sessions
         /\ call[c].does = "open" => call[c].at = "remote" /\ call[c].stale = FALSE
         /\ [call[c] EXCEPT !.gone = TRUE] \in Pools!Calls
         /\ call[c].does # "open" => [call[c] EXCEPT !.at = "remote"] \in Pools!Calls
<1>1. call[c] \in Pools!Calls
  BY DEF Pools!TypeOK
<1>2. call[c].in \in Pools!Instances /\ call[c].in # None
  <2>1. call[c].in \in Pools!Instances
    BY <1>1 DEF Pools!Calls
  <2>2. None \notin Pools!Instances
    BY ToolsetAssumption DEF Pools!SshSessionsAssumption, Pools!Instances
  <2>3. QED  BY <2>1, <2>2
<1>3. CASE call[c].does = "open"
  BY <1>1, <1>2, <1>3 DEF Pools!Calls
<1>4. CASE call[c].does # "open"
  BY <1>1, <1>2, <1>4 DEF Pools!Calls
<1>5. QED  BY <1>3, <1>4

\* A turn calls a tool.
LEMMA CallingKeeps ==
  ASSUME PoolInv, Pools!Calling
  PROVE  PoolInv'
<1>1. PICK c \in Callers, new \in Pools!Calls :
        /\ call[c] = None /\ call' = [call EXCEPT ![c] = new]
        /\ \/ new.does = "open" /\ ~new.stale
           \/ new.at = "queued" /\ new.id \in told /\ (new.stale => new.id \in closed)
        /\ UNCHANGED <<instance, made, pool, client, told, closed, unheard, stuck>>
  <2>1. PICK c \in Callers :
          Pools!Open(c) \/ \E s \in Sessions, does \in {"execute", "close"} : Pools!Use(c, does, s)
    BY DEF Pools!Calling
  <2>2. instance # None => instance \in Pools!Instances
    BY ToolsetAssumption DEF PoolInv, Pools!TypeOK, Pools!Instances, Pools!SshSessionsAssumption
  <2>3. CASE Pools!Open(c)
    <3> DEFINE new == [does |-> "open", at |-> "remote", id |-> None, stale |-> FALSE,
                       in |-> instance, gone |-> FALSE]
    <3>1. new \in Pools!Calls
      BY <2>2, <2>3 DEF Pools!Open, Pools!Calls
    <3>2. QED  BY <2>3, <3>1 DEF Pools!Open
  <2>4. ASSUME NEW s \in Sessions, NEW does \in {"execute", "close"}, Pools!Use(c, does, s)
        PROVE  \E new \in Pools!Calls :
                 /\ call[c] = None /\ call' = [call EXCEPT ![c] = new]
                 /\ new.at = "queued" /\ new.id \in told /\ (new.stale => new.id \in closed)
                 /\ UNCHANGED <<instance, made, pool, client, told, closed, unheard, stuck>>
    <3> DEFINE new == [does |-> does, at |-> "queued", id |-> s, stale |-> s \in closed,
                       in |-> instance, gone |-> FALSE]
    <3>1. new \in Pools!Calls
      BY <2>2, <2>4 DEF Pools!Use, Pools!Calls
    <3>2. QED  BY <2>4, <3>1 DEF Pools!Use
  <2>5. QED  BY <2>1, <2>3, <2>4
<1>2. /\ call'[c] = new /\ \A d \in Callers : d # c => call'[d] = call[d]
      /\ new # None /\ (new.does = "open" => new.at = "remote")
  BY <1>1, ToolsetAssumption
  DEF PoolInv, Pools!TypeOK, Pools!SshSessionsAssumption, Pools!Calls
<1>3. \A d \in Callers : Closing(d)' <=> Closing(d)
  BY <1>1, <1>2 DEF Closing, Pools!At
<1>4. Pools!TypeOK'
  BY <1>1 DEF PoolInv, Pools!TypeOK
<1>5. IdsWereMade'
  BY <1>1, <1>2 DEF PoolInv, IdsWereMade
<1>6. TakenOut'
  BY <1>1, <1>2, <1>3 DEF PoolInv, TakenOut, Closing, Pools!At
<1>7. OpenIsKept'
  BY <1>1, <1>2, <1>3 DEF PoolInv, OpenIsKept, Closing, Pools!At
<1>8. ClosedIsGone'
  BY <1>1, <1>2, <1>3 DEF PoolInv, ClosedIsGone, Pools!ClosedIsGone, Closing, Pools!At
<1>9. QED  BY <1>4, <1>5, <1>6, <1>7, <1>8 DEF PoolInv

\* A new connection: its id was not known to anyone.
LEMMA OpenedKeeps ==
  ASSUME PoolInv, NEW c \in Callers, NEW s \in Sessions, Pools!Opened(c, s)
  PROVE  PoolInv'
<1>1. /\ call[c] # None /\ call[c].does = "open" /\ client[s] = "none"
      /\ client' = [client EXCEPT ![s] = "open"]
      /\ pool' = [pool EXCEPT ![s] = call[c].in]
      /\ \/ told' = told \cup {s} /\ unheard' = unheard
         \/ told' = told /\ unheard' = unheard \cup {s}
      /\ call' = [call EXCEPT ![c] = None]
      /\ UNCHANGED <<instance, made, closed, stuck>>
  BY DEF Pools!Opened, Pools!At, Pools!Ends
<1>2. Pools!TypeOK /\ call[c].in \in Pools!Instances /\ call[c].in # None
  BY <1>1, CallTypes DEF PoolInv
<1>3. call'[c] = None /\ \A d \in Callers : d # c => call'[d] = call[d]
  BY <1>1, <1>2 DEF Pools!TypeOK
<1>4. \A d \in Callers : Closing(d)' <=> Closing(d)
  BY <1>1, <1>3 DEF Closing, Pools!At
<1>5. /\ client'[s] = "open" /\ pool'[s] = call[c].in
      /\ \A r \in Sessions : r # s => client'[r] = client[r] /\ pool'[r] = pool[r]
      /\ s \notin told /\ s \notin closed
      /\ \A d \in Callers : Closing(d) => call[d].id # s /\ call[d].id \in Sessions
  BY <1>1, <1>2 DEF PoolInv, Pools!TypeOK, IdsWereMade, Closing, Pools!At
<1>6. Pools!TypeOK'
  BY <1>1, <1>2 DEF Pools!TypeOK
<1>7. IdsWereMade'
  BY <1>1, <1>2, <1>3, <1>5 DEF PoolInv, IdsWereMade, Pools!TypeOK
<1>8. TakenOut'
  BY <1>1, <1>2, <1>3, <1>4, <1>5 DEF PoolInv, TakenOut, Closing, Pools!At, Pools!TypeOK
<1>9. OpenIsKept'
  BY <1>1, <1>2, <1>3, <1>4, <1>5
  DEF PoolInv, OpenIsKept, Closing, Pools!At
<1>10. ClosedIsGone'
  BY <1>1, <1>3, <1>4 DEF PoolInv, ClosedIsGone, Pools!ClosedIsGone, Closing, Pools!At
<1>11. QED  BY <1>6, <1>7, <1>8, <1>9, <1>10 DEF PoolInv

\* A call ends, or goes on to the remote side with a client that it found.
LEMMA ServedKeeps ==
  ASSUME PoolInv, NEW c \in Callers, Pools!EndsAlone(c) \/ Pools!Execute(c) \/ Pools!TakeOut(c)
  PROVE  PoolInv'
<1>1. /\ call[c] # None /\ ~Closing(c)
      /\ UNCHANGED <<instance, made, client, told, closed, unheard, stuck>>
      /\ \/ call' = [call EXCEPT ![c] = None] /\ pool' = pool
         \/ /\ call' = [call EXCEPT ![c] = [call[c] EXCEPT !.at = "remote"]]
            /\ call[c].does = "execute" /\ pool' = pool
            /\ pool[call[c].id] = call[c].in
         \/ /\ call' = [call EXCEPT ![c] = [call[c] EXCEPT !.at = "remote"]]
            /\ call[c].does = "close" /\ pool' = [pool EXCEPT ![call[c].id] = None]
            /\ pool[call[c].id] = call[c].in
  BY DEF Pools!EndsAlone, Pools!Execute, Pools!TakeOut, Pools!At, Pools!Ends, Pools!Found,
         Pools!Without, Closing
<1>2. Pools!TypeOK
  BY DEF PoolInv
<1>3. CASE call' = [call EXCEPT ![c] = None] /\ pool' = pool
  <2>1. call'[c] = None /\ \A d \in Callers : d # c => call'[d] = call[d]
    BY <1>2, <1>3 DEF Pools!TypeOK
  <2>2. \A d \in Callers : Closing(d)' <=> Closing(d)
    BY <1>1, <2>1 DEF Closing, Pools!At
  <2>3. Pools!TypeOK' /\ IdsWereMade'
    BY <1>1, <1>3, <2>1 DEF PoolInv, Pools!TypeOK, IdsWereMade
  <2>4. TakenOut'
    BY <1>1, <1>3, <2>1, <2>2 DEF PoolInv, TakenOut, Closing, Pools!At
  <2>5. OpenIsKept' /\ ClosedIsGone'
    BY <1>1, <1>3, <2>1, <2>2
    DEF PoolInv, OpenIsKept, ClosedIsGone, Pools!ClosedIsGone, Closing,
        Pools!At
  <2>6. QED  BY <2>3, <2>4, <2>5 DEF PoolInv
<1>4. CASE /\ call' = [call EXCEPT ![c] = [call[c] EXCEPT !.at = "remote"]]
           /\ call[c].does # "open"
           /\ pool[call[c].id] = call[c].in
           /\ \/ call[c].does = "execute" /\ pool' = pool
              \/ call[c].does = "close" /\ pool' = [pool EXCEPT ![call[c].id] = None]
  <2> DEFINE s == call[c].id
             new == [call[c] EXCEPT !.at = "remote"]
  <2>1. /\ s \in Sessions /\ pool[s] # None /\ new \in Pools!Calls
        /\ new.at = "remote" /\ new.id = s /\ new.does = call[c].does /\ new.stale = call[c].stale
        /\ new # None /\ call' = [call EXCEPT ![c] = new]
    BY <1>1, <1>2, <1>4, CallTypes, ToolsetAssumption DEF Pools!Calls, Pools!SshSessionsAssumption
  <2> HIDE DEF new
  <2>2. call'[c] = new /\ \A d \in Callers : d # c => call'[d] = call[d]
    BY <1>2, <2>1 DEF Pools!TypeOK
  <2>3. /\ s \notin closed /\ ~call[c].stale
        /\ \A d \in Callers : Closing(d) => call[d].id # s
    BY <1>1, <1>4, <2>1 DEF PoolInv, TakenOut, IdsWereMade
  <2>4. /\ \A d \in Callers : d # c => (Closing(d)' <=> Closing(d))
        /\ Closing(c)' <=> call[c].does = "close"
    BY <2>1, <2>2 DEF Closing, Pools!At
  <2>5. \A r \in Sessions : r # s => pool'[r] = pool[r]
    BY <1>2, <1>4 DEF Pools!TypeOK
  <2>6. call[c].does = "close" => pool'[s] = None
    BY <1>2, <1>4, <2>1 DEF Pools!TypeOK
  <2>7. Pools!TypeOK'
    BY <1>1, <1>2, <1>4, <2>1 DEF Pools!TypeOK
  <2>8. IdsWereMade'
    BY <1>1, <2>1, <2>2 DEF PoolInv, IdsWereMade
  <2>9. TakenOut'
    <3>1. \A r \in Sessions : pool[r] = None => pool'[r] = None
      BY <2>1, <2>5
    <3>2. \A d \in Callers : Closing(d) => call[d].id \in Sessions
      BY <1>2, CallTypes DEF Closing, Pools!At
    <3>3. QED
      BY <1>1, <1>2, <2>1, <2>2, <2>4, <2>6, <3>1, <3>2 DEF PoolInv, TakenOut, Pools!TypeOK
  <2>10. OpenIsKept'
    <3>1. SUFFICES ASSUME NEW r \in Sessions, client[r] = "open"
                   PROVE  \/ pool'[r] # None /\ r \in told
                          \/ \E d \in Callers : Closing(d)' /\ call'[d].id = r
                          \/ r \in unheard \cup stuck
      BY <1>1 DEF OpenIsKept, Closing
    <3>2. \/ pool[r] # None /\ r \in told
          \/ \E d \in Callers : Closing(d) /\ call[d].id = r
          \/ r \in unheard \cup stuck
      BY <3>1 DEF PoolInv, OpenIsKept, Closing
    <3>3. pool[r] # None => pool'[r] # None \/ (Closing(c)' /\ call'[c].id = r)
      BY <1>4, <2>1, <2>2, <2>4, <2>5
    <3>4. \A d \in Callers : Closing(d) => Closing(d)' /\ call'[d].id = call[d].id
      BY <1>1, <2>2, <2>4
    <3>5. QED  BY <3>2, <3>3, <3>4
  <2>11. ClosedIsGone'
    <3>1. \A d \in Callers : call'[d] # None /\ call'[d].at = "remote" => ~call'[d].stale
      BY <2>1, <2>2, <2>3 DEF PoolInv, ClosedIsGone, Pools!ClosedIsGone
    <3>2. \A d, e \in Callers : Closing(d)' /\ Closing(e)' /\ call'[d].id = call'[e].id => d = e
      BY <2>1, <2>2, <2>3, <2>4 DEF PoolInv, ClosedIsGone, Pools!ClosedIsGone, Closing
    <3>3. QED  BY <3>1, <3>2 DEF ClosedIsGone, Pools!ClosedIsGone, Closing
  <2>12. QED  BY <2>7, <2>8, <2>9, <2>10, <2>11 DEF PoolInv
<1>5. QED  BY <1>1, <1>3, <1>4

\* A connection that was taken out is closed, or close() raises.
LEMMA ClosedKeeps ==
  ASSUME PoolInv, NEW c \in Callers, Pools!Closed(c) \/ Pools!CloseRaises(c)
  PROVE  PoolInv'
<1> DEFINE s == call[c].id
<1>1. /\ Closing(c) /\ call[c] # None
      /\ call' = [call EXCEPT ![c] = None]
      /\ \/ /\ client' = [client EXCEPT ![s] = "closed"] /\ stuck' = stuck
            /\ closed' \in {closed, closed \cup {s}}
         \/ client' = client /\ stuck' = stuck \cup {s} /\ closed' = closed
      /\ UNCHANGED <<instance, made, pool, told, unheard>>
  BY DEF Pools!Closed, Pools!CloseRaises, Pools!At, Pools!Ends, Closing
<1>2. /\ Pools!TypeOK /\ s \in Sessions /\ s \in told /\ pool[s] = None
  BY <1>1, CallTypes DEF PoolInv, IdsWereMade, TakenOut, Closing, Pools!At
<1>3. call'[c] = None /\ \A d \in Callers : d # c => call'[d] = call[d]
  BY <1>1, <1>2 DEF Pools!TypeOK
<1>4. ~Closing(c)' /\ \A d \in Callers : d # c => (Closing(d)' <=> Closing(d))
  BY <1>3 DEF Closing, Pools!At
<1>5. /\ \A r \in Sessions : r # s => client'[r] = client[r]
      /\ \A r \in Sessions : client[r] # "none" => client'[r] # "none"
      /\ client'[s] # "open" \/ s \in stuck'
      /\ stuck \subseteq stuck' /\ closed \subseteq closed'
  BY <1>1, <1>2 DEF Pools!TypeOK
<1>6. Pools!TypeOK'
  BY <1>1, <1>2 DEF Pools!TypeOK
<1>7. IdsWereMade'
  BY <1>1, <1>2, <1>3, <1>5 DEF PoolInv, IdsWereMade, Pools!TypeOK
<1>8. TakenOut'
  BY <1>1, <1>2, <1>3, <1>4 DEF PoolInv, TakenOut
<1>9. OpenIsKept'
  <2>1. SUFFICES ASSUME NEW r \in Sessions, client'[r] = "open"
                 PROVE  \/ pool[r] # None /\ r \in told
                        \/ \E d \in Callers : Closing(d)' /\ call'[d].id = r
                        \/ r \in unheard \cup stuck'
    BY <1>1 DEF OpenIsKept, Closing
  <2>2. CASE r = s
    BY <1>5, <2>1, <2>2
  <2>3. CASE r # s
    <3>1. \/ pool[r] # None /\ r \in told
          \/ \E d \in Callers : Closing(d) /\ call[d].id = r
          \/ r \in unheard \cup stuck
      BY <1>5, <2>1, <2>3 DEF PoolInv, OpenIsKept, Closing
    <3>2. QED  BY <1>3, <1>4, <1>5, <2>3, <3>1
  <2>4. QED  BY <2>2, <2>3
<1>10. ClosedIsGone'
  BY <1>3, <1>4 DEF PoolInv, ClosedIsGone, Pools!ClosedIsGone, Closing
<1>11. QED  BY <1>6, <1>7, <1>8, <1>9, <1>10 DEF PoolInv

\* A turn is cancelled: its call goes on.
LEMMA CancelKeeps ==
  ASSUME PoolInv, NEW c \in Callers, Pools!Cancel(c)
  PROVE  PoolInv'
<1> DEFINE new == [call[c] EXCEPT !.gone = TRUE]
<1>1. /\ call[c] # None /\ call' = [call EXCEPT ![c] = new]
      /\ UNCHANGED <<instance, made, pool, client, told, closed, unheard, stuck>>
  BY DEF Pools!Cancel
<1>2. /\ Pools!TypeOK /\ new \in Pools!Calls /\ new # None
      /\ new.does = call[c].does /\ new.at = call[c].at /\ new.id = call[c].id
      /\ new.stale = call[c].stale
  <2>1. Pools!TypeOK /\ call[c] \in Pools!Calls /\ new \in Pools!Calls
    BY <1>1, CallTypes DEF PoolInv
  <2>2. QED  BY <2>1, ToolsetAssumption DEF Pools!Calls, Pools!SshSessionsAssumption
<1> HIDE DEF new
<1>3. call'[c] = new /\ \A d \in Callers : d # c => call'[d] = call[d]
  BY <1>1, <1>2 DEF Pools!TypeOK
<1>4. \A d \in Callers :
        /\ Closing(d)' <=> Closing(d)
        /\ call'[d] # None <=> call[d] # None
        /\ call'[d].does = call[d].does /\ call'[d].at = call[d].at /\ call'[d].id = call[d].id
        /\ call'[d].stale = call[d].stale
  BY <1>1, <1>2, <1>3 DEF Closing, Pools!At
<1>5. Pools!TypeOK' /\ IdsWereMade'
  BY <1>1, <1>2, <1>4 DEF PoolInv, Pools!TypeOK, IdsWereMade
<1>6. TakenOut'
  BY <1>1, <1>4 DEF PoolInv, TakenOut
<1>7. OpenIsKept' /\ ClosedIsGone'
  BY <1>1, <1>4
  DEF PoolInv, OpenIsKept, ClosedIsGone, Pools!ClosedIsGone, Closing
<1>8. QED  BY <1>5, <1>6, <1>7 DEF PoolInv

\* A connection is lost, or another instance is active, or none: no call and no pool changes.
LEMMA AroundKeeps ==
  ASSUME PoolInv,
         \/ \E s \in Sessions : Pools!Lose(s)
         \/ Pools!Activate \/ Pools!Load \/ Pools!Deactivate
  PROVE  PoolInv'
<1>1. /\ UNCHANGED <<pool, call, told, closed, unheard, stuck>>
      /\ made' \in 0 .. MaxInstances /\ instance' \in 1 .. made' \cup {None}
      /\ client' \in [Sessions -> {"none", "open", "lost", "closed"}]
      /\ \A s \in Sessions : client[s] # "none" => client'[s] # "none"
      /\ \A s \in Sessions : client'[s] = "open" => client[s] = "open"
  <2>1. CASE \E s \in Sessions : Pools!Lose(s)
    BY <2>1 DEF PoolInv, Pools!TypeOK, Pools!Lose
  <2>2. CASE Pools!Activate \/ Pools!Load \/ Pools!Deactivate
    BY <2>2, ToolsetAssumption
    DEF PoolInv, Pools!TypeOK, Pools!Activate, Pools!Load, Pools!Deactivate,
        Pools!SshSessionsAssumption
  <2>3. QED  BY <2>1, <2>2
<1>2. \A c \in Callers : Closing(c)' <=> Closing(c)
  BY <1>1 DEF Closing, Pools!At
<1>3. Pools!TypeOK' /\ IdsWereMade' /\ TakenOut'
  BY <1>1, <1>2 DEF PoolInv, Pools!TypeOK, IdsWereMade, TakenOut
<1>4. OpenIsKept' /\ ClosedIsGone'
  BY <1>1, <1>2
  DEF PoolInv, OpenIsKept, ClosedIsGone, Pools!ClosedIsGone, Closing
<1>5. QED  BY <1>3, <1>4 DEF PoolInv

\* The process ends with its connections.
LEMMA PoolStopKeeps ==
  ASSUME PoolInv, Pools!Stop
  PROVE  PoolInv'
<1>1. Pools!TypeOK'
  BY DEF PoolInv, Pools!TypeOK, Pools!Stop
<1>2. IdsWereMade'
  BY DEF PoolInv, Pools!TypeOK, IdsWereMade, Pools!Stop
<1>3. TakenOut'
  BY DEF PoolInv, Pools!TypeOK, TakenOut, Closing, Pools!At, Pools!Stop
<1>4. OpenIsKept' /\ ClosedIsGone'
  BY DEF OpenIsKept, ClosedIsGone, Pools!ClosedIsGone, Pools!At,
         Pools!Stop
<1>5. QED  BY <1>1, <1>2, <1>3, <1>4 DEF PoolInv

\* No step of the sessions breaks it.
LEMMA PoolStep ==
  ASSUME PoolInv, [Pools!Next]_sshVars
  PROVE  PoolInv'
<1>1. CASE UNCHANGED sshVars
  BY <1>1 DEF sshVars, PoolInv, Pools!TypeOK, IdsWereMade, TakenOut, Closing, Pools!At,
     OpenIsKept, ClosedIsGone, Pools!ClosedIsGone
<1>2. CASE Pools!Working
  BY <1>2, OpenedKeeps, ServedKeeps, ClosedKeeps, CancelKeeps, AroundKeeps DEF Pools!Working
<1>3. QED
  BY <1>1, <1>2, CallingKeeps, AroundKeeps, PoolStopKeeps DEF Pools!Next

\* No session was opened yet.
LEMMA PoolInit == Pools!Init => PoolInv
BY ToolsetAssumption
DEF Pools!Init, PoolInv, Pools!TypeOK, Pools!SshSessionsAssumption, IdsWereMade, TakenOut, Closing,
    Pools!At, OpenIsKept, ClosedIsGone, Pools!ClosedIsGone

-----------------------------------------------------------------------------
(* The sessions in the process as a whole. *)

\* What any step of the process is for the sessions.
LEMMA PoolSteps == [Next]_vars => [Pools!Next]_sshVars
BY DEF Next, vars, Manage, Register, CallSsh, Work, End, Begin, Pools!Next, sshVars

\* What holds of them always.
LEMMA PoolInvariance == Spec => []PoolInv
<1>1. Init => PoolInv
  BY PoolInit DEF Init
<1>2. PoolInv /\ [Next]_vars => PoolInv'
  BY PoolStep, PoolSteps
<1>3. QED  BY <1>1, <1>2, PTL DEF Spec

\* A session that was answered closed serves no call, and only one of two closes closes it.
THEOREM ClosedSessionsAreGone == Spec => []ClosedIsGone
<1>1. PoolInv => ClosedIsGone
  BY DEF PoolInv
<1>2. QED  BY <1>1, PoolInvariance, PTL

-----------------------------------------------------------------------------
(***************************************************************************)
(* The plugins.  What the proofs need of sequences, first.                 *)
(***************************************************************************)
Once(s) == \A i, k \in DOMAIN s : s[i] = s[k] => i = k

\* A sequence of all the registered plugins has each of them once.
LEMMA OrderHasAll ==
  ASSUME NEW s \in Manager!SetToSeqs(Registered)
  PROVE  /\ s \in Seq(Plugins) /\ Once(s)
         /\ \A p \in Plugins : Manager!Contains(s, p) <=> p \in Registered
<1> DEFINE n == Cardinality(Registered)
<1>1. n \in Nat /\ Registered \subseteq Plugins /\ IsFiniteSet(Registered)
  <2>1. Registered \subseteq Plugins /\ Manager!IsFiniteSet(Registered)
    BY ToolsetAssumption DEF Manager!PluginsAssumption
  <2>2. IsFiniteSet(Registered)
    BY <2>1 DEF Manager!IsFiniteSet, IsFiniteSet
  <2>3. QED  BY <2>1, <2>2, FS_CardinalityType
<1>2. s \in [1 .. n -> Registered] /\ \A i, k \in 1 .. n : i # k => s[i] # s[k]
  <2>1. Manager!Cardinality(Registered) = n
    BY Zenon DEF Manager!Cardinality, Cardinality
  <2>2. QED  BY <2>1 DEF Manager!SetToSeqs
<1>3. s \in Injection(1 .. n, Registered)
  BY <1>2 DEF Injection, IsInjective
<1>4. Cardinality(1 .. n) = n
  BY <1>1, FS_Interval
<1>5. s \in Surjection(1 .. n, Registered)
  BY <1>1, <1>3, <1>4, FS_Injection
<1>6. \A p \in Registered : \E i \in 1 .. n : s[i] = p
  BY <1>5 DEF Surjection
<1>7. s \in Seq(Plugins) /\ Len(s) = n
  BY <1>1, <1>2
<1>8. QED  BY <1>1, <1>2, <1>6, <1>7 DEF Once, Manager!Contains

-----------------------------------------------------------------------------
(***************************************************************************)
(* Each known plugin has one place, a registered one is known while the    *)
(* process runs, and nothing runs when it does not.                        *)
(***************************************************************************)
InFront(path, q, r) == \E i, k \in DOMAIN path : i < k /\ path[i] = q /\ path[k] = r

RegisteredAreKnown == running => \A p \in Registered : enabled[p] # None

NothingAtRest == ~running => \A p \in Plugins : code[p] = None

ManagerInv ==
  /\ Manager!TypeOK /\ Once(known) /\ RegisteredAreKnown /\ NothingAtRest
  /\ RegistryAgrees /\ ForeignCodeIsInFront

\* A plugin that is known keeps its place, another one comes last.
LEMMA PlacedFacts ==
  ASSUME NEW p \in Plugins, known \in Seq(Plugins), Once(known)
  PROVE  /\ Manager!Placed(p) \in Seq(Plugins) /\ Once(Manager!Placed(p))
         /\ \A q \in Plugins : Manager!Contains(Manager!Placed(p), q) <=>
                                 q = p \/ Manager!Contains(known, q)
         /\ \A i \in DOMAIN known : i \in DOMAIN Manager!Placed(p) /\ Manager!Placed(p)[i] = known[i]
         /\ \A i \in DOMAIN Manager!Placed(p) : i \notin DOMAIN known =>
              Manager!Placed(p)[i] = p /\ ~Manager!Contains(known, p)
         /\ \A i, k \in DOMAIN Manager!Placed(p) :
              i \in DOMAIN known /\ k \notin DOMAIN known => i < k
<1>1. CASE Manager!Contains(known, p)
  BY <1>1 DEF Manager!Placed
<1>2. CASE ~Manager!Contains(known, p)
  <2> DEFINE K == Append(known, p)
  <2>1. /\ Manager!Placed(p) = K
        /\ K \in Seq(Plugins) /\ Len(K) = Len(known) + 1 /\ DOMAIN K = 1 .. Len(known) + 1
        /\ \A i \in 1 .. Len(known) : K[i] = known[i]
        /\ K[Len(known) + 1] = p
        /\ DOMAIN known = 1 .. Len(known) /\ Len(known) \in Nat
    BY <1>2 DEF Manager!Placed
  <2> HIDE DEF K
  <2>2. \A i \in DOMAIN known : known[i] # p
    BY <1>2, <2>1 DEF Manager!Contains
  <2>3. Once(K)
    BY <2>1, <2>2 DEF Once
  <2>4. \A q \in Plugins : Manager!Contains(K, q) <=> q = p \/ Manager!Contains(known, q)
    BY <2>1 DEF Manager!Contains
  <2>5. QED  BY <1>2, <2>1, <2>3, <2>4
<1>3. QED  BY <1>1, <1>2

\* A directory that is put on sys.path comes first, and leaves the others in their order.
LEMMA PathFacts ==
  ASSUME NEW p \in Plugins, sysPath \in Seq(Plugins)
  PROVE  /\ Manager!PathWith(p) \in Seq(Plugins)
         /\ \E k \in DOMAIN Manager!PathWith(p) : Manager!PathWith(p)[k] = p
         /\ \A q, r : InFront(sysPath, q, r) => InFront(Manager!PathWith(p), q, r)
<1>1. CASE Manager!Contains(sysPath, p)
  <2>1. Manager!PathWith(p) = sysPath
    BY <1>1 DEF Manager!PathWith
  <2>2. \E k \in DOMAIN sysPath : sysPath[k] = p
    BY <1>1 DEF Manager!Contains
  <2>3. QED  BY <2>1, <2>2
<1>2. CASE ~Manager!Contains(sysPath, p)
  <2> DEFINE P == <<p>> \o sysPath
  <2>1. /\ <<p>> \in Seq(Plugins) /\ Len(<<p>>) = 1 /\ <<p>>[1] = p
        /\ DOMAIN sysPath = 1 .. Len(sysPath) /\ Len(sysPath) \in Nat
    OBVIOUS
  <2>2. /\ Manager!PathWith(p) = P
        /\ P \in Seq(Plugins) /\ DOMAIN P = 1 .. Len(sysPath) + 1
        /\ P[1] = p /\ \A i \in DOMAIN sysPath : P[i + 1] = sysPath[i]
    BY <1>2, <2>1, ConcatProperties DEF Manager!PathWith
  <2> HIDE DEF P
  <2>3. ASSUME NEW q, NEW r, InFront(sysPath, q, r)
        PROVE  InFront(P, q, r)
    <3>1. PICK i, k \in DOMAIN sysPath : i < k /\ sysPath[i] = q /\ sysPath[k] = r
      BY <2>3 DEF InFront
    <3>2. /\ i + 1 \in DOMAIN P /\ k + 1 \in DOMAIN P /\ i + 1 < k + 1
          /\ P[i + 1] = q /\ P[k + 1] = r
      BY <2>1, <2>2, <3>1
    <3>3. QED  BY <3>2 DEF InFront
  <2>4. QED  BY <2>1, <2>2, <2>3
<1>3. QED  BY <1>1, <1>2

\* What is imported for a plugin with a file is its own code, or that of a plugin whose
\* directory comes before its own.
LEMMA ImportedFacts ==
  ASSUME NEW path \in Seq(Plugins), NEW p \in Plugins \ Broken,
         NEW k \in DOMAIN path, path[k] = p
  PROVE  Manager!Imported(path) = p \/ InFront(path, Manager!Imported(path), p)
<1> DEFINE T == Manager!Importable(path)
<1>1. T \subseteq DOMAIN path /\ k \in T /\ T \in SUBSET Nat
  BY DEF Manager!Importable
<1>2. PICK i \in T : \A y \in T : i <= y
  BY <1>1, FirstOf
<1>3. (CHOOSE x \in T : \A y \in T : x <= y) \in T
      /\ \A y \in T : (CHOOSE x \in T : \A z \in T : x <= z) <= y
  BY <1>2
<1>4. PICK j \in T : j <= k /\ Manager!Imported(path) = path[j]
  BY <1>1, <1>3 DEF Manager!Imported
<1>5. j = k \/ j < k
  BY <1>1, <1>4
<1>6. QED  BY <1>1, <1>4, <1>5 DEF InFront

\* load leaves the directories on sys.path in their order, and gives a plugin its own code or
\* that of one in front of it.
LEMMA LoadsFacts ==
  ASSUME ManagerInv, NEW p \in Plugins, NEW c, Manager!Loads(p, c)
  PROVE  /\ sysPath' \in Seq(Plugins)
         /\ \A q, r : InFront(sysPath, q, r) => InFront(sysPath', q, r)
         /\ c \in {None, p} \/ p \in Broken \/ InFront(sysPath', c, p)
<1>1. sysPath \in Seq(Plugins)
  BY DEF ManagerInv, Manager!TypeOK
<1>2. CASE p \in Builtin
  BY <1>1, <1>2 DEF Manager!Loads
<1>3. CASE p \notin Builtin
  <2>1. sysPath' = Manager!PathWith(p)
        /\ c = IF Manager!Importable(sysPath') = {} THEN None ELSE Manager!Imported(sysPath')
    BY <1>3 DEF Manager!Loads
  <2>2. PICK k \in DOMAIN sysPath' : sysPath'[k] = p
    BY <1>1, <2>1, PathFacts
  <2>3. p \notin Broken => c = p \/ c = None \/ InFront(sysPath', c, p)
    BY <1>1, <2>1, <2>2, PathFacts, ImportedFacts
  <2>4. QED  BY <1>1, <2>1, <2>3, PathFacts
<1>4. QED  BY <1>2, <1>3

\* A plugin is activated, with its own code or with that of one in front of it.
LEMMA ActivatedKeeps ==
  ASSUME ManagerInv, NEW p \in Plugins,
         Manager!ActivateInstance(p) \/ Manager!ActivateLoaded(p)
  PROVE  ManagerInv'
<1>1. PICK c \in Plugins :
        /\ Manager!Activated(p, c)
        /\ sysPath' \in Seq(Plugins)
        /\ \A q, r : InFront(sysPath, q, r) => InFront(sysPath', q, r)
        /\ c = p \/ p \in Broken \/ InFront(sysPath', c, p)
  <2>1. CASE Manager!ActivateInstance(p)
    BY <2>1 DEF Manager!ActivateInstance, ManagerInv, Manager!TypeOK
  <2>2. CASE Manager!ActivateLoaded(p)
    <3>1. PICK c \in Plugins : Manager!Loads(p, c) /\ Manager!Activated(p, c)
      BY <2>2 DEF Manager!ActivateLoaded
    <3>2. c # None
      BY ToolsetAssumption DEF Manager!PluginsAssumption
    <3>3. QED  BY <3>1, <3>2, LoadsFacts
  <2>3. QED  BY <2>1, <2>2
<1>2. /\ running /\ running' = running
      /\ enabled' = [enabled EXCEPT ![p] = "on"] /\ code' = [code EXCEPT ![p] = c]
      /\ known' = Manager!Placed(p) /\ unsaved' = unsaved \cup {p}
      /\ registry' = registry /\ order' = order
  BY <1>1 DEF Manager!Activated
<1>3. Manager!TypeOK /\ Once(known) /\ None \notin {"on", "off"}
  BY ToolsetAssumption DEF ManagerInv, Manager!PluginsAssumption
<1>4. /\ enabled'[p] = "on" /\ code'[p] = c
      /\ \A q \in Plugins : q # p => enabled'[q] = enabled[q] /\ code'[q] = code[q]
  BY <1>2, <1>3 DEF Manager!TypeOK
<1>5. Manager!TypeOK'
  <2>1. known' \in Seq(Plugins) /\ \A q \in Plugins : Manager!Contains(known', q) <=> enabled'[q] # None
    BY <1>2, <1>3, <1>4, PlacedFacts DEF Manager!TypeOK
  <2>2. QED  BY <1>1, <1>2, <1>3, <1>4, <2>1 DEF Manager!TypeOK
<1>6. Once(known')
  BY <1>2, <1>3, PlacedFacts DEF Manager!TypeOK
<1>7. RegisteredAreKnown' /\ NothingAtRest'
  BY <1>2, <1>3, <1>4, ToolsetAssumption
  DEF ManagerInv, RegisteredAreKnown, NothingAtRest, Manager!PluginsAssumption
<1>8. RegistryAgrees'
  BY <1>2, <1>4, ToolsetAssumption
  DEF ManagerInv, RegistryAgrees, Manager!RegistryAgrees, Manager!PluginsAssumption
<1>9. ForeignCodeIsInFront'
  <2>1. SUFFICES ASSUME NEW q \in Plugins, code'[q] \notin {None, q}, q \notin Broken
                 PROVE  InFront(sysPath', code'[q], q)
    BY DEF ForeignCodeIsInFront, Manager!ForeignCodeIsInFront, InFront
  <2>2. CASE q = p
    BY <1>1, <1>4, <2>1, <2>2
  <2>3. CASE q # p
    <3>1. InFront(sysPath, code[q], q)
      BY <1>4, <2>1, <2>3
      DEF ManagerInv, ForeignCodeIsInFront, Manager!ForeignCodeIsInFront, InFront
    <3>2. QED  BY <1>1, <1>4, <2>3, <3>1
  <2>4. QED  BY <2>2, <2>3
<1>10. QED
  BY <1>5, <1>6, <1>7, <1>8, <1>9 DEF ManagerInv, Once

\* A plugin is enabled or disabled, with a save that succeeds or raises.
LEMMA EnabledKeeps ==
  ASSUME ManagerInv, NEW p \in Plugins, Manager!Enable(p) \/ Manager!Disable(p)
  PROVE  ManagerInv'
<1>1. PICK c \in Plugins \cup {None}, flag \in {"on", "off"} :
        /\ running /\ running' = running /\ known' = known /\ enabled[p] # None
        /\ enabled' = [enabled EXCEPT ![p] = flag]
        /\ code' \in {code, [code EXCEPT ![p] = c]}
        /\ flag = "off" => c = None /\ code' = [code EXCEPT ![p] = c]
        /\ sysPath' \in Seq(Plugins)
        /\ \A q, r : InFront(sysPath, q, r) => InFront(sysPath', q, r)
        /\ c \in {None, p} \/ p \in Broken \/ InFront(sysPath', c, p)
        /\ Manager!Save \/ Manager!SaveRaises(p)
  <2>1. CASE Manager!Enable(p)
    <3>1. PICK c \in Plugins \cup {None} :
            Manager!Loads(p, c) /\ code' = IF c = None THEN code ELSE [code EXCEPT ![p] = c]
      BY <2>1 DEF Manager!Enable
    <3>2. QED  BY <2>1, <3>1, LoadsFacts DEF Manager!Enable
  <2>2. CASE Manager!Disable(p)
    BY <2>2 DEF Manager!Disable, Manager!WithoutCode, ManagerInv, Manager!TypeOK
  <2>3. QED  BY <2>1, <2>2
<1>2. Manager!TypeOK /\ None \notin {"on", "off"} /\ Registered \subseteq Plugins
  BY ToolsetAssumption DEF ManagerInv, Manager!PluginsAssumption
<1>3. /\ enabled' \in [Plugins -> {"on", "off", None}]
      /\ enabled'[p] = flag /\ \A q \in Plugins : q # p => enabled'[q] = enabled[q]
      /\ \A q \in Plugins : enabled'[q] # None <=> enabled[q] # None
      /\ code' \in [Plugins -> Plugins \cup {None}]
      /\ code'[p] \in {code[p], c} /\ \A q \in Plugins : q # p => code'[q] = code[q]
      /\ flag = "off" => code'[p] = None
  BY <1>1, <1>2 DEF Manager!TypeOK
<1>4. \/ /\ registry' = [q \in Registered |-> enabled'[q]] /\ unsaved' = {}
         /\ order' \in Manager!SetToSeqs(Registered)
      \/ unsaved' = unsaved \cup {p} /\ registry' = registry /\ order' = order
  BY <1>1 DEF Manager!Save, Manager!Flags, Manager!SaveRaises
<1>5. \A q \in Registered : enabled'[q] \in {"on", "off"}
  BY <1>1, <1>2, <1>3 DEF ManagerInv, RegisteredAreKnown
<1>6. registry' \in [Registered -> {"on", "off"}] /\ order' \in Manager!SetToSeqs(Registered)
      /\ unsaved' \subseteq Plugins
  BY <1>2, <1>4, <1>5 DEF Manager!TypeOK
<1>7. \A q \in Plugins : code'[q] # None => enabled'[q] = "on"
  BY <1>1, <1>2, <1>3 DEF Manager!TypeOK
<1>8. Manager!TypeOK'
  BY <1>1, <1>2, <1>3, <1>6, <1>7 DEF Manager!TypeOK, Manager!Contains
<1>9. Once(known)' /\ RegisteredAreKnown' /\ NothingAtRest'
  BY <1>1, <1>2, <1>3 DEF ManagerInv, Once, RegisteredAreKnown, NothingAtRest
<1>10. RegistryAgrees'
  BY <1>1, <1>2, <1>3, <1>4 DEF ManagerInv, RegistryAgrees, Manager!RegistryAgrees
<1>11. ForeignCodeIsInFront'
  <2>1. SUFFICES ASSUME NEW q \in Plugins, code'[q] \notin {None, q}, q \notin Broken
                 PROVE  InFront(sysPath', code'[q], q)
    BY DEF ForeignCodeIsInFront, Manager!ForeignCodeIsInFront, InFront
  <2>2. CASE code'[q] = code[q]
    <3>1. InFront(sysPath, code[q], q)
      BY <2>1, <2>2 DEF ManagerInv, ForeignCodeIsInFront, Manager!ForeignCodeIsInFront, InFront
    <3>2. QED  BY <1>1, <2>2, <3>1
  <2>3. CASE q = p /\ code'[q] = c
    BY <1>1, <2>1, <2>3
  <2>4. QED  BY <1>3, <2>2, <2>3
<1>12. QED  BY <1>8, <1>9, <1>10, <1>11 DEF ManagerInv

\* The process ends, and the next one reads the registry.
LEMMA ManagerRestartKeeps ==
  ASSUME ManagerInv, Manager!Stop \/ Manager!Start
  PROVE  ManagerInv'
<1>1. CASE Manager!Stop
  <2>1. <<>> \in Seq(Plugins) /\ Len(<<>>) = 0 /\ DOMAIN <<>> = {}
    OBVIOUS
  <2>2. Manager!TypeOK'
    <3>1. /\ enabled' = [p \in Plugins |-> None] /\ code' = [p \in Plugins |-> None]
          /\ known' = <<>> /\ sysPath' = <<>> /\ running' = FALSE /\ unsaved' = {}
          /\ registry' = registry /\ order' = order
      BY <1>1 DEF Manager!Stop
    <3>2. \A p \in Plugins : ~Manager!Contains(known', p) /\ enabled'[p] = None /\ code'[p] = None
      BY <2>1, <3>1 DEF Manager!Contains
    <3>3. QED  BY <2>1, <3>1, <3>2 DEF ManagerInv, Manager!TypeOK
  <2>3. Once(known)' /\ RegisteredAreKnown' /\ NothingAtRest' /\ RegistryAgrees'
    BY <1>1, <2>1 DEF Once, RegisteredAreKnown, NothingAtRest, RegistryAgrees,
       Manager!RegistryAgrees, Manager!Stop
  <2>4. ForeignCodeIsInFront'
    BY <1>1 DEF ForeignCodeIsInFront, Manager!ForeignCodeIsInFront, Manager!Stop
  <2>5. QED  BY <2>2, <2>3, <2>4 DEF ManagerInv
<1>2. CASE Manager!Start
  <2>1. /\ Manager!TypeOK /\ order \in Manager!SetToSeqs(Registered)
        /\ None \notin {"on", "off"} /\ Registered \subseteq Plugins
    BY ToolsetAssumption DEF ManagerInv, Manager!TypeOK, Manager!PluginsAssumption
  <2>2. /\ ~running /\ running' = TRUE /\ known' = order
        /\ enabled' = [p \in Plugins |-> IF p \in Registered THEN registry[p] ELSE None]
        /\ UNCHANGED <<code, sysPath, registry, order, unsaved>>
    BY <1>2 DEF Manager!Start, Manager!FromRegistry
  <2>3. /\ enabled' \in [Plugins -> {"on", "off", None}]
        /\ \A p \in Registered : enabled'[p] = registry[p] /\ enabled'[p] # None
        /\ \A p \in Plugins : enabled'[p] # None <=> p \in Registered
    BY <2>1, <2>2 DEF Manager!TypeOK
  <2>4. \A p \in Plugins : code[p] = None
    BY <2>2 DEF ManagerInv, NothingAtRest
  <2>5. Manager!TypeOK' /\ Once(known)'
    BY <2>1, <2>2, <2>3, <2>4, OrderHasAll DEF Manager!TypeOK
  <2>6. RegisteredAreKnown' /\ NothingAtRest' /\ RegistryAgrees' /\ ForeignCodeIsInFront'
    BY <2>2, <2>3, <2>4
    DEF RegisteredAreKnown, NothingAtRest, RegistryAgrees, Manager!RegistryAgrees,
        ForeignCodeIsInFront, Manager!ForeignCodeIsInFront
  <2>7. QED  BY <2>5, <2>6 DEF ManagerInv
<1>3. QED  BY <1>1, <1>2

\* No step of the manager breaks it.
LEMMA ManagerStep ==
  ASSUME ManagerInv, [Manager!Next]_pluginVars
  PROVE  ManagerInv'
<1>1. CASE UNCHANGED pluginVars
  BY <1>1 DEF pluginVars, ManagerInv, Manager!TypeOK, Manager!Contains, Once, RegisteredAreKnown,
     NothingAtRest, RegistryAgrees, Manager!RegistryAgrees, ForeignCodeIsInFront,
     Manager!ForeignCodeIsInFront
<1>2. QED
  BY <1>1, ActivatedKeeps, EnabledKeeps, ManagerRestartKeeps DEF Manager!Next

\* The registry was read and nothing was loaded yet.
LEMMA ManagerInit == Manager!Init => ManagerInv
<1>1. SUFFICES ASSUME Manager!Init  PROVE ManagerInv
  OBVIOUS
<1>2. /\ order \in Manager!SetToSeqs(Registered) /\ known = order
      /\ registry \in [Registered -> {"on", "off"}] /\ running = TRUE
      /\ enabled = [p \in Plugins |-> IF p \in Registered THEN registry[p] ELSE None]
      /\ code = [p \in Plugins |-> None] /\ sysPath = <<>> /\ unsaved = {}
  BY <1>1 DEF Manager!Init, Manager!FromRegistry
<1>3. None \notin {"on", "off"} /\ Registered \subseteq Plugins
  BY ToolsetAssumption DEF Manager!PluginsAssumption
<1>4. /\ enabled \in [Plugins -> {"on", "off", None}]
      /\ \A p \in Registered : enabled[p] = registry[p] /\ enabled[p] # None
      /\ \A p \in Plugins : enabled[p] # None <=> p \in Registered
  BY <1>2, <1>3
<1>5. Manager!TypeOK /\ Once(known)
  <2>1. /\ known \in Seq(Plugins) /\ Once(known)
        /\ \A p \in Plugins : Manager!Contains(known, p) <=> enabled[p] # None
    BY <1>2, <1>4, OrderHasAll
  <2>2. sysPath \in Seq(Plugins)
    BY <1>2
  <2>3. code \in [Plugins -> Plugins \cup {None}] /\ \A p \in Plugins : code[p] = None
    BY <1>2
  <2>4. QED  BY <1>2, <1>4, <2>1, <2>2, <2>3 DEF Manager!TypeOK
<1>6. QED
  BY <1>2, <1>4, <1>5
  DEF ManagerInv, RegisteredAreKnown, NothingAtRest, RegistryAgrees, Manager!RegistryAgrees,
      ForeignCodeIsInFront, Manager!ForeignCodeIsInFront

-----------------------------------------------------------------------------
(* The plugins in the process as a whole. *)

\* What any step of the process is for the plugin manager.
LEMMA ManagerSteps == [Next]_vars => [Manager!Next]_pluginVars
BY DEF Next, vars, Manage, Register, CallSsh, Work, End, Begin, Manager!Next, pluginVars

\* What holds of it always.
LEMMA ManagerInvariance == Spec => []ManagerInv
<1>1. Init => ManagerInv
  BY ManagerInit DEF Init
<1>2. ManagerInv /\ [Next]_vars => ManagerInv'
  BY ManagerStep, ManagerSteps
<1>3. QED  BY <1>1, <1>2, PTL DEF Spec

\* What the manager enables and disables is in registry.json5, but for what was not saved.
THEOREM RegistryAgreesAlways == Spec => []RegistryAgrees
<1>1. ManagerInv => RegistryAgrees
  BY DEF ManagerInv
<1>2. QED  BY <1>1, ManagerInvariance, PTL

\* The code of another plugin runs only for one whose directory is behind that one's.
THEOREM ForeignCodeNeedsPath == Spec => []ForeignCodeIsInFront
<1>1. ManagerInv => ForeignCodeIsInFront
  BY DEF ManagerInv
<1>2. QED  BY <1>1, ManagerInvariance, PTL

-----------------------------------------------------------------------------
(***************************************************************************)
(* Who serves a name.  As long as the process runs the manager's           *)
(* dictionary grows at its end only, by plugins that offered nothing, so   *)
(* of two that both offer a name before and after a step the same one is   *)
(* the last.                                                               *)
(***************************************************************************)

\* What a step of the running process does to the order of the plugins.
LEMMA KnownGrows ==
  ASSUME ManagerInv, [Next]_vars, running, running'
  PROVE  /\ known \in Seq(Plugins) /\ known' \in Seq(Plugins)
         /\ \A i \in DOMAIN known : i \in DOMAIN known' /\ known'[i] = known[i]
         /\ \A i \in DOMAIN known' : i \notin DOMAIN known => enabled[known'[i]] = None
<1>1. known \in Seq(Plugins) /\ known' \in Seq(Plugins)
  BY ManagerStep, ManagerSteps DEF ManagerInv, Manager!TypeOK
<1>2. known' = known \/ \E p \in Plugins : known' = Manager!Placed(p)
  BY DEF Next, vars, pluginVars, Manage, Register, CallSsh, Work, End, Begin,
         Manager!ActivateInstance, Manager!ActivateLoaded, Manager!Activated, Manager!Enable,
         Manager!Disable, Manager!Stop, Manager!Start
<1>3. CASE known' = known
  BY <1>1, <1>3
<1>4. ASSUME NEW p \in Plugins, known' = Manager!Placed(p)
      PROVE  /\ \A i \in DOMAIN known : i \in DOMAIN known' /\ known'[i] = known[i]
             /\ \A i \in DOMAIN known' : i \notin DOMAIN known => enabled[known'[i]] = None
  BY <1>1, <1>4, PlacedFacts DEF ManagerInv, Manager!TypeOK
<1>5. QED  BY <1>1, <1>2, <1>3, <1>4

\* The one that serves a name is the last one that offers it, or is the one by hand.
LEMMA ServerFacts ==
  ASSUME NEW n, known \in Seq(Plugins)
  PROVE  \/ \E x \in Functions!Bindings(n) :
              /\ \A y \in Functions!Bindings(n) : x >= y
              /\ Functions!Server(n) = [by |-> "plugin", of |-> known[x]]
         \/ /\ Functions!Bindings(n) = {}
            /\ Functions!Server(n) = [by |-> "hand", of |-> byHand[n]]
<1> DEFINE B == Functions!Bindings(n)
<1>1. Len(known) \in Nat /\ B \in SUBSET (1 .. Len(known))
  BY DEF Functions!Bindings
<1>2. CASE B = {}
  BY <1>2 DEF Functions!Server
<1>3. CASE B # {}
  <2>1. \E x \in B : \A y \in B : x >= y
    BY <1>1, <1>3, LastOf
  <2>2. Functions!Max(B) \in B /\ \A y \in B : Functions!Max(B) >= y
    BY <2>1 DEF Functions!Max
  <2>3. QED  BY <1>3, <2>2 DEF Functions!Server
<1>4. QED  BY <1>2, <1>3

\* The same in the next state.
LEMMA NextServerFacts ==
  ASSUME NEW n, known' \in Seq(Plugins)
  PROVE  \/ \E x \in Functions!Bindings(n)' :
              /\ \A y \in Functions!Bindings(n)' : x >= y
              /\ Functions!Server(n)' = [by |-> "plugin", of |-> known'[x]]
         \/ /\ Functions!Bindings(n)' = {}
            /\ Functions!Server(n)' = [by |-> "hand", of |-> byHand'[n]]
<1> DEFINE B == Functions!Bindings(n)
<1>1. Len(known') \in Nat /\ B' \in SUBSET (1 .. Len(known'))
  BY DEF Functions!Bindings
<1>2. CASE B' = {}
  BY <1>2 DEF Functions!Server
<1>3. CASE B' # {}
  <2>1. \E x \in B' : \A y \in B' : x >= y
    BY <1>1, <1>3, LastOf
  <2>2. Functions!Max(B') \in B' /\ \A y \in B' : Functions!Max(B') >= y
    BY <2>1 DEF Functions!Max
  <2>3. QED  BY <1>3, <2>2 DEF Functions!Server
<1>4. QED  BY <1>2, <1>3

\* A step of the running process takes no name from one that still offers it for one that
\* offered it before.
LEMMA HandsStep ==
  ASSUME ManagerInv, [Next]_vars, running, running'
  PROVE  Functions!HandsChangeForCause
<1>1. SUFFICES ASSUME NEW n \in Names, NEW a, NEW b,
                      a = Functions!Server(n), b = Functions!Server(n)',
                      Functions!Stands(a, n)', Functions!Stands(b, n)
               PROVE  a = b
  BY DEF Functions!HandsChangeForCause
<1> DEFINE B == Functions!Bindings(n)
<1>2. \A p \in Plugins : Functions!Offering(p, n) => enabled[p] # None
  BY ToolsetAssumption DEF Functions!Offering, Manager!PluginsAssumption
<1>3. known \in Seq(Plugins) /\ known' \in Seq(Plugins)
  BY KnownGrows
<1>4. /\ B = {i \in DOMAIN known : Functions!Offering(known[i], n)}
      /\ B' = {i \in DOMAIN known' : Functions!Offering(known[i], n)'}
  BY DEF Functions!Bindings
<1>5. ASSUME NEW x \in B, a = [by |-> "plugin", of |-> known[x]]
      PROVE  x \in B'
  BY <1>1, <1>4, <1>5, KnownGrows DEF Functions!Stands, Functions!Offering
<1>6. ASSUME NEW x \in B', b = [by |-> "plugin", of |-> known'[x]]
      PROVE  x \in B /\ known[x] = known'[x]
  <2>1. Functions!Offering(known'[x], n) /\ x \in DOMAIN known' /\ known'[x] \in Plugins
    BY <1>1, <1>3, <1>4, <1>6 DEF Functions!Stands
  <2>2. x \in DOMAIN known
    BY <1>2, <2>1, KnownGrows
  <2>3. QED  BY <1>4, <2>1, <2>2, KnownGrows
<1>7. \/ \E x \in B : (\A y \in B : x >= y) /\ a = [by |-> "plugin", of |-> known[x]]
      \/ B = {} /\ a = [by |-> "hand", of |-> byHand[n]]
  BY <1>1, <1>3, ServerFacts
<1>8. \/ \E x \in B' : (\A y \in B' : x >= y) /\ b = [by |-> "plugin", of |-> known'[x]]
      \/ B' = {} /\ b = [by |-> "hand", of |-> byHand'[n]]
  BY <1>1, <1>3, NextServerFacts
<1>9. CASE /\ B = {} /\ a = [by |-> "hand", of |-> byHand[n]]
           /\ B' = {} /\ b = [by |-> "hand", of |-> byHand'[n]]
  BY <1>1, <1>9 DEF Functions!Stands
<1>10. ASSUME NEW x \in B, \A y \in B : x >= y, a = [by |-> "plugin", of |-> known[x]],
              NEW z \in B', \A y \in B' : z >= y, b = [by |-> "plugin", of |-> known'[z]]
       PROVE  a = b
  <2>1. x \in B' /\ z \in B /\ known[z] = known'[z]
    BY <1>5, <1>6, <1>10
  <2>2. x \in Nat /\ z \in Nat /\ x >= z /\ z >= x
    BY <1>3, <1>4, <1>10, <2>1
  <2>3. QED  BY <1>10, <2>1, <2>2
<1>11. QED  BY <1>5, <1>6, <1>7, <1>8, <1>9, <1>10

\* Within a process no plugin loses a name that it still offers to one that offered it before.
THEOREM NamesChangeHandsForCause == Spec => HandsChangeForCause
<1>1. ManagerInv /\ [Next]_vars =>
        [running /\ running' => Functions!HandsChangeForCause]_<<pluginVars, functionVars>>
  BY HandsStep
<1>2. QED
  BY <1>1, ManagerInvariance, PTL DEF Spec, HandsChangeForCause

-----------------------------------------------------------------------------
(* Type correctness. *)

\* The functions that names lead to.
LEMMA FunctionTypes ==
  ASSUME Functions!TypeOK, [Next]_vars
  PROVE  Functions!TypeOK'
BY DEF Functions!TypeOK, Next, vars, functionVars, Manage, Register, CallSsh, Work, End, Begin,
       Functions!Register, Functions!Unregister, Functions!UnregisterByPlugin, Functions!Falter,
       Functions!Stop

\* The SSH plugin runs its own code, and its names lead to an instance of it while it does.
SshHasInstance ==
  /\ code[Ssh] \in {None, Ssh}
  /\ instance # None <=> code[Ssh] = Ssh
  /\ code[Ssh] = Ssh => enabled[Ssh] = "on"

\* The manager and the pool know of the same instance.
LEMMA SshStep ==
  ASSUME ManagerInv, PoolInv, SshHasInstance, [Next]_vars
  PROVE  SshHasInstance'
<1>1. /\ Ssh \in Plugins /\ Ssh \in Builtin /\ Ssh \notin Broken /\ Ssh # None
      /\ code \in [Plugins -> Plugins \cup {None}]
      /\ DOMAIN enabled = Plugins
  BY ToolsetAssumption DEF Manager!PluginsAssumption, ManagerInv, Manager!TypeOK
<1>2. \A k \in Nat : k # None
  BY ToolsetAssumption DEF Pools!SshSessionsAssumption
<1>3. made' \in Nat /\ made \in Nat
  BY PoolStep, PoolSteps DEF PoolInv, Pools!TypeOK
<1>4. ASSUME NEW p \in Plugins, Manage(p), p # Ssh
      PROVE  SshHasInstance'
  <2>1. code'[Ssh] = code[Ssh] /\ enabled'[Ssh] = enabled[Ssh]
    BY <1>1, <1>4 DEF Manage, Manager!ActivateInstance, Manager!ActivateLoaded, Manager!Activated,
       Manager!Enable, Manager!Disable, Manager!WithoutCode
  <2>2. instance' = instance
    BY <1>4 DEF Manage, sshVars
  <2>3. QED  BY <2>1, <2>2 DEF SshHasInstance
<1>5. CASE Manage(Ssh)
  <2>1. \A c : Manager!Loads(Ssh, c) => c = Ssh
    BY <1>1 DEF Manager!Loads
  <2>2. CASE Manager!Disable(Ssh) /\ Pools!Deactivate
    BY <1>1, <2>2 DEF SshHasInstance, Manager!Disable, Manager!WithoutCode, Pools!Deactivate
  <2>3. CASE /\ \/ Manager!ActivateInstance(Ssh) \/ Manager!ActivateLoaded(Ssh)
                \/ Manager!Enable(Ssh)
             /\ Pools!Activate \/ Pools!Load
    <3>1. code'[Ssh] = Ssh /\ enabled'[Ssh] = "on"
      BY <1>1, <2>1, <2>3
      DEF Manager!ActivateInstance, Manager!ActivateLoaded, Manager!Activated, Manager!Enable
    <3>2. instance' # None
      BY <1>2, <1>3, <2>3 DEF Pools!Activate, Pools!Load
    <3>3. QED  BY <3>1, <3>2 DEF SshHasInstance
  <2>4. QED  BY <1>5, <2>2, <2>3 DEF Manage
<1>6. CASE Register \/ CallSsh \/ Work \/ UNCHANGED vars
  <2>1. code' = code /\ enabled' = enabled
    BY <1>6 DEF Register, CallSsh, Work, pluginVars, vars
  <2>2. instance' = instance
    BY <1>6 DEF Register, CallSsh, Work, sshVars, vars, Pools!Calling, Pools!Working, Pools!Open,
       Pools!Use, Pools!Opened, Pools!EndsAlone, Pools!Execute, Pools!TakeOut, Pools!Closed,
       Pools!CloseRaises, Pools!Cancel, Pools!Lose
  <2>3. QED  BY <2>1, <2>2 DEF SshHasInstance
<1>7. CASE End \/ Begin
  BY <1>1, <1>7 DEF SshHasInstance, End, Begin, Manager!Stop, Manager!Start, Pools!Stop, sshVars,
                    ManagerInv, NothingAtRest
<1>8. QED  BY <1>4, <1>5, <1>6, <1>7 DEF Next

\* The manager and the pool always know of the same instance.
LEMMA SshInvariance == Spec => []SshHasInstance
<1>1. Init => SshHasInstance
  BY ToolsetAssumption
  DEF Init, SshHasInstance, Manager!Init, Pools!Init, Manager!PluginsAssumption
<1>2. ManagerInv /\ PoolInv /\ SshHasInstance /\ [Next]_vars => SshHasInstance'
  BY SshStep
<1>3. QED  BY <1>1, <1>2, ManagerInvariance, PoolInvariance, PTL DEF Spec

\* Type correctness of the process as a whole.
THEOREM TypeCorrect == Spec => []TypeOK
<1>1. Init => Functions!TypeOK /\ ops \in 0 .. MaxOps
  BY ToolsetAssumption DEF Init, Functions!Init, Functions!TypeOK
<1>2. Functions!TypeOK /\ [Next]_vars => Functions!TypeOK'
  BY FunctionTypes
<1>3. ops \in 0 .. MaxOps /\ [Next]_vars => (ops \in 0 .. MaxOps)'
  BY ToolsetAssumption DEF Next, vars, Asked, Manage, Register, CallSsh, Work, End, Begin
<1>4. ManagerInv /\ PoolInv /\ Functions!TypeOK /\ SshHasInstance /\ ops \in 0 .. MaxOps => TypeOK
  BY DEF ManagerInv, PoolInv, SshHasInstance, TypeOK
<1>5. QED
  BY <1>1, <1>2, <1>3, <1>4, ManagerInvariance, PoolInvariance, SshInvariance, PTL DEF Spec

-----------------------------------------------------------------------------
(***************************************************************************)
(* Open connections.  The parts meet: the pool that has a connection, the  *)
(* instance that the manager has, and the function that the name leads to. *)
(***************************************************************************)

\* The names of SSH lead to the plugin as long as an instance of it is active and neither
\* its error nor another plugin hides it.
LEMMA ShellServes ==
  ASSUME ManagerInv, SshHasInstance, instance # None, ~Hidden
  PROVE  ShellIsSsh
<1>1. /\ Ssh \in Plugins /\ Ssh # None /\ Shell \in Offers[Ssh]
  BY ToolsetAssumption DEF Manager!PluginsAssumption
<1>2. Functions!Offering(Ssh, Shell)
  BY <1>1 DEF SshHasInstance, Hidden, Functions!Offering
<1>3. /\ known \in Seq(Plugins) /\ enabled[Ssh] # None
  BY ToolsetAssumption
  DEF ManagerInv, Manager!TypeOK, SshHasInstance, Manager!PluginsAssumption
<1>4. PICK i \in DOMAIN known : known[i] = Ssh
  BY <1>1, <1>3 DEF ManagerInv, Manager!TypeOK, Manager!Contains
<1>5. i \in Functions!Bindings(Shell)
  BY <1>2, <1>4 DEF Functions!Bindings
<1>6. \A x \in Functions!Bindings(Shell) : known[x] = Ssh
  BY <1>3 DEF Functions!Bindings, Hidden
<1>7. QED  BY <1>3, <1>5, <1>6, ServerFacts DEF ShellIsSsh

\* An open connection is in a pool under an id that the model was told, or is being closed,
\* unless its open was cancelled or its close raised; and from the pool of the instance that
\* is active a call takes it out, unless the name is hidden from it.
THEOREM OpenConnectionsAreClosable == Spec => []OpenIsClosable
<1>1. PoolInv /\ ManagerInv /\ SshHasInstance => OpenIsClosable
  <2>1. SUFFICES ASSUME PoolInv, ManagerInv, SshHasInstance, NEW s \in Sessions,
                        client[s] = "open"
                 PROVE  \/ /\ s \in told /\ pool[s] # None
                           /\ pool[s] = instance => ShellIsSsh \/ Hidden
                        \/ \E c \in Callers : Closing(c) /\ call[c].id = s
                        \/ s \in unheard \cup stuck
    BY DEF OpenIsClosable, Closing
  <2>2. \/ pool[s] # None /\ s \in told
        \/ \E c \in Callers : Closing(c) /\ call[c].id = s
        \/ s \in unheard \cup stuck
    BY <2>1 DEF PoolInv, OpenIsKept
  <2>3. pool[s] # None /\ pool[s] = instance => ShellIsSsh \/ Hidden
    BY <2>1, ShellServes
  <2>4. QED  BY <2>2, <2>3
<1>2. QED  BY <1>1, PoolInvariance, ManagerInvariance, SshInvariance, PTL
=============================================================================
