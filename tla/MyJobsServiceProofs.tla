------------------------- MODULE MyJobsServiceProofs -------------------------
(* The job system implements the job service, for any set of workers,      *)
(* clients and names, any number of jobs and faults, as long as nobody     *)
(* calls start() on a job that was scheduled.                              *)
EXTENDS MyJobsRefinement, MyJobsDeliveryProofs

(* One delivery per job: its id is on the queue once, or in the hand of    *)
(* one worker, or still to be put by schedule().                           *)
Sole ==
    /\ \A j \in making : (\A i \in 1..Len(queue) : queue[i] # j) /\ \A w \in Workers : cur[w] # j
    /\ \A i, k \in 1..Len(queue) : queue[i] = queue[k] => i = k
    /\ \A i \in 1..Len(queue), w \in Workers : queue[i] # cur[w]
    /\ \A v, w \in Workers : cur[v] = cur[w] /\ cur[v] # NoId => v = w

(* The histories name jobs that were scheduled.                            *)
HistIds == \A j \in finished \cup dropped \cup completed : j < nextId

(* A job that is still to be delivered has not ended in any way; a worker  *)
(* that looks at the dependencies may have saved an ERROR already.         *)
Open(j) == j \notin dropped \cup completed
Undelivered ==
    /\ \A j \in making : Open(j) /\ j \notin finished
    /\ \A i \in 1..Len(queue) : Open(queue[i]) /\ queue[i] \notin finished
    /\ \A w \in Workers : pc[w] \in Pending => Open(cur[w]) /\ (pc[w] # "deps" \/ ~skip[w] => cur[w] \notin finished)
    /\ \A w \in Workers : pc[w] = "deps" /\ skip[w] /\ ~relaunch[w] => cur[w] \in finished

TokenInv == Sole /\ HistIds /\ Undelivered

(* Dependencies were scheduled before the job that names them.             *)
DepsLower ==
    /\ \A j \in JobIds : j < nextId => \A d \in jobs[j].deps : d < j
    /\ \A j \in JobIds : j >= nextId => jobs[j].deps = {}
    /\ \A w \in Workers : pc[w] = "deps" => todo[w] \subseteq copy[w].deps

(* Jobs that cannot succeed any more: the least set that has the failed    *)
(* jobs and the jobs with a dependency in the set.                         *)
Failed(j) == Phase(j) = "ended" /\ j \notin completed
Closed(T) == \A j \in JobIds : (Failed(j) \/ \E d \in jobs[j].deps : d < j /\ d \in T) => j \in T
Doomed == {j \in JobIds : \A T \in SUBSET JobIds : Closed(T) => j \in T}

(* An ERROR in a record, or in a copy that a waiter may save, is true; and *)
(* a worker saves one before the execution only for a doomed dependency.   *)
ErrorTrue ==
    /\ \A j \in JobIds : jobs[j].state = "ERROR" => j \in Doomed
    /\ \A c \in Clients : cl[c].pc = "loaded" /\ cl[c].copy.state = "ERROR" => cl[c].id \in Doomed
    /\ \A w \in Workers : pc[w] = "deps" /\ cur[w] \in finished => \E d \in jobs[cur[w]].deps : d \in Doomed

(* Without faults and without names that replace jobs, every job stays     *)
(* stored under a name of its own and no worker is told to halt.           *)
MayLose == MaxFaults > 0 \/ Names # {}

PeaceStore ==
    /\ \A j \in JobIds : j < nextId => j \in stored
    /\ \A j \in stored : jobs[j].name = j
    /\ \A j \in making : draft[j].name = j
PeaceCopies ==
    /\ \A w \in Workers : pc[w] \in {"deps", "run", "post"} => copy[w].name = cur[w]
    /\ \A c \in Clients : cl[c].pc = "loaded" => cl[c].copy.name = cl[c].id
PeaceWorkers == \A w \in Workers : ~wrec[w].halt /\ ~wobj[w].halt /\ pst[w] = "idle"

Peaceful == PeaceStore /\ PeaceCopies /\ PeaceWorkers
CalmInv  == MayLose \/ Peaceful

(* What a call of schedule() does.                                         *)
ScheduleStep ==
    \/ \E n \in Names : ScheduleDelete(n)
    \/ \E n \in Names \cup JobIds, D \in SUBSET JobIds, Q \in SUBSET QNames : ScheduleNew(n, D, Q)
    \/ \E j \in JobIds, t \in BOOLEAN : ScheduleSave(j, t)
    \/ \E j \in JobIds : SchedulePut(j) \/ ScheduleEnd(j)

-----------------------------------------------------------------------------
(* One delivery per job.                                                   *)

(* The ids on the queue, before and after a put or a pop.                  *)
LEMMA QueueFacts ==
    ASSUME TypeOK
    PROVE  /\ Len(queue) \in Nat /\ \A i \in 1..Len(queue) : queue[i] \in JobIds /\ queue[i] \in Nat /\ queue[i] # NoId
           /\ NoId \notin JobIds /\ JobIds \subseteq Nat /\ nextId \in Nat
           /\ \A w \in Workers : cur[w] \in JobIds \cup {NoId} /\ cur[w] \in Nat
           /\ finished \subseteq JobIds /\ dropped \subseteq JobIds /\ completed \subseteq JobIds
<1>1. NoId \notin JobIds /\ JobIds \subseteq Nat /\ NoId \in Nat
  BY DEF NoId, JobIds
<1>2. queue \in Seq(JobIds) /\ nextId \in Nat
  BY DEF TypeOK, StoreType
<1>3. Len(queue) \in Nat /\ \A i \in 1..Len(queue) : queue[i] \in JobIds
  BY <1>2
<1>4. \A w \in Workers : cur[w] \in JobIds \cup {NoId}
  BY DEF TypeOK, ProcType
<1>5. finished \subseteq JobIds /\ dropped \subseteq JobIds /\ completed \subseteq JobIds
  BY DEF TypeOK, HistoryType
<1> QED BY <1>1, <1>2, <1>3, <1>4, <1>5

(* A put adds one id at the end.                                            *)
LEMMA AppendFacts ==
    ASSUME TypeOK, NEW k \in JobIds, queue' = Append(queue, k)
    PROVE  /\ Len(queue') = Len(queue) + 1 /\ queue'[Len(queue) + 1] = k
           /\ \A i \in 1..Len(queue) : queue'[i] = queue[i]
           /\ \A i \in 1..Len(queue') : i = Len(queue) + 1 \/ i \in 1..Len(queue)
<1>1. queue \in Seq(JobIds)
  BY DEF TypeOK, StoreType
<1> QED BY <1>1

(* A pop takes the first id and moves the others up.                        *)
LEMMA TailFacts ==
    ASSUME TypeOK, queue # <<>>, queue' = Tail(queue)
    PROVE  /\ 1 \in 1..Len(queue) /\ Head(queue) = queue[1]
           /\ \A i \in 1..Len(queue') : i \in Nat /\ i + 1 \in 1..Len(queue) /\ queue'[i] = queue[i + 1]
<1>1. queue \in Seq(JobIds)
  BY DEF TypeOK, StoreType
<1>2. Len(queue) \in Nat \ {0} /\ Len(queue') = Len(queue) - 1
  BY <1>1
<1> QED BY <1>1, <1>2

(* Whether a job has ended in some way is changed for one job at most.     *)
OnlyJob(k) ==
    \A j \in JobIds \ {k} :
        /\ j \in finished' <=> j \in finished
        /\ j \in dropped' <=> j \in dropped
        /\ j \in completed' <=> j \in completed

(* What is required of the worker that takes a step.                       *)
HandOk(w) ==
    /\ pc[w] \in Pending => Open(cur[w]) /\ (pc[w] # "deps" \/ ~skip[w] => cur[w] \notin finished)
    /\ pc[w] = "deps" /\ skip[w] /\ ~relaunch[w] => cur[w] \in finished

(* A step about a worker that leaves the queue alone.                      *)
LEMMA TokenHand ==
    ASSUME DependencyInv, TypeOK', TokenInv, NEW w \in Workers, Only(w), UNCHANGED <<queue, nextId, making>>,
           cur'[w] \in {cur[w], NoId}, OnlyJob(cur[w]), HandOk(w)'
    PROVE  TokenInv'
<1>1. /\ Len(queue) \in Nat /\ \A i \in 1..Len(queue) : queue[i] \in JobIds /\ queue[i] # NoId
      /\ \A v \in Workers : cur[v] \in JobIds \cup {NoId} /\ cur[v] < nextId
      /\ NoId \notin JobIds /\ nextId \in Nat
      /\ finished' \subseteq JobIds /\ dropped' \subseteq JobIds /\ completed' \subseteq JobIds
      /\ making \subseteq JobIds
  <2>1. \A v \in Workers : cur[v] < nextId
    BY DEF DependencyInv, DepsInv, IdsUsed
  <2>2. finished' \subseteq JobIds /\ dropped' \subseteq JobIds /\ completed' \subseteq JobIds
    BY DEF TypeOK, HistoryType
  <2> QED BY <2>1, <2>2, QueueFacts DEF DependencyInv, TypeOK, StoreType
<1>2. Sole'
  <2>1. \A v \in Workers : cur'[v] \in {cur[v], NoId}
    BY DEF Only
  <2> QED BY <1>1, <2>1 DEF Sole, TokenInv
<1>3. HistIds'
  BY <1>1 DEF HistIds, TokenInv, OnlyJob
<1>4. /\ \A i \in 1..Len(queue) : Open(queue[i])' /\ queue[i] \notin finished'
      /\ \A j \in making : Open(j)' /\ j \notin finished'
  BY <1>1 DEF Sole, TokenInv, Undelivered, Open, OnlyJob
<1>5. ASSUME NEW v \in Workers PROVE HandOk(v)'
  <2>1. CASE v = w
    BY <2>1
  <2>2. CASE v # w /\ cur[v] = NoId
    <3>1. cur'[v] = NoId /\ pc'[v] = pc[v] /\ (pc[v] = "deps" => cur[v] \in JobIds)
      BY <2>2 DEF Only, DependencyInv, TypeOK, ProcType
    <3> QED BY <1>1, <2>2, <3>1 DEF HandOk, Open
  <2>3. CASE v # w /\ cur[v] # NoId
    <3>1. cur[v] \in JobIds \ {cur[w]}
      BY <1>1, <2>3 DEF TokenInv, Sole
    <3>2. HandOk(v)
      BY DEF TokenInv, Undelivered, HandOk
    <3> QED BY <2>3, <3>1, <3>2 DEF HandOk, Open, Only, OnlyJob
  <2> QED BY <2>1, <2>2, <2>3
<1>6. Undelivered'
  BY <1>4, <1>5 DEF Undelivered, HandOk
<1> QED BY <1>2, <1>3, <1>6 DEF TokenInv

(* The process ends.                                                       *)
LEMMA TokenEnd ==
    ASSUME DependencyInv, TypeOK', TokenInv, NEW w \in Workers,
           NEW where \in {"get", "dead", "down", "halted", "boot"}, End(w, where), UNCHANGED <<queue, nextId, making>>
    PROVE  TokenInv'
<1>1. TypeOK
  BY DEF DependencyInv
<1>2. OnlyJob(cur[w])
  BY <1>1, EndEffect DEF OnlyJob, Held
<1>3. HandOk(w)'
  BY <1>1, EndEffect DEF HandOk, Pending
<1> QED BY <1>1, <1>2, <1>3, EndEffect, TokenHand

(* The queue gets an id that is nowhere else.                              *)
LEMMA SoleAppend ==
    ASSUME TypeOK, Sole, NEW k \in JobIds, queue' = Append(queue, k),
           \A i \in 1..Len(queue) : queue[i] # k, \A w \in Workers : cur'[w] # k,
           \A w \in Workers : cur'[w] \in {cur[w], NoId}, making' \subseteq making, k \notin making'
    PROVE  Sole'
<1>1. /\ Len(queue) \in Nat /\ Len(queue') = Len(queue) + 1 /\ queue'[Len(queue) + 1] = k
      /\ \A i \in 1..Len(queue) : queue'[i] = queue[i] /\ queue[i] # NoId
      /\ k # NoId
  BY AppendFacts, QueueFacts
<1>2. \A i \in 1..Len(queue') : i = Len(queue) + 1 \/ i \in 1..Len(queue)
  BY AppendFacts
<1>3. \A i, l \in 1..Len(queue') : queue'[i] = queue'[l] => i = l
  BY <1>1, <1>2 DEF Sole
<1>4. \A i \in 1..Len(queue'), w \in Workers : queue'[i] # cur'[w]
  BY <1>1, <1>2 DEF Sole
<1>5. \A v, w \in Workers : cur'[v] = cur'[w] /\ cur'[v] # NoId => v = w
  BY DEF Sole
<1>6. \A j \in making' : (\A i \in 1..Len(queue') : queue'[i] # j) /\ \A w \in Workers : cur'[w] # j
  <2>1. NoId \notin making
    BY QueueFacts DEF TypeOK, StoreType
  <2> QED BY <1>1, <1>2, <2>1 DEF Sole
<1> QED BY <1>3, <1>4, <1>5, <1>6 DEF Sole

(* schedule(): the new id is nowhere yet; the put moves it to the queue,    *)
(* and the other ends of schedule() give it up.                             *)
LEMMA TokenSchedule ==
    ASSUME DependencyInv, TypeOK', TokenInv, ScheduleStep
    PROVE  TokenInv'
<1> USE DEF DependencyInv
<1>1. /\ \A i \in 1..Len(queue) : queue[i] \in JobIds /\ queue[i] \in Nat /\ queue[i] < nextId
      /\ \A w \in Workers : cur[w] \in Nat /\ cur[w] < nextId
      /\ \A j \in finished \cup dropped \cup completed : j \in Nat /\ j < nextId
      /\ nextId \in Nat /\ making \subseteq JobIds /\ JobIds \subseteq Nat
      /\ \A j \in making : j < nextId
  <2>1. /\ \A i \in 1..Len(queue) : queue[i] < nextId
        /\ \A w \in Workers : cur[w] < nextId
        /\ \A j \in finished \cup dropped \cup completed : j < nextId
        /\ \A j \in making : j < nextId
    BY DEF DepsInv, IdsUsed, SavedTrue, TokenInv, HistIds
  <2> QED BY <2>1, QueueFacts DEF TypeOK, StoreType
<1>2. UNCHANGED <<pc, cur, skip, relaunch, completed>>
  BY DEF ScheduleStep, ScheduleDelete, ScheduleNew, ScheduleSave, SchedulePut, ScheduleEnd, Abandon, wvars, locals, hvars
<1>3. CASE UNCHANGED <<nextId, making, queue, dropped>> /\ (finished' = finished \/ \E j \in making : finished' = finished \ {j})
  <2>1. finished' = finished
    BY <1>3 DEF TokenInv, Undelivered
  <2> QED BY <1>2, <1>3, <2>1 DEF TokenInv, Sole, HistIds, Undelivered, Open
<1>4. ASSUME NEW n, NEW D, NEW Q, ScheduleNew(n, D, Q) PROVE TokenInv'
  <2>1. /\ nextId' = nextId + 1 /\ making' = making \cup {nextId}
        /\ UNCHANGED <<queue, finished, dropped, completed>>
    BY <1>4 DEF ScheduleNew, hvars
  <2>2. Sole'
    BY <1>1, <1>2, <2>1 DEF TokenInv, Sole
  <2>3. HistIds'
    BY <1>1, <2>1 DEF HistIds
  <2>4. Undelivered'
    BY <1>1, <1>2, <2>1 DEF TokenInv, Undelivered, Open
  <2> QED BY <2>2, <2>3, <2>4 DEF TokenInv
<1>5. ASSUME NEW j, j \in making, making' = making \ {j}, UNCHANGED <<nextId, queue, finished>>,
             dropped' = dropped \cup ({j} \ finished)
      PROVE  TokenInv'
  <2>1. Sole'
    BY <1>2, <1>5 DEF TokenInv, Sole
  <2>2. HistIds'
    BY <1>1, <1>2, <1>5 DEF TokenInv, HistIds
  <2>3. (\A i \in 1..Len(queue) : queue[i] # j) /\ \A w \in Workers : cur[w] # j
    BY <1>5 DEF TokenInv, Sole
  <2>4. Undelivered'
    BY <1>2, <1>5, <2>3 DEF TokenInv, Undelivered, Open
  <2> QED BY <2>1, <2>2, <2>4 DEF TokenInv
<1>6. ASSUME NEW j, SchedulePut(j) PROVE TokenInv'
  <2>1. /\ j \in making /\ j \in JobIds /\ making' = making \ {j} /\ queue' = Append(queue, j)
        /\ UNCHANGED <<nextId, finished, dropped, completed>>
    BY <1>1, <1>6 DEF SchedulePut, Release, hvars
  <2>2. Sole'
    <3>1. (\A i \in 1..Len(queue) : queue[i] # j) /\ \A w \in Workers : cur'[w] # j /\ cur'[w] = cur[w]
      BY <1>2, <2>1 DEF TokenInv, Sole
    <3> QED BY <2>1, <3>1, SoleAppend DEF TokenInv
  <2>3. HistIds'
    BY <2>1 DEF TokenInv, HistIds
  <2>4. \A i \in 1..Len(queue') : Open(queue'[i]) /\ queue'[i] \notin finished
    <3>1. Open(j) /\ j \notin finished
      BY <2>1 DEF TokenInv, Undelivered
    <3> QED BY <2>1, <3>1, AppendFacts DEF TokenInv, Undelivered
  <2>5. Undelivered'
    BY <1>2, <2>1, <2>4 DEF TokenInv, Undelivered, Open
  <2> QED BY <2>2, <2>3, <2>5 DEF TokenInv
<1>7. CASE \E n \in Names : ScheduleDelete(n)
  BY <1>3, <1>7 DEF ScheduleDelete, hvars
<1>8. ASSUME NEW j, NEW t, ScheduleSave(j, t) PROVE TokenInv'
  <2>1. CASE Abandon(j)
    BY <1>5, <1>8, <2>1 DEF ScheduleSave, Abandon, Release
  <2>2. CASE ~Abandon(j)
    BY <1>3, <1>8, <2>2 DEF ScheduleSave
  <2> QED BY <2>1, <2>2
<1>9. ASSUME NEW j, ScheduleEnd(j) PROVE TokenInv'
  BY <1>5, <1>9 DEF ScheduleEnd, Abandon, Release
<1> QED BY <1>4, <1>6, <1>7, <1>8, <1>9 DEF ScheduleStep

(* The clients: start() is not called, and a waiter moves no id.            *)
LEMMA TokenClient ==
    ASSUME MaxStarts = 0, DependencyInv, TypeOK', TokenInv, ClientStep
    PROVE  TokenInv'
<1> USE DEF DependencyInv
<1>1. CASE ScheduleStep
  BY <1>1, TokenSchedule
<1>2. ASSUME NEW k, Start(k) PROVE FALSE
  BY <1>2 DEF Start, TypeOK, HistoryType
<1>3. CASE UNCHANGED <<nextId, making, queue, pc, cur, skip, relaunch, finished, dropped, completed>>
  BY <1>3 DEF TokenInv, Sole, HistIds, Undelivered, Open
<1>4. ASSUME NEW c, NEW j, CheckLoad(c, j) PROVE TokenInv'
  BY <1>3, <1>4 DEF CheckLoad, jvars, wvars, locals, hvars
<1>5. ASSUME NEW c, CheckReady(c) PROVE TokenInv'
  BY <1>3, <1>5 DEF CheckReady, Answer, Save, jvars, wvars, locals, hvars
<1> QED BY <1>1, <1>2, <1>4, <1>5 DEF ClientStep, ScheduleStep

(* The pop.                                                                *)
LEMMA TokenGet ==
    ASSUME DependencyInv, TypeOK', TokenInv, LossInv, NEW w \in Workers, Get(w)
    PROVE  TokenInv'
<1> USE DEF DependencyInv
<1>1. /\ Only(w) /\ pc[w] = "get" /\ pc'[w] = "reload" /\ cur[w] = NoId
      /\ UNCHANGED <<nextId, making, skip, relaunch, finished, dropped, completed>>
      /\ \/ queue # <<>> /\ cur' = [cur EXCEPT ![w] = Head(queue)] /\ queue' = Tail(queue)
         \/ UNCHANGED <<queue, cur>>
  BY DEF Get, Goto, Only, jvars, hvars, TypeOK, ProcType
<1>2. CASE queue # <<>> /\ cur' = [cur EXCEPT ![w] = Head(queue)] /\ queue' = Tail(queue)
  <2>1. /\ cur'[w] = queue[1] /\ queue[1] # NoId
        /\ \A v \in Workers \ {w} : cur'[v] = cur[v]
        /\ \A i \in 1..Len(queue') : i \in Nat /\ i + 1 \in 1..Len(queue) /\ queue'[i] = queue[i + 1]
        /\ 1 \in 1..Len(queue)
    <3>1. cur'[w] = Head(queue) /\ \A v \in Workers \ {w} : cur'[v] = cur[v]
      BY <1>2 DEF TypeOK, ProcType
    <3> QED BY <1>2, <3>1, TailFacts, QueueFacts
  <2>2. Sole'
    <3>1. \A i, k \in 1..Len(queue') : queue'[i] = queue'[k] => i = k
      <4>1. \A i, k \in 1..Len(queue') : queue'[i] = queue'[k] => i + 1 = k + 1
        BY <2>1 DEF TokenInv, Sole
      <4> QED BY <4>1
    <3>2. \A i \in 1..Len(queue'), v \in Workers : queue'[i] # cur'[v]
      <4>1. \A i \in 1..Len(queue') : queue[i + 1] # queue[1]
        <5>1. \A i \in 1..Len(queue') : i + 1 # 1
          OBVIOUS
        <5> QED BY <2>1, <5>1 DEF TokenInv, Sole
      <4> QED BY <2>1, <4>1 DEF TokenInv, Sole
    <3>3. \A u, v \in Workers : cur'[u] = cur'[v] /\ cur'[u] # NoId => u = v
      BY <2>1 DEF TokenInv, Sole
    <3>4. \A j \in making' : (\A i \in 1..Len(queue') : queue'[i] # j) /\ \A v \in Workers : cur'[v] # j
      BY <1>1, <2>1 DEF TokenInv, Sole
    <3> QED BY <3>1, <3>2, <3>3, <3>4 DEF Sole
  <2>3. HistIds'
    BY <1>1 DEF TokenInv, HistIds
  <2>4. Undelivered'
    <3>1. \A i \in 1..Len(queue') : Open(queue[i])' /\ queue'[i] \notin finished'
      BY <1>1, <2>1 DEF TokenInv, Undelivered, Open
    <3>2. Open(queue[1]) /\ queue[1] \notin finished
      BY <2>1 DEF TokenInv, Undelivered
    <3>3. \A v \in Workers : pc'[v] \in Pending => Open(cur[v])' /\ (pc'[v] # "deps" \/ ~skip'[v] => cur'[v] \notin finished')
      BY <1>1, <2>1, <3>2 DEF TokenInv, Undelivered, Open, Only
    <3>4. \A v \in Workers : pc'[v] = "deps" /\ skip'[v] /\ ~relaunch'[v] => cur'[v] \in finished'
      BY <1>1, <2>1 DEF TokenInv, Undelivered, Only
    <3>5. \A j \in making' : Open(j)' /\ j \notin finished'
      BY <1>1 DEF TokenInv, Undelivered, Open
    <3> QED BY <3>1, <3>3, <3>4, <3>5 DEF Undelivered, Open
  <2> QED BY <2>2, <2>3, <2>4 DEF TokenInv
<1>3. CASE UNCHANGED <<queue, cur>>
  <2>1. HandOk(w)'
    BY <1>1, <1>3 DEF HandOk, Open, TypeOK, HistoryType, NoId, JobIds
  <2>2. OnlyJob(cur[w])
    BY <1>1 DEF OnlyJob
  <2> QED BY <1>1, <1>3, <2>1, <2>2, TokenHand
<1> QED BY <1>1, <1>2, <1>3

(* The relaunch: the delivery goes from the hand back to the queue.        *)
LEMMA TokenRelaunch ==
    ASSUME DependencyInv, TypeOK', TokenInv, NEW w \in Workers, Relaunch(w)
    PROVE  TokenInv'
<1> USE DEF DependencyInv
<1>1. CASE End(w, "dead") /\ UNCHANGED <<jvars, queue>>
  BY <1>1, TokenEnd DEF jvars
<1>2. CASE ~(End(w, "dead") /\ UNCHANGED <<jvars, queue>>)
  <2>1. /\ pc[w] = "deps" /\ Leave(w, "get") /\ queue' = Append(queue, cur[w])
        /\ finished' = finished \ {cur[w]} /\ UNCHANGED <<nextId, making, dropped, completed>>
    BY <1>2 DEF Relaunch, Save
  <2>2. /\ cur[w] \in JobIds /\ cur[w] # NoId /\ Only(w) /\ pc'[w] = "get" /\ cur'[w] = NoId
        /\ \A v \in Workers : cur'[v] \in {cur[v], NoId} /\ cur'[v] # cur[w]
    <3>1. cur[w] \in JobIds /\ cur[w] # NoId /\ Only(w) /\ pc'[w] = "get" /\ cur'[w] = NoId
      BY <2>1, LeaveEffect, QueueFacts DEF TypeOK, ProcType
    <3> QED BY <3>1 DEF Only, TokenInv, Sole
  <2>3. Sole'
    BY <2>1, <2>2, SoleAppend DEF TokenInv, Sole
  <2>4. HistIds'
    BY <2>1 DEF TokenInv, HistIds
  <2>5. Undelivered'
    <3>1. Open(cur[w]) /\ cur[w] \notin finished'
      BY <2>1 DEF TokenInv, Undelivered, Pending
    <3>2. \A i \in 1..Len(queue') : Open(queue'[i]) /\ queue'[i] \notin finished'
      BY <2>1, <2>2, <3>1, AppendFacts DEF TokenInv, Undelivered
    <3>3. \A i \in 1..Len(queue') : Open(queue[i])' /\ queue'[i] \notin finished'
      BY <2>1, <3>2 DEF Open
    <3>4. ASSUME NEW v \in Workers PROVE HandOk(v)'
      <4>1. CASE v = w
        BY <2>2, <4>1 DEF HandOk, Pending
      <4>2. CASE v # w
        <5>1. HandOk(v) /\ cur[v] # cur[w]
          BY <2>2, <4>2 DEF TokenInv, Undelivered, HandOk, Sole
        <5>2. /\ pc'[v] = pc[v] /\ cur'[v] = cur[v] /\ skip'[v] = skip[v] /\ relaunch'[v] = relaunch[v]
          BY <2>2, <4>2 DEF Only
        <5> QED BY <2>1, <5>1, <5>2 DEF HandOk, Open
      <4> QED BY <4>1, <4>2
    <3>5. \A j \in making' : Open(j)' /\ j \notin finished'
      BY <2>1 DEF TokenInv, Undelivered, Open
    <3> QED BY <3>3, <3>4, <3>5 DEF Undelivered, HandOk
  <2> QED BY <2>3, <2>4, <2>5 DEF TokenInv
<1> QED BY <1>1, <1>2

(* The steps of a worker that leave the queue alone.                       *)
LEMMA TokenWork ==
    ASSUME DependencyInv, TypeOK', TokenInv, LossInv, NEW w \in Workers,
           \/ ProcStart(w) \/ Reload(w) \/ Idle(w) \/ Load(w) \/ CheckDep(w) \/ Skip(w) \/ Busy(w)
           \/ RunOk(w) \/ RunError(w) \/ RunTimeout(w) \/ (\E q \in QNames : Post(w, q)) \/ Again(w)
    PROVE  TokenInv'
<1> USE DEF DependencyInv
<1>1. HandOk(w) /\ (pc[w] = "load" => ~skip[w])
  BY DEF TokenInv, Undelivered, HandOk, LossInv, FlagsClear
<1>2. ASSUME UNCHANGED <<finished, dropped, completed>> PROVE OnlyJob(cur[w])
  BY <1>2 DEF OnlyJob
<1>3. CASE ProcStart(w) \/ Idle(w) \/ Skip(w) \/ Again(w)
  <2>1. UNCHANGED <<queue, nextId, making, finished, dropped, completed>>
    BY <1>3 DEF ProcStart, Idle, Skip, Again, jvars, hvars
  <2>2. Only(w) /\ pc'[w] = "get" /\ cur'[w] \in {cur[w], NoId}
    BY <1>3, LeaveEffect DEF ProcStart, Idle, Skip, Again, Goto, Only, TypeOK, ProcType, locals
  <2>3. HandOk(w)'
    BY <2>2 DEF HandOk, Pending
  <2> QED BY <1>2, <2>1, <2>2, <2>3, TokenHand
<1>4. CASE Reload(w) \/ Load(w)
  <2>1. UNCHANGED <<queue, nextId, making>>
    BY <1>4 DEF Reload, Load, jvars
  <2>2. CASE End(w, "halted") \/ End(w, "get")
    BY <2>1, <2>2, TokenEnd
  <2>3. CASE ~(End(w, "halted") \/ End(w, "get"))
    <3>1. /\ Only(w) /\ UNCHANGED <<cur, skip, relaunch, finished, dropped, completed>>
          /\ \/ pc[w] = "reload" /\ pc'[w] \in {"idle", "load"}
             \/ pc[w] = "load" /\ pc'[w] = "deps"
      BY <1>4, <2>3 DEF Reload, Load, Goto, Only, TypeOK, ProcType, hvars
    <3>2. HandOk(w)'
      BY <1>1, <3>1 DEF HandOk, Open, Pending
    <3> QED BY <1>2, <2>1, <3>1, <3>2, TokenHand
  <2> QED BY <2>2, <2>3
<1>5. CASE CheckDep(w)
  <2>1. UNCHANGED <<queue, nextId, making>> /\ pc[w] = "deps"
    BY <1>5 DEF CheckDep, DepFailed, DepPending, DepDone, Save, jvars
  <2>2. CASE End(w, "dead")
    BY <2>1, <2>2, TokenEnd
  <2>3. CASE ~End(w, "dead")
    <3>1. /\ Only(w) /\ UNCHANGED <<pc, cur, dropped, completed>>
          /\ \/ finished' = finished \cup {cur[w]} /\ skip'[w]
             \/ finished' = finished /\ ((skip'[w] /\ relaunch'[w]) \/ UNCHANGED <<skip, relaunch>>)
      BY <1>5, <2>3 DEF CheckDep, DepFailed, DepPending, DepDone, Only, TypeOK, ProcType, hvars
    <3>2. HandOk(w)'
      BY <1>1, <2>1, <3>1 DEF HandOk, Open, Pending
    <3>3. OnlyJob(cur[w])
      BY <3>1 DEF OnlyJob
    <3> QED BY <2>1, <3>1, <3>2, <3>3, TokenHand
  <2> QED BY <2>2, <2>3
<1>6. CASE Busy(w)
  <2>1. /\ Only(w) /\ pc[w] = "deps" /\ ~skip[w] /\ pc'[w] = "run"
        /\ UNCHANGED <<queue, nextId, making, cur, finished, dropped, completed>>
    BY <1>6 DEF Busy, Goto, Only, TypeOK, ProcType, jvars
  <2>2. cur[w] \notin finished
    BY <1>1, <2>1 DEF HandOk, Pending
  <2>3. HandOk(w)'
    BY <1>1, <2>1, <2>2 DEF HandOk, Open, Pending
  <2> QED BY <1>2, <2>1, <2>3, TokenHand
<1>7. CASE RunOk(w) \/ RunError(w) \/ RunTimeout(w)
  <2>1. PICK rec \in JobRec : Outcome(w, rec)
    BY <1>7, RunType
  <2>2. UNCHANGED <<queue, nextId, making>>
    BY <2>1, OutcomeEffect
  <2>3. CASE End(w, "dead")
    BY <2>2, <2>3, TokenEnd
  <2>4. CASE ~End(w, "dead")
    <3>1. /\ Only(w) /\ pc'[w] = "post" /\ UNCHANGED <<cur, dropped>> /\ finished' = finished \cup {cur[w]}
      BY <2>1, <2>4, OutcomeEffect
    <3>2. completed' \in {completed, completed \cup {cur[w]}}
      BY <2>1, <2>4 DEF Outcome
    <3>3. OnlyJob(cur[w])
      BY <3>1, <3>2 DEF OnlyJob
    <3>4. HandOk(w)'
      BY <3>1 DEF HandOk, Pending
    <3> QED BY <2>2, <3>1, <3>3, <3>4, TokenHand
  <2> QED BY <2>3, <2>4
<1>8. CASE \E q \in QNames : Post(w, q)
  <2>1. /\ Only(w) /\ pc[w] = "post" /\ UNCHANGED <<queue, nextId, making, pc, cur, finished, dropped, completed>>
    BY <1>8 DEF Post, Only, TypeOK, ProcType, jvars, hvars
  <2>2. HandOk(w)'
    BY <2>1 DEF HandOk, Pending
  <2> QED BY <1>2, <2>1, <2>2, TokenHand
<1> QED BY <1>3, <1>4, <1>5, <1>6, <1>7, <1>8

(* The parent's steps end a process or leave the processes alone.          *)
LEMMA TokenParent ==
    ASSUME DependencyInv, TypeOK', TokenInv, NEW w \in Workers, ParentStep(w) \/ Crash(w)
    PROVE  TokenInv'
<1>1. UNCHANGED <<queue, nextId, making>>
  BY DEF ParentStep, WorkersLoad, SoftStop, HardStop, Restart, TmuxStart, StateUpdate, WorkersCheck, Crash, jvars
<1>2. (\E where \in {"dead", "down", "boot"} : End(w, where)) \/ UNCHANGED <<pc, locals, hvars>>
  BY DEF ParentStep, WorkersLoad, SoftStop, HardStop, Restart, TmuxStart, StateUpdate, WorkersCheck, Crash, wvars
<1>3. CASE UNCHANGED <<pc, locals, hvars>>
  BY <1>1, <1>3 DEF TokenInv, Sole, HistIds, Undelivered, Open, locals, hvars
<1> QED BY <1>1, <1>2, <1>3, TokenEnd

(* The invariant holds initially and every step keeps it.                  *)
LEMMA TokenInductive == ASSUME MaxStarts = 0 PROVE Spec => []TokenInv
<1>1. Init => TokenInv
  <2> SUFFICES ASSUME Init PROVE TokenInv
    OBVIOUS
  <2>1. Len(queue) = 0 /\ making = {} /\ finished = {} /\ dropped = {} /\ completed = {}
    BY DEF Init
  <2>2. \A w \in Workers : cur[w] = NoId /\ pc[w] = "get"
    BY DEF Init
  <2> QED BY <2>1, <2>2 DEF TokenInv, Sole, HistIds, Undelivered, Open, Pending
<1>2. DependencyInv /\ TypeOK' /\ LossInv /\ TokenInv /\ [Next]_vars => TokenInv'
  <2> SUFFICES ASSUME DependencyInv, TypeOK', LossInv, TokenInv, [Next]_vars PROVE TokenInv'
    OBVIOUS
  <2>1. CASE UNCHANGED vars
    BY <2>1 DEF TokenInv, Sole, HistIds, Undelivered, Open, vars, jvars, wvars, locals, hvars
  <2>2. CASE ClientStep
    BY <2>2, TokenClient
  <2>3. ASSUME NEW w \in Workers, WorkerStep(w) PROVE TokenInv'
    BY <2>3, TokenGet, TokenRelaunch, TokenWork DEF WorkerStep
  <2>4. ASSUME NEW w \in Workers, ParentStep(w) \/ Crash(w) PROVE TokenInv'
    BY <2>4, TokenParent
  <2> QED BY <2>1, <2>2, <2>3, <2>4 DEF Next
<1> QED BY <1>1, <1>2, TypeCorrect, DependencyInductive, LossInductive, PTL DEF Spec

-----------------------------------------------------------------------------
(* The dependencies of a job.                                              *)

NeedsKept == \A j \in JobIds : jobs'[j].deps = jobs[j].deps

(* A write of a copy that names the record's dependencies keeps them.      *)
LEMMA WriteNeeds ==
    ASSUME TypeOK, NEW id \in JobIds, NEW rec \in JobRec, rec.deps = jobs[id].deps, Write(id, rec)
    PROVE  NeedsKept
  BY DEF Write, NeedsKept, TypeOK, StoreType

(* So does a save.                                                         *)
LEMMA SaveNeeds ==
    ASSUME TypeOK, NEW id \in JobIds, NEW rec \in JobRec, rec.deps = jobs[id].deps, Save(id, rec)
    PROVE  NeedsKept
  BY WriteNeeds DEF Save

(* schedule() gives a new job its dependencies and keeps those of all      *)
(* others; it changes nothing about workers, waiters and outcomes.         *)
LEMMA ScheduleNeeds ==
    ASSUME DependencyInv, ScheduleStep
    PROVE  /\ \/ \E n, Q : \E D \in SUBSET JobIds : ScheduleNew(n, D, Q)
              \/ NeedsKept /\ nextId' = nextId
           /\ UNCHANGED <<wvars, cl, pst, completed>>
<1> USE DEF DependencyInv
<1>1. UNCHANGED <<wvars, cl, pst, completed>>
  BY DEF ScheduleStep, ScheduleDelete, ScheduleNew, ScheduleSave, SchedulePut, ScheduleEnd, Abandon, pvars, hvars
<1>2. CASE UNCHANGED <<jobs, nextId>>
  BY <1>1, <1>2 DEF NeedsKept
<1>3. ASSUME NEW j \in JobIds, NEW t \in BOOLEAN, ScheduleSave(j, t) PROVE NeedsKept /\ nextId' = nextId
  <2> DEFINE rec == [draft[j] EXCEPT !.timeout = @ \/ t]
  <2>1. j \in making /\ draft[j] \in JobRec /\ draft[j].deps = jobs[j].deps
    BY <1>3 DEF ScheduleSave, Abandon, TypeOK, StoreType, DepsInv, SavedTrue
  <2>2. rec \in JobRec /\ rec.deps = jobs[j].deps
    BY <2>1 DEF JobRec
  <2>3. nextId' = nextId /\ (jobs' = jobs \/ Write(j, rec))
    BY <1>3 DEF ScheduleSave, Abandon
  <2>4. CASE Write(j, rec)
    BY <2>2, <2>3, <2>4, WriteNeeds
  <2> QED BY <2>3, <2>4 DEF NeedsKept
<1>4. ASSUME NEW n, ScheduleDelete(n) PROVE UNCHANGED <<jobs, nextId>>
  BY <1>4 DEF ScheduleDelete
<1>5. ASSUME NEW j, SchedulePut(j) \/ ScheduleEnd(j) PROVE UNCHANGED <<jobs, nextId>>
  BY <1>5 DEF SchedulePut, ScheduleEnd, Abandon
<1> QED BY <1>1, <1>2, <1>3, <1>4, <1>5 DEF ScheduleStep

(* Once scheduled a job keeps its dependencies, whoever saves its record.  *)
LEMMA WaiterNeeds ==
    ASSUME DependencyInv, NEW c \in Clients, CheckReady(c)
    PROVE  NeedsKept
<1> USE DEF DependencyInv
<1> DEFINE job == cl[c].copy
<1>1. job \in JobRec /\ cl[c].id \in JobIds /\ job.deps = jobs[cl[c].id].deps
  BY DEF CheckReady, TypeOK, OthersType, DepsInv, WaiterTrue
<1>2. \A e \in {"ERROR", "TIMEOUT"} : [job EXCEPT !.error_cat = e] \in JobRec /\ [job EXCEPT !.error_cat = e].deps = job.deps
  BY <1>1 DEF JobRec
<1>3. \E rec \in JobRec, ready \in BOOLEAN : rec.deps = job.deps /\ Answer(c, rec, ready)
  <2>1. job.stopped \in BOOLEAN
    BY <1>1 DEF JobRec
  <2> QED BY <1>1, <1>2, <2>1 DEF CheckReady
<1>4. PICK rec \in JobRec, ready \in BOOLEAN : rec.deps = job.deps /\ Answer(c, rec, ready)
  BY <1>3
<1>5. Save(cl[c].id, rec) \/ UNCHANGED jvars
  BY <1>4 DEF Answer
<1>6. CASE UNCHANGED jvars
  BY <1>6 DEF NeedsKept, jvars
<1> QED BY <1>1, <1>4, <1>5, <1>6, SaveNeeds

(* Workers save the dependencies that they loaded.                          *)
LEMMA WorkerNeeds ==
    ASSUME DependencyInv, NEW w \in Workers, WorkerStep(w) \/ ParentStep(w) \/ Crash(w)
    PROVE  NeedsKept
<1> USE DEF DependencyInv
<1>1. CASE UNCHANGED jvars
  BY <1>1 DEF NeedsKept, jvars
<1>2. copy[w] \in JobRec
  BY DEF TypeOK, ProcType
<1>3. pc[w] \in {"deps", "run"} => cur[w] \in JobIds /\ copy[w].deps = jobs[cur[w]].deps
  BY DEF TypeOK, ProcType, DepsInv, CopyTrue
<1>4. \A s \in JobState : /\ [copy[w] EXCEPT !.state = s] \in JobRec
                          /\ [copy[w] EXCEPT !.state = s].deps = copy[w].deps
                          /\ [copy[w] EXCEPT !.state = s, !.stopped = TRUE] \in JobRec
                          /\ [copy[w] EXCEPT !.state = s, !.stopped = TRUE].deps = copy[w].deps
  BY <1>2 DEF JobRec
<1>5. /\ [copy[w] EXCEPT !.state = "ERROR", !.stopped = TRUE, !.error_cat = "TIMEOUT"] \in JobRec
      /\ [copy[w] EXCEPT !.state = "ERROR", !.stopped = TRUE, !.error_cat = "TIMEOUT"].deps = copy[w].deps
  BY <1>2 DEF JobRec, JobState
<1>6. CASE CheckDep(w)
  <2>1. pc[w] = "deps" /\ (UNCHANGED jvars \/ Save(cur[w], [copy[w] EXCEPT !.state = "ERROR", !.stopped = TRUE]))
    BY <1>6 DEF CheckDep, DepFailed, DepPending, DepDone
  <2> QED BY <1>1, <1>3, <1>4, <2>1, SaveNeeds DEF JobState
<1>7. CASE Relaunch(w)
  <2>1. pc[w] = "deps" /\ (UNCHANGED jvars \/ Save(cur[w], [copy[w] EXCEPT !.state = "NEW"]))
    BY <1>7 DEF Relaunch
  <2> QED BY <1>1, <1>3, <1>4, <2>1, SaveNeeds DEF JobState
<1>8. CASE RunOk(w) \/ RunError(w) \/ RunTimeout(w)
  <2>1. \E rec \in JobRec : rec.deps = copy[w].deps /\ Outcome(w, rec)
    BY <1>4, <1>5, <1>8 DEF RunOk, RunError, RunTimeout, JobState
  <2>2. PICK rec \in JobRec : rec.deps = copy[w].deps /\ Outcome(w, rec)
    BY <2>1
  <2>3. pc[w] = "run" /\ (UNCHANGED jvars \/ Save(cur[w], rec))
    BY <2>2 DEF Outcome
  <2> QED BY <1>1, <1>3, <2>2, <2>3, SaveNeeds
<1>9. CASE ~(CheckDep(w) \/ Relaunch(w) \/ RunOk(w) \/ RunError(w) \/ RunTimeout(w))
  <2>1. UNCHANGED jvars
    BY <1>9 DEF WorkerStep, ProcStart, Get, Reload, Idle, Load, Skip, Busy, Post, Again, ParentStep, WorkersLoad,
                SoftStop, HardStop, Restart, TmuxStart, StateUpdate, WorkersCheck, Crash
  <2> QED BY <1>1, <2>1
<1> QED BY <1>6, <1>7, <1>8, <1>9

(* todo only loses elements, or is filled from the copy.                   *)
LEMMA WorkerTodo ==
    ASSUME TypeOK, DepsLower, NEW w \in Workers, WorkerStep(w) \/ ParentStep(w) \/ Crash(w)
    PROVE  \A v \in Workers : pc'[v] = "deps" => todo'[v] \subseteq copy'[v].deps
<1> USE DEF DepsLower
<1>1. ASSUME \E where \in {"get", "dead", "down", "halted", "boot"} : Leave(w, where)
      PROVE  \A v \in Workers : pc'[v] = "deps" => todo'[v] \subseteq copy'[v].deps
  BY <1>1 DEF Leave, Goto, TypeOK, ProcType
<1>2. ASSUME \A v \in Workers \ {w} : pc'[v] = pc[v] /\ todo'[v] = todo[v] /\ copy'[v] = copy[v],
             pc'[w] = "deps" => todo'[w] \subseteq copy'[w].deps
      PROVE  \A v \in Workers : pc'[v] = "deps" => todo'[v] \subseteq copy'[v].deps
  BY <1>2
<1>3. CASE ProcStart(w) \/ Get(w) \/ Busy(w) \/ (\E q \in QNames : Post(w, q))
  <2>1. UNCHANGED <<todo, copy>> /\ \A v \in Workers : pc'[v] = pc[v] \/ pc'[v] # "deps"
    BY <1>3 DEF ProcStart, Get, Busy, Post, Goto, TypeOK, ProcType, locals
  <2> QED BY <2>1
<1>4. CASE Idle(w) \/ Skip(w) \/ Again(w)
  BY <1>1, <1>4 DEF Idle, Skip, Again
<1>5. CASE Reload(w) \/ Load(w)
  <2>1. CASE End(w, "halted") \/ End(w, "get")
    BY <1>1, <2>1 DEF End
  <2>2. CASE ~(End(w, "halted") \/ End(w, "get"))
    BY <1>2, <1>5, <2>2 DEF Reload, Load, Goto, TypeOK, ProcType, StoreType
  <2> QED BY <2>1, <2>2
<1>6. CASE CheckDep(w)
  <2>1. CASE End(w, "dead")
    BY <1>1, <2>1 DEF End
  <2>2. CASE ~End(w, "dead")
    <3>1. pc[w] = "deps" /\ \E d \in todo[w] : DepFailed(w, d) \/ DepPending(w, d) \/ DepDone(w, d)
      BY <1>6, <2>2 DEF CheckDep
    <3>2. PICK d \in todo[w] : DepFailed(w, d) \/ DepPending(w, d) \/ DepDone(w, d)
      BY <3>1
    <3>3. copy[w] \in JobRec /\ todo[w] \subseteq copy[w].deps
      BY <3>1 DEF TypeOK, ProcType
    <3>4. todo' = [todo EXCEPT ![w] = @ \ {d}] /\ copy' \in {copy, [copy EXCEPT ![w] = [copy[w] EXCEPT !.state = "ERROR", !.stopped = TRUE]]}
      BY <2>2, <3>2 DEF DepFailed, DepPending, DepDone
    <3>5. todo'[w] \subseteq todo[w] /\ copy'[w].deps = copy[w].deps
      <4>1. [copy[w] EXCEPT !.state = "ERROR", !.stopped = TRUE].deps = copy[w].deps
        BY <3>3 DEF JobRec
      <4>2. todo \in [Workers -> SUBSET JobIds] /\ copy \in [Workers -> JobRec]
        BY DEF TypeOK, ProcType
      <4>3. todo'[w] \subseteq todo[w]
        BY <3>4, <4>2
      <4>4. copy'[w] \in {copy[w], [copy[w] EXCEPT !.state = "ERROR", !.stopped = TRUE]}
        BY <3>4, <4>2
      <4> QED BY <4>1, <4>3, <4>4
    <3>6. pc' = pc
      BY <2>2, <3>2 DEF DepFailed, DepPending, DepDone
    <3> QED BY <1>2, <3>3, <3>4, <3>5, <3>6 DEF TypeOK, ProcType
  <2> QED BY <2>1, <2>2
<1>7. CASE Relaunch(w)
  BY <1>1, <1>7 DEF Relaunch, End
<1>8. CASE RunOk(w) \/ RunError(w) \/ RunTimeout(w)
  <2>1. PICK rec \in JobRec : Outcome(w, rec)
    BY <1>8, RunType
  <2>2. CASE End(w, "dead")
    BY <1>1, <2>2 DEF End
  <2>3. CASE ~End(w, "dead")
    BY <1>2, <2>1, <2>3 DEF Outcome, Goto, TypeOK, ProcType
  <2> QED BY <2>2, <2>3
<1>9. CASE ParentStep(w) \/ Crash(w)
  <2>1. (\E where \in {"dead", "down", "boot"} : End(w, where)) \/ UNCHANGED <<pc, locals>>
    BY <1>9 DEF ParentStep, WorkersLoad, SoftStop, HardStop, Restart, TmuxStart, StateUpdate, WorkersCheck, Crash, wvars
  <2>2. CASE UNCHANGED <<pc, locals>>
    BY <2>2 DEF locals
  <2> QED BY <1>1, <2>1, <2>2 DEF End
<1> QED BY <1>3, <1>4, <1>5, <1>6, <1>7, <1>8, <1>9 DEF WorkerStep

(* The invariant holds initially and every step keeps it.                  *)
LEMMA LowerInductive == Spec => []DepsLower
<1>1. Init => DepsLower
  BY DEF Init, DepsLower, JobIds, BlankJob, NewJob
<1>2. DependencyInv /\ TypeOK' /\ DepsLower /\ [Next]_vars => DepsLower'
  <2> SUFFICES ASSUME DependencyInv, TypeOK', DepsLower, [Next]_vars PROVE DepsLower'
    OBVIOUS
  <2> USE DEF DependencyInv
  <2>1. CASE NeedsKept /\ nextId' = nextId /\ UNCHANGED <<pc, todo, copy>>
    BY <2>1 DEF DepsLower, NeedsKept
  <2>2. CASE UNCHANGED vars
    BY <2>1, <2>2 DEF vars, jvars, wvars, locals, NeedsKept
  <2>3. ASSUME NEW n, NEW D, NEW Q, ScheduleNew(n, D, Q) PROVE DepsLower'
    <3>1. /\ nextId \in JobIds /\ nextId' = nextId + 1 /\ jobs' = [jobs EXCEPT ![nextId] = NewJob(n, D, Q, FALSE)]
          /\ D \subseteq 1..(nextId - 1) /\ UNCHANGED <<pc, todo, copy>>
      BY <2>3 DEF ScheduleNew, Write, wvars, locals
    <3>2. \A d \in D : d < nextId
      BY <3>1, QueueFacts
    <3>3. \A j \in JobIds : jobs'[j].deps = IF j = nextId THEN D ELSE jobs[j].deps
      BY <3>1 DEF TypeOK, StoreType, NewJob
    <3>4. nextId \in Nat /\ JobIds \subseteq Nat
      BY QueueFacts
    <3>5. \A j \in JobIds : j < nextId' => j < nextId \/ j = nextId
      BY <3>1, <3>4
    <3>6. \A j \in JobIds : j < nextId' => \A d \in jobs'[j].deps : d < j
      BY <3>2, <3>3, <3>4, <3>5 DEF DepsLower
    <3>7. \A j \in JobIds : j >= nextId' => j >= nextId /\ j # nextId
      BY <3>1, <3>4
    <3>8. \A j \in JobIds : j >= nextId' => jobs'[j].deps = {}
      BY <3>3, <3>7 DEF DepsLower
    <3> QED BY <3>1, <3>6, <3>8 DEF DepsLower
  <2>7. CASE ScheduleStep
    BY <2>1, <2>3, <2>7, ScheduleNeeds DEF wvars, locals
  <2>4. ASSUME NEW j, Start(j) \/ \E c \in Clients : CheckLoad(c, j) PROVE DepsLower'
    BY <2>1, <2>4 DEF Start, CheckLoad, jvars, wvars, locals, NeedsKept
  <2>5. ASSUME NEW c \in Clients, CheckReady(c) PROVE DepsLower'
    <3>1. nextId' = nextId /\ UNCHANGED <<pc, todo, copy>>
      BY <2>5 DEF CheckReady, Answer, Save, jvars, wvars, locals
    <3> QED BY <2>1, <2>5, <3>1, WaiterNeeds
  <2>6. ASSUME NEW w \in Workers, WorkerStep(w) \/ ParentStep(w) \/ Crash(w) PROVE DepsLower'
    <3>1. NeedsKept
      BY <2>6, WorkerNeeds
    <3>2. nextId' = nextId
      BY <2>6 DEF WorkerStep, ProcStart, Get, Reload, Idle, Load, CheckDep, DepFailed, DepPending, DepDone, Relaunch,
                  Skip, Busy, RunOk, RunError, RunTimeout, Outcome, Post, Again, ParentStep, WorkersLoad, SoftStop,
                  HardStop, Restart, TmuxStart, StateUpdate, WorkersCheck, Crash, Save, jvars
    <3>3. \A v \in Workers : pc'[v] = "deps" => todo'[v] \subseteq copy'[v].deps
      BY <2>6, WorkerTodo
    <3> QED BY <3>1, <3>2, <3>3 DEF DepsLower, NeedsKept
  <2> QED BY <2>2, <2>4, <2>5, <2>6, <2>7 DEF Next, ClientStep, ScheduleStep
<1> QED BY <1>1, <1>2, TypeCorrect, DependencyInductive, PTL DEF Spec

-----------------------------------------------------------------------------
(* Without faults and without names.                                       *)

(* A write under the job's own name.                                       *)
LEMMA PeaceWrite ==
    ASSUME TypeOK, PeaceStore, NEW id \in JobIds, NEW rec \in JobRec, rec.name = id, Write(id, rec),
           nextId' = nextId, \A j \in making' : draft'[j].name = j
    PROVE  PeaceStore'
<1>1. /\ stored' = stored \cup {id} /\ jobs'[id] = rec
      /\ \A j \in JobIds \ {id} : jobs'[j] = jobs[j]
      /\ stored \subseteq JobIds
  BY DEF Write, TypeOK, StoreType
<1> QED BY <1>1 DEF PeaceStore

(* A save under the job's own name.                                        *)
LEMMA PeaceSave ==
    ASSUME TypeOK, PeaceStore, NEW id \in JobIds, NEW rec \in JobRec, rec.name = id, Save(id, rec)
    PROVE  PeaceStore'
<1>1. nextId' = nextId /\ (\A j \in making' : draft'[j].name = j) /\ Write(id, rec)
  BY DEF Save, PeaceStore
<1> QED BY <1>1, PeaceWrite

(* schedule() keeps the peace: the names are fresh.                         *)
LEMMA PeaceSchedule ==
    ASSUME Names = {}, DependencyInv, Peaceful, ScheduleStep
    PROVE  Peaceful'
<1> USE DEF DependencyInv, Peaceful
<1>1. PeaceCopies' /\ PeaceWorkers'
  BY ScheduleNeeds DEF PeaceCopies, PeaceWorkers, wvars, locals
<1>2. ASSUME NEW n \in JobIds, NEW D, NEW Q, ScheduleNew(n, D, Q) PROVE PeaceStore'
  <2>1. /\ nextId \in JobIds /\ nextId' = nextId + 1 /\ n = nextId
        /\ stored' = stored \cup {nextId} /\ jobs' = [jobs EXCEPT ![nextId] = NewJob(n, D, Q, FALSE)]
        /\ making' = making \cup {nextId} /\ draft' = [draft EXCEPT ![nextId] = NewJob(n, D, Q, FALSE)]
    BY <1>2 DEF ScheduleNew, Write
  <2>2. nextId \in Nat /\ JobIds \subseteq Nat /\ stored \subseteq JobIds
    BY QueueFacts DEF TypeOK, StoreType
  <2>3. \A j \in JobIds : jobs'[j].name = IF j = nextId THEN nextId ELSE jobs[j].name
    BY <2>1 DEF TypeOK, StoreType, NewJob
  <2>4. \A j \in JobIds : draft'[j].name = IF j = nextId THEN nextId ELSE draft[j].name
    BY <2>1 DEF TypeOK, StoreType, NewJob
  <2>5. making \subseteq JobIds
    BY DEF TypeOK, StoreType
  <2>6. \A j \in JobIds : j < nextId' => j \in stored'
    <3>1. \A j \in JobIds : j < nextId' => j < nextId \/ j = nextId
      BY <2>1, <2>2
    <3> QED BY <2>1, <3>1 DEF PeaceStore
  <2>7. \A j \in stored' : jobs'[j].name = j
    BY <2>1, <2>2, <2>3 DEF PeaceStore
  <2>8. \A j \in making' : draft'[j].name = j
    BY <2>1, <2>4, <2>5 DEF PeaceStore
  <2> QED BY <2>6, <2>7, <2>8 DEF PeaceStore
<1>3. ASSUME NEW j \in JobIds, Abandon(j) \/ (Release(j) /\ UNCHANGED <<stored, jobs, nextId>>) PROVE PeaceStore'
  <2>1. UNCHANGED <<stored, jobs, nextId>> /\ making' = making \ {j} /\ \A k \in making' : draft'[k] = draft[k]
    BY <1>3 DEF Abandon, Release, TypeOK, StoreType
  <2> QED BY <2>1 DEF PeaceStore
<1>4. ASSUME NEW j \in JobIds, NEW t \in BOOLEAN, ScheduleSave(j, t) PROVE PeaceStore'
  <2> DEFINE rec == [draft[j] EXCEPT !.timeout = @ \/ t]
  <2>1. CASE Abandon(j)
    BY <1>3, <2>1
  <2>2. CASE ~Abandon(j)
    <3>1. /\ j \in making /\ Write(j, rec) /\ nextId' = nextId /\ making' = making
          /\ draft' = [draft EXCEPT ![j] = rec]
      BY <1>4, <2>2 DEF ScheduleSave
    <3>2. draft \in [JobIds -> JobRec] /\ draft[j].name = j /\ making \subseteq JobIds
      BY <3>1 DEF TypeOK, StoreType, PeaceStore
    <3>3. rec \in JobRec /\ rec.name = j
      BY <3>2 DEF JobRec
    <3>4. draft'[j] = rec /\ \A k \in making \ {j} : draft'[k] = draft[k]
      BY <3>1, <3>2
    <3>5. \A k \in making' : draft'[k].name = k
      BY <3>1, <3>3, <3>4 DEF PeaceStore
    <3> QED BY <3>1, <3>3, <3>5, PeaceWrite
  <2> QED BY <2>1, <2>2
<1>5. ASSUME NEW j \in JobIds, SchedulePut(j) \/ ScheduleEnd(j) PROVE PeaceStore'
  BY <1>3, <1>5 DEF SchedulePut, ScheduleEnd
<1> QED BY <1>1, <1>2, <1>4, <1>5 DEF ScheduleStep

(* Clients keep the peace: names are fresh, waiters save what they loaded.  *)
LEMMA PeaceClient ==
    ASSUME Names = {}, DependencyInv, Peaceful, ClientStep
    PROVE  Peaceful'
<1> USE DEF DependencyInv, Peaceful
<1>1. CASE ScheduleStep
  BY <1>1, PeaceSchedule
<1>2. ASSUME NEW j, Start(j) PROVE Peaceful'
  BY <1>2 DEF Start, PeaceStore, PeaceCopies, PeaceWorkers, jvars, wvars, locals, pvars
<1>3. ASSUME NEW c \in Clients, NEW j \in JobIds, CheckLoad(c, j) PROVE Peaceful'
  <2>1. /\ cl' = [cl EXCEPT ![c] = [pc |-> "loaded", id |-> j, copy |-> jobs[j]]] /\ j \in stored
        /\ UNCHANGED <<stored, jobs, nextId, making, draft, pc, cur, copy, wrec, wobj, pst>>
    BY <1>3 DEF CheckLoad, jvars, wvars, locals, pvars
  <2>2. \A d \in Clients : cl'[d].pc = "loaded" => cl'[d].copy.name = cl'[d].id
    BY <2>1 DEF PeaceStore, PeaceCopies, TypeOK, OthersType
  <2> QED BY <2>1, <2>2 DEF PeaceStore, PeaceCopies, PeaceWorkers
<1>4. ASSUME NEW c \in Clients, CheckReady(c) PROVE Peaceful'
  <2> DEFINE job == cl[c].copy
  <2>1. job \in JobRec /\ cl[c].id \in JobIds /\ job.name = cl[c].id
    BY <1>4 DEF CheckReady, TypeOK, OthersType, PeaceCopies
  <2>2. \A e \in {"ERROR", "TIMEOUT"} : [job EXCEPT !.error_cat = e] \in JobRec /\ [job EXCEPT !.error_cat = e].name = job.name
    BY <2>1 DEF JobRec
  <2>3. \E rec \in JobRec, ready \in BOOLEAN : rec.name = job.name /\ Answer(c, rec, ready)
    <3>1. job.stopped \in BOOLEAN
      BY <2>1 DEF JobRec
    <3> QED BY <1>4, <2>1, <2>2, <3>1 DEF CheckReady
  <2>4. PICK rec \in JobRec, ready \in BOOLEAN : rec.name = job.name /\ Answer(c, rec, ready)
    BY <2>3
  <2>5. /\ Save(cl[c].id, rec) \/ UNCHANGED jvars
        /\ cl' = [cl EXCEPT ![c] = IF ready THEN [Away EXCEPT !.pc = "ready"] ELSE Away]
        /\ UNCHANGED <<pc, cur, copy, wrec, wobj, pst>>
    BY <2>4 DEF Answer, wvars, locals, pvars
  <2>6. PeaceStore'
    <3>1. CASE UNCHANGED jvars
      BY <3>1 DEF PeaceStore, jvars
    <3> QED BY <2>1, <2>4, <2>5, <3>1, PeaceSave
  <2>7. \A d \in Clients : cl'[d].pc = "loaded" => cl'[d] = cl[d]
    BY <2>5 DEF Away, TypeOK, OthersType
  <2>8. PeaceCopies' /\ PeaceWorkers'
    BY <2>5, <2>7 DEF PeaceCopies, PeaceWorkers
  <2> QED BY <2>6, <2>8
<1> QED BY <1>1, <1>2, <1>3, <1>4 DEF ClientStep, ScheduleStep

(* In peace no process ends: the save of a job cannot clash with another   *)
(* name, no job is deleted, and no worker is halted.                       *)
LEMMA PeaceNoEnd ==
    ASSUME DependencyInv, Peaceful, NEW w \in Workers
    PROVE  /\ pc[w] \in {"load", "deps", "run", "post"} => cur[w] \in stored /\ cur[w] \in JobIds
           /\ pc[w] \in {"deps", "run", "post"} => ~NameTaken(cur[w], copy[w].name)
           /\ pc[w] = "deps" /\ DepsLower => todo[w] \subseteq stored
           /\ ~wrec[w].halt
<1> USE DEF DependencyInv, Peaceful
<1>1. pc[w] \in {"load", "deps", "run", "post"} => cur[w] \in JobIds /\ cur[w] \in stored
  BY DEF TypeOK, ProcType, DepsInv, IdsUsed, PeaceStore
<1>2. pc[w] \in {"deps", "run", "post"} => ~NameTaken(cur[w], copy[w].name)
  BY DEF NameTaken, PeaceStore, PeaceCopies
<1>3. ASSUME pc[w] = "deps", DepsLower PROVE todo[w] \subseteq stored
  <2>1. todo[w] \subseteq jobs[cur[w]].deps /\ cur[w] \in JobIds /\ cur[w] < nextId
    BY <1>3 DEF DepsLower, DepsInv, CopyTrue, IdsUsed, TypeOK, ProcType
  <2>2. \A d \in todo[w] : d \in JobIds /\ d < cur[w]
    BY <1>3, <2>1 DEF DepsLower, TypeOK, ProcType
  <2>3. \A d \in todo[w] : d < nextId
    BY <2>1, <2>2, QueueFacts
  <2> QED BY <2>2, <2>3 DEF PeaceStore
<1> QED BY <1>1, <1>2, <1>3 DEF PeaceWorkers

(* A worker keeps its halt flag down, and saves jobs under their names.    *)
LEMMA PeaceWorker ==
    ASSUME TypeOK, Peaceful, NEW w \in Workers, WorkerStep(w)
    PROVE  Peaceful'
<1> USE DEF Peaceful
<1>1. /\ copy[w] \in JobRec /\ cur[w] \in JobIds \cup {NoId} /\ pc[w] \in ProcStates
      /\ pc[w] \in {"load", "deps", "run", "post"} => cur[w] \in JobIds
      /\ wrec[w] \in WorkerRec /\ wobj[w] \in WorkerRec /\ ~wrec[w].halt /\ ~wobj[w].halt
  BY DEF TypeOK, ProcType, PeaceWorkers
<1>2. pst' = pst /\ cl' = cl
  BY DEF WorkerStep, ProcStart, Get, Reload, Idle, Load, CheckDep, Relaunch, Skip, Busy, RunOk, RunError, RunTimeout,
         Outcome, Post, Again, pvars
<1>3. \A s \in JobState : /\ [copy[w] EXCEPT !.state = s] \in JobRec
                          /\ [copy[w] EXCEPT !.state = s].name = copy[w].name
                          /\ [copy[w] EXCEPT !.state = s, !.stopped = TRUE] \in JobRec
                          /\ [copy[w] EXCEPT !.state = s, !.stopped = TRUE].name = copy[w].name
  BY <1>1 DEF JobRec
<1>4. /\ [copy[w] EXCEPT !.state = "ERROR", !.stopped = TRUE, !.error_cat = "TIMEOUT"] \in JobRec
      /\ [copy[w] EXCEPT !.state = "ERROR", !.stopped = TRUE, !.error_cat = "TIMEOUT"].name = copy[w].name
  BY <1>1 DEF JobRec, JobState
<1>5. /\ \A h : Waiting(h).halt = h
      /\ ~[wobj[w] EXCEPT !.state = "BUSY", !.current_job = cur[w]].halt
  BY <1>1 DEF Waiting, WorkerRec
<1>6. ASSUME \A v \in Workers \ {w} : wrec'[v] = wrec[v] /\ wobj'[v] = wobj[v] /\ pc'[v] = pc[v] /\ cur'[v] = cur[v] /\ copy'[v] = copy[v],
             ~wrec'[w].halt, ~wobj'[w].halt, pc'[w] \in {"deps", "run", "post"} => copy'[w].name = cur'[w],
             UNCHANGED jvars \/ \E rec \in JobRec : cur[w] \in JobIds /\ rec.name = cur[w] /\ Save(cur[w], rec)
      PROVE  Peaceful'
  <2>1. PeaceStore'
    <3>1. CASE UNCHANGED jvars
      BY <3>1 DEF PeaceStore, jvars
    <3> QED BY <1>6, <3>1, PeaceSave
  <2>2. PeaceCopies' /\ PeaceWorkers'
    BY <1>2, <1>6 DEF PeaceCopies, PeaceWorkers
  <2> QED BY <2>1, <2>2
<1>7. ASSUME NEW where \in {"get", "dead", "halted"}, Leave(w, where)
      PROVE  /\ \A v \in Workers \ {w} : wobj'[v] = wobj[v] /\ pc'[v] = pc[v] /\ cur'[v] = cur[v] /\ copy'[v] = copy[v]
             /\ ~wobj'[w].halt /\ pc'[w] = where
  BY <1>5, <1>7 DEF Leave, Goto, TypeOK, ProcType
<1>8. ASSUME wrec' = wrec \/ StateSet(w)
      PROVE  (\A v \in Workers \ {w} : wrec'[v] = wrec[v]) /\ ~wrec'[w].halt
  BY <1>1, <1>5, <1>8 DEF StateSet, TypeOK, ProcType
<1>9. CASE ProcStart(w) \/ Get(w) \/ Busy(w) \/ \E q \in QNames : Post(w, q)
  <2>1. /\ UNCHANGED <<jvars, copy>> /\ pc'[w] \in {"get", "reload", "run", "post"}
        /\ \A v \in Workers \ {w} : pc'[v] = pc[v] /\ cur'[v] = cur[v]
    BY <1>1, <1>9 DEF ProcStart, Get, Busy, Post, Goto, TypeOK, ProcType, locals
  <2>2. pc'[w] \in {"run", "post"} => cur'[w] = cur[w] /\ pc[w] \in {"deps", "post"}
    BY <1>1, <1>9 DEF ProcStart, Get, Busy, Post, Goto, TypeOK, ProcType, locals
  <2>3. (\A v \in Workers \ {w} : wrec'[v] = wrec[v] /\ wobj'[v] = wobj[v]) /\ ~wrec'[w].halt /\ ~wobj'[w].halt
    BY <1>1, <1>5, <1>9 DEF ProcStart, Get, Busy, Post, TypeOK, ProcType, locals
  <2> QED BY <1>6, <2>1, <2>2, <2>3 DEF PeaceCopies
<1>10. CASE Idle(w) \/ Skip(w) \/ Again(w)
  <2>1. UNCHANGED jvars /\ Leave(w, "get") /\ (wrec' = wrec \/ StateSet(w))
    BY <1>10 DEF Idle, Skip, Again
  <2> QED BY <1>6, <1>7, <1>8, <2>1
<1>11. CASE Reload(w) \/ Load(w)
  <2>1. UNCHANGED <<jvars, wrec>>
    BY <1>11 DEF Reload, Load
  <2>2. CASE End(w, "halted") \/ End(w, "get")
    BY <1>6, <1>7, <1>8, <2>1, <2>2 DEF End
  <2>3. CASE ~(End(w, "halted") \/ End(w, "get")) /\ Reload(w)
    <3>1. wobj' = [wobj EXCEPT ![w] = wrec[w]] /\ pc' \in {[pc EXCEPT ![w] = "idle"], [pc EXCEPT ![w] = "load"]} /\ UNCHANGED <<cur, copy>>
      BY <2>3 DEF Reload, Goto
    <3> QED BY <1>1, <1>6, <1>8, <2>1, <3>1 DEF TypeOK, ProcType
  <2>4. CASE ~(End(w, "halted") \/ End(w, "get")) /\ Load(w)
    <3>1. cur[w] \in stored /\ copy' = [copy EXCEPT ![w] = jobs[cur[w]]] /\ pc' = [pc EXCEPT ![w] = "deps"] /\ UNCHANGED <<cur, wobj>>
      BY <2>4 DEF Load, Goto
    <3> QED BY <1>1, <1>6, <1>8, <2>1, <3>1 DEF TypeOK, ProcType, PeaceStore
  <2> QED BY <1>11, <2>2, <2>3, <2>4
<1>12. CASE CheckDep(w)
  <2> DEFINE rec == [copy[w] EXCEPT !.state = "ERROR", !.stopped = TRUE]
  <2>1. pc[w] = "deps" /\ wrec' = wrec /\ rec \in JobRec /\ rec.name = cur[w] /\ cur[w] \in JobIds
    BY <1>1, <1>3, <1>12 DEF CheckDep, PeaceCopies, JobState
  <2>2. CASE End(w, "dead")
    <3>1. UNCHANGED jvars
      BY <1>12, <2>1, <2>2 DEF CheckDep, DepFailed, DepPending, DepDone, End, Leave, Goto, TypeOK, ProcType
    <3> QED BY <1>6, <1>7, <1>8, <2>1, <2>2, <3>1 DEF End
  <2>3. CASE ~End(w, "dead")
    <3>1. /\ UNCHANGED <<pc, cur, wobj>>
          /\ (UNCHANGED jvars /\ copy' = copy) \/ (Save(cur[w], rec) /\ copy' = [copy EXCEPT ![w] = rec])
      BY <1>12, <2>3 DEF CheckDep, DepFailed, DepPending, DepDone
    <3>2. copy'[w].name = cur[w] /\ \A v \in Workers \ {w} : copy'[v] = copy[v]
      BY <2>1, <3>1 DEF TypeOK, ProcType, PeaceCopies
    <3> QED BY <1>1, <1>6, <1>8, <2>1, <3>1, <3>2
  <2> QED BY <2>2, <2>3
<1>13. CASE Relaunch(w)
  <2> DEFINE rec == [copy[w] EXCEPT !.state = "NEW"]
  <2>1. pc[w] = "deps" /\ wrec' = wrec /\ rec \in JobRec /\ rec.name = cur[w] /\ cur[w] \in JobIds
    BY <1>1, <1>3, <1>13 DEF Relaunch, PeaceCopies, JobState
  <2>2. UNCHANGED jvars \/ Save(cur[w], rec)
    BY <1>13 DEF Relaunch
  <2>3. Leave(w, "get") \/ Leave(w, "dead")
    BY <1>13 DEF Relaunch, End
  <2> QED BY <1>6, <1>7, <1>8, <2>1, <2>2, <2>3
<1>14. CASE RunOk(w) \/ RunError(w) \/ RunTimeout(w)
  <2>1. PICK rec \in JobRec : rec.name = copy[w].name /\ Outcome(w, rec)
    BY <1>3, <1>4, <1>14 DEF RunOk, RunError, RunTimeout, JobState
  <2>2. pc[w] = "run" /\ wrec' = wrec /\ rec.name = cur[w] /\ cur[w] \in JobIds
    BY <1>1, <2>1 DEF Outcome, PeaceCopies
  <2>3. CASE End(w, "dead") /\ UNCHANGED jvars
    BY <1>6, <1>7, <1>8, <2>2, <2>3 DEF End
  <2>4. CASE ~(End(w, "dead") /\ UNCHANGED jvars)
    <3>1. Save(cur[w], rec) /\ copy' = [copy EXCEPT ![w] = rec] /\ Goto(w, "post") /\ UNCHANGED <<cur, wobj>>
      BY <2>1, <2>4 DEF Outcome
    <3> QED BY <1>1, <1>6, <1>8, <2>2, <3>1 DEF Goto, TypeOK, ProcType
  <2> QED BY <2>3, <2>4
<1> QED BY <1>9, <1>10, <1>11, <1>12, <1>13, <1>14 DEF WorkerStep

(* The invariant holds initially and every step keeps it.                  *)
LEMMA CalmInductive == Spec => []CalmInv
<1>1. Init => CalmInv
  BY DEF Init, CalmInv, Peaceful, PeaceStore, PeaceCopies, PeaceWorkers, Waiting, Away, JobIds
<1>2. DependencyInv /\ CalmInv /\ [Next]_vars => CalmInv'
  <2> SUFFICES ASSUME DependencyInv, Peaceful, ~MayLose, [Next]_vars PROVE Peaceful'
    BY DEF CalmInv, MayLose
  <2>1. Names = {} /\ MaxFaults = 0
    BY BoundsAssumption DEF MayLose
  <2>2. CASE UNCHANGED vars
    BY <2>2 DEF vars, jvars, wvars, locals, pvars, Peaceful, PeaceStore, PeaceCopies, PeaceWorkers
  <2>3. CASE ClientStep
    BY <2>1, <2>3, PeaceClient
  <2>4. ASSUME NEW w \in Workers, WorkerStep(w) PROVE Peaceful'
    BY <2>4, PeaceWorker DEF DependencyInv
  <2>5. ASSUME NEW w \in Workers, ParentStep(w) \/ Crash(w) PROVE FALSE
    <3>1. ~(faults < MaxFaults) /\ pst[w] = "idle"
      BY <2>1 DEF DependencyInv, TypeOK, HistoryType, Peaceful, PeaceWorkers
    <3> QED BY <2>5, <3>1 DEF ParentStep, WorkersLoad, SoftStop, HardStop, Restart, TmuxStart, StateUpdate, WorkersCheck, Crash, Fault
  <2> QED BY <2>2, <2>3, <2>4, <2>5 DEF Next
<1> QED BY <1>1, <1>2, DependencyInductive, PTL DEF Spec

-----------------------------------------------------------------------------
(* Jobs that cannot succeed any more.                                      *)

(* The service's recursive definition has a solution, the least fixed      *)
(* point, so that its equation holds.                                      *)
LEMMA CondemnedEquation ==
    ASSUME jobs \in [JobIds -> JobRec]
    PROVE  Service!Condemned = [j \in JobIds |-> Failed(j) \/ \E d \in jobs[j].deps : d < j /\ Service!Condemned[d]]
<1> DEFINE S == {j \in JobIds : \A T \in SUBSET JobIds : Closed(T) => j \in T}
           F == [j \in JobIds |-> IF j \in S THEN TRUE ELSE FALSE]
<1>0. \A j \in JobIds : jobs[j].deps \subseteq JobIds
  BY DEF JobRec
<1>1. \A j \in JobIds : j \in S <=> (Failed(j) \/ \E d \in jobs[j].deps : d < j /\ d \in S)
  <2>1. Closed(S)
    BY DEF Closed
  <2> DEFINE R == {j \in JobIds : Failed(j) \/ \E d \in jobs[j].deps : d < j /\ d \in S}
  <2>2. R \subseteq S
    BY <2>1 DEF Closed
  <2>3. Closed(R)
    BY <2>2 DEF Closed
  <2>4. S \subseteq R
    BY <2>3
  <2> QED BY <2>2, <2>4
<1>2. F = [j \in JobIds |-> \/ Failed(j)
                            \/ \E d \in jobs[j].deps : d < j /\ F[d]]
  <2>1. \A j \in JobIds : F[j] <=> j \in S
    OBVIOUS
  <2>2. \A j \in JobIds : (j \in S) <=> (\/ Failed(j) \/ \E d \in jobs[j].deps : d < j /\ F[d])
    <3> HIDE DEF F, S
    <3> SUFFICES ASSUME NEW j \in JobIds
                 PROVE  (j \in S) <=> (\/ Failed(j) \/ \E d \in jobs[j].deps : d < j /\ F[d])
      BY Zenon
    <3>1. \A d \in jobs[j].deps : F[d] <=> (d \in S)
      BY <1>0, <2>1, Zenon
    <3> QED BY <1>1, <3>1, Zenon
  <2>3. \A j \in JobIds : F[j] = (\/ Failed(j) \/ \E d \in jobs[j].deps : d < j /\ F[d])
    <3> SUFFICES ASSUME NEW j \in JobIds
                 PROVE  F[j] = (\/ Failed(j) \/ \E d \in jobs[j].deps : d < j /\ F[d])
      OBVIOUS
    <3>1. F[j] = IF j \in S THEN TRUE ELSE FALSE
      OBVIOUS
    <3> HIDE DEF F, S
    <3>2. CASE j \in S
      <4>1. (\/ Failed(j) \/ \E d \in jobs[j].deps : d < j /\ F[d]) = TRUE
        BY <2>2, <3>2
      <4>2. F[j] = TRUE
        BY <3>1, <3>2
      <4> QED BY <4>1, <4>2
    <3>3. CASE j \notin S
      <4>1. (\/ Failed(j) \/ \E d \in jobs[j].deps : d < j /\ F[d]) = FALSE
        BY <2>2, <3>3
      <4>2. F[j] = FALSE
        BY <3>1, <3>3
      <4> QED BY <4>1, <4>2
    <3> QED BY <3>2, <3>3
  <2>4. F = [j \in JobIds |-> F[j]]
    OBVIOUS
  <2> HIDE DEF F, S
  <2> QED BY <2>3, <2>4
<1>3. \E f : f = [j \in JobIds |-> \/ Failed(j) \/ \E d \in jobs[j].deps : d < j /\ f[d]]
  <2> HIDE DEF F
  <2> QED BY <1>2
<1>4. Service!Condemned = CHOOSE f : f = [j \in JobIds |-> \/ Failed(j) \/ \E d \in jobs[j].deps : d < j /\ f[d]]
  BY DEF Service!Condemned, Failed
<1> QED BY <1>3, <1>4

(* A doomed job is condemned by the service's definition.                  *)
LEMMA DoomedCondemned ==
    ASSUME TypeOK, NEW j \in JobIds, j \in Doomed
    PROVE  Service!Condemned[j]
<1> DEFINE T == {k \in JobIds : Service!Condemned[k]}
<1>1. Service!Condemned = [k \in JobIds |-> Failed(k) \/ \E d \in jobs[k].deps : d < k /\ Service!Condemned[d]]
  BY CondemnedEquation DEF TypeOK, StoreType
<1>2. Closed(T)
  <2> SUFFICES ASSUME NEW k \in JobIds, Failed(k) \/ \E d \in jobs[k].deps : d < k /\ d \in T
               PROVE  Service!Condemned[k]
    BY DEF Closed
  <2>1. Failed(k) \/ \E d \in jobs[k].deps : d < k /\ Service!Condemned[d]
    OBVIOUS
  <2> QED BY <1>1, <2>1
<1> QED BY <1>2 DEF Doomed

(* A failed job is doomed, and so is one with a doomed dependency.         *)
LEMMA DoomedUp ==
    ASSUME NEW j \in JobIds, Failed(j) \/ \E d \in jobs[j].deps : d < j /\ d \in Doomed
    PROVE  j \in Doomed
  BY DEF Doomed, Closed

(* A doomed job stays doomed where failures and dependencies stay.         *)
LEMMA DoomedStays ==
    ASSUME \A k \in JobIds : Failed(k) => Failed(k)',
           \A k \in JobIds : jobs[k].deps \subseteq jobs'[k].deps
    PROVE  Doomed \subseteq Doomed'
<1> SUFFICES ASSUME NEW j \in Doomed, NEW T \in SUBSET JobIds, Closed(T)' PROVE j \in T
  BY DEF Doomed
<1>1. \A k \in JobIds : (Failed(k)' \/ \E d \in jobs'[k].deps : d < k /\ d \in T) => k \in T
  BY DEF Closed
<1>2. Closed(T)
  BY <1>1 DEF Closed
<1> QED BY <1>2 DEF Doomed

-----------------------------------------------------------------------------
(* The phases of a job, step by step.                                      *)

Stays == \A j \in JobIds : Phase(j)' = Phase(j)
Moves(k, p) == \A j \in JobIds : Phase(j)' = IF j = k THEN p ELSE Phase(j)

(* A step that changes no phase, no dependencies and no success is hidden  *)
(* from the service.                                                       *)
LEMMA Hidden ==
    ASSUME Stays, NeedsKept, completed' = completed
    PROVE  UNCHANGED Service!svars
<1>1. [j \in JobIds |-> Phase(j)]' = [j \in JobIds |-> Phase(j)]
  BY DEF Stays
<1>2. [j \in JobIds |-> jobs[j].deps]' = [j \in JobIds |-> jobs[j].deps]
  BY DEF NeedsKept
<1> QED BY <1>1, <1>2 DEF Service!svars

(* A step that moves one job is the service's step of that job.            *)
LEMMA Visible ==
    ASSUME NEW k \in JobIds, NeedsKept, TypeOK,
           \/ /\ Phase(k) = "waiting" /\ jobs[k].deps \subseteq completed /\ Moves(k, "running") /\ completed' = completed
           \/ Phase(k) = "running" /\ Moves(k, "ended") /\ completed' \in {completed, completed \cup {k}}
           \/ Phase(k) = "waiting" /\ (\E d \in jobs[k].deps : d \in Doomed) /\ Moves(k, "ended") /\ completed' = completed
           \/ MayLose /\ Phase(k) \in {"waiting", "running"} /\ Moves(k, "lost") /\ completed' = completed
    PROVE  Service!Next
<1> DEFINE phase == [j \in JobIds |-> Phase(j)]
           needs == [j \in JobIds |-> jobs[j].deps]
<1>1. needs' = needs
  BY DEF NeedsKept
<1>2. ASSUME NEW p, Moves(k, p) PROVE phase' = [phase EXCEPT ![k] = p]
  BY <1>2 DEF Moves
<1>3. phase[k] = Phase(k) /\ needs[k] = jobs[k].deps
  OBVIOUS
<1>4. ASSUME \E d \in jobs[k].deps : d \in Doomed PROVE \E d \in needs[k] : Service!Condemned[d]
  <2>1. jobs[k].deps \subseteq JobIds
    BY DEF TypeOK, StoreType, JobRec
  <2> QED BY <1>3, <1>4, <2>1, DoomedCondemned
<1>5. CASE Phase(k) = "waiting" /\ jobs[k].deps \subseteq completed /\ Moves(k, "running") /\ completed' = completed
  <2>1. phase[k] = "waiting" /\ needs[k] \subseteq completed /\ phase' = [phase EXCEPT ![k] = "running"]
    BY <1>2, <1>3, <1>5
  <2>2. Service!Begin(k)
    BY <1>1, <1>5, <2>1 DEF Service!Begin, Service!To
  <2> QED BY <2>2 DEF Service!Next, Service!Step
<1>6. CASE Phase(k) = "running" /\ Moves(k, "ended") /\ completed' \in {completed, completed \cup {k}}
  <2>1. phase[k] = "running" /\ phase' = [phase EXCEPT ![k] = "ended"]
    BY <1>2, <1>3, <1>6
  <2>2. Service!Finish(k)
    BY <1>1, <1>6, <2>1 DEF Service!Finish, Service!To
  <2> QED BY <2>2 DEF Service!Next, Service!Step
<1>7. CASE Phase(k) = "waiting" /\ (\E d \in jobs[k].deps : d \in Doomed) /\ Moves(k, "ended") /\ completed' = completed
  <2>1. phase[k] = "waiting" /\ phase' = [phase EXCEPT ![k] = "ended"] /\ \E d \in needs[k] : Service!Condemned[d]
    BY <1>2, <1>3, <1>4, <1>7
  <2>2. Service!Refuse(k)
    BY <1>1, <1>7, <2>1 DEF Service!Refuse, Service!To
  <2> QED BY <2>2 DEF Service!Next, Service!Step
<1>8. CASE MayLose /\ Phase(k) \in {"waiting", "running"} /\ Moves(k, "lost") /\ completed' = completed
  <2>1. phase[k] \in {"waiting", "running"} /\ phase' = [phase EXCEPT ![k] = "lost"]
    BY <1>2, <1>3, <1>8
  <2>2. Service!Lose(k)
    BY <1>1, <1>8, <2>1 DEF Service!Lose, Service!To, MayLose
  <2> QED BY <2>2 DEF Service!Next
<1> QED BY <1>5, <1>6, <1>7, <1>8

(* A step about a worker concerns the job that the worker has in hand.     *)
LEMMA PhaseOthers ==
    ASSUME NEW w \in Workers, NEW k, Only(w), nextId' = nextId,
           pc[w] \in {"deps", "run"} => cur[w] = k, pc'[w] \in {"deps", "run"} => cur'[w] = k,
           NEW j \in JobIds, j # k, j \in finished' <=> j \in finished, j \in dropped' <=> j \in dropped
    PROVE  Phase(j)' = Phase(j)
<1>1. \A p \in {"deps", "run"} : (\E v \in Workers : pc[v] = p /\ cur[v] = j) <=> (\E v \in Workers : pc'[v] = p /\ cur'[v] = j)
  BY DEF Only
<1> QED BY <1>1 DEF Phase

(* The phase of the job in hand.                                           *)
LEMMA PhaseHand ==
    ASSUME DependencyInv, Sole, NEW w \in Workers, cur[w] \in JobIds
    PROVE  /\ pc[w] = "run" => Phase(cur[w]) = "running"
           /\ pc[w] = "deps" => Phase(cur[w]) = "waiting"
           /\ pc[w] \notin {"deps", "run"} =>
                Phase(cur[w]) = IF cur[w] \in finished THEN "ended" ELSE IF cur[w] \in dropped THEN "lost" ELSE "waiting"
<1>1. cur[w] < nextId /\ cur[w] # NoId /\ cur[w] \in Nat /\ nextId \in Nat
  BY QueueFacts DEF DependencyInv, DepsInv, IdsUsed
<1>2. \A v \in Workers : cur[v] = cur[w] => v = w
  BY <1>1 DEF Sole
<1>3. ~(cur[w] >= nextId)
  BY <1>1
<1> QED BY <1>2, <1>3 DEF Phase

(* Its phase after a step about the worker.                                *)
LEMMA PhaseNext ==
    ASSUME DependencyInv, Sole, NEW w \in Workers, NEW k \in JobIds, cur[w] = k, Only(w), nextId' = nextId
    PROVE  /\ cur'[w] = k /\ pc'[w] = "run" => Phase(k)' = "running"
           /\ cur'[w] = k /\ pc'[w] = "deps" => Phase(k)' = "waiting"
           /\ cur'[w] = NoId \/ pc'[w] \notin {"deps", "run"} =>
                Phase(k)' = IF k \in finished' THEN "ended" ELSE IF k \in dropped' THEN "lost" ELSE "waiting"
<1>1. k < nextId /\ k # NoId /\ k \in Nat /\ nextId \in Nat
  BY QueueFacts DEF DependencyInv, DepsInv, IdsUsed
<1>2. \A v \in Workers : cur[v] = k => v = w
  BY <1>1 DEF Sole
<1>3. \A v \in Workers : cur'[v] = k => v = w
  BY <1>2 DEF Only
<1>4. ~(k >= nextId')
  BY <1>1
<1> QED BY <1>1, <1>3, <1>4 DEF Phase

(* The whole of it: where a step about a worker takes the job in hand.     *)
LEMMA HandMoves ==
    ASSUME DependencyInv, Sole, NEW w \in Workers, NEW k \in JobIds, cur[w] = k, Only(w), nextId' = nextId,
           cur'[w] \in {k, NoId}, pc'[w] \in {"deps", "run"} => cur'[w] = k, OnlyJob(k)
    PROVE  Moves(k, Phase(k)')
<1>1. \A j \in JobIds : j # k => Phase(j)' = Phase(j)
  BY PhaseOthers DEF OnlyJob
<1> QED BY <1>1 DEF Moves

(* A worker that is neither at the dependencies nor in the execution, and  *)
(* does not get there, moves no job.                                       *)
LEMMA SimQuiet ==
    ASSUME NEW w \in Workers, Only(w), pc[w] \notin {"deps", "run"}, pc'[w] \notin {"deps", "run"},
           UNCHANGED <<nextId, finished, dropped, completed>>, NeedsKept
    PROVE  UNCHANGED Service!svars
<1>1. \A j \in JobIds : j # NoId
  BY DEF JobIds, NoId
<1>2. Stays
  BY <1>1, PhaseOthers DEF Stays
<1> QED BY <1>2, Hidden

(* The end of a process: the job in hand is lost, refused if an ERROR was  *)
(* saved for it, or there is none.                                         *)
LEMMA SimEnd ==
    ASSUME DependencyInv, TokenInv, ErrorTrue, NEW w \in Workers, NEW where \in {"get", "dead", "down", "halted", "boot"},
           End(w, where), nextId' = nextId, NeedsKept, pc[w] \in Pending /\ cur[w] \in JobIds => MayLose
    PROVE  [Service!Next]_Service!svars
<1> USE DEF DependencyInv
<1>1. /\ Only(w) /\ pc'[w] \notin {"deps", "run"} /\ cur'[w] = NoId
      /\ UNCHANGED <<completed, finished>> /\ dropped' = dropped \cup (Held(w) \ finished)
  BY EndEffect
<1>2. CASE Held(w) = {}
  <2>1. pc[w] \notin {"deps", "run"}
    BY <1>2 DEF Held, Pending, TypeOK, ProcType, NoId, JobIds
  <2> QED BY <1>1, <1>2, <2>1, SimQuiet
<1>3. CASE Held(w) # {}
  <2>1. pc[w] \in Pending /\ cur[w] \in JobIds /\ Held(w) = {cur[w]}
    BY <1>3 DEF Held, TypeOK, ProcType
  <2>2. PICK j \in JobIds : j = cur[w]
    BY <2>1
  <2>3. OnlyJob(j) /\ NoId \notin JobIds
    BY <1>1, <2>1, <2>2, QueueFacts DEF OnlyJob
  <2>4. Moves(j, Phase(j)')
    BY <1>1, <2>2, <2>3, HandMoves DEF TokenInv
  <2>5. Open(j) /\ (pc[w] # "deps" => j \notin finished)
    BY <2>1, <2>2 DEF TokenInv, Undelivered
  <2>6. Phase(j) \in {"waiting", "running"} /\ (pc[w] = "deps" => Phase(j) = "waiting")
    BY <2>1, <2>2, <2>5, PhaseHand DEF TokenInv, Open
  <2>7. Phase(j)' = IF j \in finished THEN "ended" ELSE "lost"
    BY <1>1, <2>1, <2>2, PhaseNext DEF TokenInv
  <2>8. CASE j \in finished
    <3>1. pc[w] = "deps" /\ Phase(j) = "waiting" /\ Moves(j, "ended")
      BY <2>4, <2>5, <2>6, <2>7, <2>8
    <3>2. \E d \in jobs[j].deps : d \in Doomed
      BY <2>2, <2>8, <3>1 DEF ErrorTrue
    <3> QED BY <1>1, <3>1, <3>2, Visible
  <2>9. CASE j \notin finished
    <3>1. Moves(j, "lost") /\ MayLose
      BY <2>1, <2>4, <2>7, <2>9
    <3> QED BY <1>1, <2>6, <3>1, Visible
  <2> QED BY <2>8, <2>9
<1> QED BY <1>2, <1>3

(* schedule() submits a job when its record is saved, and loses it when    *)
(* it does not come to the put.                                            *)
LEMMA SimSchedule ==
    ASSUME DependencyInv, TokenInv, DepsLower, CalmInv, ScheduleStep
    PROVE  [Service!Next]_Service!svars
<1> USE DEF DependencyInv
<1>1. ASSUME NEW n, NEW D \in SUBSET JobIds, NEW Q, ScheduleNew(n, D, Q) PROVE Service!Next
  <2> DEFINE phase == [j \in JobIds |-> Phase(j)]
             needs == [j \in JobIds |-> jobs[j].deps]
  <2>1. /\ nextId \in JobIds /\ nextId' = nextId + 1 /\ jobs' = [jobs EXCEPT ![nextId] = NewJob(n, D, Q, FALSE)]
        /\ UNCHANGED <<pc, cur, finished, dropped, completed>>
    BY <1>1 DEF ScheduleNew, Write, wvars, locals, hvars
  <2>2. nextId \in Nat /\ JobIds \subseteq Nat
    BY QueueFacts
  <2>3. PICK k \in JobIds : k = nextId
    BY <2>1
  <2>4. needs' = [needs EXCEPT ![k] = D]
    <3>1. \A j \in JobIds : jobs'[j].deps = IF j = k THEN D ELSE jobs[j].deps
      BY <2>1, <2>3 DEF TypeOK, StoreType, NewJob
    <3> QED BY <3>1
  <2>5. \A j \in JobIds : j # k => Phase(j)' = Phase(j)
    <3>1. \A j \in JobIds : j # k => (j >= nextId' <=> j >= nextId)
      BY <2>1, <2>2, <2>3
    <3> QED BY <2>1, <3>1 DEF Phase
  <2>6. Phase(k) = "absent"
    BY <2>2, <2>3 DEF Phase
  <2>7. Phase(k)' = "waiting"
    <3>1. \A w \in Workers : cur[w] # k
      BY <2>2, <2>3, QueueFacts DEF DepsInv, IdsUsed
    <3>2. k \notin finished /\ k \notin dropped
      BY <2>2, <2>3 DEF TokenInv, HistIds
    <3>3. ~(k >= nextId')
      BY <2>1, <2>2, <2>3
    <3> QED BY <2>1, <3>1, <3>2, <3>3 DEF Phase
  <2>8. phase' = [phase EXCEPT ![k] = "waiting"] /\ phase[k] = "absent"
    BY <2>5, <2>6, <2>7
  <2>9. Service!Submit(k, D)
    BY <2>1, <2>4, <2>8 DEF Service!Submit, Service!To
  <2> QED BY <2>9 DEF Service!Next
<1>2. (\E n, Q : \E D \in SUBSET JobIds : ScheduleNew(n, D, Q)) \/ (NeedsKept /\ nextId' = nextId)
  BY ScheduleNeeds
<1>3. UNCHANGED <<pc, cur, completed>>
  BY ScheduleNeeds DEF wvars, locals
<1>4. ASSUME NeedsKept, UNCHANGED <<nextId, finished, dropped>> PROVE UNCHANGED Service!svars
  <2>1. Stays
    BY <1>3, <1>4 DEF Stays, Phase
  <2> QED BY <1>3, <1>4, <2>1, Hidden
<1>5. ASSUME NEW j \in JobIds, Abandon(j), MayLose, NeedsKept PROVE Service!Next
  <2>1. j \in making /\ UNCHANGED <<nextId, finished>> /\ dropped' = dropped \cup ({j} \ finished)
    BY <1>5 DEF Abandon
  <2>2. /\ ~(j >= nextId) /\ j \notin finished /\ j \notin dropped
        /\ \A w \in Workers : cur[w] # j
    BY <2>1, QueueFacts DEF DepsInv, SavedTrue, TokenInv, Undelivered, Open, Sole
  <2>3. Phase(j) = "waiting" /\ Phase(j)' = "lost"
    BY <1>3, <2>1, <2>2 DEF Phase
  <2>4. \A k \in JobIds : k # j => Phase(k)' = Phase(k)
    BY <1>3, <2>1 DEF Phase
  <2>5. Moves(j, "lost")
    BY <2>3, <2>4 DEF Moves
  <2> QED BY <1>3, <1>5, <2>3, <2>5, Visible
<1>6. ASSUME NEW j \in JobIds, NEW t \in BOOLEAN, ScheduleSave(j, t), NeedsKept PROVE [Service!Next]_Service!svars
  <2> DEFINE rec == [draft[j] EXCEPT !.timeout = @ \/ t]
  <2>1. CASE NameTaken(j, rec.name) /\ Abandon(j)
    <3>1. j \in making /\ draft[j] \in JobRec
      BY <2>1 DEF Abandon, TypeOK, StoreType
    <3>2. rec.name = draft[j].name
      BY <3>1 DEF JobRec
    <3>3. MayLose
      BY <2>1, <3>1, <3>2 DEF CalmInv, Peaceful, PeaceStore, NameTaken
    <3> QED BY <1>5, <1>6, <2>1, <3>3
  <2>2. CASE ~(NameTaken(j, rec.name) /\ Abandon(j))
    <3>1. j \in making /\ finished' = finished \ {j} /\ UNCHANGED <<nextId, dropped>>
      BY <1>6, <2>2 DEF ScheduleSave
    <3>2. finished' = finished
      BY <3>1 DEF TokenInv, Undelivered
    <3> QED BY <1>4, <1>6, <3>1, <3>2
  <2> QED BY <2>1, <2>2
<1>7. ASSUME NEW j \in JobIds, ScheduleEnd(j), NeedsKept PROVE Service!Next
  <2>1. MayLose
    BY <1>7, BoundsAssumption DEF ScheduleEnd, MayLose, TypeOK, HistoryType
  <2> QED BY <1>5, <1>7, <2>1 DEF ScheduleEnd
<1>8. ASSUME NEW n, ScheduleDelete(n), NeedsKept PROVE UNCHANGED Service!svars
  BY <1>4, <1>8 DEF ScheduleDelete, hvars
<1>9. ASSUME NEW j, SchedulePut(j), NeedsKept PROVE UNCHANGED Service!svars
  BY <1>4, <1>9 DEF SchedulePut, hvars
<1>10. CASE NeedsKept
  BY <1>1, <1>6, <1>7, <1>8, <1>9, <1>10 DEF ScheduleStep
<1> QED BY <1>1, <1>2, <1>10

(* Clients: schedule() submits a job, the waiters are hidden.              *)
LEMMA SimClient ==
    ASSUME MaxStarts = 0, DependencyInv, TokenInv, DepsLower, CalmInv, ClientStep
    PROVE  [Service!Next]_Service!svars
<1> USE DEF DependencyInv
<1>1. CASE ScheduleStep
  BY <1>1, SimSchedule
<1>2. ASSUME NEW k, Start(k) PROVE FALSE
  BY <1>2 DEF Start, TypeOK, HistoryType
<1>3. ASSUME NeedsKept, UNCHANGED <<nextId, making, pc, cur, finished, dropped, completed>> PROVE UNCHANGED Service!svars
  <2>1. Stays
    BY <1>3 DEF Stays, Phase
  <2> QED BY <1>3, <2>1, Hidden
<1>4. ASSUME NEW c, NEW j, CheckLoad(c, j) PROVE UNCHANGED Service!svars
  BY <1>3, <1>4 DEF CheckLoad, NeedsKept, jvars, wvars, locals, hvars
<1>5. ASSUME NEW c \in Clients, CheckReady(c) PROVE UNCHANGED Service!svars
  <2>1. NeedsKept
    BY <1>5, WaiterNeeds
  <2>2. UNCHANGED <<nextId, making, pc, cur, finished, dropped, completed>>
    BY <1>5 DEF CheckReady, Answer, Save, jvars, wvars, locals, hvars
  <2> QED BY <1>3, <2>1, <2>2
<1> QED BY <1>1, <1>2, <1>4, <1>5 DEF ClientStep, ScheduleStep

(* The parent and crashes: the end of a process, which is a fault, or      *)
(* nothing that the service knows of.                                      *)
LEMMA SimParent ==
    ASSUME DependencyInv, TokenInv, ErrorTrue, NEW w \in Workers, ParentStep(w) \/ Crash(w)
    PROVE  [Service!Next]_Service!svars
<1>1. NeedsKept /\ UNCHANGED nextId
  BY WorkerNeeds DEF ParentStep, WorkersLoad, SoftStop, HardStop, Restart, TmuxStart, StateUpdate, WorkersCheck, Crash, jvars
<1>2. (\E where \in {"dead", "down", "boot"} : End(w, where) /\ faults < MaxFaults) \/ UNCHANGED <<pc, locals, hvars>>
  BY DEF ParentStep, WorkersLoad, SoftStop, HardStop, Restart, TmuxStart, StateUpdate, WorkersCheck, Crash, Fault, wvars
<1>3. CASE UNCHANGED <<pc, locals, hvars>>
  <2>1. Stays /\ completed' = completed
    BY <1>1, <1>3 DEF Stays, Phase, locals, hvars
  <2> QED BY <1>1, <2>1, Hidden
<1>4. ASSUME NEW where \in {"dead", "down", "boot"}, End(w, where), faults < MaxFaults PROVE [Service!Next]_Service!svars
  <2>1. MayLose
    BY <1>4, BoundsAssumption DEF MayLose, DependencyInv, TypeOK, HistoryType
  <2> QED BY <1>1, <1>4, <2>1, SimEnd
<1> QED BY <1>2, <1>3, <1>4

(* The steps of a worker at the dependencies.                              *)
LEMMA SimDeps ==
    ASSUME DependencyInv, TokenInv, DepsLower, CalmInv, ErrorTrue, NEW w \in Workers,
           CheckDep(w) \/ Relaunch(w) \/ Skip(w) \/ Busy(w)
    PROVE  [Service!Next]_Service!svars
<1> USE DEF DependencyInv
<1>1. NeedsKept /\ nextId' = nextId /\ NoId \notin JobIds
  BY WorkerNeeds, QueueFacts DEF WorkerStep, CheckDep, DepFailed, DepPending, DepDone, Relaunch, Skip, Busy, Save, jvars
<1>2. pc[w] = "deps" /\ cur[w] \in JobIds
  BY DEF CheckDep, Relaunch, Skip, Busy, TypeOK, ProcType
<1>3. PICK k \in JobIds : k = cur[w]
  BY <1>2
<1>4. Phase(k) = "waiting" /\ k \notin dropped /\ (~skip[w] => k \notin finished) /\ (skip[w] /\ ~relaunch[w] => k \in finished)
  BY <1>2, <1>3, PhaseHand DEF TokenInv, Undelivered, Open, Pending
<1>5. ASSUME Only(w), cur'[w] \in {k, NoId}, pc'[w] \in {"deps", "run"} => cur'[w] = k, OnlyJob(k) PROVE Moves(k, Phase(k)')
  BY <1>1, <1>3, <1>5, HandMoves DEF TokenInv
<1>6. ASSUME Moves(k, "waiting"), completed' = completed PROVE UNCHANGED Service!svars
  <2>1. Stays
    BY <1>4, <1>6 DEF Moves, Stays
  <2> QED BY <1>1, <1>6, <2>1, Hidden
<1>7. ASSUME End(w, "dead"), MayLose PROVE [Service!Next]_Service!svars
  BY <1>1, <1>7, SimEnd
<1>8. CASE CheckDep(w)
  <2>1. CASE End(w, "dead")
    <3>1. MayLose
      <4>1. \/ NameTaken(cur[w], [copy[w] EXCEPT !.state = "ERROR", !.stopped = TRUE].name)
            \/ \E d \in todo[w] : d \notin stored
        <5>1. pc' # pc
          BY <1>2, <2>1, EndEffect
        <5> QED BY <1>8, <5>1 DEF CheckDep, DepFailed, DepPending, DepDone
      <4>2. [copy[w] EXCEPT !.state = "ERROR", !.stopped = TRUE].name = copy[w].name
        BY DEF TypeOK, ProcType, JobRec
      <4> QED BY <1>2, <4>1, <4>2, PeaceNoEnd DEF CalmInv
    <3> QED BY <1>7, <2>1, <3>1
  <2>2. CASE ~End(w, "dead")
    <3>1. /\ Only(w) /\ UNCHANGED <<pc, cur, dropped, completed>> /\ finished' \in {finished, finished \cup {k}}
      BY <1>3, <1>8, <2>2 DEF CheckDep, DepFailed, DepPending, DepDone, Only, TypeOK, ProcType, hvars
    <3>2. OnlyJob(k)
      BY <3>1 DEF OnlyJob
    <3>3. Phase(k)' = "waiting"
      BY <1>1, <1>2, <1>3, <3>1, PhaseNext DEF TokenInv
    <3>4. Moves(k, Phase(k)')
      BY <1>3, <1>5, <3>1, <3>2
    <3> QED BY <1>6, <3>1, <3>3, <3>4
  <2> QED BY <2>1, <2>2
<1>9. CASE Relaunch(w)
  <2>1. CASE NameTaken(cur[w], [copy[w] EXCEPT !.state = "NEW"].name) /\ End(w, "dead")
    <3>1. [copy[w] EXCEPT !.state = "NEW"].name = copy[w].name
      BY DEF TypeOK, ProcType, JobRec
    <3> QED BY <1>2, <1>7, <2>1, <3>1, PeaceNoEnd DEF CalmInv
  <2>2. CASE ~(NameTaken(cur[w], [copy[w] EXCEPT !.state = "NEW"].name) /\ End(w, "dead"))
    <3>1. Leave(w, "get") /\ finished' = finished \ {k} /\ UNCHANGED <<dropped, completed>>
      BY <1>3, <1>9, <2>2 DEF Relaunch
    <3>2. OnlyJob(k) /\ Only(w) /\ cur'[w] = NoId /\ pc'[w] = "get"
      BY <3>1, LeaveEffect DEF OnlyJob
    <3>3. Phase(k)' = "waiting"
      BY <1>1, <1>3, <1>4, <3>1, <3>2, PhaseNext DEF TokenInv
    <3>4. Moves(k, Phase(k)')
      BY <1>5, <3>2
    <3> QED BY <1>6, <3>1, <3>3, <3>4
  <2> QED BY <2>1, <2>2
<1>10. CASE Skip(w)
  <2>1. Leave(w, "get") /\ skip[w] /\ ~relaunch[w] /\ UNCHANGED <<finished, dropped, completed>>
    BY <1>10 DEF Skip, hvars
  <2>2. OnlyJob(k) /\ Only(w) /\ cur'[w] = NoId /\ pc'[w] = "get"
    BY <2>1, LeaveEffect DEF OnlyJob
  <2>3. k \in finished /\ Phase(k)' = "ended"
    BY <1>1, <1>3, <1>4, <2>1, <2>2, PhaseNext DEF TokenInv
  <2>4. Moves(k, Phase(k)')
    BY <1>5, <2>2
  <2>5. \E d \in jobs[k].deps : d \in Doomed
    BY <1>2, <1>3, <2>3 DEF ErrorTrue
  <2> QED BY <1>1, <1>4, <2>1, <2>3, <2>4, <2>5, Visible
<1>11. CASE Busy(w)
  <2>1. /\ Only(w) /\ ~skip[w] /\ todo[w] = {} /\ pc'[w] = "run" /\ UNCHANGED <<cur, finished, dropped, completed>>
    BY <1>11 DEF Busy, Goto, Only, TypeOK, ProcType
  <2>2. OnlyJob(k) /\ Phase(k)' = "running"
    BY <1>1, <1>3, <2>1, PhaseNext DEF OnlyJob, TokenInv
  <2>3. Moves(k, Phase(k)')
    BY <1>3, <1>5, <2>1, <2>2
  <2>4. jobs[k].deps \subseteq completed
    BY <1>2, <1>3, <2>1 DEF DepsInv, DepsSeen, CopyTrue
  <2> QED BY <1>1, <1>4, <2>1, <2>2, <2>3, <2>4, Visible
<1> QED BY <1>8, <1>9, <1>10, <1>11

(* The other steps of a worker.                                            *)
LEMMA SimWork ==
    ASSUME DependencyInv, TokenInv, DepsLower, CalmInv, ErrorTrue, NEW w \in Workers,
           \/ ProcStart(w) \/ Get(w) \/ Reload(w) \/ Idle(w) \/ Load(w)
           \/ RunOk(w) \/ RunError(w) \/ RunTimeout(w) \/ (\E q \in QNames : Post(w, q)) \/ Again(w)
    PROVE  [Service!Next]_Service!svars
<1> USE DEF DependencyInv
<1>1. NeedsKept /\ NoId \notin JobIds
  BY WorkerNeeds, QueueFacts DEF WorkerStep
<1>2. CASE ProcStart(w) \/ Get(w) \/ Idle(w) \/ (\E q \in QNames : Post(w, q)) \/ Again(w)
  <2>1. /\ UNCHANGED <<nextId, making, finished, dropped, completed>>
        /\ pc[w] \in {"boot", "get", "idle", "post"}
    BY <1>2 DEF ProcStart, Get, Idle, Post, Again, jvars, hvars
  <2>2. Only(w) /\ pc'[w] \in {"get", "reload", "post"}
    BY <1>2, LeaveEffect DEF ProcStart, Get, Idle, Post, Again, Goto, Only, TypeOK, ProcType, locals
  <2> QED BY <1>1, <2>1, <2>2, SimQuiet
<1>3. CASE Reload(w)
  <2>1. nextId' = nextId /\ pc[w] = "reload"
    BY <1>3 DEF Reload, jvars
  <2>2. CASE wrec[w].halt
    <3>1. End(w, "halted") /\ MayLose
      BY <1>3, <2>2, PeaceNoEnd DEF Reload, CalmInv
    <3> QED BY <1>1, <2>1, <3>1, SimEnd
  <2>3. CASE ~wrec[w].halt
    <3>1. Only(w) /\ pc'[w] \in {"idle", "load"} /\ UNCHANGED <<finished, dropped, completed>>
      BY <1>3, <2>3 DEF Reload, Goto, Only, TypeOK, ProcType, hvars
    <3> QED BY <1>1, <2>1, <3>1, SimQuiet
  <2> QED BY <2>2, <2>3
<1>4. CASE Load(w)
  <2>1. nextId' = nextId /\ pc[w] = "load" /\ cur[w] \in JobIds
    BY <1>4 DEF Load, jvars, TypeOK, ProcType
  <2>2. CASE cur[w] \notin stored
    <3>1. End(w, "get") /\ MayLose
      BY <1>4, <2>1, <2>2, PeaceNoEnd DEF Load, CalmInv
    <3> QED BY <1>1, <2>1, <3>1, SimEnd
  <2>3. CASE cur[w] \in stored
    <3>1. Only(w) /\ pc'[w] = "deps" /\ UNCHANGED <<cur, finished, dropped, completed>>
      BY <1>4, <2>3 DEF Load, Goto, Only, TypeOK, ProcType, hvars
    <3>2. PICK k \in JobIds : k = cur[w]
      BY <2>1
    <3>3. Phase(k) = "waiting"
      BY <2>1, <3>2, PhaseHand DEF TokenInv, Undelivered, Open, Pending
    <3>4. OnlyJob(k) /\ Phase(k)' = "waiting"
      BY <2>1, <3>1, <3>2, PhaseNext DEF OnlyJob, TokenInv
    <3>5. Moves(k, Phase(k)')
      BY <2>1, <3>1, <3>2, <3>4, HandMoves DEF TokenInv
    <3>6. Stays
      BY <3>3, <3>4, <3>5 DEF Moves, Stays
    <3> QED BY <1>1, <3>1, <3>6, Hidden
  <2> QED BY <2>2, <2>3
<1>5. CASE RunOk(w) \/ RunError(w) \/ RunTimeout(w)
  <2>1. PICK rec : rec.name = copy[w].name /\ rec \in JobRec /\ Outcome(w, rec)
    <3>1. copy[w] \in JobRec
      BY DEF TypeOK, ProcType
    <3>2. /\ [copy[w] EXCEPT !.state = "OK", !.stopped = TRUE] \in JobRec
          /\ [copy[w] EXCEPT !.state = "ERROR", !.stopped = TRUE] \in JobRec
          /\ [copy[w] EXCEPT !.state = "ERROR", !.stopped = TRUE, !.error_cat = "TIMEOUT"] \in JobRec
          /\ [copy[w] EXCEPT !.state = "OK", !.stopped = TRUE].name = copy[w].name
          /\ [copy[w] EXCEPT !.state = "ERROR", !.stopped = TRUE].name = copy[w].name
          /\ [copy[w] EXCEPT !.state = "ERROR", !.stopped = TRUE, !.error_cat = "TIMEOUT"].name = copy[w].name
      BY <3>1 DEF JobRec, JobState
    <3> QED BY <1>5, <3>2 DEF RunOk, RunError, RunTimeout
  <2>2. nextId' = nextId /\ pc[w] = "run" /\ cur[w] \in JobIds
    BY <2>1, OutcomeEffect
  <2>3. CASE End(w, "dead") /\ NameTaken(cur[w], rec.name)
    <3>1. MayLose
      BY <2>1, <2>2, <2>3, PeaceNoEnd DEF CalmInv
    <3> QED BY <1>1, <2>2, <2>3, <3>1, SimEnd
  <2>4. CASE ~(End(w, "dead") /\ NameTaken(cur[w], rec.name))
    <3>1. /\ Only(w) /\ pc'[w] = "post" /\ UNCHANGED <<cur, dropped>>
          /\ finished' = finished \cup {cur[w]} /\ completed' \in {completed, completed \cup {cur[w]}}
      BY <2>1, <2>4 DEF Outcome, Goto, Only, TypeOK, ProcType
    <3>2. PICK k \in JobIds : k = cur[w]
      BY <2>2
    <3>3. Phase(k) = "running" /\ OnlyJob(k) /\ Phase(k)' = "ended"
      BY <2>2, <3>1, <3>2, PhaseHand, PhaseNext DEF OnlyJob, TokenInv
    <3>4. Moves(k, Phase(k)')
      BY <2>2, <3>1, <3>2, <3>3, HandMoves DEF TokenInv
    <3> QED BY <1>1, <3>1, <3>2, <3>3, <3>4, Visible
  <2> QED BY <2>3, <2>4
<1> QED BY <1>2, <1>3, <1>4, <1>5

(* Every step is a step of the service, or hidden from it.                 *)
LEMMA Simulation ==
    ASSUME MaxStarts = 0, DependencyInv, TokenInv, DepsLower, CalmInv, ErrorTrue, [Next]_vars
    PROVE  [Service!Next]_Service!svars
<1>1. CASE UNCHANGED vars
  <2>1. Stays /\ NeedsKept /\ completed' = completed
    BY <1>1 DEF Stays, Phase, NeedsKept, vars, jvars, wvars, locals, hvars
  <2> QED BY <2>1, Hidden
<1>2. CASE ClientStep
  BY <1>2, SimClient
<1>3. ASSUME NEW w \in Workers, WorkerStep(w) PROVE [Service!Next]_Service!svars
  BY <1>3, SimDeps, SimWork DEF WorkerStep
<1>4. ASSUME NEW w \in Workers, ParentStep(w) \/ Crash(w) PROVE [Service!Next]_Service!svars
  BY <1>4, SimParent
<1> QED BY <1>1, <1>2, <1>3, <1>4 DEF Next

-----------------------------------------------------------------------------
(* An ERROR is true.                                                       *)

(* In the service a failure is final.                                      *)
LEMMA FailedStays ==
    ASSUME [Service!Next]_Service!svars, NEW j \in JobIds, Failed(j)
    PROVE  Failed(j)'
<1> DEFINE phase == [i \in JobIds |-> Phase(i)]
<1>1. phase[j] = "ended" /\ j \notin completed
  BY DEF Failed
<1>2. phase'[j] = "ended" /\ j \notin completed'
  <2>1. CASE UNCHANGED Service!svars
    <3>1. phase' = phase /\ completed' = completed
      BY <2>1 DEF Service!svars
    <3> QED BY <1>1, <3>1
  <2>2. ASSUME NEW k \in JobIds, NEW p, phase[k] # "ended", phase' = [phase EXCEPT ![k] = p],
               completed' \in {completed, completed \cup {k}}
        PROVE  phase'[j] = "ended" /\ j \notin completed'
    <3>1. j # k
      BY <1>1, <2>2
    <3>2. phase'[j] = phase[j]
      <4> HIDE DEF phase
      <4>1. \A f : [f EXCEPT ![k] = p][j] = f[j] \/ j \notin DOMAIN f
        BY <3>1
      <4>2. DOMAIN phase = JobIds
        BY DEF phase
      <4> QED BY <2>2, <4>1, <4>2
    <3> QED BY <1>1, <2>2, <3>1, <3>2
  <2>3. CASE Service!Next
    <3>1. PICK k \in JobIds : Service!Step(k) \/ Service!Lose(k) \/ \E D \in SUBSET JobIds : Service!Submit(k, D)
      BY <2>3 DEF Service!Next
    <3>2. \E p : phase[k] # "ended" /\ phase' = [phase EXCEPT ![k] = p] /\ completed' \in {completed, completed \cup {k}}
      <4>1. CASE Service!Begin(k)
        BY <4>1 DEF Service!Begin, Service!To
      <4>2. CASE Service!Finish(k)
        BY <4>2 DEF Service!Finish, Service!To
      <4>3. CASE Service!Refuse(k)
        BY <4>3 DEF Service!Refuse, Service!To
      <4>4. CASE Service!Lose(k)
        BY <4>4 DEF Service!Lose, Service!To
      <4>5. ASSUME NEW D, Service!Submit(k, D)
            PROVE  \E p : phase[k] # "ended" /\ phase' = [phase EXCEPT ![k] = p] /\ completed' \in {completed, completed \cup {k}}
        BY <4>5 DEF Service!Submit, Service!To
      <4> QED BY <3>1, <4>1, <4>2, <4>3, <4>4, <4>5 DEF Service!Step
    <3> QED BY <2>2, <3>2
  <2> QED BY <2>1, <2>3
<1>3. phase'[j] = Phase(j)'
  OBVIOUS
<1> QED BY <1>2, <1>3 DEF Failed

(* An execution that just failed dooms the job.                            *)
LEMMA NewFailure ==
    ASSUME NEW k \in JobIds, Failed(k)'
    PROVE  k \in Doomed'
<1>1. \A T : Closed(T)' => k \in T
  BY DEF Closed
<1> QED BY <1>1 DEF Doomed

(* A write of a record that is not a false ERROR.                          *)
LEMMA ErrorWrite ==
    ASSUME TypeOK, ErrorTrue, Doomed \subseteq Doomed', NEW id \in JobIds, NEW rec,
           Write(id, rec), rec.state = "ERROR" => id \in Doomed'
    PROVE  \A j \in JobIds : jobs'[j].state = "ERROR" => j \in Doomed'
  BY DEF Write, ErrorTrue, TypeOK, StoreType

(* A save of such a record.                                                *)
LEMMA ErrorSave ==
    ASSUME TypeOK, ErrorTrue, Doomed \subseteq Doomed', NEW id \in JobIds, NEW rec,
           Save(id, rec), rec.state = "ERROR" => id \in Doomed'
    PROVE  \A j \in JobIds : jobs'[j].state = "ERROR" => j \in Doomed'
  BY ErrorWrite DEF Save

(* schedule() saves the record as NEW.                                     *)
LEMMA ErrorSchedule ==
    ASSUME DependencyInv, TokenInv, ErrorTrue, Doomed \subseteq Doomed', ScheduleStep
    PROVE  ErrorTrue'
<1> USE DEF DependencyInv
<1>1. UNCHANGED <<pc, cur, cl>> /\ finished' \subseteq finished
  <2>1. finished' \subseteq finished
    BY DEF ScheduleStep, ScheduleDelete, ScheduleNew, ScheduleSave, SchedulePut, ScheduleEnd, Abandon, hvars
  <2> QED BY <2>1, ScheduleNeeds DEF wvars, locals
<1>2. ASSUME NEW id \in JobIds, NEW rec, Write(id, rec), rec.state = "NEW"
      PROVE  \A j \in JobIds : jobs'[j].state = "ERROR" => j \in Doomed'
  BY <1>2, ErrorWrite
<1>3. \A j \in JobIds : jobs'[j].state = "ERROR" => j \in Doomed'
  <2>1. CASE jobs' = jobs
    BY <2>1 DEF ErrorTrue
  <2>2. ASSUME NEW n, NEW D, NEW Q, ScheduleNew(n, D, Q)
        PROVE  \A j \in JobIds : jobs'[j].state = "ERROR" => j \in Doomed'
    BY <1>2, <2>2 DEF ScheduleNew, NewJob
  <2>3. ASSUME NEW j \in JobIds, NEW t, ScheduleSave(j, t)
        PROVE  \A k \in JobIds : jobs'[k].state = "ERROR" => k \in Doomed'
    <3> DEFINE rec == [draft[j] EXCEPT !.timeout = @ \/ t]
    <3>1. j \in making /\ (jobs' = jobs \/ Write(j, rec))
      BY <2>3 DEF ScheduleSave, Abandon
    <3>2. draft[j] \in JobRec /\ draft[j].state = "NEW"
      BY <3>1 DEF DepsInv, SavedTrue, TypeOK, StoreType
    <3>3. rec.state = "NEW"
      BY <3>2 DEF JobRec
    <3> QED BY <1>2, <2>1, <3>1, <3>3
  <2> QED BY <2>1, <2>2, <2>3 DEF ScheduleStep, ScheduleDelete, SchedulePut, ScheduleEnd, Abandon
<1>4. \A w \in Workers : pc[w] = "deps" => jobs'[cur[w]].deps = jobs[cur[w]].deps
  <2>1. \A w \in Workers : pc[w] = "deps" => cur[w] \in JobIds /\ cur[w] # nextId
    BY QueueFacts DEF DepsInv, IdsUsed, TypeOK, ProcType
  <2>2. ASSUME NEW n, NEW D, NEW Q, ScheduleNew(n, D, Q) PROVE \A j \in JobIds : j # nextId => jobs'[j] = jobs[j]
    BY <2>2 DEF ScheduleNew, Write, TypeOK, StoreType
  <2> QED BY <2>1, <2>2, ScheduleNeeds DEF NeedsKept
<1>5. \A w \in Workers : pc'[w] = "deps" /\ cur'[w] \in finished' => \E d \in jobs'[cur'[w]].deps : d \in Doomed'
  BY <1>1, <1>4 DEF ErrorTrue
<1> QED BY <1>1, <1>3, <1>5 DEF ErrorTrue

(* Clients copy records, and save them with the state they found.          *)
LEMMA ErrorClient ==
    ASSUME MaxStarts = 0, DependencyInv, TokenInv, ErrorTrue, Doomed \subseteq Doomed', ClientStep
    PROVE  ErrorTrue'
<1> USE DEF DependencyInv
<1>1. ASSUME \E c \in Clients : CheckReady(c) \/ \E j \in JobIds : CheckLoad(c, j) PROVE UNCHANGED <<pc, cur, finished>>
  BY <1>1 DEF CheckLoad, CheckReady, Answer, wvars, locals, hvars
<1>2. CASE ScheduleStep
  BY <1>2, ErrorSchedule
<1>3. ASSUME NEW k, Start(k) PROVE FALSE
  BY <1>3 DEF Start, TypeOK, HistoryType
<1>4. ASSUME NEW c \in Clients, NEW j \in JobIds, CheckLoad(c, j) PROVE ErrorTrue'
  <2>1. cl' = [cl EXCEPT ![c] = [pc |-> "loaded", id |-> j, copy |-> jobs[j]]] /\ jobs' = jobs
    BY <1>4 DEF CheckLoad, jvars
  <2>2. \A b \in Clients : cl'[b] = IF b = c THEN [pc |-> "loaded", id |-> j, copy |-> jobs[j]] ELSE cl[b]
    BY <2>1 DEF TypeOK, OthersType
  <2>3. \A b \in Clients : cl'[b].pc = "loaded" /\ cl'[b].copy.state = "ERROR" => cl'[b].id \in Doomed'
    BY <2>2 DEF ErrorTrue
  <2> QED BY <1>1, <1>4, <2>1, <2>3 DEF ErrorTrue
<1>5. ASSUME NEW c \in Clients, CheckReady(c) PROVE ErrorTrue'
  <2> DEFINE job == cl[c].copy
  <2>1. job \in JobRec /\ cl[c].id \in JobIds /\ cl[c].pc = "loaded"
    BY <1>5 DEF CheckReady, TypeOK, OthersType
  <2>2. \A e \in {"ERROR", "TIMEOUT"} : [job EXCEPT !.error_cat = e].state = job.state
    BY <2>1 DEF JobRec
  <2>3. \E rec, ready : rec.state = job.state /\ Answer(c, rec, ready)
    BY <1>5, <2>2 DEF CheckReady
  <2>4. PICK rec, ready : rec.state = job.state /\ Answer(c, rec, ready)
    BY <2>3
  <2>5. Save(cl[c].id, rec) \/ UNCHANGED jvars
    BY <2>4 DEF Answer
  <2>6. \A j \in JobIds : jobs'[j].state = "ERROR" => j \in Doomed'
    <3>1. CASE UNCHANGED jvars
      BY <3>1 DEF ErrorTrue, jvars
    <3>2. rec.state = "ERROR" => cl[c].id \in Doomed'
      BY <2>1, <2>4 DEF ErrorTrue
    <3> QED BY <2>1, <2>5, <3>1, <3>2, ErrorSave
  <2>7. \A b \in Clients : cl'[b].pc = "loaded" => cl'[b] = cl[b]
    BY <2>4 DEF Answer, Away, TypeOK, OthersType
  <2>8. \A w \in Workers : pc[w] = "deps" => jobs'[cur[w]].deps = jobs[cur[w]].deps
    BY <1>5, WaiterNeeds DEF NeedsKept, TypeOK, ProcType
  <2>9. \A w \in Workers : pc'[w] = "deps" /\ cur'[w] \in finished' => \E d \in jobs'[cur'[w]].deps : d \in Doomed'
    BY <1>1, <1>5, <2>8 DEF ErrorTrue
  <2> QED BY <2>6, <2>7, <2>9 DEF ErrorTrue
<1> QED BY <1>2, <1>3, <1>4, <1>5 DEF ClientStep, ScheduleStep

(* What a step about a worker has to provide.                              *)
LEMMA ErrorHand ==
    ASSUME DependencyInv, TokenInv, ErrorTrue, Doomed \subseteq Doomed', NeedsKept, NEW w \in Workers, Only(w), cl' = cl,
           \A j \in finished' \ finished : j = cur[w],
           \A j \in JobIds : jobs'[j].state = "ERROR" => j \in Doomed',
           pc'[w] = "deps" /\ cur'[w] \in finished' => \E d \in jobs'[cur'[w]].deps : d \in Doomed'
    PROVE  ErrorTrue'
<1> USE DEF DependencyInv
<1>1. ASSUME NEW v \in Workers, v # w, pc'[v] = "deps", cur'[v] \in finished' PROVE \E d \in jobs'[cur'[v]].deps : d \in Doomed'
  <2>1. pc[v] = "deps" /\ cur'[v] = cur[v] /\ cur[v] \in JobIds
    BY <1>1 DEF Only, TypeOK, ProcType
  <2>2. cur[v] # cur[w]
    BY <1>1, <2>1, QueueFacts DEF TokenInv, Sole
  <2>3. \E d \in jobs[cur[v]].deps : d \in Doomed
    BY <1>1, <2>1, <2>2 DEF ErrorTrue
  <2> QED BY <2>1, <2>3 DEF NeedsKept
<1>2. \A v \in Workers : pc'[v] = "deps" /\ cur'[v] \in finished' => \E d \in jobs'[cur'[v]].deps : d \in Doomed'
  BY <1>1
<1>3. \A c \in Clients : cl'[c].pc = "loaded" /\ cl'[c].copy.state = "ERROR" => cl'[c].id \in Doomed'
  BY DEF ErrorTrue
<1> QED BY <1>2, <1>3 DEF ErrorTrue

(* A worker saves an ERROR when a dependency is doomed, or when it ran the *)
(* job and it failed.                                                      *)
LEMMA ErrorWorker ==
    ASSUME DependencyInv, TokenInv, LossInv, DepsLower, ErrorTrue, Doomed \subseteq Doomed',
           NEW w \in Workers, WorkerStep(w) \/ ParentStep(w) \/ Crash(w)
    PROVE  ErrorTrue'
<1> USE DEF DependencyInv
<1>1. NeedsKept /\ cl' = cl
  BY WorkerNeeds DEF WorkerStep, ProcStart, Get, Reload, Idle, Load, CheckDep, Relaunch, Skip, Busy, RunOk, RunError,
       RunTimeout, Outcome, Post, Again, ParentStep, WorkersLoad, SoftStop, HardStop, Restart, TmuxStart, StateUpdate,
       WorkersCheck, Crash
<1>2. ASSUME jobs' = jobs PROVE \A j \in JobIds : jobs'[j].state = "ERROR" => j \in Doomed'
  BY <1>2 DEF ErrorTrue
<1>3. ASSUME NEW where \in {"get", "dead", "down", "halted", "boot"}, End(w, where), jobs' = jobs PROVE ErrorTrue'
  <2>1. Only(w) /\ pc'[w] # "deps" /\ finished' = finished
    BY <1>3, EndEffect
  <2> QED BY <1>1, <1>2, <1>3, <2>1, ErrorHand
<1>4. CASE ProcStart(w) \/ Get(w) \/ Idle(w) \/ Skip(w) \/ Busy(w) \/ (\E q \in QNames : Post(w, q)) \/ Again(w)
  <2>1. Only(w) /\ pc'[w] \in {"get", "reload", "run", "post"} /\ finished' = finished /\ jobs' = jobs
    <3>1. finished' = finished /\ jobs' = jobs
      BY <1>4 DEF ProcStart, Get, Idle, Skip, Busy, Post, Again, jvars, hvars
    <3>2. Only(w) /\ pc'[w] \in {"get", "reload", "run", "post"}
      BY <1>4, LeaveEffect DEF ProcStart, Get, Idle, Skip, Busy, Post, Again, Goto, Only, TypeOK, ProcType, locals
    <3> QED BY <3>1, <3>2
  <2> QED BY <1>1, <1>2, <2>1, ErrorHand
<1>5. CASE Reload(w) \/ Load(w)
  <2>1. jobs' = jobs
    BY <1>5 DEF Reload, Load, jvars
  <2>2. CASE End(w, "halted") \/ End(w, "get")
    BY <1>3, <2>1, <2>2
  <2>3. CASE ~(End(w, "halted") \/ End(w, "get"))
    <3>1. /\ Only(w) /\ UNCHANGED <<cur, finished>>
          /\ pc'[w] \in {"idle", "load"} \/ (pc[w] = "load" /\ pc'[w] = "deps")
      BY <1>5, <2>3 DEF Reload, Load, Goto, Only, TypeOK, ProcType, hvars
    <3>2. pc[w] = "load" => cur[w] \notin finished
      BY DEF TokenInv, Undelivered, Pending
    <3> QED BY <1>1, <1>2, <2>1, <3>1, <3>2, ErrorHand
  <2> QED BY <2>2, <2>3
<1>6. CASE CheckDep(w)
  <2>1. pc[w] = "deps" /\ cur[w] \in JobIds
    BY <1>6 DEF CheckDep, TypeOK, ProcType
  <2>2. CASE End(w, "dead")
    <3>1. jobs' = jobs
      <4>1. pc' # pc
        BY <2>1, <2>2, EndEffect
      <4> QED BY <1>6, <4>1 DEF CheckDep, DepFailed, DepPending, DepDone, jvars
    <3> QED BY <1>3, <2>2, <3>1
  <2>3. CASE ~End(w, "dead")
    <3>1. PICK d \in todo[w] : DepFailed(w, d) \/ DepPending(w, d) \/ DepDone(w, d)
      BY <1>6, <2>3 DEF CheckDep
    <3>2. Only(w) /\ UNCHANGED <<pc, cur>>
      BY <2>3, <3>1 DEF DepFailed, DepPending, DepDone, Only, TypeOK, ProcType
    <3>3. d \in jobs[cur[w]].deps /\ d < cur[w] /\ d \in JobIds
      BY <2>1 DEF DepsLower, DepsInv, CopyTrue, IdsUsed, TypeOK, ProcType
    <3>4. CASE DepFailed(w, d)
      <4>1. /\ jobs[d].state = "ERROR" /\ finished' = finished \cup {cur[w]}
            /\ Save(cur[w], [copy[w] EXCEPT !.state = "ERROR", !.stopped = TRUE])
        BY <2>3, <3>4 DEF DepFailed
      <4>2. d \in Doomed
        BY <3>3, <4>1 DEF ErrorTrue
      <4>3. cur[w] \in Doomed
        BY <2>1, <3>3, <4>2, DoomedUp
      <4>4. \A j \in JobIds : jobs'[j].state = "ERROR" => j \in Doomed'
        BY <2>1, <4>1, <4>3, ErrorSave
      <4>5. \E e \in jobs'[cur'[w]].deps : e \in Doomed'
        BY <1>1, <2>1, <3>2, <3>3, <4>2 DEF NeedsKept
      <4> QED BY <1>1, <3>2, <4>1, <4>4, <4>5, ErrorHand
    <3>5. CASE ~DepFailed(w, d)
      <4>1. jobs' = jobs /\ finished' = finished
        BY <3>1, <3>5 DEF DepPending, DepDone, jvars, hvars
      <4>2. cur[w] \in finished => \E e \in jobs'[cur[w]].deps : e \in Doomed'
        BY <2>1, <4>1 DEF ErrorTrue
      <4> QED BY <1>1, <1>2, <3>2, <4>1, <4>2, ErrorHand
    <3> QED BY <3>4, <3>5
  <2> QED BY <2>2, <2>3
<1>7. CASE Relaunch(w)
  <2>1. pc[w] = "deps" /\ cur[w] \in JobIds /\ [copy[w] EXCEPT !.state = "NEW"].state = "NEW"
    BY <1>7 DEF Relaunch, TypeOK, ProcType, JobRec
  <2>2. CASE End(w, "dead") /\ UNCHANGED jvars
    BY <1>3, <2>2 DEF jvars
  <2>3. CASE ~(End(w, "dead") /\ UNCHANGED jvars)
    <3>1. Save(cur[w], [copy[w] EXCEPT !.state = "NEW"]) /\ Leave(w, "get") /\ finished' = finished \ {cur[w]}
      BY <1>7, <2>3 DEF Relaunch
    <3>2. \A j \in JobIds : jobs'[j].state = "ERROR" => j \in Doomed'
      BY <2>1, <3>1, ErrorSave
    <3>3. Only(w) /\ pc'[w] = "get"
      BY <3>1, LeaveEffect
    <3> QED BY <1>1, <3>1, <3>2, <3>3, ErrorHand
  <2> QED BY <2>2, <2>3
<1>8. CASE RunOk(w) \/ RunError(w) \/ RunTimeout(w)
  <2>1. PICK rec \in JobRec : Outcome(w, rec)
    BY <1>8, RunType
  <2>2. nextId' = nextId /\ pc[w] = "run" /\ cur[w] \in JobIds
    BY <2>1, OutcomeEffect
  <2>3. CASE End(w, "dead") /\ UNCHANGED jvars
    BY <1>3, <2>3 DEF jvars
  <2>4. CASE ~(End(w, "dead") /\ UNCHANGED jvars)
    <3>1. /\ Only(w) /\ pc'[w] = "post" /\ UNCHANGED <<cur, dropped>> /\ finished' = finished \cup {cur[w]}
          /\ completed' = (IF rec.state = "OK" THEN completed \cup {cur[w]} ELSE completed)
          /\ Save(cur[w], rec)
      BY <2>1, <2>4 DEF Outcome, Goto, Only, TypeOK, ProcType
    <3>2. PICK k \in JobIds : k = cur[w]
      BY <2>2
    <3>3. Phase(k)' = "ended" /\ k \notin completed
      BY <2>2, <3>1, <3>2, PhaseNext DEF TokenInv, Undelivered, Open, Pending
    <3>4. rec.state = "ERROR" => Failed(k)'
      BY <3>1, <3>3 DEF Failed
    <3>5. rec.state = "ERROR" => cur[w] \in Doomed'
      BY <3>2, <3>4, NewFailure
    <3>6. \A j \in JobIds : jobs'[j].state = "ERROR" => j \in Doomed'
      BY <2>2, <3>1, <3>5, ErrorSave
    <3> QED BY <1>1, <3>1, <3>6, ErrorHand
  <2> QED BY <2>3, <2>4
<1>9. CASE ParentStep(w) \/ Crash(w)
  <2>1. jobs' = jobs
    BY <1>9 DEF ParentStep, WorkersLoad, SoftStop, HardStop, Restart, TmuxStart, StateUpdate, WorkersCheck, Crash, jvars
  <2>2. (\E where \in {"dead", "down", "boot"} : End(w, where)) \/ UNCHANGED <<pc, locals, hvars>>
    BY <1>9 DEF ParentStep, WorkersLoad, SoftStop, HardStop, Restart, TmuxStart, StateUpdate, WorkersCheck, Crash, wvars
  <2>3. CASE UNCHANGED <<pc, locals, hvars>>
    BY <1>1, <2>1, <2>3 DEF ErrorTrue, locals, hvars
  <2> QED BY <1>3, <2>1, <2>2, <2>3
<1> QED BY <1>4, <1>5, <1>6, <1>7, <1>8, <1>9 DEF WorkerStep

(* The invariant holds initially and every step keeps it: what the steps   *)
(* of the service keep is part of the argument.                            *)
LEMMA ErrorInductive == ASSUME MaxStarts = 0 PROVE Spec => []ErrorTrue
<1>1. Init => ErrorTrue
  BY DEF Init, ErrorTrue, BlankJob, NewJob, Away
<1>2. DependencyInv /\ TokenInv /\ LossInv /\ DepsLower /\ CalmInv /\ ErrorTrue /\ [Next]_vars => ErrorTrue'
  <2> SUFFICES ASSUME DependencyInv, TokenInv, LossInv, DepsLower, CalmInv, ErrorTrue, [Next]_vars PROVE ErrorTrue'
    OBVIOUS
  <2>1. [Service!Next]_Service!svars
    BY Simulation
  <2>2. \A j \in JobIds : Failed(j) => Failed(j)'
    BY <2>1, FailedStays
  <2>3. \A j \in JobIds : jobs[j].deps \subseteq jobs'[j].deps
    <3>1. CASE NeedsKept
      BY <3>1 DEF NeedsKept
    <3>2. CASE UNCHANGED vars
      BY <3>2 DEF vars, jvars
    <3>3. ASSUME NEW n, NEW D, NEW Q, ScheduleNew(n, D, Q) PROVE \A j \in JobIds : jobs[j].deps \subseteq jobs'[j].deps
      <4>1. nextId \in JobIds /\ jobs[nextId].deps = {}
        BY <3>3, QueueFacts DEF ScheduleNew, DepsLower, DependencyInv
      <4>2. \A j \in JobIds : j # nextId => jobs'[j] = jobs[j]
        BY <3>3 DEF ScheduleNew, Write, DependencyInv, TypeOK, StoreType
      <4> QED BY <4>1, <4>2
    <3>4. ASSUME NEW j, Start(j) \/ \E c \in Clients : CheckLoad(c, j) PROVE NeedsKept
      BY <3>4 DEF Start, CheckLoad, jvars, NeedsKept
    <3> QED BY <3>1, <3>2, <3>3, <3>4, ScheduleNeeds, WaiterNeeds, WorkerNeeds DEF Next, ClientStep, ScheduleStep
  <2>4. Doomed \subseteq Doomed'
    BY <2>2, <2>3, DoomedStays
  <2>5. CASE UNCHANGED vars
    BY <2>4, <2>5 DEF ErrorTrue, vars, jvars, wvars, locals, hvars
  <2> QED BY <2>4, <2>5, ErrorClient, ErrorWorker DEF Next
<1> QED BY <1>1, <1>2, DependencyInductive, TokenInductive, LossInductive, LowerInductive, CalmInductive, PTL DEF Spec

(* Whatever workers crash, are stopped, restarted or declared dead in the  *)
(* middle of a job, and however old the copies are that they save, a job   *)
(* goes through the phases of the service: one execution, after its        *)
(* dependencies, and one final end (MyWorkerProcess.start), for any number *)
(* of jobs, workers, clients, names and faults, as long as nobody calls    *)
(* start() on a job that was scheduled.                                    *)
THEOREM ImplementsService == ASSUME MaxStarts = 0 PROVE Spec => ServesJobs
<1>1. Init => Service!Init
  <2> SUFFICES ASSUME Init PROVE Service!Init
    OBVIOUS
  <2>1. \A j \in JobIds : Phase(j) = "absent"
    BY DEF Init, Phase, JobIds
  <2>2. [j \in JobIds |-> Phase(j)] = [j \in JobIds |-> "absent"]
    BY <2>1
  <2>3. [j \in JobIds |-> jobs[j].deps] = [j \in JobIds |-> {}]
    BY DEF Init, BlankJob, NewJob
  <2> QED BY <2>2, <2>3 DEF Service!Init, Init
<1>2. DependencyInv /\ TokenInv /\ DepsLower /\ CalmInv /\ ErrorTrue /\ [Next]_vars => [Service!Next]_Service!svars
  BY Simulation
<1> QED BY <1>1, <1>2, DependencyInductive, TokenInductive, LowerInductive, CalmInductive, ErrorInductive, PTL
        DEF Spec, ServesJobs, Service!Spec
=============================================================================
