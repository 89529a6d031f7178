------------------------ MODULE MyJobsDeliveryProofs ------------------------
(* What becomes of the deliveries of a job, for any set of workers, any    *)
(* number of jobs, calls of start(), faults and restarts: none is lost     *)
(* silently, none is executed twice, and none posts its result twice.      *)
EXTENDS MyJobsProofs, FiniteSetTheorems

(* A worker that is still going to do something about the job it popped.   *)
(* One that skips the job because a dependency failed is not: it only has  *)
(* to go back to the queue.                                                *)
Firm(w) == pc[w] \in Pending /\ ~(pc[w] = "deps" /\ skip[w] /\ ~relaunch[w])

Queued(j) == \E i \in 1..Len(queue) : queue[i] = j

Accounted(j) ==
    \/ j \in finished \cup dropped \cup making
    \/ Queued(j)
    \/ \E w \in Workers : Firm(w) /\ cur[w] = j

(* skip and relaunch are set by the loop over the dependencies only.       *)
FlagsClear ==
    \A w \in Workers : pc[w] \in {"boot", "get", "reload", "load"} => ~skip[w] /\ ~relaunch[w]

LossInv == FlagsClear /\ \A j \in JobIds : j < nextId => Accounted(j)

(* Occurrences of an id in a list, and the workers that have popped it and *)
(* have not begun to execute it.  A delivery is with the schedule() that   *)
(* is going to put it, on the queue or in the hand of a worker.            *)
One(b) == IF b THEN 1 ELSE 0
Occ(s, j) == {i \in 1..Len(s) : s[i] = j}
Takers(j) == {w \in Workers : cur[w] = j /\ pc[w] \in {"reload", "load", "deps"}}

OnceInv ==
    \A j \in JobIds :
        /\ j >= nextId => runs[j] = 0
        /\ IsFiniteSet(Takers(j))
        /\ j < nextId => runs[j] + Cardinality(Occ(queue, j)) + Cardinality(Takers(j)) + One(j \in making) <= 1 + starts

(* Workers that execute j or still have to post its result on q.           *)
Posters(q, j) ==
    {w \in Workers : cur[w] = j /\ (pc[w] = "run" \/ (pc[w] = "post" /\ q \in posts[w]))}

PostInv ==
    \A q \in QNames, j \in JobIds :
        /\ IsFiniteSet(Posters(q, j))
        /\ Cardinality(Occ(results[q], j)) + Cardinality(Posters(q, j)) <= runs[j]
-----------------------------------------------------------------------------
(* A step of a worker, or of the parent about it, changes no other worker. *)
Only(w) ==
    \A v \in Workers \ {w} :
        /\ pc'[v] = pc[v] /\ cur'[v] = cur[v] /\ posts'[v] = posts[v]
        /\ skip'[v] = skip[v] /\ relaunch'[v] = relaunch[v]

(* Leaving the loop body changes the process of one worker only.           *)
LEMMA LeaveEffect ==
    ASSUME TypeOK, NEW w \in Workers, NEW where, Leave(w, where)
    PROVE  /\ Only(w)
           /\ pc'[w] = where /\ cur'[w] = NoId /\ ~skip'[w] /\ ~relaunch'[w] /\ posts'[w] = {}
  BY DEF TypeOK, ProcType, Leave, Goto, Only

(* A process that ends leaves the job it held with an outcome or dropped.  *)
LEMMA EndEffect ==
    ASSUME TypeOK, NEW w \in Workers, NEW where, End(w, where)
    PROVE  /\ Only(w)
           /\ pc'[w] = where /\ cur'[w] = NoId /\ ~skip'[w] /\ ~relaunch'[w] /\ posts'[w] = {}
           /\ UNCHANGED <<completed, finished, runs>>
           /\ dropped' = dropped \cup (Held(w) \ finished)
  BY LeaveEffect DEF End, Drop

(* A running worker's action ends in an outcome, or in an exception of the *)
(* save that ends the process.                                             *)
LEMMA OutcomeEffect ==
    ASSUME TypeOK, NEW w \in Workers, NEW rec \in JobRec, Outcome(w, rec)
    PROVE  /\ UNCHANGED <<queue, results, starts, nextId, making>>
           /\ pc[w] = "run" /\ cur[w] \in JobIds
           /\ \/ End(w, "dead")
              \/ /\ Only(w) /\ pc'[w] = "post" /\ posts'[w] = rec.rqs
                 /\ UNCHANGED <<cur, skip, relaunch, dropped, runs>>
                 /\ finished' = finished \cup {cur[w]}
<1>1. cur[w] \in JobIds
  BY DEF Outcome, TypeOK, ProcType
<1> QED BY <1>1 DEF Outcome, Save, Goto, Only, TypeOK, ProcType, jvars

-----------------------------------------------------------------------------
(* No silent loss.                                                         *)

(* What a step about worker w has to provide to keep LossInv.              *)
LEMMA LossStep ==
    ASSUME LossInv, NEW w \in Workers, Only(w), UNCHANGED <<nextId, making>>, dropped \subseteq dropped',
           \A j \in finished \ finished' : Queued(j)',
           \A j \in JobIds : Queued(j) => Queued(j)' \/ (Firm(w)' /\ cur'[w] = j),
           \A j \in JobIds : Firm(w) /\ cur[w] = j =>
             (Firm(w)' /\ cur'[w] = j) \/ j \in finished' \cup dropped' \/ Queued(j)',
           pc'[w] \in {"boot", "get", "reload", "load"} => ~skip'[w] /\ ~relaunch'[w]
    PROVE  LossInv'
<1>1. FlagsClear'
  BY DEF LossInv, FlagsClear, Only
<1>2. ASSUME NEW j \in JobIds, j < nextId PROVE Accounted(j)'
  <2>1. Accounted(j)
    BY <1>2 DEF LossInv
  <2>2. CASE j \in finished \cup dropped \cup making \/ Queued(j)
    BY <2>2 DEF Accounted
  <2>3. ASSUME NEW v \in Workers, Firm(v), cur[v] = j PROVE Accounted(j)'
    <3>1. CASE v = w
      BY <1>2, <2>3, <3>1 DEF Accounted
    <3>2. CASE v # w
      <4>1. Firm(v)' /\ cur'[v] = j
        BY <2>3, <3>2 DEF Only, Firm
      <4> QED BY <4>1 DEF Accounted
    <3> QED BY <3>1, <3>2
  <2> QED BY <2>1, <2>2, <2>3 DEF Accounted
<1> QED BY <1>1, <1>2 DEF LossInv

(* The queue as it is, and one more id.                                    *)
LEMMA QueuedAppend ==
    ASSUME queue \in Seq(JobIds), NEW k \in JobIds, queue' = Append(queue, k)
    PROVE  Queued(k)' /\ \A j \in JobIds : Queued(j) => Queued(j)'
<1>1. Len(queue') = Len(queue) + 1 /\ Len(queue) \in Nat /\ queue'[Len(queue) + 1] = k
  OBVIOUS
<1>2. \A i \in 1..Len(queue) : queue'[i] = queue[i]
  OBVIOUS
<1>3. Queued(k)'
  BY <1>1 DEF Queued
<1>4. \A j \in JobIds : Queued(j) => Queued(j)'
  BY <1>1, <1>2 DEF Queued
<1> QED BY <1>3, <1>4

(* The end of a process, or the return to the loop with the job finished.  *)
LEMMA LossEnd ==
    ASSUME TypeOK, LossInv, NEW w \in Workers, NEW where, End(w, where), UNCHANGED <<queue, nextId, making>>
    PROVE  LossInv'
<1>1. \A j : Queued(j)' <=> Queued(j)
  BY DEF Queued
<1>2. \A j \in JobIds : Firm(w) /\ cur[w] = j => j \in finished' \cup dropped'
  BY EndEffect DEF Firm, Held, NoId, JobIds
<1> QED BY <1>1, <1>2, EndEffect, LossStep

(* Steps of clients that take no delivery away from anybody.               *)
LEMMA LossSame ==
    ASSUME LossInv, UNCHANGED <<pc, cur, skip, relaunch>>,
           \A j \in JobIds : j < nextId' => j < nextId \/ j \in making',
           finished \cup dropped \subseteq finished' \cup dropped' \cup making',
           \A j \in making : j \in finished' \cup dropped' \cup making' \/ Queued(j)',
           \A j \in JobIds : Queued(j) => Queued(j)'
    PROVE  LossInv'
<1>1. \A w \in Workers : Firm(w)' <=> Firm(w)
  BY DEF Firm
<1>2. \A j \in JobIds : j \in making' \/ Accounted(j) => Accounted(j)'
  BY <1>1 DEF Accounted
<1> QED BY <1>2 DEF LossInv, FlagsClear

(* A name is freed, and the record of a new job is saved.                  *)
LEMMA LossDelete ==
    ASSUME TypeOK, LossInv, NEW n, NEW D, NEW Q, ScheduleDelete(n) \/ ScheduleNew(n, D, Q)
    PROVE  LossInv'
<1>1. UNCHANGED <<pc, cur, skip, relaunch>>
  BY DEF ScheduleDelete, ScheduleNew, wvars, locals
<1>2. CASE ScheduleDelete(n)
  <2>1. UNCHANGED <<queue, nextId, making, finished, dropped>>
    BY <1>2 DEF ScheduleDelete, hvars
  <2> QED BY <1>1, <2>1, LossSame DEF Queued
<1>3. CASE ScheduleNew(n, D, Q)
  <2>1. /\ nextId' = nextId + 1 /\ making' = making \cup {nextId} /\ nextId \in Nat
        /\ UNCHANGED <<queue, finished, dropped>>
    BY <1>3 DEF ScheduleNew, hvars, TypeOK, StoreType
  <2>2. \A k \in JobIds : k < nextId' => k < nextId \/ k \in making'
    BY <2>1 DEF JobIds
  <2> QED BY <1>1, <2>1, <2>2, LossSame DEF Queued
<1> QED BY <1>2, <1>3

(* Scheduling a job: the delivery is with schedule() until it is on the    *)
(* queue, or given up.                                                     *)
LEMMA LossSchedule ==
    ASSUME TypeOK, LossInv, NEW j \in JobIds, NEW t,
           ScheduleSave(j, t) \/ SchedulePut(j) \/ ScheduleEnd(j)
    PROVE  LossInv'
<1>1. UNCHANGED <<pc, cur, skip, relaunch>>
  BY DEF ScheduleSave, SchedulePut, ScheduleEnd, wvars, locals
<1>2. CASE Abandon(j) /\ queue' = queue
  <2>1. making' = making \ {j} /\ UNCHANGED <<nextId, finished>> /\ dropped' = dropped \cup ({j} \ finished)
    BY <1>2 DEF Abandon, Release
  <2> QED BY <1>1, <1>2, <2>1, LossSame DEF Queued
<1>3. CASE ScheduleSave(j, t) /\ ~Abandon(j)
  <2>1. /\ j \in making /\ finished' = finished \ {j} /\ UNCHANGED <<queue, nextId, making, dropped>>
    BY <1>3 DEF ScheduleSave
  <2> QED BY <1>1, <2>1, LossSame DEF Queued
<1>4. CASE SchedulePut(j)
  <2>1. /\ making' = making \ {j} /\ queue' = Append(queue, j) /\ UNCHANGED <<nextId, finished, dropped>>
    BY <1>4 DEF SchedulePut, Release, hvars
  <2>2. Queued(j)' /\ \A k \in JobIds : Queued(k) => Queued(k)'
    BY <2>1, QueuedAppend DEF TypeOK, StoreType
  <2> QED BY <1>1, <2>1, <2>2, LossSame
<1> QED BY <1>2, <1>3, <1>4 DEF ScheduleSave, ScheduleEnd

(* start() puts a known job on the queue; waiters put nothing.             *)
LEMMA LossClient ==
    ASSUME TypeOK, LossInv, ClientStep
    PROVE  LossInv'
<1>1. ASSUME NEW k \in JobIds, Start(k) PROVE LossInv'
  <2>1. queue' = Append(queue, k) /\ UNCHANGED <<nextId, making, pc, cur, skip, relaunch, finished, dropped>>
    BY <1>1 DEF Start, jvars, wvars, locals, hvars
  <2>2. \A j \in JobIds : Queued(j) => Queued(j)'
    BY <2>1, QueuedAppend DEF TypeOK, StoreType
  <2> QED BY <2>1, <2>2, LossSame
<1>2. CASE UNCHANGED <<nextId, making, queue, pc, cur, skip, relaunch, finished, dropped>>
  BY <1>2, LossSame DEF Queued
<1>3. ASSUME NEW c, NEW j, CheckLoad(c, j) PROVE LossInv'
  BY <1>2, <1>3 DEF CheckLoad, jvars, wvars, locals, hvars
<1>4. ASSUME NEW c, CheckReady(c) PROVE LossInv'
  BY <1>2, <1>4 DEF CheckReady, Answer, Save, jvars, wvars, locals, hvars
<1>5. ASSUME NEW n \in Names, ScheduleDelete(n) PROVE LossInv'
  BY <1>5, LossDelete
<1>6. ASSUME NEW n, NEW D, NEW Q, ScheduleNew(n, D, Q) PROVE LossInv'
  BY <1>6, LossDelete
<1>7. ASSUME NEW j \in JobIds, NEW t, ScheduleSave(j, t) \/ SchedulePut(j) \/ ScheduleEnd(j) PROVE LossInv'
  BY <1>7, LossSchedule
<1> QED BY <1>1, <1>3, <1>4, <1>5, <1>6, <1>7 DEF ClientStep

(* The pop moves an id from the queue into the hand of a worker, and the   *)
(* steps up to the dependencies keep it there or drop it.                  *)
LEMMA LossFetch ==
    ASSUME TypeOK, LossInv, NEW w \in Workers, ProcStart(w) \/ Get(w) \/ Reload(w) \/ Load(w)
    PROVE  LossInv'
<1>1. CASE ProcStart(w)
  <2>1. Only(w) /\ pc[w] = "boot" /\ pc'[w] = "get" /\ UNCHANGED <<queue, nextId, making, cur, skip, relaunch, finished, dropped>>
    BY <1>1 DEF ProcStart, Goto, Only, locals, jvars, hvars, TypeOK, ProcType
  <2> QED BY <2>1, LossStep DEF LossInv, FlagsClear, Queued, Firm, Pending
<1>2. CASE Get(w)
  <2>1. /\ Only(w) /\ pc[w] = "get" /\ pc'[w] = "reload"
        /\ UNCHANGED <<nextId, making, skip, relaunch, finished, dropped>>
        /\ \/ queue # <<>> /\ cur'[w] = Head(queue) /\ queue' = Tail(queue)
           \/ queue' = queue
    BY <1>2 DEF Get, Goto, Only, jvars, hvars, TypeOK, ProcType
  <2>2. Firm(w)' /\ ~Firm(w)
    BY <2>1 DEF Firm, Pending
  <2>3. \A j \in JobIds : Queued(j) => Queued(j)' \/ cur'[w] = j
    <3>1. CASE queue # <<>> /\ cur'[w] = Head(queue) /\ queue' = Tail(queue)
      <4>1. /\ Len(queue) \in Nat \ {0} /\ Len(queue') = Len(queue) - 1 /\ cur'[w] = queue[1]
            /\ \A i \in 1..Len(queue') : queue'[i] = queue[i + 1]
        BY <3>1 DEF TypeOK, StoreType
      <4>2. ASSUME NEW i \in 1..Len(queue), i # 1 PROVE i - 1 \in 1..Len(queue') /\ queue'[i - 1] = queue[i]
        BY <4>1, <4>2
      <4> QED BY <4>1, <4>2 DEF Queued
    <3>2. CASE queue' = queue
      BY <3>2 DEF Queued
    <3> QED BY <2>1, <3>1, <3>2
  <2>4. ~skip'[w] /\ ~relaunch'[w]
    BY <2>1 DEF LossInv, FlagsClear
  <2> QED BY <2>1, <2>2, <2>3, <2>4, LossStep
<1>3. CASE Reload(w)
  <2>1. CASE End(w, "halted")
    BY <1>3, <2>1, LossEnd DEF Reload, jvars
  <2>2. CASE ~End(w, "halted")
    <3>1. /\ Only(w) /\ pc[w] = "reload" /\ pc'[w] = (IF cur[w] = NoId THEN "idle" ELSE "load")
          /\ UNCHANGED <<queue, nextId, making, cur, skip, relaunch, finished, dropped>>
      BY <1>3, <2>2 DEF Reload, Goto, Only, jvars, hvars, TypeOK, ProcType
    <3>2. \A j \in JobIds : Firm(w) /\ cur[w] = j => Firm(w)' /\ cur'[w] = j
      BY <3>1 DEF Firm, Pending, NoId, JobIds
    <3> QED BY <3>1, <3>2, LossStep DEF LossInv, FlagsClear, Queued
  <2> QED BY <2>1, <2>2
<1>4. CASE Load(w)
  <2>1. CASE End(w, "get")
    BY <1>4, <2>1, LossEnd DEF Load, jvars
  <2>2. CASE ~End(w, "get")
    <3>1. /\ Only(w) /\ pc[w] = "load" /\ pc'[w] = "deps"
          /\ UNCHANGED <<queue, nextId, making, cur, skip, relaunch, finished, dropped>>
      BY <1>4, <2>2 DEF Load, Goto, Only, jvars, hvars, TypeOK, ProcType
    <3>2. Firm(w)'
      BY <3>1 DEF Firm, Pending, LossInv, FlagsClear
    <3> QED BY <3>1, <3>2, LossStep DEF Queued
  <2> QED BY <2>1, <2>2
<1> QED BY <1>1, <1>2, <1>3, <1>4

(* The loop over the dependencies: a job that will be skipped was saved as *)
(* ERROR first.                                                            *)
LEMMA LossDeps ==
    ASSUME TypeOK, LossInv, NEW w \in Workers, CheckDep(w)
    PROVE  LossInv'
<1>1. /\ pc[w] = "deps" /\ UNCHANGED queue
      /\ \/ End(w, "dead") /\ UNCHANGED jvars
         \/ \E d \in todo[w] : DepFailed(w, d) \/ DepPending(w, d) \/ DepDone(w, d)
  BY DEF CheckDep
<1>2. CASE End(w, "dead") /\ UNCHANGED jvars
  BY <1>1, <1>2, LossEnd DEF jvars
<1>3. ASSUME NEW d \in todo[w], DepFailed(w, d), ~(End(w, "dead") /\ UNCHANGED jvars) PROVE LossInv'
  <2>1. /\ Only(w) /\ finished' = finished \cup {cur[w]} /\ pc' = pc /\ UNCHANGED <<nextId, making, cur, relaunch, dropped>>
    BY <1>3 DEF DepFailed, Save, Only, TypeOK, ProcType
  <2> QED BY <1>1, <2>1, LossStep DEF Queued
<1>4. ASSUME NEW d \in todo[w], DepPending(w, d) \/ DepDone(w, d) PROVE LossInv'
  <2>1. /\ Only(w) /\ UNCHANGED <<pc, nextId, making, cur, finished, dropped>>
        /\ (skip'[w] /\ relaunch'[w]) \/ UNCHANGED <<skip, relaunch>>
    BY <1>4 DEF DepPending, DepDone, Only, TypeOK, ProcType, jvars, hvars
  <2>2. Firm(w) => Firm(w)'
    BY <1>1, <2>1 DEF Firm, Pending
  <2> QED BY <1>1, <2>1, <2>2, LossStep DEF Queued
<1> QED BY <1>1, <1>2, <1>3, <1>4

(* The relaunch takes the outcome back and the id is on the queue again.   *)
LEMMA LossRelaunch ==
    ASSUME TypeOK, LossInv, NEW w \in Workers, Relaunch(w)
    PROVE  LossInv'
<1>1. CASE End(w, "dead") /\ UNCHANGED <<jvars, queue>>
  BY <1>1, LossEnd DEF jvars
<1>2. CASE ~(End(w, "dead") /\ UNCHANGED <<jvars, queue>>)
  <2>1. /\ pc[w] = "deps" /\ Leave(w, "get") /\ queue' = Append(queue, cur[w])
        /\ finished' = finished \ {cur[w]} /\ UNCHANGED <<nextId, making, dropped>>
    BY <1>2 DEF Relaunch, Save
  <2>2. cur[w] \in JobIds
    BY <2>1 DEF TypeOK, ProcType
  <2>3. \A j \in JobIds : (j = cur[w] \/ Queued(j)) => Queued(j)'
    BY <2>1, <2>2, QueuedAppend DEF TypeOK, StoreType, Queued
  <2>4. \A j \in finished \ finished' : Queued(j)'
    BY <2>1, <2>2, <2>3
  <2> QED BY <2>1, <2>3, <2>4, LeaveEffect, LossStep
<1> QED BY <1>1, <1>2

(* Execution, outcome and the return to the queue.                         *)
LEMMA LossRun ==
    ASSUME TypeOK, LossInv, NEW w \in Workers,
           \/ Idle(w) \/ Skip(w) \/ Busy(w) \/ RunOk(w) \/ RunError(w) \/ RunTimeout(w)
           \/ (\E q \in QNames : Post(w, q)) \/ Again(w)
    PROVE  LossInv'
<1>1. CASE Idle(w) \/ Skip(w) \/ Again(w)
  <2>1. Leave(w, "get") /\ ~Firm(w) /\ UNCHANGED <<queue, nextId, making, finished, dropped>>
    BY <1>1 DEF Idle, Skip, Again, Firm, Pending, jvars, hvars
  <2> QED BY <2>1, LeaveEffect, LossStep DEF Queued
<1>2. CASE Busy(w)
  <2>1. /\ Only(w) /\ pc'[w] = "run" /\ UNCHANGED <<queue, nextId, making, cur, finished, dropped>>
    BY <1>2 DEF Busy, Goto, Only, TypeOK, ProcType, jvars
  <2>2. Firm(w)'
    BY <2>1 DEF Firm, Pending
  <2> QED BY <2>1, <2>2, LossStep DEF Queued
<1>3. CASE RunOk(w) \/ RunError(w) \/ RunTimeout(w)
  <2>1. PICK rec \in JobRec : Outcome(w, rec)
    BY <1>3, RunType
  <2>2. UNCHANGED <<queue, nextId, making>>
    BY <2>1, OutcomeEffect
  <2>3. CASE End(w, "dead")
    BY <2>2, <2>3, LossEnd
  <2>4. CASE ~End(w, "dead")
    <3>1. /\ Only(w) /\ pc'[w] = "post" /\ dropped' = dropped /\ finished' = finished \cup {cur[w]}
      BY <2>1, <2>4, OutcomeEffect
    <3> QED BY <2>2, <3>1, LossStep DEF Queued
  <2> QED BY <2>3, <2>4
<1>4. CASE \E q \in QNames : Post(w, q)
  <2>1. /\ Only(w) /\ UNCHANGED <<queue, nextId, making, pc, cur, skip, relaunch, finished, dropped>>
    BY <1>4 DEF Post, Only, TypeOK, ProcType, jvars, hvars
  <2>2. Firm(w)' <=> Firm(w)
    BY <2>1 DEF Firm
  <2> QED BY <2>1, <2>2, LossStep DEF Queued, LossInv, FlagsClear
<1> QED BY <1>1, <1>2, <1>3, <1>4

(* The parent's steps end a process or leave the processes alone.          *)
LEMMA LossParent ==
    ASSUME TypeOK, LossInv, NEW w \in Workers, ParentStep(w) \/ Crash(w)
    PROVE  LossInv'
<1>1. UNCHANGED <<queue, nextId, making>>
  BY DEF ParentStep, WorkersLoad, SoftStop, HardStop, Restart, TmuxStart, StateUpdate, WorkersCheck, Crash, jvars
<1>2. (\E where : End(w, where)) \/ UNCHANGED <<pc, locals, hvars>>
  BY DEF ParentStep, WorkersLoad, SoftStop, HardStop, Restart, TmuxStart, StateUpdate, WorkersCheck, Crash, wvars
<1>3. CASE UNCHANGED <<pc, locals, hvars>>
  BY <1>1, <1>3 DEF LossInv, FlagsClear, Accounted, Queued, Firm, locals, hvars
<1> QED BY <1>1, <1>2, <1>3, LossEnd

(* The invariant holds initially and every step keeps it.                  *)
LEMMA LossInductive == Spec => []LossInv
<1>1. Init => LossInv
  BY DEF Init, LossInv, FlagsClear, JobIds
<1>2. TypeOK /\ LossInv /\ [Next]_vars => LossInv'
  <2> SUFFICES ASSUME TypeOK, LossInv, [Next]_vars PROVE LossInv'
    OBVIOUS
  <2>1. CASE UNCHANGED vars
    BY <2>1 DEF LossInv, FlagsClear, Accounted, Queued, Firm, vars, jvars, wvars, locals, hvars
  <2>2. CASE ClientStep
    BY <2>2, LossClient
  <2>3. ASSUME NEW w \in Workers, WorkerStep(w) PROVE LossInv'
    BY <2>3, LossFetch, LossDeps, LossRelaunch, LossRun DEF WorkerStep
  <2>4. ASSUME NEW w \in Workers, ParentStep(w) \/ Crash(w) PROVE LossInv'
    BY <2>4, LossParent
  <2> QED BY <2>1, <2>2, <2>3, <2>4 DEF Next
<1> QED BY <1>1, <1>2, TypeCorrect, PTL DEF Spec

(* No job disappears, for any number of clients, workers, jobs, restarts   *)
(* and crashes: MyJobsFactory.schedule and MyWorkerProcess.start leave a   *)
(* stored job with an outcome, with a schedule() on the way to the put, on *)
(* the queue, in the hand of a worker, or given up by one of them.         *)
THEOREM NoJobLost == Spec => []NoSilentLoss
<1>1. DependencyInv /\ LossInv => NoSilentLoss
  <2> SUFFICES ASSUME DependencyInv, LossInv, NEW j \in stored
               PROVE  j \in finished \cup dropped \cup making \/ Queued(j) \/ \E w \in Workers : j \in Held(w)
    BY DEF NoSilentLoss, Queued
  <2>1. j \in JobIds /\ j < nextId
    BY DEF DependencyInv, DepsInv, IdsUsed, TypeOK, StoreType
  <2>2. \A w \in Workers : Firm(w) /\ cur[w] = j => j \in Held(w)
    BY <2>1 DEF Firm, Held, NoId, JobIds
  <2> QED BY <2>1, <2>2 DEF LossInv, Accounted
<1> QED BY <1>1, LossInductive, DependencyInductive, PTL

-----------------------------------------------------------------------------
(* Counting the occurrences of an id in a list.                            *)

(* They are finitely many.                                                 *)
LEMMA OccFinite ==
    ASSUME NEW s \in Seq(JobIds), NEW j
    PROVE  IsFiniteSet(Occ(s, j)) /\ Cardinality(Occ(s, j)) \in Nat
<1>1. Len(s) \in Nat /\ IsFiniteSet(1..Len(s)) /\ Occ(s, j) \in SUBSET (1..Len(s))
  BY FS_Interval DEF Occ
<1>2. IsFiniteSet(Occ(s, j))
  BY <1>1, FS_Subset
<1> QED BY <1>2, FS_CardinalityType

(* Appending an id adds one occurrence of it.                              *)
LEMMA OccAppend ==
    ASSUME NEW s \in Seq(JobIds), NEW k \in JobIds, NEW j \in JobIds
    PROVE  Cardinality(Occ(Append(s, k), j)) = Cardinality(Occ(s, j)) + (IF k = j THEN 1 ELSE 0)
<1> DEFINE n == Len(s) + 1
<1>1. /\ Len(s) \in Nat /\ Len(Append(s, k)) = n /\ Append(s, k)[n] = k
      /\ \A i \in 1..Len(s) : Append(s, k)[i] = s[i]
  OBVIOUS
<1>2. Occ(Append(s, k), j) = IF k = j THEN Occ(s, j) \cup {n} ELSE Occ(s, j)
  BY <1>1 DEF Occ
<1>3. n \notin Occ(s, j)
  BY <1>1 DEF Occ
<1>4. IsFiniteSet(Occ(s, j)) /\ Cardinality(Occ(s, j)) \in Nat
  BY OccFinite
<1>5. Cardinality(Occ(s, j) \cup {n}) = Cardinality(Occ(s, j)) + 1
  BY <1>3, <1>4, FS_AddElement
<1> QED BY <1>2, <1>4, <1>5

(* Popping the head takes one occurrence of it.                            *)
LEMMA OccTail ==
    ASSUME NEW s \in Seq(JobIds), s # <<>>, NEW j \in JobIds
    PROVE  Cardinality(Occ(Tail(s), j)) = Cardinality(Occ(s, j)) - (IF Head(s) = j THEN 1 ELSE 0)
<1> DEFINE f == [i \in Occ(Tail(s), j) |-> i + 1]
<1>1. /\ Tail(s) \in Seq(JobIds) /\ Len(s) \in Nat \ {0} /\ Len(Tail(s)) = Len(s) - 1
      /\ Head(s) = s[1] /\ \A i \in 1..Len(Tail(s)) : Tail(s)[i] = s[i + 1]
  OBVIOUS
<1>2. \A i \in Occ(Tail(s), j) : i \in Nat /\ i + 1 \in Occ(s, j) \ {1}
  BY <1>1 DEF Occ
<1>3. \A i \in Occ(s, j) \ {1} : i - 1 \in Occ(Tail(s), j) /\ f[i - 1] = i
  <2>1. \A i \in Occ(s, j) \ {1} : i \in 2..Len(s) /\ i - 1 \in 1..Len(Tail(s)) /\ Tail(s)[i - 1] = j
    BY <1>1 DEF Occ
  <2>2. \A i \in Occ(s, j) \ {1} : i - 1 \in Occ(Tail(s), j)
    BY <2>1 DEF Occ
  <2> QED BY <2>1, <2>2
<1>4. f \in Bijection(Occ(Tail(s), j), Occ(s, j) \ {1})
  <2>1. f \in [Occ(Tail(s), j) -> Occ(s, j) \ {1}]
    BY <1>2
  <2>2. \A a, b \in Occ(Tail(s), j) : f[a] = f[b] => a = b
    BY <1>2
  <2>3. \A i \in Occ(s, j) \ {1} : \E a \in Occ(Tail(s), j) : f[a] = i
    BY <1>3
  <2> HIDE DEF f
  <2> QED BY <2>1, <2>2, <2>3 DEF Bijection, Injection, Surjection, IsInjective
<1>5. Cardinality(Occ(s, j) \ {1}) = Cardinality(Occ(Tail(s), j))
  <2>1. ExistsBijection(Occ(Tail(s), j), Occ(s, j) \ {1})
    BY <1>4 DEF ExistsBijection
  <2> QED BY <1>1, <2>1, OccFinite, FS_Bijection
<1>6. Cardinality(Occ(s, j) \ {1}) = Cardinality(Occ(s, j)) - (IF 1 \in Occ(s, j) THEN 1 ELSE 0)
  <2>1. IsFiniteSet(Occ(s, j)) /\ Cardinality(Occ(s, j)) \in Nat
    BY OccFinite
  <2>2. Cardinality(Occ(s, j) \ {1}) = IF 1 \in Occ(s, j) THEN Cardinality(Occ(s, j)) - 1 ELSE Cardinality(Occ(s, j))
    BY <2>1, FS_RemoveElement
  <2> HIDE DEF f
  <2> QED BY <2>1, <2>2
<1>7. 1 \in Occ(s, j) <=> Head(s) = j
  BY <1>1 DEF Occ
<1> QED BY <1>5, <1>6, <1>7

-----------------------------------------------------------------------------
(* At most one execution per put.                                          *)

(* Two sets that differ in one element at most.                            *)
LEMMA OneElement ==
    ASSUME NEW S, NEW T, NEW x, IsFiniteSet(S), S \ {x} = T \ {x}
    PROVE  /\ IsFiniteSet(T) /\ Cardinality(S) \in Nat /\ Cardinality(T) \in Nat
           /\ Cardinality(T) + One(x \in S) = Cardinality(S) + One(x \in T)
<1>1. IsFiniteSet(S \ {x}) /\ Cardinality(S) \in Nat
  BY FS_RemoveElement, FS_CardinalityType
<1>2. Cardinality(S \ {x}) = IF x \in S THEN Cardinality(S) - 1 ELSE Cardinality(S)
  BY FS_RemoveElement
<1>3. T = IF x \in T THEN (S \ {x}) \cup {x} ELSE S \ {x}
  OBVIOUS
<1>4. /\ IsFiniteSet((S \ {x}) \cup {x})
      /\ Cardinality((S \ {x}) \cup {x}) = Cardinality(S \ {x}) + 1
  BY <1>1, FS_AddElement
<1>5. IsFiniteSet(T)
  BY <1>1, <1>3, <1>4
<1>6. Cardinality(T) = IF x \in T THEN Cardinality(S \ {x}) + 1 ELSE Cardinality(S \ {x})
  BY <1>3, <1>4
<1>7. Cardinality(T) \in Nat /\ Cardinality(S \ {x}) \in Nat
  BY <1>1, <1>5, FS_CardinalityType
<1> QED BY <1>1, <1>2, <1>5, <1>6, <1>7 DEF One

(* What a step about worker w has to provide to keep OnceInv: the          *)
(* executions, the places on the queue and the one in the worker's hand    *)
(* together do not become more.                                            *)
LEMMA OnceStep ==
    ASSUME TypeOK, TypeOK', OnceInv, NEW w \in Workers, Only(w), UNCHANGED <<nextId, making, starts>>,
           \A j \in JobIds : j >= nextId => runs'[j] = runs[j],
           \A j \in JobIds :
             runs'[j] + Cardinality(Occ(queue, j)') + One(w \in Takers(j)')
               <= runs[j] + Cardinality(Occ(queue, j)) + One(w \in Takers(j))
    PROVE  OnceInv'
<1> SUFFICES ASSUME NEW j \in JobIds
             PROVE  /\ j >= nextId => runs'[j] = 0
                    /\ IsFiniteSet(Takers(j)')
                    /\ j < nextId => runs'[j] + Cardinality(Occ(queue, j)') + Cardinality(Takers(j)') + One(j \in making') <= 1 + starts
  BY DEF OnceInv
<1>1. j >= nextId => runs'[j] = 0
  BY DEF OnceInv
<1>2. Takers(j) \ {w} = Takers(j)' \ {w}
  BY DEF Takers, Only
<1>3. /\ IsFiniteSet(Takers(j)') /\ Cardinality(Takers(j)) \in Nat /\ Cardinality(Takers(j)') \in Nat
      /\ Cardinality(Takers(j)') + One(w \in Takers(j)) = Cardinality(Takers(j)) + One(w \in Takers(j)')
  <2>1. IsFiniteSet(Takers(j))
    BY DEF OnceInv
  <2> QED BY <1>2, <2>1, OneElement
<1>4. Cardinality(Occ(queue, j)) \in Nat /\ Cardinality(Occ(queue, j)') \in Nat
  BY OccFinite DEF TypeOK, StoreType
<1>5. /\ runs[j] \in Nat /\ runs'[j] \in Nat /\ starts \in Nat /\ One(w \in Takers(j)) \in Nat /\ One(w \in Takers(j)') \in Nat
      /\ One(j \in making) \in Nat /\ One(j \in making') = One(j \in making)
  BY BoundsAssumption DEF TypeOK, HistoryType, One
<1>6. j < nextId => runs[j] + Cardinality(Occ(queue, j)) + Cardinality(Takers(j)) + One(j \in making) <= 1 + starts
  BY DEF OnceInv
<1>7. runs'[j] + Cardinality(Occ(queue, j)') + One(w \in Takers(j)')
        <= runs[j] + Cardinality(Occ(queue, j)) + One(w \in Takers(j))
  OBVIOUS
<1>8. j < nextId => runs'[j] + Cardinality(Occ(queue, j)') + Cardinality(Takers(j)') + One(j \in making') <= 1 + starts
  BY <1>3, <1>4, <1>5, <1>6, <1>7
<1> QED BY <1>1, <1>3, <1>8

(* A step that leaves the queue and the executions alone, and after which  *)
(* the worker holds what it held, or nothing.                              *)
LEMMA OnceLess ==
    ASSUME TypeOK, TypeOK', OnceInv, NEW w \in Workers, Only(w), UNCHANGED <<queue, nextId, making, starts, runs>>,
           \A j \in JobIds : w \in Takers(j)' => w \in Takers(j)
    PROVE  OnceInv'
<1>1. ASSUME NEW j \in JobIds
      PROVE  runs'[j] + Cardinality(Occ(queue, j)') + One(w \in Takers(j)')
               <= runs[j] + Cardinality(Occ(queue, j)) + One(w \in Takers(j))
  <2>1. Occ(queue, j)' = Occ(queue, j) /\ runs'[j] = runs[j]
    BY DEF Occ
  <2>2. runs[j] \in Nat /\ Cardinality(Occ(queue, j)) \in Nat
    BY OccFinite DEF TypeOK, StoreType, HistoryType
  <2>3. One(w \in Takers(j)') <= One(w \in Takers(j)) /\ One(w \in Takers(j)') \in Nat /\ One(w \in Takers(j)) \in Nat
    BY DEF One
  <2> QED BY <2>1, <2>2, <2>3
<1> QED BY <1>1, OnceStep

(* Steps of clients: a delivery goes from schedule() to the queue or away, *)
(* and start() adds one.                                                   *)
LEMMA OnceMove ==
    ASSUME TypeOK, TypeOK', OnceInv, UNCHANGED <<nextId, pc, cur, runs>>,
           \A j \in JobIds : Cardinality(Occ(queue, j)') + One(j \in making') + starts
                               <= Cardinality(Occ(queue, j)) + One(j \in making) + starts'
    PROVE  OnceInv'
<1> SUFFICES ASSUME NEW j \in JobIds
             PROVE  /\ j >= nextId => runs'[j] = 0
                    /\ IsFiniteSet(Takers(j)')
                    /\ j < nextId => runs'[j] + Cardinality(Occ(queue, j)') + Cardinality(Takers(j)') + One(j \in making') <= 1 + starts'
  BY DEF OnceInv
<1>1. Takers(j)' = Takers(j) /\ runs'[j] = runs[j]
  BY DEF Takers
<1>2. /\ runs[j] \in Nat /\ starts \in Nat /\ starts' \in Nat /\ One(j \in making) \in Nat /\ One(j \in making') \in Nat
      /\ Cardinality(Occ(queue, j)) \in Nat /\ Cardinality(Occ(queue, j)') \in Nat
  BY OccFinite, BoundsAssumption DEF TypeOK, StoreType, HistoryType, One
<1>3. IsFiniteSet(Takers(j)) /\ (j >= nextId => runs[j] = 0)
  BY DEF OnceInv
<1>4. Cardinality(Takers(j)) \in Nat
  BY <1>3, FS_CardinalityType
<1>5. j < nextId => runs[j] + Cardinality(Occ(queue, j)) + Cardinality(Takers(j)) + One(j \in making) <= 1 + starts
  BY DEF OnceInv
<1>6. Cardinality(Occ(queue, j)') + One(j \in making') + starts <= Cardinality(Occ(queue, j)) + One(j \in making) + starts'
  OBVIOUS
<1> QED BY <1>1, <1>2, <1>3, <1>4, <1>5, <1>6

(* The record of a new job is saved: nobody has heard of its id.           *)
LEMMA OnceNew ==
    ASSUME DependencyInv, TypeOK', OnceInv, NEW n, NEW D, NEW Q, ScheduleNew(n, D, Q)
    PROVE  OnceInv'
<1> USE DEF DependencyInv
<1>1. /\ nextId \in JobIds /\ nextId' = nextId + 1 /\ making' = making \cup {nextId}
      /\ UNCHANGED <<queue, pc, cur, runs, starts>>
  BY DEF ScheduleNew, wvars, locals, hvars
<1>2. ASSUME NEW j \in JobIds
      PROVE  /\ j >= nextId' => runs'[j] = 0
             /\ IsFiniteSet(Takers(j)')
             /\ j < nextId' => runs'[j] + Cardinality(Occ(queue, j)') + Cardinality(Takers(j)') + One(j \in making') <= 1 + starts'
  <2>1. Takers(j)' = Takers(j) /\ Occ(queue, j)' = Occ(queue, j)
    BY <1>1 DEF Takers, Occ
  <2>2. j \in Nat /\ nextId \in Nat /\ starts \in Nat /\ runs[j] \in Nat /\ Cardinality(Occ(queue, j)) \in Nat
    BY <1>1, OccFinite, BoundsAssumption DEF TypeOK, StoreType, HistoryType, JobIds
  <2>3. IsFiniteSet(Takers(j)) /\ (j >= nextId => runs[j] = 0)
    BY DEF OnceInv
  <2>4. CASE j = nextId
    <3>1. Takers(j) = {} /\ Occ(queue, j) = {}
      BY <2>2, <2>4 DEF Takers, Occ, DepsInv, IdsUsed
    <3>2. Cardinality(Takers(j)) = 0 /\ Cardinality(Occ(queue, j)) = 0
      BY <3>1, FS_EmptySet
    <3>3. One(j \in making') = 1
      BY <1>1, <2>4 DEF One
    <3> QED BY <1>1, <2>1, <2>2, <2>3, <2>4, <3>2, <3>3
  <2>5. CASE j # nextId
    <3>1. One(j \in making') = One(j \in making) /\ One(j \in making) \in Nat
      BY <1>1, <2>5 DEF One
    <3>2. j < nextId => runs[j] + Cardinality(Occ(queue, j)) + Cardinality(Takers(j)) + One(j \in making) <= 1 + starts
      BY DEF OnceInv
    <3>3. Cardinality(Takers(j)) \in Nat
      BY <2>3, FS_CardinalityType
    <3> QED BY <1>1, <2>1, <2>2, <2>3, <2>5, <3>1, <3>2, <3>3
  <2> QED BY <2>4, <2>5
<1> QED BY <1>2 DEF OnceInv

(* The other steps of schedule(): the delivery goes on the queue, or it is *)
(* given up, or stays.                                                     *)
LEMMA OnceSchedule ==
    ASSUME TypeOK, TypeOK', OnceInv, NEW k \in JobIds, NEW t,
           ScheduleSave(k, t) \/ SchedulePut(k) \/ ScheduleEnd(k)
    PROVE  OnceInv'
<1>1. k \in making /\ UNCHANGED <<nextId, pc, cur, runs, starts>>
  BY DEF ScheduleSave, SchedulePut, ScheduleEnd, Abandon, wvars, locals, hvars
<1>2. ASSUME NEW j \in JobIds
      PROVE  Cardinality(Occ(queue, j)') + One(j \in making') + starts
               <= Cardinality(Occ(queue, j)) + One(j \in making) + starts'
  <2>1. Cardinality(Occ(queue, j)) \in Nat /\ starts \in Nat /\ starts' = starts
    BY <1>1, OccFinite, BoundsAssumption DEF TypeOK, StoreType, HistoryType
  <2>2. CASE SchedulePut(k)
    <3>1. queue' = Append(queue, k) /\ making' = making \ {k}
      BY <2>2 DEF SchedulePut, Release
    <3>2. Cardinality(Occ(queue, j)') = Cardinality(Occ(queue, j)) + (IF k = j THEN 1 ELSE 0)
      BY <3>1, OccAppend DEF TypeOK, StoreType
    <3>3. /\ One(j \in making) \in Nat
          /\ k = j => One(j \in making) = 1 /\ One(j \in making') = 0
          /\ k # j => One(j \in making') = One(j \in making)
      BY <1>1, <3>1 DEF One
    <3> QED BY <2>1, <3>2, <3>3
  <2>3. CASE ScheduleSave(k, t) \/ ScheduleEnd(k)
    <3>1. queue' = queue /\ making' \subseteq making
      BY <2>3 DEF ScheduleSave, ScheduleEnd, Abandon, Release
    <3>2. Occ(queue, j)' = Occ(queue, j)
      BY <3>1 DEF Occ
    <3>3. One(j \in making') \in Nat /\ One(j \in making) \in Nat /\ One(j \in making') <= One(j \in making)
      BY <3>1 DEF One
    <3> QED BY <2>1, <3>2, <3>3
  <2> QED BY <2>2, <2>3
<1> QED BY <1>1, <1>2, OnceMove

(* Scheduling makes the first put of the new job, start() one more of a    *)
(* known job; waiters put nothing.                                         *)
LEMMA OnceClient ==
    ASSUME DependencyInv, TypeOK', OnceInv, ClientStep
    PROVE  OnceInv'
<1> USE DEF DependencyInv
<1>1. ASSUME NEW k \in JobIds, Start(k) PROVE OnceInv'
  <2>1. queue' = Append(queue, k) /\ starts' = starts + 1 /\ UNCHANGED <<nextId, making, pc, cur, runs>>
    BY <1>1 DEF Start, jvars, wvars, locals, hvars
  <2>2. ASSUME NEW j \in JobIds
        PROVE  Cardinality(Occ(queue, j)') + One(j \in making') + starts
                 <= Cardinality(Occ(queue, j)) + One(j \in making) + starts'
    <3>1. Cardinality(Occ(queue, j)') = Cardinality(Occ(queue, j)) + (IF k = j THEN 1 ELSE 0)
      BY <2>1, OccAppend DEF TypeOK, StoreType
    <3>2. starts \in Nat /\ Cardinality(Occ(queue, j)) \in Nat /\ One(j \in making') = One(j \in making) /\ One(j \in making) \in Nat
      BY <2>1, OccFinite, BoundsAssumption DEF TypeOK, StoreType, HistoryType, One
    <3> QED BY <2>1, <3>1, <3>2
  <2> QED BY <2>1, <2>2, OnceMove
<1>2. CASE UNCHANGED <<nextId, making, queue, pc, cur, runs, starts>>
  BY <1>2 DEF OnceInv, Takers, Occ
<1>3. ASSUME NEW c, NEW j, CheckLoad(c, j) PROVE OnceInv'
  BY <1>2, <1>3 DEF CheckLoad, jvars, wvars, locals, hvars
<1>4. ASSUME NEW c, CheckReady(c) PROVE OnceInv'
  BY <1>2, <1>4 DEF CheckReady, Answer, Save, jvars, wvars, locals, hvars
<1>5. ASSUME NEW n \in Names, ScheduleDelete(n) PROVE OnceInv'
  BY <1>2, <1>5 DEF ScheduleDelete, wvars, locals, hvars
<1>6. ASSUME NEW n, NEW D, NEW Q, ScheduleNew(n, D, Q) PROVE OnceInv'
  BY <1>6, OnceNew
<1>7. ASSUME NEW j \in JobIds, NEW t, ScheduleSave(j, t) \/ SchedulePut(j) \/ ScheduleEnd(j) PROVE OnceInv'
  BY <1>7, OnceSchedule
<1> QED BY <1>1, <1>3, <1>4, <1>5, <1>6, <1>7 DEF ClientStep

(* The pop: one place on the queue less, one worker more.                  *)
LEMMA OnceGet ==
    ASSUME DependencyInv, TypeOK', OnceInv, NEW w \in Workers, Get(w)
    PROVE  OnceInv'
<1> USE DEF DependencyInv
<1>1. /\ Only(w) /\ pc[w] = "get" /\ pc'[w] = "reload" /\ cur[w] = NoId
      /\ UNCHANGED <<nextId, making, starts, runs>>
      /\ \/ queue # <<>> /\ cur'[w] = Head(queue) /\ queue' = Tail(queue)
         \/ UNCHANGED <<queue, cur>>
  BY DEF Get, Goto, Only, jvars, hvars, TypeOK, ProcType
<1>2. CASE queue # <<>> /\ cur'[w] = Head(queue) /\ queue' = Tail(queue)
  <2>1. ASSUME NEW j \in JobIds
        PROVE  runs'[j] + Cardinality(Occ(queue, j)') + One(w \in Takers(j)')
                 <= runs[j] + Cardinality(Occ(queue, j)) + One(w \in Takers(j))
    <3>1. Cardinality(Occ(queue, j)') = Cardinality(Occ(queue, j)) - (IF Head(queue) = j THEN 1 ELSE 0)
      BY <1>2, OccTail DEF TypeOK, StoreType
    <3>2. w \in Takers(j)' <=> Head(queue) = j
      BY <1>1, <1>2 DEF Takers
    <3>3. One(w \in Takers(j)') = (IF Head(queue) = j THEN 1 ELSE 0) /\ One(w \in Takers(j)) \in Nat
      BY <3>2 DEF One
    <3>4. runs[j] \in Nat /\ Cardinality(Occ(queue, j)) \in Nat /\ runs' = runs
      BY <1>1, OccFinite DEF TypeOK, StoreType, HistoryType
    <3> QED BY <3>1, <3>3, <3>4
  <2> QED BY <1>1, <2>1, OnceStep
<1>3. CASE UNCHANGED <<queue, cur>>
  <2>1. \A j \in JobIds : w \notin Takers(j)'
    BY <1>1, <1>3 DEF Takers, NoId, JobIds
  <2> QED BY <1>1, <1>3, <2>1, OnceLess
<1> QED BY <1>1, <1>2, <1>3

(* The relaunch: one worker less, one place on the queue more.             *)
LEMMA OnceRelaunch ==
    ASSUME DependencyInv, TypeOK', OnceInv, NEW w \in Workers, Relaunch(w)
    PROVE  OnceInv'
<1> USE DEF DependencyInv
<1>1. CASE End(w, "dead") /\ UNCHANGED <<jvars, queue>>
  <2>1. \A j \in JobIds : w \notin Takers(j)'
    BY <1>1, EndEffect DEF Takers, NoId, JobIds
  <2> QED BY <1>1, <2>1, EndEffect, OnceLess DEF Relaunch, jvars
<1>2. CASE ~(End(w, "dead") /\ UNCHANGED <<jvars, queue>>)
  <2>1. /\ pc[w] = "deps" /\ Leave(w, "get") /\ queue' = Append(queue, cur[w])
        /\ UNCHANGED <<nextId, making, starts, runs>>
    BY <1>2 DEF Relaunch, Save
  <2>2. cur[w] \in JobIds /\ Only(w) /\ pc'[w] = "get" /\ cur'[w] = NoId
    BY <2>1, LeaveEffect DEF TypeOK, ProcType
  <2>3. ASSUME NEW j \in JobIds
        PROVE  runs'[j] + Cardinality(Occ(queue, j)') + One(w \in Takers(j)')
                 <= runs[j] + Cardinality(Occ(queue, j)) + One(w \in Takers(j))
    <3>1. Cardinality(Occ(queue, j)') = Cardinality(Occ(queue, j)) + (IF cur[w] = j THEN 1 ELSE 0)
      BY <2>1, <2>2, OccAppend DEF TypeOK, StoreType
    <3>2. w \notin Takers(j)' /\ (w \in Takers(j) <=> cur[w] = j)
      BY <2>1, <2>2 DEF Takers
    <3>3. One(w \in Takers(j)) = (IF cur[w] = j THEN 1 ELSE 0) /\ One(w \in Takers(j)') = 0
      BY <3>2 DEF One
    <3>4. runs[j] \in Nat /\ Cardinality(Occ(queue, j)) \in Nat /\ runs' = runs
      BY <2>1, OccFinite DEF TypeOK, StoreType, HistoryType
    <3> QED BY <3>1, <3>3, <3>4
  <2> QED BY <2>1, <2>2, <2>3, OnceStep
<1> QED BY <1>1, <1>2

(* The execution begins: one worker less, one execution more.              *)
LEMMA OnceBusy ==
    ASSUME DependencyInv, TypeOK', OnceInv, NEW w \in Workers, Busy(w)
    PROVE  OnceInv'
<1> USE DEF DependencyInv
<1>1. /\ Only(w) /\ pc[w] = "deps" /\ pc'[w] = "run" /\ UNCHANGED <<queue, nextId, making, starts, cur>>
      /\ runs' = [runs EXCEPT ![cur[w]] = @ + 1]
  BY DEF Busy, Goto, Only, TypeOK, ProcType, jvars
<1>2. cur[w] \in JobIds /\ cur[w] < nextId
  BY <1>1 DEF TypeOK, ProcType, DepsInv, IdsUsed
<1>3. ASSUME NEW j \in JobIds
      PROVE  runs'[j] + Cardinality(Occ(queue, j)') + One(w \in Takers(j)')
               <= runs[j] + Cardinality(Occ(queue, j)) + One(w \in Takers(j))
  <2>1. runs'[j] = runs[j] + (IF cur[w] = j THEN 1 ELSE 0) /\ runs[j] \in Nat
    BY <1>1, <1>2 DEF TypeOK, HistoryType
  <2>2. w \notin Takers(j)' /\ (w \in Takers(j) <=> cur[w] = j)
    BY <1>1 DEF Takers
  <2>3. One(w \in Takers(j)) = (IF cur[w] = j THEN 1 ELSE 0) /\ One(w \in Takers(j)') = 0
    BY <2>2 DEF One
  <2>4. Cardinality(Occ(queue, j)) \in Nat /\ Occ(queue, j)' = Occ(queue, j)
    BY <1>1, OccFinite DEF TypeOK, StoreType, Occ
  <2> QED BY <2>1, <2>3, <2>4
<1>4. \A j \in JobIds : j >= nextId => runs'[j] = runs[j]
  BY <1>1, <1>2 DEF TypeOK, HistoryType, StoreType, JobIds
<1> QED BY <1>1, <1>3, <1>4, OnceStep

(* The other steps of a worker, and those of the parent, put nothing and   *)
(* execute nothing.                                                        *)
LEMMA OnceQuiet ==
    ASSUME TypeOK, TypeOK', OnceInv, NEW w \in Workers,
           \/ ProcStart(w) \/ Reload(w) \/ Idle(w) \/ Load(w) \/ CheckDep(w) \/ Skip(w)
           \/ RunOk(w) \/ RunError(w) \/ RunTimeout(w) \/ (\E q \in QNames : Post(w, q)) \/ Again(w)
           \/ ParentStep(w) \/ Crash(w)
    PROVE  OnceInv'
<1>1. ASSUME \E where : End(w, where), UNCHANGED <<queue, nextId, making, starts>> PROVE OnceInv'
  <2>1. Only(w) /\ cur'[w] = NoId /\ UNCHANGED runs
    BY <1>1, EndEffect
  <2>2. \A j \in JobIds : w \notin Takers(j)'
    BY <2>1 DEF Takers, NoId, JobIds
  <2> QED BY <1>1, <2>1, <2>2, OnceLess
<1>2. CASE ProcStart(w) \/ Idle(w) \/ Skip(w) \/ Again(w)
  <2>1. UNCHANGED <<queue, nextId, making, starts, runs>>
    BY <1>2 DEF ProcStart, Idle, Skip, Again, jvars, hvars
  <2>2. Only(w) /\ pc'[w] = "get"
    BY <1>2, LeaveEffect DEF ProcStart, Idle, Skip, Again, Goto, Only, TypeOK, ProcType, locals
  <2> QED BY <2>1, <2>2, OnceLess DEF Takers
<1>3. CASE Reload(w) \/ Load(w)
  <2>1. UNCHANGED <<queue, nextId, making, starts>>
    BY <1>3 DEF Reload, Load, jvars
  <2>2. CASE ~\E where : End(w, where)
    <3>1. Only(w) /\ pc[w] \in {"reload", "load"} /\ UNCHANGED <<cur, runs>>
      BY <1>3, <2>2 DEF Reload, Load, Goto, Only, TypeOK, ProcType, hvars
    <3> QED BY <2>1, <3>1, OnceLess DEF Takers
  <2> QED BY <1>1, <2>1, <2>2
<1>4. CASE CheckDep(w)
  <2>1. UNCHANGED <<queue, nextId, making, starts>>
    BY <1>4 DEF CheckDep, DepFailed, DepPending, DepDone, Save, jvars
  <2>2. CASE ~\E where : End(w, where)
    <3>1. Only(w) /\ UNCHANGED <<pc, cur, runs>>
      BY <1>4, <2>2 DEF CheckDep, DepFailed, DepPending, DepDone, Only, TypeOK, ProcType, hvars
    <3> QED BY <2>1, <3>1, OnceLess DEF Takers
  <2> QED BY <1>1, <2>1, <2>2
<1>5. CASE RunOk(w) \/ RunError(w) \/ RunTimeout(w)
  <2>1. PICK rec \in JobRec : Outcome(w, rec)
    BY <1>5, RunType
  <2>2. UNCHANGED <<queue, starts, nextId, making>>
    BY <2>1, OutcomeEffect
  <2>3. CASE ~End(w, "dead")
    <3>1. Only(w) /\ pc'[w] = "post" /\ UNCHANGED <<cur, runs>>
      BY <2>1, <2>3, OutcomeEffect
    <3> QED BY <2>2, <3>1, OnceLess DEF Takers
  <2> QED BY <1>1, <2>2, <2>3
<1>6. CASE \E q \in QNames : Post(w, q)
  <2>1. Only(w) /\ UNCHANGED <<queue, nextId, making, starts, pc, cur, runs>>
    BY <1>6 DEF Post, Only, TypeOK, ProcType, jvars, hvars
  <2> QED BY <2>1, OnceLess DEF Takers
<1>7. CASE ParentStep(w) \/ Crash(w)
  <2>1. UNCHANGED <<queue, nextId, making, starts>>
    BY <1>7 DEF ParentStep, WorkersLoad, SoftStop, HardStop, Restart, TmuxStart, StateUpdate, WorkersCheck, Crash, jvars
  <2>2. (\E where : End(w, where)) \/ UNCHANGED <<pc, locals, hvars>>
    BY <1>7 DEF ParentStep, WorkersLoad, SoftStop, HardStop, Restart, TmuxStart, StateUpdate, WorkersCheck, Crash, wvars
  <2>3. CASE UNCHANGED <<pc, locals, hvars>>
    BY <2>1, <2>3, OnceLess DEF Takers, Only, locals, hvars
  <2> QED BY <1>1, <2>1, <2>2, <2>3
<1> QED BY <1>2, <1>3, <1>4, <1>5, <1>6, <1>7

(* The invariant holds initially and every step keeps it.                  *)
LEMMA OnceInductive == Spec => []OnceInv
<1>1. Init => OnceInv
  <2> SUFFICES ASSUME Init, NEW j \in JobIds
               PROVE  runs[j] = 0 /\ IsFiniteSet(Takers(j)) /\ ~(j < nextId)
    BY DEF OnceInv
  <2>1. Takers(j) = {}
    BY DEF Init, Takers
  <2> QED BY <2>1, FS_EmptySet DEF Init, JobIds
<1>2. DependencyInv /\ TypeOK' /\ OnceInv /\ [Next]_vars => OnceInv'
  <2> SUFFICES ASSUME DependencyInv, TypeOK', OnceInv, [Next]_vars PROVE OnceInv'
    OBVIOUS
  <2>1. CASE UNCHANGED vars
    BY <2>1 DEF OnceInv, Takers, Occ, vars, jvars, wvars, locals, hvars
  <2>2. CASE ClientStep
    BY <2>2, OnceClient
  <2>3. ASSUME NEW w \in Workers, WorkerStep(w) \/ ParentStep(w) \/ Crash(w) PROVE OnceInv'
    <3>1. CASE Get(w) \/ Relaunch(w) \/ Busy(w)
      BY <3>1, OnceGet, OnceRelaunch, OnceBusy
    <3>2. CASE ~(Get(w) \/ Relaunch(w) \/ Busy(w))
      BY <2>3, <3>2, OnceQuiet DEF WorkerStep, DependencyInv
    <3> QED BY <3>1, <3>2
  <2> QED BY <2>1, <2>2, <2>3 DEF Next
<1> QED BY <1>1, <1>2, TypeCorrect, DependencyInductive, PTL DEF Spec

(* A job is executed at most once per put of a client, for any number of   *)
(* workers and faults: the relaunch in MyWorkerProcess.start hands the     *)
(* same delivery on, and a restarted worker begins without one.            *)
THEOREM OncePerPut == Spec => []AtMostOncePerPut
<1>1. TypeOK /\ OnceInv => AtMostOncePerPut
  <2> SUFFICES ASSUME TypeOK, OnceInv, NEW j \in JobIds PROVE runs[j] <= 1 + starts
    BY DEF AtMostOncePerPut
  <2>1. j \in Nat /\ nextId \in Nat /\ starts \in Nat /\ runs[j] \in Nat
    BY BoundsAssumption DEF TypeOK, StoreType, HistoryType, JobIds
  <2>2. Cardinality(Occ(queue, j)) \in Nat /\ Cardinality(Takers(j)) \in Nat /\ One(j \in making) \in Nat
    BY OccFinite, FS_CardinalityType DEF TypeOK, StoreType, OnceInv, One
  <2>3. /\ j >= nextId => runs[j] = 0
        /\ j < nextId => runs[j] + Cardinality(Occ(queue, j)) + Cardinality(Takers(j)) + One(j \in making) <= 1 + starts
    BY DEF OnceInv
  <2> QED BY <2>1, <2>2, <2>3
<1> QED BY <1>1, TypeCorrect, OnceInductive, PTL

-----------------------------------------------------------------------------
(* At most one result per execution.                                       *)

(* What a step about worker w has to provide to keep PostInv.              *)
LEMMA PostStep ==
    ASSUME TypeOK, TypeOK', PostInv, NEW w \in Workers, Only(w),
           \A q \in QNames, j \in JobIds :
             Cardinality(Occ(results[q], j)') + One(w \in Posters(q, j)') + runs[j]
               <= Cardinality(Occ(results[q], j)) + One(w \in Posters(q, j)) + runs'[j]
    PROVE  PostInv'
<1> SUFFICES ASSUME NEW q \in QNames, NEW j \in JobIds
             PROVE  /\ IsFiniteSet(Posters(q, j)')
                    /\ Cardinality(Occ(results[q], j)') + Cardinality(Posters(q, j)') <= runs'[j]
  BY DEF PostInv
<1>1. Posters(q, j) \ {w} = Posters(q, j)' \ {w}
  BY DEF Posters, Only
<1>2. /\ IsFiniteSet(Posters(q, j)') /\ Cardinality(Posters(q, j)) \in Nat /\ Cardinality(Posters(q, j)') \in Nat
      /\ Cardinality(Posters(q, j)') + One(w \in Posters(q, j)) = Cardinality(Posters(q, j)) + One(w \in Posters(q, j)')
  <2>1. IsFiniteSet(Posters(q, j))
    BY DEF PostInv
  <2> QED BY <1>1, <2>1, OneElement
<1>3. Cardinality(Occ(results[q], j)) \in Nat /\ Cardinality(Occ(results[q], j)') \in Nat
  BY OccFinite DEF TypeOK, StoreType
<1>4. runs[j] \in Nat /\ runs'[j] \in Nat /\ One(w \in Posters(q, j)) \in Nat /\ One(w \in Posters(q, j)') \in Nat
  BY DEF TypeOK, HistoryType, One
<1>5. Cardinality(Occ(results[q], j)) + Cardinality(Posters(q, j)) <= runs[j]
  BY DEF PostInv
<1>6. Cardinality(Occ(results[q], j)') + One(w \in Posters(q, j)') + runs[j]
        <= Cardinality(Occ(results[q], j)) + One(w \in Posters(q, j)) + runs'[j]
  OBVIOUS
<1>7. Cardinality(Occ(results[q], j)') + Cardinality(Posters(q, j)') <= runs'[j]
  BY <1>2, <1>3, <1>4, <1>5, <1>6
<1> QED BY <1>2, <1>7

(* Nothing is posted or executed, and the worker is about to post no more. *)
LEMMA PostLess ==
    ASSUME TypeOK, TypeOK', PostInv, NEW w \in Workers, Only(w), UNCHANGED <<results, runs>>,
           \A q \in QNames, j \in JobIds : w \in Posters(q, j)' => w \in Posters(q, j)
    PROVE  PostInv'
<1>1. ASSUME NEW q \in QNames, NEW j \in JobIds
      PROVE  Cardinality(Occ(results[q], j)') + One(w \in Posters(q, j)') + runs[j]
               <= Cardinality(Occ(results[q], j)) + One(w \in Posters(q, j)) + runs'[j]
  <2>1. Occ(results[q], j)' = Occ(results[q], j) /\ runs'[j] = runs[j]
    BY DEF Occ
  <2>2. runs[j] \in Nat /\ Cardinality(Occ(results[q], j)) \in Nat
    BY OccFinite DEF TypeOK, StoreType, HistoryType
  <2>3. One(w \in Posters(q, j)') <= One(w \in Posters(q, j)) /\ One(w \in Posters(q, j)') \in Nat /\ One(w \in Posters(q, j)) \in Nat
    BY DEF One
  <2> QED BY <2>1, <2>2, <2>3
<1> QED BY <1>1, PostStep

(* The execution begins: one execution more, and one result to come.       *)
LEMMA PostBusy ==
    ASSUME TypeOK, TypeOK', PostInv, NEW w \in Workers, Busy(w)
    PROVE  PostInv'
<1>1. /\ Only(w) /\ pc[w] = "deps" /\ pc'[w] = "run" /\ UNCHANGED <<results, cur>>
      /\ runs' = [runs EXCEPT ![cur[w]] = @ + 1]
  BY DEF Busy, Goto, Only, TypeOK, ProcType
<1>2. ASSUME NEW q \in QNames, NEW j \in JobIds
      PROVE  Cardinality(Occ(results[q], j)') + One(w \in Posters(q, j)') + runs[j]
               <= Cardinality(Occ(results[q], j)) + One(w \in Posters(q, j)) + runs'[j]
  <2>1. runs'[j] = runs[j] + (IF cur[w] = j THEN 1 ELSE 0) /\ runs[j] \in Nat
    BY <1>1 DEF TypeOK, HistoryType
  <2>2. w \notin Posters(q, j) /\ (w \in Posters(q, j)' <=> cur[w] = j)
    BY <1>1 DEF Posters
  <2>3. One(w \in Posters(q, j)') = (IF cur[w] = j THEN 1 ELSE 0) /\ One(w \in Posters(q, j)) = 0
    BY <2>2 DEF One
  <2>4. Cardinality(Occ(results[q], j)) \in Nat
    BY OccFinite DEF TypeOK, StoreType
  <2>5. Occ(results[q], j)' = Occ(results[q], j)
    BY <1>1
  <2> QED BY <2>1, <2>3, <2>4, <2>5
<1> QED BY <1>1, <1>2, PostStep

(* queue_results: one result more on q, and none to come there.            *)
LEMMA PostPost ==
    ASSUME TypeOK, TypeOK', PostInv, NEW w \in Workers, NEW p \in QNames, Post(w, p)
    PROVE  PostInv'
<1>1. /\ Only(w) /\ pc[w] = "post" /\ p \in posts[w] /\ posts'[w] = posts[w] \ {p}
      /\ UNCHANGED <<pc, cur, runs>> /\ results' = [results EXCEPT ![p] = Append(@, cur[w])]
  BY DEF Post, Only, TypeOK, ProcType, hvars
<1>2. cur[w] \in JobIds
  BY <1>1 DEF TypeOK, ProcType
<1>3. ASSUME NEW q \in QNames, NEW j \in JobIds
      PROVE  Cardinality(Occ(results[q], j)') + One(w \in Posters(q, j)') + runs[j]
               <= Cardinality(Occ(results[q], j)) + One(w \in Posters(q, j)) + runs'[j]
  <2>1. runs'[j] = runs[j] /\ runs[j] \in Nat /\ results[q] \in Seq(JobIds) /\ Cardinality(Occ(results[q], j)) \in Nat
    BY <1>1, OccFinite DEF TypeOK, StoreType, HistoryType
  <2>2. CASE q # p \/ cur[w] # j
    <3>1. Cardinality(Occ(results[q], j)') = Cardinality(Occ(results[q], j))
      <4>1. CASE q # p
        BY <1>1, <4>1 DEF TypeOK, StoreType
      <4>2. CASE q = p
        <5>1. results'[q] = Append(results[q], cur[w])
          BY <1>1, <4>2 DEF TypeOK, StoreType
        <5>2. Cardinality(Occ(Append(results[q], cur[w]), j)) = Cardinality(Occ(results[q], j)) + 0
          BY <1>2, <2>1, <2>2, <4>2, OccAppend
        <5> QED BY <2>1, <5>1, <5>2
      <4> QED BY <4>1, <4>2
    <3>2. w \in Posters(q, j)' => w \in Posters(q, j)
      BY <1>1 DEF Posters
    <3>3. One(w \in Posters(q, j)') <= One(w \in Posters(q, j)) /\ One(w \in Posters(q, j)') \in Nat /\ One(w \in Posters(q, j)) \in Nat
      BY <3>2 DEF One
    <3> QED BY <2>1, <3>1, <3>3
  <2>3. CASE q = p /\ cur[w] = j
    <3>1. results'[q] = Append(results[q], cur[w])
      BY <1>1, <2>3 DEF TypeOK, StoreType
    <3>2. Cardinality(Occ(Append(results[q], cur[w]), j)) = Cardinality(Occ(results[q], j)) + 1
      BY <1>2, <2>1, <2>3, OccAppend
    <3>3. w \notin Posters(q, j)' /\ w \in Posters(q, j)
      BY <1>1, <2>3 DEF Posters
    <3>4. One(w \in Posters(q, j)') = 0 /\ One(w \in Posters(q, j)) = 1
      BY <3>3 DEF One
    <3> QED BY <2>1, <3>1, <3>2, <3>4
  <2> QED BY <2>2, <2>3
<1> QED BY <1>1, <1>3, PostStep

(* The other steps execute nothing and post nothing.                       *)
LEMMA PostQuiet ==
    ASSUME TypeOK, TypeOK', PostInv, NEW w \in Workers,
           \/ ProcStart(w) \/ Get(w) \/ Reload(w) \/ Idle(w) \/ Load(w) \/ CheckDep(w) \/ Relaunch(w) \/ Skip(w)
           \/ RunOk(w) \/ RunError(w) \/ RunTimeout(w) \/ Again(w) \/ ParentStep(w) \/ Crash(w)
    PROVE  PostInv'
<1>1. ASSUME \E where : End(w, where), UNCHANGED results PROVE PostInv'
  <2>1. Only(w) /\ cur'[w] = NoId /\ UNCHANGED runs
    BY <1>1, EndEffect
  <2>2. \A q \in QNames, j \in JobIds : w \notin Posters(q, j)'
    BY <2>1 DEF Posters, NoId, JobIds
  <2> QED BY <1>1, <2>1, <2>2, PostLess
<1>2. ASSUME Only(w), pc'[w] \notin {"run", "post"}, UNCHANGED <<results, runs>> PROVE PostInv'
  BY <1>2, PostLess DEF Posters
<1>3. CASE ProcStart(w) \/ Get(w) \/ Idle(w) \/ Skip(w) \/ Again(w)
  <2>1. UNCHANGED <<results, runs>>
    BY <1>3 DEF ProcStart, Get, Idle, Skip, Again, hvars
  <2>2. Only(w) /\ pc'[w] \in {"get", "reload"}
    BY <1>3, LeaveEffect DEF ProcStart, Get, Idle, Skip, Again, Goto, Only, TypeOK, ProcType, locals
  <2> QED BY <1>2, <2>1, <2>2
<1>4. CASE Reload(w) \/ Load(w)
  <2>1. UNCHANGED results
    BY <1>4 DEF Reload, Load
  <2>2. CASE ~\E where : End(w, where)
    <3>1. Only(w) /\ pc'[w] \in {"idle", "load", "deps"} /\ UNCHANGED runs
      BY <1>4, <2>2 DEF Reload, Load, Goto, Only, TypeOK, ProcType, hvars
    <3> QED BY <1>2, <2>1, <3>1
  <2> QED BY <1>1, <2>1, <2>2
<1>5. CASE CheckDep(w) \/ Relaunch(w)
  <2>1. UNCHANGED results
    BY <1>5 DEF CheckDep, Relaunch
  <2>2. CASE ~\E where : End(w, where)
    <3>1. CASE CheckDep(w)
      <4>1. Only(w) /\ pc[w] = "deps" /\ UNCHANGED <<pc, runs>>
        BY <2>2, <3>1 DEF CheckDep, DepFailed, DepPending, DepDone, Only, TypeOK, ProcType, hvars
      <4> QED BY <1>2, <2>1, <4>1
    <3>2. CASE Relaunch(w)
      BY <1>2, <2>1, <2>2, <3>2, LeaveEffect DEF Relaunch
    <3> QED BY <1>5, <3>1, <3>2
  <2> QED BY <1>1, <2>1, <2>2
<1>6. CASE RunOk(w) \/ RunError(w) \/ RunTimeout(w)
  <2>1. PICK rec \in JobRec : Outcome(w, rec)
    BY <1>6, RunType
  <2>2. UNCHANGED results /\ pc[w] = "run"
    BY <2>1, OutcomeEffect
  <2>3. CASE ~End(w, "dead")
    <3>1. Only(w) /\ pc'[w] = "post" /\ UNCHANGED <<cur, runs>>
      BY <2>1, <2>3, OutcomeEffect
    <3> QED BY <2>2, <3>1, PostLess DEF Posters
  <2> QED BY <1>1, <2>2, <2>3
<1>7. CASE ParentStep(w) \/ Crash(w)
  <2>1. UNCHANGED results
    BY <1>7 DEF ParentStep, WorkersLoad, SoftStop, HardStop, Restart, TmuxStart, StateUpdate, WorkersCheck, Crash
  <2>2. (\E where : End(w, where)) \/ UNCHANGED <<pc, locals, hvars>>
    BY <1>7 DEF ParentStep, WorkersLoad, SoftStop, HardStop, Restart, TmuxStart, StateUpdate, WorkersCheck, Crash, wvars
  <2>3. CASE UNCHANGED <<pc, locals, hvars>>
    BY <2>1, <2>3, PostLess DEF Posters, Only, locals, hvars
  <2> QED BY <1>1, <2>1, <2>2, <2>3
<1> QED BY <1>3, <1>4, <1>5, <1>6, <1>7

(* The invariant holds initially and every step keeps it.                  *)
LEMMA PostInductive == Spec => []PostInv
<1>1. Init => PostInv
  <2> SUFFICES ASSUME Init, NEW q \in QNames, NEW j \in JobIds
               PROVE  /\ IsFiniteSet(Posters(q, j))
                      /\ Cardinality(Occ(results[q], j)) + Cardinality(Posters(q, j)) <= runs[j]
    BY DEF PostInv
  <2>1. Posters(q, j) = {}
    BY DEF Init, Posters
  <2>2. Occ(results[q], j) = {} /\ runs[j] = 0
    BY DEF Init, Occ
  <2> QED BY <2>1, <2>2, FS_EmptySet
<1>2. TypeOK /\ TypeOK' /\ PostInv /\ [Next]_vars => PostInv'
  <2> SUFFICES ASSUME TypeOK, TypeOK', PostInv, [Next]_vars PROVE PostInv'
    OBVIOUS
  <2>1. CASE UNCHANGED <<pc, cur, posts, results, runs>>
    BY <2>1 DEF PostInv, Posters, Occ
  <2>2. CASE UNCHANGED vars
    BY <2>1, <2>2 DEF vars, wvars, locals, hvars
  <2>3. CASE ClientStep
    <3>1. UNCHANGED <<pc, cur, posts, results, runs>>
      BY <2>3 DEF ClientStep, ScheduleDelete, ScheduleNew, ScheduleSave, SchedulePut, ScheduleEnd, Abandon,
                    Start, CheckLoad, CheckReady, Answer, wvars, locals, hvars
    <3> QED BY <2>1, <3>1
  <2>4. ASSUME NEW w \in Workers, WorkerStep(w) \/ ParentStep(w) \/ Crash(w) PROVE PostInv'
    <3>1. CASE Busy(w) \/ \E q \in QNames : Post(w, q)
      BY <3>1, PostBusy, PostPost
    <3>2. CASE ~(Busy(w) \/ \E q \in QNames : Post(w, q))
      BY <2>4, <3>2, PostQuiet DEF WorkerStep
    <3> QED BY <3>1, <3>2
  <2> QED BY <2>2, <2>3, <2>4 DEF Next
<1> QED BY <1>1, <1>2, TypeCorrect, PTL DEF Spec

(* A return queue gets at most one result per execution of the job, for    *)
(* any number of workers, restarts and return queues (queue_results in     *)
(* MyWorkerProcess.start).                                                 *)
THEOREM OneResultPerRun == Spec => []PostedOncePerRun
<1>1. TypeOK /\ PostInv => PostedOncePerRun
  <2> SUFFICES ASSUME TypeOK, PostInv, NEW q \in QNames, NEW j \in JobIds
               PROVE  Cardinality(Occ(results[q], j)) <= runs[j]
    BY DEF PostedOncePerRun, Occ
  <2>1. results[q] \in Seq(JobIds) /\ runs[j] \in Nat /\ IsFiniteSet(Posters(q, j))
    BY DEF TypeOK, StoreType, HistoryType, PostInv
  <2>2. Cardinality(Occ(results[q], j)) \in Nat /\ Cardinality(Posters(q, j)) \in Nat
    BY <2>1, OccFinite, FS_CardinalityType
  <2>3. Cardinality(Occ(results[q], j)) + Cardinality(Posters(q, j)) <= runs[j]
    BY DEF PostInv
  <2> QED BY <2>1, <2>2, <2>3
<1> QED BY <1>1, TypeCorrect, PostInductive, PTL
=============================================================================
