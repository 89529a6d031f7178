---------------------------- MODULE MyJobsProofs ----------------------------
(* Proofs about MyJobs, for any set of workers, clients, names and return  *)
(* queues, any number of jobs, faults and restarts.                        *)
EXTENDS MyJobs, TLAPS

(* The freshly started system is well-typed.                                *)
LEMMA InitType == Init => TypeOK
  BY BoundsAssumption, InputsAssumption
  DEF Init, TypeOK, StoreType, ProcType, OthersType, HistoryType, JobIds, NoId, JobRec, JobState,
      NewJob, BlankJob, Away, Waiting, WorkerRec, ProcStates

(* The records that the actions build are well-typed.                      *)
LEMMA RecordTypes ==
    /\ BlankJob \in JobRec
    /\ Halted \in WorkerRec
    /\ \A r \in JobRec, t \in BOOLEAN : [r EXCEPT !.timeout = @ \/ t] \in JobRec
    /\ \A h \in BOOLEAN : Waiting(h) \in WorkerRec
    /\ \A r \in JobRec : r.name \in Names \cup JobIds \cup {NoId} /\ r.deps \subseteq JobIds /\ r.rqs \subseteq QNames
    /\ \A r \in JobRec, s \in JobState : [r EXCEPT !.state = s] \in JobRec
    /\ \A r \in JobRec, s \in JobState : [r EXCEPT !.state = s, !.stopped = TRUE] \in JobRec
    /\ \A r \in JobRec, e \in {"NA", "TIMEOUT", "ERROR"} : [r EXCEPT !.error_cat = e] \in JobRec
    /\ \A r \in JobRec : [r EXCEPT !.state = "ERROR", !.stopped = TRUE, !.error_cat = "TIMEOUT"] \in JobRec
    /\ \A r \in WorkerRec : r.halt \in BOOLEAN /\ [r EXCEPT !.halt = TRUE] \in WorkerRec
    /\ \A r \in WorkerRec : [r EXCEPT !.state = "NEW"] \in WorkerRec /\ [r EXCEPT !.state = "ERROR"] \in WorkerRec
    /\ \A r \in WorkerRec, j \in JobIds : [r EXCEPT !.state = "BUSY", !.current_job = j] \in WorkerRec
  BY DEF BlankJob, Halted, Waiting, JobRec, JobState, WorkerRec, NewJob, JobIds, NoId

(* Leaving the loop body resets the locals of one worker.                  *)
LEMMA LeaveType ==
    ASSUME ProcType, wrec' \in [Workers -> WorkerRec], NEW w \in Workers,
           NEW where \in {"get", "dead", "down", "halted", "boot"}, Leave(w, where)
    PROVE  ProcType'
  BY RecordTypes DEF ProcType, Leave, Goto, NoId, ProcStates

(* A process that ends keeps the types.                                    *)
LEMMA EndType ==
    ASSUME TypeOK, wrec' \in [Workers -> WorkerRec], NEW w \in Workers,
           NEW where \in {"get", "dead", "down", "halted", "boot"}, End(w, where)
    PROVE  /\ ProcType'
           /\ completed' = completed /\ finished' = finished /\ runs' = runs
           /\ dropped' \subseteq JobIds
<1>1. ProcType'
  BY LeaveType DEF End, TypeOK
<1>2. completed' = completed /\ finished' = finished /\ runs' = runs
  BY DEF End, Drop
<1>3. dropped' \subseteq JobIds
  BY DEF End, Drop, Held, TypeOK, ProcType, HistoryType, NoId, JobIds
<1> QED BY <1>1, <1>2, <1>3

(* Saving a well-typed record keeps the store well-typed.                  *)
LEMMA WriteType ==
    ASSUME TypeOK, NEW id \in JobIds, NEW rec \in JobRec, Write(id, rec)
    PROVE  stored' \subseteq JobIds /\ jobs' \in [JobIds -> JobRec]
  BY DEF Write, TypeOK, StoreType

(* Likewise when nothing else of the store changes.                        *)
LEMMA SaveType ==
    ASSUME TypeOK, NEW id \in JobIds, NEW rec \in JobRec, Save(id, rec)
    PROVE  /\ stored' \subseteq JobIds /\ jobs' \in [JobIds -> JobRec] /\ nextId' \in 1..(MaxJobs + 1)
           /\ making' \subseteq JobIds /\ draft' \in [JobIds -> JobRec]
  BY WriteType DEF Save, TypeOK, StoreType

-----------------------------------------------------------------------------
(* One lemma per action: it preserves TypeOK.                              *)
LEMMA ScheduleDeleteType == ASSUME TypeOK, NEW n \in Names, ScheduleDelete(n) PROVE TypeOK'
<1>1. StoreType'
  BY DEF ScheduleDelete, TypeOK, StoreType
<1>2. ProcType' /\ OthersType' /\ HistoryType'
  BY DEF ScheduleDelete, TypeOK, ProcType, OthersType, HistoryType, wvars, locals, pvars, hvars
<1> QED BY <1>1, <1>2 DEF TypeOK

(* schedule() saves a well-typed record and keeps it as its draft.         *)
LEMMA ScheduleNewType ==
    ASSUME TypeOK, NEW n \in Names \cup JobIds, NEW D \in SUBSET JobIds, NEW Q \in SUBSET QNames,
           ScheduleNew(n, D, Q)
    PROVE  TypeOK'
<1>1. NewJob(n, D, Q, FALSE) \in JobRec
  BY DEF NewJob, JobRec, JobState
<1>2. StoreType'
  <2>1. stored' \subseteq JobIds /\ jobs' \in [JobIds -> JobRec]
    BY <1>1, WriteType DEF ScheduleNew
  <2>2. nextId' \in 1..(MaxJobs + 1)
    BY BoundsAssumption DEF ScheduleNew, JobIds
  <2>3. making' \subseteq JobIds /\ draft' \in [JobIds -> JobRec]
    BY <1>1 DEF ScheduleNew, TypeOK, StoreType
  <2>4. queue' \in Seq(JobIds) /\ results' \in [QNames -> Seq(JobIds)]
    BY DEF ScheduleNew, TypeOK, StoreType
  <2> QED BY <2>1, <2>2, <2>3, <2>4 DEF StoreType
<1>3. ProcType' /\ OthersType' /\ HistoryType'
  BY DEF ScheduleNew, TypeOK, ProcType, OthersType, HistoryType, wvars, locals, pvars, hvars
<1> QED BY <1>2, <1>3 DEF TypeOK

(* A schedule() that is given up leaves no draft behind.                   *)
LEMMA AbandonType ==
    ASSUME TypeOK, NEW j \in JobIds, Abandon(j), UNCHANGED <<queue, wvars, results, cl, pvars, starts>>,
           faults' \in 0..MaxFaults
    PROVE  TypeOK'
<1>1. StoreType'
  BY RecordTypes DEF Abandon, Release, TypeOK, StoreType
<1>2. HistoryType'
  BY DEF Abandon, TypeOK, HistoryType
<1>3. ProcType' /\ OthersType'
  BY DEF TypeOK, ProcType, OthersType, wvars, locals, pvars
<1> QED BY <1>1, <1>2, <1>3 DEF TypeOK

(* The autosaves of schedule() write a well-typed draft.                   *)
LEMMA ScheduleSaveType ==
    ASSUME TypeOK, NEW j \in JobIds, NEW t \in BOOLEAN, ScheduleSave(j, t)
    PROVE  TypeOK'
<1> DEFINE rec == [draft[j] EXCEPT !.timeout = @ \/ t]
<1>1. rec \in JobRec
  BY RecordTypes DEF TypeOK, StoreType
<1>2. UNCHANGED <<queue, wvars, results, cl, pvars, starts, faults>>
  BY DEF ScheduleSave
<1>3. CASE Abandon(j)
  BY <1>2, <1>3, AbandonType DEF TypeOK, HistoryType
<1>4. CASE /\ Write(j, rec) /\ draft' = [draft EXCEPT ![j] = rec] /\ finished' = finished \ {j}
           /\ UNCHANGED <<nextId, making, completed, dropped, runs>>
  <2> HIDE DEF rec
  <2>1. StoreType'
    BY <1>1, <1>2, <1>4, WriteType DEF TypeOK, StoreType
  <2>2. HistoryType'
    BY <1>2, <1>4 DEF TypeOK, HistoryType
  <2>3. ProcType' /\ OthersType'
    BY <1>2 DEF TypeOK, ProcType, OthersType, wvars, locals, pvars
  <2> QED BY <2>1, <2>2, <2>3 DEF TypeOK
<1> QED BY <1>3, <1>4 DEF ScheduleSave

(* The put adds a known id to the queue.                                    *)
LEMMA SchedulePutType == ASSUME TypeOK, NEW j \in JobIds, SchedulePut(j) PROVE TypeOK'
<1>1. StoreType'
  <2>1. queue' \in Seq(JobIds)
    BY DEF SchedulePut, TypeOK, StoreType
  <2>2. making' \subseteq JobIds /\ draft' \in [JobIds -> JobRec]
    BY RecordTypes DEF SchedulePut, Release, TypeOK, StoreType
  <2> QED BY <2>1, <2>2 DEF SchedulePut, TypeOK, StoreType
<1>2. ProcType' /\ OthersType' /\ HistoryType'
  BY DEF SchedulePut, TypeOK, ProcType, OthersType, HistoryType, wvars, locals, pvars, hvars
<1> QED BY <1>1, <1>2 DEF TypeOK

(* A client that dies in schedule() is one fault.                           *)
LEMMA ScheduleEndType == ASSUME TypeOK, NEW j \in JobIds, ScheduleEnd(j) PROVE TypeOK'
<1>1. faults' \in 0..MaxFaults
  BY BoundsAssumption DEF ScheduleEnd, TypeOK, HistoryType
<1> QED BY <1>1, AbandonType DEF ScheduleEnd

(* MyJob.start() puts a known id on the queue.                              *)
LEMMA StartType == ASSUME TypeOK, NEW j \in JobIds, Start(j) PROVE TypeOK'
<1>1. StoreType'
  BY DEF Start, TypeOK, StoreType, jvars
<1>2. HistoryType'
  BY BoundsAssumption DEF Start, TypeOK, HistoryType, hvars
<1>3. ProcType' /\ OthersType'
  BY DEF Start, TypeOK, ProcType, OthersType, wvars, locals, pvars
<1> QED BY <1>1, <1>2, <1>3 DEF TypeOK

(* A waiter loads a well-typed copy.                                        *)
LEMMA CheckLoadType == ASSUME TypeOK, NEW c \in Clients, NEW j \in JobIds, CheckLoad(c, j) PROVE TypeOK'
<1>1. OthersType'
  BY DEF CheckLoad, TypeOK, StoreType, OthersType, pvars
<1>2. StoreType' /\ ProcType' /\ HistoryType'
  BY DEF CheckLoad, TypeOK, StoreType, ProcType, HistoryType, jvars, wvars, locals, hvars
<1> QED BY <1>1, <1>2 DEF TypeOK

(* A waiter's save writes back a well-typed copy.                           *)
LEMMA AnswerType ==
    ASSUME TypeOK, NEW c \in Clients, cl[c].pc = "loaded", NEW rec \in JobRec, NEW ready \in BOOLEAN,
           Answer(c, rec, ready)
    PROVE  TypeOK'
<1>1. cl[c].id \in JobIds
  BY DEF TypeOK, OthersType
<1>2. StoreType'
  BY <1>1, SaveType DEF Answer, TypeOK, StoreType, jvars
<1>3. OthersType'
  BY <1>1, RecordTypes DEF Answer, TypeOK, OthersType, pvars, Away
<1>4. ProcType' /\ HistoryType'
  BY DEF Answer, TypeOK, ProcType, HistoryType, wvars, locals, hvars
<1> QED BY <1>2, <1>3, <1>4 DEF TypeOK

(* check_ready(): every answer it gives is one of AnswerType.               *)
LEMMA CheckReadyType == ASSUME TypeOK, NEW c \in Clients, CheckReady(c) PROVE TypeOK'
<1> DEFINE job == cl[c].copy
<1>1. job \in JobRec /\ job.stopped \in BOOLEAN
  BY DEF TypeOK, OthersType, JobRec
<1>2. [job EXCEPT !.error_cat = "ERROR"] \in JobRec /\ [job EXCEPT !.error_cat = "TIMEOUT"] \in JobRec
  BY <1>1, RecordTypes
<1>3. cl[c].pc = "loaded"
  BY DEF CheckReady
<1>4. \E rec \in JobRec, ready \in BOOLEAN : Answer(c, rec, ready)
  BY <1>1, <1>2 DEF CheckReady
<1> QED BY <1>3, <1>4, AnswerType

(* A booting worker process sets up a well-typed record.                    *)
LEMMA ProcStartType == ASSUME TypeOK, NEW w \in Workers, ProcStart(w) PROVE TypeOK'
<1>1. ProcType'
  BY RecordTypes DEF ProcStart, TypeOK, ProcType, Goto, ProcStates, locals
<1>2. StoreType' /\ OthersType' /\ HistoryType'
  BY DEF ProcStart, TypeOK, StoreType, OthersType, HistoryType, jvars, pvars, hvars
<1> QED BY <1>1, <1>2 DEF TypeOK

(* The pop leaves a queue of ids and one id in hand.                        *)
LEMMA GetType == ASSUME TypeOK, NEW w \in Workers, Get(w) PROVE TypeOK'
<1>1. queue # <<>> => Head(queue) \in JobIds /\ Tail(queue) \in Seq(JobIds)
  BY DEF TypeOK, StoreType
<1>2. ProcType'
  BY <1>1 DEF Get, TypeOK, ProcType, Goto, ProcStates
<1>3. StoreType'
  BY <1>1 DEF Get, TypeOK, StoreType, jvars
<1>4. OthersType' /\ HistoryType'
  BY DEF Get, TypeOK, OthersType, HistoryType, pvars, hvars
<1> QED BY <1>2, <1>3, <1>4 DEF TypeOK

(* The reload either obeys halt or goes on with the id in hand.             *)
LEMMA ReloadType == ASSUME TypeOK, NEW w \in Workers, Reload(w) PROVE TypeOK'
<1>1. StoreType' /\ OthersType' /\ wrec' = wrec
  BY DEF Reload, TypeOK, StoreType, OthersType, jvars, pvars
<1>2. CASE wrec[w].halt
  <2>1. End(w, "halted")
    BY <1>2 DEF Reload
  <2>2. ProcType' /\ HistoryType'
    BY <2>1, <1>1, EndType DEF TypeOK, ProcType, HistoryType, Reload
  <2> QED BY <1>1, <2>2 DEF TypeOK
<1>3. CASE ~wrec[w].halt
  <2>1. ProcType'
    BY <1>3 DEF Reload, TypeOK, ProcType, Goto, ProcStates
  <2>2. HistoryType'
    BY <1>3 DEF Reload, TypeOK, HistoryType, hvars
  <2> QED BY <1>1, <2>1, <2>2 DEF TypeOK
<1> QED BY <1>2, <1>3

(* _state_set writes a well-typed worker record.                            *)
LEMMA StateSetType == ASSUME TypeOK, NEW w \in Workers, StateSet(w) PROVE wrec' \in [Workers -> WorkerRec]
  BY RecordTypes DEF StateSet, TypeOK, ProcType

(* An empty queue only touches the worker record.                           *)
LEMMA IdleType == ASSUME TypeOK, NEW w \in Workers, Idle(w) PROVE TypeOK'
<1>1. wrec' \in [Workers -> WorkerRec]
  BY StateSetType DEF Idle, TypeOK, ProcType
<1>2. ProcType'
  BY <1>1, LeaveType DEF Idle, TypeOK
<1>3. StoreType' /\ OthersType' /\ HistoryType'
  BY DEF Idle, TypeOK, StoreType, OthersType, HistoryType, jvars, pvars, hvars
<1> QED BY <1>2, <1>3 DEF TypeOK

(* The worker's copy of its job is the stored record.                       *)
LEMMA LoadType == ASSUME TypeOK, NEW w \in Workers, Load(w) PROVE TypeOK'
<1>1. StoreType' /\ OthersType' /\ wrec' = wrec
  BY DEF Load, TypeOK, StoreType, OthersType, jvars, pvars
<1>2. CASE cur[w] \in stored
  <2>1. cur[w] \in JobIds /\ jobs[cur[w]] \in JobRec /\ jobs[cur[w]].deps \subseteq JobIds
    BY <1>2, RecordTypes DEF TypeOK, StoreType
  <2>2. ProcType'
    BY <1>2, <2>1 DEF Load, TypeOK, ProcType, Goto, ProcStates
  <2>3. HistoryType'
    BY <1>2 DEF Load, TypeOK, HistoryType, hvars
  <2> QED BY <1>1, <2>2, <2>3 DEF TypeOK
<1>3. CASE cur[w] \notin stored
  <2>1. End(w, "get")
    BY <1>3 DEF Load
  <2>2. ProcType' /\ HistoryType'
    BY <2>1, <1>1, EndType DEF TypeOK, ProcType, HistoryType, Load
  <2> QED BY <1>1, <2>2 DEF TypeOK
<1> QED BY <1>2, <1>3

(* A worker that holds a job may save a record of it, or die trying.       *)
LEMMA CheckDepType == ASSUME TypeOK, NEW w \in Workers, CheckDep(w) PROVE TypeOK'
<1>1. PICK d \in todo[w] :
         \/ d \in stored /\ (DepFailed(w, d) \/ DepPending(w, d) \/ DepDone(w, d))
         \/ d \notin stored /\ End(w, "dead") /\ UNCHANGED jvars
  BY DEF CheckDep
<1>2. OthersType' /\ wrec' = wrec /\ queue' = queue /\ results' = results /\ starts' = starts /\ faults' = faults
  BY DEF CheckDep, TypeOK, OthersType, pvars
<1>3. cur[w] \in JobIds /\ copy[w] \in JobRec /\ pc[w] = "deps"
  BY DEF CheckDep, TypeOK, ProcType
<1>4. CASE End(w, "dead") /\ UNCHANGED jvars
  <2>1. ProcType' /\ HistoryType'
    BY <1>2, <1>4, EndType DEF TypeOK, ProcType, HistoryType
  <2>2. StoreType'
    BY <1>2, <1>4 DEF TypeOK, StoreType, jvars
  <2> QED BY <1>2, <2>1, <2>2 DEF TypeOK
<1>5. CASE DepFailed(w, d) /\ ~(End(w, "dead") /\ UNCHANGED jvars)
  <2> DEFINE rec == [copy[w] EXCEPT !.state = "ERROR", !.stopped = TRUE]
  <2>1. rec \in JobRec
    BY <1>3, RecordTypes DEF JobState
  <2>2. Save(cur[w], rec)
    BY <1>5 DEF DepFailed
  <2>3. StoreType'
    BY <1>2, <1>3, <2>1, <2>2, SaveType DEF TypeOK, StoreType
  <2>4. ProcType'
    <3>1. /\ copy' = [copy EXCEPT ![w] = rec] /\ skip' = [skip EXCEPT ![w] = TRUE]
          /\ todo' = [todo EXCEPT ![w] = @ \ {d}] /\ UNCHANGED <<pc, cur, wobj, relaunch, posts>>
      BY <1>5 DEF DepFailed
    <3> HIDE DEF rec
    <3> QED BY <1>2, <2>1, <3>1 DEF TypeOK, ProcType
  <2>5. HistoryType'
    BY <1>2, <1>3, <1>5 DEF DepFailed, TypeOK, HistoryType
  <2> QED BY <1>2, <2>3, <2>4, <2>5 DEF TypeOK
<1>6. CASE DepPending(w, d)
  <2>1. ProcType'
    BY <1>2, <1>6 DEF DepPending, TypeOK, ProcType
  <2>2. StoreType' /\ HistoryType'
    BY <1>2, <1>6 DEF DepPending, TypeOK, StoreType, HistoryType, jvars, hvars
  <2> QED BY <1>2, <2>1, <2>2 DEF TypeOK
<1>7. CASE DepDone(w, d)
  <2>1. ProcType'
    BY <1>2, <1>7 DEF DepDone, TypeOK, ProcType
  <2>2. StoreType' /\ HistoryType'
    BY <1>2, <1>7 DEF DepDone, TypeOK, StoreType, HistoryType, jvars, hvars
  <2> QED BY <1>2, <2>1, <2>2 DEF TypeOK
<1> QED BY <1>1, <1>4, <1>5, <1>6, <1>7

(* Relaunching writes state NEW and puts the id back.                       *)
LEMMA RelaunchType == ASSUME TypeOK, NEW w \in Workers, Relaunch(w) PROVE TypeOK'
<1> DEFINE rec == [copy[w] EXCEPT !.state = "NEW"]
<1>1. cur[w] \in JobIds /\ copy[w] \in JobRec
  BY DEF Relaunch, TypeOK, ProcType
<1>2. OthersType' /\ wrec' = wrec /\ results' = results /\ starts' = starts /\ faults' = faults
  BY DEF Relaunch, TypeOK, OthersType, pvars
<1>3. CASE End(w, "dead") /\ UNCHANGED <<jvars, queue>>
  <2>1. ProcType' /\ HistoryType'
    BY <1>2, <1>3, EndType DEF TypeOK, ProcType, HistoryType
  <2>2. StoreType'
    BY <1>2, <1>3 DEF TypeOK, StoreType, jvars
  <2> QED BY <1>2, <2>1, <2>2 DEF TypeOK
<1>4. CASE /\ Save(cur[w], rec) /\ queue' = Append(queue, cur[w]) /\ finished' = finished \ {cur[w]}
           /\ Leave(w, "get") /\ UNCHANGED <<completed, dropped, runs>>
  <2>1. rec \in JobRec
    BY <1>1, RecordTypes DEF JobState
  <2>2. StoreType'
    <3>1. /\ stored' \subseteq JobIds /\ jobs' \in [JobIds -> JobRec] /\ nextId' \in 1..(MaxJobs + 1)
          /\ making' \subseteq JobIds /\ draft' \in [JobIds -> JobRec]
      BY <1>1, <1>4, <2>1, SaveType
    <3>2. queue' \in Seq(JobIds)
      BY <1>1, <1>4 DEF TypeOK, StoreType
    <3> QED BY <1>2, <3>1, <3>2 DEF TypeOK, StoreType
  <2>3. ProcType'
    BY <1>2, <1>4, LeaveType DEF TypeOK, ProcType
  <2>4. HistoryType'
    BY <1>2, <1>4 DEF TypeOK, HistoryType
  <2> QED BY <1>2, <2>2, <2>3, <2>4 DEF TypeOK
<1> QED BY <1>3, <1>4 DEF Relaunch

(* A skipped job leaves the loop body.                                      *)
LEMMA SkipType == ASSUME TypeOK, NEW w \in Workers, Skip(w) PROVE TypeOK'
<1>1. ProcType'
  BY LeaveType DEF Skip, TypeOK, ProcType
<1>2. StoreType' /\ OthersType' /\ HistoryType'
  BY DEF Skip, TypeOK, StoreType, OthersType, HistoryType, jvars, pvars, hvars
<1> QED BY <1>1, <1>2 DEF TypeOK

(* The worker reports the job that it is about to run.                      *)
LEMMA BusyType == ASSUME TypeOK, NEW w \in Workers, Busy(w) PROVE TypeOK'
<1> DEFINE rec == [wobj[w] EXCEPT !.state = "BUSY", !.current_job = cur[w]]
<1>1. cur[w] \in JobIds
  BY DEF Busy, TypeOK, ProcType
<1>2. rec \in WorkerRec
  BY <1>1, RecordTypes DEF TypeOK, ProcType
<1>3. /\ wobj' = [wobj EXCEPT ![w] = rec] /\ wrec' = [wrec EXCEPT ![w] = rec]
      /\ pc' = [pc EXCEPT ![w] = "run"]
      /\ UNCHANGED <<cur, copy, todo, skip, relaunch, posts>>
  BY DEF Busy, Goto
<1> HIDE DEF rec
<1>4. ProcType'
  BY <1>1, <1>2, <1>3 DEF TypeOK, ProcType, ProcStates
<1>5. HistoryType'
  BY <1>1 DEF Busy, TypeOK, HistoryType
<1>6. StoreType' /\ OthersType'
  BY DEF Busy, TypeOK, StoreType, OthersType, jvars, pvars
<1> QED BY <1>4, <1>5, <1>6 DEF TypeOK

(* Every outcome that is saved is a well-typed record.                      *)
LEMMA OutcomeType ==
    ASSUME TypeOK, NEW w \in Workers, NEW rec \in JobRec, Outcome(w, rec)
    PROVE  TypeOK'
<1>1. cur[w] \in JobIds /\ copy[w] \in JobRec
  BY DEF Outcome, TypeOK, ProcType
<1>2. /\ OthersType' /\ wrec' = wrec /\ queue' = queue /\ results' = results
      /\ starts' = starts /\ faults' = faults
  BY DEF Outcome, TypeOK, OthersType, pvars
<1>3. CASE End(w, "dead") /\ UNCHANGED jvars
  <2>1. ProcType' /\ HistoryType'
    BY <1>2, <1>3, EndType DEF TypeOK, ProcType, HistoryType
  <2>2. StoreType'
    BY <1>2, <1>3 DEF TypeOK, StoreType, jvars
  <2> QED BY <1>2, <2>1, <2>2 DEF TypeOK
<1>4. CASE ~(End(w, "dead") /\ UNCHANGED jvars)
  <2>1. StoreType'
    BY <1>1, <1>2, <1>4, SaveType DEF Outcome, TypeOK, StoreType
  <2>2. rec.rqs \subseteq QNames
    BY RecordTypes
  <2>3. ProcType'
    BY <1>1, <1>2, <1>4, <2>2 DEF Outcome, TypeOK, ProcType, Goto, ProcStates
  <2>4. HistoryType'
    BY <1>1, <1>2, <1>4 DEF Outcome, TypeOK, HistoryType
  <2> QED BY <1>2, <2>1, <2>3, <2>4 DEF TypeOK
<1> QED BY <1>3, <1>4

(* The three ways a run ends are outcomes.                                  *)
LEMMA RunType ==
    ASSUME TypeOK, NEW w \in Workers, RunOk(w) \/ RunError(w) \/ RunTimeout(w)
    PROVE  \E rec \in JobRec : Outcome(w, rec)
<1>1. copy[w] \in JobRec
  BY DEF TypeOK, ProcType
<1>2. /\ [copy[w] EXCEPT !.state = "OK", !.stopped = TRUE] \in JobRec
      /\ [copy[w] EXCEPT !.state = "ERROR", !.stopped = TRUE] \in JobRec
      /\ [copy[w] EXCEPT !.state = "ERROR", !.stopped = TRUE, !.error_cat = "TIMEOUT"] \in JobRec
  BY <1>1, RecordTypes DEF JobState
<1> QED BY <1>2 DEF RunOk, RunError, RunTimeout

(* Results are posted as ids.                                               *)
LEMMA PostType == ASSUME TypeOK, NEW w \in Workers, NEW q \in QNames, Post(w, q) PROVE TypeOK'
<1>1. cur[w] \in JobIds
  BY DEF Post, TypeOK, ProcType
<1>2. StoreType'
  BY <1>1 DEF Post, TypeOK, StoreType, jvars
<1>3. ProcType'
  BY DEF Post, TypeOK, ProcType
<1>4. OthersType' /\ HistoryType'
  BY DEF Post, TypeOK, OthersType, HistoryType, pvars, hvars
<1> QED BY <1>2, <1>3, <1>4 DEF TypeOK

(* The loop starts again with no job in hand.                               *)
LEMMA AgainType == ASSUME TypeOK, NEW w \in Workers, Again(w) PROVE TypeOK'
<1>1. wrec' \in [Workers -> WorkerRec]
  BY StateSetType DEF Again, TypeOK, ProcType
<1>2. ProcType'
  BY <1>1, LeaveType DEF Again, TypeOK
<1>3. StoreType' /\ OthersType' /\ HistoryType'
  BY DEF Again, TypeOK, StoreType, OthersType, HistoryType, jvars, pvars, hvars
<1> QED BY <1>2, <1>3 DEF TypeOK

(* What the parent saves and the step it goes to are well-typed.           *)
LEMMA PutType ==
    ASSUME TypeOK, NEW w \in Workers, NEW rec \in WorkerRec, NEW next \in {"idle", "starting"},
           Put(w, rec, next), cl' = cl
    PROVE  wrec' \in [Workers -> WorkerRec] /\ OthersType'
  BY RecordTypes DEF Put, TypeOK, ProcType, OthersType

(* The fault budget stays within its bound.                                 *)
LEMMA FaultType == ASSUME TypeOK, Fault PROVE faults' \in 0..MaxFaults
  BY BoundsAssumption DEF Fault, TypeOK, HistoryType

(* Actions of the parent that leave the process alone: only its record     *)
(* and the count of faults change.                                         *)
LEMMA RecordOnlyType ==
    ASSUME TypeOK, wrec' \in [Workers -> WorkerRec], OthersType', faults' \in 0..MaxFaults,
           UNCHANGED <<jvars, queue, pc, locals, results, cl, hvars, starts>>
    PROVE  TypeOK'
<1>1. ProcType'
  BY DEF TypeOK, ProcType, locals
<1>2. StoreType' /\ HistoryType'
  BY DEF TypeOK, StoreType, HistoryType, jvars, hvars
<1> QED BY <1>1, <1>2 DEF TypeOK

(* Actions that end the process of w.                                      *)
LEMMA ProcEndType ==
    ASSUME TypeOK, wrec' \in [Workers -> WorkerRec], OthersType', faults' \in 0..MaxFaults,
           NEW w \in Workers, NEW where \in {"down", "dead", "boot"}, End(w, where),
           UNCHANGED <<jvars, queue, results, cl, starts>>
    PROVE  TypeOK'
<1>1. ProcType' /\ HistoryType'
  BY EndType DEF TypeOK, HistoryType
<1>2. StoreType'
  BY DEF TypeOK, StoreType, jvars
<1> QED BY <1>1, <1>2 DEF TypeOK

(* The parent loads well-typed worker records.                              *)
LEMMA WorkersLoadType == ASSUME TypeOK, NEW w \in Workers, WorkersLoad(w) PROVE TypeOK'
<1>1. OthersType'
  BY DEF WorkersLoad, TypeOK, ProcType, OthersType
<1>2. ProcType' /\ StoreType' /\ HistoryType'
  BY DEF WorkersLoad, TypeOK, ProcType, StoreType, HistoryType, jvars, wvars, locals, hvars
<1> QED BY <1>1, <1>2 DEF TypeOK

(* stop(hard=False) sets the halt flag of a record.                         *)
LEMMA SoftStopType == ASSUME TypeOK, NEW w \in Workers, SoftStop(w) PROVE TypeOK'
<1>1. [pobj[w] EXCEPT !.halt = TRUE] \in WorkerRec
  BY RecordTypes DEF TypeOK, OthersType
<1>2. wrec' \in [Workers -> WorkerRec] /\ OthersType' /\ faults' \in 0..MaxFaults
  BY <1>1, PutType, FaultType DEF SoftStop
<1> QED BY <1>2, RecordOnlyType DEF SoftStop

(* stop(hard=True) ends the process and writes HALTED.                      *)
LEMMA HardStopType == ASSUME TypeOK, NEW w \in Workers, HardStop(w) PROVE TypeOK'
<1>1. wrec' \in [Workers -> WorkerRec] /\ OthersType' /\ faults' \in 0..MaxFaults
  BY RecordTypes, PutType, FaultType DEF HardStop
<1> QED BY <1>1, ProcEndType DEF HardStop

(* The tmux loop restarts a process that died.                              *)
LEMMA RestartType == ASSUME TypeOK, NEW w \in Workers, Restart(w) PROVE TypeOK'
<1>1. wrec' \in [Workers -> WorkerRec] /\ OthersType' /\ faults' \in 0..MaxFaults
  BY RecordTypes, PutType, FaultType DEF Restart
<1> QED BY <1>1, ProcEndType DEF Restart

(* A new tmux process boots with no job in hand.                            *)
LEMMA TmuxStartType == ASSUME TypeOK, NEW w \in Workers, TmuxStart(w) PROVE TypeOK'
<1> DEFINE rec == IF pobj[w].state \in {"HALTED", "ERROR"} THEN [pobj[w] EXCEPT !.state = "NEW"] ELSE pobj[w]
<1>1. rec \in WorkerRec
  BY RecordTypes DEF TypeOK, OthersType
<1>2. Put(w, rec, "starting") /\ Fault /\ UNCHANGED <<jvars, queue, results, cl, starts>>
  BY DEF TmuxStart
<1>3. End(w, "boot") \/ UNCHANGED <<pc, locals, hvars>>
  BY DEF TmuxStart
<1> HIDE DEF rec
<1>4. wrec' \in [Workers -> WorkerRec] /\ OthersType' /\ faults' \in 0..MaxFaults
  BY <1>1, <1>2, PutType, FaultType
<1>5. CASE End(w, "boot")
  BY <1>2, <1>4, <1>5, ProcEndType
<1>6. CASE UNCHANGED <<pc, locals, hvars>>
  BY <1>2, <1>4, <1>6, RecordOnlyType
<1> QED BY <1>3, <1>5, <1>6

(* state_update writes the record WAITING.                                  *)
LEMMA StateUpdateType == ASSUME TypeOK, NEW w \in Workers, StateUpdate(w) PROVE TypeOK'
<1>1. Waiting(pobj[w].halt) \in WorkerRec
  BY RecordTypes DEF TypeOK, OthersType
<1>2. wrec' \in [Workers -> WorkerRec] /\ OthersType' /\ faults' \in 0..MaxFaults
  BY <1>1, PutType DEF StateUpdate, TypeOK, HistoryType
<1> QED BY <1>2, RecordOnlyType DEF StateUpdate

(* workers_check marks a silent worker as failed.                           *)
LEMMA WorkersCheckType == ASSUME TypeOK, NEW w \in Workers, WorkersCheck(w) PROVE TypeOK'
<1>1. [pobj[w] EXCEPT !.state = "ERROR"] \in WorkerRec
  BY RecordTypes DEF TypeOK, OthersType
<1>2. wrec' \in [Workers -> WorkerRec] /\ OthersType' /\ faults' \in 0..MaxFaults
  BY <1>1, PutType, FaultType DEF WorkersCheck
<1> QED BY <1>2, RecordOnlyType DEF WorkersCheck

(* A crash resets the locals of one worker.                                 *)
LEMMA CrashType == ASSUME TypeOK, NEW w \in Workers, Crash(w) PROVE TypeOK'
<1>1. wrec' \in [Workers -> WorkerRec] /\ OthersType' /\ faults' \in 0..MaxFaults
  BY FaultType DEF Crash, TypeOK, ProcType, OthersType, pvars
<1> QED BY <1>1, ProcEndType DEF Crash

-----------------------------------------------------------------------------
(* The state of the job system keeps its types, and a worker past the pop  *)
(* has a job id in hand (MyWorkerProcess.start).                           *)
THEOREM TypeCorrect == Spec => []TypeOK
<1>1. Init => TypeOK
  BY InitType
<1>2. TypeOK /\ [Next]_vars => TypeOK'
  <2> SUFFICES ASSUME TypeOK, [Next]_vars PROVE TypeOK'
    OBVIOUS
  <2>1. CASE UNCHANGED vars
    <3>1. StoreType' /\ ProcType'
      BY <2>1 DEF TypeOK, StoreType, ProcType, vars, jvars, wvars, locals
    <3>2. OthersType' /\ HistoryType'
      BY <2>1 DEF TypeOK, OthersType, HistoryType, vars, pvars, hvars
    <3> QED BY <3>1, <3>2 DEF TypeOK
  <2>2. CASE ClientStep
    BY <2>2, ScheduleDeleteType, ScheduleNewType, ScheduleSaveType, SchedulePutType, ScheduleEndType,
       StartType, CheckLoadType, CheckReadyType DEF ClientStep
  <2>3. ASSUME NEW w \in Workers, WorkerStep(w) PROVE TypeOK'
    <3>1. CASE ProcStart(w) \/ Get(w) \/ Reload(w) \/ Idle(w) \/ Load(w)
      BY <3>1, ProcStartType, GetType, ReloadType, IdleType, LoadType
    <3>2. CASE CheckDep(w) \/ Relaunch(w) \/ Skip(w) \/ Busy(w)
      BY <3>2, CheckDepType, RelaunchType, SkipType, BusyType
    <3>3. CASE RunOk(w) \/ RunError(w) \/ RunTimeout(w)
      BY <3>3, RunType, OutcomeType
    <3>4. CASE (\E q \in QNames : Post(w, q)) \/ Again(w)
      BY <3>4, PostType, AgainType
    <3> QED BY <2>3, <3>1, <3>2, <3>3, <3>4 DEF WorkerStep
  <2>4. ASSUME NEW w \in Workers, ParentStep(w) PROVE TypeOK'
    BY <2>4, WorkersLoadType, SoftStopType, HardStopType, RestartType, TmuxStartType, StateUpdateType,
       WorkersCheckType DEF ParentStep
  <2>5. ASSUME NEW w \in Workers, Crash(w) PROVE TypeOK'
    BY <2>5, CrashType
  <2> QED BY <2>1, <2>2, <2>3, <2>4, <2>5 DEF Next
<1> QED BY <1>1, <1>2, PTL DEF Spec

-----------------------------------------------------------------------------
(* DependencyOrder is not inductive.  What makes it hold: ids in use are   *)
(* below nextId, so that schedule() never makes a new record for a job     *)
(* that somebody holds; the copies that are going to be saved, the draft   *)
(* of schedule() among them, agree with the record on its dependencies and *)
(* never claim an OK that did not happen;                                  *)
(* and a worker has seen every dependency it has crossed off.              *)
Success == {"OK", "DONE"}

IdsUsed ==
    /\ \A i \in 1..Len(queue) : queue[i] < nextId
    /\ \A j \in stored : j < nextId
    /\ \A w \in Workers : cur[w] < nextId
    /\ \A c \in Clients : cl[c].id < nextId

SavedTrue ==
    /\ \A j \in JobIds : jobs[j].state \in Success => j \in completed
    /\ \A j \in making : j < nextId /\ draft[j].deps = jobs[j].deps /\ draft[j].state = "NEW"

CopyTrue ==
    \A w \in Workers : pc[w] \in {"deps", "run", "post"} =>
        /\ copy[w].deps = jobs[cur[w]].deps
        /\ copy[w].state \in Success => cur[w] \in completed

WaiterTrue ==
    \A c \in Clients : cl[c].pc = "loaded" =>
        /\ cl[c].copy.deps = jobs[cl[c].id].deps
        /\ cl[c].copy.state \in Success => cl[c].id \in completed

DepsSeen ==
    \A w \in Workers :
        /\ pc[w] = "deps" /\ ~skip[w] => copy[w].deps \subseteq todo[w] \cup completed
        /\ pc[w] = "run" => copy[w].deps \subseteq completed

DepsInv == IdsUsed /\ SavedTrue /\ CopyTrue /\ WaiterTrue /\ DepsSeen

DependencyInv == TypeOK /\ DepsInv

(* What every step but schedule() does to the store: dependencies stay,    *)
(* completed jobs stay completed, ids stay.                                *)
Kept ==
    /\ \A k \in JobIds : jobs'[k].deps = jobs[k].deps
    /\ completed \subseteq completed'
    /\ nextId' = nextId

(* A step that leaves the store alone keeps what is saved true.             *)
LEMMA StoreSame == ASSUME UNCHANGED <<jvars, completed>> PROVE Kept /\ (SavedTrue => SavedTrue') /\ stored' = stored
  BY DEF Kept, SavedTrue, jvars

(* A save of a truthful copy keeps the store truthful.                     *)
LEMMA WriteKeeps ==
    ASSUME DependencyInv, NEW id \in JobIds, NEW rec \in JobRec, Write(id, rec), nextId' = nextId,
           id < nextId, rec.deps = jobs[id].deps, completed \subseteq completed',
           rec.state \in Success => id \in completed',
           \A j \in making' : j \in making /\ draft'[j].deps = draft[j].deps /\ draft'[j].state = "NEW"
    PROVE  Kept /\ SavedTrue' /\ \A j \in stored' : j < nextId'
<1>1. /\ jobs \in [JobIds -> JobRec] /\ jobs' = [jobs EXCEPT ![id] = rec]
      /\ nextId' = nextId /\ stored' = stored \cup {id} /\ making \subseteq JobIds
  BY DEF Write, DependencyInv, TypeOK, StoreType
<1>2. Kept
  BY <1>1 DEF Kept
<1>3. SavedTrue'
  <2>1. \A j \in JobIds : jobs'[j].state \in Success => j \in completed'
    BY <1>1 DEF SavedTrue, DependencyInv, DepsInv
  <2>2. \A j \in making' : j < nextId' /\ draft'[j].deps = jobs'[j].deps /\ draft'[j].state = "NEW"
    BY <1>1, <1>2 DEF Kept, SavedTrue, DependencyInv, DepsInv
  <2> QED BY <2>1, <2>2 DEF SavedTrue
<1>4. \A j \in stored' : j < nextId'
  BY <1>1 DEF DependencyInv, DepsInv, IdsUsed
<1> QED BY <1>2, <1>3, <1>4

(* So does a save that changes nothing else of the store.                  *)
LEMMA SaveKeeps ==
    ASSUME DependencyInv, NEW id \in JobIds, NEW rec \in JobRec, Save(id, rec), id < nextId,
           rec.deps = jobs[id].deps, completed \subseteq completed',
           rec.state \in Success => id \in completed'
    PROVE  Kept /\ SavedTrue' /\ \A j \in stored' : j < nextId'
<1>1. \A j \in making' : j \in making /\ draft'[j].deps = draft[j].deps /\ draft'[j].state = "NEW"
  BY DEF Save, SavedTrue, DependencyInv, DepsInv
<1> QED BY <1>1, WriteKeeps DEF Save

(* What waiters hold stays true when only the store moved on.               *)
LEMMA WaitersKeep == ASSUME DependencyInv, Kept, cl' = cl PROVE WaiterTrue' /\ \A c \in Clients : cl'[c].id < nextId'
  BY DEF Kept, WaiterTrue, DependencyInv, DepsInv, TypeOK, OthersType, IdsUsed

(* A worker that left the loop body has no claim to keep.                  *)
LEMMA LeaveKeeps ==
    ASSUME DependencyInv, Kept, NEW w \in Workers,
           NEW where \in {"get", "dead", "down", "halted", "boot"}, Leave(w, where)
    PROVE  CopyTrue' /\ DepsSeen' /\ \A v \in Workers : cur'[v] < nextId'
<1>1. \A v \in Workers \ {w} : /\ pc'[v] = pc[v] /\ cur'[v] = cur[v] /\ copy'[v] = copy[v]
                              /\ todo'[v] = todo[v] /\ skip'[v] = skip[v]
  BY DEF Leave, Goto, DependencyInv, TypeOK, ProcType
<1>2. pc'[w] = where /\ cur'[w] = NoId
  BY DEF Leave, Goto, DependencyInv, TypeOK, ProcType
<1>3. CopyTrue'
  BY <1>1, <1>2 DEF CopyTrue, Kept, DependencyInv, DepsInv, TypeOK, ProcType
<1>4. DepsSeen'
  BY <1>1, <1>2 DEF DepsSeen, Kept, DependencyInv, DepsInv
<1>5. \A v \in Workers : cur'[v] < nextId'
  BY <1>1, <1>2 DEF IdsUsed, Kept, DependencyInv, DepsInv, TypeOK, StoreType, NoId
<1> QED BY <1>3, <1>4, <1>5

(* What workers hold stays true when only the store moved on.               *)
LEMMA ProcsKeep ==
    ASSUME DependencyInv, Kept, UNCHANGED <<pc, cur, copy, todo, skip>>
    PROVE  CopyTrue' /\ DepsSeen' /\ \A v \in Workers : cur'[v] < nextId'
<1>1. CopyTrue'
  BY DEF CopyTrue, Kept, DependencyInv, DepsInv, TypeOK, ProcType
<1>2. DepsSeen'
  BY DEF DepsSeen, Kept, DependencyInv, DepsInv
<1>3. \A v \in Workers : cur'[v] < nextId'
  BY DEF IdsUsed, Kept, DependencyInv, DepsInv
<1> QED BY <1>1, <1>2, <1>3

(* A worker that leaves the loop body holds nothing that could be wrong.    *)
LEMMA LeaveInv ==
    ASSUME DependencyInv, NEW w \in Workers, NEW where \in {"get", "dead", "down", "halted", "boot"},
           Leave(w, where), UNCHANGED <<jvars, queue, cl, completed>>
    PROVE  DepsInv'
<1>1. Kept /\ SavedTrue' /\ stored' = stored
  BY StoreSame DEF DependencyInv, DepsInv
<1>2. CopyTrue' /\ DepsSeen' /\ \A v \in Workers : cur'[v] < nextId'
  BY <1>1, LeaveKeeps
<1>3. WaiterTrue' /\ \A c \in Clients : cl'[c].id < nextId'
  BY <1>1, WaitersKeep
<1>4. IdsUsed'
  BY <1>1, <1>2, <1>3 DEF IdsUsed, Kept, DependencyInv, DepsInv
<1> QED BY <1>1, <1>2, <1>3, <1>4 DEF DepsInv

(* Steps that touch neither jobs, locals nor waiters keep the invariant.    *)
LEMMA SameInv ==
    ASSUME DependencyInv, UNCHANGED <<jvars, queue, cl, completed, pc, cur, copy, todo, skip>>
    PROVE  DepsInv'
<1>1. Kept /\ SavedTrue' /\ stored' = stored
  BY StoreSame DEF DependencyInv, DepsInv
<1>2. CopyTrue' /\ DepsSeen' /\ \A v \in Workers : cur'[v] < nextId'
  BY <1>1, ProcsKeep
<1>3. WaiterTrue' /\ \A c \in Clients : cl'[c].id < nextId'
  BY <1>1, WaitersKeep
<1>4. IdsUsed'
  BY <1>1, <1>2, <1>3 DEF IdsUsed, Kept, DependencyInv, DepsInv
<1> QED BY <1>1, <1>2, <1>3, <1>4 DEF DepsInv

(* Steps that move the store on, or the queue, and nothing that workers or *)
(* waiters have in hand.                                                   *)
LEMMA StoreInv ==
    ASSUME DependencyInv, Kept, SavedTrue', \A j \in stored' : j < nextId',
           \A i \in 1..Len(queue') : queue'[i] < nextId',
           UNCHANGED <<pc, cur, copy, todo, skip, cl>>
    PROVE  DepsInv'
<1>1. CopyTrue' /\ DepsSeen' /\ \A v \in Workers : cur'[v] < nextId'
  BY ProcsKeep
<1>2. WaiterTrue' /\ \A c \in Clients : cl'[c].id < nextId'
  BY WaitersKeep
<1> QED BY <1>1, <1>2 DEF DepsInv, IdsUsed

(* schedule() deletes records, nobody's copies.                            *)
LEMMA ScheduleDeleteInv == ASSUME DependencyInv, NEW n \in Names, ScheduleDelete(n) PROVE DepsInv'
<1>1. /\ UNCHANGED <<jobs, nextId, making, draft, completed, queue, pc, cur, copy, todo, skip, cl>>
      /\ stored' \subseteq stored
  BY DEF ScheduleDelete, wvars, locals, hvars
<1>2. Kept /\ SavedTrue' /\ (\A j \in stored' : j < nextId') /\ \A i \in 1..Len(queue') : queue'[i] < nextId'
  BY <1>1 DEF Kept, SavedTrue, IdsUsed, DependencyInv, DepsInv
<1> QED BY <1>1, <1>2, StoreInv

(* schedule() makes a record nobody holds.                                 *)
LEMMA ScheduleNewInv ==
    ASSUME DependencyInv, NEW n \in Names \cup JobIds, NEW D \in SUBSET JobIds, NEW Q \in SUBSET QNames,
           ScheduleNew(n, D, Q)
    PROVE  DepsInv'
<1> DEFINE rec == NewJob(n, D, Q, FALSE)
<1>1. /\ nextId \in JobIds /\ nextId' = nextId + 1 /\ nextId \in Nat
      /\ jobs' = [jobs EXCEPT ![nextId] = rec] /\ jobs \in [JobIds -> JobRec]
      /\ draft' = [draft EXCEPT ![nextId] = rec] /\ draft \in [JobIds -> JobRec]
      /\ making' = making \cup {nextId} /\ making \subseteq JobIds
      /\ stored' = stored \cup {nextId}
      /\ UNCHANGED <<queue, pc, cur, copy, todo, skip, cl, completed>>
  BY DEF ScheduleNew, Write, DependencyInv, TypeOK, StoreType, wvars, locals, hvars, JobIds
<1>0. rec.state = "NEW"
  BY DEF NewJob
<1> HIDE DEF rec
<1>2. \A k \in JobIds : k < nextId => jobs'[k] = jobs[k] /\ draft'[k] = draft[k] /\ k < nextId'
  <2>1. \A k \in JobIds : k < nextId => k # nextId /\ k < nextId + 1
    BY <1>1 DEF JobIds
  <2> QED BY <1>1, <2>1
<1>3. SavedTrue'
  <2>1. jobs'[nextId] = rec /\ draft'[nextId] = rec /\ rec.state = "NEW"
    BY <1>0, <1>1
  <2>2. \A j \in JobIds : jobs'[j].state \in Success => j \in completed'
    BY <1>1, <2>1 DEF SavedTrue, DependencyInv, DepsInv, Success
  <2>3. \A j \in making' : j < nextId' /\ draft'[j].deps = jobs'[j].deps /\ draft'[j].state = "NEW"
    <3>1. \A j \in making : j < nextId' /\ draft'[j].deps = jobs'[j].deps /\ draft'[j].state = "NEW"
      BY <1>1, <1>2 DEF SavedTrue, DependencyInv, DepsInv
    <3>2. nextId < nextId'
      BY <1>1
    <3> QED BY <1>1, <2>1, <3>1, <3>2
  <2> QED BY <2>2, <2>3 DEF SavedTrue
<1>4. CopyTrue'
  <2>1. \A w \in Workers : pc[w] \in {"deps", "run", "post"} => cur[w] \in JobIds /\ jobs'[cur[w]] = jobs[cur[w]]
    BY <1>2 DEF IdsUsed, DependencyInv, DepsInv, TypeOK, ProcType
  <2> QED BY <1>1, <2>1 DEF CopyTrue, DependencyInv, DepsInv
<1>5. WaiterTrue'
  BY <1>1, <1>2 DEF WaiterTrue, IdsUsed, DependencyInv, DepsInv, TypeOK, OthersType
<1>6. DepsSeen'
  BY <1>1 DEF DepsSeen, DependencyInv, DepsInv
<1>7. IdsUsed'
  <2>1. \A i \in 1..Len(queue') : queue'[i] < nextId'
    <3>1. SUFFICES ASSUME NEW i \in 1..Len(queue') PROVE queue'[i] < nextId'
      OBVIOUS
    <3>2. queue'[i] = queue[i] /\ queue[i] \in JobIds /\ queue[i] < nextId
      BY <1>1 DEF IdsUsed, DependencyInv, DepsInv, TypeOK, StoreType
    <3> QED BY <1>2, <3>2
  <2>2. \A j \in stored' : j < nextId'
    BY <1>1 DEF JobIds, IdsUsed, DependencyInv, DepsInv, TypeOK, StoreType
  <2>3. \A w \in Workers : cur'[w] < nextId'
    <3>1. SUFFICES ASSUME NEW w \in Workers PROVE cur'[w] < nextId'
      OBVIOUS
    <3>2. cur[w] \in JobIds \cup {NoId} /\ cur[w] < nextId /\ cur'[w] = cur[w]
      BY <1>1 DEF IdsUsed, DependencyInv, DepsInv, TypeOK, ProcType
    <3> QED BY <1>1, <3>2 DEF JobIds, NoId
  <2>4. \A c \in Clients : cl'[c].id < nextId'
    BY <1>1 DEF JobIds, NoId, IdsUsed, DependencyInv, DepsInv, TypeOK, OthersType
  <2> QED BY <2>1, <2>2, <2>3, <2>4 DEF IdsUsed
<1> QED BY <1>3, <1>4, <1>5, <1>6, <1>7 DEF DepsInv

(* Putting a known id on the queue.                                        *)
LEMMA AppendIds ==
    ASSUME NEW q \in Seq(JobIds), NEW b, NEW j \in JobIds, j < b, \A i \in 1..Len(q) : q[i] < b
    PROVE  \A i \in 1..Len(Append(q, j)) : Append(q, j)[i] < b
<1>1. SUFFICES ASSUME NEW i \in 1..Len(Append(q, j)) PROVE Append(q, j)[i] < b
  OBVIOUS
<1>2. CASE i = Len(q) + 1
  BY <1>2
<1>3. CASE i \in 1..Len(q)
  BY <1>3
<1> QED BY <1>2, <1>3

(* The other steps of schedule() save a truthful draft, or let go of it.   *)
LEMMA ScheduleRestInv ==
    ASSUME DependencyInv, NEW j \in JobIds, NEW t \in BOOLEAN,
           ScheduleSave(j, t) \/ SchedulePut(j) \/ ScheduleEnd(j)
    PROVE  DepsInv'
<1> DEFINE rec == [draft[j] EXCEPT !.timeout = @ \/ t]
<1>1. j \in making /\ j < nextId /\ draft[j] \in JobRec /\ draft \in [JobIds -> JobRec] /\ making \subseteq JobIds
  BY DEF ScheduleSave, SchedulePut, ScheduleEnd, Abandon, SavedTrue, DependencyInv, DepsInv, TypeOK, StoreType
<1>2. UNCHANGED <<pc, cur, copy, todo, skip, cl, completed, nextId>>
  BY DEF ScheduleSave, SchedulePut, ScheduleEnd, Abandon, wvars, locals, hvars
<1>3. CASE ScheduleSave(j, t) /\ ~Abandon(j)
  <2>1. /\ Write(j, rec) /\ draft' = [draft EXCEPT ![j] = rec] /\ making' = making /\ queue' = queue
    BY <1>3 DEF ScheduleSave
  <2>2. rec \in JobRec /\ rec.deps = draft[j].deps /\ rec.state = draft[j].state
    <3>1. rec \in JobRec
      BY <1>1, RecordTypes
    <3>2. rec.deps = draft[j].deps /\ rec.state = draft[j].state
      BY <1>1 DEF JobRec
    <3> QED BY <3>1, <3>2
  <2>3. draft[j].deps = jobs[j].deps /\ draft[j].state = "NEW"
    BY <1>1 DEF SavedTrue, DependencyInv, DepsInv
  <2> HIDE DEF rec
  <2>4. \A k \in making' : k \in making /\ draft'[k].deps = draft[k].deps /\ draft'[k].state = "NEW"
    BY <1>1, <2>1, <2>2, <2>3 DEF SavedTrue, DependencyInv, DepsInv
  <2>5. Kept /\ SavedTrue' /\ \A k \in stored' : k < nextId'
    BY <1>1, <1>2, <2>1, <2>2, <2>3, <2>4, WriteKeeps DEF Success
  <2>6. \A i \in 1..Len(queue') : queue'[i] < nextId'
    BY <1>2, <2>1 DEF IdsUsed, DependencyInv, DepsInv
  <2> QED BY <1>2, <2>5, <2>6, StoreInv
<1>4. CASE Abandon(j) \/ SchedulePut(j)
  <2>1. making' = making \ {j} /\ draft' = [draft EXCEPT ![j] = BlankJob] /\ UNCHANGED <<stored, jobs>>
    BY <1>4 DEF Abandon, SchedulePut, Release
  <2>2. Kept /\ SavedTrue' /\ \A k \in stored' : k < nextId'
    BY <1>1, <1>2, <2>1 DEF Kept, SavedTrue, IdsUsed, DependencyInv, DepsInv
  <2>3. queue' = queue \/ queue' = Append(queue, j)
    BY DEF ScheduleSave, SchedulePut, ScheduleEnd
  <2>4. \A i \in 1..Len(queue') : queue'[i] < nextId'
    BY <1>1, <1>2, <2>3, AppendIds DEF IdsUsed, DependencyInv, DepsInv, TypeOK, StoreType
  <2> QED BY <1>2, <2>2, <2>4, StoreInv
<1> QED BY <1>3, <1>4 DEF ScheduleEnd

(* start() only adds to the queue.                                          *)
LEMMA StartInv == ASSUME DependencyInv, NEW j \in JobIds, Start(j) PROVE DepsInv'
<1>1. Kept /\ SavedTrue' /\ stored' = stored
  BY StoreSame DEF DependencyInv, DepsInv, Start, hvars
<1>2. CopyTrue' /\ DepsSeen' /\ \A v \in Workers : cur'[v] < nextId'
  BY <1>1, ProcsKeep DEF Start, wvars, locals
<1>3. WaiterTrue' /\ \A c \in Clients : cl'[c].id < nextId'
  BY <1>1, WaitersKeep DEF Start
<1>4. \A i \in 1..Len(queue') : queue'[i] < nextId'
  BY <1>1, AppendIds DEF Start, Kept, IdsUsed, DependencyInv, DepsInv, TypeOK, StoreType
<1>5. IdsUsed'
  BY <1>1, <1>2, <1>3, <1>4 DEF IdsUsed, Kept, DependencyInv, DepsInv
<1> QED BY <1>1, <1>2, <1>3, <1>5 DEF DepsInv

(* A fresh copy is as true as the store.                                    *)
LEMMA CheckLoadInv == ASSUME DependencyInv, NEW c \in Clients, NEW j \in JobIds, CheckLoad(c, j) PROVE DepsInv'
<1>1. Kept /\ SavedTrue' /\ stored' = stored /\ queue' = queue /\ jobs' = jobs /\ completed' = completed
  BY StoreSame DEF DependencyInv, DepsInv, CheckLoad, hvars, jvars
<1>2. CopyTrue' /\ DepsSeen' /\ \A v \in Workers : cur'[v] < nextId'
  BY <1>1, ProcsKeep DEF CheckLoad, wvars, locals
<1>3. /\ cl' = [cl EXCEPT ![c] = [pc |-> "loaded", id |-> j, copy |-> jobs[j]]]
      /\ j \in stored /\ j < nextId
  BY DEF CheckLoad, IdsUsed, DependencyInv, DepsInv
<1>4. WaiterTrue'
  BY <1>1, <1>3 DEF WaiterTrue, SavedTrue, DependencyInv, DepsInv, TypeOK, OthersType
<1>5. IdsUsed'
  BY <1>1, <1>2, <1>3 DEF IdsUsed, Kept, DependencyInv, DepsInv, TypeOK, OthersType
<1> QED BY <1>1, <1>2, <1>4, <1>5 DEF DepsInv

(* check_ready() saves a copy that may be stale in everything but the      *)
(* dependencies; a stale copy never claims an OK that did not happen.      *)
LEMMA AnswerInv ==
    ASSUME DependencyInv, NEW c \in Clients, cl[c].pc = "loaded", NEW rec \in JobRec, NEW ready \in BOOLEAN,
           rec.deps = cl[c].copy.deps, rec.state = cl[c].copy.state, Answer(c, rec, ready)
    PROVE  DepsInv'
<1> DEFINE id == cl[c].id
<1>1. id \in JobIds /\ id < nextId /\ rec.deps = jobs[id].deps /\ (rec.state \in Success => id \in completed)
  BY DEF DependencyInv, DepsInv, TypeOK, OthersType, WaiterTrue, IdsUsed
<1>2. /\ completed' = completed /\ queue' = queue
      /\ UNCHANGED <<pc, cur, copy, todo, skip>>
      /\ UNCHANGED jvars \/ Save(id, rec)
  BY DEF Answer, hvars, wvars, locals
<1>3. Kept /\ SavedTrue' /\ \A j \in stored' : j < nextId'
  <2>1. CASE UNCHANGED jvars
    BY <1>2, <2>1, StoreSame DEF DependencyInv, DepsInv, IdsUsed, Kept
  <2>2. CASE Save(id, rec)
    BY <1>1, <1>2, <2>2, SaveKeeps
  <2> QED BY <1>2, <2>1, <2>2
<1>4. CopyTrue' /\ DepsSeen' /\ \A v \in Workers : cur'[v] < nextId'
  BY <1>2, <1>3, ProcsKeep
<1>5. cl' = [cl EXCEPT ![c] = IF ready THEN [Away EXCEPT !.pc = "ready"] ELSE Away]
  BY DEF Answer
<1>6. \A b \in Clients \ {c} : cl'[b] = cl[b]
  BY <1>5 DEF DependencyInv, TypeOK, OthersType
<1>7. cl'[c].pc # "loaded" /\ cl'[c].id \in {id, NoId}
  BY <1>5 DEF DependencyInv, TypeOK, OthersType, Away, NoId
<1>8. WaiterTrue'
  BY <1>2, <1>3, <1>6, <1>7 DEF WaiterTrue, Kept, DependencyInv, DepsInv, TypeOK, OthersType
<1>9. IdsUsed'
  BY <1>1, <1>2, <1>3, <1>4, <1>6, <1>7 DEF IdsUsed, Kept, DependencyInv, DepsInv, TypeOK, StoreType, NoId
<1> QED BY <1>3, <1>4, <1>8, <1>9 DEF DepsInv

(* A stale save writes back NEW or a true OK, never a false one.            *)
LEMMA CheckReadyInv == ASSUME DependencyInv, NEW c \in Clients, CheckReady(c) PROVE DepsInv'
<1> DEFINE job == cl[c].copy
           errored == [job EXCEPT !.error_cat = "ERROR"]
           timedout == [job EXCEPT !.error_cat = "TIMEOUT"]
<1>1. job \in JobRec /\ job.stopped \in BOOLEAN
  BY DEF DependencyInv, TypeOK, OthersType, JobRec
<1>2. errored \in JobRec /\ timedout \in JobRec
  BY <1>1, RecordTypes
<1>3. errored.deps = job.deps /\ errored.state = job.state /\ timedout.deps = job.deps /\ timedout.state = job.state
  BY <1>1 DEF JobRec
<1>4. cl[c].pc = "loaded"
  BY DEF CheckReady
<1>5. \E rec \in {job, errored, timedout}, ready \in BOOLEAN : Answer(c, rec, ready)
  BY <1>1 DEF CheckReady
<1> QED BY <1>1, <1>2, <1>3, <1>4, <1>5, AnswerInv

-----------------------------------------------------------------------------
(* A booting process has seen no dependency yet.                            *)
LEMMA ProcStartInv == ASSUME DependencyInv, NEW w \in Workers, ProcStart(w) PROVE DepsInv'
<1>1. Kept /\ SavedTrue' /\ stored' = stored
  BY StoreSame DEF DependencyInv, DepsInv, ProcStart, hvars
<1>2. pc' = [pc EXCEPT ![w] = "get"] /\ UNCHANGED <<queue, cur, copy, todo, skip, cl>>
  BY DEF ProcStart, Goto, locals
<1>3. CopyTrue'
  BY <1>1, <1>2 DEF CopyTrue, Kept, DependencyInv, DepsInv, TypeOK, ProcType
<1>4. DepsSeen'
  BY <1>1, <1>2 DEF DepsSeen, Kept, DependencyInv, DepsInv, TypeOK, ProcType
<1>5. WaiterTrue' /\ \A c \in Clients : cl'[c].id < nextId'
  BY <1>1, <1>2, WaitersKeep
<1>6. IdsUsed'
  BY <1>1, <1>2, <1>5 DEF IdsUsed, Kept, DependencyInv, DepsInv
<1> QED BY <1>1, <1>3, <1>4, <1>5, <1>6 DEF DepsInv

(* The pop clears what the worker had seen.                                 *)
LEMMA GetInv == ASSUME DependencyInv, NEW w \in Workers, Get(w) PROVE DepsInv'
<1>1. Kept /\ SavedTrue' /\ stored' = stored
  BY StoreSame DEF DependencyInv, DepsInv, Get, hvars
<1>2. pc' = [pc EXCEPT ![w] = "reload"] /\ UNCHANGED <<copy, todo, skip, cl>>
  BY DEF Get, Goto
<1>3. /\ \A v \in Workers \ {w} : cur'[v] = cur[v]
      /\ \A i \in 1..Len(queue') : queue'[i] < nextId
      /\ cur'[w] < nextId
  <2>1. CASE queue = <<>>
    BY <2>1 DEF Get, DependencyInv, DepsInv, IdsUsed
  <2>2. CASE queue # <<>>
    <3>1. /\ cur' = [cur EXCEPT ![w] = Head(queue)] /\ queue' = Tail(queue)
          /\ queue \in Seq(JobIds) /\ cur \in [Workers -> JobIds \cup {NoId}]
      BY <2>2 DEF Get, DependencyInv, TypeOK, StoreType, ProcType
    <3>2. Len(queue) >= 1 /\ Head(queue) = queue[1]
      BY <2>2, <3>1
    <3>3. cur'[w] < nextId
      BY <3>1, <3>2 DEF DependencyInv, DepsInv, IdsUsed
    <3>4. \A i \in 1..Len(queue') : i + 1 \in 1..Len(queue) /\ queue'[i] = queue[i + 1]
      BY <2>2, <3>1
    <3> QED BY <3>1, <3>3, <3>4 DEF DependencyInv, DepsInv, IdsUsed
  <2> QED BY <2>1, <2>2
<1>4. CopyTrue'
  BY <1>1, <1>2, <1>3 DEF CopyTrue, Kept, DependencyInv, DepsInv, TypeOK, ProcType
<1>5. DepsSeen'
  BY <1>1, <1>2 DEF DepsSeen, Kept, DependencyInv, DepsInv, TypeOK, ProcType
<1>6. WaiterTrue' /\ \A c \in Clients : cl'[c].id < nextId'
  BY <1>1, <1>2, WaitersKeep
<1>7. IdsUsed'
  BY <1>1, <1>3, <1>6 DEF IdsUsed, Kept, DependencyInv, DepsInv
<1> QED BY <1>1, <1>4, <1>5, <1>6, <1>7 DEF DepsInv

(* The reload looks at the worker record only.                              *)
LEMMA ReloadInv == ASSUME DependencyInv, NEW w \in Workers, Reload(w) PROVE DepsInv'
<1>1. CASE wrec[w].halt
  BY <1>1, LeaveInv DEF Reload, End, Drop
<1>2. CASE ~wrec[w].halt
  <2>1. Kept /\ SavedTrue' /\ stored' = stored
    BY <1>2, StoreSame DEF DependencyInv, DepsInv, Reload, hvars
  <2>2. /\ pc' = [pc EXCEPT ![w] = IF cur[w] = NoId THEN "idle" ELSE "load"]
        /\ UNCHANGED <<queue, cur, copy, todo, skip, cl>>
    BY <1>2 DEF Reload, Goto
  <2>3. CopyTrue'
    BY <2>1, <2>2 DEF CopyTrue, Kept, DependencyInv, DepsInv, TypeOK, ProcType
  <2>4. DepsSeen'
    BY <2>1, <2>2 DEF DepsSeen, Kept, DependencyInv, DepsInv, TypeOK, ProcType
  <2>5. WaiterTrue' /\ \A c \in Clients : cl'[c].id < nextId'
    BY <2>1, <2>2, WaitersKeep
  <2>6. IdsUsed'
    BY <2>1, <2>2, <2>5 DEF IdsUsed, Kept, DependencyInv, DepsInv
  <2> QED BY <2>1, <2>3, <2>4, <2>5, <2>6 DEF DepsInv
<1> QED BY <1>1, <1>2

(* The worker's copy is as true as the store.                               *)
LEMMA LoadInv == ASSUME DependencyInv, NEW w \in Workers, Load(w) PROVE DepsInv'
<1>1. CASE cur[w] \notin stored
  BY <1>1, LeaveInv DEF Load, End, Drop
<1>2. CASE cur[w] \in stored
  <2>1. Kept /\ SavedTrue' /\ stored' = stored /\ jobs' = jobs /\ completed' = completed
    BY <1>2, StoreSame DEF DependencyInv, DepsInv, Load, hvars, jvars
  <2>2. /\ pc' = [pc EXCEPT ![w] = "deps"]
        /\ copy' = [copy EXCEPT ![w] = jobs[cur[w]]] /\ todo' = [todo EXCEPT ![w] = jobs[cur[w]].deps]
        /\ UNCHANGED <<queue, cur, skip, cl>>
    BY <1>2 DEF Load, Goto
  <2>3. cur[w] \in JobIds
    BY <1>2 DEF DependencyInv, TypeOK, StoreType
  <2>4. CopyTrue'
    BY <2>1, <2>2, <2>3 DEF CopyTrue, SavedTrue, DependencyInv, DepsInv, TypeOK, ProcType
  <2>5. DepsSeen'
    BY <2>1, <2>2 DEF DepsSeen, DependencyInv, DepsInv, TypeOK, ProcType
  <2>6. WaiterTrue' /\ \A c \in Clients : cl'[c].id < nextId'
    BY <2>1, <2>2, WaitersKeep
  <2>7. IdsUsed'
    BY <2>1, <2>2, <2>6 DEF IdsUsed, Kept, DependencyInv, DepsInv
  <2> QED BY <2>1, <2>4, <2>5, <2>6, <2>7 DEF DepsInv
<1> QED BY <1>1, <1>2

(* The heart of the matter: a dependency is crossed off without skip only  *)
(* when its record says OK, and a record that says OK is truthful.         *)
LEMMA CheckDepInv == ASSUME DependencyInv, NEW w \in Workers, CheckDep(w) PROVE DepsInv'
<1>1. PICK d \in todo[w] :
         \/ d \in stored /\ (DepFailed(w, d) \/ DepPending(w, d) \/ DepDone(w, d))
         \/ d \notin stored /\ End(w, "dead") /\ UNCHANGED jvars
  BY DEF CheckDep
<1>2. queue' = queue /\ cl' = cl /\ pc[w] = "deps"
  BY DEF CheckDep
<1>3. cur[w] \in JobIds /\ copy[w] \in JobRec /\ d \in JobIds /\ cur[w] < nextId
  BY <1>2 DEF DependencyInv, DepsInv, TypeOK, ProcType, IdsUsed
<1>4. CASE End(w, "dead") /\ UNCHANGED jvars
  BY <1>2, <1>4, LeaveInv DEF End, Drop
<1>5. CASE DepFailed(w, d) /\ ~(End(w, "dead") /\ UNCHANGED jvars)
  <2> DEFINE rec == [copy[w] EXCEPT !.state = "ERROR", !.stopped = TRUE]
  <2>1. rec \in JobRec
    BY <1>3, RecordTypes DEF JobState
  <2>2. rec.deps = copy[w].deps /\ rec.state = "ERROR" /\ copy[w].deps = jobs[cur[w]].deps
    BY <1>2, <1>3 DEF JobRec, CopyTrue, DependencyInv, DepsInv
  <2>3. /\ Save(cur[w], rec) /\ copy' = [copy EXCEPT ![w] = rec] /\ skip' = [skip EXCEPT ![w] = TRUE]
        /\ todo' = [todo EXCEPT ![w] = @ \ {d}] /\ UNCHANGED <<pc, cur, completed>>
    BY <1>5 DEF DepFailed
  <2> HIDE DEF rec
  <2>4. Kept /\ SavedTrue' /\ \A j \in stored' : j < nextId'
    BY <1>3, <2>1, <2>2, <2>3, SaveKeeps DEF Success
  <2>5. CopyTrue'
    BY <1>2, <2>2, <2>3, <2>4 DEF CopyTrue, Kept, Success, DependencyInv, DepsInv, TypeOK, ProcType
  <2>6. DepsSeen'
    <3>1. skip'[w] = TRUE /\ \A v \in Workers \ {w} : skip'[v] = skip[v] /\ todo'[v] = todo[v] /\ copy'[v] = copy[v]
      BY <2>3 DEF DependencyInv, TypeOK, ProcType
    <3> QED BY <1>2, <2>3, <3>1 DEF DepsSeen, DependencyInv, DepsInv
  <2>7. WaiterTrue' /\ \A c \in Clients : cl'[c].id < nextId'
    BY <1>2, <2>4, WaitersKeep
  <2>8. IdsUsed'
    BY <1>2, <2>3, <2>4, <2>7 DEF IdsUsed, Kept, DependencyInv, DepsInv
  <2> QED BY <2>4, <2>5, <2>6, <2>7, <2>8 DEF DepsInv
<1>6. CASE DepPending(w, d) \/ (d \in stored /\ DepDone(w, d))
  <2>1. Kept /\ SavedTrue' /\ stored' = stored /\ jobs' = jobs /\ completed' = completed
    BY <1>6, StoreSame DEF DepPending, DepDone, DependencyInv, DepsInv, hvars, jvars
  <2>2. UNCHANGED <<pc, cur, copy>> /\ todo' = [todo EXCEPT ![w] = @ \ {d}]
    BY <1>6 DEF DepPending, DepDone
  <2>3. \A v \in Workers \ {w} : skip'[v] = skip[v] /\ todo'[v] = todo[v]
    BY <1>6, <2>2 DEF DepPending, DepDone, DependencyInv, TypeOK, ProcType
  <2>4. todo'[w] = todo[w] \ {d}
    BY <2>2 DEF DependencyInv, TypeOK, ProcType
  <2>5. skip'[w] \/ (skip'[w] = skip[w] /\ d \in completed)
    <3>1. CASE DepPending(w, d)
      <4>1. skip' = [skip EXCEPT ![w] = TRUE] /\ skip \in [Workers -> BOOLEAN]
        BY <3>1 DEF DepPending, DependencyInv, TypeOK, ProcType
      <4> QED BY <4>1
    <3>2. CASE DepDone(w, d)
      BY <1>3, <3>2 DEF DepDone, SavedTrue, Success, DependencyInv, DepsInv
    <3> QED BY <1>6, <3>1, <3>2
  <2>6. CopyTrue'
    BY <2>1, <2>2 DEF CopyTrue, DependencyInv, DepsInv
  <2>7. DepsSeen'
    BY <1>2, <2>1, <2>2, <2>3, <2>4, <2>5 DEF DepsSeen, DependencyInv, DepsInv
  <2>8. WaiterTrue' /\ \A c \in Clients : cl'[c].id < nextId'
    BY <1>2, <2>1, WaitersKeep
  <2>9. IdsUsed'
    BY <1>2, <2>1, <2>2, <2>8 DEF IdsUsed, Kept, DependencyInv, DepsInv
  <2> QED BY <2>1, <2>6, <2>7, <2>8, <2>9 DEF DepsInv
<1> QED BY <1>1, <1>4, <1>5, <1>6

(* A relaunched job is NEW, which claims nothing.                           *)
LEMMA RelaunchInv == ASSUME DependencyInv, NEW w \in Workers, Relaunch(w) PROVE DepsInv'
<1> DEFINE rec == [copy[w] EXCEPT !.state = "NEW"]
<1>1. /\ cur[w] \in JobIds /\ copy[w] \in JobRec /\ cur[w] < nextId
      /\ copy[w].deps = jobs[cur[w]].deps /\ cl' = cl
  BY DEF Relaunch, DependencyInv, DepsInv, TypeOK, ProcType, IdsUsed, CopyTrue
<1>2. CASE End(w, "dead") /\ UNCHANGED <<jvars, queue>>
  BY <1>1, <1>2, LeaveInv DEF End, Drop
<1>3. CASE /\ Save(cur[w], rec) /\ queue' = Append(queue, cur[w])
           /\ Leave(w, "get") /\ UNCHANGED <<completed, dropped, runs>>
  <2>1. rec \in JobRec /\ rec.deps = copy[w].deps /\ rec.state \notin Success
    BY <1>1 DEF JobState, JobRec, Success
  <2>2. Kept /\ SavedTrue' /\ \A j \in stored' : j < nextId'
    BY <1>1, <1>3, <2>1, SaveKeeps
  <2>3. CopyTrue' /\ DepsSeen' /\ \A v \in Workers : cur'[v] < nextId'
    BY <1>3, <2>2, LeaveKeeps
  <2>4. WaiterTrue' /\ \A c \in Clients : cl'[c].id < nextId'
    BY <1>1, <2>2, WaitersKeep
  <2>5. \A i \in 1..Len(queue') : queue'[i] < nextId'
    BY <1>1, <1>3, <2>2, AppendIds DEF Kept, IdsUsed, DependencyInv, DepsInv, TypeOK, StoreType
  <2>6. IdsUsed'
    BY <2>2, <2>3, <2>4, <2>5 DEF IdsUsed
  <2> QED BY <2>2, <2>3, <2>4, <2>6 DEF DepsInv
<1> QED BY <1>2, <1>3 DEF Relaunch

(* A job becomes busy only after all its dependencies were seen done.       *)
LEMMA BusyInv == ASSUME DependencyInv, NEW w \in Workers, Busy(w) PROVE DepsInv'
<1>1. Kept /\ SavedTrue' /\ stored' = stored /\ completed' = completed /\ jobs' = jobs
  BY StoreSame DEF DependencyInv, DepsInv, Busy, jvars
<1>2. /\ pc[w] = "deps" /\ todo[w] = {} /\ ~skip[w]
      /\ pc' = [pc EXCEPT ![w] = "run"] /\ UNCHANGED <<queue, cur, copy, todo, skip, cl>>
  BY DEF Busy, Goto
<1>3. CopyTrue'
  BY <1>1, <1>2 DEF CopyTrue, DependencyInv, DepsInv, TypeOK, ProcType
<1>4. DepsSeen'
  BY <1>1, <1>2 DEF DepsSeen, DependencyInv, DepsInv, TypeOK, ProcType
<1>5. WaiterTrue' /\ \A c \in Clients : cl'[c].id < nextId'
  BY <1>1, <1>2, WaitersKeep
<1>6. IdsUsed'
  BY <1>1, <1>2, <1>5 DEF IdsUsed, Kept, DependencyInv, DepsInv
<1> QED BY <1>1, <1>3, <1>4, <1>5, <1>6 DEF DepsInv

(* An outcome is saved; OK only together with completed.                    *)
LEMMA OutcomeInv ==
    ASSUME DependencyInv, NEW w \in Workers, NEW rec \in JobRec, rec.deps = copy[w].deps,
           rec.state \in {"OK", "ERROR"}, Outcome(w, rec)
    PROVE  DepsInv'
<1>1. /\ cur[w] \in JobIds /\ cur[w] < nextId /\ pc[w] = "run"
      /\ copy[w].deps = jobs[cur[w]].deps /\ cl' = cl /\ queue' = queue
  BY DEF Outcome, DependencyInv, DepsInv, TypeOK, ProcType, IdsUsed, CopyTrue
<1>2. CASE End(w, "dead") /\ UNCHANGED jvars
  BY <1>1, <1>2, LeaveInv DEF End, Drop
<1>3. CASE ~(End(w, "dead") /\ UNCHANGED jvars)
  <2>1. /\ Save(cur[w], rec) /\ copy' = [copy EXCEPT ![w] = rec]
        /\ completed' = IF rec.state = "OK" THEN completed \cup {cur[w]} ELSE completed
        /\ pc' = [pc EXCEPT ![w] = "post"] /\ UNCHANGED <<cur, todo, skip>>
    BY <1>3 DEF Outcome, Goto
  <2>2. completed \subseteq completed' /\ (rec.state \in Success => cur[w] \in completed')
    BY <2>1 DEF Success
  <2>3. Kept /\ SavedTrue' /\ \A j \in stored' : j < nextId'
    BY <1>1, <2>1, <2>2, SaveKeeps
  <2>4. CopyTrue'
    BY <1>1, <2>1, <2>2, <2>3 DEF CopyTrue, Kept, DependencyInv, DepsInv, TypeOK, ProcType
  <2>5. DepsSeen'
    BY <1>1, <2>1, <2>2 DEF DepsSeen, DependencyInv, DepsInv, TypeOK, ProcType
  <2>6. WaiterTrue' /\ \A c \in Clients : cl'[c].id < nextId'
    BY <1>1, <2>3, WaitersKeep
  <2>7. IdsUsed'
    BY <1>1, <2>1, <2>3, <2>6 DEF IdsUsed, Kept, DependencyInv, DepsInv
  <2> QED BY <2>3, <2>4, <2>5, <2>6, <2>7 DEF DepsInv
<1> QED BY <1>2, <1>3

(* A run that ends OK is recorded as completed in the same step.            *)
LEMMA RunInv ==
    ASSUME DependencyInv, NEW w \in Workers, RunOk(w) \/ RunError(w) \/ RunTimeout(w)
    PROVE  DepsInv'
<1> DEFINE ok == [copy[w] EXCEPT !.state = "OK", !.stopped = TRUE]
           error == [copy[w] EXCEPT !.state = "ERROR", !.stopped = TRUE]
           timeout == [copy[w] EXCEPT !.state = "ERROR", !.stopped = TRUE, !.error_cat = "TIMEOUT"]
<1>1. copy[w] \in JobRec
  BY DEF DependencyInv, TypeOK, ProcType
<1>2. ok \in JobRec /\ error \in JobRec /\ timeout \in JobRec
  BY <1>1, RecordTypes DEF JobState
<1>3. /\ ok.deps = copy[w].deps /\ error.deps = copy[w].deps /\ timeout.deps = copy[w].deps
      /\ ok.state = "OK" /\ error.state = "ERROR" /\ timeout.state = "ERROR"
  BY <1>1 DEF JobRec
<1>4. Outcome(w, ok) \/ Outcome(w, error) \/ Outcome(w, timeout)
  BY DEF RunOk, RunError, RunTimeout
<1> HIDE DEF ok, error, timeout
<1> QED BY <1>2, <1>3, <1>4, OutcomeInv

(* Steps that let go of a job, or change no copy and no record of a job.   *)
LEMMA QuietInv ==
    ASSUME DependencyInv, NEW w \in Workers,
           \/ Idle(w) \/ Skip(w) \/ Again(w) \/ (\E q \in QNames : Post(w, q))
           \/ ParentStep(w) \/ Crash(w)
    PROVE  DepsInv'
<1>1. CASE Idle(w) \/ Skip(w) \/ Again(w)
  BY <1>1, LeaveInv DEF Idle, Skip, Again, hvars
<1>2. CASE HardStop(w) \/ Restart(w) \/ Crash(w)
  BY <1>2, LeaveInv DEF HardStop, Restart, Crash, End, Drop
<1>3. CASE TmuxStart(w)
  <2>1. CASE End(w, "boot")
    BY <1>3, <2>1, LeaveInv DEF TmuxStart, End, Drop
  <2>2. CASE UNCHANGED <<pc, locals, hvars>>
    BY <1>3, <2>2, SameInv DEF TmuxStart, locals, hvars
  <2> QED BY <1>3, <2>1, <2>2 DEF TmuxStart
<1>4. CASE \E q \in QNames : Post(w, q)
  BY <1>4, SameInv DEF Post, hvars
<1>5. CASE WorkersLoad(w) \/ SoftStop(w) \/ StateUpdate(w) \/ WorkersCheck(w)
  BY <1>5, SameInv DEF WorkersLoad, SoftStop, StateUpdate, WorkersCheck, wvars, locals, hvars
<1> QED BY <1>1, <1>2, <1>3, <1>4, <1>5 DEF ParentStep

(* The invariant holds initially and every step keeps it.                   *)
LEMMA DependencyInductive == Spec => []DependencyInv
<1>1. Init => DepsInv
  BY DEF Init, DepsInv, IdsUsed, SavedTrue, CopyTrue, WaiterTrue, DepsSeen, Success, Away, BlankJob, NewJob, NoId
<1>2. DependencyInv /\ [Next]_vars => DepsInv'
  <2> SUFFICES ASSUME DependencyInv, [Next]_vars PROVE DepsInv'
    OBVIOUS
  <2>1. CASE UNCHANGED vars
    BY <2>1, SameInv DEF vars, wvars, locals, hvars
  <2>2. CASE ClientStep
    BY <2>2, ScheduleDeleteInv, ScheduleNewInv, ScheduleRestInv, StartInv, CheckLoadInv, CheckReadyInv DEF ClientStep
  <2>3. ASSUME NEW w \in Workers, WorkerStep(w) PROVE DepsInv'
    <3>1. CASE ProcStart(w) \/ Get(w) \/ Reload(w) \/ Load(w)
      BY <3>1, ProcStartInv, GetInv, ReloadInv, LoadInv
    <3>2. CASE CheckDep(w) \/ Relaunch(w) \/ Busy(w)
      BY <3>2, CheckDepInv, RelaunchInv, BusyInv
    <3>3. CASE RunOk(w) \/ RunError(w) \/ RunTimeout(w)
      BY <3>3, RunInv
    <3>4. CASE Idle(w) \/ Skip(w) \/ Again(w) \/ (\E q \in QNames : Post(w, q))
      BY <3>4, QuietInv
    <3> QED BY <2>3, <3>1, <3>2, <3>3, <3>4 DEF WorkerStep
  <2>4. ASSUME NEW w \in Workers, ParentStep(w) \/ Crash(w) PROVE DepsInv'
    BY <2>4, QuietInv
  <2> QED BY <2>1, <2>2, <2>3, <2>4 DEF Next
<1> QED BY <1>1, <1>2, TypeCorrect, PTL DEF Spec, DependencyInv

(* Dependencies come first, for any number of workers, jobs and waiters    *)
(* and any number of crashes, stops, restarts, timeouts and stale saves:   *)
(* while MyWorkerProcess.start runs a job's action, every dependency of    *)
(* the job was brought to OK by a worker before.                           *)
THEOREM DependenciesFirst == Spec => []DependencyOrder
<1>1. DependencyInv => DependencyOrder
  BY DEF DependencyInv, DepsInv, CopyTrue, DepsSeen, DependencyOrder
<1> QED BY <1>1, DependencyInductive, PTL
=============================================================================
