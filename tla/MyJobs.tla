------------------------------- MODULE MyJobs -------------------------------
(***************************************************************************)
(* The job system of servers/myjobs: a client schedules jobs into the      *)
(* redis list "queue:jobs:start"; worker processes pop ids, check the      *)
(* job's dependencies, run it and save the outcome; waiting clients poll   *)
(* the job's record; the parent process starts, stops and supervises the   *)
(* workers (workers of type TMUX).  Client, parent and workers are         *)
(* separate processes that share redis and the BCDB; every load and every  *)
(* save of a whole record is one step.                                     *)
(***************************************************************************)
EXTENDS Naturals, Sequences, FiniteSets

CONSTANTS
    MaxJobs,    \* bound: job ids the store hands out
    Workers,    \* the worker records, one process each
    Names,      \* names callers give to their jobs
    QNames,     \* return queues
    Clients,    \* processes waiting on a job
    Timeouts,   \* may a job be given a timeout?  subset of BOOLEAN
    MaxFaults,  \* bound: interventions of the parent, crashes, calls of schedule() that die
    MaxStarts   \* bound: calls of MyJob.start() on a scheduled job

ASSUME BoundsAssumption == MaxJobs \in Nat /\ MaxFaults \in Nat /\ MaxStarts \in Nat

ASSUME InputsAssumption == Timeouts \subseteq BOOLEAN /\ Names \cap Nat = {}

JobIds == 1..MaxJobs
NoId == 0          \* current_job = 2147483647, or "the pop timed out"

(* Schema jumpscale.myjobs.job; "stopped" is time_stop # 0 and "timeout"   *)
(* is timeout # 0.  RUNNING and DONE are never written by the code.        *)
JobState == {"NEW", "ERROR", "OK", "RUNNING", "DONE"}
JobRec == [name: Names \cup JobIds \cup {NoId}, deps: SUBSET JobIds, rqs: SUBSET QNames, timeout: BOOLEAN,
           state: JobState, error_cat: {"NA", "TIMEOUT", "ERROR"}, stopped: BOOLEAN]
NewJob(n, D, Q, t) == [name |-> n, deps |-> D, rqs |-> Q, timeout |-> t,
                       state |-> "NEW", error_cat |-> "NA", stopped |-> FALSE]

(* Schema jumpscale.myjobs.worker.                                         *)
WorkerRec == [state: {"NEW", "ERROR", "BUSY", "WAITING", "HALTED"},
              current_job: JobIds \cup {NoId}, halt: BOOLEAN]

VARIABLES
    stored,    \* ids present in the job model
    jobs,      \* their records
    nextId,    \* id of the next new record
    making,    \* jobs whose schedule() saved the record and has not put the id yet
    draft,     \* the object that schedule() has in hand
    queue,     \* redis list queue:jobs:start
    wrec,      \* worker model
    pc,        \* where each worker process is
    cur,       \* jobid popped by the process
    copy,      \* the process' own copy of the job
    wobj,      \* the process' own copy of its worker record
    todo,      \* dependencies still to be looked at
    skip, relaunch,
    posts,     \* return queues still to be posted on
    results,   \* redis lists myjobs:<name>
    cl,        \* waiting clients
    pobj, pst, \* the parent's copies of the worker records
    completed, \* history: jobs whose OK was saved by a worker
    finished,  \* history: jobs whose last delivery ended with OK or ERROR saved
    dropped,   \* history: jobs whose id was given up without an outcome
    runs,      \* history: executions begun, per job
    starts, faults

jvars == <<stored, jobs, nextId, making, draft>>
locals == <<cur, copy, wobj, todo, skip, relaunch, posts>>
wvars == <<wrec, pc, locals>>
pvars == <<pobj, pst>>
hvars == <<completed, finished, dropped, runs>>
vars == <<jvars, queue, wvars, results, cl, pvars, hvars, starts, faults>>

BlankJob == NewJob(NoId, {}, {}, FALSE)
Away == [pc |-> "idle", id |-> NoId, copy |-> BlankJob]   \* a client that waits on no job
Waiting(h) == [state |-> "WAITING", current_job |-> NoId, halt |-> h]
Halted == [state |-> "HALTED", current_job |-> NoId, halt |-> FALSE]

(* The state after workers_tmux_start(): every worker is in its loop.      *)
Init ==
    /\ stored = {} /\ jobs = [j \in JobIds |-> BlankJob] /\ nextId = 1
    /\ making = {} /\ draft = [j \in JobIds |-> BlankJob]
    /\ queue = <<>>
    /\ wrec = [w \in Workers |-> Waiting(FALSE)]
    /\ pc = [w \in Workers |-> "get"]
    /\ cur = [w \in Workers |-> NoId]
    /\ copy = [w \in Workers |-> BlankJob]
    /\ wobj = [w \in Workers |-> Waiting(FALSE)]
    /\ todo = [w \in Workers |-> {}] /\ posts = [w \in Workers |-> {}]
    /\ skip = [w \in Workers |-> FALSE] /\ relaunch = [w \in Workers |-> FALSE]
    /\ results = [q \in QNames |-> <<>>]
    /\ cl = [c \in Clients |-> Away]
    /\ pobj = [w \in Workers |-> Waiting(FALSE)] /\ pst = [w \in Workers |-> "idle"]
    /\ completed = {} /\ finished = {} /\ dropped = {}
    /\ runs = [j \in JobIds |-> 0]
    /\ starts = 0 /\ faults = 0

-----------------------------------------------------------------------------
(* JSXObjectRoot.save + BCDBModel.set: the whole record is written, also   *)
(* when it was deleted meanwhile; a second record with the name is refused *)
(* with an exception.                                                      *)
NameTaken(id, n) == \E k \in stored \ {id} : jobs[k].name = n

Write(id, rec) ==
    /\ ~NameTaken(id, rec.name)
    /\ stored' = stored \cup {id}
    /\ jobs' = [jobs EXCEPT ![id] = rec]

Save(id, rec) == Write(id, rec) /\ UNCHANGED <<nextId, making, draft>>

Pending == {"reload", "load", "deps", "run"}   \* popped, no outcome saved yet
Held(w) == IF pc[w] \in Pending THEN {cur[w]} \ {NoId} ELSE {}

Goto(w, where) == pc' = [pc EXCEPT ![w] = where]

(* Back to the head of the loop, or out of it: the locals are dead.        *)
Leave(w, where) ==
    /\ Goto(w, where)
    /\ cur' = [cur EXCEPT ![w] = NoId] /\ copy' = [copy EXCEPT ![w] = BlankJob]
    /\ wobj' = [wobj EXCEPT ![w] = Waiting(FALSE)]
    /\ todo' = [todo EXCEPT ![w] = {}] /\ posts' = [posts EXCEPT ![w] = {}]
    /\ skip' = [skip EXCEPT ![w] = FALSE] /\ relaunch' = [relaunch EXCEPT ![w] = FALSE]

(* The popped id is given up without an outcome.                           *)
Drop(w) == dropped' = dropped \cup (Held(w) \ finished) /\ UNCHANGED <<completed, finished, runs>>

(* The process of w ends: exception, kill or crash.                        *)
End(w, where) == Leave(w, where) /\ Drop(w)

-----------------------------------------------------------------------------
(* MyJobsFactory.schedule, one shared access after the other: a job with   *)
(* the name is deleted, whoever made it (only while ids are left) ...      *)
ScheduleDelete(n) ==
    LET live == {k \in stored : jobs[k].name # n} IN
    /\ nextId \in JobIds /\ n \in Names /\ live # stored
    /\ stored' = live
    /\ UNCHANGED <<jobs, nextId, making, draft, queue, wvars, results, cl, pvars, hvars, starts, faults>>

(* ... the new record is saved, with the jobs it needs and its return      *)
(* queues; a job that it needs may have been deleted since.  Without a     *)
(* name it gets a fresh one, here its id.  When the name is taken again    *)
(* new() raises and nothing is saved ...                                   *)
ScheduleNew(n, D, Q) ==
    LET rec == NewJob(n, D, Q, FALSE) IN
    /\ nextId \in JobIds /\ n \in Names \cup {nextId} /\ D \subseteq 1..(nextId - 1)
    /\ Write(nextId, rec)
    /\ nextId' = nextId + 1
    /\ making' = making \cup {nextId} /\ draft' = [draft EXCEPT ![nextId] = rec]
    /\ UNCHANGED <<queue, wvars, results, cl, pvars, hvars, starts, faults>>

(* schedule(j) ends: with the put, or dead or with an exception.           *)
Release(j) == making' = making \ {j} /\ draft' = [draft EXCEPT ![j] = BlankJob]

Abandon(j) ==
    /\ j \in making /\ Release(j)
    /\ dropped' = dropped \cup ({j} \ finished)
    /\ UNCHANGED <<stored, jobs, nextId, completed, finished, runs>>

(* ... each assignment to state, timeout, ... saves the object again, over *)
(* whatever became of the record, and raises when the name is taken ...    *)
ScheduleSave(j, t) ==
    LET rec == [draft[j] EXCEPT !.timeout = @ \/ t] IN
    /\ j \in making /\ t \in Timeouts \cup {FALSE}
    /\ \/ /\ Write(j, rec)
          /\ draft' = [draft EXCEPT ![j] = rec]
          /\ finished' = finished \ {j}
          /\ UNCHANGED <<nextId, making, completed, dropped, runs>>
       \/ NameTaken(j, rec.name) /\ Abandon(j)
    /\ UNCHANGED <<queue, wvars, results, cl, pvars, starts, faults>>

(* Mutant of SchedulePut: only a job that needs no other is put.           *)
SchedulePutFree(j) ==
    /\ j \in making /\ Release(j)
    /\ queue' = IF draft[j].deps = {} THEN Append(queue, j) ELSE queue
    /\ UNCHANGED <<stored, jobs, nextId, wvars, results, cl, pvars, hvars, starts, faults>>

(* ... and at last the id is put on the queue.                             *)
SchedulePut(j) ==
    /\ j \in making /\ Release(j)
    /\ queue' = Append(queue, j)
    /\ UNCHANGED <<stored, jobs, nextId, wvars, results, cl, pvars, hvars, starts, faults>>

(* Between the save and the put the client dies, or new() raises after the *)
(* save (MyJob._init cannot process the method).                           *)
ScheduleEnd(j) ==
    /\ Abandon(j) /\ faults < MaxFaults /\ faults' = faults + 1
    /\ UNCHANGED <<queue, wvars, results, cl, pvars, starts>>

(* MyJob.start: puts the id on the queue once more.                        *)
Start(j) ==
    /\ j \in stored /\ starts < MaxStarts
    /\ starts' = starts + 1
    /\ queue' = Append(queue, j)
    /\ UNCHANGED <<jvars, wvars, results, cl, pvars, hvars, faults>>

(* MyJob.check_ready, first half: load() by name.                          *)
CheckLoad(c, j) ==
    /\ cl[c].pc # "loaded" /\ j \in stored
    /\ cl' = [cl EXCEPT ![c] = [pc |-> "loaded", id |-> j, copy |-> jobs[j]]]
    /\ UNCHANGED <<jvars, queue, wvars, results, pvars, hvars, starts, faults>>

(* second half: decide on the copy, and save it where it was changed; a    *)
(* save that raises ends the wait.                                         *)
Answer(c, rec, ready) ==
    LET old == cl[c] IN
    /\ \/ rec = old.copy /\ UNCHANGED jvars
       \/ rec # old.copy /\ Save(old.id, rec)
       \/ rec # old.copy /\ NameTaken(old.id, rec.name) /\ UNCHANGED jvars
    /\ cl' = [cl EXCEPT ![c] = IF ready THEN [Away EXCEPT !.pc = "ready"] ELSE Away]
    /\ UNCHANGED <<queue, wvars, results, pvars, hvars, starts, faults>>

CheckReady(c) ==
    LET job == cl[c].copy IN
    /\ cl[c].pc = "loaded"
    /\ \/ /\ job.state = "ERROR"
          /\ Answer(c, IF job.error_cat = "NA" THEN [job EXCEPT !.error_cat = "ERROR"] ELSE job, TRUE)
       \/ /\ job.state # "ERROR" /\ ~job.stopped /\ job.timeout   \* and the time is over
          /\ Answer(c, [job EXCEPT !.error_cat = "TIMEOUT"], TRUE)
       \/ /\ job.state # "ERROR"
          /\ Answer(c, job, job.stopped)

-----------------------------------------------------------------------------
(* MyWorkerProcess.start: the record is read and saved as WAITING.         *)
ProcStart(w) ==
    /\ pc[w] = "boot"
    /\ wrec' = [wrec EXCEPT ![w] = Waiting(@.halt)]
    /\ Goto(w, "get")
    /\ UNCHANGED <<jvars, queue, locals, results, cl, pvars, hvars, starts, faults>>

(* queue_jobs_start.get(timeout=20)                                        *)
Get(w) ==
    /\ pc[w] = "get"
    /\ \/ queue # <<>> /\ cur' = [cur EXCEPT ![w] = Head(queue)] /\ queue' = Tail(queue)
       \/ queue = <<>> /\ UNCHANGED <<cur, queue>>
    /\ Goto(w, "reload")
    /\ UNCHANGED <<jvars, wrec, copy, wobj, todo, skip, relaunch, posts, results, cl, pvars, hvars, starts, faults>>

(* Mutant of Reload: the test for a timed out pop is missing.              *)
ReloadNoneUnchecked(w) ==
    /\ pc[w] = "reload"
    /\ wobj' = [wobj EXCEPT ![w] = wrec[w]]
    /\ Goto(w, "load")
    /\ UNCHANGED <<jvars, queue, wrec, cur, copy, todo, skip, relaunch, posts, results, cl, pvars, hvars, starts, faults>>

(* The worker record is reloaded after the pop.  With halt set, stop() is  *)
(* called: it raises at self._redis_set, which does not exist, before its  *)
(* save, so the process ends and the record stays as it is.                *)
Reload(w) ==
    /\ pc[w] = "reload"
    /\ IF wrec[w].halt
       THEN End(w, "halted")
       ELSE /\ wobj' = [wobj EXCEPT ![w] = wrec[w]]
            /\ Goto(w, IF cur[w] = NoId THEN "idle" ELSE "load")
            /\ UNCHANGED <<cur, copy, todo, skip, relaunch, posts, hvars>>
    /\ UNCHANGED <<jvars, queue, wrec, results, cl, pvars, starts, faults>>

(* _state_set(): the process' own copy is saved as WAITING.                *)
StateSet(w) == wrec' = [wrec EXCEPT ![w] = Waiting(wobj[w].halt)]

(* Nothing popped: report WAITING if 20 seconds have passed.               *)
Idle(w) ==
    /\ pc[w] = "idle"
    /\ StateSet(w) \/ UNCHANGED wrec
    /\ Leave(w, "get")
    /\ UNCHANGED <<jvars, queue, results, cl, pvars, hvars, starts, faults>>

(* model_job.get(jobid); a deleted job is ignored.                         *)
Load(w) ==
    /\ pc[w] = "load"
    /\ IF cur[w] \in stored
       THEN /\ copy' = [copy EXCEPT ![w] = jobs[cur[w]]]
            /\ todo' = [todo EXCEPT ![w] = jobs[cur[w]].deps]
            /\ Goto(w, "deps")
            /\ UNCHANGED <<cur, wobj, skip, relaunch, posts, hvars>>
       ELSE End(w, "get")
    /\ UNCHANGED <<jvars, queue, wrec, results, cl, pvars, starts, faults>>

(* One turn of the loop over job.dependencies.                             *)
DepFailed(w, d) ==
    LET rec == [copy[w] EXCEPT !.state = "ERROR", !.stopped = TRUE] IN
    /\ jobs[d].state = "ERROR"
    /\ \/ /\ Save(cur[w], rec)
          /\ copy' = [copy EXCEPT ![w] = rec]
          /\ skip' = [skip EXCEPT ![w] = TRUE]
          /\ todo' = [todo EXCEPT ![w] = @ \ {d}]
          /\ finished' = finished \cup {cur[w]}
          /\ UNCHANGED <<pc, cur, wobj, relaunch, posts, completed, dropped, runs>>
       \/ NameTaken(cur[w], rec.name) /\ End(w, "dead") /\ UNCHANGED jvars

(* Mutant of DepPending: skip is not set.                                  *)
DepPendingNoSkip(w, d) ==
    /\ jobs[d].state \notin {"ERROR", "OK", "DONE"}
    /\ relaunch' = [relaunch EXCEPT ![w] = TRUE]
    /\ todo' = [todo EXCEPT ![w] = @ \ {d}]
    /\ UNCHANGED <<jvars, pc, cur, copy, wobj, skip, posts, hvars>>

DepPending(w, d) ==
    /\ jobs[d].state \notin {"ERROR", "OK", "DONE"}
    /\ skip' = [skip EXCEPT ![w] = TRUE] /\ relaunch' = [relaunch EXCEPT ![w] = TRUE]
    /\ todo' = [todo EXCEPT ![w] = @ \ {d}]
    /\ UNCHANGED <<jvars, pc, cur, copy, wobj, posts, hvars>>

(* Mutant of DepDone: a timeout reported by a waiter counts as done.       *)
DepDoneTimedOut(w, d) ==
    /\ jobs[d].state \in {"OK", "DONE"} \/ jobs[d].error_cat = "TIMEOUT"
    /\ todo' = [todo EXCEPT ![w] = @ \ {d}]
    /\ UNCHANGED <<jvars, pc, cur, copy, wobj, skip, relaunch, posts, hvars>>

(* Mutant of DepDone: the loop ends at the first one that is done.         *)
DepDoneBreak(w, d) ==
    /\ jobs[d].state \in {"OK", "DONE"}
    /\ todo' = [todo EXCEPT ![w] = {}]
    /\ UNCHANGED <<jvars, pc, cur, copy, wobj, skip, relaunch, posts, hvars>>

DepDone(w, d) ==
    /\ jobs[d].state \in {"OK", "DONE"}
    /\ todo' = [todo EXCEPT ![w] = @ \ {d}]
    /\ UNCHANGED <<jvars, pc, cur, copy, wobj, skip, relaunch, posts, hvars>>

CheckDep(w) ==
    /\ pc[w] = "deps"
    /\ \E d \in todo[w] :
         \/ d \in stored /\ (DepFailed(w, d) \/ DepPending(w, d) \/ DepDone(w, d))
         \/ d \notin stored /\ End(w, "dead") /\ UNCHANGED jvars
    /\ UNCHANGED <<queue, wrec, results, cl, pvars, starts, faults>>

(* Mutants of Relaunch: the put is forgotten, done twice, or done at the   *)
(* wrong end of the queue.                                                 *)
RelaunchOnto(w, q) ==
    /\ pc[w] = "deps" /\ todo[w] = {} /\ relaunch[w]
    /\ Save(cur[w], [copy[w] EXCEPT !.state = "NEW"])
    /\ queue' = q
    /\ finished' = finished \ {cur[w]}
    /\ Leave(w, "get")
    /\ UNCHANGED <<wrec, results, cl, pvars, completed, dropped, runs, starts, faults>>
RelaunchNoPut(w) == RelaunchOnto(w, queue)
RelaunchTwice(w) == RelaunchOnto(w, queue \o <<cur[w], cur[w]>>)
RelaunchFront(w) == RelaunchOnto(w, <<cur[w]>> \o queue)

(* A dependency is not done yet: state NEW again, back on the queue.       *)
Relaunch(w) ==
    LET rec == [copy[w] EXCEPT !.state = "NEW"] IN
    /\ pc[w] = "deps" /\ todo[w] = {} /\ relaunch[w]
    /\ \/ /\ Save(cur[w], rec)
          /\ queue' = Append(queue, cur[w])
          /\ finished' = finished \ {cur[w]}
          /\ Leave(w, "get")
          /\ UNCHANGED <<completed, dropped, runs>>
       \/ NameTaken(cur[w], rec.name) /\ End(w, "dead") /\ UNCHANGED <<jvars, queue>>
    /\ UNCHANGED <<wrec, results, cl, pvars, starts, faults>>

(* A dependency failed and none is pending: on to the next job.            *)
Skip(w) ==
    /\ pc[w] = "deps" /\ todo[w] = {} /\ skip[w] /\ ~relaunch[w]
    /\ Leave(w, "get")
    /\ UNCHANGED <<jvars, queue, wrec, results, cl, pvars, hvars, starts, faults>>

(* The worker record is saved as busy and the action begins to run.        *)
Busy(w) ==
    LET rec == [wobj[w] EXCEPT !.state = "BUSY", !.current_job = cur[w]] IN
    /\ pc[w] = "deps" /\ todo[w] = {} /\ ~skip[w]
    /\ wobj' = [wobj EXCEPT ![w] = rec] /\ wrec' = [wrec EXCEPT ![w] = rec]
    /\ runs' = [runs EXCEPT ![cur[w]] = @ + 1]
    /\ Goto(w, "run")
    /\ UNCHANGED <<jvars, queue, cur, copy, todo, skip, relaunch, posts, results, cl, pvars,
                   completed, finished, dropped, starts, faults>>

(* Mutant of Outcome: queue_results is called in the OK branch only.       *)
OutcomePostsOk(w, rec) ==
    /\ pc[w] = "run"
    /\ Save(cur[w], rec)
    /\ copy' = [copy EXCEPT ![w] = rec]
    /\ posts' = [posts EXCEPT ![w] = IF rec.state = "OK" THEN rec.rqs ELSE {}]
    /\ completed' = IF rec.state = "OK" THEN completed \cup {cur[w]} ELSE completed
    /\ finished' = finished \cup {cur[w]}
    /\ Goto(w, "post")
    /\ UNCHANGED <<queue, wrec, cur, wobj, todo, skip, relaunch, results, cl, pvars, dropped, runs, starts, faults>>

(* The action ended; the outcome is saved.  An exception of the save ends  *)
(* the process.                                                            *)
Outcome(w, rec) ==
    /\ pc[w] = "run"
    /\ \/ /\ Save(cur[w], rec)
          /\ copy' = [copy EXCEPT ![w] = rec]
          /\ posts' = [posts EXCEPT ![w] = rec.rqs]
          /\ completed' = IF rec.state = "OK" THEN completed \cup {cur[w]} ELSE completed
          /\ finished' = finished \cup {cur[w]}
          /\ Goto(w, "post")
          /\ UNCHANGED <<cur, wobj, todo, skip, relaunch, dropped, runs>>
       \/ NameTaken(cur[w], rec.name) /\ End(w, "dead") /\ UNCHANGED jvars
    /\ UNCHANGED <<queue, wrec, results, cl, pvars, starts, faults>>

RunOk(w) == Outcome(w, [copy[w] EXCEPT !.state = "OK", !.stopped = TRUE])

(* does not compile, raises, or its result cannot be serialized            *)
RunError(w) == Outcome(w, [copy[w] EXCEPT !.state = "ERROR", !.stopped = TRUE])

(* deadline(job.timeout)                                                   *)
RunTimeout(w) ==
    /\ copy[w].timeout
    /\ Outcome(w, [copy[w] EXCEPT !.state = "ERROR", !.stopped = TRUE, !.error_cat = "TIMEOUT"])

(* Mutant of Post: the queue stays on the list of queues to post on.       *)
PostAgain(w, q) ==
    /\ pc[w] = "post" /\ q \in posts[w]
    /\ results' = [results EXCEPT ![q] = Append(@, cur[w])]
    /\ UNCHANGED <<jvars, queue, wvars, cl, pvars, hvars, starts, faults>>

(* queue_results: one put per return queue.                                *)
Post(w, q) ==
    /\ pc[w] = "post" /\ q \in posts[w]
    /\ results' = [results EXCEPT ![q] = Append(@, cur[w])]
    /\ posts' = [posts EXCEPT ![w] = @ \ {q}]
    /\ UNCHANGED <<jvars, queue, wrec, pc, cur, copy, wobj, todo, skip, relaunch, cl, pvars, hvars, starts, faults>>

(* After an OK the record goes to WAITING when the queue is empty; after   *)
(* an ERROR it keeps saying BUSY.                                          *)
Again(w) ==
    /\ pc[w] = "post" /\ posts[w] = {}
    /\ IF copy[w].state = "OK" /\ queue = <<>> THEN StateSet(w) ELSE UNCHANGED wrec
    /\ Leave(w, "get")
    /\ UNCHANGED <<jvars, queue, results, cl, pvars, hvars, starts, faults>>

-----------------------------------------------------------------------------
(* The parent: workers.find(reload=True) loads the records, the decision   *)
(* is taken on the copies.  How old last_update is, is left open.          *)
Fault == faults < MaxFaults /\ faults' = faults + 1

WorkersLoad(w) ==
    /\ pst[w] = "idle" /\ faults < MaxFaults
    /\ pobj' = [pobj EXCEPT ![w] = wrec[w]] /\ pst' = [pst EXCEPT ![w] = "loaded"]
    /\ UNCHANGED <<jvars, queue, wvars, results, cl, hvars, starts, faults>>

Put(w, rec, next) ==
    /\ wrec' = [wrec EXCEPT ![w] = rec]
    /\ pobj' = [pobj EXCEPT ![w] = IF next = "idle" THEN Waiting(FALSE) ELSE rec]
    /\ pst' = [pst EXCEPT ![w] = next]

(* MyWorker.stop(hard=False)                                               *)
SoftStop(w) ==
    /\ pst[w] = "loaded" /\ Fault
    /\ Put(w, [pobj[w] EXCEPT !.halt = TRUE], "idle")
    /\ UNCHANGED <<jvars, queue, pc, locals, results, cl, hvars, starts>>

(* MyWorker.stop(hard=True)                                                *)
HardStop(w) ==
    /\ pst[w] = "loaded" /\ Fault
    /\ End(w, "down")
    /\ Put(w, Halted, "idle")
    /\ UNCHANGED <<jvars, queue, results, cl, starts>>

(* _main_loop_tmux on a worker in ERROR, WAITING or BUSY for too long:     *)
(* stop(hard=True), start().                                               *)
Restart(w) ==
    /\ pst[w] = "loaded" /\ pobj[w].state \in {"ERROR", "WAITING", "BUSY"} /\ Fault
    /\ End(w, "boot")
    /\ Put(w, Halted, "starting")
    /\ UNCHANGED <<jvars, queue, results, cl, starts>>

(* worker_tmux_start, or _main_loop_tmux on NEW: a worker that reported    *)
(* WAITING or BUSY within 40 seconds is left alone.                        *)
TmuxStart(w) ==
    LET rec == IF pobj[w].state \in {"HALTED", "ERROR"} THEN [pobj[w] EXCEPT !.state = "NEW"] ELSE pobj[w] IN
    /\ pst[w] = "loaded" /\ Fault
    /\ \/ End(w, "boot")
       \/ /\ rec.state \in {"WAITING", "BUSY"}
          /\ UNCHANGED <<pc, locals, hvars>>
    /\ Put(w, rec, "starting")
    /\ UNCHANGED <<jvars, queue, results, cl, starts>>

(* state_update() at the end of MyWorker.start: the parent's copy is saved *)
(* over whatever the new process wrote.                                    *)
StateUpdate(w) ==
    /\ pst[w] = "starting"
    /\ Put(w, Waiting(pobj[w].halt), "idle")
    /\ UNCHANGED <<jvars, queue, pc, locals, results, cl, hvars, starts, faults>>

(* workers_check: a worker that did not report in time is marked ERROR.    *)
WorkersCheck(w) ==
    /\ pst[w] = "loaded" /\ pobj[w].state \in {"NEW", "WAITING", "BUSY"} /\ Fault
    /\ Put(w, [pobj[w] EXCEPT !.state = "ERROR"], "idle")
    /\ UNCHANGED <<jvars, queue, pc, locals, results, cl, hvars, starts>>

(* The process dies by itself.                                             *)
Crash(w) ==
    /\ pc[w] \notin {"down", "dead", "halted"} /\ Fault
    /\ End(w, "dead")
    /\ UNCHANGED <<jvars, queue, wrec, results, cl, pvars, starts>>

-----------------------------------------------------------------------------
WorkerStep(w) ==
    \/ ProcStart(w) \/ Get(w) \/ Reload(w) \/ Idle(w) \/ Load(w) \/ CheckDep(w)
    \/ Relaunch(w) \/ Skip(w) \/ Busy(w) \/ RunOk(w) \/ RunError(w) \/ RunTimeout(w)
    \/ (\E q \in QNames : Post(w, q)) \/ Again(w)

ParentStep(w) ==
    \/ WorkersLoad(w) \/ SoftStop(w) \/ HardStop(w) \/ Restart(w) \/ TmuxStart(w)
    \/ StateUpdate(w) \/ WorkersCheck(w)

ClientStep ==
    \/ \E n \in Names : ScheduleDelete(n)
    \/ \E n \in Names \cup JobIds, D \in SUBSET JobIds, Q \in SUBSET QNames : ScheduleNew(n, D, Q)
    \/ \E j \in JobIds, t \in BOOLEAN : ScheduleSave(j, t)
    \/ \E j \in JobIds : SchedulePut(j) \/ ScheduleEnd(j) \/ Start(j)
    \/ \E c \in Clients, j \in JobIds : CheckLoad(c, j)
    \/ \E c \in Clients : CheckReady(c)

Next == ClientStep \/ \E w \in Workers : WorkerStep(w) \/ ParentStep(w) \/ Crash(w)

Spec == Init /\ [][Next]_vars

(* Each worker process keeps running, a started process gets its           *)
(* state_update, and a call of schedule() that saved the record goes on to *)
(* the put; nothing is assumed of new calls, of waiters or of faults.      *)
Fairness ==
    /\ \A w \in Workers : WF_vars(WorkerStep(w)) /\ WF_vars(StateUpdate(w))
    /\ \A j \in JobIds : WF_vars(SchedulePut(j))

FairSpec == Spec /\ Fairness
-----------------------------------------------------------------------------
ProcStates == {"boot", "get", "reload", "idle", "load", "deps", "run", "post", "halted", "down", "dead"}

StoreType ==
    /\ stored \subseteq JobIds /\ jobs \in [JobIds -> JobRec] /\ nextId \in 1..(MaxJobs + 1)
    /\ making \subseteq JobIds /\ draft \in [JobIds -> JobRec]
    /\ queue \in Seq(JobIds) /\ results \in [QNames -> Seq(JobIds)]

ProcType ==
    /\ wrec \in [Workers -> WorkerRec] /\ wobj \in [Workers -> WorkerRec]
    /\ pc \in [Workers -> ProcStates]
    /\ cur \in [Workers -> JobIds \cup {NoId}] /\ copy \in [Workers -> JobRec]
    /\ todo \in [Workers -> SUBSET JobIds] /\ posts \in [Workers -> SUBSET QNames]
    /\ skip \in [Workers -> BOOLEAN] /\ relaunch \in [Workers -> BOOLEAN]
    /\ \A w \in Workers : pc[w] \in {"load", "deps", "run", "post"} => cur[w] \in JobIds
    /\ \A w \in Workers : pc[w] \in {"boot", "get"} => cur[w] = NoId

OthersType ==
    /\ cl \in [Clients -> [pc: {"idle", "loaded", "ready"}, id: JobIds \cup {NoId}, copy: JobRec]]
    /\ \A c \in Clients : cl[c].pc = "loaded" => cl[c].id \in JobIds
    /\ pobj \in [Workers -> WorkerRec] /\ pst \in [Workers -> {"idle", "loaded", "starting"}]

HistoryType ==
    /\ completed \subseteq JobIds /\ finished \subseteq JobIds /\ dropped \subseteq JobIds
    /\ runs \in [JobIds -> Nat]
    /\ starts \in 0..MaxStarts /\ faults \in 0..MaxFaults

(* Type correctness of the job system's state.  A worker past the pop     *)
(* always has a job id in hand: the timed out pop was sorted out before.  *)
TypeOK == StoreType /\ ProcType /\ OthersType /\ HistoryType

(* Dependencies come first: while a worker runs the action of a job, every *)
(* dependency named by the job's record was brought to OK by a worker at   *)
(* some earlier time, whatever crashed, was restarted, timed out or was    *)
(* saved from a stale copy meanwhile (MyWorkerProcess.start, the loop over *)
(* job.dependencies).                                                      *)
DependencyOrder ==
    \A w \in Workers : pc[w] = "run" => jobs[cur[w]].deps \subseteq completed

(* A job is executed at most once per time it was put on the queue by a    *)
(* client: the relaunches of a waiting job and the restarts of workers add *)
(* no execution (schedule, start, and the relaunch in MyWorkerProcess).    *)
AtMostOncePerPut == \A j \in JobIds : runs[j] <= 1 + starts

(* No job disappears: a stored job has an outcome, or its id is queued, or *)
(* its schedule() is still on the way to the put, or a worker holds it, or *)
(* the delivery was lost in one of the known ways (the client died or got  *)
(* an exception between the save and the put, the worker died or was       *)
(* halted holding the id, or found the record deleted).                    *)
NoSilentLoss ==
    \A j \in stored :
        \/ j \in finished \cup dropped \cup making
        \/ \E i \in 1..Len(queue) : queue[i] = j
        \/ \E w \in Workers : j \in Held(w)

(* A return queue gets at most one result per execution of the job         *)
(* (queue_results in MyWorkerProcess.start).                               *)
PostedOncePerRun ==
    \A q \in QNames, j \in JobIds :
        Cardinality({i \in 1..Len(results[q]) : results[q][i] = j}) <= runs[j]

(* Without crashes and without interventions, every scheduled job ends     *)
(* with OK or ERROR for good, also those that have to be relaunched until  *)
(* their dependencies are done.                                            *)
EveryJobFinishes == <>[](stored \subseteq finished)

(* When no worker has an executed job in hand any more, its result is on   *)
(* each of its return queues, also when it failed; a crash or an           *)
(* intervention of the parent between the execution and the posts costs    *)
(* the results of one job at most, and only a job whose outcome could not  *)
(* be saved has none (queue_results in MyWorkerProcess.start).             *)
Unposted(q) ==
    {j \in JobIds \ dropped : /\ runs[j] > 0 /\ q \in jobs[j].rqs
                             /\ \A w \in Workers : cur[w] # j
                             /\ ~\E i \in 1..Len(results[q]) : results[q][i] = j}

ResultsPosted == \A q \in QNames : Cardinality(Unposted(q)) <= faults
-----------------------------------------------------------------------------
(* What a docstring says and the code does not do.                         *)

(* An OK that a worker saved stays: check_ready() "will make sure that the *)
(* object data is right e.g. state, time, ..." (MyJobs.py:60).             *)
OkIsFinal ==
    [][\A j \in stored : jobs[j].state = "OK" => (j \notin stored' \/ jobs'[j].state = "OK")]_vars
=============================================================================
