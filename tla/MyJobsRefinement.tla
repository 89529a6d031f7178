-------------------------- MODULE MyJobsRefinement --------------------------
(***************************************************************************)
(* The job system implements the job service, as long as nobody calls     *)
(* start() on a job that was scheduled (MaxStarts = 0): that is a second  *)
(* delivery of the same job.                                               *)
(***************************************************************************)
EXTENDS MyJobs

\* A worker that looks at the dependencies holds the job back even when it has
\* saved an ERROR: a later dependency that is pending makes it NEW again.
Phase(j) ==
    IF j >= nextId THEN "absent"
    ELSE IF \E w \in Workers : pc[w] = "run" /\ cur[w] = j THEN "running"
    ELSE IF \E w \in Workers : pc[w] = "deps" /\ cur[w] = j THEN "waiting"
    ELSE IF j \in finished THEN "ended"
    ELSE IF j \in dropped THEN "lost"
    ELSE "waiting"

Service == INSTANCE JobService WITH
    Jobs    <- JobIds,
    MayLose <- MaxFaults > 0 \/ Names # {},
    phase   <- [j \in JobIds |-> Phase(j)],
    needs   <- [j \in JobIds |-> jobs[j].deps],
    ok      <- completed

(* Whatever workers crash, are stopped, restarted or declared dead in the  *)
(* middle of a job, and however old the copies are that they save, a job   *)
(* goes through the phases of the service: one execution, after its        *)
(* dependencies, and one final end (MyWorkerProcess.start).                *)
ServesJobs == Service!Spec

(* Without faults and without names that replace jobs none is lost, and    *)
(* every job that can go on does so, whatever number of times it is        *)
(* relaunched to wait for its dependencies.                                *)
ServesJobsFairly == Service!FairSpec
=============================================================================
