----------------------------- MODULE JobService -----------------------------
(***************************************************************************)
(* What the job system promises to those who schedule jobs: a job is run  *)
(* at most once, only after the jobs it needs have succeeded; it is not    *)
(* run when one of them, or one that those need, has failed; and the end  *)
(* it comes to is final.                                                   *)
(* Nothing is said of queues, workers, records and copies.                *)
(***************************************************************************)
EXTENDS Naturals

CONSTANTS Jobs,     \* identifiers of jobs, a set of numbers
          MayLose   \* TRUE where workers may die and jobs may be replaced

VARIABLES phase,    \* "absent", "waiting", "running", "ended" or "lost"
          needs,    \* the jobs that have to succeed before
          ok        \* the jobs that have succeeded

svars == <<phase, needs, ok>>

Init ==
  /\ phase = [j \in Jobs |-> "absent"]
  /\ needs = [j \in Jobs |-> {}]
  /\ ok = {}

To(j, p) == phase' = [phase EXCEPT ![j] = p]

Submit(j, D) ==
  /\ phase[j] = "absent"
  /\ To(j, "waiting")
  /\ needs' = [needs EXCEPT ![j] = D]
  /\ UNCHANGED ok

Begin(j) ==
  /\ phase[j] = "waiting" /\ needs[j] \subseteq ok
  /\ To(j, "running")
  /\ UNCHANGED <<needs, ok>>

Finish(j) ==
  /\ phase[j] = "running"
  /\ To(j, "ended")
  /\ ok' = ok \/ ok' = ok \cup {j}
  /\ UNCHANGED needs

\* Jobs that cannot succeed any more: failed, or with such a job among the
\* ones they need, which all have lower numbers.
Condemned[j \in Jobs] ==
  \/ phase[j] = "ended" /\ j \notin ok
  \/ \E d \in needs[j] : d < j /\ Condemned[d]

Refuse(j) ==
  /\ phase[j] = "waiting"
  /\ \E d \in needs[j] : Condemned[d]
  /\ To(j, "ended")
  /\ UNCHANGED <<needs, ok>>

Lose(j) ==
  /\ MayLose
  /\ phase[j] \in {"waiting", "running"}
  /\ To(j, "lost")
  /\ UNCHANGED <<needs, ok>>

Step(j) == Begin(j) \/ Finish(j) \/ Refuse(j)

Next == \E j \in Jobs : Step(j) \/ Lose(j) \/ \E D \in SUBSET Jobs : Submit(j, D)

Spec == Init /\ [][Next]_svars

\* A job that can go on does so.
FairSpec == Spec /\ \A j \in Jobs : WF_svars(Step(j))
=============================================================================
