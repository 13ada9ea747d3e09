---------------------------- MODULE RunLifecycle ----------------------------
(***************************************************************************)
(* What one Run promises to a reader of its record who knows nothing of    *)
(* tasks, locks, event streams or crashes: the status of the Run, the      *)
(* status of each Job and the submissions made, and the few ways in which  *)
(* they may change.  Jobs advance strictly in order, a Job is submitted    *)
(* once and only while it is recorded as being submitted, and each outcome *)
(* of the Run is justified by its Jobs.  RunExecution implements this.     *)
(***************************************************************************)
EXTENDS ExecutionState

VARIABLES
  status,   \* of the Run
  jobs,     \* status of each Job
  sent      \* submissions of each Job

vars == <<status, jobs, sent>>

Init ==
  /\ status = "absent"
  /\ jobs = [j \in Jobs |-> "pending"]
  /\ sent = [j \in Jobs |-> 0]

\* Every Job before j is done and every Job after it is untouched.
InOrder(j) ==
  /\ \A i \in 1 .. j - 1 : jobs[i] = "succeeded"
  /\ \A i \in j + 1 .. NumJobs : jobs[i] = "pending"

Create ==
  /\ status = "absent"
  /\ status' = "created"
  /\ UNCHANGED <<jobs, sent>>

\* Only a Run that never started can be discarded, and its Jobs stay pending.
DiscardRun ==
  /\ status \in {"absent", "created"}
  /\ status' = "cancelled"
  /\ UNCHANGED <<jobs, sent>>

Begin ==
  /\ status = "created"
  /\ status' = "running"
  /\ UNCHANGED <<jobs, sent>>

\* The current Job takes one legal step; only Stop cancels.
AdvanceJob(j) ==
  /\ status = "running"
  /\ InOrder(j)
  /\ jobs' \in {[jobs EXCEPT ![j] = to] : to \in JobTransitions[jobs[j]] \ {"cancelled"}}
  /\ UNCHANGED <<status, sent>>

SubmitJob(j) ==
  /\ status = "running"
  /\ InOrder(j)
  /\ jobs[j] = "submitting"
  /\ sent[j] = 0
  /\ sent' = [sent EXCEPT ![j] = 1]
  /\ UNCHANGED <<status, jobs>>

SucceedRun ==
  /\ status = "running"
  /\ \A j \in Jobs : jobs[j] = "succeeded"
  /\ status' = "succeeded"
  /\ UNCHANGED <<jobs, sent>>

FailRun ==
  /\ status = "running"
  /\ \E j \in Jobs : jobs[j] = "failed"
  /\ status' = "failed"
  /\ UNCHANGED <<jobs, sent>>

\* The Run stops on one unresolved Job.  A submission in flight is recorded
\* as unknown, never as not submitted.
BlockRun(j) ==
  /\ status = "running"
  /\ InOrder(j)
  /\ status' = "blocked"
  /\ \/ /\ jobs[j] \in {"preparing"} \union UnresolvedJob
        /\ UNCHANGED jobs
     \/ /\ jobs[j] = "submitting"
        /\ jobs' = [jobs EXCEPT ![j] = "submission_unknown"]
  /\ UNCHANGED sent

\* The Run stops between Jobs or before the submission of Job j: what is
\* done stays done and the rest is cancelled.
StopRun(j) ==
  /\ status = "running"
  /\ InOrder(j)
  /\ jobs[j] \in {"pending", "preparing"}
  /\ status' = "cancelled"
  /\ jobs' = [i \in Jobs |-> IF i < j THEN "succeeded" ELSE "cancelled"]
  /\ UNCHANGED sent

Next ==
  \/ Create \/ DiscardRun \/ Begin \/ SucceedRun \/ FailRun
  \/ \E j \in Jobs : AdvanceJob(j) \/ SubmitJob(j) \/ BlockRun(j) \/ StopRun(j)

Spec == Init /\ [][Next]_vars

=============================================================================
