--------------------------- MODULE ExecutionState ---------------------------
(***************************************************************************)
(* The mutable execution record of one published Run (execution.json): its *)
(* shape, the transitions the store accepts and the validity rules it      *)
(* enforces on every save.  The record is the only authority for what a    *)
(* Run did, so every writer (the executor, Discard, detach) goes through   *)
(* CanSave.                                                                *)
(*                                                                         *)
(* Timestamps, free text and HTTP evidence are left out.  started_at is    *)
(* set exactly when the Run leaves "created" by running, which the two     *)
(* cancelled shapes below distinguish by their Run diagnostic; completed_at*)
(* is set by every terminal save.  A Job keeps the evidence the rules tell *)
(* apart: whether preparation gave it a client ID, its submission          *)
(* disposition, whether a prompt ID is known, and how many Results are     *)
(* recorded.                                                               *)
(***************************************************************************)
EXTENDS Integers

CONSTANTS
  NumJobs,       \* Jobs of the compiled plan, ordinals 1 .. NumJobs
  MaxArtifacts   \* bound on the output artifacts of one remote Job

ASSUME NumJobsAssumption == NumJobs \in Nat \ {0}
ASSUME MaxArtifactsAssumption == MaxArtifacts \in Nat

Jobs == 1 .. NumJobs

RunStatus ==
  {"absent", "created", "running", "succeeded", "failed", "blocked", "cancelled"}

JobStatus ==
  {"pending", "preparing", "submitting", "submission_unknown", "submitted",
   "succeeded", "failed", "cancelled"}

Disposition == {"none", "accepted", "rejected", "unknown"}

\* "job": the Run carries the error and diagnostics of the Job that ended it.
RunDiagnostic ==
  {"none", "job", "discarded_before_start", "stopped_after_current_job", "detached"}

TerminalRun == {"succeeded", "failed", "cancelled"}
TerminalJob == {"succeeded", "failed", "cancelled"}

\* A Job whose remote outcome may still be open.
UnresolvedJob == {"submission_unknown", "submitted"}

JobRecord ==
  [status : JobStatus, client : BOOLEAN, disposition : Disposition,
   prompt : BOOLEAN, results : 0 .. MaxArtifacts]

\* current = 0 stands for current_job_ordinal: null; status "absent" stands
\* for a Run directory without execution.json.
RunRecord ==
  [status : RunStatus, current : 0 .. NumJobs, diagnostic : RunDiagnostic,
   jobs : [Jobs -> JobRecord]]

PristineJob ==
  [status |-> "pending", client |-> FALSE, disposition |-> "none",
   prompt |-> FALSE, results |-> 0]

InitialState ==
  [status |-> "created", current |-> 0, diagnostic |-> "none",
   jobs |-> [j \in Jobs |-> PristineJob]]

NoState == [InitialState EXCEPT !.status = "absent"]

RunTransitions ==
  [s \in RunStatus |->
     CASE s = "created" -> {"running", "cancelled"}
       [] s = "running" -> {"succeeded", "failed", "blocked", "cancelled"}
       [] s = "blocked" -> {"running", "succeeded", "failed"}
       [] OTHER -> {}]

JobTransitions ==
  [s \in JobStatus |->
     CASE s = "pending" -> {"preparing", "cancelled"}
       [] s = "preparing" -> {"submitting", "failed", "cancelled"}
       [] s = "submitting" -> {"submitted", "submission_unknown", "failed"}
       [] s = "submission_unknown" -> {"submitted", "failed"}
       [] s = "submitted" -> {"succeeded", "failed"}
       [] OTHER -> {}]

-----------------------------------------------------------------------------
(* Validity of one record.                                                 *)

ValidJob(job) ==
  /\ job.status \in {"submitted", "succeeded"} =>
       job.disposition = "accepted" /\ job.prompt
  /\ job.status = "submission_unknown" =>
       job.disposition = "unknown" /\ ~job.prompt
  /\ job.status = "cancelled" =>
       job.disposition = "none" /\ ~job.prompt /\ job.results = 0

\* The only shape in which a Run blocked by a detach may be stored: a
\* succeeded prefix, the unresolved current Job, a pristine suffix.
DetachedShape(s) ==
  /\ s.current \in Jobs
  /\ s.jobs[s.current].status \in {"preparing"} \union UnresolvedJob
  /\ \A j \in 1 .. s.current - 1 : s.jobs[j].status = "succeeded"
  /\ \A j \in s.current + 1 .. NumJobs : s.jobs[j] = PristineJob

DiscardedShape(s) ==
  /\ s.current = 0
  /\ s.diagnostic = "discarded_before_start"
  /\ \A j \in Jobs : s.jobs[j] = PristineJob

\* A succeeded prefix and a non-empty cancelled suffix of which only the
\* first Job may show that it was being prepared.
StoppedShape(s) ==
  /\ s.current = 0
  /\ s.diagnostic = "stopped_after_current_job"
  /\ \E first \in Jobs :
       /\ \A j \in 1 .. first - 1 : s.jobs[j].status = "succeeded"
       /\ \A j \in first .. NumJobs : s.jobs[j].status = "cancelled"
       /\ \A j \in first + 1 .. NumJobs : ~s.jobs[j].client

ValidState(s) ==
  /\ \A j \in Jobs : ValidJob(s.jobs[j])
  /\ s.status = "succeeded" =>
       s.current = 0 /\ \A j \in Jobs : s.jobs[j].status = "succeeded"
  /\ s.status = "failed" => \E j \in Jobs : s.jobs[j].status = "failed"
  /\ s.status = "blocked" =>
       IF s.diagnostic = "detached"
       THEN DetachedShape(s)
       ELSE \E j \in Jobs : s.jobs[j].status \in UnresolvedJob
  /\ s.status = "cancelled" => DiscardedShape(s) \/ StoppedShape(s)

-----------------------------------------------------------------------------
(* Validity of one change.                                                 *)

ValidJobTransition(old, new) ==
  /\ new.status = old.status \/ new.status \in JobTransitions[old.status]
  /\ old.status \in TerminalJob => new = old
  /\ old.prompt => new.prompt
  /\ \/ old.disposition = "none"
     \/ new.disposition = old.disposition
     \/ /\ old.status = "submission_unknown"
        /\ <<new.status, new.disposition>> \in
             {<<"submitted", "accepted">>, <<"failed", "rejected">>}
  /\ new.results >= old.results

\* A terminal record is never rewritten: a second save of a terminal outcome
\* carries another completion time and differs.
ValidTransition(old, new) ==
  /\ new.status = old.status \/ new.status \in RunTransitions[old.status]
  /\ old.status \notin TerminalRun
  /\ \A j \in Jobs : ValidJobTransition(old.jobs[j], new.jobs[j])

\* Result files the new record names and the old one does not.
NewResults(old, new) ==
  UNION {{j} \X (old.jobs[j].results + 1 .. new.jobs[j].results) : j \in Jobs}

\* Seeded fault: a save is not compared with the record it replaces.
CanSaveUncompared(old, new, files) ==
  ValidState(new) /\ NewResults(old, new) \subseteq files

\* ExecutionStateStore.save accepts new while the file holds old.
CanSave(old, new, files) ==
  /\ ValidState(new)
  /\ old.status # "absent" => ValidTransition(old, new)
  /\ NewResults(old, new) \subseteq files

=============================================================================
