------------------------ MODULE RunExecution_proofs -------------------------
(***************************************************************************)
(* Proofs about RunExecution, for any number of Jobs, artifacts, crashes   *)
(* and failed writes.  TypeCorrect needs CurrentInHand beside TypeOK,      *)
(* because a step reads the Job in hand and the count of its artifacts.    *)
(* The theorems about submissions rest on SubmissionInvariant, proved      *)
(* inductive on top of it: the four properties themselves, what the record *)
(* on disk says just before a request leaves (WriteAhead), which Jobs are  *)
(* durably done (PrefixDone), and who knows of the stored cancellation     *)
(* requests (Barrier, AbsentRecord).                                       *)
(* That the executor implements RunLifecycle, that the record is true and  *)
(* that evidence is kept rest on CopyInvariant, which says what its own    *)
(* copy of the record has to do with the record on disk.                   *)
(***************************************************************************)
EXTENDS RunExecution, TLAPS

-----------------------------------------------------------------------------
(* The records the executor writes have the shape of records.              *)

\* Replacing the current Job gives a record of the same Run.
LEMMA WithJobIsRecord ==
  ASSUME NEW s \in RunRecord, NEW job \in JobRecord
  PROVE  /\ WithJob(s, job) \in RunRecord
         /\ WithJob(s, job).current = s.current
         /\ WithJob(s, job).status = s.status
         /\ s.current \in Jobs => WithJob(s, job).jobs[s.current] = job
BY DEF WithJob, RunRecord

\* What a save the store accepts keeps of the record it replaces: it exists,
\* terminal Jobs are frozen, and no Job returns to a status that denies its
\* submission.
LEMMA CanSaveRecord ==
  ASSUME NEW old \in RunRecord, NEW new \in RunRecord, NEW stored,
         CanSave(old, new, stored), old.status # "absent"
  PROVE  /\ new.status # "absent"
         /\ \A j \in Jobs : old.jobs[j].status \in TerminalJob => new.jobs[j] = old.jobs[j]
         /\ \A j \in Jobs :
              old.jobs[j].status \notin {"pending", "preparing", "cancelled"} =>
                new.jobs[j].status \notin {"pending", "preparing", "cancelled"}
BY DEF CanSave, ValidTransition, ValidJobTransition, RunTransitions, JobTransitions, TerminalJob,
  TerminalRun, RunRecord, JobRecord, RunStatus, JobStatus

\* The current Job of a record is a Job record.
LEMMA JobInRecord ==
  ASSUME NEW s \in RunRecord, s.current \in Jobs
  PROVE  s.jobs[s.current] \in JobRecord
BY DEF RunRecord

\* The record that starts a Job's preparation (PREPARING and a client ID).
LEMMA PreparingRecord ==
  ASSUME NEW s \in RunRecord, s.current \in Jobs
  PROVE  /\ PreparingJob(s) \in RunRecord
         /\ PreparingJob(s).current = s.current
         /\ PreparingJob(s).jobs[s.current].status = "preparing"
<1> DEFINE job == [s.jobs[s.current] EXCEPT !.status = "preparing", !.client = TRUE]
<1>1. job \in JobRecord /\ job.status = "preparing"
  BY JobInRecord DEF JobRecord, JobStatus
<1>2. QED
  BY <1>1, WithJobIsRecord DEF PreparingJob

\* The record written ahead of a submission.
LEMMA SubmittingRecord ==
  ASSUME NEW s \in RunRecord, s.current \in Jobs
  PROVE  /\ SubmittingJob(s) \in RunRecord
         /\ SubmittingJob(s).current = s.current
         /\ SubmittingJob(s).jobs[s.current].status = "submitting"
<1> DEFINE job == [s.jobs[s.current] EXCEPT !.status = "submitting"]
<1>1. job \in JobRecord /\ job.status = "submitting"
  BY JobInRecord DEF JobRecord, JobStatus
<1>2. QED
  BY <1>1, WithJobIsRecord DEF SubmittingJob

\* The record of a submission whose outcome is unknown.
LEMMA UnknownRecord ==
  ASSUME NEW s \in RunRecord, s.current \in Jobs
  PROVE  UnknownJob(s) \in RunRecord /\ UnknownJob(s).current = s.current
<1> DEFINE job == [s.jobs[s.current] EXCEPT
                     !.status = "submission_unknown", !.disposition = "unknown"]
<1>1. job \in JobRecord
  BY JobInRecord DEF JobRecord, JobStatus, Disposition
<1>2. QED
  BY <1>1, WithJobIsRecord DEF UnknownJob

\* The record of an accepted submission, with its prompt ID.
LEMMA AcceptedRecord ==
  ASSUME NEW s \in RunRecord, s.current \in Jobs
  PROVE  AcceptedJob(s) \in RunRecord /\ AcceptedJob(s).current = s.current
<1> DEFINE job == [s.jobs[s.current] EXCEPT
                     !.status = "submitted", !.disposition = "accepted", !.prompt = TRUE]
<1>1. job \in JobRecord
  BY JobInRecord DEF JobRecord, JobStatus, Disposition
<1>2. QED
  BY <1>1, WithJobIsRecord DEF AcceptedJob

\* The records that end a Job: rejected, failed, succeeded.
LEMMA EndedRecord ==
  ASSUME NEW s \in RunRecord, s.current \in Jobs
  PROVE  /\ RejectedJob(s) \in RunRecord /\ RejectedJob(s).current = s.current
         /\ FailedJob(s) \in RunRecord /\ FailedJob(s).current = s.current
         /\ SucceededJob(s) \in RunRecord /\ SucceededJob(s).current = s.current
<1>1. RejectedJob(s) \in RunRecord /\ RejectedJob(s).current = s.current
  <2> DEFINE job == [s.jobs[s.current] EXCEPT !.status = "failed", !.disposition = "rejected"]
  <2>1. job \in JobRecord
    BY JobInRecord DEF JobRecord, JobStatus, Disposition
  <2>2. QED
    BY <2>1, WithJobIsRecord DEF RejectedJob
<1>2. FailedJob(s) \in RunRecord /\ FailedJob(s).current = s.current
  <2> DEFINE job == [s.jobs[s.current] EXCEPT !.status = "failed"]
  <2>1. job \in JobRecord
    BY JobInRecord DEF JobRecord, JobStatus
  <2>2. QED
    BY <2>1, WithJobIsRecord DEF FailedJob
<1>3. SucceededJob(s) \in RunRecord /\ SucceededJob(s).current = s.current
  <2> DEFINE job == [s.jobs[s.current] EXCEPT !.status = "succeeded"]
  <2>1. job \in JobRecord
    BY JobInRecord DEF JobRecord, JobStatus
  <2>2. QED
    BY <2>1, WithJobIsRecord DEF SucceededJob
<1>4. QED
  BY <1>1, <1>2, <1>3

\* The record that names one more Result, when the bound leaves room for it.
LEMMA RecordedRecord ==
  ASSUME NEW s \in RunRecord, s.current \in Jobs,
         s.jobs[s.current].results < MaxArtifacts
  PROVE  /\ RecordedJob(s) \in RunRecord
         /\ RecordedJob(s).current = s.current
         /\ RecordedJob(s).jobs[s.current].results = s.jobs[s.current].results + 1
<1> DEFINE job == [s.jobs[s.current] EXCEPT !.results = @ + 1]
<1>1. job \in JobRecord /\ job.results = s.jobs[s.current].results + 1
  BY JobInRecord, MaxArtifactsAssumption DEF JobRecord
<1>2. RecordedJob(s) = WithJob(s, job)
  BY DEF RecordedJob, WithJob, RunRecord
<1>3. QED
  BY <1>1, <1>2, WithJobIsRecord

\* The record of a stopped Run: cancelled, with no current Job.
LEMMA StoppedRecord ==
  ASSUME NEW s \in RunRecord
  PROVE  /\ StoppedRun(s) \in RunRecord
         /\ StoppedRun(s).status = "cancelled"
         /\ StoppedRun(s).current = 0
<1> DEFINE job(j) == IF s.jobs[j].status \in {"pending", "preparing"}
                     THEN [s.jobs[j] EXCEPT !.status = "cancelled"]
                     ELSE s.jobs[j]
<1>1. \A j \in Jobs : job(j) \in JobRecord
  BY DEF RunRecord, JobRecord, JobStatus
<1> DEFINE jobs == [j \in Jobs |-> job(j)]
<1>2. jobs \in [Jobs -> JobRecord]
  BY <1>1
<1>3. StoppedRun(s) =
        [s EXCEPT !.status = "cancelled", !.current = 0,
                  !.diagnostic = "stopped_after_current_job", !.jobs = jobs]
  BY DEF StoppedRun
<1> HIDE DEF jobs
<1>4. 0 \in 0 .. NumJobs
  BY NumJobsAssumption
<1>5. StoppedRun(s) =
        [status |-> "cancelled", current |-> 0,
         diagnostic |-> "stopped_after_current_job", jobs |-> jobs]
  BY <1>3 DEF RunRecord
<1>6. QED
  BY <1>2, <1>4, <1>5 DEF RunRecord, RunStatus, RunDiagnostic

\* The record of a detached Run keeps its current Job.
LEMMA DetachedRecord ==
  ASSUME NEW s \in RunRecord, s.current \in Jobs
  PROVE  DetachedRun(s) \in RunRecord /\ DetachedRun(s).current = s.current
BY UnknownRecord DEF DetachedRun, RunRecord, RunStatus, RunDiagnostic

-----------------------------------------------------------------------------
(* Type correctness.                                                       *)

TypeInvariant == TypeOK /\ CurrentInHand

\* The initial record and the absent one have the shape of records.
LEMMA InitialRecords ==
  InitialState \in RunRecord /\ NoState \in RunRecord
<1>1. PristineJob \in JobRecord
  BY MaxArtifactsAssumption DEF PristineJob, JobRecord, JobStatus, Disposition
<1>2. 0 \in 0 .. NumJobs
  BY NumJobsAssumption
<1>3. QED
  BY <1>1, <1>2 DEF InitialState, NoState, RunRecord, RunStatus, RunDiagnostic

\* The type invariant holds at the start.
LEMMA TypeInit == Init => TypeInvariant
<1> SUFFICES ASSUME Init
             PROVE  TypeInvariant
  OBVIOUS
<1> USE DEF Init
<1>1. closing \in BOOLEAN /\ cancelDue \in BOOLEAN /\ cancelling \in BOOLEAN
  BY Zenon
<1>2. TypeOK
  BY <1>1, InitialRecords, MaxArtifactsAssumption, MaxCrashesAssumption, MaxFaultsAssumption
  DEF TypeOK
<1>3. CurrentInHand
  BY DEF CurrentInHand, JobPlaces, IngestPlaces, Awaits
<1>4. QED
  BY <1>2, <1>3 DEF TypeInvariant

\* The record that starts the Run keeps its Jobs.
LEMMA RunningRecord ==
  ASSUME NEW s \in RunRecord
  PROVE  LET new == [s EXCEPT !.status = "running"]
         IN  /\ new \in RunRecord
             /\ new.current = s.current
             /\ new.jobs = s.jobs
BY DEF RunRecord, RunStatus

\* The record that selects the next Job keeps every Job.
LEMMA SelectedRecord ==
  ASSUME NEW s \in RunRecord, s.current < NumJobs
  PROVE  LET new == [s EXCEPT !.current = @ + 1]
         IN  /\ new \in RunRecord
             /\ new.current \in Jobs
             /\ new.current = s.current + 1
             /\ new.jobs = s.jobs
<1>1. s.current + 1 \in 0 .. NumJobs /\ s.current + 1 \in Jobs
  BY NumJobsAssumption DEF RunRecord, Jobs
<1>2. QED
  BY <1>1 DEF RunRecord

\* The record of a Run whose last Job succeeded.
LEMMA FinishedRecord ==
  ASSUME NEW s \in RunRecord
  PROVE  [s EXCEPT !.status = "succeeded", !.current = 0] \in RunRecord
<1>1. 0 \in 0 .. NumJobs
  BY NumJobsAssumption
<1>2. QED
  BY <1>1 DEF RunRecord, RunStatus

\* The steps of the Run loop keep the type invariant.
LEMMA TypeRunLoop ==
  ASSUME TypeInvariant, RunLoop
  PROVE  TypeInvariant'
<1> USE DEF TypeInvariant, TypeOK, CurrentInHand, JobPlaces, IngestPlaces, Awaits, Writes,
            Modes, Resumes, Persist, Proceed, Raise, OnlySaves, storage, comfy, control, budget
<1> USE MaxFaultsAssumption
<1>1. CASE Initialize
  BY <1>1, InitialRecords DEF Initialize
<1>2. CASE BeginRunning
  <2>1. [run EXCEPT !.status = "running"] \in RunRecord
    BY RunningRecord
  <2>2. QED
    BY <1>2, <2>1 DEF BeginRunning
<1>3. CASE StopBeforeJob
  <2>1. StoppedRun(run) \in RunRecord
    BY StoppedRecord
  <2>2. CASE run.current = 0
    BY <1>3, <2>1, <2>2 DEF StopBeforeJob, StopRun, Detach, Detachable, Jobs
  <2>3. CASE run.current # 0
    BY <1>3, <2>1, <2>3 DEF StopBeforeJob
  <2>4. QED
    BY <2>2, <2>3
<1>4. CASE SelectJob
  <2> DEFINE new == [run EXCEPT !.current = @ + 1]
  <2>1. new \in RunRecord /\ new.current \in Jobs
    BY <1>4, SelectedRecord DEF SelectJob
  <2>2. Persist(new, "prepare", "escape")
    BY <1>4 DEF SelectJob
  <2> HIDE DEF new
  <2>3. QED
    BY <1>4, <2>1, <2>2 DEF SelectJob
<1>5. CASE FinishRun
  <2>1. [run EXCEPT !.status = "succeeded", !.current = 0] \in RunRecord
    BY FinishedRecord
  <2>2. QED
    BY <1>5, <2>1 DEF FinishRun
<1>6. CASE AfterJob
  <2>1. /\ [run EXCEPT !.status = "blocked", !.diagnostic = "job"] \in RunRecord
        /\ [run EXCEPT !.status = "failed", !.diagnostic = "job"] \in RunRecord
    BY DEF RunRecord, RunStatus, RunDiagnostic
  <2>2. QED
    BY <1>6, <2>1 DEF AfterJob
<1>7. QED
  BY <1>1, <1>2, <1>3, <1>4, <1>5, <1>6 DEF RunLoop

\* Preparation and submission of a Job keep the type invariant.
LEMMA TypeSubmission ==
  ASSUME TypeInvariant, Submission
  PROVE  TypeInvariant'
<1> USE DEF TypeInvariant, TypeOK, CurrentInHand, JobPlaces, IngestPlaces, Awaits, Writes,
            Modes, Resumes, Persist, Proceed, Raise, OnlySaves, storage, comfy, control, budget
<1> USE MaxFaultsAssumption
<1>1. CASE PrepareJob
  <2>1. PreparingJob(run) \in RunRecord /\ PreparingJob(run).current = run.current
    BY <1>1, PreparingRecord DEF PrepareJob
  <2>2. QED
    BY <1>1, <2>1 DEF PrepareJob
<1>2. CASE InputsUploaded
  BY <1>2 DEF InputsUploaded
<1>3. CASE StreamOpened
  BY <1>3 DEF StreamOpened
<1>4. CASE PreparationFails
  <2>1. run.current \in Jobs
    BY <1>4 DEF PreparationFails
  <2>2. /\ FailedJob(run) \in RunRecord /\ FailedJob(run).current = run.current
        /\ DetachedRun(run) \in RunRecord /\ DetachedRun(run).current = run.current
        /\ StoppedRun(run) \in RunRecord /\ StoppedRun(run).status = "cancelled"
    BY <2>1, EndedRecord, DetachedRecord, StoppedRecord
  <2>3. QED
    BY <1>4, <2>1, <2>2 DEF PreparationFails, StopOrFail, StopRun, Detach
<1>5. CASE Admit
  <2>1. run.current \in Jobs
    BY <1>5 DEF Admit
  <2>2. /\ SubmittingJob(run) \in RunRecord /\ SubmittingJob(run).current = run.current
        /\ DetachedRun(run) \in RunRecord /\ DetachedRun(run).current = run.current
        /\ StoppedRun(run) \in RunRecord /\ StoppedRun(run).status = "cancelled"
    BY <2>1, SubmittingRecord, DetachedRecord, StoppedRecord
  <2>3. QED
    BY <1>5, <2>1, <2>2 DEF Admit, StopRun, Detach
<1>6. CASE Post
  BY <1>6 DEF Post
<1>7. CASE Accepted
  <2>1. AcceptedJob(run) \in RunRecord /\ AcceptedJob(run).current = run.current
    BY <1>7, AcceptedRecord DEF Accepted
  <2>2. QED
    BY <1>7, <2>1 DEF Accepted
<1>8. CASE Rejected
  <2>1. RejectedJob(run) \in RunRecord /\ RejectedJob(run).current = run.current
    BY <1>8, EndedRecord DEF Rejected
  <2>2. QED
    BY <1>8, <2>1 DEF Rejected
<1>9. CASE AnswerUnknown
  <2>1. UnknownJob(run) \in RunRecord /\ UnknownJob(run).current = run.current
    BY <1>9, UnknownRecord DEF AnswerUnknown
  <2>2. QED
    BY <1>9, <2>1 DEF AnswerUnknown
<1>10. QED
  BY <1>1, <1>2, <1>3, <1>4, <1>5, <1>6, <1>7, <1>8, <1>9 DEF Submission

\* Reconciliation and ingestion keep the type invariant: a Result is recorded
\* only while ComfyUI produced more of them.
LEMMA TypeReconciliation ==
  ASSUME TypeInvariant, Reconciliation
  PROVE  TypeInvariant'
<1> USE DEF TypeInvariant, TypeOK, CurrentInHand, JobPlaces, IngestPlaces, Awaits, Writes,
            Modes, Resumes, Persist, Proceed, Raise, OnlySaves, storage, comfy, control, budget
<1> USE MaxFaultsAssumption
<1> DEFINE Known == /\ FailedJob(run) \in RunRecord /\ FailedJob(run).current = run.current
                    /\ SucceededJob(run) \in RunRecord
                    /\ SucceededJob(run).current = run.current
<1>0. ASSUME run.current \in Jobs
      PROVE  Known
  BY <1>0, EndedRecord
<1>1. CASE HistoryTimesOut
  BY <1>1 DEF HistoryTimesOut
<1>2. CASE HistoryFailed
  BY <1>0, <1>2 DEF HistoryFailed
<1>3. CASE HistorySucceeded
  BY <1>3 DEF HistorySucceeded, Ingest, RunRecord, JobRecord
<1>4. CASE DownloadFails
  BY <1>0, <1>4 DEF DownloadFails
<1>5. CASE StoreResult
  <2>1. run.current \in Jobs /\ run.jobs[run.current].results + 1 \in 1 .. MaxArtifacts
    BY <1>5, MaxArtifactsAssumption DEF StoreResult, RunRecord, JobRecord
  <2>2. <<run.current, Job.results + 1>> \in Jobs \X (1 .. MaxArtifacts)
    BY <2>1 DEF Job
  <2>3. files' \subseteq Jobs \X (1 .. MaxArtifacts)
    BY <1>5, <2>2 DEF StoreResult
  <2>4. QED
    BY <1>5, <2>1, <2>3 DEF StoreResult
<1>6. CASE RecordResult
  <2>1. run.current \in Jobs /\ run.jobs[run.current].results < MaxArtifacts
    BY <1>6, MaxArtifactsAssumption DEF RecordResult, RunRecord, JobRecord
  <2>2. RecordedJob(run) \in RunRecord /\ RecordedJob(run).current = run.current
    BY <2>1, RecordedRecord
  <2>3. QED
    BY <1>6, <2>1, <2>2 DEF RecordResult, Ingest, RunRecord, JobRecord
<1>7. CASE ReconcileResult
  BY <1>7 DEF ReconcileResult
<1>8. CASE FailIngestion
  BY <1>0, <1>8 DEF FailIngestion
<1>9. CASE SucceedJob
  BY <1>0, <1>9 DEF SucceedJob
<1>10. CASE Join
  BY <1>10 DEF Join
<1>11. CASE ObservationEnds
  BY <1>11 DEF ObservationEnds
<1>12. CASE StreamCloses
  BY <1>12 DEF StreamCloses
<1>13. CASE HandleStreamError
  <2>1. run.current \in Jobs
    BY <1>13 DEF HandleStreamError
  <2>2. /\ FailedJob(run) \in RunRecord /\ FailedJob(run).current = run.current
        /\ UnknownJob(run) \in RunRecord /\ UnknownJob(run).current = run.current
        /\ DetachedRun(run) \in RunRecord /\ DetachedRun(run).current = run.current
        /\ StoppedRun(run) \in RunRecord /\ StoppedRun(run).status = "cancelled"
    BY <2>1, EndedRecord, UnknownRecord, DetachedRecord, StoppedRecord
  <2>3. QED
    BY <1>13, <2>1, <2>2 DEF HandleStreamError, StopOrFail, StopRun, Detach
<1>14. QED
  BY <1>1, <1>2, <1>3, <1>4, <1>5, <1>6, <1>7, <1>8, <1>9, <1>10, <1>11, <1>12, <1>13
  DEF Reconciliation

\* Cancellation, requests, shutdown, the server and crashes keep the type
\* invariant.
LEMMA TypeSurroundings ==
  ASSUME TypeInvariant, Next, ~RunLoop, ~Submission, ~Reconciliation
  PROVE  TypeInvariant'
<1> USE DEF TypeInvariant, TypeOK, CurrentInHand, JobPlaces, IngestPlaces, Awaits, Writes,
            Modes, Resumes, LoopFree, storage, comfy, executor, control, budget
<1>1. CASE DeliverCancel
  <2>1. /\ cancelDue' = FALSE /\ pc' \in {"unwind", "close", "observe"}
        /\ exit' \in {"none", "cancelled"} \/ exit' = exit
        /\ UNCHANGED <<storage, comfy, run, outcome, intents, flags, registry, closing, cancelling, budget>>
    BY ONLY <1>1 DEF DeliverCancel
  <2>2. TypeOK'
    <3>1. TypeOK
      OBVIOUS
    <3>2. /\ disk' = disk /\ files' = files /\ intents' = intents /\ sent' = sent /\ remote' = remote
          /\ produced' = produced /\ run' = run /\ outcome' = outcome /\ flags' = flags /\ registry' = registry
          /\ closing' = closing /\ cancelling' = cancelling /\ crashes' = crashes /\ faults' = faults
      BY ONLY <2>1 DEF storage, comfy, budget
    <3>3. pc' \in Awaits \union Writes \union {"idle"} /\ cancelDue' \in BOOLEAN
      BY ONLY <2>1 DEF Awaits, Writes
    <3>4. exit' \in {"none", "return", "raise", "cancelled"}
      BY ONLY <2>1, <3>1 DEF TypeOK
    <3>5. QED
      BY ONLY <3>1, <3>2, <3>3, <3>4 DEF TypeOK
  <2>3. /\ pc' # "unwind" => pc \in JobPlaces
        /\ pc = "close" => pc' = "unwind"
        /\ pc # "after"
    BY ONLY <1>1 DEF DeliverCancel, JobPlaces, Awaits
  <2>4. CurrentInHand
    OBVIOUS
  <2>5. pc' # "unwind" => run.current \in Jobs
    BY ONLY <2>3, <2>4 DEF CurrentInHand
  <2>6. CurrentInHand'
    BY ONLY <2>1, <2>5 DEF CurrentInHand, JobPlaces, IngestPlaces, Awaits
  <2>7. QED
    BY ONLY <2>2, <2>6 DEF TypeInvariant
<1>2. CASE Unwind
  <2>1. CASE "detach" \in flags /\ ~DetachMoot(disk) /\ Detachable(disk)
    <3>1. DetachedRun(disk) \in RunRecord
      BY <2>1, DetachedRecord DEF Detachable
    <3>2. QED
      BY <1>2, <2>1, <3>1, MaxFaultsAssumption
      DEF Unwind, Detach, Persist, Proceed, Raise, OnlySaves
  <2>2. CASE ~("detach" \in flags /\ ~DetachMoot(disk) /\ Detachable(disk))
    BY <1>2, <2>2 DEF Unwind, Detach, Proceed, Raise, OnlySaves
  <2>3. QED
    BY <2>1, <2>2
<1>3. CASE RequestStep
  <2>1. CASE Launch
    BY <2>1, InitialRecords DEF Launch
  <2>2. CASE RefuseStart
    BY <2>2 DEF RefuseStart
  <2>3. ASSUME NEW mode \in Modes, StoreIntent(mode) \/ ExposeIntent(mode) \/ IntentFails(mode)
        PROVE  TypeInvariant'
    <3>1. CASE StoreIntent(mode)
      BY <3>1 DEF StoreIntent
    <3>2. CASE ExposeIntent(mode)
      BY <3>2 DEF ExposeIntent
    <3>3. CASE IntentFails(mode)
      BY <3>3 DEF IntentFails
    <3>4. QED
      BY <2>3, <3>1, <3>2, <3>3
  <2>4. QED
    BY <1>3, <2>1, <2>2, <2>3 DEF RequestStep
<1>4. CASE \E seen \in SUBSET intents : AdmitStart(seen)
  BY <1>4 DEF AdmitStart
<1>5. CASE \E mode \in Modes : TakeControl(mode)
  BY <1>5 DEF TakeControl
<1>6. CASE Shutdown \/ Drain
  <2>1. closing' \in BOOLEAN /\ cancelDue' \in BOOLEAN /\ cancelling' \in BOOLEAN
    BY <1>6, Zenon DEF Shutdown, Drain
  <2>2. CASE Shutdown
    BY <2>1, <2>2 DEF Shutdown
  <2>3. CASE Drain
    BY <2>1, <2>3 DEF Drain
  <2>4. QED
    BY <1>6, <2>2, <2>3
<1>7. CASE Discard
  <2>1. [InitialState EXCEPT !.status = "cancelled",
                             !.diagnostic = "discarded_before_start"] \in RunRecord
    BY InitialRecords DEF RunRecord, RunStatus, RunDiagnostic
  <2>2. QED
    BY <1>7, <2>1 DEF Discard
<1>8. CASE \E j \in Jobs : RemoteRuns(j)
  BY <1>8 DEF RemoteRuns
<1>9. CASE Crash
  <2>1. closing' \in BOOLEAN /\ cancelDue' \in BOOLEAN /\ cancelling' \in BOOLEAN
    BY <1>9, Zenon DEF Crash
  <2>2. QED
    BY <1>9, <2>1, InitialRecords, MaxCrashesAssumption DEF Crash
<1>10. QED
  BY <1>1, <1>2, <1>3, <1>4, <1>5, <1>6, <1>7, <1>8, <1>9 DEF Next, ExecutorStep

\* Every step keeps the type invariant.
LEMMA TypeStep ==
  ASSUME TypeInvariant, [Next]_vars
  PROVE  TypeInvariant'
<1>1. CASE UNCHANGED vars
  BY <1>1 DEF TypeInvariant, TypeOK, CurrentInHand, vars, storage, comfy, executor, control, budget
<1>2. QED
  BY <1>1, TypeRunLoop, TypeSubmission, TypeReconciliation, TypeSurroundings

\* Every variable keeps its shape, whatever the number of Jobs and artifacts.
THEOREM TypeCorrect == Spec => []TypeOK
<1>1. Init => TypeInvariant
  BY TypeInit
<1>2. TypeInvariant /\ [Next]_vars => TypeInvariant'
  BY TypeStep
<1>3. TypeInvariant => TypeOK
  BY DEF TypeInvariant
<1>4. QED
  BY <1>1, <1>2, <1>3, PTL DEF Spec

-----------------------------------------------------------------------------
(* The submission invariant.                                               *)

Inv == TypeInvariant /\ SubmissionInvariant

NotSubmitted == {"pending", "preparing", "cancelled"}

\* The record on disk changes only by a save the store accepts, or by Discard.
LEMMA OnlyAcceptedSaves ==
  ASSUME [Next]_vars
  PROVE  disk' = disk \/ CanSave(disk, disk', files) \/ Discard
<1> USE DEF Persist, Proceed, Raise, OnlySaves, storage, comfy, executor, control, budget
<1>1. CASE RunLoop
  BY <1>1 DEF RunLoop, Initialize, BeginRunning, StopBeforeJob, SelectJob, FinishRun, AfterJob,
    StopRun, Detach
<1>2. CASE Submission
  BY <1>2 DEF Submission, PrepareJob, InputsUploaded, StreamOpened, PreparationFails, Admit, Post,
    Accepted, Rejected, AnswerUnknown, StopOrFail, StopRun, Detach
<1>3. CASE Reconciliation
  BY <1>3 DEF Reconciliation, HistoryTimesOut, HistoryFailed, HistorySucceeded, DownloadFails,
    StoreResult, RecordResult, ReconcileResult, FailIngestion, SucceedJob, Join,
    ObservationEnds, StreamCloses, HandleStreamError, StopOrFail, StopRun, Detach
<1>4. CASE DeliverCancel \/ Unwind
  BY <1>4 DEF DeliverCancel, Unwind, Detach
<1>5. CASE RequestStep
  BY <1>5 DEF RequestStep, Launch, RefuseStart, StoreIntent, ExposeIntent, IntentFails
<1>6. CASE UNCHANGED vars
  BY <1>6 DEF vars
<1>7. QED
  BY <1>1, <1>2, <1>3, <1>4, <1>5, <1>6
  DEF Next, ExecutorStep, AdmitStart, TakeControl, Shutdown, Drain, RemoteRuns, Crash

\* What no step takes back from the record on disk.
LEMMA RecordKept ==
  ASSUME Inv, [Next]_vars
  PROVE  /\ disk.status # "absent" => disk'.status # "absent"
         /\ \A j \in Jobs :
              /\ disk.jobs[j].status = "succeeded" => disk'.jobs[j].status = "succeeded"
              /\ disk.jobs[j].status \notin NotSubmitted =>
                   disk'.jobs[j].status \notin NotSubmitted
<1>1. disk \in RunRecord /\ disk' \in RunRecord
  BY TypeStep DEF Inv, TypeInvariant, TypeOK
<1>2. CASE disk' = disk
  BY <1>2
<1>3. CASE CanSave(disk, disk', files) /\ disk.status # "absent"
  BY <1>1, <1>3, CanSaveRecord DEF TerminalJob, NotSubmitted
<1>4. CASE disk.status = "absent"
  BY <1>4 DEF Inv, SubmissionInvariant, AbsentRecord, NotSubmitted
<1>5. CASE Discard
  <2>1. \A j \in Jobs : disk.jobs[j].status = "pending"
    BY <1>5 DEF Discard, NoState, InitialState, PristineJob
  <2>2. disk'.status = "cancelled"
    BY <1>5 DEF Discard, InitialState
  <2>3. QED
    BY <2>1, <2>2 DEF NotSubmitted
<1>6. QED
  BY <1>2, <1>3, <1>4, <1>5, OnlyAcceptedSaves

\* Only Post submits, and only the Job in hand.
LEMMA OnlyPostSubmits ==
  ASSUME [Next]_vars
  PROVE  sent' = sent \/ Post
<1> USE DEF OnlySaves, storage, comfy, executor, control, budget
<1>1. CASE RunLoop
  BY <1>1 DEF RunLoop, Initialize, BeginRunning, StopBeforeJob, SelectJob, FinishRun, AfterJob
<1>2. CASE Submission
  BY <1>2 DEF Submission, PrepareJob, InputsUploaded, StreamOpened, PreparationFails, Admit,
    Accepted, Rejected, AnswerUnknown
<1>3. CASE Reconciliation
  BY <1>3 DEF Reconciliation, HistoryTimesOut, HistoryFailed, HistorySucceeded, DownloadFails,
    StoreResult, RecordResult, ReconcileResult, FailIngestion, SucceedJob, Join,
    ObservationEnds, StreamCloses, HandleStreamError
<1>4. CASE DeliverCancel \/ Unwind
  BY <1>4 DEF DeliverCancel, Unwind
<1>5. CASE RequestStep
  BY <1>5 DEF RequestStep, Launch, RefuseStart, StoreIntent, ExposeIntent, IntentFails
<1>6. CASE UNCHANGED vars
  BY <1>6 DEF vars
<1>7. QED
  BY <1>1, <1>2, <1>3, <1>4, <1>5, <1>6
  DEF Next, ExecutorStep, AdmitStart, TakeControl, Shutdown, Drain, Discard, RemoteRuns, Crash

\* Every step keeps the three properties that speak of sent: Post is the only
\* step that raises it, and WriteAhead and PrefixDone say where it stands.
LEMMA SubmissionsStep ==
  ASSUME Inv, [Next]_vars
  PROVE  SubmittedAtMostOnce' /\ SubmissionIsOnRecord' /\ QueueDepthOne'
<1> USE DEF Inv, SubmissionInvariant, SubmittedAtMostOnce, SubmissionIsOnRecord, QueueDepthOne
<1>1. CASE sent' = sent
  <2>1. SubmittedAtMostOnce'
    BY <1>1
  <2>2. SubmissionIsOnRecord'
    BY <1>1, RecordKept DEF NotSubmitted
  <2>3. QueueDepthOne'
    <3>1. \A j \in Jobs : 1 .. j - 1 \subseteq Jobs
      BY NumJobsAssumption DEF Jobs
    <3>2. QED
      BY <1>1, <3>1, RecordKept
  <2>4. QED
    BY <2>1, <2>2, <2>3
<1>2. CASE Post
  <2>1. /\ run.current \in Jobs
        /\ sent[run.current] = 0
        /\ disk' = disk
        /\ disk.jobs[run.current].status = "submitting"
        /\ \A i \in 1 .. run.current - 1 : disk.jobs[i].status = "succeeded"
    BY <1>2 DEF Post, TypeInvariant, CurrentInHand, WriteAhead, PrefixDone, JobPlaces, Awaits,
      storage
  <2>2. sent \in [Jobs -> Nat] /\ sent' = [sent EXCEPT ![run.current] = @ + 1]
    BY <1>2 DEF Post, TypeInvariant, TypeOK
  <2>3. QED
    BY <2>1, <2>2
<1>3. QED
  BY <1>1, <1>2, OnlyPostSubmits

\* The ordinals up to the current one are Jobs.
LEMMA PrefixInJobs ==
  ASSUME NEW s \in RunRecord
  PROVE  /\ s.current \in 0 .. NumJobs
         /\ 1 .. s.current \subseteq Jobs
         /\ 1 .. s.current - 1 \subseteq Jobs
<1>1. s.current \in 0 .. NumJobs
  BY DEF RunRecord
<1>2. QED
  BY <1>1, NumJobsAssumption DEF Jobs

\* The steps of the Run loop keep the supporting invariants.
LEMMA RunLoopStep ==
  ASSUME Inv, TypeInvariant', RunLoop
  PROVE  WriteAhead' /\ PrefixDone' /\ AbsentRecord' /\ Barrier'
<1> USE DEF Inv, SubmissionInvariant, CurrentInHand, WriteAhead, PrefixDone, AbsentRecord,
            Barrier, JobPlaces, IngestPlaces, Awaits, Modes, ControlFree,
            Persist, Proceed, Raise, OnlySaves, comfy, control
<1>0. [Next]_vars
  BY DEF Next, ExecutorStep
<1>p. /\ run.current \in 0 .. NumJobs
      /\ 1 .. run.current \subseteq Jobs
      /\ 1 .. run.current - 1 \subseteq Jobs
  BY PrefixInJobs DEF TypeInvariant, TypeOK
<1> USE <1>0, <1>p, RecordKept
<1>1. CASE Initialize
  BY <1>1 DEF Initialize, InitialState, PristineJob
<1>2. CASE BeginRunning
  <2> DEFINE new == [run EXCEPT !.status = "running"]
  <2>1. new.jobs = run.jobs /\ new.current = run.current
    BY RunningRecord DEF TypeInvariant, TypeOK
  <2>2. pc = "running" /\ Persist(new, "next", "escape") /\ OnlySaves
    BY <1>2 DEF BeginRunning
  <2> HIDE DEF new
  <2>3. QED
    BY <2>1, <2>2
<1>3. CASE StopBeforeJob
  <2>1. pc = "next" /\ pc' = "idle" /\ OnlySaves
    BY <1>3 DEF StopBeforeJob, StopRun, Detach
  <2>2. QED
    BY <2>1
<1>4. CASE SelectJob
  <2> DEFINE new == [run EXCEPT !.current = @ + 1]
  <2>1. new.jobs = run.jobs /\ new.current \in Jobs /\ new.current = run.current + 1
    BY <1>4, SelectedRecord DEF SelectJob, TypeInvariant, TypeOK
  <2>2. pc = "next" /\ Persist(new, "prepare", "escape") /\ OnlySaves
    BY <1>4 DEF SelectJob
  <2> HIDE DEF new
  <2>3. new.current - 1 = run.current
    BY <2>1, <1>p
  <2>4. QED
    BY <2>1, <2>2, <2>3
<1>5. CASE FinishRun
  <2>1. pc = "next" /\ pc' = "idle" /\ OnlySaves
    BY <1>5 DEF FinishRun
  <2>2. QED
    BY <2>1
<1>6. CASE AfterJob
  <2>1. CASE pc' = "idle"
    BY <1>6, <2>1 DEF AfterJob
  <2>2. CASE pc' # "idle"
    BY <1>6, <2>2, SMTT(20) DEF AfterJob, TypeInvariant, TypeOK, RunRecord, Job, Jobs
  <2>3. QED
    BY <2>1, <2>2
<1>7. QED
  BY <1>1, <1>2, <1>3, <1>4, <1>5, <1>6 DEF RunLoop

\* Preparation and submission keep the supporting invariants; Admit is where
\* the barrier is tested and the record is written ahead.
LEMMA SubmissionStep ==
  ASSUME Inv, TypeInvariant', Submission
  PROVE  WriteAhead' /\ PrefixDone' /\ AbsentRecord' /\ Barrier'
<1> USE DEF Inv, SubmissionInvariant, CurrentInHand, WriteAhead, PrefixDone, AbsentRecord,
            Barrier, JobPlaces, IngestPlaces, Awaits, Modes, ControlFree, Resumes,
            Persist, Proceed, Raise, OnlySaves, storage, comfy, control, budget
<1>0. [Next]_vars
  BY DEF Next, ExecutorStep
<1>p. /\ run.current \in 0 .. NumJobs
      /\ 1 .. run.current - 1 \subseteq Jobs
      /\ run \in RunRecord
  BY PrefixInJobs DEF TypeInvariant, TypeOK
<1> USE <1>0, <1>p, RecordKept
<1>1. CASE PrepareJob
  BY <1>1, PreparingRecord DEF PrepareJob
<1>2. CASE InputsUploaded
  BY <1>2 DEF InputsUploaded
<1>3. CASE StreamOpened
  BY <1>3 DEF StreamOpened
<1>4. CASE PreparationFails
  BY <1>4, EndedRecord, DetachedRecord, StoppedRecord
  DEF PreparationFails, StopOrFail, StopRun, Detach
<1>5. CASE Admit
  <2>1. CASE flags = {}
    BY <1>5, <2>1, SubmittingRecord DEF Admit, TypeInvariant, TypeOK, SubmissionIsOnRecord
  <2>2. CASE flags # {}
    BY <1>5, <2>2, DetachedRecord, StoppedRecord DEF Admit, StopRun, Detach
  <2>3. QED
    BY <2>1, <2>2
<1>6. CASE Post
  BY <1>6 DEF Post
<1>7. CASE Accepted
  BY <1>7, AcceptedRecord DEF Accepted
<1>8. CASE Rejected
  BY <1>8, EndedRecord DEF Rejected
<1>9. CASE AnswerUnknown
  BY <1>9, UnknownRecord DEF AnswerUnknown
<1>10. QED
  BY <1>1, <1>2, <1>3, <1>4, <1>5, <1>6, <1>7, <1>8, <1>9 DEF Submission

\* Reconciliation and ingestion keep the supporting invariants.
LEMMA ReconciliationStep ==
  ASSUME Inv, TypeInvariant', Reconciliation
  PROVE  WriteAhead' /\ PrefixDone' /\ AbsentRecord' /\ Barrier'
<1> USE DEF Inv, SubmissionInvariant, CurrentInHand, WriteAhead, PrefixDone, AbsentRecord,
            Barrier, JobPlaces, IngestPlaces, Awaits, Modes, ControlFree, Resumes,
            Persist, Proceed, Raise, OnlySaves, storage, comfy, control, budget
<1>0. [Next]_vars
  BY DEF Next, ExecutorStep
<1>p. /\ run.current \in 0 .. NumJobs
      /\ 1 .. run.current - 1 \subseteq Jobs
      /\ run \in RunRecord
  BY PrefixInJobs DEF TypeInvariant, TypeOK
<1> USE <1>0, <1>p, RecordKept
<1>1. CASE HistoryTimesOut
  BY <1>1 DEF HistoryTimesOut
<1>2. CASE HistoryFailed
  BY <1>2, EndedRecord DEF HistoryFailed
<1>3. CASE HistorySucceeded
  BY <1>3 DEF HistorySucceeded, Ingest
<1>4. CASE DownloadFails
  BY <1>4, EndedRecord DEF DownloadFails
<1>5. CASE StoreResult
  BY <1>5 DEF StoreResult
<1>6. CASE RecordResult
  <2>1. run.current \in Jobs /\ run.jobs[run.current].results < MaxArtifacts
    BY <1>6, MaxArtifactsAssumption
    DEF RecordResult, RunRecord, JobRecord, TypeInvariant, TypeOK
  <2>2. RecordedJob(run).current = run.current
    BY <2>1, RecordedRecord
  <2>3. QED
    BY <1>6, <2>1, <2>2 DEF RecordResult, Ingest
<1>7. CASE ReconcileResult
  BY <1>7 DEF ReconcileResult
<1>8. CASE FailIngestion
  BY <1>8, EndedRecord DEF FailIngestion
<1>9. CASE SucceedJob
  BY <1>9, EndedRecord DEF SucceedJob
<1>10. CASE Join
  BY <1>10 DEF Join
<1>11. CASE ObservationEnds
  BY <1>11 DEF ObservationEnds
<1>12. CASE StreamCloses
  BY <1>12 DEF StreamCloses
<1>13. CASE HandleStreamError
  BY <1>13, EndedRecord, UnknownRecord, DetachedRecord, StoppedRecord
  DEF HandleStreamError, StopOrFail, StopRun, Detach
<1>14. QED
  BY <1>1, <1>2, <1>3, <1>4, <1>5, <1>6, <1>7, <1>8, <1>9, <1>10, <1>11, <1>12, <1>13
  DEF Reconciliation

\* Cancellation, requests, shutdown, the server and crashes keep the
\* supporting invariants.
LEMMA SurroundingsStep ==
  ASSUME Inv, TypeInvariant', Next, ~RunLoop, ~Submission, ~Reconciliation
  PROVE  WriteAhead' /\ PrefixDone' /\ AbsentRecord' /\ Barrier'
<1> USE DEF Inv, SubmissionInvariant, CurrentInHand, WriteAhead, PrefixDone, AbsentRecord,
            Barrier, JobPlaces, IngestPlaces, Awaits, Modes, ControlFree, LoopFree,
            storage, comfy, executor, control, budget
<1>0. [Next]_vars
  OBVIOUS
<1>1. CASE DeliverCancel
  BY <1>1 DEF DeliverCancel
<1>2. CASE Unwind
  <2>1. pc = "unwind" /\ pc' = "idle" /\ OnlySaves
    BY <1>2 DEF Unwind, Detach, Persist, Proceed, Raise
  <2>2. QED
    BY <1>0, <2>1, RecordKept DEF OnlySaves
<1>3. CASE RequestStep
  <2>1. CASE Launch
    BY <2>1 DEF Launch, Startable, InitialState, PristineJob
  <2>2. CASE RefuseStart
    BY <2>2 DEF RefuseStart
  <2>3. ASSUME NEW mode \in Modes, StoreIntent(mode) \/ ExposeIntent(mode) \/ IntentFails(mode)
        PROVE  WriteAhead' /\ PrefixDone' /\ AbsentRecord' /\ Barrier'
    <3>1. CASE StoreIntent(mode)
      BY <3>1 DEF StoreIntent
    <3>2. CASE ExposeIntent(mode)
      BY <3>2 DEF ExposeIntent
    <3>3. CASE IntentFails(mode)
      BY <3>3 DEF IntentFails
    <3>4. QED
      BY <2>3, <3>1, <3>2, <3>3
  <2>4. QED
    BY <1>3, <2>1, <2>2, <2>3 DEF RequestStep
<1>4. CASE \E seen \in SUBSET intents : AdmitStart(seen)
  BY <1>4 DEF AdmitStart
<1>5. CASE \E mode \in Modes : TakeControl(mode)
  <2>1. PICK mode \in Modes : TakeControl(mode)
    BY <1>5
  <2>2. disk.status # "absent" /\ intents \subseteq flags
    BY <2>1 DEF TakeControl, TypeInvariant, TypeOK
  <2>3. QED
    BY <2>1, <2>2 DEF TakeControl
<1>6. CASE Shutdown
  BY <1>6 DEF Shutdown
<1>7. CASE Drain
  BY <1>7 DEF Drain
<1>8. CASE Discard
  BY <1>8 DEF Discard, InitialState
<1>9. CASE \E j \in Jobs : RemoteRuns(j)
  BY <1>9 DEF RemoteRuns
<1>10. CASE Crash
  BY <1>10 DEF Crash
<1>11. QED
  BY <1>1, <1>2, <1>3, <1>4, <1>5, <1>6, <1>7, <1>8, <1>9, <1>10 DEF Next, ExecutorStep

\* The inductive invariant holds at the start.
LEMMA InvInit == Init => Inv
<1> SUFFICES ASSUME Init
             PROVE  Inv
  OBVIOUS
<1>1. TypeInvariant
  BY TypeInit
<1>2. SubmissionInvariant
  BY <1>1 DEF Init, SubmissionInvariant, TypeInvariant, WriteAhead, PrefixDone, AbsentRecord,
    Barrier, SubmittedAtMostOnce, SubmissionIsOnRecord, QueueDepthOne, ControlFree, Modes,
    NoState, InitialState, PristineJob, JobPlaces, Awaits
<1>3. QED
  BY <1>1, <1>2 DEF Inv

\* Every step keeps the inductive invariant.
LEMMA InvStep ==
  ASSUME Inv, [Next]_vars
  PROVE  Inv'
<1>1. TypeInvariant'
  BY TypeStep DEF Inv
<1>2. SubmittedAtMostOnce' /\ SubmissionIsOnRecord' /\ QueueDepthOne'
  BY SubmissionsStep
<1>3. WriteAhead' /\ PrefixDone' /\ AbsentRecord' /\ Barrier'
  <2>1. CASE UNCHANGED vars
    BY <2>1 DEF Inv, SubmissionInvariant, vars, storage, comfy, executor, control, WriteAhead,
      PrefixDone, AbsentRecord, Barrier, ControlFree
  <2>2. QED
    BY <1>1, <2>1, RunLoopStep, SubmissionStep, ReconciliationStep, SurroundingsStep
<1>4. QED
  BY <1>1, <1>2, <1>3 DEF Inv, SubmissionInvariant, TypeInvariant

\* The inductive invariant holds in every reachable state.
LEMMA InvAlways == Spec => []Inv
BY InvInit, InvStep, PTL DEF Spec

-----------------------------------------------------------------------------
(* What follows for every execution of a Run.                              *)

\* No Job is submitted twice, through any failure, crash or request.
THEOREM SubmitsAtMostOnce == Spec => []SubmittedAtMostOnce
<1>1. Inv => SubmittedAtMostOnce
  BY DEF Inv, SubmissionInvariant
<1>2. QED
  BY <1>1, InvAlways, PTL

\* A submission that may have left is on record as such.
THEOREM SubmissionOnRecord == Spec => []SubmissionIsOnRecord
<1>1. Inv => SubmissionIsOnRecord
  BY DEF Inv, SubmissionInvariant
<1>2. QED
  BY <1>1, InvAlways, PTL

\* At most one Job is open at ComfyUI: all earlier ones are durably done.
THEOREM OneJobAtATime == Spec => []QueueDepthOne
<1>1. Inv => QueueDepthOne
  BY DEF Inv, SubmissionInvariant
<1>2. QED
  BY <1>1, InvAlways, PTL

\* A stored cancellation request stops submissions from the moment it is
\* stored.
THEOREM CancellationIsBarrier == Spec => IntentIsBarrier
<1>1. Inv /\ [Next]_vars => [intents # {} => sent' = sent]_vars
  BY OnlyPostSubmits DEF Inv, SubmissionInvariant, Barrier, Post
<1>2. QED
  BY <1>1, InvAlways, PTL DEF Spec, IntentIsBarrier

-----------------------------------------------------------------------------
(* The executor implements RunLifecycle: what a reader of execution.json   *)
(* sees changes only in the ways that RunLifecycle lists, whatever the     *)
(* number of Jobs, artifacts, crashes and failed writes.                   *)
(*                                                                         *)
(* The argument needs to know what the executor's own copy of the record   *)
(* (run) has to do with the record on disk.  They are equal except after a *)
(* save that raised: its directory sync may have failed after the file was *)
(* replaced, so that the disk may be one save ahead of the copy that the   *)
(* exception handlers go on with.  The same invariant then shows that the  *)
(* record is true and that no step takes evidence back.                    *)

\* Places where the copy and the record on disk are the same.
Settled ==
  {"next", "prepare", "upload", "open", "admit", "post", "posting", "history",
   "download", "record", "failjob", "succeed"}

\* The event-stream block is being left, normally or with an exception.
Returning == pc = "after" \/ (pc \in {"joined", "observe", "close"} /\ exit = "return")
Raising == pc = "handler" \/ (pc \in {"joined", "observe", "close"} /\ exit = "raise")

\* The disk may be ahead of the copy by what the failed save wrote.
Ahead ==
  \/ disk.status = "cancelled"
  \/ /\ "detach" \in flags
     /\ run.jobs[run.current].status = "preparing"
     /\ disk = DetachedRun(run)
  \/ /\ disk.status = "running"
     /\ \A j \in Jobs : j # run.current => disk.jobs[j] = run.jobs[j]
     /\ disk.jobs[run.current].status \notin {"pending", "cancelled"}

\* A Run that a detach has blocked has its current Job unresolved.
OpenJob == run.jobs[run.current].status \in {"preparing"} \union UnresolvedJob

CopyOfRecord ==
  /\ disk.status = "absent" => disk = NoState
  /\ pc = "init" => disk = NoState /\ run = InitialState
  /\ pc = "running" => disk = InitialState /\ run = InitialState
  /\ pc \in Settled \union {"unrecorded"} \/ Raising => run.status = "running"
  /\ pc \in Settled => disk = run
  /\ pc \in (Settled \ {"next", "prepare"}) \union {"unrecorded"} =>
       run.jobs[run.current].status \notin {"pending", "cancelled"}
  /\ Returning =>
       /\ disk = run
       /\ run.status \in {"running", "blocked", "cancelled"}
       /\ run.status = "blocked" => OpenJob
  /\ pc = "unrecorded" => disk = run \/ disk = RecordedJob(run)
  /\ Raising => Ahead

\* Later Jobs are untouched, and the current one has no Result before its
\* history is read.
LaterUntouched ==
  /\ pc \notin {"idle", "unwind"} /\ run.status # "cancelled" =>
       \A j \in Jobs : j > run.current => run.jobs[j] = PristineJob
  /\ pc \in {"prepare", "upload", "open", "admit", "post", "posting", "history"} =>
       run.jobs[run.current].results = 0

\* All that ComfyUI produced for the Job is recorded when it is called done.
AllRecorded ==
  pc = "succeed" =>
    /\ remote[run.current] = "done"
    /\ run.jobs[run.current].results = produced[run.current]

CopyInvariant == CopyOfRecord /\ LaterUntouched /\ AllRecorded

-----------------------------------------------------------------------------
(* What one save does to the lifecycle.                                    *)

LStep == [Lifecycle!Next]_(Lifecycle!vars)

\* RunLifecycle speaks of the same Jobs and transitions.
LEMMA SameDefinitions ==
  /\ Lifecycle!Jobs = Jobs
  /\ Lifecycle!JobTransitions = JobTransitions
  /\ Lifecycle!UnresolvedJob = UnresolvedJob
<1>1. Lifecycle!Jobs = Jobs /\ Lifecycle!UnresolvedJob = UnresolvedJob
  BY DEF Jobs, Lifecycle!Jobs, UnresolvedJob, Lifecycle!UnresolvedJob
<1>2. Lifecycle!JobTransitions = JobTransitions
  BY Zenon DEF JobTransitions, Lifecycle!JobTransitions, JobStatus, Lifecycle!JobStatus
<1>3. QED
  BY <1>1, <1>2

\* A step that keeps every status is a stutter.
LEMMA StatusesKept ==
  ASSUME disk'.status = disk.status, sent' = sent,
         \A j \in Jobs : disk'.jobs[j].status = disk.jobs[j].status
  PROVE  LStep
BY DEF LStep, Lifecycle!vars

\* A save that raised wrote its record or nothing.
LEMMA PersistSaves ==
  ASSUME NEW new, NEW next, NEW failed, Persist(new, next, failed)
  PROVE  disk' = disk \/ (disk' = new /\ CanSave(disk, new, files))
BY DEF Persist

\* What the record on disk looks like around a Job in hand.
LEMMA InOrderOnDisk ==
  ASSUME NEW c \in Jobs,
         \A i \in 1 .. c - 1 : disk.jobs[i].status = "succeeded",
         \A j \in Jobs : j > c => disk.jobs[j] = PristineJob
  PROVE  Lifecycle!InOrder(c)
<1>1. /\ \A i \in 1 .. c - 1 : i \in Jobs
      /\ \A i \in c + 1 .. NumJobs : i \in Jobs /\ i > c
  BY NumJobsAssumption DEF Jobs
<1>2. QED
  BY <1>1 DEF Lifecycle!InOrder, PristineJob

\* The current Job takes a step and the others keep their place in the order.
LEMMA JobAdvances ==
  ASSUME disk \in RunRecord, run \in RunRecord, run.current \in Jobs,
         disk.status = "running",
         \A j \in Jobs : j # run.current => disk.jobs[j] = run.jobs[j],
         \A i \in 1 .. run.current - 1 : disk.jobs[i].status = "succeeded",
         \A j \in Jobs : j > run.current => run.jobs[j] = PristineJob,
         NEW new \in RunRecord, new.status = "running",
         \A j \in Jobs : j # run.current => new.jobs[j] = run.jobs[j],
         new.jobs[run.current].status # "cancelled",
         CanSave(disk, new, files), disk' = new, sent' = sent
  PROVE  LStep
<1> DEFINE c == run.current
           to == new.jobs[c].status
           now == [j \in Jobs |-> disk.jobs[j].status]
           then == [j \in Jobs |-> disk'.jobs[j].status]
<1>1. to = disk.jobs[c].status \/ to \in JobTransitions[disk.jobs[c].status]
  BY DEF CanSave, ValidTransition, ValidJobTransition
<1>2. then = [now EXCEPT ![c] = to]
  OBVIOUS
<1>3. Lifecycle!InOrder(c)
  BY NumJobsAssumption DEF Lifecycle!InOrder, Jobs, PristineJob
<1>4. CASE to = disk.jobs[c].status
  BY <1>4, StatusesKept
<1>5. CASE to # disk.jobs[c].status
  <2>1. to \in JobTransitions[now[c]] \ {"cancelled"}
    BY <1>1, <1>5
  <2>2. disk'.status = disk.status
    OBVIOUS
  <2>3. Lifecycle!AdvanceJob(c)
    BY <1>2, <1>3, <2>1, <2>2, SameDefinitions DEF Lifecycle!AdvanceJob
  <2>4. \E j \in Lifecycle!Jobs : Lifecycle!AdvanceJob(j)
    <3>1. c \in Lifecycle!Jobs
      BY SameDefinitions
    <3>2. QED
      BY <2>3, <3>1 DEF Lifecycle!AdvanceJob
  <2>5. QED
    BY <2>4 DEF LStep, Lifecycle!Next
<1>6. QED
  BY <1>4, <1>5

\* A detach blocks the Run on its current Job.
LEMMA DetachBlocks ==
  ASSUME NEW s \in RunRecord, Detachable(s), disk \in RunRecord, disk.status = "running",
         \A j \in Jobs : s.jobs[j].status = disk.jobs[j].status,
         CanSave(disk, DetachedRun(s), files), disk' = DetachedRun(s), sent' = sent
  PROVE  LStep
<1> DEFINE c == s.current
           new == DetachedRun(s)
<1>1. c \in Jobs /\ s.jobs[c].status \in {"preparing", "submitting"} \union UnresolvedJob
  BY DEF Detachable
<1>2. /\ new.status = "blocked" /\ new.diagnostic = "detached" /\ new.current = c
      /\ \A j \in Jobs : j # c => new.jobs[j] = s.jobs[j]
      /\ new.jobs[c].status =
           IF s.jobs[c].status = "submitting" THEN "submission_unknown" ELSE s.jobs[c].status
  BY <1>1 DEF DetachedRun, UnknownJob, WithJob, RunRecord, JobRecord
<1>3. DetachedShape(new)
  BY <1>2 DEF CanSave, ValidState
<1>4. Lifecycle!InOrder(c)
  BY <1>1, <1>2, <1>3, NumJobsAssumption DEF DetachedShape, Lifecycle!InOrder, Jobs, PristineJob
<1> DEFINE now == [j \in Jobs |-> disk.jobs[j].status]
           then == [j \in Jobs |-> disk'.jobs[j].status]
<1>5. CASE s.jobs[c].status = "submitting"
  <2>1. then = [now EXCEPT ![c] = "submission_unknown"]
    BY <1>1, <1>2, <1>5
  <2>2. Lifecycle!BlockRun(c)
    BY <1>1, <1>2, <1>4, <1>5, <2>1, SameDefinitions DEF Lifecycle!BlockRun
  <2>3. QED
    BY <1>1, <2>2, SameDefinitions DEF LStep, Lifecycle!Next
<1>6. CASE s.jobs[c].status # "submitting"
  <2>1. then = now
    BY <1>1, <1>2, <1>6
  <2>2. Lifecycle!BlockRun(c)
    BY <1>1, <1>2, <1>4, <1>6, <2>1, SameDefinitions DEF Lifecycle!BlockRun
  <2>3. QED
    BY <1>1, <2>2, SameDefinitions DEF LStep, Lifecycle!Next
<1>7. QED
  BY <1>5, <1>6

\* A stop cancels the Jobs from the first one that was not submitted.
LEMMA StopCancels ==
  ASSUME disk \in RunRecord, run \in RunRecord, disk.status = "running", NEW c \in Jobs,
         \A j \in Jobs : j # c => disk.jobs[j].status = run.jobs[j].status,
         \A i \in 1 .. c - 1 : disk.jobs[i].status = "succeeded",
         \A j \in Jobs : j > c => run.jobs[j].status = "pending",
         run.jobs[c].status \in {"pending", "preparing"},
         disk.jobs[c].status # "cancelled",
         CanSave(disk, StoppedRun(run), files), disk' = StoppedRun(run), sent' = sent
  PROVE  LStep
<1> DEFINE new == StoppedRun(run)
<1>1. /\ new.status = "cancelled"
      /\ \A j \in Jobs :
           new.jobs[j].status =
             IF run.jobs[j].status \in {"pending", "preparing"} THEN "cancelled" ELSE run.jobs[j].status
  BY DEF StoppedRun, RunRecord, JobRecord
<1>2. \A i \in Jobs : i < c => i \in 1 .. c - 1
  BY NumJobsAssumption DEF Jobs
<1>3. \A j \in Jobs : new.jobs[j].status = IF j < c THEN "succeeded" ELSE "cancelled"
  BY <1>1, <1>2, NumJobsAssumption DEF Jobs
<1>4. disk.jobs[c].status \in {"pending", "preparing"}
  <2>1. ValidJobTransition(disk.jobs[c], new.jobs[c]) /\ new.jobs[c].status = "cancelled"
    BY <1>3, NumJobsAssumption DEF CanSave, ValidTransition, Jobs
  <2>2. disk.jobs[c] \in JobRecord
    BY DEF RunRecord
  <2>3. QED
    BY <2>1, <2>2 DEF ValidJobTransition, JobTransitions, JobRecord, JobStatus
<1>5. Lifecycle!InOrder(c)
  BY NumJobsAssumption DEF Lifecycle!InOrder, Jobs
<1>6. Lifecycle!StopRun(c)
  BY <1>1, <1>3, <1>4, <1>5, SameDefinitions DEF Lifecycle!StopRun
<1>7. QED
  BY <1>6, SameDefinitions DEF LStep, Lifecycle!Next

-----------------------------------------------------------------------------
(* Every step refines one of the lifecycle.                                *)

RInv == Inv /\ CopyInvariant

\* What the invariants say at a place with a Job in hand and the copy equal.
LEMMA InHand ==
  ASSUME RInv, pc \in Settled \ {"next"}
  PROVE  /\ disk = run /\ run \in RunRecord /\ run.status = "running"
         /\ run.current \in Jobs
         /\ \A i \in 1 .. run.current - 1 : disk.jobs[i].status = "succeeded"
         /\ \A j \in Jobs : j > run.current => run.jobs[j] = PristineJob
BY DEF RInv, Inv, TypeInvariant, TypeOK, SubmissionInvariant, CurrentInHand, PrefixDone,
  CopyInvariant, CopyOfRecord, LaterUntouched, Settled, JobPlaces, Awaits

\* A record that differs from s in the Job in hand, which it shows as st.
Changes(s, new, st) ==
  /\ new \in RunRecord
  /\ new.status = s.status
  /\ new.current = s.current
  /\ \A j \in Jobs : j # s.current => new.jobs[j] = s.jobs[j]
  /\ new.jobs[s.current].status = st

LEMMA WithJobChanges ==
  ASSUME NEW s \in RunRecord, s.current \in Jobs, NEW job \in JobRecord
  PROVE  Changes(s, WithJob(s, job), job.status)
BY DEF Changes, WithJob, RunRecord

\* The records that preparation, submission and ingestion write.
LEMMA JobRecords ==
  ASSUME NEW s \in RunRecord, s.current \in Jobs
  PROVE  /\ Changes(s, PreparingJob(s), "preparing")
         /\ Changes(s, SubmittingJob(s), "submitting")
         /\ Changes(s, UnknownJob(s), "submission_unknown")
         /\ Changes(s, AcceptedJob(s), "submitted")
         /\ Changes(s, RejectedJob(s), "failed")
         /\ Changes(s, FailedJob(s), "failed")
         /\ Changes(s, SucceededJob(s), "succeeded")
<1> DEFINE job == s.jobs[s.current]
<1>0. job \in JobRecord
  BY JobInRecord
<1> HIDE DEF job
<1>1. Changes(s, PreparingJob(s), "preparing")
  <2> DEFINE new == [job EXCEPT !.status = "preparing", !.client = TRUE]
  <2>1. new \in JobRecord /\ new.status = "preparing"
    BY <1>0 DEF JobRecord, JobStatus
  <2> HIDE DEF new
  <2>2. Changes(s, WithJob(s, new), "preparing")
    BY <2>1, WithJobChanges
  <2>3. QED
    BY <2>2 DEF PreparingJob, new, job
<1>2. Changes(s, SubmittingJob(s), "submitting")
  <2> DEFINE new == [job EXCEPT !.status = "submitting"]
  <2>1. new \in JobRecord /\ new.status = "submitting"
    BY <1>0 DEF JobRecord, JobStatus
  <2> HIDE DEF new
  <2>2. Changes(s, WithJob(s, new), "submitting")
    BY <2>1, WithJobChanges
  <2>3. QED
    BY <2>2 DEF SubmittingJob, new, job
<1>3. Changes(s, UnknownJob(s), "submission_unknown")
  <2> DEFINE new == [job EXCEPT !.status = "submission_unknown", !.disposition = "unknown"]
  <2>1. new \in JobRecord /\ new.status = "submission_unknown"
    BY <1>0 DEF JobRecord, JobStatus, Disposition
  <2> HIDE DEF new
  <2>2. Changes(s, WithJob(s, new), "submission_unknown")
    BY <2>1, WithJobChanges
  <2>3. QED
    BY <2>2 DEF UnknownJob, new, job
<1>4. Changes(s, AcceptedJob(s), "submitted")
  <2> DEFINE new == [job EXCEPT !.status = "submitted", !.disposition = "accepted", !.prompt = TRUE]
  <2>1. new \in JobRecord /\ new.status = "submitted"
    BY <1>0 DEF JobRecord, JobStatus, Disposition
  <2> HIDE DEF new
  <2>2. Changes(s, WithJob(s, new), "submitted")
    BY <2>1, WithJobChanges
  <2>3. QED
    BY <2>2 DEF AcceptedJob, new, job
<1>5. Changes(s, RejectedJob(s), "failed")
  <2> DEFINE new == [job EXCEPT !.status = "failed", !.disposition = "rejected"]
  <2>1. new \in JobRecord /\ new.status = "failed"
    BY <1>0 DEF JobRecord, JobStatus, Disposition
  <2> HIDE DEF new
  <2>2. Changes(s, WithJob(s, new), "failed")
    BY <2>1, WithJobChanges
  <2>3. QED
    BY <2>2 DEF RejectedJob, new, job
<1>6. Changes(s, FailedJob(s), "failed")
  <2> DEFINE new == [job EXCEPT !.status = "failed"]
  <2>1. new \in JobRecord /\ new.status = "failed"
    BY <1>0 DEF JobRecord, JobStatus
  <2> HIDE DEF new
  <2>2. Changes(s, WithJob(s, new), "failed")
    BY <2>1, WithJobChanges
  <2>3. QED
    BY <2>2 DEF FailedJob, new, job
<1>7. Changes(s, SucceededJob(s), "succeeded")
  <2> DEFINE new == [job EXCEPT !.status = "succeeded"]
  <2>1. new \in JobRecord /\ new.status = "succeeded"
    BY <1>0 DEF JobRecord, JobStatus
  <2> HIDE DEF new
  <2>2. Changes(s, WithJob(s, new), "succeeded")
    BY <2>1, WithJobChanges
  <2>3. QED
    BY <2>2 DEF SucceededJob, new, job
<1>8. QED
  BY <1>1, <1>2, <1>3, <1>4, <1>5, <1>6, <1>7

\* A save that changes the Job in hand, at a place where the copy is the record.
LEMMA SettledSave ==
  ASSUME RInv, pc \in Settled \ {"next"}, sent' = sent,
         NEW new, NEW st, Changes(run, new, st), st # "cancelled",
         NEW next, NEW failed, Persist(new, next, failed)
  PROVE  LStep
<1>1. CASE disk' = disk
  BY <1>1, StatusesKept
<1>2. CASE disk' = new /\ CanSave(disk, new, files)
  BY <1>2, InHand, JobAdvances DEF Changes
<1>3. QED
  BY <1>1, <1>2, PersistSaves

\* Saves of the Job in hand other than those of a stop.
JobSaves ==
  \/ PrepareJob
  \/ Admit /\ flags = {}
  \/ Accepted \/ Rejected \/ AnswerUnknown
  \/ HistoryTimesOut \/ HistoryFailed \/ HistorySucceeded \/ DownloadFails
  \/ RecordResult \/ FailIngestion \/ SucceedJob

LEMMA JobSavesRefine ==
  ASSUME RInv, JobSaves
  PROVE  LStep
<1>1. sent' = sent /\ pc \in Settled \ {"next"}
  BY DEF JobSaves, PrepareJob, Admit, Accepted, Rejected, AnswerUnknown, HistoryTimesOut,
    HistoryFailed, HistorySucceeded, DownloadFails, RecordResult, FailIngestion, SucceedJob,
    Settled, Resumes, OnlySaves, comfy
<1>2. run \in RunRecord /\ run.current \in Jobs /\ disk = run
  BY <1>1, InHand
<1> DEFINE j == run.jobs[run.current]
<1>3. j \in JobRecord
  BY <1>2, JobInRecord
<1>4. CASE PrepareJob
  BY <1>1, <1>2, <1>4, JobRecords, SettledSave DEF PrepareJob
<1>5. CASE Admit /\ flags = {}
  BY <1>1, <1>2, <1>5, JobRecords, SettledSave DEF Admit
<1>6. CASE Accepted
  BY <1>1, <1>2, <1>6, JobRecords, SettledSave DEF Accepted
<1>7. CASE Rejected
  BY <1>1, <1>2, <1>7, JobRecords, SettledSave DEF Rejected
<1>8. CASE AnswerUnknown
  BY <1>1, <1>2, <1>8, JobRecords, SettledSave DEF AnswerUnknown
<1>9. CASE HistoryTimesOut \/ HistorySucceeded
  BY <1>1, <1>2, <1>9, StatusesKept DEF HistoryTimesOut, HistorySucceeded, Persist
<1>10. CASE HistoryFailed \/ DownloadFails \/ FailIngestion
  BY <1>1, <1>2, <1>10, JobRecords, SettledSave
  DEF HistoryFailed, DownloadFails, FailIngestion
<1>11. CASE SucceedJob
  BY <1>1, <1>2, <1>11, JobRecords, SettledSave DEF SucceedJob
<1>12. CASE RecordResult
  <2> DEFINE new == RecordedJob(run)
  <2>1. /\ pc = "record" /\ (disk' = disk \/ disk' = new)
    BY <1>12, PersistSaves DEF RecordResult
  <2>2. new.status = run.status
    BY <1>2 DEF RecordedJob, WithJob, RunRecord
  <2>3. \A i \in Jobs : new.jobs[i].status = run.jobs[i].status
    BY <1>2, <1>3 DEF RecordedJob, WithJob, RunRecord, JobRecord
  <2> HIDE DEF new
  <2>4. QED
    BY <1>1, <1>2, <2>1, <2>2, <2>3, StatusesKept
<1>13. QED
  BY <1>4, <1>5, <1>6, <1>7, <1>8, <1>9, <1>10, <1>11, <1>12 DEF JobSaves

\* A stop of the Job in hand, before its submission.
LEMMA HandStops ==
  ASSUME RInv, sent' = sent, run.current \in Jobs, run.status = "running",
         disk.status = "running",
         \A j \in Jobs : j # run.current => disk.jobs[j] = run.jobs[j],
         run.jobs[run.current].status = "preparing",
         disk.jobs[run.current].status # "cancelled",
         \A i \in 1 .. run.current - 1 : disk.jobs[i].status = "succeeded",
         \A j \in Jobs : j > run.current => run.jobs[j] = PristineJob,
         CanSave(disk, StoppedRun(run), files), disk' = StoppedRun(run)
  PROVE  LStep
<1>1. PICK c \in Jobs : c = run.current
  OBVIOUS
<1>2. disk \in RunRecord /\ run \in RunRecord
  BY DEF RInv, Inv, TypeInvariant, TypeOK
<1>3. QED
  BY <1>1, <1>2, StopCancels DEF PristineJob

\* The stop of a Job whose preparation has not led to a submission, where the
\* copy is the record.
LEMMA SettledStop ==
  ASSUME RInv, pc \in {"upload", "open", "admit"}, sent' = sent,
         NEW next, NEW failed, StopRun(run, next, failed)
  PROVE  LStep
<1>1. /\ disk = run /\ run \in RunRecord /\ run.status = "running"
      /\ run.current \in Jobs
      /\ \A i \in 1 .. run.current - 1 : disk.jobs[i].status = "succeeded"
      /\ \A j \in Jobs : j > run.current => run.jobs[j] = PristineJob
  BY InHand DEF Settled
<1>2. run.jobs[run.current].status = "preparing"
  BY <1>1 DEF RInv, Inv, SubmissionInvariant, WriteAhead
<1>3. CASE disk' = disk
  BY <1>3, StatusesKept
<1>4. CASE disk' = StoppedRun(run) /\ CanSave(disk, StoppedRun(run), files)
  BY <1>1, <1>2, <1>4, HandStops
<1>5. CASE Detachable(run) /\ disk' = DetachedRun(run) /\ CanSave(disk, DetachedRun(run), files)
  BY <1>1, <1>5, DetachBlocks
<1>6. QED
  BY <1>3, <1>4, <1>5, PersistSaves DEF StopRun, Detach

LEMMA PreparationFailsRefines ==
  ASSUME RInv, PreparationFails
  PROVE  LStep
<1>1. sent' = sent /\ pc \in {"upload", "open"}
  BY DEF PreparationFails, Resumes, OnlySaves, comfy
<1>2. CASE flags # {}
  BY <1>1, <1>2, SettledStop DEF PreparationFails, StopOrFail
<1>3. CASE flags = {}
  <2>1. run \in RunRecord /\ run.current \in Jobs /\ pc \in Settled \ {"next"}
    BY <1>1, InHand DEF Settled
  <2>2. Changes(run, FailedJob(run), "failed")
    BY <2>1, JobRecords
  <2>3. Persist(FailedJob(run), "after", "escape")
    BY <1>3 DEF PreparationFails, StopOrFail
  <2>4. QED
    BY <1>1, <2>1, <2>2, <2>3, SettledSave
<1>4. QED
  BY <1>2, <1>3

LEMMA AdmitRefines ==
  ASSUME RInv, Admit
  PROVE  LStep
<1>1. CASE flags = {}
  BY <1>1, JobSavesRefine DEF JobSaves
<1>2. CASE flags # {}
  BY <1>2, SettledStop DEF Admit, Resumes, OnlySaves, comfy
<1>3. QED
  BY <1>1, <1>2

\* The handler of the event-stream block goes on with a copy that the disk may
\* be ahead of.
LEMMA HandlerRefines ==
  ASSUME RInv, HandleStreamError
  PROVE  LStep
<1>1. /\ sent' = sent /\ pc = "handler"
      /\ run \in RunRecord /\ disk \in RunRecord
      /\ run.status = "running" /\ run.current \in Jobs /\ Ahead
      /\ \A i \in 1 .. run.current - 1 : disk.jobs[i].status = "succeeded"
      /\ \A j \in Jobs : j > run.current => run.jobs[j] = PristineJob
  BY DEF HandleStreamError, OnlySaves, comfy, RInv, Inv, TypeInvariant, TypeOK, SubmissionInvariant,
    CurrentInHand, PrefixDone, CopyInvariant, CopyOfRecord, LaterUntouched, Settled, JobPlaces, Raising
<1>2. CASE disk' = disk
  BY <1>1, <1>2, StatusesKept
<1>3. ASSUME disk' # disk
      PROVE  LStep
  <2>1. /\ CanSave(disk, disk', files)
        /\ \/ Job.status = "preparing" /\ flags = {} /\ disk' = FailedJob(run)
           \/ Job.status = "preparing" /\ flags # {} /\ "detach" \notin flags /\ disk' = StoppedRun(run)
           \/ Job.status = "preparing" /\ "detach" \in flags /\ Detachable(run) /\ disk' = DetachedRun(run)
           \/ Job.status = "submitting" /\ disk' = UnknownJob(run)
    BY <1>3, PersistSaves DEF HandleStreamError, StopOrFail, StopRun, Detach
  <2>2. disk.status # "cancelled"
    BY <2>1 DEF CanSave, ValidTransition, TerminalRun
  <2>3. CASE disk.status = "running"
    <3>1. /\ \A j \in Jobs : j # run.current => disk.jobs[j] = run.jobs[j]
          /\ disk.jobs[run.current].status \notin {"pending", "cancelled"}
      BY <1>1, <2>3 DEF Ahead, DetachedRun, RunRecord
    <3>2. CASE disk' = FailedJob(run) \/ disk' = UnknownJob(run)
      <4>1. /\ Changes(run, disk', disk'.jobs[run.current].status)
            /\ disk'.jobs[run.current].status # "cancelled"
        BY <1>1, <3>2, JobRecords DEF Changes
      <4>2. QED
        BY <1>1, <2>1, <2>3, <3>1, <4>1, JobAdvances DEF Changes
    <3>3. CASE Job.status = "preparing" /\ disk' = StoppedRun(run)
      BY <1>1, <2>1, <2>3, <3>1, <3>3, HandStops DEF Job
    <3>4. CASE Job.status = "preparing" /\ Detachable(run) /\ disk' = DetachedRun(run)
      <4>1. ValidJobTransition(disk.jobs[run.current], disk'.jobs[run.current])
        BY <1>1, <2>1, <2>3 DEF CanSave, ValidTransition
      <4>2. disk'.jobs[run.current].status = "preparing"
        BY <1>1, <3>4 DEF DetachedRun, Job, RunRecord
      <4>3. disk.jobs[run.current].status = "preparing"
        BY <1>1, <3>1, <4>1, <4>2 DEF ValidJobTransition, JobTransitions, JobStatus, RunRecord, JobRecord
      <4>4. QED
        BY <1>1, <2>1, <2>3, <3>1, <3>4, <4>3, DetachBlocks DEF Job
    <3>5. QED
      BY <2>1, <3>2, <3>3, <3>4
  <2>4. CASE "detach" \in flags /\ Job.status = "preparing" /\ disk = DetachedRun(run)
    BY <1>3, <2>1, <2>4
  <2>5. QED
    BY <1>1, <2>2, <2>3, <2>4 DEF Ahead, Job
<1>4. QED
  BY <1>2, <1>3

\* The first and the last saves of the Run, and what the outcome of a Job means.
LEMMA RunLoopRefines ==
  ASSUME RInv, RunLoop
  PROVE  LStep
<1> USE DEF OnlySaves, comfy
<1>1. /\ sent' = sent /\ run \in RunRecord /\ disk \in RunRecord
      /\ AbsentRecord /\ CopyOfRecord /\ LaterUntouched /\ CurrentInHand /\ PrefixDone
  BY DEF RunLoop, Initialize, BeginRunning, StopBeforeJob, SelectJob, FinishRun, AfterJob,
    RInv, Inv, TypeInvariant, TypeOK, SubmissionInvariant, CopyInvariant
<1>2. CASE disk' = disk
  BY <1>1, <1>2, StatusesKept
<1>3. CASE Initialize /\ disk' # disk
  <2>1. disk = NoState /\ disk' = InitialState
    BY <1>1, <1>3, PersistSaves DEF Initialize, CopyOfRecord
  <2>2. disk'.jobs = disk.jobs
    BY <2>1 DEF NoState, InitialState
  <2>3. Lifecycle!Create
    BY <1>1, <2>1, <2>2 DEF Lifecycle!Create, NoState, InitialState
  <2>4. QED
    BY <2>3 DEF LStep, Lifecycle!Next
<1>4. CASE BeginRunning /\ disk' # disk
  <2>1. disk = InitialState /\ disk' = [InitialState EXCEPT !.status = "running"]
    BY <1>1, <1>4, PersistSaves DEF BeginRunning, CopyOfRecord
  <2>2. disk'.jobs = disk.jobs
    BY <2>1 DEF InitialState
  <2>3. Lifecycle!Begin
    BY <1>1, <2>1, <2>2 DEF Lifecycle!Begin, InitialState
  <2>4. QED
    BY <2>3 DEF LStep, Lifecycle!Next
<1>5. CASE pc = "next" /\ disk' # disk
  <2>1. /\ disk = run /\ run.status = "running" /\ run.current \in 0 .. NumJobs
        /\ \A i \in 1 .. run.current : disk.jobs[i].status = "succeeded"
        /\ \A j \in Jobs : j > run.current => run.jobs[j] = PristineJob
    BY <1>1, <1>5 DEF CopyOfRecord, Settled, LaterUntouched, PrefixDone, RunRecord
  <2>2. CASE StopBeforeJob
    <3>1. /\ run.current < NumJobs /\ disk' = StoppedRun(run)
          /\ CanSave(disk, StoppedRun(run), files)
      <4>1. run.current = 0 => ~Detachable(run)
        BY NumJobsAssumption DEF Detachable, Jobs
      <4>2. QED
        BY <1>5, <2>2, <4>1, PersistSaves DEF StopBeforeJob, StopRun, Detach
    <3>2. PICK c \in Jobs : c = run.current + 1
      BY <2>1, <3>1, NumJobsAssumption DEF Jobs
    <3>3. /\ run.jobs[c].status = "pending"
          /\ \A i \in 1 .. c - 1 : disk.jobs[i].status = "succeeded"
          /\ \A j \in Jobs : j > c => run.jobs[j].status = "pending"
      BY <2>1, <3>2, NumJobsAssumption DEF Jobs, PristineJob
    <3>4. QED
      BY <1>1, <2>1, <3>1, <3>2, <3>3, StopCancels
  <2>3. CASE SelectJob
    <3>1. disk' = [run EXCEPT !.current = @ + 1]
      BY <1>5, <2>3, PersistSaves DEF SelectJob
    <3>2. disk'.jobs = disk.jobs /\ disk'.status = disk.status
      BY <1>1, <2>1, <3>1 DEF RunRecord
    <3>3. QED
      BY <1>1, <3>2, StatusesKept
  <2>4. CASE FinishRun
    <3>1. disk' = [run EXCEPT !.status = "succeeded", !.current = 0]
      BY <1>5, <2>4, PersistSaves DEF FinishRun
    <3>2. disk'.jobs = disk.jobs /\ disk'.status = "succeeded" /\ run.current = NumJobs
      BY <1>1, <2>1, <2>4, <3>1 DEF RunRecord, FinishRun
    <3>3. \A j \in Lifecycle!Jobs : disk.jobs[j].status = "succeeded"
      BY <2>1, <3>2, SameDefinitions DEF Jobs
    <3>4. Lifecycle!SucceedRun
      BY <1>1, <2>1, <3>2, <3>3, SameDefinitions DEF Lifecycle!SucceedRun
    <3>5. QED
      BY <3>4 DEF LStep, Lifecycle!Next
  <2>5. QED
    BY <1>5, <2>2, <2>3, <2>4 DEF RunLoop, Initialize, BeginRunning, AfterJob
<1>6. CASE AfterJob /\ disk' # disk
  <2>1. /\ disk = run /\ run.current \in Jobs
        /\ run.status \in {"running", "blocked"}
        /\ run.status = "blocked" => OpenJob
        /\ \A i \in 1 .. run.current - 1 : disk.jobs[i].status = "succeeded"
        /\ \A j \in Jobs : j > run.current => run.jobs[j] = PristineJob
    BY <1>1, <1>6 DEF AfterJob, CopyOfRecord, Returning, LaterUntouched, PrefixDone, CurrentInHand,
      JobPlaces
  <2> DEFINE blocked == [run EXCEPT !.status = "blocked", !.diagnostic = "job"]
             failed == [run EXCEPT !.status = "failed", !.diagnostic = "job"]
  <2>2. \/ /\ Job.status \in UnresolvedJob /\ disk' = blocked
        \/ /\ Job.status \notin {"succeeded"} \union UnresolvedJob /\ disk' = failed
           /\ CanSave(disk, failed, files)
    BY <1>6, PersistSaves DEF AfterJob
  <2>3. /\ blocked.status = "blocked" /\ blocked.jobs = run.jobs
        /\ failed.status = "failed" /\ failed.jobs = run.jobs
    BY <1>1 DEF RunRecord
  <2> HIDE DEF blocked, failed
  <2>4. CASE Job.status \in UnresolvedJob /\ disk' = blocked
    <3>1. CASE run.status = "blocked"
      BY <1>1, <2>1, <2>3, <2>4, <3>1, StatusesKept
    <3>2. CASE run.status = "running"
      <4>1. PICK c \in Jobs : c = run.current
        BY <2>1
      <4>2. Lifecycle!InOrder(c)
        BY <2>1, <4>1, InOrderOnDisk
      <4>3. Lifecycle!BlockRun(c)
        BY <1>1, <2>1, <2>3, <2>4, <3>2, <4>1, <4>2, SameDefinitions DEF Lifecycle!BlockRun, Job
      <4>4. QED
        BY <4>3, SameDefinitions DEF LStep, Lifecycle!Next
    <3>3. QED
      BY <2>1, <3>1, <3>2
  <2>5. CASE /\ Job.status \notin {"succeeded"} \union UnresolvedJob /\ disk' = failed
             /\ CanSave(disk, failed, files)
    <3>1. PICK j \in Jobs : run.jobs[j].status = "failed"
      BY <2>3, <2>5 DEF CanSave, ValidState
    <3>2. run.jobs[run.current].status = "failed"
      BY <2>1, <3>1, NumJobsAssumption DEF PristineJob, Jobs
    <3>3. run.status = "running"
      BY <2>1, <3>2 DEF OpenJob, UnresolvedJob
    <3>4. Lifecycle!FailRun
      BY <1>1, <2>1, <2>3, <2>5, <3>1, <3>3, SameDefinitions DEF Lifecycle!FailRun
    <3>5. QED
      BY <3>4 DEF LStep, Lifecycle!Next
  <2>6. QED
    BY <2>2, <2>4, <2>5
<1>7. QED
  BY <1>2, <1>3, <1>4, <1>5, <1>6 DEF RunLoop, StopBeforeJob, SelectJob, FinishRun

\* A cancelled task writes the detached outcome from the record on disk.
LEMMA UnwindRefines ==
  ASSUME RInv, Unwind
  PROVE  LStep
<1>1. sent' = sent /\ disk \in RunRecord
  BY DEF Unwind, OnlySaves, comfy, RInv, Inv, TypeInvariant, TypeOK
<1>2. CASE disk' = disk
  BY <1>1, <1>2, StatusesKept
<1>3. CASE disk' # disk
  <2>1. /\ Detachable(disk) /\ disk' = DetachedRun(disk)
        /\ CanSave(disk, DetachedRun(disk), files)
    BY <1>3, PersistSaves DEF Unwind, Detach
  <2>2. PICK s \in RunRecord : s = disk
    BY <1>1
  <2>3. QED
    BY <1>1, <2>1, <2>2, DetachBlocks DEF Detachable
<1>4. QED
  BY <1>2, <1>3

\* The request that leaves is the submission of the lifecycle.
LEMMA PostRefines ==
  ASSUME RInv, Post
  PROVE  LStep
<1>1. /\ disk = run /\ run \in RunRecord /\ run.status = "running"
      /\ run.current \in Jobs
      /\ \A i \in 1 .. run.current - 1 : disk.jobs[i].status = "succeeded"
      /\ \A j \in Jobs : j > run.current => run.jobs[j] = PristineJob
  BY InHand DEF Post, Settled
<1>2. disk.jobs[run.current].status = "submitting" /\ sent[run.current] = 0 /\ disk' = disk
  BY DEF Post, RInv, Inv, SubmissionInvariant, WriteAhead, storage
<1>3. PICK c \in Jobs : c = run.current
  BY <1>1
<1>4. Lifecycle!InOrder(c)
  BY <1>1, <1>3, InOrderOnDisk
<1>5. Lifecycle!SubmitJob(c)
  BY <1>1, <1>2, <1>3, <1>4 DEF Lifecycle!SubmitJob, Post
<1>6. QED
  BY <1>5, SameDefinitions DEF LStep, Lifecycle!Next

LEMMA DiscardRefines ==
  ASSUME RInv, Discard
  PROVE  LStep
<1>1. disk'.status = "cancelled" /\ disk'.jobs = disk.jobs /\ sent' = sent
      /\ disk.status \in {"absent", "created"}
  BY DEF Discard, NoState, InitialState, comfy
<1>2. Lifecycle!DiscardRun
  BY <1>1 DEF Lifecycle!DiscardRun
<1>3. QED
  BY <1>2 DEF LStep, Lifecycle!Next

\* Whatever the executor and its surroundings do, a reader of the record sees
\* a step of the lifecycle or nothing.
LEMMA StepRefines ==
  ASSUME RInv, [Next]_vars
  PROVE  LStep
<1>1. CASE disk' = disk /\ sent' = sent
  BY <1>1, StatusesKept
<1>2. CASE Post
  BY <1>2, PostRefines
<1>3. CASE RunLoop
  BY <1>3, RunLoopRefines
<1>4. CASE Submission
  BY <1>4, <1>2, <1>1, JobSavesRefine, AdmitRefines, PreparationFailsRefines
  DEF Submission, JobSaves, InputsUploaded, StreamOpened, storage, comfy
<1>5. CASE Reconciliation
  BY <1>5, <1>1, JobSavesRefine, HandlerRefines
  DEF Reconciliation, JobSaves, StoreResult, ReconcileResult, Join, ObservationEnds, StreamCloses,
    storage, comfy
<1>6. CASE Unwind
  BY <1>6, UnwindRefines
<1>7. CASE Discard
  BY <1>7, DiscardRefines
<1>8. CASE UNCHANGED vars
  BY <1>1, <1>8 DEF vars, storage, comfy
<1>9. CASE DeliverCancel \/ RequestStep
  BY <1>1, <1>9 DEF DeliverCancel, RequestStep, Launch, RefuseStart, StoreIntent, ExposeIntent,
    IntentFails, storage, comfy
<1>10. QED
  BY <1>1, <1>3, <1>4, <1>5, <1>6, <1>7, <1>8, <1>9
  DEF Next, ExecutorStep, AdmitStart, TakeControl, Shutdown, Drain, RemoteRuns, Crash, storage, comfy

-----------------------------------------------------------------------------
(* The copy invariant is kept.                                             *)

LEMMA CopyInit ==
  ASSUME Init
  PROVE  CopyInvariant
BY DEF Init, CopyInvariant, CopyOfRecord, LaterUntouched, AllRecorded, Settled, Returning, Raising

\* Saves of the Job in hand: the copy follows, or the disk is ahead.
LEMMA CopyPersist ==
  ASSUME RInv, pc \in Settled \ {"next"},
         run.jobs[run.current].status \notin {"pending", "cancelled"} \/ pc = "prepare",
         NEW new, NEW st, Changes(run, new, st), st \notin {"pending", "cancelled"},
         NEW next, NEW failed, Persist(new, next, failed)
  PROVE  /\ run'.status = "running" /\ run' \in RunRecord /\ run'.current = run.current
         /\ \A j \in Jobs : j > run.current => run'.jobs[j] = PristineJob
         /\ \/ pc' = next /\ disk' = run' /\ run' = new
            \/ /\ pc' = IF failed = "escape" THEN "idle" ELSE failed
               /\ run' = run
               /\ disk'.status = "running"
               /\ disk' = run \/ disk' = new
               /\ \A j \in Jobs : j # run.current => disk'.jobs[j] = run.jobs[j]
<1>1. /\ disk = run /\ run \in RunRecord /\ run.status = "running"
      /\ run.current \in Jobs
      /\ \A j \in Jobs : j > run.current => run.jobs[j] = PristineJob
  BY InHand
<1>2. /\ new \in RunRecord /\ new.status = "running" /\ new.current = run.current
      /\ \A j \in Jobs : j # run.current => new.jobs[j] = run.jobs[j]
      /\ \A j \in Jobs : j > run.current => new.jobs[j] = PristineJob
  BY <1>1, NumJobsAssumption DEF Changes, Jobs
<1>3. \/ pc' = next /\ disk' = new /\ run' = new
      \/ /\ pc' = IF failed = "escape" THEN "idle" ELSE failed
         /\ run' = run /\ (disk' = disk \/ disk' = new)
  BY DEF Persist, Proceed, Raise
<1>4. QED
  BY <1>1, <1>2, <1>3

\* A save never makes the record absent.
LEMMA StillThere ==
  ASSUME RInv, [Next]_vars
  PROVE  disk'.status = "absent" => disk' = NoState
<1>1. CASE disk.status # "absent"
  BY <1>1, RecordKept DEF RInv
<1>2. CASE disk.status = "absent"
  <2>1. disk = NoState /\ pc \in {"idle", "init"}
    BY <1>2 DEF RInv, CopyInvariant, CopyOfRecord, Inv, SubmissionInvariant, AbsentRecord
  <2>2. disk' = disk \/ Discard \/ Initialize
    BY <2>1 DEF Next, ExecutorStep, RunLoop, Submission, Reconciliation, BeginRunning, StopBeforeJob,
      SelectJob, FinishRun, AfterJob, PrepareJob, InputsUploaded, StreamOpened, PreparationFails,
      Admit, Post, Accepted, Rejected, AnswerUnknown, HistoryTimesOut, HistoryFailed,
      HistorySucceeded, DownloadFails, StoreResult, RecordResult, ReconcileResult, FailIngestion,
      SucceedJob, Join, ObservationEnds, StreamCloses, HandleStreamError, DeliverCancel, Unwind,
      RequestStep, Launch, RefuseStart, StoreIntent, ExposeIntent, IntentFails, AdmitStart,
      TakeControl, Shutdown, Drain, RemoteRuns, Crash, Resumes, vars, storage
  <2>3. CASE Initialize
    BY <2>1, <2>3, PersistSaves DEF Initialize, InitialState
  <2>4. CASE Discard
    BY <2>4 DEF Discard, InitialState
  <2>5. QED
    BY <2>1, <2>2, <2>3, <2>4
<1>3. QED
  BY <1>1, <1>2

LEMMA CopyRunLoop ==
  ASSUME RInv, Inv', RunLoop
  PROVE  CopyInvariant'
<1> USE DEF CopyInvariant, CopyOfRecord, LaterUntouched, AllRecorded, Settled, Returning, Raising
<1>0. /\ run \in RunRecord /\ disk \in RunRecord /\ CopyInvariant /\ CurrentInHand
      /\ disk'.status = "absent" => disk' = NoState
  BY StillThere DEF RInv, Inv, TypeInvariant, TypeOK, Next, ExecutorStep, SubmissionInvariant
<1>1. CASE pc' = "idle"
  BY <1>0, <1>1
<1>2. CASE Initialize /\ pc' # "idle"
  BY <1>0, <1>2 DEF Initialize, Persist, Raise, Proceed, InitialState
<1>3. CASE BeginRunning /\ pc' # "idle"
  BY <1>0, <1>3 DEF BeginRunning, Persist, Raise, Proceed, InitialState
<1>4. CASE SelectJob /\ pc' # "idle"
  <2>1. /\ pc = "next" /\ disk' = run' /\ run' = [run EXCEPT !.current = @ + 1] /\ pc' = "prepare"
        /\ exit' = "none" /\ run.current < NumJobs
    BY <1>4 DEF SelectJob, Persist, Raise, Proceed
  <2>2. /\ run'.current = run.current + 1 /\ run'.current \in Jobs /\ run'.jobs = run.jobs
        /\ run'.status = "running"
    BY <1>0, <2>1, SelectedRecord DEF RunRecord
  <2>3. \A j \in Jobs : j > run.current => run.jobs[j] = PristineJob
    BY <1>0, <2>1
  <2>4. run.current \in Int
    BY <1>0, NumJobsAssumption DEF RunRecord
  <2>5. /\ \A j \in Jobs : j > run'.current => run'.jobs[j] = PristineJob
        /\ run'.jobs[run'.current] = PristineJob
    BY <2>2, <2>3, <2>4 DEF Jobs
  <2>6. QED
    BY <1>0, <2>1, <2>2, <2>5 DEF PristineJob
<1>5. CASE AfterJob /\ pc' # "idle"
  <2>1. pc = "after" /\ pc' = "next" /\ run' = run /\ disk' = disk /\ Job.status = "succeeded"
        /\ run.status # "cancelled" /\ exit' = "none"
    BY <1>5 DEF AfterJob, Persist, Raise, Proceed
  <2>2. run.status = "running"
    BY <1>0, <2>1 DEF OpenJob, Job, UnresolvedJob
  <2>3. QED
    BY <1>0, <2>1, <2>2
<1>6. QED
  BY <1>1, <1>2, <1>3, <1>4, <1>5
  DEF RunLoop, StopBeforeJob, FinishRun, StopRun, Detach, Persist, Raise, Proceed

\* Submission does not touch the Results of the Job.
LEMMA ResultsUntouched ==
  ASSUME NEW s \in RunRecord, s.current \in Jobs
  PROVE  LET r == s.jobs[s.current].results IN
         /\ PreparingJob(s).jobs[s.current].results = r
         /\ SubmittingJob(s).jobs[s.current].results = r
         /\ AcceptedJob(s).jobs[s.current].results = r
<1>1. s.jobs[s.current] \in JobRecord
  BY JobInRecord
<1>2. QED
  BY <1>1 DEF PreparingJob, SubmittingJob, AcceptedJob, WithJob, RunRecord, JobRecord

\* How the event-stream block is left by a step that goes on at place.
Exits(place, how) == exit' = IF place \in {"close", "joined"} THEN how ELSE "none"

\* A stop leaves a cancelled or a detached Run, or the disk ahead.
LEMMA StopOutcome ==
  ASSUME RInv, pc \in {"upload", "open", "admit"} \/ pc = "handler",
         run.jobs[run.current].status = "preparing",
         NEW next, NEW failed, StopRun(run, next, failed)
  PROVE  \/ /\ pc' = next /\ disk' = run' /\ run'.status = "cancelled" /\ Exits(next, "return")
         \/ /\ pc' = next /\ disk' = run' /\ run'.status = "blocked" /\ OpenJob'
            /\ \A j \in Jobs : j > run'.current => run'.jobs[j] = PristineJob
            /\ Exits(next, "return")
         \/ /\ pc' = IF failed = "escape" THEN "idle" ELSE failed
            /\ run' = run /\ Exits(failed, "raise")
            /\ \/ disk' = disk
               \/ disk'.status = "cancelled"
               \/ "detach" \in flags /\ disk' = DetachedRun(run)
<1>1. /\ run \in RunRecord /\ run.status = "running" /\ run.current \in Jobs
      /\ \A j \in Jobs : j > run.current => run.jobs[j] = PristineJob
  BY DEF RInv, Inv, TypeInvariant, TypeOK, SubmissionInvariant, CurrentInHand, CopyInvariant,
    CopyOfRecord, LaterUntouched, Settled, JobPlaces, Awaits, Raising
<1>2. StoppedRun(run).status = "cancelled"
  BY <1>1, StoppedRecord
<1>3. ~DetachMoot(run)
  BY <1>1 DEF DetachMoot, TerminalRun
<1>4. /\ DetachedRun(run).status = "blocked" /\ DetachedRun(run).current = run.current
      /\ DetachedRun(run).jobs = run.jobs
  BY <1>1 DEF DetachedRun, RunRecord
<1>5. CASE "detach" \notin flags
  BY <1>2, <1>5 DEF StopRun, Persist, Proceed, Raise, Exits
<1>6. CASE "detach" \in flags
  <2>1. CASE Persist(DetachedRun(run), next, failed)
    BY <1>1, <1>4, <1>6, <2>1 DEF Persist, Proceed, Raise, OpenJob, Exits
  <2>2. CASE Raise(failed) /\ UNCHANGED <<disk, run, faults>>
    BY <2>2 DEF Raise, Exits
  <2>3. QED
    BY <1>3, <1>6, <2>1, <2>2 DEF StopRun, Detach
<1>7. QED
  BY <1>5, <1>6

\* How a save and a stop leave the event-stream block.
LEMMA ExitOfSave ==
  ASSUME NEW new, NEW next, NEW failed, Persist(new, next, failed)
  PROVE  \/ pc' = next /\ run' = new /\ exit' = IF next \in {"close", "joined"} THEN "return" ELSE "none"
         \/ /\ pc' = IF failed = "escape" THEN "idle" ELSE failed
            /\ run' = run /\ exit' = IF failed \in {"close", "joined"} THEN "raise" ELSE "none"
BY DEF Persist, Proceed, Raise

\* A prepared Job that is stopped or has failed.
LEMMA CopyStopOrFail ==
  ASSUME RInv, Inv', run.jobs[run.current].status = "preparing",
         pc \in {"upload", "open"} \/ pc = "handler", StopOrFail(run), flags' = flags,
         disk'.status = "absent" => disk' = NoState
  PROVE  CopyInvariant'
<1> USE DEF CopyInvariant, CopyOfRecord, LaterUntouched, AllRecorded, Settled, Returning, Raising
<1>1. /\ run \in RunRecord /\ run.status = "running" /\ run.current \in Jobs
      /\ \A j \in Jobs : j > run.current => run.jobs[j] = PristineJob
  BY DEF RInv, Inv, TypeInvariant, TypeOK, SubmissionInvariant, CurrentInHand, JobPlaces, Awaits
<1>2. CASE flags # {}
  BY <1>2, StopOutcome DEF StopOrFail
<1>3. CASE flags = {}
  <2>1. Persist(FailedJob(run), "after", "escape") /\ Changes(run, FailedJob(run), "failed")
    BY <1>1, <1>3, JobRecords DEF StopOrFail
  <2>2. \/ pc' = "idle"
        \/ pc' = "after" /\ disk' = run' /\ run' = FailedJob(run)
    BY <2>1 DEF Persist, Proceed, Raise
  <2>3. CASE pc' = "after" /\ disk' = run' /\ run' = FailedJob(run)
    BY <1>1, <2>1, <2>3 DEF Changes, Jobs
  <2>4. QED
    BY <2>2, <2>3
<1>4. QED
  BY <1>2, <1>3

\* A save of the Job in hand keeps the copy invariant.
LEMMA CopySave ==
  ASSUME RInv, pc \in Settled \ {"next"},
         run.jobs[run.current].status \notin {"pending", "cancelled"} \/ pc = "prepare",
         NEW new, NEW st, Changes(run, new, st), st \notin {"pending", "cancelled"},
         NEW next \in {"upload", "post", "history", "download", "succeed", "joined", "close"},
         NEW failed \in {"escape", "close", "joined"},
         failed = "escape" \/ run.jobs[run.current].status \notin {"pending", "cancelled"},
         Persist(new, next, failed),
         disk'.status = "absent" => disk' = NoState,
         next \in {"upload", "post", "history"} => new.jobs[run.current].results = 0,
         next = "succeed" =>
           remote'[run.current] = "done" /\ new.jobs[run.current].results = produced'[run.current]
  PROVE  CopyInvariant'
<1> DEFINE c == run.current
<1>1. /\ run'.status = "running" /\ run' \in RunRecord /\ run'.current = c
      /\ \A j \in Jobs : j > c => run'.jobs[j] = PristineJob
      /\ \/ pc' = next /\ disk' = run' /\ run' = new
         \/ /\ pc' = IF failed = "escape" THEN "idle" ELSE failed
            /\ run' = run
            /\ disk'.status = "running"
            /\ disk' = run \/ disk' = new
            /\ \A j \in Jobs : j # c => disk'.jobs[j] = run.jobs[j]
  BY CopyPersist
<1>2. \/ pc' = next /\ run' = new /\ exit' = IF next \in {"close", "joined"} THEN "return" ELSE "none"
      \/ /\ pc' = IF failed = "escape" THEN "idle" ELSE failed
         /\ run' = run /\ exit' = IF failed \in {"close", "joined"} THEN "raise" ELSE "none"
  BY ExitOfSave
<1>3. new.jobs[c].status = st /\ c \in Jobs
  BY InHand DEF Changes
<1>4. LaterUntouched'
  BY <1>1, <1>2, <1>3 DEF LaterUntouched
<1>5. AllRecorded'
  BY <1>1, <1>2, <1>3 DEF AllRecorded
<1>6. CopyOfRecord'
  <2>1. CASE pc' = next /\ disk' = run' /\ run' = new
             /\ exit' = IF next \in {"close", "joined"} THEN "return" ELSE "none"
    BY <1>1, <1>3, <2>1 DEF CopyOfRecord, Settled, Returning, Raising
  <2>2. CASE pc' = "idle"
    BY <2>2 DEF CopyOfRecord, Settled, Returning, Raising
  <2>3. CASE /\ failed # "escape" /\ pc' = failed /\ run' = run /\ exit' = "raise"
             /\ disk'.status = "running"
             /\ disk' = run \/ disk' = new
             /\ \A j \in Jobs : j # c => disk'.jobs[j] = run.jobs[j]
    <3>1. disk'.jobs[c].status \notin {"pending", "cancelled"}
      BY <1>3, <2>3
    <3>2. Ahead'
      BY <2>3, <3>1 DEF Ahead
    <3>3. QED
      BY <1>1, <2>3, <3>2 DEF CopyOfRecord, Settled, Returning, Raising
  <2>4. QED
    BY <1>1, <1>2, <2>1, <2>2, <2>3
<1>7. QED
  BY <1>4, <1>5, <1>6 DEF CopyInvariant

LEMMA CopySubmission ==
  ASSUME RInv, Inv', Submission
  PROVE  CopyInvariant'
<1> USE DEF CopyInvariant, CopyOfRecord, LaterUntouched, AllRecorded, Settled, Returning, Raising,
            OnlySaves, control, Resumes
<1>0. disk'.status = "absent" => disk' = NoState
  BY StillThere DEF Next, ExecutorStep
<1>1. /\ disk = run /\ run \in RunRecord /\ run.status = "running" /\ run.current \in Jobs
      /\ \A j \in Jobs : j > run.current => run.jobs[j] = PristineJob
      /\ pc \in Settled \ {"next"}
      /\ CopyInvariant
      /\ pc \in {"upload", "open", "admit"} => run.jobs[run.current].status = "preparing"
  <2>1. pc \in Settled \ {"next"}
    BY DEF Submission, PrepareJob, InputsUploaded, StreamOpened, PreparationFails, Admit, Post,
      Accepted, Rejected, AnswerUnknown
  <2>2. QED
    BY <2>1, InHand DEF RInv, Inv, SubmissionInvariant, WriteAhead
<1>2. CASE PrepareJob
  <2>1. Changes(run, PreparingJob(run), "preparing") /\ PreparingJob(run).jobs[run.current].results = 0
    BY <1>1, <1>2, JobRecords, ResultsUntouched DEF PrepareJob
  <2>2. Persist(PreparingJob(run), "upload", "escape") /\ pc = "prepare"
    BY <1>2 DEF PrepareJob
  <2>3. QED
    BY <1>0, <1>1, <2>1, <2>2, CopySave
<1>3. CASE InputsUploaded
  BY <1>0, <1>1, <1>3 DEF InputsUploaded, Proceed, storage
<1>4. CASE StreamOpened
  BY <1>0, <1>1, <1>4 DEF StreamOpened, Proceed, storage
<1>5. CASE PreparationFails
  BY <1>0, <1>1, <1>5, CopyStopOrFail DEF PreparationFails
<1>6. CASE Admit
  <2>1. CASE flags = {}
    <3>1. Changes(run, SubmittingJob(run), "submitting") /\ SubmittingJob(run).jobs[run.current].results = 0
      BY <1>1, <1>6, JobRecords, ResultsUntouched DEF Admit
    <3>2. Persist(SubmittingJob(run), "post", "close") /\ pc = "admit"
      BY <1>6, <2>1 DEF Admit
    <3>3. QED
      BY <1>0, <1>1, <3>1, <3>2, CopySave
  <2>2. CASE flags # {}
    <3>1. StopRun(run, "close", "close") /\ flags' = flags
      BY <1>6, <2>2 DEF Admit
    <3>2. pc = "admit"
      BY <1>6 DEF Admit
    <3>3. CASE pc' = "close" /\ disk' = run' /\ run'.status = "cancelled" /\ exit' = "return"
      BY <1>0, <3>3
    <3>4. CASE /\ pc' = "close" /\ disk' = run' /\ run'.status = "blocked" /\ OpenJob'
               /\ \A j \in Jobs : j > run'.current => run'.jobs[j] = PristineJob
               /\ exit' = "return"
      BY <1>0, <3>4
    <3>5. CASE /\ pc' = "close" /\ run' = run /\ exit' = "raise"
               /\ \/ disk' = disk
                  \/ disk'.status = "cancelled"
                  \/ "detach" \in flags /\ disk' = DetachedRun(run)
      <4>1. Ahead'
        BY <1>1, <3>1, <3>2, <3>5 DEF Ahead
      <4>2. QED
        BY <1>0, <1>1, <3>5, <4>1
    <3>6. QED
      BY <1>1, <3>1, <3>2, <3>3, <3>4, <3>5, StopOutcome DEF Exits
  <2>3. QED
    BY <2>1, <2>2
<1>7. CASE Post
  BY <1>0, <1>1, <1>7 DEF Post, Proceed, storage
<1>8. CASE Accepted
  <2>1. Changes(run, AcceptedJob(run), "submitted") /\ AcceptedJob(run).jobs[run.current].results = 0
    BY <1>1, <1>8, JobRecords, ResultsUntouched DEF Accepted
  <2>2. Persist(AcceptedJob(run), "history", "close") /\ pc = "posting"
    BY <1>8 DEF Accepted
  <2>3. QED
    BY <1>0, <1>1, <2>1, <2>2, CopySave
<1>9. CASE Rejected
  <2>1. Changes(run, RejectedJob(run), "failed")
    BY <1>1, <1>9, JobRecords DEF Rejected
  <2>2. Persist(RejectedJob(run), "close", "close") /\ pc = "posting"
    BY <1>9 DEF Rejected
  <2>3. QED
    BY <1>0, <1>1, <2>1, <2>2, CopySave
<1>10. CASE AnswerUnknown
  <2>1. Changes(run, UnknownJob(run), "submission_unknown")
    BY <1>1, <1>10, JobRecords DEF AnswerUnknown
  <2>2. Persist(UnknownJob(run), "close", "close") /\ pc = "posting"
    BY <1>10 DEF AnswerUnknown
  <2>3. QED
    BY <1>0, <1>1, <2>1, <2>2, CopySave
<1>11. QED
  BY <1>2, <1>3, <1>4, <1>5, <1>6, <1>7, <1>8, <1>9, <1>10 DEF Submission

\* What a recorded Result changes.
LEMMA RecordedChanges ==
  ASSUME NEW s \in RunRecord, s.current \in Jobs
  PROVE  /\ RecordedJob(s).status = s.status /\ RecordedJob(s).current = s.current
         /\ \A j \in Jobs : j # s.current => RecordedJob(s).jobs[j] = s.jobs[j]
         /\ RecordedJob(s).jobs[s.current].status = s.jobs[s.current].status
         /\ RecordedJob(s).jobs[s.current].results = s.jobs[s.current].results + 1
<1>1. s.jobs[s.current] \in JobRecord
  BY JobInRecord
<1>2. QED
  BY <1>1 DEF RecordedJob, WithJob, RunRecord, JobRecord

LEMMA CopyIngestion ==
  ASSUME RInv, Inv',
         HistoryTimesOut \/ HistoryFailed \/ HistorySucceeded \/ DownloadFails \/ FailIngestion
           \/ SucceedJob
  PROVE  CopyInvariant'
<1> USE DEF Resumes
<1>0. disk'.status = "absent" => disk' = NoState
  BY StillThere DEF Next, ExecutorStep, Reconciliation
<1>1. /\ pc \in Settled \ {"next", "prepare"} /\ run \in RunRecord /\ run.current \in Jobs
      /\ run.jobs[run.current].status \notin {"pending", "cancelled"}
      /\ remote' = remote /\ produced' = produced
  <2>1. pc \in Settled \ {"next", "prepare"} /\ remote' = remote /\ produced' = produced
    BY DEF HistoryTimesOut, HistoryFailed, HistorySucceeded, DownloadFails, FailIngestion, SucceedJob,
      Settled, OnlySaves, comfy
  <2>2. QED
    BY <2>1, InHand DEF RInv, CopyInvariant, CopyOfRecord
<1>2. CASE HistoryTimesOut
  <2>1. Changes(run, run, run.jobs[run.current].status)
    BY <1>1 DEF Changes
  <2>2. Persist(run, "joined", "joined")
    BY <1>2 DEF HistoryTimesOut
  <2>3. QED
    BY <1>0, <1>1, <2>1, <2>2, CopySave
<1>3. CASE HistorySucceeded
  <2>1. /\ Changes(run, run, run.jobs[run.current].status)
        /\ run.jobs[run.current].results = 0
        /\ produced[run.current] \in 0 .. MaxArtifacts
        /\ remote[run.current] = "done"
    BY <1>1, <1>3 DEF Changes, HistorySucceeded, RInv, CopyInvariant, LaterUntouched, Inv,
      TypeInvariant, TypeOK
  <2>2. PICK next \in {"download", "succeed"} :
           /\ next = Ingest(run)
           /\ next = "succeed" => run.jobs[run.current].results = produced[run.current]
    <3>1. CASE run.jobs[run.current].results < produced[run.current]
      BY <3>1 DEF Ingest
    <3>2. CASE ~(run.jobs[run.current].results < produced[run.current])
      BY <2>1, <3>2, MaxArtifactsAssumption DEF Ingest
    <3>3. QED
      BY <3>1, <3>2
  <2>3. Persist(run, next, "joined")
    BY <1>3, <2>2 DEF HistorySucceeded
  <2>4. QED
    BY <1>0, <1>1, <2>1, <2>2, <2>3, CopySave
<1>4. CASE HistoryFailed \/ DownloadFails \/ FailIngestion
  <2>1. Changes(run, FailedJob(run), "failed")
    BY <1>1, JobRecords
  <2>2. Persist(FailedJob(run), "joined", "joined")
    BY <1>4 DEF HistoryFailed, DownloadFails, FailIngestion
  <2>3. QED
    BY <1>0, <1>1, <2>1, <2>2, CopySave
<1>5. CASE SucceedJob
  <2>1. Changes(run, SucceededJob(run), "succeeded")
    BY <1>1, JobRecords
  <2>2. Persist(SucceededJob(run), "joined", "joined")
    BY <1>5 DEF SucceedJob
  <2>3. QED
    BY <1>0, <1>1, <2>1, <2>2, CopySave
<1>6. QED
  BY <1>2, <1>3, <1>4, <1>5

LEMMA CopyResult ==
  ASSUME RInv, Inv', StoreResult \/ RecordResult \/ ReconcileResult
  PROVE  CopyInvariant'
<1> USE DEF Resumes
<1>0. disk'.status = "absent" => disk' = NoState
  BY StillThere DEF Next, ExecutorStep, Reconciliation
<1>1. /\ pc \in {"download", "record", "unrecorded"}
      /\ run \in RunRecord /\ disk \in RunRecord /\ run.current \in Jobs /\ run.status = "running"
      /\ run.jobs[run.current].status \notin {"pending", "cancelled"}
      /\ \A j \in Jobs : j > run.current => run.jobs[j] = PristineJob
      /\ pc # "unrecorded" => disk = run
      /\ pc = "unrecorded" => disk = run \/ disk = RecordedJob(run)
      /\ remote' = remote /\ produced' = produced /\ produced[run.current] \in 0 .. MaxArtifacts
  <2>1. pc \in {"download", "record", "unrecorded"} /\ remote' = remote /\ produced' = produced
    BY DEF StoreResult, RecordResult, ReconcileResult, OnlySaves, comfy
  <2>2. QED
    BY <2>1 DEF RInv, CopyInvariant, CopyOfRecord, LaterUntouched, Settled, Inv, TypeInvariant, TypeOK,
      SubmissionInvariant, CurrentInHand, JobPlaces, Awaits
<1>2. CASE StoreResult
  <2>1. pc' \in {"record", "failjob"} /\ run' = run /\ disk' = disk /\ pc = "download"
    BY <1>2 DEF StoreResult, Proceed
  <2>2. QED
    BY <1>0, <1>1, <2>1 DEF CopyInvariant, CopyOfRecord, LaterUntouched, AllRecorded, Settled, Returning, Raising
<1>3. CASE RecordResult
  <2> DEFINE new == RecordedJob(run)
  <2>1. /\ pc = "record" /\ remote[run.current] = "done"
        /\ run.jobs[run.current].results < produced[run.current]
        /\ run.jobs[run.current].results \in Nat
    <3>1. run.jobs[run.current] \in JobRecord
      BY <1>1, JobInRecord
    <3>2. QED
      BY <1>3, <3>1, MaxArtifactsAssumption
      DEF RecordResult, RInv, Inv, SubmissionInvariant, CurrentInHand, JobRecord
  <2>2. /\ new.status = "running" /\ new.current = run.current
        /\ \A j \in Jobs : j # run.current => new.jobs[j] = run.jobs[j]
        /\ new.jobs[run.current].status = run.jobs[run.current].status
        /\ new.jobs[run.current].results = run.jobs[run.current].results + 1
    BY <1>1, RecordedChanges
  <2>3. /\ Ingest(new) \in {"download", "succeed"}
        /\ Ingest(new) = "succeed" => new.jobs[run.current].results = produced[run.current]
    BY <1>1, <2>1, <2>2 DEF Ingest
  <2>4. \/ pc' = Ingest(new) /\ run' = new /\ disk' = new
        \/ pc' = "unrecorded" /\ run' = run /\ (disk' = disk \/ disk' = new)
    BY <1>3 DEF RecordResult, Persist, Proceed, Raise
  <2>5. \A j \in Jobs : j > run.current => new.jobs[j] = PristineJob
    BY <1>1, <2>2 DEF Jobs
  <2>6. pc = "record" => disk = run
    BY <1>1
  <2> HIDE DEF new
  <2>7. CASE pc' = Ingest(new) /\ run' = new /\ disk' = new
    BY <1>0, <1>1, <2>1, <2>2, <2>3, <2>5, <2>7
    DEF CopyInvariant, CopyOfRecord, LaterUntouched, AllRecorded, Settled, Returning, Raising
  <2>8. CASE pc' = "unrecorded" /\ run' = run /\ (disk' = disk \/ disk' = new)
    BY <1>0, <1>1, <2>1, <2>6, <2>8
    DEF CopyInvariant, CopyOfRecord, LaterUntouched, AllRecorded, Settled, Returning, Raising, new
  <2>9. QED
    BY <2>4, <2>7, <2>8
<1>4. CASE ReconcileResult
  <2>1. /\ pc = "unrecorded" /\ pc' = "failjob" /\ disk' = disk /\ exit' = "none"
        /\ IF disk.jobs[run.current].results > Job.results THEN run' = disk ELSE run' = run
    BY <1>4 DEF ReconcileResult, Proceed
  <2>2. run.jobs[run.current].results \in Nat
    BY <1>1, JobInRecord, MaxArtifactsAssumption DEF JobRecord
  <2>3. run' = disk
    BY <1>1, <2>1, <2>2, RecordedChanges DEF Job
  <2>4. /\ run'.current = run.current /\ run'.status = "running"
        /\ run'.jobs[run.current].status \notin {"pending", "cancelled"}
        /\ \A j \in Jobs : j > run.current => run'.jobs[j] = PristineJob
    BY <1>1, <2>1, <2>3, RecordedChanges, NumJobsAssumption DEF Jobs
  <2>5. QED
    BY <1>0, <2>1, <2>3, <2>4
    DEF CopyInvariant, CopyOfRecord, LaterUntouched, AllRecorded, Settled, Returning, Raising
<1>5. QED
  BY <1>2, <1>3, <1>4

LEMMA CopyReconciliation ==
  ASSUME RInv, Inv', Reconciliation
  PROVE  CopyInvariant'
<1> USE DEF CopyInvariant, CopyOfRecord, LaterUntouched, AllRecorded, Settled, Returning, Raising
<1>0. disk'.status = "absent" => disk' = NoState
  BY StillThere DEF Next, ExecutorStep
<1>1. CopyInvariant
  BY DEF RInv
<1>2. CASE Join \/ ObservationEnds
  BY <1>0, <1>1, <1>2 DEF Join, ObservationEnds, Resumes, storage, comfy, control, Ahead, OpenJob
<1>3. CASE StreamCloses
  BY <1>0, <1>1, <1>3 DEF StreamCloses, Resumes, storage, comfy, control, Ahead, OpenJob
<1>4. CASE HandleStreamError
  <2>1. /\ pc = "handler" /\ flags' = flags /\ run \in RunRecord /\ run.current \in Jobs
        /\ run.status = "running"
        /\ \A j \in Jobs : j > run.current => run.jobs[j] = PristineJob
    BY <1>1, <1>4 DEF HandleStreamError, OnlySaves, control, RInv, Inv, TypeInvariant, TypeOK,
      SubmissionInvariant, CurrentInHand, JobPlaces
  <2>2. CASE Job.status = "preparing" /\ StopOrFail(run)
    BY <1>0, <2>1, <2>2, CopyStopOrFail DEF Job
  <2>3. CASE Persist(UnknownJob(run), "after", "escape")
    <3>1. Changes(run, UnknownJob(run), "submission_unknown")
      BY <2>1, JobRecords
    <3>2. \/ pc' = "idle"
          \/ pc' = "after" /\ disk' = UnknownJob(run) /\ run' = disk' /\ exit' = "none"
      BY <2>3 DEF Persist, Proceed, Raise
    <3>3. CASE pc' = "idle"
      BY <1>0, <3>3
    <3>4. CASE pc' = "after" /\ disk' = UnknownJob(run) /\ run' = disk' /\ exit' = "none"
      BY <1>0, <2>1, <3>1, <3>4 DEF Changes, Jobs
    <3>5. QED
      BY <3>2, <3>3, <3>4
  <2>4. CASE Raise("escape")
    BY <1>0, <2>4 DEF Raise
  <2>5. QED
    BY <1>4, <2>2, <2>3, <2>4 DEF HandleStreamError
<1>5. QED
  BY <1>2, <1>3, <1>4, CopyIngestion, CopyResult DEF Reconciliation

LEMMA CopySurroundings ==
  ASSUME RInv, Inv', [Next]_vars, ~RunLoop, ~Submission, ~Reconciliation
  PROVE  CopyInvariant'
<1> USE DEF CopyInvariant, CopyOfRecord, LaterUntouched, AllRecorded, Settled, Returning, Raising,
            Ahead, OpenJob, storage, comfy, executor, control, budget
<1>0. disk'.status = "absent" => disk' = NoState
  BY StillThere
<1>1. CopyInvariant
  BY DEF RInv
<1> USE <1>0, <1>1
<1>2. CASE DeliverCancel
  BY <1>2 DEF DeliverCancel
<1>3. CASE Unwind
  <2>1. pc' = "idle"
    BY <1>3 DEF Unwind, Detach, Persist, Proceed, Raise
  <2>2. QED
    BY <2>1
<1>4. CASE Launch
  <2>1. disk' = NoState /\ pc' = "init" /\ run' = InitialState
    BY <1>4 DEF Launch, Startable
  <2>2. QED
    BY <2>1 DEF InitialState
<1>5. CASE RefuseStart \/ Shutdown \/ Drain
  BY <1>5 DEF RefuseStart, Shutdown, Drain
<1>6. ASSUME NEW mode \in Modes, StoreIntent(mode) \/ ExposeIntent(mode) \/ IntentFails(mode)
      PROVE  CopyInvariant'
  BY <1>6 DEF StoreIntent, ExposeIntent, IntentFails
<1>7. CASE \E seen \in SUBSET intents : AdmitStart(seen)
  BY <1>7 DEF AdmitStart
<1>8. CASE \E mode \in Modes : TakeControl(mode)
  BY <1>8 DEF TakeControl
<1>9. CASE Discard
  BY <1>9 DEF Discard
<1>10. CASE \E j \in Jobs : RemoteRuns(j)
  <2>1. PICK j \in Jobs : RemoteRuns(j)
    BY <1>10
  <2>2. pc = "succeed" => run.current # j
    BY <2>1 DEF RemoteRuns
  <2>3. pc = "succeed" => remote'[run.current] = remote[run.current]
                           /\ produced'[run.current] = produced[run.current]
    BY <2>1, <2>2 DEF RemoteRuns, RInv, Inv, TypeInvariant, TypeOK, SubmissionInvariant, CurrentInHand,
      JobPlaces
  <2>4. pc' = pc /\ run' = run /\ disk' = disk /\ exit' = exit /\ flags' = flags
    BY <2>1 DEF RemoteRuns
  <2>5. QED
    BY <2>3, <2>4
<1>11. CASE Crash
  BY <1>11 DEF Crash
<1>12. CASE UNCHANGED vars
  BY <1>12 DEF vars
<1>13. QED
  BY <1>2, <1>3, <1>4, <1>5, <1>6, <1>7, <1>8, <1>9, <1>10, <1>11, <1>12
  DEF Next, ExecutorStep, RequestStep

-----------------------------------------------------------------------------
(* The refinement.                                                         *)

LEMMA RInvStep ==
  ASSUME RInv, [Next]_vars
  PROVE  RInv'
<1>1. Inv'
  BY InvStep DEF RInv
<1>2. CopyInvariant'
  BY <1>1, CopyRunLoop, CopySubmission, CopyReconciliation, CopySurroundings
<1>3. QED
  BY <1>1, <1>2 DEF RInv

LEMMA RInvAlways == Spec => []RInv
<1>1. Init => RInv
  BY InvInit, CopyInit DEF RInv
<1>2. RInv /\ [Next]_vars => RInv'
  BY RInvStep
<1>3. QED
  BY <1>1, <1>2, PTL DEF Spec

\* The executor, with its tasks, locks, cancellations, crashes and failed
\* writes, implements the lifecycle of a Run.
THEOREM Implements == Spec => ImplementsLifecycle
<1>1. Init => Lifecycle!Init
  BY SameDefinitions DEF Init, Lifecycle!Init, NoState, InitialState, PristineJob
<1>2. RInv /\ [Next]_vars => [Lifecycle!Next]_(Lifecycle!vars)
  BY StepRefines DEF LStep
<1>3. QED
  BY <1>1, <1>2, RInvAlways, PTL DEF Spec, ImplementsLifecycle, Lifecycle!Spec

-----------------------------------------------------------------------------
(* The truth of the record.                                                *)

\* A record says no more Jobs succeeded than the executor's copy does.
Claims(s, new) == \A j \in Jobs : new.jobs[j].status = "succeeded" => s.jobs[j].status = "succeeded"

\* None of the records that the executor makes of its copy claims a success,
\* but the one of SucceedJob.
LEMMA NothingClaimed ==
  ASSUME NEW s \in RunRecord
  PROVE  /\ Claims(s, [s EXCEPT !.status = "running"])
         /\ Claims(s, [s EXCEPT !.current = @ + 1])
         /\ Claims(s, [s EXCEPT !.status = "succeeded", !.current = 0])
         /\ Claims(s, [s EXCEPT !.status = "blocked", !.diagnostic = "job"])
         /\ Claims(s, [s EXCEPT !.status = "failed", !.diagnostic = "job"])
         /\ Claims(s, StoppedRun(s))
         /\ s.current \in Jobs =>
              /\ Claims(s, PreparingJob(s)) /\ Claims(s, SubmittingJob(s)) /\ Claims(s, UnknownJob(s))
              /\ Claims(s, AcceptedJob(s)) /\ Claims(s, RejectedJob(s)) /\ Claims(s, FailedJob(s))
              /\ Claims(s, RecordedJob(s)) /\ Claims(s, DetachedRun(s))
<1>1. /\ Claims(s, [s EXCEPT !.status = "running"])
      /\ Claims(s, [s EXCEPT !.current = @ + 1])
      /\ Claims(s, [s EXCEPT !.status = "succeeded", !.current = 0])
      /\ Claims(s, [s EXCEPT !.status = "blocked", !.diagnostic = "job"])
      /\ Claims(s, [s EXCEPT !.status = "failed", !.diagnostic = "job"])
  BY DEF Claims, RunRecord
<1>2. Claims(s, StoppedRun(s))
  BY DEF Claims, RunRecord, StoppedRun, JobRecord
<1>3. ASSUME s.current \in Jobs
      PROVE  /\ Claims(s, PreparingJob(s)) /\ Claims(s, SubmittingJob(s)) /\ Claims(s, UnknownJob(s))
             /\ Claims(s, AcceptedJob(s)) /\ Claims(s, RejectedJob(s)) /\ Claims(s, FailedJob(s))
             /\ Claims(s, RecordedJob(s)) /\ Claims(s, DetachedRun(s))
  <2>1. /\ Claims(s, PreparingJob(s)) /\ Claims(s, SubmittingJob(s)) /\ Claims(s, UnknownJob(s))
        /\ Claims(s, AcceptedJob(s)) /\ Claims(s, RejectedJob(s)) /\ Claims(s, FailedJob(s))
    BY <1>3, JobRecords DEF Changes, Claims
  <2>2. Claims(s, RecordedJob(s))
    BY <1>3, RecordedChanges DEF Claims
  <2>3. CASE s.jobs[s.current].status = "submitting"
    <3>1. DetachedRun(s).jobs = UnknownJob(s).jobs
      BY <1>3, <2>3, UnknownRecord DEF DetachedRun, RunRecord
    <3>2. QED
      BY <2>1, <2>2, <3>1 DEF Claims
  <2>4. CASE s.jobs[s.current].status # "submitting"
    <3>1. DetachedRun(s).jobs = s.jobs
      BY <2>4 DEF DetachedRun, RunRecord
    <3>2. QED
      BY <2>1, <2>2, <3>1 DEF Claims
  <2>5. QED
    BY <2>3, <2>4
<1>4. QED
  BY <1>1, <1>2, <1>3

\* What a stop, or a preparation in vain, leaves on disk.
LEMMA StopSaves ==
  ASSUME NEW s, NEW next, NEW failed, StopRun(s, next, failed)
  PROVE  disk' = disk \/ disk' = StoppedRun(s) \/ disk' = DetachedRun(s)
BY PersistSaves DEF StopRun, Detach

LEMMA StopOrFailSaves ==
  ASSUME NEW s, StopOrFail(s)
  PROVE  disk' = disk \/ disk' = StoppedRun(s) \/ disk' = DetachedRun(s) \/ disk' = FailedJob(s)
BY PersistSaves, StopSaves DEF StopOrFail

\* Where the executor stands when it saves a Job, and what it saves.
LEMMA SubmissionSaves ==
  ASSUME Submission, disk' # disk
  PROVE  /\ pc \in {"prepare", "upload", "open", "admit", "posting"}
         /\ \/ disk' = PreparingJob(run) \/ disk' = SubmittingJob(run) \/ disk' = UnknownJob(run)
            \/ disk' = AcceptedJob(run) \/ disk' = RejectedJob(run) \/ disk' = FailedJob(run)
            \/ disk' = StoppedRun(run) \/ disk' = DetachedRun(run)
<1>0. disk' # disk
  OBVIOUS
<1>1. CASE PrepareJob
  BY ONLY <1>0, <1>1, PersistSaves DEF PrepareJob
<1>2. CASE InputsUploaded \/ StreamOpened \/ Post
  BY ONLY <1>0, <1>2 DEF InputsUploaded, StreamOpened, Post, storage
<1>3. CASE PreparationFails
  BY ONLY <1>0, <1>3, StopOrFailSaves DEF PreparationFails, Resumes
<1>4. CASE Admit
  BY ONLY <1>0, <1>4, PersistSaves, StopSaves DEF Admit, Resumes
<1>5. CASE Accepted
  BY ONLY <1>0, <1>5, PersistSaves DEF Accepted, Resumes
<1>6. CASE Rejected
  BY ONLY <1>0, <1>6, PersistSaves DEF Rejected, Resumes
<1>7. CASE AnswerUnknown
  BY ONLY <1>0, <1>7, PersistSaves DEF AnswerUnknown, Resumes
<1>8. QED
  BY <1>1, <1>2, <1>3, <1>4, <1>5, <1>6, <1>7 DEF Submission

LEMMA ReconciliationSaves ==
  ASSUME Reconciliation, ~SucceedJob, disk' # disk
  PROVE  /\ pc \in {"history", "download", "record", "failjob", "handler"}
         /\ \/ disk' = run \/ disk' = UnknownJob(run) \/ disk' = RecordedJob(run)
            \/ disk' = FailedJob(run) \/ disk' = StoppedRun(run) \/ disk' = DetachedRun(run)
<1>0. disk' # disk
  OBVIOUS
<1>1. CASE HistoryTimesOut \/ HistorySucceeded
  BY ONLY <1>0, <1>1, PersistSaves DEF HistoryTimesOut, HistorySucceeded, Resumes
<1>2. CASE HistoryFailed \/ DownloadFails
  BY ONLY <1>0, <1>2, PersistSaves DEF HistoryFailed, DownloadFails, Resumes
<1>3. CASE StoreResult \/ ReconcileResult
  BY ONLY <1>0, <1>3 DEF StoreResult, ReconcileResult
<1>4. CASE RecordResult
  BY ONLY <1>0, <1>4, PersistSaves DEF RecordResult
<1>5. CASE FailIngestion
  BY ONLY <1>0, <1>5, PersistSaves DEF FailIngestion
<1>6. CASE Join \/ ObservationEnds \/ StreamCloses
  BY ONLY <1>0, <1>6 DEF Join, ObservationEnds, StreamCloses, storage
<1>7. CASE HandleStreamError
  BY ONLY <1>0, <1>7, PersistSaves, StopOrFailSaves DEF HandleStreamError
<1>8. QED
  BY <1>1, <1>2, <1>3, <1>4, <1>5, <1>6, <1>7 DEF Reconciliation

\* Every other save claims what the copy or the disk claimed before.
LEMMA SavesClaim ==
  ASSUME RInv, [Next]_vars, ~SucceedJob
  PROVE  \A j \in Jobs : disk'.jobs[j].status = "succeeded" => disk.jobs[j].status = "succeeded"
<1>0. /\ run \in RunRecord /\ disk \in RunRecord
      /\ pc # "idle" => \A j \in Jobs : run.jobs[j].status = "succeeded" => disk.jobs[j].status = "succeeded"
      /\ CurrentInHand
  BY DEF RInv, Inv, TypeInvariant, TypeOK, SubmissionInvariant, PrefixDone
<1>1. CASE disk' = disk
  BY <1>1
<1>2. CASE pc # "idle" /\ Claims(run, disk')
  BY <1>0, <1>2 DEF Claims
<1>3. CASE Discard \/ Initialize
  <2>1. InitialState.jobs = [j \in Jobs |-> PristineJob]
    BY DEF InitialState
  <2>2. disk' = disk \/ disk'.jobs = InitialState.jobs
    BY <1>3, PersistSaves DEF Discard, Initialize, InitialState
  <2>3. QED
    BY <2>1, <2>2 DEF PristineJob
<1>4. CASE RunLoop /\ ~Initialize /\ disk' # disk
  <2>1. run.current = 0 => ~Detachable(run)
    BY NumJobsAssumption DEF Detachable, Jobs
  <2>2. pc # "idle"
    BY <1>4 DEF RunLoop, BeginRunning, StopBeforeJob, SelectJob, FinishRun, AfterJob
  <2>3. Claims(run, disk')
    <3>1. \/ disk' = [run EXCEPT !.status = "running"]
          \/ disk' = [run EXCEPT !.current = @ + 1]
          \/ disk' = [run EXCEPT !.status = "succeeded", !.current = 0]
          \/ disk' = [run EXCEPT !.status = "blocked", !.diagnostic = "job"]
          \/ disk' = [run EXCEPT !.status = "failed", !.diagnostic = "job"]
          \/ disk' = StoppedRun(run)
      BY <1>4, <2>1, PersistSaves
      DEF RunLoop, BeginRunning, StopBeforeJob, SelectJob, FinishRun, AfterJob, StopRun, Detach
    <3>2. QED
      BY <1>0, <3>1, NothingClaimed
  <2>4. QED
    BY <1>2, <2>2, <2>3
<1>5. CASE Submission /\ disk' # disk
  <2>1. /\ pc \in {"prepare", "upload", "open", "admit", "posting"}
        /\ \/ disk' = PreparingJob(run) \/ disk' = SubmittingJob(run) \/ disk' = UnknownJob(run)
           \/ disk' = AcceptedJob(run) \/ disk' = RejectedJob(run) \/ disk' = FailedJob(run)
           \/ disk' = StoppedRun(run) \/ disk' = DetachedRun(run)
    BY <1>5, SubmissionSaves
  <2>2. pc # "idle" /\ run.current \in Jobs
    BY ONLY <1>0, <2>1 DEF CurrentInHand, JobPlaces, Awaits
  <2>3. /\ Claims(run, PreparingJob(run)) /\ Claims(run, SubmittingJob(run)) /\ Claims(run, UnknownJob(run))
        /\ Claims(run, AcceptedJob(run)) /\ Claims(run, RejectedJob(run)) /\ Claims(run, FailedJob(run))
        /\ Claims(run, StoppedRun(run)) /\ Claims(run, DetachedRun(run))
    <3>1. run \in RunRecord /\ run.current \in Jobs
      BY <1>0, <2>2
    <3>2. QED
      BY ONLY <3>1, NothingClaimed
  <2>a. Claims(run, disk')
    BY ONLY <2>1, <2>3
  <2>4. QED
    BY <1>2, <2>2, <2>a
<1>6. CASE Reconciliation /\ disk' # disk
  <2>1. /\ pc \in {"history", "download", "record", "failjob", "handler"}
        /\ \/ disk' = run \/ disk' = UnknownJob(run) \/ disk' = RecordedJob(run)
           \/ disk' = FailedJob(run) \/ disk' = StoppedRun(run) \/ disk' = DetachedRun(run)
    BY <1>6, ReconciliationSaves
  <2>2. pc # "idle" /\ run.current \in Jobs
    BY ONLY <1>0, <2>1 DEF CurrentInHand, JobPlaces, Awaits
  <2>3. Claims(run, run)
    BY ONLY DEF Claims
  <2>4. /\ Claims(run, UnknownJob(run)) /\ Claims(run, RecordedJob(run)) /\ Claims(run, FailedJob(run))
        /\ Claims(run, StoppedRun(run)) /\ Claims(run, DetachedRun(run))
    <3>1. run \in RunRecord /\ run.current \in Jobs
      BY <1>0, <2>2
    <3>2. QED
      BY ONLY <3>1, NothingClaimed
  <2>a. Claims(run, disk')
    BY ONLY <2>1, <2>3, <2>4
  <2>5. QED
    BY <1>2, <2>2, <2>a
<1>7. CASE Unwind /\ disk' # disk
  <2>1. disk' = DetachedRun(disk) /\ disk.current \in Jobs
    BY <1>7, PersistSaves DEF Unwind, Detach, Detachable
  <2>2. /\ \A j \in Jobs : j # disk.current => disk'.jobs[j] = disk.jobs[j]
        /\ \/ disk'.jobs[disk.current].status = disk.jobs[disk.current].status
           \/ disk'.jobs[disk.current].status = "submission_unknown"
    BY <1>0, <2>1 DEF DetachedRun, UnknownJob, WithJob, RunRecord, JobRecord
  <2>3. QED
    BY <2>2
<1>8. CASE DeliverCancel \/ RequestStep
  BY <1>1, <1>8 DEF DeliverCancel, RequestStep, Launch, RefuseStart, StoreIntent, ExposeIntent,
    IntentFails, storage
<1>9. QED
  BY <1>1, <1>3, <1>4, <1>5, <1>6, <1>7, <1>8
  DEF Next, ExecutorStep, AdmitStart, TakeControl, Shutdown, Drain, RemoteRuns, Crash, storage, vars

\* What ComfyUI did with a Job that is recorded as done does not change.
LEMMA DoneStaysDone ==
  ASSUME RInv, [Next]_vars, NEW j \in Jobs, remote[j] = "done", disk.jobs[j].status = "succeeded"
  PROVE  remote'[j] = "done" /\ produced'[j] = produced[j]
<1>0. /\ remote \in [Jobs -> {"none", "queued", "done", "failed"}]
      /\ produced \in [Jobs -> 0 .. MaxArtifacts]
  BY DEF RInv, Inv, TypeInvariant, TypeOK
<1>1. CASE Post
  <2>1. j # run.current
    BY <1>1 DEF RInv, Inv, SubmissionInvariant, WriteAhead, Post
  <2>2. QED
    BY <1>0, <1>1, <2>1 DEF Post
<1>2. CASE \E i \in Jobs : RemoteRuns(i)
  BY <1>0, <1>2 DEF RemoteRuns
<1>3. CASE remote' = remote /\ produced' = produced
  BY <1>3
<1>4. QED
  <2> USE DEF OnlySaves, storage, comfy, executor, control, budget
  <2>1. RunLoop => remote' = remote /\ produced' = produced
    BY DEF RunLoop, Initialize, BeginRunning, StopBeforeJob, SelectJob, FinishRun, AfterJob
  <2>2. Submission => Post \/ (remote' = remote /\ produced' = produced)
    BY DEF Submission, PrepareJob, InputsUploaded, StreamOpened, PreparationFails, Admit,
      Accepted, Rejected, AnswerUnknown
  <2>3. Reconciliation => remote' = remote /\ produced' = produced
    BY DEF Reconciliation, HistoryTimesOut, HistoryFailed, HistorySucceeded, DownloadFails,
      StoreResult, RecordResult, ReconcileResult, FailIngestion, SucceedJob, Join,
      ObservationEnds, StreamCloses, HandleStreamError
  <2>4. DeliverCancel \/ Unwind \/ RequestStep => remote' = remote /\ produced' = produced
    BY DEF DeliverCancel, Unwind, RequestStep, Launch, RefuseStart, StoreIntent, ExposeIntent,
      IntentFails
  <2>5. QED
    BY <1>1, <1>2, <1>3, <2>1, <2>2, <2>3, <2>4
    DEF Next, ExecutorStep, AdmitStart, TakeControl, Shutdown, Drain, Discard, Crash, vars

\* A success on record is one at ComfyUI, with all that it produced.
LEMMA SuccessStep ==
  ASSUME RInv, SuccessIsComplete, [Next]_vars
  PROVE  SuccessIsComplete'
<1> SUFFICES ASSUME NEW j \in Jobs, disk'.jobs[j].status = "succeeded"
             PROVE  remote'[j] = "done" /\ disk'.jobs[j].results = produced'[j]
  BY DEF SuccessIsComplete
<1>1. /\ run \in RunRecord /\ disk \in RunRecord /\ disk' \in RunRecord
  BY TypeStep DEF RInv, Inv, TypeInvariant, TypeOK
<1>2. CASE disk.jobs[j].status = "succeeded"
  <2>1. disk'.jobs[j] = disk.jobs[j]
    <3>1. CASE disk' = disk
      BY <3>1
    <3>2. CASE CanSave(disk, disk', files) /\ disk.status # "absent"
      BY <1>1, <1>2, <3>2, CanSaveRecord DEF TerminalJob
    <3>3. CASE disk.status = "absent" \/ Discard
      BY <1>2, <3>3 DEF RInv, Inv, SubmissionInvariant, AbsentRecord, Discard, NoState, InitialState,
        PristineJob
    <3>4. QED
      BY <3>1, <3>2, <3>3, OnlyAcceptedSaves
  <2>2. QED
    BY <1>2, <2>1, DoneStaysDone DEF SuccessIsComplete
<1>3. CASE disk.jobs[j].status # "succeeded"
  <2>1. SucceedJob
    BY <1>3, SavesClaim
  <2>2. /\ pc = "succeed" /\ remote' = remote /\ produced' = produced /\ disk' = SucceededJob(run)
    BY <1>3, <2>1, PersistSaves DEF SucceedJob, OnlySaves, comfy
  <2>3. /\ disk = run /\ run.current \in Jobs
        /\ remote[run.current] = "done" /\ run.jobs[run.current].results = produced[run.current]
    BY <2>2, InHand DEF RInv, CopyInvariant, AllRecorded, Settled
  <2>4. j = run.current
    BY <1>1, <1>3, <2>2, <2>3, JobRecords DEF Changes
  <2>5. SucceededJob(run).jobs[run.current].results = run.jobs[run.current].results
    BY <1>1, <2>3, JobInRecord DEF SucceededJob, WithJob, RunRecord, JobRecord
  <2>6. QED
    BY <2>2, <2>3, <2>4, <2>5
<1>4. QED
  BY <1>2, <1>3

\* A Result on record has its file; the clean-up removes none of those.
LEMMA StoredStep ==
  ASSUME RInv, RecordedResultsStored, [Next]_vars
  PROVE  RecordedResultsStored'
<1>1. /\ run \in RunRecord /\ disk \in RunRecord /\ disk' \in RunRecord
  BY TypeStep DEF RInv, Inv, TypeInvariant, TypeOK
<1>2. \A j \in Jobs : disk.jobs[j].results \in Nat /\ disk'.jobs[j].results \in Nat
                      /\ run.jobs[j].results \in Nat
  BY <1>1, MaxArtifactsAssumption DEF RunRecord, JobRecord
<1>3. CASE StoreResult
  BY <1>3 DEF StoreResult, RecordedResultsStored
<1>4. CASE ReconcileResult
  <2>1. disk' = disk /\ run.current \in Jobs
    BY <1>4 DEF ReconcileResult, RInv, Inv, SubmissionInvariant, CurrentInHand, JobPlaces
  <2>2. CASE files' = files
    BY <2>1, <2>2 DEF RecordedResultsStored
  <2>3. CASE /\ ~(disk.jobs[run.current].results > run.jobs[run.current].results)
             /\ files' = files \ {<<run.current, run.jobs[run.current].results + 1>>}
    <3>1. \A i \in 1 .. disk.jobs[run.current].results : i # run.jobs[run.current].results + 1
      BY <1>2, <2>1, <2>3
    <3>2. \A j \in Jobs : \A i \in 1 .. disk.jobs[j].results :
            <<j, i>> # <<run.current, run.jobs[run.current].results + 1>>
      BY <3>1
    <3>3. QED
      BY <2>1, <2>3, <3>2 DEF RecordedResultsStored
  <2>4. QED
    BY <1>4, <2>2, <2>3 DEF ReconcileResult, Job
<1>5. CASE files' = files
  <2>1. CASE disk' = disk
    BY <1>5, <2>1 DEF RecordedResultsStored
  <2>2. CASE Discard
    <3>1. \A j \in Jobs : disk'.jobs[j].results = 0
      BY <2>2 DEF Discard, InitialState, PristineJob
    <3>2. QED
      BY <1>5, <3>1, 1 .. 0 = {} DEF RecordedResultsStored
  <2>3. CASE CanSave(disk, disk', files)
    <3> SUFFICES ASSUME NEW j \in Jobs, NEW i \in 1 .. disk'.jobs[j].results
                 PROVE  <<j, i>> \in files
      BY <1>5 DEF RecordedResultsStored
    <3>1. CASE i \in 1 .. disk.jobs[j].results
      BY <3>1 DEF RecordedResultsStored
    <3>2. CASE i \notin 1 .. disk.jobs[j].results
      <4>1. i \in disk.jobs[j].results + 1 .. disk'.jobs[j].results
        BY <1>2, <3>2
      <4>2. <<j, i>> \in NewResults(disk, disk')
        BY <4>1 DEF NewResults
      <4>3. QED
        BY <2>3, <4>2 DEF CanSave
    <3>3. QED
      BY <3>1, <3>2
  <2>4. QED
    BY <2>1, <2>2, <2>3, OnlyAcceptedSaves
<1>6. QED
  <2> USE DEF OnlySaves, storage, comfy, executor, control, budget
  <2>1. RunLoop \/ Submission => files' = files
    BY DEF RunLoop, Initialize, BeginRunning, StopBeforeJob, SelectJob, FinishRun, AfterJob, Submission,
      PrepareJob, InputsUploaded, StreamOpened, PreparationFails, Admit, Post, Accepted, Rejected,
      AnswerUnknown
  <2>2. Reconciliation => StoreResult \/ ReconcileResult \/ files' = files
    BY DEF Reconciliation, HistoryTimesOut, HistoryFailed, HistorySucceeded, DownloadFails,
      RecordResult, FailIngestion, SucceedJob, Join, ObservationEnds, StreamCloses, HandleStreamError
  <2>3. DeliverCancel \/ Unwind \/ RequestStep => files' = files
    BY DEF DeliverCancel, Unwind, RequestStep, Launch, RefuseStart, StoreIntent, ExposeIntent,
      IntentFails
  <2>4. QED
    BY <1>3, <1>4, <1>5, <2>1, <2>2, <2>3
    DEF Next, ExecutorStep, AdmitStart, TakeControl, Shutdown, Drain, Discard, RemoteRuns, Crash, vars

\* The record is true in every reachable state.
THEOREM RecordStaysTrue == Spec => []RecordIsTrue
<1>1. Init => RecordedResultsStored /\ SuccessIsComplete
  BY DEF Init, RecordedResultsStored, SuccessIsComplete, NoState, InitialState, PristineJob
<1>2. RInv /\ RecordedResultsStored /\ SuccessIsComplete /\ [Next]_vars
        => RecordedResultsStored' /\ SuccessIsComplete'
  BY SuccessStep, StoredStep
<1>3. TypeOK /\ RecordedResultsStored /\ SuccessIsComplete => RecordIsTrue
  BY DEF RecordIsTrue
<1>4. QED
  BY <1>1, <1>2, <1>3, RInvAlways, TypeCorrect, PTL DEF Spec

\* What a later save may not take from a Job's record.
LEMMA EvidenceStep ==
  ASSUME RInv, [Next]_vars, NEW j \in Jobs
  PROVE  /\ disk.jobs[j].prompt => disk'.jobs[j].prompt
         /\ disk.jobs[j].results <= disk'.jobs[j].results
         /\ disk.jobs[j].status \in UnresolvedJob =>
              disk'.jobs[j].status \in UnresolvedJob \union {"succeeded", "failed"}
<1>1. disk.jobs[j] \in JobRecord /\ disk'.jobs[j] \in JobRecord
  BY TypeStep DEF RInv, Inv, TypeInvariant, TypeOK, RunRecord
<1>2. disk.jobs[j].results \in Nat /\ disk'.jobs[j].results \in Nat
  BY <1>1, MaxArtifactsAssumption DEF JobRecord
<1>3. CASE disk' = disk
  BY <1>2, <1>3
<1>4. CASE CanSave(disk, disk', files) /\ disk.status # "absent"
  <2>1. ValidJobTransition(disk.jobs[j], disk'.jobs[j])
    BY <1>4 DEF CanSave, ValidTransition
  <2>2. QED
    BY <1>1, <1>2, <2>1 DEF ValidJobTransition, JobTransitions, UnresolvedJob, JobRecord, JobStatus
<1>5. CASE disk.status = "absent" \/ Discard
  <2>1. disk.jobs[j] = PristineJob
    BY <1>5 DEF RInv, CopyInvariant, CopyOfRecord, Discard, NoState, InitialState
  <2>2. QED
    BY <1>2, <2>1 DEF PristineJob, UnresolvedJob
<1>6. QED
  BY <1>3, <1>4, <1>5, OnlyAcceptedSaves

\* No step, whatever it is, takes back a prompt ID, a Result or the fact that a
\* submission is unresolved.
THEOREM EvidenceKept == Spec => EvidenceIsKept
<1>1. RInv /\ [Next]_vars =>
        [\A j \in Jobs :
           /\ disk.jobs[j].prompt => disk'.jobs[j].prompt
           /\ disk.jobs[j].results <= disk'.jobs[j].results
           /\ disk.jobs[j].status \in UnresolvedJob =>
                disk'.jobs[j].status \in UnresolvedJob \union {"succeeded", "failed"}]_vars
  BY EvidenceStep
<1>2. QED
  BY <1>1, RInvAlways, PTL DEF Spec, EvidenceIsKept
==============================================================================
