---------------------------- MODULE RunExecution ----------------------------
(***************************************************************************)
(* The sequential executor of one published Run: execute_run and all it    *)
(* calls, over the durable execution record, the Result files, the Run's   *)
(* cancellation control and a ComfyUI server.                              *)
(*                                                                         *)
(* The executor is one asyncio task.  pc is the place where it stands:     *)
(* either an await (Awaits), where the event loop may run other            *)
(* coroutines and a cancellation of the task may be delivered, or a point  *)
(* of a synchronous stretch just before a durable write.  Every durable    *)
(* write is a step of its own, so that a crash can fall between any two.   *)
(* Code that runs on the event loop takes steps only while LoopFree;       *)
(* worker threads (the SQLite insert of a cancellation request) and the    *)
(* remote server take steps at any time.                                   *)
(***************************************************************************)
EXTENDS ExecutionState, FiniteSets

CONSTANTS
  MaxCrashes,   \* bound on the crashes of the process
  MaxFaults     \* bound on the failed writes

ASSUME MaxCrashesAssumption == MaxCrashes \in Nat
ASSUME MaxFaultsAssumption == MaxFaults \in Nat

VARIABLES
  disk,         \* execution.json
  files,        \* Result files under outputs/, as <<ordinal, artifact>>
  intents,      \* cancellation requests stored in SQLite
  sent,         \* POST /prompt requests issued for each Job, ever
  remote,       \* what ComfyUI does with each Job
  produced,     \* artifacts ComfyUI produced for each Job
  pc,           \* where the executor stands
  run,          \* the executor's own copy of the record (its local `state`)
  exit,         \* how the event-stream block is being left
  outcome,      \* how the last executor task ended
  flags,        \* modes the in-process cancellation control exposes
  registry,     \* holder of the task registry's lock
  closing,      \* shutdown has begun
  cancelDue,    \* task.cancel() was called and not yet delivered
  cancelling,   \* task.cancel() was ever called on the current task
  crashes, faults

storage  == <<disk, files>>
comfy    == <<sent, remote, produced>>
executor == <<pc, run, exit, outcome>>
control  == <<intents, flags, registry, closing, cancelDue, cancelling>>
budget   == <<crashes, faults>>
vars     == <<storage, comfy, executor, control, budget>>

Modes == {"stop", "detach"}

Awaits ==
  {"upload", "open", "admit", "posting", "history", "download", "joined",
   "observe", "close"}

Writes ==
  {"init", "running", "next", "prepare", "post", "record", "unrecorded",
   "failjob", "succeed", "handler", "after", "unwind"}

\* The event loop can run a coroutine other than the executor.
LoopFree == pc \in Awaits \union {"idle"}

\* Seeded fault: the executor does not wait for the control's lock.
ControlIgnored == TRUE

\* A cancellation request holds the lock of the Run's cancellation control all
\* the time it holds the registry's.
ControlFree == registry \notin Modes

\* An await of the executor completes (no cancellation is on its way).
Resumes(place) == pc = place /\ ~cancelDue

TypeOK ==
  /\ disk \in RunRecord
  /\ files \subseteq Jobs \X (1 .. MaxArtifacts)
  /\ intents \subseteq Modes
  /\ sent \in [Jobs -> Nat]
  /\ remote \in [Jobs -> {"none", "queued", "done", "failed"}]
  /\ produced \in [Jobs -> 0 .. MaxArtifacts]
  /\ pc \in Awaits \union Writes \union {"idle"}
  /\ run \in RunRecord
  /\ exit \in {"none", "return", "raise", "cancelled"}
  /\ outcome \in {"none", "returned", "raised", "cancelled", "crashed"}
  /\ flags \subseteq Modes
  /\ registry \in Modes \union {"free", "start"}
  /\ closing \in BOOLEAN
  /\ cancelDue \in BOOLEAN
  /\ cancelling \in BOOLEAN
  /\ crashes \in 0 .. MaxCrashes
  /\ faults \in 0 .. MaxFaults

Init ==
  /\ disk = NoState
  /\ files = {}
  /\ intents = {}
  /\ sent = [j \in Jobs |-> 0]
  /\ remote = [j \in Jobs |-> "none"]
  /\ produced = [j \in Jobs |-> 0]
  /\ pc = "idle"
  /\ run = NoState
  /\ exit = "none"
  /\ outcome = "none"
  /\ flags = {}
  /\ registry = "free"
  /\ closing = FALSE
  /\ cancelDue = FALSE
  /\ cancelling = FALSE
  /\ crashes = 0
  /\ faults = 0

-----------------------------------------------------------------------------
(* Records the executor writes.                                            *)

Job == run.jobs[run.current]

WithJob(s, job) == [s EXCEPT !.jobs[s.current] = job]

PreparingJob(s) ==
  WithJob(s, [s.jobs[s.current] EXCEPT !.status = "preparing", !.client = TRUE])

\* Seeded fault: the submission is not written ahead.
SubmittingUnmarked(s) == s

SubmittingJob(s) == WithJob(s, [s.jobs[s.current] EXCEPT !.status = "submitting"])

UnknownJob(s) ==
  WithJob(s, [s.jobs[s.current] EXCEPT
                !.status = "submission_unknown", !.disposition = "unknown"])

AcceptedJob(s) ==
  WithJob(s, [s.jobs[s.current] EXCEPT
                !.status = "submitted", !.disposition = "accepted", !.prompt = TRUE])

RejectedJob(s) ==
  WithJob(s, [s.jobs[s.current] EXCEPT
                !.status = "failed", !.disposition = "rejected"])

FailedJob(s) == WithJob(s, [s.jobs[s.current] EXCEPT !.status = "failed"])

SucceededJob(s) == WithJob(s, [s.jobs[s.current] EXCEPT !.status = "succeeded"])

RecordedJob(s) == WithJob(s, [s.jobs[s.current] EXCEPT !.results = @ + 1])

\* Seeded fault: a Job whose preparation failed is left as it is.
StoppedPendingOnly(s) ==
  [s EXCEPT
     !.status = "cancelled", !.current = 0,
     !.diagnostic = "stopped_after_current_job",
     !.jobs = [j \in Jobs |->
                 IF s.jobs[j].status = "pending"
                 THEN [s.jobs[j] EXCEPT !.status = "cancelled"]
                 ELSE s.jobs[j]]]

\* Every Job not yet submitted is cancelled with the Run.
StoppedRun(s) ==
  [s EXCEPT
     !.status = "cancelled", !.current = 0,
     !.diagnostic = "stopped_after_current_job",
     !.jobs = [j \in Jobs |->
                 IF s.jobs[j].status \in {"pending", "preparing"}
                 THEN [s.jobs[j] EXCEPT !.status = "cancelled"]
                 ELSE s.jobs[j]]]

\* A submission in flight becomes an unknown one; later Jobs stay pending.
DetachedRun(s) ==
  LET kept == IF s.jobs[s.current].status = "submitting" THEN UnknownJob(s) ELSE s
  IN [kept EXCEPT !.status = "blocked", !.diagnostic = "detached"]

\* Detach leaves these records as they are.
DetachMoot(s) ==
  s.status \in TerminalRun \/ (s.status = "blocked" /\ s.diagnostic = "detached")

Detachable(s) ==
  /\ s.status = "running"
  /\ s.current \in Jobs
  /\ s.jobs[s.current].status \in {"preparing", "submitting"} \union UnresolvedJob

-----------------------------------------------------------------------------
(* Control flow shared by the steps.                                       *)

\* An exception: out of the task, to the end of the event-stream block, out
\* of the reconciliation task, or into the Result clean-up.
Raise(to) ==
  /\ pc' = IF to = "escape" THEN "idle" ELSE to
  /\ outcome' = IF to = "escape" THEN "raised" ELSE outcome
  /\ exit' = IF to \in {"close", "joined"} THEN "raise" ELSE "none"

Proceed(to) ==
  /\ pc' = to
  /\ outcome' = IF to = "idle" THEN "returned" ELSE outcome
  /\ exit' = IF to \in {"close", "joined"} THEN "return" ELSE "none"

\* ExecutionStateStore.save.  A failed write either left the old file or,
\* when only the directory sync failed, the new one; the caller's copy of
\* the record is the old one in both cases.
Persist(new, next, failed) ==
  \/ /\ CanSave(disk, new, files)
     /\ disk' = new
     /\ run' = new
     /\ Proceed(next)
     /\ UNCHANGED faults
  \/ /\ ~CanSave(disk, new, files)
     /\ Raise(failed)
     /\ UNCHANGED <<disk, run, faults>>
  \/ /\ faults < MaxFaults
     /\ faults' = faults + 1
     /\ CanSave(disk, new, files)
     /\ disk' \in {disk, new}
     /\ Raise(failed)
     /\ UNCHANGED run

Detach(s, next, failed) ==
  \/ /\ DetachMoot(s)
     /\ run' = s
     /\ Proceed(next)
     /\ UNCHANGED <<disk, faults>>
  \/ /\ ~DetachMoot(s)
     /\ Detachable(s)
     /\ Persist(DetachedRun(s), next, failed)
  \/ /\ ~DetachMoot(s)
     /\ ~Detachable(s)
     /\ Raise(failed)
     /\ UNCHANGED <<disk, run, faults>>

StopRun(s, next, failed) ==
  IF "detach" \in flags
  THEN Detach(s, next, failed)
  ELSE Persist(StoppedRun(s), next, failed)

\* A Job that was prepared in vain: a requested stop outranks the failure.
StopOrFail(s) ==
  IF flags # {}
  THEN StopRun(s, "after", "escape")
  ELSE Persist(FailedJob(s), "after", "escape")

\* What a step that only saves the record leaves alone.
OnlySaves == UNCHANGED <<files, comfy, control, crashes>>

-----------------------------------------------------------------------------
(* The Run loop.                                                           *)

\* A start request takes the registry's lock with the intents it read before,
\* and keeps it while a worker thread looks at the storage of the Run.
AdmitStart(seen) ==
  /\ pc = "idle"
  /\ registry = "free"
  /\ ~closing
  /\ registry' = "start"
  /\ flags' = seen
  /\ UNCHANGED <<storage, comfy, executor, intents, closing, cancelDue, cancelling, budget>>

Startable == disk.status = "absent" /\ "detach" \notin flags

\* The task is created and registered at once, even when shutdown began
\* meanwhile; its first stretch runs before anyone can cancel it.
Launch ==
  /\ registry = "start"
  /\ Startable
  /\ registry' = "free"
  /\ pc' = "init"
  /\ run' = InitialState
  /\ exit' = "none"
  /\ outcome' = "none"
  /\ cancelDue' = FALSE
  /\ cancelling' = FALSE
  /\ UNCHANGED <<storage, comfy, intents, flags, closing, budget>>

\* Seeded fault: the refusal leaves the registry locked.
RefuseStartLocked ==
  /\ registry = "start"
  /\ ~Startable
  /\ UNCHANGED vars

\* Any existing record, even "created", makes the Run ineligible.
RefuseStart ==
  /\ registry = "start"
  /\ ~Startable
  /\ registry' = "free"
  /\ UNCHANGED <<storage, comfy, executor, intents, flags, closing, cancelDue, cancelling, budget>>

Initialize ==
  /\ pc = "init"
  /\ Persist(InitialState, "running", "escape")
  /\ OnlySaves

BeginRunning ==
  /\ pc = "running"
  /\ Persist([run EXCEPT !.status = "running"], "next", "escape")
  /\ OnlySaves

\* A requested stop is seen before the next Job, never after the last one.
StopBeforeJob ==
  /\ pc = "next"
  /\ flags # {}
  /\ run.current < NumJobs
  /\ IF run.current = 0
     THEN StopRun(run, "idle", "escape")
     ELSE Persist(StoppedRun(run), "idle", "escape")
  /\ OnlySaves

SelectJob ==
  /\ pc = "next"
  /\ flags = {}
  /\ run.current < NumJobs
  /\ Persist([run EXCEPT !.current = @ + 1], "prepare", "escape")
  /\ OnlySaves

FinishRun ==
  /\ pc = "next"
  /\ run.current = NumJobs
  /\ Persist([run EXCEPT !.status = "succeeded", !.current = 0], "idle", "escape")
  /\ OnlySaves

\* Seeded fault: the Run goes on past an unresolved Job.
AfterJobContinues ==
  /\ pc = "after"
  /\ run.status # "cancelled"
  /\ Job.status \in {"succeeded"} \union UnresolvedJob
  /\ Proceed("next")
  /\ UNCHANGED <<disk, run, faults>>
  /\ OnlySaves

\* What the outcome of one Job means for the Run.
AfterJob ==
  /\ pc = "after"
  /\ \/ /\ run.status = "cancelled"
        /\ Proceed("idle")
        /\ UNCHANGED <<disk, run, faults>>
     \/ /\ run.status # "cancelled"
        /\ Job.status = "succeeded"
        /\ Proceed("next")
        /\ UNCHANGED <<disk, run, faults>>
     \/ /\ run.status # "cancelled"
        /\ Job.status \in UnresolvedJob
        /\ Persist([run EXCEPT !.status = "blocked", !.diagnostic = "job"],
                   "idle", "escape")
     \/ /\ run.status # "cancelled"
        /\ Job.status \notin {"succeeded"} \union UnresolvedJob
        /\ Persist([run EXCEPT !.status = "failed", !.diagnostic = "job"],
                   "idle", "escape")
  /\ OnlySaves

-----------------------------------------------------------------------------
(* One Job: preparation and submission.                                    *)

PrepareJob ==
  /\ pc = "prepare"
  /\ Persist(PreparingJob(run), "upload", "escape")
  /\ OnlySaves

InputsUploaded ==
  /\ Resumes("upload")
  /\ Proceed("open")
  /\ UNCHANGED <<storage, comfy, run, control, budget>>

StreamOpened ==
  /\ Resumes("open")
  /\ Proceed("admit")
  /\ UNCHANGED <<storage, comfy, run, control, budget>>

\* An upload or the workflow preparation failed, or the event stream could
\* not be opened.
PreparationFails ==
  /\ Resumes("upload") \/ Resumes("open")
  /\ StopOrFail(run)
  /\ OnlySaves

\* Under the control's lock the Job is either refused or recorded as being
\* submitted; no request can fall between the test and the record.
Admit ==
  /\ Resumes("admit")
  /\ ControlFree
  /\ IF flags # {}
     THEN StopRun(run, "close", "close")
     ELSE Persist(SubmittingJob(run), "post", "close")
  /\ OnlySaves

\* The request leaves; whether it reaches ComfyUI is not yet known.
Post ==
  /\ pc = "post"
  /\ sent' = [sent EXCEPT ![run.current] = @ + 1]
  /\ \/ remote' = [remote EXCEPT ![run.current] = "queued"]
     \/ UNCHANGED remote
  /\ Proceed("posting")
  /\ UNCHANGED <<storage, produced, run, control, budget>>

Accepted ==
  /\ Resumes("posting")
  /\ remote[run.current] # "none"
  /\ Persist(AcceptedJob(run), "history", "close")
  /\ OnlySaves

Rejected ==
  /\ Resumes("posting")
  /\ remote[run.current] = "none"
  /\ Persist(RejectedJob(run), "close", "close")
  /\ OnlySaves

\* Seeded fault: a request without a usable answer is sent again.
AnswerRetried ==
  /\ Resumes("posting")
  /\ Proceed("post")
  /\ UNCHANGED <<storage, comfy, run, control, budget>>

\* No usable answer: a transport error, a server error, a malformed body.
AnswerUnknown ==
  /\ Resumes("posting")
  /\ Persist(UnknownJob(run), "close", "close")
  /\ OnlySaves

-----------------------------------------------------------------------------
(* One Job: reconciliation with ComfyUI's history, and ingestion.          *)

Ingest(s) ==
  IF s.jobs[s.current].results < produced[s.current] THEN "download" ELSE "succeed"

\* Seeded fault: no deadline while ComfyUI still has the Job queued.
HistoryWaits ==
  /\ Resumes("history")
  /\ remote[run.current] \in {"done", "failed"}
  /\ Persist(run, "joined", "joined")
  /\ OnlySaves

\* The deadline passes while history shows nothing terminal.
HistoryTimesOut ==
  /\ Resumes("history")
  /\ Persist(run, "joined", "joined")
  /\ OnlySaves

HistoryFailed ==
  /\ Resumes("history")
  /\ remote[run.current] = "failed"
  /\ Persist(FailedJob(run), "joined", "joined")
  /\ OnlySaves

HistorySucceeded ==
  /\ Resumes("history")
  /\ remote[run.current] = "done"
  /\ Persist(run, Ingest(run), "joined")
  /\ OnlySaves

DownloadFails ==
  /\ Resumes("download")
  /\ Persist(FailedJob(run), "joined", "joined")
  /\ OnlySaves

\* persist_result: the file is in place before the record names it.
StoreResult ==
  /\ Resumes("download")
  /\ LET stored == files \union {<<run.current, Job.results + 1>>} IN
     \/ /\ files' = stored
        /\ Proceed("record")
        /\ UNCHANGED faults
     \/ /\ faults < MaxFaults
        /\ faults' = faults + 1
        /\ files' \in {files, stored}
        /\ Proceed("failjob")
  /\ UNCHANGED <<disk, comfy, run, control, crashes>>

RecordResult ==
  /\ pc = "record"
  /\ Persist(RecordedJob(run), Ingest(RecordedJob(run)), "unrecorded")
  /\ OnlySaves

\* Seeded fault: the clean-up does not look at the record on disk.
ReconcileBlindly ==
  /\ pc = "unrecorded"
  /\ files' = files \ {<<run.current, Job.results + 1>>}
  /\ Proceed("failjob")
  /\ UNCHANGED <<disk, run, comfy, control, budget>>

\* The save of a Result failed: reload, and remove the file only if the
\* record on disk does not name it.
ReconcileResult ==
  /\ pc = "unrecorded"
  /\ IF disk.jobs[run.current].results > Job.results
     THEN run' = disk /\ UNCHANGED files
     ELSE files' = files \ {<<run.current, Job.results + 1>>} /\ UNCHANGED run
  /\ Proceed("failjob")
  /\ UNCHANGED <<disk, comfy, control, budget>>

FailIngestion ==
  /\ pc = "failjob"
  /\ Persist(FailedJob(run), "joined", "joined")
  /\ OnlySaves

SucceedJob ==
  /\ pc = "succeed"
  /\ Persist(SucceededJob(run), "joined", "joined")
  /\ OnlySaves

\* The parent resumes from `await reconciliation` and cancels observation.
Join ==
  /\ Resumes("joined")
  /\ pc' = "observe"
  /\ UNCHANGED <<storage, comfy, run, exit, outcome, control, budget>>

ObservationEnds ==
  /\ Resumes("observe")
  /\ pc' = "close"
  /\ UNCHANGED <<storage, comfy, run, exit, outcome, control, budget>>

StreamCloses ==
  /\ Resumes("close")
  /\ pc' = CASE exit = "return" -> "after"
             [] exit = "raise" -> "handler"
             [] OTHER -> "unwind"
  /\ exit' = "none"
  /\ UNCHANGED <<storage, comfy, run, outcome, control, budget>>

\* except Exception around the event stream: the executor's copy of the
\* record decides.
HandleStreamError ==
  /\ pc = "handler"
  /\ \/ /\ Job.status = "preparing"
        /\ StopOrFail(run)
     \/ /\ Job.status = "submitting"
        /\ Persist(UnknownJob(run), "after", "escape")
     \/ /\ Job.status = "submitted"
        /\ Raise("escape")
        /\ UNCHANGED <<disk, run, faults>>
  /\ OnlySaves

-----------------------------------------------------------------------------
(* Cancellation of the task.                                               *)

\* CancelledError is thrown at the await where the task stands.  Inside the
\* event-stream block it still waits for the stream to close; at `await
\* observation` it is suppressed.
DeliverCancel ==
  /\ cancelDue
  /\ cancelDue' = FALSE
  /\ \/ /\ pc \in {"upload", "open", "close"}
        /\ pc' = "unwind"
        /\ exit' = "none"
     \/ /\ pc \in {"admit", "posting"}
        /\ pc' = "close"
        /\ exit' = "cancelled"
     \/ /\ pc \in {"history", "download", "joined"}
        /\ pc' = "observe"
        /\ exit' = "cancelled"
     \/ /\ pc = "observe"
        /\ pc' = "close"
        /\ UNCHANGED exit
  /\ UNCHANGED <<storage, comfy, run, outcome, intents, flags, registry,
                 closing, cancelling, budget>>

\* except CancelledError of execute_run: only a detach writes an outcome,
\* from the record on disk.
Unwind ==
  /\ pc = "unwind"
  /\ IF "detach" \in flags
     THEN Detach(disk, "idle", "escape")
     ELSE /\ pc' = "idle"
          /\ outcome' = "cancelled"
          /\ UNCHANGED <<disk, run, exit, faults>>
  /\ OnlySaves

-----------------------------------------------------------------------------
(* The executor's surroundings.                                            *)

\* A cancellation request finds the task registered and takes the registry's
\* and the control's lock.
TakeControl(mode) ==
  /\ LoopFree
  /\ pc # "idle"
  /\ registry = "free"
  /\ registry' = mode
  /\ UNCHANGED <<storage, comfy, executor, intents, flags, closing, cancelDue, cancelling, budget>>

\* A worker thread stores the request while the event loop goes on.
StoreIntent(mode) ==
  /\ registry = mode
  /\ intents' = intents \union {mode}
  /\ UNCHANGED <<storage, comfy, executor, flags, registry, closing, cancelDue, cancelling, budget>>

\* Back on the loop, the request sets the flag and leaves both locks; a detach
\* also cancels the task, unless it has ended meanwhile.
ExposeIntent(mode) ==
  LET cancels == mode = "detach" /\ pc # "idle" IN
  /\ LoopFree
  /\ registry = mode
  /\ mode \in intents
  /\ flags' = flags \union {mode}
  /\ cancelDue' = (cancelDue \/ cancels)
  /\ cancelling' = (cancelling \/ cancels)
  /\ registry' = "free"
  /\ UNCHANGED <<storage, comfy, executor, intents, closing, budget>>

\* SQLite refuses the insert: the request fails and nothing is exposed.
IntentFails(mode) ==
  /\ LoopFree
  /\ registry = mode
  /\ mode \notin intents
  /\ registry' = "free"
  /\ UNCHANGED <<storage, comfy, executor, intents, flags, closing, cancelDue, cancelling, budget>>

\* Shutdown refuses new starts from here on.
Shutdown ==
  /\ LoopFree
  /\ ~closing
  /\ closing' = TRUE
  /\ UNCHANGED <<storage, comfy, executor, intents, flags, registry, cancelDue, cancelling, budget>>

\* Once it gets the registry's lock it cancels the task found there, unless
\* that task was cancelled before.
Drain ==
  /\ LoopFree
  /\ closing
  /\ registry = "free"
  /\ pc # "idle"
  /\ ~cancelling
  /\ cancelling' = TRUE
  /\ cancelDue' = TRUE
  /\ UNCHANGED <<storage, comfy, executor, intents, flags, registry, closing, budget>>

\* Seeded fault: Discard does not ask whether the Run is pristine.
DiscardUnchecked ==
  /\ pc = "idle"
  /\ registry = "free"
  /\ ~closing
  /\ disk.status \notin TerminalRun
  /\ disk' = [InitialState EXCEPT !.status = "cancelled",
                                  !.diagnostic = "discarded_before_start"]
  /\ UNCHANGED <<files, comfy, executor, control, budget>>

\* Discard marks a Run that never started as cancelled, under the registry's
\* lock.
Discard ==
  /\ pc = "idle"
  /\ registry = "free"
  /\ ~closing
  /\ disk \in {NoState, InitialState}
  /\ disk' = [InitialState EXCEPT !.status = "cancelled",
                                  !.diagnostic = "discarded_before_start"]
  /\ UNCHANGED <<files, comfy, executor, control, budget>>

RemoteRuns(j) ==
  /\ remote[j] = "queued"
  /\ \/ /\ remote' = [remote EXCEPT ![j] = "done"]
        /\ produced' \in {[produced EXCEPT ![j] = n] : n \in 0 .. MaxArtifacts}
     \/ /\ remote' = [remote EXCEPT ![j] = "failed"]
        /\ UNCHANGED produced
  /\ UNCHANGED <<storage, sent, executor, control, budget>>

\* The process dies and is started again: files and SQLite are what is left.
Crash ==
  /\ crashes < MaxCrashes
  /\ crashes' = crashes + 1
  /\ pc' = "idle"
  /\ run' = NoState
  /\ exit' = "none"
  /\ outcome' = "crashed"
  /\ flags' = {}
  /\ registry' = "free"
  /\ closing' = FALSE
  /\ cancelDue' = FALSE
  /\ cancelling' = FALSE
  /\ UNCHANGED <<storage, comfy, intents, faults>>

-----------------------------------------------------------------------------
RunLoop ==
  \/ Initialize \/ BeginRunning \/ StopBeforeJob \/ SelectJob \/ FinishRun
  \/ AfterJob

Submission ==
  \/ PrepareJob \/ InputsUploaded \/ StreamOpened \/ PreparationFails \/ Admit
  \/ Post \/ Accepted \/ Rejected \/ AnswerUnknown

Reconciliation ==
  \/ HistoryTimesOut \/ HistoryFailed \/ HistorySucceeded \/ DownloadFails
  \/ StoreResult \/ RecordResult \/ ReconcileResult \/ FailIngestion
  \/ SucceedJob \/ Join \/ ObservationEnds \/ StreamCloses \/ HandleStreamError

\* Every step of the executor's own task.
ExecutorStep == RunLoop \/ Submission \/ Reconciliation \/ DeliverCancel \/ Unwind

\* The steps of a request that holds the registry's lock.
RequestStep ==
  \/ Launch \/ RefuseStart
  \/ \E mode \in Modes : StoreIntent(mode) \/ ExposeIntent(mode) \/ IntentFails(mode)

Next ==
  \/ ExecutorStep
  \/ RequestStep
  \/ \E seen \in SUBSET intents : AdmitStart(seen)
  \/ \E mode \in Modes : TakeControl(mode)
  \/ Shutdown \/ Drain
  \/ Discard
  \/ \E j \in Jobs : RemoteRuns(j)
  \/ Crash

Spec == Init /\ [][Next]_vars

\* Every await of the executor is bounded by a timeout (upload, connect,
\* POST, history deadline, download, close), and the loop and the database
\* keep running: the executor and a request holding a lock go on.  The
\* remote server and the users owe nothing.  The control's lock is an
\* asyncio.Lock, first come first served: an executor that waits for it gets
\* it however many requests follow.
FairSpec ==
  Spec /\ WF_vars(ExecutorStep) /\ WF_vars(RequestStep) /\ SF_vars(Admit)

-----------------------------------------------------------------------------
(* Safety.                                                                 *)

\* No Job is ever submitted to ComfyUI twice, whatever fails, crashes or is
\* requested: a submission that may have happened is never repeated.
SubmittedAtMostOnce == \A j \in Jobs : sent[j] <= 1

\* The record is written ahead of the request: once a POST may have left, no
\* record on disk says that the Job was not submitted, not after a crash, a
\* stop, a detach or a failed write either.
SubmissionIsOnRecord ==
  \A j \in Jobs :
    sent[j] > 0 => disk.jobs[j].status \notin {"pending", "preparing", "cancelled"}

\* Queue depth one: a Job is submitted only when every earlier Job is durably
\* succeeded, so at most one Job is ever open at ComfyUI.
QueueDepthOne ==
  \A j \in Jobs :
    sent[j] > 0 => \A i \in 1 .. j - 1 : disk.jobs[i].status = "succeeded"

\* A Result named by the record on disk has its file; the clean-up after a
\* failed save never removes a recorded one.
RecordedResultsStored ==
  \A j \in Jobs : \A i \in 1 .. disk.jobs[j].results : <<j, i>> \in files

\* A Job is recorded as succeeded only when ComfyUI finished it and every
\* artifact it produced is recorded.
SuccessIsComplete ==
  \A j \in Jobs :
    disk.jobs[j].status = "succeeded" =>
      remote[j] = "done" /\ disk.jobs[j].results = produced[j]

\* The record tells the truth: it is a record of this Run's Jobs, what it names
\* is stored, and what it calls a success is one at ComfyUI and is all that
\* ComfyUI produced.
RecordIsTrue == TypeOK /\ RecordedResultsStored /\ SuccessIsComplete

(* Why the submission properties hold: an inductive invariant.             *)

\* Places at which the executor has a Job in hand.
JobPlaces == Awaits \union
  {"prepare", "post", "record", "unrecorded", "failjob", "succeed", "handler", "after"}

\* Places between the acceptance of a Job and its outcome.
IngestPlaces == {"history", "download", "record", "unrecorded", "failjob", "succeed"}

CurrentInHand ==
  /\ pc \in JobPlaces =>
       \/ run.current \in Jobs
       \/ pc \in {"close", "after"} /\ exit # "raise" /\ run.status = "cancelled"
  /\ pc \in IngestPlaces => disk.current = run.current
  /\ pc \in {"download", "record"} =>
       /\ remote[run.current] = "done"
       /\ run.jobs[run.current].results < produced[run.current]

\* Before the request leaves, the record on disk still says so.
WriteAhead ==
  /\ pc \in {"upload", "open", "admit"} => disk.jobs[run.current].status = "preparing"
  /\ pc = "post" => disk.jobs[run.current].status = "submitting" /\ sent[run.current] = 0

\* What the executor takes for done is done on disk.
PrefixDone ==
  /\ pc # "idle" =>
       \A j \in Jobs : run.jobs[j].status = "succeeded" => disk.jobs[j].status = "succeeded"
  /\ pc \in JobPlaces =>
       \A i \in 1 .. run.current - 1 : disk.jobs[i].status = "succeeded"
  /\ pc \in {"running", "next"} =>
       \A i \in 1 .. run.current : disk.jobs[i].status = "succeeded"

\* Without a record there is neither a submission nor a cancellation request.
AbsentRecord ==
  disk.status = "absent" =>
    /\ pc \in {"idle", "init"}
    /\ ControlFree
    /\ intents = {}
    /\ \A j \in Jobs : disk.jobs[j].status = "pending"

\* Every stored request is exposed, or its owner still holds the lock.
Barrier ==
  /\ registry = "start" => pc = "idle" /\ flags \subseteq intents
  /\ pc # "idle" => intents \subseteq flags \union {registry}
  /\ pc = "post" => ControlFree /\ intents = {}

\* Everything above together: kept by every step, it implies the four
\* properties about submissions.
SubmissionInvariant ==
  /\ CurrentInHand
  /\ WriteAhead
  /\ PrefixDone
  /\ AbsentRecord
  /\ Barrier
  /\ SubmittedAtMostOnce
  /\ SubmissionIsOnRecord
  /\ QueueDepthOne

(* What a step may never do.                                               *)

\* A stored stop or detach request is a barrier: from the SQLite insert on,
\* before the flag is even exposed, nothing is submitted any more.
IntentIsBarrier == [][intents # {} => sent' = sent]_vars

\* Detach and stop never take back what is on record: prompt IDs, unknown
\* submissions and Results survive every later write.
EvidenceIsKept ==
  [][\A j \in Jobs :
       /\ disk.jobs[j].prompt => disk'.jobs[j].prompt
       /\ disk.jobs[j].results <= disk'.jobs[j].results
       /\ disk.jobs[j].status \in UnresolvedJob =>
            disk'.jobs[j].status \in UnresolvedJob \union {"succeeded", "failed"}]_vars

(* Liveness.                                                               *)

\* Every executor task ends.
TaskEnds == pc # "idle" ~> pc = "idle"

\* A request that took the registry's lock gives it back.
RequestEnds == registry # "free" ~> registry = "free"

\* A stop that was exposed to a running executor leaves the Run stopped,
\* finished, failed or blocked, unless the process is stopped first.
StopResolves ==
  "stop" \in flags ~>
    \/ disk.status \in TerminalRun \union {"blocked"}
    \/ cancelling
    \/ outcome = "crashed"
    \/ faults > 0

(* Refinement.                                                             *)

Lifecycle ==
  INSTANCE RunLifecycle WITH
    status <- disk.status,
    jobs <- [j \in Jobs |-> disk.jobs[j].status],
    sent <- sent

\* Seen through execution.json and the submissions made, the executor with
\* its tasks, locks, crashes and failed writes keeps the promises of
\* RunLifecycle.
ImplementsLifecycle == Lifecycle!Spec

(* What the documentation says.                                            *)

\* docs/API.md: detach "writes a detached blocked outcome for unresolved
\* work", stronger outcomes remain: the Run of a detached task that is over is
\* not left running.  A shutdown, which cancels the task whatever it was asked,
\* may leave it so (docs/API.md: "persisted nonterminal state remains
\* visible"), and so may a failed write.
DetachEndsTheRun ==
  pc = "idle" /\ "detach" \in flags /\ faults = 0 /\ ~closing => disk.status # "running"

\* docs/API.md: the registry "cancels and observes active tasks during API
\* shutdown": a task that shutdown found cancelled or cancelled itself submits
\* nothing more.
ShutdownStopsSubmission == [][closing /\ cancelling => sent' = sent]_vars

=============================================================================
