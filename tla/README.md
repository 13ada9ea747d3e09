# Batchcraft: a TLA+ model

Batchcraft compiles a Batch (prompts, images, parameters, seeds) into an
immutable *Run* of Jobs and executes the Jobs one after another on a ComfyUI
server. This directory models what is hard to test about it, from the request a
browser sends to the files a Run leaves: the exact count and order of a Batch,
what is published and what survives a failure, the execution of a Run while
requests, failures and crashes interleave, the libraries in SQLite under racing
and repeated calls, and what the browser believes of all that. TLC checks the
modules on small instances; TLAPS proves every safety and action property of the passing
runs for every value of the constants.

Paths below are relative to `src/backend/src/batchcraft/`, unless they start
with `docs/` or `frontend/`.

## 1. Inventory of the system

| Component | State it keeps | Operations | What makes it correct |
|---|---|---|---|
| Execution record (`execution/state.py`, `execution/models.py`) | `execution.json` of a Run, the Result files under `outputs/` | initialize, load, save, persist and discard a Result | only legal changes, evidence is never taken back, a recorded Result has its file |
| Run executor (`execution/executor.py`) | one asyncio task with its own copy of the record, the event stream, the observation and reconciliation tasks | run loop, prepare, submit, reconcile, ingest, stop, detach, handle a cancelled task | a Job is submitted at most once, in order, and recorded before; every task ends |
| Cancellation control (`application/cancellation.py`, `db/cancellations.py`) | two flags and a lock per active Run, a table of requests | request, submission admission | a stored request is a barrier to submissions |
| Task registry (`application/tasks.py`) | active tasks, a lock, `_closing`, the drain task | start, discard, request cancellation, shutdown, drain, release | one task at a time, no task after shutdown, no discard of a started Run |
| Service (`application/service.py`, `_async_io.py`) | none of its own | start, cancel and discard a Run, create a Run, import, reindex, queries | early returns agree with the durable state |
| ComfyUI client (`comfyui/client.py`) | HTTP connections, the event stream | upload, submit, history, download | a submission is classified accepted, rejected or unknown, never wrongly rejected |
| Workflow preparation (`comfyui/workflow.py`) | none; a copy of the workflow per Job | Profile validation, substitution into the workflow graph, reading of a rejection | a Job is sent its own values and the base workflow's, nothing of the Job before |
| Run publication (`files/runs.py`, `files/_io.py`) | `.allocations`, `.staging`, published Run directories | reserve a number, stage, rename, load | one number per Run, a published Run is complete |
| Asset import (`files/assets.py`) | content-addressed Assets of a Project | import, load, validate | one Asset and one identity per content, with its description |
| Owner files (`files/project_owners.py`, `files/batch_owners.py`, `application/library.py`) | `project.json`, `batch.json`, the rows of the registered Projects and Batches | create, publish, adopt, undo | one owner per directory, the row and the file agree |
| History scan and projection (`files/history.py`, `db/history.py`) | the projection in SQLite | scan, validate the context, replace | the projection shows one consistent scan |
| Batch compiler (`domain/compiler.py`, `api/schemas.py`) | none | preflight, count, random seeds, expansion, validation of a stored plan | order, bound and count of the Jobs; a preview binds |
| Parameter intents (`domain/parameter_intents.py`) | none | count and materialize lists and decimal ranges | as many values as counted, inside the range |
| Libraries (`db/prompts.py`, `db/workflows.py`, `db/global_workflows.py`, `db/saved_batches.py`) | SQLite rows with versions and revisions | create, revise, archive, delete | no lost update, contiguous versions |
| HTTP API (`api/app.py`, `api/artifacts.py`, `api/security.py`) | read and body limiters | routes, admission, streaming | capacity is neither leaked nor exceeded |
| Run monitor (`frontend/src/features/run/useRunExecution.ts`) | shown execution, polling generation | poll, start, stop, detach, discard | a late answer never replaces a newer one |
| Session recovery, navigation, editor (`frontend/src/features/...`) | local storage, browser history, form state | load, save, navigate | local to one browser tab |
| Migrations and tools (`db/migrations`, `backend/tools`) | the SQLite schema | one-shot scripts | sequential |

How they interact. The service runs on one asyncio event loop. `start` creates
one executor task per process and registers it; discard, cancellation and
shutdown meet that task through the registry's lock. A cancellation request is
inserted into SQLite by a worker thread, under the registry's lock and the lock
of the Run's control, and only then exposed to the executor as a flag; a detach
also cancels the task. The executor talks to ComfyUI over HTTP and a WebSocket
and writes every step of a Job into `execution.json` by an atomic replace. A
crash loses everything but the files, SQLite and what ComfyUI was sent. The API
and the browser only read the record, the Results and the stored requests.

The hard behaviours are listed in `PROJECT.json` under `hazards`, each at its
line: requests that arrive at any await of the executor, a write that failed
after its rename, a submission whose answer is lost, a cancellation thrown at an
await that suppresses it, locks held across worker threads, limits reached while
a waiter is being cancelled, two creators of the same Run number.

## 2. Modules

Every variable and every action of a module has an entry under `map` in
`PROJECT.json` with the lines it stands for. What follows says how each module
corresponds to the code and what it leaves out.

| Module | Models | Root of its run | Proofs |
|---|---|---|---|
| `ExecutionState` | the record of a Run: transitions, validity, `save` | `MCRunExecution` | (used by the next two) |
| `RunExecution` | `execute_run` and its surroundings | `MCRunExecution` | `RunExecution_proofs` |
| `RunLifecycle` | what a Run promises: abstract specification of `RunExecution` | `MCRunExecution` | `RunExecution_proofs` |
| `TaskRegistry` | several Runs, several requests, one lock | `MCTaskRegistry` | `TaskRegistry_proofs` |
| `RunPublication` | `create_run` with racing creators and power failures | `MCRunPublication` | `RunPublication_proofs` |
| `ParameterRange`, `RangeMaterialization` | parameter intents; the loop that generates a range | `MCPlanning` | `Planning_proofs` |
| `BatchCompiler`, `Sums` | preflight, preview, compilation, validation of a plan | `MCPlanning` | `Compiler_proofs`, `PlanTexts_proofs` |
| `SavedBatchDefinition` | what a Saved Batch may hold, and its rows | `MCPlanning` | `Planning_proofs` |
| `WorkflowPreparation` | the workflow each Job is sent with | `MCPlanning` | `Planning_proofs` |
| `RunRecord` | what a Run directory says and what its reader believes | `MCPlanning` | `Planning_proofs` |
| `SavedBatch` | editors under an optimistic revision | `MCBrowser`, `MCSavedBatch` | `Browser_proofs` |
| `RunMonitor` | the monitor of the current Run in a tab | `MCBrowser` | `Browser_proofs` |
| `PromptLibrary`, `WorkflowLibrary`, `GlobalLibrary` | the libraries | `MCStores` | `Stores_proofs` |
| `HistoryProjection` | scan and replacement of the history | `MCStores`, `MCHistoryProjection` | `Stores_proofs` |
| `AssetImport`, `OwnerFiles` | Assets and owner files on disk | `MCStores` | `Stores_proofs` |
| `ReadCapacity` | admission of bodies and bulk reads | `MCStores` | `Stores_proofs` |
| `Planning`, `Browser`, `Stores` | compositions: one of several machines at a time | `MCPlanning`, `MCBrowser`, `MCStores` | `Planning_proofs`, `Browser_proofs`, `Stores_proofs` |
| `Serving` | `Planning`, and beside it the progress of `TaskRegistry` | `MCPlanning` | |

`CompilerValues`, `DefinitionValues`, `PreparationValues` and `RecordValues` hold
the inputs that the pure machines are run with: for each check of the code, values
that pass it and values that fail it, one at a time and in the pairs whose order of
checking matters. The compositions `Planning`, `Stores` and `Browser` hold several
machines that share no state. Their variable `which` says which one a behaviour
exercises; the others stay in an initial state. Nothing is gained by interleaving
them, and their states add up instead of multiplying. They are generic: they state the
assumptions and the properties for every value of the constants, the `MC` modules only
give values and symmetry, and the theorems are about the specifications `PlanningSpec`,
`StoresSpec` and `BrowserSpec`. The runs check the last two as they are. `ServingSpec`, which
`planning` checks, is `PlanningSpec` or, with everything of `PlanningSpec` at its start, the
registry with its fairness: the liveness of the registry needs neither the size nor the
symmetry of the run `registry`.

### ExecutionState

The record (`RunRecord`, `JobRecord`), the transition tables `_RUN_TRANSITIONS`
and `_JOB_TRANSITIONS`, the validity rules of one record (`ValidState`) and of a
change (`ValidTransition`), and `CanSave`, the decision of
`ExecutionStateStore.save`. No state machine: the operators are shared by the two
modules below. Timestamps, free text and HTTP evidence are left out; where a rule
reads them the comment says what stands for them. A terminal record is refused
even when "rewritten" to the same value, because in the code a second terminal
save carries another completion time.

### RunLifecycle

What a Run promises to a reader of its record: the status of the Run and of each
Job and the submissions made, with eleven actions. Jobs advance in order, a Job
is submitted once and only while recorded as `submitting`, a Run succeeds, fails,
blocks, stops or is discarded only when its Jobs justify it.

### RunExecution

`execute_run` with everything it calls, and its surroundings.

| Variable | Code |
|---|---|
| `disk` | `execution.json` (status `"absent"`: the file does not exist) |
| `files` | files under `outputs/` |
| `intents` | rows of `run_cancellation_request` for this Run |
| `sent`, `remote`, `produced` | requests `POST /prompt` issued, and what ComfyUI makes of them |
| `pc`, `run`, `exit`, `outcome` | where the executor stands, its local `state`, how the event-stream block is left, how the task ended |
| `flags` | `_requested` and `_detach_requested` of the control |
| `registry` | who holds `RunTaskRegistry._lock`: a start, a stop request or a detach request. A request holds the control's lock too (`ControlFree`) |
| `closing` | `_closing` |
| `cancelDue`, `cancelling` | `task.cancel()` was called and not delivered yet; was ever called |
| `crashes`, `faults` | the bounds on crashes and failed writes |

`pc` is an await (`Awaits`) or a point before a durable write (`Writes`). Code
between two awaits runs without another coroutine, so only `LoopFree` states let
the environment's coroutines act; the database insert and the server are not on
the loop and act at any time. Every durable write is a step of its own: `Crash`
can fall before and after each. A failed write (`Persist`) leaves the old file or,
when only the directory sync after `os.replace` failed, the new one, while the
executor keeps its old copy.

Choices worth knowing:

* The uploads of a Job's images are one await; their order carries no state.
* Saves that only add a diagnostic or the raw history status keep the record of
  the model unchanged (`HistoryTimesOut`); they still may fail or be refused.
* An await at which a cancellation is due ends with that cancellation and not with its
  result, as asyncio does. The first stretch of a task follows its creation at
  once, before any cancellation; TaskRegistry separates the two.
* `await observation` suppresses a cancellation, as the code does.
* Closing the event stream takes time and does not raise.
* A detach exposes the flag and cancels the task within one turn of the loop.
* A start keeps the registry's lock while a worker thread inspects the storage;
  shutdown may begin meanwhile. The intents it read may be older than the table
  (`AdmitStart(seen)`).
* Requests whose callers are themselves cancelled are in TaskRegistry.

### TaskRegistry

`RunTaskRegistry` and the three requests of the service that meet at its lock.
Where RunExecution has one whole executor and a lock around it, this module has
several Runs, several requests with a program counter each, and executors reduced
to what the registry sees: a first stretch that writes the record, and an end.

| Variable | Code |
|---|---|
| `disk` | what `execution.json` of each Run says, as far as start, discard and stop look at it |
| `intents`, `orphans` | rows of `run_cancellation_request`; inserts whose caller is gone |
| `task`, `starts` | executor tasks, numbered per Run |
| `cancelled`, `flags` | `task.cancelling()`, the flags of the task's control |
| `active` | `_active_runs` |
| `owner` | the request that keeps `_lock` across an await |
| `releases` | scheduled `_release` tasks |
| `closing`, `drain`, `snapshot` | `_closing`, progress of `_drain`, the tasks it joins |
| `pc`, `local` | where each request stands, what it asks for, the intents it read |
| `faults` | the bound on cancelled callers and failed first stretches |

`prepare` and `discard` run through `file_operation`, which joins its thread even
when the caller is cancelled; the insert of a request is a bare
`asyncio.to_thread`, so a cancelled caller frees the lock while the thread goes on
(`CancelCaller`, `OrphanInsert`). Looking a Run up and reading its stored requests
is one step, taken before the lock is asked for: only later steps can tell when it
happened. A request that is answered before the lock changes nothing and has no
step. A task and its first stretch are separate steps, so a drain can cancel a
task that never enters `execute_run`; an exposure cannot, because its insert gave
the loop a turn. A control is dropped with its task, so `flags` are cleared.

### RunPublication

One creator is one call of `create_run`: `Begin`, `Probe` and `Reserve` a number
below `.allocations`, `Stage`, `WriteNext` for every file, `Validate`, `Publish` by a
rename, `CleanUp` and `Release`. Creators may live in one process or several; they
meet only in the file system. Every operation may fail (`MaxFaults`), and a
`PowerLoss` ends all creators and undoes any subset of what no `fsync` has reached:
`durable`, `synced` and `allocated` say what one has reached. An `fsync` of the Batch
directory that fails after the rename is tolerated by the code, and so in the model.

An observation without a run of its own: when the reservation cannot be removed in
the `finally` clause, the exception replaces the Run that was published, although
other errors after the rename are swallowed on purpose
(`test_post_rename_error_returns_the_complete_published_run`). The answer is
`"error"` then, and `AnswersAreTrue` claims nothing of it.

### RunRecord

The facts of `run.json` and `manifest.json`, which are written more than once: as an
identity, a hash, a count, a key, a prefix, and as the snapshot that compiles to the
Jobs. `Write` and `Publish` are `create_run` as far as contents go, with the reading
back before the rename; `Edit` changes one fact, or moves the directory, mixes in a
sibling's files, and so on, behind the program's back; `LoadRun` is `load_run` and
`load_historical_run`. `RecordValues` has three consistent Runs, seven calls whose
parts disagree, and about 96 edits. `RecordAssumption` says what an edit of one fact is:
one file, or one part of the manifest, or for the Jobs any selection, repetition and
change that leaves a Job one of the two copies of its identity (its id and its prefix); a
changed identity of one of the two files that carry it; or a Run that was renamed in both,
but not in the name of its directory. TLC evaluates it over the edits of `RecordValues`; the
proof assumes nothing else of them.

Not proven by any second copy, and so not claimed: the random seeds that were
drawn, Asset metadata in historical loads, the wording of the Batch, and
`manifest.csv` after publication. Left out: linked sets, more than one variable, the
normalisation of names and descriptions, `read_run_id`.

### ParameterRange, RangeMaterialization

A decimal is its digits and its scale, as `_parse_decimal` returns it; a scalar is a
type and a value, so that `1` and `1.0` are the same number of two types. Which
decimals no `float` holds exactly is a constant. `ParameterRange` is the pure part;
`RangeMaterialization` is the loop of `_materialize_range`, one value per step, whose
count was taken before. It exists to be proved about: the result holds for all
ranges, scales and limits. `IsDecimalRange` is what `_parse_decimal` lets through.

### BatchCompiler

The same function, `_compile_batch`, runs for the preflight with stand-ins (`preflight`),
for the preview (`count`, then `draw` for random seeds), for the creation (`compile`,
`Create`, `Store`) and for the validation of a stored plan (`validate`). It counts one
dimension at a time against what is left of the budget (`CountAxis`), and only then
expands, the rightmost dimension fastest. The reference definitions it is checked
against are `ReferencePlan` (all combinations in lexicographic order) and the closed
count of Jobs and bytes. A prompt is a sequence of one-byte literals, placeholders and
malformed delimiters. `IsRequest` is the shape a request has once it is parsed: lists are
lists (also the members of a linked set, `member_keys: tuple[str, ...]` in
`domain/models.py`), and the seeds sent for a Random plan differ. Labels and warnings are
left out. The products and sums of `_compile_batch` are in `Sums`.
`CompilerValues` has 156 requests, run under two limits.

### WorkflowPreparation

A workflow maps targets (an input of a node) to scalars, connections and other
JSON. The Profile is validated, the first Job is prepared before publication, then
the executor prepares every Job from the same workflow in memory: `Upload`, `Map`,
images, parameters, and the reading of a rejection (`Report`). Checked with 4
workflows, 11 Profiles and 73 plans of up to two Jobs.

### SavedBatch

Editors in browser tabs use `create`, `update`, `archive`, `restore` and `load`; every
write is one transaction under a revision, but the detail each call answers with is
read by several `SELECT`s after it (`ReadRoot`, `ReadPrompts`, `ReadParams`), and
another editor may write between them. `link` is the revision an editor believes in,
`pointer` what a reload finds in local storage, `call` the call under way. Other
editors may delete Prompts (`DeletePrompt`).

### SavedBatchDefinition

One definition on its way into the ten child tables and back: put into the Profile's
order (`Order`), checked by itself (`Validate`), counted against the Job budget
(`Budget`), checked against the libraries (`Commit` or `Refuse`), and read back. A
`Restart` changes the budget of the server. 138 definitions, three budgets. `IsRequest` is
what every request has, whatever it asks for: the fields of the dataclasses, tuples where
they have tuples, and an intent that lists values or gives a range.

### RunMonitor

`useRunExecution.ts` with the three reads of `GET execution`. An observation takes three
steps (sample of the task, record, task again), between which the Run goes on
(`RunGoesOn`). Requests may be lost on the way there or back (`Lose`,
`Ambiguous`), and a request the tab has given up may still reach the server
(`HandleLate`). `Render` is React's render: state set by an answer and the effect that
polls are not the same moment. Further actions are the user's commands and their
answers, the listing of Results, and the change, revalidation and hydration of the
Run in view. `events` bounds the user's actions and faults (`MaxEvents`), `Patience`
is the number of failed polls, or polls of a created Run, in a row that end the polling.

Assumed: only this tab controls the Runs, and the hydration request is retried.

`MonitorIsTrue` is about what is shown at every moment: nothing of another Run, and no end
that is not there. It holds of whatever the polling, `App.tsx` and the commands read, and
whenever they apply it, but for one kind of answer. `RestsOnTruth` is about a monitor that
waits for nothing any more: it shows the status the Run has. The code keeps that with three
exceptions. The docs do not make the first two: `StopsOnNoOlderSnapshot` states what they
promise, without an exception, and is refuted by the run `older` (finding 6).

* An answer that a whole Run overtook (`Overtaken`): the task starts after the first look of
  `GET execution` and is gone before the second, and the record is read in between. It is
  shown as running, left by its task.
* A reading that is older than what it replaces. A reading of `App.tsx` that a command
  crossed turns off the polling which the command turned on. An answer of the polling that
  comes after `setPolling(false)`, and before React disposes the effect, replaces the end
  that was read meanwhile.
* A command that was given up, its answer lost, or left behind by a change of the Run in
  view, and that the server handles after all, while nothing polls (`Unawaited`). No doc
  promises that the monitor hears of it.

The model notes the first in the answer itself (`overtaken`) and the other two in
`disturbed`. Neither is for good: the next reading that is applied sets both anew (`Polled`,
`Hydrate`, `ReadAfterRefusal`), any answer to a command of the lifetime in view takes
`disturbed` back (`Settle`), and another Run begins without either.

After an ambiguous Stop and three failed polls `reconcilingStop` stays set until a
reload; no property is about it. `failures` is not set back when polling is resumed
(`useRunExecution.ts`, 119, 205 and 271), so that it has no bound, and a resumed polling
may end at its first failure.

### PromptLibrary, WorkflowLibrary, GlobalLibrary

`PromptLibrary`: every command of `db/prompts.py`, the selections of Saved Batches that
keep a version from being deleted, and `import_historical_prompt_copy`, which tries
names until one is free and looks for its own earlier copy by two reads of their own.
Such a torn look may answer 409 although the copy is its own (`docs/API.md:858-864`).

`WorkflowLibrary`: the same for Workflows and Profiles, where a Profile version is
made for one WorkflowVersion and the import of a Profile reads its target outside the
transaction that creates it. How an import classifies the setup of a Run
(`application/service.py`, 1371-1507) is not modelled: the model starts from the
result.

`GlobalLibrary`: the library shared by all Projects. Every command carries a request
id; a receipt is written in the transaction of the command and answers a
repetition (`Replay`). Copies keep receipts of their own (`ReplayCopy`). An import
looks for a receipt, reads the Run, and looks again in its transaction (`LookUp`,
`Load`, `WriteImport`). Browsing is not modelled.

### HistoryProjection

A worker takes the Project's history lock, scans Assets, the listing and each Run
(`ScanAssets`, `ListRuns`, `ScanRun`), and replaces the rows (`Replace`). The lock does
not keep the executor from writing (`Execute`), an import from adding an Asset, nor
anybody from damaging or moving directories (`DamageRun`, `LoseAsset`, `MoveRoot`).
Observed: a publication while the batches root is missing replaces the history by the
new Run alone. That is no violation of `HistoryNeverGoesBack`, which exempts Runs that
have left the root.

### AssetImport, OwnerFiles

`AssetImport`: requests in threads of their own stage an upload, look below its hash,
describe it and rename it, or answer with what they find. `Crash` stops all of them,
`Fail` and `Damage` are single failures. Observed: who finds the directory of another
importer answers before that one's `fsync`.

`OwnerFiles`: creation, adoption and `ensure_for_run` of Project and Batch directories,
with the owner file written to a temporary file, linked and read back, the undo of a
failed registration, and the row. Observed: an adopter may read an owner file that is linked but not synced; and a
directory without owner that is adopted under an identity which another one already
has (`Supplied`, which comes from the client) keeps an owner file that can never be
registered. `OwnersStayAdoptable` speaks of identities that the program drew.

### ReadCapacity

`Arrive`, `ArriveWithBody` and `ReceiveBody` pass the limit of bodies in flight, which
refuses; `Claim` takes a slot or joins the queue, which is first in, first out.
Cancellation and timeout are one action, `Interrupt`: it may hit a waiter whose slot
was granted but who has not run yet, and the `except` clause must hand the slot on.

### MC modules and values

The `MC` modules give the constants their values, and nothing else. Seeded faults stand in
the modules of the code before the definition they replace, marked as such.

## 3. Runs

| Run | Instance | What it shows |
|---|---|---|
| `faults` | 2 Jobs, 2 artifacts, 1 crash, 2 failed writes, fair (503 thousand states) | submissions, record, evidence and barrier hold; RunExecution implements RunLifecycle; tasks and requests end |
| `detach`, `shutdown` | 2 Jobs, 1 artifact, no crash, no failed write | findings 1 and 2 |
| `registry` | 2 Runs, 2 requests, 1 cancelled caller or failed first stretch, symmetric (2.5 million states) | one task, true table, discard and drain |
| `lost` | as `registry` | finding 3 |
| `publication` | 3 creators, 1 failed operation, 1 power failure, fair (1.2 million states) | numbers, completeness, answers; creators end |
| `planning` | the values modules, 2 limits; beside them the registry with 1 Run, 2 requests, 1 fault, fair (76 and 65 thousand states) | the machines between request, plan, submission and file; requests are answered, shutdown drains |
| `browser` | 2 editors, 2 Saved Batches that share a filesystem key, 2 versions, revisions up to 3; 2 Runs and 3 user actions or faults (2.4 million states) | saved Batches under racing editors; no end is shown that is not there, and the monitor rests on the truth where it is undisturbed |
| `older` | the monitor alone, 1 Run, 2 user actions or faults | finding 6 |
| `saved_batch_overwrite` | 1 Saved Batch, revisions up to 4 | finding 4 |
| `stores` | 2 clients each; see `MCStores` (694 thousand states) | libraries, history, Assets, owner files, admission |
| `history` | 2 Runs, 2 workers, 2 Asset identities | finding 5 |

Why the bounds are enough.

* *Execution.* A record has at most three kinds of Jobs, a done prefix, the current
  one and an untouched suffix; with two Jobs each pair of neighbours occurs. (An
  earlier check with three Jobs and one artifact, 588 thousand states, told nothing
  more; the theorems hold for every number.) One crash is enough because a Run is
  never resumed: any existing record makes it ineligible to start. Two failed writes
  are a failed save and a failed reaction to it. None, one and two artifacts cover the
  ingestion loop.
* *Registry.* One request holds the lock while another waits; one Run is active while
  the other is started or discarded; one fault lets a Run be started twice, which a
  late release and stale stored requests need.
* *Publication.* Two creators race for a number; the third takes what a failure of
  one of them frees, or what a power failure frees again.
* *Planning.* A range has at most 6 values, and the limits lie below, at and above the
  products; a plan needs two Jobs for one to disturb the next; decimals have up to one
  digit after the point, and steps of either sign and scale.
* *Browser.* An editor needs a revision to load, one written behind its back and one
  to save; the monitor needs three events for a command, its lost answer and a late
  effect. The monitor was checked alone with one Run and four events as well, together with
  its inductive invariant (9.4 million states). Its finding needs two events.
* *Stores.* Two requests that race, a third identity for who comes after a failure;
  four requests fill one slot and a queue of two and leave one to be refused.

Deadlock is not checked: a Run that ended, a creator that was answered, a plan that
was compiled are proper ends. Symmetry is used for invariants and, in `browser` and
`stores`, for properties `[][A]_vars` whose `A` treats all clients alike: TLC checks
them on every transition it generates, and a permutation takes a step that violates
`A` to one that does. It is not used with liveness.

Each property has a seeded fault of the code that breaks it (`mutants` in
`PROJECT.json`; the faulty operators stand before the ones they replace, marked
"Seeded fault").

### Properties of the execution (`faults`, `detach`, `shutdown`)

* `SubmittedAtMostOnce`, `SubmissionIsOnRecord`, `QueueDepthOne`: the three promises
  about submissions.
* `RecordIsTrue`: the variables have their shape, every recorded Result has its file,
  and a succeeded Job has all Results that ComfyUI produced.
* `IntentIsBarrier`: from the database insert on, before the flag is even set, nothing
  is submitted. Here no caller of a request is cancelled; with a cancelled caller it is lost
  (finding 3).
* `EvidenceIsKept`: no later write takes back a prompt ID, a Result or an unresolved
  submission, not even one made from a stale copy of the record.
* `ImplementsLifecycle`: refinement, with `status`, `jobs` and `sent` read off the record.
* `TaskEnds`, `RequestEnds`: every task ends and every lock is given back.
  `StopResolves`: a stop that was exposed leaves the Run stopped, finished, failed or
  blocked. It is not claimed of a process that shuts down or crashes, nor after a failed
  write: the record then cannot be written.
* `DetachEndsTheRun`, `ShutdownStopsSubmission`: what the docs say, refuted. The first is
  claimed of a process that is not shutting down and of no failed write: a shutdown cancels
  the task whatever it was asked, and the docs say that the Run may stay as it is
  (`docs/API.md:988`).

### Properties of the registry (`registry`, `planning`, `lost`)

* `OneTask`, `AliveIsRegistered`: one executor in the process, and the table always
  names it, however late the release of an earlier task runs.
* `DiscardedNeverRuns`: start and discard of a Run exclude each other, also when
  callers are cancelled in the middle.
* `DrainedIsQuiet`: no start admitted before the shutdown slips in behind the snapshot of
  the drain.
* `StoredIsHeard`: what is stored is exposed to the task, or its owner is about to; refuted
  in `lost`. While no caller was cancelled and no first stretch failed it holds, as the
  theorem `UndisturbedHeard` proves. A second start of a Run is exempt: its request may have
  read the stored requests before the first start failed and while a stop was being stored
  (`application/service.py:818`).
* `RequestsAnswered`, `ShutdownDrains`: liveness of the lock. `Serving` checks them beside the
  machines of `planning`, with the fairness of `TaskRegistry`.

### Properties of the other components

* `NumbersAreUnique`, `PublishedIsComplete`: one directory per Run number, and whatever
  has a published name loads, at every moment and after every power failure.
  `AnswersAreTrue`: a Run that was returned survives a power failure, and a creation that
  failed has published nothing, so that the caller may repeat it. `CreatorsEnd`.
* `RangeIsRight`: as many values as the Batch was counted with, within the limit, each
  inside the range and one of its steps, and one more step would leave it; a range that was
  counted is refused afterwards for the precision of one value alone. `BudgetIsExact`: a request is refused
  for its size exactly when it has more Jobs than allowed, although the preflight counts
  stand-ins and no stage forms the whole product, and what the preflight let through no
  later stage refuses for its size or its texts. `PlanIsExact`: the texts are as long as was
  measured, the plan is the reference plan in order, seeds are distinct, what was previewed is what is created,
  and the stored plan is accepted again.
* `StoredIsWhatWasAccepted`: a saved definition is read back as it was accepted, whatever
  its tables held before, under every later budget.
* `EveryJobPrepares`: no Job of a published Run fails to be prepared, although only the first
  one was tried. `SubmittedIsExact`: what is submitted holds this Job's values at the targets
  of the Profile and the base workflow's everywhere else, connections included.
* `RunsProveThemselves`: what is published loads as what was asked for, and an edited
  directory is refused or loads as the Run that was published, current or historical.
* `ReadsAreSound`: a torn read either fails or agrees with the table while its revision is
  current, and fails only if somebody wrote meanwhile. `LoadedLinkIsTrue`: an editor that
  loaded a Saved Batch knows the content of the revision it is linked to.
  `OverwritesOnlyWhatWasLoaded`: its save replaces nothing it has not seen.
  `SelectionsExist`: no stored selection names a deleted PromptVersion.
* `MonitorIsTrue`: what is shown is of the Run in view (`ShownIsOwn`); a Run shown as over is
  over, and its Results are all listed unless a listing is under way or failed
  (`EndsAreTrue`), but for an answer that a whole Run overtook.
  `RestsOnTruth`: when nothing is awaited any more and no error is shown, the status shown is
  the one the Run has, and no task runs unseen, with the exceptions that section 2 names.
  `StopsOnNoOlderSnapshot`: what the docs say without these exceptions, refuted in `older`.
* `LibraryIsSound`, `WorkflowsAreSound`: versions are numbered 1..n, names are unique, what is
  selected exists, a Profile version fits the WorkflowVersion it targets, and what an
  import answers with is compatible. `CommandsAreIdempotent`: a command of the shared library
  is carried out once and answered alike however often it is sent (`docs/API.md:98-103`).
* `HistoryNeverGoesBack`: a Run that was listed stays listed, at least as far as it was
  executed, unless its directory stopped loading.
* `AssetsAreOriginal`: an Asset in the root is whole and described, every importer of the
  same bytes is answered with the one record, identities differ, and no request leaves its
  staging behind unless the process crashed.
* `OwnersAgree`: a registered Project or Batch owns its directory, no request removes one
  that has an owner, and one left unregistered can be adopted (`docs/API.md:401`).
* `CapacityIsKept`: no slot and no lease is lost or given twice; nobody waits while a slot is
  free.

### Fairness

`RunExecution`: `WF(ExecutorStep)`, because every await of the executor is bounded by a
timeout of the code (HTTP timeouts, opening and closing of the stream, the history
deadline) and the loop keeps running. `WF(RequestStep)`: the insert returns and the
coroutine that waits for it is resumed. `SF(Admit)`: `asyncio.Lock` is first come first
served, so a stream of later requests cannot starve the executor. Nothing is assumed of
ComfyUI or of the users.

`TaskRegistry`: every request (`SF(ClientStep(c))`) and the two lock steps of the drain
(`SF(Snapshot)`, `SF(Clear)`) are strongly fair, again because the lock is first come first
served; tasks (`WF(TaskStep(t))`) are weakly fair, because executors settle (`TaskEnds`), and
so is the join of the drain. Nothing is assumed of `_release`: whoever takes the lock prunes
ended tasks. Nothing is assumed of arriving or cancelled callers.

`RunPublication`: `WF(CreatorStep(c))`: calls of the file system return. A creator passes over
no more numbers than others have taken, so that it is never starved. Failures are not
assumed to happen or to stay away.

### Findings

1. **A detach can leave a Run running for ever** (`detach`,
   `execution/executor.py:766`). `docs/API.md:966` says that a detach writes a
   detached `blocked` outcome for unresolved work and that stronger durable outcomes
   remain. When the cancellation is delivered while the event stream closes, the
   current Job is already succeeded or failed on disk; `_detach_run` raises, and the
   Run stays `running` with no task. In the trace ComfyUI refuses the prompt, the Job is
   saved as failed, and the detach is stored, exposed and delivered while the stream of
   that Job closes; nothing fails and nobody shuts down.
2. **A shutdown can be swallowed** (`shutdown`, `execution/executor.py:337`).
   `docs/API.md:897` says shutdown cancels the active tasks. A cancellation
   delivered at `await observation` is suppressed, and the task goes on to submit
   the next Job.
3. **The insert of a cancelled caller escapes the lock** (`lost`,
   `application/cancellation.py:42`). `docs/ARCHITECTURE.md:239` says that durable
   insertion and submission admission share one lock. A caller cancelled during
   `asyncio.to_thread` leaves the lock while the thread commits the row: the
   request is stored, no flag is set, and a repetition of it is answered from the
   row (`application/service.py:876`) without reaching the task.
4. **A save can answer with another editor's revision** (`saved_batch_overwrite`,
   `db/saved_batches.py:287`). `update` reads its answer after its commit. The editor takes
   the revision and keeps its own content, so that its next save passes the check and
   replaces what the other one wrote. `docs/API.md:549-551` says that conflicting saves
   return 409 and do not overwrite silently.
5. **One Asset can keep a whole Project out of the history** (`history`,
   `db/history.py:264`). A content that was lost and imported again has a second identity,
   `(project_id, sha256)` is unique, and the replacement of the projection is rolled back for
   every Run. `docs/V1_CROSS_INSTANCE_ACCEPTANCE.md:203` says that unrelated Runs remain
   available.
6. **Polling can stop on an older snapshot** (`older`,
   `frontend/src/features/run/useRunExecution.ts:147`). Start is not disabled while `App.tsx`
   reads the Run again, and `hydrateRun` asks only if another Run was chosen meanwhile. In the
   trace a reading made before the Start was carried out is applied after its answer and turns
   the polling off: the monitor rests on `created`, without an error, while the Run executes.
   `docs/V1_1_RELEASE_NOTES.md:73-75` says that polling cannot stop on an older nonterminal
   snapshot. TLC finds two more ways when this one is exempted. `App.tsx` reads the
   end and turns the polling off, and an older answer to the last poll is applied before React
   disposes the effect (line 190). The two looks of `GET execution` for the task miss one that
   began after the first and ended before the second, with the record read in between
   (`api/app.py:1242-1245`, against `docs/API.md:982-985`).

## 4. Proofs

Eight modules hold theorems. Each states its assumptions on the constants in the
module of the component, and TLC evaluates them in the runs. They say that bounds are
natural numbers, that sets are finite where they are counted, that model values are distinct,
and, in `PlanningAssumption`, that requests have the shape their types give them: tuples are
lists, decimals have digits and a scale, powers of ten are positive.

| Theorem | Module | Property |
|---|---|---|
| `TypeCorrect` | `RunExecution_proofs` | `TypeOK` (a part of `RecordIsTrue`) |
| `SubmitsAtMostOnce`, `SubmissionOnRecord`, `OneJobAtATime`, `CancellationIsBarrier` | `RunExecution_proofs` | `SubmittedAtMostOnce`, `SubmissionIsOnRecord`, `QueueDepthOne`, `IntentIsBarrier` |
| `Implements` | `RunExecution_proofs` | `ImplementsLifecycle` |
| `RecordStaysTrue`, `EvidenceKept` | `RunExecution_proofs` | `RecordIsTrue`, `EvidenceIsKept` |
| `OneTaskAtATime`, `AliveRegistered`, `DiscardedStaysQuiet`, `DrainQuiets`, `UndisturbedHeard` | `TaskRegistry_proofs` | `OneTask`, `AliveIsRegistered`, `DiscardedNeverRuns`, `DrainedIsQuiet`, `UndisturbedIsHeard` (in no run) |
| `NumbersUnique`, `PublishedComplete`, `AnswersTrue` | `RunPublication_proofs` | `NumbersAreUnique`, `PublishedIsComplete`, `AnswersAreTrue` |
| `RangeStaysRight`, `StoredStaysAccepted`, `EveryJobIsPrepared`, `SubmittedStaysExact`, `RunsStayProven` | `Planning_proofs` | `RangeIsRight`, `StoredIsWhatWasAccepted`, `EveryJobPrepares`, `SubmittedIsExact`, `RunsProveThemselves` |
| `BudgetStaysExact` | `Compiler_proofs` | `BudgetIsExact` |
| `SeedsStayDistinct`, `PlanStaysOrdered`, `PreviewStaysBinding`, `StoredPlanStaysExact` | `Compiler_proofs` | four of the five conjuncts of `PlanIsExact` |
| `PlanStaysExact` | `PlanTexts_proofs` | `PlanIsExact` |
| `SelectionsStayValid`, `ReadsStaySound`, `LoadedLinkStaysTrue`, `NoLostUpdate`, `MonitorStaysTrue`, `RestStaysTrue` (all in `BrowserIsTrue`) | `Browser_proofs` | `SelectionsExist`, `ReadsAreSound`, `LoadedLinkIsTrue`, `OverwritesOnlyWhatWasLoaded`, `MonitorIsTrue`, `RestsOnTruth` |
| `PromptsStaySound`, `WorkflowsStaySound`, `CommandsStayIdempotent` (all in `LibrariesAreSound`) | `Stores_proofs` | `LibraryIsSound`, `WorkflowsAreSound`, `CommandsAreIdempotent` |
| `CapacityHolds`, `AssetsStayOriginal`, `OwnersStayInAgreement`, `HistoryKeepsGoing` (all in `FilesAreSound`) | `Stores_proofs` | `CapacityIsKept`, `AssetsAreOriginal`, `OwnersAgree`, `HistoryNeverGoesBack` |

Every safety and action property of the runs that pass is proved. A theorem about one
machine of a composition is first proved for that machine's own specification and then
carried over: a step of the composition is a step of the machine or leaves its variables
alone (`MachinesBehave` and its like).

**Submissions** (`RunExecution_proofs`). None of the properties is inductive: the executor
decides from its own copy of the record, which is older than the file after a failed
write or a detach. `SubmissionInvariant` says what relates the two. `CurrentInHand` fixes
where a current Job exists and agrees with the file; `WriteAhead` says that just before a
request leaves, the file already says `submitting`; `PrefixDone` says that what the executor
takes for done is done on disk; `AbsentRecord` covers the time before the first save;
`Barrier` says that a stored request is exposed unless its owner still holds the lock. The
lemmas on `CanSave`, `Persist`, `Detach` and `StopRun` say once what a save can change, and
the step lemmas use them, one per group of actions.

**Refinement** (`RunExecution_proofs`). A reader of the record sees only the steps of
`RunLifecycle`. The first invariant does not suffice: whether a save is a legal step of the
lifecycle depends on how the copy that it was made from differs from the file it
replaces. `CopyInvariant` says it: the copy `run` equals the file (`CopyOfRecord`) except
after a save that raised, when the file is at most one save ahead (`Ahead`), because only
the directory sync failed; the exception handlers go on with the older copy. Jobs after
the current one are untouched (`LaterUntouched`), and a Job about to be called done has
all its Results (`AllRecorded`). With that every save is one of three shapes, a change of
the current Job, a stop, or a detach (`JobAdvances`, `StopCancels`, `DetachBlocks`), each of
which maps to a step of `RunLifecycle` or none. The same invariant gives the truth of the
record and that no save takes evidence back. TLC checked its conjuncts on the instance of
`faults` before they were proved.

**Registry** (`TaskRegistry_proofs`). What `RegistryInvariant` adds to the properties: a start
in progress has seen an empty table, an empty storage and no snapshot (`StartInHand`), a
discard in progress no entry of its Run (`DiscardInHand`), the table has one entry
(`OneEntry`), releases are due only to ended tasks and numbers are not reused (`Numbered`),
only the drain cancels a task before its first stretch (`CancelledTasks`), a Run without a
record was started once more than it failed (`StartsAreFaults`), and the snapshot of the
drain contains whatever is alive (`DrainJoins`). `UndisturbedIsHeard` follows from a second
invariant, `Undisturbed`: a request is stored only for a Run that was started
(`StoredForStarted`), whatever is active was started (`ActiveIsStarted`), and a Run is
started a second time only after a fault (`FirstStart`), so no later task can come
between a stored request and the task that hears it.

**Publication** (`RunPublication_proofs`). Two creators beyond the reservation hold different
numbers (`HoldersDiffer`), and what is held is reserved (`HeldIsReserved`); a power
failure that undoes a reservation ends its holder too. The number and the phase of a
creator determine what its directory contains (`OwnNumber`, `PhaseOfContent`), a published
directory was synced before its rename (`PublishedWasSynced`) and belongs to its creator
(`PublishedByItsCreator`), and the answer determines the phase (`PhaseOfAnswer`).

### Before a Batch is sent (`Planning_proofs`)

**Ranges.** `RangeInvariant` (in `RangeMaterialization`): what the loop has generated are the
first steps of the range, each of them allowed; and a range that was counted and then
refused stands before a step that is not. The rest is about integer quotients: the count is
the greatest number of steps that do not pass the end (`QuotientBounds`,
`QuotientIsGreatest`), so that the counted values end where the range does, and every
multiple of the step between its ends is one of them.

**Saved Batches.** `DefinitionInvariant`: each stage of a call has established what the next one
relies on (`CallIsChecked`), and what was accepted passed every check while the tables hold
its rows (`StoredIsKept`). That the rows give the definition back is a fact about tables:
the positions and values of a list determine it, also when lists are nested in lists
(`Positions`, `Nested`). That every parameter is bound once and in order needs the order in
which `IndependentKeys` lists what no linked set holds: the n-th member of a set of positions is
unique and grows with n. `BudgetsAgree` compares two ways of counting the same
combinations, the product before the transaction and the successive bound of the
compiler; the product is a recursive function on `0 .. Len`, and what is known of it is
shown by an induction over a bounded set of natural numbers.

**Preparation.** `PreparationInvariant` fixes what the workflow holds at each stage, as the
base workflow overlaid with the friendly values, the images and the parameters of the
current Job (`Mapped`, `Imaged`, `Ready`), and what has been checked before that stage
(`PlanIsCompiled`, `ProfileIsChecked`). Every Job is preparable because nothing that the
first preparation checks depends on the Job, except what the compiler has already checked of
all of them. That what is submitted has each value at its own target needs that targets
are distinct, which the code checks by comparing two counts (`TargetsAreDistinct`): a
cardinality argument turns them into an injection. A rejection blames base values only, as
`BlamesBase` says of the ordinals it names.

**The record of a Run.** `RecordInvariant` says little about the steps: a published directory was
read back as what was asked for (`PublishedIsRead`), and an answer is the load of the
directory as it is (`AnswerIsLoaded`). The substance is that a directory which a load
accepts has no fact left that could differ from the published one (`EditedIsPublished`).
Each part of it is fixed by another: the identity is in two files, the workflow and the
Profile have their hashes in the manifest, the prompts, slots, parameters and warnings are
those that the snapshot compiles to (`LoadedIsCompiled`), and so are the ordinals, texts,
values and fixed seeds of the Jobs (`EditedJobsAreSame`); the identity of a Job is in its prefix,
and the record of an Asset in the store. Hence an edit of one part is refused or changes
nothing that `Proven` compares. A hash is a model value of its own for each content: that
SHA-256 has no collisions is assumed.

### The compiler: its budget (`Compiler_proofs`)

A number of Jobs is a product of sizes for each prompt version and a sum over the versions.
The preflight counts stand-ins for random seeds and divides the limit by the repetitions;
the later stages count the seeds themselves and the materialized ranges; no stage forms a
product beyond what is left of its budget. `CompilerInvariant` relates them:

* The sizes are those of the request at every stage, because a range materializes to as
  many values as were counted for it (`SizesAgree`, `ValuesAreCounted`).
* The count so far is the size of the versions counted, plus a product that is a part of the
  current one (`CountIsPartial`); at the end it is the whole count, or the plan was refused
  and the whole is over the budget (`CountIsWhole`). The second half needs that a product of
  positive sizes is not less than any product of its first factors.
* `StagesAgree` says what the stages before a stage have left of the two budgets. The length of
  the texts grows with the number of seeds by exactly that factor (`TextPerSeed`), since each
  dimension repeats a text a number of times that the seeds divide (`FactorOfSum`).
* Seeds that were drawn or sent for a Random plan differ, and stay so (`SeedsDiffer`).

Products and sums are recursive functions on the positions of a list (`Sums`). What is known
of them is shown once, at the beginning of `Planning_proofs`, by inductions over `0 .. Len`,
from the least member of a set of naturals.

### The compiler: its plan (`Compiler_proofs`)

A plan is a function of the request and the seeds. The place of a Job is the number of its
configuration, among those of its prompt and after those of the prompts before, times the
number of seeds, plus the place of its seed (`IsPlan`); and the number of a configuration,
written in the sizes of the dimensions as radices, is its choices (`DigitsOf`). Both the
reference plan, a concatenation of blocks, and what the odometer has appended so far are
brought to that form (`PlanIs`, `ReferenceIs`). `PlanInvariant`:

* `ExpansionIsPartial`: what is expanded is the plan up to the configuration at which the
  odometer stands, its digits are that configuration's number, and the random seeds are used
  up to its place. A step of the odometer adds one to a number written in mixed radices; the
  carry past the leftmost digit is the step to the next prompt.
* `SeedsAreKnown`, `RequestIsChecked`: what a stage relies on, an earlier one has checked, of a
  request that differs at most in its seeds. What is checked of a range of decimals at the
  preflight still holds when the range is materialized.
* `PreviewIsKept`: a client that sends the drawn seeds of its preview back holds the plan of
  those seeds, which fits both budgets. This is why a preview binds: preflight and
  compilation of that request count the same Jobs and bytes again.
* `TextsAreResolved`: of a request whose plan is held or stored, no configuration keeps a
  placeholder, since it was expanded to its end before.
* `StoredIsJudged`: a stored plan was accepted if and only if it is the plan of its snapshot.
  It is compared configuration by configuration, and what was expanded equals it so far; that
  no other check refuses it follows from what was checked before the Run was stored.

The proof found an overlap of two arms in `ExpandConfiguration`: a configuration of a stored
plan may both hold an unresolved placeholder and differ from the stored Jobs. The code looks
for the placeholder first; the model's `CASE` did not say so, and now does.

### The compiler: its texts (`PlanTexts_proofs`)

`_compile_batch` refuses a plan for the bytes of its texts before it makes a Job. It adds up,
per prompt, the literals and each variable's values, multiplied by how many other
combinations repeat them, and per parameter its values times the repetitions of the whole
plan. `TextIsMeasured` says that this is the length of the Jobs' texts. The proof goes through
what one choice of one dimension costs (`Charges`):

* A Job is as long as the literals of its prompt and the charges of its choices
  (`BytesOfJobAre`). Of a text: every literal is a byte, and every placeholder the value of its
  variable, so a value counts as often as it is named, and once more in the Job's variables
  (`TextOfJobIs`, `VariablesOfJob`). Of the parameters: the parameters of a Job are in the
  order of the Profile and those of the dimensions in the order of the linked sets, so that
  the sums are compared by the place where each parameter gets its value
  (`BytesOfParameters`). That each gets it from one dimension needs that keys differ
  (`ParametersDiffer`) and that no linked set shares a member (`Sound`), which the stages
  before have checked.
* Over all configurations of a prompt every choice of a dimension is made equally often
  (`TotalOfCharges`), as often as the other dimensions have combinations (`PartsMultiply`);
  seeds repeat every configuration (`TotalOfParts`). What comes out is the compiler's sum, with
  its terms in another order (`CostIs`, `CostOfPlan`).
* The longest prompt that the compiler foresees takes the longest value of every variable; no
  Job exceeds it (`TextIsBounded`) and one reaches it (`LargestIsReached`), because every
  choice of values is some configuration's.

### The browser (`Browser_proofs`)

**Editors.** `BatchInvariant`: stored selections exist (`Stored`); what a call has read so far
is of a revision not newer than the row, and equal to it if the revision is (`CallIsSound`);
the same for the link of every editor that loaded (`LinkIsSound`); what a reload will look
for exists (`PointerIsSound`). Revisions only grow, and that is why the root row, read
first, settles whether the later reads can be trusted.

**Monitor.** A late answer can be of any age, so the invariant speaks of what stays true of
one. A Run only ever moves one way (`Evolves`), hence a reading that tells an end is right for
good, and any other tells nothing that a later poll does not correct (`ReadsTruly`, for the
loop, the hydration and every command). `ActsTruly` ties a command to the lifetime of the view
it was given in; `HydrationIsTrue` says what the reading of `App.tsx` may believe of an idle
Run; `EndIsTrue` and `RestIsTrue` say why the polling has stopped and that an end that is
shown is the end, with its Results listed or about to be. Steps of the server, of the
loop, of commands and of the hydration each have a lemma that says what they leave alone,
and the parts of the invariant are proved for the four kinds separately.

### The libraries (`Stores_proofs`)

**Prompts.** `PromptInvariant`: rows name what is there (`RowsAreWhole`), and the version a
restoration has read was there (`SourcesWereThere`); with that `LibraryIsSound` is inductive.
A new version takes the number after the greatest one, and the numbers up to it are
all in use because deletion takes a whole Prompt.

**Workflows.** `WorkflowInvariant`: both tables are numbered 1..n per parent under unique names
(`TablesSound`, one definition for both), every Profile version fits the WorkflowVersion it
targets (`RowFits`), and an import aims at a version that was there (`ImportIsAimed`). That the
newest compatible version exists and is one is a maximum of a finite set of naturals,
which the proof takes from the well-founded minimum.

**The shared library.** `GlobalInvariant`: the identities given out are 1..k for some k, families
are numbered, and each identity up to k was made by exactly one answer (`MadeUpTo`), the
answers being what the two tables of receipts hold.

### The files (`Stores_proofs`)

**Capacity.** Only a waiter holds a grant (`GrantedWait`); with that `CapacityIsKept` is
inductive. The lemmas on the queue (joining, being served, giving up) carry the steps.

**Assets.** `ImportInvariant`: a staged identity is neither another staged one nor in the
root (`StagedIsOwn`), so that a rename gives no content the identity of another; what a
request has got for its files so far is what the root says, and identities in the root
never change, so the answer at the end is true of files looked up at different times
(`RecordsAgree`); a request beyond its staging has a file in hand (`FileInHand`).

**Owner files.** `OwnerInvariant`: an owner lies in a directory that is there and names the owner
of its Project (`OwnersFit`), a row says what the owner file says (`RowsFit`), a request keeps
off a Batch whose Project has no owner and registers what it read (`JobsAreSound`), and an
identity that the program drew is claimed for one directory only, in a file or in a
request (`ClaimsDiffer`); identities that clients supply are exempt, and need to be.

**History.** `HistoryInvariant`: the index lags behind the Runs (`IndexIsBehind`), a scan under the
lock lies between the index and the Runs, and what was published is scanned or still to be
(`IsSoundScan`); no two requests publish the same Run (`CreatorsDiffer`). `HistoryNeverGoesBack` is
about a step, and follows from the invariant before it.

### Only model-checked

* Liveness: `TaskEnds`, `RequestEnds`, `StopResolves`, `RequestsAnswered`, `ShutdownDrains`,
  `CreatorsEnd`. Fairness and ENABLED are beyond the prover.
* The findings, each a counterexample.

The library's induction theorems take an operator as a parameter and cannot be used here.
Where an induction is needed it is made over a set of natural numbers, from its least
member (`UpToBound` in `Planning_proofs` and its like).

## 5. What is left

1. Parsing of ComfyUI's responses (`comfyui/client.py`), from which the executor's outcomes
   derive; the classification of historical setups (`application/service.py`, 1371-1507).
2. A composition of `RunPublication` with `HistoryProjection`, which now sees a publication
   as one step.

## 6. Not modelled, and why

* **Schemas, routing and queries** (`api/schemas.py` but for the conversion of a Batch request,
  `api/app.py` but for the reading of an execution, lists, filters, search): one function of
  its input each, without state.
* **Working session recovery, navigation, editor and other views** (`frontend/src/features`):
  form state, local storage and history of one tab, without concurrency of their own. The
  link and the pointer of a Saved Batch, which meet other tabs, are in `SavedBatch`.
* **Migrations and maintenance tools**: scripts run once, by hand, with nothing beside them.
* **ComfyUI's side**: seen through the outcomes that the executor tells apart (accepted,
  rejected, unknown, pending, done, failed).
* **Wording**: labels, warnings, error texts, media types, timestamps.
* **Within the modelled components**: what each section above names as left out, and the path
  checks against symbolic links and traversal.
