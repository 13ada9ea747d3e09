---------------------------- MODULE TaskRegistry ----------------------------
(***************************************************************************)
(* The registry of executor tasks of one API process (RunTaskRegistry) and *)
(* the requests that meet at its lock: start, discard, stop and detach of  *)
(* several Runs, the release of ended tasks, and shutdown with its drain.  *)
(*                                                                         *)
(* A request is a process with its own program counter, one step for each  *)
(* stretch between two awaits.  The lock is an asyncio.Lock: only start,   *)
(* discard and cancellation keep it across an await (owner); release,      *)
(* snapshot and clear take and leave it within one step.  File operations  *)
(* are joined even when the caller is cancelled; the insert of a           *)
(* cancellation request is a bare asyncio.to_thread, which is not.         *)
(*                                                                         *)
(* The executor is reduced to what the registry and the requests can see   *)
(* of it: its first stretch writes the record of the Run, and it ends.     *)
(* RunExecution has the rest.                                              *)
(***************************************************************************)
EXTENDS Integers, FiniteSets

CONSTANTS
  Runs,           \* published Runs
  Clients,        \* concurrent HTTP requests
  NoRequest,      \* an idle client
  CallersCancel,  \* requests may be cancelled while they wait
  MaxFaults       \* bound on cancelled callers and first stretches that fail

ASSUME CallersCancelAssumption == CallersCancel \in BOOLEAN
ASSUME MaxFaultsAssumption == MaxFaults \in Nat

VARIABLES
  disk,       \* what the record of each Run says
  intents,    \* cancellation requests stored for each Run
  orphans,    \* inserts left to a worker thread by a cancelled caller
  task,       \* state of each executor task, <<Run, number of the start>>
  cancelled,  \* live tasks whose cancel() was called
  starts,     \* tasks created for each Run
  flags,      \* modes exposed to the live task of each Run
  active,     \* _active_runs: the registered task of each Run, 0 for none
  owner,      \* client that keeps the registry's lock across an await
  releases,   \* ended tasks whose _release has not run yet
  closing,    \* _closing
  drain,      \* progress of _drain
  snapshot,   \* tasks that the drain joins
  pc,         \* where each request stands
  local,      \* what each request asks for and has read
  faults

durable   == <<disk, intents, orphans>>
executors == <<task, cancelled, starts, flags>>
registry  == <<active, owner, releases>>
lifecycle == <<closing, drain, snapshot>>
requests  == <<pc, local>>
vars == <<durable, executors, registry, lifecycle, requests, faults>>

Modes == {"stop", "detach"}
Ops == Modes \union {"start", "discard"}

\* "running" stands for every record of a Run that began and is not over, also
\* when its task has ended without an outcome.
Status == {"absent", "created", "running", "over", "discarded"}

\* Only a first stretch that failed allows another start of the same Run.
Starts == 1 .. MaxFaults + 1
Tasks == Runs \X Starts
Free == "free"

ASSUME FreeAssumption == Free \notin Clients

Request == [op : Ops, run : Runs, seen : SUBSET Modes]

ASSUME NoRequestAssumption == NoRequest \notin Request

\* Places at which a request keeps the registry's lock.
Holding == {"prepare", "launch", "abandoned", "discard", "insert", "expose"}

Alive == {t \in Tasks : task[t] \in {"new", "running"}}

TypeOK ==
  /\ disk \in [Runs -> Status]
  /\ intents \in [Runs -> SUBSET Modes]
  /\ orphans \subseteq Runs \X Modes
  /\ task \in [Tasks -> {"unborn", "new", "running", "done"}]
  /\ cancelled \subseteq Tasks
  /\ starts \in [Runs -> 0 .. MaxFaults + 1]
  /\ flags \in [Runs -> SUBSET Modes]
  /\ active \in [Runs -> 0 .. MaxFaults + 1]
  /\ owner \in Clients \union {Free}
  /\ releases \subseteq Tasks
  /\ closing \in BOOLEAN
  /\ drain \in {"none", "snapshot", "join", "clear", "done"}
  /\ snapshot \subseteq Tasks
  /\ pc \in [Clients -> Holding \union {"idle", "waiting"}]
  /\ local \in [Clients -> Request \union {NoRequest}]
  /\ faults \in 0 .. MaxFaults

Init ==
  /\ disk = [r \in Runs |-> "absent"]
  /\ intents = [r \in Runs |-> {}]
  /\ orphans = {}
  /\ task = [t \in Tasks |-> "unborn"]
  /\ cancelled = {}
  /\ starts = [r \in Runs |-> 0]
  /\ flags = [r \in Runs |-> {}]
  /\ active = [r \in Runs |-> 0]
  /\ owner = Free
  /\ releases = {}
  /\ closing = FALSE
  /\ drain = "none"
  /\ snapshot = {}
  /\ pc = [c \in Clients |-> "idle"]
  /\ local = [c \in Clients |-> NoRequest]
  /\ faults = 0

-----------------------------------------------------------------------------
(* Parts of the requests' steps.                                           *)

Goto(c, place) == pc' = [pc EXCEPT ![c] = place]

At(c, ops, place) == pc[c] = place /\ local[c].op \in ops

\* The request returns or raises.
Answer(c) ==
  /\ Goto(c, "idle")
  /\ local' = [local EXCEPT ![c] = NoRequest]

\* Seeded fault: the entry is checked under the lock, which is not kept.
TakeNothing(c, place) == Goto(c, place) /\ UNCHANGED <<owner, local>>

\* The request goes on with the lock.
Take(c, place) == owner' = c /\ Goto(c, place) /\ UNCHANGED local

\* Seeded fault: the lock stays taken.
LeaveTaken(c) == Answer(c) /\ UNCHANGED owner

Leave(c) == Answer(c) /\ owner' = Free

\* _active_runs after _remove_completed.
Pruned ==
  [r \in Runs |->
     IF active[r] # 0 /\ task[<<r, active[r]>>] = "done" THEN 0 ELSE active[r]]

-----------------------------------------------------------------------------
(* Any request.                                                            *)

\* The request has read what it needs and asks for the lock.
Ask(c, op, r, seen) ==
  /\ pc[c] = "idle"
  /\ Goto(c, "waiting")
  /\ local' = [local EXCEPT ![c] = [op |-> op, run |-> r, seen |-> seen]]
  /\ UNCHANGED <<durable, executors, registry, lifecycle, faults>>

\* The caller goes away.  A start that is being prepared is joined and then
\* given up; an insert is left behind and the lock is freed at once.  A discard
\* is joined and changes nothing by it.
CancelCaller(c) ==
  /\ CallersCancel
  /\ faults < MaxFaults
  /\ faults' = faults + 1
  /\ \/ /\ pc[c] = "waiting"
        /\ Answer(c)
        /\ UNCHANGED <<orphans, owner>>
     \/ /\ pc[c] \in {"prepare", "launch"}
        /\ Goto(c, "abandoned")
        /\ UNCHANGED <<local, orphans, owner>>
     \/ /\ pc[c] \in {"insert", "expose"}
        /\ Leave(c)
        /\ orphans' = IF pc[c] = "insert"
                      THEN orphans \union {<<local[c].run, local[c].op>>}
                      ELSE orphans
  /\ UNCHANGED <<disk, intents, executors, active, releases, lifecycle>>

-----------------------------------------------------------------------------
(* Start.                                                                  *)

\* The stored requests are read before the lock is asked for.
AskStart(c, r) == Ask(c, "start", r, intents[r])

\* Seeded faults: only the Run's own entry is looked at; _closing is not.
StartRefusedForRun(r) == closing \/ Pruned[r] # 0
StartRefusedWhenBusy(r) == \E q \in Runs : Pruned[q] # 0

\* Nobody starts while closing or while any Run is active.
StartRefused(r) == closing \/ \E q \in Runs : Pruned[q] # 0

AdmitStart(c) ==
  /\ At(c, {"start"}, "waiting")
  /\ owner = Free
  /\ active' = IF closing THEN active ELSE Pruned
  /\ IF StartRefused(local[c].run) THEN Leave(c) ELSE Take(c, "prepare")
  /\ UNCHANGED <<durable, executors, releases, lifecycle, faults>>

Startable(q) == disk[q.run] = "absent" /\ "detach" \notin q.seen

\* A worker thread inspects the storage of the Run.
Prepare(c) ==
  /\ At(c, {"start"}, "prepare")
  /\ IF Startable(local[c])
     THEN Goto(c, "launch") /\ UNCHANGED <<local, owner>>
     ELSE Leave(c)
  /\ UNCHANGED <<durable, executors, active, releases, lifecycle, faults>>

\* Creation and registration of the task in one stretch of the loop; its own
\* first stretch comes later.
Launch(c) ==
  /\ At(c, {"start"}, "launch")
  /\ LET r == local[c].run
         n == starts[r] + 1 IN
       /\ starts' = [starts EXCEPT ![r] = n]
       /\ task' = [task EXCEPT ![<<r, n>>] = "new"]
       /\ active' = [active EXCEPT ![r] = n]
       /\ flags' = [flags EXCEPT ![r] = local[c].seen]
  /\ Leave(c)
  /\ UNCHANGED <<durable, cancelled, releases, lifecycle, faults>>

\* The worker of a cancelled start is joined before the lock is left.
Abandon(c) ==
  /\ At(c, {"start"}, "abandoned")
  /\ Leave(c)
  /\ UNCHANGED <<durable, executors, active, releases, lifecycle, faults>>

-----------------------------------------------------------------------------
(* Discard.                                                                *)

AskDiscard(c, r) == Ask(c, "discard", r, {})

AdmitDiscard(c) ==
  /\ At(c, {"discard"}, "waiting")
  /\ owner = Free
  /\ active' = IF closing THEN active ELSE Pruned
  /\ IF closing \/ Pruned[local[c].run] # 0 THEN Leave(c) ELSE Take(c, "discard")
  /\ UNCHANGED <<durable, executors, releases, lifecycle, faults>>

\* The worker marks a pristine Run as cancelled, if it can write, and refuses
\* any other.
Discard(c) ==
  /\ At(c, {"discard"}, "discard")
  /\ \/ UNCHANGED disk
     \/ /\ disk[local[c].run] \in {"absent", "created"}
        /\ disk' = [disk EXCEPT ![local[c].run] = "discarded"]
  /\ Leave(c)
  /\ UNCHANGED <<intents, orphans, executors, active, releases, lifecycle, faults>>

-----------------------------------------------------------------------------
(* Stop and detach.                                                        *)

\* A stored request is acknowledged again and a Run that is over answers by
\* itself, both without the lock and without effect.
AskRequest(c, mode, r) ==
  /\ mode \notin intents[r]
  /\ disk[r] \notin {"over", "discarded"}
  /\ Ask(c, mode, r, {})

\* Only a Run with an active task takes a new request; any other is answered
\* from the durable state.
AdmitRequest(c) ==
  /\ At(c, Modes, "waiting")
  /\ owner = Free
  /\ active' = Pruned
  /\ IF Pruned[local[c].run] = 0 THEN Leave(c) ELSE Take(c, "insert")
  /\ UNCHANGED <<durable, executors, releases, lifecycle, faults>>

\* The worker thread commits the row, or SQLite refuses it.
Insert(c) ==
  /\ At(c, Modes, "insert")
  /\ \/ /\ intents' = [intents EXCEPT ![local[c].run] = @ \union {local[c].op}]
        /\ Goto(c, "expose")
        /\ UNCHANGED <<local, owner>>
     \/ Leave(c) /\ UNCHANGED intents
  /\ UNCHANGED <<disk, orphans, executors, active, releases, lifecycle, faults>>

SetFlag(t, mode) == [flags EXCEPT ![t[1]] = @ \union {mode}]

\* Back on the loop, where a new task has had its first turn meanwhile: the
\* flag, and for a detach the cancellation of the task.
Expose(c) ==
  /\ At(c, Modes, "expose")
  /\ LET t == <<local[c].run, active[local[c].run]>> IN
       /\ task[t] # "new"
       /\ IF t \in Alive
          THEN /\ flags' = SetFlag(t, local[c].op)
               /\ cancelled' = cancelled \union {u \in {t} : local[c].op = "detach"}
          ELSE UNCHANGED <<flags, cancelled>>
  /\ Leave(c)
  /\ UNCHANGED <<durable, task, starts, active, releases, lifecycle, faults>>

\* The insert of a cancelled caller goes on in its thread, without any lock.
OrphanInsert(r, mode) ==
  /\ <<r, mode>> \in orphans
  /\ orphans' = orphans \ {<<r, mode>>}
  /\ intents' = [intents EXCEPT ![r] = @ \union {mode}]
  /\ UNCHANGED <<disk, executors, registry, lifecycle, requests, faults>>

-----------------------------------------------------------------------------
(* Executor tasks.                                                         *)

\* The task is done, its control is dropped and its release is scheduled.
Ended(t) ==
  /\ task' = [task EXCEPT ![t] = "done"]
  /\ cancelled' = cancelled \ {t}
  /\ flags' = [flags EXCEPT ![t[1]] = {}]
  /\ releases' = releases \union {t}

\* The first stretch creates the record and begins the Run, unless one of the
\* two writes fails.
FirstStretch(t) ==
  /\ task[t] = "new"
  /\ t \notin cancelled
  /\ \/ /\ task' = [task EXCEPT ![t] = "running"]
        /\ disk' = [disk EXCEPT ![t[1]] = "running"]
        /\ UNCHANGED <<cancelled, flags, releases, faults>>
     \/ /\ faults < MaxFaults
        /\ faults' = faults + 1
        /\ Ended(t)
        /\ disk' \in {disk, [disk EXCEPT ![t[1]] = "created"]}
  /\ UNCHANGED <<intents, orphans, starts, active, owner, lifecycle, requests>>

\* A task cancelled before its first stretch never enters execute_run.
NeverRuns(t) ==
  /\ task[t] = "new"
  /\ t \in cancelled
  /\ Ended(t)
  /\ UNCHANGED <<durable, starts, active, owner, lifecycle, requests, faults>>

\* The task ends with an outcome, or without one when it was cancelled or
\* raised.
EndTask(t) ==
  /\ task[t] = "running"
  /\ Ended(t)
  /\ disk' \in {disk, [disk EXCEPT ![t[1]] = "over"]}
  /\ UNCHANGED <<intents, orphans, starts, active, owner, lifecycle, requests, faults>>

\* Seeded fault: the entry of the Run is removed, whichever task it names.
WithoutRun(t) == [active EXCEPT ![t[1]] = 0]

WithoutTask(t) == IF active[t[1]] = t[2] THEN [active EXCEPT ![t[1]] = 0] ELSE active

\* The completion callback's task removes the entry if it is still its own.
Release(t) ==
  /\ t \in releases
  /\ owner = Free
  /\ releases' = releases \ {t}
  /\ active' = WithoutTask(t)
  /\ UNCHANGED <<durable, executors, owner, lifecycle, requests, faults>>

-----------------------------------------------------------------------------
(* Shutdown.                                                               *)

\* Admission is closed before the lock is asked for.
Shutdown ==
  /\ ~closing
  /\ closing' = TRUE
  /\ drain' = "snapshot"
  /\ UNCHANGED <<durable, executors, registry, snapshot, requests, faults>>

\* Every registered task is joined; one that is being cancelled already is
\* not cancelled again.
Snapshot ==
  /\ drain = "snapshot"
  /\ owner = Free
  /\ snapshot' = {t \in Tasks : active[t[1]] = t[2]}
  /\ cancelled' = cancelled \union (snapshot' \intersect Alive)
  /\ drain' = "join"
  /\ UNCHANGED <<durable, task, starts, flags, registry, closing, requests, faults>>

Joined ==
  /\ drain = "join"
  /\ \A t \in snapshot : task[t] = "done"
  /\ drain' = "clear"
  /\ UNCHANGED <<durable, executors, registry, closing, snapshot, requests, faults>>

Clear ==
  /\ drain = "clear"
  /\ owner = Free
  /\ active' = [r \in Runs |-> 0]
  /\ drain' = "done"
  /\ UNCHANGED <<durable, executors, owner, releases, closing, snapshot, requests, faults>>

-----------------------------------------------------------------------------
ClientStep(c) ==
  \/ AdmitStart(c) \/ Prepare(c) \/ Launch(c) \/ Abandon(c)
  \/ AdmitDiscard(c) \/ Discard(c)
  \/ AdmitRequest(c) \/ Insert(c) \/ Expose(c)

TaskStep(t) == FirstStretch(t) \/ NeverRuns(t) \/ EndTask(t)

Next ==
  \/ \E c \in Clients : ClientStep(c) \/ CancelCaller(c)
  \/ \E c \in Clients, r \in Runs : AskStart(c, r) \/ AskDiscard(c, r)
  \/ \E c \in Clients, r \in Runs, mode \in Modes : AskRequest(c, mode, r)
  \/ \E r \in Runs, mode \in Modes : OrphanInsert(r, mode)
  \/ \E t \in Tasks : TaskStep(t) \/ Release(t)
  \/ Shutdown \/ Snapshot \/ Joined \/ Clear

Spec == Init /\ [][Next]_vars

\* File and database operations return and executors settle (RunExecution,
\* TaskEnds).  asyncio.Lock serves its waiters in the order of their arrival,
\* so whoever waits for it gets it: strong fairness.  Nothing is asked of
\* Release: whoever takes the lock prunes the entry of an ended task.
FairSpec ==
  /\ Spec
  /\ \A c \in Clients : SF_vars(ClientStep(c))
  /\ \A t \in Tasks : WF_vars(TaskStep(t))
  /\ SF_vars(Snapshot) /\ WF_vars(Joined) /\ SF_vars(Clear)

-----------------------------------------------------------------------------
(* Safety.                                                                 *)

\* At most one executor task is alive in the process, of whichever Run.
OneTask == Cardinality(Alive) <= 1

\* A task is registered as long as it is alive, so that every request and the
\* drain can find it; no late release of an earlier task drops it.
AliveIsRegistered == \A t \in Alive : active[t[1]] = t[2]

\* The lock belongs to the one request that stands where it is held.
LockIsExclusive == \A c \in Clients : pc[c] \in Holding <=> owner = c

\* A discarded Run has no task, neither now nor from a start in progress.
DiscardedNeverRuns ==
  \A r \in Runs : disk[r] = "discarded" =>
    /\ \A t \in Alive : t[1] # r
    /\ \A c \in Clients : pc[c] = "launch" => local[c].run # r

\* After the drain nothing runs and nothing will: no start that was admitted
\* earlier slips in behind the snapshot.
DrainedIsQuiet ==
  drain \in {"clear", "done"} =>
    Alive = {} /\ \A c \in Clients : pc[c] # "launch"

\* A stored request is exposed to the first task of its Run, or the request
\* that stored it still holds the lock and is about to.  (Another start of the
\* Run, after a first write that failed, may have read the requests too early.)
StoredIsHeard ==
  \A t \in Alive : \A mode \in intents[t[1]] :
    \/ t[2] > 1
    \/ mode \in flags[t[1]]
    \/ \E c \in Clients : At(c, {mode}, "expose") /\ local[c].run = t[1]

\* Start reads the stored requests before it has the lock.  As long as nothing
\* fails and no caller goes away, that is early enough: whatever is stored for
\* a Run whose task is alive has been exposed to it, or is about to be.
UndisturbedIsHeard == faults = 0 => StoredIsHeard

-----------------------------------------------------------------------------
(* What makes the properties above inductive.                              *)

\* Each request stands where its operation can take it.
RequestInHand ==
  \A c \in Clients :
    /\ pc[c] # "idle" => local[c] \in Request
    /\ pc[c] \in {"insert", "expose"} => local[c].op \in Modes

\* A start in progress has seen an empty table, and it sees an empty storage;
\* it was admitted before the drain took its snapshot.
StartInHand ==
  \A c \in Clients :
    /\ pc[c] \in {"prepare", "launch", "abandoned"} => \A r \in Runs : active[r] = 0
    /\ pc[c] \in {"prepare", "launch"} => drain \in {"none", "snapshot"}
    /\ pc[c] = "launch" => disk[local[c].run] = "absent"

DiscardInHand == \A c \in Clients : pc[c] = "discard" => active[local[c].run] = 0

OneEntry == \A r, q \in Runs : active[r] # 0 /\ active[q] # 0 => r = q

\* Tasks are numbered as they are created; a release is due to an ended one.
Numbered ==
  /\ \A t \in Tasks : t[2] > starts[t[1]] => task[t] = "unborn"
  /\ \A t \in releases : task[t] = "done"

\* Only the drain can cancel a task before its first stretch.
CancelledTasks ==
  /\ cancelled \subseteq Alive
  /\ \A t \in cancelled : task[t] = "new" => drain \in {"join", "clear", "done"}

\* A running task has written a record; a Run without one was started once more
\* than its first stretch failed.
StartsAreFaults ==
  /\ \A t \in Tasks : task[t] = "running" => disk[t[1]] # "absent"
  /\ \A r \in Runs : disk[r] = "absent" /\ drain \in {"none", "snapshot"} =>
       starts[r] <= faults + (IF \E t \in Alive : t[1] = r THEN 1 ELSE 0)

\* The drain joins what was alive when it began.
DrainJoins ==
  /\ closing <=> drain # "none"
  /\ drain = "join" => Alive \subseteq snapshot
  /\ drain \in {"clear", "done"} => Alive = {}

\* The conjunction that every step preserves.
RegistryInvariant ==
  /\ TypeOK
  /\ LockIsExclusive
  /\ AliveIsRegistered
  /\ RequestInHand
  /\ StartInHand
  /\ DiscardInHand
  /\ OneEntry
  /\ Numbered
  /\ CancelledTasks
  /\ StartsAreFaults
  /\ DrainJoins
  /\ DiscardedNeverRuns

-----------------------------------------------------------------------------
(* Liveness.                                                               *)

\* Every request is answered.
RequestsAnswered == \A c \in Clients : pc[c] # "idle" ~> pc[c] = "idle"

\* A shutdown drains every task.
ShutdownDrains == closing ~> drain = "done"

=============================================================================
