------------------------ MODULE TaskRegistry_proofs -------------------------
(***************************************************************************)
(* Proofs about TaskRegistry, for any number of Runs, requests, cancelled  *)
(* callers and failed first stretches.  The properties rest on one         *)
(* inductive invariant, RegistryInvariant; a lemma for each group of its   *)
(* conjuncts has one step for each action that can disturb them.           *)
(***************************************************************************)
EXTENDS TaskRegistry, FiniteSetTheorems, TLAPS

\* _remove_completed leaves the entries of live tasks alone.
LEMMA PrunedTable ==
  ASSUME TypeOK, AliveIsRegistered
  PROVE  /\ Pruned \in [Runs -> 0 .. MaxFaults + 1]
         /\ \A r \in Runs : Pruned[r] \in {0, active[r]}
         /\ \A t \in Alive : Pruned[t[1]] = t[2]
<1> USE MaxFaultsAssumption DEF TypeOK
<1>1. Pruned \in [Runs -> 0 .. MaxFaults + 1] /\ \A r \in Runs : Pruned[r] \in {0, active[r]}
  BY DEF Pruned
<1>2. ASSUME NEW t \in Alive PROVE Pruned[t[1]] = t[2]
  <2>1. t = <<t[1], t[2]>> /\ t[1] \in Runs /\ t \in Tasks
    BY DEF Alive, Tasks
  <2>2. active[t[1]] = t[2] /\ task[<<t[1], active[t[1]]>>] # "done"
    BY <2>1 DEF Alive, AliveIsRegistered
  <2>3. QED
    BY <2>1, <2>2 DEF Pruned
<1>3. QED
  BY <1>1, <1>2

\* The initial state.
LEMMA InitInvariant ==
  ASSUME Init
  PROVE  RegistryInvariant
<1> USE MaxFaultsAssumption, FreeAssumption DEF Init
<1>1. TypeOK /\ RequestInHand
  <2>1. TypeOK
    <3>1. disk \in [Runs -> Status] /\ task \in [Tasks -> {"unborn", "new", "running", "done"}]
      BY DEF Status
    <3>2. intents \in [Runs -> SUBSET Modes] /\ flags \in [Runs -> SUBSET Modes]
      OBVIOUS
    <3>3. starts \in [Runs -> 0 .. MaxFaults + 1] /\ active \in [Runs -> 0 .. MaxFaults + 1]
      OBVIOUS
    <3>4. /\ pc \in [Clients -> Holding \union {"idle", "waiting"}]
          /\ local \in [Clients -> Request \union {NoRequest}]
      OBVIOUS
    <3>5. faults \in 0 .. MaxFaults
      OBVIOUS
    <3>6. QED
      BY <3>1, <3>2, <3>3, <3>4, <3>5 DEF TypeOK
  <2>2. RequestInHand
    BY DEF RequestInHand
  <2>3. QED
    BY <2>1, <2>2
<1>2. Alive = {}
  BY DEF Alive
<1>3. LockIsExclusive
  BY DEF LockIsExclusive, Holding
<1>4. AliveIsRegistered /\ DrainJoins /\ CancelledTasks
  BY <1>2 DEF AliveIsRegistered, DrainJoins, CancelledTasks
<1>5. StartInHand /\ DiscardInHand /\ OneEntry /\ Numbered /\ DiscardedNeverRuns
  BY DEF StartInHand, DiscardInHand, OneEntry, Numbered, DiscardedNeverRuns
<1>6. StartsAreFaults
  BY DEF StartsAreFaults, Tasks
<1>7. QED
  BY <1>1, <1>3, <1>4, <1>5, <1>6 DEF RegistryInvariant

-----------------------------------------------------------------------------
\* The types, and what each request carries.
LEMMA TypesStep ==
  ASSUME RegistryInvariant, [Next]_vars
  PROVE  TypeOK' /\ RequestInHand'
<1>a. TypeOK /\ RequestInHand
  BY DEF RegistryInvariant
<1>b. Pruned \in [Runs -> 0 .. MaxFaults + 1]
  BY PrunedTable DEF RegistryInvariant
<1> USE MaxFaultsAssumption, NoRequestAssumption, <1>a, <1>b DEF Take, Leave, Answer, Goto, At,
  TypeOK, RequestInHand, Holding, Request, Ops, Modes, Status, durable, executors, registry,
  lifecycle, requests
<1>1. ASSUME NEW c \in Clients, NEW r \in Runs,
             \/ AskStart(c, r) \/ AskDiscard(c, r)
             \/ \E mode \in Modes : AskRequest(c, mode, r)
      PROVE  TypeOK' /\ RequestInHand'
  BY <1>1 DEF AskStart, AskDiscard, AskRequest, Ask
<1>2. ASSUME NEW c \in Clients, CancelCaller(c)
      PROVE  TypeOK' /\ RequestInHand'
  <2>1. CASE pc[c] = "waiting"
    BY <1>2, <2>1 DEF CancelCaller
  <2>2. CASE pc[c] \in {"prepare", "launch"}
    BY <1>2, <2>2 DEF CancelCaller
  <2>3. CASE pc[c] \in {"insert", "expose"}
    <3>1. local[c].op \in Modes /\ local[c].run \in Runs
      BY <2>3
    <3>2. orphans' \subseteq Runs \X Modes
      BY <1>2, <2>3, <3>1 DEF CancelCaller
    <3>3. QED
      BY <1>2, <2>3, <3>2 DEF CancelCaller
  <2>4. QED
    BY <1>2, <2>1, <2>2, <2>3 DEF CancelCaller
<1>3. ASSUME NEW c \in Clients, AdmitStart(c)
      PROVE  TypeOK' /\ RequestInHand'
  BY <1>3 DEF AdmitStart, StartRefused
<1>4. ASSUME NEW c \in Clients, Prepare(c)
      PROVE  TypeOK' /\ RequestInHand'
  BY <1>4 DEF Prepare, Startable
<1>5. ASSUME NEW c \in Clients, Launch(c)
      PROVE  TypeOK' /\ RequestInHand'
  <2>1. local[c].run \in Runs /\ local[c].seen \in SUBSET Modes
    BY <1>5 DEF Launch
  <2>2. disk[local[c].run] = "absent" /\ drain \in {"none", "snapshot"} /\ active[local[c].run] = 0
    BY <1>5, <2>1 DEF Launch, RegistryInvariant, StartInHand
  <2>3. ~ \E t \in Alive : t[1] = local[c].run
    BY <2>2 DEF RegistryInvariant, AliveIsRegistered, Alive, Tasks, Starts
  <2>4. starts[local[c].run] <= MaxFaults
    BY <2>1, <2>2, <2>3 DEF RegistryInvariant, StartsAreFaults
  <2>5. starts' \in [Runs -> 0 .. MaxFaults + 1] /\ active' \in [Runs -> 0 .. MaxFaults + 1]
    BY <1>5, <2>1, <2>4 DEF Launch
  <2>6. flags' \in [Runs -> SUBSET Modes] /\ task' \in [Tasks -> {"unborn", "new", "running", "done"}]
    BY <1>5, <2>1 DEF Launch
  <2>7. QED
    BY <1>5, <2>5, <2>6 DEF Launch
<1>6. ASSUME NEW c \in Clients, Abandon(c)
      PROVE  TypeOK' /\ RequestInHand'
  BY <1>6 DEF Abandon
<1>7. ASSUME NEW c \in Clients, AdmitDiscard(c)
      PROVE  TypeOK' /\ RequestInHand'
  BY <1>7 DEF AdmitDiscard
<1>8. ASSUME NEW c \in Clients, Discard(c)
      PROVE  TypeOK' /\ RequestInHand'
  BY <1>8 DEF Discard
<1>9. ASSUME NEW c \in Clients, AdmitRequest(c)
      PROVE  TypeOK' /\ RequestInHand'
  BY <1>9 DEF AdmitRequest
<1>10. ASSUME NEW c \in Clients, Insert(c)
      PROVE  TypeOK' /\ RequestInHand'
  BY <1>10 DEF Insert
<1>11. ASSUME NEW c \in Clients, Expose(c)
      PROVE  TypeOK' /\ RequestInHand'
  <2>1. local[c].run \in Runs /\ local[c].op \in Modes
    BY <1>11 DEF Expose
  <2>2. flags' \in [Runs -> SUBSET Modes] /\ cancelled' \subseteq Tasks
    BY <1>11, <2>1, SMTT(20) DEF Expose, SetFlag, Alive
  <2>3. QED
    BY <1>11, <2>2 DEF Expose
<1>12. ASSUME NEW r \in Runs, NEW mode \in Modes, OrphanInsert(r, mode)
      PROVE  TypeOK' /\ RequestInHand'
  BY <1>12 DEF OrphanInsert
<1>13. ASSUME NEW t \in Tasks, FirstStretch(t)
      PROVE  TypeOK' /\ RequestInHand'
  BY <1>13 DEF FirstStretch, Ended
<1>14. ASSUME NEW t \in Tasks, NeverRuns(t)
      PROVE  TypeOK' /\ RequestInHand'
  BY <1>14 DEF NeverRuns, Ended
<1>15. ASSUME NEW t \in Tasks, EndTask(t)
      PROVE  TypeOK' /\ RequestInHand'
  BY <1>15 DEF EndTask, Ended
<1>16. ASSUME NEW t \in Tasks, Release(t)
      PROVE  TypeOK' /\ RequestInHand'
  <2>1. t[1] \in Runs
    BY DEF Tasks
  <2>2. active' = active \/ active' = [active EXCEPT ![t[1]] = 0]
    BY <1>16 DEF Release, WithoutTask
  <2>3. active' \in [Runs -> 0 .. MaxFaults + 1]
    BY <2>1, <2>2
  <2>4. QED
    BY <1>16, <2>3 DEF Release
<1>17. CASE Shutdown
  BY <1>17 DEF Shutdown
<1>18. CASE Snapshot
  BY <1>18 DEF Snapshot
<1>19. CASE Joined \/ Clear \/ UNCHANGED vars
  BY <1>19 DEF Joined, Clear, vars
<1> HIDE DEF Take, Leave, Answer, Goto, At, TypeOK, RequestInHand, Holding, Request, Ops, Modes,
  Status, durable, executors, registry, lifecycle, requests
<1>20. QED
  BY <1>1, <1>2, <1>3, <1>4, <1>5, <1>6, <1>7, <1>8, <1>9, <1>10, <1>11, <1>12, <1>13, <1>14,
    <1>15, <1>16, <1>17, <1>18, <1>19 DEF Next, ClientStep, TaskStep

\* The lock: taken by one request at a time, and left by its holder.
LEMMA LockStep ==
  ASSUME RegistryInvariant, [Next]_vars
  PROVE  LockIsExclusive'
<1> USE FreeAssumption DEF Take, Leave, Answer, Goto, At, RegistryInvariant, TypeOK,
  LockIsExclusive, Holding, registry, requests
<1>1. ASSUME NEW c \in Clients, NEW r \in Runs,
             \/ AskStart(c, r) \/ AskDiscard(c, r)
             \/ \E mode \in Modes : AskRequest(c, mode, r)
      PROVE  LockIsExclusive'
  BY <1>1 DEF AskStart, AskDiscard, AskRequest, Ask
<1>2. ASSUME NEW c \in Clients, CancelCaller(c)
      PROVE  LockIsExclusive'
  BY <1>2 DEF CancelCaller
<1>3. ASSUME NEW c \in Clients, AdmitStart(c)
      PROVE  LockIsExclusive'
  BY <1>3 DEF AdmitStart, StartRefused
<1>4. ASSUME NEW c \in Clients, Prepare(c)
      PROVE  LockIsExclusive'
  BY <1>4 DEF Prepare, Startable
<1>5. ASSUME NEW c \in Clients, Launch(c) \/ Abandon(c)
      PROVE  LockIsExclusive'
  BY <1>5 DEF Launch, Abandon
<1>6. ASSUME NEW c \in Clients, AdmitDiscard(c)
      PROVE  LockIsExclusive'
  BY <1>6 DEF AdmitDiscard
<1>7. ASSUME NEW c \in Clients, Discard(c)
      PROVE  LockIsExclusive'
  BY <1>7 DEF Discard
<1>8. ASSUME NEW c \in Clients, AdmitRequest(c)
      PROVE  LockIsExclusive'
  BY <1>8 DEF AdmitRequest
<1>9. ASSUME NEW c \in Clients, Insert(c)
      PROVE  LockIsExclusive'
  BY <1>9 DEF Insert
<1>10. ASSUME NEW c \in Clients, Expose(c)
      PROVE  LockIsExclusive'
  BY <1>10 DEF Expose, SetFlag
<1>11. ASSUME NEW r \in Runs, NEW mode \in Modes, OrphanInsert(r, mode)
      PROVE  LockIsExclusive'
  BY <1>11 DEF OrphanInsert
<1>12. ASSUME NEW t \in Tasks, FirstStretch(t) \/ NeverRuns(t) \/ EndTask(t) \/ Release(t)
      PROVE  LockIsExclusive'
  BY <1>12 DEF FirstStretch, NeverRuns, EndTask, Release, WithoutTask, Ended
<1>13. CASE Shutdown \/ Snapshot \/ Joined \/ Clear \/ UNCHANGED vars
  BY <1>13 DEF Shutdown, Snapshot, Joined, Clear, vars
<1> HIDE DEF Take, Leave, Answer, Goto, At, RegistryInvariant, TypeOK, LockIsExclusive, Holding,
  registry, requests
<1>14. QED
  BY <1>1, <1>2, <1>3, <1>4, <1>5, <1>6, <1>7, <1>8, <1>9, <1>10, <1>11, <1>12, <1>13 DEF Next,
    ClientStep, TaskStep

\* What a start and a discard in progress rely on.
LEMMA InHandStep ==
  ASSUME RegistryInvariant, [Next]_vars
  PROVE  StartInHand' /\ DiscardInHand' /\ DiscardedNeverRuns'
<1> USE FreeAssumption, PrunedTable DEF Take, Leave, Answer, Goto, At, RegistryInvariant, TypeOK,
  LockIsExclusive, StartInHand, DiscardInHand, DiscardedNeverRuns, AliveIsRegistered, DrainJoins,
  RequestInHand, Holding, Alive, Request, Starts, Tasks, durable, executors, registry, lifecycle,
  requests
<1>1. ASSUME NEW c \in Clients, NEW r \in Runs,
             \/ AskStart(c, r) \/ AskDiscard(c, r)
             \/ \E mode \in Modes : AskRequest(c, mode, r)
      PROVE  StartInHand' /\ DiscardInHand' /\ DiscardedNeverRuns'
  BY <1>1 DEF AskStart, AskDiscard, AskRequest, Ask
<1>2. ASSUME NEW c \in Clients, CancelCaller(c)
      PROVE  StartInHand' /\ DiscardInHand' /\ DiscardedNeverRuns'
  BY <1>2 DEF CancelCaller
<1>3. ASSUME NEW c \in Clients, AdmitStart(c)
      PROVE  StartInHand' /\ DiscardInHand' /\ DiscardedNeverRuns'
  BY <1>3 DEF AdmitStart, StartRefused
<1>4. ASSUME NEW c \in Clients, Prepare(c)
      PROVE  StartInHand' /\ DiscardInHand' /\ DiscardedNeverRuns'
  <2>1. StartInHand'
    BY <1>4 DEF Prepare, Startable
  <2>2. DiscardInHand'
    BY <1>4 DEF Prepare
  <2>3. DiscardedNeverRuns'
    BY <1>4 DEF Prepare, Startable
  <2>4. QED
    BY <2>1, <2>2, <2>3
<1>5. ASSUME NEW c \in Clients, Launch(c)
      PROVE  StartInHand' /\ DiscardInHand' /\ DiscardedNeverRuns'
  BY <1>5 DEF Launch
<1>6. ASSUME NEW c \in Clients, Abandon(c)
      PROVE  StartInHand' /\ DiscardInHand' /\ DiscardedNeverRuns'
  BY <1>6 DEF Abandon
<1>7. ASSUME NEW c \in Clients, AdmitDiscard(c)
      PROVE  StartInHand' /\ DiscardInHand' /\ DiscardedNeverRuns'
  BY <1>7 DEF AdmitDiscard
<1>8. ASSUME NEW c \in Clients, Discard(c)
      PROVE  StartInHand' /\ DiscardInHand' /\ DiscardedNeverRuns'
  BY <1>8 DEF Discard
<1>9. ASSUME NEW c \in Clients, AdmitRequest(c)
      PROVE  StartInHand' /\ DiscardInHand' /\ DiscardedNeverRuns'
  BY <1>9 DEF AdmitRequest
<1>10. ASSUME NEW c \in Clients, Insert(c)
      PROVE  StartInHand' /\ DiscardInHand' /\ DiscardedNeverRuns'
  BY <1>10 DEF Insert
<1>11. ASSUME NEW c \in Clients, Expose(c)
      PROVE  StartInHand' /\ DiscardInHand' /\ DiscardedNeverRuns'
  BY <1>11 DEF Expose, SetFlag
<1>12. ASSUME NEW r \in Runs, NEW mode \in Modes, OrphanInsert(r, mode)
      PROVE  StartInHand' /\ DiscardInHand' /\ DiscardedNeverRuns'
  BY <1>12 DEF OrphanInsert
<1>13. ASSUME NEW t \in Tasks, FirstStretch(t)
      PROVE  StartInHand' /\ DiscardInHand' /\ DiscardedNeverRuns'
  BY <1>13 DEF FirstStretch, Ended
<1>14. ASSUME NEW t \in Tasks, NeverRuns(t)
      PROVE  StartInHand' /\ DiscardInHand' /\ DiscardedNeverRuns'
  BY <1>14 DEF NeverRuns, Ended
<1>15. ASSUME NEW t \in Tasks, EndTask(t)
      PROVE  StartInHand' /\ DiscardInHand' /\ DiscardedNeverRuns'
  BY <1>15 DEF EndTask, Ended
<1>16. ASSUME NEW t \in Tasks, Release(t)
      PROVE  StartInHand' /\ DiscardInHand' /\ DiscardedNeverRuns'
  BY <1>16 DEF Release, WithoutTask
<1>17. CASE Shutdown \/ Joined \/ UNCHANGED vars
  BY <1>17 DEF Shutdown, Joined, vars
<1>18. CASE Snapshot
  BY <1>18 DEF Snapshot
<1>19. CASE Clear
  BY <1>19 DEF Clear
<1> HIDE DEF Take, Leave, Answer, Goto, At, RegistryInvariant, TypeOK, LockIsExclusive,
  StartInHand, DiscardInHand, DiscardedNeverRuns, AliveIsRegistered, DrainJoins, RequestInHand,
  Holding, Alive, Request, Starts, Tasks, durable, executors, registry, lifecycle, requests
<1>20. QED
  BY <1>1, <1>2, <1>3, <1>4, <1>5, <1>6, <1>7, <1>8, <1>9, <1>10, <1>11, <1>12, <1>13, <1>14,
    <1>15, <1>16, <1>17, <1>18, <1>19 DEF Next, ClientStep, TaskStep

\* The table of active tasks: one entry, that of the task that is alive.
LEMMA TableStep ==
  ASSUME RegistryInvariant, [Next]_vars
  PROVE  AliveIsRegistered' /\ OneEntry' /\ Numbered'
<1> USE FreeAssumption, PrunedTable DEF Take, Leave, Answer, Goto, At, RegistryInvariant, TypeOK,
  LockIsExclusive, StartInHand, RequestInHand, AliveIsRegistered, OneEntry, Numbered, DrainJoins,
  Holding, Alive, Request, Starts, Tasks, durable, executors, registry, lifecycle, requests
<1>1. ASSUME NEW c \in Clients, NEW r \in Runs,
             \/ AskStart(c, r) \/ AskDiscard(c, r)
             \/ \E mode \in Modes : AskRequest(c, mode, r)
      PROVE  AliveIsRegistered' /\ OneEntry' /\ Numbered'
  BY <1>1 DEF AskStart, AskDiscard, AskRequest, Ask
<1>2. ASSUME NEW c \in Clients, CancelCaller(c) \/ Prepare(c) \/ Abandon(c) \/ Discard(c) \/
  Insert(c) \/ Expose(c)
      PROVE  AliveIsRegistered' /\ OneEntry' /\ Numbered'
  BY <1>2 DEF CancelCaller, Prepare, Startable, Abandon, Discard, Insert, Expose, SetFlag
<1>3. ASSUME NEW c \in Clients, AdmitStart(c)
      PROVE  AliveIsRegistered' /\ OneEntry' /\ Numbered'
  BY <1>3 DEF AdmitStart, StartRefused
<1>4. ASSUME NEW c \in Clients, Launch(c)
      PROVE  AliveIsRegistered' /\ OneEntry' /\ Numbered'
  BY <1>4 DEF Launch
<1>5. ASSUME NEW c \in Clients, AdmitDiscard(c)
      PROVE  AliveIsRegistered' /\ OneEntry' /\ Numbered'
  BY <1>5 DEF AdmitDiscard
<1>6. ASSUME NEW c \in Clients, AdmitRequest(c)
      PROVE  AliveIsRegistered' /\ OneEntry' /\ Numbered'
  BY <1>6 DEF AdmitRequest
<1>7. ASSUME NEW r \in Runs, NEW mode \in Modes, OrphanInsert(r, mode)
      PROVE  AliveIsRegistered' /\ OneEntry' /\ Numbered'
  BY <1>7 DEF OrphanInsert
<1>8. ASSUME NEW t \in Tasks, FirstStretch(t)
      PROVE  AliveIsRegistered' /\ OneEntry' /\ Numbered'
  BY <1>8 DEF FirstStretch, Ended
<1>9. ASSUME NEW t \in Tasks, NeverRuns(t)
      PROVE  AliveIsRegistered' /\ OneEntry' /\ Numbered'
  BY <1>9 DEF NeverRuns, Ended
<1>10. ASSUME NEW t \in Tasks, EndTask(t)
      PROVE  AliveIsRegistered' /\ OneEntry' /\ Numbered'
  BY <1>10 DEF EndTask, Ended
<1>11. ASSUME NEW t \in Tasks, Release(t)
      PROVE  AliveIsRegistered' /\ OneEntry' /\ Numbered'
  <2>1. Alive' = Alive /\ t \notin Alive
    BY <1>11 DEF Release
  <2>2. ASSUME NEW u \in Alive PROVE active'[u[1]] = u[2]
    <3>1. u = <<u[1], u[2]>> /\ u[1] \in Runs /\ active[u[1]] = u[2] /\ t = <<t[1], t[2]>>
      OBVIOUS
    <3>2. t[1] = u[1] => active[t[1]] # t[2]
      <4>1. t[1] = u[1] /\ active[t[1]] = t[2] => u = t
        BY <3>1
      <4>2. QED
        BY <2>1, <4>1
    <3>3. QED
      BY <1>11, <3>1, <3>2 DEF Release, WithoutTask
  <2>3. OneEntry' /\ Numbered'
    BY <1>11 DEF Release, WithoutTask
  <2>4. QED
    BY <2>1, <2>2, <2>3
<1>12. CASE Shutdown \/ Snapshot \/ Joined \/ UNCHANGED vars
  BY <1>12 DEF Shutdown, Snapshot, Joined, vars
<1>13. CASE Clear
  BY <1>13 DEF Clear
<1> HIDE DEF Take, Leave, Answer, Goto, At, RegistryInvariant, TypeOK, LockIsExclusive,
  StartInHand, RequestInHand, AliveIsRegistered, OneEntry, Numbered, DrainJoins, Holding, Alive,
  Request, Starts, Tasks, durable, executors, registry, lifecycle, requests
<1>14. QED
  BY <1>1, <1>2, <1>3, <1>4, <1>5, <1>6, <1>7, <1>8, <1>9, <1>10, <1>11, <1>12, <1>13 DEF Next,
    ClientStep, TaskStep

\* Cancelled tasks, and the tasks the drain joins.
LEMMA DrainStep ==
  ASSUME RegistryInvariant, [Next]_vars
  PROVE  CancelledTasks' /\ DrainJoins'
<1> USE FreeAssumption DEF Take, Leave, Answer, Goto, At, RegistryInvariant, TypeOK,
  LockIsExclusive, StartInHand, RequestInHand, AliveIsRegistered, CancelledTasks, DrainJoins,
  Holding, Alive, Request, Starts, Tasks, durable, executors, registry, lifecycle, requests
<1>1. ASSUME NEW c \in Clients, NEW r \in Runs,
             \/ AskStart(c, r) \/ AskDiscard(c, r)
             \/ \E mode \in Modes : AskRequest(c, mode, r)
      PROVE  CancelledTasks' /\ DrainJoins'
  BY <1>1 DEF AskStart, AskDiscard, AskRequest, Ask
<1>2. ASSUME NEW c \in Clients, CancelCaller(c) \/ AdmitStart(c) \/ Prepare(c) \/ Abandon(c)
      PROVE  CancelledTasks' /\ DrainJoins'
  BY <1>2 DEF CancelCaller, AdmitStart, StartRefused, Prepare, Startable, Abandon
<1>3. ASSUME NEW c \in Clients, AdmitDiscard(c) \/ Discard(c) \/ AdmitRequest(c) \/ Insert(c)
      PROVE  CancelledTasks' /\ DrainJoins'
  BY <1>3 DEF AdmitDiscard, Discard, AdmitRequest, Insert
<1>4. ASSUME NEW c \in Clients, Launch(c)
      PROVE  CancelledTasks' /\ DrainJoins'
  BY <1>4 DEF Launch
<1>5. ASSUME NEW c \in Clients, Expose(c)
      PROVE  CancelledTasks' /\ DrainJoins'
  <2>1. Alive' = Alive /\ DrainJoins'
    BY <1>5 DEF Expose
  <2>2. \A u \in cancelled' : u \in Alive /\ (u \in cancelled \/ task[u] # "new")
    BY <1>5 DEF Expose
  <2>3. CancelledTasks'
    BY <1>5, <2>1, <2>2 DEF Expose
  <2>4. QED
    BY <2>1, <2>3
<1>6. ASSUME NEW r \in Runs, NEW mode \in Modes, OrphanInsert(r, mode)
      PROVE  CancelledTasks' /\ DrainJoins'
  BY <1>6 DEF OrphanInsert
<1>7. ASSUME NEW t \in Tasks, FirstStretch(t)
      PROVE  CancelledTasks' /\ DrainJoins'
  BY <1>7 DEF FirstStretch, Ended
<1>8. ASSUME NEW t \in Tasks, NeverRuns(t)
      PROVE  CancelledTasks' /\ DrainJoins'
  BY <1>8 DEF NeverRuns, Ended
<1>9. ASSUME NEW t \in Tasks, EndTask(t)
      PROVE  CancelledTasks' /\ DrainJoins'
  BY <1>9 DEF EndTask, Ended
<1>10. ASSUME NEW t \in Tasks, Release(t)
      PROVE  CancelledTasks' /\ DrainJoins'
  BY <1>10 DEF Release, WithoutTask
<1>11. CASE Shutdown
  BY <1>11 DEF Shutdown
<1>12. CASE Snapshot
  BY <1>12 DEF Snapshot
<1>13. CASE Joined
  BY <1>13 DEF Joined
<1>14. CASE Clear
  BY <1>14 DEF Clear
<1>15. CASE UNCHANGED vars
  BY <1>15 DEF vars
<1> HIDE DEF Take, Leave, Answer, Goto, At, RegistryInvariant, TypeOK, LockIsExclusive,
  StartInHand, RequestInHand, AliveIsRegistered, CancelledTasks, DrainJoins, Holding, Alive,
  Request, Starts, Tasks, durable, executors, registry, lifecycle, requests
<1>16. QED
  BY <1>1, <1>2, <1>3, <1>4, <1>5, <1>6, <1>7, <1>8, <1>9, <1>10, <1>11, <1>12, <1>13, <1>14,
    <1>15 DEF Next, ClientStep, TaskStep

\* A Run is started again only after a failed first stretch.
LEMMA StartsStep ==
  ASSUME RegistryInvariant, [Next]_vars
  PROVE  StartsAreFaults'
<1> USE MaxFaultsAssumption, FreeAssumption DEF Take, Leave, Answer, Goto, At, RegistryInvariant,
  TypeOK, LockIsExclusive, StartInHand, RequestInHand, AliveIsRegistered, CancelledTasks,
  StartsAreFaults, DrainJoins, Holding, Alive, Request, Starts, Tasks, durable, executors,
  registry, lifecycle, requests
<1>1. ASSUME NEW c \in Clients, NEW r \in Runs,
             \/ AskStart(c, r) \/ AskDiscard(c, r)
             \/ \E mode \in Modes : AskRequest(c, mode, r)
      PROVE  StartsAreFaults'
  BY <1>1 DEF AskStart, AskDiscard, AskRequest, Ask
<1>2. ASSUME NEW c \in Clients, CancelCaller(c)
      PROVE  StartsAreFaults'
  BY <1>2 DEF CancelCaller
<1>3. ASSUME NEW c \in Clients, AdmitStart(c) \/ Prepare(c) \/ Abandon(c)
      PROVE  StartsAreFaults'
  BY <1>3 DEF AdmitStart, StartRefused, Prepare, Startable, Abandon
<1>4. ASSUME NEW c \in Clients, AdmitDiscard(c) \/ AdmitRequest(c) \/ Insert(c) \/ Expose(c)
      PROVE  StartsAreFaults'
  BY <1>4 DEF AdmitDiscard, AdmitRequest, Insert, Expose, SetFlag
<1>5. ASSUME NEW c \in Clients, Launch(c)
      PROVE  StartsAreFaults'
  BY <1>5 DEF Launch
<1>6. ASSUME NEW c \in Clients, Discard(c)
      PROVE  StartsAreFaults'
  BY <1>6 DEF Discard
<1>7. ASSUME NEW r \in Runs, NEW mode \in Modes, OrphanInsert(r, mode)
      PROVE  StartsAreFaults'
  BY <1>7 DEF OrphanInsert
<1>8. ASSUME NEW t \in Tasks, FirstStretch(t)
      PROVE  StartsAreFaults'
  BY <1>8, SMTT(20) DEF FirstStretch, Ended
<1>9. ASSUME NEW t \in Tasks, NeverRuns(t)
      PROVE  StartsAreFaults'
  BY <1>9 DEF NeverRuns, Ended
<1>10. ASSUME NEW t \in Tasks, EndTask(t)
      PROVE  StartsAreFaults'
  BY <1>10 DEF EndTask, Ended
<1>11. ASSUME NEW t \in Tasks, Release(t)
      PROVE  StartsAreFaults'
  BY <1>11 DEF Release, WithoutTask
<1>12. CASE Shutdown \/ Snapshot
  BY <1>12 DEF Shutdown, Snapshot
<1>13. CASE Joined \/ Clear \/ UNCHANGED vars
  BY <1>13 DEF Joined, Clear, vars
<1> HIDE DEF Take, Leave, Answer, Goto, At, RegistryInvariant, TypeOK, LockIsExclusive,
  StartInHand, RequestInHand, AliveIsRegistered, CancelledTasks, StartsAreFaults, DrainJoins,
  Holding, Alive, Request, Starts, Tasks, durable, executors, registry, lifecycle, requests
<1>14. QED
  BY <1>1, <1>2, <1>3, <1>4, <1>5, <1>6, <1>7, <1>8, <1>9, <1>10, <1>11, <1>12, <1>13 DEF Next,
    ClientStep, TaskStep

-----------------------------------------------------------------------------
(* The theorems.                                                           *)

\* What every reachable state of the registry satisfies.
THEOREM InvariantHolds == Spec => []RegistryInvariant
<1>1. Init => RegistryInvariant
  BY InitInvariant
<1>2. RegistryInvariant /\ [Next]_vars => RegistryInvariant'
  <2> SUFFICES ASSUME RegistryInvariant, [Next]_vars
               PROVE  RegistryInvariant'
    OBVIOUS
  <2>1. QED
    BY TypesStep, LockStep, InHandStep, TableStep, DrainStep, StartsStep DEF RegistryInvariant
<1>3. QED
  BY <1>1, <1>2, PTL DEF Spec

\* Two live tasks would be two entries of a table that has one.
LEMMA OneEntryOneTask ==
  ASSUME TypeOK, AliveIsRegistered, OneEntry
  PROVE  OneTask
<1>1. \A t, u \in Alive : t = u
  <2> SUFFICES ASSUME NEW t \in Alive, NEW u \in Alive
               PROVE  t = u
    OBVIOUS
  <2>1. /\ t = <<t[1], t[2]>> /\ t[1] \in Runs /\ t[2] \in Starts
        /\ u = <<u[1], u[2]>> /\ u[1] \in Runs /\ u[2] \in Starts
    BY DEF Alive, Tasks
  <2>2. active[t[1]] = t[2] /\ active[u[1]] = u[2] /\ t[2] # 0 /\ u[2] # 0
    BY <2>1, MaxFaultsAssumption DEF AliveIsRegistered, Starts
  <2>3. t[1] = u[1]
    BY <2>1, <2>2 DEF OneEntry
  <2>4. QED
    BY <2>1, <2>2, <2>3
<1>2. CASE Alive = {}
  BY <1>2, FS_EmptySet DEF OneTask
<1>3. CASE Alive # {}
  <2>1. PICK t : t \in Alive
    BY <1>3
  <2>2. Alive = {t}
    BY <1>1, <2>1
  <2>3. QED
    BY <2>2, FS_Singleton DEF OneTask
<1>4. QED
  BY <1>2, <1>3

\* At most one executor task is alive in the process (RunTaskRegistry.start
\* refuses a second), however starts, releases and discards interleave.
THEOREM OneTaskAtATime == Spec => []OneTask
<1>1. RegistryInvariant => OneTask
  BY OneEntryOneTask DEF RegistryInvariant
<1>2. QED
  BY <1>1, InvariantHolds, PTL

\* A live task is always in _active_runs: a late _release of an earlier task of
\* the same Run never drops it.
THEOREM AliveRegistered == Spec => []AliveIsRegistered
<1>1. RegistryInvariant => AliveIsRegistered
  BY DEF RegistryInvariant
<1>2. QED
  BY <1>1, InvariantHolds, PTL

\* A discarded Run has no task and no start about to create one.
THEOREM DiscardedStaysQuiet == Spec => []DiscardedNeverRuns
<1>1. RegistryInvariant => DiscardedNeverRuns
  BY DEF RegistryInvariant
<1>2. QED
  BY <1>1, InvariantHolds, PTL

\* After _drain has joined its tasks nothing runs, and no admitted start slips in.
THEOREM DrainQuiets == Spec => []DrainedIsQuiet
<1>1. RegistryInvariant => DrainedIsQuiet
  BY DEF RegistryInvariant, DrainedIsQuiet, DrainJoins, StartInHand
<1>2. QED
  BY <1>1, InvariantHolds, PTL

-----------------------------------------------------------------------------
(* What is stored is heard, as long as nobody is disturbed.  A start has    *)
(* read the stored requests before it took the lock; but only a Run that    *)
(* was started takes a request, and only one that was not is started.       *)

ActiveIsStarted == \A r \in Runs : active[r] <= starts[r]

StoredForStarted ==
  /\ orphans = {}
  /\ \A r \in Runs : starts[r] = 0 => intents[r] = {}
  /\ \A c \in Clients : pc[c] \in {"insert", "expose"} => starts[local[c].run] > 0

Undisturbed == faults = 0 => StoredForStarted /\ StoredIsHeard

\* The numbers in the table of active tasks were given out.
LEMMA ActiveStep ==
  ASSUME RegistryInvariant, ActiveIsStarted, [Next]_vars
  PROVE  ActiveIsStarted'
<1> USE MaxFaultsAssumption, PrunedTable DEF Take, Leave, Answer, Goto, At, RegistryInvariant, TypeOK,
  ActiveIsStarted, RequestInHand, Holding, Request, durable, executors, registry, lifecycle, requests
<1>1. ASSUME NEW c \in Clients, NEW r \in Runs,
             \/ AskStart(c, r) \/ AskDiscard(c, r)
             \/ \E mode \in Modes : AskRequest(c, mode, r)
      PROVE  ActiveIsStarted'
  BY <1>1 DEF AskStart, AskDiscard, AskRequest, Ask
<1>2. ASSUME NEW c \in Clients, CancelCaller(c) \/ Prepare(c) \/ Abandon(c) \/ Discard(c) \/
  Insert(c) \/ Expose(c)
      PROVE  ActiveIsStarted'
  BY <1>2 DEF CancelCaller, Prepare, Startable, Abandon, Discard, Insert, Expose, SetFlag
<1>3. ASSUME NEW c \in Clients, AdmitStart(c) \/ AdmitDiscard(c) \/ AdmitRequest(c)
      PROVE  ActiveIsStarted'
  <2>1. \A r \in Runs : active'[r] \in {0, active[r]} /\ starts' = starts
    BY <1>3 DEF AdmitStart, AdmitDiscard, AdmitRequest
  <2>2. QED
    BY <2>1
<1>4. ASSUME NEW c \in Clients, Launch(c)
      PROVE  ActiveIsStarted'
  BY <1>4 DEF Launch
<1>5. ASSUME NEW r \in Runs, NEW mode \in Modes, OrphanInsert(r, mode)
      PROVE  ActiveIsStarted'
  BY <1>5 DEF OrphanInsert
<1>6. ASSUME NEW t \in Tasks, FirstStretch(t) \/ NeverRuns(t) \/ EndTask(t)
      PROVE  ActiveIsStarted'
  BY <1>6 DEF FirstStretch, NeverRuns, EndTask, Ended
<1>7. ASSUME NEW t \in Tasks, Release(t)
      PROVE  ActiveIsStarted'
  BY <1>7 DEF Release, WithoutTask
<1>8. CASE Shutdown \/ Snapshot \/ Joined \/ Clear \/ UNCHANGED vars
  BY <1>8 DEF Shutdown, Snapshot, Joined, Clear, vars
<1> HIDE DEF Take, Leave, Answer, Goto, At, RegistryInvariant, TypeOK, ActiveIsStarted,
  RequestInHand, Holding, Request, durable, executors, registry, lifecycle, requests
<1>9. QED
  BY <1>1, <1>2, <1>3, <1>4, <1>5, <1>6, <1>7, <1>8 DEF Next, ClientStep, TaskStep

\* A Run that is about to be started for the first time has no stored request.
LEMMA FirstStart ==
  ASSUME RegistryInvariant, faults = 0, NEW c \in Clients, Launch(c)
  PROVE  starts[local[c].run] = 0
<1>1. local[c].run \in Runs /\ disk[local[c].run] = "absent" /\ drain \in {"none", "snapshot"}
  BY DEF Launch, At, RegistryInvariant, RequestInHand, StartInHand, Request
<1>2. \A t \in Alive : FALSE
  <2>1. \A t \in Alive : t[2] # 0 /\ t[1] \in Runs
    BY MaxFaultsAssumption DEF Alive, Tasks, Starts
  <2>2. QED
    BY <2>1 DEF Launch, At, RegistryInvariant, AliveIsRegistered, StartInHand
<1>3. starts[local[c].run] <= faults + 0
  BY <1>1, <1>2 DEF RegistryInvariant, StartsAreFaults
<1>4. QED
  BY <1>1, <1>3, MaxFaultsAssumption DEF RegistryInvariant, TypeOK

LEMMA FaultsStep ==
  ASSUME faults \in Nat, [Next]_vars, faults' = 0
  PROVE  faults = 0
<1> USE DEF durable, executors, registry, lifecycle, requests
<1>1. ASSUME NEW c \in Clients, ClientStep(c)
      PROVE  faults' = faults
  BY <1>1 DEF ClientStep, AdmitStart, Prepare, Launch, Abandon, AdmitDiscard, Discard, AdmitRequest,
    Insert, Expose
<1>2. ASSUME NEW c \in Clients, CancelCaller(c)
      PROVE  faults' = faults + 1
  BY <1>2 DEF CancelCaller
<1>3. ASSUME NEW c \in Clients, NEW r \in Runs,
             \/ AskStart(c, r) \/ AskDiscard(c, r)
             \/ \E mode \in Modes : AskRequest(c, mode, r)
      PROVE  faults' = faults
  BY <1>3 DEF AskStart, AskDiscard, AskRequest, Ask
<1>4. ASSUME NEW t \in Tasks, TaskStep(t) \/ Release(t)
      PROVE  faults' = faults \/ faults' = faults + 1
  BY <1>4 DEF TaskStep, FirstStretch, NeverRuns, EndTask, Release
<1>5. ASSUME NEW r \in Runs, NEW mode \in Modes, OrphanInsert(r, mode)
      PROVE  faults' = faults
  BY <1>5 DEF OrphanInsert
<1>6. CASE Shutdown \/ Snapshot \/ Joined \/ Clear \/ UNCHANGED vars
  BY <1>6 DEF Shutdown, Snapshot, Joined, Clear, vars
<1>7. faults' = faults \/ faults' = faults + 1
  BY <1>1, <1>2, <1>3, <1>4, <1>5, <1>6 DEF Next
<1>8. QED
  BY <1>7

\* Nothing is stored that no task hears of, step by step.
LEMMA HeardStep ==
  ASSUME RegistryInvariant, ActiveIsStarted, Undisturbed, [Next]_vars
  PROVE  Undisturbed'
<1> SUFFICES ASSUME faults' = 0
             PROVE  StoredForStarted' /\ StoredIsHeard'
  BY DEF Undisturbed
<1>0. faults = 0 /\ orphans = {}
  BY FaultsStep, MaxFaultsAssumption DEF RegistryInvariant, TypeOK, Undisturbed, StoredForStarted
<1>a. ASSUME NEW c \in Clients, Launch(c)
      PROVE  starts[local[c].run] = 0
  BY <1>0, <1>a, FirstStart
<1> USE MaxFaultsAssumption, FreeAssumption DEF Take, Leave, Answer, Goto, At, RegistryInvariant, TypeOK,
  LockIsExclusive, StartInHand, RequestInHand, AliveIsRegistered, ActiveIsStarted, Undisturbed,
  StoredForStarted, StoredIsHeard, Holding, Alive, Request, Starts, Tasks, Modes, durable, executors,
  registry, lifecycle, requests
<1>1. ASSUME NEW c \in Clients, NEW r \in Runs,
             \/ AskStart(c, r) \/ AskDiscard(c, r)
             \/ \E mode \in Modes : AskRequest(c, mode, r)
      PROVE  StoredForStarted' /\ StoredIsHeard'
  <2>1. pc[c] = "idle" /\ pc'[c] = "waiting"
      /\ \A d \in Clients \ {c} : pc'[d] = pc[d] /\ local'[d] = local[d]
    BY <1>1 DEF AskStart, AskDiscard, AskRequest, Ask
  <2>2. UNCHANGED <<durable, executors, registry, lifecycle, faults>>
    BY <1>1 DEF AskStart, AskDiscard, AskRequest, Ask
  <2>3. StoredForStarted'
    BY <1>0, <2>1, <2>2
  <2>4. StoredIsHeard'
    BY <1>0, <2>1, <2>2
  <2>5. QED
    BY <2>3, <2>4
<1>2. ASSUME NEW c \in Clients, Prepare(c) \/ Abandon(c) \/ Discard(c)
      PROVE  StoredForStarted' /\ StoredIsHeard'
  BY <1>0, <1>2 DEF Prepare, Startable, Abandon, Discard
<1>3. ASSUME NEW c \in Clients, AdmitStart(c) \/ AdmitDiscard(c)
      PROVE  StoredForStarted' /\ StoredIsHeard'
  BY <1>0, <1>3 DEF AdmitStart, AdmitDiscard
<1>4. ASSUME NEW c \in Clients, AdmitRequest(c)
      PROVE  StoredForStarted' /\ StoredIsHeard'
  <2>1. Pruned[local[c].run] # 0 => starts[local[c].run] > 0
    BY <1>4, PrunedTable DEF AdmitRequest
  <2>2. QED
    BY <1>0, <1>4, <2>1 DEF AdmitRequest
<1>5. ASSUME NEW c \in Clients, Launch(c)
      PROVE  StoredForStarted' /\ StoredIsHeard'
  <2>1. intents[local[c].run] = {} /\ local[c].run \in Runs
    BY <1>0, <1>5, <1>a DEF Launch
  <2>2. StoredForStarted'
    BY <1>0, <1>5 DEF Launch
  <2>3. StoredIsHeard'
    BY <1>0, <1>5, <2>1 DEF Launch
  <2>4. QED
    BY <2>2, <2>3
<1>6. ASSUME NEW c \in Clients, Insert(c)
      PROVE  StoredForStarted' /\ StoredIsHeard'
  <2>1. StoredForStarted'
    BY <1>0, <1>6 DEF Insert
  <2>2. StoredIsHeard'
    BY <1>0, <1>6 DEF Insert
  <2>3. QED
    BY <2>1, <2>2
<1>7. ASSUME NEW c \in Clients, Expose(c)
      PROVE  StoredForStarted' /\ StoredIsHeard'
  <2>1. StoredForStarted'
    BY <1>0, <1>7 DEF Expose
  <2>2. StoredIsHeard'
    <3> SUFFICES ASSUME NEW t \in Alive, NEW mode \in intents[t[1]]
                 PROVE  \/ t[2] > 1
                        \/ mode \in flags'[t[1]]
                        \/ \E d \in Clients : At(d, {mode}, "expose")' /\ local'[d].run = t[1]
      BY <1>7 DEF Expose
    <3>1. t = <<t[1], t[2]>> /\ t[1] \in Runs /\ active[t[1]] = t[2] /\ mode \in Modes
      OBVIOUS
    <3>2. \A q \in Runs : flags[q] \subseteq flags'[q]
      BY <1>7 DEF Expose, SetFlag
    <3>3. ASSUME NEW d \in Clients, At(d, {mode}, "expose"), local[d].run = t[1]
          PROVE  mode \in flags'[t[1]]
      <4>1. d = c
        BY <1>7, <3>3 DEF Expose
      <4>2. <<local[c].run, active[local[c].run]>> = t /\ local[c].op = mode
        BY <3>1, <3>3, <4>1
      <4>3. flags' = SetFlag(t, mode)
        BY <1>7, <4>2 DEF Expose
      <4>4. QED
        BY <3>1, <4>3 DEF SetFlag
    <3>4. QED
      BY <1>0, <3>1, <3>2, <3>3
  <2>3. QED
    BY <2>1, <2>2
<1>8. ASSUME NEW t \in Tasks, FirstStretch(t) \/ NeverRuns(t) \/ EndTask(t)
      PROVE  StoredForStarted' /\ StoredIsHeard'
  <2>1. StoredForStarted'
    BY <1>0, <1>8 DEF FirstStretch, NeverRuns, EndTask, Ended
  <2>2. StoredIsHeard'
    <3>1. CASE task' = [task EXCEPT ![t] = "running"] /\ flags' = flags
      <4>1. task[t] \in {"new", "running"}
        BY <1>8 DEF FirstStretch, NeverRuns, EndTask
      <4>2. Alive' = Alive
        BY <3>1, <4>1
      <4>3. UNCHANGED <<intents, pc, local>>
        BY <1>8 DEF FirstStretch, NeverRuns, EndTask
      <4>4. QED
        BY <1>0, <3>1, <4>2, <4>3
    <3>2. CASE Ended(t)
      <4>1. Alive' = Alive \ {t}
        BY <3>2 DEF Ended
      <4>2. ASSUME NEW u \in Alive \ {t} PROVE u[1] # t[1]
        <5>1. t \in Alive
          BY <1>8 DEF FirstStretch, NeverRuns, EndTask
        <5>2. u = <<u[1], u[2]>> /\ t = <<t[1], t[2]>> /\ active[u[1]] = u[2] /\ active[t[1]] = t[2]
          BY <5>1
        <5>3. QED
          BY <5>2
      <4>3. \A u \in Alive' : flags'[u[1]] = flags[u[1]]
        BY <3>2, <4>1, <4>2 DEF Ended
      <4>4. QED
        BY <1>0, <1>8, <4>1, <4>3 DEF FirstStretch, NeverRuns, EndTask
    <3>3. QED
      BY <1>8, <3>1, <3>2 DEF FirstStretch, NeverRuns, EndTask
  <2>3. QED
    BY <2>1, <2>2
<1>9. ASSUME NEW t \in Tasks, Release(t)
      PROVE  StoredForStarted' /\ StoredIsHeard'
  BY <1>0, <1>9 DEF Release
<1>10. ASSUME NEW c \in Clients, CancelCaller(c)
       PROVE  StoredForStarted' /\ StoredIsHeard'
  BY <1>0, <1>10 DEF CancelCaller
<1>11. ASSUME NEW r \in Runs, NEW mode \in Modes, OrphanInsert(r, mode)
       PROVE  StoredForStarted' /\ StoredIsHeard'
  BY <1>0, <1>11 DEF OrphanInsert
<1>12. CASE Shutdown \/ Snapshot \/ Joined \/ Clear \/ UNCHANGED vars
  BY <1>0, <1>12 DEF Shutdown, Snapshot, Joined, Clear, vars
<1> HIDE DEF Take, Leave, Answer, Goto, At, RegistryInvariant, TypeOK,
  LockIsExclusive, StartInHand, RequestInHand, AliveIsRegistered, ActiveIsStarted, Undisturbed,
  StoredForStarted, StoredIsHeard, Holding, Alive, Request, Starts, Tasks, Modes, durable, executors,
  registry, lifecycle, requests
<1>13. QED
  BY <1>1, <1>2, <1>3, <1>4, <1>5, <1>6, <1>7, <1>8, <1>9, <1>10, <1>11, <1>12 DEF Next, ClientStep,
    TaskStep

\* While no caller was cancelled and no first write failed, a stored request of
\* a Run whose task is alive was exposed to that task, or is about to be.
THEOREM UndisturbedHeard == Spec => []UndisturbedIsHeard
<1> DEFINE HeardInvariant == RegistryInvariant /\ ActiveIsStarted /\ Undisturbed
<1>1. Init => HeardInvariant
  <2> SUFFICES ASSUME Init PROVE HeardInvariant
    OBVIOUS
  <2>1. RegistryInvariant
    BY InitInvariant
  <2>2. ActiveIsStarted /\ Undisturbed
    BY DEF Init, ActiveIsStarted, Undisturbed, StoredForStarted, StoredIsHeard, Alive, Tasks
  <2>3. QED
    BY <2>1, <2>2
<1>2. HeardInvariant /\ [Next]_vars => HeardInvariant'
  <2>1. RegistryInvariant /\ [Next]_vars => RegistryInvariant'
    BY TypesStep, LockStep, InHandStep, TableStep, DrainStep, StartsStep DEF RegistryInvariant
  <2>2. QED
    BY <2>1, ActiveStep, HeardStep
<1>3. HeardInvariant => UndisturbedIsHeard
  BY DEF Undisturbed, UndisturbedIsHeard
<1>4. QED
  BY <1>1, <1>2, <1>3, PTL DEF Spec

=============================================================================
