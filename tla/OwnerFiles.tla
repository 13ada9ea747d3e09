----------------------------- MODULE OwnerFiles -----------------------------
(***************************************************************************)
(* The directories of Projects and of their Batches, the owner files that  *)
(* name their identity (files/project_owners.py, files/batch_owners.py),   *)
(* and the rows that application/library.py registers them with.  Requests *)
(* create and adopt directories and publish Runs into them at the same     *)
(* time; the process may crash between any two calls of the file system.   *)
(***************************************************************************)
EXTENDS Naturals, FiniteSets

CONSTANTS Projects,   \* filesystem keys of Projects
          Batches,    \* filesystem keys of Batches
          ProjectOf,  \* [Batches -> Projects]
          Workers,    \* requests
          MaxIds,     \* bound on the identities the service draws
          MaxFaults,  \* bound on failed calls and crashes
          None

Keys == Projects \cup Batches

\* An identity that users supply; the service draws 1, 2, ...
Supplied == 0
Ids == 0 .. MaxIds

OwnerAssumption ==
    /\ Projects \cap Batches = {}
    /\ ProjectOf \in [Batches -> Projects]
    /\ MaxIds \in Nat /\ MaxFaults \in Nat
    /\ None \notin Ids

VARIABLES there,   \* keys with a directory
          owner,   \* content of project.json or batch.json
          litter,  \* keys whose directory holds a temporary file of a crash
          rows,    \* registered [key, id]
          issued,  \* identities drawn
          worker,  \* where each request stands
          faults

vars == <<there, owner, litter, rows, issued, worker, faults>>

NoOwner == [id |-> None, project |-> None]
Idle == [at |-> "idle", op |-> None, key |-> None, id |-> None]

Go(w, at) == worker' = [worker EXCEPT ![w].at = at]
Stop(w) == worker' = [worker EXCEPT ![w] = Idle]

TheKey(w) == worker[w].key

Registered(key) == \E row \in rows : row.key = key

-----------------------------------------------------------------------------
\* read: of a Batch it also needs the owner of the Project, and the same one.
IsOwned(key) == key \in there /\ owner[key] # NoOwner

Readable(key) ==
    /\ IsOwned(key)
    /\ key \in Batches => IsOwned(ProjectOf[key]) /\ owner[key].project = owner[ProjectOf[key]].id

\* What publish writes.
OwnerRecord(key, id) ==
    [id |-> id, project |-> IF key \in Batches THEN owner[ProjectOf[key]].id ELSE None]

\* _batch_owner_store: the Project is registered and its directory is its own.
ProjectIsOwn(key) ==
    key \in Batches =>
        [key |-> ProjectOf[key], id |-> owner[ProjectOf[key]].id] \in rows

\* create_project and create_saved_batch draw an identity ...
Create(w, key) ==
    /\ worker[w] = Idle
    /\ ProjectIsOwn(key)
    /\ issued < MaxIds
    /\ issued' = issued + 1
    /\ worker' = [worker EXCEPT ![w] = [at |-> "make", op |-> "create", key |-> key, id |-> issued + 1]]
    /\ UNCHANGED <<there, owner, litter, rows, faults>>

\* ... and create claims no directory that exists.
MakeDirectory(w) ==
    /\ worker[w].at = "make"
    /\ IF TheKey(w) \in there
       THEN Stop(w) /\ UNCHANGED there
       ELSE there' = there \cup {TheKey(w)} /\ Go(w, "ensure")
    /\ UNCHANGED <<owner, litter, rows, issued, faults>>

\* adopt_project and adopt_saved_batch read the owner, which a supplied
\* identity must match; an ownerless directory needs one.
Adopt(w, key, given) ==
    /\ worker[w] = Idle
    /\ ProjectIsOwn(key)
    /\ key \in there
    /\ IF Readable(key)
       THEN /\ given \in {None, owner[key].id}
            /\ worker' = [worker EXCEPT ![w] = [at |-> "row", op |-> "adopt", key |-> key, id |-> owner[key].id]]
       ELSE /\ given = Supplied
            /\ owner[key] = NoOwner
            /\ worker' = [worker EXCEPT ![w] = [at |-> "check", op |-> "adopt", key |-> key, id |-> given]]
    /\ UNCHANGED <<there, owner, litter, rows, issued, faults>>

\* adopt_ownerless looks once more.
CheckOwnerless(w) ==
    /\ worker[w].at = "check"
    /\ IF TheKey(w) \in there /\ owner[TheKey(w)] = NoOwner THEN Go(w, "ensure") ELSE Stop(w)
    /\ UNCHANGED <<there, owner, litter, rows, issued, faults>>

\* create_run publishes the owner that the client names, a registered one or
\* one of its own; it registers nothing.
PublishForRun(w, key, id) ==
    /\ worker[w] = Idle
    /\ key \in Batches => IsOwned(ProjectOf[key])
    /\ worker' = [worker EXCEPT ![w] = [at |-> "ensure", op |-> "run", key |-> key, id |-> id]]
    /\ UNCHANGED <<there, owner, litter, rows, issued, faults>>

-----------------------------------------------------------------------------
\* publish: the directory is made if it is missing, ...
EnsureDirectory(w) ==
    /\ worker[w].at = "ensure"
    /\ there' = there \cup {TheKey(w)}
    /\ Go(w, "write")
    /\ UNCHANGED <<owner, litter, rows, issued, faults>>

\* A failed create takes back the directory it made; others just fail.
GiveUp(w) == IF worker[w].op = "create" THEN Go(w, "undo") ELSE Stop(w)

\* ... the owner is written to a temporary file in it, ...
WriteTemporary(w) ==
    /\ worker[w].at = "write"
    /\ IF TheKey(w) \in there THEN Go(w, "link") ELSE GiveUp(w)
    /\ UNCHANGED <<there, owner, litter, rows, issued, faults>>

\* Seeded fault: the file is renamed, over the owner that may be there.
LinkReplaces(w) ==
    /\ worker[w].at = "link"
    /\ owner' = [owner EXCEPT ![TheKey(w)] = OwnerRecord(TheKey(w), worker[w].id)]
    /\ Go(w, "unlink")
    /\ UNCHANGED <<there, litter, rows, issued, faults>>

\* ... linked to its name, which fails if there is an owner, ...
Link(w) ==
    /\ worker[w].at = "link"
    /\ owner' = IF owner[TheKey(w)] = NoOwner
                THEN [owner EXCEPT ![TheKey(w)] = OwnerRecord(TheKey(w), worker[w].id)]
                ELSE owner
    /\ Go(w, "unlink")
    /\ UNCHANGED <<there, litter, rows, issued, faults>>

\* ... and unlinked; then the owner is read back, whoever it is.
Unlink(w) ==
    /\ worker[w].at = "unlink"
    /\ Go(w, "read")
    /\ UNCHANGED <<there, owner, litter, rows, issued, faults>>

ReadBack(w) ==
    /\ worker[w].at = "read"
    /\ IF ~Readable(TheKey(w)) \/ owner[TheKey(w)].id # worker[w].id
       THEN GiveUp(w)
       ELSE IF worker[w].op = "run" THEN Stop(w) ELSE Go(w, "row")
    /\ UNCHANGED <<there, owner, litter, rows, issued, faults>>

\* A write or a sync fails, before or after the link; the temporary file goes.
Fail(w) ==
    /\ worker[w].at \in {"write", "link", "unlink"}
    /\ faults < MaxFaults
    /\ faults' = faults + 1
    /\ GiveUp(w)
    /\ UNCHANGED <<there, owner, litter, rows, issued>>

IsEmpty(w) ==
    /\ owner[TheKey(w)] = NoOwner
    /\ TheKey(w) \notin litter
    /\ \A v \in Workers \ {w} : TheKey(v) = TheKey(w) => worker[v].at \notin {"link", "unlink"}
    /\ \A b \in Batches \cap there : ProjectOf[b] # TheKey(w)

\* rmdir removes an empty directory only; that it fails is ignored.
Undo(w) ==
    /\ worker[w].at = "undo"
    /\ there' = IF IsEmpty(w) THEN there \ {TheKey(w)} ELSE there
    /\ owner' = IF IsEmpty(w) THEN [owner EXCEPT ![TheKey(w)] = NoOwner] ELSE owner
    /\ Stop(w)
    /\ UNCHANGED <<litter, rows, issued, faults>>

\* ProjectStore.create: identities and keys are unique, and so are names, by
\* which an insert may fail that these two would let through.
SameTable(key, other) == key \in Projects <=> other \in Projects

IsTaken(key, id) ==
    \E row \in rows : row.key = key \/ (row.id = id /\ SameTable(row.key, key))

InsertRow(w) ==
    /\ worker[w].at = "row"
    /\ \/ /\ ~IsTaken(TheKey(w), worker[w].id)
          /\ rows' = rows \cup {[key |-> TheKey(w), id |-> worker[w].id]}
       \/ UNCHANGED rows
    /\ Stop(w)
    /\ UNCHANGED <<there, owner, litter, issued, faults>>

Crash ==
    /\ faults < MaxFaults
    /\ faults' = faults + 1
    /\ litter' = litter \cup {TheKey(w) : w \in {v \in Workers : worker[v].at \in {"link", "unlink"}}}
    /\ worker' = [w \in Workers |-> Idle]
    /\ UNCHANGED <<there, owner, rows, issued>>

Init ==
    /\ there = {}
    /\ owner = [key \in Keys |-> NoOwner]
    /\ litter = {}
    /\ rows = {}
    /\ issued = 0
    /\ worker = [w \in Workers |-> Idle]
    /\ faults = 0

Next ==
    \/ \E w \in Workers :
          \/ \E key \in Keys :
                \/ Create(w, key)
                \/ \E given \in {None, Supplied} : Adopt(w, key, given)
                \/ \E id \in {Supplied} \cup {row.id : row \in {r \in rows : r.key = key}} : PublishForRun(w, key, id)
          \/ MakeDirectory(w) \/ CheckOwnerless(w)
          \/ EnsureDirectory(w) \/ WriteTemporary(w) \/ Link(w) \/ Unlink(w) \/ ReadBack(w)
          \/ Fail(w) \/ Undo(w) \/ InsertRow(w)
    \/ Crash

Spec == Init /\ [][Next]_vars

-----------------------------------------------------------------------------
TypeOK ==
    /\ there \subseteq Keys /\ litter \subseteq Keys
    /\ \A key \in Keys : owner[key].id \in Ids \cup {None}
    /\ \A row \in rows : row.key \in Keys /\ row.id \in Ids
    /\ issued \in 0 .. MaxIds /\ faults \in 0 .. MaxFaults

\* discover and the filters of list_adoptable_projects and
\* list_adoptable_saved_batches.
IsAdoptable(key) ==
    /\ key \in there
    /\ ~Registered(key)
    /\ \/ owner[key] = NoOwner
       \/ /\ Readable(key)
          /\ ~\E row \in rows : row.id = owner[key].id /\ SameTable(row.key, key)

\* What is registered under a key is what the directory says it is, and a
\* Batch's directory lies in the Project its owner file names.
RegisteredIsOwned ==
    \A row \in rows : Readable(row.key) /\ owner[row.key].id = row.id

\* No request takes away a directory that has an owner.
OwnersAreKept == \A key \in Keys : owner[key] # NoOwner => key \in there

\* A directory that a creation left without a row can be adopted with the
\* identity it was created with, whatever failed (docs/API.md: "If the insert
\* fails, the owner remains available for explicit adoption").
OwnersStayAdoptable ==
    \A key \in Keys : owner[key].id \in 1 .. MaxIds => Registered(key) \/ IsAdoptable(key)

\* Whoever creates, adopts, fails, publishes a Run or crashes between the owner
\* file and the row: every registered Project or Batch owns its directory, no
\* request removes one that has an owner, and one left unregistered can be adopted.
OwnersAgree ==
    /\ TypeOK
    /\ RegisteredIsOwned
    /\ OwnersAreKept
    /\ OwnersStayAdoptable
=============================================================================
