------------------------- MODULE HistoryProjection -------------------------
(***************************************************************************)
(* The history of one registered Project: the scan of its directory        *)
(* (files/history.py) and the replacement of its rows in SQLite            *)
(* (db/history.py), as _refresh_project of application/service.py runs     *)
(* them for reindex requests and after every Run publication.  The lock of *)
(* the Project covers a whole scan and replacement; it does not keep the   *)
(* executor from writing execution.json, an import from adding the Asset,  *)
(* nor anybody from changing the directory.                                *)
(***************************************************************************)
EXTENDS Integers, FiniteSets

CONSTANTS Runs,       \* Runs of the Project
          Workers,    \* threads of requests
          MaxAssets,  \* bound on the identities given to the one Asset content
          Free, None

HistoryAssumption == None \notin Runs /\ Free \notin Workers /\ MaxAssets \in Nat

VARIABLES run,     \* each Run's directory, in the batches root or where that was moved to
          asset,   \* identity in the asset.json of the content, 0 when it is missing
          issued,  \* Asset identities given out
          rooted,  \* the batches directory is there
          index,   \* the rows of historical_run
          lock,    \* holder of the Project's history lock
          worker   \* where each request stands

vars == <<run, asset, issued, rooted, index, lock, worker>>

\* 0 created, 1 running, 2 over: execution.json only moves on.
Statuses == 0 .. 2
AbsentRun == [state |-> "absent", status |-> 0, asset |-> 0]
NoRow == [known |-> FALSE, status |-> 0, asset |-> 0, integrity |-> "verified"]
NoScan == [assets |-> {}, rows |-> [r \in Runs |-> NoRow], left |-> {}, rootMissing |-> FALSE]
Idle == [at |-> "idle", run |-> None, asset |-> 0, scan |-> NoScan]

Go(w, at) == worker' = [worker EXCEPT ![w].at = at]

-----------------------------------------------------------------------------
\* _resolve_assets reads the Asset's record before the lock is taken.
Create(w, r) ==
    /\ worker[w] = Idle
    /\ run[r].state = "absent"
    /\ \A v \in Workers : worker[v].run # r
    /\ asset # 0
    /\ worker' = [worker EXCEPT ![w] = [Idle EXCEPT !.at = "lock", !.run = r, !.asset = asset]]
    /\ UNCHANGED <<run, asset, issued, rooted, index, lock>>

Reindex(w) ==
    /\ worker[w] = Idle
    /\ Go(w, "lock")
    /\ UNCHANGED <<run, asset, issued, rooted, index, lock>>

\* Seeded fault: the Run is published before the lock is taken, and the scan
\* is not repeated under it.
AcquireForReplacement(w) ==
    /\ worker[w].at = "lock"
    /\ UNCHANGED lock
    /\ Go(w, IF worker[w].run = None THEN "assets" ELSE "publish")
    /\ UNCHANGED <<run, asset, issued, rooted, index>>

Acquire(w) ==
    /\ worker[w].at = "lock"
    /\ lock = Free
    /\ lock' = w
    /\ Go(w, IF worker[w].run = None THEN "assets" ELSE "publish")
    /\ UNCHANGED <<run, asset, issued, rooted, index>>

\* What a batches root made anew has no place for stays where it was moved to.
Remaining == [r \in Runs |-> IF rooted \/ run[r] = AbsentRun THEN run[r] ELSE [run[r] EXCEPT !.state = "moved"]]

\* create_run loads the Asset again and makes the batches root if there is
\* none; RunPublication has the rest of it.
Publish(w) ==
    /\ worker[w].at = "publish"
    /\ IF asset = worker[w].asset
       THEN /\ run' = [Remaining EXCEPT ![worker[w].run] =
                         [state |-> "published", status |-> 0, asset |-> asset]]
            /\ rooted' = TRUE
            /\ Go(w, "assets")
       ELSE Go(w, "release") /\ UNCHANGED <<run, rooted>>
    /\ UNCHANGED <<asset, issued, index, lock>>

ScanAssets(w) ==
    /\ worker[w].at = "assets"
    /\ worker' = [worker EXCEPT ![w].at = "list",
                    ![w].scan = [NoScan EXCEPT !.assets = {asset} \ {0}]]
    /\ UNCHANGED <<run, asset, issued, rooted, index, lock>>

\* The directories of the batches are listed ...
ListRuns(w) ==
    /\ worker[w].at = "list"
    /\ worker' = [worker EXCEPT ![w].at = "runs", ![w].scan.rootMissing = ~rooted,
                    ![w].scan.left = {r \in Runs : rooted /\ run[r].state \in {"published", "damaged"}}]
    /\ UNCHANGED <<run, asset, issued, rooted, index, lock>>

\* ... and each Run is read.  One that is malformed, or twice in the Project,
\* leaves a diagnostic and no row.
Integrity(r) ==
    CASE run[r].asset = asset -> "verified"
      [] asset = 0 -> "missing"
      [] OTHER -> "corrupt"

RowOf(r) ==
    IF run[r].state = "published"
    THEN [known |-> TRUE, status |-> run[r].status, asset |-> run[r].asset, integrity |-> Integrity(r)]
    ELSE NoRow

ScanRun(w, r) ==
    /\ worker[w].at = "runs"
    /\ r \in worker[w].scan.left
    /\ worker' = [worker EXCEPT ![w].scan.rows[r] = RowOf(r), ![w].scan.left = @ \ {r}]
    /\ UNCHANGED <<run, asset, issued, rooted, index, lock>>

\* A referenced Asset is a row of its own; the table has UNIQUE (project_id,
\* sha256), so a second identity of one content fails the transaction.
AssetRows(scan) ==
    scan.assets \cup {scan.rows[r].asset : r \in {q \in Runs : scan.rows[q].known}}

Refuses(scan) == scan.rootMissing /\ \E r \in Runs : index[r].known

\* replace_project: one transaction, all or nothing.
Replace(w) ==
    LET scan == worker[w].scan IN
    /\ worker[w].at = "runs"
    /\ scan.left = {}
    /\ IF Refuses(scan) \/ Cardinality(AssetRows(scan)) > 1
       THEN /\ Go(w, IF Refuses(scan) THEN "release" ELSE "failed")
            /\ UNCHANGED index
       ELSE /\ Go(w, "release")
            /\ index' = scan.rows
    /\ UNCHANGED <<run, asset, issued, rooted, lock>>

\* A failed refresh is an error for reindex and a warning for a publication.
Release(w) ==
    /\ worker[w].at \in {"release", "failed"}
    /\ lock' = Free
    /\ worker' = [worker EXCEPT ![w] = Idle]
    /\ UNCHANGED <<run, asset, issued, rooted, index>>

-----------------------------------------------------------------------------
\* The executor writes execution.json without the lock.
Execute(r) ==
    /\ run[r].state = "published"
    /\ rooted
    /\ run[r].status < 2
    /\ run' = [run EXCEPT ![r].status = @ + 1]
    /\ UNCHANGED <<asset, issued, rooted, index, lock, worker>>

\* An import gives a content that is not there a new identity.
ImportAsset ==
    /\ asset = 0
    /\ issued < MaxAssets
    /\ issued' = issued + 1
    /\ asset' = issued + 1
    /\ UNCHANGED <<run, rooted, index, lock, worker>>

\* What the degraded-content checks of the acceptance plan do to a Project.
LoseAsset ==
    /\ asset # 0
    /\ asset' = 0
    /\ UNCHANGED <<run, issued, rooted, index, lock, worker>>

DamageRun(r) ==
    /\ run[r].state = "published"
    /\ run' = [run EXCEPT ![r].state = "damaged"]
    /\ UNCHANGED <<asset, issued, rooted, index, lock, worker>>

\* The root is moved away or back between two refreshes; a move during one is
\* the race with an outside writer that docs/API.md excludes.
MoveRoot ==
    /\ lock = Free
    /\ ~rooted => \A r \in Runs : run[r].state # "moved"
    /\ rooted' = ~rooted
    /\ UNCHANGED <<run, asset, issued, index, lock, worker>>

Init ==
    /\ run = [r \in Runs |-> AbsentRun]
    /\ asset = 0
    /\ issued = 0
    /\ rooted = TRUE
    /\ index = [r \in Runs |-> NoRow]
    /\ lock = Free
    /\ worker = [w \in Workers |-> Idle]

Next ==
    \/ \E w \in Workers :
          \/ \E r \in Runs : Create(w, r) \/ ScanRun(w, r)
          \/ Reindex(w) \/ Acquire(w) \/ Publish(w) \/ ScanAssets(w) \/ ListRuns(w)
          \/ Replace(w) \/ Release(w)
    \/ \E r \in Runs : Execute(r) \/ DamageRun(r)
    \/ ImportAsset \/ LoseAsset \/ MoveRoot

Spec == Init /\ [][Next]_vars

-----------------------------------------------------------------------------
Row == [known : BOOLEAN, status : Statuses, asset : 0 .. MaxAssets,
        integrity : {"verified", "missing", "corrupt"}]
Scan == [assets : SUBSET (1 .. MaxAssets), rows : [Runs -> Row], left : SUBSET Runs, rootMissing : BOOLEAN]

TypeOK ==
    /\ run \in [Runs -> [state : {"absent", "published", "damaged", "moved"}, status : Statuses, asset : 0 .. MaxAssets]]
    /\ asset \in 0 .. MaxAssets /\ issued \in 0 .. MaxAssets
    /\ rooted \in BOOLEAN
    /\ index \in [Runs -> Row]
    /\ lock \in Workers \cup {Free}
    /\ worker \in [Workers -> [at : {"idle", "lock", "publish", "assets", "list", "runs", "failed", "release"},
                               run : Runs \cup {None}, asset : 0 .. MaxAssets, scan : Scan]]

\* What the history shows never goes back: a Run leaves it only when its own
\* directory no longer loads from the batches root, and its status is never
\* replaced by an earlier one, whatever is published, executed, lost or
\* scanned at the same time (docs/API.md: "Per-Project locks serialize the
\* entire scan-and-replace cycle"; a missing root keeps the prior history).
HistoryNeverGoesBack ==
    [][\A r \in Runs :
          index[r].known =>
            \/ index'[r].known /\ index'[r].status >= index[r].status
            \/ run[r].state \in {"damaged", "moved"}]_vars

\* One Run that does not fit the others does not keep the rest of the Project
\* out of the history (docs/API.md: "Individually malformed Runs remain
\* isolated with diagnostics").
RunsAreIsolated == \A w \in Workers : worker[w].at # "failed"
=============================================================================
