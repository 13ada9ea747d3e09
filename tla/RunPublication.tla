--------------------------- MODULE RunPublication ---------------------------
(***************************************************************************)
(* RunFilesystemStore.create_run of files/runs.py: creators of Runs of one *)
(* Batch reserve a number below .allocations, stage a directory below      *)
(* .staging, check it and rename it to its published name NNN-slug.        *)
(*                                                                         *)
(* Every step on the file system is an action of its own.  A power failure *)
(* (PowerLoss) ends all creators and may undo whatever no fsync has        *)
(* reached.  The published names of two creators differ (their slugs may), *)
(* which is the worst case: equal names would make the second rename fail. *)
(***************************************************************************)
EXTENDS Naturals, FiniteSets

CONSTANTS Creators,        \* calls of create_run, in one process or several
          MaxFaults,       \* bound on failed file operations and refusals
          MaxPowerLosses   \* bound on power failures

ASSUME ConstantsAssumption ==
  /\ IsFiniteSet(Creators)
  /\ MaxFaults \in Nat
  /\ MaxPowerLosses \in Nat

(* What a Run directory holds when it is complete, in the order the code   *)
(* writes it.  Readers do without the CSV (validate_csv is FALSE then).    *)
Files == {"outputs", "workflow", "profile", "run", "manifest", "csv"}
Required == Files \ {"csv"}

FileAfter == [outputs |-> "workflow", workflow |-> "profile", profile |-> "run",
              run |-> "manifest", manifest |-> "csv"]

VARIABLES published,  \* directory entries NNN-slug of the Batch directory
          durable,    \* those of them an fsync of the Batch directory has reached
          staging,    \* creators whose directory below .staging exists
          content,    \* files in each creator's Run directory
          synced,     \* creators whose Run directory an fsync has reached
          reserved,   \* directories below .allocations
          allocated,  \* those an fsync of .allocations has left on the disk
          pc, number, \* where each creator stands, the number it tries
          answer,     \* what create_run gave its caller ("error": an exception raised
                      \* by the finally clause of a call that had published)
          unsynced,   \* creators whose last fsync failed and was tolerated
          faults, losses

vars == <<published, durable, staging, content, synced, reserved, allocated,
          pc, number, answer, unsynced, faults, losses>>

Entry == [number : Nat, run : Creators]

(* A creator owns its reservation from the mkdir to the rmdir. *)
Holding == {"syncReservation", "recheck", "stage", "write", "syncStaged", "validate",
            "publish", "syncPublished", "cleanUp", "release"}

PCs == Holding \cup {"new", "probe", "reserve", "done", "dead"}

TypeOK ==
  /\ published \subseteq Entry
  /\ durable \subseteq published
  /\ staging \subseteq Creators
  /\ content \in [Creators -> SUBSET Files]
  /\ synced \subseteq Creators
  /\ reserved \subseteq Nat
  /\ allocated \subseteq Nat
  /\ pc \in [Creators -> PCs]
  /\ number \in [Creators -> Nat]
  /\ answer \in [Creators -> {"none", "run", "failed", "error"}]
  /\ unsynced \subseteq Creators
  /\ faults \in 0..MaxFaults
  /\ losses \in 0..MaxPowerLosses

Init ==
  /\ published = {}
  /\ durable = {}
  /\ staging = {}
  /\ content = [c \in Creators |-> {}]
  /\ synced = {}
  /\ reserved = {}
  /\ allocated = {}
  /\ pc = [c \in Creators |-> "new"]
  /\ number = [c \in Creators |-> 0]
  /\ answer = [c \in Creators |-> "none"]
  /\ unsynced = {}
  /\ faults = 0
  /\ losses = 0

(***************************************************************************)
(* Steps of one creator.                                                   *)
(***************************************************************************)
At(c, label) == pc[c] = label
Goto(c, label) == pc' = [pc EXCEPT ![c] = label]
Return(c, result) == answer' = [answer EXCEPT ![c] = result]

Fault == faults < MaxFaults /\ faults' = faults + 1

onDirectories == <<published, durable, staging, content, synced>>
onReservations == <<reserved, allocated>>

IsPublished(n) == \E e \in published : e.number = n

(* Owners, plan, assets and names are in order; count(1) starts. *)
Begin(c) ==
  /\ At(c, "new")
  /\ Goto(c, "probe")
  /\ number' = [number EXCEPT ![c] = 1]
  /\ UNCHANGED <<onDirectories, onReservations, answer, unsynced, faults, losses>>

(* Every error before the try leaves create_run at once: an owner, the     *)
(* plan, an asset, a name or the new Run ID is refused, or an operation on *)
(* .allocations fails.  A reservation that exists by then stays.           *)
Refuse(c) ==
  /\ \E label \in {"new", "probe", "reserve", "syncReservation", "recheck"} : At(c, label)
  /\ Fault
  /\ Goto(c, "done")
  /\ Return(c, "failed")
  /\ UNCHANGED <<onDirectories, onReservations, number, unsynced, losses>>

\* Seeded fault: the creator tries the same number again.
SameNumber(n) == n

(* count(1) *)
Successor(n) == n + 1

(* The next number: somebody else has this one. *)
TryNext(c) ==
  /\ number' = [number EXCEPT ![c] = Successor(@)]
  /\ Goto(c, "probe")

Probe(c) ==
  /\ At(c, "probe")
  /\ \/ IsPublished(number[c]) /\ TryNext(c)
     \/ ~IsPublished(number[c]) /\ Goto(c, "reserve") /\ UNCHANGED number
  /\ UNCHANGED <<onDirectories, onReservations, answer, unsynced, faults, losses>>

IsReserved(n) == n \in reserved

(* mkdir of the reservation either creates it or says that it exists. *)
Reserve(c) ==
  /\ At(c, "reserve")
  /\ \/ IsReserved(number[c]) /\ TryNext(c) /\ UNCHANGED reserved
     \/ /\ ~IsReserved(number[c])
        /\ reserved' = reserved \cup {number[c]}
        /\ Goto(c, "syncReservation")
        /\ UNCHANGED number
  /\ UNCHANGED <<onDirectories, allocated, answer, unsynced, faults, losses>>

SyncReservation(c) ==
  /\ At(c, "syncReservation")
  /\ allocated' = reserved
  /\ Goto(c, "recheck")
  /\ UNCHANGED <<onDirectories, reserved, number, answer, unsynced, faults, losses>>

\* Seeded fault: the number is not checked again after the mkdir.
TakenMeanwhileIgnored(c) == FALSE

(* Between the first check and the mkdir another creator may have          *)
(* published this number and removed its reservation.                      *)
TakenMeanwhile(c) == IsPublished(number[c])

Recheck(c) ==
  /\ At(c, "recheck")
  /\ \/ /\ TakenMeanwhile(c)
        /\ reserved' = reserved \ {number[c]}
        /\ TryNext(c)
     \/ /\ ~TakenMeanwhile(c)
        /\ Goto(c, "stage")
        /\ UNCHANGED <<reserved, number>>
  /\ UNCHANGED <<onDirectories, allocated, answer, unsynced, faults, losses>>

(* mkdir below .staging, and an fsync that may fail after it. *)
Stage(c) ==
  /\ At(c, "stage")
  /\ \/ staging' = staging \cup {c} /\ Goto(c, "write") /\ UNCHANGED <<answer, faults>>
     \/ staging' = staging \cup {c} /\ Goto(c, "cleanUp") /\ Return(c, "failed") /\ Fault
     \/ Goto(c, "release") /\ Return(c, "failed") /\ Fault /\ UNCHANGED staging
  /\ UNCHANGED <<published, durable, content, synced, onReservations, number, unsynced, losses>>

(* The next file of the Run; after the last one the directory is synced. *)
WriteNext(c) ==
  /\ At(c, "write")
  /\ \E f \in Files :
       /\ f \notin content[c]
       /\ f = "outputs" \/ \E g \in content[c] : g # "csv" /\ FileAfter[g] = f
       /\ content' = [content EXCEPT ![c] = @ \cup {f}]
       /\ Goto(c, IF f = "csv" THEN "syncStaged" ELSE "write")
  /\ UNCHANGED <<published, durable, staging, synced, onReservations, number, answer, unsynced,
                 faults, losses>>

\* Seeded fault: the staged directory is not synced.
SyncedNever(c) == synced

(* fsync of the staged directory. *)
Synced(c) == synced \cup {c}

SyncStaged(c) ==
  /\ At(c, "syncStaged")
  /\ synced' = Synced(c)
  /\ Goto(c, "validate")
  /\ UNCHANGED <<published, durable, staging, content, onReservations, number, answer, unsynced,
                 faults, losses>>

(* The staged Run is loaded back, CSV included, and compared with the      *)
(* input.                                                                  *)
Validate(c) ==
  /\ At(c, "validate")
  /\ content[c] = Files
  /\ Goto(c, "publish")
  /\ UNCHANGED <<onDirectories, onReservations, number, answer, unsynced, faults, losses>>

(* Any of the writes, syncs and comparisons, or the rename, fails. *)
Abort(c) ==
  /\ \E label \in {"write", "syncStaged", "validate", "publish"} : At(c, label)
  /\ Fault
  /\ Goto(c, "cleanUp")
  /\ Return(c, "failed")
  /\ UNCHANGED <<onDirectories, onReservations, number, unsynced, losses>>

(* staging_path.rename(final_path): from here on the Run is there. *)
Publish(c) ==
  /\ At(c, "publish")
  /\ published' = published \cup {[number |-> number[c], run |-> c]}
  /\ staging' = staging \ {c}
  /\ Goto(c, "syncPublished")
  /\ UNCHANGED <<durable, content, synced, onReservations, number, answer, unsynced, faults,
                 losses>>

(* What an fsync of the Batch directory leaves on the disk. *)
SyncedEntries == published

\* Seeded fault: every OSError of _publish is raised.
AfterFailedSyncRaised == "failed"

(* An error after the rename is tolerated: the staging directory is gone   *)
(* and the final one is there.                                             *)
AfterFailedSync == "run"

SyncPublished(c) ==
  /\ At(c, "syncPublished")
  /\ \/ durable' = SyncedEntries /\ Return(c, "run") /\ UNCHANGED <<faults, unsynced>>
     \/ /\ Fault
        /\ unsynced' = unsynced \cup {c}
        /\ Return(c, AfterFailedSync)
        /\ UNCHANGED durable
  /\ Goto(c, "release")
  /\ UNCHANGED <<published, staging, content, synced, onReservations, number, losses>>

(* finally: the staging directory, then the reservation.  When the first   *)
(* removal fails, the second is not reached.                               *)
CleanUp(c) ==
  /\ At(c, "cleanUp")
  /\ \/ staging' = staging \ {c} /\ Goto(c, "release") /\ UNCHANGED faults
     \/ Fault /\ Goto(c, "done") /\ UNCHANGED staging
  /\ UNCHANGED <<published, durable, content, synced, onReservations, number, answer, unsynced,
                 losses>>

(* An error of this last rmdir replaces the Run that would be returned. *)
Release(c) ==
  /\ At(c, "release")
  /\ \/ reserved' = reserved \ {number[c]} /\ UNCHANGED <<answer, faults>>
     \/ /\ Fault
        /\ answer' = [answer EXCEPT ![c] = IF @ = "run" THEN "error" ELSE @]
        /\ UNCHANGED reserved
  /\ Goto(c, "done")
  /\ UNCHANGED <<onDirectories, allocated, number, unsynced, losses>>

(***************************************************************************)
(* A power failure: entries and files that were never synced may be gone,  *)
(* removals that were never synced may be undone.                          *)
(***************************************************************************)
PowerLoss ==
  /\ losses < MaxPowerLosses
  /\ losses' = losses + 1
  /\ \E kept \in SUBSET (published \ durable) :
       /\ published' = durable \cup kept
       /\ staging' = staging \cup {e.run : e \in published \ (durable \cup kept)}
  /\ durable' = published'
  /\ \E emptied \in SUBSET (Creators \ synced) :
       content' = [c \in Creators |-> IF c \in emptied THEN {} ELSE content[c]]
  /\ \E unsure \in SUBSET ((reserved \ allocated) \cup (allocated \ reserved)) :
       reserved' = (reserved \cap allocated) \cup unsure
  /\ allocated' = reserved'
  /\ pc' = [c \in Creators |-> IF pc[c] \in {"new", "done"} THEN pc[c] ELSE "dead"]
  /\ UNCHANGED <<synced, number, answer, unsynced, faults>>

CreatorStep(c) ==
  \/ Begin(c) \/ Refuse(c) \/ Probe(c) \/ Reserve(c) \/ SyncReservation(c) \/ Recheck(c)
  \/ Stage(c) \/ WriteNext(c) \/ SyncStaged(c) \/ Validate(c) \/ Abort(c) \/ Publish(c)
  \/ SyncPublished(c) \/ CleanUp(c) \/ Release(c)

Next == PowerLoss \/ \E c \in Creators : CreatorStep(c)

Spec == Init /\ [][Next]_vars

(* File operations end. *)
FairSpec == Spec /\ \A c \in Creators : WF_vars(CreatorStep(c))

-----------------------------------------------------------------------------
(* Rerunning never overwrites a Run: a number has one directory, whatever  *)
(* creators race, fail or die, and whatever a power failure undoes         *)
(* (docs/FILE_FORMAT.md:72-79).                                            *)
NumbersAreUnique ==
  \A d, e \in published : d.number = e.number => d = e

(* Whatever a reader finds under a published name loads, at every moment   *)
(* and after every power failure: the rename is the authority boundary     *)
(* (docs/FILE_FORMAT.md:470-476).                                          *)
PublishedIsComplete ==
  \A e \in published : Required \subseteq content[e.run]

(* A caller that got its Run keeps it through a power failure, unless the  *)
(* tolerated fsync was the one that failed.                                *)
AnsweredSurvives ==
  \A c \in Creators \ unsynced :
    answer[c] = "run" => [number |-> number[c], run |-> c] \in durable

(* A caller whose creation failed may repeat its request: nothing was      *)
(* published for it, and nothing will be.  (An exception of the finally    *)
(* clause, which cannot remove the reservation, may follow a publication.) *)
FailedIsUnpublished ==
  \A c \in Creators : answer[c] = "failed" => \A e \in published : e.run # c

(* What a caller was told stays true: a Run it got is there for good, and  *)
(* a creation that failed has left none.                                   *)
AnswersAreTrue == AnsweredSurvives /\ FailedIsUnpublished

(* Creators that contend for numbers all end. *)
CreatorsEnd ==
  \A c \in Creators : <>[](pc[c] \in {"done", "dead"})

-----------------------------------------------------------------------------
(* The inductive invariant behind the first four. *)
HoldersDiffer ==
  \A c, d \in Creators :
    pc[c] \in Holding /\ pc[d] \in Holding /\ number[c] = number[d] => c = d

HeldIsReserved ==
  \A c \in Creators : pc[c] \in Holding => number[c] \in reserved

(* Past the second check the number is the creator's own. *)
OwnNumber ==
  \A c \in Creators :
    pc[c] \in Holding \ {"syncReservation", "recheck"} =>
      \A e \in published : e.number = number[c] => e.run = c

(* A directory below .staging, and one about to be published, belongs to   *)
(* a creator in that phase.                                                *)
PhaseOfContent ==
  \A c \in Creators :
    /\ pc[c] \in {"validate", "publish"} => c \in synced
    /\ pc[c] = "publish" => content[c] = Files

PublishedWasSynced ==
  \A e \in published : e.run \in synced /\ content[e.run] = Files

PublishedByItsCreator ==
  \A e \in published :
    /\ pc[e.run] \in {"syncPublished", "release", "done", "dead"}
    /\ e.number = number[e.run]
    /\ answer[e.run] # "failed"

PhaseOfAnswer ==
  \A c \in Creators :
    /\ answer[c] # "none" => pc[c] \in {"cleanUp", "release", "done", "dead"}
    /\ pc[c] = "cleanUp" => answer[c] = "failed"
    /\ answer[c] = "error" => pc[c] = "done"
    /\ pc[c] = "syncPublished" => [number |-> number[c], run |-> c] \in published

PublicationInvariant ==
  /\ TypeOK
  /\ HoldersDiffer
  /\ HeldIsReserved
  /\ OwnNumber
  /\ PhaseOfContent
  /\ PublishedWasSynced
  /\ PublishedByItsCreator
  /\ PhaseOfAnswer
  /\ NumbersAreUnique
  /\ AnsweredSurvives
=============================================================================
