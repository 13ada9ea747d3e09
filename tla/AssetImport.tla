----------------------------- MODULE AssetImport -----------------------------
(***************************************************************************)
(* The import of image files into a Project (files/assets.py), by requests *)
(* that run in threads of their own and take no lock.  A file is copied to *)
(* a staging directory, hashed, given its asset.json and renamed to the    *)
(* directory of its hash; who finds one there answers with that.  A crash  *)
(* of the process stops all requests where they are.                       *)
(***************************************************************************)
EXTENDS Naturals, Sequences, FiniteSets

CONSTANTS Importers,  \* requests
          Uploads,    \* the sequences of contents that a request may bring
          Contents,
          MaxIds,     \* bound on the identities given out
          MaxFaults   \* bound on failed writes, crashes and damage

ImportAssumption ==
    /\ Uploads \subseteq Seq(Contents) \ {<<>>}
    /\ MaxIds \in Nat /\ MaxFaults \in Nat

VARIABLES final,     \* the directory of each content's hash
          staging,   \* the importer's staging directory
          import,    \* where each request stands
          issued,    \* identities given out
          litter,    \* staging directories of requests that crashed
          answered,  \* records that a request was answered with
          faults

vars == <<final, staging, import, issued, litter, answered, faults>>

NoFile == [there |-> FALSE, id |-> 0, whole |-> FALSE]
NotStaged == [there |-> FALSE, content |-> FALSE, id |-> 0]
Idle == [at |-> "idle", left |-> <<>>, got |-> {}]

TheContent(i) == Head(import[i].left)

Go(i, at) == import' = [import EXCEPT ![i].at = at]

-----------------------------------------------------------------------------
\* import_project_assets has checked every image by now.
Begin(i, upload) ==
    /\ import[i] = Idle
    /\ import' = [import EXCEPT ![i] = [at |-> "stage", left |-> upload, got |-> {}]]
    /\ UNCHANGED <<final, staging, issued, litter, answered, faults>>

StageContent(i) ==
    /\ import[i].at = "stage"
    /\ staging' = [staging EXCEPT ![i] = [there |-> TRUE, content |-> TRUE, id |-> 0]]
    /\ Go(i, "look")
    /\ UNCHANGED <<final, issued, litter, answered, faults>>

\* The hash is known: a content that is there is not stored again.
Look(i) ==
    /\ import[i].at = "look"
    /\ Go(i, IF final[TheContent(i)].there THEN "load" ELSE "describe")
    /\ UNCHANGED <<final, staging, issued, litter, answered, faults>>

Describe(i) ==
    /\ import[i].at = "describe"
    /\ issued < MaxIds
    /\ issued' = issued + 1
    /\ staging' = [staging EXCEPT ![i].id = issued + 1]
    /\ Go(i, "rename")
    /\ UNCHANGED <<final, litter, answered, faults>>

\* Seeded fault: who comes second answers with its own record.
MoveAndTrust(i) ==
    /\ import[i].at = "rename"
    /\ IF final[TheContent(i)].there
       THEN UNCHANGED <<final, staging>> /\ import' = [import EXCEPT ![i].at = "cleanUp", ![i].got = @ \cup {<<TheContent(i), staging[i].id>>}]
       ELSE /\ final' = [final EXCEPT ![TheContent(i)] = [there |-> TRUE, id |-> staging[i].id, whole |-> TRUE]]
            /\ staging' = [staging EXCEPT ![i] = NotStaged]
            /\ Go(i, "load")
    /\ UNCHANGED <<issued, litter, answered, faults>>

\* rename fails on a directory that is not empty; that is taken for a content
\* that another request stored meanwhile.
Move(i) ==
    /\ import[i].at = "rename"
    /\ IF final[TheContent(i)].there
       THEN UNCHANGED <<final, staging>>
       ELSE /\ final' = [final EXCEPT ![TheContent(i)] = [there |-> TRUE, id |-> staging[i].id, whole |-> TRUE]]
            /\ staging' = [staging EXCEPT ![i] = NotStaged]
    /\ Go(i, "load")
    /\ UNCHANGED <<issued, litter, answered, faults>>

\* load: the stored record, if the bytes still have its hash.
Load(i) ==
    LET file == final[TheContent(i)] IN
    /\ import[i].at = "load"
    /\ import' = IF file.whole
                 THEN [import EXCEPT ![i].at = "cleanUp", ![i].got = @ \cup {<<TheContent(i), file.id>>}]
                 ELSE [import EXCEPT ![i].at = "failed"]
    /\ UNCHANGED <<final, staging, issued, litter, answered, faults>>

\* Whichever file fails, the request fails; what it stored before stays.
Fail(i) ==
    /\ import[i].at \in {"stage", "describe", "rename"}
    /\ faults < MaxFaults
    /\ faults' = faults + 1
    /\ \E made \in IF import[i].at = "stage" THEN BOOLEAN ELSE {TRUE} :
          staging' = [staging EXCEPT ![i].there = made]
    /\ Go(i, "failed")
    /\ UNCHANGED <<final, issued, litter, answered>>

\* The finally of import_file, then the next file or the answer.
CleanUp(i) ==
    /\ import[i].at \in {"cleanUp", "failed"}
    /\ staging' = [staging EXCEPT ![i] = NotStaged]
    /\ CASE import[i].at = "failed" ->
              import' = [import EXCEPT ![i] = Idle] /\ UNCHANGED answered
         [] import[i].at = "cleanUp" /\ Len(import[i].left) > 1 ->
              import' = [import EXCEPT ![i].at = "stage", ![i].left = Tail(@)] /\ UNCHANGED answered
         [] OTHER ->
              import' = [import EXCEPT ![i] = Idle] /\ answered' = answered \cup import[i].got
    /\ UNCHANGED <<final, issued, litter, faults>>

Crash ==
    /\ faults < MaxFaults
    /\ faults' = faults + 1
    /\ litter' = (litter \/ \E i \in Importers : staging[i].there)
    /\ staging' = [i \in Importers |-> NotStaged]
    /\ import' = [i \in Importers |-> Idle]
    /\ UNCHANGED <<final, issued, answered>>

\* Somebody changes stored bytes.
Damage(c) ==
    /\ final[c].whole
    /\ faults < MaxFaults
    /\ faults' = faults + 1
    /\ final' = [final EXCEPT ![c].whole = FALSE]
    /\ UNCHANGED <<staging, import, issued, litter, answered>>

Init ==
    /\ final = [c \in Contents |-> NoFile]
    /\ staging = [i \in Importers |-> NotStaged]
    /\ import = [i \in Importers |-> Idle]
    /\ issued = 0
    /\ litter = FALSE
    /\ answered = {}
    /\ faults = 0

Next ==
    \/ \E i \in Importers :
          \/ \E upload \in Uploads : Begin(i, upload)
          \/ StageContent(i) \/ Look(i) \/ Describe(i) \/ Move(i) \/ Load(i) \/ Fail(i) \/ CleanUp(i)
    \/ \E c \in Contents : Damage(c)
    \/ Crash

Spec == Init /\ [][Next]_vars

-----------------------------------------------------------------------------
TypeOK ==
    /\ \A c \in Contents : final[c].id \in 0 .. MaxIds /\ (final[c].whole => final[c].there)
    /\ \A i \in Importers : staging[i].id \in 0 .. MaxIds
    /\ issued \in 0 .. MaxIds /\ faults \in 0 .. MaxFaults /\ litter \in BOOLEAN

\* A directory is visible under its hash only with all that belongs in it.
StoredIsDescribed == \A c \in Contents : final[c].there => final[c].id # 0

\* Every request for a content is answered with the one record it has,
\* whoever imported it and whatever failed before (docs/API.md: "importing
\* identical bytes returns the original Asset record").
AnswersAgree == \A c \in Contents, n \in 1 .. MaxIds : <<c, n>> \in answered => final[c].id = n

\* No two contents share an identity, which listing would refuse for all.
IdentitiesDiffer ==
    \A c, d \in Contents : c # d /\ final[c].there /\ final[d].there => final[c].id # final[d].id

\* No request leaves its staging directory behind unless the process crashed.
StagingIsCleared == \A i \in Importers : import[i] = Idle => ~staging[i].there

\* However many requests import the same bytes, and whatever fails or crashes
\* between the content, its description and its rename: an Asset in the root is
\* whole, a content has one record, and no request leaves anything behind.
AssetsAreOriginal ==
    /\ TypeOK
    /\ StoredIsDescribed
    /\ AnswersAgree
    /\ IdentitiesDiffer
    /\ StagingIsCleared
=============================================================================
