------------------------------- MODULE Stores -------------------------------
(***************************************************************************)
(* What BatchCraft keeps in its database and its Project directories, and  *)
(* the admission of requests in front of it.  These machines share no      *)
(* state; a behaviour exercises one of them, and leaves the others as they *)
(* are at the start.                                                       *)
(***************************************************************************)
EXTENDS ReadCapacity

CONSTANTS Clients,   \* clients, threads and importers
          None, Free,
          \* PromptLibrary
          Prompts, PromptVersions, CopyPrompt, CopyVersion, Names, Texts, CopyText, MaxNumber,
          \* WorkflowLibrary
          Importers, Workflows, WorkflowVersions, Profiles, ProfileVersions, Contents, Mappings, Fits, Frozen, Import,
          \* GlobalLibrary
          RequestIds, GlobalNames, GlobalContents, MaxReceipts,
          \* HistoryProjection
          Runs, MaxAssets,
          \* AssetImport
          Uploads, MaxUploads, MaxMishaps,
          \* OwnerFiles
          Projects, Batches, ProjectOf, MaxOwners, MaxFailures

VARIABLES which,
          prompt, version, issued, selected, call,                      \* PromptLibrary
          workflow, workflowVersion, profile, profileVersion, asking,   \* WorkflowLibrary
          family, revision, authored, copied, there, import, replies,   \* GlobalLibrary
          run, asset, assetIds, rooted, index, lock, worker,            \* HistoryProjection
          final, staging, upload, contentIds, litter, answered, faults, \* AssetImport
          present, owner, temporary, rows, ownerIds, job, failures      \* OwnerFiles

Prompt == INSTANCE PromptLibrary WITH Versions <- PromptVersions

Workflow == INSTANCE WorkflowLibrary WITH Clients <- Importers, call <- asking

Global == INSTANCE GlobalLibrary WITH
  Names <- GlobalNames, Contents <- GlobalContents, version <- revision, answered <- replies

History == INSTANCE HistoryProjection WITH Workers <- Clients, issued <- assetIds

Asset == INSTANCE AssetImport WITH
  Importers <- Clients, MaxIds <- MaxUploads, MaxFaults <- MaxMishaps, import <- upload, issued <- contentIds

Owner == INSTANCE OwnerFiles WITH
  Workers <- Clients, MaxIds <- MaxOwners, MaxFaults <- MaxFailures,
  there <- present, litter <- temporary, issued <- ownerIds, worker <- job, faults <- failures

ASSUME StoresAssumption ==
  /\ CapacityAssumption
  /\ Prompt!LibraryAssumption
  /\ Workflow!WorkflowAssumption
  /\ History!HistoryAssumption
  /\ Asset!ImportAssumption
  /\ Owner!OwnerAssumption

-----------------------------------------------------------------------------
prompts == <<prompt, version, issued, selected, call>>
workflows == <<workflow, workflowVersion, profile, profileVersion, asking>>
globals == <<family, revision, authored, copied, there, import, replies>>
histories == <<run, asset, assetIds, rooted, index, lock, worker>>
assets == <<final, staging, upload, contentIds, litter, answered, faults>>
requests == <<request, inflight, active, waiters>>
owners == <<present, owner, temporary, rows, ownerIds, job, failures>>

StoresInit ==
  /\ which \in {"prompts", "workflows", "globals", "histories", "assets", "requests", "owners"}
  /\ Prompt!Init
  /\ Workflow!Init
  /\ Global!Init
  /\ History!Init
  /\ Asset!Init
  /\ Init
  /\ Owner!Init

StoresNext ==
  /\ UNCHANGED which
  /\ \/ which = "prompts" /\ Prompt!Next /\ UNCHANGED <<workflows, globals, histories, assets, requests, owners>>
     \/ which = "workflows" /\ Workflow!Next /\ UNCHANGED <<prompts, globals, histories, assets, requests, owners>>
     \/ which = "globals" /\ Global!Next /\ UNCHANGED <<prompts, workflows, histories, assets, requests, owners>>
     \/ which = "histories" /\ History!Next /\ UNCHANGED <<prompts, workflows, globals, assets, requests, owners>>
     \/ which = "assets" /\ Asset!Next /\ UNCHANGED <<prompts, workflows, globals, histories, requests, owners>>
     \/ which = "requests" /\ Next /\ UNCHANGED <<prompts, workflows, globals, histories, assets, owners>>
     \/ which = "owners" /\ Owner!Next /\ UNCHANGED <<prompts, workflows, globals, histories, assets, requests>>

StoresSpec ==
  StoresInit /\ [][StoresNext]_<<which, prompts, workflows, globals, histories, assets, requests, owners>>

-----------------------------------------------------------------------------
(* No version number of a Prompt comes twice or is left out, no two Prompts *)
(* share a name, and what Saved Batches select is there, whatever imports  *)
(* and deletions come between (db/prompts.py).                             *)
LibraryIsSound == Prompt!TypeOK /\ Prompt!LibraryIsSound

(* Versions are numbered without a gap and a Profile version fits the      *)
(* WorkflowVersion it targets, whatever imports of a Run's setup and their *)
(* repetitions come between (db/workflows.py, import copies of SV).        *)
WorkflowsAreSound == Workflow!TypeOK /\ Workflow!WorkflowsAreSound

(* A command of the shared library is carried out once and answered alike  *)
(* however often it is sent, and no request id serves two commands         *)
(* (db/global_workflows.py, _author and _copy_receipt).                    *)
CommandsAreIdempotent == Global!CommandsAreIdempotent

(* The index of a Project's history never goes back: a Run that was listed *)
(* stays listed, at least as far as it was executed, while scans and       *)
(* publications of several threads overlap (db/history.py).                *)
HistoryNeverGoesBack == History!HistoryNeverGoesBack

(* One identity for each stored content, and the one that every importer   *)
(* was answered with, although importers race and crash between the        *)
(* content and its description (files/assets.py).                          *)
AssetsAreOriginal == Asset!AssetsAreOriginal

(* What the database registers is what the owner file of the directory     *)
(* says, and an owner file once visible stays, and stays adoptable, through*)
(* failures and crashes (files/library.py, project_owners.py).             *)
OwnersAgree == Owner!OwnersAgree
=============================================================================
