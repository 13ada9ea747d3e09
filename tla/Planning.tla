------------------------------ MODULE Planning ------------------------------
(***************************************************************************)
(* What happens to a Batch between the client and the file that is sent to *)
(* ComfyUI, and the files that record its Run.  The five machines share no *)
(* state; a behaviour exercises one of them, and leaves the others in one  *)
(* of their initial states.                                                *)
(***************************************************************************)
EXTENDS RangeMaterialization

CONSTANTS PlanSafe, PlanInexact, PlanRangeValues, PlanMaxSeed,                 \* of the other machines,
          CompilerInexact, CompilerRangeValues, CompilerMaxSeed,             \* but for BatchCompiler
          Requests, Limits, MaxPromptBytes, JobEdits(_),                     \* BatchCompiler
          Definitions, Budgets, Project, MaxRandomSeeds,                     \* SavedBatchDefinition
          PromptLibrary, WorkflowLibrary, ProfileLibrary, ProfileVersionLibrary, SlotsOf, ParametersOf,
          Workflows, Profiles, Plans, MaxRejected,                           \* WorkflowPreparation
          Creations, TreeEdits(_)                                            \* RunRecord

VARIABLES which,
          limits, request, stage, seeds, stored, work, prompt, axis, product,  \* BatchCompiler
          total, position, digits, jobs, outcome,
          definition, saving, budget, rows, accepted,                          \* SavedBatchDefinition
          run, preparing, ordinal, uploads, workflow, blamed,                  \* WorkflowPreparation
          creation, recording, tree, original, edited, answer                  \* RunRecord

Compiler == INSTANCE BatchCompiler WITH
  MaxSafe <- PlanSafe, MaxRangeValues <- CompilerRangeValues, Inexact <- CompilerInexact,
  MaxSeed <- CompilerMaxSeed, Edits <- JobEdits, pc <- work

Definition == INSTANCE SavedBatchDefinition WITH
  MaxSafe <- PlanSafe, MaxRangeValues <- PlanRangeValues, Inexact <- PlanInexact,
  MaxSeed <- PlanMaxSeed, stage <- saving

Preparation == INSTANCE WorkflowPreparation WITH
  MaxSafe <- PlanSafe, MaxRangeValues <- PlanRangeValues, Inexact <- PlanInexact, stage <- preparing

Record == INSTANCE RunRecord WITH
  MaxSafe <- PlanSafe, MaxRangeValues <- PlanRangeValues, Inexact <- PlanInexact,
  MaxSeed <- PlanMaxSeed, Edits <- TreeEdits, stage <- recording

ASSUME PlanningAssumption ==
  /\ Compiler!CompilerAssumption
  /\ Definition!DefinitionAssumption
  /\ Preparation!PreparationAssumption
  /\ Record!RecordAssumption

-----------------------------------------------------------------------------
ranging == <<range, type, base, pc, counted, index, numbers>>
compiling == <<limits, request, stage, seeds, stored, work, prompt, axis, product, total, position, digits, jobs, outcome>>
defining == <<definition, saving, budget, rows, accepted>>
submitting == <<run, preparing, ordinal, uploads, workflow, blamed>>
reading == <<creation, recording, tree, original, edited, answer>>

(* A machine that is not exercised has one initial state. *)
Idle ==
  /\ which # "range" => range = CHOOSE r \in Ranges : TRUE
  /\ which # "range" => type = "float" /\ base = FALSE
  /\ which # "compiler" => request = CHOOSE r \in Requests : TRUE
  /\ which # "compiler" => limits = CHOOSE l \in Limits : TRUE
  /\ which # "definition" => budget = CHOOSE b \in Budgets : TRUE
  /\ which # "preparation" =>
       run = CHOOSE r \in [workflow : Workflows, profile : Profiles, plan : Plans] : TRUE
  /\ which # "record" => creation = CHOOSE c \in Creations : TRUE

PlanningInit ==
  /\ which \in {"range", "compiler", "definition", "preparation", "record"}
  /\ Idle
  /\ Init
  /\ Compiler!Init
  /\ Definition!Init
  /\ Preparation!Init
  /\ Record!Init

RangeNext == which = "range" /\ Next /\ UNCHANGED <<which, compiling, defining, submitting, reading>>
CompilerNext == which = "compiler" /\ Compiler!Next /\ UNCHANGED <<which, ranging, defining, submitting, reading>>
DefinitionNext == which = "definition" /\ Definition!Next /\ UNCHANGED <<which, ranging, compiling, submitting, reading>>
PreparationNext == which = "preparation" /\ Preparation!Next /\ UNCHANGED <<which, ranging, compiling, defining, reading>>
RecordNext == which = "record" /\ Record!Next /\ UNCHANGED <<which, ranging, compiling, defining, submitting>>

PlanningNext == RangeNext \/ CompilerNext \/ DefinitionNext \/ PreparationNext \/ RecordNext

PlanningSpec == PlanningInit /\ [][PlanningNext]_<<which, ranging, compiling, defining, submitting, reading>>

-----------------------------------------------------------------------------
(* What is counted beforehand is what is expanded afterwards: a Batch is   *)
(* refused for its number of Jobs if and only if it has more than the      *)
(* limit, although no product is formed past the limit and no Job has been *)
(* expanded; and only the preflight refuses for it, or for the length of   *)
(* its texts (compiler.py).                                                *)
BudgetIsExact ==
  which = "compiler" =>
    /\ Compiler!DimensionsAreNonempty
    /\ Compiler!BudgetIsExact
    /\ Compiler!CountStaysWithin
    /\ Compiler!PreflightIsExact

(* The length that was measured is that of the Jobs' texts, the plan lists *)
(* the Jobs in the documented order with distinct random seeds, a plan     *)
(* that was previewed is created as it was, and a stored one is accepted   *)
(* if and only if it is what its snapshot compiles to (compiler.py).       *)
PlanIsExact ==
  which = "compiler" =>
    /\ Compiler!TextIsMeasured
    /\ Compiler!PlanIsOrdered
    /\ Compiler!RandomSeedsDiffer
    /\ Compiler!PreviewIsBinding
    /\ Compiler!StoredPlanIsExact

(* What was accepted as a Saved Batch is what its rows give back, at any   *)
(* later time and under any budget, with every parameter bound once.       *)
StoredIsWhatWasAccepted ==
  /\ Definition!StoredIsReadable
  /\ Definition!StoredIsWhatWasAccepted
  /\ Definition!BoundOnceInOrder
  /\ Definition!SelectionsBelongTogether
  /\ Definition!BudgetsAgree

(* No Job of a published Run fails before anything is sent, although only  *)
(* the first one was prepared before the Run was published.                *)
EveryJobPrepares == Preparation!EveryJobPrepares

(* What is submitted holds the Job's values at the Profile's targets, and  *)
(* the base workflow everywhere else; a rejection is put down to values of *)
(* the base workflow that the Job was really submitted with.               *)
SubmittedIsExact ==
  /\ Preparation!SubmittedIsExact
  /\ Preparation!ConnectionsAreKept
  /\ Preparation!PreparedFitsAgain
  /\ Preparation!BlamesOnlyBase

(* Whichever one fact of a published Run's files, place or owners is       *)
(* edited, the loads that still accept it return the Run as published; and *)
(* an untouched Run, or one that only lost assets and outputs, stays       *)
(* readable for history (files/runs.py).                                   *)
RunsProveThemselves ==
  /\ Record!AcceptedIsPublished
  /\ Record!CreatedLoads
  /\ Record!HistoryIsFrozen
=============================================================================
