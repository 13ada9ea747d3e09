----------------------------- MODULE MCPlanning -----------------------------
(***************************************************************************)
(* Root of the run `planning`: the inputs of its machines.                 *)
(***************************************************************************)
EXTENDS Serving

Requested == INSTANCE CompilerValues WITH MaxSafe <- PlanSafe
Defined == INSTANCE DefinitionValues WITH MaxSafe <- PlanSafe
Prepared == INSTANCE PreparationValues WITH MaxSafe <- PlanSafe
Recorded == INSTANCE RecordValues WITH MaxSafe <- PlanSafe

Decimals == {[digits |-> n, scale |-> 0] : n \in -2..3} \cup {[digits |-> n, scale |-> 1] : n \in {-15, -10, 0, 5, 7, 20}}

MCRanges == [start : Decimals, end : Decimals, step : Decimals]
MCInexact == {7, -15}
MCCompilerInexact == {7}

(* Two budgets: one that most plans fit, one that cuts through them. *)
MCLimits == {[jobs |-> 8, text |-> 40], [jobs |-> 3, text |-> 14]}
MCRequests == Requested!SampleRequests
MCJobEdits(plan) == Requested!Edits(plan, 3)
MCDefinitions == Defined!SampleDefinitions
MCPromptLibrary == Defined!SamplePrompts
MCWorkflowLibrary == Defined!SampleWorkflows
MCProfileLibrary == Defined!SampleProfiles
MCProfileVersionLibrary == Defined!SampleProfileVersions
MCSlotsOf == Defined!SampleSlots
MCParametersOf == Defined!SampleParameters
MCWorkflows == Prepared!SampleWorkflows
MCProfiles == Prepared!SampleProfiles
MCPlans == Prepared!SamplePlans
MCCreations == Recorded!SampleCreations
MCTreeEdits(t) == Recorded!Edits(t)
=============================================================================
