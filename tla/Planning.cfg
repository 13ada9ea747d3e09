SPECIFICATION ServingSpec
CONSTANTS
  MaxSafe = 2
  MaxRangeValues = 6
  UnitScale = 1
  Inexact <- MCInexact
  Ranges <- MCRanges
  Types = {"string", "integer", "float"}
  PlanSafe = 10
  PlanInexact = {}
  PlanRangeValues = 5
  PlanMaxSeed = 5
  CompilerInexact <- MCCompilerInexact
  CompilerRangeValues = 4
  CompilerMaxSeed = 3
  Requests <- MCRequests
  Limits <- MCLimits
  MaxPromptBytes = 6
  JobEdits <- MCJobEdits
  Definitions <- MCDefinitions
  Budgets = {2, 6, 12}
  Project = "mine"
  MaxRandomSeeds = 2
  PromptLibrary <- MCPromptLibrary
  WorkflowLibrary <- MCWorkflowLibrary
  ProfileLibrary <- MCProfileLibrary
  ProfileVersionLibrary <- MCProfileVersionLibrary
  SlotsOf <- MCSlotsOf
  ParametersOf <- MCParametersOf
  Workflows <- MCWorkflows
  Profiles <- MCProfiles
  Plans <- MCPlans
  MaxRejected = 2
  Creations <- MCCreations
  TreeEdits <- MCTreeEdits
  Runs = {r1}
  Clients = {c1, c2}
  NoRequest = NoRequest
  CallersCancel = TRUE
  MaxFaults = 1
INVARIANTS
  RangeIsRight
  BudgetIsExact
  PlanIsExact
  StoredIsWhatWasAccepted
  EveryJobPrepares
  SubmittedIsExact
  RunsProveThemselves
PROPERTIES
  RequestsAnswered
  ShutdownDrains
CHECK_DEADLOCK FALSE
