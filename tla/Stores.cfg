SPECIFICATION StoresSpec
CONSTANTS
  w1 = w1
  w2 = w2
  r1 = r1
  r2 = r2
  None = None
  Free = Free
  Clients = {w1, w2}
  Requests = {"a", "b", "c", "d"}
  MaxBodies = 2
  Limit = 1
  MaxWaiters = 2
  Prompts = {"p", "h"}
  PromptVersions = {"v1", "hv"}
  CopyPrompt = "h"
  CopyVersion = "hv"
  Names <- MCNames
  Texts = {"text"}
  CopyText = "frozen"
  MaxNumber = 3
  Importers = {"c"}
  Workflows = {"w", "h"}
  WorkflowVersions = {"x", "hx"}
  Profiles = {"f", "hf"}
  ProfileVersions = {"y", "hy"}
  Contents = {"a", "b"}
  Mappings = {"m"}
  Fits <- MCFits
  Frozen <- MCFrozen
  Import <- MCImport
  RequestIds = {"r", "s"}
  GlobalNames = {"n"}
  GlobalContents = {"a"}
  MaxReceipts = 3
  Runs = {r1, r2}
  MaxAssets = 1
  Uploads <- MCUploads
  MaxUploads = 3
  MaxMishaps = 1
  Projects = {"p"}
  Batches = {"b"}
  ProjectOf <- MCProjectOf
  MaxOwners = 2
  MaxFailures = 1
SYMMETRY Symmetry
INVARIANTS
  LibraryIsSound
  WorkflowsAreSound
  CommandsAreIdempotent
  AssetsAreOriginal
  CapacityIsKept
  OwnersAgree
PROPERTY
  HistoryNeverGoesBack
CHECK_DEADLOCK FALSE
