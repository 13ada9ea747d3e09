CONSTANTS
    e1 = e1  e2 = e2  b1 = b1  b2 = b2  v1 = v1  v2 = v2  f1 = f1  f2 = f2
    None = None
    Editors = {e1, e2}
    Batches = {b1, b2}
    KeyOf <- MCKeyOf
    Versions = {v1, v2}
    PromptOf <- MCPromptOf
    Profiles = {f1, f2}
    Forms <- MCForms
    MaxRevision = 3
    Runs = {r1, r2}
    Patience = 2
    MaxResults = 1
    MaxEvents = 3
SPECIFICATION BrowserSpec
SYMMETRY BrowserSymmetry
INVARIANTS
    ReadsAreSound
    LoadedLinkIsTrue
    SelectionsExist
    MonitorIsTrue
    RestsOnTruth
PROPERTIES
    OverwritesOnlyWhatWasLoaded
CHECK_DEADLOCK FALSE
