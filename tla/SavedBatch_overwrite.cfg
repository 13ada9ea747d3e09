CONSTANTS
    e1 = e1  e2 = e2  b1 = b1  b2 = b2  v1 = v1  v2 = v2  f1 = f1  f2 = f2
    None = None
    Editors = {e1, e2}
    Batches = {b1}
    KeyOf <- MCKeyOf
    Versions = {v1, v2}
    PromptOf <- MCPromptOf
    Profiles = {f1, f2}
    Forms <- MCForms
    MaxRevision = 4
SPECIFICATION Spec
PROPERTY OverwritesOnlyWhatWasKnown
CHECK_DEADLOCK FALSE
