CONSTANTS
    r1 = r1
    None = None
    Runs = {r1}
    Patience = 2
    MaxResults = 1
    MaxEvents = 2
SPECIFICATION Spec
INVARIANT StopsOnNoOlderSnapshot
CHECK_DEADLOCK FALSE
