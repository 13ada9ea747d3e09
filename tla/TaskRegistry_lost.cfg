SPECIFICATION Spec
CONSTANTS
  Runs = {r1, r2}
  Clients = {c1, c2}
  NoRequest = NoRequest
  CallersCancel = TRUE
  MaxFaults = 1
SYMMETRY Symmetry
INVARIANT
  StoredIsHeard
CHECK_DEADLOCK FALSE
