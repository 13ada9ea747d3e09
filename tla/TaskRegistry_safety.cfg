SPECIFICATION Spec
CONSTANTS
  Runs = {r1, r2}
  Clients = {c1, c2}
  NoRequest = NoRequest
  CallersCancel = TRUE
  MaxFaults = 1
SYMMETRY Symmetry
INVARIANTS
  OneTask
  AliveIsRegistered
  DiscardedNeverRuns
  DrainedIsQuiet
CHECK_DEADLOCK FALSE
