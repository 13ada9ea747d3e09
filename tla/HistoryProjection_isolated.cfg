SPECIFICATION Spec
CONSTANTS
  None = None
  Free = Free
  w1 = w1
  w2 = w2
  r1 = r1
  r2 = r2
  Runs = {r1, r2}
  Workers = {w1, w2}
  MaxAssets = 2
INVARIANT
  RunsAreIsolated
CHECK_DEADLOCK FALSE
