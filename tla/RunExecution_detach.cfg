SPECIFICATION Spec
CONSTANTS
  NumJobs = 2
  MaxArtifacts = 1
  MaxCrashes = 0
  MaxFaults = 0
INVARIANT DetachEndsTheRun
CHECK_DEADLOCK FALSE
