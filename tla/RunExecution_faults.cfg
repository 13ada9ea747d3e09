SPECIFICATION FairSpec
CONSTANTS
  NumJobs = 2
  MaxArtifacts = 2
  MaxCrashes = 1
  MaxFaults = 2
INVARIANTS
  SubmittedAtMostOnce
  SubmissionIsOnRecord
  QueueDepthOne
  RecordIsTrue
PROPERTIES
  IntentIsBarrier
  EvidenceIsKept
  ImplementsLifecycle
  TaskEnds
  RequestEnds
  StopResolves
CHECK_DEADLOCK FALSE
