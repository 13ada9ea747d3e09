SPECIFICATION FairSpec
CONSTANTS
  Creators = {c1, c2, c3}
  MaxFaults = 1
  MaxPowerLosses = 1
INVARIANTS
  NumbersAreUnique
  PublishedIsComplete
  AnswersAreTrue
PROPERTIES
  CreatorsEnd
CHECK_DEADLOCK FALSE
