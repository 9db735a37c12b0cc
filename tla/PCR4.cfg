SPECIFICATION FairSpec
CONSTANTS
  Triggers = {0, 1}
  Modes <- MCModes
  NumAcquires = {1}
  MaxFaults = 2
  MaxQueued = 1
INVARIANTS
  AcquireIsTrue
PROPERTIES
  CallsReturn
CHECK_DEADLOCK FALSE
