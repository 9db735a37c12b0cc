SPECIFICATION FairSpec
CONSTANTS
  Modes <- MCBoth
  NumAcquires = {1, 2}
  MaxFailures = 2
  MaxOutages = 2
  MaxQueued = 2
INVARIANTS
  OneReader
  AcquireIsTrue
PROPERTIES
  CallsReturn
CHECK_DEADLOCK FALSE
