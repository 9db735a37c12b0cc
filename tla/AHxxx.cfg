SPECIFICATION FairSpec
CONSTANTS
  Modes <- MCModes
  Formats <- MCFormats
  NumAcquires = {1}
  ValuesPerReads = {2}
  MaxFaults = 1
  MaxQueued = 1
INVARIANTS
  OneReader
  AcquireIsTrue
PROPERTIES
  CallsReturn
CHECK_DEADLOCK FALSE
