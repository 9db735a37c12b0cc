SPECIFICATION FairSpec
CONSTANTS
  Channels <- MCChannels
  NumAverage = 2
  TriggerModes <- MCTriggerModes
  Polarities <- MCPolarities
  Modes <- MCModes
  Meddling = FALSE
  MaxTime = 3
  MaxLag = 1
  MaxMessages = 2
  MaxQueued = 1
INVARIANTS
  ClaimsOnce
  MergeIsTrue
PROPERTIES
  KeepsAsking
CHECK_DEADLOCK FALSE
