SPECIFICATION FairSpec
CONSTANTS
  RingSize = 2
  NumAverages = {0, 1, 2}
  NumAcquires = {2}
  Garbage <- MCGarbage
  CallsBase = TRUE
  IgnoresRestart = FALSE
  Restarts = TRUE
  AlwaysSamples = FALSE
  Regroupings <- MCRegroupings
  MaxSamples = 4
INVARIANTS
  EnoughInRing
  SendNeverBlocks
  NoPhantomAcquisition
  BatchEndsWhereAnnounced
  StopIsAhead
PROPERTIES
  ImplementsBuffer
  
CHECK_DEADLOCK FALSE
