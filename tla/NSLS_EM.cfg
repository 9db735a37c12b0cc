SPECIFICATION FairSpec
CONSTANTS
  Both = Both
  Unset = Unset
  PingPongs <- MCPingPongs
  Modes <- MCModes
  ValuesPerReads = {1, 2}
  MaxFaults = 1
  MaxQueued = 1
INVARIANTS
  PhaseIsTrue
  ScaleIsTrue
PROPERTIES
  WaitsEnd
CHECK_DEADLOCK FALSE
