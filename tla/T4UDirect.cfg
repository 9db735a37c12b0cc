SPECIFICATION FairSpec
CONSTANTS
  Scenarios <- MCScenarios
  Word = 131072
  Ranges <- MCRanges
  Rates <- MCRates
  QueueLen = 3
  TickLimit = 4
  AfterAnswer = 2
  AfterRate <- MCAfterRate
  Slow = 1
  SlowRate = 2
  MaxWrites = 2
  MaxErrors = 1
  MaxPackets = 1
INVARIANTS
  OneAtATime
  SettingsTake
  
PROPERTIES
  KeepsSending
CHECK_DEADLOCK FALSE
