SPECIFICATION QtSpec
CONSTANTS
  Scenarios <- MCScenarios
  Word = 131072
  MaxWrites = 2
  MaxTold = 1
  MaxFaults = 1
INVARIANTS
  MessagesAreTaken
  
CHECK_DEADLOCK FALSE
