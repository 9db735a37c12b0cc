SPECIFICATION Spec
CONSTANTS
  Builds = {"EM", "EM_polled", "IC"}
  Ranges = {0, 1, 5}
  NumAverages = {1, 2}
  IntegrationTimes = {0, 3}
  MinTime = 1
  MaxTime = 2
  Voltages <- MCVoltages
  MaxReadings = 3
INVARIANTS
  Accounted
  
  SettingsAreTrue
CHECK_DEADLOCK FALSE
