SPECIFICATION Spec
CONSTANTS
  Servers = {TRUE, FALSE}
  Keys <- MCKeys
  Sendable <- MCSendable
  Foreign <- MCForeign
  Broken <- MCBroken
  CloseCodes <- MCCloseCodes
  MaxMessageSize = 127
  MaxFrames = 3
  MaxBytes = 140
  MaxRead = 4
INVARIANTS
  DeliversAll
  
  AcceptsOurs
CHECK_DEADLOCK FALSE
