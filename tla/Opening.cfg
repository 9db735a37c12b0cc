SPECIFICATION Spec
CONSTANTS
  Scenarios <- MCScenarios
  Answers <- MCAnswers
  Key3Bytes = 2
  MaxHeaderSize = 16000
  LineSize <- MCLineSize
  MaxAcceptErrors = 1
INVARIANTS
  HandshakeIsTrue
  StreamsWhole
PROPERTIES
  Settles
CHECK_DEADLOCK FALSE
