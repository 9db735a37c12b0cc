SPECIFICATION Spec
CONSTANTS
  Senders = {"s1"}
  MaxSends = 2
  MaxMessages = 2
  MaxPartials = 1
INVARIANTS
  
  NothingStranded
  CloseIsLast
PROPERTIES
  Settles
CHECK_DEADLOCK FALSE
