SPECIFICATION FairSpec
CONSTANTS
  Conn = {1, 2, 3}
  NoConn = 0
  MaxTries = 2
INVARIANTS
  TypeOK
  
PROPERTY RetryEnds
CHECK_DEADLOCK FALSE
