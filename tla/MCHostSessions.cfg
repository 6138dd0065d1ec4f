SPECIFICATION Spec
CONSTANTS
  Session = {1, 2}
  Conn = {1, 2, 3}
  NoSession = 0
  NoConn = 0
  QueueCap = 1
INVARIANTS
  TypeOK
  TokenHasOwner
  ConnectionsAgree
CHECK_DEADLOCK FALSE
