SPECIFICATION Spec
CONSTANTS
  AuditLimit = 6
  QueueLimit = 2
  MaxEvents = 3
  MaxOthers = 0
  MaxConnections = 1
INVARIANT ExactReplay
CHECK_DEADLOCK FALSE
