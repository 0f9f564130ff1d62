SPECIFICATION Spec
CONSTANTS
  Servers = {s}
  MaxConnections = 3
  MaxCalls = 3
INVARIANTS
  NoOrphans OneAttempt CallsAreCounted
PROPERTIES
  KeepAliveReturns IdleServersClose
CHECK_DEADLOCK FALSE
