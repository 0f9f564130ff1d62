\* Two sessions, four commands of one or two events, two crashes, deletion.
CONSTANTS
  Sessions = {a, b}
  MaxCommands = 4
  MaxCrashes = 2
  Unlogged = TRUE
  Nothing = Nothing
  Idle = Idle
SPECIFICATION StoreSpec
CHECK_DEADLOCK FALSE
INVARIANTS
  AcknowledgedIsLogged
  CommandsAreContiguous
  SnapshotIsFold
