\* One session works on a ferment that has a snapshot and no log.
CONSTANTS
  Sessions = {a}
  MaxCommands = 2
  MaxCrashes = 0
  Unlogged = TRUE
  Nothing = Nothing
  Idle = Idle
SPECIFICATION StoreSpec
CHECK_DEADLOCK FALSE
INVARIANTS
  ReadLogIsComplete
