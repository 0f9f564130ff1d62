SPECIFICATION Spec
CONSTANTS
  Agents = {a1, a2, w}
  Background = {a1, a2}
  Linked = {w}
  Limits = {1, 2}
  FirstLimit = 1
  MaxContinuations = 1
  MaxFinalizers = 1
  ResumeBound = 0
  Fragile = {a1}
INVARIANTS
  SlotAccounting QueueServed QueueMatchesRecords RunningHasRun OneRunPerSession
  ResultsAreTracked ReportedOnce
PROPERTIES
  QueuedAgentsLeave ResultsReachThePlanner
CHECK_DEADLOCK FALSE
