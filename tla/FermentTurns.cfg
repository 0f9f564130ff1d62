\* A phase of two steps, or up to three phases of one; a failure, an interruption.
CONSTANTS
  NumPhases = 3
  NumSteps = 2
  PlanSize = 3
  Groups = {g1}
  NoGroup = NoGroup
  ParallelEnabled = TRUE
  MaxFailures = 1
  MaxPauses = 1
  GroupedPhasesFail = FALSE
SPECIFICATION TurnsSpec
CHECK_DEADLOCK FALSE
INVARIANTS
  EngineActionLegal
  StopsOnlyForAReason
PROPERTIES
  CompletesUnlessLetGo
  EventsFoldToFerment
