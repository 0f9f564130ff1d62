\* Parallel phases and steps; steps fail, sessions are interrupted.
CONSTANTS
  NumPhases = 2
  NumSteps = 2
  PlanSize = 4
  Groups = {g1}
  NoGroup = NoGroup
  ParallelEnabled = TRUE
  MaxFailures = 2
  MaxPauses = 1
  GroupedPhasesFail = TRUE
SPECIFICATION AutopilotSpec
CHECK_DEADLOCK FALSE
INVARIANTS
  EngineActionLegal
