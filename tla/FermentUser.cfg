\* The user works in the progress overlay while the agent makes its calls.
CONSTANTS
  NumPhases = 2
  NumSteps = 1
  PlanSize = 2
  Groups = {}
  NoGroup = NoGroup
  ParallelEnabled = TRUE
  Slots = {c1}
  Overlay = TRUE
  StopsWhenTold = FALSE
  NoCall = NoCall
SPECIFICATION SessionSpec
CHECK_DEADLOCK FALSE
PROPERTIES
  RefinesStateMachine
