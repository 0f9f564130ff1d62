\* Abandoned while a verification runs.
CONSTANTS
  NumPhases = 1
  NumSteps = 1
  PlanSize = 1
  Groups = {}
  NoGroup = NoGroup
  ParallelEnabled = TRUE
  Slots = {c1}
  Overlay = FALSE
  StopsWhenTold = TRUE
  NoCall = NoCall
SPECIFICATION SessionSpec
CHECK_DEADLOCK FALSE
PROPERTIES
  AbandonedIsFinal
