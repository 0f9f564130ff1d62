\* One tool call at a time, no groups, two phases of at most two steps, and how
\* the draft gets its plan.
CONSTANTS
  NumPhases = 2
  NumSteps = 2
  PlanSize = 4
  Groups = {}
  NoGroup = NoGroup
  ParallelEnabled = TRUE
  Slots = {c1}
  Overlay = FALSE
  StopsWhenTold = TRUE
  NoCall = NoCall
  Plans = {1, 2, 3, 4}
  NoPlan = NoPlan
  MaxRounds = 3
SPECIFICATION ScopingSpec
CHECK_DEADLOCK FALSE
INVARIANTS
  ReviewHasPlan
  RunningOnlyInActivePhase
  OneStepAtATime
PROPERTIES
  StartedPlanWasShown
