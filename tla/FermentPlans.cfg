\* One phase of up to three steps, or up to three phases of one: activation,
\* groups, concurrent steps, refining, settling, pausing.
CONSTANTS
  NumPhases = 3
  NumSteps = 3
  PlanSize = 3
  Groups = {g1}
  NoGroup = NoGroup
  ParallelEnabled = TRUE
SPECIFICATION Spec
INVARIANTS
  ActivePhaseSound
  StatusFollowsPhases
  ActivePhasesShareGroup
  PausedIsQuiet
  RunningStepsShareCohort
PROPERTIES
  PauseFreezes
  RunningStepIsNotLost
