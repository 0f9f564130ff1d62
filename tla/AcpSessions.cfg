SPECIFICATION Spec
CONSTANTS
  Sessions = {s}
  MaxOpens = 2
  MaxPrompts = 2
INVARIANTS
  NoSessionLost PrompterFollowsSession
PROPERTIES
  EndsWithItsRun CancelledIsAnswered
CHECK_DEADLOCK FALSE
