SPECIFICATION Spec
CONSTANTS
  Sessions = {p, q}
  Initial = p
  MaxAttempts = 3
  MaxKeys = 2
INVARIANTS
  OneLink KeysInOrder
PROPERTIES
  LinkSettles
CHECK_DEADLOCK FALSE
