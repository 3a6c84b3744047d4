SPECIFICATION Spec
CONSTANTS
  MaxRetries = 3
  MaxDelay = 1
INVARIANT RaisesAfterAllAttempts
CHECK_DEADLOCK FALSE
