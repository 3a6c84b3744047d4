SPECIFICATION Spec
CONSTANTS
  MaxRetries = 6
  MaxDelay = 2
INVARIANTS
  TypeOK
  AttemptsRight
  WaitsBounded
  ConnectIsOneAttempt
PROPERTY HeartbeatEndsConnect
CHECK_DEADLOCK FALSE
