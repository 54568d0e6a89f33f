SPECIFICATION Spec
CONSTANTS
  Cap = 1
  MaxAttempts = 2
  MaxSteps = 2
  MaxRequests = 1
  MaxTurns = 1
  MaxCrashes = 0
INVARIANTS
  StoppedWorkStaysStopped
CHECK_DEADLOCK FALSE
