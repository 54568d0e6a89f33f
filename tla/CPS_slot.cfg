SPECIFICATION FairSpec
CONSTANTS
  Cap = 1
  MaxAttempts = 2
  MaxSteps = 2
  MaxRequests = 2
  MaxTurns = 1
  MaxCrashes = 1
INVARIANTS
  TypeOK
  QueuedFollowUpOwnsItsStep
  RunawayGuardUnlessRetried
PROPERTIES
  SurvivorsAreKept
  HandOverIsResolved
CHECK_DEADLOCK FALSE
