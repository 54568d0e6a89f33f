SPECIFICATION LeaseFairSpec
CONSTANTS
  r1 = r1
  r2 = r2
  Runs <- MCRuns
  Interval = 2
  JumpFactor = 2
  Lease = 6
  Beat = 1
  MaxSuspend = 7
  MaxSuspends = 2
PROPERTIES
  LiveRunsAreNeverSwept
  LostClaimsAreSwept
