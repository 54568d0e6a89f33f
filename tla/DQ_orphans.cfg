SPECIFICATION FairSpec
CONSTANTS
  w1 = w1
  s1 = s1
  Workspaces = {w1}
  Sessions = {s1}
  Slots = {r1, r2}
  Voice = Voice
  GlobalRoot = GlobalRoot
  None = None
  User = User
  MaxAttempts = 2
  MaxJobs = 3
  MaxCrashes = 1
  MaxLapses = 1
  MaxTurns = 0
  Requests <- MessageMix
INVARIANTS
  ClaimedRowHasItsRun
  OneVerdictPerWork
  FollowUpsOnlyFromCompletedWork
  ReportedWorkNeverQueued
PROPERTIES
  OrphaningSparesMessages
  EveryJobSettles
CHECK_DEADLOCK FALSE
