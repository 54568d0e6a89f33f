SPECIFICATION FairSpec
CONSTANTS
  s1 = s1
  s2 = s2
  Schedules <- MCSchedules
  OneTime = {s1}
  Crons <- MCCrons
  FirstCron <- MCFirstCron
  Horizon = 4
  MaxFires = 1
  MaxCrashes = 1
  MaxRequests = 1
INVARIANTS
  PoolCountsItsFires
  SlotHasOneFate
  WaitingIsNotMissing
  CrashLosesAtMostOneSlot
  NextIsOfThePresentCron
PROPERTIES
  DueIsTaken
