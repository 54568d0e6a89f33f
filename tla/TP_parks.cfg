SPECIFICATION FairSpec
CONSTANTS
  a1 = a1
  k1 = k1
  Asks <- MCAsks
  Cards <- MCCards
  Budget = 2
  AskBound = 2
  CardBound = 2
  SleepLength = 2
  MaxSleeps = 1
INVARIANTS
  GateCountsParked
  ClockMeasuresWork
  HeardAsRecorded
PROPERTIES
  DecisionsStand
  EveryWaitEnds
  EveryRowSettles
