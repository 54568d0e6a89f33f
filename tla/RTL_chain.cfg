SPECIFICATION FairSpec
CONSTANTS
  c1 = c1
  c2 = c2
  c3 = c3
  c4 = c4
  None = None
  Calls <- MCCalls
  Bounded <- MCBounded
INVARIANTS
  BusyCountsTheChain
PROPERTIES
  KeepsPromise
  ChainDrains
CHECK_DEADLOCK FALSE
