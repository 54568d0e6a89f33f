SPECIFICATION FairSpec
CONSTANTS
  c1 = c1
  c2 = c2
  c3 = c3
  c4 = c4
  Calls <- MCCalls
  Bounded <- MCBounded
  LateAborters <- MCLate
INVARIANTS
  HeldByOne
PROPERTIES
  EveryCallIsAnswered
  KeepsPromise
CHECK_DEADLOCK FALSE
