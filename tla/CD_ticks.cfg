SPECIFICATION FairSpec
CONSTANTS
  r1 = r1
  r2 = r2
  r3 = r3
  c1 = c1
  c2 = c2
  t1 = t1
  t2 = t2
  Rows <- MCRows
  Channels <- MCChannels
  ChannelOf <- MCChannelOf
  Ticks <- MCTicks
  MaxAttempts = 2
  Limit = 2
  MaxTroubles = 1
INVARIANTS
  GivenUpOnlyWhenExhausted
PROPERTIES
  EveryRowLeaves
CHECK_DEADLOCK FALSE
