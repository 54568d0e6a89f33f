SPECIFICATION FairSpec
CONSTANTS
  p1 = p1
  p2 = p2
  s1 = s1
  MaxMsgs = 2
  Polls <- MCPolls
  Pushes <- MCPushes
  MaxCrashes = 1
INVARIANTS
  NothingDroppedIsLost
  OneTurnPerMessage
PROPERTIES
  SendersAreAnswered
CHECK_DEADLOCK FALSE
