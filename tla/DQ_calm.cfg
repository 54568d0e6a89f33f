SPECIFICATION Spec
CONSTANTS
  w1 = w1
  s1 = s1
  Workspaces = {w1}
  Sessions = {s1}
  Slots = {r1, r2}
  Voice = Voice
  GlobalRoot = GlobalRoot
  None = None
  User = User
  MaxAttempts = 2
  MaxJobs = 4
  MaxCrashes = 0
  MaxLapses = 0
  MaxTurns = 1
  Requests <- WorkMix
SYMMETRY SlotSymmetry
INVARIANTS
  ConversationSingleWriter
  NoContradiction
  StopIsFinal
  NoSilentOutcome
CHECK_DEADLOCK FALSE
