CONSTANTS
  Ids = {a, b}
  NoId = NoId
  User = User
  Timer = Timer
  Absent = Absent
  Ops = {"temporary", "handoff", "restore"}
  Opaque = FALSE
  Racing = FALSE
  MaxTokens = 2
  MaxJobs = 0
  MaxOps = 2
  MaxFaults = 1
SPECIFICATION FairSpec
INVARIANTS
  NoHalfHandoff
PROPERTIES
  LoginIsFollowed
CHECK_DEADLOCK FALSE
