CONSTANTS
  Ids = {a, b}
  NoId = NoId
  User = User
  Timer = Timer
  Absent = Absent
  Ops = {"switch", "remove"}
  Opaque = FALSE
  Racing = FALSE
  MaxTokens = 2
  MaxJobs = 2
  MaxOps = 1
  MaxFaults = 1
SPECIFICATION Spec
SYMMETRY Symmetry

  
PROPERTIES
  TokensLiveOn
CHECK_DEADLOCK FALSE
