CONSTANTS
  None = None
  A = A
  B = B
  x1 = x1
  x2 = x2
  x3 = x3
  r1 = r1
  r2 = r2
  r3 = r3
  MaxGrowths = 1
  MaxEvents = 2
  MaxTurns = 1
  MaxFaults = 1
  MaxViews = 1
SPECIFICATION Spec
INVARIANTS
  DiskIsCurrent
PROPERTIES
  ViewFollows
  UsageIsCounted
CHECK_DEADLOCK FALSE
