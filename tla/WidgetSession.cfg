CONSTANTS
  Channels = {1, 2}
  Values = {v1, v2}
  Blank = Blank
  None = None
  MaxChanges = 2
  MaxLosses = 2
  MaxReloads = 1
SPECIFICATION FairSpec

  
PROPERTIES
  PageShowsOneSnapshot
  
CHECK_DEADLOCK FALSE
