CONSTANTS
  None = None
  Checked = {a}
  Tools = {r, g}
  Read = r
  MaxActive = 1
  MaxAttempts = 1
  MaxSelections = 1
  MaxCommands = 1
  MaxStarts = 2
  MaxMessages = 1
  MaxCalls = 4
  MaxPassive = 1
  Tasks = {a, b}
  Sessions = {s, t}
  FirstSession = s
  MaxSwitches = 2
  MaxChanges = 3
  MaxClicks = 1
  MaxFaults = 1
  MaxSent = 3
  MaxPending = 2
SPECIFICATION Spec
PROPERTIES
  
  RelaysFollow
  SocketPasses
CHECK_DEADLOCK FALSE
