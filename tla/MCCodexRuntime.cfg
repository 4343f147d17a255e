CONSTANTS
  Bundled = Bundled
  Custom = Custom
  Alphas = {alpha}
  Versions = {v1, v2}
  Sharing = {v2, alpha}
  None = None
  MaxFiles = 1
  MaxStarts = 4
  MaxFaults = 2
  MaxWorld = 5
  Sessions = {s, t}
  FirstSession = s
  Pids = {p}
  HighWater = 1
  MaxSignals = 2
  MaxLooks = 1
  MaxInstalls = 2
  MaxTrouble = 3
SPECIFICATION PartSpec
INVARIANTS
  BackendsStand
PROPERTIES
  LaunchesFallBack
  
CHECK_DEADLOCK FALSE
