SPECIFICATION MCSpec
CONSTANTS
    Platforms = {"mac", "windows"}
    MaxCrashes = 2
    MaxEdits = 2
    MaxSwitches = 1
    None = None
    MaxReleases = 1
    MaxRuns = 3
    MaxChecks = 1
    MaxClicks = 3
    MaxStarts = 2
    MaxFaults = 1
    MaxTogether = 5
INVARIANTS
  SmokeOnce
  LatestIsOffered
PROPERTIES
  
  UpdatesAreSafe
  SupervisedRunEnds
CHECK_DEADLOCK FALSE
