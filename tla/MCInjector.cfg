CONSTANTS
  Ids = {a}
  Times = {1, 2}
  NoSlot = NoSlot
  DayLength = 3
  MaxDelay = 2
  MaxClock = 4
  MaxBack = 1
  MaxUser = 1
  MaxWriteFaults = 1
  MaxCrashes = 1
  MaxMishaps = 3
  Turns = {t1, t2}
  Observations = 2
  LateActions = FALSE
  MaxRequests = 2
  MaxFaults = 2
  Processes = {p, q, r}
  None = None
  MaxDeaths = 1
  MaxWritten = 2
  MaxFailures = 2
SPECIFICATION MCSpec
PROPERTIES
  AskedSafely
  WakeupsRunOnce
  RestartsKeepTurns
  RequestsEnd
  LaunchesAreServed
CHECK_DEADLOCK FALSE
