CONSTANTS
  a1 = a1
  a2 = a2
  Ids = {a1, a2}
  NoId = NoId
  Absent = Absent
  NoIndex = NoIndex
  Cockpit = {a1}
  MaxRequests = 4
  MaxQueue = 2
  MaxFailures = 2
  MaxCrashes = 1
  MaxClicks = 2
  MaxEvents = 1
  MaxLogins = 2
  MaxImports = 1
  MaxTrouble = 2
SPECIFICATION MCSpec
INVARIANTS
  AlwaysReadable
  NoAcknowledgedUpdateLost
  LoopLeavesNothing
PROPERTIES
  
  RequestsSettle
  ImplementsLibrary
CHECK_DEADLOCK FALSE
