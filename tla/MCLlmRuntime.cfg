CONSTANTS
  r1 = r1
  r2 = r2
  Requests = {r1, r2}
  MaxCalls = 3
  MaxConcurrency = 1
  BusyRetries = 1
  Keys <- MCKeys
  Server = Server
  Scenarios <- MCScenarios
  MaxClients = 0
  Absent = Absent
SPECIFICATION Spec
INVARIANTS
  SeatsAreAccounted
  EveryCallUsesItsKey
  UsageIsExact
PROPERTIES
  EveryCallEnds
CHECK_DEADLOCK FALSE
