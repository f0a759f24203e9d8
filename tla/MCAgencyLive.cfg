CONSTANTS
  d1 = d1
  d2 = d2
  None = None
  Devices = {d1}
  VehicleIds = {v1}
  Times = {1}
  TypeLists <- LastEvents
  Batches <- OnePoint
  Requests = {r1, r2}
  Ops = {"register", "update", "event", "telemetry"}
  Registered <- OneDevice
  Faults = {"database", "cacheRead", "cache"}
  Overlap = TRUE
SPECIFICATION FairSpec
PROPERTIES EveryRequestAnswered
CHECK_DEADLOCK FALSE
