CONSTANTS
  d1 = d1
  d2 = d2
  None = None
  Devices = {d1, d2}
  VehicleIds = {v1, v2}
  Times = {1, 2}
  TypeLists <- Lengths
  Batches <- Points2
  Requests = {r1, r2}
  Ops = {"register", "update", "event", "telemetry"}
  Registered <- OneDevice
  Faults = {"database", "cache", "stream", "crash"}
  Overlap = TRUE
SYMMETRY Symmetric
SPECIFICATION Spec
INVARIANTS TypeOK EventOnce CacheFollowsDatabase
CHECK_DEADLOCK FALSE
