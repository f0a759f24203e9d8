CONSTANTS
  d1 = d1
  d2 = d2
  None = None
  Devices = {d1}
  VehicleIds = {v1}
  Times = {1, 2}
  TypeLists <- OneList
  Batches <- Points2
  Requests = {r1, r2}
  Ops = {"event"}
  Registered <- OneDevice
  Faults = {}
  Overlap = TRUE
SYMMETRY Symmetric
SPECIFICATION Spec
INVARIANTS LatestEventCached
CHECK_DEADLOCK FALSE
