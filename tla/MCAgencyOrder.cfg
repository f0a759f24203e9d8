CONSTANTS
  d1 = d1
  None = None
  Devices = {d1}
  VehicleIds = {v1}
  Times = {1, 2}
  TypeLists <- OneList
  Batches <- Batches2
  Requests = {r1, r2, r3}
  Ops = {"event", "telemetry"}
  Registered <- OneDevice
  Faults = {"cache"}
  Overlap = TRUE
SYMMETRY Symmetric
SPECIFICATION OrderSpec
INVARIANTS NewestKept
CHECK_DEADLOCK FALSE
