CONSTANTS
  d1 = d1
  d2 = d2
  None = None
  Devices = {d1}
  VehicleIds = {v1}
  Times = {1, 2}
  TypeLists <- Three
  Batches <- Descending
  Requests = {r1, r2}
  Ops = {"event", "telemetry"}
  Registered <- OneDevice
  Faults = {"stream"}
  Overlap = FALSE
SYMMETRY Symmetric
SPECIFICATION Spec
INVARIANTS CachedEventIsRecorded DecommissionedReadsBack LatestLocation LatestTelemetryCached AcceptedEventsStreamed
CHECK_DEADLOCK FALSE
