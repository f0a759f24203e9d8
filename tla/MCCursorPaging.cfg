SPECIFICATION Spec
CONSTANTS
  v1 = v1
  v2 = v2
  Devices <- MCDevices
  MaxTime = 2
  MaxRows = 4
  Listings <- GoodListings
INVARIANTS
  TypeOK
  QuietIsExact
  RowsReadOnce
  VehiclesRead
CHECK_DEADLOCK FALSE
