SPECIFICATION CountSpec
CONSTANTS
  v1 = v1
  v2 = v2
  v3 = v3
  Vehicles <- MCVehicles
  NumRules = 2
  Bounds <- MCBounds
  EventLists <- MCEventLists
INVARIANT ReportsActiveRules
CHECK_DEADLOCK FALSE
