CONSTANTS
  a = a
  b = b
  Services = {a, b}
  Retries = 2
  UseRepl = TRUE
  MaxSignals = 2
  MaxFaults = 3
SPECIFICATION FairSpec
INVARIANTS TypeOK ServingIsConnected CleanEnd
PROPERTIES StopEnds
CHECK_DEADLOCK FALSE
