CONSTANTS
  a = a
  b = b
  Services = {a, b}
  Retries = 2
  UseRepl = FALSE
  MaxSignals = 2
  MaxFaults = 3
SPECIFICATION FairSpec

PROPERTIES EverySignalEnds
CHECK_DEADLOCK FALSE
