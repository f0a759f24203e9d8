SPECIFICATION Spec
CONSTANTS
  Calls = {c1, c2}
  k1 = k1
  k2 = k2
  Keys <- MCKeys
  Payloads <- MCPayloads
  NoCall = NoCall
  Retries = 1
  Batch = 1
  MaxFaults = 2
INVARIANT ConflictIsAnothers
CHECK_DEADLOCK FALSE
