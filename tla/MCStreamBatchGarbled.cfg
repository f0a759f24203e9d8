CONSTANTS
  s1 = s1
  s2 = s2
  l1 = l1
  l2 = l2
  N = 3
  Kind <- OneGarbled
  Batch = TRUE
  ChunkSize = 2
  Sinks = {s1, s2}
  DeadLetters = {l1, l2}
  Faults = {}
  MaxFaults = 0
SYMMETRY Symmetric
SPECIFICATION Spec
INVARIANTS NothingLost
CHECK_DEADLOCK FALSE
