CONSTANTS
  s1 = s1
  s2 = s2
  l1 = l1
  l2 = l2
  N = 3
  Kind <- AllPlain
  Batch = TRUE
  ChunkSize = 1
  Sinks = {s1, s2}
  DeadLetters = {l1, l2}
  Faults = {"stop"}
  MaxFaults = 1
SYMMETRY Symmetric
SPECIFICATION Spec
INVARIANTS NothingLost
CHECK_DEADLOCK FALSE
