CONSTANTS
  s1 = s1
  s2 = s2
  l1 = l1
  l2 = l2
  N = 5
  Kind <- Parseable
  Batch = TRUE
  ChunkSize = 2
  Sinks = {s1, s2}
  DeadLetters = {l1, l2}
  Faults = {"connect", "write", "deadLetter", "crash"}
  MaxFaults = 3
SYMMETRY Symmetric
SPECIFICATION Spec
INVARIANTS NothingLost RepeatsOnlyByRestart
CHECK_DEADLOCK FALSE
