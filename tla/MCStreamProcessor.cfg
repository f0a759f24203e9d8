CONSTANTS
  s1 = s1
  s2 = s2
  l1 = l1
  l2 = l2
  N = 6
  Kind <- AllKinds
  Batch = FALSE
  ChunkSize = 1
  Sinks = {s1, s2}
  DeadLetters = {l1, l2}
  Faults = {"connect", "write", "deadLetter", "crash", "stop"}
  MaxFaults = 2
SPECIFICATION FairSpec
INVARIANTS TypeOK NothingLost RepeatsOnlyByRestart
PROPERTIES PartitionConsumed
CHECK_DEADLOCK FALSE
