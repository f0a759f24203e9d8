CONSTANTS
  p1 = p1
  p2 = p2
  p3 = p3
  x1 = x1
  x2 = x2
  x3 = x3
  g1 = g1
  g2 = g2
  Rules = {x1, x2, x3}
  None = None
  Policies = {p1}
  Geographies = {g1}
  Requests = {r1, r2}
  Bodies <- LateBodies
  Ops = {"publish", "edit"}
  InitialDrafts <- OneDraft
  UseKafka = TRUE
  Lead = 0
  MaxTime = 1
SPECIFICATION Spec
INVARIANTS PublishedBeforeStart
CHECK_DEADLOCK FALSE
