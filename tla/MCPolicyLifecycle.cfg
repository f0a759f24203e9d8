CONSTANTS
  p1 = p1
  p2 = p2
  p3 = p3
  x1 = x1
  x2 = x2
  x3 = x3
  g1 = g1
  g2 = g2
  Rules = {x1, x2, x3}
  None = None
  Policies = {p1, p2}
  Geographies = {g1}
  Requests = {r1, r2}
  Bodies <- MixedBodies
  Ops = {"write", "edit", "delete", "publish", "intent", "metadata"}
  InitialDrafts <- OneSuccessor
  UseKafka = TRUE
  Lead = 1
  MaxTime = 1
SPECIFICATION FairSpec
INVARIANTS TypeOK StreamHasPublished SupersessionAccurate PublishAcknowledged
PROPERTIES PublishedFrozen EveryRequestAnswered
CHECK_DEADLOCK FALSE
