CONSTANTS
  p1 = p1
  p2 = p2
  p3 = p3
  x1 = x1
  x2 = x2
  x3 = x3
  g1 = g1
  g2 = g2
  Rules = {x1, x2, x3}
  None = None
  Policies = {p1, p2, p3}
  Geographies = {g1}
  Requests = {r1, r2}
  Bodies <- FewBodies
  Ops = {"publish"}
  InitialDrafts <- ThreeDrafts
  UseKafka = TRUE
  Lead = 0
  MaxTime = 0
SPECIFICATION Spec
INVARIANTS SupersessionRecorded SupersededOnce
CHECK_DEADLOCK FALSE
