CONSTANTS
  g1 = g1
  g2 = g2
  Geographies = {g1}
  Shapes = {s1}
  Requests = {r1, r2}
  Ops = {"publish", "delete"}
  InitialDrafts <- Drafted
SPECIFICATION Spec
PROPERTIES DeleteRefusesPublished
CHECK_DEADLOCK FALSE
