CONSTANTS
  g1 = g1
  g2 = g2
  Geographies = {g1, g2}
  Shapes = {s1, s2}
  Requests = {r1, r2, r3}
  Ops = {"write", "writePublished", "publish", "edit", "delete", "putMetadata"}
  InitialDrafts <- Drafted
SPECIFICATION FairSpec
INVARIANTS TypeOK OkMeansPublished
PROPERTIES PublishedFrozen ImplementsCatalog EveryRequestAnswered
CHECK_DEADLOCK FALSE
