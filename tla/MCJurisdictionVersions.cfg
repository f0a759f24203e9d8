CONSTANTS
  j1 = j1
  j2 = j2
  k1 = k1
  k2 = k2
  a1 = a1
  a2 = a2
  g1 = g1
  None = None
  Jurisdictions = {j1, j2}
  Keys = {k1, k2}
  Names = {a1, a2}
  Geographies = {g1}
  Creations <- AnyBody
  Patches <- AnyPatch
  Requests = {r1, r2, r3, r4}
  Ops = {"create", "update", "delete"}
  MaxTime = 3
SYMMETRY Symmetric
SPECIFICATION Spec
INVARIANTS TypeOK FindsLatest
PROPERTIES HistoryKept OriginKept
CHECK_DEADLOCK FALSE
