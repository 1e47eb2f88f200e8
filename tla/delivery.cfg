SPECIFICATION Spec
CONSTANTS
  d1 = d1
  d2 = d2
  u1 = u1
  u2 = u2
  v1 = v1
  u3 = u3
  o1 = o1
  None = None
  Unit = {u1, u2, u3, v1, o1}
  Document = {d1, d2}
  DocOf <- TwoDocuments
  Limit = 1
  MaxPages = 3
  Recent = 2
  Window = 1
  MaxTime = 2
  MaxRetain = 3
SYMMETRY FactSymmetry
INVARIANTS
  TypeOK
  RecoveredIsOwn
  FetchMissesOnlyWhatLeft
