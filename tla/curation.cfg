SPECIFICATION Spec
CONSTANTS
  Unit = {u1, u2, u3}
SYMMETRY UnitSymmetry
INVARIANTS
  TypeOK
  ReportIsTrue
  RowsFollowHindsight
PROPERTIES
  LiveFactsKeepObservations
  IsWorkQueue
