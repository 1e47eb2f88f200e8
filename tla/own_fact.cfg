SPECIFICATION Spec
CONSTANTS
  Unit = {u1, u2}
INVARIANTS
  OwnFactSurvives
