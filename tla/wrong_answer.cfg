SPECIFICATION Spec

CONSTANTS
  None = None
  Key = {a, b}
  Call = {c1, c2}
  MaxPages = 2
  MaxFaults = 0

SYMMETRY Symmetry

INVARIANTS
  AnswersOwn

CHECK_DEADLOCK FALSE
