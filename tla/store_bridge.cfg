SPECIFICATION Spec

CONSTANTS
  None = None
  Key = {a, b}
  Call = {c1, c2, c3}
  MaxPages = 2
  MaxFaults = 1

SYMMETRY Symmetry

INVARIANTS
  TypeOK
  AckedStored
  AckedListed
  AnswersOnPage

CHECK_DEADLOCK FALSE
