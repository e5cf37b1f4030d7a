SPECIFICATION Spec

CONSTANTS
  None = None
  Key = {a, b, c}
  Req = {q1, q2}
  Backend = {"fs", "s3"}
  TierTotal = {2}
  MaxTotal = 1
  MaxValue = 1
  Width = 3
  MaxFaults = 1

SYMMETRY Symmetry

INVARIANTS
  TypeOK
  OverrunBounded
  AdmitsOnlyFitting
  OnlyRacingValuesStay

CHECK_DEADLOCK FALSE
