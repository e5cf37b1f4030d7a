SPECIFICATION Spec

CONSTANTS
  None = None
  Dir = {d}
  Tab = {t}
  Path = {a, b}
  Task = {x, y}
  MaxVersions = 3
  MaxRevs = 2
  MaxFaults = 1

SYMMETRY Symmetry

INVARIANTS
  TypeOK
  PullsOneVersion
  ShownMatches

PROPERTY
  UntouchedKept

CHECK_DEADLOCK FALSE
