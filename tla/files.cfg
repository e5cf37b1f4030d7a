SPECIFICATION Spec

CONSTANTS
  None = None
  short = short
  long = long
  Project = {p1, p2}
  Blob = {b1}
  Version = {short, long}
  Pages <- MCPages
  Deadline <- MCDeadline
  Task = {t1, t2}
  DetailLimit = 1
  MaxClock = 1
  MaxFaults = 1

INVARIANTS
  ExporterTypeOK
  RestIsWhole

PROPERTIES
  TornStays
  CountsUntouched

SYMMETRY Symmetry
CHECK_DEADLOCK FALSE
