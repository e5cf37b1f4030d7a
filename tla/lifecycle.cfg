SPECIFICATION Spec

CONSTANTS
  None = None
  p1 = p1
  p2 = p2
  k1 = k1
  k2 = k2
  u1 = u1
  n1 = n1
  q1 = q1
  q2 = q2
  m1 = m1
  m2 = m2
  f1 = f1

  Project = {p1, p2, p3}
  Key = {k1}
  User = {u1}
  Name = {}
  Cid = {m1, m2, f1}
  Manifest = {m1, m2}
  Backend = "fs"
  Req = {q1, q2}
  Ops = {"create", "delete", "update_name"}
  MaxClock = 0
  MaxFaults = 1
  MaxCrashes = 0
  Files <- MCFiles
  Parent <- MCParent
  Size <- MCSize
  Duration <- OneTtl
  MaxTtl <- ShortestOnly
  MaxProjects <- QuotaOfOne
  MaxSize <- SizeAll

INVARIANTS
  QuotaOverrunBounded

SYMMETRY LifecycleSymmetry
CHECK_DEADLOCK FALSE
