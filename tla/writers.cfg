SPECIFICATION Published

CONSTANTS
  None = None
  p1 = p1
  p2 = p2
  k1 = k1
  k2 = k2
  u1 = u1
  n1 = n1
  q1 = q1
  q2 = q2
  m1 = m1
  m2 = m2
  f1 = f1

  Project = {p1}
  Key = {k1, k2}
  User = {}
  Name = {}
  Cid = {m1, m2, f1}
  Manifest = {m1, m2}
  Backend = "fs"
  Req = {q1, q2}
  Ops = {"update_root", "update_name", "extend_ttl", "delete"}
  MaxClock = 1
  MaxFaults = 0
  MaxCrashes = 1
  Files <- MCFiles
  Parent <- MCParent
  Size <- MCSize
  Duration <- OneTtl
  MaxTtl <- ShortestOnly
  MaxProjects <- Unlimited
  MaxSize <- SizeAll

INVARIANTS
  TypeOK
  RootCoverage
  KeyIsCreators
  ExpiryBound

PROPERTIES
  AuthorisedWrites
  ImplementsRegistry

SYMMETRY ReqSymmetry
CHECK_DEADLOCK FALSE
