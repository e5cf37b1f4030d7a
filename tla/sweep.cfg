SPECIFICATION Published

CONSTANTS
  None = None
  p1 = p1
  p2 = p2
  k1 = k1
  k2 = k2
  u1 = u1
  n1 = n1
  q1 = q1
  q2 = q2
  m1 = m1
  m2 = m2
  f1 = f1

  Project = {p1, p2}
  Key = {k1}
  User = {}
  Name = {}
  Cid = {m1, m2, f1}
  Manifest = {m1, m2}
  Backend = "s3"
  Req = {q1}
  Ops = {"create", "update_root", "extend_ttl", "upload", "put_value"}
  MaxClock = 1
  MaxFaults = 1
  MaxCrashes = 0
  Files <- MCFiles
  Parent <- MCParent
  Size <- MCSize
  Duration <- OneTtl
  MaxTtl <- ShortestOnly
  MaxProjects <- Unlimited
  MaxSize <- SizeAll

PROPERTIES
  ReapsOnlyOverdue
  KeepsBlobsOfLive

CHECK_DEADLOCK FALSE
