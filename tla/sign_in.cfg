SPECIFICATION Spec

CONSTANTS
  None = None
  acct = acct
  Provider = {gh}
  Account = {acct}
  Address = {typed}
  Canonical <- MCCanonical
  Ticket = {t1, t2}
  User = {u1, u2}
  Token = {k1, k2}
  Tab = {b}
  Req = {q1, q2}
  LinkTtl = 1
  SessionDays = 1
  Day = 2
  MaxClock = 4
  MaxFaults = 1

INVARIANTS
  TypeOK
  OpensOneSession
  SessionIsProvers
  AccountKept
  SessionWindow
  SignedOutStaysOut
  NoneLost

SYMMETRY Symmetry

CHECK_DEADLOCK FALSE
