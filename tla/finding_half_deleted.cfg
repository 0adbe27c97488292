SPECIFICATION Spec
CONSTANTS
  a0 = a0
  i1 = i1
  i2 = i2
  admin = admin
  bob = bob
  p1 = p1
  p2 = p2
  s1 = s1
  n1 = n1
  n2 = n2
  g1 = g1
  r1 = r1
  r2 = r2
  None = None
  Id <- MCId
  AdminId = a0
  Username <- MCUsername
  AdminName = admin
  Secret = {p1, p2}
  Salt = {s1}
  Name = {n1, n2}
  Age = {g1}
  Caller <- MCCaller
  PoolSize = 2
  Calls <- OneUser
  Faults = {}
SYMMETRY CallerSymmetry
INVARIANTS
  LivePairing
