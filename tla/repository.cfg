SPECIFICATION OverlapSpec
CONSTANTS
  a0 = a0
  i1 = i1
  i2 = i2
  admin = admin
  bob = bob
  carol = carol
  p1 = p1
  p2 = p2
  s1 = s1
  n1 = n1
  n2 = n2
  g1 = g1
  g2 = g2
  r1 = r1
  r2 = r2
  None = None
  Id <- MCId
  AdminId = a0
  Username <- OverlapUsername
  AdminName = admin
  Secret = {p1, p2}
  Salt = {s1}
  Name = {n1}
  Age = {g1, g2}
  Caller <- MCCaller
  PoolSize = 2
  Calls <- AllCalls
  Faults = {"statement", "connection", "crash"}
SYMMETRY CallerSymmetry
INVARIANTS
  OnlyAskedFor
  AdminProtected
  UniqueLiveUsername
  CreatedTogether
  ConnectionsReturned
  IInv
  StoreInv
  NoWaitCycle
  GoesOn
PROPERTIES
  IdentityImmutable
  DeletesBoth
  OnlyUpdatesPart
  DeletionFinal
  StoreSpec
