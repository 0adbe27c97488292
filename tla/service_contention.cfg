SPECIFICATION FairServiceSpec
CONSTANTS
  a0 = a0
  i1 = i1
  i2 = i2
  admin = admin
  bob = bob
  p1 = p1
  p2 = p2
  s1 = s1
  s2 = s2
  n1 = n1
  g1 = g1
  r1 = r1
  r2 = r2
  r3 = r3
  None = None
  Id <- MCId
  AdminId = a0
  Username <- MCUsername
  AdminName = admin
  Secret = {p1, p2}
  Salt = {s1}
  Name = {n1}
  Age = {g1}
  Caller = {r1, r2, r3}
  PoolSize = 2
  Calls <- CompetingCalls
  Faults = {}
  Requests <- Competing
PROPERTIES
  Answered
