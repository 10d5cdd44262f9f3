CONSTANTS
  Clients = {g1, g2, g3}
  Admins = {a1}
  Resources = {r1, r2}
  NoRes = NoRes
  BadRes = NoRes
  Capacity = 1
  MaxCap = 2
  FactoryMayFail = TRUE
SPECIFICATION FairSpec
INVARIANTS PoolTypeOK Exclusive SlotsConserved NoPanic ClosedMeansReturned
PROPERTIES GetReturns ResizeReturns
