CONSTANTS
  s1 = s1
  s2 = s2
  a = a
  b = b
  Clients = {l1, l2}
  Loaders = {l1, l2}
  Readers = {}
  Admins = {}
  Resources = {c1}
  NoRes = NoRes
  BadRes = NilConn
  Capacity = 1
  MaxCap = 2
  FactoryMayFail = TRUE
  Seeded <- TwoSessions
  ChanSize = 1
  MayFail = FALSE
  NoSession = NoSession
SPECIFICATION FairSpec
INVARIANTS TypeOK EverySessionReported OkMeansListed
PROPERTIES OnlySpoiltLoadShrinks LoadSetsEnds
