CONSTANTS
  s1 = s1
  s2 = s2
  a = a
  b = b
  Clients = {l1, q1}
  Loaders = {l1}
  Readers = {q1}
  Admins = {}
  Resources = {c1, c2}
  NoRes = NoRes
  BadRes = NilConn
  Capacity = 2
  MaxCap = 3
  FactoryMayFail = TRUE
  Seeded <- TwoSeats
  ChanSize = 1
  MayFail = TRUE
  NoSession = NoSession
SPECIFICATION Spec
SYMMETRY Symmetry
INVARIANTS ListedSeatsExist OkMeansListed
PROPERTIES OnlySpoiltLoadShrinks ReportsTheList
CHECK_DEADLOCK FALSE
