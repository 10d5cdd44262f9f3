CONSTANTS
  Clients = {q1, q2}
  Admins = {}
  Resources = {c1, c2}
  NoRes = NoRes
  BadRes = NilConn
  Capacity = 2
  MaxCap = 3
  FactoryMayFail = FALSE
  Keys = {s1, s2}
  MayBreak = TRUE
  Nobody = Nobody
SPECIFICATION Spec
SYMMETRY Symmetry
INVARIANTS TypeOK WatchGuards TransactionsIsolated KoMeansNoWrite ConnectionsReturned
PROPERTIES SeatCacheImplemented
