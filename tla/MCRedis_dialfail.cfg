CONSTANTS
  Clients = {q1, q2}
  Admins = {}
  Resources = {c1, c2}
  NoRes = NoRes
  BadRes = NilConn
  Capacity = 1
  MaxCap = 2
  FactoryMayFail = TRUE
  Keys = {s1}
  MayBreak = TRUE
  Nobody = Nobody
SPECIFICATION FairSpec
INVARIANTS Exclusive ConnectionLimit
PROPERTIES SeatCacheImplemented EveryRequestAnswered
CHECK_DEADLOCK FALSE
