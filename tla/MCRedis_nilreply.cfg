CONSTANTS
  Clients = {q1, q2}
  Admins = {}
  Resources = {c1, c2}
  NoRes = NoRes
  BadRes = NilConn
  Capacity = 2
  MaxCap = 3
  FactoryMayFail = FALSE
  Keys = {s1}
  MayBreak = FALSE
  Nobody = Nobody
SPECIFICATION Spec
INVARIANTS OkMeansCommitted
