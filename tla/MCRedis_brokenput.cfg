CONSTANTS
  Clients = {q1}
  Admins = {}
  Resources = {c1}
  NoRes = NoRes
  BadRes = NilConn
  Capacity = 1
  MaxCap = 2
  FactoryMayFail = FALSE
  Keys = {s1}
  MayBreak = TRUE
  Nobody = Nobody
SPECIFICATION Spec
PROPERTIES NoClosedPut
