CONSTANTS
  Clients = {g1, g2}
  Admins = {a1, a2, a3}
  Resources = {r1, r2}
  NoRes = NoRes
  BadRes = NoRes
  Capacity = 2
  MaxCap = 2
  FactoryMayFail = TRUE
SPECIFICATION Spec
SYMMETRY Symmetry
INVARIANTS SlotsConserved
CHECK_DEADLOCK FALSE
