CONSTANTS
  Callers = {r1, u1}
  Seeders = {r1}
  Users = {u1}
  Nil = Nil
  THEATRES = 1
  SCREENS = 1
  SHOWS = 2
  SEATS = 2
  MaxFaults = 1
SPECIFICATION FairSpec
INVARIANTS TypeOK QuietMeansLimited OneRowPerSeat ParentsExist
PROPERTIES SeedingCompletes
CHECK_DEADLOCK FALSE
