CONSTANTS
  Seats = {s1}
  Requests = {q1}
  Loaders = {l1}
  ConfirmMayFail = FALSE
  Nobody = Nobody
SPECIFICATION Spec
PROPERTIES OkReachesCache
