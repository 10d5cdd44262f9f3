CONSTANTS
  Seats = {s1}
  Requests = {q1}
  Loaders = {l1, l2}
  ConfirmMayFail = TRUE
  Nobody = Nobody
SPECIFICATION Spec
INVARIANTS DoAlone
