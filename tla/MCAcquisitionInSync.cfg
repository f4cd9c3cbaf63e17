SPECIFICATION StartedSpec
CONSTANTS
  Conns = {c1}
  Devices = {d1}
  Revs = {0, 1}
  Requests = {r1, r2}
  MaxEdits = 2
  QueriesFail = FALSE
CHECK_DEADLOCK FALSE
INVARIANTS
  InSync
