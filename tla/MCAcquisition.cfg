SPECIFICATION StartedSpec
CONSTANTS
  Conns = {c1, c2}
  Devices = {d1, d2}
  Revs = {0, 1}
  Requests = {r1, r2}
  MaxEdits = 2
  QueriesFail = TRUE
CHECK_DEADLOCK FALSE
INVARIANTS
  TypeOK
  FreshReloadInSync
  LivePollersAreRunning
SYMMETRY Symmetry
