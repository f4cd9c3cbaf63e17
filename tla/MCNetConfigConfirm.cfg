SPECIFICATION Spec
CONSTANTS
  Clients = {c1, c2}
  Configs <- StaticConfigs
  MaxApplies = 3
  Restarts = FALSE
  NmcliFails = FALSE
CHECK_DEADLOCK FALSE
INVARIANTS
  ConfirmIsPermanent
