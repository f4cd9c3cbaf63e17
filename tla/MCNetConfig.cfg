SPECIFICATION FairSpec
CONSTANTS
  Clients = {c1, c2}
  Configs <- StaticConfigs
  MaxApplies = 2
  Restarts = TRUE
  NmcliFails = TRUE
CHECK_DEADLOCK FALSE
INVARIANTS
  TypeOK
  ConfirmCancels
  PendingSeesArmed
  
PROPERTIES
  UnconfirmedEnds
