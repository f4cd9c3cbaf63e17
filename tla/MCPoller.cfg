SPECIFICATION FairSpec
CONSTANTS
  W = 16
  MaxRegisters = 6
  MaxGap = 1
  Configs <- AllConfigs
CHECK_DEADLOCK FALSE
INVARIANTS
  TypeOK
  OneReadingPerPoint
  AsDedicatedBelowTop
  PlanIsLegalAndSmallest
PROPERTIES
  CancelledReturns
  NoDeviceStarves
