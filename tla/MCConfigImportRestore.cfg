SPECIFICATION Spec
CONSTANTS
  Revs = {1, 2}
  Configs <- TwoConfigs
  MaxEdits = 0
  MaxFaults = 0
CHECK_DEADLOCK FALSE
INVARIANTS
  RestoresOnNewHardware
