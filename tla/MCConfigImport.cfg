SPECIFICATION Spec
CONSTANTS
  Revs = {1, 2}
  Configs <- TwoConfigs
  MaxEdits = 2
  MaxFaults = 1
CHECK_DEADLOCK FALSE
INVARIANTS
  TypeOK
  ReferencesHold
  ImportRestores
  ClashesOnlyByReuse
PROPERTIES
  KeepsNewerRows
