SPECIFICATION Spec
CONSTANTS
  MaxSeq = 2
  MaxFaults = 1
  Hazards = {"send"}
  DiskFull = TRUE
  BatchSize = 2
  EvictBatchSize = 1
  Retention = 0
  Inputs <- OneKind
INVARIANTS
  NoOrphanSending
