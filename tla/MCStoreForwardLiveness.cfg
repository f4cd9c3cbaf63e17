SPECIFICATION FairSpec
CONSTANTS
  MaxSeq = 3
  MaxFaults = 2
  Hazards = {"send", "lose", "dup", "ingest", "crash"}
  DiskFull = FALSE
  BatchSize = 2
  EvictBatchSize = 1
  Retention = 0
  Inputs <- OneKind
INVARIANTS
  NoOrphanSending
  OvertakenOnlyByBackoff
PROPERTIES
  BacklogDrains
