SPECIFICATION Spec
CONSTANTS
  MaxSeq = 2
  MaxFaults = 3
  Hazards = {"send", "lose", "dup", "ingest", "crash", "db"}
  DiskFull = TRUE
  BatchSize = 2
  EvictBatchSize = 1
  Retention = 0
  Inputs <- Mixed
INVARIANTS
  TypeOK
  SentIsStored
  KeyIdentifiesReading
  NothingLost
PROPERTIES
  ImplementsDelivery
