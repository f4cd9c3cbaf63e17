SPECIFICATION FairSpec
CONSTANTS
  StuckAfter = 2
  MaxAttempts = 3
  MaxBatches = 2
  Rejected <- FirstRejected
  MaxCopies = 2
  Budgets <- TwoMixes
CHECK_DEADLOCK FALSE
INVARIANTS
  TypeOK
  AgeIsHonest
  OkMeansAccepted
PROPERTIES
  StallRecovers
  AckTopicSubscribed
  LoneAckNeverBlocks
