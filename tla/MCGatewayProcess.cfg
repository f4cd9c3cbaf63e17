SPECIFICATION FairSpec
CONSTANTS
  Requests = {r1, r2}
  DTOs <- Submissions
  FirstFile <- Shipped
  Env <- BrokerFromEnv
  Expansion <- DollarExpands
  Mixes <- Bounds
  Ahead <- ClockErrors
  Implausible <- Badly
  MaxDelay = 1
  Era = 100
  Epoch = 51
  Times = {60, 110, 170}
CHECK_DEADLOCK FALSE
INVARIANTS
  TypeOK
  AcceptedTakesEffect
  IdentityKept
  GarbledOnlyByTear
  RTCDisciplined
PROPERTIES
  QualityFollowsServer
