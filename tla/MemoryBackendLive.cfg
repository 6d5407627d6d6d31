SPECIFICATION FairSpec
CONSTANTS
  Jobs = {j1}
  Consumers = {c1, c2}
  MaxAttempts = 2
  MaxDeferrals = 1
  MaxPriority = 5
  Prefetch = 1
  MAX_PERMITS = 8
  NoEnvelope = NoEnvelope
PROPERTIES
  ConsumersEnd
  AcceptedJobsFinish
CHECK_DEADLOCK FALSE
