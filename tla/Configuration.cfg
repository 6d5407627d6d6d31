SPECIFICATION Spec
CONSTANTS
  U64_MAX = 100000000
  U32_MAX = 1000000
  MAX_MESSAGE_TTL_MS = 1000000
  Inputs <- MCInputs
  ContainerItems <- MCContainerItems
  QueueItems <- MCQueueItems
  JobItems <- MCJobItems
  RetryItems <- MCRetryItems
  Manifests <- MCManifests
  Policies <- MCPolicies
  Concurrencies = {0}
  MaxWritten = 4
  MaxStarted = 3
  MaxCalls = 3
  MaxAttempts = 3
INVARIANTS
  WrittenIsHonoured
  OrderIrrelevant
  DeclarableAsWritten
  MostSpecificWins
  DelaysBounded
CHECK_DEADLOCK FALSE
