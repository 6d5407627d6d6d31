SPECIFICATION Spec
CONSTANTS
  Calls = {c1}
  Closer = closer
  Size = 1
  Waits = {3}
  RetryGranularity = 4
  DeferredGranularity = 1
  PerMs = 2
  MAX_TTL_MS = 5
  MaxTroubles = 0
  MaxCancels = 0
INVARIANT ConfirmedNotLost
CHECK_DEADLOCK FALSE
