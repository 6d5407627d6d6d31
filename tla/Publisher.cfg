SPECIFICATION FairSpec
CONSTANTS
  Calls = {c1, c2}
  Closer = closer
  Size = 2
  Waits = {1, 2}
  RetryGranularity = 3
  DeferredGranularity = 0
  PerMs = 1
  MAX_TTL_MS = 2
  MaxTroubles = 1
  MaxCancels = 1
INVARIANTS
  TypeOK
  OkMeansHandedOver
  ChannelsBounded
  CloseWaits
  LostOnlyIfLate
PROPERTIES
  NeverEarly
  PublishesEnd
CHECK_DEADLOCK FALSE
