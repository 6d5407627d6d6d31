SPECIFICATION Spec
CONSTANTS
  Jobs = {j1, j2}
  Consumers = {c1, c2}
  MaxAttempts = 2
  MaxDeferrals = 0
  MaxPriority = 5
  Prefetch = 1
  MAX_PERMITS = 8
  NoEnvelope = NoEnvelope
SYMMETRY Symmetry
INVARIANTS
  TypeOK
  OneRunnableCopy
  NoJobLost
  HeldIsExact
  PrefetchBound
  NoLostWakeup
PROPERTY ClosedAcceptsNothing
CHECK_DEADLOCK FALSE
