SPECIFICATION Spec
CONSTANTS
  j1 = j1
  j2 = j2
  qa = qa
  qb = qb
  Jobs = {j1, j2}
  Queues = {qa}
  QueueOf <- MCSameQueue
  MaxAttempts = 2
  MaxDeferrals = 0
  MaxPriority = 0
  Concurrency = 2
  Policies = {0, 1, 2}
  HasHook = TRUE
  HasTimeout = TRUE
  CloseBackend = FALSE
  PolicyPanics = FALSE
  MaxFaults = 1
  MaxCrashes = 0
SYMMETRY Symmetry
INVARIANTS
  TypeOK
  ConcurrencyCap
  NoOverlap
  NeverDroppedUnsettled
  LastAttemptHonest
CHECK_DEADLOCK FALSE
