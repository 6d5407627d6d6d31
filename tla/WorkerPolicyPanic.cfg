SPECIFICATION Spec
CONSTANTS
  j1 = j1
  j2 = j2
  qa = qa
  qb = qb
  Jobs = {j1}
  Queues = {qa}
  QueueOf <- MCSameQueue
  MaxAttempts = 2
  MaxDeferrals = 0
  MaxPriority = 0
  Concurrency = 1
  Policies = {0, 2}
  HasHook = TRUE
  HasTimeout = TRUE
  CloseBackend = TRUE
  PolicyPanics = TRUE
  MaxFaults = 1
  MaxCrashes = 0
INVARIANTS
  NeverDroppedUnsettled
CHECK_DEADLOCK FALSE
