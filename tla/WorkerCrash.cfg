SPECIFICATION FairSpec
CONSTANTS
  j1 = j1
  j2 = j2
  qa = qa
  qb = qb
  Jobs = {j1}
  Queues = {qa, qb}
  QueueOf <- MCSameQueue
  MaxAttempts = 2
  MaxDeferrals = 1
  MaxPriority = 0
  Concurrency = 1
  Policies = {0, 2}
  HasHook = TRUE
  HasTimeout = FALSE
  CloseBackend = TRUE
  PolicyPanics = TRUE
  MaxFaults = 1
  MaxCrashes = 1
INVARIANT
  HookBeforeDeadLetter
PROPERTIES
  ImplementsAtLeastOnce
  ShutdownTerminates
  JobsFinish
CHECK_DEADLOCK FALSE
