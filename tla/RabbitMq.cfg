SPECIFICATION Spec
CONSTANTS
  p1 = p1
  p2 = p2
  j1 = j1
  j2 = j2
  Jobs = {j1, j2}
  Poison = {j2}
  Procs <- MCProcs
  Workers = {p1}
  Producers = {p2}
  Options <- MCOptions
  Calls <- MCCalls
  QueueOf <- MCQueueOf
  Meddling <- MCMeddling
  Waits = {1, 9}
  PerMs = 1
  MAX_TTL_MS = 4
  MAX_SHORT_STRING_LENGTH = 255
  MaxAttempts = 2
  MaxDeferrals = 1
  MaxPriority = 0
  MaxRounds = 1
  MaxJobs = 1
  MaxOutages = 1
  MaxTroubles = 1
INVARIANTS
  NothingLost
  HoldsAgree
  RestoredOrReported
PROPERTY DeadLettersTerminal
CHECK_DEADLOCK FALSE
