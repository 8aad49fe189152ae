SPECIFICATION FairSpec
CONSTANTS
  Task = {t1, t2}
  t1 = t1
  t2 = t2
  TaskConcurrency = 2
  PassRetryLimit = 2
  TaskRetryLimit = 1
  MaxFailures = 2
  MaxSignals = 2
  MaxDisturbances = 1
  MaxPumps = 1
INVARIANTS NoLostWake
PROPERTIES FullIsHonoured WakesAreReconciledOrExhausted WakesAreReconciled
CHECK_DEADLOCK FALSE
