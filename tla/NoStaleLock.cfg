SPECIFICATION Spec
CONSTANTS
  MaxCalls = 1
  MaxMessages = 2
  MaxRuns = 1
  MaxCrashes = 2
  FreshPlans = TRUE
INVARIANT NoStaleLock
CHECK_DEADLOCK FALSE
