\* One run with time: two turns, batches of two against a budget of two, one
\* retry after a delay, a deadline of two ticks, and tools that may take one tick
\* more than they are given.
SPECIFICATION FairSpec
CONSTANTS
  Task = task
  s1 = s1
  s2 = s2
  f1 = f1
  f2 = f2
  Steers <- TwoSteers
  FollowUps <- OneFollowUp
  MaxRuns = 1
  MaxBatch = 2
  MaxTurns = 2
  MaxToolCalls = 2
  MaxRetries = 1
  Deadline = 2
  Backoff = 1
  MaxOverrun = 1
  QueueLimit = 1
INVARIANTS
  TypeOK
  ResultsFollowCalls
  RefusedOnlyAtLimit
  BudgetsKept
  OvershootBounded
  CancelStopsWork
  CancelledRunsAbort
PROPERTIES
  RunsEnd
\* A run that is over, with no further run to start, has nothing left to do.
CHECK_DEADLOCK FALSE
