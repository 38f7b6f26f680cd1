\* Two runs on one session, without the clock: what the second run finds is
\* what the first one left.
SPECIFICATION Spec
CONSTANTS
  Task = task
  s1 = s1
  s2 = s2
  f1 = f1
  f2 = f2
  Steers <- TwoSteers
  FollowUps <- TwoFollowUps
  MaxRuns = 2
  MaxBatch = 2
  MaxTurns = 2
  MaxToolCalls = 1
  MaxRetries = 0
  Deadline = 1
  Backoff = 0
  MaxOverrun = 0
  QueueLimit = 2
INVARIANTS
  HistoryReady
  EveryCallAnswered
  ControlConserved
PROPERTIES
  FinishedLeavesNothing
  CallsAccounted
\* A run that is over, with no further run to start, has nothing left to do.
CHECK_DEADLOCK FALSE
