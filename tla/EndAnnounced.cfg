SPECIFICATION Spec
CONSTANTS
  Task = task
  s1 = s1
  s2 = s2
  f1 = f1
  f2 = f2
  Steers <- NoMessages
  FollowUps <- NoMessages
  MaxRuns = 1
  MaxBatch = 1
  MaxTurns = 2
  MaxToolCalls = 1
  MaxRetries = 0
  Deadline = 2
  Backoff = 0
  MaxOverrun = 0
  QueueLimit = 1
INVARIANT EndAnnounced
CHECK_DEADLOCK FALSE
