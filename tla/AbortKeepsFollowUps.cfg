SPECIFICATION Spec
CONSTANTS
  Task = task
  s1 = s1
  s2 = s2
  f1 = f1
  f2 = f2
  Steers <- NoMessages
  FollowUps <- OneFollowUp
  MaxRuns = 1
  MaxBatch = 1
  MaxTurns = 1
  MaxToolCalls = 1
  MaxRetries = 0
  Deadline = 2
  Backoff = 0
  MaxOverrun = 0
  QueueLimit = 1
PROPERTY AbortKeepsFollowUps
CHECK_DEADLOCK FALSE
