SPECIFICATION Spec
CONSTANTS
  Runtimes = {p1, p2}
  Sessions = {s1}
  Workspaces = {w1, w2}
  Null = none
  MaxRuns = 2
  MaxCalls = 1
  MaxFaults = 2
INVARIANTS
  TypeOK
  OneWriter
  NoForkedHistory
  SecondResultAccountedFor
  LocksAccountedFor
  RefusedLeavesNothing
  WorkspaceKept
PROPERTY
  StaleNeverCommits
SYMMETRY Interchangeable
CHECK_DEADLOCK FALSE
