SPECIFICATION DiligentSpec
CONSTANTS
  MaxCalls = 3
  MaxMessages = 5
  MaxRuns = 2
  MaxCrashes = 2
  FreshPlans = TRUE
INVARIANTS
  TypeOK
  HistoryTruthful
  EvidenceBeforeEffect
  JournalFollowsHistory
  OneResultPerCall
  CheckpointCovers
PROPERTY RecoveryConverges
\* A session with no run left to start has nothing left to do.
CHECK_DEADLOCK FALSE
