\* Two calls over at most six messages, summaries of everything but the last
\* two groups, one fault.
SPECIFICATION FairSpec
CONSTANTS
  c1 = c1
  c2 = c2
  CallIds <- BothCalls
  Commands <- BothCalls
  ContextLimit = 16
  OutputReserve = 20
  SafetyMargin = 5
  ThresholdRatio = 75
  FixedTokens = 1
  IdTokens = 1
  PreserveRecent = 2
  MaxCalls = 2
  LastFragment = 3
  MaxDeltas = 2
  MaxAttempts = 2
  RawTokens <- Sizes
  DisplayTokens = 3
  MessageTokens = 2
  MaxMessages = 6
  MaxFaults = 1
INVARIANTS
  TypeOK
  RequestWhole
  SummariesMonotonic
  RecordFollowsStore
  OneExecutionPerCall
  OutcomeMatchesExecution
PROPERTIES
  ResponseFromOneAttempt
  CallReturns
\* The session may be full.
CHECK_DEADLOCK FALSE
