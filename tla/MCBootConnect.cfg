CONSTANTS
  Settings <- MCSettings
  MaxRetries = 3
  MaxCalls = 4
SPECIFICATION FairSpec
INVARIANT RetriesKept
PROPERTY FailureReported
PROPERTY AutoConnectReturns
CHECK_DEADLOCK FALSE
