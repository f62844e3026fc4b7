CONSTANTS
  n1 = n1
  None = None
  Network <- MCNetworks
  Reachable <- MCReachable
  Options <- MCOptions
  Preemptive = FALSE
  MaxCalls = 2
  MaxMoves = 1
SPECIFICATION FairPageSpec
INVARIANT LockedOnlyIfAbandoned
PROPERTY ToldTheOutcome
PROPERTY LeavesOnSuccess
PROPERTY SaveSettles
