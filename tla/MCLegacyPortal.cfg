CONSTANTS
  n1 = n1
  n2 = n2
  None = None
  Network <- MCNetworks
  Reachable <- MCReachable
  Options <- MCOptions
  Preemptive = TRUE
  MaxCalls = 4
SPECIFICATION FairSpec
INVARIANT HandoffHasAddress
INVARIANT ServerIffPortal
PROPERTY NoSaveLeftBehind
PROPERTY SaveReported
PROPERTY SaveAnswered
PROPERTY HandoffCloses
PROPERTY ExitHonoured
