CONSTANTS
  n1 = n1
  n2 = n2
  n3 = n3
  None = None
  Disabled = Disabled
  Unterminated = Unterminated
  Keep = Keep
  NoCandidate = NoCandidate
  Network <- MCNetworks
  Reachable <- MCReachable
  SlotCount = 2
  InitialSets <- MCFewSets
  Proposals <- MCFewProposals
  SavedForms <- MCFewForms
  Options <- MCTimed
  Preemptive = TRUE
  MaxCalls = 3
SPECIFICATION FairSpec
 
PROPERTY CycleEnds
PROPERTY PortalAttemptDecided
PROPERTY RecoversFromLoss
