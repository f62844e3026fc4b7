CONSTANTS
  n1 = n1
  n2 = n2
  n3 = n3
  None = None
  Disabled = Disabled
  Unterminated = Unterminated
  Keep = Keep
  NoCandidate = NoCandidate
  Network <- MCNetworks
  Reachable <- MCReachable
  SlotCount = 2
  InitialSets <- MCFewSets
  Proposals <- MCProposals
  SavedForms <- MCForms
  Options <- MCTimed
  Preemptive = TRUE
  MaxCalls = 4
SPECIFICATION Spec
PROPERTY CandidateVerified
