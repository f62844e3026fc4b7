CONSTANTS
  n1 = n1
  n2 = n2
  n3 = n3
  None = None
  Disabled = Disabled
  Unterminated = Unterminated
  Keep = Keep
  NoCandidate = NoCandidate
  Network <- MCNetworks
  Reachable <- MCReachable
  SlotCount = 2
  InitialSets <- MCInitialSets
  Proposals <- MCProposals
  SavedForms <- MCForms
  Options <- MCOptions
  Preemptive = FALSE
  MaxCalls = 3
SPECIFICATION Spec
INVARIANT StoreMatchesMemory
INVARIANT OneTryPerSlot
INVARIANT OwnedAttemptUntouched
INVARIANT CandidatePursued
PROPERTY CandidateVerified
