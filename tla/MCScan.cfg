CONSTANTS
  a = a
  b = b
  hidden = hidden
  None = None
  Ssid <- MCSsid
  Nameless = hidden
  Rssi <- MCRssi
  Findings <- MCFindings
  Minimums <- MCMinimums
  Wrapped = 4
  Preemptive = FALSE
  MaxCalls = 4
SPECIFICATION FairSpec
INVARIANT StorageReleased
INVARIANT ResultsAreReal
INVARIANT ListIsRight
PROPERTY SaveGoesFirst
PROPERTY ScanAnswered
