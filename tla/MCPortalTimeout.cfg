CONSTANTS
  Wrap = 8
  Limits <- MCLimits
  Second = 2
  MaxCalls = 4
SPECIFICATION FairSpec
PROPERTY NotCutShort
PROPERTY OutlivesReport
PROPERTY PortalEnds
