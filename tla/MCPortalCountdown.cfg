CONSTANTS
  Wrap = 16
  Limits <- MCLimits
  Second = 2
  MaxCalls = 3
  MaxIntervals = 3
SPECIFICATION PageSpec
INVARIANT CountdownRestarts
