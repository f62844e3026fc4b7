CONSTANTS
  u1 = u1
  u2 = u2
  Uploads <- MCUploads
  Limits <- MCLimits
  MaxCalls = 5
SPECIFICATION Spec
INVARIANT LimitKept
PROPERTY UploadNotTimedOut
PROPERTY RestartAfterUpdate
SYMMETRY Symmetry
CHECK_DEADLOCK FALSE
