SPECIFICATION Spec
CONSTANTS
  Handler = {h1}
  Faults = {"silent"}
  None = None
  MaxKeys = 2
  MaxVer = 3
INVARIANT LastAttemptReported
