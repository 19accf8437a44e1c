SPECIFICATION Spec
CONSTANTS
  Handler = {h1}
  Faults = {"down"}
  None = None
  MaxKeys = 2
  MaxVer = 3
INVARIANT LastAttemptReported
