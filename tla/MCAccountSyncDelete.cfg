SPECIFICATION Spec
CONSTANTS
  Handler = {h1}
  Faults = {"refuse"}
  None = None
  MaxKeys = 2
  MaxVer = 3
PROPERTY DeletionReported
