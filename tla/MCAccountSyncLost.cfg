SPECIFICATION Spec
CONSTANTS
  Handler = {h1, h2}
  Faults = {}
  None = None
  MaxKeys = 2
  MaxVer = 3
INVARIANT DeletedStaysDeleted
