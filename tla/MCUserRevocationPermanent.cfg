SPECIFICATION Spec
CONSTANTS
  Handler = {h1}
  LimitTtl = {0, 1}
  CredsTtl = {0, 3}
  RevocationTtl = {0, 1}
  MaxLeaseTTL = 2
  Buffer = 0
  ImplicitRevocations = TRUE
  Failures = FALSE
  MaxKeys = 2
  MaxCreds = 1
  MaxTime = 3
PROPERTY PermanentStays
