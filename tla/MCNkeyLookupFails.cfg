SPECIFICATION Spec
CONSTANTS
  Operator = {p1}
  Account = {a1}
  None = None
  Bound = TRUE
  Fails = TRUE
  MaxKeys = 2
INVARIANT EmptyMeansAbsent
CHECK_DEADLOCK FALSE
