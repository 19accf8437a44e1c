SPECIFICATION FairSpec
CONSTANTS
  Operator = {p1}
  Account = {a1}
  None = None
  Bound = TRUE
  Fails = FALSE
  MaxKeys = 2
PROPERTY EveryLookupAnswered
CHECK_DEADLOCK FALSE
