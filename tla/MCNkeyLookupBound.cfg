SPECIFICATION FairSpec
CONSTANTS
  Operator = {p1}
  Account = {a1}
  None = None
  Bound = FALSE
  Fails = FALSE
  MaxKeys = 2
PROPERTY LookupsRespondedTo
CHECK_DEADLOCK FALSE
