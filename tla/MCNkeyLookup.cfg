SPECIFICATION Spec
CONSTANTS
  Operator = {p1, p2}
  Account = {a1, a2}
  None = None
  Bound = TRUE
  Fails = TRUE
  MaxKeys = 3
INVARIANT TypeOK
INVARIANT NoFalseAbsence
INVARIANT OperatorsSeparate
SYMMETRY Symm
CHECK_DEADLOCK FALSE
