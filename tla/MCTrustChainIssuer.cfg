SPECIFICATION Spec
CONSTANTS
  Account = {a1, a2}
  SigningKey = {k1, k2}
  Op = Op
  NoName = NoName
  None = None
  MaxKeys = 4
  RawKey = RawKey
INVARIANT AllIssuersTrusted
SYMMETRY Symm
