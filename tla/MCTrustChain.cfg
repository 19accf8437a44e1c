SPECIFICATION Spec
CONSTANTS
  Account = {a1, a2}
  SigningKey = {k1, k2}
  Op = Op
  NoName = NoName
  None = None
  MaxKeys = 5
  RawKey = RawKey
INVARIANT TypeOK
INVARIANT SignerFresh
INVARIANT SubjectFresh
INVARIANT OperatorJwtFresh
INVARIANT OneSystemAccount
INVARIANT RunningServerTrusted
SYMMETRY Symm
