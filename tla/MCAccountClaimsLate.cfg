SPECIFICATION Spec
CONSTANTS
  Handler = {h1, h2}
  SigningName = {s1}
  ImportName = {i1}
  Subject = {x}
  User = {u1}
  RawImport = RawImport
  RawSigner = RawSigner
  None = None
  MaxKeys = 3
  MaxRequests = 4
INVARIANT JwtUpToDate
CHECK_DEADLOCK FALSE
