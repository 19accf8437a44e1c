SPECIFICATION Spec
CONSTANTS
  Handler = {h1}
  SigningName = {s1}
  ImportName = {i1}
  Subject = {x}
  User = {u1}
  RawImport = RawImport
  RawSigner = RawSigner
  None = None
  MaxKeys = 3
  MaxRequests = 5
INVARIANT NatsExact
CHECK_DEADLOCK FALSE
