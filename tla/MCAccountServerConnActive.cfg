SPECIFICATION Spec
CONSTANTS
  Conn = {c1, c2}
  Caller = {h1}
  None = None
  GivesUp = TRUE
  MaxCallbacks = 3
  MaxEvents = 3
INVARIANT ActiveNotClosed
SYMMETRY Symm
