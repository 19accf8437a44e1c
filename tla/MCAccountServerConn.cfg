SPECIFICATION Spec
CONSTANTS
  Conn = {c1, c2, c3}
  Caller = {h1}
  None = None
  GivesUp = TRUE
  MaxCallbacks = 3
  MaxEvents = 3
INVARIANT TypeOK
INVARIANT CachedNotDrained
SYMMETRY Symm
