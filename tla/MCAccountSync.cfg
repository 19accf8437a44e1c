SPECIFICATION Spec
CONSTANTS
  Handler = {h1}
  Faults = {"off", "down", "start", "refuse", "silent", "commit", "storage", "crash", "updates", "deletes"}
  None = None
  MaxKeys = 3
  MaxVer = 4
INVARIANT TypeOK
INVARIANT NatsInStep
INVARIANT LastWriteKept
INVARIANT OutcomeReported
