SPECIFICATION Spec
CONSTANTS
  Tx = {t1}
  Key = {k1, k2}
  Value = {v1}
  Absent = Absent
  Untouched = Untouched
  Faults = TRUE
  MaxLog = 2
PROPERTY RollbackPersistsNothing
