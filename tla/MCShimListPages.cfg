SPECIFICATION Spec
CONSTANTS
  Tx = {t1}
  Key <- Keys
  Value = {v}
  Absent = Absent
  Untouched = Untouched
  Faults = TRUE
  MaxLog = 3
  MaxPage = 4
INVARIANT PagesComplete
