SPECIFICATION Spec
CONSTANTS
  None = None
  Dates = {1, 2}
  NoDate = NoDate
  Docs = {d1, d2, d3}
  Types = {t1, t2}
  Required = {t1, t2}
  MaxOverrides = 1
SYMMETRY Symmetry
INVARIANTS
  NotesTellStatus
  ExpiryNotLate
  OneCurrentVersion
  SupersededOnce
PROPERTIES
  ClearanceIsEarned
