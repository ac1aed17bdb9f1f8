SPECIFICATION Spec
CONSTANTS
  Workers = {w1, w2}
  Schools = {s1, s2}
  Requests = {r1, r2}
  Idle = Idle
SYMMETRY Symmetry
INVARIANTS
  ClearedIffVerified
  OneRecordPerSchool
  AttendedWasVerified
PROPERTIES
  ImplementsRegister
