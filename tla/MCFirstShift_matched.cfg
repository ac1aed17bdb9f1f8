SPECIFICATION Spec
CONSTANTS
  Workers = {w1}
  Schools = {s1}
  Requests = {r1}
  Idle = Idle
INVARIANTS
  AttendedWasMatched
