SPECIFICATION SheetSpec
CONSTANTS
  Bookings = {b1}
  Workers = {w1}
  Sheets = {t1, t2}
  Hours = {h1, h2}
  NoHours = NoHours
  NoBooking = NoBooking
  Requests = {r1, r2}
  Idle = Idle
SYMMETRY Symmetry
PROPERTIES
  ApprovedIsLocked
