SPECIFICATION SheetSpec
CONSTANTS
  Bookings = {b1, b2}
  Workers = {w1}
  Sheets = {t1, t2}
  Hours = {h1, h2}
  NoHours = NoHours
  NoBooking = NoBooking
  Requests = {r1}
  Idle = Idle
SYMMETRY Symmetry
INVARIANTS
  OneSheetPerBooking
PROPERTIES
  DecisionsAreFinal
  FiguresAreKept
