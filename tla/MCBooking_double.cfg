SPECIFICATION Spec
CONSTANTS
  Bookings = {b1, b2}
  Workers = {w1}
  Dates = {d1}
  NoWorker = NoWorker
  NoDate = NoDate
  NoRow = NoRow
SYMMETRY Symmetry
INVARIANTS
  NoDoubleBooking
