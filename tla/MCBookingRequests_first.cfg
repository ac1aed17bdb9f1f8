SPECIFICATION ReqSpec
CONSTANTS
  Bookings = {b1}
  Workers = {w1, w2}
  Dates = {d1}
  Requests = {r1}
  NoWorker = NoWorker
  NoDate = NoDate
  NoRow = NoRow
SYMMETRY Symmetry
CONSTRAINT StillCalendar
PROPERTIES
  FirstAcceptWins
