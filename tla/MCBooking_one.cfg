SPECIFICATION Spec
CONSTANTS
  Bookings = {b1}
  Workers = {w1, w2}
  Dates = {d1}
  NoWorker = NoWorker
  NoDate = NoDate
  NoRow = NoRow
SYMMETRY Symmetry
INVARIANTS
  AssignmentMatchesOffers
  ShownToTheRightWorkers
  OpenOffersOnlyOnOffer
  HistoryTellsStatus
  UnderWayIsCleared
PROPERTIES
  HistoryIsChain
  AnswersAreFinal
  ImplementsLifecycle
