--------------------------- MODULE BookingProofs ---------------------------
(***************************************************************************)
(* What module Booking states, proved for any sets of bookings, workers    *)
(* and dates.  Everything follows from one inductive invariant, IInv.      *)
(***************************************************************************)
EXTENDS Booking, TLAPS

(* Every request keeps the type invariant. *)
LEMMA TypePreserved == TypeOK /\ [Next]_vars => TypeOK'
<1> SUFFICES ASSUME TypeOK, [Next]_vars PROVE TypeOK'
  OBVIOUS
<1> USE NullAssumption, NoRowAssumption
    DEF TypeOK, Exists, rowVars, workerVars, clockVars
<1>1. ASSUME NEW b \in Bookings, BookingStep(b) PROVE TypeOK'
  <2> USE DEF Rows, Statuses, OfferStatuses, DispatchModes, SetStatus, Record
  <2>1. ASSUME NEW d \in Dates, NEW m \in DispatchModes,
               NEW w \in Workers \cup {NoWorker}, CreateBooking(b, d, m, w)
        PROVE TypeOK'
    BY <2>1 DEF CreateBooking
  <2>2. ASSUME NEW d \in Dates, UpdateBooking(b, d) PROVE TypeOK'
    BY <2>2 DEF UpdateBooking
  <2>3. ASSUME NEW targets \in SUBSET Workers, DispatchOffers(b, targets)
        PROVE TypeOK'
    BY <2>3 DEF DispatchOffers, MayMove, Transitions
  <2>4. ASSUME NEW w \in Workers, AcceptOffer(b, w) PROVE TypeOK'
    BY <2>4 DEF AcceptOffer, Assign, Expired, MayMove, Transitions
  <2>5. ASSUME NEW w \in Workers, ClaimShift(b, w) PROVE TypeOK'
    BY <2>5 DEF ClaimShift, Assign, Expired
  <2>6. ASSUME NEW w \in Workers, DeclineOffer(b, w) PROVE TypeOK'
    BY <2>6 DEF DeclineOffer
  <2>7. CASE ConfirmBooking(b)
    BY <2>7 DEF ConfirmBooking, MayMove, Transitions
  <2>8. CASE CancelBooking(b)
    BY <2>8 DEF CancelBooking, Expired, MayMove, Transitions
  <2>9. CASE ExpireBooking(b)
    BY <2>9 DEF ExpireBooking, Expired, MayMove, Transitions
  <2>10. CASE CheckIn(b)
    BY <2>10 DEF CheckIn
  <2>11. CASE CompleteShift(b)
    BY <2>11 DEF CompleteShift
  <2>12. CASE RecordNoShow(b)
    BY <2>12 DEF RecordNoShow
  <2>13. ASSUME NEW to \in OverrideTargets, ManualOverride(b, to)
         PROVE TypeOK'
    BY <2>13 DEF ManualOverride, OverrideTargets
  <2>14. CASE WindowCloses(b)
    BY <2>14 DEF WindowCloses
  <2>15. QED
    BY <1>1, <2>1, <2>2, <2>3, <2>4, <2>5, <2>6, <2>7, <2>8, <2>9, <2>10,
       <2>11, <2>12, <2>13, <2>14 DEF BookingStep
<1>2. ASSUME NEW w \in Workers, WorkerStep(w) PROVE TypeOK'
  BY <1>2 DEF WorkerStep, SetAvailability, ReviewWorker, ClearFirstShift
<1>3. ASSUME NEW d \in Dates, DatePasses(d) PROVE TypeOK'
  BY <1>3 DEF DatePasses
<1>4. CASE UNCHANGED vars
  BY <1>4 DEF vars
<1>5. QED
  BY <1>1, <1>2, <1>3, <1>4 DEF Next

(* The type invariant holds in every reachable state: whatever requests    *)
(* the booking routes serve, a booking has a status log exactly when it    *)
(* exists and a directed booking keeps its worker.                         *)
THEOREM TypeCorrect == Spec => []TypeOK
<1>1. Init => TypeOK
  BY NullAssumption DEF Init, TypeOK, Statuses, OfferStatuses, DispatchModes,
     Exists
<1>2. QED
  BY <1>1, TypePreserved, PTL DEF Spec

-----------------------------------------------------------------------------
(* The inductive invariant: the type invariant and the four invariants     *)
(* that support each other.  The agreement of offers with bookings makes   *)
(* every confirmed booking have a worker, which the check-in gate needs;   *)
(* the log tells that an overridden booking is in a terminal status, which *)
(* keeps its leftover offers from being accepted.                          *)
IInv ==
  /\ TypeOK
  /\ AssignmentMatchesOffers
  /\ OpenOffersOnlyOnOffer
  /\ HistoryTellsStatus
  /\ UnderWayIsCleared

Safe ==
  /\ AssignmentMatchesOffers
  /\ OpenOffersOnlyOnOffer
  /\ HistoryTellsStatus
  /\ UnderWayIsCleared

(* Every step of a booking preserves the four invariants. *)
LEMMA BookingStepSafe ==
  ASSUME NEW b \in Bookings, IInv, BookingStep(b)
  PROVE  Safe'
<1> USE NullAssumption, NoRowAssumption
    DEF IInv, TypeOK, Safe, AssignmentMatchesOffers, OpenOffersOnlyOnOffer,
        HistoryTellsStatus, UnderWayIsCleared, Exists, rowVars, workerVars,
        clockVars, Rows, Statuses, OfferStatuses, DispatchModes,
        OverrideTargets, Taken, SetStatus, Record, MayMove, Transitions
<1>1. ASSUME NEW d \in Dates, NEW m \in DispatchModes,
             NEW w \in Workers \cup {NoWorker}, CreateBooking(b, d, m, w)
      PROVE Safe'
  BY <1>1 DEF CreateBooking
<1>2. ASSUME NEW d \in Dates, UpdateBooking(b, d) PROVE Safe'
  BY <1>2 DEF UpdateBooking
<1>3. ASSUME NEW targets \in SUBSET Workers, DispatchOffers(b, targets)
      PROVE Safe'
  BY <1>3 DEF DispatchOffers
<1>4. ASSUME NEW w \in Workers, AcceptOffer(b, w) PROVE Safe'
  BY <1>4 DEF AcceptOffer, Assign, Expired
<1>5. ASSUME NEW w \in Workers, ClaimShift(b, w) PROVE Safe'
  BY <1>5 DEF ClaimShift, Assign, Expired
<1>6. ASSUME NEW w \in Workers, DeclineOffer(b, w) PROVE Safe'
  BY <1>6 DEF DeclineOffer
<1>7. CASE ConfirmBooking(b)
  BY <1>7 DEF ConfirmBooking
<1>8. CASE CancelBooking(b)
  BY <1>8 DEF CancelBooking, Expired
<1>9. CASE ExpireBooking(b)
  <2>1. /\ status[b] = "offered"
        /\ offer' = [offer EXCEPT ![b] = Expired(b)]
        /\ status' = [status EXCEPT ![b] = "expired"]
    BY <1>9 DEF ExpireBooking
  <2>2. \A w \in Workers : offer'[b][w] \in {"none", "declined", "expired"}
    BY <2>1 DEF Expired
  <2>3. AssignmentMatchesOffers'
    <3>1. /\ UNCHANGED worker
          /\ \A c \in Bookings \ {b} :
               status'[c] = status[c] /\ offer'[c] = offer[c]
          /\ status'[b] = "expired"
      BY <2>1, <1>9 DEF ExpireBooking
    <3> HIDE DEF HistoryTellsStatus, OpenOffersOnlyOnOffer, UnderWayIsCleared,
                 Transitions, Rows, MayMove, Record, SetStatus, TypeOK
    <3>2. QED
      BY <2>2, <3>1
  <2>4. OpenOffersOnlyOnOffer'
    BY <2>1, <2>2, <1>9 DEF ExpireBooking
  <2>5. HistoryTellsStatus'
    BY <2>1, <1>9 DEF ExpireBooking
  <2>6. UnderWayIsCleared'
    BY <2>1, <1>9 DEF ExpireBooking
  <2>7. QED
    BY <2>3, <2>4, <2>5, <2>6
<1>10. CASE CheckIn(b)
  BY <1>10 DEF CheckIn
<1>11. CASE CompleteShift(b)
  BY <1>11 DEF CompleteShift
<1>12. CASE RecordNoShow(b)
  BY <1>12 DEF RecordNoShow
<1>13. ASSUME NEW to \in OverrideTargets, ManualOverride(b, to)
       PROVE Safe'
  BY <1>13 DEF ManualOverride
<1>14. CASE WindowCloses(b)
  BY <1>14 DEF WindowCloses
<1> HIDE DEF IInv, TypeOK, Safe, Rows, Statuses, OfferStatuses, DispatchModes,
             OverrideTargets, SetStatus, Record, MayMove, Transitions
<1>15. QED
  BY BookingStep(b), <1>1, <1>2, <1>3, <1>4, <1>5, <1>6, <1>7, <1>8, <1>9,
     <1>10, <1>11, <1>12, <1>13, <1>14 DEF BookingStep

(* The calendar, the reviews and the clock do not disturb them.  An        *)
(* approval taken back does not undo a clearance.                          *)
LEMMA OtherStepSafe ==
  ASSUME IInv,
         \/ \E w \in Workers : WorkerStep(w)
         \/ \E d \in Dates : DatePasses(d)
         \/ UNCHANGED vars
  PROVE  Safe'
BY DEF IInv, TypeOK, Safe, AssignmentMatchesOffers, OpenOffersOnlyOnOffer,
       HistoryTellsStatus, UnderWayIsCleared, Exists, vars, rowVars,
       workerVars, clockVars, WorkerStep, SetAvailability, ReviewWorker,
       ClearFirstShift, DatePasses

(* IInv holds in every reachable state of the booking component: offers    *)
(* agree with assignments, the log tells the status, and nobody is checked *)
(* in without a clearance.                                                 *)
THEOREM Invariance == Spec => []IInv
<1>1. Init => Safe
  BY DEF Init, Safe, AssignmentMatchesOffers, OpenOffersOnlyOnOffer,
         HistoryTellsStatus, UnderWayIsCleared, Exists, Taken
<1>2. TypeOK /\ Safe /\ [Next]_vars => Safe'
  <2> SUFFICES ASSUME TypeOK, Safe, [Next]_vars PROVE Safe'
    OBVIOUS
  <2>1. IInv
    BY DEF IInv, Safe
  <2>2. CASE \E b \in Bookings : BookingStep(b)
    BY <2>1, <2>2, BookingStepSafe
  <2>3. CASE \/ \E w \in Workers : WorkerStep(w)
             \/ \E d \in Dates : DatePasses(d)
             \/ UNCHANGED vars
    BY <2>1, <2>3, OtherStepSafe
  <2>4. QED
    BY <2>2, <2>3 DEF Next
<1>3. TypeOK /\ Safe <=> IInv
  BY DEF IInv, Safe
<1>4. QED
  BY <1>1, <1>2, <1>3, TypeCorrect, PTL DEF Spec

(* The offers of a booking agree with its status and its worker at any     *)
(* time (accept_offer, claim_shift, expire_all_for_booking).               *)
THEOREM AssignmentCorrect == Spec => []AssignmentMatchesOffers
BY Invariance, PTL DEF IInv

(* A taken booking is listed for its winner and for nobody else, and no    *)
(* shift on a board has an accepted offer (get_my_bookings,                *)
(* get_available_shifts, claim_shift).                                     *)
THEOREM ListsCorrect == Spec => []ShownToTheRightWorkers
<1>1. AssignmentMatchesOffers => ShownToTheRightWorkers
  <2> SUFFICES ASSUME AssignmentMatchesOffers, NEW b \in Bookings
               PROVE  /\ status[b] \in Taken =>
                           /\ {w \in Workers : b \in MyBookings(w)} =
                                {w \in Workers : offer[b][w] = "accepted"}
                           /\ \A w \in Workers : b \notin AvailableShifts(w)
                      /\ \A v, w \in Workers :
                           b \in AvailableShifts(w) => offer[b][v] # "accepted"
    BY DEF ShownToTheRightWorkers
  <2>1. ASSUME status[b] \in Taken, NEW w \in Workers
        PROVE  /\ b \in MyBookings(w) <=> offer[b][w] = "accepted"
               /\ b \notin AvailableShifts(w)
    BY <2>1 DEF AssignmentMatchesOffers, MyBookings, AvailableShifts, Taken
  <2>2. ASSUME NEW v \in Workers, NEW w \in Workers, b \in AvailableShifts(w)
        PROVE  offer[b][v] # "accepted"
    BY <2>2 DEF AssignmentMatchesOffers, AvailableShifts
  <2>3. QED
    BY <2>1, <2>2
<1>2. QED
  BY <1>1, AssignmentCorrect, PTL

(* Nobody is checked in without the first-shift clearance (check_in).      *)
THEOREM CheckInCorrect == Spec => []UnderWayIsCleared
BY Invariance, PTL DEF IInv

(* Offers stay open only while the booking is on offer, or after an        *)
(* override that left them behind (manual_override).                       *)
THEOREM OpenOffersCorrect == Spec => []OpenOffersOnlyOnOffer
BY Invariance, PTL DEF IInv

(* The latest row of the status log is about the booking's status          *)
(* (write_status_history).                                                 *)
THEOREM HistoryCorrect == Spec => []HistoryTellsStatus
BY Invariance, PTL DEF IInv

-----------------------------------------------------------------------------
(* No answer to an offer is ever revised: only an open offer is accepted,  *)
(* declined or expired, and dispatch and claim meet no answered one        *)
(* (dispatch_offers, claim_shift).                                         *)
THEOREM AnswersFinal == Spec => AnswersAreFinal
<1> DEFINE A == \A b \in Bookings, w \in Workers :
                 offer[b][w] \in {"accepted", "declined", "expired"} =>
                   offer'[b][w] = offer[b][w]
<1>1. IInv /\ [Next]_vars => [A]_offer
  <2> SUFFICES ASSUME IInv, [Next]_vars PROVE A \/ UNCHANGED offer
    OBVIOUS
  <2> USE DEF rowVars, workerVars, clockVars
  <2>1. ASSUME NEW b \in Bookings, BookingStep(b)
        PROVE A \/ UNCHANGED offer
    <3> USE DEF IInv, TypeOK, AssignmentMatchesOffers
    <3>1. ASSUME NEW targets \in SUBSET Workers, DispatchOffers(b, targets)
          PROVE A
      BY <3>1 DEF DispatchOffers
    <3>2. ASSUME NEW w \in Workers, AcceptOffer(b, w) PROVE A
      BY <3>2 DEF AcceptOffer, Assign, Expired
    <3>3. ASSUME NEW w \in Workers, ClaimShift(b, w) PROVE A
      BY <3>3 DEF ClaimShift, Assign, Expired
    <3>4. ASSUME NEW w \in Workers, DeclineOffer(b, w) PROVE A
      BY <3>4 DEF DeclineOffer
    <3>5. CASE CancelBooking(b) \/ ExpireBooking(b)
      BY <3>5 DEF CancelBooking, ExpireBooking, Expired
    <3> HIDE DEF IInv, A
    <3>6. CASE
            \/ \E d \in Dates, m \in DispatchModes,
                  w \in Workers \cup {NoWorker} : CreateBooking(b, d, m, w)
            \/ \E d \in Dates : UpdateBooking(b, d)
            \/ ConfirmBooking(b) \/ CheckIn(b) \/ CompleteShift(b)
            \/ RecordNoShow(b)
            \/ \E to \in OverrideTargets : ManualOverride(b, to)
            \/ WindowCloses(b)
      BY <3>6 DEF CreateBooking, UpdateBooking, ConfirmBooking, CheckIn,
                  CompleteShift, RecordNoShow, ManualOverride, WindowCloses
    <3>7. QED
      BY <2>1, <3>1, <3>2, <3>3, <3>4, <3>5, <3>6 DEF BookingStep
  <2>2. CASE \/ \E w \in Workers : WorkerStep(w)
             \/ \E d \in Dates : DatePasses(d)
             \/ UNCHANGED vars
    BY <2>2 DEF WorkerStep, SetAvailability, ReviewWorker, ClearFirstShift,
                DatePasses, vars
  <2>3. QED
    BY <2>1, <2>2 DEF Next
<1>2. QED
  BY <1>1, Invariance, PTL DEF Spec, AnswersAreFinal

(* The worker is on two shifts of one date. *)
Clash(b, c) ==
  /\ b # c
  /\ status[b] \in Taken
  /\ status[c] \in Taken
  /\ worker[b] = worker[c]
  /\ shiftDate[b] = shiftDate[c]

(* The booking is taken by an answer to an offer, or by a claim. *)
AnswerTaken(x) ==
  /\ status[x] \in {"requested", "offered"}
  /\ worker'[x] \in Workers
  /\ offer[x][worker'[x]] # "accepted"
  /\ offer'[x][worker'[x]] = "accepted"

Moved(x) == Exists(x) /\ shiftDate'[x] # shiftDate[x]

(* If the booking is taken, it was, by the same worker for the same date. *)
Still(x) ==
  status'[x] \in Taken =>
    /\ status[x] \in Taken
    /\ worker'[x] = worker[x]
    /\ shiftDate'[x] = shiftDate[x]

(* Only an answer or a move makes a booking taken, or taken otherwise. *)
LEMMA TakenHow ==
  ASSUME TypeOK, [Next]_vars, NEW x \in Bookings
  PROVE  AnswerTaken(x) \/ Moved(x) \/ Still(x)
<1> USE DEF SetStatus, rowVars
<1>1. /\ status \in [Bookings -> Statuses]
      /\ worker \in [Bookings -> Workers \cup {NoWorker}]
      /\ shiftDate \in [Bookings -> Dates \cup {NoDate}]
      /\ offer \in [Bookings -> [Workers -> OfferStatuses]]
  BY DEF TypeOK
<1>2. ASSUME NEW b \in Bookings, BookingStep(b), b # x
      PROVE  Still(x)
  <2> DEFINE Only ==
        /\ shiftDate' = shiftDate
             \/ \E d : shiftDate' = [shiftDate EXCEPT ![b] = d]
        /\ worker' = worker \/ \E w : worker' = [worker EXCEPT ![b] = w]
        /\ status' = status \/ \E to : status' = [status EXCEPT ![b] = to]
  <2>1. Only
    <3>1. ASSUME NEW d \in Dates, NEW m, NEW w, CreateBooking(b, d, m, w)
          PROVE  Only
      BY <3>1 DEF CreateBooking
    <3>2. ASSUME NEW w, AcceptOffer(b, w) \/ ClaimShift(b, w)
          PROVE  Only
      BY <3>2 DEF AcceptOffer, ClaimShift, Assign
    <3>3. ASSUME NEW d, UpdateBooking(b, d)
          PROVE  Only
      BY <3>3 DEF UpdateBooking
    <3>4. CASE
            \/ \E targets \in SUBSET Workers : DispatchOffers(b, targets)
            \/ \E w \in Workers : DeclineOffer(b, w)
            \/ ConfirmBooking(b) \/ CancelBooking(b) \/ ExpireBooking(b)
            \/ CheckIn(b) \/ CompleteShift(b) \/ RecordNoShow(b)
            \/ \E to \in OverrideTargets : ManualOverride(b, to)
            \/ WindowCloses(b)
      BY <3>4 DEF DispatchOffers, DeclineOffer, ConfirmBooking,
         CancelBooking, ExpireBooking, CheckIn, CompleteShift, RecordNoShow,
         ManualOverride, WindowCloses
    <3>5. QED
      BY <1>2, <3>1, <3>2, <3>3, <3>4 DEF BookingStep
  <2>2. /\ status'[x] = status[x] /\ worker'[x] = worker[x]
        /\ shiftDate'[x] = shiftDate[x]
    BY <1>1, <1>2, <2>1
  <2>3. QED
    BY <2>2 DEF Still
<1>3. CASE BookingStep(x)
  <2>1. ASSUME NEW d \in Dates, UpdateBooking(x, d)
        PROVE  Moved(x) \/ Still(x)
    BY <2>1 DEF UpdateBooking, Moved, Still
  <2>2. ASSUME NEW w \in Workers, Assign(x, w), offer[x][w] # "accepted",
               status[x] \in {"requested", "offered"}
        PROVE  AnswerTaken(x)
    BY <1>1, <2>2 DEF Assign, Expired, AnswerTaken
  <2>3. ASSUME NEW w \in Workers, AcceptOffer(x, w) PROVE AnswerTaken(x)
    BY <2>2, <2>3 DEF AcceptOffer, MayMove, Transitions
  <2>4. ASSUME NEW w \in Workers, ClaimShift(x, w) PROVE AnswerTaken(x)
    BY <2>2, <2>4 DEF ClaimShift
  <2>5. ASSUME NEW to, to \notin Taken, SetStatus(x, to) PROVE Still(x)
    BY <1>1, <2>5 DEF Still
  <2>6. CASE \E d \in Dates, m \in DispatchModes,
               w \in Workers \cup {NoWorker} : CreateBooking(x, d, m, w)
    BY <2>5, <2>6 DEF CreateBooking, Taken
  <2>7. CASE
          \/ \E targets \in SUBSET Workers : DispatchOffers(x, targets)
          \/ CancelBooking(x) \/ ExpireBooking(x) \/ CompleteShift(x)
          \/ RecordNoShow(x)
    BY <2>5, <2>7 DEF DispatchOffers, CancelBooking, ExpireBooking,
       CompleteShift, RecordNoShow, Taken
  <2>8. ASSUME NEW to \in OverrideTargets, ManualOverride(x, to)
        PROVE  Still(x)
    BY <2>5, <2>8 DEF ManualOverride, OverrideTargets, Taken
  <2>9. CASE ConfirmBooking(x) \/ CheckIn(x)
    BY <2>9 DEF ConfirmBooking, CheckIn, MayMove, Transitions, Taken, Still
  <2>10. CASE WindowCloses(x) \/ \E w \in Workers : DeclineOffer(x, w)
    BY <2>10 DEF WindowCloses, DeclineOffer, Still
  <2>11. QED
    BY <1>3, <2>1, <2>3, <2>4, <2>6, <2>7, <2>8, <2>9, <2>10
       DEF BookingStep
<1>4. CASE \/ \E w \in Workers : WorkerStep(w)
           \/ \E d \in Dates : DatePasses(d)
           \/ UNCHANGED vars
  BY <1>4 DEF WorkerStep, SetAvailability, ReviewWorker, ClearFirstShift,
              DatePasses, vars, Still
<1>5. QED
  BY <1>2, <1>3, <1>4 DEF Next

(* How a worker comes to be booked twice for one date: by an answer of the *)
(* worker's own to a second booking, or because a school moves a shift     *)
(* (booking.py: accept_offer, claim_shift and update_booking do not ask    *)
(* get_active_for_worker_on_date).  Nothing else makes a clash: no other   *)
(* request, whatever an override left behind, and not the clock.           *)
THEOREM ClashesHaveCauses ==
  Spec =>
    [][\A b, c \in Bookings :
         Clash(b, c)' /\ ~Clash(b, c) =>
           \E x \in {b, c} : AnswerTaken(x) \/ Moved(x)]_vars
<1>1. ASSUME TypeOK, [Next]_vars, NEW b \in Bookings, NEW c \in Bookings,
             Clash(b, c)', ~Clash(b, c)
      PROVE  \E x \in {b, c} : AnswerTaken(x) \/ Moved(x)
  <2>1. ~Still(b) \/ ~Still(c)
    BY <1>1 DEF Clash, Still
  <2>2. QED
    BY <1>1, <2>1, TakenHow
<1>2. TypeOK /\ [Next]_vars =>
        [\A b, c \in Bookings :
           Clash(b, c)' /\ ~Clash(b, c) =>
             \E x \in {b, c} : AnswerTaken(x) \/ Moved(x)]_vars
  BY <1>1
<1>3. QED
  BY <1>2, TypeCorrect, PTL DEF Spec

(* The status log of a booking is a chain although most handlers write the *)
(* origin of their row as a constant (write_status_history and callers).   *)
THEOREM HistoryChained == Spec => HistoryIsChain
<1> DEFINE A == \A b \in Bookings :
                 (history'[b] # history[b] /\ history[b] # NoRow) =>
                   history'[b].from = history[b].to
<1>1. IInv /\ [Next]_vars => [A]_history
  <2> SUFFICES ASSUME IInv, [Next]_vars PROVE A \/ UNCHANGED history
    OBVIOUS
  <2> USE DEF rowVars, workerVars, clockVars
  <2>1. ASSUME NEW b \in Bookings, BookingStep(b)
        PROVE A \/ UNCHANGED history
    <3>1. CASE UNCHANGED history
      BY <3>1
    <3>2. ASSUME NEW to, NEW by, Record(b, status[b], to, by) PROVE A
      BY <3>2 DEF Record, IInv, TypeOK, HistoryTellsStatus, Exists
    <3>3. \/ UNCHANGED history
          \/ \E to, by : Record(b, status[b], to, by)
      <4> USE DEF Record, MayMove, Transitions, Exists
      <4>1. ASSUME NEW d \in Dates, NEW m \in DispatchModes,
                   NEW w \in Workers \cup {NoWorker},
                   CreateBooking(b, d, m, w)
            PROVE Record(b, status[b], "requested", "service")
        BY <4>1 DEF CreateBooking
      <4>2. ASSUME NEW targets \in SUBSET Workers, DispatchOffers(b, targets)
            PROVE Record(b, status[b], "offered", "service")
        BY <4>2 DEF DispatchOffers
      <4>3. ASSUME NEW w \in Workers, AcceptOffer(b, w)
            PROVE Record(b, status[b], "accepted", "service")
        BY <4>3 DEF AcceptOffer
      <4>4. ASSUME NEW w \in Workers, ClaimShift(b, w)
            PROVE Record(b, status[b], "accepted", "service")
        BY <4>4 DEF ClaimShift
      <4>5. ASSUME ConfirmBooking(b)
            PROVE Record(b, status[b], "confirmed", "service")
        BY <4>5 DEF ConfirmBooking
      <4>6. ASSUME CancelBooking(b)
            PROVE Record(b, status[b], "cancelled", "service")
        BY <4>6 DEF CancelBooking
      <4>7. ASSUME ExpireBooking(b)
            PROVE Record(b, status[b], "expired", "service")
        BY <4>7 DEF ExpireBooking
      <4>8. ASSUME CheckIn(b)
            PROVE Record(b, status[b], "checked_in", "service")
        BY <4>8 DEF CheckIn
      <4>9. ASSUME CompleteShift(b)
            PROVE Record(b, status[b], "completed", "service")
        BY <4>9 DEF CompleteShift
      <4>10. ASSUME RecordNoShow(b)
             PROVE Record(b, status[b], "no_show", "service")
        BY <4>10 DEF RecordNoShow
      <4>11. ASSUME NEW to \in OverrideTargets, ManualOverride(b, to)
             PROVE Record(b, status[b], to, "override")
        BY <4>11 DEF ManualOverride
      <4> HIDE DEF Record, MayMove, Transitions, Exists
      <4>12. ASSUME \/ \E d \in Dates : UpdateBooking(b, d)
                    \/ \E w \in Workers : DeclineOffer(b, w)
                    \/ WindowCloses(b)
             PROVE UNCHANGED history
        BY <4>12 DEF UpdateBooking, DeclineOffer, WindowCloses
      <4>13. QED
        BY <2>1, <4>1, <4>2, <4>3, <4>4, <4>5, <4>6, <4>7, <4>8, <4>9, <4>10,
           <4>11, <4>12 DEF BookingStep
    <3>4. QED
      BY <3>1, <3>2, <3>3
  <2>2. CASE \/ \E w \in Workers : WorkerStep(w)
             \/ \E d \in Dates : DatePasses(d)
             \/ UNCHANGED vars
    BY <2>2 DEF WorkerStep, SetAvailability, ReviewWorker, ClearFirstShift,
                DatePasses, vars
  <2>3. QED
    BY <2>1, <2>2 DEF Next
<1>2. QED
  BY <1>1, Invariance, PTL DEF Spec, HistoryIsChain

-----------------------------------------------------------------------------
(* The refinement mapping is unchanged by a step that leaves the statuses, *)
(* the log and the set of accepted offers alone.                           *)
LEMMA MappingUnchanged ==
  ASSUME TypeOK, UNCHANGED <<status, history>>,
         \A c \in Bookings : Winner(c)' = Winner(c)
  PROVE  UNCHANGED Lifecycle!lifecycleVars
BY DEF Lifecycle!lifecycleVars, Forced, Exists

(* A step that logs a service's move of one booking forces no booking.     *)
LEMMA ServiceForcesNothing ==
  ASSUME IInv, NEW b \in Bookings, NEW from, NEW to, to # "none",
         status[b] \notin OverrideTargets,
         SetStatus(b, to), Record(b, from, to, "service")
  PROVE  Forced' = Forced
<1>1. ~(Exists(b) /\ history[b].by = "override")
  BY DEF IInv, TypeOK, HistoryTellsStatus
<1>2. \A c \in Bookings :
        (Exists(c) /\ history[c].by = "override")'
          <=> (Exists(c) /\ history[c].by = "override")
  BY <1>1 DEF IInv, TypeOK, SetStatus, Record, Exists
<1>3. QED
  BY <1>2 DEF Forced

(* Giving a booking to a worker is the award of the abstract lifecycle:    *)
(* nobody had won before, and the worker alone has won after.              *)
LEMMA AssignAwards ==
  ASSUME IInv, NEW b \in Bookings, NEW w \in Workers, NEW from,
         status[b] \in {"requested", "offered"},
         Assign(b, w), Record(b, from, "accepted", "service")
  PROVE  Lifecycle!Award(b, w)
<1>1. Winner(b) = {}
  BY DEF IInv, AssignmentMatchesOffers, Winner
<1>2. Winner(b)' = {w}
  BY <1>1 DEF Assign, Expired, Winner, IInv, TypeOK
<1>3. \A c \in Bookings \ {b} : Winner(c)' = Winner(c)
  BY DEF Assign, Winner, IInv, TypeOK
<1>4. Forced' = Forced
  BY ServiceForcesNothing DEF Assign, OverrideTargets
<1>5. QED
  BY <1>1, <1>2, <1>3, <1>4
     DEF Lifecycle!Award, Lifecycle!Go, Assign, SetStatus, IInv, TypeOK

(* A service moves a booking along the transition table and leaves the     *)
(* accepted offers alone: a step of the abstract lifecycle.                *)
LEMMA MoveAdvances ==
  ASSUME IInv, NEW b \in Bookings, NEW from, NEW to, MayMove(b, to),
         to # "accepted",
         SetStatus(b, to), Record(b, from, to, "service"),
         \A c \in Bookings : Winner(c)' = Winner(c)
  PROVE  Lifecycle!Advance(b)
<1>1. status[b] \notin OverrideTargets /\ to # "none"
  BY DEF MayMove, Transitions, OverrideTargets
<1>2. Forced' = Forced
  BY <1>1, ServiceForcesNothing
<1>3. status' = [status EXCEPT ![b] = to] /\ status[b] \in Statuses
  BY DEF SetStatus, IInv, TypeOK
<1>4. QED
  BY <1>2, <1>3 DEF Lifecycle!Advance, Lifecycle!Go, MayMove, Transitions

(* Expiring the open offers of a booking makes nobody win or lose it.      *)
LEMMA ExpiryKeepsWinners ==
  ASSUME IInv, NEW b \in Bookings, offer' = [offer EXCEPT ![b] = Expired(b)]
  PROVE  \A c \in Bookings : Winner(c)' = Winner(c)
BY DEF IInv, TypeOK, Winner, Expired

(* Every request on a booking is a step of the lifecycle, or invisible.    *)
LEMMA BookingStepRefines ==
  ASSUME IInv, NEW b \in Bookings, BookingStep(b)
  PROVE  Lifecycle!Next \/ UNCHANGED Lifecycle!lifecycleVars
<1> DEFINE SameWinners == \A c \in Bookings : Winner(c)' = Winner(c)
<1> USE DEF rowVars, workerVars, clockVars
<1>0. TypeOK /\ (UNCHANGED offer => SameWinners)
  BY DEF IInv, Winner
<1>1. ASSUME NEW d \in Dates, NEW m \in DispatchModes,
             NEW w \in Workers \cup {NoWorker}, CreateBooking(b, d, m, w)
      PROVE Lifecycle!Request(b)
  <2>1. Forced' = Forced
    BY <1>1, ServiceForcesNothing DEF CreateBooking, Exists, OverrideTargets
  <2>2. QED
    BY <1>0, <1>1, <2>1 DEF CreateBooking, Exists, SetStatus,
       Lifecycle!Request, Lifecycle!Go
<1>2. ASSUME NEW d \in Dates, UpdateBooking(b, d)
      PROVE UNCHANGED Lifecycle!lifecycleVars
  BY <1>0, <1>2, MappingUnchanged DEF UpdateBooking
<1>3. ASSUME NEW targets \in SUBSET Workers, DispatchOffers(b, targets)
      PROVE Lifecycle!Advance(b)
  <2>1. SameWinners
    BY <1>0, <1>3 DEF DispatchOffers, Winner, TypeOK
  <2>2. QED
    BY <1>3, <2>1, MoveAdvances DEF DispatchOffers
<1>4. ASSUME NEW w \in Workers, AcceptOffer(b, w) PROVE Lifecycle!Award(b, w)
  BY <1>4, AssignAwards DEF AcceptOffer, MayMove, Transitions
<1>5. ASSUME NEW w \in Workers, ClaimShift(b, w) PROVE Lifecycle!Award(b, w)
  BY <1>5, AssignAwards DEF ClaimShift
<1>6. ASSUME NEW w \in Workers, DeclineOffer(b, w)
      PROVE UNCHANGED Lifecycle!lifecycleVars
  <2>1. SameWinners
    BY <1>0, <1>6 DEF DeclineOffer, Winner, TypeOK
  <2>2. QED
    BY <1>0, <1>6, <2>1, MappingUnchanged DEF DeclineOffer
<1>7. ASSUME ConfirmBooking(b) PROVE Lifecycle!Advance(b)
  <2>1. SameWinners /\ MayMove(b, "confirmed")
    BY <1>0, <1>7 DEF ConfirmBooking, MayMove, Transitions
  <2>2. QED
    BY <1>7, <2>1, MoveAdvances DEF ConfirmBooking
<1>8. ASSUME CancelBooking(b) PROVE Lifecycle!Advance(b)
  <2>1. SameWinners
    BY <1>8, ExpiryKeepsWinners DEF CancelBooking
  <2>2. QED
    BY <1>8, <2>1, MoveAdvances DEF CancelBooking
<1>9. ASSUME ExpireBooking(b) PROVE Lifecycle!Advance(b)
  <2>1. SameWinners
    BY <1>9, ExpiryKeepsWinners DEF ExpireBooking
  <2>2. QED
    BY <1>9, <2>1, MoveAdvances DEF ExpireBooking
<1>10. ASSUME CheckIn(b) PROVE Lifecycle!Advance(b)
  <2>1. SameWinners /\ MayMove(b, "checked_in")
    BY <1>0, <1>10 DEF CheckIn, MayMove, Transitions
  <2>2. QED
    BY <1>10, <2>1, MoveAdvances DEF CheckIn
<1>11. ASSUME CompleteShift(b) PROVE Lifecycle!Advance(b)
  <2>1. SameWinners /\ MayMove(b, "completed")
    BY <1>0, <1>11 DEF CompleteShift, MayMove, Transitions
  <2>2. QED
    BY <1>11, <2>1, MoveAdvances DEF CompleteShift
<1>12. ASSUME RecordNoShow(b) PROVE Lifecycle!Advance(b)
  <2>1. SameWinners /\ MayMove(b, "no_show")
    BY <1>0, <1>12 DEF RecordNoShow, MayMove, Transitions
  <2>2. QED
    BY <1>12, <2>1, MoveAdvances DEF RecordNoShow
<1>13. ASSUME NEW to \in OverrideTargets, ManualOverride(b, to)
       PROVE Lifecycle!Override(b)
  <2>1. Forced' = Forced \cup {b}
    <3>1. \A c \in Bookings :
            (Exists(c) /\ history[c].by = "override")' <=>
              (c = b \/ (Exists(c) /\ history[c].by = "override"))
      BY <1>0, <1>13 DEF ManualOverride, SetStatus, Record, Exists, TypeOK,
         OverrideTargets
    <3>2. QED
      BY <3>1 DEF Forced
  <2>2. UNCHANGED offer /\ UNCHANGED [c \in Bookings |-> Winner(c)]
    BY <1>0, <1>13 DEF ManualOverride
  <2>3. /\ status[b] \in Statuses \ {"none"}
        /\ status' = [status EXCEPT ![b] = to]
    BY <1>0, <1>13 DEF ManualOverride, SetStatus, Exists, TypeOK
  <2>4. QED
    BY <2>1, <2>2, <2>3 DEF Lifecycle!Override, Lifecycle!Go, Statuses,
       OverrideTargets, Lifecycle!Statuses, Lifecycle!OverrideTargets
<1>14. CASE WindowCloses(b)
  BY <1>0, <1>14, MappingUnchanged DEF WindowCloses
<1>15. QED
  BY BookingStep(b), <1>1, <1>2, <1>3, <1>4, <1>5, <1>6, <1>7, <1>8, <1>9,
     <1>10, <1>11, <1>12, <1>13, <1>14 DEF BookingStep, Lifecycle!Next

(* Requests that run one at a time implement the documented lifecycle:     *)
(* statuses move as the service's documentation says, a booking is won at  *)
(* most once, first accept wins, and only an override leaves a terminal    *)
(* status.                                                                 *)
THEOREM LifecycleRefinement == Spec => ImplementsLifecycle
<1>1. Init => Lifecycle!Init
  BY DEF Init, Lifecycle!Init, Winner, Forced, Exists
<1>2. IInv /\ [Next]_vars => [Lifecycle!Next]_(Lifecycle!lifecycleVars)
  <2> SUFFICES ASSUME IInv, [Next]_vars
               PROVE Lifecycle!Next \/ UNCHANGED Lifecycle!lifecycleVars
    OBVIOUS
  <2>1. CASE \E b \in Bookings : BookingStep(b)
    BY <2>1, BookingStepRefines
  <2>2. CASE \/ \E w \in Workers : WorkerStep(w)
             \/ \E d \in Dates : DatePasses(d)
             \/ UNCHANGED vars
    <3>1. UNCHANGED <<status, history, offer>>
      BY <2>2 DEF WorkerStep, SetAvailability, ReviewWorker, ClearFirstShift,
         DatePasses, vars, rowVars, workerVars, clockVars
    <3>2. QED
      BY <3>1, MappingUnchanged DEF Winner, IInv
  <2>3. QED
    BY <2>1, <2>2 DEF Next
<1>3. QED
  BY <1>1, <1>2, Invariance, PTL DEF Spec, ImplementsLifecycle, Lifecycle!Spec
=============================================================================
