------------------------------ MODULE Booking ------------------------------
(***************************************************************************)
(* The booking side of the application, one request at a time: the booking *)
(* service, the attendance service, the matching of workers to a broadcast *)
(* and the availability calendar.  Every action is a whole request, from   *)
(* its first read to its commit; a request that is refused changes nothing *)
(* and is not an action.  Module BookingRequests interleaves the requests. *)
(***************************************************************************)
EXTENDS BookingStatus

CONSTANTS
  Bookings,   \* identifiers of the bookings that may be created
  Workers,    \* the worker profiles of one trust
  Dates,      \* shift dates
  NoWorker,   \* worker_id IS NULL
  NoDate,     \* the shift date of a booking that does not exist
  NoRow       \* no status history yet

ASSUME NullAssumption ==
  /\ NoWorker \notin Workers
  /\ NoDate \notin Dates

Rows ==
  [from : Statuses, to : Statuses, by : {"service", "override"}]

ASSUME NoRowAssumption == NoRow \notin Rows

VARIABLES
  status,        \* bookings.status
  worker,        \* bookings.worker_id
  shiftDate,     \* bookings.shift_date
  mode,          \* bookings.dispatch_mode
  offer,         \* booking_offers: the offer of each booking to each worker
  history,       \* the latest row of booking_status_history per booking
  windowClosed,  \* bookings whose offers carry an expires_at in the past
  unavailable,   \* <<worker, date>> with is_available = false
  approved,      \* workers whose onboarding status is approved
  cleared,       \* workers with first_shift_cleared
  past           \* dates before today

rowVars == <<status, worker, shiftDate, mode>>
workerVars == <<unavailable, approved, cleared>>
clockVars == <<windowClosed, past>>
vars == <<rowVars, offer, history, workerVars, clockVars>>

-----------------------------------------------------------------------------
Exists(b) == status[b] # "none"

(* _assert_transition *)
MayMove(b, to) == <<status[b], to>> \in Transitions

(* write_status_history *)
Record(b, from, to, by) ==
  history' = [history EXCEPT ![b] = [from |-> from, to |-> to, by |-> by]]

SetStatus(b, to) == status' = [status EXCEPT ![b] = to]

(* Mutant of Expired: the losing offers are forgotten. *)
ExpiredForgotten(b) == offer[b]

(* expire_all_for_booking: the booking's offers once the open ones expire. *)
Expired(b) ==
  [w \in Workers |->
     IF offer[b][w] = "offered" THEN "expired" ELSE offer[b][w]]

(* get_active_for_worker_on_date *)
ActiveOn(w, d) ==
  {b \in Bookings :
     worker[b] = w /\ shiftDate[b] = d /\ status[b] \in Occupying}

(* find_eligible_workers: role and radius are left open, so what matching  *)
(* returns is any set of workers that pass the other criteria.             *)
Eligible(d) ==
  {w \in approved : ActiveOn(w, d) = {} /\ <<w, d>> \notin unavailable}

(* What a worker is shown: the bookings they are on or hold an open offer  *)
(* of (get_my_bookings).                                                   *)
MyBookings(w) ==
  {b \in Bookings : worker[b] = w \/ offer[b][w] = "offered"}

(* Mutant of AvailableShifts: shifts already taken stay on the board. *)
AvailableShiftsTaken(w) ==
  {b \in Bookings :
     /\ status[b] \in {"requested", "offered", "accepted"}
     /\ shiftDate[b] \notin past
     /\ offer[b][w] \notin {"declined", "accepted"}}

(* The board of shifts to claim (get_available_shifts). *)
AvailableShifts(w) ==
  {b \in Bookings :
     /\ status[b] \in {"requested", "offered"}
     /\ shiftDate[b] \notin past
     /\ offer[b][w] \notin {"declined", "accepted"}}

-----------------------------------------------------------------------------
Init ==
  /\ status = [b \in Bookings |-> "none"]
  /\ worker = [b \in Bookings |-> NoWorker]
  /\ shiftDate = [b \in Bookings |-> NoDate]
  /\ mode = [b \in Bookings |-> "broadcast"]
  /\ offer = [b \in Bookings |-> [w \in Workers |-> "none"]]
  /\ history = [b \in Bookings |-> NoRow]
  /\ windowClosed = {}
  /\ unavailable = {}
  /\ approved = {}
  /\ cleared = {}
  /\ past = {}

(* A directed booking names its worker from the start; a broadcast may. *)
CreateBooking(b, d, m, w) ==
  /\ ~Exists(b)
  /\ m = "directed" => w # NoWorker
  /\ SetStatus(b, "requested")
  /\ worker' = [worker EXCEPT ![b] = w]
  /\ shiftDate' = [shiftDate EXCEPT ![b] = d]
  /\ mode' = [mode EXCEPT ![b] = m]
  /\ Record(b, "none", "requested", "service")
  /\ UNCHANGED <<offer, workerVars, clockVars>>

(* PATCH moves the shift whatever its status.  A new offer_expires_at      *)
(* reaches the offers only if they have not been dispatched yet.           *)
UpdateBooking(b, d) ==
  /\ Exists(b)
  /\ shiftDate' = [shiftDate EXCEPT ![b] = d]
  /\ windowClosed' \in
       {windowClosed} \cup
       IF status[b] = "requested" THEN {windowClosed \ {b}} ELSE {}
  /\ UNCHANGED <<status, worker, mode, offer, history, workerVars, past>>

DispatchOffers(b, targets) ==
  /\ MayMove(b, "offered")
  /\ targets # {}
  /\ IF mode[b] = "directed"
       THEN targets = {worker[b]} \ {NoWorker}
       ELSE targets \subseteq Eligible(shiftDate[b])
  /\ \A w \in targets : offer[b][w] = "none"  \* UNIQUE (booking_id, worker_id)
  /\ offer' = [offer EXCEPT ![b] =
       [w \in Workers |-> IF w \in targets THEN "offered" ELSE offer[b][w]]]
  /\ SetStatus(b, "offered")
  /\ Record(b, "requested", "offered", "service")
  /\ UNCHANGED <<worker, shiftDate, mode, workerVars, clockVars>>

(* The tail common to accepting and claiming: the other open offers        *)
(* expire, the worker's is accepted, the booking is assigned.  The partial *)
(* unique index refuses a second accepted offer.                           *)
Assign(b, w) ==
  /\ \A v \in Workers \ {w} : offer[b][v] # "accepted"
  /\ offer' = [offer EXCEPT ![b] = [Expired(b) EXCEPT ![w] = "accepted"]]
  /\ SetStatus(b, "accepted")
  /\ worker' = [worker EXCEPT ![b] = w]
  /\ UNCHANGED <<shiftDate, mode, workerVars, clockVars>>

AcceptOffer(b, w) ==
  /\ MayMove(b, "accepted")
  /\ offer[b][w] = "offered"
  /\ b \notin windowClosed  \* otherwise refused, and the update rolled back
  /\ Assign(b, w)
  /\ Record(b, "offered", "accepted", "service")

(* Mutant of ClaimShift: a shift the worker declined can be claimed. *)
ClaimShiftAfterDecline(b, w) ==
  /\ status[b] \in {"requested", "offered"}
  /\ shiftDate[b] \notin past
  /\ offer[b][w] # "accepted"
  /\ Assign(b, w)
  /\ Record(b, status[b], "accepted", "service")

(* Mutant of ClaimShift: the log row is copied from accept_offer. *)
ClaimShiftLoggedAsOffer(b, w) ==
  /\ status[b] \in {"requested", "offered"}
  /\ shiftDate[b] \notin past
  /\ offer[b][w] \notin {"declined", "accepted"}
  /\ Assign(b, w)
  /\ Record(b, "offered", "accepted", "service")

ClaimShift(b, w) ==
  /\ status[b] \in {"requested", "offered"}
  /\ shiftDate[b] \notin past
  /\ offer[b][w] \notin {"declined", "accepted"}
  /\ Assign(b, w)
  /\ Record(b, status[b], "accepted", "service")

DeclineOffer(b, w) ==
  /\ offer[b][w] = "offered"
  /\ offer' = [offer EXCEPT ![b][w] = "declined"]
  /\ UNCHANGED <<rowVars, history, workerVars, clockVars>>

ConfirmBooking(b) ==
  /\ MayMove(b, "confirmed")
  /\ SetStatus(b, "confirmed")
  /\ Record(b, "accepted", "confirmed", "service")
  /\ UNCHANGED <<worker, shiftDate, mode, offer, workerVars, clockVars>>

(* Mutant of CancelBooking: the open offers survive. *)
CancelBookingKeepOffers(b) ==
  /\ MayMove(b, "cancelled")
  /\ SetStatus(b, "cancelled")
  /\ Record(b, status[b], "cancelled", "service")
  /\ UNCHANGED <<worker, shiftDate, mode, offer, workerVars, clockVars>>

CancelBooking(b) ==
  /\ MayMove(b, "cancelled")
  /\ offer' = [offer EXCEPT ![b] = Expired(b)]
  /\ SetStatus(b, "cancelled")
  /\ Record(b, status[b], "cancelled", "service")
  /\ UNCHANGED <<worker, shiftDate, mode, workerVars, clockVars>>

ExpireBooking(b) ==
  /\ MayMove(b, "expired")
  /\ offer' = [offer EXCEPT ![b] = Expired(b)]
  /\ SetStatus(b, "expired")
  /\ Record(b, "offered", "expired", "service")
  /\ UNCHANGED <<worker, shiftDate, mode, workerVars, clockVars>>

(* Mutant of CheckIn: the first-shift gate is gone. *)
CheckInUngated(b) ==
  /\ status[b] = "confirmed"
  /\ SetStatus(b, "checked_in")
  /\ Record(b, "confirmed", "checked_in", "service")
  /\ UNCHANGED <<worker, shiftDate, mode, offer, workerVars, clockVars>>

CheckIn(b) ==
  /\ status[b] = "confirmed"
  /\ worker[b] # NoWorker => worker[b] \in cleared
  /\ SetStatus(b, "checked_in")
  /\ Record(b, "confirmed", "checked_in", "service")
  /\ UNCHANGED <<worker, shiftDate, mode, offer, workerVars, clockVars>>

CompleteShift(b) ==
  /\ status[b] = "checked_in"
  /\ SetStatus(b, "completed")
  /\ Record(b, "checked_in", "completed", "service")
  /\ UNCHANGED <<worker, shiftDate, mode, offer, workerVars, clockVars>>

(* Mutant of RecordNoShow: no row is written. *)
RecordNoShowUnlogged(b) ==
  /\ status[b] \in {"confirmed", "checked_in"}
  /\ SetStatus(b, "no_show")
  /\ UNCHANGED <<worker, shiftDate, mode, offer, history, workerVars,
                  clockVars>>

RecordNoShow(b) ==
  /\ status[b] \in {"confirmed", "checked_in"}
  /\ SetStatus(b, "no_show")
  /\ Record(b, status[b], "no_show", "service")
  /\ UNCHANGED <<worker, shiftDate, mode, offer, workerVars, clockVars>>

(* The override asks nothing of the prior status and leaves the offers. *)
ManualOverride(b, to) ==
  /\ to \in OverrideTargets
  /\ Exists(b)
  /\ SetStatus(b, to)
  /\ Record(b, status[b], to, "override")
  /\ UNCHANGED <<worker, shiftDate, mode, offer, workerVars, clockVars>>

(* A single date, or a bulk request: one occupied date refuses them all. *)
SetAvailability(w, dates, available) ==
  /\ ~available => \A d \in dates : ActiveOn(w, d) = {}
  /\ unavailable' = IF available THEN unavailable \ ({w} \X dates)
                                 ELSE unavailable \cup ({w} \X dates)
  /\ UNCHANGED <<rowVars, offer, history, approved, cleared, clockVars>>

-----------------------------------------------------------------------------
(* The rest of the application and the clock. *)

(* Onboarding approves a worker, or takes an approval back. *)
ReviewWorker(w) ==
  /\ approved' = IF w \in approved THEN approved \ {w} ELSE approved \cup {w}
  /\ UNCHANGED <<rowVars, offer, history, unavailable, cleared, clockVars>>

(* The first verification of an approved worker clears the worker for good. *)
ClearFirstShift(w) ==
  /\ w \in approved \ cleared
  /\ cleared' = cleared \cup {w}
  /\ UNCHANGED <<rowVars, offer, history, unavailable, approved, clockVars>>

WindowCloses(b) ==
  /\ Exists(b)
  /\ windowClosed' = windowClosed \cup {b}
  /\ UNCHANGED <<rowVars, offer, history, workerVars, past>>

DatePasses(d) ==
  /\ past' = past \cup {d}
  /\ UNCHANGED <<rowVars, offer, history, workerVars, windowClosed>>

BookingStep(b) ==
  \/ \E d \in Dates, m \in DispatchModes, w \in Workers \cup {NoWorker} :
       CreateBooking(b, d, m, w)
  \/ \E d \in Dates : UpdateBooking(b, d)
  \/ \E targets \in SUBSET Workers : DispatchOffers(b, targets)
  \/ \E w \in Workers : AcceptOffer(b, w)
  \/ \E w \in Workers : ClaimShift(b, w)
  \/ \E w \in Workers : DeclineOffer(b, w)
  \/ ConfirmBooking(b)
  \/ CancelBooking(b)
  \/ ExpireBooking(b)
  \/ CheckIn(b)
  \/ CompleteShift(b)
  \/ RecordNoShow(b)
  \/ \E to \in OverrideTargets : ManualOverride(b, to)
  \/ WindowCloses(b)

WorkerStep(w) ==
  \/ \E dates \in SUBSET Dates, available \in BOOLEAN :
       SetAvailability(w, dates, available)
  \/ ReviewWorker(w)
  \/ ClearFirstShift(w)

Next ==
  \/ \E b \in Bookings : BookingStep(b)
  \/ \E w \in Workers : WorkerStep(w)
  \/ \E d \in Dates : DatePasses(d)

Spec == Init /\ [][Next]_vars

-----------------------------------------------------------------------------
(* Type invariant.  It also says which columns go together: a booking has  *)
(* a history exactly when it exists, and a directed booking has a worker   *)
(* (booking.py, create_booking).                                           *)
TypeOK ==
  /\ status \in [Bookings -> Statuses]
  /\ worker \in [Bookings -> Workers \cup {NoWorker}]
  /\ shiftDate \in [Bookings -> Dates \cup {NoDate}]
  /\ mode \in [Bookings -> DispatchModes]
  /\ offer \in [Bookings -> [Workers -> OfferStatuses]]
  /\ history \in [Bookings -> Rows \cup {NoRow}]
  /\ windowClosed \in SUBSET Bookings
  /\ unavailable \in SUBSET (Workers \X Dates)
  /\ approved \in SUBSET Workers
  /\ cleared \in SUBSET Workers
  /\ past \in SUBSET Dates
  /\ \A b \in Bookings :
       /\ Exists(b) <=> history[b] # NoRow
       /\ Exists(b) <=> shiftDate[b] # NoDate
       /\ mode[b] = "directed" => worker[b] # NoWorker

(* The offers table and the bookings table agree.  A booking that has been *)
(* taken belongs to the worker of its one accepted offer and nobody else   *)
(* still holds an open one; before dispatch there are no offers, while on  *)
(* offer nothing is accepted or expired yet, and a window that ran out     *)
(* leaves no accepted offer (booking.py: dispatch_offers, accept_offer,    *)
(* claim_shift, expire_booking and expire_all_for_booking).                *)
AssignmentMatchesOffers ==
  \A b \in Bookings :
    /\ status[b] \in Taken =>
         /\ worker[b] \in Workers
         /\ \A w \in Workers :
              /\ offer[b][w] = "accepted" <=> worker[b] = w
              /\ offer[b][w] # "offered"
    /\ status[b] \in {"none", "requested"} =>
         \A w \in Workers : offer[b][w] = "none"
    /\ status[b] = "offered" =>
         \A w \in Workers : offer[b][w] \in {"none", "offered", "declined"}
    /\ status[b] = "expired" =>
         \A w \in Workers : offer[b][w] # "accepted"

(* What workers are shown is what they can act on.  A booking that was     *)
(* taken is among the bookings of the worker whose offer was accepted, of  *)
(* nobody else, and on no board; and on a board no claim meets an offer    *)
(* that is accepted already, which the database would refuse (worker_self. *)
(* py, get_my_bookings and get_available_shifts; booking.py, claim_shift). *)
ShownToTheRightWorkers ==
  \A b \in Bookings :
    /\ status[b] \in Taken =>
         /\ {w \in Workers : b \in MyBookings(w)} =
              {w \in Workers : offer[b][w] = "accepted"}
         /\ \A w \in Workers : b \notin AvailableShifts(w)
    /\ \A v, w \in Workers :
         b \in AvailableShifts(w) => offer[b][v] # "accepted"

(* A worker sees an open offer only while the booking is on offer, except  *)
(* that an administrator's override leaves open offers behind              *)
(* (attendance.py, manual_override).                                       *)
OpenOffersOnlyOnOffer ==
  \A b \in Bookings, w \in Workers :
    offer[b][w] = "offered" =>
      \/ status[b] = "offered"
      \/ history[b].by = "override"

(* The status log tells the truth: its latest row ends in the booking's    *)
(* status.  An override's row ends in a status it may force; a service's   *)
(* row starts in a status the transition table, or a claim, may leave for  *)
(* it.  Several handlers write the origin as a constant, whatever they     *)
(* read (booking.py, write_status_history calls).                          *)
HistoryTellsStatus ==
  \A b \in Bookings : Exists(b) =>
    /\ history[b].to = status[b]
    /\ history[b].by = "override" => status[b] \in OverrideTargets
    /\ history[b].by = "service" =>
         <<history[b].from, status[b]>> \in
           Transitions \cup {<<"none", "requested">>, <<"requested", "accepted">>}

(* A shift is only ever under way with an assigned worker whose DBS        *)
(* certificate was cleared: check_in tests a worker only if the booking    *)
(* has one, so this needs every confirmed booking to have a worker.        *)
UnderWayIsCleared ==
  \A b \in Bookings :
    status[b] = "checked_in" => worker[b] \in cleared

(* The status log is a chain: each new row starts where the last ended. *)
HistoryIsChain ==
  [][\A b \in Bookings :
       (history'[b] # history[b] /\ history[b] # NoRow) =>
         history'[b].from = history[b].to]_history

(* An answer to an offer is final: what a worker accepted or declined, and *)
(* what expired, never becomes anything else.                              *)
AnswersAreFinal ==
  [][\A b \in Bookings, w \in Workers :
       offer[b][w] \in {"accepted", "declined", "expired"} =>
         offer'[b][w] = offer[b][w]]_offer

(* A worker is never booked twice for the same date. *)
NoDoubleBooking ==
  \A b, c \in Bookings :
    /\ b # c
    /\ status[b] \in Taken
    /\ status[c] \in Taken
    /\ worker[b] = worker[c]
    => shiftDate[b] # shiftDate[c]

(* The worker whose offer on the booking is accepted, as a set. *)
Winner(b) == {w \in Workers : offer[b][w] = "accepted"}

Forced == {b \in Bookings : Exists(b) /\ history[b].by = "override"}

Lifecycle ==
  INSTANCE BookingLifecycle
    WITH phase  <- status,
         winner <- [b \in Bookings |-> Winner(b)],
         forced <- Forced

(* Requests run one at a time implement the promised lifecycle. *)
ImplementsLifecycle == Lifecycle!Spec
=============================================================================
