----------------------------- MODULE Timesheet -----------------------------
(***************************************************************************)
(* Timesheets, over bookings that live by BookingLifecycle (module Booking *)
(* implements it).  A timesheet request loads a row, checks its status and *)
(* writes later, in a READ COMMITTED transaction without locks: between    *)
(* its two steps other requests commit.  With one slot in Requests the     *)
(* requests run one at a time, with two slots any two of them overlap.     *)
(***************************************************************************)
EXTENDS BookingLifecycle

CONSTANTS
  Sheets,    \* identifiers of the timesheets that may be created
  Hours,     \* what a worker may submit: hours worked, and the pay they give
  NoHours,   \* nothing submitted yet
  NoBooking, \* the booking of a timesheet that does not exist
  Requests,  \* slots for requests in flight
  Idle       \* a slot that is free

SheetStatuses ==
  {"none", "draft", "submitted", "approved", "rejected",
   "correction_requested"}

(* What a request in flight loaded; for a draft, only the booking. *)
InFlight ==
  [op : {"draft"}, booking : Bookings] \cup
  [op : {"submit", "approve", "reject", "correct"}, sheet : Sheets,
   hours : Hours \cup {NoHours}]

ASSUME NullAssumption ==
  /\ NoHours \notin Hours
  /\ NoBooking \notin Bookings
  /\ Idle \notin InFlight

VARIABLES
  booking,   \* timesheets.booking_id
  sheet,     \* timesheets.status
  hours,     \* the figures submitted last
  locked,    \* timesheets whose locked_at is set
  snapshot,  \* old_values of each timesheet's latest correction record
  req        \* what each slot is doing

sheetVars == <<booking, sheet, hours, locked, snapshot>>
vars == <<lifecycleVars, sheetVars, req>>

SheetsOf(b) == {t \in Sheets : booking[t] = b}

(* The statuses from which each request moves a timesheet. *)
Origins ==
  [submit  |-> {"draft", "correction_requested"},
   approve |-> {"submitted"},
   reject  |-> {"submitted"},
   correct |-> {"submitted"}]

-----------------------------------------------------------------------------
SheetInit ==
  /\ Init
  /\ booking = [t \in Sheets |-> NoBooking]
  /\ sheet = [t \in Sheets |-> "none"]
  /\ hours = [t \in Sheets |-> NoHours]
  /\ locked = {}
  /\ snapshot = [t \in Sheets |-> NoHours]
  /\ req = [r \in Requests |-> Idle]

(* Mutant of LoadForDraft: the booking's status is not tested. *)
LoadForDraftTooEarly(r, b) ==
  /\ req[r] = Idle
  /\ phase[b] # "none"
  /\ SheetsOf(b) = {}
  /\ req' = [req EXCEPT ![r] = [op |-> "draft", booking |-> b]]
  /\ UNCHANGED <<lifecycleVars, sheetVars>>

(* Mutant of LoadForDraft: nobody looks for an existing timesheet. *)
LoadForDraftAgain(r, b) ==
  /\ req[r] = Idle
  /\ phase[b] = "completed"
  /\ req' = [req EXCEPT ![r] = [op |-> "draft", booking |-> b]]
  /\ UNCHANGED <<lifecycleVars, sheetVars>>

(* create_draft loads the booking and looks for its timesheet.  No state   *)
(* in between matters: the booking is not read again.                      *)
LoadForDraft(r, b) ==
  /\ req[r] = Idle
  /\ phase[b] = "completed"
  /\ SheetsOf(b) = {}
  /\ req' = [req EXCEPT ![r] = [op |-> "draft", booking |-> b]]
  /\ UNCHANGED <<lifecycleVars, sheetVars>>

(* The INSERT.  worker_id is NOT NULL: a completed booking has a worker,   *)
(* unless an override completed it, and then this may also fail.           *)
WriteDraft(r, t) ==
  /\ req[r] # Idle /\ req[r].op = "draft"
  /\ sheet[t] = "none"
  /\ booking' = [booking EXCEPT ![t] = req[r].booking]
  /\ sheet' = [sheet EXCEPT ![t] = "draft"]
  /\ req' = [req EXCEPT ![r] = Idle]
  /\ UNCHANGED <<lifecycleVars, hours, locked, snapshot>>

(* Mutant of LoadSheet: a rejected timesheet may be submitted again. *)
LoadSheetRejected(r, t) ==
  /\ req[r] = Idle
  /\ \E op \in DOMAIN Origins :
       /\ \/ sheet[t] \in Origins[op]
          \/ op = "submit" /\ sheet[t] = "rejected"
       /\ op = "correct" => t \notin locked
       /\ req' = [req EXCEPT ![r] =
            [op |-> op, sheet |-> t, hours |-> hours[t]]]
  /\ UNCHANGED <<lifecycleVars, sheetVars>>

LoadSheet(r, t) ==
  /\ req[r] = Idle
  /\ \E op \in DOMAIN Origins :
       /\ sheet[t] \in Origins[op]
       /\ op = "correct" => t \notin locked
       /\ req' = [req EXCEPT ![r] =
            [op |-> op, sheet |-> t, hours |-> hours[t]]]
  /\ UNCHANGED <<lifecycleVars, sheetVars>>

(* A request writes its status; every write changes the status it loaded.  *)
Write(r, op, to) ==
  /\ req[r] # Idle /\ req[r].op = op
  /\ sheet' = [sheet EXCEPT ![req[r].sheet] = to]
  /\ req' = [req EXCEPT ![r] = Idle]
  /\ UNCHANGED <<lifecycleVars, booking>>

(* Figures equal to the loaded ones are not part of the UPDATE. *)
WriteSubmit(r, h) ==
  /\ Write(r, "submit", "submitted")
  /\ hours' = IF h = req[r].hours THEN hours
                                  ELSE [hours EXCEPT ![req[r].sheet] = h]
  /\ UNCHANGED <<locked, snapshot>>

(* Mutant of WriteApprove: locked_at is forgotten. *)
WriteApproveUnlocked(r) ==
  /\ Write(r, "approve", "approved")
  /\ UNCHANGED <<hours, locked, snapshot>>

WriteApprove(r) ==
  /\ Write(r, "approve", "approved")
  /\ locked' = locked \cup {req[r].sheet}
  /\ UNCHANGED <<hours, snapshot>>

WriteReject(r) ==
  /\ Write(r, "reject", "rejected")
  /\ UNCHANGED <<hours, locked, snapshot>>

(* Mutant of WriteCorrection: the correction record has no old values. *)
WriteCorrectionNoSnapshot(r) ==
  /\ Write(r, "correct", "correction_requested")
  /\ UNCHANGED <<hours, locked, snapshot>>

(* The correction record keeps the figures as they were loaded. *)
WriteCorrection(r) ==
  /\ Write(r, "correct", "correction_requested")
  /\ snapshot' = [snapshot EXCEPT ![req[r].sheet] = req[r].hours]
  /\ UNCHANGED <<hours, locked>>

(* A refusal, a violated constraint, a crash: the request rolls back. *)
Abort(r) ==
  /\ req[r] # Idle
  /\ req' = [req EXCEPT ![r] = Idle]
  /\ UNCHANGED <<lifecycleVars, sheetVars>>

SheetStep(r) ==
  \/ \E b \in Bookings : LoadForDraft(r, b)
  \/ \E t \in Sheets : LoadSheet(r, t) \/ WriteDraft(r, t)
  \/ \E h \in Hours : WriteSubmit(r, h)
  \/ WriteApprove(r)
  \/ WriteReject(r)
  \/ WriteCorrection(r)
  \/ Abort(r)

SheetNext ==
  \/ Next /\ UNCHANGED <<sheetVars, req>>
  \/ \E r \in Requests : SheetStep(r)

SheetSpec == SheetInit /\ [][SheetNext]_vars

-----------------------------------------------------------------------------
(* Type invariant.  A timesheet has a booking exactly when it exists, and  *)
(* what a request loaded is a timesheet that exists.                       *)
TypeOK ==
  /\ LifecycleTypeOK
  /\ booking \in [Sheets -> Bookings \cup {NoBooking}]
  /\ sheet \in [Sheets -> SheetStatuses]
  /\ hours \in [Sheets -> Hours \cup {NoHours}]
  /\ locked \in SUBSET Sheets
  /\ snapshot \in [Sheets -> Hours \cup {NoHours}]
  /\ req \in [Requests -> InFlight \cup {Idle}]
  /\ \A t \in Sheets : sheet[t] = "none" <=> booking[t] = NoBooking
  /\ \A r \in Requests :
       req[r] # Idle /\ req[r].op # "draft" => sheet[req[r].sheet] # "none"

(* Nobody is paid for a shift that nobody was awarded, unless an           *)
(* administrator forced its status (timesheet.py, create_draft, over the   *)
(* whole life of the booking).                                             *)
PaidShiftsWereAwarded ==
  \A t \in Sheets :
    sheet[t] # "none" => winner[booking[t]] # {} \/ booking[t] \in forced

(* However requests overlap, a timesheet that left draft carries figures,  *)
(* and an approved one is locked (timesheet.py, submit and approve).       *)
DecisionsHaveFigures ==
  \A t \in Sheets :
    /\ sheet[t] \notin {"none", "draft"} => hours[t] # NoHours
    /\ sheet[t] = "approved" => t \in locked

(* One timesheet per booking (timesheet.py, create_draft). *)
OneSheetPerBooking ==
  \A t, u \in Sheets :
    sheet[t] # "none" /\ booking[t] = booking[u] => t = u

(* Approved timesheets are locked and cannot be modified, and a rejection  *)
(* is final too (timesheet.py).                                            *)
DecisionsAreFinal ==
  [][\A t \in Sheets :
       sheet[t] = "rejected" \/ t \in locked =>
         sheet'[t] = sheet[t] /\ hours'[t] = hours[t]]_<<sheet, hours>>

(* No submitted figures are lost: the ones a new submission replaces are   *)
(* kept by the latest correction record (timesheet.py,                     *)
(* request_correction).                                                    *)
FiguresAreKept ==
  [][\A t \in Sheets :
       hours[t] # NoHours /\ hours'[t] # hours[t] =>
         snapshot[t] = hours[t]]_hours

(* Approved timesheets are locked and cannot be modified, as the service's *)
(* documentation says it.                                                  *)
ApprovedIsLocked ==
  [][\A t \in locked :
       sheet'[t] = sheet[t] /\ hours'[t] = hours[t]]_<<sheet, hours>>
=============================================================================
