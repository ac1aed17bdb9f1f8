-------------------------- MODULE TimesheetProofs --------------------------
(***************************************************************************)
(* What module Timesheet states of overlapping requests, proved for any    *)
(* bookings, timesheets and number of requests in flight.                  *)
(***************************************************************************)
EXTENDS Timesheet, TLAPS

(* A booking past its award has a winner, unless its status was forced.    *)
Awarded(b) == winner[b] # {} \/ b \in forced

AwardsRecorded ==
  \A b \in Bookings :
    phase[b] \in Taken \cup {"completed"} => Awarded(b)

(* What a request in flight relies on until it writes: the booking of its  *)
(* draft stays awarded, and figures once submitted are never withdrawn.    *)
KnowledgeHolds(q) ==
  /\ q.op = "draft" => Awarded(q.booking)
  /\ q.op # "draft" /\ q.hours # NoHours => hours[q.sheet] # NoHours
  /\ q.op \in {"approve", "reject", "correct"} => q.hours # NoHours

Safe ==
  /\ AwardsRecorded
  /\ \A r \in Requests : req[r] # Idle => KnowledgeHolds(req[r])
  /\ PaidShiftsWereAwarded
  /\ DecisionsHaveFigures

IInv == TypeOK /\ Safe

(* A step of the bookings' lifecycle keeps its types. *)
LEMMA LifecycleTypes ==
  ASSUME LifecycleTypeOK, Next PROVE LifecycleTypeOK'
BY DEF LifecycleTypeOK, Next, Request, Award, Advance, Override, Go, Statuses,
       OverrideTargets

(* The state of the timesheets keeps its types. *)
THEOREM TypeCorrect == SheetSpec => []TypeOK
<1>1. SheetInit => TypeOK
  BY NullAssumption DEF SheetInit, Init, TypeOK, LifecycleTypeOK, Statuses,
     SheetStatuses
<1>2. TypeOK /\ [SheetNext]_vars => TypeOK'
  <2> SUFFICES ASSUME TypeOK, [SheetNext]_vars PROVE TypeOK'
    OBVIOUS
  <2>1. CASE Next /\ UNCHANGED <<sheetVars, req>>
    BY <2>1, LifecycleTypes DEF TypeOK, sheetVars
  <2>2. ASSUME NEW r \in Requests, SheetStep(r) PROVE TypeOK'
    <3> USE NullAssumption
        DEF TypeOK, LifecycleTypeOK, lifecycleVars, sheetVars, InFlight,
            SheetStatuses
    <3>1. ASSUME NEW b \in Bookings, LoadForDraft(r, b) PROVE TypeOK'
      BY <3>1 DEF LoadForDraft
    <3>2. ASSUME NEW t \in Sheets, LoadSheet(r, t) PROVE TypeOK'
      BY <3>2 DEF LoadSheet, Origins
    <3>3. ASSUME NEW t \in Sheets, WriteDraft(r, t) PROVE TypeOK'
      <4>1. req[r].booking \in Bookings
        BY <3>3 DEF WriteDraft
      <4>2. QED
        BY <3>3, <4>1 DEF WriteDraft
    <3>4. ASSUME NEW op \in {"submit", "approve", "reject", "correct"},
                 NEW to \in SheetStatuses \ {"none"}, Write(r, op, to)
          PROVE  /\ req[r].sheet \in Sheets
                 /\ req[r].hours \in Hours \cup {NoHours}
                 /\ sheet' \in [Sheets -> SheetStatuses]
                 /\ req' \in [Requests -> InFlight \cup {Idle}]
                 /\ UNCHANGED <<phase, winner, forced, booking>>
                 /\ \A t \in Sheets : sheet[t] = "none" <=> sheet'[t] = "none"
                 /\ \A s \in Requests : req'[s] # Idle => req'[s] = req[s]
      <4>1. /\ req[r].sheet \in Sheets
            /\ req[r].hours \in Hours \cup {NoHours}
        BY <3>4 DEF Write
      <4>2. /\ sheet' \in [Sheets -> SheetStatuses]
            /\ req' \in [Requests -> InFlight \cup {Idle}]
            /\ UNCHANGED <<phase, winner, forced, booking>>
            /\ \A s \in Requests : req'[s] # Idle => req'[s] = req[s]
        BY <3>4, <4>1 DEF Write
      <4>3. sheet[req[r].sheet] # "none"
        BY <3>4 DEF Write
      <4>4. \A t \in Sheets : sheet[t] = "none" <=> sheet'[t] = "none"
        BY <3>4, <4>1, <4>3 DEF Write
      <4>5. QED
        BY <4>1, <4>2, <4>4
    <3>5. ASSUME NEW h \in Hours, WriteSubmit(r, h) PROVE TypeOK'
      BY <3>5, <3>4 DEF WriteSubmit
    <3>6. CASE WriteApprove(r)
      BY <3>6, <3>4 DEF WriteApprove
    <3>7. CASE WriteReject(r) \/ WriteCorrection(r)
      BY <3>7, <3>4 DEF WriteReject, WriteCorrection
    <3>8. CASE Abort(r)
      BY <3>8 DEF Abort
    <3>9. QED
      BY <2>2, <3>1, <3>2, <3>3, <3>4, <3>5, <3>6, <3>7, <3>8 DEF SheetStep
  <2>3. CASE UNCHANGED vars
    BY <2>3 DEF vars, TypeOK, LifecycleTypeOK, lifecycleVars, sheetVars
  <2>4. QED
    BY <2>1, <2>2, <2>3 DEF SheetNext
<1>3. QED
  BY <1>1, <1>2, PTL DEF SheetSpec

-----------------------------------------------------------------------------
(* A step of the bookings' lifecycle keeps awards, and a booking past its  *)
(* award still has a winner or was forced.                                 *)
LEMMA LifecycleAwards ==
  ASSUME LifecycleTypeOK, AwardsRecorded, Next
  PROVE  /\ AwardsRecorded'
         /\ \A b \in Bookings : Awarded(b) => Awarded(b)'
<1> USE DEF LifecycleTypeOK, AwardsRecorded, Awarded, Go, Taken, Statuses
<1>1. ASSUME NEW b \in Bookings, Request(b) \/ Advance(b)
      PROVE  AwardsRecorded' /\ UNCHANGED <<winner, forced>>
  BY <1>1 DEF Request, Advance
<1>2. ASSUME NEW b \in Bookings, NEW w \in Workers, Award(b, w)
      PROVE  /\ AwardsRecorded'
             /\ \A c \in Bookings : Awarded(c) => Awarded(c)'
  BY <1>2 DEF Award
<1>3. ASSUME NEW b \in Bookings, Override(b)
      PROVE  /\ AwardsRecorded'
             /\ \A c \in Bookings : Awarded(c) => Awarded(c)'
  BY <1>3 DEF Override, OverrideTargets
<1>4. QED
  BY <1>1, <1>2, <1>3 DEF Next

(* The lifecycle's steps preserve the invariant: awards only accumulate.   *)
LEMMA LifecycleStepSafe ==
  ASSUME IInv, Next, UNCHANGED <<sheetVars, req>>
  PROVE  Safe'
<1>1. AwardsRecorded' /\ \A b \in Bookings : Awarded(b) => Awarded(b)'
  BY LifecycleAwards DEF IInv, Safe, TypeOK
<1>2. UNCHANGED <<booking, sheet, hours, locked, req>>
  BY DEF sheetVars
<1>3. ASSUME NEW r \in Requests, req[r] # Idle PROVE KnowledgeHolds(req[r])'
  <2>1. req[r].op = "draft" => req[r].booking \in Bookings
    BY <1>3 DEF IInv, TypeOK, InFlight
  <2>2. QED
    BY <1>1, <1>2, <1>3, <2>1 DEF IInv, Safe, KnowledgeHolds
<1>4. PaidShiftsWereAwarded'
  <2>1. \A t \in Sheets : sheet[t] # "none" => booking[t] \in Bookings
    BY DEF IInv, TypeOK
  <2>2. QED
    BY <1>1, <1>2, <2>1 DEF IInv, Safe, PaidShiftsWereAwarded, Awarded
<1>5. DecisionsHaveFigures'
  BY <1>2 DEF IInv, Safe, DecisionsHaveFigures
<1>6. QED
  BY <1>1, <1>2, <1>3, <1>4, <1>5 DEF Safe

(* A request's steps preserve it. *)
LEMMA SheetStepSafe ==
  ASSUME IInv, NEW r \in Requests, SheetStep(r)
  PROVE  Safe'
<1>1. /\ UNCHANGED <<phase, winner, forced>>
      /\ AwardsRecorded'
      /\ \A b : Awarded(b)' <=> Awarded(b)
  <2>1. UNCHANGED lifecycleVars
    BY DEF SheetStep, LoadForDraft, LoadSheet, WriteDraft, WriteSubmit,
       WriteApprove, WriteReject, WriteCorrection, Write, Abort
  <2>2. QED
    BY <2>1 DEF lifecycleVars, Awarded, AwardsRecorded, IInv, Safe
<1>2. ASSUME NEW b \in Bookings, LoadForDraft(r, b) PROVE Safe'
  <2>1. Awarded(b)
    BY <1>2 DEF LoadForDraft, IInv, Safe, AwardsRecorded
  <2>2. \A s \in Requests : req'[s] # Idle => KnowledgeHolds(req'[s])
    BY <1>2, <2>1 DEF LoadForDraft, KnowledgeHolds, IInv, TypeOK, Safe
  <2>3. QED
    BY <1>1, <1>2, <2>2 DEF LoadForDraft, sheetVars, KnowledgeHolds, IInv,
       Safe, PaidShiftsWereAwarded, DecisionsHaveFigures
<1>3. ASSUME NEW t \in Sheets, LoadSheet(r, t) PROVE Safe'
  <2>1. PICK op \in DOMAIN Origins :
          /\ sheet[t] \in Origins[op]
          /\ req' = [req EXCEPT ![r] =
               [op |-> op, sheet |-> t, hours |-> hours[t]]]
    BY <1>3 DEF LoadSheet
  <2>2. KnowledgeHolds(req'[r])
    BY <2>1 DEF Origins, KnowledgeHolds, IInv, TypeOK, Safe,
       DecisionsHaveFigures
  <2>3. \A s \in Requests \ {r} : req'[s] = req[s]
    BY <2>1 DEF IInv, TypeOK
  <2>4. UNCHANGED <<booking, sheet, hours, locked>>
    BY <1>3 DEF LoadSheet, sheetVars
  <2>5. QED
    BY <1>1, <2>2, <2>3, <2>4 DEF KnowledgeHolds, IInv,
       Safe, PaidShiftsWereAwarded, DecisionsHaveFigures
<1>4. ASSUME NEW t \in Sheets, WriteDraft(r, t) PROVE Safe'
  <2>1. Awarded(req[r].booking) /\ req[r] # Idle
    BY <1>4 DEF WriteDraft, IInv, Safe, KnowledgeHolds
  <2>2. \A s \in Requests : req'[s] # Idle => req'[s] = req[s] /\ req[s] # Idle
    BY <1>4 DEF WriteDraft, IInv, TypeOK
  <2>3. PaidShiftsWereAwarded'
    BY <1>4, <1>1, <2>1 DEF WriteDraft, IInv, Safe, TypeOK,
       PaidShiftsWereAwarded, Awarded
  <2>4. DecisionsHaveFigures'
    BY <1>4 DEF WriteDraft, IInv, Safe, TypeOK, DecisionsHaveFigures
  <2>5. UNCHANGED hours
    BY <1>4 DEF WriteDraft
  <2>6. QED
    BY <1>1, <2>2, <2>3, <2>4, <2>5 DEF IInv, Safe, KnowledgeHolds
<1>5. ASSUME NEW op \in {"submit", "approve", "reject", "correct"}, NEW to,
             Write(r, op, to), to # "none",
             \A t \in Sheets : hours[t] # NoHours => hours'[t] # NoHours,
             hours'[req[r].sheet] # NoHours,
             to = "approved" => req[r].sheet \in locked',
             locked \subseteq locked'
      PROVE Safe'
  <2>1. /\ req[r] # Idle /\ req[r].op = op /\ req[r].sheet \in Sheets
        /\ sheet[req[r].sheet] # "none"
        /\ sheet' = [sheet EXCEPT ![req[r].sheet] = to]
        /\ UNCHANGED booking
        /\ req' = [req EXCEPT ![r] = Idle]
    BY <1>5 DEF Write, IInv, TypeOK, InFlight
  <2>2. \A s \in Requests : req'[s] # Idle => req'[s] = req[s] /\ req[s] # Idle
    BY <2>1 DEF IInv, TypeOK
  <2>3. \A s \in Requests : req[s] # Idle /\ req[s].op # "draft" =>
          req[s].sheet \in Sheets
    BY DEF IInv, TypeOK, InFlight
  <2>4. \A s \in Requests : (req[s] # Idle => KnowledgeHolds(req[s]))'
    BY <1>1, <1>5, <2>2, <2>3 DEF IInv, Safe, KnowledgeHolds
  <2>5. PaidShiftsWereAwarded'
    BY <1>1, <2>1 DEF IInv, Safe, TypeOK, PaidShiftsWereAwarded
  <2>6. DecisionsHaveFigures'
    BY <1>5, <2>1 DEF IInv, Safe, TypeOK, DecisionsHaveFigures
  <2>7. QED
    BY <1>1, <2>4, <2>5, <2>6 DEF Safe
<1>6. ASSUME NEW h \in Hours, WriteSubmit(r, h) PROVE Safe'
  <2>1. /\ Write(r, "submit", "submitted")
        /\ UNCHANGED locked
        /\ req[r] # Idle /\ req[r].op = "submit" /\ req[r].sheet \in Sheets
    BY <1>6 DEF WriteSubmit, Write, IInv, TypeOK, InFlight
  <2>2. CASE h = req[r].hours
    <3>1. UNCHANGED hours /\ hours[req[r].sheet] # NoHours
      BY <1>6, <2>1, <2>2, NullAssumption
         DEF WriteSubmit, IInv, Safe, KnowledgeHolds
    <3>2. QED
      BY <1>5, <2>1, <3>1
  <2>3. CASE h # req[r].hours
    <3>1. hours' = [hours EXCEPT ![req[r].sheet] = h] /\ h # NoHours
      BY <1>6, <2>3, NullAssumption DEF WriteSubmit
    <3>2. /\ \A t \in Sheets : hours[t] # NoHours => hours'[t] # NoHours
          /\ hours'[req[r].sheet] # NoHours
      BY <2>1, <3>1 DEF IInv, TypeOK
    <3>3. QED
      BY <1>5, <2>1, <3>2
  <2>4. QED
    BY <2>2, <2>3
<1>7. CASE WriteApprove(r) \/ WriteReject(r) \/ WriteCorrection(r)
  <2>1. PICK op \in {"approve", "reject", "correct"},
             to \in {"approved", "rejected", "correction_requested"} :
          /\ Write(r, op, to)
          /\ UNCHANGED hours
          /\ to = "approved" => req[r].sheet \in locked'
          /\ locked \subseteq locked'
    BY <1>7 DEF WriteApprove, WriteReject, WriteCorrection
  <2>2. hours[req[r].sheet] # NoHours
    BY <2>1 DEF Write, IInv, Safe, KnowledgeHolds
  <2>3. QED
    BY <1>5, <2>1, <2>2
<1>8. CASE Abort(r)
  <2>1. /\ UNCHANGED <<booking, sheet, hours, locked>>
        /\ \A s \in Requests :
             req'[s] # Idle => req'[s] = req[s] /\ req[s] # Idle
    BY <1>8 DEF Abort, sheetVars, IInv, TypeOK
  <2>2. QED
    BY <1>1, <2>1 DEF IInv, Safe, KnowledgeHolds, PaidShiftsWereAwarded,
       DecisionsHaveFigures
<1>9. QED
  BY SheetStep(r), <1>2, <1>3, <1>4, <1>6, <1>7, <1>8 DEF SheetStep

(* IInv holds in every reachable state, however requests overlap and       *)
(* whatever becomes of the bookings meanwhile.                             *)
THEOREM Invariance == SheetSpec => []IInv
<1>1. SheetInit => Safe
  BY DEF SheetInit, Init, Safe, AwardsRecorded, Taken, PaidShiftsWereAwarded,
     DecisionsHaveFigures
<1>2. TypeOK /\ Safe /\ [SheetNext]_vars => Safe'
  <2> SUFFICES ASSUME TypeOK, Safe, [SheetNext]_vars PROVE Safe'
    OBVIOUS
  <2>1. CASE SheetNext
    BY <2>1, LifecycleStepSafe, SheetStepSafe DEF SheetNext, IInv
  <2>2. CASE UNCHANGED vars
    BY <2>2 DEF vars, lifecycleVars, sheetVars, Safe, AwardsRecorded, Awarded,
       KnowledgeHolds, PaidShiftsWereAwarded, DecisionsHaveFigures
  <2>3. QED
    BY <2>1, <2>2
<1>3. TypeOK /\ Safe <=> IInv
  BY DEF IInv
<1>4. QED
  BY <1>1, <1>2, <1>3, TypeCorrect, PTL DEF SheetSpec

(* Nobody is paid for a shift nobody was awarded, unless an administrator  *)
(* forced its status: create_draft tests the status once, and the booking  *)
(* may be forced between the test and the insert (create_draft).           *)
THEOREM AwardedBeforePaid == SheetSpec => []PaidShiftsWereAwarded
BY Invariance, PTL DEF IInv, Safe

(* A timesheet that left draft carries figures and an approved one is      *)
(* locked, in spite of requests that overwrite each other (submit,         *)
(* approve, reject, request_correction).                                   *)
THEOREM FiguresBeforeDecisions == SheetSpec => []DecisionsHaveFigures
BY Invariance, PTL DEF IInv, Safe

-----------------------------------------------------------------------------
(* Timesheet requests that do not overlap: one slot. *)
OneRequest == \A r, s \in Requests : r = s

(* What the status of a timesheet says of its figures and its lock. *)
StatusFits(t) ==
  /\ sheet[t] \in {"none", "draft"} => hours[t] = NoHours
  /\ sheet[t] = "correction_requested" => snapshot[t] = hours[t]
  /\ t \in locked => sheet[t] = "approved"

(* What a request that runs alone loaded is still so when it writes. *)
StillCurrent(q) ==
  /\ q.op = "draft" => SheetsOf(q.booking) = {}
  /\ q.op # "draft" => /\ sheet[q.sheet] \in Origins[q.op]
                       /\ hours[q.sheet] = q.hours

SerialInv ==
  /\ OneSheetPerBooking
  /\ \A t \in Sheets : StatusFits(t)
  /\ \A r \in Requests : req[r] # Idle => StillCurrent(req[r])

(* The two promises about one step. *)
DecisionsStay ==
  \A t \in Sheets :
    sheet[t] = "rejected" \/ t \in locked =>
      sheet'[t] = sheet[t] /\ hours'[t] = hours[t]

FiguresStay ==
  \A t \in Sheets :
    hours[t] # NoHours /\ hours'[t] # hours[t] => snapshot[t] = hours[t]

(* The only request's step keeps what it knows and both promises. *)
LEMMA SerialStep ==
  ASSUME OneRequest, TypeOK, SerialInv, NEW r \in Requests, SheetStep(r)
  PROVE  SerialInv' /\ DecisionsStay /\ FiguresStay
<1> DEFINE Goal == SerialInv' /\ DecisionsStay /\ FiguresStay
<1>1. ASSUME req'[r] = Idle
      PROVE  \A s \in Requests : req'[s] # Idle => StillCurrent(req[s])'
  BY <1>1 DEF OneRequest
<1>2. ASSUME UNCHANGED sheetVars, req'[r] # Idle => StillCurrent(req'[r])
      PROVE  Goal
  <2>1. SerialInv'
    BY <1>2 DEF OneRequest, SerialInv, StillCurrent, StatusFits, SheetsOf,
         OneSheetPerBooking, sheetVars
  <2>2. QED
    BY <1>2, <2>1 DEF DecisionsStay, FiguresStay, sheetVars
<1>3. ASSUME NEW b \in Bookings, LoadForDraft(r, b) PROVE Goal
  <2>1. req'[r] = [op |-> "draft", booking |-> b] /\ SheetsOf(b) = {}
    BY <1>3 DEF LoadForDraft, TypeOK
  <2>2. UNCHANGED sheetVars /\ StillCurrent(req'[r])
    BY <1>3, <2>1 DEF LoadForDraft, StillCurrent
  <2>3. QED
    BY <1>2, <2>2
<1>4. ASSUME NEW t \in Sheets, LoadSheet(r, t) PROVE Goal
  <2>1. PICK op \in DOMAIN Origins :
          /\ sheet[t] \in Origins[op]
          /\ req' = [req EXCEPT ![r] =
               [op |-> op, sheet |-> t, hours |-> hours[t]]]
    BY <1>4 DEF LoadSheet
  <2>2. UNCHANGED sheetVars /\ StillCurrent(req'[r])
    BY <1>4, <2>1 DEF LoadSheet, StillCurrent, Origins, TypeOK
  <2>3. QED
    BY <1>2, <2>2
<1>5. ASSUME NEW t \in Sheets, WriteDraft(r, t) PROVE Goal
  <2>1. /\ req[r].booking \in Bookings /\ SheetsOf(req[r].booking) = {}
        /\ sheet[t] = "none" /\ sheet' = [sheet EXCEPT ![t] = "draft"]
        /\ booking' = [booking EXCEPT ![t] = req[r].booking]
        /\ UNCHANGED <<hours, locked, snapshot>>
        /\ req'[r] = Idle
    BY <1>5 DEF WriteDraft, TypeOK, InFlight, SerialInv, StillCurrent
  <2>2. OneSheetPerBooking'
    BY <2>1, NullAssumption
       DEF SerialInv, OneSheetPerBooking, SheetsOf, TypeOK
  <2>3. \A u \in Sheets : StatusFits(u)'
    BY <2>1 DEF SerialInv, StatusFits, TypeOK
  <2>4. DecisionsStay /\ FiguresStay
    BY <2>1 DEF DecisionsStay, FiguresStay, SerialInv, StatusFits, TypeOK
  <2>5. QED
    BY <1>1, <2>1, <2>2, <2>3, <2>4 DEF SerialInv
<1>6. ASSUME NEW op \in {"submit", "approve", "reject", "correct"},
             NEW to \in SheetStatuses \ {"none", "draft"}, Write(r, op, to)
      PROVE  /\ req[r].sheet \in Sheets /\ sheet[req[r].sheet] \in Origins[op]
             /\ hours[req[r].sheet] = req[r].hours
             /\ req[r].sheet \notin locked
             /\ sheet[req[r].sheet] \notin {"none", "rejected"}
             /\ sheet' = [sheet EXCEPT ![req[r].sheet] = to]
             /\ req'[r] = Idle /\ OneSheetPerBooking'
  <2>1. req[r] # Idle /\ req[r].op = op
    BY <1>6 DEF Write
  <2>2. req[r].sheet \in Sheets
    BY <2>1 DEF TypeOK, InFlight
  <2>3. sheet[req[r].sheet] \in Origins[op] /\ hours[req[r].sheet] = req[r].hours
    BY <2>1 DEF SerialInv, StillCurrent
  <2>4. sheet[req[r].sheet] \in {"draft", "correction_requested", "submitted"}
    BY <2>3 DEF Origins
  <2>5. req[r].sheet \notin locked
    BY <2>2, <2>4 DEF SerialInv, StatusFits
  <2>6. /\ sheet' = [sheet EXCEPT ![req[r].sheet] = to] /\ req'[r] = Idle
        /\ UNCHANGED booking
    BY <1>6 DEF Write, TypeOK
  <2>7. OneSheetPerBooking'
    BY <2>2, <2>4, <2>6 DEF SerialInv, OneSheetPerBooking, TypeOK
  <2>8. QED
    BY <2>2, <2>3, <2>4, <2>5, <2>6, <2>7
<1>7. ASSUME NEW h \in Hours, WriteSubmit(r, h) PROVE Goal
  <2>1. /\ Write(r, "submit", "submitted")
        /\ hours' = IF h = req[r].hours THEN hours
                                        ELSE [hours EXCEPT ![req[r].sheet] = h]
        /\ UNCHANGED <<locked, snapshot>>
    BY <1>7 DEF WriteSubmit
  <2>2. /\ req[r].sheet \in Sheets
        /\ sheet[req[r].sheet] \in {"draft", "correction_requested"}
        /\ req[r].sheet \notin locked
        /\ sheet' = [sheet EXCEPT ![req[r].sheet] = "submitted"]
        /\ req'[r] = Idle /\ OneSheetPerBooking'
    BY <1>6, <2>1 DEF SheetStatuses, Origins
  <2>3. \A t \in Sheets \ {req[r].sheet} :
          sheet'[t] = sheet[t] /\ hours'[t] = hours[t]
    BY <2>1, <2>2 DEF TypeOK
  <2>4. \A t \in Sheets : StatusFits(t)'
    BY <2>1, <2>2, <2>3 DEF SerialInv, StatusFits, TypeOK
  <2>5. DecisionsStay /\ FiguresStay
    BY <2>2, <2>3 DEF DecisionsStay, FiguresStay, SerialInv, StatusFits
  <2>6. QED
    BY <1>1, <2>2, <2>4, <2>5 DEF SerialInv
<1>8. ASSUME WriteApprove(r) \/ WriteReject(r) \/ WriteCorrection(r) PROVE Goal
  <2>1. PICK op \in {"approve", "reject", "correct"},
             to \in {"approved", "rejected", "correction_requested"} :
          /\ Write(r, op, to)
          /\ UNCHANGED hours
          /\ locked' \in {locked} \cup
               IF to = "approved" THEN {locked \cup {req[r].sheet}} ELSE {}
          /\ to = "correction_requested" =>
               snapshot' = [snapshot EXCEPT ![req[r].sheet] = req[r].hours]
          /\ to # "correction_requested" => snapshot' = snapshot
    BY <1>8 DEF WriteApprove, WriteReject, WriteCorrection
  <2>2. /\ req[r].sheet \in Sheets
        /\ hours[req[r].sheet] = req[r].hours
        /\ req[r].sheet \notin locked
        /\ sheet[req[r].sheet] \notin {"none", "rejected"}
        /\ sheet' = [sheet EXCEPT ![req[r].sheet] = to]
        /\ req'[r] = Idle /\ OneSheetPerBooking'
    BY <1>6, <2>1 DEF SheetStatuses
  <2>3. \A t \in Sheets : StatusFits(t)'
    BY <2>1, <2>2 DEF SerialInv, StatusFits, TypeOK
  <2>4. DecisionsStay /\ FiguresStay
    BY <2>1, <2>2 DEF DecisionsStay, FiguresStay, SerialInv, StatusFits, TypeOK
  <2>5. QED
    BY <1>1, <2>2, <2>3, <2>4 DEF SerialInv
<1>9. ASSUME Abort(r) PROVE Goal
  BY <1>2, <1>9 DEF Abort, TypeOK
<1>10. QED
  BY <1>3, <1>4, <1>5, <1>7, <1>8, <1>9 DEF SheetStep

(* Requests one at a time keep the serial invariant and both promises. *)
LEMMA SerialEffect ==
  ASSUME OneRequest, TypeOK, SerialInv, [SheetNext]_vars
  PROVE  SerialInv' /\ DecisionsStay /\ FiguresStay
<1>1. CASE UNCHANGED <<sheetVars, req>>
  BY <1>1 DEF sheetVars, SerialInv, OneSheetPerBooking, StatusFits, StillCurrent,
       SheetsOf, DecisionsStay, FiguresStay
<1>2. QED
  BY <1>1, SerialStep DEF SheetNext, vars

(* The invariant of timesheet requests that do not overlap. *)
THEOREM SerialInvariance == OneRequest => (SheetSpec => []SerialInv)
<1> SUFFICES ASSUME OneRequest PROVE SheetSpec => []SerialInv
  OBVIOUS
<1>1. SheetInit => SerialInv
  BY DEF SheetInit, SerialInv, OneSheetPerBooking, StatusFits
<1>2. TypeOK /\ SerialInv /\ [SheetNext]_vars => SerialInv'
  BY SerialEffect
<1>3. QED
  BY <1>1, <1>2, TypeCorrect, PTL DEF SheetSpec

(* One timesheet per booking, if requests do not overlap (create_draft). *)
THEOREM OneSheet == OneRequest => (SheetSpec => []OneSheetPerBooking)
BY SerialInvariance, PTL DEF SerialInv

(* An approved or rejected timesheet never changes, if requests do not     *)
(* overlap (approve, reject, request_correction).                          *)
THEOREM DecisionsFinal == OneRequest => (SheetSpec => DecisionsAreFinal)
<1> SUFFICES ASSUME OneRequest PROVE SheetSpec => DecisionsAreFinal
  OBVIOUS
<1>1. TypeOK /\ SerialInv /\ [SheetNext]_vars => [DecisionsStay]_<<sheet, hours>>
  BY SerialEffect
<1>2. QED
  BY <1>1, TypeCorrect, SerialInvariance, PTL
     DEF SheetSpec, DecisionsAreFinal, DecisionsStay

(* Figures are replaced only once a correction record keeps them, if       *)
(* requests do not overlap (submit, request_correction).                   *)
THEOREM FiguresKept == OneRequest => (SheetSpec => FiguresAreKept)
<1> SUFFICES ASSUME OneRequest PROVE SheetSpec => FiguresAreKept
  OBVIOUS
<1>1. TypeOK /\ SerialInv /\ [SheetNext]_vars => [FiguresStay]_hours
  BY SerialEffect
<1>2. QED
  BY <1>1, TypeCorrect, SerialInvariance, PTL
     DEF SheetSpec, FiguresAreKept, FiguresStay
(* "Approved timesheets are locked and cannot be modified": what the       *)
(* service's documentation says holds if requests do not overlap.  The     *)
(* overlap of the run timesheet_locked is needed to break it.              *)
THEOREM LockedIfApart == OneRequest => (SheetSpec => ApprovedIsLocked)
<1> DEFINE Locked == \A t \in locked : sheet'[t] = sheet[t] /\ hours'[t] = hours[t]
<1>1. TypeOK => locked \subseteq Sheets
  BY DEF TypeOK
<1>2. TypeOK /\ [DecisionsStay]_<<sheet, hours>> => [Locked]_<<sheet, hours>>
  BY <1>1 DEF DecisionsStay
<1>3. QED
  BY <1>2, DecisionsFinal, TypeCorrect, PTL
     DEF DecisionsAreFinal, DecisionsStay, ApprovedIsLocked
=============================================================================
