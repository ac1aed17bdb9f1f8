--------------------------- MODULE CentralRecord ---------------------------
(***************************************************************************)
(* One worker's row of the single central record: the checks that HR       *)
(* records one by one, the worker's own DBS declarations, and the status   *)
(* that is recomputed from the loaded row by most of them.  A request      *)
(* loads the row and commits its changed columns later; other requests may *)
(* commit in between.  A request is either served at once or left in       *)
(* flight in a slot: with one slot, one request overlaps any number of     *)
(* others, which is every race of two.                                     *)
(***************************************************************************)
EXTENDS UnitOfWork, FiniteSets

CONSTANTS
  Methods,      \* ways to verify an identity
  DbsStatuses,  \* states of a DBS application
  ReferenceStatuses,
  OtherChecks,  \* checks that the status does not ask for
  RecordSlots,  \* slots for requests in flight
  NoRequest     \* a slot that is free

(* SCRStatus also has "pending_review", which nothing writes. *)
RecordStatuses ==
  {"incomplete", "verified_pending_physical", "compliant", "suspended"}

(* A check that may be declared not applicable instead of dated.           *)
CheckStates == {"none", "dated", "not_applicable", "both"}

BaseColumns ==
  {"status", "method", "initial", "physical", "rtw", "dbs",
   "reference_1", "reference_2"}

Columns == BaseColumns \cup OtherChecks

(* The checks with a date column and a not-applicable column, and the ones *)
(* with only a date.                                                       *)
Declinable == {"barred_list", "tra_prohibition", "section_128"}
DateOnly == {"qualifications", "overseas_checks"}

ASSUME CentralAssumption ==
  /\ {"not_selected", "school_in_person"} \subseteq Methods
  /\ {"not_started", "in_flight", "completed"} = DbsStatuses
  /\ {"pending", "verified"} \subseteq ReferenceStatuses
  /\ OtherChecks \subseteq Declinable \cup DateOnly \cup {"dbs_risk_assessment"}

(* The values of each column. *)
Values(c) ==
  CASE c = "status" -> RecordStatuses
    [] c = "method" -> Methods
    [] c \in {"initial", "physical", "rtw"} -> BOOLEAN
    [] c = "dbs" -> DbsStatuses
    [] c \in {"reference_1", "reference_2"} -> ReferenceStatuses
    [] OTHER -> CheckStates

SCRRecord(s) ==
  /\ s = [c \in Columns |-> s[c]]
  /\ \A c \in Columns : s[c] \in Values(c)

(* Before a record is made, it has no columns. *)
NoRow == [c \in {} |-> c]

VARIABLES
  record,   \* the worker's row of scr_records
  pending,  \* what each slot is doing
  raced     \* a request committed over a row it had not loaded

centralVars == <<record, pending, raced>>

(* The column defaults. *)
NewRecord ==
  [c \in Columns |->
     CASE c = "status" -> "incomplete"
       [] c = "method" -> "not_selected"
       [] c \in {"initial", "physical", "rtw"} -> FALSE
       [] c = "dbs" -> "not_started"
       [] c \in {"reference_1", "reference_2"} -> "pending"
       [] OTHER -> "none"]

-----------------------------------------------------------------------------
DigitalChecksComplete(s) ==
  /\ s.initial
  /\ s.dbs \in {"in_flight", "completed"}
  /\ s.rtw
  /\ s.reference_1 = "verified"
  /\ s.reference_2 = "verified"

(* Mutant of Derived: the person need not have been seen. *)
DerivedUnseen(s) ==
  IF DigitalChecksComplete(s) THEN "compliant" ELSE "incomplete"

(* _derive_status *)
Derived(s) ==
  IF ~DigitalChecksComplete(s) THEN "incomplete"
  ELSE IF s.physical THEN "compliant" ELSE "verified_pending_physical"

(* Mutant of Recomputed: a suspension is recomputed too. *)
RecomputedLifts(s) == [s EXCEPT !.status = Derived(s)]

(* _recompute_status: a suspension stays. *)
Recomputed(s) ==
  IF s.status = "suspended" THEN s ELSE [s EXCEPT !.status = Derived(s)]

(* The requests in flight no longer hold the row as it is. *)
Overtaken(s) ==
  IF s = record THEN pending
  ELSE [r \in RecordSlots |->
          IF pending[r] = NoRequest THEN NoRequest
          ELSE [pending[r] EXCEPT !.fresh = FALSE]]

(* What the request makes of the row it loaded: at once, or later from a   *)
(* slot.                                                                   *)
Serve(s) ==
  \/ /\ record' = s
     /\ pending' = Overtaken(s)
     /\ UNCHANGED raced
  \/ \E r \in RecordSlots :
       /\ pending[r] = NoRequest
       /\ pending' = [pending EXCEPT ![r] =
            [inserts |-> record = NoRow,
             changes |-> IF record = NoRow THEN s ELSE Changes(record, s),
             fresh   |-> TRUE]]
       /\ UNCHANGED <<record, raced>>

(* get_or_create *)
RowOrNew == IF record = NoRow THEN NewRecord ELSE record

(* Reading the record makes it. *)
GetOrCreate == record = NoRow /\ Serve(NewRecord)

(* In person, also dates the initial check, and not the physical one.      *)
SetIdVerificationMethod ==
  /\ record # NoRow
  /\ \E m \in Methods :
       Serve(Recomputed([record EXCEPT
         !.method = m, !.initial = @ \/ m = "school_in_person"]))

(* A worker seen at the school is thereby confirmed. *)
RecordInitialIdCheck ==
  /\ record # NoRow
  /\ Serve(Recomputed([record EXCEPT
       !.initial = TRUE,
       !.physical = @ \/ record.method = "school_in_person"]))

ConfirmPhysicalId ==
  /\ record # NoRow
  /\ ~record.physical
  /\ Serve(Recomputed([record EXCEPT !.physical = TRUE]))

UpdateDbs ==
  /\ record # NoRow
  /\ \E d \in DbsStatuses : Serve(Recomputed([record EXCEPT !.dbs = d]))

RecordRtwCheck ==
  /\ record # NoRow
  /\ Serve(Recomputed([record EXCEPT !.rtw = TRUE]))

(* Mutant of AdvanceReferenceStatus: the status is not recomputed. *)
AdvanceReferenceStatusStale ==
  /\ record # NoRow
  /\ \E n \in {"reference_1", "reference_2"}, status \in ReferenceStatuses :
       Serve([record EXCEPT ![n] = status])

(* In any order, back from verified too. *)
AdvanceReferenceStatus ==
  /\ record # NoRow
  /\ \E n \in {"reference_1", "reference_2"}, status \in ReferenceStatuses :
       Serve(Recomputed([record EXCEPT ![n] = status]))

(* Barred list, TRA prohibition and section 128: the date and the          *)
(* declaration replace each other.                                         *)
RecordDeclinable ==
  /\ record # NoRow
  /\ \E k \in OtherChecks \cap Declinable, v \in {"dated", "not_applicable"} :
       Serve([record EXCEPT ![k] = v])

(* A date does not withdraw the declaration. *)
RecordDbsRiskAssessment ==
  /\ record # NoRow
  /\ "dbs_risk_assessment" \in OtherChecks
  /\ \E v \in {"dated", "not_applicable"} :
       Serve([record EXCEPT !["dbs_risk_assessment"] =
         IF v = "dated" /\ @ \in {"not_applicable", "both"} THEN "both"
                                                           ELSE v])

(* The route for qualifications accepts a request without a date, which    *)
(* clears it.                                                              *)
RecordDateOnly ==
  /\ record # NoRow
  /\ \E k \in OtherChecks \cap DateOnly, v \in {"dated", "none"} :
       /\ v = "none" => k = "qualifications"
       /\ Serve([record EXCEPT ![k] = v])

(* No route calls suspend or unsuspend.  The latter finds the status       *)
(* suspended, so that its recomputation returns early: nothing is lifted.  *)
SuspendRecord ==
  /\ record # NoRow
  /\ Serve([record EXCEPT !.status = "suspended"])

UnsuspendRecord ==
  /\ record # NoRow
  /\ record.status = "suspended"
  /\ Serve(Recomputed(record))

(* The worker's own declarations, which recompute nothing. *)
DbsLinkUpdateService == Serve([RowOrNew EXCEPT !.dbs = "completed"])

DbsStartApplication ==
  \E m \in Methods : Serve([RowOrNew EXCEPT !.dbs = "in_flight", !.method = m])

CheckRoute ==
  \/ SetIdVerificationMethod
  \/ RecordInitialIdCheck
  \/ ConfirmPhysicalId
  \/ UpdateDbs
  \/ RecordRtwCheck
  \/ AdvanceReferenceStatus

OtherCheckRoute ==
  \/ RecordDeclinable
  \/ RecordDbsRiskAssessment
  \/ RecordDateOnly

(* The row the commit leaves. *)
Committed(r) ==
  IF pending[r].inserts THEN pending[r].changes
                        ELSE Updated(record, pending[r].changes)

(* worker_id is unique: of two requests that make the row, one fails.      *)
CommitRecord(r) ==
  /\ pending[r] # NoRequest
  /\ pending[r].inserts => record = NoRow
  /\ record' = Committed(r)
  /\ pending' = [Overtaken(Committed(r)) EXCEPT ![r] = NoRequest]
  /\ raced' = (raced \/ ~pending[r].fresh)

(* A refusal, a violated constraint, a crash. *)
AbortRecord(r) ==
  /\ pending[r] # NoRequest
  /\ pending' = [pending EXCEPT ![r] = NoRequest]
  /\ UNCHANGED <<record, raced>>

CentralInit ==
  /\ record = NoRow
  /\ pending = [r \in RecordSlots |-> NoRequest]
  /\ raced = FALSE

CentralNext ==
  \/ GetOrCreate
  \/ CheckRoute
  \/ OtherCheckRoute
  \/ SuspendRecord
  \/ UnsuspendRecord
  \/ DbsLinkUpdateService
  \/ DbsStartApplication
  \/ \E r \in RecordSlots : CommitRecord(r) \/ AbortRecord(r)

CentralSpec == CentralInit /\ [][CentralNext]_centralVars

-----------------------------------------------------------------------------
(* A request in flight brings a whole row, or changes columns of a row     *)
(* there is.                                                               *)
SlotTypeOK(r) ==
  /\ DOMAIN pending[r] = {"inserts", "changes", "fresh"}
  /\ pending[r].inserts \in BOOLEAN
  /\ pending[r].fresh \in BOOLEAN
  /\ IF pending[r].inserts
     THEN SCRRecord(pending[r].changes)
     ELSE /\ record # NoRow
          /\ DOMAIN pending[r].changes \subseteq Columns
          /\ \A c \in DOMAIN pending[r].changes :
               pending[r].changes[c] \in Values(c)

(* Type invariant of the record and the requests in flight. *)
CentralTypeOK ==
  /\ record = NoRow \/ SCRRecord(record)
  /\ DOMAIN pending = RecordSlots
  /\ \A r \in RecordSlots : pending[r] # NoRequest => SlotTypeOK(r)
  /\ raced \in BOOLEAN

(* However requests overlap, a record is only compliant when the worker    *)
(* was seen in person, and the identity and the right to work were checked *)
(* (scr.py, _derive_status, the gate of confirm_physical_id).  The DBS and *)
(* the references may have been taken back by a request that overlapped.   *)
CompliantSeenInPerson ==
  record # NoRow =>
    /\ record.status = "compliant" => record.physical
    /\ record.status \in {"compliant", "verified_pending_physical"} =>
         record.initial /\ record.rtw

(* As long as no request committed over a row it had not loaded, the       *)
(* status is the one the row asks for, but for what the worker declared of *)
(* the DBS since (scr.py, _recompute_status; worker_self.py, the DBS       *)
(* routes, which do not recompute it).                                     *)
StaleOnlyByDbs ==
  record # NoRow /\ ~raced =>
    \/ record.status = "suspended"
    \/ \E d \in DbsStatuses :
         record.status = Derived([record EXCEPT !.dbs = d])

(* However requests overlap, the row stays once it is made, and a check of *)
(* the identity or the right to work that is on it is never taken off      *)
(* again.  A suspension stays too, and no recomputation lifts it, as long  *)
(* as no request committed over a row it had not loaded (scr.py,           *)
(* _recompute_status; the UPDATE of changed columns).                      *)
ChecksStand ==
  [][record # NoRow =>
       /\ record' # NoRow
       /\ \A g \in {"initial", "physical", "rtw"} : record[g] => record'[g]
       /\ record.status = "suspended" /\ ~raced' =>
            record'.status = "suspended"]_<<record, raced>>
=============================================================================
