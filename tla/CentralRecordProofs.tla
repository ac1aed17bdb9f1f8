------------------------ MODULE CentralRecordProofs ------------------------
(***************************************************************************)
(* What module CentralRecord states, proved for any slots, methods and     *)
(* checks: however many requests overlap.                                  *)
(***************************************************************************)
EXTENDS CentralRecord, TLAPS

(* The status of a row asks for what the row holds. *)
Seen(s) ==
  /\ s.status = "compliant" => s.physical
  /\ s.status \in {"compliant", "verified_pending_physical"} =>
       s.initial /\ s.rtw

(* The status is the derived one but for the DBS, or a suspension. *)
Fits(s) ==
  \/ s.status = "suspended"
  \/ \E d \in DbsStatuses : s.status = Derived([s EXCEPT !.dbs = d])

Gates == {"initial", "physical", "rtw"}

(* No gate of the row is closed again. *)
Grows(s, t) == \A g \in Gates : s[g] => t[g]

-----------------------------------------------------------------------------
(* What each column that the status depends on may hold. *)
LEMMA ColumnValues ==
  /\ Values("status") = RecordStatuses
  /\ Values("method") = Methods
  /\ \A g \in Gates : Values(g) = BOOLEAN
  /\ Values("dbs") = DbsStatuses
  /\ Values("reference_1") = ReferenceStatuses
  /\ Values("reference_2") = ReferenceStatuses
  /\ \A c \in OtherChecks : Values(c) = CheckStates /\ c \notin BaseColumns
<1>1. \A c \in OtherChecks :
        c \in {"barred_list", "tra_prohibition", "section_128",
               "qualifications", "overseas_checks", "dbs_risk_assessment"}
  BY CentralAssumption DEF Declinable, DateOnly
<1>2. \A c \in OtherChecks : c \notin BaseColumns
  BY <1>1 DEF BaseColumns
<1>3. \A c \in OtherChecks : Values(c) = CheckStates
  BY <1>1 DEF Values
<1>4. \A g \in Gates : Values(g) = BOOLEAN
  BY DEF Gates, Values
<1>5. QED
  BY <1>2, <1>3, <1>4 DEF Values

(* A row with one column set to a value of that column is a row. *)
LEMMA SetColumn ==
  ASSUME NEW s, SCRRecord(s), NEW c \in Columns, NEW v \in Values(c)
  PROVE  SCRRecord([s EXCEPT ![c] = v])
<1>1. DOMAIN s = Columns
  BY DEF SCRRecord
<1>2. \A b \in Columns : [s EXCEPT ![c] = v][b] \in Values(b)
  BY <1>1 DEF SCRRecord
<1>3. QED
  BY <1>1, <1>2 DEF SCRRecord

(* The row the defaults make is a proper one. *)
LEMMA NewRecordIsRow ==
  SCRRecord(NewRecord) /\ Seen(NewRecord) /\ Fits(NewRecord)
<1>1. /\ NewRecord.status = "incomplete"
      /\ NewRecord.method = "not_selected"
      /\ \A g \in Gates : NewRecord[g] = FALSE
      /\ NewRecord.dbs = "not_started"
      /\ NewRecord.reference_1 = "pending"
      /\ NewRecord.reference_2 = "pending"
  BY DEF NewRecord, Columns, BaseColumns, Gates
<1>2. \A c \in OtherChecks : NewRecord[c] = "none"
  BY ColumnValues DEF NewRecord, Columns, BaseColumns
<1>3. \A c \in Columns : NewRecord[c] \in Values(c)
  <2>1. \A c \in OtherChecks : NewRecord[c] \in Values(c)
    BY <1>2, ColumnValues DEF CheckStates
  <2>2. \A c \in BaseColumns : NewRecord[c] \in Values(c)
    BY <1>1, ColumnValues, CentralAssumption
       DEF BaseColumns, Gates, RecordStatuses
  <2>3. QED
    BY <2>1, <2>2 DEF Columns
<1>4. DOMAIN NewRecord = Columns
  BY DEF NewRecord
<1>5. NewRecord = [c \in Columns |-> NewRecord[c]]
  BY DEF NewRecord
<1>7. "not_started" \in DbsStatuses
  BY CentralAssumption
<1>8. Derived([NewRecord EXCEPT !.dbs = "not_started"]) = "incomplete"
  BY <1>1, <1>4 DEF Derived, DigitalChecksComplete, Columns, BaseColumns, Gates
<1>9. QED
  BY <1>1, <1>3, <1>5, <1>7, <1>8 DEF SCRRecord, Seen, Fits

(* The recomputed row is a row whose status fits it, and differs in the    *)
(* status alone.                                                           *)
LEMMA RecomputedFits ==
  ASSUME NEW s, SCRRecord(s)
  PROVE  /\ SCRRecord(Recomputed(s))
         /\ Seen(Recomputed(s))
         /\ Fits(Recomputed(s))
         /\ \A g \in Gates : Recomputed(s)[g] = s[g]
<1>1. s.status \in RecordStatuses /\ s.dbs \in DbsStatuses
  BY ColumnValues DEF SCRRecord, Columns, BaseColumns
<1>2. CASE s.status = "suspended"
  BY <1>2 DEF Recomputed, Seen, Fits
<1>3. CASE s.status # "suspended"
  <2> DEFINE t == [s EXCEPT !.status = Derived(s)]
  <2>1. Recomputed(s) = t
    BY <1>3 DEF Recomputed
  <2>2. Derived(s) \in RecordStatuses
    BY DEF Derived, RecordStatuses
  <2>3. SCRRecord(t)
    BY <2>2, SetColumn, ColumnValues DEF Columns, BaseColumns
  <2>4. DOMAIN s = Columns
    BY DEF SCRRecord
  <2>5. /\ t.status = Derived(s)
        /\ \A c \in Columns \ {"status"} : t[c] = s[c]
    BY <2>4 DEF Columns, BaseColumns
  <2>6. \A g \in Gates : t[g] = s[g]
    BY <2>5 DEF Gates, Columns, BaseColumns
  <2>7. Seen(t)
    BY <2>5, <2>6 DEF Seen, Derived, DigitalChecksComplete, Gates
  <2>8. Derived([t EXCEPT !.dbs = s.dbs]) = Derived(s)
    BY <2>4, <2>5 DEF Derived, DigitalChecksComplete, Columns, BaseColumns
  <2>9. Fits(t)
    BY <1>1, <2>5, <2>8 DEF Fits
  <2>10. QED
    BY <2>1, <2>3, <2>6, <2>7, <2>9
<1>4. QED
  BY <1>2, <1>3
(* Columns the status does not ask for change nothing about it, and for    *)
(* the DBS that is how the status may fall behind.                         *)
LEMMA OtherColumns ==
  ASSUME NEW s, SCRRecord(s), NEW t, SCRRecord(t),
         \A c \in BaseColumns \ {"dbs", "method"} : t[c] = s[c]
  PROVE  /\ Seen(s) => Seen(t)
         /\ Fits(s) => Fits(t)
         /\ Grows(s, t)
<1>1. DOMAIN s = Columns /\ DOMAIN t = Columns
  BY DEF SCRRecord
<1>2. /\ t.status = s.status
      /\ t.initial = s.initial
      /\ t.physical = s.physical
      /\ t.rtw = s.rtw
      /\ t.reference_1 = s.reference_1
      /\ t.reference_2 = s.reference_2
  BY DEF BaseColumns
<1>3. ASSUME NEW d \in DbsStatuses
      PROVE  Derived([t EXCEPT !.dbs = d]) = Derived([s EXCEPT !.dbs = d])
  BY <1>1, <1>2
     DEF Derived, DigitalChecksComplete, Columns, BaseColumns
<1>4. QED
  BY <1>2, <1>3 DEF Seen, Fits, Grows, Gates

(* A record that is suspended. *)
Suspended == record # NoRow /\ record.status = "suspended"

(* Every request but those that end one in flight makes a row of the row   *)
(* it loaded that is a row, asks for nobody unseen, closes no gate again,  *)
(* lifts no suspension, and whose status fits if it did.                   *)
Served(s) ==
  /\ SCRRecord(s)
  /\ Seen(s)
  /\ record # NoRow => Grows(record, s)
  /\ Suspended => s.status = "suspended"
  /\ (record # NoRow => Fits(record)) => Fits(s)

(* A request that leaves the columns of the status alone serves a proper row. *)
LEMMA ServeOther ==
  ASSUME record # NoRow => SCRRecord(record) /\ Seen(record),
         NEW t, SCRRecord(t),
         \A c \in BaseColumns \ {"dbs", "method"} : t[c] = RowOrNew[c]
  PROVE  Served(t)
<1>1. SCRRecord(RowOrNew) /\ Seen(RowOrNew)
  BY NewRecordIsRow DEF RowOrNew
<1>2. /\ Seen(t)
      /\ Fits(RowOrNew) => Fits(t)
      /\ Grows(RowOrNew, t)
  BY <1>1, OtherColumns
<1>3. t.status = RowOrNew.status
  BY DEF BaseColumns
<1>4. Suspended => t.status = "suspended"
  BY <1>3 DEF Suspended, RowOrNew
<1>5. QED
  BY <1>2, <1>4, NewRecordIsRow DEF Served, RowOrNew

(* A request that recomputes the status serves a row that fits it. *)
LEMMA ServeRecomputed ==
  ASSUME NEW s, SCRRecord(s), Grows(record, s), s.status = record.status
  PROVE  Served(Recomputed(s))
<1>1. Grows(record, Recomputed(s))
  BY RecomputedFits DEF Grows
<1>2. Suspended => Recomputed(s).status = "suspended"
  BY DEF Suspended, Recomputed
<1>3. QED
  BY <1>1, <1>2, RecomputedFits DEF Served

(* The routes that recompute the status. *)
LEMMA CheckRouteServes ==
  ASSUME SCRRecord(record), CheckRoute
  PROVE  \E s : Served(s) /\ Serve(s)
<1> USE DEF Columns, BaseColumns
<1>1. DOMAIN record = Columns
  BY DEF SCRRecord
<1>2. ASSUME NEW s, SCRRecord(s), Grows(record, s), s.status = record.status,
             Serve(Recomputed(s))
      PROVE  \E r : Served(r) /\ Serve(r)
  BY <1>2, ServeRecomputed
<1>3. CASE SetIdVerificationMethod
  <2>1. PICK m \in Methods :
          Serve(Recomputed([record EXCEPT
            !.method = m, !.initial = @ \/ m = "school_in_person"]))
    BY <1>3 DEF SetIdVerificationMethod
  <2> DEFINE a == [record EXCEPT !.method = m]
  <2> DEFINE v == a.initial \/ m = "school_in_person"
  <2> DEFINE b == [a EXCEPT !.initial = v]
  <2>2. SCRRecord(a)
    BY SetColumn, ColumnValues
  <2>3. v \in BOOLEAN
    OBVIOUS
  <2>4. SCRRecord(b)
    <3> HIDE DEF a, v
    <3>1. "initial" \in Columns /\ Values("initial") = BOOLEAN
      BY ColumnValues DEF Gates
    <3>2. QED
      BY <2>2, <2>3, <3>1, SetColumn
  <2>5. Grows(record, b) /\ b.status = record.status
    BY <1>1 DEF Grows, Gates
  <2>6. Serve(Recomputed(b))
    BY <2>1
  <2>7. QED
    BY <2>4, <2>5, <2>6, <1>2
<1>4. CASE RecordInitialIdCheck
  <2> DEFINE a == [record EXCEPT !.initial = TRUE]
  <2> DEFINE v == a.physical \/ record.method = "school_in_person"
  <2> DEFINE b == [a EXCEPT !.physical = v]
  <2>1. Serve(Recomputed(b))
    BY <1>1, <1>4 DEF RecordInitialIdCheck
  <2>2. SCRRecord(a)
    BY SetColumn, ColumnValues DEF Gates
  <2>3. v \in BOOLEAN
    OBVIOUS
  <2>4. SCRRecord(b)
    <3> HIDE DEF a, v
    <3>1. "physical" \in Columns /\ Values("physical") = BOOLEAN
      BY ColumnValues DEF Gates
    <3>2. QED
      BY <2>2, <2>3, <3>1, SetColumn
  <2>5. Grows(record, b) /\ b.status = record.status
    BY <1>1 DEF Grows, Gates
  <2>6. QED
    BY <2>1, <2>4, <2>5, <1>2
<1>5. CASE ConfirmPhysicalId
  <2>1. SCRRecord([record EXCEPT !.physical = TRUE])
    BY SetColumn, ColumnValues DEF Gates
  <2>2. /\ Grows(record, [record EXCEPT !.physical = TRUE])
        /\ [record EXCEPT !.physical = TRUE].status = record.status
    BY <1>1 DEF Grows, Gates
  <2>3. QED
    BY <1>5, <2>1, <2>2, <1>2 DEF ConfirmPhysicalId
<1>6. CASE UpdateDbs
  <2>1. PICK d \in DbsStatuses : Serve(Recomputed([record EXCEPT !.dbs = d]))
    BY <1>6 DEF UpdateDbs
  <2>2. SCRRecord([record EXCEPT !.dbs = d])
    BY SetColumn, ColumnValues
  <2>3. /\ Grows(record, [record EXCEPT !.dbs = d])
        /\ [record EXCEPT !.dbs = d].status = record.status
    BY <1>1 DEF Grows, Gates
  <2>4. QED
    BY <2>1, <2>2, <2>3, <1>2
<1>7. CASE RecordRtwCheck
  <2>1. SCRRecord([record EXCEPT !.rtw = TRUE])
    BY SetColumn, ColumnValues DEF Gates
  <2>2. /\ Grows(record, [record EXCEPT !.rtw = TRUE])
        /\ [record EXCEPT !.rtw = TRUE].status = record.status
    BY <1>1 DEF Grows, Gates
  <2>3. QED
    BY <1>7, <2>1, <2>2, <1>2 DEF RecordRtwCheck
<1>8. CASE AdvanceReferenceStatus
  <2>1. PICK n \in {"reference_1", "reference_2"}, status \in ReferenceStatuses :
          Serve(Recomputed([record EXCEPT ![n] = status]))
    BY <1>8 DEF AdvanceReferenceStatus
  <2>2. SCRRecord([record EXCEPT ![n] = status])
    BY SetColumn, ColumnValues
  <2>3. /\ Grows(record, [record EXCEPT ![n] = status])
        /\ [record EXCEPT ![n] = status].status = record.status
    BY <1>1 DEF Grows, Gates
  <2>4. QED
    BY <2>1, <2>2, <2>3, <1>2
<1>9. QED
  BY <1>3, <1>4, <1>5, <1>6, <1>7, <1>8 DEF CheckRoute
(* The routes that do not. *)
LEMMA OtherRequestsServe ==
  ASSUME record # NoRow => SCRRecord(record) /\ Seen(record),
         \/ GetOrCreate
         \/ OtherCheckRoute
         \/ SuspendRecord
         \/ UnsuspendRecord
         \/ DbsLinkUpdateService
         \/ DbsStartApplication
  PROVE  \E s : Served(s) /\ Serve(s)
<1>1. CASE GetOrCreate
  <2>1. Served(NewRecord)
    BY <1>1, NewRecordIsRow DEF Served, GetOrCreate, Suspended
  <2>2. QED
    BY <1>1, <2>1 DEF GetOrCreate
<1>2. ASSUME record # NoRow, NEW c \in OtherChecks, NEW v \in CheckStates
      PROVE  Served([record EXCEPT ![c] = v])
  <2>1. c \in Columns /\ v \in Values(c) /\ c \notin BaseColumns
    BY ColumnValues DEF Columns
  <2>2. SCRRecord([record EXCEPT ![c] = v])
    BY <1>2, <2>1, SetColumn
  <2>3. \A b \in BaseColumns : [record EXCEPT ![c] = v][b] = RowOrNew[b]
    BY <1>2, <2>1 DEF RowOrNew, SCRRecord, Columns
  <2>4. QED
    BY <2>2, <2>3, ServeOther
<1>3. CASE RecordDeclinable
  <2>1. record # NoRow
    BY <1>3 DEF RecordDeclinable
  <2>2. PICK k \in OtherChecks, v \in {"dated", "not_applicable"} :
          Serve([record EXCEPT ![k] = v])
    BY <1>3 DEF RecordDeclinable
  <2>3. QED
    BY <2>1, <2>2, <1>2 DEF CheckStates
<1>4. CASE RecordDbsRiskAssessment
  <2>1. record # NoRow
    BY <1>4 DEF RecordDbsRiskAssessment
  <2>2. "dbs_risk_assessment" \in OtherChecks
    BY <1>4 DEF RecordDbsRiskAssessment
  <2>3. PICK v \in {"dated", "not_applicable"} :
          Serve([record EXCEPT !["dbs_risk_assessment"] =
            IF v = "dated" /\ @ \in {"not_applicable", "both"}
            THEN "both" ELSE v])
    BY <1>4 DEF RecordDbsRiskAssessment
  <2>4. \E w \in CheckStates :
          Serve([record EXCEPT !["dbs_risk_assessment"] = w])
    BY <2>3 DEF CheckStates
  <2>5. QED
    BY <2>1, <2>2, <2>4, <1>2
<1>5. CASE RecordDateOnly
  <2>1. record # NoRow
    BY <1>5 DEF RecordDateOnly
  <2>2. PICK k \in OtherChecks, v \in {"dated", "none"} :
          Serve([record EXCEPT ![k] = v])
    BY <1>5 DEF RecordDateOnly
  <2>3. QED
    BY <2>1, <2>2, <1>2 DEF CheckStates
<1>6. CASE SuspendRecord
  <2> DEFINE t == [record EXCEPT !.status = "suspended"]
  <2>1. record # NoRow /\ Serve(t)
    BY <1>6 DEF SuspendRecord
  <2>2. SCRRecord(t)
    BY <2>1, SetColumn, ColumnValues DEF Columns, BaseColumns, RecordStatuses
  <2>3. /\ t.status = "suspended"
        /\ \A g \in Gates : t[g] = record[g]
    BY <2>1 DEF SCRRecord, Columns, BaseColumns, Gates
  <2>4. Served(t)
    BY <2>2, <2>3 DEF Served, Seen, Fits, Grows, Suspended
  <2>5. QED
    BY <2>1, <2>4
<1>7. CASE UnsuspendRecord
  <2>1. SCRRecord(record) /\ Serve(Recomputed(record))
    BY <1>7 DEF UnsuspendRecord
  <2>2. Grows(record, record)
    BY DEF Grows
  <2>3. QED
    BY <2>1, <2>2, ServeRecomputed
<1>8. SCRRecord(RowOrNew)
  BY NewRecordIsRow DEF RowOrNew
<1>9. DOMAIN RowOrNew = Columns
  BY <1>8 DEF SCRRecord
<1>10. "dbs" \in Columns /\ "method" \in Columns
  BY DEF Columns, BaseColumns
<1>11. CASE DbsLinkUpdateService
  <2> DEFINE t == [RowOrNew EXCEPT !.dbs = "completed"]
  <2>1. Serve(t)
    BY <1>11 DEF DbsLinkUpdateService
  <2>2. SCRRecord(t)
    BY <1>8, <1>10, SetColumn, ColumnValues, CentralAssumption
  <2>3. \A c \in BaseColumns \ {"dbs", "method"} : t[c] = RowOrNew[c]
    BY <1>9 DEF Columns
  <2>4. QED
    BY <2>1, <2>2, <2>3, ServeOther
<1>12. CASE DbsStartApplication
  <2>1. PICK m \in Methods :
          Serve([RowOrNew EXCEPT !.dbs = "in_flight", !.method = m])
    BY <1>12 DEF DbsStartApplication
  <2> DEFINE a == [RowOrNew EXCEPT !.dbs = "in_flight"]
  <2> DEFINE t == [a EXCEPT !.method = m]
  <2>2. SCRRecord(a)
    BY <1>8, <1>10, SetColumn, ColumnValues, CentralAssumption
  <2>3. SCRRecord(t)
    <3> HIDE DEF a
    <3>1. QED
      BY <1>10, <2>2, SetColumn, ColumnValues
  <2>4. \A c \in BaseColumns \ {"dbs", "method"} : t[c] = RowOrNew[c]
    BY <1>9 DEF Columns
  <2>5. Serve(t)
    BY <2>1
  <2>6. QED
    BY <2>3, <2>4, <2>5, ServeOther
<1>13. QED
  BY <1>1, <1>3, <1>4, <1>5, <1>6, <1>7, <1>11, <1>12 DEF OtherCheckRoute

-----------------------------------------------------------------------------
(* What is invariant of a request in flight: one that brings a row brings  *)
(* one that is as it should be; one that changes columns opens gates only, *)
(* and would leave the row as it should be.  While nobody has overtaken    *)
(* it, the row it leaves fits its status and lifts no suspension.          *)
InFlight(r) ==
  /\ pending[r].inserts => Seen(pending[r].changes)
  /\ ~pending[r].inserts =>
       /\ \A g \in Gates \cap DOMAIN pending[r].changes : pending[r].changes[g]
       /\ Seen(Updated(record, pending[r].changes))
  /\ pending[r].fresh /\ ~raced =>
       /\ Fits(Committed(r))
       /\ Suspended => Committed(r).status = "suspended"

IInv ==
  /\ CentralTypeOK
  /\ record # NoRow => Seen(record)
  /\ record # NoRow /\ ~raced => Fits(record)
  /\ \A r \in RecordSlots : pending[r] # NoRequest => InFlight(r)

(* Before the first request there is no record and nothing in flight. *)
THEOREM InitInvariant == CentralInit => IInv
BY DEF CentralInit, IInv, CentralTypeOK

(* A row has all the columns; the missing row has none. *)
LEMMA RowHasColumns ==
  ASSUME NEW s, SCRRecord(s)
  PROVE  s # NoRow /\ DOMAIN s = Columns
<1>1. DOMAIN s = Columns
  BY DEF SCRRecord
<1>2. DOMAIN NoRow = {} /\ "status" \in Columns
  BY DEF NoRow, Columns, BaseColumns
<1>3. QED
  BY <1>1, <1>2

(* To change columns of a row, to values of theirs, leaves a row. *)
LEMMA UpdatedRow ==
  ASSUME NEW s, SCRRecord(s), NEW ch, DOMAIN ch \subseteq Columns,
         \A c \in DOMAIN ch : ch[c] \in Values(c)
  PROVE  SCRRecord(Updated(s, ch))
<1>1. DOMAIN s = Columns
  BY RowHasColumns
<1>2. Updated(s, ch) = [c \in Columns |-> IF c \in DOMAIN ch THEN ch[c] ELSE s[c]]
  BY <1>1 DEF Updated
<1>3. \A c \in Columns : Updated(s, ch)[c] \in Values(c)
  BY <1>2 DEF SCRRecord
<1>4. Updated(s, ch) = [c \in Columns |-> Updated(s, ch)[c]]
  BY <1>2
<1>5. QED
  BY <1>3, <1>4 DEF SCRRecord

(* The columns a request changes make the row it meant to write. *)
LEMMA ChangesMakeTheRow ==
  ASSUME NEW s, SCRRecord(s), NEW t, SCRRecord(t)
  PROVE  /\ DOMAIN Changes(s, t) \subseteq Columns
         /\ \A c \in DOMAIN Changes(s, t) :
              Changes(s, t)[c] = t[c] /\ t[c] # s[c] /\ t[c] \in Values(c)
         /\ Updated(s, Changes(s, t)) = t
<1>1. DOMAIN s = Columns /\ DOMAIN t = Columns
  BY RowHasColumns
<1>2. /\ DOMAIN Changes(s, t) = {c \in Columns : t[c] # s[c]}
      /\ \A c \in DOMAIN Changes(s, t) : Changes(s, t)[c] = t[c]
  BY <1>1 DEF Changes
<1>3. \A c \in Columns : t[c] \in Values(c)
  BY DEF SCRRecord
<1>4. Updated(s, Changes(s, t)) = [c \in Columns |-> t[c]]
  BY <1>1, <1>2 DEF Updated
<1>5. QED
  BY <1>2, <1>3, <1>4 DEF SCRRecord

(* A request in flight is as it should be over a row in which more gates   *)
(* are open, too.                                                          *)
LEMMA OvertakenStaysSeen ==
  ASSUME NEW s, SCRRecord(s), NEW t, SCRRecord(t), Grows(s, t), Seen(t),
         NEW ch, DOMAIN ch \subseteq Columns,
         \A c \in DOMAIN ch : ch[c] \in Values(c),
         \A g \in Gates \cap DOMAIN ch : ch[g],
         Seen(Updated(s, ch))
  PROVE  Seen(Updated(t, ch))
<1>1. /\ "status" \in Columns
      /\ Gates \subseteq Columns
  BY DEF Columns, BaseColumns, Gates
<1>2. \A c \in Columns :
        /\ Updated(s, ch)[c] = IF c \in DOMAIN ch THEN ch[c] ELSE s[c]
        /\ Updated(t, ch)[c] = IF c \in DOMAIN ch THEN ch[c] ELSE t[c]
  BY RowHasColumns DEF Updated
<1>3. \A g \in Gates :
        /\ Updated(s, ch)[g] => Updated(t, ch)[g]
        /\ t[g] => Updated(t, ch)[g]
  BY <1>1, <1>2 DEF Grows
<1>4. CASE "status" \in DOMAIN ch
  <2>1. Updated(t, ch)["status"] = Updated(s, ch)["status"]
    BY <1>1, <1>2, <1>4
  <2>2. QED
    BY <2>1, <1>3 DEF Seen, Gates
<1>5. CASE "status" \notin DOMAIN ch
  <2>1. Updated(t, ch)["status"] = t["status"]
    BY <1>1, <1>2, <1>5
  <2>2. QED
    BY <2>1, <1>3 DEF Seen, Gates
<1>6. QED
  BY <1>4, <1>5
(* A row that is as it should be, and closes no gate, leaves the requests  *)
(* in flight as they should be, whether they are marked as overtaken or    *)
(* the row is the same.                                                    *)
LEMMA OvertakenKeeps ==
  ASSUME IInv, NEW s, SCRRecord(s), Seen(s),
         record # NoRow => Grows(record, s),
         record' = s, ~raced' => ~raced,
         NEW r \in RecordSlots, pending[r] # NoRequest,
         pending'[r] = Overtaken(s)[r]
  PROVE  SlotTypeOK(r)' /\ InFlight(r)'
<1> DEFINE p == pending[r]
<1> DEFINE q == pending'[r]
<1>1. SlotTypeOK(r) /\ InFlight(r)
  BY DEF IInv, CentralTypeOK
<1>2. s # NoRow
  BY RowHasColumns
<1>3. /\ DOMAIN q = {"inserts", "changes", "fresh"}
      /\ q.inserts = p.inserts
      /\ q.changes = p.changes
      /\ q.fresh \in BOOLEAN
      /\ q.fresh => p.fresh /\ s = record
  <2>1. CASE s = record
    BY <2>1, <1>1 DEF Overtaken, SlotTypeOK
  <2>2. CASE s # record
    <3>1. q = [p EXCEPT !.fresh = FALSE]
      BY <2>2 DEF Overtaken
    <3>2. QED
      BY <3>1, <1>1 DEF SlotTypeOK
  <2>3. QED
    BY <2>1, <2>2
<1>4. SlotTypeOK(r)'
  BY <1>1, <1>2, <1>3 DEF SlotTypeOK
<1>5. q.inserts => Seen(q.changes)
  BY <1>1, <1>3 DEF InFlight
<1>6. ASSUME ~q.inserts
      PROVE  /\ \A g \in Gates \cap DOMAIN q.changes : q.changes[g]
             /\ Seen(Updated(s, q.changes))
  <2>1. /\ record # NoRow
        /\ DOMAIN p.changes \subseteq Columns
        /\ \A c \in DOMAIN p.changes : p.changes[c] \in Values(c)
    BY <1>1, <1>3, <1>6 DEF SlotTypeOK
  <2>2. /\ \A g \in Gates \cap DOMAIN p.changes : p.changes[g]
        /\ Seen(Updated(record, p.changes))
    BY <1>1, <1>3, <1>6 DEF InFlight
  <2>3. SCRRecord(record) /\ Grows(record, s)
    BY <2>1 DEF IInv, CentralTypeOK
  <2>4. Seen(Updated(s, p.changes))
    <3> HIDE DEF p
    <3>1. QED
      BY <2>1, <2>2, <2>3, OvertakenStaysSeen
  <2>5. QED
    BY <2>2, <2>4, <1>3
<1>7. q.fresh /\ ~raced' =>
        /\ Fits(Committed(r))'
        /\ Suspended' => (Committed(r).status = "suspended")'
  <2>1. SUFFICES ASSUME q.fresh, ~raced'
                 PROVE  /\ Fits(Committed(r))'
                        /\ Suspended' => (Committed(r).status = "suspended")'
    OBVIOUS
  <2>2. Fits(Committed(r)) /\ (Suspended => Committed(r).status = "suspended")
    BY <2>1, <1>1, <1>3 DEF InFlight
  <2>3. Committed(r)' = Committed(r) /\ record' = record
    BY <2>1, <1>3 DEF Committed
  <2>4. QED
    BY <2>2, <2>3 DEF Fits, Derived, DigitalChecksComplete, Suspended
<1>8. QED
  BY <1>4, <1>5, <1>6, <1>7 DEF InFlight

(* Reading, and serving a request alone, keep the invariant. *)
LEMMA ServeKeeps ==
  ASSUME IInv, NEW s, Served(s), Serve(s)
  PROVE  IInv'
<1>1. /\ SCRRecord(s) /\ Seen(s)
      /\ record # NoRow => Grows(record, s)
      /\ ~raced => Fits(s)
  BY DEF Served, IInv
<1>2. s # NoRow
  BY <1>1, RowHasColumns
<1>3. CASE record' = s /\ pending' = Overtaken(s) /\ UNCHANGED raced
  <2>1. DOMAIN pending' = RecordSlots
    BY <1>3 DEF Overtaken, IInv, CentralTypeOK
  <2>2. ASSUME NEW r \in RecordSlots, pending'[r] # NoRequest
        PROVE  SlotTypeOK(r)' /\ InFlight(r)'
    <3>1. pending[r] # NoRequest
      BY <1>3, <2>2 DEF Overtaken
    <3>2. QED
      BY <1>1, <1>3, <3>1, OvertakenKeeps
  <2>3. CentralTypeOK'
    BY <1>1, <1>3, <2>1, <2>2 DEF CentralTypeOK, IInv
  <2>4. Seen(record)' /\ (~raced' => Fits(record)')
    BY <1>1, <1>3 DEF Seen, Fits, Derived, DigitalChecksComplete
  <2>5. QED
    BY <2>2, <2>3, <2>4 DEF IInv
<1>4. ASSUME NEW r \in RecordSlots,
             pending[r] = NoRequest,
             pending' = [pending EXCEPT ![r] =
               [inserts |-> record = NoRow,
                changes |-> IF record = NoRow THEN s ELSE Changes(record, s),
                fresh   |-> TRUE]],
             UNCHANGED <<record, raced>>
      PROVE  IInv'
  <2>1. DOMAIN pending' = RecordSlots
    BY <1>4 DEF IInv, CentralTypeOK
  <2> DEFINE new == record = NoRow
  <2> DEFINE ch == IF record = NoRow THEN s ELSE Changes(record, s)
  <2>2. /\ DOMAIN pending'[r] = {"inserts", "changes", "fresh"}
        /\ pending'[r].inserts = new
        /\ pending'[r].changes = ch
        /\ pending'[r].fresh = TRUE
    <3>1. pending'[r] = [inserts |-> new, changes |-> ch, fresh |-> TRUE]
      BY <1>4 DEF IInv, CentralTypeOK
    <3> HIDE DEF new, ch
    <3>2. QED
      BY <3>1
  <2>3. SlotTypeOK(r)' /\ InFlight(r)'
    <3>1. CASE record = NoRow
      <4>1. pending'[r].inserts /\ pending'[r].changes = s
        BY <2>2, <3>1
      <4>2. SlotTypeOK(r)'
        BY <1>1, <2>2, <4>1 DEF SlotTypeOK
      <4>3. Committed(r)' = s
        BY <4>1 DEF Committed
      <4>4. ~raced' => Fits(Committed(r))'
        BY <1>1, <1>4, <4>3 DEF Fits, Derived, DigitalChecksComplete
      <4>5. ~Suspended'
        BY <1>4, <3>1 DEF Suspended
      <4>6. QED
        BY <1>1, <4>1, <4>2, <4>4, <4>5 DEF InFlight
    <3>2. CASE record # NoRow
      <4>1. SCRRecord(record)
        BY <3>2 DEF IInv, CentralTypeOK
      <4>2. /\ DOMAIN Changes(record, s) \subseteq Columns
            /\ \A c \in DOMAIN Changes(record, s) :
                 /\ Changes(record, s)[c] = s[c]
                 /\ s[c] # record[c]
                 /\ s[c] \in Values(c)
            /\ Updated(record, Changes(record, s)) = s
        BY <1>1, <4>1, ChangesMakeTheRow
      <4>3. ~pending'[r].inserts /\ pending'[r].changes = Changes(record, s)
        BY <2>2, <3>2
      <4>4. SlotTypeOK(r)'
        BY <1>4, <2>2, <3>2, <4>2, <4>3 DEF SlotTypeOK
      <4>5. \A g \in Gates \cap DOMAIN Changes(record, s) : s[g]
        <5>1. \A g \in Gates : s[g] \in BOOLEAN /\ record[g] \in BOOLEAN
          BY <1>1, <4>1, ColumnValues
             DEF SCRRecord, Gates, Columns, BaseColumns
        <5>2. QED
          BY <1>1, <3>2, <4>2, <5>1 DEF Grows
      <4>6. Committed(r)' = s
        BY <1>4, <4>2, <4>3 DEF Committed
      <4>7. ~raced' => Fits(Committed(r))'
        BY <1>1, <1>4, <4>6 DEF Fits, Derived, DigitalChecksComplete
      <4>8. Seen(Updated(record', pending'[r].changes))
        BY <1>1, <1>4, <4>2, <4>3
      <4>9. Suspended' => (Committed(r).status = "suspended")'
        BY <1>4, <4>6 DEF Served, Suspended
      <4>10. QED
        BY <4>2, <4>3, <4>4, <4>5, <4>7, <4>8, <4>9 DEF InFlight
    <3>3. QED
      BY <3>1, <3>2
  <2>4. ASSUME NEW o \in RecordSlots, o # r, pending'[o] # NoRequest
        PROVE  SlotTypeOK(o)' /\ InFlight(o)'
    <3>1. pending'[o] = pending[o]
      BY <1>4, <2>4 DEF IInv, CentralTypeOK
    <3>2. SlotTypeOK(o) /\ InFlight(o)
      BY <2>4, <3>1 DEF IInv, CentralTypeOK
    <3>3. SlotTypeOK(o)'
      BY <1>4, <3>1, <3>2 DEF SlotTypeOK
    <3>4. InFlight(o)'
      BY <1>4, <3>1, <3>2
         DEF InFlight, Committed, Suspended, Fits, Derived, DigitalChecksComplete
    <3>5. QED
      BY <3>3, <3>4
  <2>5. CentralTypeOK'
    BY <1>4, <2>1, <2>3, <2>4 DEF CentralTypeOK, IInv
  <2>6. QED
    BY <1>4, <2>3, <2>4, <2>5
       DEF IInv, Seen, Fits, Derived, DigitalChecksComplete
<1>5. QED
  BY <1>3, <1>4 DEF Serve

(* What the commit of a request that others may have overtaken leaves: a   *)
(* row as it should be, with no gate closed again.                         *)
LEMMA CommitEffect ==
  ASSUME IInv, NEW r \in RecordSlots, CommitRecord(r)
  PROVE  /\ SCRRecord(Committed(r)) /\ Seen(Committed(r))
         /\ record # NoRow => Grows(record, Committed(r))
         /\ ~raced' => ~raced /\ Fits(Committed(r))
         /\ Suspended /\ ~raced' => Committed(r).status = "suspended"
<1> DEFINE s == Committed(r)
<1> DEFINE ch == pending[r].changes
<1>1. /\ pending[r] # NoRequest
      /\ pending[r].inserts => record = NoRow
      /\ record' = s
      /\ pending' = [Overtaken(s) EXCEPT ![r] = NoRequest]
      /\ raced' = (raced \/ ~pending[r].fresh)
  BY DEF CommitRecord
<1>2. SlotTypeOK(r) /\ InFlight(r)
  BY <1>1 DEF IInv, CentralTypeOK
<1>3. ASSUME ~pending[r].inserts
      PROVE  /\ s = Updated(record, ch)
             /\ SCRRecord(record)
             /\ DOMAIN ch \subseteq Columns
             /\ \A c \in DOMAIN ch : ch[c] \in Values(c)
             /\ \A g \in Gates \cap DOMAIN ch : ch[g]
  BY <1>2, <1>3
     DEF SlotTypeOK, InFlight, Committed, IInv, CentralTypeOK
<1>4. SCRRecord(s) /\ Seen(s)
  <2>1. CASE pending[r].inserts
    BY <1>2, <2>1 DEF SlotTypeOK, InFlight, Committed
  <2>2. CASE ~pending[r].inserts
    <3>1. Seen(Updated(record, ch))
      BY <1>2, <2>2 DEF InFlight
    <3> HIDE DEF ch
    <3>2. SCRRecord(Updated(record, ch))
      BY <1>3, <2>2, UpdatedRow
    <3>3. QED
      BY <1>3, <2>2, <3>1, <3>2
  <2>3. QED
    BY <2>1, <2>2
<1>5. record # NoRow => Grows(record, s)
  <2>1. SUFFICES ASSUME record # NoRow PROVE Grows(record, s)
    OBVIOUS
  <2>2. ~pending[r].inserts
    BY <1>1, <2>1
  <2>3. Gates \subseteq DOMAIN record
    BY <1>3, <2>2, RowHasColumns DEF Gates, Columns, BaseColumns
  <2>4. \A g \in Gates :
          Updated(record, ch)[g] = IF g \in DOMAIN ch THEN ch[g] ELSE record[g]
    BY <2>3 DEF Updated
  <2>5. \A g \in Gates : record[g] => Updated(record, ch)[g]
    BY <1>3, <2>2, <2>4
  <2>6. QED
    BY <1>3, <2>2, <2>5 DEF Grows
<1>6. /\ ~raced' => ~raced /\ Fits(s)
      /\ Suspended /\ ~raced' => s.status = "suspended"
  BY <1>1, <1>2 DEF InFlight
<1>7. QED
  BY <1>4, <1>5, <1>6

(* So the commit keeps the invariant. *)
LEMMA CommitKeeps ==
  ASSUME IInv, NEW r \in RecordSlots, CommitRecord(r)
  PROVE  IInv'
<1> DEFINE s == Committed(r)
<1>1. /\ pending[r] # NoRequest
      /\ record' = s
      /\ pending' = [Overtaken(s) EXCEPT ![r] = NoRequest]
      /\ raced' = (raced \/ ~pending[r].fresh)
  BY DEF CommitRecord
<1>2. SlotTypeOK(r)
  BY <1>1 DEF IInv, CentralTypeOK
<1>3. /\ SCRRecord(s) /\ Seen(s)
      /\ record # NoRow => Grows(record, s)
      /\ ~raced' => ~raced /\ Fits(s)
  BY CommitEffect
<1> HIDE DEF s
<1>4. s # NoRow
  BY <1>3, RowHasColumns
<1>5. DOMAIN pending' = RecordSlots
  BY <1>1 DEF Overtaken, IInv, CentralTypeOK
<1>6. ASSUME NEW o \in RecordSlots, pending'[o] # NoRequest
      PROVE  SlotTypeOK(o)' /\ InFlight(o)'
  <2>1. DOMAIN Overtaken(s) = RecordSlots
    BY DEF Overtaken, IInv, CentralTypeOK
  <2>2. o # r
    BY <1>1, <1>6, <2>1
  <2>3. pending'[o] = Overtaken(s)[o]
    BY <1>1, <2>1, <2>2
  <2>4. pending[o] # NoRequest
    BY <1>6, <2>3 DEF Overtaken
  <2>5. QED
    BY <1>1, <1>3, <2>3, <2>4, OvertakenKeeps
<1>7. raced' \in BOOLEAN
  <2>1. pending[r].fresh \in BOOLEAN
    BY <1>2 DEF SlotTypeOK
  <2>2. QED
    BY <1>1, <2>1 DEF IInv, CentralTypeOK
<1>8. CentralTypeOK'
  BY <1>1, <1>3, <1>5, <1>6, <1>7 DEF CentralTypeOK
<1>9. Seen(record)' /\ (~raced' => Fits(record)')
  BY <1>1, <1>3 DEF Seen, Fits, Derived, DigitalChecksComplete
<1>10. QED
  BY <1>6, <1>8, <1>9 DEF IInv

(* A request that ends without a trace keeps it. *)
LEMMA AbortKeeps ==
  ASSUME IInv, NEW r \in RecordSlots,
         AbortRecord(r) \/ UNCHANGED centralVars
  PROVE  IInv'
<1>1. /\ record' = record /\ raced' = raced
      /\ DOMAIN pending' = RecordSlots
      /\ \A o \in RecordSlots :
           pending'[o] # NoRequest => pending'[o] = pending[o]
  BY DEF AbortRecord, centralVars, IInv, CentralTypeOK
<1>2. ASSUME NEW o \in RecordSlots, pending'[o] # NoRequest
      PROVE  SlotTypeOK(o)' /\ InFlight(o)'
  <2>1. pending'[o] = pending[o]
    BY <1>1, <1>2
  <2>2. SlotTypeOK(o) /\ InFlight(o)
    BY <1>2, <2>1 DEF IInv, CentralTypeOK
  <2>3. SlotTypeOK(o)'
    BY <1>1, <2>1, <2>2 DEF SlotTypeOK
  <2>4. InFlight(o)'
    BY <1>1, <2>1, <2>2
       DEF InFlight, Committed, Suspended, Fits, Derived, DigitalChecksComplete
  <2>5. QED
    BY <2>3, <2>4
<1>3. CentralTypeOK'
  BY <1>1, <1>2 DEF IInv, CentralTypeOK
<1>4. QED
  BY <1>1, <1>2, <1>3
     DEF IInv, Seen, Fits, Derived, DigitalChecksComplete

(* The invariant is inductive. *)
THEOREM NextInvariant == IInv /\ [CentralNext]_centralVars => IInv'
<1> SUFFICES ASSUME IInv, [CentralNext]_centralVars PROVE IInv'
  OBVIOUS
<1>1. record # NoRow => SCRRecord(record) /\ Seen(record)
  BY DEF IInv, CentralTypeOK
<1>2. CASE CheckRoute
  <2>1. record # NoRow
    BY <1>2 DEF CheckRoute, SetIdVerificationMethod, RecordInitialIdCheck,
       ConfirmPhysicalId, UpdateDbs, RecordRtwCheck, AdvanceReferenceStatus
  <2>2. QED
    BY <1>1, <1>2, <2>1, CheckRouteServes, ServeKeeps
<1>3. CASE \/ GetOrCreate
           \/ OtherCheckRoute
           \/ SuspendRecord
           \/ UnsuspendRecord
           \/ DbsLinkUpdateService
           \/ DbsStartApplication
  BY <1>1, <1>3, OtherRequestsServe, ServeKeeps
<1>4. ASSUME NEW r \in RecordSlots, CommitRecord(r) PROVE IInv'
  BY <1>4, CommitKeeps
<1>5. ASSUME NEW r \in RecordSlots, AbortRecord(r) PROVE IInv'
  BY <1>5, AbortKeeps
<1>6. CASE UNCHANGED centralVars
  <2>1. CASE RecordSlots # {}
    BY <1>6, <2>1, AbortKeeps
  <2>2. CASE RecordSlots = {}
    BY <1>6, <2>2 DEF centralVars, IInv, CentralTypeOK, Seen, Fits, Derived,
       DigitalChecksComplete
  <2>3. QED
    BY <2>1, <2>2
<1>7. QED
  BY <1>2, <1>3, <1>4, <1>5, <1>6 DEF CentralNext

(* What one step may do to a row there is: whoever commits, no gate is     *)
(* closed again, and a suspension is lifted by an overlap at most.         *)
Stands ==
  record # NoRow =>
    /\ record' # NoRow
    /\ Grows(record, record')
    /\ Suspended /\ ~raced' => record'.status = "suspended"

(* Every step of a request leaves the checks standing. *)
LEMMA ChecksStay == IInv /\ [CentralNext]_centralVars => Stands
<1> SUFFICES ASSUME IInv, [CentralNext]_centralVars
             PROVE  Stands
  OBVIOUS
<1>1. record # NoRow => SCRRecord(record) /\ Seen(record)
  BY DEF IInv, CentralTypeOK
<1>2. CASE UNCHANGED record
  BY <1>2 DEF Stands, Grows, Suspended
<1>3. ASSUME NEW s, Served(s), Serve(s)
      PROVE  Stands
  <2>1. CASE record' = s
    BY <1>3, <2>1, RowHasColumns DEF Served, Stands
  <2>2. CASE record' # s
    BY <1>2, <1>3, <2>2 DEF Serve
  <2>3. QED
    BY <2>1, <2>2
<1>4. CASE CheckRoute
  <2>1. record # NoRow
    BY <1>4 DEF CheckRoute, SetIdVerificationMethod, RecordInitialIdCheck,
       ConfirmPhysicalId, UpdateDbs, RecordRtwCheck, AdvanceReferenceStatus
  <2>2. QED
    BY <1>1, <1>3, <1>4, <2>1, CheckRouteServes
<1>5. CASE \/ GetOrCreate
           \/ OtherCheckRoute
           \/ SuspendRecord
           \/ UnsuspendRecord
           \/ DbsLinkUpdateService
           \/ DbsStartApplication
  BY <1>1, <1>3, <1>5, OtherRequestsServe
<1>6. ASSUME NEW r \in RecordSlots, CommitRecord(r)
      PROVE  Stands
  <2>1. record' = Committed(r)
    BY <1>6 DEF CommitRecord
  <2>2. QED
    BY <1>6, <2>1, CommitEffect, RowHasColumns DEF Stands
<1>7. ASSUME NEW r \in RecordSlots, AbortRecord(r)
      PROVE  Stands
  BY <1>2, <1>7 DEF AbortRecord
<1>8. CASE UNCHANGED centralVars
  BY <1>2, <1>8 DEF centralVars
<1>9. QED
  BY <1>4, <1>5, <1>6, <1>7, <1>8 DEF CentralNext

-----------------------------------------------------------------------------
(* The record and the requests in flight are always of their types: what a *)
(* request writes is a row, whoever wrote to it in between.                *)
THEOREM RecordTypeCorrect == CentralSpec => []CentralTypeOK
<1>1. IInv => CentralTypeOK
  BY DEF IInv
<1>2. QED
  BY <1>1, InitInvariant, NextInvariant, PTL DEF CentralSpec

(* However many requests overlap, a compliant record is that of a worker   *)
(* who was seen in person and whose identity and right to work were        *)
(* checked.                                                                *)
THEOREM SeenInPerson == CentralSpec => []CompliantSeenInPerson
<1>1. IInv => CompliantSeenInPerson
  BY DEF IInv, Seen, CompliantSeenInPerson
<1>2. QED
  BY <1>1, InitInvariant, NextInvariant, PTL DEF CentralSpec

(* Until a request commits over a row it had not loaded, the status is the *)
(* one the row asks for, but for the DBS.                                  *)
THEOREM StatusFits == CentralSpec => []StaleOnlyByDbs
<1>1. IInv => StaleOnlyByDbs
  BY DEF IInv, Fits, StaleOnlyByDbs
<1>2. QED
  BY <1>1, InitInvariant, NextInvariant, PTL DEF CentralSpec

(* However many requests overlap, no check of the identity or the right to *)
(* work is taken off the record; a suspension is lifted by an overlap at   *)
(* most, never by a recomputation.                                         *)
THEOREM ChecksStandForGood == CentralSpec => ChecksStand
<1>1. IInv /\ [CentralNext]_centralVars =>
        [record # NoRow =>
           /\ record' # NoRow
           /\ \A g \in {"initial", "physical", "rtw"} : record[g] => record'[g]
           /\ record.status = "suspended" /\ ~raced' =>
                record'.status = "suspended"]_<<record, raced>>
  BY ChecksStay DEF Stands, Grows, Gates, Suspended
<1>2. QED
  BY <1>1, InitInvariant, NextInvariant, PTL DEF CentralSpec, ChecksStand
=============================================================================
