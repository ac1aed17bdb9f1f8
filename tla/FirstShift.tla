----------------------------- MODULE FirstShift -----------------------------
(***************************************************************************)
(* First-shift verification and the gate it opens.  A receptionist records *)
(* that a worker's DBS certificate was sighted at a school; the first such *)
(* record of a worker sets first_shift_cleared, the flag check-in tests.   *)
(* Verifications of one worker at several schools may overlap: each runs   *)
(* in a READ COMMITTED transaction that counts the records it can see,     *)
(* which are the committed ones and its own.                               *)
(***************************************************************************)
EXTENDS Naturals

CONSTANTS
  Workers,
  Schools,
  Requests,  \* slots for verification requests in flight
  Idle       \* a slot that is free

Records == [worker : Workers, school : Schools, matched : BOOLEAN]

(* pc is the query a request in flight runs next. *)
InFlight ==
  [row : Records, sawCleared : BOOLEAN, first : BOOLEAN,
   pc : {"find", "insert", "list", "commit"}]

ASSUME IdleAssumption == Idle \notin InFlight

VARIABLES
  approved,  \* workers whose onboarding status is approved
  verified,  \* first_shift_verifications: the committed records
  cleared,   \* workers with first_shift_cleared
  attended,  \* <<worker, school>> such that the worker was checked in there
  req        \* what each slot is doing

vars == <<approved, verified, cleared, attended, req>>

RecordsOf(w) == {v \in verified : v.worker = w}

SamePair(u, v) == u.worker = v.worker /\ u.school = v.school

(* A record that was inserted and not committed: only its own request sees *)
(* it, but the UNIQUE constraint already counts it.                        *)
Inserted(r) == req[r] # Idle /\ req[r].pc \in {"list", "commit"}

Step(r, pc) == req[r] # Idle /\ req[r].pc = pc

-----------------------------------------------------------------------------
Init ==
  /\ approved = {}
  /\ verified = {}
  /\ cleared = {}
  /\ attended = {}
  /\ req = [r \in Requests |-> Idle]

(* The worker is loaded, and must be approved. *)
LoadWorker(r, v) ==
  /\ req[r] = Idle
  /\ v.worker \in approved
  /\ req' = [req EXCEPT ![r] =
       [row |-> v, sawCleared |-> v.worker \in cleared, first |-> FALSE,
        pc |-> "find"]]
  /\ UNCHANGED <<approved, verified, cleared, attended>>

(* get_for_worker_school finds no record. *)
FindNone(r) ==
  /\ Step(r, "find")
  /\ ~\E v \in verified : SamePair(v, req[r].row)
  /\ req' = [req EXCEPT ![r].pc = "insert"]
  /\ UNCHANGED <<approved, verified, cleared, attended>>

(* Mutant of Insert: the table has no UNIQUE (worker_id, school_id). *)
InsertDuplicate(r) ==
  /\ Step(r, "insert")
  /\ req' = [req EXCEPT ![r].pc = "list"]
  /\ UNCHANGED <<approved, verified, cleared, attended>>

(* The INSERT waits for a request that inserted the same pair, and fails   *)
(* if that one committed.                                                  *)
Insert(r) ==
  /\ Step(r, "insert")
  /\ ~\E v \in verified : SamePair(v, req[r].row)
  /\ ~\E s \in Requests \ {r} :
        Inserted(s) /\ SamePair(req[s].row, req[r].row)
  /\ req' = [req EXCEPT ![r].pc = "list"]
  /\ UNCHANGED <<approved, verified, cleared, attended>>

(* Mutant of ListRecords: the count includes what others have inserted.    *)
ListRecordsDirty(r) ==
  /\ Step(r, "list")
  /\ req' = [req EXCEPT ![r].pc = "commit",
       ![r].first =
         /\ RecordsOf(req[r].row.worker) = {}
         /\ ~\E s \in Requests \ {r} :
               Inserted(s) /\ req[s].row.worker = req[r].row.worker]
  /\ UNCHANGED <<approved, verified, cleared, attended>>

(* list_for_worker: one record, the request's own, means the first.        *)
ListRecords(r) ==
  /\ Step(r, "list")
  /\ req' = [req EXCEPT ![r].pc = "commit",
                        ![r].first = RecordsOf(req[r].row.worker) = {}]
  /\ UNCHANGED <<approved, verified, cleared, attended>>

(* Mutant of Commit: the new record takes the place of the worker's older. *)
CommitReplaces(r) ==
  /\ Step(r, "commit")
  /\ verified' = (verified \ RecordsOf(req[r].row.worker)) \cup {req[r].row}
  /\ cleared' = IF req[r].first /\ ~req[r].sawCleared
                  THEN cleared \cup {req[r].row.worker}
                  ELSE cleared
  /\ req' = [req EXCEPT ![r] = Idle]
  /\ UNCHANGED <<approved, attended>>

(* The record and the flag are committed together; setting a flag that was *)
(* already set when the worker was loaded writes nothing.                  *)
Commit(r) ==
  /\ Step(r, "commit")
  /\ verified' = verified \cup {req[r].row}
  /\ cleared' = IF req[r].first /\ ~req[r].sawCleared
                  THEN cleared \cup {req[r].row.worker}
                  ELSE cleared
  /\ req' = [req EXCEPT ![r] = Idle]
  /\ UNCHANGED <<approved, attended>>

(* A refusal, a violated constraint, a crash: the request rolls back. *)
Abort(r) ==
  /\ req[r] # Idle
  /\ req' = [req EXCEPT ![r] = Idle]
  /\ UNCHANGED <<approved, verified, cleared, attended>>

(* Mutant of CheckIn: the gate tests the approval instead of the flag. *)
CheckInApproved(w, s) ==
  /\ w \in approved
  /\ attended' = attended \cup {<<w, s>>}
  /\ UNCHANGED <<approved, verified, cleared, req>>

(* What check_in asks of the worker and what it does to the verification   *)
(* side: nothing.  The booking's side of it is CheckIn of module Booking.  *)
CheckIn(w, s) ==
  /\ w \in cleared
  /\ attended' = attended \cup {<<w, s>>}
  /\ UNCHANGED <<approved, verified, cleared, req>>

(* Onboarding approves a worker, or takes an approval back. *)
ReviewWorker(w) ==
  /\ approved' = IF w \in approved THEN approved \ {w} ELSE approved \cup {w}
  /\ UNCHANGED <<verified, cleared, attended, req>>

VerifyStep(r) ==
  \/ \E v \in Records : LoadWorker(r, v)
  \/ FindNone(r)
  \/ Insert(r)
  \/ ListRecords(r)
  \/ Commit(r)
  \/ Abort(r)

Next ==
  \/ \E r \in Requests : VerifyStep(r)
  \/ \E w \in Workers, s \in Schools : CheckIn(w, s)
  \/ \E w \in Workers : ReviewWorker(w)

Spec == Init /\ [][Next]_vars

-----------------------------------------------------------------------------
(* Type invariant.  Only a request that counted the records can take its   *)
(* own for the first.                                                      *)
TypeOK ==
  /\ approved \in SUBSET Workers
  /\ verified \in SUBSET Records
  /\ cleared \in SUBSET Workers
  /\ attended \in SUBSET (Workers \X Schools)
  /\ req \in [Requests -> InFlight \cup {Idle}]
  /\ \A r \in Requests :
       req[r] # Idle /\ req[r].first => req[r].pc = "commit"

(* The flag and the records never part: a worker is cleared if and only if *)
(* at least one verification was committed.  Two first verifications that  *)
(* overlap must not each take the other for the first, or the worker could *)
(* never be cleared again (first_shift.py, verify_first_shift).            *)
ClearedIffVerified ==
  \A w \in Workers : w \in cleared <=> RecordsOf(w) # {}

(* A worker is verified at most once per school, whatever the record says, *)
(* although the existence check and the insert are two statements.         *)
OneRecordPerSchool ==
  \A u, v \in verified : SamePair(u, v) => u = v

(* Nobody was ever checked in without a verification in the trust: the     *)
(* comment of the gate in check_in.                                        *)
AttendedWasVerified ==
  \A w \in Workers, s \in Schools :
    <<w, s>> \in attended => RecordsOf(w) # {}

(* A worker attends a shift only after somebody sighted the certificate    *)
(* and confirmed that it matches: what first_shift.py says a verification  *)
(* is.                                                                     *)
AttendedWasMatched ==
  \A w \in Workers, s \in Schools :
    <<w, s>> \in attended => \E v \in RecordsOf(w) : v.matched
(* Verifications that overlap, each of several queries, are as good as     *)
(* ones that run at once, when they commit: a record and its worker's      *)
(* clearance appear in one step, no school records a worker twice, nothing *)
(* is ever taken back, and the gate of check_in looks at the records even  *)
(* though the code looks at the flag (first_shift.py, verify_first_shift;  *)
(* attendance.py, check_in).                                               *)
Register == INSTANCE FirstShiftRegister

ImplementsRegister == Register!Spec
=============================================================================
