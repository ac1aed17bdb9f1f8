-------------------------- MODULE FirstShiftProofs --------------------------
(***************************************************************************)
(* What module FirstShift states, proved for any workers, schools and      *)
(* number of overlapping requests.                                         *)
(***************************************************************************)
EXTENDS FirstShift, TLAPS

(* What a request in flight knows stays true until it commits: the pair it *)
(* inserted is its own, a worker it saw cleared is cleared, and one it did *)
(* not count as new has a record.                                          *)
KnowledgeHolds ==
  \A r \in Requests : req[r] # Idle =>
    /\ req[r].sawCleared => req[r].row.worker \in cleared
    /\ req[r].pc = "commit" /\ ~req[r].first
         => RecordsOf(req[r].row.worker) # {}

(* Two requests that inserted a record inserted different pairs, and none  *)
(* of them is the pair of a committed record.                              *)
InsertedApart ==
  \A r \in Requests : Inserted(r) =>
    /\ ~\E v \in verified : SamePair(v, req[r].row)
    /\ \A s \in Requests \ {r} :
         Inserted(s) => ~SamePair(req[s].row, req[r].row)

(* The inductive invariant. *)
IInv ==
  /\ TypeOK
  /\ KnowledgeHolds
  /\ InsertedApart
  /\ ClearedIffVerified
  /\ OneRecordPerSchool
  /\ AttendedWasVerified

(* Whatever the requests do, the state keeps its types. *)
THEOREM TypeCorrect == Spec => []TypeOK
<1>1. Init => TypeOK
  BY DEF Init, TypeOK
<1>2. TypeOK /\ [Next]_vars => TypeOK'
  <2> SUFFICES ASSUME TypeOK, [Next]_vars PROVE TypeOK'
    OBVIOUS
  <2>1. ASSUME NEW r \in Requests, VerifyStep(r) PROVE TypeOK'
    <3> USE IdleAssumption DEF TypeOK, InFlight, Records, Step
    <3>1. ASSUME NEW v \in Records, LoadWorker(r, v) PROVE TypeOK'
      <4>1. (v.worker \in cleared) \in BOOLEAN
        OBVIOUS
      <4>2. QED
        BY <3>1, <4>1, Zenon DEF LoadWorker
    <3>2. CASE FindNone(r)
      BY <3>2 DEF FindNone
    <3>3. CASE Insert(r)
      BY <3>3 DEF Insert
    <3>4. CASE ListRecords(r)
      <4> DEFINE q == [req[r] EXCEPT
                         !.pc = "commit",
                         !.first = RecordsOf(req[r].row.worker) = {}]
      <4>1. req' = [req EXCEPT ![r] = q]
        BY <3>4 DEF ListRecords
      <4>2. req[r] \in InFlight
        BY <3>4 DEF ListRecords
      <4>3. q \in InFlight
        <5>1. (RecordsOf(req[r].row.worker) = {}) \in BOOLEAN
          OBVIOUS
        <5>2. \A f \in BOOLEAN :
                [req[r] EXCEPT !.pc = "commit", !.first = f] \in InFlight
          BY <4>2
        <5>3. QED
          BY <5>1, <5>2, Zenon
      <4>4. q.pc = "commit"
        BY <4>2
      <4> HIDE DEF q
      <4>5. req' \in [Requests -> InFlight \cup {Idle}]
        BY <4>1, <4>3
      <4>6. ASSUME NEW s \in Requests, req'[s] # Idle, req'[s].first
            PROVE  req'[s].pc = "commit"
        <5>1. CASE s = r
          BY <4>1, <4>4, <5>1
        <5>2. CASE s # r
          BY <4>1, <4>6, <5>2
        <5>3. QED
          BY <5>1, <5>2
      <4>7. UNCHANGED <<approved, verified, cleared, attended>>
        BY <3>4 DEF ListRecords
      <4>8. QED
        BY <4>5, <4>6, <4>7
    <3>5. CASE Commit(r)
      BY <3>5 DEF Commit
    <3>6. CASE Abort(r)
      BY <3>6 DEF Abort
    <3>7. QED
      BY <2>1, <3>1, <3>2, <3>3, <3>4, <3>5, <3>6 DEF VerifyStep
  <2>2. ASSUME NEW w \in Workers, NEW s \in Schools, CheckIn(w, s)
        PROVE TypeOK'
    BY <2>2 DEF CheckIn, TypeOK
  <2>3. ASSUME NEW w \in Workers, ReviewWorker(w) PROVE TypeOK'
    BY <2>3 DEF ReviewWorker, TypeOK
  <2>4. CASE UNCHANGED vars
    BY <2>4 DEF vars, TypeOK
  <2>5. QED
    BY <2>1, <2>2, <2>3, <2>4 DEF Next
<1>3. QED
  BY <1>1, <1>2, PTL DEF Spec

-----------------------------------------------------------------------------
Safe ==
  /\ KnowledgeHolds
  /\ InsertedApart
  /\ ClearedIffVerified
  /\ OneRecordPerSchool
  /\ AttendedWasVerified

(* A commit adds one record, of a pair that is new, and leaves its worker  *)
(* cleared: the request counted it as the first, or the worker is known    *)
(* to be cleared already.                                                  *)
LEMMA CommitEffect ==
  ASSUME IInv, NEW r \in Requests, Commit(r)
  PROVE  /\ req[r] \in InFlight /\ req[r] # Idle /\ req[r].pc = "commit"
         /\ req[r].row \in Records
         /\ ~\E v \in verified : SamePair(v, req[r].row)
         /\ verified' = verified \cup {req[r].row}
         /\ cleared' = cleared \cup {req[r].row.worker}
         /\ req' = [req EXCEPT ![r] = Idle]
         /\ UNCHANGED attended
<1> DEFINE w == req[r].row.worker
<1>1. /\ req[r] \in InFlight
      /\ req[r] # Idle
      /\ req[r].pc = "commit"
  BY IdleAssumption DEF Commit, Step, IInv, TypeOK
<1>2. req[r].row \in Records /\ w \in Workers
  BY <1>1 DEF InFlight, Records
<1>3. cleared' = cleared \cup {w}
  <2>1. CASE req[r].first /\ ~req[r].sawCleared
    BY <2>1 DEF Commit
  <2>2. CASE req[r].sawCleared
    BY <1>1, <2>2 DEF IInv, KnowledgeHolds, Commit
  <2>3. CASE ~req[r].first
    BY <1>1, <1>2, <2>3
       DEF IInv, KnowledgeHolds, ClearedIffVerified, Commit
  <2>4. QED
    BY <1>1, <2>1, <2>2, <2>3 DEF InFlight
<1>4. ~\E v \in verified : SamePair(v, req[r].row)
  BY <1>1 DEF IInv, InsertedApart, Inserted
<1>5. QED
  BY <1>1, <1>2, <1>3, <1>4 DEF Commit

(* Hence it keeps the invariant. *)
LEMMA CommitSafe ==
  ASSUME IInv, NEW r \in Requests, Commit(r)
  PROVE  Safe'
<1> DEFINE v == req[r].row
           w == v.worker
<1>1. /\ req[r] \in InFlight
      /\ req[r] # Idle
      /\ req[r].pc = "commit"
  BY CommitEffect
<1>2. v \in Records /\ w \in Workers
  BY CommitEffect DEF Records
<1>3. /\ verified' = verified \cup {v}
      /\ req' = [req EXCEPT ![r] = Idle]
      /\ UNCHANGED attended
  BY CommitEffect
<1>4. \A x \in Workers : RecordsOf(x)' =
        IF x = w THEN RecordsOf(x) \cup {v} ELSE RecordsOf(x)
  BY <1>2, <1>3 DEF RecordsOf
<1>5. w \in cleared' /\ cleared' = cleared \cup {w}
  BY CommitEffect
<1>6. KnowledgeHolds'
  <2> SUFFICES ASSUME NEW s \in Requests, req'[s] # Idle
               PROVE  /\ req'[s].sawCleared => req'[s].row.worker \in cleared'
                      /\ req'[s].pc = "commit" /\ ~req'[s].first
                           => RecordsOf(req[s].row.worker)' # {}
    BY <1>3 DEF KnowledgeHolds, IInv, TypeOK
  <2>1. s # r /\ req'[s] = req[s]
    BY <1>3 DEF IInv, TypeOK
  <2>2. RecordsOf(req[s].row.worker) # {} =>
          RecordsOf(req[s].row.worker)' # {}
    BY <1>3 DEF RecordsOf
  <2>3. QED
    BY <1>5, <2>1, <2>2 DEF IInv, KnowledgeHolds
<1>7. InsertedApart'
  BY <1>1, <1>3 DEF InsertedApart, Inserted, SamePair, IInv, TypeOK
<1>8. ClearedIffVerified'
  BY <1>2, <1>4, <1>5 DEF ClearedIffVerified, IInv
<1>9. OneRecordPerSchool'
  BY <1>1, <1>3 DEF OneRecordPerSchool, InsertedApart, Inserted, SamePair, IInv
<1>10. AttendedWasVerified'
  BY <1>3, <1>4 DEF AttendedWasVerified, IInv
<1>11. QED
  BY <1>6, <1>7, <1>8, <1>9, <1>10 DEF Safe

(* The steps of a request before its commit leave the tables alone.        *)
LEMMA RequestSafe ==
  ASSUME IInv, NEW r \in Requests,
         \/ \E v \in Records : LoadWorker(r, v)
         \/ FindNone(r) \/ Insert(r) \/ ListRecords(r) \/ Abort(r)
  PROVE  Safe'
<1>1. UNCHANGED <<verified, cleared, attended>>
  BY DEF LoadWorker, FindNone, Insert, ListRecords, Abort
<1>2. /\ \A x : RecordsOf(x)' = RecordsOf(x)
      /\ ClearedIffVerified' /\ OneRecordPerSchool' /\ AttendedWasVerified'
  BY <1>1 DEF RecordsOf, IInv, ClearedIffVerified, OneRecordPerSchool,
     AttendedWasVerified
<1>3. \A s \in Requests \ {r} : req'[s] = req[s]
  BY DEF LoadWorker, FindNone, Insert, ListRecords, Abort, IInv, TypeOK
<1>4. KnowledgeHolds'
  <2>1. req'[r] # Idle =>
          /\ req'[r].sawCleared => req'[r].row.worker \in cleared
          /\ req'[r].pc = "commit" /\ ~req'[r].first
               => RecordsOf(req'[r].row.worker) # {}
    <3> USE DEF IInv, TypeOK, InFlight, Step, KnowledgeHolds
    <3>1. ASSUME NEW v \in Records, LoadWorker(r, v)
          PROVE  /\ req'[r].sawCleared => req'[r].row.worker \in cleared
                 /\ req'[r].pc # "commit"
      BY <3>1 DEF LoadWorker
    <3>2. CASE FindNone(r)
      BY <3>2 DEF FindNone
    <3>3. CASE Insert(r)
      BY <3>3 DEF Insert
    <3>4. CASE ListRecords(r)
      BY <3>4 DEF ListRecords
    <3>5. CASE Abort(r)
      BY <3>5 DEF Abort
    <3>6. QED
      BY <3>1, <3>2, <3>3, <3>4, <3>5
  <2>2. QED
    BY <1>1, <1>2, <1>3, <2>1 DEF KnowledgeHolds, IInv
<1>5. InsertedApart'
  <2>1. CASE Insert(r)
    <3>1. req'[r].row = req[r].row /\ req'[r].pc = "list"
      BY <2>1 DEF Insert, Step, IInv, TypeOK, InFlight
    <3>2. QED
      BY <1>1, <1>3, <2>1, <3>1
         DEF Insert, InsertedApart, Inserted, SamePair, IInv
  <2>2. CASE ~Insert(r)
    <3>1. Inserted(r)' => Inserted(r) /\ req'[r].row = req[r].row
      BY <2>2 DEF Inserted, LoadWorker, FindNone, ListRecords, Abort, Step,
         IInv, TypeOK, InFlight
    <3>2. QED
      BY <1>1, <1>3, <3>1 DEF InsertedApart, Inserted, SamePair, IInv
  <2>3. QED
    BY <2>1, <2>2
<1>6. QED
  BY <1>2, <1>4, <1>5 DEF Safe

(* Every reachable state satisfies IInv: the cleared workers are those     *)
(* with a committed verification, whatever overlaps.                       *)
THEOREM Invariance == Spec => []IInv
<1>1. Init => Safe
  BY DEF Init, Safe, KnowledgeHolds, InsertedApart, Inserted,
         ClearedIffVerified, RecordsOf, OneRecordPerSchool,
         AttendedWasVerified
<1>2. TypeOK /\ Safe /\ [Next]_vars => Safe'
  <2> SUFFICES ASSUME TypeOK, Safe, [Next]_vars PROVE Safe'
    OBVIOUS
  <2>0. IInv
    BY DEF IInv, Safe
  <2>1. ASSUME NEW r \in Requests, VerifyStep(r) PROVE Safe'
    BY <2>0, <2>1, CommitSafe, RequestSafe DEF VerifyStep
  <2>2. ASSUME NEW w \in Workers, NEW s \in Schools, CheckIn(w, s)
        PROVE Safe'
    <3>1. UNCHANGED <<verified, cleared, req>> /\ w \in cleared
      BY <2>2 DEF CheckIn
    <3>2. AttendedWasVerified'
      BY <2>2, <3>1
         DEF CheckIn, Safe, ClearedIffVerified, AttendedWasVerified, RecordsOf
    <3>3. QED
      BY <3>1, <3>2 DEF Safe, KnowledgeHolds, InsertedApart, Inserted,
         SamePair, ClearedIffVerified, RecordsOf, OneRecordPerSchool
  <2>3. CASE (\E w \in Workers : ReviewWorker(w)) \/ UNCHANGED vars
    BY <2>3 DEF ReviewWorker, vars, Safe, KnowledgeHolds, InsertedApart,
       Inserted, SamePair, ClearedIffVerified, RecordsOf, OneRecordPerSchool,
       AttendedWasVerified
  <2>4. QED
    BY <2>1, <2>2, <2>3 DEF Next
<1>3. TypeOK /\ Safe <=> IInv
  BY DEF IInv, Safe
<1>4. QED
  BY <1>1, <1>2, <1>3, TypeCorrect, PTL DEF Spec

(* However verifications overlap, the flag check-in tests is set exactly   *)
(* for the workers somebody verified (verify_first_shift).                 *)
THEOREM FlagMatchesRecords == Spec => []ClearedIffVerified
BY Invariance, PTL DEF IInv

(* A worker has at most one verification per school, although the service  *)
(* checks and inserts in two statements (verify_first_shift, migration     *)
(* 0002).                                                                  *)
THEOREM RecordsAreUnique == Spec => []OneRecordPerSchool
BY Invariance, PTL DEF IInv

(* Whoever was checked in had been verified, since neither the flag nor a  *)
(* record is ever taken back (check_in).                                   *)
THEOREM AttendanceVerified == Spec => []AttendedWasVerified
BY Invariance, PTL DEF IInv
-----------------------------------------------------------------------------
(* Overlapping verifications implement a register that records and clears  *)
(* in one step.  A request takes effect when it commits; everything it did *)
(* before is invisible.                                                    *)
THEOREM RegisterRefinement == Spec => ImplementsRegister
<1>1. Init => Register!Init
  BY DEF Init, Register!Init
<1>2. IInv /\ [Next]_vars => [Register!Next]_(Register!registerVars)
  <2> SUFFICES ASSUME IInv, [Next]_vars
               PROVE  Register!Next \/ UNCHANGED Register!registerVars
    OBVIOUS
  <2>1. ASSUME NEW r \in Requests, Commit(r) PROVE Register!Next
    <3> DEFINE v == req[r].row
    <3>1. /\ v \in Records /\ ~\E u \in verified : SamePair(u, v)
          /\ verified' = verified \cup {v} /\ cleared' = cleared \cup {v.worker}
          /\ UNCHANGED attended
      BY <2>1, CommitEffect
    <3>2. /\ v.worker \in Workers /\ v.school \in Schools /\ v.matched \in BOOLEAN
          /\ v = [worker |-> v.worker, school |-> v.school, matched |-> v.matched]
      BY <3>1 DEF Records
    <3> HIDE DEF v
    <3>3. Register!Verify(v.worker, v.school, v.matched)
      BY <3>1, <3>2 DEF Register!Verify, SamePair
    <3>4. QED
      BY <3>2, <3>3 DEF Register!Next
  <2>2. ASSUME NEW w \in Workers, NEW s \in Schools, CheckIn(w, s)
        PROVE  Register!Next
    <3>1. RecordsOf(w) # {}
      BY <2>2 DEF CheckIn, IInv, ClearedIffVerified
    <3>2. Register!Attend(w, s)
      BY <2>2, <3>1 DEF CheckIn, RecordsOf, Register!Attend
    <3>3. QED
      BY <3>2 DEF Register!Next
  <2>3. ASSUME \/ \E r \in Requests, v \in Records : LoadWorker(r, v)
               \/ \E r \in Requests : \/ FindNone(r) \/ Insert(r)
                                      \/ ListRecords(r) \/ Abort(r)
               \/ \E w \in Workers : ReviewWorker(w)
               \/ UNCHANGED vars
        PROVE  UNCHANGED Register!registerVars
    BY <2>3 DEF LoadWorker, FindNone, Insert, ListRecords, Abort, ReviewWorker,
       vars, Register!registerVars
  <2>4. QED
    BY <2>1, <2>2, <2>3 DEF Next, VerifyStep
<1>3. QED
  BY <1>1, <1>2, Invariance, PTL DEF Spec, ImplementsRegister, Register!Spec
=============================================================================
