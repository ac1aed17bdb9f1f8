-------------------------- MODULE DocumentsProofs --------------------------
(***************************************************************************)
(* What modules Onboarding and Documents state, proved for any documents,  *)
(* types, dates and number of overrides.                                   *)
(***************************************************************************)
EXTENDS Documents, WellFoundedInduction, TLAPS

(* A set of days that is not empty has a first one. *)
LEMMA FirstDay ==
  ASSUME NEW E \in SUBSET Nat, E # {}
  PROVE  \E x \in E : \A y \in E : x <= y
<1>1. \E x \in E : \A y \in E : <<y, x>> \notin OpToRel(<, Nat)
  BY NatLessThanWellFounded, WFMin
<1>2. \A x, y \in E : y < x => <<y, x>> \in OpToRel(<, Nat)
  BY DEF OpToRel
<1>3. \A x, y \in E : ~ (y < x) => x <= y
  OBVIOUS
<1>4. QED
  BY <1>1, <1>2, <1>3

(* refresh_compliance_expiry stores the first of the expiries. *)
LEMMA EarliestIsEarliest ==
  ASSUME NEW ds \in [Docs -> Documents \cup {None}]
  PROVE  /\ EarliestExpiry(ds) \in Dates \cup {NoDate}
         /\ Expiries(ds) # {} =>
              /\ EarliestExpiry(ds) \in Dates
              /\ \A x \in Expiries(ds) : EarliestExpiry(ds) <= x
<1>1. Expiries(ds) \subseteq Dates
  BY DocumentAssumption DEF Expiries, Recorded, Documents
<1>2. Expiries(ds) # {} =>
        \E x \in Expiries(ds) : \A y \in Expiries(ds) : x <= y
  BY <1>1, FirstDay, DatesAssumption
<1>3. QED
  BY <1>1, <1>2 DEF EarliestExpiry

(* An onboarding request writes a profile and its note, and leaves the     *)
(* expiry alone.                                                           *)
LEMMA OnboardingTypes ==
  ASSUME OnboardingTypeOK, OnboardingStep
  PROVE  /\ worker' \in Profiles
         /\ noted' \in OnboardingStatuses \cup {None}
         /\ worker # None => worker'.expires = worker.expires
         /\ NotesTellStatus => NotesTellStatus'
<1> USE ProfileAssumption, NoneAssumption
    DEF OnboardingTypeOK, Profiles, OnboardingStatuses, ComplianceStages,
        NotesTellStatus
<1>1. ASSUME NEW columns \in Profiles, columns.expires = worker.expires,
             NEW to \in OnboardingStatuses \ {"draft"}, Move(to, columns)
      PROVE  /\ worker' \in Profiles
             /\ noted' \in OnboardingStatuses \cup {None}
             /\ worker'.expires = worker.expires
             /\ NotesTellStatus'
  BY <1>1 DEF Move, Record
<1>2. CASE CreateProfile
  BY <1>2 DEF CreateProfile, NewProfile
<1>3. CASE SubmitForReview
  <2>1. worker \in Profiles
    BY <1>3 DEF SubmitForReview, Move
  <2>2. QED
    BY <1>3, <2>1, <1>1 DEF SubmitForReview
<1>4. CASE StartReview
  <2>1. worker \in Profiles
    BY <1>4 DEF StartReview, Move
  <2>2. QED
    BY <1>4, <2>1, <1>1 DEF StartReview
<1>5. CASE ApproveWorker
  <2>1. worker \in Profiles
    BY <1>5 DEF ApproveWorker, Move
  <2>2. QED
    BY <1>5, <2>1, <1>1 DEF ApproveWorker
<1>6. CASE RejectWorker
  <2>1. worker \in Profiles
    BY <1>6 DEF RejectWorker, Move
  <2>2. QED
    BY <1>6, <2>1, <1>1 DEF RejectWorker
<1>7. CASE SuspendWorker
  <2>1. worker \in Profiles
    BY <1>7 DEF SuspendWorker, Move
  <2>2. QED
    BY <1>7, <2>1, <1>1 DEF SuspendWorker
<1>8. CASE ReinstateWorker
  <2>1. worker \in Profiles
    BY <1>8 DEF ReinstateWorker, Move
  <2>2. QED
    BY <1>8, <2>1, <1>1 DEF ReinstateWorker
<1>9. CASE MarkExpired
  <2>1. worker \in Profiles
    BY <1>9 DEF MarkExpired, Move
  <2>2. QED
    BY <1>9, <2>1, <1>1 DEF MarkExpired
<1>10. CASE SetAmber \/ ClearAmber
  <2>1. worker \in Profiles
    BY <1>10 DEF SetAmber, ClearAmber
  <2>2. CASE SetAmber
    BY <2>1, <2>2 DEF SetAmber
  <2>3. CASE ClearAmber
    BY <2>1, <2>3 DEF ClearAmber
  <2>4. QED
    BY <1>10, <2>2, <2>3
<1>11. CASE SubmitOwnApplication
  <2>1. worker \in Profiles
    BY <1>11 DEF SubmitOwnApplication
  <2>2. QED
    BY <1>11, <2>1 DEF SubmitOwnApplication
<1>12. QED
  BY <1>2, <1>3, <1>4, <1>5, <1>6, <1>7, <1>8, <1>9, <1>10, <1>11
     DEF OnboardingStep, OnboardingRoute

-----------------------------------------------------------------------------
(* A review writes the status of one recorded document and nothing else of *)
(* the documents.                                                          *)
LEMMA SetStatusEffect ==
  ASSUME TypeOK, NEW d \in Docs, NEW from, NEW to \in DocumentStatuses,
         SetStatus(d, from, to)
  PROVE  /\ docs' \in [Docs -> Documents \cup {None}]
         /\ Recorded(docs') = Recorded(docs)
         /\ d \in Recorded(docs)
         /\ docs'[d].status = to
         /\ \A e \in Docs : e # d => docs'[e] = docs[e]
         /\ \A e \in Recorded(docs) :
              /\ docs'[e].type = docs[e].type
              /\ docs'[e].version = docs[e].version
              /\ docs'[e].supersedes = docs[e].supersedes
              /\ docs'[e].expiry = docs[e].expiry
<1> USE DocumentAssumption DEF TypeOK, Documents, SetStatus, Recorded
<1>1. docs[d] \in Documents /\ [docs[d] EXCEPT !.status = to] \in Documents
  OBVIOUS
<1>2. docs' = [docs EXCEPT ![d] = [docs[d] EXCEPT !.status = to]]
  OBVIOUS
<1>3. /\ docs' \in [Docs -> Documents \cup {None}]
      /\ \A e \in Docs : e # d => docs'[e] = docs[e]
      /\ docs'[d] = [docs[d] EXCEPT !.status = to]
  BY <1>1, <1>2
<1>4. docs'[d] # None
  BY <1>1, <1>3
<1>5. Recorded(docs') = Recorded(docs) /\ d \in Recorded(docs)
  BY <1>1, <1>3, <1>4
<1>6. QED
  BY <1>1, <1>3, <1>5

(* What a review and an upload leave of the other conjuncts of TypeOK. *)
LEMMA StageTypes ==
  ASSUME NEW ds, NEW stage \in ComplianceStages
  PROVE  RecalculatedStage(ds, stage) \in ComplianceStages
BY DEF RecalculatedStage, ComplianceStages

(* The writes of the four review operations, in common. *)
Reviewed(d, to) ==
  /\ \E from \in SUBSET DocumentStatuses : SetStatus(d, from, to)
  /\ worker' \in Profiles \cup {None}
  /\ worker # None => worker' # None
  /\ noted' = noted
  /\ worker # None => worker'.status = worker.status
  /\ overridden' \in {overridden, overridden \cup {d}}
  /\ \/ worker'.expires = EarliestExpiry(docs')
     \/ worker' = worker /\ to # "approved"
     \/ worker'.expires = worker.expires /\ to # "approved"
  /\ to # "superseded"
  /\ \/ d \in overridden'
     \/ to # "pending_upload" /\ docs[d].status # "superseded"

(* Each review gives one document a status and recomputes the profile or not. *)
LEMMA ReviewIsReviewed ==
  ASSUME TypeOK, NEW d \in Docs, ReviewRoute(d)
  PROVE  \E to \in DocumentStatuses : Reviewed(d, to)
<1>1. docs[d] # None /\ worker \in Profiles
  BY DEF TypeOK, OnboardingTypeOK, ReviewRoute, ApproveDocument,
         RejectDocument, RequestReupload, OverrideStatus, SetStatus, Recorded
<1>2. Reviewable \subseteq DocumentStatuses \ {"superseded"}
  BY DEF Reviewable, DocumentStatuses
<1>3. ASSUME NEW to \in DocumentStatuses, NEW from, SetStatus(d, from, to)
      PROVE  EarliestExpiry(docs') \in Dates \cup {NoDate}
  BY <1>3, SetStatusEffect, EarliestIsEarliest
<1>4. CASE ApproveDocument(d)
  <2>1. "approved" \in DocumentStatuses
    BY DEF DocumentStatuses
  <2>2. EarliestExpiry(docs') \in Dates \cup {NoDate}
    BY <1>3, <1>4, <2>1 DEF ApproveDocument
  <2>3. RecalculatedStage(docs', worker.stage) \in ComplianceStages
    BY <1>1, StageTypes DEF Profiles
  <2>4. worker' \in Profiles /\ worker'.expires = EarliestExpiry(docs')
          /\ worker'.status = worker.status
    BY <1>1, <1>4, <2>2, <2>3 DEF ApproveDocument, Profiles
  <2>5. Reviewed(d, "approved")
    BY <1>1, <1>2, <1>4, <2>4, ProfileAssumption
       DEF ApproveDocument, Reviewed, SetStatus, Reviewable
  <2>6. QED
    BY <2>1, <2>5
<1>5. CASE RejectDocument(d) \/ RequestReupload(d)
  <2>1. "rejected" \in DocumentStatuses
    BY DEF DocumentStatuses
  <2>2. Reviewed(d, "rejected")
    BY <1>1, <1>2, <1>5, <2>1
       DEF RejectDocument, RequestReupload, Reviewed, SetStatus, Reviewable
  <2>3. QED
    BY <2>1, <2>2
<1>6. ASSUME NEW to \in DocumentStatuses, OverrideStatus(d, to)
      PROVE  Reviewed(d, to)
  <2>1. EarliestExpiry(docs') \in Dates \cup {NoDate}
    BY <1>3, <1>6 DEF OverrideStatus
  <2>2. RecalculatedStage(docs', worker.stage) \in ComplianceStages
    BY <1>1, StageTypes DEF Profiles
  <2>3. /\ worker' \in Profiles
        /\ worker'.status = worker.status
        /\ \/ to = "approved" /\ worker'.expires = EarliestExpiry(docs')
           \/ to # "approved" /\ worker'.expires = worker.expires
    BY <1>1, <1>6, <2>1, <2>2 DEF OverrideStatus, Profiles
  <2>4. overridden' = overridden \cup {d} /\ noted' = noted /\ to # "superseded"
    BY <1>6 DEF OverrideStatus
  <2>5. QED
    BY <1>1, <1>6, <2>3, <2>4, ProfileAssumption
       DEF OverrideStatus, Reviewed
<1>7. QED
  BY <1>4, <1>5, <1>6 DEF ReviewRoute

(* An upload records one document, superseding at most one. *)
Uploaded(d, t, e) ==
  /\ d \in Docs /\ docs[d] = None
  /\ e \in Latest(t) \cup {None}
  /\ docs'[d].type = t /\ docs'[d].status = "uploaded"
  /\ docs'[d].supersedes = e
  /\ e = None => \/ CurrentOf(t) = {}
                 \/ \E f \in Latest(t) : docs[f].status = "pending_upload"
  /\ e # None => /\ docs'[d].version > docs[e].version
                 /\ docs'[e].status = "superseded"
                 /\ docs'[e].type = docs[e].type
                 /\ docs'[e].version = docs[e].version
                 /\ docs'[e].supersedes = docs[e].supersedes
  /\ \A f \in Docs \ {d, e} : docs'[f] = docs[f]

(* The latest version is a current document of the type. *)
LEMMA LatestIsCurrent ==
  ASSUME NEW t, NEW e \in Latest(t)
  PROVE  e \in Docs /\ e \in Recorded(docs) /\ docs[e].type = t
           /\ docs[e].status # "superseded"
BY DEF Latest, CurrentOf, Current, Recorded

(* What an upload does to the documents and to the profile. *)
LEMMA UploadEffect ==
  ASSUME TypeOK, NEW d \in Docs, NEW t \in Types,
         NEW x \in Dates \cup {NoDate}, RecordUpload(d, t, x)
  PROVE  /\ docs' \in [Docs -> Documents \cup {None}]
         /\ worker' \in Profiles /\ worker'.expires = worker.expires
         /\ worker \in Profiles /\ worker'.status = worker.status
         /\ Recorded(docs') = Recorded(docs) \cup {d}
         /\ \E e : Uploaded(d, t, e)
<1> USE DocumentAssumption DEF Documents, DocumentStatuses
<1>1. /\ worker \in Profiles /\ worker' \in Profiles
      /\ worker'.expires = worker.expires /\ worker'.status = worker.status
  BY DEF RecordUpload, TypeOK, OnboardingTypeOK, Profiles, ComplianceStages
<1>2. docs \in [Docs -> Documents \cup {None}] /\ docs[d] = None
  BY DEF RecordUpload, TypeOK
<1>3. CASE docs' = [docs EXCEPT ![d] = NewDocument(t, x, 1, None)]
           /\ \/ CurrentOf(t) = {}
              \/ \E e \in Latest(t) : docs[e].status = "pending_upload"
  <2>1. NewDocument(t, x, 1, None) \in Documents
    BY DEF NewDocument
  <2>2. /\ docs' \in [Docs -> Documents \cup {None}]
        /\ Recorded(docs') = Recorded(docs) \cup {d}
    BY <1>2, <1>3, <2>1 DEF Recorded
  <2>3. Uploaded(d, t, None)
    BY <1>2, <1>3 DEF Uploaded, NewDocument
  <2>4. QED
    BY <1>1, <2>2, <2>3
<1>4. ASSUME NEW e \in Latest(t),
             docs' = [docs EXCEPT
               ![d] = NewDocument(t, x, docs[e].version + 1, e),
               ![e].status = "superseded"]
      PROVE  /\ docs' \in [Docs -> Documents \cup {None}]
             /\ Recorded(docs') = Recorded(docs) \cup {d}
             /\ Uploaded(d, t, e)
  <2>1. e \in Docs /\ docs[e] # None /\ e # d /\ e # None
    BY <1>2, LatestIsCurrent, DocsAssumption DEF Recorded
  <2>2. docs[e] \in Documents
    BY <1>2, <2>1
  <2>3. NewDocument(t, x, docs[e].version + 1, e) \in Documents
    BY <2>1, <2>2 DEF NewDocument
  <2>4. [docs[e] EXCEPT !.status = "superseded"] \in Documents
    BY <2>2
  <2>5. /\ docs'[d] = NewDocument(t, x, docs[e].version + 1, e)
        /\ docs'[e] = [docs[e] EXCEPT !.status = "superseded"]
        /\ \A f \in Docs \ {d, e} : docs'[f] = docs[f]
        /\ DOMAIN docs' = Docs
        /\ docs' = [f \in Docs |-> docs'[f]]
    BY <1>2, <1>4, <2>1
  <2>6. docs' \in [Docs -> Documents \cup {None}]
    <3>1. \A f \in Docs : docs'[f] \in Documents \cup {None}
      BY <1>2, <2>3, <2>4, <2>5
    <3>2. QED
      BY <3>1, <2>5
  <2>7. Recorded(docs') = Recorded(docs) \cup {d}
    <3>1. docs'[d] # None /\ docs'[e] # None
      BY <2>3, <2>4, <2>5
    <3>2. QED
      BY <2>1, <2>5, <3>1 DEF Recorded
  <2>8. Uploaded(d, t, e)
    BY <1>2, <2>1, <2>2, <2>5 DEF Uploaded, NewDocument
  <2>9. QED
    BY <2>6, <2>7, <2>8
<1>5. QED
  BY <1>1, <1>3, <1>4 DEF RecordUpload

-----------------------------------------------------------------------------
(* The state of the profile and the documents keeps its types. *)
THEOREM TypeCorrect == Spec => []TypeOK
<1>1. Init => TypeOK
  BY NoneAssumption DEF Init, OnboardingInit, TypeOK, OnboardingTypeOK,
                        Recorded
<1>2. TypeOK /\ [Next]_vars => TypeOK'
  <2> SUFFICES ASSUME TypeOK, [Next]_vars PROVE TypeOK'
    OBVIOUS
  <2>1. CASE OnboardingStep /\ UNCHANGED docVars
    BY <2>1, OnboardingTypes, ProfileAssumption
       DEF TypeOK, OnboardingTypeOK, docVars, Recorded
  <2>2. ASSUME NEW d \in Docs, NEW t \in Types,
               NEW x \in Dates \cup {NoDate}, RecordUpload(d, t, x)
        PROVE  TypeOK'
    <3>1. PICK e : Uploaded(d, t, e)
      BY <2>2, UploadEffect
    <3>2. /\ docs' \in [Docs -> Documents \cup {None}]
          /\ worker' \in Profiles
          /\ Recorded(docs') = Recorded(docs) \cup {d}
          /\ overridden' = overridden /\ noted' = noted
      BY <2>2, UploadEffect DEF RecordUpload
    <3>3. e # None => e \in Recorded(docs) /\ docs[e].type = t
      BY <3>1, LatestIsCurrent DEF Uploaded
    <3>4. ASSUME NEW f \in Recorded(docs'), docs'[f].supersedes # None
          PROVE  /\ docs'[docs'[f].supersedes] # None
                 /\ docs'[docs'[f].supersedes].type = docs'[f].type
                 /\ docs'[docs'[f].supersedes].version < docs'[f].version
      <4>1. \A g \in Recorded(docs) :
              /\ g # d /\ docs'[g].supersedes = docs[g].supersedes
              /\ docs'[g].type = docs[g].type
              /\ docs'[g].version = docs[g].version
        BY <3>1, <3>3, DocsAssumption DEF Uploaded, Recorded
      <4>2. CASE f = d
        <5>1. docs'[f].supersedes = e /\ e # None /\ docs'[f].type = t
                /\ docs'[f].version > docs[e].version
          BY <3>1, <3>4, <4>2 DEF Uploaded
        <5>2. docs'[e].version < docs'[f].version /\ docs'[e].type = t
          <6>1. docs[e].version \in Nat /\ docs'[d].version \in Nat
            BY <3>2, <3>3, <5>1, DocumentAssumption
               DEF TypeOK, Recorded, Documents
          <6>2. QED
            BY <4>1, <4>2, <3>3, <5>1, <6>1
        <5>3. QED
          BY <3>2, <3>3, <5>1, <5>2 DEF Recorded
      <4>3. CASE f # d
        <5>1. f \in Recorded(docs) /\ docs[f].supersedes \in Recorded(docs)
          BY <3>2, <3>4, <4>1, <4>3, DocumentAssumption
             DEF TypeOK, Recorded, Documents
        <5>2. QED
          BY <3>2, <3>4, <4>1, <5>1 DEF TypeOK, Recorded
      <4>4. QED
        BY <4>2, <4>3
    <3>5. QED
      BY <3>2, <3>4, ProfileAssumption DEF TypeOK, OnboardingTypeOK
  <2>3. ASSUME NEW d \in Docs, ReviewRoute(d) PROVE TypeOK'
    <3>1. PICK to \in DocumentStatuses : Reviewed(d, to)
      BY <2>3, ReviewIsReviewed
    <3>2. PICK from : SetStatus(d, from, to)
      BY <3>1 DEF Reviewed
    <3>3. /\ docs' \in [Docs -> Documents \cup {None}]
          /\ Recorded(docs') = Recorded(docs)
          /\ d \in Recorded(docs)
          /\ \A f \in Recorded(docs) :
               /\ docs'[f].type = docs[f].type
               /\ docs'[f].version = docs[f].version
               /\ docs'[f].supersedes = docs[f].supersedes
      BY <3>2, SetStatusEffect
    <3>4. \A f \in Recorded(docs) :
            docs[f].supersedes # None =>
              /\ docs[f].supersedes \in Recorded(docs)
              /\ docs[docs[f].supersedes].type = docs[f].type
              /\ docs[docs[f].supersedes].version < docs[f].version
      BY DocumentAssumption DEF TypeOK, Recorded, Documents
    <3>5. \A f \in Recorded(docs') :
            docs'[f].supersedes # None =>
              /\ docs'[docs'[f].supersedes] # None
              /\ docs'[docs'[f].supersedes].type = docs'[f].type
              /\ docs'[docs'[f].supersedes].version < docs'[f].version
      BY <3>3, <3>4 DEF Recorded
    <3>6. QED
      BY <3>1, <3>3, <3>5 DEF Reviewed, TypeOK, OnboardingTypeOK
  <2>4. CASE UNCHANGED vars
    BY <2>4 DEF vars, TypeOK, OnboardingTypeOK, Recorded
  <2>5. QED
    BY <2>1, <2>2, <2>3, <2>4 DEF Next
<1>3. QED
  BY <1>1, <1>2, PTL DEF Spec

-----------------------------------------------------------------------------
(* Whatever superseded a document, some version after it is in force.  It  *)
(* is why no document is superseded twice: only the latest version is.     *)
SuccessorInForce ==
  \A d \in Recorded(docs) :
    docs[d].supersedes # None =>
      LET c == docs[d].supersedes
      IN \E e \in Current(docs) :
           docs[e].type = docs[c].type /\ docs[e].version > docs[c].version

(* A document is only pending if its status was overridden: uploads are    *)
(* recorded as uploaded.                                                   *)
PendingWasOverridden ==
  \A d \in Recorded(docs) : docs[d].status = "pending_upload" => d \in overridden

IInv ==
  /\ TypeOK
  /\ NotesTellStatus
  /\ ExpiryNotLate
  /\ OneCurrentVersion
  /\ SupersededOnce
  /\ SuccessorInForce
  /\ PendingWasOverridden

(* An upload preserves the invariant. *)
LEMMA UploadSafe ==
  ASSUME IInv, NEW d \in Docs, NEW t \in Types,
         NEW x \in Dates \cup {NoDate}, RecordUpload(d, t, x)
  PROVE  /\ NotesTellStatus' /\ ExpiryNotLate' /\ OneCurrentVersion'
         /\ SupersededOnce' /\ SuccessorInForce' /\ PendingWasOverridden'
<1>1. PICK e : Uploaded(d, t, e)
  BY UploadEffect DEF IInv
<1>2. /\ Recorded(docs') = Recorded(docs) \cup {d}
      /\ worker'.expires = worker.expires /\ worker'.status = worker.status
      /\ worker \in Profiles /\ worker' \in Profiles
      /\ overridden' = overridden /\ noted' = noted
      /\ docs' \in [Docs -> Documents \cup {None}]
  BY UploadEffect DEF IInv, RecordUpload
<1>3. /\ e # None => e \in Recorded(docs) /\ docs[e].type = t
                     /\ docs[e].status # "superseded"
      /\ d \notin Recorded(docs)
      /\ docs'[d].type = t /\ docs'[d].status = "uploaded"
      /\ docs'[d].supersedes = e
  BY <1>1, LatestIsCurrent DEF Uploaded, Recorded
<1>4. \A g \in Recorded(docs) :
        /\ g \in Docs /\ g # d
        /\ docs'[g].supersedes = docs[g].supersedes
        /\ docs'[g].type = docs[g].type
        /\ docs'[g].version = docs[g].version
        /\ g = e => docs'[g].status = "superseded"
        /\ g # e => docs'[g] = docs[g]
  BY <1>1, <1>3, DocsAssumption DEF Uploaded, Recorded
<1>5. /\ \A g \in Recorded(docs') : docs'[g].version \in Nat
      /\ \A g \in Recorded(docs) : docs[g].version \in Nat
  BY <1>2, DocumentAssumption DEF IInv, TypeOK, Recorded, Documents
<1>6. Current(docs') = (Current(docs) \ {e}) \cup {d}
  <2>1. \A g \in Recorded(docs) :
          g \in Current(docs') <=> g \in Current(docs) /\ g # e
    BY <1>2, <1>4 DEF Current
  <2>2. d \in Current(docs')
    BY <1>2, <1>3 DEF Current
  <2>3. QED
    BY <1>2, <1>3, <2>1, <2>2 DEF Current
<1>7. NotesTellStatus'
  BY <1>2, ProfileAssumption DEF IInv, NotesTellStatus
<1>8. ExpiryNotLate'
  <2>1. ASSUME NEW g \in Recorded(docs'), docs'[g].status = "approved",
               docs'[g].expiry # NoDate
        PROVE  worker'.expires # NoDate /\ worker'.expires <= docs'[g].expiry
    <3>1. g \in Recorded(docs) /\ docs'[g] = docs[g]
      BY <1>2, <1>3, <1>4, <2>1
    <3>2. QED
      BY <1>2, <2>1, <3>1 DEF IInv, ExpiryNotLate
  <2>2. QED
    BY <2>1 DEF ExpiryNotLate
<1>9. PendingWasOverridden'
  BY <1>2, <1>3, <1>4 DEF IInv, PendingWasOverridden
<1>10. e # None => /\ docs'[d].version > docs[e].version
                  /\ \A g \in Current(docs) :
                       docs[g].type = t => docs[g].version <= docs[e].version
  BY <1>1, <1>3 DEF Uploaded, Latest, CurrentOf
<1>11. SupersededOnce'
  <2>1. ASSUME NEW g \in Recorded(docs), e # None, docs[g].supersedes = e
        PROVE  FALSE
    <3>1. PICK f \in Current(docs) :
            docs[f].type = t /\ docs[f].version > docs[e].version
      BY <1>3, <2>1 DEF IInv, SuccessorInForce
    <3>2. docs[f].version <= docs[e].version
      BY <1>10, <2>1, <3>1
    <3>3. docs[f].version \in Nat /\ docs[e].version \in Nat
      BY <1>3, <1>5, <2>1 DEF Current
    <3>4. QED
      BY <3>1, <3>2, <3>3
  <2>2. ASSUME NEW f \in Recorded(docs'), NEW g \in Recorded(docs'),
               docs'[f].supersedes # None,
               docs'[f].supersedes = docs'[g].supersedes
        PROVE  f = g
    <3>1. CASE f \in Recorded(docs) /\ g \in Recorded(docs)
      BY <1>4, <2>2, <3>1 DEF IInv, SupersededOnce
    <3>2. CASE f = d /\ g \in Recorded(docs)
      BY <1>3, <1>4, <2>1, <2>2, <3>2
    <3>3. CASE g = d /\ f \in Recorded(docs)
      BY <1>3, <1>4, <2>1, <2>2, <3>3
    <3>4. QED
      BY <1>2, <3>1, <3>2, <3>3
  <2>3. QED
    BY <2>2 DEF SupersededOnce
<1>12. SuccessorInForce'
  <2>1. ASSUME NEW g \in Recorded(docs'), docs'[g].supersedes # None
        PROVE  \E f \in Current(docs') :
                 /\ docs'[f].type = docs'[docs'[g].supersedes].type
                 /\ docs'[f].version > docs'[docs'[g].supersedes].version
    <3>1. CASE g = d
      <4>1. docs'[d].type = docs'[e].type
              /\ docs'[d].version > docs'[e].version
        BY <1>3, <1>4, <1>10, <2>1, <3>1
      <4>2. QED
        BY <1>3, <1>6, <3>1, <4>1
    <3>2. CASE g \in Recorded(docs)
      <4>1. docs'[g].supersedes = docs[g].supersedes
              /\ docs[g].supersedes \in Recorded(docs)
        BY <1>4, <2>1, <3>2, DocumentAssumption
           DEF IInv, TypeOK, Recorded, Documents
      <4>2. PICK c : c = docs[g].supersedes
        OBVIOUS
      <4>3. PICK f \in Current(docs) :
              docs[f].type = docs[c].type /\ docs[f].version > docs[c].version
        BY <2>1, <3>2, <4>1, <4>2 DEF IInv, SuccessorInForce
      <4>4. CASE f # e
        <5>1. f \in Recorded(docs)
          BY DEF Current
        <5>2. QED
          BY <1>4, <1>6, <4>1, <4>2, <4>3, <4>4, <5>1
      <4>5. CASE f = e
        <5>1. e # None /\ f \in Recorded(docs)
          BY <4>5, DocsAssumption DEF Current, Recorded
        <5>2. docs'[d].version > docs[c].version /\ docs[c].type = t
          BY <1>2, <1>3, <1>5, <1>10, <4>1, <4>2, <4>3, <4>5, <5>1
        <5>3. QED
          BY <1>3, <1>4, <1>6, <4>1, <4>2, <5>2
      <4>6. QED
        BY <4>4, <4>5
    <3>3. QED
      BY <1>2, <3>1, <3>2
  <2>2. QED
    BY <2>1 DEF SuccessorInForce
<1>13. OneCurrentVersion'
  <2>1. ASSUME NEW f \in Current(docs), f # e, docs[f].type = t
        PROVE  \E g \in overridden : docs[g].type = t
    <3>1. f \in CurrentOf(t) /\ f \in Recorded(docs)
      BY <2>1 DEF CurrentOf, Current
    <3>2. CASE e # None
      <4>1. e \in Current(docs)
        BY <1>3, <3>2 DEF Current
      <4>2. QED
        BY <1>3, <2>1, <3>2, <4>1 DEF IInv, OneCurrentVersion
    <3>3. CASE e = None
      <4>1. PICK g \in Latest(t) : docs[g].status = "pending_upload"
        BY <1>1, <3>1, <3>3 DEF Uploaded
      <4>2. g \in overridden /\ docs[g].type = t
        BY <4>1, LatestIsCurrent DEF IInv, PendingWasOverridden
      <4>3. QED
        BY <4>2
    <3>4. QED
      BY <3>2, <3>3
  <2>2. \A g \in overridden : docs'[g].type = docs[g].type
    BY <1>4 DEF IInv, TypeOK
  <2>3. ASSUME NEW f \in Current(docs'), NEW g \in Current(docs'),
               docs'[f].type = docs'[g].type, f # g
        PROVE  \E h \in overridden' : docs'[h].type = docs'[f].type
    <3>1. CASE f # d /\ g # d
      <4>1. /\ f \in Current(docs) /\ g \in Current(docs)
            /\ f \in Recorded(docs) /\ g \in Recorded(docs)
        BY <1>6, <3>1 DEF Current
      <4>2. docs[f].type = docs[g].type /\ docs'[f].type = docs[f].type
        BY <1>4, <2>3, <4>1
      <4>3. PICK h \in overridden : docs[h].type = docs[f].type
        BY <2>3, <4>1, <4>2 DEF IInv, OneCurrentVersion
      <4>4. QED
        BY <1>2, <2>2, <4>2, <4>3
    <3>2. CASE f = d \/ g = d
      <4>1. PICK k \in Current(docs) : k # e /\ docs[k].type = t
        <5>1. PICK k \in {f, g} : k # d
          BY <2>3
        <5>2. k \in Current(docs) /\ k # e /\ k \in Recorded(docs)
          BY <1>6, <5>1 DEF Current
        <5>3. docs'[k].type = t
          BY <1>3, <2>3, <3>2, <5>1
        <5>4. QED
          BY <1>4, <5>2, <5>3
      <4>2. PICK h \in overridden : docs[h].type = t
        BY <2>1, <4>1
      <4>3. docs'[f].type = t
        BY <1>3, <2>3, <3>2
      <4>4. QED
        BY <1>2, <2>2, <4>2, <4>3
    <3>3. QED
      BY <3>1, <3>2
  <2>4. QED
    BY <2>3 DEF OneCurrentVersion
<1>14. QED
  BY <1>7, <1>8, <1>9, <1>11, <1>12, <1>13

(* A review preserves it. *)
LEMMA ReviewSafe ==
  ASSUME IInv, NEW d \in Docs, ReviewRoute(d)
  PROVE  /\ NotesTellStatus' /\ ExpiryNotLate' /\ OneCurrentVersion'
         /\ SupersededOnce' /\ SuccessorInForce' /\ PendingWasOverridden'
<1>1. PICK to \in DocumentStatuses : Reviewed(d, to)
  BY ReviewIsReviewed DEF IInv
<1>2. PICK from : SetStatus(d, from, to)
  BY <1>1 DEF Reviewed
<1>3. /\ docs' \in [Docs -> Documents \cup {None}]
      /\ Recorded(docs') = Recorded(docs)
      /\ d \in Recorded(docs)
      /\ docs'[d].status = to
      /\ \A e \in Docs : e # d => docs'[e] = docs[e]
      /\ \A e \in Recorded(docs) :
           /\ docs'[e].type = docs[e].type
           /\ docs'[e].version = docs[e].version
           /\ docs'[e].supersedes = docs[e].supersedes
           /\ docs'[e].expiry = docs[e].expiry
  BY <1>2, SetStatusEffect DEF IInv
<1>4. /\ worker # None /\ worker' # None /\ noted' = noted
      /\ worker'.status = worker.status
      /\ overridden \subseteq overridden'
      /\ to # "superseded"
      /\ d \in overridden' \/ (to # "pending_upload"
                                 /\ docs[d].status # "superseded")
  BY <1>1, <1>3 DEF Reviewed, IInv, TypeOK
<1>5. Current(docs') = Current(docs) \cup {d}
  BY <1>3, <1>4 DEF Current, Recorded
<1>6. NotesTellStatus'
  BY <1>4 DEF IInv, NotesTellStatus
<1>7. ExpiryNotLate'
  <2>1. ASSUME NEW e \in Recorded(docs'), docs'[e].status = "approved",
               docs'[e].expiry # NoDate
        PROVE  worker'.expires # NoDate /\ worker'.expires <= docs'[e].expiry
    <3>1. CASE worker'.expires = EarliestExpiry(docs')
      <4>1. docs'[e].expiry \in Expiries(docs')
        BY <2>1 DEF Expiries
      <4>2. QED
        BY <1>3, <3>1, <4>1, EarliestIsEarliest, DatesAssumption
    <3>2. CASE worker'.expires = worker.expires /\ to # "approved"
      <4>1. e \in Recorded(docs) /\ docs'[e] = docs[e]
        BY <1>3, <2>1, <3>2 DEF Recorded
      <4>2. QED
        BY <2>1, <3>2, <4>1 DEF IInv, ExpiryNotLate
    <3>3. QED
      BY <1>1, <3>1, <3>2 DEF Reviewed
  <2>2. QED
    BY <2>1 DEF ExpiryNotLate
<1>8. SupersededOnce'
  BY <1>3 DEF IInv, SupersededOnce
<1>9. SuccessorInForce'
  <2>1. ASSUME NEW g \in Recorded(docs'), docs'[g].supersedes # None
        PROVE  \E f \in Current(docs') :
                 /\ docs'[f].type = docs'[docs'[g].supersedes].type
                 /\ docs'[f].version > docs'[docs'[g].supersedes].version
    <3>1. /\ g \in Recorded(docs) /\ docs'[g].supersedes = docs[g].supersedes
          /\ docs[g].supersedes \in Recorded(docs)
      BY <1>3, <2>1, DocumentAssumption DEF IInv, TypeOK, Recorded, Documents
    <3>2. PICK f \in Current(docs) :
            /\ docs[f].type = docs[docs[g].supersedes].type
            /\ docs[f].version > docs[docs[g].supersedes].version
      BY <2>1, <3>1 DEF IInv, SuccessorInForce
    <3>3. f \in Recorded(docs) /\ f \in Current(docs')
      BY <1>5 DEF Current
    <3>4. QED
      BY <1>3, <3>1, <3>2, <3>3
  <2>2. QED
    BY <2>1 DEF SuccessorInForce
<1>10. PendingWasOverridden'
  <2>1. ASSUME NEW e \in Recorded(docs'), docs'[e].status = "pending_upload"
        PROVE  e \in overridden'
    <3>1. CASE e = d
      BY <1>3, <1>4, <2>1, <3>1
    <3>2. CASE e # d
      <4>1. e \in Recorded(docs) /\ docs'[e] = docs[e]
        BY <1>3, <3>2 DEF Recorded
      <4>2. QED
        BY <1>4, <2>1, <4>1 DEF IInv, PendingWasOverridden
    <3>3. QED
      BY <3>1, <3>2
  <2>2. QED
    BY <2>1 DEF PendingWasOverridden
<1>11. OneCurrentVersion'
  <2>1. \A h \in overridden : h \in Recorded(docs)
    BY DEF IInv, TypeOK
  <2>2. ASSUME NEW f \in Current(docs'), NEW g \in Current(docs'),
               docs'[f].type = docs'[g].type, f # g
        PROVE  \E h \in overridden' : docs'[h].type = docs'[f].type
    <3>1. f \in Recorded(docs) /\ g \in Recorded(docs)
            /\ docs[f].type = docs[g].type
      BY <1>3, <2>2 DEF Current
    <3>2. CASE f \in Current(docs) /\ g \in Current(docs)
      <4>1. PICK h \in overridden : docs[h].type = docs[f].type
        BY <2>2, <3>1, <3>2 DEF IInv, OneCurrentVersion
      <4>2. QED
        BY <1>3, <1>4, <2>1, <3>1, <4>1
    <3>3. CASE d \in {f, g} /\ d \notin Current(docs)
      <4>1. docs[d].status = "superseded"
        BY <1>3, <3>3 DEF Current
      <4>2. QED
        BY <1>4, <2>2, <3>3, <4>1
    <3>4. QED
      BY <1>5, <2>2, <3>2, <3>3
  <2>3. QED
    BY <2>2 DEF OneCurrentVersion
<1>12. QED
  BY <1>6, <1>7, <1>8, <1>9, <1>10, <1>11

(* The invariant holds in every state. *)
THEOREM Invariance == Spec => []IInv
<1>1. Init => IInv
  <2> SUFFICES ASSUME Init PROVE IInv
    OBVIOUS
  <2>1. Recorded(docs) = {} /\ Current(docs) = {}
    BY DEF Init, Recorded, Current
  <2>2. TypeOK
    BY <2>1, NoneAssumption DEF Init, OnboardingInit, TypeOK, OnboardingTypeOK
  <2>3. QED
    BY <2>1, <2>2
       DEF IInv, Init, OnboardingInit, NotesTellStatus, ExpiryNotLate,
           OneCurrentVersion, SupersededOnce, SuccessorInForce,
           PendingWasOverridden
<1>2. TypeOK' /\ IInv /\ [Next]_vars => IInv'
  <2> SUFFICES ASSUME TypeOK', IInv, [Next]_vars PROVE IInv'
    OBVIOUS
  <2>1. CASE OnboardingStep /\ UNCHANGED docVars
    <3>1. /\ NotesTellStatus'
          /\ worker # None => worker'.expires = worker.expires
          /\ UNCHANGED <<docs, overridden>>
      BY <2>1, OnboardingTypes DEF IInv, TypeOK, docVars
    <3>2. ExpiryNotLate'
      BY <3>1 DEF IInv, TypeOK, ExpiryNotLate, Recorded
    <3>3. QED
      BY <3>1, <3>2 DEF IInv, OneCurrentVersion, SupersededOnce,
         SuccessorInForce, PendingWasOverridden, Recorded, Current
  <2>2. CASE \E d \in Docs, t \in Types, x \in Dates \cup {NoDate} :
               RecordUpload(d, t, x)
    BY <2>2, UploadSafe DEF IInv
  <2>3. CASE \E d \in Docs : ReviewRoute(d)
    BY <2>3, ReviewSafe DEF IInv
  <2>4. CASE UNCHANGED vars
    BY <2>4 DEF vars, IInv, NotesTellStatus, ExpiryNotLate,
       OneCurrentVersion, SupersededOnce, SuccessorInForce,
       PendingWasOverridden, Recorded, Current
  <2>5. QED
    BY <2>1, <2>2, <2>3, <2>4 DEF Next
<1>3. QED
  BY <1>1, <1>2, TypeCorrect, PTL DEF Spec

(* The notes tell the worker's status (onboarding.py). *)
THEOREM NotesTell == Spec => []NotesTellStatus
BY Invariance, PTL DEF IInv

(* The stored expiry is never late (compliance_document.py,                *)
(* refresh_compliance_expiry).                                             *)
THEOREM ExpiryCorrect == Spec => []ExpiryNotLate
BY Invariance, PTL DEF IInv

(* Whoever the dashboard calls expired has an expired document or a stored *)
(* expiry in the past (compliance_dashboard.py, compute_health).           *)
THEOREM HealthFollowsExpiry == Spec => []ExpiredIsStored
<1>1. TypeOK /\ ExpiryNotLate => ExpiredIsStored
  <2> SUFFICES ASSUME TypeOK, ExpiryNotLate, worker # None, NEW today \in Dates,
                      Health(docs, today) = "expired",
                      \A d \in Recorded(docs) : docs[d].status # "expired"
               PROVE  worker.expires # NoDate /\ worker.expires < today
    BY DEF ExpiredIsStored
  <2>1. PICK d \in Recorded(docs) : /\ docs[d].status = "approved"
                                    /\ docs[d].expiry # NoDate
                                    /\ docs[d].expiry < today
    BY DEF Health, Current
  <2>2. docs[d].expiry \in Dates /\ worker.expires \in Dates \cup {NoDate}
    BY <2>1 DEF TypeOK, OnboardingTypeOK, Recorded, Documents, Profiles
  <2>3. worker.expires # NoDate /\ worker.expires <= docs[d].expiry
    BY <2>1 DEF ExpiryNotLate
  <2>4. worker.expires \in Nat /\ docs[d].expiry \in Nat /\ today \in Nat
    BY <2>2, <2>3, DatesAssumption
  <2>5. QED
    BY <2>1, <2>3, <2>4
<1>2. QED
  BY <1>1, Invariance, PTL DEF IInv

(* Without overrides, a type has one current version (compliance_document  *)
(* .py, record_upload).                                                    *)
THEOREM VersionsCorrect == Spec => []OneCurrentVersion
BY Invariance, PTL DEF IInv

(* No document is superseded twice (compliance_document.py,                *)
(* record_upload).                                                         *)
THEOREM VersionsChained == Spec => []SupersededOnce
BY Invariance, PTL DEF IInv

(* Clearance is granted with HR's approval of the worker or of all current *)
(* documents (hr_review.py, onboarding.py).                                *)
THEOREM ClearanceEarned == Spec => ClearanceIsEarned
<1>1. ASSUME TypeOK, [Next]_vars, worker # None,
             worker'.stage = "clearance_granted",
             worker.stage # "clearance_granted"
      PROVE  \/ /\ worker.status # "approved" /\ worker'.status = "approved"
                /\ noted' = "approved"
             \/ \A d \in Current(docs') : docs'[d].status = "approved"
  <2>1. worker \in Profiles
    BY <1>1 DEF TypeOK, OnboardingTypeOK
  <2>2. CASE OnboardingStep
    <3> USE DEF Profiles
    <3>1. CASE ApproveWorker \/ ReinstateWorker
      <4>1. MayMove(worker.status, "approved")
        BY <3>1 DEF ApproveWorker, ReinstateWorker, Move
      <4>2. ~MayMove("approved", "approved")
        BY DEF MayMove, Transitions
      <4>3. worker'.status = "approved" /\ noted' = "approved"
        BY <2>1, <3>1 DEF ApproveWorker, ReinstateWorker, Move, Record
      <4>4. QED
        BY <4>1, <4>2, <4>3
    <3>2. CASE SubmitForReview \/ StartReview \/ RejectWorker
      BY <1>1, <2>1, <3>2 DEF SubmitForReview, StartReview, RejectWorker, Move
    <3>3. CASE SuspendWorker \/ MarkExpired
      BY <1>1, <2>1, <3>3 DEF SuspendWorker, MarkExpired, Move
    <3>4. CASE SetAmber \/ ClearAmber \/ SubmitOwnApplication
      BY <1>1, <2>1, <3>4 DEF SetAmber, ClearAmber, SubmitOwnApplication
    <3>5. QED
      BY <1>1, <2>2, <3>1, <3>2, <3>3, <3>4
         DEF OnboardingStep, OnboardingRoute, CreateProfile
  <2>3. ASSUME NEW d \in Docs, NEW t \in Types,
               NEW x \in Dates \cup {NoDate}, RecordUpload(d, t, x)
        PROVE  FALSE
    BY <1>1, <2>1, <2>3 DEF RecordUpload, Profiles
  <2>4. ASSUME NEW d \in Docs, ReviewRoute(d)
        PROVE  \A e \in Current(docs') : docs'[e].status = "approved"
    <3>1. worker'.stage = RecalculatedStage(docs', worker.stage)
            \/ worker' = worker
      BY <2>1, <2>4 DEF ReviewRoute, ApproveDocument, RejectDocument,
         RequestReupload, OverrideStatus, Profiles
    <3>2. RecalculatedStage(docs', worker.stage) = "clearance_granted"
      BY <1>1, <3>1
    <3>3. {docs'[e].status : e \in Current(docs')} = {"approved"}
      BY <1>1, <3>2 DEF RecalculatedStage
    <3>4. QED
      BY <3>3
  <2>5. CASE UNCHANGED vars
    BY <1>1, <2>5 DEF vars
  <2>6. QED
    BY <1>1, <2>2, <2>3, <2>4, <2>5 DEF Next
<1>2. TypeOK /\ [Next]_vars =>
        [worker # None /\ worker'.stage = "clearance_granted"
           /\ worker.stage # "clearance_granted" =>
             \/ /\ worker.status # "approved" /\ worker'.status = "approved"
                /\ noted' = "approved"
             \/ \A d \in Current(docs') : docs'[d].status = "approved"]_vars
  BY <1>1
<1>3. QED
  BY <1>2, TypeCorrect, PTL DEF Spec, ClearanceIsEarned

-----------------------------------------------------------------------------
(* Every superseded document was superseded by an upload.                  *)
SupersededByUpload ==
  \A e \in Recorded(docs) :
    docs[e].status = "superseded" =>
      \E g \in Recorded(docs) : docs[g].supersedes = e

(* While nobody overrides a document of a type, its versions are numbered  *)
(* apart and the current one is the newest.                                *)
NewestIsCurrent ==
  \A d, e \in Recorded(docs) :
    /\ d # e /\ docs[d].type = docs[e].type
    /\ \A h \in overridden : docs[h].type # docs[d].type
    => /\ docs[d].version # docs[e].version
       /\ d \in Current(docs) => docs[e].version < docs[d].version

(* Once a document of a type is recorded, one of the type is current,      *)
(* whatever is superseded or overridden.                                   *)
NoTypeLost == \A d \in Recorded(docs) : CurrentOf(docs[d].type) # {}

VersionInv == IInv /\ SupersededByUpload /\ NewestIsCurrent

(* A type is not lost: whatever superseded its document has a successor    *)
(* in force.                                                               *)
LEMMA TypeKept ==
  ASSUME IInv, SupersededByUpload
  PROVE  NoTypeLost
<1>1. ASSUME NEW d \in Recorded(docs)
      PROVE  \E e \in Current(docs) : docs[e].type = docs[d].type
  <2>1. CASE docs[d].status = "superseded"
    <3>1. PICK g \in Recorded(docs) : docs[g].supersedes = d
      BY <2>1 DEF SupersededByUpload
    <3>2. d # None
      BY DocsAssumption DEF Recorded
    <3>3. QED
      BY <3>1, <3>2 DEF IInv, SuccessorInForce
  <2>2. CASE docs[d].status # "superseded"
    BY <2>2 DEF Current
  <2>3. QED
    BY <2>1, <2>2
<1>2. QED
  BY <1>1 DEF NoTypeLost, CurrentOf

(* An upload preserves what is said of the versions.                       *)
LEMMA UploadOrdered ==
  ASSUME VersionInv, NEW d \in Docs, NEW t \in Types,
         NEW x \in Dates \cup {NoDate}, RecordUpload(d, t, x)
  PROVE  SupersededByUpload' /\ NewestIsCurrent'
<1>1. PICK e : Uploaded(d, t, e)
  BY UploadEffect DEF VersionInv, IInv
<1>2. /\ Recorded(docs') = Recorded(docs) \cup {d}
      /\ overridden' = overridden
      /\ docs' \in [Docs -> Documents \cup {None}]
  BY UploadEffect DEF VersionInv, IInv, RecordUpload
<1>3. /\ e # None => e \in Recorded(docs) /\ docs[e].type = t
                     /\ docs[e].status # "superseded"
      /\ d \notin Recorded(docs)
      /\ docs'[d].type = t /\ docs'[d].status = "uploaded"
      /\ docs'[d].supersedes = e
  BY <1>1, LatestIsCurrent DEF Uploaded, Recorded
<1>4. \A g \in Recorded(docs) :
        /\ g \in Docs /\ g # d
        /\ docs'[g].supersedes = docs[g].supersedes
        /\ docs'[g].type = docs[g].type
        /\ docs'[g].version = docs[g].version
        /\ g = e => docs'[g].status = "superseded"
        /\ g # e => docs'[g] = docs[g]
  BY <1>1, <1>3, DocsAssumption DEF Uploaded, Recorded
<1>5. /\ \A g \in Recorded(docs') : docs'[g].version \in Nat
      /\ \A g \in Recorded(docs) : docs[g].version \in Nat
  BY <1>2, DocumentAssumption DEF VersionInv, IInv, TypeOK, Recorded, Documents
<1>6. SupersededByUpload'
  <2>1. ASSUME NEW f \in Recorded(docs'), docs'[f].status = "superseded"
        PROVE  \E g \in Recorded(docs') : docs'[g].supersedes = f
    <3>1. f \in Recorded(docs)
      BY <1>2, <1>3, <2>1
    <3>2. CASE f = e
      BY <1>2, <1>3, <3>2
    <3>3. CASE f # e
      <4>1. PICK g \in Recorded(docs) : docs[g].supersedes = f
        BY <1>4, <2>1, <3>1, <3>3 DEF VersionInv, SupersededByUpload
      <4>2. QED
        BY <1>2, <1>4, <4>1
    <3>4. QED
      BY <3>2, <3>3
  <2>2. QED
    BY <2>1 DEF SupersededByUpload
<1>7. ASSUME \A h \in overridden : docs[h].type # t,
             NEW f \in Recorded(docs), docs[f].type = t
      PROVE  docs[f].version < docs'[d].version
  <2>1. \E g \in CurrentOf(t) : TRUE
    BY <1>7, TypeKept DEF VersionInv, NoTypeLost
  <2>2. e # None
    <3>1. ASSUME NEW g \in Latest(t), docs[g].status = "pending_upload"
          PROVE  FALSE
      BY <1>7, <3>1, LatestIsCurrent
         DEF VersionInv, IInv, PendingWasOverridden
    <3>2. QED
      BY <1>1, <2>1, <3>1 DEF Uploaded
  <2>3. e \in Current(docs) /\ docs'[d].version > docs[e].version
    BY <1>1, <1>3, <2>2 DEF Uploaded, Current
  <2>4. f = e \/ docs[f].version < docs[e].version
    BY <1>3, <1>7, <2>2, <2>3 DEF VersionInv, NewestIsCurrent
  <2>5. QED
    BY <1>2, <1>3, <1>5, <1>7, <2>2, <2>3, <2>4
<1>8. NewestIsCurrent'
  <2>1. \A h \in overridden : h \in Recorded(docs)
    BY DEF VersionInv, IInv, TypeOK
  <2>2. \A h \in overridden : h \in overridden' /\ docs'[h].type = docs[h].type
    BY <1>2, <1>4, <2>1
  <2>3. ASSUME NEW f \in Recorded(docs'), NEW g \in Recorded(docs'),
               f # g, docs'[f].type = docs'[g].type,
               \A h \in overridden' : docs'[h].type # docs'[f].type
        PROVE  /\ docs'[f].version # docs'[g].version
               /\ f \in Current(docs') => docs'[g].version < docs'[f].version
    <3>1. PICK u : u = docs'[f].type
      OBVIOUS
    <3>2. \A h \in overridden : docs[h].type # u
      BY <2>2, <2>3, <3>1
    <3>3. CASE f = d
      <4>1. u = t /\ g \in Recorded(docs) /\ docs[g].type = t
        BY <1>2, <1>3, <1>4, <2>3, <3>1, <3>3
      <4>2. docs[g].version < docs'[d].version
        BY <1>7, <3>2, <4>1
      <4>3. QED
        BY <1>2, <1>4, <1>5, <3>3, <4>1, <4>2
    <3>4. CASE g = d
      <4>1. u = t /\ f \in Recorded(docs) /\ docs[f].type = t
        BY <1>2, <1>3, <1>4, <2>3, <3>1, <3>4
      <4>2. docs[f].version < docs'[d].version
        BY <1>7, <3>2, <4>1
      <4>3. f \notin Current(docs')
        <5>1. CASE f = e
          BY <1>4, <4>1, <5>1 DEF Current
        <5>2. CASE f # e
          <6>1. CurrentOf(t) # {}
            BY <4>1, TypeKept DEF VersionInv, NoTypeLost
          <6>2. e # None
            <7>1. ASSUME NEW h \in Latest(t), docs[h].status = "pending_upload"
                  PROVE  FALSE
              BY <3>2, <4>1, <7>1, LatestIsCurrent
                 DEF VersionInv, IInv, PendingWasOverridden
            <7>2. QED
              BY <1>1, <6>1, <7>1 DEF Uploaded
          <6>3. e \in Current(docs) /\ e \in Recorded(docs)
                  /\ docs[e].type = t
            BY <1>3, <6>2 DEF Current
          <6>4. docs[f].version < docs[e].version
            BY <3>2, <4>1, <5>2, <6>3 DEF VersionInv, NewestIsCurrent
          <6>5. f \notin Current(docs)
            <7>1. ASSUME f \in Current(docs) PROVE FALSE
              <8>1. docs[e].version < docs[f].version
                BY <3>2, <4>1, <5>2, <6>3, <7>1
                   DEF VersionInv, NewestIsCurrent
              <8>2. QED
                BY <1>5, <4>1, <6>3, <6>4, <8>1
            <7>2. QED
              BY <7>1
          <6>6. QED
            BY <1>4, <4>1, <5>2, <6>5 DEF Current
        <5>3. QED
          BY <5>1, <5>2
      <4>4. QED
        BY <1>2, <1>4, <1>5, <3>4, <4>1, <4>2, <4>3
    <3>5. CASE f # d /\ g # d
      <4>1. /\ f \in Recorded(docs) /\ g \in Recorded(docs)
            /\ docs[f].type = u /\ docs[g].type = u
        BY <1>2, <1>4, <2>3, <3>1, <3>5
      <4>2. f \in Current(docs') => f \in Current(docs)
        BY <1>4, <4>1 DEF Current
      <4>3. QED
        BY <1>4, <2>3, <3>2, <4>1, <4>2 DEF VersionInv, NewestIsCurrent
    <3>6. QED
      BY <3>3, <3>4, <3>5
  <2>4. QED
    BY <2>3 DEF NewestIsCurrent
<1>9. QED
  BY <1>6, <1>8

(* A review preserves it. *)
LEMMA ReviewOrdered ==
  ASSUME VersionInv, NEW d \in Docs, ReviewRoute(d)
  PROVE  SupersededByUpload' /\ NewestIsCurrent'
<1>1. PICK to \in DocumentStatuses : Reviewed(d, to)
  BY ReviewIsReviewed DEF VersionInv, IInv
<1>2. PICK from : SetStatus(d, from, to)
  BY <1>1 DEF Reviewed
<1>3. /\ Recorded(docs') = Recorded(docs)
      /\ d \in Recorded(docs)
      /\ docs'[d].status = to
      /\ \A e \in Docs : e # d => docs'[e] = docs[e]
      /\ \A e \in Recorded(docs) :
           /\ docs'[e].type = docs[e].type
           /\ docs'[e].version = docs[e].version
           /\ docs'[e].supersedes = docs[e].supersedes
  BY <1>2, SetStatusEffect DEF VersionInv, IInv
<1>4. /\ overridden \subseteq overridden'
      /\ to # "superseded"
      /\ d \in overridden' \/ docs[d].status # "superseded"
  BY <1>1 DEF Reviewed
<1>5. Recorded(docs) \subseteq Docs /\ overridden \subseteq Recorded(docs)
  BY DEF Recorded, VersionInv, IInv, TypeOK
<1>6. SupersededByUpload'
  BY <1>3, <1>4, <1>5 DEF VersionInv, SupersededByUpload
<1>7. NewestIsCurrent'
  <2>1. ASSUME NEW f \in Recorded(docs'), NEW g \in Recorded(docs'),
               f # g, docs'[f].type = docs'[g].type,
               \A h \in overridden' : docs'[h].type # docs'[f].type
        PROVE  /\ docs'[f].version # docs'[g].version
               /\ f \in Current(docs') => docs'[g].version < docs'[f].version
    <3>1. \A h \in overridden : docs[h].type # docs[f].type
      BY <1>3, <1>4, <1>5, <2>1
    <3>2. f \in Current(docs') => f \in Current(docs)
      <4>1. CASE f = d
        <5>1. d \notin overridden'
          BY <2>1, <4>1
        <5>2. QED
          BY <1>3, <1>4, <4>1, <5>1 DEF Current
      <4>2. CASE f # d
        BY <1>3, <1>5, <2>1, <4>2 DEF Current
      <4>3. QED
        BY <4>1, <4>2
    <3>3. QED
      BY <1>3, <2>1, <3>1, <3>2 DEF VersionInv, NewestIsCurrent
  <2>2. QED
    BY <2>1 DEF NewestIsCurrent
<1>8. QED
  BY <1>6, <1>7

(* A type is never without a current document once it has one, and unless  *)
(* it was overridden that document is the newest of its versions           *)
(* (compliance_document.py, record_upload).                                *)
THEOREM VersionsOrdered == Spec => [](NoTypeLost /\ NewestIsCurrent)
<1>1. Init => SupersededByUpload /\ NewestIsCurrent
  BY DEF Init, Recorded, SupersededByUpload, NewestIsCurrent
<1>2. IInv' /\ VersionInv /\ [Next]_vars => VersionInv'
  <2> SUFFICES ASSUME IInv', VersionInv, [Next]_vars PROVE VersionInv'
    OBVIOUS
  <2>1. CASE OnboardingStep /\ UNCHANGED docVars
    BY <2>1 DEF docVars, VersionInv, SupersededByUpload,
                NewestIsCurrent, Recorded, Current
  <2>2. CASE \E d \in Docs, t \in Types, x \in Dates \cup {NoDate} :
               RecordUpload(d, t, x)
    BY <2>2, UploadOrdered DEF VersionInv
  <2>3. CASE \E d \in Docs : ReviewRoute(d)
    BY <2>3, ReviewOrdered DEF VersionInv
  <2>4. CASE UNCHANGED vars
    BY <2>4 DEF vars, VersionInv, SupersededByUpload,
                NewestIsCurrent, Recorded, Current
  <2>5. QED
    BY <2>1, <2>2, <2>3, <2>4 DEF Next
<1>3. VersionInv => NoTypeLost /\ NewestIsCurrent
  BY TypeKept DEF VersionInv
<1>4. QED
  BY <1>1, <1>2, <1>3, Invariance, PTL DEF Spec, VersionInv
=============================================================================
