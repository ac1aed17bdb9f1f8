----------------------------- MODULE Documents -----------------------------
(***************************************************************************)
(* The compliance documents of one worker: uploads that supersede earlier  *)
(* versions, HR's review and override, and what these do to the worker's   *)
(* profile (module Onboarding): the stage and the earliest expiry, both    *)
(* recomputed by some of the operations only.  Each operation is one       *)
(* request, served as a whole.  A worker has fewer documents than the      *)
(* first page (50) that the recomputations read.                           *)
(***************************************************************************)
EXTENDS Onboarding, FiniteSets

CONSTANTS
  Docs,         \* identifiers of the documents that may be recorded
  Types,        \* document types
  Required,     \* the types a compliant worker has approved documents of
  MaxOverrides  \* bound: how many documents have their status overridden

ASSUME DocsAssumption ==
  /\ IsFiniteSet(Docs)
  /\ None \notin Docs
  /\ MaxOverrides \in Nat

DocumentStatuses ==
  {"pending_upload", "uploaded", "under_review", "approved", "rejected",
   "expired", "superseded"}

Documents ==
  [type : Types, status : DocumentStatuses, version : Nat \ {0},
   supersedes : Docs \cup {None}, expiry : Dates \cup {NoDate}]

ASSUME DocumentAssumption == None \notin Documents

VARIABLES
  docs,       \* the rows of compliance_documents
  overridden  \* documents an audit row says were overridden

docVars == <<docs, overridden>>
vars == <<worker, noted, docs, overridden>>

Recorded(ds) == {d \in Docs : ds[d] # None}

(* list_for_worker without the superseded documents. *)
Current(ds) == {d \in Recorded(ds) : ds[d].status # "superseded"}

CurrentOf(t) == {d \in Current(docs) : docs[d].type = t}

(* Mutant of Latest: the first version. *)
LatestByAge(t) ==
  {d \in CurrentOf(t) :
     \A e \in CurrentOf(t) : docs[d].version <= docs[e].version}

(* get_latest_by_type; equal versions leave the choice to the database. *)
Latest(t) ==
  {d \in CurrentOf(t) :
     \A e \in CurrentOf(t) : docs[e].version <= docs[d].version}

Expiries(ds) ==
  {ds[d].expiry : d \in {e \in Recorded(ds) :
                           ds[e].status = "approved" /\ ds[e].expiry # NoDate}}

(* refresh_compliance_expiry *)
EarliestExpiry(ds) ==
  IF Expiries(ds) = {} THEN NoDate
  ELSE CHOOSE x \in Expiries(ds) : \A y \in Expiries(ds) : x <= y

(* compute_health: what the dashboard makes of the documents on a day, in  *)
(* place of the stored stage and expiry.                                   *)
Health(ds, today) ==
  LET Having(status) == {d \in Current(ds) : ds[d].status = status}
      Needed(status) == {d \in Having(status) : ds[d].type \in Required}
      approved == {ds[d].type : d \in Needed("approved")}
      PastExpiry(d) == ds[d].expiry # NoDate /\ ds[d].expiry < today
  IN IF worker.amber THEN "amber"
     ELSE IF Current(ds) = {} THEN "not_started"
     ELSE IF Having("expired") # {} THEN "expired"
     ELSE IF Needed("rejected") # {} THEN "non_compliant"
     ELSE IF ~(Required \subseteq approved) THEN "in_progress"
     ELSE IF \E d \in Needed("approved") : PastExpiry(d) THEN "expired"
     ELSE "compliant"

(* Mutant of RecalculatedStage: rejected documents do not count. *)
RecalculatedStageLenient(ds, stage) ==
  LET statuses == {ds[d].status : d \in Current(ds)}
  IN CASE statuses \cap {"uploaded", "under_review"} # {} -> "under_review"
       [] "approved" \in statuses -> "clearance_granted"
       [] OTHER -> stage

(* _recalculate_compliance_stage: the stage the current documents ask for, *)
(* if they ask for any.                                                    *)
RecalculatedStage(ds, stage) ==
  LET statuses == {ds[d].status : d \in Current(ds)}
  IN CASE statuses \cap {"uploaded", "under_review"} # {} -> "under_review"
       [] statuses \cap {"uploaded", "under_review"} = {}
            /\ "rejected" \in statuses -> "clearance_denied"
       [] statuses = {"approved"} -> "clearance_granted"
       [] OTHER -> stage

-----------------------------------------------------------------------------
NewDocument(t, x, version, superseded) ==
  [type |-> t, status |-> "uploaded", version |-> version,
   supersedes |-> superseded, expiry |-> x]

(* Mutant of RecordUpload: the previous version is not superseded. *)
RecordUploadBeside(d, t, x) ==
  /\ worker # None
  /\ docs[d] = None
  /\ docs' = [docs EXCEPT ![d] = NewDocument(t, x, 1, None)]
  /\ UNCHANGED <<worker, noted, overridden>>

(* Only a document that was uploaded is superseded: beside one that is     *)
(* still pending, a second version 1 is recorded.                          *)
RecordUpload(d, t, x) ==
  /\ worker # None
  /\ docs[d] = None
  /\ \/ /\ \/ CurrentOf(t) = {}
           \/ \E e \in Latest(t) : docs[e].status = "pending_upload"
        /\ docs' = [docs EXCEPT ![d] = NewDocument(t, x, 1, None)]
     \/ \E e \in Latest(t) :
          /\ docs[e].status # "pending_upload"
          /\ docs' = [docs EXCEPT
               ![d] = NewDocument(t, x, docs[e].version + 1, e),
               ![e].status = "superseded"]
  /\ worker' =
       IF worker.stage \in {"not_started", "awaiting_documents"}
       THEN [worker EXCEPT !.stage = "documents_received"]
       ELSE worker
  /\ UNCHANGED <<noted, overridden>>

Reviewable == {"uploaded", "under_review"}

SetStatus(d, from, to) ==
  /\ docs[d] # None
  /\ docs[d].status \in from
  /\ docs' = [docs EXCEPT ![d].status = to]

(* Mutant of ApproveDocument: the expiry is not refreshed. *)
ApproveDocumentStale(d) ==
  /\ SetStatus(d, Reviewable, "approved")
  /\ worker' = [worker EXCEPT !.stage = RecalculatedStage(docs', @)]
  /\ UNCHANGED <<noted, overridden>>

ApproveDocument(d) ==
  /\ SetStatus(d, Reviewable, "approved")
  /\ worker' = [worker EXCEPT !.expires = EarliestExpiry(docs'),
                              !.stage = RecalculatedStage(docs', @)]
  /\ UNCHANGED <<noted, overridden>>

(* A rejection recomputes nothing. *)
RejectDocument(d) ==
  /\ SetStatus(d, Reviewable, "rejected")
  /\ UNCHANGED <<worker, noted, overridden>>

RequestReupload(d) ==
  /\ SetStatus(d, Reviewable \cup {"rejected"}, "rejected")
  /\ UNCHANGED <<worker, noted, overridden>>

(* Any status but superseded, from any, superseded ones included.  The     *)
(* expiry is refreshed by an approval only.                                *)
OverrideStatus(d, to) ==
  /\ Cardinality(overridden \cup {d}) <= MaxOverrides
  /\ to # "superseded"
  /\ SetStatus(d, DocumentStatuses, to)
  /\ worker' = [worker EXCEPT
       !.expires = IF to = "approved" THEN EarliestExpiry(docs') ELSE @,
       !.stage = RecalculatedStage(docs', @)]
  /\ overridden' = overridden \cup {d}
  /\ UNCHANGED noted

ReviewRoute(d) ==
  \/ ApproveDocument(d)
  \/ RejectDocument(d)
  \/ RequestReupload(d)
  \/ \E to \in DocumentStatuses : OverrideStatus(d, to)

Init ==
  /\ OnboardingInit
  /\ docs = [d \in Docs |-> None]
  /\ overridden = {}

Next ==
  \/ OnboardingStep /\ UNCHANGED docVars
  \/ \E d \in Docs :
       \/ \E t \in Types, x \in Dates \cup {NoDate} : RecordUpload(d, t, x)
       \/ ReviewRoute(d)

Spec == Init /\ [][Next]_vars

-----------------------------------------------------------------------------
(* Type invariant.  Documents belong to a profile, a document supersedes   *)
(* a recorded one of its own type, and overridden ones are recorded.       *)
TypeOK ==
  /\ OnboardingTypeOK
  /\ docs \in [Docs -> Documents \cup {None}]
  /\ overridden \in SUBSET Docs
  /\ overridden \subseteq Recorded(docs)
  /\ Recorded(docs) # {} => worker # None
  /\ \A d \in Recorded(docs) :
       docs[d].supersedes # None =>
         /\ docs[docs[d].supersedes] # None
         /\ docs[docs[d].supersedes].type = docs[d].type
         /\ docs[docs[d].supersedes].version < docs[d].version

(* The stored expiry is never later than that of an approved document in   *)
(* force, whatever was superseded or overridden since it was computed: a   *)
(* worker is never taken for cleared past the earliest of them             *)
(* (compliance_document.py, refresh_compliance_expiry).  It may be         *)
(* earlier: superseding a document or overriding it away leaves its date.  *)
ExpiryNotLate ==
  \A d \in Recorded(docs) :
    docs[d].status = "approved" /\ docs[d].expiry # NoDate =>
      worker.expires # NoDate /\ worker.expires <= docs[d].expiry

(* The dashboard looks at the documents and others at the stored expiry:   *)
(* whoever the dashboard calls expired on a day has a document that was    *)
(* marked so, or a stored expiry before that day                           *)
(* (compliance_dashboard.py, compute_health).                              *)
ExpiredIsStored ==
  worker # None =>
    \A today \in Dates :
      Health(docs, today) = "expired" =>
        \/ \E d \in Recorded(docs) : docs[d].status = "expired"
        \/ worker.expires # NoDate /\ worker.expires < today

(* A worker has one current version of each type, as long as nobody        *)
(* overrode the status of a document of that type (compliance_document.py, *)
(* record_upload).                                                         *)
OneCurrentVersion ==
  \A d, e \in Current(docs) :
    docs[d].type = docs[e].type =>
      d = e \/ \E f \in overridden : docs[f].type = docs[d].type

(* The versions of a document are a chain, even if an override brings a    *)
(* superseded one back: no document is superseded twice                    *)
(* (compliance_document.py, record_upload).                                *)
SupersededOnce ==
  \A d, e \in Recorded(docs) :
    docs[d].supersedes # None /\ docs[d].supersedes = docs[e].supersedes =>
      d = e

(* Clearance is only granted to a worker that HR approves in that very     *)
(* request, or whose current documents are then all approved: a worker who *)
(* was approved before and lost the clearance to a review only has it back *)
(* with all of them (hr_review.py, _recalculate_compliance_stage;          *)
(* onboarding.py).                                                         *)
ClearanceIsEarned ==
  [][worker # None /\ worker'.stage = "clearance_granted"
       /\ worker.stage # "clearance_granted" =>
         \/ /\ worker.status # "approved" /\ worker'.status = "approved"
            /\ noted' = "approved"
         \/ \A d \in Current(docs') : docs'[d].status = "approved"]_vars
=============================================================================
