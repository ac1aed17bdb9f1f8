----------------------------- MODULE Onboarding -----------------------------
(***************************************************************************)
(* The profile of one worker: the onboarding status that HR sees, the      *)
(* internal compliance stage, the amber and suspension marks.  Each        *)
(* operation is one request, served as a whole; module Documents adds the  *)
(* worker's documents, which move the stage and the expiry as well.        *)
(***************************************************************************)
EXTENDS Naturals

CONSTANTS
  None,   \* no profile, no note, no document
  Dates,  \* the days on which a document may expire
  NoDate  \* no expiry

ASSUME DatesAssumption == Dates \subseteq Nat /\ NoDate \notin Dates

OnboardingStatuses ==
  {"draft", "submitted", "under_review", "approved", "rejected",
   "suspended", "expired"}

(* The stages that some operation writes or tests; "dbs_check_pending" and *)
(* "rtw_check_pending" are never either.                                   *)
ComplianceStages ==
  {"not_started", "awaiting_documents", "documents_received",
   "under_review", "clearance_granted", "clearance_denied",
   "recheck_required"}

ASSUME NoneAssumption == None \notin OnboardingStatuses

Profiles ==
  [status : OnboardingStatuses, stage : ComplianceStages, amber : BOOLEAN,
   suspended : BOOLEAN, expires : Dates \cup {NoDate}]

ASSUME ProfileAssumption == None \notin Profiles

VARIABLES
  worker,  \* the worker's row of worker_profiles
  noted    \* new_status of the worker's latest status_change note

(* The column defaults. *)
NewProfile ==
  [status |-> "draft", stage |-> "not_started", amber |-> FALSE,
   suspended |-> FALSE, expires |-> NoDate]

Transitions ==
  [draft        |-> {"submitted"},
   submitted    |-> {"approved", "under_review", "rejected", "draft"},
   under_review |-> {"approved", "rejected", "submitted"},
   approved     |-> {"suspended", "expired", "under_review"},
   rejected     |-> {"draft", "submitted"},
   suspended    |-> {"approved", "rejected"},
   expired      |-> {"under_review", "rejected"}]

MayMove(from, to) == to \in Transitions[from]

-----------------------------------------------------------------------------
(* Mutant of Record: a note is only written once there is one. *)
RecordUnlessFirst(to) == noted' = IF noted = None THEN None ELSE to

(* _record_transition: the note beside the new status. *)
Record(to) == noted' = to

(* A legal transition writes the status and these columns, and notes it.   *)
Move(to, columns) ==
  /\ worker # None
  /\ MayMove(worker.status, to)
  /\ worker' = [columns EXCEPT !.status = to]
  /\ Record(to)

CreateProfile ==
  /\ worker = None
  /\ worker' = NewProfile
  /\ UNCHANGED noted

SubmitForReview ==
  Move("submitted", [worker EXCEPT !.stage = "documents_received"])

StartReview ==
  Move("under_review", [worker EXCEPT !.stage = "under_review"])

(* Also lifts a suspension, and leaves the suspension columns as they are. *)
ApproveWorker ==
  Move("approved", [worker EXCEPT !.stage = "clearance_granted",
                                  !.amber = FALSE])

RejectWorker ==
  Move("rejected", [worker EXCEPT !.stage = "clearance_denied"])

SuspendWorker ==
  Move("suspended", [worker EXCEPT !.suspended = TRUE])

(* Asks for a transition to approved, not for a suspended worker: it also  *)
(* approves a submitted one.                                               *)
ReinstateWorker ==
  Move("approved", [worker EXCEPT !.stage = "clearance_granted",
                                  !.suspended = FALSE])

(* No route calls it. *)
MarkExpired ==
  Move("expired", [worker EXCEPT !.stage = "recheck_required"])

(* Whatever the status. *)
SetAmber ==
  /\ worker # None
  /\ worker' = [worker EXCEPT !.amber = TRUE]
  /\ UNCHANGED noted

ClearAmber ==
  /\ worker # None
  /\ worker' = [worker EXCEPT !.amber = FALSE]
  /\ UNCHANGED noted

(* The worker's own route, beside the service: neither the transition      *)
(* table nor a note, and the stage stays.                                  *)
SubmitOwnApplication ==
  /\ worker # None
  /\ worker.status = "draft"
  /\ worker' = [worker EXCEPT !.status = "submitted"]
  /\ UNCHANGED noted

OnboardingRoute ==
  \/ SubmitForReview
  \/ StartReview
  \/ ApproveWorker
  \/ RejectWorker
  \/ SuspendWorker
  \/ ReinstateWorker
  \/ SetAmber
  \/ ClearAmber

OnboardingStep ==
  \/ CreateProfile
  \/ OnboardingRoute
  \/ MarkExpired
  \/ SubmitOwnApplication

OnboardingInit == worker = None /\ noted = None

-----------------------------------------------------------------------------
(* Types of the profile. *)
OnboardingTypeOK ==
  /\ worker \in Profiles \cup {None}
  /\ noted \in OnboardingStatuses \cup {None}

(* The notes tell the worker's status: it is the one the latest note gives *)
(* and, before the first note, draft or the worker's own submission, which *)
(* writes none (onboarding.py, _record_transition; worker_self.py,         *)
(* submit_application).  No operation takes a worker back to draft, as the *)
(* transition table would let it; the two ways to submit rely on that.     *)
NotesTellStatus ==
  IF noted = None
  THEN worker = None \/ worker.status \in {"draft", "submitted"}
  ELSE worker # None /\ worker.status = noted /\ noted # "draft"
=============================================================================
