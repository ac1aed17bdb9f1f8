---------------------------- MODULE SelfService ----------------------------
(***************************************************************************)
(* What a worker submits of their own before approval: the safeguarding    *)
(* induction with its three gates and its quiz, the casual worker          *)
(* agreement, the referees and the ranked schools.  A request reads the    *)
(* rows it needs and commits later; it is served at once or left in a slot *)
(* while others commit.                                                    *)
(***************************************************************************)
EXTENDS UnitOfWork, Naturals, FiniteSets

CONSTANTS
  NoInduction,  \* no induction row has been made yet
  Versions,     \* versions of the agreement
  Lists,        \* the lists of ranked schools a worker submits
  MaxAttempts,  \* bound: attempts at the quiz
  SelfSlots,    \* slots for requests in flight
  NoSubmission  \* a slot that is free

(* One referee is the first and one the second. *)
Numbers == 1..2

(* No two entries of a list share a rank or a school. *)
Ranking(list) ==
  \A p, q \in list : p # q => p.rank # q.rank /\ p.school # q.school

Inductions ==
  [read : BOOLEAN, signed : BOOLEAN, passed : BOOLEAN, completed : BOOLEAN,
   tries : Nat]

ASSUME SelfAssumption == MaxAttempts \in Nat /\ NoInduction \notin Inductions

VARIABLES
  induction,    \* the worker's row of worker_safeguarding_inductions
  attempts,     \* how many rows of safeguarding_quiz_attempts they have
  agreements,   \* how many of worker_agreements, for each version
  references,   \* how many of worker_references, for each number
  preferences,  \* their rows of worker_school_preferences
  submitting,   \* what each slot is doing
  overlapped    \* a request committed after another since it read

tables == <<induction, attempts, agreements, references, preferences>>
selfVars == <<tables, submitting, overlapped>>

NewInduction ==
  [read |-> FALSE, signed |-> FALSE, passed |-> FALSE, completed |-> FALSE,
   tries |-> 0]

-----------------------------------------------------------------------------
(* A submission is what a request is about to write: columns of the        *)
(* induction and maybe an attempt, an agreement, a referee, or a list in   *)
(* the place of the rows its DELETE found.                                 *)

(* get_or_create_induction *)
InductionOrNew == IF induction = NoInduction THEN NewInduction ELSE induction

Induct(new, attempt) ==
  [kind |-> "induction", inserts |-> induction = NoInduction,
   changes |-> IF induction = NoInduction THEN new
                                          ELSE Changes(induction, new),
   attempt |-> attempt]

(* is_complete *)
IsComplete(i) == i.read /\ i.signed /\ i.passed

(* _check_complete *)
Checked(i) == [i EXCEPT !.completed = @ \/ IsComplete(i)]

(* record_kcsie_read: the first gate, which may be passed again. *)
RecordKcsieRead == {Induct(Checked([InductionOrNew EXCEPT !.read = TRUE]), 0)}

(* record_policy_signed: the second gate, after the first. *)
RecordPolicySigned ==
  {Induct(Checked([i EXCEPT !.signed = TRUE]), 0) :
     i \in {i \in {InductionOrNew} : i.read}}

(* Mutant of Scored: completion is tested before the pass is recorded. *)
ScoredEarly(i, passed) ==
  LET tried == [i EXCEPT !.tries = @ + 1]
  IN IF passed THEN [Checked(tried) EXCEPT !.passed = TRUE] ELSE tried

(* The induction row after an attempt. *)
Scored(i, passed) ==
  LET tried == [i EXCEPT !.tries = @ + 1]
  IN IF passed THEN Checked([tried EXCEPT !.passed = TRUE]) ELSE tried

(* submit_quiz: the third gate, after the second, until it is passed.      *)
SubmitQuiz ==
  {Induct(Scored(i, passed), 1) :
     i \in {i \in {InductionOrNew} : i.signed /\ ~i.passed},
     passed \in BOOLEAN}

(* sign_agreement: nothing happens when the version is signed already.     *)
SignAgreement ==
  {[kind |-> "agreement", version |-> v] :
     v \in {v \in Versions : agreements[v] = 0}}

(* Mutant of SubmitReference: the referee there is is not looked for. *)
SubmitReferenceBeside ==
  {[kind |-> "reference", number |-> n, new |-> TRUE] :
     n \in {n \in Numbers : references[n] <= 1}}

(* submit_reference: the referee with this number is replaced.  Two of     *)
(* them are an error, for good.                                            *)
SubmitReference ==
  {[kind |-> "reference", number |-> n, new |-> references[n] = 0] :
     n \in {n \in Numbers : references[n] <= 1}}

(* set_school_preferences: the rows there are go, the list comes.          *)
SetSchoolPreferences ==
  {[kind |-> "preferences", old |-> preferences, list |-> list] : list \in Lists}

SafeguardingRoute == RecordKcsieRead \cup RecordPolicySigned \cup SubmitQuiz

Submissions ==
  SafeguardingRoute \cup SignAgreement \cup SubmitReference
    \cup SetSchoolPreferences

(* The induction row is unique for a worker, and so is a rank and a school *)
(* among the worker's preferences; agreements and referees have no such    *)
(* constraint.                                                             *)
Accepted(s) ==
  CASE s.kind = "induction" ->
         /\ s.inserts => induction = NoInduction
         /\ attempts + s.attempt <= MaxAttempts
    [] s.kind = "preferences" ->
         LET kept == preferences \ s.old
         IN kept \cap s.list = {} /\ Ranking(kept \cup s.list)
    [] OTHER -> TRUE

(* What the commit of a submission does to the tables. *)
Write(s) ==
  \/ /\ s.kind = "induction"
     /\ induction' = IF s.inserts THEN s.changes
                                  ELSE Updated(induction, s.changes)
     /\ attempts' = attempts + s.attempt
     /\ UNCHANGED <<agreements, references, preferences>>
  \/ /\ s.kind = "agreement"
     /\ agreements' = [agreements EXCEPT ![s.version] = @ + 1]
     /\ UNCHANGED <<induction, attempts, references, preferences>>
  \/ /\ s.kind = "reference"
     /\ references' = [references EXCEPT ![s.number] = @ + IF s.new THEN 1 ELSE 0]
     /\ UNCHANGED <<induction, attempts, agreements, preferences>>
  \/ /\ s.kind = "preferences"
     /\ preferences' = (preferences \ s.old) \cup s.list
     /\ UNCHANGED <<induction, attempts, agreements, references>>

(* What is left to delete of the rows that the DELETE of w found, once s   *)
(* has committed: a row that s deleted is gone, and an equal one that s    *)
(* inserted, or anyone after it, is not the row that w found.              *)
StillThere(w, s) ==
  IF w.kind = "preferences" /\ s.kind = "preferences"
  THEN [kind |-> "preferences", old |-> w.old \ s.old, list |-> w.list]
  ELSE w

(* The requests in flight once s has committed: what they read is no       *)
(* longer current.                                                         *)
Outdated(s) ==
  [r \in SelfSlots |->
     IF submitting[r] = NoSubmission THEN NoSubmission
     ELSE [what |-> StillThere(submitting[r].what, s), fresh |-> FALSE]]

-----------------------------------------------------------------------------
(* A request that nothing overlaps. *)
SubmitAlone ==
  \E s \in Submissions :
    /\ Accepted(s)
    /\ Write(s)
    /\ submitting' = Outdated(s)
    /\ UNCHANGED overlapped

(* A request has read what it needs and waits to commit. *)
BeginSubmission(r) ==
  /\ submitting[r] = NoSubmission
  /\ \E s \in Submissions :
       submitting' = [submitting EXCEPT ![r] = [what |-> s, fresh |-> TRUE]]
  /\ UNCHANGED <<tables, overlapped>>

CommitSubmission(r) ==
  /\ submitting[r] # NoSubmission
  /\ Accepted(submitting[r].what)
  /\ Write(submitting[r].what)
  /\ submitting' = [Outdated(submitting[r].what) EXCEPT ![r] = NoSubmission]
  /\ overlapped' = (overlapped \/ ~submitting[r].fresh)

(* A refusal, a violated constraint, a crash. *)
AbortSubmission(r) ==
  /\ submitting[r] # NoSubmission
  /\ submitting' = [submitting EXCEPT ![r] = NoSubmission]
  /\ UNCHANGED <<tables, overlapped>>

SelfInit ==
  /\ induction = NoInduction
  /\ attempts = 0
  /\ agreements = [v \in Versions |-> 0]
  /\ references = [n \in Numbers |-> 0]
  /\ preferences = {}
  /\ submitting = [r \in SelfSlots |-> NoSubmission]
  /\ overlapped = FALSE

SelfNext ==
  \/ SubmitAlone
  \/ \E r \in SelfSlots :
       BeginSubmission(r) \/ CommitSubmission(r) \/ AbortSubmission(r)

SelfSpec == SelfInit /\ [][SelfNext]_selfVars

-----------------------------------------------------------------------------
(* However requests overlap, a gate is only passed after the one before    *)
(* it, the induction is completed exactly when the quiz is passed, and the *)
(* counter of attempts never exceeds the attempts on file; it equals them  *)
(* unless two requests overlapped (safeguarding.py, the gates, quiz_       *)
(* attempts and _check_complete).                                          *)
InductionInOrder ==
  induction # NoInduction =>
    /\ induction.signed => induction.read
    /\ induction.passed => induction.signed /\ induction.tries > 0
    /\ induction.completed = induction.passed
    /\ induction.tries <= attempts
    /\ ~overlapped => induction.tries = attempts

(* Unless two of a worker's requests overlap, a worker has one referee of  *)
(* a number and one signature of a version, and the preferences are the    *)
(* list of one request and not a mixture of two (worker_self.py,           *)
(* submit_reference, sign_agreement, set_school_preferences, which look    *)
(* before they insert).                                                    *)
SubmittedOnce ==
  ~overlapped =>
    /\ \A n \in Numbers : references[n] <= 1
    /\ \A v \in Versions : agreements[v] <= 1
    /\ preferences \in Lists \cup {{}}

(* However requests overlap, a gate of the induction that is passed, and   *)
(* its completion, are never undone, and no attempt leaves the file; the   *)
(* counter of attempts may fall, when two attempts overlap, and only then  *)
(* (safeguarding.py, submit_quiz; the UPDATE of changed columns).          *)
GatesStay ==
  [][/\ attempts <= attempts'
     /\ induction # NoInduction =>
          /\ induction' # NoInduction
          /\ \A g \in {"read", "signed", "passed", "completed"} :
               induction[g] => induction'[g]
          /\ ~overlapped' => induction.tries <= induction'.tries
    ]_<<induction, attempts, overlapped>>
=============================================================================
