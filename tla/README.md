# Formal models of the supply-staff booking API

TLA+ specifications of the parts of the API whose correctness depends on the
order in which requests run: bookings and their offers, attendance, first-shift
verification, timesheets, onboarding and its documents, the single central
record, what workers submit of their own, and the provisioning of users over two
stores. TLC checks them on small instances; TLAPS proves nearly every safety
property they check for any number of bookings, workers, documents and requests.

## The system

The API is a FastAPI application over SQLAlchemy (async) and PostgreSQL. Every
request gets one session (`app/core/dependencies.py`, `get_db`): the route runs,
then the session commits; an exception rolls it back. There are no background
jobs and no shared memory between requests: components interact by calling each
other inside one request and through the rows they share. One component also
calls another store, the authentication service Supabase, from inside its
transaction (`supabase_admin.py`, with a timeout of ten seconds).

Three facts about the database decide which interleavings exist:

* Transactions run at PostgreSQL's default, READ COMMITTED. Each query sees what
  was committed when it began. No query takes a row lock and no row has a
  version column.
* An UPDATE contains only the attributes whose value differs from the one loaded
  (SQLAlchemy's unit of work), and it waits for another transaction that wrote
  the row. It does not re-test the condition the service tested.
* A few constraints do hold at commit: UNIQUE `(booking_id, worker_id)` on
  offers, at most one accepted offer per booking (a partial unique index),
  UNIQUE `(worker_id, school_id)` on first-shift verifications, UNIQUE
  `worker_id` on central records and on safeguarding inductions, UNIQUE rank and
  UNIQUE school among a worker's preferences, and the key of `users`, which is
  the id of the Supabase account. Referees, agreements and documents have none.

### Components

| Component (`app/services/…`) | State it keeps | Operations | What makes it correct |
|---|---|---|---|
| Booking (`booking.py`) | booking row, offers, status log | create, patch, dispatch, accept, claim, decline, confirm, cancel, expire | status machine; one winner; offers agree with the booking; the log is a chain |
| Attendance (`attendance.py`) | booking status | check in, complete, no-show, override | nobody works without first-shift clearance |
| Matching (`worker_matching.py`) | none (queries) | eligible workers of a broadcast | approved, free on the date, not marked unavailable |
| Availability (`availability.py`) | calendar | set, set in bulk, preferences | no unavailable date over a shift |
| First shift (`first_shift.py`) | verification records, `first_shift_cleared` | verify | the flag says exactly that a record exists |
| Timesheets (`timesheet.py`) | timesheet, correction records | draft, submit, approve, reject, request correction | one per booking; approval is final; replaced figures are kept |
| Onboarding (`onboarding.py`) | onboarding status, stage, notes | submit, review, approve, reject, suspend, reinstate, expire | status machine; only complete workers are approved |
| Compliance documents (`compliance_document.py`) | document versions, the worker's earliest expiry | upload | one current version per type; the stored expiry is never late |
| HR review (`hr_review.py`) | document statuses, the worker's stage | approve, reject, request re-upload, override | clearance is earned |
| Single central record (`scr.py`) | recorded checks, computed status | some twenty mutations | the status is the one the checks ask for |
| Safeguarding (`safeguarding.py`) | induction gates, quiz attempts | acknowledge, sign, quiz | the gates are passed in order |
| Worker self-service (`worker_self.py`) | agreements, referees, ranked schools, DBS declarations | sign, submit, rank, declare | what is submitted once is there once |
| Provisioning (`user_provisioning.py`, `worker_registration.py`, `supabase_admin.py`) | local user, profile, roles, external account | invite, register, visit, assign, revoke, deactivate | every user has an account; a failed registration can be completed |
| Compliance dashboard (`compliance_dashboard.py`) | none (computes) | health of a worker | agrees with the stored expiry |
| Audit, events, other dashboards, auth | append-only log, nothing else | | read by no service |

A booking reads the worker's profile (onboarding, first shift) and the calendar
when it is dispatched and when the worker is checked in; the calendar reads the
bookings; a timesheet reads its booking once, when it is drafted. Onboarding
and HR review write the same profile row: the one its status, both its stage, and
the documents its earliest expiry. The central record, the induction and the rest of a worker's
own submissions share no row.

### Hard behaviours

* **Check-then-act across overlapping requests.** Every service tests a status
  it loaded and writes later without a lock. Two accepts, a cancel against an
  accept, an approval against a rejection: the second writer wins.
* **Constraints that stand in for locks.** What still holds under overlap holds
  because of a few unique constraints, not because of the services' tests.
* **Paths nobody walks in a test.** Overrides from any status, claims that skip
  dispatch, patches of the date after dispatch, claims after a decline.
* **Two representations of one fact.** Booking and offers, status and status
  log, clearance flag and verification records, lock and status of a timesheet.
* **Computed values that go stale.** The status of the central record, the stage
  and the earliest expiry of a worker are computed from other rows and stored;
  some operations recompute them and some do not, from rows that others change.
* **Two stores, no common transaction.** An invitation makes an account and then
  a row; a registration makes a row, then patches the account, then commits.
  Calls and answers get lost, time out while still on their way, and the server
  stops in between.
* **Look before you insert.** Inductions, referees, agreements and preferences are
  looked for and then written, with a unique constraint behind some of them.
* **Rollback.** An expired offer is marked expired by the very request that then
  raises, so the mark never survives.

`PROJECT.json` lists each hazard at its line with the property that would catch it.

## Modules

| Module | Models | How it relates to the code |
|---|---|---|
| `BookingStatus` | enums and tables | `_TRANSITIONS`, the override targets, the statuses that occupy a date |
| `BookingLifecycle` | abstract specification | one booking seen from outside: phase, winner, forced; first award wins |
| `Booking` | booking, attendance, matching, calendar | one action per service method, named after it; a whole request per step |
| `BookingRequests` | the same handlers, overlapping | one step per query, one for writes and commit; a slot of `req` holds what a request has read |
| `FirstShiftRegister` | abstract specification | a register: a verification is recorded and its worker cleared at one instant, for good |
| `FirstShift` | first-shift verification | `find`, `insert`, `list`, `commit` as in `verify_first_shift`; the gate of `check_in` |
| `Timesheet` | timesheets over `BookingLifecycle` | a load-and-test step and a write step per service method |
| `Onboarding` | the worker's profile | one action per method of `OnboardingService`, and the worker's own submit route |
| `Documents` | documents and their review, over `Onboarding` | one action per upload, review and override; the recomputed stage and expiry, and the dashboard's health, are operators named after the code's |
| `UnitOfWork` | the changed columns of an UPDATE | what SQLAlchemy sends for a row that was loaded |
| `CentralRecord` | the central record, overlapping | every mutation computes a row from the one it loaded; `Serve` commits it at once or leaves it in a slot of `pending` |
| `SelfService` | safeguarding gates, quiz, agreement, referees, ranked schools, overlapping | every route is the set of submissions it may decide on; served at once or left in a slot of `submitting` |
| `Provisioning` | invitation, registration, first visit, roles, deactivation | one action per step of a request; calls on their way to Supabase are a set |
| `BookingProofs`, `BookingRequestsProofs`, `FirstShiftProofs`, `TimesheetProofs`, `DocumentsProofs`, `CentralRecordProofs`, `SelfServiceProofs`, `ProvisioningProofs` | theorems | each extends the module it is about |
| `MCBooking`, `MCBookingRequests`, `MCFirstShift`, `MCTimesheet`, `MCDocuments`, `MCWorkerFile` | TLC instances | symmetry sets, lists of schools and the one state constraint |

`MCWorkerFile` puts `CentralRecord` and `SelfService` side by side: they write no table
in common, so each is explored with the other at rest.

`Timesheet` EXTENDS `BookingLifecycle` in place of `Booking`: a timesheet sees only the
status and the award of its booking, and `Booking` implements that lifecycle
(`ImplementsLifecycle`, checked and proved). Overlapping booking requests do
not implement it (see *Divergences*), so what `Timesheet` shows assumes
booking requests that do not race each other.

### Abstractions

* **Rows.** A table is a function from identifiers, with `"none"` (or a `No…`
  value) for a row that is not there. Times, notes, actors, rates and locations
  are left out. `booking_offers` is a function of booking and worker, which its
  unique constraint allows. Of the status log the latest row is kept; an action
  property relates it to the one before.
* **Time.** The wall clock appears where the code asks it: an offer's window has
  closed or not (`windowClosed`, `WindowCloses`), a date has passed or not.
* **Matching.** Role and radius only narrow the set of workers, so a broadcast
  goes to any non-empty set of those who pass the other tests.
* **Onboarding.** In `Booking` and `FirstShift` only "approved or not", which any
  review may toggle; `Onboarding` has the whole status machine.
* **One worker.** `Onboarding`, `Documents`, `CentralRecord` and `SelfService` are about
  one worker: no operation of theirs reads or writes another worker's rows.
* **Checks of the central record.** A recorded date is "dated", whatever the
  day; a reference is one of two statuses, "verified" and one that stands for
  all the others, between which the code allows every move.
* **Expiries.** Documents expire on one of the naturals `Dates`, which is all that
  a minimum needs. A worker has fewer documents than a page (50).
* **Ranked schools.** The rows are a set of values. A list in flight carries the rows its
  DELETE found and nobody has deleted since (`StillThere`), so an equal row that another
  list puts back is not deleted with them; it refuses the list by the unique constraint.
* **Quiz.** An attempt is passed or failed; which questions were drawn and the
  score that decides are left out.
* **Supabase.** Accounts and the trust in their metadata are two sets; a call is
  applied or refused when it arrives. External, and modelled from how
  `supabase_admin.py` calls it and what it does with the answers.
* **Figures.** A submission carries one of a set `Hours`: the properties ask
  which figures are stored, never what they add up to.
* **Overlap.** A request's reads are separate steps, in the code's order. Its
  writes and commit are one step: the first UPDATE of a row keeps its lock to the
  commit, so writers of one row are ordered as their commits are. A request may
  vanish at any moment (`Abort`): a refused constraint, a database deadlock, a
  crash. `BookingRequests` has no `crash` variable because a crash leaves
  nothing but the rollback. In `CentralRecord` and `SelfService` all reads of a
  request are one step too: each reads one row, or one count, that it acts on.
  `Provisioning` has a step per insert, call, answer and commit, and a crash of
  its own: there a crash does leave something, in the other store.

## Runs

Deadlock checking is on everywhere.

| Run | Instance | States | Shows |
|---|---|---|---|
| `booking_serial` | 1 booking, 2 workers, 1 date | 140 thousand | offers agree with bookings (`AssignmentMatchesOffers`, `OpenOffersOnlyOnOffer`), workers are shown the right shifts (`ShownToTheRightWorkers`), the log tells the status and is a chain (`HistoryTellsStatus`, `HistoryIsChain`), the gate holds (`UnderWayIsCleared`), answers are final (`AnswersAreFinal`), and the service implements the lifecycle (`ImplementsLifecycle`) |
| `booking_race` | 1 booking, 2 workers, 1 date, 1 request in flight among whole requests | 1.2 million | one accepted offer (`OneAcceptedOffer`), an assigned worker has answered (`TakenByAnAnswer`), no answered offer is reopened (`NeverReopened`) |
| `double_booking` | 2 bookings, 1 worker, 1 date | violation | `NoDoubleBooking` |
| `first_accept_wins` | as `booking_race` | violation | `FirstAcceptWins` |
| `first_shift_overlap` | 2 workers, 2 schools, 2 requests in flight | 541 thousand | flag and records agree (`ClearedIffVerified`), one record per school (`OneRecordPerSchool`), only verified workers were checked in (`AttendedWasVerified`), each verification takes effect at one instant (`ImplementsRegister`) |
| `first_shift_matched` | 1 worker, 1 school, 1 request | violation | `AttendedWasMatched` |
| `timesheet_serial` | 2 bookings, 2 timesheets, 2 figures, 1 request in flight | 32 thousand | one timesheet per booking (`OneSheetPerBooking`), decisions are final (`DecisionsAreFinal`), replaced figures are kept (`FiguresAreKept`) |
| `timesheet_overlap` | 1 booking, 2 timesheets, 2 figures, 2 requests in flight | 123 thousand | paid shifts were awarded (`PaidShiftsWereAwarded`), decisions have figures and a lock (`DecisionsHaveFigures`) |
| `timesheet_locked` | as `timesheet_overlap` | violation | `ApprovedIsLocked` |
| `compliance` | 3 documents, 2 types, 2 dates, 1 document overridden | 880 thousand | notes tell the status (`NotesTellStatus`), the stored expiry is never late (`ExpiryNotLate`), one current version (`OneCurrentVersion`), versions are a chain (`SupersededOnce`), clearance is earned by an approval of the worker in that request or by approved documents (`ClearanceIsEarned`) |
| `worker_file` | 1 request in flight among whole ones, 3 quiz attempts, 4 lists of schools | 1.0 million | a compliant worker was seen in person (`CompliantSeenInPerson`), the status is stale only by the DBS routes or a race (`StaleOnlyByDbs`), gates in order (`InductionInOrder`), no duplicates without a race (`SubmittedOnce`), no check is taken off the record and no suspension is lifted but by a race (`ChecksStand`), no gate or attempt is undone (`GatesStay`) |
| `provisioning` | 1 person, 2 kinds of role, 3 requests in flight, 2 faults | 144 thousand | every user has an account (`UserHasAccount`), a profile implies a user row, a row of the worker role and metadata (`RegisteredHasMetadata`), a user is made once and only moves on, but for a visit in flight (`UserMovesOn`), requests end (`RequestsEnd`), a retry completes a registration (`RegistrationSucceeds`) |

Each property of a passing run has a mutant: an operator named after the
definition it breaks, placed just before it, that makes the mistake its comment
names and violates the property.

### Bounds

* One booking is enough for everything but double booking: bookings meet only in
  the date query, and only dispatch and the calendar use its answer.
  `double_booking` has two.
* Two workers: a winner and a loser. A third would be a second loser.
* `booking_race` has one slot, and every request also runs whole. Two requests
  that race have, up to the order of steps that commute, one that commits in the
  middle of the other: that is a whole request between two steps of the slot. Races
  of three requests, two of them in flight, are not covered.
  `UnderWayIsCleared` is proved for this case (`GateHoldsInRaces`) and not run: it
  takes three requests to break (an accept and a check-in in flight at once, while
  another accept and a confirmation commit).
* `StillCalendar` in the race runs: clock and calendar do not move. They only
  take requests away (a closed window, a passed date, a busy worker), which an
  abort does as well.
* Two schools, two workers, two requests in `first_shift_overlap`: two first
  verifications at different schools and at the same one, with a bystander. The
  theorems of `FirstShiftProofs` drop this bound.
* Two timesheets and two figures: a duplicate and a replacement.
* `booking_serial` and `timesheet_serial` take requests one at a time. So
  `UnderWayIsCleared` does not show a check-in that tests a stale worker there (the
  theorem `GateHoldsInRaces` does), and `OneSheetPerBooking` and `DecisionsAreFinal` say
  nothing of two requests on one sheet or booking in flight together: two drafts then
  make two sheets, and an approval that overlaps a rejection or a correction is what
  `timesheet_locked` refutes. `timesheet_overlap` has what is left.
* Three documents of two types: a version and its successor of one type beside
  another type, or a chain of three. One override (`MaxOverrides`) is enough to
  resurrect a superseded document; two cost time and show nothing new. Two
  dates: an earlier and a later expiry.
* `worker_file`: one slot among whole requests, as in `booking_race`: every race
  of two. `MaxAttempts` is 3: a failed attempt, one that overlaps it, a passed one.
  The lists of schools are one alone, one that fits beside it, one that shares
  ranks or schools with each, and one the database refuses. Of the checks that
  the status does not ask for, one of each kind.
* `provisioning`: three requests for one person (an invitation, a registration and its
  retry); `MaxFaults` is 2, so that the retry fails as well. Two people and two
  requests, tried once beside the run, have 484 thousand states and hold too:
  people share nothing but the request slots.

`MaxOverrides`, `MaxAttempts` and `MaxFaults` are the only bounds in guards. No
proof uses their values.

### Fairness and liveness

Nothing in the code makes an offer be answered, a window be closed
(`expire_booking` has no caller), a timesheet be decided or a document be
reviewed: those steps wait for a person, so their specifications have no
fairness. The deadlock check says the complementary thing, that some request is
always possible.

Provisioning is different: a request there waits for another machine. `FairSpec`
assumes, and no more,

* weak fairness of a request's own steps (`InsertUser`, `TimeOut`, `Commit`): the server
  goes on with what it can go on with, the HTTP client gives up after ten seconds
  (`supabase_admin.py`), and the database lets the waiting insert of a key proceed
  once the holder's transaction ended;
* weak fairness of `Answer`: as long as calls are on their way, Supabase answers some;
* strong fairness of `Register` per person: a worker who has an account and no
  user row tries again. This one is about people. It is what the comment
  "Idempotent" in `worker_registration.py` offers them, and
  `RegistrationSucceeds` says that the offer is kept.

Losses, failures and crashes have no fairness; their number is bounded by
`MaxFaults`, because no retry succeeds against a network that fails forever.
`RequestsEnd` needs the time-out: with its mutant, which waits for lost answers,
a request never ends.

## Divergences between the code and its documentation

| Run | What TLC shows |
|---|---|
| `double_booking` | Accepting and claiming do not look at the worker's other shifts. Two claims on one date suffice, one after the other, although the tests' header says double-bookings are prevented. |
| `first_accept_wins` | Of two overlapping accepts the one that commits last takes the shift over. The winner's offer becomes `expired`, so the unique index is respected and the guarantee its comment names is not. The index refuses this only if the new offer's UPDATE is sent while the old one is still accepted; `expire_all_for_booking` flushes first and prevents that. |
| `first_shift_matched` | A verification recorded with `dbs_seen_and_matched = false` clears the worker, and the worker can be checked in. |
| `timesheet_locked` | A rejection or correction that tested the status before an approval committed changes the approved timesheet. One with a correction requested can then be submitted again; a rejected one cannot. |

Also seen and not given a run, because they have the cause of
`first_accept_wins` (a tested status that is stale when written): a cancellation
lost under an accept or a confirmation; a date marked unavailable over a
shift accepted meanwhile; two timesheets drafted for one booking; figures lost
to two overlapping submissions. And the header of `first_shift.py` calls a verification school-scoped, while
`check_in` takes one for the whole trust; the models follow the code.

What the code does in the other components, where its comments, names or a
reader would have it otherwise. The models do the same, and the properties are
stated as what is left:

* **Documents.** An override may bring a superseded version back beside its
  successor (`OneCurrentVersion` excepts overridden types). A rejection and a
  re-upload recompute neither stage nor expiry, an override recomputes the expiry
  only when it approves: the expiry may be too early, never too late
  (`ExpiryNotLate`). A document over one still pending is a second version 1.
* **Onboarding.** Reinstatement asks for a transition to "approved", so that it
  approves submitted workers and ones under review as well; approving a
  suspended worker leaves the suspension marks. The worker's own submission
  (`worker_self.py` 176-191) writes no note and does not test the safeguarding
  gates that `safeguarding.py:9` says are completed before it.
* **Central record.** `scr.py:328` says the status is recomputed after every
  mutation; the worker's DBS routes do not (`StaleOnlyByDbs`). Overlapping
  requests leave a status "compliant" over a reference taken back meanwhile.
  The comment at `scr.py:81` says the in-person method satisfies the initial and
  the physical check; it sets the initial one only. `unsuspend` finds the status
  suspended and returns: it lifts nothing. `scr.py:330` says that a suspension is never
  lifted automatically; a recomputation that overlaps it does (`ChecksStand`). Recording qualifications without a
  date clears the one there was. The date of a DBS risk assessment leaves the
  "not applicable" beside it.
* **Self-service.** Two overlapping submissions of a referee make two rows, after
  which the lookup, which expects at most one, fails for good. A replaced
  referee keeps the status of the previous one. Overlapping lists of schools may mix.
* **Provisioning.** An invitation whose answer is lost leaves an account without a
  user row, and Supabase may refuse to invite it again; only the person's own
  registration completes it. Somebody invited who then registers gets no worker
  profile. A visit that read "invited" reactivates a user deactivated meanwhile
  (`UserMovesOn` has that one exception), and roles can be given to a deactivated user. The metadata may name the trust
  while the transaction that patched them was lost: harmless, as a retry succeeds.
* **Bookings.** A claim tests that the shift is not in the past, an accept does
  not. The board shows directed bookings to every worker, and a claim of one is served.
  `booking_dashboard.py:43` counts directed bookings among the shifts with "no worker
  assigned yet".

## Proofs

The provers need no bound: the constants are arbitrary sets, under the
assumptions that the null values (`NoWorker`, `NoDate`, `NoRow`, `NoHours`,
`NoBooking`, `Idle`) are not members of the sets they extend.

**`BookingProofs`.** `TypeCorrect`, then `Invariance` for

    IInv == TypeOK /\ AssignmentMatchesOffers /\ OpenOffersOnlyOnOffer
                   /\ HistoryTellsStatus /\ UnderWayIsCleared

None of the four is inductive alone. `check_in` skips the gate for a booking
without a worker, so `UnderWayIsCleared` needs a confirmed booking to have one,
which `AssignmentMatchesOffers` says. An override leaves open offers
(`OpenOffersOnlyOnOffer`); that nobody accepts one needs the log to say the
booking is in a terminal status (`HistoryTellsStatus`). `BookingStepSafe` has one step
per action. From the invariant follow the action properties (`AnswersFinal`,
`HistoryChained`) and the refinement: `LifecycleRefinement` maps `winner` to the
worker of the accepted offer and `forced` to the bookings whose latest row is an
override, with a lemma for each kind of step (`AssignAwards`, `MoveAdvances`,
`ExpiryKeepsWinners`, `ServiceForcesNothing`).

`ClashesHaveCauses` says how far the divergence of the run `double_booking` goes: a
worker comes to be on two shifts of one date only by answering for a second one
or because PATCH moves a shift, and by no other request (`TakenHow`, for one booking).

**`FirstShiftProofs`.** Any number of overlapping verifications. The invariant
says what a request in flight knows (one that counted only itself is either
still right, or the worker is cleared by now) and that two uncommitted records
never concern one worker and school. `FlagMatchesRecords`, `RecordsAreUnique`
and `AttendanceVerified` follow. The point of the argument: under READ COMMITTED
two first verifications cannot each see the other, so at least one sets the flag.

`RegisterRefinement` shows that the four steps of a verification amount to one: every
behaviour is one of `FirstShiftRegister`, whose `Verify` records and clears at once.
A verification takes effect at its commit, whether the count it made there sets
the flag or finds it set (`CommitEffect`); its earlier steps, an abort and HR's reviews are
stutters. The register keeps no approval, because the code lets an approval be
withdrawn between the test and the commit.

**`TimesheetProofs`.** Any number of overlapping requests. A request keeps what it
relied on (an award is permanent, figures are never withdrawn), so a draft is for
a shift that was awarded or forced (`AwardedBeforePaid`), and decisions have
figures and a lock (`FiguresBeforeDecisions`), even where the status is overwritten.

A second part is about requests that do not overlap (`OneRequest`: one slot). What
such a request loaded is still so when it writes (`StillCurrent`), and the status of a
timesheet tells its figures and its lock (`StatusFits`): `OneSheet`, `DecisionsFinal` and
`FiguresKept`. `LockedIfApart` says the same of the claim that the run `timesheet_locked`
refutes: what breaks it is the overlap and nothing else. With two slots all four are false.

**`BookingRequestsProofs`.** Any number of overlapping booking requests. The tables
promise less than `BookingProofs` shows of whole requests (one accepted offer, the
worker of a taken booking has answered), and `StillTrue` says which part of a stale read
can be trusted: the booking still exists; a request that would leave it taken
without asking for it loaded a taken one, and its worker has answered; the worker
it read is still on it, or one who answered took the place. No write takes an answer back
or puts somebody on a booking who gave none (`NotReopened`, `Stays`), which is why
`StillTrue` survives the writes of others (`SlotStays`). `OneAccepted`, `TakenAnswered` and
`AnswersStayGiven` follow.

A second part asks what overlap does to the gate of `check_in`, which tests the
worker it loaded with the booking. With one request in flight among whole ones
(`OneInFlight`) it holds (`GateHoldsInRaces`). `GateInv` says why: a check-in in
flight loaded a booking that is past its acceptance (`Settled`), and stays so; its worker is
still the booking's, since only a request that assigns replaces a worker and a
whole one does not assign to such a booking; and by the time it writes, the worker
it tested is cleared (`CheckInStands`, `SlotGate`). What a request leaves is judged by the
kind of its write (`GateWrites`) and by what whole requests do meanwhile
(`GateSurvives`, `WholeSettled`).

`SerialFirstAcceptWins` proves, of whole requests, the guarantee that the run
`first_accept_wins` refutes for overlapping ones.

**`DocumentsProofs`.** Any documents, types, dates and number of overrides. `TypeOK`
holds the links between versions. `OneCurrentVersion` and `SupersededOnce` are not inductive: the
invariant adds that a document that was superseded by another has a later version
of its type in force, overridden or not (`SuccessorInForce`), and that only an override leaves a
document pending (`PendingWasOverridden`). `VersionsOrdered` goes further: once a type has a document it
is never without a current one (`NoTypeLost`), and while nobody overrides the type the
current one is the newest and no two versions have the same number (`NewestIsCurrent`). `ExpiryCorrect` rests on two lemmas about the least of a finite set
of dates; `ClearanceEarned` is an action property: the transition table lets nobody be
approved twice in a row, so that whoever is cleared by an approval was not approved before,
and an approved worker who fell back to review is cleared by documents only. `HealthFollowsExpiry` relates the
dashboard, which recomputes a worker's health from the documents, to the stored
expiry: who is expired for the one is expired for the other. (TLC confirms it on the
instance of `compliance`; no run states it because it follows from `ExpiryNotLate`.)

**`CentralRecordProofs`.** Any number of requests in flight. The invariant says, of
every request, what the columns it would write mean for the row as it is now:
the checks a status claims are only ever added, so a stale status is still one
the row was seen in person for (`SeenInPerson`), and a request that is still fresh
would leave the row with the status it asks for and, over a suspension, would not
lift it (`StatusFits`). `ChecksStandForGood` is about single steps: a request serves a row
that closes no gate (`Served`), a commit writes only columns that open gates (`CommitEffect`), so
no check of the identity or the right to work is lost to an overlap. A unit of work
that wrote whole rows would lose them.

**`SelfServiceProofs`.** Any number of requests in flight. The induction only grows:
gates stay passed, a completion stands and no attempt leaves the file (`Later`,
`StepEffect`; the theorem `GatesStayPassed`). The counter of attempts may fall when two attempts
overlap, and only then; it never exceeds the attempts. The invariant says that
what a request in flight would write holds of every later row as well (a
signature only over a read gate, a pass only over a signed one, a count no
higher than the attempts on file). `GatesInOrder` and `OneOfEach` follow.

**`ProvisioningProofs`.** Any people, roles, requests and faults. A call on its way
belongs to the request that waits for it or to none (`CallsMatch`), and a request past
its call has been prepared by Supabase (`Prepared`): `AccountFirst`, `MetadataFirst`. The
latter adds that the row of the worker role, committed with the profile, is
deactivated at most. No
fault can break either, because accounts and metadata are never taken away.
`UsersMoveOn` needs what the unique keys of `users` mean between an insert and its commit
(`KeysHeld`): the uncommitted row is the only one of its person and none was
committed before. So neither an invitation nor a registration ever writes over a
user row, in particular over a deactivated one; a visit that read the row before
may, and nothing else.

### Model-checked only

* `RequestsEnd` and `RegistrationSucceeds`: liveness under fairness, which needs `ENABLED`, is
  out of the prover's reach.
* The four violations, by nature.

Every other property of a passing run is a theorem. The type invariants are the
other way round: each module has one, proved for every instance (alone, or as a
part of the inductive invariant), and the runs spend their time on the rest.

## Not modelled

* **Audit log, events.** Appended in the same transaction; nothing reads them back.
* **Permissions, row-level security.** They restrict who may call and which
  trust's rows are seen; the models are of one trust and permitted callers. The
  tenant setting is local to a transaction, so that a route that commits in
  the middle loses it; no modelled property depends on it.
* **Counts and lists of the dashboards, register and CSV export, reading routes.** Queries.
* **Settings, health.** One row written whole; nothing.
* **Pay arithmetic** (`timesheet.py` 92). A pure function of one submission, whose edge
  (a break longer than the shift, a shift past midnight) needs no interleaving.
* **Standing preferences of the calendar, contact details, manual notes.** Stored and hardly read.
* **Soft deletion, `is_worker_eligible`.** Without a caller.
* **Duplicate roles without a school.** `(user, role, school)` is unique but a NULL
  school never equals another; `Provisioning` keeps one row per pair.
* **Overlapping document reviews.** `Documents` serves whole requests; with overlap
  two uploads make two current versions, as no constraint forbids it.

## What could come next

1. `Documents` with requests in flight, as in `CentralRecord`, to say what is left of
   `ExpiryNotLate` when reviews overlap.
2. The pay arithmetic as a pure operator on minutes, against a reference definition.
3. The tenant setting across a commit in mid-request, for the routes that commit.
