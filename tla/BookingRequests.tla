-------------------------- MODULE BookingRequests --------------------------
(***************************************************************************)
(* Booking requests that overlap.  A request runs in one transaction under *)
(* PostgreSQL's READ COMMITTED, without row locks or version columns, so   *)
(* each of its queries sees the last committed state and other requests    *)
(* commit between them.  A request in flight keeps what its queries        *)
(* returned and acts on it when it writes.  All the writes of a request    *)
(* and its commit are one step: an UPDATE holds its row lock to the commit,*)
(* hence writers of the same row are ordered as their commits are.  A      *)
(* request may end without a trace at any moment: a violated constraint, a *)
(* deadlock, a lost connection or a crash rolls it back.                   *)
(*                                                                         *)
(* Requests not in flight here still run as the whole actions of Booking,  *)
(* hence with one slot every race of two requests is covered.              *)
(***************************************************************************)
EXTENDS Booking

CONSTANT
  Requests   \* slots for requests in flight

VARIABLE
  req   \* what each slot is doing and has read so far

reqVars == <<vars, req>>

Idle == [op |-> "idle"]

(* The statuses each kind of request accepts when it loads the booking. *)
From(to) == {s \in Statuses : <<s, to>> \in Transitions}

Origins ==
  [dispatch |-> From("offered"),
   accept   |-> From("accepted"),
   claim    |-> {"requested", "offered"},
   confirm  |-> From("confirmed"),
   cancel   |-> From("cancelled"),
   expire   |-> From("expired"),
   check_in |-> {"confirmed"},
   complete |-> {"checked_in"},
   no_show  |-> {"confirmed", "checked_in"},
   override |-> Statuses \ {"none"}]

(* The read each kind of request does once it has loaded the booking. *)
NextRead ==
  [dispatch |-> "match", accept |-> "offer", claim |-> "offer",
   confirm |-> "write", cancel |-> "select", expire |-> "select",
   check_in |-> "worker", complete |-> "write", no_show |-> "write",
   override |-> "write"]

(* The status each kind of request writes. *)
Outcomes ==
  [op \in DOMAIN Origins |->
     CASE op = "dispatch" -> {"offered"}
       [] op \in {"accept", "claim"} -> {"accepted"}
       [] op = "confirm"  -> {"confirmed"}
       [] op = "cancel"   -> {"cancelled"}
       [] op = "expire"   -> {"expired"}
       [] op = "check_in" -> {"checked_in"}
       [] op = "complete" -> {"completed"}
       [] op = "no_show"  -> {"no_show"}
       [] op = "override" -> OverrideTargets]

(* The workers a kind of request is made for. *)
Actors(op) == IF op \in {"accept", "claim"} THEN Workers ELSE {NoWorker}

-----------------------------------------------------------------------------
(* Reads. *)

LoadBooking(r) ==
  /\ req[r] = Idle
  /\ \E op \in DOMAIN Origins, b \in Bookings :
     \E w \in Actors(op), to \in Outcomes[op] :
       /\ status[b] \in Origins[op]
       /\ op = "claim" => shiftDate[b] \notin past
       /\ req' = [req EXCEPT ![r] =
            [op |-> op, b |-> b, w |-> w, to |-> to, pc |-> NextRead[op],
             status |-> status[b], worker |-> worker[b],
             mode |-> mode[b], date |-> shiftDate[b],
             mine |-> "none", rows |-> {}]]
  /\ UNCHANGED vars

(* get_for_booking_and_worker, in accept_offer and claim_shift *)
LoadOffer(r) ==
  LET q == req[r] IN
  /\ q # Idle /\ q.pc = "offer"
  /\ \/ /\ q.op = "accept"
        /\ offer[q.b][q.w] = "offered"
        /\ q.b \notin windowClosed
     \/ /\ q.op = "claim"
        /\ offer[q.b][q.w] \notin {"declined", "accepted"}
  /\ req' = [req EXCEPT ![r].mine = offer[q.b][q.w], ![r].pc = "select"]
  /\ UNCHANGED vars

(* decline_offer reads the offer and never the booking. *)
LoadOfferToDecline(r) ==
  /\ req[r] = Idle
  /\ \E b \in Bookings, w \in Workers :
       /\ offer[b][w] = "offered"
       /\ req' = [req EXCEPT ![r] =
            [op |-> "decline", b |-> b, w |-> w, pc |-> "write"]]
  /\ UNCHANGED vars

(* The query of expire_all_for_booking: the offers it will expire. *)
SelectOpenOffers(r) ==
  LET q == req[r] IN
  /\ q # Idle /\ q.pc = "select"
  /\ req' = [req EXCEPT
       ![r].rows = {w \in Workers : offer[q.b][w] = "offered"},
       ![r].pc = "write"]
  /\ UNCHANGED vars

(* find_eligible_workers, on the date and mode loaded before *)
MatchWorkers(r) ==
  LET q == req[r] IN
  /\ q # Idle /\ q.pc = "match"
  /\ \E targets \in SUBSET Workers \ {{}} :
       /\ IF q.mode = "directed" THEN targets = {q.worker}
                                 ELSE targets \subseteq Eligible(q.date)
       /\ req' = [req EXCEPT ![r].rows = targets, ![r].pc = "write"]
  /\ UNCHANGED vars

(* check_in reads the profile of the worker it saw on the booking. *)
LoadWorker(r) ==
  LET q == req[r] IN
  /\ q # Idle /\ q.pc = "worker"
  /\ q.worker # NoWorker => q.worker \in cleared
  /\ req' = [req EXCEPT ![r].pc = "write"]
  /\ UNCHANGED vars

(* set_availability(false) looks for active bookings on the date. *)
LoadConflicts(r) ==
  /\ req[r] = Idle
  /\ \E w \in Workers, d \in Dates :
       /\ ActiveOn(w, d) = {}
       /\ req' = [req EXCEPT ![r] =
            [op |-> "unavailable", w |-> w, date |-> d, pc |-> "write"]]
  /\ UNCHANGED vars

-----------------------------------------------------------------------------
(* Writes, each with its commit. *)

Writing(r, ops) ==
  /\ req[r] # Idle /\ req[r].pc = "write"
  /\ req[r].op \in ops
  /\ req' = [req EXCEPT ![r] = Idle]

(* Only attributes that differ from what was loaded are in the UPDATE. *)
WriteStatus(q) ==
  /\ status' = IF q.to = q.status THEN status
                                  ELSE [status EXCEPT ![q.b] = q.to]
  /\ Record(q.b, q.status, q.to,
            IF q.op = "override" THEN "override" ELSE "service")

(* Sets the offers the request selected, whatever became of them since. *)
Overwritten(q) ==
  [w \in Workers |-> IF w \in q.rows THEN "expired" ELSE offer[q.b][w]]

(* Mutant of WriteAssignment: there is no index on accepted offers. *)
WriteAssignmentNoIndex(r) ==
  LET q == req[r] IN
  /\ Writing(r, {"accept", "claim"})
  /\ q.mine = "none" => offer[q.b][q.w] = "none"
  /\ offer' = [offer EXCEPT ![q.b] = [Overwritten(q) EXCEPT ![q.w] = "accepted"]]
  /\ WriteStatus(q)
  /\ worker' = IF q.w = q.worker THEN worker
                                 ELSE [worker EXCEPT ![q.b] = q.w]
  /\ UNCHANGED <<shiftDate, mode, workerVars, clockVars>>

(* Mutant of WriteAssignment: the worker is not assigned. *)
WriteAssignmentNoWorker(r) ==
  LET q == req[r] IN
  /\ Writing(r, {"accept", "claim"})
  /\ q.mine = "none" => offer[q.b][q.w] = "none"
  /\ \A v \in Workers \ {q.w} : Overwritten(q)[v] # "accepted"
  /\ offer' = [offer EXCEPT ![q.b] = [Overwritten(q) EXCEPT ![q.w] = "accepted"]]
  /\ WriteStatus(q)
  /\ UNCHANGED <<worker, shiftDate, mode, workerVars, clockVars>>

WriteAssignment(r) ==
  LET q == req[r] IN
  /\ Writing(r, {"accept", "claim"})
  /\ q.mine = "none" => offer[q.b][q.w] = "none"  \* UNIQUE (booking, worker)
  /\ \A v \in Workers \ {q.w} : Overwritten(q)[v] # "accepted"  \* the index
  /\ offer' = [offer EXCEPT ![q.b] = [Overwritten(q) EXCEPT ![q.w] = "accepted"]]
  /\ WriteStatus(q)
  /\ worker' = IF q.w = q.worker THEN worker
                                 ELSE [worker EXCEPT ![q.b] = q.w]
  /\ UNCHANGED <<shiftDate, mode, workerVars, clockVars>>

WriteDecline(r) ==
  /\ Writing(r, {"decline"})
  /\ offer' = [offer EXCEPT ![req[r].b][req[r].w] = "declined"]
  /\ UNCHANGED <<rowVars, history, workerVars, clockVars>>

(* Mutant of WriteOffers: an offer that exists already is overwritten. *)
WriteOffersAgain(r) ==
  LET q == req[r] IN
  /\ Writing(r, {"dispatch"})
  /\ offer' = [offer EXCEPT ![q.b] =
       [w \in Workers |-> IF w \in q.rows THEN "offered" ELSE offer[q.b][w]]]
  /\ WriteStatus(q)
  /\ UNCHANGED <<worker, shiftDate, mode, workerVars, clockVars>>

WriteOffers(r) ==
  LET q == req[r] IN
  /\ Writing(r, {"dispatch"})
  /\ \A w \in q.rows : offer[q.b][w] = "none"  \* UNIQUE (booking, worker)
  /\ offer' = [offer EXCEPT ![q.b] =
       [w \in Workers |-> IF w \in q.rows THEN "offered" ELSE offer[q.b][w]]]
  /\ WriteStatus(q)
  /\ UNCHANGED <<worker, shiftDate, mode, workerVars, clockVars>>

WriteEnd(r) ==
  LET q == req[r] IN
  /\ Writing(r, {"cancel", "expire"})
  /\ offer' = [offer EXCEPT ![q.b] = Overwritten(q)]
  /\ WriteStatus(q)
  /\ UNCHANGED <<worker, shiftDate, mode, workerVars, clockVars>>

WriteStatusOnly(r) ==
  /\ Writing(r, {"confirm", "check_in", "complete", "no_show", "override"})
  /\ WriteStatus(req[r])
  /\ UNCHANGED <<worker, shiftDate, mode, offer, workerVars, clockVars>>

WriteUnavailable(r) ==
  /\ Writing(r, {"unavailable"})
  /\ unavailable' = unavailable \cup {<<req[r].w, req[r].date>>}
  /\ UNCHANGED <<rowVars, offer, history, approved, cleared, clockVars>>

Abort(r) ==
  /\ req[r] # Idle
  /\ req' = [req EXCEPT ![r] = Idle]
  /\ UNCHANGED vars

-----------------------------------------------------------------------------
ReqInit == Init /\ req = [r \in Requests |-> Idle]

ReqStep(r) ==
  \/ LoadBooking(r) \/ LoadOffer(r) \/ LoadOfferToDecline(r)
  \/ SelectOpenOffers(r) \/ MatchWorkers(r)
  \/ LoadWorker(r) \/ LoadConflicts(r)
  \/ WriteAssignment(r) \/ WriteDecline(r) \/ WriteOffers(r)
  \/ WriteEnd(r) \/ WriteStatusOnly(r) \/ WriteUnavailable(r)
  \/ Abort(r)

ReqNext ==
  \/ Next /\ UNCHANGED req
  \/ \E r \in Requests : ReqStep(r)

ReqSpec == ReqInit /\ [][ReqNext]_reqVars

-----------------------------------------------------------------------------
(* The unique index keeps its half of the promise under every race: no     *)
(* booking has two accepted offers (migration 0003,                        *)
(* idx_booking_offers_one_accepted).                                       *)
OneAcceptedOffer ==
  \A b \in Bookings : \A v, w \in Workers :
    offer[b][v] = "accepted" /\ offer[b][w] = "accepted" => v = w

(* However requests interleave, nobody is put on a shift without having    *)
(* answered an offer for it at least once: the worker of a taken booking   *)
(* holds an offer that is neither missing nor still open.                  *)
TakenByAnAnswer ==
  \A b \in Bookings :
    status[b] \in Taken =>
      /\ worker[b] # NoWorker
      /\ offer[b][worker[b]] \notin {"none", "offered"}

(* However requests interleave, an answered or expired offer is never      *)
(* opened again: the UNIQUE (booking_id, worker_id) constraint makes the   *)
(* dispatch of a booking that was claimed meanwhile fail.                  *)
NeverReopened ==
  [][\A b \in Bookings, w \in Workers :
       offer[b][w] \in {"accepted", "declined", "expired"} =>
         offer'[b][w] \notin {"none", "offered"}]_offer

(* First accept wins: once an offer is accepted no other worker's offer is *)
(* ever the accepted one.                                                  *)
FirstAcceptWins ==
  [][\A b \in Bookings, w \in Workers :
       offer[b][w] = "accepted" =>
         \A v \in Workers \ {w} : offer'[b][v] # "accepted"]_offer
=============================================================================
