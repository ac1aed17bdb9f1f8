----------------------- MODULE BookingRequestsProofs -----------------------
(***************************************************************************)
(* What module BookingRequests states of booking requests that overlap,    *)
(* proved for any number of requests, bookings, workers and dates.         *)
(***************************************************************************)
EXTENDS BookingRequests, BookingProofs

(* The worker on the booking has answered, or let run out, an offer of it. *)
Answered(b) ==
  worker[b] # NoWorker /\ offer[b][worker[b]] \notin {"none", "offered"}

Asks == {"accept", "claim"}

(* What requests in flight hold. *)
LoadedRequests ==
  [op : DOMAIN Origins, b : Bookings, w : Workers \cup {NoWorker},
   to : Statuses \ {"none"}, pc : {"match", "offer", "select", "worker", "write"},
   status : Statuses, worker : Workers \cup {NoWorker}, mode : DispatchModes,
   date : Dates \cup {NoDate}, mine : OfferStatuses, rows : SUBSET Workers]

DeclineRequests ==
  [op : {"decline"}, b : Bookings, w : Workers, pc : {"write"}]

CalendarRequests ==
  [op : {"unavailable"}, w : Workers, date : Dates, pc : {"write"}]

(* A request that loaded a booking may write a status of a taken booking   *)
(* only over one whose worker answered, and the worker it read is still    *)
(* the booking's or the one who came since has answered.                   *)
StillTrue(q) ==
  /\ Exists(q.b)
  /\ q.op \in Asks => q.w \in Workers
  /\ q.op \notin Asks /\ q.to \in Taken => Answered(q.b)
  /\ worker[q.b] = q.worker \/ Answered(q.b)

SlotOK(r) ==
  \/ req[r] = Idle
  \/ req[r] \in DeclineRequests
  \/ req[r] \in CalendarRequests
  \/ req[r] \in LoadedRequests /\ StillTrue(req[r])

Tables == TypeOK /\ OneAcceptedOffer /\ TakenByAnAnswer

ReqIInv ==
  /\ Tables
  /\ req = [r \in Requests |-> req[r]]
  /\ \A r \in Requests : SlotOK(r)

(* No answer is taken back, bookings stay, and who is put on one in the    *)
(* place of another has answered.                                          *)
NotReopened ==
  \A b \in Bookings, w \in Workers :
    offer[b][w] \notin {"none", "offered"} =>
      offer'[b][w] \notin {"none", "offered"}

Stays ==
  \A b \in Bookings :
    Exists(b) => Exists(b)' /\ (worker'[b] = worker[b] \/ Answered(b)')

-----------------------------------------------------------------------------
(* Whole requests keep the tables in order. *)
LEMMA WholeEffect ==
  ASSUME Tables, [Next]_vars
  PROVE  Tables' /\ NotReopened /\ Stays
<1>1. TypeOK'
  BY TypePreserved DEF Tables
<1> USE DEF Tables, TypeOK, OneAcceptedOffer, TakenByAnAnswer, NotReopened,
            Stays, Answered, Taken, Exists, rowVars, workerVars, clockVars
<1> DEFINE Rest == OneAcceptedOffer' /\ TakenByAnAnswer' /\ NotReopened /\ Stays
<1>2. ASSUME NEW b \in Bookings, BookingStep(b)
      PROVE  Rest
  <2> USE DEF SetStatus, MayMove, Transitions, Statuses, OfferStatuses
  <2>1. ASSUME NEW d \in Dates, NEW m \in DispatchModes,
               NEW w \in Workers \cup {NoWorker}, CreateBooking(b, d, m, w)
        PROVE  Rest
    BY <2>1 DEF CreateBooking
  <2>2. ASSUME NEW d \in Dates, UpdateBooking(b, d) PROVE Rest
    BY <2>2 DEF UpdateBooking
  <2>3. ASSUME NEW targets \in SUBSET Workers, DispatchOffers(b, targets)
        PROVE  Rest
    BY <2>3 DEF DispatchOffers
  <2>4. ASSUME NEW w \in Workers, Assign(b, w), status[b] # "none"
        PROVE  Rest
    BY NullAssumption, <2>4 DEF Assign, Expired
  <2>5. ASSUME NEW w \in Workers, AcceptOffer(b, w) \/ ClaimShift(b, w)
        PROVE  Rest
    BY <2>4, <2>5 DEF AcceptOffer, ClaimShift
  <2>6. ASSUME NEW w \in Workers, DeclineOffer(b, w) PROVE Rest
    BY <2>6 DEF DeclineOffer
  <2>7. CASE ConfirmBooking(b)
    BY <2>7 DEF ConfirmBooking
  <2>8. CASE CancelBooking(b)
    BY <2>8 DEF CancelBooking, Expired
  <2>9. CASE ExpireBooking(b)
    BY <2>9 DEF ExpireBooking, Expired
  <2>10. CASE CheckIn(b)
    BY <2>10 DEF CheckIn
  <2>11. CASE CompleteShift(b) \/ RecordNoShow(b)
    BY <2>11 DEF CompleteShift, RecordNoShow
  <2>12. ASSUME NEW to \in OverrideTargets, ManualOverride(b, to)
         PROVE Rest
    BY <2>12 DEF ManualOverride, OverrideTargets
  <2>13. CASE WindowCloses(b)
    BY <2>13 DEF WindowCloses
  <2>14. QED
    BY <1>2, <2>1, <2>2, <2>3, <2>5, <2>6, <2>7, <2>8, <2>9, <2>10, <2>11,
       <2>12, <2>13 DEF BookingStep
<1>3. ASSUME UNCHANGED <<status, worker, offer>>
      PROVE  Rest
  BY <1>3
<1>4. ASSUME NEW w \in Workers, WorkerStep(w)
      PROVE  UNCHANGED <<status, worker, offer>>
  BY <1>4 DEF WorkerStep, SetAvailability, ReviewWorker, ClearFirstShift
<1>5. ASSUME NEW d \in Dates, DatePasses(d)
      PROVE  UNCHANGED <<status, worker, offer>>
  BY <1>5 DEF DatePasses
<1>6. UNCHANGED vars => UNCHANGED <<status, worker, offer>>
  BY DEF vars
<1> HIDE DEF Tables, TypeOK, OneAcceptedOffer, TakenByAnAnswer, NotReopened,
             Stays, Answered, Taken, Exists, rowVars, workerVars, clockVars
<1>7. Rest
  BY <1>2, <1>3, <1>4, <1>5, <1>6 DEF Next
<1>8. QED
  BY <1>1, <1>7 DEF Tables

(* An answer that was given stays given. *)
LEMMA AnsweredStays ==
  ASSUME Tables, NotReopened, Stays, NEW b \in Bookings, Exists(b), Answered(b)
  PROVE  Answered(b)'
BY DEF Tables, TypeOK, NotReopened, Stays, Answered

(* A request in flight stays true when others write. *)
LEMMA SlotStays ==
  ASSUME Tables, Tables', NotReopened, Stays, NEW r \in Requests, SlotOK(r),
         req'[r] = req[r]
  PROVE  SlotOK(r)'
<1>1. CASE req[r] \in LoadedRequests /\ StillTrue(req[r])
  <2>1. req[r].b \in Bookings /\ Exists(req[r].b)
    BY <1>1 DEF LoadedRequests, StillTrue
  <2>2. /\ Exists(req[r].b)'
        /\ worker'[req[r].b] = worker[req[r].b] \/ Answered(req[r].b)'
        /\ Answered(req[r].b) => Answered(req[r].b)'
    <3>1. PICK b \in Bookings : b = req[r].b
      BY <2>1
    <3>2. /\ Exists(b)' /\ (worker'[b] = worker[b] \/ Answered(b)')
          /\ Answered(b) => Answered(b)'
      BY <2>1, <3>1, AnsweredStays DEF Stays
    <3>3. req'[r].b = b
      BY <3>1
    <3>4. QED
      BY <3>1, <3>2, <3>3 DEF Exists, Answered
  <2>3. StillTrue(req[r])'
    BY <1>1, <2>2 DEF StillTrue
  <2>4. QED
    BY <1>1, <2>3 DEF SlotOK, LoadedRequests
<1>2. QED
  BY <1>1 DEF SlotOK, DeclineRequests, CalendarRequests

-----------------------------------------------------------------------------
(* Who loads a booking it may leave taken, without asking for it, loads a  *)
(* taken one; and every request loads one that exists.                     *)
LEMMA OriginsOfTaken ==
  ASSUME NEW op \in DOMAIN Origins, NEW s \in Origins[op],
         NEW to \in Outcomes[op]
  PROVE  /\ s # "none" /\ s \in Statuses
         /\ to \in Statuses \ {"none"}
         /\ op \notin Asks /\ to \in Taken => s \in Taken
<1> DEFINE kinds == {"dispatch", "accept", "claim", "confirm", "cancel", "expire",
                     "check_in", "complete", "no_show", "override"}
<1>1. DOMAIN Origins = kinds
  BY DEF Origins
<1>2. /\ Origins["dispatch"] = From("offered")
      /\ Origins["accept"] = From("accepted")
      /\ Origins["claim"] = {"requested", "offered"}
      /\ Origins["confirm"] = From("confirmed")
      /\ Origins["cancel"] = From("cancelled")
      /\ Origins["expire"] = From("expired")
      /\ Origins["check_in"] = {"confirmed"}
      /\ Origins["complete"] = {"checked_in"}
      /\ Origins["no_show"] = {"confirmed", "checked_in"}
      /\ Origins["override"] = Statuses \ {"none"}
  BY DEF Origins
<1>3. /\ Outcomes["dispatch"] = {"offered"}
      /\ Outcomes["accept"] = {"accepted"} /\ Outcomes["claim"] = {"accepted"}
      /\ Outcomes["confirm"] = {"confirmed"} /\ Outcomes["cancel"] = {"cancelled"}
      /\ Outcomes["expire"] = {"expired"} /\ Outcomes["check_in"] = {"checked_in"}
      /\ Outcomes["complete"] = {"completed"} /\ Outcomes["no_show"] = {"no_show"}
      /\ Outcomes["override"] = OverrideTargets
  BY <1>1 DEF Outcomes
<1>4. /\ "none" \notin Origins[op] /\ Origins[op] \subseteq Statuses
      /\ op = "confirm" => Origins[op] = {"accepted"}
  <2>1. From("confirmed") = {"accepted"}
    BY DEF From, Transitions, Statuses
  <2>2. \A t \in Statuses : From(t) \subseteq Statuses /\ "none" \notin From(t)
    BY DEF From, Transitions, Statuses
  <2>3. {"offered", "accepted", "confirmed", "cancelled", "expired"} \subseteq Statuses
        /\ {"requested", "checked_in"} \subseteq Statuses
    BY DEF Statuses
  <2>4. QED
    BY <1>1, <1>2, <2>1, <2>2, <2>3
<1>5. Outcomes[op] \subseteq Statuses \ {"none"}
  BY <1>1, <1>3 DEF Statuses, OverrideTargets
<1>6. op \notin Asks /\ to \in Taken => op \in {"confirm", "check_in"}
  BY <1>1, <1>3 DEF Asks, Taken, OverrideTargets
<1>7. QED
  BY <1>2, <1>4, <1>5, <1>6 DEF Taken

(* Reads keep the invariant. *)
LEMMA LoadBookingKeeps ==
  ASSUME ReqIInv, NEW r \in Requests, LoadBooking(r)
  PROVE  SlotOK(r)'
<1>1. PICK op \in DOMAIN Origins, b \in Bookings :
      \E w \in Actors(op), to \in Outcomes[op] :
        /\ status[b] \in Origins[op]
        /\ req' = [req EXCEPT ![r] =
             [op |-> op, b |-> b, w |-> w, to |-> to, pc |-> NextRead[op],
              status |-> status[b], worker |-> worker[b],
              mode |-> mode[b], date |-> shiftDate[b],
              mine |-> "none", rows |-> {}]]
  BY DEF LoadBooking
<1>2. PICK w \in Actors(op), to \in Outcomes[op] :
        /\ status[b] \in Origins[op]
        /\ req' = [req EXCEPT ![r] =
             [op |-> op, b |-> b, w |-> w, to |-> to, pc |-> NextRead[op],
              status |-> status[b], worker |-> worker[b],
              mode |-> mode[b], date |-> shiftDate[b],
              mine |-> "none", rows |-> {}]]
  BY <1>1
<1> DEFINE q == [op |-> op, b |-> b, w |-> w, to |-> to, pc |-> NextRead[op],
                 status |-> status[b], worker |-> worker[b],
                 mode |-> mode[b], date |-> shiftDate[b],
                 mine |-> "none", rows |-> {}]
<1>3. /\ status[b] # "none" /\ status[b] \in Statuses
      /\ to \in Statuses \ {"none"}
      /\ op \notin Asks /\ to \in Taken => status[b] \in Taken
  BY <1>2, OriginsOfTaken
<1>4. w \in Workers \cup {NoWorker} /\ (op \in Asks => w \in Workers)
  BY <1>2 DEF Actors, Asks
<1>5. NextRead[op] \in {"match", "offer", "select", "worker", "write"}
  BY DEF NextRead, Origins
<1>6. /\ worker[b] \in Workers \cup {NoWorker} /\ mode[b] \in DispatchModes
      /\ shiftDate[b] \in Dates \cup {NoDate} /\ "none" \in OfferStatuses
  BY DEF ReqIInv, Tables, TypeOK, OfferStatuses
<1>7. q \in LoadedRequests
  BY <1>3, <1>4, <1>5, <1>6 DEF LoadedRequests
<1>8. status[b] \in Taken => Answered(b)
  BY DEF ReqIInv, Tables, TakenByAnAnswer, Answered
<1>9. StillTrue(q)
  BY <1>3, <1>4, <1>8 DEF StillTrue, Exists
<1>10. req'[r] = q /\ UNCHANGED vars
  BY <1>2 DEF ReqIInv, LoadBooking
<1> HIDE DEF q
<1>11. StillTrue(req[r])'
  BY <1>9, <1>10 DEF StillTrue, Exists, Answered, vars, rowVars
<1>12. QED
  BY <1>7, <1>10, <1>11 DEF SlotOK, LoadedRequests

(* The later reads keep what the request holds and learn more. *)
LEMMA OtherReadsKeep ==
  ASSUME ReqIInv, NEW r \in Requests,
         \/ LoadOffer(r) \/ LoadOfferToDecline(r) \/ SelectOpenOffers(r)
         \/ MatchWorkers(r) \/ LoadWorker(r) \/ LoadConflicts(r)
  PROVE  SlotOK(r)'
<1>1. req = [s \in Requests |-> req[s]] /\ SlotOK(r)
  BY DEF ReqIInv
<1>2. UNCHANGED vars
  BY DEF LoadOffer, LoadOfferToDecline, SelectOpenOffers, MatchWorkers,
         LoadWorker, LoadConflicts
<1>3. CASE LoadOfferToDecline(r)
  BY <1>1, <1>3 DEF LoadOfferToDecline, SlotOK, DeclineRequests
<1>4. CASE LoadConflicts(r)
  BY <1>1, <1>4 DEF LoadConflicts, SlotOK, CalendarRequests
<1>5. ASSUME LoadOffer(r) \/ SelectOpenOffers(r) \/ MatchWorkers(r) \/ LoadWorker(r)
      PROVE  req[r] \in LoadedRequests /\ StillTrue(req[r])
  BY <1>1, <1>5 DEF LoadOffer, SelectOpenOffers, MatchWorkers, LoadWorker,
                    SlotOK, DeclineRequests, CalendarRequests
<1> DEFINE Learns(q) == /\ q \in LoadedRequests
                        /\ q.b = req[r].b /\ q.op = req[r].op
                        /\ q.w = req[r].w /\ q.to = req[r].to
                        /\ q.worker = req[r].worker
<1>6. ASSUME req[r] \in LoadedRequests, StillTrue(req[r]), Learns(req'[r])
      PROVE  SlotOK(r)'
  <2>1. StillTrue(req[r])'
    BY <1>2, <1>6 DEF StillTrue, Exists, Answered, vars, rowVars
  <2>2. req'[r] \in LoadedRequests
    BY <1>6
  <2>3. QED
    BY <2>1, <2>2 DEF SlotOK, LoadedRequests
<1>7. CASE LoadOffer(r)
  <2>1. offer[req[r].b][req[r].w] \in OfferStatuses
    <3>1. req[r].op \in Asks
      BY <1>7 DEF LoadOffer, Asks
    <3>2. QED
      BY <1>5, <1>7, <3>1
         DEF StillTrue, LoadedRequests, ReqIInv, Tables, TypeOK
  <2> DEFINE found == offer[req[r].b][req[r].w]
  <2>2. req'[r] = [req[r] EXCEPT !.mine = found, !.pc = "select"]
    BY <1>1, <1>7 DEF LoadOffer
  <2>3. found \in OfferStatuses
    BY <2>1
  <2> HIDE DEF found
  <2>4. Learns(req'[r])
    BY <1>5, <1>7, <2>2, <2>3 DEF LoadedRequests
  <2>5. QED
    BY <1>5, <1>6, <1>7, <2>4
<1>8. ASSUME NEW rows \in SUBSET Workers, req[r] \in LoadedRequests,
             req'[r] = [req[r] EXCEPT !.rows = rows, !.pc = "write"]
      PROVE  Learns(req'[r])
  BY <1>8 DEF LoadedRequests
<1>9. CASE SelectOpenOffers(r)
  <2> DEFINE open == {w \in Workers : offer[req[r].b][w] = "offered"}
  <2>1. req'[r] = [req[r] EXCEPT !.rows = open, !.pc = "write"]
    BY <1>1, <1>9 DEF SelectOpenOffers
  <2>2. open \in SUBSET Workers
    OBVIOUS
  <2> HIDE DEF open
  <2>3. Learns(req'[r])
    BY <1>5, <1>8, <1>9, <2>1, <2>2
  <2>4. QED
    BY <1>5, <1>6, <1>9, <2>3
<1>10. CASE MatchWorkers(r)
  <2>1. PICK targets \in SUBSET Workers :
          req'[r] = [req[r] EXCEPT !.rows = targets, !.pc = "write"]
    BY <1>1, <1>10 DEF MatchWorkers
  <2>2. Learns(req'[r])
    BY <1>5, <1>8, <1>10, <2>1
  <2>3. QED
    BY <1>5, <1>6, <1>10, <2>2
<1>11. CASE LoadWorker(r)
  <2>1. req'[r] = [req[r] EXCEPT !.pc = "write"]
    BY <1>1, <1>11 DEF LoadWorker
  <2>2. Learns(req'[r])
    BY <1>5, <1>11, <2>1 DEF LoadedRequests
  <2>3. QED
    BY <1>5, <1>6, <1>11, <2>2
<1>12. QED
  BY <1>3, <1>4, <1>7, <1>9, <1>10, <1>11

-----------------------------------------------------------------------------
(* What the row of one booking and its offers may become. *)
LEMMA RowEffect ==
  ASSUME Tables, NEW b \in Bookings, Exists(b),
         NEW s \in Statuses \ {"none"}, NEW v \in Workers \cup {NoWorker},
         NEW f \in [Workers -> OfferStatuses], NEW h \in Rows \cup {NoRow},
         h # NoRow,
         status' = [status EXCEPT ![b] = s], worker' = [worker EXCEPT ![b] = v],
         offer' = [offer EXCEPT ![b] = f], history' = [history EXCEPT ![b] = h],
         UNCHANGED <<shiftDate, mode, workerVars, clockVars>>,
         v = worker[b] \/ (v # NoWorker /\ f[v] \notin {"none", "offered"}),
         s \in Taken => v # NoWorker /\ f[v] \notin {"none", "offered"},
         \A w \in Workers : offer[b][w] \notin {"none", "offered"} =>
                              f[w] \notin {"none", "offered"},
         \A u, w \in Workers : f[u] = "accepted" /\ f[w] = "accepted" => u = w
  PROVE  Tables' /\ NotReopened /\ Stays
<1>1. TypeOK'
  BY NullAssumption, NoRowAssumption
     DEF Tables, TypeOK, Exists, workerVars, clockVars
<1>2. OneAcceptedOffer'
  BY DEF Tables, TypeOK, OneAcceptedOffer
<1>3. TakenByAnAnswer'
  <2> SUFFICES ASSUME NEW c \in Bookings, status'[c] \in Taken
               PROVE  /\ worker'[c] # NoWorker
                      /\ offer'[c][worker'[c]] \notin {"none", "offered"}
    BY DEF TakenByAnAnswer, Taken
  <2>1. CASE c = b
    BY <2>1 DEF Tables, TypeOK
  <2>2. CASE c # b
    BY <2>2 DEF Tables, TypeOK, TakenByAnAnswer
  <2>3. QED
    BY <2>1, <2>2
<1>4. NotReopened
  BY DEF NotReopened, Tables, TypeOK
<1>5. Stays
  <2> SUFFICES ASSUME NEW c \in Bookings, Exists(c)
               PROVE  Exists(c)' /\ (worker'[c] = worker[c] \/ Answered(c)')
    BY DEF Stays
  <2>1. CASE c = b
    BY <2>1 DEF Tables, TypeOK, Exists, Answered
  <2>2. CASE c # b
    BY <2>2 DEF Tables, TypeOK, Exists
  <2>3. QED
    BY <2>1, <2>2
<1>6. QED
  BY <1>1, <1>2, <1>3, <1>4, <1>5 DEF Tables

(* The status and the log row a request in flight writes. *)
LEMMA StatusWritten ==
  ASSUME Tables, NEW q \in LoadedRequests, StillTrue(q), WriteStatus(q)
  PROVE  \E s \in Statuses \ {"none"}, h \in Rows :
           /\ status' = [status EXCEPT ![q.b] = s]
           /\ history' = [history EXCEPT ![q.b] = h]
           /\ s \in Taken => q.to \in Taken \/ Answered(q.b)
<1> DEFINE s == IF q.to = q.status THEN status[q.b] ELSE q.to
           by == IF q.op = "override" THEN "override" ELSE "service"
           h == [from |-> q.status, to |-> q.to, by |-> by]
<1>1. q.b \in Bookings /\ q.to \in Statuses \ {"none"} /\ q.status \in Statuses
  BY DEF LoadedRequests
<1>2. status[q.b] \in Statuses \ {"none"}
  BY <1>1 DEF StillTrue, Exists, Tables, TypeOK
<1>3. status' = [status EXCEPT ![q.b] = s]
  BY <1>1 DEF WriteStatus, Tables, TypeOK
<1>4. by \in {"service", "override"}
  OBVIOUS
<1>5. history' = [history EXCEPT ![q.b] = h]
  BY DEF WriteStatus, Record
<1>6. h \in Rows
  <2> HIDE DEF by
  <2>1. QED
    BY <1>1, <1>4 DEF Rows
<1>7. status[q.b] \in Taken => Answered(q.b)
  BY <1>1 DEF Tables, TakenByAnAnswer, Answered
<1>8. s \in Statuses \ {"none"} /\ (s \in Taken => q.to \in Taken \/ Answered(q.b))
  BY <1>1, <1>2, <1>7
<1> HIDE DEF s, h
<1>9. QED
  BY <1>3, <1>5, <1>6, <1>8

(* Every write of a request that loaded a booking, in one form. *)
LEMMA LoadedWrite ==
  ASSUME ReqIInv, NEW r \in Requests,
         \/ WriteAssignment(r) \/ WriteOffers(r) \/ WriteEnd(r) \/ WriteStatusOnly(r)
  PROVE  Tables' /\ NotReopened /\ Stays
<1> DEFINE q == req[r]
<1>1. q \in LoadedRequests /\ StillTrue(q) /\ WriteStatus(q)
  BY DEF ReqIInv, SlotOK, WriteAssignment, WriteOffers, WriteEnd, Writing,
         WriteStatusOnly, DeclineRequests, CalendarRequests
<1>2. Tables
  BY DEF ReqIInv
<1>3. PICK s \in Statuses \ {"none"}, h \in Rows :
           /\ status' = [status EXCEPT ![q.b] = s]
           /\ history' = [history EXCEPT ![q.b] = h]
           /\ s \in Taken => q.to \in Taken \/ Answered(q.b)
  BY <1>1, <1>2, StatusWritten
<1>4. h \in Rows \cup {NoRow} /\ h # NoRow
  BY NoRowAssumption
<1>5. q.b \in Bookings /\ Exists(q.b) /\ q.rows \in SUBSET Workers
  BY <1>1 DEF LoadedRequests, StillTrue
<1>6. /\ worker[q.b] \in Workers \cup {NoWorker}
      /\ offer[q.b] \in [Workers -> OfferStatuses]
  BY <1>2, <1>5 DEF Tables, TypeOK
<1>7. \A u, w \in Workers :
        offer[q.b][u] = "accepted" /\ offer[q.b][w] = "accepted" => u = w
  BY <1>2, <1>5 DEF Tables, OneAcceptedOffer
<1>8. ASSUME NEW v \in Workers \cup {NoWorker},
             NEW f \in [Workers -> OfferStatuses],
             worker' = [worker EXCEPT ![q.b] = v],
             offer' = [offer EXCEPT ![q.b] = f],
             UNCHANGED <<shiftDate, mode, workerVars, clockVars>>,
             v = worker[q.b] \/ (v # NoWorker /\ f[v] \notin {"none", "offered"}),
             s \in Taken => v # NoWorker /\ f[v] \notin {"none", "offered"},
             \A w \in Workers : offer[q.b][w] \notin {"none", "offered"} =>
                                  f[w] \notin {"none", "offered"},
             \A u, w \in Workers : f[u] = "accepted" /\ f[w] = "accepted" => u = w
      PROVE  Tables' /\ NotReopened /\ Stays
  <2> HIDE DEF q
  <2>1. QED
    BY <1>2, <1>3, <1>4, <1>5, <1>8, RowEffect
<1>9. worker' = worker => worker' = [worker EXCEPT ![q.b] = worker[q.b]]
  BY <1>2, <1>5 DEF Tables, TypeOK
<1>10. offer' = offer => offer' = [offer EXCEPT ![q.b] = offer[q.b]]
  BY <1>2, <1>5 DEF Tables, TypeOK
<1>11. ASSUME NEW f \in [Workers -> OfferStatuses], q.op \notin Asks,
              worker' = worker, offer' = [offer EXCEPT ![q.b] = f],
              UNCHANGED <<shiftDate, mode, workerVars, clockVars>>,
              \A w \in Workers : f[w] = "accepted" => offer[q.b][w] = "accepted",
              \A w \in Workers : offer[q.b][w] \notin {"none", "offered"} =>
                                   f[w] \notin {"none", "offered"}
       PROVE  Tables' /\ NotReopened /\ Stays
  <2>1. q.to \in Taken => Answered(q.b)
    BY <1>1, <1>11 DEF StillTrue
  <2>2. s \in Taken => worker[q.b] # NoWorker
                       /\ f[worker[q.b]] \notin {"none", "offered"}
    BY <1>3, <1>6, <1>11, <2>1 DEF Answered
  <2>3. \A u, w \in Workers : f[u] = "accepted" /\ f[w] = "accepted" => u = w
    BY <1>7, <1>11
  <2> HIDE DEF q
  <2>4. QED
    BY <1>6, <1>8, <1>9, <1>11, <2>2, <2>3
<1> DEFINE over == [Overwritten(q) EXCEPT ![q.w] = "accepted"]
<1>12. /\ Overwritten(q) \in [Workers -> OfferStatuses]
       /\ \A w \in Workers : Overwritten(q)[w] = "accepted" => offer[q.b][w] = "accepted"
       /\ \A w \in Workers : offer[q.b][w] \notin {"none", "offered"} =>
                               Overwritten(q)[w] \notin {"none", "offered"}
  BY <1>6 DEF Overwritten, OfferStatuses
<1>13. CASE WriteAssignment(r)
  <2> DEFINE v == IF q.w = q.worker THEN worker[q.b] ELSE q.w
  <2>1. q.op \in Asks
    BY <1>13 DEF WriteAssignment, Writing, Asks
  <2>2. q.w \in Workers /\ q.w # NoWorker
    BY <1>1, <2>1, NullAssumption DEF StillTrue
  <2>3. worker' = [worker EXCEPT ![q.b] = v] /\ v \in Workers \cup {NoWorker}
    BY <1>6, <1>9, <1>13, <2>2 DEF WriteAssignment
  <2>4. /\ over \in [Workers -> OfferStatuses] /\ over[q.w] = "accepted"
        /\ \A w \in Workers \ {q.w} : over[w] = Overwritten(q)[w] /\ over[w] # "accepted"
    BY <1>12, <1>13, <2>2 DEF WriteAssignment, OfferStatuses
  <2>5. /\ offer' = [offer EXCEPT ![q.b] = over]
        /\ UNCHANGED <<shiftDate, mode, workerVars, clockVars>>
    BY <1>13 DEF WriteAssignment
  <2>6. worker[q.b] = q.worker \/ Answered(q.b)
    BY <1>1 DEF StillTrue
  <2> HIDE DEF q, over
  <2>7. \A w \in Workers : offer[q.b][w] \notin {"none", "offered"} =>
                             over[w] \notin {"none", "offered"}
    BY <1>12, <2>4
  <2>8. Answered(q.b) => /\ worker[q.b] \in Workers
                         /\ over[worker[q.b]] \notin {"none", "offered"}
    BY <1>6, <2>7 DEF Answered
  <2>9. v # NoWorker /\ over[v] \notin {"none", "offered"}
    BY <2>2, <2>4, <2>6, <2>8, NullAssumption
  <2>10. \A u, w \in Workers : over[u] = "accepted" /\ over[w] = "accepted" => u = w
    BY <2>4
  <2> HIDE DEF v
  <2>11. QED
    BY <1>8, <2>3, <2>4, <2>5, <2>7, <2>9, <2>10
<1>14. CASE WriteOffers(r)
  <2> DEFINE f == [w \in Workers |-> IF w \in q.rows THEN "offered" ELSE offer[q.b][w]]
  <2>1. /\ q.op \notin Asks /\ worker' = worker /\ offer' = [offer EXCEPT ![q.b] = f]
        /\ UNCHANGED <<shiftDate, mode, workerVars, clockVars>>
        /\ \A w \in q.rows : offer[q.b][w] = "none"
    BY <1>14 DEF WriteOffers, Writing, Asks
  <2>2. /\ f \in [Workers -> OfferStatuses]
        /\ \A w \in Workers : f[w] = "accepted" => offer[q.b][w] = "accepted"
        /\ \A w \in Workers : offer[q.b][w] \notin {"none", "offered"} =>
                                f[w] \notin {"none", "offered"}
    BY <1>6, <2>1 DEF OfferStatuses
  <2> HIDE DEF f, q
  <2>3. QED
    BY <1>11, <2>1, <2>2
<1>15. CASE WriteEnd(r)
  <2>1. /\ q.op \notin Asks /\ worker' = worker
        /\ offer' = [offer EXCEPT ![q.b] = Overwritten(q)]
        /\ UNCHANGED <<shiftDate, mode, workerVars, clockVars>>
    BY <1>15 DEF WriteEnd, Writing, Asks
  <2> HIDE DEF q
  <2>2. QED
    BY <1>11, <1>12, <2>1
<1>16. CASE WriteStatusOnly(r)
  <2>1. /\ q.op \notin Asks /\ worker' = worker /\ offer' = offer
        /\ UNCHANGED <<shiftDate, mode, workerVars, clockVars>>
    BY <1>16 DEF WriteStatusOnly, Writing, Asks
  <2> HIDE DEF q
  <2>2. QED
    BY <1>6, <1>10, <1>11, <2>1
<1>17. QED
  BY <1>13, <1>14, <1>15, <1>16

(* A decline answers one offer, and the calendar touches no booking. *)
LEMMA OtherWrites ==
  ASSUME ReqIInv, NEW r \in Requests, WriteDecline(r) \/ WriteUnavailable(r)
  PROVE  Tables' /\ NotReopened /\ Stays
<1>1. CASE WriteDecline(r)
  <2>1. PICK b \in Bookings, w \in Workers :
          /\ offer' = [offer EXCEPT ![b][w] = "declined"]
          /\ UNCHANGED <<rowVars, history, workerVars, clockVars>>
    BY <1>1 DEF WriteDecline, Writing, ReqIInv, SlotOK, DeclineRequests,
                LoadedRequests, CalendarRequests, Origins
  <2> DEFINE f == [offer[b] EXCEPT ![w] = "declined"]
  <2>2. offer' = [offer EXCEPT ![b] = f] /\ f \in [Workers -> OfferStatuses]
    BY <2>1 DEF ReqIInv, Tables, TypeOK, OfferStatuses
  <2>3. /\ \A u \in Workers : offer[b][u] \notin {"none", "offered"} =>
                                f[u] \notin {"none", "offered"}
        /\ \A u \in Workers : f[u] = "accepted" => offer[b][u] = "accepted"
    BY DEF ReqIInv, Tables, TypeOK
  <2> HIDE DEF f
  <2>4. TypeOK'
    BY <2>1, <2>2 DEF ReqIInv, Tables, TypeOK, Exists, rowVars, workerVars,
                      clockVars
  <2>5. OneAcceptedOffer'
    BY <2>2, <2>3 DEF ReqIInv, Tables, TypeOK, OneAcceptedOffer
  <2>6. NotReopened
    BY <2>2, <2>3 DEF ReqIInv, Tables, TypeOK, NotReopened
  <2>7. TakenByAnAnswer' /\ Stays
    BY <2>1, <2>6, NullAssumption
       DEF ReqIInv, Tables, TypeOK, TakenByAnAnswer, NotReopened, Stays, Exists,
           Answered, rowVars, Taken
  <2>8. QED
    BY <2>4, <2>5, <2>6, <2>7 DEF Tables
<1>2. CASE WriteUnavailable(r)
  <2>1. PICK w \in Workers, d \in Dates : unavailable' = unavailable \cup {<<w, d>>}
    BY <1>2 DEF WriteUnavailable, Writing, ReqIInv, SlotOK, DeclineRequests,
                LoadedRequests, CalendarRequests, Origins
  <2>2. UNCHANGED <<rowVars, offer, history, approved, cleared, clockVars>>
    BY <1>2 DEF WriteUnavailable
  <2>3. QED
    BY <2>1, <2>2 DEF ReqIInv, Tables, TypeOK, OneAcceptedOffer, TakenByAnAnswer,
         NotReopened, Stays, Exists, Answered, rowVars, clockVars, Taken
<1>3. QED
  BY <1>1, <1>2

(* What every step of overlapping requests does to the tables. *)
LEMMA TablesEffect ==
  ASSUME ReqIInv, [ReqNext]_reqVars
  PROVE  Tables' /\ NotReopened /\ Stays
<1>1. Tables
  BY DEF ReqIInv
<1>2. CASE [Next]_vars
  BY <1>1, <1>2, WholeEffect
<1>3. ASSUME NEW r \in Requests, ReqStep(r)
      PROVE  \/ WriteAssignment(r) \/ WriteOffers(r) \/ WriteEnd(r)
             \/ WriteStatusOnly(r) \/ WriteDecline(r) \/ WriteUnavailable(r)
             \/ UNCHANGED vars
  BY <1>3 DEF ReqStep, LoadBooking, LoadOffer, LoadOfferToDecline, LoadWorker,
         SelectOpenOffers, MatchWorkers, LoadConflicts, Abort
<1>4. QED
  BY <1>2, <1>3, LoadedWrite, OtherWrites DEF ReqNext, reqVars

(* The slot of the request that steps. *)
LEMMA OwnSlot ==
  ASSUME ReqIInv, NEW r \in Requests, ReqStep(r)
  PROVE  /\ SlotOK(r)'
         /\ \A s \in Requests \ {r} : req'[s] = req[s]
         /\ req' = [s \in Requests |-> req'[s]]
<1>1. PICK q : req' = [req EXCEPT ![r] = q]
  <2>1. \E q : req' = [req EXCEPT ![r] = q]
    <3>1. CASE LoadBooking(r) \/ LoadOfferToDecline(r) \/ MatchWorkers(r)
               \/ LoadConflicts(r)
      BY <3>1 DEF LoadBooking, LoadOfferToDecline, MatchWorkers, LoadConflicts
    <3>2. CASE LoadOffer(r) \/ SelectOpenOffers(r) \/ LoadWorker(r)
      BY <3>2 DEF LoadOffer, SelectOpenOffers, LoadWorker
    <3>3. CASE \/ WriteAssignment(r) \/ WriteOffers(r) \/ WriteEnd(r)
               \/ WriteStatusOnly(r) \/ WriteDecline(r) \/ WriteUnavailable(r)
               \/ Abort(r)
      BY <3>3 DEF WriteAssignment, WriteOffers, WriteEnd, WriteStatusOnly,
           WriteDecline, WriteUnavailable, Abort, Writing
    <3>4. QED
      BY <3>1, <3>2, <3>3 DEF ReqStep
  <2>2. QED
    BY <2>1
<1>2. /\ \A s \in Requests \ {r} : req'[s] = req[s]
      /\ req' = [s \in Requests |-> req'[s]]
  BY <1>1 DEF ReqIInv
<1>3. CASE \/ WriteAssignment(r) \/ WriteOffers(r) \/ WriteEnd(r)
           \/ WriteStatusOnly(r) \/ WriteDecline(r) \/ WriteUnavailable(r)
           \/ Abort(r)
  <2>1. req' = [req EXCEPT ![r] = Idle]
    BY <1>3 DEF WriteAssignment, WriteOffers, WriteEnd, WriteStatusOnly,
         WriteDecline, WriteUnavailable, Abort, Writing
  <2>2. req'[r] = Idle
    BY <2>1 DEF ReqIInv
  <2>3. SlotOK(r)'
    BY <2>2 DEF SlotOK, Idle
  <2>4. QED
    BY <1>2, <2>3
<1>4. QED
  BY <1>2, <1>3, LoadBookingKeeps, OtherReadsKeep DEF ReqStep

-----------------------------------------------------------------------------
(* The empty tables are in order. *)
LEMMA InitTables == Init => Tables
BY NullAssumption DEF Init, Tables, TypeOK, Statuses, OfferStatuses,
   DispatchModes, Exists, OneAcceptedOffer, TakenByAnAnswer, Taken

(* The invariant of overlapping booking requests. *)
THEOREM RequestsInvariance == ReqSpec => []ReqIInv
<1>1. ReqInit => ReqIInv
  BY InitTables DEF ReqInit, ReqIInv, SlotOK
<1>2. ReqIInv /\ [ReqNext]_reqVars => ReqIInv'
  <2> SUFFICES ASSUME ReqIInv, [ReqNext]_reqVars PROVE ReqIInv'
    OBVIOUS
  <2>1. Tables' /\ NotReopened /\ Stays
    BY TablesEffect
  <2>2. Tables /\ req = [r \in Requests |-> req[r]]
    BY DEF ReqIInv
  <2>3. ASSUME NEW r \in Requests, req'[r] = req[r] PROVE SlotOK(r)'
    BY <2>1, <2>2, <2>3, SlotStays DEF ReqIInv
  <2>4. CASE req' = req
    <3>1. \A r \in Requests : SlotOK(r)'
      BY <2>3, <2>4
    <3>2. QED
      BY <2>1, <2>2, <2>4, <3>1 DEF ReqIInv
  <2>5. ASSUME NEW r \in Requests, ReqStep(r) PROVE ReqIInv'
    <3>1. /\ SlotOK(r)'
          /\ \A s \in Requests \ {r} : req'[s] = req[s]
          /\ req' = [s \in Requests |-> req'[s]]
      BY <2>5, OwnSlot
    <3>2. \A s \in Requests : SlotOK(s)'
      BY <2>3, <3>1
    <3>3. QED
      BY <2>1, <3>1, <3>2 DEF ReqIInv
  <2>6. QED
    BY <2>4, <2>5 DEF ReqNext, reqVars
<1>3. QED
  BY <1>1, <1>2, PTL DEF ReqSpec

(* The unique index keeps one accepted offer per booking under any number  *)
(* of overlapping requests.                                                *)
THEOREM OneAccepted == ReqSpec => []OneAcceptedOffer
<1>1. ReqIInv => OneAcceptedOffer
  BY DEF ReqIInv, Tables
<1>2. QED
  BY <1>1, RequestsInvariance, PTL

(* Nobody is on a taken booking without having held an offer of it that is *)
(* no longer open.                                                         *)
THEOREM TakenAnswered == ReqSpec => []TakenByAnAnswer
<1>1. ReqIInv => TakenByAnAnswer
  BY DEF ReqIInv, Tables
<1>2. QED
  BY <1>1, RequestsInvariance, PTL

(* No overlap opens again an offer that was answered or expired. *)
THEOREM AnswersStayGiven == ReqSpec => NeverReopened
<1> DEFINE A == \A b \in Bookings, w \in Workers :
                  offer[b][w] \in {"accepted", "declined", "expired"} =>
                    offer'[b][w] \notin {"none", "offered"}
<1>1. ReqIInv /\ [ReqNext]_reqVars => [A]_offer
  <2> SUFFICES ASSUME ReqIInv, [ReqNext]_reqVars PROVE A
    OBVIOUS
  <2>1. NotReopened
    BY TablesEffect
  <2>2. QED
    BY <2>1 DEF NotReopened
<1>2. QED
  BY <1>1, RequestsInvariance, PTL DEF ReqSpec, NeverReopened
(* Requests served one after the other keep the promise that overlapping   *)
(* ones break (accept_offer, claim_shift, and the comment on migration     *)
(* 0003's index): the winner of a booking stays its winner, because the    *)
(* winner's offer is final and the index admits no second accepted one.    *)
THEOREM SerialFirstAcceptWins == Spec => FirstAcceptWins
<1> DEFINE Final == \A b \in Bookings, w \in Workers :
                     offer[b][w] \in {"accepted", "declined", "expired"} =>
                       offer'[b][w] = offer[b][w]
           Wins == \A b \in Bookings, w \in Workers :
                     offer[b][w] = "accepted" =>
                       \A v \in Workers \ {w} : offer'[b][v] # "accepted"
<1>1. Init => Tables
  BY InitTables
<1>2. Tables /\ [Next]_vars => Tables'
  BY WholeEffect
<1>3. Tables' /\ [Final]_offer => [Wins]_offer
  BY DEF Tables, OneAcceptedOffer
<1>4. QED
  BY <1>1, <1>2, <1>3, AnswersFinal, PTL
     DEF Spec, AnswersAreFinal, FirstAcceptWins
-----------------------------------------------------------------------------
(* The check-in gate when two requests race: one in flight among requests  *)
(* that run whole.                                                         *)
OneInFlight == \A r, s \in Requests : r = s

(* A booking that went past the acceptance of its worker. *)
Settled(b) == status[b] \notin {"none", "requested", "offered", "accepted"}

(* What the request in flight may rely on: it writes a status its kind     *)
(* writes over one its kind loads; and a check-in found a worker who is    *)
(* still the booking's, cleared by the time it writes.                     *)
CheckInStands(q) ==
  /\ q.to \in Outcomes[q.op] /\ q.status \in Origins[q.op]
  /\ q.op = "check_in" =>
       /\ Settled(q.b)
       /\ q.worker # NoWorker /\ worker[q.b] = q.worker
       /\ q.pc \in {"worker", "write"}
       /\ q.pc = "write" => q.worker \in cleared

SlotGate(r) == req[r] \in LoadedRequests => CheckInStands(req[r])

GateInv ==
  /\ UnderWayIsCleared
  /\ \A r \in Requests : SlotGate(r)

(* Only a check-in writes checked_in, and who asks for a shift turns it    *)
(* accepted from something else.                                           *)
LEMMA OutcomesOfKinds ==
  ASSUME NEW op \in DOMAIN Origins, NEW s \in Origins[op],
         NEW to \in Outcomes[op]
  PROVE  /\ to = "checked_in" => op = "check_in"
         /\ op \in Asks => to = "accepted" /\ s # "accepted"
<1>1. op \in {"dispatch", "accept", "claim", "confirm", "cancel", "expire",
             "check_in", "complete", "no_show", "override"}
  BY DEF Origins
<1>2. to = "checked_in" => op = "check_in"
  BY <1>1 DEF Outcomes, Origins, OverrideTargets
<1>3. op \in Asks => to = "accepted"
  BY <1>1 DEF Outcomes, Origins, Asks
<1>4. op \in Asks => s # "accepted"
  <2>1. "accepted" \notin From("accepted")
    BY DEF From, Transitions
  <2>2. QED
    BY <2>1 DEF Origins, Asks
<1>5. QED
  BY <1>2, <1>3, <1>4

(* A whole request takes no settled booking from its worker, and clears    *)
(* workers for good.                                                       *)
SettledStays ==
  /\ \A b \in Bookings : Settled(b) => Settled(b)' /\ worker'[b] = worker[b]
  /\ cleared \subseteq cleared'

LEMMA WholeSettled ==
  ASSUME Tables, UnderWayIsCleared, [Next]_vars
  PROVE  SettledStays /\ UnderWayIsCleared'
<1> DEFINE Goal == SettledStays /\ UnderWayIsCleared'
<1> USE DEF Tables, TypeOK, rowVars, workerVars, clockVars
<1>1. ASSUME NEW b \in Bookings, BookingStep(b) PROVE Goal
  <2> USE DEF SettledStays, Settled, UnderWayIsCleared, SetStatus, MayMove,
              Transitions
  <2>1. ASSUME NEW d \in Dates, NEW m \in DispatchModes,
               NEW w \in Workers \cup {NoWorker}, CreateBooking(b, d, m, w)
        PROVE  Goal
    BY <2>1 DEF CreateBooking, Exists
  <2>2. ASSUME \/ \E d \in Dates : UpdateBooking(b, d)
               \/ \E w \in Workers : DeclineOffer(b, w)
               \/ WindowCloses(b)
        PROVE  Goal
    BY <2>2 DEF UpdateBooking, DeclineOffer, WindowCloses
  <2>3. ASSUME NEW targets \in SUBSET Workers, DispatchOffers(b, targets)
        PROVE  Goal
    BY <2>3 DEF DispatchOffers
  <2>4. ASSUME NEW w \in Workers, AcceptOffer(b, w) \/ ClaimShift(b, w)
        PROVE  Goal
    BY <2>4 DEF AcceptOffer, ClaimShift, Assign
  <2>5. CASE ConfirmBooking(b)
    BY <2>5 DEF ConfirmBooking
  <2>6. CASE CancelBooking(b) \/ ExpireBooking(b)
    BY <2>6 DEF CancelBooking, ExpireBooking
  <2>7. CASE CheckIn(b)
    BY <2>7 DEF CheckIn, TakenByAnAnswer, Taken
  <2>8. CASE CompleteShift(b) \/ RecordNoShow(b)
    BY <2>8 DEF CompleteShift, RecordNoShow
  <2>9. ASSUME NEW to \in OverrideTargets, ManualOverride(b, to) PROVE Goal
    BY <2>9 DEF ManualOverride, OverrideTargets
  <2>10. QED
    BY <1>1, <2>1, <2>2, <2>3, <2>4, <2>5, <2>6, <2>7, <2>8, <2>9
       DEF BookingStep
<1>2. ASSUME UNCHANGED <<status, worker>>, cleared \subseteq cleared' PROVE Goal
  BY <1>2 DEF SettledStays, Settled, UnderWayIsCleared
<1>3. ASSUME NEW w \in Workers, WorkerStep(w) PROVE Goal
  BY <1>2, <1>3 DEF WorkerStep, SetAvailability, ReviewWorker, ClearFirstShift
<1>4. ASSUME NEW d \in Dates, DatePasses(d) PROVE Goal
  BY <1>2, <1>4 DEF DatePasses
<1>5. CASE UNCHANGED vars
  BY <1>2, <1>5 DEF vars
<1>6. QED
  BY <1>1, <1>3, <1>4, <1>5 DEF Next

(* Hence what the request in flight relies on survives whole requests. *)
LEMMA GateSurvives ==
  ASSUME GateInv, SettledStays, UnderWayIsCleared', UNCHANGED req
  PROVE  GateInv'
<1> SUFFICES ASSUME NEW r \in Requests, req[r] \in LoadedRequests
             PROVE  CheckInStands(req[r])'
  BY DEF GateInv, SlotGate, LoadedRequests
<1> DEFINE q == req[r]
<1>1. q.b \in Bookings /\ CheckInStands(q)
  BY DEF GateInv, SlotGate, LoadedRequests
<1>2. /\ Settled(q.b) => Settled(q.b)' /\ worker'[q.b] = worker[q.b]
      /\ req'[r].b = q.b
  BY <1>1 DEF SettledStays, Settled
<1>3. cleared \subseteq cleared'
  BY DEF SettledStays
<1>4. QED
  BY <1>1, <1>2, <1>3 DEF CheckInStands

(* The only request in flight finds what it needs and keeps it. *)
LEMMA GateReads ==
  ASSUME OneInFlight, ReqIInv, GateInv, NEW r \in Requests,
         \/ LoadBooking(r) \/ LoadOffer(r) \/ LoadOfferToDecline(r)
         \/ SelectOpenOffers(r) \/ MatchWorkers(r) \/ LoadWorker(r)
         \/ LoadConflicts(r) \/ Abort(r)
  PROVE  GateInv'
<1>1. UNCHANGED vars
  BY DEF LoadBooking, LoadOffer, LoadOfferToDecline, SelectOpenOffers,
         MatchWorkers, LoadWorker, LoadConflicts, Abort
<1>2. /\ UnderWayIsCleared' /\ UNCHANGED <<status, worker, cleared>>
      /\ req = [s \in Requests |-> req[s]]
  BY <1>1 DEF GateInv, UnderWayIsCleared, vars, rowVars, workerVars, ReqIInv
<1>3. ASSUME req'[r] \in LoadedRequests => CheckInStands(req'[r])
      PROVE  GateInv'
  BY <1>2, <1>3 DEF OneInFlight, GateInv, SlotGate, LoadedRequests,
     CheckInStands, Settled
<1>4. CASE LoadBooking(r)
  <2>1. PICK op \in DOMAIN Origins, b \in Bookings :
          \E w, to : /\ status[b] \in Origins[op] /\ to \in Outcomes[op]
                     /\ req' = [req EXCEPT ![r] =
                          [op |-> op, b |-> b, w |-> w, to |-> to,
                           pc |-> NextRead[op], status |-> status[b],
                           worker |-> worker[b], mode |-> mode[b],
                           date |-> shiftDate[b], mine |-> "none", rows |-> {}]]
    BY <1>4 DEF LoadBooking
  <2>2. /\ status[b] \in Origins[op] /\ req'[r].to \in Outcomes[op]
        /\ req'[r].op = op /\ req'[r].b = b
        /\ req'[r].pc = NextRead[op] /\ req'[r].status = status[b]
        /\ req'[r].worker = worker[b]
    BY <1>2, <2>1
  <2>3. op = "check_in" => status[b] = "confirmed" /\ NextRead[op] = "worker"
    BY <2>1 DEF Origins, NextRead
  <2>4. status[b] = "confirmed" => Settled(b) /\ worker[b] # NoWorker
    BY DEF ReqIInv, Tables, TakenByAnAnswer, Taken, Settled
  <2>5. CheckInStands(req'[r])
    BY <2>1, <2>2, <2>3, <2>4 DEF CheckInStands
  <2>6. QED
    BY <1>3, <2>5
<1>5. ASSUME req[r] \in LoadedRequests,
             req'[r].op = req[r].op, req'[r].b = req[r].b,
             req'[r].to = req[r].to, req'[r].status = req[r].status,
             req'[r].worker = req[r].worker,
             req[r].op = "check_in" =>
               req'[r].pc = "write" /\ req[r].worker \in cleared
      PROVE  GateInv'
  BY <1>3, <1>5 DEF GateInv, SlotGate, CheckInStands
<1>6. CASE LoadOffer(r) \/ SelectOpenOffers(r) \/ MatchWorkers(r)
  <2>1. req[r] \in LoadedRequests /\ req[r].op # "check_in"
    <3>1. req[r] # Idle /\ req[r].pc \in {"offer", "select", "match"}
      BY <1>6 DEF LoadOffer, SelectOpenOffers, MatchWorkers
    <3>2. req[r] \in LoadedRequests
      BY <3>1 DEF ReqIInv, SlotOK, DeclineRequests, CalendarRequests
    <3>3. CheckInStands(req[r])
      BY <3>2 DEF GateInv, SlotGate
    <3>4. QED
      BY <3>1, <3>2, <3>3 DEF CheckInStands
  <2>2. /\ req'[r].op = req[r].op /\ req'[r].b = req[r].b
        /\ req'[r].to = req[r].to /\ req'[r].status = req[r].status
        /\ req'[r].worker = req[r].worker
    <3>1. CASE LoadOffer(r)
      <4>1. req'[r] = [req[r] EXCEPT !.mine = offer[req[r].b][req[r].w],
                                     !.pc = "select"]
        BY <1>2, <3>1 DEF LoadOffer
      <4>2. QED
        BY <2>1, <4>1 DEF LoadedRequests
    <3>2. CASE SelectOpenOffers(r)
      <4>1. req'[r] = [req[r] EXCEPT
              !.rows = {w \in Workers : offer[req[r].b][w] = "offered"},
              !.pc = "write"]
        BY <1>2, <3>2 DEF SelectOpenOffers
      <4>2. QED
        BY <2>1, <4>1 DEF LoadedRequests
    <3>3. CASE MatchWorkers(r)
      <4>1. PICK targets : req'[r] = [req[r] EXCEPT !.rows = targets, !.pc = "write"]
        BY <1>2, <3>3 DEF MatchWorkers
      <4>2. QED
        BY <2>1, <4>1 DEF LoadedRequests
    <3>4. QED
      BY <1>6, <3>1, <3>2, <3>3
  <2>3. QED
    BY <1>5, <2>1, <2>2
<1>7. CASE LoadWorker(r)
  <2>1. req[r] \in LoadedRequests
    BY <1>7 DEF LoadWorker, ReqIInv, SlotOK, DeclineRequests, CalendarRequests
  <2>2. /\ req'[r].op = req[r].op /\ req'[r].b = req[r].b
        /\ req'[r].to = req[r].to /\ req'[r].status = req[r].status
        /\ req'[r].worker = req[r].worker /\ req'[r].pc = "write"
    BY <1>2, <1>7, <2>1 DEF LoadWorker, LoadedRequests
  <2>3. req[r].op = "check_in" => req[r].worker \in cleared
    BY <1>7, <2>1 DEF LoadWorker, GateInv, SlotGate, CheckInStands
  <2>4. QED
    BY <1>5, <2>1, <2>2, <2>3
<1>8. CASE LoadOfferToDecline(r) \/ LoadConflicts(r) \/ Abort(r)
  <2>1. req'[r] \notin LoadedRequests
    BY <1>2, <1>8 DEF LoadOfferToDecline, LoadConflicts, Abort, Idle,
       LoadedRequests, Origins
  <2>2. QED
    BY <1>3, <2>1
<1>9. QED
  BY <1>4, <1>6, <1>7, <1>8

(* Its write checks in nobody but the cleared worker it found, and puts    *)
(* nobody else on a shift under way.                                       *)
LEMMA GateWrites ==
  ASSUME OneInFlight, ReqIInv, GateInv, NEW r \in Requests,
         \/ WriteAssignment(r) \/ WriteDecline(r) \/ WriteOffers(r)
         \/ WriteEnd(r) \/ WriteStatusOnly(r) \/ WriteUnavailable(r)
  PROVE  GateInv'
<1>1. req'[r] = Idle
  BY DEF ReqIInv, WriteAssignment, WriteDecline, WriteOffers, WriteEnd,
         WriteStatusOnly, WriteUnavailable, Writing
<1>2. \A s \in Requests : SlotGate(s)'
  BY <1>1 DEF OneInFlight, SlotGate, Idle, LoadedRequests
<1>3. CASE WriteDecline(r) \/ WriteUnavailable(r)
  BY <1>2, <1>3 DEF WriteDecline, WriteUnavailable, GateInv,
     UnderWayIsCleared, rowVars, workerVars
<1>4. CASE \/ WriteAssignment(r) \/ WriteOffers(r)
           \/ WriteEnd(r) \/ WriteStatusOnly(r)
  <2> DEFINE q == req[r]
  <2>1. q \in LoadedRequests /\ WriteStatus(q) /\ UNCHANGED cleared
    BY <1>4 DEF ReqIInv, SlotOK, WriteAssignment, WriteOffers, WriteEnd, Writing,
       WriteStatusOnly, DeclineRequests, CalendarRequests, workerVars
  <2>2. q.b \in Bookings /\ CheckInStands(q) /\ q.op \in DOMAIN Origins
    BY <2>1 DEF GateInv, SlotGate, LoadedRequests
  <2>3. /\ q.to = "checked_in" => q.op = "check_in"
        /\ q.op \in Asks => q.to = "accepted" /\ q.status # "accepted"
    BY <2>2, OutcomesOfKinds DEF CheckInStands
  <2>4. \A b \in Bookings :
          /\ b # q.b => status'[b] = status[b]
          /\ status'[q.b] = IF q.to = q.status THEN status[q.b] ELSE q.to
    BY <2>1, <2>2 DEF WriteStatus, ReqIInv, Tables, TypeOK
  <2>5. /\ \A b \in Bookings \ {q.b} : worker'[b] = worker[b]
        /\ q.op \notin Asks => worker' = worker
    BY <1>4, <2>2 DEF WriteAssignment, WriteOffers, WriteEnd, WriteStatusOnly,
       Writing, Asks, ReqIInv, Tables, TypeOK
  <2>6. q.op = "check_in" /\ q.pc = "write" => worker[q.b] \in cleared
    BY <2>2 DEF CheckInStands
  <2>7. q.pc = "write"
    BY <1>4 DEF WriteAssignment, WriteOffers, WriteEnd, WriteStatusOnly, Writing
  <2> HIDE DEF q
  <2>8. UnderWayIsCleared'
    <3> SUFFICES ASSUME NEW b \in Bookings, status'[b] = "checked_in"
                 PROVE  worker'[b] \in cleared
      BY <2>1 DEF UnderWayIsCleared
    <3>1. status[b] = "checked_in" => worker[b] \in cleared
      BY DEF GateInv, UnderWayIsCleared
    <3>2. CASE b # q.b
      BY <2>4, <2>5, <3>1, <3>2
    <3>3. CASE b = q.b /\ q.to = q.status
      BY <2>2, <2>3, <2>4, <2>5, <3>1, <3>3
    <3>4. CASE b = q.b /\ q.to # q.status
      <4>1. q.op = "check_in" /\ q.op \notin Asks
        BY <2>3, <2>4, <3>4 DEF Asks
      <4>2. QED
        BY <2>5, <2>6, <2>7, <3>4, <4>1
    <3>5. QED
      BY <3>2, <3>3, <3>4
  <2>9. QED
    BY <1>2, <2>8 DEF GateInv
<1>5. QED
  BY <1>3, <1>4

(* The invariant of one request in flight among whole ones. *)
THEOREM GateInvariance == OneInFlight => (ReqSpec => []GateInv)
<1> SUFFICES ASSUME OneInFlight PROVE ReqSpec => []GateInv
  OBVIOUS
<1>1. ReqInit => GateInv
  BY DEF ReqInit, Init, GateInv, UnderWayIsCleared, SlotGate, Idle,
     LoadedRequests, Origins
<1>2. ReqIInv /\ GateInv /\ [ReqNext]_reqVars => GateInv'
  <2> SUFFICES ASSUME ReqIInv, GateInv, [ReqNext]_reqVars PROVE GateInv'
    OBVIOUS
  <2>1. ASSUME [Next]_vars, UNCHANGED req PROVE GateInv'
    BY <2>1, WholeSettled, GateSurvives DEF ReqIInv, GateInv
  <2>2. ASSUME NEW r \in Requests, ReqStep(r) PROVE GateInv'
    BY <2>2, GateReads, GateWrites DEF ReqStep
  <2>3. QED
    BY <2>1, <2>2 DEF ReqNext, reqVars
<1>3. QED
  BY <1>1, <1>2, RequestsInvariance, PTL DEF ReqSpec

(* No race of two requests starts a shift of a worker who was not cleared, *)
(* although check_in reads the booking and its worker before it writes: a  *)
(* booking that was confirmed keeps its worker while it is in flight.      *)
THEOREM GateHoldsInRaces == OneInFlight => (ReqSpec => []UnderWayIsCleared)
BY GateInvariance, PTL DEF GateInv
=============================================================================
