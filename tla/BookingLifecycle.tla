-------------------------- MODULE BookingLifecycle --------------------------
(***************************************************************************)
(* What the booking service promises about one booking, whatever offers,   *)
(* dates and people it is made of: the status machine of the service's     *)
(* documentation, and "first accept wins", that is, a booking is awarded   *)
(* at most once and its winner never changes.                              *)
(***************************************************************************)
EXTENDS BookingStatus

CONSTANTS Bookings, Workers

VARIABLES
  phase,   \* the status of each booking
  winner,  \* the worker who won each booking: a singleton, or empty
  forced   \* bookings whose status an administrator forced

lifecycleVars == <<phase, winner, forced>>

Init ==
  /\ phase  = [b \in Bookings |-> "none"]
  /\ winner = [b \in Bookings |-> {}]
  /\ forced = {}

Go(b, from, to) ==
  /\ phase[b] \in from
  /\ phase' = [phase EXCEPT ![b] = to]

Request(b) == Go(b, {"none"}, "requested") /\ UNCHANGED <<winner, forced>>

(* The one step that names a winner, by accepting an offer or by claiming. *)
Award(b, w) ==
  /\ winner[b] = {}
  /\ Go(b, {"requested", "offered"}, "accepted")
  /\ winner' = [winner EXCEPT ![b] = {w}]
  /\ UNCHANGED forced

Advance(b) ==
  /\ \/ Go(b, {"requested"}, "offered")
     \/ Go(b, {"offered"}, "expired")
     \/ Go(b, {"accepted"}, "confirmed")
     \/ Go(b, {"confirmed"}, "checked_in")
     \/ Go(b, {"checked_in"}, "completed")
     \/ Go(b, {"confirmed", "checked_in"}, "no_show")
     \/ Go(b, {"requested", "offered", "accepted", "confirmed"}, "cancelled")
  /\ UNCHANGED <<winner, forced>>

(* An administrator may force a terminal status on any booking. *)
Override(b) ==
  /\ \E to \in OverrideTargets : Go(b, Statuses \ {"none"}, to)
  /\ forced' = forced \cup {b}
  /\ UNCHANGED winner

Next ==
  \E b \in Bookings :
    \/ Request(b)
    \/ \E w \in Workers : Award(b, w)
    \/ Advance(b)
    \/ Override(b)

Spec == Init /\ [][Next]_lifecycleVars

(* The type of the abstract state, for the modules that extend this one. *)
LifecycleTypeOK ==
  /\ phase \in [Bookings -> Statuses]
  /\ winner \in [Bookings -> SUBSET Workers]
  /\ forced \in SUBSET Bookings
=============================================================================
