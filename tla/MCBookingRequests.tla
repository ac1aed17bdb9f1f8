-------------------------- MODULE MCBookingRequests --------------------------
(* Small instances of BookingRequests for TLC. *)
EXTENDS BookingRequests, TLC

(* Identifiers are only ever compared: permuting them preserves safety. *)
Symmetry == Permutations(Bookings) \cup Permutations(Workers)
              \cup Permutations(Dates) \cup Permutations(Requests)

(* The bound of the race run: the calendar and the clock stay as they were *)
(* at the start (a state in which they moved is checked, but not explored).*)
StillCalendar ==
  /\ windowClosed = {}
  /\ past = {}
  /\ unavailable = {}
=============================================================================
