----------------------------- MODULE MCBooking -----------------------------
(* Small instances of Booking for TLC. *)
EXTENDS Booking, TLC

(* Bookings, workers and dates are only ever compared, so permuting them   *)
(* preserves every safety property below.                                  *)
Symmetry == Permutations(Bookings) \cup Permutations(Workers)
              \cup Permutations(Dates)
=============================================================================
