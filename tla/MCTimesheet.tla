---------------------------- MODULE MCTimesheet ----------------------------
(* Small instances of Timesheet for TLC. *)
EXTENDS Timesheet, TLC

(* Identifiers and figures are only ever compared: permuting them          *)
(* preserves safety.                                                       *)
Symmetry == Permutations(Bookings) \cup Permutations(Workers)
              \cup Permutations(Sheets) \cup Permutations(Hours)
              \cup Permutations(Requests)
=============================================================================
