---------------------------- MODULE MCFirstShift ----------------------------
(* Small instances of FirstShift for TLC. *)
EXTENDS FirstShift, TLC

(* Identifiers are only ever compared: permuting them preserves safety. *)
Symmetry == Permutations(Workers) \cup Permutations(Schools)
              \cup Permutations(Requests)
=============================================================================
