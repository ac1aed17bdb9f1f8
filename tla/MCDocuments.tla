---------------------------- MODULE MCDocuments ----------------------------
(* A small instance of Documents for TLC. *)
EXTENDS Documents, TLC

(* Documents and types are only ever compared for equality. *)
Symmetry == Permutations(Docs) \cup Permutations(Types)
=============================================================================
