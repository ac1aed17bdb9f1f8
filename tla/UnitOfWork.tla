----------------------------- MODULE UnitOfWork -----------------------------
(***************************************************************************)
(* How a request's session writes a row it loaded: the UPDATE at the       *)
(* commit holds the columns whose values the request changed, and no       *)
(* others, so that it undoes nothing a request in between did to the rest. *)
(* A row is a record of its columns.                                       *)
(***************************************************************************)

(* Mutant of Changes: the UPDATE holds the whole row as it was loaded. *)
ChangesWholeRow(loaded, new) == new

(* The columns a request changes, with their new values. *)
Changes(loaded, new) ==
  [c \in {c \in DOMAIN new : new[c] # loaded[c]} |-> new[c]]

(* The row after the UPDATE of these columns. *)
Updated(row, changes) ==
  [c \in DOMAIN row |-> IF c \in DOMAIN changes THEN changes[c] ELSE row[c]]
=============================================================================
