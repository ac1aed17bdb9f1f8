--------------------------- MODULE BookingStatus ---------------------------
(***************************************************************************)
(* The status vocabulary of a booking and of an offer, and the tables the  *)
(* services consult: the transition table of the booking service, the      *)
(* statuses an administrator may force, and the statuses under which a     *)
(* booking occupies its worker's date.                                     *)
(***************************************************************************)

(* "none" stands for a booking row that has not been inserted yet. *)
Statuses ==
  {"none", "requested", "offered", "accepted", "confirmed", "checked_in",
   "completed", "cancelled", "no_show", "rejected", "expired"}

(* "none" stands for an offer row that does not exist. *)
OfferStatuses == {"none", "offered", "accepted", "declined", "expired"}

DispatchModes == {"broadcast", "directed"}

(* Mutant of Transitions: a shift under way may still be cancelled. *)
TransitionsCancelUnderWay ==
  ({"requested"}  \X {"offered", "cancelled"}) \cup
  ({"offered"}    \X {"accepted", "expired", "cancelled"}) \cup
  ({"accepted"}   \X {"confirmed", "cancelled"}) \cup
  ({"confirmed"}  \X {"checked_in", "cancelled", "no_show"}) \cup
  ({"checked_in"} \X {"completed", "no_show", "cancelled"})

(* _TRANSITIONS: <<from, to>> where a booking in from may move to to. *)
Transitions ==
  ({"requested"}  \X {"offered", "cancelled"}) \cup
  ({"offered"}    \X {"accepted", "expired", "cancelled"}) \cup
  ({"accepted"}   \X {"confirmed", "cancelled"}) \cup
  ({"confirmed"}  \X {"checked_in", "cancelled", "no_show"}) \cup
  ({"checked_in"} \X {"completed", "no_show"})

(* The targets an administrator's override accepts. *)
OverrideTargets == {"completed", "cancelled", "no_show", "rejected"}

(* A booking in one of these statuses occupies its worker on its date. *)
Occupying ==
  Statuses \ {"none", "cancelled", "rejected", "expired", "no_show"}

(* The statuses of a booking a worker has taken and may still work. *)
Taken == {"accepted", "confirmed", "checked_in"}
=============================================================================
