---------------------------- MODULE MCWorkerFile ----------------------------
(***************************************************************************)
(* One worker's file for model checking: the central record, which HR      *)
(* keeps, and what the worker submits.  The two parts write no table in    *)
(* common, so that a behaviour of the file is an interleaving of one of    *)
(* each that changes neither: the one part is run with the other at rest   *)
(* in its initial state, and the two in one run.                           *)
(***************************************************************************)
EXTENDS CentralRecord, SelfService, TLC

(* A list of one school, one of another school and rank, one that shares a *)
(* rank or a school with each, and one that the database refuses.          *)
SchoolLists ==
  {{[rank |-> 1, school |-> "a"]},
   {[rank |-> 2, school |-> "b"]},
   {[rank |-> 1, school |-> "b"], [rank |-> 2, school |-> "a"]},
   {[rank |-> 1, school |-> "a"], [rank |-> 2, school |-> "a"]}}

FileInit == CentralInit /\ SelfInit

FileNext ==
  \/ SelfInit /\ CentralNext /\ UNCHANGED selfVars
  \/ CentralInit /\ SelfNext /\ UNCHANGED centralVars

FileSpec == FileInit /\ [][FileNext]_<<centralVars, selfVars>>
=============================================================================
