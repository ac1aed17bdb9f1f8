------------------------- MODULE FirstShiftRegister -------------------------
(***************************************************************************)
(* What first-shift verification promises, whatever queries it is made of: *)
(* a register in which recording a verification and clearing its worker    *)
(* are one step, and whose entries stand for good.                         *)
(***************************************************************************)
CONSTANTS Workers, Schools

VARIABLES
  verified,  \* the verifications on record
  cleared,   \* the workers with one
  attended   \* <<worker, school>> such that the worker was checked in there

registerVars == <<verified, cleared, attended>>

Init == verified = {} /\ cleared = {} /\ attended = {}

(* A worker is verified once per school, and cleared from then on. *)
Verify(w, s, matched) ==
  /\ ~\E v \in verified : v.worker = w /\ v.school = s
  /\ verified' = verified \cup {[worker |-> w, school |-> s, matched |-> matched]}
  /\ cleared' = cleared \cup {w}
  /\ UNCHANGED attended

(* Only workers on record are checked in. *)
Attend(w, s) ==
  /\ \E v \in verified : v.worker = w
  /\ attended' = attended \cup {<<w, s>>}
  /\ UNCHANGED <<verified, cleared>>

Next ==
  \E w \in Workers, s \in Schools :
    \/ \E matched \in BOOLEAN : Verify(w, s, matched)
    \/ Attend(w, s)

Spec == Init /\ [][Next]_registerVars
=============================================================================
