------------------------- MODULE SelfServiceProofs -------------------------
(***************************************************************************)
(* What module SelfService states, proved for any slots, versions, lists   *)
(* and number of attempts.                                                 *)
(***************************************************************************)
EXTENDS SelfService, TLAPS

Flags == {"read", "signed", "passed", "completed"}
InductionColumns == Flags \cup {"tries"}

(* An induction in order, of a worker with n attempts on file. *)
InOrder(i, n) ==
  /\ i.signed => i.read
  /\ i.passed => i.signed /\ i.tries > 0
  /\ i.completed = i.passed
  /\ i.tries <= n

(* Nothing of the induction is undone. *)
Grows(i, j) ==
  /\ i.read => j.read
  /\ i.signed => j.signed
  /\ i.passed => j.passed
  /\ i.completed => j.completed

(* The induction row that a submission leaves. *)
Left(w) == IF w.inserts THEN w.changes ELSE Updated(induction, w.changes)

(* Columns that a gate changed, when it makes the attempts n. *)
GateChanges(ch, n) ==
  /\ DOMAIN ch \subseteq InductionColumns
  /\ \A f \in Flags \cap DOMAIN ch : ch[f] = TRUE
  /\ "passed" \in DOMAIN ch =>
       "completed" \in DOMAIN ch /\ "tries" \in DOMAIN ch
  /\ "completed" \in DOMAIN ch => "passed" \in DOMAIN ch
  /\ "tries" \in DOMAIN ch =>
       ch["tries"] \in Nat /\ ch["tries"] > 0 /\ ch["tries"] <= n

(* What a submission may write, whatever was committed since it read. *)
InductionFacts(w) ==
  /\ w.inserts \in BOOLEAN
  /\ w.attempt \in {0, 1}
  /\ w.inserts =>
       w.changes \in Inductions /\ InOrder(w.changes, attempts + w.attempt)
  /\ ~w.inserts =>
       /\ induction \in Inductions
       /\ GateChanges(w.changes, attempts + w.attempt)
       /\ InOrder(Updated(induction, w.changes), attempts + w.attempt)

Facts(w) ==
  /\ w.kind \in {"induction", "agreement", "reference", "preferences"}
  /\ w.kind = "induction" => InductionFacts(w)
  /\ w.kind = "agreement" => w.version \in Versions
  /\ w.kind = "reference" => w.number \in Numbers /\ w.new \in BOOLEAN
  /\ w.kind = "preferences" => w.list \in Lists

(* What else it may, while nothing was. *)
FreshFacts(w) ==
  /\ w.kind = "induction" => Left(w).tries = attempts + w.attempt
  /\ w.kind = "agreement" => agreements[w.version] = 0
  /\ w.kind = "reference" => (w.new <=> references[w.number] = 0)
  /\ w.kind = "preferences" => w.old = preferences

TablesOK ==
  /\ attempts \in Nat
  /\ agreements \in [Versions -> Nat]
  /\ references \in [Numbers -> Nat]
  /\ induction = NoInduction => attempts = 0
  /\ induction # NoInduction =>
       /\ induction \in Inductions
       /\ InOrder(induction, attempts)
       /\ ~overlapped => induction.tries = attempts
  /\ SubmittedOnce

-----------------------------------------------------------------------------
(* _check_complete touches the completion flag alone. *)
LEMMA CheckedRow ==
  ASSUME NEW i \in Inductions
  PROVE  /\ Checked(i) \in Inductions
         /\ Checked(i).read = i.read
         /\ Checked(i).signed = i.signed
         /\ Checked(i).passed = i.passed
         /\ Checked(i).tries = i.tries
         /\ Checked(i).completed <=> i.completed \/ IsComplete(i)
<1> DEFINE c == i.completed \/ IsComplete(i)
<1>1. c \in BOOLEAN
  BY DEF Inductions, IsComplete
<1>2. Checked(i) = [i EXCEPT !.completed = c]
  BY DEF Checked
<1>3. c <=> i.completed \/ IsComplete(i)
  OBVIOUS
<1> HIDE DEF c
<1>4. /\ [i EXCEPT !.completed = c] \in Inductions
      /\ [i EXCEPT !.completed = c].read = i.read
      /\ [i EXCEPT !.completed = c].signed = i.signed
      /\ [i EXCEPT !.completed = c].passed = i.passed
      /\ [i EXCEPT !.completed = c].tries = i.tries
      /\ [i EXCEPT !.completed = c].completed = c
  BY <1>1 DEF Inductions
<1>5. QED
  BY <1>2, <1>3, <1>4

(* The row t that a gate makes of i, with k attempts more than the n on    *)
(* file.                                                                   *)
Gated(i, t, n, k) ==
  /\ t \in Inductions
  /\ InOrder(t, n + k)
  /\ Grows(i, t)
  /\ t.passed # i.passed <=> t.completed # i.completed
  /\ t.passed # i.passed => t.tries # i.tries
  /\ t.tries = i.tries + k

(* What _check_complete makes of a row j that a gate wrote over i. *)
LEMMA CheckEffect ==
  ASSUME NEW i \in Inductions, NEW j \in Inductions, NEW n \in Nat,
         InOrder(i, n), NEW k \in {0, 1},
         j.completed = i.completed, j.tries = i.tries + k, Grows(i, j),
         j.signed => j.read, j.passed => j.signed,
         j.passed => i.passed \/ k = 1
  PROVE  Gated(i, Checked(j), n, k)
<1> DEFINE t == Checked(j)
<1>1. /\ t \in Inductions
      /\ t.read = j.read /\ t.signed = j.signed /\ t.passed = j.passed
      /\ t.tries = j.tries
      /\ t.completed <=> j.completed \/ (j.read /\ j.signed /\ j.passed)
  BY CheckedRow DEF IsComplete
<1> HIDE DEF t
<1>2. /\ i.completed \in BOOLEAN /\ t.completed \in BOOLEAN
      /\ i.passed \in BOOLEAN /\ t.passed \in BOOLEAN
      /\ i.tries \in Nat
  BY <1>1 DEF Inductions
<1>3. t.completed <=> t.passed
  BY <1>1 DEF InOrder, Grows
<1>4. t.completed = t.passed /\ i.completed = i.passed
  BY <1>2, <1>3 DEF InOrder
<1>5. Grows(i, t)
  BY <1>1, <1>4 DEF Grows
<1>6. t.tries = i.tries + k /\ (t.passed => t.tries > 0) /\ t.tries <= n + k
  BY <1>1, <1>2 DEF InOrder
<1>7. t.passed # i.passed => t.tries # i.tries
  BY <1>1, <1>2, <1>6 DEF Grows
<1>8. InOrder(t, n + k)
  BY <1>1, <1>4, <1>6 DEF InOrder
<1>9. Gated(i, t, n, k)
  BY <1>1, <1>4, <1>5, <1>6, <1>7, <1>8 DEF Gated
<1>10. QED
  BY <1>9 DEF t

(* What the three gates make of a row that is in order. *)
LEMMA GateEffect ==
  ASSUME NEW i \in Inductions, NEW n \in Nat, InOrder(i, n),
         NEW t, NEW k \in {0, 1},
         \/ t = Checked([i EXCEPT !.read = TRUE]) /\ k = 0
         \/ t = Checked([i EXCEPT !.signed = TRUE]) /\ k = 0 /\ i.read
         \/ \E p \in BOOLEAN : t = Scored(i, p) /\ k = 1 /\ i.signed /\ ~i.passed
  PROVE  Gated(i, t, n, k)
<1>0. i.read \in BOOLEAN /\ i.signed \in BOOLEAN /\ i.passed \in BOOLEAN
      /\ i.completed \in BOOLEAN /\ i.tries \in Nat
  BY DEF Inductions
<1>1. CASE t = Checked([i EXCEPT !.read = TRUE]) /\ k = 0
  <2> DEFINE j == [i EXCEPT !.read = TRUE]
  <2>1. /\ j \in Inductions /\ j.read = TRUE /\ j.signed = i.signed
        /\ j.passed = i.passed /\ j.completed = i.completed /\ j.tries = i.tries
    BY DEF Inductions
  <2>2. t = Checked(j) /\ k = 0
    BY <1>1
  <2> HIDE DEF j
  <2>3. Grows(i, j) /\ j.tries = i.tries + k
    BY <1>0, <2>1, <2>2 DEF Grows
  <2>4. (j.signed => j.read) /\ (j.passed => j.signed) /\ (j.passed => i.passed)
    BY <1>0, <2>1 DEF InOrder
  <2>5. QED
    BY <2>1, <2>2, <2>3, <2>4, CheckEffect
<1>2. CASE t = Checked([i EXCEPT !.signed = TRUE]) /\ k = 0 /\ i.read
  <2> DEFINE j == [i EXCEPT !.signed = TRUE]
  <2>1. /\ j \in Inductions /\ j.read = i.read /\ j.signed = TRUE
        /\ j.passed = i.passed /\ j.completed = i.completed /\ j.tries = i.tries
    BY DEF Inductions
  <2>2. t = Checked(j) /\ k = 0 /\ i.read
    BY <1>2
  <2> HIDE DEF j
  <2>3. Grows(i, j) /\ j.tries = i.tries + k
    BY <1>0, <2>1, <2>2 DEF Grows
  <2>4. (j.signed => j.read) /\ (j.passed => j.signed) /\ (j.passed => i.passed)
    BY <1>0, <2>1, <2>2 DEF InOrder
  <2>5. QED
    BY <2>1, <2>2, <2>3, <2>4, CheckEffect
<1>3. ASSUME NEW p \in BOOLEAN, t = Scored(i, p), k = 1, i.signed, ~i.passed
      PROVE  Gated(i, t, n, k)
  <2> DEFINE g == [i EXCEPT !.tries = @ + 1]
             j == [g EXCEPT !.passed = TRUE]
  <2>1. /\ g \in Inductions /\ g.read = i.read /\ g.signed = i.signed
        /\ g.passed = i.passed /\ g.completed = i.completed /\ g.tries = i.tries + 1
    BY DEF Inductions
  <2>2. t = IF p THEN Checked(j) ELSE g
    BY <1>3 DEF Scored
  <2> HIDE DEF g
  <2>3. /\ j \in Inductions /\ j.read = g.read /\ j.signed = g.signed
        /\ j.passed = TRUE /\ j.completed = g.completed /\ j.tries = g.tries
    BY <2>1 DEF Inductions
  <2> HIDE DEF j
  <2>4. CASE p
    <3>1. Grows(i, j) /\ j.tries = i.tries + k /\ j.completed = i.completed
      BY <1>0, <1>3, <2>1, <2>3 DEF Grows
    <3>2. (j.signed => j.read) /\ (j.passed => j.signed) /\ k = 1
      BY <1>0, <1>3, <2>1, <2>3 DEF InOrder
    <3>3. QED
      BY <2>2, <2>3, <2>4, <3>1, <3>2, CheckEffect
  <2>5. CASE ~p
    <3>1. t = g
      BY <2>2, <2>5
    <3>2. /\ t.read = i.read /\ t.signed = i.signed /\ t.passed = i.passed
          /\ t.completed = i.completed /\ t.tries = i.tries + k
      BY <1>3, <2>1, <3>1
    <3>3. t.tries <= n + k
      BY <1>0, <3>2 DEF InOrder
    <3>4. InOrder(t, n + k)
      BY <1>3, <3>2, <3>3 DEF InOrder
    <3>5. Grows(i, t)
      BY <3>2 DEF Grows
    <3>6. QED
      BY <1>3, <2>1, <3>1, <3>2, <3>4, <3>5 DEF Gated
  <2>6. QED
    BY <2>4, <2>5
<1>4. QED
  BY <1>1, <1>2, <1>3

(* The columns that a gate changes make the row it made. *)
LEMMA ChangesMakeTheRow ==
  ASSUME NEW i \in Inductions, NEW t \in Inductions
  PROVE  /\ DOMAIN Changes(i, t) = {c \in InductionColumns : t[c] # i[c]}
         /\ \A c \in DOMAIN Changes(i, t) : Changes(i, t)[c] = t[c]
         /\ Updated(i, Changes(i, t)) = t
<1>1. DOMAIN i = InductionColumns /\ DOMAIN t = InductionColumns
  BY DEF Inductions, InductionColumns, Flags
<1>2. /\ DOMAIN Changes(i, t) = {c \in InductionColumns : t[c] # i[c]}
      /\ \A c \in DOMAIN Changes(i, t) : Changes(i, t)[c] = t[c]
  BY <1>1 DEF Changes
<1>3. Updated(i, Changes(i, t)) = [c \in InductionColumns |-> t[c]]
  BY <1>1, <1>2 DEF Updated
<1>4. t = [c \in InductionColumns |-> t[c]]
  BY DEF Inductions, InductionColumns, Flags
<1>5. QED
  BY <1>2, <1>3, <1>4

-----------------------------------------------------------------------------
(* What the three routes of the induction are about to write. *)
LEMMA RouteFacts ==
  ASSUME TablesOK, NEW w \in SafeguardingRoute
  PROVE  /\ w.kind = "induction"
         /\ InductionFacts(w)
         /\ ~overlapped => Left(w).tries = attempts + w.attempt
<1> DEFINE i == InductionOrNew
<1>1. i \in Inductions /\ InOrder(i, attempts) /\ attempts \in Nat
      /\ (~overlapped => i.tries = attempts)
  <2>1. CASE induction = NoInduction
    <3>1. attempts = 0 /\ i = NewInduction
      BY <2>1 DEF TablesOK, InductionOrNew
    <3>2. NewInduction \in Inductions /\ InOrder(NewInduction, 0) /\ NewInduction.tries = 0
      BY DEF NewInduction, Inductions, InOrder
    <3> HIDE DEF i
    <3>3. QED
      BY <3>1, <3>2
  <2>2. CASE induction # NoInduction
    BY <2>2 DEF TablesOK, InductionOrNew
  <2>3. QED
    BY <2>1, <2>2
<1>2. PICK t, k :
        /\ k \in {0, 1}
        /\ w = Induct(t, k)
        /\ \/ t = Checked([i EXCEPT !.read = TRUE]) /\ k = 0
           \/ t = Checked([i EXCEPT !.signed = TRUE]) /\ k = 0 /\ i.read
           \/ \E p \in BOOLEAN : t = Scored(i, p) /\ k = 1 /\ i.signed /\ ~i.passed
  <2>1. CASE w \in RecordKcsieRead
    BY <2>1 DEF RecordKcsieRead
  <2>2. CASE w \in RecordPolicySigned
    BY <2>2 DEF RecordPolicySigned
  <2>3. CASE w \in SubmitQuiz
    BY <2>3 DEF SubmitQuiz
  <2>4. QED
    BY <2>1, <2>2, <2>3 DEF SafeguardingRoute
<1>0. k \in {0, 1} /\ (induction # NoInduction => i = induction)
  BY <1>2 DEF InductionOrNew
<1> HIDE DEF i
<1>3. Gated(i, t, attempts, k)
  BY <1>1, <1>2, GateEffect
<1>4. /\ w.kind = "induction" /\ w.attempt = k
      /\ w.inserts = (induction = NoInduction)
      /\ induction = NoInduction => w.changes = t
      /\ induction # NoInduction => w.changes = Changes(induction, t)
  BY <1>2 DEF Induct
<1>5. CASE induction = NoInduction
  <2>1. t \in Inductions /\ InOrder(t, attempts + k) /\ t.tries = i.tries + k
    BY <1>3 DEF Gated
  <2>2. w.inserts = TRUE
    BY <1>4, <1>5
  <2>3. w.changes = t /\ w.attempt = k
    BY <1>4, <1>5
  <2>4. InductionFacts(w)
    BY <1>0, <2>1, <2>2, <2>3 DEF InductionFacts
  <2>5. ~overlapped => Left(w).tries = attempts + w.attempt
    BY <1>1, <2>1, <2>2, <2>3 DEF Left
  <2>6. QED
    BY <1>4, <2>4, <2>5
<1>6. CASE induction # NoInduction
  <2>1. i = induction
    BY <1>0, <1>6
  <2>2. w.inserts = FALSE /\ w.changes = Changes(induction, t)
    BY <1>4, <1>6
  <2>3. /\ DOMAIN w.changes = {c \in InductionColumns : t[c] # induction[c]}
        /\ \A c \in DOMAIN w.changes : w.changes[c] = t[c]
        /\ Updated(induction, w.changes) = t
    <3>1. induction \in Inductions /\ t \in Inductions
      BY <1>1, <1>3, <2>1 DEF Gated
    <3>2. w.changes = Changes(induction, t)
      BY <2>2
    <3>3. /\ DOMAIN Changes(induction, t)
               = {c \in InductionColumns : t[c] # induction[c]}
          /\ \A c \in DOMAIN Changes(induction, t) :
               Changes(induction, t)[c] = t[c]
          /\ Updated(induction, Changes(induction, t)) = t
      BY <3>1, ChangesMakeTheRow
    <3>4. QED
      BY <3>2, <3>3
  <2>4. \A f \in Flags \cap DOMAIN w.changes : w.changes[f] = TRUE
    <3>1. ASSUME NEW f \in Flags, t[f] # induction[f]
          PROVE  t[f] = TRUE
      <4>1. t[f] \in BOOLEAN /\ induction[f] \in BOOLEAN
        BY <1>1, <1>3, <2>1 DEF Gated, Inductions, Flags
      <4>2. induction[f] => t[f]
        BY <1>3, <2>1 DEF Gated, Grows, Flags
      <4>3. QED
        BY <3>1, <4>1, <4>2
    <3>2. QED
      BY <2>3, <3>1
  <2>5. /\ "passed" \in DOMAIN w.changes =>
             "completed" \in DOMAIN w.changes /\ "tries" \in DOMAIN w.changes
        /\ "completed" \in DOMAIN w.changes => "passed" \in DOMAIN w.changes
    BY <1>3, <2>1, <2>3 DEF Gated, InductionColumns, Flags
  <2>6. ASSUME "tries" \in DOMAIN w.changes
        PROVE  /\ w.changes["tries"] \in Nat /\ w.changes["tries"] > 0
               /\ w.changes["tries"] <= attempts + w.attempt
    <3>1. w.changes["tries"] = t.tries /\ t.tries # induction.tries
      BY <2>3, <2>6
    <3>2. /\ induction.tries \in Nat /\ t.tries \in Nat
          /\ t.tries = induction.tries + k /\ t.tries <= attempts + k
      BY <1>1, <1>3, <2>1 DEF Gated, InOrder, Inductions
    <3>3. QED
      BY <1>0, <1>4, <3>1, <3>2
  <2>7. t.tries = induction.tries + k /\ InOrder(t, attempts + k)
    BY <1>3, <2>1 DEF Gated
  <2>8. DOMAIN w.changes \subseteq InductionColumns
    BY <2>3
  <2>9. InductionFacts(w)
    BY <1>0, <1>1, <1>4, <2>1, <2>2, <2>3, <2>4, <2>5, <2>6, <2>7, <2>8
       DEF InductionFacts, GateChanges
  <2>10. QED
    BY <1>1, <1>4, <2>1, <2>2, <2>3, <2>7, <2>9 DEF Left
<1>7. QED
  BY <1>5, <1>6

(* What any request is about to write. *)
LEMMA SubmissionFacts ==
  ASSUME TablesOK, NEW w \in Submissions
  PROVE  Facts(w) /\ (~overlapped => FreshFacts(w))
<1>1. CASE w \in SafeguardingRoute
  <2>1. /\ w.kind = "induction"
        /\ InductionFacts(w)
        /\ ~overlapped => Left(w).tries = attempts + w.attempt
    BY <1>1, RouteFacts
  <2>2. QED
    BY <2>1 DEF Facts, FreshFacts
<1>2. CASE w \in SignAgreement
  BY <1>2 DEF SignAgreement, Facts, FreshFacts
<1>3. CASE w \in SubmitReference
  <2>1. PICK n \in Numbers :
          w = [kind |-> "reference", number |-> n, new |-> references[n] = 0]
    BY <1>3 DEF SubmitReference
  <2> DEFINE new == references[n] = 0
  <2>2. new \in BOOLEAN /\ (new <=> references[n] = 0)
    OBVIOUS
  <2>3. w = [kind |-> "reference", number |-> n, new |-> new]
    BY <2>1
  <2> HIDE DEF new
  <2>4. w.kind = "reference" /\ w.number = n /\ w.new = new
    BY <2>3
  <2>5. QED
    BY <2>2, <2>4 DEF Facts, FreshFacts
<1>4. CASE w \in SetSchoolPreferences
  BY <1>4 DEF SetSchoolPreferences, Facts, FreshFacts
<1>5. QED
  BY <1>1, <1>2, <1>3, <1>4 DEF Submissions

-----------------------------------------------------------------------------
(* What the columns of a gate do to a row, the one it loaded or a later. *)
LEMMA UpdatedRow ==
  ASSUME NEW i \in Inductions, NEW n \in Nat, NEW ch, GateChanges(ch, n)
  PROVE  LET u == Updated(i, ch)
         IN /\ u \in Inductions
            /\ Grows(i, u)
            /\ \A c \in InductionColumns :
                 u[c] = IF c \in DOMAIN ch THEN ch[c] ELSE i[c]
<1> DEFINE u == Updated(i, ch)
<1>1. DOMAIN i = InductionColumns
  BY DEF Inductions, InductionColumns, Flags
<1>2. u = [c \in InductionColumns |-> IF c \in DOMAIN ch THEN ch[c] ELSE i[c]]
  BY <1>1 DEF Updated
<1>3. \A f \in Flags : i[f] \in BOOLEAN
  BY DEF Inductions, Flags
<1>4. i["tries"] \in Nat
  BY DEF Inductions
<1> HIDE DEF u
<1>5. \A f \in Flags : u[f] \in BOOLEAN /\ (i[f] => u[f])
  BY <1>2, <1>3 DEF GateChanges, InductionColumns
<1>6. u["tries"] \in Nat
  BY <1>2, <1>4 DEF GateChanges, InductionColumns
<1>7. u = [read |-> u["read"], signed |-> u["signed"], passed |-> u["passed"],
           completed |-> u["completed"], tries |-> u["tries"]]
  BY <1>2 DEF InductionColumns, Flags
<1>8. u \in Inductions
  BY <1>5, <1>6, <1>7 DEF Inductions, Flags
<1>9. Grows(i, u)
  BY <1>5 DEF Grows, Flags
<1>10. QED
  BY <1>2, <1>8, <1>9 DEF u

(* The columns a gate wrote over the row i put a later row j in order too. *)
LEMMA LateUpdate ==
  ASSUME NEW i \in Inductions, NEW j \in Inductions, Grows(i, j),
         NEW n \in Nat, NEW m \in Nat, n <= m, NEW k \in {0, 1}, NEW ch,
         GateChanges(ch, n + k), InOrder(Updated(i, ch), n + k), InOrder(j, m)
  PROVE  InOrder(Updated(j, ch), m + k) /\ GateChanges(ch, m + k)
<1> DEFINE u == Updated(i, ch)
           v == Updated(j, ch)
<1>1. n + k \in Nat /\ n + k <= m + k /\ m <= m + k
  OBVIOUS
<1>2. /\ u \in Inductions /\ v \in Inductions
      /\ \A c \in InductionColumns :
           /\ u[c] = IF c \in DOMAIN ch THEN ch[c] ELSE i[c]
           /\ v[c] = IF c \in DOMAIN ch THEN ch[c] ELSE j[c]
  BY <1>1, UpdatedRow
<1>3. InOrder(u, n + k)
  OBVIOUS
<1> HIDE DEF u, v
<1>4. /\ v.read = IF "read" \in DOMAIN ch THEN TRUE ELSE j.read
      /\ u.read = IF "read" \in DOMAIN ch THEN TRUE ELSE i.read
      /\ v.signed = IF "signed" \in DOMAIN ch THEN TRUE ELSE j.signed
      /\ u.signed = IF "signed" \in DOMAIN ch THEN TRUE ELSE i.signed
      /\ v.passed = IF "passed" \in DOMAIN ch THEN TRUE ELSE j.passed
      /\ u.passed = IF "passed" \in DOMAIN ch THEN TRUE ELSE i.passed
      /\ v.completed = IF "completed" \in DOMAIN ch THEN TRUE ELSE j.completed
      /\ v.tries = IF "tries" \in DOMAIN ch THEN ch["tries"] ELSE j.tries
  BY <1>2 DEF GateChanges, InductionColumns, Flags
<1>5. v.signed => v.read
  BY <1>3, <1>4 DEF InOrder, Grows
<1>6. v.passed => v.signed /\ v.tries > 0
  BY <1>3, <1>4 DEF InOrder, Grows, GateChanges
<1>7. v.completed = v.passed
  <2>1. "passed" \in DOMAIN ch <=> "completed" \in DOMAIN ch
    BY DEF GateChanges
  <2>2. j.completed = j.passed
    BY DEF InOrder
  <2>3. CASE "passed" \in DOMAIN ch
    <3>1. v.completed = TRUE /\ v.passed = TRUE
      BY <1>4, <2>1, <2>3
    <3>2. QED
      BY <3>1
  <2>4. CASE "passed" \notin DOMAIN ch
    <3>1. v.completed = j.completed /\ v.passed = j.passed
      BY <1>4, <2>1, <2>4
    <3>2. QED
      BY <2>2, <3>1
  <2>5. QED
    BY <2>3, <2>4
<1>8. v.tries <= m + k
  <2>1. j.tries \in Nat /\ j.tries <= m
    BY DEF InOrder, Inductions
  <2>2. "tries" \in DOMAIN ch => ch["tries"] \in Nat /\ ch["tries"] <= n + k
    BY DEF GateChanges
  <2>3. QED
    BY <1>1, <1>4, <2>1, <2>2
<1>9. InOrder(v, m + k)
  BY <1>5, <1>6, <1>7, <1>8 DEF InOrder
<1>10. GateChanges(ch, m + k)
  BY <1>1 DEF GateChanges
<1>11. QED
  BY <1>9, <1>10 DEF v

-----------------------------------------------------------------------------
(* Nothing of the induction or of the attempts is undone. *)
Later ==
  /\ attempts' \in Nat /\ attempts <= attempts'
  /\ induction # NoInduction =>
       /\ induction' # NoInduction
       /\ induction' \in Inductions
       /\ Grows(induction, induction')

(* The commit of a submission keeps the tables in order. *)
LEMMA WriteKeeps ==
  ASSUME TablesOK, NEW w, Facts(w), Accepted(w), Write(w),
         ~overlapped' => ~overlapped /\ FreshFacts(w)
  PROVE  TablesOK' /\ Later
<1> USE DEF TablesOK
<1>1. CASE w.kind = "induction"
  <2>1. /\ induction' = Left(w) /\ attempts' = attempts + w.attempt
        /\ UNCHANGED <<agreements, references, preferences>>
    BY <1>1 DEF Write, Left
  <2>2. InductionFacts(w) /\ (w.inserts => induction = NoInduction)
    BY <1>1 DEF Facts, Accepted
  <2>3. attempts' \in Nat /\ attempts <= attempts'
    BY <2>1, <2>2 DEF InductionFacts
  <2>4. /\ induction' \in Inductions
        /\ InOrder(induction', attempts')
        /\ induction # NoInduction => Grows(induction, induction')
    <3>1. CASE w.inserts
      BY <2>1, <2>2, <3>1 DEF InductionFacts, Left
    <3>2. CASE ~w.inserts
      <4>1. induction' = Updated(induction, w.changes)
        BY <2>1, <3>2 DEF Left
      <4>2. /\ induction \in Inductions
            /\ GateChanges(w.changes, attempts')
            /\ InOrder(Updated(induction, w.changes), attempts')
        BY <2>1, <2>2, <3>2 DEF InductionFacts
      <4>3. QED
        BY <2>3, <4>1, <4>2, UpdatedRow
    <3>3. QED
      BY <3>1, <3>2
  <2>5. induction' # NoInduction
    BY <2>4, SelfAssumption
  <2>6. ~overlapped' => induction'.tries = attempts'
    BY <1>1, <2>1 DEF FreshFacts
  <2>7. SubmittedOnce'
    BY <2>1 DEF SubmittedOnce
  <2>8. QED
    BY <2>1, <2>3, <2>4, <2>5, <2>6, <2>7 DEF Later
<1>2. CASE w.kind = "agreement"
  <2>1. /\ agreements' = [agreements EXCEPT ![w.version] = @ + 1]
        /\ UNCHANGED <<induction, attempts, references, preferences>>
    BY <1>2 DEF Write
  <2>2. w.version \in Versions
    BY <1>2 DEF Facts
  <2>3. agreements' \in [Versions -> Nat]
    BY <2>1, <2>2
  <2>4. SubmittedOnce'
    <3>1. ~overlapped' => agreements[w.version] = 0
      BY <1>2 DEF FreshFacts
    <3>2. QED
      BY <2>1, <2>2, <3>1 DEF SubmittedOnce
  <2>5. induction # NoInduction => Grows(induction, induction)
    BY DEF Grows
  <2>6. QED
    BY <2>1, <2>3, <2>4, <2>5 DEF Later
<1>3. CASE w.kind = "reference"
  <2>1. /\ references' = [references EXCEPT ![w.number] = @ + IF w.new THEN 1 ELSE 0]
        /\ UNCHANGED <<induction, attempts, agreements, preferences>>
    BY <1>3 DEF Write
  <2>2. w.number \in Numbers
    BY <1>3 DEF Facts
  <2>3. references' \in [Numbers -> Nat]
    BY <2>1, <2>2
  <2>4. SubmittedOnce'
    <3>1. ~overlapped' => (w.new <=> references[w.number] = 0)
      BY <1>3 DEF FreshFacts
    <3>2. QED
      BY <2>1, <2>2, <3>1 DEF SubmittedOnce
  <2>5. induction # NoInduction => Grows(induction, induction)
    BY DEF Grows
  <2>6. QED
    BY <2>1, <2>3, <2>4, <2>5 DEF Later
<1>4. CASE w.kind = "preferences"
  <2>1. /\ preferences' = (preferences \ w.old) \cup w.list
        /\ UNCHANGED <<induction, attempts, agreements, references>>
    BY <1>4 DEF Write
  <2>2. ~overlapped' => preferences' \in Lists
    BY <1>4, <2>1 DEF Facts, FreshFacts
  <2>3. SubmittedOnce'
    BY <2>1, <2>2 DEF SubmittedOnce
  <2>4. induction # NoInduction => Grows(induction, induction)
    BY DEF Grows
  <2>5. QED
    BY <2>1, <2>3, <2>4 DEF Later
<1>5. QED
  BY <1>1, <1>2, <1>3, <1>4 DEF Facts

(* What a request in flight may write stays so when another commits. *)
LEMMA FactsStay ==
  ASSUME TablesOK, TablesOK', Later, NEW v, Facts(v)
  PROVE  Facts(v)'
<1>1. CASE v.kind = "induction"
  <2>1. InductionFacts(v) /\ attempts \in Nat /\ attempts' \in Nat /\ attempts <= attempts'
    BY <1>1 DEF Facts, TablesOK, Later
  <2>2. CASE v.inserts
    <3>1. InOrder(v.changes, attempts' + v.attempt)
      BY <2>1, <2>2 DEF InductionFacts, InOrder, Inductions
    <3>2. QED
      BY <1>1, <2>1, <2>2, <3>1 DEF InductionFacts, Facts
  <2>3. CASE ~v.inserts
    <3>1. /\ induction \in Inductions /\ v.attempt \in {0, 1}
          /\ GateChanges(v.changes, attempts + v.attempt)
          /\ InOrder(Updated(induction, v.changes), attempts + v.attempt)
      BY <2>1, <2>3 DEF InductionFacts
    <3>2. induction # NoInduction
      BY <3>1, SelfAssumption
    <3>3. induction' \in Inductions /\ Grows(induction, induction')
          /\ InOrder(induction', attempts')
      BY <3>2 DEF Later, TablesOK
    <3>4. /\ InOrder(Updated(induction', v.changes), attempts' + v.attempt)
          /\ GateChanges(v.changes, attempts' + v.attempt)
      BY <2>1, <3>1, <3>3, LateUpdate
    <3>5. QED
      BY <1>1, <2>1, <2>3, <3>3, <3>4 DEF InductionFacts, Facts
  <2>4. QED
    BY <2>2, <2>3
<1>2. CASE v.kind # "induction"
  BY <1>2 DEF Facts
<1>3. QED
  BY <1>1, <1>2

-----------------------------------------------------------------------------
(* A request in flight: what it will write is true to what was committed,  *)
(* and to the whole of it while nothing was committed since it read.       *)
SlotOK(r) ==
  submitting[r] # NoSubmission =>
    /\ submitting[r] = [what |-> submitting[r].what, fresh |-> submitting[r].fresh]
    /\ submitting[r].fresh \in BOOLEAN
    /\ Facts(submitting[r].what)
    /\ submitting[r].fresh /\ ~overlapped => FreshFacts(submitting[r].what)

IInv ==
  /\ TablesOK
  /\ overlapped \in BOOLEAN
  /\ submitting = [r \in SelfSlots |-> submitting[r]]
  /\ \A r \in SelfSlots : SlotOK(r)

(* To find fewer rows of the preferences there takes nothing from what a   *)
(* request may write.                                                      *)
LEMMA LeftFacts ==
  ASSUME NEW w, NEW s, Facts(w)
  PROVE  Facts(StillThere(w, s))
<1>1. CASE w.kind = "preferences" /\ s.kind = "preferences"
  BY <1>1 DEF StillThere, Facts
<1>2. CASE ~(w.kind = "preferences" /\ s.kind = "preferences")
  BY <1>2 DEF StillThere
<1>3. QED
  BY <1>1, <1>2

(* A request in flight is outdated by a commit and stays good. *)
LEMMA OutdatedStays ==
  ASSUME IInv, TablesOK', Later, NEW q \in SelfSlots, NEW s,
         submitting'[q] = Outdated(s)[q]
  PROVE  SlotOK(q)'
<1>1. CASE submitting[q] = NoSubmission
  BY <1>1 DEF Outdated, SlotOK
<1>2. CASE submitting[q] # NoSubmission
  <2>1. /\ submitting[q] = [what |-> submitting[q].what,
                            fresh |-> submitting[q].fresh]
        /\ Facts(submitting[q].what)
    BY <1>2 DEF IInv, SlotOK
  <2> DEFINE left == StillThere(submitting[q].what, s)
  <2>2. submitting'[q] = [what |-> left, fresh |-> FALSE]
    BY <1>2 DEF Outdated
  <2>3. Facts(left)
    BY <2>1, LeftFacts
  <2> HIDE DEF left
  <2>4. Facts(submitting[q].what)'
    <3>1. Facts(submitting'[q].what) /\ TablesOK
      BY <2>2, <2>3 DEF IInv
    <3>2. QED
      BY <3>1, FactsStay
  <2>5. QED
    BY <2>2, <2>3, <2>4 DEF SlotOK
<1>3. QED
  BY <1>1, <1>2

(* There is nothing on file before the first submission. *)
LEMMA InitInvariant == SelfInit => IInv
<1> SUFFICES ASSUME SelfInit
             PROVE  IInv
  OBVIOUS
<1>1. TablesOK
  BY DEF SelfInit, TablesOK, SubmittedOnce
<1>2. QED
  BY <1>1 DEF SelfInit, IInv, SlotOK

(* What a step does to the tables: they stay in order, and nothing is      *)
(* undone.                                                                 *)
LEMMA StepEffect ==
  ASSUME IInv, [SelfNext]_selfVars
  PROVE  TablesOK' /\ Later /\ (overlapped => overlapped')
<1>1. ASSUME UNCHANGED <<tables, overlapped>>
      PROVE  TablesOK' /\ Later
  BY <1>1 DEF IInv, TablesOK, tables, SubmittedOnce, Later, Grows
<1>2. CASE SubmitAlone
  <2>1. PICK w \in Submissions :
          Accepted(w) /\ Write(w) /\ overlapped' = overlapped
    BY <1>2 DEF SubmitAlone
  <2>2. QED
    BY <2>1, SubmissionFacts, WriteKeeps DEF IInv
<1>3. ASSUME NEW r \in SelfSlots, CommitSubmission(r)
      PROVE  TablesOK' /\ Later /\ (overlapped => overlapped')
  <2> DEFINE w == submitting[r].what
  <2>1. /\ Accepted(w) /\ Write(w)
        /\ submitting[r] # NoSubmission
        /\ overlapped' = (overlapped \/ ~submitting[r].fresh)
    BY <1>3 DEF CommitSubmission
  <2>2. Facts(w) /\ (~overlapped' => ~overlapped /\ FreshFacts(w))
    BY <2>1 DEF IInv, SlotOK
  <2>3. QED
    BY <2>1, <2>2, WriteKeeps DEF IInv
<1>4. ASSUME NEW r \in SelfSlots, BeginSubmission(r) \/ AbortSubmission(r)
      PROVE  UNCHANGED <<tables, overlapped>>
  BY <1>4 DEF BeginSubmission, AbortSubmission
<1>5. CASE UNCHANGED selfVars
  BY <1>1, <1>5 DEF selfVars
<1>6. QED
  BY <1>1, <1>2, <1>3, <1>4, <1>5 DEF SelfNext

(* Every step of a request keeps the invariant. *)
LEMMA NextInvariant == IInv /\ [SelfNext]_selfVars => IInv'
<1> SUFFICES ASSUME IInv, [SelfNext]_selfVars
             PROVE  IInv'
  OBVIOUS
<1>0. TablesOK' /\ Later
  BY StepEffect
<1>1. CASE SubmitAlone
  <2>1. PICK s \in Submissions :
          submitting' = Outdated(s) /\ overlapped' = overlapped
    BY <1>1 DEF SubmitAlone
  <2>2. \A q \in SelfSlots : SlotOK(q)'
    BY <1>0, <2>1, OutdatedStays
  <2>3. QED
    BY <1>0, <2>1, <2>2 DEF IInv, Outdated
<1>2. ASSUME NEW r \in SelfSlots, BeginSubmission(r)
      PROVE  IInv'
  <2>1. PICK w \in Submissions :
          /\ submitting' = [submitting EXCEPT ![r] = [what |-> w, fresh |-> TRUE]]
          /\ UNCHANGED <<tables, overlapped>>
    BY <1>2 DEF BeginSubmission
  <2>2. Facts(w)' /\ (~overlapped' => FreshFacts(w)')
    BY <2>1, SubmissionFacts
       DEF IInv, Facts, InductionFacts, FreshFacts, Left, tables
  <2>3. ASSUME NEW q \in SelfSlots
        PROVE  SlotOK(q)'
    <3>1. CASE q = r
      BY <2>1, <2>2, <3>1 DEF IInv, SlotOK
    <3>2. CASE q # r
      <4>1. submitting'[q] = submitting[q]
        BY <2>1, <3>2 DEF IInv
      <4>2. QED
        BY <2>1, <4>1
           DEF IInv, SlotOK, Facts, InductionFacts, FreshFacts, Left, tables
    <3>3. QED
      BY <3>1, <3>2
  <2>4. QED
    BY <1>0, <2>1, <2>3 DEF IInv
<1>3. ASSUME NEW r \in SelfSlots, CommitSubmission(r)
      PROVE  IInv'
  <2>1. /\ submitting[r] # NoSubmission
        /\ submitting' = [Outdated(submitting[r].what) EXCEPT ![r] = NoSubmission]
        /\ overlapped' = (overlapped \/ ~submitting[r].fresh)
    BY <1>3 DEF CommitSubmission
  <2>2. ASSUME NEW q \in SelfSlots
        PROVE  SlotOK(q)'
    <3>1. CASE q = r
      BY <2>1, <3>1 DEF SlotOK, Outdated
    <3>2. CASE q # r
      BY <1>0, <2>1, <3>2, OutdatedStays DEF Outdated
    <3>3. QED
      BY <3>1, <3>2
  <2>3. overlapped' \in BOOLEAN
    BY <2>1 DEF IInv, SlotOK
  <2>4. QED
    BY <1>0, <2>1, <2>2, <2>3 DEF IInv, Outdated
<1>4. ASSUME NEW r \in SelfSlots, AbortSubmission(r)
      PROVE  IInv'
  BY <1>4 DEF AbortSubmission, IInv, TablesOK, SlotOK, Facts, InductionFacts,
              FreshFacts, Left, tables, SubmittedOnce
<1>5. CASE UNCHANGED selfVars
  BY <1>5 DEF selfVars, IInv, TablesOK, SlotOK, Facts, InductionFacts,
              FreshFacts, Left, tables, SubmittedOnce
<1>6. QED
  BY <1>1, <1>2, <1>3, <1>4, <1>5 DEF SelfNext

(* The inductive invariant of what workers submit. *)
THEOREM Invariance == SelfSpec => []IInv
<1>1. QED
  BY InitInvariant, NextInvariant, PTL DEF SelfSpec

(* However requests overlap, the gates are passed in order, the induction  *)
(* is completed with the quiz, and the counter of attempts never exceeds   *)
(* the attempts (safeguarding.py).                                         *)
THEOREM GatesInOrder == SelfSpec => []InductionInOrder
<1>1. IInv => InductionInOrder
  BY DEF IInv, TablesOK, InOrder, InductionInOrder
<1>2. QED
  BY <1>1, Invariance, PTL

(* Unless requests overlap, one referee of a number, one signature of a    *)
(* version, and the schools of one list (worker_self.py).                  *)
THEOREM OneOfEach == SelfSpec => []SubmittedOnce
<1>1. IInv => SubmittedOnce
  BY DEF IInv, TablesOK
<1>2. QED
  BY <1>1, Invariance, PTL

(* However requests overlap, no gate and no completion is undone and no    *)
(* attempt leaves the file, and the counter of attempts falls by an        *)
(* overlap at most (safeguarding.py).                                      *)
THEOREM GatesStayPassed == SelfSpec => GatesStay
<1>1. IInv /\ [SelfNext]_selfVars =>
        [/\ attempts <= attempts'
         /\ induction # NoInduction =>
              /\ induction' # NoInduction
              /\ \A g \in {"read", "signed", "passed", "completed"} :
                   induction[g] => induction'[g]
              /\ ~overlapped' => induction.tries <= induction'.tries
        ]_<<induction, attempts, overlapped>>
  <2>1. SUFFICES ASSUME IInv, [SelfNext]_selfVars
                 PROVE  /\ attempts <= attempts'
                        /\ induction # NoInduction =>
                             /\ induction' # NoInduction
                             /\ \A g \in Flags : induction[g] => induction'[g]
                             /\ ~overlapped' => induction.tries <= induction'.tries
    BY DEF Flags
  <2>2. TablesOK /\ TablesOK' /\ Later /\ (overlapped => overlapped')
    BY <2>1, StepEffect DEF IInv
  <2>3. CASE induction = NoInduction
    BY <2>2, <2>3 DEF Later
  <2>4. CASE induction # NoInduction
    <3>1. Grows(induction, induction') /\ induction' # NoInduction
      BY <2>2, <2>4 DEF Later
    <3>2. ~overlapped' => induction.tries = attempts /\ induction'.tries = attempts'
      BY <2>2, <2>4, <3>1 DEF TablesOK
    <3>3. QED
      BY <2>2, <3>1, <3>2 DEF Later, Grows, Flags
  <2>5. QED
    BY <2>3, <2>4
<1>2. QED
  BY <1>1, InitInvariant, NextInvariant, PTL DEF SelfSpec, GatesStay
=============================================================================
