------------------------- MODULE ProvisioningProofs -------------------------
(***************************************************************************)
(* The safety of module Provisioning, proved for any people, requests and  *)
(* number of faults.  That requests end and registrations succeed is       *)
(* checked by TLC.                                                         *)
(***************************************************************************)
EXTENDS Provisioning, TLAPS

(* A call that is waited for is the call of its slot. *)
CallsMatch ==
  \A c \in calls :
    c.from # Idle =>
      /\ request[c.from] # Idle
      /\ request[c.from].step = "call"
      /\ request[c.from].kind = c.kind
      /\ request[c.from].email = c.email

(* What a request has made sure of when it is at a step.                   *)
Prepared(r) ==
  /\ request[r].kind = "register" =>
       request[r].email \in account /\ request[r].grant = WorkerGrant
  /\ request[r].kind = "invite" /\ request[r].step # "call" =>
       request[r].email \in account
  /\ request[r].kind = "visit" => user[request[r].email] # "none"
  /\ request[r].kind = "register" /\ request[r].step = "commit" =>
       request[r].email \in metadata

IInv ==
  /\ TypeOK
  /\ CallsMatch
  /\ \A r \in Requests : request[r] # Idle => Prepared(r)
  /\ UserHasAccount
  /\ RegisteredHasMetadata

-----------------------------------------------------------------------------
(* Before the first request nobody is known to either store. *)
THEOREM InitInvariant == Init => IInv
BY ProvisioningAssumption
   DEF Init, IInv, TypeOK, CallsMatch, UserHasAccount, RegisteredHasMetadata,
       UserStatuses, GrantStates

(* The fields of a request in flight. *)
LEMMA FieldTypes ==
  ASSUME TypeOK, NEW r \in Requests, request[r] # Idle
  PROVE  /\ request[r] \in RequestRecords
         /\ request[r].kind \in Kinds
         /\ request[r].email \in Emails
         /\ request[r].grant \in Grants
         /\ request[r].step \in Steps
BY DEF TypeOK, RequestRecords

(* To go to another step leaves a request a request. *)
LEMMA StepTypes ==
  ASSUME TypeOK, NEW r \in Requests, request[r] # Idle, NEW p \in Steps
  PROVE  /\ [request EXCEPT ![r].step = p]
              \in [Requests -> RequestRecords \cup {Idle}]
         /\ [request EXCEPT ![r].step = p][r].kind = request[r].kind
         /\ [request EXCEPT ![r].step = p][r].email = request[r].email
         /\ [request EXCEPT ![r].step = p][r].grant = request[r].grant
         /\ [request EXCEPT ![r].step = p][r].step = p
BY FieldTypes DEF TypeOK, RequestRecords

(* and it stays one in flight. *)
LEMMA StepIsRequest ==
  ASSUME TypeOK, NEW r \in Requests, request[r] # Idle, NEW p \in Steps
  PROVE  [request EXCEPT ![r].step = p][r] # Idle
<1>1. [request EXCEPT ![r].step = p][r] = [request[r] EXCEPT !.step = p]
  BY DEF TypeOK
<1>2. [request[r] EXCEPT !.step = p] \in RequestRecords
  BY FieldTypes DEF RequestRecords
<1>3. QED
  BY <1>1, <1>2, ProvisioningAssumption

(* A request that starts, and calls Supabase or not. *)
LEMMA StartKeeps ==
  ASSUME IInv, NEW r \in Requests, NEW kind \in Kinds, NEW e \in Emails,
         NEW g \in Grants, NEW step \in Steps,
         Start(r, kind, e, g, step),
         UNCHANGED <<supabase, rows, faults>>,
         \/ UNCHANGED calls
         \/ /\ kind = "invite" /\ step = "call"
            /\ calls' = calls \cup {CallFrom(r)},
         kind = "register" => step = "insert" /\ e \in account /\ g = WorkerGrant,
         kind = "invite" => step = "call",
         kind = "visit" => user[e] # "none"
  PROVE  IInv'
<1> DEFINE new == [kind |-> kind, email |-> e, grant |-> g, step |-> step]
<1>1. new \in RequestRecords
  BY DEF RequestRecords
<1>2. /\ request[r] = Idle
      /\ request' = [request EXCEPT ![r] = new]
      /\ request'[r] = new
      /\ \A o \in Requests : o # r => request'[o] = request[o]
      /\ request' \in [Requests -> RequestRecords \cup {Idle}]
  BY <1>1 DEF Start, IInv, TypeOK
<1>3. /\ new.kind = kind /\ new.email = e /\ new.grant = g /\ new.step = step
  OBVIOUS
<1>4. \A c \in calls : c.from # r
  BY <1>2, ProvisioningAssumption DEF IInv, CallsMatch
<1>5. \A c \in calls : c.from \in Requests \cup {Idle}
  BY DEF IInv, TypeOK, Calls
<1>6. UNCHANGED <<account, metadata, user, profile, grant, faults>>
  BY DEF supabase, rows
<1>7. ASSUME NEW c \in calls', c \notin calls
      PROVE  /\ kind = "invite" /\ step = "call"
             /\ c = [kind |-> "invite", email |-> e, from |-> r]
  BY <1>2, <1>7 DEF CallFrom
<1>8. calls' \subseteq Calls
  BY <1>7 DEF IInv, TypeOK, Calls
<1>9. CallsMatch'
  <2>1. SUFFICES ASSUME NEW c \in calls', c.from # Idle
                 PROVE  /\ request'[c.from] # Idle
                        /\ request'[c.from].step = "call"
                        /\ request'[c.from].kind = c.kind
                        /\ request'[c.from].email = c.email
    BY DEF CallsMatch
  <2>2. CASE c \in calls
    BY <1>2, <1>4, <1>5, <2>1, <2>2 DEF IInv, CallsMatch
  <2>3. CASE c \notin calls
    <3>1. c.from = r /\ c.kind = kind /\ c.email = e /\ step = "call"
      BY <1>7, <2>3
    <3>2. request'[r] # Idle
      BY <1>1, <1>2, ProvisioningAssumption
    <3>3. QED
      BY <1>2, <3>1, <3>2
  <2>4. QED
    BY <2>2, <2>3
<1>10. \A o \in Requests : request'[o] # Idle => Prepared(o)'
  <2>1. Prepared(r)'
    BY <1>2, <1>3, <1>6 DEF Prepared
  <2>2. ASSUME NEW o \in Requests, o # r, request'[o] # Idle
        PROVE  Prepared(o)'
    BY <1>2, <1>6, <2>2 DEF Prepared, IInv
  <2>3. QED
    BY <2>1, <2>2
<1>11. TypeOK'
  BY <1>2, <1>6, <1>8 DEF TypeOK, IInv
<1>12. UserHasAccount' /\ RegisteredHasMetadata'
  BY <1>6 DEF IInv, UserHasAccount, RegisteredHasMetadata
<1>13. QED
  BY <1>9, <1>10, <1>11, <1>12 DEF IInv
(* A request goes on to another step, or is over; what Supabase holds can  *)
(* only grow, and no row is touched.  A slot that goes on to its call is   *)
(* the one new call there may be.                                          *)
LEMMA GoOnKeeps ==
  ASSUME IInv, NEW r \in Requests, request[r] # Idle,
         NEW p \in Steps, request' = [request EXCEPT ![r].step = p],
         UNCHANGED rows, faults' \in Nat,
         account \subseteq account', metadata \subseteq metadata',
         account' \subseteq Emails, metadata' \subseteq Emails,
         \A c \in calls' : c \in calls \/ (c = CallFrom(r) /\ p = "call"
                                           /\ request[r].kind = "register"),
         \A c \in calls' : c.from = r => p = "call",
         request[r].kind = "register" =>
           (p = "commit" => request[r].email \in metadata'),
         request[r].kind = "invite" =>
           (p # "call" => request[r].email \in account')
  PROVE  IInv'
<1>1. /\ request' \in [Requests -> RequestRecords \cup {Idle}]
      /\ request'[r].kind = request[r].kind
      /\ request'[r].email = request[r].email
      /\ request'[r].grant = request[r].grant
      /\ request'[r].step = p
      /\ \A o \in Requests : o # r => request'[o] = request[o]
  BY StepTypes DEF IInv, TypeOK
<1>2. request'[r] # Idle
  <2>1. request'[r] = [request[r] EXCEPT !.step = p]
    BY DEF IInv, TypeOK
  <2>2. request[r] \in RequestRecords
    BY FieldTypes DEF IInv
  <2>3. request'[r] \in RequestRecords
    BY <2>1, <2>2 DEF RequestRecords
  <2>4. QED
    BY <2>3, ProvisioningAssumption
<1>3. /\ request[r].kind \in Kinds
      /\ request[r].email \in Emails
  BY FieldTypes DEF IInv
<1>4. calls' \subseteq Calls
  <2>1. ASSUME NEW c \in calls', c \notin calls
        PROVE  c \in Calls
    <3>1. c = CallFrom(r) /\ request[r].kind = "register"
      BY <2>1
    <3>2. c = [kind |-> "register", email |-> request[r].email, from |-> r]
      BY <1>1, <3>1 DEF CallFrom
    <3>3. QED
      BY <1>3, <3>2 DEF Calls
  <2>2. QED
    BY <2>1 DEF IInv, TypeOK
<1>5. CallsMatch'
  <2>1. SUFFICES ASSUME NEW c \in calls', c.from # Idle
                 PROVE  /\ request'[c.from] # Idle
                        /\ request'[c.from].step = "call"
                        /\ request'[c.from].kind = c.kind
                        /\ request'[c.from].email = c.email
    BY DEF CallsMatch
  <2>2. c.from \in Requests
    BY <1>4, <2>1 DEF Calls
  <2>3. CASE c \in calls
    <3>1. CASE c.from = r
      BY <1>1, <1>2, <2>1, <2>3, <3>1 DEF IInv, CallsMatch
    <3>2. CASE c.from # r
      BY <1>1, <2>1, <2>2, <2>3, <3>2 DEF IInv, CallsMatch
    <3>3. QED
      BY <3>1, <3>2
  <2>4. CASE c \notin calls
    <3>1. /\ c.from = r /\ c.kind = request[r].kind
          /\ c.email = request[r].email /\ p = "call"
      BY <1>1, <2>4 DEF CallFrom
    <3>2. QED
      BY <1>1, <1>2, <3>1
  <2>5. QED
    BY <2>3, <2>4
<1>6. UNCHANGED <<user, profile, grant>>
  BY DEF rows
<1>7. ASSUME NEW o \in Requests, request'[o] # Idle
      PROVE  Prepared(o)'
  <2>1. CASE o = r
    <3>1. Prepared(r)
      BY DEF IInv
    <3>2. QED
      BY <1>1, <1>6, <2>1, <3>1 DEF Prepared
  <2>2. CASE o # r
    <3>1. request'[o] = request[o] /\ Prepared(o)
      BY <1>1, <1>7, <2>2 DEF IInv
    <3>2. QED
      BY <1>6, <3>1 DEF Prepared
  <2>3. QED
    BY <2>1, <2>2
<1>8. TypeOK'
  BY <1>1, <1>4, <1>6 DEF IInv, TypeOK
<1>9. UserHasAccount' /\ RegisteredHasMetadata'
  BY <1>6 DEF IInv, UserHasAccount, RegisteredHasMetadata
<1>10. QED
  BY <1>5, <1>7, <1>8, <1>9 DEF IInv

(* Some requests are over and the rest are untouched; Supabase can only    *)
(* grow.  The calls are some of those there were, or are abandoned.        *)
LEMMA EndKeeps ==
  ASSUME IInv, NEW rs \in SUBSET Requests,
         \A o \in rs : request'[o] = Idle,
         \A o \in Requests \ rs : request'[o] = request[o],
         request' = [o \in Requests |-> request'[o]],
         UNCHANGED rows, faults' \in Nat,
         account \subseteq account', metadata \subseteq metadata',
         account' \subseteq Emails, metadata' \subseteq Emails,
         \/ calls' = Abandoned(rs)
         \/ /\ calls' \subseteq calls
            /\ \A c \in calls' : c.from \notin rs
  PROVE  IInv'
<1>1. UNCHANGED <<user, profile, grant>>
  BY DEF rows
<1>2. ASSUME NEW c \in calls'
      PROVE  /\ c \in Calls
             /\ c.from # Idle => c \in calls /\ c.from \in Requests \ rs
  <2>1. CASE calls' = Abandoned(rs)
    <3>1. PICK b \in calls :
            c = IF b.from \in rs THEN [b EXCEPT !.from = Idle] ELSE b
      BY <1>2, <2>1 DEF Abandoned
    <3>2. b \in Calls
      BY DEF IInv, TypeOK
    <3>3. CASE b.from \in rs
      BY <3>1, <3>2, <3>3 DEF Calls
    <3>4. CASE b.from \notin rs
      BY <3>1, <3>2, <3>4 DEF Calls
    <3>5. QED
      BY <3>3, <3>4
  <2>2. CASE calls' \subseteq calls /\ \A d \in calls' : d.from \notin rs
    BY <1>2, <2>2 DEF IInv, TypeOK, Calls
  <2>3. QED
    BY <2>1, <2>2
<1>3. TypeOK'
  <2>1. \A o \in Requests : request'[o] \in RequestRecords \cup {Idle}
    BY DEF IInv, TypeOK
  <2>2. request' \in [Requests -> RequestRecords \cup {Idle}]
    BY <2>1
  <2>3. QED
    BY <1>1, <1>2, <2>2 DEF IInv, TypeOK
<1>4. CallsMatch'
  BY <1>2 DEF IInv, CallsMatch
<1>5. ASSUME NEW o \in Requests, request'[o] # Idle
      PROVE  Prepared(o)'
  <2>1. request'[o] = request[o] /\ Prepared(o)
    BY <1>5 DEF IInv
  <2>2. QED
    BY <1>1, <2>1 DEF Prepared
<1>6. UserHasAccount' /\ RegisteredHasMetadata'
  BY <1>1 DEF IInv, UserHasAccount, RegisteredHasMetadata
<1>7. QED
  BY <1>3, <1>4, <1>5, <1>6 DEF IInv
(* The invariant is kept when the rows are inserted, *)
LEMMA InsertKeeps ==
  ASSUME IInv, NEW r \in Requests, InsertUser(r)
  PROVE  IInv'
<1>1. /\ request[r] # Idle /\ request[r].step = "insert"
      /\ UNCHANGED <<supabase, rows, faults>>
  BY DEF InsertUser
<1>2. /\ UNCHANGED rows /\ faults' \in Nat
      /\ account' = account /\ metadata' = metadata
      /\ account \subseteq Emails /\ metadata \subseteq Emails
  BY <1>1 DEF supabase, IInv, TypeOK
<1>3. \A c \in calls : c.from # r
  BY <1>1, ProvisioningAssumption DEF IInv, CallsMatch
<1>4. request[r].email \in account
  <2>1. Prepared(r) /\ request[r].kind \in Kinds
    BY <1>1, FieldTypes DEF IInv
  <2>2. CASE request[r].kind = "visit"
    <3>1. user[request[r].email] # "none" /\ request[r].email \in Emails
      BY <1>1, <2>1, <2>2, FieldTypes DEF Prepared, IInv
    <3>2. QED
      BY <3>1 DEF IInv, UserHasAccount
  <2>3. QED
    BY <1>1, <2>1, <2>2 DEF Prepared, Kinds
<1>5. CASE request' = [request EXCEPT ![r] = Idle] /\ UNCHANGED calls
  <2>1. /\ request'[r] = Idle
        /\ \A o \in Requests \ {r} : request'[o] = request[o]
        /\ request' = [o \in Requests |-> request'[o]]
    BY <1>5 DEF IInv, TypeOK
  <2>2. /\ {r} \in SUBSET Requests
        /\ calls' \subseteq calls /\ \A c \in calls' : c.from \notin {r}
    BY <1>3, <1>5
  <2>3. QED
    BY <1>2, <2>1, <2>2, EndKeeps
<1>6. CASE /\ request[r].kind = "register"
           /\ request' = [request EXCEPT ![r].step = "call"]
           /\ calls' = calls \cup {CallFrom(r)}
  <2>1. "call" \in Steps
    BY DEF Steps
  <2>2. \A c \in calls' : c \in calls \/ c = CallFrom(r)
    BY <1>6
  <2>3. QED
    BY <1>1, <1>2, <1>4, <1>6, <2>1, <2>2, GoOnKeeps
<1>7. CASE /\ request[r].kind # "register"
           /\ request' = [request EXCEPT ![r].step = "commit"]
           /\ UNCHANGED calls
  <2>1. "commit" \in Steps
    BY DEF Steps
  <2>2. \A c \in calls' : c \in calls /\ c.from # r
    BY <1>3, <1>7
  <2>3. QED
    BY <1>1, <1>2, <1>4, <1>7, <2>1, <2>2, GoOnKeeps
<1>8. QED
  BY <1>5, <1>6, <1>7 DEF InsertUser

(* What a call changes in Supabase. *)
LEMMA ApplyGrows ==
  ASSUME TypeOK, NEW c \in calls, Apply(c)
  PROVE  /\ account \subseteq account' /\ account' \subseteq Emails
         /\ metadata \subseteq metadata' /\ metadata' \subseteq Emails
         /\ c.kind = "invite" => c.email \in account'
         /\ c.kind = "register" => c.email \in metadata'
<1>1. c.email \in Emails
  BY DEF TypeOK, Calls
<1>2. QED
  BY <1>1 DEF Apply, TypeOK

(* The calls of a slot that waits are one. *)
LEMMA OneCall ==
  ASSUME TypeOK, CallsMatch, NEW c \in calls, NEW d \in calls,
         c.from # Idle, d.from = c.from
  PROVE  c = d
BY DEF TypeOK, CallsMatch, Calls

(* when a call is answered, refused or lost, *)
LEMMA NetworkKeeps ==
  ASSUME IInv, NEW c \in calls, Answer(c) \/ Refuse(c) \/ Lose(c)
  PROVE  IInv'
<1>1. /\ calls' = calls \ {c}
      /\ UNCHANGED rows
      /\ faults' \in Nat
  BY DEF Answer, Refuse, Lose, Fault, IInv, TypeOK
<1>2. c.from \in Requests \cup {Idle} /\ c.kind \in {"invite", "register"}
  BY DEF IInv, TypeOK, Calls
<1>3. /\ account \subseteq account' /\ account' \subseteq Emails
      /\ metadata \subseteq metadata' /\ metadata' \subseteq Emails
  <2>1. Apply(c) \/ UNCHANGED supabase
    BY DEF Answer, Refuse, Lose
  <2>2. TypeOK
    BY DEF IInv
  <2>3. CASE Apply(c)
    BY <2>2, <2>3, ApplyGrows
  <2>4. CASE UNCHANGED supabase
    BY <2>2, <2>4 DEF supabase, TypeOK
  <2>5. QED
    BY <2>1, <2>3, <2>4
<1>4. c.from # Idle => \A d \in calls' : d.from # c.from
  BY <1>1, OneCall DEF IInv
<1>5. CASE request' = request
  <2>1. request' = [o \in Requests |-> request'[o]]
    BY <1>5 DEF IInv, TypeOK
  <2>2. {} \in SUBSET Requests /\ \A d \in calls' : d.from \notin {}
    OBVIOUS
  <2>3. calls' \subseteq calls
    BY <1>1
  <2>4. QED
    BY <1>1, <1>3, <1>5, <2>1, <2>2, <2>3, EndKeeps
<1>6. CASE c.from # Idle /\ request' = [request EXCEPT ![c.from] = Idle]
  <2>1. /\ {c.from} \in SUBSET Requests
        /\ request'[c.from] = Idle
        /\ \A o \in Requests \ {c.from} : request'[o] = request[o]
        /\ request' = [o \in Requests |-> request'[o]]
    BY <1>2, <1>6 DEF IInv, TypeOK
  <2>2. calls' \subseteq calls /\ \A d \in calls' : d.from \notin {c.from}
    BY <1>1, <1>4, <1>6
  <2>3. QED
    BY <1>1, <1>3, <2>1, <2>2, EndKeeps
<1>7. ASSUME c.from # Idle, Answer(c) PROVE IInv'
  <2> DEFINE p == IF c.kind = "invite" THEN "insert" ELSE "commit"
  <2>1. p \in Steps /\ p # "call"
    BY DEF Steps
  <2>2. c.from \in Requests
    BY <1>2, <1>7
  <2>3. /\ request[c.from] # Idle
        /\ request[c.from].kind = c.kind
        /\ request[c.from].email = c.email
    BY <1>7 DEF IInv, CallsMatch
  <2>4. request' = [request EXCEPT ![c.from].step = p]
    BY <1>7 DEF Answer
  <2>5. /\ c.kind = "invite" => c.email \in account'
        /\ c.kind = "register" => c.email \in metadata'
    BY <1>7, ApplyGrows DEF IInv, Answer
  <2>6. \A d \in calls' : d \in calls /\ d.from # c.from
    BY <1>1, <1>4, <1>7
  <2> HIDE DEF p
  <2>7. QED
    BY <1>1, <1>3, <2>1, <2>2, <2>3, <2>4, <2>5, <2>6, GoOnKeeps
<1>8. QED
  BY <1>5, <1>6, <1>7 DEF Answer, Refuse, Lose

(* when a request times out or fails, *)
LEMMA RollBackKeeps ==
  ASSUME IInv, NEW r \in Requests, TimeOut(r) \/ Fail(r)
  PROVE  IInv'
<1>1. /\ RollBack(r) /\ faults' \in Nat
  BY DEF TimeOut, Fail, Fault, IInv, TypeOK
<1>2. /\ UNCHANGED rows
      /\ account' = account /\ metadata' = metadata
      /\ calls' = Abandoned({r})
  BY <1>1 DEF RollBack, supabase
<1>3. /\ {r} \in SUBSET Requests
      /\ request'[r] = Idle
      /\ \A o \in Requests \ {r} : request'[o] = request[o]
      /\ request' = [o \in Requests |-> request'[o]]
  BY <1>1 DEF RollBack, IInv, TypeOK
<1>4. account' \subseteq Emails /\ metadata' \subseteq Emails
  BY <1>2 DEF IInv, TypeOK
<1>5. QED
  BY <1>1, <1>2, <1>3, <1>4, EndKeeps

(* when the server stops, *)
LEMMA CrashKeeps ==
  ASSUME IInv, Crash
  PROVE  IInv'
<1>1. /\ UNCHANGED rows
      /\ account' = account /\ metadata' = metadata
      /\ account' \subseteq Emails /\ metadata' \subseteq Emails
      /\ calls' = Abandoned(Requests)
      /\ request' = [r \in Requests |-> Idle]
      /\ faults' \in Nat
  BY DEF Crash, Fault, supabase, IInv, TypeOK
<1>2. /\ \A o \in Requests : request'[o] = Idle
      /\ request' = [o \in Requests |-> request'[o]]
  BY <1>1
<1>3. Requests \in SUBSET Requests
  OBVIOUS
<1>4. QED
  BY <1>1, <1>2, <1>3, EndKeeps

(* The rows change, of people with an account, and no user row vanishes.   *)
LEMMA RowsKeep ==
  ASSUME IInv, UNCHANGED <<supabase, faults>>,
         user' \in [Emails -> UserStatuses],
         profile' \subseteq Emails,
         grant' \in [Emails -> [Grants -> GrantStates]],
         \A e \in Emails : user[e] # "none" => user'[e] # "none",
         \A e \in Emails : user'[e] # "none" => e \in account,
         \A e \in profile' :
           user'[e] # "none" /\ grant'[e][WorkerGrant] # "none" /\ e \in metadata,
         \/ UNCHANGED <<request, calls>>
         \/ \E r \in Requests :
              /\ request[r] # Idle /\ request[r].step # "call"
              /\ request' = [request EXCEPT ![r] = Idle]
              /\ UNCHANGED calls
  PROVE  IInv'
<1>1. account' = account /\ metadata' = metadata /\ faults' = faults
  BY DEF supabase
<1>2. /\ request' \in [Requests -> RequestRecords \cup {Idle}]
      /\ calls' = calls
      /\ \A o \in Requests : request'[o] # Idle => request'[o] = request[o]
      /\ \A o \in Requests :
           request[o] # Idle /\ request[o].step = "call" =>
             request'[o] = request[o]
  BY DEF IInv, TypeOK
<1>3. TypeOK'
  BY <1>1, <1>2 DEF IInv, TypeOK
<1>4. CallsMatch'
  <2>1. \A c \in calls : c.from # Idle => c.from \in Requests
    BY DEF IInv, TypeOK, Calls
  <2>2. QED
    BY <1>2, <2>1 DEF IInv, CallsMatch
<1>5. ASSUME NEW o \in Requests, request'[o] # Idle
      PROVE  Prepared(o)'
  <2>1. request'[o] = request[o] /\ Prepared(o) /\ request[o] # Idle
    BY <1>2, <1>5 DEF IInv
  <2>2. request[o].email \in Emails
    BY <2>1, FieldTypes DEF IInv
  <2>3. QED
    BY <1>1, <2>1, <2>2 DEF Prepared
<1>6. UserHasAccount' /\ RegisteredHasMetadata'
  BY <1>1 DEF UserHasAccount, RegisteredHasMetadata
<1>7. QED
  BY <1>3, <1>4, <1>5, <1>6 DEF IInv
(* when a request commits, *)
LEMMA CommitKeeps ==
  ASSUME IInv, NEW r \in Requests, Commit(r)
  PROVE  IInv'
<1> DEFINE e == request[r].email
<1>1. /\ request[r] # Idle /\ request[r].step = "commit"
      /\ request' = [request EXCEPT ![r] = Idle]
      /\ UNCHANGED <<supabase, calls, faults>>
  BY DEF Commit
<1>2. /\ e \in Emails /\ request[r].kind \in Kinds
      /\ request[r].grant \in Grants /\ Prepared(r)
  BY <1>1, FieldTypes DEF IInv
<1>3. e \in account
  BY <1>1, <1>2 DEF Prepared, Kinds, IInv, UserHasAccount
<1>4. /\ user \in [Emails -> UserStatuses] /\ profile \subseteq Emails
      /\ grant \in [Emails -> [Grants -> GrantStates]]
  BY DEF IInv, TypeOK
<1>5. \A x \in Emails : user[x] # "none" => x \in account
  BY DEF IInv, UserHasAccount
<1>6. \A x \in profile :
        user[x] # "none" /\ grant[x][WorkerGrant] # "none" /\ x \in metadata
  BY DEF IInv, RegisteredHasMetadata
<1>7. CASE request[r].kind = "visit"
  <2>1. user' = [user EXCEPT ![e] = "active"] /\ UNCHANGED <<profile, grant>>
    BY <1>7 DEF Commit
  <2> HIDE DEF e
  <2>2. /\ user' \in [Emails -> UserStatuses]
        /\ \A x \in Emails : user[x] # "none" => user'[x] # "none"
        /\ \A x \in Emails : user'[x] # "none" => x \in account
        /\ \A x \in profile' :
             user'[x] # "none" /\ grant'[x][WorkerGrant] # "none" /\ x \in metadata
    BY <1>2, <1>3, <1>4, <1>5, <1>6, <2>1 DEF UserStatuses
  <2>3. QED
    BY <1>1, <1>4, <2>1, <2>2, RowsKeep
<1>8. CASE request[r].kind # "visit"
  <2>1. /\ user' = [user EXCEPT ![e] = "invited"]
        /\ grant' = [grant EXCEPT ![e][request[r].grant] = "active"]
        /\ profile' = IF request[r].kind = "register"
                      THEN profile \cup {e} ELSE profile
    BY <1>8 DEF Commit
  <2>2. request[r].kind = "register" =>
          e \in metadata /\ request[r].grant = WorkerGrant
    BY <1>1, <1>2 DEF Prepared
  <2>3. grant' \in [Emails -> [Grants -> GrantStates]]
    BY <1>2, <1>4, <2>1 DEF GrantStates
  <2> HIDE DEF e
  <2>4. /\ user' \in [Emails -> UserStatuses]
        /\ profile' \subseteq Emails
        /\ \A x \in Emails : user[x] # "none" => user'[x] # "none"
        /\ \A x \in Emails : user'[x] # "none" => x \in account
    BY <1>2, <1>3, <1>4, <1>5, <2>1 DEF UserStatuses
  <2>5. \A x \in profile' :
          user'[x] # "none" /\ grant'[x][WorkerGrant] # "none" /\ x \in metadata
    <3>1. ASSUME NEW x \in profile
          PROVE  user'[x] # "none" /\ grant'[x][WorkerGrant] # "none"
                                   /\ x \in metadata
      BY <1>2, <1>4, <1>6, <2>1, ProvisioningAssumption
    <3>2. ASSUME request[r].kind = "register"
          PROVE  user'[e] # "none" /\ grant'[e][WorkerGrant] # "none"
                                   /\ e \in metadata
      BY <1>2, <1>4, <2>1, <2>2, <3>2, ProvisioningAssumption
    <3>3. QED
      BY <2>1, <3>1, <3>2
  <2>6. QED
    BY <1>1, <2>3, <2>4, <2>5, RowsKeep
<1>9. QED
  BY <1>7, <1>8

(* when roles are assigned and revoked and users deactivated, *)
LEMMA RolesKeep ==
  ASSUME IInv, NEW e \in Emails,
         \/ Deactivate(e)
         \/ \E g \in Grants : AssignRole(e, g) \/ RevokeRole(e, g)
  PROVE  IInv'
<1>1. /\ user \in [Emails -> UserStatuses] /\ profile \subseteq Emails
      /\ grant \in [Emails -> [Grants -> GrantStates]]
      /\ \A x \in Emails : user[x] # "none" => x \in account
      /\ \A x \in profile :
           user[x] # "none" /\ grant[x][WorkerGrant] # "none" /\ x \in metadata
      /\ WorkerGrant \in Grants
  BY ProvisioningAssumption
     DEF IInv, TypeOK, UserHasAccount, RegisteredHasMetadata
<1>2. CASE Deactivate(e)
  <2>1. /\ user[e] # "none"
        /\ user' = [user EXCEPT ![e] = "suspended"]
        /\ UNCHANGED <<supabase, profile, request, calls, faults>>
    BY <1>2 DEF Deactivate
  <2>2. grant' \in [Emails -> [Grants -> GrantStates]]
    BY <1>1, <1>2 DEF Deactivate, GrantStates
  <2>3. /\ user' \in [Emails -> UserStatuses]
        /\ \A x \in Emails : user[x] # "none" => user'[x] # "none"
        /\ \A x \in Emails : user'[x] # "none" => x \in account
        /\ \A x \in profile' : user'[x] # "none" /\ x \in metadata
    BY <1>1, <2>1 DEF UserStatuses
  <2>4. \A x \in profile : grant'[x][WorkerGrant] # "none"
    BY <1>1, <1>2 DEF Deactivate
  <2>5. QED
    BY <1>1, <2>1, <2>2, <2>3, <2>4, RowsKeep
<1>3. ASSUME NEW g \in Grants, AssignRole(e, g) \/ RevokeRole(e, g)
      PROVE  IInv'
  <2>1. UNCHANGED <<supabase, user, profile, request, calls, faults>>
    BY <1>3 DEF AssignRole, RevokeRole
  <2>2. grant' \in [Emails -> [Grants -> GrantStates]]
    BY <1>1, <1>3 DEF AssignRole, RevokeRole, GrantStates
  <2>3. \A x \in profile : grant'[x][WorkerGrant] # "none"
    BY <1>1, <1>3 DEF AssignRole, RevokeRole
  <2>4. QED
    BY <1>1, <2>1, <2>2, <2>3, RowsKeep
<1>4. QED
  BY <1>2, <1>3

(* when a person signs up, *)
LEMMA SignUpKeeps ==
  ASSUME IInv, NEW e \in Emails, SignUp(e)
  PROVE  IInv'
BY DEF SignUp, rows, IInv, TypeOK, CallsMatch, Prepared, UserHasAccount,
       RegisteredHasMetadata

(* and when a request starts. *)
LEMMA RequestKeeps ==
  ASSUME IInv, NEW e \in Emails, NEW r \in Requests,
         Register(r, e) \/ Invite(r, e) \/ Visit(r, e)
  PROVE  IInv'
<1> USE DEF Kinds, Steps
<1>1. CASE Register(r, e)
  <2>1. /\ e \in account
        /\ Start(r, "register", e, WorkerGrant, "insert")
        /\ UNCHANGED <<supabase, rows, faults>> /\ UNCHANGED calls
    BY <1>1 DEF Register
  <2>2. QED
    BY <2>1, StartKeeps, ProvisioningAssumption
<1>2. CASE Invite(r, e)
  <2>1. PICK g \in Grants : Start(r, "invite", e, g, "call")
    BY <1>2 DEF Invite
  <2>2. /\ calls' = calls \cup {CallFrom(r)}
        /\ UNCHANGED <<supabase, rows, faults>>
    BY <1>2 DEF Invite
  <2>3. QED
    BY <2>1, <2>2, StartKeeps
<1>3. CASE Visit(r, e)
  <2>1. /\ user[e] # "none"
        /\ Start(r, "visit", e, WorkerGrant, "commit")
        /\ UNCHANGED <<supabase, rows, faults>> /\ UNCHANGED calls
    BY <1>3 DEF Visit
  <2>2. QED
    BY <2>1, StartKeeps, ProvisioningAssumption
<1>4. QED
  BY <1>1, <1>2, <1>3

(* The invariant is inductive. *)
THEOREM NextInvariant == IInv /\ [Next]_vars => IInv'
<1> SUFFICES ASSUME IInv, [Next]_vars PROVE IInv'
  OBVIOUS
<1>1. ASSUME NEW e \in Emails,
             \/ SignUp(e)
             \/ Deactivate(e)
             \/ \E r \in Requests : Register(r, e) \/ Invite(r, e) \/ Visit(r, e)
             \/ \E g \in Grants : AssignRole(e, g) \/ RevokeRole(e, g)
      PROVE  IInv'
  BY <1>1, SignUpKeeps, RolesKeep, RequestKeeps
<1>2. ASSUME NEW r \in Requests, RequestStep(r) \/ Fail(r)
      PROVE  IInv'
  BY <1>2, InsertKeeps, RollBackKeeps, CommitKeeps DEF RequestStep
<1>3. CASE Network
  BY <1>3, NetworkKeeps DEF Network
<1>4. CASE Crash
  BY <1>4, CrashKeeps
<1>5. CASE UNCHANGED vars
  BY <1>5 DEF vars, supabase, rows, IInv, TypeOK, CallsMatch, Prepared,
     UserHasAccount, RegisteredHasMetadata
<1>6. QED
  BY <1>1, <1>2, <1>3, <1>4, <1>5 DEF Next

-----------------------------------------------------------------------------
(* The two stores, the requests and the calls are always of their types.   *)
THEOREM TypeCorrect == Spec => []TypeOK
<1>1. IInv => TypeOK
  BY DEF IInv
<1>2. QED
  BY <1>1, InitInvariant, NextInvariant, PTL DEF Spec

(* However requests interleave, calls and answers are lost, delayed or     *)
(* refused and the server crashes, the row of a user is that of an account.*)
THEOREM AccountFirst == Spec => []UserHasAccount
<1>1. IInv => UserHasAccount
  BY DEF IInv
<1>2. QED
  BY <1>1, InitInvariant, NextInvariant, PTL DEF Spec

(* Under the same faults, a worker profile is only on file with its user   *)
(* row and with the trust in the metadata of the account.                  *)
THEOREM MetadataFirst == Spec => []RegisteredHasMetadata
<1>1. IInv => RegisteredHasMetadata
  BY DEF IInv
<1>2. QED
  BY <1>1, InitInvariant, NextInvariant, PTL DEF Spec

-----------------------------------------------------------------------------
(* The unique keys of users: a row that is inserted and not yet committed  *)
(* is the only one of its person, and none was committed before it.        *)
KeysHeld ==
  \A r \in Requests, e \in Emails :
    Holds(r, e) =>
      /\ user[e] = "none"
      /\ \A o \in Requests : Holds(o, e) => o = r

(* What a step may do to the users.                                        *)
MovesOn ==
  \A e \in Emails :
    /\ user[e] = "invited" => user'[e] \in {"invited", "active", "suspended"}
    /\ user[e] = "active" => user'[e] \in {"active", "suspended"}
    /\ user[e] = "suspended" /\ user'[e] # "suspended" =>
         /\ user'[e] = "active"
         /\ \E r \in Requests :
              request[r] # Idle /\ request[r].kind = "visit"
                               /\ request[r].email = e

(* A step that takes no key, and touches no user, keeps the keys. *)
LEMMA NoNewKey ==
  ASSUME KeysHeld, UNCHANGED user,
         \A o \in Requests, e \in Emails : Holds(o, e)' => Holds(o, e)
  PROVE  KeysHeld'
BY DEF KeysHeld

(* A slot that holds no key gets none by going on to another step, if it   *)
(* is not the insert.                                                      *)
LEMMA SameKeys ==
  ASSUME NEW o \in Requests,
         \/ request'[o] = request[o]
         \/ request'[o] = Idle
         \/ /\ request[o] # Idle
            /\ request'[o] # Idle
            /\ request'[o].kind = request[o].kind
            /\ request'[o].email = request[o].email
            /\ \/ request[o].kind = "register" /\ request[o].step = "call"
               \/ request'[o].step = "insert"
         \/ request'[o].kind \in {"invite", "register"} /\ request'[o].step = "insert"
         \/ request'[o].kind = "invite" /\ request'[o].step = "call"
         \/ request'[o].kind = "visit"
  PROVE  \A e \in Emails : Holds(o, e)' => Holds(o, e)
BY DEF Holds

(* An insert takes the key that nobody else holds. *)
LEMMA InsertTakesKey ==
  ASSUME IInv, KeysHeld, NEW r \in Requests, InsertUser(r)
  PROVE  KeysHeld' /\ UNCHANGED user
<1> DEFINE k == request[r].email
<1>1. /\ request[r] # Idle /\ request[r].step = "insert"
      /\ \A o \in Requests \ {r} : ~Holds(o, k)
      /\ UNCHANGED rows
  BY DEF InsertUser
<1>2. user' = user
  BY <1>1 DEF rows
<1>3. CASE request' = [request EXCEPT ![r] = Idle]
  <2>1. \A o \in Requests : request'[o] = request[o] \/ request'[o] = Idle
    BY <1>3 DEF IInv, TypeOK
  <2>2. \A o \in Requests, e \in Emails : Holds(o, e)' => Holds(o, e)
    BY <2>1, SameKeys
  <2>3. QED
    BY <1>2, <2>2, NoNewKey
<1>4. ASSUME user[k] = "none",
             NEW p \in {"call", "commit"},
             request' = [request EXCEPT ![r].step = p]
      PROVE  KeysHeld'
  <2>1. /\ request'[r].email = k
        /\ \A o \in Requests : o # r => request'[o] = request[o]
    BY <1>1, <1>4, StepTypes DEF IInv, TypeOK, Steps
  <2>2. \A e \in Emails : Holds(r, e)' => e = k
    BY <2>1 DEF Holds
  <2>3. \A o \in Requests, e \in Emails :
          o # r /\ Holds(o, e)' => Holds(o, e) /\ e # k
    BY <1>1, <2>1 DEF Holds
  <2>4. QED
    BY <1>2, <1>4, <2>2, <2>3 DEF KeysHeld
<1>5. QED
  BY <1>2, <1>3, <1>4 DEF InsertUser

(* A commit gives its key away with the row it makes, or activates a user. *)
LEMMA CommitReleasesKey ==
  ASSUME IInv, KeysHeld, NEW r \in Requests, Commit(r)
  PROVE  KeysHeld' /\ MovesOn
<1> DEFINE k == request[r].email
<1>1. /\ request[r] # Idle /\ request[r].step = "commit"
      /\ request' = [request EXCEPT ![r] = Idle]
      /\ user' = [user EXCEPT ![k] =
           IF request[r].kind = "visit" THEN "active" ELSE "invited"]
  BY DEF Commit
<1>2. /\ k \in Emails /\ request[r].kind \in Kinds
      /\ user \in [Emails -> UserStatuses]
  BY <1>1, FieldTypes DEF IInv, TypeOK
<1>3. request[r].kind # "visit" => Holds(r, k)
  BY <1>1, <1>2 DEF Holds, Kinds
<1>4. request[r].kind = "visit" => user[k] # "none"
  BY <1>1 DEF IInv, Prepared
<1>5. \A o \in Requests, e \in Emails :
        Holds(o, e)' => o # r /\ Holds(o, e)
  BY <1>1 DEF Holds, IInv, TypeOK
<1>6. \A o \in Requests : o # r => ~Holds(o, k)
  BY <1>2, <1>3, <1>4 DEF KeysHeld
<1>7. KeysHeld'
  <2>1. \A o \in Requests, e \in Emails : Holds(o, e)' => e # k
    BY <1>5, <1>6
  <2>2. \A e \in Emails : e # k => user'[e] = user[e]
    BY <1>1, <1>2
  <2>3. QED
    BY <1>5, <2>1, <2>2 DEF KeysHeld
<1>8. MovesOn
  <2>1. request[r].kind # "visit" => user[k] = "none"
    BY <1>2, <1>3 DEF KeysHeld
  <2>2. QED
    BY <1>1, <1>2, <2>1 DEF MovesOn
<1>9. QED
  BY <1>7, <1>8

(* Every step keeps the keys and moves the users on. *)
LEMMA KeysKept ==
  ASSUME IInv, KeysHeld, [Next]_vars
  PROVE  KeysHeld' /\ MovesOn
<1>0. request \in [Requests -> RequestRecords \cup {Idle}]
  BY DEF IInv, TypeOK
<1>1. ASSUME UNCHANGED user
      PROVE  MovesOn
  BY <1>1 DEF MovesOn
<1>2. ASSUME UNCHANGED <<user, request>>
      PROVE  KeysHeld' /\ MovesOn
  <2>1. \A o \in Requests, e \in Emails : Holds(o, e)' => Holds(o, e)
    BY <1>2 DEF Holds
  <2>2. QED
    BY <1>1, <1>2, <2>1, NoNewKey
<1>3. ASSUME NEW e \in Emails, SignUp(e) \/ \E g \in Grants :
                                  AssignRole(e, g) \/ RevokeRole(e, g)
      PROVE  KeysHeld' /\ MovesOn
  <2>1. UNCHANGED <<user, request>>
    BY <1>3 DEF SignUp, AssignRole, RevokeRole, rows
  <2>2. QED
    BY <1>2, <2>1
<1>4. ASSUME NEW e \in Emails, Deactivate(e)
      PROVE  KeysHeld' /\ MovesOn
  <2>1. /\ user[e] # "none" /\ request' = request
        /\ user' = [user EXCEPT ![e] = "suspended"]
        /\ user \in [Emails -> UserStatuses]
    BY <1>4 DEF Deactivate, IInv, TypeOK
  <2>2. \A o \in Requests, x \in Emails : Holds(o, x)' <=> Holds(o, x)
    BY <2>1 DEF Holds
  <2>3. KeysHeld'
    BY <2>1, <2>2 DEF KeysHeld
  <2>4. MovesOn
    BY <2>1 DEF MovesOn
  <2>5. QED
    BY <2>3, <2>4
<1>5. ASSUME NEW e \in Emails, NEW r \in Requests,
             Register(r, e) \/ Invite(r, e) \/ Visit(r, e)
      PROVE  KeysHeld' /\ MovesOn
  <2>1. user' = user
    BY <1>5 DEF Register, Invite, Visit, rows
  <2>2. PICK kind \in Kinds, g \in Grants, step \in Steps :
          /\ Start(r, kind, e, g, step)
          /\ \/ kind = "register" /\ step = "insert"
             \/ kind = "invite" /\ step = "call"
             \/ kind = "visit"
    BY <1>5, ProvisioningAssumption DEF Register, Invite, Visit, Kinds, Steps
  <2>3. /\ request'[r] = [kind |-> kind, email |-> e, grant |-> g, step |-> step]
        /\ \A o \in Requests : o # r => request'[o] = request[o]
    BY <1>0, <2>2 DEF Start
  <2>4. \A o \in Requests, x \in Emails : Holds(o, x)' => Holds(o, x)
    BY <2>2, <2>3, SameKeys
  <2>5. QED
    BY <1>1, <2>1, <2>4, NoNewKey
<1>6. ASSUME NEW r \in Requests, TimeOut(r) \/ Fail(r)
      PROVE  KeysHeld' /\ MovesOn
  <2>1. user' = user /\ request' = [request EXCEPT ![r] = Idle]
    BY <1>6 DEF TimeOut, Fail, RollBack, rows
  <2>2. \A o \in Requests : request'[o] = request[o] \/ request'[o] = Idle
    BY <1>0, <2>1
  <2>3. \A o \in Requests, x \in Emails : Holds(o, x)' => Holds(o, x)
    BY <2>2, SameKeys
  <2>4. QED
    BY <1>1, <2>1, <2>3, NoNewKey
<1>7. CASE Crash
  <2>1. user' = user /\ \A o \in Requests : request'[o] = Idle
    BY <1>7 DEF Crash, rows
  <2>2. \A o \in Requests, x \in Emails : Holds(o, x)' => Holds(o, x)
    BY <2>1, SameKeys
  <2>3. QED
    BY <1>1, <2>1, <2>2, NoNewKey
<1>8. ASSUME NEW c \in calls, Answer(c) \/ Refuse(c) \/ Lose(c)
      PROVE  KeysHeld' /\ MovesOn
  <2>1. user' = user
    BY <1>8 DEF Answer, Refuse, Lose, rows
  <2>2. ASSUME NEW o \in Requests
        PROVE  \/ request'[o] = request[o]
               \/ request'[o] = Idle
               \/ /\ request[o] # Idle
                  /\ request'[o] # Idle
                  /\ request'[o].kind = request[o].kind
                  /\ request'[o].email = request[o].email
                  /\ \/ request[o].kind = "register" /\ request[o].step = "call"
                     \/ request'[o].step = "insert"
    <3> DEFINE p == IF c.kind = "invite" THEN "insert" ELSE "commit"
    <3>1. CASE request' = request
      BY <3>1
    <3>2. CASE request' = [request EXCEPT ![c.from] = Idle]
      BY <1>0, <3>2
    <3>3. CASE c.from # Idle /\ request' = [request EXCEPT ![c.from].step = p]
      <4>1. /\ request[c.from] # Idle
            /\ request[c.from].step = "call"
            /\ request[c.from].kind = c.kind
            /\ c.from \in Requests /\ c.kind \in {"invite", "register"}
        BY <3>3 DEF IInv, CallsMatch, TypeOK, Calls
      <4>2. p \in Steps /\ (c.kind = "invite" => p = "insert")
        BY DEF Steps
      <4> HIDE DEF p
      <4>3. /\ request'[c.from].kind = request[c.from].kind
            /\ request'[c.from].email = request[c.from].email
            /\ request'[c.from].step = p
            /\ request'[c.from] # Idle
            /\ \A q \in Requests : q # c.from => request'[q] = request[q]
        <5>1. request' \in [Requests -> RequestRecords \cup {Idle}]
          BY <3>3, <4>1, <4>2, StepTypes DEF IInv
        <5>2. request'[c.from].step = p
          BY <3>3, <4>1, <4>2, StepTypes DEF IInv
        <5>3. QED
          BY <1>0, <3>3, <4>1, <4>2, <5>1, <5>2, StepTypes, StepIsRequest
             DEF IInv
      <4>4. QED
        BY <4>1, <4>2, <4>3
    <3>4. QED
      BY <1>8, <3>1, <3>2, <3>3 DEF Answer, Refuse, Lose
  <2>3. \A o \in Requests, x \in Emails : Holds(o, x)' => Holds(o, x)
    BY <2>2, SameKeys
  <2>4. QED
    BY <1>1, <2>1, <2>3, NoNewKey
<1>9. ASSUME NEW r \in Requests, RequestStep(r)
      PROVE  KeysHeld' /\ MovesOn
  BY <1>1, <1>6, <1>9, InsertTakesKey, CommitReleasesKey DEF RequestStep
<1>10. CASE UNCHANGED vars
  BY <1>2, <1>10 DEF vars, rows
<1>11. QED
  BY <1>3, <1>4, <1>5, <1>6, <1>7, <1>8, <1>9, <1>10 DEF Next, Network

(* However invitations and registrations of a person overlap, and whatever *)
(* faults there are, the user row is made once and never taken back to an  *)
(* earlier status, and a deactivated user only comes back by a visit that  *)
(* was in flight.                                                          *)
THEOREM UsersMoveOn == Spec => UserMovesOn
<1>1. Init => KeysHeld
  BY DEF Init, KeysHeld, Holds
<1>2. IInv /\ KeysHeld /\ [Next]_vars => KeysHeld'
  BY KeysKept
<1>3. IInv /\ KeysHeld /\ [Next]_vars => [MovesOn]_user
  BY KeysKept
<1>4. QED
  BY <1>1, <1>2, <1>3, InitInvariant, NextInvariant, PTL
     DEF Spec, UserMovesOn, MovesOn
=============================================================================
