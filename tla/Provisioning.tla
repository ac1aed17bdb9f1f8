---------------------------- MODULE Provisioning ----------------------------
(***************************************************************************)
(* How a person gets a user row: staff are invited by HR, workers register *)
(* themselves.  Either request calls Supabase, the authentication service, *)
(* from inside its database transaction: the invitation makes an account   *)
(* there and its id becomes the key of the row; a registration finds the   *)
(* account made and adds the trust to its metadata.  The two stores have   *)
(* no transaction in common.  Calls and answers may be lost, the caller    *)
(* gives up after its timeout while the call may still be on its way, and  *)
(* the server may crash between any two steps.                             *)
(***************************************************************************)
EXTENDS Naturals, FiniteSets

CONSTANTS
  Emails,       \* the people
  Grants,       \* valid pairs of a role and a school, or no school
  WorkerGrant,  \* the worker role, at no school
  Requests,     \* slots for requests in flight
  Idle,         \* a slot that is free, and the slot of an abandoned call
  MaxFaults     \* bound: losses, failures and crashes

Kinds == {"invite", "register", "visit"}
Steps == {"insert", "call", "commit"}

RequestRecords ==
  [kind : Kinds, email : Emails, grant : Grants, step : Steps]

ASSUME ProvisioningAssumption ==
  /\ WorkerGrant \in Grants
  /\ Idle \notin Requests \cup RequestRecords
  /\ MaxFaults \in Nat

UserStatuses == {"none", "invited", "active", "suspended"}

(* No row, a row that is active, a row that was deactivated. *)
GrantStates == {"none", "active", "inactive"}

VARIABLES
  account,   \* Supabase: the people with an account
  metadata,  \* Supabase: the accounts whose metadata name the trust
  user,      \* status of the row of users, "none" without one
  profile,   \* who has a row of worker_profiles
  grant,     \* rows of user_school_assignments
  request,   \* what each slot is doing, and at which step it is
  calls,     \* calls on their way to Supabase
  faults     \* how many faults there were

rows == <<user, profile, grant>>
supabase == <<account, metadata>>
vars == <<supabase, rows, request, calls, faults>>

Calls ==
  [kind : {"invite", "register"}, email : Emails, from : Requests \cup {Idle}]

-----------------------------------------------------------------------------
Fault == faults < MaxFaults /\ faults' = faults + 1

(* A request whose row is inserted and not yet committed: the unique keys  *)
(* make any other insert of it wait.                                       *)
Holds(r, e) ==
  /\ request[r] # Idle
  /\ request[r].email = e
  /\ \/ request[r].kind = "register" /\ request[r].step \in {"call", "commit"}
     \/ request[r].kind = "invite" /\ request[r].step = "commit"

(* The calls, once these requests no longer wait for an answer. *)
Abandoned(rs) ==
  {IF c.from \in rs THEN [c EXCEPT !.from = Idle] ELSE c : c \in calls}

(* The request is over and its transaction is rolled back. *)
RollBack(r) ==
  /\ request' = [request EXCEPT ![r] = Idle]
  /\ calls' = Abandoned({r})
  /\ UNCHANGED <<supabase, rows>>

Start(r, kind, e, g, step) ==
  /\ request[r] = Idle
  /\ request' = [request EXCEPT ![r] =
       [kind |-> kind, email |-> e, grant |-> g, step |-> step]]

CallFrom(r) ==
  [kind |-> request'[r].kind, email |-> request'[r].email, from |-> r]

(* A person signs up with Supabase: the one-time password was verified.    *)
SignUp(e) ==
  /\ account' = account \cup {e}
  /\ UNCHANGED <<metadata, rows, request, calls, faults>>

(* Mutant of Register: whoever is known to Supabase is turned away. *)
RegisterOnce(r, e) ==
  /\ e \in account \ metadata
  /\ user[e] = "none"
  /\ Start(r, "register", e, WorkerGrant, "insert")
  /\ UNCHANGED <<supabase, rows, calls, faults>>

(* register: a user row that is there is returned as it is, also when it   *)
(* was made by an invitation.                                              *)
Register(r, e) ==
  /\ e \in account
  /\ user[e] = "none"
  /\ Start(r, "register", e, WorkerGrant, "insert")
  /\ UNCHANGED <<supabase, rows, calls, faults>>

(* Mutant of Invite: the row is inserted first, under an id of its own. *)
InviteRowFirst(r, e) ==
  /\ user[e] = "none"
  /\ \E g \in Grants : Start(r, "invite", e, g, "insert")
  /\ UNCHANGED <<supabase, rows, calls, faults>>

(* invite_user: Supabase is asked first. *)
Invite(r, e) ==
  /\ user[e] = "none"
  /\ \E g \in Grants : Start(r, "invite", e, g, "call")
  /\ calls' = calls \cup {CallFrom(r)}
  /\ UNCHANGED <<supabase, rows, faults>>

(* GET /users/me, which activates a user it finds invited. *)
Visit(r, e) ==
  /\ user[e] = "invited"
  /\ Start(r, "visit", e, WorkerGrant, "commit")
  /\ UNCHANGED <<supabase, rows, calls, faults>>

(* Mutant of InsertUser: a registration commits before it calls.           *)
InsertUserUnpatched(r) ==
  /\ request[r] # Idle
  /\ request[r].step = "insert"
  /\ \A other \in Requests \ {r} : ~Holds(other, request[r].email)
  /\ UNCHANGED <<supabase, rows, calls, faults>>
  /\ request' = IF user[request[r].email] # "none"
                THEN [request EXCEPT ![r] = Idle]
                ELSE [request EXCEPT ![r].step = "commit"]

(* Mutant of InsertUser: nothing makes the second of two inserts wait. *)
InsertUserUnkeyed(r) ==
  /\ request[r] # Idle
  /\ request[r].step = "insert"
  /\ UNCHANGED <<supabase, rows, faults>>
  /\ IF user[request[r].email] # "none"
     THEN /\ request' = [request EXCEPT ![r] = Idle]
          /\ UNCHANGED calls
     ELSE IF request[r].kind = "register"
     THEN /\ request' = [request EXCEPT ![r].step = "call"]
          /\ calls' = calls \cup {CallFrom(r)}
     ELSE /\ request' = [request EXCEPT ![r].step = "commit"]
          /\ UNCHANGED calls

(* The rows are inserted.  A user row committed since the test for one     *)
(* violates the unique key.  A registration goes on to call Supabase.      *)
InsertUser(r) ==
  /\ request[r] # Idle
  /\ request[r].step = "insert"
  /\ \A other \in Requests \ {r} : ~Holds(other, request[r].email)
  /\ UNCHANGED <<supabase, rows, faults>>
  /\ IF user[request[r].email] # "none"
     THEN /\ request' = [request EXCEPT ![r] = Idle]
          /\ UNCHANGED calls
     ELSE IF request[r].kind = "register"
     THEN /\ request' = [request EXCEPT ![r].step = "call"]
          /\ calls' = calls \cup {CallFrom(r)}
     ELSE /\ request' = [request EXCEPT ![r].step = "commit"]
          /\ UNCHANGED calls

(* What Supabase does with a call. *)
Apply(c) ==
  IF c.kind = "invite"
  THEN account' = account \cup {c.email} /\ UNCHANGED metadata
  ELSE metadata' = metadata \cup {c.email} /\ UNCHANGED account

(* A call is answered, and the request goes on. *)
Answer(c) ==
  /\ c \in calls
  /\ calls' = calls \ {c}
  /\ Apply(c)
  /\ request' = IF c.from = Idle THEN request
                ELSE [request EXCEPT ![c.from].step =
                        IF c.kind = "invite" THEN "insert" ELSE "commit"]
  /\ UNCHANGED <<rows, faults>>

(* Supabase does not invite someone who has confirmed an account.          *)
Refuse(c) ==
  /\ c \in calls
  /\ c.kind = "invite"
  /\ c.email \in account
  /\ calls' = calls \ {c}
  /\ request' = IF c.from = Idle THEN request
                ELSE [request EXCEPT ![c.from] = Idle]
  /\ UNCHANGED <<supabase, rows, faults>>

(* A call is lost, or it is applied and its answer is lost. *)
Lose(c) ==
  /\ c \in calls
  /\ calls' = calls \ {c}
  /\ Apply(c) \/ UNCHANGED supabase
  /\ Fault
  /\ UNCHANGED <<rows, request>>

(* Mutant of TimeOut: only a call that was not lost is given up. *)
TimeOutLate(r) ==
  /\ request[r] # Idle
  /\ request[r].step = "call"
  /\ \E c \in calls : c.from = r
  /\ Fault
  /\ RollBack(r)

(* Ten seconds without an answer.  That is a fault unless the call was     *)
(* lost, which counted as one.                                             *)
TimeOut(r) ==
  /\ request[r] # Idle
  /\ request[r].step = "call"
  /\ IF \E c \in calls : c.from = r THEN Fault ELSE UNCHANGED faults
  /\ RollBack(r)

(* Any exception in a request: a refusal, a lost connection.               *)
Fail(r) ==
  /\ request[r] # Idle
  /\ Fault
  /\ RollBack(r)

(* The server stops, and starts again with no request. *)
Crash ==
  /\ \E r \in Requests : request[r] # Idle
  /\ Fault
  /\ request' = [r \in Requests |-> Idle]
  /\ calls' = Abandoned(Requests)
  /\ UNCHANGED <<supabase, rows>>

(* The end of the transaction.  A visit writes the status it decided on    *)
(* when it read the row.                                                   *)
Commit(r) ==
  /\ request[r] # Idle
  /\ request[r].step = "commit"
  /\ LET e == request[r].email
     IN IF request[r].kind = "visit"
        THEN user' = [user EXCEPT ![e] = "active"] /\ UNCHANGED <<profile, grant>>
        ELSE /\ user' = [user EXCEPT ![e] = "invited"]
             /\ grant' = [grant EXCEPT ![e][request[r].grant] = "active"]
             /\ profile' = IF request[r].kind = "register"
                           THEN profile \cup {e} ELSE profile
  /\ request' = [request EXCEPT ![r] = Idle]
  /\ UNCHANGED <<supabase, calls, faults>>

(* assign_role: a row that was deactivated is used again.  The status of   *)
(* the user is not looked at.                                              *)
AssignRole(e, g) ==
  /\ user[e] # "none"
  /\ grant[e][g] # "active"
  /\ grant' = [grant EXCEPT ![e][g] = "active"]
  /\ UNCHANGED <<supabase, user, profile, request, calls, faults>>

RevokeRole(e, g) ==
  /\ grant[e][g] = "active"
  /\ grant' = [grant EXCEPT ![e][g] = "inactive"]
  /\ UNCHANGED <<supabase, user, profile, request, calls, faults>>

(* deactivate_user: with all their roles.  The account stays. *)
Deactivate(e) ==
  /\ user[e] # "none"
  /\ user' = [user EXCEPT ![e] = "suspended"]
  /\ grant' = [grant EXCEPT ![e] =
       [g \in Grants |-> IF @[g] = "active" THEN "inactive" ELSE @[g]]]
  /\ UNCHANGED <<supabase, profile, request, calls, faults>>

-----------------------------------------------------------------------------
Init ==
  /\ account = {}
  /\ metadata = {}
  /\ user = [e \in Emails |-> "none"]
  /\ profile = {}
  /\ grant = [e \in Emails |-> [g \in Grants |-> "none"]]
  /\ request = [r \in Requests |-> Idle]
  /\ calls = {}
  /\ faults = 0

RequestStep(r) == InsertUser(r) \/ TimeOut(r) \/ Commit(r)

Network == \E c \in calls : Answer(c) \/ Refuse(c) \/ Lose(c)

Next ==
  \/ \E e \in Emails :
       \/ SignUp(e)
       \/ Deactivate(e)
       \/ \E r \in Requests : Register(r, e) \/ Invite(r, e) \/ Visit(r, e)
       \/ \E g \in Grants : AssignRole(e, g) \/ RevokeRole(e, g)
  \/ \E r \in Requests : RequestStep(r) \/ Fail(r)
  \/ Network
  \/ Crash

(* A request that can go on goes on, Supabase answers calls as long as     *)
(* there are some, and a worker without a user row tries again.            *)
Fairness ==
  /\ \A r \in Requests : WF_vars(RequestStep(r))
  /\ WF_vars(\E c \in calls : Answer(c))
  /\ \A e \in Emails : SF_vars(\E r \in Requests : Register(r, e))

Spec == Init /\ [][Next]_vars
FairSpec == Spec /\ Fairness

-----------------------------------------------------------------------------
(* Type invariant of the two stores and the requests between them. *)
TypeOK ==
  /\ account \subseteq Emails
  /\ metadata \subseteq Emails
  /\ user \in [Emails -> UserStatuses]
  /\ profile \subseteq Emails
  /\ grant \in [Emails -> [Grants -> GrantStates]]
  /\ request \in [Requests -> RequestRecords \cup {Idle}]
  /\ calls \subseteq Calls
  /\ faults \in Nat

(* The row of a user is the row of an account, wherever the server stopped *)
(* and whatever Supabase did not answer: nobody is in the trust who cannot *)
(* sign in (user_provisioning.py, invite_user, which asks for the account  *)
(* first because the row takes its id).                                    *)
UserHasAccount == \A e \in Emails : user[e] # "none" => e \in account

(* A worker profile is only committed with its user row and the row of its *)
(* worker role, which is deactivated at most, and after the metadata of    *)
(* the account name the trust, so that the worker's next token carries it  *)
(* (worker_registration.py, register, steps 3 to 6; user_provisioning.py,  *)
(* revoke_role, deactivate_user).                                          *)
RegisteredHasMetadata ==
  \A e \in profile :
    /\ user[e] # "none"
    /\ grant[e][WorkerGrant] # "none"
    /\ e \in metadata

(* A user row is never lost, nor taken back to an earlier status: however  *)
(* invitations and registrations of one person overlap, the row is made    *)
(* once.  A deactivated user only comes back by a visit in flight, which   *)
(* has read the row before (repositories/user.py, the activation on a      *)
(* visit; user_provisioning.py, deactivate_user; the keys of users).       *)
UserMovesOn ==
  [][\A e \in Emails :
       /\ user[e] = "invited" => user'[e] \in {"invited", "active", "suspended"}
       /\ user[e] = "active" => user'[e] \in {"active", "suspended"}
       /\ user[e] = "suspended" /\ user'[e] # "suspended" =>
            /\ user'[e] = "active"
            /\ \E r \in Requests :
                 request[r] # Idle /\ request[r].kind = "visit"
                                  /\ request[r].email = e]_user

(* No request is in flight forever, though it waits for an answer that was *)
(* lost or for a key another request holds (supabase_admin.py, the         *)
(* timeouts; dependencies.py, the rollback).                               *)
RequestsEnd == \A r \in Requests : request[r] # Idle ~> request[r] = Idle

(* Whatever a failed registration left behind, a worker who tries again    *)
(* ends with a user row, and with the metadata unless the row was made by  *)
(* an invitation (worker_registration.py, "Idempotent").                   *)
RegistrationSucceeds ==
  \A e \in Emails :
    e \in account ~> user[e] # "none" /\ (e \in profile => e \in metadata)
=============================================================================
