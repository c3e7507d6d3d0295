-------------------------------- MODULE Users -------------------------------
(***************************************************************************)
(* The accounts and the requests of administrators that change their role  *)
(* or deactivate them, each on a thread with a session of its own.         *)
(*                                                                         *)
(* A statement sees what was committed before it.  A session reads each    *)
(* account once, and its commit writes the fields the request changed from *)
(* what was read.  Roles other than administrator are all alike.           *)
(***************************************************************************)
EXTENDS Naturals, FiniteSets

CONSTANTS
    Ids,        \* accounts that may come to exist
    FirstAdmin, \* the administrator bootstrap_data created
    Updates,    \* requests to update an account
    Keep        \* a field the request does not set

Roles == {"admin", "viewer"}
Activity == {"yes", "no"}

ASSUME UsersAssumption ==
    IsFiniteSet(Ids) /\ FirstAdmin \in Ids /\ Keep \notin Roles \cup Activity

Account == [role : Roles, active : Activity]
NoAccount == [role |-> "none", active |-> "no"]

VARIABLES
    account,    \* users
    update,     \* each request: its caller, its payload and what it has read
    overtaken   \* history: an account changed between the last look a request
                \* took at the accounts and its commit

userVars == <<account, update, overtaken>>

NoUpdate == [at |-> "idle"]

Busy ==
    [at : {"caller", "user", "counted"}, caller : Ids, user : Ids,
     role : Roles \cup {Keep}, active : Activity \cup {Keep},
     read : Account, stale : BOOLEAN]

UsersTypeOK ==
    /\ account \in [Ids -> Account \cup {NoAccount}]
    /\ update \in [Updates -> Busy \cup {NoUpdate}]
    /\ overtaken \in BOOLEAN

UsersInit ==
    /\ account = [u \in Ids |-> IF u = FirstAdmin THEN [role |-> "admin", active |-> "yes"]
                                ELSE NoAccount]
    /\ update = [r \in Updates |-> NoUpdate]
    /\ overtaken = FALSE

IsAdmin(a) == a.role = "admin" /\ a.active = "yes"
Admins == {u \in Ids : IsAdmin(account[u])}

-----------------------------------------------------------------------------
(* New accounts.  Those who sign up are viewers.                           *)

Add(u, role) ==
    /\ account[u] = NoAccount
    /\ account' = [account EXCEPT ![u] = [role |-> role, active |-> "yes"]]
    /\ UNCHANGED <<update, overtaken>>

SignUp(u) == Add(u, "viewer")

CreateUser(u, role) == Admins # {} /\ Add(u, role)

-----------------------------------------------------------------------------
(* update_user.                                                            *)

\* get_current_user and require_admin.
Authenticate(r, c, u, role, active) ==
    /\ update[r] = NoUpdate
    /\ c \in Admins
    /\ update' = [update EXCEPT ![r] =
           [at |-> "caller", caller |-> c, user |-> u, role |-> role,
            active |-> active, read |-> account[c], stale |-> FALSE]]
    /\ UNCHANGED <<account, overtaken>>

Finish(r) == update' = [update EXCEPT ![r] = NoUpdate] /\ UNCHANGED <<account, overtaken>>

\* The update would take an active administrator away.
Removes(q) ==
    IsAdmin(q.read) /\ (q.active = "no" \/ q.role \notin {Keep, "admin"})

\* An own role cannot be set, nor an own account deactivated.
OwnRefused(q) == q.caller = q.user /\ (q.role # Keep \/ q.active = "no")

\* The account is read; that of the caller has been.  An update that removes
\* no administrator has nothing more to look at.
ReadUser(r) ==
    LET q == update[r]
        seen == IF q.user = q.caller THEN q ELSE
                    [q EXCEPT !.read = account[q.user], !.stale = FALSE]
    IN  /\ q.at = "caller"
        /\ IF account[q.user] = NoAccount \/ OwnRefused(q) THEN Finish(r)
           ELSE /\ update' = [update EXCEPT ![r] =
                       [seen EXCEPT !.at = IF Removes(seen) THEN "user" ELSE "counted"]]
                /\ UNCHANGED <<account, overtaken>>

\* Slip: off by one.
OneIsEnough == Cardinality(Admins) < 1

TooFew == Cardinality(Admins) <= 1

CountAdmins(r) ==
    /\ update[r].at = "user"
    /\ IF TooFew THEN Finish(r)
       ELSE /\ update' = [update EXCEPT ![r].at = "counted", ![r].stale = FALSE]
            /\ UNCHANGED <<account, overtaken>>

\* Only the fields that differ from what was read are written.
Written(q) ==
    [role |-> IF q.role \in {Keep, q.read.role} THEN account[q.user].role ELSE q.role,
     active |-> IF q.active \in {Keep, q.read.active} THEN account[q.user].active
                ELSE q.active]

Commit(r) ==
    LET q == update[r]
        new == [account EXCEPT ![q.user] = Written(q)]
    IN  /\ q.at = "counted"
        /\ account' = new
        /\ overtaken' = (overtaken \/ (q.stale /\ new # account))
        /\ update' = [p \in Updates |->
               IF p = r THEN NoUpdate
               ELSE IF update[p] = NoUpdate \/ new = account THEN update[p]
               ELSE [update[p] EXCEPT !.stale = TRUE]]

UsersNext ==
    \/ \E u \in Ids : SignUp(u) \/ \E role \in Roles : CreateUser(u, role)
    \/ \E r \in Updates :
         \/ \E c, u \in Ids, role \in Roles \cup {Keep}, active \in Activity \cup {Keep} :
              Authenticate(r, c, u, role, active)
         \/ ReadUser(r) \/ CountAdmins(r) \/ Commit(r)

UsersSpec == UsersInit /\ [][UsersNext]_userVars

-----------------------------------------------------------------------------
(* Properties.                                                             *)

\* "The backend protects the last active administrator ..."
AdminRemains == Admins # {}

\* It does, whatever requests overlap, unless one commits after an account
\* changed behind its last look.
AdminUnlessRaced == overtaken \/ AdminRemains

=============================================================================
