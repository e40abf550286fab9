------------------------------ MODULE Accounts ------------------------------
(***************************************************************************)
(* The accounts and sessions of a shared deployment (app/services/auth.py  *)
(* and the handlers of app/routes/auth.py).  Login, adding a user and      *)
(* resetting a password are coroutines: after their form has arrived they  *)
(* run on the event loop without giving it up.  Enabling, disabling and    *)
(* logging out run in worker threads, and so between any two of their SQL  *)
(* transactions, and of a login's, anything else may happen.               *)
(*                                                                         *)
(* A salted password hash is a number, new for every password set.  A      *)
(* login with a wrong password, or to a disabled account, changes nothing  *)
(* and is left out, as are names, roles without account administration,    *)
(* and the authority of whoever makes a request.                           *)
(***************************************************************************)
EXTENDS Integers, FiniteSets

CONSTANTS
  Users,           \* accounts that may exist
  Admins,          \* those whose role is admin
  AccountRequests, \* requests that may be in flight
  SessionTTL,      \* how long a session lives
  MaxSessions,     \* bound: sessions ever issued
  MaxHashes,       \* bound: passwords ever set
  MaxClock,        \* bound: the wall clock
  Nobody           \* "no request"

ASSUME AccountsAssumption ==
  /\ Admins \subseteq Users /\ Admins # {} /\ Nobody \notin AccountRequests
  /\ SessionTTL \in Nat \ {0}
  /\ MaxSessions \in Nat /\ MaxHashes \in Nat /\ MaxClock \in Nat

VARIABLES
  users,     \* the users table
  sessions,  \* the auth_sessions table
  issued,    \* session tokens issued so far
  hashes,    \* password hashes made so far
  clock,     \* the wall clock
  requests,  \* where each request is
  loop       \* the coroutine the event loop is running

tables == <<users, sessions>>
accountVars == <<tables, issued, hashes, clock, requests, loop>>

User    == [active : BOOLEAN, hash : Nat]
Session == [token : Nat, user : Users, hash : Nat, expires : Nat]

(* A session's hash is the one its owner's password was checked against.   *)
(* The fields of a request: what it is about to do, to whom, the hash its  *)
(* password was checked against, and the status to set.                    *)
Request ==
  [step : {"idle", "session", "count", "update"}, user : Users, hash : Nat,
   active : BOOLEAN]

IdleRequest ==
  [step |-> "idle", user |-> CHOOSE u \in Users : TRUE, hash |-> 0,
   active |-> FALSE]

(* Rows, sessions and requests have the shape the code gives them, and     *)
(* tokens and hashes are told apart.                                       *)
AccountsTypeOK ==
  /\ DOMAIN users \subseteq Users
  /\ users \in [DOMAIN users -> User]
  /\ sessions \subseteq Session
  /\ \A s \in sessions : s.token <= issued /\ s.user \in DOMAIN users
  /\ \A s, t \in sessions : s.token = t.token => s = t
  /\ issued \in Nat /\ hashes \in Nat /\ clock \in Nat
  /\ requests \in [AccountRequests -> Request]
  /\ loop \in AccountRequests \cup {Nobody}

ActiveAdmins == {u \in DOMAIN users : u \in Admins /\ users[u].active}

SessionsOf(u) == {s \in sessions : s.user = u}
Expired       == {s \in sessions : s.expires <= clock}

(* A first start has seeded an administrator; other accounts may be there. *)
AccountsInit ==
  /\ \E present \in SUBSET Users :
       /\ present \cap Admins # {}
       /\ users = [u \in present |-> [active |-> TRUE, hash |-> 1]]
  /\ sessions = {} /\ issued = 0 /\ hashes = 1 /\ clock = 0
  /\ requests = [r \in AccountRequests |-> IdleRequest]
  /\ loop = Nobody

Continue(r, task) == requests' = [requests EXCEPT ![r] = task]
Finish(r)         == Continue(r, IdleRequest)

(* create_user: a first account of this name *)
AddUser(u) ==
  /\ loop = Nobody /\ u \notin DOMAIN users /\ hashes < MaxHashes
  /\ hashes' = hashes + 1
  /\ users' = [v \in DOMAIN users \cup {u} |->
                 IF v = u THEN [active |-> TRUE, hash |-> hashes'] ELSE users[v]]
  /\ UNCHANGED <<sessions, issued, clock, requests, loop>>

(* authenticate *)
LoginAuthenticate(r, u) ==
  /\ requests[r].step = "idle" /\ loop = Nobody /\ issued < MaxSessions
  /\ u \in DOMAIN users /\ users[u].active
  /\ Continue(r, [IdleRequest EXCEPT !.step = "session", !.user = u,
                                     !.hash = users[u].hash])
  /\ loop' = r
  /\ UNCHANGED <<tables, issued, hashes, clock>>

(* create_session *)
LoginSession(r) ==
  /\ requests[r].step = "session"
  /\ issued' = issued + 1
  /\ sessions' = (sessions \ Expired) \cup
       {[token |-> issued', user |-> requests[r].user, hash |-> requests[r].hash,
         expires |-> clock + SessionTTL]}
  /\ Finish(r) /\ loop' = Nobody
  /\ UNCHANGED <<users, hashes, clock>>

(* revoke_session *)
Logout(s) ==
  /\ sessions' = sessions \ {s}
  /\ UNCHANGED <<users, issued, hashes, clock, requests, loop>>

(* Mutant: the password is reset in a worker thread. *)
ResetPasswordInThread(u) ==
  /\ u \in DOMAIN users /\ hashes < MaxHashes
  /\ hashes' = hashes + 1
  /\ users' = [users EXCEPT ![u].hash = hashes']
  /\ sessions' = sessions \ SessionsOf(u)
  /\ UNCHANGED <<issued, clock, requests, loop>>

(* update_password *)
ResetPassword(u) ==
  /\ loop = Nobody /\ u \in DOMAIN users /\ hashes < MaxHashes
  /\ hashes' = hashes + 1
  /\ users' = [users EXCEPT ![u].hash = hashes']
  /\ sessions' = sessions \ SessionsOf(u)
  /\ UNCHANGED <<issued, clock, requests, loop>>

(* The first read of set_user_active: only an active administrator to be   *)
(* disabled has the others counted.                                        *)
StatusRead(r, u, active) ==
  /\ requests[r].step = "idle" /\ u \in DOMAIN users
  /\ Continue(r,
       [IdleRequest EXCEPT
          !.step = IF u \in ActiveAdmins /\ ~active THEN "count" ELSE "update",
          !.user = u, !.active = active])
  /\ UNCHANGED <<tables, issued, hashes, clock, loop>>

(* The second read: the last active administrator is not disabled. *)
StatusCount(r) ==
  /\ requests[r].step = "count"
  /\ IF Cardinality(ActiveAdmins) <= 1 THEN Finish(r)
     ELSE Continue(r, [requests[r] EXCEPT !.step = "update"])
  /\ UNCHANGED <<tables, issued, hashes, clock, loop>>

(* The transaction of set_user_active. *)
StatusUpdate(r) ==
  LET task == requests[r] IN
  /\ task.step = "update"
  /\ users' = [users EXCEPT ![task.user].active = task.active]
  /\ sessions' = IF task.active THEN sessions ELSE sessions \ SessionsOf(task.user)
  /\ Finish(r)
  /\ UNCHANGED <<issued, hashes, clock, loop>>

AccountsTick ==
  /\ clock < MaxClock /\ clock' = clock + 1
  /\ UNCHANGED <<tables, issued, hashes, requests, loop>>

(* The process ends: what requests held is lost, the tables stay. *)
RequestsLost ==
  /\ requests' = [r \in AccountRequests |-> IdleRequest]
  /\ loop' = Nobody

AccountsNext ==
  \/ \E u \in Users : AddUser(u) \/ ResetPassword(u)
  \/ \E r \in AccountRequests, u \in Users : LoginAuthenticate(r, u)
  \/ \E r \in AccountRequests, u \in Users, active \in BOOLEAN : StatusRead(r, u, active)
  \/ \E r \in AccountRequests : LoginSession(r) \/ StatusCount(r) \/ StatusUpdate(r)
  \/ \E s \in sessions : Logout(s)
  \/ AccountsTick

(***************************************************************************)
(* Properties.                                                             *)
(***************************************************************************)

(* A reset password ends every session of the account, also one whose      *)
(* login has been checked against the old password and not yet stored      *)
(* (update_password, against authenticate and create_session).             *)
SessionsFollowPassword ==
  \A s \in sessions : s.hash = users[s.user].hash

(* A session that has ended is never in the table again: not by a late     *)
(* login, and not by a restored backup (revoke_session, update_password,   *)
(* set_user_active, _backup_database).                                     *)
EndedSessionsStayEnded ==
  [][\A s \in sessions' \ sessions : s.token > issued]_accountVars

(* "The last active administrator cannot be disabled."                     *)
(* (docs/RELEASE_SECURITY_REVIEW.md, set_user_active)                      *)
AdministratorRemains == ActiveAdmins # {}

=============================================================================
