--------------------------- MODULE BackupsProofs ---------------------------
(***************************************************************************)
(* Proofs about Accounts and Backups: the types of the tables, sessions    *)
(* that end with the password they were granted for, tokens that never     *)
(* come back, and exercises that keep their packages through backup and    *)
(* restore.                                                                *)
(***************************************************************************)
EXTENDS Backups, TLAPS

(***************************************************************************)
(* Accounts.                                                               *)
(***************************************************************************)

(* A login between its two transactions holds the event loop, and the      *)
(* password it was checked against is still the account's.                 *)
LoginsCurrent ==
  \A r \in AccountRequests : requests[r].step = "session" =>
    /\ loop = r
    /\ requests[r].user \in DOMAIN users
    /\ requests[r].hash = users[requests[r].user].hash

AInv == AccountsTypeOK /\ SessionsFollowPassword /\ LoginsCurrent

LEMMA IdleIsRequest == IdleRequest \in Request
<1>1. (CHOOSE u \in Users : TRUE) \in Users
  BY AccountsAssumption
<1> QED
  BY <1>1 DEF IdleRequest, Request

LEMMA IdleIsIdle == IdleRequest.step = "idle"
<1> DEFINE anyone == CHOOSE u \in Users : TRUE
<1>1. IdleRequest = [step |-> "idle", user |-> anyone, hash |-> 0, active |-> FALSE]
  BY DEF IdleRequest
<1> HIDE DEF anyone
<1> QED
  BY <1>1

LEMMA AccountsInitOK == AccountsInit => AInv
<1> SUFFICES ASSUME AccountsInit PROVE AInv
  OBVIOUS
<1>1. PICK present \in SUBSET Users :
        users = [u \in present |-> [active |-> TRUE, hash |-> 1]]
  BY DEF AccountsInit
<1>2. DOMAIN users \subseteq Users /\ users \in [DOMAIN users -> User]
  BY <1>1 DEF User
<1>3. requests \in [AccountRequests -> Request] /\ \A r \in AccountRequests : requests[r].step = "idle"
  BY IdleIsRequest DEF AccountsInit, IdleRequest
<1> QED
  BY <1>2, <1>3 DEF AccountsInit, AInv, AccountsTypeOK, SessionsFollowPassword, LoginsCurrent

LEMMA AddUserOK ==
  ASSUME AInv, NEW u \in Users, AddUser(u)
  PROVE  AInv'
<1>1. hashes' \in Nat
  BY DEF AddUser, AInv, AccountsTypeOK
<1>2. DOMAIN users' = DOMAIN users \cup {u} /\ u \notin DOMAIN users
  BY DEF AddUser
<1>3. \A v \in DOMAIN users : users'[v] = users[v]
  BY <1>2 DEF AddUser
<1>4. users'[u] = [active |-> TRUE, hash |-> hashes']
  BY <1>2 DEF AddUser
<1>5. users' = [v \in DOMAIN users' |-> users'[v]]
  BY <1>2 DEF AddUser
<1>6. \A v \in DOMAIN users' : users'[v] \in User
  <2>1. users'[u] \in User
    BY <1>1, <1>4 DEF User
  <2>2. \A v \in DOMAIN users : users[v] \in User
    BY DEF AInv, AccountsTypeOK
  <2> QED
    BY <1>2, <1>3, <2>1, <2>2
<1>7. users' \in [DOMAIN users' -> User]
  BY <1>5, <1>6
<1>8. AccountsTypeOK'
  BY <1>1, <1>2, <1>7 DEF AddUser, AInv, AccountsTypeOK
<1>9. SessionsFollowPassword'
  BY <1>3 DEF AddUser, AInv, AccountsTypeOK, SessionsFollowPassword
<1>10. LoginsCurrent'
  BY <1>2, <1>3 DEF AddUser, AInv, LoginsCurrent
<1> QED
  BY <1>8, <1>9, <1>10 DEF AInv

LEMMA LoginAuthenticateOK ==
  ASSUME AInv, NEW r \in AccountRequests, NEW u \in Users, LoginAuthenticate(r, u)
  PROVE  AInv'
<1> DEFINE task == [IdleRequest EXCEPT !.step = "session", !.user = u, !.hash = users[u].hash]
<1>1. users[u].hash \in Nat
  BY DEF LoginAuthenticate, AInv, AccountsTypeOK, User
<1>2. task \in Request
  BY <1>1 DEF IdleRequest, Request
<1>3. requests' = [requests EXCEPT ![r] = task]
  BY DEF LoginAuthenticate, Continue
<1>4. task.step = "session" /\ task.user = u /\ task.hash = users[u].hash
  BY DEF IdleRequest
<1> HIDE DEF task
<1>5. requests' \in [AccountRequests -> Request]
  BY <1>2, <1>3 DEF AInv, AccountsTypeOK
<1>6. AccountsTypeOK'
  BY <1>5 DEF LoginAuthenticate, AInv, AccountsTypeOK, tables
<1>7. SessionsFollowPassword'
  BY DEF LoginAuthenticate, AInv, SessionsFollowPassword, tables
<1>8. LoginsCurrent'
  <2> SUFFICES ASSUME NEW q \in AccountRequests, requests'[q].step = "session"
               PROVE  /\ loop' = q /\ requests'[q].user \in DOMAIN users'
                      /\ requests'[q].hash = users'[requests'[q].user].hash
    BY DEF LoginsCurrent
  <2>1. CASE q = r
    BY <1>3, <1>4, <2>1 DEF LoginAuthenticate, AInv, AccountsTypeOK, tables
  <2>2. CASE q # r
    <3>1. requests'[q] = requests[q]
      BY <1>3, <2>2 DEF AInv, AccountsTypeOK
    <3>2. loop = q
      BY <3>1 DEF AInv, LoginsCurrent
    <3> QED
      BY <3>2, AccountsAssumption DEF LoginAuthenticate
  <2> QED
    BY <2>1, <2>2
<1> QED
  BY <1>6, <1>7, <1>8 DEF AInv

(* A request that ends, or goes on to anything but storing a session,      *)
(* leaves the logins as they are.                                          *)
LEMMA OtherTask ==
  ASSUME AInv, NEW r \in AccountRequests, NEW task \in Request, task.step # "session",
         Continue(r, task), UNCHANGED loop,
         DOMAIN users' = DOMAIN users,
         \A u \in DOMAIN users : users'[u].hash = users[u].hash
  PROVE  requests' \in [AccountRequests -> Request] /\ LoginsCurrent'
<1>1. requests' \in [AccountRequests -> Request]
  BY DEF Continue, AInv, AccountsTypeOK
<1>2. \A q \in AccountRequests : requests'[q] = IF q = r THEN task ELSE requests[q]
  BY DEF Continue, AInv, AccountsTypeOK
<1> QED
  BY <1>1, <1>2 DEF AInv, LoginsCurrent

LEMMA LoginSessionOK ==
  ASSUME AInv, NEW r \in AccountRequests, LoginSession(r)
  PROVE  AInv'
<1> DEFINE new == [token |-> issued', user |-> requests[r].user, hash |-> requests[r].hash,
                   expires |-> clock + SessionTTL]
<1>1. /\ requests[r].user \in DOMAIN users /\ loop = r
      /\ requests[r].hash = users[requests[r].user].hash
  BY DEF LoginSession, AInv, LoginsCurrent
<1>2. requests[r] \in Request
  BY DEF AInv, AccountsTypeOK
<1>3. issued' = issued + 1 /\ issued \in Nat /\ issued' \in Nat /\ clock + SessionTTL \in Nat
  BY AccountsAssumption DEF LoginSession, AInv, AccountsTypeOK
<1>4. new \in Session
  BY <1>2, <1>3 DEF Session, Request
<1>5. new.token = issued + 1 /\ new.user \in DOMAIN users /\ new.hash = users[new.user].hash
  BY <1>1, <1>3
<1>6. sessions' = (sessions \ Expired) \cup {new}
  BY DEF LoginSession
<1> HIDE DEF new
<1>7. \A s \in sessions : s \in Session /\ s.token \in Nat /\ s.token <= issued
  BY DEF AInv, AccountsTypeOK, Session
<1>8. \A q \in AccountRequests : requests'[q] = IF q = r THEN IdleRequest ELSE requests[q]
  BY DEF LoginSession, Finish, Continue, AInv, AccountsTypeOK
<1>9. requests' \in [AccountRequests -> Request]
  BY IdleIsRequest DEF LoginSession, Finish, Continue, AInv, AccountsTypeOK
<1>10. /\ sessions' \subseteq Session
       /\ \A s \in sessions' : s.token <= issued' /\ s.user \in DOMAIN users
       /\ \A s, t \in sessions' : s.token = t.token => s = t
  <2>1. \A s \in sessions' : s \in sessions \/ s = new
    BY <1>6
  <2>2. sessions' \subseteq Session
    BY <1>4, <1>7, <2>1
  <2>3. \A s \in sessions' : s.token <= issued' /\ s.user \in DOMAIN users
    BY <1>3, <1>5, <1>7, <2>1 DEF AInv, AccountsTypeOK
  <2>4. \A s \in sessions : s.token # new.token
    BY <1>3, <1>5, <1>7
  <2>5. \A s, t \in sessions' : s.token = t.token => s = t
    BY <2>1, <2>4 DEF AInv, AccountsTypeOK
  <2> QED
    BY <2>2, <2>3, <2>5
<1>11. AccountsTypeOK'
  BY <1>3, <1>9, <1>10 DEF LoginSession, AInv, AccountsTypeOK
<1>12. SessionsFollowPassword'
  BY <1>5, <1>6 DEF LoginSession, AInv, SessionsFollowPassword
<1>13. LoginsCurrent'
  <2>1. \A q \in AccountRequests : q # r => requests[q].step # "session"
    BY <1>1 DEF AInv, LoginsCurrent
  <2>2. IdleRequest.step = "idle"
    BY DEF IdleRequest
  <2> QED
    BY <1>8, <2>1, <2>2 DEF LoginsCurrent
<1> QED
  BY <1>11, <1>12, <1>13 DEF AInv

LEMMA LogoutOK ==
  ASSUME AInv, NEW s \in sessions, Logout(s)
  PROVE  AInv'
<1>1. AccountsTypeOK'
  BY DEF Logout, AInv, AccountsTypeOK
<1>2. SessionsFollowPassword' /\ LoginsCurrent'
  BY DEF Logout, AInv, SessionsFollowPassword, LoginsCurrent
<1> QED
  BY <1>1, <1>2 DEF AInv

LEMMA ResetPasswordOK ==
  ASSUME AInv, NEW u \in Users, ResetPassword(u)
  PROVE  AInv'
<1>1. hashes' \in Nat
  BY DEF ResetPassword, AInv, AccountsTypeOK
<1>2. /\ DOMAIN users' = DOMAIN users /\ u \in DOMAIN users
      /\ \A v \in DOMAIN users : v # u => users'[v] = users[v]
  BY DEF ResetPassword
<1>3. users' \in [DOMAIN users' -> User]
  BY <1>1, <1>2 DEF ResetPassword, AInv, AccountsTypeOK, User
<1>4. AccountsTypeOK'
  BY <1>1, <1>2, <1>3 DEF ResetPassword, AInv, AccountsTypeOK, SessionsOf
<1>5. SessionsFollowPassword'
  BY <1>2 DEF ResetPassword, AInv, AccountsTypeOK, SessionsFollowPassword, SessionsOf
<1>6. LoginsCurrent'
  BY AccountsAssumption DEF ResetPassword, AInv, LoginsCurrent
<1> QED
  BY <1>4, <1>5, <1>6 DEF AInv

LEMMA StatusReadOK ==
  ASSUME AInv, NEW r \in AccountRequests, NEW u \in Users, NEW active \in BOOLEAN,
         StatusRead(r, u, active)
  PROVE  AInv'
<1> DEFINE step == IF u \in ActiveAdmins /\ ~active THEN "count" ELSE "update"
           task == [IdleRequest EXCEPT !.step = step, !.user = u, !.active = active]
<1>1. step \in {"count", "update"}
  OBVIOUS
<1>2. Continue(r, task)
  BY DEF StatusRead
<1> HIDE DEF step
<1>3. task \in Request /\ task.step # "session"
  BY <1>1 DEF IdleRequest, Request
<1> HIDE DEF task
<1>4. requests' \in [AccountRequests -> Request] /\ LoginsCurrent'
  BY <1>2, <1>3, OtherTask DEF StatusRead, tables
<1> QED
  BY <1>4 DEF StatusRead, AInv, AccountsTypeOK, SessionsFollowPassword, tables

LEMMA StatusCountOK ==
  ASSUME AInv, NEW r \in AccountRequests, StatusCount(r)
  PROVE  AInv'
<1>1. requests[r] \in Request
  BY DEF AInv, AccountsTypeOK
<1>2. [requests[r] EXCEPT !.step = "update"] \in Request
  BY <1>1 DEF Request
<1>3. [requests[r] EXCEPT !.step = "update"].step # "session"
  BY <1>1 DEF Request
<1>4. IdleRequest \in Request /\ IdleRequest.step # "session"
  BY IdleIsRequest DEF IdleRequest
<1>5. PICK task \in Request : task.step # "session" /\ Continue(r, task)
  BY <1>2, <1>3, <1>4 DEF StatusCount, Finish
<1>6. requests' \in [AccountRequests -> Request] /\ LoginsCurrent'
  BY <1>5, OtherTask DEF StatusCount, tables
<1> QED
  BY <1>6 DEF StatusCount, AInv, AccountsTypeOK, SessionsFollowPassword, tables

LEMMA StatusUpdateOK ==
  ASSUME AInv, NEW r \in AccountRequests, StatusUpdate(r)
  PROVE  AInv'
<1>1. requests[r] \in Request /\ requests[r].active \in BOOLEAN
  BY DEF AInv, AccountsTypeOK, Request
<1>2. users' = [users EXCEPT ![requests[r].user].active = requests[r].active]
  BY DEF StatusUpdate
<1>3. /\ DOMAIN users' = DOMAIN users
      /\ \A u \in DOMAIN users : users'[u].hash = users[u].hash
  BY <1>2 DEF AInv, AccountsTypeOK, User
<1>4. users' \in [DOMAIN users' -> User]
  <2>1. ASSUME NEW u \in DOMAIN users PROVE users'[u] \in User
    <3>1. users[u] \in User
      BY DEF AInv, AccountsTypeOK
    <3>2. CASE u # requests[r].user
      BY <1>2, <3>1, <3>2
    <3>3. CASE u = requests[r].user
      <4>1. users'[u] = [users[u] EXCEPT !.active = requests[r].active]
        BY <1>2, <3>3
      <4>2. users'[u] = [active |-> requests[r].active, hash |-> users[u].hash]
        BY <3>1, <4>1 DEF User
      <4>3. users[u].hash \in Nat
        BY <3>1 DEF User
      <4> QED
        BY <1>1, <4>2, <4>3 DEF User
    <3> QED
      BY <3>2, <3>3
  <2>2. users' = [u \in DOMAIN users |-> users'[u]]
    BY <1>2
  <2> QED
    BY <1>3, <2>1, <2>2
<1>5. sessions' \subseteq sessions
  BY DEF StatusUpdate
<1>6. IdleRequest \in Request /\ IdleRequest.step # "session"
  BY IdleIsRequest DEF IdleRequest
<1>7. Continue(r, IdleRequest) /\ UNCHANGED <<issued, hashes, clock, loop>>
  BY DEF StatusUpdate, Finish
<1>8. requests' \in [AccountRequests -> Request] /\ LoginsCurrent'
  BY <1>3, <1>6, <1>7, OtherTask
<1>9. AccountsTypeOK'
  BY <1>3, <1>4, <1>5, <1>7, <1>8 DEF AInv, AccountsTypeOK
<1>10. SessionsFollowPassword'
  BY <1>3, <1>5 DEF AInv, AccountsTypeOK, SessionsFollowPassword
<1> QED
  BY <1>8, <1>9, <1>10 DEF AInv

LEMMA AccountsNextOK ==
  ASSUME AInv, AccountsNext
  PROVE  AInv'
<1>1. CASE AccountsTick
  BY <1>1 DEF AccountsTick, AInv, AccountsTypeOK, SessionsFollowPassword, LoginsCurrent, tables
<1> QED
  BY <1>1, AddUserOK, LoginAuthenticateOK, LoginSessionOK, LogoutOK, ResetPasswordOK,
     StatusReadOK, StatusCountOK, StatusUpdateOK DEF AccountsNext

LEMMA AccountsRest ==
  ASSUME AInv, UNCHANGED accountVars
  PROVE  AInv'
BY DEF AInv, AccountsTypeOK, SessionsFollowPassword, LoginsCurrent, accountVars, tables

(***************************************************************************)
(* Backups.                                                                *)
(***************************************************************************)

(* Database rows that may be restored: typed, and without sessions. *)
RowsOK(rows) ==
  /\ DOMAIN rows.users \subseteq Users
  /\ rows.users \in [DOMAIN rows.users -> User]
  /\ rows.sessions = {} /\ rows.exercises \subseteq Exercises

WholeIn(rows, where) == \A e \in rows.exercises : where[e] = "whole"

StoppedOK ==
  ~running => /\ loop = Nobody /\ creating = Nothing
              /\ \A r \in AccountRequests : requests[r] = IdleRequest

SnapshotOK ==
  snapshot # Nothing => RowsOK(snapshot) /\ (~torn => WholeIn(snapshot, packages))

ArchiveOK ==
  archive # Nothing =>
    /\ RowsOK(archive.rows) /\ archive.packages \in Packages /\ archive.torn \in BOOLEAN
    /\ ~archive.torn => WholeIn(archive.rows, archive.packages)

(* What a restore has done when it is about to do the next thing. *)
RestoreOK ==
  /\ restore # "idle" => ~running /\ archive # Nothing /\ snapshot = Nothing
  /\ restore \in {"stage", "clear", "move"} =>
       users = archive.rows.users /\ exercises = archive.rows.exercises
  /\ restore \in {"clear", "move"} => staged = archive.packages \/ archive.packages = Empty
  /\ restore = "move" => packages = Empty

FilesTypeOK ==
  /\ exercises \subseteq Exercises /\ packages \in Packages
  /\ staged \in Packages \cup {Nothing}
  /\ creating = Nothing \/ creating \in Exercises
  /\ restore \in {"idle", "database", "stage", "clear", "move"}
  /\ running \in BOOLEAN /\ torn \in BOOLEAN /\ stops \in Nat
  /\ running => restore = "idle"

BInv ==
  /\ AInv /\ FilesTypeOK /\ StoppedOK /\ SnapshotOK /\ ArchiveOK /\ RestoreOK
  /\ ExercisesHavePackages

LEMMA BackupsInitOK == BackupsInit => BInv
<1> SUFFICES ASSUME BackupsInit PROVE BInv
  OBVIOUS
<1>1. AInv
  BY AccountsInitOK DEF BackupsInit
<1>2. FilesTypeOK
  BY DEF BackupsInit, FilesTypeOK, Packages, Empty, Contents
<1> QED
  BY <1>1, <1>2 DEF BackupsInit, BInv, StoppedOK, SnapshotOK, ArchiveOK, RestoreOK,
                    ExercisesHavePackages

(* Accounts do not touch the files, and files do not touch the accounts. *)
LEMMA AccountWorkOK ==
  ASSUME BInv, AccountWork
  PROVE  BInv'
<1>1. AInv'
  BY AccountsNextOK DEF BInv, AccountWork
<1> QED
  BY <1>1 DEF BInv, AccountWork, files, FilesTypeOK, StoppedOK, SnapshotOK, ArchiveOK,
              RestoreOK, ExercisesHavePackages, WholeIn, RowsOK

LEMMA CreatePackageOK ==
  ASSUME BInv, NEW e \in Exercises, CreatePackage(e)
  PROVE  BInv'
<1>1. AInv'
  BY AccountsRest DEF BInv, CreatePackage
<1>2. \A d \in Exercises : packages[d] = "whole" => packages'[d] = "whole"
  BY DEF BInv, CreatePackage, FilesTypeOK, Packages, Contents
<1>3. FilesTypeOK'
  BY DEF BInv, CreatePackage, FilesTypeOK, Packages, Contents
<1>4. SnapshotOK'
  BY <1>2 DEF BInv, CreatePackage, SnapshotOK, WholeIn, RowsOK
<1> QED
  BY <1>1, <1>2, <1>3, <1>4 DEF BInv, CreatePackage, Working, FilesTypeOK, StoppedOK, ArchiveOK,
                    RestoreOK, ExercisesHavePackages, WholeIn, RowsOK, accountVars, tables

LEMMA CompletePackageOK ==
  ASSUME BInv, NEW e \in Exercises, CompletePackage(e)
  PROVE  BInv'
<1>1. AInv'
  BY AccountsRest DEF BInv, CompletePackage
<1>2. \A d \in Exercises : packages[d] = "whole" => packages'[d] = "whole"
  BY DEF BInv, CompletePackage, FilesTypeOK, Packages, Contents
<1>3. FilesTypeOK'
  BY DEF BInv, CompletePackage, FilesTypeOK, Packages, Contents
<1>4. SnapshotOK'
  BY <1>2 DEF BInv, CompletePackage, SnapshotOK, WholeIn, RowsOK
<1> QED
  BY <1>1, <1>2, <1>3, <1>4, BackupsAssumption
     DEF BInv, CompletePackage, FilesTypeOK, StoppedOK, ArchiveOK,
         RestoreOK, ExercisesHavePackages, WholeIn, RowsOK, accountVars, tables

LEMMA CreateRowOK ==
  ASSUME BInv, NEW e \in Exercises, CreateRow(e)
  PROVE  BInv'
<1>1. AInv'
  BY AccountsRest DEF BInv, CreateRow
<1>2. running /\ restore = "idle"
  BY BackupsAssumption DEF BInv, CreateRow, StoppedOK, FilesTypeOK
<1> QED
  BY <1>1, <1>2
     DEF BInv, CreateRow, files, FilesTypeOK, StoppedOK, SnapshotOK, ArchiveOK,
         RestoreOK, ExercisesHavePackages, WholeIn, RowsOK, accountVars, tables

LEMMA BackupDatabaseOK ==
  ASSUME BInv, BackupDatabase
  PROVE  BInv'
<1>1. AInv'
  BY AccountsRest DEF BInv, BackupDatabase
<1>2. /\ snapshot'.users = users /\ snapshot'.sessions = {}
      /\ snapshot'.exercises = exercises
  BY DEF BackupDatabase
<1>3. RowsOK(snapshot') /\ (~torn => WholeIn(snapshot', packages))
  BY <1>2 DEF BInv, AInv, AccountsTypeOK, FilesTypeOK, ExercisesHavePackages, BackupDatabase,
              RowsOK, WholeIn
<1>4. FilesTypeOK' /\ StoppedOK' /\ RestoreOK' /\ ExercisesHavePackages'
  BY DEF BInv, BackupDatabase, files, FilesTypeOK, StoppedOK, RestoreOK,
         ExercisesHavePackages, accountVars, tables
<1>5. ArchiveOK'
  BY DEF BInv, BackupDatabase, ArchiveOK, RowsOK, WholeIn
<1>6. SnapshotOK'
  BY <1>3 DEF BackupDatabase, SnapshotOK, RowsOK, WholeIn, files
<1> QED
  BY <1>1, <1>4, <1>5, <1>6 DEF BInv

LEMMA BackupFilesOK ==
  ASSUME BInv, BackupFiles
  PROVE  BInv'
<1>1. AInv'
  BY AccountsRest DEF BInv, BackupFiles
<1>2. archive'.rows = snapshot /\ archive'.packages = packages /\ archive'.torn = torn
  BY DEF BackupFiles
<1>3. RowsOK(snapshot) /\ (~torn => WholeIn(snapshot, packages))
  BY DEF BInv, BackupFiles, SnapshotOK
<1>4. ArchiveOK'
  BY <1>2, <1>3 DEF BInv, FilesTypeOK, ArchiveOK, RowsOK, WholeIn
<1>5. FilesTypeOK' /\ StoppedOK' /\ RestoreOK' /\ ExercisesHavePackages' /\ SnapshotOK'
  BY DEF BInv, BackupFiles, files, FilesTypeOK, StoppedOK, RestoreOK, SnapshotOK,
         ExercisesHavePackages, accountVars, tables
<1> QED
  BY <1>1, <1>4, <1>5 DEF BInv

LEMMA StopApplicationOK ==
  ASSUME BInv, StopApplication
  PROVE  BInv'
<1>1. \A r \in AccountRequests : requests'[r] = IdleRequest
  BY DEF StopApplication, RequestsLost
<1>2. requests' \in [AccountRequests -> Request]
  BY IdleIsRequest DEF StopApplication, RequestsLost
<1>3. AInv'
  <2>1. AccountsTypeOK'
    BY <1>2 DEF BInv, AInv, AccountsTypeOK, StopApplication, RequestsLost, tables
  <2>2. SessionsFollowPassword'
    BY DEF BInv, AInv, SessionsFollowPassword, StopApplication, tables
  <2>3. \A r \in AccountRequests : requests'[r].step # "session"
    BY <1>1, IdleIsIdle
  <2>4. LoginsCurrent'
    BY <2>3 DEF LoginsCurrent
  <2> QED
    BY <2>1, <2>2, <2>4 DEF AInv
<1>4. loop' = Nobody /\ creating' = Nothing
  BY DEF StopApplication, RequestsLost
<1>5. StoppedOK'
  BY <1>1, <1>4 DEF StoppedOK
<1>6. FilesTypeOK'
  <2>1. stops' \in Nat
    BY DEF BInv, StopApplication, FilesTypeOK
  <2>2. /\ exercises' = exercises /\ packages' = packages /\ staged' = staged
        /\ restore' = restore /\ torn' = torn /\ running' = FALSE
    BY DEF StopApplication, files
  <2> QED
    BY <1>4, <2>1, <2>2 DEF BInv, FilesTypeOK
<1>7. restore = "idle" /\ restore' = "idle" /\ snapshot' = Nothing
  BY DEF BInv, StopApplication, FilesTypeOK
<1>8. RestoreOK' /\ SnapshotOK'
  BY <1>7 DEF RestoreOK, SnapshotOK
<1>9. ArchiveOK' /\ ExercisesHavePackages'
  BY DEF BInv, StopApplication, files, ArchiveOK, RowsOK, WholeIn, ExercisesHavePackages
<1> QED
  BY <1>3, <1>5, <1>6, <1>8, <1>9 DEF BInv

LEMMA StartApplicationOK ==
  ASSUME BInv, StartApplication
  PROVE  BInv'
<1>1. AInv'
  BY AccountsRest DEF BInv, StartApplication
<1> QED
  BY <1>1 DEF BInv, StartApplication, files, FilesTypeOK, StoppedOK, SnapshotOK, ArchiveOK,
              RestoreOK, ExercisesHavePackages, WholeIn, RowsOK, accountVars, tables

LEMMA RestoreBeginOK ==
  ASSUME BInv, RestoreBegin
  PROVE  BInv'
<1>1. AInv'
  BY AccountsRest DEF BInv, RestoreBegin
<1> QED
  BY <1>1 DEF BInv, RestoreBegin, files, FilesTypeOK, StoppedOK, SnapshotOK, ArchiveOK,
              RestoreOK, ExercisesHavePackages, WholeIn, RowsOK, accountVars, tables

LEMMA RestoreDatabaseOK ==
  ASSUME BInv, RestoreDatabase
  PROVE  BInv'
<1>1. RowsOK(archive.rows)
  BY DEF BInv, RestoreDatabase, RestoreOK, ArchiveOK
<1>2. /\ users' = archive.rows.users /\ sessions' = {}
      /\ exercises' = archive.rows.exercises
  BY <1>1 DEF RestoreDatabase, RowsOK
<1>3. \A r \in AccountRequests : requests'[r] = IdleRequest
  BY DEF BInv, RestoreDatabase, RestoreOK, StoppedOK
<1>4. AInv'
  <2>1. AccountsTypeOK'
    BY <1>1, <1>2 DEF BInv, AInv, AccountsTypeOK, RestoreDatabase, RowsOK
  <2>2. SessionsFollowPassword'
    BY <1>2 DEF SessionsFollowPassword
  <2>3. \A r \in AccountRequests : requests'[r].step # "session"
    BY <1>3, IdleIsIdle
  <2>4. LoginsCurrent'
    BY <2>3 DEF LoginsCurrent
  <2> QED
    BY <2>1, <2>2, <2>4 DEF AInv
<1>5. FilesTypeOK'
  BY <1>1, <1>2 DEF BInv, RestoreDatabase, FilesTypeOK, RowsOK, RestoreOK, files
<1>6. StoppedOK' /\ RestoreOK' /\ ExercisesHavePackages'
  BY <1>2 DEF BInv, RestoreDatabase, StoppedOK, RestoreOK, ExercisesHavePackages, files
<1>7. SnapshotOK' /\ ArchiveOK'
  BY DEF BInv, RestoreDatabase, SnapshotOK, ArchiveOK, RowsOK, WholeIn, files
<1> QED
  BY <1>4, <1>5, <1>6, <1>7 DEF BInv

LEMMA RestoreStageOK ==
  ASSUME BInv, RestoreStage
  PROVE  BInv'
<1>1. AInv'
  BY AccountsRest DEF BInv, RestoreStage
<1> QED
  BY <1>1 DEF BInv, RestoreStage, FilesTypeOK, StoppedOK, SnapshotOK, ArchiveOK,
              RestoreOK, ExercisesHavePackages, WholeIn, RowsOK, accountVars, tables

LEMMA RestoreClearOK ==
  ASSUME BInv, RestoreClear
  PROVE  BInv'
<1>1. AInv'
  BY AccountsRest DEF BInv, RestoreClear
<1>2. packages' \in Packages
  BY DEF BInv, RestoreClear, FilesTypeOK, Packages, Contents
<1>3. restore' \in {"clear", "move"} /\ snapshot' = Nothing
  BY DEF BInv, RestoreClear, RestoreOK
<1> QED
  BY <1>1, <1>2, <1>3
     DEF BInv, RestoreClear, FilesTypeOK, StoppedOK, SnapshotOK, ArchiveOK,
         RestoreOK, ExercisesHavePackages, WholeIn, RowsOK, accountVars, tables

LEMMA RestoreMoveOK ==
  ASSUME BInv, RestoreMove
  PROVE  BInv'
<1>1. AInv'
  BY AccountsRest DEF BInv, RestoreMove
<1>2. /\ packages' = archive.packages /\ exercises' = archive.rows.exercises
      /\ torn' = archive.torn /\ archive # Nothing /\ snapshot' = Nothing
  BY DEF BInv, RestoreMove, RestoreOK, files
<1>3. ExercisesHavePackages'
  BY <1>2 DEF BInv, ArchiveOK, WholeIn, ExercisesHavePackages
<1>4. FilesTypeOK'
  <2>1. staged' \in {staged, Nothing}
    BY DEF RestoreMove, files
  <2>2. torn' \in BOOLEAN /\ packages' \in Packages
    BY <1>2 DEF BInv, ArchiveOK
  <2> QED
    BY <2>1, <2>2 DEF BInv, RestoreMove, FilesTypeOK
<1>5. StoppedOK' /\ RestoreOK' /\ SnapshotOK' /\ ArchiveOK'
  BY <1>2 DEF BInv, RestoreMove, StoppedOK, RestoreOK, SnapshotOK, ArchiveOK, RowsOK, WholeIn,
              accountVars, tables
<1> QED
  BY <1>1, <1>3, <1>4, <1>5 DEF BInv

LEMMA RestoreCutOK ==
  ASSUME BInv, RestoreCut
  PROVE  BInv'
<1>1. AInv'
  BY AccountsRest DEF BInv, RestoreCut
<1>2. staged' \in Packages \cup {Nothing}
  BY DEF BInv, RestoreCut, FilesTypeOK, Packages, Contents
<1> QED
  BY <1>1, <1>2
     DEF BInv, RestoreCut, FilesTypeOK, StoppedOK, SnapshotOK, ArchiveOK,
         RestoreOK, ExercisesHavePackages, WholeIn, RowsOK, accountVars, tables

LEMMA BackupsNextOK ==
  ASSUME BInv, [BackupsNext]_backupVars
  PROVE  BInv'
<1>1. CASE UNCHANGED backupVars
  <2>1. AInv'
    BY <1>1, AccountsRest DEF BInv, backupVars
  <2> QED
    BY <1>1, <2>1 DEF BInv, backupVars, files, FilesTypeOK, StoppedOK, SnapshotOK, ArchiveOK,
         RestoreOK, ExercisesHavePackages, WholeIn, RowsOK, accountVars, tables
<1>2. CASE BackupsNext
  BY <1>2, AccountWorkOK, CreatePackageOK, CompletePackageOK, CreateRowOK, BackupDatabaseOK,
     BackupFilesOK, StopApplicationOK, StartApplicationOK, RestoreBeginOK, RestoreDatabaseOK,
     RestoreStageOK, RestoreClearOK, RestoreMoveOK, RestoreCutOK DEF BackupsNext
<1> QED
  BY <1>1, <1>2

(* The inductive invariant of the accounts, the exercises and the backups. *)
THEOREM BackupsInvariant == BackupsSpec => []BInv
BY BackupsInitOK, BackupsNextOK, PTL DEF BackupsSpec

(* Rows, requests, packages and archives keep the shape the code gives.    *)
THEOREM BackupsTypeCorrect == BackupsSpec => []BackupsTypeOK
<1>1. BInv => BackupsTypeOK
  BY DEF BInv, AInv, FilesTypeOK, BackupsTypeOK
<1> QED
  BY <1>1, BackupsInvariant, PTL

(* A reset password has ended every session opened with the old one        *)
(* (update_password against authenticate and create_session).              *)
THEOREM PasswordResetsEndSessions == BackupsSpec => []SessionsFollowPassword
<1>1. BInv => SessionsFollowPassword
  BY DEF BInv, AInv
<1> QED
  BY <1>1, BackupsInvariant, PTL

(* An exercise of the database has its whole package, unless a restore is  *)
(* under way or was cut short (create_exercise, build_backup_archive,      *)
(* restore_backup).                                                        *)
THEOREM PackagesStayWithExercises == BackupsSpec => []ExercisesHavePackages
<1>1. BInv => ExercisesHavePackages
  BY DEF BInv
<1> QED
  BY <1>1, BackupsInvariant, PTL

(* A finished restore leaves the archive's packages, users and exercises,  *)
(* and nothing else (restore_backup).                                      *)
THEOREM FinishedRestoresAreExact == BackupsSpec => RestoresAreExact
<1> DEFINE Exact ==
      restore = "move" /\ restore' = "idle" /\ (packages' # packages \/ ~torn') =>
        /\ packages' = archive.packages
        /\ exercises' = archive.rows.exercises /\ users' = archive.rows.users
<1>1. ASSUME BInv, [BackupsNext]_backupVars PROVE Exact
  <2>1. ASSUME restore = "move" PROVE ~running /\ creating = Nothing
    BY <2>1, <1>1 DEF BInv, RestoreOK, StoppedOK
  <2>2. CASE RestoreMove
    BY <2>2, <1>1 DEF BInv, RestoreOK, RestoreMove, files, accountVars, tables
  <2>3. CASE AccountWork
    BY <2>3, <2>1 DEF AccountWork
  <2>4. CASE \E e \in Exercises : CreatePackage(e) \/ CompletePackage(e) \/ CreateRow(e)
    BY <2>4, <2>1, BackupsAssumption DEF CreatePackage, CompletePackage, CreateRow, Working
  <2>5. CASE BackupDatabase \/ BackupFiles \/ StopApplication \/ StartApplication
              \/ RestoreBegin \/ RestoreDatabase \/ RestoreStage \/ RestoreCut
    BY <2>5 DEF BackupDatabase, BackupFiles, StopApplication, StartApplication,
                RestoreBegin, RestoreDatabase, RestoreStage, RestoreCut, files
  <2>6. CASE RestoreClear
    BY <2>6 DEF RestoreClear
  <2>7. CASE UNCHANGED backupVars
    BY <2>7 DEF backupVars, files
  <2> QED
    BY <1>1, <2>2, <2>3, <2>4, <2>5, <2>6, <2>7 DEF BackupsNext
<1>2. BInv /\ [BackupsNext]_backupVars => [Exact]_backupVars
  BY <1>1
<1> QED
  BY <1>2, BackupsInvariant, PTL DEF BackupsSpec, RestoresAreExact

(* No login and no restored backup brings an ended session back            *)
(* (create_session, _backup_database, restore_backup).                     *)
THEOREM EndedSessionsNeverReturn == BackupsSpec => EndedSessionsStayEnded
<1> DEFINE Fresh == \A s \in sessions' \ sessions : s.token > issued
<1>1. ASSUME BInv, [BackupsNext]_backupVars PROVE Fresh
  <2>1. CASE AccountWork
    <3>1. AccountsNext /\ AInv
      BY <2>1, <1>1 DEF AccountWork, BInv
    <3>2. ASSUME NEW r \in AccountRequests, LoginSession(r) PROVE Fresh
      <4>1. issued \in Nat /\ issued' = issued + 1
        BY <3>1, <3>2 DEF AInv, AccountsTypeOK, LoginSession
      <4>2. \A s \in sessions' \ sessions : s.token = issued'
        BY <3>2 DEF LoginSession
      <4> QED
        BY <4>1, <4>2
    <3>3. ASSUME NEW u \in Users, AddUser(u) \/ ResetPassword(u) PROVE Fresh
      BY <3>3 DEF AddUser, ResetPassword
    <3>4. ASSUME NEW r \in AccountRequests, NEW u \in Users, LoginAuthenticate(r, u)
          PROVE  Fresh
      BY <3>4 DEF LoginAuthenticate, tables
    <3>5. ASSUME NEW r \in AccountRequests, NEW u \in Users, NEW active \in BOOLEAN,
                 StatusRead(r, u, active)
          PROVE  Fresh
      BY <3>5 DEF StatusRead, tables
    <3>6. ASSUME NEW r \in AccountRequests, StatusCount(r) \/ StatusUpdate(r) PROVE Fresh
      BY <3>6 DEF StatusCount, StatusUpdate, tables
    <3>7. ASSUME NEW s \in sessions, Logout(s) PROVE Fresh
      BY <3>7 DEF Logout
    <3>8. CASE AccountsTick
      BY <3>8 DEF AccountsTick, tables
    <3> QED
      BY <3>1, <3>2, <3>3, <3>4, <3>5, <3>6, <3>7, <3>8 DEF AccountsNext
  <2>2. CASE RestoreDatabase
    BY <2>2, <1>1 DEF BInv, RestoreOK, ArchiveOK, RowsOK, RestoreDatabase
  <2>3. CASE UNCHANGED backupVars
    BY <2>3 DEF backupVars, accountVars, tables
  <2>4. CASE \E e \in Exercises : CreatePackage(e) \/ CompletePackage(e) \/ CreateRow(e)
    BY <2>4 DEF CreatePackage, CompletePackage, CreateRow, accountVars, tables
  <2>5. CASE BackupDatabase \/ BackupFiles \/ StopApplication \/ StartApplication
              \/ RestoreBegin \/ RestoreStage \/ RestoreClear \/ RestoreMove \/ RestoreCut
    BY <2>5 DEF BackupDatabase, BackupFiles, StopApplication, StartApplication,
                RestoreBegin, RestoreStage, RestoreClear, RestoreMove, RestoreCut,
                accountVars, tables
  <2> QED
    BY <1>1, <2>1, <2>2, <2>3, <2>4, <2>5 DEF BackupsNext
<1>2. BInv /\ [BackupsNext]_backupVars => [Fresh]_accountVars
  BY <1>1
<1> QED
  BY <1>2, BackupsInvariant, PTL DEF BackupsSpec, EndedSessionsStayEnded

=============================================================================
