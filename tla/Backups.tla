------------------------------ MODULE Backups ------------------------------
(***************************************************************************)
(* Creating exercises, backing the application up while it runs, and       *)
(* restoring a backup while it is stopped (app/services/backups.py, the    *)
(* handler create_exercise of app/main.py, the start-up and the end of the *)
(* application).  The database holds the accounts, the sessions and the    *)
(* exercises; the package of an exercise is a directory beside it.         *)
(* A restore replaces the two one after the other and may be cut short     *)
(* anywhere; it may then be run again.                                     *)
(*                                                                         *)
(* A package is absent, partial while its files are written, or whole; the *)
(* other rows of an exercise are left out, as is a corrupt or foreign      *)
(* archive, which a restore refuses before it writes anything.  Listing a  *)
(* directory is one step, and so is replacing the database file with its   *)
(* write-ahead log.                                                        *)
(***************************************************************************)
EXTENDS Accounts

CONSTANTS
  Exercises,  \* exercises that may be created
  MaxStops,   \* bound: the application stops so often
  Nothing     \* "no archive", "no staged packages"

ASSUME BackupsAssumption == MaxStops \in Nat /\ Nothing \notin Exercises

VARIABLES
  exercises,  \* the exercises table
  packages,   \* the package directory of each exercise
  creating,   \* the exercise whose creation holds the event loop, and its step
  snapshot,   \* the database copy of a backup under way
  archive,    \* the last backup finished
  running,    \* is the application running?
  restore,    \* what the restore command is about to do
  staged,     \* the packages staged beside the directory to replace
  torn,       \* has a restore been cut short, and no whole archive restored since?
  stops       \* how often the application has stopped

files == <<packages, staged>>
backupVars ==
  <<accountVars, exercises, files, creating, snapshot, archive, running, restore,
    torn, stops>>

Contents == {"absent", "partial", "whole"}
Packages == [Exercises -> Contents]
Empty    == [e \in Exercises |-> "absent"]

Working == running /\ loop = Nobody /\ creating = Nothing

BackupsTypeOK ==
  /\ AccountsTypeOK
  /\ exercises \subseteq Exercises /\ packages \in Packages
  /\ staged \in Packages \cup {Nothing}
  /\ creating = Nothing \/ creating \in Exercises
  /\ restore \in {"idle", "database", "stage", "clear", "move"}
  /\ {running, torn} \subseteq BOOLEAN /\ stops \in Nat
  /\ running => restore = "idle"

BackupsInit ==
  /\ AccountsInit
  /\ exercises = {} /\ packages = Empty /\ staged = Nothing /\ creating = Nothing
  /\ snapshot = Nothing /\ archive = Nothing
  /\ running = TRUE /\ restore = "idle" /\ torn = FALSE /\ stops = 0

(***************************************************************************)
(* The application at work.                                                *)
(***************************************************************************)

(* Accounts change only while the application runs, and coroutines of the  *)
(* two kinds exclude each other.                                           *)
AccountWork ==
  /\ running /\ AccountsNext
  /\ creating # Nothing => loop' = loop /\ hashes' = hashes
  /\ UNCHANGED <<exercises, files, creating, snapshot, archive, running, restore,
                 torn, stops>>

(* create_exercise begins to write the package of a new exercise ... *)
CreatePackage(e) ==
  /\ Working /\ e \notin exercises /\ packages[e] = "absent"
  /\ creating' = e
  /\ packages' = [packages EXCEPT ![e] = "partial"]
  /\ UNCHANGED <<accountVars, exercises, staged, snapshot, archive, running, restore,
                 torn, stops>>

(* ... completes it ... *)
CompletePackage(e) ==
  /\ creating = e /\ packages[e] = "partial"
  /\ packages' = [packages EXCEPT ![e] = "whole"]
  /\ UNCHANGED <<accountVars, exercises, staged, creating, snapshot, archive, running,
                 restore, torn, stops>>

(* Mutant: the row is written before the package is complete. *)
CreateRowEarly(e) ==
  /\ creating = e /\ e \notin exercises
  /\ exercises' = exercises \cup {e}
  /\ creating' = IF packages[e] = "whole" THEN Nothing ELSE e
  /\ UNCHANGED <<accountVars, files, snapshot, archive, running, restore, torn, stops>>

(* ... and only then inserts its row. *)
CreateRow(e) ==
  /\ creating = e /\ packages[e] = "whole"
  /\ exercises' = exercises \cup {e}
  /\ creating' = Nothing
  /\ UNCHANGED <<accountVars, files, snapshot, archive, running, restore, torn, stops>>

(***************************************************************************)
(* A backup: the database first, then the files.                           *)
(***************************************************************************)

(* Mutant: the sessions stay in the copy. *)
BackupDatabaseWithSessions ==
  /\ restore = "idle"
  /\ snapshot' = [users |-> users, sessions |-> sessions, exercises |-> exercises]
  /\ UNCHANGED <<accountVars, exercises, files, creating, archive, running, restore,
                 torn, stops>>

(* _backup_database: the copy of the database loses its sessions. *)
BackupDatabase ==
  /\ restore = "idle"
  /\ snapshot' = [users |-> users, sessions |-> {}, exercises |-> exercises]
  /\ UNCHANGED <<accountVars, exercises, files, creating, archive, running, restore,
                 torn, stops>>

(* The files there are when the directory is listed go into the archive. *)
BackupFiles ==
  /\ snapshot # Nothing /\ restore = "idle"
  /\ archive' = [rows |-> snapshot, packages |-> packages, torn |-> torn]
  /\ snapshot' = Nothing
  /\ UNCHANGED <<accountVars, exercises, files, creating, running, restore, torn, stops>>

(***************************************************************************)
(* Stopping and starting, with or without a restore in between.            *)
(***************************************************************************)

(* The application stops or dies; requests and a backup under way are lost. *)
StopApplication ==
  /\ running /\ stops < MaxStops
  /\ running' = FALSE /\ stops' = stops + 1
  /\ RequestsLost /\ creating' = Nothing /\ snapshot' = Nothing
  /\ UNCHANGED <<tables, issued, hashes, clock, exercises, files, archive, restore, torn>>

StartApplication ==
  /\ ~running /\ restore = "idle"
  /\ running' = TRUE
  /\ UNCHANGED <<accountVars, exercises, files, creating, snapshot, archive, restore,
                 torn, stops>>

(* restore_backup has found the archive good *)
RestoreBegin ==
  /\ ~running /\ restore = "idle" /\ archive # Nothing
  /\ restore' = "database" /\ snapshot' = Nothing
  /\ UNCHANGED <<accountVars, exercises, files, creating, archive, running, torn, stops>>

(* The database file is replaced, and its write-ahead log removed. *)
RestoreDatabase ==
  /\ restore = "database"
  /\ users' = archive.rows.users /\ sessions' = archive.rows.sessions
  /\ exercises' = archive.rows.exercises
  /\ restore' = "stage"
  /\ UNCHANGED <<issued, hashes, clock, requests, loop, files, creating, snapshot,
                 archive, running, torn, stops>>

(* Mutant: what an earlier restore has staged is kept. *)
RestoreStageOver ==
  /\ restore = "stage"
  /\ staged' = IF staged = Nothing /\ archive.packages # Empty THEN archive.packages
               ELSE staged
  /\ restore' = "clear"
  /\ UNCHANGED <<accountVars, exercises, packages, creating, snapshot, archive, running,
                 torn, stops>>

(* What an earlier restore has staged is removed first.  An archive without *)
(* packages stages nothing.                                                *)
RestoreStage ==
  /\ restore = "stage"
  /\ staged' = IF archive.packages = Empty THEN staged ELSE archive.packages
  /\ restore' = "clear"
  /\ UNCHANGED <<accountVars, exercises, packages, creating, snapshot, archive, running,
                 torn, stops>>

(* rmtree of the old packages, file after file *)
RestoreClear ==
  /\ restore = "clear"
  /\ \/ \E e \in Exercises, left \in {"absent", "partial"} :
          /\ packages[e] \notin {"absent", left}
          /\ packages' = [packages EXCEPT ![e] = left]
          /\ UNCHANGED restore
     \/ packages = Empty /\ restore' = "move" /\ UNCHANGED packages
  /\ UNCHANGED <<accountVars, exercises, staged, creating, snapshot, archive, running,
                 torn, stops>>

RestoreMove ==
  /\ restore = "move"
  /\ IF archive.packages = Empty THEN UNCHANGED files
     ELSE packages' = staged /\ staged' = Nothing
  /\ restore' = "idle" /\ torn' = archive.torn
  /\ UNCHANGED <<accountVars, exercises, creating, snapshot, archive, running, stops>>

(* The restore is cut short; while it stages, any part may have been. *)
RestoreCut ==
  /\ restore # "idle" /\ restore' = "idle" /\ torn' = TRUE
  /\ \/ UNCHANGED staged
     \/ restore = "stage" /\ archive.packages # Empty
        /\ staged' = [e \in Exercises |-> IF archive.packages[e] = "absent" THEN "absent"
                                          ELSE "partial"]
  /\ UNCHANGED <<accountVars, exercises, packages, creating, snapshot, archive, running,
                 stops>>

BackupsNext ==
  \/ AccountWork
  \/ \E e \in Exercises : CreatePackage(e) \/ CompletePackage(e) \/ CreateRow(e)
  \/ BackupDatabase \/ BackupFiles
  \/ StopApplication \/ StartApplication
  \/ RestoreBegin \/ RestoreDatabase \/ RestoreStage \/ RestoreClear \/ RestoreMove
  \/ RestoreCut

BackupsSpec == BackupsInit /\ [][BackupsNext]_backupVars

(***************************************************************************)
(* Properties.                                                             *)
(***************************************************************************)

(* Every exercise of the database has its whole package, also after a      *)
(* backup taken while exercises were being created has been restored; only *)
(* a restore under way or cut short may leave one without                  *)
(* (create_exercise, build_backup_archive, restore_backup).                *)
ExercisesHavePackages ==
  restore = "idle" /\ ~torn => \A e \in exercises : packages[e] = "whole"

(* A restore that reaches its end leaves exactly what the archive holds,   *)
(* whatever earlier restores have left behind (restore_backup).            *)
RestoresAreExact ==
  [][restore = "move" /\ restore' = "idle" /\ (packages' # packages \/ ~torn') =>
       /\ packages' = archive.packages
       /\ exercises' = archive.rows.exercises /\ users' = archive.rows.users]_backupVars

=============================================================================
