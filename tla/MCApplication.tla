--------------------------- MODULE MCApplication ---------------------------
(***************************************************************************)
(* Small instances of the stores of the application.  Accounts under       *)
(* concurrent requests, backups with the accounts they carry, and the      *)
(* evidence archives and the labs share no step that matters to another's  *)
(* properties: a behaviour exercises one of the parts, and the others      *)
(* rest.                                                                   *)
(***************************************************************************)
EXTENDS Backups, Evidence, LabRuntime, TLC

CONSTANTS root, helper,  \* two administrators
          f1, f2,        \* requests to labs from coroutines
          t1, t2,        \* requests to labs from threads
          home,          \* the exercise whose requests are made
          MaxMade,       \* bound: requests to labs
          MaxEvents,     \* bound: these, and times the port changes hands, together
          Parts          \* the parts a run exercises

VARIABLE part

applicationVars == <<backupVars, evidenceVars, labVars, part>>

ApplicationInit ==
  /\ part \in Parts
  /\ BackupsInit /\ EvidenceInit
  /\ LabInit /\ (part # "labs" => holder = NoLab)
  /\ part # "accounts" => DOMAIN users = {root}

AccountsPart ==
  /\ part = "accounts"
  /\ AccountsNext
  /\ UNCHANGED <<exercises, files, creating, snapshot, archive, running, restore,
                 torn, stops, evidenceVars, labVars>>

(* Beside backups, no account is enabled or disabled. *)
BackupsPart ==
  /\ part = "backups"
  /\ BackupsNext
  /\ \A r \in AccountRequests : requests'[r].step \notin {"count", "update"}
  /\ UNCHANGED <<evidenceVars, labVars>>

EvidencePart ==
  /\ part = "evidence"
  /\ EvidenceNext
  /\ UNCHANGED <<backupVars, labVars>>

Made == Cardinality({r \in LabRequests : ~InStep(r, "ready")})

(* The labs are alike: requests are made for one, and the other is what    *)
(* they may meet on the port.  Requests of a kind are alike too: they are  *)
(* made in a fixed order.                                                  *)
LabsPart ==
  /\ part = "labs"
  /\ LabNext
  /\ \A r \in LabRequests : InStep(r, "check")' => tasks'[r].lab = home
  /\ \A r \in {<<f1, f2>>, <<t1, t2>>} : InStep(r[1], "ready")' => InStep(r[2], "ready")'
  /\ Made' <= MaxMade /\ Made' + moves' <= MaxEvents
  /\ UNCHANGED <<backupVars, evidenceVars>>

(* With the bounds used up, and no request under way, the labs rest. *)
LabsRest ==
  /\ part = "labs"
  /\ Made + moves = MaxEvents /\ died = MaxAppDeaths
  /\ \A q \in LabRequests : ~UnderWay(q)
  /\ UNCHANGED <<backupVars, evidenceVars, labVars>>

ApplicationNext ==
  /\ AccountsPart \/ BackupsPart \/ EvidencePart \/ LabsPart \/ LabsRest
  /\ UNCHANGED part

(* Requests, exercises and exports are told apart by name only. *)
Alike ==
  Permutations(AccountRequests) \cup Permutations(Exercises) \cup Permutations(Exports)

ApplicationSpec == ApplicationInit /\ [][ApplicationNext]_applicationVars

=============================================================================
