------------------------------ MODULE MCDesign ------------------------------
(***************************************************************************)
(* Small instances of the schema of the database, of the design library,   *)
(* of what is done to one exercise, and of the run history of its chaos    *)
(* engine.  They share no step: a behaviour exercises one of the parts,    *)
(* and the others rest.                                                    *)
(***************************************************************************)
EXTENDS Persistence, ScenarioLibrary, Operations, RunHistory, TLC

CONSTANT Topics  \* the parts a run exercises

VARIABLE topic

designVars == <<persistenceVars, libraryVars, operationVars, historyVars, topic>>

(* Two actions of a lab. *)
TwoActions == <<"auth_failure", "dns_failure">>

(* Designs that arrive in a file: of either built-in scenario, with an     *)
(* action of one of them or without, and with a checkpoint.                *)
Arriving ==
  {[base |-> base, objectives |-> 2, injects |-> injects,
    checkpoints |-> {[title |-> "added", objective |-> 1]}] :
     base \in {"ransomware", "supply_chain"},
     injects \in {{}, {Portable("chaos_script", "safe_file_impact", NoOffset, FALSE)}}}

DesignInit ==
  /\ topic \in Topics
  /\ PersistenceInit /\ (topic # "schema" => database = Nothing)
  /\ LibraryInit
  /\ OperationsInit
  /\ HistoryInit
  /\ topic # "exercise" => Copies(Event("exercise_created", "exercise"), log) = 1

SchemaPart ==
  /\ topic = "schema"
  /\ PersistenceNext
  /\ UNCHANGED <<libraryVars, operationVars, historyVars>>

LibraryPart ==
  /\ topic = "library"
  /\ LibraryNext
  /\ UNCHANGED <<persistenceVars, operationVars, historyVars>>

ExercisePart ==
  /\ topic = "exercise"
  /\ OperationsNext
  /\ UNCHANGED <<persistenceVars, libraryVars, historyVars>>

HistoryPart ==
  /\ topic = "history"
  /\ HistoryNext
  /\ UNCHANGED <<persistenceVars, libraryVars, operationVars>>

DesignNext ==
  /\ SchemaPart \/ LibraryPart \/ ExercisePart \/ HistoryPart
  /\ UNCHANGED topic

(* Processes, requests and exercises are told apart by name only. *)
AlikeDesigns ==
  Permutations(Processes) \cup Permutations(OperationRequests)
    \cup Permutations(Exercises)

DesignSpec == DesignInit /\ [][DesignNext]_designVars

=============================================================================
