------------------------- MODULE MCChaosController -------------------------
(***************************************************************************)
(* Small instances of the controller: playbooks of two stages.             *)
(***************************************************************************)
EXTENDS ChaosController

CONSTANTS dns, auth   \* the two actions

MCActions == {dns, auth}
MCStages  == 1 .. 2

(* The second stage starts a tick after the playbook and follows the first *)
(* one, on another action.                                                 *)
Chain ==
  [action        |-> [s \in MCStages |-> IF s = 1 THEN dns ELSE auth],
   intensity     |-> [s \in MCStages |-> "medium"],
   duration      |-> [s \in MCStages |-> 1],
   startAfter    |-> [s \in MCStages |-> s - 1],
   dependsOn     |-> [s \in MCStages |-> IF s = 1 THEN {} ELSE {1}],
   maxConcurrent |-> 2,
   maxSeverity   |-> 4,
   maxSeconds    |-> 1]

DefinitionsChain == {Chain}

=============================================================================
