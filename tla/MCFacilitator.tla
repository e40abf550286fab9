--------------------------- MODULE MCFacilitator ---------------------------
(***************************************************************************)
(* Small instances of one exercise with a narrative inject and a chaos     *)
(* inject; time in halves of a second.  In a behaviour either two requests *)
(* race about the narrative inject, or one request and the scheduler       *)
(* handle both, and something may fail.                                    *)
(***************************************************************************)
EXTENDS Facilitator

CONSTANTS
  brief, fault,  \* a narrative inject and a chaos inject
  first, second, \* the requests
  Parts          \* the parts a run exercises

MCKinds == [i \in Injects |-> IF i = brief THEN "narrative" ELSE "chaos_script"]

VARIABLE part

MCInit ==
  /\ Init
  /\ part \in Parts
  /\ part = "races" => injects[fault].offset = None

MCNext ==
  /\ Next /\ UNCHANGED part
  /\ part = "races"    => failures' = 0 /\ \A t \in Tasks : tasks'[t].inject # fault
  /\ part = "failures" => tasks'[second] = Idle

MCSpec == MCInit /\ [][MCNext]_<<vars, part>> /\ Fairness

=============================================================================
