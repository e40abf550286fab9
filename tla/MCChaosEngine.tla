--------------------------- MODULE MCChaosEngine ---------------------------
(***************************************************************************)
(* A small instance of the chaos engine: two stages on two actions.  A     *)
(* behaviour either makes action runs beside one playbook run, or changes  *)
(* the library and starts two playbook runs.  A playbook run has its own   *)
(* copy of its definition: beside action runs the library rests once it    *)
(* was started.  Action runs that no stage asked for are of the action     *)
(* that the first stage runs too.                                          *)
(***************************************************************************)
EXTENDS ChaosEngine

CONSTANTS
  dns, auth,   \* the two actions
  Parts        \* the parts a run exercises

MCActions == {dns, auth}
MCStages  == 1 .. 2

Plan(dependsOn, severity) ==
  [action        |-> [s \in MCStages |-> IF s = 1 THEN dns ELSE auth],
   intensity     |-> [s \in MCStages |-> "medium"],
   duration      |-> [s \in MCStages |-> 1],
   startAfter    |-> [s \in MCStages |-> s - 1],
   dependsOn     |-> dependsOn,
   maxConcurrent |-> 2,
   maxSeverity   |-> severity,
   maxSeconds    |-> 1]

(* The second stage waits for the first; they never run together. *)
Chain == Plan([s \in MCStages |-> IF s = 1 THEN {} ELSE {1}], 4)

(* Independent stages; the severity budget holds one of them at a time. *)
Tight == Plan([s \in MCStages |-> {}], 3)

(* Each stage waits for the other: validation has to refuse it. *)
Cycle == Plan([s \in MCStages |-> {3 - s}], 4)

MCDefinitions == {Chain, Tight, Cycle}

VARIABLE part

MCInit == Init /\ part \in Parts

MCNext ==
  /\ Next /\ UNCHANGED part
  /\ part = "runs" =>
       /\ \A b \in Books : library'[b] \in {Tight, None}
       /\ \A p \in PlaybookRunIds \ {1} : playbookRuns'[p].status = "absent"
       /\ playbookRuns[1].status # "absent" => UNCHANGED library
       /\ \A r \in RunIds : runs'[r].owner = None => runs'[r].action # auth
  /\ part = "library" =>
       /\ \A b \in Books : library'[b] # Tight
       /\ \A r \in RunIds : runs'[r].status = "absent"

MCSpec == MCInit /\ [][MCNext]_<<engineVars, part>>

=============================================================================
