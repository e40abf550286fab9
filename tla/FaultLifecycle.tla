--------------------------- MODULE FaultLifecycle ---------------------------
(***************************************************************************)
(* What the chaos engine promises about faults, without its playbooks, its *)
(* clock or its files: a run is requested, may be applied once, and is     *)
(* over for good; and no fault is ever applied by two runs at a time.      *)
(* ChaosEngine is shown to implement this specification.                   *)
(***************************************************************************)
CONSTANTS
  Runs,    \* runs that may be requested
  Faults,  \* what a run may apply
  NoFault  \* the fault of a run that was not requested

VARIABLES
  phase,  \* where each run is in its life
  fault   \* the fault each run applies

vars == <<phase, fault>>

TypeOK ==
  /\ phase \in [Runs -> {"idle", "requested", "applied", "over"}]
  /\ fault \in [Runs -> Faults \cup {NoFault}]

Init ==
  /\ phase = [r \in Runs |-> "idle"]
  /\ fault = [r \in Runs |-> NoFault]

Request(r, f) ==
  /\ phase[r] = "idle"
  /\ phase' = [phase EXCEPT ![r] = "requested"]
  /\ fault' = [fault EXCEPT ![r] = f]

(* Applying a fault ends the run that applied it before. *)
Apply(r) ==
  /\ phase[r] = "requested"
  /\ phase' = [q \in Runs |->
       CASE q = r                                       -> "applied"
         [] phase[q] = "applied" /\ fault[q] = fault[r] -> "over"
         [] OTHER                                       -> phase[q]]
  /\ UNCHANGED fault

Reject(r) ==
  /\ phase[r] = "requested"
  /\ phase' = [phase EXCEPT ![r] = "over"]
  /\ UNCHANGED fault

(* Any of the applied runs end together: expiry, abort, or a stop of all. *)
End(S) ==
  /\ \A r \in S : phase[r] = "applied"
  /\ phase' = [r \in Runs |-> IF r \in S THEN "over" ELSE phase[r]]
  /\ UNCHANGED fault

Next ==
  \/ \E r \in Runs, f \in Faults : Request(r, f)
  \/ \E r \in Runs : Apply(r) \/ Reject(r)
  \/ \E S \in SUBSET Runs : End(S)

Spec == Init /\ [][Next]_vars

(* No fault is applied by two runs at a time. *)
OneRunPerFault ==
  \A q, r \in Runs :
    phase[q] = "applied" /\ phase[r] = "applied" /\ fault[q] = fault[r] => q = r

=============================================================================
