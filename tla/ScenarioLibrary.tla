-------------------------- MODULE ScenarioLibrary --------------------------
(***************************************************************************)
(* The design library: scenario packs and organization profiles, the       *)
(* exercises that are made from them and the packs that are captured from  *)
(* exercises again (app/services/scenario_library.py, its routes, and what *)
(* app/services/generator.py puts into an exercise).                       *)
(*                                                                         *)
(* Every handler that writes here is a coroutine that does not give up the *)
(* event loop once its form has arrived: the handlers run one after the    *)
(* other.  What they write is several transactions, and the process may    *)
(* die between any two of them; a start seeds the built-in packs first and *)
(* serves requests afterwards.                                             *)
(*                                                                         *)
(* Texts are left out: a design is its number of objectives, its injects   *)
(* and its checkpoints with the objective each is linked to.               *)
(***************************************************************************)
EXTENDS Integers, FiniteSets

CONSTANTS
  Bases,              \* the built-in scenarios that are seeded
  Slugs,              \* slugs that facilitators use, those of Bases among them
  Numbers,            \* versions
  Profiles,           \* slugs and versions of organization profiles
  ProfileObjectives,  \* how many objectives a profile may have
  ImportedDesigns,    \* designs that arrive in a file
  Exercises,          \* exercises that may be made
  Offsets,            \* minutes a facilitator schedules an inject for
  MaxPackInjects,     \* most injects of a pack
  MaxPackCheckpoints, \* most checkpoints of a pack
  MaxPacks,           \* bound: packs
  MaxChanges,         \* bound: changes made to exercises
  MaxLibraryDeaths,   \* bound: deaths of the process
  NoPack, NoProfile, NoExercise

(***************************************************************************)
(* The built-in scenarios.                                                 *)
(***************************************************************************)

(* SCENARIO_LIBRARY: the objectives of each scenario and the chaos actions *)
(* its packs may name.                                                     *)
DefaultObjectives ==
  [ransomware |-> 5, cloud_outage |-> 4, supply_chain |-> 4,
   database_corruption |-> 3, identity_outage |-> 3, dependency_cascade |-> 5]

ChaosModules ==
  [ransomware |-> {"safe_file_impact", "synthetic_edr_alert", "backup_restore_delay"},
   cloud_outage |->
     {"app_degradation", "dns_failure", "payment_failure", "queue_backlog",
      "object_storage_throttle", "third_party_degradation", "telemetry_gap"},
   supply_chain |-> {"dependency_alert", "third_party_degradation", "telemetry_gap"},
   database_corruption |->
     {"data_corruption", "backup_restore_delay", "queue_backlog",
      "object_storage_throttle"},
   identity_outage |-> {"auth_failure", "third_party_degradation", "telemetry_gap"},
   dependency_cascade |->
     {"payment_failure", "queue_backlog", "object_storage_throttle",
      "third_party_degradation", "telemetry_gap"}]

(* The chaos actions that the generator has an inject for. *)
GeneratedActions ==
  [ransomware |-> {"safe_file_impact", "synthetic_edr_alert", "backup_restore_delay"},
   cloud_outage |->
     {"app_degradation", "dns_failure", "payment_failure", "queue_backlog",
      "object_storage_throttle", "third_party_degradation", "telemetry_gap"},
   supply_chain |-> {"dependency_alert", "third_party_degradation", "telemetry_gap"},
   database_corruption |->
     {"data_corruption", "backup_restore_delay", "object_storage_throttle",
      "queue_backlog"},
   identity_outage |-> {"auth_failure", "third_party_degradation", "telemetry_gap"},
   dependency_cascade |->
     {"payment_failure", "queue_backlog", "object_storage_throttle",
      "third_party_degradation", "telemetry_gap"}]

NoOffset    == -1
NoObjective == -1

Portable(type, what, offset, auto) ==
  [type |-> type, what |-> what, offset |-> offset, auto |-> auto]

(* build_inject_options: a brief and a request that deliver themselves, a  *)
(* complaint, the scenario's chaos injects, and a decision.                *)
GeneratedInjects(base) ==
  {Portable("narrative", "brief", 0, TRUE),
   Portable("narrative", "status", 20, TRUE),
   Portable("artifact", "complaint", NoOffset, FALSE),
   Portable("narrative", "decision", NoOffset, FALSE)}
    \cup {Portable("chaos_script", a, NoOffset, FALSE) : a \in GeneratedActions[base]}

(* seed_default_checkpoints *)
DefaultCheckpoints(objectives) ==
  {[title |-> "scope", objective |-> 0],
   [title |-> "decision", objective |-> IF objectives > 1 THEN 1 ELSE 0],
   [title |-> "recovery", objective |-> objectives - 1]}

VARIABLES
  phase,      \* whether the application is starting, serving or has given up
  packs,      \* scenario_packs: what each slug and version holds
  profiles,   \* organization_profiles: how many objectives each has
  exercises,  \* the exercises with their injects and checkpoints
  making,     \* what the exercise being made still lacks
  changes,    \* changes made to exercises so far
  died        \* deaths so far

libraryVars == <<phase, packs, profiles, exercises, making, changes, died>>

ASSUME LibraryAssumption ==
  /\ Bases \subseteq DOMAIN ChaosModules /\ Bases \subseteq Slugs
  /\ 1 \in Numbers /\ ProfileObjectives \subseteq Nat \ {0}
  /\ MaxPackInjects \in Nat /\ MaxPackCheckpoints \in Nat
  /\ NoExercise \notin Exercises

(* A row is what is portable of an inject or a checkpoint and what         *)
(* happened to it.                                                         *)
InjectRow(inject)         == [inject |-> inject, delivered |-> FALSE]
CheckpointRow(checkpoint) == [checkpoint |-> checkpoint, completed |-> FALSE]

PortableInjects(x)     == {row.inject : row \in exercises[x].injects}
PortableCheckpoints(x) == {row.checkpoint : row \in exercises[x].checkpoints}

(* capture_exercise_as_pack *)
DesignOf(x) ==
  [base |-> exercises[x].base, objectives |-> exercises[x].objectives,
   injects |-> PortableInjects(x), checkpoints |-> PortableCheckpoints(x)]

Builtin(base) ==
  [base |-> base, objectives |-> DefaultObjectives[base],
   injects |-> {}, checkpoints |-> {}]

(* Mutant: the action of a chaos inject is not looked up. *)
ValidInjectAnyAction(inject, base) == inject.auto => inject.type = "narrative"

(* _normalize_inject *)
ValidInject(inject, base) ==
  /\ inject.auto => inject.type = "narrative"
  /\ inject.type = "chaos_script" => inject.what \in ChaosModules[base]
  /\ inject.type = "artifact" => inject.what \in {"complaint", "facilitator"}

(* validate_scenario_pack *)
Valid(design) ==
  /\ design.base \in DOMAIN ChaosModules
  /\ Cardinality(design.injects) <= MaxPackInjects
  /\ Cardinality(design.checkpoints) <= MaxPackCheckpoints
  /\ \A inject \in design.injects : ValidInject(inject, design.base)
  /\ \A checkpoint \in design.checkpoints :
       checkpoint.objective # NoObjective =>
         checkpoint.objective \in 0 .. design.objectives - 1

(* _instantiate_inject: a chaos inject takes its script from the generated *)
(* one of the same action.                                                 *)
Available(design) ==
  \A inject \in design.injects :
    inject.type = "chaos_script" => inject.what \in GeneratedActions[design.base]

NotMaking == [exercise |-> NoExercise, injects |-> {}, checkpoints |-> {}]
Busy      == making.exercise # NoExercise

LibraryInit ==
  /\ phase = "starting"
  /\ packs = << >> /\ profiles = << >> /\ exercises = << >>
  /\ making = NotMaking
  /\ changes = 0 /\ died = 0

Add(table, key, row) == [k \in DOMAIN table \cup {key} |-> IF k = key THEN row ELSE table[k]]

(* create_scenario_pack: a version that exists is kept; the same content   *)
(* finds it, other content is refused.                                     *)
Accepts(key, design) ==
  Valid(design) /\ (key \in DOMAIN packs => packs[key].design = design)

Keep(key, design, from) ==
  packs' = IF key \in DOMAIN packs THEN packs
           ELSE Add(packs, key, [design |-> design, from |-> from])

(* From which exercise a pack was captured, and after how many changes. *)
Nowhere == [exercise |-> NoExercise, edition |-> 0]

(***************************************************************************)
(* Starting: seed_builtin_scenario_packs.                                  *)
(***************************************************************************)
Unseeded == {b \in Bases : <<b, 1>> \notin DOMAIN packs}

Seed ==
  /\ phase = "starting" /\ Unseeded # {}
  /\ LET b == CHOOSE b \in Unseeded : TRUE
     IN  Keep(<<b, 1>>, Builtin(b), Nowhere)
  /\ UNCHANGED <<phase, profiles, exercises, making, changes, died>>

(* Mutant: the packs are seeded in the background. *)
SeededEarly == TRUE

Seeded == Unseeded = {}

(* The seeds that were there already are compared as well. *)
Serve ==
  /\ phase = "starting" /\ Seeded
  /\ phase' = IF \A b \in Bases \ Unseeded : Accepts(<<b, 1>>, Builtin(b))
              THEN "serving" ELSE "refused"
  /\ UNCHANGED <<packs, profiles, exercises, making, changes, died>>

LibraryDies ==
  /\ phase # "refused" /\ died < MaxLibraryDeaths
  /\ died' = died + 1
  /\ phase' = "starting" /\ making' = NotMaking
  /\ UNCHANGED <<packs, profiles, exercises, changes>>

(***************************************************************************)
(* Packs and profiles.                                                     *)
(***************************************************************************)
Serving == phase = "serving" /\ ~Busy

Import(key, design) ==
  /\ Serving /\ Accepts(key, design) /\ Cardinality(DOMAIN packs) < MaxPacks
  /\ Keep(key, design, Nowhere)
  /\ UNCHANGED <<phase, profiles, exercises, making, changes, died>>

Capture(x, key) ==
  /\ Serving /\ x \in DOMAIN exercises
  /\ Accepts(key, DesignOf(x)) /\ Cardinality(DOMAIN packs) < MaxPacks
  /\ Keep(key, DesignOf(x), [exercise |-> x, edition |-> exercises[x].edition])
  /\ UNCHANGED <<phase, profiles, exercises, making, changes, died>>

AddProfile(p, objectives) ==
  /\ Serving /\ p \notin DOMAIN profiles
  /\ profiles' = Add(profiles, p, objectives)
  /\ UNCHANGED <<phase, packs, exercises, making, changes, died>>

(***************************************************************************)
(* Making an exercise: its row, its injects, its checkpoints one by one.   *)
(***************************************************************************)

(* save_exercise; what is still to be saved is held in memory. *)
Make(x, base, objectives, pack, profile, injects, checkpoints) ==
  /\ exercises' = Add(exercises, x,
       [base |-> base, objectives |-> objectives, pack |-> pack, profile |-> profile,
        injects |-> {}, checkpoints |-> {}, edition |-> 0, made |-> FALSE])
  /\ making' = [exercise |-> x, injects |-> injects, checkpoints |-> checkpoints]
  /\ UNCHANGED <<phase, packs, profiles, changes, died>>

(* create_exercise, from the form of the scenario *)
CreateExercise(x, base, objectives) ==
  /\ Serving /\ x \notin DOMAIN exercises
  /\ Make(x, base, objectives, NoPack, NoProfile, GeneratedInjects(base),
          DefaultCheckpoints(objectives))

OrElse(set, default) == IF set = {} THEN default ELSE set

(* Mutant: an inject loses its schedule on its way into an exercise. *)
InstantiatedUnscheduled(design) ==
  {Portable(i.type, i.what, NoOffset, FALSE) : i \in design.injects}

Instantiated(design) == design.injects

(* create_exercise_from_pack *)
CreateFromPack(x, key, profile) ==
  /\ Serving /\ x \notin DOMAIN exercises /\ key \in DOMAIN packs
  /\ profile \in DOMAIN profiles \cup {NoProfile}
  /\ Available(packs[key].design)
  /\ LET design     == packs[key].design
         objectives == IF profile = NoProfile THEN design.objectives ELSE profiles[profile]
     IN  Make(x, design.base, objectives, key, profile,
              OrElse(Instantiated(design), GeneratedInjects(design.base)),
              OrElse(design.checkpoints, DefaultCheckpoints(objectives)))

(* save_injects, one transaction *)
SaveInjects ==
  /\ Busy /\ making.injects # {}
  /\ exercises' = [exercises EXCEPT ![making.exercise].injects =
                     {InjectRow(i) : i \in making.injects}]
  /\ making' = [making EXCEPT !.injects = {}]
  /\ UNCHANGED <<phase, packs, profiles, changes, died>>

(* create_checkpoint, for each *)
SaveCheckpoint ==
  /\ Busy /\ making.injects = {} /\ making.checkpoints # {}
  /\ LET c == CHOOSE c \in making.checkpoints : TRUE
     IN  /\ exercises' = [exercises EXCEPT ![making.exercise].checkpoints =
                            @ \cup {CheckpointRow(c)}]
         /\ making' = [making EXCEPT !.checkpoints = @ \ {c}]
  /\ UNCHANGED <<phase, packs, profiles, changes, died>>

FinishMaking ==
  /\ Busy /\ making.injects = {} /\ making.checkpoints = {}
  /\ exercises' = [exercises EXCEPT ![making.exercise].made = TRUE]
  /\ making' = NotMaking
  /\ UNCHANGED <<phase, packs, profiles, changes, died>>

(***************************************************************************)
(* Tailoring and running an exercise.                                      *)
(***************************************************************************)
(* The exercise becomes the given one; its edition counts the changes of   *)
(* its design.                                                             *)
Becomes(x, exercise, tailored) ==
  /\ phase = "serving" /\ changes < MaxChanges
  /\ changes' = changes + 1
  /\ exercises' = [exercises EXCEPT ![x] =
                     [exercise EXCEPT !.edition = IF tailored THEN @ + 1 ELSE @]]
  /\ UNCHANGED <<phase, packs, profiles, making, died>>

CheckpointAdded(x, objective) ==
  /\ ~Busy
  /\ Becomes(x, [exercises[x] EXCEPT !.checkpoints =
       @ \cup {CheckpointRow([title |-> "added", objective |-> objective])}], TRUE)

ArtifactAdded(x) ==
  /\ ~Busy
  /\ Becomes(x, [exercises[x] EXCEPT !.injects =
       @ \cup {InjectRow(Portable("artifact", "facilitator", NoOffset, FALSE))}], TRUE)

Replaced(x, old, new) ==
  [exercises[x] EXCEPT !.injects = (@ \ {old}) \cup {new}]

(* schedule_inject.  What the clock allows is in Facilitator. *)
Schedule(x, row, offset, auto) ==
  /\ ~Busy /\ row.inject.type = "narrative"
  /\ Becomes(x, Replaced(x, row,
       InjectRow([row.inject EXCEPT !.offset = offset, !.auto = auto])), TRUE)

(* clear_schedule runs in a worker thread. *)
ClearSchedule(x, row) ==
  Becomes(x, Replaced(x, row,
    InjectRow([row.inject EXCEPT !.offset = NoOffset, !.auto = FALSE])), TRUE)

(* So may a delivery.  What happened to an inject is no part of a design.  *)
Deliver(x, row) ==
  Becomes(x, Replaced(x, row, [row EXCEPT !.delivered = TRUE]), FALSE)

(* complete_checkpoint, in a worker thread too *)
CheckpointCompleted(x, row) ==
  Becomes(x, [exercises[x] EXCEPT !.checkpoints =
                (@ \ {row}) \cup {[row EXCEPT !.completed = TRUE]}], FALSE)

TailorStep ==
  \E x \in DOMAIN exercises :
    \/ \E o \in NoObjective .. exercises[x].objectives - 1 : CheckpointAdded(x, o)
    \/ ArtifactAdded(x)
    \/ \E row \in {i \in exercises[x].injects : ~i.delivered} :
         \/ \E offset \in Offsets, auto \in BOOLEAN : Schedule(x, row, offset, auto)
         \/ ClearSchedule(x, row)
         \/ Deliver(x, row)
    \/ \E row \in {c \in exercises[x].checkpoints : ~c.completed} :
         CheckpointCompleted(x, row)

LibraryNext ==
  \/ Seed \/ Serve \/ LibraryDies
  \/ \E key \in Slugs \X Numbers :
       \/ \E design \in ImportedDesigns : Import(key, design)
       \/ \E x \in Exercises : Capture(x, key)
       \/ \E x \in Exercises, p \in Profiles \cup {NoProfile} : CreateFromPack(x, key, p)
  \/ \E p \in Profiles, n \in ProfileObjectives : AddProfile(p, n)
  \/ \E x \in Exercises, base \in Bases, n \in ProfileObjectives : CreateExercise(x, base, n)
  \/ SaveInjects \/ SaveCheckpoint \/ FinishMaking
  \/ TailorStep

LibrarySpec == LibraryInit /\ [][LibraryNext]_libraryVars

(***************************************************************************)
(* Properties.                                                             *)
(***************************************************************************)

(* The application always starts again: no pack that was imported or       *)
(* captured ever takes the place of a built-in one, whatever slug and      *)
(* version it asked for and wherever seeding was cut short.  And no pack   *)
(* is accepted whose exercise cannot be generated afterwards: validation   *)
(* and generation look its actions up in two different catalogues.         *)
LibraryUsable ==
  /\ phase # "refused"
  /\ \A key \in DOMAIN packs : Available(packs[key].design)

(* An exercise that was launched without a profile from a captured pack    *)
(* has the design of the exercise the pack was captured from, if neither   *)
(* was changed meanwhile, and the generated injects and the default        *)
(* checkpoints where there were none to capture.                           *)
Recreates(y, x) ==
  /\ exercises[y].objectives = exercises[x].objectives
  /\ PortableInjects(y) = OrElse(PortableInjects(x), GeneratedInjects(exercises[x].base))
  /\ PortableCheckpoints(y) =
       OrElse(PortableCheckpoints(x), DefaultCheckpoints(exercises[x].objectives))

CapturesRecreate ==
  \A y \in DOMAIN exercises :
    /\ exercises[y].made /\ exercises[y].edition = 0
    /\ exercises[y].pack # NoPack /\ exercises[y].profile = NoProfile
    => LET from == packs[exercises[y].pack].from
       IN  /\ from.exercise # NoExercise
           /\ exercises[from.exercise].edition = from.edition
           => Recreates(y, from.exercise)

(* What the documented workflow promises: the design of a made exercise    *)
(* can be captured, whatever it was launched from and however it was       *)
(* tailored.                                                               *)
DesignsCapturable ==
  \A x \in DOMAIN exercises : exercises[x].made => Valid(DesignOf(x))

=============================================================================
