----------------------------- MODULE Operations -----------------------------
(***************************************************************************)
(* What facilitators do to one exercise while it runs and what is reported *)
(* of it: checkpoints, improvement actions, assessments, artifacts, notes, *)
(* lab operations and the clock (app/main.py over app/models.py), each     *)
(* with the event it leaves in the timeline, and the reports that are read *)
(* from all of these tables (_exercise_evidence, app/services/             *)
(* intelligence.py).                                                       *)
(*                                                                         *)
(* A handler changes its table in one transaction and writes its event in  *)
(* the next; a report reads every table in a transaction of its own.       *)
(* Coroutines keep the event loop from the arrival of their form to their  *)
(* answer; the others run in threads, between any two of these steps.      *)
(* The times of the clock, and what injects do, are in module Facilitator. *)
(***************************************************************************)
EXTENDS Integers, Sequences, FiniteSets, Functions

CONSTANTS
  SeededCheckpoints,  \* checkpoints that the exercise was made with
  Checkpoints,        \* checkpoints that may be added
  Improvements,       \* improvement actions that may be added
  Objectives,         \* the objectives of the exercise
  Injects,            \* its injects
  ChaosInjects,       \* those of them that run a chaos action
  Artifacts,          \* injects that may be added to them
  OperationRequests,  \* requests that may be in flight
  MaxAsked,           \* bound: requests
  MaxChaosRuns,       \* bound: chaos runs that end
  MaxOperationDeaths, \* bound: deaths of the process
  NoRequest

ASSUME OperationsAssumption ==
  /\ ChaosInjects \subseteq Injects
  /\ SeededCheckpoints \cap Checkpoints = {}
  /\ IsFiniteSet(Objectives) /\ Objectives # {}
  /\ IsFiniteSet(Injects) /\ IsFiniteSet(Artifacts)
  /\ MaxAsked \in Nat /\ MaxChaosRuns \in Nat /\ MaxOperationDeaths \in Nat
  /\ IsFiniteSet(OperationRequests) /\ NoRequest \notin OperationRequests

VARIABLES
  status,        \* of the exercise
  checkpoints,   \* the status of each checkpoint there is
  improvements,  \* the status of each improvement action there is
  assessments,   \* the rating of each objective that was assessed
  triggered,     \* of each inject there is, whether it was triggered
  chaosRuns,     \* chaos runs that ended, and those of them that ended safely
  log,           \* run_events, a bag
  lost,          \* events that a death kept from being written
  handlers,      \* where each request is
  busy,          \* the coroutine the event loop is running
  asked,         \* requests so far
  deaths         \* deaths so far

operationVars ==
  <<status, checkpoints, improvements, assessments, triggered, chaosRuns, log,
    lost, handlers, busy, asked, deaths>>

records == <<status, checkpoints, improvements, assessments, triggered>>
rest    == <<chaosRuns, lost, deaths>>

Event(kind, on) == [kind |-> kind, on |-> on]
NoEvent         == Event("none", "none")

(* A request: what it does next, the event it is to write, what it does    *)
(* after that, and what a report has read.                                 *)
Waiting == [step |-> "idle", event |-> NoEvent, after |-> "idle", seen |-> << >>]

OperationsInit ==
  /\ status = "created"
  /\ checkpoints = [c \in SeededCheckpoints |-> "pending"]
  /\ improvements = << >> /\ assessments = << >>
  /\ triggered = [i \in Injects |-> FALSE]
  /\ chaosRuns = [ended |-> 0, safe |-> 0]
  /\ \E kind \in {"exercise_created", "exercise_created_from_pack"} :
       log = [e \in {Event(kind, "exercise")} |-> 1]
  /\ lost = << >>
  /\ handlers = [r \in OperationRequests |-> Waiting]
  /\ busy = NoRequest /\ asked = 0 /\ deaths = 0

Row(table, key, value) == [k \in DOMAIN table \cup {key} |-> IF k = key THEN value ELSE table[k]]

Copies(e, bag)    == IF e \in DOMAIN bag THEN bag[e] ELSE 0
WithEvent(bag, e) == Row(bag, e, Copies(e, bag) + 1)

Now(r, handler) == handlers' = [handlers EXCEPT ![r] = handler]

Arrives(r) == handlers[r].step = "idle" /\ asked < MaxAsked /\ asked' = asked + 1

(* The form of a coroutine is here, and the event loop free. *)
Takes(r) == busy = NoRequest /\ busy' = r

(* The record is written; the event follows. *)
Logs(r, kind, on) ==
  /\ Now(r, [Waiting EXCEPT !.step = "event", !.event = Event(kind, on)])
  /\ UNCHANGED <<log, rest>>

(* add_event, the last thing a handler does but for a launch *)
WriteEvent(r) ==
  /\ handlers[r].step = "event"
  /\ log' = WithEvent(log, handlers[r].event)
  /\ Now(r, [Waiting EXCEPT !.step = handlers[r].after])
  /\ busy' = IF busy = r THEN NoRequest ELSE busy
  /\ UNCHANGED <<records, rest, asked>>

(***************************************************************************)
(* The run of show.                                                        *)
(***************************************************************************)

(* add_exercise_checkpoint looks at the status before its form is there. *)
AskCheckpoint(r) ==
  /\ Arrives(r) /\ busy = NoRequest /\ status # "completed"
  /\ Now(r, [Waiting EXCEPT !.step = "form"])
  /\ UNCHANGED <<records, log, rest, busy>>

CreateCheckpoint(r, c) ==
  /\ handlers[r].step = "form" /\ Takes(r)
  /\ c \notin DOMAIN checkpoints
  /\ checkpoints' = Row(checkpoints, c, "pending")
  /\ Logs(r, "checkpoint_created", c)
  /\ UNCHANGED <<status, improvements, assessments, triggered, asked>>

(* Mutant: a checkpoint is completed whatever its status. *)
CompletableAlways(c) == TRUE

(* WHERE id = ? AND status = 'pending' *)
Completable(c) == checkpoints[c] = "pending"

(* complete_exercise_checkpoint, in a thread; refused, it leaves no event. *)
CompleteCheckpoint(r, c) ==
  /\ Arrives(r) /\ Completable(c)
  /\ checkpoints' = [checkpoints EXCEPT ![c] = "completed"]
  /\ Logs(r, "checkpoint_completed", c)
  /\ UNCHANGED <<status, improvements, assessments, triggered, busy>>

(***************************************************************************)
(* Evaluation.                                                             *)
(***************************************************************************)
AddImprovement(r, a) ==
  /\ Arrives(r) /\ Takes(r) /\ a \notin DOMAIN improvements
  /\ improvements' = Row(improvements, a, "open")
  /\ Logs(r, "improvement_action_created", a)
  /\ UNCHANGED <<status, checkpoints, assessments, triggered>>

(* set_improvement_action_status, in a thread, from any status to any *)
UpdateImprovement(r, a, new) ==
  /\ Arrives(r)
  /\ improvements' = [improvements EXCEPT ![a] = new]
  /\ Logs(r, "improvement_action_status", a)
  /\ UNCHANGED <<status, checkpoints, assessments, triggered, busy>>

(* RATING_SCORES *)
Points == [not_assessed |-> 0, developing |-> 1, effective |-> 2, exemplary |-> 3]

Assess(r, o, rating) ==
  /\ Arrives(r) /\ Takes(r)
  /\ assessments' = Row(assessments, o, rating)
  /\ Logs(r, "objective_assessed", o)
  /\ UNCHANGED <<status, checkpoints, improvements, triggered>>

(* add_manual_event *)
AddNote(r) ==
  /\ Arrives(r) /\ Takes(r)
  /\ Logs(r, "manual_note", "exercise")
  /\ UNCHANGED records

(***************************************************************************)
(* Injects, the lab and the clock.                                         *)
(***************************************************************************)
AddArtifact(r, i) ==
  /\ Arrives(r) /\ Takes(r) /\ i \notin DOMAIN triggered
  /\ triggered' = Row(triggered, i, FALSE)
  /\ Logs(r, "artifact_created", i)
  /\ UNCHANGED <<status, checkpoints, improvements, assessments>>

(* trigger_inject: what it refuses, its record and its event.  The         *)
(* scheduler that may deliver in between is in Facilitator.                *)
Triggerable(i) == triggered[i] => i \in ChaosInjects

TriggerInject(r, i) ==
  /\ Arrives(r) /\ Takes(r) /\ Triggerable(i)
  /\ triggered' = [triggered EXCEPT ![i] = TRUE]
  /\ Logs(r, "inject_triggered", i)
  /\ UNCHANGED <<status, checkpoints, improvements, assessments>>

(* A chaos action or an artifact that fails leaves no record. *)
TriggerFails(r, i) ==
  /\ Arrives(r) /\ Takes(r) /\ Triggerable(i)
  /\ i \in ChaosInjects \cup Artifacts
  /\ Logs(r, "inject_failed", i)
  /\ UNCHANGED records

Moves ==
  [start    |-> [from |-> {"created"}, to |-> "running"],
   pause    |-> [from |-> {"running"}, to |-> "paused"],
   resume   |-> [from |-> {"paused"}, to |-> "running"],
   complete |-> [from |-> {"running", "paused"}, to |-> "completed"],
   reset    |-> [from |-> {"completed"}, to |-> "created"]]

(* Mutant: the clock is set whatever became of it since it was read. *)
StillReadAlways(r) == TRUE

(* WHERE id = ? AND status = ? *)
StillRead(r) == status = handlers[r].seen.status

(* transition_clock reads the status and refuses what it does not allow. *)
ReadClock(r, command) ==
  IF status \in Moves[command].from
  THEN Now(r, [Waiting EXCEPT !.step = "set",
                 !.seen = [status |-> status, command |-> command]])
  ELSE Now(r, Waiting)

(* update_exercise_clock; a clock that changed meanwhile has it refused. *)
SetClock(r) ==
  LET command == handlers[r].seen.command IN
  /\ handlers[r].step = "set"
  /\ IF StillRead(r)
     THEN status' = Moves[command].to /\ Logs(r, command, "exercise")
     ELSE Now(r, Waiting) /\ UNCHANGED <<status, log, rest>>
  /\ UNCHANGED <<checkpoints, improvements, assessments, triggered, busy, asked>>

(* control_exercise_clock, in a thread *)
Command(r, command) ==
  /\ Arrives(r) /\ status \in Moves[command].from
  /\ ReadClock(r, command)
  /\ UNCHANGED <<records, log, rest, busy>>

(* control_exercise_lab reads the exercise, and docker goes to work.  What *)
(* it is to do after a success is known by then.                           *)
OperateLab(r, launch) ==
  /\ Arrives(r)
  /\ Now(r, [Waiting EXCEPT !.step = "docker",
       !.after = IF launch /\ status = "created" THEN "start" ELSE "idle"])
  /\ UNCHANGED <<records, log, rest, busy>>

LabOperated(r) ==
  /\ handlers[r].step = "docker"
  /\ Now(r, [handlers[r] EXCEPT !.step = "event",
                                !.event = Event("lab_operation", "exercise")])
  /\ UNCHANGED <<records, log, rest, busy, asked>>

LabFailed(r) ==
  /\ handlers[r].step = "docker"
  /\ Logs(r, "lab_operation_failed", "exercise")
  /\ UNCHANGED <<records, busy, asked>>

(* The clock of a launched exercise; an exercise that is started meanwhile *)
(* has the request fail, with the lab deployed.                            *)
StartLaunched(r) ==
  /\ handlers[r].step = "start"
  /\ ReadClock(r, "start")
  /\ UNCHANGED <<records, log, rest, busy, asked>>

ChaosRunEnds(safely) ==
  /\ chaosRuns.ended < MaxChaosRuns
  /\ chaosRuns' = [ended |-> chaosRuns.ended + 1,
                   safe |-> chaosRuns.safe + (IF safely THEN 1 ELSE 0)]
  /\ UNCHANGED <<records, log, lost, handlers, busy, asked, deaths>>

(***************************************************************************)
(* Reports.                                                                *)
(***************************************************************************)

(* Mutant: the timeline is read last. *)
readEventsLast ==
  <<"exercise", "injects", "chaos", "assessments", "improvements", "checkpoints",
    "events">>

(* The handler reads the exercise, _exercise_evidence the rest. *)
readOrder ==
  <<"exercise", "injects", "events", "chaos", "assessments", "improvements",
    "checkpoints">>

Contents ==
  [exercise |-> status, injects |-> triggered, events |-> log, chaos |-> chaosRuns,
   assessments |-> assessments, improvements |-> improvements,
   checkpoints |-> checkpoints]

AskReport(r) ==
  /\ Arrives(r)
  /\ Now(r, [Waiting EXCEPT !.step = "read"])
  /\ UNCHANGED <<records, log, rest, busy>>

ReadTable(r) ==
  LET seen  == handlers[r].seen
      at    == Cardinality(DOMAIN seen) + 1
      table == readOrder[at]
  IN  /\ handlers[r].step = "read"
      /\ Now(r, [Waiting EXCEPT !.step = IF at = Len(readOrder) THEN "render" ELSE "read",
                                !.seen = Row(seen, table, Contents[table])])
      /\ UNCHANGED <<records, log, rest, busy, asked>>

(* The report is made of what was read, and nothing else. *)
Render(r) ==
  /\ handlers[r].step = "render"
  /\ Now(r, Waiting)
  /\ UNCHANGED <<records, log, rest, busy, asked>>

(* The integers nearest to a / b: Python rounds a tie to even, but for the *)
(* error of its floats; both are taken.                                    *)
Rounded(a, b) ==
  {n \in {a \div b, a \div b + 1} : 2 * b * n \in 2 * a - b .. 2 * a + b}

AtLeastOne(n) == IF n = 0 THEN 1 ELSE n

EarnedPoints(seen) ==
  SumFunctionOnSet([o \in DOMAIN seen.assessments |-> Points[seen.assessments[o]]],
                   DOMAIN seen.assessments)

TotalPoints == 3 * Cardinality(Objectives)

EvidenceEvents(seen) ==
  SumFunctionOnSet(seen.events,
                   {e \in DOMAIN seen.events : e.kind # "exercise_created"})

(* Mutant: more events than objectives count as more than complete. *)
DocumentationUncapped(seen) == Rounded(100 * EvidenceEvents(seen), Cardinality(Objectives))

Documentation(seen) ==
  IF EvidenceEvents(seen) >= Cardinality(Objectives) THEN {100}
  ELSE Rounded(100 * EvidenceEvents(seen), Cardinality(Objectives))

(* build_exercise_intelligence: the scores a report may give *)
ReadinessScores(seen) ==
  UNION {Rounded(55 * o + 15 * (i + s + d), 100) :
           o \in Rounded(100 * EarnedPoints(seen), TotalPoints),
           i \in Rounded(100 * Cardinality({j \in DOMAIN seen.injects : seen.injects[j]}),
                         AtLeastOne(Cardinality(DOMAIN seen.injects))),
           s \in Rounded(100 * seen.chaos.safe, AtLeastOne(seen.chaos.ended)),
           d \in Documentation(seen)}

(* score_label *)
ExerciseReady(score) == score >= 85

(***************************************************************************)
(* The specification.                                                      *)
(***************************************************************************)
Told(e) == {r \in OperationRequests : handlers[r].event = e}

(* The process dies: requests end where they are. *)
OperationsDie ==
  /\ deaths < MaxOperationDeaths /\ deaths' = deaths + 1
  /\ LET untold == {handlers[r].event : r \in OperationRequests} \ {NoEvent}
     IN  lost' = [e \in DOMAIN lost \cup untold |-> Copies(e, lost) + Cardinality(Told(e))]
  /\ handlers' = [r \in OperationRequests |-> Waiting]
  /\ busy' = NoRequest
  /\ UNCHANGED <<records, chaosRuns, log, asked>>

RunOfShowStep(r) ==
  \/ AskCheckpoint(r)
  \/ \E c \in Checkpoints : CreateCheckpoint(r, c)
  \/ \E c \in DOMAIN checkpoints : CompleteCheckpoint(r, c)

EvaluationStep(r) ==
  \/ \E a \in Improvements : AddImprovement(r, a)
  \/ \E a \in DOMAIN improvements, new \in {"open", "in_progress", "completed"} :
       UpdateImprovement(r, a, new)
  \/ \E o \in Objectives, rating \in DOMAIN Points : Assess(r, o, rating)
  \/ AddNote(r)

DeliveryStep(r) ==
  \/ \E i \in Artifacts : AddArtifact(r, i)
  \/ \E i \in DOMAIN triggered : TriggerInject(r, i) \/ TriggerFails(r, i)
  \/ \E command \in DOMAIN Moves : Command(r, command)
  \/ SetClock(r)
  \/ \E launch \in BOOLEAN : OperateLab(r, launch)
  \/ LabOperated(r) \/ LabFailed(r) \/ StartLaunched(r)

ReportStep(r) == AskReport(r) \/ ReadTable(r) \/ Render(r)

OperationsNext ==
  \/ \E r \in OperationRequests :
       RunOfShowStep(r) \/ EvaluationStep(r) \/ DeliveryStep(r) \/ ReportStep(r)
         \/ WriteEvent(r)
  \/ \E safely \in BOOLEAN : ChaosRunEnds(safely)
  \/ OperationsDie

OperationsSpec == OperationsInit /\ [][OperationsNext]_operationVars

(***************************************************************************)
(* Properties.                                                             *)
(***************************************************************************)

(* How often an event was written, is about to be, or was lost. *)
Times(kind, on) ==
  LET e == Event(kind, on)
  IN  Copies(e, log) + Copies(e, lost) + Cardinality(Told(e))

Once(fact) == IF fact THEN 1 ELSE 0

(* No race of requests has the timeline tell twice, or tell what was not   *)
(* done: of a checkpoint and of an improvement action that were added once *)
(* each, of a checkpoint's completion once and only if it is completed,    *)
(* and of one start more than resets just if the exercise was started, and *)
(* so for its end.  An event that is still to be written, or that a death  *)
(* kept from being written, counts as told: nothing is said about it       *)
(* (complete_checkpoint, update_exercise_clock and their handlers).        *)
LogMatchesRecord ==
  /\ \A c \in Checkpoints :
       Times("checkpoint_created", c) = Once(c \in DOMAIN checkpoints)
  /\ \A c \in DOMAIN checkpoints :
       Times("checkpoint_completed", c) = Once(checkpoints[c] = "completed")
  /\ \A a \in Improvements :
       Times("improvement_action_created", a) = Once(a \in DOMAIN improvements)
  /\ Times("start", "exercise") - Times("reset", "exercise") = Once(status # "created")
  /\ Times("complete", "exercise") - Times("reset", "exercise") =
       Once(status = "completed")

Rendered == {handlers[r].seen : r \in {q \in OperationRequests : handlers[q].step = "render"}}

(* A report is read table by table while the exercise goes on, and still   *)
(* holds what its own timeline tells of: the checkpoints and improvement   *)
(* actions that were added, the completions, and the objectives that were  *)
(* assessed (_exercise_evidence).                                          *)
ReportsHoldTheirTimeline ==
  \A report \in Rendered : \A e \in DOMAIN report.events :
    /\ e.kind = "checkpoint_created" => e.on \in DOMAIN report.checkpoints
    /\ e.kind = "checkpoint_completed" => report.checkpoints[e.on] = "completed"
    /\ e.kind = "improvement_action_created" => e.on \in DOMAIN report.improvements
    /\ e.kind = "objective_assessed" => e.on \in DOMAIN report.assessments

(* No amount of injects, runs and events makes up for objectives: a report *)
(* says "Exercise ready" only if 71.5 % of the objectives' points are      *)
(* earned, in all the ways its scores may be rounded.                      *)
ReadyIsEarned ==
  \A report \in Rendered :
    (\E score \in ReadinessScores(report) : ExerciseReady(score))
      => 1000 * EarnedPoints(report) >= 715 * TotalPoints

=============================================================================
