-------------------------- MODULE ChaosController --------------------------
(***************************************************************************)
(* The processes that share the state of the chaos engine                  *)
(* (chaos_server.py.tmpl, chaos_cli.py.tmpl): the monitor coroutine, which *)
(* ends what expired, starts the stages that are due and enforces the      *)
(* guardrails; requests that apply an action, each several engine calls    *)
(* long; and operator commands of one engine call.  The engine's lock is   *)
(* released between calls, so any of them may run between two calls of     *)
(* another.  The server may crash and restart between any two calls.       *)
(*                                                                         *)
(* A snapshot of the target changes nothing here: its outcome is a choice  *)
(* of the step that uses it.  Recording observations is left out.          *)
(***************************************************************************)
EXTENDS ChaosEngine

CONSTANTS
  MaxRequests,  \* bound: apply requests in flight at a time
  MaxFailures   \* bound: crashes and cycles of the monitor that raise

ASSUME ControllerAssumption == MaxRequests \in Nat /\ MaxFailures \in Nat

VARIABLES
  at,        \* the next engine call of the monitor
  due,       \* the due stages it has not visited yet
  item,      \* the stage it is starting
  stageRun,  \* the run it requested for that stage
  doomed,    \* the actions whose guardrail it found violated
  applying,  \* runs whose apply request is in flight
  failures   \* crashes and raised cycles so far

monitorVars == <<at, due, item, stageRun, doomed>>
vars == <<engineVars, monitorVars, applying, failures>>

Calls ==
  {"patterns", "due", "claim", "claimed", "activate", "link", "undo", "abort",
   "failStage", "guard"}

NoItem == <<0, 0>>

ControllerTypeOK ==
  /\ TypeOK
  /\ at \in Calls
  /\ due \in SUBSET (PlaybookRunIds \X Stages)
  /\ item \in (PlaybookRunIds \X Stages) \cup {NoItem}
  /\ stageRun \in RunIds \cup {NoRun}
  /\ doomed \in SUBSET Actions
  /\ applying \in SUBSET RunIds
  /\ failures \in 0 .. MaxFailures

MonitorIdle ==
  /\ at = "patterns" /\ due = {} /\ item = NoItem /\ stageRun = NoRun /\ doomed = {}

ControllerInit ==
  /\ Init
  /\ MonitorIdle
  /\ applying = {}
  /\ failures = 0

Goto(from, to) == at = from /\ at' = to

(***************************************************************************)
(* The monitor: one cycle of monitor_runs.                                 *)
(***************************************************************************)

MonitorPatterns ==
  /\ Goto("patterns", "due")
  /\ UpdatePatterns
  /\ UNCHANGED <<due, item, stageRun, doomed>>

MonitorDue ==
  /\ Goto("due", "claim")
  /\ DuePlaybookStages
  /\ due' = DueStages
  /\ UNCHANGED <<item, stageRun, doomed>>

(* The due stages are visited in list order. *)
IsNext(ps) ==
  /\ ps \in due
  /\ \A other \in due :
       ps[1] < other[1] \/ (ps[1] = other[1] /\ ps[2] <= other[2])

MonitorClaim(p, s) ==
  /\ Goto("claim", "claimed")
  /\ IsNext(<<p, s>>)
  /\ ClaimStage(p, s)
  /\ due' = due \ {<<p, s>>}
  /\ item' = <<p, s>>
  /\ UNCHANGED <<stageRun, doomed>>

(* A refused claim raises before the stage is claimed: nothing to undo. *)
MonitorClaimRefused(p, s) ==
  /\ Goto("claim", "claim")
  /\ IsNext(<<p, s>>)
  /\ ~ClaimAllowed(p, s)
  /\ due' = due \ {<<p, s>>}
  /\ UNCHANGED <<engineVars, item, stageRun, doomed>>

(* The target did not pass its preflight. *)
MonitorPreflightFailed(p, s) ==
  /\ Goto("claimed", "claim")
  /\ item = <<p, s>>
  /\ FailStage(p, s)
  /\ item' = NoItem
  /\ UNCHANGED <<due, stageRun, doomed>>

MonitorBegin(p, s, r) ==
  LET d == playbookRuns[p].definition
  IN  /\ Goto("claimed", "activate")
      /\ item = <<p, s>>
      /\ BeginRun(r, d.action[s], d.intensity[s], d.duration[s], <<p, s>>)
      /\ stageRun' = r
      /\ UNCHANGED <<due, item, doomed>>

MonitorActivate(r) ==
  /\ Goto("activate", "link")
  /\ stageRun = r
  /\ ActivateRun(r)
  /\ UNCHANGED <<due, item, stageRun, doomed>>

(* Mutant: the stage is linked without looking at its status. *)
MonitorLinkUnchecked(p, s) ==
  /\ Goto("link", "claim")
  /\ item = <<p, s>>
  /\ stages' = [stages EXCEPT ![p][s] = [status |-> "active", run |-> stageRun]]
  /\ item' = NoItem
  /\ stageRun' = NoRun
  /\ UNCHANGED <<clock, runs, active, conditions, library, playbookRuns, due, doomed>>

(* After linking, the stage is done with and the next one is visited. *)
MonitorLink(p, s) ==
  /\ Goto("link", "claim")
  /\ item = <<p, s>>
  /\ LinkStage(p, s, stageRun)
  /\ item' = NoItem
  /\ stageRun' = NoRun
  /\ UNCHANGED <<due, doomed>>

(* The stage was stopped or skipped meanwhile: linking raises. *)
MonitorLinkRefused(p, s) ==
  /\ Goto("link", "undo")
  /\ item = <<p, s>>
  /\ stages[p][s].status # "starting"
  /\ UNCHANGED <<engineVars, due, item, stageRun, doomed>>

(* Mutant: only the stage is failed, not its run. *)
MonitorUndoStageOnly ==
  /\ Goto("undo", "failStage")
  /\ GetState
  /\ UNCHANGED <<due, item, stageRun, doomed>>

(* fail_action_run reads the state and acts on what it read.  The run has  *)
(* been activated by then, so it is never found pending here.              *)
MonitorUndo ==
  /\ at = "undo"
  /\ GetState
  /\ at' = IF runs'[stageRun].status = "active" THEN "abort" ELSE "failStage"
  /\ UNCHANGED <<due, item, stageRun, doomed>>

(* The abort names the action, not the run: it ends whatever is in force   *)
(* for the action by then.                                                 *)
MonitorAbort ==
  /\ Goto("abort", "failStage")
  /\ Abort(runs[stageRun].action)
  /\ UNCHANGED <<due, item, stageRun, doomed>>

MonitorFailStage(p, s) ==
  /\ Goto("failStage", "claim")
  /\ item = <<p, s>>
  /\ FailStage(p, s)
  /\ item' = NoItem
  /\ stageRun' = NoRun
  /\ UNCHANGED <<due, doomed>>

(* All due stages visited: the state is read, and one snapshot of the      *)
(* target decides, by the stop conditions of each action in force, which   *)
(* of them are violated.                                                   *)
MonitorGetState ==
  /\ Goto("claim", "guard")
  /\ due = {}
  /\ GetState
  /\ doomed' \in SUBSET Contributing(active')
  /\ UNCHANGED <<due, item, stageRun>>

(* Each violated guardrail aborts its action, one call at a time. *)
MonitorGuard(action) ==
  /\ Goto("guard", "guard")
  /\ action \in doomed
  /\ Abort(action)
  /\ doomed' = doomed \ {action}
  /\ UNCHANGED <<due, item, stageRun>>

MonitorSync ==
  /\ Goto("guard", "patterns")
  /\ doomed = {}
  /\ SyncPlaybookRuns
  /\ UNCHANGED <<due, item, stageRun, doomed>>

MonitorStageStep ==
  \E p \in PlaybookRunIds, s \in Stages :
    \/ MonitorClaim(p, s)
    \/ MonitorClaimRefused(p, s)
    \/ MonitorPreflightFailed(p, s)
    \/ \E r \in RunIds : MonitorBegin(p, s, r)
    \/ MonitorLink(p, s)
    \/ MonitorLinkRefused(p, s)
    \/ MonitorFailStage(p, s)

MonitorStep ==
  /\ \/ MonitorPatterns
     \/ MonitorDue
     \/ MonitorStageStep
     \/ \E r \in RunIds : MonitorActivate(r)
     \/ MonitorUndo
     \/ MonitorAbort
     \/ MonitorGetState
     \/ \E a \in Actions : MonitorGuard(a)
     \/ MonitorSync
  /\ UNCHANGED <<applying, failures>>

(***************************************************************************)
(* Requests that apply an action (apply_action, and run_action of the      *)
(* command line): begin, look at the target, then fail or activate.        *)
(***************************************************************************)

RequestBegin(r) ==
  /\ Cardinality(applying) < MaxRequests
  /\ \E a \in Actions, i \in Intensities, d \in Durations : BeginRun(r, a, i, d, None)
  /\ applying' = applying \cup {r}

RequestPreflightFailed(r) ==
  /\ r \in applying
  /\ FailRun(r)
  /\ applying' = applying \ {r}

RequestActivate(r) ==
  /\ r \in applying
  /\ ActivateRun(r)
  /\ applying' = applying \ {r}

RequestStep ==
  /\ \E r \in RunIds : RequestBegin(r) \/ RequestPreflightFailed(r) \/ RequestActivate(r)
  /\ UNCHANGED <<monitorVars, failures>>

(***************************************************************************)
(* Requests of one engine call: reading the state, stopping or resetting   *)
(* one action, the emergency stop, and the playbook commands.              *)
(***************************************************************************)

EmergencyStop == StopAll

OperatorStep ==
  /\ \/ GetState
     \/ \E a \in Actions : Abort(a)
     \/ EmergencyStop
     \/ PlaybookStep
     \/ \E p \in PlaybookRunIds, s \in Stages : SkipStage(p, s)
     \/ LibraryStep
  /\ UNCHANGED <<monitorVars, applying, failures>>

(***************************************************************************)
(* Failures.  A call of the monitor that raises anything but ValueError (a *)
(* full disk under create_artifacts or the state file) abandons the cycle  *)
(* and a new one begins; a crash of the server loses its requests as well. *)
(* What was committed stays in state.json.                                 *)
(***************************************************************************)
Failure ==
  /\ failures < MaxFailures
  /\ failures' = failures + 1
  /\ at' = "patterns" /\ due' = {} /\ item' = NoItem /\ stageRun' = NoRun /\ doomed' = {}
  /\ applying' \in {applying, {}}
  /\ UNCHANGED engineVars

TimeStep == Tick /\ UNCHANGED <<monitorVars, applying, failures>>

ControllerNext ==
  \/ MonitorStep
  \/ RequestStep
  \/ OperatorStep
  \/ Failure
  \/ TimeStep

ControllerSpec == ControllerInit /\ [][ControllerNext]_vars

(* The monitor runs for as long as the server does, and is started again   *)
(* with it; time passes.  Operators and requests may stop at any time.     *)
Fairness == WF_vars(MonitorStep) /\ WF_vars(TimeStep)

FairControllerSpec == ControllerSpec /\ Fairness

(***************************************************************************)
(* Properties.                                                             *)
(***************************************************************************)

(* A stage is under way only if every stage it depends on has ended and    *)
(* its scheduled time has come.  Both are checked when the due list is     *)
(* computed and not again when a stage of that list is claimed, by which   *)
(* time operators may have skipped, paused, stopped and resumed.           *)
StagesStartWhenDue ==
  \A p \in PlaybookRunIds, s \in Stages :
    stages[p][s].status \in {"starting", "active"} =>
      LET d == playbookRuns[p].definition
      IN  /\ \A t \in d.dependsOn[s] : stages[p][t].status \in TerminalStage
          /\ Elapsed(playbookRuns[p], clock) >= d.startAfter[s]

(* The stage the monitor is starting, if its run is in force and not yet   *)
(* linked.                                                                 *)
BeingStarted(r) == r = stageRun /\ at \in {"link", "undo", "abort"}

(* No fault of a playbook outlives its stage: a run requested for a stage  *)
(* is in force only while that stage is active, linked to it, and its      *)
(* playbook has not ended, or while the monitor is still starting it.      *)
(* Holds as long as no cycle of the monitor was cut short.                 *)
NoOrphanedFault ==
  failures = 0 =>
    \A r \in RunIds :
      runs[r].status = "active" /\ runs[r].owner # None =>
        \/ BeingStarted(r)
        \/ LET p == runs[r].owner[1]
               s == runs[r].owner[2]
           IN  /\ stages[p][s] = [status |-> "active", run |-> r]
               /\ playbookRuns[p].status \in LivePlaybook

(* What a stage came to is not rewritten: skipped, stopped, completed or   *)
(* failed, it stays so, whatever is called late.  The one exception is the *)
(* stage the monitor is just starting: failing it does not look at it      *)
(* (fail_playbook_stage), and a stage that was skipped or stopped between  *)
(* its claim and its link is recorded as failed.                           *)
OutcomesKept ==
  [][\A p \in PlaybookRunIds, s \in Stages :
       stages[p][s].status \in TerminalStage =>
         \/ stages'[p][s].status = stages[p][s].status
         \/ /\ item = <<p, s>> /\ at \in {"claimed", "failStage"}
            /\ stages'[p][s].status = "failed"]_vars

(* A paused playbook starts no stage, and pausing does not extend the      *)
(* actions its stages have in force.                                       *)
PausePreventsScheduling ==
  [][\A p \in PlaybookRunIds :
       playbookRuns[p].status = "paused" =>
         /\ \A s \in Stages :
              stages[p][s].status = "pending" => stages'[p][s].status # "starting"
         /\ \A r \in RunsInForce(active) :
              r \in RunsInForce(active') => runs'[r].expires = runs[r].expires]_vars

(* Every call of every process is a call of the engine, in an order the    *)
(* engine allows: the properties of ChaosEngine hold of the controller.    *)
ImplementsEngine == Spec

(* Every fault ends: nothing that is applied stays applied, whatever       *)
(* crashed on the way.                                                     *)
EveryFaultEnds ==
  \A r \in RunIds : runs[r].status = "active" ~> runs[r].status # "active"

(* No playbook stays running: unless an operator pauses it, it ends, even  *)
(* if a crash left one of its stages claimed for ever or if its stages     *)
(* wait for a budget that never frees.                                     *)
NoPlaybookRunsForever ==
  \A p \in PlaybookRunIds :
    []<>(playbookRuns[p].status # "running")

(* docs/RELEASE_CHECKLIST.md:29, "Emergency stop ends all active actions   *)
(* and playbooks": no playbook that was stopped has an action in force.    *)
StoppedPlaybooksInert ==
  \A p \in PlaybookRunIds, r \in RunIds, s \in Stages :
    playbookRuns[p].status = "aborted" /\ runs[r].owner = <<p, s>> =>
      runs[r].status # "active"

=============================================================================
