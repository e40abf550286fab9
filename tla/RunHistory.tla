----------------------------- MODULE RunHistory -----------------------------
(***************************************************************************)
(* How the chaos engine forgets (app/services/templates/chaos_engine.py):  *)
(* state.json keeps the records of the newest MaxHistory runs, whatever    *)
(* became of them.  Every read restores the record of a fault in force     *)
(* that is not among them, as the newest (normalize_state); what ends a    *)
(* fault raises, and changes nothing, if it does not find the record       *)
(* (find_run).                                                             *)
(*                                                                         *)
(* ChaosEngine has these functions with an unlimited history, and with     *)
(* their times, effects and budgets, which are left out here.  There is    *)
(* one playbook run, of one stage.                                         *)
(***************************************************************************)
EXTENDS Integers, Sequences, FiniteSets, Functions

CONSTANTS
  ActionNames,     \* the actions of the lab, in alphabetical order
  StageAction,     \* the action of the stage
  MaxHistory,      \* records that are kept: more than there are actions
  MaxHistoryRuns,  \* bound: runs
  NoRun

ASSUME HistoryAssumption ==
  /\ ActionNames \in Seq(Range(ActionNames)) /\ IsInjective(ActionNames)
  /\ StageAction \in Range(ActionNames)
  /\ MaxHistory \in Nat /\ Len(ActionNames) < MaxHistory
  /\ MaxHistoryRuns \in Nat /\ NoRun \notin Nat \ {0}

Actions == Range(ActionNames)

VARIABLES
  history,  \* runs: a sequence of records, the newest last
  inForce,  \* active_actions: the run in force for each action
  over,     \* actions whose fault has lasted its duration
  stage,    \* the stage: its status, its run, and the run its start is at
  running,  \* whether the playbook runs
  made      \* runs so far

historyVars == <<history, inForce, over, stage, running, made>>

RunRecord(id, action, status) == [id |-> id, action |-> action, status |-> status]

Ended == {"completed", "aborted", "failed"}

HistoryInit ==
  /\ history = << >>
  /\ inForce = [a \in Actions |-> NoRun]
  /\ over = {}
  /\ stage = [status |-> "pending", run |-> NoRun, begun |-> NoRun, activated |-> FALSE]
  /\ running = TRUE
  /\ made = 0

(***************************************************************************)
(* Reading and writing.                                                    *)
(***************************************************************************)
Faults      == {a \in Actions : inForce[a] # NoRun}
Known(h)    == {h[i].id : i \in DOMAIN h}
Of(h, id)   == CHOOSE i \in DOMAIN h : h[i].id = id
Newest(h)   ==
  IF Len(h) <= MaxHistory THEN h ELSE SubSeq(h, Len(h) - MaxHistory + 1, Len(h))

(* Some actions, by name. *)
ByName(actions) ==
  LET places == {k \in DOMAIN ActionNames : ActionNames[k] \in actions}
      At(n)  == CHOOSE k \in places : Cardinality({j \in places : j < k}) = n - 1
  IN  [n \in 1 .. Cardinality(places) |-> ActionNames[At(n)]]

(* Mutant: every fault is given a new record. *)
MissingAlways(h) == ByName(Faults)

(* The faults in force that have no record. *)
Missing(h) == ByName({a \in Faults : inForce[a] \notin Known(h)})

(* Mutant: nothing is restored. *)
Unrestored == history

(* normalize_state: what every function reads *)
Restored ==
  LET missing == Missing(history)
  IN  Newest(history \o [i \in DOMAIN missing |->
                            RunRecord(inForce[missing[i]], missing[i], "active")])

(* find_run *)
Found(id) == id \in Known(Restored)

(* The records of some runs are updated. *)
Mark(h, ids, status) ==
  [i \in DOMAIN h |-> IF h[i].id \in ids THEN [h[i] EXCEPT !.status = status] ELSE h[i]]

RunsOf(actions) == {inForce[a] : a \in actions}

(* finish_active_unlocked, for several faults, on the records h: it raises *)
(* unless all of them are found.                                           *)
Endable(actions) == \A a \in actions : Found(inForce[a])

Clear(actions) ==
  /\ inForce' = [a \in Actions |-> IF a \in actions THEN NoRun ELSE inForce[a]]
  /\ over' = over \ actions

(* sync_playbook_runs_unlocked, on the records h: the stage takes over how *)
(* its run ended, if the record is there, and the playbook ends with it.   *)
Sync(h) ==
  LET linked == running /\ stage.status = "active" /\ stage.run \in Known(h)
      status == h[Of(h, stage.run)].status
      ended  == linked /\ status \in Ended
  IN  /\ stage' = IF ended THEN [stage EXCEPT !.status = status] ELSE stage
      /\ running' = (running /\ ~ended
                       /\ stage.status \notin Ended \cup {"skipped"})

(***************************************************************************)
(* Runs.                                                                   *)
(***************************************************************************)

(* begin_run, for the stage or for nobody *)
BeginRun(a, staged) ==
  /\ made < MaxHistoryRuns /\ made' = made + 1
  /\ staged => a = StageAction /\ stage.status = "starting" /\ stage.begun = NoRun
  /\ history' = Newest(Append(Restored, RunRecord(made', a, "pending")))
  /\ stage' = IF staged THEN [stage EXCEPT !.begun = made'] ELSE stage
  /\ UNCHANGED <<inForce, over, running>>

(* activate_run, which ends the run that was in force for the action *)
ActivateRun(id) ==
  /\ Found(id)
  /\ LET run == Restored[Of(Restored, id)]
         old == {run.action} \cap Faults
     IN  /\ run.status = "pending" /\ Endable(old)
         /\ history' = Mark(Mark(Restored, RunsOf(old), "aborted"), {id}, "active")
         /\ inForce' = [inForce EXCEPT ![run.action] = id]
         /\ over' = over \ old
  /\ stage' = IF id = stage.begun THEN [stage EXCEPT !.activated = TRUE] ELSE stage
  /\ UNCHANGED <<running, made>>

(* fail_run *)
FailRun(id) ==
  /\ Found(id) /\ Restored[Of(Restored, id)].status = "pending"
  /\ history' = Mark(Restored, {id}, "failed")
  /\ Sync(history')
  /\ UNCHANGED <<inForce, over, made>>

(* observe_run *)
ObserveRun(id) ==
  /\ Found(id)
  /\ history' = Restored
  /\ UNCHANGED <<inForce, over, stage, running, made>>

LastsItsTime(a) ==
  /\ a \in Faults \ over
  /\ over' = over \cup {a}
  /\ UNCHANGED <<history, inForce, stage, running, made>>

(* reconcile_expired_unlocked *)
Expire ==
  /\ Endable(over)
  /\ history' = Mark(Restored, RunsOf(over), "completed")
  /\ Clear(over)

(* update_patterns, which also looks for the runs whose effect changes *)
UpdatePatterns(changed) ==
  /\ changed \cup over # {} /\ Endable(changed)
  /\ Expire
  /\ UNCHANGED <<stage, running, made>>

(* get_state writes only what it changed. *)
GetState ==
  /\ Expire /\ Sync(history')
  /\ over # {} \/ stage' # stage \/ running' # running
  /\ UNCHANGED made

(* abort *)
Abort(a) ==
  LET ended == {a} \cap Faults IN
  /\ Endable(ended)
  /\ history' = Mark(Restored, RunsOf(ended), "aborted")
  /\ Clear(ended)
  /\ Sync(history')
  /\ UNCHANGED made

(***************************************************************************)
(* The playbook.                                                           *)
(***************************************************************************)

(* claim_playbook_stage *)
ClaimStage ==
  /\ running /\ stage.status = "pending"
  /\ history' = Restored
  /\ stage' = [stage EXCEPT !.status = "starting"]
  /\ UNCHANGED <<inForce, over, running, made>>

(* link_playbook_stage, by who activated a run for the stage *)
LinkStage ==
  /\ stage.status = "starting" /\ stage.activated
  /\ history' = Restored
  /\ stage' = [stage EXCEPT !.status = "active", !.run = stage.begun]
  /\ UNCHANGED <<inForce, over, running, made>>

StageFound == stage.status = "active" => Found(stage.run)

(* The fault of the stage, if its run is still in force. *)
StageFaults == {a \in Faults : stage.status = "active" /\ inForce[a] = stage.run}

Settled(pending, active) ==
  [stage EXCEPT !.status =
     CASE stage.status = "active" -> active
       [] stage.status \in {"pending", "starting"} -> pending
       [] OTHER -> stage.status]

(* skip_playbook_stage *)
SkipStage ==
  /\ stage.status \in {"pending", "starting", "active"} /\ StageFound
  /\ history' = Mark(Restored, RunsOf(StageFaults), "aborted")
  /\ Clear(StageFaults)
  /\ stage' = [stage EXCEPT !.status = "skipped", !.run = NoRun]
  /\ running' = FALSE
  /\ UNCHANGED made

(* fail_playbook_stage, by who claimed the stage and could not start it *)
FailStage ==
  /\ stage.status \in {"starting", "skipped"}
  /\ history' = Restored
  /\ stage' = [stage EXCEPT !.status = "failed"] /\ running' = FALSE
  /\ UNCHANGED <<inForce, over, made>>

(* stop_playbook_run, and due_playbook_stages when the time budget is over *)
StopPlaybook ==
  /\ running /\ StageFound
  /\ history' = Mark(Restored, RunsOf(StageFaults), "aborted")
  /\ Clear(StageFaults)
  /\ stage' = Settled("skipped", "aborted") /\ running' = FALSE
  /\ UNCHANGED made

(* sync_playbook_runs *)
SyncPlaybookRuns ==
  /\ Sync(Restored) /\ (stage' # stage \/ running' # running)
  /\ history' = Restored
  /\ UNCHANGED <<inForce, over, made>>

(* stop_all: the playbook first, then every fault in force *)
StopAll ==
  /\ running => StageFound
  /\ Endable(Faults)
  /\ history' = Mark(Restored, RunsOf(Faults), "aborted")
  /\ Clear(Faults)
  /\ stage' = (IF running THEN Settled("skipped", "aborted") ELSE stage)
  /\ running' = FALSE
  /\ UNCHANGED made

HistoryNext ==
  \/ \E a \in Actions :
       (\E staged \in BOOLEAN : BeginRun(a, staged)) \/ LastsItsTime(a) \/ Abort(a)
  \/ \E id \in 1 .. made : ActivateRun(id) \/ FailRun(id) \/ ObserveRun(id)
  \/ \E changed \in SUBSET (Faults \ over) : UpdatePatterns(changed)
  \/ GetState \/ StopAll
  \/ ClaimStage \/ LinkStage \/ SkipStage \/ FailStage \/ StopPlaybook \/ SyncPlaybookRuns

HistorySpec == HistoryInit /\ [][HistoryNext]_historyVars

(***************************************************************************)
(* Properties.                                                             *)
(***************************************************************************)

(* Dropping records and restoring them never has a run told of twice, and  *)
(* never revives one: the records that say "active" are exactly those of   *)
(* faults in force, in what is kept and in what is read.                   *)
HistoryTrue ==
  \A h \in {history, Restored} : \A i \in DOMAIN h :
    /\ \A j \in DOMAIN h : h[i].id = h[j].id => i = j
    /\ h[i].status = "active" <=> inForce[h[i].action] = h[i].id

(* A fault can be ended at any time, by its duration, an abort or a stop,   *)
(* however many runs were made since it began: it may have to wait only    *)
(* for another fault whose record was dropped and is being restored, so    *)
(* never if it is alone.                                                   *)
FaultsWaitForOthers ==
  \A a \in Faults : ~Found(inForce[a]) =>
    \E b \in Faults \ {a} : inForce[b] \notin Known(history)

(* docs/RELEASE_CHECKLIST.md:29, "Emergency stop ends all active actions   *)
(* and playbooks": stop_all does not raise before it has ended any, over a *)
(* fault or a stage whose record it does not find.                         *)
StopAllSucceeds == Endable(Faults) /\ (running => StageFound)

=============================================================================
