---------------------------- MODULE ChaosEngine ----------------------------
(***************************************************************************)
(* The chaos engine of a generated lab (chaos_engine.py.tmpl): the         *)
(* contents of state.json and the functions that read and write it.  Every *)
(* such function takes the file lock, loads the whole state, changes it    *)
(* and replaces the file, so one action of this module is one section      *)
(* under that lock.  Next lets any client (HTTP handler, monitor,          *)
(* command line) call any function at any time.                            *)
(*                                                                         *)
(* Left out: the magnitude of an effect and its pattern (an action either  *)
(* contributes to the published conditions or does not), observations,     *)
(* artifacts, wording, and the truncation of the histories to 200 runs and *)
(* 50 playbook runs (MaxRuns and MaxPlaybookRuns stay below them; for the  *)
(* former, see RunHistory).                                                *)
(***************************************************************************)
EXTENDS Integers, FiniteSets, Functions

CONSTANTS
  Actions,          \* faults the exercise allows (ALLOWED_ACTIONS)
  Books,            \* playbook ids of the library
  Stages,           \* positions of the stages of a playbook, in list order
  Definitions,      \* playbook definitions clients may submit
  Intensities,      \* intensities a request may name
  Durations,        \* durations, in ticks, a request may name
  MaxRuns,          \* bound: action runs ever requested
  MaxPlaybookRuns,  \* bound: playbook runs ever started
  MaxClock,         \* bound: ticks after which only outstanding deadlines run
  None              \* "no value" (Python's None)

(* SEVERITY_POINTS *)
SeverityPoints == [low |-> 1, medium |-> 2, high |-> 3]

(* What validate_playbook keeps of a playbook. *)
Definition ==
  [action : [Stages -> Actions], intensity : [Stages -> Intensities],
   duration : [Stages -> Durations], startAfter : [Stages -> Nat],
   dependsOn : [Stages -> SUBSET Stages],
   maxConcurrent : Nat, maxSeverity : Nat, maxSeconds : Nat]

ASSUME EngineAssumption ==
  /\ Stages \subseteq Nat /\ IsFiniteSet(Stages)
  /\ IsFiniteSet(Actions) /\ None \notin Actions
  /\ Intensities \subseteq {"low", "medium", "high"}
  /\ Durations \subseteq Nat \ {0}
  /\ Definitions \subseteq Definition /\ None \notin Definitions
  /\ MaxRuns \in Nat /\ MaxPlaybookRuns \in Nat /\ MaxClock \in Nat
  /\ None \notin Nat \cup (Nat \X Nat)

RunIds         == 1 .. MaxRuns
PlaybookRunIds == 1 .. MaxPlaybookRuns
NoRun          == 0

VARIABLES
  clock,         \* datetime.now, in ticks
  runs,          \* state["runs"]: the run of each id
  active,        \* state["active_actions"]: the run in effect for each action
  conditions,    \* state["conditions"]: the actions whose effect is published
  library,       \* state["playbooks"]
  playbookRuns,  \* state["playbook_runs"], without their stages
  stages         \* the stages of each playbook run

engineVars == <<clock, runs, active, conditions, library, playbookRuns, stages>>
playbookVars == <<library, playbookRuns, stages>>

TerminalRun   == {"completed", "aborted", "failed"}
TerminalStage == TerminalRun \cup {"skipped"}
LivePlaybook  == {"running", "paused"}

Owner == (PlaybookRunIds \X Stages) \cup {None}

Run ==
  [status : {"absent", "pending", "active"} \cup TerminalRun,
   action : Actions \cup {None}, intensity : Intensities \cup {None},
   duration : Durations \cup {None}, expires : Nat \cup {None}, owner : Owner]

PlaybookRun ==
  [status : {"absent"} \cup LivePlaybook \cup TerminalRun,
   book : Books \cup {None}, definition : Definitions \cup {None},
   started : Nat, pausedAt : Nat \cup {None}, totalPaused : Nat]

Stage ==
  [status : {"pending", "starting", "active"} \cup TerminalStage,
   run : RunIds \cup {NoRun}]

AbsentRun ==
  [status |-> "absent", action |-> None, intensity |-> None,
   duration |-> None, expires |-> None, owner |-> None]
AbsentPlaybookRun ==
  [status |-> "absent", book |-> None, definition |-> None,
   started |-> 0, pausedAt |-> None, totalPaused |-> 0]
PendingStage == [status |-> "pending", run |-> NoRun]

TypeOK ==
  /\ clock \in Nat
  /\ runs \in [RunIds -> Run]
  /\ active \in [Actions -> RunIds \cup {NoRun}]
  /\ conditions \in SUBSET Actions
  /\ library \in [Books -> Definitions \cup {None}]
  /\ playbookRuns \in [PlaybookRunIds -> PlaybookRun]
  /\ stages \in [PlaybookRunIds -> [Stages -> Stage]]

(***************************************************************************)
(* The effects in force.                                                   *)
(***************************************************************************)

(* The runs that active_actions holds. *)
RunsInForce(act) == {act[a] : a \in Actions} \ {NoRun}

(* recompute_conditions: every action in force contributes. *)
Contributing(act) == {a \in Actions : act[a] # NoRun}

(* finish_active_unlocked for every run of S: it leaves active_actions and *)
(* its record takes the status st.                                         *)
Released(act, S) == [a \in Actions |-> IF act[a] \in S THEN NoRun ELSE act[a]]
Ended(rs, S, st) ==
  [r \in RunIds |-> IF r \in S THEN [rs[r] EXCEPT !.status = st] ELSE rs[r]]

Finish(S, st) ==
  /\ runs' = Ended(runs, S, st)
  /\ active' = Released(active, S)

(* Mutant: the expiry time is compared one tick early. *)
ExpiredEarly == {r \in RunsInForce(active) : runs[r].expires <= clock + 1}

(* Mutant: the runs of playbook stages are left to their playbook. *)
ExpiredManual ==
  {r \in RunsInForce(active) : runs[r].owner = None /\ runs[r].expires <= clock}

(* The runs in force whose expires_at has passed. *)
Expired == {r \in RunsInForce(active) : runs[r].expires <= clock}

(* reconcile_expired_unlocked *)
ReconcileExpired ==
  /\ Finish(Expired, "completed")
  /\ conditions' = IF Expired = {} THEN conditions ELSE Contributing(active')

(***************************************************************************)
(* Playbook runs and their stages.                                         *)
(***************************************************************************)

(* One stage of sync_playbook_runs_unlocked: an active or starting stage   *)
(* takes the terminal status of its linked run.                            *)
SyncedStage(rs, stage) ==
  IF /\ stage.run # NoRun
     /\ stage.status \in {"active", "starting"}
     /\ rs[stage.run].status \in TerminalRun
  THEN [stage EXCEPT !.status = rs[stage.run].status]
  ELSE stage

SyncedStages(rs, books, ss) ==
  [p \in PlaybookRunIds |->
     IF books[p].status \in LivePlaybook
     THEN [s \in Stages |-> SyncedStage(rs, ss[p][s])]
     ELSE ss[p]]

FinalStatus(statuses) ==
  IF "failed" \in statuses THEN "failed"
  ELSE IF "aborted" \in statuses THEN "aborted" ELSE "completed"

(* The rest of it: a live playbook whose stages all ended, ends. *)
SyncedPlaybooks(books, ss) ==
  [p \in PlaybookRunIds |->
     IF /\ books[p].status \in LivePlaybook
        /\ \A s \in Stages : ss[p][s].status \in TerminalStage
     THEN [books[p] EXCEPT !.status = FinalStatus({ss[p][s].status : s \in Stages})]
     ELSE books[p]]

(* sync_playbook_runs_unlocked on the runs of the next state, after the    *)
(* caller changed the stages to ss.                                        *)
SyncPlaybooksFrom(ss) ==
  LET synced == SyncedStages(runs', playbookRuns, ss)
  IN  /\ stages' = synced
      /\ playbookRuns' = SyncedPlaybooks(playbookRuns, synced)

(* playbook_elapsed *)
Elapsed(book, now) ==
  LET paused == IF book.pausedAt = None THEN 0 ELSE now - book.pausedAt
      spent  == now - book.started - book.totalPaused - paused
  IN  IF spent < 0 THEN 0 ELSE spent

(* playbook_budget_allows_unlocked: the actions in force, whoever started  *)
(* them, and this playbook's own starting stages spend its budgets.        *)
Severity(intensity) == SeverityPoints[intensity]
RunPoints(rs) == [r \in RunIds |-> Severity(rs[r].intensity)]
StagePoints(definition) == [s \in Stages |-> Severity(definition.intensity[s])]
Starting(ps) == {s \in Stages : ps[s].status = "starting"}
BudgetAllows(act, definition, ps, s) ==
  LET inForce == RunsInForce(act)
      spent   == SumFunctionOnSet(RunPoints(runs), inForce)
                 + SumFunctionOnSet(StagePoints(definition), Starting(ps))
  IN  /\ Cardinality(inForce) + Cardinality(Starting(ps)) < definition.maxConcurrent
      /\ spent + Severity(definition.intensity[s]) <= definition.maxSeverity
      /\ act[definition.action[s]] = NoRun

(* The runs that stopping a playbook ends: those in force that an active   *)
(* stage is linked to.                                                     *)
StageRunsInForce(act, ps) ==
  {r \in RunsInForce(act) :
     /\ \E s \in Stages : ps[s].status = "active" /\ ps[s].run = r
     /\ act[runs[r].action] = r}

(* Mutant: a claimed stage is not stopped. *)
StoppedStagesNotStarting(ps) ==
  [s \in Stages |->
     CASE ps[s].status = "active" /\ ps[s].run # NoRun -> [ps[s] EXCEPT !.status = "aborted"]
       [] ps[s].status = "pending"                     -> [ps[s] EXCEPT !.status = "skipped"]
       [] OTHER                                        -> ps[s]]

(* The stage loop of stop_playbook_run and stop_playbook_unlocked. *)
StoppedStages(ps) ==
  [s \in Stages |->
     CASE ps[s].status = "active" /\ ps[s].run # NoRun -> [ps[s] EXCEPT !.status = "aborted"]
       [] ps[s].status \in {"pending", "starting"}     -> [ps[s] EXCEPT !.status = "skipped"]
       [] OTHER                                        -> ps[s]]

(* Mutant: only a stage that depends on itself is refused. *)
ResolvedDirect(dependsOn) == {s \in Stages : s \notin dependsOn[s]}

(* validate_dependency_graph: rounds of ready stages until none is left;   *)
(* a round per stage is as far as the loop can go.                         *)
Resolved(dependsOn) ==
  LET round[n \in Nat] ==
        IF n = 0 THEN {}
        ELSE LET done == round[n - 1]
             IN  done \cup {s \in Stages : dependsOn[s] \subseteq done}
  IN  round[Cardinality(Stages)]

(* What validate_playbook refuses, of the fields that are modelled. *)
ValidDefinition(d) ==
  /\ \A s \in Stages : d.startAfter[s] <= d.maxSeconds
  /\ Resolved(d.dependsOn) = Stages

(***************************************************************************)
(* Action runs.                                                            *)
(***************************************************************************)

Init ==
  /\ clock = 0
  /\ runs = [r \in RunIds |-> AbsentRun]
  /\ active = [a \in Actions |-> NoRun]
  /\ conditions = {}
  /\ library \in [Books -> {d \in Definitions : ValidDefinition(d)} \cup {None}]
  /\ playbookRuns = [p \in PlaybookRunIds |-> AbsentPlaybookRun]
  /\ stages = [p \in PlaybookRunIds |-> [s \in Stages |-> PendingStage]]

(* get_state and reconcile_expired: reading the state first ends what      *)
(* expired and synchronises the playbooks.                                 *)
GetState ==
  /\ ReconcileExpired
  /\ SyncPlaybooksFrom(stages)
  /\ UNCHANGED <<clock, library>>

(* begin_run appends a pending run; ids are given in list order. *)
BeginRun(r, action, intensity, duration, owner) ==
  /\ runs[r].status = "absent"
  /\ \A q \in RunIds : q < r => runs[q].status # "absent"
  /\ runs' = [runs EXCEPT ![r] =
       [status |-> "pending", action |-> action, intensity |-> intensity,
        duration |-> duration, expires |-> None, owner |-> owner]]
  /\ UNCHANGED <<clock, active, conditions, playbookVars>>

(* Mutant: the record of the replaced run is not ended. *)
ActivateRunOverwrites(r) ==
  LET action == runs[r].action
  IN  /\ runs[r].status = "pending"
      /\ runs' = [runs EXCEPT ![r].status = "active", ![r].expires = clock + runs[r].duration]
      /\ active' = [active EXCEPT ![action] = r]
      /\ conditions' = Contributing(active')
      /\ UNCHANGED <<clock, playbookVars>>

(* Mutant: the run is not checked to be pending. *)
ActivateRunAgain(r) ==
  LET action   == runs[r].action
      replaced == {active[action]} \ {NoRun}
  IN  /\ runs[r].status # "absent"
      /\ runs' = [Ended(runs, replaced, "aborted") EXCEPT
                    ![r].status = "active",
                    ![r].expires = clock + runs[r].duration]
      /\ active' = [active EXCEPT ![action] = r]
      /\ conditions' = Contributing(active')
      /\ UNCHANGED <<clock, playbookVars>>

(* activate_run: a run in force for the same action is replaced.  The      *)
(* playbooks are not synchronised here.                                    *)
ActivateRun(r) ==
  LET action   == runs[r].action
      replaced == {active[action]} \ {NoRun}
  IN  /\ runs[r].status = "pending"
      /\ runs' = [Ended(runs, replaced, "aborted") EXCEPT
                    ![r].status = "active",
                    ![r].expires = clock + runs[r].duration]
      /\ active' = [active EXCEPT ![action] = r]
      /\ conditions' = Contributing(active')
      /\ UNCHANGED <<clock, playbookVars>>

(* fail_run *)
FailRun(r) ==
  /\ runs[r].status = "pending"
  /\ runs' = [runs EXCEPT ![r].status = "failed"]
  /\ SyncPlaybooksFrom(stages)
  /\ UNCHANGED <<clock, active, conditions, library>>

(* update_patterns: rescaling an effect is not modelled, ending what       *)
(* expired is.  The playbooks are not synchronised here.                   *)
UpdatePatterns ==
  /\ ReconcileExpired
  /\ UNCHANGED <<clock, playbookVars>>

(* abort of one action, and reset of one action *)
Abort(action) ==
  /\ Finish({active[action]} \ {NoRun}, "aborted")
  /\ conditions' = Contributing(active')
  /\ SyncPlaybooksFrom(stages)
  /\ UNCHANGED <<clock, library>>

(* stop_all (abort and reset without an action, the emergency stop): every *)
(* live playbook is aborted and every action in force ended; a pending run *)
(* is left as it is.                                                       *)
StopAll ==
  LET live == {p \in PlaybookRunIds : playbookRuns[p].status \in LivePlaybook}
  IN  /\ Finish(RunsInForce(active), "aborted")
      /\ conditions' = Contributing(active')
      /\ stages' = [p \in PlaybookRunIds |->
                      IF p \in live THEN StoppedStages(stages[p]) ELSE stages[p]]
      /\ playbookRuns' = [p \in PlaybookRunIds |->
                      IF p \in live THEN [playbookRuns[p] EXCEPT !.status = "aborted"]
                      ELSE playbookRuns[p]]
      /\ UNCHANGED <<clock, library>>

(***************************************************************************)
(* Playbook runs.                                                          *)
(***************************************************************************)

(* save_playbook: a definition that does not validate is refused. *)
SavePlaybook(b, d) ==
  /\ ValidDefinition(d)
  /\ library' = [library EXCEPT ![b] = d]
  /\ UNCHANGED <<clock, runs, active, conditions, playbookRuns, stages>>

(* delete_playbook *)
DeletePlaybook(b) ==
  /\ library[b] # None
  /\ \A p \in PlaybookRunIds :
       playbookRuns[p].book = b => playbookRuns[p].status \notin LivePlaybook
  /\ library' = [library EXCEPT ![b] = None]
  /\ UNCHANGED <<clock, runs, active, conditions, playbookRuns, stages>>

(* A fresh playbook run at the end of the list, with pending stages. *)
AppendPlaybookRun(p, b, d) ==
  /\ playbookRuns[p].status = "absent"
  /\ \A q \in PlaybookRunIds : q < p => playbookRuns[q].status # "absent"
  /\ playbookRuns' = [playbookRuns EXCEPT ![p] =
       [status |-> "running", book |-> b, definition |-> d,
        started |-> clock, pausedAt |-> None, totalPaused |-> 0]]
  /\ stages' = [stages EXCEPT ![p] = [s \in Stages |-> PendingStage]]
  /\ UNCHANGED <<clock, runs, active, conditions, library>>

(* start_playbook captures the definition the library holds. *)
StartPlaybook(p, b) ==
  /\ library[b] # None
  /\ ValidDefinition(library[b])
  /\ AppendPlaybookRun(p, b, library[b])

(* replay_playbook_run captures the definition of the run it replays. *)
ReplayPlaybook(p, original) ==
  /\ playbookRuns[original].status # "absent"
  /\ AppendPlaybookRun(p, playbookRuns[original].book, playbookRuns[original].definition)

(* pause_playbook_run *)
PausePlaybook(p) ==
  /\ playbookRuns[p].status = "running"
  /\ playbookRuns' = [playbookRuns EXCEPT ![p].status = "paused", ![p].pausedAt = clock]
  /\ UNCHANGED <<clock, runs, active, conditions, library, stages>>

(* Mutant: the pause is not added to the paused time. *)
ResumePlaybookForgets(p) ==
  /\ playbookRuns[p].status = "paused"
  /\ playbookRuns' = [playbookRuns EXCEPT ![p].status = "running", ![p].pausedAt = None]
  /\ UNCHANGED <<clock, runs, active, conditions, library, stages>>

(* Mutant: the pause is subtracted the wrong way round. *)
ResumePlaybookSwapped(p) ==
  /\ playbookRuns[p].status = "paused"
  /\ playbookRuns' = [playbookRuns EXCEPT
       ![p].status = "running",
       ![p].totalPaused = @ + (playbookRuns[p].pausedAt - clock),
       ![p].pausedAt = None]
  /\ UNCHANGED <<clock, runs, active, conditions, library, stages>>

(* resume_playbook_run *)
ResumePlaybook(p) ==
  /\ playbookRuns[p].status = "paused"
  /\ playbookRuns' = [playbookRuns EXCEPT
       ![p].status = "running",
       ![p].totalPaused = @ + (clock - playbookRuns[p].pausedAt),
       ![p].pausedAt = None]
  /\ UNCHANGED <<clock, runs, active, conditions, library, stages>>

(* Mutant: the conditions are not recomputed. *)
StopPlaybookKeepsEffect(p) ==
  /\ playbookRuns[p].status \in LivePlaybook
  /\ Finish(StageRunsInForce(active, stages[p]), "aborted")
  /\ stages' = [stages EXCEPT ![p] = StoppedStages(@)]
  /\ playbookRuns' = [playbookRuns EXCEPT ![p].status = "aborted"]
  /\ UNCHANGED <<clock, conditions, library>>

(* stop_playbook_run: no synchronisation of the other playbooks. *)
StopPlaybook(p) ==
  /\ playbookRuns[p].status \in LivePlaybook
  /\ Finish(StageRunsInForce(active, stages[p]), "aborted")
  /\ conditions' = Contributing(active')
  /\ stages' = [stages EXCEPT ![p] = StoppedStages(@)]
  /\ playbookRuns' = [playbookRuns EXCEPT ![p].status = "aborted"]
  /\ UNCHANGED <<clock, library>>

(* skip_playbook_stage: the run of an active stage is aborted if it is     *)
(* still in force, and the stage forgets its run.  The status of the       *)
(* playbook run is not looked at.                                          *)
SkipStage(p, s) ==
  LET stage == stages[p][s]
      ends  == {r \in RunsInForce(active) : stage.status = "active" /\ stage.run = r}
  IN  /\ playbookRuns[p].status # "absent"
      /\ stage.status \in {"pending", "starting", "active"}
      /\ Finish(ends, "aborted")
      /\ conditions' = Contributing(active')
      /\ SyncPlaybooksFrom([stages EXCEPT ![p][s] = [status |-> "skipped", run |-> NoRun]])
      /\ UNCHANGED <<clock, library>>

(***************************************************************************)
(* Starting the stages of a playbook.                                      *)
(***************************************************************************)

(* due_playbook_stages works on the state it has synchronised. *)
StagesNow == SyncedStages(runs, playbookRuns, stages)
BooksNow  == SyncedPlaybooks(playbookRuns, StagesNow)

RunningNow == {p \in PlaybookRunIds : BooksNow[p].status = "running"}
(* Mutant: a playbook that is starting a stage is not stopped. *)
OverTimeUnlessStarting ==
  {p \in RunningNow : /\ Starting(StagesNow[p]) = {}
                      /\ Elapsed(BooksNow[p], clock) > BooksNow[p].definition.maxSeconds}

OverTime ==
  {p \in RunningNow : Elapsed(BooksNow[p], clock) > BooksNow[p].definition.maxSeconds}

(* The playbooks are visited in list order, so a budget sees the actions   *)
(* that the over-time playbooks before this one have released.             *)
ReleasedBefore(p) ==
  Released(active, UNION {StageRunsInForce(active, StagesNow[q]) :
                            q \in {o \in OverTime : o < p}})

DependencyStatuses(p, s) ==
  {StagesNow[p][t].status : t \in BooksNow[p].definition.dependsOn[s]}
DependencyLost(p, s) ==
  /\ StagesNow[p][s].status = "pending"
  /\ DependencyStatuses(p, s) \cap {"failed", "aborted"} # {}

(* Mutant: a dependency that is under way counts as satisfied. *)
DueStagesEager ==
  {ps \in (RunningNow \ OverTime) \X Stages :
     LET p == ps[1]
         s == ps[2]
         d == BooksNow[p].definition
     IN  /\ StagesNow[p][s].status = "pending"
         /\ DependencyStatuses(p, s) \subseteq {"active", "completed", "skipped"}
         /\ Elapsed(BooksNow[p], clock) >= d.startAfter[s]
         /\ BudgetAllows(ReleasedBefore(p), d, StagesNow[p], s)}

(* The stages due_playbook_stages returns to its caller. *)
DueStages ==
  {ps \in (RunningNow \ OverTime) \X Stages :
     LET p == ps[1]
         s == ps[2]
         d == BooksNow[p].definition
     IN  /\ StagesNow[p][s].status = "pending"
         /\ DependencyStatuses(p, s) \subseteq {"completed", "skipped"}
         /\ Elapsed(BooksNow[p], clock) >= d.startAfter[s]
         /\ BudgetAllows(ReleasedBefore(p), d, StagesNow[p], s)}

(* due_playbook_stages itself: it stops the playbooks over their time and  *)
(* skips the stages that lost a dependency.                                *)
DuePlaybookStages ==
  LET ends == UNION {StageRunsInForce(active, StagesNow[p]) : p \in OverTime}
  IN  /\ Finish(ends, "aborted")
      /\ conditions' = IF OverTime = {} THEN conditions ELSE Contributing(active')
      /\ playbookRuns' = [p \in PlaybookRunIds |->
           IF p \in OverTime THEN [BooksNow[p] EXCEPT !.status = "aborted"] ELSE BooksNow[p]]
      /\ stages' = [p \in PlaybookRunIds |->
           IF p \in OverTime THEN StoppedStages(StagesNow[p])
           ELSE [s \in Stages |->
                   IF p \in RunningNow /\ DependencyLost(p, s)
                   THEN [StagesNow[p][s] EXCEPT !.status = "skipped"]
                   ELSE StagesNow[p][s]]]
      /\ UNCHANGED <<clock, library>>

(* Mutant: the budgets are not checked again. *)
ClaimAllowedUnbudgeted(p, s) ==
  /\ playbookRuns[p].status = "running"
  /\ stages[p][s].status = "pending"

(* Mutant: a playbook paused since the due list was computed still starts. *)
ClaimAllowedPaused(p, s) ==
  /\ playbookRuns[p].status \in LivePlaybook
  /\ stages[p][s].status = "pending"
  /\ BudgetAllows(active, playbookRuns[p].definition, stages[p], s)

(* claim_playbook_stage: the budgets are checked again, the dependencies,  *)
(* the schedule and the time budget are not.                               *)
ClaimAllowed(p, s) ==
  /\ playbookRuns[p].status = "running"
  /\ stages[p][s].status = "pending"
  /\ BudgetAllows(active, playbookRuns[p].definition, stages[p], s)

ClaimStage(p, s) ==
  /\ ClaimAllowed(p, s)
  /\ stages' = [stages EXCEPT ![p][s].status = "starting"]
  /\ UNCHANGED <<clock, runs, active, conditions, library, playbookRuns>>

(* Mutant: the stage is not checked to be starting still. *)
LinkStageAnyStatus(p, s, r) ==
  /\ playbookRuns[p].status # "absent"
  /\ stages' = [stages EXCEPT ![p][s] = [status |-> "active", run |-> r]]
  /\ UNCHANGED <<clock, runs, active, conditions, library, playbookRuns>>

(* link_playbook_stage: neither the playbook's status nor the run's is     *)
(* looked at.                                                              *)
LinkStage(p, s, r) ==
  /\ playbookRuns[p].status # "absent"
  /\ stages[p][s].status = "starting"
  /\ stages' = [stages EXCEPT ![p][s] = [status |-> "active", run |-> r]]
  /\ UNCHANGED <<clock, runs, active, conditions, library, playbookRuns>>

(* fail_playbook_stage, whatever the status of the stage. *)
FailStage(p, s) ==
  /\ playbookRuns[p].status # "absent"
  /\ UNCHANGED runs
  /\ SyncPlaybooksFrom([stages EXCEPT ![p][s].status = "failed"])
  /\ UNCHANGED <<clock, active, conditions, library>>

(* sync_playbook_runs *)
SyncPlaybookRuns ==
  /\ UNCHANGED runs
  /\ SyncPlaybooksFrom(stages)
  /\ UNCHANGED <<clock, active, conditions, library>>

(***************************************************************************)
(* Time passes up to MaxClock, and beyond it while a run in force or a     *)
(* running playbook still has its deadline ahead.                          *)
(***************************************************************************)
DeadlineAhead ==
  \/ \E r \in RunsInForce(active) : clock < runs[r].expires
  \/ \E p \in PlaybookRunIds :
       /\ playbookRuns[p].status = "running"
       /\ Elapsed(playbookRuns[p], clock) <= playbookRuns[p].definition.maxSeconds

Tick ==
  /\ clock < MaxClock \/ DeadlineAhead
  /\ clock' = clock + 1
  /\ UNCHANGED <<runs, active, conditions, playbookVars>>

(***************************************************************************)
(* Any client may call any function.  What is asked of the client of the   *)
(* stage functions is what orchestrate_due_stages keeps: once a stage is   *)
(* claimed, one run is requested for it, as its definition says, and that  *)
(* run is linked to it after it was activated.                             *)
(***************************************************************************)
RequestForStage(r, p, s) ==
  LET d == playbookRuns[p].definition
  IN  /\ playbookRuns[p].status # "absent"
      /\ stages[p][s].status # "pending"
      /\ \A q \in RunIds : runs[q].owner # <<p, s>>
      /\ BeginRun(r, d.action[s], d.intensity[s], d.duration[s], <<p, s>>)

RunStep ==
  \E r \in RunIds :
    \/ \E a \in Actions, i \in Intensities, d \in Durations : BeginRun(r, a, i, d, None)
    \/ \E p \in PlaybookRunIds, s \in Stages : RequestForStage(r, p, s)
    \/ ActivateRun(r)
    \/ FailRun(r)

StageStep ==
  \E p \in PlaybookRunIds, s \in Stages :
    \/ ClaimStage(p, s)
    \/ \E r \in RunIds :
         /\ runs[r].owner = <<p, s>> /\ runs[r].status # "pending"
         /\ LinkStage(p, s, r)
    \/ FailStage(p, s)
    \/ SkipStage(p, s)

PlaybookStep ==
  \E p \in PlaybookRunIds :
    \/ \E b \in Books : StartPlaybook(p, b)
    \/ \E q \in PlaybookRunIds : ReplayPlaybook(p, q)
    \/ PausePlaybook(p)
    \/ ResumePlaybook(p)
    \/ StopPlaybook(p)

LibraryStep ==
  \E b \in Books :
    \/ \E d \in Definitions : SavePlaybook(b, d)
    \/ DeletePlaybook(b)

StateStep ==
  \/ GetState
  \/ UpdatePatterns
  \/ DuePlaybookStages
  \/ SyncPlaybookRuns
  \/ StopAll
  \/ \E a \in Actions : Abort(a)

Next ==
  \/ RunStep
  \/ StageStep
  \/ PlaybookStep
  \/ LibraryStep
  \/ StateStep
  \/ Tick

Spec == Init /\ [][Next]_engineVars

(***************************************************************************)
(* Properties.                                                             *)
(***************************************************************************)

(* active_actions and the run records never disagree: an action in force   *)
(* names a run recorded as active for that action, and a run recorded as   *)
(* active is the one in force for its action.  Replacing, expiring,        *)
(* aborting, stopping and skipping all have to keep both sides in step.    *)
ActiveRunsMatch ==
  /\ \A a \in Actions :
       active[a] # NoRun => /\ runs[active[a]].status = "active"
                            /\ runs[active[a]].action = a
  /\ \A r \in RunIds :
       runs[r].status = "active" => /\ runs[r].action \in Actions
                                    /\ active[runs[r].action] = r

(* The published conditions show exactly the faults in force: every        *)
(* function that ends or starts one recomputes them before it commits.     *)
ConditionsMatchActive == conditions = Contributing(active)

(* The views that a client may take of the faults in force agree: the      *)
(* actions, the run records and the published conditions.                  *)
ViewsAgree == ActiveRunsMatch /\ ConditionsMatchActive

(* A playbook run that has ended has no stage left that could still start  *)
(* or still be under way, however it ended.                                *)
EndedPlaybooksSettled ==
  \A p \in PlaybookRunIds :
    playbookRuns[p].status \in TerminalRun =>
      \A s \in Stages : stages[p][s].status \in TerminalStage

(* The stages of a playbook that occupy its budgets: claimed ones, and     *)
(* linked ones whose run is still in force.                                *)
Occupying(p) ==
  Starting(stages[p]) \cup
  {s \in Stages : stages[p][s].status = "active" /\ stages[p][s].run \in RunsInForce(active)}

(* A playbook never exceeds its own concurrency and severity budgets, even *)
(* though each stage is claimed, activated and linked in separate steps    *)
(* and other clients start and stop actions in between.                    *)
BudgetsRespected ==
  \A p \in PlaybookRunIds :
    playbookRuns[p].status # "absent" =>
      LET d == playbookRuns[p].definition
      IN  /\ Cardinality(Occupying(p)) <= d.maxConcurrent
          /\ SumFunctionOnSet(StagePoints(d), Occupying(p)) <= d.maxSeverity

(* A run recorded as completed was in force for its whole duration: an     *)
(* abort, a replacement or a failure is never recorded as a completion.    *)
CompletedRanItsTime ==
  \A r \in RunIds : runs[r].status = "completed" => runs[r].expires <= clock

(* Every set of stages has a member that depends on none of the set. *)
Acyclic(dependsOn) ==
  \A S \in (SUBSET Stages) \ {{}} : \E s \in S : dependsOn[s] \cap S = {}

(* No playbook of the library has a dependency cycle (validate_playbook),  *)
(* however it was saved, deleted and saved again.                          *)
LibraryAcyclic == \A b \in Books : library[b] # None => Acyclic(library[b].dependsOn)

(* The clock of a playbook counts its running time and nothing else: it    *)
(* advances with the wall clock while the playbook runs, stands still      *)
(* while it is paused, and pausing or resuming never moves it.             *)
ElapsedAdvances ==
  \A p \in PlaybookRunIds :
    playbookRuns[p].status \in LivePlaybook =>
      Elapsed(playbookRuns'[p], clock') - Elapsed(playbookRuns[p], clock)
        = IF playbookRuns[p].status = "running" THEN clock' - clock ELSE 0

ElapsedIsRunningTime == [][ElapsedAdvances]_engineVars

(* What has ended stays ended: an ended run keeps its outcome, a stage     *)
(* that ended never starts again (its outcome may still change to failed), *)
(* and an ended playbook run keeps its outcome.                            *)
KeepsEnded ==
  /\ \A r \in RunIds :
       runs[r].status \in TerminalRun => runs'[r].status = runs[r].status
  /\ \A p \in PlaybookRunIds :
       playbookRuns[p].status \in TerminalRun =>
         playbookRuns'[p].status = playbookRuns[p].status
  /\ \A p \in PlaybookRunIds, s \in Stages :
       stages[p][s].status \in TerminalStage =>
         stages'[p][s].status \in {stages[p][s].status, "failed"}

EndedStaysEnded == [][KeepsEnded]_engineVars

(***************************************************************************)
(* The engine implements the life of faults that FaultLifecycle describes. *)
(***************************************************************************)
PhaseOf(status) ==
  CASE status = "absent"  -> "idle"
    [] status = "pending" -> "requested"
    [] status = "active"  -> "applied"
    [] OTHER              -> "over"

Lifecycle == INSTANCE FaultLifecycle WITH
  Runs    <- RunIds,
  Faults  <- Actions,
  NoFault <- None,
  phase   <- [r \in RunIds |-> PhaseOf(runs[r].status)],
  fault   <- [r \in RunIds |-> runs[r].action]

(* Whatever clients call and in whatever order, a run lives its life once  *)
(* and no action is ever in force for two runs.                            *)
ImplementsLifecycle == Lifecycle!Spec

=============================================================================
