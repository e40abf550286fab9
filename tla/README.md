# LiveFireTTX in TLA+

LiveFireTTX runs cyber-security table-top exercises: facilitators prepare a
scenario, launch a small lab in docker, drive an exercise clock, deliver injects
to the participants and let a *chaos engine* degrade the services of the lab.
This directory holds TLA+ models of the parts of it that keep state, the TLC runs
that check them on small instances, and theorems that TLAPS checks for every
value of the constants. All definitions are translated from the source; the file
`PROJECT.json` names, for every definition, the lines it stands for.

Contents: 1 the system, 2 the modules and how they correspond to the code, 3 the
runs, 4 bounds, 5 fairness, 6 proofs, 7 what disagrees with the documentation,
8 what is not modelled, 9 the plan.


## 1. The system

### Processes

The **application** is one uvicorn process. Its `async def` handlers are
coroutines: between two `await`s nothing else runs on the event loop. Its plain
`def` handlers run in worker threads and interleave with everything at every SQL
statement and file system call. One background task, the inject **scheduler**,
sleeps on the event loop and dispatches in a thread (`asyncio.to_thread`). Its
data are an SQLite database in WAL mode, one transaction per function of
`app/models.py` or `app/services/auth.py`, and directories beside it: a package
per exercise, evidence archives, a signing key.

A **lab** is a set of containers. One runs the *chaos server*
(`chaos_server.py.tmpl`): HTTP endpoints plus a monitor coroutine. Endpoints,
monitor and the command line `chaos_cli.py` share one file, `state.json`. Each
function of the engine (`chaos_engine.py.tmpl`) takes a file lock, loads the
whole state, changes it and replaces the file; between two calls the lock is
free. All labs publish the same host port.

```
 facilitators ──HTTP──► application ──SQL──► database (exercise, injects, users, sessions, ...)
                          │  ▲  └──files──► packages, evidence archives, signing key
                          │  └─ scheduler (coroutine + thread)
                          │HTTP
                          ▼
                        chaos server ──lock──► state.json ◄──lock── chaos_cli
                        (endpoints, monitor)       │
                                                   ▼
                                              the lab's services
```

### Inventory

| component | state it keeps | operations | hard behaviour | what makes it correct |
|---|---|---|---|---|
| Chaos engine | `runs`, `active_actions`, `conditions`, `playbooks`, `playbook_runs` in `state.json` | request, activate, fail, abort, expire a run; save, delete, start, replay, pause, resume, stop a playbook; list, claim, link, fail, skip a stage | seven ways to end a run, in any order; three redundant views of what is in force; budgets counted while stages are half started | the views agree; what ended stays ended; budgets hold; a playbook's clock is right |
| Chaos server: monitor, orchestrator and endpoints | where the monitor and each request are | the monitor's cycle; apply, stop, emergency stop, playbook endpoints | several engine calls per operation, with any other call in between; crashes and raised cycles | stages start when due; no fault is left without an owner; every fault ends |
| Chaos command line | none | the endpoints' engine calls | as above | as above |
| Runtime client (`runtime.py`) | a package's playbook files and their versions | guarded requests to the controller; save, clone and restore a playbook | the port may belong to another exercise's lab; two saves at once; death between two files | a request takes effect in the lab it was checked for; what a save replaces is kept; a playbook can always be read |
| Facilitator clock | status, start, pause and completion times, paused seconds of an exercise | start, pause, resume, complete, reset | racing commands; a compare-and-set on the status alone; rounding | timestamps fit the status; elapsed time is kept |
| Inject scheduling and delivery | offset, automatic delivery, delivered flag and count of an inject; events | schedule, clear, trigger, dispatch | scheduler against manual triggers; a clock read before the delivery | once, while the exercise runs, logged, and eventually |
| Run of show, checkpoints and improvement actions | checkpoints, improvement actions, assessments, the timeline of events | add, complete, update, assess, note; a launch that starts the clock | a change and its event are two transactions, in threads and coroutines; docker works for minutes between a read and the command that relies on it | the timeline tells of what was done, and of nothing twice |
| Lab lifecycle (`labs.py`) | none of its own; docker's containers and the shared port | launch (deploy, then start the clock), validate, destroy | deploying one lab replaces another's containers; minutes of docker between a read and the write that relies on it | requests follow the port; the clock starts once |
| Evidence signing and retention | signing key file, archives | export, list, download, prune | concurrent exports on one key file and one directory; death between calls | every archive verifies; retention is bounded; what is handed out is whole |
| Backups and restore | database copy, package copies, staged packages | backup (running), restore (stopped) | two stores copied and replaced one after the other | an exercise has its package; a finished restore is exact |
| Accounts and sessions | users, sessions | add, log in, log out, reset password, enable, disable | threads between the check and the update | sessions follow the password; an administrator remains |
| Scenario library and organization profiles | packs and profiles by name and version | seed, import, capture an exercise, create an exercise from a pack and a profile | a profile may have fewer objectives than the pack's checkpoints refer to (`scenario_library.py:218`); seeding and launches cut short; two catalogues of actions | the application always starts; what was captured comes back |
| Scenario generator, Lab renderer | none | pure functions to text and files | which chaos actions have an inject | every action a pack may name can be generated |
| Intelligence reports | none | readiness and impact scores, reports, over what is read of six tables | six transactions while the exercise goes on; rounding; counts without a limit | a report agrees with itself; readiness is earned |
| Artifacts, packages and paths | none beyond the file system | path arithmetic, listing; facilitators' artifacts | none | paths stay below their root |
| Persistence and migrations | tables, indexes, columns, recorded versions | `init_db`: five migrations | SQLite opens its transaction at the first `INSERT`; the server and the command line on one file; death anywhere | a recorded version is complete; a start repairs what a death left |
| Configuration | settings read once | read the environment | none | modelled with its users |
| HTTP application and templates, Application command line | none of their own | routes, pages, `backup` and `restore` | which handler is a coroutine and which a thread | modelled with the component they drive |

Interactions: the monitor, the endpoints and the command line share `state.json`;
the scheduler reads the clock the facilitators write and delivers the injects
they trigger; a launch starts the clock; the application reaches the chaos server
through the runtime client; a backup copies accounts, sessions, exercises and
packages together, and a restore replaces them.


## 2. Modules

| module | code | role |
|---|---|---|
| `FaultLifecycle` | what `chaos_engine.py.tmpl` promises | abstract specification of a fault's life |
| `ChaosEngine` | `chaos_engine.py.tmpl` | the contents of `state.json`; one action per locked function |
| `ChaosController` | `chaos_server.py.tmpl`, `chaos_cli.py.tmpl` | EXTENDS `ChaosEngine`: the processes that call it, one step per call |
| `RunHistory` | `chaos_engine.py.tmpl`: `normalize_state`, `commit_state`, `find_run` and who calls them | which run records are kept, restored, and missed |
| `Facilitator` | `services/facilitator.py`, handlers of `main.py`, SQL of `models.py` | clock, schedule, delivery; one step per SQL statement |
| `Accounts` | `services/auth.py`, `routes/auth.py` | users and sessions |
| `Backups` | `services/backups.py`, `create_exercise`, start and stop of the application | EXTENDS `Accounts`: what a backup carries, including accounts and sessions |
| `Evidence` | `services/evidence.py`, its two handlers | signing key and archives; one step per file system call |
| `LabRuntime` | `services/runtime.py`, `services/labs.py`, their handlers in `main.py` | the shared port, requests over it, playbook files and versions |
| `Persistence` | `init_db` and the migrations in `models.py` | the schema; one step per SQL statement |
| `ScenarioLibrary` | `services/scenario_library.py`, `routes/library.py`, what `services/generator.py` and `services/operations.py` put into an exercise | packs, profiles, and exercises made from them and captured again; one step per transaction |
| `Operations` | handlers of `main.py`, SQL of `models.py`, `services/intelligence.py` | what is done to an exercise and told of it; the reports; one step per transaction |
| `MCChaosEngine`, `MCChaosController`, `MCFacilitator`, `MCApplication`, `MCDesign` | | small instances for TLC |
| `ChaosEngineProofs`, `ChaosControllerProofs`, `FacilitatorProofs`, `BackupsProofs`, `EvidenceProofs`, `LabRuntimeProofs` | | theorems on the module each is named after |
| `DesignProofs` | | theorems on `Persistence`, `ScenarioLibrary`, `Operations` and `RunHistory` |
| `FiniteSums` | | lemmas on sums over finite sets, which the proofs use |

Definitions that stand right before the action they vary, and that no action
uses (`ActivateRunOverwrites`, `DueLate`, `ResetPasswordInThread`, ...), are the
action as a plausible bug would have it. Each property is confirmed to fail when
one of them takes the action's place; they are not part of the specifications.

### ChaosEngine

`runs`, `active`, `library`, `playbookRuns` and `stages` are the entries of
`state.json`; `conditions` is reduced to the set of actions whose effect is
published; `clock` is `datetime.now`. `active[a]` is the run in force for action
`a`, `NoRun` when there is none; `runs[r].owner` is the stage a run was requested
for (in the code, its `requested_by` and the controller's local variables).
Run and playbook run identifiers count up; status `absent` is "not created".

* `BeginRun`, `ActivateRun`, `FailRun`, `Abort`, `StopAll`, `UpdatePatterns`,
  `GetState` are `begin_run`, `activate_run`, `fail_run`, `abort`,
  `stop_all`, `update_patterns` and `get_state`. Those that first expire what is
  over (`reconcile_expired_unlocked`) do so in the same action (`ReconcileExpired`).
* `SavePlaybook`, `DeletePlaybook`, `StartPlaybook`, `ReplayPlaybook`,
  `PausePlaybook`, `ResumePlaybook`, `StopPlaybook`, `SkipStage` are the
  functions behind the endpoints. `ValidDefinition` and `Resolved` are the
  dependency check of `validate_playbook`.
* `DuePlaybookStages`, `ClaimStage`, `LinkStage`, `FailStage`,
  `SyncPlaybookRuns` are what the monitor calls. `OverTime`, `DependencyLost`
  and `DueStages` are the three things `due_playbook_stages` decides;
  `BudgetAllows` is the severity and concurrency budget.

`Next` lets any client call any function at any time, so what holds here holds
whatever the processes do.

### FaultLifecycle

A run is requested, may be applied once, is over for good; no two runs apply the
same fault. `ChaosEngine` implements it with the mapping `phase = PhaseOf(status)`
and `fault =` the action of the run (`ImplementsLifecycle`). Playbooks, expiry and
budgets are stutters or `End` steps of it.

### ChaosController

`at` is the next engine call of the monitor, `due` what is left of the due list,
`item` and `stageRun` the stage and run of `orchestrate_due_stages`, `doomed` the
actions whose guardrail the monitor found violated; `applying` holds the requests
between `begin_run` and `activate_run`. The monitor's actions follow
`monitor_runs`: `MonitorPatterns`, `MonitorDue`, then for each due stage
`MonitorClaim`, `MonitorPreflightFailed` or `MonitorBegin`, `MonitorActivate`,
`MonitorLink`, with the handlers of its `except` clauses (`MonitorClaimRefused`,
`MonitorLinkRefused`, `MonitorUndo`, `MonitorAbort`, `MonitorFailStage`), then
`MonitorGetState`, `MonitorGuard`, `MonitorSync`. Operator endpoints of one call
are `OperatorStep`. `Failure` is a crash (requests are lost) or an exception that
abandons the monitor's cycle (they are not). Probing the target is a choice of the
step that uses the result.

### RunHistory

`ChaosEngine` keeps every run. The code keeps the newest 200 records, whatever
their status, and this module says what follows from that; it is `ChaosEngine`
seen from the other side, with the history in full and without effects,
budgets, pausing and durations (`over` are the actions whose fault has lasted its
time). `history` is `runs`, oldest first; `inForce` is `active_actions`; `stage` is
the only stage of the only playbook run. `Restored` is what `read_state_unlocked`
returns: the record of a fault in force that was dropped is appended again, and the
whole cut to `MaxHistory`. Each action reads `Restored` and writes the result,
and those that end a fault are disabled when `find_run` would raise (`Found`), since the
code then writes nothing.

### Facilitator

`exercise` holds the clock columns of the `exercises` row, `injects` the delivery
columns of each inject row, `scheduledEvents` and `triggerEvents` count the
events logged. `tasks[t]` is where request `t` (or the scheduler) is and the row
it read; `loop` is the coroutine that holds the event loop. Time is counted in
ticks, several to a second, because timestamps are finer than `paused_seconds`.

* `ClockRead`, `ClockWrite`, `ClockRefused`: `transition_clock` reads the row,
  computes the new one (`Transition`) and updates it on the condition
  `clock_status = seen` (`update_exercise_clock`). When the write went through,
  `control_exercise_clock` calls `dispatch_due_injects` in the same thread after
  a start or a resume.
* `SchedulerWake`, `DispatchStep` (`DispatchList`, `Deliver`, `DispatchEnd`):
  `scheduler_loop` and `dispatch_due_injects`. `Deliver` is one SQL transaction
  with its conditions (`Deliverable`).
* `TriggerRead`, `TriggerFails`, `TriggerMark`, `TriggerEvent`: `trigger_inject`,
  which awaits its form first and then checks, acts on the lab, marks and logs
  without giving up the event loop; threads run in between all the same.
* `ScheduleRead`, `ScheduleWrite`, `ClearRead`, `ClearWrite`: the two schedule
  handlers.

### Accounts and Backups

`users` maps the accounts that exist to whether they are active and the number of
their password hash; `sessions` are rows with the hash they were opened under.
`AddUser` and `ResetPassword` are coroutines whose SQL runs without giving up the
loop and without other *coroutines* in between, one step each; `LoginAuthenticate`
and `LoginSession` are two transactions of one coroutine, so `loop` is held while
threads may run. `StatusRead`, `StatusCount`, `StatusUpdate` are
`change_user_status` in its worker thread.

`Backups` adds `exercises`, `packages` (absent, partial, whole), a backup under
way (`snapshot`: the database copied, the packages still to come), the last
`archive`, and a restore's next call (`restore`, `staged`). `torn` remembers a
restore cut short and is a history variable: it guards no action. Creating an exercise is
`CreatePackage`, `CompletePackage`, `CreateRow`; restoring is `RestoreBegin`,
`RestoreDatabase`, `RestoreStage`, `RestoreClear`, `RestoreMove`, and `RestoreCut`
may end it between any two of them. `StopApplication` is a shutdown or a crash.

### Evidence

`keyFile` is missing, empty (made and not yet written) or the key of the export
that made it; `archives` is a set of files with the key that signed them, whether
they are whole, and their modification time. An export is `FindKey`, `CreateKey`,
`WriteKey`, `LoadKey`, `StampArchive`, `OpenArchive`, `WriteArchive`,
`TouchArchive`, the prune `ListArchives`, `PruneArchive` (once per file), and
`EndExport`; a download is `LoadKey`, `FindArchive`, `VerifyArchive`,
`ReadArchive`, `EndDownload`. `ListingFails` is the exception when an archive
vanishes under the sort. `Die` kills the process between any two calls.

### LabRuntime

`holder` is the lab whose controller has the port, and `moves` counts how often
that changed. `library[l, p]` is playbook `p` in the state file of lab `l`,
`saved[l, p]` its file in the package, and `history[l, p]` the contents of its
version files. `tasks[r]` is a request: its step, exercise and playbook, the
definition it saves, the file content it found, the value of `moves` when the
controller answered for its exercise, and the lab it reached.

* `LabUp` and `LabDown` are docker compose, called by `run_lab_operation` or by
  hand, and are external. The compose files of all packages lie in a directory
  called `target`, which is the project's name to docker: deploying one lab
  replaces the containers of another. The state file outlives the containers.
* `BeginSave`, `BeginClone`, `BeginRestore`, `BeginCommand` are the handlers;
  `Check`, `Send`, `SendFails` are `_guarded_request` and `run_chaos_inject`: the
  controller is asked for its exercise, and then whoever has the port is sent
  the request. An answer may be late (`Check`) or lost (`Send`).
* `ReadFile`, `WriteVersion`, `OpenFile`, `WriteFile` are the rest of
  `save_playbook_configuration`. Writing a file empties it first; a writer that
  finds the text of another, written since, overwrites its beginning
  (`Overwritten`): what remains is its own text, or the other's if that begins like
  its own, or a mixture of both. A version file is written in one step, under a
  name of its own.
* `MayBegin` keeps coroutines apart: forms and imports await their body and then
  run to the end without giving up the event loop. The visual designer, restored
  versions and commands are plain functions in worker threads, and run beside
  each other and beside a coroutine.
* `AppDies` ends every request between any two of these steps.

A text is a definition that somebody saved, or `empty`, or a mixture: `mapping` if
it parses as a YAML mapping, `garbled` otherwise. `read_playbook_definition` returns
any mapping it finds in the file, and goes to the library for the rest
(`Readable`). A mixture that is a mapping may be cloned or, as a version, restored;
the controller then refuses it, or takes it for some definition (`TakenFor`).
Playbooks deleted at the controller's own endpoint by hand, outside
the application, and packages from before there was a controller
(no `control.json`) are left out.

### Persistence

A database is the set of its parts (tables, indexes, columns that were added) and
of the versions it records. `migrations` lists the statements of each migration:
`Table`, `Index`, `Columns` (the `PRAGMA table_info` that reads which columns
there are) and `Column` (the `ALTER TABLE` for one that was not among them).
`calls[p]` is where process `p` is in `init_db`: the versions it found recorded
(`Read`), the migration and the statement it is at (`ReadColumns`, `Create`,
`AddColumn`), the columns it last read.

Python's `sqlite3` opens a transaction at the first `INSERT`, not before a
`CREATE` or an `ALTER`. Until `Record` has inserted the first version, every
statement is visible at once (`database`); from then on all of them go into
`draft`, which `Commit` publishes and `Die` or `Fail` drop. `writer` is who holds
the write lock; another process that has something to write then waits five
seconds and fails, if the lock has not become free (`Fail`, or the step itself).
`Fail` is also a column that appeared since the columns were read, and a version
that was recorded since the versions were. `PersistenceInit` starts from an empty
file, from one that is older than recorded versions, or from any version.

### ScenarioLibrary

`packs` maps a slug and a version to a design and to the exercise it was captured
from; a design is a base scenario, a number of objectives, portable injects and
checkpoints with their objectives. `profiles` has the number of objectives of
each organization profile. `phase` is the application: it starts by seeding the
built-in packs (`Seed`, one transaction each), then `Serve`s or gives up.

* `Import`, `Capture`: `create_scenario_pack` with `validate_scenario_pack`
  (`Valid`); `Accepts` is what it refuses.
* `CreateExercise`, `CreateFromPack`: the row of an exercise; `SaveInjects`,
  `SaveCheckpoint`, `FinishMaking` are the transactions that follow. `making` is
  what the handler still holds in memory, lost in `LibraryDies`.
* `CheckpointAdded`, `ArtifactAdded`, `Schedule`, `ClearSchedule`, `Deliver`,
  `CheckpointCompleted`: what facilitators do to the design between a launch and
  a capture. The last three run in threads, so they may come while another
  exercise is being made. `edition` counts the changes of a design; it is a
  history variable, read by the property only.

`ChaosModules` and `GeneratedActions` are the two catalogues: what a pack may name
(`models.SCENARIO_LIBRARY`) and what the generator has an inject for
(`build_inject_options`). `Available` compares them.

### Operations

`status`, `checkpoints`, `improvements`, `assessments` and `triggered` are the
tables, `log` is the bag of events in `run_events`. A handler changes its table in
one step (`CreateCheckpoint`, `CompleteCheckpoint`, `AddImprovement`,
`UpdateImprovement`, `Assess`, `AddArtifact`, `TriggerInject`, ...) and writes its event
in the next (`WriteEvent`); `handlers[r]` is the request in between. Coroutines
hold the loop (`busy`) from the arrival of their form to their answer, the others
are threads. `AskCheckpoint` looks at the status before the form is there.

* `Command`, `SetClock`: `transition_clock` reads the status and updates it where
  it is still the same (`StillRead`). `OperateLab`, `LabOperated`, `LabFailed`,
  `StartLaunched`: `control_exercise_lab`, which decides whether to start the clock
  by the status it read before docker went to work.
* `AskReport`, `ReadTable`, `Render`: a report reads the exercise and six tables in
  `readOrder`, one transaction each. `ReadinessScores` are the scores that
  `build_exercise_intelligence` may give for what was read: Python rounds each
  part and the sum, a tie to even or, by the error of its floats, not; `Rounded`
  gives both.
* `OperationsDie` ends every request; `lost` keeps the events they had yet to
  write, and is a history variable.

The times of the clock and the scheduler are in `Facilitator`, and are left out
here.

### MCApplication

The four parts (accounts, backups, evidence, labs) share no step that matters to
each other's properties, so a behaviour picks one (`part`) and leaves the others
alone; one run checks all. Beside backups no account is enabled or disabled: that
is the accounts part.

Requests to labs are made for one of them (`home`), since the labs are alike, those of a
kind in a fixed order, and no more of them than `MaxMade`; `MaxEvents` bounds the requests and the moves of the port
together. `LabsRest` lets the labs stand when these bounds are used up.

### MCDesign

In the same way a behaviour picks one `topic` of four: the schema, the design
library, what is done to one exercise, or the run history of its chaos engine. It
EXTENDS the four modules, which have no variable in common, as `DesignProofs` does.

### MCChaosEngine

The engine's instance has two parts, because what they need multiplies: `runs` has
two action runs beside one playbook run, `library` has two playbook runs
(a replay needs two) and a changing library, without action runs.


## 3. Runs

Six runs pass, six find the violations of section 7.

| run | properties | what it shows |
|---|---|---|
| `engine` | `TypeOK`, `ViewsAgree`, `EndedPlaybooksSettled`, `BudgetsRespected`, `CompletedRanItsTime`, `LibraryAcyclic`, `ElapsedIsRunningTime`, `EndedStaysEnded`, `ImplementsLifecycle` | any client calling any function in any order: records, actions in force and published conditions stay in step; what ended stays ended, and an ended playbook has no stage left that could start; a run is recorded as completed only if it ran its time; the severity budget holds at every moment between claim and link; validation keeps dependency cycles out; a playbook's clock advances exactly while it runs; the engine implements `FaultLifecycle` |
| `controller_stages` | `StagesStartWhenDue`, `NoOrphanedFault`, `PausePreventsScheduling`, `OutcomesKept` | starting stages call by call, with requests and operators in between: a stale due list never starts a stage too early or in a paused playbook, no fault of a playbook is left without a stage, and what a stage came to is rewritten only while the monitor is starting it |
| `controller_progress` | `ImplementsEngine`, `EveryFaultEnds`, `NoPlaybookRunsForever` | with a crash or raised cycle anywhere: the controller's steps are the engine's, every fault ends, no playbook runs for ever |
| `controller_stop` | `StoppedPlaybooksInert` (violated) | see 7.1 |
| `facilitator` | `ClockCoherent`, `DeliveriesLogged`, `ScheduledDeliveryAtomic`, `UnracedCommandsRetainTime`, `DueInjectsDelivered` | two requests of any kind and the scheduler, statement by statement, or one request with a failure anywhere: timestamps fit the status and paused time never exceeds the time passed; every delivery has its event, but for at most one per failure; scheduled delivery needs a running exercise and an undelivered inject; a command whose row did not change meanwhile keeps the time; what is due for automatic delivery does not stay due while the exercise runs |
| `facilitator_once` | `DeliveredOnce` (violated) | see 7.2 |
| `facilitator_time` | `TransitionsRetainTime` (violated) | see 7.3 |
| `application_stores` | `SessionsFollowPassword`, `EndedSessionsStayEnded`, `ExercisesHavePackages`, `RestoresAreExact`, `ArchivesStayVerifiable`, `RetentionBounded`, `HandedOutVerified`, `RequestsReachTheirLab`, `DefinitionsReadable`, `ReplacedDefinitionsKept` | accounts under two racing requests; backups of a working application and restores cut short anywhere; two exports and a download over one key and one directory; three requests to a lab whose port another may take, saving playbooks from forms and threads: a file that was left empty is read from the library; a file with what nobody saved, and a version lost, come of a race with a thread only; a request goes to another lab only if the port changed hands after its check; with a death of the process |
| `application_admin` | `AdministratorRemains` (violated) | see 7.4 |
| `design` | `SchemaSound`, `LoneStartsSucceed`, `LibraryUsable`, `CapturesRecreate`, `LogMatchesRecord`, `ReportsHoldTheirTimeline`, `ReadyIsEarned`, `HistoryTrue`, `FaultsWaitForOthers` | two processes migrating one database, statement by statement, dying anywhere; packs seeded, imported, captured and launched with a death in between; two requests of any kind to a running exercise, reports among them, transaction by transaction; whatever a run history drops and restores, each run is told of once and is active just if it is in force, and a fault can be ended unless the record of another one is missing |
| `library_capture` | `DesignsCapturable` (violated) | see 7.5 |
| `history_stop` | `StopAllSucceeds` (violated) | see 7.6 |

Some of them are worth a remark.

* `StagesStartWhenDue`: the due list is computed once and used over several
  engine calls. `claim_playbook_stage` checks again that the playbook runs, that
  the stage is pending and that the budget allows it, but neither time nor
  dependencies. It is right because the elapsed time of a playbook never goes back and
  ended stages stay ended: two other properties.
* `NoOrphanedFault` and `EveryFaultEnds` are the two sides of the same promise.
  Without failures no fault of a playbook is in force unless its stage is active or
  the monitor is just starting it; with a failure in between there may be one, and
  it still ends, because every run has an expiry time.
* `ViewsAgree` joins what the engine keeps three times: the status of the runs,
  the actions in force, and the conditions it publishes to the services.
* `NoPlaybookRunsForever` is `[]<>` of "not running": a stage left claimed by a
  crash never ends by itself, and only the time budget (`OverTime`) frees its
  playbook.
* `FaultsWaitForOthers` is what restoring is good for: with a single fault in force no
  number of later runs keeps it from being ended. With two it does not go that
  far (7.6).
* `UnracedCommandsRetainTime` allows the one second a pause is rounded by. It
  quantifies over the steps in which a row is written while it is still the row
  that was read; the excluded steps are what 7.3 is about.
* `ExercisesHavePackages` excepts the states after a restore was cut short, and
  only those: `torn` is cleared when a whole archive has been restored.
  `RestoresAreExact` says that the next restore does not depend on what a cut one
  left behind.
* `ArchivesStayVerifiable`: `O_EXCL` on the key file is what keeps two exports
  that both find it missing from signing with two keys.
* `RetentionBounded` counts the archives when no export is under way and none
  was cut short. The modification time of an archive is set back only after it
  was written, so each of two exports may take the other's archive for the newer
  one, and both be removed; too many never stay.
* `OutcomesKept` has one exception, and it is the code's: `fail_playbook_stage` does not
  look at the stage, so a stage that was skipped or stopped while the monitor was
  starting it is recorded as failed.
* `DeliveriesLogged` is checked with a failure in between: a trigger that dies between
  its mark and its event leaves a delivery that is not in the log. A failure costs one
  event at the most, since no two coroutines trigger at a time.
* `RequestsReachTheirLab` allows a request to go astray in one case only: the port
  changed hands after the controller had answered for the exercise. The client
  does not send the exercise along, so nothing closes that window.
* `DefinitionsReadable`: the file of a playbook may be left empty by a death. It can
  still be read, from the controller's library, because the controller takes a
  definition before any file is touched; a save that went astray has filled another
  lab's library, and is the exception. Two saves at once, one of them in a worker
  thread, may leave the start of one text and the end of the other. If that is a YAML
  mapping, it is read as it is, library or not; the property says that a file holds
  what nobody saved after such a race only.
* `ReplacedDefinitionsKept` bounds what that race may lose: of two saves that find the same
  text, the later one replaces the earlier one's definition without a version. What
  both found is kept, and coroutines, which are kept apart, lose nothing.
* `SchemaSound` and `LoneStartsSucceed` belong together. A migration that is cut short
  leaves parts without its version, so the next start runs it again; it goes
  through only because every `CREATE` says `IF NOT EXISTS` and every column is looked
  up before it is added. Two processes at once are promised less: one of them may
  fail (`Fail`), but never leave a version recorded without its parts.
* `LibraryUsable`: an imported pack that took the slug and version of a built-in one
  would have every later start refused. Imports are served only after all were
  seeded, also after a death in the middle of seeding.
* `CapturesRecreate` compares an exercise with one that was launched from its
  capture, as long as neither was changed since. `capture_exercise_as_pack` leaves
  out what happened to an inject or checkpoint, and a pack without injects or
  checkpoints gets the generated ones.
* `LogMatchesRecord` is about checkpoints, their completions, improvement actions, and the
  starts, ends and resets of the clock. The conditions in the `UPDATE` statements
  (`Completable`, `StillRead`) are what keeps a second facilitator, or a launch that
  comes back from docker, from having one of them told twice. Events that are about to be
  written count as told, and so do those that a death kept from being written: those
  the timeline does not have, and the property does not promise them.
* `ReportsHoldTheirTimeline` holds because the timeline is read before the records:
  an event is written after the record it tells of.
* `ReadyIsEarned`: the weights are 55, 15, 15 and 15 and the label needs 85, so
  without the cap on the share of events, notes could stand in for objectives.


## 4. Bounds

Every bound is a constant, used in guards (`MaxRuns`, `MaxPlaybookRuns`,
`MaxClock`, `MaxRequests`, `MaxFailures`, `MaxTime`, `MaxDeliveries`,
`MaxSessions`, `MaxHashes`, `MaxStops`, `MaxEvidenceTime`, `MaxDeaths`,
`MaxMoves`, `MaxAppDeaths`, `MaxMade`, `MaxEvents`, `MaxStarts`, `MaxPacks`, `MaxChanges`,
`MaxLibraryDeaths`, `MaxAsked`, `MaxChaosRuns`, `MaxOperationDeaths`,
`MaxHistoryRuns`).

* **Engine.** Two actions, one playbook id. Part `runs`: two runs (replacing a
  run in force needs two) and two independent stages of severity 2 with a budget
  of 3 (`Tight`), so that exactly one fits. Part `library`: two playbook runs, a
  chain and a two-cycle among the definitions.
  `MaxClock = 0` does not stop time: the clock ticks as long as a deadline lies
  ahead (`DeadlineAhead`: an expiry, a stage's start, a time budget) and stands
  when nothing depends on it any more.
* **Controller.** One playbook of two stages, the second a tick later and after
  the first (`Chain`); one apply request; two runs in `controller_stages`, so
  that a request and a stage compete for an action; one failure in
  `controller_progress`.
* **Facilitator.** A behaviour is of one of two `Parts`, since together they are too
  many: `races` has two requests about a narrative inject, and nothing fails;
  `failures` has one request, a chaos inject as well, and one failure. Neither holds up
  a step that fairness promises. A request that has ended may make another one, so two
  requests give any number of commands, two at a time. Two ticks to a second make a pause
  that rounds away. `MaxTime` 2 or 3 is a second or more, and the offset is one
  second. A manual trigger is not repeated once an inject was delivered
  `MaxDeliveries` times. Injects may start scheduled, automatically delivered ones
  only if they are narrative, as `schedule_inject` allows.
* **Application.** Two administrators, two requests, two sessions and password
  hashes, sessions that live for one tick; two exercises, one stop of the
  application (and so one restore, which may be cut and begun again); two
  exports and one download, retention of one archive and one tick, one death.
  Account requests, exercises and exports are told apart by name only
  (`SYMMETRY Alike`); no liveness is checked under symmetry.
* **Labs.** Two labs, two playbooks of which one is generated, two definitions. Three of
  two coroutines and two threads make requests (`MaxMade`): two that race, and one
  that meets what they left. The port changes hands twice (`MaxMoves`): away from the
  lab and to the other one; and a behaviour has three requests, or two and one of these
  changes, or one and both (`MaxEvents`). Requests of a kind are told apart by name
  only, and are made in a fixed order. One death.
* **Design.** Schema: two processes and four calls, so that a third call meets
  what two others left, and a fourth what that one left; every call may die.
  Library: two of the six built-in scenarios (the one with most objectives and one
  with actions the other lacks), one version, two exercises, one profile of one
  objective, one change to an exercise, three packs (the two that are seeded and one
  imported or captured), one death; the limits of 9 injects and checkpoints are
  there to be met by no instance and are compared all the same. Exercise: two
  requests in flight and three in all (what one did, and two that race about it), one
  objective, so that its rating of 2 or 3 points of 3 lies on either side of 71.5 %,
  one inject of each kind, one chaos run, one death. History: two actions, and three
  records instead of 200, one more than faults can be in force, as in the code,
  where actions are far fewer than 200; four runs fill the history and drop the
  oldest, whose restoring then drops the next. Processes, requests and
  exercises are told apart by name only (`AlikeDesigns`).

Two of everything that competes is what each of these races takes. The theorems
of section 6 remove the bounds for most of the safety properties.

The runs but `design`, `library_capture` and `history_stop` check for deadlock too: no reachable
state of the instances is without a step. (A bound does not stop the models, since
reads and refusals remain; the labs, whose requests are made once each, rest when
all have ended: `LabsRest`.) The three take calls and requests from bounded
supplies, and stop when these are used up.


## 5. Fairness

* **Controller:** weak fairness of `MonitorStep` (the monitor loops for as long
  as the server lives, and docker restarts the server) and of `TimeStep`.
  Nothing is assumed of operators and requests: they may stop at any point.
* **Facilitator:** weak fairness of `Tick`; of `CoroutineStep(r)`, the coroutine
  that holds the event loop; of `DispatchStep(Scheduler)`, the scheduler's
  thread; strong fairness of `SchedulerWake`. The last is needed because other
  coroutines may take the loop again and again; asyncio's ready queue is first
  in, first out, so the scheduler is not passed over for ever. Threads of other
  requests are not assumed to go on.
* The other specifications state no fairness, and no liveness is checked of them.


## 6. Proofs

All theorems are for arbitrary constants that satisfy the named assumptions:
`EngineAssumption`, `ControllerAssumption`, `FacilitatorAssumption`, `AccountsAssumption`,
`BackupsAssumption`, `EvidenceAssumption`, `LabAssumption`,
`PersistenceAssumption`, `LibraryAssumption`, `OperationsAssumption` and
`HistoryAssumption`: types of the constants, that the values standing for "none" are
not among the others, and that stages, actions, requests, objectives, injects and
artifacts are finite. `HistoryAssumption` says in addition that fewer actions exist
than records are kept (13 and 200 in the code). TLC evaluates them. Every safety and
action property of the passing runs is a theorem.

**Engine** (`ChaosEngineProofs`). `ViewsAgree` and the like are not inductive
alone: whether a run may be completed depends on its expiry time, whether a stage
is settled on its playbook's status. The inductive invariant `IInv` conjoins the
type of clock and library, `conditions = Contributing(active)`, `RunsOK` (a run's
record fits its status, and exactly the runs with status `active` are in
`active`, under their action) and `PlaybooksOK` (times of a playbook run fit its
status, and no ended playbook has a pending or starting stage). They take the
state's parts as parameters, so that lemmas about the operators (`Released`,
`Finish`, `Ended`, `SyncedPlaybooks`) are stated on parts and used for every
action that calls them. From it: `TypeCorrect`, `ViewsStayMatched`,
`EndedPlaybooksStaySettled`, `CompletedRunsRanTheirTime`,
and the action properties `EndedRunsStayEnded` and `ElapsedCountsRunningTime`.

`BudgetsRespected` counts stages, while `BudgetAllows` counts what is in force for
anyone, so the proof has to know which run a stage stands for. `OwnersOK` says that a run
which was requested for a stage is of a playbook run that exists, with the intensity its
definition gives the stage; that no two runs are requested for one stage; and that
an active stage is linked to its run, which has begun. `BudgetInv` is `IInv`, `OwnersOK`
and the budgets. A step either adds no stage to those that occupy the budgets (`Quiet`,
`NoneOccupiesMore`), and a sum over fewer stages is no more; or links a stage, which was
counted while it was claimed; or claims one, and then the linked stages weigh no more
than the runs in force (`LinkedWithinForce`, by the injection from stages to runs),
which `BudgetAllows` has counted.

`LibraryStaysAcyclic` rests on `ValidatorExact`: `Resolved`, a recursive function on
the number of rounds, ends at the largest set of stages that can be put in order. If
it ends at all stages, the round in which each was reached orders them; if they can be
ordered, the first stage that was not reached would have been.

**Sums** (`FiniteSums`). A fold over a set is, expanded, a recursive function on its
subsets. That it exists and is unique, and what it gives for unions, subsets and
injections, takes induction on finite sets; its property is written as a set
(`SubsetsFromSmaller`, from the least counterexample that `WFMin` gives), since the
library's induction theorems take operators.

**Refinement.** `EngineImplementsLifecycle` is `Spec => ImplementsLifecycle`: each
engine action maps to one step of `FaultLifecycle` or to a stutter.
`FaultsAreExclusive` proves `OneRunPerFault` of the abstract specification.

**Controller** (`ChaosControllerProofs`). The controller's steps are made of the
engine's actions, but the engine does not let anyone apply a stage's run in any
order; that the monitor keeps to the order follows from what it holds between two
calls. `CInv` conjoins `BudgetInv`, `MonitorOK` (the stage it is starting was claimed
by it, and the run it requested is that stage's, begun or not according to the
call it is at) and that requests in flight apply nobody's run. `Persists` is what no
call takes back: a run keeps its owner and, once begun, its expiry; a playbook run
keeps its definition; a stage does not become pending again. With it,
`ControllerImplementsEngine` is a step simulation, under crashes anywhere, and the
engine's theorems hold of the server. From `CInv` as well:

* `PausingPreventsScheduling`: a stage is claimed by the monitor only, which looks
  again, under the lock, whether the playbook runs.
* `StagesWaitUntilDue`, by `DueInv`: an entry of the due list stays due as long as
  its playbook lives (time and ended dependencies are not taken back), although
  others pause, skip, stop and abort; claiming asks for no more than a living playbook.
* `OutcomesAreKept`: of the engine's calls only `FailStage` rewrites an outcome
  (`StepKeepsOutcomes`, `FailKeepsOutcomes`), and of the controller's processes only the
  monitor makes that call, with its item.
* `NoFaultIsOrphaned`, by `FaultsHeld`: `BeingStarted` covers a fault from its
  application to its link; the two ways out of a refused link (the stage was skipped, the
  playbook was stopped) end the fault before the stage fails
  (`FailedStageHasNoFault`). It holds only while nothing was cut short
  (`failures = 0`): what a crash in between leaves is 7.1.

**Facilitator** (`FacilitatorProofs`). `ClockCoherent` compares timestamps with the
clock; to keep it, what a request read and will write back must fit as well, even
if it was read before other requests changed the row. `IInv` adds `TasksOK` (what each
task holds is a row that is coherent at every later time) and `CountsOK` (an
inject's count, its events and the triggers about to be logged). That a failure loses
one event at the most is `TriggersHold`: a trigger has the event loop from its mark to
its event, so no two of them are about to be logged at a time. From it:
`TypeCorrect`, `ClockStaysCoherent`, `DeliveriesStayLogged`,
`ScheduledDeliveriesAreAtomic`, `CommandsRetainTime`. They hold for any
resolution of time and any number of requests.

**Backups** (`BackupsProofs`). `ExercisesHavePackages` depends on what is still to
be copied: `BInv` conjoins the accounts' invariant `AInv`, `FilesTypeOK`,
`StoppedOK` (a stopped application creates nothing), `SnapshotOK` (the exercises
of a database copy have whole packages now, so the files copied next will include
them), `ArchiveOK` and `RestoreOK` (what is staged at each call is the archive's).
From it: `BackupsTypeCorrect`, `PasswordResetsEndSessions`,
`PackagesStayWithExercises`, `FinishedRestoresAreExact`,
`EndedSessionsNeverReturn`; the last is why `ARCHITECTURE.md:97-98` has a snapshot drop
sessions, "so restore cannot resurrect browser access".

**Evidence** (`EvidenceProofs`). `EInv` conjoins `TypesOK`, `KeysOK` (a key in
memory that will sign is the key file's), `WritersOK` (only the maker of the key
file writes it) and `signed = keyFile` of every archive. From it:
`ArchivesVerifiableForever`. `HandedOutIsVerified` needs that a name is given once:
`TInv` adds `NamesOK` (no name that is there, or about to be opened, is given
again, and no two requests were given one) and `VerifiedOK` (a file that is still there
under the verified name is whole and signed with that key). `RetentionStaysBounded`
is about prunes that go through listings others make stale. An archive is `Unlisted`
while its export has yet to list; `Left(w)` are the archives that prune `w` has come to and
left. `RetentionInv`: unless an export was cut short, either no more archives than
`RetentionCount` are there that are not `Unlisted`, or some prune has left no more
than that of those it has come to (`PruneAhead`), and goes on. An export that lists
becomes such a prune, for nothing is `Unlisted` then that it does not see but the
archives of those that list later; the prune that ends makes the first case true.

**Labs** (`LabRuntimeProofs`). An empty file is read from the library because its
writer's definition is there, and because nobody removes definitions; a replaced
definition is kept because what a save read of a file is still there when it writes,
unless a rival came in between. Of two saves of one playbook at a time one is in a
thread, since at most one coroutine is under way: so whoever changes a file between
another's steps is its `Rival`. `LInv` says so of every step of a request: `SentOK`
(nothing is reached before it is sent to, and who writes files has filled a
library), `VersionsOK`, `LoopOK`, `KeptOK` (what a save found is among the versions or
still in the file, if no rival's definition or something broken is there), `EmptiedOK` (a
file that was opened stays empty but for rivals) and `BrokenOK` (a broken file has its
definition in the library, or in another lab's, and a mixture comes of a race). From it:
`LabTypeCorrect`, `BrokenFilesReadable`, `ReplacedAreKept`. `RequestsGoHome` adds
`CheckedOK`: a request about to be sent has the port's lab, or has seen fewer
moves than there were.

**Schema** (`DesignProofs`). Of the migrations the proofs use three facts
(`MigrationFacts`): each has statements, names no part twice, and reads the columns
before it adds one. `PInv` conjoins `WriterOK` (only who has the write lock has a
draft), `RecordedOK` (a version comes after its parts, in the database and in the
draft), `CallOK` (what a call has done or read is there for it to see: other calls
take nothing away), and, for `LoneStartsSucceed`, `AloneOK` and `OwnOK`: a call that no
other was under way with sees no version it did not find or record, and a column it
has yet to add is there only if it was there when it looked. `Frame` says once what
a step of one call may do to the others. From it: `SchemaStaysSound`,
`LoneStartsNeverFail`.

**Library** (`DesignProofs`). `LibraryInv` conjoins `RowsOK` (exercises have the
shape the code gives them), `SeedsOK` (seeding goes through the built-in packs and has
changed none), `PacksOK` (every pack is valid, and one that was captured is the
design its exercise had) and `MadeOK` (an exercise being made has so far what its
plan gives it). `MadeOK` makes the round trip: what is portable of an exercise under
way, with what it still lacks, is the design of its pack, so a finished one that
nobody changed has the design its pack was captured with. From it: `LibraryStaysUsable`,
`CapturesAlwaysRecreate`.

**Operations** (`DesignProofs`). `TimelineTellsAll` counts. A handler changes its table
in one transaction and tells of it in another, and may die in between, so the
invariant equates, for each kind of event and each object, what the tables record
with what `log` has, what handlers in flight are about to write, and what was `lost`
(`Times`). `OperationsInv` conjoins `RequestsOK` and `TablesOK` (shapes),
`CheckpointFacts`, `ImprovementFacts` and `ClockFacts` (one such equation for each way a
checkpoint, an improvement or the exercise changes). By `Recorded`, each step either
leaves these sums and the tables alone (`Steady`: an event may move from a handler to
`log` or `lost`), or changes one row and gives the handler its one event (`Tells`).
`ReportsHoldWhatTheyTell` adds `EventsBacked` (whatever is told has been done, and
stays done: `Grows`) and `ReadingWell` (a report has read the first tables of
`readOrder`; what the timeline it read tells of is in the tables it read after it, or
in those it has yet to read). `ReadyMeansEarned` is arithmetic on top: each of the
three other scores is at most 100, with a weight of 45 % together, so "ready" takes a
rounded 72 for the objectives, whichever way each part was rounded.

**Run history** (`DesignProofs`). `HistoryInv` says of the records what
`HistoryTrue` does, that each of them is of a run made, of its own action, and that no
run is in force for two actions. `normalize_state` restores by name: `ByName` puts
any set of actions in order without repetition, which takes that ranks among
finitely many places are all taken (`RanksAreTaken`). `NewestTrue` and `RestoredTrue` then show
that dropping the oldest and appending the missing keeps every record true, and
`EndKeeps`, `BeginRunKeeps` and `ActivateRunKeeps` the same of every call. From it:
`HistoryStaysTrue`, `FaultsOnlyWaitForOthers`. That fewer faults than records exist is
what keeps the restored ones in.

What the provers cannot do, and TLC checks: liveness under fairness (`EveryFaultEnds`,
`NoPlaybookRunsForever`, `DueInjectsDelivered`). Induction over data is
out of reach of the library's theorems with an operator parameter; where it was needed
(sums, rounds of the validator, ranks) the proofs take a least counterexample from a
well-founded relation instead.


## 7. Where code and documentation disagree

1. **Emergency stop.** `docs/RELEASE_CHECKLIST.md:29`: "Emergency stop ends all
   active actions and playbooks." Between `claim_playbook_stage` and
   `activate_run` of a stage, a stop ends the playbook and skips the stage; the
   orchestrator then activates the run it had requested, since `activate_run`
   looks at the run's own status only (`chaos_server.py.tmpl:165`). The fault is
   in force until `link_playbook_stage` refuses the stage and the undo aborts it, or, after
   a crash in between, for its whole duration. Run `controller_stop`.
2. **Deliver once.** `docs/RELEASE_CHECKLIST.md:31`: "Due narrative injects
   deliver once and pause with exercise time." `docs/THREAT_MODEL.md:68`:
   "delivery is atomic and idempotent". Scheduled delivery is
   (`ScheduledDeliveryAtomic`); a manual trigger checks at `main.py:925` and marks
   unconditionally at `main.py:959`, and the scheduler's thread may deliver in
   between. Run `facilitator_once`.
3. **Retain time.** `docs/RELEASE_CHECKLIST.md:30`: "Clock start, pause, resume,
   complete, and reset transitions retain time." The compare-and-set at
   `models.py:858` compares the status only; if others pause and resume between
   the read and the write, the status is back and the time they recorded is
   overwritten. Run `facilitator_time`. Comparing the whole row would mend it:
   `UnracedCommandsRetainTime` holds, and is proved.
4. **Last administrator.** `docs/RELEASE_SECURITY_REVIEW.md:70`: "The last active
   administrator cannot be disabled." `set_user_active` counts in one
   transaction and updates in another (`auth.py:217`), in worker threads: two
   requests that disable one of two administrators each both count two. A
   restart does not help, since the bootstrap administrator is only made when no user
   exists. Run `application_admin`.
5. **Capture.** `docs/SCENARIO_PACKS.md:29-33` describes the workflow: "Launch a
   built-in or imported pack with optional profile context", "Tailor the generated
   exercise and MSEL as needed", then capture the resulting design. A profile
   replaces the pack's objectives, and `create_pack_checkpoints`
   (`scenario_library.py:241`) keeps the objectives the pack's checkpoints are
   linked to. If the profile has fewer, the exercise is linked to objectives it
   does not have, and `capture` refuses it, however it is tailored. Run
   `library_capture`.
6. **Emergency stop, after many runs.** The sentence of 7.1 once more. When two
   faults in force have the two oldest records, the next `begin_run` drops the first.
   Every read then restores it, as the newest (`chaos_engine.py.tmpl:247`), and by
   that drops the second, which `stop_all` does not find: it raises, and neither
   fault is ended. Aborting the second fault and observing it raise too, and the
   expiry of it ends nothing; any other write mends the state, but if the monitor
   comes to the second fault first (it goes by name), it makes none. Run
   `history_stop`. It takes 200 runs while two faults last, up to an hour each.
   `stop_playbook_unlocked` (`chaos_engine.py.tmpl:1273`) looks up the run of each
   active stage in the same way, so the second fault may be a stage's; if that run had
   ended, and was dropped before the stage took over how, nothing restores it, and
   the playbook can neither be stopped nor end.


## 8. What is not modelled, and why

* Inside the modelled parts: magnitudes and patterns of effects, observations,
  artifacts, guardrail thresholds (a guardrail is a choice of outcome), the
  truncation of the playbook runs (50 of them), wording of
  events, the percentage shown beside the clock, what an archive contains, names
  and roles other than administrator, corrupt or foreign backups (refused before
  anything is written), and the order of SQLite's write-ahead log and its database
  file within one replacement.
* Schema: the types and defaults of columns, and the rows that are there. Other
  statements are modelled with the component that issues them.
* Library: names, descriptions and the limits of texts. Malformed files are
  refused before anything changes.
* Operations: the sorted views for facilitators, participants and the run of show,
  which change nothing; times; the impact scores of runs; and what an event says.
* Scenario generator: apart from which injects it makes, text. Lab renderer: text
  (compose file, services, the copy of the chaos server). Configuration: read once.
  Artifacts and paths: path arithmetic, with no state between calls.

`PROJECT.json` lists the hazards of the code, each with the properties that
cover it or the reason why none does yet.


## 9. Plan

In order of what matters most to an exercise. Done:

1. `FaultLifecycle` <- `ChaosEngine` <- `ChaosController` (a refinement and an
   extension), runs `engine` and `controller_*`, proofs of all three.
2. `Facilitator`, runs `facilitator*`, proofs.
3. `Accounts` <- `Backups`; `Evidence`; composed for checking in
   `MCApplication`, runs `application_*`, proofs.
4. `LabRuntime`: the shared port and the playbook files; run `application_stores`, proofs.
5. `Persistence`, `ScenarioLibrary`, `Operations`; checked in `MCDesign`, proofs.
6. `RunHistory`; checked in `MCDesign`, proofs.

Next:

7. Guardrails with outcomes tied to the run that was measured
   (`chaos_server.py.tmpl:199`).
8. SQLite's checkpoint and log files in `RestoreDatabase` (`backups.py:117`).

Proofs to add: that the models of backups and labs refine specifications of what they
promise (an atomic snapshot, a playbook file with one current definition), and
`StopAllSucceeds` of `RunHistory` under the hypothesis that at most one fault in force
has lost its record. `EveryFaultEnds` could be brought closer by proving the step that
fairness is applied to, that the monitor's next cycle ends what is over.
