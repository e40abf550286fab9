---------------------------- MODULE Facilitator ----------------------------
(***************************************************************************)
(* One exercise of the application: its clock and the delivery of its      *)
(* injects (app/services/facilitator.py, the handlers of app/main.py that  *)
(* use it and the SQL of app/models.py under it).  The two rows of the     *)
(* database are shared by                                                  *)
(*   - handlers in worker threads (clock commands, clearing a schedule),   *)
(*   - coroutines on the event loop (triggering and scheduling an inject), *)
(*     which run alone among coroutines from one await to the next, and    *)
(*   - the scheduler, a coroutine whose dispatch runs in a thread.         *)
(* Every SQL statement is one step; between two of them any other process  *)
(* may run.  Reads that directly follow each other are one step.           *)
(*                                                                         *)
(* Left out: the wording of events, the events of clock commands, and what *)
(* a chaos or artifact inject does to the lab (it may only fail here).     *)
(***************************************************************************)
EXTENDS Integers, FiniteSets

CONSTANTS
  Injects,         \* the injects of the exercise
  Kinds,           \* the action_type of each
  Requests,        \* requests that may be in flight
  Offsets,         \* schedule offsets, in seconds, a request may name
  TicksPerSecond,  \* the resolution of a timestamp
  MaxTime,         \* bound: ticks
  MaxDeliveries,   \* bound: an inject triggered so often is not triggered again
  MaxFailures,     \* bound: crashes, and dispatches of the scheduler that raise
  Scheduler,       \* the scheduler's thread
  None             \* "no value" (NULL)

ASSUME FacilitatorAssumption ==
  /\ Kinds \in [Injects -> {"narrative", "artifact", "chaos_script"}]
  /\ Offsets \subseteq Nat /\ IsFiniteSet(Requests)
  /\ TicksPerSecond \in Nat \ {0}
  /\ MaxTime \in Nat /\ MaxDeliveries \in Nat /\ MaxFailures \in Nat
  /\ None \notin Nat /\ None \notin Requests /\ None \notin Injects
  /\ Scheduler \notin Requests

VARIABLES
  now,              \* the wall clock, in ticks
  exercise,         \* the clock columns of the exercises row
  injects,          \* the delivery columns of the inject_options rows
  scheduledEvents,  \* scheduled_inject_delivered events of each inject
  triggerEvents,    \* inject_triggered events of each inject
  tasks,            \* where each request and the scheduler are
  loop,             \* the coroutine the event loop is running
  failures          \* crashes and failed dispatches so far

rows == <<exercise, injects, scheduledEvents, triggerEvents>>
vars == <<now, rows, tasks, loop, failures>>

Tasks    == Requests \cup {Scheduler}
Commands == {"start", "pause", "resume", "complete", "reset"}
Time     == Nat \cup {None}

Exercise ==
  [status : {"created", "running", "paused", "completed"},
   started : Time, pausedAt : Time, pausedSeconds : Nat, completed : Time]

Inject ==
  [triggered : BOOLEAN, count : Nat, offset : Offsets \cup {None}, auto : BOOLEAN]

(* What a task holds between its steps: the exercise row it read and when, *)
(* the elapsed time it computed, and what is left to do.                   *)
Task ==
  [step : {"idle", "clock", "dispatch", "list", "deliver", "trigger", "event",
           "schedule", "clear"},
   command : Commands \cup {None}, seen : Exercise \cup {None}, asked : Time,
   elapsed : Nat, todo : SUBSET Injects,
   inject : Injects \cup {None}, offset : Offsets \cup {None}, auto : BOOLEAN]

Idle ==
  [step |-> "idle", command |-> None, seen |-> None, asked |-> None,
   elapsed |-> 0, todo |-> {}, inject |-> None, offset |-> None, auto |-> FALSE]

TypeOK ==
  /\ now \in Nat
  /\ exercise \in Exercise
  /\ injects \in [Injects -> Inject]
  /\ scheduledEvents \in [Injects -> Nat]
  /\ triggerEvents \in [Injects -> Nat]
  /\ tasks \in [Tasks -> Task]
  /\ loop \in Requests \cup {None}
  /\ failures \in Nat

(***************************************************************************)
(* The exercise clock.                                                     *)
(***************************************************************************)

(* int((end - start).total_seconds()), _seconds_between *)
Seconds(start, end) == (end - start) \div TicksPerSecond

(* Mutant: a paused clock is not frozen. *)
EffectiveEndRunning(row, t) ==
  IF row.status = "completed" THEN row.completed ELSE t

(* Up to when the clock of a row counts at time t. *)
EffectiveEnd(row, t) ==
  CASE row.status = "paused"    -> row.pausedAt
    [] row.status = "completed" -> row.completed
    [] OTHER                    -> t

(* clock_snapshot *)
ElapsedSeconds(row, t) ==
  IF row.started = None THEN 0
  ELSE LET spent == Seconds(row.started, EffectiveEnd(row, t)) - row.pausedSeconds
       IN  IF spent < 0 THEN 0 ELSE spent

CanTransition(row, command) ==
  \/ command = "start"    /\ row.status = "created"
  \/ command = "pause"    /\ row.status = "running"
  \/ command = "resume"   /\ row.status = "paused"
  \/ command = "complete" /\ row.status \in {"running", "paused"}
  \/ command = "reset"    /\ row.status = "completed"

(* Mutant: a pause is rounded up to seconds. *)
PausedUntilRoundedUp(row, t) ==
  row.pausedSeconds
    + (IF row.status = "paused" THEN Seconds(row.pausedAt, t + TicksPerSecond - 1) ELSE 0)

(* The paused seconds once the pause of a row, if any, ends at time t. *)
PausedUntil(row, t) ==
  row.pausedSeconds + (IF row.status = "paused" THEN Seconds(row.pausedAt, t) ELSE 0)

(* The row transition_clock writes. *)
Transition(row, command, t) ==
  CASE command = "start" ->
         [status |-> "running", started |-> t, pausedAt |-> None,
          pausedSeconds |-> 0, completed |-> None]
    [] command = "pause" -> [row EXCEPT !.status = "paused", !.pausedAt = t]
    [] command = "resume" ->
         [row EXCEPT !.status = "running", !.pausedAt = None,
                     !.pausedSeconds = PausedUntil(row, t)]
    [] command = "complete" ->
         [row EXCEPT !.status = "completed", !.pausedAt = None,
                     !.pausedSeconds = PausedUntil(row, t), !.completed = t]
    [] command = "reset" ->
         [status |-> "created", started |-> None, pausedAt |-> None,
          pausedSeconds |-> 0, completed |-> None]

(***************************************************************************)
(* Steps of tasks.                                                         *)
(***************************************************************************)
Is(t, step)       == tasks[t].step = step
Becomes(t, task)  == tasks' = [tasks EXCEPT ![t] = task]
Finishes(t)       == Becomes(t, Idle) /\ loop' = IF loop = t THEN None ELSE loop
Continues(t, step) == tasks' = [tasks EXCEPT ![t].step = step] /\ UNCHANGED loop

Quiet == UNCHANGED <<now, failures>>

(***************************************************************************)
(* Clock commands: transition_clock, called by control_exercise_clock and  *)
(* at the end of a lab launch.  A command the row refuses does nothing.    *)
(***************************************************************************)
ClockRead(r, command) ==
  /\ Is(r, "idle")
  /\ CanTransition(exercise, command)
  /\ Becomes(r, [Idle EXCEPT !.step = "clock", !.command = command,
                             !.seen = exercise, !.asked = now])
  /\ UNCHANGED <<rows, loop>> /\ Quiet

(* update_exercise_clock finds another status than the one that was read. *)
ClockChanged(r) == exercise.status # tasks[r].seen.status

(* The whole row is replaced by one computed from the row that was read. *)
ClockWrite(r) ==
  LET command == tasks[r].command
  IN  /\ Is(r, "clock")
      /\ ~ClockChanged(r)
      /\ exercise' = Transition(tasks[r].seen, command, tasks[r].asked)
      /\ Becomes(r, IF command \in {"start", "resume"}
                    THEN [Idle EXCEPT !.step = "dispatch"] ELSE Idle)
      /\ UNCHANGED <<injects, scheduledEvents, triggerEvents, loop>> /\ Quiet

ClockRefused(r) ==
  /\ Is(r, "clock")
  /\ ClockChanged(r)
  /\ Finishes(r)
  /\ UNCHANGED rows /\ Quiet

(***************************************************************************)
(* dispatch_due_injects, run by the scheduler and at the end of requests.  *)
(***************************************************************************)
Dispatch(t) ==
  /\ Is(t, "dispatch")
  /\ IF exercise.status = "running"
     THEN /\ Becomes(t, [Idle EXCEPT !.step = "list", !.elapsed = ElapsedSeconds(exercise, now)])
          /\ UNCHANGED loop
     ELSE Finishes(t)
  /\ UNCHANGED rows /\ Quiet

(* Mutant: an inject is due only after its offset. *)
DueLate(elapsed) ==
  {i \in Injects : /\ Kinds[i] = "narrative" /\ ~injects[i].triggered /\ injects[i].auto
                   /\ injects[i].offset # None /\ injects[i].offset < elapsed}

(* The injects a dispatcher finds due. *)
Due(elapsed) ==
  {i \in Injects : /\ Kinds[i] = "narrative" /\ ~injects[i].triggered /\ injects[i].auto
                   /\ injects[i].offset # None /\ injects[i].offset <= elapsed}

DispatchList(t) ==
  /\ Is(t, "list")
  /\ Becomes(t, [tasks[t] EXCEPT !.step = "deliver", !.todo = Due(tasks[t].elapsed)])
  /\ UNCHANGED <<rows, loop>> /\ Quiet

(* Mutant: the statement does not ask for an undelivered inject. *)
DeliverableAgain(i) ==
  /\ Kinds[i] = "narrative" /\ injects[i].auto
  /\ injects[i].offset # None
  /\ exercise.status = "running"

(* What the UPDATE of deliver_scheduled_inject asks for.  It does not look *)
(* at the value of the offset.                                             *)
Deliverable(i) ==
  /\ Kinds[i] = "narrative" /\ ~injects[i].triggered /\ injects[i].auto
  /\ injects[i].offset # None
  /\ exercise.status = "running"

Triggered(i) == [injects EXCEPT ![i].triggered = TRUE, ![i].count = @ + 1]

(* deliver_scheduled_inject: the update and its event are one transaction. *)
Deliver(t, i) ==
  /\ Is(t, "deliver") /\ i \in tasks[t].todo
  /\ IF Deliverable(i)
     THEN /\ injects' = Triggered(i)
          /\ scheduledEvents' = [scheduledEvents EXCEPT ![i] = @ + 1]
     ELSE UNCHANGED <<injects, scheduledEvents>>
  /\ tasks' = [tasks EXCEPT ![t].todo = @ \ {i}]
  /\ UNCHANGED <<exercise, triggerEvents, loop>> /\ Quiet

DispatchEnd(t) ==
  /\ Is(t, "deliver") /\ tasks[t].todo = {}
  /\ Finishes(t)
  /\ UNCHANGED rows /\ Quiet

DispatchStep(t) ==
  \/ Dispatch(t)
  \/ DispatchList(t)
  \/ \E i \in Injects : Deliver(t, i)
  \/ DispatchEnd(t)

(* The scheduler's coroutine wakes when the event loop comes to it. *)
SchedulerWake ==
  /\ Is(Scheduler, "idle") /\ loop = None
  /\ Becomes(Scheduler, [Idle EXCEPT !.step = "dispatch"])
  /\ UNCHANGED <<rows, loop>> /\ Quiet

(***************************************************************************)
(* trigger_inject: the form is read first, the rest runs without an await. *)
(***************************************************************************)
TriggerRead(r, i) ==
  /\ Is(r, "idle") /\ loop = None
  /\ injects[i].count < MaxDeliveries
  /\ Kinds[i] = "chaos_script" \/ ~injects[i].triggered
  /\ Becomes(r, [Idle EXCEPT !.step = "trigger", !.inject = i])
  /\ loop' = r
  /\ UNCHANGED rows /\ Quiet

(* The lab refuses the chaos action, or the artifact does not verify. *)
TriggerFails(r) ==
  /\ Is(r, "trigger")
  /\ Kinds[tasks[r].inject] # "narrative"
  /\ Finishes(r)
  /\ UNCHANGED rows /\ Quiet

(* Mutant: a delivered inject is marked, not counted again. *)
TriggerMarkOnce(r) ==
  /\ Is(r, "trigger")
  /\ injects' = [injects EXCEPT ![tasks[r].inject].triggered = TRUE,
                                ![tasks[r].inject].count = 1]
  /\ Continues(r, "event")
  /\ UNCHANGED <<exercise, scheduledEvents, triggerEvents>> /\ Quiet

(* mark_inject_triggered, whatever the row holds by now. *)
TriggerMark(r) ==
  /\ Is(r, "trigger")
  /\ injects' = Triggered(tasks[r].inject)
  /\ Continues(r, "event")
  /\ UNCHANGED <<exercise, scheduledEvents, triggerEvents>> /\ Quiet

TriggerEvent(r) ==
  /\ Is(r, "event")
  /\ triggerEvents' = [triggerEvents EXCEPT ![tasks[r].inject] = @ + 1]
  /\ Finishes(r)
  /\ UNCHANGED <<exercise, injects, scheduledEvents>> /\ Quiet

(***************************************************************************)
(* set_inject_schedule reads the rows before it awaits the form, checks    *)
(* what it read after it, then writes and dispatches.  A request that its  *)
(* checks will refuse does nothing and is not started.                     *)
(***************************************************************************)
ScheduleRead(r, i, offset, auto) ==
  /\ Is(r, "idle") /\ loop = None
  /\ Kinds[i] = "narrative" /\ ~injects[i].triggered /\ exercise.status # "completed"
  /\ Becomes(r, [Idle EXCEPT !.step = "schedule", !.inject = i,
                             !.offset = offset, !.auto = auto])
  /\ UNCHANGED <<rows, loop>> /\ Quiet

ScheduleWrite(r) ==
  LET task == tasks[r]
  IN  /\ Is(r, "schedule") /\ loop = None
      /\ injects' = [injects EXCEPT ![task.inject].offset = task.offset,
                                    ![task.inject].auto = task.auto]
      /\ Becomes(r, [Idle EXCEPT !.step = "dispatch"])
      /\ loop' = r
      /\ UNCHANGED <<exercise, scheduledEvents, triggerEvents>> /\ Quiet

(* clear_schedule, in a worker thread *)
ClearRead(r, i) ==
  /\ Is(r, "idle")
  /\ ~injects[i].triggered
  /\ Becomes(r, [Idle EXCEPT !.step = "clear", !.inject = i])
  /\ UNCHANGED <<rows, loop>> /\ Quiet

ClearWrite(r) ==
  /\ Is(r, "clear")
  /\ injects' = [injects EXCEPT ![tasks[r].inject].offset = None,
                                ![tasks[r].inject].auto = FALSE]
  /\ Finishes(r)
  /\ UNCHANGED <<exercise, scheduledEvents, triggerEvents>> /\ Quiet

(***************************************************************************)
(* A task fails (a busy database raises), or the application restarts and  *)
(* all of them are lost.  The rows keep what was committed.                *)
(***************************************************************************)
Failure ==
  /\ failures < MaxFailures
  /\ failures' = failures + 1
  /\ \E lost \in {Tasks} \cup {{t} : t \in Tasks} :
       /\ \E t \in lost : tasks[t] # Idle
       /\ tasks' = [t \in Tasks |-> IF t \in lost THEN Idle ELSE tasks[t]]
       /\ loop' = IF loop \in lost THEN None ELSE loop
  /\ UNCHANGED <<now, rows>>

Tick ==
  /\ now < MaxTime
  /\ now' = now + 1
  /\ UNCHANGED <<rows, tasks, loop, failures>>

Init ==
  /\ now = 0
  /\ exercise = [status |-> "created", started |-> None, pausedAt |-> None,
                 pausedSeconds |-> 0, completed |-> None]
  /\ \E offset \in [Injects -> Offsets \cup {None}], auto \in [Injects -> BOOLEAN] :
       /\ \A i \in Injects : auto[i] => Kinds[i] = "narrative"
       /\ injects = [i \in Injects |-> [triggered |-> FALSE, count |-> 0,
                                       offset |-> offset[i], auto |-> auto[i]]]
  /\ scheduledEvents = [i \in Injects |-> 0]
  /\ triggerEvents = [i \in Injects |-> 0]
  /\ tasks = [t \in Tasks |-> Idle]
  /\ loop = None
  /\ failures = 0

ClockStep(r) ==
  \/ \E command \in Commands : ClockRead(r, command)
  \/ ClockWrite(r)
  \/ ClockRefused(r)

TriggerStep(r) ==
  \/ \E i \in Injects : TriggerRead(r, i)
  \/ TriggerFails(r)
  \/ TriggerMark(r)
  \/ TriggerEvent(r)

ScheduleStep(r) ==
  \/ \E i \in Injects, offset \in Offsets, auto \in BOOLEAN : ScheduleRead(r, i, offset, auto)
  \/ ScheduleWrite(r)
  \/ \E i \in Injects : ClearRead(r, i)
  \/ ClearWrite(r)

Next ==
  \/ \E r \in Requests : ClockStep(r) \/ TriggerStep(r) \/ ScheduleStep(r)
  \/ \E t \in Tasks : DispatchStep(t)
  \/ SchedulerWake
  \/ Failure
  \/ Tick

Spec == Init /\ [][Next]_vars

(* What a coroutine does between two awaits it does without stopping.      *)
CoroutineStep(r) == loop = r /\ (TriggerFails(r) \/ TriggerMark(r) \/ TriggerEvent(r)
                                   \/ DispatchStep(r))

(* Time passes; coroutines that hold the event loop and the scheduler's    *)
(* thread go on; the loop's queue is first in, first out, so the scheduler *)
(* is served although other coroutines keep coming.                        *)
Fairness ==
  /\ WF_vars(Tick)
  /\ \A r \in Requests : WF_vars(CoroutineStep(r))
  /\ WF_vars(DispatchStep(Scheduler))
  /\ SF_vars(SchedulerWake)

FairSpec == Spec /\ Fairness

(***************************************************************************)
(* Properties.                                                             *)
(***************************************************************************)

(* The clock columns fit together whatever commands race: the timestamps   *)
(* are those its status needs, in order and not in the future, and the     *)
(* time counted as paused never exceeds the time since the start, although *)
(* every pause is rounded down to seconds and rows are written from stale  *)
(* ones.                                                                   *)
Coherent(row, t) ==
  /\ row.status = "created" <=> row.started = None
  /\ row.status = "paused" <=> row.pausedAt # None
  /\ row.status = "completed" <=> row.completed # None
  /\ row.status = "created" => row.pausedSeconds = 0
  /\ row.started # None =>
       /\ row.started <= EffectiveEnd(row, t) /\ EffectiveEnd(row, t) <= t
       /\ row.pausedSeconds <= Seconds(row.started, EffectiveEnd(row, t))

ClockCoherent == Coherent(exercise, now)

(* A command keeps the elapsed time of the row it replaces, but for the    *)
(* fraction of a second that a pause ending is rounded down by.            *)
Retains(r) ==
  LET t == tasks[r].asked
  IN  ElapsedSeconds(exercise', t) - ElapsedSeconds(exercise, t) \in {0, 1}

Writes(r) ==
  /\ Is(r, "clock") /\ tasks'[r] # tasks[r] /\ exercise' # exercise
  /\ tasks[r].command \in {"pause", "resume", "complete"}

(* Pausing, resuming and completing keep the elapsed time when no other    *)
(* command changed the row between the read and the write.                 *)
UnracedCommandsRetainTime ==
  [][\A r \in Requests : Writes(r) /\ tasks[r].seen = exercise => Retains(r)]_vars

(* docs/RELEASE_CHECKLIST.md:30, "Clock start, pause, resume, complete,    *)
(* and reset transitions retain time": the same with no such condition.    *)
TransitionsRetainTime ==
  [][\A r \in Requests : Writes(r) => Retains(r)]_vars

(* A scheduled delivery is decided by the statement that makes it: however *)
(* long ago a dispatcher looked and whatever other dispatchers, triggers   *)
(* and clock commands did since, it only happens while the exercise runs   *)
(* and only to an inject that was never delivered.                         *)
ScheduledDeliveryAtomic ==
  [][\A i \in Injects :
       scheduledEvents'[i] # scheduledEvents[i] =>
         /\ exercise.status = "running"
         /\ injects[i].count = 0
         /\ scheduledEvents'[i] = 1]_vars

(* The triggers of an inject that are about to be logged. *)
Pending(i) == {r \in Requests : Is(r, "event") /\ tasks[r].inject = i}

(* Every delivery is in the event log: the count of a row is that of its   *)
(* events and of the triggers about to be logged.  A failure between a     *)
(* mark and its event leaves one delivery that nobody logs, and no failure *)
(* leaves two or logs a delivery that was not made (trigger_inject).       *)
DeliveriesLogged ==
  \A i \in Injects :
    injects[i].count - (scheduledEvents[i] + triggerEvents[i]) - Cardinality(Pending(i))
      \in 0 .. failures

(* docs/RELEASE_CHECKLIST.md:31, "Due narrative injects deliver once": no  *)
(* narrative inject is delivered twice.                                    *)
DeliveredOnce ==
  \A i \in Injects : Kinds[i] = "narrative" => injects[i].count <= 1

(* The status inject_schedule_snapshot shows of an inject. *)
ScheduleStatus(i) ==
  LET row == injects[i]
  IN  CASE row.triggered                      -> "delivered"
        [] ~row.triggered /\ row.offset = None -> "unscheduled"
        [] OTHER ->
             IF exercise.status = "completed" THEN "missed"
             ELSE IF /\ exercise.status \in {"running", "paused"}
                     /\ row.offset <= ElapsedSeconds(exercise, now)
                  THEN "due" ELSE "scheduled"

(* An inject shown as due for automatic delivery does not stay so while    *)
(* the exercise runs: it is delivered, or somebody changes its schedule or *)
(* stops the clock.                                                        *)
DueInjectsDelivered ==
  \A i \in Injects :
    []<>~(exercise.status = "running" /\ injects[i].auto /\ ScheduleStatus(i) = "due")

=============================================================================
