------------------------- MODULE FacilitatorProofs -------------------------
(***************************************************************************)
(* Proofs about Facilitator: its types, the coherence of the exercise      *)
(* clock under racing commands, the atomicity of scheduled deliveries, and *)
(* that deliveries and the event log agree.                                *)
(***************************************************************************)
EXTENDS Facilitator, FiniteSetTheorems, TLAPS

(***************************************************************************)
(* Rounding.                                                               *)
(***************************************************************************)

LEMMA DivType ==
  ASSUME NEW a \in Nat, NEW k \in Nat \ {0}
  PROVE  a \div k \in Nat
  BY Z3

(* The parts of a period, each rounded down, are at most one short of it. *)
LEMMA DivSum ==
  ASSUME NEW a \in Nat, NEW b \in Nat, NEW k \in Nat \ {0}
  PROVE  /\ (a \div k) + (b \div k) <= (a + b) \div k
         /\ (a + b) \div k <= (a \div k) + (b \div k) + 1
  BY Z3

LEMMA SecondsType ==
  ASSUME NEW a \in Nat, NEW b \in Nat, a <= b
  PROVE  Seconds(a, b) \in Nat
<1>1. b - a \in Nat
  OBVIOUS
<1> QED
  BY <1>1, DivType, FacilitatorAssumption DEF Seconds

LEMMA SecondsSum ==
  ASSUME NEW a \in Nat, NEW b \in Nat, NEW c \in Nat, a <= b, b <= c
  PROVE  /\ Seconds(a, b) + Seconds(b, c) <= Seconds(a, c)
         /\ Seconds(a, c) <= Seconds(a, b) + Seconds(b, c) + 1
<1>1. b - a \in Nat /\ c - b \in Nat /\ (b - a) + (c - b) = c - a
  OBVIOUS
<1>2. TicksPerSecond \in Nat \ {0}
  BY FacilitatorAssumption
<1>3. /\ ((b - a) \div TicksPerSecond) + ((c - b) \div TicksPerSecond)
           <= ((b - a) + (c - b)) \div TicksPerSecond
      /\ ((b - a) + (c - b)) \div TicksPerSecond
           <= ((b - a) \div TicksPerSecond) + ((c - b) \div TicksPerSecond) + 1
  BY <1>1, <1>2, DivSum
<1> QED
  BY <1>1, <1>3 DEF Seconds

(***************************************************************************)
(* The clock.                                                              *)
(***************************************************************************)

(* A row that was coherent stays so while time passes. *)
LEMMA CoherentLater ==
  ASSUME NEW row \in Exercise, NEW t \in Nat, NEW u \in Nat, t <= u, Coherent(row, t)
  PROVE  Coherent(row, u)
<1>1. CASE row.started = None
  BY <1>1 DEF Coherent
<1>2. CASE row.started # None /\ row.status \in {"paused", "completed"}
  <2>1. EffectiveEnd(row, u) = EffectiveEnd(row, t)
    BY <1>2 DEF EffectiveEnd, Exercise
  <2>2. EffectiveEnd(row, t) \in Nat
    BY <1>2 DEF EffectiveEnd, Exercise, Coherent, Time
  <2> QED
    BY <1>2, <2>1, <2>2 DEF Coherent
<1>3. CASE row.started # None /\ row.status \notin {"paused", "completed"}
  <2>1. EffectiveEnd(row, u) = u /\ EffectiveEnd(row, t) = t
    BY <1>3 DEF EffectiveEnd, Exercise
  <2>2. row.started \in Nat /\ row.pausedSeconds \in Nat
    BY <1>3 DEF Exercise, Time
  <2>3. row.started <= t /\ row.pausedSeconds <= Seconds(row.started, t)
    BY <1>3, <2>1 DEF Coherent
  <2>4. /\ Seconds(row.started, t) \in Nat /\ Seconds(t, u) \in Nat
        /\ Seconds(row.started, u) \in Nat
    BY <2>2, <2>3, SecondsType
  <2>5. Seconds(row.started, t) + Seconds(t, u) <= Seconds(row.started, u)
    BY <2>2, <2>3, SecondsSum
  <2>6. /\ row.started <= u
        /\ row.pausedSeconds <= Seconds(row.started, u)
    BY <2>2, <2>3, <2>4, <2>5
  <2> QED
    BY <1>3, <2>1, <2>6 DEF Coherent
<1> QED
  BY <1>1, <1>2, <1>3

(* The elapsed time of a coherent row is its difference, never cut off. *)
LEMMA ElapsedOfCoherent ==
  ASSUME NEW row \in Exercise, NEW t \in Nat, Coherent(row, t), row.started # None
  PROVE  /\ EffectiveEnd(row, t) \in Nat
         /\ row.started \in Nat /\ row.pausedSeconds \in Nat
         /\ row.started <= EffectiveEnd(row, t) /\ EffectiveEnd(row, t) <= t
         /\ Seconds(row.started, EffectiveEnd(row, t)) \in Nat
         /\ ElapsedSeconds(row, t)
              = Seconds(row.started, EffectiveEnd(row, t)) - row.pausedSeconds
         /\ row.pausedSeconds <= Seconds(row.started, EffectiveEnd(row, t))
<1>1. row.started \in Nat /\ row.pausedSeconds \in Nat
  BY DEF Exercise, Time
<1>2. EffectiveEnd(row, t) \in Nat
  BY DEF EffectiveEnd, Exercise, Coherent, Time
<1>3. /\ row.started <= EffectiveEnd(row, t) /\ EffectiveEnd(row, t) <= t
      /\ row.pausedSeconds <= Seconds(row.started, EffectiveEnd(row, t))
  BY DEF Coherent
<1>4. Seconds(row.started, EffectiveEnd(row, t)) \in Nat
  BY <1>1, <1>2, <1>3, SecondsType
<1>5. ElapsedSeconds(row, t)
        = Seconds(row.started, EffectiveEnd(row, t)) - row.pausedSeconds
  <2> DEFINE spent == Seconds(row.started, EffectiveEnd(row, t)) - row.pausedSeconds
  <2>1. ~(spent < 0)
    BY <1>1, <1>3, <1>4
  <2>2. ElapsedSeconds(row, t) = IF spent < 0 THEN 0 ELSE spent
    BY DEF ElapsedSeconds
  <2> QED
    BY <2>1, <2>2
<1> QED
  BY <1>1, <1>2, <1>3, <1>4, <1>5

(* Ending a pause of a coherent row accounts for it to the second. *)
LEMMA PauseEnds ==
  ASSUME NEW row \in Exercise, NEW t \in Nat, Coherent(row, t),
         row.status \in {"running", "paused"}
  PROVE  /\ PausedUntil(row, t) \in Nat
         /\ row.started \in Nat /\ row.started <= t
         /\ Seconds(row.started, t) \in Nat
         /\ PausedUntil(row, t) <= Seconds(row.started, t)
         /\ Seconds(row.started, t) - PausedUntil(row, t) - ElapsedSeconds(row, t) \in {0, 1}
<1>1. row.started # None
  BY DEF Coherent
<1>2. /\ EffectiveEnd(row, t) \in Nat
      /\ row.started \in Nat /\ row.pausedSeconds \in Nat
      /\ row.started <= EffectiveEnd(row, t) /\ EffectiveEnd(row, t) <= t
      /\ Seconds(row.started, EffectiveEnd(row, t)) \in Nat
      /\ ElapsedSeconds(row, t)
           = Seconds(row.started, EffectiveEnd(row, t)) - row.pausedSeconds
      /\ row.pausedSeconds <= Seconds(row.started, EffectiveEnd(row, t))
  BY <1>1, ElapsedOfCoherent
<1>3. Seconds(row.started, t) \in Nat
  BY <1>2, SecondsType
<1>4. CASE row.status = "running"
  <2>1. EffectiveEnd(row, t) = t /\ PausedUntil(row, t) = row.pausedSeconds
    BY <1>2, <1>4 DEF EffectiveEnd, PausedUntil
  <2> QED
    BY <1>2, <1>3, <2>1
<1>5. CASE row.status = "paused"
  <2>1. /\ EffectiveEnd(row, t) = row.pausedAt
        /\ PausedUntil(row, t) = row.pausedSeconds + Seconds(row.pausedAt, t)
    BY <1>5 DEF EffectiveEnd, PausedUntil
  <2>2. Seconds(row.pausedAt, t) \in Nat
    BY <1>2, <2>1, SecondsType
  <2>3. /\ Seconds(row.started, row.pausedAt) + Seconds(row.pausedAt, t)
             <= Seconds(row.started, t)
        /\ Seconds(row.started, t)
             <= Seconds(row.started, row.pausedAt) + Seconds(row.pausedAt, t) + 1
    BY <1>2, <2>1, SecondsSum
  <2> QED
    BY <1>2, <1>3, <2>1, <2>2, <2>3
<1> QED
  BY <1>4, <1>5

(* Every command turns a coherent row into a coherent row. *)
LEMMA TransitionCoherent ==
  ASSUME NEW row \in Exercise, NEW t \in Nat, Coherent(row, t),
         NEW command \in Commands, CanTransition(row, command)
  PROVE  /\ Transition(row, command, t) \in Exercise
         /\ Coherent(Transition(row, command, t), t)
<1> DEFINE new == Transition(row, command, t)
<1>0. None \notin Nat /\ None # t
  BY FacilitatorAssumption
<1>1. CASE command = "start"
  <2>1. new = [status |-> "running", started |-> t, pausedAt |-> None,
               pausedSeconds |-> 0, completed |-> None]
    BY <1>1 DEF Transition
  <2>2. EffectiveEnd(new, t) = t
    BY <2>1 DEF EffectiveEnd
  <2>3. Seconds(t, t) \in Nat
    BY SecondsType
  <2> HIDE DEF new
  <2>4. new \in Exercise
    BY <2>1 DEF Exercise, Time
  <2>5. Coherent(new, t)
    BY <1>0, <2>1, <2>2, <2>3 DEF Coherent
  <2> QED
    BY <2>4, <2>5 DEF new
<1>2. CASE command = "pause"
  <2>1. row.status = "running"
    BY <1>2 DEF CanTransition
  <2>2. new = [row EXCEPT !.status = "paused", !.pausedAt = t]
    BY <1>2 DEF Transition
  <2>3. /\ new.status = "paused" /\ new.pausedAt = t /\ new.started = row.started
        /\ new.pausedSeconds = row.pausedSeconds /\ new.completed = row.completed
        /\ new \in Exercise
    BY <2>2 DEF Exercise, Time
  <2> HIDE DEF new
  <2>4. EffectiveEnd(new, t) = t
    BY <2>3 DEF EffectiveEnd
  <2>5. EffectiveEnd(row, t) = t
    BY <2>1 DEF EffectiveEnd
  <2>6. Coherent(new, t)
    BY <1>0, <2>1, <2>3, <2>4, <2>5 DEF Coherent
  <2> QED
    BY <2>3, <2>6 DEF new
<1>3. CASE command = "resume"
  <2>1. row.status = "paused"
    BY <1>3 DEF CanTransition
  <2>2. /\ PausedUntil(row, t) \in Nat
        /\ row.started \in Nat /\ row.started <= t
        /\ PausedUntil(row, t) <= Seconds(row.started, t)
    BY <2>1, PauseEnds
  <2>3. new = [row EXCEPT !.status = "running", !.pausedAt = None,
                          !.pausedSeconds = PausedUntil(row, t)]
    BY <1>3 DEF Transition
  <2>4. /\ new.status = "running" /\ new.pausedAt = None /\ new.started = row.started
        /\ new.pausedSeconds = PausedUntil(row, t) /\ new.completed = row.completed
        /\ new \in Exercise
    BY <2>2, <2>3 DEF Exercise, Time
  <2> HIDE DEF new
  <2>5. EffectiveEnd(new, t) = t
    BY <2>4 DEF EffectiveEnd
  <2>6. Coherent(new, t)
    BY <1>0, <2>1, <2>2, <2>4, <2>5 DEF Coherent
  <2> QED
    BY <2>4, <2>6 DEF new
<1>4. CASE command = "complete"
  <2>1. row.status \in {"running", "paused"}
    BY <1>4 DEF CanTransition
  <2>2. /\ PausedUntil(row, t) \in Nat
        /\ row.started \in Nat /\ row.started <= t
        /\ PausedUntil(row, t) <= Seconds(row.started, t)
    BY <2>1, PauseEnds
  <2>3. new = [row EXCEPT !.status = "completed", !.pausedAt = None,
                          !.pausedSeconds = PausedUntil(row, t), !.completed = t]
    BY <1>4 DEF Transition
  <2>4. /\ new.status = "completed" /\ new.pausedAt = None /\ new.started = row.started
        /\ new.pausedSeconds = PausedUntil(row, t) /\ new.completed = t
        /\ new \in Exercise
    BY <2>2, <2>3 DEF Exercise, Time
  <2> HIDE DEF new
  <2>5. EffectiveEnd(new, t) = t
    BY <2>4 DEF EffectiveEnd
  <2>6. Coherent(new, t)
    BY <1>0, <2>2, <2>4, <2>5 DEF Coherent
  <2> QED
    BY <2>4, <2>6 DEF new
<1>5. CASE command = "reset"
  <2>1. new = [status |-> "created", started |-> None, pausedAt |-> None,
               pausedSeconds |-> 0, completed |-> None]
    BY <1>5 DEF Transition
  <2> HIDE DEF new
  <2>2. new \in Exercise
    BY <2>1 DEF Exercise, Time
  <2>3. Coherent(new, t)
    BY <2>1 DEF Coherent
  <2> QED
    BY <2>2, <2>3 DEF new
<1> QED
  BY <1>1, <1>2, <1>3, <1>4, <1>5 DEF Commands

(* Pausing, resuming and completing keep the elapsed time of the row. *)
LEMMA TransitionRetains ==
  ASSUME NEW row \in Exercise, NEW t \in Nat, Coherent(row, t),
         NEW command \in {"pause", "resume", "complete"}, CanTransition(row, command)
  PROVE  ElapsedSeconds(Transition(row, command, t), t) - ElapsedSeconds(row, t) \in {0, 1}
<1> DEFINE new == Transition(row, command, t)
<1>1. row.status \in {"running", "paused"}
  BY DEF CanTransition
<1>2. new \in Exercise /\ Coherent(new, t)
  BY TransitionCoherent DEF Commands
<1>3. row.started # None /\ new.started = row.started
  BY <1>1 DEF Coherent, Transition, Exercise
<1>4. EffectiveEnd(new, t) = t
  BY DEF Transition, EffectiveEnd, Exercise
<1>5. new.pausedSeconds = PausedUntil(row, t)
  BY <1>1 DEF Transition, PausedUntil, CanTransition, Exercise
<1> HIDE DEF new
<1>6. ElapsedSeconds(new, t) = Seconds(row.started, t) - PausedUntil(row, t)
  BY <1>2, <1>3, <1>4, <1>5, ElapsedOfCoherent
<1>7. /\ PausedUntil(row, t) \in Nat /\ Seconds(row.started, t) \in Nat
      /\ Seconds(row.started, t) - PausedUntil(row, t) - ElapsedSeconds(row, t) \in {0, 1}
  BY <1>1, PauseEnds
<1> QED
  BY <1>6, <1>7 DEF new

(***************************************************************************)
(* The inductive invariant: what a task carries from one step to the next  *)
(* was true when it was read, and the delivered flag, the count and the    *)
(* events of an inject agree.                                              *)
(***************************************************************************)
TaskFits(task, t) ==
  /\ task.step = "clock" =>
       /\ task.command \in Commands /\ task.seen \in Exercise
       /\ task.asked \in Nat /\ task.asked <= t
       /\ CanTransition(task.seen, task.command)
       /\ Coherent(task.seen, task.asked)
  /\ task.step \in {"trigger", "event", "schedule", "clear"} => task.inject \in Injects

TasksOK == \A t \in Tasks : TaskFits(tasks[t], now)

CountsOK ==
  \A i \in Injects :
    /\ injects[i].triggered <=> injects[i].count > 0
    /\ scheduledEvents[i] <= injects[i].count

IInv == TypeOK /\ ClockCoherent /\ TasksOK /\ CountsOK /\ DeliveriesLogged

(* A trigger holds the event loop from its mark to its event. *)
TriggersHold ==
  \A r \in Requests : Is(r, "trigger") \/ Is(r, "event") => loop = r

LEMMA IdleFits == Idle \in Task /\ \A t : TaskFits(Idle, t)
  BY DEF Idle, Task, TaskFits, Time

(* Replacing what one task holds. *)
LEMMA TaskReplaced ==
  ASSUME TypeOK, TasksOK, NEW t \in Tasks, NEW task \in Task, TaskFits(task, now),
         Becomes(t, task), now' = now
  PROVE  tasks' \in [Tasks -> Task] /\ TasksOK'
<1>1. tasks' \in [Tasks -> Task]
  BY DEF TypeOK, Becomes
<1>2. ASSUME NEW u \in Tasks
      PROVE  TaskFits(tasks'[u], now')
  <2>1. CASE u = t
    BY <2>1 DEF TypeOK, Becomes
  <2>2. CASE u # t
    <3>1. tasks'[u] = tasks[u]
      BY <2>2 DEF TypeOK, Becomes
    <3> QED
      BY <3>1 DEF TasksOK
  <2> QED
    BY <2>1, <2>2
<1> QED
  BY <1>1, <1>2 DEF TasksOK

LEMMA PendingKept ==
  ASSUME TypeOK, NEW t \in Tasks, NEW task \in Task, Becomes(t, task),
         tasks[t].step # "event", task.step # "event"
  PROVE  \A i \in Injects : Pending(i)' = Pending(i)
<1>1. ASSUME NEW r \in Requests, NEW i \in Injects
      PROVE  (Is(r, "event") /\ tasks[r].inject = i)'
               <=> (Is(r, "event") /\ tasks[r].inject = i)
  <2>1. r \in Tasks
    BY DEF Tasks
  <2> QED
    BY <2>1 DEF TypeOK, Becomes, Is
<1> QED
  BY <1>1 DEF Pending

LEMMA PendingFinite ==
  ASSUME NEW i \in Injects
  PROVE  IsFiniteSet(Pending(i)) /\ Cardinality(Pending(i)) \in Nat
  BY FS_Subset, FS_CardinalityType, FacilitatorAssumption DEF Pending

(* A step of a task that writes no row. *)
LEMMA RowsKept ==
  ASSUME IInv, NEW t \in Tasks, NEW task \in Task, TaskFits(task, now), Becomes(t, task),
         tasks[t].step # "event", task.step # "event",
         loop' \in Requests \cup {None}, UNCHANGED rows, Quiet
  PROVE  IInv'
<1>1. tasks' \in [Tasks -> Task] /\ TasksOK'
  BY TaskReplaced DEF IInv, Quiet
<1>2. TypeOK'
  BY <1>1 DEF IInv, TypeOK, rows, Quiet
<1>3. ClockCoherent'
  BY DEF IInv, ClockCoherent, rows, Quiet
<1>4. CountsOK'
  BY DEF IInv, CountsOK, rows
<1>5. DeliveriesLogged'
  <2>1. \A i \in Injects : Pending(i)' = Pending(i)
    BY PendingKept DEF IInv
  <2> QED
    BY <2>1 DEF IInv, DeliveriesLogged, rows, Quiet
<1> QED
  BY <1>1, <1>2, <1>3, <1>4, <1>5 DEF IInv

(* A task that ends without having written. *)
LEMMA FinishedRowsKept ==
  ASSUME IInv, NEW t \in Tasks, Finishes(t), tasks[t].step # "event", UNCHANGED rows, Quiet
  PROVE  IInv'
<1>1. loop' \in Requests \cup {None}
  BY DEF IInv, TypeOK, Finishes
<1>2. Becomes(t, Idle) /\ Idle.step # "event"
  BY DEF Finishes, Idle
<1> QED
  BY <1>1, <1>2, IdleFits, RowsKept

LEMMA InitOK == Init => IInv
<1> SUFFICES ASSUME Init PROVE IInv
  OBVIOUS
<1>0. ASSUME NEW i \in Injects
      PROVE  /\ injects[i] \in Inject
             /\ ~injects[i].triggered /\ injects[i].count = 0
  <2>1. PICK offset \in [Injects -> Offsets \cup {None}], auto \in [Injects -> BOOLEAN] :
          injects = [j \in Injects |-> [triggered |-> FALSE, count |-> 0,
                                       offset |-> offset[j], auto |-> auto[j]]]
    BY DEF Init
  <2>2. injects[i] = [triggered |-> FALSE, count |-> 0, offset |-> offset[i], auto |-> auto[i]]
    BY <2>1
  <2> QED
    BY <2>2 DEF Inject
<1>1. TypeOK
  <2>1. injects \in [Injects -> Inject]
    BY <1>0 DEF Init
  <2>2. exercise \in Exercise
    BY DEF Init, Exercise, Time
  <2>3. tasks \in [Tasks -> Task]
    BY IdleFits DEF Init
  <2> QED
    BY <2>1, <2>2, <2>3 DEF Init, TypeOK
<1>2. ClockCoherent
  BY DEF Init, ClockCoherent, Coherent
<1>3. TasksOK
  BY IdleFits DEF Init, TasksOK
<1>4. CountsOK
  <2>1. ASSUME NEW i \in Injects
        PROVE  scheduledEvents[i] = 0
    BY DEF Init
  <2> QED
    BY <1>0, <2>1 DEF CountsOK
<1>5. DeliveriesLogged
  <2>1. \A i \in Injects : Pending(i) = {}
    BY DEF Init, Pending, Is, Idle, Tasks
  <2>2. ASSUME NEW i \in Injects
        PROVE  injects[i].count = 0 /\ scheduledEvents[i] = 0 /\ triggerEvents[i] = 0
    BY <1>0 DEF Init
  <2>3. Cardinality({}) = 0 /\ failures = 0
    BY FS_EmptySet DEF Init
  <2>4. ASSUME NEW i \in Injects
        PROVE  injects[i].count - (scheduledEvents[i] + triggerEvents[i])
                 - Cardinality(Pending(i)) = 0
    <3>1. Cardinality(Pending(i)) = 0
      BY <2>1, <2>3
    <3> QED
      BY <2>2, <3>1
  <2> QED
    BY <2>3, <2>4 DEF DeliveriesLogged
<1> QED
  BY <1>1, <1>2, <1>3, <1>4, <1>5 DEF IInv

(***************************************************************************)
(* Steps that only move a task.                                            *)
(***************************************************************************)

LEMMA ClockReadOK ==
  ASSUME IInv, NEW r \in Requests, NEW command \in Commands, ClockRead(r, command)
  PROVE  IInv'
<1> DEFINE task == [Idle EXCEPT !.step = "clock", !.command = command,
                                !.seen = exercise, !.asked = now]
<1>1. task \in Task /\ task.step # "event"
  BY DEF IInv, TypeOK, Task, Idle, Time
<1>2. TaskFits(task, now)
  BY DEF IInv, TypeOK, ClockCoherent, ClockRead, TaskFits, Idle
<1>3. tasks[r].step # "event" /\ r \in Tasks
  BY DEF ClockRead, Is, Tasks
<1>4. Becomes(r, task) /\ UNCHANGED rows /\ UNCHANGED loop /\ Quiet
  BY DEF ClockRead
<1> QED
  BY <1>1, <1>2, <1>3, <1>4, RowsKept DEF IInv, TypeOK

LEMMA ClockRefusedOK ==
  ASSUME IInv, NEW r \in Requests, ClockRefused(r)
  PROVE  IInv'
  BY FinishedRowsKept DEF ClockRefused, Is, Tasks

LEMMA DispatchOK ==
  ASSUME IInv, NEW t \in Tasks, Dispatch(t)
  PROVE  IInv'
<1> DEFINE task == [Idle EXCEPT !.step = "list", !.elapsed = ElapsedSeconds(exercise, now)]
<1>1. tasks[t].step # "event" /\ UNCHANGED rows /\ Quiet
  BY DEF Dispatch, Is
<1>2. CASE exercise.status = "running"
  <2>1. ElapsedSeconds(exercise, now) \in Nat
    <3>1. exercise.started # None
      BY <1>2 DEF IInv, ClockCoherent, Coherent
    <3> QED
      BY <3>1, ElapsedOfCoherent DEF IInv, TypeOK, ClockCoherent
  <2>2. task \in Task /\ task.step # "event"
    BY <2>1 DEF Task, Idle, Time
  <2>3. TaskFits(task, now)
    BY DEF TaskFits, Idle
  <2>4. Becomes(t, task) /\ UNCHANGED loop
    BY <1>2 DEF Dispatch
  <2> QED
    BY <1>1, <2>2, <2>3, <2>4, RowsKept DEF IInv, TypeOK
<1>3. CASE exercise.status # "running"
  <2>1. Finishes(t)
    BY <1>3 DEF Dispatch
  <2> QED
    BY <1>1, <2>1, FinishedRowsKept
<1> QED
  BY <1>2, <1>3

LEMMA DispatchListOK ==
  ASSUME IInv, NEW t \in Tasks, DispatchList(t)
  PROVE  IInv'
<1> DEFINE task == [tasks[t] EXCEPT !.step = "deliver", !.todo = Due(tasks[t].elapsed)]
<1>1. tasks[t] \in Task
  BY DEF IInv, TypeOK
<1>2. Due(tasks[t].elapsed) \subseteq Injects
  BY DEF Due
<1>3. task \in Task /\ task.step = "deliver"
  BY <1>1, <1>2 DEF Task
<1>4. TaskFits(task, now)
  BY <1>3 DEF TaskFits
<1>5. tasks[t].step # "event" /\ UNCHANGED rows /\ Quiet /\ Becomes(t, task) /\ UNCHANGED loop
  BY DEF DispatchList, Is
<1> QED
  BY <1>3, <1>4, <1>5, RowsKept DEF IInv, TypeOK

LEMMA DispatchEndOK ==
  ASSUME IInv, NEW t \in Tasks, DispatchEnd(t)
  PROVE  IInv'
  BY FinishedRowsKept DEF DispatchEnd, Is

(* A dispatch begins. *)
LEMMA DispatchTask ==
  /\ [Idle EXCEPT !.step = "dispatch"] \in Task
  /\ [Idle EXCEPT !.step = "dispatch"].step = "dispatch"
  /\ \A t : TaskFits([Idle EXCEPT !.step = "dispatch"], t)
  BY DEF Task, Idle, Time, TaskFits

LEMMA SchedulerWakeOK ==
  ASSUME IInv, SchedulerWake
  PROVE  IInv'
  BY DispatchTask, RowsKept DEF SchedulerWake, Is, Tasks, IInv, TypeOK

LEMMA TriggerReadOK ==
  ASSUME IInv, NEW r \in Requests, NEW i \in Injects, TriggerRead(r, i)
  PROVE  IInv'
<1> DEFINE task == [Idle EXCEPT !.step = "trigger", !.inject = i]
<1>1. task \in Task /\ task.step # "event"
  BY DEF Task, Idle, Time
<1>2. TaskFits(task, now)
  BY DEF TaskFits, Idle
<1>3. /\ tasks[r].step # "event" /\ r \in Tasks
      /\ Becomes(r, task) /\ UNCHANGED rows /\ Quiet /\ loop' \in Requests \cup {None}
  BY DEF TriggerRead, Is, Tasks
<1> QED
  BY <1>1, <1>2, <1>3, RowsKept

LEMMA TriggerFailsOK ==
  ASSUME IInv, NEW r \in Requests, TriggerFails(r)
  PROVE  IInv'
  BY FinishedRowsKept DEF TriggerFails, Is, Tasks

LEMMA ScheduleReadOK ==
  ASSUME IInv, NEW r \in Requests, NEW i \in Injects,
         NEW offset \in Offsets, NEW auto \in BOOLEAN, ScheduleRead(r, i, offset, auto)
  PROVE  IInv'
<1> DEFINE task == [Idle EXCEPT !.step = "schedule", !.inject = i,
                                !.offset = offset, !.auto = auto]
<1>1. task \in Task /\ task.step # "event"
  BY DEF Task, Idle, Time
<1>2. TaskFits(task, now)
  BY DEF TaskFits, Idle
<1>3. /\ tasks[r].step # "event" /\ r \in Tasks
      /\ Becomes(r, task) /\ UNCHANGED rows /\ Quiet /\ UNCHANGED loop
  BY DEF ScheduleRead, Is, Tasks
<1> QED
  BY <1>1, <1>2, <1>3, RowsKept DEF IInv, TypeOK

LEMMA ClearReadOK ==
  ASSUME IInv, NEW r \in Requests, NEW i \in Injects, ClearRead(r, i)
  PROVE  IInv'
<1> DEFINE task == [Idle EXCEPT !.step = "clear", !.inject = i]
<1>1. task \in Task /\ task.step # "event"
  BY DEF Task, Idle, Time
<1>2. TaskFits(task, now)
  BY DEF TaskFits, Idle
<1>3. /\ tasks[r].step # "event" /\ r \in Tasks
      /\ Becomes(r, task) /\ UNCHANGED rows /\ Quiet /\ UNCHANGED loop
  BY DEF ClearRead, Is, Tasks
<1> QED
  BY <1>1, <1>2, <1>3, RowsKept DEF IInv, TypeOK

(***************************************************************************)
(* Steps that write the exercise row or let time pass.                     *)
(***************************************************************************)

LEMMA ClockWriteOK ==
  ASSUME IInv, NEW r \in Requests, ClockWrite(r)
  PROVE  IInv'
<1> DEFINE command == tasks[r].command
           seen    == tasks[r].seen
           asked   == tasks[r].asked
           next    == IF command \in {"start", "resume"}
                      THEN [Idle EXCEPT !.step = "dispatch"] ELSE Idle
<1>1. /\ r \in Tasks /\ tasks[r].step = "clock" /\ now' = now
      /\ command \in Commands /\ seen \in Exercise /\ asked \in Nat /\ asked <= now
      /\ CanTransition(seen, command) /\ Coherent(seen, asked) /\ now \in Nat
  BY DEF IInv, TasksOK, TaskFits, ClockWrite, Is, Tasks, Quiet, TypeOK
<1>2. exercise' = Transition(seen, command, asked) /\ Becomes(r, next)
  BY DEF ClockWrite
<1>3. exercise' \in Exercise /\ Coherent(exercise', asked)
  BY <1>1, <1>2, TransitionCoherent
<1>4. ClockCoherent'
  BY <1>1, <1>3, CoherentLater DEF ClockCoherent
<1>5. next \in Task /\ TaskFits(next, now) /\ next.step # "event"
  BY IdleFits, DispatchTask DEF Idle
<1> HIDE DEF next
<1>6. tasks' \in [Tasks -> Task] /\ TasksOK'
  BY <1>1, <1>2, <1>5, TaskReplaced DEF IInv
<1>7. TypeOK'
  BY <1>3, <1>6 DEF IInv, TypeOK, ClockWrite, Quiet
<1>8. CountsOK'
  BY DEF IInv, CountsOK, ClockWrite
<1>9. DeliveriesLogged'
  <2>1. \A i \in Injects : Pending(i)' = Pending(i)
    BY <1>1, <1>2, <1>5, PendingKept DEF IInv
  <2> QED
    BY <2>1 DEF IInv, DeliveriesLogged, ClockWrite, Quiet
<1> QED
  BY <1>4, <1>6, <1>7, <1>8, <1>9 DEF IInv

LEMMA TickOK ==
  ASSUME IInv, Tick
  PROVE  IInv'
<1>1. now \in Nat /\ now' \in Nat /\ now <= now'
  BY DEF IInv, TypeOK, Tick
<1>2. TypeOK'
  BY <1>1 DEF IInv, TypeOK, Tick, rows
<1>3. ClockCoherent'
  <2>1. exercise \in Exercise /\ Coherent(exercise, now) /\ exercise' = exercise
    BY DEF IInv, TypeOK, ClockCoherent, Tick, rows
  <2> QED
    BY <1>1, <2>1, CoherentLater DEF ClockCoherent
<1>4. TasksOK'
  <2>1. ASSUME NEW t \in Tasks
        PROVE  TaskFits(tasks[t], now')
    <3>1. TaskFits(tasks[t], now)
      BY DEF IInv, TasksOK
    <3> QED
      BY <1>1, <3>1 DEF TaskFits
  <2> QED
    BY <2>1 DEF TasksOK, Tick
<1>5. CountsOK'
  BY DEF IInv, CountsOK, Tick, rows
<1>6. DeliveriesLogged'
  BY DEF IInv, DeliveriesLogged, Pending, Tick, rows, Is
<1> QED
  BY <1>2, <1>3, <1>4, <1>5, <1>6 DEF IInv

(***************************************************************************)
(* Steps that write the inject rows.                                       *)
(***************************************************************************)

(* Delivering an inject raises its flag and its count. *)
LEMMA TriggeredRow ==
  ASSUME TypeOK, NEW i \in Injects
  PROVE  /\ Triggered(i) \in [Injects -> Inject]
         /\ Triggered(i)[i].triggered /\ Triggered(i)[i].count = injects[i].count + 1
         /\ \A j \in Injects : j # i => Triggered(i)[j] = injects[j]
<1>1. injects[i] \in Inject
  BY DEF TypeOK
<1>2. Triggered(i)[i] = [injects[i] EXCEPT !.triggered = TRUE, !.count = @ + 1]
  BY DEF Triggered, TypeOK
<1>3. /\ Triggered(i)[i] \in Inject
      /\ Triggered(i)[i].triggered /\ Triggered(i)[i].count = injects[i].count + 1
  <2>1. Triggered(i)[i] = [triggered |-> TRUE, count |-> injects[i].count + 1,
                           offset |-> injects[i].offset, auto |-> injects[i].auto]
    BY <1>1, <1>2 DEF Inject
  <2>2. /\ injects[i].count + 1 \in Nat /\ injects[i].auto \in BOOLEAN
        /\ injects[i].offset \in Offsets \cup {None}
    BY <1>1 DEF Inject
  <2>3. Triggered(i)[i] \in Inject
    BY <2>1, <2>2 DEF Inject
  <2>4. Triggered(i)[i].triggered = TRUE
    BY <2>1
  <2>5. Triggered(i)[i].count = injects[i].count + 1
    BY <2>1
  <2> QED
    BY <2>3, <2>4, <2>5
<1>4. \A j \in Injects : j # i => Triggered(i)[j] = injects[j]
  BY DEF Triggered, TypeOK
<1>5. Triggered(i) \in [Injects -> Inject]
  <2>1. Triggered(i) = [j \in Injects |-> Triggered(i)[j]]
    BY DEF Triggered, TypeOK
  <2>2. \A j \in Injects : Triggered(i)[j] \in Inject
    BY <1>3, <1>4 DEF TypeOK
  <2> QED
    BY <2>1, <2>2
<1> QED
  BY <1>3, <1>4, <1>5

(* The numbers that belong to an inject. *)
LEMMA CountTypes ==
  ASSUME TypeOK, NEW i \in Injects
  PROVE  /\ injects[i].count \in Nat
         /\ scheduledEvents[i] \in Nat /\ triggerEvents[i] \in Nat
         /\ Cardinality(Pending(i)) \in Nat
  BY PendingFinite DEF TypeOK, Inject

LEMMA DeliverOK ==
  ASSUME IInv, NEW t \in Tasks, NEW i \in Injects, Deliver(t, i)
  PROVE  IInv'
<1> DEFINE task == [tasks[t] EXCEPT !.todo = @ \ {i}]
<1>0. TypeOK /\ tasks[t] \in Task /\ tasks[t].step = "deliver"
  BY DEF IInv, TypeOK, Deliver, Is
<1>1. task \in Task /\ task.step = "deliver"
  BY <1>0 DEF Task
<1>2. Becomes(t, task)
  BY <1>0 DEF Deliver, Becomes
<1>3. TaskFits(task, now)
  BY <1>1 DEF TaskFits
<1> HIDE DEF task
<1>4. tasks' \in [Tasks -> Task] /\ TasksOK'
  BY <1>1, <1>2, <1>3, TaskReplaced DEF IInv, Deliver, Quiet
<1>5. \A j \in Injects : Pending(j)' = Pending(j)
  BY <1>0, <1>1, <1>2, PendingKept
<1>6. CASE Deliverable(i)
  <2>1. /\ injects' = Triggered(i)
        /\ scheduledEvents' = [scheduledEvents EXCEPT ![i] = @ + 1]
    BY <1>6 DEF Deliver
  <2>2. injects' \in [Injects -> Inject]
    BY <1>0, <2>1, TriggeredRow
  <2>3. scheduledEvents' \in [Injects -> Nat]
    BY <1>0, <2>1 DEF TypeOK
  <2>4. TypeOK'
    BY <1>0, <1>4, <2>2, <2>3 DEF TypeOK, Deliver, Quiet
  <2>5. ASSUME NEW j \in Injects
        PROVE  /\ injects'[j].triggered <=> injects'[j].count > 0
               /\ scheduledEvents'[j] <= injects'[j].count
    <3>1. CASE j = i
      <4>1. injects'[j].triggered /\ injects'[j].count = injects[j].count + 1
        BY <1>0, <2>1, <3>1, TriggeredRow
      <4>2. scheduledEvents'[j] = scheduledEvents[j] + 1
        BY <1>0, <2>1, <3>1 DEF TypeOK
      <4>3. injects[j].count \in Nat /\ scheduledEvents[j] \in Nat
        BY <1>0, CountTypes
      <4>4. scheduledEvents[j] <= injects[j].count
        BY DEF IInv, CountsOK
      <4>5. injects'[j].count > 0 /\ scheduledEvents'[j] <= injects'[j].count
        BY <4>1, <4>2, <4>3, <4>4
      <4> QED
        BY <4>1, <4>5
    <3>2. CASE j # i
      <4>1. injects'[j] = injects[j] /\ scheduledEvents'[j] = scheduledEvents[j]
        BY <1>0, <2>1, <3>2, TriggeredRow DEF TypeOK
      <4> QED
        BY <4>1 DEF IInv, CountsOK
    <3> QED
      BY <3>1, <3>2
  <2>6. DeliveriesLogged'
    <3>1. ASSUME NEW j \in Injects
          PROVE  injects'[j].count - (scheduledEvents'[j] + triggerEvents'[j])
                   - Cardinality(Pending(j)') \in 0 .. failures
      <4>1. /\ injects[j].count - (scheduledEvents[j] + triggerEvents[j])
              - Cardinality(Pending(j)) \in 0 .. failures
              /\ failures \in Nat
        BY DEF TypeOK, IInv, DeliveriesLogged
      <4>2. triggerEvents'[j] = triggerEvents[j] /\ Pending(j)' = Pending(j)
        BY <1>5 DEF Deliver
      <4>3. /\ injects[j].count \in Nat
            /\ scheduledEvents[j] \in Nat /\ triggerEvents[j] \in Nat
            /\ Cardinality(Pending(j)) \in Nat
        BY <1>0, CountTypes
      <4>4. CASE j = i
        <5>1. injects'[j].count = injects[j].count + 1
          BY <1>0, <2>1, <4>4, TriggeredRow
        <5>2. scheduledEvents'[j] = scheduledEvents[j] + 1
          BY <1>0, <2>1, <4>4 DEF TypeOK
        <5> QED
          BY <4>1, <4>2, <4>3, <5>1, <5>2
      <4>5. CASE j # i
        <5>1. injects'[j] = injects[j] /\ scheduledEvents'[j] = scheduledEvents[j]
          BY <1>0, <2>1, <4>5, TriggeredRow DEF TypeOK
        <5> QED
          BY <4>1, <4>2, <5>1
      <4> QED
        BY <4>4, <4>5
    <3> QED
      BY <3>1 DEF DeliveriesLogged, Deliver, Quiet
  <2>7. CountsOK' /\ ClockCoherent'
    BY <2>5 DEF CountsOK, IInv, ClockCoherent, Deliver, Quiet
  <2> QED
    BY <1>4, <2>4, <2>6, <2>7 DEF IInv
<1>7. CASE ~Deliverable(i)
  <2>1. UNCHANGED rows /\ Quiet /\ UNCHANGED loop
    BY <1>7 DEF Deliver, rows
  <2> QED
    BY <1>0, <1>1, <1>2, <1>3, <2>1, RowsKept DEF TypeOK
<1> QED
  BY <1>6, <1>7

(* The trigger of an inject is pending between its mark and its event. *)
LEMMA TriggerMarkOK ==
  ASSUME IInv, NEW r \in Requests, TriggerMark(r)
  PROVE  IInv'
<1> DEFINE i    == tasks[r].inject
           task == [tasks[r] EXCEPT !.step = "event"]
<1>0. /\ TypeOK /\ r \in Tasks /\ tasks[r] \in Task /\ tasks[r].step = "trigger"
      /\ i \in Injects
  BY DEF IInv, TypeOK, TriggerMark, Is, Tasks, TasksOK, TaskFits
<1>1. task \in Task /\ task.step = "event" /\ task.inject = i
  BY <1>0 DEF Task
<1>2. Becomes(r, task) /\ UNCHANGED loop
  BY <1>0 DEF TriggerMark, Continues, Becomes
<1>3. TaskFits(task, now)
  BY <1>0, <1>1 DEF TaskFits
<1> HIDE DEF task
<1>4. tasks' \in [Tasks -> Task] /\ TasksOK'
  BY <1>0, <1>1, <1>2, <1>3, TaskReplaced DEF IInv, TriggerMark, Quiet
<1>5. injects' = Triggered(i)
  BY DEF TriggerMark
<1> HIDE DEF i
<1>6. TypeOK'
  <2>1. injects' \in [Injects -> Inject]
    BY <1>0, <1>5, TriggeredRow
  <2> QED
    BY <1>0, <1>2, <1>4, <2>1 DEF TypeOK, TriggerMark, Quiet
<1>7. ASSUME NEW j \in Injects
      PROVE  /\ injects'[j].triggered <=> injects'[j].count > 0
             /\ scheduledEvents'[j] <= injects'[j].count
  <2>0. scheduledEvents'[j] = scheduledEvents[j] /\ scheduledEvents[j] <= injects[j].count
    BY DEF TriggerMark, IInv, CountsOK
  <2>1. CASE j = i
    <3>1. injects'[j].triggered /\ injects'[j].count = injects[j].count + 1
      BY <1>0, <1>5, <2>1, TriggeredRow
    <3>2. injects[j].count \in Nat /\ scheduledEvents[j] \in Nat
      BY <1>0, CountTypes
    <3>3. injects'[j].count > 0 /\ scheduledEvents'[j] <= injects'[j].count
      BY <2>0, <3>1, <3>2
    <3> QED
      BY <3>1, <3>3
  <2>2. CASE j # i
    <3>1. injects'[j] = injects[j]
      BY <1>0, <1>5, <2>2, TriggeredRow
    <3> QED
      BY <2>0, <3>1 DEF IInv, CountsOK
  <2> QED
    BY <2>1, <2>2
<1>8. DeliveriesLogged'
  <2>1. ASSUME NEW j \in Injects
        PROVE  injects'[j].count - (scheduledEvents'[j] + triggerEvents'[j])
                 - Cardinality(Pending(j)') \in 0 .. failures
    <3>1. /\ injects[j].count - (scheduledEvents[j] + triggerEvents[j])
            - Cardinality(Pending(j)) \in 0 .. failures
            /\ failures \in Nat
      BY DEF TypeOK, IInv, DeliveriesLogged
    <3>2. scheduledEvents'[j] = scheduledEvents[j] /\ triggerEvents'[j] = triggerEvents[j]
      BY DEF TriggerMark
    <3>3. /\ injects[j].count \in Nat
          /\ scheduledEvents[j] \in Nat /\ triggerEvents[j] \in Nat
          /\ Cardinality(Pending(j)) \in Nat /\ IsFiniteSet(Pending(j))
      BY <1>0, CountTypes, PendingFinite
    <3>4. ASSUME NEW q \in Requests, q # r
          PROVE  tasks'[q] = tasks[q]
      BY <1>0, <1>2, <3>4 DEF TypeOK, Becomes
    <3>5. tasks'[r] = task
      BY <1>0, <1>2 DEF TypeOK, Becomes
    <3>6. CASE j = i
      <4>1. r \notin Pending(j) /\ Pending(j)' = Pending(j) \cup {r}
        BY <1>0, <1>1, <3>4, <3>5, <3>6 DEF Pending, Is
      <4>2. Cardinality(Pending(j)') = Cardinality(Pending(j)) + 1
        BY <3>3, <4>1, FS_AddElement
      <4>3. injects'[j].count = injects[j].count + 1
        BY <1>0, <1>5, <3>6, TriggeredRow
      <4> QED
        BY <3>1, <3>2, <3>3, <4>2, <4>3
    <3>7. CASE j # i
      <4>1. Pending(j)' = Pending(j)
        BY <1>0, <1>1, <3>4, <3>5, <3>7 DEF Pending, Is
      <4>2. injects'[j] = injects[j]
        BY <1>0, <1>5, <3>7, TriggeredRow
      <4> QED
        BY <3>1, <3>2, <4>1, <4>2
    <3> QED
      BY <3>6, <3>7
  <2> QED
    BY <2>1 DEF DeliveriesLogged, TriggerMark, Quiet
<1>9. CountsOK' /\ ClockCoherent'
  BY <1>7 DEF CountsOK, IInv, ClockCoherent, TriggerMark, Quiet
<1> QED
  BY <1>4, <1>6, <1>8, <1>9 DEF IInv

LEMMA TriggerEventOK ==
  ASSUME IInv, NEW r \in Requests, TriggerEvent(r)
  PROVE  IInv'
<1> DEFINE i == tasks[r].inject
<1>0. /\ TypeOK /\ r \in Tasks /\ tasks[r] \in Task /\ tasks[r].step = "event"
      /\ i \in Injects
  BY DEF IInv, TypeOK, TriggerEvent, Is, Tasks, TasksOK, TaskFits
<1>1. /\ Becomes(r, Idle) /\ loop' \in Requests \cup {None}
      /\ triggerEvents' = [triggerEvents EXCEPT ![i] = @ + 1]
      /\ UNCHANGED <<exercise, injects, scheduledEvents>> /\ Quiet
  BY <1>0 DEF TriggerEvent, Finishes, TypeOK
<1>2. tasks' \in [Tasks -> Task] /\ TasksOK'
  BY <1>0, <1>1, IdleFits, TaskReplaced DEF IInv, Quiet
<1>3. TypeOK'
  <2>1. triggerEvents' \in [Injects -> Nat]
    BY <1>0, <1>1 DEF TypeOK
  <2> QED
    BY <1>0, <1>1, <1>2, <2>1 DEF TypeOK, Quiet
<1>4. CountsOK' /\ ClockCoherent'
  BY <1>1 DEF IInv, CountsOK, ClockCoherent, Quiet
<1> HIDE DEF i
<1>5. DeliveriesLogged'
  <2>1. ASSUME NEW j \in Injects
        PROVE  injects'[j].count - (scheduledEvents'[j] + triggerEvents'[j])
                 - Cardinality(Pending(j)') \in 0 .. failures
    <3>1. /\ injects[j].count - (scheduledEvents[j] + triggerEvents[j])
            - Cardinality(Pending(j)) \in 0 .. failures
            /\ failures \in Nat
      BY DEF TypeOK, IInv, DeliveriesLogged
    <3>2. /\ injects[j].count \in Nat
          /\ scheduledEvents[j] \in Nat /\ triggerEvents[j] \in Nat
          /\ Cardinality(Pending(j)) \in Nat /\ IsFiniteSet(Pending(j))
      BY <1>0, CountTypes, PendingFinite
    <3>3. ASSUME NEW q \in Requests, q # r
          PROVE  tasks'[q] = tasks[q]
      BY <1>0, <1>1, <3>3 DEF TypeOK, Becomes
    <3>4. tasks'[r].step = "idle"
      BY <1>0, <1>1 DEF TypeOK, Becomes, Idle
    <3>5. CASE j = i
      <4>1. r \in Pending(j) /\ Pending(j)' = Pending(j) \ {r}
        BY <1>0, <3>3, <3>4, <3>5 DEF Pending, Is, i
      <4>2. Cardinality(Pending(j)') = Cardinality(Pending(j)) - 1
        BY <3>2, <4>1, FS_RemoveElement
      <4>3. triggerEvents'[j] = triggerEvents[j] + 1
        BY <1>0, <1>1, <3>5 DEF TypeOK
      <4> QED
        BY <1>1, <3>1, <3>2, <4>2, <4>3
    <3>6. CASE j # i
      <4>1. Pending(j)' = Pending(j)
        BY <1>0, <3>3, <3>4, <3>6 DEF Pending, Is, i
      <4>2. triggerEvents'[j] = triggerEvents[j]
        BY <1>0, <1>1, <3>6 DEF TypeOK
      <4> QED
        BY <1>1, <3>1, <4>1, <4>2
    <3> QED
      BY <3>5, <3>6
  <2> QED
    BY <1>1, <2>1 DEF DeliveriesLogged, Quiet
<1> QED
  BY <1>2, <1>3, <1>4, <1>5 DEF IInv

LEMMA InjectRow ==
  ASSUME NEW triggered \in BOOLEAN, NEW count \in Nat,
         NEW offset \in Offsets \cup {None}, NEW auto \in BOOLEAN
  PROVE  [triggered |-> triggered, count |-> count, offset |-> offset, auto |-> auto] \in Inject
  BY DEF Inject

(* Changing the schedule of an inject disturbs neither counts nor events. *)
LEMMA RescheduleOK ==
  ASSUME IInv, NEW t \in Tasks, NEW task \in Task, TaskFits(task, now), Becomes(t, task),
         tasks[t].step # "event", task.step # "event",
         loop' \in Requests \cup {None}, NEW i \in Injects,
         NEW offset \in Offsets \cup {None}, NEW auto \in BOOLEAN,
         injects' = [injects EXCEPT ![i].offset = offset, ![i].auto = auto],
         UNCHANGED <<exercise, scheduledEvents, triggerEvents>>, Quiet
  PROVE  IInv'
<1>1. tasks' \in [Tasks -> Task] /\ TasksOK'
  BY TaskReplaced DEF IInv, Quiet
<1>2. injects \in [Injects -> Inject]
  BY DEF IInv, TypeOK
<1>3. injects'[i] = [triggered |-> injects[i].triggered, count |-> injects[i].count,
                     offset |-> offset, auto |-> auto]
  BY <1>2 DEF Inject
<1>4. injects'[i] \in Inject
  <2>1. injects[i].triggered \in BOOLEAN /\ injects[i].count \in Nat
    BY <1>2 DEF Inject
  <2>2. [triggered |-> injects[i].triggered, count |-> injects[i].count,
         offset |-> offset, auto |-> auto] \in Inject
    BY <2>1, InjectRow
  <2> QED
    BY <1>3, <2>2
<1>5. \A j \in Injects : j # i => injects'[j] = injects[j]
  BY <1>2
<1>6. injects' \in [Injects -> Inject]
  BY <1>2, <1>4, <1>5
<1>7. TypeOK'
  BY <1>1, <1>6 DEF IInv, TypeOK, Quiet
<1>8. \A j \in Injects : injects'[j].count = injects[j].count
  <2>1. injects'[i].count = injects[i].count
    BY <1>3
  <2> QED
    BY <1>5, <2>1
<1>9. \A j \in Injects : injects'[j].triggered = injects[j].triggered
  <2>1. injects'[i].triggered = injects[i].triggered
    BY <1>3
  <2> QED
    BY <1>5, <2>1
<1>10. CountsOK' /\ ClockCoherent'
  BY <1>8, <1>9 DEF IInv, CountsOK, ClockCoherent, Quiet
<1>11. DeliveriesLogged'
  <2>1. \A j \in Injects : Pending(j)' = Pending(j)
    BY PendingKept DEF IInv
  <2> QED
    BY <1>8, <2>1 DEF IInv, DeliveriesLogged, Quiet
<1> QED
  BY <1>1, <1>7, <1>10, <1>11 DEF IInv

LEMMA ScheduleWriteOK ==
  ASSUME IInv, NEW r \in Requests, ScheduleWrite(r)
  PROVE  IInv'
<1>1. /\ r \in Tasks /\ tasks[r].step = "schedule" /\ tasks[r].inject \in Injects
      /\ tasks[r].offset \in Offsets \cup {None} /\ tasks[r].auto \in BOOLEAN
  BY DEF IInv, TypeOK, ScheduleWrite, Is, Tasks, TasksOK, TaskFits, Task
<1>2. loop' \in Requests \cup {None}
  BY DEF ScheduleWrite
<1> QED
  BY <1>1, <1>2, DispatchTask, RescheduleOK DEF ScheduleWrite

LEMMA ClearWriteOK ==
  ASSUME IInv, NEW r \in Requests, ClearWrite(r)
  PROVE  IInv'
<1>1. /\ r \in Tasks /\ tasks[r].step = "clear" /\ tasks[r].inject \in Injects
      /\ None \in Offsets \cup {None} /\ FALSE \in BOOLEAN
  BY DEF IInv, TypeOK, ClearWrite, Is, Tasks, TasksOK, TaskFits
<1>2. loop' \in Requests \cup {None} /\ Becomes(r, Idle) /\ Idle.step # "event"
  BY DEF ClearWrite, Finishes, IInv, TypeOK, Idle
<1> QED
  BY <1>1, <1>2, IdleFits, RescheduleOK DEF ClearWrite

LEMMA FailureOK ==
  ASSUME IInv, TriggersHold, Failure
  PROVE  IInv'
<1>1. PICK lost \in {Tasks} \cup {{t} : t \in Tasks} :
        /\ tasks' = [t \in Tasks |-> IF t \in lost THEN Idle ELSE tasks[t]]
        /\ loop' = IF loop \in lost THEN None ELSE loop
  BY DEF Failure
<1>2. tasks' \in [Tasks -> Task]
  BY <1>1, IdleFits DEF IInv, TypeOK
<1>3. TasksOK'
  <2>1. ASSUME NEW t \in Tasks
        PROVE  TaskFits(tasks'[t], now)
    BY <1>1, IdleFits DEF IInv, TasksOK
  <2> QED
    BY <2>1 DEF TasksOK, Failure
<1>4. failures \in Nat /\ failures' = failures + 1
  BY DEF IInv, TypeOK, Failure
<1>5. TypeOK'
  BY <1>1, <1>2, <1>4 DEF IInv, TypeOK, Failure, rows
<1>6. CountsOK' /\ ClockCoherent'
  BY DEF IInv, CountsOK, ClockCoherent, Failure, rows
<1>7. DeliveriesLogged'
  <2>1. ASSUME NEW i \in Injects
        PROVE  injects[i].count - (scheduledEvents[i] + triggerEvents[i])
                 - Cardinality(Pending(i)') \in 0 .. failures + 1
    <3>1. /\ injects[i].count \in Nat
          /\ scheduledEvents[i] \in Nat /\ triggerEvents[i] \in Nat
          /\ Cardinality(Pending(i)) \in Nat /\ IsFiniteSet(Pending(i))
          /\ injects[i].count - (scheduledEvents[i] + triggerEvents[i])
               - Cardinality(Pending(i)) \in 0 .. failures
      BY CountTypes, PendingFinite DEF IInv, DeliveriesLogged
    <3>2. Pending(i)' = Pending(i) \ lost
      BY <1>1 DEF Pending, Is, Idle, Tasks
    <3>3. \A r \in Pending(i) : r = loop
      BY DEF TriggersHold, Pending
    <3>4. CASE loop \in Pending(i) /\ loop \in lost
      <4>1. Pending(i)' = Pending(i) \ {loop}
        BY <3>2, <3>3, <3>4
      <4>2. Cardinality(Pending(i)') = Cardinality(Pending(i)) - 1
        BY <3>1, <3>4, <4>1, FS_RemoveElement
      <4> QED
        BY <1>4, <3>1, <4>2
    <3>5. CASE ~(loop \in Pending(i) /\ loop \in lost)
      <4>1. Pending(i)' = Pending(i)
        BY <3>2, <3>3, <3>5
      <4> QED
        BY <1>4, <3>1, <4>1
    <3> QED
      BY <3>4, <3>5
  <2> QED
    BY <1>4, <2>1 DEF DeliveriesLogged, Failure, rows
<1> QED
  BY <1>3, <1>5, <1>6, <1>7 DEF IInv

(***************************************************************************)
(* The invariant.                                                          *)
(***************************************************************************)

LEMMA NextOK == IInv /\ TriggersHold /\ [Next]_vars => IInv'
<1> SUFFICES ASSUME IInv, TriggersHold, [Next]_vars PROVE IInv'
  OBVIOUS
<1>1. ASSUME NEW r \in Requests, ClockStep(r) PROVE IInv'
  BY <1>1, ClockReadOK, ClockWriteOK, ClockRefusedOK DEF ClockStep
<1>2. ASSUME NEW r \in Requests, TriggerStep(r) PROVE IInv'
  BY <1>2, TriggerReadOK, TriggerFailsOK, TriggerMarkOK, TriggerEventOK DEF TriggerStep
<1>3. ASSUME NEW r \in Requests, ScheduleStep(r) PROVE IInv'
  BY <1>3, ScheduleReadOK, ScheduleWriteOK, ClearReadOK, ClearWriteOK DEF ScheduleStep
<1>4. ASSUME NEW t \in Tasks, DispatchStep(t) PROVE IInv'
  BY <1>4, DispatchOK, DispatchListOK, DeliverOK, DispatchEndOK DEF DispatchStep
<1>5. CASE UNCHANGED vars
  BY <1>5 DEF vars, rows, IInv, TypeOK, ClockCoherent, TasksOK, CountsOK, DeliveriesLogged,
              Pending, Is
<1> QED
  BY <1>1, <1>2, <1>3, <1>4, <1>5, SchedulerWakeOK, FailureOK, TickOK DEF Next

(* A step of one task leaves the event loop to whoever else has it.        *)
LEMMA HolderKept ==
  ASSUME TriggersHold, NEW t \in Tasks,
         \A u \in Requests : u # t => tasks'[u] = tasks[u] /\ (loop = u => loop' = u),
         t \in Requests /\ tasks'[t].step \in {"trigger", "event"} => loop' = t
  PROVE  TriggersHold'
BY DEF TriggersHold, Is

(* Whoever has the event loop keeps it while others take their steps. *)
LEMMA NextHolds == IInv /\ TriggersHold /\ [Next]_vars => TriggersHold'
<1> SUFFICES ASSUME IInv, TriggersHold, [Next]_vars PROVE TriggersHold'
  OBVIOUS
<1>1. tasks \in [Tasks -> Task] /\ Requests \subseteq Tasks /\ None \notin Requests
  BY FacilitatorAssumption DEF IInv, TypeOK, Tasks
<1>2. ASSUME NEW t \in Tasks, Finishes(t) PROVE TriggersHold'
  BY <1>1, <1>2, HolderKept DEF Finishes, Becomes, Idle
<1>3. ASSUME NEW t \in Tasks, NEW task, Becomes(t, task), UNCHANGED loop,
             task.step \notin {"trigger", "event"}
      PROVE  TriggersHold'
  BY <1>1, <1>3, HolderKept DEF Becomes
<1>4. ASSUME NEW r \in Requests, ClockStep(r) PROVE TriggersHold'
  <2>1. CASE ClockRefused(r)
    BY <1>1, <1>2, <2>1 DEF ClockRefused
  <2>2. CASE ClockWrite(r)
    <3> DEFINE next == IF tasks[r].command \in {"start", "resume"}
                       THEN [Idle EXCEPT !.step = "dispatch"] ELSE Idle
    <3>1. Becomes(r, next) /\ UNCHANGED loop
      BY <2>2 DEF ClockWrite
    <3>2. next.step \notin {"trigger", "event"}
      BY DEF Idle
    <3> QED
      BY <1>1, <1>3, <3>1, <3>2
  <2>3. ASSUME NEW command \in Commands, ClockRead(r, command) PROVE TriggersHold'
    BY <1>1, <1>3, <2>3 DEF ClockRead, Idle
  <2> QED
    BY <1>4, <2>1, <2>2, <2>3 DEF ClockStep
<1>5. ASSUME NEW r \in Requests, TriggerStep(r) PROVE TriggersHold'
  <2>1. CASE TriggerFails(r) \/ TriggerEvent(r)
    BY <1>1, <1>2, <2>1 DEF TriggerFails, TriggerEvent
  <2>2. CASE TriggerMark(r)
    <3>1. loop = r /\ loop' = r
      BY <2>2 DEF TriggerMark, Continues, TriggersHold, Is
    <3>2. \A u \in Requests : u # r => tasks'[u] = tasks[u]
      BY <1>1, <2>2 DEF TriggerMark, Continues
    <3> QED
      BY <1>1, <3>1, <3>2, HolderKept
  <2>3. ASSUME NEW i \in Injects, TriggerRead(r, i) PROVE TriggersHold'
    <3>1. loop = None /\ loop' = r
      BY <2>3 DEF TriggerRead
    <3>2. \A u \in Requests : u # r => tasks'[u] = tasks[u]
      BY <1>1, <2>3 DEF TriggerRead, Becomes
    <3> QED
      BY <1>1, <3>1, <3>2, HolderKept
  <2> QED
    BY <1>5, <2>1, <2>2, <2>3 DEF TriggerStep
<1>6. ASSUME NEW r \in Requests, ScheduleStep(r) PROVE TriggersHold'
  <2>1. CASE ClearWrite(r)
    BY <1>1, <1>2, <2>1 DEF ClearWrite
  <2>2. CASE ScheduleWrite(r)
    <3>1. loop = None /\ loop' = r
      BY <2>2 DEF ScheduleWrite
    <3>2. \A u \in Requests : u # r => tasks'[u] = tasks[u]
      BY <1>1, <2>2 DEF ScheduleWrite, Becomes
    <3> QED
      BY <1>1, <3>1, <3>2, HolderKept
  <2>3. ASSUME NEW i \in Injects, ClearRead(r, i) PROVE TriggersHold'
    BY <1>1, <1>3, <2>3 DEF ClearRead, Idle
  <2>4. ASSUME NEW i \in Injects, NEW offset \in Offsets, NEW auto \in BOOLEAN,
               ScheduleRead(r, i, offset, auto)
        PROVE  TriggersHold'
    BY <1>1, <1>3, <2>4 DEF ScheduleRead, Idle
  <2> QED
    BY <1>6, <2>1, <2>2, <2>3, <2>4 DEF ScheduleStep
<1>7. ASSUME NEW t \in Tasks, DispatchStep(t) PROVE TriggersHold'
  <2>1. CASE DispatchEnd(t)
    BY <1>2, <2>1 DEF DispatchEnd
  <2>2. CASE Dispatch(t)
    <3>1. CASE exercise.status = "running"
      BY <1>3, <2>2, <3>1 DEF Dispatch, Idle
    <3> QED
      BY <1>2, <2>2, <3>1 DEF Dispatch
  <2>3. CASE DispatchList(t)
    <3> DEFINE next == [tasks[t] EXCEPT !.step = "deliver", !.todo = Due(tasks[t].elapsed)]
    <3>1. Becomes(t, next) /\ UNCHANGED loop
      BY <2>3 DEF DispatchList
    <3>2. next.step = "deliver"
      BY <1>1 DEF Task
    <3> HIDE DEF next
    <3> QED
      BY <1>3, <3>1, <3>2
  <2>4. ASSUME NEW i \in Injects, Deliver(t, i) PROVE TriggersHold'
    <3>1. \A u \in Requests : u # t => tasks'[u] = tasks[u]
      BY <1>1, <2>4 DEF Deliver
    <3>2. tasks'[t].step = "deliver" /\ loop' = loop
      BY <1>1, <2>4 DEF Deliver, Is, Task
    <3> QED
      BY <3>1, <3>2, HolderKept
  <2> QED
    BY <1>7, <2>1, <2>2, <2>3, <2>4 DEF DispatchStep
<1>8. CASE SchedulerWake
  BY <1>3, <1>8 DEF SchedulerWake, Idle, Tasks
<1>9. CASE Failure
  <2>1. PICK lost \in {Tasks} \cup {{t} : t \in Tasks} :
          /\ tasks' = [t \in Tasks |-> IF t \in lost THEN Idle ELSE tasks[t]]
          /\ loop' = IF loop \in lost THEN None ELSE loop
    BY <1>9 DEF Failure
  <2> QED
    BY <1>1, <2>1 DEF TriggersHold, Is, Idle
<1>10. CASE Tick \/ UNCHANGED vars
  BY <1>10 DEF Tick, vars, TriggersHold, Is
<1> QED
  BY <1>4, <1>5, <1>6, <1>7, <1>8, <1>9, <1>10 DEF Next

THEOREM Invariant == Spec => []IInv
<1>1. Init => TriggersHold
  BY DEF Init, TriggersHold, Is, Idle, Tasks
<1> QED
  BY <1>1, InitOK, NextOK, NextHolds, PTL DEF Spec

(* Every variable keeps its type.                                          *)
THEOREM TypeCorrect == Spec => []TypeOK
<1>1. IInv => TypeOK
  BY DEF IInv
<1> QED
  BY <1>1, Invariant, PTL

(* However many clock commands race, the clock columns stay coherent, and  *)
(* the paused time, rounded pause by pause, never exceeds the time passed. *)
THEOREM ClockStaysCoherent == Spec => []ClockCoherent
<1>1. IInv => ClockCoherent
  BY DEF IInv
<1> QED
  BY <1>1, Invariant, PTL

(* However many triggers and dispatchers race, every delivery has its      *)
(* event, but for at most one per failure, and no event tells of a         *)
(* delivery that was not made.                                             *)
THEOREM DeliveriesStayLogged == Spec => []DeliveriesLogged
<1>1. IInv => DeliveriesLogged
  BY DEF IInv
<1> QED
  BY <1>1, Invariant, PTL

(***************************************************************************)
(* What steps may do.                                                      *)
(***************************************************************************)

(* Only the statement of a scheduled delivery logs one. *)
LEMMA NextDelivers ==
  ASSUME IInv, [Next]_vars, NEW i \in Injects, scheduledEvents'[i] # scheduledEvents[i]
  PROVE  /\ exercise.status = "running"
         /\ injects[i].count = 0
         /\ scheduledEvents'[i] = 1
<1>1. \E t \in Tasks, j \in Injects : Deliver(t, j)
  <2>1. ASSUME NEW r \in Requests, ClockStep(r) PROVE UNCHANGED scheduledEvents
    BY <2>1 DEF ClockStep, ClockRead, ClockWrite, ClockRefused, rows
  <2>2. ASSUME NEW r \in Requests, TriggerStep(r) PROVE UNCHANGED scheduledEvents
    BY <2>2 DEF TriggerStep, TriggerRead, TriggerFails, TriggerMark, TriggerEvent, rows
  <2>3. ASSUME NEW r \in Requests, ScheduleStep(r) PROVE UNCHANGED scheduledEvents
    BY <2>3 DEF ScheduleStep, ScheduleRead, ScheduleWrite, ClearRead, ClearWrite, rows
  <2>4. ASSUME SchedulerWake \/ Failure \/ Tick \/ UNCHANGED vars PROVE UNCHANGED scheduledEvents
    BY <2>4 DEF SchedulerWake, Failure, Tick, vars, rows
  <2>5. ASSUME NEW t \in Tasks, Dispatch(t) \/ DispatchList(t) \/ DispatchEnd(t)
        PROVE  UNCHANGED scheduledEvents
    BY <2>5 DEF Dispatch, DispatchList, DispatchEnd, rows
  <2> QED
    BY <2>1, <2>2, <2>3, <2>4, <2>5 DEF Next, DispatchStep
<1>2. PICK t \in Tasks, j \in Injects : Deliver(t, j)
  BY <1>1
<1>3. Deliverable(j) /\ scheduledEvents' = [scheduledEvents EXCEPT ![j] = @ + 1]
  BY <1>2 DEF Deliver
<1>4. i = j
  BY <1>3 DEF IInv, TypeOK
<1>5. ~injects[i].triggered /\ exercise.status = "running"
  BY <1>3, <1>4 DEF Deliverable
<1>6. injects[i].count \in Nat /\ scheduledEvents[i] \in Nat
  BY CountTypes DEF IInv
<1>7. ~(injects[i].count > 0) /\ scheduledEvents[i] <= injects[i].count
  BY <1>5 DEF IInv, CountsOK
<1>8. injects[i].count = 0 /\ scheduledEvents[i] = 0
  BY <1>6, <1>7
<1>9. scheduledEvents'[i] = scheduledEvents[i] + 1
  BY <1>3, <1>4 DEF IInv, TypeOK
<1> QED
  BY <1>5, <1>8, <1>9

(* A scheduled delivery only happens while the exercise runs, and only to  *)
(* an inject that was never delivered, by whomever.                        *)
THEOREM ScheduledDeliveriesAreAtomic == Spec => ScheduledDeliveryAtomic
<1>1. IInv /\ [Next]_vars =>
        [\A i \in Injects :
           scheduledEvents'[i] # scheduledEvents[i] =>
             /\ exercise.status = "running"
             /\ injects[i].count = 0
             /\ scheduledEvents'[i] = 1]_vars
  BY NextDelivers
<1> QED
  BY <1>1, Invariant, PTL DEF Spec, ScheduledDeliveryAtomic

(* Only a clock command writes the exercise row. *)
LEMMA NextRetains ==
  ASSUME IInv, [Next]_vars, NEW r \in Requests, Writes(r), tasks[r].seen = exercise
  PROVE  Retains(r)
<1>1. \E q \in Requests : ClockWrite(q)
  <2>1. ASSUME NEW q \in Requests, ClockRefused(q)
               \/ \E command \in Commands : ClockRead(q, command)
        PROVE  UNCHANGED exercise
    BY <2>1 DEF ClockRead, ClockRefused, rows
  <2>2. ASSUME NEW q \in Requests, TriggerStep(q) PROVE UNCHANGED exercise
    BY <2>2 DEF TriggerStep, TriggerRead, TriggerFails, TriggerMark, TriggerEvent, rows
  <2>3. ASSUME NEW q \in Requests, ScheduleStep(q) PROVE UNCHANGED exercise
    BY <2>3 DEF ScheduleStep, ScheduleRead, ScheduleWrite, ClearRead, ClearWrite, rows
  <2>4. ASSUME SchedulerWake \/ Failure \/ Tick \/ UNCHANGED vars PROVE UNCHANGED exercise
    BY <2>4 DEF SchedulerWake, Failure, Tick, vars, rows
  <2>5. ASSUME NEW t \in Tasks, DispatchStep(t) PROVE UNCHANGED exercise
    BY <2>5 DEF DispatchStep, Dispatch, DispatchList, Deliver, DispatchEnd, rows
  <2>6. exercise' # exercise
    BY DEF Writes
  <2> QED
    BY <2>1, <2>2, <2>3, <2>4, <2>5, <2>6 DEF Next, ClockStep
<1>2. PICK q \in Requests : ClockWrite(q)
  BY <1>1
<1>3. q = r
  <2>1. tasks'[r] # tasks[r] /\ tasks \in [Tasks -> Task] /\ r \in Tasks
    BY DEF Writes, IInv, TypeOK, Tasks
  <2> QED
    BY <1>2, <2>1 DEF ClockWrite, Becomes
<1>4. exercise' = Transition(exercise, tasks[r].command, tasks[r].asked)
  BY <1>2, <1>3 DEF ClockWrite
<1>5. /\ tasks[r].command \in {"pause", "resume", "complete"} /\ tasks[r].asked \in Nat
      /\ exercise \in Exercise
      /\ CanTransition(exercise, tasks[r].command)
      /\ Coherent(exercise, tasks[r].asked)
  BY DEF Writes, IInv, TasksOK, TaskFits, Is, Tasks
<1> QED
  BY <1>4, <1>5, TransitionRetains DEF Retains

(* Pausing, resuming and completing lose no time, and gain at most the     *)
(* fraction of a second a pause is rounded down by, unless another command *)
(* came between the read and the write.                                    *)
THEOREM CommandsRetainTime == Spec => UnracedCommandsRetainTime
<1>1. IInv /\ [Next]_vars =>
        [\A r \in Requests : Writes(r) /\ tasks[r].seen = exercise => Retains(r)]_vars
  BY NextRetains
<1> QED
  BY <1>1, Invariant, PTL DEF Spec, UnracedCommandsRetainTime

=============================================================================
