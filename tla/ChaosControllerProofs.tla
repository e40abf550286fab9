------------------------ MODULE ChaosControllerProofs ------------------------
(***************************************************************************)
(* Proofs about ChaosController, for every value of its constants.         *)
(*                                                                         *)
(* The monitor works on what it read in an earlier call.  MonitorOK says   *)
(* what of it is still true by the time it is used, whatever ran in        *)
(* between; NextOK and the lemmas on the budgets of ChaosEngineProofs then *)
(* apply, because every step is one call of the engine.                    *)
(***************************************************************************)
EXTENDS ChaosController, ChaosEngineProofs

USE DEF NoRun, TerminalRun, TerminalStage, LivePlaybook

(***************************************************************************)
(* What no call of the engine takes back.                                  *)
(***************************************************************************)

Persists ==
  /\ \A r \in RunIds :
       runs[r].status # "absent" =>
         runs'[r].status # "absent" /\ runs'[r].owner = runs[r].owner
  /\ \A r \in Begun :
       /\ r \in Begun'
       /\ runs'[r].expires = runs[r].expires
       /\ runs'[r].status = "active" => runs[r].status = "active"
  /\ \A p \in PlaybookRunIds :
       playbookRuns[p].status # "absent" =>
         /\ playbookRuns'[p].status # "absent"
         /\ playbookRuns'[p].definition = playbookRuns[p].definition
         /\ \A s \in Stages :
              stages[p][s].status # "pending" => stages'[p][s].status # "pending"

(* No run is requested for a stage. *)
NoneRequested == \A r \in RunIds : runs'[r].owner \in {runs[r].owner, None}

(* The stages that wait to be started, or are under way. *)
UnderWay(stage) == stage.status \in {"starting", "active"}

NoneClaimed ==
  \A p \in PlaybookRunIds, s \in Stages : UnderWay(stages'[p][s]) => UnderWay(stages[p][s])

(* No run is put in force but those of S. *)
Activates(S) == RunsInForce(active') \subseteq RunsInForce(active) \cup S

LEMMA QuietPersists ==
  ASSUME IInv, Quiet
  PROVE  Persists /\ NoneRequested /\ NoneClaimed /\ Activates({})
<1>1. Persists
  BY DEF Persists, Begun, Quiet, RunsGoOn, BooksGoOn, StagesOnlyEnd
<1>2. NoneRequested
  BY DEF NoneRequested, Quiet, RunsGoOn
<1>3. NoneClaimed
  BY DEF NoneClaimed, UnderWay, Quiet, StagesOnlyEnd
<1> QED BY <1>1, <1>2, <1>3 DEF Activates, Quiet

LEMMA ActivatePersists ==
  ASSUME IInv, NEW r \in RunIds, ActivateRun(r)
  PROVE  /\ Persists /\ NoneRequested /\ NoneClaimed /\ Activates({r})
         /\ r \in Begun' /\ UNCHANGED <<playbookRuns, stages>>
<1>1. /\ RunsGoOn /\ UNCHANGED <<playbookRuns, stages>>
      /\ RunsInForce(active') \subseteq RunsInForce(active) \cup {r}
      /\ runs'[r].status = "active"
  BY ActivateGoesOn
<1>2. Persists /\ NoneRequested /\ NoneClaimed
  BY <1>1 DEF Persists, Begun, NoneRequested, NoneClaimed, RunsGoOn
<1> QED BY <1>1, <1>2 DEF Begun, Activates

LEMMA BeginPersists ==
  ASSUME IInv, NEW r \in RunIds, NEW a, NEW i, NEW d, NEW o, BeginRun(r, a, i, d, o)
  PROVE  /\ Persists /\ NoneClaimed /\ Activates({})
         /\ runs'[r].owner = o /\ runs'[r].status = "pending"
         /\ \A q \in RunIds : q # r => runs'[q] = runs[q]
<1> DEFINE new == [status |-> "pending", action |-> a, intensity |-> i,
                   duration |-> d, expires |-> None, owner |-> o]
<1>1. /\ runs' = [runs EXCEPT ![r] = new] /\ runs \in [RunIds -> Run]
      /\ runs[r].status = "absent"
      /\ UNCHANGED <<active, playbookRuns, stages>>
  BY DEF BeginRun, IInv, RunsOK, playbookVars
<1>2. new.status = "pending" /\ new.owner = o
  OBVIOUS
<1> HIDE DEF new
<1>3. runs'[r] = new /\ \A q \in RunIds : q # r => runs'[q] = runs[q]
  BY <1>1
<1>4. Persists /\ NoneClaimed
  BY <1>1, <1>3 DEF Persists, Begun, NoneClaimed
<1> QED BY <1>1, <1>2, <1>3, <1>4 DEF Activates

LEMMA ClaimPersists ==
  ASSUME IInv, NEW p \in PlaybookRunIds, NEW s \in Stages, ClaimStage(p, s)
  PROVE  /\ Persists /\ NoneRequested /\ Activates({})
         /\ playbookRuns[p].status = "running"
         /\ stages[p][s].status = "pending" /\ stages'[p][s].status = "starting"
         /\ \A q \in PlaybookRunIds, t \in Stages :
              q # p \/ t # s => stages'[q][t] = stages[q][t]
         /\ UNCHANGED <<clock, runs, active, playbookRuns>>
<1> DEFINE stage == [stages[p][s] EXCEPT !.status = "starting"]
<1>1. /\ stages' = [stages EXCEPT ![p][s] = stage]
      /\ stages \in [PlaybookRunIds -> [Stages -> Stage]]
      /\ stages[p][s].status = "pending" /\ playbookRuns[p].status = "running"
      /\ UNCHANGED <<clock, runs, active, playbookRuns>>
  BY DEF ClaimStage, ClaimAllowed, IInv, PlaybooksOK
<1>2. stage.status = "starting"
  BY <1>1 DEF Stage
<1> HIDE DEF stage
<1>3. /\ stages'[p][s] = stage
      /\ \A q \in PlaybookRunIds, t \in Stages : q # p \/ t # s => stages'[q][t] = stages[q][t]
  BY <1>1
<1>4. \A q \in PlaybookRunIds, t \in Stages :
        stages[q][t].status # "pending" => stages'[q][t].status # "pending"
  BY <1>2, <1>3
<1>5. Persists /\ NoneRequested
  BY <1>1, <1>4 DEF Persists, Begun, NoneRequested
<1> QED BY <1>1, <1>2, <1>3, <1>5 DEF Activates

LEMMA LinkPersists ==
  ASSUME IInv, NEW p \in PlaybookRunIds, NEW s \in Stages, NEW r \in RunIds, LinkStage(p, s, r)
  PROVE  /\ Persists /\ NoneRequested /\ NoneClaimed /\ Activates({})
         /\ stages[p][s].status = "starting"
         /\ stages'[p][s] = [status |-> "active", run |-> r]
         /\ \A q \in PlaybookRunIds, t \in Stages :
              q # p \/ t # s => stages'[q][t] = stages[q][t]
         /\ playbookRuns[p].status \in LivePlaybook
         /\ UNCHANGED <<clock, runs, active, playbookRuns>>
<1> DEFINE stage == [status |-> "active", run |-> r]
<1>1. /\ stages' = [stages EXCEPT ![p][s] = stage]
      /\ stages \in [PlaybookRunIds -> [Stages -> Stage]]
      /\ stages[p][s].status = "starting" /\ playbookRuns[p].status # "absent"
      /\ UNCHANGED <<clock, runs, active, playbookRuns>>
  BY DEF LinkStage, IInv, PlaybooksOK
<1>2. playbookRuns[p].status \in LivePlaybook
  BY <1>1 DEF IInv, PlaybooksOK, PlaybookOK, PlaybookRun
<1>3. stage.status = "active"
  OBVIOUS
<1>4. /\ stages'[p][s] = stage
      /\ \A q \in PlaybookRunIds, t \in Stages : q # p \/ t # s => stages'[q][t] = stages[q][t]
  BY <1>1
<1> HIDE DEF stage
<1>5. \A q \in PlaybookRunIds, t \in Stages :
        stages[q][t].status # "pending" => stages'[q][t].status # "pending"
  BY <1>3, <1>4
<1>6. NoneClaimed
  BY <1>1, <1>4 DEF NoneClaimed, UnderWay
<1>7. Persists /\ NoneRequested
  BY <1>1, <1>5 DEF Persists, Begun, NoneRequested
<1> QED BY <1>1, <1>2, <1>4, <1>6, <1>7 DEF stage, Activates

LEMMA AppendPersists ==
  ASSUME IInv, NEW p \in PlaybookRunIds, NEW b, NEW d, AppendPlaybookRun(p, b, d)
  PROVE  /\ Persists /\ NoneRequested /\ NoneClaimed /\ Activates({})
         /\ playbookRuns[p].status = "absent"
         /\ \A q \in PlaybookRunIds :
              q # p => stages'[q] = stages[q] /\ playbookRuns'[q] = playbookRuns[q]
<1> DEFINE new   == [status |-> "running", book |-> b, definition |-> d,
                     started |-> clock, pausedAt |-> None, totalPaused |-> 0]
           fresh == [s \in Stages |-> PendingStage]
<1>1. /\ playbookRuns' = [playbookRuns EXCEPT ![p] = new]
      /\ stages' = [stages EXCEPT ![p] = fresh]
      /\ playbookRuns \in [PlaybookRunIds -> PlaybookRun]
      /\ stages \in [PlaybookRunIds -> [Stages -> Stage]]
      /\ playbookRuns[p].status = "absent"
      /\ UNCHANGED <<runs, active>>
  BY DEF AppendPlaybookRun, IInv, PlaybooksOK
<1>2. \A s \in Stages : fresh[s].status = "pending"
  BY DEF PendingStage
<1> HIDE DEF new, fresh
<1>3. /\ stages'[p] = fresh
      /\ \A q \in PlaybookRunIds :
           q # p => stages'[q] = stages[q] /\ playbookRuns'[q] = playbookRuns[q]
  BY <1>1
<1>4. Persists
  BY <1>1, <1>3 DEF Persists, Begun
<1>5. NoneRequested /\ NoneClaimed
  BY <1>1, <1>2, <1>3 DEF NoneRequested, NoneClaimed, UnderWay
<1> QED BY <1>1, <1>3, <1>4, <1>5 DEF Activates

(* The calls that operators and requests make, and the passing of time.    *)
LEMMA OperatorPersists ==
  ASSUME IInv, OperatorStep
  PROVE  Persists /\ NoneRequested /\ NoneClaimed /\ Activates({})
<1>1. CASE \/ GetState \/ EmergencyStop \/ LibraryStep
           \/ \E a \in Actions : Abort(a)
           \/ \E p \in PlaybookRunIds, s \in Stages : SkipStage(p, s)
  BY <1>1, QuietSteps, QuietPersists DEF EmergencyStop
<1>2. CASE PlaybookStep
  <2>1. PICK p \in PlaybookRunIds :
          \/ \E b \in Books : StartPlaybook(p, b)
          \/ \E q \in PlaybookRunIds : ReplayPlaybook(p, q)
          \/ PausePlaybook(p) \/ ResumePlaybook(p) \/ StopPlaybook(p)
    BY <1>2 DEF PlaybookStep
  <2>2. CASE PausePlaybook(p) \/ ResumePlaybook(p) \/ StopPlaybook(p)
    BY <2>2, QuietSteps, QuietPersists
  <2>3. CASE \/ \E b \in Books : StartPlaybook(p, b)
             \/ \E q \in PlaybookRunIds : ReplayPlaybook(p, q)
    BY <2>3, AppendPersists DEF StartPlaybook, ReplayPlaybook
  <2> QED BY <2>1, <2>2, <2>3
<1> QED BY <1>1, <1>2 DEF OperatorStep

(* The applied runs of requests belong to no stage. *)
Unowned(S) == \A r \in S : r \in RunIds /\ runs[r].status # "absent" /\ runs[r].owner = None

LEMMA RequestPersists ==
  ASSUME IInv, Unowned(applying), RequestStep
  PROVE  /\ Persists /\ NoneRequested /\ NoneClaimed /\ Activates(applying)
         /\ Unowned(applying)'
<1>1. PICK r \in RunIds : RequestBegin(r) \/ RequestPreflightFailed(r) \/ RequestActivate(r)
  BY DEF RequestStep
<1>2. CASE RequestBegin(r)
  <2>1. PICK a \in Actions, i \in Intensities, d \in Durations : BeginRun(r, a, i, d, None)
    BY <1>2 DEF RequestBegin
  <2>2. /\ Persists /\ NoneClaimed /\ Activates({})
        /\ runs'[r].owner = None /\ runs'[r].status = "pending"
        /\ \A q \in RunIds : q # r => runs'[q] = runs[q]
    BY <2>1, BeginPersists
  <2>3. NoneRequested
    BY <2>2 DEF NoneRequested
  <2>4. Unowned(applying)'
    BY <1>2, <2>2 DEF RequestBegin, Unowned, Persists
  <2> QED BY <2>2, <2>3, <2>4 DEF Activates
<1>3. CASE RequestPreflightFailed(r) \/ RequestActivate(r)
  <2>1. Persists /\ NoneRequested /\ NoneClaimed /\ Activates({r})
    BY <1>3, QuietSteps, QuietPersists, ActivatePersists
       DEF RequestPreflightFailed, RequestActivate, Activates
  <2>2. r \in applying /\ applying' \subseteq applying
    BY <1>3 DEF RequestPreflightFailed, RequestActivate
  <2> QED BY <2>1, <2>2 DEF Unowned, Persists, Activates
<1> QED BY <1>1, <1>2, <1>3

(***************************************************************************)
(* What the monitor holds.                                                 *)
(***************************************************************************)

Items == PlaybookRunIds \X Stages

ItemOK ==
  item \in Items =>
    playbookRuns[item[1]].status # "absent" /\ stages[item[1]][item[2]].status # "pending"

ClaimedOK ==
  at = "claimed" => item \in Items /\ \A r \in RunIds : runs[r].owner # item

StartingOK ==
  at \in {"activate", "link", "undo", "abort", "failStage"} =>
    /\ item \in Items /\ stageRun \in RunIds
    /\ runs[stageRun].owner = item /\ runs[stageRun].status # "absent"

StartedOK ==
  at \in {"link", "undo", "abort", "failStage"} => stageRun \in Begun

UndoneOK ==
  at = "failStage" => runs[stageRun].status # "active"

MonitorOK ==
  /\ at \in Calls
  /\ due \subseteq Items
  /\ item \in Items \cup {NoItem}
  /\ stageRun \in RunIds \cup {NoRun}
  /\ doomed \subseteq Actions
  /\ ItemOK /\ ClaimedOK /\ StartingOK /\ StartedOK /\ UndoneOK

CInv == BudgetInv /\ MonitorOK /\ Unowned(applying)

LEMMA ItemsAreNot == None \notin Items /\ NoItem \notin Items
<1>1. PlaybookRunIds \subseteq Nat /\ 0 \notin PlaybookRunIds /\ Stages \subseteq Nat
  BY EngineAssumption DEF PlaybookRunIds
<1>2. Items \subseteq Nat \X Nat
  BY <1>1 DEF Items
<1>3. None \notin Nat \X Nat
  BY EngineAssumption
<1>4. NoItem \notin Items
  BY <1>1 DEF Items, NoItem
<1> QED BY <1>2, <1>3, <1>4

(* What the monitor holds stays true while others call the engine. *)
LEMMA OthersKeepMonitor ==
  ASSUME MonitorOK, OwnersOK, Persists, NoneRequested, UNCHANGED monitorVars
  PROVE  MonitorOK'
<1> USE DEF MonitorOK, monitorVars
<1>1. ItemOK'
  BY DEF ItemOK, Items, Persists
<1>2. ClaimedOK'
  <2>1. \A ps \in Items : ps # None
    BY ItemsAreNot
  <2> QED BY <2>1 DEF ClaimedOK, NoneRequested
<1>3. StartingOK'
  BY DEF StartingOK, Persists
<1>4. StartedOK'
  BY DEF StartedOK, Persists
<1>5. UndoneOK'
  BY DEF UndoneOK, StartedOK, Persists
<1> QED BY <1>1, <1>2, <1>3, <1>4, <1>5

(* Between two stages, and outside the stage loop, it holds less. *)
LEMMA MonitorMovesOn ==
  ASSUME MonitorOK, Persists,
         item' \in {item, NoItem}, stageRun' \in {stageRun, NoRun},
         due' \subseteq Items, doomed' \subseteq Actions,
         at' \in {"patterns", "due", "claim", "guard"}
  PROVE  MonitorOK'
<1>1. ItemOK'
  <2>1. item' \in Items => item' = item
    BY ItemsAreNot
  <2> QED BY <2>1 DEF MonitorOK, ItemOK, Items, Persists
<1>2. ClaimedOK' /\ StartingOK' /\ StartedOK' /\ UndoneOK'
  BY DEF ClaimedOK, StartingOK, StartedOK, UndoneOK
<1>3. at' \in Calls /\ item' \in Items \cup {NoItem} /\ stageRun' \in RunIds \cup {NoRun}
  BY DEF MonitorOK, Calls
<1> QED BY <1>1, <1>2, <1>3 DEF MonitorOK

LEMMA MonitorClaimOK ==
  ASSUME CInv, NEW p \in PlaybookRunIds, NEW s \in Stages, MonitorClaim(p, s)
  PROVE  MonitorOK'
<1>1. /\ Persists /\ NoneRequested
      /\ playbookRuns[p].status = "running"
      /\ stages[p][s].status = "pending" /\ stages'[p][s].status = "starting"
      /\ UNCHANGED <<runs, playbookRuns>>
  BY ClaimPersists DEF MonitorClaim, CInv, BudgetInv
<1>2. \A r \in RunIds : runs[r].owner # <<p, s>>
  BY <1>1 DEF CInv, BudgetInv, OwnersOK, OwnedRunOK
<1>3. /\ at' = "claimed" /\ item' = <<p, s>> /\ due' \subseteq due
      /\ UNCHANGED <<stageRun, doomed>> /\ item' \in Items
  BY DEF MonitorClaim, Goto, Items
<1>4. ItemOK' /\ ClaimedOK'
  BY <1>1, <1>2, <1>3 DEF ItemOK, ClaimedOK
<1>5. StartingOK' /\ StartedOK' /\ UndoneOK'
  BY <1>3 DEF StartingOK, StartedOK, UndoneOK
<1> QED BY <1>3, <1>4, <1>5 DEF MonitorOK, CInv, Calls

LEMMA MonitorBeginOK ==
  ASSUME CInv, NEW p \in PlaybookRunIds, NEW s \in Stages, NEW r \in RunIds,
         MonitorBegin(p, s, r)
  PROVE  /\ MonitorOK' /\ RequestForStage(r, p, s)
         /\ Persists /\ NoneClaimed /\ Activates({})
<1> DEFINE d == playbookRuns[p].definition
<1>1. /\ at = "claimed" /\ at' = "activate" /\ item = <<p, s>> /\ stageRun' = r
      /\ BeginRun(r, d.action[s], d.intensity[s], d.duration[s], <<p, s>>)
      /\ UNCHANGED <<due, item, doomed>>
  BY DEF MonitorBegin, Goto
<1>2. item \in Items /\ item[1] = p /\ item[2] = s
  BY <1>1 DEF Items
<1>3. /\ playbookRuns[p].status # "absent" /\ stages[p][s].status # "pending"
      /\ \A q \in RunIds : runs[q].owner # <<p, s>>
  BY <1>1, <1>2 DEF CInv, MonitorOK, ItemOK, ClaimedOK
<1>4. RequestForStage(r, p, s)
  BY <1>1, <1>3 DEF RequestForStage
<1>5. /\ Persists /\ NoneClaimed /\ Activates({})
      /\ runs'[r].owner = <<p, s>> /\ runs'[r].status = "pending"
  BY <1>1, BeginPersists DEF CInv, BudgetInv
<1>6. ItemOK'
  BY <1>1, <1>2, <1>3, <1>5 DEF ItemOK, Persists
<1>7. ClaimedOK' /\ StartingOK' /\ StartedOK' /\ UndoneOK'
  BY <1>1, <1>2, <1>5 DEF ClaimedOK, StartingOK, StartedOK, UndoneOK
<1>8. MonitorOK'
  BY <1>1, <1>2, <1>6, <1>7 DEF MonitorOK, CInv, Calls
<1> QED BY <1>4, <1>5, <1>8

(* The steps from activating a run to linking it or undoing its start.     *)
LEMMA MonitorStartsOK ==
  ASSUME CInv, Persists, NoneRequested, UNCHANGED <<due, item, stageRun, doomed>>,
         \/ /\ at = "activate" /\ at' = "link"
            /\ stageRun \in Begun'
         \/ at = "link" /\ at' = "undo"
         \/ at = "undo" /\ at' = "abort"
         \/ /\ at \in {"undo", "abort"} /\ at' = "failStage"
            /\ runs'[stageRun].status # "active"
  PROVE  MonitorOK'
<1>1. ItemOK'
  BY DEF CInv, MonitorOK, ItemOK, Items, Persists
<1>2. ClaimedOK'
  BY DEF ClaimedOK
<1>3. StartingOK'
  BY DEF CInv, MonitorOK, StartingOK, Persists
<1>4. StartedOK'
  BY DEF CInv, MonitorOK, StartedOK, Persists
<1>5. UndoneOK'
  BY DEF UndoneOK
<1> QED BY <1>1, <1>2, <1>3, <1>4, <1>5 DEF CInv, MonitorOK, Calls

(* A call that names an action leaves none of its runs in force.           *)
LEMMA AbortEnds ==
  ASSUME IInv, NEW r \in RunIds, runs[r].status # "absent", Abort(runs[r].action)
  PROVE  runs'[r].status # "active"
<1> DEFINE a == runs[r].action
           S == {active[a]} \ {NoRun}
<1>1. /\ runs \in [RunIds -> Run]
      /\ runs[r].status = "active" => active[a] = r
  BY DEF IInv, RunsOK
<1>2. r # NoRun
  BY DEF RunIds
<1>3. runs' = Ended(runs, S, "aborted")
  BY DEF Abort, Finish
<1> QED BY <1>1, <1>2, <1>3 DEF Ended, Run

(* It claims no stage but a due one, and puts no run in force but the one  *)
(* it requested.                                                           *)
ClaimsOnlyDue == NoneClaimed \/ \E p \in PlaybookRunIds, s \in Stages : MonitorClaim(p, s)
AppliesOnlyItem ==
  Activates({}) \/ (Activates({stageRun}) /\ stageRun' = stageRun /\ at' = "link")

MonitorCallOK ==
  /\ MonitorOK' /\ Persists /\ [Next]_engineVars
  /\ ClaimsOnlyDue /\ AppliesOnlyItem

LEMMA MonitorStepOK ==
  ASSUME CInv, MonitorStep
  PROVE  MonitorCallOK
<1> USE DEF MonitorCallOK, ClaimsOnlyDue, AppliesOnlyItem
<1>1. /\ IInv /\ OwnersOK /\ MonitorOK
      /\ due \subseteq Items /\ doomed \subseteq Actions
  BY DEF CInv, BudgetInv, MonitorOK
<1>2. CASE MonitorPatterns \/ MonitorGetState \/ MonitorSync \/ \E a \in Actions : MonitorGuard(a)
  <2>1. GetState \/ UpdatePatterns \/ SyncPlaybookRuns \/ \E a \in Actions : Abort(a)
    BY <1>2 DEF MonitorPatterns, MonitorGetState, MonitorSync, MonitorGuard
  <2>2. Persists /\ NoneClaimed /\ Activates({})
    BY <1>1, <2>1, QuietSteps, QuietPersists
  <2>3. /\ UNCHANGED <<due, item, stageRun>> /\ doomed' \subseteq Actions
        /\ at' \in {"patterns", "due", "claim", "guard"}
    BY <1>1, <1>2
       DEF MonitorPatterns, MonitorGetState, MonitorSync, MonitorGuard, Goto, Contributing
  <2> QED BY <1>1, <2>1, <2>2, <2>3, MonitorMovesOn DEF Next, StateStep
<1>3. CASE MonitorDue
  <2>1. DuePlaybookStages /\ due' = DueStages /\ at' = "claim"
        /\ UNCHANGED <<item, stageRun, doomed>>
    BY <1>3 DEF MonitorDue, Goto
  <2>2. DueStages \subseteq Items
    BY DEF DueStages, RunningNow, Items
  <2>3. Persists /\ NoneClaimed /\ Activates({})
    BY <1>1, <2>1, DueQuiet, QuietPersists
  <2> QED BY <1>1, <2>1, <2>2, <2>3, MonitorMovesOn DEF Next, StateStep
<1>4. CASE MonitorUndo
  <2>1. GetState /\ UNCHANGED <<due, item, stageRun, doomed>> /\ at = "undo"
    BY <1>4 DEF MonitorUndo
  <2>2. \/ at' = "abort"
        \/ at' = "failStage" /\ runs'[stageRun].status # "active"
    BY <1>4 DEF MonitorUndo
  <2>3. Persists /\ NoneRequested /\ NoneClaimed /\ Activates({})
    BY <1>1, <2>1, QuietSteps, QuietPersists
  <2> QED BY <2>1, <2>2, <2>3, MonitorStartsOK DEF Next, StateStep
<1>5. CASE MonitorAbort
  <2>1. /\ Abort(runs[stageRun].action) /\ UNCHANGED <<due, item, stageRun, doomed>>
        /\ at = "abort" /\ at' = "failStage"
    BY <1>5 DEF MonitorAbort, Goto
  <2>2. stageRun \in RunIds /\ runs[stageRun].status # "absent"
    BY <1>1, <2>1 DEF MonitorOK, StartingOK
  <2>3. runs[stageRun].action \in Actions
    BY <1>1, <2>2 DEF IInv, RunsOK, RunOK
  <2>4. runs'[stageRun].status # "active"
    BY <1>1, <2>1, <2>2, AbortEnds
  <2>5. Persists /\ NoneRequested /\ NoneClaimed /\ Activates({})
    BY <1>1, <2>1, <2>3, QuietSteps, QuietPersists
  <2> QED BY <2>1, <2>3, <2>4, <2>5, MonitorStartsOK DEF Next, StateStep
<1>6. ASSUME NEW r \in RunIds, MonitorActivate(r)
      PROVE  MonitorCallOK
  <2>1. /\ ActivateRun(r) /\ stageRun = r /\ UNCHANGED <<due, item, stageRun, doomed>>
        /\ at = "activate" /\ at' = "link"
    BY <1>6 DEF MonitorActivate, Goto
  <2>2. Persists /\ NoneRequested /\ NoneClaimed /\ Activates({r}) /\ r \in Begun'
    BY <1>1, <2>1, ActivatePersists
  <2> QED BY <2>1, <2>2, MonitorStartsOK DEF Next, RunStep
<1>7. CASE MonitorStageStep
  <2>1. PICK p \in PlaybookRunIds, s \in Stages :
          \/ MonitorClaim(p, s)
          \/ MonitorClaimRefused(p, s)
          \/ MonitorPreflightFailed(p, s)
          \/ \E r \in RunIds : MonitorBegin(p, s, r)
          \/ MonitorLink(p, s)
          \/ MonitorLinkRefused(p, s)
          \/ MonitorFailStage(p, s)
    BY <1>7 DEF MonitorStageStep
  <2>2. CASE MonitorClaim(p, s)
    <3>1. ClaimStage(p, s)
      BY <2>2 DEF MonitorClaim
    <3>2. Persists /\ MonitorOK' /\ Activates({})
      BY <1>1, <2>2, <3>1, ClaimPersists, MonitorClaimOK
    <3> QED BY <2>2, <3>1, <3>2 DEF Next, StageStep
  <2>3. CASE MonitorClaimRefused(p, s)
    <3>1. /\ UNCHANGED engineVars /\ UNCHANGED <<item, stageRun, doomed>>
          /\ due' \subseteq due /\ at' = "claim"
      BY <2>3 DEF MonitorClaimRefused, Goto
    <3>2. Persists /\ NoneClaimed /\ Activates({})
      BY <1>1, <3>1, QuietSteps, QuietPersists
    <3> QED BY <1>1, <3>1, <3>2, MonitorMovesOn
  <2>4. CASE MonitorPreflightFailed(p, s) \/ MonitorFailStage(p, s)
    <3>1. /\ FailStage(p, s) /\ UNCHANGED <<due, doomed>>
          /\ item' = NoItem /\ stageRun' \in {stageRun, NoRun} /\ at' = "claim"
      BY <2>4 DEF MonitorPreflightFailed, MonitorFailStage, Goto
    <3>2. Persists /\ NoneClaimed /\ Activates({})
      BY <1>1, <3>1, QuietSteps, QuietPersists
    <3>3. MonitorOK'
      BY <1>1, <3>1, <3>2, MonitorMovesOn
    <3> QED BY <3>1, <3>2, <3>3 DEF Next, StageStep
  <2>5. ASSUME NEW r \in RunIds, MonitorBegin(p, s, r)
        PROVE  MonitorCallOK
    <3>1. /\ MonitorOK' /\ RequestForStage(r, p, s)
          /\ Persists /\ NoneClaimed /\ Activates({})
      BY <2>5, MonitorBeginOK
    <3> QED BY <3>1 DEF Next, RunStep
  <2>6. CASE MonitorLink(p, s)
    <3>1. /\ LinkStage(p, s, stageRun) /\ item = <<p, s>> /\ at = "link"
          /\ item' = NoItem /\ stageRun' = NoRun /\ at' = "claim" /\ UNCHANGED <<due, doomed>>
      BY <2>6 DEF MonitorLink, Goto
    <3>2. /\ stageRun \in RunIds /\ runs[stageRun].owner = <<p, s>>
          /\ runs[stageRun].status # "pending"
      BY <1>1, <3>1 DEF MonitorOK, StartingOK, StartedOK, Begun
    <3>3. Persists /\ NoneClaimed /\ Activates({})
      BY <1>1, <3>1, <3>2, LinkPersists
    <3>4. MonitorOK'
      BY <1>1, <3>1, <3>3, MonitorMovesOn
    <3> QED BY <3>1, <3>2, <3>3, <3>4 DEF Next, StageStep
  <2>7. CASE MonitorLinkRefused(p, s)
    <3>1. /\ UNCHANGED engineVars /\ UNCHANGED <<due, item, stageRun, doomed>>
          /\ at = "link" /\ at' = "undo"
      BY <2>7 DEF MonitorLinkRefused, Goto
    <3>2. Persists /\ NoneRequested /\ NoneClaimed /\ Activates({})
      BY <1>1, <3>1, QuietSteps, QuietPersists
    <3> QED BY <3>1, <3>2, MonitorStartsOK
  <2> QED BY <2>1, <2>2, <2>3, <2>4, <2>5, <2>6, <2>7
<1> QED BY <1>2, <1>3, <1>4, <1>5, <1>6, <1>7 DEF MonitorStep

(***************************************************************************)
(* Every step of the controller.                                           *)
(***************************************************************************)

LEMMA OperatorIsEngine == OperatorStep \/ RequestStep \/ TimeStep => Next
<1>1. OperatorStep => Next
  BY DEF OperatorStep, EmergencyStop, Next, StateStep, StageStep
<1>2. RequestStep => Next
  BY DEF RequestStep, RequestBegin, RequestPreflightFailed, RequestActivate, Next, RunStep
<1>3. TimeStep => Next
  BY DEF TimeStep, Next
<1> QED BY <1>1, <1>2, <1>3

LEMMA ControllerStepOK ==
  ASSUME CInv, [ControllerNext]_vars
  PROVE  CInv' /\ Persists /\ [Next]_engineVars
<1>1. IInv /\ OwnersOK /\ MonitorOK /\ Unowned(applying)
  BY DEF CInv, BudgetInv
<1>2. /\ MonitorOK' /\ Unowned(applying)'
      /\ Persists /\ [Next]_engineVars
  <2>1. CASE MonitorStep
    <3>1. MonitorOK' /\ Persists /\ [Next]_engineVars
      BY <2>1, MonitorStepOK DEF MonitorCallOK
    <3>2. Unowned(applying)'
      BY <1>1, <2>1, <3>1 DEF MonitorStep, Unowned, Persists
    <3> QED BY <3>1, <3>2
  <2>2. CASE RequestStep
    <3>1. Persists /\ NoneRequested /\ Unowned(applying)'
      BY <1>1, <2>2, RequestPersists
    <3>2. MonitorOK'
      BY <1>1, <2>2, <3>1, OthersKeepMonitor DEF RequestStep
    <3> QED BY <2>2, <3>1, <3>2, OperatorIsEngine
  <2>3. CASE OperatorStep
    <3>1. Persists /\ NoneRequested
      BY <1>1, <2>3, OperatorPersists
    <3>2. MonitorOK' /\ Unowned(applying)'
      BY <1>1, <2>3, <3>1, OthersKeepMonitor DEF OperatorStep, Unowned, Persists
    <3> QED BY <2>3, <3>1, <3>2, OperatorIsEngine
  <2>4. CASE Failure
    <3>1. /\ UNCHANGED engineVars
          /\ at' = "patterns" /\ due' = {} /\ item' = NoItem /\ stageRun' = NoRun
          /\ doomed' = {} /\ applying' \subseteq applying
      BY <2>4 DEF Failure
    <3>2. Persists
      BY <1>1, <3>1, QuietSteps, QuietPersists
    <3>3. MonitorOK'
      BY <1>1, <3>1, <3>2, MonitorMovesOn
    <3>4. Unowned(applying)'
      BY <1>1, <3>1, <3>2 DEF Unowned, Persists
    <3> QED BY <3>1, <3>2, <3>3, <3>4
  <2>5. CASE TimeStep
    <3>1. Tick /\ UNCHANGED monitorVars /\ UNCHANGED applying
      BY <2>5 DEF TimeStep
    <3>2. Persists /\ NoneRequested
      BY <1>1, <3>1, QuietSteps, QuietPersists
    <3>3. MonitorOK' /\ Unowned(applying)'
      BY <1>1, <3>1, <3>2, OthersKeepMonitor DEF Unowned, Persists
    <3> QED BY <2>5, <3>2, <3>3, OperatorIsEngine
  <2>6. CASE UNCHANGED vars
    <3>1. UNCHANGED engineVars /\ UNCHANGED monitorVars /\ UNCHANGED applying
      BY <2>6 DEF vars
    <3>2. Persists /\ NoneRequested
      BY <1>1, <3>1, QuietSteps, QuietPersists
    <3>3. MonitorOK' /\ Unowned(applying)'
      BY <1>1, <3>1, <3>2, OthersKeepMonitor DEF Unowned, Persists
    <3> QED BY <3>1, <3>2, <3>3
  <2> QED BY <2>1, <2>2, <2>3, <2>4, <2>5, <2>6 DEF ControllerNext
<1>3. BudgetInv'
  BY <1>2, NextOK, BudgetsKept DEF CInv, BudgetInv
<1> QED BY <1>2, <1>3 DEF CInv

LEMMA ControllerInitOK == ControllerInit => CInv
<1> SUFFICES ASSUME ControllerInit PROVE CInv
  OBVIOUS
<1>1. BudgetInv
  BY InitOK, InitBudgets DEF ControllerInit, BudgetInv
<1>2. /\ at = "patterns" /\ due = {} /\ item = NoItem /\ stageRun = NoRun /\ doomed = {}
      /\ applying = {}
  BY DEF ControllerInit, MonitorIdle
<1>3. MonitorOK
  <2>1. NoItem \notin Items
    BY ItemsAreNot
  <2> QED BY <1>2, <2>1
          DEF MonitorOK, Calls, ItemOK, ClaimedOK, StartingOK, StartedOK, UndoneOK
<1> QED BY <1>1, <1>2, <1>3 DEF CInv, Unowned

LEMMA ControllerInvariant == ControllerSpec => []CInv
<1>1. CInv /\ [ControllerNext]_vars => CInv'
  BY ControllerStepOK
<1> QED BY <1>1, ControllerInitOK, PTL DEF ControllerSpec

(* Every step of the monitor, of a request and of an operator is a call    *)
(* of the engine in an order the engine allows, however they interleave    *)
(* and wherever the server crashes: what is proved of the engine holds of  *)
(* the server.                                                             *)
THEOREM ControllerImplementsEngine == ControllerSpec => ImplementsEngine
<1>1. ControllerInit => Init
  BY DEF ControllerInit
<1>2. CInv /\ [ControllerNext]_vars => [Next]_engineVars
  BY ControllerStepOK
<1> QED BY <1>1, <1>2, ControllerInvariant, PTL DEF ControllerSpec, ImplementsEngine, Spec

(***************************************************************************)
(* The types.                                                              *)
(***************************************************************************)

FailuresOK == failures \in 0 .. MaxFailures

LEMMA FailuresCounted == ControllerSpec => []FailuresOK
<1>1. ControllerInit => FailuresOK
  BY ControllerAssumption DEF ControllerInit, FailuresOK
<1>2. FailuresOK /\ [ControllerNext]_vars => FailuresOK'
  <2> SUFFICES ASSUME FailuresOK, [ControllerNext]_vars PROVE FailuresOK'
    OBVIOUS
  <2>1. CASE Failure
    BY <2>1, ControllerAssumption DEF Failure, FailuresOK
  <2>2. CASE MonitorStep \/ RequestStep \/ OperatorStep \/ TimeStep \/ UNCHANGED vars
    <3>1. UNCHANGED failures
      BY <2>2 DEF MonitorStep, RequestStep, OperatorStep, TimeStep, vars
    <3> QED BY <3>1 DEF FailuresOK
  <2> QED BY <2>1, <2>2 DEF ControllerNext
<1> QED BY <1>1, <1>2, PTL DEF ControllerSpec

(* The state of the server and of its monitor has its types: what the      *)
(* monitor holds from one call to the next are stages and a run that       *)
(* exist, and the runs of requests in flight are runs.                     *)
THEOREM ControllerTypeCorrect == ControllerSpec => []ControllerTypeOK
<1>1. CInv /\ FailuresOK => ControllerTypeOK
  <2> SUFFICES ASSUME CInv, FailuresOK PROVE ControllerTypeOK
    OBVIOUS
  <2>1. TypeOK
    BY IInvImplies DEF CInv, BudgetInv
  <2>2. applying \subseteq RunIds
    BY DEF CInv, Unowned
  <2> QED BY <2>1, <2>2 DEF CInv, MonitorOK, Items, FailuresOK, ControllerTypeOK
<1> QED BY <1>1, ControllerInvariant, FailuresCounted, PTL

(***************************************************************************)
(* Pausing.                                                                *)
(***************************************************************************)

LEMMA StepClaims ==
  ASSUME CInv, [ControllerNext]_vars
  PROVE  ClaimsOnlyDue
<1>1. IInv /\ Unowned(applying)
  BY DEF CInv, BudgetInv
<1>2. CASE MonitorStep
  BY <1>2, MonitorStepOK DEF MonitorCallOK
<1>3. CASE RequestStep \/ OperatorStep
  BY <1>1, <1>3, RequestPersists, OperatorPersists DEF ClaimsOnlyDue
<1>4. CASE Failure \/ TimeStep \/ UNCHANGED vars
  <2>1. Tick \/ UNCHANGED engineVars
    BY <1>4 DEF Failure, TimeStep, vars
  <2> QED BY <1>1, <2>1, QuietSteps, QuietPersists DEF ClaimsOnlyDue
<1> QED BY <1>2, <1>3, <1>4 DEF ControllerNext

(* While a playbook is paused none of its stages is claimed, although the  *)
(* monitor may hold them as due from before the pause, and a fault that    *)
(* stays in force keeps the time at which it expires.                      *)
THEOREM PausingPreventsScheduling == ControllerSpec => PausePreventsScheduling
<1> DEFINE Kept ==
      \A p \in PlaybookRunIds :
        playbookRuns[p].status = "paused" =>
          /\ \A s \in Stages :
               stages[p][s].status = "pending" => stages'[p][s].status # "starting"
          /\ \A r \in RunsInForce(active) :
               r \in RunsInForce(active') => runs'[r].expires = runs[r].expires
<1>1. CInv /\ [ControllerNext]_vars => [Kept]_vars
  <2> SUFFICES ASSUME CInv, [ControllerNext]_vars PROVE Kept
    OBVIOUS
  <2>1. IInv /\ Persists /\ ClaimsOnlyDue
    BY ControllerStepOK, StepClaims DEF CInv, BudgetInv
  <2>2. ASSUME NEW p \in PlaybookRunIds, NEW s \in Stages,
               playbookRuns[p].status = "paused", stages[p][s].status = "pending"
        PROVE  stages'[p][s].status # "starting"
    <3>1. CASE NoneClaimed
      BY <2>2, <3>1 DEF NoneClaimed, UnderWay
    <3>2. ASSUME NEW q \in PlaybookRunIds, NEW t \in Stages, MonitorClaim(q, t)
          PROVE  stages'[p][s].status # "starting"
      <4>1. ClaimStage(q, t)
        BY <3>2 DEF MonitorClaim
      <4>2. /\ playbookRuns[q].status = "running"
            /\ q # p => stages'[p][s] = stages[p][s]
        BY <2>1, <4>1, ClaimPersists
      <4> QED BY <2>2, <4>2
    <3> QED BY <2>1, <3>1, <3>2 DEF ClaimsOnlyDue
  <2>3. ASSUME NEW r \in RunsInForce(active)
        PROVE  runs'[r].expires = runs[r].expires
    <3>1. r \in RunIds /\ runs[r].status = "active"
      BY <2>1, <2>3 DEF IInv, RunsOK, RunsInForce
    <3> QED BY <2>1, <3>1 DEF Persists, Begun
  <2> QED BY <2>2, <2>3
<1> QED BY <1>1, ControllerInvariant, PTL DEF ControllerSpec, PausePreventsScheduling

(***************************************************************************)
(* Outcomes.                                                               *)
(***************************************************************************)

FailsItem == at \in {"claimed", "failStage"} /\ OutcomesKeptBut({item})

(* In the stage loop the monitor fails the stage it is starting, and       *)
(* rewrites no other outcome.                                              *)
LEMMA StageLoopKeepsOutcomes ==
  ASSUME CInv, MonitorStageStep
  PROVE  OutcomesKeptBut({}) \/ FailsItem
<1>1. IInv /\ MonitorOK
  BY DEF CInv, BudgetInv
<1>2. PICK p \in PlaybookRunIds, s \in Stages :
        \/ MonitorClaim(p, s)
        \/ MonitorClaimRefused(p, s)
        \/ MonitorPreflightFailed(p, s)
        \/ \E r \in RunIds : MonitorBegin(p, s, r)
        \/ MonitorLink(p, s)
        \/ MonitorLinkRefused(p, s)
        \/ MonitorFailStage(p, s)
  BY DEF MonitorStageStep
<1>3. CASE MonitorPreflightFailed(p, s) \/ MonitorFailStage(p, s)
  <2>1. FailStage(p, s) /\ item = <<p, s>> /\ at \in {"claimed", "failStage"}
    BY <1>3 DEF MonitorPreflightFailed, MonitorFailStage, Goto
  <2> QED BY <1>1, <2>1, FailKeepsOutcomes DEF FailsItem
<1>4. CASE MonitorClaim(p, s)
  BY <1>1, <1>4, StepKeepsOutcomes DEF MonitorClaim, FailsNoStage
<1>5. CASE MonitorLink(p, s)
  <2>1. LinkStage(p, s, stageRun) /\ stageRun \in RunIds
    BY <1>1, <1>5 DEF MonitorLink, Goto, MonitorOK, StartingOK
  <2> QED BY <1>1, <2>1, StepKeepsOutcomes DEF FailsNoStage
<1>6. CASE \E r \in RunIds : MonitorBegin(p, s, r)
  <2>1. PICK r \in RunIds : MonitorBegin(p, s, r)
    BY <1>6
  <2>2. RequestForStage(r, p, s)
    BY <2>1, MonitorBeginOK
  <2>3. RunStep
    BY <2>2 DEF RunStep
  <2> QED BY <1>1, <2>3, StepKeepsOutcomes DEF FailsNoStage
<1>7. CASE MonitorClaimRefused(p, s) \/ MonitorLinkRefused(p, s)
  <2>1. UNCHANGED engineVars
    BY <1>7 DEF MonitorClaimRefused, MonitorLinkRefused
  <2> QED BY <1>1, <2>1, StepKeepsOutcomes DEF FailsNoStage
<1> QED BY <1>2, <1>3, <1>4, <1>5, <1>6, <1>7

LEMMA ControllerKeepsOutcomes ==
  ASSUME CInv, [ControllerNext]_vars
  PROVE  OutcomesKeptBut({}) \/ FailsItem
<1>1. IInv
  BY DEF CInv, BudgetInv
<1>2. CASE MonitorStep
  <2>1. CASE MonitorStageStep
    BY <2>1, StageLoopKeepsOutcomes
  <2>2. CASE ~MonitorStageStep
    <3>1. \/ GetState \/ UpdatePatterns \/ SyncPlaybookRuns \/ DuePlaybookStages
          \/ \E a \in Actions : Abort(a)
          \/ \E r \in RunIds : ActivateRun(r)
      <4>1. CASE MonitorAbort
        <5>1. stageRun \in RunIds
          BY <4>1 DEF MonitorAbort, Goto, CInv, MonitorOK, StartingOK
        <5>2. runs[stageRun].status # "absent"
          BY <4>1 DEF MonitorAbort, Goto, CInv, MonitorOK, StartingOK
        <5>3. runs[stageRun].action \in Actions
          BY <1>1, <5>1, <5>2 DEF IInv, RunsOK, RunOK
        <5> QED BY <4>1, <5>3 DEF MonitorAbort
      <4> QED BY <1>2, <2>2, <4>1
          DEF MonitorStep, MonitorPatterns, MonitorDue, MonitorActivate, MonitorUndo,
              MonitorGetState, MonitorGuard, MonitorSync
    <3>2. StateStep \/ RunStep
      BY <3>1 DEF StateStep, RunStep
    <3> QED BY <1>1, <3>2, StepKeepsOutcomes DEF FailsNoStage
  <2> QED BY <2>1, <2>2
<1>3. CASE RequestStep
  <2>1. RunStep
    BY <1>3 DEF RequestStep, RequestBegin, RequestPreflightFailed, RequestActivate, RunStep
  <2> QED BY <1>1, <2>1, StepKeepsOutcomes DEF FailsNoStage
<1>4. CASE OperatorStep
  <2>1. \/ StateStep \/ PlaybookStep \/ LibraryStep
        \/ \E p \in PlaybookRunIds, s \in Stages : SkipStage(p, s)
    BY <1>4 DEF OperatorStep, EmergencyStop, StateStep
  <2> QED BY <1>1, <2>1, StepKeepsOutcomes DEF FailsNoStage
<1>5. CASE Failure \/ TimeStep \/ UNCHANGED vars
  <2>1. Tick \/ UNCHANGED engineVars
    BY <1>5 DEF Failure, TimeStep, vars
  <2> QED BY <1>1, <2>1, StepKeepsOutcomes DEF FailsNoStage
<1> QED BY <1>2, <1>3, <1>4, <1>5 DEF ControllerNext

(* Whatever a stage came to is kept, however late others call: only the    *)
(* monitor rewrites an outcome, to failed, and only that of the stage it   *)
(* is starting at that moment.                                             *)
THEOREM OutcomesAreKept == ControllerSpec => OutcomesKept
<1> DEFINE Kept ==
      \A p \in PlaybookRunIds, s \in Stages :
        stages[p][s].status \in TerminalStage =>
          \/ stages'[p][s].status = stages[p][s].status
          \/ /\ item = <<p, s>> /\ at \in {"claimed", "failStage"}
             /\ stages'[p][s].status = "failed"
<1>1. CInv /\ [ControllerNext]_vars => [Kept]_vars
  BY ControllerKeepsOutcomes DEF FailsItem, OutcomesKeptBut, EndedStagesKeptIn
<1> QED BY <1>1, ControllerInvariant, PTL DEF ControllerSpec, OutcomesKept

(***************************************************************************)
(* Starting stages when they are due.                                      *)
(*                                                                         *)
(* That a stage is due is found out when the due list is computed and used *)
(* when the stage is claimed.  It stays true in between: what a stage      *)
(* depends on stays ended, and the clock of a live playbook never goes     *)
(* back.                                                                   *)
(***************************************************************************)

Live(p) == playbookRuns[p].status \in LivePlaybook

StageDue(p, s) ==
  LET d == playbookRuns[p].definition
  IN  /\ \A t \in d.dependsOn[s] : stages[p][t].status \in TerminalStage
      /\ Elapsed(playbookRuns[p], clock) >= d.startAfter[s]

DueOK(p, s) ==
  /\ playbookRuns[p].status # "absent"
  /\ Live(p) => StageDue(p, s)

LEMMA ClockAdvances ==
  ASSUME IInv, [Next]_engineVars
  PROVE  clock' >= clock
<1>1. clock \in Nat
  BY DEF IInv
<1>2. CASE Tick
  BY <1>1, <1>2 DEF Tick
<1>3. CASE \/ RunStep \/ StageStep \/ PlaybookStep \/ LibraryStep \/ StateStep
           \/ UNCHANGED engineVars
  <2>1. UNCHANGED clock
    <3>1. CASE RunStep
      BY <3>1 DEF RunStep, RequestForStage, BeginRun, ActivateRun, FailRun
    <3>2. CASE StageStep
      BY <3>2 DEF StageStep, ClaimStage, LinkStage, FailStage, SkipStage
    <3>3. CASE PlaybookStep
      BY <3>3 DEF PlaybookStep, StartPlaybook, ReplayPlaybook, AppendPlaybookRun,
                  PausePlaybook, ResumePlaybook, StopPlaybook
    <3>4. CASE LibraryStep
      BY <3>4 DEF LibraryStep, SavePlaybook, DeletePlaybook
    <3>5. CASE StateStep
      BY <3>5 DEF StateStep, GetState, UpdatePatterns, DuePlaybookStages, SyncPlaybookRuns,
                  StopAll, Abort
    <3> QED BY <1>3, <3>1, <3>2, <3>3, <3>4, <3>5 DEF engineVars
  <2> QED BY <1>1, <2>1
<1> QED BY <1>2, <1>3 DEF Next

LEMMA DueStaysDue ==
  ASSUME IInv, IInv', [Next]_engineVars, Persists,
         NEW p \in PlaybookRunIds, NEW s \in Stages, DueOK(p, s)
  PROVE  DueOK(p, s)'
<1>1. /\ playbookRuns[p].status # "absent"
      /\ playbookRuns'[p].status # "absent"
      /\ playbookRuns'[p].definition = playbookRuns[p].definition
  BY DEF DueOK, Persists
<1>2. playbookRuns[p].status \in LivePlaybook \cup TerminalRun
  BY <1>1 DEF IInv, PlaybooksOK, PlaybookRun
<1>3. CASE UNCHANGED engineVars
  BY <1>3 DEF DueOK, Live, StageDue, engineVars
<1>4. CASE Next /\ ~UNCHANGED engineVars
  <2>1. KeepsEnded /\ ElapsedAdvances
    BY <1>4, NextKeepsEnded, NextAdvancesElapsed
  <2> SUFFICES ASSUME Live(p)' PROVE StageDue(p, s)'
    BY <1>1 DEF DueOK
  <2>2. Live(p)
    BY <1>2, <2>1 DEF Live, KeepsEnded
  <2>3. StageDue(p, s)
    BY <2>2 DEF DueOK
  <2>4. playbookRuns[p].definition \in Definition
    BY <1>1, EngineAssumption DEF IInv, PlaybooksOK, PlaybookOK
  <2>5. /\ playbookRuns[p].definition.dependsOn[s] \subseteq Stages
        /\ playbookRuns[p].definition.startAfter[s] \in Nat
    BY <2>4 DEF Definition
  <2>6. \A t \in playbookRuns[p].definition.dependsOn[s] : stages'[p][t].status \in TerminalStage
    BY <2>1, <2>3, <2>5 DEF KeepsEnded, StageDue
  <2>7. /\ Elapsed(playbookRuns[p], clock) \in Int /\ Elapsed(playbookRuns'[p], clock') \in Int
        /\ clock \in Nat /\ clock' \in Nat
    BY ElapsedOfLive DEF IInv, PlaybooksOK
  <2>8. Elapsed(playbookRuns'[p], clock') >= Elapsed(playbookRuns[p], clock)
    <3>1. clock' >= clock
      BY ClockAdvances
    <3> QED BY <2>1, <2>2, <2>7, <3>1 DEF ElapsedAdvances, Live
  <2>9. Elapsed(playbookRuns'[p], clock') >= playbookRuns[p].definition.startAfter[s]
    BY <2>3, <2>5, <2>7, <2>8 DEF StageDue
  <2> QED BY <1>1, <2>6, <2>9 DEF StageDue
<1> QED BY <1>3, <1>4

(* The stages that the monitor finds due, are. *)
LEMMA DueStagesAreDue ==
  ASSUME IInv, DuePlaybookStages, NEW p \in PlaybookRunIds, NEW s \in Stages,
         <<p, s>> \in DueStages
  PROVE  DueOK(p, s)'
<1>1. /\ p \in RunningNow \ OverTime
      /\ DependencyStatuses(p, s) \subseteq {"completed", "skipped"}
      /\ Elapsed(BooksNow[p], clock) >= BooksNow[p].definition.startAfter[s]
  BY DEF DueStages
<1>2. /\ playbookRuns'[p] = BooksNow[p] /\ UNCHANGED clock
      /\ BooksNow[p].status = "running"
  BY <1>1 DEF DuePlaybookStages, RunningNow
<1>3. /\ BooksNow[p].definition \in Definition
      /\ BooksNow[p].definition = playbookRuns[p].definition
  <2>1. BooksNow[p].definition = playbookRuns[p].definition /\ playbookRuns[p].status # "absent"
    BY <1>2 DEF BooksNow, SyncedPlaybooks, IInv, PlaybooksOK, PlaybookRun
  <2> QED BY <2>1, EngineAssumption DEF IInv, PlaybooksOK, PlaybookOK
<1>4. BooksNow[p].definition.dependsOn[s] \subseteq Stages
  BY <1>3 DEF Definition
<1>5. \A t \in BooksNow[p].definition.dependsOn[s] : stages'[p][t].status \in TerminalStage
  <2> SUFFICES ASSUME NEW t \in BooksNow[p].definition.dependsOn[s]
               PROVE  stages'[p][t].status \in TerminalStage
    OBVIOUS
  <2>1. StagesNow[p][t].status \in {"completed", "skipped"} /\ t \in Stages
    BY <1>1, <1>4 DEF DependencyStatuses
  <2>2. stages'[p][t] = StagesNow[p][t]
    BY <1>1, <2>1 DEF DuePlaybookStages, DependencyLost
  <2> QED BY <2>1, <2>2
<1> QED BY <1>1, <1>2, <1>5 DEF DueOK, StageDue

DueInv ==
  /\ \A ps \in due : DueOK(ps[1], ps[2])
  /\ StagesStartWhenDue

LEMMA DueKept ==
  ASSUME CInv, CInv', DueInv, [ControllerNext]_vars
  PROVE  DueInv'
<1>1. /\ IInv /\ IInv' /\ Persists /\ [Next]_engineVars /\ ClaimsOnlyDue
      /\ due \subseteq Items /\ due' \subseteq Items
  BY ControllerStepOK, StepClaims DEF CInv, BudgetInv, MonitorOK
<1>2. ASSUME NEW p \in PlaybookRunIds, NEW s \in Stages, <<p, s>> \in due'
      PROVE  DueOK(p, s)'
  <2>1. CASE <<p, s>> \in due
    <3>1. DueOK(p, s)
      BY <2>1 DEF DueInv
    <3> QED BY <1>1, <3>1, DueStaysDue
  <2>2. CASE MonitorDue
    BY <1>1, <1>2, <2>2, DueStagesAreDue DEF MonitorDue
  <2>3. CASE ~MonitorDue
    <3>1. due' \subseteq due
      <4>1. CASE MonitorStep
        BY <2>3, <4>1
           DEF MonitorStep, MonitorPatterns, MonitorStageStep, MonitorActivate, MonitorUndo,
               MonitorAbort, MonitorGetState, MonitorGuard, MonitorSync, MonitorClaim,
               MonitorClaimRefused, MonitorPreflightFailed, MonitorBegin, MonitorLink,
               MonitorLinkRefused, MonitorFailStage
      <4>2. CASE RequestStep \/ OperatorStep \/ Failure \/ TimeStep \/ UNCHANGED vars
        BY <4>2 DEF RequestStep, OperatorStep, Failure, TimeStep, vars, monitorVars
      <4> QED BY <4>1, <4>2 DEF ControllerNext
    <3> QED BY <1>1, <1>2, <2>1, <3>1
  <2> QED BY <2>2, <2>3
<1>3. ASSUME NEW p \in PlaybookRunIds, NEW s \in Stages, UnderWay(stages'[p][s])
      PROVE  StageDue(p, s)'
  <2>1. Live(p)'
    BY <1>1, <1>3 DEF UnderWay, Live, IInv, PlaybooksOK, PlaybookOK, PlaybookRun
  <2>2. DueOK(p, s)
    <3>1. CASE UnderWay(stages[p][s])
      <4>1. StageDue(p, s)
        BY <3>1 DEF DueInv, StagesStartWhenDue, UnderWay, StageDue
      <4>2. playbookRuns[p].status # "absent"
        BY <1>1, <3>1 DEF UnderWay, IInv, PlaybooksOK, PlaybookOK
      <4> QED BY <4>1, <4>2 DEF DueOK
    <3>2. CASE ~UnderWay(stages[p][s])
      <4>1. PICK q \in PlaybookRunIds, t \in Stages : MonitorClaim(q, t)
        BY <1>1, <1>3, <3>2 DEF ClaimsOnlyDue, NoneClaimed
      <4>2. q = p /\ t = s
        <5>1. ClaimStage(q, t)
          BY <4>1 DEF MonitorClaim
        <5>2. q # p \/ t # s => stages'[p][s] = stages[p][s]
          BY <1>1, <5>1, ClaimPersists
        <5> QED BY <1>3, <3>2, <5>2
      <4>3. <<p, s>> \in due
        BY <4>1, <4>2 DEF MonitorClaim, IsNext
      <4> QED BY <4>3 DEF DueInv
    <3> QED BY <3>1, <3>2
  <2>3. DueOK(p, s)'
    BY <1>1, <2>2, DueStaysDue
  <2> QED BY <2>1, <2>3 DEF DueOK
<1>4. StagesStartWhenDue'
  BY <1>3 DEF StagesStartWhenDue, StageDue, UnderWay
<1>5. \A ps \in due' : DueOK(ps[1], ps[2])'
  <2> SUFFICES ASSUME NEW ps \in due' PROVE DueOK(ps[1], ps[2])'
    OBVIOUS
  <2>1. PICK p \in PlaybookRunIds, s \in Stages : ps = <<p, s>>
    BY <1>1 DEF Items
  <2> QED BY <1>2, <2>1
<1> QED BY <1>4, <1>5 DEF DueInv

(* A stage under way is due: what it depends on has ended and its playbook *)
(* has run for as long as the stage waits, although claiming a stage looks *)
(* at neither and operators may have paused, resumed, skipped or stopped   *)
(* since the due list was computed.                                        *)
THEOREM StagesWaitUntilDue == ControllerSpec => []StagesStartWhenDue
<1>1. ControllerInit => DueInv
  BY DEF ControllerInit, MonitorIdle, Init, PendingStage, DueInv, StagesStartWhenDue
<1>2. CInv /\ CInv' /\ DueInv /\ [ControllerNext]_vars => DueInv'
  BY DueKept
<1>3. DueInv => StagesStartWhenDue
  BY DEF DueInv
<1> QED BY <1>1, <1>2, <1>3, ControllerInvariant, PTL DEF ControllerSpec

(***************************************************************************)
(* No fault of a playbook outlives its stage.                              *)
(***************************************************************************)

(* The run r in force is the one of stage s of playbook run p. *)
Held(p, s, r) ==
  /\ stages[p][s] = [status |-> "active", run |-> r]
  /\ Live(p)

LEMMA SyncKeepsHeld ==
  ASSUME NEW p \in PlaybookRunIds, NEW s \in Stages, NEW r \in RunIds, NEW ss,
         playbookRuns \in [PlaybookRunIds -> PlaybookRun],
         ss[p][s] = [status |-> "active", run |-> r], Live(p),
         runs'[r].status = "active", SyncPlaybooksFrom(ss)
  PROVE  Held(p, s, r)'
<1> DEFINE synced == SyncedStages(runs', playbookRuns, ss)
<1>1. stages' = synced /\ playbookRuns' = SyncedPlaybooks(playbookRuns, synced)
  BY DEF SyncPlaybooksFrom
<1>2. synced[p][s] = ss[p][s]
  BY DEF SyncedStages, SyncedStage, Live
<1>3. playbookRuns'[p] = playbookRuns[p]
  <2> HIDE DEF synced
  <2> QED BY <1>1, <1>2 DEF SyncedPlaybooks
<1> QED BY <1>1, <1>2, <1>3 DEF Held, Live

(* A call of the engine, but for failing the stage s of p. *)
OtherCall(p, s) ==
  \/ RunStep \/ PlaybookStep \/ LibraryStep \/ StateStep \/ Tick
  \/ \E q \in PlaybookRunIds, t \in Stages :
       \/ ClaimStage(q, t) \/ SkipStage(q, t)
       \/ \E o \in RunIds : LinkStage(q, t, o)
       \/ FailStage(q, t) /\ (q # p \/ t # s)

(* Whatever ends a stage that is linked to a run ends that run with it,    *)
(* except for the call that fails a stage.                                 *)
LEMMA HeldUntilEnded ==
  ASSUME IInv, NEW p \in PlaybookRunIds, NEW s \in Stages, NEW r \in RunIds,
         OtherCall(p, s), Held(p, s, r), runs[r].status = "active", runs'[r].status = "active"
  PROVE  Held(p, s, r)'
<1>1. /\ runs \in [RunIds -> Run]
      /\ stages \in [PlaybookRunIds -> [Stages -> Stage]]
      /\ playbookRuns \in [PlaybookRunIds -> PlaybookRun]
      /\ stages[p][s] = [status |-> "active", run |-> r] /\ Live(p)
      /\ active[runs[r].action] = r /\ runs[r].action \in Actions
  BY DEF IInv, RunsOK, RunOK, PlaybooksOK, Held
<1>2. stages[p][s].status = "active" /\ stages[p][s].run = r /\ r # NoRun
  BY <1>1 DEF RunIds
<1>3. r \in RunsInForce(active)
  BY <1>1, <1>2 DEF RunsInForce
<1>4. ASSUME NEW S, r \in S, Finish(S, "aborted")
      PROVE  FALSE
  <2>1. runs'[r] = [runs[r] EXCEPT !.status = "aborted"]
    BY <1>4 DEF Finish, Ended
  <2>2. runs'[r].status = "aborted"
    BY <1>1, <2>1 DEF Run
  <2> QED BY <2>2
<1>5. CASE UNCHANGED <<playbookRuns, stages>>
  BY <1>1, <1>5 DEF Held, Live
<1>6. CASE SyncPlaybooksFrom(stages)
  BY <1>1, <1>6, SyncKeepsHeld
<1>7. CASE RunStep
  BY <1>5, <1>6, <1>7
     DEF RunStep, RequestForStage, BeginRun, ActivateRun, FailRun, playbookVars
<1>8. ASSUME NEW q \in PlaybookRunIds, NEW t \in Stages,
             \/ ClaimStage(q, t) \/ SkipStage(q, t)
             \/ \E o \in RunIds : LinkStage(q, t, o)
             \/ FailStage(q, t) /\ (q # p \/ t # s)
      PROVE  Held(p, s, r)'
  <2>2. CASE ClaimStage(q, t) \/ \E o \in RunIds : LinkStage(q, t, o)
    <3>1. CASE ClaimStage(q, t)
      <4>1. /\ stages[q][t].status = "pending" /\ UNCHANGED playbookRuns
            /\ q # p \/ t # s => stages'[p][s] = stages[p][s]
        BY <3>1, ClaimPersists
      <4> QED BY <1>1, <1>2, <4>1 DEF Held, Live
    <3>2. ASSUME NEW o \in RunIds, LinkStage(q, t, o)
          PROVE  Held(p, s, r)'
      <4>1. /\ stages[q][t].status = "starting" /\ UNCHANGED playbookRuns
            /\ q # p \/ t # s => stages'[p][s] = stages[p][s]
        BY <1>1, <3>2 DEF LinkStage
      <4> QED BY <1>1, <1>2, <4>1 DEF Held, Live
    <3> QED BY <2>2, <3>1, <3>2
  <2>3. CASE FailStage(q, t) /\ (q # p \/ t # s)
    <3> DEFINE ss == [stages EXCEPT ![q][t].status = "failed"]
    <3>1. ss[p][s] = stages[p][s] /\ SyncPlaybooksFrom(ss)
      BY <1>1, <2>3 DEF FailStage
    <3> HIDE DEF ss
    <3> QED BY <1>1, <3>1, SyncKeepsHeld
  <2>4. CASE SkipStage(q, t)
    <3> DEFINE ss   == [stages EXCEPT ![q][t] = [status |-> "skipped", run |-> NoRun]]
               ends == {o \in RunsInForce(active) :
                          stages[q][t].status = "active" /\ stages[q][t].run = o}
    <3>1. Finish(ends, "aborted") /\ SyncPlaybooksFrom(ss)
      BY <2>4 DEF SkipStage
    <3>2. q # p \/ t # s
      <4>1. q = p /\ t = s => r \in ends
        BY <1>2, <1>3
      <4> HIDE DEF ends
      <4> QED BY <1>4, <3>1, <4>1
    <3>3. ss[p][s] = stages[p][s]
      BY <1>1, <3>2
    <3> HIDE DEF ss
    <3> QED BY <1>1, <3>1, <3>3, SyncKeepsHeld
  <2> QED BY <1>8, <2>2, <2>3, <2>4
<1>9. CASE PlaybookStep
  <2>1. PICK q \in PlaybookRunIds :
          \/ \E b \in Books : StartPlaybook(q, b)
          \/ \E o \in PlaybookRunIds : ReplayPlaybook(q, o)
          \/ PausePlaybook(q) \/ ResumePlaybook(q)
          \/ StopPlaybook(q)
    BY <1>9 DEF PlaybookStep
  <2>2. CASE \/ \E b \in Books : StartPlaybook(q, b)
             \/ \E o \in PlaybookRunIds : ReplayPlaybook(q, o)
    <3>1. q # p => stages'[p] = stages[p] /\ playbookRuns'[p] = playbookRuns[p]
      BY <2>2, AppendPersists DEF StartPlaybook, ReplayPlaybook
    <3>2. q # p
      BY <1>1, <2>2, AppendPersists DEF StartPlaybook, ReplayPlaybook, Live
    <3> QED BY <1>1, <3>1, <3>2 DEF Held, Live
  <2>3. CASE PausePlaybook(q) \/ ResumePlaybook(q)
    <3>1. UNCHANGED stages
      BY <2>3 DEF PausePlaybook, ResumePlaybook
    <3>2. playbookRuns'[p].status \in LivePlaybook
      <4>1. CASE q # p
        BY <1>1, <2>3, <4>1 DEF PausePlaybook, ResumePlaybook, Live
      <4>2. CASE q = p
        BY <1>1, <2>3, <4>2 DEF PausePlaybook, ResumePlaybook, PlaybookRun
      <4> QED BY <4>1, <4>2
    <3> QED BY <1>1, <3>1, <3>2 DEF Held, Live
  <2>4. CASE StopPlaybook(q)
    <3>1. r \in StageRunsInForce(active, stages[p])
      BY <1>1, <1>2, <1>3 DEF StageRunsInForce
    <3>2. q # p
      BY <1>4, <2>4, <3>1 DEF StopPlaybook
    <3>3. stages'[p] = stages[p] /\ playbookRuns'[p] = playbookRuns[p]
      BY <1>1, <2>4, <3>2 DEF StopPlaybook
    <3> QED BY <1>1, <3>3 DEF Held, Live
  <2> QED BY <2>1, <2>2, <2>3, <2>4
<1>10. CASE LibraryStep \/ Tick
  BY <1>5, <1>10 DEF LibraryStep, SavePlaybook, DeletePlaybook, Tick, playbookVars
<1>11. CASE \/ GetState \/ UpdatePatterns \/ SyncPlaybookRuns
            \/ \E a \in Actions : Abort(a)
  BY <1>5, <1>6, <1>11 DEF GetState, UpdatePatterns, SyncPlaybookRuns, Abort, playbookVars
<1>12. CASE StopAll
  BY <1>3, <1>4, <1>12 DEF StopAll
<1>13. CASE DuePlaybookStages
  <2>1. StagesNow[p][s] = stages[p][s]
    BY <1>1, <1>2 DEF StagesNow, SyncedStages, SyncedStage
  <2>2. BooksNow[p] = playbookRuns[p]
    BY <1>2, <2>1 DEF BooksNow, SyncedPlaybooks
  <2>3. p \notin OverTime
    <3>1. r \in StageRunsInForce(active, StagesNow[p])
      BY <1>1, <1>2, <1>3, <2>1 DEF StageRunsInForce
    <3> DEFINE ends == UNION {StageRunsInForce(active, StagesNow[q]) : q \in OverTime}
    <3>2. Finish(ends, "aborted")
      BY <1>13 DEF DuePlaybookStages
    <3>3. p \in OverTime => r \in ends
      BY <3>1
    <3> HIDE DEF ends
    <3> QED BY <1>4, <3>2, <3>3
  <2>4. stages'[p][s] = stages[p][s] /\ playbookRuns'[p] = playbookRuns[p]
    BY <1>2, <1>13, <2>1, <2>2, <2>3 DEF DuePlaybookStages, DependencyLost
  <2> QED BY <1>1, <2>4 DEF Held, Live
<1> QED BY <1>7, <1>8, <1>9, <1>10, <1>11, <1>12, <1>13 DEF OtherCall, StateStep

FaultHeld(r) == Held(runs[r].owner[1], runs[r].owner[2], r)

FaultsHeld ==
  failures = 0 =>
    \A r \in RunIds :
      runs[r].status = "active" /\ runs[r].owner # None => BeingStarted(r) \/ FaultHeld(r)

LEMMA FaultsHeldIsNoOrphan ==
  ASSUME IInv
  PROVE  FaultsHeld <=> NoOrphanedFault
BY DEF FaultsHeld, FaultHeld, Held, Live, NoOrphanedFault

(* The stage that the monitor fails is never that of a fault in force. *)
LEMMA FailedStageHasNoFault ==
  ASSUME CInv, NEW p \in PlaybookRunIds, NEW s \in Stages,
         MonitorPreflightFailed(p, s) \/ MonitorFailStage(p, s),
         NEW r \in RunIds, runs[r].owner = <<p, s>>
  PROVE  runs[r].status # "active"
<1>1. ClaimedOK /\ StartingOK /\ UndoneOK /\ OwnersOK
  BY DEF CInv, BudgetInv, MonitorOK
<1>2. CASE MonitorPreflightFailed(p, s)
  BY <1>1, <1>2 DEF MonitorPreflightFailed, Goto, ClaimedOK
<1>3. CASE MonitorFailStage(p, s)
  <2>1. at = "failStage" /\ item = <<p, s>> /\ item \in Items
    BY <1>3 DEF MonitorFailStage, Goto, Items
  <2>2. stageRun \in RunIds /\ runs[stageRun].owner = item /\ runs[stageRun].status # "active"
    BY <1>1, <2>1 DEF StartingOK, UndoneOK
  <2>3. item # None
    BY <2>1, ItemsAreNot
  <2>4. r = stageRun
    BY <1>1, <2>1, <2>2, <2>3 DEF OwnersOK
  <2> QED BY <2>2, <2>4
<1> QED BY <1>2, <1>3

(* The run that the monitor is starting stays the one it is starting until *)
(* it is linked to its stage or no longer in force.                        *)
LEMMA StartedIsLinkedOrUndone ==
  ASSUME CInv, MonitorStep, NEW r \in RunIds, BeingStarted(r), runs'[r].status = "active"
  PROVE  BeingStarted(r)' \/ FaultHeld(r)'
<1>1. /\ r = stageRun /\ at \in {"link", "undo", "abort"} /\ IInv /\ StartingOK /\ StartedOK
  BY DEF BeingStarted, CInv, BudgetInv, MonitorOK
<1>2. item \in Items /\ runs[r].owner = item /\ runs[r].status # "absent"
  BY <1>1 DEF StartingOK
<1>3. CASE MonitorUndo
  BY <1>1, <1>3 DEF MonitorUndo, BeingStarted
<1>4. CASE MonitorAbort
  BY <1>1, <1>2, <1>4, AbortEnds DEF MonitorAbort
<1>5. ASSUME NEW p \in PlaybookRunIds, NEW s \in Stages, MonitorLinkRefused(p, s)
      PROVE  BeingStarted(r)'
  BY <1>1, <1>5 DEF MonitorLinkRefused, Goto, BeingStarted
<1>6. ASSUME NEW p \in PlaybookRunIds, NEW s \in Stages, MonitorLink(p, s)
      PROVE  FaultHeld(r)'
  <2>1. LinkStage(p, s, r) /\ item = <<p, s>>
    BY <1>1, <1>6 DEF MonitorLink
  <2>2. /\ stages'[p][s] = [status |-> "active", run |-> r]
        /\ playbookRuns[p].status \in LivePlaybook
        /\ UNCHANGED <<runs, playbookRuns>>
    BY <1>1, <2>1, LinkPersists
  <2>3. runs'[r].owner[1] = p /\ runs'[r].owner[2] = s
    BY <1>2, <2>1, <2>2
  <2> QED BY <2>2, <2>3 DEF FaultHeld, Held, Live
<1> QED
  BY <1>1, <1>3, <1>4, <1>5, <1>6
     DEF MonitorStep, MonitorPatterns, MonitorDue, MonitorStageStep, MonitorActivate,
         MonitorGetState, MonitorGuard, MonitorSync, MonitorClaim, MonitorClaimRefused,
         MonitorPreflightFailed, MonitorBegin, MonitorFailStage, Goto

LEMMA FaultsAreSpared ==
  ASSUME CInv, [ControllerNext]_vars,
         NEW p \in PlaybookRunIds, NEW s \in Stages,
         NEW r \in RunIds, runs[r].owner = <<p, s>>, runs[r].status = "active"
  PROVE  OtherCall(p, s) \/ UNCHANGED engineVars
<1>1. CASE MonitorStep
  <2>1. CASE \/ MonitorPatterns \/ MonitorDue \/ MonitorUndo \/ MonitorGetState \/ MonitorSync
             \/ \E a \in Actions : MonitorGuard(a)
             \/ \E o \in RunIds : MonitorActivate(o)
    BY <2>1 DEF MonitorPatterns, MonitorDue, MonitorUndo, MonitorGetState, MonitorSync,
                MonitorGuard, MonitorActivate, OtherCall, StateStep, RunStep
  <2>2. CASE MonitorAbort
    <3>1. stageRun \in RunIds /\ runs[stageRun].status # "absent"
      BY <2>2 DEF MonitorAbort, Goto, CInv, MonitorOK, StartingOK
    <3>2. runs[stageRun].action \in Actions
      BY <3>1 DEF CInv, BudgetInv, IInv, RunsOK, RunOK
    <3> QED BY <2>2, <3>2 DEF MonitorAbort, OtherCall, StateStep
  <2>3. ASSUME NEW q \in PlaybookRunIds, NEW t \in Stages,
               \/ MonitorClaim(q, t) \/ MonitorClaimRefused(q, t)
               \/ MonitorLinkRefused(q, t)
        PROVE  OtherCall(p, s) \/ UNCHANGED engineVars
    BY <2>3 DEF MonitorClaim, MonitorClaimRefused, MonitorLinkRefused, OtherCall
  <2>4. ASSUME NEW q \in PlaybookRunIds, NEW t \in Stages, MonitorLink(q, t)
        PROVE  OtherCall(p, s)
    <3>1. stageRun \in RunIds /\ LinkStage(q, t, stageRun)
      BY <2>4 DEF MonitorLink, Goto, CInv, MonitorOK, StartingOK
    <3> QED BY <3>1 DEF OtherCall
  <2>5. ASSUME NEW q \in PlaybookRunIds, NEW t \in Stages, NEW o \in RunIds,
               MonitorBegin(q, t, o)
        PROVE  OtherCall(p, s)
    <3>1. RequestForStage(o, q, t)
      BY <2>5, MonitorBeginOK
    <3> QED BY <3>1 DEF OtherCall, RunStep
  <2>6. ASSUME NEW q \in PlaybookRunIds, NEW t \in Stages,
               MonitorPreflightFailed(q, t) \/ MonitorFailStage(q, t)
        PROVE  OtherCall(p, s)
    <3>1. q # p \/ t # s
      BY <2>6, FailedStageHasNoFault
    <3>2. FailStage(q, t)
      BY <2>6 DEF MonitorPreflightFailed, MonitorFailStage
    <3> QED BY <3>1, <3>2 DEF OtherCall
  <2> QED BY <1>1, <2>1, <2>2, <2>3, <2>4, <2>5, <2>6 DEF MonitorStep, MonitorStageStep
<1>2. CASE RequestStep
  BY <1>2 DEF RequestStep, RequestBegin, RequestPreflightFailed, RequestActivate, OtherCall,
              RunStep
<1>3. CASE OperatorStep
  BY <1>3 DEF OperatorStep, EmergencyStop, OtherCall, StateStep
<1>4. CASE Failure \/ TimeStep \/ UNCHANGED vars
  BY <1>4 DEF Failure, TimeStep, vars, OtherCall
<1> QED BY <1>1, <1>2, <1>3, <1>4 DEF ControllerNext

LEMMA FaultsHeldKept ==
  ASSUME CInv, CInv', FailuresOK, FaultsHeld, [ControllerNext]_vars
  PROVE  FaultsHeld'
<1>1. /\ IInv /\ IInv' /\ Persists /\ [Next]_engineVars
      /\ Unowned(applying) /\ StartingOK /\ StartedOK
  BY ControllerStepOK DEF CInv, BudgetInv, MonitorOK
<1> SUFFICES ASSUME failures' = 0, NEW r \in RunIds,
                    runs'[r].status = "active", runs'[r].owner # None
             PROVE  BeingStarted(r)' \/ FaultHeld(r)'
  BY DEF FaultsHeld
<1>2. ~Failure /\ failures = 0
  <2>1. ~Failure
    BY ControllerAssumption DEF Failure, FailuresOK
  <2> QED
    BY <2>1 DEF ControllerNext, MonitorStep, RequestStep, OperatorStep, TimeStep, vars
<1>4. CASE runs[r].status = "active"
  <2>1. runs'[r].owner = runs[r].owner
    BY <1>1, <1>4 DEF Persists
  <2>2. CASE FaultHeld(r)
    <3>1. PICK p \in PlaybookRunIds, s \in Stages : runs[r].owner = <<p, s>>
      BY <1>1, <2>1 DEF IInv, RunsOK, Run, Owner
    <3>2. Held(p, s, r)
      BY <2>2, <3>1 DEF FaultHeld
    <3>3. Held(p, s, r)' => FaultHeld(r)'
      BY <2>1, <3>1 DEF FaultHeld
    <3>4. CASE OtherCall(p, s)
      BY <1>1, <1>4, <3>2, <3>3, <3>4, HeldUntilEnded
    <3>5. CASE UNCHANGED engineVars
      BY <3>2, <3>3, <3>5 DEF engineVars, Held, Live
    <3> QED BY <1>4, <3>1, <3>4, <3>5, FaultsAreSpared
  <2>3. CASE BeingStarted(r)
    <3>1. CASE MonitorStep
      BY <2>3, <3>1, StartedIsLinkedOrUndone
    <3>2. CASE UNCHANGED monitorVars
      BY <2>3, <3>2 DEF monitorVars, BeingStarted
    <3> QED
      BY <1>2, <3>1, <3>2 DEF ControllerNext, RequestStep, OperatorStep, TimeStep, vars
  <2> QED BY <1>2, <1>4, <2>1, <2>2, <2>3 DEF FaultsHeld
<1>5. CASE runs[r].status # "active"
  <2>1. r \in RunsInForce(active') /\ r \notin RunsInForce(active)
    BY <1>1, <1>5 DEF IInv, RunsOK, RunOK, RunsInForce, RunIds
  <2>2. CASE MonitorStep
    <3>1. AppliesOnlyItem
      BY <2>2, MonitorStepOK DEF MonitorCallOK
    <3> QED BY <2>1, <3>1 DEF AppliesOnlyItem, Activates, BeingStarted
  <2>3. CASE RequestStep
    <3>1. Activates(applying)
      BY <1>1, <2>3, RequestPersists
    <3>2. runs[r].status # "absent" /\ runs[r].owner = None
      BY <1>1, <2>1, <3>1 DEF Activates, Unowned
    <3> QED BY <1>1, <3>2 DEF Persists
  <2>4. CASE OperatorStep
    <3>1. Activates({})
      BY <1>1, <2>4, OperatorPersists
    <3> QED BY <2>1, <3>1 DEF Activates
  <2>5. CASE TimeStep \/ UNCHANGED vars
    BY <2>1, <2>5 DEF TimeStep, Tick, vars, engineVars
  <2> QED BY <1>2, <2>2, <2>3, <2>4, <2>5 DEF ControllerNext
<1> QED BY <1>4, <1>5

(* A fault that a playbook applied is in force only while its stage is     *)
(* active, linked to it, and its playbook has not ended, or while the      *)
(* monitor is between applying it and linking it or undoing its start, as  *)
(* long as no cycle of the monitor is cut short.                           *)
THEOREM NoFaultIsOrphaned == ControllerSpec => []NoOrphanedFault
<1>1. ControllerInit => FaultsHeld
  BY DEF ControllerInit, Init, AbsentRun, FaultsHeld
<1>2. CInv /\ CInv' /\ FailuresOK /\ FaultsHeld /\ [ControllerNext]_vars => FaultsHeld'
  BY FaultsHeldKept
<1>3. CInv /\ FaultsHeld => NoOrphanedFault
  BY FaultsHeldIsNoOrphan DEF CInv, BudgetInv
<1> QED BY <1>1, <1>2, <1>3, ControllerInvariant, FailuresCounted, PTL DEF ControllerSpec

=============================================================================
