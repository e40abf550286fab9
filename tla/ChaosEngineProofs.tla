------------------------- MODULE ChaosEngineProofs -------------------------
(***************************************************************************)
(* Proofs about ChaosEngine, for every value of its constants.             *)
(*                                                                         *)
(* IInv is the inductive invariant.  It is stated for one run, one         *)
(* playbook run, and the pair of runs and active_actions, as predicates of *)
(* values: the lemmas that follow are about the operators ChaosEngine is   *)
(* built from, and every action is a combination of those.                 *)
(***************************************************************************)
EXTENDS ChaosEngine, FiniteSums

USE DEF NoRun, TerminalRun, TerminalStage, LivePlaybook

RunOK(run, now) ==
  /\ run \in Run
  /\ run.status # "absent" => run.action \in Actions /\ run.duration \in Durations
  /\ run.status = "active" => run.expires \in Nat
  /\ run.status = "completed" => run.expires \in Nat /\ run.expires <= now

RunsOK(rs, act, now) ==
  /\ rs \in [RunIds -> Run]
  /\ act \in [Actions -> RunIds \cup {NoRun}]
  /\ \A r \in RunIds : RunOK(rs[r], now)
  /\ \A a \in Actions :
       act[a] # NoRun => rs[act[a]].status = "active" /\ rs[act[a]].action = a
  /\ \A r \in RunIds : rs[r].status = "active" => act[rs[r].action] = r

PlaybookOK(book, ps, now) ==
  /\ book \in PlaybookRun
  /\ ps \in [Stages -> Stage]
  /\ book.status # "absent" => book.book \in Books /\ book.definition \in Definitions
  /\ book.status = "running" =>
       book.pausedAt = None /\ book.started + book.totalPaused <= now
  /\ book.status = "paused" =>
       /\ book.pausedAt \in Nat /\ book.pausedAt <= now
       /\ book.started + book.totalPaused <= book.pausedAt
  /\ book.status = "absent" => \A s \in Stages : ps[s].status = "pending"
  /\ book.status \in TerminalRun => \A s \in Stages : ps[s].status \in TerminalStage
  /\ \A s \in Stages : ps[s].status = "active" => ps[s].run # NoRun

PlaybooksOK(books, ss, now) ==
  /\ books \in [PlaybookRunIds -> PlaybookRun]
  /\ ss \in [PlaybookRunIds -> [Stages -> Stage]]
  /\ \A p \in PlaybookRunIds : PlaybookOK(books[p], ss[p], now)

IInv ==
  /\ clock \in Nat
  /\ library \in [Books -> Definitions \cup {None}]
  /\ conditions = Contributing(active)
  /\ RunsOK(runs, active, clock)
  /\ PlaybooksOK(playbookRuns, stages, clock)

(***************************************************************************)
(* The inductive invariant implies the invariants that TLC checks.         *)
(***************************************************************************)
LEMMA IInvImplies ==
  IInv => /\ TypeOK
          /\ ActiveRunsMatch
          /\ ConditionsMatchActive
          /\ EndedPlaybooksSettled
          /\ CompletedRanItsTime
<1> SUFFICES ASSUME IInv
             PROVE  /\ TypeOK /\ ActiveRunsMatch /\ ConditionsMatchActive
                    /\ EndedPlaybooksSettled /\ CompletedRanItsTime
  OBVIOUS
<1>1. TypeOK
  BY DEF IInv, TypeOK, RunsOK, PlaybooksOK, Contributing
<1>2. ActiveRunsMatch
  BY DEF IInv, RunsOK, RunOK, ActiveRunsMatch
<1>3. ConditionsMatchActive
  BY DEF IInv, ConditionsMatchActive
<1>4. EndedPlaybooksSettled
  BY DEF IInv, PlaybooksOK, PlaybookOK, EndedPlaybooksSettled
<1>5. CompletedRanItsTime
  BY DEF IInv, RunsOK, RunOK, CompletedRanItsTime
<1> QED BY <1>1, <1>2, <1>3, <1>4, <1>5

(***************************************************************************)
(* Runs: ending runs in force, and time passing.                           *)
(***************************************************************************)

LEMMA EndedType ==
  ASSUME NEW rs \in [RunIds -> Run], NEW S, NEW st \in TerminalRun
  PROVE  Ended(rs, S, st) \in [RunIds -> Run]
<1>1. ASSUME NEW r \in RunIds PROVE [rs[r] EXCEPT !.status = st] \in Run
  BY DEF Run
<1> QED BY <1>1 DEF Ended

(* Ending runs in force keeps runs and active_actions in step.             *)
LEMMA FinishOK ==
  ASSUME NEW rs, NEW act, NEW now \in Nat, RunsOK(rs, act, now),
         NEW S \in SUBSET RunsInForce(act), NEW st,
         \/ st = "aborted"
         \/ st = "completed" /\ \A r \in S : rs[r].expires <= now
  PROVE  RunsOK(Ended(rs, S, st), Released(act, S), now)
<1> DEFINE new == Ended(rs, S, st)
           rel == Released(act, S)
<1>1. S \subseteq RunIds
  BY DEF RunsInForce, RunsOK
<1>2. \A r \in S : rs[r].status = "active" /\ RunOK(rs[r], now)
  BY <1>1 DEF RunsInForce, RunsOK
<1>3. ASSUME NEW r \in RunIds, r \in S
      PROVE  /\ RunOK([rs[r] EXCEPT !.status = st], now)
             /\ [rs[r] EXCEPT !.status = st].status = st
  BY <1>2, <1>3 DEF RunOK, Run
<1>4. \A r \in RunIds : RunOK(new[r], now)
  BY <1>3 DEF Ended, RunsOK
<1>5. new \in [RunIds -> Run]
  BY <1>4 DEF Ended, RunOK
<1>6. rel \in [Actions -> RunIds \cup {NoRun}]
  BY DEF Released, RunsOK
<1>7. \A a \in Actions :
        rel[a] # NoRun => new[rel[a]].status = "active" /\ new[rel[a]].action = a
  BY DEF Released, Ended, RunsOK
<1>8. \A r \in RunIds : new[r].status = "active" => rel[new[r].action] = r
  BY <1>3 DEF Released, Ended, RunsOK, RunOK
<1> QED BY <1>4, <1>5, <1>6, <1>7, <1>8 DEF RunsOK

LEMMA LaterRunsOK ==
  ASSUME NEW rs, NEW act, NEW now \in Nat, RunsOK(rs, act, now)
  PROVE  RunsOK(rs, act, now + 1)
<1>1. \A r \in RunIds : RunOK(rs[r], now + 1)
  BY DEF RunsOK, RunOK
<1> QED BY <1>1 DEF RunsOK

(***************************************************************************)
(* Playbook runs: synchronising, stopping, time passing.                   *)
(***************************************************************************)

(* Stopping a playbook run leaves none of its stages unfinished.           *)
LEMMA StopOK ==
  ASSUME NEW book, NEW ps, NEW now, PlaybookOK(book, ps, now), book.status # "absent"
  PROVE  PlaybookOK([book EXCEPT !.status = "aborted"], StoppedStages(ps), now)
<1> DEFINE stopped == StoppedStages(ps)
<1>1. \A s \in Stages : stopped[s] \in Stage /\ stopped[s].status \in TerminalStage
  <2> SUFFICES ASSUME NEW s \in Stages
               PROVE  stopped[s] \in Stage /\ stopped[s].status \in TerminalStage
    OBVIOUS
  <2>1. ps[s] \in Stage
    BY DEF PlaybookOK
  <2>2. CASE ps[s].status = "active"
    <3>1. stopped[s] = [ps[s] EXCEPT !.status = "aborted"]
      BY <2>2 DEF StoppedStages, PlaybookOK
    <3> QED BY <2>1, <3>1 DEF Stage
  <2>3. CASE ps[s].status \in {"pending", "starting"}
    <3>1. stopped[s] = [ps[s] EXCEPT !.status = "skipped"]
      BY <2>3 DEF StoppedStages
    <3> QED BY <2>1, <3>1 DEF Stage
  <2>4. CASE ps[s].status \in TerminalStage
    <3>1. stopped[s] = ps[s]
      BY <2>4 DEF StoppedStages
    <3> QED BY <2>1, <2>4, <3>1
  <2> QED BY <2>1, <2>2, <2>3, <2>4 DEF Stage
<1>2. stopped \in [Stages -> Stage]
  BY <1>1 DEF StoppedStages
<1>3. [book EXCEPT !.status = "aborted"] \in PlaybookRun
  BY DEF PlaybookOK, PlaybookRun
<1>4. PlaybookOK([book EXCEPT !.status = "aborted"], stopped, now)
  <2> HIDE DEF stopped
  <2> QED BY <1>1, <1>2, <1>3 DEF PlaybookOK, PlaybookRun
<1> QED BY <1>4

(* A stage that takes the outcome of its run is still a stage, and one     *)
(* that has ended is left as it is.                                        *)
LEMMA SyncedStageOK ==
  ASSUME NEW rs, NEW stage \in Stage
  PROVE  /\ SyncedStage(rs, stage) \in Stage
         /\ SyncedStage(rs, stage).run = stage.run
         /\ SyncedStage(rs, stage).status = "active" => stage.status = "active"
         /\ stage.status \notin {"starting", "active"} => SyncedStage(rs, stage) = stage
BY DEF SyncedStage, Stage

(* Synchronising a playbook run with the action runs.                      *)
LEMMA SyncOK ==
  ASSUME NEW rs, NEW books, NEW ss, NEW now, PlaybooksOK(books, ss, now)
  PROVE  LET synced == SyncedStages(rs, books, ss)
         IN  PlaybooksOK(SyncedPlaybooks(books, synced), synced, now)
<1> DEFINE synced == SyncedStages(rs, books, ss)
           ended  == SyncedPlaybooks(books, synced)
<1> SUFFICES PlaybooksOK(ended, synced, now)
  OBVIOUS
<1>1. ASSUME NEW p \in PlaybookRunIds
      PROVE  PlaybookOK(ended[p], synced[p], now)
  <2>1. PlaybookOK(books[p], ss[p], now)
    BY DEF PlaybooksOK
  <2>2. \A s \in Stages :
          /\ synced[p][s] \in Stage
          /\ synced[p][s].status = "active" => synced[p][s].run # NoRun
          /\ ss[p][s].status \notin {"starting", "active"} => synced[p][s] = ss[p][s]
    BY <2>1, SyncedStageOK DEF SyncedStages, PlaybookOK
  <2>3. synced[p] \in [Stages -> Stage]
    BY <2>1, <2>2 DEF SyncedStages, PlaybookOK
  <2>4. PlaybookOK(books[p], synced[p], now)
    BY <2>1, <2>2, <2>3 DEF PlaybookOK
  <2>5. CASE ended[p] = books[p]
    BY <2>4, <2>5
  <2>6. CASE ended[p] # books[p]
    <3>1. /\ books[p].status \in LivePlaybook
          /\ \A s \in Stages : synced[p][s].status \in TerminalStage
          /\ ended[p] = [books[p] EXCEPT
                           !.status = FinalStatus({synced[p][s].status : s \in Stages})]
      BY <2>6 DEF SyncedPlaybooks
    <3>2. PICK st \in TerminalRun : ended[p] = [books[p] EXCEPT !.status = st]
      BY <3>1 DEF FinalStatus
    <3>3. ended[p] \in PlaybookRun /\ ended[p].status \in TerminalRun
      BY <2>1, <3>2 DEF PlaybookOK, PlaybookRun
    <3> HIDE DEF synced, ended
    <3> QED BY <2>4, <3>1, <3>2, <3>3 DEF PlaybookOK, PlaybookRun
  <2> QED BY <2>5, <2>6
<1>2. ended \in [PlaybookRunIds -> PlaybookRun]
  BY <1>1 DEF SyncedPlaybooks, PlaybookOK
<1>3. synced \in [PlaybookRunIds -> [Stages -> Stage]]
  BY <1>1 DEF SyncedStages, PlaybookOK
<1> QED BY <1>1, <1>2, <1>3 DEF PlaybooksOK

LEMMA LaterPlaybooksOK ==
  ASSUME NEW books, NEW ss, NEW now \in Nat, PlaybooksOK(books, ss, now)
  PROVE  PlaybooksOK(books, ss, now + 1)
<1>1. \A p \in PlaybookRunIds : PlaybookOK(books[p], ss[p], now + 1)
  <2> SUFFICES ASSUME NEW p \in PlaybookRunIds
               PROVE  PlaybookOK(books[p], ss[p], now + 1)
    OBVIOUS
  <2>1. PlaybookOK(books[p], ss[p], now)
    BY DEF PlaybooksOK
  <2>2. books[p].started + books[p].totalPaused \in Nat
    BY <2>1 DEF PlaybookOK, PlaybookRun
  <2> QED BY <2>1, <2>2 DEF PlaybookOK
<1> QED BY <1>1 DEF PlaybooksOK

(* Changing one playbook run and its stages.                               *)
LEMMA ReplacedOK ==
  ASSUME NEW books, NEW ss, NEW now, PlaybooksOK(books, ss, now),
         NEW p \in PlaybookRunIds, NEW book, NEW ps, PlaybookOK(book, ps, now)
  PROVE  PlaybooksOK([books EXCEPT ![p] = book], [ss EXCEPT ![p] = ps], now)
<1>1. book \in PlaybookRun /\ ps \in [Stages -> Stage]
  BY DEF PlaybookOK
<1> QED BY <1>1 DEF PlaybooksOK

LEMMA ReplacedBookOK ==
  ASSUME NEW books, NEW ss, NEW now, PlaybooksOK(books, ss, now),
         NEW p \in PlaybookRunIds, NEW book, PlaybookOK(book, ss[p], now)
  PROVE  PlaybooksOK([books EXCEPT ![p] = book], ss, now)
<1>1. book \in PlaybookRun
  BY DEF PlaybookOK
<1> QED BY <1>1 DEF PlaybooksOK

(* Changing one stage.  It may start or be under way only in a playbook    *)
(* run that has not ended.                                                 *)
LEMMA ReplacedStageOK ==
  ASSUME NEW books, NEW ss, NEW now, PlaybooksOK(books, ss, now),
         NEW p \in PlaybookRunIds, NEW s \in Stages, NEW stage \in Stage,
         stage.status \in TerminalStage \/ books[p].status \notin TerminalRun,
         books[p].status # "absent",
         stage.status = "active" => stage.run # NoRun
  PROVE  PlaybooksOK(books, [ss EXCEPT ![p][s] = stage], now)
<1> DEFINE ps == [ss[p] EXCEPT ![s] = stage]
<1>1. ps \in [Stages -> Stage]
  BY DEF PlaybooksOK
<1>2. PlaybookOK(books[p], ss[p], now) /\ ss[p] \in [Stages -> Stage]
  BY DEF PlaybooksOK
<1>3. PlaybookOK(books[p], ps, now)
  BY <1>1, <1>2 DEF PlaybookOK
<1>4. [ss EXCEPT ![p][s] = stage] = [ss EXCEPT ![p] = ps]
  BY DEF PlaybooksOK
<1> HIDE DEF ps
<1> QED BY <1>1, <1>3, <1>4 DEF PlaybooksOK

(***************************************************************************)
(* The two halves most actions are made of: runs in force end and the      *)
(* conditions are recomputed; the playbooks are synchronised.              *)
(***************************************************************************)

LEMMA FinishKeeps ==
  ASSUME IInv, NEW S \in SUBSET RunsInForce(active), NEW st, Finish(S, st),
         \/ st = "aborted"
         \/ st = "completed" /\ \A r \in S : runs[r].expires <= clock
  PROVE  RunsOK(runs', active', clock)
<1>1. runs' = Ended(runs, S, st) /\ active' = Released(active, S)
  BY DEF Finish
<1>2. RunsOK(Ended(runs, S, st), Released(active, S), clock)
  BY FinishOK DEF IInv
<1> QED BY <1>1, <1>2

LEMMA ReconcileKeeps ==
  ASSUME IInv, ReconcileExpired
  PROVE  RunsOK(runs', active', clock) /\ conditions' = Contributing(active')
<1>1. Finish(Expired, "completed") /\ Expired \subseteq RunsInForce(active)
  BY DEF ReconcileExpired, Expired
<1>2. RunsOK(runs', active', clock)
  BY <1>1, FinishKeeps DEF Expired
<1>3. CASE Expired = {}
  <2>1. active' = active
    BY <1>1, <1>3 DEF Finish, Released, IInv, RunsOK
  <2> QED BY <1>2, <1>3, <2>1 DEF ReconcileExpired, IInv, Contributing
<1>4. CASE Expired # {}
  BY <1>2, <1>4 DEF ReconcileExpired
<1> QED BY <1>3, <1>4

LEMMA SyncKeeps ==
  ASSUME NEW ss, PlaybooksOK(playbookRuns, ss, clock), SyncPlaybooksFrom(ss)
  PROVE  PlaybooksOK(playbookRuns', stages', clock)
BY SyncOK DEF SyncPlaybooksFrom

(***************************************************************************)
(* Every action keeps the inductive invariant.                             *)
(***************************************************************************)

LEMMA InitOK == Init => IInv
<1> SUFFICES ASSUME Init PROVE IInv
  OBVIOUS
<1>1. \A r \in RunIds : RunOK(runs[r], clock)
  BY DEF Init, RunOK, Run, AbsentRun, Owner
<1>2. RunsOK(runs, active, clock)
  BY <1>1 DEF Init, RunsOK, RunOK, AbsentRun
<1>3. PendingStage \in Stage
  BY DEF PendingStage, Stage
<1>4. AbsentPlaybookRun \in PlaybookRun
  BY DEF AbsentPlaybookRun, PlaybookRun
<1>5. \A p \in PlaybookRunIds : PlaybookOK(playbookRuns[p], stages[p], clock)
  BY <1>3, <1>4 DEF Init, PlaybookOK, PendingStage, AbsentPlaybookRun
<1>6. PlaybooksOK(playbookRuns, stages, clock)
  BY <1>3, <1>4, <1>5 DEF Init, PlaybooksOK
<1> QED BY <1>2, <1>6 DEF Init, IInv, Contributing

LEMMA BeginRunOK ==
  ASSUME IInv, NEW r \in RunIds, NEW a \in Actions, NEW i \in Intensities,
         NEW d \in Durations, NEW o \in Owner, BeginRun(r, a, i, d, o)
  PROVE  IInv'
<1> DEFINE new == [status |-> "pending", action |-> a, intensity |-> i,
                   duration |-> d, expires |-> None, owner |-> o]
<1>1. runs' = [runs EXCEPT ![r] = new] /\ runs[r].status = "absent"
  BY DEF BeginRun
<1>2. new \in Run /\ RunOK(new, clock) /\ new.status = "pending"
  BY DEF RunOK, Run
<1> HIDE DEF new
<1>3. RunsOK(runs', active, clock)
  BY <1>1, <1>2 DEF IInv, RunsOK
<1> QED BY <1>3 DEF BeginRun, IInv, playbookVars, Contributing

LEMMA ActivateRunOK ==
  ASSUME IInv, NEW r \in RunIds, ActivateRun(r)
  PROVE  IInv'
<1> DEFINE a        == runs[r].action
           replaced == {active[a]} \ {NoRun}
           ended    == Ended(runs, replaced, "aborted")
           left     == Released(active, replaced)
           expires  == clock + runs[r].duration
           run      == [runs[r] EXCEPT !.status = "active", !.expires = expires]
<1>1. /\ a \in Actions /\ runs[r] \in Run /\ runs[r].status = "pending"
      /\ runs[r].duration \in Durations /\ expires \in Nat
  BY EngineAssumption DEF ActivateRun, IInv, RunsOK, RunOK
<1>2. RunsOK(ended, left, clock)
  <2>1. replaced \subseteq RunsInForce(active)
    BY <1>1 DEF RunsInForce
  <2> QED BY <2>1, FinishOK DEF IInv
<1>3. r \notin replaced
  BY <1>1 DEF IInv, RunsOK
<1>4. ended[r] = runs[r]
  BY <1>3 DEF Ended
<1>5. left[a] = NoRun
  BY <1>1 DEF Released
<1>6. runs' = [ended EXCEPT ![r] = run] /\ active' = [active EXCEPT ![a] = r]
  BY <1>2, <1>4 DEF ActivateRun, RunsOK
<1>7. active' = [left EXCEPT ![a] = r]
  <2>1. \A b \in Actions \ {a} : active[b] \notin replaced
    BY <1>1 DEF IInv, RunsOK
  <2>2. \A b \in Actions \ {a} : left[b] = active[b]
    BY <2>1 DEF Released
  <2>3. left \in [Actions -> RunIds \cup {NoRun}] /\ active \in [Actions -> RunIds \cup {NoRun}]
    BY <1>2 DEF RunsOK, IInv
  <2> HIDE DEF left
  <2> QED BY <1>6, <2>2, <2>3
<1>8. RunOK(run, clock) /\ run \in Run /\ run.status = "active" /\ run.action = a
  <2> HIDE DEF expires
  <2> QED BY <1>1 DEF RunOK, Run
<1>9. RunsOK(runs', active', clock)
  <2> HIDE DEF ended, left, run
  <2>1. /\ runs' \in [RunIds -> Run]
        /\ active' \in [Actions -> RunIds \cup {NoRun}]
        /\ \A q \in RunIds : RunOK(runs'[q], clock)
    BY <1>1, <1>2, <1>6, <1>7, <1>8 DEF RunsOK
  <2>2. \A b \in Actions :
          active'[b] # NoRun => runs'[active'[b]].status = "active" /\ runs'[active'[b]].action = b
    <3>1. left \in [Actions -> RunIds \cup {NoRun}] /\ ended \in [RunIds -> Run]
      BY <1>2 DEF RunsOK
    <3>2. \A b \in Actions \ {a} :
            active'[b] # NoRun =>
              active'[b] # r /\ ended[active'[b]].status = "active" /\ ended[active'[b]].action = b
      <4>1. \A b \in Actions \ {a} : active'[b] = left[b]
        BY <1>1, <1>7, <3>1
      <4>2. \A b \in Actions :
              left[b] # NoRun => ended[left[b]].status = "active" /\ ended[left[b]].action = b
        BY <1>2 DEF RunsOK
      <4>3. ended[r].status = "pending"
        BY <1>1, <1>4
      <4> QED BY <4>1, <4>2, <4>3
    <3>3. runs'[active'[a]].status = "active" /\ runs'[active'[a]].action = a
      BY <1>1, <1>6, <1>7, <1>8, <3>1
    <3> QED BY <1>6, <1>7, <3>1, <3>2, <3>3
  <2>3. \A q \in RunIds : runs'[q].status = "active" => active'[runs'[q].action] = q
    <3> SUFFICES ASSUME NEW q \in RunIds, q # r, ended[q].status = "active"
                 PROVE  active'[ended[q].action] = q
      BY <1>1, <1>2, <1>6, <1>7, <1>8 DEF RunsOK
    <3>1. ended[q].action \in Actions /\ left[ended[q].action] = q
      BY <1>2 DEF RunsOK, RunOK
    <3>2. q # NoRun
      BY DEF RunIds
    <3> QED BY <1>1, <1>2, <1>5, <1>7, <3>1, <3>2 DEF RunsOK
  <2> QED BY <2>1, <2>2, <2>3 DEF RunsOK
<1> QED BY <1>9 DEF ActivateRun, IInv, playbookVars, Contributing

LEMMA FailRunOK ==
  ASSUME IInv, NEW r \in RunIds, FailRun(r)
  PROVE  IInv'
<1> DEFINE new == [runs[r] EXCEPT !.status = "failed"]
<1>1. runs' = [runs EXCEPT ![r] = new] /\ runs[r].status = "pending" /\ RunOK(runs[r], clock)
  BY DEF FailRun, IInv, RunsOK
<1>2. new \in Run /\ RunOK(new, clock) /\ new.status = "failed"
  BY <1>1 DEF RunOK, Run
<1> HIDE DEF new
<1>3. RunsOK(runs', active, clock)
  BY <1>1, <1>2 DEF IInv, RunsOK
<1>4. PlaybooksOK(playbookRuns', stages', clock)
  BY SyncKeeps DEF FailRun, IInv
<1> QED BY <1>3, <1>4 DEF FailRun, IInv, Contributing

LEMMA GetStateOK ==
  ASSUME IInv, GetState
  PROVE  IInv'
<1>1. RunsOK(runs', active', clock) /\ conditions' = Contributing(active')
  BY ReconcileKeeps DEF GetState
<1>2. PlaybooksOK(playbookRuns', stages', clock)
  BY SyncKeeps DEF GetState, IInv
<1> QED BY <1>1, <1>2 DEF GetState, IInv

LEMMA UpdatePatternsOK ==
  ASSUME IInv, UpdatePatterns
  PROVE  IInv'
<1>1. RunsOK(runs', active', clock) /\ conditions' = Contributing(active')
  BY ReconcileKeeps DEF UpdatePatterns
<1> QED BY <1>1 DEF UpdatePatterns, IInv, playbookVars

LEMMA AbortOK ==
  ASSUME IInv, NEW a \in Actions, Abort(a)
  PROVE  IInv'
<1>1. {active[a]} \ {NoRun} \subseteq RunsInForce(active)
  BY DEF RunsInForce
<1>2. RunsOK(runs', active', clock)
  BY <1>1, FinishKeeps DEF Abort
<1>3. PlaybooksOK(playbookRuns', stages', clock)
  BY SyncKeeps DEF Abort, IInv
<1> QED BY <1>2, <1>3 DEF Abort, IInv

LEMMA StopAllOK ==
  ASSUME IInv, StopAll
  PROVE  IInv'
<1>1. RunsOK(runs', active', clock)
  BY FinishKeeps DEF StopAll
<1>2. ASSUME NEW p \in PlaybookRunIds
      PROVE  PlaybookOK(playbookRuns'[p], stages'[p], clock)
  <2>1. PlaybookOK(playbookRuns[p], stages[p], clock)
    BY DEF IInv, PlaybooksOK
  <2>2. CASE playbookRuns[p].status \in LivePlaybook
    <3>1. PlaybookOK([playbookRuns[p] EXCEPT !.status = "aborted"], StoppedStages(stages[p]), clock)
      BY <2>1, <2>2, StopOK
    <3> QED BY <2>2, <3>1 DEF StopAll
  <2>3. CASE playbookRuns[p].status \notin LivePlaybook
    BY <2>1, <2>3 DEF StopAll
  <2> QED BY <2>2, <2>3
<1>3. PlaybooksOK(playbookRuns', stages', clock)
  BY <1>2 DEF StopAll, PlaybooksOK, PlaybookOK
<1> QED BY <1>1, <1>3 DEF StopAll, IInv

LEMMA LibraryOK ==
  ASSUME IInv, NEW b \in Books,
         DeletePlaybook(b) \/ \E d \in Definitions : SavePlaybook(b, d)
  PROVE  IInv'
BY DEF IInv, SavePlaybook, DeletePlaybook, Contributing

LEMMA AppendPlaybookRunOK ==
  ASSUME IInv, NEW p \in PlaybookRunIds, NEW b \in Books, NEW d \in Definitions,
         AppendPlaybookRun(p, b, d)
  PROVE  IInv'
<1> DEFINE new == [status |-> "running", book |-> b, definition |-> d,
                   started |-> clock, pausedAt |-> None, totalPaused |-> 0]
           fresh == [s \in Stages |-> PendingStage]
<1>1. PlaybookOK(new, fresh, clock)
  BY DEF IInv, PlaybookOK, PlaybookRun, PendingStage, Stage
<1>2. /\ playbookRuns' = [playbookRuns EXCEPT ![p] = new]
      /\ stages' = [stages EXCEPT ![p] = fresh]
  BY DEF AppendPlaybookRun
<1> HIDE DEF new, fresh
<1>3. PlaybooksOK(playbookRuns', stages', clock)
  BY <1>1, <1>2, ReplacedOK DEF IInv
<1> QED BY <1>3 DEF AppendPlaybookRun, IInv, Contributing

LEMMA StartPlaybookOK ==
  ASSUME IInv, NEW p \in PlaybookRunIds, NEW b \in Books, StartPlaybook(p, b)
  PROVE  IInv'
<1>1. library[b] \in Definitions
  BY DEF StartPlaybook, IInv
<1> QED BY <1>1, AppendPlaybookRunOK DEF StartPlaybook

LEMMA ReplayPlaybookOK ==
  ASSUME IInv, NEW p \in PlaybookRunIds, NEW q \in PlaybookRunIds, ReplayPlaybook(p, q)
  PROVE  IInv'
<1>1. playbookRuns[q].book \in Books /\ playbookRuns[q].definition \in Definitions
  BY DEF ReplayPlaybook, IInv, PlaybooksOK, PlaybookOK
<1> QED BY <1>1, AppendPlaybookRunOK DEF ReplayPlaybook

LEMMA PausePlaybookOK ==
  ASSUME IInv, NEW p \in PlaybookRunIds, PausePlaybook(p)
  PROVE  IInv'
<1> DEFINE book == [playbookRuns[p] EXCEPT !.status = "paused", !.pausedAt = clock]
<1>1. PlaybookOK(playbookRuns[p], stages[p], clock) /\ clock \in Nat
  BY DEF IInv, PlaybooksOK
<1>2. PlaybookOK(book, stages[p], clock)
  <2>1. /\ book \in PlaybookRun /\ book.status = "paused" /\ book.pausedAt = clock
        /\ book.book = playbookRuns[p].book /\ book.definition = playbookRuns[p].definition
        /\ book.started = playbookRuns[p].started
        /\ book.totalPaused = playbookRuns[p].totalPaused
    BY <1>1 DEF PlaybookOK, PlaybookRun
  <2> HIDE DEF book
  <2> QED BY <1>1, <2>1 DEF PausePlaybook, PlaybookOK
<1>3. playbookRuns' = [playbookRuns EXCEPT ![p] = book]
  BY DEF PausePlaybook, IInv, PlaybooksOK
<1> HIDE DEF book
<1>4. PlaybooksOK(playbookRuns', stages, clock)
  BY <1>2, <1>3, ReplacedBookOK DEF IInv
<1> QED BY <1>4 DEF PausePlaybook, IInv, Contributing

LEMMA ResumePlaybookOK ==
  ASSUME IInv, NEW p \in PlaybookRunIds, ResumePlaybook(p)
  PROVE  IInv'
<1> DEFINE paused == playbookRuns[p].totalPaused + (clock - playbookRuns[p].pausedAt)
           book   == [playbookRuns[p] EXCEPT !.status = "running",
                        !.totalPaused = paused, !.pausedAt = None]
<1>1. PlaybookOK(playbookRuns[p], stages[p], clock) /\ clock \in Nat
  BY DEF IInv, PlaybooksOK
<1>2. paused \in Nat /\ playbookRuns[p].started + paused <= clock
  BY <1>1 DEF ResumePlaybook, PlaybookOK, PlaybookRun
<1>3. playbookRuns' = [playbookRuns EXCEPT ![p] = book]
  BY DEF ResumePlaybook, IInv, PlaybooksOK
<1> HIDE DEF paused
<1>4. PlaybookOK(book, stages[p], clock)
  <2>1. /\ book \in PlaybookRun /\ book.status = "running" /\ book.pausedAt = None
        /\ book.book = playbookRuns[p].book /\ book.definition = playbookRuns[p].definition
        /\ book.started = playbookRuns[p].started /\ book.totalPaused = paused
    BY <1>1, <1>2 DEF PlaybookOK, PlaybookRun
  <2> HIDE DEF book
  <2> QED BY <1>1, <1>2, <2>1 DEF ResumePlaybook, PlaybookOK
<1> HIDE DEF book
<1>5. PlaybooksOK(playbookRuns', stages, clock)
  BY <1>3, <1>4, ReplacedBookOK DEF IInv
<1> QED BY <1>5 DEF ResumePlaybook, IInv, Contributing

LEMMA StopPlaybookOK ==
  ASSUME IInv, NEW p \in PlaybookRunIds, StopPlaybook(p)
  PROVE  IInv'
<1> DEFINE book == [playbookRuns[p] EXCEPT !.status = "aborted"]
<1>1. RunsOK(runs', active', clock)
  <2>1. StageRunsInForce(active, stages[p]) \subseteq RunsInForce(active)
    BY DEF StageRunsInForce
  <2> QED BY <2>1, FinishKeeps DEF StopPlaybook
<1>2. PlaybookOK(book, StoppedStages(stages[p]), clock)
  BY StopOK DEF StopPlaybook, IInv, PlaybooksOK
<1>3. /\ playbookRuns' = [playbookRuns EXCEPT ![p] = book]
      /\ stages' = [stages EXCEPT ![p] = StoppedStages(stages[p])]
  BY DEF StopPlaybook
<1> HIDE DEF book
<1>4. PlaybooksOK(playbookRuns', stages', clock)
  BY <1>2, <1>3, ReplacedOK DEF IInv
<1> QED BY <1>1, <1>4 DEF StopPlaybook, IInv

LEMMA SkipStageOK ==
  ASSUME IInv, NEW p \in PlaybookRunIds, NEW s \in Stages, SkipStage(p, s)
  PROVE  IInv'
<1> DEFINE ends    == {r \in RunsInForce(active) :
                         stages[p][s].status = "active" /\ stages[p][s].run = r}
           skipped == [status |-> "skipped", run |-> NoRun]
<1>1. Finish(ends, "aborted")
  BY DEF SkipStage
<1>2. ends \subseteq RunsInForce(active)
  OBVIOUS
<1>3. RunsOK(runs', active', clock)
  <2> HIDE DEF ends
  <2> QED BY <1>1, <1>2, FinishKeeps
<1>4. skipped \in Stage
  BY DEF Stage
<1>5. PlaybooksOK(playbookRuns, [stages EXCEPT ![p][s] = skipped], clock)
  BY <1>4, ReplacedStageOK DEF IInv, SkipStage
<1>6. PlaybooksOK(playbookRuns', stages', clock)
  BY <1>5, SyncKeeps DEF SkipStage
<1> QED BY <1>3, <1>6 DEF SkipStage, IInv

LEMMA DuePlaybookStagesOK ==
  ASSUME IInv, DuePlaybookStages
  PROVE  IInv'
<1> DEFINE ends == UNION {StageRunsInForce(active, StagesNow[p]) : p \in OverTime}
<1>1. Finish(ends, "aborted")
  BY DEF DuePlaybookStages
<1>2. ends \subseteq RunsInForce(active)
  BY DEF StageRunsInForce
<1>3. RunsOK(runs', active', clock)
  <2> HIDE DEF ends
  <2> QED BY <1>1, <1>2, FinishKeeps
<1>4. conditions' = Contributing(active')
  <2>1. CASE OverTime = {}
    <3>1. ends = {}
      BY <2>1
    <3>2. active' = active
      BY <1>1, <3>1 DEF Finish, Released, IInv, RunsOK
    <3> QED BY <2>1, <3>2 DEF DuePlaybookStages, IInv, Contributing
  <2>2. CASE OverTime # {}
    BY <2>2 DEF DuePlaybookStages
  <2> QED BY <2>1, <2>2
<1>5. PlaybooksOK(BooksNow, StagesNow, clock)
  BY SyncOK DEF BooksNow, StagesNow, IInv
<1>6. ASSUME NEW p \in PlaybookRunIds
      PROVE  PlaybookOK(playbookRuns'[p], stages'[p], clock)
  <2>1. PlaybookOK(BooksNow[p], StagesNow[p], clock)
    BY <1>5 DEF PlaybooksOK
  <2>2. CASE p \in OverTime
    <3>1. BooksNow[p].status # "absent"
      BY <2>2 DEF OverTime, RunningNow
    <3>2. PlaybookOK([BooksNow[p] EXCEPT !.status = "aborted"], StoppedStages(StagesNow[p]), clock)
      BY <2>1, <3>1, StopOK
    <3> QED BY <2>2, <3>2 DEF DuePlaybookStages
  <2>3. CASE p \notin OverTime
    <3>1. playbookRuns'[p] = BooksNow[p]
      BY <2>3 DEF DuePlaybookStages
    <3>2. \A s \in Stages :
            \/ stages'[p][s] = StagesNow[p][s]
            \/ /\ stages'[p][s] = [StagesNow[p][s] EXCEPT !.status = "skipped"]
               /\ BooksNow[p].status = "running"
      BY <2>3 DEF DuePlaybookStages, RunningNow
    <3>3. \A s \in Stages : StagesNow[p][s] \in Stage
      BY <2>1 DEF PlaybookOK
    <3>4. \A s \in Stages :
            /\ stages'[p][s] \in Stage
            /\ \/ stages'[p][s] = StagesNow[p][s]
               \/ stages'[p][s].status = "skipped" /\ BooksNow[p].status = "running"
      BY <3>2, <3>3 DEF Stage
    <3>5. stages'[p] \in [Stages -> Stage]
      BY <2>3, <3>4 DEF DuePlaybookStages
    <3> QED BY <2>1, <3>1, <3>4, <3>5 DEF PlaybookOK
  <2> QED BY <2>2, <2>3
<1>7. PlaybooksOK(playbookRuns', stages', clock)
  BY <1>6 DEF DuePlaybookStages, PlaybooksOK, PlaybookOK
<1> QED BY <1>3, <1>4, <1>7 DEF DuePlaybookStages, IInv

LEMMA ClaimStageOK ==
  ASSUME IInv, NEW p \in PlaybookRunIds, NEW s \in Stages, ClaimStage(p, s)
  PROVE  IInv'
<1> DEFINE stage == [stages[p][s] EXCEPT !.status = "starting"]
<1>1. stage \in Stage /\ stage.status = "starting"
  BY DEF IInv, PlaybooksOK, Stage
<1>2. stages' = [stages EXCEPT ![p][s] = stage] /\ playbookRuns[p].status = "running"
  BY DEF ClaimStage, ClaimAllowed, IInv, PlaybooksOK
<1> HIDE DEF stage
<1>3. PlaybooksOK(playbookRuns, stages', clock)
  BY <1>1, <1>2, ReplacedStageOK DEF IInv
<1> QED BY <1>3 DEF ClaimStage, IInv, Contributing

LEMMA LinkStageOK ==
  ASSUME IInv, NEW p \in PlaybookRunIds, NEW s \in Stages, NEW r \in RunIds,
         LinkStage(p, s, r)
  PROVE  IInv'
<1> DEFINE stage == [status |-> "active", run |-> r]
<1>1. stage \in Stage /\ stage.run # NoRun
  BY DEF Stage, RunIds
<1>2. stages' = [stages EXCEPT ![p][s] = stage]
  BY DEF LinkStage
<1>3. playbookRuns[p].status \notin TerminalRun
  BY DEF LinkStage, IInv, PlaybooksOK, PlaybookOK
<1>4. playbookRuns[p].status # "absent"
  BY DEF LinkStage
<1> HIDE DEF stage
<1>5. PlaybooksOK(playbookRuns, stages', clock)
  BY <1>1, <1>2, <1>3, <1>4, ReplacedStageOK DEF IInv
<1> QED BY <1>5 DEF LinkStage, IInv, Contributing

LEMMA FailStageOK ==
  ASSUME IInv, NEW p \in PlaybookRunIds, NEW s \in Stages, FailStage(p, s)
  PROVE  IInv'
<1> DEFINE stage == [stages[p][s] EXCEPT !.status = "failed"]
<1>1. stage \in Stage /\ stage.status = "failed"
  BY DEF IInv, PlaybooksOK, Stage
<1>2. [stages EXCEPT ![p][s].status = "failed"] = [stages EXCEPT ![p][s] = stage]
  BY DEF IInv, PlaybooksOK
<1> HIDE DEF stage
<1>3. PlaybooksOK(playbookRuns, [stages EXCEPT ![p][s] = stage], clock)
  BY <1>1, ReplacedStageOK DEF IInv, FailStage
<1>4. PlaybooksOK(playbookRuns', stages', clock)
  BY <1>2, <1>3, SyncKeeps DEF FailStage
<1> QED BY <1>4 DEF FailStage, IInv, Contributing

LEMMA SyncPlaybookRunsOK ==
  ASSUME IInv, SyncPlaybookRuns
  PROVE  IInv'
<1>1. PlaybooksOK(playbookRuns', stages', clock)
  BY SyncKeeps DEF SyncPlaybookRuns, IInv
<1> QED BY <1>1 DEF SyncPlaybookRuns, IInv, Contributing

LEMMA TickOK ==
  ASSUME IInv, Tick
  PROVE  IInv'
<1>1. clock \in Nat /\ clock' = clock + 1
  BY DEF IInv, Tick
<1>2. RunsOK(runs, active, clock') /\ PlaybooksOK(playbookRuns, stages, clock')
  BY <1>1, LaterRunsOK, LaterPlaybooksOK DEF IInv
<1> QED BY <1>1, <1>2 DEF Tick, IInv, playbookVars, Contributing

LEMMA NextOK == IInv /\ [Next]_engineVars => IInv'
<1> SUFFICES ASSUME IInv, [Next]_engineVars PROVE IInv'
  OBVIOUS
<1>1. CASE RunStep
  <2>1. PICK r \in RunIds :
          \/ \E a \in Actions, i \in Intensities, d \in Durations : BeginRun(r, a, i, d, None)
          \/ \E p \in PlaybookRunIds, s \in Stages : RequestForStage(r, p, s)
          \/ ActivateRun(r)
          \/ FailRun(r)
    BY <1>1 DEF RunStep
  <2>2. CASE \E a \in Actions, i \in Intensities, d \in Durations : BeginRun(r, a, i, d, None)
    BY <2>2, BeginRunOK DEF Owner
  <2>3. ASSUME NEW p \in PlaybookRunIds, NEW s \in Stages, RequestForStage(r, p, s)
        PROVE  IInv'
    <3>1. playbookRuns[p].definition \in Definition
      BY <2>3, EngineAssumption DEF RequestForStage, IInv, PlaybooksOK, PlaybookOK
    <3>2. /\ playbookRuns[p].definition.action[s] \in Actions
          /\ playbookRuns[p].definition.intensity[s] \in Intensities
          /\ playbookRuns[p].definition.duration[s] \in Durations
      BY <3>1 DEF Definition
    <3>3. <<p, s>> \in Owner
      BY DEF Owner
    <3> QED BY <2>3, <3>2, <3>3, BeginRunOK DEF RequestForStage
  <2> QED BY <2>1, <2>2, <2>3, ActivateRunOK, FailRunOK
<1>2. CASE StageStep
  BY <1>2, ClaimStageOK, LinkStageOK, FailStageOK, SkipStageOK DEF StageStep
<1>3. CASE PlaybookStep
  BY <1>3, StartPlaybookOK, ReplayPlaybookOK, PausePlaybookOK, ResumePlaybookOK, StopPlaybookOK
     DEF PlaybookStep
<1>4. CASE LibraryStep
  BY <1>4, LibraryOK DEF LibraryStep
<1>5. CASE StateStep
  BY <1>5, GetStateOK, UpdatePatternsOK, DuePlaybookStagesOK, SyncPlaybookRunsOK, StopAllOK,
     AbortOK DEF StateStep
<1>6. CASE Tick
  BY <1>6, TickOK
<1>7. CASE UNCHANGED engineVars
  BY <1>7 DEF engineVars, IInv, Contributing
<1> QED BY <1>1, <1>2, <1>3, <1>4, <1>5, <1>6, <1>7 DEF Next

(***************************************************************************)
(* The invariants, for every value of the constants.                       *)
(***************************************************************************)

LEMMA Invariant == Spec => []IInv
BY InitOK, NextOK, PTL DEF Spec

(* The state file keeps its shape: in particular the paused time of a      *)
(* playbook run never becomes negative.                                    *)
THEOREM TypeCorrect == Spec => []TypeOK
BY Invariant, IInvImplies, PTL

(* active_actions, the run records and the published conditions agree in   *)
(* every state a client can read.                                          *)
THEOREM ViewsStayMatched == Spec => []ViewsAgree
<1>1. IInv => ViewsAgree
  BY IInvImplies DEF ViewsAgree
<1> QED
  BY <1>1, Invariant, PTL

(* However a playbook run ends, none of its stages can still start.        *)
THEOREM EndedPlaybooksStaySettled == Spec => []EndedPlaybooksSettled
BY Invariant, IInvImplies, PTL

(* A completed run was in force until it expired.                          *)
THEOREM CompletedRunsRanTheirTime == Spec => []CompletedRanItsTime
BY Invariant, IInvImplies, PTL

(***************************************************************************)
(* What has ended stays ended.                                             *)
(***************************************************************************)

EndedRunsKept ==
  \A r \in RunIds : runs[r].status \in TerminalRun => runs'[r].status = runs[r].status

EndedPlaybooksKept ==
  \A p \in PlaybookRunIds :
    playbookRuns[p].status \in TerminalRun =>
      playbookRuns'[p].status = playbookRuns[p].status

(* An ended stage keeps its outcome in ss, but for those of S, which may   *)
(* have failed.                                                            *)
EndedStagesKeptIn(ss, S) ==
  \A p \in PlaybookRunIds, s \in Stages :
    stages[p][s].status \in TerminalStage =>
      \/ ss[p][s].status = stages[p][s].status
      \/ <<p, s>> \in S /\ ss[p][s].status = "failed"

(* What an ended playbook run, run or stage came to is kept in a step.     *)
OutcomesKeptBut(S) ==
  EndedRunsKept /\ EndedPlaybooksKept /\ EndedStagesKeptIn(stages', S)

LEMMA FinishKeepsEnded ==
  ASSUME IInv, NEW S \in SUBSET RunsInForce(active), NEW st, Finish(S, st)
  PROVE  EndedRunsKept
<1>1. \A r \in S : r \in RunIds /\ runs[r].status = "active"
  BY DEF RunsInForce, IInv, RunsOK
<1> QED BY <1>1 DEF Finish, Ended, EndedRunsKept

LEMMA SyncKeepsEnded ==
  ASSUME IInv, NEW ss \in [PlaybookRunIds -> [Stages -> Stage]], NEW S,
         EndedStagesKeptIn(ss, S), SyncPlaybooksFrom(ss)
  PROVE  EndedPlaybooksKept /\ EndedStagesKeptIn(stages', S)
<1> DEFINE synced == SyncedStages(runs', playbookRuns, ss)
<1>1. /\ stages' = synced
      /\ playbookRuns' = SyncedPlaybooks(playbookRuns, synced)
  BY DEF SyncPlaybooksFrom
<1>2. EndedPlaybooksKept
  <2> HIDE DEF synced
  <2> QED BY <1>1 DEF EndedPlaybooksKept, SyncedPlaybooks
<1>3. \A p \in PlaybookRunIds, s \in Stages :
        ss[p][s].status \in TerminalStage => synced[p][s].status = ss[p][s].status
  BY SyncedStageOK DEF SyncedStages
<1>4. EndedStagesKeptIn(stages', S)
  <2> HIDE DEF synced
  <2> QED BY <1>1, <1>3 DEF EndedStagesKeptIn, TerminalStage
<1> QED BY <1>2, <1>4

LEMMA SyncKeepsOutcomes ==
  ASSUME IInv, NEW ss \in [PlaybookRunIds -> [Stages -> Stage]],
         EndedStagesKeptIn(ss, {}), SyncPlaybooksFrom(ss)
  PROVE  EndedPlaybooksKept /\ EndedStagesKeptIn(stages', {})
BY SyncKeepsEnded

LEMMA StoppedStagesKept ==
  ASSUME NEW ps \in [Stages -> Stage], NEW s \in Stages, ps[s].status \in TerminalStage
  PROVE  StoppedStages(ps)[s] = ps[s]
BY DEF StoppedStages

(* Every call but that of a failing stage ... *)
FailsNoStage ==
  \/ RunStep \/ PlaybookStep \/ LibraryStep \/ StateStep \/ Tick
  \/ UNCHANGED engineVars
  \/ \E p \in PlaybookRunIds, s \in Stages :
       ClaimStage(p, s) \/ SkipStage(p, s) \/ \E r \in RunIds : LinkStage(p, s, r)

(* ... keeps all outcomes. *)
LEMMA StepKeepsOutcomes ==
  ASSUME IInv, FailsNoStage
  PROVE  OutcomesKeptBut({})
<1> USE DEF EndedRunsKept, EndedPlaybooksKept, EndedStagesKeptIn, OutcomesKeptBut
<1>1. /\ stages \in [PlaybookRunIds -> [Stages -> Stage]]
      /\ playbookRuns \in [PlaybookRunIds -> PlaybookRun]
      /\ runs \in [RunIds -> Run]
      /\ \A p \in PlaybookRunIds : PlaybookOK(playbookRuns[p], stages[p], clock)
  BY DEF IInv, PlaybooksOK, RunsOK
<1>2. \A S \in SUBSET RunsInForce(active), st \in TerminalRun : Finish(S, st) => EndedRunsKept
  BY FinishKeepsEnded DEF TerminalRun
<1>3. SyncPlaybooksFrom(stages) => EndedPlaybooksKept /\ EndedStagesKeptIn(stages', {})
  BY <1>1, SyncKeepsOutcomes
<1>4. UNCHANGED playbookVars => EndedPlaybooksKept /\ EndedStagesKeptIn(stages', {})
  BY DEF playbookVars
<1>5. CASE RunStep
  <2>1. PICK r \in RunIds :
          \/ \E a \in Actions, i \in Intensities, d \in Durations : BeginRun(r, a, i, d, None)
          \/ \E p \in PlaybookRunIds, s \in Stages : RequestForStage(r, p, s)
          \/ ActivateRun(r)
          \/ FailRun(r)
    BY <1>5 DEF RunStep
  <2>2. CASE ActivateRun(r)
    <3> DEFINE a        == runs[r].action
               replaced == {active[a]} \ {NoRun}
    <3>1. a \in Actions
      BY <2>2 DEF ActivateRun, IInv, RunsOK, RunOK
    <3>2. \A q \in replaced : runs[q].status = "active"
      BY <3>1 DEF IInv, RunsOK
    <3>3. EndedRunsKept
      BY <1>1, <2>2, <3>2 DEF ActivateRun, Ended
    <3> QED BY <1>4, <2>2, <3>3 DEF ActivateRun
  <2>3. CASE FailRun(r)
    BY <1>1, <1>3, <2>3 DEF FailRun
  <2>4. ASSUME NEW a, NEW i, NEW d, NEW o, BeginRun(r, a, i, d, o)
        PROVE  OutcomesKeptBut({})
    BY <1>1, <1>4, <2>4 DEF BeginRun
  <2> HIDE DEF EndedRunsKept, EndedPlaybooksKept, EndedStagesKeptIn, OutcomesKeptBut
  <2> QED BY <2>1, <2>2, <2>3, <2>4 DEF RequestForStage
<1>6. ASSUME NEW p \in PlaybookRunIds, NEW s \in Stages,
             ClaimStage(p, s) \/ SkipStage(p, s) \/ \E r \in RunIds : LinkStage(p, s, r)
      PROVE  OutcomesKeptBut({})
  <2>1. CASE ClaimStage(p, s) \/ \E r \in RunIds : LinkStage(p, s, r)
    BY <1>1, <2>1 DEF ClaimStage, ClaimAllowed, LinkStage
  <2>2. CASE SkipStage(p, s)
    <3> DEFINE skipped == [status |-> "skipped", run |-> NoRun]
               ss      == [stages EXCEPT ![p][s] = skipped]
    <3>1. ss \in [PlaybookRunIds -> [Stages -> Stage]]
      BY <1>1 DEF Stage
    <3>2. EndedStagesKeptIn(ss, {})
      BY <1>1, <2>2 DEF SkipStage
    <3>3. EndedRunsKept
      BY <1>2, <2>2 DEF SkipStage
    <3> QED BY <2>2, <3>1, <3>2, <3>3, SyncKeepsOutcomes DEF SkipStage
  <2> QED BY <1>6, <2>1, <2>2
<1>7. CASE PlaybookStep
  <2>1. PICK p \in PlaybookRunIds :
          \/ \E b \in Books : StartPlaybook(p, b)
          \/ \E q \in PlaybookRunIds : ReplayPlaybook(p, q)
          \/ PausePlaybook(p)
          \/ ResumePlaybook(p)
          \/ StopPlaybook(p)
    BY <1>7 DEF PlaybookStep
  <2>2. ASSUME NEW b, NEW d, AppendPlaybookRun(p, b, d)
        PROVE  OutcomesKeptBut({})
    BY <1>1, <2>2 DEF AppendPlaybookRun, PlaybookOK
  <2>3. CASE PausePlaybook(p) \/ ResumePlaybook(p)
    BY <1>1, <2>3 DEF PausePlaybook, ResumePlaybook
  <2>4. CASE StopPlaybook(p)
    <3>1. EndedRunsKept
      BY <1>2, <2>4 DEF StopPlaybook, StageRunsInForce
    <3>2. EndedPlaybooksKept
      BY <1>1, <2>4 DEF StopPlaybook
    <3>3. EndedStagesKeptIn(stages', {})
      BY <1>1, <2>4, StoppedStagesKept DEF StopPlaybook
    <3> QED BY <3>1, <3>2, <3>3
  <2> QED BY <2>1, <2>2, <2>3, <2>4 DEF StartPlaybook, ReplayPlaybook
<1>8. CASE LibraryStep
  BY <1>8 DEF LibraryStep, SavePlaybook, DeletePlaybook
<1>9. CASE StateStep
  <2>1. CASE GetState \/ UpdatePatterns
    <3>1. EndedRunsKept
      BY <1>2, <2>1 DEF GetState, UpdatePatterns, ReconcileExpired, Expired
    <3> QED BY <1>3, <1>4, <2>1, <3>1 DEF GetState, UpdatePatterns
  <2>2. ASSUME NEW a \in Actions, Abort(a)
        PROVE  OutcomesKeptBut({})
    <3>1. EndedRunsKept
      BY <1>2, <2>2 DEF Abort, RunsInForce
    <3> QED BY <1>3, <2>2, <3>1 DEF Abort
  <2>3. CASE SyncPlaybookRuns
    BY <1>3, <2>3 DEF SyncPlaybookRuns
  <2>4. CASE StopAll
    <3>1. EndedRunsKept
      BY <1>2, <2>4 DEF StopAll
    <3>2. EndedPlaybooksKept
      BY <1>1, <2>4 DEF StopAll
    <3>3. EndedStagesKeptIn(stages', {})
      BY <1>1, <2>4, StoppedStagesKept DEF StopAll
    <3> QED BY <3>1, <3>2, <3>3
  <2>5. CASE DuePlaybookStages
    <3>1. EndedRunsKept
      BY <1>2, <2>5 DEF DuePlaybookStages, StageRunsInForce
    <3>2. \A p \in PlaybookRunIds, s \in Stages :
            stages[p][s].status \in TerminalStage => StagesNow[p][s] = stages[p][s]
      BY <1>1, SyncedStageOK DEF StagesNow, SyncedStages
    <3>3. \A p \in PlaybookRunIds :
            playbookRuns[p].status \in TerminalRun => BooksNow[p] = playbookRuns[p]
      BY DEF BooksNow, SyncedPlaybooks
    <3>4. EndedPlaybooksKept
      BY <2>5, <3>3 DEF DuePlaybookStages, OverTime, RunningNow
    <3>5. StagesNow \in [PlaybookRunIds -> [Stages -> Stage]]
      BY SyncOK DEF StagesNow, IInv, PlaybooksOK
    <3>6. EndedStagesKeptIn(stages', {})
      BY <2>5, <3>2, <3>5, StoppedStagesKept DEF DuePlaybookStages, DependencyLost
    <3> QED BY <3>1, <3>4, <3>6
  <2> QED BY <1>9, <2>1, <2>2, <2>3, <2>4, <2>5 DEF StateStep
<1>10. CASE Tick \/ UNCHANGED engineVars
  BY <1>10 DEF Tick, playbookVars, engineVars
<1> HIDE DEF EndedRunsKept, EndedPlaybooksKept, EndedStagesKeptIn, OutcomesKeptBut
<1> QED BY <1>5, <1>6, <1>7, <1>8, <1>9, <1>10 DEF FailsNoStage

LEMMA FailKeepsOutcomes ==
  ASSUME IInv, NEW p \in PlaybookRunIds, NEW s \in Stages, FailStage(p, s)
  PROVE  OutcomesKeptBut({<<p, s>>})
<1> DEFINE ss == [stages EXCEPT ![p][s].status = "failed"]
<1>1. stages \in [PlaybookRunIds -> [Stages -> Stage]]
  BY DEF IInv, PlaybooksOK
<1>2. ss \in [PlaybookRunIds -> [Stages -> Stage]]
  <2>1. stages[p][s] \in Stage
    BY <1>1
  <2>2. [stages[p][s] EXCEPT !.status = "failed"] \in Stage
    BY <2>1 DEF Stage
  <2> QED BY <1>1, <2>2
<1>3. EndedStagesKeptIn(ss, {<<p, s>>})
  BY <1>1 DEF Stage, EndedStagesKeptIn
<1>4. EndedRunsKept /\ SyncPlaybooksFrom(ss)
  BY DEF FailStage, EndedRunsKept
<1> HIDE DEF ss
<1> QED BY <1>2, <1>3, <1>4, SyncKeepsEnded DEF OutcomesKeptBut

LEMMA NextKeepsEnded == IInv /\ [Next]_engineVars => [KeepsEnded]_engineVars
<1> SUFFICES ASSUME IInv, Next PROVE KeepsEnded
  OBVIOUS
<1>1. PICK S : OutcomesKeptBut(S)
  <2>1. ASSUME NEW p \in PlaybookRunIds, NEW s \in Stages, FailStage(p, s)
        PROVE  \E S : OutcomesKeptBut(S)
    BY <2>1, FailKeepsOutcomes
  <2> QED BY <2>1, StepKeepsOutcomes DEF Next, StageStep, FailsNoStage
<1> QED BY <1>1
    DEF OutcomesKeptBut, EndedRunsKept, EndedPlaybooksKept, EndedStagesKeptIn, KeepsEnded

(* Runs and playbook runs keep their outcome, and an ended stage never     *)
(* starts again, in every behaviour of the engine.                         *)
THEOREM EndedRunsStayEnded == Spec => EndedStaysEnded
BY Invariant, NextKeepsEnded, PTL DEF Spec, EndedStaysEnded

(***************************************************************************)
(* The clock of a playbook run counts its running time.                    *)
(***************************************************************************)

SameTimes(book, other) ==
  /\ other.started = book.started
  /\ other.pausedAt = book.pausedAt
  /\ other.totalPaused = book.totalPaused

LEMMA SameElapsed ==
  ASSUME NEW book, NEW other, SameTimes(book, other), NEW now
  PROVE  Elapsed(other, now) = Elapsed(book, now)
BY DEF SameTimes, Elapsed

(* A live playbook run never has more time behind it than has passed.      *)
LEMMA ElapsedOfLive ==
  ASSUME NEW book, NEW ps, NEW now \in Nat, PlaybookOK(book, ps, now)
  PROVE  /\ book.status = "running" =>
              Elapsed(book, now) = now - book.started - book.totalPaused
         /\ book.status = "paused" =>
              Elapsed(book, now) = book.pausedAt - book.started - book.totalPaused
         /\ Elapsed(book, now) \in Int
<1>1. /\ book.started \in Nat /\ book.totalPaused \in Nat
      /\ book.pausedAt \in Nat \cup {None}
  BY DEF PlaybookOK, PlaybookRun
<1>2. CASE book.pausedAt = None
  BY <1>1, <1>2, EngineAssumption DEF Elapsed, PlaybookOK
<1>3. CASE book.pausedAt # None
  BY <1>1, <1>3 DEF Elapsed, PlaybookOK
<1> QED BY <1>2, <1>3

LEMMA SyncedSameTimes ==
  ASSUME NEW books \in [PlaybookRunIds -> PlaybookRun], NEW ss, NEW p \in PlaybookRunIds
  PROVE  SameTimes(books[p], SyncedPlaybooks(books, ss)[p])
<1>1. \A st : SameTimes(books[p], [books[p] EXCEPT !.status = st])
  BY DEF SameTimes, PlaybookRun
<1>2. SameTimes(books[p], books[p])
  BY DEF SameTimes
<1> QED BY <1>1, <1>2 DEF SyncedPlaybooks

LEMMA NextAdvancesElapsed == IInv /\ [Next]_engineVars => [ElapsedAdvances]_engineVars
<1> SUFFICES ASSUME IInv, Next PROVE ElapsedAdvances
  OBVIOUS
<1>1. /\ clock \in Nat
      /\ playbookRuns \in [PlaybookRunIds -> PlaybookRun]
      /\ \A p \in PlaybookRunIds : PlaybookOK(playbookRuns[p], stages[p], clock)
  BY DEF IInv, PlaybooksOK
<1>2. ASSUME clock' = clock,
             \A p \in PlaybookRunIds :
               playbookRuns[p].status \in LivePlaybook =>
                 SameTimes(playbookRuns[p], playbookRuns'[p])
      PROVE  ElapsedAdvances
  <2>1. \A p \in PlaybookRunIds : Elapsed(playbookRuns[p], clock) \in Int
    BY <1>1, ElapsedOfLive
  <2> QED BY <1>1, <1>2, <2>1, SameElapsed DEF ElapsedAdvances
<1>3. (clock' = clock /\ UNCHANGED playbookRuns) => ElapsedAdvances
  BY <1>2 DEF SameTimes
<1>4. ASSUME NEW ss, SyncPlaybooksFrom(ss), clock' = clock
      PROVE  ElapsedAdvances
  BY <1>1, <1>2, <1>4, SyncedSameTimes DEF SyncPlaybooksFrom
<1>5. CASE RunStep
  BY <1>3, <1>4, <1>5
     DEF RunStep, RequestForStage, BeginRun, ActivateRun, FailRun, playbookVars
<1>6. CASE StageStep
  BY <1>3, <1>4, <1>6 DEF StageStep, ClaimStage, LinkStage, FailStage, SkipStage
<1>7. CASE PlaybookStep
  <2>1. PICK p \in PlaybookRunIds :
          \/ \E b \in Books : StartPlaybook(p, b)
          \/ \E q \in PlaybookRunIds : ReplayPlaybook(p, q)
          \/ PausePlaybook(p)
          \/ ResumePlaybook(p)
          \/ StopPlaybook(p)
    BY <1>7 DEF PlaybookStep
  <2>2. ASSUME NEW b, NEW d, AppendPlaybookRun(p, b, d)
        PROVE  ElapsedAdvances
    BY <1>1, <1>2, <2>2 DEF AppendPlaybookRun, SameTimes
  <2>3. ASSUME \A q \in PlaybookRunIds \ {p} : playbookRuns'[q] = playbookRuns[q],
               Elapsed(playbookRuns'[p], clock) = Elapsed(playbookRuns[p], clock),
               clock' = clock
        PROVE  ElapsedAdvances
    <3>1. \A q \in PlaybookRunIds : Elapsed(playbookRuns'[q], clock) = Elapsed(playbookRuns[q], clock)
      BY <2>3
    <3>2. \A q \in PlaybookRunIds : Elapsed(playbookRuns[q], clock) \in Int
      BY <1>1, ElapsedOfLive
    <3> QED BY <1>1, <2>3, <3>1, <3>2 DEF ElapsedAdvances
  <2>4. IInv'
    BY NextOK
  <2>5. PlaybookOK(playbookRuns'[p], stages'[p], clock') /\ PlaybookOK(playbookRuns[p], stages[p], clock)
    BY <1>1, <2>4 DEF IInv, PlaybooksOK
  <2>6. playbookRuns[p] \in PlaybookRun
    BY <1>1
  <2>7. CASE PausePlaybook(p)
    <3>1. /\ clock' = clock /\ playbookRuns[p].status = "running"
          /\ playbookRuns' = [playbookRuns EXCEPT ![p] =
               [playbookRuns[p] EXCEPT !.status = "paused", !.pausedAt = clock]]
      BY <1>1, <2>7 DEF PausePlaybook
    <3>2. /\ playbookRuns'[p].status = "paused" /\ playbookRuns'[p].pausedAt = clock
          /\ playbookRuns'[p].started = playbookRuns[p].started
          /\ playbookRuns'[p].totalPaused = playbookRuns[p].totalPaused
      BY <1>1, <2>6, <3>1 DEF PlaybookRun
    <3>3. Elapsed(playbookRuns'[p], clock) = Elapsed(playbookRuns[p], clock)
      <4>1. Elapsed(playbookRuns'[p], clock)
              = clock - playbookRuns[p].started - playbookRuns[p].totalPaused
        BY <1>1, <2>5, <3>1, <3>2, ElapsedOfLive
      <4>2. Elapsed(playbookRuns[p], clock)
              = clock - playbookRuns[p].started - playbookRuns[p].totalPaused
        BY <1>1, <2>5, <3>1, ElapsedOfLive
      <4> QED BY <4>1, <4>2
    <3> QED BY <1>1, <2>3, <3>1, <3>3
  <2>8. CASE ResumePlaybook(p)
    <3> DEFINE paused == playbookRuns[p].totalPaused + (clock - playbookRuns[p].pausedAt)
    <3>1. /\ clock' = clock /\ playbookRuns[p].status = "paused"
          /\ playbookRuns' = [playbookRuns EXCEPT ![p] =
               [playbookRuns[p] EXCEPT !.status = "running", !.totalPaused = paused,
                                       !.pausedAt = None]]
      BY <1>1, <2>8 DEF ResumePlaybook
    <3>2. /\ playbookRuns'[p].status = "running"
          /\ playbookRuns'[p].started = playbookRuns[p].started
          /\ playbookRuns'[p].totalPaused = paused
      BY <1>1, <2>6, <3>1 DEF PlaybookRun
    <3>3. /\ playbookRuns[p].pausedAt \in Nat /\ playbookRuns[p].started \in Nat
          /\ playbookRuns[p].totalPaused \in Nat
      BY <2>5, <3>1 DEF PlaybookOK, PlaybookRun
    <3>4. Elapsed(playbookRuns'[p], clock) = clock - playbookRuns[p].started - paused
      BY <1>1, <2>5, <3>1, <3>2, ElapsedOfLive
    <3>5. Elapsed(playbookRuns[p], clock)
            = playbookRuns[p].pausedAt - playbookRuns[p].started - playbookRuns[p].totalPaused
      BY <1>1, <2>5, <3>1, ElapsedOfLive
    <3>6. Elapsed(playbookRuns'[p], clock) = Elapsed(playbookRuns[p], clock)
      BY <1>1, <3>3, <3>4, <3>5
    <3> HIDE DEF paused
    <3> QED BY <1>1, <2>3, <3>1, <3>6
  <2>9. CASE StopPlaybook(p)
    BY <1>1, <1>2, <2>9 DEF StopPlaybook, SameTimes, PlaybookRun
  <2> QED BY <2>1, <2>2, <2>7, <2>8, <2>9 DEF StartPlaybook, ReplayPlaybook
<1>8. CASE LibraryStep
  BY <1>3, <1>8 DEF LibraryStep, SavePlaybook, DeletePlaybook
<1>9. CASE StateStep
  <2>1. CASE StopAll
    BY <1>1, <1>2, <2>1 DEF StopAll, SameTimes, PlaybookRun
  <2>2. CASE DuePlaybookStages
    <3>1. \A p \in PlaybookRunIds : SameTimes(playbookRuns[p], BooksNow[p])
      BY <1>1, SyncedSameTimes DEF BooksNow
    <3>2. PlaybooksOK(BooksNow, StagesNow, clock)
      BY SyncOK DEF BooksNow, StagesNow, IInv
    <3>3. \A p \in PlaybookRunIds : BooksNow[p] \in PlaybookRun
      BY <3>2 DEF PlaybooksOK
    <3>4. \A p \in PlaybookRunIds : SameTimes(playbookRuns[p], playbookRuns'[p])
      BY <2>2, <3>1, <3>3 DEF DuePlaybookStages, SameTimes, PlaybookRun
    <3> QED BY <1>2, <2>2, <3>4 DEF DuePlaybookStages
  <2>3. CASE UpdatePatterns
    BY <1>3, <2>3 DEF UpdatePatterns, playbookVars
  <2> QED BY <1>4, <1>9, <2>1, <2>2, <2>3
          DEF StateStep, GetState, SyncPlaybookRuns, Abort
<1>10. CASE Tick
  <2>1. /\ clock' = clock + 1 /\ playbookRuns' = playbookRuns /\ stages' = stages
    BY <1>10 DEF Tick, playbookVars
  <2>2. \A p \in PlaybookRunIds : PlaybookOK(playbookRuns[p], stages[p], clock + 1)
    BY <1>1, LaterPlaybooksOK DEF IInv, PlaybooksOK
  <2>3. ASSUME NEW p \in PlaybookRunIds, playbookRuns[p].status \in LivePlaybook
        PROVE  Elapsed(playbookRuns[p], clock + 1) - Elapsed(playbookRuns[p], clock)
                 = IF playbookRuns[p].status = "running" THEN 1 ELSE 0
    <3>1. playbookRuns[p].started \in Nat /\ playbookRuns[p].totalPaused \in Nat
      BY <1>1 DEF PlaybookRun
    <3>2. CASE playbookRuns[p].status = "running"
      BY <1>1, <2>2, <3>1, <3>2, ElapsedOfLive
    <3>3. CASE playbookRuns[p].status = "paused"
      BY <1>1, <2>2, <3>1, <3>3, ElapsedOfLive
    <3> QED BY <2>3, <3>2, <3>3
  <2> QED BY <1>1, <2>1, <2>3 DEF ElapsedAdvances
<1> QED BY <1>5, <1>6, <1>7, <1>8, <1>9, <1>10 DEF Next

(* A playbook's own clock runs while the playbook runs and stands still    *)
(* while it is paused, however often it is paused and resumed.             *)
THEOREM ElapsedCountsRunningTime == Spec => ElapsedIsRunningTime
BY Invariant, NextAdvancesElapsed, PTL DEF Spec, ElapsedIsRunningTime

(***************************************************************************)
(* The engine implements FaultLifecycle.                                   *)
(***************************************************************************)

(* Ending any runs in force is one step of FaultLifecycle.                 *)
LEMMA FinishIsEnd ==
  ASSUME IInv, NEW S \in SUBSET RunsInForce(active), NEW st \in TerminalRun, Finish(S, st)
  PROVE  Lifecycle!Next
<1>1. S \subseteq RunIds /\ \A r \in S : runs[r].status = "active"
  BY DEF RunsInForce, IInv, RunsOK
<1>2. \A r \in RunIds :
        /\ runs'[r].status = IF r \in S THEN st ELSE runs[r].status
        /\ runs'[r].action = runs[r].action
  BY <1>1 DEF Finish, Ended, IInv, RunsOK, Run
<1>3. Lifecycle!End(S)
  BY <1>1, <1>2 DEF Lifecycle!End, PhaseOf
<1> QED BY <1>1, <1>3 DEF Lifecycle!Next

LEMMA BeginIsRequest ==
  ASSUME IInv, NEW r \in RunIds, NEW a \in Actions, NEW i, NEW d, NEW o,
         BeginRun(r, a, i, d, o)
  PROVE  Lifecycle!Next
<1>1. Lifecycle!Request(r, a)
  BY DEF BeginRun, Lifecycle!Request, PhaseOf, IInv, RunsOK
<1> QED BY <1>1 DEF Lifecycle!Next

LEMMA ActivateIsApply ==
  ASSUME IInv, NEW r \in RunIds, ActivateRun(r)
  PROVE  Lifecycle!Next
<1> DEFINE a        == runs[r].action
           replaced == {active[a]} \ {NoRun}
<1>1. a \in Actions /\ runs[r].status = "pending" /\ runs \in [RunIds -> Run]
  BY DEF ActivateRun, IInv, RunsOK, RunOK
<1>2. \A q \in RunIds :
        q \in replaced <=> runs[q].status = "active" /\ runs[q].action = a
  BY <1>1 DEF IInv, RunsOK, RunIds
<1>3. \A q \in RunIds :
        /\ runs'[q].status = IF q = r THEN "active"
                             ELSE IF q \in replaced THEN "aborted" ELSE runs[q].status
        /\ runs'[q].action = runs[q].action
  <2> DEFINE ended   == Ended(runs, replaced, "aborted")
             expires == clock + runs[r].duration
  <2>1. \A q \in RunIds :
          /\ ended[q].status = IF q \in replaced THEN "aborted" ELSE runs[q].status
          /\ ended[q].action = runs[q].action
    BY <1>1 DEF Ended, Run
  <2>2. ended \in [RunIds -> Run]
    BY <1>1, EndedType
  <2>3. runs' = [ended EXCEPT ![r] =
                   [ended[r] EXCEPT !.status = "active", !.expires = expires]]
    BY <2>2 DEF ActivateRun
  <2> HIDE DEF ended, expires, replaced
  <2> QED BY <2>1, <2>2, <2>3 DEF Run
<1>4. Lifecycle!Apply(r)
  <2> HIDE DEF replaced
  <2> QED BY <1>1, <1>2, <1>3 DEF Lifecycle!Apply, PhaseOf
<1> QED BY <1>4 DEF Lifecycle!Next

LEMMA FailIsReject ==
  ASSUME IInv, NEW r \in RunIds, FailRun(r)
  PROVE  Lifecycle!Next
<1>1. runs \in [RunIds -> Run]
  BY DEF IInv, RunsOK
<1>2. Lifecycle!Reject(r)
  BY <1>1 DEF FailRun, Lifecycle!Reject, PhaseOf, Run
<1> QED BY <1>2 DEF Lifecycle!Next

LEMMA StepImplements == IInv /\ [Next]_engineVars => [Lifecycle!Next]_(Lifecycle!vars)
<1> SUFFICES ASSUME IInv, [Next]_engineVars PROVE Lifecycle!Next \/ UNCHANGED Lifecycle!vars
  OBVIOUS
<1>1. UNCHANGED runs => UNCHANGED Lifecycle!vars
  BY DEF Lifecycle!vars
<1>2. CASE RunStep
  <2>1. PICK r \in RunIds :
          \/ \E a \in Actions, i \in Intensities, d \in Durations : BeginRun(r, a, i, d, None)
          \/ \E p \in PlaybookRunIds, s \in Stages : RequestForStage(r, p, s)
          \/ ActivateRun(r)
          \/ FailRun(r)
    BY <1>2 DEF RunStep
  <2>2. ASSUME NEW p \in PlaybookRunIds, NEW s \in Stages, RequestForStage(r, p, s)
        PROVE  Lifecycle!Next
    <3>1. playbookRuns[p].definition.action[s] \in Actions
      BY <2>2, EngineAssumption DEF RequestForStage, IInv, PlaybooksOK, PlaybookOK, Definition
    <3> QED BY <2>2, <3>1, BeginIsRequest DEF RequestForStage
  <2> QED BY <2>1, <2>2, BeginIsRequest, ActivateIsApply, FailIsReject
<1>3. CASE StageStep
  <2>1. ASSUME NEW p \in PlaybookRunIds, NEW s \in Stages, SkipStage(p, s)
        PROVE  Lifecycle!Next
    BY <2>1, FinishIsEnd DEF SkipStage
  <2> QED BY <1>1, <1>3, <2>1 DEF StageStep, ClaimStage, LinkStage, FailStage
<1>4. CASE PlaybookStep
  <2>1. ASSUME NEW p \in PlaybookRunIds, StopPlaybook(p)
        PROVE  Lifecycle!Next
    BY <2>1, FinishIsEnd DEF StopPlaybook, StageRunsInForce
  <2> QED BY <1>1, <1>4, <2>1
          DEF PlaybookStep, StartPlaybook, ReplayPlaybook, AppendPlaybookRun,
              PausePlaybook, ResumePlaybook
<1>5. CASE LibraryStep
  BY <1>1, <1>5 DEF LibraryStep, SavePlaybook, DeletePlaybook
<1>6. CASE StateStep
  <2>1. CASE GetState \/ UpdatePatterns
    BY <2>1, FinishIsEnd DEF GetState, UpdatePatterns, ReconcileExpired, Expired
  <2>2. ASSUME NEW a \in Actions, Abort(a)
        PROVE  Lifecycle!Next
    BY <2>2, FinishIsEnd DEF Abort, RunsInForce
  <2>3. CASE StopAll
    BY <2>3, FinishIsEnd DEF StopAll
  <2>4. CASE DuePlaybookStages
    BY <2>4, FinishIsEnd DEF DuePlaybookStages, StageRunsInForce
  <2> QED BY <1>1, <1>6, <2>1, <2>2, <2>3, <2>4 DEF StateStep, SyncPlaybookRuns
<1>7. CASE Tick
  BY <1>1, <1>7 DEF Tick
<1>8. CASE UNCHANGED engineVars
  BY <1>1, <1>8 DEF engineVars
<1> QED BY <1>2, <1>3, <1>4, <1>5, <1>6, <1>7, <1>8 DEF Next

(* Every behaviour of the engine is a behaviour of FaultLifecycle: a run   *)
(* is applied at most once, and no fault is in force for two runs.         *)
THEOREM EngineImplementsLifecycle == Spec => ImplementsLifecycle
<1>1. Init => Lifecycle!Init
  BY DEF Init, Lifecycle!Init, PhaseOf, AbsentRun
<1> QED BY <1>1, Invariant, StepImplements, PTL DEF Spec, Lifecycle!Spec, ImplementsLifecycle

(***************************************************************************)
(* What FaultLifecycle itself promises.                                    *)
(***************************************************************************)

LEMMA LifecycleTyped == Lifecycle!TypeOK /\ [Lifecycle!Next]_(Lifecycle!vars) => Lifecycle!TypeOK'
<1> SUFFICES ASSUME Lifecycle!TypeOK, [Lifecycle!Next]_(Lifecycle!vars) PROVE Lifecycle!TypeOK'
  OBVIOUS
<1>1. ASSUME NEW r \in RunIds, NEW f \in Actions, Lifecycle!Request(r, f)
      PROVE  Lifecycle!TypeOK'
  BY <1>1 DEF Lifecycle!TypeOK, Lifecycle!Request
<1>2. ASSUME NEW r \in RunIds, Lifecycle!Apply(r) \/ Lifecycle!Reject(r)
      PROVE  Lifecycle!TypeOK'
  BY <1>2 DEF Lifecycle!TypeOK, Lifecycle!Apply, Lifecycle!Reject
<1>3. ASSUME NEW S \in SUBSET RunIds, Lifecycle!End(S)
      PROVE  Lifecycle!TypeOK'
  BY <1>3 DEF Lifecycle!TypeOK, Lifecycle!End
<1>4. CASE UNCHANGED Lifecycle!vars
  BY <1>4 DEF Lifecycle!vars, Lifecycle!TypeOK
<1> QED BY <1>1, <1>2, <1>3, <1>4 DEF Lifecycle!Next

LEMMA OneRunPerFaultKept ==
  Lifecycle!TypeOK /\ Lifecycle!OneRunPerFault /\ [Lifecycle!Next]_(Lifecycle!vars)
    => Lifecycle!OneRunPerFault'
<1> SUFFICES ASSUME Lifecycle!TypeOK, Lifecycle!OneRunPerFault, [Lifecycle!Next]_(Lifecycle!vars)
             PROVE  Lifecycle!OneRunPerFault'
  OBVIOUS
<1>1. ASSUME NEW r \in RunIds, NEW f \in Actions, Lifecycle!Request(r, f)
      PROVE  Lifecycle!OneRunPerFault'
  <2>1. PhaseOf(runs[r].status) = "idle"
    BY <1>1 DEF Lifecycle!Request
  <2>2. \A q \in RunIds :
          /\ PhaseOf(runs'[q].status) = IF q = r THEN "requested" ELSE PhaseOf(runs[q].status)
          /\ runs'[q].action = IF q = r THEN f ELSE runs[q].action
    BY <1>1 DEF Lifecycle!Request
  <2> QED BY <2>1, <2>2 DEF Lifecycle!OneRunPerFault
<1>2. ASSUME NEW r \in RunIds, Lifecycle!Apply(r)
      PROVE  Lifecycle!OneRunPerFault'
  BY <1>2 DEF Lifecycle!TypeOK, Lifecycle!OneRunPerFault, Lifecycle!Apply
<1>3. ASSUME NEW r \in RunIds, Lifecycle!Reject(r)
      PROVE  Lifecycle!OneRunPerFault'
  <2>1. \A q \in RunIds :
          /\ PhaseOf(runs'[q].status) = IF q = r THEN "over" ELSE PhaseOf(runs[q].status)
          /\ runs'[q].action = runs[q].action
    BY <1>3 DEF Lifecycle!Reject
  <2> QED BY <2>1 DEF Lifecycle!OneRunPerFault
<1>4. ASSUME NEW S \in SUBSET RunIds, Lifecycle!End(S)
      PROVE  Lifecycle!OneRunPerFault'
  BY <1>4 DEF Lifecycle!TypeOK, Lifecycle!OneRunPerFault, Lifecycle!End
<1>5. CASE UNCHANGED Lifecycle!vars
  BY <1>5 DEF Lifecycle!vars, Lifecycle!OneRunPerFault
<1> QED BY <1>1, <1>2, <1>3, <1>4, <1>5 DEF Lifecycle!Next

(* No fault is ever applied by two runs at a time. *)
THEOREM FaultsAreExclusive == Lifecycle!Spec => []Lifecycle!OneRunPerFault
<1>1. Lifecycle!Init => Lifecycle!TypeOK /\ Lifecycle!OneRunPerFault
  BY DEF Lifecycle!Init, Lifecycle!TypeOK, Lifecycle!OneRunPerFault
<1> QED BY <1>1, LifecycleTyped, OneRunPerFaultKept, PTL DEF Lifecycle!Spec

(***************************************************************************)
(* The library holds no dependency cycle.                                  *)
(***************************************************************************)

(* The stages resolved in a round, after those of the rounds before. *)
Ready(dependsOn, done) == done \cup {s \in Stages : dependsOn[s] \subseteq done}

(* The rounds of validate_dependency_graph, as a recursive function.       *)
Rounds(dependsOn, g) ==
  g = [n \in Nat |-> IF n = 0 THEN {} ELSE Ready(dependsOn, g[n - 1])]
RoundsOf(dependsOn) == CHOOSE g : Rounds(dependsOn, g)

LEMMA ResolvedUnfold ==
  ASSUME NEW dependsOn
  PROVE  Resolved(dependsOn) = RoundsOf(dependsOn)[Cardinality(Stages)]
BY DEF Resolved, RoundsOf, Rounds, Ready

LEMMA RoundsExist ==
  ASSUME NEW dependsOn
  PROVE  LET g == RoundsOf(dependsOn)
         IN  /\ g \in [Nat -> SUBSET Stages]
             /\ g[0] = {}
             /\ \A n \in Nat : g[n + 1] = Ready(dependsOn, g[n])
<1> DEFINE f == [done \in SUBSET Stages |-> Ready(dependsOn, done)]
           X == SUBSET Stages
<1>1. f \in [X -> X] /\ {} \in X
  BY DEF Ready
<1>2. PICK g \in [Nat -> X] : g[0] = {} /\ \A n \in Nat : g[n + 1] = f[g[n]]
  <2>1. PICK x0 \in X : x0 = {}
    BY <1>1
  <2> HIDE DEF f, X
  <2>2. PICK g \in [Nat -> X] : g[0] = x0 /\ \A n \in Nat : g[n + 1] = f[g[n]]
    BY <1>1, IterationsExist
  <2> QED BY <2>1, <2>2
<1>3. Rounds(dependsOn, g)
  <2>1. \A n \in Nat : n # 0 => g[n] = Ready(dependsOn, g[n - 1])
    <3> SUFFICES ASSUME NEW n \in Nat, n # 0 PROVE g[n] = Ready(dependsOn, g[n - 1])
      OBVIOUS
    <3>1. n - 1 \in Nat /\ (n - 1) + 1 = n
      OBVIOUS
    <3>2. g[n] = f[g[n - 1]] /\ g[n - 1] \in SUBSET Stages
      BY <1>2, <3>1
    <3> QED BY <3>2
  <2> QED BY <1>2, <2>1 DEF Rounds
<1>4. Rounds(dependsOn, RoundsOf(dependsOn))
  BY <1>3 DEF RoundsOf
<1> DEFINE h == RoundsOf(dependsOn)
<1>5. \A n \in Nat : h[n] = IF n = 0 THEN {} ELSE Ready(dependsOn, h[n - 1])
  <2> HIDE DEF h
  <2> QED BY <1>4 DEF Rounds, h
<1>6. h[0] = {} /\ \A n \in Nat : h[n + 1] = Ready(dependsOn, h[n])
  <2>1. \A n \in Nat : n + 1 \in Nat /\ n + 1 # 0 /\ (n + 1) - 1 = n
    OBVIOUS
  <2> HIDE DEF h
  <2> QED BY <1>5, <2>1
<1>7. h \in [Nat -> SUBSET Stages]
  <2>1. DOMAIN h = Nat /\ h = [n \in Nat |-> h[n]]
    <3> HIDE DEF h
    <3> QED BY <1>4 DEF Rounds, h
  <2>2. \A n \in Nat : h[n] \subseteq Stages
    <3> DEFINE N == {n \in Nat : h[n] \subseteq Stages}
    <3> HIDE DEF h
    <3>1. 0 \in N
      BY <1>6
    <3>2. \A n \in Nat : n \in N => n + 1 \in N
      BY <1>6 DEF Ready
    <3>3. Nat \subseteq N
      <4> HIDE DEF N
      <4> QED BY <3>1, <3>2, NaturalsFromZero
    <3> QED BY <3>3
  <2> HIDE DEF h
  <2> QED BY <2>1, <2>2
<1> HIDE DEF h
<1> QED BY <1>6, <1>7 DEF h

(* A stage depends only on stages that an earlier round resolved: the      *)
(* member of a set that is resolved first depends on none of the set.      *)
LEMMA ResolvedIsAcyclic ==
  ASSUME NEW dependsOn, Resolved(dependsOn) = Stages
  PROVE  Acyclic(dependsOn)
<1> DEFINE g == RoundsOf(dependsOn)
<1>1. /\ g \in [Nat -> SUBSET Stages] /\ g[0] = {}
      /\ \A n \in Nat : g[n + 1] = Ready(dependsOn, g[n])
      /\ g[Cardinality(Stages)] = Stages
  BY RoundsExist, ResolvedUnfold
<1> HIDE DEF g
<1>2. Cardinality(Stages) \in Nat
  BY EngineAssumption, FS_CardinalityType
<1> SUFFICES ASSUME NEW S \in (SUBSET Stages) \ {{}}
             PROVE  \E s \in S : dependsOn[s] \cap S = {}
  BY DEF Acyclic
<1> DEFINE N == {n \in Nat : g[n] \cap S # {}}
<1>3. N # {}
  BY <1>1, <1>2
<1>4. PICK n \in N : \A m \in N : n <= m
  <2> HIDE DEF g
  <2> QED BY <1>3, LeastNatural
<1>5. n - 1 \in Nat /\ g[n - 1] \cap S = {} /\ g[n] = Ready(dependsOn, g[n - 1])
  <2>1. n \in Nat /\ n # 0
    BY <1>1
  <2>2. n - 1 \in Nat /\ (n - 1) + 1 = n /\ ~ (n <= n - 1)
    BY <2>1
  <2>3. n - 1 \notin N
    BY <1>4, <2>2
  <2> QED BY <1>1, <2>2, <2>3
<1>6. PICK s \in S : s \in g[n]
  OBVIOUS
<1>7. dependsOn[s] \subseteq g[n - 1]
  BY <1>5, <1>6 DEF Ready
<1> QED BY <1>5, <1>7

(* As long as a stage is left, a round resolves another one.               *)
LEMMA AcyclicIsResolved ==
  ASSUME NEW dependsOn \in [Stages -> SUBSET Stages], Acyclic(dependsOn)
  PROVE  Resolved(dependsOn) = Stages
<1> DEFINE g == RoundsOf(dependsOn)
           N == {n \in Nat : g[n] = Stages \/ n <= Cardinality(g[n])}
<1>1. /\ g \in [Nat -> SUBSET Stages] /\ g[0] = {}
      /\ \A n \in Nat : g[n + 1] = Ready(dependsOn, g[n])
      /\ g[Cardinality(Stages)] = Resolved(dependsOn)
  BY RoundsExist, ResolvedUnfold
<1> HIDE DEF g
<1>2. Cardinality(Stages) \in Nat /\ IsFiniteSet(Stages)
  BY EngineAssumption, FS_CardinalityType
<1>3. \A A \in SUBSET Stages :
        /\ IsFiniteSet(A) /\ Cardinality(A) \in Nat
        /\ Cardinality(A) <= Cardinality(Stages)
        /\ Cardinality(A) = Cardinality(Stages) => A = Stages
  BY <1>2, FS_Subset, FS_CardinalityType
<1>4. 0 \in N
  BY <1>1, FS_EmptySet
<1>5. ASSUME NEW n \in Nat, n \in N
      PROVE  n + 1 \in N
  <2>1. CASE g[n] = Stages
    <3>1. g[n + 1] = Stages
      BY <1>1, <2>1 DEF Ready
    <3> QED BY <3>1
  <2>2. CASE g[n] # Stages
    <3>1. PICK s \in Stages \ g[n] : dependsOn[s] \cap (Stages \ g[n]) = {}
      BY <1>1, <2>2 DEF Acyclic
    <3>2. g[n] \cup {s} \subseteq g[n + 1] /\ s \notin g[n]
      BY <1>1, <3>1 DEF Ready
    <3>3. /\ IsFiniteSet(g[n]) /\ IsFiniteSet(g[n + 1]) /\ g[n + 1] \in SUBSET Stages
          /\ Cardinality(g[n]) \in Nat /\ Cardinality(g[n + 1]) \in Nat
      BY <1>1, <1>3
    <3>4. Cardinality(g[n] \cup {s}) = Cardinality(g[n]) + 1
      BY <3>2, <3>3, FS_AddElement
    <3>5. Cardinality(g[n] \cup {s}) <= Cardinality(g[n + 1])
      BY <3>2, <3>3, FS_Subset
    <3> QED BY <1>5, <2>2, <3>3, <3>4, <3>5
  <2> QED BY <2>1, <2>2
<1>6. Cardinality(Stages) \in N
  <2> HIDE DEF N
  <2> QED BY <1>2, <1>4, <1>5, NaturalsFromZero
<1>7. g[Cardinality(Stages)] \in SUBSET Stages
  BY <1>1, <1>2
<1> QED BY <1>1, <1>3, <1>6, <1>7

(* validate_dependency_graph refuses the dependency graphs with a cycle    *)
(* and no others.                                                          *)
THEOREM ValidatorExact ==
  \A dependsOn \in [Stages -> SUBSET Stages] :
    Resolved(dependsOn) = Stages <=> Acyclic(dependsOn)
BY ResolvedIsAcyclic, AcyclicIsResolved

LibraryValid == \A b \in Books : library[b] # None => ValidDefinition(library[b])

LEMMA LibraryKept == IInv /\ LibraryValid /\ [Next]_engineVars => LibraryValid'
<1> SUFFICES ASSUME IInv, LibraryValid, [Next]_engineVars PROVE LibraryValid'
  OBVIOUS
<1>1. CASE UNCHANGED library
  BY <1>1 DEF LibraryValid
<1>2. CASE LibraryStep
  <2>1. PICK b \in Books :
          DeletePlaybook(b) \/ \E d \in Definitions : SavePlaybook(b, d)
    BY <1>2 DEF LibraryStep
  <2>2. CASE DeletePlaybook(b)
    BY <2>2 DEF DeletePlaybook, LibraryValid, IInv
  <2>3. ASSUME NEW d \in Definitions, SavePlaybook(b, d)
        PROVE  LibraryValid'
    <3> HIDE DEF ValidDefinition
    <3> QED BY <2>3 DEF SavePlaybook, LibraryValid, IInv
  <2> QED BY <2>1, <2>2, <2>3
<1>3. [Next]_engineVars => UNCHANGED library \/ LibraryStep
  BY DEF Next, engineVars, playbookVars, RunStep, RequestForStage, BeginRun, ActivateRun, FailRun,
         StageStep, ClaimStage, LinkStage, FailStage, SkipStage,
         PlaybookStep, StartPlaybook, ReplayPlaybook, AppendPlaybookRun, PausePlaybook,
         ResumePlaybook, StopPlaybook, StateStep, GetState, UpdatePatterns, DuePlaybookStages,
         SyncPlaybookRuns, StopAll, Abort, Tick
<1> QED BY <1>1, <1>2, <1>3

(* The library never holds a playbook whose stages wait for one another.   *)
THEOREM LibraryStaysAcyclic == Spec => []LibraryAcyclic
<1>1. Init => LibraryValid
  BY DEF Init, LibraryValid
<1>2. LibraryValid => LibraryAcyclic
  BY ResolvedIsAcyclic DEF LibraryValid, ValidDefinition, Acyclic, LibraryAcyclic
<1> QED BY <1>1, <1>2, Invariant, LibraryKept, PTL DEF Spec

(***************************************************************************)
(* The budgets of a playbook.                                              *)
(*                                                                         *)
(* A claim counts the runs in force, not the stages that are linked to     *)
(* them.  That it does not miss one rests on OwnersOK: a stage that is     *)
(* under way is linked to the one run that was requested for it, with the  *)
(* intensity of its definition, so that the stages of a playbook that are  *)
(* linked to runs in force are at most as many, and as severe, as those    *)
(* runs.                                                                   *)
(***************************************************************************)

OwnedRunOK(run) ==
  \A p \in PlaybookRunIds, s \in Stages :
    run.owner = <<p, s>> =>
      /\ run.status # "absent"
      /\ playbookRuns[p].status # "absent"
      /\ stages[p][s].status # "pending"
      /\ run.intensity = playbookRuns[p].definition.intensity[s]

Begun == {r \in RunIds : runs[r].status \notin {"absent", "pending"}}

LinkedStageOK(p, s) ==
  stages[p][s].status = "active" =>
    /\ stages[p][s].run \in Begun
    /\ runs[stages[p][s].run].owner = <<p, s>>

OwnersOK ==
  /\ \A r \in RunIds : runs[r].status # "absent" => runs[r].intensity \in Intensities
  /\ \A r \in RunIds : OwnedRunOK(runs[r])
  /\ \A q, r \in RunIds : runs[q].owner = runs[r].owner /\ runs[r].owner # None => q = r
  /\ \A p \in PlaybookRunIds, s \in Stages : LinkedStageOK(p, s)

BudgetKept(p) ==
  LET d == playbookRuns[p].definition
  IN  /\ Cardinality(Occupying(p)) <= d.maxConcurrent
      /\ SumFunctionOnSet(StagePoints(d), Occupying(p)) <= d.maxSeverity

LEMMA BudgetsPerPlaybook ==
  BudgetsRespected <=>
    \A p \in PlaybookRunIds : playbookRuns[p].status # "absent" => BudgetKept(p)
BY DEF BudgetsRespected, BudgetKept

(* Intensities have points, and only finitely many things have any. *)
LEMMA PointsType ==
  ASSUME IInv, OwnersOK
  PROVE  /\ \A p \in PlaybookRunIds : playbookRuns[p].status # "absent" =>
              /\ playbookRuns[p].definition \in Definition
              /\ \A s \in Stages : StagePoints(playbookRuns[p].definition)[s] \in Nat
         /\ \A r \in RunsInForce(active) : r \in RunIds /\ RunPoints(runs)[r] \in Nat
         /\ IsFiniteSet(Stages) /\ IsFiniteSet(RunsInForce(active))
<1>1. \A i \in Intensities : Severity(i) \in Nat
  <2> SUFFICES ASSUME NEW i \in {"low", "medium", "high"} PROVE Severity(i) \in Nat
    BY EngineAssumption
  <2>1. Severity("low") = 1 /\ Severity("medium") = 2 /\ Severity("high") = 3
    BY DEF Severity, SeverityPoints
  <2> QED BY <2>1
<1>2. ASSUME NEW p \in PlaybookRunIds, playbookRuns[p].status # "absent"
      PROVE  /\ playbookRuns[p].definition \in Definition
             /\ \A s \in Stages : StagePoints(playbookRuns[p].definition)[s] \in Nat
  <2>1. playbookRuns[p].definition \in Definition
    BY <1>2, EngineAssumption DEF IInv, PlaybooksOK, PlaybookOK
  <2>2. \A s \in Stages : playbookRuns[p].definition.intensity[s] \in Intensities
    BY <2>1 DEF Definition
  <2> QED BY <1>1, <2>1, <2>2 DEF StagePoints
<1>3. \A r \in RunsInForce(active) : r \in RunIds /\ RunPoints(runs)[r] \in Nat
  <2>1. \A r \in RunsInForce(active) : r \in RunIds /\ runs[r].status = "active"
    BY DEF IInv, RunsOK, RunsInForce
  <2> QED BY <1>1, <2>1 DEF OwnersOK, RunPoints
<1>4. IsFiniteSet(RunsInForce(active))
  <2>1. IsFiniteSet(RunIds)
    BY EngineAssumption, FS_Interval DEF RunIds
  <2> QED BY <1>3, <2>1, FS_Subset
<1> QED BY <1>2, <1>3, <1>4, EngineAssumption

(* The linked stages of a playbook, and the runs they are linked to.       *)
Linked(p) ==
  {s \in Stages : stages[p][s].status = "active" /\ stages[p][s].run \in RunsInForce(active)}

LEMMA LinkedWithinForce ==
  ASSUME IInv, OwnersOK, NEW p \in PlaybookRunIds, playbookRuns[p].status # "absent"
  PROVE  LET d == playbookRuns[p].definition
         IN  /\ IsFiniteSet(Linked(p))
             /\ Cardinality(Linked(p)) <= Cardinality(RunsInForce(active))
             /\ SumFunctionOnSet(StagePoints(d), Linked(p))
                  <= SumFunctionOnSet(RunPoints(runs), RunsInForce(active))
<1> DEFINE d     == playbookRuns[p].definition
           force == RunsInForce(active)
           f     == [s \in Linked(p) |-> stages[p][s].run]
           w     == StagePoints(d)
           v     == RunPoints(runs)
<1>1. /\ IsFiniteSet(Stages) /\ IsFiniteSet(force)
      /\ \A r \in force : r \in RunIds /\ v[r] \in Nat
  BY PointsType
<1>2. IsFiniteSet(Linked(p)) /\ Linked(p) \subseteq Stages
  BY <1>1, FS_Subset DEF Linked
<1>3. f \in [Linked(p) -> force]
  BY DEF Linked
<1>4. \A s \in Linked(p) : f[s] \in RunIds /\ runs[f[s]].owner = <<p, s>>
  BY <1>1, <1>3 DEF OwnersOK, LinkedStageOK, Linked
<1>5. \A s, t \in Linked(p) : f[s] = f[t] => s = t
  BY <1>4
<1>6. \A s \in Linked(p) : w[s] = v[f[s]]
  <2> SUFFICES ASSUME NEW s \in Linked(p) PROVE w[s] = v[f[s]]
    OBVIOUS
  <2>1. runs[f[s]].intensity = d.intensity[s]
    BY <1>2, <1>4 DEF OwnersOK, OwnedRunOK
  <2>2. w[s] = Severity(d.intensity[s])
    BY <1>2 DEF StagePoints
  <2>3. v[f[s]] = Severity(runs[f[s]].intensity)
    BY <1>4 DEF RunPoints
  <2> QED BY <2>1, <2>2, <2>3
<1>7. Cardinality(Linked(p)) <= Cardinality(force)
  <2>1. f \in Injection(Linked(p), force)
    BY <1>3, <1>5 DEF Injection, IsInjective
  <2> HIDE DEF force, f
  <2> QED BY <1>1, <2>1, FS_Injection
<1>8. SumFunctionOnSet(w, Linked(p)) <= SumFunctionOnSet(v, force)
  <2> HIDE DEF force, f, w, v
  <2> QED BY <1>1, <1>2, <1>3, <1>5, <1>6, SumInjected
<1> QED BY <1>2, <1>7, <1>8

(***************************************************************************)
(* Steps that only end things: runs, stages and playbook runs.             *)
(***************************************************************************)

RunsGoOn ==
  \A r \in RunIds :
    /\ runs'[r].owner = runs[r].owner
    /\ runs'[r].intensity = runs[r].intensity
    /\ runs'[r].status = "absent" <=> runs[r].status = "absent"
    /\ runs'[r].status = "pending" => runs[r].status = "pending"
    /\ runs[r].status # "pending" =>
         /\ runs'[r].expires = runs[r].expires
         /\ runs'[r].status = "active" => runs[r].status = "active"

BooksGoOn ==
  \A p \in PlaybookRunIds :
    /\ playbookRuns'[p].definition = playbookRuns[p].definition
    /\ playbookRuns'[p].status = "absent" <=> playbookRuns[p].status = "absent"

StagesOnlyEnd(ss) ==
  \A p \in PlaybookRunIds, s \in Stages :
    ss[p][s] = stages[p][s] \/ ss[p][s].status \in TerminalStage

Quiet ==
  /\ RunsGoOn
  /\ BooksGoOn
  /\ StagesOnlyEnd(stages')
  /\ RunsInForce(active') \subseteq RunsInForce(active)

(* Fewer stages occupy the budgets. *)
LEMMA BudgetKeptByFewer ==
  ASSUME IInv, OwnersOK, NEW p \in PlaybookRunIds, playbookRuns[p].status # "absent",
         BudgetKept(p), playbookRuns'[p].definition = playbookRuns[p].definition,
         Occupying(p)' \subseteq Occupying(p)
  PROVE  BudgetKept(p)'
<1> DEFINE d == playbookRuns[p].definition
           w == StagePoints(d)
           O == Occupying(p)
           Q == Occupying(p)'
<1>1. /\ \A s \in Stages : w[s] \in Nat
      /\ d.maxConcurrent \in Nat /\ d.maxSeverity \in Nat
      /\ IsFiniteSet(Stages)
  BY PointsType DEF Definition
<1>2. IsFiniteSet(O) /\ O \subseteq Stages
  BY <1>1, FS_Subset DEF Occupying, Starting
<1>3. Cardinality(O) <= d.maxConcurrent /\ SumFunctionOnSet(w, O) <= d.maxSeverity
  BY DEF BudgetKept
<1>4. IsFiniteSet(Q) /\ Q \in SUBSET O /\ \A s \in O : w[s] \in Nat
  BY <1>1, <1>2, FS_Subset
<1> HIDE DEF O, Q, w
<1>5. Cardinality(Q) <= Cardinality(O) /\ SumFunctionOnSet(w, Q) <= SumFunctionOnSet(w, O)
  BY <1>2, <1>4, FS_Subset, SumSubset
<1>6. /\ Cardinality(Q) \in Nat /\ Cardinality(O) \in Nat
      /\ SumFunctionOnSet(w, Q) \in Nat /\ SumFunctionOnSet(w, O) \in Nat
  BY <1>2, <1>4, FS_CardinalityType, SumType
<1>7. Cardinality(Q) <= d.maxConcurrent /\ SumFunctionOnSet(w, Q) <= d.maxSeverity
  BY <1>1, <1>3, <1>5, <1>6
<1> QED BY <1>7 DEF BudgetKept, Q, w

LEMMA GoingOnKeepsOwners ==
  ASSUME IInv, OwnersOK, RunsGoOn, BooksGoOn, StagesOnlyEnd(stages')
  PROVE  OwnersOK'
<1>1. \A r \in RunIds : runs'[r].status # "absent" => runs'[r].intensity \in Intensities
  BY DEF OwnersOK, RunsGoOn
<1>2. \A r \in RunIds : OwnedRunOK(runs[r])'
  <2> SUFFICES ASSUME NEW r \in RunIds, NEW p \in PlaybookRunIds, NEW s \in Stages,
                      runs'[r].owner = <<p, s>>
               PROVE  /\ runs'[r].status # "absent"
                      /\ playbookRuns'[p].status # "absent"
                      /\ stages'[p][s].status # "pending"
                      /\ runs'[r].intensity = playbookRuns'[p].definition.intensity[s]
    BY DEF OwnedRunOK
  <2>1. /\ runs[r].owner = <<p, s>> /\ runs[r].status # "absent"
        /\ playbookRuns[p].status # "absent" /\ stages[p][s].status # "pending"
        /\ runs[r].intensity = playbookRuns[p].definition.intensity[s]
    BY DEF OwnersOK, OwnedRunOK, RunsGoOn
  <2>2. stages'[p][s].status # "pending"
    BY <2>1 DEF StagesOnlyEnd
  <2> QED BY <2>1, <2>2 DEF RunsGoOn, BooksGoOn
<1>3. \A q, r \in RunIds : runs'[q].owner = runs'[r].owner /\ runs'[r].owner # None => q = r
  BY DEF OwnersOK, RunsGoOn
<1>4. ASSUME NEW p \in PlaybookRunIds, NEW s \in Stages
      PROVE  LinkedStageOK(p, s)'
  <2>1. stages'[p][s].status = "active" => stages'[p][s] = stages[p][s]
    BY DEF StagesOnlyEnd
  <2>2. \A r \in Begun : r \in Begun' /\ runs'[r].owner = runs[r].owner
    BY DEF Begun, RunsGoOn
  <2>3. LinkedStageOK(p, s)
    BY DEF OwnersOK
  <2> QED BY <2>1, <2>2, <2>3 DEF LinkedStageOK
<1> QED BY <1>1, <1>2, <1>3, <1>4 DEF OwnersOK

LEMMA QuietKeepsOwners ==
  ASSUME IInv, OwnersOK, Quiet
  PROVE  OwnersOK'
BY GoingOnKeepsOwners DEF Quiet

LEMMA QuietKeepsBudgets ==
  ASSUME IInv, OwnersOK, BudgetsRespected, Quiet
  PROVE  BudgetsRespected'
<1> SUFFICES ASSUME NEW p \in PlaybookRunIds, playbookRuns'[p].status # "absent"
             PROVE  BudgetKept(p)'
  BY DEF BudgetsRespected, BudgetKept
<1>1. playbookRuns[p].status # "absent" /\ playbookRuns'[p].definition = playbookRuns[p].definition
  BY DEF Quiet, BooksGoOn
<1>2. Occupying(p)' \subseteq Occupying(p)
  BY DEF Occupying, Starting, Quiet, StagesOnlyEnd
<1>3. BudgetKept(p)
  BY <1>1, BudgetsPerPlaybook
<1> QED BY <1>1, <1>2, <1>3, BudgetKeptByFewer

LEMMA FinishGoesOn ==
  ASSUME IInv, NEW S \in SUBSET RunsInForce(active), NEW st \in TerminalRun, Finish(S, st)
  PROVE  RunsGoOn /\ RunsInForce(active') \subseteq RunsInForce(active)
<1>1. /\ runs \in [RunIds -> Run]
      /\ \A r \in S : r \in RunIds /\ runs[r].status = "active"
  BY DEF IInv, RunsOK, RunsInForce
<1>2. RunsGoOn
  BY <1>1 DEF RunsGoOn, Finish, Ended, Run
<1>3. RunsInForce(active') \subseteq RunsInForce(active)
  BY DEF Finish, Released, RunsInForce
<1> QED BY <1>2, <1>3

LEMMA SyncGoesOn ==
  ASSUME IInv, NEW ss \in [PlaybookRunIds -> [Stages -> Stage]], StagesOnlyEnd(ss),
         NEW rs
  PROVE  LET synced == SyncedStages(rs, playbookRuns, ss)
             books  == SyncedPlaybooks(playbookRuns, synced)
         IN  /\ StagesOnlyEnd(synced)
             /\ \A p \in PlaybookRunIds :
                  /\ books[p] \in PlaybookRun
                  /\ books[p].definition = playbookRuns[p].definition
                  /\ books[p].status = "absent" <=> playbookRuns[p].status = "absent"
<1> DEFINE synced == SyncedStages(rs, playbookRuns, ss)
           books  == SyncedPlaybooks(playbookRuns, synced)
<1>1. StagesOnlyEnd(synced)
  <2> SUFFICES ASSUME NEW p \in PlaybookRunIds, NEW s \in Stages
               PROVE  synced[p][s] = stages[p][s] \/ synced[p][s].status \in TerminalStage
    BY DEF StagesOnlyEnd
  <2>1. ss[p][s] = stages[p][s] \/ ss[p][s].status \in TerminalStage
    BY DEF StagesOnlyEnd
  <2>2. synced[p][s] = ss[p][s] \/ synced[p][s].status \in TerminalRun
    <3>1. ss[p][s] \in Stage
      OBVIOUS
    <3>2. \/ SyncedStage(rs, ss[p][s]) = ss[p][s]
          \/ SyncedStage(rs, ss[p][s]).status \in TerminalRun
      BY <3>1 DEF SyncedStage, Stage
    <3> QED BY <3>2 DEF SyncedStages
  <2> QED BY <2>1, <2>2
<1>2. ASSUME NEW p \in PlaybookRunIds
      PROVE  /\ books[p] \in PlaybookRun
             /\ books[p].definition = playbookRuns[p].definition
             /\ books[p].status = "absent" <=> playbookRuns[p].status = "absent"
  <2>1. playbookRuns[p] \in PlaybookRun
    BY DEF IInv, PlaybooksOK
  <2>2. CASE books[p] = playbookRuns[p]
    BY <2>1, <2>2
  <2>3. CASE books[p] # playbookRuns[p]
    <3>1. /\ playbookRuns[p].status \in LivePlaybook
          /\ books[p] = [playbookRuns[p] EXCEPT
                           !.status = FinalStatus({synced[p][s].status : s \in Stages})]
      BY <2>3 DEF SyncedPlaybooks
    <3>2. PICK st \in TerminalRun : books[p] = [playbookRuns[p] EXCEPT !.status = st]
      BY <3>1 DEF FinalStatus
    <3> HIDE DEF books
    <3> QED BY <2>1, <3>1, <3>2 DEF PlaybookRun
  <2> QED BY <2>2, <2>3
<1> QED BY <1>1, <1>2

LEMMA SyncQuiet ==
  ASSUME IInv, NEW ss \in [PlaybookRunIds -> [Stages -> Stage]], StagesOnlyEnd(ss),
         SyncPlaybooksFrom(ss)
  PROVE  BooksGoOn /\ StagesOnlyEnd(stages')
BY SyncGoesOn DEF SyncPlaybooksFrom, BooksGoOn

(* A playbook run that is aborted with all its stages. *)
LEMMA StopQuiet ==
  ASSUME NEW ps \in [Stages -> Stage], NEW s \in Stages
  PROVE  StoppedStages(ps)[s] = ps[s] \/ StoppedStages(ps)[s].status \in TerminalStage
<1>1. ps[s] \in Stage
  OBVIOUS
<1> QED BY <1>1 DEF StoppedStages, Stage

LEMMA QuietSteps ==
  ASSUME IInv,
         \/ GetState \/ UpdatePatterns \/ SyncPlaybookRuns \/ StopAll
         \/ \E a \in Actions : Abort(a)
         \/ \E r \in RunIds : FailRun(r)
         \/ \E p \in PlaybookRunIds, s \in Stages : FailStage(p, s) \/ SkipStage(p, s)
         \/ \E p \in PlaybookRunIds : PausePlaybook(p) \/ ResumePlaybook(p) \/ StopPlaybook(p)
         \/ LibraryStep
         \/ Tick
         \/ UNCHANGED engineVars
  PROVE  Quiet
<1>1. /\ runs \in [RunIds -> Run]
      /\ stages \in [PlaybookRunIds -> [Stages -> Stage]]
      /\ playbookRuns \in [PlaybookRunIds -> PlaybookRun]
      /\ \A p \in PlaybookRunIds : PlaybookOK(playbookRuns[p], stages[p], clock)
  BY DEF IInv, PlaybooksOK, RunsOK
<1>2. StagesOnlyEnd(stages)
  BY DEF StagesOnlyEnd
<1>3. UNCHANGED runs => RunsGoOn
  BY DEF RunsGoOn
<1>4. UNCHANGED playbookRuns => BooksGoOn
  BY DEF BooksGoOn
<1>5. UNCHANGED stages => StagesOnlyEnd(stages')
  BY <1>2
<1>6. CASE GetState \/ UpdatePatterns
  <2>1. RunsGoOn /\ RunsInForce(active') \subseteq RunsInForce(active)
    <3>1. Finish(Expired, "completed") /\ Expired \in SUBSET RunsInForce(active)
      BY <1>6 DEF GetState, UpdatePatterns, ReconcileExpired, Expired
    <3> QED BY <3>1, FinishGoesOn
  <2>2. BooksGoOn /\ StagesOnlyEnd(stages')
    BY <1>1, <1>2, <1>4, <1>5, <1>6, SyncQuiet DEF GetState, UpdatePatterns, playbookVars
  <2> QED BY <2>1, <2>2 DEF Quiet
<1>7. CASE SyncPlaybookRuns
  BY <1>1, <1>2, <1>3, <1>7, SyncQuiet DEF SyncPlaybookRuns, Quiet
<1>8. CASE StopAll
  <2>1. RunsGoOn /\ RunsInForce(active') \subseteq RunsInForce(active)
    BY <1>8, FinishGoesOn DEF StopAll
  <2>2. BooksGoOn
    BY <1>1, <1>8 DEF StopAll, BooksGoOn, PlaybookRun
  <2>3. StagesOnlyEnd(stages')
    BY <1>1, <1>8, StopQuiet DEF StopAll, StagesOnlyEnd
  <2> QED BY <2>1, <2>2, <2>3 DEF Quiet
<1>9. ASSUME NEW a \in Actions, Abort(a)
      PROVE  Quiet
  <2>1. {active[a]} \ {NoRun} \in SUBSET RunsInForce(active)
    BY DEF RunsInForce
  <2>2. RunsGoOn /\ RunsInForce(active') \subseteq RunsInForce(active)
    BY <1>9, <2>1, FinishGoesOn DEF Abort
  <2>3. BooksGoOn /\ StagesOnlyEnd(stages')
    BY <1>1, <1>2, <1>9, SyncQuiet DEF Abort
  <2> QED BY <2>2, <2>3 DEF Quiet
<1>10. ASSUME NEW r \in RunIds, FailRun(r)
       PROVE  Quiet
  <2>1. RunsGoOn
    BY <1>1, <1>10 DEF FailRun, RunsGoOn, Run
  <2>2. BooksGoOn /\ StagesOnlyEnd(stages')
    BY <1>1, <1>2, <1>10, SyncQuiet DEF FailRun
  <2> QED BY <1>10, <2>1, <2>2 DEF FailRun, Quiet
<1>11. ASSUME NEW p \in PlaybookRunIds, NEW s \in Stages, FailStage(p, s)
       PROVE  Quiet
  <2> DEFINE ss == [stages EXCEPT ![p][s].status = "failed"]
  <2>1. ss \in [PlaybookRunIds -> [Stages -> Stage]]
    <3>1. stages[p][s] \in Stage
      BY <1>1
    <3>2. [stages[p][s] EXCEPT !.status = "failed"] \in Stage
      BY <3>1 DEF Stage
    <3> QED BY <1>1, <3>2
  <2>2. StagesOnlyEnd(ss)
    BY <1>1 DEF StagesOnlyEnd, Stage
  <2>3. SyncPlaybooksFrom(ss)
    BY <1>11 DEF FailStage
  <2> HIDE DEF ss
  <2> QED BY <1>3, <1>11, <2>1, <2>2, <2>3, SyncQuiet DEF FailStage, Quiet
<1>12. ASSUME NEW p \in PlaybookRunIds, NEW s \in Stages, SkipStage(p, s)
       PROVE  Quiet
  <2> DEFINE skipped == [status |-> "skipped", run |-> NoRun]
             ss      == [stages EXCEPT ![p][s] = skipped]
             ends    == {r \in RunsInForce(active) :
                           stages[p][s].status = "active" /\ stages[p][s].run = r}
  <2>1. ss \in [PlaybookRunIds -> [Stages -> Stage]]
    BY <1>1 DEF Stage
  <2>2. StagesOnlyEnd(ss)
    BY <1>1 DEF StagesOnlyEnd
  <2>3. SyncPlaybooksFrom(ss) /\ Finish(ends, "aborted")
    BY <1>12 DEF SkipStage
  <2>4. ends \in SUBSET RunsInForce(active)
    OBVIOUS
  <2> HIDE DEF ss, ends
  <2>5. RunsGoOn /\ RunsInForce(active') \subseteq RunsInForce(active)
    BY <2>3, <2>4, FinishGoesOn
  <2> QED BY <2>1, <2>2, <2>3, <2>5, SyncQuiet DEF Quiet
<1>13. ASSUME NEW p \in PlaybookRunIds, PausePlaybook(p) \/ ResumePlaybook(p)
       PROVE  Quiet
  <2> DEFINE paused == playbookRuns[p].totalPaused + (clock - playbookRuns[p].pausedAt)
             resumed == [playbookRuns[p] EXCEPT !.status = "running", !.totalPaused = paused,
                                                !.pausedAt = None]
             halted  == [playbookRuns[p] EXCEPT !.status = "paused", !.pausedAt = clock]
  <2>0. \E book \in {resumed, halted} : playbookRuns' = [playbookRuns EXCEPT ![p] = book]
    BY <1>1, <1>13 DEF PausePlaybook, ResumePlaybook
  <2>2. playbookRuns[p].status \in LivePlaybook
    BY <1>13 DEF PausePlaybook, ResumePlaybook
  <2>3. \A book \in {resumed, halted} :
          book.definition = playbookRuns[p].definition /\ book.status # "absent"
    <3> HIDE DEF paused
    <3>1. playbookRuns[p] \in PlaybookRun
      BY <1>1
    <3> QED BY <3>1 DEF PlaybookRun
  <2> HIDE DEF resumed, halted
  <2>1. BooksGoOn
    BY <1>1, <2>0, <2>2, <2>3 DEF BooksGoOn
  <2> QED BY <1>3, <1>5, <1>13, <2>1 DEF PausePlaybook, ResumePlaybook, Quiet
<1>14. ASSUME NEW p \in PlaybookRunIds, StopPlaybook(p)
       PROVE  Quiet
  <2>1. StageRunsInForce(active, stages[p]) \in SUBSET RunsInForce(active)
    BY DEF StageRunsInForce
  <2>2. RunsGoOn /\ RunsInForce(active') \subseteq RunsInForce(active)
    BY <1>14, <2>1, FinishGoesOn DEF StopPlaybook
  <2>3. BooksGoOn
    BY <1>1, <1>14 DEF StopPlaybook, BooksGoOn, PlaybookRun
  <2>4. StagesOnlyEnd(stages')
    BY <1>1, <1>14, StopQuiet DEF StopPlaybook, StagesOnlyEnd
  <2> QED BY <2>2, <2>3, <2>4 DEF Quiet
<1>15. CASE LibraryStep \/ Tick \/ UNCHANGED engineVars
  BY <1>3, <1>4, <1>5, <1>15
     DEF LibraryStep, SavePlaybook, DeletePlaybook, Tick, playbookVars, engineVars, Quiet
<1> QED BY <1>6, <1>7, <1>8, <1>9, <1>10, <1>11, <1>12, <1>13, <1>14, <1>15

LEMMA DueQuiet ==
  ASSUME IInv, DuePlaybookStages
  PROVE  Quiet
<1> DEFINE ends == UNION {StageRunsInForce(active, StagesNow[p]) : p \in OverTime}
<1>1. Finish(ends, "aborted")
  BY DEF DuePlaybookStages
<1>2. ends \in SUBSET RunsInForce(active)
  BY DEF StageRunsInForce
<1>3. RunsGoOn /\ RunsInForce(active') \subseteq RunsInForce(active)
  <2> HIDE DEF ends
  <2> QED BY <1>1, <1>2, FinishGoesOn
<1>4. /\ StagesOnlyEnd(StagesNow)
      /\ \A p \in PlaybookRunIds :
           /\ BooksNow[p] \in PlaybookRun
           /\ BooksNow[p].definition = playbookRuns[p].definition
           /\ BooksNow[p].status = "absent" <=> playbookRuns[p].status = "absent"
  <2>1. StagesOnlyEnd(stages) /\ stages \in [PlaybookRunIds -> [Stages -> Stage]]
    BY DEF StagesOnlyEnd, IInv, PlaybooksOK
  <2> QED BY <2>1, SyncGoesOn DEF BooksNow, StagesNow
<1>5. StagesNow \in [PlaybookRunIds -> [Stages -> Stage]]
  BY SyncOK DEF StagesNow, IInv, PlaybooksOK
<1>6. BooksGoOn
  BY <1>4 DEF DuePlaybookStages, BooksGoOn, PlaybookRun, OverTime, RunningNow
<1>7. StagesOnlyEnd(stages')
  <2> SUFFICES ASSUME NEW p \in PlaybookRunIds, NEW s \in Stages
               PROVE  stages'[p][s] = stages[p][s] \/ stages'[p][s].status \in TerminalStage
    BY DEF StagesOnlyEnd
  <2>1. StagesNow[p][s] = stages[p][s] \/ StagesNow[p][s].status \in TerminalStage
    BY <1>4 DEF StagesOnlyEnd
  <2>2. stages'[p][s] = StagesNow[p][s] \/ stages'[p][s].status \in TerminalStage
    <3>1. StagesNow[p] \in [Stages -> Stage] /\ StagesNow[p][s] \in Stage
      BY <1>5
    <3>2. CASE p \in OverTime
      <4>1. stages'[p] = StoppedStages(StagesNow[p])
        BY <3>2 DEF DuePlaybookStages
      <4> QED BY <3>1, <4>1, StopQuiet
    <3>3. CASE p \notin OverTime
      BY <3>1, <3>3 DEF DuePlaybookStages, Stage
    <3> QED BY <3>2, <3>3
  <2> QED BY <2>1, <2>2
<1> QED BY <1>3, <1>6, <1>7 DEF Quiet

(***************************************************************************)
(* Steps that request, activate, claim, link and start.                    *)
(***************************************************************************)

BudgetInv == IInv /\ OwnersOK /\ BudgetsRespected

(* A step that changes no playbook run definition, and adds no stage to those that occupy
   the budgets. *)
LEMMA NoneOccupiesMore ==
  ASSUME BudgetInv,
         \A p \in PlaybookRunIds : playbookRuns'[p].status # "absent" =>
           /\ playbookRuns[p].status # "absent"
           /\ playbookRuns'[p].definition = playbookRuns[p].definition
           /\ Occupying(p)' \subseteq Occupying(p)
  PROVE  BudgetsRespected'
<1> SUFFICES ASSUME NEW p \in PlaybookRunIds, playbookRuns'[p].status # "absent"
             PROVE  BudgetKept(p)'
  BY DEF BudgetsRespected, BudgetKept
<1>1. BudgetKept(p)
  BY BudgetsPerPlaybook DEF BudgetInv
<1> QED BY <1>1, BudgetKeptByFewer DEF BudgetInv

(* What a run is requested for, and with what intensity. *)
Requested(o, i) ==
  \/ o = None
  \/ \E p \in PlaybookRunIds, s \in Stages :
       /\ o = <<p, s>> /\ i = playbookRuns[p].definition.intensity[s]
       /\ playbookRuns[p].status # "absent" /\ stages[p][s].status # "pending"
       /\ \A q \in RunIds : runs[q].owner # <<p, s>>

LEMMA BeginKeepsBudgets ==
  ASSUME BudgetInv, NEW r \in RunIds, NEW a, NEW i \in Intensities, NEW d, NEW o,
         BeginRun(r, a, i, d, o), Requested(o, i)
  PROVE  OwnersOK' /\ BudgetsRespected'
<1> DEFINE new == [status |-> "pending", action |-> a, intensity |-> i,
                   duration |-> d, expires |-> None, owner |-> o]
<1>1. /\ runs' = [runs EXCEPT ![r] = new] /\ runs \in [RunIds -> Run]
      /\ runs[r].status = "absent"
      /\ UNCHANGED <<active, playbookRuns, stages>>
  BY DEF BeginRun, BudgetInv, IInv, RunsOK, playbookVars
<1>2. new.status = "pending" /\ new.intensity = i /\ new.owner = o
  OBVIOUS
<1> HIDE DEF new
<1>3. \A q \in RunIds : runs'[q].status # "absent" => runs'[q].intensity \in Intensities
  BY <1>1, <1>2 DEF BudgetInv, OwnersOK
<1>4. \A q \in RunIds : OwnedRunOK(runs[q])'
  <2> SUFFICES ASSUME NEW q \in RunIds, NEW p \in PlaybookRunIds, NEW s \in Stages,
                      runs'[q].owner = <<p, s>>
               PROVE  /\ runs'[q].status # "absent"
                      /\ playbookRuns[p].status # "absent"
                      /\ stages[p][s].status # "pending"
                      /\ runs'[q].intensity = playbookRuns[p].definition.intensity[s]
    BY <1>1 DEF OwnedRunOK
  <2>1. <<p, s>> # None
    BY EngineAssumption DEF PlaybookRunIds
  <2>2. CASE q = r
    BY <1>1, <1>2, <2>1, <2>2 DEF Requested
  <2>3. CASE q # r
    BY <1>1, <2>3 DEF BudgetInv, OwnersOK, OwnedRunOK
  <2> QED BY <2>2, <2>3
<1>5. \A q, t \in RunIds : runs'[q].owner = runs'[t].owner /\ runs'[t].owner # None => q = t
  BY <1>1, <1>2 DEF BudgetInv, OwnersOK, Requested
<1>6. \A p \in PlaybookRunIds, s \in Stages : LinkedStageOK(p, s)'
  <2>1. \A q \in Begun : q # r /\ q \in Begun' /\ runs'[q].owner = runs[q].owner
    BY <1>1 DEF Begun
  <2> QED BY <1>1, <2>1 DEF BudgetInv, OwnersOK, LinkedStageOK
<1>7. OwnersOK'
  BY <1>3, <1>4, <1>5, <1>6 DEF OwnersOK
<1>8. \A p \in PlaybookRunIds : Occupying(p)' = Occupying(p)
  BY <1>1 DEF Occupying, Starting, RunsInForce
<1> QED BY <1>1, <1>7, <1>8, NoneOccupiesMore

(* Activating a run ends at most one other, and touches nothing else.     *)
LEMMA ActivateGoesOn ==
  ASSUME IInv, NEW r \in RunIds, ActivateRun(r)
  PROVE  /\ RunsGoOn
         /\ RunsInForce(active') \subseteq RunsInForce(active) \cup {r}
         /\ runs[r].status = "pending" /\ runs'[r].status = "active"
         /\ UNCHANGED <<clock, library, playbookRuns, stages>>
<1> DEFINE a        == runs[r].action
           replaced == {active[a]} \ {NoRun}
           ended    == Ended(runs, replaced, "aborted")
           expires  == clock + runs[r].duration
<1>1. /\ runs[r].status = "pending" /\ runs \in [RunIds -> Run]
      /\ a \in Actions /\ active \in [Actions -> RunIds \cup {NoRun}]
      /\ UNCHANGED <<clock, library, playbookRuns, stages>>
      /\ active' = [active EXCEPT ![a] = r]
  BY DEF ActivateRun, IInv, RunsOK, RunOK, playbookVars
<1>2. \A q \in replaced : q \in RunIds /\ runs[q].status = "active"
  BY <1>1 DEF IInv, RunsOK
<1>3. ended \in [RunIds -> Run]
  BY <1>1, EndedType
<1>4. runs' = [ended EXCEPT ![r] = [ended[r] EXCEPT !.status = "active", !.expires = expires]]
  BY <1>3 DEF ActivateRun
<1>5. \A q \in RunIds :
        /\ ended[q].status = IF q \in replaced THEN "aborted" ELSE runs[q].status
        /\ ended[q].owner = runs[q].owner /\ ended[q].intensity = runs[q].intensity
        /\ ended[q].expires = runs[q].expires
  BY <1>1 DEF Ended, Run
<1>6. \A q \in RunIds :
        /\ runs'[q].status = IF q = r THEN "active"
                             ELSE IF q \in replaced THEN "aborted" ELSE runs[q].status
        /\ runs'[q].owner = runs[q].owner /\ runs'[q].intensity = runs[q].intensity
        /\ q # r => runs'[q].expires = runs[q].expires
  <2> HIDE DEF ended, expires, replaced
  <2> QED BY <1>3, <1>4, <1>5 DEF Run
<1>7. RunsGoOn
  <2> HIDE DEF replaced
  <2> QED BY <1>1, <1>2, <1>6 DEF RunsGoOn
<1>8. RunsInForce(active') \subseteq RunsInForce(active) \cup {r}
  BY <1>1 DEF RunsInForce
<1> QED BY <1>1, <1>6, <1>7, <1>8

LEMMA ActivateKeepsBudgets ==
  ASSUME BudgetInv, NEW r \in RunIds, ActivateRun(r)
  PROVE  OwnersOK' /\ BudgetsRespected'
<1>1. /\ RunsGoOn
      /\ RunsInForce(active') \subseteq RunsInForce(active) \cup {r}
      /\ runs[r].status = "pending"
      /\ UNCHANGED <<playbookRuns, stages>>
  BY ActivateGoesOn DEF BudgetInv
<1>2. OwnersOK'
  <2>1. BooksGoOn /\ StagesOnlyEnd(stages')
    BY <1>1 DEF BooksGoOn, StagesOnlyEnd
  <2> QED BY <1>1, <2>1, GoingOnKeepsOwners DEF BudgetInv
<1>3. ASSUME NEW p \in PlaybookRunIds
      PROVE  Occupying(p)' \subseteq Occupying(p)
  <2>1. \A s \in Stages : stages[p][s].status = "active" => stages[p][s].run # r
    BY <1>1 DEF BudgetInv, OwnersOK, LinkedStageOK, Begun
  <2> QED BY <1>1, <2>1 DEF Occupying, Starting
<1> QED BY <1>1, <1>2, <1>3, NoneOccupiesMore

LEMMA LinkKeepsBudgets ==
  ASSUME BudgetInv, NEW p \in PlaybookRunIds, NEW s \in Stages, NEW r \in RunIds,
         runs[r].owner = <<p, s>>, runs[r].status # "pending", LinkStage(p, s, r)
  PROVE  OwnersOK' /\ BudgetsRespected'
<1> DEFINE stage == [status |-> "active", run |-> r]
<1>1. /\ stages' = [stages EXCEPT ![p][s] = stage]
      /\ stages \in [PlaybookRunIds -> [Stages -> Stage]]
      /\ stages[p][s].status = "starting"
      /\ UNCHANGED <<runs, active, playbookRuns>>
  BY DEF LinkStage, BudgetInv, IInv, PlaybooksOK
<1>2. stage.status = "active" /\ stage.run = r
  OBVIOUS
<1> HIDE DEF stage
<1>3. r \in Begun
  BY DEF Begun, BudgetInv, OwnersOK, OwnedRunOK
<1>4. OwnersOK'
  <2>1. \A q \in RunIds : OwnedRunOK(runs[q])'
    BY <1>1, <1>2 DEF BudgetInv, OwnersOK, OwnedRunOK
  <2>2. \A q \in PlaybookRunIds, t \in Stages : LinkedStageOK(q, t)'
    <3> SUFFICES ASSUME NEW q \in PlaybookRunIds, NEW t \in Stages PROVE LinkedStageOK(q, t)'
      OBVIOUS
    <3>1. CASE q = p /\ t = s
      BY <1>1, <1>2, <1>3, <3>1 DEF LinkedStageOK, Begun
    <3>2. CASE q # p \/ t # s
      <4>1. stages'[q][t] = stages[q][t]
        BY <1>1, <3>2
      <4> QED BY <1>1, <4>1 DEF BudgetInv, OwnersOK, LinkedStageOK, Begun
    <3> QED BY <3>1, <3>2
  <2> QED BY <1>1, <2>1, <2>2 DEF BudgetInv, OwnersOK
<1>5. \A q \in PlaybookRunIds : Occupying(q)' \subseteq Occupying(q)
  BY <1>1, <1>2 DEF Occupying, Starting
<1> QED BY <1>1, <1>4, <1>5, NoneOccupiesMore

LEMMA AppendKeepsBudgets ==
  ASSUME BudgetInv, NEW p \in PlaybookRunIds, NEW b, NEW d \in Definitions,
         AppendPlaybookRun(p, b, d)
  PROVE  OwnersOK' /\ BudgetsRespected'
<1> DEFINE new   == [status |-> "running", book |-> b, definition |-> d,
                     started |-> clock, pausedAt |-> None, totalPaused |-> 0]
           fresh == [s \in Stages |-> PendingStage]
<1>1. /\ playbookRuns' = [playbookRuns EXCEPT ![p] = new]
      /\ stages' = [stages EXCEPT ![p] = fresh]
      /\ playbookRuns \in [PlaybookRunIds -> PlaybookRun]
      /\ stages \in [PlaybookRunIds -> [Stages -> Stage]]
      /\ playbookRuns[p].status = "absent"
      /\ UNCHANGED <<runs, active>>
  BY DEF AppendPlaybookRun, BudgetInv, IInv, PlaybooksOK
<1>2. /\ new.status = "running" /\ new.definition = d
      /\ \A s \in Stages : fresh[s].status = "pending"
  BY DEF PendingStage
<1> HIDE DEF new, fresh
<1>3. \A q \in PlaybookRunIds : q # p =>
        playbookRuns'[q] = playbookRuns[q] /\ stages'[q] = stages[q]
  BY <1>1
<1>4. playbookRuns'[p] = new /\ stages'[p] = fresh
  BY <1>1
<1>5. OwnersOK'
  <2>1. \A r \in RunIds : OwnedRunOK(runs[r])'
    BY <1>1, <1>3 DEF BudgetInv, OwnersOK, OwnedRunOK
  <2>2. \A q \in PlaybookRunIds, s \in Stages : LinkedStageOK(q, s)'
    BY <1>1, <1>2, <1>3, <1>4 DEF BudgetInv, OwnersOK, LinkedStageOK, Begun
  <2> QED BY <1>1, <2>1, <2>2 DEF BudgetInv, OwnersOK
<1>6. ASSUME NEW q \in PlaybookRunIds, playbookRuns'[q].status # "absent"
      PROVE  BudgetKept(q)'
  <2>1. CASE q # p
    <3>1. Occupying(q)' = Occupying(q)
      BY <1>1, <1>3, <2>1 DEF Occupying, Starting
    <3>2. BudgetKept(q) /\ playbookRuns[q].status # "absent"
      BY <1>3, <1>6, <2>1, BudgetsPerPlaybook DEF BudgetInv
    <3> QED BY <1>3, <2>1, <3>1, <3>2, BudgetKeptByFewer DEF BudgetInv
  <2>2. CASE q = p
    <3>1. Occupying(p)' = {}
      BY <1>2, <1>4 DEF Occupying, Starting
    <3>2. playbookRuns'[p].definition = d /\ d.maxConcurrent \in Nat /\ d.maxSeverity \in Nat
      BY <1>2, <1>4, EngineAssumption DEF Definition
    <3>3. Cardinality({}) = 0 /\ SumFunctionOnSet(StagePoints(d), {}) = 0
      BY FS_EmptySet, SumEmpty
    <3>4. Cardinality({}) <= d.maxConcurrent
          /\ SumFunctionOnSet(StagePoints(d), {}) <= d.maxSeverity
      BY <3>2, <3>3
    <3> QED BY <2>2, <3>1, <3>2, <3>4 DEF BudgetKept
  <2> QED BY <2>1, <2>2
<1> QED BY <1>5, <1>6 DEF BudgetsRespected, BudgetKept

(* A claim adds a stage only where the budgets allow it. *)
LEMMA ClaimKeepsBudgets ==
  ASSUME BudgetInv, NEW p \in PlaybookRunIds, NEW s \in Stages, ClaimStage(p, s)
  PROVE  OwnersOK' /\ BudgetsRespected'
<1> DEFINE stage == [stages[p][s] EXCEPT !.status = "starting"]
           d     == playbookRuns[p].definition
           w     == StagePoints(d)
           v     == RunPoints(runs)
           force == RunsInForce(active)
           S     == Starting(stages[p])
           L     == Linked(p)
<1>1. /\ stages' = [stages EXCEPT ![p][s] = stage]
      /\ stages \in [PlaybookRunIds -> [Stages -> Stage]]
      /\ stages[p][s].status = "pending" /\ playbookRuns[p].status # "absent"
      /\ UNCHANGED <<runs, active, playbookRuns>>
      /\ BudgetAllows(active, d, stages[p], s)
  BY DEF ClaimStage, ClaimAllowed, BudgetInv, IInv, PlaybooksOK
<1>2. stage.status = "starting"
  BY <1>1 DEF Stage
<1> HIDE DEF stage
<1>3. /\ stages'[p][s].status = "starting"
      /\ \A q \in PlaybookRunIds, t \in Stages :
           q # p \/ t # s => stages'[q][t] = stages[q][t]
  BY <1>1, <1>2
<1>4. OwnersOK'
  <2>1. \A q \in RunIds : OwnedRunOK(runs[q])'
    <3> SUFFICES ASSUME NEW r \in RunIds, NEW q \in PlaybookRunIds, NEW t \in Stages,
                        runs[r].owner = <<q, t>>
                 PROVE  /\ runs[r].status # "absent"
                        /\ playbookRuns[q].status # "absent"
                        /\ stages'[q][t].status # "pending"
                        /\ runs[r].intensity = playbookRuns[q].definition.intensity[t]
      BY <1>1 DEF OwnedRunOK
    <3>1. /\ runs[r].status # "absent" /\ playbookRuns[q].status # "absent"
          /\ stages[q][t].status # "pending"
          /\ runs[r].intensity = playbookRuns[q].definition.intensity[t]
      BY DEF BudgetInv, OwnersOK, OwnedRunOK
    <3>2. stages'[q][t].status # "pending"
      BY <1>3, <3>1
    <3> QED BY <3>1, <3>2
  <2>2. \A q \in PlaybookRunIds, t \in Stages : LinkedStageOK(q, t)'
    <3> SUFFICES ASSUME NEW q \in PlaybookRunIds, NEW t \in Stages PROVE LinkedStageOK(q, t)'
      OBVIOUS
    <3>1. LinkedStageOK(q, t)
      BY DEF BudgetInv, OwnersOK
    <3> QED BY <1>1, <1>3, <3>1 DEF LinkedStageOK, Begun
  <2> QED BY <1>1, <2>1, <2>2 DEF BudgetInv, OwnersOK
<1>5. ASSUME NEW q \in PlaybookRunIds, playbookRuns'[q].status # "absent", q # p
      PROVE  BudgetKept(q)'
  <2>1. Occupying(q)' = Occupying(q)
    BY <1>1, <1>3, <1>5 DEF Occupying, Starting
  <2>2. BudgetKept(q) /\ playbookRuns[q].status # "absent"
    BY <1>1, <1>5, BudgetsPerPlaybook DEF BudgetInv
  <2> QED BY <1>1, <2>1, <2>2, BudgetKeptByFewer DEF BudgetInv
<1>6. Occupying(p)' = (L \cup S) \cup {s}
  BY <1>1, <1>3 DEF Occupying, Starting, Linked
<1>7. s \notin L \cup S /\ L \cap S = {} /\ L \cup S \subseteq Stages
  BY <1>1 DEF Starting, Linked
<1>8. /\ \A t \in Stages : w[t] \in Nat
      /\ \A r \in force : v[r] \in Nat
      /\ d \in Definition
      /\ IsFiniteSet(force) /\ IsFiniteSet(S) /\ IsFiniteSet(L)
  BY <1>1, PointsType, FS_Subset DEF BudgetInv, Starting, Linked
<1>9. /\ Cardinality(L) <= Cardinality(force)
      /\ SumFunctionOnSet(w, L) <= SumFunctionOnSet(v, force)
  BY <1>1, LinkedWithinForce DEF BudgetInv
<1>10. /\ Cardinality(force) + Cardinality(S) < d.maxConcurrent
       /\ SumFunctionOnSet(v, force) + SumFunctionOnSet(w, S) + w[s] <= d.maxSeverity
  <2>1. w[s] = Severity(d.intensity[s])
    BY DEF StagePoints
  <2> HIDE DEF w, d
  <2> QED BY <1>1, <2>1 DEF BudgetAllows, w
<1>11. /\ Cardinality((L \cup S) \cup {s}) = Cardinality(L) + Cardinality(S) + 1
       /\ SumFunctionOnSet(w, (L \cup S) \cup {s})
            = SumFunctionOnSet(w, L) + SumFunctionOnSet(w, S) + w[s]
  <2> HIDE DEF L, S, w
  <2>1. IsFiniteSet(L \cup S) /\ \A t \in L \cup S : w[t] \in Nat
    BY <1>7, <1>8, FS_Union
  <2>2. Cardinality(L \cup S) = Cardinality(L) + Cardinality(S)
    <3>1. IsFiniteSet(L) /\ IsFiniteSet(S) /\ Cardinality(L \cap S) = 0
      BY <1>7, <1>8, FS_EmptySet
    <3>2. Cardinality(L) \in Nat /\ Cardinality(S) \in Nat
      BY <3>1, FS_CardinalityType
    <3>3. Cardinality(L \cup S) = Cardinality(L) + Cardinality(S) - Cardinality(L \cap S)
      BY <3>1, FS_Union
    <3> QED BY <3>1, <3>2, <3>3
  <2>3. Cardinality((L \cup S) \cup {s}) = Cardinality(L \cup S) + 1
    BY <1>7, <2>1, FS_AddElement
  <2>4. SumFunctionOnSet(w, L \cup S) = SumFunctionOnSet(w, L) + SumFunctionOnSet(w, S)
    BY <1>7, <1>8, <2>1, SumUnion
  <2>5. SumFunctionOnSet(w, (L \cup S) \cup {s}) = SumFunctionOnSet(w, L \cup S) + w[s]
    BY <1>7, <1>8, <2>1, SumAdd
  <2> QED BY <2>2, <2>3, <2>4, <2>5
<1>12. /\ Cardinality(L) \in Nat /\ Cardinality(S) \in Nat /\ Cardinality(force) \in Nat
       /\ SumFunctionOnSet(w, L) \in Nat /\ SumFunctionOnSet(w, S) \in Nat
       /\ SumFunctionOnSet(v, force) \in Nat /\ w[s] \in Nat
  <2>1. (\A t \in L : w[t] \in Nat) /\ (\A t \in S : w[t] \in Nat)
    BY <1>7, <1>8
  <2> HIDE DEF L, S, w, v, force
  <2> QED BY <1>8, <2>1, FS_CardinalityType, SumType
<1>13. d.maxConcurrent \in Nat /\ d.maxSeverity \in Nat
  BY <1>8 DEF Definition
<1>14. /\ Cardinality((L \cup S) \cup {s}) <= d.maxConcurrent
       /\ SumFunctionOnSet(w, (L \cup S) \cup {s}) <= d.maxSeverity
  <2> HIDE DEF L, S, w, v, d, force
  <2> QED BY <1>9, <1>10, <1>11, <1>12, <1>13
<1>15. BudgetKept(p)'
  <2>1. playbookRuns'[p].definition = d
    BY <1>1
  <2> QED BY <1>6, <1>14, <2>1 DEF BudgetKept
<1>16. BudgetsRespected'
  BY <1>5, <1>15 DEF BudgetsRespected, BudgetKept
<1> QED BY <1>4, <1>16

LEMMA BudgetsKept == BudgetInv /\ [Next]_engineVars => OwnersOK' /\ BudgetsRespected'
<1> SUFFICES ASSUME BudgetInv, [Next]_engineVars PROVE OwnersOK' /\ BudgetsRespected'
  OBVIOUS
<1>1. Quiet => OwnersOK' /\ BudgetsRespected'
  BY QuietKeepsOwners, QuietKeepsBudgets DEF BudgetInv
<1>2. CASE RunStep
  <2>1. PICK r \in RunIds :
          \/ \E a \in Actions, i \in Intensities, d \in Durations : BeginRun(r, a, i, d, None)
          \/ \E p \in PlaybookRunIds, s \in Stages : RequestForStage(r, p, s)
          \/ ActivateRun(r)
          \/ FailRun(r)
    BY <1>2 DEF RunStep
  <2>2. ASSUME NEW p \in PlaybookRunIds, NEW s \in Stages, RequestForStage(r, p, s)
        PROVE  OwnersOK' /\ BudgetsRespected'
    <3> DEFINE d == playbookRuns[p].definition
    <3>1. /\ playbookRuns[p].status # "absent" /\ stages[p][s].status # "pending"
          /\ \A q \in RunIds : runs[q].owner # <<p, s>>
          /\ BeginRun(r, d.action[s], d.intensity[s], d.duration[s], <<p, s>>)
      BY <2>2 DEF RequestForStage
    <3>2. d.intensity[s] \in Intensities
      BY <3>1, PointsType DEF BudgetInv, Definition
    <3> DEFINE i == d.intensity[s]
               o == <<p, s>>
    <3>3. Requested(o, i)
      BY <3>1 DEF Requested
    <3>4. BeginRun(r, d.action[s], i, d.duration[s], o) /\ i \in Intensities
      BY <3>1, <3>2
    <3> HIDE DEF o, i, d
    <3> QED BY <3>3, <3>4, BeginKeepsBudgets
  <2> QED BY <1>1, <2>1, <2>2, BeginKeepsBudgets, ActivateKeepsBudgets, QuietSteps
     DEF BudgetInv, Requested
<1>3. CASE StageStep
  BY <1>1, <1>3, ClaimKeepsBudgets, LinkKeepsBudgets, QuietSteps DEF StageStep, BudgetInv
<1>4. CASE PlaybookStep
  <2>1. PICK p \in PlaybookRunIds :
          \/ \E b \in Books : StartPlaybook(p, b)
          \/ \E q \in PlaybookRunIds : ReplayPlaybook(p, q)
          \/ PausePlaybook(p) \/ ResumePlaybook(p) \/ StopPlaybook(p)
    BY <1>4 DEF PlaybookStep
  <2>2. ASSUME NEW b \in Books, StartPlaybook(p, b)
        PROVE  OwnersOK' /\ BudgetsRespected'
    BY <2>2, AppendKeepsBudgets DEF StartPlaybook, BudgetInv, IInv
  <2>3. ASSUME NEW q \in PlaybookRunIds, ReplayPlaybook(p, q)
        PROVE  OwnersOK' /\ BudgetsRespected'
    <3>1. playbookRuns[q].definition \in Definitions
      BY <2>3 DEF ReplayPlaybook, BudgetInv, IInv, PlaybooksOK, PlaybookOK
    <3> QED BY <2>3, <3>1, AppendKeepsBudgets DEF ReplayPlaybook
  <2> QED BY <1>1, <2>1, <2>2, <2>3, QuietSteps DEF BudgetInv
<1>5. CASE LibraryStep \/ Tick \/ UNCHANGED engineVars
  BY <1>1, <1>5, QuietSteps DEF BudgetInv
<1>6. CASE StateStep
  BY <1>1, <1>6, QuietSteps, DueQuiet DEF StateStep, BudgetInv
<1> QED BY <1>2, <1>3, <1>4, <1>5, <1>6 DEF Next

LEMMA InitBudgets == Init => OwnersOK /\ BudgetsRespected
<1> SUFFICES ASSUME Init PROVE OwnersOK /\ BudgetsRespected
  OBVIOUS
<1>1. \A p \in PlaybookRunIds, s \in Stages : <<p, s>> # None
  BY EngineAssumption DEF PlaybookRunIds
<1>2. OwnersOK
  BY <1>1 DEF Init, OwnersOK, OwnedRunOK, LinkedStageOK, AbsentRun, PendingStage
<1>3. BudgetsRespected
  BY DEF Init, BudgetsRespected, AbsentPlaybookRun
<1> QED BY <1>2, <1>3

(* However claims, starts, aborts and restarts interleave, a playbook      *)
(* stays within its budgets.                                               *)
THEOREM BudgetsStayRespected == Spec => []BudgetsRespected
<1>1. Init => BudgetInv
  BY InitOK, InitBudgets DEF BudgetInv
<1>2. BudgetInv /\ [Next]_engineVars => BudgetInv'
  BY NextOK, BudgetsKept DEF BudgetInv
<1>3. BudgetInv => BudgetsRespected
  BY DEF BudgetInv
<1> QED BY <1>1, <1>2, <1>3, PTL DEF Spec

=============================================================================
