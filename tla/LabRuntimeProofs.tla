-------------------------- MODULE LabRuntimeProofs --------------------------
(***************************************************************************)
(* Proofs about the application's side of the labs, for any number of      *)
(* labs, playbooks and requests.                                           *)
(*                                                                         *)
(* A request reaches no controller before it sends; whoever writes files   *)
(* has put its definition into the library of the lab it reached, where    *)
(* none is ever removed.  Of the coroutines at most one is under way, so   *)
(* that of two saves of one playbook at a time one is in a thread: whoever *)
(* changes a file between another's steps is its rival, and what the       *)
(* change leaves is that rival's definition, an empty file or a mixture.   *)
(***************************************************************************)
EXTENDS LabRuntime, TLAPS

Writing == {"read", "version", "open", "write"}

TypesOK ==
  /\ holder \in Labs \cup {NoLab} /\ moves \in Nat /\ died \in Nat
  /\ library \in [Keys -> Definitions \cup {NoDefinition}]
  /\ saved \in [Keys -> Definitions \cup Broken \cup {NoDefinition}]
  /\ history \in [Keys -> SUBSET (Definitions \cup Broken)]
  /\ tasks \in [LabRequests -> Task]

SentOK ==
  \A r \in LabRequests :
    /\ tasks[r].step \in {"ready", "check", "send"} => tasks[r].reached = NoLab
    /\ tasks[r].step \in Writing =>
         /\ tasks[r].new \in Definitions /\ tasks[r].reached \in Labs
         /\ library[<<tasks[r].reached, tasks[r].playbook>>] \in Definitions

VersionsOK ==
  \A r \in LabRequests :
    tasks[r].step = "version" => tasks[r].current \in Definitions \cup Broken

LoopOK ==
  \A q, r \in LoopRequests : UnderWay(q) /\ UnderWay(r) => q = r

(* What a request found and has not kept as a version is still in the      *)
(* file, or another's definition is, or the file is broken.                *)
KeptOK ==
  \A r \in LabRequests :
    /\ InStep(r, "version") \/ InStep(r, "open") =>
         \/ saved[KeyOf(r)] \in {tasks[r].current} \cup Broken
         \/ \E q \in LabRequests : Rival(q, r) /\ tasks[q].new = saved[KeyOf(r)]
    /\ InStep(r, "open") =>
         tasks[r].current \in {NoDefinition, tasks[r].new} \cup history[KeyOf(r)]

(* A file that was emptied stays empty, but for rivals. *)
EmptiedOK ==
  \A r \in LabRequests : InStep(r, "write") =>
    saved[KeyOf(r)] = "empty" \/ \E q \in LabRequests : Rival(q, r)

BrokenOK ==
  \A k \in Keys : saved[k] \in Broken =>
    /\ library[k] \in Definitions \/ \E r \in LabRequests : KeyOf(r) = k /\ Astray(r)
    /\ saved[k] \in Mixed => Raced(k)

LInv ==
  TypesOK /\ SentOK /\ VersionsOK /\ LoopOK /\ KeptOK /\ EmptiedOK /\ BrokenOK

LEMMA NewTaskIs ==
  /\ NewTask \in Task /\ NewTask.step = "ready" /\ NewTask.reached = NoLab
<1>1. (CHOOSE l \in Labs : TRUE) \in Labs /\ (CHOOSE p \in Playbooks : TRUE) \in Playbooks
  BY LabAssumption
<1> QED
  BY <1>1 DEF NewTask, Task

(* What becomes of the tasks when one is set; the others stay. *)
LEMMA SetIs ==
  ASSUME TypesOK, NEW r \in LabRequests, NEW task \in Task, Set(r, task)
  PROVE  /\ tasks' \in [LabRequests -> Task] /\ tasks'[r] = task
         /\ \A q \in LabRequests \ {r} : tasks'[q] = tasks[q]
BY DEF TypesOK, Set

(* The steps at which a request ends leave its key and where it went, if   *)
(* it went anywhere.                                                       *)
LEMMA EndedIs ==
  ASSUME NEW task \in Task, NEW s \in {"done", "failed"}
  PROVE  /\ Ended(task, s) \in Task /\ Ended(task, s).step = s
         /\ Ended(task, s).reached = task.reached
         /\ task.reached # NoLab => /\ Ended(task, s).lab = task.lab
                                    /\ Ended(task, s).playbook = task.playbook
                                    /\ Ended(task, s).new = task.new
<1>1. CASE task.reached = NoLab
  <2>1. Ended(task, s) = [NewTask EXCEPT !.step = s]
    BY <1>1 DEF Ended
  <2> QED
    BY <1>1, <2>1, NewTaskIs DEF Task
<1>2. CASE task.reached # NoLab
  <2>1. Ended(task, s) = [task EXCEPT !.step = s, !.current = NoDefinition, !.seen = 0]
    BY <1>2 DEF Ended
  <2>2. Ended(task, s) =
          [step |-> s, lab |-> task.lab, playbook |-> task.playbook, new |-> task.new,
           current |-> NoDefinition, seen |-> 0, reached |-> task.reached]
    BY <2>1 DEF Task
  <2>3. /\ task.lab \in Labs /\ task.playbook \in Playbooks
        /\ task.new \in Definitions \cup {NoDefinition}
        /\ task.reached \in Labs \cup {NoLab}
    BY DEF Task
  <2>4. Ended(task, s) \in Task
    BY <2>2, <2>3 DEF Task
  <2> QED
    BY <2>2, <2>4
<1> QED
  BY <1>1, <1>2

LEMMA KeysIs ==
  ASSUME TypesOK, NEW r \in LabRequests
  PROVE  /\ tasks[r] \in Task /\ KeyOf(r) \in Keys
         /\ tasks[r].lab \in Labs /\ tasks[r].playbook \in Playbooks
         /\ \A l \in Labs : <<l, tasks[r].playbook>> \in Keys
BY DEF TypesOK, Task, KeyOf, Keys

LEMMA LabInitOK == LabInit => LInv
<1> SUFFICES ASSUME LabInit PROVE LInv
  OBVIOUS
<1>1. \A r \in LabRequests : tasks[r] \in Task /\ tasks[r].step = "ready" /\ tasks[r].reached = NoLab
  BY NewTaskIs DEF LabInit
<1>2. /\ library \in [Keys -> Definitions \cup {NoDefinition}]
      /\ saved \in [Keys -> Definitions \cup {NoDefinition}]
  BY LabAssumption DEF LabInit
<1>3. TypesOK
  BY <1>1, <1>2, NewTaskIs DEF LabInit, TypesOK
<1>4. SentOK /\ VersionsOK
  BY <1>1 DEF SentOK, VersionsOK, Writing
<1>5. LoopOK /\ KeptOK /\ EmptiedOK
  BY <1>1 DEF LoopOK, KeptOK, EmptiedOK, UnderWay, InStep, LabRequests
<1>6. BrokenOK
  BY <1>2, LabAssumption DEF BrokenOK
<1> QED
  BY <1>3, <1>4, <1>5, <1>6 DEF LInv

(***************************************************************************)
(* What each kind of step does to one request, in terms of fields.         *)
(***************************************************************************)

(* A step that only moves a request on. *)
LEMMA StepIs ==
  ASSUME TypesOK, NEW r \in LabRequests, NEW s \in {"open", "write"}, Step(r, s)
  PROVE  /\ tasks' \in [LabRequests -> Task]
         /\ tasks'[r].step = s /\ tasks'[r].current = tasks[r].current
         /\ tasks'[r].lab = tasks[r].lab /\ tasks'[r].playbook = tasks[r].playbook
         /\ tasks'[r].new = tasks[r].new /\ tasks'[r].reached = tasks[r].reached
         /\ \A q \in LabRequests \ {r} : tasks'[q] = tasks[q]
<1>1. [tasks[r] EXCEPT !.step = s] \in Task
  BY DEF TypesOK, Task
<1>2. Set(r, [tasks[r] EXCEPT !.step = s])
  BY DEF Step, Set
<1> QED
  BY <1>1, <1>2, SetIs DEF TypesOK, Task

(* A step that ends a request, which may just have reached a lab. *)
LEMMA EndIs ==
  ASSUME TypesOK, NEW r \in LabRequests, NEW s \in {"done", "failed"},
         Set(r, Ended(tasks[r], s))
  PROVE  /\ tasks' \in [LabRequests -> Task]
         /\ tasks'[r].step = s /\ tasks'[r].reached = tasks[r].reached
         /\ tasks[r].reached # NoLab =>
              /\ tasks'[r].lab = tasks[r].lab /\ tasks'[r].playbook = tasks[r].playbook
              /\ tasks'[r].new = tasks[r].new
         /\ \A q \in LabRequests \ {r} : tasks'[q] = tasks[q]
<1>1. tasks[r] \in Task
  BY DEF TypesOK
<1> DEFINE after == Ended(tasks[r], s)
<1>2. after \in Task /\ Set(r, after)
  BY <1>1, EndedIs
<1>3. /\ tasks' \in [LabRequests -> Task] /\ tasks'[r] = after
      /\ \A q \in LabRequests \ {r} : tasks'[q] = tasks[q]
  BY <1>2, SetIs
<1> QED
  BY <1>1, <1>3, EndedIs

LEMMA BeginIs ==
  ASSUME TypesOK, NEW r \in LabRequests, NEW l \in Labs, NEW p \in Playbooks,
         NEW d \in Definitions \cup {NoDefinition}, Begin(r, l, p, d)
  PROVE  /\ tasks' \in [LabRequests -> Task]
         /\ tasks'[r].step = "check" /\ tasks'[r].reached = NoLab
         /\ \A q \in LabRequests \ {r} : tasks'[q] = tasks[q]
         /\ tasks[r].step = "ready"
         /\ r \in LoopRequests => \A q \in LoopRequests : ~UnderWay(q)
         /\ UNCHANGED <<holder, moves, library, saved, history, died>>
<1> DEFINE t == [NewTask EXCEPT !.step = "check", !.lab = l, !.playbook = p, !.new = d]
<1>1. t \in Task /\ t.step = "check" /\ t.reached = NoLab
  BY NewTaskIs DEF Task
<1>2. Set(r, t)
  BY DEF Begin
<1> HIDE DEF t
<1>3. /\ tasks' \in [LabRequests -> Task] /\ tasks'[r] = t
      /\ \A q \in LabRequests \ {r} : tasks'[q] = tasks[q]
  BY <1>1, <1>2, SetIs
<1> QED
  BY <1>1, <1>3 DEF Begin, MayBegin, InStep

(* Sending: the request has reached the lab that has the port, and goes on *)
(* if it saves and had an answer.                                          *)
LEMMA SendIs ==
  ASSUME TypesOK, NEW r \in LabRequests, Send(r)
  PROVE  /\ tasks' \in [LabRequests -> Task]
         /\ tasks[r].step = "send" /\ holder \in Labs
         /\ tasks'[r].step \in {"read", "done", "failed"}
         /\ tasks'[r].step = "read" => tasks'[r].new \in Definitions
         /\ tasks'[r].lab = tasks[r].lab /\ tasks'[r].playbook = tasks[r].playbook
         /\ tasks'[r].new = tasks[r].new /\ tasks'[r].reached = holder
         /\ \A q \in LabRequests \ {r} : tasks'[q] = tasks[q]
<1> DEFINE sent == [tasks[r] EXCEPT !.reached = holder]
           on   == [sent EXCEPT !.step = "read"]
<1>1. /\ tasks[r] \in Task /\ tasks[r].step = "send" /\ holder \in Labs /\ holder # NoLab
  BY LabAssumption DEF TypesOK, Send, InStep
<1>2. /\ sent \in Task /\ sent.reached = holder /\ sent.lab = tasks[r].lab
      /\ sent.playbook = tasks[r].playbook /\ sent.new = tasks[r].new
  BY <1>1 DEF Task
<1>3. /\ on \in Task /\ on.step = "read" /\ on.reached = holder /\ on.lab = tasks[r].lab
      /\ on.playbook = tasks[r].playbook /\ on.new = tasks[r].new
  BY <1>1 DEF Task
<1>4. \/ tasks[r].new # NoDefinition /\ Set(r, on)
      \/ Set(r, Ended(sent, "done")) \/ Set(r, Ended(sent, "failed"))
  BY DEF Send
<1> HIDE DEF sent, on
<1>5. CASE tasks[r].new # NoDefinition /\ Set(r, on)
  <2>1. /\ tasks' \in [LabRequests -> Task] /\ tasks'[r] = on
        /\ \A q \in LabRequests \ {r} : tasks'[q] = tasks[q]
    BY <1>3, <1>5, SetIs
  <2>2. tasks[r].new \in Definitions
    BY <1>1, <1>5 DEF Task
  <2> QED
    BY <1>1, <1>3, <2>1, <2>2
<1>6. ASSUME NEW s \in {"done", "failed"}, Set(r, Ended(sent, s))
      PROVE  /\ tasks' \in [LabRequests -> Task] /\ tasks'[r].step = s
             /\ tasks'[r].lab = tasks[r].lab /\ tasks'[r].playbook = tasks[r].playbook
             /\ tasks'[r].new = tasks[r].new /\ tasks'[r].reached = holder
             /\ \A q \in LabRequests \ {r} : tasks'[q] = tasks[q]
  <2> DEFINE after == Ended(sent, s)
  <2>1. /\ after \in Task /\ after.step = s /\ after.reached = holder
        /\ after.lab = tasks[r].lab /\ after.playbook = tasks[r].playbook
        /\ after.new = tasks[r].new
    BY <1>1, <1>2, EndedIs
  <2>2. Set(r, after)
    BY <1>6
  <2> HIDE DEF after
  <2> QED
    BY <2>1, <2>2, SetIs
<1> QED
  BY <1>1, <1>4, <1>5, <1>6

(***************************************************************************)
(* What a step of one request leaves true of the others.                   *)
(***************************************************************************)

(* The step is one of request r, and what is known of it does not go away. *)
OneStep(r) ==
  /\ tasks' \in [LabRequests -> Task]
  /\ \A q \in LabRequests \ {r} : tasks'[q] = tasks[q]
  /\ tasks[r].reached # NoLab =>
       /\ tasks'[r].lab = tasks[r].lab /\ tasks'[r].playbook = tasks[r].playbook
       /\ tasks'[r].new = tasks[r].new /\ tasks'[r].reached = tasks[r].reached
  /\ \A k \in Keys : library[k] \in Definitions => library'[k] \in Definitions
  /\ \A k \in Keys : history[k] \subseteq history'[k]
  /\ r \in LoopRequests /\ UnderWay(r)' =>
       UnderWay(r) \/ \A q \in LoopRequests : ~UnderWay(q)

(* It changes at most the file it is writing, and leaves its own text      *)
(* there, none, or a mixture with a rival's.                               *)
OwnFile(r) ==
  \A k \in Keys : saved'[k] # saved[k] =>
    /\ k = KeyOf(r) /\ tasks[r].step \in Writing
    /\ \/ saved'[k] \in {"empty", tasks[r].new}
       \/ saved'[k] \in Mixed /\ \E q \in LabRequests : Rival(q, r)

(* What is known of a request that is writing. *)
LEMMA WritingIs ==
  ASSUME LInv, NEW r \in LabRequests, tasks[r].step \in Writing
  PROVE  /\ tasks[r] \in Task /\ KeyOf(r) \in Keys /\ UnderWay(r)
         /\ tasks[r].new \in Definitions /\ tasks[r].new # NoDefinition
         /\ tasks[r].reached \in Labs /\ tasks[r].reached # NoLab
         /\ library[<<tasks[r].reached, tasks[r].playbook>>] \in Definitions
BY KeysIs, LabAssumption DEF LInv, SentOK, Writing, UnderWay

LEMMA OthersSent ==
  ASSUME LInv, NEW r \in LabRequests, OneStep(r),
         tasks'[r].step \in {"ready", "check", "send"} => tasks'[r].reached = NoLab,
         tasks'[r].step \in Writing =>
           /\ tasks'[r].new \in Definitions /\ tasks'[r].reached \in Labs
           /\ library'[<<tasks'[r].reached, tasks'[r].playbook>>] \in Definitions,
         tasks'[r].step = "version" => tasks'[r].current \in Definitions \cup Broken
  PROVE  SentOK' /\ VersionsOK'
<1>1. ASSUME NEW q \in LabRequests, q # r
      PROVE  /\ tasks'[q].step \in {"ready", "check", "send"} => tasks'[q].reached = NoLab
             /\ tasks'[q].step \in Writing =>
                  /\ tasks'[q].new \in Definitions /\ tasks'[q].reached \in Labs
                  /\ library'[<<tasks'[q].reached, tasks'[q].playbook>>] \in Definitions
             /\ tasks'[q].step = "version" => tasks'[q].current \in Definitions \cup Broken
  <2>1. tasks'[q] = tasks[q]
    BY <1>1 DEF OneStep
  <2>2. tasks[q].step \in Writing => <<tasks[q].reached, tasks[q].playbook>> \in Keys
    BY KeysIs DEF LInv, SentOK
  <2> QED
    BY <2>1, <2>2 DEF LInv, SentOK, VersionsOK, OneStep
<1> QED
  BY <1>1 DEF SentOK, VersionsOK

LEMMA OthersLoop ==
  ASSUME LInv, NEW r \in LabRequests, OneStep(r)
  PROVE  LoopOK'
<1> SUFFICES ASSUME NEW q \in LoopRequests, NEW s \in LoopRequests,
                    UnderWay(q)', UnderWay(s)', q # s
             PROVE  FALSE
  BY DEF LoopOK
<1>1. \A v \in LoopRequests \ {r} : UnderWay(v)' => UnderWay(v)
  BY DEF OneStep, UnderWay, LabRequests
<1> QED
  BY <1>1 DEF LInv, LoopOK, OneStep

(* Whoever reached a lab is remembered, whatever becomes of the others. *)
Remembered ==
  \A q \in LabRequests : tasks[q].reached # NoLab =>
    /\ tasks'[q].lab = tasks[q].lab /\ tasks'[q].playbook = tasks[q].playbook
    /\ tasks'[q].new = tasks[q].new /\ tasks'[q].reached = tasks[q].reached

LEMMA StepRemembers ==
  ASSUME NEW r \in LabRequests, OneStep(r)
  PROVE  Remembered
BY DEF OneStep, Remembered

LEMMA RivalsRemembered ==
  ASSUME Remembered, NEW q \in LabRequests, NEW r \in LabRequests,
         Rival(q, r), tasks[r].reached # NoLab
  PROVE  Rival(q, r)' /\ tasks'[q].new = tasks[q].new
BY DEF Remembered, Rival, KeyOf

LEMMA RacesRemembered ==
  ASSUME Remembered, NEW k, Raced(k)
  PROVE  Raced(k)'
<1>1. PICK r \in LabRequests :
        /\ KeyOf(r) = k /\ tasks[r].new # NoDefinition /\ tasks[r].reached # NoLab
        /\ \E q \in LabRequests : Rival(q, r)
  BY DEF Raced
<1>2. PICK q \in LabRequests : Rival(q, r)
  BY <1>1
<1>3. KeyOf(r)' = k /\ tasks'[r].new # NoDefinition /\ tasks'[r].reached # NoLab
  BY <1>1 DEF Remembered, KeyOf
<1>4. Rival(q, r)'
  BY <1>1, <1>2, RivalsRemembered
<1> QED
  BY <1>3, <1>4 DEF Raced

LEMMA StraysRemembered ==
  ASSUME Remembered, NEW q \in LabRequests, Astray(q)
  PROVE  KeyOf(q)' = KeyOf(q) /\ Astray(q)'
BY DEF Remembered, Astray, KeyOf

(* Two requests that are writing one file are rivals. *)
LEMMA WritersAreRivals ==
  ASSUME LInv, NEW q \in LabRequests, NEW r \in LabRequests, q # r, KeyOf(q) = KeyOf(r),
         tasks[q].step \in Writing, tasks[r].step \in Writing
  PROVE  Rival(q, r)
<1>1. UnderWay(q) /\ UnderWay(r) /\ tasks[q].new # NoDefinition /\ tasks[q].reached # NoLab
  BY WritingIs
<1>2. ~(q \in LoopRequests /\ r \in LoopRequests)
  BY <1>1 DEF LInv, LoopOK
<1> QED
  BY <1>1, <1>2 DEF Rival, LabRequests

(* Where no file changes, what is broken stays accounted for. *)
LEMMA BrokenStays ==
  ASSUME LInv, Remembered, NEW k \in Keys, saved[k] \in Broken,
         library[k] \in Definitions => library'[k] \in Definitions
  PROVE  /\ library'[k] \in Definitions \/ \E q \in LabRequests : KeyOf(q)' = k /\ Astray(q)'
         /\ saved[k] \in Mixed => Raced(k)'
<1>1. library[k] \in Definitions \/ \E q \in LabRequests : KeyOf(q) = k /\ Astray(q)
  BY DEF LInv, BrokenOK
<1>2. ASSUME NEW q \in LabRequests, KeyOf(q) = k, Astray(q)
      PROVE  KeyOf(q)' = k /\ Astray(q)'
  BY <1>2, StraysRemembered
<1>3. saved[k] \in Mixed => Raced(k)'
  BY RacesRemembered DEF LInv, BrokenOK
<1> QED
  BY <1>1, <1>2, <1>3

(* Writing its own file, a request leaves it readable or went astray. *)
LEMMA OthersReadable ==
  ASSUME LInv, NEW r \in LabRequests, OneStep(r), OwnFile(r)
  PROVE  BrokenOK'
<1> SUFFICES ASSUME NEW k \in Keys, saved'[k] \in Broken
             PROVE  /\ \/ library'[k] \in Definitions
                       \/ \E q \in LabRequests : KeyOf(q)' = k /\ Astray(q)'
                    /\ saved'[k] \in Mixed => Raced(k)'
  BY DEF BrokenOK
<1>1. Remembered
  BY StepRemembers
<1>2. CASE saved'[k] = saved[k]
  BY <1>1, <1>2, BrokenStays DEF OneStep
<1>3. CASE saved'[k] # saved[k]
  <2>1. /\ k = KeyOf(r) /\ tasks[r].step \in Writing
        /\ \/ saved'[k] \in {"empty", tasks[r].new}
           \/ saved'[k] \in Mixed /\ \E q \in LabRequests : Rival(q, r)
    BY <1>3 DEF OwnFile
  <2>2. /\ tasks[r].new \in Definitions /\ tasks[r].new # NoDefinition
        /\ tasks[r].reached \in Labs /\ tasks[r].reached # NoLab
        /\ library[<<tasks[r].reached, tasks[r].playbook>>] \in Definitions
    BY <2>1, WritingIs
  <2>3. saved'[k] \in Mixed => Raced(k)
    BY <2>1, <2>2, LabAssumption DEF Raced, Mixed, Broken
  <2>4. CASE tasks[r].reached = tasks[r].lab
    BY <1>1, <2>1, <2>2, <2>3, <2>4, RacesRemembered DEF KeyOf, OneStep
  <2>5. CASE tasks[r].reached # tasks[r].lab
    BY <1>1, <2>1, <2>2, <2>3, <2>5, RacesRemembered, StraysRemembered DEF Astray
  <2> QED
    BY <2>4, <2>5
<1> QED
  BY <1>2, <1>3

LEMMA OthersKept ==
  ASSUME LInv, NEW r \in LabRequests, OneStep(r), OwnFile(r),
         InStep(r, "version")' \/ InStep(r, "open")' =>
           \/ saved'[KeyOf(r)'] \in {tasks'[r].current} \cup Broken
           \/ \E q \in LabRequests : Rival(q, r)' /\ tasks'[q].new = saved'[KeyOf(r)'],
         InStep(r, "open")' =>
           tasks'[r].current \in {NoDefinition, tasks'[r].new} \cup history'[KeyOf(r)'],
         InStep(r, "write")' => saved'[KeyOf(r)'] = "empty"
  PROVE  KeptOK' /\ EmptiedOK'
<1> DEFINE kept(v) ==
      /\ InStep(v, "version") \/ InStep(v, "open") =>
           \/ saved[KeyOf(v)] \in {tasks[v].current} \cup Broken
           \/ \E q \in LabRequests : Rival(q, v) /\ tasks[q].new = saved[KeyOf(v)]
      /\ InStep(v, "open") =>
           tasks[v].current \in {NoDefinition, tasks[v].new} \cup history[KeyOf(v)]
      /\ InStep(v, "write") =>
           saved[KeyOf(v)] = "empty" \/ \E q \in LabRequests : Rival(q, v)
<1>1. kept(r)'
  OBVIOUS
<1>2. ASSUME NEW v \in LabRequests, v # r
      PROVE  kept(v)'
  <2>1. tasks'[v] = tasks[v] /\ KeyOf(v)' = KeyOf(v) /\ KeyOf(v) \in Keys
    BY <1>2, KeysIs DEF OneStep, KeyOf, LInv
  <2>2. SUFFICES ASSUME tasks[v].step \in {"version", "open", "write"}
                 PROVE  kept(v)'
    BY <2>1 DEF InStep
  <2>3. tasks[v].step \in Writing /\ tasks[v].reached # NoLab
    BY <2>2, WritingIs DEF Writing
  <2>4. kept(v) /\ history[KeyOf(v)] \subseteq history'[KeyOf(v)] /\ Remembered
    BY <2>1, StepRemembers DEF LInv, KeptOK, EmptiedOK, OneStep
  <2>5. \A q \in LabRequests : Rival(q, v) => Rival(q, v)' /\ tasks'[q].new = tasks[q].new
    BY <2>3, <2>4, RivalsRemembered
  <2>6. CASE saved'[KeyOf(v)] = saved[KeyOf(v)]
    BY <2>1, <2>4, <2>5, <2>6 DEF InStep
  <2>7. CASE saved'[KeyOf(v)] # saved[KeyOf(v)]
    <3>1. /\ KeyOf(v) = KeyOf(r) /\ tasks[r].step \in Writing
          /\ saved'[KeyOf(v)] \in {"empty", tasks[r].new} \cup Mixed
      BY <2>1, <2>7 DEF OwnFile
    <3>2. Rival(r, v)
      BY <1>2, <2>3, <3>1, WritersAreRivals
    <3>3. Rival(r, v)' /\ tasks'[r].new = tasks[r].new
      BY <2>5, <3>2
    <3> QED
      BY <2>1, <2>4, <3>1, <3>3 DEF InStep, Broken
  <2> QED
    BY <2>6, <2>7
<1>3. \A v \in LabRequests : kept(v)'
  BY <1>1, <1>2
<1> QED
  BY <1>3 DEF KeptOK, EmptiedOK

(***************************************************************************)
(* The steps.                                                              *)
(***************************************************************************)

LEMMA PortOK ==
  ASSUME LInv, holder' \in Labs \cup {NoLab}, moves' \in Nat,
         UNCHANGED <<library, saved, history, tasks, died>>
  PROVE  LInv'
<1>1. TypesOK' /\ SentOK' /\ VersionsOK'
  BY DEF LInv, TypesOK, SentOK, VersionsOK
<1>2. LoopOK' /\ BrokenOK'
  BY DEF LInv, LoopOK, UnderWay, BrokenOK, KeyOf, Astray, Raced, Rival
<1>3. KeptOK' /\ EmptiedOK'
  BY DEF LInv, KeptOK, EmptiedOK, Rival, KeyOf, InStep
<1> QED
  BY <1>1, <1>2, <1>3 DEF LInv

(* A step of one request that leaves the stores alone. *)
LEMMA QuietOK ==
  ASSUME LInv, NEW r \in LabRequests, OneStep(r),
         UNCHANGED <<holder, moves, library, saved, history, died>>,
         tasks'[r].step \in {"ready", "check", "send"} => tasks'[r].reached = NoLab,
         tasks'[r].step \in Writing =>
           /\ tasks'[r].new \in Definitions /\ tasks'[r].reached \in Labs
           /\ library[<<tasks'[r].reached, tasks'[r].playbook>>] \in Definitions,
         tasks'[r].step = "version" => tasks'[r].current \in Definitions \cup Broken,
         tasks'[r].step # "write",
         InStep(r, "version")' \/ InStep(r, "open")' => saved[KeyOf(r)'] = tasks'[r].current,
         InStep(r, "open")' => tasks'[r].current \in {NoDefinition, tasks'[r].new}
  PROVE  LInv'
<1>1. TypesOK'
  BY DEF LInv, TypesOK, OneStep
<1>2. SentOK' /\ VersionsOK'
  BY OthersSent
<1>3. OwnFile(r)
  BY DEF OwnFile
<1>4. BrokenOK'
  BY <1>3, OthersReadable
<1>5. KeptOK' /\ EmptiedOK'
  BY <1>3, OthersKept DEF InStep
<1> QED
  BY <1>1, <1>2, <1>4, <1>5, OthersLoop DEF LInv

LEMMA BeginOK ==
  ASSUME LInv, NEW r \in LabRequests, NEW l \in Labs, NEW p \in Playbooks,
         NEW d \in Definitions \cup {NoDefinition}, Begin(r, l, p, d)
  PROVE  LInv'
<1>1. /\ tasks' \in [LabRequests -> Task]
      /\ tasks'[r].step = "check" /\ tasks'[r].reached = NoLab
      /\ \A q \in LabRequests \ {r} : tasks'[q] = tasks[q]
      /\ tasks[r].step = "ready"
      /\ r \in LoopRequests => \A q \in LoopRequests : ~UnderWay(q)
      /\ UNCHANGED <<holder, moves, library, saved, history, died>>
  BY BeginIs DEF LInv
<1>2. tasks[r].reached = NoLab
  BY <1>1 DEF LInv, SentOK
<1>3. OneStep(r)
  BY <1>1, <1>2 DEF OneStep
<1> QED
  BY <1>1, <1>3, QuietOK DEF InStep, Writing

(* A request ends, and nothing else changes. *)
LEMMA EndOK ==
  ASSUME LInv, NEW r \in LabRequests, UnderWay(r), Set(r, Ended(tasks[r], "failed")),
         UNCHANGED <<holder, moves, library, saved, history, died>>
  PROVE  LInv'
<1>1. /\ tasks' \in [LabRequests -> Task]
      /\ tasks'[r].step = "failed" /\ tasks'[r].reached = tasks[r].reached
      /\ tasks[r].reached # NoLab =>
           /\ tasks'[r].lab = tasks[r].lab /\ tasks'[r].playbook = tasks[r].playbook
           /\ tasks'[r].new = tasks[r].new
      /\ \A q \in LabRequests \ {r} : tasks'[q] = tasks[q]
  BY EndIs DEF LInv
<1>2. OneStep(r)
  BY <1>1 DEF OneStep
<1> QED
  BY <1>1, <1>2, QuietOK DEF InStep, Writing

LEMMA CheckOK ==
  ASSUME LInv, NEW r \in LabRequests, Check(r)
  PROVE  LInv'
<1>1. /\ tasks[r].step = "check" /\ UnderWay(r)
      /\ UNCHANGED <<holder, moves, library, saved, history, died>>
  BY DEF Check, InStep, UnderWay
<1>2. CASE Set(r, Ended(tasks[r], "failed"))
  BY <1>1, <1>2, EndOK
<1>3. CASE Set(r, [tasks[r] EXCEPT !.step = "send", !.seen = moves])
  <2> DEFINE t == [tasks[r] EXCEPT !.step = "send", !.seen = moves]
  <2>1. t \in Task /\ t.step = "send" /\ t.reached = tasks[r].reached
    BY DEF LInv, TypesOK, Task
  <2>2. tasks[r].reached = NoLab
    BY <1>1 DEF LInv, SentOK
  <2>3. Set(r, t)
    BY <1>3
  <2> HIDE DEF t
  <2>4. /\ tasks' \in [LabRequests -> Task] /\ tasks'[r] = t
        /\ \A q \in LabRequests \ {r} : tasks'[q] = tasks[q]
    BY <2>1, <2>3, SetIs DEF LInv
  <2>5. OneStep(r)
    BY <1>1, <2>2, <2>4 DEF OneStep
  <2> QED
    BY <1>1, <2>1, <2>2, <2>4, <2>5, QuietOK DEF InStep, Writing
<1> QED
  BY <1>2, <1>3 DEF Check

LEMMA SendOK ==
  ASSUME LInv, NEW r \in LabRequests, Send(r)
  PROVE  LInv'
<1> DEFINE k == <<holder, tasks[r].playbook>>
<1>1. /\ tasks' \in [LabRequests -> Task]
      /\ tasks[r].step = "send" /\ holder \in Labs
      /\ tasks'[r].step \in {"read", "done", "failed"}
      /\ tasks'[r].step = "read" => tasks'[r].new \in Definitions
      /\ tasks'[r].lab = tasks[r].lab /\ tasks'[r].playbook = tasks[r].playbook
      /\ tasks'[r].new = tasks[r].new /\ tasks'[r].reached = holder
      /\ \A q \in LabRequests \ {r} : tasks'[q] = tasks[q]
  BY SendIs DEF LInv
<1>2. /\ tasks[r].reached = NoLab
      /\ tasks[r] \in Task /\ k \in Keys
      /\ tasks[r].new \in Definitions \cup {NoDefinition}
  BY <1>1, KeysIs DEF LInv, SentOK, Task
<1>3. /\ UNCHANGED <<holder, moves, saved, history, died>>
      /\ library' = IF tasks[r].new # NoDefinition THEN [library EXCEPT ![k] = tasks[r].new]
                    ELSE library
  BY DEF Send
<1>4. library \in [Keys -> Definitions \cup {NoDefinition}]
  BY DEF LInv, TypesOK
<1> HIDE DEF k
<1>5. /\ library' \in [Keys -> Definitions \cup {NoDefinition}]
      /\ \A j \in Keys : library[j] \in Definitions => library'[j] \in Definitions
      /\ tasks[r].new \in Definitions => library'[k] \in Definitions
  BY <1>2, <1>3, <1>4, LabAssumption
<1>6. TypesOK'
  BY <1>1, <1>3, <1>5 DEF LInv, TypesOK
<1>7. UnderWay(r)
  BY <1>1 DEF UnderWay
<1>8. OneStep(r)
  BY <1>1, <1>2, <1>3, <1>5, <1>7 DEF OneStep
<1>9. tasks'[r].step = "read" =>
        library'[<<tasks'[r].reached, tasks'[r].playbook>>] \in Definitions
  BY <1>1, <1>5 DEF k
<1>10. SentOK' /\ VersionsOK'
  BY <1>1, <1>8, <1>9, OthersSent DEF Writing
<1>11. OwnFile(r)
  BY <1>3 DEF OwnFile
<1>12. BrokenOK'
  BY <1>8, <1>11, OthersReadable
<1>13. KeptOK' /\ EmptiedOK'
  BY <1>1, <1>8, <1>11, OthersKept DEF InStep
<1> QED
  BY <1>6, <1>8, <1>10, <1>12, <1>13, OthersLoop DEF LInv

LEMMA ReadFileOK ==
  ASSUME LInv, NEW r \in LabRequests, ReadFile(r)
  PROVE  LInv'
<1> DEFINE found == saved[KeyOf(r)]
           s == IF found \in {NoDefinition, tasks[r].new} THEN "open" ELSE "version"
           t == [tasks[r] EXCEPT !.step = s, !.current = found]
<1>1. /\ tasks[r] \in Task /\ KeyOf(r) \in Keys /\ UnderWay(r)
      /\ tasks[r].new \in Definitions /\ tasks[r].reached \in Labs
      /\ library[<<tasks[r].reached, tasks[r].playbook>>] \in Definitions
  BY WritingIs DEF ReadFile, InStep, Writing
<1>2. found \in Definitions \cup Broken \cup {NoDefinition}
  BY <1>1 DEF LInv, TypesOK
<1>3. Set(r, t) /\ UNCHANGED <<holder, moves, library, saved, history, died>>
  BY DEF ReadFile
<1>4. s \in {"open", "version"}
  OBVIOUS
<1>5. /\ s = "open" => found \in {NoDefinition, tasks[r].new}
      /\ s = "version" => found # NoDefinition
  OBVIOUS
<1> HIDE DEF s
<1>6. /\ t \in Task /\ t.step = s /\ t.lab = tasks[r].lab /\ t.playbook = tasks[r].playbook
      /\ t.new = tasks[r].new /\ t.reached = tasks[r].reached /\ t.current = found
  BY <1>1, <1>2, <1>4 DEF Task
<1> HIDE DEF t
<1>7. /\ tasks' \in [LabRequests -> Task] /\ tasks'[r] = t
      /\ \A q \in LabRequests \ {r} : tasks'[q] = tasks[q]
  BY <1>3, <1>6, SetIs DEF LInv
<1>8. OneStep(r)
  BY <1>1, <1>3, <1>6, <1>7 DEF OneStep
<1>9. KeyOf(r)' = KeyOf(r)
  BY <1>6, <1>7 DEF KeyOf
<1>10. /\ saved[KeyOf(r)'] = tasks'[r].current
       /\ InStep(r, "open")' => tasks'[r].current \in {NoDefinition, tasks'[r].new}
  BY <1>5, <1>6, <1>7, <1>9 DEF InStep
<1>11. tasks'[r].step \in {"open", "version"}
  BY <1>4, <1>6, <1>7
<1>12. tasks'[r].step = "version" => tasks'[r].current \in Definitions \cup Broken
  BY <1>2, <1>5, <1>6, <1>7
<1> QED
  BY <1>1, <1>3, <1>6, <1>7, <1>8, <1>10, <1>11, <1>12, QuietOK

LEMMA WriteVersionOK ==
  ASSUME LInv, NEW r \in LabRequests, WriteVersion(r)
  PROVE  LInv'
<1>1. /\ tasks[r] \in Task /\ KeyOf(r) \in Keys /\ UnderWay(r)
      /\ tasks[r].new \in Definitions /\ tasks[r].reached \in Labs
      /\ library[<<tasks[r].reached, tasks[r].playbook>>] \in Definitions
      /\ tasks[r].current \in Definitions \cup Broken
  BY WritingIs DEF WriteVersion, InStep, Writing, LInv, VersionsOK
<1>2. /\ tasks' \in [LabRequests -> Task]
      /\ tasks'[r].step = "open" /\ tasks'[r].current = tasks[r].current
      /\ tasks'[r].lab = tasks[r].lab /\ tasks'[r].playbook = tasks[r].playbook
      /\ tasks'[r].new = tasks[r].new /\ tasks'[r].reached = tasks[r].reached
      /\ \A q \in LabRequests \ {r} : tasks'[q] = tasks[q]
  BY StepIs DEF WriteVersion, LInv
<1>3. /\ UNCHANGED <<holder, moves, library, saved, died>>
      /\ history' = [history EXCEPT ![KeyOf(r)] = @ \cup {tasks[r].current}]
      /\ InStep(r, "version")
  BY DEF WriteVersion
<1>4. history \in [Keys -> SUBSET (Definitions \cup Broken)]
  BY DEF LInv, TypesOK
<1>5. /\ history' \in [Keys -> SUBSET (Definitions \cup Broken)]
      /\ \A k \in Keys : history[k] \subseteq history'[k]
      /\ tasks[r].current \in history'[KeyOf(r)]
  BY <1>1, <1>3, <1>4
<1>6. TypesOK'
  BY <1>2, <1>3, <1>5 DEF LInv, TypesOK
<1>7. OneStep(r)
  BY <1>1, <1>2, <1>3, <1>5 DEF OneStep
<1>8. SentOK' /\ VersionsOK'
  BY <1>1, <1>2, <1>3, <1>7, OthersSent
<1>9. OwnFile(r)
  BY <1>3 DEF OwnFile
<1>10. BrokenOK'
  BY <1>7, <1>9, OthersReadable
<1>11. KeyOf(r)' = KeyOf(r)
  BY <1>2 DEF KeyOf
<1>12. \/ saved'[KeyOf(r)'] \in {tasks'[r].current} \cup Broken
       \/ \E q \in LabRequests : Rival(q, r)' /\ tasks'[q].new = saved'[KeyOf(r)']
  <2>1. \/ saved[KeyOf(r)] \in {tasks[r].current} \cup Broken
        \/ \E q \in LabRequests : Rival(q, r) /\ tasks[q].new = saved[KeyOf(r)]
    BY <1>3 DEF LInv, KeptOK
  <2>2. \A q \in LabRequests : Rival(q, r) => Rival(q, r)' /\ tasks'[q].new = tasks[q].new
    BY <1>1, <1>7, LabAssumption, StepRemembers, RivalsRemembered
  <2> QED
    BY <1>2, <1>3, <1>11, <2>1, <2>2
<1>13. tasks'[r].current \in history'[KeyOf(r)']
  BY <1>2, <1>5, <1>11
<1>14. KeptOK' /\ EmptiedOK'
  BY <1>2, <1>7, <1>9, <1>12, <1>13, OthersKept DEF InStep
<1> QED
  BY <1>6, <1>7, <1>8, <1>10, <1>14, OthersLoop DEF LInv

(* A request empties its file, or writes it. *)
LEMMA FileOK ==
  ASSUME LInv, NEW r \in LabRequests, tasks[r].step \in Writing,
         NEW text \in {"empty", tasks[r].new} \cup Mixed,
         text \in Mixed => \E q \in LabRequests : Rival(q, r),
         saved' = [saved EXCEPT ![KeyOf(r)] = text],
         UNCHANGED <<holder, moves, library, history, died>>,
         tasks' \in [LabRequests -> Task],
         tasks'[r].step = "done" \/ (tasks'[r].step = "write" /\ text = "empty"),
         tasks'[r].lab = tasks[r].lab, tasks'[r].playbook = tasks[r].playbook,
         tasks'[r].new = tasks[r].new, tasks'[r].reached = tasks[r].reached,
         \A q \in LabRequests \ {r} : tasks'[q] = tasks[q]
  PROVE  LInv'
<1>1. /\ tasks[r] \in Task /\ KeyOf(r) \in Keys /\ UnderWay(r)
      /\ tasks[r].new \in Definitions /\ tasks[r].new # NoDefinition
      /\ tasks[r].reached \in Labs /\ tasks[r].reached # NoLab
      /\ library[<<tasks[r].reached, tasks[r].playbook>>] \in Definitions
  BY WritingIs
<1>2. saved \in [Keys -> Definitions \cup Broken \cup {NoDefinition}]
  BY DEF LInv, TypesOK
<1>3. text \in Definitions \cup Broken
  BY <1>1 DEF Broken
<1>4. TypesOK'
  BY <1>1, <1>3 DEF LInv, TypesOK
<1>5. OneStep(r)
  BY <1>1 DEF OneStep
<1>6. SentOK' /\ VersionsOK'
  BY <1>1, <1>5, OthersSent
<1>7. OwnFile(r)
  BY <1>1, <1>2 DEF OwnFile
<1>8. KeyOf(r)' = KeyOf(r) /\ saved'[KeyOf(r)] = text
  BY <1>1, <1>2 DEF KeyOf
<1>9. KeptOK' /\ EmptiedOK'
  BY <1>5, <1>7, <1>8, OthersKept DEF InStep
<1> QED
  BY <1>4, <1>5, <1>6, <1>7, <1>9, OthersReadable, OthersLoop DEF LInv

LEMMA OpenFileOK ==
  ASSUME LInv, NEW r \in LabRequests, OpenFile(r)
  PROVE  LInv'
<1>1. /\ tasks' \in [LabRequests -> Task]
      /\ tasks'[r].step = "write"
      /\ tasks'[r].lab = tasks[r].lab /\ tasks'[r].playbook = tasks[r].playbook
      /\ tasks'[r].new = tasks[r].new /\ tasks'[r].reached = tasks[r].reached
      /\ \A q \in LabRequests \ {r} : tasks'[q] = tasks[q]
  BY StepIs DEF OpenFile, LInv
<1>2. tasks[r].step \in Writing /\ "empty" \notin Mixed
  BY DEF OpenFile, InStep, Writing, Mixed
<1>3. /\ saved' = [saved EXCEPT ![KeyOf(r)] = "empty"]
      /\ UNCHANGED <<holder, moves, library, history, died>>
  BY DEF OpenFile
<1> QED
  BY <1>1, <1>2, <1>3, FileOK

LEMMA WriteFileOK ==
  ASSUME LInv, NEW r \in LabRequests, WriteFile(r)
  PROVE  LInv'
<1>1. tasks[r].step \in Writing
  BY DEF WriteFile, InStep, Writing
<1>2. tasks[r].new \in Definitions /\ tasks[r].reached # NoLab
  BY <1>1, WritingIs
<1>3. /\ tasks' \in [LabRequests -> Task]
      /\ tasks'[r].step = "done" /\ tasks'[r].reached = tasks[r].reached
      /\ tasks'[r].lab = tasks[r].lab /\ tasks'[r].playbook = tasks[r].playbook
      /\ tasks'[r].new = tasks[r].new
      /\ \A q \in LabRequests \ {r} : tasks'[q] = tasks[q]
  BY <1>2, EndIs DEF WriteFile, LInv
<1>4. PICK text \in Overwritten(saved[KeyOf(r)], tasks[r].new) :
        saved' = [saved EXCEPT ![KeyOf(r)] = text]
  BY DEF WriteFile
<1>5. UNCHANGED <<holder, moves, library, history, died>>
  BY DEF WriteFile
<1>6. KeyOf(r) \in Keys /\ saved \in [Keys -> Definitions \cup Broken \cup {NoDefinition}]
  BY <1>1, WritingIs DEF LInv, TypesOK
<1>7. CASE text = saved[KeyOf(r)]
  <2>1. saved' = saved
    BY <1>4, <1>6, <1>7
  <2>2. TypesOK'
    BY <1>3, <1>5, <2>1 DEF LInv, TypesOK
  <2>3. OneStep(r)
    BY <1>1, <1>3, <1>5, WritingIs DEF OneStep
  <2>4. OwnFile(r)
    BY <2>1 DEF OwnFile
  <2>5. SentOK' /\ VersionsOK' /\ KeptOK' /\ EmptiedOK'
    BY <1>3, <2>3, <2>4, OthersSent, OthersKept DEF InStep, Writing
  <2> QED
    BY <2>2, <2>3, <2>4, <2>5, OthersReadable, OthersLoop DEF LInv
<1>8. CASE text # saved[KeyOf(r)]
  <2>1. text \in {tasks[r].new} \cup Mixed
    BY <1>4, <1>8 DEF Overwritten
  <2>2. text \in Mixed => \E q \in LabRequests : Rival(q, r)
    <3>1. InStep(r, "write") /\ tasks[r].new \notin Mixed
      BY <1>2, LabAssumption DEF WriteFile, Broken
    <3>2. text \in Mixed => saved[KeyOf(r)] # "empty"
      BY <1>4, <3>1 DEF Overwritten
    <3> QED
      BY <3>1, <3>2 DEF LInv, EmptiedOK
  <2> QED
    BY <1>1, <1>3, <1>4, <1>5, <2>1, <2>2, FileOK
<1> QED
  BY <1>7, <1>8

LEMMA AppDiesOK ==
  ASSUME LInv, AppDies
  PROVE  LInv'
<1>1. /\ died' \in Nat /\ UNCHANGED <<holder, moves, library, saved, history>>
      /\ tasks' = [r \in LabRequests |->
           IF UnderWay(r) THEN Ended(tasks[r], "failed") ELSE tasks[r]]
  BY DEF AppDies, LInv, TypesOK
<1>2. \A r \in LabRequests :
        /\ tasks'[r] \in Task /\ tasks'[r].step \in {"ready", "done", "failed"}
        /\ tasks'[r].reached = tasks[r].reached
        /\ tasks'[r].step = "ready" => tasks[r].step = "ready"
        /\ tasks[r].reached # NoLab =>
             /\ tasks'[r].lab = tasks[r].lab /\ tasks'[r].playbook = tasks[r].playbook
             /\ tasks'[r].new = tasks[r].new
  <2> SUFFICES ASSUME NEW r \in LabRequests
               PROVE  /\ tasks'[r] \in Task /\ tasks'[r].step \in {"ready", "done", "failed"}
                      /\ tasks'[r].reached = tasks[r].reached
                      /\ tasks'[r].step = "ready" => tasks[r].step = "ready"
                      /\ tasks[r].reached # NoLab =>
                           /\ tasks'[r].lab = tasks[r].lab
                           /\ tasks'[r].playbook = tasks[r].playbook
                           /\ tasks'[r].new = tasks[r].new
    OBVIOUS
  <2>1. tasks[r] \in Task
    BY DEF LInv, TypesOK
  <2>2. CASE UnderWay(r)
    <3>1. tasks'[r] = Ended(tasks[r], "failed")
      BY <1>1, <2>2
    <3> QED
      BY <2>1, <3>1, EndedIs
  <2>3. CASE ~UnderWay(r)
    <3>1. tasks'[r] = tasks[r]
      BY <1>1, <2>3
    <3> QED
      BY <2>1, <2>3, <3>1 DEF UnderWay
  <2> QED
    BY <2>2, <2>3
<1>3. TypesOK'
  <2>1. tasks' \in [LabRequests -> Task]
    BY <1>1, <1>2
  <2> QED
    BY <1>1, <2>1 DEF LInv, TypesOK
<1>4. SentOK' /\ VersionsOK' /\ LoopOK' /\ KeptOK' /\ EmptiedOK'
  BY <1>2 DEF LInv, SentOK, VersionsOK, LoopOK, KeptOK, EmptiedOK, UnderWay, InStep, Writing,
              LabRequests
<1>5. BrokenOK'
  <2>1. Remembered
    BY <1>2 DEF Remembered
  <2> QED
    BY <1>1, <2>1, BrokenStays DEF BrokenOK
<1> QED
  BY <1>3, <1>4, <1>5 DEF LInv

LEMMA LabNextOK ==
  ASSUME LInv, [LabNext]_labVars
  PROVE  LInv'
<1>1. CASE UNCHANGED labVars
  BY <1>1, PortOK DEF labVars, LInv, TypesOK
<1>2. ASSUME NEW l \in Labs, LabUp(l) PROVE LInv'
  BY <1>2, PortOK DEF LabUp, LInv, TypesOK
<1>3. CASE LabDown
  BY <1>3, PortOK DEF LabDown, LInv, TypesOK
<1>4. ASSUME NEW r \in LabRequests, NEW l \in Labs, NEW p \in Playbooks,
             NEW d \in Definitions, BeginSave(r, l, p, d) \/ BeginRestore(r, l, p, d)
      PROVE  LInv'
  BY <1>4, BeginOK DEF BeginSave, BeginRestore
<1>5. ASSUME NEW r \in LabRequests, NEW l \in Labs, NEW p \in Playbooks,
             NEW q \in Playbooks, NEW d \in Definitions, BeginClone(r, l, p, q, d)
      PROVE  LInv'
  BY <1>5, BeginOK DEF BeginClone
<1>6. ASSUME NEW r \in LabRequests, NEW l \in Labs, NEW p \in Playbooks, BeginCommand(r, l, p)
      PROVE  LInv'
  BY <1>6, BeginOK DEF BeginCommand
<1>7. ASSUME NEW r \in LabRequests, SendFails(r) PROVE LInv'
  BY <1>7, EndOK DEF SendFails, UnderWay, InStep
<1>8. ASSUME NEW r \in LabRequests,
             Check(r) \/ Send(r) \/ ReadFile(r) \/ WriteVersion(r) \/ OpenFile(r) \/ WriteFile(r)
      PROVE  LInv'
  BY <1>8, CheckOK, SendOK, ReadFileOK, WriteVersionOK, OpenFileOK, WriteFileOK
<1>9. CASE AppDies
  BY <1>9, AppDiesOK
<1> QED
  BY <1>1, <1>2, <1>3, <1>4, <1>5, <1>6, <1>7, <1>8, <1>9 DEF LabNext

(***************************************************************************)
(* Theorems.                                                               *)
(***************************************************************************)

(* The invariant all of them follow from holds of every behaviour. *)
THEOREM LabInvariant == LabSpec => []LInv
BY LabInitOK, LabNextOK, PTL DEF LabSpec

(* Tasks and files keep the shape save_playbook_configuration and          *)
(* _guarded_request give them.                                             *)
THEOREM LabTypeCorrect == LabSpec => []LabTypeOK
<1>1. LInv => LabTypeOK
  BY DEF LInv, TypesOK, SentOK, LabTypeOK, Writing
<1> QED
  BY <1>1, LabInvariant, PTL

(* A playbook whose file a death in save_playbook_configuration left empty *)
(* is read from the library, unless a save of it went astray; and a file   *)
(* holds a mixture only if two saves of it raced.                          *)
THEOREM BrokenFilesReadable == LabSpec => []DefinitionsReadable
<1>1. LInv => DefinitionsReadable
  <2> SUFFICES ASSUME LInv, NEW k \in Keys, saved[k] \in Broken
               PROVE  /\ \/ Readable(k) \in Definitions
                         \/ saved[k] = "mapping" /\ Raced(k)
                         \/ \E r \in LabRequests : KeyOf(r) = k /\ Astray(r)
                      /\ saved[k] \in Mixed => Raced(k)
    BY DEF DefinitionsReadable
  <2>1. /\ library[k] \in Definitions \/ \E r \in LabRequests : KeyOf(r) = k /\ Astray(r)
        /\ saved[k] \in Mixed => Raced(k)
    BY DEF LInv, BrokenOK
  <2>2. saved[k] = "mapping" \/ Readable(k) = library[k]
    BY LabAssumption DEF Readable
  <2> QED
    BY <2>1, <2>2 DEF Mixed
<1> QED
  BY <1>1, LabInvariant, PTL

(* save_playbook_configuration loses no definition that it found: what a   *)
(* save replaces by another is a version, unless a rival wrote it after    *)
(* the save had read the file.                                             *)
THEOREM ReplacedAreKept == LabSpec => ReplacedDefinitionsKept
<1> DEFINE kept(r) ==
      LET found == saved[KeyOf(r)] IN
      /\ InStep(r, "open") /\ tasks'[r].step = "write"
      /\ found \in Definitions \ {tasks[r].new}
      => \/ found \in history[KeyOf(r)]
         \/ /\ found # tasks[r].current
            /\ \E q \in LabRequests : Rival(q, r) /\ tasks[q].new = found
<1>1. ASSUME LInv, NEW r \in LabRequests
      PROVE  kept(r)
  <2> DEFINE found == saved[KeyOf(r)]
  <2> SUFFICES ASSUME InStep(r, "open"), found \in Definitions \ {tasks[r].new}
               PROVE  \/ found \in history[KeyOf(r)]
                      \/ /\ found # tasks[r].current
                         /\ \E q \in LabRequests : Rival(q, r) /\ tasks[q].new = found
    OBVIOUS
  <2>1. /\ found # NoDefinition /\ found \notin Broken
    BY LabAssumption
  <2>2. /\ \/ found \in {tasks[r].current} \cup Broken
           \/ \E q \in LabRequests : Rival(q, r) /\ tasks[q].new = found
        /\ tasks[r].current \in {NoDefinition, tasks[r].new} \cup history[KeyOf(r)]
    BY <1>1 DEF LInv, KeptOK
  <2> QED
    BY <2>1, <2>2
<1>2. LInv => [\A r \in LabRequests : kept(r)]_labVars
  BY <1>1
<1> QED
  BY <1>2, LabInvariant, PTL DEF ReplacedDefinitionsKept

(* A request that has been checked knows a port that has not changed hands *)
(* to be that of its own lab.                                              *)
CheckedOK ==
  \A r \in LabRequests : InStep(r, "send") =>
    tasks[r].seen \in 0 .. moves /\ (tasks[r].seen = moves => holder = tasks[r].lab)

(* What one request's step means for its check and for the lab it reached. *)
Honest(r) ==
  /\ InStep(r, "send")' =>
       \/ tasks'[r].step = tasks[r].step /\ tasks'[r].seen = tasks[r].seen
          /\ tasks'[r].lab = tasks[r].lab
       \/ tasks'[r].seen = moves /\ holder = tasks'[r].lab
  /\ tasks'[r].reached # tasks[r].reached => InStep(r, "send") /\ tasks'[r].reached = holder

LEMMA HonestSteps ==
  ASSUME LInv, [LabNext]_labVars
  PROVE  \/ UNCHANGED tasks /\ (UNCHANGED <<holder, moves>> \/ moves' = moves + 1)
         \/ UNCHANGED <<holder, moves>> /\ \A r \in LabRequests : Honest(r)
<1> DEFINE quiet == UNCHANGED <<holder, moves>> /\ \A r \in LabRequests : Honest(r)
<1>1. CASE UNCHANGED labVars
  BY <1>1 DEF labVars
<1>2. CASE LabDown \/ \E l \in Labs : LabUp(l)
  BY <1>2 DEF LabDown, LabUp
<1>3. ASSUME NEW r \in LabRequests, \A q \in LabRequests \ {r} : tasks'[q] = tasks[q],
             UNCHANGED <<holder, moves>>, Honest(r)
      PROVE  quiet
  BY <1>3 DEF Honest, InStep
<1> HIDE DEF quiet
<1>4. ASSUME NEW r \in LabRequests, NEW l \in Labs, NEW p \in Playbooks,
             NEW d \in Definitions \cup {NoDefinition}, Begin(r, l, p, d)
      PROVE  quiet
  <2>1. /\ tasks'[r].step = "check" /\ tasks'[r].reached = NoLab /\ tasks[r].step = "ready"
        /\ \A q \in LabRequests \ {r} : tasks'[q] = tasks[q]
        /\ UNCHANGED <<holder, moves, library, saved, history, died>>
    BY <1>4, BeginIs DEF LInv
  <2>2. tasks[r].reached = NoLab
    BY <2>1 DEF LInv, SentOK
  <2>3. Honest(r)
    BY <2>1, <2>2 DEF Honest, InStep
  <2> QED
    BY <1>3, <2>1, <2>3
<1>5. ASSUME NEW r \in LabRequests, NEW l \in Labs, NEW p \in Playbooks,
             \/ \E d \in Definitions :
                  \/ BeginSave(r, l, p, d) \/ BeginRestore(r, l, p, d)
                  \/ \E q \in Playbooks : BeginClone(r, l, p, q, d)
             \/ BeginCommand(r, l, p)
      PROVE  quiet
  BY <1>4, <1>5 DEF BeginSave, BeginRestore, BeginClone, BeginCommand
<1>6. ASSUME NEW r \in LabRequests, NEW s \in {"done", "failed"}, Set(r, Ended(tasks[r], s)),
             UNCHANGED <<holder, moves>>
      PROVE  quiet
  <2>1. /\ tasks'[r].step = s /\ tasks'[r].reached = tasks[r].reached
        /\ \A q \in LabRequests \ {r} : tasks'[q] = tasks[q]
    BY <1>6, EndIs DEF LInv
  <2>2. Honest(r)
    BY <2>1 DEF Honest, InStep
  <2> QED
    BY <1>3, <1>6, <2>1, <2>2
<1>7. ASSUME NEW r \in LabRequests, Check(r) PROVE quiet
  <2>1. CASE Set(r, Ended(tasks[r], "failed"))
    BY <1>6, <1>7, <2>1 DEF Check
  <2>2. CASE Belongs(r) /\ Set(r, [tasks[r] EXCEPT !.step = "send", !.seen = moves])
    <3> DEFINE t == [tasks[r] EXCEPT !.step = "send", !.seen = moves]
    <3>1. /\ t \in Task /\ t.step = "send" /\ t.seen = moves /\ t.lab = tasks[r].lab
          /\ t.reached = tasks[r].reached
      BY DEF LInv, TypesOK, Task
    <3>2. Set(r, t) /\ holder = tasks[r].lab /\ UNCHANGED <<holder, moves>>
      BY <1>7, <2>2 DEF Check, Belongs
    <3> HIDE DEF t
    <3>3. tasks'[r] = t /\ \A q \in LabRequests \ {r} : tasks'[q] = tasks[q]
      BY <3>1, <3>2, SetIs DEF LInv
    <3>4. Honest(r)
      BY <3>1, <3>2, <3>3 DEF Honest
    <3> QED
      BY <1>3, <3>2, <3>3, <3>4
  <2> QED
    BY <1>7, <2>1, <2>2 DEF Check
<1>8. ASSUME NEW r \in LabRequests, Send(r) PROVE quiet
  <2>1. /\ tasks[r].step = "send" /\ tasks'[r].step \in {"read", "done", "failed"}
        /\ tasks'[r].reached = holder
        /\ \A q \in LabRequests \ {r} : tasks'[q] = tasks[q]
    BY <1>8, SendIs DEF LInv
  <2>2. Honest(r)
    BY <2>1 DEF Honest, InStep
  <2>3. UNCHANGED <<holder, moves>>
    BY <1>8 DEF Send
  <2> QED
    BY <1>3, <2>1, <2>2, <2>3
<1>9. ASSUME NEW r \in LabRequests, SendFails(r) PROVE quiet
  BY <1>6, <1>9 DEF SendFails
<1>10. ASSUME NEW r \in LabRequests, ReadFile(r) PROVE quiet
  <2> DEFINE found == saved[KeyOf(r)]
             s == IF found \in {NoDefinition, tasks[r].new} THEN "open" ELSE "version"
             t == [tasks[r] EXCEPT !.step = s, !.current = found]
  <2>1. KeyOf(r) \in Keys /\ tasks[r] \in Task
    BY KeysIs DEF LInv
  <2>2. found \in Definitions \cup Broken \cup {NoDefinition} /\ s \in {"open", "version"}
    BY <2>1 DEF LInv, TypesOK
  <2>3. Set(r, t) /\ UNCHANGED <<holder, moves>>
    BY <1>10 DEF ReadFile
  <2> HIDE DEF s, found
  <2>4. t \in Task /\ t.step = s /\ t.reached = tasks[r].reached
    BY <2>1, <2>2 DEF Task
  <2> HIDE DEF t
  <2>5. tasks'[r] = t /\ \A q \in LabRequests \ {r} : tasks'[q] = tasks[q]
    BY <2>3, <2>4, SetIs DEF LInv
  <2>6. Honest(r)
    BY <2>2, <2>4, <2>5 DEF Honest, InStep
  <2> QED
    BY <1>3, <2>3, <2>5, <2>6
<1>11. ASSUME NEW r \in LabRequests, WriteVersion(r) \/ OpenFile(r) PROVE quiet
  <2>1. /\ tasks'[r].step \in {"open", "write"} /\ tasks'[r].reached = tasks[r].reached
        /\ \A q \in LabRequests \ {r} : tasks'[q] = tasks[q]
    BY <1>11, StepIs DEF WriteVersion, OpenFile, LInv
  <2>2. Honest(r)
    BY <2>1 DEF Honest, InStep
  <2>3. UNCHANGED <<holder, moves>>
    BY <1>11 DEF WriteVersion, OpenFile
  <2> QED
    BY <1>3, <2>1, <2>2, <2>3
<1>12. ASSUME NEW r \in LabRequests, WriteFile(r) PROVE quiet
  BY <1>6, <1>12 DEF WriteFile
<1>13. CASE AppDies
  <2>1. ASSUME NEW r \in LabRequests PROVE Honest(r)
    <3>1. tasks[r] \in Task
      BY DEF LInv, TypesOK
    <3>2. CASE UnderWay(r)
      <4>1. tasks'[r] = Ended(tasks[r], "failed")
        BY <1>13, <3>2 DEF AppDies
      <4> QED
        BY <3>1, <4>1, EndedIs DEF Honest, InStep
    <3>3. CASE ~UnderWay(r)
      <4>1. tasks'[r] = tasks[r]
        BY <1>13, <3>3 DEF AppDies
      <4> QED
        BY <4>1 DEF Honest, InStep
    <3> QED
      BY <3>2, <3>3
  <2> QED
    BY <1>13, <2>1 DEF AppDies, quiet
<1> QED
  BY <1>1, <1>2, <1>5, <1>7, <1>8, <1>9, <1>10, <1>11, <1>12, <1>13 DEF LabNext, quiet

LEMMA CheckedStep ==
  ASSUME LInv, CheckedOK, [LabNext]_labVars
  PROVE  CheckedOK'
<1>1. moves \in Nat
  BY DEF LInv, TypesOK
<1> SUFFICES ASSUME NEW r \in LabRequests, InStep(r, "send")'
             PROVE  /\ tasks'[r].seen \in 0 .. moves'
                    /\ tasks'[r].seen = moves' => holder' = tasks'[r].lab
  BY DEF CheckedOK
<1>2. CASE UNCHANGED tasks /\ (UNCHANGED <<holder, moves>> \/ moves' = moves + 1)
  BY <1>1, <1>2 DEF CheckedOK, InStep
<1>3. CASE UNCHANGED <<holder, moves>> /\ Honest(r)
  BY <1>1, <1>3 DEF CheckedOK, InStep, Honest
<1> QED
  BY <1>2, <1>3, HonestSteps

(* _guarded_request and run_chaos_inject act on another exercise's lab     *)
(* only if the port changed hands after they had asked whose it was.       *)
THEOREM RequestsGoHome == LabSpec => RequestsReachTheirLab
<1>1. LabInit => CheckedOK
  BY NewTaskIs DEF LabInit, CheckedOK, InStep
<1>2. LInv /\ CheckedOK /\ [LabNext]_labVars => CheckedOK'
  BY CheckedStep
<1>3. LInv /\ CheckedOK /\ [LabNext]_labVars =>
        [\A r \in LabRequests :
           tasks'[r].reached # tasks[r].reached =>
             tasks'[r].reached = tasks[r].lab \/ moves # tasks[r].seen]_labVars
  <2> SUFFICES ASSUME LInv, CheckedOK, [LabNext]_labVars, NEW r \in LabRequests,
                      tasks'[r].reached # tasks[r].reached
               PROVE  tasks'[r].reached = tasks[r].lab \/ moves # tasks[r].seen
    OBVIOUS
  <2>1. Honest(r)
    BY HonestSteps
  <2> QED
    BY <2>1 DEF Honest, CheckedOK
<1> QED
  BY <1>1, <1>2, <1>3, LabInvariant, PTL DEF LabSpec, RequestsReachTheirLab

=============================================================================
