----------------------------- MODULE LabRuntime -----------------------------
(***************************************************************************)
(* The application's side of the labs (app/services/labs.py and            *)
(* runtime.py, and the handlers of app/main.py that call them).  Every     *)
(* generated lab publishes its chaos controller on the same port: a        *)
(* request asks the controller on the port for its exercise, and then      *)
(* sends.  A playbook is saved to the controller, then to the versions of  *)
(* its package file, then to the file itself; whoever shows or copies one  *)
(* reads the file, and the controller's library where the file is of no    *)
(* use.  The library is part of the lab's state file, which outlives its   *)
(* containers.                                                             *)
(*                                                                         *)
(* Forms and imports are handled on the event loop and do not give it up   *)
(* once their body has arrived; the visual designer's saves, restored      *)
(* versions and commands run in worker threads.  A definition is a value:  *)
(* its text, its id and the normal form the controller gives it are left   *)
(* out, and a clone is the definition it was made from.  Each request is   *)
(* made at most once.                                                      *)
(***************************************************************************)
EXTENDS Integers

CONSTANTS
  Labs,           \* exercises, each with a generated lab
  Playbooks,      \* playbook ids
  Defaults,       \* those every lab is generated with
  Definitions,    \* what a playbook may say
  Generated,      \* the definition a lab is generated with
  LoopRequests,   \* requests handled on the event loop
  ThreadRequests, \* requests handled in worker threads
  MaxMoves,       \* bound: times the port changes hands
  MaxAppDeaths,   \* bound: times the application dies
  NoLab, NoDefinition

LabRequests == LoopRequests \cup ThreadRequests
Keys        == Labs \X Playbooks

(* A file that was opened for writing is empty until it is written.  Two   *)
(* writers of one file may leave it with the text of one and the end of    *)
(* the other's: that may be a YAML mapping, with keys or stages nobody     *)
(* saved, or none.                                                         *)
Mixed  == {"mapping", "garbled"}
Broken == {"empty"} \cup Mixed

ASSUME LabAssumption ==
  /\ Labs # {} /\ Playbooks # {}
  /\ Defaults \subseteq Playbooks /\ Generated \in Definitions
  /\ LoopRequests \cap ThreadRequests = {}
  /\ NoLab \notin Labs /\ NoDefinition \notin Definitions \cup Broken
  /\ Definitions \cap Broken = {}
  /\ MaxMoves \in Nat /\ MaxAppDeaths \in Nat

VARIABLES
  holder,   \* the lab whose controller has the port
  moves,    \* how often the port has changed hands
  library,  \* the playbooks in each lab's state file
  saved,    \* the playbook files of each package
  history,  \* the contents of the version files of each playbook
  tasks,    \* where each request is
  died      \* how often the application has died

labVars == <<holder, moves, library, saved, history, tasks, died>>

(* A request: its exercise and playbook, the definition it saves, the file *)
(* content it found, the moves it saw when it checked, the lab it reached. *)
Task ==
  [step : {"ready", "check", "send", "read", "version", "open", "write",
           "done", "failed"},
   lab : Labs, playbook : Playbooks,
   new : Definitions \cup {NoDefinition},
   current : Definitions \cup Broken \cup {NoDefinition},
   seen : Nat, reached : Labs \cup {NoLab}]

NewTask ==
  [step |-> "ready", lab |-> CHOOSE l \in Labs : TRUE,
   playbook |-> CHOOSE p \in Playbooks : TRUE, new |-> NoDefinition,
   current |-> NoDefinition, seen |-> 0, reached |-> NoLab]

(* Tasks and files have the shape the code gives them, and whoever is past *)
(* sending has a definition to write and reached some controller.          *)
LabTypeOK ==
  /\ holder \in Labs \cup {NoLab} /\ moves \in Nat /\ died \in Nat
  /\ library \in [Keys -> Definitions \cup {NoDefinition}]
  /\ saved \in [Keys -> Definitions \cup Broken \cup {NoDefinition}]
  /\ history \in [Keys -> SUBSET (Definitions \cup Broken)]
  /\ tasks \in [LabRequests -> Task]
  /\ \A r \in LabRequests : tasks[r].step \in {"read", "version", "open", "write"} =>
       tasks[r].new \in Definitions /\ tasks[r].reached \in Labs

(* render_chaos_environment: state file and playbook files of a package.   *)
(* A lab may have been up before the application is.                       *)
LabInit ==
  LET rendered == [k \in Keys |-> IF k[2] \in Defaults THEN Generated ELSE NoDefinition]
  IN  /\ library = rendered /\ saved = rendered
      /\ holder \in Labs \cup {NoLab} /\ moves = 0 /\ died = 0
      /\ history = [k \in Keys |-> {}]
      /\ tasks = [r \in LabRequests |-> NewTask]

KeyOf(r)      == <<tasks[r].lab, tasks[r].playbook>>
InStep(r, s)  == tasks[r].step = s
Set(r, task)  == tasks' = [tasks EXCEPT ![r] = task]
Step(r, s)    == tasks' = [tasks EXCEPT ![r].step = s]
UnderWay(r)   == tasks[r].step \notin {"ready", "done", "failed"}

(* A request that ended: what it meant to save remains of it if it reached *)
(* a controller, and nothing otherwise.                                    *)
Ended(task, s) ==
  IF task.reached = NoLab THEN [NewTask EXCEPT !.step = s]
  ELSE [task EXCEPT !.step = s, !.current = NoDefinition, !.seen = 0]

(* read_playbook_definition: whatever mapping the file holds, or else the  *)
(* library                                                                 *)
Readable(k) == IF saved[k] \in Definitions \cup {"mapping"} THEN saved[k] ELSE library[k]

(* What a text is taken for when it is saved again: itself; some           *)
(* definition, if it is a mapping nobody saved and the controller does not *)
(* refuse it (SendFails); and nothing, if it is no mapping.                *)
TakenFor(text) ==
  {d \in Definitions : text \in {d, "mapping"}}

(***************************************************************************)
(* The port: docker compose up and down, of the application or by hand.    *)
(* Deploying a lab replaces the containers of another.                     *)
(***************************************************************************)

LabUp(l) ==
  /\ holder = NoLab /\ moves < MaxMoves
  /\ holder' = l /\ moves' = moves + 1
  /\ UNCHANGED <<library, saved, history, tasks, died>>

LabDown ==
  /\ holder # NoLab /\ moves < MaxMoves
  /\ holder' = NoLab /\ moves' = moves + 1
  /\ UNCHANGED <<library, saved, history, tasks, died>>

(***************************************************************************)
(* Requests.                                                               *)
(***************************************************************************)

(* Mutant: the handlers of forms are plain functions too. *)
MayBeginAlways(r) == InStep(r, "ready")

(* A coroutine is entered when no other holds the event loop. *)
MayBegin(r) ==
  /\ InStep(r, "ready")
  /\ r \in LoopRequests => \A q \in LoopRequests : ~UnderWay(q)

Begin(r, l, p, d) ==
  /\ MayBegin(r)
  /\ Set(r, [NewTask EXCEPT !.step = "check", !.lab = l, !.playbook = p, !.new = d])
  /\ UNCHANGED <<holder, moves, library, saved, history, died>>

(* An edited definition: the form, an import, the visual designer. *)
BeginSave(r, l, p, d) == Begin(r, l, p, d)

(* clone_playbook_configuration: to an id that is not in use *)
BeginClone(r, l, p, q, d) ==
  /\ r \in LoopRequests
  /\ Readable(<<l, q>>) = NoDefinition /\ d \in TakenFor(Readable(<<l, p>>))
  /\ Begin(r, l, q, d)

(* restore_playbook_version: whatever text is kept as a version *)
BeginRestore(r, l, p, d) ==
  /\ r \in ThreadRequests
  /\ \E text \in history[<<l, p>>] : d \in TakenFor(text)
  /\ Begin(r, l, p, d)

(* Reset, emergency stop, an inject, a playbook's start, pause, resume,    *)
(* stop, replay or skip: nothing to write afterwards.                      *)
BeginCommand(r, l, p) == Begin(r, l, p, NoDefinition)

(* Mutant: the controller is asked whether it is there, not whose it is. *)
BelongsToAny(r) == holder # NoLab

(* matches_exercise of read_control_status *)
Belongs(r) == holder = tasks[r].lab

(* _guarded_request asks the controller first; it may not answer in time. *)
Check(r) ==
  /\ InStep(r, "check")
  /\ \/ Belongs(r) /\ Set(r, [tasks[r] EXCEPT !.step = "send", !.seen = moves])
     \/ Set(r, Ended(tasks[r], "failed"))
  /\ UNCHANGED <<holder, moves, library, saved, history, died>>

(* Then it sends, to whoever has the port by now ... *)
Send(r) ==
  LET save == tasks[r].new # NoDefinition IN
  /\ InStep(r, "send") /\ holder # NoLab
  /\ library' = IF save THEN [library EXCEPT ![<<holder, tasks[r].playbook>>] = tasks[r].new]
                ELSE library
  /\ LET sent == [tasks[r] EXCEPT !.reached = holder] IN
     \/ save /\ Set(r, [sent EXCEPT !.step = "read"])
     \/ ~save /\ Set(r, Ended(sent, "done"))
     \/ Set(r, Ended(sent, "failed"))        \* the answer may be lost
  /\ UNCHANGED <<holder, moves, saved, history, died>>

(* Mutant: the save goes on without the controller. *)
SendFailsUnseen(r) ==
  /\ InStep(r, "send")
  /\ IF tasks[r].new # NoDefinition THEN Step(r, "read")
     ELSE Set(r, Ended(tasks[r], "failed"))
  /\ UNCHANGED <<holder, moves, library, saved, history, died>>

(* ... which may refuse, or not be there. *)
SendFails(r) ==
  /\ InStep(r, "send")
  /\ Set(r, Ended(tasks[r], "failed"))
  /\ UNCHANGED <<holder, moves, library, saved, history, died>>

(* save_playbook_configuration: the file, where there is one, is read ... *)
ReadFile(r) ==
  LET found == saved[KeyOf(r)] IN
  /\ InStep(r, "read")
  /\ Set(r, [tasks[r] EXCEPT
       !.step = IF found \in {NoDefinition, tasks[r].new} THEN "open" ELSE "version",
       !.current = found])
  /\ UNCHANGED <<holder, moves, library, saved, history, died>>

(* ... what it held becomes a version, if it is to change ... *)
WriteVersion(r) ==
  /\ InStep(r, "version")
  /\ history' = [history EXCEPT ![KeyOf(r)] = @ \cup {tasks[r].current}]
  /\ Step(r, "open")
  /\ UNCHANGED <<holder, moves, library, saved, died>>

(* ... the file is opened, and emptied ... *)
OpenFile(r) ==
  /\ InStep(r, "open")
  /\ saved' = [saved EXCEPT ![KeyOf(r)] = "empty"]
  /\ Step(r, "write")
  /\ UNCHANGED <<holder, moves, library, history, died>>

(* What a file holds that is written from its beginning: of a longer text  *)
(* that another has written since it was emptied, the end remains, and     *)
(* nothing changes if the shorter text is how the longer begins.           *)
Overwritten(old, new) ==
  IF old \in {"empty", new} THEN {new} ELSE {old, new} \cup Mixed

(* ... and written. *)
WriteFile(r) ==
  /\ InStep(r, "write")
  /\ \E text \in Overwritten(saved[KeyOf(r)], tasks[r].new) :
       saved' = [saved EXCEPT ![KeyOf(r)] = text]
  /\ Set(r, Ended(tasks[r], "done"))
  /\ UNCHANGED <<holder, moves, library, history, died>>

(* The application dies, and the labs live on. *)
AppDies ==
  /\ died < MaxAppDeaths /\ died' = died + 1
  /\ tasks' = [r \in LabRequests |->
       IF UnderWay(r) THEN Ended(tasks[r], "failed") ELSE tasks[r]]
  /\ UNCHANGED <<holder, moves, library, saved, history>>

LabNext ==
  \/ \E l \in Labs : LabUp(l)
  \/ LabDown
  \/ \E r \in LabRequests, l \in Labs, p \in Playbooks :
       \/ \E d \in Definitions :
            \/ BeginSave(r, l, p, d) \/ BeginRestore(r, l, p, d)
            \/ \E q \in Playbooks : BeginClone(r, l, p, q, d)
       \/ BeginCommand(r, l, p)
  \/ \E r \in LabRequests :
       \/ Check(r) \/ Send(r) \/ SendFails(r)
       \/ ReadFile(r) \/ WriteVersion(r) \/ OpenFile(r) \/ WriteFile(r)
  \/ AppDies

LabSpec == LabInit /\ [][LabNext]_labVars

(***************************************************************************)
(* Properties.                                                             *)
(***************************************************************************)

(* A request for one exercise takes effect in another's lab only if the    *)
(* port changed hands between its check and its sending (_guarded_request, *)
(* run_chaos_inject).                                                      *)
RequestsReachTheirLab ==
  [][\A r \in LabRequests :
       tasks'[r].reached # tasks[r].reached =>
         tasks'[r].reached = tasks[r].lab \/ moves # tasks[r].seen]_labVars

Astray(r) == tasks[r].reached \notin {NoLab, tasks[r].lab}

(* Another request saves, or has saved, the playbook that r saves, and one *)
(* of the two in a worker thread: the event loop does not keep them apart. *)
Rival(q, r) ==
  /\ q # r /\ {q, r} \cap ThreadRequests # {}
  /\ KeyOf(q) = KeyOf(r)
  /\ tasks[q].new # NoDefinition /\ tasks[q].reached # NoLab

Raced(k) ==
  \E r \in LabRequests :
    /\ KeyOf(r) = k /\ tasks[r].new # NoDefinition /\ tasks[r].reached # NoLab
    /\ \E q \in LabRequests : Rival(q, r)

(* Wherever the application dies, a playbook whose file it left empty can  *)
(* still be read, from the library: a save writes the file after the       *)
(* controller took the definition.  A save that went to another lab is the *)
(* exception.  A file holds what nobody saved only if two saves of the     *)
(* playbook raced, one of them in a worker thread; and what is then read   *)
(* of it is that text, if it is a mapping (save_playbook_configuration,    *)
(* read_playbook_definition).                                              *)
DefinitionsReadable ==
  \A k \in Keys : saved[k] \in Broken =>
    /\ \/ Readable(k) \in Definitions
       \/ saved[k] = "mapping" /\ Raced(k)
       \/ \E r \in LabRequests : KeyOf(r) = k /\ Astray(r)
    /\ saved[k] \in Mixed => Raced(k)

(* A definition that a save replaces by another is among the versions,     *)
(* unless it came into the file after the save had read it, by a save that *)
(* the event loop does not keep apart from it: of two saves at once the    *)
(* one may replace the other's definition without a trace, but never what  *)
(* both found (save_playbook_configuration).                               *)
ReplacedDefinitionsKept ==
  [][\A r \in LabRequests :
       LET found == saved[KeyOf(r)] IN
       /\ InStep(r, "open") /\ tasks'[r].step = "write"
       /\ found \in Definitions \ {tasks[r].new}
       => \/ found \in history[KeyOf(r)]
          \/ /\ found # tasks[r].current
             /\ \E q \in LabRequests : Rival(q, r) /\ tasks[q].new = found]_labVars

=============================================================================
