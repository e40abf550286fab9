---------------------------- MODULE DesignProofs ----------------------------
(***************************************************************************)
(* What modules Persistence, ScenarioLibrary, Operations and RunHistory    *)
(* promise, for any number of runs, facilitators, scenarios, packs,        *)
(* checkpoints, objectives, injects and requests in flight, and any length *)
(* of the history: the records that a run is designed from, that it        *)
(* leaves, and that its reports are made of.                               *)
(***************************************************************************)
EXTENDS Persistence, ScenarioLibrary, Operations, RunHistory, FiniteSums,
  FunctionTheorems, SequenceTheorems

(****************************************************************************)
(* The migrations.  Of these the proofs use only the facts of              *)
(* MigrationFacts: a migration has statements, no two of them name the     *)
(* same part, and the columns are read before one is added.                *)
(****************************************************************************)
Steps ==
  {"none", "open", "read", "statement", "record", "commit", "done", "failed", "dead"}

(* What parts are named does not matter. *)
StoreOK(s) ==
  /\ s = [parts |-> s.parts, versions |-> s.versions]
  /\ s.versions \subseteq Versions

CallTypeOK(c) ==
  /\ c = [step |-> c.step, applied |-> c.applied, version |-> c.version, at |-> c.at,
          seen |-> c.seen, raced |-> c.raced]
  /\ c.step \in Steps /\ c.applied \subseteq Versions /\ c.version \in Versions
  /\ c.at \in Nat \ {0} /\ c.raced \in BOOLEAN

Count(v)   == Len(migrations[v])
Kind(v, i) == migrations[v][i].kind
Part(v, i) == migrations[v][i].part

TypesOK ==
  /\ StoreOK(database) /\ StoreOK(draft)
  /\ writer \in Processes \cup {NoProcess}
  /\ calls = [p \in Processes |-> calls[p]]
  /\ \A p \in Processes : CallTypeOK(calls[p])
  /\ starts \in Nat

(* Nothing is drafted without the write lock, and who has it is at work. *)
WriterOK ==
  /\ writer = NoProcess => draft = Nothing
  /\ writer # NoProcess => UnderWay(writer)

(* A version comes after its parts, in what is committed and in the draft. *)
RecordedOK ==
  /\ \A v \in database.versions : Parts(v) \subseteq database.parts
  /\ \A v \in draft.versions : Parts(v) \subseteq database.parts \cup draft.parts

(* What a call has done, or has read, is there for it to see. *)
CallOK(p) ==
  /\ calls[p].step \in {"open", "read"} => writer # p
  /\ UnderWay(p) => calls[p].seen \subseteq View(p).parts
  /\ calls[p].step \in {"statement", "record", "commit"} =>
       calls[p].applied \subseteq database.versions
  /\ calls[p].step \in {"statement", "record"} =>
       \A w \in Versions : w < calls[p].version => w \in View(p).versions
  /\ calls[p].step = "statement" =>
       /\ calls[p].at <= Count(calls[p].version)
       /\ \A i \in 1 .. calls[p].at - 1 :
            Kind(calls[p].version, i) # "columns" =>
              Part(calls[p].version, i) \in View(p).parts
  /\ calls[p].step = "record" => Parts(calls[p].version) \subseteq View(p).parts
  /\ calls[p].step = "commit" => Versions \subseteq View(p).versions
  /\ calls[p].step = "done" => Versions \subseteq database.versions

Lone(p) == UnderWay(p) /\ ~calls[p].raced

(* A call alone sees only versions that it found recorded or recorded      *)
(* itself, and misses no column in what it read that it has yet to add.    *)
OwnOK(p) ==
  Lone(p) =>
    /\ calls[p].step \in {"statement", "record"} =>
         /\ calls[p].version \notin calls[p].applied
         /\ \A w \in View(p).versions :
              w \in calls[p].applied \/ w < calls[p].version
    /\ calls[p].step = "statement" =>
         \A c \in 1 .. calls[p].at - 1, j \in calls[p].at .. Count(calls[p].version) :
           /\ Kind(calls[p].version, c) = "columns"
           /\ Kind(calls[p].version, j) = "add"
           /\ Part(calls[p].version, j) \in View(p).parts
           => Part(calls[p].version, j) \in calls[p].seen

AloneOK(p) == Lone(p) => \A q \in Processes \ {p} : ~UnderWay(q)

PInv ==
  /\ TypesOK /\ WriterOK /\ RecordedOK
  /\ \A p \in Processes : CallOK(p) /\ OwnOK(p) /\ AloneOK(p)
  /\ LoneStartsSucceed

(***************************************************************************)
(* The migrations.                                                         *)
(***************************************************************************)
Distinct(m) == \A i, j \in 1 .. Len(m) : i # j => m[i].part # m[j].part

ReadFirst(m) ==
  \A j \in 1 .. Len(m) :
    m[j].kind = "add" => \E c \in 1 .. j - 1 : m[c].kind = "columns"

Kinds(m) ==
  \A i \in 1 .. Len(m) : m[i].kind \in {"create", "columns", "add"}

Sane(m) ==
  /\ Len(m) \in Nat \ {0} /\ DOMAIN m = 1 .. Len(m)
  /\ Kinds(m) /\ Distinct(m) /\ ReadFirst(m)

LEMMA Sane1 == Sane(Migration1)
<1>1. Len(Migration1) = 4 /\ DOMAIN Migration1 = 1 .. 4
  BY DEF Migration1
<1>2. Kinds(Migration1)
  BY <1>1 DEF Migration1, Kinds, Table
<1>3. Distinct(Migration1)
  BY <1>1 DEF Migration1, Distinct, Table
<1>4. ReadFirst(Migration1)
  BY <1>1 DEF Migration1, ReadFirst, Table
<1> QED
  BY <1>1, <1>2, <1>3, <1>4 DEF Sane

LEMMA Sane2 == Sane(Migration2)
<1>1. Len(Migration2) = 2 /\ DOMAIN Migration2 = 1 .. 2
  BY DEF Migration2
<1>2. Kinds(Migration2)
  BY <1>1 DEF Migration2, Kinds, Columns, Column
<1>3. Distinct(Migration2)
  BY <1>1 DEF Migration2, Distinct, Columns, Column
<1>4. ReadFirst(Migration2)
  BY <1>1 DEF Migration2, ReadFirst, Columns, Column
<1> QED
  BY <1>1, <1>2, <1>3, <1>4 DEF Sane

LEMMA Sane3 == Sane(Migration3)
<1>1. Len(Migration3) = 8 /\ DOMAIN Migration3 = 1 .. 8
  BY DEF Migration3
<1>2. Kinds(Migration3)
  BY <1>1 DEF Migration3, Kinds, Columns, Column
<1>3. Distinct(Migration3)
  BY <1>1 DEF Migration3, Distinct, Columns, Column
<1>4. ReadFirst(Migration3)
  BY <1>1 DEF Migration3, ReadFirst, Columns, Column
<1> QED
  BY <1>1, <1>2, <1>3, <1>4 DEF Sane

LEMMA Sane4 == Sane(Migration4)
<1>1. Len(Migration4) = 4 /\ DOMAIN Migration4 = 1 .. 4
  BY DEF Migration4
<1>2. Kinds(Migration4)
  BY <1>1 DEF Migration4, Kinds, Table, Index
<1>3. Distinct(Migration4)
  BY <1>1 DEF Migration4, Distinct, Table, Index
<1>4. ReadFirst(Migration4)
  BY <1>1 DEF Migration4, ReadFirst, Table, Index
<1> QED
  BY <1>1, <1>2, <1>3, <1>4 DEF Sane

LEMMA Sane5 == Sane(Migration5)
<1>1. Len(Migration5) = 10 /\ DOMAIN Migration5 = 1 .. 10
  BY DEF Migration5
<1>2. Kinds(Migration5)
  BY <1>1 DEF Migration5, Kinds, Table, Index, Columns, Column
<1>3. Distinct(Migration5)
  BY <1>1 DEF Migration5, Distinct, Table, Index, Columns, Column
<1>4. ReadFirst(Migration5)
  BY <1>1 DEF Migration5, ReadFirst, Table, Index, Columns, Column
<1> QED
  BY <1>1, <1>2, <1>3, <1>4 DEF Sane

(* Every migration has statements, names no part twice and reads the       *)
(* columns before it adds one.                                             *)
LEMMA MigrationFacts ==
  /\ Versions = 1 .. 5
  /\ \A v \in Versions : Sane(migrations[v])
<1>1. Versions = 1 .. 5
  BY DEF Versions, migrations
<1>2. ASSUME NEW v \in 1 .. 5
      PROVE  Sane(migrations[v])
  <2>1. v = 1 \/ v = 2 \/ v = 3 \/ v = 4 \/ v = 5
    OBVIOUS
  <2>2. CASE v = 1
    <3>1. migrations[v] = Migration1
      BY <2>2 DEF migrations
    <3> QED
      BY <3>1, Sane1
  <2>3. CASE v = 2
    <3>1. migrations[v] = Migration2
      BY <2>3 DEF migrations
    <3> QED
      BY <3>1, Sane2
  <2>4. CASE v = 3
    <3>1. migrations[v] = Migration3
      BY <2>4 DEF migrations
    <3> QED
      BY <3>1, Sane3
  <2>5. CASE v = 4
    <3>1. migrations[v] = Migration4
      BY <2>5 DEF migrations
    <3> QED
      BY <3>1, Sane4
  <2>6. CASE v = 5
    <3>1. migrations[v] = Migration5
      BY <2>6 DEF migrations
    <3> QED
      BY <3>1, Sane5
  <2> QED
    BY <2>1, <2>2, <2>3, <2>4, <2>5, <2>6
<1> QED
  BY <1>1, <1>2

(* A migration makes the parts of its statements. *)
LEMMA PartsAre ==
  ASSUME NEW v \in Versions
  PROVE  Parts(v) = {Part(v, i) : i \in {j \in 1 .. Count(v) : Kind(v, j) # "columns"}}
<1>1. DOMAIN migrations[v] = 1 .. Count(v)
  BY MigrationFacts DEF Sane, Count
<1> QED
  BY <1>1 DEF Parts, Part, Kind

(***************************************************************************)
(* Where a call goes next.                                                 *)
(***************************************************************************)

LEMMA LeastVersion ==
  ASSUME NEW left \in SUBSET (1 .. 5), left # {}
  PROVE  LET w == CHOOSE w \in left : \A x \in left : w <= x
         IN  w \in left /\ \A x \in left : w <= x
<1>1. \E w \in left : \A x \in left : w <= x
  <2>1. \A x \in left : x = 1 \/ x = 2 \/ x = 3 \/ x = 4 \/ x = 5
    OBVIOUS
  <2>2. CASE 1 \in left
    BY <2>1, <2>2
  <2>3. CASE 1 \notin left /\ 2 \in left
    BY <2>1, <2>3
  <2>4. CASE 1 \notin left /\ 2 \notin left /\ 3 \in left
    BY <2>1, <2>4
  <2>5. CASE 1 \notin left /\ 2 \notin left /\ 3 \notin left /\ 4 \in left
    BY <2>1, <2>5
  <2>6. CASE 1 \notin left /\ 2 \notin left /\ 3 \notin left /\ 4 \notin left
    <3>1. \A x \in left : x = 5
      BY <2>1, <2>6
    <3>2. PICK x \in left : TRUE
      OBVIOUS
    <3> QED
      BY <3>1, <3>2
  <2> QED
    BY <2>2, <2>3, <2>4, <2>5, <2>6
<1> QED
  BY <1>1

(* From leads to the next version that was not found, at its first         *)
(* statement, or to the commit.                                            *)
LEMMA FromLeads ==
  ASSUME NEW call, CallTypeOK(call), NEW v \in 1 .. 6, NEW c, c = From(call, v)
  PROVE  /\ CallTypeOK(c)
         /\ c.applied = call.applied /\ c.seen = call.seen /\ c.raced = call.raced
         /\ \/ c.step = "commit" /\ \A w \in Versions : w >= v => w \in c.applied
            \/ /\ c.step = "statement" /\ c.at = 1
               /\ c.version >= v /\ c.version \notin c.applied
               /\ \A w \in Versions : w >= v /\ w < c.version => w \in c.applied
<1> DEFINE left == {w \in Versions : w >= v /\ w \notin call.applied}
           least == CHOOSE w \in left : \A x \in left : w <= x
<1>1. Versions = 1 .. 5
  BY MigrationFacts
<1>2. CASE left = {}
  <2>1. c = [call EXCEPT !.step = "commit"]
    BY <1>2 DEF From
  <2>2. c = [step |-> "commit", applied |-> call.applied, version |-> call.version,
             at |-> call.at, seen |-> call.seen, raced |-> call.raced]
    BY <2>1 DEF CallTypeOK
  <2> QED
    BY <1>2, <2>2 DEF CallTypeOK, Steps
<1>3. CASE left # {}
  <2>1. left \in SUBSET (1 .. 5)
    BY <1>1
  <2>2. least \in left /\ \A x \in left : least <= x
    <3> HIDE DEF left
    <3> QED
      BY <1>3, <2>1, LeastVersion
  <2>3. c = [call EXCEPT !.step = "statement", !.at = 1, !.version = least]
    BY <1>3 DEF From
  <2>4. c = [step |-> "statement", applied |-> call.applied, version |-> least,
             at |-> 1, seen |-> call.seen, raced |-> call.raced]
    <3> HIDE DEF least
    <3> QED
      BY <2>3 DEF CallTypeOK
  <2>5. \A w \in Versions : w >= v /\ w < least => w \in call.applied
    <3> SUFFICES ASSUME NEW w \in Versions, w >= v, w < least, w \notin call.applied
                 PROVE  FALSE
      OBVIOUS
    <3>1. w \in left /\ least \in Int /\ w \in Int
      BY <1>1, <2>1, <2>2
    <3> HIDE DEF left, least
    <3> QED
      BY <2>2, <3>1
  <2>6. least \in Versions /\ least >= v /\ least \notin call.applied
    BY <2>2
  <2> HIDE DEF least, left
  <2> QED
    BY <2>4, <2>5, <2>6 DEF CallTypeOK, Steps
<1> QED
  BY <1>2, <1>3

(* Following leads to the next statement, or to the record after the last. *)
LEMMA FollowingLeads ==
  ASSUME NEW call, CallTypeOK(call), call.step = "statement",
         call.at <= Count(call.version), NEW c, c = Following(call)
  PROVE  /\ CallTypeOK(c)
         /\ c.applied = call.applied /\ c.seen = call.seen /\ c.raced = call.raced
         /\ c.version = call.version
         /\ \/ c.step = "statement" /\ c.at = call.at + 1 /\ c.at <= Count(call.version)
            \/ c.step = "record" /\ call.at = Count(call.version)
<1>1. Count(call.version) \in Nat
  BY MigrationFacts DEF Sane, Count, CallTypeOK
<1>2. CASE call.at < Count(call.version)
  <2>1. c = [call EXCEPT !.at = @ + 1]
    BY <1>2 DEF Following, Count
  <2>2. c = [step |-> call.step, applied |-> call.applied, version |-> call.version,
             at |-> call.at + 1, seen |-> call.seen, raced |-> call.raced]
    BY <2>1 DEF CallTypeOK
  <2> QED
    BY <1>1, <1>2, <2>2 DEF CallTypeOK
<1>3. CASE ~(call.at < Count(call.version))
  <2>1. c = [call EXCEPT !.step = "record"]
    BY <1>3 DEF Following, Count
  <2>2. c = [step |-> "record", applied |-> call.applied, version |-> call.version,
             at |-> call.at, seen |-> call.seen, raced |-> call.raced]
    BY <2>1 DEF CallTypeOK
  <2> QED
    BY <1>1, <1>3, <2>2 DEF CallTypeOK, Steps
<1> QED
  BY <1>2, <1>3

(* A call whose step changes, and nothing else. *)
LEMMA StepLeads ==
  ASSUME NEW call, CallTypeOK(call), NEW step \in Steps,
         NEW c, c = [call EXCEPT !.step = step]
  PROVE  /\ CallTypeOK(c) /\ c.step = step
         /\ c.seen = call.seen /\ c.raced = call.raced
<1>1. c = [step |-> step, applied |-> call.applied, version |-> call.version,
           at |-> call.at, seen |-> call.seen, raced |-> call.raced]
  BY DEF CallTypeOK
<1> QED
  BY <1>1 DEF CallTypeOK

(***************************************************************************)
(* What a step leaves alone.                                               *)
(***************************************************************************)

LEMMA SetLeaves ==
  ASSUME TypesOK, NEW p \in Processes, NEW c, CallTypeOK(c), Set(p, c)
  PROVE  /\ calls' = [q \in Processes |-> calls'[q]]
         /\ \A q \in Processes : CallTypeOK(calls'[q])
         /\ calls'[p] = c
         /\ \A q \in Processes \ {p} : calls'[q] = calls[q]
<1>1. calls' = [calls EXCEPT ![p] = c]
  BY DEF Set
<1>2. calls = [q \in Processes |-> calls[q]]
  BY DEF TypesOK
<1>3. calls' = [q \in Processes |-> IF q = p THEN c ELSE calls[q]]
  BY <1>1, <1>2
<1> QED
  BY <1>3 DEF TypesOK

LEMMA ViewIs ==
  ASSUME NEW p
  PROVE  /\ writer = p => /\ View(p).parts = database.parts \cup draft.parts
                          /\ View(p).versions = database.versions \cup draft.versions
         /\ writer # p => View(p) = database
BY DEF View

LEMMA ViewWillBe ==
  ASSUME NEW p
  PROVE  /\ writer' = p => /\ View(p)'.parts = database'.parts \cup draft'.parts
                           /\ View(p)'.versions = database'.versions \cup draft'.versions
         /\ writer' # p => View(p)' = database'
BY DEF View

(* A step of one call keeps the invariant if it keeps the call's own part  *)
(* and takes nothing from the views of the others.                         *)
LEMMA Frame ==
  ASSUME PInv, NEW p \in Processes, UnderWay(p),
         TypesOK', WriterOK', RecordedOK', CallOK(p)', OwnOK(p)',
         \A q \in Processes \ {p} : calls'[q] = calls[q],
         calls'[p].raced = calls[p].raced,
         calls'[p].step = "failed" => calls[p].raced,
         database.parts \subseteq database'.parts,
         database.versions \subseteq database'.versions,
         \A q \in Processes \ {p} : writer' = q <=> writer = q,
         writer \in Processes \ {p} => draft' = draft
  PROVE  PInv'
<1>1. ASSUME NEW q \in Processes \ {p}
      PROVE  CallOK(q)'
  <2>1. View(q).parts \subseteq View(q)'.parts
    BY ViewIs, ViewWillBe
  <2>2. View(q).versions \subseteq View(q)'.versions
    BY ViewIs, ViewWillBe
  <2>3. CallOK(q)
    BY DEF PInv
  <2>4. (writer' = q <=> writer = q) /\ calls'[q] = calls[q]
    OBVIOUS
  <2> QED
    BY <2>1, <2>2, <2>3, <2>4 DEF CallOK, UnderWay
<1>2. ASSUME NEW q \in Processes \ {p}
      PROVE  OwnOK(q)' /\ AloneOK(q)'
  BY DEF PInv, AloneOK, OwnOK, Lone, UnderWay
<1>3. AloneOK(p)'
  BY DEF PInv, AloneOK, Lone, UnderWay
<1>4. LoneStartsSucceed'
  BY DEF PInv, LoneStartsSucceed
<1> QED
  BY <1>1, <1>2, <1>3, <1>4 DEF PInv

(***************************************************************************)
(* The steps of a call.                                                    *)
(***************************************************************************)

(* A write that goes through adds to what the call sees, and adds no       *)
(* version.                                                                *)
LEMMA WriteAdds ==
  ASSUME PInv, NEW p \in Processes, NEW parts, Write(p, parts), writer' = writer
  PROVE  /\ StoreOK(database)' /\ StoreOK(draft)'
         /\ View(p)'.parts = View(p).parts \cup parts
         /\ View(p)'.versions = View(p).versions
         /\ database.parts \subseteq database'.parts
         /\ database'.versions = database.versions
         /\ draft'.versions = draft.versions
         /\ writer # p => draft' = draft
         /\ writer \notin Processes \ {p}
         /\ RecordedOK'
<1> USE DEF PInv, TypesOK
<1>1. CASE writer = p
  <2>1. draft' = [parts |-> draft.parts \cup parts, versions |-> draft.versions]
    BY <1>1 DEF Write, StoreOK
  <2>2. database' = database
    BY <1>1 DEF Write
  <2>3. View(p)'.parts = View(p).parts \cup parts /\ View(p)'.versions = View(p).versions
    BY <1>1, <2>1, <2>2, ViewIs, ViewWillBe
  <2>4. RecordedOK'
    BY <2>1, <2>2 DEF RecordedOK
  <2> QED
    BY <1>1, <2>1, <2>2, <2>3, <2>4 DEF StoreOK
<1>2. CASE writer # p
  <2>1. database' = [parts |-> database.parts \cup parts, versions |-> database.versions]
    BY <1>2 DEF Write, StoreOK
  <2>2. draft' = draft /\ writer = NoProcess
    BY <1>2 DEF Write, MayWrite
  <2>3. View(p)'.parts = View(p).parts \cup parts /\ View(p)'.versions = View(p).versions
    BY <1>2, <2>1, ViewIs, ViewWillBe
  <2>4. RecordedOK'
    BY <2>1, <2>2 DEF RecordedOK
  <2>5. NoProcess \notin Processes
    BY PersistenceAssumption
  <2> QED
    BY <1>2, <2>1, <2>2, <2>3, <2>4, <2>5 DEF StoreOK
<1> QED
  BY <1>1, <1>2

LEMMA OpenKeeps ==
  ASSUME PInv, NEW p \in Processes, Open(p)
  PROVE  PInv'
<1> DEFINE c == [calls[p] EXCEPT !.step = "read"]
<1>1. CallTypeOK(c) /\ c.step = "read" /\ c.seen = calls[p].seen /\ c.raced = calls[p].raced
  BY StepLeads DEF PInv, TypesOK, Steps
<1> HIDE DEF c
<1>2. UnderWay(p) /\ Set(p, c) /\ writer' = writer /\ starts' = starts
  BY DEF Open, UnderWay, c
<1>3. /\ calls' = [q \in Processes |-> calls'[q]]
      /\ \A q \in Processes : CallTypeOK(calls'[q])
      /\ calls'[p] = c
      /\ \A q \in Processes \ {p} : calls'[q] = calls[q]
  BY <1>1, <1>2, SetLeaves DEF PInv
<1>4. /\ StoreOK(database)' /\ StoreOK(draft)' /\ RecordedOK'
      /\ View(p).parts \subseteq View(p)'.parts
      /\ database.parts \subseteq database'.parts
      /\ database'.versions = database.versions
      /\ writer # p => draft' = draft
  <2>1. CASE UNCHANGED <<database, draft>>
    <3>1. View(p)' = View(p)
      BY <1>2, <2>1 DEF View
    <3>2. StoreOK(database)' /\ StoreOK(draft)'
      BY <2>1 DEF PInv, TypesOK, StoreOK
    <3>3. RecordedOK'
      BY <2>1 DEF PInv, RecordedOK
    <3> QED
      BY <2>1, <3>1, <3>2, <3>3
  <2>2. CASE Write(p, {VersionTable})
    BY <1>2, <2>2, WriteAdds
  <2> QED
    BY <2>1, <2>2 DEF Open
<1>5. writer # p
  BY DEF PInv, CallOK, Open
<1>6. TypesOK'
  BY <1>2, <1>3, <1>4 DEF PInv, TypesOK
<1>7. WriterOK'
  BY <1>1, <1>2, <1>3, <1>4, <1>5 DEF PInv, TypesOK, WriterOK, UnderWay, Nothing
<1>8. CallOK(p)'
  BY <1>1, <1>2, <1>3, <1>4, <1>5 DEF PInv, CallOK, UnderWay
<1>9. OwnOK(p)'
  BY <1>1, <1>3 DEF OwnOK
<1> QED
  BY <1>1, <1>2, <1>3, <1>4, <1>5, <1>6, <1>7, <1>8, <1>9, Frame

LEMMA ReadKeeps ==
  ASSUME PInv, NEW p \in Processes, Read(p)
  PROVE  PInv'
<1> DEFINE d == [calls[p] EXCEPT !.applied = database.versions]
           c == From(d, 1)
<1>1. d = [step |-> calls[p].step, applied |-> database.versions,
           version |-> calls[p].version, at |-> calls[p].at,
           seen |-> calls[p].seen, raced |-> calls[p].raced]
  BY DEF PInv, TypesOK, CallTypeOK
<1>2. CallTypeOK(d) /\ d.applied = database.versions /\ d.seen = calls[p].seen
      /\ d.raced = calls[p].raced
  BY <1>1 DEF PInv, TypesOK, CallTypeOK, StoreOK
<1> HIDE DEF d
<1>3. /\ CallTypeOK(c) /\ c.applied = database.versions
      /\ c.seen = calls[p].seen /\ c.raced = calls[p].raced
      /\ \/ c.step = "commit" /\ \A w \in Versions : w >= 1 => w \in c.applied
         \/ /\ c.step = "statement" /\ c.at = 1
            /\ c.version >= 1 /\ c.version \notin c.applied
            /\ \A w \in Versions : w >= 1 /\ w < c.version => w \in c.applied
  BY <1>2, FromLeads
<1> HIDE DEF c
<1>4. UnderWay(p) /\ Set(p, c) /\ UNCHANGED <<database, draft, writer, starts>>
  BY DEF Read, UnderWay, c, d
<1>5. /\ calls' = [q \in Processes |-> calls'[q]]
      /\ \A q \in Processes : CallTypeOK(calls'[q])
      /\ calls'[p] = c
      /\ \A q \in Processes \ {p} : calls'[q] = calls[q]
  BY <1>3, <1>4, SetLeaves DEF PInv
<1>6. writer # p /\ View(p) = database /\ View(p)' = database
  BY <1>4 DEF PInv, CallOK, Read, View
<1>7. TypesOK' /\ RecordedOK'
  BY <1>4, <1>5 DEF PInv, TypesOK, RecordedOK, StoreOK
<1>8. WriterOK'
  BY <1>4, <1>5, <1>6 DEF PInv, TypesOK, WriterOK, UnderWay, Nothing
<1>9. \A w \in Versions : w >= 1 /\ Count(w) >= 1
  BY MigrationFacts DEF Sane, Count
<1>10. c.version \in Versions
  BY <1>3 DEF CallTypeOK
<1>11. CallOK(p)'
  BY <1>3, <1>4, <1>5, <1>6, <1>9, <1>10 DEF PInv, CallOK, UnderWay
<1>12. OwnOK(p)'
  BY <1>3, <1>4, <1>5, <1>6 DEF OwnOK
<1> QED
  BY <1>3, <1>4, <1>5, <1>6, <1>7, <1>8, <1>11, <1>12, Frame

(* What is known of a call at a statement. *)
LEMMA AtStatement ==
  ASSUME PInv, NEW p \in Processes, calls[p].step = "statement"
  PROVE  /\ UnderWay(p) /\ CallTypeOK(calls[p])
         /\ calls[p].version \in Versions /\ Sane(migrations[calls[p].version])
         /\ calls[p].at \in 1 .. Count(calls[p].version)
         /\ Count(calls[p].version) \in Nat
BY MigrationFacts DEF PInv, TypesOK, CallTypeOK, CallOK, UnderWay, Sane, Count

LEMMA ReadColumnsKeeps ==
  ASSUME PInv, NEW p \in Processes, ReadColumns(p)
  PROVE  PInv'
<1> DEFINE d == [calls[p] EXCEPT !.seen = View(p).parts]
           c == Following(d)
           v == calls[p].version
           n == calls[p].at
<1>1. /\ UnderWay(p) /\ CallTypeOK(calls[p]) /\ v \in Versions
      /\ n \in 1 .. Count(v) /\ Count(v) \in Nat
  BY AtStatement DEF ReadColumns, InStatement
<1>2. d = [step |-> calls[p].step, applied |-> calls[p].applied,
           version |-> calls[p].version, at |-> calls[p].at,
           seen |-> View(p).parts, raced |-> calls[p].raced]
  BY <1>1 DEF CallTypeOK
<1>3. /\ CallTypeOK(d) /\ d.applied = calls[p].applied /\ d.seen = View(p).parts
      /\ d.raced = calls[p].raced /\ d.at = n /\ d.version = v
      /\ d.step = "statement" /\ d.at <= Count(d.version)
  BY <1>1, <1>2 DEF CallTypeOK, ReadColumns, InStatement
<1> HIDE DEF d
<1>4. /\ CallTypeOK(c) /\ c.applied = calls[p].applied
      /\ c.seen = View(p).parts /\ c.raced = calls[p].raced /\ c.version = v
      /\ \/ c.step = "statement" /\ c.at = n + 1 /\ c.at <= Count(v)
         \/ c.step = "record" /\ n = Count(v)
  BY <1>3, FollowingLeads
<1>5. Set(p, c) /\ UNCHANGED <<database, draft, writer, starts>> /\ Kind(v, n) = "columns"
  BY DEF ReadColumns, InStatement, Statement, Kind, c, d
<1> HIDE DEF c
<1>6. /\ calls' = [q \in Processes |-> calls'[q]]
      /\ \A q \in Processes : CallTypeOK(calls'[q])
      /\ calls'[p] = c
      /\ \A q \in Processes \ {p} : calls'[q] = calls[q]
  BY <1>4, <1>5, SetLeaves DEF PInv
<1>7. View(p)' = View(p)
  BY <1>5 DEF View
<1>8. TypesOK' /\ RecordedOK'
  BY <1>5, <1>6 DEF PInv, TypesOK, RecordedOK, StoreOK
<1>9. WriterOK'
  BY <1>4, <1>5, <1>6 DEF PInv, TypesOK, WriterOK, UnderWay, Nothing
<1>10. \A i \in 1 .. n : Kind(v, i) # "columns" => Part(v, i) \in View(p).parts
  BY <1>1, <1>5 DEF PInv, CallOK, ReadColumns, InStatement
<1>11. c.step = "record" => Parts(v) \subseteq View(p).parts
  BY <1>1, <1>4, <1>10, PartsAre
<1>12. CallOK(p)'
  BY <1>1, <1>4, <1>5, <1>6, <1>7, <1>10, <1>11
  DEF PInv, CallOK, UnderWay, ReadColumns, InStatement
<1>13. OwnOK(p)'
  BY <1>1, <1>4, <1>5, <1>6, <1>7 DEF PInv, OwnOK, Lone, UnderWay, ReadColumns, InStatement
<1> QED
  BY <1>1, <1>4, <1>5, <1>6, <1>8, <1>9, <1>12, <1>13, Frame

(* A statement that makes its part, or finds it made. *)
LEMMA MakingKeeps ==
  ASSUME PInv, NEW p \in Processes, calls[p].step = "statement",
         Statement(p).kind # "columns",
         \/ UNCHANGED <<database, draft>> /\ Statement(p).part \in View(p).parts
         \/ Write(p, {Statement(p).part}),
         Set(p, Following(calls[p])), UNCHANGED <<writer, starts>>
  PROVE  PInv'
<1> DEFINE c == Following(calls[p])
           v == calls[p].version
           n == calls[p].at
<1>1. /\ UnderWay(p) /\ CallTypeOK(calls[p]) /\ v \in Versions
      /\ n \in 1 .. Count(v) /\ Count(v) \in Nat /\ Sane(migrations[v])
  BY AtStatement
<1>2. /\ CallTypeOK(c) /\ c.applied = calls[p].applied
      /\ c.seen = calls[p].seen /\ c.raced = calls[p].raced /\ c.version = v
      /\ \/ c.step = "statement" /\ c.at = n + 1 /\ c.at <= Count(v)
         \/ c.step = "record" /\ n = Count(v)
  BY <1>1, FollowingLeads
<1>3. Set(p, c) /\ Kind(v, n) # "columns" /\ Statement(p).part = Part(v, n)
  BY DEF Statement, Kind, Part
<1> HIDE DEF c
<1>4. /\ calls' = [q \in Processes |-> calls'[q]]
      /\ \A q \in Processes : CallTypeOK(calls'[q])
      /\ calls'[p] = c
      /\ \A q \in Processes \ {p} : calls'[q] = calls[q]
  BY <1>2, <1>3, SetLeaves DEF PInv
<1>5. /\ StoreOK(database)' /\ StoreOK(draft)' /\ RecordedOK'
      /\ View(p)'.parts = View(p).parts \cup {Part(v, n)}
      /\ View(p)'.versions = View(p).versions
      /\ database.parts \subseteq database'.parts
      /\ database'.versions = database.versions
      /\ writer # p => draft' = draft
  <2>1. CASE UNCHANGED <<database, draft>> /\ Statement(p).part \in View(p).parts
    <3>1. View(p)' = View(p)
      BY <2>1 DEF View
    <3>2. StoreOK(database)' /\ StoreOK(draft)'
      BY <2>1 DEF PInv, TypesOK, StoreOK
    <3>3. RecordedOK'
      BY <2>1 DEF PInv, RecordedOK
    <3> QED
      BY <1>3, <2>1, <3>1, <3>2, <3>3
  <2>2. CASE Write(p, {Statement(p).part})
    BY <1>3, <2>2, WriteAdds
  <2> QED
    BY <2>1, <2>2
<1>6. TypesOK'
  BY <1>4, <1>5 DEF PInv, TypesOK
<1>7. WriterOK'
  <2>1. NoProcess \notin Processes
    BY PersistenceAssumption
  <2> QED
    BY <1>2, <1>4, <1>5, <2>1 DEF PInv, TypesOK, WriterOK, UnderWay, Nothing
<1>8. \A i \in 1 .. n : Kind(v, i) # "columns" => Part(v, i) \in View(p)'.parts
  BY <1>1, <1>5 DEF PInv, CallOK
<1>9. c.step = "record" => Parts(v) \subseteq View(p)'.parts
  BY <1>1, <1>2, <1>8, PartsAre
<1>10. CallOK(p)'
  BY <1>1, <1>2, <1>4, <1>5, <1>8, <1>9 DEF PInv, CallOK, UnderWay
<1>11. \A j \in n + 1 .. Count(v) : Part(v, j) # Part(v, n)
  BY <1>1 DEF Sane, Distinct, Part, Count
<1>12. OwnOK(p)'
  BY <1>1, <1>2, <1>3, <1>4, <1>5, <1>11 DEF PInv, OwnOK, Lone, UnderWay
<1> QED
  BY <1>1, <1>2, <1>4, <1>5, <1>6, <1>7, <1>10, <1>12, Frame

LEMMA CreateKeeps ==
  ASSUME PInv, NEW p \in Processes, Create(p)
  PROVE  PInv'
BY MakingKeeps DEF Create, InStatement

LEMMA AddColumnKeeps ==
  ASSUME PInv, NEW p \in Processes, AddColumn(p)
  PROVE  PInv'
<1>1. calls[p].seen \subseteq View(p).parts
  BY DEF PInv, CallOK, UnderWay, AddColumn, InStatement
<1> QED
  BY <1>1, MakingKeeps DEF AddColumn, InStatement, Wanted

LEMMA RecordKeeps ==
  ASSUME PInv, NEW p \in Processes, Record(p)
  PROVE  PInv'
<1> DEFINE v == calls[p].version
           c == From(calls[p], v + 1)
<1>1. UnderWay(p) /\ CallTypeOK(calls[p]) /\ v \in 1 .. 5 /\ v + 1 \in 1 .. 6
  BY MigrationFacts DEF PInv, TypesOK, CallTypeOK, Record, UnderWay
<1>2. /\ CallTypeOK(c) /\ c.applied = calls[p].applied
      /\ c.seen = calls[p].seen /\ c.raced = calls[p].raced
      /\ \/ c.step = "commit" /\ \A w \in Versions : w >= v + 1 => w \in c.applied
         \/ /\ c.step = "statement" /\ c.at = 1
            /\ c.version >= v + 1 /\ c.version \notin c.applied
            /\ \A w \in Versions : w >= v + 1 /\ w < c.version => w \in c.applied
  BY <1>1, FromLeads
<1>3. /\ Set(p, c) /\ writer \in {p, NoProcess} /\ writer' = p
      /\ UNCHANGED <<database, starts>>
  BY DEF Record, MayWrite
<1> HIDE DEF c
<1>4. /\ calls' = [q \in Processes |-> calls'[q]]
      /\ \A q \in Processes : CallTypeOK(calls'[q])
      /\ calls'[p] = c
      /\ \A q \in Processes \ {p} : calls'[q] = calls[q]
  BY <1>2, <1>3, SetLeaves DEF PInv
<1>5. NoProcess \notin Processes
  BY PersistenceAssumption
<1>6. draft' = [parts |-> draft.parts, versions |-> draft.versions \cup {v}]
  BY DEF PInv, TypesOK, StoreOK, Record
<1>7. View(p).parts = database.parts \cup draft.parts
      /\ View(p).versions = database.versions \cup draft.versions
  BY <1>3, <1>5, ViewIs DEF PInv, WriterOK, Nothing
<1>8. View(p)'.parts = View(p).parts /\ View(p)'.versions = View(p).versions \cup {v}
  BY <1>3, <1>6, <1>7, ViewWillBe
<1>9. v \in Versions /\ Versions = 1 .. 5
  BY <1>1, MigrationFacts
<1>10. TypesOK'
  BY <1>3, <1>4, <1>6, <1>9 DEF PInv, TypesOK, StoreOK
<1>11. WriterOK'
  BY <1>2, <1>3, <1>4, <1>5 DEF WriterOK, UnderWay
<1>12. RecordedOK'
  <2>1. Parts(v) \subseteq database.parts \cup draft.parts
    BY <1>7 DEF PInv, CallOK, Record
  <2> QED
    BY <1>3, <1>6, <2>1 DEF PInv, RecordedOK
<1>13. calls[p].applied \subseteq database.versions
       /\ \A w \in Versions : w < v => w \in View(p).versions
  BY DEF PInv, CallOK, Record
<1>14. c.version \in Versions /\ Count(c.version) >= 1
  BY <1>2, MigrationFacts DEF CallTypeOK, Sane, Count
<1>15. c.step = "statement" =>
         \A w \in Versions : w < c.version => w \in View(p)'.versions
  <2> SUFFICES ASSUME c.step = "statement", NEW w \in Versions, w < c.version
               PROVE  w \in View(p)'.versions
    OBVIOUS
  <2>1. w < v \/ w = v \/ w >= v + 1
    BY <1>9
  <2> QED
    BY <1>2, <1>7, <1>8, <1>13, <2>1
<1>16. c.step = "commit" => Versions \subseteq View(p)'.versions
  <2> SUFFICES ASSUME c.step = "commit", NEW w \in Versions
               PROVE  w \in View(p)'.versions
    OBVIOUS
  <2>1. w < v \/ w = v \/ w >= v + 1
    BY <1>9
  <2> QED
    BY <1>2, <1>7, <1>8, <1>13, <2>1
<1>17. c.seen \subseteq View(p)'.parts
  BY <1>1, <1>2, <1>8 DEF PInv, CallOK
<1>18. CallOK(p)'
  BY <1>2, <1>3, <1>4, <1>13, <1>14, <1>15, <1>16, <1>17 DEF CallOK
<1>19. OwnOK(p)'
  <2> SUFFICES ASSUME Lone(p)', c.step = "statement"
               PROVE  \A w \in View(p)'.versions : w \in c.applied \/ w < c.version
    BY <1>2, <1>4 DEF OwnOK
  <2>1. \A w \in View(p).versions : w \in calls[p].applied \/ w < v
    BY <1>1, <1>2, <1>4 DEF PInv, OwnOK, Lone, Record
  <2>2. c.version >= v + 1 /\ c.version \in Int
    BY <1>2, <1>9, <1>14
  <2>3. \A w \in View(p).versions : w \in Int
    BY <1>7, <1>9 DEF PInv, TypesOK, StoreOK
  <2> QED
    BY <1>2, <1>8, <1>9, <2>1, <2>2, <2>3
<1> QED
  BY <1>1, <1>2, <1>3, <1>4, <1>5, <1>10, <1>11, <1>12, <1>18, <1>19, Frame

LEMMA CommitKeeps ==
  ASSUME PInv, NEW p \in Processes, Commit(p)
  PROVE  PInv'
<1> DEFINE c == [calls[p] EXCEPT !.step = "done"]
<1>1. CallTypeOK(c) /\ c.step = "done" /\ c.seen = calls[p].seen /\ c.raced = calls[p].raced
  BY StepLeads DEF PInv, TypesOK, Steps
<1> HIDE DEF c
<1>2. UnderWay(p) /\ Set(p, c) /\ database' = View(p) /\ starts' = starts
  BY DEF Commit, UnderWay, c
<1>3. /\ calls' = [q \in Processes |-> calls'[q]]
      /\ \A q \in Processes : CallTypeOK(calls'[q])
      /\ calls'[p] = c
      /\ \A q \in Processes \ {p} : calls'[q] = calls[q]
  BY <1>1, <1>2, SetLeaves DEF PInv
<1>4. NoProcess \notin Processes
  BY PersistenceAssumption
<1>5. /\ StoreOK(database)' /\ StoreOK(draft)'
      /\ database.parts \subseteq database'.parts
      /\ database.versions \subseteq database'.versions
      /\ Versions \subseteq database'.versions
      /\ writer # p => draft' = draft /\ writer' = writer
      /\ writer = p => draft' = Nothing /\ writer' = NoProcess
  <2>1. Versions \subseteq View(p).versions
    BY DEF PInv, CallOK, Commit
  <2>2. CASE writer = p
    <3>1. database' = [parts |-> database.parts \cup draft.parts,
                       versions |-> database.versions \cup draft.versions]
      BY <1>2, <2>2 DEF View
    <3>2. draft' = Nothing /\ writer' = NoProcess
      BY <2>2 DEF Commit
    <3> QED
      BY <1>2, <2>1, <2>2, <3>1, <3>2 DEF PInv, TypesOK, StoreOK, Nothing
  <2>3. CASE writer # p
    BY <1>2, <2>1, <2>3 DEF PInv, TypesOK, StoreOK, Commit, View
  <2> QED
    BY <2>2, <2>3
<1>6. RecordedOK'
  <2>1. CASE writer = p
    <3>1. /\ database'.parts = database.parts \cup draft.parts
          /\ database'.versions = database.versions \cup draft.versions
      BY <1>2, <2>1, ViewIs
    <3> QED
      BY <1>5, <2>1, <3>1 DEF PInv, RecordedOK, Nothing
  <2>2. CASE writer # p
    BY <1>2, <1>5, <2>2, ViewIs DEF PInv, RecordedOK
  <2> QED
    BY <2>1, <2>2
<1>7. TypesOK'
  BY <1>2, <1>3, <1>5 DEF PInv, TypesOK
<1>8. WriterOK'
  BY <1>3, <1>4, <1>5 DEF PInv, TypesOK, WriterOK, UnderWay, Nothing
<1>9. CallOK(p)'
  BY <1>1, <1>3, <1>5 DEF CallOK, UnderWay
<1>10. OwnOK(p)'
  BY <1>1, <1>3 DEF OwnOK
<1> QED
  BY <1>1, <1>2, <1>3, <1>4, <1>5, <1>6, <1>7, <1>8, <1>9, <1>10, Frame

(* A call that fails or dies takes its draft along. *)
LEMMA EndsKeeps ==
  ASSUME PInv, NEW p \in Processes, UnderWay(p), NEW step \in {"failed", "dead"},
         Ends(p, step), step = "failed" => calls[p].raced
  PROVE  PInv'
<1> DEFINE c == [calls[p] EXCEPT !.step = step]
<1>1. CallTypeOK(c) /\ c.step = step /\ c.seen = calls[p].seen /\ c.raced = calls[p].raced
  BY StepLeads DEF PInv, TypesOK, Steps
<1> HIDE DEF c
<1>2. Set(p, c) /\ UNCHANGED <<database, starts>>
  BY DEF Ends, c
<1>3. /\ calls' = [q \in Processes |-> calls'[q]]
      /\ \A q \in Processes : CallTypeOK(calls'[q])
      /\ calls'[p] = c
      /\ \A q \in Processes \ {p} : calls'[q] = calls[q]
  BY <1>1, <1>2, SetLeaves DEF PInv
<1>4. /\ writer # p => draft' = draft /\ writer' = writer
      /\ writer = p => draft' = Nothing /\ writer' = NoProcess
  BY DEF Ends
<1>5. NoProcess \notin Processes
  BY PersistenceAssumption
<1>6. TypesOK'
  <2>1. StoreOK(draft)'
    BY <1>4 DEF PInv, TypesOK, StoreOK, Nothing
  <2> QED
    BY <1>2, <1>3, <1>4, <2>1 DEF PInv, TypesOK, StoreOK
<1>7. WriterOK'
  BY <1>3, <1>4, <1>5 DEF PInv, TypesOK, WriterOK, UnderWay, Nothing
<1>8. RecordedOK'
  BY <1>2, <1>4 DEF PInv, RecordedOK, Nothing
<1>9. CallOK(p)' /\ OwnOK(p)'
  BY <1>1, <1>3 DEF CallOK, OwnOK, Lone, UnderWay
<1> QED
  BY <1>1, <1>2, <1>3, <1>4, <1>5, <1>6, <1>7, <1>8, <1>9, Frame

(* A call that has the database to itself meets nothing in its way.        *)
LEMMA FailKeeps ==
  ASSUME PInv, NEW p \in Processes, Fail(p)
  PROVE  PInv'
<1>1. UnderWay(p)
  BY DEF Fail, Writes, InStatement, UnderWay
<1>2. calls[p].raced
  <2> SUFFICES ASSUME ~calls[p].raced
               PROVE  FALSE
    BY DEF PInv, TypesOK, CallTypeOK
  <2>1. Lone(p) /\ OwnOK(p) /\ \A q \in Processes \ {p} : ~UnderWay(q)
    BY <1>1 DEF PInv, AloneOK, Lone
  <2>2. MayWrite(p)
    BY <2>1 DEF PInv, TypesOK, WriterOK, MayWrite
  <2>3. ASSUME InStatement(p, "add"), Wanted(p), Statement(p).part \in View(p).parts
        PROVE  FALSE
    <3> DEFINE v == calls[p].version
               n == calls[p].at
    <3>1. n \in 1 .. Count(v) /\ Sane(migrations[v]) /\ Count(v) \in Nat
      BY <2>3, AtStatement DEF InStatement
    <3>2. Kind(v, n) = "add" /\ Part(v, n) \in View(p).parts /\ Part(v, n) \notin calls[p].seen
      BY <2>3 DEF InStatement, Statement, Kind, Part, Wanted
    <3>3. PICK c \in 1 .. n - 1 : Kind(v, c) = "columns"
      BY <3>1, <3>2 DEF Sane, ReadFirst, Kind, Count
    <3>4. n \in n .. Count(v)
      BY <3>1
    <3> QED
      BY <2>1, <2>3, <3>2, <3>3, <3>4 DEF OwnOK, InStatement
  <2>4. ASSUME calls[p].step = "record", calls[p].version \in View(p).versions
        PROVE  FALSE
    <3>1. calls[p].version \in Int
      BY MigrationFacts DEF PInv, TypesOK, CallTypeOK
    <3> QED
      BY <2>1, <2>4, <3>1 DEF OwnOK
  <2> QED
    BY <2>2, <2>3, <2>4 DEF Fail
<1> QED
  BY <1>1, <1>2, EndsKeeps DEF Fail

LEMMA DieKeeps ==
  ASSUME PInv, NEW p \in Processes, Die(p)
  PROVE  PInv'
BY EndsKeeps DEF Die

LEMMA NewCall ==
  ASSUME NEW raced, NEW call, CallTypeOK(call), NEW step,
         NEW c, c = [call EXCEPT !.step = step, !.raced = raced]
  PROVE  c = [step |-> step, applied |-> call.applied, version |-> call.version,
              at |-> call.at, seen |-> call.seen, raced |-> raced]
BY DEF CallTypeOK

(* A new call knows nothing yet, and every other call is no longer alone.  *)
LEMMA StartKeeps ==
  ASSUME PInv, NEW p \in Processes, Start(p)
  PROVE  PInv'
<1> DEFINE others == {q \in Processes \ {p} : UnderWay(q)}
           raced == others # {}
           c == [NotCalled EXCEPT !.step = "open", !.raced = raced]
<1>1. c = [step |-> "open", applied |-> {}, version |-> 1, at |-> 1, seen |-> {},
           raced |-> raced] /\ raced \in BOOLEAN
  <2>1. raced \in BOOLEAN
    OBVIOUS
  <2>2. CallTypeOK(NotCalled)
    BY MigrationFacts DEF NotCalled, CallTypeOK, Steps
  <2>3. /\ NotCalled.applied = {} /\ NotCalled.seen = {}
        /\ NotCalled.version = 1 /\ NotCalled.at = 1
    BY DEF NotCalled
  <2>4. c = [step |-> "open", applied |-> NotCalled.applied, version |-> NotCalled.version,
             at |-> NotCalled.at, seen |-> NotCalled.seen, raced |-> raced]
    <3> HIDE DEF raced
    <3> QED
      BY <2>2, NewCall
  <2> QED
    BY <2>1, <2>3, <2>4
<1>2. UNCHANGED <<database, draft, writer>> /\ starts' = starts + 1 /\ ~UnderWay(p)
  BY DEF Start
<1>3. calls' = [q \in Processes |-> IF q = p THEN c
                  ELSE IF q \in others THEN [calls[q] EXCEPT !.raced = TRUE]
                  ELSE calls[q]]
  BY DEF Start
<1>4. calls'[p] = c
  BY <1>3
<1>5. ASSUME NEW q \in Processes \ {p}
      PROVE  /\ CallTypeOK(calls'[q])
             /\ calls'[q].step = calls[q].step /\ calls'[q].applied = calls[q].applied
             /\ calls'[q].version = calls[q].version /\ calls'[q].at = calls[q].at
             /\ calls'[q].seen = calls[q].seen
             /\ UnderWay(q) => calls'[q].raced
             /\ ~UnderWay(q) => calls'[q].raced = calls[q].raced
  <2>1. CallTypeOK(calls[q])
    BY DEF PInv, TypesOK
  <2>2. CASE UnderWay(q)
    <3>1. calls'[q] = [calls[q] EXCEPT !.raced = TRUE]
      BY <1>3, <2>2
    <3>2. calls'[q] = [step |-> calls[q].step, applied |-> calls[q].applied,
                       version |-> calls[q].version, at |-> calls[q].at,
                       seen |-> calls[q].seen, raced |-> TRUE]
      BY <2>1, <3>1 DEF CallTypeOK
    <3> QED
      BY <2>1, <2>2, <3>2 DEF CallTypeOK
  <2>3. CASE ~UnderWay(q)
    BY <1>3, <2>1, <2>3
  <2> QED
    BY <2>2, <2>3
<1> HIDE DEF c, others, raced
<1>6. CallTypeOK(calls'[p])
  BY <1>1, <1>4, MigrationFacts DEF CallTypeOK, Steps
<1>7. TypesOK'
  <2>1. calls' = [q \in Processes |-> calls'[q]]
    BY <1>3
  <2>2. \A q \in Processes : CallTypeOK(calls'[q])
    BY <1>5, <1>6
  <2> QED
    BY <1>2, <2>1, <2>2 DEF PInv, TypesOK, StoreOK
<1>8. WriterOK' /\ RecordedOK'
  BY <1>2, <1>5 DEF PInv, TypesOK, WriterOK, RecordedOK, UnderWay, Nothing
<1>9. ASSUME NEW q \in Processes
      PROVE  CallOK(q)'
  <2>1. View(q)' = View(q)
    BY <1>2 DEF View
  <2>2. CASE q = p
    <3>1. writer # p
      BY <1>2, PersistenceAssumption DEF PInv, WriterOK
    <3> QED
      BY <1>1, <1>2, <1>4, <2>2, <3>1 DEF CallOK, UnderWay
  <2>3. CASE q # p
    BY <1>2, <1>5, <2>1, <2>3 DEF PInv, CallOK, UnderWay
  <2> QED
    BY <2>2, <2>3
<1>10. ASSUME NEW q \in Processes
       PROVE  OwnOK(q)' /\ AloneOK(q)'
  <2>1. CASE q = p
    <3>1. OwnOK(p)'
      BY <1>1, <1>4 DEF OwnOK
    <3>2. AloneOK(p)'
      <4> SUFFICES ASSUME Lone(p)', NEW q1 \in Processes \ {p}
                   PROVE  ~UnderWay(q1)'
        BY DEF AloneOK
      <4>1. ~raced
        BY <1>1, <1>4 DEF Lone
      <4>2. ~UnderWay(q1)
        BY <4>1 DEF raced, others
      <4> QED
        BY <1>5, <4>2 DEF UnderWay
    <3> QED
      BY <2>1, <3>1, <3>2
  <2>2. CASE q # p
    BY <1>5, <2>2 DEF OwnOK, AloneOK, Lone, UnderWay
  <2> QED
    BY <2>1, <2>2
<1>11. LoneStartsSucceed'
  BY <1>1, <1>4, <1>5 DEF PInv, LoneStartsSucceed, UnderWay
<1> QED
  BY <1>7, <1>8, <1>9, <1>10, <1>11 DEF PInv

LEMMA InitInvariant == PersistenceInit => PInv
<1> SUFFICES ASSUME PersistenceInit
             PROVE  PInv
  OBVIOUS
<1>1. StoreOK(database) /\ \A v \in database.versions : Parts(v) \subseteq database.parts
  <2>1. CASE database = Nothing
    BY <2>1 DEF StoreOK, Nothing
  <2>2. CASE \E old \in SUBSET Parts(2) :
               database = [parts |-> Parts(1) \cup old, versions |-> {}]
    BY <2>2 DEF StoreOK
  <2>3. CASE \E n \in Versions :
               database = [parts |-> Upto(n) \cup {VersionTable}, versions |-> 1 .. n]
    <3>1. PICK n \in Versions :
                 database = [parts |-> Upto(n) \cup {VersionTable}, versions |-> 1 .. n]
      BY <2>3
    <3>2. 1 .. n \subseteq Versions
      BY MigrationFacts
    <3>3. \A v \in 1 .. n : Parts(v) \subseteq Upto(n)
      BY DEF Upto
    <3> QED
      BY <3>1, <3>2, <3>3 DEF StoreOK
  <2> QED
    BY <2>1, <2>2, <2>3 DEF PersistenceInit
<1>2. /\ draft = Nothing /\ writer = NoProcess /\ starts = 0
      /\ calls = [p \in Processes |-> NotCalled]
  BY DEF PersistenceInit
<1>3. CallTypeOK(NotCalled) /\ NotCalled.step = "none"
  BY MigrationFacts DEF NotCalled, CallTypeOK, Steps
<1>4. TypesOK
  <2>1. StoreOK(draft)
    BY <1>2 DEF StoreOK, Nothing
  <2> QED
    BY <1>1, <1>2, <1>3, <2>1 DEF TypesOK
<1>5. WriterOK /\ RecordedOK
  BY <1>1, <1>2 DEF WriterOK, RecordedOK, Nothing
<1>6. \A p \in Processes : calls[p].step = "none"
  BY <1>2, <1>3
<1>7. \A p \in Processes : CallOK(p) /\ OwnOK(p) /\ AloneOK(p)
  BY <1>6 DEF CallOK, OwnOK, AloneOK, Lone, UnderWay
<1>8. LoneStartsSucceed
  BY <1>6 DEF LoneStartsSucceed
<1> QED
  BY <1>4, <1>5, <1>7, <1>8 DEF PInv

(* PInv holds in every reachable state. *)
THEOREM PersistenceInvariant == PersistenceSpec => []PInv
<1>1. PInv /\ [PersistenceNext]_persistenceVars => PInv'
  <2> SUFFICES ASSUME PInv, [PersistenceNext]_persistenceVars
               PROVE  PInv'
    OBVIOUS
  <2>1. CASE UNCHANGED persistenceVars
    BY <2>1 DEF persistenceVars, PInv, TypesOK, StoreOK, WriterOK, RecordedOK, CallOK,
                OwnOK, AloneOK, Lone, UnderWay, View, LoneStartsSucceed, Nothing
  <2>2. ASSUME NEW p \in Processes,
               \/ Start(p) \/ Open(p) \/ Read(p) \/ ReadColumns(p) \/ Create(p)
               \/ AddColumn(p) \/ Record(p) \/ Commit(p) \/ Fail(p) \/ Die(p)
        PROVE  PInv'
    BY <2>2, StartKeeps, OpenKeeps, ReadKeeps, ReadColumnsKeeps, CreateKeeps,
       AddColumnKeeps, RecordKeeps, CommitKeeps, FailKeeps, DieKeeps
  <2> QED
    BY <2>1, <2>2 DEF PersistenceNext
<1> QED
  BY <1>1, InitInvariant, PTL DEF PersistenceSpec

(* A version is recorded only with all that its migration makes, and a     *)
(* call of init_db that returned has left every version: for any number of *)
(* processes and deaths.                                                   *)
THEOREM SchemaStaysSound == PersistenceSpec => []SchemaSound
<1>1. PInv => SchemaSound
  BY DEF PInv, TypesOK, StoreOK, RecordedOK, CallOK, SchemaSound
<1> QED
  BY <1>1, PersistenceInvariant, PTL

(* A call of init_db that no other call was under way with succeeds or     *)
(* dies, whatever the database it found.                                   *)
THEOREM LoneStartsNeverFail == PersistenceSpec => []LoneStartsSucceed
<1>1. PInv => LoneStartsSucceed
  BY DEF PInv
<1> QED
  BY <1>1, PersistenceInvariant, PTL

(***************************************************************************)
(* The design library.                                                     *)
(***************************************************************************)

(* Rows are records with the fields the code gives them. *)
ExerciseOK(e) ==
  /\ e = [base |-> e.base, objectives |-> e.objectives, pack |-> e.pack,
          profile |-> e.profile, injects |-> e.injects, checkpoints |-> e.checkpoints,
          edition |-> e.edition, made |-> e.made]
  /\ e.edition \in Nat /\ e.made \in BOOLEAN
  /\ \A row \in e.injects : row = [inject |-> row.inject, delivered |-> row.delivered]
  /\ \A row \in e.checkpoints :
       row = [checkpoint |-> row.checkpoint, completed |-> row.completed]

RowsOK ==
  /\ DOMAIN exercises \subseteq Exercises
  /\ \A x \in DOMAIN exercises : ExerciseOK(exercises[x])
  /\ making = [exercise |-> making.exercise, injects |-> making.injects,
               checkpoints |-> making.checkpoints]

(* A pack that a start looks for is the built-in one, and a start that has *)
(* led to service has found or made them all.                              *)
SeedsOK ==
  /\ phase \in {"starting", "serving"}
  /\ phase = "serving" => Unseeded = {}
  /\ \A b \in Bases : <<b, 1>> \in DOMAIN packs => packs[<<b, 1>>].design = Builtin(b)

(* A pack is valid, and the design of the exercise it was captured from as *)
(* long as that is not changed.                                            *)
CapturedOK(key) ==
  LET from == packs[key].from IN
  from.exercise # NoExercise =>
    /\ from.exercise \in DOMAIN exercises /\ from.exercise # making.exercise
    /\ from.edition \in Nat /\ from.edition <= exercises[from.exercise].edition
    /\ exercises[from.exercise].edition = from.edition =>
         packs[key].design = DesignOf(from.exercise)

PacksOK == \A key \in DOMAIN packs : Valid(packs[key].design) /\ CapturedOK(key)

(* With the injects and checkpoints it still lacks, an exercise that was   *)
(* launched without a profile and not changed since is as its pack says.   *)
AsPlanned(y, injects, points) ==
  /\ exercises[y].edition = 0
  /\ exercises[y].pack # NoPack /\ exercises[y].profile = NoProfile
  => LET design == packs[exercises[y].pack].design
     IN  /\ exercises[y].pack \in DOMAIN packs
         /\ exercises[y].objectives = design.objectives
         /\ PortableInjects(y) \cup injects =
              OrElse(design.injects, GeneratedInjects(design.base))
         /\ PortableCheckpoints(y) \cup points =
              OrElse(design.checkpoints, DefaultCheckpoints(design.objectives))

MadeOK ==
  /\ \A y \in DOMAIN exercises : exercises[y].made => AsPlanned(y, {}, {})
  /\ Busy =>
       /\ phase = "serving" /\ making.exercise \in DOMAIN exercises
       /\ ~exercises[making.exercise].made
       /\ making.injects # {} => exercises[making.exercise].injects = {}
       /\ AsPlanned(making.exercise, making.injects, making.checkpoints)

LibraryInv == RowsOK /\ SeedsOK /\ PacksOK /\ MadeOK

(* Whatever validation accepts, the generator has an inject for. *)
LEMMA ValidIsAvailable ==
  ASSUME NEW design, Valid(design)
  PROVE  Available(design)
<1>1. \A b \in DOMAIN ChaosModules : ChaosModules[b] \subseteq GeneratedActions[b]
  BY DEF ChaosModules, GeneratedActions
<1> QED BY <1>1 DEF Valid, ValidInject, Available

LEMMA BuiltinValid ==
  ASSUME NEW b \in Bases
  PROVE  Valid(Builtin(b))
<1>1. Cardinality({}) = 0
  BY FS_EmptySet
<1>2. /\ Builtin(b).base = b /\ Builtin(b).injects = {} /\ Builtin(b).checkpoints = {}
      /\ b \in DOMAIN ChaosModules
  BY LibraryAssumption DEF Builtin
<1> QED BY <1>1, <1>2, LibraryAssumption DEF Valid

(* A pack is added, or found to be there already. *)
LEMMA KeepKeeps ==
  ASSUME LibraryInv, NEW key, NEW design, NEW from, Keep(key, design, from),
         Valid(design),
         \A b \in Bases : key = <<b, 1>> => key \in DOMAIN packs \/ design = Builtin(b),
         \/ from = Nowhere
         \/ \E x \in DOMAIN exercises :
              /\ ~Busy /\ design = DesignOf(x)
              /\ from = [exercise |-> x, edition |-> exercises[x].edition],
         UNCHANGED <<phase, exercises, making>>
  PROVE  LibraryInv'
<1>1. CASE key \in DOMAIN packs
  <2>1. packs' = packs
    BY <1>1 DEF Keep
  <2> QED
    BY <2>1 DEF LibraryInv, RowsOK, ExerciseOK, SeedsOK, Unseeded, PacksOK, CapturedOK,
                MadeOK, AsPlanned, Busy, DesignOf, PortableInjects, PortableCheckpoints
<1>2. CASE key \notin DOMAIN packs
  <2> DEFINE row == [design |-> design, from |-> from]
  <2>1. packs' = Add(packs, key, row)
    BY <1>2 DEF Keep
  <2>2. row.design = design /\ row.from = from
    OBVIOUS
  <2> HIDE DEF row
  <2>3. /\ DOMAIN packs' = DOMAIN packs \cup {key}
        /\ packs'[key] = row
        /\ \A k \in DOMAIN packs : packs'[k] = packs[k]
    <3>1. /\ DOMAIN Add(packs, key, row) = DOMAIN packs \cup {key}
          /\ Add(packs, key, row)[key] = row
          /\ \A k \in DOMAIN packs \ {key} : Add(packs, key, row)[k] = packs[k]
      BY DEF Add
    <3> QED BY <1>2, <2>1, <3>1
  <2>4. \A x : DesignOf(x)' = DesignOf(x)
    BY DEF DesignOf, PortableInjects, PortableCheckpoints
  <2>5. RowsOK'
    BY DEF LibraryInv, RowsOK, ExerciseOK
  <2>6. SeedsOK'
    BY <1>2, <2>2, <2>3 DEF LibraryInv, SeedsOK, Unseeded
  <2>7. CapturedOK(key)'
    <3>1. CASE from = Nowhere
      BY <2>2, <2>3, <3>1 DEF CapturedOK, Nowhere
    <3>2. ASSUME NEW x \in DOMAIN exercises, ~Busy, design = DesignOf(x),
                 from = [exercise |-> x, edition |-> exercises[x].edition]
          PROVE  CapturedOK(key)'
      <4>1. from.exercise = x /\ from.edition = exercises[x].edition
        BY <3>2
      <4>2. making.exercise = NoExercise /\ x # NoExercise /\ exercises[x].edition \in Nat
        BY <3>2, LibraryAssumption DEF LibraryInv, RowsOK, ExerciseOK, Busy
      <4> QED BY <2>2, <2>3, <2>4, <3>2, <4>1, <4>2 DEF CapturedOK
    <3> QED BY <3>1, <3>2
  <2>8. PacksOK'
    <3>1. \A k \in DOMAIN packs : CapturedOK(k)'
      BY <2>3, <2>4 DEF LibraryInv, PacksOK, CapturedOK
    <3> QED BY <2>2, <2>3, <2>7, <3>1 DEF LibraryInv, PacksOK, Valid, ValidInject
  <2>9. \A y, i, c : AsPlanned(y, i, c) => AsPlanned(y, i, c)'
    BY <2>3 DEF AsPlanned, PortableInjects, PortableCheckpoints
  <2>10. MadeOK'
    BY <2>9 DEF LibraryInv, MadeOK, Busy
  <2> QED BY <2>5, <2>6, <2>8, <2>10 DEF LibraryInv
<1> QED BY <1>1, <1>2

LEMMA SeedKeeps == LibraryInv /\ Seed => LibraryInv'
<1> SUFFICES ASSUME LibraryInv, Seed PROVE LibraryInv'
  OBVIOUS
<1>1. PICK b \in Unseeded : Keep(<<b, 1>>, Builtin(b), Nowhere)
  BY DEF Seed
<1>2. b \in Bases /\ <<b, 1>> \notin DOMAIN packs
  BY DEF Unseeded
<1>3. \A c \in Bases : <<b, 1>> = <<c, 1>> => Builtin(b) = Builtin(c)
  OBVIOUS
<1>4. Valid(Builtin(b)) /\ UNCHANGED <<phase, exercises, making>>
  BY <1>2, BuiltinValid DEF Seed
<1> DEFINE key == <<b, 1>>
<1> HIDE DEF key
<1>5. /\ Keep(key, Builtin(b), Nowhere)
      /\ \A c \in Bases : key = <<c, 1>> => Builtin(b) = Builtin(c)
  BY <1>1, <1>3 DEF key
<1> QED BY <1>4, <1>5, KeepKeeps

LEMMA ImportKeeps ==
  ASSUME LibraryInv, NEW key, NEW design, Import(key, design)
  PROVE  LibraryInv'
<1>1. \A b \in Bases : key = <<b, 1>> => key \in DOMAIN packs
  BY DEF Import, Serving, LibraryInv, SeedsOK, Unseeded
<1> QED BY <1>1, KeepKeeps DEF Import, Accepts

LEMMA CaptureKeeps ==
  ASSUME LibraryInv, NEW x, NEW key, Capture(x, key)
  PROVE  LibraryInv'
<1>1. \A b \in Bases : key = <<b, 1>> => key \in DOMAIN packs
  BY DEF Capture, Serving, LibraryInv, SeedsOK, Unseeded
<1> DEFINE from == [exercise |-> x, edition |-> exercises[x].edition]
<1>2. /\ Keep(key, DesignOf(x), from) /\ Valid(DesignOf(x))
      /\ x \in DOMAIN exercises /\ ~Busy
      /\ UNCHANGED <<phase, exercises, making>>
  BY DEF Capture, Accepts, Serving
<1>3. from = [exercise |-> x, edition |-> exercises[x].edition]
  OBVIOUS
<1> HIDE DEF from
<1> QED BY <1>1, <1>2, <1>3, KeepKeeps

(* Starting, dying, profiles: no row of a pack or an exercise changes.     *)
LEMMA QuietKeeps ==
  ASSUME LibraryInv,
         Serve \/ LibraryDies \/ (\E p, n : AddProfile(p, n)) \/ UNCHANGED libraryVars
  PROVE  LibraryInv'
<1>1. /\ UNCHANGED <<packs, exercises>>
      /\ \/ UNCHANGED making
         \/ making' = NotMaking
  BY DEF Serve, LibraryDies, AddProfile, libraryVars
<1>2. phase' \in {"starting", "serving"} /\ (phase' = "serving" => Unseeded = {})
  <2>1. CASE Serve
    <3>1. \A b \in Bases \ Unseeded : Accepts(<<b, 1>>, Builtin(b))
      <4> SUFFICES ASSUME NEW b \in Bases, <<b, 1>> \in DOMAIN packs
                   PROVE  Accepts(<<b, 1>>, Builtin(b))
        BY DEF Unseeded
      <4>1. packs[<<b, 1>>].design = Builtin(b)
        BY DEF LibraryInv, SeedsOK
      <4> QED BY <4>1, BuiltinValid DEF Accepts
    <3> QED BY <2>1, <3>1 DEF Serve, Seeded
  <2>2. CASE ~Serve
    BY <2>2 DEF LibraryDies, AddProfile, libraryVars, LibraryInv, SeedsOK
  <2> QED BY <2>1, <2>2
<1>3. /\ RowsOK'
  BY <1>1 DEF LibraryInv, RowsOK, ExerciseOK, NotMaking
<1>4. SeedsOK'
  BY <1>1, <1>2 DEF LibraryInv, SeedsOK, Unseeded
<1>5. PacksOK'
  <2>1. \A x : DesignOf(x)' = DesignOf(x)
    BY <1>1 DEF DesignOf, PortableInjects, PortableCheckpoints
  <2>2. making'.exercise \in {making.exercise, NoExercise}
    BY <1>1 DEF NotMaking
  <2> QED BY <1>1, <2>1, <2>2 DEF LibraryInv, PacksOK, CapturedOK, Valid, ValidInject
<1>6. MadeOK'
  <2>1. \A y, i, c : AsPlanned(y, i, c) => AsPlanned(y, i, c)'
    BY <1>1 DEF AsPlanned, PortableInjects, PortableCheckpoints
  <2>2. Busy' => Busy /\ making' = making /\ phase' = "serving"
    <3>1. CASE Serve
      BY <3>1 DEF Serve, LibraryInv, MadeOK, Busy
    <3>2. CASE LibraryDies
      BY <3>2 DEF LibraryDies, NotMaking, Busy
    <3>3. CASE (\E p, n : AddProfile(p, n)) \/ UNCHANGED libraryVars
      BY <3>3 DEF AddProfile, libraryVars, LibraryInv, MadeOK, Busy
    <3> QED BY <3>1, <3>2, <3>3
  <2> QED BY <1>1, <2>1, <2>2 DEF LibraryInv, MadeOK, Busy
<1> QED BY <1>3, <1>4, <1>5, <1>6 DEF LibraryInv

(* The rows of one exercise change: what the packs captured of the others  *)
(* stays as it is.                                                         *)
LEMMA OneChanges ==
  ASSUME LibraryInv, NEW m \in DOMAIN exercises, NEW e, ExerciseOK(e),
         exercises' = [exercises EXCEPT ![m] = e],
         making' = [exercise |-> making'.exercise, injects |-> making'.injects,
                    checkpoints |-> making'.checkpoints],
         making'.exercise \in {making.exercise, NoExercise},
         UNCHANGED <<phase, packs>>,
         e.base = exercises[m].base, e.objectives = exercises[m].objectives,
         e.edition >= exercises[m].edition,
         \/ m = making.exercise
         \/ e.edition > exercises[m].edition
         \/ /\ {row.inject : row \in e.injects} = PortableInjects(m)
            /\ {row.checkpoint : row \in e.checkpoints} = PortableCheckpoints(m)
  PROVE  /\ RowsOK' /\ SeedsOK' /\ PacksOK'
         /\ DOMAIN exercises' = DOMAIN exercises /\ exercises'[m] = e
         /\ \A x \in DOMAIN exercises \ {m} : exercises'[x] = exercises[x]
         /\ \A x \in DOMAIN exercises \ {m} :
              \A i, c : AsPlanned(x, i, c) => AsPlanned(x, i, c)'
<1>1. /\ DOMAIN exercises' = DOMAIN exercises /\ exercises'[m] = e
      /\ \A x \in DOMAIN exercises \ {m} : exercises'[x] = exercises[x]
  OBVIOUS
<1>2. RowsOK'
  BY <1>1 DEF LibraryInv, RowsOK, ExerciseOK
<1>3. SeedsOK'
  BY DEF LibraryInv, SeedsOK, Unseeded
<1>4. \A x \in DOMAIN exercises \ {m} : DesignOf(x)' = DesignOf(x)
  BY <1>1 DEF DesignOf, PortableInjects, PortableCheckpoints
<1>5. ASSUME NEW key \in DOMAIN packs
      PROVE  CapturedOK(key)'
  <2>0. PICK from : from = packs[key].from /\ from = packs'[key].from
    OBVIOUS
  <2> SUFFICES ASSUME from.exercise # NoExercise
               PROVE  /\ from.exercise \in DOMAIN exercises'
                      /\ from.exercise # making'.exercise
                      /\ from.edition \in Nat
                      /\ from.edition <= exercises'[from.exercise].edition
                      /\ exercises'[from.exercise].edition = from.edition =>
                           packs[key].design = DesignOf(from.exercise)'
    BY <2>0 DEF CapturedOK
  <2>1. /\ from.exercise \in DOMAIN exercises /\ from.exercise # making.exercise
        /\ from.edition \in Nat /\ from.edition <= exercises[from.exercise].edition
        /\ exercises[from.exercise].edition = from.edition =>
             packs[key].design = DesignOf(from.exercise)
    BY <2>0 DEF LibraryInv, PacksOK, CapturedOK
  <2>2. CASE from.exercise # m
    BY <1>1, <1>4, <2>1, <2>2
  <2>3. CASE from.exercise = m
    <3>1. e.edition \in Nat /\ exercises[m].edition \in Nat
      BY DEF LibraryInv, RowsOK, ExerciseOK
    <3>2. /\ PortableInjects(m)' = {row.inject : row \in e.injects}
          /\ PortableCheckpoints(m)' = {row.checkpoint : row \in e.checkpoints}
      BY <1>1 DEF PortableInjects, PortableCheckpoints
    <3>3. ASSUME e.edition = from.edition
          PROVE  DesignOf(m)' = DesignOf(m)
      <4>1. ~(e.edition > exercises[m].edition) /\ m # making.exercise
        BY <2>1, <2>3, <3>1, <3>3
      <4>2. /\ PortableInjects(m)' = PortableInjects(m)
            /\ PortableCheckpoints(m)' = PortableCheckpoints(m)
        BY <3>2, <4>1
      <4> QED BY <1>1, <4>2 DEF DesignOf
    <3>4. from.edition <= e.edition
      BY <2>1, <2>3, <3>1
    <3>5. e.edition = from.edition => exercises[m].edition = from.edition
      BY <2>1, <2>3, <3>1
    <3>6. e.edition = from.edition => packs[key].design = DesignOf(m)'
      BY <2>1, <2>3, <3>3, <3>5
    <3>7. from.exercise # making'.exercise
      BY <2>1
    <3> QED BY <1>1, <2>1, <2>3, <3>4, <3>6, <3>7
  <2> QED BY <2>2, <2>3
<1>6. PacksOK'
  BY <1>5 DEF LibraryInv, PacksOK, Valid, ValidInject
<1>7. \A x \in DOMAIN exercises \ {m} : \A i, c : AsPlanned(x, i, c) => AsPlanned(x, i, c)'
  BY <1>1 DEF AsPlanned, PortableInjects, PortableCheckpoints
<1> QED BY <1>1, <1>2, <1>3, <1>6, <1>7

(* A new exercise lacks everything yet.                                    *)
LEMMA MakeKeeps ==
  ASSUME LibraryInv, NEW x \in Exercises \ DOMAIN exercises, Serving,
         NEW base, NEW objectives, NEW pack, NEW profile, NEW injects, NEW points,
         Make(x, base, objectives, pack, profile, injects, points),
         pack # NoPack /\ profile = NoProfile =>
           /\ pack \in DOMAIN packs
           /\ LET design == packs[pack].design
              IN  /\ objectives = design.objectives
                  /\ injects = OrElse(design.injects, GeneratedInjects(design.base))
                  /\ points =
                       OrElse(design.checkpoints, DefaultCheckpoints(design.objectives))
  PROVE  LibraryInv'
<1> DEFINE e == [base |-> base, objectives |-> objectives, pack |-> pack,
                 profile |-> profile, injects |-> {}, checkpoints |-> {},
                 edition |-> 0, made |-> FALSE]
<1>1. /\ e.objectives = objectives /\ e.pack = pack /\ e.profile = profile
      /\ e.injects = {} /\ e.checkpoints = {} /\ e.edition = 0 /\ ~e.made
  OBVIOUS
<1>2. ExerciseOK(e)
  BY DEF ExerciseOK
<1>3. exercises' = Add(exercises, x, e)
  BY DEF Make
<1> HIDE DEF e
<1>4. /\ DOMAIN exercises' = DOMAIN exercises \cup {x} /\ exercises'[x] = e
      /\ \A y \in DOMAIN exercises : exercises'[y] = exercises[y]
  BY <1>3 DEF Add
<1>5. /\ making' = [exercise |-> x, injects |-> injects, checkpoints |-> points]
      /\ making'.exercise = x /\ making'.injects = injects
      /\ making'.checkpoints = points
      /\ UNCHANGED <<phase, packs>> /\ phase = "serving"
  BY DEF Make, Serving
<1>6. RowsOK'
  BY <1>2, <1>4, <1>5 DEF LibraryInv, RowsOK, ExerciseOK
<1>7. SeedsOK'
  BY <1>5 DEF LibraryInv, SeedsOK, Unseeded
<1>8. \A y \in DOMAIN exercises : DesignOf(y)' = DesignOf(y)
  BY <1>4 DEF DesignOf, PortableInjects, PortableCheckpoints
<1>9. PacksOK'
  <2>1. \A key \in DOMAIN packs : CapturedOK(key)'
    BY <1>4, <1>5, <1>8 DEF LibraryInv, PacksOK, CapturedOK
  <2> QED BY <1>5, <2>1 DEF LibraryInv, PacksOK, Valid, ValidInject
<1>10. \A y \in DOMAIN exercises : \A i, c : AsPlanned(y, i, c) => AsPlanned(y, i, c)'
  BY <1>4, <1>5 DEF AsPlanned, PortableInjects, PortableCheckpoints
<1>11. AsPlanned(x, injects, points)'
  <2>1. PortableInjects(x)' = {} /\ PortableCheckpoints(x)' = {}
    BY <1>1, <1>4 DEF PortableInjects, PortableCheckpoints
  <2> QED BY <1>1, <1>4, <1>5, <2>1 DEF AsPlanned
<1>12. MadeOK'
  BY <1>1, <1>4, <1>5, <1>10, <1>11 DEF LibraryInv, MadeOK, Busy
<1> QED BY <1>6, <1>7, <1>9, <1>12 DEF LibraryInv

LEMMA LaunchKeeps ==
  ASSUME LibraryInv, NEW x \in Exercises,
         \/ \E base, n : CreateExercise(x, base, n)
         \/ \E key, p : CreateFromPack(x, key, p)
  PROVE  LibraryInv'
<1>1. ASSUME NEW base, NEW n, CreateExercise(x, base, n)
      PROVE  LibraryInv'
  BY <1>1, MakeKeeps DEF CreateExercise
<1>2. ASSUME NEW key, NEW p, CreateFromPack(x, key, p)
      PROVE  LibraryInv'
  <2> DEFINE design == packs[key].design
             objectives == IF p = NoProfile THEN design.objectives ELSE profiles[p]
             injects == OrElse(Instantiated(design), GeneratedInjects(design.base))
             points == OrElse(design.checkpoints, DefaultCheckpoints(objectives))
  <2>1. /\ Make(x, design.base, objectives, key, p, injects, points)
        /\ x \notin DOMAIN exercises /\ key \in DOMAIN packs /\ Serving
    BY <1>2 DEF CreateFromPack
  <2>2. /\ p = NoProfile => objectives = design.objectives
        /\ injects = OrElse(design.injects, GeneratedInjects(design.base))
        /\ p = NoProfile =>
             points = OrElse(design.checkpoints, DefaultCheckpoints(design.objectives))
    BY DEF Instantiated
  <2> HIDE DEF objectives, injects, points
  <2> QED BY <2>1, <2>2, MakeKeeps
<1> QED BY <1>1, <1>2

(* What an exercise being made lacks is saved, and then it is made.        *)
LEMMA SavedKeeps ==
  ASSUME LibraryInv, Busy, NEW e, NEW i, NEW c, UNCHANGED <<phase, packs>>,
         NEW m, m = making.exercise,
         exercises' = [exercises EXCEPT ![m] = e],
         LET old == exercises[m]
         IN  e = [base |-> old.base, objectives |-> old.objectives, pack |-> old.pack,
                  profile |-> old.profile, injects |-> e.injects,
                  checkpoints |-> e.checkpoints, edition |-> old.edition,
                  made |-> e.made],
         e.made \in BOOLEAN,
         \A row \in e.injects : row = [inject |-> row.inject, delivered |-> row.delivered],
         \A row \in e.checkpoints :
           row = [checkpoint |-> row.checkpoint, completed |-> row.completed],
         \/ /\ ~e.made
            /\ making' = [exercise |-> m, injects |-> i, checkpoints |-> c]
         \/ making' = NotMaking /\ i = {} /\ c = {},
         i # {} => e.injects = {},
         {row.inject : row \in e.injects} \cup i =
           PortableInjects(m) \cup making.injects,
         {row.checkpoint : row \in e.checkpoints} \cup c =
           PortableCheckpoints(m) \cup making.checkpoints
  PROVE  LibraryInv'
<1> DEFINE old == exercises[m]
<1>1. /\ m \in DOMAIN exercises /\ ExerciseOK(old) /\ phase = "serving"
      /\ AsPlanned(m, making.injects, making.checkpoints)
  BY DEF LibraryInv, MadeOK, RowsOK
<1>2. /\ e.base = old.base /\ e.objectives = old.objectives /\ e.pack = old.pack
      /\ e.profile = old.profile /\ e.edition = old.edition /\ old.edition \in Nat
  BY <1>1 DEF ExerciseOK
<1>3. ExerciseOK(e)
  BY <1>2 DEF ExerciseOK
<1>4. /\ making' = [exercise |-> making'.exercise, injects |-> making'.injects,
                    checkpoints |-> making'.checkpoints]
      /\ making'.exercise \in {m, NoExercise}
      /\ ~Busy' \/ (making'.exercise = m /\ ~e.made)
      /\ making'.injects = i /\ making'.checkpoints = c
  <2>1. CASE making' = NotMaking /\ i = {} /\ c = {}
    BY <2>1 DEF NotMaking, Busy
  <2>2. CASE /\ ~e.made
             /\ making' = [exercise |-> m, injects |-> i, checkpoints |-> c]
    <3>1. making'.exercise = m /\ making'.injects = i /\ making'.checkpoints = c
      BY <2>2
    <3> QED BY <2>2, <3>1
  <2> QED BY <2>1, <2>2
<1>5. /\ RowsOK' /\ SeedsOK' /\ PacksOK'
      /\ DOMAIN exercises' = DOMAIN exercises /\ exercises'[m] = e
      /\ \A x \in DOMAIN exercises \ {m} : exercises'[x] = exercises[x]
      /\ \A x \in DOMAIN exercises \ {m} : \A j, d : AsPlanned(x, j, d) => AsPlanned(x, j, d)'
  <2>1. /\ e.base = exercises[m].base /\ e.objectives = exercises[m].objectives
        /\ e.edition >= exercises[m].edition
    BY <1>2
  <2>2. making'.exercise \in {making.exercise, NoExercise}
    BY <1>4
  <2>3. \/ m = making.exercise
        \/ e.edition > exercises[m].edition
        \/ /\ {row.inject : row \in e.injects} = PortableInjects(m)
           /\ {row.checkpoint : row \in e.checkpoints} = PortableCheckpoints(m)
    OBVIOUS
  <2>4. making' = [exercise |-> making'.exercise, injects |-> making'.injects,
                   checkpoints |-> making'.checkpoints]
    BY <1>4
  <2> HIDE DEF old
  <2> QED BY <1>1, <1>3, <2>1, <2>2, <2>3, <2>4, OneChanges
<1>6. AsPlanned(m, i, c)'
  <2>1. /\ PortableInjects(m)' = {row.inject : row \in e.injects}
        /\ PortableCheckpoints(m)' = {row.checkpoint : row \in e.checkpoints}
    BY <1>5 DEF PortableInjects, PortableCheckpoints
  <2> QED BY <1>1, <1>2, <1>5, <2>1 DEF AsPlanned
<1>7. e.made => i = {} /\ c = {}
  OBVIOUS
<1>8. MadeOK'
  <2>1. \A y \in DOMAIN exercises' : exercises'[y].made => AsPlanned(y, {}, {})'
    BY <1>5, <1>6, <1>7 DEF LibraryInv, MadeOK
  <2> QED BY <1>1, <1>4, <1>5, <1>6, <2>1 DEF MadeOK, Busy
<1> QED BY <1>5, <1>8 DEF LibraryInv

LEMMA SavingKeeps ==
  ASSUME LibraryInv, SaveInjects \/ SaveCheckpoint \/ FinishMaking
  PROVE  LibraryInv'
<1>0. PICK m : m = making.exercise
  OBVIOUS
<1> DEFINE old == exercises[m]
<1>1. /\ Busy /\ m \in DOMAIN exercises /\ ExerciseOK(old) /\ ~old.made
      /\ UNCHANGED <<phase, packs>>
      /\ making.injects # {} => old.injects = {}
      /\ making = [exercise |-> m, injects |-> making.injects,
                   checkpoints |-> making.checkpoints]
  BY <1>0 DEF SaveInjects, SaveCheckpoint, FinishMaking, LibraryInv, MadeOK, RowsOK
<1>2. CASE SaveInjects
  <2> DEFINE rows == {InjectRow(i) : i \in making.injects}
             e == [old EXCEPT !.injects = rows]
             left == {}
  <2>1. \A row \in rows : row = [inject |-> row.inject, delivered |-> row.delivered]
    BY DEF InjectRow
  <2>2. {row.inject : row \in rows} = making.injects
    <3>1. \A i : InjectRow(i).inject = i
      BY DEF InjectRow
    <3> QED BY <3>1
  <2>3. PortableInjects(m) = {}
    BY <1>0, <1>1, <1>2 DEF SaveInjects, PortableInjects
  <2>4. exercises' = [exercises EXCEPT ![m] = e]
    BY <1>0, <1>1, <1>2 DEF SaveInjects
  <2>5. making' = [exercise |-> m, injects |-> left, checkpoints |-> making.checkpoints]
    BY <1>0, <1>1, <1>2 DEF SaveInjects
  <2> HIDE DEF rows
  <2>6. /\ e = [base |-> old.base, objectives |-> old.objectives, pack |-> old.pack,
                profile |-> old.profile, injects |-> e.injects,
                checkpoints |-> e.checkpoints, edition |-> old.edition, made |-> e.made]
        /\ e.injects = rows /\ e.checkpoints = old.checkpoints /\ ~e.made
    BY <1>1 DEF ExerciseOK
  <2>7. \A row \in e.checkpoints :
           row = [checkpoint |-> row.checkpoint, completed |-> row.completed]
    BY <1>1, <2>6 DEF ExerciseOK
  <2>8. {row.checkpoint : row \in e.checkpoints} = PortableCheckpoints(m)
    BY <2>6 DEF PortableCheckpoints
  <2>9. /\ left # {} => e.injects = {}
        /\ {row.inject : row \in e.injects} \cup left = PortableInjects(m) \cup making.injects
        /\ e.made \in BOOLEAN
    BY <1>1, <2>2, <2>3, <2>6 DEF ExerciseOK
  <2> HIDE DEF e, left
  <2> QED BY <1>0, <1>1, <2>1, <2>4, <2>5, <2>6, <2>7, <2>8, <2>9, SavedKeeps
<1>3. CASE SaveCheckpoint
  <2>1. PICK c \in making.checkpoints :
           /\ exercises' = [exercises EXCEPT ![m].checkpoints = @ \cup {CheckpointRow(c)}]
           /\ making' = [making EXCEPT !.checkpoints = @ \ {c}]
    BY <1>0, <1>3 DEF SaveCheckpoint
  <2> DEFINE rows == old.checkpoints \cup {CheckpointRow(c)}
             e == [old EXCEPT !.checkpoints = rows]
             left == making.checkpoints \ {c}
             none == {}
  <2>2. \A row \in rows : row = [checkpoint |-> row.checkpoint, completed |-> row.completed]
    BY <1>1 DEF CheckpointRow, ExerciseOK
  <2>3. {row.checkpoint : row \in rows} \cup left =
          PortableCheckpoints(m) \cup making.checkpoints
    <3>1. CheckpointRow(c).checkpoint = c
      BY DEF CheckpointRow
    <3> QED BY <2>1, <3>1 DEF PortableCheckpoints
  <2>4. exercises' = [exercises EXCEPT ![m] = e]
    BY <1>0, <1>1, <2>1
  <2>5. making' = [exercise |-> m, injects |-> none, checkpoints |-> left]
    BY <1>0, <1>1, <1>3, <2>1 DEF SaveCheckpoint
  <2> HIDE DEF rows
  <2>6. /\ e = [base |-> old.base, objectives |-> old.objectives, pack |-> old.pack,
                profile |-> old.profile, injects |-> e.injects,
                checkpoints |-> e.checkpoints, edition |-> old.edition, made |-> e.made]
        /\ e.injects = old.injects /\ e.checkpoints = rows /\ ~e.made
        /\ e.made \in BOOLEAN
    BY <1>1 DEF ExerciseOK
  <2>7. /\ \A row \in e.injects :
             row = [inject |-> row.inject, delivered |-> row.delivered]
        /\ {row.inject : row \in e.injects} \cup none = PortableInjects(m) \cup making.injects
        /\ none = {}
    BY <1>0, <1>1, <1>3, <2>6 DEF ExerciseOK, SaveCheckpoint, PortableInjects
  <2> HIDE DEF e, left, none
  <2> QED BY <1>0, <1>1, <2>2, <2>3, <2>4, <2>5, <2>6, <2>7, SavedKeeps
<1>4. CASE FinishMaking
  <2> DEFINE e == [old EXCEPT !.made = TRUE]
             none == {}
  <2>1. exercises' = [exercises EXCEPT ![m] = e]
    BY <1>0, <1>1, <1>4 DEF FinishMaking
  <2>2. making' = NotMaking /\ making.injects = none /\ making.checkpoints = none
    BY <1>0, <1>4 DEF FinishMaking
  <2> HIDE DEF none
  <2>9. e = [base |-> old.base, objectives |-> old.objectives, pack |-> old.pack,
             profile |-> old.profile, injects |-> old.injects,
             checkpoints |-> old.checkpoints, edition |-> old.edition, made |-> TRUE]
    <3>1. old = [base |-> old.base, objectives |-> old.objectives, pack |-> old.pack,
                 profile |-> old.profile, injects |-> old.injects,
                 checkpoints |-> old.checkpoints, edition |-> old.edition,
                 made |-> old.made]
      BY <1>1 DEF ExerciseOK
    <3> HIDE DEF old
    <3>2. ASSUME NEW yes
          PROVE  [old EXCEPT !.made = yes] =
                   [base |-> old.base, objectives |-> old.objectives, pack |-> old.pack,
                    profile |-> old.profile, injects |-> old.injects,
                    checkpoints |-> old.checkpoints, edition |-> old.edition,
                    made |-> yes]
      BY <3>1
    <3> QED BY <3>2 DEF e
  <2> HIDE DEF e
  <2>3. /\ e = [base |-> old.base, objectives |-> old.objectives, pack |-> old.pack,
                profile |-> old.profile, injects |-> e.injects,
                checkpoints |-> e.checkpoints, edition |-> old.edition, made |-> e.made]
        /\ e.injects = old.injects /\ e.checkpoints = old.checkpoints /\ e.made
        /\ e.made \in BOOLEAN
    BY <2>9
  <2>4. /\ \A row \in e.injects :
             row = [inject |-> row.inject, delivered |-> row.delivered]
        /\ \A row \in e.checkpoints :
             row = [checkpoint |-> row.checkpoint, completed |-> row.completed]
        /\ {row.inject : row \in e.injects} = PortableInjects(m)
        /\ {row.checkpoint : row \in e.checkpoints} = PortableCheckpoints(m)
    BY <1>1, <2>3 DEF ExerciseOK, PortableInjects, PortableCheckpoints
  <2>5. none = {}
    BY DEF none
  <2> QED BY <1>0, <1>1, <2>1, <2>2, <2>3, <2>4, <2>5, SavedKeeps
<1> QED BY <1>2, <1>3, <1>4

(* A change of an exercise is counted, or it leaves its design as it is.   *)
LEMMA BecomesKeeps ==
  ASSUME LibraryInv, NEW x \in DOMAIN exercises, NEW e, NEW tailored \in BOOLEAN,
         Becomes(x, e, tailored),
         LET old == exercises[x]
         IN  e = [base |-> old.base, objectives |-> old.objectives, pack |-> old.pack,
                  profile |-> old.profile, injects |-> e.injects,
                  checkpoints |-> e.checkpoints, edition |-> old.edition,
                  made |-> old.made],
         \A row \in e.injects : row = [inject |-> row.inject, delivered |-> row.delivered],
         \A row \in e.checkpoints :
           row = [checkpoint |-> row.checkpoint, completed |-> row.completed],
         \/ tailored
         \/ /\ {row.inject : row \in e.injects} = PortableInjects(x)
            /\ {row.checkpoint : row \in e.checkpoints} = PortableCheckpoints(x),
         exercises[x].injects = {} => e.injects = {} \/ ~Busy
  PROVE  LibraryInv'
<1> DEFINE edition == IF tailored THEN exercises[x].edition + 1 ELSE exercises[x].edition
           f == [e EXCEPT !.edition = IF tailored THEN @ + 1 ELSE @]
<1>1. ExerciseOK(exercises[x])
  BY DEF LibraryInv, RowsOK
<1>2. /\ e.base = exercises[x].base /\ e.objectives = exercises[x].objectives
      /\ e.pack = exercises[x].pack /\ e.profile = exercises[x].profile
      /\ e.edition = exercises[x].edition /\ e.made = exercises[x].made
  OBVIOUS
<1>3. f = [base |-> e.base, objectives |-> e.objectives, pack |-> e.pack,
           profile |-> e.profile, injects |-> e.injects,
           checkpoints |-> e.checkpoints, edition |-> edition, made |-> e.made]
  BY <1>2
<1>4. exercises' = [exercises EXCEPT ![x] = f] /\ UNCHANGED <<phase, packs, making>>
  BY DEF Becomes
<1> HIDE DEF f
<1>5. /\ f = [base |-> f.base, objectives |-> f.objectives, pack |-> f.pack,
              profile |-> f.profile, injects |-> f.injects,
              checkpoints |-> f.checkpoints, edition |-> f.edition, made |-> f.made]
      /\ f.injects = e.injects /\ f.checkpoints = e.checkpoints
      /\ f.base = exercises[x].base /\ f.objectives = exercises[x].objectives
      /\ f.pack = exercises[x].pack /\ f.profile = exercises[x].profile
      /\ f.edition = edition /\ f.made = exercises[x].made
  BY <1>2, <1>3
<1>6. exercises[x].edition \in Nat /\ exercises[x].made \in BOOLEAN
  BY <1>1 DEF ExerciseOK
<1>7. f.edition \in Nat /\ f.edition >= exercises[x].edition
  BY <1>5, <1>6
<1>8. ExerciseOK(f)
  BY <1>5, <1>6, <1>7 DEF ExerciseOK
<1>9. \/ tailored /\ f.edition > exercises[x].edition
      \/ /\ f.edition = exercises[x].edition
         /\ {row.inject : row \in f.injects} = PortableInjects(x)
         /\ {row.checkpoint : row \in f.checkpoints} = PortableCheckpoints(x)
  BY <1>5, <1>6
<1>10. making' = [exercise |-> making'.exercise, injects |-> making'.injects,
                  checkpoints |-> making'.checkpoints]
  BY <1>4 DEF LibraryInv, RowsOK
<1>11. /\ RowsOK' /\ SeedsOK' /\ PacksOK'
       /\ DOMAIN exercises' = DOMAIN exercises /\ exercises'[x] = f
       /\ \A y \in DOMAIN exercises \ {x} : exercises'[y] = exercises[y]
       /\ \A y \in DOMAIN exercises \ {x} : \A j, d : AsPlanned(y, j, d) => AsPlanned(y, j, d)'
  <2>1. making'.exercise \in {making.exercise, NoExercise}
    BY <1>4
  <2>2. \/ x = making.exercise
        \/ f.edition > exercises[x].edition
        \/ /\ {row.inject : row \in f.injects} = PortableInjects(x)
           /\ {row.checkpoint : row \in f.checkpoints} = PortableCheckpoints(x)
    BY <1>9
  <2> QED BY <1>4, <1>5, <1>7, <1>8, <1>10, <2>1, <2>2, OneChanges
<1>12. ASSUME NEW j, NEW d, AsPlanned(x, j, d)
       PROVE  AsPlanned(x, j, d)'
  <2>1. CASE f.edition > exercises[x].edition
    BY <1>6, <1>7, <1>11, <2>1 DEF AsPlanned
  <2>2. CASE /\ f.edition = exercises[x].edition
             /\ {row.inject : row \in f.injects} = PortableInjects(x)
             /\ {row.checkpoint : row \in f.checkpoints} = PortableCheckpoints(x)
    <3>1. /\ PortableInjects(x)' = {row.inject : row \in f.injects}
          /\ PortableCheckpoints(x)' = {row.checkpoint : row \in f.checkpoints}
      BY <1>11 DEF PortableInjects, PortableCheckpoints
    <3> QED BY <1>4, <1>5, <1>11, <1>12, <2>2, <3>1 DEF AsPlanned
  <2> QED BY <1>9, <2>1, <2>2
<1>13. \A y \in DOMAIN exercises : \A j, d : AsPlanned(y, j, d) => AsPlanned(y, j, d)'
  BY <1>11, <1>12
<1>14. MadeOK'
  BY <1>4, <1>5, <1>11, <1>13 DEF LibraryInv, MadeOK, Busy
<1> QED BY <1>11, <1>14 DEF LibraryInv

(* Its injects or its checkpoints change.                                  *)
LEMMA InjectsBecome ==
  ASSUME LibraryInv, NEW x \in DOMAIN exercises, NEW injects, NEW tailored \in BOOLEAN,
         Becomes(x, [exercises[x] EXCEPT !.injects = injects], tailored),
         \A row \in injects : row = [inject |-> row.inject, delivered |-> row.delivered],
         tailored \/ {row.inject : row \in injects} = PortableInjects(x),
         ~Busy \/ exercises[x].injects # {}
  PROVE  LibraryInv'
<1> DEFINE old == exercises[x]
           e == [old EXCEPT !.injects = injects]
<1>1. ExerciseOK(old)
  BY DEF LibraryInv, RowsOK
<1>2. /\ e = [base |-> old.base, objectives |-> old.objectives, pack |-> old.pack,
              profile |-> old.profile, injects |-> e.injects,
              checkpoints |-> e.checkpoints, edition |-> old.edition, made |-> old.made]
      /\ e.injects = injects /\ e.checkpoints = old.checkpoints
  <2>1. old = [base |-> old.base, objectives |-> old.objectives, pack |-> old.pack,
               profile |-> old.profile, injects |-> old.injects,
               checkpoints |-> old.checkpoints, edition |-> old.edition,
               made |-> old.made]
    BY <1>1 DEF ExerciseOK
  <2> HIDE DEF old
  <2> QED BY <2>1
<1>3. /\ \A row \in e.injects : row = [inject |-> row.inject, delivered |-> row.delivered]
      /\ \A row \in e.checkpoints :
           row = [checkpoint |-> row.checkpoint, completed |-> row.completed]
  BY <1>1, <1>2 DEF ExerciseOK
<1>4. \/ tailored
      \/ /\ {row.inject : row \in e.injects} = PortableInjects(x)
         /\ {row.checkpoint : row \in e.checkpoints} = PortableCheckpoints(x)
  BY <1>2 DEF PortableCheckpoints
<1>5. exercises[x].injects = {} => e.injects = {} \/ ~Busy
  OBVIOUS
<1>6. Becomes(x, e, tailored)
  OBVIOUS
<1> HIDE DEF e
<1> QED BY <1>2, <1>3, <1>4, <1>5, <1>6, BecomesKeeps

LEMMA CheckpointsBecome ==
  ASSUME LibraryInv, NEW x \in DOMAIN exercises, NEW points, NEW tailored \in BOOLEAN,
         Becomes(x, [exercises[x] EXCEPT !.checkpoints = points], tailored),
         \A row \in points :
           row = [checkpoint |-> row.checkpoint, completed |-> row.completed],
         tailored \/ {row.checkpoint : row \in points} = PortableCheckpoints(x)
  PROVE  LibraryInv'
<1> DEFINE old == exercises[x]
           e == [old EXCEPT !.checkpoints = points]
<1>1. ExerciseOK(old)
  BY DEF LibraryInv, RowsOK
<1>2. /\ e = [base |-> old.base, objectives |-> old.objectives, pack |-> old.pack,
              profile |-> old.profile, injects |-> e.injects,
              checkpoints |-> e.checkpoints, edition |-> old.edition, made |-> old.made]
      /\ e.injects = old.injects /\ e.checkpoints = points
  <2>1. old = [base |-> old.base, objectives |-> old.objectives, pack |-> old.pack,
               profile |-> old.profile, injects |-> old.injects,
               checkpoints |-> old.checkpoints, edition |-> old.edition,
               made |-> old.made]
    BY <1>1 DEF ExerciseOK
  <2> HIDE DEF old
  <2> QED BY <2>1
<1>3. /\ \A row \in e.injects : row = [inject |-> row.inject, delivered |-> row.delivered]
      /\ \A row \in e.checkpoints :
           row = [checkpoint |-> row.checkpoint, completed |-> row.completed]
  BY <1>1, <1>2 DEF ExerciseOK
<1>4. \/ tailored
      \/ /\ {row.inject : row \in e.injects} = PortableInjects(x)
         /\ {row.checkpoint : row \in e.checkpoints} = PortableCheckpoints(x)
  BY <1>2 DEF PortableInjects
<1>5. exercises[x].injects = {} => e.injects = {} \/ ~Busy
  BY <1>2
<1>6. Becomes(x, e, tailored)
  OBVIOUS
<1> HIDE DEF e
<1> QED BY <1>2, <1>3, <1>4, <1>5, <1>6, BecomesKeeps

LEMMA TailorKeeps ==
  ASSUME LibraryInv, TailorStep
  PROVE  LibraryInv'
<1>1. PICK x \in DOMAIN exercises :
        \/ \E o \in NoObjective .. exercises[x].objectives - 1 : CheckpointAdded(x, o)
        \/ ArtifactAdded(x)
        \/ \E row \in {i \in exercises[x].injects : ~i.delivered} :
             \/ \E offset \in Offsets, auto \in BOOLEAN : Schedule(x, row, offset, auto)
             \/ ClearSchedule(x, row)
             \/ Deliver(x, row)
        \/ \E row \in {c \in exercises[x].checkpoints : ~c.completed} :
             CheckpointCompleted(x, row)
  BY DEF TailorStep
<1>2. ExerciseOK(exercises[x])
  BY DEF LibraryInv, RowsOK
<1>3. ASSUME NEW o, CheckpointAdded(x, o)
      PROVE  LibraryInv'
  <2> DEFINE new == [title |-> "added", objective |-> o]
             rows == exercises[x].checkpoints \cup {CheckpointRow(new)}
  <2>1. Becomes(x, [exercises[x] EXCEPT !.checkpoints = rows], TRUE)
    BY <1>2, <1>3 DEF CheckpointAdded, ExerciseOK
  <2>2. \A row \in rows : row = [checkpoint |-> row.checkpoint, completed |-> row.completed]
    BY <1>2 DEF ExerciseOK, CheckpointRow
  <2> HIDE DEF rows
  <2> QED BY <2>1, <2>2, CheckpointsBecome
<1>4. CASE ArtifactAdded(x)
  <2> DEFINE new == Portable("artifact", "facilitator", NoOffset, FALSE)
             rows == exercises[x].injects \cup {InjectRow(new)}
  <2>1. Becomes(x, [exercises[x] EXCEPT !.injects = rows], TRUE) /\ ~Busy
    BY <1>2, <1>4 DEF ArtifactAdded, ExerciseOK
  <2>2. \A row \in rows : row = [inject |-> row.inject, delivered |-> row.delivered]
    <3>1. InjectRow(new) = [inject |-> InjectRow(new).inject,
                            delivered |-> InjectRow(new).delivered]
      <4> HIDE DEF new
      <4> QED BY DEF InjectRow
    <3> HIDE DEF new
    <3> QED BY <1>2, <3>1 DEF ExerciseOK
  <2> HIDE DEF rows
  <2> QED BY <2>1, <2>2, InjectsBecome
<1>5. ASSUME NEW old \in exercises[x].injects, NEW inject, NEW delivered,
             NEW tailored \in BOOLEAN, tailored \/ inject = old.inject,
             Becomes(x, Replaced(x, old, [inject |-> inject, delivered |-> delivered]),
                     tailored)
      PROVE  LibraryInv'
  <2> DEFINE new == [inject |-> inject, delivered |-> delivered]
             rows == (exercises[x].injects \ {old}) \cup {new}
  <2>1. Becomes(x, [exercises[x] EXCEPT !.injects = rows], tailored)
    BY <1>2, <1>5 DEF Replaced, ExerciseOK
  <2>2. \A row \in rows : row = [inject |-> row.inject, delivered |-> row.delivered]
    <3>1. new = [inject |-> new.inject, delivered |-> new.delivered]
      OBVIOUS
    <3> HIDE DEF new
    <3> QED BY <1>2, <3>1 DEF ExerciseOK
  <2>3. tailored \/ {row.inject : row \in rows} = PortableInjects(x)
    BY <1>5 DEF PortableInjects
  <2> HIDE DEF rows
  <2> QED BY <1>5, <2>1, <2>2, <2>3, InjectsBecome
<1>6. ASSUME NEW row \in exercises[x].injects,
             \/ \E offset, auto : Schedule(x, row, offset, auto)
             \/ ClearSchedule(x, row)
             \/ Deliver(x, row)
      PROVE  LibraryInv'
  <2>1. ASSUME NEW offset, NEW auto, Schedule(x, row, offset, auto)
        PROVE  LibraryInv'
    BY <1>5, <2>1 DEF Schedule, InjectRow
  <2>2. CASE ClearSchedule(x, row)
    BY <1>5, <2>2 DEF ClearSchedule, InjectRow
  <2>3. CASE Deliver(x, row)
    <3>1. [row EXCEPT !.delivered = TRUE] = [inject |-> row.inject, delivered |-> TRUE]
      <4>1. row = [inject |-> row.inject, delivered |-> row.delivered]
        BY <1>2 DEF ExerciseOK
      <4>2. \A d : [row EXCEPT !.delivered = d] = [inject |-> row.inject, delivered |-> d]
        BY <4>1
      <4> QED BY <4>2
    <3> QED BY <1>5, <2>3, <3>1 DEF Deliver
  <2> QED BY <1>6, <2>1, <2>2, <2>3
<1>7. ASSUME NEW old \in exercises[x].checkpoints, CheckpointCompleted(x, old)
      PROVE  LibraryInv'
  <2> DEFINE new == [checkpoint |-> old.checkpoint, completed |-> TRUE]
             rows == (exercises[x].checkpoints \ {old}) \cup {new}
  <2>0. [old EXCEPT !.completed = TRUE] = new
    <3>1. old = [checkpoint |-> old.checkpoint, completed |-> old.completed]
      BY <1>2 DEF ExerciseOK
    <3>2. \A d : [old EXCEPT !.completed = d] =
                  [checkpoint |-> old.checkpoint, completed |-> d]
      BY <3>1
    <3> QED BY <3>2
  <2>1. Becomes(x, [exercises[x] EXCEPT !.checkpoints = rows], FALSE)
    BY <1>2, <1>7, <2>0 DEF CheckpointCompleted, ExerciseOK
  <2>2. \A row \in rows : row = [checkpoint |-> row.checkpoint, completed |-> row.completed]
    BY <1>2 DEF ExerciseOK
  <2>3. {row.checkpoint : row \in rows} = PortableCheckpoints(x)
    <3>1. new.checkpoint = old.checkpoint
      OBVIOUS
    <3> HIDE DEF new
    <3> QED BY <3>1 DEF PortableCheckpoints
  <2> HIDE DEF rows
  <2> QED BY <2>1, <2>2, <2>3, CheckpointsBecome
<1> QED BY <1>1, <1>3, <1>4, <1>6, <1>7

LEMMA LibraryInvHolds == LibrarySpec => []LibraryInv
<1>1. LibraryInit => LibraryInv
  <2> SUFFICES ASSUME LibraryInit PROVE LibraryInv
    OBVIOUS
  <2>1. DOMAIN packs = {} /\ DOMAIN exercises = {} /\ phase = "starting" /\ ~Busy
    BY DEF LibraryInit, NotMaking, Busy
  <2>2. RowsOK
    BY <2>1 DEF RowsOK, LibraryInit, NotMaking
  <2>3. SeedsOK
    BY <2>1 DEF SeedsOK
  <2> QED BY <2>1, <2>2, <2>3 DEF LibraryInv, PacksOK, MadeOK
<1>2. LibraryInv /\ [LibraryNext]_libraryVars => LibraryInv'
  <2> SUFFICES ASSUME LibraryInv, [LibraryNext]_libraryVars PROVE LibraryInv'
    OBVIOUS
  <2>1. CASE Seed
    BY <2>1, SeedKeeps
  <2>2. CASE Serve \/ LibraryDies \/ (\E p, n : AddProfile(p, n)) \/ UNCHANGED libraryVars
    BY <2>2, QuietKeeps
  <2>3. ASSUME NEW key, NEW design, Import(key, design)
        PROVE  LibraryInv'
    BY <2>3, ImportKeeps
  <2>4. ASSUME NEW x, NEW key, Capture(x, key)
        PROVE  LibraryInv'
    BY <2>4, CaptureKeeps
  <2>5. ASSUME NEW x \in Exercises,
               \/ \E base, n : CreateExercise(x, base, n)
               \/ \E key, p : CreateFromPack(x, key, p)
        PROVE  LibraryInv'
    BY <2>5, LaunchKeeps
  <2>6. CASE SaveInjects \/ SaveCheckpoint \/ FinishMaking
    BY <2>6, SavingKeeps
  <2>7. CASE TailorStep
    BY <2>7, TailorKeeps
  <2> QED BY <2>1, <2>2, <2>3, <2>4, <2>5, <2>6, <2>7 DEF LibraryNext
<1> QED BY <1>1, <1>2, PTL DEF LibrarySpec

(* The application always starts again, and every pack it accepted can be  *)
(* made into an exercise: seed_builtin_scenario_packs finds what it made   *)
(* whichever death cut it short, as nothing is imported or captured before *)
(* the built-in packs are there, and validate_scenario_pack lets no inject *)
(* pass that _instantiate_inject does not find.                            *)
THEOREM LibraryStaysUsable == LibrarySpec => []LibraryUsable
<1>1. LibraryInv => LibraryUsable
  BY ValidIsAvailable DEF LibraryInv, SeedsOK, PacksOK, LibraryUsable
<1> QED BY <1>1, LibraryInvHolds, PTL

(* An exercise that was launched from a captured pack has the design of    *)
(* the exercise that was captured, as long as neither was changed since:   *)
(* whatever was imported, made, tailored or cut short in between.          *)
THEOREM CapturesAlwaysRecreate == LibrarySpec => []CapturesRecreate
<1>1. LibraryInv => CapturesRecreate
  <2> SUFFICES ASSUME LibraryInv, NEW y \in DOMAIN exercises, exercises[y].made,
                      exercises[y].edition = 0, exercises[y].pack # NoPack,
                      exercises[y].profile = NoProfile,
                      packs[exercises[y].pack].from.exercise # NoExercise,
                      exercises[packs[exercises[y].pack].from.exercise].edition =
                        packs[exercises[y].pack].from.edition
               PROVE  Recreates(y, packs[exercises[y].pack].from.exercise)
    BY DEF CapturesRecreate
  <2> DEFINE pack == exercises[y].pack
             x == packs[pack].from.exercise
  <2>1. AsPlanned(y, {}, {})
    BY DEF LibraryInv, MadeOK
  <2>2. pack \in DOMAIN packs
    BY <2>1 DEF AsPlanned
  <2>3. packs[pack].design = DesignOf(x)
    BY <2>2 DEF LibraryInv, PacksOK, CapturedOK
  <2>4. /\ packs[pack].design.base = exercises[x].base
        /\ packs[pack].design.objectives = exercises[x].objectives
        /\ packs[pack].design.injects = PortableInjects(x)
        /\ packs[pack].design.checkpoints = PortableCheckpoints(x)
    BY <2>3 DEF DesignOf
  <2>5. /\ exercises[y].objectives = packs[pack].design.objectives
        /\ PortableInjects(y) =
             OrElse(packs[pack].design.injects, GeneratedInjects(packs[pack].design.base))
        /\ PortableCheckpoints(y) =
             OrElse(packs[pack].design.checkpoints,
                    DefaultCheckpoints(packs[pack].design.objectives))
    BY <2>1 DEF AsPlanned
  <2> QED BY <2>4, <2>5 DEF Recreates
<1> QED BY <1>1, LibraryInvHolds, PTL

(***************************************************************************)
(* What is done to an exercise.                                            *)
(***************************************************************************)

(* Rows, bags and requests are what their names say. *)
Bag(bag) == bag \in [DOMAIN bag -> Nat \ {0}]

HandlerOK(h) ==
  /\ h = [step |-> h.step, event |-> h.event, after |-> h.after, seen |-> h.seen]
  /\ h.event = Event(h.event.kind, h.event.on)
  /\ h.event.kind # "none" <=> h.step = "event"
  /\ h.event.kind = "none" => h.event = NoEvent
  /\ h.after \in {"idle", "start"}
  /\ h.step = "set" =>
       /\ h.seen.command \in DOMAIN Moves
       /\ h.seen.status \in Moves[h.seen.command].from

RequestsOK ==
  /\ Bag(log) /\ Bag(lost)
  /\ handlers = [r \in OperationRequests |-> handlers[r]]
  /\ \A r \in OperationRequests : HandlerOK(handlers[r])

TablesOK ==
  /\ status \in {"created", "running", "paused", "completed"}
  /\ DOMAIN checkpoints \subseteq SeededCheckpoints \cup Checkpoints
  /\ DOMAIN improvements \subseteq Improvements
  /\ DOMAIN assessments \subseteq Objectives
  /\ \A o \in DOMAIN assessments : assessments[o] \in DOMAIN Points
  /\ DOMAIN triggered \subseteq Injects \cup Artifacts
  /\ \A i \in DOMAIN triggered : triggered[i] \in BOOLEAN
  /\ chaosRuns.safe \in Nat /\ chaosRuns.ended \in Nat
  /\ chaosRuns.safe <= chaosRuns.ended

LEMMA EventIs ==
  ASSUME NEW kind, NEW on
  PROVE  /\ Event(kind, on).kind = kind /\ Event(kind, on).on = on
         /\ \A k, o : Event(k, o) = Event(kind, on) => k = kind /\ o = on
         /\ kind # "none" => Event(kind, on) # NoEvent
<1>1. \A k, o : Event(k, o).kind = k /\ Event(k, o).on = o
  BY DEF Event
<1> QED BY <1>1 DEF NoEvent

LEMMA CopiesType ==
  ASSUME NEW bag, Bag(bag), NEW e
  PROVE  /\ Copies(e, bag) \in Nat
         /\ e \in DOMAIN bag <=> Copies(e, bag) > 0
BY DEF Bag, Copies

LEMMA AddedOnce ==
  ASSUME NEW bag, Bag(bag), NEW e
  PROVE  /\ Bag(WithEvent(bag, e))
         /\ DOMAIN WithEvent(bag, e) = DOMAIN bag \cup {e}
         /\ Copies(e, WithEvent(bag, e)) = Copies(e, bag) + 1
         /\ \A f : f # e => Copies(f, WithEvent(bag, e)) = Copies(f, bag)
BY DEF Bag, WithEvent, Row, Copies

LEMMA ToldType ==
  ASSUME NEW e
  PROVE  IsFiniteSet(Told(e)) /\ Cardinality(Told(e)) \in Nat
<1>1. Told(e) \in SUBSET OperationRequests
  BY DEF Told
<1> QED BY <1>1, FS_Subset, FS_CardinalityType, OperationsAssumption

LEMMA TimesType ==
  ASSUME RequestsOK, NEW kind, NEW on
  PROVE  Times(kind, on) \in Nat
BY CopiesType, ToldType DEF RequestsOK, Times

(***************************************************************************)
(* Every step counts for at most one event.                                *)
(***************************************************************************)
Steady == \A k, o : k # "none" => Times(k, o)' = Times(k, o)

Tells(kind, on) ==
  /\ Times(kind, on)' = Times(kind, on) + 1
  /\ \A k, o : k # "none" /\ (k # kind \/ o # on) => Times(k, o)' = Times(k, o)

(* One request moves on, with the event it had or without one.             *)
LEMMA MovesOn ==
  ASSUME RequestsOK, NEW r \in OperationRequests, NEW h, HandlerOK(h), Now(r, h)
  PROVE  /\ handlers' = [q \in OperationRequests |-> handlers'[q]]
         /\ \A q \in OperationRequests : HandlerOK(handlers[q])'
         /\ handlers'[r] = h
         /\ \A q \in OperationRequests \ {r} : handlers'[q] = handlers[q]
<1>1. /\ handlers'[r] = h
      /\ handlers' = [q \in OperationRequests |-> handlers'[q]]
      /\ \A q \in OperationRequests \ {r} : handlers'[q] = handlers[q]
  BY DEF RequestsOK, Now
<1>2. \A q \in OperationRequests : HandlerOK(handlers[q])'
  BY <1>1 DEF RequestsOK, HandlerOK
<1> QED BY <1>1, <1>2

LEMMA WaitingOK ==
  ASSUME NEW step, step \notin {"event", "set"}
  PROVE  HandlerOK([Waiting EXCEPT !.step = step]) /\ HandlerOK(Waiting)
<1> DEFINE h == [Waiting EXCEPT !.step = step]
<1>1. h = [step |-> step, event |-> NoEvent, after |-> "idle", seen |-> << >>]
  BY DEF Waiting
<1>2. NoEvent.kind = "none" /\ NoEvent = Event(NoEvent.kind, NoEvent.on)
  BY DEF NoEvent, Event
<1> HIDE DEF h
<1>3. HandlerOK(h)
  BY <1>1, <1>2 DEF HandlerOK
<1>4. HandlerOK(Waiting)
  BY <1>2 DEF HandlerOK, Waiting
<1> QED BY <1>3, <1>4 DEF h

(* A request has its event logged next.                                    *)
LEMMA LogsTells ==
  ASSUME RequestsOK, NEW r \in OperationRequests, handlers[r].step # "event",
         NEW kind, kind # "none", NEW on, NEW h, HandlerOK(h), Now(r, h),
         h.event = Event(kind, on), UNCHANGED <<log, lost>>
  PROVE  Tells(kind, on)
<1> DEFINE e == Event(kind, on)
<1>1. /\ handlers'[r] = h
      /\ \A q \in OperationRequests \ {r} : handlers'[q] = handlers[q]
  BY MovesOn
<1>2. handlers[r].event = NoEvent
  BY DEF RequestsOK, HandlerOK
<1>3. e # NoEvent /\ \A k, o : k # "none" => Event(k, o) # NoEvent
  BY EventIs
<1>4. r \notin Told(e) /\ Told(e)' = Told(e) \cup {r}
  BY <1>1, <1>2, <1>3 DEF Told
<1>5. Cardinality(Told(e)') = Cardinality(Told(e)) + 1
  BY <1>4, ToldType, FS_AddElement
<1>6. ASSUME NEW k, k # "none", NEW o, k # kind \/ o # on
      PROVE  Told(Event(k, o))' = Told(Event(k, o))
  <2>1. Event(k, o) # e /\ Event(k, o) # NoEvent
    BY <1>3, <1>6, EventIs
  <2> QED BY <1>1, <1>2, <2>1 DEF Told
<1>7. \A f : Copies(f, log)' = Copies(f, log) /\ Copies(f, lost)' = Copies(f, lost)
  BY DEF Copies
<1>8. /\ Copies(e, log) \in Nat /\ Copies(e, lost) \in Nat
      /\ Cardinality(Told(e)) \in Nat
  BY CopiesType, ToldType DEF RequestsOK
<1>9. Times(kind, on)' = Times(kind, on) + 1
  BY <1>5, <1>7, <1>8 DEF Times
<1> QED BY <1>6, <1>7, <1>9 DEF Tells, Times

(* A request that has no event to log moves on without one.                *)
LEMMA QuietSteady ==
  ASSUME RequestsOK, NEW r \in OperationRequests, handlers[r].step # "event",
         NEW h, HandlerOK(h), h.step # "event", Now(r, h), UNCHANGED <<log, lost>>
  PROVE  Steady
<1>1. /\ handlers'[r] = h
      /\ \A q \in OperationRequests \ {r} : handlers'[q] = handlers[q]
  BY MovesOn
<1>2. handlers[r].event = NoEvent /\ h.event = NoEvent
  BY DEF RequestsOK, HandlerOK
<1>3. ASSUME NEW k, k # "none", NEW o
      PROVE  Told(Event(k, o))' = Told(Event(k, o))
  <2>1. Event(k, o) # NoEvent
    BY <1>3, EventIs
  <2> QED BY <1>1, <1>2, <2>1 DEF Told
<1>4. \A f : Copies(f, log)' = Copies(f, log) /\ Copies(f, lost)' = Copies(f, lost)
  BY DEF Copies
<1> QED BY <1>3, <1>4 DEF Steady, Times

LEMMA WriteSteady ==
  ASSUME RequestsOK, NEW r \in OperationRequests, WriteEvent(r)
  PROVE  Steady
<1>0. PICK e : e = handlers[r].event
  OBVIOUS
<1> DEFINE h == [Waiting EXCEPT !.step = handlers[r].after]
<1>1. /\ HandlerOK(h) /\ h.event = NoEvent
  <2>1. handlers[r].after \notin {"event", "set"}
    BY DEF RequestsOK, HandlerOK
  <2> QED BY <2>1, WaitingOK DEF Waiting
<1>2. Now(r, h) /\ log' = WithEvent(log, e) /\ lost' = lost
  BY <1>0 DEF WriteEvent, rest
<1> HIDE DEF h
<1>3. /\ handlers'[r] = h
      /\ \A q \in OperationRequests \ {r} : handlers'[q] = handlers[q]
  BY <1>1, <1>2, MovesOn
<1>4. e # NoEvent
  BY <1>0 DEF WriteEvent, RequestsOK, HandlerOK, NoEvent, Event
<1>5. /\ Copies(e, log') = Copies(e, log) + 1
      /\ \A f : f # e => Copies(f, log') = Copies(f, log)
  BY <1>2, AddedOnce DEF RequestsOK
<1>6. Told(e)' = Told(e) \ {r} /\ r \in Told(e)
  BY <1>0, <1>1, <1>3, <1>4 DEF Told
<1>7. ASSUME NEW f, f # NoEvent
      PROVE  Copies(f, log') + Cardinality(Told(f)') = Copies(f, log) + Cardinality(Told(f))
  <2>1. CASE f = e
    <3>1. Cardinality(Told(e)') = Cardinality(Told(e)) - 1
      BY <1>6, ToldType, FS_RemoveElement
    <3>2. Copies(e, log) \in Nat /\ Cardinality(Told(e)) \in Nat
      BY CopiesType, ToldType DEF RequestsOK
    <3> QED BY <1>5, <2>1, <3>1, <3>2
  <2>2. CASE f # e
    <3>1. Told(f)' = Told(f)
      BY <1>0, <1>1, <1>3, <1>7, <2>2 DEF Told
    <3> QED BY <1>5, <2>2, <3>1
  <2> QED BY <2>1, <2>2
<1>8. ASSUME NEW k, k # "none", NEW o
      PROVE  Times(k, o)' = Times(k, o)
  <2> DEFINE f == Event(k, o)
  <2>1. f # NoEvent
    BY <1>8, EventIs
  <2>2. Copies(f, lost)' = Copies(f, lost)
    BY <1>2 DEF Copies
  <2>3. /\ Copies(f, log) \in Nat /\ Copies(f, lost) \in Nat
        /\ Cardinality(Told(f)) \in Nat
    BY CopiesType, ToldType DEF RequestsOK
  <2>4. Copies(f, log') \in Nat /\ Cardinality(Told(f)') \in Nat
    <3>1. Bag(log')
      BY <1>2, AddedOnce DEF RequestsOK
    <3>2. Told(f)' \in SUBSET OperationRequests
      BY DEF Told
    <3> QED BY <3>1, <3>2, CopiesType, FS_Subset, FS_CardinalityType, OperationsAssumption
  <2>5. Copies(f, log') + Cardinality(Told(f)') = Copies(f, log) + Cardinality(Told(f))
    BY <1>7, <2>1
  <2>6. Times(k, o)' = Copies(f, log') + Copies(f, lost') + Cardinality(Told(f)')
    BY DEF Times
  <2>7. Times(k, o) = Copies(f, log) + Copies(f, lost) + Cardinality(Told(f))
    BY DEF Times
  <2> HIDE DEF f
  <2> QED BY <2>2, <2>3, <2>4, <2>5, <2>6, <2>7
<1> QED BY <1>8 DEF Steady

LEMMA DeathSteady ==
  ASSUME RequestsOK, OperationsDie
  PROVE  Steady /\ RequestsOK'
<1>1. PICK untold : /\ untold = {handlers[r].event : r \in OperationRequests} \ {NoEvent}
                    /\ lost' = [e \in DOMAIN lost \cup untold |->
                                  Copies(e, lost) + Cardinality(Told(e))]
                    /\ log' = log
                    /\ handlers' = [r \in OperationRequests |-> Waiting]
  BY DEF OperationsDie
<1>2. \A e : /\ Copies(e, lost) \in Nat /\ Copies(e, log) \in Nat
             /\ (e \in DOMAIN lost <=> Copies(e, lost) > 0)
             /\ Cardinality(Told(e)) \in Nat
             /\ (Cardinality(Told(e)) = 0 <=> Told(e) = {})
  BY CopiesType, ToldType, FS_EmptySet DEF RequestsOK
<1>3. \A e : e # NoEvent => (e \in untold <=> Told(e) # {})
  BY <1>1 DEF Told
<1>4. Bag(lost')
  <2>1. ASSUME NEW e \in DOMAIN lost \cup untold
        PROVE  Copies(e, lost) + Cardinality(Told(e)) \in Nat \ {0}
    <3>1. e \in untold => Told(e) # {}
      BY <1>1 DEF Told
    <3> QED BY <1>2, <2>1, <3>1
  <2> QED BY <1>1, <2>1 DEF Bag
<1>5. \A e : e # NoEvent => Copies(e, lost') = Copies(e, lost) + Cardinality(Told(e))
  <2> SUFFICES ASSUME NEW e, e # NoEvent
               PROVE  Copies(e, lost') = Copies(e, lost) + Cardinality(Told(e))
    OBVIOUS
  <2>1. CASE e \in DOMAIN lost \cup untold
    BY <1>1, <2>1 DEF Copies
  <2>2. CASE e \notin DOMAIN lost \cup untold
    <3>1. Copies(e, lost') = 0
      BY <1>1, <2>2 DEF Copies
    <3>2. Copies(e, lost) = 0 /\ Cardinality(Told(e)) = 0
      BY <1>2, <1>3, <2>2
    <3> QED BY <3>1, <3>2
  <2> QED BY <2>1, <2>2
<1>6. RequestsOK'
  <2>1. HandlerOK(Waiting)
    <3>1. "idle" \notin {"event", "set"}
      OBVIOUS
    <3> QED BY <3>1, WaitingOK
  <2>2. \A r \in OperationRequests : HandlerOK(handlers[r])'
    BY <1>1, <2>1 DEF HandlerOK
  <2> QED BY <1>1, <1>4, <2>2 DEF RequestsOK, Bag
<1>7. Steady
  <2> SUFFICES ASSUME NEW k, k # "none", NEW o
               PROVE  Times(k, o)' = Times(k, o)
    BY DEF Steady
  <2> DEFINE e == Event(k, o)
  <2>1. e # NoEvent
    BY EventIs
  <2>2. Told(e)' = {}
    BY <1>1, <2>1 DEF Told, Waiting
  <2>3. Cardinality(Told(e)') = 0
    BY <2>2, FS_EmptySet
  <2>4. Times(k, o)' = Copies(e, log') + Copies(e, lost') + Cardinality(Told(e)')
    BY DEF Times
  <2>5. Times(k, o) = Copies(e, log) + Copies(e, lost) + Cardinality(Told(e))
    BY DEF Times
  <2> HIDE DEF e
  <2> QED BY <1>1, <1>2, <1>5, <2>1, <2>3, <2>4, <2>5
<1> QED BY <1>6, <1>7

(* What a step records and what it tells of.                               *)
Recorded ==
  \/ Steady /\ UNCHANGED <<status, checkpoints, improvements>>
  \/ \E c \in Checkpoints \ DOMAIN checkpoints :
       /\ Tells("checkpoint_created", c)
       /\ checkpoints' = Row(checkpoints, c, "pending")
       /\ UNCHANGED <<status, improvements>>
  \/ \E c \in DOMAIN checkpoints :
       /\ Tells("checkpoint_completed", c) /\ checkpoints[c] = "pending"
       /\ checkpoints' = [checkpoints EXCEPT ![c] = "completed"]
       /\ UNCHANGED <<status, improvements>>
  \/ \E a \in Improvements \ DOMAIN improvements :
       /\ Tells("improvement_action_created", a)
       /\ improvements' = Row(improvements, a, "open")
       /\ UNCHANGED <<status, checkpoints>>
  \/ \E command \in DOMAIN Moves :
       /\ Tells(command, "exercise") /\ status \in Moves[command].from
       /\ status' = Moves[command].to
       /\ UNCHANGED <<checkpoints, improvements>>
  \/ \E kind, on :
       /\ kind \notin {"checkpoint_created", "checkpoint_completed",
                       "improvement_action_created", "start", "complete", "reset"}
       /\ Tells(kind, on)
       /\ DOMAIN improvements' = DOMAIN improvements
       /\ UNCHANGED <<status, checkpoints>>

LEMMA RowIs ==
  ASSUME NEW table, NEW key, NEW value
  PROVE  /\ DOMAIN Row(table, key, value) = DOMAIN table \cup {key}
         /\ Row(table, key, value)[key] = value
         /\ \A k \in DOMAIN table \ {key} : Row(table, key, value)[k] = table[k]
BY DEF Row

LEMMA LogsKeeps ==
  ASSUME RequestsOK, NEW r \in OperationRequests, handlers[r].step # "event",
         NEW kind, kind # "none", NEW on, Logs(r, kind, on)
  PROVE  RequestsOK' /\ Tells(kind, on) /\ UNCHANGED <<log, rest>>
<1> DEFINE h == [Waiting EXCEPT !.step = "event", !.event = Event(kind, on)]
<1>1. /\ h = [step |-> "event", event |-> Event(kind, on), after |-> "idle",
              seen |-> << >>]
      /\ h.event = Event(kind, on)
  <2>1. ASSUME NEW e, NEW none, NEW idle, NEW seen, NEW f, NEW g,
               f = [step |-> idle, event |-> none, after |-> idle, seen |-> seen],
               g = [f EXCEPT !.step = "event", !.event = e]
        PROVE  g = [step |-> "event", event |-> e, after |-> idle, seen |-> seen]
    BY <2>1
  <2>2. PICK none, idle, seen, e : /\ e = Event(kind, on) /\ none = NoEvent
                                   /\ idle = "idle" /\ seen = << >>
    OBVIOUS
  <2>3. Waiting = [step |-> idle, event |-> none, after |-> idle, seen |-> seen]
    BY <2>2 DEF Waiting
  <2>4. PICK g : g = h /\ g = [Waiting EXCEPT !.step = "event", !.event = e]
    BY <2>2
  <2>5. g = [step |-> "event", event |-> e, after |-> idle, seen |-> seen]
    BY <2>1, <2>3, <2>4
  <2> HIDE DEF h
  <2> QED BY <2>2, <2>4, <2>5
<1>2. Now(r, h) /\ UNCHANGED <<log, lost>> /\ UNCHANGED rest
  BY DEF Logs, rest
<1> HIDE DEF h
<1>3. HandlerOK(h)
  BY <1>1, EventIs DEF HandlerOK
<1>4. Tells(kind, on)
  BY <1>1, <1>2, <1>3, LogsTells
<1>5. RequestsOK'
  BY <1>2, <1>3, MovesOn DEF RequestsOK, Bag
<1> QED BY <1>2, <1>4, <1>5

LEMMA MovesQuietly ==
  ASSUME RequestsOK, NEW r \in OperationRequests, handlers[r].step # "event",
         NEW h, HandlerOK(h), h.step # "event", Now(r, h), UNCHANGED <<log, lost>>
  PROVE  RequestsOK' /\ Steady
<1>1. Steady
  BY QuietSteady
<1>2. RequestsOK'
  BY MovesOn DEF RequestsOK, Bag
<1> QED BY <1>1, <1>2

LEMMA RunOfShowKeeps ==
  ASSUME RequestsOK, TablesOK, NEW r \in OperationRequests, RunOfShowStep(r)
  PROVE  RequestsOK' /\ TablesOK' /\ Recorded
<1>1. CASE AskCheckpoint(r)
  <2> DEFINE h == [Waiting EXCEPT !.step = "form"]
  <2>1. /\ Now(r, h) /\ handlers[r].step # "event" /\ UNCHANGED <<log, lost>>
        /\ UNCHANGED <<status, checkpoints, improvements, assessments, triggered, chaosRuns>>
    BY <1>1 DEF AskCheckpoint, Arrives, records, rest
  <2>2. HandlerOK(h) /\ h.step # "event"
    <3>1. "form" \notin {"event", "set"}
      OBVIOUS
    <3> QED BY <3>1, WaitingOK DEF Waiting
  <2> HIDE DEF h
  <2>3. RequestsOK' /\ Steady
    BY <2>1, <2>2, MovesQuietly
  <2> QED BY <2>1, <2>3 DEF TablesOK, Recorded
<1>2. ASSUME NEW c \in Checkpoints, CreateCheckpoint(r, c)
      PROVE  RequestsOK' /\ TablesOK' /\ Recorded
  <2>1. /\ handlers[r].step # "event" /\ Logs(r, "checkpoint_created", c)
        /\ c \notin DOMAIN checkpoints /\ checkpoints' = Row(checkpoints, c, "pending")
        /\ UNCHANGED <<status, improvements, assessments, triggered>>
    BY <1>2 DEF CreateCheckpoint
  <2>2. /\ RequestsOK' /\ Tells("checkpoint_created", c)
        /\ UNCHANGED <<log, rest>>
    BY <2>1, LogsKeeps
  <2>3. DOMAIN checkpoints' = DOMAIN checkpoints \cup {c}
    BY <2>1, RowIs
  <2>4. TablesOK'
    BY <2>1, <2>2, <2>3 DEF TablesOK, rest
  <2> QED BY <2>1, <2>2, <2>4 DEF Recorded
<1>3. ASSUME NEW c \in DOMAIN checkpoints, CompleteCheckpoint(r, c)
      PROVE  RequestsOK' /\ TablesOK' /\ Recorded
  <2>1. /\ handlers[r].step # "event" /\ Logs(r, "checkpoint_completed", c)
        /\ checkpoints[c] = "pending"
        /\ checkpoints' = [checkpoints EXCEPT ![c] = "completed"]
        /\ UNCHANGED <<status, improvements, assessments, triggered>>
    BY <1>3 DEF CompleteCheckpoint, Arrives, Completable
  <2>2. /\ RequestsOK' /\ Tells("checkpoint_completed", c)
        /\ UNCHANGED <<log, rest>>
    BY <2>1, LogsKeeps
  <2>3. DOMAIN checkpoints' = DOMAIN checkpoints
    BY <2>1
  <2>4. TablesOK'
    BY <2>1, <2>2, <2>3 DEF TablesOK, rest
  <2> QED BY <2>1, <2>2, <2>4 DEF Recorded
<1> QED BY <1>1, <1>2, <1>3 DEF RunOfShowStep

(* An event of which nothing is counted.                                   *)
LEMMA OtherKeeps ==
  ASSUME RequestsOK, TablesOK, NEW r \in OperationRequests, handlers[r].step # "event",
         NEW kind, NEW on, Logs(r, kind, on),
         kind \notin {"none", "checkpoint_created", "checkpoint_completed",
                      "improvement_action_created", "start", "complete", "reset"},
         UNCHANGED <<status, checkpoints>>, DOMAIN improvements' = DOMAIN improvements,
         DOMAIN assessments' \subseteq Objectives,
         \A o \in DOMAIN assessments' : assessments'[o] \in DOMAIN Points,
         DOMAIN triggered' \subseteq Injects \cup Artifacts,
         \A i \in DOMAIN triggered' : triggered'[i] \in BOOLEAN
  PROVE  RequestsOK' /\ TablesOK' /\ Recorded
<1>1. RequestsOK' /\ Tells(kind, on) /\ UNCHANGED <<log, rest>>
  BY LogsKeeps
<1>2. TablesOK'
  BY <1>1 DEF TablesOK, rest, Points
<1>3. Recorded
  BY <1>1 DEF Recorded
<1> QED BY <1>1, <1>2, <1>3

LEMMA EvaluationKeeps ==
  ASSUME RequestsOK, TablesOK, NEW r \in OperationRequests, EvaluationStep(r)
  PROVE  RequestsOK' /\ TablesOK' /\ Recorded
<1>1. ASSUME NEW a \in Improvements, AddImprovement(r, a)
      PROVE  RequestsOK' /\ TablesOK' /\ Recorded
  <2>1. /\ handlers[r].step # "event" /\ Logs(r, "improvement_action_created", a)
        /\ a \notin DOMAIN improvements /\ improvements' = Row(improvements, a, "open")
        /\ UNCHANGED <<status, checkpoints, assessments, triggered>>
    BY <1>1 DEF AddImprovement, Arrives
  <2>2. /\ RequestsOK' /\ Tells("improvement_action_created", a)
        /\ UNCHANGED <<log, rest>>
    BY <2>1, LogsKeeps
  <2>3. DOMAIN improvements' = DOMAIN improvements \cup {a}
    BY <2>1, RowIs
  <2>4. TablesOK'
    BY <2>1, <2>2, <2>3 DEF TablesOK, rest
  <2> QED BY <2>1, <2>2, <2>4 DEF Recorded
<1>2. ASSUME NEW a \in DOMAIN improvements, NEW new, UpdateImprovement(r, a, new)
      PROVE  RequestsOK' /\ TablesOK' /\ Recorded
  <2>1. /\ handlers[r].step # "event" /\ Logs(r, "improvement_action_status", a)
        /\ DOMAIN improvements' = DOMAIN improvements
        /\ UNCHANGED <<status, checkpoints, assessments, triggered>>
    BY <1>2 DEF UpdateImprovement, Arrives
  <2> QED BY <2>1, OtherKeeps DEF TablesOK
<1>3. ASSUME NEW o \in Objectives, NEW rating \in DOMAIN Points, Assess(r, o, rating)
      PROVE  RequestsOK' /\ TablesOK' /\ Recorded
  <2>1. /\ handlers[r].step # "event" /\ Logs(r, "objective_assessed", o)
        /\ assessments' = Row(assessments, o, rating)
        /\ UNCHANGED <<status, checkpoints, improvements, triggered>>
    BY <1>3 DEF Assess, Arrives
  <2>2. /\ DOMAIN assessments' = DOMAIN assessments \cup {o}
        /\ assessments'[o] = rating
        /\ \A k \in DOMAIN assessments \ {o} : assessments'[k] = assessments[k]
    BY <2>1 DEF Row
  <2>3. /\ DOMAIN assessments' \subseteq Objectives
        /\ \A k \in DOMAIN assessments' : assessments'[k] \in DOMAIN Points
    BY <2>2 DEF TablesOK
  <2> QED BY <2>1, <2>3, OtherKeeps DEF TablesOK
<1>4. CASE AddNote(r)
  <2>1. /\ handlers[r].step # "event" /\ Logs(r, "manual_note", "exercise")
        /\ UNCHANGED <<status, checkpoints, improvements, assessments, triggered>>
    BY <1>4 DEF AddNote, Arrives, records
  <2> QED BY <2>1, OtherKeeps DEF TablesOK
<1> QED BY <1>1, <1>2, <1>3, <1>4 DEF EvaluationStep

(* A request that moves on without an event changes no table.              *)
LEMMA SteadyKeeps ==
  ASSUME RequestsOK, TablesOK, NEW r \in OperationRequests, handlers[r].step # "event",
         NEW h, HandlerOK(h), h.step # "event", Now(r, h), UNCHANGED <<log, lost>>,
         UNCHANGED <<status, checkpoints, improvements, assessments, triggered, chaosRuns>>
  PROVE  RequestsOK' /\ TablesOK' /\ Recorded
<1>1. RequestsOK' /\ Steady
  BY MovesQuietly
<1> QED BY <1>1 DEF TablesOK, Recorded

(* A request that waits is changed in two fields.                          *)
LEMMA SeenIs ==
  ASSUME NEW e, NEW step, NEW h, h = [Waiting EXCEPT !.step = step, !.seen = e]
  PROVE  h = [step |-> step, event |-> NoEvent, after |-> "idle", seen |-> e]
<1>1. ASSUME NEW none, NEW idle, NEW old, NEW f, NEW g,
             f = [step |-> idle, event |-> none, after |-> idle, seen |-> old],
             g = [f EXCEPT !.step = step, !.seen = e]
      PROVE  g = [step |-> step, event |-> none, after |-> idle, seen |-> e]
  BY <1>1
<1>2. Waiting = [step |-> "idle", event |-> NoEvent, after |-> "idle", seen |-> << >>]
  BY DEF Waiting
<1> QED BY <1>1, <1>2

LEMMA AfterIs ==
  ASSUME NEW e, NEW step, NEW h, h = [Waiting EXCEPT !.step = step, !.after = e]
  PROVE  h = [step |-> step, event |-> NoEvent, after |-> e, seen |-> << >>]
<1>1. ASSUME NEW none, NEW idle, NEW old, NEW f, NEW g,
             f = [step |-> idle, event |-> none, after |-> idle, seen |-> old],
             g = [f EXCEPT !.step = step, !.after = e]
      PROVE  g = [step |-> step, event |-> none, after |-> e, seen |-> old]
  BY <1>1
<1>2. Waiting = [step |-> "idle", event |-> NoEvent, after |-> "idle", seen |-> << >>]
  BY DEF Waiting
<1> QED BY <1>1, <1>2

LEMMA SettingOK ==
  ASSUME NEW command \in DOMAIN Moves, NEW seen, NEW h,
         seen.command = command, seen.status \in Moves[command].from,
         h = [step |-> "set", event |-> NoEvent, after |-> "idle", seen |-> seen]
  PROVE  HandlerOK(h) /\ h.step # "event"
<1>1. NoEvent.kind = "none" /\ NoEvent = Event(NoEvent.kind, NoEvent.on)
  BY DEF NoEvent, Event
<1>2. h.step = "set" /\ h.event = NoEvent /\ h.after = "idle" /\ h.seen = seen
  OBVIOUS
<1> QED BY <1>1, <1>2 DEF HandlerOK

LEMMA AtDockerOK ==
  ASSUME NEW after \in {"idle", "start"}, NEW h,
         h = [step |-> "docker", event |-> NoEvent, after |-> after, seen |-> << >>]
  PROVE  HandlerOK(h) /\ h.step # "event"
<1>1. NoEvent.kind = "none" /\ NoEvent = Event(NoEvent.kind, NoEvent.on)
  BY DEF NoEvent, Event
<1>2. h.step = "docker" /\ h.event = NoEvent /\ h.after = after
  OBVIOUS
<1> QED BY <1>1, <1>2 DEF HandlerOK

(* A request that read the clock goes on to set it, or has nothing to do.  *)
LEMMA ReadClockKeeps ==
  ASSUME RequestsOK, TablesOK, NEW r \in OperationRequests, handlers[r].step # "event",
         NEW command \in DOMAIN Moves, ReadClock(r, command), UNCHANGED <<log, lost>>,
         UNCHANGED <<status, checkpoints, improvements, assessments, triggered, chaosRuns>>
  PROVE  RequestsOK' /\ TablesOK' /\ Recorded
<1>1. PICK h : Now(r, h) /\ HandlerOK(h) /\ h.step # "event"
  <2>1. CASE status \in Moves[command].from
    <3>1. PICK seen : seen = [status |-> status, command |-> command]
      OBVIOUS
    <3>2. PICK h : h = [Waiting EXCEPT !.step = "set", !.seen = seen]
      OBVIOUS
    <3>3. Now(r, h)
      BY <2>1, <3>1, <3>2 DEF ReadClock
    <3>4. HandlerOK(h) /\ h.step # "event"
      <4>1. seen.command = command /\ seen.status \in Moves[command].from
        BY <2>1, <3>1
      <4>2. h = [step |-> "set", event |-> NoEvent, after |-> "idle", seen |-> seen]
        BY <3>2, SeenIs
      <4> QED BY <4>1, <4>2, SettingOK
    <3> QED BY <3>3, <3>4
  <2>2. CASE status \notin Moves[command].from
    <3>1. Now(r, Waiting)
      BY <2>2 DEF ReadClock
    <3>2. HandlerOK(Waiting) /\ Waiting.step # "event"
      <4>1. "idle" \notin {"event", "set"}
        OBVIOUS
      <4> QED BY <4>1, WaitingOK DEF Waiting
    <3> QED BY <3>1, <3>2
  <2> QED BY <2>1, <2>2
<1> QED BY <1>1, SteadyKeeps

LEMMA SetClockKeeps ==
  ASSUME RequestsOK, TablesOK, NEW r \in OperationRequests, SetClock(r)
  PROVE  RequestsOK' /\ TablesOK' /\ Recorded
<1>1. PICK command : command = handlers[r].seen.command
  OBVIOUS
<1>2. /\ handlers[r].step = "set" /\ command \in DOMAIN Moves
      /\ handlers[r].seen.status \in Moves[command].from
  BY <1>1 DEF SetClock, RequestsOK, HandlerOK
<1>3. CASE StillRead(r)
  <2>1. /\ status' = Moves[command].to /\ Logs(r, command, "exercise")
        /\ UNCHANGED <<checkpoints, improvements, assessments, triggered>>
    BY <1>1, <1>3 DEF SetClock
  <2>2. command # "none"
    BY <1>2 DEF Moves
  <2>3. /\ RequestsOK' /\ Tells(command, "exercise") /\ UNCHANGED <<log, rest>>
    BY <1>2, <2>1, <2>2, LogsKeeps
  <2>4. \A c \in DOMAIN Moves : Moves[c].to \in {"created", "running", "paused", "completed"}
    BY DEF Moves
  <2>5. TablesOK'
    BY <1>2, <2>1, <2>3, <2>4 DEF TablesOK, rest
  <2>6. status \in Moves[command].from
    BY <1>2, <1>3 DEF StillRead
  <2> QED BY <1>2, <2>1, <2>3, <2>5, <2>6 DEF Recorded
<1>4. CASE ~StillRead(r)
  <2>1. /\ Now(r, Waiting) /\ UNCHANGED <<status, log, lost, chaosRuns>>
        /\ UNCHANGED <<checkpoints, improvements, assessments, triggered>>
    BY <1>4 DEF SetClock, rest
  <2>2. HandlerOK(Waiting) /\ Waiting.step # "event"
    <3>1. "idle" \notin {"event", "set"}
      OBVIOUS
    <3> QED BY <3>1, WaitingOK DEF Waiting
  <2> QED BY <1>2, <2>1, <2>2, SteadyKeeps
<1> QED BY <1>3, <1>4

LEMMA DeliveryKeeps ==
  ASSUME RequestsOK, TablesOK, NEW r \in OperationRequests, DeliveryStep(r)
  PROVE  RequestsOK' /\ TablesOK' /\ Recorded
<1>1. ASSUME NEW i \in Artifacts, AddArtifact(r, i)
      PROVE  RequestsOK' /\ TablesOK' /\ Recorded
  <2>1. /\ handlers[r].step # "event" /\ Logs(r, "artifact_created", i)
        /\ triggered' = Row(triggered, i, FALSE)
        /\ UNCHANGED <<status, checkpoints, improvements, assessments>>
    BY <1>1 DEF AddArtifact, Arrives
  <2>2. /\ DOMAIN triggered' = DOMAIN triggered \cup {i}
        /\ \A j \in DOMAIN triggered' : triggered'[j] \in BOOLEAN
    BY <2>1 DEF Row, TablesOK
  <2>3. DOMAIN triggered' \subseteq Injects \cup Artifacts
    BY <2>2 DEF TablesOK
  <2> QED BY <2>1, <2>2, <2>3, OtherKeeps DEF TablesOK
<1>2. ASSUME NEW i \in DOMAIN triggered, TriggerInject(r, i)
      PROVE  RequestsOK' /\ TablesOK' /\ Recorded
  <2>1. /\ handlers[r].step # "event" /\ Logs(r, "inject_triggered", i)
        /\ triggered' = [triggered EXCEPT ![i] = TRUE]
        /\ UNCHANGED <<status, checkpoints, improvements, assessments>>
    BY <1>2 DEF TriggerInject, Arrives
  <2>2. /\ DOMAIN triggered' = DOMAIN triggered
        /\ \A j \in DOMAIN triggered' : triggered'[j] \in BOOLEAN
    BY <2>1 DEF TablesOK
  <2>3. DOMAIN triggered' \subseteq Injects \cup Artifacts
    BY <2>2 DEF TablesOK
  <2> QED BY <2>1, <2>2, <2>3, OtherKeeps DEF TablesOK
<1>3. ASSUME NEW i \in DOMAIN triggered, TriggerFails(r, i)
      PROVE  RequestsOK' /\ TablesOK' /\ Recorded
  <2>1. /\ handlers[r].step # "event" /\ Logs(r, "inject_failed", i)
        /\ UNCHANGED <<status, checkpoints, improvements, assessments, triggered>>
    BY <1>3 DEF TriggerFails, Arrives, records
  <2> QED BY <2>1, OtherKeeps DEF TablesOK
<1>4. ASSUME NEW command \in DOMAIN Moves, Command(r, command)
      PROVE  RequestsOK' /\ TablesOK' /\ Recorded
  <2>1. /\ handlers[r].step # "event" /\ ReadClock(r, command)
        /\ UNCHANGED <<log, lost>>
        /\ UNCHANGED <<status, checkpoints, improvements, assessments, triggered, chaosRuns>>
    BY <1>4 DEF Command, Arrives, records, rest
  <2> QED BY <2>1, ReadClockKeeps
<1>5. CASE SetClock(r)
  BY <1>5, SetClockKeeps
<1>6. ASSUME NEW launch, OperateLab(r, launch)
      PROVE  RequestsOK' /\ TablesOK' /\ Recorded
  <2>1. PICK after \in {"idle", "start"} :
          Now(r, [Waiting EXCEPT !.step = "docker", !.after = after])
    BY <1>6 DEF OperateLab
  <2>2. /\ handlers[r].step # "event" /\ UNCHANGED <<log, lost>>
        /\ UNCHANGED <<status, checkpoints, improvements, assessments, triggered, chaosRuns>>
    BY <1>6 DEF OperateLab, Arrives, records, rest
  <2>3. PICK h : h = [Waiting EXCEPT !.step = "docker", !.after = after]
    OBVIOUS
  <2>4. HandlerOK(h) /\ h.step # "event"
    <3>1. h = [step |-> "docker", event |-> NoEvent, after |-> after, seen |-> << >>]
      BY <2>3, AfterIs
    <3> QED BY <3>1, AtDockerOK
  <2> QED BY <2>1, <2>2, <2>3, <2>4, SteadyKeeps
<1>7. CASE LabOperated(r)
  <2>1. PICK e : e = Event("lab_operation", "exercise")
    OBVIOUS
  <2>2. PICK f : f = handlers[r] /\ HandlerOK(f)
    BY DEF RequestsOK
  <2>3. PICK h : h = [f EXCEPT !.step = "event", !.event = e] /\ Now(r, h)
    BY <1>7, <2>1, <2>2 DEF LabOperated
  <2>4. h = [step |-> "event", event |-> e, after |-> f.after, seen |-> f.seen]
    BY <2>2, <2>3 DEF HandlerOK
  <2>5. e = Event(e.kind, e.on) /\ e.kind = "lab_operation"
    BY <2>1, EventIs
  <2>6. /\ h.step = "event" /\ h.event = e /\ h.after = f.after /\ h.seen = f.seen
    BY <2>4
  <2>7. HandlerOK(h)
    BY <2>2, <2>4, <2>5, <2>6 DEF HandlerOK
  <2>8. /\ handlers[r].step # "event" /\ UNCHANGED <<log, lost>>
        /\ UNCHANGED <<status, checkpoints, improvements, assessments, triggered, chaosRuns>>
    BY <1>7 DEF LabOperated, records, rest
  <2>9. Tells("lab_operation", "exercise")
    BY <2>1, <2>3, <2>6, <2>7, <2>8, LogsTells
  <2>10. RequestsOK'
    BY <2>3, <2>7, <2>8, MovesOn DEF RequestsOK, Bag
  <2> QED BY <2>8, <2>9, <2>10 DEF TablesOK, Recorded
<1>8. CASE LabFailed(r)
  <2>1. /\ handlers[r].step # "event" /\ Logs(r, "lab_operation_failed", "exercise")
        /\ UNCHANGED <<status, checkpoints, improvements, assessments, triggered>>
    BY <1>8 DEF LabFailed, records
  <2> QED BY <2>1, OtherKeeps DEF TablesOK
<1>9. CASE StartLaunched(r)
  <2>1. /\ handlers[r].step # "event" /\ ReadClock(r, "start") /\ "start" \in DOMAIN Moves
        /\ UNCHANGED <<log, lost>>
        /\ UNCHANGED <<status, checkpoints, improvements, assessments, triggered, chaosRuns>>
    BY <1>9 DEF StartLaunched, records, rest, Moves
  <2> QED BY <2>1, ReadClockKeeps
<1> QED BY <1>1, <1>2, <1>3, <1>4, <1>5, <1>6, <1>7, <1>8, <1>9 DEF DeliveryStep

LEMMA ReadingOK ==
  ASSUME NEW step \in {"read", "render"}, NEW seen, NEW h,
         h = [Waiting EXCEPT !.step = step, !.seen = seen]
  PROVE  /\ h = [step |-> step, event |-> NoEvent, after |-> "idle", seen |-> seen]
         /\ HandlerOK(h) /\ h.step # "event"
<1>1. h = [step |-> step, event |-> NoEvent, after |-> "idle", seen |-> seen]
  BY SeenIs
<1>2. ASSUME NEW g, g = [step |-> step, event |-> NoEvent, after |-> "idle", seen |-> seen]
      PROVE  HandlerOK(g) /\ g.step # "event"
  <2>1. NoEvent.kind = "none" /\ NoEvent = Event(NoEvent.kind, NoEvent.on)
    BY DEF NoEvent, Event
  <2>2. PICK old, none, idle : old = seen /\ none = NoEvent /\ idle = "idle"
    OBVIOUS
  <2>3. g = [step |-> step, event |-> none, after |-> idle, seen |-> old]
    BY <1>2, <2>2
  <2>4. g.step = step /\ g.event = none /\ g.after = idle /\ g.seen = old
    BY <2>3
  <2> QED BY <2>1, <2>2, <2>3, <2>4 DEF HandlerOK
<1> QED BY <1>1, <1>2

(* Reading changes nothing but what was read.                              *)
LEMMA ReportKeeps ==
  ASSUME RequestsOK, TablesOK, NEW r \in OperationRequests, ReportStep(r)
  PROVE  RequestsOK' /\ TablesOK' /\ Recorded
<1>1. /\ handlers[r].step # "event" /\ UNCHANGED <<log, lost>>
      /\ UNCHANGED <<status, checkpoints, improvements, assessments, triggered, chaosRuns>>
  BY DEF ReportStep, AskReport, ReadTable, Render, Arrives, records, rest
<1>2. ASSUME NEW step \in {"read", "idle"}
      PROVE  /\ HandlerOK([Waiting EXCEPT !.step = step])
             /\ [Waiting EXCEPT !.step = step].step # "event"
             /\ HandlerOK(Waiting) /\ Waiting.step # "event"
  <2>1. step \notin {"event", "set"}
    OBVIOUS
  <2> QED BY <2>1, WaitingOK DEF Waiting
<1>3. CASE AskReport(r)
  BY <1>1, <1>2, <1>3, SteadyKeeps DEF AskReport
<1>4. CASE ReadTable(r)
  <2>1. \E step \in {"read", "render"} :
          \E seen : Now(r, [Waiting EXCEPT !.step = step, !.seen = seen])
    BY <1>4 DEF ReadTable
  <2>2. PICK step \in {"read", "render"} :
          \E seen : Now(r, [Waiting EXCEPT !.step = step, !.seen = seen])
    BY <2>1
  <2>3. PICK seen : Now(r, [Waiting EXCEPT !.step = step, !.seen = seen])
    BY <2>2
  <2>4. PICK h : h = [Waiting EXCEPT !.step = step, !.seen = seen]
    OBVIOUS
  <2>5. HandlerOK(h) /\ h.step # "event"
    BY <2>4, ReadingOK
  <2> QED BY <1>1, <2>3, <2>4, <2>5, SteadyKeeps
<1>5. CASE Render(r)
  BY <1>1, <1>2, <1>5, SteadyKeeps DEF Render
<1> QED BY <1>3, <1>4, <1>5 DEF ReportStep

LEMMA StepKeeps ==
  ASSUME RequestsOK, TablesOK, [OperationsNext]_operationVars
  PROVE  RequestsOK' /\ TablesOK' /\ Recorded
<1>1. ASSUME NEW r \in OperationRequests, WriteEvent(r)
      PROVE  RequestsOK' /\ TablesOK' /\ Recorded
  <2>1. UNCHANGED <<status, checkpoints, improvements, assessments, triggered,
                    chaosRuns, lost>>
    BY <1>1 DEF WriteEvent, records, rest
  <2>2. Steady
    BY <1>1, WriteSteady
  <2>3. RequestsOK'
    <3>1. PICK step : step = handlers[r].after
      OBVIOUS
    <3>2. Now(r, [Waiting EXCEPT !.step = step]) /\ step \notin {"event", "set"}
      BY <1>1, <3>1 DEF WriteEvent, RequestsOK, HandlerOK
    <3>3. HandlerOK([Waiting EXCEPT !.step = step])
      BY <3>2, WaitingOK
    <3>4. /\ handlers' = [q \in OperationRequests |-> handlers'[q]]
          /\ \A q \in OperationRequests : HandlerOK(handlers[q])'
      BY <3>2, <3>3, MovesOn
    <3>5. Bag(log')
      BY <1>1, AddedOnce DEF WriteEvent, RequestsOK
    <3> QED BY <2>1, <3>4, <3>5 DEF RequestsOK, Bag
  <2> QED BY <2>1, <2>2, <2>3 DEF TablesOK, Recorded
<1>2. CASE OperationsDie
  <2>1. UNCHANGED <<status, checkpoints, improvements, assessments, triggered, chaosRuns>>
    BY <1>2 DEF OperationsDie, records
  <2>2. Steady /\ RequestsOK'
    BY <1>2, DeathSteady
  <2> QED BY <2>1, <2>2 DEF TablesOK, Recorded
<1>3. CASE (\E safely : ChaosRunEnds(safely)) \/ UNCHANGED operationVars
  <2>1. UNCHANGED <<status, checkpoints, improvements, assessments, triggered, log, lost,
                    handlers>>
    BY <1>3 DEF ChaosRunEnds, records, operationVars
  <2>2. RequestsOK'
    BY <2>1 DEF RequestsOK, HandlerOK, Bag
  <2>3. Steady
    <3>1. \A k, o : Told(Event(k, o))' = Told(Event(k, o))
      BY <2>1 DEF Told, Event
    <3>2. \A f : Copies(f, log)' = Copies(f, log) /\ Copies(f, lost)' = Copies(f, lost)
      BY <2>1 DEF Copies
    <3> QED BY <3>1, <3>2 DEF Steady, Times
  <2>4. TablesOK'
    <3>1. /\ chaosRuns'.safe \in Nat /\ chaosRuns'.ended \in Nat
          /\ chaosRuns'.safe <= chaosRuns'.ended
      BY <1>3 DEF TablesOK, ChaosRunEnds, operationVars
    <3> QED BY <2>1, <3>1 DEF TablesOK
  <2> QED BY <2>1, <2>2, <2>3, <2>4 DEF Recorded
<1> QED BY <1>1, <1>2, <1>3, RunOfShowKeeps, EvaluationKeeps, DeliveryKeeps, ReportKeeps
        DEF OperationsNext

(***************************************************************************)
(* The timeline tells of everything as often as it was done.               *)
(***************************************************************************)
CheckpointFacts ==
  /\ \A c \in Checkpoints :
       Times("checkpoint_created", c) = Once(c \in DOMAIN checkpoints)
  /\ \A c \in SeededCheckpoints \cup Checkpoints :
       Times("checkpoint_completed", c) =
         Once(c \in DOMAIN checkpoints /\ checkpoints[c] = "completed")

ImprovementFacts ==
  \A a \in Improvements :
    Times("improvement_action_created", a) = Once(a \in DOMAIN improvements)

ClockFacts ==
  /\ Times("start", "exercise") - Times("reset", "exercise") = Once(status # "created")
  /\ Times("complete", "exercise") - Times("reset", "exercise") =
       Once(status = "completed")

LEMMA CheckpointsCounted ==
  ASSUME RequestsOK, TablesOK, RequestsOK', Recorded, CheckpointFacts
  PROVE  CheckpointFacts'
<1>1. ASSUME UNCHANGED checkpoints,
             \A c : Times("checkpoint_created", c)' = Times("checkpoint_created", c),
             \A c : Times("checkpoint_completed", c)' = Times("checkpoint_completed", c)
      PROVE  CheckpointFacts'
  BY <1>1 DEF CheckpointFacts, Once
<1>2. CASE Steady /\ UNCHANGED <<status, checkpoints, improvements>>
  BY <1>1, <1>2 DEF Steady
<1>3. ASSUME NEW c \in Checkpoints \ DOMAIN checkpoints,
             Tells("checkpoint_created", c),
             checkpoints' = Row(checkpoints, c, "pending")
      PROVE  CheckpointFacts'
  <2>1. /\ DOMAIN checkpoints' = DOMAIN checkpoints \cup {c}
        /\ checkpoints'[c] = "pending"
        /\ \A d \in DOMAIN checkpoints : checkpoints'[d] = checkpoints[d]
    BY <1>3 DEF Row
  <2>2. /\ Times("checkpoint_created", c)' = Times("checkpoint_created", c) + 1
        /\ \A d : d # c => Times("checkpoint_created", d)' = Times("checkpoint_created", d)
        /\ \A d : Times("checkpoint_completed", d)' = Times("checkpoint_completed", d)
    BY <1>3 DEF Tells
  <2>3. Times("checkpoint_created", c) = 0
    BY <1>3 DEF CheckpointFacts, Once
  <2> QED BY <1>3, <2>1, <2>2, <2>3 DEF CheckpointFacts, Once
<1>4. ASSUME NEW c \in DOMAIN checkpoints,
             Tells("checkpoint_completed", c), checkpoints[c] = "pending",
             checkpoints' = [checkpoints EXCEPT ![c] = "completed"]
      PROVE  CheckpointFacts'
  <2>1. /\ DOMAIN checkpoints' = DOMAIN checkpoints
        /\ checkpoints'[c] = "completed"
        /\ \A d \in DOMAIN checkpoints \ {c} : checkpoints'[d] = checkpoints[d]
    BY <1>4
  <2>2. /\ Times("checkpoint_completed", c)' = Times("checkpoint_completed", c) + 1
        /\ \A d : d # c => Times("checkpoint_completed", d)' = Times("checkpoint_completed", d)
        /\ \A d : Times("checkpoint_created", d)' = Times("checkpoint_created", d)
    BY <1>4 DEF Tells
  <2>3. Times("checkpoint_completed", c) = 0
    BY <1>4 DEF CheckpointFacts, Once, TablesOK
  <2> QED BY <1>4, <2>1, <2>2, <2>3 DEF CheckpointFacts, Once
<1>5. ASSUME NEW kind, NEW on, Tells(kind, on), UNCHANGED checkpoints,
             kind \notin {"checkpoint_created", "checkpoint_completed"}
      PROVE  CheckpointFacts'
  BY <1>1, <1>5 DEF Tells
<1>6. \A command \in DOMAIN Moves :
        command \notin {"checkpoint_created", "checkpoint_completed"}
  BY DEF Moves
<1> QED BY <1>2, <1>3, <1>4, <1>5, <1>6 DEF Recorded

LEMMA ImprovementsCounted ==
  ASSUME RequestsOK, TablesOK, RequestsOK', Recorded, ImprovementFacts
  PROVE  ImprovementFacts'
<1>1. ASSUME DOMAIN improvements' = DOMAIN improvements,
             \A a : Times("improvement_action_created", a)' =
                      Times("improvement_action_created", a)
      PROVE  ImprovementFacts'
  BY <1>1 DEF ImprovementFacts, Once
<1>2. CASE Steady /\ UNCHANGED <<status, checkpoints, improvements>>
  BY <1>1, <1>2 DEF Steady
<1>3. ASSUME NEW a \in Improvements \ DOMAIN improvements,
             Tells("improvement_action_created", a),
             improvements' = Row(improvements, a, "open")
      PROVE  ImprovementFacts'
  <2>1. DOMAIN improvements' = DOMAIN improvements \cup {a}
    BY <1>3, RowIs
  <2>2. /\ Times("improvement_action_created", a)' =
             Times("improvement_action_created", a) + 1
        /\ \A b : b # a => Times("improvement_action_created", b)' =
                             Times("improvement_action_created", b)
    BY <1>3 DEF Tells
  <2>3. Times("improvement_action_created", a) = 0
    BY <1>3 DEF ImprovementFacts, Once
  <2> QED BY <1>3, <2>1, <2>2, <2>3 DEF ImprovementFacts, Once
<1>4. ASSUME NEW kind, NEW on, Tells(kind, on),
             DOMAIN improvements' = DOMAIN improvements,
             kind # "improvement_action_created"
      PROVE  ImprovementFacts'
  BY <1>1, <1>4 DEF Tells
<1>5. \A command \in DOMAIN Moves : command # "improvement_action_created"
  BY DEF Moves
<1> QED BY <1>2, <1>3, <1>4, <1>5 DEF Recorded

LEMMA ClockCounted ==
  ASSUME RequestsOK, TablesOK, RequestsOK', Recorded, ClockFacts
  PROVE  ClockFacts'
<1>1. /\ Times("start", "exercise") \in Nat /\ Times("reset", "exercise") \in Nat
      /\ Times("complete", "exercise") \in Nat
  BY TimesType
<1>2. ASSUME UNCHANGED status,
             Times("start", "exercise")' = Times("start", "exercise"),
             Times("reset", "exercise")' = Times("reset", "exercise"),
             Times("complete", "exercise")' = Times("complete", "exercise")
      PROVE  ClockFacts'
  BY <1>2 DEF ClockFacts
<1>3. CASE Steady /\ UNCHANGED <<status, checkpoints, improvements>>
  BY <1>2, <1>3 DEF Steady
<1>4. ASSUME NEW kind, NEW on, Tells(kind, on), UNCHANGED status,
             kind \notin {"start", "reset", "complete"}
      PROVE  ClockFacts'
  BY <1>2, <1>4 DEF Tells
<1>5. ASSUME NEW command \in DOMAIN Moves, Tells(command, "exercise"),
             status \in Moves[command].from, status' = Moves[command].to
      PROVE  ClockFacts'
  <2>1. CASE command = "start"
    BY <1>1, <1>5, <2>1 DEF Tells, Moves, ClockFacts, Once
  <2>2. CASE command = "complete"
    BY <1>1, <1>5, <2>2 DEF Tells, Moves, ClockFacts, Once
  <2>3. CASE command = "reset"
    BY <1>1, <1>5, <2>3 DEF Tells, Moves, ClockFacts, Once
  <2>4. CASE command \in {"pause", "resume"}
    BY <1>1, <1>5, <2>4 DEF Tells, Moves, ClockFacts, Once
  <2> QED BY <2>1, <2>2, <2>3, <2>4 DEF Moves
<1> QED BY <1>3, <1>4, <1>5 DEF Recorded

OperationsInv ==
  RequestsOK /\ TablesOK /\ CheckpointFacts /\ ImprovementFacts /\ ClockFacts

LEMMA OperationsInvInit == OperationsInit => OperationsInv
<1> SUFFICES ASSUME OperationsInit PROVE OperationsInv
  OBVIOUS
<1>1. PICK kind \in {"exercise_created", "exercise_created_from_pack"} :
        log = [e \in {Event(kind, "exercise")} |-> 1]
  BY DEF OperationsInit
<1>2. RequestsOK
  <2>1. HandlerOK(Waiting)
    <3>1. "idle" \notin {"event", "set"}
      OBVIOUS
    <3> QED BY <3>1, WaitingOK
  <2>2. Bag(log) /\ Bag(lost)
    BY <1>1 DEF OperationsInit, Bag
  <2> QED BY <2>1, <2>2 DEF OperationsInit, RequestsOK
<1>3. TablesOK
  BY DEF OperationsInit, TablesOK
<1>4. ASSUME NEW k, k # "none", k # kind, NEW o
      PROVE  Times(k, o) = 0
  <2>1. Event(k, o) # Event(kind, "exercise") /\ Event(k, o) # NoEvent
    BY <1>4, EventIs
  <2>2. Told(Event(k, o)) = {}
    BY <2>1 DEF Told, OperationsInit, Waiting
  <2>3. Copies(Event(k, o), log) = 0 /\ Copies(Event(k, o), lost) = 0
    BY <1>1, <2>1 DEF Copies, OperationsInit
  <2> QED BY <2>2, <2>3, FS_EmptySet DEF Times
<1>5. CheckpointFacts
  <2>1. \A c : /\ Times("checkpoint_created", c) = 0
               /\ Times("checkpoint_completed", c) = 0
    BY <1>4
  <2>2. /\ DOMAIN checkpoints = SeededCheckpoints
        /\ \A c \in DOMAIN checkpoints : checkpoints[c] = "pending"
    BY DEF OperationsInit
  <2>3. \A c \in Checkpoints : c \notin SeededCheckpoints
    BY OperationsAssumption
  <2> QED BY <2>1, <2>2, <2>3 DEF CheckpointFacts, Once
<1>6. ImprovementFacts
  BY <1>4 DEF ImprovementFacts, Once, OperationsInit
<1>7. ClockFacts
  BY <1>4 DEF ClockFacts, Once, OperationsInit
<1> QED BY <1>2, <1>3, <1>5, <1>6, <1>7 DEF OperationsInv

LEMMA OperationsInvHolds == OperationsSpec => []OperationsInv
<1>1. OperationsInv /\ [OperationsNext]_operationVars => OperationsInv'
  BY StepKeeps, CheckpointsCounted, ImprovementsCounted, ClockCounted DEF OperationsInv
<1> QED BY <1>1, OperationsInvInit, PTL DEF OperationsSpec

(* Checkpoints, their completions, improvement actions and the starts,     *)
(* ends and resets of the clock have as many events as they happened,      *)
(* those counted that are to be written and those a death kept from being  *)
(* written, for any number of requests at a time: a handler's event        *)
(* follows its record, and the guards of complete_checkpoint and           *)
(* update_exercise_clock leave one of several requests that saw the same   *)
(* state to record and to tell.                                            *)
THEOREM TimelineTellsAll == OperationsSpec => []LogMatchesRecord
<1>1. OperationsInv => LogMatchesRecord
  BY DEF OperationsInv, CheckpointFacts, ImprovementFacts, ClockFacts, TablesOK,
         LogMatchesRecord
<1> QED BY <1>1, OperationsInvHolds, PTL

(***************************************************************************)
(* What a report holds.                                                    *)
(***************************************************************************)
Backed(e, checkpointRows, improvementRows, assessmentRows) ==
  /\ e.kind = "checkpoint_created" => e.on \in DOMAIN checkpointRows
  /\ e.kind = "checkpoint_completed" =>
       e.on \in DOMAIN checkpointRows /\ checkpointRows[e.on] = "completed"
  /\ e.kind = "improvement_action_created" => e.on \in DOMAIN improvementRows
  /\ e.kind = "objective_assessed" => e.on \in DOMAIN assessmentRows

(* The events that were written, and those that are about to be.           *)
Events == DOMAIN log \cup {handlers[r].event : r \in OperationRequests}

EventsBacked ==
  /\ IsFiniteSet(DOMAIN log)
  /\ \A e \in Events : Backed(e, checkpoints, improvements, assessments)

(* No row is taken away, and no completion is taken back.                  *)
Grows ==
  /\ DOMAIN checkpoints \subseteq DOMAIN checkpoints'
  /\ \A c \in DOMAIN checkpoints :
       checkpoints[c] = "completed" => checkpoints'[c] = "completed"
  /\ DOMAIN improvements \subseteq DOMAIN improvements'
  /\ DOMAIN assessments \subseteq DOMAIN assessments'

(* A step adds at most one event, of something recorded, and whoever is    *)
(* reading has just begun, has read a table, or has not moved.             *)
Reported ==
  /\ Grows
  /\ \E e : /\ Events' \subseteq Events \cup {e, NoEvent}
            /\ Backed(e, checkpoints', improvements', assessments')
  /\ IsFiniteSet(DOMAIN log) => IsFiniteSet(DOMAIN log')
  /\ \A r \in OperationRequests :
       \/ handlers'[r] = handlers[r]
       \/ handlers'[r].step \notin {"read", "render"}
       \/ AskReport(r) \/ ReadTable(r)

LEMMA NowReported ==
  ASSUME RequestsOK, NEW r \in OperationRequests, NEW h, Now(r, h), Grows,
         Backed(h.event, checkpoints', improvements', assessments'),
         log' = log \/ log' = WithEvent(log, handlers[r].event),
         h.step \notin {"read", "render"} \/ AskReport(r) \/ ReadTable(r)
  PROVE  Reported
<1>1. handlers'[r] = h /\ \A q \in OperationRequests \ {r} : handlers'[q] = handlers[q]
  BY DEF RequestsOK, Now
<1>2. DOMAIN log' \subseteq DOMAIN log \cup {handlers[r].event}
  BY AddedOnce DEF RequestsOK
<1>3. Events' \subseteq Events \cup {h.event, NoEvent}
  BY <1>1, <1>2 DEF Events
<1>4. IsFiniteSet(DOMAIN log) => IsFiniteSet(DOMAIN log')
  <2>1. IsFiniteSet(DOMAIN log) => IsFiniteSet(DOMAIN log \cup {handlers[r].event})
    BY FS_AddElement
  <2> QED BY <1>2, <2>1, FS_Subset
<1> QED BY <1>1, <1>3, <1>4 DEF Reported

LEMMA NoneBacked ==
  ASSUME NEW c, NEW i, NEW a
  PROVE  Backed(NoEvent, c, i, a)
BY DEF Backed, NoEvent, Event

LEMMA SameGrows ==
  ASSUME UNCHANGED <<checkpoints, improvements, assessments>>
  PROVE  Grows
BY DEF Grows

LEMMA LoggedIs ==
  ASSUME NEW r, NEW kind, NEW on, Logs(r, kind, on)
  PROVE  \E h : /\ Now(r, h) /\ h.step = "event" /\ h.event = Event(kind, on)
                /\ log' = log
<1>1. ASSUME NEW e, NEW none, NEW idle, NEW seen, NEW f, NEW g,
             f = [step |-> idle, event |-> none, after |-> idle, seen |-> seen],
             g = [f EXCEPT !.step = "event", !.event = e]
      PROVE  g = [step |-> "event", event |-> e, after |-> idle, seen |-> seen]
  BY <1>1
<1>2. PICK none, idle, seen, e : /\ e = Event(kind, on) /\ none = NoEvent
                                 /\ idle = "idle" /\ seen = << >>
  OBVIOUS
<1>3. Waiting = [step |-> idle, event |-> none, after |-> idle, seen |-> seen]
  BY <1>2 DEF Waiting
<1>4. PICK g : g = [Waiting EXCEPT !.step = "event", !.event = e]
  OBVIOUS
<1>5. g = [step |-> "event", event |-> e, after |-> idle, seen |-> seen]
  BY <1>1, <1>3, <1>4
<1>6. g.step = "event" /\ g.event = e
  BY <1>5
<1>7. Now(r, g) /\ log' = log
  BY <1>2, <1>4 DEF Logs
<1> QED BY <1>2, <1>6, <1>7

LEMMA LogsReported ==
  ASSUME RequestsOK, NEW r \in OperationRequests, NEW kind, NEW on, Logs(r, kind, on),
         Grows, Backed(Event(kind, on), checkpoints', improvements', assessments')
  PROVE  Reported
<1>1. PICK h : Now(r, h) /\ h.step = "event" /\ h.event = Event(kind, on) /\ log' = log
  BY LoggedIs
<1> QED BY <1>1, NowReported

LEMMA OtherBacked ==
  ASSUME NEW kind, NEW on, NEW c, NEW i, NEW a,
         kind \notin {"checkpoint_created", "checkpoint_completed",
                      "improvement_action_created", "objective_assessed"}
  PROVE  Backed(Event(kind, on), c, i, a)
BY EventIs DEF Backed

LEMMA QuietReported ==
  ASSUME RequestsOK, NEW r \in OperationRequests, NEW h, Now(r, h),
         h.event = NoEvent, log' = log,
         UNCHANGED <<checkpoints, improvements, assessments>>,
         h.step \notin {"read", "render"} \/ AskReport(r) \/ ReadTable(r)
  PROVE  Reported
BY NowReported, NoneBacked, SameGrows

LEMMA RunOfShowReported ==
  ASSUME RequestsOK, NEW r \in OperationRequests, RunOfShowStep(r)
  PROVE  Reported
<1>1. CASE AskCheckpoint(r)
  <2>1. PICK h : h = [Waiting EXCEPT !.step = "form"]
    OBVIOUS
  <2>2. h.step = "form" /\ h.event = NoEvent
    BY <2>1 DEF Waiting
  <2>3. Now(r, h) /\ log' = log /\ UNCHANGED <<checkpoints, improvements, assessments>>
    BY <1>1, <2>1 DEF AskCheckpoint, records
  <2> QED BY <2>2, <2>3, QuietReported
<1>2. ASSUME NEW c \in Checkpoints, CreateCheckpoint(r, c)
      PROVE  Reported
  <2>1. /\ Logs(r, "checkpoint_created", c) /\ c \notin DOMAIN checkpoints
        /\ checkpoints' = Row(checkpoints, c, "pending")
        /\ UNCHANGED <<improvements, assessments>>
    BY <1>2 DEF CreateCheckpoint
  <2>2. /\ DOMAIN checkpoints' = DOMAIN checkpoints \cup {c}
        /\ \A d \in DOMAIN checkpoints : checkpoints'[d] = checkpoints[d]
    BY <2>1 DEF Row
  <2>3. Grows
    BY <2>1, <2>2 DEF Grows
  <2>4. Backed(Event("checkpoint_created", c), checkpoints', improvements', assessments')
    BY <2>2, EventIs DEF Backed
  <2> QED BY <2>1, <2>3, <2>4, LogsReported
<1>3. ASSUME NEW c \in DOMAIN checkpoints, CompleteCheckpoint(r, c)
      PROVE  Reported
  <2>1. /\ Logs(r, "checkpoint_completed", c)
        /\ checkpoints' = [checkpoints EXCEPT ![c] = "completed"]
        /\ UNCHANGED <<improvements, assessments>>
    BY <1>3 DEF CompleteCheckpoint
  <2>2. /\ DOMAIN checkpoints' = DOMAIN checkpoints /\ checkpoints'[c] = "completed"
        /\ \A d \in DOMAIN checkpoints \ {c} : checkpoints'[d] = checkpoints[d]
    BY <2>1
  <2>3. Grows
    BY <2>1, <2>2 DEF Grows
  <2>4. Backed(Event("checkpoint_completed", c), checkpoints', improvements', assessments')
    BY <1>3, <2>2, EventIs DEF Backed
  <2> QED BY <2>1, <2>3, <2>4, LogsReported
<1> QED BY <1>1, <1>2, <1>3 DEF RunOfShowStep

LEMMA EvaluationReported ==
  ASSUME RequestsOK, NEW r \in OperationRequests, EvaluationStep(r)
  PROVE  Reported
<1>1. ASSUME NEW a \in Improvements, AddImprovement(r, a)
      PROVE  Reported
  <2>1. /\ Logs(r, "improvement_action_created", a)
        /\ improvements' = Row(improvements, a, "open")
        /\ UNCHANGED <<checkpoints, assessments>>
    BY <1>1 DEF AddImprovement
  <2>2. DOMAIN improvements' = DOMAIN improvements \cup {a}
    BY <2>1, RowIs
  <2>3. Grows
    BY <2>1, <2>2 DEF Grows
  <2>4. Backed(Event("improvement_action_created", a),
               checkpoints', improvements', assessments')
    BY <2>2, EventIs DEF Backed
  <2> QED BY <2>1, <2>3, <2>4, LogsReported
<1>2. ASSUME NEW a \in DOMAIN improvements, NEW new, UpdateImprovement(r, a, new)
      PROVE  Reported
  <2>1. /\ Logs(r, "improvement_action_status", a)
        /\ DOMAIN improvements' = DOMAIN improvements
        /\ UNCHANGED <<checkpoints, assessments>>
    BY <1>2 DEF UpdateImprovement
  <2>2. Grows
    BY <2>1 DEF Grows
  <2> QED BY <2>1, <2>2, OtherBacked, LogsReported
<1>3. ASSUME NEW o, NEW rating, Assess(r, o, rating)
      PROVE  Reported
  <2>1. /\ Logs(r, "objective_assessed", o)
        /\ assessments' = Row(assessments, o, rating)
        /\ UNCHANGED <<checkpoints, improvements>>
    BY <1>3 DEF Assess
  <2>2. DOMAIN assessments' = DOMAIN assessments \cup {o}
    BY <2>1, RowIs
  <2>3. Grows
    BY <2>1, <2>2 DEF Grows
  <2>4. Backed(Event("objective_assessed", o), checkpoints', improvements', assessments')
    BY <2>2, EventIs DEF Backed
  <2> QED BY <2>1, <2>3, <2>4, LogsReported
<1>4. CASE AddNote(r)
  <2>1. /\ Logs(r, "manual_note", "exercise")
        /\ UNCHANGED <<checkpoints, improvements, assessments>>
    BY <1>4 DEF AddNote, records
  <2> QED BY <2>1, SameGrows, OtherBacked, LogsReported
<1> QED BY <1>1, <1>2, <1>3, <1>4 DEF EvaluationStep

LEMMA ReadClockReported ==
  ASSUME RequestsOK, NEW r \in OperationRequests, NEW command, ReadClock(r, command),
         UNCHANGED <<checkpoints, improvements, assessments, log>>
  PROVE  Reported
<1>1. CASE status \in Moves[command].from
  <2>1. PICK seen : seen = [status |-> status, command |-> command]
    OBVIOUS
  <2>2. PICK h : h = [Waiting EXCEPT !.step = "set", !.seen = seen]
    OBVIOUS
  <2>3. Now(r, h)
    BY <1>1, <2>1, <2>2 DEF ReadClock
  <2>4. h.step = "set" /\ h.event = NoEvent
    <3>1. h = [step |-> "set", event |-> NoEvent, after |-> "idle", seen |-> seen]
      BY <2>2, SeenIs
    <3>2. ASSUME NEW g, NEW none, NEW old,
                 g = [step |-> "set", event |-> none, after |-> "idle", seen |-> old]
          PROVE  g.step = "set" /\ g.event = none
      BY <3>2
    <3> QED BY <3>1, <3>2
  <2> QED BY <2>3, <2>4, QuietReported
<1>2. CASE status \notin Moves[command].from
  <2>1. Now(r, Waiting)
    BY <1>2 DEF ReadClock
  <2>2. Waiting.step = "idle" /\ Waiting.event = NoEvent
    BY DEF Waiting
  <2> QED BY <2>1, <2>2, QuietReported
<1> QED BY <1>1, <1>2

LEMMA DeliveryReported ==
  ASSUME RequestsOK, NEW r \in OperationRequests, DeliveryStep(r)
  PROVE  Reported
<1>1. ASSUME NEW kind, NEW on, Logs(r, kind, on),
             kind \notin {"checkpoint_created", "checkpoint_completed",
                          "improvement_action_created", "objective_assessed"},
             UNCHANGED <<checkpoints, improvements, assessments>>
      PROVE  Reported
  BY <1>1, SameGrows, OtherBacked, LogsReported
<1>2. ASSUME NEW i, AddArtifact(r, i) \/ TriggerInject(r, i) \/ TriggerFails(r, i)
      PROVE  Reported
  <2>1. PICK kind \in {"artifact_created", "inject_triggered", "inject_failed"} :
          Logs(r, kind, i)
    BY <1>2 DEF AddArtifact, TriggerInject, TriggerFails
  <2>2. UNCHANGED <<checkpoints, improvements, assessments>>
    BY <1>2 DEF AddArtifact, TriggerInject, TriggerFails, records
  <2> QED BY <1>1, <2>1, <2>2
<1>3. ASSUME NEW command, Command(r, command)
      PROVE  Reported
  BY <1>3, ReadClockReported DEF Command, records
<1>4. CASE StartLaunched(r)
  BY <1>4, ReadClockReported DEF StartLaunched, records
<1>5. CASE SetClock(r)
  <2>1. PICK command : command = handlers[r].seen.command
    OBVIOUS
  <2>2. command \in DOMAIN Moves
    BY <1>5, <2>1 DEF SetClock, RequestsOK, HandlerOK
  <2>3. UNCHANGED <<checkpoints, improvements, assessments>>
    BY <1>5 DEF SetClock
  <2>4. CASE StillRead(r)
    <3>1. Logs(r, command, "exercise")
      BY <1>5, <2>1, <2>4 DEF SetClock
    <3>2. command \notin {"checkpoint_created", "checkpoint_completed",
                          "improvement_action_created", "objective_assessed"}
      BY <2>2 DEF Moves
    <3> QED BY <1>1, <2>3, <3>1, <3>2
  <2>5. CASE ~StillRead(r)
    <3>1. Now(r, Waiting) /\ log' = log
      BY <1>5, <2>5 DEF SetClock
    <3>2. Waiting.step = "idle" /\ Waiting.event = NoEvent
      BY DEF Waiting
    <3> QED BY <2>3, <3>1, <3>2, QuietReported
  <2> QED BY <2>4, <2>5
<1>6. ASSUME NEW launch, OperateLab(r, launch)
      PROVE  Reported
  <2>1. PICK after : Now(r, [Waiting EXCEPT !.step = "docker", !.after = after])
    BY <1>6 DEF OperateLab
  <2>2. PICK h : h = [Waiting EXCEPT !.step = "docker", !.after = after]
    OBVIOUS
  <2>3. h.step = "docker" /\ h.event = NoEvent
    <3>1. h = [step |-> "docker", event |-> NoEvent, after |-> after, seen |-> << >>]
      BY <2>2, AfterIs
    <3>2. ASSUME NEW g, NEW none, NEW old, NEW a,
                 g = [step |-> "docker", event |-> none, after |-> a, seen |-> old]
          PROVE  g.step = "docker" /\ g.event = none
      BY <3>2
    <3> QED BY <3>1, <3>2
  <2>4. log' = log /\ UNCHANGED <<checkpoints, improvements, assessments>>
    BY <1>6 DEF OperateLab, records
  <2> QED BY <2>1, <2>2, <2>3, <2>4, QuietReported
<1>7. CASE LabOperated(r)
  <2>1. PICK e : e = Event("lab_operation", "exercise")
    OBVIOUS
  <2>2. PICK f : f = handlers[r] /\ HandlerOK(f)
    BY DEF RequestsOK
  <2>3. PICK h : h = [f EXCEPT !.step = "event", !.event = e] /\ Now(r, h)
    BY <1>7, <2>1, <2>2 DEF LabOperated
  <2>4. h = [step |-> "event", event |-> e, after |-> f.after, seen |-> f.seen]
    BY <2>2, <2>3 DEF HandlerOK
  <2>5. h.step = "event" /\ h.event = e
    BY <2>4
  <2>6. log' = log /\ UNCHANGED <<checkpoints, improvements, assessments>>
    BY <1>7 DEF LabOperated, records
  <2>7. Backed(e, checkpoints', improvements', assessments')
    BY <2>1, OtherBacked
  <2> QED BY <2>3, <2>5, <2>6, <2>7, SameGrows, NowReported
<1>8. CASE LabFailed(r)
  BY <1>1, <1>8 DEF LabFailed, records
<1> QED BY <1>2, <1>3, <1>4, <1>5, <1>6, <1>7, <1>8 DEF DeliveryStep

LEMMA ReportReported ==
  ASSUME RequestsOK, NEW r \in OperationRequests, ReportStep(r)
  PROVE  Reported
<1>1. log' = log /\ UNCHANGED <<checkpoints, improvements, assessments>>
  BY DEF ReportStep, AskReport, ReadTable, Render, records
<1>2. CASE AskReport(r)
  <2>1. PICK h : h = [Waiting EXCEPT !.step = "read"]
    OBVIOUS
  <2>2. h.event = NoEvent /\ Now(r, h)
    BY <1>2, <2>1 DEF Waiting, AskReport
  <2> QED BY <1>1, <1>2, <2>2, QuietReported
<1>3. CASE ReadTable(r)
  <2>1. \E step \in {"read", "render"} :
          \E seen : Now(r, [Waiting EXCEPT !.step = step, !.seen = seen])
    BY <1>3 DEF ReadTable
  <2>2. PICK step \in {"read", "render"} :
          \E seen : Now(r, [Waiting EXCEPT !.step = step, !.seen = seen])
    BY <2>1
  <2>3. PICK seen : Now(r, [Waiting EXCEPT !.step = step, !.seen = seen])
    BY <2>2
  <2>4. PICK h : h = [Waiting EXCEPT !.step = step, !.seen = seen]
    OBVIOUS
  <2>5. h.event = NoEvent
    <3>1. h = [step |-> step, event |-> NoEvent, after |-> "idle", seen |-> seen]
      BY <2>4, SeenIs
    <3>2. ASSUME NEW g, NEW s, NEW none, NEW old, NEW a,
                 g = [step |-> s, event |-> none, after |-> a, seen |-> old]
          PROVE  g.event = none
      BY <3>2
    <3> QED BY <3>1, <3>2
  <2> QED BY <1>1, <1>3, <2>3, <2>4, <2>5, QuietReported
<1>4. CASE Render(r)
  <2>1. Now(r, Waiting) /\ Waiting.step = "idle" /\ Waiting.event = NoEvent
    BY <1>4 DEF Render, Waiting
  <2> QED BY <1>1, <2>1, QuietReported
<1> QED BY <1>2, <1>3, <1>4 DEF ReportStep

LEMMA StepReported ==
  ASSUME RequestsOK, [OperationsNext]_operationVars
  PROVE  Reported
<1>1. ASSUME NEW r \in OperationRequests, WriteEvent(r)
      PROVE  Reported
  <2>1. PICK step : step = handlers[r].after
    OBVIOUS
  <2>2. PICK h : h = [Waiting EXCEPT !.step = step]
    OBVIOUS
  <2>3. /\ Now(r, h) /\ step \notin {"read", "render"}
        /\ UNCHANGED <<checkpoints, improvements, assessments>>
        /\ log' = WithEvent(log, handlers[r].event)
    BY <1>1, <2>1, <2>2 DEF WriteEvent, records, RequestsOK, HandlerOK
  <2>4. h.step = step /\ h.event = NoEvent
    BY <2>2 DEF Waiting
  <2> QED BY <2>3, <2>4, NoneBacked, SameGrows, NowReported
<1>2. CASE \/ OperationsDie \/ (\E safely : ChaosRunEnds(safely))
           \/ UNCHANGED operationVars
  <2>1. log' = log /\ UNCHANGED <<checkpoints, improvements, assessments>>
    BY <1>2 DEF OperationsDie, ChaosRunEnds, records, operationVars
  <2>2. \A r \in OperationRequests : handlers'[r] = handlers[r] \/ handlers'[r] = Waiting
    BY <1>2 DEF OperationsDie, ChaosRunEnds, operationVars
  <2>3. Waiting.step = "idle" /\ Waiting.event = NoEvent
    BY DEF Waiting
  <2>4. Events' \subseteq Events \cup {NoEvent, NoEvent}
    BY <2>1, <2>2, <2>3 DEF Events
  <2> QED BY <2>1, <2>2, <2>3, <2>4, NoneBacked, SameGrows DEF Reported
<1> QED BY <1>1, <1>2, RunOfShowReported, EvaluationReported, DeliveryReported,
           ReportReported
        DEF OperationsNext

(* What a report has read, or would read next.                             *)
Latest(seen, table) == IF table \in DOMAIN seen THEN seen[table] ELSE Contents[table]

SeenBacked(seen) ==
  "events" \in DOMAIN seen =>
    \A e \in DOMAIN seen.events :
      Backed(e, Latest(seen, "checkpoints"), Latest(seen, "improvements"),
             Latest(seen, "assessments"))

InjectRows(rows) ==
  DOMAIN rows \subseteq Injects \cup Artifacts /\ \A i \in DOMAIN rows : rows[i] \in BOOLEAN

AssessmentRows(rows) ==
  DOMAIN rows \subseteq Objectives /\ \A o \in DOMAIN rows : rows[o] \in DOMAIN Points

ChaosCounts(runs) ==
  runs.safe \in Nat /\ runs.ended \in Nat /\ runs.safe <= runs.ended

SeenTyped(seen) ==
  /\ "injects" \in DOMAIN seen => InjectRows(seen.injects)
  /\ "events" \in DOMAIN seen => Bag(seen.events) /\ IsFiniteSet(DOMAIN seen.events)
  /\ "chaos" \in DOMAIN seen => ChaosCounts(seen.chaos)
  /\ "assessments" \in DOMAIN seen => AssessmentRows(seen.assessments)

(* The tables are read in their order.                                     *)
ReadSoFar(seen, n) ==
  /\ DOMAIN seen = {readOrder[i] : i \in 1 .. n}
  /\ IsFiniteSet(DOMAIN seen) /\ Cardinality(DOMAIN seen) = n

ReadingWell(h) ==
  h.step \in {"read", "render"} =>
    /\ \E n \in 0 .. 7 : ReadSoFar(h.seen, n) /\ (h.step = "read" <=> n < 7)
    /\ SeenTyped(h.seen) /\ SeenBacked(h.seen)

ReportsInv ==
  EventsBacked /\ \A r \in OperationRequests : ReadingWell(handlers[r])

LEMMA OrderIs ==
  /\ Len(readOrder) = 7
  /\ \A i, j \in 1 .. 7 : readOrder[i] = readOrder[j] => i = j
  /\ readOrder[2] = "injects" /\ readOrder[3] = "events" /\ readOrder[4] = "chaos"
  /\ readOrder[5] = "assessments" /\ readOrder[6] = "improvements"
  /\ readOrder[7] = "checkpoints"
  /\ \A i \in 1 .. 7 : readOrder[i] \in DOMAIN Contents
BY DEF readOrder, Contents

LEMMA BackedGrows ==
  ASSUME NEW e, NEW c, NEW i, NEW a, NEW c2, NEW i2, NEW a2,
         Backed(e, c, i, a),
         DOMAIN c \subseteq DOMAIN c2,
         \A k \in DOMAIN c : c[k] = "completed" => c2[k] = "completed",
         DOMAIN i \subseteq DOMAIN i2, DOMAIN a \subseteq DOMAIN a2
  PROVE  Backed(e, c2, i2, a2)
BY DEF Backed

LEMMA SeenStaysBacked ==
  ASSUME NEW seen, SeenBacked(seen), Grows
  PROVE  SeenBacked(seen)'
<1> SUFFICES ASSUME "events" \in DOMAIN seen, NEW e \in DOMAIN seen.events
             PROVE  Backed(e, Latest(seen, "checkpoints"), Latest(seen, "improvements"),
                           Latest(seen, "assessments"))'
  BY DEF SeenBacked
<1>1. Backed(e, Latest(seen, "checkpoints"), Latest(seen, "improvements"),
             Latest(seen, "assessments"))
  BY DEF SeenBacked
<1>2. /\ DOMAIN Latest(seen, "checkpoints") \subseteq DOMAIN Latest(seen, "checkpoints")'
      /\ \A k \in DOMAIN Latest(seen, "checkpoints") :
           Latest(seen, "checkpoints")[k] = "completed" =>
             Latest(seen, "checkpoints")'[k] = "completed"
      /\ DOMAIN Latest(seen, "improvements") \subseteq DOMAIN Latest(seen, "improvements")'
      /\ DOMAIN Latest(seen, "assessments") \subseteq DOMAIN Latest(seen, "assessments")'
  BY DEF Grows, Latest, Contents
<1>3. Backed(e, Latest(seen, "checkpoints")', Latest(seen, "improvements")',
             Latest(seen, "assessments")')
  BY <1>1, <1>2, BackedGrows
<1> QED BY <1>3 DEF Backed

LEMMA EventsStayBacked ==
  ASSUME Reported, EventsBacked
  PROVE  EventsBacked'
<1>1. PICK e : /\ Events' \subseteq Events \cup {e, NoEvent}
               /\ Backed(e, checkpoints', improvements', assessments')
  BY DEF Reported
<1>2. ASSUME NEW f \in Events
      PROVE  Backed(f, checkpoints', improvements', assessments')
  BY BackedGrows DEF EventsBacked, Reported, Grows
<1>3. \A f \in Events' : Backed(f, checkpoints', improvements', assessments')
  BY <1>1, <1>2, NoneBacked
<1>4. IsFiniteSet(DOMAIN log')
  BY DEF Reported, EventsBacked
<1> QED BY <1>3, <1>4 DEF EventsBacked, Backed

(* The next table is read.                                                 *)
LEMMA ReadTableWell ==
  ASSUME RequestsOK, TablesOK, EventsBacked, NEW r \in OperationRequests,
         ReadingWell(handlers[r]), ReadTable(r)
  PROVE  ReadingWell(handlers[r])'
<1>0. PICK seen : seen = handlers[r].seen
  OBVIOUS
<1>1. PICK n \in 0 .. 7 :
        /\ seen = handlers[r].seen /\ ReadSoFar(seen, n) /\ n < 7
        /\ SeenTyped(seen) /\ SeenBacked(seen)
  <2>1. handlers[r].step = "read"
    BY DEF ReadTable
  <2>2. PICK n \in 0 .. 7 : ReadSoFar(handlers[r].seen, n) /\ n < 7
    BY <2>1 DEF ReadingWell
  <2>3. SeenTyped(handlers[r].seen) /\ SeenBacked(handlers[r].seen)
    BY <2>1 DEF ReadingWell
  <2> QED BY <1>0, <2>2, <2>3
<1>2. PICK table : table = readOrder[n + 1]
  OBVIOUS
<1>3. PICK seen2 : seen2 = Row(seen, table, Contents[table])
  OBVIOUS
<1>4. n \in Nat /\ n + 1 \in 1 .. 7
  BY <1>1
<1>5. PICK step : step = IF n + 1 = 7 THEN "render" ELSE "read"
  OBVIOUS
<1>6. Now(r, [Waiting EXCEPT !.step = step, !.seen = seen2])
  <2>1. Cardinality(DOMAIN handlers[r].seen) + 1 = n + 1 /\ Len(readOrder) = 7
    BY <1>1, OrderIs DEF ReadSoFar
  <2> QED BY <1>1, <1>2, <1>3, <1>5, <2>1 DEF ReadTable
<1>7. UNCHANGED <<status, checkpoints, improvements, assessments, triggered, chaosRuns, log>>
  BY DEF ReadTable, records, rest
<1>8. handlers'[r].step = step /\ handlers'[r].seen = seen2
  <2>1. PICK h : h = [Waiting EXCEPT !.step = step, !.seen = seen2]
    OBVIOUS
  <2>2. h = [step |-> step, event |-> NoEvent, after |-> "idle", seen |-> seen2]
    BY <2>1, SeenIs
  <2>3. ASSUME NEW g, NEW none, NEW old, NEW a,
               g = [step |-> step, event |-> none, after |-> a, seen |-> old]
        PROVE  g.step = step /\ g.seen = old
    BY <2>3
  <2>4. handlers'[r] = h
    BY <1>6, <2>1 DEF RequestsOK, Now
  <2> QED BY <2>2, <2>3, <2>4
<1>9. /\ DOMAIN seen2 = DOMAIN seen \cup {table} /\ seen2[table] = Contents[table]
      /\ \A t \in DOMAIN seen \ {table} : seen2[t] = seen[t]
  BY <1>3 DEF Row
<1>10. table \notin DOMAIN seen
  BY <1>1, <1>2, <1>4, OrderIs DEF ReadSoFar
<1>11. ReadSoFar(seen2, n + 1)
  <2>1. {readOrder[i] : i \in 1 .. n + 1} = {readOrder[i] : i \in 1 .. n} \cup {table}
    BY <1>2, <1>4
  <2>2. IsFiniteSet(DOMAIN seen)
    BY <1>1 DEF ReadSoFar
  <2>3. IsFiniteSet(DOMAIN seen2) /\ Cardinality(DOMAIN seen2) = n + 1
    <3>1. /\ IsFiniteSet(DOMAIN seen \cup {table})
          /\ Cardinality(DOMAIN seen \cup {table}) = Cardinality(DOMAIN seen) + 1
      BY <1>10, <2>2, FS_AddElement
    <3>2. Cardinality(DOMAIN seen) = n
      BY <1>1 DEF ReadSoFar
    <3> QED BY <1>9, <3>1, <3>2
  <2> QED BY <1>1, <1>9, <2>1, <2>3 DEF ReadSoFar
<1>12. SeenTyped(seen2)
  <2>1. /\ InjectRows(Contents["injects"]) /\ AssessmentRows(Contents["assessments"])
        /\ ChaosCounts(Contents["chaos"]) /\ Bag(Contents["events"])
        /\ IsFiniteSet(DOMAIN Contents["events"])
    BY DEF TablesOK, RequestsOK, EventsBacked, InjectRows, AssessmentRows, ChaosCounts,
           Contents
  <2> QED BY <1>1, <1>9, <2>1 DEF SeenTyped
<1>13. SeenBacked(seen2)
  <2>1. \A t : Latest(seen2, t) = Latest(seen, t)
    BY <1>9, <1>10 DEF Latest
  <2>2. CASE table = "events"
    <3>1. n = 2
      <4>1. readOrder[n + 1] = readOrder[3] /\ n + 1 \in 1 .. 7 /\ 3 \in 1 .. 7
        BY <1>2, <1>4, <2>2, OrderIs
      <4>2. n + 1 = 3
        BY <4>1, OrderIs
      <4> QED BY <1>4, <4>2
    <3>2. /\ "checkpoints" \notin DOMAIN seen /\ "improvements" \notin DOMAIN seen
          /\ "assessments" \notin DOMAIN seen
      BY <1>1, <3>1, OrderIs DEF ReadSoFar
    <3>3. /\ Latest(seen2, "checkpoints") = checkpoints
          /\ Latest(seen2, "improvements") = improvements
          /\ Latest(seen2, "assessments") = assessments
      BY <2>1, <3>2 DEF Latest, Contents
    <3>4. seen2.events = log
      BY <1>9, <2>2 DEF Contents
    <3> QED BY <3>3, <3>4 DEF SeenBacked, EventsBacked, Events
  <2>3. CASE table # "events"
    BY <1>1, <1>9, <2>1, <2>3 DEF SeenBacked
  <2> QED BY <2>2, <2>3
<1>14. SeenBacked(seen2)'
  BY <1>7, <1>13, SeenStaysBacked, SameGrows
<1>15. step = "read" <=> n + 1 < 7
  BY <1>4, <1>5
<1>16. step = "read" => n + 1 < 7
  BY <1>15
<1>17. \E m \in 0 .. 7 : ReadSoFar(seen2, m) /\ (step = "read" <=> m < 7)
  BY <1>4, <1>11, <1>15
<1>18. SeenTyped(handlers'[r].seen) /\ SeenBacked(handlers[r].seen)'
  BY <1>8, <1>12, <1>14 DEF SeenBacked, Latest
<1> QED BY <1>8, <1>17, <1>18 DEF ReadingWell, ReadSoFar, SeenTyped

(* A report that was asked for has read nothing.                           *)
LEMMA AskReportWell ==
  ASSUME RequestsOK, NEW r \in OperationRequests, AskReport(r)
  PROVE  ReadingWell(handlers[r])'
<1>1. PICK h : h = [Waiting EXCEPT !.step = "read"]
  OBVIOUS
<1>2. h.step = "read" /\ h.seen = << >>
  BY <1>1 DEF Waiting
<1>3. handlers'[r] = h
  BY <1>1 DEF AskReport, Now, RequestsOK
<1>4. DOMAIN << >> = {}
  OBVIOUS
<1>5. ReadSoFar(<< >>, 0)
  BY <1>4, FS_EmptySet DEF ReadSoFar
<1>6. SeenTyped(<< >>) /\ SeenBacked(<< >>)'
  BY <1>4 DEF SeenTyped, SeenBacked
<1>7. \E n \in 0 .. 7 : ReadSoFar(h.seen, n) /\ (h.step = "read" <=> n < 7)
  BY <1>2, <1>5
<1>8. SeenTyped(h.seen) /\ SeenBacked(handlers[r].seen)'
  BY <1>2, <1>3, <1>6 DEF SeenBacked, Latest
<1> QED BY <1>3, <1>7, <1>8 DEF ReadingWell, ReadSoFar, SeenTyped

LEMMA ReadingStaysWell ==
  ASSUME RequestsOK, TablesOK, Reported, EventsBacked, NEW r \in OperationRequests,
         ReadingWell(handlers[r])
  PROVE  ReadingWell(handlers[r])'
<1>1. CASE handlers'[r] = handlers[r]
  <2> SUFFICES ASSUME handlers[r].step \in {"read", "render"}
               PROVE  ReadingWell(handlers[r])'
    BY <1>1 DEF ReadingWell
  <2>1. SeenTyped(handlers'[r].seen) /\ SeenBacked(handlers[r].seen)
    BY <1>1 DEF ReadingWell
  <2>2. \E n \in 0 .. 7 : ReadSoFar(handlers'[r].seen, n)
                          /\ (handlers'[r].step = "read" <=> n < 7)
    BY <1>1 DEF ReadingWell
  <2>3. PICK seen : seen = handlers[r].seen
    OBVIOUS
  <2>4. SeenBacked(seen)'
    BY <2>1, <2>3, SeenStaysBacked DEF Reported
  <2>5. SeenBacked(handlers[r].seen)'
    BY <1>1, <2>3, <2>4 DEF SeenBacked, Latest
  <2> QED BY <2>1, <2>2, <2>5 DEF ReadingWell, ReadSoFar, SeenTyped
<1>2. CASE handlers'[r].step \notin {"read", "render"}
  BY <1>2 DEF ReadingWell
<1>3. CASE AskReport(r)
  BY <1>3, AskReportWell
<1>4. CASE ReadTable(r)
  BY <1>4, ReadTableWell
<1> QED BY <1>1, <1>2, <1>3, <1>4 DEF Reported

LEMMA ReportsInvInit == OperationsInit => ReportsInv
<1> SUFFICES ASSUME OperationsInit PROVE ReportsInv
  OBVIOUS
<1>1. PICK kind \in {"exercise_created", "exercise_created_from_pack"} :
        log = [e \in {Event(kind, "exercise")} |-> 1]
  BY DEF OperationsInit
<1>2. DOMAIN log = {Event(kind, "exercise")}
  BY <1>1
<1>3. \A r \in OperationRequests : handlers[r] = Waiting
  BY DEF OperationsInit
<1>4. Waiting.step = "idle" /\ Waiting.event = NoEvent
  BY DEF Waiting
<1>5. Events \subseteq {Event(kind, "exercise"), NoEvent}
  BY <1>2, <1>3, <1>4 DEF Events
<1>6. Backed(Event(kind, "exercise"), checkpoints, improvements, assessments)
  BY <1>1, OtherBacked
<1>7. EventsBacked
  <2>1. IsFiniteSet({Event(kind, "exercise")})
    BY FS_Singleton
  <2>2. Backed(NoEvent, checkpoints, improvements, assessments)
    BY NoneBacked
  <2>3. \A e \in Events : Backed(e, checkpoints, improvements, assessments)
    BY <1>5, <1>6, <2>2
  <2> QED BY <1>2, <2>1, <2>3 DEF EventsBacked
<1> QED BY <1>3, <1>4, <1>7 DEF ReportsInv, ReadingWell

LEMMA ReportsInvHolds == OperationsSpec => []ReportsInv
<1>1. OperationsInv /\ ReportsInv /\ [OperationsNext]_operationVars => ReportsInv'
  <2> SUFFICES ASSUME OperationsInv, ReportsInv, [OperationsNext]_operationVars
               PROVE  ReportsInv'
    OBVIOUS
  <2>1. RequestsOK /\ TablesOK
    BY DEF OperationsInv
  <2>2. Reported
    BY <2>1, StepReported
  <2>3. EventsBacked'
    BY <2>2, EventsStayBacked DEF ReportsInv
  <2>4. \A r \in OperationRequests : ReadingWell(handlers[r])'
    BY <2>1, <2>2, ReadingStaysWell DEF ReportsInv
  <2> QED BY <2>3, <2>4 DEF ReportsInv
<1> QED BY <1>1, ReportsInvInit, OperationsInvHolds, PTL DEF OperationsSpec

(* A report that is rendered has read every table.                         *)
LEMMA RenderedIs ==
  ASSUME ReportsInv, NEW report \in Rendered
  PROVE  /\ {"injects", "events", "chaos", "assessments", "improvements", "checkpoints"}
              \subseteq DOMAIN report
         /\ SeenTyped(report) /\ SeenBacked(report)
<1>1. PICK r \in OperationRequests :
        handlers[r].step = "render" /\ report = handlers[r].seen
  BY DEF Rendered
<1>2. ReadingWell(handlers[r])
  BY DEF ReportsInv
<1>3. SeenTyped(report) /\ SeenBacked(report)
  BY <1>1, <1>2 DEF ReadingWell
<1>4. PICK n \in 0 .. 7 : ReadSoFar(report, n) /\ ~(n < 7)
  BY <1>1, <1>2 DEF ReadingWell
<1>5. n = 7
  BY <1>4
<1>6. DOMAIN report = {readOrder[i] : i \in 1 .. 7}
  BY <1>4, <1>5 DEF ReadSoFar
<1>7. \A i \in 1 .. 7 : readOrder[i] \in DOMAIN report
  BY <1>6
<1>8. /\ 2 \in 1 .. 7 /\ 3 \in 1 .. 7 /\ 4 \in 1 .. 7 /\ 5 \in 1 .. 7 /\ 6 \in 1 .. 7
      /\ 7 \in 1 .. 7
  OBVIOUS
<1> QED BY <1>3, <1>7, <1>8, OrderIs

(* A report reads table after table while the exercise goes on, and holds  *)
(* whatever its own timeline tells of: a record is there before its event  *)
(* is written, the timeline is read before the tables that it tells of     *)
(* (_exercise_evidence), and no row of theirs is taken away in between.    *)
THEOREM ReportsHoldWhatTheyTell == OperationsSpec => []ReportsHoldTheirTimeline
<1>1. ReportsInv => ReportsHoldTheirTimeline
  <2> SUFFICES ASSUME ReportsInv, NEW report \in Rendered, NEW e \in DOMAIN report.events
               PROVE  /\ e.kind = "checkpoint_created" => e.on \in DOMAIN report.checkpoints
                      /\ e.kind = "checkpoint_completed" =>
                           report.checkpoints[e.on] = "completed"
                      /\ e.kind = "improvement_action_created" =>
                           e.on \in DOMAIN report.improvements
                      /\ e.kind = "objective_assessed" => e.on \in DOMAIN report.assessments
    BY DEF ReportsHoldTheirTimeline
  <2>1. /\ {"events", "assessments", "improvements", "checkpoints"} \subseteq DOMAIN report
        /\ SeenBacked(report)
    BY RenderedIs
  <2>2. Backed(e, report.checkpoints, report.improvements, report.assessments)
    BY <2>1 DEF SeenBacked, Latest
  <2> QED BY <2>2 DEF Backed
<1> QED BY <1>1, ReportsInvHolds, PTL

(***************************************************************************)
(* What a ready exercise has earned.                                       *)
(***************************************************************************)
LEMMA TimesGrows ==
  ASSUME NEW b \in Nat, NEW x \in Int, NEW y \in Int, x <= y
  PROVE  b * x <= b * y
<1>1. b * (y - x) >= 0
  OBVIOUS
<1>2. b * (y - x) = b * y - b * x
  OBVIOUS
<1> QED BY <1>1, <1>2

LEMMA RoundedIs ==
  ASSUME NEW a \in Int, NEW b \in Nat \ {0}, NEW n \in Rounded(a, b)
  PROVE  n \in Int /\ 2 * (b * n) <= 2 * a + b
<1>1. a \div b \in Int
  OBVIOUS
<1>2. n \in Int
  BY <1>1 DEF Rounded
<1>3. 2 * b * n <= 2 * a + b
  BY DEF Rounded
<1>4. 2 * b * n = 2 * (b * n)
  BY <1>2
<1> QED BY <1>2, <1>3, <1>4

(* A share of a whole is at most a hundred percent.                        *)
LEMMA PercentIs ==
  ASSUME NEW c \in Nat, NEW b \in Nat \ {0}, c <= b, NEW n \in Rounded(100 * c, b)
  PROVE  n \in Int /\ n <= 100
<1>1. n \in Int /\ 2 * (b * n) <= 200 * c + b
  BY RoundedIs
<1>2. ASSUME 101 <= n PROVE FALSE
  <2>1. b * 101 <= b * n
    BY <1>1, <1>2, TimesGrows
  <2>2. b * n \in Int
    BY <1>1
  <2> QED BY <1>1, <2>1, <2>2
<1> QED BY <1>1, <1>2

LEMMA ObjectivesCounted ==
  /\ Cardinality(Objectives) \in Nat \ {0} /\ TotalPoints \in Nat \ {0}
  /\ TotalPoints = 3 * Cardinality(Objectives)
<1>1. Cardinality(Objectives) \in Nat /\ Cardinality(Objectives) # 0
  BY OperationsAssumption, FS_CardinalityType, FS_EmptySet
<1> QED BY <1>1 DEF TotalPoints

LEMMA EarnedType ==
  ASSUME NEW seen, AssessmentRows(seen.assessments)
  PROVE  EarnedPoints(seen) \in Nat
<1> DEFINE rows == seen.assessments
           w    == [o \in DOMAIN rows |-> Points[rows[o]]]
<1>1. IsFiniteSet(DOMAIN rows)
  BY OperationsAssumption, FS_Subset DEF AssessmentRows
<1>2. \A rating \in DOMAIN Points : Points[rating] \in Nat
  BY DEF Points
<1>3. \A o \in DOMAIN rows : w[o] \in Nat
  BY <1>2 DEF AssessmentRows
<1> HIDE DEF w
<1>4. SumFunctionOnSet(w, DOMAIN rows) \in Nat
  BY <1>1, <1>3, SumType
<1> QED BY <1>4 DEF EarnedPoints, w

LEMMA DocumentationIs ==
  ASSUME NEW seen, Bag(seen.events), IsFiniteSet(DOMAIN seen.events),
         NEW d \in Documentation(seen)
  PROVE  d \in Int /\ d <= 100
<1>1. EvidenceEvents(seen) \in Nat
  <2> DEFINE told == {e \in DOMAIN seen.events : e.kind # "exercise_created"}
  <2>1. IsFiniteSet(told) /\ \A e \in told : seen.events[e] \in Nat
    BY FS_Subset DEF Bag
  <2>2. SumFunctionOnSet(seen.events, told) \in Nat
    <3> HIDE DEF told
    <3> QED BY <2>1, SumType
  <2> QED BY <2>2 DEF EvidenceEvents
<1>2. CASE EvidenceEvents(seen) >= Cardinality(Objectives)
  BY <1>2 DEF Documentation
<1>3. CASE ~(EvidenceEvents(seen) >= Cardinality(Objectives))
  <2>1. d \in Rounded(100 * EvidenceEvents(seen), Cardinality(Objectives))
    BY <1>3 DEF Documentation
  <2>2. EvidenceEvents(seen) <= Cardinality(Objectives)
    BY <1>1, <1>3, ObjectivesCounted
  <2> QED BY <1>1, <2>1, <2>2, ObjectivesCounted, PercentIs
<1> QED BY <1>2, <1>3

LEMMA InjectsIs ==
  ASSUME NEW rows, InjectRows(rows),
         NEW n \in Rounded(100 * Cardinality({j \in DOMAIN rows : rows[j]}),
                           AtLeastOne(Cardinality(DOMAIN rows)))
  PROVE  n \in Int /\ n <= 100
<1> DEFINE done == {j \in DOMAIN rows : rows[j]}
<1>1. IsFiniteSet(DOMAIN rows)
  <2>1. IsFiniteSet(Injects \cup Artifacts)
    BY OperationsAssumption, FS_Union
  <2> QED BY <2>1, FS_Subset DEF InjectRows
<1>2. /\ Cardinality(done) \in Nat /\ Cardinality(DOMAIN rows) \in Nat
      /\ Cardinality(done) <= Cardinality(DOMAIN rows)
  BY <1>1, FS_Subset, FS_CardinalityType
<1>3. /\ AtLeastOne(Cardinality(DOMAIN rows)) \in Nat \ {0}
      /\ Cardinality(done) <= AtLeastOne(Cardinality(DOMAIN rows))
  BY <1>2 DEF AtLeastOne
<1> QED BY <1>2, <1>3, PercentIs

LEMMA ChaosIs ==
  ASSUME NEW runs, ChaosCounts(runs), NEW n \in Rounded(100 * runs.safe, AtLeastOne(runs.ended))
  PROVE  n \in Int /\ n <= 100
<1>1. /\ AtLeastOne(runs.ended) \in Nat \ {0} /\ runs.safe \in Nat
      /\ runs.safe <= AtLeastOne(runs.ended)
  BY DEF ChaosCounts, AtLeastOne
<1> QED BY <1>1, PercentIs

(* No exercise is called ready that has not earned 71.5 % of the points    *)
(* of its objectives, however many injects were delivered, chaos runs were *)
(* safe and events were written, for any number of objectives and however  *)
(* the scores are rounded (build_exercise_intelligence): the weight of the *)
(* three other scores is 45 % and each of them is at most a hundred.       *)
THEOREM ReadyMeansEarned == OperationsSpec => []ReadyIsEarned
<1>1. ReportsInv => ReadyIsEarned
  <2> SUFFICES ASSUME ReportsInv, NEW report \in Rendered,
                      NEW score \in ReadinessScores(report), ExerciseReady(score)
               PROVE  1000 * EarnedPoints(report) >= 715 * TotalPoints
    BY DEF ReadyIsEarned
  <2>1. /\ InjectRows(report.injects) /\ ChaosCounts(report.chaos)
        /\ AssessmentRows(report.assessments)
        /\ Bag(report.events) /\ IsFiniteSet(DOMAIN report.events)
    BY RenderedIs DEF SeenTyped
  <2>2. PICK o \in Rounded(100 * EarnedPoints(report), TotalPoints),
             i \in Rounded(100 * Cardinality({j \in DOMAIN report.injects : report.injects[j]}),
                           AtLeastOne(Cardinality(DOMAIN report.injects))),
             s \in Rounded(100 * report.chaos.safe, AtLeastOne(report.chaos.ended)),
             d \in Documentation(report) :
          score \in Rounded(55 * o + 15 * (i + s + d), 100)
    BY DEF ReadinessScores
  <2>3. /\ i \in Int /\ i <= 100
        /\ s \in Int /\ s <= 100
        /\ d \in Int /\ d <= 100
    BY <2>1, InjectsIs, ChaosIs, DocumentationIs
  <2>4. EarnedPoints(report) \in Nat /\ TotalPoints \in Nat \ {0}
    BY <2>1, EarnedType, ObjectivesCounted
  <2>5. o \in Int /\ 2 * (TotalPoints * o) <= 200 * EarnedPoints(report) + TotalPoints
    BY <2>4, RoundedIs
  <2>6. score \in Int /\ 2 * (100 * score) <= 2 * (55 * o + 15 * (i + s + d)) + 100
    <3>1. 55 * o + 15 * (i + s + d) \in Int /\ 100 \in Nat \ {0}
      BY <2>3, <2>5
    <3> QED BY <2>2, <3>1, RoundedIs
  <2>7. 72 <= o
    BY <2>3, <2>5, <2>6 DEF ExerciseReady
  <2>8. TotalPoints * 72 <= TotalPoints * o
    BY <2>4, <2>5, <2>7, TimesGrows
  <2>9. TotalPoints * o \in Int
    BY <2>4, <2>5
  <2> QED BY <2>4, <2>5, <2>8, <2>9
<1> QED BY <1>1, ReportsInvHolds, PTL

(***************************************************************************)
(* The run history.                                                        *)
(***************************************************************************)
RunRecords ==
  [id : Nat \ {0}, action : Actions,
   status : {"pending", "active", "completed", "aborted", "failed"}]

(* No run is told of twice, and the records of faults are theirs.          *)
RecordsTrue(h, force, last) ==
  \A i \in DOMAIN h :
    /\ h[i].id \in 1 .. last
    /\ \A j \in DOMAIN h : h[i].id = h[j].id => i = j
    /\ h[i].status = "active" <=> force[h[i].action] = h[i].id
    /\ \A a \in Actions : force[a] = h[i].id => h[i].action = a

ForceOK(force) ==
  /\ force \in [Actions -> {NoRun} \cup 1 .. made]
  /\ \A a, b \in Actions : force[a] = force[b] /\ force[a] # NoRun => a = b

HistoryInv ==
  /\ made \in Nat /\ over \subseteq Actions
  /\ ForceOK(inForce)
  /\ history \in Seq(RunRecords) /\ Len(history) <= MaxHistory
  /\ RecordsTrue(history, inForce, made)

LEMMA NoRunIsNone == \A i \in Nat \ {0} : i # NoRun
BY HistoryAssumption

LEMMA EntriesAre ==
  ASSUME NEW h \in Seq(RunRecords)
  PROVE  \A i \in DOMAIN h :
           /\ h[i] \in RunRecords /\ h[i].id \in Nat \ {0} /\ h[i].id # NoRun
           /\ h[i].action \in Actions
<1>1. \A i \in DOMAIN h : h[i] \in RunRecords
  OBVIOUS
<1>2. \A r \in RunRecords : r.id \in Nat \ {0} /\ r.action \in Actions
  BY DEF RunRecords
<1> QED BY <1>1, <1>2, NoRunIsNone

LEMMA RunRecordIs ==
  ASSUME NEW id, NEW action, NEW how
  PROVE  /\ RunRecord(id, action, how).id = id
         /\ RunRecord(id, action, how).action = action
         /\ RunRecord(id, action, how).status = how
         /\ id \in Nat \ {0} /\ action \in Actions
            /\ how \in {"pending", "active", "completed", "aborted", "failed"}
              => RunRecord(id, action, how) \in RunRecords
BY DEF RunRecord, RunRecords

LEMMA StatusIs ==
  ASSUME NEW r \in RunRecords,
         NEW how \in {"pending", "active", "completed", "aborted", "failed"}
  PROVE  /\ [r EXCEPT !.status = how] \in RunRecords
         /\ [r EXCEPT !.status = how].id = r.id
         /\ [r EXCEPT !.status = how].action = r.action
         /\ [r EXCEPT !.status = how].status = how
BY DEF RunRecords

(* Ranks among finitely many naturals: each but one is some element's.     *)
LEMMA RanksAreTaken ==
  ASSUME NEW S \in SUBSET Nat, IsFiniteSet(S), NEW n \in 1 .. Cardinality(S)
  PROVE  \E k \in S : Cardinality({j \in S : j < k}) = n - 1
<1> DEFINE Below(k) == {j \in S : j < k}
           rank == [k \in S |-> Cardinality(Below(k))]
           T == 0 .. Cardinality(S) - 1
<1>1. Cardinality(S) \in Nat
  BY FS_CardinalityType
<1>2. ASSUME NEW k \in S
      PROVE  Cardinality(Below(k)) \in T
  <2>1. Below(k) \subseteq S \ {k} /\ IsFiniteSet(S \ {k})
    <3>1. ~(k < k)
      OBVIOUS
    <3>2. IsFiniteSet(S \ {k})
      BY FS_RemoveElement
    <3> QED BY <3>1, <3>2
  <2>2. Cardinality(S \ {k}) = Cardinality(S) - 1
    BY FS_RemoveElement
  <2>3. IsFiniteSet(Below(k)) /\ Cardinality(Below(k)) <= Cardinality(S \ {k})
    BY <2>1, FS_Subset
  <2>4. Cardinality(Below(k)) \in Nat
    BY <2>3, FS_CardinalityType
  <2> QED BY <1>1, <2>2, <2>3, <2>4
<1>3. ASSUME NEW k \in S, NEW l \in S, k < l
      PROVE  Cardinality(Below(k)) < Cardinality(Below(l))
  <2>1. Below(k) \cup {k} \subseteq Below(l) /\ k \notin Below(k)
    <3>1. ~(k < k) /\ \A j \in S : j < k => j < l
      BY <1>3
    <3> QED BY <1>3, <3>1
  <2>2. IsFiniteSet(Below(k)) /\ IsFiniteSet(Below(l))
    BY FS_Subset
  <2>3. /\ Cardinality(Below(k) \cup {k}) = Cardinality(Below(k)) + 1
        /\ Cardinality(Below(k) \cup {k}) <= Cardinality(Below(l))
    <3> HIDE DEF Below
    <3> QED BY <2>1, <2>2, FS_AddElement, FS_Subset
  <2>4. Cardinality(Below(k)) \in Nat /\ Cardinality(Below(l)) \in Nat
    BY <2>2, FS_CardinalityType
  <2> QED BY <2>3, <2>4
<1>4. rank \in [S -> T] /\ \A k, l \in S : rank[k] = rank[l] => k = l
  <2>1. rank \in [S -> T]
    BY <1>2
  <2>2. ASSUME NEW k \in S, NEW l \in S, rank[k] = rank[l]
        PROVE  k = l
    <3>1. ~(k < l) /\ ~(l < k)
      BY <1>2, <1>3, <2>2
    <3> QED BY <3>1
  <2> QED BY <2>1, <2>2
<1>5. rank \in Injection(S, T)
  <2> HIDE DEF rank, T
  <2> QED BY <1>4, Fun_IsInj
<1>6. IsFiniteSet(T) /\ Cardinality(T) = Cardinality(S)
  <2>1. 0 \in Int /\ Cardinality(S) - 1 \in Int /\ 0 <= Cardinality(S)
    BY <1>1
  <2>2. IsFiniteSet(T)
    BY <2>1, FS_Interval
  <2>3. Cardinality(T) = IF 0 > Cardinality(S) - 1 THEN 0 ELSE Cardinality(S) - 1 - 0 + 1
    BY <2>1, FS_Interval
  <2> QED BY <1>1, <2>2, <2>3
<1>7. rank \in Surjection(S, T)
  <2> HIDE DEF rank, T
  <2> QED BY <1>5, <1>6, FS_Injection
<1>8. n - 1 \in T
  BY <1>1
<1>9. \E k \in S : rank[k] = n - 1
  <2> HIDE DEF rank, T
  <2> QED BY <1>7, <1>8, Fun_SurjectionProperties
<1> QED BY <1>9

(* The actions of a set are all there, each once.                          *)
LEMMA ByNameIs ==
  ASSUME NEW A \in SUBSET Actions
  PROVE  /\ ByName(A) \in Seq(A)
         /\ \A i, j \in DOMAIN ByName(A) : ByName(A)[i] = ByName(A)[j] => i = j
         /\ \A a \in A : \E i \in DOMAIN ByName(A) : ByName(A)[i] = a
<1> DEFINE places  == {k \in DOMAIN ActionNames : ActionNames[k] \in A}
           Rank(k) == Cardinality({j \in places : j < k})
           At(n)   == CHOOSE k \in places : Rank(k) = n - 1
           N       == Cardinality(places)
<1>1. /\ ActionNames \in Seq(Actions) /\ DOMAIN ActionNames = 1 .. Len(ActionNames)
      /\ Len(ActionNames) \in Nat
      /\ \A j, k \in DOMAIN ActionNames : ActionNames[j] = ActionNames[k] => j = k
  BY HistoryAssumption DEF Actions, IsInjective
<1>2. places \in SUBSET Nat /\ IsFiniteSet(places)
  <2>1. IsFiniteSet(1 .. Len(ActionNames))
    BY <1>1, FS_Interval
  <2> QED BY <1>1, <2>1, FS_Subset
<1>3. N \in Nat
  BY <1>2, FS_CardinalityType
<1>4. ASSUME NEW n \in 1 .. N
      PROVE  At(n) \in places /\ Rank(At(n)) = n - 1
  <2>1. \E k \in places : Rank(k) = n - 1
    <3> HIDE DEF places
    <3> QED BY <1>2, RanksAreTaken
  <2> QED BY <2>1
<1>5. ByName(A) = [n \in 1 .. N |-> ActionNames[At(n)]]
  BY DEF ByName
<1> HIDE DEF At, N
<1>6. ByName(A) \in Seq(A)
  <2>1. \A n \in 1 .. N : ActionNames[At(n)] \in A
    BY <1>4
  <2> QED BY <1>3, <1>5, <2>1
<1>7. DOMAIN ByName(A) = 1 .. N
  BY <1>5
<1>8. ASSUME NEW i \in 1 .. N, NEW j \in 1 .. N, ByName(A)[i] = ByName(A)[j]
      PROVE  i = j
  <2>1. At(i) = At(j)
    BY <1>1, <1>4, <1>5, <1>8
  <2>2. Rank(At(i)) = i - 1 /\ Rank(At(j)) = j - 1
    BY <1>4
  <2> HIDE DEF Rank
  <2>3. i - 1 = j - 1
    BY <2>1, <2>2
  <2> QED BY <1>3, <2>3
<1>9. ASSUME NEW a \in A
      PROVE  \E i \in 1 .. N : ByName(A)[i] = a
  <2>1. PICK k \in DOMAIN ActionNames : ActionNames[k] = a
    BY DEF Actions, Range
  <2>2. k \in places
    BY <2>1
  <2> DEFINE T == 0 .. N - 1
             f == [n \in 1 .. N |-> At(n)]
  <2>3. f \in Injection(1 .. N, places)
    <3>1. f \in [1 .. N -> places]
      BY <1>4
    <3>2. ASSUME NEW i \in 1 .. N, NEW j \in 1 .. N, f[i] = f[j]
          PROVE  i = j
      <4>1. At(i) = At(j)
        BY <3>2
      <4>2. Rank(At(i)) = i - 1 /\ Rank(At(j)) = j - 1
        BY <1>4
      <4> HIDE DEF Rank
      <4>3. i - 1 = j - 1
        BY <4>1, <4>2
      <4> QED BY <1>3, <4>3
    <3> HIDE DEF f, places
    <3> QED BY <3>1, <3>2, Fun_IsInj
  <2>4. IsFiniteSet(1 .. N) /\ Cardinality(1 .. N) = Cardinality(places)
    BY <1>3, FS_Interval DEF N
  <2>5. f \in Surjection(1 .. N, places)
    <3> HIDE DEF f, places
    <3> QED BY <1>2, <2>3, <2>4, FS_Injection
  <2>6. \A t \in places : \E i \in 1 .. N : f[i] = t
    <3> DEFINE D == 1 .. N
    <3>1. f \in Surjection(D, places)
      BY <2>5
    <3> HIDE DEF f, places, D
    <3>2. \A t \in places : \E i \in D : f[i] = t
      BY <3>1, Fun_SurjectionProperties
    <3> QED BY <3>2 DEF D
  <2>7. PICK i \in 1 .. N : f[i] = k
    <3> HIDE DEF f, places
    <3> QED BY <2>2, <2>6
  <2>8. ByName(A)[i] = a
    BY <1>5, <2>1, <2>7
  <2> QED BY <2>8
<1> QED BY <1>6, <1>7, <1>8, <1>9

(* The newest records are the last ones.                                   *)
LEMMA NewestIs ==
  ASSUME NEW h \in Seq(RunRecords)
  PROVE  \E d \in Nat :
           /\ d = IF Len(h) <= MaxHistory THEN 0 ELSE Len(h) - MaxHistory
           /\ Newest(h) \in Seq(RunRecords) /\ Len(Newest(h)) = Len(h) - d
           /\ \A i \in 1 .. Len(h) - d : Newest(h)[i] = h[i + d]
<1>1. Len(h) \in Nat /\ MaxHistory \in Nat /\ DOMAIN h = 1 .. Len(h)
  BY HistoryAssumption
<1>2. CASE Len(h) <= MaxHistory
  <2>1. Newest(h) = h /\ Len(h) - 0 = Len(h)
    BY <1>1, <1>2 DEF Newest
  <2>2. \A i \in 1 .. Len(h) - 0 : i + 0 = i
    OBVIOUS
  <2>3. \A i \in 1 .. Len(h) - 0 : Newest(h)[i] = h[i + 0]
    BY <2>1, <2>2
  <2> QED BY <1>2, <2>1, <2>3
<1>3. CASE ~(Len(h) <= MaxHistory)
  <2>0. Len(h) - MaxHistory \in Nat
    BY <1>1, <1>3
  <2>1. PICK d \in Nat : d = Len(h) - MaxHistory
    BY <2>0
  <2>2. d + 1 \in Int /\ Len(h) \in Int /\ d + 1 <= Len(h) /\ Len(h) - (d + 1) + 1 = Len(h) - d
    <3>1. 1 <= MaxHistory
      BY HistoryAssumption
    <3> QED BY <1>1, <2>1, <3>1
  <2>3. PICK n : n = SubSeq(h, d + 1, Len(h))
    OBVIOUS
  <2>4. Newest(h) = n
    BY <1>1, <1>3, <2>1, <2>3 DEF Newest
  <2>5. \A i \in d + 1 .. Len(h) : h[i] \in RunRecords
    BY <1>1, <2>1
  <2>6. /\ n \in Seq(RunRecords)
        /\ Len(n) = IF d + 1 <= Len(h) THEN Len(h) - (d + 1) + 1 ELSE 0
        /\ \A i \in 1 .. Len(h) - (d + 1) + 1 : n[i] = h[d + 1 + i - 1]
    BY <2>2, <2>3, <2>5, SubSeqProperties
  <2>7. Len(n) = Len(h) - d
    BY <2>2, <2>6
  <2>8. ASSUME NEW i \in 1 .. Len(h) - d
        PROVE  n[i] = h[i + d]
    <3>1. d + 1 + i - 1 = i + d
      OBVIOUS
    <3>2. n[i] = h[d + 1 + i - 1]
      BY <2>2, <2>6
    <3> QED BY <3>1, <3>2
  <2> QED BY <1>3, <2>1, <2>4, <2>6, <2>7, <2>8
<1> QED BY <1>2, <1>3

LEMMA NewestTrue ==
  ASSUME NEW h \in Seq(RunRecords), NEW force, NEW last, RecordsTrue(h, force, last)
  PROVE  /\ Newest(h) \in Seq(RunRecords) /\ Len(Newest(h)) <= MaxHistory
         /\ RecordsTrue(Newest(h), force, last)
<1>1. PICK d \in Nat :
        /\ d = IF Len(h) <= MaxHistory THEN 0 ELSE Len(h) - MaxHistory
        /\ Newest(h) \in Seq(RunRecords) /\ Len(Newest(h)) = Len(h) - d
        /\ \A i \in 1 .. Len(h) - d : Newest(h)[i] = h[i + d]
  BY NewestIs
<1>2. Len(h) \in Nat /\ MaxHistory \in Nat /\ DOMAIN h = 1 .. Len(h)
  BY HistoryAssumption
<1>3. Len(Newest(h)) <= MaxHistory /\ DOMAIN Newest(h) = 1 .. Len(h) - d
  <2>1. PICK n \in Seq(RunRecords) : n = Newest(h) /\ Len(n) = Len(h) - d
    BY <1>1
  <2>2. PICK k \in Nat : k = Len(h)
    BY <1>2
  <2>3. d = IF k <= MaxHistory THEN 0 ELSE k - MaxHistory
    BY <1>1, <2>2
  <2>4. k - d <= MaxHistory
    BY <1>2, <2>3
  <2>5. DOMAIN n = 1 .. Len(n)
    OBVIOUS
  <2> QED BY <2>1, <2>2, <2>4, <2>5
<1>4. \A i \in 1 .. Len(h) - d : i + d \in DOMAIN h
  BY <1>2
<1>5. ASSUME NEW i \in 1 .. Len(h) - d
      PROVE  /\ Newest(h)[i].id \in 1 .. last
             /\ Newest(h)[i].status = "active" <=>
                  force[Newest(h)[i].action] = Newest(h)[i].id
             /\ \A a \in Actions : force[a] = Newest(h)[i].id => Newest(h)[i].action = a
  BY <1>1, <1>4 DEF RecordsTrue
<1>6. ASSUME NEW i \in 1 .. Len(h) - d, NEW j \in 1 .. Len(h) - d,
             Newest(h)[i].id = Newest(h)[j].id
      PROVE  i = j
  <2>1. h[i + d].id = h[j + d].id
    BY <1>1, <1>6
  <2>2. i + d = j + d
    BY <1>4, <2>1 DEF RecordsTrue
  <2> QED BY <2>2
<1> QED BY <1>1, <1>3, <1>5, <1>6 DEF RecordsTrue

(* What is restored for faults without records is true, too.               *)
Added(missing) ==
  [i \in DOMAIN missing |-> RunRecord(inForce[missing[i]], missing[i], "active")]

LEMMA MissingIs ==
  /\ Missing(history) \in Seq({a \in Faults : inForce[a] \notin Known(history)})
  /\ \A i, j \in DOMAIN Missing(history) :
       Missing(history)[i] = Missing(history)[j] => i = j
  /\ \A a \in Faults : inForce[a] \notin Known(history) =>
       \E i \in DOMAIN Missing(history) : Missing(history)[i] = a
<1> DEFINE A == {a \in Faults : inForce[a] \notin Known(history)}
<1>1. A \in SUBSET Actions
  BY DEF Faults
<1>2. Missing(history) = ByName(A)
  BY DEF Missing
<1>3. /\ ByName(A) \in Seq(A)
      /\ \A i, j \in DOMAIN ByName(A) : ByName(A)[i] = ByName(A)[j] => i = j
      /\ \A a \in A : \E i \in DOMAIN ByName(A) : ByName(A)[i] = a
  <2> HIDE DEF A
  <2> QED BY <1>1, ByNameIs
<1> QED BY <1>2, <1>3

LEMMA AddedIs ==
  ASSUME HistoryInv
  PROVE  /\ Added(Missing(history)) \in Seq(RunRecords)
         /\ Len(Added(Missing(history))) = Len(Missing(history))
         /\ RecordsTrue(Added(Missing(history)), inForce, made)
         /\ \A i \in DOMAIN Added(Missing(history)) :
              Added(Missing(history))[i].id \notin Known(history)
<1>1. PICK m : m = Missing(history)
  OBVIOUS
<1>2. /\ m \in Seq(Faults) /\ DOMAIN m = 1 .. Len(m) /\ Len(m) \in Nat
      /\ \A i \in DOMAIN m : m[i] \in Faults /\ inForce[m[i]] \notin Known(history)
      /\ \A i, j \in DOMAIN m : m[i] = m[j] => i = j
  BY <1>1, MissingIs
<1>3. Added(m) = [i \in 1 .. Len(m) |-> RunRecord(inForce[m[i]], m[i], "active")]
  BY <1>2 DEF Added
<1>4. ASSUME NEW a \in Faults
      PROVE  a \in Actions /\ inForce[a] # NoRun /\ inForce[a] \in 1 .. made
  BY DEF HistoryInv, ForceOK, Faults
<1>5. ASSUME NEW i \in 1 .. Len(m)
      PROVE  /\ Added(m)[i] \in RunRecords
             /\ Added(m)[i].id = inForce[m[i]] /\ Added(m)[i].action = m[i]
             /\ Added(m)[i].status = "active"
  <2>1. m[i] \in Actions /\ inForce[m[i]] \in Nat \ {0}
    BY <1>2, <1>4 DEF HistoryInv
  <2> QED BY <1>3, <2>1, RunRecordIs
<1>6. Added(m) \in Seq(RunRecords) /\ Len(Added(m)) = Len(m)
  <2>1. Added(m) \in [1 .. Len(m) -> RunRecords]
    BY <1>3, <1>5
  <2> QED BY <1>2, <2>1
<1>7. DOMAIN Added(m) = 1 .. Len(m)
  BY <1>3
<1>8. ASSUME NEW i \in 1 .. Len(m), NEW j \in 1 .. Len(m), Added(m)[i].id = Added(m)[j].id
      PROVE  i = j
  <2>1. inForce[m[i]] = inForce[m[j]] /\ m[i] \in Actions /\ m[j] \in Actions
        /\ inForce[m[i]] # NoRun
    BY <1>2, <1>4, <1>5, <1>8
  <2>2. m[i] = m[j]
    BY <2>1 DEF HistoryInv, ForceOK
  <2> QED BY <1>2, <2>2
<1>9. ASSUME NEW i \in 1 .. Len(m)
      PROVE  /\ Added(m)[i].id \in 1 .. made
             /\ Added(m)[i].status = "active" <=>
                  inForce[Added(m)[i].action] = Added(m)[i].id
             /\ \A a \in Actions : inForce[a] = Added(m)[i].id => Added(m)[i].action = a
             /\ Added(m)[i].id \notin Known(history)
  <2>1. m[i] \in Actions /\ inForce[m[i]] \in 1 .. made /\ inForce[m[i]] # NoRun
    BY <1>2, <1>4
  <2>2. \A a \in Actions : inForce[a] = inForce[m[i]] => m[i] = a
    BY <2>1 DEF HistoryInv, ForceOK
  <2> QED BY <1>2, <1>5, <2>1, <2>2
<1>10. RecordsTrue(Added(m), inForce, made)
  BY <1>7, <1>8, <1>9 DEF RecordsTrue
<1> QED BY <1>1, <1>6, <1>7, <1>9, <1>10

LEMMA RestoredTrue ==
  ASSUME HistoryInv
  PROVE  /\ Restored \in Seq(RunRecords) /\ Len(Restored) <= MaxHistory
         /\ RecordsTrue(Restored, inForce, made)
<1>1. PICK new : /\ new = Added(Missing(history))
                 /\ new \in Seq(RunRecords)
                 /\ RecordsTrue(new, inForce, made)
                 /\ \A i \in DOMAIN new : new[i].id \notin Known(history)
  BY AddedIs
<1>2. Restored = Newest(history \o new)
  BY <1>1 DEF Restored, Added
<1>3. /\ history \in Seq(RunRecords) /\ RecordsTrue(history, inForce, made)
      /\ Len(history) \in Nat /\ DOMAIN history = 1 .. Len(history)
      /\ Len(new) \in Nat /\ DOMAIN new = 1 .. Len(new)
  BY <1>1 DEF HistoryInv
<1>4. PICK all : all = history \o new
  OBVIOUS
<1>5. /\ all \in Seq(RunRecords) /\ DOMAIN all = 1 .. Len(history) + Len(new)
      /\ \A i \in 1 .. Len(history) : all[i] = history[i]
      /\ \A i \in Len(history) + 1 .. Len(history) + Len(new) :
           all[i] = new[i - Len(history)]
  BY <1>1, <1>3, <1>4
<1>6. \A i \in DOMAIN all :
        \/ i \in DOMAIN history /\ all[i] = history[i]
        \/ /\ i - Len(history) \in DOMAIN new
           /\ all[i] = new[i - Len(history)]
  BY <1>3, <1>5
<1>7. ASSUME NEW i \in DOMAIN all
      PROVE  /\ all[i].id \in 1 .. made
             /\ all[i].status = "active" <=> inForce[all[i].action] = all[i].id
             /\ \A a \in Actions : inForce[a] = all[i].id => all[i].action = a
  BY <1>1, <1>3, <1>6 DEF RecordsTrue
<1>8. ASSUME NEW i \in DOMAIN all, NEW j \in DOMAIN all, all[i].id = all[j].id
      PROVE  i = j
  <2>1. \A k \in DOMAIN history : history[k].id \in Known(history)
    BY DEF Known
  <2>2. CASE i \in DOMAIN history /\ all[i] = history[i]
    <3>1. ~(j - Len(history) \in DOMAIN new /\ all[j] = new[j - Len(history)])
      BY <1>1, <1>8, <2>1, <2>2
    <3>2. j \in DOMAIN history /\ all[j] = history[j]
      BY <1>6, <3>1
    <3> QED BY <1>3, <1>8, <2>2, <3>2 DEF RecordsTrue
  <2>3. CASE i - Len(history) \in DOMAIN new /\ all[i] = new[i - Len(history)]
    <3>1. ~(j \in DOMAIN history /\ all[j] = history[j])
      BY <1>1, <1>8, <2>1, <2>3
    <3>2. j - Len(history) \in DOMAIN new /\ all[j] = new[j - Len(history)]
      BY <1>6, <3>1
    <3>3. i - Len(history) = j - Len(history)
      BY <1>1, <1>8, <2>3, <3>2 DEF RecordsTrue
    <3>4. i \in Int /\ j \in Int
      BY <1>3, <1>5
    <3> QED BY <1>3, <3>3, <3>4
  <2> QED BY <1>6, <2>2, <2>3
<1>9. RecordsTrue(all, inForce, made)
  BY <1>7, <1>8 DEF RecordsTrue
<1> QED BY <1>2, <1>4, <1>5, <1>9, NewestTrue

(* The records of some runs are marked, and the faults of some actions     *)
(* ended.                                                                  *)
LEMMA MarkIs ==
  ASSUME NEW h \in Seq(RunRecords), NEW ids,
         NEW how \in {"pending", "active", "completed", "aborted", "failed"}
  PROVE  /\ Mark(h, ids, how) \in Seq(RunRecords)
         /\ Len(Mark(h, ids, how)) = Len(h)
         /\ DOMAIN Mark(h, ids, how) = DOMAIN h
         /\ \A i \in DOMAIN h :
              /\ Mark(h, ids, how)[i].id = h[i].id
              /\ Mark(h, ids, how)[i].action = h[i].action
              /\ Mark(h, ids, how)[i].status =
                   IF h[i].id \in ids THEN how ELSE h[i].status
<1>1. DOMAIN h = 1 .. Len(h) /\ Len(h) \in Nat /\ \A i \in DOMAIN h : h[i] \in RunRecords
  OBVIOUS
<1>2. PICK m : m = Mark(h, ids, how)
  OBVIOUS
<1>3. m = [i \in DOMAIN h |->
             IF h[i].id \in ids THEN [h[i] EXCEPT !.status = how] ELSE h[i]]
  BY <1>2 DEF Mark
<1>4. ASSUME NEW i \in DOMAIN h
      PROVE  /\ m[i] \in RunRecords
             /\ m[i].id = h[i].id /\ m[i].action = h[i].action
             /\ m[i].status = IF h[i].id \in ids THEN how ELSE h[i].status
  <2>1. CASE h[i].id \in ids
    <3>1. m[i] = [h[i] EXCEPT !.status = how]
      BY <1>3, <2>1
    <3>2. PICK r \in RunRecords : r = h[i]
      BY <1>1
    <3>3. PICK e : e = [r EXCEPT !.status = how]
      OBVIOUS
    <3>4. e \in RunRecords /\ e.id = r.id /\ e.action = r.action /\ e.status = how
      BY <3>3, StatusIs
    <3>5. m[i] = e
      BY <3>1, <3>2, <3>3
    <3> QED BY <2>1, <3>2, <3>4, <3>5
  <2>2. CASE h[i].id \notin ids
    <3>1. m[i] = h[i] /\ h[i] \in RunRecords
      BY <1>1, <1>3, <2>2
    <3> QED BY <2>2, <3>1
  <2> QED BY <2>1, <2>2
<1>5. DOMAIN m = 1 .. Len(h)
  BY <1>1, <1>3
<1>6. m \in [1 .. Len(h) -> RunRecords]
  BY <1>1, <1>3, <1>4, <1>5
<1>7. m \in Seq(RunRecords) /\ Len(m) = Len(h)
  BY <1>1, <1>6
<1> QED BY <1>1, <1>2, <1>4, <1>5, <1>7

(* Ids, and whose records they are, stay what they were.                   *)
LEMMA SameRecordsTrue ==
  ASSUME NEW h \in Seq(RunRecords), NEW m \in Seq(RunRecords), DOMAIN m = DOMAIN h,
         \A i \in DOMAIN h : m[i].id = h[i].id /\ m[i].action = h[i].action,
         NEW force, NEW next, NEW last, RecordsTrue(h, force, last),
         \A a \in Actions : next[a] = force[a] \/ next[a] = NoRun,
         \A i \in DOMAIN h : m[i].status = "active" <=> next[m[i].action] = m[i].id
  PROVE  RecordsTrue(m, next, last)
<1>1. \A i \in DOMAIN h : h[i].id \in 1 .. last /\ h[i].id # NoRun
  BY EntriesAre DEF RecordsTrue
<1>2. \A i \in DOMAIN m : /\ m[i].id \in 1 .. last
                          /\ \A j \in DOMAIN m : m[i].id = m[j].id => i = j
  BY <1>1 DEF RecordsTrue
<1>3. \A i \in DOMAIN m : \A a \in Actions : next[a] = m[i].id => m[i].action = a
  BY <1>1 DEF RecordsTrue
<1> QED BY <1>2, <1>3 DEF RecordsTrue

LEMMA RestoredKeeps ==
  ASSUME HistoryInv, UNCHANGED <<made, inForce, over>>, history' = Restored
  PROVE  HistoryInv'
BY RestoredTrue DEF HistoryInv, ForceOK, RecordsTrue

LEMMA EndKeeps ==
  ASSUME HistoryInv, UNCHANGED made, NEW A \in SUBSET Actions, NEW how \in {"completed", "aborted"},
         history' = Mark(Restored, RunsOf(A), how), Clear(A)
  PROVE  HistoryInv'
<1>1. PICK h \in Seq(RunRecords) :
        h = Restored /\ Len(h) <= MaxHistory /\ RecordsTrue(h, inForce, made)
  BY RestoredTrue
<1>2. PICK m : m = Mark(h, RunsOf(A), how)
  OBVIOUS
<1>3. /\ m \in Seq(RunRecords) /\ Len(m) = Len(h) /\ DOMAIN m = DOMAIN h
      /\ \A i \in DOMAIN h :
           /\ m[i].id = h[i].id /\ m[i].action = h[i].action
           /\ m[i].status = IF h[i].id \in RunsOf(A) THEN how ELSE h[i].status
  BY <1>2, MarkIs
<1>4. inForce' = [a \in Actions |-> IF a \in A THEN NoRun ELSE inForce[a]]
      /\ over' \subseteq Actions
  BY DEF Clear, HistoryInv
<1>5. \A i \in DOMAIN h : h[i].id # NoRun /\ h[i].action \in Actions
  BY EntriesAre
<1>6. ASSUME NEW i \in DOMAIN h
      PROVE  m[i].status = "active" <=> inForce'[m[i].action] = m[i].id
  <2>1. CASE h[i].action \in A
    <3>1. inForce'[m[i].action] # m[i].id
      BY <1>3, <1>4, <1>5, <2>1
    <3>2. ASSUME h[i].status = "active"
          PROVE  h[i].id \in RunsOf(A)
      BY <1>1, <2>1, <3>2 DEF RecordsTrue, RunsOf
    <3> QED BY <1>3, <3>1, <3>2
  <2>2. CASE h[i].action \notin A
    <3>1. ASSUME NEW a \in A, inForce[a] = h[i].id
          PROVE  FALSE
      BY <1>1, <2>2, <3>1 DEF RecordsTrue
    <3>2. inForce'[m[i].action] = inForce[h[i].action]
      BY <1>3, <1>4, <1>5, <2>2
    <3>3. h[i].id \notin RunsOf(A)
      BY <3>1 DEF RunsOf
    <3> QED BY <1>1, <1>3, <3>2, <3>3 DEF RecordsTrue
  <2> QED BY <2>1, <2>2
<1>7. RecordsTrue(m, inForce', made)
  <2>1. PICK next : next = inForce'
    OBVIOUS
  <2>2. \A a \in Actions : next[a] = inForce[a] \/ next[a] = NoRun
    BY <1>4, <2>1
  <2>3. \A i \in DOMAIN h : m[i].status = "active" <=> next[m[i].action] = m[i].id
    BY <1>6, <2>1
  <2>4. \A i \in DOMAIN h : m[i].id = h[i].id /\ m[i].action = h[i].action
    BY <1>3
  <2>5. RecordsTrue(m, next, made)
    BY <1>1, <1>3, <2>2, <2>3, <2>4, SameRecordsTrue
  <2> QED BY <2>1, <2>5
<1>8. ForceOK(inForce')
  BY <1>4 DEF HistoryInv, ForceOK
<1>9. history' = m /\ made' = made /\ Len(m) <= MaxHistory
  BY <1>1, <1>2, <1>3
<1>10. RecordsTrue(history, inForce, made)' /\ ForceOK(inForce)'
  BY <1>7, <1>8, <1>9 DEF RecordsTrue, ForceOK
<1> QED BY <1>3, <1>4, <1>9, <1>10 DEF HistoryInv

LEMMA OfIs ==
  ASSUME NEW h, NEW id \in Known(h)
  PROVE  Of(h, id) \in DOMAIN h /\ h[Of(h, id)].id = id
BY DEF Known, Of

(* begin_run adds a run that is not in force.                              *)
LEMMA BeginRunKeeps ==
  ASSUME HistoryInv, NEW a \in Actions, NEW staged, BeginRun(a, staged)
  PROVE  HistoryInv'
<1>1. PICK h \in Seq(RunRecords) :
        h = Restored /\ Len(h) <= MaxHistory /\ RecordsTrue(h, inForce, made)
  BY RestoredTrue
<1>2. /\ made' = made + 1 /\ made \in Nat /\ UNCHANGED <<inForce, over>>
      /\ history' = Newest(Append(h, RunRecord(made', a, "pending")))
  BY <1>1 DEF BeginRun, HistoryInv
<1>3. PICK r : r = RunRecord(made', a, "pending")
  OBVIOUS
<1>4. r \in RunRecords /\ r.id = made + 1 /\ r.action = a /\ r.status = "pending"
  BY <1>2, <1>3, RunRecordIs
<1>5. PICK all : all = Append(h, r)
  OBVIOUS
<1>6. /\ all \in Seq(RunRecords) /\ DOMAIN all = 1 .. Len(h) + 1
      /\ \A i \in 1 .. Len(h) : all[i] = h[i]
      /\ all[Len(h) + 1] = r /\ DOMAIN h = 1 .. Len(h) /\ Len(h) \in Nat
  BY <1>1, <1>4, <1>5
<1>7. \A b \in Actions : inForce[b] # made + 1
  BY <1>2, NoRunIsNone DEF HistoryInv, ForceOK
<1>8. \A i \in DOMAIN all : \/ i \in DOMAIN h /\ all[i] = h[i] /\ all[i].id \in 1 .. made
                            \/ i = Len(h) + 1 /\ all[i] = r /\ all[i].id = made + 1
  BY <1>1, <1>4, <1>6 DEF RecordsTrue
<1>9. made + 1 \notin 1 .. made /\ 1 .. made \cup {made + 1} = 1 .. made'
  BY <1>2
<1>10. ASSUME NEW i \in DOMAIN all
       PROVE  /\ all[i].id \in 1 .. made'
              /\ all[i].status = "active" <=> inForce[all[i].action] = all[i].id
              /\ \A b \in Actions : inForce[b] = all[i].id => all[i].action = b
  <2>1. CASE i \in DOMAIN h /\ all[i] = h[i] /\ all[i].id \in 1 .. made
    BY <1>1, <1>9, <2>1 DEF RecordsTrue
  <2>2. CASE i = Len(h) + 1 /\ all[i] = r /\ all[i].id = made + 1
    BY <1>4, <1>7, <1>9, <2>2
  <2> QED BY <1>8, <2>1, <2>2
<1>11. ASSUME NEW i \in DOMAIN all, NEW j \in DOMAIN all, all[i].id = all[j].id
       PROVE  i = j
  BY <1>1, <1>8, <1>9, <1>11 DEF RecordsTrue
<1>12. RecordsTrue(all, inForce, made')
  BY <1>10, <1>11 DEF RecordsTrue
<1>13. history' = Newest(all)
  BY <1>2, <1>3, <1>5
<1>14. /\ Newest(all) \in Seq(RunRecords) /\ Len(Newest(all)) <= MaxHistory
       /\ RecordsTrue(Newest(all), inForce, made')
  BY <1>6, <1>12, NewestTrue
<1>15. ForceOK(inForce)'
  BY <1>2, <1>9 DEF HistoryInv, ForceOK
<1> QED BY <1>2, <1>13, <1>14, <1>15 DEF HistoryInv

(* activate_run puts its run in the place of the one in force.             *)
LEMMA ActivateRunKeeps ==
  ASSUME HistoryInv, NEW id, ActivateRun(id)
  PROVE  HistoryInv'
<1>1. PICK h \in Seq(RunRecords) :
        h = Restored /\ Len(h) <= MaxHistory /\ RecordsTrue(h, inForce, made)
  BY RestoredTrue
<1>2. PICK at : at = Of(h, id)
  OBVIOUS
<1>3. at \in DOMAIN h /\ h[at].id = id
  BY <1>1, <1>2, OfIs DEF ActivateRun, Found
<1>4. PICK x \in Actions : x = h[at].action
  BY <1>3, EntriesAre
<1>5. PICK old : old = {x} \cap Faults
  OBVIOUS
<1>6. /\ h[at].status = "pending"
      /\ history' = Mark(Mark(h, RunsOf(old), "aborted"), {id}, "active")
      /\ inForce' = [inForce EXCEPT ![x] = id]
      /\ over' = over \ old /\ made' = made
  BY <1>1, <1>2, <1>4, <1>5 DEF ActivateRun
<1>7. /\ \A i \in DOMAIN h : /\ h[i].id \in 1 .. made /\ h[i].id # NoRun
                             /\ h[i].action \in Actions
      /\ \A i, j \in DOMAIN h : h[i].id = h[j].id => i = j
      /\ \A i \in DOMAIN h : h[i].status = "active" <=> inForce[h[i].action] = h[i].id
      /\ \A i \in DOMAIN h : \A a \in Actions :
           inForce[a] = h[i].id => h[i].action = a
  BY <1>1, EntriesAre DEF RecordsTrue
<1>8. \A a \in Actions : inForce[a] # id
  <2>1. inForce[x] # id
    BY <1>3, <1>4, <1>6, <1>7
  <2> QED BY <1>3, <1>4, <1>7, <2>1
<1>9. PICK k : k = Mark(h, RunsOf(old), "aborted")
  OBVIOUS
<1>10. /\ k \in Seq(RunRecords) /\ Len(k) = Len(h) /\ DOMAIN k = DOMAIN h
       /\ \A i \in DOMAIN h :
            /\ k[i].id = h[i].id /\ k[i].action = h[i].action
            /\ k[i].status = IF h[i].id \in RunsOf(old) THEN "aborted" ELSE h[i].status
  BY <1>9, MarkIs
<1>11. PICK m : m = Mark(k, {id}, "active")
  OBVIOUS
<1>12. /\ m \in Seq(RunRecords) /\ Len(m) = Len(h) /\ DOMAIN m = DOMAIN h
       /\ \A i \in DOMAIN h :
            /\ m[i].id = h[i].id /\ m[i].action = h[i].action
            /\ m[i].status = IF h[i].id = id THEN "active" ELSE k[i].status
  <2>1. /\ m \in Seq(RunRecords) /\ Len(m) = Len(k) /\ DOMAIN m = DOMAIN k
        /\ \A i \in DOMAIN k :
             /\ m[i].id = k[i].id /\ m[i].action = k[i].action
             /\ m[i].status = IF k[i].id \in {id} THEN "active" ELSE k[i].status
    BY <1>10, <1>11, MarkIs
  <2> QED BY <1>10, <2>1
<1>13. inForce \in [Actions -> {NoRun} \cup 1 .. made]
  BY DEF HistoryInv, ForceOK
<1>14. inForce'[x] = id /\ \A a \in Actions \ {x} : inForce'[a] = inForce[a]
  BY <1>6, <1>13
<1>15. ASSUME NEW i \in DOMAIN h
       PROVE  m[i].status = "active" <=> inForce'[m[i].action] = m[i].id
  <2>1. CASE h[i].id = id
    <3>1. i = at
      BY <1>3, <1>7, <2>1
    <3> QED BY <1>4, <1>12, <1>14, <2>1, <3>1
  <2>2. CASE h[i].id # id /\ h[i].action = x
    <3>1. inForce'[m[i].action] # m[i].id
      BY <1>12, <1>14, <2>2
    <3>2. ASSUME h[i].status = "active"
          PROVE  h[i].id \in RunsOf(old)
      <4>1. inForce[x] = h[i].id /\ x \in old
        BY <1>5, <1>7, <2>2, <3>2 DEF Faults
      <4> QED BY <4>1 DEF RunsOf
    <3> QED BY <1>10, <1>12, <2>2, <3>1, <3>2
  <2>3. CASE h[i].id # id /\ h[i].action # x
    <3>1. inForce'[m[i].action] = inForce[h[i].action]
      BY <1>7, <1>12, <1>14, <2>3
    <3>2. h[i].id \notin RunsOf(old)
      BY <1>5, <1>7, <2>3 DEF RunsOf
    <3>3. m[i].status = h[i].status /\ m[i].id = h[i].id
      BY <1>10, <1>12, <2>3, <3>2
    <3> QED BY <1>7, <3>1, <3>3
  <2> QED BY <2>1, <2>2, <2>3
<1>16. ASSUME NEW i \in DOMAIN h, NEW a \in Actions, inForce'[a] = m[i].id
       PROVE  m[i].action = a
  <2>1. CASE a = x
    <3>1. i = at
      BY <1>3, <1>7, <1>12, <1>14, <1>16, <2>1
    <3> QED BY <1>4, <1>12, <2>1, <3>1
  <2>2. CASE a # x
    BY <1>7, <1>12, <1>14, <1>16, <2>2
  <2> QED BY <2>1, <2>2
<1>17. RecordsTrue(m, inForce', made)
  BY <1>7, <1>12, <1>15, <1>16 DEF RecordsTrue
<1>18. ForceOK(inForce')
  <2>1. inForce' \in [Actions -> {NoRun} \cup 1 .. made]
    <3>1. id \in 1 .. made
      BY <1>3, <1>7
    <3> QED BY <1>6, <1>13, <3>1
  <2>2. ASSUME NEW a \in Actions, NEW b \in Actions, inForce'[a] = inForce'[b],
               inForce'[a] # NoRun
        PROVE  a = b
    <3>1. CASE a = x \/ b = x
      BY <1>8, <1>14, <2>2, <3>1
    <3>2. CASE a # x /\ b # x
      BY <1>14, <2>2, <3>2 DEF HistoryInv, ForceOK
    <3> QED BY <3>1, <3>2
  <2> QED BY <2>1, <2>2 DEF ForceOK
<1>19. history' = m /\ over' \subseteq Actions
  BY <1>6, <1>9, <1>11 DEF HistoryInv
<1>20. RecordsTrue(history, inForce, made)' /\ ForceOK(inForce)'
  BY <1>6, <1>17, <1>18, <1>19 DEF ForceOK
<1>21. made' \in Nat
  BY <1>6 DEF HistoryInv
<1> QED BY <1>1, <1>12, <1>19, <1>20, <1>21 DEF HistoryInv

(* fail_run fails a run that is not in force.                              *)
LEMMA FailRunKeeps ==
  ASSUME HistoryInv, NEW id, FailRun(id)
  PROVE  HistoryInv'
<1>1. PICK h \in Seq(RunRecords) :
        h = Restored /\ Len(h) <= MaxHistory /\ RecordsTrue(h, inForce, made)
  BY RestoredTrue
<1>2. PICK at : at = Of(h, id)
  OBVIOUS
<1>3. at \in DOMAIN h /\ h[at].id = id
  BY <1>1, <1>2, OfIs DEF FailRun, Found
<1>4. /\ h[at].status = "pending" /\ history' = Mark(h, {id}, "failed")
      /\ UNCHANGED <<inForce, over, made>>
  BY <1>1, <1>2 DEF FailRun
<1>5. PICK m : m = Mark(h, {id}, "failed")
  OBVIOUS
<1>6. /\ m \in Seq(RunRecords) /\ Len(m) = Len(h) /\ DOMAIN m = DOMAIN h
      /\ \A i \in DOMAIN h :
           /\ m[i].id = h[i].id /\ m[i].action = h[i].action
           /\ m[i].status = IF h[i].id \in {id} THEN "failed" ELSE h[i].status
  BY <1>5, MarkIs
<1>7. ASSUME NEW i \in DOMAIN h
      PROVE  m[i].status = "active" <=> inForce[m[i].action] = m[i].id
  <2>1. CASE h[i].id = id
    <3>1. i = at
      BY <1>1, <1>3, <2>1 DEF RecordsTrue
    <3>2. inForce[h[i].action] # h[i].id
      BY <1>1, <1>4, <3>1 DEF RecordsTrue
    <3> QED BY <1>6, <2>1, <3>2
  <2>2. CASE h[i].id # id
    BY <1>1, <1>6, <2>2 DEF RecordsTrue
  <2> QED BY <2>1, <2>2
<1>8. RecordsTrue(m, inForce, made)
  BY <1>1, <1>6, <1>7, SameRecordsTrue
<1>9. history' = m
  BY <1>4, <1>5
<1>10. ForceOK(inForce)' /\ RecordsTrue(history, inForce, made)'
  BY <1>4, <1>8, <1>9 DEF HistoryInv, ForceOK
<1> QED BY <1>1, <1>4, <1>6, <1>9, <1>10 DEF HistoryInv

LEMMA HistoryInvInit == HistoryInit => HistoryInv
<1> SUFFICES ASSUME HistoryInit PROVE HistoryInv
  OBVIOUS
<1>1. /\ history = << >> /\ over = {} /\ made = 0
      /\ inForce = [a \in Actions |-> NoRun]
  BY DEF HistoryInit
<1>2. /\ history \in Seq(RunRecords) /\ Len(history) = 0 /\ DOMAIN history = {}
  BY <1>1
<1>3. ForceOK(inForce)
  BY <1>1 DEF ForceOK
<1>4. Len(history) <= MaxHistory
  BY <1>2, HistoryAssumption
<1> QED BY <1>1, <1>2, <1>3, <1>4 DEF HistoryInv, RecordsTrue

LEMMA HistoryInvStep ==
  ASSUME HistoryInv, [HistoryNext]_historyVars
  PROVE  HistoryInv'
<1>1. Faults \subseteq Actions /\ over \subseteq Actions /\ StageFaults \subseteq Actions
  BY DEF Faults, StageFaults, HistoryInv
<1>2. ASSUME NEW a \in Actions, NEW staged, BeginRun(a, staged)
      PROVE  HistoryInv'
  BY <1>2, BeginRunKeeps
<1>3. ASSUME NEW a \in Actions, LastsItsTime(a)
      PROVE  HistoryInv'
  <2>1. over' \subseteq Actions /\ UNCHANGED <<history, inForce, made>>
    BY <1>1, <1>3 DEF LastsItsTime
  <2> QED BY <2>1 DEF HistoryInv, ForceOK
<1>4. ASSUME NEW a \in Actions, Abort(a)
      PROVE  HistoryInv'
  <2>1. PICK ended \in SUBSET Actions :
          /\ history' = Mark(Restored, RunsOf(ended), "aborted")
          /\ Clear(ended) /\ UNCHANGED made
    BY <1>1, <1>4 DEF Abort
  <2> QED BY <2>1, EndKeeps
<1>5. ASSUME NEW id, ActivateRun(id) \/ FailRun(id)
      PROVE  HistoryInv'
  BY <1>5, ActivateRunKeeps, FailRunKeeps
<1>6. ASSUME Expire, UNCHANGED made
      PROVE  HistoryInv'
  BY <1>1, <1>6, EndKeeps DEF Expire
<1>7. CASE StopAll
  BY <1>1, <1>7, EndKeeps DEF StopAll
<1>8. CASE SkipStage
  BY <1>1, <1>8, EndKeeps DEF SkipStage
<1>9. CASE StopPlaybook
  BY <1>1, <1>9, EndKeeps DEF StopPlaybook
<1>10. CASE \/ \E id : ObserveRun(id)
            \/ ClaimStage \/ LinkStage \/ FailStage \/ SyncPlaybookRuns
  BY <1>10, RestoredKeeps
     DEF ObserveRun, ClaimStage, LinkStage, FailStage, SyncPlaybookRuns
<1>11. CASE UNCHANGED historyVars
  BY <1>11 DEF historyVars, HistoryInv, ForceOK
<1>12. ASSUME NEW changed, UpdatePatterns(changed) \/ GetState
       PROVE  HistoryInv'
  BY <1>6, <1>12 DEF UpdatePatterns, GetState
<1> QED BY <1>2, <1>3, <1>4, <1>5, <1>7, <1>8, <1>9, <1>10, <1>11, <1>12 DEF HistoryNext

LEMMA HistoryInvHolds == HistorySpec => []HistoryInv
BY HistoryInvInit, HistoryInvStep, PTL DEF HistorySpec

(* No run is told of twice, and the records that say "active" are those of *)
(* the faults in force, in state.json and in what every function reads of  *)
(* it (normalize_state): for any number of actions and runs, and for any   *)
(* number of records that is larger than that of the actions.              *)
THEOREM HistoryStaysTrue == HistorySpec => []HistoryTrue
<1>1. HistoryInv => HistoryTrue
  <2> SUFFICES ASSUME HistoryInv, NEW h \in {history, Restored}, NEW i \in DOMAIN h
               PROVE  /\ \A j \in DOMAIN h : h[i].id = h[j].id => i = j
                      /\ h[i].status = "active" <=> inForce[h[i].action] = h[i].id
    BY DEF HistoryTrue
  <2>1. RecordsTrue(history, inForce, made) /\ RecordsTrue(Restored, inForce, made)
    BY RestoredTrue DEF HistoryInv
  <2>2. RecordsTrue(h, inForce, made)
    BY <2>1
  <2> QED BY <2>2 DEF RecordsTrue
<1> QED BY <1>1, HistoryInvHolds, PTL

(* A fault whose record find_run does not find has lost it to another one  *)
(* that is being restored: a fault that no other waits with can always be  *)
(* ended.                                                                  *)
THEOREM FaultsOnlyWaitForOthers == HistorySpec => []FaultsWaitForOthers
<1>1. HistoryInv => FaultsWaitForOthers
  <2> SUFFICES ASSUME HistoryInv, NEW a \in Faults,
                      \A b \in Faults \ {a} : inForce[b] \in Known(history)
               PROVE  inForce[a] \in Known(Restored)
    BY DEF FaultsWaitForOthers, Found
  <2>1. PICK m : m = Missing(history)
    OBVIOUS
  <2>2. /\ m \in Seq({a}) /\ Len(m) \in Nat /\ DOMAIN m = 1 .. Len(m)
        /\ inForce[a] \notin Known(history) => Len(m) # 0
    <3>1. /\ m \in Seq({b \in Faults : inForce[b] \notin Known(history)})
          /\ inForce[a] \notin Known(history) => \E i \in DOMAIN m : m[i] = a
      BY <2>1, MissingIs
    <3>2. {b \in Faults : inForce[b] \notin Known(history)} \subseteq {a}
      OBVIOUS
    <3>3. m \in Seq({a}) /\ Len(m) \in Nat /\ DOMAIN m = 1 .. Len(m)
      BY <3>1, <3>2
    <3> QED BY <3>1, <3>3
  <2>3. PICK new : /\ new = Added(m) /\ new \in Seq(RunRecords) /\ Len(new) = Len(m)
    BY <2>1, AddedIs
  <2>4. \A i \in 1 .. Len(m) : new[i].id = inForce[a]
    <3>1. \A i \in 1 .. Len(m) : m[i] = a
      BY <2>2
    <3> QED BY <2>2, <2>3, <3>1, RunRecordIs DEF Added
  <2>5. PICK all \in Seq(RunRecords) : all = history \o new
    <3>1. history \in Seq(RunRecords)
      BY DEF HistoryInv
    <3>2. history \o new \in Seq(RunRecords)
      BY <2>3, <3>1
    <3> QED BY <3>2
  <2>6. Restored = Newest(all)
    BY <2>1, <2>3, <2>5 DEF Restored, Added
  <2>7. PICK d \in Nat :
          /\ d = IF Len(all) <= MaxHistory THEN 0 ELSE Len(all) - MaxHistory
          /\ Newest(all) \in Seq(RunRecords) /\ Len(Newest(all)) = Len(all) - d
          /\ \A i \in 1 .. Len(all) - d : Newest(all)[i] = all[i + d]
    BY <2>5, NewestIs
  <2>8. /\ Len(history) \in Nat /\ DOMAIN history = 1 .. Len(history)
        /\ Len(history) <= MaxHistory /\ MaxHistory \in Nat /\ MaxHistory # 0
        /\ Len(all) = Len(history) + Len(m)
    <3>1. MaxHistory \in Nat /\ MaxHistory # 0
      BY HistoryAssumption
    <3>2. Len(all) = Len(history) + Len(m)
      <4>1. history \in Seq(RunRecords)
        BY DEF HistoryInv
      <4>2. Len(history \o new) = Len(history) + Len(new)
        BY <2>3, <4>1
      <4> QED BY <2>3, <2>5, <4>2
    <3> QED BY <3>1, <3>2 DEF HistoryInv
  <2>9. CASE Len(m) = 0
    <3>1. PICK i \in DOMAIN history : history[i].id = inForce[a]
      BY <2>2, <2>9 DEF Known
    <3>2. all[i] = history[i]
      BY <2>3, <2>5, <3>1 DEF HistoryInv
    <3>3. d = 0 /\ i \in 1 .. Len(all) - d /\ i + d = i
      BY <2>7, <2>8, <2>9, <3>1
    <3>4. i \in DOMAIN Newest(all) /\ Newest(all)[i] = history[i]
      BY <2>7, <3>2, <3>3
    <3> QED BY <2>6, <3>1, <3>4 DEF Known
  <2>10. CASE Len(m) # 0
    <3>1. PICK i : i = Len(all) - d
      OBVIOUS
    <3>2. i \in 1 .. Len(all) - d /\ i + d = Len(all)
      <4>1. PICK L \in Nat : L = Len(all) /\ L # 0
        BY <2>2, <2>8, <2>10
      <4>2. d = IF L <= MaxHistory THEN 0 ELSE L - MaxHistory
        BY <2>7, <4>1
      <4>3. d < L
        BY <2>8, <4>1, <4>2
      <4> QED BY <2>7, <3>1, <4>1, <4>3
    <3>3. all[Len(all)] = new[Len(m)]
      BY <2>2, <2>3, <2>5, <2>8, <2>10 DEF HistoryInv
    <3>4. i \in DOMAIN Newest(all) /\ Newest(all)[i].id = inForce[a]
      <4>1. Len(m) \in 1 .. Len(m)
        BY <2>2, <2>10
      <4>2. new[Len(m)].id = inForce[a]
        BY <2>4, <4>1
      <4>3. Newest(all)[i] = all[Len(all)]
        BY <2>7, <3>2
      <4>4. DOMAIN Newest(all) = 1 .. Len(all) - d
        BY <2>7
      <4> QED BY <3>2, <3>3, <4>2, <4>3, <4>4
    <3> QED BY <2>6, <3>4 DEF Known
  <2> QED BY <2>9, <2>10
<1> QED BY <1>1, HistoryInvHolds, PTL

=============================================================================
