--------------------------- MODULE EvidenceProofs ---------------------------
(***************************************************************************)
(* Proofs about the evidence archives, for any number of exports,          *)
(* downloads and deaths of the process:                                    *)
(*  - no archive outlives the key it was signed with.  The signing key     *)
(*    goes from missing over empty to written and never back.  Only the    *)
(*    request that made the file may write it, nobody has a key before it  *)
(*    is written, and whoever has one has the one in the file (EInv);      *)
(*  - no two files get one name, and what a download hands out is what it  *)
(*    has verified (TInv);                                                 *)
(*  - when no export was cut short, no more archives are left than are to  *)
(*    be retained (RetentionInv).                                          *)
(***************************************************************************)
EXTENDS Evidence, FiniteSums, SequenceTheorems

(* The steps at which a request has the key in memory. *)
Keyed == {"stamp", "open", "write", "touch", "list", "prune", "verify", "read"}

Steps == {"ready", "create", "write key", "load", "done", "failed"} \cup Keyed

Shaped(task) ==
  task = [step |-> task.step, key |-> task.key, name |-> task.name,
          created |-> task.created, todo |-> task.todo, rank |-> task.rank]

Filed(f) ==
  f = [name |-> f.name, signed |-> f.signed, whole |-> f.whole, mtime |-> f.mtime]

TypesOK ==
  /\ keyFile \in Exports \cup {NoKey, "empty"}
  /\ \A f \in archives : Filed(f) /\ f.signed \in Exports
  /\ DOMAIN workers = Workers
  /\ \A w \in Workers : /\ workers[w].step \in Steps
                        /\ Shaped(workers[w])
  /\ names \in Nat /\ time \in Nat

(* Who has a key, and which one. *)
KeysOK ==
  \A w \in Workers :
    /\ workers[w].step \in Keyed => workers[w].key \in Exports
    /\ workers[w].key # NoKey => workers[w].key = keyFile /\ keyFile \in Exports

(* Only an export makes the file, and the one that is to write it has made *)
(* it, alone.                                                              *)
WritersOK ==
  \A w \in Workers :
    /\ workers[w].step \in {"create", "write key"} => w \in Exports
    /\ workers[w].step = "write key" =>
         /\ keyFile = "empty"
         /\ \A v \in Workers : workers[v].step = "write key" => v = w

EInv ==
  /\ TypesOK /\ KeysOK /\ WritersOK
  /\ \A f \in archives : f.signed = keyFile

LEMMA ShapedIs ==
  ASSUME NEW step, NEW key, NEW name, NEW created, NEW todo, NEW rank, NEW t,
         t = [step |-> step, key |-> key, name |-> name, created |-> created,
              todo |-> todo, rank |-> rank]
  PROVE  Shaped(t)
BY DEF Shaped

(* What becomes of a request's fields when its step changes. *)
LEMMA StepShape ==
  ASSUME NEW task, Shaped(task), NEW step, NEW t, t = [task EXCEPT !.step = step]
  PROVE  t.step = step /\ t.key = task.key /\ Shaped(t)
<1>1. t = [step |-> step, key |-> task.key, name |-> task.name,
           created |-> task.created, todo |-> task.todo, rank |-> task.rank]
  BY DEF Shaped
<1>2. t.step = step /\ t.key = task.key
  BY <1>1
<1> QED
  BY <1>1, <1>2, ShapedIs

LEMMA NewWorkerIs ==
  /\ NewWorker.step = "ready" /\ NewWorker.key = NoKey
  /\ Shaped(NewWorker)
<1> DEFINE none == <<>>
<1>1. NewWorker = [step |-> "ready", key |-> NoKey, name |-> NoName, created |-> 0,
                   todo |-> none, rank |-> 0]
  BY DEF NewWorker
<1> HIDE DEF none
<1> QED
  BY <1>1 DEF Shaped

LEMMA EvidenceInitOK == EvidenceInit => EInv
<1> SUFFICES ASSUME EvidenceInit PROVE EInv
  OBVIOUS
<1>1. DOMAIN workers = Workers /\ \A w \in Workers : workers[w] = NewWorker
  BY DEF EvidenceInit
<1>2. TypesOK
  BY <1>1, NewWorkerIs DEF EvidenceInit, TypesOK, Steps
<1>3. KeysOK /\ WritersOK
  BY <1>1, NewWorkerIs DEF KeysOK, WritersOK, Keyed
<1> QED
  BY <1>2, <1>3 DEF EInv, EvidenceInit

(* What a request becomes; the others stay as they are. *)
LEMMA BecomeIs ==
  ASSUME TypesOK, NEW w \in Workers, NEW task, Become(w, task)
  PROVE  /\ DOMAIN workers' = Workers /\ workers'[w] = task
         /\ \A v \in Workers \ {w} : workers'[v] = workers[v]
BY DEF TypesOK, Become

LEMMA GoOnIs ==
  ASSUME TypesOK, NEW w \in Workers, NEW step, GoOn(w, step)
  PROVE  /\ DOMAIN workers' = Workers
         /\ workers'[w].step = step /\ workers'[w].key = workers[w].key
         /\ Shaped(workers'[w])
         /\ \A v \in Workers \ {w} : workers'[v] = workers[v]
<1>1. /\ DOMAIN workers' = Workers /\ workers'[w] = [workers[w] EXCEPT !.step = step]
      /\ \A v \in Workers \ {w} : workers'[v] = workers[v]
  BY DEF TypesOK, GoOn
<1>2. Shaped(workers[w])
  BY DEF TypesOK
<1> QED
  BY <1>1, <1>2, StepShape

LEMMA NamedIs ==
  ASSUME NEW n, n \in FileNames
  PROVE  Named(n) \in archives /\ Named(n).name = n
<1>1. PICK f \in archives : f.name = n
  BY DEF FileNames
<1> QED
  BY <1>1 DEF Named

(* A step of a request that leaves the key file alone: it keeps the key it *)
(* has, or forgets it.                                                     *)
LEMMA StepOK ==
  ASSUME EInv, NEW w \in Workers,
         DOMAIN workers' = Workers, \A v \in Workers \ {w} : workers'[v] = workers[v],
         workers'[w].step \in Steps \ {"write key"},
         Shaped(workers'[w]),
         workers'[w].step = "create" => w \in Exports,
         workers'[w].step \in Keyed =>
           workers'[w].key = workers[w].key /\ workers[w].step \in Keyed,
         workers'[w].key \in {NoKey, workers[w].key},
         keyFile' = keyFile, names' \in Nat, time' \in Nat,
         \A f \in archives' : Filed(f) /\ f.signed \in Exports /\ f.signed = keyFile
  PROVE  EInv'
<1>1. TypesOK'
  BY DEF EInv, TypesOK
<1>2. KeysOK'
  BY DEF EInv, KeysOK
<1>3. WritersOK'
  BY DEF EInv, WritersOK
<1> QED
  BY <1>1, <1>2, <1>3 DEF EInv

(* A request that goes on to another step. *)
LEMMA MoveOK ==
  ASSUME EInv, NEW w \in Workers, NEW step \in Steps \ {"write key"}, GoOn(w, step),
         step = "create" => w \in Exports,
         step \in Keyed => workers[w].step \in Keyed,
         UNCHANGED <<keyFile, names, time>>,
         \A f \in archives' : Filed(f) /\ f.signed \in Exports /\ f.signed = keyFile
  PROVE  EInv'
<1>1. TypesOK
  BY DEF EInv
<1>2. /\ DOMAIN workers' = Workers
      /\ workers'[w].step = step /\ workers'[w].key = workers[w].key
      /\ Shaped(workers'[w])
      /\ \A v \in Workers \ {w} : workers'[v] = workers[v]
  BY <1>1, GoOnIs
<1>3. names' \in Nat /\ time' \in Nat
  BY <1>1 DEF TypesOK
<1> QED
  BY <1>2, <1>3, StepOK

(* A request that ends, or one that is to begin again. *)
LEMMA EndOK ==
  ASSUME EInv, NEW w \in Workers, NEW step \in {"ready", "done", "failed"},
         Become(w, [NewWorker EXCEPT !.step = step]),
         UNCHANGED <<keyFile, names, time>>,
         archives' \subseteq archives
  PROVE  EInv'
<1>1. TypesOK
  BY DEF EInv
<1>2. /\ DOMAIN workers' = Workers /\ workers'[w] = [NewWorker EXCEPT !.step = step]
      /\ \A v \in Workers \ {w} : workers'[v] = workers[v]
  BY <1>1, BecomeIs
<1>3. names' \in Nat /\ time' \in Nat 
  BY <1>1 DEF TypesOK
<1>4. /\ workers'[w].step = step /\ workers'[w].key = NoKey
      /\ Shaped(workers'[w])
  BY <1>2, NewWorkerIs, StepShape
<1>5. \A f \in archives' : Filed(f) /\ f.signed \in Exports /\ f.signed = keyFile
  BY <1>1 DEF EInv, TypesOK
<1> QED
  BY <1>2, <1>3, <1>4, <1>5, StepOK DEF Steps, Keyed

LEMMA FindKeyOK ==
  ASSUME EInv, NEW w \in Workers, FindKey(w)
  PROVE  EInv'
<1>1. PICK next \in {"create", "load"} : GoOn(w, next)
  BY DEF FindKey
<1> QED
  BY <1>1, MoveOK DEF EInv, TypesOK, Steps, Keyed, FindKey

LEMMA CreateKeyOK ==
  ASSUME EInv, NEW w \in Workers, CreateKey(w)
  PROVE  EInv'
<1>1. CASE keyFile = NoKey
  <2>1. TypesOK /\ w \in Exports
    BY DEF EInv, WritersOK, CreateKey, At
  <2>2. keyFile' = "empty" /\ UNCHANGED <<archives, names, time>>
    BY <1>1 DEF CreateKey
  <2>3. /\ DOMAIN workers' = Workers
        /\ workers'[w].step = "write key" /\ workers'[w].key = workers[w].key
        /\ Shaped(workers'[w])
        /\ \A v \in Workers \ {w} : workers'[v] = workers[v]
    <3>1. PICK next \in {"write key"} : GoOn(w, next)
      BY <1>1 DEF CreateKey
    <3> QED
      BY <2>1, <3>1, GoOnIs
  <2>4. NoKey \notin Exports /\ "empty" \notin Exports /\ NoKey # "empty"
    BY EvidenceAssumption
  <2>5. archives' = {}
    BY <1>1, <2>1, <2>2, <2>4 DEF EInv, TypesOK
  <2>6. \A v \in Workers : /\ workers'[v].key = NoKey
                           /\ workers'[v].step \notin Keyed
                           /\ v # w => workers'[v].step # "write key"
    <3>1. \A v \in Workers : /\ workers[v].key = NoKey /\ workers[v].step \notin Keyed
                             /\ workers[v].step # "write key"
      BY <1>1, <2>4 DEF EInv, KeysOK, WritersOK
    <3> QED
      BY <2>3, <3>1 DEF Keyed
  <2>7. TypesOK'
    <3>1. \A v \in Workers : workers'[v].step \in Steps /\ Shaped(workers'[v])
      BY <2>1, <2>3 DEF TypesOK, Steps
    <3> QED
      BY <2>1, <2>2, <2>3, <2>5, <3>1 DEF TypesOK
  <2>8. KeysOK' /\ WritersOK'
    BY <2>1, <2>2, <2>3, <2>6 DEF KeysOK, WritersOK, EInv
  <2> QED
    BY <2>5, <2>7, <2>8 DEF EInv
<1>2. CASE keyFile # NoKey
  BY <1>2, MoveOK DEF EInv, TypesOK, Steps, Keyed, CreateKey
<1> QED
  BY <1>1, <1>2

LEMMA WriteKeyOK ==
  ASSUME EInv, NEW w \in Workers, WriteKey(w)
  PROVE  EInv'
<1>1. TypesOK /\ w \in Exports /\ keyFile = "empty"
  BY DEF EInv, WritersOK, WriteKey, At
<1>2. /\ keyFile' = w /\ UNCHANGED <<archives, names, time>>
      /\ Become(w, [workers[w] EXCEPT !.step = "stamp", !.key = w])
  BY DEF WriteKey
<1>3. /\ DOMAIN workers' = Workers
      /\ workers'[w] = [workers[w] EXCEPT !.step = "stamp", !.key = w]
      /\ \A v \in Workers \ {w} : workers'[v] = workers[v]
  BY <1>1, <1>2, BecomeIs
<1>4. workers'[w].step = "stamp" /\ workers'[w].key = w /\ Shaped(workers'[w])
  <2>1. workers'[w] = [step |-> "stamp", key |-> w, name |-> workers[w].name,
                       created |-> workers[w].created, todo |-> workers[w].todo,
                       rank |-> workers[w].rank]
    BY <1>1, <1>3 DEF TypesOK, Shaped
  <2>2. workers'[w].step = "stamp" /\ workers'[w].key = w
    BY <2>1
  <2> QED
    BY <2>1, <2>2, ShapedIs
<1>5. NoKey \notin Exports /\ "empty" \notin Exports
  BY EvidenceAssumption
<1>6. archives' = {}
  BY <1>1, <1>2, <1>5 DEF EInv, TypesOK
<1>7. \A v \in Workers \ {w} : /\ workers'[v].key = NoKey
                               /\ workers'[v].step \notin Keyed
                               /\ workers'[v].step # "write key"
  BY <1>1, <1>3, <1>5 DEF EInv, KeysOK, WritersOK, WriteKey, At
<1>8. TypesOK'
  BY <1>1, <1>2, <1>3, <1>4, <1>6 DEF TypesOK, Steps, Keyed
<1>9. KeysOK'
  BY <1>1, <1>2, <1>4, <1>7 DEF KeysOK
<1>10. WritersOK'
  BY <1>1, <1>3, <1>4, <1>7 DEF EInv, WritersOK
<1> QED
  BY <1>6, <1>8, <1>9, <1>10 DEF EInv

LEMMA LoadKeyOK ==
  ASSUME EInv, NEW w \in Workers, LoadKey(w)
  PROVE  EInv'
<1>1. CASE keyFile \in Exports
  <2>1. TypesOK /\ UNCHANGED <<keyFile, archives, names, time>>
    BY DEF EInv, LoadKey
  <2>2. PICK next \in {"stamp", "list"} :
          Become(w, [workers[w] EXCEPT !.step = next, !.key = keyFile])
    BY <1>1 DEF LoadKey
  <2>3. /\ DOMAIN workers' = Workers
        /\ workers'[w] = [workers[w] EXCEPT !.step = next, !.key = keyFile]
        /\ \A v \in Workers \ {w} : workers'[v] = workers[v]
    BY <2>1, <2>2, BecomeIs
  <2>4. workers'[w].step = next /\ workers'[w].key = keyFile /\ Shaped(workers'[w])
    <3>1. workers'[w] = [step |-> next, key |-> keyFile, name |-> workers[w].name,
                         created |-> workers[w].created, todo |-> workers[w].todo,
                         rank |-> workers[w].rank]
      BY <2>1, <2>3 DEF TypesOK, Shaped
    <3>2. workers'[w].step = next /\ workers'[w].key = keyFile
      BY <3>1
    <3> QED
      BY <3>1, <3>2, ShapedIs
  <2>5. TypesOK'
    BY <2>1, <2>3, <2>4 DEF TypesOK, Steps, Keyed
  <2>6. KeysOK'
    BY <1>1, <2>1, <2>3, <2>4 DEF EInv, KeysOK
  <2>7. WritersOK'
    BY <2>1, <2>3, <2>4 DEF EInv, WritersOK
  <2> QED
    BY <2>1, <2>5, <2>6, <2>7 DEF EInv
<1>2. CASE keyFile \notin Exports
  BY <1>2, EndOK DEF LoadKey
<1> QED
  BY <1>1, <1>2

LEMMA StampArchiveOK ==
  ASSUME EInv, NEW w \in Workers, StampArchive(w)
  PROVE  EInv'
<1>1. TypesOK /\ Shaped(workers[w])
  BY DEF EInv, TypesOK
<1>2. /\ names' \in Nat /\ workers[w].step \in Keyed
      /\ UNCHANGED <<keyFile, archives, time>>
      /\ Become(w, [workers[w] EXCEPT !.step = "open", !.name = names', !.created = time])
  BY <1>1 DEF StampArchive, TypesOK, At, Keyed
<1>3. /\ DOMAIN workers' = Workers
      /\ workers'[w] =
           [workers[w] EXCEPT !.step = "open", !.name = names', !.created = time]
      /\ \A v \in Workers \ {w} : workers'[v] = workers[v]
  BY <1>1, <1>2, BecomeIs
<1>4. workers'[w] = [step |-> "open", key |-> workers[w].key, name |-> names',
                     created |-> time, todo |-> workers[w].todo, rank |-> workers[w].rank]
  BY <1>1, <1>3 DEF Shaped
<1>5. workers'[w].step = "open" /\ workers'[w].key = workers[w].key
  BY <1>4
<1>6. Shaped(workers'[w])
  BY <1>4, ShapedIs
<1> QED
  BY <1>1, <1>2, <1>3, <1>5, <1>6, StepOK DEF EInv, TypesOK, Steps, Keyed

LEMMA OpenArchiveOK ==
  ASSUME EInv, NEW w \in Workers, OpenArchive(w)
  PROVE  EInv'
<1> DEFINE new == [name |-> workers[w].name, signed |-> workers[w].key, whole |-> FALSE,
                   mtime |-> time]
<1>1. workers[w].key \in Exports /\ workers[w].key = keyFile
  BY EvidenceAssumption DEF EInv, KeysOK, OpenArchive, At, Keyed
<1>2. PICK step \in {"write"} : GoOn(w, step)
  BY DEF OpenArchive
<1>3. archives' = archives \cup {new} /\ UNCHANGED <<keyFile, names, time>>
  BY DEF OpenArchive
<1>4. new.signed = keyFile /\ Filed(new)
  BY <1>1 DEF Filed
<1>5. \A f \in archives' : Filed(f) /\ f.signed \in Exports /\ f.signed = keyFile
  BY <1>1, <1>3, <1>4 DEF EInv, TypesOK
<1>6. workers[w].step \in Keyed /\ step \in Steps \ {"write key"}
  BY DEF OpenArchive, At, Keyed, Steps
<1> QED
  BY <1>2, <1>3, <1>5, <1>6, MoveOK DEF EInv

(* Whoever writes a file or sets its time leaves its signature alone. *)
LEMMA ReplaceIs ==
  ASSUME EInv, NEW w \in Workers, NEW g, Filed(g), g.signed = keyFile, Replace(w, g),
         keyFile \in Exports
  PROVE  \A f \in archives' : Filed(f) /\ f.signed \in Exports /\ f.signed = keyFile
BY DEF EInv, TypesOK, Replace

LEMMA WrittenIs ==
  ASSUME EInv, NEW n \in FileNames, NEW whole, NEW mtime, NEW g,
         \/ g = [Named(n) EXCEPT !.whole = whole, !.mtime = mtime]
         \/ g = [Named(n) EXCEPT !.mtime = mtime]
  PROVE  Filed(g) /\ g.signed = keyFile /\ keyFile \in Exports
<1> DEFINE f == Named(n)
<1>1. f \in archives
  BY NamedIs
<1>2. Filed(f) /\ f.signed = keyFile /\ keyFile \in Exports
  BY <1>1 DEF EInv, TypesOK
<1> HIDE DEF f
<1>3. PICK holds : g = [name |-> f.name, signed |-> f.signed, whole |-> holds,
                        mtime |-> mtime]
  <2>1. CASE g = [f EXCEPT !.whole = whole, !.mtime = mtime]
    <3>1. g = [name |-> f.name, signed |-> f.signed, whole |-> whole, mtime |-> mtime]
      BY <1>2, <2>1 DEF Filed
    <3> QED
      BY <3>1
  <2>2. CASE g = [f EXCEPT !.mtime = mtime]
    <3>1. g = [name |-> f.name, signed |-> f.signed, whole |-> f.whole, mtime |-> mtime]
      BY <1>2, <2>2 DEF Filed
    <3> QED
      BY <3>1
  <2> QED
    BY <2>1, <2>2 DEF f
<1> QED
  BY <1>2, <1>3 DEF Filed

LEMMA WriteArchiveOK ==
  ASSUME EInv, NEW w \in Workers, WriteArchive(w)
  PROVE  EInv'
<1>1. PICK step \in {"touch"} : GoOn(w, step)
  BY DEF WriteArchive
<1>2. workers[w].step \in Keyed /\ step \in Steps \ {"write key"}
  BY DEF WriteArchive, At, Keyed, Steps
<1>3. UNCHANGED <<keyFile, names, time>>
  BY DEF WriteArchive
<1>4. \A f \in archives' : Filed(f) /\ f.signed \in Exports /\ f.signed = keyFile
  <2>1. CASE workers[w].name \in FileNames
    <3> DEFINE g == [Named(workers[w].name) EXCEPT !.whole = TRUE, !.mtime = time]
    <3>1. Replace(w, g)
      BY <2>1 DEF WriteArchive
    <3>2. Filed(g) /\ g.signed = keyFile /\ keyFile \in Exports
      BY <2>1, WrittenIs
    <3> HIDE DEF g
    <3> QED
      BY <3>1, <3>2, ReplaceIs
  <2>2. CASE workers[w].name \notin FileNames
    BY <2>2 DEF WriteArchive, EInv, TypesOK
  <2> QED
    BY <2>1, <2>2
<1> QED
  BY <1>1, <1>2, <1>3, <1>4, MoveOK

LEMMA TouchArchiveOK ==
  ASSUME EInv, NEW w \in Workers, TouchArchive(w)
  PROVE  EInv'
<1>1. PICK step \in {"list", "failed"} : GoOn(w, step)
  BY DEF TouchArchive
<1>2. workers[w].step \in Keyed /\ step \in Steps \ {"write key"} /\ step # "create"
  BY DEF TouchArchive, At, Keyed, Steps
<1>3. UNCHANGED <<keyFile, names, time>>
  BY DEF TouchArchive
<1>4. \A f \in archives' : Filed(f) /\ f.signed \in Exports /\ f.signed = keyFile
  <2>1. CASE workers[w].name \in FileNames
    <3> DEFINE g == [Named(workers[w].name) EXCEPT !.mtime = workers[w].created]
    <3>1. Replace(w, g)
      BY <2>1 DEF TouchArchive
    <3>2. Filed(g) /\ g.signed = keyFile /\ keyFile \in Exports
      BY <2>1, WrittenIs
    <3> HIDE DEF g
    <3> QED
      BY <3>1, <3>2, ReplaceIs
  <2>2. CASE workers[w].name \notin FileNames
    BY <2>2 DEF TouchArchive, EInv, TypesOK
  <2> QED
    BY <2>1, <2>2
<1> QED
  BY <1>1, <1>2, <1>3, <1>4, MoveOK

LEMMA ListArchivesOK ==
  ASSUME EInv, NEW w \in Workers, ListArchives(w)
  PROVE  EInv'
<1> DEFINE listing == KnownArchives
<1>1. TypesOK /\ Shaped(workers[w]) /\ workers[w].step \in Keyed
  BY DEF EInv, TypesOK, ListArchives, At, Keyed
<1>2. Become(w, [workers[w] EXCEPT !.step = "prune", !.todo = listing])
  BY DEF ListArchives
<1> HIDE DEF listing
<1>3. /\ DOMAIN workers' = Workers
      /\ workers'[w] = [workers[w] EXCEPT !.step = "prune", !.todo = listing]
      /\ \A v \in Workers \ {w} : workers'[v] = workers[v]
  BY <1>1, <1>2, BecomeIs
<1>4. workers'[w] = [step |-> "prune", key |-> workers[w].key, name |-> workers[w].name,
                     created |-> workers[w].created, todo |-> listing,
                     rank |-> workers[w].rank]
  BY <1>1, <1>3 DEF Shaped
<1>5. workers'[w].step = "prune" /\ workers'[w].key = workers[w].key
  BY <1>4
<1>6. Shaped(workers'[w])
  BY <1>4, ShapedIs
<1>7. UNCHANGED <<keyFile, names, time, archives>>
  BY DEF ListArchives
<1> QED
  BY <1>1, <1>3, <1>5, <1>6, <1>7, StepOK DEF EInv, TypesOK, Steps, Keyed

LEMMA PruneArchiveOK ==
  ASSUME EInv, NEW w \in Workers, PruneArchive(w)
  PROVE  EInv'
<1> DEFINE head == Head(workers[w].todo)
           rest == Tail(workers[w].todo)
<1>1. TypesOK /\ Shaped(workers[w]) /\ workers[w].step \in Keyed
  BY DEF EInv, TypesOK, PruneArchive, At, Keyed
<1>2. UNCHANGED <<keyFile, names, time>>
  BY DEF PruneArchive
<1>3. CASE head \in FileNames
  <2>1. /\ Become(w, [workers[w] EXCEPT !.todo = rest, !.rank = workers[w].rank + 1])
        /\ archives' \subseteq archives
    BY <1>3 DEF PruneArchive
  <2> HIDE DEF head, rest
  <2>2. /\ DOMAIN workers' = Workers
        /\ workers'[w] = [workers[w] EXCEPT !.todo = rest, !.rank = workers[w].rank + 1]
        /\ \A v \in Workers \ {w} : workers'[v] = workers[v]
    BY <1>1, <2>1, BecomeIs
  <2>3. PICK rank : rank = workers[w].rank + 1
    OBVIOUS
  <2>4. workers'[w] = [step |-> workers[w].step, key |-> workers[w].key,
                       name |-> workers[w].name, created |-> workers[w].created,
                       todo |-> rest, rank |-> rank]
    BY <1>1, <2>2, <2>3 DEF Shaped
  <2>5. workers'[w].step = workers[w].step /\ workers'[w].key = workers[w].key
    BY <2>4
  <2>6. Shaped(workers'[w])
    BY <2>4, ShapedIs
  <2>7. workers[w].step = "prune"
    BY DEF PruneArchive, At
  <2> QED
    BY <1>1, <1>2, <2>1, <2>2, <2>5, <2>6, <2>7, StepOK DEF EInv, TypesOK, Steps, Keyed
<1>4. CASE head \notin FileNames
  BY <1>2, <1>4, EndOK DEF PruneArchive
<1> QED
  BY <1>3, <1>4

LEMMA FindArchiveOK ==
  ASSUME EInv, NEW w \in Workers, FindArchive(w)
  PROVE  EInv'
<1>1. TypesOK /\ Shaped(workers[w]) /\ workers[w].step \in Keyed
  BY DEF EInv, TypesOK, FindArchive, At, Keyed
<1>2. UNCHANGED <<keyFile, names, time, archives>>
  BY DEF FindArchive
<1>3. ASSUME NEW n \in FileNames,
             Become(w, [workers[w] EXCEPT !.step = "verify", !.name = n])
      PROVE  EInv'
  <2>1. /\ DOMAIN workers' = Workers
        /\ workers'[w] = [workers[w] EXCEPT !.step = "verify", !.name = n]
        /\ \A v \in Workers \ {w} : workers'[v] = workers[v]
    BY <1>1, <1>3, BecomeIs
  <2>2. workers'[w] = [step |-> "verify", key |-> workers[w].key, name |-> n,
                       created |-> workers[w].created, todo |-> workers[w].todo,
                       rank |-> workers[w].rank]
    BY <1>1, <2>1 DEF Shaped
  <2>3. workers'[w].step = "verify" /\ workers'[w].key = workers[w].key
    BY <2>2
  <2>4. Shaped(workers'[w])
    BY <2>2, ShapedIs
  <2> QED
    BY <1>1, <1>2, <2>1, <2>3, <2>4, StepOK DEF EInv, TypesOK, Steps, Keyed
<1>4. ASSUME Become(w, [NewWorker EXCEPT !.step = "failed"])
      PROVE  EInv'
  BY <1>2, <1>4, EndOK
<1> QED
  BY <1>3, <1>4 DEF FindArchive

LEMMA DownloadOK ==
  ASSUME EInv, NEW w \in Workers, VerifyArchive(w) \/ ReadArchive(w)
  PROVE  EInv'
<1>1. PICK step \in {"read", "done", "failed"} : GoOn(w, step)
  BY DEF VerifyArchive, ReadArchive
<1>2. /\ workers[w].step \in Keyed /\ step \in Steps \ {"write key"} /\ step # "create"
      /\ UNCHANGED <<keyFile, names, time>>
  BY DEF VerifyArchive, ReadArchive, At, Keyed, Steps
<1>3. \A f \in archives' : Filed(f) /\ f.signed \in Exports /\ f.signed = keyFile
  BY DEF VerifyArchive, ReadArchive, EInv, TypesOK
<1> QED
  BY <1>1, <1>2, <1>3, MoveOK

LEMMA EndingOK ==
  ASSUME EInv, NEW w \in Workers, ListingFails(w) \/ EndExport(w) \/ EndDownload(w)
  PROVE  EInv'
<1>1. UNCHANGED <<keyFile, names, time, archives>>
  BY DEF ListingFails, EndExport, EndDownload
<1>2. PICK step \in {"ready", "done", "failed"} :
        Become(w, [NewWorker EXCEPT !.step = step])
  <2>1. ListingFails(w) => Become(w, [NewWorker EXCEPT !.step = "failed"])
    BY DEF ListingFails
  <2>2. EndExport(w) => Become(w, [NewWorker EXCEPT !.step = "done"])
    BY DEF EndExport
  <2>3. EndDownload(w) => Become(w, [NewWorker EXCEPT !.step = "ready"])
    BY NewWorkerIs DEF EndDownload, Become, Shaped
  <2> QED
    BY <2>1, <2>2, <2>3
<1> QED
  BY <1>1, <1>2, EndOK

LEMMA DieOK ==
  ASSUME EInv, Die
  PROVE  EInv'
<1> DEFINE failed == [NewWorker EXCEPT !.step = "failed"]
<1>1. failed.step = "failed" /\ failed.key = NoKey /\ Shaped(failed)
  BY NewWorkerIs, StepShape
<1>2. /\ DOMAIN workers' = Workers
      /\ \A w \in Workers : \/ workers'[w] = failed
                            \/ workers'[w] = workers[w] /\ workers[w].step \in {"ready", "done"}
  BY DEF Die, At
<1> HIDE DEF failed
<1>3. UNCHANGED <<keyFile, names, time, archives>>
  BY DEF Die
<1>4. TypesOK'
  BY <1>1, <1>2, <1>3 DEF EInv, TypesOK, Steps
<1>5. KeysOK'
  BY <1>1, <1>2, <1>3 DEF EInv, KeysOK, Keyed
<1>6. WritersOK'
  BY <1>1, <1>2, <1>3 DEF EInv, WritersOK
<1> QED
  BY <1>3, <1>4, <1>5, <1>6 DEF EInv

LEMMA EvidenceNextOK ==
  ASSUME EInv, [EvidenceNext]_evidenceVars
  PROVE  EInv'
<1>1. CASE EvidenceTick
  <2>1. time' \in Nat /\ UNCHANGED <<keyFile, archives, names, workers>>
    BY <1>1 DEF EvidenceTick, EInv, TypesOK
  <2> QED
    BY <2>1 DEF EInv, TypesOK, KeysOK, WritersOK
<1>2. CASE UNCHANGED evidenceVars
  BY <1>2 DEF evidenceVars, EInv, TypesOK, KeysOK, WritersOK
<1> QED
  BY <1>1, <1>2, FindKeyOK, CreateKeyOK, WriteKeyOK, LoadKeyOK, StampArchiveOK,
     OpenArchiveOK, WriteArchiveOK, TouchArchiveOK, ListArchivesOK, PruneArchiveOK,
     FindArchiveOK, DownloadOK, EndingOK, DieOK DEF EvidenceNext

(* The inductive invariant of the signing key and whoever has it. *)
THEOREM EvidenceInvariant == EvidenceSpec => []EInv
BY EvidenceInitOK, EvidenceNextOK, PTL DEF EvidenceSpec

(* No archive, and no request that is going to sign one, has a key other   *)
(* than that of the key file, however many requests found it missing       *)
(* (load_or_create_signing_key).                                           *)
THEOREM ArchivesVerifiableForever == EvidenceSpec => []ArchivesStayVerifiable
<1>1. EInv => ArchivesStayVerifiable
  BY DEF EInv, KeysOK, ArchivesStayVerifiable
<1> QED
  BY <1>1, EvidenceInvariant, PTL

(***************************************************************************)
(* The listing of the archives.                                            *)
(***************************************************************************)

(* R relates any two different elements of S one way. *)
Orders(R, S) ==
  /\ \A x, y \in S : x # y => <<x, y>> \in R \/ <<y, x>> \in R
  /\ \A x, y, z \in S : <<x, y>> \in R /\ <<y, z>> \in R => <<x, z>> \in R

Sorted(R, A, f) ==
  /\ f \in [1 .. Cardinality(A) -> A]
  /\ \A i, j \in 1 .. Cardinality(A) : i < j => <<f[i], f[j]>> \in R

LEMMA LastExists ==
  ASSUME NEW S, IsFiniteSet(S), S # {}, NEW R, Orders(R, S)
  PROVE  \E x \in S : \A y \in S \ {x} : <<y, x>> \in R
<1> DEFINE T == {A \in SUBSET S : A # {} => \E x \in A : \A y \in A \ {x} : <<y, x>> \in R}
<1>1. ASSUME NEW A \in SUBSET S, \A x \in A : A \ {x} \in T
      PROVE  A \in T
  <2> SUFFICES ASSUME NEW a \in A
               PROVE  \E x \in A : \A y \in A \ {x} : <<y, x>> \in R
    OBVIOUS
  <2>1. CASE A \ {a} = {}
    BY <2>1
  <2>2. CASE A \ {a} # {}
    <3>1. PICK x \in A \ {a} : \A y \in (A \ {a}) \ {x} : <<y, x>> \in R
      BY <1>1, <2>2
    <3>2. CASE <<a, x>> \in R
      BY <3>1, <3>2
    <3>3. CASE <<x, a>> \in R
      <4>1. \A y \in A \ {a} : <<y, a>> \in R
        BY <3>1, <3>3 DEF Orders
      <4> QED BY <4>1
    <3> QED BY <3>1, <3>2, <3>3 DEF Orders
  <2> QED BY <2>1, <2>2
<1>2. S \in T
  <2> HIDE DEF T
  <2>1. SUBSET S \subseteq T
    BY <1>1, SubsetsFromSmaller
  <2> QED BY <2>1
<1> QED BY <1>2

LEMMA SortedExists ==
  ASSUME NEW S, IsFiniteSet(S), NEW R, Orders(R, S)
  PROVE  \E f : Sorted(R, S, f)
<1> DEFINE T == {A \in SUBSET S : \E f : Sorted(R, A, f)}
<1>1. ASSUME NEW A \in SUBSET S, \A x \in A : A \ {x} \in T
      PROVE  A \in T
  <2>1. IsFiniteSet(A) /\ Cardinality(A) \in Nat /\ Orders(R, A)
    BY FS_Subset, FS_CardinalityType DEF Orders
  <2>2. CASE A = {}
    <3>1. Cardinality(A) = 0
      BY <2>2, FS_EmptySet
    <3>2. Sorted(R, A, [i \in 1 .. 0 |-> i])
      BY <3>1 DEF Sorted
    <3> QED BY <3>2
  <2>3. CASE A # {}
    <3>1. PICK x \in A : \A y \in A \ {x} : <<y, x>> \in R
      BY <2>1, <2>3, LastExists
    <3>2. PICK f : Sorted(R, A \ {x}, f)
      BY <1>1
    <3> DEFINE n == Cardinality(A)
               g == [i \in 1 .. n |-> IF i = n THEN x ELSE f[i]]
    <3>3. n \in Nat /\ Cardinality(A \ {x}) = n - 1
      BY <2>1, FS_RemoveElement
    <3>4. /\ f \in [1 .. n - 1 -> A \ {x}]
          /\ \A i, j \in 1 .. n - 1 : i < j => <<f[i], f[j]>> \in R
      BY <3>2, <3>3 DEF Sorted
    <3> HIDE DEF n
    <3>5. \A i \in 1 .. n : i # n => i \in 1 .. n - 1
      BY <3>3
    <3>6. g \in [1 .. n -> A]
      BY <3>4, <3>5
    <3>7. ASSUME NEW i \in 1 .. n, NEW j \in 1 .. n, i < j
          PROVE  <<g[i], g[j]>> \in R
      <4>1. i # n /\ i \in 1 .. n - 1
        BY <3>3, <3>7
      <4>2. g[i] = f[i] /\ f[i] \in A \ {x}
        BY <3>4, <4>1
      <4>3. CASE j = n
        BY <3>1, <4>2, <4>3
      <4>4. CASE j # n
        BY <3>4, <3>5, <3>7, <4>1, <4>2, <4>4
      <4> QED BY <4>3, <4>4
    <3>8. Sorted(R, A, g)
      BY <3>6, <3>7 DEF Sorted, n
    <3>9. \E h : Sorted(R, A, h)
      <4> HIDE DEF g
      <4> QED BY <3>8
    <3> QED BY <3>9
  <2> QED BY <2>2, <2>3
<1>2. S \in T
  <2> HIDE DEF T
  <2>1. SUBSET S \subseteq T
    BY <1>1, SubsetsFromSmaller
  <2> QED BY <2>1
<1> QED BY <1>2

(* The listing has every archive once. *)
LEMMA ListingIs ==
  ASSUME IsFiniteSet(FileNames), FileNames \subseteq Nat,
         \A f \in archives : f.mtime \in Nat
  PROVE  KnownArchives \in Seq(Nat) /\ Range(KnownArchives) = FileNames
<1> DEFINE R == {p \in FileNames \X FileNames : Newer(p[1], p[2])}
           places == 1 .. Cardinality(FileNames)
           Lists(f) == /\ f \in [places -> FileNames]
                       /\ \A i, j \in places : i < j => Newer(f[i], f[j])
<1>1. \A n \in FileNames : Named(n).mtime \in Nat
  BY NamedIs
<1>2. Orders(R, FileNames)
  <2>1. \A m, n \in FileNames : <<m, n>> \in R <=> Newer(m, n)
    OBVIOUS
  <2>2. \A m, n \in FileNames : m # n => Newer(m, n) \/ Newer(n, m)
    BY <1>1 DEF Newer
  <2>3. \A m, n, o \in FileNames : Newer(m, n) /\ Newer(n, o) => Newer(m, o)
    BY <1>1 DEF Newer
  <2> HIDE DEF R
  <2> QED BY <2>1, <2>2, <2>3 DEF Orders
<1>3. \E f : Lists(f)
  <2>1. PICK f : Sorted(R, FileNames, f)
    <3> HIDE DEF R
    <3> QED BY <1>2, SortedExists
  <2>2. Lists(f)
    BY <2>1 DEF Sorted
  <2> HIDE DEF Lists
  <2> QED BY <2>2
<1>4. KnownArchives = CHOOSE f \in [places -> FileNames] :
                        \A i, j \in places : i < j => Newer(f[i], f[j])
  BY DEF KnownArchives
<1>5. Lists(KnownArchives)
  BY <1>3, <1>4
<1> HIDE DEF R
<1>6. Cardinality(FileNames) \in Nat
  BY FS_CardinalityType
<1>7. KnownArchives \in Surjection(places, FileNames)
  <2>1. \A i, j \in places : KnownArchives[i] = KnownArchives[j] => i = j
    <3>1. \A m \in FileNames : ~Newer(m, m)
      BY <1>1 DEF Newer
    <3>2. \A i, j \in places : i # j => i < j \/ j < i
      BY <1>6
    <3> QED BY <1>5, <3>1, <3>2
  <2>2. KnownArchives \in Injection(places, FileNames)
    BY <1>5, <2>1 DEF Injection, IsInjective
  <2>3. Cardinality(places) = Cardinality(FileNames)
    BY <1>6, FS_Interval
  <2> HIDE DEF places
  <2> QED BY <2>2, <2>3, FS_Injection
<1>8. Range(KnownArchives) = FileNames
  BY <1>5, <1>7 DEF Range, Surjection
<1>9. KnownArchives \in Seq(Nat)
  <2>1. KnownArchives \in [places -> Nat]
    BY <1>5
  <2> QED BY <1>6, <2>1, SeqDef
<1> QED BY <1>8, <1>9

(***************************************************************************)
(* Names and types.  No archive is given a name twice: a name that a file  *)
(* has, or that a download is reading, is not one that an export is about  *)
(* to open.                                                                *)
(***************************************************************************)

NameTaken(n) ==
  /\ n \in Nat /\ n <= names
  /\ \A v \in Workers : workers[v].step = "open" => workers[v].name # n

NamesOK ==
  /\ \A f \in archives : NameTaken(f.name)
  /\ \A v \in Workers :
       workers[v].step = "open" => workers[v].name \in Nat /\ workers[v].name <= names
  /\ \A v, w \in Workers :
       /\ workers[v].step = "open" /\ workers[w].step = "open"
       /\ workers[v].name = workers[w].name
       => v = w
  /\ \A w \in Workers : workers[w].step \in {"verify", "read"} => NameTaken(workers[w].name)

DownloadSteps == {"ready", "list", "verify", "read", "done", "failed"}

(* What has been verified stays as it was verified, or goes. *)
VerifiedOK(task) ==
  task.step = "read" =>
    \A f \in archives : f.name = task.name => f.whole /\ f.signed = task.key

TInv ==
  /\ EvidenceTypeOK
  /\ IsFiniteSet(FileNames)
  /\ NamesOK
  /\ \A w \in Downloads : workers[w].step \in DownloadSteps
  /\ \A w \in Workers : VerifiedOK(workers[w])

(* Files that are there were there, signed the same and no less whole. *)
FilesGoOn ==
  /\ archives' \subseteq File
  /\ \A f, g \in archives' : f.name = g.name => f = g
  /\ \A g \in archives' : \E f \in archives :
       f.name = g.name /\ f.signed = g.signed /\ (f.whole => g.whole)

LEMMA TaskOK ==
  ASSUME TInv, NEW w \in Workers, NEW task \in Worker, Become(w, task), FilesGoOn,
         keyFile' \in Exports \cup {NoKey, "empty"}, UNCHANGED <<names, time, deaths>>,
         task.step # "open",
         task.step \in {"verify", "read"} => NameTaken(task.name),
         VerifiedOK(task),
         w \in Downloads => task.step \in DownloadSteps
  PROVE  TInv'
<1>1. /\ workers' \in [Workers -> Worker]
      /\ workers'[w] = task /\ \A v \in Workers \ {w} : workers'[v] = workers[v]
  BY DEF TInv, EvidenceTypeOK, Become
<1>2. \A n : NameTaken(n) =>
             n \in Nat /\ n <= names' /\ \A v \in Workers : workers'[v].step = "open" => workers'[v].name # n
  BY <1>1 DEF NameTaken
<1>3. EvidenceTypeOK'
  BY <1>1 DEF TInv, EvidenceTypeOK, FilesGoOn
<1>4. FileNames' \subseteq FileNames
  BY DEF FilesGoOn, FileNames
<1>5. IsFiniteSet(FileNames)'
  BY <1>4, FS_Subset DEF TInv
<1>6. NamesOK'
  <2>1. \A f \in archives' : NameTaken(f.name)'
    BY <1>2 DEF TInv, NamesOK, FilesGoOn, NameTaken
  <2>2. \A v \in Workers :
          workers'[v].step = "open" => workers'[v].name \in Nat /\ workers'[v].name <= names'
    BY <1>1 DEF TInv, NamesOK
  <2>3. \A u, v \in Workers :
          /\ workers'[u].step = "open" /\ workers'[v].step = "open"
          /\ workers'[u].name = workers'[v].name
          => u = v
    BY <1>1 DEF TInv, NamesOK
  <2>4. \A v \in Workers :
          workers'[v].step \in {"verify", "read"} => NameTaken(workers[v].name)'
    <3>1. \A v \in Workers :
            workers'[v].step \in {"verify", "read"} => NameTaken(workers'[v].name)
      BY <1>1 DEF TInv, NamesOK
    <3> QED BY <1>2, <3>1 DEF NameTaken
  <2> QED BY <2>1, <2>2, <2>3, <2>4 DEF NamesOK
<1>7. \A v \in Downloads : workers'[v].step \in DownloadSteps
  BY <1>1 DEF TInv, Workers
<1>8. \A v \in Workers : VerifiedOK(workers[v])'
  <2>1. ASSUME NEW t, VerifiedOK(t), t.step = "read",
               NEW g \in archives', g.name = t.name
        PROVE  g.whole /\ g.signed = t.key
    <3>1. PICK f \in archives : f.name = g.name /\ f.signed = g.signed /\ (f.whole => g.whole)
      BY DEF FilesGoOn
    <3> QED BY <2>1, <3>1 DEF VerifiedOK
  <2>2. \A v \in Workers : VerifiedOK(workers'[v])
    BY <1>1 DEF TInv
  <2> QED BY <2>1, <2>2 DEF VerifiedOK
<1> QED BY <1>3, <1>5, <1>6, <1>7, <1>8 DEF TInv

LEMMA FilesUnchanged ==
  ASSUME TInv, UNCHANGED archives
  PROVE  FilesGoOn
BY DEF TInv, EvidenceTypeOK, FilesGoOn

LEMMA ReplaceGoesOn ==
  ASSUME TInv, NEW w \in Workers, workers[w].name \in FileNames, NEW g \in File,
         Replace(w, g),
         LET f == Named(workers[w].name)
         IN  g.name = f.name /\ g.signed = f.signed /\ (f.whole => g.whole)
  PROVE  FilesGoOn /\ FileNames' = FileNames
<1> DEFINE f == Named(workers[w].name)
<1>1. f \in archives /\ f.name = workers[w].name
  BY NamedIs
<1> HIDE DEF f
<1>2. archives' = (archives \ {f}) \cup {g}
  BY DEF Replace, f
<1>3. g.name = f.name /\ g.signed = f.signed /\ (f.whole => g.whole)
  BY DEF f
<1>4. FilesGoOn
  BY <1>1, <1>2, <1>3 DEF TInv, EvidenceTypeOK, FilesGoOn
<1>5. FileNames' = FileNames
  BY <1>1, <1>2, <1>3 DEF FileNames
<1> QED BY <1>4, <1>5

LEMMA NewTaskOK ==
  ASSUME NEW step \in {"ready", "done", "failed"}
  PROVE  [NewWorker EXCEPT !.step = step] \in Worker
         /\ [NewWorker EXCEPT !.step = step].step = step
<1> DEFINE none == <<>>
<1>1. NewWorker = [step |-> "ready", key |-> NoKey, name |-> NoName, created |-> 0,
                   todo |-> none, rank |-> 0]
  BY DEF NewWorker
<1>2. none \in Seq(Nat)
  BY EmptySeq
<1> HIDE DEF none
<1> QED BY <1>1, <1>2 DEF Worker

WorkerSteps ==
  {"ready", "create", "write key", "load", "stamp", "open", "write", "touch",
   "list", "prune", "verify", "read", "done", "failed"}

LEMMA GoOnTyped ==
  ASSUME TInv, NEW w \in Workers, NEW step \in WorkerSteps
  PROVE  LET t == [workers[w] EXCEPT !.step = step]
         IN  /\ t \in Worker
             /\ t.step = step /\ t.name = workers[w].name /\ t.key = workers[w].key
BY DEF TInv, EvidenceTypeOK, Worker, WorkerSteps

LEMMA GoingOnOK ==
  ASSUME TInv, NEW w \in Workers, NEW step \in WorkerSteps, GoOn(w, step), FilesGoOn,
         keyFile' \in Exports \cup {NoKey, "empty"}, UNCHANGED <<names, time, deaths>>,
         step \notin {"open", "verify", "read"},
         w \in Downloads => step \in DownloadSteps
  PROVE  TInv'
<1> DEFINE task == [workers[w] EXCEPT !.step = step]
<1>1. task \in Worker /\ task.step = step
  BY GoOnTyped
<1>2. Become(w, task)
  BY DEF Become, GoOn
<1> HIDE DEF task
<1> QED BY <1>1, <1>2, TaskOK DEF VerifiedOK

LEMMA EndingTypedOK ==
  ASSUME TInv, NEW w \in Workers, NEW step \in {"ready", "done", "failed"},
         Become(w, [NewWorker EXCEPT !.step = step]), FilesGoOn,
         UNCHANGED <<keyFile, names, time, deaths>>
  PROVE  TInv'
<1> DEFINE task == [NewWorker EXCEPT !.step = step]
<1>1. task \in Worker /\ task.step = step
  BY NewTaskOK
<1>2. Become(w, task)
  OBVIOUS
<1>3. keyFile' \in Exports \cup {NoKey, "empty"}
  BY DEF TInv, EvidenceTypeOK
<1> HIDE DEF task
<1> QED BY <1>1, <1>2, <1>3, TaskOK DEF VerifiedOK, DownloadSteps

LEMMA KeyStepsTyped ==
  ASSUME TInv, NEW w \in Workers,
         FindKey(w) \/ CreateKey(w) \/ WriteKey(w) \/ LoadKey(w)
  PROVE  TInv'
<1>1. /\ workers[w] \in Worker /\ keyFile \in Exports \cup {NoKey, "empty"}
      /\ w \in Downloads => workers[w].step \in DownloadSteps
      /\ Exports \cap Downloads = {} /\ w \in Exports \cup Downloads
  BY EvidenceAssumption DEF TInv, EvidenceTypeOK, Workers
<1>2. FilesGoOn /\ UNCHANGED <<names, time, deaths>>
  BY FilesUnchanged DEF FindKey, CreateKey, WriteKey, LoadKey
<1>3. CASE FindKey(w)
  BY <1>1, <1>2, <1>3, GoingOnOK DEF FindKey, WorkerSteps
<1>4. CASE CreateKey(w)
  <2>1. w \notin Downloads
    BY <1>1, <1>4 DEF CreateKey, At, DownloadSteps
  <2> QED BY <1>1, <1>2, <1>4, <2>1, GoingOnOK DEF CreateKey, WorkerSteps
<1>5. CASE WriteKey(w)
  <2> DEFINE task == [workers[w] EXCEPT !.step = "stamp", !.key = w]
  <2>1. w \in Exports /\ w \notin Downloads
    BY <1>1, <1>5 DEF WriteKey, At, DownloadSteps
  <2>2. task \in Worker /\ task.step = "stamp"
    BY <1>1, <2>1 DEF Worker
  <2>3. Become(w, task) /\ keyFile' = w
    BY <1>5 DEF WriteKey
  <2> HIDE DEF task
  <2> QED BY <1>2, <2>1, <2>2, <2>3, TaskOK DEF VerifiedOK
<1>6. CASE LoadKey(w)
  <2>1. UNCHANGED keyFile
    BY <1>6 DEF LoadKey
  <2>2. CASE keyFile \in Exports
    <3> DEFINE next == IF w \in Exports THEN "stamp" ELSE "list"
               task == [workers[w] EXCEPT !.step = next, !.key = keyFile]
    <3>1. task \in Worker /\ task.step = next /\ next \in {"stamp", "list"}
      BY <1>1, <2>2 DEF Worker
    <3>2. Become(w, task)
      BY <1>6, <2>2 DEF LoadKey
    <3>3. w \in Downloads => next \in DownloadSteps
      BY <1>1 DEF DownloadSteps
    <3> HIDE DEF task, next
    <3> QED BY <1>1, <1>2, <2>1, <3>1, <3>2, <3>3, TaskOK DEF VerifiedOK
  <2>3. CASE keyFile \notin Exports
    BY <1>2, <1>6, <2>1, <2>3, EndingTypedOK DEF LoadKey
  <2> QED BY <2>2, <2>3
<1> QED BY <1>3, <1>4, <1>5, <1>6

(* The name of a new archive is greater than any given before. *)
LEMMA StampTyped ==
  ASSUME TInv, NEW w \in Workers, StampArchive(w)
  PROVE  TInv'
<1> DEFINE task == [workers[w] EXCEPT !.step = "open", !.name = names + 1, !.created = time]
<1>1. /\ workers[w] \in Worker /\ names \in Nat /\ time \in Nat
      /\ w \notin Downloads
  BY DEF TInv, EvidenceTypeOK, StampArchive, At, DownloadSteps
<1>2. task \in Worker /\ task.step = "open" /\ task.name = names + 1
  <2>1. PICK name \in Nat : name = names + 1
    BY <1>1
  <2>2. task = [workers[w] EXCEPT !.step = "open", !.name = name, !.created = time]
    BY <2>1
  <2> HIDE DEF task
  <2>3. task \in Worker /\ task.step = "open" /\ task.name = name
    BY <1>1, <2>2 DEF Worker
  <2> QED BY <2>1, <2>3
<1>3. /\ Become(w, task) /\ names' = names + 1
      /\ UNCHANGED <<keyFile, archives, time, deaths>>
  BY DEF StampArchive
<1> HIDE DEF task
<1>4. /\ workers' \in [Workers -> Worker]
      /\ workers'[w] = task /\ \A v \in Workers \ {w} : workers'[v] = workers[v]
  BY <1>2, <1>3 DEF TInv, EvidenceTypeOK, Become
<1>5. EvidenceTypeOK'
  BY <1>1, <1>3, <1>4 DEF TInv, EvidenceTypeOK
<1>6. NamesOK'
  <2>1. \A n : NameTaken(n) =>
          n \in Nat /\ n <= names' /\ \A v \in Workers : workers'[v].step = "open" => workers'[v].name # n
    BY <1>1, <1>2, <1>3, <1>4 DEF NameTaken
  <2>2. \A f \in archives' : NameTaken(f.name)'
    BY <1>3, <2>1 DEF TInv, NamesOK, NameTaken
  <2>3. \A v \in Workers :
          workers'[v].step = "open" => workers'[v].name \in Nat /\ workers'[v].name <= names'
    BY <1>1, <1>2, <1>3, <1>4 DEF TInv, NamesOK
  <2>4. \A u, v \in Workers :
          /\ workers'[u].step = "open" /\ workers'[v].step = "open"
          /\ workers'[u].name = workers'[v].name
          => u = v
    BY <1>1, <1>2, <1>4 DEF TInv, NamesOK
  <2>5. \A v \in Workers :
          workers'[v].step \in {"verify", "read"} => NameTaken(workers[v].name)'
    <3>1. \A v \in Workers :
            workers'[v].step \in {"verify", "read"} => NameTaken(workers'[v].name)
      BY <1>2, <1>4 DEF TInv, NamesOK
    <3> QED BY <2>1, <3>1 DEF NameTaken
  <2> QED BY <2>2, <2>3, <2>4, <2>5 DEF NamesOK
<1>7. \A v \in Downloads : workers'[v].step \in DownloadSteps
  BY <1>1, <1>4 DEF TInv, Workers
<1>8. \A v \in Workers : VerifiedOK(workers[v])'
  BY <1>2, <1>3, <1>4 DEF TInv, VerifiedOK
<1> QED BY <1>3, <1>5, <1>6, <1>7, <1>8 DEF TInv, FileNames

LEMMA OpenTyped ==
  ASSUME EInv, TInv, NEW w \in Workers, OpenArchive(w)
  PROVE  TInv' /\ FileNames' = FileNames \cup {workers[w].name}
<1> DEFINE task == [workers[w] EXCEPT !.step = "write"]
           new  == [name |-> workers[w].name, signed |-> workers[w].key, whole |-> FALSE,
                    mtime |-> time]
<1>1. /\ workers[w].step = "open" /\ time \in Nat
      /\ workers[w].name \in Nat /\ workers[w].name <= names
      /\ workers[w].key \in Exports /\ w \notin Downloads
  BY DEF EInv, KeysOK, Keyed, TInv, EvidenceTypeOK, NamesOK, OpenArchive, At, DownloadSteps
<1>2. task \in Worker /\ task.step = "write"
  BY GoOnTyped DEF WorkerSteps
<1>3. new \in File /\ new.name = workers[w].name
  BY <1>1 DEF File
<1>4. /\ Become(w, task) /\ archives' = archives \cup {new}
      /\ UNCHANGED <<keyFile, names, time, deaths>>
  BY DEF OpenArchive, GoOn, Become
<1> HIDE DEF task, new
<1>5. /\ workers' \in [Workers -> Worker]
      /\ workers'[w] = task /\ \A v \in Workers \ {w} : workers'[v] = workers[v]
  BY <1>2, <1>4 DEF TInv, EvidenceTypeOK, Become
<1>6. \A f \in archives : f.name # new.name
  BY <1>1, <1>3 DEF TInv, NamesOK, NameTaken
<1>7. EvidenceTypeOK'
  BY <1>3, <1>4, <1>5, <1>6 DEF TInv, EvidenceTypeOK
<1>8. FileNames' = FileNames \cup {workers[w].name}
  BY <1>3, <1>4 DEF FileNames
<1>9. IsFiniteSet(FileNames)'
  BY <1>8, FS_AddElement DEF TInv
<1>10. NamesOK'
  <2>1. \A n : NameTaken(n) \/ n = new.name =>
          n \in Nat /\ n <= names' /\ \A v \in Workers : workers'[v].step = "open" => workers'[v].name # n
    BY <1>1, <1>2, <1>3, <1>4, <1>5 DEF TInv, NamesOK, NameTaken
  <2>2. \A f \in archives' : NameTaken(f.name)'
    BY <1>4, <2>1 DEF TInv, NamesOK, NameTaken
  <2>3. \A v \in Workers :
          workers'[v].step = "open" => workers'[v].name \in Nat /\ workers'[v].name <= names'
    BY <1>2, <1>4, <1>5 DEF TInv, NamesOK
  <2>4. \A u, v \in Workers :
          /\ workers'[u].step = "open" /\ workers'[v].step = "open"
          /\ workers'[u].name = workers'[v].name
          => u = v
    BY <1>2, <1>5 DEF TInv, NamesOK
  <2>5. \A v \in Workers :
          workers'[v].step \in {"verify", "read"} => NameTaken(workers[v].name)'
    <3>1. \A v \in Workers :
            workers'[v].step \in {"verify", "read"} => NameTaken(workers'[v].name)
      BY <1>2, <1>5 DEF TInv, NamesOK
    <3> QED BY <2>1, <3>1 DEF NameTaken
  <2> QED BY <2>2, <2>3, <2>4, <2>5 DEF NamesOK
<1>11. \A v \in Downloads : workers'[v].step \in DownloadSteps
  BY <1>1, <1>5 DEF TInv, Workers
<1>12. \A v \in Workers : VerifiedOK(workers[v])'
  <2>1. \A v \in Workers : workers'[v].step = "read" =>
          workers'[v] = workers[v] /\ workers[v].name # new.name
    BY <1>1, <1>2, <1>3, <1>5 DEF TInv, NamesOK, NameTaken
  <2> QED BY <1>4, <2>1 DEF TInv, VerifiedOK
<1> QED BY <1>7, <1>8, <1>9, <1>10, <1>11, <1>12 DEF TInv

LEMMA WriteTyped ==
  ASSUME TInv, NEW w \in Workers, WriteArchive(w) \/ TouchArchive(w)
  PROVE  TInv' /\ FilesGoOn /\ FileNames' = FileNames
<1> DEFINE f == Named(workers[w].name)
<1>1. /\ workers[w] \in Worker /\ time \in Nat /\ archives \subseteq File
      /\ w \notin Downloads /\ keyFile \in Exports \cup {NoKey, "empty"}
      /\ UNCHANGED <<keyFile, names, time, deaths>>
  BY DEF TInv, EvidenceTypeOK, WriteArchive, TouchArchive, At, DownloadSteps
<1>2. FilesGoOn /\ FileNames' = FileNames
  <2>1. CASE UNCHANGED archives
    BY <2>1, FilesUnchanged DEF FileNames
  <2>2. CASE workers[w].name \in FileNames
    <3>1. f \in File
      BY <1>1, <2>2, NamedIs
    <3> DEFINE written == [f EXCEPT !.whole = TRUE, !.mtime = time]
               touched == [f EXCEPT !.mtime = workers[w].created]
    <3>2. /\ written \in File /\ written.name = f.name /\ written.signed = f.signed
          /\ written.whole
      BY <1>1, <3>1 DEF File
    <3>3. /\ touched \in File /\ touched.name = f.name /\ touched.signed = f.signed
          /\ touched.whole = f.whole
      BY <1>1, <3>1 DEF File, Worker
    <3>4. Replace(w, written) \/ Replace(w, touched)
      BY <2>2 DEF WriteArchive, TouchArchive
    <3> HIDE DEF written, touched
    <3> QED BY <2>2, <3>2, <3>3, <3>4, ReplaceGoesOn
  <2> QED BY <2>1, <2>2 DEF WriteArchive, TouchArchive
<1>3. PICK step \in {"touch", "list", "failed"} : GoOn(w, step)
  BY DEF WriteArchive, TouchArchive
<1>4. TInv'
  BY <1>1, <1>2, <1>3, GoingOnOK DEF WorkerSteps
<1> QED BY <1>2, <1>4

LEMMA ListTyped ==
  ASSUME TInv, NEW w \in Workers, ListArchives(w)
  PROVE  /\ TInv'
         /\ FileNames' = FileNames
         /\ workers'[w].step = "prune" /\ Range(workers'[w].todo) = FileNames
         /\ \A v \in Workers \ {w} : workers'[v] = workers[v]
<1> DEFINE task == [workers[w] EXCEPT !.step = "prune", !.todo = KnownArchives]
<1>1. /\ workers \in [Workers -> Worker] /\ w \notin Downloads
      /\ keyFile \in Exports \cup {NoKey, "empty"}
      /\ UNCHANGED <<keyFile, archives, names, time, deaths>>
      /\ FilesGoOn
  BY FilesUnchanged, EvidenceAssumption DEF TInv, EvidenceTypeOK, ListArchives
<1>2. KnownArchives \in Seq(Nat) /\ Range(KnownArchives) = FileNames
  <2>1. FileNames \subseteq Nat /\ \A f \in archives : f.mtime \in Nat
    BY DEF TInv, EvidenceTypeOK, File, FileNames
  <2> QED BY <2>1, ListingIs DEF TInv
<1>3. task \in Worker /\ task.step = "prune" /\ task.todo = KnownArchives
  BY <1>1, <1>2 DEF Worker
<1>4. Become(w, task)
  BY DEF ListArchives
<1> HIDE DEF task
<1>5. TInv'
  BY <1>1, <1>3, <1>4, TaskOK DEF VerifiedOK
<1>6. workers'[w] = task /\ \A v \in Workers \ {w} : workers'[v] = workers[v]
  BY <1>1, <1>4 DEF Become
<1> QED BY <1>1, <1>2, <1>3, <1>5, <1>6 DEF FileNames

LEMMA TodoIs ==
  ASSUME NEW s \in Seq(Nat), s # <<>>
  PROVE  /\ Head(s) \in Nat /\ Tail(s) \in Seq(Nat)
         /\ Range(s) = {Head(s)} \cup Range(Tail(s))
<1>1. /\ Len(s) \in Nat \ {0} /\ s \in [1 .. Len(s) -> Nat] /\ DOMAIN s = 1 .. Len(s)
      /\ Head(s) = s[1]
  BY EmptySeq, LenProperties
<1>2. /\ Tail(s) \in Seq(Nat) /\ Len(Tail(s)) = Len(s) - 1
      /\ \A i \in 1 .. Len(Tail(s)) : Tail(s)[i] = s[i + 1]
  BY HeadTailProperties
<1>3. DOMAIN Tail(s) = 1 .. Len(s) - 1
  BY <1>2, LenProperties
<1>4. Range(s) \subseteq {Head(s)} \cup Range(Tail(s))
  <2> SUFFICES ASSUME NEW i \in 1 .. Len(s) PROVE s[i] \in {Head(s)} \cup Range(Tail(s))
    BY <1>1 DEF Range
  <2>1. CASE i = 1
    BY <1>1, <2>1
  <2>2. CASE i # 1
    <3>1. i - 1 \in 1 .. Len(s) - 1 /\ (i - 1) + 1 = i
      BY <1>1, <2>2
    <3>2. Tail(s)[i - 1] = s[i]
      BY <1>2, <3>1
    <3> QED BY <1>3, <3>1, <3>2 DEF Range
  <2> QED BY <2>1, <2>2
<1>5. {Head(s)} \cup Range(Tail(s)) \subseteq Range(s)
  <2>1. Head(s) \in Range(s)
    BY <1>1 DEF Range
  <2>2. ASSUME NEW i \in 1 .. Len(s) - 1
        PROVE  Tail(s)[i] \in Range(s)
    <3>1. Tail(s)[i] = s[i + 1] /\ i + 1 \in 1 .. Len(s)
      BY <1>1, <1>2, <2>2
    <3> QED BY <1>1, <3>1 DEF Range
  <2> QED BY <1>3, <2>1, <2>2 DEF Range
<1> QED BY <1>1, <1>2, <1>4, <1>5

(* One file of the listing, if it is still there.                          *)
LEMMA PruneTyped ==
  ASSUME TInv, NEW w \in Workers, PruneArchive(w)
  PROVE  /\ TInv'
         /\ FileNames' \subseteq FileNames
         /\ \A v \in Workers \ {w} : workers'[v] = workers[v]
         /\ \/ /\ Head(workers[w].todo) \in FileNames
               /\ workers'[w].step = "prune"
               /\ workers'[w].todo = Tail(workers[w].todo)
               /\ workers'[w].rank = workers[w].rank + 1
               /\ workers[w].rank >= RetentionCount => Head(workers[w].todo) \notin FileNames'
            \/ workers'[w].step = "failed"
<1> DEFINE task == workers[w]
           head == Head(task.todo)
           rest == Tail(task.todo)
           f    == Named(head)
<1>1. /\ workers \in [Workers -> Worker] /\ task \in Worker /\ task.step = "prune"
      /\ w \notin Downloads /\ archives \subseteq File
      /\ \A g, h \in archives : g.name = h.name => g = h
      /\ keyFile \in Exports \cup {NoKey, "empty"}
      /\ UNCHANGED <<keyFile, names, time, deaths>>
  BY DEF TInv, EvidenceTypeOK, PruneArchive, At, DownloadSteps
<1>2. rest \in Seq(Nat) /\ task.rank \in Nat
  <2>1. task.todo \in Seq(Nat) /\ task.todo # <<>> /\ task.rank \in Nat
    BY <1>1 DEF Worker, PruneArchive
  <2> QED BY <2>1, TodoIs
<1>3. CASE head \in FileNames
  <2>1. PICK rank \in Nat : rank = task.rank + 1
    BY <1>2
  <2> DEFINE next == [task EXCEPT !.todo = rest, !.rank = rank]
  <2>2. /\ Become(w, next)
        /\ archives' = IF Outlived(w, f) THEN archives \ {f} ELSE archives
    BY <1>3, <2>1 DEF PruneArchive
  <2> HIDE DEF rest, head, task, f
  <2>3. next \in Worker /\ next.step = "prune" /\ next.todo = rest /\ next.rank = rank
    BY <1>1, <1>2 DEF Worker
  <2> HIDE DEF next
  <2>4. FilesGoOn
    BY <1>1, <2>2 DEF FilesGoOn
  <2>5. FileNames' \subseteq FileNames
    BY <2>2 DEF FileNames
  <2>6. TInv'
    BY <1>1, <2>2, <2>3, <2>4, TaskOK DEF VerifiedOK
  <2>7. workers'[w] = next /\ \A v \in Workers \ {w} : workers'[v] = workers[v]
    BY <1>1, <2>2 DEF Become
  <2>8. workers[w].rank >= RetentionCount => head \notin FileNames'
    <3>1. f \in archives /\ f.name = head
      BY <1>3, NamedIs DEF f
    <3> QED BY <1>1, <2>2, <3>1 DEF Outlived, FileNames
  <2> QED BY <1>3, <2>1, <2>3, <2>5, <2>6, <2>7, <2>8 DEF head, rest, task
<1>4. CASE head \notin FileNames
  <2>1. Become(w, [NewWorker EXCEPT !.step = "failed"]) /\ UNCHANGED archives
    BY <1>4 DEF PruneArchive
  <2>2. TInv'
    BY <1>1, <2>1, FilesUnchanged, EndingTypedOK
  <2>3. workers'[w].step = "failed" /\ \A v \in Workers \ {w} : workers'[v] = workers[v]
    BY <1>1, <2>1, NewTaskOK DEF Become
  <2> QED BY <2>1, <2>2, <2>3 DEF FileNames
<1> QED BY <1>3, <1>4

(* Listing that fails, the end of an export and the answer to a download.  *)
LEMMA EndStepsTyped ==
  ASSUME TInv, NEW w \in Workers, ListingFails(w) \/ EndExport(w) \/ EndDownload(w)
  PROVE  TInv'
<1>1. FilesGoOn /\ UNCHANGED <<keyFile, names, time, deaths>>
  BY FilesUnchanged DEF ListingFails, EndExport, EndDownload
<1>2. CASE ListingFails(w)
  BY <1>1, <1>2, EndingTypedOK DEF ListingFails
<1>3. CASE EndExport(w)
  BY <1>1, <1>3, EndingTypedOK DEF EndExport
<1>4. CASE EndDownload(w)
  <2>1. NewWorker = [NewWorker EXCEPT !.step = "ready"]
    BY NewWorkerIs DEF NewWorker
  <2>2. Become(w, [NewWorker EXCEPT !.step = "ready"])
    BY <1>4, <2>1 DEF EndDownload
  <2> QED BY <1>1, <2>2, EndingTypedOK
<1> QED BY <1>2, <1>3, <1>4

LEMMA DownloadTyped ==
  ASSUME TInv, NEW w \in Workers, FindArchive(w) \/ VerifyArchive(w) \/ ReadArchive(w)
  PROVE  TInv'
<1>1. /\ workers \in [Workers -> Worker] /\ archives \subseteq File
      /\ \A g, h \in archives : g.name = h.name => g = h
      /\ keyFile \in Exports \cup {NoKey, "empty"}
      /\ UNCHANGED <<keyFile, archives, names, time, deaths>>
      /\ FilesGoOn
  BY FilesUnchanged DEF TInv, EvidenceTypeOK, FindArchive, VerifyArchive, ReadArchive
<1>2. ASSUME NEW n \in FileNames, Become(w, [workers[w] EXCEPT !.step = "verify", !.name = n])
      PROVE  TInv'
  <2> DEFINE task == [workers[w] EXCEPT !.step = "verify", !.name = n]
  <2>1. NameTaken(n)
    BY <1>2 DEF TInv, NamesOK, FileNames
  <2>2. task \in Worker /\ task.step = "verify" /\ task.name = n
    BY <1>1, <2>1 DEF Worker, NameTaken
  <2>3. Become(w, task)
    BY <1>2
  <2> HIDE DEF task
  <2> QED BY <1>1, <2>1, <2>2, <2>3, TaskOK DEF VerifiedOK, DownloadSteps
<1>3. CASE Become(w, [NewWorker EXCEPT !.step = "failed"])
  BY <1>1, <1>3, EndingTypedOK
<1>4. CASE VerifyArchive(w)
  <2> DEFINE ok   == /\ workers[w].name \in FileNames
                     /\ Verifiable(Named(workers[w].name), workers[w].key)
             next == IF ok THEN "read" ELSE "failed"
             task == [workers[w] EXCEPT !.step = next]
  <2>1. Become(w, task)
    BY <1>4 DEF VerifyArchive, GoOn, Become
  <2>2. next \in {"read", "failed"} /\ next \in WorkerSteps /\ (next = "read" => ok)
    BY DEF WorkerSteps
  <2> HIDE DEF next
  <2>3. task \in Worker /\ task.step = next /\ task.name = workers[w].name /\ task.key = workers[w].key
    BY <2>2, GoOnTyped
  <2>4. NameTaken(task.name)
    BY <1>4, <2>3 DEF TInv, NamesOK, VerifyArchive, At
  <2> HIDE DEF task
  <2>5. VerifiedOK(task)
    <3> SUFFICES ASSUME ok, NEW f \in archives, f.name = task.name
                 PROVE  f.whole /\ f.signed = task.key
      BY <2>2, <2>3 DEF VerifiedOK
    <3>1. Named(task.name) \in archives /\ Named(task.name).name = task.name
      BY <2>3, NamedIs
    <3>2. f = Named(task.name)
      BY <1>1, <3>1
    <3> QED BY <2>3, <3>2 DEF Verifiable
  <2> QED BY <1>1, <2>1, <2>2, <2>3, <2>4, <2>5, TaskOK DEF DownloadSteps
<1>5. CASE ReadArchive(w)
  <2>1. PICK next \in {"done", "failed"} : GoOn(w, next)
    BY <1>5 DEF ReadArchive
  <2> QED BY <1>1, <2>1, GoingOnOK DEF WorkerSteps, DownloadSteps
<1> QED BY <1>2, <1>3, <1>4, <1>5 DEF FindArchive

LEMMA DieTyped ==
  ASSUME TInv, Die
  PROVE  TInv' /\ FileNames' = FileNames
<1> DEFINE task(w) == IF At(w, "ready") \/ At(w, "done") THEN workers[w]
                      ELSE [NewWorker EXCEPT !.step = "failed"]
<1>1. /\ workers \in [Workers -> Worker]
      /\ workers' = [w \in Workers |-> task(w)]
      /\ UNCHANGED <<keyFile, archives, names, time>> /\ deaths' \in Nat
  BY DEF TInv, EvidenceTypeOK, Die
<1>2. \A w \in Workers : task(w) \in Worker /\ task(w).step \in {"ready", "done", "failed"}
  BY <1>1, NewTaskOK DEF At
<1> HIDE DEF task
<1>3. /\ workers' \in [Workers -> Worker]
      /\ \A w \in Workers : workers'[w].step \in {"ready", "done", "failed"}
  BY <1>1, <1>2
<1>4. EvidenceTypeOK' /\ FileNames' = FileNames
  BY <1>1, <1>3 DEF TInv, EvidenceTypeOK, FileNames
<1>5. NamesOK'
  <2>1. \A f \in archives' : NameTaken(f.name)'
    BY <1>1, <1>3 DEF TInv, NamesOK, NameTaken
  <2> QED BY <1>3, <2>1 DEF NamesOK
<1>6. \A w \in Workers : VerifiedOK(workers[w])'
  BY <1>3 DEF VerifiedOK
<1> QED BY <1>3, <1>4, <1>5, <1>6 DEF TInv, Workers, DownloadSteps

LEMMA NextTyped ==
  ASSUME EInv, TInv, [EvidenceNext]_evidenceVars
  PROVE  TInv'
<1>1. ASSUME NEW w \in Workers,
             \/ FindKey(w) \/ CreateKey(w) \/ WriteKey(w) \/ LoadKey(w)
             \/ StampArchive(w) \/ OpenArchive(w) \/ WriteArchive(w) \/ TouchArchive(w)
             \/ ListArchives(w) \/ ListingFails(w) \/ PruneArchive(w) \/ EndExport(w)
             \/ FindArchive(w) \/ VerifyArchive(w) \/ ReadArchive(w) \/ EndDownload(w)
      PROVE  TInv'
  BY <1>1, KeyStepsTyped, StampTyped, OpenTyped, WriteTyped, ListTyped, PruneTyped,
     EndStepsTyped, DownloadTyped
<1>2. CASE EvidenceTick \/ UNCHANGED evidenceVars
  <2>1. UNCHANGED <<keyFile, archives, names, workers, deaths>> /\ time' \in Nat
    BY <1>2 DEF EvidenceTick, evidenceVars, TInv, EvidenceTypeOK
  <2> QED BY <2>1 DEF TInv, EvidenceTypeOK, NamesOK, NameTaken, VerifiedOK, FileNames
<1> QED BY <1>1, <1>2, DieTyped DEF EvidenceNext

LEMMA TypesInvariant == EvidenceSpec => []TInv
<1>1. EvidenceInit => TInv
  <2> SUFFICES ASSUME EvidenceInit PROVE TInv
    OBVIOUS
  <2>1. NewWorker \in Worker /\ NewWorker.step = "ready"
    <3>1. NewWorker = [NewWorker EXCEPT !.step = "ready"]
      BY NewWorkerIs DEF NewWorker
    <3> QED BY <3>1, NewTaskOK
  <2>2. /\ workers \in [Workers -> Worker] /\ \A w \in Workers : workers[w].step = "ready"
        /\ archives = {}
    BY <2>1 DEF EvidenceInit
  <2>3. EvidenceTypeOK
    BY <2>2 DEF EvidenceInit, EvidenceTypeOK
  <2>4. IsFiniteSet(FileNames)
    <3>1. FileNames = {}
      BY <2>2 DEF FileNames
    <3> QED BY <3>1, FS_EmptySet
  <2> QED BY <2>2, <2>3, <2>4 DEF TInv, NamesOK, VerifiedOK, Workers, DownloadSteps
<1>2. EInv /\ TInv /\ [EvidenceNext]_evidenceVars => TInv'
  BY NextTyped
<1> QED BY <1>1, <1>2, EvidenceInvariant, PTL DEF EvidenceSpec

(* The key file, the archives and what each request holds have the shape   *)
(* the code gives them, and no two archives ever have one name, whatever   *)
(* is exported, pruned and read at once and wherever the process dies.     *)
THEOREM EvidenceTypeCorrect == EvidenceSpec => []EvidenceTypeOK
<1>1. TInv => EvidenceTypeOK
  BY DEF TInv
<1> QED BY <1>1, TypesInvariant, PTL

(* A step of one request moves no other. *)
LEMMA OthersStay ==
  ASSUME TInv, NEW v \in Workers,
         \/ FindKey(v) \/ CreateKey(v) \/ WriteKey(v) \/ LoadKey(v)
         \/ StampArchive(v) \/ OpenArchive(v) \/ WriteArchive(v) \/ TouchArchive(v)
         \/ ListArchives(v) \/ ListingFails(v) \/ PruneArchive(v) \/ EndExport(v)
         \/ FindArchive(v) \/ VerifyArchive(v) \/ ReadArchive(v) \/ EndDownload(v)
  PROVE  \A u \in Workers \ {v} : workers'[u] = workers[u]
<1>1. \E task : Become(v, task)
  BY DEF FindKey, CreateKey, WriteKey, LoadKey, StampArchive, OpenArchive, WriteArchive,
         TouchArchive, ListArchives, ListingFails, PruneArchive, EndExport, FindArchive,
         VerifyArchive, ReadArchive, EndDownload, GoOn, Become
<1> QED BY <1>1 DEF Become, TInv, EvidenceTypeOK

(* What a download hands out is a file that is whole and signed with the   *)
(* key it was verified with, although it is read again afterwards: a file  *)
(* that is still there under its name is the one that was verified.        *)
THEOREM HandedOutIsVerified == EvidenceSpec => HandedOutVerified
<1> DEFINE Verified ==
      \A w \in Downloads :
        At(w, "read") /\ workers'[w].step = "done" =>
          \E f \in archives : /\ f.name = workers[w].name
                              /\ f.whole /\ f.signed = workers[w].key
<1>1. TInv /\ [EvidenceNext]_evidenceVars => [Verified]_evidenceVars
  <2> SUFFICES ASSUME TInv, EvidenceNext, NEW w \in Downloads,
                      workers[w].step = "read", workers'[w].step = "done"
               PROVE  \E f \in archives : /\ f.name = workers[w].name
                                          /\ f.whole /\ f.signed = workers[w].key
    BY DEF At
  <2>1. w \in Workers
    BY DEF Workers
  <2>2. ~Die
    <3>1. [NewWorker EXCEPT !.step = "failed"].step = "failed"
      BY NewTaskOK
    <3>2. Die => workers'[w] = [NewWorker EXCEPT !.step = "failed"]
      BY <2>1 DEF Die, At
    <3> QED BY <3>1, <3>2
  <2>3. ReadArchive(w)
    <3>1. ASSUME NEW v \in Workers,
                 \/ FindKey(v) \/ CreateKey(v) \/ WriteKey(v) \/ LoadKey(v)
                 \/ StampArchive(v) \/ OpenArchive(v) \/ WriteArchive(v) \/ TouchArchive(v)
                 \/ ListArchives(v) \/ ListingFails(v) \/ PruneArchive(v) \/ EndExport(v)
                 \/ FindArchive(v) \/ VerifyArchive(v) \/ ReadArchive(v) \/ EndDownload(v)
          PROVE  ReadArchive(w)
      <4>1. v = w
        BY <2>1, <3>1, OthersStay
      <4> QED
        BY <3>1, <4>1
           DEF At, FindKey, CreateKey, WriteKey, LoadKey, StampArchive, OpenArchive,
               WriteArchive, TouchArchive, ListArchives, ListingFails, PruneArchive,
               EndExport, FindArchive, VerifyArchive, EndDownload
    <3>2. ~EvidenceTick
      BY DEF EvidenceTick
    <3> QED BY <2>2, <3>1, <3>2 DEF EvidenceNext
  <2>4. workers[w].name \in FileNames
    BY <2>1, <2>3, GoOnTyped DEF ReadArchive, GoOn, WorkerSteps, TInv, EvidenceTypeOK
  <2> QED BY <2>1, <2>4 DEF TInv, VerifiedOK, FileNames
<1> QED BY <1>1, TypesInvariant, PTL DEF EvidenceSpec, HandedOutVerified

(***************************************************************************)
(* Retention.                                                              *)
(*                                                                         *)
(* Exports list the archives after they have opened their own, so that the *)
(* archives that no listing so far has are those of exports that are still *)
(* to list.  Of the others, either no more are left than are to be kept,   *)
(* or the last export that listed them is going through its listing and    *)
(* has, of the files it has come to, left no more than that.               *)
(***************************************************************************)

Unlisted ==
  {workers[v].name : v \in {u \in Exports : workers[u].step \in {"write", "touch", "list"}}}

Left(w) == FileNames \ (Unlisted \cup Range(workers[w].todo))

PruneAhead(w) ==
  /\ workers[w].step = "prune"
  /\ Cardinality(Left(w)) <= workers[w].rank
  /\ Cardinality(Left(w)) <= RetentionCount

Pruned ==
  \/ Cardinality(FileNames \ Unlisted) <= RetentionCount
  \/ \E w \in Exports : PruneAhead(w)

CutShort == deaths # 0 \/ \E w \in Exports : workers[w].step = "failed"

RetentionInv == CutShort \/ Pruned

(* The prunes that are ahead go on where they are. *)
Going ==
  \A w \in Exports :
    PruneAhead(w) => /\ workers'[w].step = "prune"
                     /\ workers'[w].todo = workers[w].todo
                     /\ workers'[w].rank = workers[w].rank

LEMMA FewerAreFewer ==
  ASSUME NEW S, IsFiniteSet(S), NEW T, T \subseteq S
  PROVE  /\ IsFiniteSet(T) /\ Cardinality(T) <= Cardinality(S)
         /\ Cardinality(S) \in Nat /\ Cardinality(T) \in Nat
BY FS_Subset, FS_CardinalityType

LEMMA OneMore ==
  ASSUME NEW S, IsFiniteSet(S), NEW x
  PROVE  IsFiniteSet(S \cup {x}) /\ Cardinality(S \cup {x}) <= Cardinality(S) + 1
<1>1. /\ IsFiniteSet(S \cup {x}) /\ Cardinality(S) \in Nat
      /\ \/ Cardinality(S \cup {x}) = Cardinality(S)
         \/ Cardinality(S \cup {x}) = Cardinality(S) + 1
  BY FS_AddElement, FS_CardinalityType
<1> QED BY <1>1

(* A step after which there are no more listed files than before. *)
LEMMA PrunedStays ==
  ASSUME TInv, Pruned, FileNames' \ Unlisted' \subseteq FileNames \ Unlisted,
         Going
  PROVE  Pruned'
<1>1. IsFiniteSet(FileNames)
  BY DEF TInv
<1>2. CASE Cardinality(FileNames \ Unlisted) <= RetentionCount
  <2>1. IsFiniteSet(FileNames \ Unlisted)
    BY <1>1, FewerAreFewer
  <2>2. /\ Cardinality(FileNames' \ Unlisted') <= Cardinality(FileNames \ Unlisted)
        /\ Cardinality(FileNames' \ Unlisted') \in Nat /\ Cardinality(FileNames \ Unlisted) \in Nat
    BY <2>1, FewerAreFewer
  <2> QED BY <1>2, <2>2, EvidenceAssumption DEF Pruned
<1>3. ASSUME NEW w \in Exports, PruneAhead(w)
      PROVE  PruneAhead(w)'
  <2>1. Left(w)' \subseteq Left(w) /\ IsFiniteSet(Left(w))
    BY <1>1, <1>3, FewerAreFewer DEF Left, Going, PruneAhead
  <2>2. /\ Cardinality(Left(w)') <= Cardinality(Left(w))
        /\ Cardinality(Left(w)') \in Nat /\ Cardinality(Left(w)) \in Nat
    BY <2>1, FewerAreFewer
  <2>3. workers[w].rank \in Nat
    BY DEF TInv, EvidenceTypeOK, Worker, Workers
  <2> QED BY <1>3, <2>2, <2>3, EvidenceAssumption DEF PruneAhead, Going
<1> QED BY <1>2, <1>3 DEF Pruned

LEMMA ListPruned ==
  ASSUME TInv, NEW w \in Exports, ListArchives(w)
  PROVE  Pruned'
<1>1. /\ FileNames' = FileNames
      /\ workers'[w].step = "prune" /\ Range(workers'[w].todo) = FileNames
      /\ workers'[w].rank \in Nat
  <2>1. TInv'
    BY ListTyped DEF Workers
  <2> QED BY <2>1, ListTyped DEF Workers, TInv, EvidenceTypeOK, Worker
<1>2. Left(w)' = {}
  BY <1>1 DEF Left
<1>3. Cardinality(Left(w)') = 0
  BY <1>2, FS_EmptySet
<1> QED BY <1>1, <1>3, EvidenceAssumption DEF PruneAhead, Pruned

LEMMA PrunePruned ==
  ASSUME TInv, Pruned, NEW w \in Exports, PruneArchive(w)
  PROVE  RetentionInv'
<1>1. /\ FileNames' \subseteq FileNames /\ workers[w].step = "prune"
      /\ \A v \in Exports \ {w} : workers'[v] = workers[v]
  BY PruneTyped DEF Workers, PruneArchive, At
<1>2. CASE workers'[w].step = "failed"
  BY <1>2 DEF RetentionInv, CutShort
<1>3. CASE workers'[w].step # "failed"
  <2> DEFINE head == Head(workers[w].todo)
             rank == workers[w].rank
  <2>1. /\ workers'[w].step = "prune" /\ workers'[w].todo = Tail(workers[w].todo)
        /\ workers'[w].rank = rank + 1
        /\ rank >= RetentionCount => head \notin FileNames'
    BY <1>3, PruneTyped DEF Workers
  <2>2. Unlisted' = Unlisted
    BY <1>1, <2>1 DEF Unlisted
  <2>3. CASE PruneAhead(w)
    <3>1. /\ rank \in Nat /\ Range(workers[w].todo) = {head} \cup Range(workers'[w].todo)
      <4>1. workers[w].todo \in Seq(Nat) /\ workers[w].todo # <<>> /\ rank \in Nat
        BY DEF TInv, EvidenceTypeOK, Worker, Workers, PruneArchive
      <4> QED BY <2>1, <4>1, TodoIs
    <3>2. IsFiniteSet(Left(w))
      BY FewerAreFewer DEF TInv, Left
    <3>3. Cardinality(Left(w)) \in Nat
      BY <3>2, FS_CardinalityType
    <3>4. CASE head \notin FileNames'
      <4>1. Left(w)' \subseteq Left(w)
        BY <1>1, <2>2, <3>1, <3>4 DEF Left
      <4>2. Cardinality(Left(w)') <= Cardinality(Left(w)) /\ Cardinality(Left(w)') \in Nat
        BY <3>2, <4>1, FewerAreFewer
      <4> QED BY <2>1, <2>3, <3>1, <3>3, <4>2, EvidenceAssumption
              DEF PruneAhead, RetentionInv, Pruned
    <3>5. CASE head \in FileNames'
      <4>1. rank < RetentionCount
        BY <2>1, <3>1, <3>5, EvidenceAssumption
      <4>2. Left(w)' \subseteq Left(w) \cup {head}
        BY <1>1, <2>2, <3>1 DEF Left
      <4>3. /\ IsFiniteSet(Left(w) \cup {head})
            /\ Cardinality(Left(w) \cup {head}) <= Cardinality(Left(w)) + 1
        BY <3>2, OneMore
      <4>4. /\ Cardinality(Left(w)') <= Cardinality(Left(w) \cup {head})
            /\ Cardinality(Left(w)') \in Nat /\ Cardinality(Left(w) \cup {head}) \in Nat
        BY <4>2, <4>3, FewerAreFewer
      <4>5. Cardinality(Left(w)') <= rank + 1
        BY <2>3, <3>1, <3>3, <4>3, <4>4 DEF PruneAhead
      <4> QED BY <2>1, <3>1, <4>1, <4>4, <4>5, EvidenceAssumption
              DEF PruneAhead, RetentionInv, Pruned
    <3> QED BY <3>4, <3>5
  <2>4. CASE ~PruneAhead(w)
    <3>1. FileNames' \ Unlisted' \subseteq FileNames \ Unlisted
      BY <1>1, <2>2
    <3>2. Going
      BY <1>1, <2>4 DEF Going, PruneAhead
    <3> QED BY <3>1, <3>2, PrunedStays DEF RetentionInv
  <2> QED BY <2>3, <2>4
<1> QED BY <1>2, <1>3

LEMMA EndPruned ==
  ASSUME TInv, Pruned, NEW w \in Exports, EndExport(w)
  PROVE  Pruned'
<1>1. /\ workers[w].step = "prune" /\ workers[w].todo = <<>>
      /\ FileNames' = FileNames
      /\ \A v \in Exports \ {w} : workers'[v] = workers[v]
  BY OthersStay DEF EndExport, At, FileNames, Workers
<1>2. workers'[w].step = "done"
  BY NewTaskOK DEF EndExport, Become, TInv, EvidenceTypeOK, Workers
<1>3. Unlisted' = Unlisted
  BY <1>1, <1>2 DEF Unlisted
<1>4. CASE PruneAhead(w)
  <2>1. Range(workers[w].todo) = {}
    BY <1>1 DEF Range
  <2>2. Left(w) = FileNames \ Unlisted
    BY <2>1 DEF Left
  <2> QED BY <1>1, <1>3, <1>4, <2>2 DEF PruneAhead, Pruned
<1>5. CASE ~PruneAhead(w)
  <2>1. Going
    BY <1>1, <1>5 DEF Going, PruneAhead
  <2> QED BY <1>1, <1>3, <2>1, PrunedStays
<1> QED BY <1>4, <1>5

Writing == {"write", "touch", "list"}

(* A step of a request that lists nothing and has nothing to prune.        *)
LEMMA OtherStepsPruned ==
  ASSUME TInv, Pruned, NEW w \in Workers, FileNames' \subseteq FileNames,
         \A v \in Workers \ {w} : workers'[v] = workers[v],
         w \in Exports =>
           /\ workers[w].step # "prune"
           /\ workers[w].step \in Writing =>
                workers'[w].step \in Writing /\ workers'[w].name = workers[w].name
  PROVE  Pruned'
<1>1. \A v \in Exports :
        workers[v].step \in Writing =>
          workers'[v].step \in Writing /\ workers'[v].name = workers[v].name
  BY DEF Workers
<1>2. Unlisted \subseteq Unlisted'
  BY <1>1 DEF Unlisted, Writing
<1>3. FileNames' \ Unlisted' \subseteq FileNames \ Unlisted
  BY <1>2
<1>4. \A v \in Exports : PruneAhead(v) => v # w
  BY DEF PruneAhead
<1>5. \A v \in Exports : PruneAhead(v) => workers'[v] = workers[v] /\ workers[v].step = "prune"
  BY <1>4 DEF PruneAhead, Workers
<1>6. Going
  BY <1>5 DEF Going
<1> QED BY <1>3, <1>6, PrunedStays

LEMMA OpenPruned ==
  ASSUME EInv, TInv, Pruned, NEW w \in Workers, OpenArchive(w)
  PROVE  Pruned'
<1>1. /\ w \in Exports /\ workers[w].step = "open"
      /\ FileNames' = FileNames \cup {workers[w].name}
      /\ \A v \in Workers \ {w} : workers'[v] = workers[v]
  BY OpenTyped, OthersStay DEF TInv, DownloadSteps, OpenArchive, At, Workers
<1>2. workers'[w].step = "write" /\ workers'[w].name = workers[w].name
  BY GoOnTyped DEF OpenArchive, GoOn, WorkerSteps, TInv, EvidenceTypeOK
<1>3. \A v \in Exports :
        workers[v].step \in Writing =>
          workers'[v].step \in Writing /\ workers'[v].name = workers[v].name
  BY <1>1 DEF Workers, Writing
<1>4. Unlisted \cup {workers[w].name} \subseteq Unlisted'
  BY <1>1, <1>2, <1>3 DEF Unlisted, Writing
<1>5. FileNames' \ Unlisted' \subseteq FileNames \ Unlisted
  BY <1>1, <1>4
<1>6. \A v \in Exports : PruneAhead(v) => workers'[v] = workers[v] /\ workers[v].step = "prune"
  BY <1>1 DEF PruneAhead, Workers
<1>7. Going
  BY <1>6 DEF Going
<1> QED BY <1>5, <1>7, PrunedStays

LEMMA WritePruned ==
  ASSUME TInv, Pruned, NEW w \in Workers, WriteArchive(w) \/ TouchArchive(w)
  PROVE  RetentionInv'
<1>1. /\ w \in Exports /\ workers[w].step \in Writing
      /\ FileNames' = FileNames
      /\ \A v \in Workers \ {w} : workers'[v] = workers[v]
  BY WriteTyped, OthersStay
     DEF TInv, DownloadSteps, WriteArchive, TouchArchive, At, Workers, Writing
<1>2. PICK step \in {"touch", "list", "failed"} : GoOn(w, step)
  BY DEF WriteArchive, TouchArchive
<1>3. workers'[w].step = step /\ workers'[w].name = workers[w].name
  <2> DEFINE task == [workers[w] EXCEPT !.step = step]
  <2>1. workers'[w] = task
    BY <1>2 DEF GoOn, TInv, EvidenceTypeOK
  <2>2. step \in WorkerSteps
    BY DEF WorkerSteps
  <2>3. task.step = step /\ task.name = workers[w].name
    BY <2>2, GoOnTyped
  <2> QED BY <2>1, <2>3
<1>4. CASE step = "failed"
  BY <1>1, <1>3, <1>4 DEF RetentionInv, CutShort
<1>5. CASE step # "failed"
  BY <1>1, <1>3, <1>5, OtherStepsPruned DEF RetentionInv, Writing
<1> QED BY <1>4, <1>5

LEMMA RequestPruned ==
  ASSUME EInv, TInv, Pruned, NEW w \in Workers,
         \/ FindKey(w) \/ CreateKey(w) \/ WriteKey(w) \/ LoadKey(w)
         \/ StampArchive(w) \/ OpenArchive(w) \/ WriteArchive(w) \/ TouchArchive(w)
         \/ ListArchives(w) \/ ListingFails(w) \/ PruneArchive(w) \/ EndExport(w)
         \/ FindArchive(w) \/ VerifyArchive(w) \/ ReadArchive(w) \/ EndDownload(w)
  PROVE  RetentionInv'
<1>1. \A v \in Workers \ {w} : workers'[v] = workers[v]
  BY OthersStay
<1>2. CASE \/ FindKey(w) \/ CreateKey(w) \/ WriteKey(w) \/ LoadKey(w) \/ StampArchive(w)
           \/ FindArchive(w) \/ VerifyArchive(w) \/ ReadArchive(w) \/ EndDownload(w)
  <2>1. w \in Exports => workers[w].step \notin Writing \cup {"prune"}
    BY <1>2, EvidenceAssumption
       DEF FindKey, CreateKey, WriteKey, LoadKey, StampArchive, FindArchive, VerifyArchive,
           ReadArchive, EndDownload, At, Writing
  <2>2. UNCHANGED archives
    BY <1>2 DEF FindKey, CreateKey, WriteKey, LoadKey, StampArchive, FindArchive,
                VerifyArchive, ReadArchive, EndDownload
  <2>3. FileNames' \subseteq FileNames
    BY <2>2 DEF FileNames
  <2> QED BY <1>1, <2>1, <2>3, OtherStepsPruned DEF RetentionInv
<1>3. CASE OpenArchive(w)
  BY <1>3, OpenPruned DEF RetentionInv
<1>4. CASE WriteArchive(w) \/ TouchArchive(w)
  BY <1>4, WritePruned
<1>5. CASE ListArchives(w)
  BY <1>5, ListPruned DEF RetentionInv, ListArchives
<1>6. CASE ListingFails(w)
  <2>1. workers'[w].step = "failed" /\ FileNames' = FileNames
    BY <1>6, NewTaskOK DEF ListingFails, Become, TInv, EvidenceTypeOK, FileNames
  <2>2. CASE w \in Exports
    BY <2>1, <2>2 DEF RetentionInv, CutShort
  <2>3. CASE w \notin Exports
    BY <1>1, <2>1, <2>3, OtherStepsPruned DEF RetentionInv
  <2> QED BY <2>2, <2>3
<1>7. CASE PruneArchive(w) \/ EndExport(w)
  <2>1. w \in Exports
    BY <1>7 DEF PruneArchive, EndExport, At, TInv, DownloadSteps, Workers
  <2> QED BY <1>7, <2>1, PrunePruned, EndPruned DEF RetentionInv
<1> QED BY <1>2, <1>3, <1>4, <1>5, <1>6, <1>7

(* A request that has failed stays failed, unless it is a download.        *)
LEMMA FailedStays ==
  ASSUME EInv, TInv, CutShort, [EvidenceNext]_evidenceVars
  PROVE  CutShort'
<1>1. ASSUME NEW w \in Workers,
         \/ FindKey(w) \/ CreateKey(w) \/ WriteKey(w) \/ LoadKey(w)
         \/ StampArchive(w) \/ OpenArchive(w) \/ WriteArchive(w) \/ TouchArchive(w)
         \/ ListArchives(w) \/ ListingFails(w) \/ PruneArchive(w) \/ EndExport(w)
         \/ FindArchive(w) \/ VerifyArchive(w) \/ ReadArchive(w) \/ EndDownload(w)
      PROVE  CutShort'
  <2>1. \A v \in Workers \ {w} : workers'[v] = workers[v]
    BY <1>1, OthersStay
  <2>2. w \in Exports => workers[w].step # "failed"
    BY <1>1, EvidenceAssumption
       DEF FindKey, CreateKey, WriteKey, LoadKey, StampArchive, OpenArchive, WriteArchive,
           TouchArchive, ListArchives, ListingFails, PruneArchive, EndExport, FindArchive,
           VerifyArchive, ReadArchive, EndDownload, At
  <2>3. deaths' = deaths
    BY <1>1 DEF FindKey, CreateKey, WriteKey, LoadKey, StampArchive, OpenArchive,
                WriteArchive, TouchArchive, ListArchives, ListingFails, PruneArchive,
                EndExport, FindArchive, VerifyArchive, ReadArchive, EndDownload
  <2> QED BY <2>1, <2>2, <2>3 DEF CutShort, Workers
<1>2. CASE EvidenceTick \/ UNCHANGED evidenceVars
  BY <1>2 DEF EvidenceTick, evidenceVars, CutShort
<1>3. CASE Die
  BY <1>3 DEF Die, CutShort, TInv, EvidenceTypeOK
<1> QED BY <1>1, <1>2, <1>3 DEF EvidenceNext

LEMMA RetentionKept ==
  ASSUME EInv, TInv, RetentionInv, [EvidenceNext]_evidenceVars
  PROVE  RetentionInv'
<1>1. CASE CutShort
  BY <1>1, FailedStays DEF RetentionInv
<1>2. CASE Pruned
  <2>1. CASE EvidenceTick \/ UNCHANGED evidenceVars
    <3>1. UNCHANGED <<workers, archives>>
      BY <2>1 DEF EvidenceTick, evidenceVars
    <3> QED BY <1>2, <3>1
            DEF RetentionInv, Pruned, FileNames, Unlisted, PruneAhead, Left
  <2>2. CASE Die
    BY <2>2 DEF Die, RetentionInv, CutShort, TInv, EvidenceTypeOK
  <2> QED BY <1>2, <2>1, <2>2, RequestPruned DEF EvidenceNext
<1> QED BY <1>1, <1>2 DEF RetentionInv

(* As many archives as there are names of archives.                        *)
LEMMA OneArchivePerName ==
  ASSUME TInv
  PROVE  IsFiniteSet(archives) /\ Cardinality(archives) <= Cardinality(FileNames)
<1> DEFINE NameOf == [f \in archives |-> f.name]
<1>1. NameOf \in [archives -> FileNames]
  BY DEF FileNames
<1>2. \A f, g \in archives : NameOf[f] = NameOf[g] => f = g
  BY DEF TInv, EvidenceTypeOK
<1>3. NameOf \in Injection(archives, FileNames)
  BY <1>1, <1>2 DEF Injection, IsInjective
<1> HIDE DEF NameOf
<1> QED BY <1>3, FS_Injection DEF TInv

(* Once no export is under way, and if none was cut short, no more         *)
(* archives are there than are to be retained, although every prune went   *)
(* through a listing that other exports were making stale.                 *)
THEOREM RetentionStaysBounded == EvidenceSpec => []RetentionBounded
<1>1. EvidenceInit => RetentionInv
  <2> SUFFICES ASSUME EvidenceInit PROVE RetentionInv
    OBVIOUS
  <2>1. FileNames \ Unlisted = {}
    BY DEF EvidenceInit, FileNames
  <2>2. Cardinality(FileNames \ Unlisted) = 0
    BY <2>1, FS_EmptySet
  <2> QED BY <2>2, EvidenceAssumption DEF RetentionInv, Pruned
<1>2. TInv /\ RetentionInv => RetentionBounded
  <2> SUFFICES ASSUME TInv, RetentionInv, deaths = 0,
                      \A w \in Exports : workers[w].step \in {"ready", "done"}
               PROVE  Cardinality(archives) <= RetentionCount
    BY DEF RetentionBounded
  <2>1. Pruned /\ Unlisted = {} /\ \A w \in Exports : ~PruneAhead(w)
    BY DEF RetentionInv, CutShort, Unlisted, PruneAhead
  <2>2. FileNames \ Unlisted = FileNames
    BY <2>1
  <2>3. Cardinality(FileNames) <= RetentionCount
    BY <2>1, <2>2 DEF Pruned
  <2>4. /\ Cardinality(archives) <= Cardinality(FileNames)
        /\ Cardinality(archives) \in Nat /\ Cardinality(FileNames) \in Nat
    BY OneArchivePerName, FS_CardinalityType DEF TInv
  <2> QED BY <2>3, <2>4, EvidenceAssumption
<1>3. EInv /\ TInv /\ RetentionInv /\ [EvidenceNext]_evidenceVars => RetentionInv'
  BY RetentionKept
<1> QED BY <1>1, <1>2, <1>3, EvidenceInvariant, TypesInvariant, PTL DEF EvidenceSpec

=============================================================================
