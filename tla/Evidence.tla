------------------------------ MODULE Evidence ------------------------------
(***************************************************************************)
(* Signed evidence archives of one exercise (app/services/evidence.py and  *)
(* the two handlers of app/main.py that export an archive and read a       *)
(* retained one).  Both handlers run in worker threads: any number of them *)
(* work on the signing key file and on the archive directory at once, one  *)
(* file system call at a time, and the process may die between two calls.  *)
(* The calls that list the directory count as one.                         *)
(*                                                                         *)
(* An archive is its name, the key its manifest is signed with, whether    *)
(* its bytes are all there, and its modification time.  Names grow with    *)
(* the time stamp they begin with.  What an archive holds is left out.     *)
(***************************************************************************)
EXTENDS Integers, FiniteSets, Sequences

CONSTANTS
  Exports,         \* requests that export an archive, each once
  Downloads,       \* requests that read a retained archive, again and again
  RetentionCount,  \* evidence_retention_count
  RetentionAge,    \* evidence_retention_days
  MaxEvidenceTime, \* bound: the wall clock
  MaxDeaths,       \* bound: the process dies so often
  NoKey, NoName    \* "no key file", "no archive"

ASSUME EvidenceAssumption ==
  /\ RetentionCount \in Nat \ {0} /\ RetentionAge \in Nat \ {0}
  /\ MaxEvidenceTime \in Nat /\ MaxDeaths \in Nat
  /\ Exports \cap Downloads = {}
  /\ NoKey # "empty" /\ Exports \cap {NoKey, "empty"} = {}

VARIABLES
  keyFile,   \* the signing key file: missing, empty, or the key of the export that made it
  archives,  \* the archive directory: a set of files
  names,     \* archive names given so far
  time,      \* the wall clock
  workers,   \* where each request is
  deaths     \* how often the process has died

evidenceVars == <<keyFile, archives, names, time, workers, deaths>>

Workers == Exports \cup Downloads

File == [name : Nat, signed : Exports, whole : BOOLEAN, mtime : Nat]

(* step: the next call; key: the key in memory; name and created: of the   *)
(* archive being written or read; todo: the rest of the listing a prune is *)
(* going through; rank: how many files of it came before.                  *)
Worker ==
  [step : {"ready", "create", "write key", "load", "stamp", "open", "write", "touch",
           "list", "prune", "verify", "read", "done", "failed"},
   key : Exports \cup {NoKey}, name : Nat \cup {NoName}, created : Nat,
   todo : Seq(Nat), rank : Nat]

NewWorker ==
  [step |-> "ready", key |-> NoKey, name |-> NoName, created |-> 0,
   todo |-> <<>>, rank |-> 0]

(* Files and requests have the shape the code gives them, and no two files *)
(* have one name.                                                          *)
EvidenceTypeOK ==
  /\ keyFile \in Exports \cup {NoKey, "empty"}
  /\ archives \subseteq File
  /\ \A f, g \in archives : f.name = g.name => f = g
  /\ workers \in [Workers -> Worker]
  /\ names \in Nat /\ time \in Nat /\ deaths \in Nat

FileNames == {f.name : f \in archives}
Named(n)  == CHOOSE f \in archives : f.name = n

(* Is the archive m newer than n, by modification time and name? *)
Newer(m, n) ==
  \/ Named(m).mtime > Named(n).mtime
  \/ Named(m).mtime = Named(n).mtime /\ m > n

(* _known_archives: the names, newest first *)
KnownArchives ==
  LET places == 1 .. Cardinality(FileNames)
  IN  CHOOSE listing \in [places -> FileNames] :
        \A i, j \in places : i < j => Newer(listing[i], listing[j])

EvidenceInit ==
  /\ keyFile = NoKey /\ archives = {} /\ names = 0 /\ time = 0 /\ deaths = 0
  /\ workers = [w \in Workers |-> NewWorker]

At(w, step)     == workers[w].step = step
Become(w, task) == workers' = [workers EXCEPT ![w] = task]
GoOn(w, step)   == workers' = [workers EXCEPT ![w].step = step]

(* The file a request is writing becomes g. *)
Replace(w, g) == archives' = (archives \ {Named(workers[w].name)}) \cup {g}

(***************************************************************************)
(* The signing key: load_or_create_signing_key, load_signing_key.          *)
(***************************************************************************)

FindKey(w) ==
  /\ w \in Exports /\ At(w, "ready")
  /\ GoOn(w, IF keyFile = NoKey THEN "create" ELSE "load")
  /\ UNCHANGED <<keyFile, archives, names, time, deaths>>

(* Mutant: the file is opened although another request has made it. *)
CreateKeyOver(w) ==
  /\ At(w, "create")
  /\ keyFile' = "empty" /\ GoOn(w, "write key")
  /\ UNCHANGED <<archives, names, time, deaths>>

(* The key file is made, empty, unless another request has made it. *)
CreateKey(w) ==
  /\ At(w, "create")
  /\ IF keyFile = NoKey THEN keyFile' = "empty" /\ GoOn(w, "write key")
     ELSE GoOn(w, "load") /\ UNCHANGED keyFile
  /\ UNCHANGED <<archives, names, time, deaths>>

WriteKey(w) ==
  /\ At(w, "write key")
  /\ keyFile' = w
  /\ Become(w, [workers[w] EXCEPT !.step = "stamp", !.key = w])
  /\ UNCHANGED <<archives, names, time, deaths>>

(* A file without a whole key is refused. *)
LoadKey(w) ==
  /\ \/ At(w, "load")
     \/ w \in Downloads /\ At(w, "ready")
  /\ IF keyFile \in Exports
     THEN Become(w, [workers[w] EXCEPT !.step = IF w \in Exports THEN "stamp" ELSE "list",
                                       !.key = keyFile])
     ELSE Become(w, [NewWorker EXCEPT !.step = "failed"])
  /\ UNCHANGED <<keyFile, archives, names, time, deaths>>

(***************************************************************************)
(* Saving an archive: save_evidence_archive.                               *)
(***************************************************************************)

(* Mutant: the name is made of the time alone. *)
StampArchiveByTime(w) ==
  /\ At(w, "stamp")
  /\ names' = time + 1
  /\ Become(w, [workers[w] EXCEPT !.step = "open", !.name = names', !.created = time])
  /\ UNCHANGED <<keyFile, archives, time, deaths>>

(* The time of creation is taken, and the name made of it ... *)
StampArchive(w) ==
  /\ At(w, "stamp")
  /\ names' = names + 1
  /\ Become(w, [workers[w] EXCEPT !.step = "open", !.name = names', !.created = time])
  /\ UNCHANGED <<keyFile, archives, time, deaths>>

(* ... a new file opened ... *)
OpenArchive(w) ==
  /\ At(w, "open")
  /\ archives' = archives \cup
       {[name |-> workers[w].name, signed |-> workers[w].key, whole |-> FALSE,
         mtime |-> time]}
  /\ GoOn(w, "write")
  /\ UNCHANGED <<keyFile, names, time, deaths>>

(* ... its bytes written: another request may have removed it meanwhile ... *)
WriteArchive(w) ==
  /\ At(w, "write")
  /\ IF workers[w].name \in FileNames
     THEN Replace(w, [Named(workers[w].name) EXCEPT !.whole = TRUE, !.mtime = time])
     ELSE UNCHANGED archives
  /\ GoOn(w, "touch")
  /\ UNCHANGED <<keyFile, names, time, deaths>>

(* ... and its modification time set back to the time of creation. *)
TouchArchive(w) ==
  /\ At(w, "touch")
  /\ IF workers[w].name \in FileNames
     THEN /\ Replace(w, [Named(workers[w].name) EXCEPT !.mtime = workers[w].created])
          /\ GoOn(w, "list")
     ELSE GoOn(w, "failed") /\ UNCHANGED archives
  /\ UNCHANGED <<keyFile, names, time, deaths>>

(* _prune_archives lists the directory ... *)
ListArchives(w) ==
  /\ w \in Exports /\ At(w, "list")
  /\ Become(w, [workers[w] EXCEPT !.step = "prune", !.todo = KnownArchives])
  /\ UNCHANGED <<keyFile, archives, names, time, deaths>>

(* ... which fails when a file another prune removes meanwhile is sorted ... *)
ListingFails(w) ==
  /\ At(w, "list") /\ \E v \in Exports \ {w} : At(v, "prune")
  /\ Become(w, [NewWorker EXCEPT !.step = "failed"])
  /\ UNCHANGED <<keyFile, archives, names, time, deaths>>

(* Mutant: one archive too many is kept. *)
OutlivedByOne(w, f) ==
  \/ workers[w].rank > RetentionCount
  \/ f.mtime < workers[w].created - RetentionAge

(* Is a file beyond either limit for the prune that has come to it? *)
Outlived(w, f) ==
  \/ workers[w].rank >= RetentionCount
  \/ f.mtime < workers[w].created - RetentionAge

(* ... and goes through the listing: a file that is gone ends it. *)
PruneArchive(w) ==
  LET task == workers[w] IN
  /\ At(w, "prune") /\ task.todo # <<>>
  /\ IF Head(task.todo) \in FileNames
     THEN LET f == Named(Head(task.todo)) IN
          /\ archives' = IF Outlived(w, f) THEN archives \ {f} ELSE archives
          /\ Become(w, [task EXCEPT !.todo = Tail(@), !.rank = @ + 1])
     ELSE Become(w, [NewWorker EXCEPT !.step = "failed"]) /\ UNCHANGED archives
  /\ UNCHANGED <<keyFile, names, time, deaths>>

EndExport(w) ==
  /\ At(w, "prune") /\ workers[w].todo = <<>>
  /\ Become(w, [NewWorker EXCEPT !.step = "done"])
  /\ UNCHANGED <<keyFile, archives, names, time, deaths>>

(***************************************************************************)
(* Reading a retained archive: read_retained_archive.                      *)
(***************************************************************************)

FindArchive(w) ==
  /\ w \in Downloads /\ At(w, "list")
  /\ \/ \E n \in FileNames : Become(w, [workers[w] EXCEPT !.step = "verify", !.name = n])
     \/ FileNames = {} /\ Become(w, [NewWorker EXCEPT !.step = "failed"])
  /\ UNCHANGED <<keyFile, archives, names, time, deaths>>

(* Mutant: the signature is checked and the rest of the file is not. *)
VerifiableSignature(f, key) == f.signed = key

(* verify_evidence_archive *)
Verifiable(f, key) == f.whole /\ f.signed = key

VerifyArchive(w) ==
  /\ At(w, "verify")
  /\ GoOn(w, IF workers[w].name \in FileNames
                /\ Verifiable(Named(workers[w].name), workers[w].key)
             THEN "read" ELSE "failed")
  /\ UNCHANGED <<keyFile, archives, names, time, deaths>>

(* The bytes are read again after they have been verified. *)
ReadArchive(w) ==
  /\ At(w, "read")
  /\ GoOn(w, IF workers[w].name \in FileNames THEN "done" ELSE "failed")
  /\ UNCHANGED <<keyFile, archives, names, time, deaths>>

(* The response is sent; the next request may come. *)
EndDownload(w) ==
  /\ w \in Downloads /\ workers[w].step \in {"done", "failed"}
  /\ Become(w, NewWorker)
  /\ UNCHANGED <<keyFile, archives, names, time, deaths>>

EvidenceTick ==
  /\ time < MaxEvidenceTime /\ time' = time + 1
  /\ UNCHANGED <<keyFile, archives, names, workers, deaths>>

(* The process dies: what requests under way held is lost. *)
Die ==
  /\ deaths < MaxDeaths /\ deaths' = deaths + 1
  /\ workers' = [w \in Workers |->
       IF At(w, "ready") \/ At(w, "done") THEN workers[w]
       ELSE [NewWorker EXCEPT !.step = "failed"]]
  /\ UNCHANGED <<keyFile, archives, names, time>>

EvidenceNext ==
  \/ \E w \in Workers :
       \/ FindKey(w) \/ CreateKey(w) \/ WriteKey(w) \/ LoadKey(w)
       \/ StampArchive(w) \/ OpenArchive(w) \/ WriteArchive(w) \/ TouchArchive(w)
       \/ ListArchives(w) \/ ListingFails(w) \/ PruneArchive(w) \/ EndExport(w)
       \/ FindArchive(w) \/ VerifyArchive(w) \/ ReadArchive(w) \/ EndDownload(w)
  \/ EvidenceTick \/ Die

(***************************************************************************)
(* Properties.                                                             *)
(***************************************************************************)

(* Every archive, and every request that is going to sign one, has the key *)
(* of the key file: whoever made it, none is signed with a key that was    *)
(* lost (load_or_create_signing_key, verify_evidence_archive).             *)
ArchivesStayVerifiable ==
  /\ \A f \in archives : f.signed = keyFile
  /\ \A w \in Workers : workers[w].key \in {NoKey, keyFile}

(* Once no export is under way, and if none was cut short, no more archives *)
(* are there than are to be retained, although every prune went through a  *)
(* listing that others were making stale (_prune_archives).                *)
RetentionBounded ==
  (deaths = 0 /\ \A w \in Exports : workers[w].step \in {"ready", "done"})
    => Cardinality(archives) <= RetentionCount

(* A retained archive is only ever handed out whole and verifiable,        *)
(* although its bytes are read again after they have been verified         *)
(* (read_retained_archive).                                                *)
HandedOutVerified ==
  [][\A w \in Downloads :
       At(w, "read") /\ workers'[w].step = "done" =>
         \E f \in archives : /\ f.name = workers[w].name
                             /\ f.whole /\ f.signed = workers[w].key]_evidenceVars

EvidenceSpec == EvidenceInit /\ [][EvidenceNext]_evidenceVars

=============================================================================
