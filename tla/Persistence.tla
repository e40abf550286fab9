---------------------------- MODULE Persistence ----------------------------
(***************************************************************************)
(* The schema of the database and the migrations that bring it up to date  *)
(* (init_db of app/models.py).  The application runs init_db when it       *)
(* starts and so does its command line, against one SQLite file: two       *)
(* processes may be at it at once, and either may die anywhere.            *)
(*                                                                         *)
(* Python's sqlite3 opens a transaction at the first INSERT and not before *)
(* a CREATE or an ALTER.  Up to the first version that init_db records,    *)
(* every statement is therefore its own transaction; from then on all of   *)
(* them, whatever they do, become visible together at the commit, and no   *)
(* other process can write until then.                                     *)
(*                                                                         *)
(* A database is the set of its tables, indexes and added columns and the  *)
(* set of versions it records; the types of columns are left out.          *)
(***************************************************************************)
EXTENDS Integers, Sequences, FiniteSets

CONSTANTS
  Processes,  \* processes that may run init_db
  MaxStarts,  \* bound: how often init_db is called
  NoProcess   \* nobody holds the write lock

ASSUME PersistenceAssumption ==
  MaxStarts \in Nat /\ NoProcess \notin Processes

(***************************************************************************)
(* The statements of each migration, in order.                             *)
(***************************************************************************)

(* CREATE TABLE IF NOT EXISTS, CREATE INDEX IF NOT EXISTS, the PRAGMA that *)
(* reads the columns there are, and ALTER TABLE ADD COLUMN for a column    *)
(* that was not among them.                                                *)
Table(t)     == [kind |-> "create",  part |-> <<t, "table">>]
Index(t)     == [kind |-> "create",  part |-> <<t, "index">>]
Columns(t)   == [kind |-> "columns", part |-> <<t, "columns">>]
Column(t, c) == [kind |-> "add",     part |-> <<t, c>>]

Migration1 ==
  <<Table("exercises"), Table("inject_options"), Table("run_events"),
    Table("objective_assessments")>>

Migration2 == <<Columns("inject_options"), Column("inject_options", "trigger_count")>>

Migration3 ==
  <<Columns("exercises"), Column("exercises", "started_at"),
    Column("exercises", "paused_at"), Column("exercises", "paused_seconds"),
    Column("exercises", "completed_at"),
    Columns("inject_options"), Column("inject_options", "scheduled_offset_seconds"),
    Column("inject_options", "auto_deliver")>>

Migration4 ==
  <<Table("exercise_checkpoints"), Index("exercise_checkpoints"),
    Table("improvement_actions"), Index("improvement_actions")>>

Migration5 ==
  <<Columns("exercises"), Column("exercises", "scenario_pack_id"),
    Column("exercises", "organization_profile_id"),
    Table("scenario_packs"), Index("scenario_packs"),
    Table("organization_profiles"), Index("organization_profiles"),
    Table("users"), Table("auth_sessions"), Index("auth_sessions")>>

migrations == <<Migration1, Migration2, Migration3, Migration4, Migration5>>
Versions   == DOMAIN migrations

(* What a migration leaves in a database. *)
Parts(v) ==
  {migrations[v][i].part : i \in {j \in DOMAIN migrations[v] :
                                    migrations[v][j].kind # "columns"}}

VARIABLES
  database,  \* what is committed: its parts and the versions it records
  draft,     \* what the process that holds the write lock has not committed
  writer,    \* that process
  calls,     \* where each process is
  starts     \* calls of init_db so far

persistenceVars == <<database, draft, writer, calls, starts>>

Nothing == [parts |-> {}, versions |-> {}]

(* A call of init_db: what it does next, the versions it found recorded,   *)
(* the migration and the statement it is at, the parts it last read, and   *)
(* whether another call was under way at some moment of its own.           *)
NotCalled ==
  [step |-> "none", applied |-> {}, version |-> 1, at |-> 1, seen |-> {},
   raced |-> FALSE]

UnderWay(p) == calls[p].step \in {"open", "read", "statement", "record", "commit"}

(* What a process sees, and whether it may write. *)
View(p) ==
  IF writer = p
  THEN [parts |-> database.parts \cup draft.parts,
        versions |-> database.versions \cup draft.versions]
  ELSE database

MayWrite(p) == writer \in {p, NoProcess}

(* A write of p: at once, or with its transaction. *)
Write(p, parts) ==
  /\ MayWrite(p)
  /\ IF writer = p
     THEN draft' = [draft EXCEPT !.parts = @ \cup parts] /\ UNCHANGED database
     ELSE database' = [database EXCEPT !.parts = @ \cup parts] /\ UNCHANGED draft

(* The table of versions is there from the first call on. *)
VersionTable == <<"schema_migrations", "table">>

Upto(n) == UNION {Parts(v) : v \in 1 .. n}

(* An empty file; a database from before versions were recorded, with the  *)
(* column that the second migration adds or without it; or one that was    *)
(* left at some version.                                                   *)
PersistenceInit ==
  /\ \/ database = Nothing
     \/ \E old \in SUBSET Parts(2) :
          database = [parts |-> Parts(1) \cup old, versions |-> {}]
     \/ \E n \in Versions :
          database = [parts |-> Upto(n) \cup {VersionTable}, versions |-> 1 .. n]
  /\ draft = Nothing /\ writer = NoProcess
  /\ calls = [p \in Processes |-> NotCalled]
  /\ starts = 0

(* Mutant: the migrations after version v. *)
FromAfter(call, v) ==
  LET left == {w \in Versions : w > v /\ w \notin call.applied}
  IN  IF left = {} THEN [call EXCEPT !.step = "commit"]
      ELSE [call EXCEPT !.step = "statement", !.at = 1,
                        !.version = CHOOSE w \in left : \A x \in left : w <= x]

(* The next migration that was not found recorded, from version v on, or   *)
(* the commit if there is none.                                            *)
From(call, v) ==
  LET left == {w \in Versions : w >= v /\ w \notin call.applied}
  IN  IF left = {} THEN [call EXCEPT !.step = "commit"]
      ELSE [call EXCEPT !.step = "statement", !.at = 1,
                        !.version = CHOOSE w \in left : \A x \in left : w <= x]

(* After a statement comes the next one, and after the last the record. *)
Following(call) ==
  IF call.at < Len(migrations[call.version]) THEN [call EXCEPT !.at = @ + 1]
  ELSE [call EXCEPT !.step = "record"]

Set(p, call) == calls' = [calls EXCEPT ![p] = call]

Start(p) ==
  /\ ~UnderWay(p) /\ starts < MaxStarts
  /\ LET others == {q \in Processes \ {p} : UnderWay(q)}
     IN  calls' = [q \in Processes |->
                     IF q = p THEN [NotCalled EXCEPT !.step = "open", !.raced = others # {}]
                     ELSE IF q \in others THEN [calls[q] EXCEPT !.raced = TRUE]
                     ELSE calls[q]]
  /\ starts' = starts + 1
  /\ UNCHANGED <<database, draft, writer>>

(* CREATE TABLE IF NOT EXISTS schema_migrations *)
Open(p) ==
  /\ calls[p].step = "open"
  /\ IF VersionTable \in View(p).parts THEN UNCHANGED <<database, draft>>
     ELSE Write(p, {VersionTable})
  /\ Set(p, [calls[p] EXCEPT !.step = "read"])
  /\ UNCHANGED <<writer, starts>>

(* SELECT version FROM schema_migrations *)
Read(p) ==
  /\ calls[p].step = "read"
  /\ Set(p, From([calls[p] EXCEPT !.applied = database.versions], 1))
  /\ UNCHANGED <<database, draft, writer, starts>>

Statement(p) == migrations[calls[p].version][calls[p].at]

InStatement(p, kind) == calls[p].step = "statement" /\ Statement(p).kind = kind

ReadColumns(p) ==
  /\ InStatement(p, "columns")
  /\ Set(p, Following([calls[p] EXCEPT !.seen = View(p).parts]))
  /\ UNCHANGED <<database, draft, writer, starts>>

Create(p) ==
  /\ InStatement(p, "create")
  /\ IF Statement(p).part \in View(p).parts THEN UNCHANGED <<database, draft>>
     ELSE Write(p, {Statement(p).part})
  /\ Set(p, Following(calls[p]))
  /\ UNCHANGED <<writer, starts>>

(* Mutant: columns are added without looking. *)
WantedAlways(p) == TRUE

Wanted(p) == Statement(p).part \notin calls[p].seen

AddColumn(p) ==
  /\ InStatement(p, "add")
  /\ IF Wanted(p)
     THEN Statement(p).part \notin View(p).parts /\ Write(p, {Statement(p).part})
     ELSE UNCHANGED <<database, draft>>
  /\ Set(p, Following(calls[p]))
  /\ UNCHANGED <<writer, starts>>

(* INSERT INTO schema_migrations, which opens the transaction if none is. *)
Record(p) ==
  /\ calls[p].step = "record" /\ MayWrite(p)
  /\ calls[p].version \notin View(p).versions
  /\ writer' = p
  /\ draft' = [draft EXCEPT !.versions = @ \cup {calls[p].version}]
  /\ Set(p, From(calls[p], calls[p].version + 1))
  /\ UNCHANGED <<database, starts>>

Commit(p) ==
  /\ calls[p].step = "commit"
  /\ database' = View(p)
  /\ IF writer = p THEN draft' = Nothing /\ writer' = NoProcess
     ELSE UNCHANGED <<draft, writer>>
  /\ Set(p, [calls[p] EXCEPT !.step = "done"])
  /\ UNCHANGED starts

(* The transaction, if any, is rolled back. *)
Ends(p, step) ==
  /\ Set(p, [calls[p] EXCEPT !.step = step])
  /\ IF writer = p THEN draft' = Nothing /\ writer' = NoProcess
     ELSE UNCHANGED <<draft, writer>>
  /\ UNCHANGED <<database, starts>>

(* A statement that has nothing to wait for. *)
Writes(p) ==
  \/ calls[p].step = "open" /\ VersionTable \notin View(p).parts
  \/ InStatement(p, "create") /\ Statement(p).part \notin View(p).parts
  \/ InStatement(p, "add") /\ Wanted(p)
  \/ calls[p].step = "record"

(* A column that is there already, a version that is recorded already, or  *)
(* the write lock not to be had for five seconds.                          *)
Fail(p) ==
  /\ \/ Writes(p) /\ ~MayWrite(p)
     \/ InStatement(p, "add") /\ Wanted(p) /\ MayWrite(p)
          /\ Statement(p).part \in View(p).parts
     \/ calls[p].step = "record" /\ MayWrite(p)
          /\ calls[p].version \in View(p).versions
  /\ Ends(p, "failed")

Die(p) == UnderWay(p) /\ Ends(p, "dead")

PersistenceNext ==
  \E p \in Processes :
    \/ Start(p) \/ Open(p) \/ Read(p)
    \/ ReadColumns(p) \/ Create(p) \/ AddColumn(p)
    \/ Record(p) \/ Commit(p)
    \/ Fail(p) \/ Die(p)

PersistenceSpec == PersistenceInit /\ [][PersistenceNext]_persistenceVars

(***************************************************************************)
(* Properties.                                                             *)
(***************************************************************************)

(* A version is recorded in the database only with all that its migration  *)
(* makes, and a call that returned has left every version there: wherever  *)
(* earlier calls died, and whatever another process does meanwhile.        *)
SchemaSound ==
  /\ \A v \in database.versions : Parts(v) \subseteq database.parts
  /\ \A p \in Processes : calls[p].step = "done" => database.versions = Versions

(* What another call left behind, finished or not, never stands in the way *)
(* of a later one: init_db fails only if another call was under way with   *)
(* it, so starting the application again repairs whatever a death left.    *)
LoneStartsSucceed ==
  \A p \in Processes : calls[p].step = "failed" => calls[p].raced

=============================================================================
