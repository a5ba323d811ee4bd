------------------------------ MODULE Startup -------------------------------
(***************************************************************************)
(* Opening the database (db/sqlite.py, db/migration_registry.py).  Every   *)
(* request of the server and every command opens a connection of its own   *)
(* and runs the whole script of the schema on it: CREATE ... IF NOT EXISTS *)
(* of every table and index, then the registered migrations.  Python's     *)
(* sqlite3 opens no transaction for CREATE and ALTER, so each statement is *)
(* committed by itself, and openings interleave between any two of them.   *)
(***************************************************************************)
EXTENDS Integers, Sequences, FiniteSets

CONSTANTS Opening,    \* requests and commands that open the file
          Script,     \* what an opening executes, in order (SchemaScript)
          Files,      \* the files that may be there: empty, of an older release, drifted
          MaxKills    \* bound on the openings that are killed

VARIABLES objects,    \* the tables and columns of the file
          recorded,   \* schema_migrations
          bare,       \* some saved job has no api_job_id
          opening,    \* where each opening is
          kills

file == <<objects, recorded, bare>>
startupVars == <<file, opening, kills>>

Step == 1..Len(Script)
ApiJobId == <<"subscriber_saved_jobs", "api_job_id">>

(* What statement i makes, and what it fails without. *)
Makes(i) == IF Script[i].kind = "table" THEN {<<Script[i].table>>}
            ELSE IF Script[i].kind = "column" THEN Script[i].columns ELSE {}
Needs(i) == IF Script[i].kind \in {"index", "backfill"} THEN Script[i].columns
            ELSE IF Script[i].kind = "column" THEN {<<Script[i].table>>} ELSE {}

(* The script makes what it needs first, adds one column at a time, runs all *)
(* migrations always, and records each once, after it read the registry.     *)
ASSUME ScriptAssumption ==
  /\ Len(Script) \in Nat
  /\ \A i \in Step :
       /\ Script[i].kind \in {"table", "index", "column", "backfill", "registry", "record"}
       /\ Script[i].always
       /\ \A o \in Needs(i) : \E j \in Step : j < i /\ o \in Makes(j)
       /\ Script[i].kind = "column" => \E c \in Script[i].columns : Script[i].columns = {c}
       /\ Script[i].kind = "backfill" => Script[i].columns = {ApiJobId}
  /\ \A i, j \in Step : Script[i].kind = "record" /\ Script[j].kind = "record" /\ Script[i].of = Script[j].of => i = j
  /\ \A i, j \in Step : Script[i].kind = "registry" /\ Script[j].kind = "record" => i < j
  /\ \A j \in Step : Script[j].kind = "record" => \E i \in Step : Script[i].kind = "registry"
Closed == [pc |-> "closed", at |-> 0, missing |-> FALSE, applied |-> {}, raced |-> FALSE]

StartupInit ==
  /\ \E f \in Files : objects = f.objects /\ recorded = f.recorded /\ bare = f.bare
  /\ opening = [p \in Opening |-> Closed]
  /\ kills = 0

Running(p) == opening[p].pc = "running"
AtStatement(p, kind) == Running(p) /\ opening[p].at \in Step /\ Script[opening[p].at].kind = kind
Now(p) == Script[opening[p].at]

Goto(p, at, missing, applied) ==
  opening' = [opening EXCEPT ![p] = [pc |-> "running", at |-> at, missing |-> missing,
                                     applied |-> applied, raced |-> opening[p].raced]]
Continue(p) == Goto(p, opening[p].at + 1, FALSE, opening[p].applied)
Raise(p)    == opening' = [opening EXCEPT ![p].pc = "failed"]

(* Mutant: what is recorded is left out.                                     *)
SkipsRecorded(p) == Now(p).of \in opening[p].applied

(* run_migrations leaves out what is recorded, unless it is to run always.   *)
Skips(p) == Now(p).of \in opening[p].applied /\ ~Now(p).always

---------------------------------------------------------------------------
(* The statements *)

(* initialize_database; an opening is raced when another is under way        *)
(* between its first statement and its last.                                 *)
BeginOpening(p) ==
  /\ opening[p].pc \in {"closed", "failed"}
  /\ LET others == {q \in Opening \ {p} : Running(q)}
     IN opening' = [q \in Opening |->
          IF q = p THEN [Closed EXCEPT !.pc = "running", !.at = 1, !.raced = others # {}]
          ELSE [opening[q] EXCEPT !.raced = @ \/ q \in others]]
  /\ UNCHANGED <<file, kills>>

(* Mutant: CREATE TABLE.                                                     *)
CreateTableOnce(p) ==
  /\ AtStatement(p, "table")
  /\ IF <<Now(p).table>> \in objects THEN Raise(p) /\ UNCHANGED objects
     ELSE Continue(p) /\ objects' = objects \cup {<<Now(p).table>>} \cup Now(p).columns
  /\ UNCHANGED <<recorded, bare, kills>>

(* CREATE TABLE IF NOT EXISTS: a table that is there keeps the columns it has. *)
CreateTable(p) ==
  /\ AtStatement(p, "table")
  /\ objects' = IF <<Now(p).table>> \in objects \/ Skips(p) THEN objects
                ELSE objects \cup {<<Now(p).table>>} \cup Now(p).columns
  /\ Continue(p)
  /\ UNCHANGED <<recorded, bare, kills>>

(* CREATE INDEX IF NOT EXISTS raises when what it is on is missing.          *)
CreateIndex(p) ==
  /\ AtStatement(p, "index")
  /\ IF Now(p).columns \subseteq objects \/ Skips(p) THEN Continue(p) ELSE Raise(p)
  /\ UNCHANGED <<file, kills>>

(* _ensure_column looks for the column, *)
LookForColumn(p) ==
  /\ AtStatement(p, "column") /\ ~opening[p].missing
  /\ IF Now(p).columns \subseteq objects \/ Skips(p) THEN Continue(p)
     ELSE Goto(p, opening[p].at, TRUE, opening[p].applied)
  /\ UNCHANGED <<file, kills>>

(* and adds it: ALTER TABLE raises when the table is missing, or when the    *)
(* column is there by now.  The rows there are have no api_job_id then.      *)
AddColumn(p) ==
  /\ AtStatement(p, "column") /\ opening[p].missing
  /\ IF <<Now(p).table>> \in objects /\ Now(p).columns \cap objects = {}
     THEN /\ objects' = objects \cup Now(p).columns
          /\ bare' = (bare \/ ApiJobId \in Now(p).columns)
          /\ Continue(p)
     ELSE Raise(p) /\ UNCHANGED <<objects, bare>>
  /\ UNCHANGED <<recorded, kills>>

(* UPDATE ... WHERE api_job_id IS NULL and its UNIQUE index, one transaction. *)
Backfill(p) ==
  /\ AtStatement(p, "backfill")
  /\ IF Skips(p) THEN Continue(p) /\ bare' = bare
     ELSE IF Now(p).columns \subseteq objects THEN Continue(p) /\ bare' = FALSE
     ELSE Raise(p) /\ bare' = bare
  /\ UNCHANGED <<objects, recorded, kills>>

(* get_applied_migration_ids, once, before the first migration.              *)
ReadRegistry(p) ==
  /\ AtStatement(p, "registry")
  /\ Goto(p, opening[p].at + 1, FALSE, recorded)
  /\ UNCHANGED <<file, kills>>

(* Mutant: a migration is recorded whenever its handler ran.                 *)
RecordAgain(p) ==
  /\ AtStatement(p, "record")
  /\ IF Now(p).of \in recorded THEN Raise(p) /\ UNCHANGED recorded
     ELSE Continue(p) /\ recorded' = recorded \cup {Now(p).of}
  /\ UNCHANGED <<objects, bare, kills>>

(* After its handler a migration is recorded, unless it was before; the id   *)
(* is the primary key.                                                       *)
RecordMigration(p) ==
  /\ AtStatement(p, "record")
  /\ IF Now(p).of \in opening[p].applied THEN Continue(p) /\ UNCHANGED recorded
     ELSE IF Now(p).of \in recorded THEN Raise(p) /\ UNCHANGED recorded
     ELSE Continue(p) /\ recorded' = recorded \cup {Now(p).of}
  /\ UNCHANGED <<objects, bare, kills>>

(* The connection is handed to the request, *)
Opened(p) ==
  /\ Running(p) /\ opening[p].at > Len(Script)
  /\ opening' = [opening EXCEPT ![p].pc = "open"]
  /\ UNCHANGED <<file, kills>>

(* and closed after it. *)
close_connection(p) ==
  /\ opening[p].pc = "open"
  /\ opening' = [opening EXCEPT ![p] = Closed]
  /\ UNCHANGED <<file, kills>>

(* A process is killed between two statements; what it did stays.            *)
Kill(p) ==
  /\ kills < MaxKills
  /\ Running(p)
  /\ kills' = kills + 1
  /\ opening' = [opening EXCEPT ![p] = Closed]
  /\ UNCHANGED file

Execute(p) ==
  \/ CreateTable(p) \/ CreateIndex(p) \/ LookForColumn(p) \/ AddColumn(p)
  \/ Backfill(p) \/ ReadRegistry(p) \/ RecordMigration(p) \/ Opened(p)

StartupNext ==
  \E p \in Opening : BeginOpening(p) \/ Execute(p) \/ close_connection(p) \/ Kill(p)

StartupSpec == StartupInit /\ [][StartupNext]_startupVars

(* A thread that runs goes on, and who is refused comes again.               *)
FairStartupSpec ==
  /\ StartupSpec
  /\ \A p \in Opening : WF_startupVars(Execute(p)) /\ WF_startupVars(BeginOpening(p))

---------------------------------------------------------------------------
(* Properties *)

(* What a statement is for. *)
InEffect(s) ==
  /\ s.kind = "table"    => <<s.table>> \in objects
  /\ s.kind = "column"   => s.columns \subseteq objects
  /\ s.kind = "backfill" => ~bare
  /\ s.kind = "record"   => s.of \in recorded

(* A request works on a whole schema: whatever file it was given, and        *)
(* whatever other openings did or failed to do meanwhile, all tables and     *)
(* columns are there, every saved job has its api_job_id and all migrations  *)
(* are recorded (run_migrations, whose migrations "must keep self-healing    *)
(* older/drifted SQLite databases").                                         *)
OpenedIsWhole ==
  \A p \in Opening : opening[p].pc = "open" => \A i \in Step : InEffect(Script[i])

(* An opening fails only against another one that runs at the same time: the *)
(* script never needs what it has not made, whatever an opening that was     *)
(* killed has left behind, so that what failed "can be retried safely"       *)
(* (run_migrations, _ensure_column).                                         *)
FailsOnlyWhenRaced ==
  \A p \in Opening : opening[p].pc = "failed" => opening[p].raced

(* Who keeps trying gets the database open: openings cannot keep failing     *)
(* each other for ever, as what one of them added stays.                     *)
OpensInTheEnd ==
  \A p \in Opening : opening[p].pc = "failed" ~> opening[p].pc = "open"
=============================================================================
