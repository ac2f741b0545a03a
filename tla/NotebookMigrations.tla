-------------------------- MODULE NotebookMigrations --------------------------
(***************************************************************************)
(* open_sync of server/notebooks_store.py: the ladder that brings a        *)
(* notebooks.db of any released schema up to SCHEMA_VERSION, one           *)
(* autocommitted statement at a time but for the last two steps, which are *)
(* transactions.  Several processes may open one file (the daemon and the  *)
(* command-line tools), and each may die between any two statements.       *)
(***************************************************************************)
EXTENDS Integers, Sequences

CONSTANTS
    Openers,       \* processes that open the file
    Nobody,        \* no process
    Released,      \* the schema versions a file on disk may have
    SoleCreator,   \* a file without a schema is opened by one process only
    MaxOpens       \* bound: calls of open_sync

ASSUME MigrationConstants ==
    /\ Nobody \notin Openers
    /\ Released \subseteq 0..6
    /\ SoleCreator \in BOOLEAN
    /\ MaxOpens \in Nat

VARIABLES
    db,        \* the file: user_version, its schema, whether notebooks hold rows
    saved,     \* the file a ROLLBACK goes back to
    writer,    \* the process whose transaction holds the write lock
    opener,    \* what each process is doing
    opens      \* calls of open_sync so far

migVars == <<db, saved, writer, opener, opens>>

-----------------------------------------------------------------------------
(* The ladder *)

SCHEMA_VERSION == 6

Drop(o) == [do |-> "drop", what |-> o]
Create(o) == [do |-> "create", what |-> o]
Ensure(o) == [do |-> "ensure", what |-> o]   \* CREATE ... IF NOT EXISTS
Add(o) == [do |-> "add", what |-> o]         \* ALTER TABLE notebooks ADD COLUMN
Bump(v) == [do |-> "bump", what |-> v]       \* PRAGMA user_version
Begin == [do |-> "begin", what |-> 0]
Commit == [do |-> "commit", what |-> 0]

\* Mutant: the version is written before the columns it promises.
LadderBumpsFirst == <<
    << Drop("notebook_papers"), Drop("notebooks"), Create("notebooks"),
       Create("notebook_papers"), Create("idx_papers"), Bump(1) >>,
    << Ensure("ingest_runs"), Ensure("idx_runs"), Bump(2) >>,
    << Bump(3), Add("notebook_kind") >>,
    << Add("parse_status"), Add("parse_error"), Add("parsed_html_path"), Bump(4) >>,
    << Begin, Add("discovery_category"), Add("description"), Bump(5), Commit >>,
    << Begin, Ensure("formal_releases"), Bump(6), Commit >> >>

\* Mutant: the runs table is dropped and created anew, and the notebooks with it.
LadderRecreates == <<
    << Drop("notebook_papers"), Drop("notebooks"), Create("notebooks"),
       Create("notebook_papers"), Create("idx_papers"), Bump(1) >>,
    << Drop("notebooks"), Create("notebooks"), Ensure("ingest_runs"),
       Ensure("idx_runs"), Bump(2) >>,
    << Add("notebook_kind"), Bump(3) >>,
    << Add("parse_status"), Add("parse_error"), Add("parsed_html_path"), Bump(4) >>,
    << Begin, Add("discovery_category"), Add("description"), Bump(5), Commit >>,
    << Begin, Ensure("formal_releases"), Bump(6), Commit >> >>

Ladder == <<
    << Drop("notebook_papers"), Drop("notebooks"), Create("notebooks"),
       Create("notebook_papers"), Create("idx_papers"), Bump(1) >>,
    << Ensure("ingest_runs"), Ensure("idx_runs"), Bump(2) >>,
    << Add("notebook_kind"), Bump(3) >>,
    << Add("parse_status"), Add("parse_error"), Add("parsed_html_path"), Bump(4) >>,
    << Begin, Add("discovery_category"), Add("description"), Bump(5), Commit >>,
    << Begin, Ensure("formal_releases"), Bump(6), Commit >> >>

Rungs == 1..SCHEMA_VERSION

Columns == {"notebook_kind", "parse_status", "parse_error", "parsed_html_path",
            "discovery_category", "description"}

\* What the statements of rung r before its i-th have made, and all of them.
Makes(st) == st.do \in {"create", "ensure", "add"}
MadeBefore(r, i) == {Ladder[r][j].what : j \in {k \in 1..(i - 1) : Makes(Ladder[r][k])}}
Made(r) == MadeBefore(r, Len(Ladder[r]) + 1)

\* What a file of version v holds.
Schema == [v \in 0..SCHEMA_VERSION |-> UNION {Made(r) : r \in 1..v}]

-----------------------------------------------------------------------------
(* Statements *)

\* SQLite refuses a table or column that exists, and a column of no table.
Refused(st) ==
    \/ st.do \in {"create", "add"} /\ st.what \in db.schema
    \/ st.do = "add" /\ "notebooks" \notin db.schema

\* A dropped table takes its columns, its indexes and its rows with it.
Effect(st) ==
    CASE st.do = "drop" ->
            LET gone == IF st.what = "notebooks" THEN Columns \cup {"notebooks"}
                        ELSE {"notebook_papers", "idx_papers"}
            IN  [db EXCEPT !.schema = @ \ gone,
                           !.rows = @ /\ st.what # "notebooks"]
      [] st.do \in {"create", "ensure", "add"} ->
            [db EXCEPT !.schema = @ \cup {st.what}]
      [] st.do = "bump" -> [db EXCEPT !.version = st.what]
      [] OTHER -> db

Idle == [st |-> "closed", rung |-> 1, at |-> 1, txn |-> FALSE]
Upcoming(o) == Ladder[opener[o].rung][opener[o].at]
Running(o) == opener[o].st = "migrating" /\ opener[o].rung \in Rungs

\* The statement after: of the same rung, or the first of the next.
Advanced(o) ==
    LET w == opener[o] IN
    IF w.at < Len(Ladder[w.rung]) THEN [w EXCEPT !.at = @ + 1]
                                  ELSE [w EXCEPT !.rung = @ + 1, !.at = 1]

MigInit ==
    /\ \E v \in Released, r \in BOOLEAN :
         db = [version |-> v, schema |-> Schema[v], rows |-> r /\ v > 0]
    /\ saved = db
    /\ writer = Nobody
    /\ opener = [o \in Openers |-> Idle]
    /\ opens = 0

\* Another process is at work on a file that has no schema yet.
BeingCreated(o) == \E p \in Openers \ {o} :
    opener[p].st = "migrating" /\ opener[p].rung = 1

\* open_sync: a fresh connection reads user_version once, and goes up from there.
Open(o) ==
    /\ opener[o].st = "closed"
    /\ opens < MaxOpens
    /\ SoleCreator => ~BeingCreated(o)
    /\ opens' = opens + 1
    /\ opener' = [opener EXCEPT ![o] =
         [st |-> "migrating", at |-> 1, txn |-> FALSE,
          rung |-> 1 + (IF writer = Nobody THEN db.version ELSE saved.version)]]
    /\ UNCHANGED <<db, saved, writer>>

\* BEGIN is deferred: it takes no lock yet.
BeginTxn(o) ==
    /\ Running(o) /\ Upcoming(o).do = "begin"
    /\ opener' = [opener EXCEPT ![o] = [Advanced(o) EXCEPT !.txn = TRUE]]
    /\ UNCHANGED <<db, saved, writer, opens>>

\* A statement that SQLite accepts: in a transaction it takes the write lock
\* and keeps it, outside of one it commits on its own.
Execute(o) ==
    /\ Running(o) /\ Upcoming(o).do \notin {"begin", "commit"}
    /\ writer \in {Nobody, o}
    /\ ~Refused(Upcoming(o))
    /\ db' = Effect(Upcoming(o))
    /\ writer' = IF opener[o].txn THEN o ELSE Nobody
    /\ saved' = IF opener[o].txn THEN (IF writer = o THEN saved ELSE db) ELSE db'
    /\ opener' = [opener EXCEPT ![o] = Advanced(o)]
    /\ UNCHANGED opens

CommitTxn(o) ==
    /\ Running(o) /\ Upcoming(o).do = "commit"
    /\ writer' = Nobody
    /\ saved' = db
    /\ opener' = [opener EXCEPT ![o] = [Advanced(o) EXCEPT !.txn = FALSE]]
    /\ UNCHANGED <<db, opens>>

\* The process lets go of the file with its transaction undone.
Leave(o, how) ==
    /\ opener' = [opener EXCEPT ![o] = [Idle EXCEPT !.st = how]]
    /\ db' = IF writer = o THEN saved ELSE db
    /\ writer' = IF writer = o THEN Nobody ELSE writer
    /\ UNCHANGED <<saved, opens>>

\* OperationalError: the open fails, and with it the daemon's startup.
Raise(o) ==
    /\ Running(o) /\ Upcoming(o).do \notin {"begin", "commit"}
    /\ writer \in {Nobody, o}
    /\ Refused(Upcoming(o))
    /\ Leave(o, "refused")

\* "database is locked": another transaction outlasts the busy timeout.
Busy(o) ==
    /\ Running(o) /\ Upcoming(o).do \notin {"begin", "commit"}
    /\ writer \notin {Nobody, o}
    /\ Leave(o, "closed")

\* The end of the ladder: the store serves.
Serve(o) ==
    /\ opener[o].st = "migrating" /\ ~Running(o)
    /\ opener' = [opener EXCEPT ![o].st = "serving"]
    /\ UNCHANGED <<db, saved, writer, opens>>

\* create_notebook, by a process whose open has returned.
CreateNotebook(o) ==
    /\ opener[o].st = "serving"
    /\ writer = Nobody
    /\ "notebooks" \in db.schema
    /\ db' = [db EXCEPT !.rows = TRUE]
    /\ saved' = db'
    /\ UNCHANGED <<writer, opener, opens>>

\* close, a crash between two statements, or the supervisor's next attempt.
Stop(o) ==
    /\ opener[o].st # "closed"
    /\ Leave(o, "closed")

MigNext == \E o \in Openers :
    \/ Open(o) \/ BeginTxn(o) \/ Execute(o) \/ CommitTxn(o)
    \/ Raise(o) \/ Busy(o) \/ Serve(o) \/ CreateNotebook(o) \/ Stop(o)

MigSpec == MigInit /\ [][MigNext]_migVars

-----------------------------------------------------------------------------
(* Properties *)

\* Types, and only a process in a transaction holds the write lock.
MigTypeOK ==
    /\ db \in [version : 0..6, schema : SUBSET Schema[6], rows : BOOLEAN]
    /\ saved \in [version : 0..6, schema : SUBSET Schema[6], rows : BOOLEAN]
    /\ writer \in Openers \cup {Nobody}
    /\ \A o \in Openers : writer = o => opener[o].txn
    /\ \A o \in Openers : opener[o].rung \in 1..7 /\ opener[o].at \in 1..6

\* A file never claims a schema it does not have, and a process whose open has
\* returned finds every table and column there, wherever a process died and
\* however two openers' statements fall between each other's.
ServesWhole ==
    /\ Schema[db.version] \subseteq db.schema
    /\ \A o \in Openers :
          opener[o].st = "serving" => Schema[SCHEMA_VERSION] \subseteq db.schema

\* No migration costs a user's notebooks ("do NOT drop existing tables").
RowsKept == [][db.rows => db'.rows]_migVars

\* Whatever happened to earlier opens, the ladder can be run again: no open is
\* refused for a column that an earlier one left behind.
Reopens == \A o \in Openers : opener[o].st # "refused"
=============================================================================
