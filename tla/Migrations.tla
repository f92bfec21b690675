------------------------------ MODULE Migrations ------------------------------
(***************************************************************************)
(* runMigrations(): processes that start together apply the SQL files in   *)
(* order and record each in __outboxy_migrations.                          *)
(*                                                                         *)
(* On PostgreSQL a file and its record are one transaction, in which every *)
(* statement says IF NOT EXISTS.  On MySQL a file is several statements in *)
(* one query; each is committed as it ends, those that create an index do  *)
(* not say IF NOT EXISTS, and the error a second creation raises is taken  *)
(* for the end of the file.  A run that throws is started again.           *)
(***************************************************************************)
EXTENDS Naturals, Sequences

CONSTANTS
  Runner,
  Object,        \* tables and indexes
  Script,        \* the files in the order of their names: what each creates
  IfNotExists,   \* objects whose statement says so on MySQL too: the tables
  MaxFaults      \* bound on crashes, lost connections and failed statements

ASSUME MigrationAssumption ==
  /\ Script \in Seq(Seq(Object))
  /\ IfNotExists \subseteq Object
  /\ MaxFaults \in Nat

(* An index is created by one statement of one file.                       *)
ASSUME IndexesOnce ==
  \A f, g \in 1 .. Len(Script) : \A i \in 1 .. Len(Script[f]), j \in 1 .. Len(Script[g]) :
    Script[f][i] = Script[g][j] /\ Script[f][i] \notin IfNotExists => f = g /\ i = j

VARIABLES
  dialect,    \* of the database that all runners migrate
  schema,     \* committed tables and indexes
  tracking,   \* does __outboxy_migrations exist?
  recorded,   \* the files it names
  pc,         \* where each runner is
  known,      \* the files a runner read from __outboxy_migrations
  file,       \* the file a runner is at
  pos,        \* and the statement in it
  made,       \* what its open transaction has created (PostgreSQL)
  faults,     \* counter for MaxFaults
  cut         \* history: files that a fault ended between two statements

database == <<schema, tracking, recorded>>
place == <<pc, known, file, pos>>
migrationsVars == <<dialect, database, place, made, faults, cut>>

File == 1 .. Len(Script)
Objects(f) == {Script[f][i] : i \in 1 .. Len(Script[f])}

MigrationsTypeOK ==
  /\ dialect \in {"postgresql", "mysql"}
  /\ schema \subseteq Object
  /\ tracking \in BOOLEAN
  /\ recorded \subseteq File
  /\ pc \in [Runner -> {"prepare", "list", "apply", "blocked", "record", "done", "failed"}]
  /\ known \in [Runner -> SUBSET File]
  /\ file \in [Runner -> 0 .. Len(Script)]
  /\ pos \in [Runner -> Nat]
  /\ made \in [Runner -> SUBSET Object]
  /\ faults \in 0 .. MaxFaults
  /\ cut \subseteq File

(* The files may have been fed to psql or mysql by hand, up to some file.  *)
MigrationsInit ==
  /\ dialect \in {"postgresql", "mysql"}
  /\ \E n \in 0 .. Len(Script) : schema = UNION {Objects(f) : f \in 1 .. n}
  /\ tracking = FALSE
  /\ recorded = {}
  /\ pc = [r \in Runner |-> "prepare"]
  /\ known = [r \in Runner |-> {}]
  /\ file = [r \in Runner |-> 0]
  /\ pos = [r \in Runner |-> 1]
  /\ made = [r \in Runner |-> {}]
  /\ faults = 0
  /\ cut = {}

-----------------------------------------------------------------------------
Statement(r) == Script[file[r]][pos[r]]

EndOfFile(r) == pos[r] > Len(Script[file[r]])
Advance(r) == pos' = [pos EXCEPT ![r] = @ + 1]

(* No open transaction of another runner has created o.                    *)
Free(r, o) == \A s \in Runner \ {r} : o \notin made[s]

\* Mutant: the next file is taken up where the last one ended.
Proceed_KeepsPosition(r, f, applied) ==
  LET pending == {g \in File : g > f /\ g \notin applied} IN
  \/ /\ pending = {}
     /\ pc' = [pc EXCEPT ![r] = "done"]
     /\ UNCHANGED <<file, pos>>
  \/ \E g \in pending :
       /\ \A h \in pending : g <= h
       /\ pc' = [pc EXCEPT ![r] = "apply"]
       /\ file' = [file EXCEPT ![r] = g]
       /\ UNCHANGED pos

\* Mutant: the loop over the files goes one too far.
Proceed_OneTooFar(r, f, applied) ==
  LET pending == {g \in File \cup {Len(Script) + 1} : g > f /\ g \notin applied} IN
  \/ /\ pending = {}
     /\ pc' = [pc EXCEPT ![r] = "done"]
     /\ UNCHANGED <<file, pos>>
  \/ \E g \in pending :
       /\ \A h \in pending : g <= h
       /\ pc' = [pc EXCEPT ![r] = "apply"]
       /\ file' = [file EXCEPT ![r] = g]
       /\ pos' = [pos EXCEPT ![r] = 1]

(* The runner turns to the first pending file after f, or is done.         *)
Proceed(r, f, applied) ==
  LET pending == {g \in File : g > f /\ g \notin applied} IN
  \/ /\ pending = {}
     /\ pc' = [pc EXCEPT ![r] = "done"]
     /\ UNCHANGED <<file, pos>>
  \/ \E g \in pending :
       /\ \A h \in pending : g <= h
       /\ pc' = [pc EXCEPT ![r] = "apply"]
       /\ file' = [file EXCEPT ![r] = g]
       /\ pos' = [pos EXCEPT ![r] = 1]

(* CREATE TABLE IF NOT EXISTS __outboxy_migrations.  On PostgreSQL those   *)
(* that execute it while another does may get an error instead.            *)
Prepare(r) ==
  /\ pc[r] = "prepare"
  /\ tracking' = TRUE
  /\ \E losers \in SUBSET {s \in Runner \ {r} : pc[s] = "prepare"} :
       /\ losers = {} \/ (dialect = "postgresql" /\ ~tracking)
       /\ pc' = [s \in Runner |-> IF s = r THEN "list"
                                  ELSE IF s \in losers THEN "failed" ELSE pc[s]]
  /\ UNCHANGED <<dialect, schema, recorded, known, file, pos, made, faults, cut>>

(* SELECT name FROM __outboxy_migrations, compared with the directory.     *)
List(r) ==
  /\ pc[r] = "list"
  /\ known' = [known EXCEPT ![r] = recorded]
  /\ Proceed(r, 0, recorded)
  /\ UNCHANGED <<dialect, database, made, faults, cut>>

-----------------------------------------------------------------------------
\* Mutant: the record is written before the file, on another connection.
PgStatement_RecordFirst(r) ==
  /\ dialect = "postgresql" /\ pc[r] = "apply" /\ ~EndOfFile(r)
  /\ Statement(r) \in schema \cup made[r] \/ Free(r, Statement(r))
  /\ made' = [made EXCEPT ![r] = @ \cup ({Statement(r)} \ schema)]
  /\ Advance(r)
  /\ recorded' = recorded \cup {file[r]}
  /\ UNCHANGED <<dialect, schema, tracking, pc, known, file, faults, cut>>

(* PostgreSQL: statements of an open transaction.  One that creates what   *)
(* another transaction has created waits for its end.                      *)
PgStatement(r) ==
  /\ dialect = "postgresql" /\ pc[r] = "apply" /\ ~EndOfFile(r)
  /\ \/ /\ Statement(r) \in schema \cup made[r]
        /\ Advance(r)
        /\ UNCHANGED <<pc, made>>
     \/ /\ Statement(r) \notin schema \cup made[r]
        /\ Free(r, Statement(r))
        /\ made' = [made EXCEPT ![r] = @ \cup {Statement(r)}]
        /\ Advance(r)
        /\ UNCHANGED pc
     \/ /\ Statement(r) \notin schema \cup made[r]
        /\ ~Free(r, Statement(r))
        /\ pc' = [pc EXCEPT ![r] = "blocked"]
        /\ UNCHANGED <<pos, made>>
  /\ UNCHANGED <<dialect, database, known, file, faults, cut>>

(* The other transaction has ended.  It was past the check for existence   *)
(* when it started to wait: what exists now is an error, and the run       *)
(* rolls back and throws.                                                  *)
PgUnblock(r) ==
  /\ pc[r] = "blocked" /\ Free(r, Statement(r))
  /\ \/ /\ Statement(r) \in schema
        /\ pc' = [pc EXCEPT ![r] = "failed"]
        /\ made' = [made EXCEPT ![r] = {}]
        /\ UNCHANGED pos
     \/ /\ Statement(r) \notin schema
        /\ pc' = [pc EXCEPT ![r] = "apply"]
        /\ made' = [made EXCEPT ![r] = @ \cup {Statement(r)}]
        /\ Advance(r)
  /\ UNCHANGED <<dialect, database, known, file, faults, cut>>

(* INSERT ... ON CONFLICT DO NOTHING and COMMIT.                           *)
PgCommit(r) ==
  /\ dialect = "postgresql" /\ pc[r] = "apply" /\ EndOfFile(r)
  /\ schema' = schema \cup made[r]
  /\ recorded' = recorded \cup {file[r]}
  /\ made' = [made EXCEPT ![r] = {}]
  /\ Proceed(r, file[r], known[r])
  /\ UNCHANGED <<dialect, tracking, known, faults, cut>>

-----------------------------------------------------------------------------
(* MySQL: the next statement of the query creates what it names, or finds  *)
(* it there and says IF NOT EXISTS.                                        *)
MySqlStatement(r) ==
  /\ dialect = "mysql" /\ pc[r] = "apply" /\ ~EndOfFile(r)
  /\ Statement(r) \in schema => Statement(r) \in IfNotExists
  /\ schema' = schema \cup {Statement(r)}
  /\ Advance(r)
  /\ UNCHANGED <<dialect, tracking, recorded, pc, known, file, made, faults, cut>>

\* Mutant: ER_DUP_KEYNAME is an error like any other.
MySqlQueryEnds_Throws(r) ==
  /\ dialect = "mysql" /\ pc[r] = "apply"
  /\ ~EndOfFile(r) => Statement(r) \in schema \ IfNotExists
  /\ pc' = [pc EXCEPT ![r] = IF EndOfFile(r) THEN "record" ELSE "failed"]
  /\ UNCHANGED <<dialect, database, known, file, pos, made, faults, cut>>

(* The query ends with its last statement, or with ER_DUP_KEYNAME, which   *)
(* is ignored.                                                             *)
MySqlQueryEnds(r) ==
  /\ dialect = "mysql" /\ pc[r] = "apply"
  /\ ~EndOfFile(r) => Statement(r) \in schema \ IfNotExists
  /\ pc' = [pc EXCEPT ![r] = "record"]
  /\ UNCHANGED <<dialect, database, known, file, pos, made, faults, cut>>

(* INSERT IGNORE INTO __outboxy_migrations.                                *)
MySqlRecord(r) ==
  /\ pc[r] = "record"
  /\ recorded' = recorded \cup {file[r]}
  /\ Proceed(r, file[r], known[r])
  /\ UNCHANGED <<dialect, schema, tracking, known, made, faults, cut>>

-----------------------------------------------------------------------------
(* The process dies, or a statement fails for a reason of its own: the run *)
(* throws.  PostgreSQL undoes the transaction, MySQL keeps what is done.   *)
Fault(r) ==
  /\ pc[r] \notin {"done", "failed"}
  /\ faults < MaxFaults
  /\ faults' = faults + 1
  /\ pc' = [pc EXCEPT ![r] = "failed"]
  /\ made' = [made EXCEPT ![r] = {}]
  /\ cut' = IF dialect = "mysql" /\ pc[r] = "apply" /\ pos[r] > 1
            THEN cut \cup {file[r]} ELSE cut
  /\ UNCHANGED <<dialect, database, known, file, pos>>

(* The deployment runs the migrations again.                               *)
Restart(r) ==
  /\ pc[r] = "failed"
  /\ pc' = [pc EXCEPT ![r] = "prepare"]
  /\ UNCHANGED <<dialect, database, known, file, pos, made, faults, cut>>

Step(r) ==
  \/ Prepare(r) \/ List(r)
  \/ PgStatement(r) \/ PgUnblock(r) \/ PgCommit(r)
  \/ MySqlStatement(r) \/ MySqlQueryEnds(r) \/ MySqlRecord(r)
  \/ Restart(r)

MigrationsNext == \E r \in Runner : Step(r) \/ Fault(r)

MigrationsSpec == MigrationsInit /\ [][MigrationsNext]_migrationsVars

(* A run goes on until it ends or throws, and one that threw is repeated.  *)
MigrationsFairness == \A r \in Runner : WF_migrationsVars(Step(r))

(* What getMigrationStatus reports as pending.                             *)
PendingFiles == IF tracking THEN File \ recorded ELSE File

-----------------------------------------------------------------------------
(* On PostgreSQL a file that is recorded as applied, and that no later run *)
(* looks at again, has created everything in it, whatever runs and crashes *)
(* interleave.                                                             *)
RecordedIsBuilt ==
  dialect = "postgresql" => \A f \in recorded : Objects(f) \subseteq schema

(* On MySQL a recorded file may lack tables or indexes, the unique index   *)
(* of the idempotency keys among them.  It is complete again as soon as    *)
(* the run that creates them has ended, unless a fault cut that run short. *)
IncompleteOnlyIfCut ==
  \A f \in recorded :
    \/ Objects(f) \subseteq schema
    \/ f \in cut
    \/ \E r \in Runner : pc[r] = "apply" /\ file[r] = f

(* Files are recorded in the order of their names, so that no run is told  *)
(* to create the indexes of a table that an earlier file has yet to create.*)
RecordedInOrder == \A f \in recorded : 1 .. f \subseteq recorded

(* Runs that are repeated until one returns all end, with no file pending  *)
(* and, unless a fault has cut one short on MySQL, everything created.     *)
MigrationsFinish ==
  <>[](/\ \A r \in Runner : pc[r] = "done"
       /\ PendingFiles = {}
       /\ \A f \in File \ cut : Objects(f) \subseteq schema)
=============================================================================
