-------------------------------- MODULE Programs --------------------------------
(***************************************************************************)
(* What the image runs, by the command it is given: the admin API, the     *)
(* worker (or a program of its own with the worker's package), or the      *)
(* migrations, in as many processes as were started at a time.  The        *)
(* commands share the entry point and nothing else in their processes.     *)
(***************************************************************************)
EXTENDS WorkerProcess, ApiServer, Migrations

VARIABLE command

workerOnly == <<vars, mode, main, metricsEnabled, serviceVars>>
apiOnly == <<db, phase, attempt, adapterPool, pools, handler, status, requestVars>>
programVars == <<command, heard, exit, workerOnly, apiOnly, migrationsVars>>

(* The API and the worker are started on a database that is migrated.      *)
Migrated ==
  /\ dialect \in {"postgresql", "mysql"}
  /\ schema = UNION {Objects(f) : f \in File}
  /\ tracking = TRUE /\ recorded = File
  /\ pc = [r \in Runner |-> "done"]
  /\ known = [r \in Runner |-> {}]
  /\ file = [r \in Runner |-> 0] /\ pos = [r \in Runner |-> 1]
  /\ made = [r \in Runner |-> {}] /\ faults = 0 /\ cut = {}

(* What the other commands would do with it is left at one value.          *)
ProgramsInit ==
  /\ command \in {"api", "worker", "migrate"}
  /\ ProcessInit /\ (command # "worker" => mode = "command" /\ ~metricsEnabled)
  /\ ApiInit /\ (command # "api" => \A e \in Event : status[e] = "absent")
  /\ IF command = "migrate" THEN MigrationsInit ELSE Migrated /\ dialect = "mysql"

WorkerMain(A) == command = "worker" /\ A /\ UNCHANGED <<command, apiOnly, migrationsVars>>
ApiMain(A) == command = "api" /\ A /\ UNCHANGED <<command, workerOnly, migrationsVars>>
Migrate(A) == command = "migrate" /\ A /\ UNCHANGED <<command, heard, exit, workerOnly, apiOnly>>

ProgramsNext == WorkerMain(ProcessNext) \/ ApiMain(ApiNext) \/ Migrate(MigrationsNext)

ProgramsSpec == ProgramsInit /\ [][ProgramsNext]_programVars

(* Of a command that is not run no step is ever enabled.                   *)
ProgramsFairSpec == ProgramsSpec /\ ProcessFairness /\ ApiFairness /\ MigrationsFairness
=============================================================================
