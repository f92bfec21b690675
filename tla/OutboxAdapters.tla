---------------------------- MODULE OutboxAdapters ----------------------------
(***************************************************************************)
(* The outbox on the adapter that the configuration selects: every process *)
(* of a deployment has the same DATABASE_URL, so all its workers run the   *)
(* statements of OutboxPg, or all those of OutboxMySql.                    *)
(***************************************************************************)
EXTENDS OutboxPg

CONSTANT Scheduler     \* maintenance schedulers of a deployment on MySQL

VARIABLES
  database,      \* the adapter selected
  recovering     \* see OutboxMySql

MySql == INSTANCE OutboxMySql

adapterVars == <<vars, database, recovering>>

AdaptersInit ==
  /\ database \in {"postgresql", "mysql"}
  /\ MySql!Init

OnPg(A) == database = "postgresql" /\ A /\ UNCHANGED <<database, recovering>>
OnMySql(A) == database = "mysql" /\ A /\ UNCHANGED database

AdaptersNext == OnPg(Next) \/ OnMySql(MySql!Next)

AdaptersSpec == AdaptersInit /\ [][AdaptersNext]_adapterVars

-----------------------------------------------------------------------------
(* A live loop polls, and reads what it has claimed; publish() returns or  *)
(* throws (the publishers bound it by timeouts); a statement is answered;  *)
(* the clock runs; the recovery timer fires; a dead process is started     *)
(* again.                                                                  *)
Claim(w) ==
  \/ OnPg(ClaimPendingEvents(w))
  \/ OnMySql(MySql!ClaimCommits(w) \/ MySql!ClaimReads(w))

UpdateIsAnswered(w, k) == OnPg(UpdateLands(w, k)) \/ OnMySql(MySql!UpdateLands(w, k))
Elsewhere(A) == A /\ UNCHANGED <<database, recovering>>

LateUpdates ==
  \E s \in late : OnPg(LateUpdate(s)) \/ OnMySql(MySql!LateUpdate(s))

Recover(m) ==
  OnPg(RecoverStaleEvents) \/ OnMySql(MySql!RecoverSelect(m) \/ MySql!RecoverUpdate(m))

AdaptersFairness ==
  /\ \A w \in Worker :
       /\ WF_adapterVars(Claim(w))
       /\ WF_adapterVars(Elsewhere(PublishEnds(w)))
       /\ \A k \in Decision : WF_adapterVars(UpdateIsAnswered(w, k))
       /\ WF_adapterVars(Elsewhere(ProcessStarts(w)))
  /\ \A e \in Event : WF_adapterVars(Elsewhere(Clock(e)))
  /\ WF_adapterVars(LateUpdates)
  /\ \A m \in Scheduler : WF_adapterVars(Recover(m))
  /\ WF_adapterVars(OnPg(ReplayUpdate) \/ OnMySql(MySql!ReplayUpdate))

AdaptersFairSpec == AdaptersSpec /\ AdaptersFairness

=============================================================================
