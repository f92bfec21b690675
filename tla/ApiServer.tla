------------------------------- MODULE ApiServer -------------------------------
(***************************************************************************)
(* The process of the admin API, from its start to its exit: the database  *)
(* it detects and connects to, the requests it answers while workers move  *)
(* the same events on, and the shutdown on a signal, or on two.            *)
(*                                                                         *)
(* A request is a sequence of queries of its own, each on a connection of  *)
(* the pool and none in a transaction with another.  A query is one step:  *)
(* what the handler does next it does when the rows arrive.                *)
(***************************************************************************)
EXTENDS Naturals, FiniteSets, EntryPoint

CONSTANTS
  Event,         \* ids that requests name
  Slot,          \* requests that are open at the same time
  MaxRetries,    \* maxRetries of the adapter
  MaxSignals     \* bound on the signals the process gets

ASSUME ApiAssumption == MaxRetries \in Nat /\ MaxSignals \in Nat

VARIABLES
  db,         \* the adapter's database
  phase,      \* where main() is
  attempt,    \* of createPool
  adapterPool,\* the pool of the adapter
  pools,      \* pools that exist and have not been ended
  handler,    \* the shutdown handler of each signal
  status,     \* of each event, "absent" before it is published
  req,        \* the open request of each slot
  other,      \* history: events that could not be replayed at some moment
              \* of each request
  answer      \* history: the answer that the last step has given

serverVars == <<db, phase, attempt, adapterPool, pools, handler, heard, exit>>
requestVars == <<req, other, answer>>
apiVars == <<serverVars, status, requestVars>>

Status == {"absent", "pending", "processing", "succeeded", "failed", "dlq"}
Replayable == {"failed", "dlq"}

Idle == [op |-> "none", pc |-> "free", on |-> {}, asked |-> ""]
NoAnswer == [on |-> {}, code |-> 0]

Working(s) == req[s].pc \in {"select", "update", "lookup", "ping"}
Busy(s) == req[s].pc # "free"

ApiTypeOK ==
  /\ db \in {"unknown", "postgresql", "mysql"}
  /\ phase \in {"preload", "loading", "connecting", "connected", "listening", "serving"}
  /\ attempt \in 1 .. MaxRetries + 1
  /\ adapterPool \in {"none", "open", "ending", "ended"}
  /\ pools \in 0 .. MaxRetries + 1
  /\ handler \in [1 .. MaxSignals -> {"none", "closing", "ending"}]
  /\ heard \in BOOLEAN
  /\ exit \in {"running", "0", "1", "killed"}
  /\ status \in [Event -> Status]
  /\ \A s \in Slot :
       /\ req[s].op \in {"none", "replay", "range", "get", "ready"}
       /\ req[s].pc \in {"free", "receiving", "select", "update", "lookup", "ping"}
       /\ req[s].on \subseteq Event
       /\ req[s].asked \in Replayable \cup {""}
  /\ other \in [Slot -> SUBSET Event]
  /\ answer.on \subseteq Event
  /\ answer.code \in {0, 200, 400, 404, 409, 422, 500, 503}

ApiInit ==
  /\ db = "unknown" /\ phase = "preload" /\ attempt = 1
  /\ adapterPool = "none" /\ pools = 0
  /\ handler = [h \in 1 .. MaxSignals |-> "none"]
  /\ heard = FALSE /\ exit = "running"
  /\ status \in [Event -> Status]
  /\ req = [s \in Slot |-> Idle]
  /\ other = [s \in Slot |-> {}]
  /\ answer = NoAnswer

-----------------------------------------------------------------------------
(* DATABASE_TYPE decides; without it the url, and PostgreSQL if both       *)
(* adapters can handle it.                                                 *)
detectDatabaseType(explicitType, isMySql, isPostgres) ==
  IF explicitType # "unset" THEN explicitType
  ELSE IF isPostgres THEN "postgresql"
  ELSE IF isMySql THEN "mysql"
  ELSE "unsupported"

PreloadServer ==
  /\ phase = "preload" /\ phase' = "loading"
  /\ LoadPreloadModules
  /\ UNCHANGED <<db, attempt, adapterPool, pools, handler, exit, status, requestVars>>

(* A configuration that does not validate ends the process.                *)
loadConfig ==
  /\ phase = "loading"
  /\ exit' = "1"
  /\ UNCHANGED <<db, phase, attempt, adapterPool, pools, handler, heard, status, requestVars>>

createDatabaseAdapter ==
  /\ phase = "loading"
  /\ \E explicitType \in {"unset", "postgresql", "mysql"}, isMySql, isPostgres \in BOOLEAN :
       LET type == detectDatabaseType(explicitType, isMySql, isPostgres)
       IN IF type = "unsupported"
          THEN exit' = "1" /\ UNCHANGED <<db, phase, pools>>
          ELSE /\ db' = type /\ phase' = "connecting" /\ UNCHANGED exit
               /\ pools' = 1
  /\ UNCHANGED <<attempt, adapterPool, handler, heard, status, requestVars>>

(* The first connection is made and the adapter has its pool.              *)
initialize ==
  /\ phase = "connecting"
  /\ phase' = "connected" /\ adapterPool' = "open"
  /\ UNCHANGED <<db, attempt, pools, handler, exit, heard, status, requestVars>>

(* One pool for all attempts; when it is given up it is ended.             *)
PgConnectFails ==
  /\ phase = "connecting" /\ db = "postgresql"
  /\ IF attempt < MaxRetries
     THEN attempt' = attempt + 1 /\ UNCHANGED <<pools, exit>>
     ELSE pools' = 0 /\ exit' = "1" /\ UNCHANGED attempt
  /\ UNCHANGED <<db, phase, adapterPool, handler, heard, status, requestVars>>

\* Mutant: one attempt too many.
MySqlConnectFails_OneTooMany ==
  /\ phase = "connecting" /\ db = "mysql"
  /\ IF attempt <= MaxRetries + 1
     THEN attempt' = attempt + 1 /\ pools' = pools + 1 /\ UNCHANGED exit
     ELSE exit' = "1" /\ UNCHANGED <<attempt, pools>>
  /\ UNCHANGED <<db, phase, adapterPool, handler, heard, status, requestVars>>

(* A pool for each attempt, and one attempt more; the pool of an attempt   *)
(* that failed is forgotten as it is.                                      *)
MySqlConnectFails ==
  /\ phase = "connecting" /\ db = "mysql"
  /\ IF attempt <= MaxRetries
     THEN attempt' = attempt + 1 /\ pools' = pools + 1 /\ UNCHANGED exit
     ELSE exit' = "1" /\ UNCHANGED <<attempt, pools>>
  /\ UNCHANGED <<db, phase, adapterPool, handler, heard, status, requestVars>>

(* createServer, and listen() resolves or rejects.                         *)
Listen ==
  /\ phase = "connected"
  /\ \/ phase' = "listening" /\ UNCHANGED exit
     \/ exit' = "1" /\ UNCHANGED phase
  /\ UNCHANGED <<db, attempt, adapterPool, pools, handler, heard, status, requestVars>>

InstallHandlers ==
  /\ phase = "listening" /\ phase' = "serving"
  /\ heard' = TRUE
  /\ UNCHANGED <<db, attempt, adapterPool, pools, handler, exit, status, requestVars>>

-----------------------------------------------------------------------------
Replays(s) == req[s].op \in {"replay", "range"} /\ Working(s)

(* While requests are open workers and publishers change the events.  An   *)
(* event that has succeeded stays: no code deletes one.                    *)
Transition ==
  { <<"absent", "pending">>, <<"pending", "processing">>, <<"failed", "processing">>,
    <<"processing", "succeeded">>, <<"processing", "failed">>, <<"processing", "dlq">> }

(* The statuses become new.                                                *)
Become(new) ==
  /\ status' = new
  /\ other' = [s \in Slot |->
       IF Replays(s) THEN other[s] \cup {e \in Event : new[e] \notin Replayable} ELSE {}]

WorkerStep(e) ==
  /\ \E to \in Status :
       <<status[e], to>> \in Transition /\ Become([status EXCEPT ![e] = to])
  /\ answer' = NoAnswer
  /\ UNCHANGED <<serverVars, req>>

SetPending(S) == Become([e \in Event |-> IF e \in S THEN "pending" ELSE status[e]])

NoChange ==
  UNCHANGED status /\ UNCHANGED other

\* Mutant: the server is not told to close.
Accepting_UntilTheEnd == phase \in {"listening", "serving"}

(* fastify.close() refuses connections from the first signal on.           *)
Accepting == phase \in {"listening", "serving"} /\ \A h \in DOMAIN handler : handler[h] = "none"

TurnsTo(s, to) ==
  /\ req' = [req EXCEPT ![s] = to]
  /\ answer' = NoAnswer

Accept(s, op, pc, on, asked) ==
  /\ Accepting
  /\ ~Busy(s)
  /\ TurnsTo(s, [op |-> op, pc |-> pc, on |-> on, asked |-> asked])
  /\ UNCHANGED <<serverVars, status>>

(* What happens to the events counts from here on.                         *)
Watch(s) == other' = [other EXCEPT ![s] = {e \in Event : status[e] \notin Replayable}]

PostReplay(s, e) == Accept(s, "replay", "select", {e}, "") /\ Watch(s)
PostReplayRange(s, asked) == Accept(s, "range", "receiving", {}, asked) /\ UNCHANGED other
GetEvent(s, e) == Accept(s, "get", "select", {e}, "") /\ UNCHANGED other
GetReady(s) == Accept(s, "ready", "ping", {}, "") /\ UNCHANGED other

(* The answer, with the ids it names.                                      *)
Send(s, code, on) ==
  /\ req' = [req EXCEPT ![s] = Idle]
  /\ answer' = [on |-> on, code |-> code]

(* The body is complete; what the schema refuses is answered at once.  The *)
(* JSON schema leaves out that startDate comes before endDate.             *)
Validate(s) ==
  /\ req[s].pc = "receiving"
  /\ \/ TurnsTo(s, [req[s] EXCEPT !.pc = "select"]) /\ Watch(s)
     \/ Send(s, 400, {}) /\ UNCHANGED other
  /\ UNCHANGED <<serverVars, status>>

-----------------------------------------------------------------------------
(* The codes a query can fail with, and the error each becomes.            *)
ErrorCode == {"connection", "cancelled", "locked", "deadlock"}

mapPostgresError(code) ==
  CASE code = "unique" -> "ConstraintViolationError: unique"
    [] code = "connection" -> "ConnectionError"
    [] code \in {"cancelled", "locked"} -> "QueryTimeoutError"
    [] OTHER -> "DatabaseError"

mapMySQLError(code) ==
  CASE code = "unique" -> "ConstraintViolationError: duplicate"
    [] code = "connection" -> "ConnectionError"
    [] code \in {"cancelled", "locked"} -> "QueryTimeoutError"
    [] OTHER -> "DatabaseError"

errorHandler(error) ==
  CASE error = "NotFoundError" -> 404
    [] error = "InvalidStateError" -> 422
    [] error = "ConstraintViolationError: unique" -> 409
    [] error = "ConstraintViolationError: duplicate" -> 400
    [] OTHER -> 500

Throw(s, error) == Send(s, errorHandler(error), {})

ThrowDatabaseError(s, code) ==
  Throw(s, IF db = "mysql" THEN mapMySQLError(code) ELSE mapPostgresError(code))

(* A query of a handler fails, before or after it had its effect.          *)
QueryFails(s) ==
  /\ Working(s) /\ req[s].pc # "ping"
  /\ \E code \in ErrorCode : ThrowDatabaseError(s, code)
  /\ IF req[s].pc = "update"
     THEN NoChange \/ SetPending({e \in req[s].on : req[s].op = "range" \/ status[e] \in Replayable})
     ELSE NoChange
  /\ UNCHANGED serverVars

(* replayEvent: what cannot be replayed is looked up.                      *)
ReplaySelect(s) ==
  /\ req[s].op = "replay" /\ req[s].pc = "select"
  /\ \E e \in req[s].on :
       TurnsTo(s, [req[s] EXCEPT !.pc = IF status[e] \in Replayable THEN "update" ELSE "lookup"])
  /\ NoChange /\ UNCHANGED serverVars

\* Mutant: the UPDATE does not look at the status again.
ReplayUpdate_Unguarded(s) ==
  /\ req[s].op = "replay" /\ req[s].pc = "update"
  /\ SetPending(req[s].on) /\ Send(s, 200, req[s].on)
  /\ UNCHANGED serverVars

(* The UPDATE looks at the status again; the previousStatus of the answer  *)
(* is that of the SELECT.                                                  *)
ReplayUpdate(s) ==
  /\ req[s].op = "replay" /\ req[s].pc = "update"
  /\ IF \A e \in req[s].on : status[e] \in Replayable
     THEN SetPending(req[s].on) /\ Send(s, 200, req[s].on)
     ELSE NoChange /\ TurnsTo(s, [req[s] EXCEPT !.pc = "lookup"])
  /\ UNCHANGED serverVars

(* The status the answer names is that of this third query.                *)
ReplayLookup(s) ==
  /\ req[s].op = "replay" /\ req[s].pc = "lookup"
  /\ \E e \in req[s].on :
       IF status[e] = "absent" THEN Throw(s, "NotFoundError")
       ELSE Throw(s, "InvalidStateError")
  /\ NoChange /\ UNCHANGED serverVars

(* Events with the status asked for, in the dates, of the type, up to the  *)
(* limit; dates in the wrong order select none.                            *)
RangeSelect(s) ==
  /\ req[s].op = "range" /\ req[s].pc = "select"
  /\ \E S \in SUBSET {e \in Event : status[e] = req[s].asked} :
       IF S = {} THEN Send(s, 200, {})
       ELSE TurnsTo(s, [req[s] EXCEPT !.pc = "update", !.on = S])
  /\ NoChange /\ UNCHANGED serverVars

(* By id alone.  On PostgreSQL an event that has succeeded meanwhile comes *)
(* back under the unique index, where its key may have been used again.    *)
RangeUpdate(s) ==
  /\ req[s].op = "range" /\ req[s].pc = "update"
  /\ \/ SetPending(req[s].on) /\ Send(s, 200, req[s].on)
     \/ /\ db = "postgresql" /\ \E e \in req[s].on : status[e] = "succeeded"
        /\ NoChange /\ ThrowDatabaseError(s, "unique")
  /\ UNCHANGED serverVars

GetSelect(s) ==
  /\ req[s].op = "get" /\ req[s].pc = "select"
  /\ \E e \in req[s].on :
       IF status[e] = "absent" THEN Throw(s, "NotFoundError")
       ELSE Send(s, 200, {e})
  /\ NoChange /\ UNCHANGED serverVars

(* checkHealth: a ping of a pool that is there is answered or fails, which *)
(* it reports; it throws no error.                                         *)
checkHealth == IF adapterPool = "open" THEN BOOLEAN ELSE {FALSE}

Readiness(s) ==
  /\ req[s].pc = "ping"
  /\ \E healthy \in checkHealth : Send(s, IF healthy THEN 200 ELSE 503, {})
  /\ NoChange /\ UNCHANGED serverVars

QueryStep(s) ==
  \/ QueryFails(s) \/ Readiness(s) \/ GetSelect(s)
  \/ ReplaySelect(s) \/ ReplayUpdate(s) \/ ReplayLookup(s)
  \/ RangeSelect(s) \/ RangeUpdate(s)

-----------------------------------------------------------------------------
(* SIGINT or SIGTERM: before its handlers are installed what the preloaded *)
(* modules leave of the default, a call of shutdown() for each one after.  *)
SignalServer(h) ==
  /\ handler[h] = "none" /\ \A g \in 1 .. h - 1 : handler[g] # "none"
  /\ IF phase = "serving"
     THEN handler' = [handler EXCEPT ![h] = "closing"] /\ UNCHANGED exit
     ELSE DefaultAction /\ UNCHANGED handler
  /\ UNCHANGED <<db, phase, attempt, adapterPool, pools, heard, status, requestVars>>

\* Mutant: shutdown() does not await server.close().
ServerClosed_NotAwaited(h) ==
  /\ handler[h] = "closing"
  /\ handler' = [handler EXCEPT ![h] = "ending"]
  /\ IF adapterPool = "open" THEN adapterPool' = "ending" /\ UNCHANGED exit
     ELSE exit' = "1" /\ UNCHANGED adapterPool
  /\ UNCHANGED <<db, phase, attempt, pools, heard, status, requestVars>>

(* server.close() resolves when no request is open, and the adapter ends   *)
(* its pool; the second call of end() rejects.                             *)
ServerClosed(h) ==
  /\ handler[h] = "closing" /\ \A s \in Slot : ~Busy(s)
  /\ handler' = [handler EXCEPT ![h] = "ending"]
  /\ IF adapterPool = "open" THEN adapterPool' = "ending" /\ UNCHANGED exit
     ELSE exit' = "1" /\ UNCHANGED adapterPool
  /\ UNCHANGED <<db, phase, attempt, pools, heard, status, requestVars>>

PoolEnds ==
  /\ adapterPool = "ending"
  /\ adapterPool' = "ended" /\ pools' = pools - 1
  /\ exit' = "0"
  /\ UNCHANGED <<db, phase, attempt, handler, heard, status, requestVars>>

\* Mutant: the error is logged and the process exits as if there was none.
PoolEndFails_Swallowed ==
  /\ adapterPool = "ending"
  /\ exit' = "0"
  /\ UNCHANGED <<db, phase, attempt, adapterPool, pools, handler, heard, status, requestVars>>

(* shutdownPool rejects after its timeout, or when a connection fails.     *)
PoolEndFails ==
  /\ adapterPool = "ending"
  /\ exit' = "1"
  /\ UNCHANGED <<db, phase, attempt, adapterPool, pools, handler, heard, status, requestVars>>

ShutdownStep == (\E h \in DOMAIN handler : ServerClosed(h)) \/ PoolEndFails

ApiNext ==
  /\ exit = "running"
  /\ \/ PreloadServer \/ loadConfig \/ createDatabaseAdapter \/ initialize
     \/ PgConnectFails \/ MySqlConnectFails \/ Listen \/ InstallHandlers
     \/ \E e \in Event : WorkerStep(e)
     \/ \E s \in Slot :
          \/ \E e \in Event : PostReplay(s, e) \/ GetEvent(s, e)
          \/ \E asked \in Replayable : PostReplayRange(s, asked)
          \/ GetReady(s) \/ Validate(s) \/ QueryStep(s)
     \/ \E h \in DOMAIN handler : SignalServer(h)
     \/ ShutdownStep \/ PoolEnds

ApiSpec == ApiInit /\ [][ApiNext]_apiVars

(* A query is answered or fails, and the timer of shutdownPool fires.      *)
(* Nothing ends a request whose body is not sent, or makes a pool end.     *)
ApiFairness ==
  /\ \A s \in Slot : WF_apiVars(exit = "running" /\ QueryStep(s))
  /\ WF_apiVars(exit = "running" /\ ShutdownStep)

ApiFairSpec == ApiSpec /\ ApiFairness

-----------------------------------------------------------------------------
(* What an answer says is so, whatever workers and other requests do       *)
(* between the queries of a replay: 200 means that this request itself set *)
(* each event it names to pending, and for a single one that it took it    *)
(* out of failed or dlq, so that no two requests are told that they did;   *)
(* 404 that there is no such event, 422 that the event could not be        *)
(* replayed at some moment of the request (though maybe it can be now);    *)
(* and every answer but 200 and 500 that nothing was changed.              *)
AnswersAreTrue ==
  [][\A s \in Slot : Replays(s) /\ req'[s] = Idle =>
       LET on == req[s].on
           code == answer'.code
           named == answer'.on
       IN /\ code = 404 => \A e \in on : status[e] = "absent"
          /\ code = 422 => on \subseteq other[s]
          /\ code = 200 => \A e \in named : status'[e] = "pending"
          /\ code = 200 /\ req[s].op = "replay" => named = on /\ \A e \in on : status[e] \in Replayable
          /\ code \notin {200, 500} => status' = status]_apiVars

(* From the first signal on every open request still has the pool and the  *)
(* process until it is answered, even when a second signal comes.          *)
NoRequestIsCutOff ==
  (\E s \in Slot : Busy(s)) => adapterPool = "open" /\ exit \in {"running", "killed"}

(* Exit code 0 means that the pool was ended, once: a second signal can    *)
(* only turn it into 1.  On MySQL the pools of failed attempts are left.   *)
PoolsAreEnded ==
  exit = "0" =>
    /\ adapterPool = "ended"
    /\ pools = IF db = "mysql" THEN attempt - 1 ELSE 0

(* A signal ends the process once the requests that are open have sent     *)
(* their bodies, however many of their queries fail, and whether the pool  *)
(* ends or not.                                                            *)
ApiStops ==
  (\E h \in DOMAIN handler : handler[h] # "none")
    ~> exit # "running" \/ \E s \in Slot : req[s].pc = "receiving"

(* "Request timeout (ms)": every request ends.  Violated: REQUEST_TIMEOUT_ *)
(* MS is read and not given to Fastify, so a client that withholds the     *)
(* body of its request holds it, and with it a shutdown, as it likes.      *)
RequestsEnd == \A s \in Slot : Busy(s) ~> ~Busy(s) \/ exit # "running"
=============================================================================
