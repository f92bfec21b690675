---------------------------- MODULE ApiServer_proofs ----------------------------
(***************************************************************************)
(* What holds of the process of the admin API for every number of events,  *)
(* open requests, connection attempts and signals.                         *)
(***************************************************************************)
EXTENDS ApiServer, TLAPS

Pc == {"free", "receiving", "select", "update", "lookup", "ping"}
Op == {"none", "replay", "range", "get", "ready"}
Request == [op : Op, pc : Pc, on : SUBSET Event, asked : Replayable \cup {""}]
Code == {0, 200, 400, 404, 409, 422, 500, 503}
Answer == [on : SUBSET Event, code : Code]

Types ==
  /\ db \in {"unknown", "postgresql", "mysql"}
  /\ phase \in {"preload", "loading", "connecting", "connected", "listening", "serving"}
  /\ attempt \in 1 .. MaxRetries + 1
  /\ adapterPool \in {"none", "open", "ending", "ended"}
  /\ handler \in [1 .. MaxSignals -> {"none", "closing", "ending"}]
  /\ heard \in BOOLEAN
  /\ exit \in {"running", "0", "1", "killed"}
  /\ status \in [Event -> Status]
  /\ req \in [Slot -> Request]
  /\ other \in [Slot -> SUBSET Event]
  /\ answer \in Answer

(* What each phase has made, and who has told the pool to end.             *)
Stages ==
  /\ phase \in {"preload", "loading"} <=> db = "unknown"
  /\ phase \in {"preload", "loading"} => attempt = 1
  /\ adapterPool = "none" <=> phase \in {"preload", "loading", "connecting"}
  /\ \A h \in 1 .. MaxSignals : handler[h] # "none" => phase = "serving"
  /\ adapterPool \in {"ending", "ended"} => \E h \in 1 .. MaxSignals : handler[h] = "ending"
  /\ exit = "0" => adapterPool = "ended"

(* The pools that the attempts made so far have left.                      *)
Made == IF db = "mysql" THEN attempt ELSE 1

PoolsAreCounted ==
  IF phase \in {"preload", "loading"} THEN pools = 0
  ELSE IF adapterPool = "ended" THEN pools = Made - 1
  ELSE \/ pools = Made
       \/ phase = "connecting" /\ exit = "1" /\ pools = 0

(* A request is open only where there is a pool and nobody ends it.        *)
OpenIsServed ==
  (\E s \in Slot : Busy(s)) =>
    phase \in {"listening", "serving"} /\ adapterPool = "open" /\ exit \in {"running", "killed"}

(* A request is at a step of its operation, on what that step works on.    *)
WellShaped(r) ==
  \/ r.pc = "free" /\ r.op = "none"
  \/ r.pc \in {"select", "update", "lookup"} /\ r.op = "replay" /\ \E e \in Event : r.on = {e}
  \/ r.pc \in {"receiving", "select", "update"} /\ r.op = "range"
  \/ r.pc = "select" /\ r.op = "get" /\ \E e \in Event : r.on = {e}
  \/ r.pc = "ping" /\ r.op = "ready"

(* A replay has seen every event that it cannot replay now, and looks up   *)
(* only one that it could not replay at some moment.                       *)
Witnessed(s) ==
  /\ WellShaped(req[s])
  /\ Replays(s) => {e \in Event : status[e] \notin Replayable} \subseteq other[s]
  /\ req[s].pc = "lookup" => req[s].on \subseteq other[s]

Replaying == \A s \in Slot : Witnessed(s)

ApiInv == Types /\ Stages /\ PoolsAreCounted /\ OpenIsServed /\ Replaying

-----------------------------------------------------------------------------
(* What a step does, by its effect.                                        *)
RequestStep(s) ==
  \/ \E e \in Event : PostReplay(s, e) \/ GetEvent(s, e)
  \/ \E asked \in Replayable : PostReplayRange(s, asked)
  \/ GetReady(s) \/ Validate(s) \/ QueryStep(s)

StartStep ==
  \/ PreloadServer \/ loadConfig \/ createDatabaseAdapter \/ initialize
  \/ PgConnectFails \/ MySqlConnectFails \/ Listen \/ InstallHandlers

StopStep ==
  \/ \E h \in 1 .. MaxSignals : SignalServer(h) \/ ServerClosed(h)
  \/ PoolEnds \/ PoolEndFails

LEMMA StepsOfNext ==
  ASSUME ApiNext, handler \in [1 .. MaxSignals -> {"none", "closing", "ending"}]
  PROVE  /\ exit = "running"
         /\ \/ StartStep \/ StopStep
            \/ \E e \in Event : WorkerStep(e)
            \/ \E s \in Slot : RequestStep(s)
<1>1. DOMAIN handler = 1 .. MaxSignals
  OBVIOUS
<1>. QED
  BY <1>1 DEF ApiNext, StartStep, StopStep, ShutdownStep, RequestStep

(* The replays that go on see what the step does to the events.            *)
ReplaysSee ==
  /\ status' \in [Event -> Status]
  /\ other' \in [Slot -> SUBSET Event]
  /\ \A t \in Slot : Replays(t) => \A e \in Event : e \in other[t] \/ status'[e] \notin Replayable => e \in other'[t]

(* The slot's request goes to a step that it may be at.                    *)
MovesTo(s, to) ==
  /\ to \in Request /\ WellShaped(to)
  /\ req' = [req EXCEPT ![s] = to]
  /\ to.op \in {"replay", "range"} /\ to.pc \in {"select", "update", "lookup"} =>
       \A e \in Event : status'[e] \notin Replayable => e \in other'[s]
  /\ to.pc = "lookup" => to.on \subseteq other'[s]

Moves(s) == \E to : MovesTo(s, to)

Served(s) ==
  /\ ReplaysSee /\ Moves(s) /\ answer' \in Answer
  /\ UNCHANGED serverVars
  /\ Busy(s) \/ Accepting

(* A new state of the events is seen by the replays that are open.         *)
LEMMA BecomeIsSeen ==
  ASSUME Types, NEW new \in [Event -> Status], Become(new)
  PROVE  ReplaysSee
<1>1. other \in [Slot -> SUBSET Event]
  BY DEF Types
<1>2. other' = [s \in Slot |->
         IF Replays(s) THEN other[s] \cup {e \in Event : new[e] \notin Replayable} ELSE {}]
  BY DEF Become
<1>3. status' = new
  BY DEF Become
<1>4. other' \in [Slot -> SUBSET Event]
  BY <1>1, <1>2
<1>5. ASSUME NEW t \in Slot, Replays(t), NEW e \in Event, e \in other[t] \/ status'[e] \notin Replayable
      PROVE  e \in other'[t]
  BY <1>2, <1>3, <1>5
<1>. QED
  BY <1>3, <1>4, <1>5 DEF ReplaysSee

LEMMA SetPendingIsSeen ==
  ASSUME Types, NEW S, SetPending(S)
  PROVE  ReplaysSee
<1>1. [e \in Event |-> IF e \in S THEN "pending" ELSE status[e]] \in [Event -> Status]
  BY DEF Types, Status
<1>. QED
  BY <1>1, BecomeIsSeen DEF SetPending

LEMMA NoChangeIsSeen ==
  ASSUME Types, Replaying, NoChange
  PROVE  ReplaysSee
BY DEF Types, Replaying, Witnessed, NoChange, ReplaysSee

(* A request that begins to replay sees everything from here on.           *)
LEMMA WatchIsSeen ==
  ASSUME Types, Replaying, NEW s \in Slot, ~Replays(s), Watch(s), UNCHANGED status
  PROVE  /\ ReplaysSee
         /\ \A e \in Event : status'[e] \notin Replayable => e \in other'[s]
BY DEF Types, Replaying, Witnessed, Watch, ReplaysSee

(* Answers end a request.                                                  *)
LEMMA SentMoves ==
  ASSUME Types, NEW s \in Slot, NEW code \in Code, NEW on \in SUBSET Event, Send(s, code, on)
  PROVE  Moves(s) /\ answer' \in Answer
<1>1. MovesTo(s, Idle)
  BY DEF MovesTo, Idle, WellShaped, Request, Op, Pc, Send
<1>2. answer' \in Answer
  BY DEF Send, Answer
<1>. QED
  BY <1>1, <1>2 DEF Moves

LEMMA NoAnswerTyped == NoAnswer \in Answer
BY DEF NoAnswer, Answer, Code

LEMMA ErrorsHaveCodes == ASSUME NEW error PROVE errorHandler(error) \in Code
BY DEF errorHandler, Code

LEMMA ThrownMoves ==
  ASSUME Types, NEW s \in Slot, NEW error, Throw(s, error)
  PROVE  Moves(s) /\ answer' \in Answer
BY ErrorsHaveCodes, SentMoves DEF Throw

LEMMA ThrownDatabaseErrorMoves ==
  ASSUME Types, NEW s \in Slot, NEW code, ThrowDatabaseError(s, code)
  PROVE  Moves(s) /\ answer' \in Answer
BY ThrownMoves DEF ThrowDatabaseError


-----------------------------------------------------------------------------
(* Every step of a request, from its arrival to its answer.                *)
LEMMA AcceptMoves ==
  ASSUME Types, NEW s \in Slot, NEW op, NEW pc, NEW on, NEW asked,
         Accept(s, op, pc, on, asked),
         [op |-> op, pc |-> pc, on |-> on, asked |-> asked] \in Request,
         WellShaped([op |-> op, pc |-> pc, on |-> on, asked |-> asked]),
         pc # "lookup",
         op \in {"replay", "range"} /\ pc # "receiving" =>
           \A e \in Event : status'[e] \notin Replayable => e \in other'[s]
  PROVE  Moves(s) /\ answer' \in Answer /\ Accepting /\ UNCHANGED serverVars
<1> DEFINE to == [op |-> op, pc |-> pc, on |-> on, asked |-> asked]
<1>1. to.op = op /\ to.pc = pc /\ to.on = on /\ to.asked = asked
  OBVIOUS
<1>2. req' = [req EXCEPT ![s] = to] /\ answer' = NoAnswer
  BY DEF Accept, TurnsTo
<1>3. MovesTo(s, to)
  <2> HIDE DEF to
  <2>1. to \in Request /\ WellShaped(to)
    BY DEF to
  <2>. QED
    BY <1>1, <1>2, <2>1 DEF MovesTo
<1>. QED
  BY <1>2, <1>3, NoAnswerTyped DEF Moves, Accept

LEMMA ArrivalIsServed ==
  ASSUME ApiInv, NEW s \in Slot,
         \/ \E e \in Event : PostReplay(s, e) \/ GetEvent(s, e)
         \/ \E asked \in Replayable : PostReplayRange(s, asked)
         \/ GetReady(s)
  PROVE  Served(s)
<1>. USE DEF ApiInv
<1>1. UNCHANGED status /\ ~Busy(s)
  BY DEF PostReplay, GetEvent, PostReplayRange, GetReady, Accept
<1>2. ~Replays(s)
  BY <1>1 DEF Replays, Busy, Working
<1>3. ASSUME NEW e \in Event, PostReplay(s, e)
      PROVE  Served(s)
  <2>1. ReplaysSee /\ \A d \in Event : status'[d] \notin Replayable => d \in other'[s]
    BY <1>1, <1>2, <1>3, WatchIsSeen DEF PostReplay
  <2>2. [op |-> "replay", pc |-> "select", on |-> {e}, asked |-> ""] \in Request
    BY DEF Request, Op, Pc
  <2>3. WellShaped([op |-> "replay", pc |-> "select", on |-> {e}, asked |-> ""])
    BY DEF WellShaped
  <2>4. Moves(s) /\ answer' \in Answer /\ Accepting /\ UNCHANGED serverVars
    BY <1>3, <2>1, <2>2, <2>3, AcceptMoves DEF PostReplay
  <2>. QED
    BY <2>1, <2>4 DEF Served
<1>4. ASSUME UNCHANGED other
      PROVE  ReplaysSee
  BY <1>1, <1>4, NoChangeIsSeen DEF NoChange
<1>5. ASSUME NEW e \in Event, GetEvent(s, e)
      PROVE  Served(s)
  <2>1. [op |-> "get", pc |-> "select", on |-> {e}, asked |-> ""] \in Request
    BY DEF Request, Op, Pc
  <2>2. WellShaped([op |-> "get", pc |-> "select", on |-> {e}, asked |-> ""])
    BY DEF WellShaped
  <2>3. Moves(s) /\ answer' \in Answer /\ Accepting /\ UNCHANGED serverVars
    BY <1>5, <2>1, <2>2, AcceptMoves DEF GetEvent
  <2>. QED
    BY <1>4, <1>5, <2>3 DEF Served, GetEvent
<1>6. ASSUME NEW asked \in Replayable, PostReplayRange(s, asked)
      PROVE  Served(s)
  <2>1. [op |-> "range", pc |-> "receiving", on |-> {}, asked |-> asked] \in Request
    BY DEF Request, Op, Pc
  <2>2. WellShaped([op |-> "range", pc |-> "receiving", on |-> {}, asked |-> asked])
    BY DEF WellShaped
  <2>3. Moves(s) /\ answer' \in Answer /\ Accepting /\ UNCHANGED serverVars
    BY <1>6, <2>1, <2>2, AcceptMoves DEF PostReplayRange
  <2>. QED
    BY <1>4, <1>6, <2>3 DEF Served, PostReplayRange
<1>7. ASSUME GetReady(s)
      PROVE  Served(s)
  <2>1. [op |-> "ready", pc |-> "ping", on |-> {}, asked |-> ""] \in Request
    BY DEF Request, Op, Pc
  <2>2. WellShaped([op |-> "ready", pc |-> "ping", on |-> {}, asked |-> ""])
    BY DEF WellShaped
  <2>3. Moves(s) /\ answer' \in Answer /\ Accepting /\ UNCHANGED serverVars
    BY <1>7, <2>1, <2>2, AcceptMoves DEF GetReady
  <2>. QED
    BY <1>4, <1>7, <2>3 DEF Served, GetReady
<1>. QED
  BY <1>3, <1>5, <1>6, <1>7

LEMMA ValidationIsServed ==
  ASSUME ApiInv, NEW s \in Slot, Validate(s)
  PROVE  Served(s)
<1>. USE DEF ApiInv
<1>1. req[s] \in Request /\ WellShaped(req[s]) /\ req[s].pc = "receiving"
  BY DEF Types, Replaying, Witnessed, Validate
<1>2. Busy(s) /\ ~Replays(s) /\ UNCHANGED <<serverVars, status>>
  BY <1>1 DEF Busy, Replays, Working, Validate
<1>3. CASE TurnsTo(s, [req[s] EXCEPT !.pc = "select"]) /\ Watch(s)
  <2> DEFINE to == [req[s] EXCEPT !.pc = "select"]
  <2>1. to \in Request /\ to.op = req[s].op /\ to.pc = "select"
    BY <1>1 DEF Request, Pc
  <2>2. WellShaped(to)
    BY <1>1, <2>1 DEF WellShaped
  <2>3. ReplaysSee /\ \A d \in Event : status'[d] \notin Replayable => d \in other'[s]
    BY <1>2, <1>3, WatchIsSeen
  <2>4. req' = [req EXCEPT ![s] = to] /\ answer' = NoAnswer
    BY <1>3 DEF TurnsTo
  <2>5. MovesTo(s, to)
    <3> HIDE DEF to
    <3>. QED
      BY <2>1, <2>2, <2>3, <2>4 DEF MovesTo
  <2>. QED
    BY <1>2, <2>3, <2>4, <2>5, NoAnswerTyped DEF Served, Moves
<1>4. CASE Send(s, 400, {}) /\ UNCHANGED other
  <2>1. Moves(s) /\ answer' \in Answer
    BY <1>4, SentMoves DEF Code
  <2>. QED
    BY <1>2, <1>4, <2>1, NoChangeIsSeen DEF Served, NoChange
<1>. QED
  BY <1>3, <1>4 DEF Validate


(* A query of a replay that leads to another one.                          *)
LEMMA ReplayGoesOn ==
  ASSUME ApiInv, NEW s \in Slot, Replays(s), NoChange,
         NEW pc \in {"update", "lookup"}, NEW on \in SUBSET Event,
         TurnsTo(s, [req[s] EXCEPT !.pc = pc, !.on = on]),
         req[s].op = "range" => pc = "update",
         req[s].op = "replay" => on = req[s].on,
         pc = "lookup" => \A e \in on : status[e] \notin Replayable
  PROVE  ReplaysSee /\ Moves(s) /\ answer' \in Answer
<1>. USE DEF ApiInv
<1> DEFINE to == [req[s] EXCEPT !.pc = pc, !.on = on]
<1>1. req[s] \in Request /\ WellShaped(req[s]) /\ req[s].op \in {"replay", "range"}
  BY DEF Types, Replaying, Witnessed, Replays
<1>2. to \in Request /\ to.op = req[s].op /\ to.pc = pc /\ to.on = on
  BY <1>1 DEF Request, Pc
<1>3. WellShaped(to)
  <2>1. CASE req[s].op = "replay"
    <3>1. \E e \in Event : req[s].on = {e}
      BY <1>1, <2>1 DEF WellShaped
    <3>2. to.op = "replay" /\ to.on = req[s].on /\ to.pc \in {"update", "lookup"}
      BY <1>2, <2>1
    <3>. QED
      BY <3>1, <3>2 DEF WellShaped
  <2>2. CASE req[s].op = "range"
    BY <1>2, <2>2 DEF WellShaped
  <2>. QED
    BY <1>1, <2>1, <2>2
<1>4. ReplaysSee
  BY NoChangeIsSeen
<1>5. status' = status /\ other' = other
  BY DEF NoChange
<1>6. \A e \in Event : status'[e] \notin Replayable => e \in other'[s]
  BY <1>4 DEF ReplaysSee
<1>7. pc = "lookup" => on \subseteq other'[s]
  BY <1>5, <1>6
<1>8. req' = [req EXCEPT ![s] = to] /\ answer' = NoAnswer
  BY DEF TurnsTo
<1>9. MovesTo(s, to)
  <2> HIDE DEF to
  <2>. QED
    BY <1>2, <1>3, <1>6, <1>7, <1>8 DEF MovesTo
<1>. QED
  BY <1>4, <1>8, <1>9, NoAnswerTyped DEF Moves

LEMMA QueryIsServed ==
  ASSUME ApiInv, NEW s \in Slot, QueryStep(s)
  PROVE  Served(s)
<1>. USE DEF ApiInv
<1>1. req[s] \in Request /\ WellShaped(req[s]) /\ req[s].on \in SUBSET Event
  BY DEF Types, Replaying, Witnessed, Request
<1>2. Busy(s) /\ UNCHANGED serverVars
  BY DEF QueryStep, QueryFails, Readiness, GetSelect, ReplaySelect, ReplayUpdate, ReplayLookup,
         RangeSelect, RangeUpdate, Busy, Working
<1>3. ASSUME QueryFails(s)
      PROVE  ReplaysSee /\ Moves(s) /\ answer' \in Answer
  <2>1. Moves(s) /\ answer' \in Answer
    BY <1>3, ThrownDatabaseErrorMoves DEF QueryFails
  <2>2. ReplaysSee
    BY <1>3, NoChangeIsSeen, SetPendingIsSeen DEF QueryFails
  <2>. QED
    BY <2>1, <2>2
<1>4. ASSUME Readiness(s)
      PROVE  ReplaysSee /\ Moves(s) /\ answer' \in Answer
  BY <1>4, NoChangeIsSeen, SentMoves DEF Readiness, Code
<1>5. ASSUME GetSelect(s)
      PROVE  ReplaysSee /\ Moves(s) /\ answer' \in Answer
  <2>1. PICK e \in req[s].on : IF status[e] = "absent" THEN Throw(s, "NotFoundError")
                               ELSE Send(s, 200, {e})
    BY <1>5 DEF GetSelect
  <2>2. {e} \in SUBSET Event /\ 200 \in Code
    BY <1>1 DEF Code
  <2>3. Moves(s) /\ answer' \in Answer
    BY <2>1, <2>2, SentMoves, ThrownMoves
  <2>. QED
    BY <1>5, <2>3, NoChangeIsSeen DEF GetSelect
<1>6. ASSUME ReplaySelect(s)
      PROVE  ReplaysSee /\ Moves(s) /\ answer' \in Answer
  <2>1. PICK e \in req[s].on :
          TurnsTo(s, [req[s] EXCEPT !.pc = IF status[e] \in Replayable THEN "update" ELSE "lookup"])
    BY <1>6 DEF ReplaySelect
  <2>2. req[s].on = {e}
    BY <1>1, <1>6, <2>1 DEF ReplaySelect, WellShaped
  <2>3. PICK pc \in {"update", "lookup"} :
          pc = IF status[e] \in Replayable THEN "update" ELSE "lookup"
    OBVIOUS
  <2>4. [req[s] EXCEPT !.pc = pc] = [req[s] EXCEPT !.pc = pc, !.on = req[s].on]
    BY <1>1 DEF Request
  <2>5. TurnsTo(s, [req[s] EXCEPT !.pc = pc, !.on = req[s].on])
    BY <2>1, <2>3, <2>4
  <2>6. Replays(s) /\ NoChange /\ req[s].op = "replay"
    BY <1>6 DEF ReplaySelect, Replays, Working
  <2>7. pc = "lookup" => \A d \in req[s].on : status[d] \notin Replayable
    BY <2>2, <2>3
  <2>. QED
    BY <1>1, <2>5, <2>6, <2>7, ReplayGoesOn
<1>7. ASSUME ReplayUpdate(s)
      PROVE  ReplaysSee /\ Moves(s) /\ answer' \in Answer
  <2>1. CASE \A e \in req[s].on : status[e] \in Replayable
    <3>1. SetPending(req[s].on) /\ Send(s, 200, req[s].on)
      BY <1>7, <2>1 DEF ReplayUpdate
    <3>. QED
      BY <1>1, <3>1, SetPendingIsSeen, SentMoves DEF Code
  <2>2. CASE ~\A e \in req[s].on : status[e] \in Replayable
    <3>1. NoChange /\ TurnsTo(s, [req[s] EXCEPT !.pc = "lookup"])
      BY <1>7, <2>2 DEF ReplayUpdate
    <3>2. [req[s] EXCEPT !.pc = "lookup"] = [req[s] EXCEPT !.pc = "lookup", !.on = req[s].on]
      BY <1>1 DEF Request
    <3>3. TurnsTo(s, [req[s] EXCEPT !.pc = "lookup", !.on = req[s].on])
      BY <3>1, <3>2
    <3>4. \A e \in req[s].on : status[e] \notin Replayable
      BY <1>1, <1>7, <2>2 DEF ReplayUpdate, WellShaped
    <3>5. Replays(s) /\ req[s].op = "replay"
      BY <1>7 DEF ReplayUpdate, Replays, Working
    <3>. QED
      BY <1>1, <3>1, <3>3, <3>4, <3>5, ReplayGoesOn
  <2>. QED
    BY <2>1, <2>2
<1>8. ASSUME ReplayLookup(s)
      PROVE  ReplaysSee /\ Moves(s) /\ answer' \in Answer
  <2>1. Moves(s) /\ answer' \in Answer
    BY <1>8, ThrownMoves DEF ReplayLookup
  <2>. QED
    BY <1>8, <2>1, NoChangeIsSeen DEF ReplayLookup
<1>9. ASSUME RangeSelect(s)
      PROVE  ReplaysSee /\ Moves(s) /\ answer' \in Answer
  <2>1. PICK S \in SUBSET Event :
          IF S = {} THEN Send(s, 200, {})
          ELSE TurnsTo(s, [req[s] EXCEPT !.pc = "update", !.on = S])
    BY <1>9 DEF RangeSelect
  <2>2. NoChange /\ Replays(s) /\ req[s].op = "range"
    BY <1>9 DEF RangeSelect, Replays, Working
  <2>3. CASE S = {}
    BY <2>1, <2>2, <2>3, SentMoves, NoChangeIsSeen DEF Code
  <2>4. CASE S # {}
    BY <2>1, <2>2, <2>4, ReplayGoesOn
  <2>. QED
    BY <2>3, <2>4
<1>10. ASSUME RangeUpdate(s)
       PROVE  ReplaysSee /\ Moves(s) /\ answer' \in Answer
  <2>1. CASE SetPending(req[s].on) /\ Send(s, 200, req[s].on)
    BY <1>1, <2>1, SetPendingIsSeen, SentMoves DEF Code
  <2>2. CASE NoChange /\ ThrowDatabaseError(s, "unique")
    BY <2>2, NoChangeIsSeen, ThrownDatabaseErrorMoves
  <2>. QED
    BY <1>10, <2>1, <2>2 DEF RangeUpdate
<1>. QED
  BY <1>2, <1>3, <1>4, <1>5, <1>6, <1>7, <1>8, <1>9, <1>10 DEF QueryStep, Served


-----------------------------------------------------------------------------
(* The invariant is inductive.                                             *)
LEMMA InitHolds == ASSUME ApiAssumption, ApiInit PROVE ApiInv
<1>1. Types
  <2>1. 1 \in 1 .. MaxRetries + 1
    BY DEF ApiAssumption
  <2>2. Idle \in Request
    BY DEF Idle, Request, Op, Pc
  <2>. QED
    BY <2>1, <2>2, NoAnswerTyped DEF ApiInit, Types
<1>2. Stages
  BY DEF ApiInit, Stages
<1>3. PoolsAreCounted
  BY DEF ApiInit, PoolsAreCounted
<1>4. OpenIsServed /\ Replaying
  BY DEF ApiInit, OpenIsServed, Replaying, Witnessed, WellShaped, Replays, Working, Busy, Idle
<1>. QED
  BY <1>1, <1>2, <1>3, <1>4 DEF ApiInv

(* Nothing of the requests and the events changes.                         *)
LEMMA RequestsAsTheyWere ==
  ASSUME Replaying, UNCHANGED <<status, requestVars>>
  PROVE  Replaying'
BY DEF Replaying, Witnessed, WellShaped, Replays, Working, requestVars

(* A request that the step does not move, with what the replays see.       *)
LEMMA RequestWaits ==
  ASSUME ReplaysSee, NEW t \in Slot, Witnessed(t), req[t] \in Request, req'[t] = req[t]
  PROVE  Witnessed(t)'
<1>1. Replays(t) => \A e \in Event : e \in other[t] \/ status'[e] \notin Replayable => e \in other'[t]
  BY DEF ReplaysSee
<1>2. req[t].pc = "lookup" => Replays(t)
  BY DEF Witnessed, WellShaped, Replays, Working
<1>3. req[t].on \in SUBSET Event
  BY DEF Request
<1>4. WellShaped(req'[t])
  BY DEF Witnessed
<1>5. Replays(t)' <=> Replays(t)
  BY DEF Replays, Working
<1>6. req'[t].pc = "lookup" => req'[t].on \subseteq other'[t]
  BY <1>1, <1>2, <1>3 DEF Witnessed
<1>. QED
  BY <1>1, <1>4, <1>5, <1>6 DEF Witnessed

LEMMA RequestsMove ==
  ASSUME ApiInv, NEW s \in Slot, Moves(s), ReplaysSee
  PROVE  Replaying'
<1>1. PICK to : MovesTo(s, to)
  BY DEF Moves
<1>2. req \in [Slot -> Request] /\ req' = [req EXCEPT ![s] = to]
  BY <1>1 DEF ApiInv, Types, MovesTo
<1>3. req'[s] = to /\ \A t \in Slot \ {s} : req'[t] = req[t]
  BY <1>2
<1>4. Witnessed(s)'
  BY <1>1, <1>3 DEF MovesTo, Witnessed, WellShaped, Replays, Working
<1>5. ASSUME NEW t \in Slot \ {s}
      PROVE  Witnessed(t)'
  BY <1>2, <1>3, RequestWaits DEF ApiInv, Replaying
<1>. QED
  BY <1>4, <1>5 DEF Replaying

LEMMA ServedKeepsInv ==
  ASSUME ApiInv, NEW s \in Slot, Served(s), exit = "running"
  PROVE  ApiInv'
<1>1. UNCHANGED <<db, phase, attempt, adapterPool, pools, handler, heard, exit>>
  BY DEF Served, serverVars
<1>2. PICK to : MovesTo(s, to)
  BY DEF Served, Moves
<1>3. Types'
  BY <1>1, <1>2 DEF ApiInv, Types, Served, ReplaysSee, MovesTo
<1>4. Stages' /\ PoolsAreCounted'
  BY <1>1 DEF ApiInv, Stages, PoolsAreCounted, Made
<1>5. OpenIsServed'
  <2>1. CASE \E t \in Slot : Busy(t)
    BY <1>1, <2>1 DEF ApiInv, OpenIsServed
  <2>2. CASE Accepting
    <3>1. \A h \in 1 .. MaxSignals : handler[h] = "none"
      BY <2>2 DEF Accepting, ApiInv, Types
    <3>2. phase \in {"listening", "serving"} /\ adapterPool = "open"
      BY <2>2, <3>1 DEF Accepting, ApiInv, Types, Stages
    <3>. QED
      BY <1>1, <3>2 DEF OpenIsServed
  <2>. QED
    BY <2>1, <2>2 DEF Served
<1>6. Replaying'
  BY RequestsMove DEF Served
<1>. QED
  BY <1>3, <1>4, <1>5, <1>6 DEF ApiInv

LEMMA StartKeepsInv ==
  ASSUME ApiAssumption, ApiInv, exit = "running", StartStep
  PROVE  ApiInv'
<1>. USE DEF ApiInv
<1>1. UNCHANGED <<handler, status, req, other, answer>>
  BY DEF StartStep, PreloadServer, LoadPreloadModules, loadConfig, createDatabaseAdapter, initialize, PgConnectFails,
         MySqlConnectFails, Listen, InstallHandlers, requestVars
<1>2. /\ phase \in {"preload", "loading", "connecting", "connected", "listening"}
      /\ phase' = "serving" => phase \in {"listening", "serving"}
  BY DEF StartStep, PreloadServer, LoadPreloadModules, loadConfig, createDatabaseAdapter, initialize, PgConnectFails,
         MySqlConnectFails, Listen, InstallHandlers
<1>3. \A h \in 1 .. MaxSignals : handler[h] = "none"
  BY <1>2 DEF Types, Stages
<1>4. MaxRetries \in Nat
  BY DEF ApiAssumption
<1>5. attempt' \in 1 .. MaxRetries + 1
  BY <1>4 DEF Types, StartStep, PreloadServer, LoadPreloadModules, loadConfig, createDatabaseAdapter, initialize, PgConnectFails,
         MySqlConnectFails, Listen, InstallHandlers
<1>6. Types'
  BY <1>1, <1>5 DEF Types, detectDatabaseType, StartStep, PreloadServer, LoadPreloadModules, loadConfig, createDatabaseAdapter, initialize,
         PgConnectFails, MySqlConnectFails, Listen, InstallHandlers
<1>7. Stages'
  BY <1>1, <1>2, <1>3 DEF Types, Stages, detectDatabaseType, StartStep, PreloadServer, LoadPreloadModules, loadConfig, createDatabaseAdapter,
         initialize, PgConnectFails, MySqlConnectFails, Listen, InstallHandlers
<1>8. PoolsAreCounted'
  <2>1. attempt \in Nat
    BY <1>4 DEF Types
  <2>2. adapterPool \notin {"ending", "ended"} /\ adapterPool' # "ended"
    BY <1>1, <1>3, <1>7 DEF Stages
  <2>3. ASSUME PreloadServer \/ loadConfig
        PROVE  PoolsAreCounted'
    BY <2>2, <2>3 DEF PoolsAreCounted, PreloadServer, loadConfig, Made
  <2>4. ASSUME createDatabaseAdapter
        PROVE  PoolsAreCounted'
    <3>1. CASE exit' = "1" /\ UNCHANGED <<db, phase, pools>>
      BY <2>4, <3>1 DEF PoolsAreCounted, createDatabaseAdapter
    <3>2. CASE phase' = "connecting" /\ pools' = 1
      <4>1. attempt' = 1
        BY <2>4 DEF createDatabaseAdapter, Stages
      <4>. QED
        BY <2>2, <3>2, <4>1 DEF PoolsAreCounted, Made
    <3>. QED
      BY <2>4, <3>1, <3>2 DEF createDatabaseAdapter
  <2>5. ASSUME initialize \/ Listen \/ InstallHandlers
        PROVE  PoolsAreCounted'
    BY <2>2, <2>5 DEF PoolsAreCounted, initialize, Listen, InstallHandlers, Made
  <2>6. ASSUME PgConnectFails
        PROVE  PoolsAreCounted'
    BY <2>2, <2>6 DEF PoolsAreCounted, PgConnectFails, Made
  <2>7. ASSUME MySqlConnectFails
        PROVE  PoolsAreCounted'
    BY <2>1, <2>2, <2>7 DEF PoolsAreCounted, MySqlConnectFails, Made
  <2>. QED
    BY <2>3, <2>4, <2>5, <2>6, <2>7 DEF StartStep
<1>9. OpenIsServed'
  <2>1. (\E s \in Slot : Busy(s)') => \E s \in Slot : Busy(s)
    BY <1>1 DEF Busy
  <2>2. ASSUME \E s \in Slot : Busy(s)
        PROVE  phase' \in {"listening", "serving"} /\ adapterPool' = "open" /\ exit' = "running"
    <3>1. phase = "listening" /\ adapterPool = "open"
      BY <1>2, <2>2 DEF OpenIsServed, StartStep, PreloadServer, LoadPreloadModules, loadConfig, createDatabaseAdapter, initialize,
             PgConnectFails, MySqlConnectFails, Listen, InstallHandlers
    <3>. QED
      BY <3>1 DEF StartStep, PreloadServer, LoadPreloadModules, loadConfig, createDatabaseAdapter, initialize, PgConnectFails,
         MySqlConnectFails, Listen, InstallHandlers
  <2>. QED
    BY <2>1, <2>2 DEF OpenIsServed
<1>10. Replaying'
  BY <1>1, RequestsAsTheyWere DEF requestVars
<1>. QED
  BY <1>6, <1>7, <1>8, <1>9, <1>10

LEMMA StopKeepsInv ==
  ASSUME ApiAssumption, ApiInv, exit = "running", StopStep
  PROVE  ApiInv'
<1>. USE DEF ApiInv
<1>1. UNCHANGED <<db, phase, attempt, heard, status, req, other, answer>>
  BY DEF StopStep, SignalServer, ServerClosed, PoolEnds, PoolEndFails, requestVars
<1>2. Replaying'
  BY <1>1, RequestsAsTheyWere DEF requestVars
<1>3. \A s \in Slot : Busy(s)' <=> Busy(s)
  BY <1>1 DEF Busy
<1>4. ASSUME NEW h \in 1 .. MaxSignals, SignalServer(h)
      PROVE  Types' /\ Stages' /\ PoolsAreCounted' /\ OpenIsServed'
  <2>1. CASE phase = "serving"
    <3>1. handler' = [handler EXCEPT ![h] = "closing"] /\ handler[h] = "none"
          /\ UNCHANGED <<adapterPool, pools, exit>>
      BY <1>4, <2>1 DEF SignalServer
    <3>2. Types'
      BY <1>1, <3>1 DEF Types
    <3>3. \A g \in 1 .. MaxSignals : handler[g] = "ending" => handler'[g] = "ending"
      BY <3>1 DEF Types
    <3>4. Stages'
      BY <1>1, <2>1, <3>1, <3>3 DEF Stages
    <3>5. PoolsAreCounted' /\ OpenIsServed'
      BY <1>1, <1>3, <3>1 DEF PoolsAreCounted, OpenIsServed, Made
    <3>. QED
      BY <3>2, <3>4, <3>5
  <2>2. CASE phase # "serving"
    <3>1. exit' = "killed" /\ UNCHANGED <<adapterPool, pools, handler>>
      BY <1>4, <2>2 DEF SignalServer, DefaultAction
    <3>2. Types' /\ Stages'
      BY <1>1, <3>1 DEF Types, Stages
    <3>3. PoolsAreCounted' /\ OpenIsServed'
      BY <1>1, <1>3, <3>1 DEF PoolsAreCounted, OpenIsServed, Made
    <3>. QED
      BY <3>2, <3>3
  <2>. QED
    BY <2>1, <2>2
<1>5. ASSUME NEW h \in 1 .. MaxSignals, ServerClosed(h)
      PROVE  Types' /\ Stages' /\ PoolsAreCounted' /\ OpenIsServed'
  <2>1. handler[h] = "closing" /\ handler' = [handler EXCEPT ![h] = "ending"] /\ pools' = pools
    BY <1>5 DEF ServerClosed
  <2>2. phase = "serving" /\ adapterPool # "none"
    BY <2>1 DEF Stages
  <2>3. handler'[h] = "ending" /\ exit' \in {"running", "1"}
        /\ adapterPool' \in {adapterPool, "ending"} /\ (adapterPool' # adapterPool => adapterPool = "open")
    BY <1>5 DEF ServerClosed, Types
  <2>4. Types'
    BY <1>1, <2>1, <2>3 DEF Types
  <2>5. Stages'
    BY <1>1, <2>1, <2>2, <2>3 DEF Stages, Types
  <2>6. PoolsAreCounted'
    BY <1>1, <2>1, <2>2, <2>3 DEF PoolsAreCounted, Made
  <2>7. OpenIsServed'
    BY <1>3, <1>5 DEF OpenIsServed, ServerClosed
  <2>. QED
    BY <2>4, <2>5, <2>6, <2>7
<1>6. ASSUME PoolEnds
      PROVE  Types' /\ Stages' /\ PoolsAreCounted' /\ OpenIsServed'
  <2>1. adapterPool = "ending" /\ adapterPool' = "ended" /\ pools' = pools - 1 /\ exit' = "0" /\ handler' = handler
    BY <1>6 DEF PoolEnds
  <2>2. Types' /\ Stages'
    BY <1>1, <2>1 DEF Types, Stages
  <2>3. PoolsAreCounted'
    BY <1>1, <2>1 DEF Stages, PoolsAreCounted, Made
  <2>4. OpenIsServed'
    BY <1>3, <2>1 DEF OpenIsServed
  <2>. QED
    BY <2>2, <2>3, <2>4
<1>7. ASSUME PoolEndFails
      PROVE  Types' /\ Stages' /\ PoolsAreCounted' /\ OpenIsServed'
  <2>1. adapterPool = "ending" /\ exit' = "1" /\ UNCHANGED <<adapterPool, pools, handler>>
    BY <1>7 DEF PoolEndFails
  <2>2. Types' /\ Stages'
    BY <1>1, <2>1 DEF Types, Stages
  <2>3. PoolsAreCounted'
    BY <1>1, <2>1 DEF Stages, PoolsAreCounted, Made
  <2>4. OpenIsServed'
    BY <1>3, <2>1 DEF OpenIsServed
  <2>. QED
    BY <2>2, <2>3, <2>4
<1>. QED
  BY <1>2, <1>4, <1>5, <1>6, <1>7 DEF StopStep

LEMMA WorkerKeepsInv ==
  ASSUME ApiInv, NEW e \in Event, WorkerStep(e)
  PROVE  ApiInv'
<1>1. PICK to \in Status : Become([status EXCEPT ![e] = to])
  BY DEF WorkerStep
<1>2. UNCHANGED <<db, phase, attempt, adapterPool, pools, handler, heard, exit, req>> /\ answer' = NoAnswer
  BY DEF WorkerStep, serverVars
<1>3. ReplaysSee
  BY <1>1, BecomeIsSeen DEF ApiInv, Types
<1>4. Types'
  BY <1>2, <1>3, NoAnswerTyped DEF ApiInv, Types, ReplaysSee
<1>5. Stages' /\ PoolsAreCounted' /\ OpenIsServed'
  BY <1>2 DEF ApiInv, Stages, PoolsAreCounted, Made, OpenIsServed, Busy
<1>6. ASSUME NEW t \in Slot
      PROVE  Witnessed(t)'
  BY <1>2, <1>3, RequestWaits DEF ApiInv, Types, Replaying
<1>. QED
  BY <1>4, <1>5, <1>6 DEF ApiInv, Replaying

LEMMA NextKeepsInv ==
  ASSUME ApiAssumption, ApiInv, [ApiNext]_apiVars
  PROVE  ApiInv'
<1>1. CASE ApiNext
  <2>1. handler \in [1 .. MaxSignals -> {"none", "closing", "ending"}]
    BY DEF ApiInv, Types
  <2>2. exit = "running" /\ (\/ StartStep \/ StopStep
                             \/ \E e \in Event : WorkerStep(e)
                             \/ \E s \in Slot : RequestStep(s))
    BY <1>1, <2>1, StepsOfNext
  <2>3. ASSUME NEW s \in Slot, RequestStep(s)
        PROVE  ApiInv'
    <3>1. Served(s)
      BY <2>3, ArrivalIsServed, ValidationIsServed, QueryIsServed DEF RequestStep
    <3>. QED
      BY <2>2, <3>1, ServedKeepsInv
  <2>. QED
    BY <2>2, <2>3, StartKeepsInv, StopKeepsInv, WorkerKeepsInv
<1>2. CASE UNCHANGED apiVars
  <2>1. UNCHANGED <<db, phase, attempt, adapterPool, pools, handler, heard, exit, status, req, other, answer>>
    BY <1>2 DEF apiVars, serverVars, requestVars
  <2>2. Replaying'
    BY <2>1, RequestsAsTheyWere DEF ApiInv, requestVars
  <2>3. Types' /\ Stages' /\ PoolsAreCounted' /\ OpenIsServed'
    BY <2>1 DEF ApiInv, Types, Stages, PoolsAreCounted, Made, OpenIsServed, Busy
  <2>. QED
    BY <2>2, <2>3 DEF ApiInv
<1>. QED
  BY <1>1, <1>2

LEMMA ApiInvariant == ASSUME ApiAssumption PROVE ApiSpec => []ApiInv
<1>1. ApiInit => ApiInv
  BY InitHolds
<1>2. ApiInv /\ [ApiNext]_apiVars => ApiInv'
  BY NextKeepsInv
<1>. QED
  BY <1>1, <1>2, PTL DEF ApiSpec


-----------------------------------------------------------------------------
(* Every variable keeps its type: no more attempts are made, and no more   *)
(* pools, than createPool() of the adapter may make.                       *)
THEOREM ApiTypeCorrect == ASSUME ApiAssumption PROVE ApiSpec => []ApiTypeOK
<1>1. ASSUME ApiInv
      PROVE  ApiTypeOK
  <2>1. pools \in 0 .. MaxRetries + 1
    <3>1. MaxRetries \in Nat /\ attempt \in 1 .. MaxRetries + 1
      BY <1>1 DEF ApiAssumption, ApiInv, Types
    <3>2. Made \in 1 .. MaxRetries + 1
      BY <3>1 DEF Made
    <3>3. pools \in {0, Made - 1, Made}
      BY <1>1 DEF ApiInv, PoolsAreCounted
    <3>. QED
      BY <3>1, <3>2, <3>3
  <2>2. ASSUME NEW s \in Slot
        PROVE  /\ req[s].op \in {"none", "replay", "range", "get", "ready"}
               /\ req[s].pc \in {"free", "receiving", "select", "update", "lookup", "ping"}
               /\ req[s].on \subseteq Event
               /\ req[s].asked \in Replayable \cup {""}
    BY <1>1 DEF ApiInv, Types, Request, Op, Pc
  <2>3. answer.on \subseteq Event /\ answer.code \in {0, 200, 400, 404, 409, 422, 500, 503}
    BY <1>1 DEF ApiInv, Types, Answer, Code
  <2>. QED
    BY <1>1, <2>1, <2>2, <2>3 DEF ApiInv, Types, ApiTypeOK
<1>. QED
  BY <1>1, ApiInvariant, PTL

(* However many signals come, from the first one on every open request     *)
(* still has the pool and the process until it is answered.                *)
THEOREM RequestsAreFinished == ASSUME ApiAssumption PROVE ApiSpec => []NoRequestIsCutOff
<1>1. ApiInv => NoRequestIsCutOff
  BY DEF ApiInv, OpenIsServed, NoRequestIsCutOff
<1>. QED
  BY <1>1, ApiInvariant, PTL

(* With exit code 0 the pool has been ended, and on PostgreSQL none is     *)
(* left; on MySQL one is left for each attempt that failed.                *)
THEOREM PoolsAreReleased == ASSUME ApiAssumption PROVE ApiSpec => []PoolsAreEnded
<1>1. ASSUME ApiInv
      PROVE  PoolsAreEnded
  <2>1. ASSUME exit = "0"
        PROVE  adapterPool = "ended" /\ pools = IF db = "mysql" THEN attempt - 1 ELSE 0
    <3>1. adapterPool = "ended" /\ phase \notin {"preload", "loading"}
      BY <1>1, <2>1 DEF ApiInv, Stages
    <3>. QED
      BY <1>1, <3>1 DEF ApiInv, PoolsAreCounted, Made
  <2>. QED
    BY <2>1 DEF PoolsAreEnded
<1>. QED
  BY <1>1, ApiInvariant, PTL

-----------------------------------------------------------------------------
(* What the answer of slot s says is so.                                   *)
SaysTruth(s) ==
  LET on == req[s].on
      code == answer'.code
      named == answer'.on
  IN /\ code = 404 => \A e \in on : status[e] = "absent"
     /\ code = 422 => on \subseteq other[s]
     /\ code = 200 => \A e \in named : status'[e] = "pending"
     /\ code = 200 /\ req[s].op = "replay" => named = on /\ \A e \in on : status[e] \in Replayable
     /\ code \notin {200, 500} => status' = status

(* Only a step of a request answers it.                                    *)
LEMMA AnswersComeFromQueries ==
  ASSUME ApiInv, NEW s \in Slot, Replays(s), req'[s] = Idle, [ApiNext]_apiVars
  PROVE  QueryStep(s)
<1>1. req[s] # Idle /\ req \in [Slot -> Request] /\ Busy(s)
  <2>1. Busy(s) /\ Idle.pc = "free"
    BY DEF Replays, Working, Busy, Idle
  <2>. QED
    BY <2>1 DEF Busy, ApiInv, Types
<1>2. CASE ApiNext
  <2>1. PICK t \in Slot : RequestStep(t)
    <3>1. ASSUME StartStep \/ StopStep \/ \E e \in Event : WorkerStep(e)
          PROVE  FALSE
      BY <1>1, <3>1 DEF StartStep, PreloadServer, LoadPreloadModules, loadConfig, createDatabaseAdapter, initialize, PgConnectFails,
         MySqlConnectFails, Listen, InstallHandlers, StopStep, SignalServer, ServerClosed, PoolEnds,
         PoolEndFails, WorkerStep, requestVars
    <3>2. handler \in [1 .. MaxSignals -> {"none", "closing", "ending"}]
      BY DEF ApiInv, Types
    <3>. QED
      BY <1>2, <3>1, <3>2, StepsOfNext
  <2>2. Served(t)
    BY <2>1, ArrivalIsServed, ValidationIsServed, QueryIsServed DEF RequestStep
  <2>3. PICK to : req' = [req EXCEPT ![t] = to]
    BY <2>2 DEF Served, Moves, MovesTo
  <2>4. t = s
    BY <1>1, <2>3
  <2>. QED
    BY <1>1, <2>1, <2>4 DEF RequestStep, PostReplay, GetEvent, PostReplayRange, GetReady, Accept,
       Validate, Replays, Working
<1>3. CASE UNCHANGED apiVars
  BY <1>1, <1>3 DEF apiVars, requestVars
<1>. QED
  BY <1>2, <1>3

LEMMA ErrorsOfQueries == ASSUME NEW code \in ErrorCode
  PROVE  errorHandler(IF db = "mysql" THEN mapMySQLError(code) ELSE mapPostgresError(code)) = 500
BY DEF ErrorCode, mapPostgresError, mapMySQLError, errorHandler

LEMMA AnswersSayTruth ==
  ASSUME ApiInv, NEW s \in Slot, Replays(s), req'[s] = Idle, QueryStep(s)
  PROVE  SaysTruth(s)
<1>. USE DEF ApiInv
<1>1. req[s] \in Request /\ WellShaped(req[s]) /\ req[s].on \in SUBSET Event /\ req \in [Slot -> Request]
  BY DEF Types, Replaying, Witnessed, Request
<1>2. ASSUME NEW to, TurnsTo(s, to)
      PROVE  to = Idle
  BY <1>1, <1>2 DEF TurnsTo
<1>3. ASSUME NEW code, NEW on, Send(s, code, on)
      PROVE  answer'.code = code /\ answer'.on = on
  BY <1>3 DEF Send
<1>4. ASSUME QueryFails(s)
      PROVE  answer'.code = 500
  BY <1>3, <1>4, ErrorsOfQueries DEF QueryFails, ThrowDatabaseError, Throw
<1>5. ASSUME ReplayUpdate(s)
      PROVE  /\ answer'.code = 200 /\ answer'.on = req[s].on
             /\ \A e \in req[s].on : status[e] \in Replayable
             /\ SetPending(req[s].on)
  <2>1. [req[s] EXCEPT !.pc = "lookup"] # Idle
    BY <1>1 DEF Request, Idle
  <2>. QED
    BY <1>2, <1>3, <1>5, <2>1 DEF ReplayUpdate
<1>6. ASSUME ReplayLookup(s)
      PROVE  /\ UNCHANGED status
             /\ \/ answer'.code = 404 /\ \A e \in req[s].on : status[e] = "absent"
                \/ answer'.code = 422 /\ req[s].on \subseteq other[s]
  <2>1. PICK e \in req[s].on : IF status[e] = "absent" THEN Throw(s, "NotFoundError")
                               ELSE Throw(s, "InvalidStateError")
    BY <1>6 DEF ReplayLookup
  <2>2. req[s].on = {e} /\ req[s].on \subseteq other[s] /\ UNCHANGED status
    BY <1>1, <1>6, <2>1 DEF ReplayLookup, WellShaped, Replaying, Witnessed, NoChange
  <2>3. CASE status[e] = "absent"
    BY <1>3, <2>1, <2>2, <2>3 DEF Throw, errorHandler
  <2>4. CASE status[e] # "absent"
    BY <1>3, <2>1, <2>2, <2>4 DEF Throw, errorHandler
  <2>. QED
    BY <2>3, <2>4, <2>2
<1>7. ASSUME RangeSelect(s)
      PROVE  answer'.code = 200 /\ answer'.on = {} /\ req[s].op = "range"
  <2>1. PICK S \in SUBSET Event : IF S = {} THEN Send(s, 200, {})
                                  ELSE TurnsTo(s, [req[s] EXCEPT !.pc = "update", !.on = S])
    BY <1>7 DEF RangeSelect
  <2>2. [req[s] EXCEPT !.pc = "update", !.on = S] # Idle
    BY <1>1 DEF Request, Idle
  <2>. QED
    BY <1>2, <1>3, <1>7, <2>1, <2>2 DEF RangeSelect
<1>8. ASSUME RangeUpdate(s)
      PROVE  /\ req[s].op = "range"
             /\ \/ answer'.code = 200 /\ answer'.on = req[s].on /\ SetPending(req[s].on)
                \/ answer'.code = 409 /\ UNCHANGED status
  <2>1. CASE SetPending(req[s].on) /\ Send(s, 200, req[s].on)
    BY <1>3, <1>8, <2>1 DEF RangeUpdate
  <2>2. CASE db = "postgresql" /\ NoChange /\ ThrowDatabaseError(s, "unique")
    BY <1>3, <1>8, <2>2 DEF RangeUpdate, NoChange, ThrowDatabaseError, Throw, mapPostgresError, errorHandler
  <2>. QED
    BY <1>8, <2>1, <2>2 DEF RangeUpdate
<1>9. ASSUME ReplaySelect(s)
      PROVE  FALSE
  <2>1. PICK pc \in {"update", "lookup"} : TurnsTo(s, [req[s] EXCEPT !.pc = pc])
    BY <1>9 DEF ReplaySelect
  <2>2. [req[s] EXCEPT !.pc = pc] # Idle
    BY <1>1 DEF Request, Idle
  <2>. QED
    BY <1>2, <2>1, <2>2
<1>10. ASSUME SetPending(req[s].on)
       PROVE  \A e \in req[s].on : status'[e] = "pending"
  BY <1>1, <1>10 DEF SetPending, Become
<1>11. ~GetSelect(s) /\ ~Readiness(s)
  BY <1>1 DEF Replays, Working, WellShaped, GetSelect, Readiness
<1>. QED
  BY <1>4, <1>5, <1>6, <1>7, <1>8, <1>9, <1>10, <1>11 DEF QueryStep, SaysTruth

(* Whatever workers and other requests do between the queries of a replay, *)
(* what its answer says of the events is so.                               *)
THEOREM RepliesAreTrue == ASSUME ApiAssumption PROVE ApiSpec => AnswersAreTrue
<1>1. ApiInv /\ [ApiNext]_apiVars =>
        [\A s \in Slot : Replays(s) /\ req'[s] = Idle => SaysTruth(s)]_apiVars
  BY AnswersComeFromQueries, AnswersSayTruth
<1>. QED
  BY <1>1, ApiInvariant, PTL DEF ApiSpec, AnswersAreTrue, SaysTruth

=================================================================================
