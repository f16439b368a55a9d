--------------------------- MODULE SessionGateway ---------------------------
(***************************************************************************)
(* The session gateway of one room: sessionGateway.ts and                  *)
(* sessionGatewayProtocol.ts of upstream-survev/server/src/opsia.          *)
(*                                                                         *)
(* A browser stays connected to the gateway, which forwards its inputs to  *)
(* the game process that the room's route names.  For a planned handoff    *)
(* the orchestrator freezes the room's sessions (their inputs are only     *)
(* buffered), moves the authority over the room to another process, and    *)
(* has the gateway cut over: it prepares a second upstream connection of   *)
(* every session, swaps the route to the new epoch, and replays on the new *)
(* connections what is not acknowledged.  Until the cutover is verified,   *)
(* inputs are kept for a rollback, which is a cutover back.                *)
(*                                                                         *)
(* The game processes are modelled by what the gateway sees of them: they  *)
(* process the inputs of the epoch in which they are Active, once each     *)
(* (ClientSocketMsg of game/gameProcess.ts), and the authority moves with  *)
(* the game of a checkpoint, which the orchestrator has had saved before   *)
(* (RoomAuthority says how).                                               *)
(***************************************************************************)
EXTENDS Naturals, FiniteSets, SequencesExt

CONSTANTS
    Session,        \* browser connections, each of a session of its own
    Endpoint,       \* the endpoints of the room's game processes
    Home,           \* the endpoint of the first route
    Operation,      \* the handoffs and rollbacks of an orchestrator
    Fault,          \* the kinds of fault that happen, each at most once
    None,           \* no connection, no preparation, no verification, no call
    MaxBuffer,      \* GATEWAY_MAX_BUFFER_MESSAGES
    MaxInput,       \* bound on the inputs of a session
    MaxEpoch        \* bound on room epochs

ASSUME HomeAssumption == Home \in Endpoint
ASSUME BoundAssumption == /\ MaxBuffer \in Nat \ {0}
                          /\ MaxInput \in Nat
                          /\ MaxEpoch \in Nat \ {0}
ASSUME FaultAssumption ==
    Fault \subseteq {"close", "timeout", "upstream"}

Epoch == 1..MaxEpoch
Input == 1..MaxInput
Sequence == 0..MaxInput
Route == [endpoint : Endpoint, epoch : Epoch]

\* UpstreamConnection: adopted when it was a prepared one, whose listeners are
\* not those of bindCurrent; sent is sentThroughSequence.
Upstream == [route : Route, adopted : BOOLEAN, sent : Sequence,
             up : {"connecting", "open", "closed"}]

\* PreparedUpstream, and the operation that has prepared it.
Prepared == [route : Route, op : Operation,
             up : {"connecting", "open", "closed"}]

\* GatewaySession, with what is in transit on its current connection:
\*   state       open until its Join is received; closed when it is removed
\*   starting    start() still waits for its connection
\*   received    sequence of the last input of the browser
\*   acked       acknowledgedSequence of the input buffer
\*   shadow      verificationShadow, retained while verifying
\*   closing     an adopted connection was replaced, its close event is to come
\*   wire, ack   inputs on their way, and the latest acknowledgement on its way
GatewaySession ==
    [state : {"new", "open", "joined", "closed"}, starting : BOOLEAN,
     current : Upstream \cup {None}, prepared : Prepared \cup {None},
     frozen : BOOLEAN, received : Sequence, acked : Sequence,
     shadow : SUBSET Input, verifying : BOOLEAN, closing : BOOLEAN,
     wire : Seq(Input), ack : Sequence]

Preparation == [op : Operation, sessions : SUBSET Session]
Verification == [op : Operation, epoch : Epoch, sessions : SUBSET Session,
                 stale : BOOLEAN]
CutoverOperation ==
    [status : {"preparing", "registry_committed", "committed", "failed"},
     route : Route, sessions : SUBSET Session]

ASSUME NoneAssumption ==
    /\ None \notin Upstream
    /\ None \notin Prepared
    /\ None \notin Preparation
    /\ None \notin CutoverOperation
    /\ None \notin Operation
    /\ \A ss \in SUBSET Session : ss # None

\* A prepare() in progress: it looks for a match, or waits for its connection,
\* which may have lost its place in the session to that of another prepare().
Task == [op : Operation, session : Session,
         phase : {"match", "connect", "orphan"}]

\* The inputs that a game has processed, and the checkpoint that an operation has
\* had saved for its transfer of the authority.
Game == [Session -> Seq(Input)]
Transfer == [op : Operation, game : Game]

VARIABLES
    route,          \* the room's route in the registry
    session,        \* sessions
    preparation,    \* roomPreparations
    verification,   \* roomVerifications
    operation,      \* roomCutoverOperations
    frozenAt,       \* the epoch that each operation's freeze expected, or 0
    call,           \* the sessions that a cutoverRoom in progress has selected
    tasks,          \* the prepare() in progress
    transfer,       \* the checkpoint that an operation has had saved
    mover,          \* the operation that has moved the authority last
    serving,        \* the epoch in which each process is Active, or 0
    game,           \* the inputs that each process's game has processed
    left,           \* those that a transfer of the authority has left behind
    faults          \* the faults that have happened

roomVars == <<preparation, verification, operation, frozenAt, call, tasks>>
processVars == <<transfer, mover, serving, game, left>>
vars == <<route, session, roomVars, processVars, faults>>

TypeOK ==
    /\ route \in Route
    /\ session \in [Session -> GatewaySession]
    /\ preparation \in Preparation \cup {None}
    /\ verification \in Verification \cup {None}
    /\ operation \in [Operation -> CutoverOperation \cup {None}]
    /\ frozenAt \in [Operation -> 0..MaxEpoch]
    /\ call \in [Operation -> (SUBSET Session) \cup {None}]
    /\ tasks \subseteq Task
    /\ transfer \in Transfer \cup {None}
    /\ mover \in Operation \cup {None}
    /\ serving \in [Endpoint -> 0..MaxEpoch]
    /\ game \in [Endpoint -> Game]
    /\ left \in [Session -> SUBSET Input]
    /\ faults \subseteq Fault

Blank(state) ==
    [state |-> state, starting |-> FALSE, current |-> None, prepared |-> None,
     frozen |-> FALSE, received |-> 0, acked |-> 0, shadow |-> {},
     verifying |-> FALSE, closing |-> FALSE, wire |-> <<>>, ack |-> 0]

Init ==
    /\ route = [endpoint |-> Home, epoch |-> 1]
    /\ session = [s \in Session |-> Blank("new")]
    /\ preparation = None
    /\ verification = None
    /\ operation = [o \in Operation |-> None]
    /\ frozenAt = [o \in Operation |-> 0]
    /\ call = [o \in Operation |-> None]
    /\ tasks = {}
    /\ transfer = None
    /\ mover = None
    /\ serving = [e \in Endpoint |-> IF e = Home THEN 1 ELSE 0]
    /\ game = [e \in Endpoint |-> [s \in Session |-> <<>>]]
    /\ left = [s \in Session |-> {}]
    /\ faults = {}

Happens(k) ==
    /\ k \in Fault \ faults
    /\ faults' = faults \cup {k}

\* Every session of the call is prepared: its continuation runs next.
AllPrepared(o) ==
    /\ call[o] # None
    /\ \A t \in tasks : t.op # o

\* No continuation is due.  What a call awaited last has resolved when another
\* event could be handled, and JavaScript runs the continuation first.
Settled == \A o \in Operation : ~AllPrepared(o)

----------------------------------------------------------------------------
(* A session's own state.                                                  *)

Live == {s \in Session : session[s].state \in {"open", "joined"}}

\* The inputs in ns in the order of their sequence.
Increasing(q) == \A i, j \in DOMAIN q : i < j => q[i] < q[j]

Sorted(ns) == CHOOSE q \in [1..Cardinality(ns) -> ns] : Increasing(q)

\* Mutant: the acknowledged input itself is replayed.
FromAcked(x) == x.acked..x.received

\* The inputs in the buffer: replayAfter().
Unacked(x) == (x.acked + 1)..x.received

\* stop(), and the removal from the table of sessions.
Stopped == Blank("closed")

\* flushInputs: what the current connection has not been sent is sent, unless
\* the connection is not open; the cursor moves in either case.
Flushed(x) ==
    IF x.current = None THEN x
    ELSE LET due == {n \in Unacked(x) : n > x.current.sent}
         IN  [x EXCEPT !.wire = IF x.current.up = "open" THEN @ \o Sorted(due)
                                ELSE @,
                       !.current.sent = IF due = {} THEN @ ELSE x.received]

\* abortPrepared.
Resumed(x) == Flushed([x EXCEPT !.prepared = None, !.frozen = FALSE])

\* The sessions in ss after f.
After(f(_), ss) ==
    [s \in Session |-> IF s \in ss THEN f(session[s]) ELSE session[s]]

\* The session already has an open connection of route r.
OnRoute(x, r) ==
    /\ x.current # None
    /\ x.current.route = r
    /\ x.current.up = "open"

\* commitPrepared would not throw.
CanCommit(x, r) ==
    \/ OnRoute(x, r)
    \/ x.prepared # None /\ x.prepared.route = r

\* Mutant: what is retained for a rollback is not replayed.
UnackedOnly(x) == Unacked(x)

\* mergeRollbackInputs.
Replayed(x) == x.shadow \cup Unacked(x)

\* commitPrepared: the prepared connection becomes the current one, open or not;
\* what is replayed on it is retained.
Committed(x, r) ==
    IF OnRoute(x, r) THEN x
    ELSE IF x.state = "closed" THEN [x EXCEPT !.prepared = None]
    ELSE [x EXCEPT
            !.current = [route |-> r, adopted |-> TRUE, up |-> x.prepared.up,
                         sent |-> IF Replayed(x) = {} THEN x.acked
                                  ELSE x.received],
            !.prepared = None,
            !.frozen = FALSE,
            !.wire = IF x.prepared.up = "open" THEN Sorted(Replayed(x))
                     ELSE <<>>,
            !.ack = 0,
            !.shadow = Replayed(x),
            !.verifying = TRUE,
            !.closing = @ \/ (x.current # None /\ x.current.adopted
                                               /\ x.current.up = "open")]

\* Mutant: connections are admitted during a handoff.
AlwaysAdmits == TRUE

\* upgrade: not while the room is handed off.
Admits == preparation = None /\ verification = None

\* upgrade and open.
Open(s) ==
    /\ Settled
    /\ session[s].state = "new"
    /\ Admits
    /\ session' = [session EXCEPT ![s] =
                      [@ EXCEPT !.state = "open", !.starting = TRUE,
                                !.current = [route |-> route, adopted |-> FALSE,
                                             up |-> "connecting", sent |-> 0]]]
    /\ UNCHANGED <<route, roomVars, processVars, faults>>

\* The connection that start() waits for is still the current one.
Opening(x) == x.current.up = "connecting" /\ ~x.current.adopted

\* start() goes on when the connection opens, also in a frozen session.
Connected(s) ==
    /\ Settled
    /\ session[s].starting
    /\ Opening(session[s])
    /\ session' = [session EXCEPT ![s] =
                      Flushed([@ EXCEPT !.starting = FALSE,
                                        !.current.up = "open"])]
    /\ UNCHANGED <<route, roomVars, processVars, faults>>

\* The connection does not open, or a cutover has closed it: the session ends.
StartFails(s) ==
    /\ Settled
    /\ session[s].starting
    /\ \/ ~Opening(session[s]) /\ UNCHANGED faults
       \/ Opening(session[s]) /\ Happens("upstream")
    /\ session' = [session EXCEPT ![s] = Stopped]
    /\ UNCHANGED <<route, roomVars, processVars>>

\* The browser's Join.
Join(s) ==
    /\ Settled
    /\ session[s].state = "open"
    /\ session' = [session EXCEPT ![s].state = "joined"]
    /\ UNCHANGED <<route, roomVars, processVars, faults>>

\* Mutant: what is retained for a rollback is not bounded.
BufferHasRoom(x) == Cardinality(Unacked(x)) < MaxBuffer

\* The buffer has room for another input, and so has the shadow.
HasRoom(x) ==
    /\ Cardinality(Unacked(x)) < MaxBuffer
    /\ x.verifying => Cardinality(x.shadow) < MaxBuffer

\* receive(): an input is buffered, retained while a cutover is verified, and
\* sent unless the session is frozen.  Browsers and bots play once they have
\* been sent something, so there is no input while the connection opens.
Receive(s) ==
    LET x == session[s]
        n == x.received + 1
        sends == ~x.frozen /\ x.current.up = "open"
    IN  /\ Settled
        /\ x.state = "joined"
        /\ x.current.up # "connecting"
        /\ n <= MaxInput
        /\ HasRoom(x)
        /\ session' = [session EXCEPT ![s] =
              [x EXCEPT !.received = n,
                        !.shadow = IF x.verifying THEN @ \cup {n} ELSE @,
                        !.wire = IF sends THEN Append(@, n) ELSE @,
                        !.current.sent = IF sends THEN n ELSE @]]
        /\ UNCHANGED <<route, roomVars, processVars, faults>>

\* gateway_input_buffer_overflow.
Overflow(s) ==
    /\ Settled
    /\ session[s].state = "joined"
    /\ session[s].current.up # "connecting"
    /\ session[s].received < MaxInput
    /\ ~HasRoom(session[s])
    /\ session' = [session EXCEPT ![s] = Stopped]
    /\ UNCHANGED <<route, roomVars, processVars, faults>>

\* The browser closes.
SessionCloses(s) ==
    /\ Settled
    /\ s \in Live
    /\ Happens("close")
    /\ session' = [session EXCEPT ![s] = Stopped]
    /\ UNCHANGED <<route, roomVars, processVars>>

\* acknowledge().
AckArrives(s) ==
    /\ Settled
    /\ session[s].ack # 0
    /\ LET x == session[s]
       IN  session' = [session EXCEPT ![s] =
              [x EXCEPT !.acked = IF @ < x.ack THEN x.ack ELSE @, !.ack = 0]]
    /\ UNCHANGED <<route, roomVars, processVars, faults>>

\* The session's connection is lost.  A frozen session survives that, unless its
\* connection is an adopted one.
Disconnected(x) ==
    IF x.frozen /\ ~x.current.adopted
    THEN [x EXCEPT !.wire = <<>>, !.ack = 0, !.current.up = "closed"]
    ELSE Stopped

UpstreamCloses(s) ==
    /\ Settled
    /\ s \in Live
    /\ session[s].current.up = "open"
    /\ Happens("upstream")
    /\ session' = [session EXCEPT ![s] = Disconnected(@)]
    /\ UNCHANGED <<route, roomVars, processVars>>

\* A prepared connection that was ready closes: nobody looks at it any more.
PreparedCloses(s) ==
    /\ Settled
    /\ session[s].prepared # None
    /\ session[s].prepared.up = "open"
    /\ Happens("upstream")
    /\ session' = [session EXCEPT ![s].prepared.up = "closed"]
    /\ UNCHANGED <<route, roomVars, processVars>>

\* The close event of an adopted connection that a cutover has replaced: its
\* listener does not look whether the connection is still the current one.
ReplacedCloses(s) ==
    /\ Settled
    /\ session[s].closing
    /\ session' = [session EXCEPT ![s] = Stopped]
    /\ UNCHANGED <<route, roomVars, processVars, faults>>

----------------------------------------------------------------------------
(* The game processes.                                                     *)

\* The process is Active in the epoch of the session's current connection.
Accepted(x) == serving[x.current.route.endpoint] = x.current.route.epoch

\* lastProcessedGatewayInput.
LastProcessed(inputs) == IF inputs = <<>> THEN 0 ELSE Last(inputs)

\* Mutant: the process does not look at the sequence.
IsAlwaysNew(n, inputs) == TRUE

\* An input is processed once.
IsNew(n, inputs) == n > LastProcessed(inputs)

\* ClientSocketMsg: the input is processed unless it was, and acknowledged.
Processes(s) ==
    LET x == session[s]
        e == x.current.route.endpoint
        played == IF IsNew(Head(x.wire), game[e][s])
                  THEN Append(game[e][s], Head(x.wire)) ELSE game[e][s]
    IN  /\ Settled
        /\ x.wire # <<>>
        /\ Accepted(x)
        /\ game' = [game EXCEPT ![e][s] = played]
        /\ session' = [session EXCEPT ![s] =
              [x EXCEPT !.wire = Tail(@), !.ack = LastProcessed(played)]]
        /\ UNCHANGED <<route, roomVars, transfer, mover, serving, left, faults>>

\* gateway_input_metadata_invalid: the process closes the connection.
Rejects(s) ==
    /\ Settled
    /\ session[s].wire # <<>>
    /\ session[s].ack = 0
    /\ ~Accepted(session[s])
    /\ session' = [session EXCEPT ![s] = Disconnected(@)]
    /\ UNCHANGED <<route, roomVars, processVars, faults>>

\* Operation o transfers the authority away from the process on the route: after
\* it has frozen the room, for a handoff; to roll back a cutover, before.
HandsOff(o) ==
    /\ frozenAt[o] = route.epoch
    /\ operation[o] = None
    /\ preparation # None => preparation.op = o

RollsBack(o) ==
    /\ frozenAt[o] = 0
    /\ verification # None
    /\ verification.op # o

\* The Active saves a checkpoint, because the orchestrator asks it to, or again at
\* its own interval before it is released.
Save(o) ==
    /\ Settled
    /\ HandsOff(o) \/ RollsBack(o)
    /\ serving[route.endpoint] = route.epoch
    /\ route.epoch < MaxEpoch
    /\ transfer' = [op |-> o, game |-> game[route.endpoint]]
    /\ UNCHANGED <<route, session, roomVars, mover, serving, game, left, faults>>

\* The session's connection is to the Active, in its epoch.
Plays(x) == x.current # None /\ Accepted(x)

\* What is in the game of the Active and not in its last checkpoint.
Unsaved(s) == ToSet(game[route.endpoint][s]) \ ToSet(transfer.game[s])

\* What the Active is still being sent again, although a former one has
\* acknowledged it.
Resent(x) == {n \in ToSet(x.wire) : n <= x.acked}

\* What the next process will not have of a session, and the gateway will not
\* send: a session that is verified has retained it for its next connection.
LeftBehind(s) ==
    IF Plays(session[s]) /\ ~session[s].verifying
    THEN Unsaved(s) \cup Resent(session[s])
    ELSE {}

\* The Active of a is released, its last checkpoint is loaded by b, which is
\* promoted.
Move(o, a, b) ==
    /\ Settled
    /\ a # b
    /\ route.endpoint = a
    /\ serving[a] = route.epoch
    /\ transfer # None /\ transfer.op = o
    /\ HandsOff(o) \/ RollsBack(o)
    /\ left' = [s \in Session |-> left[s] \cup LeftBehind(s)]
    /\ transfer' = None
    /\ mover' = o
    /\ serving' = [serving EXCEPT ![a] = 0, ![b] = route.epoch + 1]
    /\ game' = [game EXCEPT ![b] = transfer.game]
    /\ UNCHANGED <<route, session, roomVars, faults>>

----------------------------------------------------------------------------
(* Freeze, abort and finalization of the room.                             *)

\* freezeRoom for operation o; a rollback retires the verification of the
\* handoff, once it has moved the authority back.
Freeze(o, superseded) ==
    /\ Settled
    /\ frozenAt[o] = 0
    /\ preparation = None
    /\ \/ verification = None
       \/ verification # None /\ verification.op = superseded /\ mover = o
    /\ frozenAt' = [frozenAt EXCEPT ![o] = route.epoch]
    /\ preparation' = [op |-> o, sessions |-> Live]
    /\ verification' = None
    /\ session' = After(LAMBDA x : [x EXCEPT !.frozen = TRUE], Live)
    /\ UNCHANGED <<route, operation, call, tasks, processVars, faults>>

\* Mutant: the preparation is dropped, its sessions are left as they are.
ForgetPreparation ==
    /\ preparation' = None
    /\ UNCHANGED session

\* abortRoomPreparation.
AbortPreparation ==
    /\ preparation' = None
    /\ session' = After(Resumed, preparation.sessions \cap Live)

\* Nothing is lost when no cutover of o is in progress; otherwise it races.
Interrupts(o) ==
    \/ call[o] = None /\ UNCHANGED faults
    \/ call[o] # None /\ Happens("timeout")

\* The timer of the preparation fires, or the orchestrator aborts it.
PreparationEnds ==
    /\ Settled
    /\ preparation # None
    /\ AbortPreparation
    /\ Interrupts(preparation.op)
    /\ UNCHANGED <<route, verification, operation, frozenAt, call, tasks,
                   processVars>>

\* continuity() of a session for route r.
Continuous(s, r) == s \in Live /\ OnRoute(session[s], r)

\* finalizeRoomVerification: the proof holds, and is not stale; the orchestrator
\* has seen that the process on the route is Active.
Finalize ==
    /\ Settled
    /\ verification # None
    /\ ~verification.stale
    /\ verification.epoch = route.epoch
    /\ serving[route.endpoint] = route.epoch
    /\ \A s \in verification.sessions : Continuous(s, route)
    /\ verification' = None
    /\ session' = After(LAMBDA x : [x EXCEPT !.verifying = FALSE, !.shadow = {}],
                        verification.sessions)
    /\ UNCHANGED <<route, preparation, operation, frozenAt, call, tasks,
                   processVars, faults>>

\* GATEWAY_VERIFICATION_TIMEOUT_MS has passed.
VerificationAges ==
    /\ Settled
    /\ verification # None
    /\ ~verification.stale
    /\ verification' = [verification EXCEPT !.stale = TRUE]
    /\ UNCHANGED <<route, session, preparation, operation, frozenAt, call,
                   tasks, processVars, faults>>

----------------------------------------------------------------------------
(* cutoverRoom.                                                            *)

\* The route that operation o asks for: of the process that has become Active.
Target(o, e) == [endpoint |-> e, epoch |-> frozenAt[o] + 1]

\* prepare() throws at once: the Join was not seen, or another route is already
\* prepared.
RefusesPrepare(x, r) ==
    \/ x.state # "joined"
    \/ /\ ~OnRoute(x, r)
       /\ x.prepared # None
       /\ x.prepared.route # r

\* The prepare() of the sessions in ss that have something to wait for.
Started(o, ss, r) ==
    {[op |-> o, session |-> s, phase |-> "match"] :
        s \in {u \in ss : /\ session[u].state = "joined"
                         /\ ~OnRoute(session[u], r)
                         /\ session[u].prepared = None}}

\* The catch block before the registry has changed: the sessions in ss resume,
\* and the room's preparation is taken, whose ever it is.
CutoverFails(o, ss, r) ==
    /\ operation' = [operation EXCEPT ![o] =
                        [status |-> "failed", route |-> r, sessions |-> ss]]
    /\ session' = After(Resumed, ss)
    /\ preparation' = None
    /\ call' = [call EXCEPT ![o] = None]
    /\ UNCHANGED <<route, verification, frozenAt, processVars>>

\* Mutant: the orchestrator does not ask who has moved the authority.
HasSeenActive(o, e) == serving[e] = frozenAt[o] + 1

\* The orchestrator has moved the authority to e itself, which is Active.
HasProof(o, e) == mover = o /\ serving[e] = frozenAt[o] + 1

\* The orchestrator asks to cut over.
AsksCutover(o, e) ==
    /\ Settled
    /\ frozenAt[o] \in 1..(MaxEpoch - 1)
    /\ operation[o] = None
    /\ call[o] = None
    /\ HasProof(o, e)

\* gateway_room_not_frozen.
CutoverUnprepared(o, e) ==
    /\ AsksCutover(o, e)
    /\ preparation = None
    /\ CutoverFails(o, Live, Target(o, e))
    /\ UNCHANGED <<tasks, faults>>

\* A session cannot prepare.
CutoverRefused(o, e) ==
    /\ AsksCutover(o, e)
    /\ preparation # None /\ preparation.op = o
    /\ LET ss == preparation.sessions \cap Live
           r == Target(o, e)
       IN  /\ \E s \in ss : RefusesPrepare(session[s], r)
           /\ CutoverFails(o, ss, r)
           /\ tasks' = tasks \cup Started(o, ss, r)
    /\ UNCHANGED faults

CutoverBegins(o, e) ==
    /\ AsksCutover(o, e)
    /\ preparation # None /\ preparation.op = o
    /\ LET ss == preparation.sessions \cap Live
           r == Target(o, e)
       IN  /\ \A s \in ss : ~RefusesPrepare(session[s], r)
           /\ operation' = [operation EXCEPT ![o] =
                  [status |-> "preparing", route |-> r, sessions |-> ss]]
           /\ call' = [call EXCEPT ![o] = ss]
           /\ tasks' = tasks \cup Started(o, ss, r)
    /\ UNCHANGED <<route, session, preparation, verification, frozenAt,
                   processVars, faults>>

\* The operation is asked for again after its cutover has stopped half-way.
CutoverAgain(o) ==
    /\ Settled
    /\ operation[o] # None
    /\ operation[o].status = "registry_committed"
    /\ call[o] = None
    /\ preparation = None
    /\ operation[o].sessions \subseteq Live
    /\ LET ss == operation[o].sessions
           r == operation[o].route
       IN  /\ call' = IF \E s \in ss : RefusesPrepare(session[s], r) THEN call
                      ELSE [call EXCEPT ![o] = ss]
           /\ tasks' = tasks \cup Started(o, ss, r)
    /\ UNCHANGED <<route, session, preparation, verification, operation,
                   frozenAt, processVars, faults>>

\* The connection of t is still the prepared one.
Holds(t) ==
    /\ session[t.session].prepared # None
    /\ session[t.session].prepared.op = t.op

\* find_game has answered: the prepared connection is opened, also when the
\* preparation was aborted, the session has ended, or holds another one.
PrepareConnects(t) ==
    /\ Settled
    /\ t \in tasks
    /\ t.phase = "match"
    /\ tasks' = {IF u.session = t.session /\ u.phase = "connect" /\ Holds(u)
                 THEN [u EXCEPT !.phase = "orphan"] ELSE u : u \in tasks \ {t}}
                \cup {[t EXCEPT !.phase = "connect"]}
    /\ session' = [session EXCEPT ![t.session].prepared =
                      [route |-> operation[t.op].route, op |-> t.op,
                       up |-> "connecting"]]
    /\ UNCHANGED <<route, preparation, verification, operation, frozenAt, call,
                   processVars, faults>>

\* The first output arrives on the prepared connection.
PrepareEnds(t) ==
    /\ Settled
    /\ t \in tasks
    /\ \/ /\ t.phase = "connect"
          /\ Holds(t)
          /\ session' = [session EXCEPT ![t.session].prepared.up = "open"]
       \/ /\ t.phase = "orphan"
          /\ UNCHANGED session
    /\ tasks' = tasks \ {t}
    /\ UNCHANGED <<route, preparation, verification, operation, frozenAt, call,
                   processVars, faults>>

\* prepare() rejects: its connection was closed by an abort or with its
\* session, fails, or is open and sends nothing; the cutover that waits for it
\* fails, or leaves the connection where it is when the registry has changed.
PrepareFails(t) ==
    /\ Settled
    /\ t \in tasks
    /\ IF t.phase = "connect" /\ ~Holds(t) THEN UNCHANGED faults
       ELSE Happens("upstream")
    /\ tasks' = tasks \ {t}
    /\ IF call[t.op] # None /\ operation[t.op].status = "preparing"
       THEN CutoverFails(t.op, call[t.op], operation[t.op].route)
       ELSE /\ call' = [call EXCEPT ![t.op] = None]
            /\ IF t.phase = "connect" /\ Holds(t)
               THEN \E up \in {"open", "closed"} :
                       session' = [session EXCEPT ![t.session].prepared.up = up]
               ELSE UNCHANGED session
            /\ UNCHANGED <<route, preparation, verification, operation,
                           frozenAt, processVars>>

\* Mutant: the cutover trusts the route that it read before it waited.
RouteAsRead(o, r) == TRUE

\* compareAndSwap, or the route is already that of the operation.
MaySwap(o, r) == route.epoch = frozenAt[o] \/ route = r

\* The route is swapped and every selected session is moved onto it.
CutoverCommits(o) ==
    LET r == operation[o].route
        ss == call[o]
    IN  /\ AllPrepared(o)
        /\ MaySwap(o, r)
        /\ \A s \in ss : CanCommit(session[s], r)
        /\ route' = r
        /\ session' = After(LAMBDA x : Committed(x, r), ss)
        /\ preparation' = None
        /\ verification' = [op |-> o, epoch |-> r.epoch, sessions |-> ss,
                            stale |-> FALSE]
        /\ operation' = [operation EXCEPT ![o].status = "committed"]
        /\ call' = [call EXCEPT ![o] = None]
        /\ UNCHANGED <<frozenAt, tasks, processVars, faults>>

\* The route is swapped, then a session has no prepared connection any more:
\* the sessions after it are not moved.
CutoverStopsHalfway(o) ==
    LET r == operation[o].route
        ready == {s \in call[o] : CanCommit(session[s], r)}
    IN  /\ AllPrepared(o)
        /\ MaySwap(o, r)
        /\ ready # call[o]
        /\ route' = r
        /\ \E ss \in SUBSET ready :
              session' = After(LAMBDA x : Committed(x, r), ss)
        /\ preparation' = None
        /\ operation' = [operation EXCEPT ![o].status = "registry_committed"]
        /\ call' = [call EXCEPT ![o] = None]
        /\ UNCHANGED <<verification, frozenAt, tasks, processVars, faults>>

\* gateway_epoch_conflict: a cutover that was asked for again comes after another
\* one.  What it has prepared stays prepared.  (The first call of an operation
\* does not conflict: SwapNeverConflicts.)
CutoverConflicts(o) ==
    /\ AllPrepared(o)
    /\ ~MaySwap(o, operation[o].route)
    /\ operation[o].status = "registry_committed"
    /\ call' = [call EXCEPT ![o] = None]
    /\ UNCHANGED <<route, session, preparation, verification, operation,
                   frozenAt, tasks, processVars, faults>>

----------------------------------------------------------------------------

Browser(s) ==
    \/ Open(s) \/ Join(s) \/ Receive(s) \/ Overflow(s) \/ SessionCloses(s)

Connection(s) ==
    \/ Connected(s) \/ StartFails(s) \/ AckArrives(s)
    \/ UpstreamCloses(s) \/ PreparedCloses(s) \/ ReplacedCloses(s)

Process(s) == Processes(s) \/ Rejects(s)

Orchestrator(o) ==
    \/ \E p \in Operation \ {o} : Freeze(o, p)
    \/ Save(o)
    \/ \E a, b \in Endpoint : Move(o, a, b)
    \/ \E e \in Endpoint :
          CutoverUnprepared(o, e) \/ CutoverRefused(o, e) \/ CutoverBegins(o, e)
    \/ CutoverAgain(o)

Cutover(o) ==
    CutoverCommits(o) \/ CutoverStopsHalfway(o) \/ CutoverConflicts(o)

Prepare(t) == PrepareConnects(t) \/ PrepareEnds(t) \/ PrepareFails(t)

Next ==
    \/ \E s \in Session : Browser(s) \/ Connection(s) \/ Process(s)
    \/ \E o \in Operation : Orchestrator(o) \/ Cutover(o)
    \/ \E t \in Task : Prepare(t)
    \/ PreparationEnds \/ Finalize \/ VerificationAges

Spec == Init /\ [][Next]_vars

\* The gateway's timer fires, its connections answer or fail, and what it
\* awaits goes on; browsers and orchestrators need not do anything.
Fairness ==
    /\ WF_vars(PreparationEnds /\ UNCHANGED faults)
    /\ WF_vars(\E t \in Task : Prepare(t) /\ UNCHANGED faults)
    /\ \A o \in Operation : WF_vars(Cutover(o))

FairSpec == Spec /\ Fairness

----------------------------------------------------------------------------

\* The gateway has an open connection of the session to the authority.
Served(x) == Plays(x) /\ x.current.up = "open"

\* The authority's game has processed, or is being sent again, every input that
\* the gateway has dropped from a session's buffer as acknowledged, but for those
\* that a transfer of the authority has left behind; it leaves nothing behind of a
\* session whose cutover is being verified.
AckedIsKept ==
    \A s \in Session :
        LET x == session[s]
        IN  Served(x) =>
                1..x.acked \subseteq ToSet(game[x.current.route.endpoint][s])
                                     \cup ToSet(x.wire) \cup left[s]

\* The inputs of a session are processed in their order, each of them at most once
\* and none skipped but those that a transfer has left behind, across every change
\* of the authority.
PlaysInOrder ==
    \A e \in Endpoint, s \in Session :
        LET inputs == game[e][s]
        IN  /\ \A i \in 1..(Len(inputs) - 1) : inputs[i] < inputs[i + 1]
            /\ 1..LastProcessed(inputs) \subseteq ToSet(inputs) \cup left[s]

\* What the comment at handoff-driver.ts:789 says of a transfer, that the promoted
\* state is exactly the state that was released, so that no more than what is not
\* acknowledged need be kept (README.md:9).  The authority's game has processed, or
\* is being sent again, every input that was dropped as acknowledged.
AckedIsPlayed ==
    \A s \in Session :
        LET x == session[s]
        IN  Served(x) =>
                1..x.acked \subseteq ToSet(game[x.current.route.endpoint][s])
                                     \cup ToSet(x.wire)

\* What a cutover replays fits in what is retained for a rollback: the error of
\* retainForRollback, which would stop a cutover half-way and is not caught for
\* one session, is never thrown there, however many rollbacks follow each other.
ReplayFits ==
    \A s \in Session : Cardinality(Replayed(session[s])) <= MaxBuffer

\* The room's route only ever moves to a newer epoch, and to the process that is
\* Active in it, also when a cutover that stopped half-way is asked for again.
RouteIsFenced ==
    [][route' # route => /\ route'.epoch > route.epoch
                         /\ serving[route'.endpoint] = route'.epoch]_vars

\* While the sessions of a cutover are prepared, nobody else moves the route, also
\* when its preparation has timed out and others freeze the room meanwhile: the
\* compare-and-swap succeeds, and what was activated is routed to.
SwapNeverConflicts ==
    \A o \in Operation :
        AllPrepared(o) /\ operation[o].status = "preparing"
            => route.epoch = frozenAt[o]

\* An operation has frozen the room while the sessions of another one's cutover
\* are prepared: the preparation of that one has ended under it.
Overtaken ==
    \E o \in Operation : /\ call[o] # None
                         /\ preparation # None
                         /\ preparation.op # o

\* A cutover has moved the route and not all of its sessions.
Halfway ==
    \E o \in Operation : /\ operation[o] # None
                         /\ operation[o].status = "registry_committed"

\* A frozen session belongs to a preparation, which will resume it, and one that
\* is not frozen sends its inputs where the route points to: no cutover forgets
\* a session or leaves one behind, unless it was interrupted or stopped half-way.
SessionsFollowRoute ==
    "timeout" \notin faults =>
        \/ Halfway
        \/ \A s \in Session :
              LET x == session[s]
              IN  IF x.frozen
                  THEN preparation # None /\ s \in preparation.sessions
                  ELSE x.current # None /\ x.current.up = "open"
                          => x.current.route = route

\* A session that a preparation holds frozen does not stay frozen, whether its
\* cutover commits, fails, is aborted, times out or is never asked for: unless a
\* cutover stops half-way, or the room was frozen under another cutover, which
\* takes the preparation when it ends.
FrozenResumes ==
    \A s \in Session :
        /\ session[s].frozen
        /\ preparation # None
        /\ s \in preparation.sessions
        ~> ~session[s].frozen \/ Overtaken \/ Halfway

\* What README.md:11 says of a planned handoff: the gateway keeps the browser's
\* connection and replaces only the upstream one.  A session that has started
\* does not end while its current connection is open and that of the Active, if
\* no browser closes, no connection fails and no buffer is full.
DownstreamIsKept ==
    [][\A s \in Session :
          /\ s \in Live
          /\ session'[s].state = "closed"
          /\ ~session[s].starting
          /\ session[s].current.up = "open"
          /\ HasRoom(session[s])
          => serving[session[s].current.route.endpoint]
                # session[s].current.route.epoch]_vars

=============================================================================
