--------------------------- MODULE OperationEvents ---------------------------
(***************************************************************************)
(* The operation events of the room orchestrator                           *)
(* (services/room-orchestrator/src/events.ts, and main.ts where it wires,  *)
(* replays and serves them).                                               *)
(*                                                                         *)
(* OperationEventPublisher numbers the events of an operation and appends  *)
(* them, one at a time, to a Redis stream, the authority; then the outbox  *)
(* remembers them for the relay to Opsia and the listeners are told.  A    *)
(* command of the publisher can be refused, and its answer can be lost     *)
(* after Redis has accepted it; so can a request of the relay.  The        *)
(* orchestrator can restart at any time: what it had in memory is gone,    *)
(* the stream stays.                                                       *)
(*                                                                         *)
(* An event stands for its identity, its operation, its number and its     *)
(* cause; the payload is left out, and so is the trimming of the stream,   *)
(* which keeps 10 000 entries.                                             *)
(***************************************************************************)
EXTENDS Naturals, Sequences, FiniteSets, Functions

CONSTANTS
    Operation,      \* operation ids (correlation_id)
    None,           \* no command is under way
    Page,           \* the limit of a reader's query
    MaxEvents,      \* bound on the events
    MaxFailures,    \* bound on the failed commands and requests
    MaxRestarts     \* bound on the restarts

ASSUME NoneAssumption == None \notin [event : [id : Nat, op : Operation,
                                               sequence : Nat, cause : Nat],
                                      stored : BOOLEAN]
ASSUME BoundsAssumption ==
    /\ Page \in Nat \ {0}
    /\ MaxEvents \in Nat /\ MaxFailures \in Nat /\ MaxRestarts \in Nat

\* event_id is a fresh number, causation_id 0 is "none".
Event == [id : 1..MaxEvents, op : Operation, sequence : 1..MaxEvents,
          cause : 0..MaxEvents]

VARIABLES
    known,          \* ids of the operations of this life (main.ts, the gate)
    queue,          \* operations whose publish waits in publishTail
    attempt,        \* the event that is being persisted, and whether it is
    sequenceByOperation,
    tailByOperation,
    notified,       \* events that the listeners of this life were told of
    pending,        \* the outbox, in insertion order
    relay,          \* drain(): "idle", "posting" its oldest entry, or "ending"
    recorded,       \* Opsia has recorded the entry that is being posted
    timer,          \* retryTimer is set
    stream,         \* the Redis stream
    opsia,          \* the events Opsia recorded, without the repetitions
    cursor,         \* of one reader per operation, and ...
    read,           \* ... the events it has read
    unanswered,     \* events that were accepted and whose answer was lost
    ids, failures, restarts

publisherVars == <<known, queue, attempt, sequenceByOperation,
                   tailByOperation, notified>>
outboxVars == <<pending, relay, recorded, timer>>
readerVars == <<cursor, read>>
bounds == <<ids, failures, restarts>>
vars == <<publisherVars, outboxVars, stream, opsia, readerVars, unanswered,
          bounds>>

TypeOK ==
    /\ known \subseteq Operation
    /\ queue \in Seq(Operation)
    /\ attempt \in [event : Event, stored : BOOLEAN] \cup {None}
    /\ sequenceByOperation \in [Operation -> 0..MaxEvents]
    /\ tailByOperation \in [Operation -> 0..MaxEvents]
    /\ notified \subseteq Event
    /\ pending \in Seq(Event)
    /\ relay \in {"idle", "posting", "ending"}
    /\ recorded \in BOOLEAN
    /\ timer \in BOOLEAN
    /\ stream \in Seq(Event)
    /\ opsia \in Seq(Event)
    /\ cursor \in [Operation -> 0..MaxEvents]
    /\ read \in [Operation -> SUBSET Event]
    /\ unanswered \subseteq Event
    /\ ids \in 0..MaxEvents
    /\ failures \in 0..MaxFailures
    /\ restarts \in 0..MaxRestarts

Init ==
    /\ known = {}
    /\ queue = <<>>
    /\ attempt = None
    /\ sequenceByOperation = [op \in Operation |-> 0]
    /\ tailByOperation = [op \in Operation |-> 0]
    /\ notified = {}
    /\ pending = <<>>
    /\ relay = "idle"
    /\ recorded = FALSE
    /\ timer = FALSE
    /\ stream = <<>>
    /\ opsia = <<>>
    /\ cursor = [op \in Operation |-> 0]
    /\ read = [op \in Operation |-> {}]
    /\ unanswered = {}
    /\ ids = 0 /\ failures = 0 /\ restarts = 0

----------------------------------------------------------------------------
(* Operations: who may publish.                                            *)

EventsOf(op) == {e \in Range(stream) : e.op = op}

\* Mutant: the events that the stream has of an id are not looked up.
BeginUnchecked(op) ==
    /\ op \notin known
    /\ known' = known \cup {op}
    /\ UNCHANGED <<queue, attempt, sequenceByOperation, tailByOperation,
                   notified, outboxVars, stream, opsia, readerVars,
                   unanswered, bounds>>

\* An operation takes an id that this life does not know, and of which the
\* stream has no event (persistedOperationExists).
Begin(op) ==
    /\ op \notin known
    /\ EventsOf(op) = {}
    /\ known' = known \cup {op}
    /\ UNCHANGED <<queue, attempt, sequenceByOperation, tailByOperation,
                   notified, outboxVars, stream, opsia, readerVars,
                   unanswered, bounds>>

\* A preflight fails, the first event of a canary validation included: abort()
\* gives the id back.
Abandon(op) ==
    /\ op \in known
    /\ op \notin Range(queue)
    /\ attempt # None => attempt.event.op # op
    /\ \A e \in notified : e.op # op
    /\ known' = known \ {op}
    /\ UNCHANGED <<queue, attempt, sequenceByOperation, tailByOperation,
                   notified, outboxVars, stream, opsia, readerVars,
                   unanswered, bounds>>

----------------------------------------------------------------------------
(* OperationEventPublisher.publish                                         *)

Publish(op) ==
    /\ op \in known
    /\ ids + Len(queue) < MaxEvents
    /\ queue' = Append(queue, op)
    /\ UNCHANGED <<known, attempt, sequenceByOperation, tailByOperation,
                   notified, outboxVars, stream, opsia, readerVars,
                   unanswered, bounds>>

\* Mutant: the number is advanced twice, before the event and with it.
NextEventSkips(op) == [id |-> ids + 1, op |-> op,
                       sequence |-> sequenceByOperation[op] + 2,
                       cause |-> tailByOperation[op]]

\* The event that the publisher makes next for op.
NextEvent(op) == [id |-> ids + 1, op |-> op,
                  sequence |-> sequenceByOperation[op] + 1,
                  cause |-> tailByOperation[op]]

\* The position is reserved before the command is sent.
PersistBegins ==
    /\ attempt = None
    /\ queue # <<>>
    /\ LET e == NextEvent(Head(queue)) IN
          /\ attempt' = [event |-> e, stored |-> FALSE]
          /\ sequenceByOperation' =
                [sequenceByOperation EXCEPT ![e.op] = e.sequence]
          /\ tailByOperation' = [tailByOperation EXCEPT ![e.op] = e.id]
    /\ queue' = Tail(queue)
    /\ ids' = ids + 1
    /\ UNCHANGED <<known, notified, outboxVars, stream, opsia, readerVars,
                   unanswered, failures, restarts>>

\* Redis accepts the XADD.
Accepted ==
    /\ attempt # None
    /\ ~attempt.stored
    /\ stream' = Append(stream, attempt.event)
    /\ attempt' = [attempt EXCEPT !.stored = TRUE]
    /\ UNCHANGED <<known, queue, sequenceByOperation, tailByOperation,
                   notified, outboxVars, opsia, readerVars, unanswered,
                   bounds>>

\* kickRelay: what drain() does next, given the state it finds.
Kicked(r, t, entries) ==
    IF r = "idle" /\ ~t /\ entries # <<>> THEN "posting" ELSE r

\* The answer arrives: the outbox keeps the event, the listeners see it.
Persisted ==
    /\ attempt # None
    /\ attempt.stored
    /\ attempt' = None
    /\ pending' = Append(pending, attempt.event)
    /\ relay' = Kicked(relay, timer, pending')
    /\ notified' = notified \cup {attempt.event}
    /\ UNCHANGED <<known, queue, sequenceByOperation, tailByOperation,
                   recorded, timer, stream, opsia, readerVars, unanswered,
                   bounds>>

\* The command is refused, or its answer is lost: the publish is rejected and
\* the next one starts.
PersistFails ==
    /\ attempt # None
    /\ failures < MaxFailures
    /\ failures' = failures + 1
    /\ attempt' = None
    /\ unanswered' = IF attempt.stored THEN unanswered \cup {attempt.event}
                                       ELSE unanswered
    /\ UNCHANGED <<known, queue, sequenceByOperation, tailByOperation,
                   notified, outboxVars, stream, opsia, readerVars, ids,
                   restarts>>

----------------------------------------------------------------------------
(* OutboxOperationEventTransport                                           *)

\* Opsia records the posted event, once per event_id.
OpsiaRecords ==
    /\ relay = "posting"
    /\ ~recorded
    /\ recorded' = TRUE
    /\ opsia' = IF Head(pending) \in Range(opsia) THEN opsia
                ELSE Append(opsia, Head(pending))
    /\ UNCHANGED <<publisherVars, pending, relay, timer, stream, readerVars,
                   unanswered, bounds>>

\* drain() goes on with the next entry, or returns.
Drained(entries) == IF entries = <<>> THEN "ending" ELSE "posting"

RelayConfirmed ==
    /\ relay = "posting"
    /\ recorded
    /\ pending' = Tail(pending)
    /\ relay' = Drained(pending')
    /\ recorded' = FALSE
    /\ UNCHANGED <<publisherVars, timer, stream, opsia, readerVars,
                   unanswered, bounds>>

\* Mutant: the entry that failed is put at the end of the outbox.
RelayFailsToTheBack ==
    /\ relay = "posting"
    /\ failures < MaxFailures
    /\ failures' = failures + 1
    /\ pending' = Append(Tail(pending), Head(pending))
    /\ timer' = TRUE
    /\ relay' = "ending"
    /\ recorded' = FALSE
    /\ UNCHANGED <<publisherVars, stream, opsia, readerVars, unanswered, ids,
                   restarts>>

\* Opsia refuses, or its answer is lost or late: drain() sets the retry timer
\* and returns.
RelayFails ==
    /\ relay = "posting"
    /\ failures < MaxFailures
    /\ failures' = failures + 1
    /\ timer' = TRUE
    /\ relay' = "ending"
    /\ recorded' = FALSE
    /\ UNCHANGED <<publisherVars, pending, stream, opsia, readerVars,
                   unanswered, ids, restarts>>

\* Mutant: finally does not kick the relay again.
DrainEndsQuietly ==
    /\ relay = "ending"
    /\ relay' = "idle"
    /\ UNCHANGED <<publisherVars, pending, recorded, timer, stream, opsia,
                   readerVars, unanswered, bounds>>

\* drain().finally: entries may have come since drain() found none.
DrainEnds ==
    /\ relay = "ending"
    /\ relay' = Kicked("idle", timer, pending)
    /\ UNCHANGED <<publisherVars, pending, recorded, timer, stream, opsia,
                   readerVars, unanswered, bounds>>

TimerFires ==
    /\ timer
    /\ timer' = FALSE
    /\ relay' = Kicked(relay, FALSE, pending)
    /\ UNCHANGED <<publisherVars, pending, recorded, stream, opsia,
                   readerVars, unanswered, bounds>>

----------------------------------------------------------------------------

\* selectEvents: where the first page of op's events after the cursor is.
After(op) == {i \in DOMAIN stream : /\ stream[i].op = op
                                    /\ stream[i].sequence > cursor[op]}
Selected(op) ==
    {i \in After(op) : Cardinality({j \in After(op) : j < i}) < Page}

\* GET .../events: the reader goes on from nextCursor.
ReadPage(op) ==
    \E last \in Selected(op) :
        /\ \A i \in Selected(op) : i <= last
        /\ read' = [read EXCEPT ![op] = @ \cup {stream[i] : i \in Selected(op)}]
        /\ cursor' = [cursor EXCEPT ![op] = stream[last].sequence]
        /\ UNCHANGED <<publisherVars, outboxVars, stream, opsia, unanswered,
                       bounds>>

\* The process is restarted; before it serves a request, it replays the events
\* that the stream retains into the outbox.
Restart ==
    /\ restarts < MaxRestarts
    /\ restarts' = restarts + 1
    /\ known' = {}
    /\ queue' = <<>>
    /\ attempt' = None
    /\ sequenceByOperation' = [op \in Operation |-> 0]
    /\ tailByOperation' = [op \in Operation |-> 0]
    /\ notified' = {}
    /\ pending' = stream
    /\ relay' = Kicked("idle", FALSE, stream)
    /\ recorded' = FALSE
    /\ timer' = FALSE
    /\ UNCHANGED <<stream, opsia, readerVars, unanswered, ids, failures>>

----------------------------------------------------------------------------

Publisher ==
    \/ \E op \in Operation : Begin(op) \/ Abandon(op) \/ Publish(op)
    \/ PersistBegins \/ Accepted \/ Persisted \/ PersistFails

Relay == OpsiaRecords \/ RelayConfirmed \/ DrainEnds \/ TimerFires

Next ==
    \/ Publisher \/ Relay \/ RelayFails
    \/ \E op \in Operation : ReadPage(op)
    \/ Restart

Spec == Init /\ [][Next]_vars

----------------------------------------------------------------------------

\* The stream is the log that EventLog specifies: numbered upwards for each
\* operation across failures and restarts, and neither the listeners nor Opsia
\* ever know of an event that it does not have ("UI state therefore never gets
\* ahead of the operation event authority").
Log == INSTANCE EventLog WITH
    log <- stream, projected <- notified, received <- Range(opsia)
AuthorityIsALog == Log!Spec

\* Every event that was answered is with Opsia or waits in the outbox, and an
\* outbox that has entries is at work or has a timer to wake it: no event is
\* stranded by an entry that comes while drain() ends.
NothingStranded ==
    /\ \A e \in Range(stream) :
          \/ e \in Range(opsia) \cup Range(pending) \cup unanswered
          \/ attempt # None /\ attempt.event = e
    /\ pending # <<>> => relay # "idle" \/ timer

\* Opsia learns of the events in the order of the stream, whatever is retried
\* and replayed; an event whose answer was lost is the exception, it reaches
\* Opsia when a restart replays it.
OpsiaFollowsTheStream ==
    \A j \in DOMAIN opsia, n \in DOMAIN stream :
        stream[n] = opsia[j] =>
            \A m \in 1..n - 1 :
                \/ \E i \in 1..j : opsia[i] = stream[m]
                \/ stream[m] \in unanswered

\* A reader that goes from cursor to cursor has read every event up to its
\* cursor ("an unrecoverable gap whenever more than `limit` events accumulated"
\* does not happen), though other events come between two of its pages.
ReaderMissesNothing ==
    \A op \in Operation, e \in Range(stream) :
        e.op = op /\ e.sequence <= cursor[op] => e \in read[op]

\* Both: those who learn of the events learn of them in their order.
EventsAreInOrder == OpsiaFollowsTheStream /\ ReaderMissesNothing

=============================================================================
