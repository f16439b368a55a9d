--------------------------- MODULE ServicesProofs ---------------------------
(***************************************************************************)
(* Theorems about the services.  Those about the operation events and the  *)
(* admission are proved here, for any operations, requests, rooms, times   *)
(* and failures; those about the release control, the room registry and    *)
(* the failure scenarios in the modules of their own that Services         *)
(* instantiates.  The last part puts them together.                        *)
(***************************************************************************)
EXTENDS Services, FiniteSetTheorems, TLAPS

(***************************************************************************)
(* The operation events.                                                   *)
(***************************************************************************)

\* The bound on the events holds also for those that wait (publish,
\* events.ts:423-491).
Bounded ==
    /\ ids + Len(queue) <= MaxEvents
    /\ \A op \in Operation : /\ sequenceByOperation[op] <= ids
                             /\ tailByOperation[op] <= ids

\* An operation that publishes is known to the gate.
QueueIsKnown == \A i \in DOMAIN queue : queue[i] \in known

\* No event of a known operation is numbered higher than the publisher's counter.
KnownIsCounted ==
    \A op \in known, i \in DOMAIN stream :
        stream[i].op = op => stream[i].sequence <= sequenceByOperation[op]

\* The event that is being persisted has the number of the counter; until it is
\* accepted, the stream has lower ones only.
AttemptIsLast ==
    attempt # None =>
        /\ attempt.event.op \in known
        /\ attempt.event.sequence = sequenceByOperation[attempt.event.op]
        /\ IF attempt.stored
           THEN attempt.event \in Range(stream)
           ELSE \A i \in DOMAIN stream :
                   stream[i].op = attempt.event.op
                      => stream[i].sequence < attempt.event.sequence

\* The events of one operation are numbered upwards along the stream.
StreamIsOrdered ==
    \A m, n \in DOMAIN stream :
        m < n /\ stream[m].op = stream[n].op
            => stream[m].sequence < stream[n].sequence

PublisherInv ==
    /\ TypeOK
    /\ Bounded
    /\ QueueIsKnown
    /\ KnownIsCounted
    /\ AttemptIsLast
    /\ StreamIsOrdered

\* An outbox that is being posted has an entry, and a recorded one is Opsia's.
RelayIsAtHead ==
    /\ relay = "posting" => pending # <<>>
    /\ recorded => relay = "posting" /\ Head(pending) \in Range(opsia)

\* Nobody has an event that the stream does not have.
SeenIsStored ==
    /\ notified \subseteq Range(stream)
    /\ Range(opsia) \subseteq Range(stream)
    /\ Range(pending) \subseteq Range(stream)

\* The events before an entry of the outbox are Opsia's, or come before it in
\* the outbox, or had their answer lost.
OutboxFollowsTheStream ==
    \A p \in DOMAIN pending, n \in DOMAIN stream :
        stream[n] = pending[p] =>
            \A m \in 1..n - 1 :
                \/ stream[m] \in Range(opsia) \cup unanswered
                \/ \E q \in 1..p - 1 : pending[q] = stream[m]

OutboxInv ==
    /\ RelayIsAtHead
    /\ SeenIsStored
    /\ NothingStranded
    /\ OutboxFollowsTheStream
    /\ OpsiaFollowsTheStream

\* A cursor is the number of an event of the stream.
CursorIsStored ==
    \A op \in Operation :
        \/ cursor[op] = 0
        \/ \E i \in DOMAIN stream : /\ stream[i].op = op
                                    /\ stream[i].sequence = cursor[op]

ReaderInv == CursorIsStored /\ ReaderMissesNothing

IInv == PublisherInv /\ OutboxInv /\ ReaderInv

-----------------------------------------------------------------------------
(* Sequences.                                                              *)

\* What Append leaves, adds and has as its range (the stream's XADD, the
\* outbox's insertion order).
LEMMA Appended ==
    ASSUME NEW S, NEW s \in Seq(S), NEW e \in S
    PROVE  /\ Append(s, e) \in Seq(S)
           /\ DOMAIN Append(s, e) = 1..Len(s) + 1
           /\ DOMAIN s = 1..Len(s)
           /\ \A i \in 1..Len(s) : Append(s, e)[i] = s[i]
           /\ Append(s, e)[Len(s) + 1] = e
           /\ Len(Append(s, e)) = Len(s) + 1
           /\ Range(Append(s, e)) = Range(s) \cup {e}
<1>1. /\ Append(s, e) \in Seq(S)
      /\ DOMAIN Append(s, e) = 1..Len(s) + 1
      /\ DOMAIN s = 1..Len(s)
      /\ \A i \in 1..Len(s) : Append(s, e)[i] = s[i]
      /\ Append(s, e)[Len(s) + 1] = e
      /\ Len(Append(s, e)) = Len(s) + 1
      /\ Len(s) \in Nat
  OBVIOUS
<1>2. 1..Len(s) + 1 = 1..Len(s) \cup {Len(s) + 1}
  BY <1>1
<1>3. Range(Append(s, e)) = Range(s) \cup {e}
  BY <1>1, <1>2 DEF Range
<1> QED BY <1>1, <1>3

\* What Tail leaves of a sequence that is not empty (the outbox's oldest entry,
\* the publisher's next operation).
LEMMA Shortened ==
    ASSUME NEW S, NEW s \in Seq(S), s # <<>>
    PROVE  /\ Head(s) \in S /\ Head(s) = s[1] /\ 1 \in DOMAIN s
           /\ Tail(s) \in Seq(S)
           /\ DOMAIN s = 1..Len(s)
           /\ DOMAIN Tail(s) = 1..Len(s) - 1
           /\ Len(Tail(s)) = Len(s) - 1
           /\ \A i \in 1..Len(s) - 1 : Tail(s)[i] = s[i + 1]
           /\ Range(s) = Range(Tail(s)) \cup {Head(s)}
<1>1. /\ Head(s) \in S /\ Head(s) = s[1] /\ 1 \in DOMAIN s
      /\ Tail(s) \in Seq(S)
      /\ DOMAIN s = 1..Len(s)
      /\ DOMAIN Tail(s) = 1..Len(s) - 1
      /\ Len(Tail(s)) = Len(s) - 1
      /\ \A i \in 1..Len(s) - 1 : Tail(s)[i] = s[i + 1]
      /\ Len(s) \in Nat /\ Len(s) >= 1
  OBVIOUS
<1>2. ASSUME NEW e \in Range(s) PROVE e \in Range(Tail(s)) \cup {Head(s)}
  <2>1. PICK i \in 1..Len(s) : e = s[i]
    BY <1>1, <1>2 DEF Range
  <2>2. i = 1 \/ (i - 1 \in 1..Len(s) - 1 /\ Tail(s)[i - 1] = s[i])
    BY <1>1
  <2> QED BY <1>1, <2>1, <2>2 DEF Range
<1>3. ASSUME NEW e \in Range(Tail(s)) PROVE e \in Range(s)
  <2>1. PICK i \in 1..Len(s) - 1 : e = Tail(s)[i]
    BY <1>1, <1>3 DEF Range
  <2>2. i + 1 \in 1..Len(s) /\ s[i + 1] = e
    BY <1>1, <2>1
  <2> QED BY <1>1, <2>2 DEF Range
<1>4. Head(s) \in Range(s)
  BY <1>1 DEF Range
<1> QED BY <1>1, <1>2, <1>3, <1>4

\* An event's fields (buildEvent, events.ts:423-491).
LEMMA EventFields ==
    ASSUME NEW e \in Event
    PROVE  /\ e.id \in 1..MaxEvents /\ e.op \in Operation
           /\ e.sequence \in 1..MaxEvents /\ e.cause \in 0..MaxEvents
BY DEF Event

\* No event is twice in an ordered stream.
LEMMA StreamHasNoCopies ==
    ASSUME TypeOK, StreamIsOrdered, NEW m \in DOMAIN stream,
           NEW n \in DOMAIN stream, stream[m] = stream[n]
    PROVE  m = n
<1>1. DOMAIN stream = 1..Len(stream) /\ Len(stream) \in Nat
  BY DEF TypeOK
<1>2. stream[m].sequence \in Nat /\ stream[n].sequence \in Nat
  <2>1. stream[m] \in Event /\ stream[n] \in Event
    BY <1>1 DEF TypeOK
  <2> QED BY <2>1, EventFields, BoundsAssumption
<1>3. ~(m < n) /\ ~(n < m)
  BY <1>2 DEF StreamIsOrdered
<1> QED BY <1>1, <1>3

\* An attempt is told from no attempt (publish's promise, events.ts:423-491).
LEMMA AttemptIsSome ==
    ASSUME NEW a \in [event : Event, stored : BOOLEAN]
    PROVE  a # None
<1>1. a.event \in [id : Nat, op : Operation, sequence : Nat, cause : Nat]
  BY BoundsAssumption DEF Event
<1>2. a = [event |-> a.event, stored |-> a.stored] /\ a.stored \in BOOLEAN
  OBVIOUS
<1> QED BY <1>1, <1>2, NoneAssumption

-----------------------------------------------------------------------------
(* The publisher.                                                          *)

\* A life starts with nothing published.
LEMMA InitPublisherInv == Init => PublisherInv
<1> SUFFICES ASSUME Init PROVE PublisherInv
  OBVIOUS
<1>1. TypeOK
  <2>1. /\ ids \in 0..MaxEvents /\ failures \in 0..MaxFailures
        /\ restarts \in 0..MaxRestarts
    BY BoundsAssumption DEF Init
  <2>2. /\ sequenceByOperation \in [Operation -> 0..MaxEvents]
        /\ tailByOperation \in [Operation -> 0..MaxEvents]
        /\ cursor \in [Operation -> 0..MaxEvents]
    BY BoundsAssumption DEF Init
  <2>3. /\ queue \in Seq(Operation) /\ pending \in Seq(Event)
        /\ stream \in Seq(Event) /\ opsia \in Seq(Event)
    BY DEF Init
  <2>4. /\ known \subseteq Operation
        /\ attempt \in [event : Event, stored : BOOLEAN] \cup {None}
        /\ notified \subseteq Event /\ unanswered \subseteq Event
        /\ relay \in {"idle", "posting", "ending"}
        /\ recorded \in BOOLEAN /\ timer \in BOOLEAN
        /\ read \in [Operation -> SUBSET Event]
    BY DEF Init
  <2> QED BY <2>1, <2>2, <2>3, <2>4 DEF TypeOK
<1>2. Bounded /\ QueueIsKnown
  BY BoundsAssumption DEF Init, Bounded, QueueIsKnown
<1>3. KnownIsCounted /\ AttemptIsLast /\ StreamIsOrdered
  BY DEF Init, KnownIsCounted, AttemptIsLast, StreamIsOrdered
<1> QED BY <1>1, <1>2, <1>3 DEF PublisherInv

\* A step that leaves the publisher and the stream alone keeps what is said of
\* them.
LEMMA PublisherUnchanged ==
    ASSUME PublisherInv, TypeOK',
           UNCHANGED <<known, queue, attempt, sequenceByOperation,
                       tailByOperation, stream, ids>>
    PROVE  PublisherInv'
BY DEF PublisherInv, Bounded, QueueIsKnown, KnownIsCounted, AttemptIsLast,
   StreamIsOrdered

\* Begin: an operation of which the stream has an event is not taken.
LEMMA BeginKeepsPublisherInv ==
    ASSUME PublisherInv, NEW op \in Operation, Begin(op)
    PROVE  PublisherInv'
<1> USE DEF PublisherInv, Begin, outboxVars, readerVars, bounds
<1>1. TypeOK'
  BY DEF TypeOK
<1>2. Bounded' /\ QueueIsKnown' /\ StreamIsOrdered'
  BY DEF Bounded, QueueIsKnown, StreamIsOrdered
<1>3. \A i \in DOMAIN stream : stream[i].op # op
  BY DEF EventsOf, Range
<1>4. KnownIsCounted'
  BY <1>3 DEF KnownIsCounted
<1>5. AttemptIsLast'
  BY DEF AttemptIsLast
<1> QED BY <1>1, <1>2, <1>4, <1>5

\* Abandon: the id of an operation that does not publish is given back.
LEMMA AbandonKeepsPublisherInv ==
    ASSUME PublisherInv, NEW op \in Operation, Abandon(op)
    PROVE  PublisherInv'
<1> USE DEF PublisherInv, Abandon, outboxVars, readerVars, bounds
<1>1. TypeOK'
  BY DEF TypeOK
<1>2. Bounded' /\ StreamIsOrdered' /\ KnownIsCounted'
  BY DEF Bounded, StreamIsOrdered, KnownIsCounted
<1>3. QueueIsKnown'
  BY DEF QueueIsKnown, Range
<1>4. AttemptIsLast'
  BY DEF AttemptIsLast
<1> QED BY <1>1, <1>2, <1>3, <1>4

\* publish() chains onto publishTail.
LEMMA PublishKeepsPublisherInv ==
    ASSUME PublisherInv, NEW op \in Operation, Publish(op)
    PROVE  PublisherInv'
<1> USE DEF PublisherInv, Publish, outboxVars, readerVars, bounds
<1>1. queue \in Seq(Operation) /\ known \subseteq Operation
  BY DEF TypeOK
<1>2. /\ queue' \in Seq(Operation)
      /\ Len(queue') = Len(queue) + 1
      /\ \A i \in DOMAIN queue' : queue'[i] \in known
  <2>1. /\ DOMAIN queue' = 1..Len(queue) + 1
        /\ \A i \in 1..Len(queue) : queue'[i] = queue[i]
        /\ queue'[Len(queue) + 1] = op
        /\ queue' \in Seq(Operation) /\ Len(queue') = Len(queue) + 1
        /\ DOMAIN queue = 1..Len(queue)
    BY <1>1, Appended
  <2>2. Len(queue) \in Nat
    BY <1>1
  <2>3. ASSUME NEW i \in DOMAIN queue' PROVE queue'[i] \in known
    <3>1. i \in 1..Len(queue) \/ i = Len(queue) + 1
      BY <2>1, <2>2
    <3> QED BY <2>1, <3>1 DEF QueueIsKnown
  <2> QED BY <2>1, <2>3
<1>3. TypeOK'
  BY <1>2 DEF TypeOK
<1>4. Bounded'
  <2>1. Len(queue) \in Nat /\ ids \in Nat
    BY <1>1, BoundsAssumption DEF TypeOK
  <2> QED BY <1>2, <2>1, BoundsAssumption DEF Bounded
<1>5. QueueIsKnown'
  BY <1>2 DEF QueueIsKnown
<1>6. KnownIsCounted' /\ AttemptIsLast' /\ StreamIsOrdered'
  BY DEF KnownIsCounted, AttemptIsLast, StreamIsOrdered
<1> QED BY <1>3, <1>4, <1>5, <1>6

\* The publisher makes an event of the next operation, and counts it.
LEMMA PersistBeginsKeepsPublisherInv ==
    ASSUME PublisherInv, PersistBegins
    PROVE  PublisherInv'
<1> DEFINE op == Head(queue)
<1> DEFINE e == NextEvent(op)
<1> USE DEF PublisherInv
<1>1. /\ op \in Operation /\ op \in known
      /\ Tail(queue) \in Seq(Operation) /\ Len(Tail(queue)) = Len(queue) - 1
      /\ Len(queue) \in Nat /\ Len(queue) >= 1
      /\ \A i \in DOMAIN Tail(queue) : Tail(queue)[i] \in known
  <2>1. queue \in Seq(Operation) /\ queue # <<>>
    BY DEF TypeOK, PersistBegins
  <2>2. \A i \in DOMAIN queue : queue[i] \in known
    BY DEF QueueIsKnown
  <2> QED BY <2>1, <2>2, Shortened
<1>2. ids \in Nat /\ ids + 1 <= MaxEvents /\ MaxEvents \in Nat
  BY <1>1, BoundsAssumption DEF Bounded, TypeOK
<1>3. /\ sequenceByOperation[op] \in 0..ids
      /\ tailByOperation[op] \in 0..ids
  BY <1>1, <1>2 DEF Bounded, TypeOK
<1>4. /\ e \in Event /\ e.op = op /\ e.id = ids + 1
      /\ e.sequence = sequenceByOperation[op] + 1
  BY <1>1, <1>2, <1>3 DEF NextEvent, Event
<1>5. /\ attempt' = [event |-> e, stored |-> FALSE]
      /\ sequenceByOperation' = [sequenceByOperation EXCEPT ![op] = e.sequence]
      /\ tailByOperation' = [tailByOperation EXCEPT ![op] = e.id]
      /\ queue' = Tail(queue) /\ ids' = ids + 1
      /\ UNCHANGED <<known, notified, pending, relay, recorded, timer, stream,
                     opsia, cursor, read, unanswered, failures, restarts>>
  BY <1>4 DEF PersistBegins, outboxVars, readerVars
<1> HIDE DEF e, op
<1>6. TypeOK'
  <2>1. attempt' \in [event : Event, stored : BOOLEAN] /\ ids' \in 0..MaxEvents
    BY <1>2, <1>4, <1>5
  <2>2. e.sequence \in 0..MaxEvents /\ e.id \in 0..MaxEvents
    BY <1>2, <1>3, <1>4
  <2>3. /\ sequenceByOperation \in [Operation -> 0..MaxEvents]
        /\ tailByOperation \in [Operation -> 0..MaxEvents]
    BY DEF TypeOK
  <2>4. /\ sequenceByOperation' \in [Operation -> 0..MaxEvents]
        /\ tailByOperation' \in [Operation -> 0..MaxEvents]
    BY <1>1, <1>5, <2>2, <2>3
  <2> QED BY <1>1, <1>5, <2>1, <2>4 DEF TypeOK
<1>7. Bounded'
  <2>1. ids' + Len(queue') <= MaxEvents
    BY <1>1, <1>2, <1>5 DEF Bounded
  <2>2. ASSUME NEW o \in Operation
        PROVE  sequenceByOperation'[o] <= ids' /\ tailByOperation'[o] <= ids'
    <3>1. /\ sequenceByOperation[o] \in Nat /\ sequenceByOperation[o] <= ids
          /\ tailByOperation[o] \in Nat /\ tailByOperation[o] <= ids
      BY BoundsAssumption DEF Bounded, TypeOK
    <3>2. sequenceByOperation'[o] =
             IF o = op THEN e.sequence ELSE sequenceByOperation[o]
      BY <1>1, <1>5 DEF TypeOK
    <3>3. tailByOperation'[o] = IF o = op THEN e.id ELSE tailByOperation[o]
      BY <1>1, <1>5 DEF TypeOK
    <3> QED BY <1>2, <1>3, <1>4, <1>5, <3>1, <3>2, <3>3
  <2> QED BY <2>1, <2>2 DEF Bounded
<1>8. QueueIsKnown'
  BY <1>1, <1>5 DEF QueueIsKnown
<1>9. sequenceByOperation' \in [Operation -> Nat]
      /\ \A o \in Operation : /\ sequenceByOperation[o] \in Nat
                                /\ sequenceByOperation[o] <= sequenceByOperation'[o]
  <2>1. sequenceByOperation' \in [Operation -> 0..MaxEvents]
    BY <1>6 DEF TypeOK
  <2>2. ASSUME NEW o \in Operation
        PROVE  /\ sequenceByOperation[o] \in Nat
               /\ sequenceByOperation'[o] \in Nat
               /\ sequenceByOperation[o] <= sequenceByOperation'[o]
    <3>1. sequenceByOperation[o] \in Nat /\ sequenceByOperation'[o] \in Nat
      BY <2>1, BoundsAssumption DEF TypeOK
    <3>2. sequenceByOperation'[o] =
             IF o = op THEN e.sequence ELSE sequenceByOperation[o]
      BY <1>1, <1>5 DEF TypeOK
    <3> QED BY <1>4, <3>1, <3>2
  <2> QED BY <2>1, <2>2
<1>10. \A i \in DOMAIN stream : stream[i] \in Event
  BY DEF TypeOK
<1>11. \A i \in DOMAIN stream : stream[i].sequence \in Nat
  BY <1>10, EventFields, BoundsAssumption
<1>12. KnownIsCounted'
  <2>1. known' = known /\ stream' = stream /\ known \subseteq Operation
    BY <1>5 DEF TypeOK
  <2>2. ASSUME NEW o \in known, NEW i \in DOMAIN stream, stream[i].op = o
        PROVE  stream[i].sequence <= sequenceByOperation'[o]
    <3>1. /\ stream[i].sequence \in Nat
          /\ stream[i].sequence <= sequenceByOperation[o]
      BY <1>11, <2>2 DEF KnownIsCounted
    <3>2. /\ sequenceByOperation[o] \in Nat /\ sequenceByOperation'[o] \in Nat
          /\ sequenceByOperation[o] <= sequenceByOperation'[o]
      BY <1>9, <2>1, <2>2
    <3> QED BY <3>1, <3>2
  <2> QED BY <2>1, <2>2 DEF KnownIsCounted
<1>13. AttemptIsLast'
  <2>1. /\ attempt'.event = e /\ ~attempt'.stored
        /\ sequenceByOperation'[op] = e.sequence
    BY <1>1, <1>5 DEF TypeOK
  <2>2. ASSUME NEW i \in DOMAIN stream, stream[i].op = op
        PROVE  stream[i].sequence < e.sequence
    BY <1>1, <1>3, <1>4, <1>11, <2>2 DEF KnownIsCounted
  <2> QED BY <1>1, <1>4, <1>5, <2>1, <2>2 DEF AttemptIsLast
<1>14. StreamIsOrdered'
  BY <1>5 DEF StreamIsOrdered
<1> QED BY <1>6, <1>7, <1>8, <1>12, <1>13, <1>14

\* Redis appends the event: it is the highest of its operation.
LEMMA AcceptedKeepsPublisherInv ==
    ASSUME PublisherInv, Accepted
    PROVE  PublisherInv'
<1> DEFINE e == attempt.event
<1> USE DEF PublisherInv
<1>1. attempt \in [event : Event, stored : BOOLEAN] /\ e \in Event
  BY DEF Accepted, TypeOK
<1>2. /\ stream' = Append(stream, e)
      /\ attempt' \in [event : Event, stored : BOOLEAN]
      /\ attempt'.event = e /\ attempt'.stored
  BY <1>1 DEF Accepted
<1>3. UNCHANGED <<known, queue, sequenceByOperation, tailByOperation, notified,
                  pending, relay, recorded, timer, opsia, cursor, read,
                  unanswered, ids, failures, restarts>>
  BY DEF Accepted, outboxVars, readerVars, bounds
<1>4. /\ e.op \in known /\ e.sequence = sequenceByOperation[e.op]
      /\ \A i \in DOMAIN stream : stream[i].op = e.op
            => stream[i].sequence < e.sequence
  BY DEF Accepted, AttemptIsLast
<1> HIDE DEF e
<1>5. /\ stream' \in Seq(Event)
      /\ DOMAIN stream' = 1..Len(stream) + 1
      /\ DOMAIN stream = 1..Len(stream)
      /\ \A i \in 1..Len(stream) : stream'[i] = stream[i]
      /\ stream'[Len(stream) + 1] = e
      /\ Range(stream') = Range(stream) \cup {e}
      /\ Len(stream) \in Nat
  <2>1. stream \in Seq(Event)
    BY DEF TypeOK
  <2>2. Len(stream) \in Nat
    BY <2>1
  <2> QED BY <1>1, <1>2, <2>1, <2>2, Appended
<1>6. \A i \in DOMAIN stream' :
         \/ i \in DOMAIN stream /\ stream'[i] = stream[i]
         \/ i = Len(stream) + 1 /\ stream'[i] = e
  <2> TAKE i \in DOMAIN stream'
  <2>1. i \in 1..Len(stream) \/ i = Len(stream) + 1
    BY <1>5
  <2> QED BY <1>5, <2>1
<1>7. TypeOK'
  BY <1>2, <1>3, <1>5 DEF TypeOK
<1>8. Bounded' /\ QueueIsKnown'
  BY <1>3 DEF Bounded, QueueIsKnown
<1>9. e.sequence \in Nat
  BY <1>1, EventFields, BoundsAssumption
<1>10. KnownIsCounted'
  BY <1>3, <1>4, <1>6, <1>9 DEF KnownIsCounted
<1>11. AttemptIsLast'
  BY <1>2, <1>3, <1>4, <1>5 DEF AttemptIsLast
<1>12. StreamIsOrdered'
  <2> SUFFICES ASSUME NEW m \in DOMAIN stream', NEW n \in DOMAIN stream',
                      m < n, stream'[m].op = stream'[n].op
               PROVE  stream'[m].sequence < stream'[n].sequence
    BY DEF StreamIsOrdered
  <2>1. m \in DOMAIN stream /\ stream'[m] = stream[m]
    BY <1>5
  <2>2. CASE n \in DOMAIN stream /\ stream'[n] = stream[n]
    BY <2>1, <2>2 DEF StreamIsOrdered
  <2>3. CASE stream'[n] = e
    BY <1>4, <2>1, <2>3
  <2> QED BY <1>6, <2>2, <2>3
<1> QED BY <1>7, <1>8, <1>10, <1>11, <1>12

\* The answer of the command arrives, or it does not: the next publish starts.
LEMMA AttemptEndsKeepsPublisherInv ==
    ASSUME PublisherInv, TypeOK', attempt' = None,
           UNCHANGED <<known, queue, sequenceByOperation, tailByOperation,
                       stream, ids>>
    PROVE  PublisherInv'
BY DEF PublisherInv, Bounded, QueueIsKnown, KnownIsCounted, AttemptIsLast,
   StreamIsOrdered

\* The outbox gets the event, and is kicked (persist, events.ts:343-408).
LEMMA PersistedKeepsTypeOK ==
    ASSUME TypeOK, Persisted
    PROVE  TypeOK'
<1>1. attempt \in [event : Event, stored : BOOLEAN] /\ attempt.event \in Event
  BY DEF Persisted, TypeOK
<1>2. pending' \in Seq(Event)
  <2>1. pending \in Seq(Event)
    BY DEF TypeOK
  <2> QED BY <1>1, <2>1, Appended DEF Persisted
<1>3. relay' \in {"idle", "posting", "ending"}
  BY DEF Persisted, Kicked, TypeOK
<1> QED BY <1>1, <1>2, <1>3 DEF Persisted, TypeOK, readerVars, bounds

\* The publish is rejected, with the event stored or not.
LEMMA PersistFailsKeepsTypeOK ==
    ASSUME TypeOK, PersistFails
    PROVE  TypeOK'
<1>1. attempt \in [event : Event, stored : BOOLEAN] /\ attempt.event \in Event
  BY DEF PersistFails, TypeOK
<1>2. failures' \in 0..MaxFailures
  BY BoundsAssumption DEF PersistFails, TypeOK
<1>3. unanswered' \subseteq Event
  BY <1>1 DEF PersistFails, TypeOK
<1> QED BY <1>2, <1>3 DEF PersistFails, TypeOK, outboxVars, readerVars

\* What the outbox does (kickRelay and drain, events.ts:343-408).
LEMMA RelayKeepsTypeOK ==
    ASSUME TypeOK, OutboxInv, Relay \/ RelayFails
    PROVE  TypeOK'
<1>1. CASE OpsiaRecords
  <2>1. Head(pending) \in Event
    <3>1. pending \in Seq(Event) /\ pending # <<>>
      BY <1>1 DEF OpsiaRecords, TypeOK, OutboxInv, RelayIsAtHead
    <3> QED BY <3>1, Shortened
  <2>2. opsia' \in Seq(Event)
    BY <1>1, <2>1 DEF OpsiaRecords, TypeOK
  <2> QED BY <1>1, <2>2 DEF OpsiaRecords, TypeOK, publisherVars, readerVars,
             bounds
<1>2. CASE RelayConfirmed
  <2>1. pending' \in Seq(Event)
    <3>1. pending \in Seq(Event) /\ pending # <<>>
      BY <1>2 DEF RelayConfirmed, TypeOK, OutboxInv, RelayIsAtHead
    <3> QED BY <1>2, <3>1, Shortened DEF RelayConfirmed
  <2> QED BY <1>2, <2>1 DEF RelayConfirmed, Drained, TypeOK, publisherVars,
             readerVars, bounds
<1>3. CASE DrainEnds
  BY <1>3 DEF DrainEnds, Kicked, TypeOK, publisherVars, readerVars, bounds
<1>4. CASE TimerFires
  BY <1>4 DEF TimerFires, Kicked, TypeOK, publisherVars, readerVars, bounds
<1>5. CASE RelayFails
  <2>1. failures' \in 0..MaxFailures
    BY <1>5, BoundsAssumption DEF RelayFails, TypeOK
  <2> QED BY <1>5, <2>1 DEF RelayFails, TypeOK, publisherVars, readerVars
<1> QED BY <1>1, <1>2, <1>3, <1>4, <1>5 DEF Relay

\* What a reader is given is of the stream (selectEvents, events.ts:72-90).
LEMMA ReadPageKeepsTypeOK ==
    ASSUME TypeOK, NEW op \in Operation, ReadPage(op)
    PROVE  TypeOK'
<1>1. PICK last \in Selected(op) :
         /\ read' = [read EXCEPT ![op] =
                        @ \cup {stream[i] : i \in Selected(op)}]
         /\ cursor' = [cursor EXCEPT ![op] = stream[last].sequence]
  BY DEF ReadPage
<1>2. Selected(op) \subseteq DOMAIN stream
  BY DEF Selected, After
<1>3. \A i \in DOMAIN stream : stream[i] \in Event
  BY DEF TypeOK
<1>4. {stream[i] : i \in Selected(op)} \subseteq Event
  BY <1>2, <1>3
<1>5. read' \in [Operation -> SUBSET Event]
  <2>1. read \in [Operation -> SUBSET Event]
    BY DEF TypeOK
  <2> QED BY <1>1, <1>4, <2>1
<1>6. cursor' \in [Operation -> 0..MaxEvents]
  <2>1. stream[last].sequence \in 1..MaxEvents
    BY <1>2, <1>3, EventFields
  <2> QED BY <1>1, <2>1, BoundsAssumption DEF TypeOK
<1> QED BY <1>5, <1>6 DEF ReadPage, TypeOK, publisherVars, outboxVars, bounds

\* A new life knows no operation, and finds its outbox in the stream
\* (main.ts:875-881).
LEMMA RestartKeepsPublisherInv ==
    ASSUME PublisherInv, Restart
    PROVE  PublisherInv'
<1> USE DEF PublisherInv
<1>1. TypeOK'
  <2>1. restarts' \in 0..MaxRestarts
    BY BoundsAssumption DEF Restart, TypeOK
  <2>2. /\ sequenceByOperation' \in [Operation -> 0..MaxEvents]
        /\ tailByOperation' \in [Operation -> 0..MaxEvents]
    BY BoundsAssumption DEF Restart
  <2>3. relay' \in {"idle", "posting", "ending"}
    BY DEF Restart, Kicked
  <2>4. queue' \in Seq(Operation) /\ pending' \in Seq(Event)
    BY DEF Restart, TypeOK
  <2> QED BY <2>1, <2>2, <2>3, <2>4 DEF Restart, TypeOK, readerVars
<1>2. Bounded'
  <2>1. Len(queue) \in Nat /\ ids \in Nat
    BY BoundsAssumption DEF TypeOK
  <2>2. ids <= MaxEvents
    BY <2>1, BoundsAssumption DEF Bounded
  <2>3. ids' = ids /\ Len(queue') = 0
    BY DEF Restart
  <2>4. \A op \in Operation : /\ sequenceByOperation'[op] = 0
                              /\ tailByOperation'[op] = 0
    BY DEF Restart
  <2> QED BY <2>1, <2>2, <2>3, <2>4 DEF Bounded
<1>3. QueueIsKnown' /\ KnownIsCounted' /\ AttemptIsLast' /\ StreamIsOrdered'
  BY DEF Restart, QueueIsKnown, KnownIsCounted, AttemptIsLast,
     StreamIsOrdered
<1> QED BY <1>1, <1>2, <1>3

\* Every step of the publisher, the outbox, a reader and a restart.
LEMMA NextPublisherInv ==
    ASSUME PublisherInv, OutboxInv, [Next]_vars
    PROVE  PublisherInv'
<1>0. TypeOK
  BY DEF PublisherInv
<1>1. ASSUME NEW op \in Operation, Begin(op) PROVE PublisherInv'
  BY <1>1, BeginKeepsPublisherInv
<1>2. ASSUME NEW op \in Operation, Abandon(op) PROVE PublisherInv'
  BY <1>2, AbandonKeepsPublisherInv
<1>3. ASSUME NEW op \in Operation, Publish(op) PROVE PublisherInv'
  BY <1>3, PublishKeepsPublisherInv
<1>4. CASE PersistBegins
  BY <1>4, PersistBeginsKeepsPublisherInv
<1>5. CASE Accepted
  BY <1>5, AcceptedKeepsPublisherInv
<1>6. CASE Persisted
  BY <1>0, <1>6, PersistedKeepsTypeOK, AttemptEndsKeepsPublisherInv
     DEF Persisted, bounds
<1>7. CASE PersistFails
  BY <1>0, <1>7, PersistFailsKeepsTypeOK, AttemptEndsKeepsPublisherInv
     DEF PersistFails
<1>8. CASE Relay \/ RelayFails
  <2>1. UNCHANGED <<known, queue, attempt, sequenceByOperation,
                    tailByOperation, stream, ids>>
    BY <1>8 DEF Relay, OpsiaRecords, RelayConfirmed, DrainEnds, TimerFires,
       RelayFails, publisherVars, bounds
  <2> QED BY <1>0, <1>8, <2>1, RelayKeepsTypeOK, PublisherUnchanged
<1>9. ASSUME NEW op \in Operation, ReadPage(op) PROVE PublisherInv'
  <2>1. UNCHANGED <<known, queue, attempt, sequenceByOperation,
                    tailByOperation, stream, ids>>
    BY <1>9 DEF ReadPage, publisherVars, bounds
  <2> QED BY <1>0, <1>9, <2>1, ReadPageKeepsTypeOK, PublisherUnchanged
<1>10. CASE Restart
  BY <1>10, RestartKeepsPublisherInv
<1>11. CASE UNCHANGED vars
  <2>1. TypeOK'
    BY <1>0, <1>11 DEF vars, publisherVars, outboxVars, readerVars, bounds,
       TypeOK
  <2> QED BY <1>11, <2>1, PublisherUnchanged DEF vars, publisherVars, bounds
<1> QED BY <1>1, <1>2, <1>3, <1>4, <1>5, <1>6, <1>7, <1>8, <1>9, <1>10, <1>11
        DEF Next, Publisher

-----------------------------------------------------------------------------
(* The outbox.                                                             *)

\* Nothing is stored, and nothing stranded, at first.
LEMMA InitOutboxInv == Init => OutboxInv
BY DEF Init, OutboxInv, RelayIsAtHead, SeenIsStored, NothingStranded,
   OutboxFollowsTheStream, OpsiaFollowsTheStream, Range

\* A step that leaves the outbox, Opsia and the stream alone, and the attempt.
LEMMA OutboxUnchanged ==
    ASSUME OutboxInv,
           UNCHANGED <<attempt, outboxVars, stream, opsia, unanswered>>,
           notified' \subseteq notified
    PROVE  OutboxInv'
BY DEF OutboxInv, outboxVars, RelayIsAtHead, SeenIsStored, NothingStranded,
   OutboxFollowsTheStream, OpsiaFollowsTheStream

\* An attempt begins: nothing of what was stored is forgotten.
LEMMA PersistBeginsKeepsOutboxInv ==
    ASSUME OutboxInv, PersistBegins
    PROVE  OutboxInv'
<1> USE DEF PersistBegins, readerVars, outboxVars
<1>1. RelayIsAtHead' /\ SeenIsStored' /\ OutboxFollowsTheStream'
      /\ OpsiaFollowsTheStream'
  BY DEF OutboxInv, RelayIsAtHead, SeenIsStored, OutboxFollowsTheStream,
     OpsiaFollowsTheStream
<1>2. NothingStranded'
  BY DEF OutboxInv, NothingStranded
<1> QED BY <1>1, <1>2 DEF OutboxInv

\* The new event is at the end of the stream, and nobody has it yet.
LEMMA AcceptedKeepsOutboxInv ==
    ASSUME PublisherInv, OutboxInv, Accepted
    PROVE  OutboxInv'
<1> DEFINE e == attempt.event
<1>1. attempt \in [event : Event, stored : BOOLEAN] /\ e \in Event
  BY DEF Accepted, PublisherInv, TypeOK
<1>2. /\ stream' = Append(stream, e)
      /\ attempt' \in [event : Event, stored : BOOLEAN]
      /\ attempt'.event = e
  BY <1>1 DEF Accepted
<1>3. attempt' # None
  BY <1>2, AttemptIsSome
<1>4. UNCHANGED <<notified, pending, relay, recorded, timer, opsia, unanswered>>
  BY DEF Accepted, outboxVars
<1>5. e \notin Range(stream)
  <2>1. \A i \in DOMAIN stream :
           stream[i].op = e.op => stream[i].sequence < e.sequence
    BY DEF Accepted, PublisherInv, AttemptIsLast
  <2>2. e.sequence \in Nat
    BY <1>1, EventFields, BoundsAssumption
  <2> QED BY <2>1, <2>2 DEF Range
<1>6. /\ DOMAIN stream' = 1..Len(stream) + 1
      /\ DOMAIN stream = 1..Len(stream)
      /\ \A i \in 1..Len(stream) : stream'[i] = stream[i]
      /\ stream'[Len(stream) + 1] = e
      /\ Range(stream') = Range(stream) \cup {e}
      /\ Len(stream) \in Nat
  <2>1. stream \in Seq(Event)
    BY DEF PublisherInv, TypeOK
  <2> QED BY <1>1, <1>2, <2>1, Appended
<1> HIDE DEF e
<1>7. RelayIsAtHead' /\ SeenIsStored'
  BY <1>4, <1>6 DEF OutboxInv, RelayIsAtHead, SeenIsStored
<1>8. NothingStranded'
  <2>1. ASSUME NEW x \in Range(stream')
        PROVE  \/ x \in Range(opsia) \cup Range(pending) \cup unanswered
               \/ attempt' # None /\ attempt'.event = x
    BY <1>1, <1>2, <1>3, <1>6, <2>1 DEF OutboxInv, NothingStranded, e
  <2> QED BY <1>4, <2>1 DEF OutboxInv, NothingStranded
<1>9. ASSUME NEW n \in DOMAIN stream', stream'[n] \in Range(stream)
      PROVE  /\ n \in DOMAIN stream /\ stream'[n] = stream[n]
             /\ \A m \in 1..n - 1 : stream'[m] = stream[m]
  <2>1. n \in 1..Len(stream)
    BY <1>5, <1>6, <1>9
  <2> QED BY <1>6, <2>1
<1>10. OutboxFollowsTheStream'
  <2> SUFFICES ASSUME NEW p \in DOMAIN pending, NEW n \in DOMAIN stream',
                      stream'[n] = pending[p], NEW m \in 1..n - 1
               PROVE  \/ stream'[m] \in Range(opsia) \cup unanswered
                      \/ \E q \in 1..p - 1 : pending[q] = stream'[m]
    BY <1>4 DEF OutboxFollowsTheStream
  <2>1. pending[p] \in Range(stream)
    BY DEF OutboxInv, SeenIsStored, Range
  <2> QED BY <1>9, <2>1 DEF OutboxInv, OutboxFollowsTheStream
<1>11. OpsiaFollowsTheStream'
  <2> SUFFICES ASSUME NEW j \in DOMAIN opsia, NEW n \in DOMAIN stream',
                      stream'[n] = opsia[j], NEW m \in 1..n - 1
               PROVE  \/ \E i \in 1..j : opsia[i] = stream'[m]
                      \/ stream'[m] \in unanswered
    BY <1>4 DEF OpsiaFollowsTheStream
  <2>1. opsia[j] \in Range(stream)
    BY DEF OutboxInv, SeenIsStored, Range
  <2> QED BY <1>9, <2>1 DEF OutboxInv, OpsiaFollowsTheStream
<1> QED BY <1>7, <1>8, <1>10, <1>11 DEF OutboxInv

\* The event is put behind all those that were stored before it.
LEMMA PersistedKeepsOutboxInv ==
    ASSUME PublisherInv, OutboxInv, Persisted
    PROVE  OutboxInv'
<1> DEFINE e == attempt.event
<1>1. e \in Event /\ e \in Range(stream)
  BY DEF Persisted, PublisherInv, TypeOK, AttemptIsLast
<1>2. /\ pending' = Append(pending, e) /\ attempt' = None
      /\ notified' = notified \cup {e}
      /\ relay' = Kicked(relay, timer, pending')
  BY DEF Persisted
<1>3. UNCHANGED <<recorded, timer, stream, opsia, unanswered>>
  BY DEF Persisted
<1>4. \A x \in Range(stream) :
         x \in Range(opsia) \cup Range(pending) \cup unanswered \/ x = e
  BY DEF OutboxInv, NothingStranded
<1> HIDE DEF e
<1>5. /\ DOMAIN pending' = 1..Len(pending) + 1
      /\ DOMAIN pending = 1..Len(pending)
      /\ \A i \in 1..Len(pending) : pending'[i] = pending[i]
      /\ pending'[Len(pending) + 1] = e
      /\ Range(pending') = Range(pending) \cup {e}
      /\ Len(pending) \in Nat
      /\ pending' \in Seq(Event) /\ pending \in Seq(Event)
  <2>1. pending \in Seq(Event)
    BY DEF PublisherInv, TypeOK
  <2> QED BY <1>1, <1>2, <2>1, Appended
<1>6. pending' # <<>> /\ (pending # <<>> => Head(pending') = Head(pending))
  BY <1>5
<1>7. RelayIsAtHead'
  BY <1>2, <1>3, <1>6 DEF OutboxInv, RelayIsAtHead, Kicked
<1>8. SeenIsStored'
  BY <1>1, <1>2, <1>3, <1>5 DEF OutboxInv, SeenIsStored
<1>9. NothingStranded'
  <2>1. \A x \in Range(stream') :
           x \in Range(opsia') \cup Range(pending') \cup unanswered'
    BY <1>3, <1>4, <1>5
  <2>2. relay' # "idle" \/ timer'
    BY <1>2, <1>3, <1>6 DEF Kicked
  <2> QED BY <2>1, <2>2 DEF NothingStranded
<1>10. OutboxFollowsTheStream'
  <2> SUFFICES ASSUME NEW p \in DOMAIN pending', NEW n \in DOMAIN stream,
                      stream[n] = pending'[p], NEW m \in 1..n - 1
               PROVE  \/ stream[m] \in Range(opsia) \cup unanswered
                      \/ \E q \in 1..p - 1 : pending'[q] = stream[m]
    BY <1>3 DEF OutboxFollowsTheStream
  <2>1. CASE p \in 1..Len(pending)
    <3>1. \/ stream[m] \in Range(opsia) \cup unanswered
          \/ \E q \in 1..p - 1 : pending[q] = stream[m]
      BY <1>5, <2>1 DEF OutboxInv, OutboxFollowsTheStream
    <3>2. \A q \in 1..p - 1 : pending'[q] = pending[q]
      BY <1>5, <2>1
    <3> QED BY <3>1, <3>2
  <2>2. CASE p = Len(pending) + 1
    <3>1. stream[n] = e /\ m \in DOMAIN stream /\ m # n
      <4>1. DOMAIN stream = 1..Len(stream) /\ Len(stream) \in Nat
        BY DEF PublisherInv, TypeOK
      <4> QED BY <1>5, <2>2, <4>1
    <3>2. stream[m] # e
      BY <3>1, StreamHasNoCopies DEF PublisherInv
    <3>3. stream[m] \in Range(opsia) \cup Range(pending) \cup unanswered
      BY <1>4, <3>1, <3>2 DEF Range
    <3>4. CASE stream[m] \in Range(pending)
      <4>1. PICK q \in 1..Len(pending) : pending[q] = stream[m]
        BY <1>5, <3>4 DEF Range
      <4> QED BY <1>5, <2>2, <4>1
    <3> QED BY <3>3, <3>4
  <2>3. p \in 1..Len(pending) \/ p = Len(pending) + 1
    BY <1>5
  <2> QED BY <2>1, <2>2, <2>3
<1>11. OpsiaFollowsTheStream'
  BY <1>3 DEF OutboxInv, OpsiaFollowsTheStream
<1> QED BY <1>7, <1>8, <1>9, <1>10, <1>11 DEF OutboxInv

\* An event whose answer was lost is remembered as such.
LEMMA PersistFailsKeepsOutboxInv ==
    ASSUME PublisherInv, OutboxInv, PersistFails
    PROVE  OutboxInv'
<1> USE DEF PersistFails, outboxVars
<1>1. UNCHANGED <<notified, pending, relay, recorded, timer, stream, opsia>>
      /\ unanswered \subseteq unanswered' /\ attempt' = None
  OBVIOUS
<1>2. RelayIsAtHead' /\ SeenIsStored'
  BY <1>1 DEF OutboxInv, RelayIsAtHead, SeenIsStored
<1>3. OutboxFollowsTheStream' /\ OpsiaFollowsTheStream'
  BY <1>1 DEF OutboxInv, OutboxFollowsTheStream, OpsiaFollowsTheStream
<1>4. attempt.event \in Range(stream) => attempt.stored
  <2>1. attempt.event \in Event
    BY DEF PublisherInv, TypeOK
  <2>2. attempt.event.sequence \in Nat
    BY <2>1, EventFields, BoundsAssumption
  <2> QED BY <2>2 DEF PublisherInv, AttemptIsLast, Range
<1>5. NothingStranded'
  BY <1>4 DEF OutboxInv, NothingStranded
<1> QED BY <1>2, <1>3, <1>5 DEF OutboxInv

\* Opsia records the oldest entry, whose predecessors it has.
LEMMA OpsiaRecordsKeepsOutboxInv ==
    ASSUME PublisherInv, OutboxInv, OpsiaRecords
    PROVE  OutboxInv'
<1> DEFINE e == Head(pending)
<1>1. /\ pending \in Seq(Event) /\ pending # <<>>
      /\ opsia \in Seq(Event) /\ stream \in Seq(Event)
  BY DEF OpsiaRecords, PublisherInv, TypeOK, OutboxInv, RelayIsAtHead
<1>2. /\ e \in Event /\ e = pending[1] /\ 1 \in DOMAIN pending
      /\ e \in Range(pending)
  BY <1>1, Shortened
<1>3. /\ relay = "posting" /\ recorded'
      /\ opsia' = IF e \in Range(opsia) THEN opsia ELSE Append(opsia, e)
      /\ UNCHANGED <<attempt, notified, pending, relay, timer, stream,
                     unanswered>>
  BY DEF OpsiaRecords, publisherVars
<1> HIDE DEF e
<1>4. /\ Range(opsia') = Range(opsia) \cup {e}
      /\ \A i \in DOMAIN opsia : i \in DOMAIN opsia' /\ opsia'[i] = opsia[i]
      /\ DOMAIN opsia = 1..Len(opsia) /\ Len(opsia) \in Nat
      /\ \A i \in DOMAIN opsia' :
            \/ i \in DOMAIN opsia
            \/ i = Len(opsia) + 1 /\ opsia'[i] = e
  <2>1. DOMAIN opsia = 1..Len(opsia) /\ Len(opsia) \in Nat
    BY <1>1
  <2>2. CASE e \in Range(opsia)
    BY <1>3, <2>1, <2>2
  <2>3. CASE e \notin Range(opsia)
    <3>1. opsia' = Append(opsia, e)
      BY <1>3, <2>3
    <3>2. /\ Range(opsia') = Range(opsia) \cup {e}
          /\ DOMAIN opsia' = 1..Len(opsia) + 1
          /\ \A i \in 1..Len(opsia) : opsia'[i] = opsia[i]
          /\ opsia'[Len(opsia) + 1] = e
      BY <1>1, <1>2, <3>1, Appended
    <3> QED BY <2>1, <3>2
  <2> QED BY <2>2, <2>3
<1>5. RelayIsAtHead'
  BY <1>1, <1>3, <1>4 DEF RelayIsAtHead, e
<1>6. SeenIsStored'
  BY <1>2, <1>3, <1>4 DEF OutboxInv, SeenIsStored
<1>7. NothingStranded'
  BY <1>3, <1>4 DEF OutboxInv, NothingStranded
<1>8. OutboxFollowsTheStream'
  BY <1>3, <1>4 DEF OutboxInv, OutboxFollowsTheStream
<1>9. OpsiaFollowsTheStream'
  <2> SUFFICES ASSUME NEW j \in DOMAIN opsia', NEW n \in DOMAIN stream,
                      stream[n] = opsia'[j], NEW m \in 1..n - 1
               PROVE  \/ \E i \in 1..j : opsia'[i] = stream[m]
                      \/ stream[m] \in unanswered
    BY <1>3 DEF OpsiaFollowsTheStream
  <2>1. CASE j \in DOMAIN opsia
    <3>1. stream[n] = opsia[j]
      BY <1>4, <2>1
    <3>2. \/ \E i \in 1..j : opsia[i] = stream[m]
          \/ stream[m] \in unanswered
      BY <2>1, <3>1 DEF OutboxInv, OpsiaFollowsTheStream
    <3>3. \A i \in 1..j : opsia'[i] = opsia[i]
      BY <1>4, <2>1
    <3> QED BY <3>2, <3>3
  <2>2. CASE j = Len(opsia) + 1 /\ opsia'[j] = e
    <3>1. stream[n] = pending[1]
      BY <1>2, <2>2
    <3>2. stream[m] \in Range(opsia) \cup unanswered
      BY <1>2, <3>1 DEF OutboxInv, OutboxFollowsTheStream
    <3>3. CASE stream[m] \in Range(opsia)
      <4>1. PICK i \in DOMAIN opsia : opsia[i] = stream[m]
        BY <3>3 DEF Range
      <4> QED BY <1>4, <2>2, <4>1
    <3> QED BY <3>2, <3>3
  <2> QED BY <1>4, <2>1, <2>2
<1> QED BY <1>5, <1>6, <1>7, <1>8, <1>9 DEF OutboxInv

\* An entry leaves the outbox when Opsia has it.
LEMMA RelayConfirmedKeepsOutboxInv ==
    ASSUME PublisherInv, OutboxInv, RelayConfirmed
    PROVE  OutboxInv'
<1> DEFINE e == Head(pending)
<1>1. pending \in Seq(Event) /\ pending # <<>>
  BY DEF RelayConfirmed, PublisherInv, TypeOK, OutboxInv, RelayIsAtHead
<1>2. e \in Range(opsia)
  BY DEF RelayConfirmed, OutboxInv, RelayIsAtHead
<1>3. /\ pending' = Tail(pending)
      /\ relay' = IF pending' = <<>> THEN "ending" ELSE "posting"
      /\ recorded' = FALSE
      /\ UNCHANGED <<attempt, notified, timer, stream, opsia, unanswered>>
  BY DEF RelayConfirmed, Drained, publisherVars
<1>4. /\ e = pending[1] /\ 1 \in DOMAIN pending
      /\ DOMAIN pending = 1..Len(pending)
      /\ DOMAIN pending' = 1..Len(pending) - 1
      /\ \A i \in 1..Len(pending) - 1 : pending'[i] = pending[i + 1]
      /\ Range(pending) = Range(pending') \cup {e}
      /\ Len(pending) \in Nat
  <2>1. Len(pending) \in Nat
    BY <1>1
  <2> QED BY <1>1, <1>3, <2>1, Shortened
<1> HIDE DEF e
<1>5. RelayIsAtHead'
  BY <1>3 DEF RelayIsAtHead
<1>6. SeenIsStored'
  BY <1>3, <1>4 DEF OutboxInv, SeenIsStored
<1>7. NothingStranded'
  BY <1>2, <1>3, <1>4 DEF OutboxInv, NothingStranded
<1>8. OutboxFollowsTheStream'
  <2> SUFFICES ASSUME NEW p \in DOMAIN pending', NEW n \in DOMAIN stream,
                      stream[n] = pending'[p], NEW m \in 1..n - 1
               PROVE  \/ stream[m] \in Range(opsia) \cup unanswered
                      \/ \E q \in 1..p - 1 : pending'[q] = stream[m]
    BY <1>3 DEF OutboxFollowsTheStream
  <2>1. p \in 1..Len(pending) - 1 /\ p + 1 \in DOMAIN pending
        /\ stream[n] = pending[p + 1]
    BY <1>4
  <2>2. \/ stream[m] \in Range(opsia) \cup unanswered
        \/ \E q \in 1..p : pending[q] = stream[m]
    BY <2>1 DEF OutboxInv, OutboxFollowsTheStream
  <2>3. ASSUME NEW q \in 1..p, pending[q] = stream[m]
        PROVE  \/ stream[m] \in Range(opsia)
               \/ \E r \in 1..p - 1 : pending'[r] = stream[m]
    <3>1. CASE q = 1
      BY <1>2, <1>4, <2>3, <3>1
    <3>2. CASE q # 1
      <4>1. q - 1 \in 1..p - 1 /\ pending'[q - 1] = pending[q]
        BY <1>4, <2>1, <3>2
      <4> QED BY <2>3, <4>1
    <3> QED BY <3>1, <3>2
  <2> QED BY <2>2, <2>3
<1>9. OpsiaFollowsTheStream'
  BY <1>3 DEF OutboxInv, OpsiaFollowsTheStream
<1> QED BY <1>5, <1>6, <1>7, <1>8, <1>9 DEF OutboxInv

\* A failed request leaves its entry, and a timer; the end of a drain and the
\* timer kick the relay again.
LEMMA RetryKeepsOutboxInv ==
    ASSUME OutboxInv, RelayFails \/ DrainEnds \/ TimerFires
    PROVE  OutboxInv'
<1>1. UNCHANGED <<attempt, notified, pending, stream, opsia, unanswered>>
  BY DEF RelayFails, DrainEnds, TimerFires, publisherVars
<1>2. SeenIsStored' /\ OutboxFollowsTheStream' /\ OpsiaFollowsTheStream'
  BY <1>1 DEF OutboxInv, SeenIsStored, OutboxFollowsTheStream,
     OpsiaFollowsTheStream
<1>3. RelayIsAtHead'
  BY <1>1 DEF OutboxInv, RelayIsAtHead, RelayFails, DrainEnds, TimerFires,
     Kicked
<1>4. pending' # <<>> => relay' # "idle" \/ timer'
  BY <1>1 DEF RelayFails, DrainEnds, TimerFires, Kicked
<1>5. NothingStranded'
  BY <1>1, <1>4 DEF OutboxInv, NothingStranded
<1> QED BY <1>2, <1>3, <1>5 DEF OutboxInv

\* replay() puts all that the stream has into the outbox.
LEMMA RestartKeepsOutboxInv ==
    ASSUME PublisherInv, OutboxInv, Restart
    PROVE  OutboxInv'
<1>1. /\ attempt' = None /\ notified' = {} /\ pending' = stream
      /\ relay' = Kicked("idle", FALSE, stream)
      /\ recorded' = FALSE /\ timer' = FALSE
      /\ UNCHANGED <<stream, opsia, unanswered>>
  BY DEF Restart
<1>2. stream \in Seq(Event) /\ DOMAIN stream = 1..Len(stream)
      /\ Len(stream) \in Nat
  BY DEF PublisherInv, TypeOK
<1>3. RelayIsAtHead' /\ SeenIsStored'
  BY <1>1 DEF OutboxInv, RelayIsAtHead, SeenIsStored, Kicked
<1>4. NothingStranded'
  BY <1>1 DEF NothingStranded, Kicked
<1>5. OutboxFollowsTheStream'
  <2> SUFFICES ASSUME NEW p \in DOMAIN stream, NEW n \in DOMAIN stream,
                      stream[n] = stream[p], NEW m \in 1..n - 1
               PROVE  \E q \in 1..p - 1 : stream[q] = stream[m]
    BY <1>1 DEF OutboxFollowsTheStream
  <2>1. n = p
    BY StreamHasNoCopies DEF PublisherInv
  <2> QED BY <2>1
<1>6. OpsiaFollowsTheStream'
  BY <1>1 DEF OutboxInv, OpsiaFollowsTheStream
<1> QED BY <1>3, <1>4, <1>5, <1>6 DEF OutboxInv

\* Every step keeps what is said of the outbox.
LEMMA NextOutboxInv ==
    ASSUME PublisherInv, OutboxInv, [Next]_vars
    PROVE  OutboxInv'
<1>1. ASSUME NEW op \in Operation, Begin(op) \/ Abandon(op) \/ Publish(op)
      PROVE  OutboxInv'
  BY <1>1, OutboxUnchanged DEF Begin, Abandon, Publish
<1>2. CASE PersistBegins \/ Accepted \/ Persisted \/ PersistFails
  BY <1>2, PersistBeginsKeepsOutboxInv, AcceptedKeepsOutboxInv,
     PersistedKeepsOutboxInv, PersistFailsKeepsOutboxInv
<1>3. CASE Relay \/ RelayFails
  BY <1>3, OpsiaRecordsKeepsOutboxInv, RelayConfirmedKeepsOutboxInv,
     RetryKeepsOutboxInv DEF Relay
<1>4. ASSUME NEW op \in Operation, ReadPage(op) PROVE OutboxInv'
  BY <1>4, OutboxUnchanged DEF ReadPage, publisherVars
<1>5. CASE Restart
  BY <1>5, RestartKeepsOutboxInv
<1>6. CASE UNCHANGED vars
  BY <1>6, OutboxUnchanged DEF vars, publisherVars
<1> QED BY <1>1, <1>2, <1>3, <1>4, <1>5, <1>6 DEF Next, Publisher

-----------------------------------------------------------------------------
(* The readers.                                                            *)

\* A reader starts before the first event.
LEMMA InitReaderInv == Init => ReaderInv
BY DEF Init, ReaderInv, CursorIsStored, ReaderMissesNothing, Range

\* A new event of an operation is numbered beyond every cursor.
LEMMA AcceptedKeepsReaderInv ==
    ASSUME PublisherInv, ReaderInv, Accepted
    PROVE  ReaderInv'
<1> DEFINE e == attempt.event
<1>1. e \in Event /\ e.sequence \in Nat /\ e.sequence > 0
  <2>1. e \in Event
    BY DEF Accepted, PublisherInv, TypeOK
  <2> QED BY <2>1, EventFields, BoundsAssumption
<1>2. stream' = Append(stream, e) /\ UNCHANGED <<cursor, read>>
  BY DEF Accepted, readerVars
<1>3. \A i \in DOMAIN stream :
         stream[i].op = e.op => stream[i].sequence < e.sequence
  BY DEF Accepted, PublisherInv, AttemptIsLast
<1> HIDE DEF e
<1>4. /\ DOMAIN stream' = 1..Len(stream) + 1
      /\ DOMAIN stream = 1..Len(stream)
      /\ \A i \in 1..Len(stream) : stream'[i] = stream[i]
      /\ Range(stream') = Range(stream) \cup {e}
      /\ Len(stream) \in Nat
  <2>1. stream \in Seq(Event)
    BY DEF PublisherInv, TypeOK
  <2> QED BY <1>1, <1>2, <2>1, Appended
<1>5. CursorIsStored'
  <2> SUFFICES ASSUME NEW op \in Operation, cursor[op] # 0
               PROVE  \E i \in DOMAIN stream' :
                         stream'[i].op = op /\ stream'[i].sequence = cursor[op]
    BY <1>2 DEF CursorIsStored
  <2>1. PICK i \in DOMAIN stream :
           stream[i].op = op /\ stream[i].sequence = cursor[op]
    BY DEF ReaderInv, CursorIsStored
  <2> QED BY <1>4, <2>1
<1>6. ASSUME NEW op \in Operation, e.op = op PROVE ~(e.sequence <= cursor[op])
  <2>1. CASE cursor[op] = 0
    BY <1>1, <2>1
  <2>2. CASE cursor[op] # 0
    <3>1. PICK i \in DOMAIN stream :
             stream[i].op = op /\ stream[i].sequence = cursor[op]
      BY <2>2 DEF ReaderInv, CursorIsStored
    <3>2. cursor[op] < e.sequence
      BY <1>3, <1>6, <3>1
    <3>3. cursor[op] \in Nat
      BY BoundsAssumption DEF PublisherInv, TypeOK
    <3> QED BY <1>1, <3>2, <3>3
  <2> QED BY <2>1, <2>2
<1>7. ReaderMissesNothing'
  BY <1>2, <1>4, <1>6 DEF ReaderInv, ReaderMissesNothing
<1> QED BY <1>5, <1>7 DEF ReaderInv

\* A page has all the events between the old cursor and the new one.
LEMMA ReadPageKeepsReaderInv ==
    ASSUME PublisherInv, ReaderInv, NEW op \in Operation, ReadPage(op)
    PROVE  ReaderInv'
<1>1. PICK last \in Selected(op) :
         /\ read' = [read EXCEPT ![op] =
                        @ \cup {stream[i] : i \in Selected(op)}]
         /\ cursor' = [cursor EXCEPT ![op] = stream[last].sequence]
  BY DEF ReadPage
<1>2. stream' = stream
  BY DEF ReadPage
<1>3. /\ DOMAIN stream = 1..Len(stream) /\ Len(stream) \in Nat
      /\ \A i \in DOMAIN stream : stream[i] \in Event
      /\ cursor \in [Operation -> 0..MaxEvents]
      /\ read \in [Operation -> SUBSET Event]
  BY DEF PublisherInv, TypeOK
<1>4. \A i \in DOMAIN stream : stream[i].sequence \in Nat
  BY <1>3, EventFields, BoundsAssumption
<1>5. last \in After(op) /\ last \in DOMAIN stream /\ stream[last].op = op
  BY DEF Selected, After
<1>6. /\ cursor'[op] = stream[last].sequence
      /\ \A o \in Operation : o # op => cursor'[o] = cursor[o]
      /\ read'[op] = read[op] \cup {stream[i] : i \in Selected(op)}
      /\ \A o \in Operation : o # op => read'[o] = read[o]
  BY <1>1, <1>3
<1>7. CursorIsStored'
  <2> SUFFICES ASSUME NEW o \in Operation, cursor'[o] # 0
               PROVE  \E i \in DOMAIN stream :
                         stream[i].op = o /\ stream[i].sequence = cursor'[o]
    BY <1>2 DEF CursorIsStored
  <2> QED BY <1>5, <1>6 DEF ReaderInv, CursorIsStored
<1>8. ASSUME NEW k \in DOMAIN stream, stream[k].op = op,
             stream[k].sequence <= stream[last].sequence,
             ~(stream[k].sequence <= cursor[op])
      PROVE  k \in Selected(op)
  <2>1. k \in After(op)
    <3>1. cursor[op] \in Nat
      BY <1>3, BoundsAssumption
    <3> QED BY <1>4, <1>8, <3>1 DEF After
  <2>2. k <= last
    <3>1. ~(last < k)
      BY <1>4, <1>5, <1>8 DEF PublisherInv, StreamIsOrdered
    <3> QED BY <1>3, <1>5, <3>1
  <2> DEFINE A == {j \in After(op) : j < k}
             B == {j \in After(op) : j < last}
  <2>3. A \subseteq B
    <3>1. After(op) \subseteq 1..Len(stream)
      BY <1>3 DEF After
    <3> QED BY <1>3, <1>5, <2>2, <3>1
  <2>4. IsFiniteSet(B)
    <3>1. IsFiniteSet(1..Len(stream))
      BY <1>3, FS_Interval
    <3>2. B \subseteq 1..Len(stream)
      BY <1>3 DEF After
    <3> QED BY <3>1, <3>2, FS_Subset
  <2>5. /\ Cardinality(A) \in Nat /\ Cardinality(B) \in Nat
        /\ Cardinality(A) <= Cardinality(B)
    <3>1. IsFiniteSet(A) /\ Cardinality(A) <= Cardinality(B)
      BY <2>3, <2>4, FS_Subset
    <3> QED BY <2>4, <3>1, FS_CardinalityType
  <2>6. Cardinality(B) < Page
    BY DEF Selected
  <2>7. Cardinality(A) < Page
    BY <2>5, <2>6, BoundsAssumption
  <2> QED BY <2>1, <2>7 DEF Selected
<1>9. ReaderMissesNothing'
  <2> SUFFICES ASSUME NEW o \in Operation, NEW k \in DOMAIN stream,
                      stream[k].op = o, stream[k].sequence <= cursor'[o]
               PROVE  stream[k] \in read'[o]
    BY <1>2 DEF ReaderMissesNothing, Range
  <2>1. stream[k] \in Range(stream)
    BY DEF Range
  <2>2. stream[k].sequence <= cursor[o] => stream[k] \in read[o]
    BY <2>1 DEF ReaderInv, ReaderMissesNothing
  <2>3. CASE o # op
    BY <1>6, <2>2, <2>3
  <2>4. CASE o = op
    BY <1>6, <1>8, <2>2, <2>4
  <2> QED BY <2>3, <2>4
<1> QED BY <1>7, <1>9 DEF ReaderInv

\* Every step keeps what is said of the readers.
LEMMA NextReaderInv ==
    ASSUME PublisherInv, ReaderInv, [Next]_vars
    PROVE  ReaderInv'
<1>1. CASE UNCHANGED <<stream, cursor, read>>
  BY <1>1 DEF ReaderInv, CursorIsStored, ReaderMissesNothing
<1>2. CASE Accepted
  BY <1>2, AcceptedKeepsReaderInv
<1>3. ASSUME NEW op \in Operation, ReadPage(op) PROVE ReaderInv'
  BY <1>3, ReadPageKeepsReaderInv
<1>4. ASSUME NEW op \in Operation, Begin(op) \/ Abandon(op) \/ Publish(op)
      PROVE  ReaderInv'
  BY <1>1, <1>4 DEF Begin, Abandon, Publish, readerVars
<1>5. CASE PersistBegins \/ Persisted \/ PersistFails
  BY <1>1, <1>5 DEF PersistBegins, Persisted, PersistFails, readerVars
<1>6. CASE Relay \/ RelayFails
  BY <1>1, <1>6 DEF Relay, OpsiaRecords, RelayConfirmed, DrainEnds,
     TimerFires, RelayFails, readerVars
<1>7. CASE Restart \/ UNCHANGED vars
  BY <1>1, <1>7 DEF Restart, vars, readerVars
<1> QED BY <1>2, <1>3, <1>4, <1>5, <1>6, <1>7 DEF Next, Publisher

-----------------------------------------------------------------------------
(* The theorems.                                                           *)

\* The inductive invariant holds in every run.
LEMMA SpecIInv == Spec => []IInv
<1>1. Init => IInv
  BY InitPublisherInv, InitOutboxInv, InitReaderInv DEF IInv
<1>2. IInv /\ [Next]_vars => IInv'
  BY NextPublisherInv, NextOutboxInv, NextReaderInv DEF IInv
<1> QED BY <1>1, <1>2, PTL DEF Spec

\* Whatever fails and restarts, the publisher, the outbox and the readers stay
\* well-typed.
THEOREM TypeOKAlways == Spec => []TypeOK
<1>1. IInv => TypeOK
  BY DEF IInv, PublisherInv
<1> QED BY <1>1, SpecIInv, PTL

\* Every event that was answered is with Opsia or in an outbox that is at work
\* or will be woken (kickRelay and drain, events.ts:343-408).
THEOREM NothingStrandedAlways == Spec => []NothingStranded
<1>1. IInv => NothingStranded
  BY DEF IInv, OutboxInv
<1> QED BY <1>1, SpecIInv, PTL

\* Opsia and the readers learn of the events in the order of the stream, with
\* no gap but that of a lost answer (drain, events.ts:382-403; selectEvents,
\* events.ts:72-90).
THEOREM EventsAreInOrderAlways == Spec => []EventsAreInOrder
<1>1. IInv => EventsAreInOrder
  BY DEF IInv, OutboxInv, ReaderInv, EventsAreInOrder
<1> QED BY <1>1, SpecIInv, PTL

\* A step of the publisher, of the outbox and of a restart is one of the log.
LEMMA StepIsOfTheLog ==
    ASSUME IInv, [Next]_vars
    PROVE  [Log!Next]_(Log!vars)
<1> USE DEF IInv
<1>1. CASE UNCHANGED <<stream, notified, opsia>>
  BY <1>1 DEF Log!vars
<1>2. CASE Accepted
  <2>1. attempt.event \in Event
    BY <1>2 DEF Accepted, PublisherInv, TypeOK
  <2>2. Log!Accept(attempt.event)
    BY <1>2 DEF Accepted, PublisherInv, AttemptIsLast, Log!Accept
  <2> QED BY <2>1, <2>2 DEF Log!Next
<1>3. CASE Persisted
  <2>1. attempt.event \in Event /\ attempt.event \in Range(stream)
    BY <1>3 DEF Persisted, PublisherInv, TypeOK, AttemptIsLast
  <2>2. Log!Project(attempt.event)
    BY <1>3, <2>1 DEF Persisted, Log!Project, Log!Logged, Range
  <2> QED BY <2>1, <2>2 DEF Log!Next
<1>4. CASE OpsiaRecords
  <2> DEFINE e == Head(pending)
  <2>1. pending \in Seq(Event) /\ pending # <<>> /\ opsia \in Seq(Event)
    BY <1>4 DEF OpsiaRecords, PublisherInv, TypeOK, OutboxInv, RelayIsAtHead
  <2>2. e \in Event /\ e \in Range(stream)
    BY <2>1, Shortened DEF OutboxInv, SeenIsStored
  <2>3. /\ opsia' = IF e \in Range(opsia) THEN opsia ELSE Append(opsia, e)
        /\ UNCHANGED <<stream, notified>>
    BY <1>4 DEF OpsiaRecords, publisherVars
  <2> HIDE DEF e
  <2>4. Range(opsia') = Range(opsia) \cup {e}
    <3>1. Range(Append(opsia, e)) = Range(opsia) \cup {e}
      BY <2>1, <2>2, Appended
    <3> QED BY <2>3, <3>1
  <2>5. Log!Receive(e)
    BY <2>2, <2>3, <2>4 DEF Log!Receive, Log!Logged, Range
  <2> QED BY <2>2, <2>5 DEF Log!Next
<1>5. CASE Restart
  <2>1. Log!Forget
    BY <1>5 DEF Restart, Log!Forget
  <2> QED BY <2>1 DEF Log!Next
<1>6. ASSUME NEW op \in Operation,
             Begin(op) \/ Abandon(op) \/ Publish(op) \/ ReadPage(op)
      PROVE  [Log!Next]_(Log!vars)
  BY <1>1, <1>6 DEF Begin, Abandon, Publish, ReadPage, publisherVars
<1>7. CASE PersistBegins \/ PersistFails
  BY <1>1, <1>7 DEF PersistBegins, PersistFails
<1>8. CASE RelayConfirmed \/ DrainEnds \/ TimerFires \/ RelayFails
  BY <1>1, <1>8 DEF RelayConfirmed, DrainEnds, TimerFires, RelayFails,
     publisherVars
<1>9. CASE UNCHANGED vars
  BY <1>1, <1>9 DEF vars, publisherVars
<1> QED BY <1>2, <1>3, <1>4, <1>5, <1>6, <1>7, <1>8, <1>9
        DEF Next, Publisher, Relay

\* The stream, the listeners and Opsia implement the log that EventLog
\* specifies: the authority is never overtaken by those that read from it
\* (OperationEventPublisher, events.ts:423-491).
THEOREM AuthorityIsALogAlways == Spec => AuthorityIsALog
<1>1. Init => Log!Init
  BY DEF Init, Log!Init, Range
<1>2. IInv /\ [Next]_vars => [Log!Next]_(Log!vars)
  BY StepIsOfTheLog
<1>3. Spec => Log!Spec
  BY <1>1, <1>2, SpecIInv, PTL DEF Spec, Log!Spec
<1> QED BY <1>3 DEF AuthorityIsALog

(***************************************************************************)
(* The admission: that its capacity holds, and that the room list is       *)
(* recent.                                                                 *)
(***************************************************************************)

FindSizes ==
    /\ MaxFindRequests \in Nat /\ MaxPerSecond \in Nat /\ Second \in Nat
    /\ CacheTtl \in Nat /\ RoomsTimeout \in Nat /\ SummaryTimeout \in Nat
    /\ MaxTime \in Nat /\ MaxChanges \in Nat

\* The record of a request, and that of a fetch.
Asking == [step : Find!Steps, at : 0..MaxTime, asks : GameRoom \cup {None},
           list : Find!Request \cup {None}, room : GameRoom \cup {None}]
Fetch == [begun : 0..MaxTime, part : {"rooms", "summaries"},
          left : SUBSET GameRoom, found : SUBSET GameRoom]
FetchType == fetch \in [Find!Request -> Fetch \cup {None}]

\* Whoever has passed within the last second is remembered as admitted, so that
\* nobody who passes now makes any second hold too many.
ArrivedBefore == \A q \in Find!Request : request[q].at <= now
Remembered == \A q \in Find!Passed : request[q].at + Second > now => q \in admittedAt
AdmissionInv == ArrivedBefore /\ Remembered /\ Find!PassedFitCapacity

\* A room is now as a list that was begun at time t says, or has changed since.
OpenAt(r, t) == r \in open \/ t <= openSince[r]
OfferedAt(r, t) == r \in offered \/ t <= since[r]
ClosedAt(r, t) ==
    r \notin offered \/ r \notin open \/ t <= since[r] \/ t <= openSince[r]

\* No fetch outlasts its timeout, and what it has found so far is recent.
FetchIsRecent ==
    \A q \in Find!Request : fetch[q] # None =>
        LET f == fetch[q] IN
        /\ f.begun <= now /\ now <= f.begun + Find!Timeout(f.part)
        /\ \A r \in f.left \cup f.found : OfferedAt(r, f.begun)
        /\ \A r \in f.found : OpenAt(r, f.begun)
        /\ f.part = "summaries" /\ "summaries" \notin listFailures =>
              \A r \in GameRoom \ (f.left \cup f.found) : ClosedAt(r, f.begun)
        /\ f.part = "rooms" => f.left = {} /\ f.found = {}

\* The summaries of a cached list were begun at most Age before it expires.
Age == CacheTtl + SummaryTimeout
CachedIsRecent ==
    cached # None =>
        \E t \in Nat :
            /\ t <= now /\ cached.expiresAt <= t + Age
            /\ \A r \in cached.rooms : OpenAt(r, t) /\ OfferedAt(r, t)
            /\ "summaries" \notin listFailures =>
                  \A r \in GameRoom \ cached.rooms : ClosedAt(r, t)


-----------------------------------------------------------------------------
(* Types.                                                                  *)

\* TypeOK with the functions' domains.
FindTyped == Find!TypeOK /\ FetchType

LEMMA ArrivedIsAsking ==
    ASSUME FindSizes, Find!TypeOK, NEW asks \in GameRoom \cup {None}
    PROVE  /\ Find!Arrived(asks) \in Asking
           /\ Find!Arrived(asks).at = now /\ Find!Arrived(asks).asks = asks
BY DEF FindSizes, Find!TypeOK, Find!Arrived, Find!New, Asking, Find!Steps

LEMMA AnswersAreAsking ==
    ASSUME NEW x \in Asking, NEW rooms \in SUBSET GameRoom,
           NEW a \in Find!Answers(x, rooms)
    PROVE  /\ a \in Asking /\ a.at = x.at /\ a.asks = x.asks
           /\ a.step \in {"no_room", "accepted"}
           /\ a.step = "accepted" => a.room \in rooms
           /\ a.step = "no_room" => Find!Choices(x.asks, rooms) = {}
<1>1. Find!Choices(x.asks, rooms) \subseteq rooms
  BY DEF Find!Choices
<1>2. CASE Find!Choices(x.asks, rooms) = {}
  <2>1. a = [x EXCEPT !.step = "no_room", !.list = None]
    BY <1>2 DEF Find!Answers
  <2> QED
    BY <1>2, <2>1 DEF Asking, Find!Steps
<1>3. CASE Find!Choices(x.asks, rooms) # {}
  <2>1. PICK r \in Find!Choices(x.asks, rooms) :
           a = [x EXCEPT !.step = "accepted", !.list = None, !.room = r]
    BY <1>3 DEF Find!Answers
  <2> QED
    BY <1>1, <2>1 DEF Asking, Find!Steps
<1> QED
  BY <1>2, <1>3

\* A request that is let through: it is answered, or waits for a list.
LEMMA EntersEffect ==
    ASSUME FindSizes, FindTyped, NEW q \in Find!Request,
           NEW asks \in GameRoom \cup {None},
           \/ Find!AnsweredFromCache(q, asks)
           \/ Find!JoinsRefresh(q, asks)
           \/ Find!StartsRefresh(q, asks)
    PROVE  /\ Find!MayEnter(q) /\ admittedAt' = Find!RecentAdmitted \cup {q}
           /\ UNCHANGED <<now, cached, Find!roomVars, listFailures>>
           /\ \E x \in Asking : x.at = now /\ request' = [request EXCEPT ![q] = x]
<1>1. CASE Find!AnsweredFromCache(q, asks)
  <2>1. PICK a \in Find!Answers(Find!Arrived(asks), cached.rooms) :
           request' = [request EXCEPT ![q] = a]
    BY <1>1 DEF Find!AnsweredFromCache
  <2>2. cached.rooms \in SUBSET GameRoom
    BY <1>1 DEF Find!AnsweredFromCache, Find!IsCached, FindTyped, Find!TypeOK
  <2>3. a \in Asking /\ a.at = now
    BY <2>2, ArrivedIsAsking, AnswersAreAsking DEF FindTyped
  <2> QED
    BY <1>1, <2>1, <2>3 DEF Find!AnsweredFromCache, Find!Admitted,
       Find!directoryVars
<1>2. ASSUME NEW for \in Find!Request \cup {None}, Find!Waits(q, asks, for)
      PROVE  /\ admittedAt' = Find!RecentAdmitted \cup {q}
             /\ \E x \in Asking : x.at = now /\ request' = [request EXCEPT ![q] = x]
  <2>1. PICK y : y = Find!Arrived(asks)
    OBVIOUS
  <2>2. y \in Asking /\ y.at = now
    BY <2>1, ArrivedIsAsking DEF FindTyped
  <2>3. PICK x : x = [y EXCEPT !.step = "waiting", !.list = for]
    OBVIOUS
  <2>4. x \in Asking /\ x.at = now
    BY <2>2, <2>3 DEF Asking, Find!Steps
  <2> QED
    BY <1>2, <2>1, <2>3, <2>4 DEF Find!Waits, Find!Admitted
<1>3. CASE Find!JoinsRefresh(q, asks)
  BY <1>2, <1>3 DEF Find!JoinsRefresh, Find!directoryVars, FindTyped,
     Find!TypeOK
<1>4. CASE Find!StartsRefresh(q, asks)
  BY <1>2, <1>4 DEF Find!StartsRefresh
<1> QED
  BY <1>1, <1>3, <1>4

\* A list, or its failure: only those who wait for it are answered.
LEMMA ListEffect ==
    ASSUME FindTyped, NEW q \in Find!Request,
           Find!Listed(q) \/ Find!ListFails(q)
    PROVE  /\ request' \in [Find!Request -> Asking]
           /\ UNCHANGED <<now, admittedAt, Find!roomVars>>
           /\ \A p \in Find!Request :
                 \/ request'[p] = request[p]
                 \/ /\ request[p].step = "waiting" /\ request'[p].at = request[p].at
                    /\ request'[p].asks = request[p].asks
                    /\ \/ /\ Find!Listed(q)
                          /\ request'[p].step \in {"no_room", "accepted"}
                          /\ request'[p].step = "accepted"
                                => request'[p].room \in fetch[q].found
                          /\ request'[p].step = "no_room"
                                => Find!Choices(request[p].asks, fetch[q].found) = {}
                       \/ request'[p].step = "directory_unavailable"
<1>1. request \in [Find!Request -> Asking]
  BY DEF FindTyped, Find!TypeOK, Asking
<1>2. CASE Find!Listed(q)
  <2>1. fetch[q].found \in SUBSET GameRoom
    BY <1>2 DEF Find!Listed, FindTyped, Find!TypeOK
  <2>2. PICK answer :
           /\ \A p \in Find!WaitFor(q) :
                 answer[p] \in Find!Answers(request[p], fetch[q].found)
           /\ request' = [p \in Find!Request |-> IF p \in Find!WaitFor(q) THEN answer[p]
                                                 ELSE request[p]]
    BY <1>2 DEF Find!Listed
  <2>3. ASSUME NEW p \in Find!Request, p \in Find!WaitFor(q)
        PROVE  /\ request'[p] \in Asking /\ request[p].step = "waiting"
               /\ request'[p].at = request[p].at
               /\ request'[p].asks = request[p].asks
               /\ request'[p].step \in {"no_room", "accepted"}
               /\ request'[p].step = "accepted" => request'[p].room \in fetch[q].found
               /\ request'[p].step = "no_room"
                     => Find!Choices(request[p].asks, fetch[q].found) = {}
    <3>1. /\ request'[p] \in Find!Answers(request[p], fetch[q].found)
          /\ request[p] \in Asking
      BY <1>1, <2>2, <2>3
    <3> QED
      BY <2>1, <2>3, <3>1, AnswersAreAsking DEF Find!WaitFor
  <2>4. \A p \in Find!Request : p \notin Find!WaitFor(q) => request'[p] = request[p]
    BY <2>2
  <2>5. request' \in [Find!Request -> Asking]
    BY <1>1, <2>2, <2>3, <2>4
  <2> QED
    BY <1>2, <2>3, <2>4, <2>5 DEF Find!Listed
<1>3. CASE Find!ListFails(q)
  <2>1. ASSUME NEW p \in Find!Request, p \in Find!WaitFor(q)
        PROVE  /\ request'[p] \in Asking /\ request[p].step = "waiting"
               /\ request'[p].at = request[p].at
               /\ request'[p].asks = request[p].asks
               /\ request'[p].step = "directory_unavailable"
    <3>1. PICK x : x = request[p]
      OBVIOUS
    <3>2. x \in Asking
      BY <1>1, <3>1
    <3>3. request'[p] = [x EXCEPT !.step = "directory_unavailable", !.list = None,
                                  !.room = None]
      BY <1>3, <2>1, <3>1 DEF Find!ListFails, Find!Answered
    <3> QED
      BY <2>1, <3>1, <3>2, <3>3 DEF Asking, Find!Steps, Find!WaitFor
  <2>2. \A p \in Find!Request : p \notin Find!WaitFor(q) => request'[p] = request[p]
    BY <1>3 DEF Find!ListFails
  <2>3. request' \in [Find!Request -> Asking]
    BY <1>1, <1>3, <2>1, <2>2 DEF Find!ListFails
  <2> QED
    BY <1>3, <2>1, <2>2, <2>3 DEF Find!ListFails
<1> QED
  BY <1>2, <1>3

-----------------------------------------------------------------------------
(* Admission.                                                              *)

Within(t) == {q \in Find!Passed : request[q].at <= t /\ request[q].at + Second > t}

\* The instance has its own name for the library's operator.
LEMMA SameCardinality ==
    ASSUME NEW S PROVE Find!Cardinality(S) = Cardinality(S)
  BY DEF Find!Cardinality, Cardinality

LEMMA RequestsAreFinite ==
    ASSUME FindSizes
    PROVE  IsFiniteSet(Find!Request)
BY FS_Interval DEF FindSizes, Find!Request

\* Nobody passes anew: the requests stay or leave, and are forgotten only when
\* their second is over.
LEMMA NobodyPasses ==
    ASSUME FindSizes, FindTyped, AdmissionInv,
           request' \in [Find!Request -> Asking],
           \A q \in Find!Request : request'[q].at <= now',
           \A q \in Find!Passed' : q \in Find!Passed /\ request'[q].at = request[q].at,
           Find!RecentAdmitted \subseteq admittedAt',
           now' \in Nat, now <= now'
    PROVE  AdmissionInv'
<1>1. now \in Nat /\ Second \in Nat /\ request \in [Find!Request -> Asking]
  BY DEF FindTyped, Find!TypeOK, FindSizes, Asking
<1>2. \A q \in Find!Request : request[q].at \in Nat /\ request'[q].at \in Nat
  BY <1>1 DEF Asking, FindSizes
<1>3. Find!Passed' \subseteq Find!Request
  BY DEF Find!Passed
<1>4. Remembered'
  <2> SUFFICES ASSUME NEW q \in Find!Passed', request'[q].at + Second > now'
               PROVE  q \in admittedAt'
    BY DEF Remembered
  <2>1. request[q].at + Second > now
    BY <1>1, <1>2, <1>3
  <2>2. q \in admittedAt
    BY <2>1 DEF AdmissionInv, Remembered
  <2> QED
    BY <2>1, <2>2 DEF Find!RecentAdmitted
<1>5. Find!PassedFitCapacity'
  <2> SUFFICES ASSUME NEW t \in 0..MaxTime
               PROVE  Cardinality(Within(t)') <= MaxPerSecond
    BY SameCardinality DEF Find!PassedFitCapacity, Within
  <2>1. Within(t)' \subseteq Within(t) /\ Within(t) \subseteq Find!Request
    BY DEF Within, Find!Passed
  <2>2. IsFiniteSet(Within(t))
    BY <2>1, RequestsAreFinite, FS_Subset
  <2>3. Cardinality(Within(t)) <= MaxPerSecond
    BY SameCardinality
       DEF AdmissionInv, Find!PassedFitCapacity, Within
  <2>4. /\ Cardinality(Within(t)') <= Cardinality(Within(t))
        /\ IsFiniteSet(Within(t)')
    BY <2>1, <2>2, FS_Subset
  <2> QED
    BY <2>2, <2>3, <2>4, FS_CardinalityType DEF FindSizes
<1> QED
  BY <1>4, <1>5 DEF AdmissionInv, ArrivedBefore

\* One request passes: whoever passed in a second that is not over is among the
\* recently admitted, which were fewer than the capacity.
LEMMA OnePasses ==
    ASSUME FindSizes, FindTyped, AdmissionInv, NEW q \in Find!Request,
           Find!MayEnter(q),
           admittedAt' = Find!RecentAdmitted \cup {q}, UNCHANGED now,
           NEW x \in Asking, x.at = now, request' = [request EXCEPT ![q] = x]
    PROVE  AdmissionInv'
<1>1. now \in Nat /\ Second \in Nat /\ MaxPerSecond \in Nat
      /\ request \in [Find!Request -> Asking]
      /\ admittedAt \subseteq Find!Request
  BY DEF FindTyped, Find!TypeOK, FindSizes, Asking
<1>2. \A p \in Find!Request : request[p].at \in Nat
  BY <1>1 DEF Asking, FindSizes
<1>3. q \notin Find!Passed
  BY DEF Find!MayEnter, Find!IsNext, Find!Passed
<1>4. /\ request'[q] = x /\ \A p \in Find!Request : p # q => request'[p] = request[p]
      /\ Find!Passed' \subseteq Find!Passed \cup {q}
      /\ Find!Passed \subseteq Find!Request
  BY <1>1 DEF Find!Passed
<1>5. ArrivedBefore'
  BY <1>1, <1>4 DEF AdmissionInv, ArrivedBefore
<1>6. Remembered'
  BY <1>3, <1>4 DEF AdmissionInv, Remembered, Find!RecentAdmitted
<1>7. /\ Find!RecentAdmitted \subseteq Find!Request
      /\ IsFiniteSet(Find!RecentAdmitted)
      /\ Cardinality(Find!RecentAdmitted) \in Nat
      /\ Cardinality(Find!RecentAdmitted) < MaxPerSecond
  <2>1. Find!RecentAdmitted \subseteq Find!Request
    BY <1>1 DEF Find!RecentAdmitted
  <2>2. IsFiniteSet(Find!RecentAdmitted)
    BY <2>1, RequestsAreFinite, FS_Subset
  <2> QED
    BY <2>1, <2>2, FS_CardinalityType, SameCardinality
       DEF Find!MayEnter
<1>8. ASSUME NEW t \in 0..MaxTime
      PROVE  Cardinality(Within(t)') <= MaxPerSecond
  <2>1. t \in Nat
    BY DEF FindSizes
  <2>2. Within(t) \subseteq Find!Request
    BY DEF Within, Find!Passed
  <2>3. CASE t < now
    <3>1. Within(t)' \subseteq Within(t)
      BY <1>1, <1>4, <2>1, <2>3 DEF Within
    <3>2. IsFiniteSet(Within(t))
      BY <2>2, RequestsAreFinite, FS_Subset
    <3>3. /\ Cardinality(Within(t)') <= Cardinality(Within(t))
          /\ IsFiniteSet(Within(t)')
      BY <3>1, <3>2, FS_Subset
    <3>4. Cardinality(Within(t)) <= MaxPerSecond
      BY SameCardinality
       DEF AdmissionInv, Find!PassedFitCapacity, Within
    <3> QED
      BY <1>1, <3>2, <3>3, <3>4, FS_CardinalityType
  <2>4. CASE t >= now
    <3>1. \A p \in Within(t)' : p # q => p \in Find!RecentAdmitted
      <4> SUFFICES ASSUME NEW p \in Within(t)', p # q
                   PROVE  p \in Find!RecentAdmitted
        OBVIOUS
      <4>1. /\ p \in Find!Passed /\ p \in Find!Request
            /\ request[p].at + Second > t
        BY <1>4 DEF Within
      <4>2. request[p].at + Second > now
        BY <1>1, <1>2, <2>1, <2>4, <4>1
      <4> QED
        BY <4>1, <4>2 DEF AdmissionInv, Remembered, Find!RecentAdmitted
    <3>2. Within(t)' \subseteq Find!RecentAdmitted \cup {q}
      BY <3>1
    <3>3. /\ IsFiniteSet(Find!RecentAdmitted \cup {q})
          /\ Cardinality(Find!RecentAdmitted \cup {q}) <= MaxPerSecond
      <4>1. PICK n : n = Cardinality(Find!RecentAdmitted)
        OBVIOUS
      <4>2. n \in Nat /\ n < MaxPerSecond
        BY <1>7, <4>1
      <4>3. IsFiniteSet(Find!RecentAdmitted \cup {q})
            /\ Cardinality(Find!RecentAdmitted \cup {q}) \in {n, n + 1}
        BY <1>7, <4>1, FS_AddElement
      <4> QED
        BY <1>1, <4>2, <4>3
    <3>4. /\ Cardinality(Within(t)') <= Cardinality(Find!RecentAdmitted \cup {q})
          /\ IsFiniteSet(Within(t)')
      BY <3>2, <3>3, FS_Subset
    <3> QED
      BY <1>1, <3>3, <3>4, FS_CardinalityType
  <2> QED
    BY <1>1, <2>1, <2>3, <2>4
<1>9. Find!PassedFitCapacity'
  BY <1>8, SameCardinality DEF Find!PassedFitCapacity, Within
<1> QED
  BY <1>5, <1>6, <1>9 DEF AdmissionInv

-----------------------------------------------------------------------------
(* The room directory.                                                     *)

DirectoryInv == FetchIsRecent /\ CachedIsRecent

\* A fetch that goes on, or begins: all others are as they were.
LEMMA FetchGoesOn ==
    ASSUME FindSizes, FindTyped, DirectoryInv, NEW q \in Find!Request,
           NEW f \in Fetch,
           fetch' = [fetch EXCEPT ![q] = f],
           UNCHANGED <<now, cached, Find!roomVars>>,
           listFailures \subseteq listFailures',
           f.begun <= now /\ now <= f.begun + Find!Timeout(f.part),
           \A r \in f.left \cup f.found : OfferedAt(r, f.begun),
           \A r \in f.found : OpenAt(r, f.begun),
           f.part = "summaries" /\ "summaries" \notin listFailures' =>
              \A r \in GameRoom \ (f.left \cup f.found) : ClosedAt(r, f.begun),
           f.part = "rooms" => f.left = {} /\ f.found = {}
    PROVE  FetchType' /\ DirectoryInv'
<1>1. fetch' \in [Find!Request -> Fetch \cup {None}]
  BY DEF FindTyped, FetchType
<1>2. /\ fetch'[q] = f /\ \A p \in Find!Request : p # q => fetch'[p] = fetch[p]
      /\ UNCHANGED <<offered, open, since, openSince>>
  BY DEF FindTyped, FetchType, Find!roomVars
<1>3. FetchIsRecent'
  <2> SUFFICES ASSUME NEW p \in Find!Request, fetch'[p] # None
               PROVE  /\ fetch'[p].begun <= now
                      /\ now <= fetch'[p].begun + Find!Timeout(fetch'[p].part)
                      /\ \A r \in fetch'[p].left \cup fetch'[p].found :
                            OfferedAt(r, fetch'[p].begun)
                      /\ \A r \in fetch'[p].found : OpenAt(r, fetch'[p].begun)
                      /\ fetch'[p].part = "summaries" /\ "summaries" \notin listFailures' =>
                            \A r \in GameRoom \ (fetch'[p].left \cup fetch'[p].found) :
                                ClosedAt(r, fetch'[p].begun)
                      /\ fetch'[p].part = "rooms" =>
                            fetch'[p].left = {} /\ fetch'[p].found = {}
    BY <1>2 DEF FetchIsRecent, OfferedAt, OpenAt, ClosedAt, Find!Timeout
  <2>1. CASE p = q
    BY <1>2, <2>1
  <2>2. CASE p # q
    BY <1>2, <2>2 DEF DirectoryInv, FetchIsRecent
  <2> QED
    BY <2>1, <2>2
<1>4. CachedIsRecent'
  BY <1>2 DEF DirectoryInv, CachedIsRecent, OpenAt, OfferedAt, ClosedAt
<1> QED
  BY <1>1, <1>3, <1>4 DEF DirectoryInv, FetchType

LEMMA DirectoryStays ==
    ASSUME DirectoryInv, FindTyped,
           UNCHANGED <<now, Find!directoryVars, Find!roomVars, listFailures>>
    PROVE  FetchType' /\ DirectoryInv'
BY DEF DirectoryInv, FetchIsRecent, CachedIsRecent, OpenAt, OfferedAt,
   ClosedAt, FindTyped,
   FetchType, Find!directoryVars, Find!roomVars

LEMMA StartsRefreshKeeps ==
    ASSUME FindSizes, FindTyped, DirectoryInv, NEW q \in Find!Request,
           NEW asks, Find!StartsRefresh(q, asks)
    PROVE  FetchType' /\ DirectoryInv'
<1>1. PICK f : f = [begun |-> now, part |-> "rooms", left |-> {}, found |-> {}]
  OBVIOUS
<1>2. /\ f \in Fetch /\ f.begun = now /\ f.part = "rooms" /\ f.left = {}
      /\ f.found = {}
  BY <1>1 DEF Fetch, FindTyped, Find!TypeOK
<1>3. /\ fetch' = [fetch EXCEPT ![q] = f]
      /\ UNCHANGED <<now, cached, Find!roomVars, listFailures>>
  BY <1>1 DEF Find!StartsRefresh
<1>4. f.begun <= now /\ now <= f.begun + Find!Timeout(f.part)
  BY <1>2 DEF FindTyped, Find!TypeOK, FindSizes, Find!Timeout
<1> QED
  BY <1>2, <1>3, <1>4, FetchGoesOn

LEMMA RoomsFetchedKeeps ==
    ASSUME FindSizes, FindTyped, DirectoryInv, NEW q \in Find!Request,
           Find!RoomsFetched(q)
    PROVE  FetchType' /\ DirectoryInv'
<1>1. PICK f : f = [begun |-> now, part |-> "summaries", left |-> offered, found |-> {}]
  OBVIOUS
<1>2. f \in Fetch /\ f.begun = now /\ f.part = "summaries" /\ f.left = offered
      /\ f.found = {}
  BY <1>1 DEF Fetch, FindTyped, Find!TypeOK
<1>3. /\ fetch' = [fetch EXCEPT ![q] = f]
      /\ UNCHANGED <<now, cached, Find!roomVars, listFailures>>
  BY <1>1 DEF Find!RoomsFetched
<1>4. f.begun <= now /\ now <= f.begun + Find!Timeout(f.part)
  BY <1>2 DEF FindTyped, Find!TypeOK, FindSizes, Find!Timeout
<1>5. \A r \in f.left \cup f.found : OfferedAt(r, f.begun)
  BY <1>2 DEF OfferedAt
<1>6. \A r \in GameRoom \ (f.left \cup f.found) : ClosedAt(r, f.begun)
  BY <1>2 DEF ClosedAt
<1> QED
  BY <1>2, <1>3, <1>4, <1>5, <1>6, FetchGoesOn

\* A summary, or its failure: the room is found if it answers and is open.
LEMMA SummaryKeeps ==
    ASSUME FindSizes, FindTyped, DirectoryInv, NEW q \in Find!Request,
           NEW r \in GameRoom,
           Find!SummaryFetched(q, r) \/ Find!SummaryFails(q, r)
    PROVE  FetchType' /\ DirectoryInv'
<1>1. PICK g : g = fetch[q]
  OBVIOUS
<1>2. g \in Fetch /\ r \in g.left /\ fetch[q] # None
  BY <1>1 DEF Find!SummaryFetched, Find!SummaryFails, FindTyped, FetchType
<1>3. g.begun \in Nat /\ g.begun <= now /\ now <= g.begun + Find!Timeout(g.part)
      /\ g.part = "summaries"
      /\ (\A s \in g.left \cup g.found : OfferedAt(s, g.begun))
      /\ (\A s \in g.found : OpenAt(s, g.begun))
      /\ ("summaries" \notin listFailures =>
            \A s \in GameRoom \ (g.left \cup g.found) : ClosedAt(s, g.begun))
  <2>1. g.begun \in Nat /\ g.part \in {"rooms", "summaries"}
    BY <1>2 DEF Fetch, FindSizes
  <2> QED
    BY <1>1, <1>2, <2>1 DEF DirectoryInv, FetchIsRecent
<1>4. CASE Find!SummaryFetched(q, r)
  <2>1. PICK f : f = [g EXCEPT !.left = @ \ {r}, !.found = @ \cup ({r} \cap open)]
    OBVIOUS
  <2>2. /\ f \in Fetch /\ f.begun = g.begun /\ f.part = g.part
        /\ f.left = g.left \ {r}
        /\ f.found = g.found \cup ({r} \cap open)
    BY <1>2, <2>1 DEF Fetch
  <2>3. /\ fetch' = [fetch EXCEPT ![q] = f]
        /\ UNCHANGED <<now, cached, Find!roomVars, listFailures>>
    BY <1>1, <1>4, <2>1 DEF Find!SummaryFetched, FindTyped, FetchType
  <2>4. /\ \A s \in f.left \cup f.found : OfferedAt(s, f.begun)
        /\ \A s \in f.found : OpenAt(s, f.begun)
    BY <1>2, <1>3, <2>2 DEF OpenAt
  <2>5. "summaries" \notin listFailures =>
           \A s \in GameRoom \ (f.left \cup f.found) : ClosedAt(s, f.begun)
    BY <1>3, <2>2 DEF ClosedAt
  <2> QED
    BY <1>3, <2>2, <2>3, <2>4, <2>5, FetchGoesOn
<1>5. CASE Find!SummaryFails(q, r)
  <2>1. PICK f : f = [g EXCEPT !.left = @ \ {r}]
    OBVIOUS
  <2>2. /\ f \in Fetch /\ f.begun = g.begun /\ f.part = g.part
        /\ f.left = g.left \ {r}
        /\ f.found = g.found
    BY <1>2, <2>1 DEF Fetch
  <2>3. /\ fetch' = [fetch EXCEPT ![q] = f] /\ UNCHANGED <<now, cached, Find!roomVars>>
        /\ listFailures \subseteq listFailures' /\ "summaries" \in listFailures'
    BY <1>1, <1>5, <2>1 DEF Find!SummaryFails, Find!Fails, FindTyped, FetchType
  <2>4. /\ \A s \in f.left \cup f.found : OfferedAt(s, f.begun)
        /\ \A s \in f.found : OpenAt(s, f.begun)
    BY <1>3, <2>2
  <2> QED
    BY <1>3, <2>2, <2>3, <2>4, FetchGoesOn
<1> QED
  BY <1>4, <1>5

\* A list is cached, or fails to come.
LEMMA ListKeeps ==
    ASSUME FindSizes, FindTyped, DirectoryInv, NEW q \in Find!Request,
           Find!Listed(q) \/ Find!ListFails(q)
    PROVE  FetchType' /\ DirectoryInv' /\ (cached' = None \/ cached' = cached
              \/ cached' \in [expiresAt : Nat, rooms : SUBSET GameRoom])
<1>1. /\ fetch' = [fetch EXCEPT ![q] = None]
      /\ listFailures \subseteq listFailures'
      /\ UNCHANGED <<now, offered, open, since, openSince>>
  BY DEF Find!Listed, Find!ListFails, Find!Fails, Find!roomVars
<1>2. /\ fetch' \in [Find!Request -> Fetch \cup {None}]
      /\ \A p \in Find!Request : fetch'[p] # None => p # q /\ fetch'[p] = fetch[p]
  BY <1>1 DEF FindTyped, FetchType
<1>3. FetchIsRecent'
  <2> SUFFICES ASSUME NEW p \in Find!Request, fetch'[p] # None
               PROVE  /\ fetch[p].begun <= now
                      /\ now <= fetch[p].begun + Find!Timeout(fetch[p].part)
                      /\ \A r \in fetch[p].left \cup fetch[p].found :
                            OfferedAt(r, fetch[p].begun)
                      /\ \A r \in fetch[p].found : OpenAt(r, fetch[p].begun)
                      /\ fetch[p].part = "summaries" /\ "summaries" \notin listFailures =>
                            \A r \in GameRoom \ (fetch[p].left \cup fetch[p].found) :
                                ClosedAt(r, fetch[p].begun)
                      /\ fetch[p].part = "rooms" =>
                            fetch[p].left = {} /\ fetch[p].found = {}
    BY <1>1, <1>2 DEF FetchIsRecent, OfferedAt, OpenAt, ClosedAt, Find!Timeout
  <2> QED
    BY <1>2 DEF DirectoryInv, FetchIsRecent
<1>4. CASE Find!Listed(q)
  <2>1. PICK f : f = fetch[q]
    OBVIOUS
  <2>2. f \in Fetch /\ fetch[q] # None /\ f.part = "summaries" /\ f.left = {}
    BY <1>4, <2>1 DEF Find!Listed, FindTyped, FetchType
  <2>3. /\ f.begun \in Nat /\ f.found \in SUBSET GameRoom
        /\ f.begun <= now /\ now <= f.begun + SummaryTimeout
        /\ (\A r \in f.found : OfferedAt(r, f.begun) /\ OpenAt(r, f.begun))
        /\ ("summaries" \notin listFailures =>
              \A r \in GameRoom \ f.found : ClosedAt(r, f.begun))
    BY <2>1, <2>2 DEF DirectoryInv, FetchIsRecent, Find!Timeout, Fetch,
       FindSizes
  <2>4. now \in Nat /\ CacheTtl \in Nat /\ SummaryTimeout \in Nat
    BY DEF FindTyped, Find!TypeOK, FindSizes
  <2>5. cached' = [expiresAt |-> now + CacheTtl, rooms |-> f.found]
    BY <1>4, <2>1 DEF Find!Listed
  <2>6. /\ cached'.expiresAt = now + CacheTtl /\ cached'.rooms = f.found
        /\ cached' \in [expiresAt : Nat, rooms : SUBSET GameRoom]
    BY <2>3, <2>4, <2>5
  <2>7. cached'.expiresAt <= f.begun + Age
    BY <2>3, <2>4, <2>6 DEF Age
  <2>8. CachedIsRecent'
    BY <1>1, <2>3, <2>6, <2>7 DEF CachedIsRecent, OfferedAt, OpenAt, ClosedAt,
       Age
  <2> QED
    BY <1>2, <1>3, <2>6, <2>8 DEF FetchType, DirectoryInv
<1>5. CASE Find!ListFails(q)
  <2>1. UNCHANGED cached
    BY <1>5 DEF Find!ListFails
  <2>2. CachedIsRecent'
    BY <1>1, <2>1 DEF DirectoryInv, CachedIsRecent, OfferedAt, OpenAt,
       ClosedAt, Age
  <2> QED
    BY <1>2, <1>3, <2>1, <2>2 DEF FetchType, DirectoryInv
<1> QED
  BY <1>4, <1>5

\* Time passes, but for no fetch beyond its timeout.
LEMMA TickKeeps ==
    ASSUME FindSizes, FindTyped, DirectoryInv, Find!Tick
    PROVE  FetchType' /\ DirectoryInv'
<1>1. /\ now \in Nat /\ now' = now + 1
      /\ UNCHANGED <<fetch, cached, offered, open, since, openSince, listFailures>>
      /\ \A q \in Find!Request :
            fetch[q] # None => now < fetch[q].begun + Find!Timeout(fetch[q].part)
  BY DEF Find!Tick, Find!directoryVars, Find!roomVars, FindTyped, Find!TypeOK,
     FindSizes
<1>2. FetchIsRecent'
  <2> SUFFICES ASSUME NEW q \in Find!Request, fetch[q] # None
               PROVE  /\ fetch[q].begun <= now'
                      /\ now' <= fetch[q].begun + Find!Timeout(fetch[q].part)
    BY <1>1 DEF DirectoryInv, FetchIsRecent, OfferedAt, OpenAt, ClosedAt,
       Find!Timeout
  <2>1. fetch[q].begun \in Nat /\ Find!Timeout(fetch[q].part) \in Nat
    BY DEF FindTyped, FetchType, Fetch, Find!Timeout, FindSizes
  <2> QED
    BY <1>1, <2>1 DEF DirectoryInv, FetchIsRecent
<1>3. CachedIsRecent'
  <2> SUFFICES ASSUME cached # None
               PROVE  CachedIsRecent'
    BY <1>1 DEF CachedIsRecent
  <2>1. PICK t \in Nat :
           /\ t <= now /\ cached.expiresAt <= t + Age
           /\ \A r \in cached.rooms : OpenAt(r, t) /\ OfferedAt(r, t)
           /\ "summaries" \notin listFailures =>
                 \A r \in GameRoom \ cached.rooms : ClosedAt(r, t)
    BY DEF DirectoryInv, CachedIsRecent
  <2>2. t <= now'
    BY <1>1, <2>1
  <2> QED
    BY <1>1, <2>1, <2>2 DEF CachedIsRecent, OpenAt, OfferedAt, ClosedAt, Age
<1> QED
  BY <1>1, <1>2, <1>3 DEF DirectoryInv, FindTyped, FetchType

\* A room that changes now is as it was, or has changed since any list.
LEMMA RoomChangesKeeps ==
    ASSUME FindSizes, FindTyped, DirectoryInv, NEW r \in GameRoom,
           Find!RoomChanges(r)
    PROVE  FetchType' /\ DirectoryInv'
<1>1. now \in Nat /\ UNCHANGED <<now, fetch, cached, listFailures>>
  BY DEF Find!RoomChanges, Find!directoryVars, FindTyped, Find!TypeOK, FindSizes
<1>2. \A s \in GameRoom : \/ (s \in offered' <=> s \in offered) /\ since'[s] = since[s]
                          \/ since'[s] = now
  BY DEF Find!RoomChanges, Find!Toggle, FindTyped, Find!TypeOK
<1>3. \A s \in GameRoom : \/ (s \in open' <=> s \in open) /\ openSince'[s] = openSince[s]
                          \/ openSince'[s] = now
  BY DEF Find!RoomChanges, Find!Toggle, FindTyped, Find!TypeOK
<1>4. ASSUME NEW t \in Nat, t <= now, NEW s \in GameRoom
      PROVE  /\ OpenAt(s, t) => (s \in open' \/ t <= openSince'[s])
             /\ OfferedAt(s, t) => (s \in offered' \/ t <= since'[s])
             /\ ClosedAt(s, t) => \/ s \notin offered' \/ s \notin open'
                                  \/ t <= since'[s] \/ t <= openSince'[s]
  BY <1>2, <1>3, <1>4 DEF OpenAt, OfferedAt, ClosedAt
<1>5. FetchIsRecent'
  <2> SUFFICES ASSUME NEW q \in Find!Request, fetch[q] # None
               PROVE  /\ fetch[q].begun \in Nat /\ fetch[q].begun <= now
                      /\ fetch[q].left \cup fetch[q].found \subseteq GameRoom
    BY <1>1, <1>4 DEF DirectoryInv, FetchIsRecent, OpenAt, OfferedAt,
       ClosedAt, Find!Timeout
  <2>1. fetch[q] \in Fetch
    BY DEF FindTyped, FetchType
  <2>2. /\ fetch[q].begun \in Nat
        /\ fetch[q].left \cup fetch[q].found \subseteq GameRoom
    BY <2>1 DEF Fetch, FindSizes
  <2> QED
    BY <2>2 DEF DirectoryInv, FetchIsRecent
<1>6. CachedIsRecent'
  <2> SUFFICES ASSUME cached # None
               PROVE  CachedIsRecent'
    BY <1>1 DEF CachedIsRecent
  <2>1. PICK t \in Nat :
           /\ t <= now /\ cached.expiresAt <= t + Age
           /\ \A s \in cached.rooms : OpenAt(s, t) /\ OfferedAt(s, t)
           /\ "summaries" \notin listFailures =>
                 \A s \in GameRoom \ cached.rooms : ClosedAt(s, t)
    BY DEF DirectoryInv, CachedIsRecent
  <2>2. cached.rooms \subseteq GameRoom
    BY DEF FindTyped, Find!TypeOK
  <2>3. /\ \A s \in cached.rooms : OpenAt(s, t)' /\ OfferedAt(s, t)'
        /\ "summaries" \notin listFailures =>
              \A s \in GameRoom \ cached.rooms : ClosedAt(s, t)'
    BY <1>4, <2>1, <2>2 DEF OpenAt, OfferedAt, ClosedAt
  <2> QED
    BY <1>1, <2>1, <2>3 DEF CachedIsRecent, OpenAt, OfferedAt, ClosedAt, Age
<1> QED
  BY <1>1, <1>5, <1>6 DEF DirectoryInv, FindTyped, FetchType

-----------------------------------------------------------------------------
(* Every step.                                                             *)

FindInv == FindTyped /\ AdmissionInv /\ DirectoryInv

LEMMA FindInitInv == ASSUME FindSizes, Find!Init PROVE FindInv
<1>1. Find!New \in Asking /\ Find!New.at = 0 /\ Find!New.step = "new"
  BY DEF Find!New, Asking, Find!Steps, FindSizes
<1>2. request = [q \in Find!Request |-> Find!New]
  BY DEF Find!Init
<1>3. \A q \in Find!Request : request[q] = Find!New
  BY <1>2
<1>4. request \in [Find!Request -> Asking]
  BY <1>1, <1>2
<1>5. Find!TypeOK
  BY <1>4 DEF Find!TypeOK, Find!Init, Asking, FindSizes
<1>6. FetchType /\ DirectoryInv
  BY DEF FetchType, DirectoryInv, FetchIsRecent, CachedIsRecent, Find!Init
<1>7. Find!Passed = {}
  BY <1>1, <1>3 DEF Find!Passed
<1>8. Find!PassedFitCapacity
  <2> SUFFICES ASSUME NEW t \in 0..MaxTime
               PROVE  Cardinality(Within(t)) <= MaxPerSecond
    BY SameCardinality DEF Find!PassedFitCapacity, Within
  <2>1. Within(t) = {}
    BY <1>7 DEF Within
  <2> QED
    BY <2>1, FS_EmptySet DEF FindSizes
<1>9. ArrivedBefore /\ Remembered
  BY <1>1, <1>3, <1>7 DEF ArrivedBefore, Remembered, Find!Init
<1> QED
  BY <1>5, <1>6, <1>8, <1>9 DEF FindInv, FindTyped, AdmissionInv

\* The kinds of steps, by what they do to the admission.
LEMMA RateLimitedKeeps ==
    ASSUME FindSizes, FindInv, NEW q \in Find!Request,
           NEW asks \in GameRoom \cup {None},
           Find!RateLimited(q, asks)
    PROVE  FindInv'
<1> USE DEF FindInv
<1>1. PICK y : y = Find!Arrived(asks)
  OBVIOUS
<1>2. y \in Asking /\ y.at = now
  BY <1>1, ArrivedIsAsking DEF FindTyped
<1>3. PICK x : x = [y EXCEPT !.step = "rate_limited"]
  OBVIOUS
<1>4. x \in Asking /\ x.at = now /\ x.step = "rate_limited"
  BY <1>2, <1>3 DEF Asking, Find!Steps
<1>5. /\ request' = [request EXCEPT ![q] = x] /\ admittedAt' = Find!RecentAdmitted
      /\ UNCHANGED <<now, Find!directoryVars, Find!roomVars, listFailures>>
  BY <1>1, <1>3 DEF Find!RateLimited
<1>6. /\ now \in Nat /\ request \in [Find!Request -> Asking]
      /\ admittedAt \subseteq Find!Request
  BY DEF FindTyped, Find!TypeOK, Asking, FindSizes
<1>7. /\ request' \in [Find!Request -> Asking] /\ request'[q] = x
      /\ \A p \in Find!Request : p # q => request'[p] = request[p]
  BY <1>4, <1>5, <1>6
<1>8. \A p \in Find!Request : request'[p].at <= now'
  BY <1>4, <1>5, <1>6, <1>7 DEF AdmissionInv, ArrivedBefore
<1>9. \A p \in Find!Passed' : p \in Find!Passed /\ request'[p].at = request[p].at
  BY <1>4, <1>7 DEF Find!Passed
<1>10. Find!RecentAdmitted \subseteq admittedAt' /\ now' \in Nat /\ now <= now'
  BY <1>5, <1>6
<1>11. AdmissionInv'
  BY <1>7, <1>8, <1>9, <1>10, NobodyPasses
<1>12. FetchType' /\ DirectoryInv'
  BY <1>5, DirectoryStays
<1>13. Find!TypeOK'
  BY <1>5, <1>6, <1>7 DEF FindTyped, Find!TypeOK, Asking, Find!directoryVars,
     Find!roomVars, Find!RecentAdmitted
<1> QED
  BY <1>11, <1>12, <1>13 DEF FindTyped

LEMMA EntersKeeps ==
    ASSUME FindSizes, FindInv, NEW q \in Find!Request,
           NEW asks \in GameRoom \cup {None},
           \/ Find!AnsweredFromCache(q, asks)
           \/ Find!JoinsRefresh(q, asks)
           \/ Find!StartsRefresh(q, asks)
    PROVE  FindInv'
<1> USE DEF FindInv
<1>1. PICK x \in Asking : x.at = now /\ request' = [request EXCEPT ![q] = x]
  BY EntersEffect
<1>2. Find!MayEnter(q) /\ admittedAt' = Find!RecentAdmitted \cup {q}
      /\ UNCHANGED <<now, cached, Find!roomVars, listFailures>>
  BY EntersEffect
<1>3. AdmissionInv'
  BY <1>1, <1>2, OnePasses
<1>4. FetchType' /\ DirectoryInv'
  <2>1. CASE Find!StartsRefresh(q, asks)
    BY <2>1, StartsRefreshKeeps
  <2>2. CASE Find!AnsweredFromCache(q, asks) \/ Find!JoinsRefresh(q, asks)
    BY <2>2, DirectoryStays DEF Find!AnsweredFromCache, Find!JoinsRefresh
  <2> QED
    BY <2>1, <2>2
<1>5. request \in [Find!Request -> Asking]
  BY DEF FindTyped, Find!TypeOK, Asking
<1>6. request' \in [Find!Request -> Asking]
  BY <1>1, <1>5
<1>7. refresh' \in Find!Request \cup {None}
  BY DEF Find!AnsweredFromCache, Find!JoinsRefresh, Find!StartsRefresh,
     Find!directoryVars, FindTyped, Find!TypeOK
<1>8. admittedAt' \subseteq Find!Request
  BY <1>2 DEF Find!RecentAdmitted, FindTyped, Find!TypeOK
<1>9. \A p \in Find!Request : fetch'[p] = None \/ fetch'[p] \in Fetch
  BY <1>4 DEF FetchType
<1>10. Find!TypeOK'
  BY <1>2, <1>6, <1>7, <1>8, <1>9 DEF FindTyped, Find!TypeOK, Asking, Fetch,
     Find!roomVars
<1> QED
  BY <1>3, <1>4, <1>10 DEF FindTyped

\* What the directory does answers requests, or leaves them as they are.
LEMMA DirectoryStepKeeps ==
    ASSUME FindSizes, FindInv, NEW q \in Find!Request,
           \/ Find!RoomsFetched(q) \/ Find!Listed(q) \/ Find!ListFails(q)
           \/ \E r \in GameRoom : Find!SummaryFetched(q, r) \/ Find!SummaryFails(q, r)
    PROVE  FindInv'
<1> USE DEF FindInv
<1>1. now \in Nat /\ request \in [Find!Request -> Asking]
  BY DEF FindTyped, Find!TypeOK, Asking, FindSizes
<1>2. UNCHANGED <<now, admittedAt, Find!roomVars>>
  BY DEF Find!RoomsFetched, Find!Listed, Find!ListFails, Find!SummaryFetched,
     Find!SummaryFails
<1>3. FetchType' /\ DirectoryInv'
  BY RoomsFetchedKeeps, ListKeeps, SummaryKeeps
<1>4. /\ request' \in [Find!Request -> Asking]
      /\ \A p \in Find!Request : /\ request'[p].at = request[p].at
                                 /\ p \in Find!Passed' => p \in Find!Passed
  <2>1. CASE Find!Listed(q) \/ Find!ListFails(q)
    BY <2>1, ListEffect DEF Find!Passed
  <2>2. CASE UNCHANGED request
    BY <1>1, <2>2 DEF Find!Passed
  <2> QED
    BY <2>1, <2>2 DEF Find!RoomsFetched, Find!SummaryFetched, Find!SummaryFails
<1>5. AdmissionInv'
  <2>1. \A p \in Find!Request : request'[p].at <= now'
    BY <1>1, <1>2, <1>4 DEF AdmissionInv, ArrivedBefore
  <2>2. \A p \in Find!Passed' : p \in Find!Passed /\ request'[p].at = request[p].at
    BY <1>4 DEF Find!Passed
  <2>3. Find!RecentAdmitted \subseteq admittedAt' /\ now' \in Nat /\ now <= now'
    BY <1>1, <1>2 DEF Find!RecentAdmitted
  <2> QED
    BY <1>4, <2>1, <2>2, <2>3, NobodyPasses
<1>6. refresh' \in Find!Request \cup {None}
  BY DEF Find!RoomsFetched, Find!Listed, Find!ListFails, Find!SummaryFetched,
     Find!SummaryFails, Find!Unless, FindTyped, Find!TypeOK
<1>7. cached' = None \/ cached' \in [expiresAt : Nat, rooms : SUBSET GameRoom]
  <2>1. CASE Find!Listed(q) \/ Find!ListFails(q)
    BY <2>1, ListKeeps DEF FindTyped, Find!TypeOK
  <2>2. CASE UNCHANGED cached
    BY <2>2 DEF FindTyped, Find!TypeOK
  <2> QED
    BY <2>1, <2>2 DEF Find!RoomsFetched, Find!SummaryFetched, Find!SummaryFails
<1>8. listFailures' \subseteq {"rooms", "summaries"}
  BY DEF Find!RoomsFetched, Find!Listed, Find!ListFails, Find!SummaryFetched,
     Find!SummaryFails, Find!Fails, FindTyped, Find!TypeOK
<1>9. \A p \in Find!Request : fetch'[p] = None \/ fetch'[p] \in Fetch
  BY <1>3 DEF FetchType
<1>10. Find!TypeOK'
  BY <1>2, <1>4, <1>6, <1>7, <1>8, <1>9 DEF FindTyped, Find!TypeOK, Asking,
     Fetch, Find!roomVars
<1> QED
  BY <1>3, <1>5, <1>10 DEF FindTyped

LEMMA WorldKeeps ==
    ASSUME FindSizes, FindInv,
           Find!Tick \/ \E r \in GameRoom : Find!RoomChanges(r)
    PROVE  FindInv'
<1> USE DEF FindInv
<1>1. /\ now \in Nat /\ now' \in 0..MaxTime /\ now <= now'
      /\ UNCHANGED <<request, admittedAt, Find!directoryVars, listFailures>>
  BY DEF Find!Tick, Find!RoomChanges, FindTyped, Find!TypeOK, FindSizes
<1>2. FetchType' /\ DirectoryInv'
  BY TickKeeps, RoomChangesKeeps
<1>3. request \in [Find!Request -> Asking]
  BY DEF FindTyped, Find!TypeOK, Asking
<1>4. AdmissionInv'
  <2>1. \A p \in Find!Request : request[p].at \in Nat
    BY <1>3 DEF Asking, FindSizes
  <2>2. \A p \in Find!Request : request'[p].at <= now'
    BY <1>1, <2>1 DEF AdmissionInv, ArrivedBefore, FindSizes
  <2>3. \A p \in Find!Passed' : p \in Find!Passed /\ request'[p].at = request[p].at
    BY <1>1 DEF Find!Passed
  <2>4. /\ request' \in [Find!Request -> Asking]
        /\ Find!RecentAdmitted \subseteq admittedAt'
        /\ now' \in Nat
    BY <1>1, <1>3 DEF Find!RecentAdmitted, FindSizes
  <2> QED
    BY <1>1, <2>2, <2>3, <2>4, NobodyPasses
<1>5. /\ offered' \subseteq GameRoom /\ open' \subseteq GameRoom
      /\ since' \in [GameRoom -> 0..MaxTime]
      /\ openSince' \in [GameRoom -> 0..MaxTime]
      /\ changes' \in 0..MaxChanges
  BY DEF Find!Tick, Find!RoomChanges, Find!Toggle, Find!roomVars, FindTyped,
     Find!TypeOK, FindSizes
<1>6. Find!TypeOK'
  BY <1>1, <1>5 DEF FindTyped, Find!TypeOK, Find!directoryVars
<1> QED
  BY <1>2, <1>4, <1>6 DEF FindTyped

LEMMA FindNextInv == ASSUME FindSizes, FindInv, [Find!Next]_Find!vars PROVE FindInv'
<1>1. CASE UNCHANGED Find!vars
  <2>1. UNCHANGED <<now, request, admittedAt, Find!directoryVars,
                  Find!roomVars, listFailures>>
    BY <1>1 DEF Find!vars
  <2>2. FetchType' /\ DirectoryInv'
    BY <2>1, DirectoryStays DEF FindInv
  <2>3. AdmissionInv'
    BY <2>1 DEF FindInv, AdmissionInv, ArrivedBefore, Remembered,
       Find!PassedFitCapacity, Find!Passed
  <2>4. Find!TypeOK'
    BY <2>1 DEF FindInv, FindTyped, Find!TypeOK, Find!directoryVars,
       Find!roomVars
  <2> QED
    BY <2>2, <2>3, <2>4 DEF FindInv, FindTyped
<1> QED
  BY <1>1, RateLimitedKeeps, EntersKeeps, DirectoryStepKeeps, WorldKeeps
     DEF Find!Next, Find!FetchProceeds

-----------------------------------------------------------------------------
(* The answers.                                                            *)

\* Rooms that were open at a time t, and all that were.
Recent(t, rooms) ==
    /\ \A r \in rooms : OpenAt(r, t) /\ OfferedAt(r, t)
    /\ "summaries" \notin listFailures =>
          \A r \in GameRoom \ rooms : ClosedAt(r, t)

\* A request is answered only from a list that is no older than Age.
LEMMA AnsweredFromList ==
    ASSUME FindSizes, FindInv, Find!Next, NEW q \in Find!Request,
           request'[q].step # request[q].step,
           request'[q].step \in {"accepted", "no_room"}
    PROVE  \E t \in Nat, rooms \in SUBSET GameRoom :
              /\ now <= t + Age /\ Recent(t, rooms)
              /\ request'[q].step = "accepted" => request'[q].room \in rooms
              /\ request'[q].step = "no_room" => Find!Choices(request'[q].asks, rooms) = {}
<1>1. FindTyped /\ now \in Nat /\ request \in [Find!Request -> Asking]
  BY DEF FindInv, FindTyped, Find!TypeOK, Asking, FindSizes
<1>2. ASSUME NEW p \in Find!Request, NEW asks \in GameRoom \cup {None},
             \/ Find!RateLimited(p, asks) \/ Find!JoinsRefresh(p, asks)
             \/ Find!StartsRefresh(p, asks)
      PROVE  FALSE
  <2>1. PICK y : y = Find!Arrived(asks)
    OBVIOUS
  <2>2. y \in Asking
    BY <1>1, <2>1, ArrivedIsAsking DEF FindTyped
  <2>3. PICK x : /\ x.step \in {"rate_limited", "waiting"}
                 /\ request' = [request EXCEPT ![p] = x]
    <3>1. CASE Find!RateLimited(p, asks)
      BY <2>1, <2>2, <3>1 DEF Find!RateLimited, Asking
    <3>2. ASSUME NEW for, Find!Waits(p, asks, for)
          PROVE  \E x : /\ x.step \in {"rate_limited", "waiting"}
                        /\ request' = [request EXCEPT ![p] = x]
      BY <2>1, <2>2, <3>2 DEF Find!Waits, Asking
    <3>3. CASE Find!JoinsRefresh(p, asks)
      BY <3>2, <3>3 DEF Find!JoinsRefresh
    <3>4. CASE Find!StartsRefresh(p, asks)
      BY <3>2, <3>4 DEF Find!StartsRefresh
    <3> QED
      BY <1>2, <3>1, <3>3, <3>4
  <2>4. \A o \in Find!Request : o # p => request'[o] = request[o]
    BY <1>1, <2>3
  <2>5. request'[p] = x
    BY <1>1, <2>3
  <2> QED
    BY <2>3, <2>4, <2>5
<1>3. ASSUME NEW p \in Find!Request, NEW asks \in GameRoom \cup {None},
             Find!AnsweredFromCache(p, asks)
      PROVE  \E t \in Nat, rooms \in SUBSET GameRoom :
                /\ now <= t + Age /\ Recent(t, rooms)
                /\ request'[q].step = "accepted" => request'[q].room \in rooms
                /\ request'[q].step = "no_room"
                      => Find!Choices(request'[q].asks, rooms) = {}
  <2>1. cached # None /\ cached.expiresAt > now /\ cached.expiresAt \in Nat
        /\ cached.rooms \in SUBSET GameRoom
    BY <1>1, <1>3 DEF Find!AnsweredFromCache, Find!IsCached, FindTyped,
       Find!TypeOK
  <2>2. PICK t \in Nat : cached.expiresAt <= t + Age /\ Recent(t, cached.rooms)
    BY <2>1 DEF FindInv, DirectoryInv, CachedIsRecent, Recent
  <2>3. now <= t + Age
    BY <1>1, <2>1, <2>2 DEF Age, FindSizes
  <2>4. PICK y : y = Find!Arrived(asks)
    OBVIOUS
  <2>5. y \in Asking
    BY <1>1, <2>4, ArrivedIsAsking DEF FindTyped
  <2>6. PICK a \in Find!Answers(y, cached.rooms) : request' = [request EXCEPT ![p] = a]
    BY <1>3, <2>4 DEF Find!AnsweredFromCache
  <2>7. /\ a.asks = y.asks
        /\ a.step = "accepted" => a.room \in cached.rooms
        /\ a.step = "no_room" => Find!Choices(y.asks, cached.rooms) = {}
    BY <2>1, <2>5, AnswersAreAsking
  <2>8. q = p
    <3>1. q # p => request'[q] = request[q]
      BY <1>1, <2>6
    <3> QED
      BY <3>1
  <2>9. request'[q] = a
    BY <1>1, <2>6, <2>8
  <2> QED
    BY <2>1, <2>2, <2>3, <2>7, <2>9
<1>4. ASSUME NEW p \in Find!Request, Find!Listed(p) \/ Find!ListFails(p)
      PROVE  \E t \in Nat, rooms \in SUBSET GameRoom :
                /\ now <= t + Age /\ Recent(t, rooms)
                /\ request'[q].step = "accepted" => request'[q].room \in rooms
                /\ request'[q].step = "no_room"
                      => Find!Choices(request'[q].asks, rooms) = {}
  <2>1. /\ Find!Listed(p) /\ request'[q].asks = request[q].asks
        /\ request'[q].step = "accepted" => request'[q].room \in fetch[p].found
        /\ request'[q].step = "no_room"
              => Find!Choices(request[q].asks, fetch[p].found) = {}
    BY <1>1, <1>4, ListEffect
  <2>2. PICK f : f = fetch[p]
    OBVIOUS
  <2>3. /\ f # None /\ f.part = "summaries" /\ f.left = {}
        /\ f.begun \in Nat /\ f.found \in SUBSET GameRoom
    BY <1>1, <2>1, <2>2 DEF Find!Listed, FindTyped, Find!TypeOK, FindSizes
  <2>4. now <= f.begun + SummaryTimeout /\ Recent(f.begun, f.found)
    BY <2>2, <2>3 DEF FindInv, DirectoryInv, FetchIsRecent, Recent, Find!Timeout
  <2>5. now <= f.begun + Age
    BY <1>1, <2>3, <2>4 DEF Age, FindSizes
  <2> QED
    BY <2>1, <2>2, <2>3, <2>4, <2>5
<1>5. UNCHANGED request => FALSE
  OBVIOUS
<1>6. ASSUME NEW p \in Find!Request,
             \/ Find!RoomsFetched(p)
             \/ \E r \in GameRoom : Find!SummaryFetched(p, r) \/ Find!SummaryFails(p, r)
      PROVE  FALSE
  BY <1>5, <1>6 DEF Find!RoomsFetched, Find!SummaryFetched, Find!SummaryFails
<1>7. ASSUME Find!Tick \/ \E r \in GameRoom : Find!RoomChanges(r)
      PROVE  FALSE
  BY <1>5, <1>7 DEF Find!Tick, Find!RoomChanges
<1> QED
  BY <1>2, <1>3, <1>4, <1>6, <1>7 DEF Find!Next, Find!FetchProceeds

\* What was so at a time no longer ago than d, was so lately.
LEMMA RecentIsLately ==
    ASSUME FindSizes, FindTyped, NEW t \in Nat, now <= t + Age,
           NEW r \in GameRoom
    PROVE  /\ OpenAt(r, t) => Find!Lately(open, openSince, r, CacheTtl + SummaryTimeout)
           /\ OfferedAt(r, t)
                 => Find!Lately(offered, since, r,
                                CacheTtl + SummaryTimeout + RoomsTimeout)
           /\ ClosedAt(r, t) /\ r \in offered /\ r \in open =>
                 \/ now <= since[r] + CacheTtl + SummaryTimeout + RoomsTimeout
                 \/ now <= openSince[r] + CacheTtl + SummaryTimeout
<1>1. since[r] \in Nat /\ openSince[r] \in Nat /\ now \in Nat
  BY DEF FindTyped, Find!TypeOK, FindSizes
<1>2. CacheTtl \in Nat /\ SummaryTimeout \in Nat /\ RoomsTimeout \in Nat
  BY DEF FindSizes
<1> QED
  BY <1>1, <1>2 DEF OpenAt, OfferedAt, ClosedAt, Find!Lately, Age

-----------------------------------------------------------------------------
\* Every variable stays within its type.
THEOREM FindTypeOKAlways == ASSUME FindSizes PROVE Find!Spec => []Find!TypeOK
<1>1. Find!Init => FindInv
  BY FindInitInv
<1>2. FindInv /\ [Find!Next]_Find!vars => FindInv'
  BY FindNextInv
<1>3. FindInv => Find!TypeOK
  BY DEF FindInv, FindTyped
<1> QED
  BY <1>1, <1>2, <1>3, PTL DEF Find!Spec

\* findGame lets no more requests of one second pass than MAX_FIND_GAME_PER_SECOND,
\* those that still wait for the room list included, whenever the list comes.
THEOREM PassedFitCapacityAlways ==
    ASSUME FindSizes PROVE Find!Spec => []Find!PassedFitCapacity
<1>1. Find!Init => FindInv
  BY FindInitInv
<1>2. FindInv /\ [Find!Next]_Find!vars => FindInv'
  BY FindNextInv
<1>3. FindInv => Find!PassedFitCapacity
  BY DEF FindInv, AdmissionInv
<1> QED
  BY <1>1, <1>2, <1>3, PTL DEF Find!Spec
\* A room that findGame answers with was open, and offered, no longer ago than the
\* cached list, its summaries and its fetch may take; also for a request that
\* joined a fetch of another, or found the list in the cache.
THEOREM GivenRoomWasOpenAlways ==
    ASSUME FindSizes PROVE Find!Spec => Find!GivenRoomWasOpen
<1>1. ASSUME FindInv, [Find!Next]_Find!vars, NEW q \in Find!Request,
             request[q].step # "accepted", request'[q].step = "accepted"
      PROVE  LET r == request'[q].room IN
             /\ Find!Lately(open, openSince, r, CacheTtl + SummaryTimeout)
             /\ Find!Lately(offered, since, r,
                            CacheTtl + SummaryTimeout + RoomsTimeout)
  <2>1. Find!Next
    BY <1>1 DEF Find!vars
  <2>2. PICK t \in Nat, rooms \in SUBSET GameRoom :
           now <= t + Age /\ Recent(t, rooms) /\ request'[q].room \in rooms
    BY <1>1, <2>1, AnsweredFromList
  <2>3. PICK r \in GameRoom : r = request'[q].room /\ OpenAt(r, t) /\ OfferedAt(r, t)
    BY <2>2 DEF Recent
  <2> QED
    BY <1>1, <2>2, <2>3, RecentIsLately DEF FindInv
<1>2. Find!Init => FindInv
  BY FindInitInv
<1>3. FindInv /\ [Find!Next]_Find!vars => FindInv'
  BY FindNextInv
<1>4. FindInv /\ [Find!Next]_Find!vars =>
        \A q \in Find!Request :
          request[q].step # "accepted" /\ request'[q].step = "accepted" =>
              LET r == request'[q].room IN
              /\ Find!Lately(open, openSince, r, CacheTtl + SummaryTimeout)
              /\ Find!Lately(offered, since, r,
                             CacheTtl + SummaryTimeout + RoomsTimeout)
  BY <1>1
<1> QED
  BY <1>2, <1>3, <1>4, PTL DEF Find!Spec, Find!GivenRoomWasOpen

\* As long as no room's summary has failed, findGame turns no request away from a
\* room that has been offered and open for as long as a list may be old.
THEOREM OpenRoomIsFoundAlways ==
    ASSUME FindSizes PROVE Find!Spec => Find!OpenRoomIsFound
<1> DEFINE Found ==
      \A q \in Find!Request :
          /\ request[q].step # "no_room" /\ request'[q].step = "no_room"
          /\ "summaries" \notin listFailures
          => \A r \in Find!Choices(request'[q].asks, GameRoom) \cap offered \cap open :
                \/ now <= since[r] + CacheTtl + SummaryTimeout + RoomsTimeout
                \/ now <= openSince[r] + CacheTtl + SummaryTimeout
<1>1. ASSUME FindInv, [Find!Next]_Find!vars PROVE Found
  <2> SUFFICES ASSUME NEW q \in Find!Request,
                      request[q].step # "no_room", request'[q].step = "no_room",
                      "summaries" \notin listFailures,
                      NEW r \in Find!Choices(request'[q].asks, GameRoom) \cap offered \cap open
               PROVE  \/ now <= since[r] + CacheTtl + SummaryTimeout + RoomsTimeout
                      \/ now <= openSince[r] + CacheTtl + SummaryTimeout
    OBVIOUS
  <2>1. Find!Next
    BY <1>1 DEF Find!vars
  <2>2. PICK t \in Nat, rooms \in SUBSET GameRoom :
           now <= t + Age /\ Recent(t, rooms) /\ Find!Choices(request'[q].asks, rooms) = {}
    BY <1>1, <2>1, AnsweredFromList
  <2>3. r \in GameRoom /\ r \notin rooms /\ r \in offered /\ r \in open
    BY <2>2 DEF Find!Choices
  <2>4. ClosedAt(r, t)
    BY <2>2, <2>3 DEF Recent
  <2> QED
    BY <1>1, <2>2, <2>3, <2>4, RecentIsLately DEF FindInv
<1>2. Find!Init => FindInv
  BY FindInitInv
<1>3. FindInv /\ [Find!Next]_Find!vars => FindInv'
  BY FindNextInv
<1>4. FindInv /\ [Find!Next]_Find!vars => Found
  BY <1>1
<1> QED
  BY <1>2, <1>3, <1>4, PTL DEF Find!Spec, Find!OpenRoomIsFound

-----------------------------------------------------------------------------
(* The services together.                                                  *)

\* Whichever component runs, each of them takes a step of its own or none: the
\* services implement the specification of every one of their components.
LEMMA StepIsOneOfEach ==
    ASSUME [ServicesNext]_allVars
    PROVE  /\ [Next]_vars
           /\ [Release!Next]_(Release!vars)
           /\ [Rooms!Next]_(Rooms!vars)
           /\ [Find!Next]_(Find!vars)
           /\ [Lab!Next]_(Lab!vars)
<1>1. /\ UNCHANGED releaseVars => UNCHANGED Release!vars
      /\ UNCHANGED roomVars => UNCHANGED Rooms!vars
      /\ UNCHANGED admissionVars => UNCHANGED Find!vars
      /\ UNCHANGED labVars => UNCHANGED Lab!vars
  <2>1. UNCHANGED releaseVars => UNCHANGED Release!vars
    BY DEF releaseVars, Release!vars, Release!gateVars, Release!clusterVars
  <2>2. UNCHANGED roomVars => UNCHANGED Rooms!vars
    BY DEF roomVars, Rooms!vars, Rooms!registryVars, Rooms!podVars,
           Rooms!ghostVars
  <2>3. UNCHANGED admissionVars => UNCHANGED Find!vars
    BY DEF admissionVars, Find!vars, Find!directoryVars, Find!roomVars
  <2>4. UNCHANGED labVars => UNCHANGED Lab!vars
    BY DEF labVars, Lab!vars, Lab!runVars, Lab!loadVars
  <2> QED BY <2>1, <2>2, <2>3, <2>4
<1>2. CASE UNCHANGED allVars
  <2>1. UNCHANGED <<vars, releaseVars, roomVars, admissionVars, labVars>>
    BY <1>2 DEF allVars
  <2> QED BY <1>1, <2>1
<1>3. CASE ServicesNext
  BY <1>1, <1>3 DEF ServicesNext, Only
<1> QED BY <1>2, <1>3

THEOREM ServicesImplementEach ==
    Services => Spec /\ Release!Spec /\ Rooms!Spec /\ Find!Spec /\ Lab!Spec
<1>1. ServicesInit =>
        Init /\ Release!Init /\ Rooms!Init /\ Find!Init /\ Lab!Init
  BY DEF ServicesInit
<1>2. [ServicesNext]_allVars =>
        /\ [Next]_vars
        /\ [Release!Next]_(Release!vars)
        /\ [Rooms!Next]_(Rooms!vars)
        /\ [Find!Next]_(Find!vars)
        /\ [Lab!Next]_(Lab!vars)
  BY StepIsOneOfEach
<1> QED BY <1>1, <1>2, PTL
        DEF Services, Spec, Release!Spec, Rooms!Spec, Find!Spec, Lab!Spec

\* What the components' theorems ask of their constants.
LEMMA ConstantsFit ==
    /\ None \notin Operation /\ MaxPolls \in Nat \ {0}
    /\ Release!RoomsAreOrdinals
    /\ MaxRooms \in Nat /\ Rooms!NoneAssumption /\ Rooms!BoundsAssumption
    /\ FindSizes
    /\ MaxLabRequests \in Nat
<1>1. Release!RoomsAreOrdinals
  BY ServicesAssumption, FS_CardinalityType DEF Release!RoomsAreOrdinals
<1>2. Rooms!NoneAssumption /\ Rooms!BoundsAssumption
  BY ServicesAssumption
     DEF Rooms!NoneAssumption, Rooms!RecordType, Rooms!BoundsAssumption,
         Rooms!Room
<1> QED BY <1>1, <1>2, ServicesAssumption DEF FindSizes

\* The state of each service stays well formed, whatever fails or restarts.
THEOREM TypesOKAlways == Services => []TypesOK
<1>1. Release!Spec => []Release!TypeOK
  BY ConstantsFit, Release!TypeOKAlways
<1>2. Rooms!Spec => []Rooms!TypeOK
  BY ConstantsFit, Rooms!TypeOKAlways
<1>3. Find!Spec => []Find!TypeOK
  BY ConstantsFit, FindTypeOKAlways
<1>4. Lab!Spec => []Lab!TypeOK
  BY ConstantsFit, Lab!TypeOKAlways
<1>5. TypeOK /\ Release!TypeOK /\ Rooms!TypeOK /\ Find!TypeOK /\ Lab!TypeOK
        => TypesOK
  BY DEF TypesOK
<1> QED BY <1>1, <1>2, <1>3, <1>4, <1>5, TypeOKAlways, ServicesImplementEach,
           PTL

\* At most one release operation runs (release-control.ts:32-62), and all the
\* stored events of an operation id are those of one operation.
THEOREM OneReleaseAlways == Services => []OneRelease
<1>1. Release!Spec => [](Release!OneRelease /\ Release!IdNamesOneOperation)
  BY ConstantsFit, Release!OneReleaseAlways
<1>2. Release!OneRelease /\ Release!IdNamesOneOperation => OneRelease
  BY DEF OneRelease
<1> QED BY <1>1, <1>2, ServicesImplementEach, PTL

\* A live room only runs an image that a canary was found healthy with, and an
\* approved canary has left no bots in the canary room (canary.ts,
\* release-control.ts).
THEOREM LiveIsValidatedAlways == Services => []LiveIsValidated
<1>1. Release!Spec =>
        [](Release!LiveIsValidated /\ Release!ApprovedLeavesNoLoad)
  BY ConstantsFit, Release!LiveIsValidatedAlways
<1>2. Release!LiveIsValidated /\ Release!ApprovedLeavesNoLoad
        => LiveIsValidated
  BY DEF LiveIsValidated
<1> QED BY <1>1, <1>2, ServicesImplementEach, PTL

\* Join locks are as they were set last, the registry lists the rooms that run,
\* and the registered rooms have a route (main.ts, registry.ts).
THEOREM RegistryIsTrueAlways == Services => []RegistryIsTrue
<1>1. Rooms!Spec => []Rooms!RegistryIsTrue
  BY ConstantsFit, Rooms!RegistryIsTrueAlways
<1>2. Rooms!RegistryIsTrue => RegistryIsTrue
  BY DEF RegistryIsTrue
<1> QED BY <1>1, <1>2, ServicesImplementEach, PTL

\* A room is stopped only after it was saved, and a deleted one does not get its
\* snapshot back from its terminating pod (main.ts:296-303, 822-855).
THEOREM SnapshotsFollowRoomsAlways == Services => SnapshotsFollowRooms
<1>1. Rooms!Spec => Rooms!StoppedIsSaved
  BY ConstantsFit, Rooms!StoppedIsSavedAlways
<1>2. Rooms!Spec => []Rooms!DeletedIsForgotten
  BY ConstantsFit, Rooms!DeletedIsForgottenAlways
<1>3. Rooms!DeletedIsForgotten => (on = "rooms" => Rooms!DeletedIsForgotten)
  OBVIOUS
<1> QED BY <1>1, <1>2, <1>3, ServicesImplementEach, PTL
        DEF SnapshotsFollowRooms

\* No more requests of one second pass the admission than its capacity
\* (findGame, matchmaker.ts:164-255).
THEOREM AdmissionFitsAlways == Services => []PassedFitCapacity
<1>1. Find!Spec => []Find!PassedFitCapacity
  BY ConstantsFit, PassedFitCapacityAlways
<1>2. Find!PassedFitCapacity => PassedFitCapacity
  BY DEF PassedFitCapacity
<1> QED BY <1>1, <1>2, ServicesImplementEach, PTL

\* What a request is answered was so a bounded time ago (HttpRoomDirectory,
\* matchmaker.ts).
THEOREM ListIsRecentAlways == Services => ListIsRecent
<1>1. Find!Spec => Find!GivenRoomWasOpen
  BY ConstantsFit, GivenRoomWasOpenAlways
<1>2. Find!Spec => Find!OpenRoomIsFound
  BY ConstantsFit, OpenRoomIsFoundAlways
<1> QED BY <1>1, <1>2, ServicesImplementEach, PTL DEF ListIsRecent

\* There is one storm, whose load is the one that runs; the run of a room lists
\* its answered bot jobs; and the evidence of a stopped load stays as it is
\* (failure-scenarios.ts, admission-load.ts).
THEOREM LoadIsKnownAlways == Services => LoadIsKnown
<1>1. Lab!Spec => []Lab!OneStorm
  BY ConstantsFit, Lab!OneStormAlways
<1>2. Lab!Spec => []Lab!RunListsItsBots
  BY ConstantsFit, Lab!RunListsItsBotsAlways
<1>3. Lab!Spec => Lab!StoppedEvidenceIsKept
  BY ConstantsFit, Lab!StoppedEvidenceIsKeptAlways
<1>4. Lab!OneStorm /\ Lab!RunListsItsBots
        => (on = "lab" => Lab!OneStorm /\ Lab!RunListsItsBots)
  OBVIOUS
<1> QED BY <1>1, <1>2, <1>3, <1>4, ServicesImplementEach, PTL DEF LoadIsKnown

=============================================================================
