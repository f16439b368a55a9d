------------------------------ MODULE EventLog ------------------------------
(***************************************************************************)
(* What the operation events of room-orchestrator/src/events.ts promise:   *)
(* one durable log, in which the sequence numbers of an operation only     *)
(* grow, whatever is refused, answered late or restarted, and from which   *)
(* everything that anybody else sees is taken: the orchestrator's own      *)
(* projections and the remote receiver are never ahead of the log.         *)
(***************************************************************************)
EXTENDS Naturals, Sequences

CONSTANT
    Event           \* the events: records with at least op and sequence

VARIABLES
    log,            \* the accepted events, in the order they were accepted
    projected,      \* the events the listeners of this life were told of
    received        \* the events the remote receiver has recorded

vars == <<log, projected, received>>

Init ==
    /\ log = <<>>
    /\ projected = {}
    /\ received = {}

Logged(e) == \E i \in DOMAIN log : log[i] = e

\* The log accepts e as the next event of its operation.
Accept(e) ==
    /\ \A i \in DOMAIN log : log[i].op = e.op => log[i].sequence < e.sequence
    /\ log' = Append(log, e)
    /\ UNCHANGED <<projected, received>>

Project(e) ==
    /\ Logged(e)
    /\ projected' = projected \cup {e}
    /\ UNCHANGED <<log, received>>

Receive(e) ==
    /\ Logged(e)
    /\ received' = received \cup {e}
    /\ UNCHANGED <<log, projected>>

\* The process that projected them is gone.
Forget ==
    /\ projected' = {}
    /\ UNCHANGED <<log, received>>

Next ==
    \/ Forget
    \/ \E e \in Event : Accept(e) \/ Project(e) \/ Receive(e)

Spec == Init /\ [][Next]_vars

=============================================================================
