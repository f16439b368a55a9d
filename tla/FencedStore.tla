---------------------------- MODULE FencedStore ----------------------------
(***************************************************************************)
(* What the Redis keys of one room promise, whatever the game processes    *)
(* do: the room's snapshot and journal are written by one lease holder at  *)
(* a time.  Every grant of the lease opens a new term; a write is made by  *)
(* the holder and carries its term, so that a holder of an earlier term    *)
(* can never overwrite, nor add to, what a later one wrote.                *)
(*                                                                         *)
(* The promise is that of the Lua scripts of                               *)
(* upstream-survev/server/src/opsia/runtime.ts (549-556) and journal.ts.   *)
(***************************************************************************)
EXTENDS Naturals, Sequences

CONSTANTS
    Process,        \* the game processes
    Checkpoint,     \* the contents of a snapshot
    None            \* no holder, or no snapshot

VARIABLES
    lease,          \* the process that holds the room's lease
    term,           \* number of grants of the lease so far
    snapshot,       \* the room's snapshot and the term it was written in
    journal         \* the room's deltas, each with the term it was written in

vars == <<lease, term, snapshot, journal>>

Init ==
    /\ lease = None
    /\ term = 0
    /\ snapshot = None
    /\ journal = <<>>

Grant(p) ==
    /\ lease = None
    /\ lease' = p
    /\ term' = term + 1
    /\ UNCHANGED <<snapshot, journal>>

\* The lease is released or expires.
Vacate ==
    /\ lease' = None
    /\ UNCHANGED <<term, snapshot, journal>>

Put(c) ==
    /\ lease # None
    /\ snapshot' = [content |-> c, term |-> term]
    /\ UNCHANGED <<lease, term, journal>>

\* The journal gains a delta of this term and may lose its oldest ones.
Extend ==
    /\ lease # None
    /\ \E b \in Checkpoint, c \in Checkpoint, n \in 1..Len(journal) + 1 :
          journal' = SubSeq(Append(journal, [base |-> b, target |-> c,
                                             term |-> term]),
                            n, Len(journal) + 1)
    /\ UNCHANGED <<lease, term, snapshot>>

EraseSnapshot ==
    /\ lease # None
    /\ snapshot' = None
    /\ UNCHANGED <<lease, term, journal>>

EraseJournal ==
    /\ lease # None
    /\ journal' = <<>>
    /\ UNCHANGED <<lease, term, snapshot>>

Next ==
    \/ \E p \in Process : Grant(p)
    \/ Vacate
    \/ \E c \in Checkpoint : Put(c)
    \/ Extend
    \/ EraseSnapshot
    \/ EraseJournal

Spec == Init /\ [][Next]_vars

=============================================================================
