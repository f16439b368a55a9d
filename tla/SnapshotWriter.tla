--------------------------- MODULE SnapshotWriter ---------------------------
(***************************************************************************)
(* The bounded snapshot writer of one game process: BoundedSnapshotWriter  *)
(* of upstream-survev/server/src/opsia/snapshot.ts.                         *)
(*                                                                         *)
(* Callers (the periodic save of the game loop, POST /ops/snapshot/save,   *)
(* graceful exit) ask for a checkpoint of the live game.  One checkpoint   *)
(* is in flight at a time; requests that arrive meanwhile share ONE        *)
(* pending checkpoint whose content is taken when it starts.  A write that *)
(* takes longer than the deadline is reported to its callers as a timeout, *)
(* but the writer waits for Redis to settle it before it starts another.   *)
(* FailureThreshold consecutive failures open a circuit for a cooldown.    *)
(*                                                                         *)
(* A checkpoint is abstracted to the version of the game it contains, the  *)
(* checksum of a checkpoint to that version.                               *)
(***************************************************************************)
EXTENDS Naturals

CONSTANTS
    Caller,             \* the concurrent requesters of a checkpoint
    FailureThreshold,   \* consecutive failures that open the circuit
    MaxVersion          \* bound on the versions of the game

ASSUME ThresholdAssumption == FailureThreshold \in Nat \ {0}
ASSUME MaxVersionAssumption == MaxVersion \in Nat

VARIABLES
    version,        \* version of the live game
    stored,         \* version in the room's Redis snapshot key
    caller,         \* what each caller is doing, or the result it was given
    asked,          \* version of the live game when the caller asked
    writing,        \* the callers of the in-flight checkpoint not yet answered
    redis,          \* the write commands Redis has not settled
    pending,        \* the callers that share the pending checkpoint
    lastChecksum,   \* checksum of the last checkpoint reported as saved
    health          \* failure count and circuit breaker

vars == <<version, stored, caller, asked, writing, redis, pending,
          lastChecksum, health>>

Result == {"saved", "timeout", "failed", "circuit_open"}

Version == 0..MaxVersion

\* A write command: the version it carries and whether Redis executed its SET.
Write == [version : Version, applied : BOOLEAN]

\* consecutiveFailures (counted up to the threshold), the circuitOpen flag, and
\* whether circuitOpenUntil lies in the future.
Health == [failures : 0..FailureThreshold,
           circuitOpen : BOOLEAN, cooling : BOOLEAN]

TypeOK ==
    /\ version \in Version
    /\ stored \in Version
    /\ caller \in [Caller -> {"idle", "waiting"} \cup Result]
    /\ asked \in [Caller -> Version]
    /\ writing \subseteq Caller
    /\ redis \subseteq Write
    /\ pending \subseteq Caller
    /\ lastChecksum \in Version
    /\ health \in Health

Healthy == [failures |-> 0, circuitOpen |-> FALSE, cooling |-> FALSE]

Init ==
    /\ version = 0
    /\ stored = 0
    /\ caller = [c \in Caller |-> "idle"]
    /\ asked = [c \in Caller |-> 0]
    /\ writing = {}
    /\ redis = {}
    /\ pending = {}
    /\ lastChecksum = 0
    /\ health = Healthy

----------------------------------------------------------------------------

\* Mutant: failures are counted, but never open the circuit.
FailedWithoutThreshold(h) == [h EXCEPT !.failures = @ + 1]

\* recordFailure: one more consecutive failure; the threshold opens the circuit.
Failed(h) ==
    IF h.failures + 1 >= FailureThreshold
    THEN [failures |-> FailureThreshold, circuitOpen |-> TRUE, cooling |-> TRUE]
    ELSE [h EXCEPT !.failures = @ + 1]

\* metrics(): the authority may be handed off only by a healthy writer.
HandoffEnabled ==
    /\ ~health.circuitOpen
    /\ health.failures < FailureThreshold

\* The callers in cs are given r, the others keep what f says.
Answer(f, cs, r) == [c \in Caller |-> IF c \in cs THEN r ELSE f[c]]

\* execute: the content of a checkpoint is the live game when it starts.
NewWrite == [version |-> version, applied |-> FALSE]

\* Mutant: the end of a write is taken to be its answer, not its settlement.
AnswerAwaited == writing # {}

\* this.inFlight: the run loop still waits for a command to settle.
InFlight == redis # {}

\* Mutant: the circuit is not looked at again before the pending checkpoint.
StartsRegardless(h) == TRUE

\* The circuit lets a checkpoint start.
MayStart(h) == ~h.cooling

\* The run loop ends after write w, with health h and the callers' answers f.
EndRun(w, h, f) ==
    /\ redis' = redis \ {w}
    /\ writing' = {}
    /\ health' = h
    /\ caller' = f

\* The run loop goes on with the pending checkpoint.
StartPending(w, h, f) ==
    /\ redis' = (redis \ {w}) \cup {NewWrite}
    /\ writing' = pending
    /\ health' = h
    /\ caller' = f

\* A write w was settled, leaving health h and the answers f.  The run loop
\* takes the pending checkpoint: it starts it, or answers its callers that the
\* circuit is open, or that the checkpoint is too large to be sent.
RunPending(w, h, f) ==
    /\ pending' = {}
    /\ \/ pending = {} /\ EndRun(w, h, f)
       \/ /\ pending # {} /\ ~MayStart(h)
          /\ EndRun(w, h, Answer(f, pending, "circuit_open"))
       \/ /\ pending # {} /\ MayStart(h)
          /\ \/ StartPending(w, h, f)
             \/ EndRun(w, Failed(h), Answer(f, pending, "failed"))

----------------------------------------------------------------------------

\* The game goes on while checkpoints are written.
Advance ==
    /\ version < MaxVersion
    /\ version' = version + 1
    /\ UNCHANGED <<stored, caller, asked, writing, redis, pending,
                   lastChecksum, health>>

\* request() while the circuit is cooling: refused at once.
RequestRefused(c) ==
    /\ caller[c] = "idle"
    /\ health.cooling
    /\ asked' = [asked EXCEPT ![c] = version]
    /\ caller' = [caller EXCEPT ![c] = "circuit_open"]
    /\ UNCHANGED <<version, stored, writing, redis, pending, lastChecksum,
                   health>>

\* Mutant: a request that finds a write in flight waits for that write.
JoinInFlight(c) ==
    /\ writing' = writing \cup {c}
    /\ UNCHANGED <<redis, pending>>

\* A request that finds a write in flight shares the pending checkpoint.
Join(c) ==
    /\ pending' = pending \cup {c}
    /\ UNCHANGED <<writing, redis>>

\* request() otherwise: it half-opens the circuit, then starts a checkpoint
\* when none is in flight, or joins the callers of the pending one.
Request(c) ==
    /\ caller[c] = "idle"
    /\ ~health.cooling
    /\ asked' = [asked EXCEPT ![c] = version]
    /\ caller' = [caller EXCEPT ![c] = "waiting"]
    /\ health' = [health EXCEPT !.circuitOpen = FALSE]
    /\ \/ InFlight /\ Join(c)
       \/ /\ ~InFlight
          /\ writing' = {c}
          /\ redis' = redis \cup {NewWrite}
          /\ UNCHANGED pending
    /\ UNCHANGED <<version, stored, lastChecksum>>

\* request() of a checkpoint that is too large: nothing is sent.
RequestTooLarge(c) ==
    /\ caller[c] = "idle"
    /\ ~health.cooling
    /\ ~InFlight
    /\ asked' = [asked EXCEPT ![c] = version]
    /\ caller' = [caller EXCEPT ![c] = "failed"]
    /\ health' = Failed([health EXCEPT !.circuitOpen = FALSE])
    /\ UNCHANGED <<version, stored, writing, redis, pending, lastChecksum>>

\* Redis executes the SET of a write command.
Apply(w) ==
    /\ ~w.applied
    /\ stored' = w.version
    /\ redis' = (redis \ {w}) \cup {[w EXCEPT !.applied = TRUE]}
    /\ UNCHANGED <<version, caller, asked, writing, pending, lastChecksum,
                   health>>

\* The deadline passes before the write is settled: its callers are released
\* and a failure is recorded; the command stays with Redis.
Timeout ==
    /\ writing # {}
    /\ caller' = Answer(caller, writing, "timeout")
    /\ writing' = {}
    /\ health' = Failed(health)
    /\ UNCHANGED <<version, stored, asked, redis, pending, lastChecksum>>

\* The write succeeds in time: the circuit closes, its checksum is published.
SettleSaved(w) ==
    /\ w.applied
    /\ writing # {}
    /\ lastChecksum' = w.version
    /\ RunPending(w, Healthy, Answer(caller, writing, "saved"))
    /\ UNCHANGED <<version, stored, asked>>

\* The write fails in time, before its SET (lease lost, connection broken) or
\* after it (the journal append that follows the SET is refused).
SettleFailed(w) ==
    /\ writing # {}
    /\ RunPending(w, Failed(health), Answer(caller, writing, "failed"))
    /\ UNCHANGED <<version, stored, asked, lastChecksum>>

\* Mutant: a late settlement ends the run loop without its pending checkpoint.
SettleLateEndsRun(w) ==
    /\ writing = {}
    /\ EndRun(w, health, caller)
    /\ UNCHANGED <<version, stored, asked, pending, lastChecksum>>

\* Mutant: a late success closes the circuit.
SettleLateHeals(w) ==
    /\ writing = {}
    /\ RunPending(w, Healthy, caller)
    /\ UNCHANGED <<version, stored, asked, lastChecksum>>

\* The write settles, either way, after its deadline: nobody is told, and
\* neither the published checksum nor the failure count moves.
SettleLate(w) ==
    /\ writing = {}
    /\ RunPending(w, health, caller)
    /\ UNCHANGED <<version, stored, asked, lastChecksum>>

\* The cooldown of the circuit ends.
CoolDown ==
    /\ health.cooling
    /\ health' = [health EXCEPT !.cooling = FALSE]
    /\ UNCHANGED <<version, stored, caller, asked, writing, redis, pending,
                   lastChecksum>>

\* An answered caller may ask again.
Return(c) ==
    /\ caller[c] \in Result
    /\ caller' = [caller EXCEPT ![c] = "idle"]
    /\ UNCHANGED <<version, stored, asked, writing, redis, pending,
                   lastChecksum, health>>

Settle(w) == SettleSaved(w) \/ SettleFailed(w) \/ SettleLate(w)

Next ==
    \/ Advance
    \/ \E c \in Caller : RequestRefused(c) \/ Request(c) \/ RequestTooLarge(c)
    \/ \E w \in redis : Apply(w) \/ Settle(w)
    \/ Timeout
    \/ CoolDown
    \/ \E c \in Caller : Return(c)

Spec == Init /\ [][Next]_vars

\* The process's own timer fires; Redis may still never settle a command.
TimerFairSpec == Spec /\ WF_vars(Timeout)

\* Redis settles every command: it replies, or the client fails the command
\* when the connection breaks.
FairSpec == TimerFairSpec /\ WF_vars(\E w \in redis : Settle(w))

----------------------------------------------------------------------------
(* Properties.  Callers are answered about their own checkpoint. *)

\* A caller that is told "saved" finds in Redis a game at least as recent as
\* the one it asked to save: sharing a checkpoint never hands a later caller
\* the result of a write that started before it asked.
SavedIsDurable ==
    \A c \in Caller : caller[c] = "saved" => stored >= asked[c]

\* A checkpoint that was timed out never lands on top of a newer one: physical
\* single-flight survives the deadline.
StoredNeverRegresses == [][stored' >= stored]_vars

\* No write command starts while the circuit is cooling, also not the one that
\* was already pending when the circuit opened.
NoWriteWhileCooling ==
    [][\A w \in redis' \ redis : ~w.applied => ~health'.cooling]_vars

\* A pending checkpoint always has a run loop that will reach it.
PendingHasRunner == pending # {} => redis # {}

\* A writer that was barred from handoff by its failures is offered again only
\* when the checksum it publishes names the snapshot that is really in Redis.
HandoffResumesOnStoredChecksum ==
    [][(~HandoffEnabled /\ HandoffEnabled') => lastChecksum' = stored']_vars

\* Every caller is eventually answered.
EveryCallerAnswered ==
    \A c \in Caller : caller[c] = "waiting" ~> caller[c] # "waiting"

\* What the comment at snapshot.ts:441-443 says: callers are released at the
\* configured deadline even when Redis never settles the timed-out command.
CallersReleasedAtDeadline ==
    \A c \in Caller : caller[c] = "waiting" ~> caller[c] # "waiting"

=============================================================================
