----------------------------- MODULE RoomHandoff -----------------------------
(***************************************************************************)
(* The planned replacement of one room's pod: the program that             *)
(* RoomHandoffCoordinator (handoff.ts) and KubernetesRoomHandoffDriver     *)
(* (handoff-driver.ts) run, against the room's processes, the session      *)
(* gateway and the room's Deployment.                                      *)
(*                                                                         *)
(* The program is sequential: "at" is the request that it makes next.  A   *)
(* request reads or changes one server in one step; between two requests   *)
(* anything else happens: the Active saves, timers fire, Kubernetes        *)
(* removes pods.  A request that fails throws, and Recovery says where the *)
(* coordinator's catch goes from there.                                    *)
(*                                                                         *)
(* The processes are what RoomAuthority models in detail, the gateway what *)
(* SessionGateway does: here a checkpoint is its number, a frozen room its *)
(* preparation, and the sessions are what a verification says of them.     *)
(***************************************************************************)
EXTENDS Naturals, FiniteSets

CONSTANTS
    Fault,          \* the kinds of fault that happen, each at most once
    None,           \* no lease, no preparation, no verification
    MaxHandoff,     \* bound on the handoffs
    MaxSave         \* bound on the Active's own saves

ASSUME BoundAssumption == MaxHandoff \in Nat \ {0} /\ MaxSave \in Nat

\* refused   a request is not executed, or a wait runs into its deadline
\* lost      a request is lost, or its answer
\* late      a cutover outlasts the driver's requestTimeoutMs
\* session   a session ends, or does not get its new connection
\* timer     the gateway's preparation times out
\* exit      a process that is not the Active exits and is started again
\* restart   the orchestrator restarts
\* slow      the handoff outlasts the 20 s after which a Candidate watches the
\*           lease, and the 15 s after which Kubernetes counts it as available
ASSUME FaultAssumption ==
    Fault \subseteq {"refused", "lost", "late", "session", "timer", "exit",
                     "restart", "slow"}

\* The n-th handoff's Candidate is pod n + 1.
Pod == 1..(MaxHandoff + 1)
Service == 0
RoomEpoch == 1

\* The cutover of a handoff, and that of its rollback.
Operation == (1..MaxHandoff) \X {"handoff", "rollback"}

Route == [endpoint : Pod \cup {Service}, epoch : Nat]

\* A pod's process: the epoch of its handoffStatus, the checkpoint that it was
\* started or seeded with (candidateStatus, authorityChecksum), its writer's
\* lastChecksum, and whether its takeover timer runs.
Process ==
    [role : {"absent", "candidate", "active", "gone"}, epoch : Nat,
     loaded : Nat, ready : BOOLEAN, wrote : Nat, armed : BOOLEAN]

Verification == [op : Operation, epoch : Nat, continuous : BOOLEAN]
ASSUME NoneAssumption ==
    None \notin Nat /\ None \notin Operation /\ None \notin Verification

CutoverOperation ==
    [status : {"none", "preparing", "failed", "registry_committed", "committed"},
     route : Route]

\* HandoffStage, by the requests of which each stage consists.
Scheduling == {"schedule", "appear"}
Unfrozen == {"ready", "freeze"}
Preflight == {"save", "poll", "seed", "check"}
Activating ==
    {"activate", "release", "repoll", "reseed", "promote"}
CuttingOver == {"proof", "swap", "reread"}
Verifying == {"verify", "finalize"}
RollingBack ==
    {"observe", "unfreeze", "back_save", "back_poll", "back_release",
     "back_seed", "back_promote", "back_freeze", "back_swap", "back_reread",
     "back_proof", "back_finalize"}
Discarding == {"discard", "delete"}
Label ==
    {"idle", "rescind", "abort", "drain"} \cup Scheduling \cup Unfrozen
        \cup Preflight \cup Activating \cup CuttingOver \cup Verifying
        \cup RollingBack \cup Discarding

\* What RoomHandoffFailed says of the rollback.
Outcome ==
    {"none", "completed", "active_preserved", "active_resumed",
     "gateway_abort_failed", "gateway_rolled_back",
     "rollback_failed_candidate_retained",
     "candidate_retained_after_drain_failure", "interrupted"}

VARIABLES
    pod,            \* the room's pods and their processes
    lease,          \* the owner of the room's lease
    stored,         \* the room's latest checkpoint, and the epoch of its writer
    template,       \* the pod of the Deployment's template
    route,          \* the gateway's route to the room
    preparation,    \* roomPreparations: the operation that froze the room
    verification,   \* roomVerifications
    cutover,        \* roomCutoverOperations
    at,             \* the coordinator's and driver's next request
    handoffs,       \* the handoffs begun
    target,         \* RoomHandoffTarget: the Active's pod and its epoch
    checksum,       \* the checkpoint that the program compares with
    currentEpoch,   \* the epoch of the authority that a rollback releases
    rollbackEpoch,  \* the epoch that the rollback grants
    context,        \* whether contextByRoom has the room
    failedAt,       \* the request that failed the handoff
    outcome,        \* how the last handoff ended
    broken,         \* history: a session ended during the handoff's verification
    saves,          \* the Active's own saves
    faults          \* the faults that have happened

room == <<pod, lease, stored>>
gateway == <<route, preparation, verification, cutover>>
memo == <<checksum, currentEpoch, rollbackEpoch>>
bounds == <<handoffs, target, saves>>
vars == <<room, template, gateway, at, memo, bounds, context, failedAt, outcome,
          broken, faults>>

TypeOK ==
    /\ pod \in [Pod -> Process]
    /\ \A p \in Pod : {pod[p].loaded, pod[p].wrote} \subseteq 0..stored.version
    /\ lease \in Pod \cup {None}
    /\ stored \in [version : Nat, epoch : Nat]
    /\ template \in Pod
    /\ route \in Route
    /\ preparation \in Operation \cup {None}
    /\ verification \in Verification \cup {None}
    /\ cutover \in [Operation -> CutoverOperation]
    /\ at \in Label
    /\ handoffs \in 0..MaxHandoff
    /\ target \in [pod : Pod, epoch : Nat]
    /\ {checksum, currentEpoch, rollbackEpoch} \subseteq Nat
    /\ context \in BOOLEAN /\ broken \in BOOLEAN
    /\ failedAt \in Label
    /\ outcome \in Outcome
    /\ saves \in 0..MaxSave
    /\ faults \subseteq Fault

Absent == [role |-> "absent", epoch |-> 0, loaded |-> 0, ready |-> FALSE,
           wrote |-> 0, armed |-> FALSE]

\* One pod serves the room by its Service, and has saved once.
Init ==
    /\ pod = [p \in Pod |->
                 IF p = 1
                 THEN [Absent EXCEPT !.role = "active", !.epoch = RoomEpoch,
                                     !.ready = TRUE, !.wrote = 1]
                 ELSE Absent]
    /\ lease = 1
    /\ stored = [version |-> 1, epoch |-> RoomEpoch]
    /\ template = 1
    /\ route = [endpoint |-> Service, epoch |-> RoomEpoch]
    /\ preparation = None
    /\ verification = None
    /\ cutover = [o \in Operation |-> [status |-> "none", route |-> route]]
    /\ at = "idle"
    /\ handoffs = 0
    /\ target = [pod |-> 1, epoch |-> RoomEpoch]
    /\ checksum = 0 /\ currentEpoch = 0 /\ rollbackEpoch = 0
    /\ context = FALSE /\ broken = FALSE
    /\ failedAt = "idle"
    /\ outcome = "none"
    /\ saves = 0
    /\ faults = {}

Happens(k) == k \in Fault \ faults /\ faults' = faults \cup {k}

Old == target.pod
Candidate == handoffs + 1
Mine == <<handoffs, "handoff">>
Back == <<handoffs, "rollback">>

Running(p) == pod[p].role \in {"candidate", "active"}
Active(p) == pod[p].role = "active"
LeadsTo(p) == route.endpoint \in {p, Service}
Serves(p) == Active(p) /\ LeadsTo(p) /\ route.epoch = pod[p].epoch

-----------------------------------------------------------------------------
\* What the requests do.

\* handoffStatus: an Active reports its own last save before the checkpoint that
\* it was promoted with, also if that save is of an earlier epoch.
Reported(f) == IF f.role = "active" /\ f.wrote # 0 THEN f.wrote ELSE f.loaded
StatusChecksum(p) == Reported(pod[p])

CanSave(p) == Active(p) /\ lease = p

\* A save that publishes its checksum before Redis has it.
AnnounceSave(p) ==
    /\ CanSave(p)
    /\ pod' = [pod EXCEPT ![p].wrote = stored.version + 1]
    /\ UNCHANGED <<lease, stored>>

SaveSnapshot(p) ==
    /\ CanSave(p)
    /\ stored' = [version |-> stored.version + 1, epoch |-> pod[p].epoch]
    /\ pod' = [pod EXCEPT ![p].wrote = stored.version + 1]
    /\ UNCHANGED lease

\* The Candidate gets ready if the stored checkpoint is the expected one.
Seeds(p, c, e) == stored = [version |-> c, epoch |-> e]
SeedCandidate(p, c, e) ==
    /\ pod[p].role = "candidate"
    /\ pod' = [pod EXCEPT ![p] =
                 IF Seeds(p, c, e)
                 THEN [@ EXCEPT !.loaded = c, !.epoch = e, !.ready = TRUE]
                 ELSE [@ EXCEPT !.epoch = stored.epoch, !.ready = FALSE]]
    /\ UNCHANGED <<lease, stored>>

\* A checkpoint that is on its way when the release arrives is waited for: the
\* room is released at that newer one.
Releasable(p, c, e) == Active(p) /\ pod[p].epoch = e /\ StatusChecksum(p) = c
ReleaseActive(p, c, e, flushed) ==
    /\ Releasable(p, c, e)
    /\ flushed => lease = p
    /\ LET n == stored.version + 1
           f == [pod[p] EXCEPT !.role = "candidate", !.loaded = c,
                               !.ready = TRUE, !.armed = FALSE]
       IN  IF flushed
           THEN /\ stored' = [version |-> n, epoch |-> e]
                /\ pod' = [pod EXCEPT ![p] = [f EXCEPT !.loaded = n, !.wrote = n]]
           ELSE /\ UNCHANGED stored
                /\ pod' = [pod EXCEPT ![p] = f]
    /\ lease' = IF lease = p THEN None ELSE lease

Promotable(p, c, e, next) ==
    /\ pod[p].role = "candidate" /\ pod[p].ready /\ pod[p].loaded = c
    /\ next = e + 1
    /\ lease = None
PromoteCandidate(p, c, e, next) ==
    /\ Promotable(p, c, e, next)
    /\ pod' = [pod EXCEPT ![p].role = "active", ![p].epoch = next,
                          ![p].armed = FALSE]
    /\ lease' = p
    /\ UNCHANGED stored

MayFreeze(o, e, superseded) ==
    /\ route.epoch = e
    /\ preparation \in {None, o}
    /\ verification # None => verification.op \in {o, superseded}
FreezeRoom(o, e, superseded) ==
    /\ MayFreeze(o, e, superseded)
    /\ preparation' = o
    /\ verification' = None
    /\ UNCHANGED <<route, cutover>>

MayAbort(o) == preparation \in {None, o}
AbortPreparation(o) ==
    /\ MayAbort(o)
    /\ preparation' = None
    /\ UNCHANGED <<route, verification, cutover>>

\* compareAndSwap, and a cutover whose swap was already done.
RouteAsRead(e, r) == TRUE
MaySwap(e, r) == route.epoch = e \/ route = r

Commits(o, r) ==
    /\ route' = r
    /\ preparation' = None
    /\ verification' = [op |-> o, epoch |-> r.epoch, continuous |-> TRUE]
    /\ cutover' = [cutover EXCEPT ![o] = [status |-> "committed", route |-> r]]

StopsHalfway(o, r) ==
    /\ route' = r
    /\ preparation' = None
    /\ cutover' = [cutover EXCEPT ![o] = [status |-> "registry_committed",
                                          route |-> r]]
    /\ UNCHANGED verification

CutoverFails(o, r) ==
    /\ preparation' = None
    /\ cutover' = [cutover EXCEPT ![o] = [status |-> "failed", route |-> r]]
    /\ UNCHANGED <<route, verification>>

\* roomVerificationView: the sessions are still there, on the verified route.
Proven(o) ==
    /\ verification # None
    /\ verification.op = o
    /\ verification.continuous
    /\ route.epoch = verification.epoch

\* Asks only whose verification it is.
FinalizesUnproven(o) == verification # None => verification.op = o
MayFinalize(o) == verification = None \/ Proven(o)
FinalizeVerification(o) ==
    /\ MayFinalize(o)
    /\ verification' = None
    /\ UNCHANGED <<route, preparation, cutover>>

Remove(p) ==
    /\ pod' = [pod EXCEPT ![p] = [Absent EXCEPT !.role = "gone"]]
    /\ lease' = IF lease = p THEN None ELSE lease
    /\ UNCHANGED stored

-----------------------------------------------------------------------------
\* How the program goes on.

\* authorityTransferStarted is set when the transfer has succeeded.
RecoveryOfTransferred(l) ==
    CASE l \in Scheduling -> "rescind"
      [] l \in Unfrozen -> "discard"
      [] l \in Preflight \cup Activating -> "abort"
      [] l \in CuttingOver \cup Verifying -> "observe"
      [] OTHER -> "idle"

\* Where the catch of scheduleCandidate, and that of handoff(), go when request
\* l fails: authorityTransferStarted is set before the first of Activating.
Recovery(l) ==
    CASE l \in Scheduling -> "rescind"
      [] l \in Unfrozen -> "discard"
      [] l \in Preflight -> "abort"
      [] l \in Activating \cup CuttingOver \cup Verifying -> "observe"
      [] OTHER -> "idle"

Rollback(l) ==
    CASE l = "abort" -> "gateway_abort_failed"
      [] l \in RollingBack -> "rollback_failed_candidate_retained"
      [] l = "drain" -> "candidate_retained_after_drain_failure"
      [] l \in Discarding -> outcome
      [] OTHER -> "active_preserved"

Goes(l) ==
    /\ at' = l
    /\ UNCHANGED <<failedAt, outcome, faults>>

Throws ==
    /\ at' = Recovery(at)
    /\ outcome' = Rollback(at)
    /\ failedAt' = IF at \in {"abort"} \cup RollingBack \cup Discarding
                   THEN failedAt ELSE at

Elsewhere == UNCHANGED <<bounds, broken>>

\* A request that its server carries out, whether the caller learns of it or
\* not; the caller expects that the answer satisfies ok.  (The patches of the
\* pods' labels and the events that the program publishes in between change
\* nothing here: to fail at one is to fail at the request after it.)
Replied(l, ok, next) ==
    /\ at = l
    /\ \/ ok /\ Goes(next)
       \/ ~ok /\ Throws /\ UNCHANGED faults
       \/ Throws /\ Happens("lost")
    /\ Elsewhere
Request(l, next) == Replied(l, TRUE, next)

\* A request that is not carried out: it does not arrive, or it is refused.
Unanswered(l, refused) ==
    /\ at = l
    /\ Throws
    /\ \/ refused /\ UNCHANGED faults
       \/ Happens("refused")
       \/ Happens("lost")
    /\ UNCHANGED <<room, template, gateway, memo, context>>
    /\ Elsewhere

\* A request that only reads, and expects what it reads to satisfy ok.
Reads(l, ok, next) ==
    \/ /\ at = l /\ ok
       /\ Goes(next)
       /\ UNCHANGED <<room, template, gateway, memo, context>>
       /\ Elsewhere
    \/ Unanswered(l, ~ok)

\* A request to a process, to the gateway, or to Kubernetes for the Deployment.
AskProcess(l, next) ==
    Request(l, next) /\ UNCHANGED <<template, gateway, memo, context>>
AskGateway(l, next) ==
    Request(l, next) /\ UNCHANGED <<room, template, memo, context>>
AskDeployment(l, next) ==
    Request(l, next) /\ UNCHANGED <<room, gateway, memo>>

\* Status requests whose checksum the program goes on with.
Notes(l, p, e, next) ==
    \/ /\ at = l
       /\ Active(p) /\ pod[p].epoch = e
       /\ checksum' = StatusChecksum(p)
       /\ Goes(next)
       /\ UNCHANGED <<room, template, gateway, currentEpoch, rollbackEpoch, context>>
       /\ Elsewhere
    \/ Unanswered(l, ~(Active(p) /\ pod[p].epoch = e))

-----------------------------------------------------------------------------
\* The program's requests, in their order.

\* handoff() of a room that one pod serves, after resolveTarget, which brings
\* the gateway's epoch to the Active's if an idle route still leads there.
Reconcilable(p) ==
    /\ preparation = None /\ verification = None
    /\ LeadsTo(p)
    /\ route.epoch <= pod[p].epoch
Start ==
    /\ at = "idle" /\ handoffs < MaxHandoff
    /\ ~context
    /\ \E p \in Pod :
          /\ {q \in Pod : Running(q)} = {p} /\ Active(p)
          /\ \/ route.epoch = pod[p].epoch
             \/ Reconcilable(p)
          /\ route' = [route EXCEPT !.epoch = pod[p].epoch]
          /\ target' = [pod |-> p, epoch |-> pod[p].epoch]
    /\ handoffs' = handoffs + 1
    /\ context' = TRUE
    /\ at' = "schedule"
    /\ outcome' = "none" /\ failedAt' = "idle" /\ broken' = FALSE
    /\ UNCHANGED <<room, template, preparation, verification, cutover, memo,
                   saves, faults>>

\* scheduleCandidate: patchDeployment, and the wait for the new pod.
Schedule ==
    \/ /\ AskDeployment("schedule", "appear")
       /\ template' = Candidate
       /\ UNCHANGED context
    \/ Unanswered("schedule", FALSE)
Appear == Reads("appear", Running(Candidate), "ready")

\* Its catch: each of its two requests may fail without notice, and it knows of
\* a Candidate only if it has seen the pod.
Rescind ==
    /\ at = "rescind"
    /\ context' = FALSE
    /\ at' = "idle"
    /\ \/ template' = Old /\ UNCHANGED faults
       \/ UNCHANGED template /\ Happens("refused")
    /\ \/ Running(Candidate) /\ Remove(Candidate)
       \/ UNCHANGED room
    /\ UNCHANGED <<gateway, memo, failedAt, outcome>>
    /\ Elsewhere

Ready == Reads("ready", pod[Candidate].role = "candidate", "freeze")

Freeze ==
    \/ /\ AskGateway("freeze", "save")
       /\ FreezeRoom(Mine, target.epoch, None)
       /\ UNCHANGED context
    \/ Unanswered("freeze", ~MayFreeze(Mine, target.epoch, None))

\* seedSnapshot and catchUpJournal: a save, and rounds of a status and a seed
\* with what the Active says that it has saved, until the Candidate is ready or
\* the deadline ends them.
Save ==
    \/ AskProcess("save", "poll") /\ SaveSnapshot(Old)
    \/ Unanswered("save", ~CanSave(Old))
Poll == Notes("poll", Old, target.epoch, "seed")
Seed ==
    \/ /\ SeedCandidate(Candidate, checksum, target.epoch)
       /\ \/ Replied("seed", Seeds(Candidate, checksum, target.epoch), "check")
          \/ /\ at = "seed" /\ ~Seeds(Candidate, checksum, target.epoch)
             /\ Goes("poll") /\ Elsewhere
       /\ UNCHANGED <<template, gateway, memo, context>>
    \/ Unanswered("seed", pod[Candidate].role # "candidate")
Check ==
    Reads("check", pod[Candidate].ready /\ StatusChecksum(Candidate) = checksum,
          "activate")

\* activateCandidate: who is the authority?
CanTransfer ==
    /\ Running(Old) /\ Running(Candidate)
    /\ ~(Active(Old) /\ Active(Candidate))
    /\ CASE Active(Candidate) -> pod[Candidate].epoch = target.epoch + 1
         [] Active(Old)       -> pod[Old].epoch = target.epoch
         [] OTHER             -> /\ pod[Candidate].ready
                                 /\ pod[Candidate].loaded = checksum
Transfer ==
    CASE Active(Candidate) -> "proof"
      [] Active(Old)       -> "release"
      [] OTHER             -> "promote"
Activate ==
    \/ /\ at = "activate" /\ CanTransfer
       /\ Goes(Transfer)
       /\ checksum' = IF Active(Candidate) THEN StatusChecksum(Candidate)
                                           ELSE checksum
       /\ UNCHANGED <<room, template, gateway, currentEpoch, rollbackEpoch, context>>
       /\ Elsewhere
    \/ Unanswered("activate", ~CanTransfer)

\* A release, at "release" or "back_release", goes on with its own checksum.
Releases(l, p, e, next) ==
    /\ Request(l, next)
    /\ \E flushed \in BOOLEAN : ReleaseActive(p, checksum, e, flushed)
    /\ checksum' = pod'[p].loaded
    /\ UNCHANGED <<template, gateway, currentEpoch, rollbackEpoch, context>>

\* The Active has saved meanwhile: authority_release_checksum_conflict is the
\* one failure that activateCandidate retries.
Conflict ==
    Active(Old) /\ pod[Old].epoch = target.epoch /\ StatusChecksum(Old) # checksum
Release ==
    \/ Releases("release", Old, target.epoch, "reseed")
    \/ /\ at = "release" /\ Conflict
       /\ Goes("repoll")
       /\ UNCHANGED <<room, template, gateway, memo, context>> /\ Elsewhere
    \/ Unanswered("release", ~Releasable(Old, checksum, target.epoch) /\ ~Conflict)
Repoll == Notes("repoll", Old, target.epoch, "release")

Reseed ==
    \/ /\ Replied("reseed", Seeds(Candidate, checksum, target.epoch), "promote")
       /\ SeedCandidate(Candidate, checksum, target.epoch)
       /\ UNCHANGED <<template, gateway, memo, context>>
    \/ Unanswered("reseed", pod[Candidate].role # "candidate")

\* The process answers with what it reports as an Active.
Promote ==
    \/ /\ PromoteCandidate(Candidate, checksum, target.epoch, target.epoch + 1)
       /\ Replied("promote", Reported(pod'[Candidate]) = checksum, "proof")
       /\ UNCHANGED <<template, gateway, memo, context>>
    \/ Unanswered("promote",
          ~Promotable(Candidate, checksum, target.epoch, target.epoch + 1))

-----------------------------------------------------------------------------
\* cutoverGateway: the proof that the Candidate is the authority, and the cutover.
New == [endpoint |-> Candidate, epoch |-> target.epoch + 1]
Proof ==
    Reads("proof", Active(Candidate) /\ pod[Candidate].epoch = New.epoch, "swap")

Committed(o, r) == cutover[o] = [status |-> "committed", route |-> r]

\* A cutover answers, or the driver's request ends with an error or too early;
\* then it rereads the operation's record.
Cut(l, o, e, r, next, reread) ==
    /\ at = l
    /\ UNCHANGED <<room, template, memo, context, failedAt, outcome>>
    /\ Elsewhere
    /\ \/ /\ preparation = o /\ MaySwap(e, r)
          /\ \/ Commits(o, r) /\ at' = next /\ UNCHANGED faults
             \/ Commits(o, r) /\ at' = reread /\ Happens("lost")
             \/ /\ CutoverFails(o, r) \/ StopsHalfway(o, r)
                /\ at' = reread /\ Happens("session")
             \/ /\ cutover' = [cutover EXCEPT ![o] = [status |-> "preparing",
                                                      route |-> r]]
                /\ at' = reread /\ Happens("late")
                /\ UNCHANGED <<route, preparation, verification>>
       \/ /\ ~(preparation = o /\ MaySwap(e, r))
          /\ CutoverFails(o, r)
          /\ at' = reread /\ UNCHANGED faults
       \/ at' = reread /\ Happens("refused") /\ UNCHANGED gateway

Swap == Cut("swap", Mine, target.epoch, New, "verify", "reread")
Reread == Reads("reread", Committed(Mine, New), "verify")

\* The gateway goes on with a cutover whose caller has given up.  If the
\* preparation has timed out meanwhile, its sessions are no longer prepared.
LateSwap ==
    /\ \E o \in Operation :
          /\ cutover[o].status = "preparing"
          /\ LET r == cutover[o].route
                 may == MaySwap(r.epoch - 1, r)
             IN  \/ may /\ Commits(o, r) /\ UNCHANGED faults
                 \/ /\ may /\ preparation # o
                    /\ StopsHalfway(o, r) /\ UNCHANGED faults
                 \/ ~may /\ CutoverFails(o, r) /\ UNCHANGED faults
                 \/ CutoverFails(o, r) /\ Happens("session")
    /\ UNCHANGED <<room, template, at, memo, context, failedAt, outcome>>
    /\ Elsewhere

Verify ==
    Reads("verify",
          /\ Active(Candidate) /\ pod[Candidate].epoch = New.epoch
          /\ route = New
          /\ Committed(Mine, New)
          /\ Proven(Mine),
          "finalize")

Finalize ==
    \/ /\ AskGateway("finalize", "drain")
       /\ FinalizeVerification(Mine)
       /\ UNCHANGED context
    \/ Unanswered("finalize", ~MayFinalize(Mine))

Drain ==
    \/ /\ at = "drain"
       /\ Remove(Old)
       /\ \/ /\ at' = "idle" /\ outcome' = "completed" /\ context' = FALSE
             /\ UNCHANGED <<failedAt, faults>>
          \/ Throws /\ Happens("lost") /\ UNCHANGED context
       /\ UNCHANGED <<template, gateway, memo>>
       /\ Elsewhere
    \/ Unanswered("drain", FALSE)

-----------------------------------------------------------------------------
\* The coordinator's catch.

Abort ==
    \/ /\ at = "abort"
       /\ AbortPreparation(Mine)
       /\ \/ /\ at' = "discard" /\ outcome' = "active_resumed"
             /\ UNCHANGED <<failedAt, faults>>
          \/ Throws /\ Happens("lost")
       /\ UNCHANGED <<room, template, memo, context>>
       /\ Elsewhere
    \/ Unanswered("abort", ~MayAbort(Mine))

Discard ==
    \/ /\ AskDeployment("discard", "delete")
       /\ template' = Old
       /\ UNCHANGED context
    \/ Unanswered("discard", FALSE)
Delete ==
    \/ /\ at = "delete"
       /\ Remove(Candidate)
       /\ \/ Goes("idle") /\ context' = FALSE
          \/ Throws /\ Happens("lost") /\ UNCHANGED context
       /\ UNCHANGED <<template, gateway, memo>>
       /\ Elsewhere
    \/ Unanswered("delete", FALSE)

\* rollbackGateway: if the old Active was never released, and the route leads to
\* its own endpoint, its sessions are resumed.
Answered ==
    /\ Running(Old) /\ Running(Candidate)
    /\ ~(Active(Old) /\ Active(Candidate))
NeverMoved ==
    Active(Old) /\ route = [endpoint |-> Old, epoch |-> pod[Old].epoch]
Moved ==
    Active(Candidate) /\ route = [endpoint |-> Candidate,
                                  epoch |-> pod[Candidate].epoch]

RolledBack ==
    /\ at' = "discard" /\ outcome' = "gateway_rolled_back"
    /\ UNCHANGED <<failedAt, faults>>

\* committedEpoch of the coordinator, and the newest of the epochs observed.
CommittedEpoch == IF failedAt \in Activating THEN target.epoch ELSE New.epoch
Newest ==
    LET E == {route.epoch, pod[Old].epoch, pod[Candidate].epoch, CommittedEpoch}
    IN  CHOOSE e \in E : \A f \in E : f <= e

Observe ==
    \/ /\ at = "observe" /\ Answered
       /\ \/ /\ NeverMoved
             /\ IF preparation = Mine THEN Goes("unfreeze") ELSE RolledBack
             /\ UNCHANGED memo
          \/ /\ Moved
             /\ currentEpoch' = route.epoch
             /\ rollbackEpoch' = Newest + 1
             /\ Goes("back_save")
             /\ UNCHANGED checksum
       /\ UNCHANGED <<room, template, gateway, context>>
       /\ Elsewhere
    \/ Unanswered("observe", ~(Answered /\ (NeverMoved \/ Moved)))

Unfreeze ==
    \/ /\ at = "unfreeze"
       /\ AbortPreparation(Mine)
       /\ \/ RolledBack
          \/ Throws /\ Happens("lost")
       /\ UNCHANGED <<room, template, memo, context>>
       /\ Elsewhere
    \/ Unanswered("unfreeze", ~MayAbort(Mine))

BackSave ==
    \/ AskProcess("back_save", "back_poll") /\ SaveSnapshot(Candidate)
    \/ Unanswered("back_save", ~CanSave(Candidate))
BackPoll == Notes("back_poll", Candidate, currentEpoch, "back_release")
BackRelease ==
    \/ Releases("back_release", Candidate, currentEpoch, "back_seed")
    \/ Unanswered("back_release", ~Releasable(Candidate, checksum, currentEpoch))
BackSeed ==
    \/ /\ Replied("back_seed", Seeds(Old, checksum, currentEpoch), "back_promote")
       /\ SeedCandidate(Old, checksum, currentEpoch)
       /\ UNCHANGED <<template, gateway, memo, context>>
    \/ Unanswered("back_seed", pod[Old].role # "candidate")
BackPromote ==
    \/ /\ PromoteCandidate(Old, checksum, currentEpoch, rollbackEpoch)
       /\ Replied("back_promote", Reported(pod'[Old]) = checksum, "back_freeze")
       /\ UNCHANGED <<template, gateway, memo, context>>
    \/ Unanswered("back_promote",
          ~Promotable(Old, checksum, currentEpoch, rollbackEpoch))

\* (The rollback would first abort the handoff's own preparation, of which a
\* route that has moved leaves none.)
Restored == [endpoint |-> Old, epoch |-> rollbackEpoch]
BackFreeze ==
    \/ /\ AskGateway("back_freeze", "back_swap")
       /\ FreezeRoom(Back, currentEpoch, Mine)
       /\ UNCHANGED context
    \/ Unanswered("back_freeze", ~MayFreeze(Back, currentEpoch, Mine))
BackSwap ==
    Cut("back_swap", Back, currentEpoch, Restored, "back_proof", "back_reread")
BackReread == Reads("back_reread", Committed(Back, Restored), "back_proof")
BackProof ==
    Reads("back_proof",
          route = Restored /\ Committed(Back, Restored) /\ Proven(Back),
          "back_finalize")
BackFinalize ==
    \/ /\ at = "back_finalize"
       /\ FinalizeVerification(Back)
       /\ \/ RolledBack
          \/ Throws /\ Happens("lost")
       /\ UNCHANGED <<room, template, memo, context>>
       /\ Elsewhere
    \/ Unanswered("back_finalize", ~MayFinalize(Back))

-----------------------------------------------------------------------------
\* What happens besides.

\* A process starts as the Active if the lease is free, at its ROOM_EPOCH and
\* not at that of the checkpoint, and as a Candidate otherwise.
Boots(p) ==
    /\ pod' = [pod EXCEPT ![p] =
                 [role |-> IF lease = None THEN "active" ELSE "candidate",
                  epoch |-> IF lease = None THEN RoomEpoch ELSE stored.epoch,
                  loaded |-> stored.version, ready |-> TRUE, wrote |-> 0,
                  armed |-> lease # None]]
    /\ lease' = IF lease = None THEN p ELSE lease
    /\ UNCHANGED stored

Program == <<at, memo, context, failedAt, outcome>>

\* The Deployment has one replica.  (Of the pods of one template at most one is
\* there at a time: a successor takes its predecessor's place.)
PodStarts(p) ==
    /\ p = template /\ ~Running(p)
    /\ Boots(p)
    /\ UNCHANGED <<template, gateway, Program, faults>> /\ Elsewhere

\* Kubernetes removes a pod of another template when the template's own has been
\* available for minReadySeconds; only an Active is ready.
KubeRemoves(p) ==
    /\ p # template /\ Running(p)
    /\ Active(template)
    /\ at = "idle" \/ "slow" \in Fault
    /\ Remove(p)
    /\ UNCHANGED <<template, gateway, Program, faults>> /\ Elsewhere

ProcessExits(p) ==
    /\ pod[p].role = "candidate"
    /\ Happens("exit")
    /\ Boots(p)
    /\ UNCHANGED <<template, gateway, Program>> /\ Elsewhere

\* The periodic checkpoint.
Saves(p) ==
    /\ saves < MaxSave
    /\ SaveSnapshot(p)
    /\ saves' = saves + 1
    /\ UNCHANGED <<template, gateway, Program, handoffs, target, broken, faults>>

\* recoverAbandonedLease: the Candidate goes on from the checkpoint that it
\* loaded, be it the latest or not.
Takeover(p) ==
    /\ pod[p].role = "candidate" /\ pod[p].armed /\ pod[p].ready
    /\ lease = None
    /\ at = "idle" \/ "slow" \in Fault
    /\ lease' = p
    /\ pod' = [pod EXCEPT ![p].role = "active", ![p].epoch = @ + 1,
                          ![p].armed = FALSE]
    /\ UNCHANGED <<stored, template, gateway, Program, faults>> /\ Elsewhere

PreparationEnds ==
    /\ preparation # None /\ Happens("timer")
    /\ preparation' = None
    /\ UNCHANGED <<room, template, route, verification, cutover, Program>>
    /\ Elsewhere

SessionEnds ==
    /\ verification # None /\ Happens("session")
    /\ verification' = [verification EXCEPT !.continuous = FALSE]
    /\ broken' = (broken \/ verification.op = Mine)
    /\ UNCHANGED <<room, template, route, preparation, cutover, Program, bounds>>

OrchestratorRestarts ==
    /\ at # "idle" \/ context
    /\ Happens("restart")
    /\ at' = "idle" /\ context' = FALSE
    /\ outcome' = "interrupted" /\ failedAt' = "idle"
    /\ UNCHANGED <<room, template, gateway, memo>> /\ Elsewhere

Handoff ==
    \/ Start \/ Schedule \/ Appear \/ Ready \/ Freeze
    \/ Save \/ Poll \/ Seed \/ Check
    \/ Activate \/ Release \/ Repoll \/ Reseed \/ Promote
    \/ Proof \/ Swap \/ Reread \/ Verify \/ Finalize \/ Drain

Recover ==
    \/ Rescind \/ Abort \/ Discard \/ Delete \/ Observe \/ Unfreeze
    \/ BackSave \/ BackPoll \/ BackRelease \/ BackSeed \/ BackPromote
    \/ BackFreeze \/ BackSwap \/ BackReread \/ BackProof \/ BackFinalize

Environment ==
    \/ \E p \in Pod : \/ PodStarts(p) \/ KubeRemoves(p) \/ ProcessExits(p)
                      \/ Saves(p) \/ Takeover(p)
    \/ LateSwap \/ PreparationEnds \/ SessionEnds \/ OrchestratorRestarts

Next == Handoff \/ Recover \/ Environment

Spec == Init /\ [][Next]_vars

-----------------------------------------------------------------------------
\* A pod that is the room's Active is never deleted: neither by the coordinator,
\* which deletes what it takes for an unused Candidate or for a drained Active
\* (discardCandidate, drainOldPod), nor by the rollout of the Deployment.
ServingPodIsKept ==
    [][\A p \in Pod : Active(p) => pod'[p].role # "gone"]_vars

\* What RoomHandoffFailed reports as preserved, resumed or rolled back is so: the
\* pod that was to be replaced serves the room, where the gateway's route leads
\* to it at its epoch.
PreservedIsServed ==
    at = "idle" /\ outcome \in {"active_preserved", "active_resumed",
                                "gateway_rolled_back"}
        => Serves(Old)

\* A handoff that succeeded has replaced the pod: the Candidate is the Active at
\* the next epoch and the route leads there, the old pod is gone, and no session
\* ended while the gateway verified them.
CompletedIsReplaced ==
    at = "idle" /\ outcome = "completed"
        => /\ route = New
           /\ Active(Candidate) /\ pod[Candidate].epoch = New.epoch
           /\ pod[Old].role = "gone"
           /\ ~broken

\* Whatever the gateway's route is set to is the room's Active, at its epoch, at
\* that very moment; a cutover that its caller has given up is no exception.
CutoverLandsOnActive ==
    [][route' # route => \E p \in Pod : Serves(p)']_vars

\* "A failed verification is safely rolled back to a higher epoch" (README.md):
\* with every server answering, a handoff that fails after the cutover ends with
\* the old pod serving again.
FailedVerificationIsRolledBack ==
    at = "idle" /\ failedAt \in Verifying => outcome = "gateway_rolled_back"
=============================================================================
