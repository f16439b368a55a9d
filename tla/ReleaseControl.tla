--------------------------- MODULE ReleaseControl ---------------------------
(***************************************************************************)
(* Release operations of the room orchestrator                             *)
(* (services/room-orchestrator/src: release-control.ts, the release routes *)
(* of main.ts, canary.ts, canary-rollout.ts).                              *)
(*                                                                         *)
(* A release operation reserves the gate, which lets one run at a time.  A *)
(* canary validation deploys a revision to the isolated canary room,       *)
(* watches it under the load of bots, and ends with a decision and a       *)
(* sealed bundle in the event stream.  A handoff reads from the stream     *)
(* which image digest has been approved for its revision, and replaces the *)
(* image of the active rooms with it, one room at a time; how one room is  *)
(* handed off is RoomHandoff's subject, here it is one step.               *)
(*                                                                         *)
(* Publishing can fail, with the event stored or not (OperationEvents);    *)
(* the tag of a revision can be pushed again, the canary pod restart, a    *)
(* timed-out patch be applied late, rooms be started and stopped, and the  *)
(* orchestrator restart.                                                   *)
(***************************************************************************)
EXTENDS Naturals, Sequences, FiniteSets, Functions

CONSTANTS
    Operation,      \* operation ids
    Revision,       \* git revisions
    Room,           \* the game rooms: their ordinals
    Fault,          \* what may happen, each kind once: "refused", "lost",
                    \* "late_patch", "retag", "leak", "mutation", "restart"
    None,
    MaxFaults,      \* bound on the kinds that happen in one behaviour
    MaxPolls        \* bound on the observations of one canary phase

\* A digest stands for a build: the revision it was built from, and which push.
Digest == [revision : Revision, push : {1, 2}]

VARIABLES
    checking,       \* reservations whose stored events are being looked up
    active,         \* the gate's reservation
    knownOperationIds,
    task,           \* what each operation of this life is doing
    canary,         \* the canary Deployment: canary id, revision, and the
                    \* digest that its pod runs
    patches,        \* patches that timed out and are still on their way
    load,           \* operations whose validation bots are running
    tag,            \* the push that the tag of each revision points to
    image,          \* the image of each room's Deployment
    activeRooms,    \* the rooms that the registry lists as not inactive
    stream,         \* the stored events of the operations
    canaries,       \* canary ids given so far
    validated,      \* the digests that all polls of a canary have found
                    \* healthy, and whose load was stopped
    faults          \* the kinds that have happened

gateVars == <<checking, active, knownOperationIds>>
clusterVars == <<canary, patches, load, tag, image, activeRooms>>
vars == <<gateVars, task, clusterVars, stream, canaries, validated, faults>>

\* A task: its kind, revision, step, and what it has found out.
Idle == [kind |-> None, revision |-> None, step |-> "idle", id |-> 0,
         digest |-> None, polls |-> 0, healthy |-> {}, approved |-> TRUE,
         partial |-> FALSE, rooms |-> <<>>]

Kinds == {"canary", "handoff", "fleet"}
CanarySteps == {"patching", "announcing", "readiness", "starting", "polling",
                "cleaning", "deciding", "sealing"}
HandoffSteps == {"approving", "waves", "reporting"}

Subjects == {"ReleasePolicyEvaluated", "PromotionApproved", "PromotionBlocked",
             "EvidenceBundleSealed", "RolloutWaveCompleted",
             "RolloutWaveBlocked", "PostVerificationCompleted"}

TypeOK ==
    /\ \A c \in checking : /\ c.kind \in Kinds /\ c.op \in Operation
                           /\ c.revision \in Revision
                           /\ c.rooms \in Seq(Room)
    /\ active \in Operation \cup {None}
    /\ knownOperationIds \subseteq Operation
    /\ \A op \in Operation :
          /\ task[op].kind \in Kinds \cup {None}
          /\ task[op].step \in CanarySteps \cup HandoffSteps \cup {"idle"}
          /\ task[op].digest \in Digest \cup {None}
          /\ task[op].rooms \in Seq(Room)
    /\ canary.digest \in Digest \cup {None}
    /\ load \subseteq Operation
    /\ tag \in [Revision -> {1, 2}]
    /\ image \in [Room -> Digest \cup {None}]
    /\ activeRooms \subseteq Room
    /\ \A i \in DOMAIN stream : stream[i].subject \in Subjects
    /\ validated \subseteq Digest
    /\ faults \subseteq Fault

Init ==
    /\ checking = {}
    /\ active = None
    /\ knownOperationIds = {}
    /\ task = [op \in Operation |-> Idle]
    /\ canary = [id |-> 0, revision |-> None, digest |-> None]
    /\ patches = {}
    /\ load = {}
    /\ tag = [r \in Revision |-> 1]
    /\ image = [room \in Room |-> None]      \* whatever runs before
    /\ \E n \in 0..Cardinality(Room) : activeRooms = {r \in Room : r <= n}
    /\ stream = <<>>
    /\ canaries = 0
    /\ validated = {}
    /\ faults = {}

Occurs(kind) ==
    /\ kind \in Fault \ faults
    /\ Cardinality(faults) < MaxFaults
    /\ faults' = faults \cup {kind}

----------------------------------------------------------------------------
(* ReleaseOperationGate                                                    *)

\* Mutant: reservations do not wait for each other.
GateIsOpen == TRUE

\* serialize: a reservation waits until the one before it has ended.
GateIsFree == checking = {}

\* POST /canary/validate, /rooms/:id/handoff and /rollouts/handoff.
ReserveBegins(kind, op, revision, rooms) ==
    /\ GateIsFree
    /\ active = None
    /\ op \notin knownOperationIds
    /\ checking' = checking \cup {[kind |-> kind, op |-> op,
                                   revision |-> revision, rooms |-> rooms]}
    /\ UNCHANGED <<active, knownOperationIds, task, clusterVars, stream,
                   canaries, validated, faults>>

\* The awaited persistedOperationExists().
Persisted(op) == \E i \in DOMAIN stream : stream[i].op = op

ReserveRefused(c) ==
    /\ Persisted(c.op)
    /\ checking' = checking \ {c}
    /\ UNCHANGED <<active, knownOperationIds, task, clusterVars, stream,
                   canaries, validated, faults>>

Reserved(c) ==
    /\ ~Persisted(c.op)
    /\ checking' = checking \ {c}
    /\ active' = c.op
    /\ knownOperationIds' = knownOperationIds \cup {c.op}
    /\ task' = [task EXCEPT ![c.op] =
                  [Idle EXCEPT !.kind = c.kind, !.revision = c.revision,
                      !.step = IF c.kind = "canary" THEN "patching"
                               ELSE "approving",
                      !.id = IF c.kind = "canary" THEN canaries + 1 ELSE 0,
                      !.rooms = c.rooms]]
    /\ canaries' = IF c.kind = "canary" THEN canaries + 1 ELSE canaries
    /\ UNCHANGED <<clusterVars, stream, validated, faults>>

\* Mutant: an operation that ends does not free the gate.
SettledNot(op) == active

\* finish(abort): the gate is free again; an aborted id can be used again.
Settled(op) == IF active = op THEN None ELSE active

Release(op) ==
    /\ task' = [task EXCEPT ![op] = Idle]
    /\ active' = Settled(op)
    /\ UNCHANGED <<checking, knownOperationIds>>

Abort(op) ==
    /\ task' = [task EXCEPT ![op] = Idle]
    /\ active' = Settled(op)
    /\ knownOperationIds' = knownOperationIds \ {op}
    /\ UNCHANGED checking

----------------------------------------------------------------------------
(* Publishing.                                                             *)

Entry(op, subject, digest, complete) ==
    [op |-> op, kind |-> task[op].kind, revision |-> task[op].revision,
     id |-> task[op].id, subject |-> subject, digest |-> digest,
     complete |-> complete]

\* publish() resolves: the event is stored.
Publishes(e) ==
    /\ stream' = Append(stream, e)
    /\ UNCHANGED faults

\* publish() rejects: the event was refused, or only the answer was lost.
PublishFails(e) ==
    \/ Occurs("refused") /\ UNCHANGED stream
    \/ Occurs("lost") /\ stream' = Append(stream, e)

----------------------------------------------------------------------------
(* A canary validation.                                                    *)

At(op, step) == task[op].step = step

Goes(op, step) == task' = [task EXCEPT ![op].step = step, ![op].polls = 0]

Deployed(id, revision) ==
    [id |-> id, revision |-> revision, digest |-> None]

\* KubernetesCanaryRollout.schedule
Patch(op) ==
    /\ At(op, "patching")
    /\ canary' = Deployed(task[op].id, task[op].revision)
    /\ Goes(op, "announcing")
    /\ UNCHANGED <<gateVars, patches, load, tag, image, activeRooms, stream,
                   canaries, validated, faults>>

\* It is answered too late, and applied later still.
PatchTimesOut(op) ==
    /\ At(op, "patching")
    /\ Occurs("late_patch")
    /\ patches' = patches \cup {Deployed(task[op].id, task[op].revision)}
    /\ Abort(op)
    /\ UNCHANGED <<canary, load, tag, image, activeRooms, stream, canaries,
                   validated>>

LatePatch(p) ==
    /\ p \in patches
    /\ patches' = patches \ {p}
    /\ canary' = p
    /\ UNCHANGED <<gateVars, task, load, tag, image, activeRooms, stream,
                   canaries, validated, faults>>

Announce(op) ==
    /\ At(op, "announcing")
    /\ Publishes(Entry(op, "ReleasePolicyEvaluated", None, FALSE))
    /\ Goes(op, "readiness")
    /\ UNCHANGED <<gateVars, clusterVars, canaries, validated>>

AnnounceFails(op) ==
    /\ At(op, "announcing")
    /\ PublishFails(Entry(op, "ReleasePolicyEvaluated", None, FALSE))
    /\ Abort(op)
    /\ UNCHANGED <<clusterVars, canaries, validated>>

\* observe(): the pod of this canary, if there is exactly one.
Observed(op) ==
    IF canary.id = task[op].id THEN canary.digest ELSE None

\* The pod that an operation has seen is still the one it sees.
SameImage(op) == Observed(op) # None /\ task[op].digest \in {None, Observed(op)}

\* A readiness poll that sees the pod, not ready yet.
Waits(op) ==
    /\ At(op, "readiness")
    /\ SameImage(op)
    /\ task[op].polls + 1 < MaxPolls
    /\ task' = [task EXCEPT ![op].polls = @ + 1, ![op].digest = Observed(op)]
    /\ UNCHANGED <<gateVars, clusterVars, stream, canaries, validated, faults>>

BecomesReady(op) ==
    /\ At(op, "readiness")
    /\ SameImage(op)
    /\ task' = [task EXCEPT ![op].step = "starting", ![op].polls = 0,
                            ![op].digest = Observed(op)]
    /\ UNCHANGED <<gateVars, clusterVars, stream, canaries, validated, faults>>

\* A timeout, a changed image, a failed isolation check, or an OOM kill.
NotReady(op) ==
    /\ At(op, "readiness")
    /\ \E partial \in BOOLEAN :
          task' = [task EXCEPT ![op].step = "deciding", ![op].polls = 0,
                               ![op].approved = FALSE, ![op].partial = partial]
    /\ UNCHANGED <<gateVars, clusterVars, stream, canaries, validated, faults>>

\* bots.start and ValidationLoadStarted.
LoadStarts(op) ==
    /\ At(op, "starting")
    /\ load' = load \cup {op}
    /\ Goes(op, "polling")
    /\ UNCHANGED <<gateVars, canary, patches, tag, image, activeRooms, stream,
                   canaries, validated, faults>>

\* The load does not start; if the start was answered too late, a job that
\* nobody knows runs on.
LoadUnavailable(op) ==
    /\ At(op, "starting")
    /\ \/ UNCHANGED <<load, faults>>
       \/ Occurs("leak") /\ load' = load \cup {op}
    /\ task' = [task EXCEPT ![op].step = "deciding", ![op].polls = 0,
                            ![op].approved = FALSE, ![op].partial = TRUE]
    /\ UNCHANGED <<gateVars, canary, patches, tag, image, activeRooms, stream,
                   canaries, validated>>

\* A validation poll that finds nothing wrong with the pod.
HealthyPoll(op) ==
    /\ At(op, "polling")
    /\ Observed(op) = task[op].digest
    /\ Observed(op) # None
    /\ task[op].polls < MaxPolls
    /\ task' = [task EXCEPT ![op].polls = @ + 1,
                            ![op].healthy = @ \cup {Observed(op)}]
    /\ UNCHANGED <<gateVars, clusterVars, stream, canaries, validated, faults>>

\* What a poll decides that finds something: a gate or the pod fails, or
\* something could not be observed.
Spoiled(op, partial) ==
    [task EXCEPT ![op].step = "cleaning", ![op].approved = FALSE,
                 ![op].partial = partial]

FailedPoll(op) ==
    /\ At(op, "polling")
    /\ task[op].polls < MaxPolls
    /\ \E partial \in BOOLEAN : task' = Spoiled(op, partial)
    /\ UNCHANGED <<gateVars, clusterVars, stream, canaries, validated, faults>>

PollsEnd(op) ==
    /\ At(op, "polling")
    /\ task[op].polls = MaxPolls
    /\ Goes(op, "cleaning")
    /\ UNCHANGED <<gateVars, clusterVars, stream, canaries, validated, faults>>

LoadStops(op) ==
    /\ At(op, "cleaning")
    /\ load' = load \ {op}
    /\ Goes(op, "deciding")
    /\ validated' = IF task[op].approved /\ Cardinality(task[op].healthy) = 1
                    THEN validated \cup task[op].healthy ELSE validated
    /\ UNCHANGED <<gateVars, canary, patches, tag, image, activeRooms, stream,
                   canaries, faults>>

\* The result of a validation whose load could not be stopped.
Uncleaned(op) == [task EXCEPT ![op].step = "deciding", ![op].polls = 0,
                              ![op].approved = FALSE, ![op].partial = TRUE]

LoadStopFails(op) ==
    /\ At(op, "cleaning")
    /\ Occurs("leak")
    /\ task' = Uncleaned(op)
    /\ UNCHANGED <<gateVars, clusterVars, stream, canaries, validated>>

Decision(op) ==
    Entry(op, IF task[op].approved THEN "PromotionApproved"
              ELSE "PromotionBlocked", task[op].digest, ~task[op].partial)

Decide(op) ==
    /\ At(op, "deciding")
    /\ Publishes(Decision(op))
    /\ Goes(op, "sealing")
    /\ UNCHANGED <<gateVars, clusterVars, canaries, validated>>

Bundle(op) == Entry(op, "EvidenceBundleSealed", task[op].digest,
                    ~task[op].partial)

Seal(op) ==
    /\ At(op, "sealing")
    /\ Publishes(Bundle(op))
    /\ Release(op)
    /\ UNCHANGED <<clusterVars, canaries, validated>>

\* A publish of the validation fails; the bots are stopped if they run and
\* nobody has tried yet.
ValidationFails(op) ==
    /\ \/ /\ task[op].step \in {"readiness", "starting", "polling", "cleaning"}
          /\ Occurs("refused")
          /\ UNCHANGED stream
       \/ At(op, "deciding") /\ PublishFails(Decision(op))
       \/ At(op, "sealing") /\ PublishFails(Bundle(op))
    /\ load' = IF task[op].step \in {"polling", "cleaning"} THEN load \ {op}
               ELSE load
    /\ Release(op)
    /\ UNCHANGED <<canary, patches, tag, image, activeRooms, canaries,
                   validated>>

----------------------------------------------------------------------------
(* Handoffs.                                                               *)

\* The operations whose events end with a complete bundle for the revision,
\* after an approval of the same image.
Sealed(op, revision) ==
    LET mine == {i \in DOMAIN stream : stream[i].op = op}
        last == CHOOSE i \in mine : \A j \in mine : j <= i
    IN  /\ mine # {}
        /\ stream[last].subject = "EvidenceBundleSealed"
        /\ stream[last].kind = "canary"
        /\ stream[last].revision = revision
        /\ stream[last].complete
        /\ \E i \in mine : /\ stream[i].subject = "PromotionApproved"
                           /\ stream[i].digest = stream[last].digest
                           /\ \A j \in mine : j > i =>
                                 stream[j].subject # "PromotionBlocked"

\* sealedCanaryApprovalForRevision: the digests it may return, the latest.
ApprovedDigests(revision) ==
    LET sealed == {i \in DOMAIN stream :
                     /\ stream[i].subject = "EvidenceBundleSealed"
                     /\ Sealed(stream[i].op, revision)}
    IN  {stream[i].digest : i \in {j \in sealed : \A k \in sealed : k <= j}}

\* The rooms that are to be replaced: the one asked for, or the active ones.
Captured(op) ==
    IF task[op].kind = "handoff" THEN task[op].rooms
    ELSE CHOOSE s \in [1..Cardinality(activeRooms) -> activeRooms] :
            \A i, j \in DOMAIN s : i < j => s[i] < s[j]

Approve(op) ==
    /\ At(op, "approving")
    /\ ApprovedDigests(task[op].revision) # {}
    /\ activeRooms # {}
    /\ \E d \in ApprovedDigests(task[op].revision) :
          task' = [task EXCEPT ![op].step = "waves", ![op].digest = d,
                               ![op].rooms = Captured(op)]
    /\ UNCHANGED <<gateVars, clusterVars, stream, canaries, validated, faults>>

NotApproved(op) ==
    /\ At(op, "approving")
    /\ \/ ApprovedDigests(task[op].revision) = {}
       \/ activeRooms = {}
    /\ Abort(op)
    /\ UNCHANGED <<clusterVars, stream, canaries, validated, faults>>

\* Mutant: the image that the tag of the revision points to.
TaggedImage(op) == [revision |-> task[op].revision,
                    push |-> tag[task[op].revision]]

\* The image that resolveTarget and scheduleCandidate deploy: the digest.
TargetImage(op) == task[op].digest

\* One room is handed off, which needs its running pod.
HandOff(op) ==
    /\ At(op, "waves")
    /\ task[op].rooms # <<>>
    /\ Head(task[op].rooms) \in activeRooms
    /\ image' = [image EXCEPT ![Head(task[op].rooms)] = TargetImage(op)]
    /\ Publishes(Entry(op, "RolloutWaveCompleted", TargetImage(op), TRUE))
    /\ task' = [task EXCEPT ![op].rooms = Tail(@)]
    /\ UNCHANGED <<gateVars, canary, patches, load, tag, activeRooms,
                   canaries, validated>>

\* Its pod is not found, or the digest is not: nothing is published.  The request
\* for one room is refused, a fleet's ends.
TargetUnresolved(op) ==
    /\ At(op, "waves")
    /\ task[op].rooms # <<>>
    /\ IF task[op].kind = "fleet" THEN Release(op) ELSE Abort(op)
    /\ UNCHANGED <<clusterVars, stream, canaries, validated, faults>>

\* It fails, before the Deployment has the image or after: the wave stops.
HandOffFails(op) ==
    /\ At(op, "waves")
    /\ task[op].rooms # <<>>
    /\ \/ UNCHANGED image
       \/ /\ Head(task[op].rooms) \in activeRooms
          /\ image' = [image EXCEPT ![Head(task[op].rooms)] = TargetImage(op)]
    /\ Publishes(Entry(op, "RolloutWaveBlocked", TargetImage(op), TRUE))
    /\ Release(op)
    /\ UNCHANGED <<canary, patches, load, tag, activeRooms, canaries,
                   validated>>

WavesEnd(op) ==
    /\ At(op, "waves")
    /\ task[op].rooms = <<>>
    /\ IF task[op].kind = "fleet"
       THEN Goes(op, "reporting") /\ UNCHANGED gateVars
       ELSE Release(op)
    /\ UNCHANGED <<clusterVars, stream, canaries, validated, faults>>

Report(op) == Entry(op, "PostVerificationCompleted", task[op].digest, TRUE)

Reports(op) ==
    /\ At(op, "reporting")
    /\ Publishes(Report(op)) \/ PublishFails(Report(op))
    /\ Release(op)
    /\ UNCHANGED <<clusterVars, canaries, validated>>

----------------------------------------------------------------------------
(* What happens around the operations.                                     *)

\* A pod of the canary Deployment starts, or starts again.
CanaryPodStarts ==
    /\ canary.revision # None
    /\ canary' = [canary EXCEPT !.digest =
                    [revision |-> canary.revision, push |-> tag[canary.revision]]]
    /\ canary' # canary
    /\ UNCHANGED <<gateVars, task, patches, load, tag, image, activeRooms,
                   stream, canaries, validated, faults>>

Retag(r) ==
    /\ Occurs("retag")
    /\ tag' = [tag EXCEPT ![r] = 2]
    /\ UNCHANGED <<gateVars, task, canary, patches, load, image, activeRooms,
                   stream, canaries, validated>>

\* /rooms/:id/start and /stop, which the gate does not hold back, start the
\* next room and stop the last one.
RoomMutation(room) ==
    /\ Occurs("mutation")
    /\ activeRooms' \in {activeRooms \cup {room}, activeRooms \ {room}}
    /\ activeRooms' # activeRooms
    /\ \A q \in Room : /\ q < room => q \in activeRooms
                       /\ q > room => q \notin activeRooms
    /\ UNCHANGED <<gateVars, task, canary, patches, load, tag, image, stream,
                   canaries, validated>>

\* The orchestrator's memory is gone.
Restart ==
    /\ Occurs("restart")
    /\ checking' = {}
    /\ active' = None
    /\ knownOperationIds' = {}
    /\ task' = [op \in Operation |-> Idle]
    /\ UNCHANGED <<clusterVars, stream, canaries, validated>>

----------------------------------------------------------------------------

Canary(op) ==
    \/ Patch(op) \/ PatchTimesOut(op) \/ Announce(op) \/ AnnounceFails(op)
    \/ Waits(op) \/ BecomesReady(op) \/ NotReady(op)
    \/ LoadStarts(op) \/ LoadUnavailable(op)
    \/ HealthyPoll(op) \/ FailedPoll(op) \/ PollsEnd(op)
    \/ LoadStops(op) \/ LoadStopFails(op)
    \/ Decide(op) \/ Seal(op) \/ ValidationFails(op)

Handoff(op) ==
    \/ Approve(op) \/ NotApproved(op)
    \/ TargetUnresolved(op) \/ HandOff(op) \/ HandOffFails(op)
    \/ WavesEnd(op) \/ Reports(op)

Reserving(c) == ReserveRefused(c) \/ Reserved(c)

Environment ==
    \/ \E p \in patches : LatePatch(p)
    \/ CanaryPodStarts
    \/ \E r \in Revision : Retag(r)
    \/ \E room \in Room : RoomMutation(room)
    \/ Restart

Request(op) ==
    \E revision \in Revision :
        \/ \E kind \in {"canary", "fleet"} :
              ReserveBegins(kind, op, revision, <<>>)
        \/ \E room \in activeRooms :
              ReserveBegins("handoff", op, revision, <<room>>)

Next ==
    \/ \E op \in Operation : Request(op) \/ Canary(op) \/ Handoff(op)
    \/ \E c \in checking : Reserving(c)
    \/ Environment

Spec == Init /\ [][Next]_vars

----------------------------------------------------------------------------

\* One release operation runs at a time, so that no live room is replaced
\* while a canary is validated and no two operations use the canary room, or
\* a live room, together.
OneRelease ==
    /\ \A op \in Operation : task[op].step # "idle" => active = op
    /\ checking # {} => active = None
    /\ Cardinality(checking) <= 1

\* A live room is given an image only if a canary of that revision was found
\* healthy with that very image, whatever its tag points to by then.
LiveIsValidated ==
    \A room \in Room : image[room] # None => image[room] \in validated

\* The stored events of an operation id are those of one operation: an id is
\* not used again after a restart, nor for another kind of operation.
IdNamesOneOperation ==
    \A i, j \in DOMAIN stream :
        stream[i].op = stream[j].op =>
            /\ stream[i].kind = stream[j].kind
            /\ stream[i].revision = stream[j].revision
            /\ stream[i].id = stream[j].id

\* A canary that was approved has left no bots in the canary room.
ApprovedLeavesNoLoad ==
    \A i \in DOMAIN stream :
        stream[i].subject = "PromotionApproved" => stream[i].op \notin load

=============================================================================
