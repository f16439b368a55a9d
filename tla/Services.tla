------------------------------ MODULE Services ------------------------------
(***************************************************************************)
(* The services beside the room state, as one specification:               *)
(* OperationEvents, ReleaseControl, RoomRegistry, Matchmaker and           *)
(* FailureScenarios.                                                       *)
(*                                                                         *)
(* The models share no variable, so that a property of one holds in their  *)
(* composition if it holds of that one alone.  Each behaviour is one of a  *)
(* single component, the one that "on" names; the others stay as they are  *)
(* initially.  TLC then explores the sum, and not the product, of their    *)
(* states, in one run.                                                     *)
(*                                                                         *)
(* Three of the components come with the theorems that ServicesProofs puts *)
(* together: their instances are of the modules that hold the proofs.      *)
(***************************************************************************)
EXTENDS OperationEvents

CONSTANTS
    \* ReleaseControl; its rooms are ordinals
    Revision, RolloutRoom, ReleaseFault, MaxReleaseFaults, MaxPolls,
    \* RoomRegistry
    MaxRooms, DefaultRooms, RegistryFault, MaxRegistryFaults,
    MaxRegistryRequests,
    \* Matchmaker
    GameRoom, MaxFindRequests, MaxPerSecond, Second, CacheTtl, RoomsTimeout,
    SummaryTimeout, MaxTime, MaxChanges, MaxFailedCalls,
    \* FailureScenarios, which have the same rooms
    Scenario, LabFault, MaxLabFaults, MaxLabRequests, MaxSurge, MaxSamples

\* What the proofs need of the constants: None is none of the values that it
\* stands beside, the rooms of a rollout are the ordinals from 1 on, a canary is
\* polled at least once, the gateway's default rooms are rooms of the fleet, and
\* times and bounds are numbers.
ASSUME ServicesAssumption ==
    /\ None \notin Operation /\ MaxPolls \in Nat \ {0}
    /\ IsFiniteSet(RolloutRoom)
    /\ RolloutRoom = 1..Cardinality(RolloutRoom)
    /\ MaxRooms \in Nat /\ DefaultRooms \subseteq 0..MaxRooms - 1
    /\ None \notin [active : BOOLEAN, locked : BOOLEAN]
    /\ MaxRegistryRequests \in Nat
    /\ MaxFindRequests \in Nat /\ MaxPerSecond \in Nat /\ Second \in Nat
    /\ CacheTtl \in Nat /\ RoomsTimeout \in Nat /\ SummaryTimeout \in Nat
    /\ MaxTime \in Nat /\ MaxChanges \in Nat
    /\ MaxLabRequests \in Nat

VARIABLES
    on,             \* the component that runs in this behaviour
    \* ReleaseControl
    checking, active, knownOperationIds, task, canary, releasePatches, load,
    tag, image, activeRooms, releaseStream, canaries, validated,
    releaseFaults,
    \* RoomRegistry
    running, record, lockKey, registered, routes, replicas, roomPatches, pod,
    terminating, lease, snapshot, lock, saved, stale, roomRequests,
    roomFaults,
    \* Matchmaker
    now, request, admittedAt, cached, refresh, fetch, offered, open, since,
    openSince, changes, listFailures,
    \* FailureScenarios
    runs, activeRuns, calls, advancing, labRequests, unswept, loads,
    activeJobId, botJobs, labFaults

Release == INSTANCE ReleaseControlProofs WITH
    Room <- RolloutRoom, Fault <- ReleaseFault, MaxFaults <- MaxReleaseFaults,
    patches <- releasePatches, stream <- releaseStream,
    faults <- releaseFaults

Rooms == INSTANCE RoomRegistryProofs WITH
    Fault <- RegistryFault, MaxFaults <- MaxRegistryFaults,
    MaxRequests <- MaxRegistryRequests,
    patches <- roomPatches, requests <- roomRequests, faults <- roomFaults

Find == INSTANCE Matchmaker WITH
    Room <- GameRoom, MaxRequests <- MaxFindRequests,
    MaxFailures <- MaxFailedCalls, failures <- listFailures

Lab == INSTANCE FailureScenariosProofs WITH
    Room <- GameRoom, Fault <- LabFault, MaxFaults <- MaxLabFaults,
    MaxRequests <- MaxLabRequests,
    requests <- labRequests, faults <- labFaults

releaseVars == <<checking, active, knownOperationIds, task, canary,
                 releasePatches, load, tag, image, activeRooms,
                 releaseStream, canaries, validated, releaseFaults>>
roomVars == <<running, record, lockKey, registered, routes, replicas,
              roomPatches, pod, terminating, lease, snapshot, lock, saved,
              stale, roomRequests, roomFaults>>
admissionVars == <<now, request, admittedAt, cached, refresh, fetch, offered,
                   open, since, openSince, changes, listFailures>>
labVars == <<runs, activeRuns, calls, advancing, labRequests, unswept, loads,
             activeJobId, botJobs, labFaults>>
allVars == <<on, vars, releaseVars, roomVars, admissionVars, labVars>>

ServicesInit ==
    /\ on \in {"events", "release", "rooms", "admission", "lab"}
    /\ Init /\ Release!Init /\ Rooms!Init /\ Find!Init /\ Lab!Init
    \* one initial state of the components that do not run
    /\ on # "release" => activeRooms = {}
    /\ on # "rooms" => replicas = {}

\* A step of the component c, which runs.
Only(c) ==
    /\ on = c
    /\ UNCHANGED on
    /\ IF c = "events" THEN TRUE ELSE UNCHANGED vars
    /\ IF c = "release" THEN TRUE ELSE UNCHANGED releaseVars
    /\ IF c = "rooms" THEN TRUE ELSE UNCHANGED roomVars
    /\ IF c = "admission" THEN TRUE ELSE UNCHANGED admissionVars
    /\ IF c = "lab" THEN TRUE ELSE UNCHANGED labVars

ServicesNext ==
    \/ Only("events") /\ Next
    \/ Only("release") /\ Release!Next
    \/ Only("rooms") /\ Rooms!Next
    \/ Only("admission") /\ Find!Next
    \/ Only("lab") /\ Lab!Next

\* What a component, while it is the one that runs, is fair to: calls that do
\* not fail (the failures are bounded) are answered or time out, timers fire,
\* and a handler goes on.  Nobody has to make a request.  A release operation,
\* and a load job, is alone, so that one condition suffices for all.
Progress ==
    \/ Only("events") /\ Relay
    \/ /\ Only("release")
       /\ \/ \E c \in checking : Release!Reserving(c)
          \/ \E op \in Operation : Release!Canary(op) \/ Release!Handoff(op)
    \/ Only("admission") /\ Find!FetchProceeds
    \/ Only("lab") /\ \E j \in DOMAIN loads : Lab!Expire(j)

Services == ServicesInit /\ [][ServicesNext]_allVars /\ WF_allVars(Progress)

----------------------------------------------------------------------------
(* The properties of the components; the invariants NothingStranded and    *)
(* EventsAreInOrder and the refinement AuthorityIsALog are those of        *)
(* OperationEvents itself.  An invariant of a component that does not run  *)
(* holds by its initial state.                                             *)

\* The type invariants.
TypesOK ==
    /\ on = "events" => TypeOK
    /\ on = "release" => Release!TypeOK
    /\ on = "rooms" => Rooms!TypeOK
    /\ on = "admission" => Find!TypeOK
    /\ on = "lab" => Lab!TypeOK

\* One release operation runs at a time (ReleaseOperationGate), and its id is
\* not that of another one, of an earlier life of the process either.
OneRelease ==
    on = "release" => Release!OneRelease /\ Release!IdNamesOneOperation

\* A live room is only given an image that a canary was found healthy with, and
\* a canary that was approved has left no bots in the canary room.
LiveIsValidated ==
    on = "release" => Release!LiveIsValidated /\ Release!ApprovedLeavesNoLoad

\* What the registry and the gateway say of the rooms is so: join locks are as
\* they were set last, the active rooms are those that run, unless a Deployment
\* was changed since, and the rooms registered with the gateway have a route.
RegistryIsTrue == on = "rooms" => Rooms!RegistryIsTrue

\* A mutation stops an active room only after having had it saved, and a deleted
\* room does not get its snapshot back from its terminating pod.
SnapshotsFollowRooms ==
    Rooms!StoppedIsSaved /\ [](on = "rooms" => Rooms!DeletedIsForgotten)

\* No more requests of one second pass the admission than its capacity, those
\* that still wait for the list of rooms included.
PassedFitCapacity == on = "admission" => Find!PassedFitCapacity

\* A request is given a room that was open a bounded time ago, and is not turned
\* away from one that has been open for that long.
ListIsRecent == Find!GivenRoomWasOpen /\ Find!OpenRoomIsFound

\* There is one storm, whose load is the one that runs; the run of a room lists
\* all its bot jobs that were answered; and a late answer does not change the
\* evidence of a load that was stopped.
LoadIsKnown ==
    /\ [](on = "lab" => Lab!OneStorm /\ Lab!RunListsItsBots)
    /\ Lab!StoppedEvidenceIsKept

\* Something that was begun has not ended: an event whose publication has been
\* answered is not with Opsia, the gate is reserved, a request waits for a room,
\* a load is not over.
Unfinished ==
    CASE on = "events" ->
            \E e \in Range(stream) \ (Range(opsia) \cup unanswered) :
                attempt = None \/ attempt.event # e
      [] on = "release" -> active # None
      [] on = "admission" -> \E r \in Find!Request :
                                request[r].step = "waiting"
      [] on = "lab" -> Lab!Alive # {}
      [] OTHER -> FALSE

\* What was begun ends, whatever fails and restarts: an event the publisher has
\* answered reaches Opsia, a gate that is reserved is freed, a request that
\* joined another's fetch is answered although that fetch fails, and a load
\* ends by its time limit ("30 minute absolute TTL stops pressure even if no
\* operator cleanup occurs", tests/unit/admission-load.test.ts:163).  The
\* requests are bounded, so that all that was begun has ended at the same time.
WorkIsDone == Unfinished ~> ~Unfinished

=============================================================================
