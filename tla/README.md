# Formal model of demo-game's planned room handoff

demo-game runs five rooms of a real browser game (survev) on Kubernetes and
replaces the game server of one room after another while its players stay
connected. This directory holds TLA+ models of the code that makes such a
replacement safe and of the services around it, the TLC runs that check them on
small instances, and proofs that TLAPS checks for every value of the constants.

All paths below are relative to the repository. `opsia/` is
`upstream-survev/server/src/opsia/`, `game/` is
`upstream-survev/server/src/game/`, `orchestrator/` is
`services/room-orchestrator/src/`.

## 1. The system

One room is served by one *Active* game process. A planned replacement goes:

1. The orchestrator patches the room's Deployment; a *Candidate* pod starts, finds
   the room's lease taken and restores the last checkpoint from Redis.
2. The session gateway freezes the room: it buffers the inputs of the browsers.
3. The Active saves a checkpoint, the Candidate is seeded with it until both
   report the same checksum.
4. The Active releases its lease at its final checkpoint, the Candidate is seeded
   once more and promoted to the next *epoch*.
5. The gateway cuts over: it prepares a second upstream connection for every
   session, swaps the room's route to the new epoch, and replays the inputs that
   are not acknowledged.
6. The orchestrator verifies the sessions' continuity, has the gateway finalize,
   and deletes the old pod. A failure on the way is rolled back.

### Inventory

| component (source) | state it keeps | operations | talks to | hard behaviour | what makes it correct |
|---|---|---|---|---|---|
| Snapshot writer (`opsia/snapshot.ts`) | write in flight, pending checkpoint, waiting callers, failure count, circuit, last checksum | request, run, late settlement, flush, circuit | Redis through the room authority | a deadline that the command outlives, coalescing, late settlement | single flight; a caller is told the truth about its own checkpoint; stored snapshots never get older |
| Room authority (`opsia/runtime.ts` from the class `OpsiaSnapshotStore`) | role, epoch, lease timer, takeover timer, candidate status, last journalled envelope | start, load, save, seed, release, promote, takeover, reset, stop | Redis (lease, snapshot, journal), the snapshot writer, the game process | races for the lease, a stalled owner, awaits in the middle of a change of role | one leased authority; fenced writes; a release that the successor can be seeded with |
| Journal (`opsia/journal.ts`), candidate loader (`opsia/candidate.ts`) | stream cursor, replayed envelope | append, read after, clear; load, seed, catch up | Redis | trimmed stream, gaps, deltas on another base | the replay ends at the target or blocks |
| Game process (`game/gameProcess.ts`) | sockets, `opsiaReady`, last sequence of each session | input, attach, close, reset, graceful exit | the room authority, gateway connections | a seed that ends after a promotion | a connected player's game is not replaced; an input is processed once |
| Session gateway (`opsia/sessionGateway.ts`, `sessionGatewayProtocol.ts`) | per session: downstream, current and prepared upstream, unacknowledged and rollback inputs, frozen; per room: route, preparation, verification, cutover records | receive, acknowledge, freeze, abort, prepare, cutover, finalize, register, reconcile, join | browsers, game processes, orchestrator | an await of every session's preparation, its timer, several operations, full buffers | inputs in order, once, none lost; sessions on the route; a route that only moves forward |
| Handoff coordinator and driver (`orchestrator/handoff.ts`, `handoff-driver.ts`) | the context of each room's handoff | the ten stages, catch, rollback, discard | Kubernetes, game processes, gateway, event outbox | lost answers, late effects, restarts, Kubernetes acting meanwhile | the serving pod is kept; the route leads to the Active; reports are true |
| Release control, canary, waves (`release-control.ts`, `canary*.ts`, `kubernetes-canary.ts`) | the gate's reservation, known ids, the canary's pod and load, sealed evidence | reserve, validate a canary, seal, approve, hand off rooms in waves, abort | Kubernetes, bots, coordinator, event stream | check and reservation around an await; tags pushed again; late patches; publishes that fail half-way; restarts | one release operation at a time; a live room only gets an image that a canary has validated |
| Operation events (`orchestrator/events.ts`) | publish tail, sequence and tail per operation, outbox, retry timer; the Redis stream | publish, persist, relay, replay, cursor reads | Redis, Opsia, listeners | lost answers, an entry that comes as a drain ends, crash between persist and relay | one log, upwards for each operation, which nobody is ahead of, and which Opsia and the readers follow in order |
| Registry, reconciler, scaler (`registry.ts`, `recovery.ts`, `scaler.ts`) | room records, join-lock keys, registered gateway rooms | list, scale, create, start, stop, delete, lock, patch, fail, reconcile | Redis, Kubernetes, gateway, pods | partial scaling, late patches, removal while a pod terminates, restarts | records follow the fleet; a stopped room is saved first; a deleted one is forgotten |
| Orchestrator HTTP service (`orchestrator/main.ts`) | the mutation queue, the running operations | routes | all of the above | status after a restart | |
| Matchmaker (`services/api-server/src/matchmaker.ts`) | admission window, cached list, shared fetch | find a game, list rooms | orchestrator, pods | a count taken before an await, stale list, shared failure | capacity holds; a room that is given was open lately |
| Admission load, failure scenarios (`services/ops-console/src/`) | a run per room, surges being advanced, the load jobs | start, recover, stop, getState | api server, orchestrator, game pods, bot runner | handlers that put back the run they began with; late answers; safety timeout | one storm, whose load is known; the run of a room lists its bot jobs |
| Bot runner (`opsia/botRunner.ts`) | jobs | start, end, clean up | game pods | two starts of one room | |
| Operations console's HTTP surface, game server and process manager, authentication, gateway wire format | none or stateless | | | | covered by unit tests |
| survev engine, client, API | upstream game | | | | not this project's own logic |

The orchestrator publishes through the events, reserves releases in the gate and
hands rooms off through the coordinator; admission and the failure scenarios read
what the registry says of the rooms.

`PROJECT.json` lists every component with its sources and status, and the hazards
of the code, each at its line, with the properties that would catch it.

## 2. The modules

| module | models | lines of code it stands for |
|---|---|---|
| `SnapshotWriter` | `BoundedSnapshotWriter` with its callers and Redis | `opsia/snapshot.ts:342-569` |
| `FencedStore` | what the room's Redis keys promise: the abstract specification | the Lua scripts of `opsia/runtime.ts:549-556`, `journal.ts` |
| `RoomAuthority` | several processes of one room, the lease, snapshot and journal; refines `FencedStore` | `opsia/runtime.ts:2004-2618`, `candidate.ts`, parts of `journal.ts`, `gameProcess.ts` |
| `SessionGateway` | one room's sessions, buffers, preparations, cutovers, verification, rollback replay | `opsia/sessionGateway.ts:251-1006`, buffer and route of `sessionGatewayProtocol.ts` |
| `RoomHandoff` | the orchestrator's program for one room, with its catch and rollback, against processes, gateway and Kubernetes | `orchestrator/handoff.ts:144-441`, `handoff-driver.ts:200-1067` |
| `EventLog` | what the events promise: the abstract specification | `orchestrator/events.ts`, `main.ts:875-881` |
| `OperationEvents` | publisher, outbox, stream, relay, cursor readers; refines `EventLog` | `orchestrator/events.ts:72-491` |
| `ReleaseControl` | the gate, a canary's validation, approval, handoffs of rooms | `release-control.ts`, `canary.ts:885-1560`, `canary-rollout.ts`, `kubernetes-canary.ts`, routes of `main.ts:359-741` |
| `RoomRegistry` | rooms' mutations, scaling, reconciling, the gateway's routes, the pods' leases and snapshots | `registry.ts`, `scaler.ts`, `main.ts:234-350`, `639-676`, `780-892` |
| `Matchmaker` | admission and the room directory | `services/api-server/src/matchmaker.ts` |
| `FailureScenarios` | runs of scenarios, the load of a storm, the jobs of bots | `failure-scenarios.ts`, `admission-load.ts`, `opsia/botRunner.ts:569-846` |
| `Services` | the last five, side by side, as one specification | |
| `SnapshotWriterProofs`, `RoomAuthorityProofs`, `SessionGatewayProofs`, `RoomHandoffProofs`, `ReleaseControlProofs`, `RoomRegistryProofs`, `FailureScenariosProofs` | theorems about the module of that name | |
| `ServicesProofs` | theorems about `OperationEvents`, `Matchmaker` and `Services` | |
| `MCRoomAuthority` | instances for TLC (roles, symmetry) | |

Each layer abstracts the one below. `SnapshotWriter` treats a game as a version
number. `RoomAuthority` has the writer as one write in flight and the game as the
set of inputs processed. `SessionGateway` sees of the processes which inputs they
have processed and in which epoch they are Active. `RoomHandoff` sees of a process
what `handoffStatus` reports of it, and of the gateway the records that its status
routes show. The abstractions are stated in the module headers. Two refinements
are checked, and proved: `RoomAuthority` implements `FencedStore`, and
`OperationEvents` implements `EventLog`. `ReleaseControl` has the handoff of one
room as one step (`RoomHandoff` takes it apart) and a publish as a step that
stores the event, is refused, or loses its answer (`OperationEvents` takes it
apart); `RoomRegistry` has of a pod its lease and its last snapshot
(`RoomAuthority`).

### SnapshotWriter

`writing` and `pending` are the callers of the checkpoint in flight and of the
coalesced one, `redis` the commands that Redis has not settled, `health` the
failure count and the circuit. `Request`, `RequestRefused` and `RequestTooLarge`
are the ways `request` can go (`Join`, `StartPending` and `RunPending` are its
branches and those of the `run` loop), `Timeout` is the deadline timer, `Apply`
Redis executing the command, `SettleSaved`, `SettleFailed` and `SettleLate` its
promise settling before or after the deadline, `CoolDown` the end of the circuit's
cooldown, `Advance` a tick of the live game.

### RoomAuthority

An element of `Process` is one `OpsiaSnapshotStore`: its lease owner is fresh, so
a restarted process is another element. `role` also names the awaits in the middle
of an operation (`loading`, `joining`, `flushing`, `resetting`, ...), so that
other processes and late seeds run in between. The awaits of a Candidate that has
sent for the lease are state of it: `promotion` keeps the request of
`promoteCandidate`, `takeover` the status that `recoverAbandonedLease` goes on
with, and both may be pending at once; `TakeoverBegins` and `PromoteBegins` send
the SET, `TakesOver`, `TakeoverFails`, `Promote` and `PromoteFails` are its
execution and what follows. Redis executes one command per
step, in the order in which a process has sent them. `term` counts the grants of
the lease; it is in no key and only states what fencing means.

### SessionGateway

One JavaScript event is one step; what runs after an `await` of `Promise.all` is a
step of its own, before which (`Settled`) no other event that the code could not
admit is taken. `Prepare(t)` is one connection being prepared, `Cutover(o)` the
continuation of `cutoverRoom`. The orchestrator (`Orchestrator(o)`) freezes,
saves, moves the authority, cuts over, aborts, finalizes and supersedes in the
order of `handoff-driver.ts`; it cuts over only with the proof that it moved the
authority itself (`HasProof`). `transfer` and `left` are history: a transfer of
the authority leaves behind (`LeftBehind`) what the Active has processed since its
last checkpoint (`Unsaved`), and what it was still being sent again although a
former Active had acknowledged it (`Resent`); nothing of a session whose cutover is
being verified, since the gateway has retained that. The game processes
deduplicate inputs as `gameProcess.ts` does.

### RoomHandoff

The program is sequential; `at` names its next request. A request takes effect in
one step, and between two requests the environment acts. A request may be refused,
or its answer lost; it then throws, and `Recovery` says where the coordinator's
`catch` goes. What the driver retries or rereads (the rounds of seeds, the
release's checksum conflict, the record of a cutover) is modelled as it does.
Rollback, abort and discard are requests of the same kind. A patch of a pod's
labels and a published event change nothing that the model has; failing at one is
failing at the next request. A branch that only a route moved by somebody else
could reach (the abort inside a rollback that goes on to cut over, lines 624-627)
is left out and said so at its place.

### OperationEvents

`queue` is the promise chain `publishTail`, `attempt` the `XADD` under way and
whether Redis has accepted it, `sequenceByOperation` and `tailByOperation` the
maps of the publisher, `pending`, `relay` and `timer` the outbox. `Begin` and
`Abandon` take and give back an operation's id as the release gate does.
`Persisted` and `PersistFails` are the two ends of a publish; `PersistFails` after
`Accepted` is an answer that was lost (`unanswered`). `RelayConfirmed`,
`RelayFails`, `DrainEnds` and `TimerFires` are the awaits of `drain()` and what
follows it. `Restart` keeps the stream and replays it into the outbox. `ReadPage`
is a reader that goes on from the cursor it was given.

### ReleaseControl

`checking` are the reservations between the check of the stored events and its
answer, `active` the reservation that holds the gate. `task[op].step` names the
await at which the handler of an operation is; `Canary(op)` and `Handoff(op)` are
its steps. `canary` is the canary Deployment with the digest its pod runs, `tag`
what a revision's tag points to by now, `stream` the stored events (with one
number per revision and push for a digest). What the SLO gates compute from
samples is a choice (`HealthyPoll`, `FailedPoll`). `ApprovedDigests` is
`sealedCanaryApprovalForRevision` read from the stream.

### RoomRegistry

`running` is the mutation that `serializeMutation` lets run, with what it has
read; each of its awaits is a step: it saves the rooms to be stopped, patches the
Deployments in any order, observes them, registers rooms with the gateway, writes
the records, or writes one record back. `LatePatch` is a patch that was under way
when `Promise.all` had already rejected. `stale` is history: a Deployment has
changed since it was read. `Terminates`, `PodAcquires`, `PodSaves` and `PodIsGone`
are the pods.

### Matchmaker

`request[q]` is a call of `findGame`, `admittedAt` the window, `refresh` the fetch
that later calls join, `fetch` its two parts with their timeouts, `cached` the
list. `Answers` is the choice after the await. The rooms change at any time
(`RoomChanges`), as somebody else plays, locks and stops them; `since` and
`openSince` are history.

### FailureScenarios

`runs` are the `MutableRun` objects, `activeRuns` the console's map from a room to
its run, `calls` the handlers that await something. A handler keeps its run across
the await and puts it back (`Started`, `Advanced`), whoever has removed it
meanwhile. `unswept` are the calls of `getState` that have yet to remove failed
runs. `loads` and `activeJobId` are `AdmissionLoadController`, `botJobs` the jobs
of the bot runner; a start is accepted if no job of the room is *known* to run,
since the runner awaits the room's summary in between.

### Services

The five services share no variable. A behaviour of `Services` is one of a single
component, the one `on` names, while the others keep their initial state: TLC
explores the sum of their state spaces, and not the product. It therefore shows
nothing of how the services act on one another. That nothing is lost otherwise is
proved: `Services` implements the specification of each of its components.

Each component's constants are constants of `Services` (`ServicesAssumption` is
what the proofs ask of them, and TLC evaluates it). It extends `OperationEvents`;
the instances of the release control, of the registry and of the scenarios are
instances of the modules with their proofs, which extend the models, so that
`ServicesProofs` can cite their theorems.

## 3. The runs

Run one with `tlc -workers 2 -config <cfg> <module>`.

| run (configuration) | what it shows | properties |
|---|---|---|
| `snapshot_writer` (`SnapshotWriter.cfg`) | callers are told the truth about their own checkpoint, a late settlement neither regresses the snapshot nor strands a caller, the circuit holds | `TypeOK`, `SavedIsDurable`, `PendingHasRunner`, `StoredNeverRegresses`, `NoWriteWhileCooling`, `HandoffResumesOnStoredChecksum`, `EveryCallerAnswered` |
| `writer_deadline` (`SnapshotWriterDeadline.cfg`) | violation: see Findings | `CallersReleasedAtDeadline` |
| `room_authority` (`RoomAuthority.cfg`) | two processes, deltas, a crash, a stall, an oversized delta: one leased authority, fenced writes, a release that the successor can be seeded with | `TypeOK`, `AuthorityIsLeased`, `ReleasedIsStored`, `StoreIsFenced` |
| `room_game` (`RoomAuthorityGame.cfg`) | late seeds, slow writes and lost replies, a promotion and a takeover that await the lease at once: a connected player's game is not replaced, a reset leaves nothing behind, an Active is not paused (late seeds aside), a lease abandoned by a crash is taken | `ActiveRuns`, `ConnectedGameGrows`, `ResetDiscardsGame`, `AbandonedLeaseIsTaken` |
| `gateway_inputs` (`SessionGateway.cfg`) | inputs across two changes of authority by two operations, with a closing browser, a preparation that times out, a failing connection | `TypeOK`, `AckedIsKept`, `PlaysInOrder`, `ReplayFits`, `SwapNeverConflicts` |
| `gateway_room` (`SessionGatewayRoom.cfg`) | two sessions, under every fault and with an orchestrator that may stop: cutovers that stop half-way and are asked for again leave no session behind; a frozen session resumes, unless a cutover stopped half-way or another operation froze the room under it | `SessionsFollowRoute`, `RouteIsFenced`, `FrozenResumes` |
| `gateway_downstream` (`SessionGatewayDownstream.cfg`) | violation: see Findings | `DownstreamIsKept` |
| `gateway_acked` (`SessionGatewayAcked.cfg`) | violation: see Findings | `AckedIsPlayed` |
| `room_handoff` (`RoomHandoff.cfg`) | two handoffs in a row under eight kinds of fault, each at any moment | `TypeOK`, `PreservedIsServed`, `CompletedIsReplaced`, `ServingPodIsKept`, `CutoverLandsOnActive` |
| `handoff_rollback` (`RoomHandoffRollback.cfg`) | violation: see Findings | `FailedVerificationIsRolledBack` |
| `services` (`Services.cfg`) | the five services, each under its own faults | `TypesOK`, events: `NothingStranded`, `EventsAreInOrder`, `AuthorityIsALog`; releases: `OneRelease`, `LiveIsValidated`; rooms: `RegistryIsTrue`, `SnapshotsFollowRooms`; admission: `PassedFitCapacity`, `ListIsRecent`; scenarios: `LoadIsKnown`; all: `WorkIsDone` |
| `room_removal` (`RoomRegistryRemoval.cfg`) | violation: see Findings | `RemovedAfterPod` |

### Bounds, and why they are enough

* `SnapshotWriter`: three callers put one checkpoint in flight and let two share
  the pending one. Two failures open the circuit, so that it is reached with and
  without a success in between. Three versions of the game (`MaxVersion` 2) tell
  the checkpoint in flight, the pending one and a newer one apart.
* `RoomAuthority`: two processes are the Active and its Candidate; every pod runs
  with `OPSIA_ROLE=auto`, so either may be either. `MaxTerm` 3 grants of the lease
  let an authority move there and back; the 2 of `room_game` are the grant that is
  abandoned and the one that follows it. Two epochs (three in `room_game`, where a
  takeover that overtakes a promotion skips one), a journal of two entries
  (trimmed when a third comes) and two ticks (`MaxTick`) give a base, a delta on
  it and a delta on the next base. Ticks and players' inputs together are out of
  reach, hence two runs: `room_authority` looks at the store with two ticks and no
  inputs (about 1 280 000 states), `room_game` at the game with an input and one
  tick (about 290 000). In `room_game` one of the two is pinned to be the Active
  (the default of `OPSIA_ROLE`): it gives up if the lease is taken, and the other
  is the one Candidate.
* `SessionGateway`: one session with four inputs and a buffer of two: the buffer
  fills with inputs still to come, and both of two handoffs may replay two frames;
  two operations make a handoff and its rollback, or a handoff and an intruder;
  epochs up to 3 are two changes of authority (about 241 000 states). What a third
  change could still be sent again (`Resent`) is beyond these bounds: a third epoch
  makes the run many times larger. It is covered by the proof of `AckedIsKept`,
  which holds for any epochs.
  A second session is needed for what happens between the sessions of a cutover;
  there no input is needed (about 169 000 states), since a session is only frozen,
  moved and resumed: that a cutover loses no input is what `gateway_inputs` checks,
  session by session, as sessions share no input. A room has one route and any
  two endpoints only, because the orchestrator alternates the old and the new pod.
* `RoomHandoff`: two handoffs in a row show what the first leaves for the second
  (the context, the gateway's records, the released pod). Each kind of fault
  happens at most once; with two handoffs it meets every stage of the program, its
  catch, and every other fault. One periodic save, besides those the program asks
  for, moves the checkpoint at any moment (about 1.9 million states).
* `services` (about 1 069 000 states, of which the events have 122 000, the
  releases 216 000, the rooms 430 000, admission 238 000, the scenarios 64 000):
  * events: two operations with three events between them, pages of one event (a
    reader always has a next page), two failures (one of the publisher and one of
    the relay, or two of one) and one restart;
  * releases: two operations of any kind, two revisions, two rooms, one
    observation per phase of a canary, and one kind of fault per behaviour out of
    seven. Two pushes of a tag tell an approved digest from what the tag points
    to;
  * rooms: two rooms, one of which the gateway knows by configuration, starting
    from a fleet of zero, one or two; three mutations of any kind, one kind of
    fault out of six. A third mutation is what finds the registry as the second
    has left it after a fault in the first;
  * admission: two requests and a capacity of one, a second of two ticks, a cache
    and timeouts of one tick, two rooms that change once, one failing call. Four
    ticks let a list expire after a change and be fetched anew;
  * scenarios: two rooms, three requests, a scenario of each kind that runs
    differently (a surge, bots without a surge, a storm, a plain call), two jobs
    of a surge, one kind of fault out of five. `admission-lock` and `pod-failure`
    take the steps of `process-crash`.

`CHECK_DEADLOCK FALSE` stands where a bound or an orchestrator with no more to do
stops the system; `snapshot_writer` checks deadlock.

## 4. Fairness

Only liveness properties assume any.

* `SnapshotWriter`: `TimerFairSpec` is the process's own deadline timer
  (`WF_vars(Timeout)`): Node fires a due timer as long as the process lives.
  `FairSpec` adds that Redis settles a command: it replies, or the client rejects
  it when its connection breaks. `writer_deadline` drops exactly that, since the
  deadline exists for a Redis that does not settle.
* `RoomAuthority`: Redis answers what was sent (start, load, write, release,
  reset, stop, and the SET of a takeover or a promotion), a lease's TTL runs out,
  the refresh and takeover timers fire. Weak fairness is enough: each of these
  stays enabled until taken or overtaken.
  Players and orchestrators are not obliged to do anything, so
  `AbandonedLeaseIsTaken` does not rest on them.
* `SessionGateway`: the preparation's timer fires, a connection being prepared
  answers, fails or is timed out, and the continuation of an `await` runs.
  Browsers and orchestrators may stop, so `FrozenResumes` holds with an
  orchestrator that died after the freeze. It leaves out a cutover that stopped
  half-way (`Halfway`) and a freeze while another operation's cutover is still
  awaited (`Overtaken`): in both the code leaves sessions frozen for ever, and TLC
  shows it when either exemption is dropped.
* `Services`: `WF_allVars(Progress)`, one condition over the component that
  runs. `Progress` are the steps of the program that need nobody's request: the
  relay goes on and its timer fires, a reservation's check is answered, the
  handler of a release operation goes on after each await (every request it makes
  has a timeout), a fetch of the list goes on, and the TTL of a load expires
  (`admission-load.ts:229-240`). Failures are bounded, as in every run. One
  condition is enough because what waits is alone: the gate admits one release
  operation, the console one load; and the steps of the relay, and of fetches,
  follow one another. Nobody is obliged to make a request, to recover a scenario
  or to poll the console.
* `RoomRegistry`: none of its own; its properties are safety properties.
* `RoomHandoff`: none; every property is a safety property. (`outcome` is judged
  when the program has come to rest.)

## 5. What is proved

`tlapm <module>` checks eight modules:

| module | obligations | assumptions on the constants |
|---|---|---|
| `SnapshotWriterProofs` | 500 | `ThresholdAssumption`, `MaxVersionAssumption` |
| `RoomAuthorityProofs` | 1048 | `RoleAssumption`, `EpochAssumption`, `BoundAssumption`, `FaultAssumption`, `NoneAssumption` |
| `SessionGatewayProofs` | 5886 | `HomeAssumption`, `BoundAssumption`, `FaultAssumption`, `NoneAssumption` |
| `RoomHandoffProofs` | 3101 | `BoundAssumption`, `FaultAssumption`, `NoneAssumption` |
| `ReleaseControlProofs` | 863 | `None` is no operation; for `LiveIsValidatedAlways` also `MaxPolls \in Nat \ {0}`; for `TypeOKAlways` also `RoomsAreOrdinals`: the rooms are numbered from 1 on |
| `RoomRegistryProofs` | 1366 | `NoneAssumption`; for the theorems about stopped and deleted rooms also `MaxRooms \in Nat`; for `TypeOKAlways` also `BoundsAssumption`: the gateway's default rooms are rooms of the fleet, and the bound on requests is a number |
| `FailureScenariosProofs` | 1939 | `MaxRequests \in Nat` |
| `ServicesProofs` | 2055 | operation events: `NoneAssumption`, `BoundsAssumption`; admission: `FindSizes`, the bounds, capacity and timeouts are natural numbers; the services together: `ServicesAssumption`, from which the hypotheses of the components' theorems follow |

Nothing else is assumed. The assumptions that have a name with `Assumption` are
named ASSUMEs of the models, which TLC evaluates in every run, but for those of
`RoomRegistryProofs`, which are hypotheses of the theorems like the others. The
sets of callers, processes, sessions, endpoints, operations, revisions and kinds of
faults are arbitrary, also infinite, and so are the rooms of the admission and of
the scenarios; the bounds are arbitrary numbers. TLC has checked the largest
inductive invariants, `Inv` of `RoomHandoff`, `FollowInv` of `SessionGateway` and
`IInv` of `FailureScenarios`, on instances like those of the runs before they were
proved.

**`SnapshotWriterProofs`**: `TypeOKAlways`, `SavedIsDurableAlways`,
`PendingHasRunnerAlways`, `StoredNeverRegressesAlways`, `NoWriteWhileCoolingAlways`,
`HandoffResumesAlways`. The invariant is

    IInv == TypeOK /\ SingleFlight /\ WaitersDisjoint /\ FreshWrite /\ SavedIsDurable

`SavedIsDurable` is not inductive. Settling a write answers its callers with
`saved`, and what they find in Redis is as recent as their question only because
no other command can have been executed in between (`SingleFlight`: at most one
command is unsettled, also after its deadline), because the command's version is
at least what each of its callers asked for and what is stored (`FreshWrite`), and
because a caller is never in both queues (`WaitersDisjoint`). `PendingHasRunner`
is a part of `SingleFlight`; `StoredNeverRegresses` follows from `FreshWrite`. The
two properties of the circuit are about every place where a command may start:
`RunPendingStarts` says what the end of a write does to the health record and to
the commands; and that half-opening the circuit does not bring a handoff back
needs `OpenHasFailed` (an open circuit has reached the threshold of failures).

**`RoomAuthorityProofs`**: `TypeOKAlways`, `AuthorityIsLeasedAlways`,
`ConnectedGameGrowsAlways`, `StoreIsFencedAlways` (the refinement of
`FencedStore`), `ActiveRunsAlways`, `ResetDiscardsGameAlways`,
`ReleasedIsStoredAlways`. The invariant of the first four is

    IInv == TypeOK /\ AppendHasBase /\ HolderIsGranted /\ LoaderHasNoPlayer /\ AuthorityIsLeased

`AppendHasBase` (a delta is sent by a writer that has a base) is needed for the
type of what is appended. `HolderIsGranted` (the holder's last grant is the
current term) makes a fenced write carry the current term, which is what
`FencedStore` asks. `LoaderHasNoPlayer` (nobody is connected to a process that has
not loaded its game) is why loading and seeding replace no connected player's
game. `AuthorityIsLeased` is inductive with these: a process leaves the roles of
an authority before its lease can go to another, unless it stalls. For
`StoreIsFencedAlways` the initial states map to initial states and each step of a
process to a step of `FencedStore` or a stutter; one lemma treats the steps that
write (`Saving`), one all the others.

`ActiveRuns` needs that a Candidate which calls itself ready already runs its game
loop, and goes on while it awaits the lease to take over (`Runs`); a promotion sets
`opsiaReady` itself. It leaves out what the code does in two orders: a seed that
ends blocked after the process has been promoted, or between a takeover's SET and
its answer, pauses the Active (`gameProcess.ts:75`), and nothing resumes it. `ResetDiscardsGame` needs that a reset has nothing under way that
could store the old game again (`ResettingIsIdle`). `ReleasedIsStored` relates
what a process remembers to what Redis has: unless one of three faults has made
Redis know something that the writer was not told (`Untold`: a stall, a slow write,
a lost reply), the snapshot of the present term is the last one that its writer
has saved, or the base of the delta that it is appending (`StoredIsSaved`). That is inductive
because a term is granted once (`GrantsAreTerms`), so that nobody else's snapshot
carries it; because only somebody in the role of an authority holds the lease
(`LeaseIsHeld`); and because a release begins when no seed is under way
(`ReleasingReadsNothing`).

**`SessionGatewayProofs`**: `TypeOKAlways`, `ReplayFitsAlways`,
`SwapNeverConflictsAlways`, `RouteIsFencedAlways`, `AckedIsKeptAlways`,
`PlaysInOrderAlways`, `SessionsFollowRouteAlways`. There are three layers.

* `Base` is what is true of each part: each session is `Sound` (what it has
  retained and what is not acknowledged fit in the buffer together, and a
  connection has something in transit only if it is open), at most one process is
  Active, on the route or one epoch ahead of it (`Authority`), and a cutover that
  waits for its sessions is of who has moved the authority ahead of the route, to
  the process that it asks for (`Cuts`). This gives the type invariant,
  `ReplayFits`, `SwapNeverConflicts` and `RouteIsFenced`.
* `Kept` is what becomes of a session's inputs. A session whose connection is to
  the Active has sent, or will send from its buffer, whatever the Active does not
  know (`SendsDue`, `SendsAll`); a session that is being verified has retained
  whatever the process that the authority may go to will not know, and one that
  is connected to nobody's authority has nothing acknowledged that this process
  does not know (`Retains`). What is on the wire has no hole before it but what the
  process knows (`Covered`), so that the process's rule to take every larger
  number skips nothing (`Gapless`). No connection is ahead of the route
  (`Follows`), and a cutover meets the sessions that it has selected at an epoch
  before its own, or already adopted (`Selects`).
* `FollowInv` is what keeps the sessions together, as long as no preparation times
  out under its cutover. Either a cutover has been interrupted by the end of one of
  its sessions (`Interrupted`, which stays: it cannot be asked for again), or every
  connection is to the route, every frozen session is one of the preparation
  (`OnItsRoute`), a cutover that waits has all live sessions prepared or being
  prepared for its route (`Prepares`), and a cutover that failed leaves its
  operation the mover for good (`Stuck`). The last is why no second cutover waits
  for connections while a failed one's are still being opened (`OnePrepares`).

The sequences are handled by lemmas about appending, concatenating, taking the tail
and sorting; the one induction that is needed (a finite set of sequence numbers
can be written as an increasing sequence) uses a least element
(`LeastSequence`) instead of an induction theorem.

**`RoomHandoffProofs`**: `TypeOKAlways`, `PreservedIsServedAlways`,
`CompletedIsReplacedAlways`, `ServingPodIsKeptAlways`,
`CutoverLandsOnActiveAlways`. The program is sequential, so its invariant says for
each of its requests what is true before it is made:

    Inv == /\ TypeOK
           /\ OneActive /\ PodsInOrder /\ OldServes /\ CandidateLeads /\ Seeded
           /\ Epochs /\ Vacant /\ Misled /\ Lates /\ Records /\ Continuity

`OldServes` and `CandidateLeads` name the Active and the route at each request:
the old pod up to the release of its authority and again once a rollback has taken
it back, the Candidate in between. The rest is what the environment could spoil.
While the lease is free, only the pod of the present template may take it over, at
an epoch that no other endpoint was routed to (`Vacant`). A restarted Active is
back at the first epoch; a route of that epoch that leads elsewhere is one that the
template's pod still waits to replace (`Misled`). A cutover whose caller has given
up either comes too late for the compare-and-swap, or leads to who is the Active
now (`Lates`): that is what makes a swap that takes effect at any later moment
harmless. `Continuity` says that a session that ends during a handoff is remembered
by the verification, so that a completed handoff has lost none.

**`ReleaseControlProofs`**: `OneReleaseAlways`, `LiveIsValidatedAlways`,
`TypeOKAlways`. The
invariants are

    IInv == CheckingIsTyped /\ OneRelease /\ IsStream /\ EntriesAreOfTheTask /\ IdNamesOneOperation
    LiveInv == LiveIsValidated /\ ApprovalsHold /\ BundlesEnd /\ \A op : Known(op)   (and a domain)

`EntriesAreOfTheTask` (the stored events of an operation that runs are its own) is
why an id names one operation; it needs `OneRelease`, since only the holder of the
gate publishes. `LiveIsValidated` follows what an operation knows of a digest from
the canary's readiness over the polls and the approval that is stored, through
lost answers and restarts, to the handoff that reads it back (`Known`,
`ApprovalsHold`); `BundlesEnd` is why a sealed approval cannot be followed by
anything that takes it back. For the types (`TypeInv`), the rooms that run are the
first ones, whatever is started and stopped; that is why the rooms that a rollout
captures can be put in the order of their ordinals (`CapturedIsTyped`).

**`RoomRegistryProofs`**: `RegistryIsTrueAlways`, `StoppedIsSavedAlways`,
`DeletedIsForgottenAlways`, `TypeOKAlways`. The invariants are

    IInv == Typed /\ Serial /\ Locks /\ Follows /\ RegisteredIsRouted
    SafeInv == SavedFirst /\ Tracked /\ Forgotten /\ PodsRun

`Serial` (at most one mutation runs, and the record it has read is still the
record) makes a write-back safe for the lock (`Locks`); `Follows` says that,
unless the Deployments have changed since, the registry follows them or the
mutation at hand is about to write what it has observed of them. `SavedFirst` is
that a mutation has saved, or is about to save, what it stops, if the active rooms
have no gap. That a deleted room does not come back needs, besides the lease
(`Forgotten`), that a mutation which removes the room is one that has stopped it
(`Tracked`), which only failures of a patch or of a registration, or a change of a
Deployment from outside, prevent.

**`FailureScenariosProofs`**: `TypeOKAlways`, `OneStormAlways`,
`RunListsItsBotsAlways`, `StoppedEvidenceIsKeptAlways`. The hazard is that a
handler keeps its run across an await and then puts it back, whatever has happened
to the room meanwhile. What is proved of the bots is that the run of a room lists
them, so that a recovery which *begins* then cleans them up; a job answered to a run
that is being recovered, or was, is cleaned up by nobody (section 7, Scenarios). The invariant is

    IInv == Typed /\ StormInv /\ BotInv

`StormInv` keeps the storms and the loads together: a room's run is one of that
room, each storm names a load of its own room (`StormsHaveLoads`), at most one load
is alive (`OneLoad`) and at most one room has a storm (`OneStormRoom`). What makes
the last inductive is that no handler which puts a run back has one of a storm in
its hands, and that a call which has asks for its health only
(`OnlyHealthOfStorms`). `BotInv` is why handlers do not drop each other's bot jobs from a run: a run that
is being started has one handler and no job (`StartedOnce`), a surge is advanced by
one handler, which holds the room in `advancingBotSurges`, and only after it has a
job (`AdvancedAlone`), so that the jobs that a handler took with it when it asked
for a further one are still those of its run when the answer comes (`CallSteps`).
Most of a step's effects are shared: the lemmas are about what a step may do to the
runs, the loads and the calls (`StormsStay`, `BotsStay`, `QuietKeepsBotInv`), and each
action is shown to be of one of these kinds.

**`ServicesProofs`, the operation events**: `TypeOKAlways`, `NothingStrandedAlways`,
`EventsAreInOrderAlways`, and `AuthorityIsALogAlways`, which is the refinement
`Spec => EventLog's Spec`. The invariant has a part for each of the three actors:

    IInv == PublisherInv /\ OutboxInv /\ ReaderInv

`PublisherInv` relates the publisher's maps to the stream: the events of an
operation grow along the stream (`StreamIsOrdered`), those of an operation that
this life knows are numbered at most by its counter (`KnownIsCounted`), and the
event under way is numbered above all that are stored (`AttemptIsLast`). This
makes the log's `Accept` possible through lost answers and restarts: the gate
refuses an id of which the stream has an event, so that a counter that starts
again at zero meets no older number. `OutboxInv` says that what comes before an
entry of the outbox is Opsia's, comes before it in the outbox too, or had its
answer lost (`OutboxFollowsTheStream`), and that the outbox is at work or has a
timer. `ReaderInv` says that the events up to a cursor, which is the number of a
stored event, have been read; later ones cannot slip below it because of
`StreamIsOrdered`.

**`ServicesProofs`, the admission**: `FindTypeOKAlways`, `PassedFitCapacityAlways`,
`GivenRoomWasOpenAlways`, `OpenRoomIsFoundAlways`. Whoever has passed within the
last second is remembered as admitted (`Remembered`), which bounds any second and
not only those that begin when the window is cleaned. For a list, the invariant follows each room
from the moment at which the fetch was begun: it is now as the fetch has found it,
or has changed since that moment (`FetchIsRecent`, `CachedIsRecent`).

**`ServicesProofs`, the services together**: `ServicesImplementEach` is the
refinement of all five components by `Services`: whichever of them runs, every
component takes a step of its own or none (`StepIsOneOfEach`). `ConstantsFit`
derives the hypotheses of the components' theorems from `ServicesAssumption`. What
`services` checks then follows from the components' theorems: `TypesOKAlways`,
`OneReleaseAlways`, `LiveIsValidatedAlways`, `RegistryIsTrueAlways`,
`SnapshotsFollowRoomsAlways`, `AdmissionFitsAlways`, `ListIsRecentAlways`,
`LoadIsKnownAlways`, and, since `Services` extends `OperationEvents`,
`NothingStranded`, `EventsAreInOrder` and `AuthorityIsALog` as well.

### What is only model-checked

* Liveness under fairness (`EveryCallerAnswered`, `AbandonedLeaseIsTaken`,
  `FrozenResumes`, `WorkIsDone`) is out of the prover's reach.
* Every other property of the runs, that is, each invariant, action property and
  refinement that a passing run checks, is a theorem.
* The counterexamples of the findings are TLC's.

## 6. Findings

Five places where the code does not do what the repository says. Each is shown by
a run that TLC ends with the counterexample.

1. **`writer_deadline`** (`opsia/snapshot.ts:438`). The callers of the *pending*
   checkpoint have no deadline of their own and wait until Redis has settled the
   write that timed out. The comment at 441-443 says that callers are released at
   the configured deadline.
2. **`gateway_downstream`** (`opsia/sessionGateway.ts:426`). The close listener
   that `prepare()` attaches asks only whether its connection was ever committed,
   not whether it still is the current one (the one of `bindCurrent`, line 554,
   does). The next cutover of that session closes the connection
   (`room_epoch_fenced`), whose event ends the browser's connection. The README of
   the repository says that the gateway keeps the downstream. A handoff and its
   rollback suffice, without any fault.
3. **`gateway_acked`** (`opsia/runtime.ts:2304`). A release takes no last
   checkpoint. An input that was on its way when the room was frozen is processed
   after the last one, acknowledged at once, dropped from the gateway's buffer,
   and unknown to the promoted process. The comment at `handoff-driver.ts:789`
   says that the promoted state is exactly the state that was released.
   `AckedIsKept` and `PlaysInOrder` are what does hold, and is proved: nothing is
   lost beyond what a transfer leaves behind (`left`), which is what was processed
   in this window, or was acknowledged by a former Active and is still on its way
   to the present one; and nothing of a session whose cutover is being verified.
4. **`handoff_rollback`** (`handoff-driver.ts:608-611`). The rollback promotes the
   old process and requires that it answers with the release's checksum. A process
   that has saved before answers with its writer's last checksum
   (`runtime.ts:2250`), which is older than the cutover. The rollback throws after
   the promotion: the old pod is the Active, the route leads to the released
   Candidate. The README says that a failed verification is rolled back. The unit
   test of this path (`handoff-driver.test.ts:492`) fakes the process's answer.
5. **`room_removal`** (`orchestrator/main.ts:853`). Deleting a room removes its
   snapshot and lease as soon as the Deployment has been patched and the registry
   reconciled, while the pod still terminates and holds that lease. The comment at
   847-849 says that `registry.remove()` clears them only after the pod has been
   removed. What keeps the snapshot deleted is that the lease goes with it: the
   last checkpoint of the pod is fenced (`SnapshotsFollowRooms` holds, and its
   mutant, which leaves the lease, brings the snapshot back).

## 7. Abstractions, and what is not modelled

**`SnapshotWriter`.** A checkpoint is a version, its checksum the version. Sizes
are a choice (`RequestTooLarge`). Latency statistics are left out.

**`RoomAuthority`.** A game is the set of inputs processed and a tick; a checksum
determines its game. The lease's milliseconds are left out: it may expire at any
moment at which its owner is dead or has stalled. Each kind of fault happens at
most once, and only if it is in `Fault`. The delta's encoding is left out: a delta
fits one base; how it is computed is planned work (`SnapshotDelta`).

**`SessionGateway`.** One room. A browser sends after the game's first output, as
the client does. Output frames, latency probes and HTTP proxying change no state
of the handoff and are left out. A cutover that is asked for again waits for the
`prepare()` that an earlier call of it has left running as well, where the code
returns at once if the session has a prepared connection of that route, open or not
(`sessionGateway.ts:347-348`). Registration, reconciliation, the admission of a
join and a restart of the gateway are the next step of the plan: reconciling reads
the room's state before an await and commits after it, which is listed among the
hazards.

**`RoomHandoff`.** Requests are atomic, but for a cutover, which may take effect
after its caller has given it up (`LateSwap`). A *release* that takes effect late
(`runtime.ts:2305`) is not modelled. The Active does not crash during a handoff:
the README of the repository excludes unplanned failures from what it promises.
Image and revision checks are a refusal like any other. Pods are two: a successor
of the same template takes its predecessor's place. Waves over several rooms are
left out: the driver shares nothing between two rooms.

**`OperationEvents`.** No payloads. The stream's trimming at 10 000 entries and
the replay's page size are left out, and so is the projection of subjects to
Opsia's.

**`ReleaseControl`.** The SLO arithmetic, the isolation policy and the manifests
are a choice. A fleet that is handed off with `REQUIRE_CANARY_APPROVAL=false` is
left out: what it deploys is nobody's promise. `LiveIsValidated` is about the
default. What else a handoff publishes, of its stages, is left out.

**`RoomRegistry`.** Names, specs and player counts of a record are left out. The
reconciliation writes the records of all rooms in one step, where the code writes
them one by one (`registry.ts:173-220`); mutations are serialized, so that only a
reader, or a restart or a failed write between two of them, could tell. The
read with which `main.ts:674-676` answers 404 before the mutation is a guard of
`Request`. The single-process mode without Kubernetes is left out. After a gateway
restart `RegisteredIsRouted` is not claimed.

**`Matchmaker`.** Which open room has the fewest players is a choice; metrics and
logs are left out.

**`FailureScenarios`.** Evidence is whether samples were counted after the end of
a load. The rates are left out, as are the bots' own behaviour and population.

The following was seen while modelling and is no finding: no document says
otherwise, no state of the models tells it, or no run of its own shows it.

* Handoff. A context that survives a failed rollback blocks every later handoff of
  that room (`handoff.ts:418`). When the answer to a freeze is lost nothing is
  aborted, and the room waits for the gateway's timer (`handoff.ts:207`). A
  cutover that fails before its swap, or before the room's first swap ever, cannot
  be rolled back through the gateway (`rollback_authority_route_mismatch`,
  `handoff-driver.ts:524-541`). A takeover promotes the game that the Candidate
  joined with, not the last checkpoint (`runtime.ts:2558`). An orchestrator that
  dies between the release and the promotion leaves the room to that takeover
  (`runtime.ts:2314`).
* Authority. A seed that ends blocked after its process was promoted, or while its
  takeover awaits the lease (`runtime.ts:2550`), pauses the Active's game
  (`gameProcess.ts:75`): the fault `late_seed`, which `ActiveRuns` excludes. A
  takeover that overtakes a promotion of the same process goes on from the epoch
  that the promotion had assumed, and the promotion is answered with an error
  (`runtime.ts:2366`, `2556`).
* Gateway. A session that is opened between a cutover that stopped half-way and its
  retry is not part of the verification that the retry begins
  (`sessionGateway.ts:919`): a rollback does not replay what it has had
  acknowledged. Finalizing drops what was retained (`sessionGateway.ts:771-788`)
  while acknowledged inputs that the cutover replays may still be on their way. A
  cutover that stopped half-way and is asked for again while another operation has
  frozen the room takes that operation's preparation, and a session that is on the
  route already stays frozen (`commitPrepared` returns early,
  `sessionGateway.ts:451-455`, `950`). That needs a timeout: without one, only a
  session that has ended stops a cutover half-way, and its retry is then refused.
  The same holds of any cutover whose preparation timed out while it awaited its
  sessions: when it fails or commits, it takes the preparation with which another
  operation has frozen the room meanwhile (`sessionGateway.ts:951`, `994`), and a
  session that was opened in between stays frozen (`Overtaken`).
  `SessionsFollowRoute` leaves out what follows a timeout or a cutover that stopped
  half-way, `FrozenResumes` what follows either of these.
* Releases. The five-room wave consists of the rooms that are active when it
  begins (`main.ts:517-519`), where the repository's README (line 71) speaks of
  `room-0` to `room-4`. A canary whose load starts after its start has timed out
  leaves that load behind (`canary.ts:1057-1097`); the operation is then not
  approved. An operation that a restart interrupts is shown as running for ever,
  since its status is derived from its stored events, and that of a handoff from
  the first one only (`main.ts:753`, a page of one event).
* Events. An event whose answer was lost reaches Opsia after the next restart
  only. `GET /rooms/:id/handoff/events` filters by room after the page was cut, so
  a page may come out short or empty (`main.ts:767-782`).
* Rooms. A mutation to a number of rooms saves the rooms that it stops only if that
  number is below the number of active rooms (`main.ts:296-303`): if the active
  rooms have a gap, a room above it may be stopped unsaved. `StoppedIsSaved` claims
  that of a deletion and a stop only, when there is such a gap (`NoGap`).
  A patch that fails leaves the registry as it was until the next request
  lists the rooms (`scaler.ts:149`). A restarted gateway forgets the routes of
  rooms that the orchestrator holds as registered (`main.ts:318`) until the
  orchestrator restarts.
* Admission. A request that ends without a room, or without a list, has used its
  share of the capacity (`matchmaker.ts:186`).
* Scenarios. `recover()` cleans up the bot jobs that a surge's run lists when it
  begins, and then removes the run (`failure-scenarios.ts:398`). A `getState()` that
  is moving the same surge on looks neither at the run's status nor at `activeRuns`:
  it still asks for a ramp job (564), whose answer goes into the run that it holds
  (566). Those bots stay in the room and no run that anybody refers to lists their
  job, although the console says that a recovery cleans up the additional bots
  (`FailureScenarioPage.tsx:89`). The model reaches this without any fault; no
  property excludes it. A surge whose start is answered after a storm of the same room has
  begun replaces the storm's run (`started()`, `failure-scenarios.ts:619`), whose
  load then runs until its time limit. The bot runner may accept two jobs of a
  room that are asked for together (`botRunner.ts:574-593`).

**Not to be modelled**: the operations console's HTTP surface, the game's server
and process manager, authentication and the wire format, which keep no state over
which actors compete, or are checked well by their unit tests; the survev engine,
client and API are not this project's own logic, though they are most of the
repository's lines.

## 8. Plan

1. `SessionGateway`: restart of the gateway, register, reconcile, admission of a
   join; reconnecting browsers.
2. `RoomHandoff`: the late release, liveness of a handoff (the context is given
   back), composition of the release's checksum with `RoomAuthority`.
3. `SnapshotDelta`: the delta of `opsia/candidate.ts` against its definition
   (applying the delta of two games to the first gives the second), as operators
   over small records.
4. Theorems: those of the extended `SessionGateway` and `RoomHandoff`.
