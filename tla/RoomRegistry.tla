---------------------------- MODULE RoomRegistry ----------------------------
(***************************************************************************)
(* The rooms of the fleet (services/room-orchestrator/src: the room routes *)
(* of main.ts, registry.ts, scaler.ts).                                    *)
(*                                                                         *)
(* Which rooms run is decided by the replicas of their Deployments; the    *)
(* registry in Redis is reconciled with them, keeps the join lock of each  *)
(* room, and is read by the next request to decide which room may be       *)
(* started, stopped or deleted.  Requests that change rooms are            *)
(* mutations, which run one after the other (serializeMutation); each is a *)
(* sequence of awaited calls, any of which can fail.                       *)
(*                                                                         *)
(* The pods are external: a Deployment of one replica has a pod, the pod   *)
(* of one that is scaled down, or that is deleted, terminates for a while, *)
(* and a pod stores snapshots as long as it holds the room's lease         *)
(* (RoomAuthority).                                                        *)
(***************************************************************************)
EXTENDS Naturals, FiniteSets, FiniteSetsExt

CONSTANTS
    MaxRooms,       \* the rooms are 0..MaxRooms-1 (MAX_ROOMS, at least 1)
    DefaultRooms,   \* the rooms that the gateway knows when it starts
    Fault,          \* what may happen, each kind once: "save", "patch",
                    \* "register", "external", "gateway", "restart"
    MaxFaults,      \* bound on the kinds that happen in one behaviour
    MaxRequests,    \* bound on the requests
    None

Room == 0..MaxRooms - 1

VARIABLES
    running,        \* the mutations that run: at most one
    record,         \* the registry: of a room, whether it is active (its
                    \* status is not "inactive") and joinLocked, or None
    lockKey,        \* room:<id>:join-lock, which admission reads
    registered,     \* registeredGatewayRooms
    routes,         \* the rooms the session gateway has a route for
    replicas,       \* the rooms whose Deployment has a replica
    patches,        \* patches that a failed scale() left under way
    pod,            \* the rooms with a running pod
    terminating,    \* the rooms with a pod that is being terminated
    lease,          \* who holds the room's lease: its "pod", an "old" one
    snapshot,       \* the rooms that have a snapshot
    lock,           \* the last join lock that was asked for and set
    saved,          \* the rooms that the running mutation has had saved
    stale,          \* the Deployments changed since they were read last, or
                    \* what was read was not put into the registry
    requests, faults

registryVars == <<record, lockKey, registered>>
podVars == <<pod, terminating, lease, snapshot>>
ghostVars == <<lock, saved, stale>>
vars == <<running, registryVars, routes, replicas, patches, podVars,
          ghostVars, requests, faults>>

Kinds == {"list", "scale", "create", "start", "stop", "delete", "lock",
          "spec", "failure"}
Steps == {"read", "save", "patch", "register", "reconcile", "write", "kill",
          "remove"}

TypeOK ==
    /\ \A m \in running : m.kind \in Kinds /\ m.step \in Steps
    /\ \A r \in Room : record[r] = None \/
                       record[r] \in [active : BOOLEAN, locked : BOOLEAN]
    /\ lockKey \in [Room -> BOOLEAN \cup {None}]
    /\ registered \subseteq Room /\ routes \subseteq Room
    /\ replicas \subseteq Room
    /\ pod \subseteq Room /\ terminating \subseteq Room
    /\ lease \in [Room -> {None, "pod", "old"}]
    /\ snapshot \subseteq Room
    /\ lock \in [Room -> BOOLEAN]
    /\ requests \in 0..MaxRequests
    /\ faults \subseteq Fault

\* The orchestrator has started on a fleet whose first n rooms run.
Init ==
    /\ running = {}
    /\ \E n \in 0..MaxRooms :
          /\ replicas = {r \in Room : r < n}
          /\ record = [r \in Room |-> [active |-> r < n, locked |-> FALSE]]
          /\ pod = replicas
          /\ lease = [r \in Room |-> IF r < n THEN "pod" ELSE None]
          /\ registered = replicas
          /\ routes = DefaultRooms \cup replicas
    /\ lockKey = [r \in Room |-> FALSE]
    /\ patches = {}
    /\ terminating = {}
    /\ snapshot = {}
    /\ lock = [r \in Room |-> FALSE]
    /\ saved = {}
    /\ stale = FALSE
    /\ requests = 0
    /\ faults = {}

Occurs(kind) ==
    /\ kind \in Fault \ faults
    /\ Cardinality(faults) < MaxFaults
    /\ faults' = faults \cup {kind}

----------------------------------------------------------------------------
(* The pods, which are external.                                           *)

\* The pod of a room, if it has one, is told to terminate.
Terminates(r) ==
    /\ pod' = pod \ {r}
    /\ terminating' = IF r \in pod THEN terminating \cup {r} ELSE terminating
    /\ lease' = IF lease[r] = "pod" THEN [lease EXCEPT ![r] = "old"] ELSE lease
    /\ UNCHANGED snapshot

\* A Deployment is given n replicas, 0 or 1.
SetReplicas(r, n) ==
    IF n = 1 THEN replicas' = replicas \cup {r} /\ UNCHANGED podVars
             ELSE replicas' = replicas \ {r} /\ Terminates(r)

PodStarts(r) ==
    /\ r \in replicas \ pod
    /\ pod' = pod \cup {r}
    /\ UNCHANGED <<running, registryVars, routes, replicas, patches,
                   terminating, lease, snapshot, ghostVars, requests, faults>>

PodAcquires(r) ==
    /\ r \in pod
    /\ lease[r] = None
    /\ lease' = [lease EXCEPT ![r] = "pod"]
    /\ UNCHANGED <<running, registryVars, routes, replicas, patches, pod,
                   terminating, snapshot, ghostVars, requests, faults>>

\* A checkpoint; of a pod that terminates, the last one.
PodSaves(r) ==
    /\ lease[r] # None
    /\ r \notin snapshot
    /\ snapshot' = snapshot \cup {r}
    /\ UNCHANGED <<running, registryVars, routes, replicas, patches, pod,
                   terminating, lease, ghostVars, requests, faults>>

PodIsGone(r) ==
    /\ r \in terminating
    /\ terminating' = terminating \ {r}
    /\ lease' = IF lease[r] = "old" THEN [lease EXCEPT ![r] = None] ELSE lease
    /\ UNCHANGED <<running, registryVars, routes, replicas, patches, pod,
                   snapshot, ghostVars, requests, faults>>

----------------------------------------------------------------------------
(* Requests.                                                               *)

Exists(r) == record[r] # None

\* activeRooms(await registry.list())
Active == {r \in Room : Exists(r) /\ record[r].active}

\* serializeMutation: the mutation before has ended.
MayRun == running = {}

Mutation(kind, r, arg) ==
    [kind |-> kind, room |-> r, arg |-> arg, step |-> "read", target |-> 0,
     rooms |-> {}, view |-> None]

Request(kind, r, arg) ==
    /\ MayRun
    /\ requests < MaxRequests
    /\ kind \notin {"list", "scale", "create"} => Exists(r)
    /\ running' = running \cup {Mutation(kind, r, arg)}
    /\ requests' = requests + 1
    /\ UNCHANGED <<registryVars, routes, replicas, patches, podVars,
                   ghostVars, faults>>

\* m goes on as n, or ends.
Becomes(m, n) == running' = (running \ {m}) \cup {n}
Ends(m) == running' = running \ {m}

\* The mutations that may not be made.
Forbidden(m) ==
    LET r == m.room
        highest == Active # {} /\ r = Max(Active)
    IN  CASE m.kind = "create" -> Cardinality(Active) >= MaxRooms
          [] m.kind = "start" -> \/ ~Exists(r)
                                 \/ record[r].active
                                 \/ r # Cardinality(Active)
          [] m.kind = "stop" -> ~Exists(r) \/ ~highest
          [] m.kind = "delete" -> ~Exists(r) \/ (record[r].active /\ ~highest)
          [] m.kind = "failure" -> ~Exists(r) \/ ~record[r].active
          [] m.kind \in {"lock", "spec"} -> ~Exists(r)
          [] OTHER -> FALSE

Rejected(m) ==
    /\ m.step = "read"
    /\ Forbidden(m)
    /\ Ends(m)
    /\ UNCHANGED <<registryVars, routes, replicas, patches, podVars,
                   ghostVars, requests, faults>>

\* The replicas that a mutation scales the fleet to.
Target(m) ==
    CASE m.kind = "scale" -> m.arg
      [] m.kind \in {"create", "start"} -> Cardinality(Active) + 1
      [] OTHER -> m.room

\* The active rooms that it is to have saved before it stops them: none, if there
\* are to be at least as many rooms as there are.
Stopping(m) ==
    CASE m.kind = "scale" -> {r \in Active : /\ m.arg < Cardinality(Active)
                                             /\ r >= m.arg}
      [] m.kind = "stop" -> {m.room}
      [] m.kind = "delete" -> {m.room} \cap Active
      [] OTHER -> {}

FirstStep(m) ==
    CASE m.kind = "list" -> "register"
      [] m.kind \in {"lock", "spec"} -> "write"
      [] m.kind = "failure" -> "kill"
      [] m.kind = "delete" /\ ~record[m.room].active -> "remove"
      [] OTHER -> "save"

\* The mutation reads the registry, and decides.
Read(m) ==
    /\ m.step = "read"
    /\ ~Forbidden(m)
    /\ Becomes(m, [m EXCEPT !.step = FirstStep(m), !.target = Target(m),
                            !.rooms = IF m.kind = "list" THEN replicas
                                      ELSE Stopping(m),
                            !.view = IF m.kind \in {"lock", "spec", "failure"}
                                     THEN record[m.room] ELSE None])
    /\ saved' = {}
    /\ stale' = (stale /\ m.kind # "list")
    /\ UNCHANGED <<registryVars, routes, replicas, patches, podVars, lock,
                   requests, faults>>

----------------------------------------------------------------------------
(* Saving, scaling and reconciling.                                        *)

\* POST /ops/snapshot/save to the pod of a room that will be stopped.
Save(m) ==
    /\ m.step = "save"
    /\ \E r \in m.rooms :
          /\ r \in pod
          /\ lease[r] = "pod"
          /\ snapshot' = snapshot \cup {r}
          /\ saved' = saved \cup {r}
          /\ Becomes(m, [m EXCEPT !.rooms = @ \ {r}])
    /\ UNCHANGED <<registryVars, routes, replicas, patches, pod, terminating,
                   lease, lock, stale, requests, faults>>

\* A pod that cannot save, or a call that fails: nothing is stopped.
SaveFails(m) ==
    /\ m.step = "save"
    /\ \E r \in m.rooms :
          \/ (r \notin pod \/ lease[r] # "pod") /\ UNCHANGED faults
          \/ Occurs("save")
    /\ Ends(m)
    /\ UNCHANGED <<registryVars, routes, replicas, patches, podVars,
                   ghostVars, requests>>

\* scale() reads the Deployments: those whose replicas have to change.
Scaled(m) ==
    {r \in Room : (r < m.target) # (r \in replicas)}

ScaleBegins(m) ==
    /\ m.step = "save"
    /\ m.rooms = {}
    /\ Becomes(m, [m EXCEPT !.step = "patch", !.rooms = Scaled(m)])
    /\ UNCHANGED <<registryVars, routes, replicas, patches, podVars,
                   ghostVars, requests, faults>>

Desired(m, r) == IF r < m.target THEN 1 ELSE 0

Patch(m) ==
    /\ m.step = "patch"
    /\ \E r \in m.rooms :
          /\ SetReplicas(r, Desired(m, r))
          /\ Becomes(m, [m EXCEPT !.rooms = @ \ {r}])
    /\ stale' = TRUE
    /\ UNCHANGED <<registryVars, routes, patches, lock, saved, requests,
                   faults>>

\* One patch is refused: scale() rejects and nothing is reconciled, while the
\* other patches are still under way.
PatchFails(m) ==
    /\ m.step = "patch"
    /\ Occurs("patch")
    /\ \E r \in m.rooms :
          patches' = patches \cup {[room |-> q, n |-> Desired(m, q)] :
                                   q \in m.rooms \ {r}}
    /\ Ends(m)
    /\ UNCHANGED <<registryVars, routes, replicas, podVars, ghostVars,
                   requests>>

LatePatch(p) ==
    /\ p \in patches
    /\ patches' = patches \ {p}
    /\ SetReplicas(p.room, p.n)
    /\ stale' = TRUE
    /\ UNCHANGED <<running, registryVars, routes, lock, saved, requests,
                   faults>>

\* reconcileObservedWorkloads reads the Deployments again.
Observe(m) ==
    /\ m.step = "patch"
    /\ m.rooms = {}
    /\ Becomes(m, [m EXCEPT !.step = "register", !.rooms = replicas])
    /\ stale' = FALSE
    /\ UNCHANGED <<registryVars, routes, replicas, patches, podVars, lock,
                   saved, requests, faults>>

\* A running room that this life has not registered: it has a route already,
\* or is given one.
Unregistered(m) == m.rooms \ registered

Register(m) ==
    /\ m.step = "register"
    /\ \E r \in Unregistered(m) :
          /\ routes' = routes \cup {r}
          /\ registered' = registered \cup {r}
    /\ UNCHANGED <<running, record, lockKey, replicas, patches, podVars,
                   ghostVars, requests, faults>>

\* The gateway cannot be read, or refuses the room.
RegisterFails(m) ==
    /\ m.step = "register"
    /\ Unregistered(m) # {}
    /\ Occurs("register")
    /\ Ends(m)
    /\ stale' = TRUE
    /\ UNCHANGED <<registryVars, routes, replicas, patches, podVars, lock,
                   saved, requests>>

\* Mutant: a room that does not run loses its join lock.
ReconciledUnlocks(rooms) ==
    [r \in Room |-> [active |-> r \in rooms,
                     locked |-> /\ r \in rooms
                                /\ Exists(r) /\ record[r].locked]]

\* reconcileWorkloads: the record of each room, given the rooms that run.
Reconciled(rooms) ==
    [r \in Room |-> [active |-> r \in rooms,
                     locked |-> Exists(r) /\ record[r].locked]]

\* put() writes the key of the lock with the record.
LocksOf(records) ==
    [r \in Room |-> IF records[r] = None THEN None ELSE records[r].locked]

\* The rooms that are known to run no more can be registered again.
Reconcile(m) ==
    /\ m.step = "register"
    /\ Unregistered(m) = {}
    /\ registered' = registered \cap m.rooms
    /\ record' = Reconciled(m.rooms)
    /\ lockKey' = LocksOf(record')
    /\ IF m.kind = "delete"
       THEN Becomes(m, [m EXCEPT !.step = "remove"])
       ELSE Ends(m)
    /\ UNCHANGED <<routes, replicas, patches, podVars, ghostVars, requests,
                   faults>>

----------------------------------------------------------------------------
(* One room.                                                               *)

\* PUT /rooms/:id/join-lock, and PATCH /rooms/:id: the record that was read,
\* changed.
Write(m) ==
    /\ m.step = "write"
    /\ LET locked == IF m.kind = "lock" THEN m.arg ELSE m.view.locked
       IN  /\ record' = [record EXCEPT ![m.room] =
                            [m.view EXCEPT !.locked = locked]]
           /\ lock' = IF m.kind = "lock" THEN [lock EXCEPT ![m.room] = m.arg]
                      ELSE lock
    /\ lockKey' = LocksOf(record')
    /\ Ends(m)
    /\ UNCHANGED <<registered, routes, replicas, patches, podVars, saved,
                   stale, requests, faults>>

\* POST /rooms/:id/failure deletes the running pod.
Kill(m) ==
    /\ m.step = "kill"
    /\ IF m.room \in pod
       THEN /\ Terminates(m.room)
            /\ record' = [record EXCEPT ![m.room] = m.view]
            /\ lockKey' = LocksOf(record')
       ELSE UNCHANGED <<podVars, record, lockKey>>
    /\ Ends(m)
    /\ UNCHANGED <<registered, routes, replicas, patches, ghostVars, requests,
                   faults>>

\* Mutant: the lease is left to expire.
LeaseIsLeft(r) == lease

\* What registry.remove() leaves of the lease: nothing, whoever holds it.
LeaseAfterRemoval(r) == [lease EXCEPT ![r] = None]

Remove(m) ==
    /\ m.step = "remove"
    /\ record' = [record EXCEPT ![m.room] = None]
    /\ lockKey' = [lockKey EXCEPT ![m.room] = None]
    /\ snapshot' = snapshot \ {m.room}
    /\ lease' = LeaseAfterRemoval(m.room)
    /\ lock' = [lock EXCEPT ![m.room] = FALSE]
    /\ stale' = (stale \/ m.room \in replicas)
    /\ Ends(m)
    /\ UNCHANGED <<registered, routes, replicas, patches, pod, terminating,
                   saved, requests, faults>>

----------------------------------------------------------------------------

\* Somebody else scales a Deployment.
External(r) ==
    /\ Occurs("external")
    /\ SetReplicas(r, IF r \in replicas THEN 0 ELSE 1)
    /\ stale' = TRUE
    /\ UNCHANGED <<running, registryVars, routes, patches, lock, saved,
                   requests>>

\* The gateway restarts with the rooms of its configuration.
GatewayRestarts ==
    /\ Occurs("gateway")
    /\ routes' = DefaultRooms
    /\ UNCHANGED <<running, registryVars, replicas, patches, podVars,
                   ghostVars, requests>>

\* The orchestrator restarts, and reconciles before it serves.
Restart ==
    /\ Occurs("restart")
    /\ running' = {[Mutation("list", 0, None) EXCEPT !.step = "register",
                                                     !.rooms = replicas]}
    /\ registered' = {}
    /\ stale' = FALSE
    /\ UNCHANGED <<record, lockKey, routes, replicas, patches, podVars, lock,
                   saved, requests>>

Progress(m) ==
    \/ Rejected(m) \/ Read(m)
    \/ Save(m) \/ SaveFails(m)
    \/ ScaleBegins(m) \/ Patch(m) \/ PatchFails(m)
    \/ Observe(m) \/ Register(m) \/ RegisterFails(m) \/ Reconcile(m)
    \/ Write(m) \/ Kill(m) \/ Remove(m)

Requests ==
    \/ Request("list", 0, None) \/ Request("create", 0, None)
    \/ \E n \in 0..MaxRooms : Request("scale", 0, n)
    \/ \E r \in Room :
          \/ \E kind \in {"start", "stop", "delete", "spec", "failure"} :
                Request(kind, r, None)
          \/ \E b \in BOOLEAN : Request("lock", r, b)

Pods ==
    \E r \in Room : PodStarts(r) \/ PodAcquires(r) \/ PodSaves(r) \/ PodIsGone(r)

Next ==
    \/ Requests
    \/ \E m \in running : Progress(m)
    \/ \E p \in patches : LatePatch(p)
    \/ Pods
    \/ \E r \in Room : External(r)
    \/ GatewayRestarts \/ Restart

Spec == Init /\ [][Next]_vars

----------------------------------------------------------------------------

\* A join lock stays as it was set last, whatever other mutations write the
\* record of the room back, and admission reads the same.
LockIsKept ==
    \A r \in Room :
        /\ Exists(r) => record[r].locked = lock[r]
        /\ lockKey[r] = IF Exists(r) THEN lock[r] ELSE None

\* The active rooms are the first ones.
NoGap == Active = {r \in Room : r < Cardinality(Active)}

\* A room that the registry lists as active is not stopped by a mutation that
\* has not had it saved, if it is to be stopped or deleted, or if the active
\* rooms have no gap.  With one, "scale", "create" and "start", which compare
\* numbers of rooms and stop by ordinal, may stop a room that was not saved.
StoppedIsSaved ==
    [][\A m \in running :
          /\ m.step = "patch" /\ running' # running
          /\ m.kind \in {"stop", "delete"} \/ NoGap
          => \A r \in replicas \ replicas' : r \in Active => r \in saved]_vars

\* Between two mutations the registry lists the rooms that run as active, and
\* only them, unless a Deployment was changed after the last one had read it,
\* or that one failed.
RegistryFollowsFleet == running = {} /\ ~stale => Active = replicas

\* A room that admission may choose, and one that the orchestrator takes for
\* registered, has a route, as long as the gateway has not been restarted.
RegisteredIsRouted ==
    "gateway" \notin faults => Active \cup registered \subseteq routes

\* What the registry and the gateway say of the rooms is so.
RegistryIsTrue == LockIsKept /\ RegistryFollowsFleet /\ RegisteredIsRouted

\* A room that has been deleted does not get its snapshot back from the pod
\* that is still terminating.  When a mutation failed between the Deployments
\* and the registry, or somebody else scaled, it can: the registry then does
\* not know which rooms run.
DeletedIsForgotten ==
    faults \cap {"patch", "register", "external"} = {} =>
        \A r \in Room : ~Exists(r) /\ r \notin pod => r \notin snapshot

\* "registry.remove() clears snapshot/lease only after the Pod has actually
\* been removed" (main.ts:848-849).
RemovedAfterPod ==
    [][\A r \in Room : Exists(r) /\ record'[r] = None
          => r \notin pod \cup terminating]_vars

=============================================================================
