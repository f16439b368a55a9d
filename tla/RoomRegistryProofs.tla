-------------------------- MODULE RoomRegistryProofs --------------------------
(***************************************************************************)
(* Theorems about the room registry, for any number of rooms, requests    *)
(* and faults.                                                             *)
(***************************************************************************)
EXTENDS RoomRegistry, FiniteSetTheorems, WellFoundedInduction, TLAPS

RecordType == [active : BOOLEAN, locked : BOOLEAN]

MutationFields == {"kind", "room", "arg", "step", "target", "rooms", "view"}

\* The data that the mutations handle; only those of one room name it.
Typed ==
    /\ DOMAIN record = Room /\ DOMAIN lockKey = Room
    /\ \A r \in Room : Exists(r) => record[r] \in RecordType
    /\ lock \in [Room -> BOOLEAN]
    /\ replicas \subseteq Room
    /\ \A p \in patches : p.room \in Room
    /\ \A m \in running :
          /\ DOMAIN m = MutationFields
          /\ m.kind \notin {"list", "scale", "create"} => m.room \in Room
          /\ m.kind = "lock" => m.arg \in BOOLEAN
          /\ m.step = "patch" => m.rooms \subseteq Room
          /\ m.step \in {"write", "kill", "remove"} => m.room \in Room

\* Mutations do not overlap (serializeMutation), so that the record one has
\* read is still the one it changes.
Serial ==
    /\ \A m, n \in running : m = n
    /\ \A m \in running :
          m.step \in {"write", "kill"} => /\ Exists(m.room)
                                          /\ m.view = record[m.room]

\* The key that admission reads is that of the record, and a room without a
\* record has no lock.
Locks ==
    /\ LockIsKept
    /\ \A r \in Room : ~Exists(r) => ~lock[r]

\* Unless the Deployments have changed since they were read, the registry
\* follows them, or the mutation that runs will make it.
Follows ==
    ~stale =>
        /\ \A m \in running : m.step = "register" => m.rooms = replicas
        /\ (\A m \in running : m.step # "register") => Active = replicas

IInv == Typed /\ Serial /\ Locks /\ Follows /\ RegisteredIsRouted

NoneAssumption == None \notin RecordType

-----------------------------------------------------------------------------

\* At the start the registry has been reconciled.
LEMMA InitIInv == Init /\ NoneAssumption => IInv
<1> SUFFICES ASSUME Init, NoneAssumption PROVE IInv
  OBVIOUS
<1>1. PICK n \in 0..MaxRooms :
          /\ replicas = {r \in Room : r < n}
          /\ record = [r \in Room |-> [active |-> r < n, locked |-> FALSE]]
          /\ registered = replicas
          /\ routes = DefaultRooms \cup replicas
  BY DEF Init
<1>2. /\ running = {} /\ patches = {} /\ stale = FALSE
      /\ lockKey = [r \in Room |-> FALSE]
      /\ lock = [r \in Room |-> FALSE]
  BY DEF Init
<1>3. ASSUME NEW r \in Room
      PROVE  /\ Exists(r) /\ record[r] \in RecordType
             /\ record[r].locked = FALSE
             /\ record[r].active <=> r \in replicas
  <2>1. record[r] = [active |-> r < n, locked |-> FALSE]
    BY <1>1
  <2>2. record[r] \in RecordType
    BY <2>1 DEF RecordType
  <2>3. record[r].active <=> r \in replicas
    BY <1>1, <2>1
  <2>4. record[r].locked = FALSE
    BY <2>1
  <2>5. Exists(r)
    BY <2>2 DEF NoneAssumption, Exists
  <2> QED BY <2>2, <2>3, <2>4, <2>5
<1>4. Active = replicas
  BY <1>1, <1>3 DEF Active
<1>5. Typed
  BY <1>1, <1>2, <1>3 DEF Typed
<1>6. Serial
  BY <1>2 DEF Serial
<1>7. Locks
  <2>1. \A r \in Room : lockKey[r] = FALSE /\ lock[r] = FALSE
    BY <1>2
  <2>2. \A r \in Room : Exists(r) /\ record[r].locked = FALSE
    BY <1>3
  <2>3. LockIsKept
    BY <2>1, <2>2 DEF LockIsKept
  <2>4. \A r \in Room : ~Exists(r) => ~lock[r]
    BY <2>2
  <2> QED BY <2>3, <2>4 DEF Locks
<1>8. Follows
  BY <1>2, <1>4 DEF Follows
<1>9. RegisteredIsRouted
  BY <1>1, <1>4 DEF RegisteredIsRouted
<1> QED BY <1>5, <1>6, <1>7, <1>8, <1>9 DEF IInv

\* What a step leaves alone that neither writes the registry nor sets a lock.
RecordsStay == UNCHANGED <<record, lockKey, lock>>

\* The mutation m goes on as n in such a step.
LEMMA GoesOnKeepsIInv ==
    ASSUME IInv, RecordsStay, NEW m \in running, NEW n,
           running' = (running \ {m}) \cup {n},
           DOMAIN n = MutationFields,
           n.kind = m.kind, n.room = m.room, n.arg = m.arg,
           n.step = "patch" => n.rooms \subseteq Room,
           n.step \in {"write", "kill", "remove"} => n.room \in Room,
           n.step \in {"write", "kill"} =>
               Exists(n.room) /\ n.view = record[n.room],
           replicas' \subseteq Room, UNCHANGED patches,
           ~stale' =>
               IF n.step = "register" THEN n.rooms = replicas'
               ELSE Active = replicas',
           RegisteredIsRouted'
    PROVE  IInv'
<1>1. running' = {n}
  BY DEF IInv, Serial
<1>2. /\ \A r \in Room : Exists(r)' <=> Exists(r)
      /\ Active' = Active
  BY DEF RecordsStay, Exists, Active
<1>3. Typed'
  BY <1>1, <1>2 DEF IInv, Typed, RecordsStay, Exists
<1>4. Serial'
  BY <1>1, <1>2 DEF Serial, RecordsStay, Exists
<1>5. Locks'
  BY <1>2 DEF IInv, Locks, LockIsKept, RecordsStay, Exists
<1>6. Follows'
  BY <1>1, <1>2 DEF Follows
<1> QED BY <1>3, <1>4, <1>5, <1>6 DEF IInv

\* No mutation begins or goes on in such a step.
LEMMA NoMutationKeepsIInv ==
    ASSUME IInv, RecordsStay, running' \subseteq running,
           replicas' \subseteq Room,
           \A p \in patches' : p.room \in Room,
           ~stale' =>
               /\ ~stale /\ replicas' = replicas
               /\ \/ running' = running
                  \/ Active = replicas,
           RegisteredIsRouted'
    PROVE  IInv'
<1>1. /\ \A r \in Room : Exists(r)' <=> Exists(r)
      /\ Active' = Active
  BY DEF RecordsStay, Exists, Active
<1>2. Typed'
  BY <1>1 DEF IInv, Typed, RecordsStay, Exists
<1>3. Serial'
  BY <1>1 DEF IInv, Serial, RecordsStay, Exists
<1>4. Locks'
  BY <1>1 DEF IInv, Locks, LockIsKept, RecordsStay, Exists
<1>5. Follows'
  BY <1>1 DEF IInv, Follows
<1> QED BY <1>2, <1>3, <1>4, <1>5 DEF IInv

\* Neither the rooms that are registered and those that have a route change,
\* nor the registry.
LEMMA RoutesStay ==
    ASSUME IInv, UNCHANGED <<record, registered, routes>>,
           faults \subseteq faults'
    PROVE  RegisteredIsRouted'
<1>1. Active' = Active
  BY DEF Exists, Active
<1> QED BY <1>1 DEF IInv, RegisteredIsRouted

-----------------------------------------------------------------------------

\* A request begins when no mutation runs.
LEMMA RequestKeepsIInv ==
    ASSUME IInv, NEW kind, NEW r, NEW arg, Request(kind, r, arg),
           kind \notin {"list", "scale", "create"} => r \in Room,
           kind = "lock" => arg \in BOOLEAN
    PROVE  IInv'
<1> DEFINE n == Mutation(kind, r, arg)
<1>1. /\ DOMAIN n = MutationFields
      /\ n.kind = kind /\ n.room = r /\ n.arg = arg /\ n.step = "read"
  BY DEF Mutation, MutationFields
<1>2. /\ running = {} /\ running' = {n}
      /\ UNCHANGED <<registryVars, routes, replicas, patches, ghostVars, faults>>
  BY DEF Request, MayRun
<1> HIDE DEF n
<1>3. /\ \A q \in Room : Exists(q)' <=> Exists(q)
      /\ Active' = Active
  BY <1>2 DEF registryVars, Exists, Active
<1>4. Typed'
  BY <1>1, <1>2, <1>3 DEF IInv, Typed, registryVars, ghostVars, Exists
<1>5. Serial'
  BY <1>1, <1>2 DEF Serial
<1>6. Locks'
  BY <1>2, <1>3 DEF IInv, Locks, LockIsKept, registryVars, ghostVars, Exists
<1>7. Follows'
  BY <1>1, <1>2, <1>3 DEF IInv, Follows, ghostVars
<1>8. RegisteredIsRouted'
  BY <1>2, RoutesStay DEF registryVars
<1> QED BY <1>4, <1>5, <1>6, <1>7, <1>8 DEF IInv

\* The first step of a mutation that writes a record, or removes it, is for a
\* room that has one.
LEMMA ReadKeepsIInv ==
    ASSUME IInv, NEW m \in running, Read(m)
    PROVE  IInv'
<1> DEFINE n == [m EXCEPT !.step = FirstStep(m), !.target = Target(m),
                          !.rooms = IF m.kind = "list" THEN replicas
                                    ELSE Stopping(m),
                          !.view = IF m.kind \in {"lock", "spec", "failure"}
                                   THEN record[m.room] ELSE None]
<1>1. /\ running' = (running \ {m}) \cup {n}
      /\ UNCHANGED <<registryVars, routes, replicas, patches, lock, faults>>
      /\ stale' = (stale /\ m.kind # "list")
      /\ m.step = "read"
  BY DEF Read, Becomes
<1>2. /\ DOMAIN m = MutationFields
      /\ m.kind \notin {"list", "scale", "create"} => m.room \in Room
  BY DEF IInv, Typed
<1>3. /\ DOMAIN n = MutationFields
      /\ n.kind = m.kind /\ n.room = m.room /\ n.arg = m.arg
      /\ n.step = FirstStep(m)
      /\ m.kind = "list" => n.rooms = replicas
      /\ m.kind \in {"lock", "spec", "failure"} => n.view = record[m.room]
  BY <1>2 DEF MutationFields
<1>4. m.kind \in {"lock", "spec", "failure"} => Exists(m.room)
  BY DEF Read, Forbidden
<1>5. /\ FirstStep(m) # "patch"
      /\ FirstStep(m) = "register" <=> m.kind = "list"
      /\ FirstStep(m) \in {"write", "kill"} =>
             m.kind \in {"lock", "spec", "failure"}
      /\ FirstStep(m) = "remove" => m.kind = "delete"
  BY DEF FirstStep
<1> HIDE DEF n
<1>6. ~stale /\ m.kind # "list" => Active = replicas
  BY <1>1 DEF IInv, Follows, Serial
<1>7. ~stale' => IF n.step = "register" THEN n.rooms = replicas'
                 ELSE Active = replicas'
  BY <1>1, <1>3, <1>5, <1>6
<1>8. RegisteredIsRouted'
  BY <1>1, RoutesStay DEF registryVars
<1>9. RecordsStay /\ replicas' \subseteq Room
  BY <1>1 DEF RecordsStay, registryVars, IInv, Typed
<1> QED BY <1>1, <1>2, <1>3, <1>4, <1>5, <1>7, <1>8, <1>9, GoesOnKeepsIInv

\* The steps of a mutation that neither end it nor write the registry.
LEMMA StepKeepsIInv ==
    ASSUME IInv, NEW m \in running,
           Save(m) \/ ScaleBegins(m) \/ Patch(m) \/ Observe(m)
    PROVE  IInv'
<1>1. /\ DOMAIN m = MutationFields
      /\ m.step = "patch" => m.rooms \subseteq Room
      /\ replicas \subseteq Room
  BY DEF IInv, Typed
<1>2. ~stale /\ m.step # "register" => Active = replicas
  BY DEF IInv, Follows, Serial
<1>3. CASE Save(m)
  <2>1. PICK r \in m.rooms : Becomes(m, [m EXCEPT !.rooms = @ \ {r}])
    BY <1>3 DEF Save
  <2> DEFINE n == [m EXCEPT !.rooms = @ \ {r}]
  <2>2. /\ DOMAIN n = MutationFields
        /\ n.kind = m.kind /\ n.room = m.room /\ n.arg = m.arg
        /\ n.step = m.step
    BY <1>1 DEF MutationFields
  <2>3. /\ running' = (running \ {m}) \cup {n}
        /\ m.step = "save"
        /\ UNCHANGED <<registryVars, routes, replicas, patches, lock, stale,
                       faults>>
    BY <1>3, <2>1 DEF Becomes, Save
  <2> HIDE DEF n
  <2>4. RecordsStay /\ RegisteredIsRouted'
    BY <2>3, RoutesStay DEF RecordsStay, registryVars
  <2> QED BY <1>1, <1>2, <2>2, <2>3, <2>4, GoesOnKeepsIInv
<1>4. CASE ScaleBegins(m)
  <2> DEFINE n == [m EXCEPT !.step = "patch", !.rooms = Scaled(m)]
  <2>1. /\ DOMAIN n = MutationFields
        /\ n.kind = m.kind /\ n.room = m.room /\ n.arg = m.arg
        /\ n.step = "patch" /\ n.rooms \subseteq Room
    BY <1>1 DEF MutationFields, Scaled
  <2>2. /\ running' = (running \ {m}) \cup {n}
        /\ m.step = "save"
        /\ UNCHANGED <<registryVars, routes, replicas, patches, lock, stale,
                       faults>>
    BY <1>4 DEF Becomes, ScaleBegins, ghostVars
  <2> HIDE DEF n
  <2>3. RecordsStay /\ RegisteredIsRouted'
    BY <2>2, RoutesStay DEF RecordsStay, registryVars
  <2> QED BY <1>1, <1>2, <2>1, <2>2, <2>3, GoesOnKeepsIInv
<1>5. CASE Patch(m)
  <2>1. PICK r \in m.rooms : /\ SetReplicas(r, Desired(m, r))
                             /\ Becomes(m, [m EXCEPT !.rooms = @ \ {r}])
    BY <1>5 DEF Patch
  <2> DEFINE n == [m EXCEPT !.rooms = @ \ {r}]
  <2>2. /\ DOMAIN n = MutationFields
        /\ n.kind = m.kind /\ n.room = m.room /\ n.arg = m.arg
        /\ n.step = m.step /\ n.rooms = m.rooms \ {r}
    BY <1>1 DEF MutationFields
  <2>3. /\ running' = (running \ {m}) \cup {n}
        /\ m.step = "patch"
        /\ stale'
        /\ UNCHANGED <<registryVars, routes, patches, lock, faults>>
    BY <1>5, <2>1 DEF Becomes, Patch
  <2>4. replicas' \subseteq Room
    BY <1>1, <2>1, <2>3 DEF SetReplicas
  <2> HIDE DEF n
  <2>5. RecordsStay /\ RegisteredIsRouted'
    BY <2>3, RoutesStay DEF RecordsStay, registryVars
  <2> QED BY <1>1, <2>2, <2>3, <2>4, <2>5, GoesOnKeepsIInv
<1>6. CASE Observe(m)
  <2> DEFINE n == [m EXCEPT !.step = "register", !.rooms = replicas]
  <2>1. /\ DOMAIN n = MutationFields
        /\ n.kind = m.kind /\ n.room = m.room /\ n.arg = m.arg
        /\ n.step = "register" /\ n.rooms = replicas
    BY <1>1 DEF MutationFields
  <2>2. /\ running' = (running \ {m}) \cup {n}
        /\ UNCHANGED <<registryVars, routes, replicas, patches, lock, faults>>
    BY <1>6 DEF Becomes, Observe
  <2> HIDE DEF n
  <2>3. RecordsStay /\ RegisteredIsRouted'
    BY <2>2, RoutesStay DEF RecordsStay, registryVars
  <2> QED BY <1>1, <2>1, <2>2, <2>3, GoesOnKeepsIInv
<1> QED BY <1>3, <1>4, <1>5, <1>6

\* A mutation that is rejected, or that fails before the fleet is read again,
\* leaves the registry as it is.
LEMMA StopKeepsIInv ==
    ASSUME IInv, NEW m \in running,
           Rejected(m) \/ SaveFails(m) \/ PatchFails(m) \/ RegisterFails(m)
    PROVE  IInv'
<1>1. /\ running' = running \ {m}
      /\ UNCHANGED <<registryVars, routes, replicas, lock>>
      /\ faults \subseteq faults'
      /\ m.step = "register" => stale'
      /\ ~stale' => ~stale
  BY DEF Rejected, SaveFails, PatchFails, RegisterFails, Ends, Occurs, ghostVars
<1>2. ~stale /\ m.step # "register" => Active = replicas
  BY DEF IInv, Follows, Serial
<1>3. \A p \in patches' : p.room \in Room
  <2>1. CASE PatchFails(m)
    BY <2>1 DEF PatchFails, IInv, Typed
  <2>2. CASE ~PatchFails(m)
    BY <2>2 DEF Rejected, SaveFails, RegisterFails, IInv, Typed
  <2> QED BY <2>1, <2>2
<1>4. RecordsStay /\ RegisteredIsRouted'
  BY <1>1, RoutesStay DEF RecordsStay, registryVars
<1>5. replicas' \subseteq Room
  BY <1>1 DEF IInv, Typed
<1> QED BY <1>1, <1>2, <1>3, <1>4, <1>5, NoMutationKeepsIInv

\* A room is registered with the gateway, which then has a route for it.
LEMMA RegisterKeepsIInv ==
    ASSUME IInv, NEW m \in running, Register(m)
    PROVE  IInv'
<1>1. PICK r : /\ routes' = routes \cup {r}
               /\ registered' = registered \cup {r}
  BY DEF Register
<1>2. UNCHANGED <<running, record, lockKey, replicas, patches, lock, stale,
                  faults>>
  BY DEF Register, ghostVars
<1>3. Active' = Active
  BY <1>2 DEF Active, Exists
<1>4. RegisteredIsRouted'
  BY <1>1, <1>2, <1>3 DEF IInv, RegisteredIsRouted
<1>5. RecordsStay
  BY <1>2 DEF RecordsStay
<1>6. replicas' \subseteq Room /\ \A p \in patches' : p.room \in Room
  BY <1>2 DEF IInv, Typed
<1> QED BY <1>2, <1>4, <1>5, <1>6, NoMutationKeepsIInv

\* Reconciling gives every room a record that follows the Deployments that
\* were read, and keeps its lock.
LEMMA ReconcileKeepsIInv ==
    ASSUME IInv, NoneAssumption, NEW m \in running, Reconcile(m)
    PROVE  IInv'
<1>1. /\ m.step = "register"
      /\ m.rooms \subseteq registered
      /\ record' = Reconciled(m.rooms)
      /\ lockKey' = LocksOf(record')
      /\ registered' = registered \cap m.rooms
      /\ UNCHANGED <<routes, replicas, patches, lock, stale, faults>>
  BY DEF Reconcile, Unregistered, ghostVars
<1>2. ASSUME NEW r \in Room
      PROVE  /\ record'[r] = [active |-> r \in m.rooms,
                              locked |-> Exists(r) /\ record[r].locked]
             /\ record'[r] \in RecordType
             /\ Exists(r)'
             /\ record'[r].active <=> r \in m.rooms
             /\ record'[r].locked = lock[r]
             /\ lockKey'[r] = lock[r]
  <2>1. record'[r] = [active |-> r \in m.rooms,
                      locked |-> Exists(r) /\ record[r].locked]
    BY <1>1 DEF Reconciled
  <2>2. record[r].locked \in BOOLEAN \/ ~Exists(r)
    BY DEF IInv, Typed, RecordType
  <2>3. record'[r] \in RecordType
    BY <2>1, <2>2 DEF RecordType
  <2>4. Exists(r)'
    BY <2>3 DEF NoneAssumption, Exists
  <2>5. (Exists(r) /\ record[r].locked) <=> lock[r]
    <3>1. lock[r] \in BOOLEAN
      BY DEF IInv, Typed
    <3>2. CASE Exists(r)
      BY <2>2, <3>1, <3>2 DEF IInv, Locks, LockIsKept
    <3>3. CASE ~Exists(r)
      BY <3>1, <3>3 DEF IInv, Locks
    <3> QED BY <3>2, <3>3
  <2>6. /\ record'[r].active <=> r \in m.rooms
        /\ record'[r].locked <=> Exists(r) /\ record[r].locked
    <3> DEFINE a == r \in m.rooms
               b == Exists(r) /\ record[r].locked
    <3>1. record'[r] = [active |-> a, locked |-> b]
      BY <2>1
    <3> HIDE DEF a, b
    <3>2. (record'[r].active <=> a) /\ (record'[r].locked <=> b)
      BY <3>1
    <3> QED BY <3>2 DEF a, b
  <2>8. record'[r].locked = lock[r]
    <3>2. record'[r].locked \in BOOLEAN /\ lock[r] \in BOOLEAN
      BY <2>3 DEF RecordType, IInv, Typed
    <3> QED BY <2>5, <2>6, <3>2
  <2>7. lockKey'[r] = record'[r].locked
    BY <1>1, <2>4 DEF LocksOf, Exists
  <2> QED BY <2>1, <2>3, <2>4, <2>6, <2>7, <2>8
<1>3. Active' = Room \cap m.rooms
  BY <1>2 DEF Active
<1>4. ~stale => m.rooms = replicas
  BY <1>1 DEF IInv, Follows
<1> DEFINE n == [m EXCEPT !.step = "remove"]
<1>5. /\ DOMAIN n = MutationFields
      /\ n.kind = m.kind /\ n.room = m.room /\ n.arg = m.arg
      /\ n.step = "remove"
  BY DEF IInv, Typed, MutationFields
<1>6. \/ running' = {}
      \/ running' = {n} /\ m.kind = "delete"
  BY DEF Reconcile, Becomes, Ends, IInv, Serial
<1> HIDE DEF n
<1>7. DOMAIN record' = Room /\ DOMAIN lockKey' = Room
  BY <1>1 DEF Reconciled, LocksOf
<1>8. Typed'
  BY <1>1, <1>2, <1>5, <1>6, <1>7 DEF IInv, Typed
<1>9. Serial'
  BY <1>5, <1>6 DEF Serial
<1>10. Locks'
  BY <1>1, <1>2 DEF Locks, LockIsKept
<1>11. Follows'
  BY <1>1, <1>3, <1>4, <1>5, <1>6 DEF IInv, Typed, Follows
<1>12. RegisteredIsRouted'
  BY <1>1, <1>3 DEF IInv, RegisteredIsRouted
<1> QED BY <1>8, <1>9, <1>10, <1>11, <1>12 DEF IInv

-----------------------------------------------------------------------------

\* The record of one room is written as it was read, with the lock asked for.
LEMMA WriteKeepsIInv ==
    ASSUME IInv, NoneAssumption, NEW m \in running, Write(m)
    PROVE  IInv'
<1> DEFINE locked == IF m.kind = "lock" THEN m.arg ELSE m.view.locked
<1>1. /\ m.room \in Room
      /\ Exists(m.room) /\ m.view = record[m.room]
      /\ m.view \in RecordType
      /\ locked \in BOOLEAN
  BY DEF Write, IInv, Typed, Serial, RecordType
<1>2. /\ record' = [record EXCEPT ![m.room] = [m.view EXCEPT !.locked = locked]]
      /\ lock' = IF m.kind = "lock" THEN [lock EXCEPT ![m.room] = m.arg]
                 ELSE lock
      /\ lockKey' = LocksOf(record')
      /\ running' = {}
      /\ UNCHANGED <<registered, routes, replicas, patches, stale, faults>>
  BY DEF Write, Ends, IInv, Serial
<1>3. /\ record'[m.room] \in RecordType
      /\ record'[m.room].active = record[m.room].active
      /\ record'[m.room].locked = locked
      /\ lock'[m.room] = locked
      /\ lock' \in [Room -> BOOLEAN]
  <2>1. record'[m.room] = [m.view EXCEPT !.locked = locked]
    BY <1>1, <1>2 DEF IInv, Typed
  <2>2. /\ record'[m.room] \in RecordType
        /\ record'[m.room].active = record[m.room].active
        /\ record'[m.room].locked = locked
    BY <1>1, <2>1 DEF RecordType
  <2>3. lock'[m.room] = locked /\ lock' \in [Room -> BOOLEAN]
    BY <1>1, <1>2 DEF IInv, Typed, Locks, LockIsKept
  <2> QED BY <2>2, <2>3
<1>4. ASSUME NEW r \in Room
      PROVE  /\ Exists(r)' <=> Exists(r)
             /\ Exists(r) => /\ record'[r] \in RecordType
                             /\ record'[r].active = record[r].active
                             /\ record'[r].locked = lock'[r]
             /\ ~Exists(r) => ~lock'[r]
  <2>1. CASE r = m.room
    BY <1>1, <1>3, <2>1 DEF NoneAssumption, Exists
  <2>2. CASE r # m.room
    <3>1. record'[r] = record[r] /\ lock'[r] = lock[r]
      BY <1>1, <1>2, <2>2 DEF IInv, Typed
    <3> QED BY <3>1 DEF IInv, Typed, Locks, LockIsKept, Exists
  <2> QED BY <2>1, <2>2
<1>5. Active' = Active
  BY <1>4 DEF Active
<1>6. \A r \in Room : lockKey'[r] = IF Exists(r)' THEN lock'[r] ELSE None
  BY <1>2, <1>4 DEF LocksOf, Exists
<1>7. ~stale => Active = replicas
  BY DEF Write, IInv, Follows, Serial
<1>8. DOMAIN record' = Room /\ DOMAIN lockKey' = Room
  BY <1>2 DEF IInv, Typed, LocksOf
<1>9. Typed'
  BY <1>2, <1>3, <1>4, <1>8 DEF IInv, Typed
<1>10. Serial' /\ Locks'
  BY <1>2, <1>4, <1>6 DEF Serial, Locks, LockIsKept
<1>11. Follows' /\ RegisteredIsRouted'
  BY <1>2, <1>5, <1>7 DEF IInv, Follows, RegisteredIsRouted
<1> QED BY <1>9, <1>10, <1>11 DEF IInv

\* The record of a room whose pod is deleted is written back as it was read.
LEMMA KillKeepsIInv ==
    ASSUME IInv, NEW m \in running, Kill(m)
    PROVE  IInv'
<1>1. /\ DOMAIN record' = Room /\ DOMAIN lockKey' = Room
      /\ \A r \in Room : record'[r] = record[r]
  BY DEF Kill, IInv, Serial, Typed, LocksOf
<1>2. \A r \in Room : Exists(r)' <=> Exists(r)
  BY <1>1 DEF Exists
<1>3. Active' = Active
  BY <1>1, <1>2 DEF Active
<1>4. ~stale => Active = replicas
  BY DEF Kill, IInv, Follows, Serial
<1>5. /\ running' = {}
      /\ UNCHANGED <<registered, routes, replicas, patches, lock, stale, faults>>
  BY DEF Kill, Ends, IInv, Serial, ghostVars
<1>6. \A r \in Room : lockKey'[r] = lockKey[r]
  <2>1. CASE lockKey' = lockKey
    BY <2>1
  <2>2. CASE lockKey' = LocksOf(record')
    BY <1>1, <2>2 DEF LocksOf, IInv, Locks, LockIsKept, Exists
  <2> QED BY <2>1, <2>2 DEF Kill
<1>7. Typed'
  BY <1>1, <1>2, <1>5 DEF IInv, Typed
<1>8. Serial'
  BY <1>5 DEF Serial
<1>9. Locks'
  BY <1>1, <1>2, <1>5, <1>6 DEF IInv, Locks, LockIsKept
<1>10. Follows' /\ RegisteredIsRouted'
  BY <1>3, <1>4, <1>5 DEF IInv, Follows, RegisteredIsRouted
<1> QED BY <1>7, <1>8, <1>9, <1>10 DEF IInv

\* The record of a deleted room goes, with its lock.
LEMMA RemoveKeepsIInv ==
    ASSUME IInv, NEW m \in running, Remove(m)
    PROVE  IInv'
<1>1. /\ m.room \in Room
      /\ record' = [record EXCEPT ![m.room] = None]
      /\ lockKey' = [lockKey EXCEPT ![m.room] = None]
      /\ lock' = [lock EXCEPT ![m.room] = FALSE]
      /\ running' = {}
      /\ stale' = (stale \/ m.room \in replicas)
      /\ UNCHANGED <<registered, routes, replicas, patches, faults>>
  BY DEF Remove, Ends, IInv, Serial, Typed
<1>2. /\ DOMAIN record' = Room /\ DOMAIN lockKey' = Room
      /\ lock' \in [Room -> BOOLEAN]
      /\ record'[m.room] = None /\ lock'[m.room] = FALSE
      /\ \A r \in Room \ {m.room} :
            record'[r] = record[r] /\ lock'[r] = lock[r]
  BY <1>1 DEF IInv, Typed
<1>3. /\ ~Exists(m.room)'
      /\ \A r \in Room \ {m.room} : Exists(r)' <=> Exists(r)
  BY <1>2 DEF Exists
<1>4. Active' = Active \ {m.room}
  BY <1>2, <1>3 DEF Active
<1>5. ~stale => Active = replicas
  BY DEF Remove, IInv, Follows, Serial
<1>6. Typed'
  BY <1>1, <1>2, <1>3 DEF IInv, Typed
<1>7. Serial'
  BY <1>1 DEF Serial
<1>8. \A r \in Room : lockKey'[r] = IF Exists(r)' THEN lock'[r] ELSE None
  <2>1. ASSUME NEW r \in Room, r # m.room
        PROVE  lockKey'[r] = lockKey[r]
    BY <1>1, <2>1
  <2>2. lockKey'[m.room] = None
    BY <1>1 DEF IInv, Typed
  <2> QED BY <1>2, <1>3, <2>1, <2>2 DEF IInv, Locks, LockIsKept
<1>9. Locks'
  BY <1>2, <1>3, <1>8 DEF IInv, Locks, LockIsKept
<1>10. Follows' /\ RegisteredIsRouted'
  BY <1>1, <1>4, <1>5 DEF IInv, Follows, RegisteredIsRouted
<1> QED BY <1>6, <1>7, <1>9, <1>10 DEF IInv

-----------------------------------------------------------------------------

\* A Deployment that changes outside a mutation makes the registry stale; the
\* pods, and the gateway's restart, do not concern it; the orchestrator reads
\* the Deployments again when it restarts.
LEMMA EnvironmentKeepsIInv ==
    ASSUME IInv,
           \/ \E p \in patches : LatePatch(p)
           \/ Pods
           \/ \E r \in Room : External(r)
           \/ GatewayRestarts
           \/ Restart
           \/ UNCHANGED vars
    PROVE  IInv'
<1>1. replicas \subseteq Room /\ \A p \in patches : p.room \in Room
  BY DEF IInv, Typed
<1>2. CASE \E p \in patches : LatePatch(p)
  <2>1. PICK p \in patches : LatePatch(p)
    BY <1>2
  <2>2. /\ replicas' \subseteq Room
        /\ stale' /\ patches' \subseteq patches
        /\ UNCHANGED <<running, registryVars, routes, lock, faults>>
    BY <1>1, <2>1 DEF LatePatch, SetReplicas
  <2>3. RecordsStay /\ RegisteredIsRouted'
    BY <2>2, RoutesStay DEF RecordsStay, registryVars
  <2> QED BY <1>1, <2>2, <2>3, NoMutationKeepsIInv
<1>3. CASE Pods \/ UNCHANGED vars
  <2>1. UNCHANGED <<running, registryVars, routes, replicas, patches, lock,
                    stale, faults>>
    BY <1>3 DEF Pods, PodStarts, PodAcquires, PodSaves, PodIsGone, vars,
                ghostVars
  <2>2. RecordsStay /\ RegisteredIsRouted'
    BY <2>1, RoutesStay DEF RecordsStay, registryVars
  <2> QED BY <1>1, <2>1, <2>2, NoMutationKeepsIInv
<1>4. CASE \E r \in Room : External(r)
  <2>1. /\ replicas' \subseteq Room
        /\ stale' /\ faults \subseteq faults'
        /\ UNCHANGED <<running, registryVars, routes, patches, lock>>
    BY <1>1, <1>4 DEF External, SetReplicas, Occurs
  <2>2. RecordsStay /\ RegisteredIsRouted'
    BY <2>1, RoutesStay DEF RecordsStay, registryVars
  <2> QED BY <1>1, <2>1, <2>2, NoMutationKeepsIInv
<1>5. CASE GatewayRestarts
  <2>1. /\ "gateway" \in faults'
        /\ UNCHANGED <<running, registryVars, replicas, patches, lock, stale>>
    BY <1>5 DEF GatewayRestarts, Occurs, ghostVars
  <2>2. RecordsStay /\ RegisteredIsRouted'
    BY <2>1 DEF RecordsStay, registryVars, RegisteredIsRouted
  <2> QED BY <1>1, <2>1, <2>2, NoMutationKeepsIInv
<1>6. CASE Restart
  <2> DEFINE n == [Mutation("list", 0, None) EXCEPT !.step = "register",
                                                    !.rooms = replicas]
  <2>1. /\ DOMAIN n = MutationFields
        /\ n.kind = "list" /\ n.step = "register" /\ n.rooms = replicas
    BY DEF Mutation, MutationFields
  <2>2. /\ running' = {n} /\ registered' = {}
        /\ faults \subseteq faults'
        /\ UNCHANGED <<record, lockKey, routes, replicas, patches, lock>>
    BY <1>6 DEF Restart, Occurs
  <2> HIDE DEF n
  <2>3. /\ \A r \in Room : Exists(r)' <=> Exists(r)
        /\ Active' = Active
    BY <2>2 DEF Exists, Active
  <2>4. Typed'
    BY <2>1, <2>2, <2>3 DEF IInv, Typed
  <2>5. Serial'
    BY <2>1, <2>2 DEF Serial
  <2>6. Locks'
    BY <2>2, <2>3 DEF IInv, Locks, LockIsKept
  <2>7. Follows'
    BY <2>1, <2>2 DEF Follows
  <2>8. RegisteredIsRouted'
    BY <2>2, <2>3 DEF IInv, RegisteredIsRouted
  <2> QED BY <2>4, <2>5, <2>6, <2>7, <2>8 DEF IInv
<1> QED BY <1>2, <1>3, <1>4, <1>5, <1>6

-----------------------------------------------------------------------------

\* Every step keeps the invariant.
LEMMA NextIInv ==
    ASSUME NoneAssumption, IInv, [Next]_vars
    PROVE  IInv'
<1>1. CASE Requests
  BY <1>1, RequestKeepsIInv DEF Requests
<1>2. CASE \E m \in running : Progress(m)
  BY <1>2, ReadKeepsIInv, StepKeepsIInv, StopKeepsIInv,
     RegisterKeepsIInv, ReconcileKeepsIInv, WriteKeepsIInv, KillKeepsIInv,
     RemoveKeepsIInv DEF Progress
<1>3. CASE \/ \E p \in patches : LatePatch(p)
           \/ Pods
           \/ \E r \in Room : External(r)
           \/ GatewayRestarts
           \/ Restart
           \/ UNCHANGED vars
  BY <1>3, EnvironmentKeepsIInv
<1> QED BY <1>1, <1>2, <1>3 DEF Next

\* Join locks stay as they were set last (main.ts, registry.ts), the registry
\* lists the rooms that run, and admission only chooses among rooms that have
\* a route, whatever mutations fail between the Deployments, the gateway and
\* the registry, and whatever restarts.
THEOREM RegistryIsTrueAlways ==
    ASSUME NoneAssumption
    PROVE  Spec => []RegistryIsTrue
<1>1. Init => IInv
  BY InitIInv
<1>2. IInv /\ [Next]_vars => IInv'
  BY NextIInv
<1>3. IInv => RegistryIsTrue
  <2> SUFFICES ASSUME IInv PROVE RegistryIsTrue
    OBVIOUS
  <2>1. LockIsKept /\ RegisteredIsRouted
    BY DEF IInv, Locks
  <2>2. RegistryFollowsFleet
    BY DEF IInv, Follows, RegistryFollowsFleet
  <2> QED BY <2>1, <2>2 DEF RegistryIsTrue
<1> QED BY <1>1, <1>2, <1>3, PTL DEF Spec

-----------------------------------------------------------------------------
(* The rooms that are stopped and deleted: StoppedIsSaved and              *)
(* DeletedIsForgotten.                                                     *)

\* A set of rooms has a highest one, since the sets of the rooms above each of
\* them are ordered by inclusion (activeRooms(...).at(-1), main.ts).
LEMMA HighestRoom ==
    ASSUME MaxRooms \in Nat, NEW S \in SUBSET Room, S # {}
    PROVE  Max(S) \in S /\ \A r \in S : r <= Max(S)
<1> DEFINE Above(r) == {q \in S : q > r}
           T == {Above(r) : r \in S}
<1>1. Room \subseteq Int
  BY DEF Room
<1>2. IsFiniteSet(Room)
  BY FS_Interval DEF Room
<1>3. IsWellFoundedOn(StrictSubsetOrdering(Room), SUBSET Room)
  <2>1. IsWellFoundedOn(StrictSubsetOrdering(Room), FiniteSubsetsOf(Room))
    BY FS_StrictSubsetOrderingWellFounded
  <2> QED BY <1>2, <2>1, FS_FiniteSubsetsOfFinite
<1>4. T \subseteq SUBSET Room /\ T # {}
  OBVIOUS
<1>5. PICK U \in T : \A V \in T : <<V, U>> \notin StrictSubsetOrdering(Room)
  BY <1>3, <1>4, WFMin
<1>6. PICK r \in S : U = Above(r)
  BY <1>5
<1>7. ASSUME NEW q \in S, q > r PROVE FALSE
  <2>1. Above(q) \subseteq U /\ q \in U /\ q \notin Above(q)
    <3> HIDE DEF T
    <3>1. r \in Int /\ q \in Int /\ S \subseteq Int
      BY <1>1
    <3>2. U = {y \in S : y > r}
      BY <1>6
    <3>3. q > r
      BY <1>7
    <3>4. \A y \in S : y > q => y > r
      BY <3>1, <3>3
    <3>5. q \in U
      BY <3>2, <3>3
    <3>6. ~(q > q)
      BY <3>1
    <3>7. Above(q) \subseteq U
      BY <3>2, <3>4
    <3>8. q \notin Above(q)
      BY <3>6
    <3> QED BY <3>5, <3>7, <3>8
  <2>2. Above(q) \in T
    OBVIOUS
  <2>3. <<Above(q), U>> \in StrictSubsetOrdering(Room)
    BY <1>4, <2>1, <2>2 DEF StrictSubsetOrdering
  <2> QED BY <1>5, <2>2, <2>3
<1>8. \A q \in S : r >= q
  BY <1>1, <1>7
<1>9. \E x \in S : \A y \in S : x >= y
  BY <1>8
<1> QED BY <1>1, <1>9 DEF Max

\* A mutation of which it is certain that it saves what it stops.
Certain(m) == m.kind \in {"stop", "delete"} \/ NoGap

\* Before it scales, such a mutation has saved, or will save, every active room
\* that it stops.
SavedFirst ==
    \A m \in running :
        /\ m.kind \in Kinds
        /\ m.kind = "scale" => m.arg \in Nat
        /\ m.step = "save" /\ Certain(m) =>
              \A r \in Active : r < m.target \/ r \in saved \cup m.rooms
        /\ m.step = "patch" /\ Certain(m) =>
              \A r \in Active : r < m.target \/ r \in saved

\* The faults after which the registry may not know which rooms run.
Calm == faults \cap {"patch", "register", "external"} = {}

\* Without them, the Deployments are those that were read, but while they are
\* patched; what is left to patch is what has to change; a room without a record
\* is not stopped; and one that is removed does not run.
Tracked ==
    Calm =>
        /\ patches = {}
        /\ stale => \E m \in running : m.step = "patch"
        /\ \A m \in running :
              /\ m.step = "patch" =>
                    /\ m.rooms = Scaled(m)
                    /\ \A r \in replicas : Exists(r) \/ r < m.target
              /\ m.kind = "delete" /\ m.step # "read" => m.target = m.room
              /\ m.kind = "delete" /\ m.step = "register"
                    => m.room \notin replicas
              /\ m.step = "remove" => m.room \notin replicas

\* Without them, nobody writes a snapshot of a room without record and pod.
Forgotten ==
    Calm => \A r \in Room : ~Exists(r) /\ r \notin pod =>
                               r \notin snapshot /\ lease[r] = None

PodsRun == pod \subseteq replicas /\ DOMAIN lease = Room

SafeInv == SavedFirst /\ Tracked /\ Forgotten /\ PodsRun

LEMMA InitSafeInv == Init /\ NoneAssumption => SafeInv
<1> SUFFICES ASSUME Init, NoneAssumption PROVE SafeInv
  OBVIOUS
<1>1. PICK n \in 0..MaxRooms :
          /\ replicas = {r \in Room : r < n}
          /\ record = [r \in Room |-> [active |-> r < n, locked |-> FALSE]]
          /\ pod = replicas
          /\ lease = [r \in Room |-> IF r < n THEN "pod" ELSE None]
  BY DEF Init
<1>2. \A r \in Room : Exists(r)
  <2>1. \A r \in Room : record[r] \in RecordType
    BY <1>1 DEF RecordType
  <2> QED BY <2>1 DEF Exists, NoneAssumption
<1> QED BY <1>1, <1>2 DEF Init, SafeInv, SavedFirst, Tracked, Forgotten, PodsRun

-----------------------------------------------------------------------------

\* A mutation that writes no record goes on as n, or ends.
RunsOn(m, n) ==
    \/ /\ running' = (running \ {m}) \cup {n}
       /\ n.kind = m.kind /\ n.room = m.room /\ n.arg = m.arg
    \/ running' = running \ {m}

\* The registry that the mutations read is the same.
LEMMA SameRecords ==
    ASSUME RecordsStay
    PROVE  /\ \A r \in Room : Exists(r)' <=> Exists(r)
           /\ Active' = Active
           /\ NoGap' <=> NoGap
<1>1. (\A r \in Room : Exists(r)' <=> Exists(r)) /\ Active' = Active
  BY DEF RecordsStay, Exists, Active
<1> QED BY <1>1 DEF NoGap

\* Reading decides what is to be saved (main.ts:296-303, 812-860).
LEMMA ReadKeepsSafeInv ==
    ASSUME MaxRooms \in Nat, IInv, SafeInv, NEW m \in running, Read(m)
    PROVE  SafeInv'
<1> DEFINE n == [m EXCEPT !.step = FirstStep(m), !.target = Target(m),
                          !.rooms = IF m.kind = "list" THEN replicas
                                    ELSE Stopping(m),
                          !.view = IF m.kind \in {"lock", "spec", "failure"}
                                   THEN record[m.room] ELSE None]
<1>1. /\ running' = {n}
      /\ UNCHANGED <<registryVars, routes, replicas, patches, podVars, lock,
                     faults>>
      /\ stale' = (stale /\ m.kind # "list")
      /\ m.step = "read"
      /\ ~Forbidden(m)
  BY DEF Read, Becomes, IInv, Serial
<1>2. RecordsStay
  BY <1>1 DEF RecordsStay, registryVars
<1>3. /\ DOMAIN m = MutationFields
      /\ m.kind \notin {"list", "scale", "create"} => m.room \in Room
  BY DEF IInv, Typed
<1>4. /\ n.kind = m.kind /\ n.room = m.room /\ n.arg = m.arg
      /\ n.step = FirstStep(m) /\ n.target = Target(m)
      /\ n.rooms = IF m.kind = "list" THEN replicas ELSE Stopping(m)
  BY <1>3 DEF MutationFields
<1> HIDE DEF n
<1>5. m.kind \in Kinds /\ (m.kind = "scale" => m.arg \in Nat)
  BY DEF SafeInv, SavedFirst
<1>6. Active \subseteq Room /\ Room \subseteq Nat /\ Cardinality(Active) \in Nat
  <2>1. Active \subseteq Room /\ IsFiniteSet(Room) /\ Room \subseteq Nat
    BY FS_Interval DEF Active, Room
  <2> QED BY <2>1, FS_Subset, FS_CardinalityType
<1>7. ASSUME n.step = "save", Certain(n), NEW r \in Active
      PROVE  r < n.target \/ r \in n.rooms
  <2>1. m.kind # "list"
    BY <1>4, <1>7 DEF FirstStep
  <2>2. CASE m.kind = "scale"
    <3>1. r < Cardinality(Active)
      BY <1>4, <1>7, <2>2 DEF Certain, NoGap
    <3> QED BY <1>4, <1>5, <1>6, <2>2, <3>1 DEF Target, Stopping
  <2>3. CASE m.kind \in {"create", "start"}
    <3>1. r < Cardinality(Active)
      BY <1>4, <1>7, <2>3 DEF Certain, NoGap
    <3> QED BY <1>4, <1>6, <2>3, <3>1 DEF Target
  <2>4. CASE m.kind \in {"stop", "delete"}
    <3>1. m.room = Max(Active) /\ m.room \in Active
      <4>1. m.kind = "delete" => record[m.room].active
        BY <1>4, <1>7 DEF FirstStep
      <4>2. m.room = Max(Active)
        BY <1>1, <2>4, <4>1 DEF Forbidden
      <4> QED BY <1>6, <4>2, HighestRoom
    <3>2. r <= m.room
      BY <1>6, <3>1, HighestRoom
    <3> QED BY <1>4, <1>6, <2>4, <3>1, <3>2 DEF Target, Stopping
  <2>5. m.kind \in {"scale", "create", "start", "stop", "delete"}
    BY <1>4, <1>5, <1>7, <2>1 DEF FirstStep, Kinds
  <2> QED BY <2>2, <2>3, <2>4, <2>5
<1>8. SavedFirst'
  <2>1. n.step # "patch"
    BY <1>4 DEF FirstStep
  <2> QED BY <1>1, <1>2, <1>4, <1>5, <1>7, <2>1, SameRecords
          DEF SavedFirst, Certain
<1>9. Tracked'
  <2> SUFFICES ASSUME Calm' PROVE Tracked'
    BY DEF Tracked
  <2>1. Calm /\ ~stale /\ Active = replicas
    BY <1>1 DEF Calm, SafeInv, Tracked, IInv, Follows, Serial
  <2>2. n.step # "patch" /\ (n.step = "register" => n.kind # "delete")
    BY <1>4 DEF FirstStep
  <2>3. n.step = "remove" => n.kind = "delete" /\ n.room \notin replicas
    BY <1>4, <2>1 DEF FirstStep, Active
  <2>4. n.kind = "delete" => n.target = n.room
    BY <1>4 DEF Target
  <2> QED BY <1>1, <2>1, <2>2, <2>3, <2>4 DEF Tracked, SafeInv
<1>10. Forgotten' /\ PodsRun'
  BY <1>1, <1>2, SameRecords DEF podVars, SafeInv, Forgotten, PodsRun, Calm
<1> QED BY <1>8, <1>9, <1>10 DEF SafeInv

\* A request begins with reading; what it asks for is of its kind.
LEMMA RequestKeepsSafeInv ==
    ASSUME IInv, SafeInv, NEW kind \in Kinds, NEW r, NEW arg,
           Request(kind, r, arg), kind = "scale" => arg \in Nat
    PROVE  SafeInv'
<1> DEFINE n == Mutation(kind, r, arg)
<1>1. n.kind = kind /\ n.room = r /\ n.arg = arg /\ n.step = "read"
  BY DEF Mutation
<1>2. /\ running = {} /\ running' = {n}
      /\ UNCHANGED <<registryVars, routes, replicas, patches, podVars,
                     ghostVars, faults>>
  BY DEF Request, MayRun
<1> HIDE DEF n
<1>3. RecordsStay
  BY <1>2 DEF RecordsStay, registryVars, ghostVars
<1>4. SavedFirst'
  BY <1>1, <1>2 DEF SavedFirst
<1>5. Tracked'
  BY <1>1, <1>2 DEF SafeInv, Tracked, Calm, ghostVars
<1>6. Forgotten' /\ PodsRun'
  BY <1>2, <1>3, SameRecords DEF SafeInv, Forgotten, PodsRun, Calm, podVars
<1> QED BY <1>4, <1>5, <1>6 DEF SafeInv

\* A room that runs has been saved before it may be stopped.
LEMMA SaveKeepsSafeInv ==
    ASSUME IInv, SafeInv, NEW m \in running,
           Save(m) \/ ScaleBegins(m) \/ Observe(m)
    PROVE  SafeInv'
<1>1. /\ running = {m}
      /\ DOMAIN m = MutationFields
  BY DEF IInv, Serial, Typed
<1>2. RecordsStay /\ UNCHANGED <<patches, replicas, faults>>
  BY DEF Save, ScaleBegins, Observe, RecordsStay, registryVars, ghostVars
<1>3. CASE Save(m)
  <2>1. PICK r \in m.rooms : /\ Becomes(m, [m EXCEPT !.rooms = @ \ {r}])
                             /\ r \in pod
                             /\ snapshot' = snapshot \cup {r}
                             /\ saved' = saved \cup {r}
    BY <1>3 DEF Save
  <2> DEFINE n == [m EXCEPT !.rooms = @ \ {r}]
  <2>2. /\ n.kind = m.kind /\ n.room = m.room /\ n.arg = m.arg
        /\ n.step = m.step /\ n.target = m.target /\ n.rooms = m.rooms \ {r}
    BY <1>1 DEF MutationFields
  <2>3. /\ running' = {n} /\ m.step = "save"
        /\ UNCHANGED <<stale, pod, lease>>
    BY <1>1, <1>3, <2>1 DEF Becomes, Save
  <2> HIDE DEF n
  <2>4. SavedFirst'
    BY <1>2, <2>1, <2>2, <2>3, SameRecords DEF SafeInv, SavedFirst, Certain
  <2>5. Tracked'
    BY <1>1, <1>2, <2>2, <2>3 DEF SafeInv, Tracked, Calm
  <2>6. Forgotten' /\ PodsRun'
    BY <1>2, <2>1, <2>3, SameRecords DEF SafeInv, Forgotten, PodsRun, Calm
  <2> QED BY <2>4, <2>5, <2>6 DEF SafeInv
<1>4. CASE ScaleBegins(m)
  <2>0. PICK n : n = [m EXCEPT !.step = "patch", !.rooms = Scaled(m)]
    OBVIOUS
  <2>1. /\ n.kind = m.kind /\ n.room = m.room /\ n.arg = m.arg
        /\ n.step = "patch" /\ n.target = m.target /\ n.rooms = Scaled(m)
    BY <1>1, <2>0 DEF MutationFields
  <2>2. /\ running' = {n} /\ m.step = "save" /\ m.rooms = {}
        /\ UNCHANGED <<saved, stale, podVars>>
    BY <1>1, <1>4, <2>0 DEF Becomes, ScaleBegins, ghostVars
  <2>3. SavedFirst'
    BY <1>2, <2>1, <2>2, SameRecords DEF SafeInv, SavedFirst, Certain
  <2>4. Tracked'
    <3> SUFFICES ASSUME Calm' PROVE Tracked'
      BY DEF Tracked
    <3>1. Calm /\ ~stale /\ Active = replicas
      BY <1>1, <1>2, <2>2 DEF Calm, SafeInv, Tracked, IInv, Follows
    <3>2. \A r \in replicas : Exists(r)
      BY <3>1 DEF Active
    <3>3. n.rooms = Scaled(n)'
      BY <1>2, <2>1 DEF Scaled
    <3>4. patches = {}
      BY <3>1 DEF SafeInv, Tracked
    <3>5. /\ \A r \in replicas' : Exists(r)' \/ r < n.target
          /\ n.kind = "delete" => n.target = n.room
      <4>1. replicas \subseteq Room
        BY DEF IInv, Typed
      <4> QED BY <1>2, <2>1, <2>2, <3>1, <3>2, <4>1, SameRecords
              DEF SafeInv, Tracked
    <3> QED BY <1>2, <2>1, <2>2, <3>3, <3>4, <3>5 DEF Tracked
  <2>5. Forgotten' /\ PodsRun'
    BY <1>2, <2>2, SameRecords DEF SafeInv, Forgotten, PodsRun, Calm, podVars
  <2> QED BY <2>3, <2>4, <2>5 DEF SafeInv
<1>5. CASE Observe(m)
  <2> DEFINE n == [m EXCEPT !.step = "register", !.rooms = replicas]
  <2>1. /\ n.kind = m.kind /\ n.room = m.room /\ n.arg = m.arg
        /\ n.step = "register" /\ n.target = m.target
    BY <1>1 DEF MutationFields
  <2>2. /\ running' = {n} /\ m.step = "patch" /\ m.rooms = {}
        /\ ~stale'
        /\ UNCHANGED podVars
    BY <1>1, <1>5 DEF Becomes, Observe
  <2> HIDE DEF n
  <2>3. SavedFirst'
    BY <2>1, <2>2 DEF SafeInv, SavedFirst
  <2>4. Tracked'
    <3> SUFFICES ASSUME Calm' PROVE Tracked'
      BY DEF Tracked
    <3>1. Calm /\ Scaled(m) = {}
      BY <1>2, <2>2 DEF Calm, SafeInv, Tracked
    <3>2. m.kind = "delete" => m.target = m.room /\ m.room \in Room
      BY <2>2, <3>1 DEF SafeInv, Tracked, IInv, Typed
    <3>3. m.kind = "delete" => m.room \notin replicas
      BY <3>1, <3>2 DEF Scaled, Room
    <3> QED BY <1>2, <2>1, <2>2, <3>1, <3>2, <3>3 DEF SafeInv, Tracked
  <2>5. Forgotten' /\ PodsRun'
    BY <1>2, <2>2, SameRecords DEF SafeInv, Forgotten, PodsRun, Calm, podVars
  <2> QED BY <2>3, <2>4, <2>5 DEF SafeInv
<1> QED BY <1>3, <1>4, <1>5

\* What has to change is patched, one Deployment at a time (scaler.ts:134-151).
LEMMA PatchKeepsSafeInv ==
    ASSUME IInv, SafeInv, NEW m \in running, Patch(m)
    PROVE  /\ SafeInv'
           /\ Certain(m) => Active \cap (replicas \ replicas') \subseteq saved
<1>1. running = {m} /\ DOMAIN m = MutationFields
  BY DEF IInv, Serial, Typed
<1>2. PICK r \in m.rooms : /\ SetReplicas(r, Desired(m, r))
                           /\ Becomes(m, [m EXCEPT !.rooms = @ \ {r}])
  BY DEF Patch
<1> DEFINE n == [m EXCEPT !.rooms = @ \ {r}]
<1>3. /\ n.kind = m.kind /\ n.room = m.room /\ n.arg = m.arg
      /\ n.step = m.step /\ n.target = m.target /\ n.rooms = m.rooms \ {r}
  BY <1>1 DEF MutationFields
<1>4. /\ running' = {n} /\ m.step = "patch"
      /\ RecordsStay
      /\ UNCHANGED <<saved, patches, faults>>
  BY <1>1, <1>2 DEF Becomes, Patch, RecordsStay, registryVars
<1> HIDE DEF n
<1>5. m.rooms \subseteq Room
  BY <1>4 DEF IInv, Typed
<1>6. \/ r < m.target /\ replicas' = replicas \cup {r} /\ UNCHANGED podVars
      \/ /\ ~(r < m.target)
         /\ replicas' = replicas \ {r}
         /\ pod' = pod \ {r}
         /\ lease' = lease \/ lease' = [lease EXCEPT ![r] = "old"]
         /\ UNCHANGED snapshot
  BY <1>2 DEF SetReplicas, Desired, Terminates
<1>7. SavedFirst'
  BY <1>3, <1>4, SameRecords DEF SafeInv, SavedFirst, Certain
<1>8. Tracked'
  <2> SUFFICES ASSUME Calm' PROVE Tracked'
    BY DEF Tracked
  <2>1. Calm /\ m.rooms = Scaled(m)
    BY <1>4 DEF Calm, SafeInv, Tracked
  <2>2. n.rooms = Scaled(n)'
    BY <1>3, <1>6, <2>1 DEF Scaled
  <2>3. \A q \in replicas' : Exists(q)' \/ q < n.target
    <3>1. \A q \in replicas : Exists(q) \/ q < m.target
      BY <1>4, <2>1 DEF SafeInv, Tracked
    <3>2. replicas \subseteq Room
      BY DEF IInv, Typed
    <3> QED BY <1>3, <1>4, <1>6, <3>1, <3>2, SameRecords
  <2> QED BY <1>3, <1>4, <2>1, <2>2, <2>3 DEF SafeInv, Tracked
<1>9. Forgotten'
  <2> SUFFICES ASSUME Calm', NEW q \in Room, ~Exists(q), q \notin pod'
               PROVE  q \notin snapshot' /\ lease'[q] = None
    BY <1>4, SameRecords DEF Forgotten
  <2>1. Calm /\ m.rooms = Scaled(m)
    BY <1>4 DEF Calm, SafeInv, Tracked
  <2>2. q = r => r < m.target
    BY <1>2, <1>4, <1>6, <2>1 DEF Scaled, SafeInv, Tracked
  <2>3. q \notin pod /\ snapshot' = snapshot
    BY <1>6, <2>2 DEF podVars
  <2>4. q \notin snapshot /\ lease[q] = None
    BY <2>1, <2>3 DEF SafeInv, Forgotten
  <2>5. lease'[q] = lease[q]
    BY <1>6, <2>2 DEF podVars, SafeInv, PodsRun
  <2> QED BY <2>3, <2>4, <2>5
<1>10. PodsRun'
  BY <1>6 DEF podVars, SafeInv, PodsRun
<1>11. ASSUME Certain(m), NEW q \in Active, q \in replicas \ replicas'
       PROVE  q \in saved
  BY <1>4, <1>6, <1>11 DEF SafeInv, SavedFirst
<1> QED BY <1>7, <1>8, <1>9, <1>10, <1>11 DEF SafeInv

\* A mutation that is rejected or that fails stops nothing more; the patches that
\* it has left under way do (Promise.all, scaler.ts:139-150).
LEMMA StopKeepsSafeInv ==
    ASSUME IInv, SafeInv, NEW m \in running,
           Rejected(m) \/ SaveFails(m) \/ PatchFails(m) \/ RegisterFails(m)
    PROVE  SafeInv'
<1>1. running' = {} /\ running = {m}
  BY DEF Rejected, SaveFails, PatchFails, RegisterFails, Ends, IInv, Serial
<1>2. /\ RecordsStay
      /\ UNCHANGED <<replicas, podVars>>
      /\ faults \subseteq faults'
  BY DEF Rejected, SaveFails, PatchFails, RegisterFails, Occurs, RecordsStay,
     registryVars, ghostVars
<1>3. Calm' => Calm /\ m.step # "patch" /\ UNCHANGED <<patches, stale>>
  BY <1>2 DEF Calm, Rejected, SaveFails, PatchFails, RegisterFails, Occurs,
     ghostVars
<1>4. SavedFirst' /\ Tracked'
  BY <1>1, <1>3 DEF SavedFirst, SafeInv, Tracked
<1>5. Forgotten' /\ PodsRun'
  BY <1>2, <1>3, SameRecords DEF SafeInv, Forgotten, PodsRun, podVars
<1> QED BY <1>4, <1>5 DEF SafeInv

\* Registering with the gateway concerns no Deployment and no snapshot.
LEMMA RegisterKeepsSafeInv ==
    ASSUME IInv, SafeInv, NEW m \in running, Register(m)
    PROVE  SafeInv'
<1>1. /\ RecordsStay
      /\ UNCHANGED <<running, replicas, patches, podVars, saved, stale, faults>>
  BY DEF Register, RecordsStay, ghostVars
<1>2. \A n \in running : n.step # "patch"
  BY DEF Register, IInv, Serial
<1>3. SavedFirst'
  BY <1>1, SameRecords DEF SafeInv, SavedFirst, Certain
<1>4. Tracked'
  BY <1>1, <1>2 DEF SafeInv, Tracked, Calm
<1>5. Forgotten' /\ PodsRun'
  BY <1>1, SameRecords DEF SafeInv, Forgotten, PodsRun, Calm, podVars
<1> QED BY <1>3, <1>4, <1>5 DEF SafeInv

\* Reconciling gives every room a record.
LEMMA ReconcileKeepsSafeInv ==
    ASSUME IInv, NoneAssumption, SafeInv, NEW m \in running, Reconcile(m)
    PROVE  SafeInv'
<1>1. /\ m.step = "register"
      /\ record' = Reconciled(m.rooms)
      /\ UNCHANGED <<replicas, patches, podVars, saved, stale, faults>>
  BY DEF Reconcile, ghostVars
<1>2. running = {m} /\ DOMAIN m = MutationFields
  BY DEF IInv, Serial, Typed
<1> DEFINE n == [m EXCEPT !.step = "remove"]
<1>3. /\ n.kind = m.kind /\ n.room = m.room /\ n.arg = m.arg
      /\ n.step = "remove" /\ n.target = m.target
  BY <1>2 DEF MutationFields
<1>4. \/ running' = {}
      \/ running' = {n} /\ m.kind = "delete"
  BY <1>2 DEF Reconcile, Becomes, Ends
<1> HIDE DEF n
<1>5. \A r \in Room : Exists(r)'
  <2>1. ASSUME NEW r \in Room PROVE record'[r] \in RecordType
    <3>1. record'[r] = [active |-> r \in m.rooms,
                        locked |-> Exists(r) /\ record[r].locked]
      BY <1>1 DEF Reconciled
    <3>2. ~Exists(r) \/ record[r].locked \in BOOLEAN
      BY DEF IInv, Typed, RecordType
    <3> QED BY <3>1, <3>2 DEF RecordType
  <2> QED BY <2>1 DEF Exists, NoneAssumption
<1>6. SavedFirst'
  BY <1>2, <1>3, <1>4 DEF SafeInv, SavedFirst
<1>7. Tracked'
  BY <1>1, <1>2, <1>3, <1>4 DEF SafeInv, Tracked, Calm
<1>8. Forgotten' /\ PodsRun'
  BY <1>1, <1>5 DEF SafeInv, Forgotten, PodsRun, podVars
<1> QED BY <1>6, <1>7, <1>8 DEF SafeInv

\* Writing the record of one room, also when its pod is killed, leaves the
\* Deployments as they are.
LEMMA WriteKeepsSafeInv ==
    ASSUME IInv, NoneAssumption, SafeInv, NEW m \in running,
           Write(m) \/ Kill(m)
    PROVE  SafeInv'
<1>1. /\ running = {m} /\ running' = {}
      /\ m.step \in {"write", "kill"}
      /\ m.room \in Room /\ Exists(m.room) /\ m.view = record[m.room]
      /\ m.view \in RecordType
      /\ UNCHANGED <<replicas, patches, stale, faults>>
  BY DEF Write, Kill, Ends, IInv, Serial, Typed, ghostVars
<1>2. \A r \in Room : Exists(r)' <=> Exists(r)
  <2>1. CASE Kill(m)
    BY <1>1, <2>1 DEF Kill, IInv, Typed, Exists
  <2>2. CASE Write(m)
    <3>1. \E b : /\ record' = [record EXCEPT ![m.room] =
                                  [m.view EXCEPT !.locked = b]]
                 /\ b \in BOOLEAN
      BY <1>1, <2>2 DEF Write, IInv, Typed, RecordType
    <3>2. /\ record'[m.room] \in RecordType
          /\ \A r \in Room \ {m.room} : record'[r] = record[r]
      BY <1>1, <3>1 DEF IInv, Typed, RecordType
    <3> QED BY <1>1, <3>2 DEF Exists, NoneAssumption
  <2> QED BY <2>1, <2>2
<1>3. \/ UNCHANGED podVars
      \/ /\ pod' = pod \ {m.room} /\ UNCHANGED snapshot
         /\ lease' = lease \/ lease' = [lease EXCEPT ![m.room] = "old"]
  BY DEF Write, Kill, Terminates
<1>4. SavedFirst' /\ Tracked'
  BY <1>1 DEF SavedFirst, SafeInv, Tracked, Calm
<1>5. PodsRun'
  BY <1>1, <1>3 DEF SafeInv, PodsRun, podVars
<1>6. Forgotten'
  <2> SUFFICES ASSUME Calm', NEW r \in Room, ~Exists(r)', r \notin pod'
               PROVE  r \notin snapshot' /\ lease'[r] = None
    BY DEF Forgotten
  <2>1. Calm /\ ~Exists(r) /\ r # m.room
    BY <1>1, <1>2 DEF Calm
  <2>2. r \notin pod /\ lease'[r] = lease[r] /\ snapshot' = snapshot
    BY <1>3, <2>1 DEF podVars, SafeInv, PodsRun
  <2> QED BY <2>1, <2>2 DEF SafeInv, Forgotten
<1> QED BY <1>4, <1>5, <1>6 DEF SafeInv

\* A removed room leaves neither a snapshot nor a lease (registry.ts:86-96).
LEMMA RemoveKeepsSafeInv ==
    ASSUME IInv, SafeInv, NEW m \in running, Remove(m)
    PROVE  SafeInv'
<1>1. /\ running = {m} /\ running' = {}
      /\ m.step = "remove" /\ m.room \in Room
      /\ record' = [record EXCEPT ![m.room] = None]
      /\ snapshot' = snapshot \ {m.room}
      /\ lease' = [lease EXCEPT ![m.room] = None]
      /\ stale' = (stale \/ m.room \in replicas)
      /\ UNCHANGED <<replicas, patches, pod, faults>>
  BY DEF Remove, LeaseAfterRemoval, Ends, IInv, Serial, Typed
<1>2. \A r \in Room \ {m.room} : Exists(r)' <=> Exists(r)
  BY <1>1 DEF Exists, IInv, Typed
<1>3. SavedFirst' /\ Tracked'
  BY <1>1 DEF SavedFirst, SafeInv, Tracked, Calm
<1>4. Forgotten' /\ PodsRun'
  BY <1>1, <1>2 DEF SafeInv, Forgotten, PodsRun, Calm
<1> QED BY <1>3, <1>4 DEF SafeInv

\* A pod only stores a snapshot while it holds the lease of its room; a patch
\* that comes late, and somebody else's, are faults; a restart reads again which
\* rooms run.
LEMMA EnvironmentKeepsSafeInv ==
    ASSUME IInv, SafeInv,
           \/ \E p \in patches : LatePatch(p)
           \/ Pods
           \/ \E r \in Room : External(r)
           \/ GatewayRestarts
           \/ Restart
           \/ UNCHANGED vars
    PROVE  SafeInv'
<1>1. CASE \/ \E p \in patches : LatePatch(p)
           \/ \E r \in Room : External(r)
  <2>1. PICK r, k : SetReplicas(r, k)
    BY <1>1 DEF LatePatch, External
  <2>2. /\ ~Calm'
        /\ RecordsStay
        /\ UNCHANGED <<running, saved>>
    BY <1>1 DEF LatePatch, External, Occurs, Calm, SafeInv, Tracked,
       RecordsStay, registryVars
  <2>3. SavedFirst'
    BY <2>2, SameRecords DEF SafeInv, SavedFirst, Certain
  <2>4. PodsRun'
    BY <2>1 DEF SetReplicas, Terminates, podVars, SafeInv, PodsRun
  <2> QED BY <2>2, <2>3, <2>4 DEF SafeInv, Tracked, Forgotten
<1>2. CASE Pods
  <2>1. /\ RecordsStay
        /\ UNCHANGED <<running, replicas, patches, saved, stale, faults>>
    BY <1>2 DEF Pods, PodStarts, PodAcquires, PodSaves, PodIsGone, RecordsStay,
       registryVars, ghostVars
  <2>2. PICK r \in Room : \/ PodStarts(r) \/ PodAcquires(r) \/ PodSaves(r)
                          \/ PodIsGone(r)
    BY <1>2 DEF Pods
  <2>3. SavedFirst'
    BY <2>1, SameRecords DEF SafeInv, SavedFirst, Certain
  <2>4. Tracked'
    <3>1. \A m \in running : Scaled(m)' = Scaled(m)
      BY <2>1 DEF Scaled
    <3>2. replicas \subseteq Room
      BY DEF IInv, Typed
    <3> QED BY <2>1, <3>1, <3>2, SameRecords DEF SafeInv, Tracked, Calm
  <2>5. PodsRun'
    BY <2>1, <2>2 DEF PodStarts, PodAcquires, PodSaves, PodIsGone, SafeInv,
       PodsRun
  <2>6. Forgotten'
    <3> SUFFICES ASSUME Calm', NEW q \in Room, ~Exists(q), q \notin pod'
                 PROVE  q \notin snapshot' /\ lease'[q] = None
      BY <2>1, SameRecords DEF Forgotten
    <3>1. q \notin pod /\ q \notin snapshot /\ lease[q] = None
      BY <2>1, <2>2 DEF PodStarts, PodAcquires, PodSaves, PodIsGone, SafeInv,
         Forgotten, Calm
    <3> QED BY <2>2, <3>1 DEF PodStarts, PodAcquires, PodSaves, PodIsGone,
            SafeInv, PodsRun
  <2> QED BY <2>3, <2>4, <2>5, <2>6 DEF SafeInv
<1>3. CASE GatewayRestarts \/ UNCHANGED vars
  <2>1. /\ RecordsStay
        /\ faults \subseteq faults'
        /\ UNCHANGED <<running, replicas, patches, podVars, saved, stale>>
    BY <1>3 DEF GatewayRestarts, Occurs, RecordsStay, registryVars, ghostVars,
       vars
  <2>2. SavedFirst'
    BY <2>1, SameRecords DEF SafeInv, SavedFirst, Certain
  <2>3. Tracked'
    <3>1. \A m \in running : Scaled(m)' = Scaled(m)
      BY <2>1 DEF Scaled
    <3>2. replicas \subseteq Room
      BY DEF IInv, Typed
    <3> QED BY <2>1, <3>1, <3>2, SameRecords DEF SafeInv, Tracked, Calm
  <2>4. Forgotten' /\ PodsRun'
    BY <2>1, SameRecords DEF SafeInv, Forgotten, PodsRun, Calm, podVars
  <2> QED BY <2>2, <2>3, <2>4 DEF SafeInv
<1>4. CASE Restart
  <2> DEFINE n == [Mutation("list", 0, None) EXCEPT !.step = "register",
                                                    !.rooms = replicas]
  <2>1. n.kind = "list" /\ n.step = "register"
    BY DEF Mutation
  <2>2. /\ running' = {n} /\ stale' = FALSE
        /\ RecordsStay
        /\ faults \subseteq faults'
        /\ UNCHANGED <<replicas, patches, podVars>>
    BY <1>4 DEF Restart, Occurs, RecordsStay
  <2> HIDE DEF n
  <2>3. SavedFirst' /\ Tracked'
    BY <2>1, <2>2 DEF SavedFirst, Kinds, SafeInv, Tracked, Calm
  <2>4. Forgotten' /\ PodsRun'
    BY <2>2, SameRecords DEF SafeInv, Forgotten, PodsRun, Calm, podVars
  <2> QED BY <2>3, <2>4 DEF SafeInv
<1> QED BY <1>1, <1>2, <1>3, <1>4

LEMMA NextSafeInv ==
    ASSUME MaxRooms \in Nat, NoneAssumption, IInv, SafeInv, [Next]_vars
    PROVE  SafeInv'
<1>1. CASE Requests
  <2>1. PICK kind, r, arg :
           /\ kind \in Kinds
           /\ Request(kind, r, arg)
           /\ kind = "scale" => arg \in Nat
    BY <1>1 DEF Requests, Kinds
  <2> QED BY <2>1, RequestKeepsSafeInv
<1>2. ASSUME NEW m \in running, Progress(m) PROVE SafeInv'
  BY <1>2, ReadKeepsSafeInv, SaveKeepsSafeInv, PatchKeepsSafeInv,
     StopKeepsSafeInv, RegisterKeepsSafeInv, ReconcileKeepsSafeInv,
     WriteKeepsSafeInv, RemoveKeepsSafeInv DEF Progress
<1>3. CASE \/ \E p \in patches : LatePatch(p)
           \/ Pods
           \/ \E r \in Room : External(r)
           \/ GatewayRestarts
           \/ Restart
           \/ UNCHANGED vars
  BY <1>3, EnvironmentKeepsSafeInv
<1> QED BY <1>1, <1>2, <1>3 DEF Next

LEMMA SpecSafeInv ==
    ASSUME MaxRooms \in Nat, NoneAssumption
    PROVE  Spec => [](IInv /\ SafeInv)
<1>1. Init => IInv /\ SafeInv
  BY InitIInv, InitSafeInv
<1>2. IInv /\ SafeInv /\ [Next]_vars => (IInv /\ SafeInv)'
  BY NextIInv, NextSafeInv
<1> QED BY <1>1, <1>2, PTL DEF Spec

\* A deleted room does not get its snapshot back from its terminating pod, unless
\* the registry does not know which rooms run (main.ts:838-855, registry.ts:86-96).
THEOREM DeletedIsForgottenAlways ==
    ASSUME MaxRooms \in Nat, NoneAssumption
    PROVE  Spec => []DeletedIsForgotten
<1>1. SafeInv => DeletedIsForgotten
  BY DEF SafeInv, Forgotten, Calm, DeletedIsForgotten
<1> QED BY <1>1, SpecSafeInv, PTL

\* What a step of the mutation that patches does to the Deployments.
LEMMA StepStopsSaved ==
    ASSUME IInv, SafeInv, Next, NEW m \in running,
           m.step = "patch", running' # running, Certain(m),
           NEW r \in replicas \ replicas', r \in Active
    PROVE  r \in saved
<1>1. running = {m}
  BY DEF IInv, Serial
<1>2. CASE Patch(m)
  BY <1>2, PatchKeepsSafeInv
<1>3. CASE ~Patch(m)
  <2>1. CASE Requests
    BY <1>1, <2>1 DEF Requests, Request, MayRun
  <2>2. CASE Progress(m)
    BY <1>3, <2>2 DEF Progress, Rejected, Read, Save, SaveFails, ScaleBegins,
       PatchFails, Observe, Register, RegisterFails, Reconcile, Write, Kill,
       Remove
  <2>3. CASE GatewayRestarts \/ Restart
    BY <2>3 DEF GatewayRestarts, Restart
  <2>4. CASE Pods \/ \E p \in patches : LatePatch(p)
    BY <2>4 DEF Pods, PodStarts, PodAcquires, PodSaves, PodIsGone, LatePatch
  <2>5. CASE \E q \in Room : External(q)
    BY <2>5 DEF External
  <2> QED BY <1>1, <2>1, <2>2, <2>3, <2>4, <2>5 DEF Next
<1> QED BY <1>2, <1>3

\* A mutation that stops or deletes a room has had it saved, and so has one that
\* scales, if the active rooms have no gap (main.ts:296-303, 822-855).
THEOREM StoppedIsSavedAlways ==
    ASSUME MaxRooms \in Nat, NoneAssumption
    PROVE  Spec => StoppedIsSaved
<1> DEFINE Saves == \A m \in running :
                       /\ m.step = "patch" /\ running' # running
                       /\ m.kind \in {"stop", "delete"} \/ NoGap
                       => \A r \in replicas \ replicas' :
                             r \in Active => r \in saved
<1>1. IInv /\ SafeInv /\ [Next]_vars => [Saves]_vars
  BY StepStopsSaved DEF Certain
<1>2. Spec => [][Saves]_vars
  BY <1>1, SpecSafeInv, PTL DEF Spec
<1> QED BY <1>2 DEF StoppedIsSaved

-----------------------------------------------------------------------------
(* The types.                                                              *)

PodsTyped ==
    /\ pod \subseteq Room /\ terminating \subseteq Room
    /\ lease \in [Room -> {None, "pod", "old"}]
    /\ snapshot \subseteq Room

LockKeyTyped == lockKey \in [Room -> BOOLEAN \cup {None}]

\* The mutations: the rooms that one registers have been read.
RunningTyped ==
    \A m \in running : /\ m.kind \in Kinds /\ m.step \in Steps
                       /\ m.step = "register" => m.rooms \subseteq Room

BoundsTyped ==
    /\ registered \subseteq Room /\ routes \subseteq Room
    /\ requests \in 0..MaxRequests
    /\ faults \subseteq Fault

TypeInv == PodsTyped /\ LockKeyTyped /\ RunningTyped /\ BoundsTyped

\* The gateway is configured with rooms of the fleet.
BoundsAssumption == MaxRequests \in Nat /\ DefaultRooms \subseteq Room

LEMMA InitTypeInv == Init /\ BoundsAssumption => TypeInv
  BY DEF Init, BoundsAssumption, TypeInv, PodsTyped, LockKeyTyped, RunningTyped,
     BoundsTyped

\* The pod of a room is told to terminate, or its Deployment gets a replica.
LEMMA ScalingKeepsPodsTyped ==
    ASSUME PodsTyped, NEW r \in Room, NEW n,
           Terminates(r) \/ SetReplicas(r, n) \/ UNCHANGED podVars
    PROVE  PodsTyped'
  BY DEF PodsTyped, Terminates, SetReplicas, podVars

\* Every step of the pods, the mutations and the environment keeps the types of
\* what the pods hold.
LEMMA NextPodsTyped ==
    ASSUME IInv, PodsTyped, [Next]_vars
    PROVE  PodsTyped'
<1>1. CASE Requests \/ GatewayRestarts \/ Restart \/ UNCHANGED vars
  BY <1>1 DEF Requests, Request, GatewayRestarts, Restart, vars, podVars,
     PodsTyped
<1>2. ASSUME NEW m \in running, Progress(m) PROVE PodsTyped'
  <2>1. CASE Save(m)
    BY <2>1 DEF Save, PodsTyped
  <2>2. CASE Patch(m)
    <3>1. PICK r \in m.rooms : SetReplicas(r, Desired(m, r))
      BY <2>2 DEF Patch
    <3>2. r \in Room
      BY <2>2, <3>1 DEF Patch, IInv, Typed
    <3> QED BY <3>1, <3>2, ScalingKeepsPodsTyped
  <2>3. CASE Kill(m)
    <3>1. m.room \in Room
      BY <2>3 DEF Kill, IInv, Typed
    <3>2. Terminates(m.room) \/ UNCHANGED podVars
      BY <2>3 DEF Kill
    <3> QED BY <3>1, <3>2, ScalingKeepsPodsTyped
  <2>4. CASE Remove(m)
    BY <2>4 DEF Remove, LeaseAfterRemoval, PodsTyped
  <2>5. ASSUME ~Save(m), ~Patch(m), ~Kill(m), ~Remove(m)
        PROVE  UNCHANGED podVars
    BY <1>2, <2>5 DEF Progress, Rejected, Read, SaveFails, ScaleBegins,
       PatchFails, Observe, Register, RegisterFails, Reconcile, Write, podVars
  <2> QED BY <2>1, <2>2, <2>3, <2>4, <2>5 DEF PodsTyped, podVars
<1>3. ASSUME NEW p \in patches, LatePatch(p) PROVE PodsTyped'
  BY <1>3, ScalingKeepsPodsTyped DEF LatePatch, IInv, Typed
<1>4. CASE Pods
  BY <1>4 DEF Pods, PodStarts, PodAcquires, PodSaves, PodIsGone, PodsTyped
<1>5. ASSUME NEW r \in Room, External(r) PROVE PodsTyped'
  BY <1>5, ScalingKeepsPodsTyped DEF External
<1> QED BY <1>1, <1>2, <1>3, <1>4, <1>5 DEF Next

\* The key that admission reads is only written from records, and only with
\* None for a room that has none.
LEMMA NextLockKeyTyped ==
    ASSUME IInv, IInv', LockKeyTyped, [Next]_vars
    PROVE  LockKeyTyped'
<1>1. lockKey' = LocksOf(record') => LockKeyTyped'
  <2> SUFFICES ASSUME lockKey' = LocksOf(record') PROVE LockKeyTyped'
    OBVIOUS
  <2>1. ASSUME NEW r \in Room PROVE lockKey'[r] \in BOOLEAN \cup {None}
    BY DEF IInv, Locks, LockIsKept, Typed
  <2> QED BY <2>1 DEF LocksOf, LockKeyTyped
<1>2. CASE Requests \/ Pods \/ GatewayRestarts \/ Restart \/ UNCHANGED vars
  BY <1>2 DEF Requests, Request, Pods, PodStarts, PodAcquires, PodSaves,
     PodIsGone, GatewayRestarts, Restart, vars, registryVars, LockKeyTyped
<1>3. ASSUME NEW m \in running, Progress(m) PROVE LockKeyTyped'
  <2>1. CASE Reconcile(m) \/ Write(m) \/ Kill(m)
    BY <1>1, <2>1 DEF Reconcile, Write, Kill, LockKeyTyped
  <2>2. CASE Remove(m)
    BY <2>2 DEF Remove, LockKeyTyped
  <2>3. ASSUME ~Reconcile(m), ~Write(m), ~Kill(m), ~Remove(m)
        PROVE  lockKey' = lockKey
    BY <1>3, <2>3 DEF Progress, Rejected, Read, Save, SaveFails, ScaleBegins,
       Patch, PatchFails, Observe, Register, RegisterFails, registryVars
  <2> QED BY <2>1, <2>2, <2>3 DEF LockKeyTyped
<1>4. (\E p \in patches : LatePatch(p)) \/ (\E r \in Room : External(r))
         => lockKey' = lockKey
  BY DEF LatePatch, External, registryVars
<1> QED BY <1>2, <1>3, <1>4 DEF Next, LockKeyTyped

\* A mutation goes on with a step of its kind, and registers the rooms whose
\* Deployments it has read.
LEMMA NextRunningTyped ==
    ASSUME IInv, RunningTyped, [Next]_vars
    PROVE  RunningTyped'
<1> USE DEF RunningTyped
<1>1. CASE Requests
  BY <1>1 DEF Requests, Request, Mutation, Kinds, Steps
<1>2. ASSUME NEW m \in running, Progress(m) PROVE RunningTyped'
  <2>1. DOMAIN m = MutationFields /\ replicas \subseteq Room
    BY DEF IInv, Typed
  <2>2. ASSUME NEW n, Becomes(m, n), n.kind = m.kind, n.step \in Steps,
               n.step = "register" => n.rooms \subseteq Room
        PROVE  RunningTyped'
    BY <2>2 DEF Becomes
  <2>3. CASE Read(m)
    <3> DEFINE n == [m EXCEPT !.step = FirstStep(m), !.target = Target(m),
                              !.rooms = IF m.kind = "list" THEN replicas
                                        ELSE Stopping(m),
                              !.view = IF m.kind \in {"lock", "spec", "failure"}
                                       THEN record[m.room] ELSE None]
    <3>1. Becomes(m, n)
      BY <2>3 DEF Read
    <3>2. /\ n.kind = m.kind /\ n.step = FirstStep(m)
          /\ m.kind = "list" => n.rooms = replicas
      BY <2>1 DEF MutationFields
    <3>3. FirstStep(m) \in Steps /\ (FirstStep(m) = "register" => m.kind = "list")
      BY DEF FirstStep, Steps
    <3> HIDE DEF n
    <3> QED BY <2>1, <2>2, <3>1, <3>2, <3>3
  <2>4. CASE Save(m) \/ Patch(m)
    <3>1. PICK r \in m.rooms : Becomes(m, [m EXCEPT !.rooms = @ \ {r}])
      BY <2>4 DEF Save, Patch
    <3> DEFINE n == [m EXCEPT !.rooms = @ \ {r}]
    <3>2. /\ n.kind = m.kind /\ n.step = m.step
          /\ m.step # "register"
      BY <2>1, <2>4 DEF MutationFields, Save, Patch
    <3> QED BY <2>2, <3>1, <3>2
  <2>5. CASE ScaleBegins(m)
    BY <2>1, <2>2, <2>5 DEF ScaleBegins, MutationFields, Steps
  <2>6. CASE Observe(m)
    BY <2>1, <2>2, <2>6 DEF Observe, MutationFields, Steps
  <2>7. CASE Reconcile(m)
    <3>1. Ends(m) \/ Becomes(m, [m EXCEPT !.step = "remove"])
      BY <2>7 DEF Reconcile
    <3> QED BY <2>1, <2>2, <3>1 DEF MutationFields, Steps, Ends
  <2>8. CASE \/ Rejected(m) \/ SaveFails(m) \/ PatchFails(m) \/ Register(m)
             \/ RegisterFails(m) \/ Write(m) \/ Kill(m) \/ Remove(m)
    BY <2>8 DEF Rejected, SaveFails, PatchFails, Register, RegisterFails, Write,
       Kill, Remove, Ends
  <2> QED BY <1>2, <2>3, <2>4, <2>5, <2>6, <2>7, <2>8 DEF Progress
<1>3. CASE Restart
  BY <1>3 DEF Restart, Mutation, Kinds, Steps, IInv, Typed
<1>4. CASE \/ \E p \in patches : LatePatch(p)
           \/ Pods \/ GatewayRestarts \/ UNCHANGED vars
           \/ \E r \in Room : External(r)
  BY <1>4 DEF LatePatch, Pods, PodStarts, PodAcquires, PodSaves, PodIsGone,
     GatewayRestarts, External, vars
<1> QED BY <1>1, <1>2, <1>3, <1>4 DEF Next

\* What is registered and routed is a room; the bounds hold.
LEMMA NextBoundsTyped ==
    ASSUME IInv, BoundsAssumption, RunningTyped, BoundsTyped, [Next]_vars
    PROVE  BoundsTyped'
<1> USE DEF BoundsAssumption, BoundsTyped
<1>1. CASE Requests
  BY <1>1 DEF Requests, Request, registryVars
<1>2. ASSUME NEW m \in running, Progress(m) PROVE BoundsTyped'
  <2>1. CASE Register(m)
    BY <2>1 DEF Register, Unregistered, RunningTyped
  <2>2. CASE Reconcile(m)
    BY <2>2 DEF Reconcile
  <2>3. ASSUME ~Register(m), ~Reconcile(m)
        PROVE  /\ UNCHANGED <<registered, routes, requests>>
               /\ faults' = faults \/ \E kind : Occurs(kind)
    BY <1>2, <2>3 DEF Progress, Rejected, Read, Save, SaveFails, ScaleBegins,
       Patch, PatchFails, Observe, RegisterFails, Write, Kill, Remove,
       registryVars
  <2> QED BY <2>1, <2>2, <2>3 DEF Occurs
<1>3. CASE \/ \E p \in patches : LatePatch(p)
           \/ Pods \/ GatewayRestarts \/ Restart \/ UNCHANGED vars
           \/ \E r \in Room : External(r)
  BY <1>3 DEF LatePatch, Pods, PodStarts, PodAcquires, PodSaves, PodIsGone,
     GatewayRestarts, Restart, External, Occurs, registryVars, vars
<1> QED BY <1>1, <1>2, <1>3 DEF Next

\* The registry, the routes and what the pods hold stay well formed, through
\* failed calls and restarts (main.ts, registry.ts, scaler.ts): there is a
\* record or None for each room and the lease is held by a pod of the room, or
\* nobody.
THEOREM TypeOKAlways ==
    ASSUME NoneAssumption, BoundsAssumption
    PROVE  Spec => []TypeOK
<1>1. Init => IInv /\ TypeInv
  BY InitIInv, InitTypeInv
<1>2. IInv /\ TypeInv /\ [Next]_vars => (IInv /\ TypeInv)'
  BY NextIInv, NextPodsTyped, NextLockKeyTyped, NextRunningTyped,
     NextBoundsTyped DEF TypeInv
<1>3. IInv /\ TypeInv => TypeOK
  BY DEF IInv, Typed, TypeInv, PodsTyped, LockKeyTyped, RunningTyped,
     BoundsTyped, TypeOK, RecordType, Exists
<1> QED BY <1>1, <1>2, <1>3, PTL DEF Spec

=============================================================================
