------------------------- MODULE RoomHandoffProofs -------------------------
(***************************************************************************)
(* Proofs about RoomHandoff, for every number of handoffs and of saves and *)
(* every set of faults.                                                    *)
(*                                                                         *)
(* Inv says for each request of the program who is the Active, where the   *)
(* route leads, and what a cutover that was given up may still do.  Each   *)
(* kind of step has a lemma that it keeps Inv; HandoffKeeps, RecoverKeeps  *)
(* and EnvironmentKeeps name the actions of each kind.                     *)
(***************************************************************************)
EXTENDS RoomHandoff, TLAPS

-----------------------------------------------------------------------------
\* Types, by who keeps the state: the room's processes, the gateway, and the
\* program itself.
RoomType ==
    /\ pod \in [Pod -> Process]
    /\ \A p \in Pod : pod[p].loaded <= stored.version /\ pod[p].wrote <= stored.version
    /\ lease \in Pod \cup {None}
    /\ stored \in [version : Nat, epoch : Nat]

GatewayType ==
    /\ route \in Route
    /\ preparation \in Operation \cup {None}
    /\ verification \in Verification \cup {None}
    /\ cutover \in [Operation -> CutoverOperation]

MemoType == checksum \in Nat /\ currentEpoch \in Nat /\ rollbackEpoch \in Nat

BoundsType ==
    /\ handoffs \in 0..MaxHandoff
    /\ target \in [pod : Pod, epoch : Nat]
    /\ saves \in 0..MaxSave
    /\ broken \in BOOLEAN

ProgramType ==
    /\ at \in Label
    /\ failedAt \in Label
    /\ outcome \in Outcome
    /\ faults \subseteq Fault

LEMMA TypeParts ==
    TypeOK <=> /\ RoomType /\ GatewayType /\ MemoType /\ BoundsType /\ ProgramType
               /\ template \in Pod /\ context \in BOOLEAN
<1>1. \A p \in Pod : pod \in [Pod -> Process] /\ stored \in [version : Nat, epoch : Nat]
        => ({pod[p].loaded, pod[p].wrote} \subseteq 0..stored.version
              <=> pod[p].loaded <= stored.version /\ pod[p].wrote <= stored.version)
  BY DEF Process
<1>2. {checksum, currentEpoch, rollbackEpoch} \subseteq Nat <=> MemoType
  BY DEF MemoType
<1> QED
  BY <1>1, <1>2 DEF TypeOK, RoomType, GatewayType, BoundsType, ProgramType

LEMMA TypePartsNext ==
    TypeOK' <=> /\ RoomType' /\ GatewayType' /\ MemoType' /\ BoundsType' /\ ProgramType'
                /\ template' \in Pod /\ context' \in BOOLEAN
<1>1. \A p \in Pod : pod' \in [Pod -> Process] /\ stored' \in [version : Nat, epoch : Nat]
        => ({pod'[p].loaded, pod'[p].wrote} \subseteq 0..stored'.version
              <=> pod'[p].loaded <= stored'.version /\ pod'[p].wrote <= stored'.version)
  BY DEF Process
<1>2. {checksum', currentEpoch', rollbackEpoch'} \subseteq Nat <=> MemoType'
  BY DEF MemoType
<1> QED
  BY <1>1, <1>2 DEF TypeOK, RoomType, GatewayType, BoundsType, ProgramType

LEMMA PodsOfHandoff ==
    ASSUME TypeOK
    PROVE  Candidate \in Pod /\ Old \in Pod /\ Candidate \in Nat /\ Old \in Nat
BY BoundAssumption DEF TypeOK, Candidate, Old, Pod

\* What the requests do keeps the types.
LEMMA RemoveType ==
    ASSUME RoomType, NEW p \in Pod, Remove(p)
    PROVE  RoomType'
<1> DEFINE gone == [Absent EXCEPT !.role = "gone"]
<1>1. gone \in Process /\ gone.loaded = 0 /\ gone.wrote = 0
  BY DEF Absent, Process
<1>2. pod' = [pod EXCEPT ![p] = gone] /\ UNCHANGED stored
      /\ lease' \in {lease, None}
  BY DEF Remove
<1> HIDE DEF gone
<1>3. stored.version \in Nat
  BY DEF RoomType
<1> QED
  BY <1>1, <1>2, <1>3 DEF RoomType

LEMMA SaveType ==
    ASSUME RoomType, NEW p \in Pod, SaveSnapshot(p)
    PROVE  RoomType'
<1>1. stored'.version = stored.version + 1 /\ stored'.epoch = pod[p].epoch
      /\ stored' \in [version : Nat, epoch : Nat]
  BY DEF RoomType, SaveSnapshot, Process
<1>2. pod' \in [Pod -> Process]
  BY DEF RoomType, SaveSnapshot, Process
<1>3. \A q \in Pod : pod'[q].loaded = pod[q].loaded
                     /\ pod'[q].wrote \in {pod[q].wrote, stored.version + 1}
  BY DEF RoomType, SaveSnapshot, Process
<1>4. \A q \in Pod : pod[q].loaded \in Nat /\ pod[q].wrote \in Nat
  BY DEF RoomType, Process
<1> QED
  BY <1>1, <1>2, <1>3, <1>4 DEF RoomType, SaveSnapshot

LEMMA SeedType ==
    ASSUME RoomType, NEW p \in Pod, NEW c \in Nat, NEW e \in Nat, SeedCandidate(p, c, e)
    PROVE  RoomType'
<1>1. PICK f : f = pod'[p]
  OBVIOUS
<1>2. PICK g : g = pod[p]
  OBVIOUS
<1>3. g \in Process /\ g.loaded <= stored.version /\ g.wrote <= stored.version
  BY <1>2 DEF RoomType
<1>4. f = IF Seeds(p, c, e)
          THEN [g EXCEPT !.loaded = c, !.epoch = e, !.ready = TRUE]
          ELSE [g EXCEPT !.epoch = stored.epoch, !.ready = FALSE]
  BY <1>1, <1>2 DEF RoomType, SeedCandidate
<1>5. Seeds(p, c, e) => c = stored.version
  BY DEF Seeds
<1>6. stored.version \in Nat /\ stored.epoch \in Nat
  BY DEF RoomType
<1>7. f \in Process /\ f.loaded <= stored.version /\ f.wrote <= stored.version
  <2>1. CASE Seeds(p, c, e)
    <3>1. f = [g EXCEPT !.loaded = c, !.epoch = e, !.ready = TRUE]
      BY <1>4, <2>1
    <3>2. f \in Process /\ f.loaded = c /\ f.wrote = g.wrote
      BY <1>3, <3>1 DEF Process
    <3> QED
      BY <1>3, <1>5, <1>6, <2>1, <3>2
  <2>2. CASE ~Seeds(p, c, e)
    BY <1>3, <1>4, <1>6, <2>2 DEF Process
  <2> QED
    BY <2>1, <2>2
<1>8. pod' = [pod EXCEPT ![p] = f] /\ UNCHANGED <<lease, stored>>
  BY <1>1 DEF RoomType, SeedCandidate
<1> QED
  BY <1>7, <1>8 DEF RoomType

LEMMA ReleaseType ==
    ASSUME RoomType, NEW p \in Pod, NEW c \in Nat, NEW e \in Nat,
           NEW flushed \in BOOLEAN, ReleaseActive(p, c, e, flushed)
    PROVE  RoomType' /\ pod'[p].loaded \in Nat
<1>1. pod[p] \in Process /\ c <= stored.version /\ stored.version \in Nat
  BY DEF RoomType, ReleaseActive, Releasable, StatusChecksum, Reported, Process
<1>2. PICK f : f = pod'[p]
  OBVIOUS
<1>3. PICK g : g = pod[p]
  OBVIOUS
<1>4. PICK n : n = stored.version + 1
  OBVIOUS
<1>5. g \in Process /\ g.loaded <= stored.version /\ g.wrote <= stored.version
      /\ c <= stored.version /\ stored.version \in Nat /\ n \in Nat /\ stored.version <= n
  BY <1>1, <1>3, <1>4 DEF RoomType
<1> DEFINE h == [g EXCEPT !.role = "candidate", !.loaded = c,
                         !.ready = TRUE, !.armed = FALSE]
<1>6. f = IF flushed THEN [h EXCEPT !.loaded = n, !.wrote = n] ELSE h
  BY <1>2, <1>3, <1>4 DEF RoomType, ReleaseActive
<1>h. h \in Process /\ h.loaded = c /\ h.wrote = g.wrote
  BY <1>5 DEF Process
<1> HIDE DEF h
<1>7. f \in Process /\ f.loaded \in Nat
  <2>1. CASE flushed
    BY <1>5, <1>6, <1>h, <2>1 DEF Process
  <2>2. CASE ~flushed
    BY <1>5, <1>6, <1>h, <2>2
  <2> QED
    BY <2>1, <2>2
<1>8. pod' = [pod EXCEPT ![p] = f] /\ lease' \in {lease, None}
  BY <1>2 DEF RoomType, ReleaseActive
<1>9. stored' = IF flushed THEN [version |-> n, epoch |-> e] ELSE stored
  BY <1>4 DEF ReleaseActive
<1>10. stored' \in [version : Nat, epoch : Nat]
       /\ stored.version <= stored'.version
  BY <1>5, <1>9 DEF RoomType
<1>11. f.loaded <= stored'.version /\ f.wrote <= stored'.version
  BY <1>5, <1>6, <1>h, <1>9 DEF Process
<1>12. \A q \in Pod : pod'[q] = IF q = p THEN f ELSE pod[q]
  BY <1>8 DEF RoomType
<1>13. \A q \in Pod : pod[q].loaded \in Nat /\ pod[q].wrote \in Nat
  BY DEF RoomType, Process
<1>14. \A q \in Pod : pod'[q].loaded <= stored'.version /\ pod'[q].wrote <= stored'.version
  BY <1>5, <1>10, <1>11, <1>12, <1>13 DEF RoomType
<1> QED
  BY <1>2, <1>7, <1>8, <1>10, <1>14 DEF RoomType

LEMMA PromoteType ==
    ASSUME RoomType, NEW p \in Pod, NEW c \in Nat, NEW e \in Nat, NEW next \in Nat,
           PromoteCandidate(p, c, e, next)
    PROVE  RoomType'
BY DEF RoomType, PromoteCandidate, Process

LEMMA BootsType ==
    ASSUME RoomType, NEW p \in Pod, Boots(p)
    PROVE  RoomType'
BY DEF RoomType, Boots, RoomEpoch, Process

\* A request that fails, carried out or not: nothing of it is left but where
\* the catch goes.
Fails ==
    /\ Throws
    /\ faults' \subseteq Fault
    /\ UNCHANGED <<room, template, gateway, memo, context>>
    /\ Elsewhere

LEMMA Recoveries ==
    ASSUME Throws
    PROVE  /\ at' \in {"rescind", "discard", "abort", "observe", "idle"}
           /\ at' = "rescind" <=> at \in Scheduling
           /\ at' = "discard" <=> at \in Unfrozen
           /\ at' = "abort" <=> at \in Preflight
           /\ at' = "observe" <=> at \in Activating \cup CuttingOver \cup Verifying
BY DEF Throws, Recovery, Scheduling, Unfrozen, Preflight, Activating, CuttingOver, Verifying

LEMMA Outcomes ==
    ASSUME Throws
    PROVE  \/ at \in Discarding /\ outcome' = outcome
           \/ at = "abort" /\ outcome' = "gateway_abort_failed"
           \/ at \in RollingBack /\ outcome' = "rollback_failed_candidate_retained"
           \/ at = "drain" /\ outcome' = "candidate_retained_after_drain_failure"
           \/ /\ at \notin Discarding \cup RollingBack \cup {"abort", "drain"}
              /\ outcome' = "active_preserved"
BY DEF Throws, Rollback, Discarding, RollingBack

LEMMA ThrowsType ==
    ASSUME ProgramType, Throws
    PROVE  at' \in Label /\ outcome' \in Outcome /\ failedAt' \in Label
<1>1. at' \in Label
  BY Recoveries DEF Label, Unfrozen, Discarding, RollingBack
<1>2. outcome' \in Outcome
  BY Outcomes DEF Outcome, ProgramType
<1>3. failedAt' \in Label
  BY DEF Throws, ProgramType
<1> QED
  BY <1>1, <1>2, <1>3

-----------------------------------------------------------------------------
\* The program's labels, by whom the room's authority is with.
Untransferred ==
    Scheduling \cup Unfrozen \cup Preflight
        \cup {"activate", "release", "repoll", "rescind", "abort"}
Released == {"reseed", "promote"}
BeforeSwap == Untransferred \cup Released \cup {"proof", "swap"}
Leading == CuttingOver \cup Verifying \cup {"drain"}
BackLeading == {"back_save", "back_poll", "back_release"}
BackReleased == {"back_seed", "back_promote"}
BackCutting == {"back_freeze", "back_swap"}
Returned == BackCutting \cup {"back_reread", "back_proof", "back_finalize"}

Completed == at = "idle" /\ outcome = "completed"
Preserved ==
    at = "idle" /\ outcome \in {"active_preserved", "active_resumed",
                                "gateway_rolled_back"}

\* A process is Active exactly while it owns the room's lease.
OneActive == \A p \in Pod : Active(p) <=> lease = p

\* Pods are numbered in the order in which handoffs make them: none newer than
\* the Candidate exists, and the replaced pod is older than it.
PodsInOrder ==
    /\ template <= Candidate
    /\ \A p \in Pod : p > Candidate => pod[p].role = "absent"
    /\ handoffs > 0 => Old <= handoffs
    /\ at # "idle" \/ context \/ outcome # "none" => handoffs > 0
    /\ at # "idle" => outcome # "completed"
    /\ at \notin {"idle", "schedule", "rescind", "delete"} => template = Candidate

\* Up to the release of its authority, and again once it has it back, the pod
\* to be replaced is the Active, and the route leads to it.
OldServes ==
    /\ at \in Untransferred => Serves(Old) /\ pod[Old].epoch = target.epoch
    /\ at \in Discarding \cup {"unfreeze"} => Serves(Old)
    /\ Preserved => Serves(Old)
    /\ at \in Returned =>
          Active(Old) /\ pod[Old].epoch = rollbackEpoch
          /\ rollbackEpoch = currentEpoch + 1
    /\ at = "back_finalize" => route = Restored

\* From its promotion on, and until a rollback takes it back, the authority is
\* with the Candidate.
CandidateLeads ==
    /\ at \in Leading => Active(Candidate) /\ pod[Candidate].epoch = New.epoch
    /\ at \in BackLeading => Active(Candidate) /\ pod[Candidate].epoch = currentEpoch
    /\ at \in BackLeading \cup BackReleased =>
          route = [endpoint |-> Candidate, epoch |-> currentEpoch]
    /\ at \in {"finalize", "drain"} \/ Completed => route = New
    /\ Completed => /\ Active(Candidate) /\ pod[Candidate].epoch = New.epoch
                    /\ template = Candidate
                    /\ pod[Old].role = "gone"

\* The Candidate waits with the epoch of the pod that it is to replace.
Seeded ==
    /\ at \in {"poll", "seed", "check", "activate", "release", "repoll"} =>
          stored.epoch = target.epoch
    /\ at \in {"check", "activate", "release", "repoll"} =>
          pod[Candidate].epoch = target.epoch
    /\ at \in {"release", "repoll"} => pod[Candidate].role = "candidate"
    /\ at \in Released => route.epoch = target.epoch
    /\ at \in Released /\ lease = None =>
          stored.epoch = target.epoch /\ pod[Candidate].epoch = target.epoch

\* A room that was never cut over is led to by its Service.
Epochs ==
    /\ \A p \in Pod : Active(p) => pod[p].epoch >= RoomEpoch
    /\ route.epoch >= RoomEpoch
    /\ route.epoch = RoomEpoch => route.endpoint = Service

Waits(p) == pod[p].role = "candidate"
\* A free lease: only the template's pod may take it over, and the epoch that
\* it takes it at is not one that the route has seen, unless the route leads to
\* it.
Vacant ==
    lease = None =>
        Waits(template) /\ (LeadsTo(template) \/ pod[template].epoch >= route.epoch)
\* A restarted Active is at the first epoch again.  If the route is at that epoch
\* too but leads elsewhere, the template's pod still waits to replace it.
Misled ==
    \A p \in Pod : Active(p) /\ route.epoch = pod[p].epoch =>
        LeadsTo(p) \/ (p # template /\ Waits(template))

Late(o) == cutover[o].status = "preparing"
Due(o) == cutover[o].route
\* A cutover whose caller has given up either comes too late (its route is of an
\* epoch that the gateway has seen), or leads to who is the Active now.
Lates ==
    \A o \in Operation : Late(o) =>
        /\ Due(o).epoch <= route.epoch + 1
        /\ Due(o).epoch = route.epoch + 1 =>
              Due(o).endpoint \in Pod /\ Active(Due(o).endpoint)
              /\ pod[Due(o).endpoint].epoch = Due(o).epoch
        /\ o \in {Mine, Back} \/ Due(o).epoch <= target.epoch
        /\ o = Mine => Due(o).epoch > target.epoch
        /\ at \in BackReleased => Due(o).epoch <= route.epoch
\* The gateway's records of the cutovers, by how far the program has come.
Records ==
    /\ \A o \in Operation : o[1] > handoffs => cutover[o].status = "none"
    /\ at \in BeforeSwap => cutover[Mine].status = "none"
    /\ at \notin {"idle", "back_reread", "back_proof", "back_finalize",
                  "discard", "delete"} \/ Completed =>
          cutover[Back].status = "none"
    /\ at \in {"finalize", "drain"} \/ Completed =>
          cutover[Mine].status = "committed"
    /\ verification # None => cutover[verification.op].status = "committed"
    /\ at \in {"reread", "verify", "finalize"} /\ cutover[Mine].status = "committed" =>
          route.epoch > target.epoch
\* A session that ends is remembered by the verification that it ends in.
Continuity ==
    /\ at \in BeforeSwap \cup {"reread", "verify", "finalize"} /\ broken =>
          verification # None /\ verification.op = Mine /\ ~verification.continuous
    /\ at = "drain" \/ Completed => ~broken /\ verification = None

Inv ==
    /\ TypeOK
    /\ OneActive /\ PodsInOrder /\ OldServes /\ CandidateLeads /\ Seeded
    /\ Epochs /\ Vacant /\ Misled /\ Lates /\ Records /\ Continuity

-----------------------------------------------------------------------------
LEMMA FailsKeeps ==
    ASSUME Inv, at # "idle", at # "rescind", Fails
    PROVE  Inv'
<1> USE DEF Inv
<1>1. UNCHANGED <<pod, lease, stored, template, route, preparation, verification,
                  cutover, checksum, currentEpoch, rollbackEpoch, context, handoffs,
                  target, saves, broken>>
  BY DEF Fails, Elsewhere, room, gateway, memo, bounds
<1>3. TypeOK'
  <2>1. at' \in Label /\ outcome' \in Outcome /\ failedAt' \in Label
    BY TypeParts, ThrowsType DEF Fails
  <2> QED
    BY <1>1, <2>1 DEF TypeOK, Fails
<1>4. Throws
  BY DEF Fails
<1>2. outcome' # "completed"
  BY <1>4, Outcomes DEF PodsInOrder
<1>5. OneActive'
  BY <1>1 DEF OneActive, Active
<1>6. PodsInOrder'
  BY <1>1, <1>2, <1>4, Recoveries DEF PodsInOrder, Candidate, Old, Scheduling, Unfrozen,
     Preflight, Activating, CuttingOver, Verifying
<1>7. at \in Label
  BY DEF TypeOK
<1>8. OldServes'
  BY <1>1, <1>4, <1>7, Recoveries, Outcomes DEF Label, OldServes, Serves, Active,
     LeadsTo, Old, Preserved, Untransferred, Scheduling, Unfrozen, Preflight,
     Activating, CuttingOver, Verifying, Discarding, Returned, BackCutting, RollingBack
<1>9. CandidateLeads'
  BY <1>1, <1>2, <1>4, Recoveries DEF CandidateLeads, Completed, Leading, BackLeading,
     BackReleased, CuttingOver, Verifying
<1>10. Seeded'
  BY <1>1, <1>2, <1>4, Recoveries DEF Seeded, Released
<1>11. Epochs' /\ Vacant' /\ Misled'
  BY <1>1 DEF Epochs, Vacant, Misled, Active, LeadsTo, Waits
<1>12. Lates'
  BY <1>1, <1>2, <1>4, Recoveries DEF Lates, Late, Due, Active, Mine, Back, BackReleased
<1>13. Records'
  BY <1>1, <1>2, <1>4, Recoveries DEF Records, Completed, BeforeSwap, Released,
     Untransferred, Scheduling, Unfrozen, Preflight, Activating, CuttingOver, Verifying,
     Mine, Back
<1>14. Continuity'
  BY <1>1, <1>2, <1>4, Recoveries DEF Continuity, Completed, BeforeSwap, Released,
     Untransferred, Scheduling, Unfrozen, Preflight, Activating, CuttingOver, Verifying,
     Mine
<1> QED
  BY <1>3, <1>5, <1>6, <1>8, <1>9, <1>10, <1>11, <1>12, <1>13, <1>14

\* A request that only reads, and goes on: where to, and what it has learnt.
Moves ==
    \/ at = "appear" /\ at' = "ready"
    \/ at = "ready" /\ at' = "freeze"
    \/ at = "poll" /\ at' = "seed"
    \/ at = "check" /\ at' = "activate"
    \/ at = "activate" /\ at' = "release" /\ Waits(Candidate)
    \/ at = "release" /\ at' = "repoll"
    \/ at = "repoll" /\ at' = "release"
    \/ at = "proof" /\ at' = "swap"
    \/ at = "reread" /\ at' = "verify"
    \/ /\ at = "verify" /\ at' = "finalize"
       /\ route = New /\ cutover[Mine].status = "committed"
    \/ at = "observe" /\ at' = "unfreeze" /\ Serves(Old)
    \/ at = "back_poll" /\ at' = "back_release"
    \/ at = "back_reread" /\ at' = "back_proof"
    \/ at = "back_proof" /\ at' = "back_finalize" /\ route = Restored

LEMMA MovesKeep ==
    ASSUME Inv, Moves, checksum' \in Nat, faults' \subseteq Fault,
           UNCHANGED <<room, template, gateway, currentEpoch, rollbackEpoch, context,
                       failedAt, outcome>>,
           Elsewhere
    PROVE  Inv'
<1> USE DEF Inv
<1>1. UNCHANGED <<pod, lease, stored, template, route, preparation, verification,
                  cutover, currentEpoch, rollbackEpoch, context, handoffs, target,
                  saves, broken, failedAt, outcome>>
  BY DEF Elsewhere, room, gateway, bounds
<1>2. at # "idle" /\ at' # "idle" /\ outcome # "completed" /\ handoffs > 0
  BY DEF Moves, PodsInOrder
<1>3. TypeOK'
  <2>1. at' \in Label
    BY DEF Moves, Label, Scheduling, Unfrozen, Preflight, Activating, CuttingOver,
           Verifying, RollingBack
  <2>2. {checksum, currentEpoch, rollbackEpoch}' \subseteq Nat
    BY <1>1 DEF TypeOK
  <2> QED
    BY <1>1, <2>1, <2>2 DEF TypeOK
<1>4. OneActive' /\ Epochs' /\ Vacant' /\ Misled'
  BY <1>1 DEF OneActive, Epochs, Vacant, Misled, Active, LeadsTo, Waits
<1>5. PodsInOrder'
  BY <1>1, <1>2 DEF PodsInOrder, Candidate, Old, Moves
<1>6. OldServes'
  BY <1>1, <1>2 DEF OldServes, Serves, Active, LeadsTo, Old, Preserved, Moves,
     Untransferred, Scheduling, Unfrozen, Preflight, Discarding, Returned,
     BackCutting, Restored
<1>7. CandidateLeads'
  BY <1>1, <1>2 DEF CandidateLeads, Active, New, Candidate, Completed, Leading,
     BackLeading, BackReleased, CuttingOver, Verifying, Moves
<1>8. Seeded'
  BY <1>1 DEF Seeded, Released, Moves, Candidate, Waits
<1>9. Lates'
  BY <1>1 DEF Lates, Late, Due, Active, Mine, Back, BackReleased, Moves
<1>10. Records'
  BY <1>1, <1>2 DEF Records, Completed, BeforeSwap, Released, Untransferred,
     Scheduling, Unfrozen, Preflight, Mine, Back, Moves
<1>11. Continuity'
  BY <1>1, <1>2 DEF Continuity, Completed, BeforeSwap, Released, Untransferred,
     Scheduling, Unfrozen, Preflight, Mine, Moves
<1> QED
  BY <1>3, <1>4, <1>5, <1>6, <1>7, <1>8, <1>9, <1>10, <1>11

-----------------------------------------------------------------------------
\* Removing a pod that is not the Active.
LEMMA RemoveEffect ==
    ASSUME Inv, NEW p \in Pod, Remove(p), ~Active(p)
    PROVE  /\ RoomType' /\ UNCHANGED <<lease, stored>>
           /\ pod'[p].role = "gone"
           /\ \A q \in Pod : q # p => pod'[q] = pod[q]
<1>1. RoomType'
  BY RemoveType, TypeParts DEF Inv
<1>2. pod' = [pod EXCEPT ![p] = [Absent EXCEPT !.role = "gone"]] /\ UNCHANGED stored
  BY DEF Remove
<1>3. pod'[p].role = "gone" /\ \A q \in Pod : q # p => pod'[q] = pod[q]
  BY <1>2, TypeParts DEF Inv, RoomType, Absent
<1>4. UNCHANGED lease
  BY DEF Remove, Inv, OneActive
<1> QED
  BY <1>1, <1>2, <1>3, <1>4

LEMMA RescindKeeps ==
    ASSUME Inv, Rescind
    PROVE  Inv'
<1> USE DEF Inv
<1>1. Candidate \in Pod /\ Old \in Pod /\ Candidate \in Nat /\ Old \in Nat
  BY PodsOfHandoff
<1>2. /\ at = "rescind" /\ at' = "idle" /\ context' = FALSE
      /\ template' \in {Old, template} /\ faults' \subseteq Fault
      /\ UNCHANGED <<route, preparation, verification, cutover, checksum, currentEpoch,
                     rollbackEpoch, failedAt, outcome, handoffs, target, saves, broken>>
  <2>1. Elsewhere /\ UNCHANGED <<gateway, memo, failedAt, outcome>>
    BY DEF Rescind
  <2> QED
    BY <2>1, TypeParts DEF Rescind, Elsewhere, gateway, memo, bounds, Happens, ProgramType
<1>3. outcome # "completed" /\ handoffs > 0 /\ Old <= handoffs /\ handoffs \in Nat
  BY <1>2 DEF PodsInOrder, TypeOK
<1>4. Old # Candidate /\ Old <= Candidate
  BY <1>1, <1>3 DEF Candidate
<1>5. Serves(Old) /\ lease = Old
  BY <1>1, <1>2 DEF OldServes, Untransferred, OneActive, Serves
<1>6. ~Active(Candidate)
  BY <1>1, <1>4, <1>5 DEF OneActive
<1>7. /\ RoomType' /\ UNCHANGED <<lease, stored>>
      /\ \A q \in Pod : pod'[q] = pod[q] \/ (q = Candidate /\ pod'[q].role = "gone")
  <2>1. CASE UNCHANGED room
    BY <2>1, TypeParts DEF room, RoomType
  <2>2. CASE Remove(Candidate)
    BY <1>1, <1>6, <2>2, RemoveEffect
  <2> QED
    BY <2>1, <2>2 DEF Rescind
<1>8. TypeOK'
  BY <1>1, <1>2, <1>7, TypeParts, TypePartsNext
     DEF GatewayType, MemoType, BoundsType, ProgramType, Label
<1>9. OneActive'
  BY <1>4, <1>5, <1>6, <1>7 DEF OneActive, Active
<1>10. PodsInOrder'
  BY <1>1, <1>2, <1>3, <1>4, <1>7 DEF PodsInOrder, Candidate, Old
<1>11. OldServes'
  BY <1>1, <1>2, <1>4, <1>5, <1>7 DEF OldServes, Serves, Active, LeadsTo, Old, Preserved,
     Untransferred, Scheduling, Unfrozen, Preflight, Discarding, Returned, BackCutting
<1>12. CandidateLeads' /\ Seeded' /\ Continuity'
  BY <1>2, <1>3 DEF CandidateLeads, Seeded, Continuity, Completed, Leading, BackLeading,
     BackReleased, CuttingOver, Verifying, Released, BeforeSwap, Untransferred,
     Scheduling, Unfrozen, Preflight
<1>13. Epochs' /\ Vacant' /\ Misled'
  <2>1. \A p \in Pod : Active(p)' => p = Old /\ pod'[p] = pod[p]
    BY <1>5, <1>7, <1>9 DEF OneActive, Active
  <2>2. lease' # None
    BY <1>1, <1>5, <1>7, NoneAssumption DEF Pod
  <2> QED
    BY <1>1, <1>2, <1>5, <2>1, <2>2 DEF Epochs, Vacant, Misled, Serves, Active, LeadsTo
<1>14. Lates'
  BY <1>2, <1>6, <1>7 DEF Lates, Late, Due, Active, Mine, Back, BackReleased
<1>15. Records'
  BY <1>2, <1>3 DEF Records, Completed, BeforeSwap, Released, Untransferred,
     Scheduling, Unfrozen, Preflight, Mine, Back
<1> QED
  BY <1>8, <1>9, <1>10, <1>11, <1>12, <1>13, <1>14, <1>15

\* A new template for the Deployment, while the old pod serves the room.
LEMMA TemplateKeeps ==
    ASSUME Inv,
           \/ at = "schedule" /\ template' = Candidate /\ AskDeployment("schedule", "appear")
           \/ at = "discard" /\ template' = Old /\ AskDeployment("discard", "delete"),
           UNCHANGED context
    PROVE  Inv'
<1> USE DEF Inv
<1>1. Candidate \in Pod /\ Old \in Pod /\ Candidate \in Nat /\ Old \in Nat
  BY PodsOfHandoff
<1>2. /\ UNCHANGED <<pod, lease, stored, route, preparation, verification, cutover,
                     checksum, currentEpoch, rollbackEpoch, context, handoffs, target,
                     saves, broken>>
      /\ faults' \subseteq Fault
      /\ template' \in {Old, Candidate}
  BY TypeParts DEF AskDeployment, Request, Replied, Goes, Happens, Elsewhere, room,
     gateway, memo, bounds, ProgramType
<1>3. \/ at = "schedule" /\ at' \in {"appear", "rescind"} /\ template' = Candidate
      \/ at = "discard" /\ at' \in {"delete", "idle"} /\ outcome' = outcome
  <2>1. CASE at = "schedule"
    <3>1. at' = "appear" \/ Throws
      BY <2>1 DEF AskDeployment, Request, Replied, Goes
    <3> QED
      BY <2>1, <3>1, Recoveries DEF Scheduling
  <2>2. CASE at = "discard"
    <3>1. (at' = "delete" /\ outcome' = outcome) \/ Throws
      BY <2>2 DEF AskDeployment, Request, Replied, Goes
    <3> QED
      BY <2>2, <3>1, Recoveries, Outcomes DEF Scheduling, Unfrozen, Preflight, Activating,
         CuttingOver, Verifying, RollingBack, Discarding
  <2> QED
    BY <2>1, <2>2
<1>4. outcome' # "completed" /\ handoffs > 0 /\ Old <= handoffs /\ handoffs \in Nat
  BY <1>3, Outcomes DEF PodsInOrder, TypeOK, AskDeployment, Request, Replied, Goes
<1>5. Serves(Old) /\ lease = Old
  BY <1>1, <1>3 DEF OldServes, Untransferred, Scheduling, Discarding, OneActive, Serves
<1>6. TypeOK'
  <2>1. at' \in Label /\ outcome' \in Outcome /\ failedAt' \in Label
    BY <1>3, ThrowsType, TypeParts DEF AskDeployment, Request, Replied, Goes, ProgramType,
       Label, Scheduling, Discarding
  <2> QED
    BY <1>1, <1>2, <2>1 DEF TypeOK
<1>7. OneActive' /\ Epochs'
  BY <1>2 DEF OneActive, Epochs, Active
<1>8. PodsInOrder'
  BY <1>1, <1>2, <1>3, <1>4 DEF PodsInOrder, Candidate, Old
<1>9. OldServes'
  BY <1>2, <1>3, <1>5 DEF OldServes, Serves, Active, LeadsTo, Old, Preserved,
     Untransferred, Scheduling, Unfrozen, Preflight, Discarding, Returned, BackCutting
<1>10. CandidateLeads' /\ Seeded'
  BY <1>3, <1>4 DEF CandidateLeads, Seeded, Completed, Leading, BackLeading,
     BackReleased, CuttingOver, Verifying, Released
<1>11. Vacant' /\ Misled'
  <2>1. lease' # None
    BY <1>1, <1>2, <1>5, NoneAssumption DEF Pod
  <2>2. \A p \in Pod : Active(p)' => LeadsTo(p)'
    BY <1>2, <1>5 DEF OneActive, Active, LeadsTo, Serves
  <2> QED
    BY <2>1, <2>2 DEF Vacant, Misled
<1>12. Lates'
  BY <1>2, <1>3 DEF Lates, Late, Due, Active, Mine, Back, BackReleased
<1>13. Records'
  BY <1>2, <1>3, <1>4 DEF Records, Completed, BeforeSwap, Released, Untransferred,
     Scheduling, Unfrozen, Preflight, Mine, Back
<1>14. Continuity'
  BY <1>2, <1>3, <1>4 DEF Continuity, Completed, BeforeSwap, Released, Untransferred,
     Scheduling, Unfrozen, Preflight, Mine
<1> QED
  BY <1>6, <1>7, <1>8, <1>9, <1>10, <1>11, <1>12, <1>13, <1>14

LEMMA StartKeeps ==
    ASSUME Inv, Start
    PROVE  Inv' /\ \E p \in Pod : Serves(p)'
<1> USE DEF Inv
<1>1. /\ at = "idle" /\ at' = "schedule" /\ handoffs < MaxHandoff
      /\ handoffs' = handoffs + 1 /\ context' = TRUE
      /\ outcome' = "none" /\ failedAt' = "idle" /\ broken' = FALSE
      /\ UNCHANGED <<pod, lease, stored, template, preparation, verification, cutover,
                     checksum, currentEpoch, rollbackEpoch, saves, faults>>
  BY DEF Start, room, memo
<1>2. PICK p \in Pod :
         /\ {q \in Pod : Running(q)} = {p} /\ Active(p)
         /\ route.epoch = pod[p].epoch \/ Reconcilable(p)
         /\ route' = [route EXCEPT !.epoch = pod[p].epoch]
         /\ target' = [pod |-> p, epoch |-> pod[p].epoch]
  BY DEF Start
<1>3. /\ handoffs \in Nat /\ handoffs' \in 1..MaxHandoff /\ pod[p].epoch \in Nat
      /\ route \in Route /\ p \in Nat
  BY <1>1, BoundAssumption DEF TypeOK, Process, Pod
<1>4. Old' = p /\ target'.epoch = pod[p].epoch
      /\ route' = [endpoint |-> route.endpoint, epoch |-> pod[p].epoch]
  BY <1>2, <1>3 DEF Old, Route
<1>5. p <= handoffs' /\ template <= handoffs'
  BY <1>1, <1>2, <1>3 DEF PodsInOrder, Candidate, Active
<1>6. lease = p /\ \A q \in Pod : Active(q) => q = p
  BY <1>2 DEF OneActive
<1>7. LeadsTo(p)
  <2>1. CASE Reconcilable(p)
    BY <2>1 DEF Reconcilable
  <2>2. CASE route.epoch = pod[p].epoch
    <3>1. LeadsTo(p) \/ (p # template /\ Waits(template))
      BY <1>2, <2>2 DEF Misled
    <3>2. template \in Pod
      BY DEF TypeOK
    <3>3. Waits(template) => template = p
      BY <1>2, <3>2 DEF Running, Waits
    <3> QED
      BY <3>1, <3>3
  <2> QED
    BY <1>2, <2>1, <2>2
<1>8. route.epoch <= pod[p].epoch
  BY <1>2, <1>3 DEF Reconcilable, Route
<1>9. TypeOK'
  <2>1. RoomType' /\ GatewayType' /\ MemoType'
    BY <1>1, <1>3, <1>4, TypeParts DEF RoomType, GatewayType, MemoType, Route
  <2>2. BoundsType'
    <3>1. target' \in [pod : Pod, epoch : Nat]
      BY <1>2, <1>3
    <3>2. handoffs' \in 0..MaxHandoff
      BY <1>3, BoundAssumption
    <3>3. saves' \in 0..MaxSave
      BY <1>1 DEF TypeOK
    <3>4. broken' \in BOOLEAN
      BY <1>1
    <3> QED
      BY <3>1, <3>2, <3>3, <3>4 DEF BoundsType
  <2>3. ProgramType'
    BY <1>1, TypeParts DEF ProgramType, Label, Scheduling, Outcome
  <2> QED
    BY <1>1, <2>1, <2>2, <2>3, TypeParts, TypePartsNext
<1>10. OneActive'
  BY <1>1 DEF OneActive, Active
<1>11. PodsInOrder'
  <2>1. \A q \in Pod : q > handoffs' + 1 => pod'[q].role = "absent"
    BY <1>1, <1>3 DEF PodsInOrder, Candidate, Pod
  <2>2. template' <= handoffs' + 1 /\ Old' <= handoffs' /\ handoffs' > 0
    BY <1>1, <1>3, <1>4, <1>5 DEF TypeOK, Pod
  <2> QED
    BY <1>1, <2>1, <2>2 DEF PodsInOrder, Candidate
<1>12. Serves(p)'
  BY <1>1, <1>2, <1>4, <1>7 DEF Serves, Active, LeadsTo
<1>13. OldServes'
  BY <1>1, <1>4, <1>12 DEF OldServes, Preserved, Returned, BackCutting, Discarding
<1>14. CandidateLeads' /\ Seeded'
  BY <1>1 DEF CandidateLeads, Seeded, Completed, Leading, BackLeading, BackReleased,
     CuttingOver, Verifying, Released
<1>15. Epochs'
  BY <1>1, <1>2, <1>3, <1>4, <1>8 DEF Epochs, Active, RoomEpoch, Route
<1>16. Vacant' /\ Misled'
  <2>1. lease' # None
    BY <1>1, <1>3, <1>6, NoneAssumption
  <2> QED
    BY <1>1, <1>6, <1>12, <2>1 DEF Vacant, Misled, Serves, Active
<1>17. Lates'
  <2> SUFFICES ASSUME NEW o \in Operation, Late(o)'
               PROVE  /\ Due(o).epoch <= pod[p].epoch
                      /\ (Due(o) = Due(o)')
                      /\ o # Mine'
    BY <1>1, <1>3, <1>4 DEF Lates, BackReleased, TypeOK, CutoverOperation, Route, Due
  <2>1. Late(o) /\ Due(o) = Due(o)' /\ Due(o) \in Route
    BY <1>1 DEF Late, Due, TypeOK, CutoverOperation
  <2>2. Due(o).epoch <= route.epoch + 1
        /\ (Due(o).epoch = route.epoch + 1 =>
              /\ Due(o).endpoint \in Pod /\ Active(Due(o).endpoint)
              /\ pod[Due(o).endpoint].epoch = Due(o).epoch)
    BY <2>1 DEF Lates
  <2>3. Due(o).epoch <= pod[p].epoch
    <3>1. CASE Due(o).epoch = route.epoch + 1
      BY <1>3, <1>6, <2>1, <2>2, <3>1
    <3>2. CASE Due(o).epoch # route.epoch + 1
      BY <1>3, <1>8, <2>1, <2>2, <3>2 DEF Route
    <3> QED
      BY <3>1, <3>2
  <2>5. o # Mine'
    <3>1. Mine' \in Operation /\ Mine'[1] > handoffs
      BY <1>1, <1>3 DEF Mine, Operation
    <3> QED
      BY <2>1, <3>1 DEF Records, Late
  <2> QED
    BY <2>1, <2>3, <2>5
<1>18. Records'
  <2>1. cutover[<<handoffs', "handoff">>].status = "none"
        /\ cutover[<<handoffs', "rollback">>].status = "none"
    BY <1>1, <1>3 DEF Records, Operation
  <2> QED
    BY <1>1, <1>3, <2>1 DEF Records, Completed, Mine, Back, Operation
<1>19. Continuity'
  BY <1>1 DEF Continuity, Completed
<1> QED
  BY <1>9, <1>10, <1>11, <1>12, <1>13, <1>14, <1>15, <1>16, <1>17, <1>18, <1>19

\* The end of a handoff removes the pod that does not serve the room.
LEMMA EndKeeps ==
    ASSUME Inv, Drain \/ Delete, ~Unanswered("drain", FALSE), ~Unanswered("delete", FALSE)
    PROVE  Inv'
<1> USE DEF Inv
<1>1. Candidate \in Pod /\ Old \in Pod /\ Candidate \in Nat /\ Old \in Nat
  BY PodsOfHandoff
<1>2. at \in {"drain", "delete"} /\ at' = "idle"
  <2>1. CASE Drain
    BY <2>1, Recoveries DEF Drain, Scheduling, Unfrozen, Preflight, Activating,
       CuttingOver, Verifying
  <2>2. CASE Delete
    BY <2>2, Recoveries DEF Delete, Goes, Scheduling, Unfrozen, Preflight, Activating,
       CuttingOver, Verifying
  <2> QED
    BY <2>1, <2>2
<1>3. /\ faults' \subseteq Fault /\ context' \in {FALSE, context}
      /\ failedAt' \in Label /\ outcome' \in Outcome
      /\ UNCHANGED <<template, route, preparation, verification, cutover, checksum,
                     currentEpoch, rollbackEpoch, handoffs, target, saves, broken>>
  <2>1. CASE Drain
    <3>1. Elsewhere /\ UNCHANGED <<template, gateway, memo>>
      BY <2>1 DEF Drain
    <3>2. faults' \subseteq Fault /\ context' \in {FALSE, context}
      BY <2>1, TypeParts DEF Drain, Happens, ProgramType
    <3>3. failedAt' \in Label /\ outcome' \in Outcome
      BY <2>1, TypeParts, ThrowsType DEF Drain, ProgramType, Outcome
    <3> QED
      BY <3>1, <3>2, <3>3 DEF Elsewhere, gateway, memo, bounds
  <2>2. CASE Delete
    <3>1. Elsewhere /\ UNCHANGED <<template, gateway, memo>>
      BY <2>2 DEF Delete
    <3>2. faults' \subseteq Fault /\ context' \in {FALSE, context}
      BY <2>2, TypeParts DEF Delete, Goes, Happens, ProgramType
    <3>3. failedAt' \in Label /\ outcome' \in Outcome
      BY <2>2, TypeParts, ThrowsType DEF Delete, Goes, ProgramType
    <3> QED
      BY <3>1, <3>2, <3>3 DEF Elsewhere, gateway, memo, bounds
  <2> QED
    BY <2>1, <2>2
<1>4. outcome # "completed" /\ handoffs > 0 /\ Old <= handoffs /\ handoffs \in Nat
  BY <1>2 DEF PodsInOrder, TypeOK
<1>5. Old # Candidate /\ Old <= Candidate
  BY <1>1, <1>4 DEF Candidate
<1>6. PICK p \in {Old, Candidate}, x \in {Old, Candidate} :
         /\ p # x /\ Serves(x) /\ Remove(p)
         /\ at = "drain" => p = Old /\ x = Candidate /\ outcome' # "active_resumed"
                            /\ outcome' \in {"completed", "candidate_retained_after_drain_failure"}
         /\ at = "delete" => x = Old /\ outcome' = outcome
  <2>1. CASE at = "drain"
    <3>1. Serves(Candidate)
      BY <2>1 DEF CandidateLeads, Leading, Serves, LeadsTo, New
    <3>2. Remove(Old)
      BY <2>1 DEF Drain, Delete, Unanswered
    <3>3. outcome' \in {"completed", "candidate_retained_after_drain_failure"}
      BY <2>1, Outcomes DEF Drain, Delete, Unanswered, Discarding, RollingBack
    <3> QED
      BY <1>5, <2>1, <3>1, <3>2, <3>3
  <2>2. CASE at = "delete"
    <3>1. Serves(Old)
      BY <2>2 DEF OldServes, Discarding
    <3>2. Remove(Candidate) /\ outcome' = outcome
      BY <2>2, Outcomes DEF Drain, Delete, Goes, Unanswered, Discarding, RollingBack
    <3> QED
      BY <1>5, <2>2, <3>1, <3>2
  <2> QED
    BY <1>2, <2>1, <2>2
<1>7. lease = x /\ x \in Pod /\ p \in Pod /\ ~Active(p)
  BY <1>1, <1>6 DEF OneActive, Serves
<1>8. /\ RoomType' /\ UNCHANGED <<lease, stored>> /\ pod'[p].role = "gone"
      /\ \A q \in Pod : q # p => pod'[q] = pod[q]
  BY <1>6, <1>7, RemoveEffect
<1>9. TypeOK'
  BY <1>2, <1>3, <1>8, TypeParts, TypePartsNext
     DEF GatewayType, MemoType, BoundsType, ProgramType, Label
<1>10. OneActive'
  BY <1>6, <1>7, <1>8 DEF OneActive, Active
<1>11. PodsInOrder'
  BY <1>1, <1>2, <1>3, <1>4, <1>5, <1>6, <1>8 DEF PodsInOrder, Candidate, Old
<1>12. Serves(x)'
  BY <1>3, <1>6, <1>7, <1>8 DEF Serves, Active, LeadsTo
<1>13. OldServes'
  BY <1>2, <1>3, <1>6, <1>12 DEF OldServes, Preserved, Untransferred, Scheduling,
     Unfrozen, Preflight, Discarding, Returned, BackCutting, Old
<1>14. Completed' => at = "drain"
  BY <1>2, <1>4, <1>6 DEF Completed
<1>15. CandidateLeads'
  <2>1. at = "drain" =>
           /\ route = New /\ Active(Candidate) /\ pod[Candidate].epoch = New.epoch
           /\ template = Candidate
    BY DEF CandidateLeads, Leading, PodsInOrder
  <2> QED
    BY <1>1, <1>2, <1>3, <1>6, <1>8, <1>14, <2>1 DEF CandidateLeads, Active, New, Candidate,
       Old, Leading, BackLeading, BackReleased, CuttingOver, Verifying
<1>16. Seeded' /\ Continuity'
  BY <1>2, <1>3, <1>14 DEF Seeded, Continuity, Released, BeforeSwap, Untransferred,
     Scheduling, Unfrozen, Preflight
<1>17. Epochs' /\ Vacant' /\ Misled'
  <2>1. \A q \in Pod : Active(q)' => q = x /\ pod'[q] = pod[q]
    BY <1>6, <1>7, <1>8, <1>10 DEF OneActive, Active
  <2>2. lease' # None
    BY <1>1, <1>7, <1>8, NoneAssumption DEF Pod
  <2> QED
    BY <1>3, <1>7, <1>12, <2>1, <2>2 DEF Epochs, Vacant, Misled, Serves, Active, LeadsTo
<1>18. Lates'
  BY <1>2, <1>3, <1>7, <1>8 DEF Lates, Late, Due, Active, Mine, Back, BackReleased
<1>19. Records'
  BY <1>2, <1>3, <1>14 DEF Records, BeforeSwap, Released, Untransferred, Scheduling,
     Unfrozen, Preflight, Mine, Back
<1> QED
  BY <1>9, <1>10, <1>11, <1>13, <1>15, <1>16, <1>17, <1>18, <1>19

-----------------------------------------------------------------------------
\* A checkpoint changes nobody's role or epoch, and is stored at the Active's.
LEMMA SaveEffect ==
    ASSUME Inv, NEW p \in Pod, SaveSnapshot(p)
    PROVE  /\ RoomType' /\ UNCHANGED lease /\ lease = p
           /\ stored'.epoch = pod[p].epoch
           /\ \A q \in Pod : pod'[q].role = pod[q].role /\ pod'[q].epoch = pod[q].epoch
BY SaveType, TypeParts DEF Inv, SaveSnapshot, CanSave, RoomType, Process

LEMMA SavesKeep ==
    ASSUME Inv, NEW p \in Pod, SaveSnapshot(p),
           \/ p = Old /\ AskProcess("save", "poll")
           \/ p = Candidate /\ AskProcess("back_save", "back_poll")
           \/ /\ UNCHANGED <<template, gateway, Program, handoffs, target, broken, faults>>
              /\ saves' \in 0..MaxSave
    PROVE  Inv'
<1> USE DEF Inv
<1>1. Candidate \in Pod /\ Old \in Pod
  BY PodsOfHandoff
<1>2. /\ UNCHANGED <<template, route, preparation, verification, cutover, checksum,
                     currentEpoch, rollbackEpoch, context, handoffs, target, broken>>
      /\ saves' \in 0..MaxSave /\ faults' \subseteq Fault
  BY TypeParts DEF AskProcess, Request, Replied, Goes, Happens, Elsewhere, Program,
     gateway, memo, bounds, ProgramType, BoundsType
<1>3. \/ at = "save" /\ at' \in {"poll", "abort"} /\ p = Old
      \/ /\ at = "back_save" /\ p = Candidate
         /\ \/ at' = "back_poll"
            \/ at' = "idle" /\ outcome' = "rollback_failed_candidate_retained"
      \/ at' = at /\ outcome' = outcome
  <2>1. CASE AskProcess("save", "poll") /\ p = Old
    <3>1. at = "save" /\ (at' = "poll" \/ Throws)
      BY <2>1 DEF AskProcess, Request, Replied, Goes
    <3> QED
      BY <2>1, <3>1, Recoveries DEF Preflight
  <2>2. CASE AskProcess("back_save", "back_poll") /\ p = Candidate
    <3>1. at = "back_save" /\ (at' = "back_poll" \/ Throws)
      BY <2>2 DEF AskProcess, Request, Replied, Goes
    <3> QED
      BY <2>2, <3>1, Recoveries, Outcomes DEF Scheduling, Unfrozen, Preflight, Activating,
         CuttingOver, Verifying, RollingBack, Discarding
  <2> QED
    BY <2>1, <2>2 DEF Program
<1>4. at' \in Label /\ outcome' \in Outcome /\ failedAt' \in Label
  <2>1. at' \in Label
    BY <1>3, TypeParts DEF ProgramType, Label, Preflight, RollingBack
  <2>2. Throws \/ UNCHANGED <<outcome, failedAt>>
    BY DEF AskProcess, Request, Replied, Goes, Program
  <2> QED
    BY <2>1, <2>2, ThrowsType, TypeParts DEF ProgramType
<1>5. outcome' # "completed" \/ (at' = at /\ outcome' = outcome)
  <2>1. Throws \/ UNCHANGED outcome
    BY DEF AskProcess, Request, Replied, Goes, Program
  <2> QED
    BY <1>3, <2>1, Outcomes DEF PodsInOrder
<1>6. /\ RoomType' /\ UNCHANGED lease /\ lease = p
      /\ stored'.epoch = pod[p].epoch
      /\ \A q \in Pod : pod'[q].role = pod[q].role /\ pod'[q].epoch = pod[q].epoch
  BY SaveEffect
<1>7. TypeOK'
  BY <1>2, <1>4, <1>6, TypeParts, TypePartsNext
     DEF GatewayType, MemoType, BoundsType, ProgramType
<1>8. OneActive' /\ Epochs'
  BY <1>2, <1>6 DEF OneActive, Epochs, Active
<1>9. Vacant' /\ Misled'
  <2>1. template \in Pod
    BY DEF TypeOK
  <2> QED
    BY <1>2, <1>6, <2>1 DEF Vacant, Misled, Active, LeadsTo, Waits
<1>10. handoffs > 0 \/ (at' = at /\ outcome' = outcome)
  BY <1>3 DEF PodsInOrder
<1>11. PodsInOrder'
  BY <1>2, <1>3, <1>5, <1>6, <1>10 DEF PodsInOrder, Candidate, Old
<1>12. OldServes'
  BY <1>1, <1>2, <1>3, <1>6 DEF OldServes, Serves, Active, LeadsTo, Old, Preserved,
     Untransferred, Scheduling, Unfrozen, Preflight, Discarding, Returned, BackCutting,
     Restored
<1>13. CandidateLeads'
  BY <1>1, <1>2, <1>3, <1>5, <1>6 DEF CandidateLeads, Active, New, Candidate, Old,
     Completed, Leading, BackLeading, BackReleased, CuttingOver, Verifying
<1>14. Seeded'
  <2>1. at \in Untransferred => p = Old /\ pod[p].epoch = target.epoch
    BY <1>1, <1>6 DEF OldServes, Serves, OneActive
  <2>2. p # None
    BY NoneAssumption DEF Pod
  <2> QED
    BY <1>1, <1>2, <1>3, <1>6, <2>1, <2>2 DEF Seeded, Released, Candidate, Old,
       Untransferred, Preflight
<1>15. Lates'
  BY <1>2, <1>3, <1>6 DEF Lates, Late, Due, Active, Mine, Back, BackReleased
<1>16. Records'
  BY <1>2, <1>3, <1>5 DEF Records, Completed, BeforeSwap, Released, Untransferred,
     Scheduling, Unfrozen, Preflight, Mine, Back
<1>17. Continuity'
  BY <1>2, <1>3, <1>5 DEF Continuity, Completed, BeforeSwap, Released, Untransferred,
     Scheduling, Unfrozen, Preflight, Mine
<1> QED
  BY <1>7, <1>8, <1>9, <1>11, <1>12, <1>13, <1>14, <1>15, <1>16, <1>17

-----------------------------------------------------------------------------
\* A seed, applied or not, leaves the process at the stored checkpoint's epoch.
LEMMA SeedEffect ==
    ASSUME Inv, NEW p \in Pod, NEW c \in Nat, NEW e \in Nat, SeedCandidate(p, c, e)
    PROVE  /\ RoomType' /\ UNCHANGED <<lease, stored>>
           /\ Waits(p) /\ Waits(p)' /\ pod'[p].epoch = stored.epoch
           /\ \A q \in Pod : q # p => pod'[q] = pod[q]
<1>1. RoomType'
  BY SeedType, TypeParts DEF Inv
<1>2. PICK g : g = pod[p]
  OBVIOUS
<1>3. g \in Process
  BY <1>2, TypeParts DEF Inv, RoomType
<1>4. pod' = [pod EXCEPT ![p] = IF Seeds(p, c, e)
                THEN [g EXCEPT !.loaded = c, !.epoch = e, !.ready = TRUE]
                ELSE [g EXCEPT !.epoch = stored.epoch, !.ready = FALSE]]
  BY <1>2, TypeParts DEF Inv, RoomType, SeedCandidate
<1>5. pod'[p].role = g.role /\ pod'[p].epoch = stored.epoch
  <2>1. CASE Seeds(p, c, e)
    <3>1. pod'[p] = [g EXCEPT !.loaded = c, !.epoch = e, !.ready = TRUE]
      BY <1>4, <2>1, TypeParts DEF Inv, RoomType
    <3>2. stored.epoch = e
      BY <2>1 DEF Seeds
    <3> QED
      BY <1>3, <3>1, <3>2 DEF Process
  <2>2. CASE ~Seeds(p, c, e)
    <3>1. pod'[p] = [g EXCEPT !.epoch = stored.epoch, !.ready = FALSE]
      BY <1>4, <2>2, TypeParts DEF Inv, RoomType
    <3> QED
      BY <1>3, <3>1 DEF Process
  <2> QED
    BY <2>1, <2>2
<1>6. \A q \in Pod : q # p => pod'[q] = pod[q]
  BY <1>4, TypeParts DEF Inv, RoomType
<1> QED
  BY <1>1, <1>2, <1>5, <1>6 DEF SeedCandidate, Waits

LEMMA SeedsKeep ==
    ASSUME Inv,
           NEW p \in Pod, NEW e \in Nat, SeedCandidate(p, checksum, e),
           \/ p = Candidate /\ at = "seed" /\ at' \in {"check", "poll"} /\ outcome' = outcome
           \/ p = Candidate /\ at = "seed" /\ Throws
           \/ p = Candidate /\ at = "reseed" /\ at' = "promote" /\ outcome' = outcome
           \/ p = Candidate /\ at = "reseed" /\ Throws
           \/ p = Old /\ at = "back_seed" /\ at' = "back_promote" /\ outcome' = outcome
           \/ p = Old /\ at = "back_seed" /\ Throws,
           Throws \/ UNCHANGED failedAt,
           faults' \subseteq Fault,
           UNCHANGED <<template, gateway, memo, context>>,
           Elsewhere
    PROVE  Inv'
<1> USE DEF Inv
<1>1. Candidate \in Pod /\ Old \in Pod /\ Candidate \in Nat /\ Old \in Nat
  BY PodsOfHandoff
<1>2. UNCHANGED <<template, route, preparation, verification, cutover, checksum,
                  currentEpoch, rollbackEpoch, context, handoffs, target, broken, saves>>
  BY DEF Elsewhere, gateway, memo, bounds
<1>3. \/ at = "seed" /\ at' \in {"check", "poll", "abort"} /\ p = Candidate
      \/ at = "reseed" /\ at' \in {"promote", "observe"} /\ p = Candidate
      \/ at = "back_seed" /\ at' = "back_promote" /\ p = Old
      \/ /\ at = "back_seed" /\ at' = "idle" /\ p = Old
         /\ outcome' = "rollback_failed_candidate_retained"
  BY Recoveries, Outcomes DEF Scheduling, Unfrozen, Preflight, Activating, CuttingOver,
     Verifying, RollingBack, Discarding
<1>4. handoffs > 0 /\ Old <= handoffs /\ handoffs \in Nat /\ template = Candidate
      /\ outcome' # "completed"
  BY <1>3, Outcomes DEF PodsInOrder, TypeOK
<1>5. Old # Candidate
  BY <1>1, <1>4 DEF Candidate
<1>6. at' \in Label /\ outcome' \in Outcome /\ failedAt' \in Label
  <2>1. at' \in Label
    BY <1>3 DEF Label, Preflight, Activating, RollingBack
  <2>2. Throws \/ UNCHANGED <<outcome, failedAt>>
    OBVIOUS
  <2> QED
    BY <2>1, <2>2, ThrowsType, TypeParts DEF ProgramType
<1>7. /\ RoomType' /\ UNCHANGED <<lease, stored>>
      /\ Waits(p) /\ Waits(p)' /\ pod'[p].epoch = stored.epoch
      /\ \A q \in Pod : q # p => pod'[q] = pod[q]
  BY SeedEffect, TypeParts DEF MemoType
<1>8. \A q \in Pod : Active(q)' <=> Active(q)
  BY <1>7 DEF Active, Waits
<1>9. \A q \in Pod : Active(q) => pod'[q] = pod[q]
  BY <1>7 DEF Active, Waits
<1>10. \A q \in Pod : Waits(q)' <=> Waits(q)
  BY <1>7 DEF Waits
<1>11. TypeOK'
  BY <1>2, <1>6, <1>7, TypeParts, TypePartsNext
     DEF GatewayType, MemoType, BoundsType, ProgramType
<1>12. OneActive' /\ Epochs'
  BY <1>2, <1>7, <1>8, <1>9 DEF OneActive, Epochs
<1>13. PodsInOrder'
  BY <1>1, <1>2, <1>3, <1>4, <1>5, <1>7 DEF PodsInOrder, Candidate, Old, Waits
<1>14. \A q \in Pod : Serves(q) => Serves(q)'
  BY <1>2, <1>8, <1>9 DEF Serves, LeadsTo
<1>15. OldServes'
  BY <1>1, <1>2, <1>3, <1>8, <1>9, <1>14 DEF OldServes, Serves, Old, Preserved,
     Untransferred,
     Scheduling, Unfrozen, Preflight, Discarding, Returned, BackCutting, Restored
<1>16. CandidateLeads'
  BY <1>2, <1>3, <1>4 DEF CandidateLeads, Candidate, Completed, Leading,
     BackLeading, BackReleased, CuttingOver, Verifying
<1>17. Seeded'
  BY <1>1, <1>2, <1>3, <1>7 DEF Seeded, Released, Candidate
<1>18. Vacant'
  <2> SUFFICES ASSUME lease = None
               PROVE  /\ Waits(template)'
                      /\ LeadsTo(template)' \/ pod'[template].epoch >= route.epoch
    BY <1>2, <1>7 DEF Vacant
  <2>1. Waits(template)'
    BY <1>1, <1>2, <1>4, <1>10 DEF Vacant, Waits
  <2>2. CASE p = Old
    BY <1>1, <1>2, <1>4, <1>5, <1>7, <2>1, <2>2 DEF Vacant, LeadsTo
  <2>3. CASE at = "reseed"
    <3>1. pod'[Candidate].epoch = route.epoch /\ route.epoch \in Nat
      BY <1>3, <1>5, <1>7, <2>3 DEF Seeded, Released, TypeOK, Route
    <3> QED
      BY <1>4, <2>1, <3>1
  <2>4. CASE at = "seed"
    BY <1>1, <2>4, NoneAssumption DEF OldServes, Untransferred, Preflight, OneActive,
       Serves, Pod
  <2> QED
    BY <1>3, <2>1, <2>2, <2>3, <2>4
<1>19. Misled'
  BY <1>1, <1>2, <1>4, <1>8, <1>9, <1>10 DEF Misled, LeadsTo
<1>20. Lates'
  BY <1>2, <1>3, <1>8, <1>9 DEF Lates, Late, Due, Mine, Back, BackReleased
<1>21. Records'
  BY <1>2, <1>3, <1>4 DEF Records, Completed, BeforeSwap, Released, Untransferred,
     Scheduling, Unfrozen, Preflight, Mine, Back
<1>22. Continuity'
  BY <1>2, <1>3, <1>4 DEF Continuity, Completed, BeforeSwap, Released, Untransferred,
     Scheduling, Unfrozen, Preflight, Mine
<1> QED
  BY <1>11, <1>12, <1>13, <1>15, <1>16, <1>17, <1>18, <1>19, <1>20, <1>21, <1>22

-----------------------------------------------------------------------------
\* A release leaves nobody with the lease.
LEMMA ReleaseEffect ==
    ASSUME Inv, NEW p \in Pod, NEW e \in Nat, NEW flushed \in BOOLEAN,
           ReleaseActive(p, checksum, e, flushed)
    PROVE  /\ RoomType' /\ pod'[p].loaded \in Nat
           /\ lease = p /\ lease' = None /\ pod[p].epoch = e
           /\ Waits(p)' /\ pod'[p].epoch = e
           /\ stored'.epoch \in {stored.epoch, e}
           /\ \A q \in Pod : q # p => pod'[q] = pod[q]
<1>1. RoomType' /\ pod'[p].loaded \in Nat
  BY ReleaseType, TypeParts DEF Inv, MemoType
<1>2. pod[p].epoch = e /\ lease = p
  BY DEF ReleaseActive, Releasable, Inv, OneActive
<1>3. PICK g : g = pod[p]
  OBVIOUS
<1>4. PICK n : n = stored.version + 1
  OBVIOUS
<1> DEFINE h == [g EXCEPT !.role = "candidate", !.loaded = checksum,
                         !.ready = TRUE, !.armed = FALSE]
           f == IF flushed THEN [h EXCEPT !.loaded = n, !.wrote = n] ELSE h
<1>5. pod' = [pod EXCEPT ![p] = f]
  BY <1>3, <1>4, TypeParts DEF Inv, RoomType, ReleaseActive
<1>6. h.role = "candidate" /\ h.epoch = e /\ h \in Process
  BY <1>2, <1>3, TypeParts DEF Inv, RoomType, MemoType, Process
<1> HIDE DEF h
<1>7. f.role = "candidate" /\ f.epoch = e
  BY <1>6 DEF Process
<1> HIDE DEF f
<1>8. Waits(p)' /\ pod'[p].epoch = e /\ \A q \in Pod : q # p => pod'[q] = pod[q]
  BY <1>5, <1>7, TypeParts DEF Inv, RoomType, Waits
<1>9. lease' = None /\ stored'.epoch \in {stored.epoch, e}
  BY <1>2 DEF ReleaseActive
<1> QED
  BY <1>1, <1>2, <1>8, <1>9

LEMMA ReleasesKeep ==
    ASSUME Inv,
           \/ Releases("release", Old, target.epoch, "reseed")
           \/ Releases("back_release", Candidate, currentEpoch, "back_seed")
    PROVE  Inv'
<1> USE DEF Inv
<1>1. Candidate \in Pod /\ Old \in Pod /\ Candidate \in Nat /\ Old \in Nat
  BY PodsOfHandoff
<1>2. target.epoch \in Nat /\ currentEpoch \in Nat
  BY DEF TypeOK
<1>3. PICK p \in Pod, e \in Nat :
         /\ \/ /\ at = "release" /\ p = Old /\ e = target.epoch
               /\ Releases("release", Old, target.epoch, "reseed")
            \/ /\ at = "back_release" /\ p = Candidate /\ e = currentEpoch
               /\ Releases("back_release", Candidate, currentEpoch, "back_seed")
         /\ \E flushed \in BOOLEAN : ReleaseActive(p, checksum, e, flushed)
         /\ checksum' = pod'[p].loaded
  <2>1. CASE Releases("release", Old, target.epoch, "reseed")
    BY <1>1, <1>2, <2>1 DEF Releases, Request, Replied
  <2>2. CASE Releases("back_release", Candidate, currentEpoch, "back_seed")
    BY <1>1, <1>2, <2>2 DEF Releases, Request, Replied
  <2> QED
    BY <2>1, <2>2
<1>4. UNCHANGED <<template, route, preparation, verification, cutover, currentEpoch,
                  rollbackEpoch, context, handoffs, target, broken, saves>>
      /\ faults' \subseteq Fault
      /\ (Throws \/ UNCHANGED <<failedAt, outcome>>)
  BY TypeParts DEF Releases, Request, Replied, Goes, Happens, Elsewhere, gateway, bounds,
     ProgramType
<1>5. \/ at = "release" /\ at' \in {"reseed", "observe"} /\ p = Old /\ e = target.epoch
      \/ at = "back_release" /\ at' = "back_seed" /\ p = Candidate /\ e = currentEpoch
      \/ /\ at = "back_release" /\ at' = "idle" /\ p = Candidate /\ e = currentEpoch
         /\ outcome' = "rollback_failed_candidate_retained"
  <2>1. CASE at = "release"
    <3>1. at' = "reseed" \/ Throws
      BY <1>3, <2>1 DEF Releases, Request, Replied, Goes
    <3> QED
      BY <1>3, <2>1, <3>1, Recoveries DEF Activating
  <2>2. CASE at = "back_release"
    <3>1. at' = "back_seed" \/ Throws
      BY <1>3, <2>2 DEF Releases, Request, Replied, Goes
    <3> QED
      BY <1>3, <2>2, <3>1, Recoveries, Outcomes DEF Scheduling, Unfrozen, Preflight,
         Activating, CuttingOver, Verifying, RollingBack, Discarding
  <2> QED
    BY <1>3, <2>1, <2>2
<1>6. handoffs > 0 /\ Old <= handoffs /\ handoffs \in Nat /\ template = Candidate
      /\ outcome' # "completed"
  BY <1>4, <1>5, Outcomes DEF PodsInOrder, TypeOK
<1>7. Old # Candidate
  BY <1>1, <1>6 DEF Candidate
<1>8. at' \in Label /\ outcome' \in Outcome /\ failedAt' \in Label
  <2>1. at' \in Label
    BY <1>5 DEF Label, Activating, RollingBack
  <2> QED
    BY <1>4, <2>1, ThrowsType, TypeParts DEF ProgramType
<1>9. /\ RoomType' /\ pod'[p].loaded \in Nat
      /\ lease = p /\ lease' = None /\ pod[p].epoch = e
      /\ Waits(p)' /\ pod'[p].epoch = e
      /\ stored'.epoch \in {stored.epoch, e}
      /\ \A q \in Pod : q # p => pod'[q] = pod[q]
  BY <1>3, ReleaseEffect
<1>10. \A q \in Pod : ~Active(q)'
  <2>1. \A q \in Pod : q # p => ~Active(q)
    BY <1>9 DEF OneActive
  <2> QED
    BY <1>9, <2>1 DEF Active, Waits
<1>11. route.epoch = pod[p].epoch /\ route.epoch \in Nat
  BY <1>1, <1>5, <1>9 DEF OldServes, Untransferred, Serves, CandidateLeads, BackLeading,
     TypeOK, Route
<1>12. \A o \in Operation : Late(o) => Due(o).epoch <= route.epoch
  <2> SUFFICES ASSUME NEW o \in Operation, Late(o)
               PROVE  Due(o).epoch <= route.epoch
    OBVIOUS
  <2>1. Due(o).epoch <= route.epoch + 1 /\ Due(o).epoch \in Nat
    BY DEF Lates, TypeOK, Due, CutoverOperation, Route
  <2>2. Due(o).epoch # route.epoch + 1
    BY <1>9, <1>11 DEF Lates, OneActive
  <2> QED
    BY <1>11, <2>1, <2>2
<1>13. TypeOK'
  BY <1>3, <1>4, <1>8, <1>9, TypeParts, TypePartsNext
     DEF GatewayType, MemoType, BoundsType, ProgramType
<1>14. OneActive' /\ Epochs' /\ Misled'
  BY <1>4, <1>9, <1>10, NoneAssumption DEF OneActive, Epochs, Misled, Pod
<1>15. PodsInOrder'
  BY <1>1, <1>4, <1>5, <1>6, <1>7, <1>9 DEF PodsInOrder, Candidate, Old, Waits
<1>16. OldServes' /\ CandidateLeads'
  BY <1>4, <1>5, <1>6 DEF OldServes, CandidateLeads, Old, Candidate, Preserved, Completed,
     Untransferred, Scheduling, Unfrozen, Preflight, Discarding, Returned, BackCutting,
     Leading, BackLeading, BackReleased, CuttingOver, Verifying
<1>17. Seeded'
  BY <1>1, <1>4, <1>5, <1>7, <1>9, <1>11 DEF Seeded, Released, Candidate
<1>18. Vacant'
  <2>1. pod'[Candidate].role = "candidate"
    BY <1>1, <1>5, <1>7, <1>9 DEF Seeded, Waits
  <2>2. CASE p = Candidate
    <3>1. route.endpoint = Candidate
      BY <1>5, <1>7, <2>2 DEF CandidateLeads, BackLeading
    <3> QED
      BY <1>4, <1>6, <2>1, <3>1 DEF Vacant, LeadsTo, Waits
  <2>3. CASE p = Old
    <3>1. pod'[Candidate].epoch = route.epoch
      BY <1>1, <1>5, <1>7, <1>9, <1>11, <2>3 DEF Seeded
    <3>2. pod'[template].epoch >= route.epoch
      BY <1>6, <1>11, <3>1
    <3> QED
      BY <1>4, <1>6, <2>1, <3>2 DEF Vacant, Waits
  <2> QED
    BY <1>5, <2>2, <2>3
<1>19. Lates'
  BY <1>4, <1>5, <1>11, <1>12 DEF Lates, Late, Due, Mine, Back, TypeOK,
     CutoverOperation, Route
<1>20. Records'
  BY <1>4, <1>5, <1>6 DEF Records, Completed, BeforeSwap, Released, Untransferred,
     Scheduling, Unfrozen, Preflight, Mine, Back
<1>21. Continuity'
  BY <1>4, <1>5, <1>6 DEF Continuity, Completed, BeforeSwap, Released, Untransferred,
     Scheduling, Unfrozen, Preflight, Mine
<1> QED
  BY <1>13, <1>14, <1>15, <1>16, <1>17, <1>18, <1>19, <1>20, <1>21

-----------------------------------------------------------------------------
\* A promotion takes the lease that nobody has.
LEMMA PromoteEffect ==
    ASSUME Inv, NEW p \in Pod, NEW e \in Nat, NEW next \in Nat,
           PromoteCandidate(p, checksum, e, next)
    PROVE  /\ RoomType' /\ UNCHANGED stored
           /\ lease = None /\ lease' = p /\ next = e + 1
           /\ Active(p)' /\ pod'[p].epoch = next /\ Waits(p)
           /\ \A q \in Pod : q # p => pod'[q] = pod[q]
<1>1. RoomType'
  BY PromoteType, TypeParts DEF Inv, MemoType
<1>2. pod' = [pod EXCEPT ![p] = [pod[p] EXCEPT !.role = "active", !.epoch = next,
                                               !.armed = FALSE]]
  BY TypeParts DEF Inv, RoomType, Process, PromoteCandidate
<1> QED
  BY <1>1, <1>2, TypeParts DEF Inv, RoomType, Process, PromoteCandidate, Promotable,
     Active, Waits

LEMMA PromotionsKeep ==
    ASSUME Inv,
           \/ /\ PromoteCandidate(Candidate, checksum, target.epoch, target.epoch + 1)
              /\ Replied("promote", Reported(pod'[Candidate]) = checksum, "proof")
           \/ /\ PromoteCandidate(Old, checksum, currentEpoch, rollbackEpoch)
              /\ Replied("back_promote", Reported(pod'[Old]) = checksum, "back_freeze"),
           UNCHANGED <<template, gateway, memo, context>>
    PROVE  Inv'
<1> USE DEF Inv
<1>1. Candidate \in Pod /\ Old \in Pod /\ Candidate \in Nat /\ Old \in Nat
  BY PodsOfHandoff
<1>2. target.epoch \in Nat /\ currentEpoch \in Nat /\ rollbackEpoch \in Nat
  BY DEF TypeOK
<1>3. PICK p \in Pod, e \in Nat, next \in Nat :
         /\ \/ /\ at = "promote" /\ p = Candidate /\ e = target.epoch
               /\ at' = "proof" \/ Throws
            \/ /\ at = "back_promote" /\ p = Old /\ e = currentEpoch
               /\ next = rollbackEpoch
               /\ at' = "back_freeze" \/ Throws
         /\ PromoteCandidate(p, checksum, e, next)
  <2>1. CASE /\ PromoteCandidate(Candidate, checksum, target.epoch, target.epoch + 1)
             /\ Replied("promote", Reported(pod'[Candidate]) = checksum, "proof")
    <3>1. at = "promote" /\ (at' = "proof" \/ Throws)
      BY <2>1 DEF Replied, Goes
    <3>2. target.epoch + 1 \in Nat
      BY <1>2
    <3> QED
      BY <1>1, <1>2, <2>1, <3>1, <3>2
  <2>2. CASE /\ PromoteCandidate(Old, checksum, currentEpoch, rollbackEpoch)
             /\ Replied("back_promote", Reported(pod'[Old]) = checksum, "back_freeze")
    <3>1. at = "back_promote" /\ (at' = "back_freeze" \/ Throws)
      BY <2>2 DEF Replied, Goes
    <3> QED
      BY <1>1, <1>2, <2>2, <3>1
  <2> QED
    BY <2>1, <2>2
<1>4. UNCHANGED <<template, route, preparation, verification, cutover, checksum,
                  currentEpoch, rollbackEpoch, context, handoffs, target, broken, saves>>
      /\ faults' \subseteq Fault
      /\ (Throws \/ UNCHANGED <<failedAt, outcome>>)
  BY TypeParts DEF Replied, Goes, Happens, Elsewhere, gateway, memo, bounds, ProgramType
<1>5. \/ at = "promote" /\ at' \in {"proof", "observe"} /\ p = Candidate /\ e = target.epoch
      \/ /\ at = "back_promote" /\ p = Old /\ e = currentEpoch /\ next = rollbackEpoch
         /\ \/ at' = "back_freeze"
            \/ at' = "idle" /\ outcome' = "rollback_failed_candidate_retained"
  <2>1. CASE at = "promote"
    BY <1>3, <2>1, Recoveries DEF Activating
  <2>2. CASE at = "back_promote"
    BY <1>3, <2>2, Recoveries, Outcomes DEF Scheduling, Unfrozen, Preflight,
       Activating, CuttingOver, Verifying, RollingBack, Discarding
  <2> QED
    BY <1>3, <2>1, <2>2
<1>6. handoffs > 0 /\ Old <= handoffs /\ handoffs \in Nat /\ template = Candidate
      /\ outcome' # "completed"
  BY <1>4, <1>5, Outcomes DEF PodsInOrder, TypeOK
<1>7. Old # Candidate
  BY <1>1, <1>6 DEF Candidate
<1>8. at' \in Label /\ outcome' \in Outcome /\ failedAt' \in Label
  <2>1. at' \in Label
    BY <1>5 DEF Label, CuttingOver, RollingBack
  <2> QED
    BY <1>4, <2>1, ThrowsType, TypeParts DEF ProgramType
<1>9. /\ RoomType' /\ UNCHANGED stored
      /\ lease = None /\ lease' = p /\ next = e + 1
      /\ Active(p)' /\ pod'[p].epoch = next /\ Waits(p)
      /\ \A q \in Pod : q # p => pod'[q] = pod[q]
  BY <1>3, PromoteEffect
<1>10. p # None /\ \A q \in Pod : ~Active(q)
  BY <1>9, NoneAssumption DEF OneActive, Pod
<1>11. \A q \in Pod : Active(q)' <=> q = p
  BY <1>9, <1>10 DEF Active
<1>12. route.epoch = e
  BY <1>5, <1>9 DEF Seeded, Released, CandidateLeads, BackReleased
<1>13. TypeOK'
  BY <1>4, <1>8, <1>9, TypeParts, TypePartsNext
     DEF GatewayType, MemoType, BoundsType, ProgramType
<1>14. OneActive' /\ Epochs'
  BY <1>4, <1>9, <1>11 DEF OneActive, Epochs, RoomEpoch
<1>15. PodsInOrder'
  BY <1>1, <1>4, <1>5, <1>6, <1>7, <1>9 DEF PodsInOrder, Candidate, Old, Waits
<1>16. OldServes'
  BY <1>1, <1>4, <1>5, <1>6, <1>9 DEF OldServes, Old, Preserved, Untransferred,
     Scheduling, Unfrozen, Preflight, Discarding, Returned, BackCutting
<1>17. CandidateLeads'
  BY <1>1, <1>4, <1>5, <1>6, <1>9 DEF CandidateLeads, New, Candidate, Completed,
     Leading, BackLeading, BackReleased, CuttingOver, Verifying
<1>18. Seeded' /\ Vacant'
  BY <1>5, <1>9, <1>10 DEF Seeded, Released, Vacant
<1>19. Misled'
  BY <1>4, <1>9, <1>11, <1>12 DEF Misled
<1>20. Lates'
  <2>1. \A o \in Operation : Late(o) => Due(o).epoch # route.epoch + 1
    BY <1>10 DEF Lates
  <2> QED
    BY <1>4, <1>5, <2>1 DEF Lates, Late, Due, Mine, Back, BackReleased
<1>21. Records'
  BY <1>4, <1>5, <1>6 DEF Records, Completed, BeforeSwap, Released, Untransferred,
     Scheduling, Unfrozen, Preflight, Mine, Back
<1>22. Continuity'
  BY <1>4, <1>5, <1>6 DEF Continuity, Completed, BeforeSwap, Released, Untransferred,
     Scheduling, Unfrozen, Preflight, Mine
<1> QED
  BY <1>13, <1>14, <1>15, <1>16, <1>17, <1>18, <1>19, <1>20, <1>21, <1>22

-----------------------------------------------------------------------------
\* Requests to the gateway that leave its route as it is.
AsksGateway ==
    \/ at = "freeze" /\ at' \in {"save", "discard"} /\ verification' = None
    \/ /\ at = "finalize" /\ at' \in {"drain", "observe"} /\ verification' = None
       /\ MayFinalize(Mine)
    \/ at = "abort" /\ at' = "discard"
    \/ at = "abort" /\ at' = "idle" /\ outcome' = "gateway_abort_failed"
    \/ at = "unfreeze" /\ at' = "discard"
    \/ at = "back_freeze" /\ at' = "back_swap"
    \/ at = "back_finalize" /\ at' = "discard"
    \/ /\ at \in {"unfreeze", "back_freeze", "back_finalize"} /\ at' = "idle"
       /\ outcome' = "rollback_failed_candidate_retained"

LEMMA GatewayKeeps ==
    ASSUME Inv, AsksGateway, outcome' # "completed",
           outcome' \in Outcome, failedAt' \in Label, faults' \subseteq Fault,
           preparation' \in Operation \cup {None}, verification' \in {verification, None},
           UNCHANGED <<room, template, route, cutover, memo, context>>,
           Elsewhere
    PROVE  Inv'
<1> USE DEF Inv
<1>1. UNCHANGED <<pod, lease, stored, template, route, cutover, checksum, currentEpoch,
                  rollbackEpoch, context, handoffs, target, saves, broken>>
  BY DEF Elsewhere, room, memo, bounds
<1>2. at # "idle" /\ handoffs > 0
  BY DEF AsksGateway, PodsInOrder
<1>3. TypeOK'
  <2>1. at' \in Label
    BY DEF AsksGateway, Label, Preflight, Verifying, RollingBack, Discarding
  <2> QED
    BY <1>1, <2>1 DEF TypeOK
<1>4. OneActive' /\ Epochs' /\ Vacant' /\ Misled'
  BY <1>1 DEF OneActive, Epochs, Vacant, Misled, Active, LeadsTo, Waits
<1>5. PodsInOrder'
  BY <1>1, <1>2 DEF PodsInOrder, Candidate, Old, AsksGateway
<1>6. OldServes'
  <2>1. \A p \in Pod : Serves(p)' <=> Serves(p)
    BY <1>1 DEF Serves, Active, LeadsTo
  <2>2. at = "back_finalize" => Serves(Old)
    BY DEF OldServes, Returned, Restored, Serves, LeadsTo
  <2>3. at = "unfreeze" \/ at \in Untransferred => Serves(Old)
    BY DEF OldServes
  <2>4. Old \in Pod /\ Old' = Old
    BY <1>1, PodsOfHandoff DEF Old
  <2>5. at' \in {"save", "discard"} => Serves(Old)'
    BY <2>1, <2>2, <2>3, <2>4 DEF AsksGateway, Untransferred, Unfrozen, Preflight, Serves,
       Active, LeadsTo
  <2>6. at' = "save" => pod[Old].epoch = target.epoch
    BY DEF AsksGateway, OldServes, Untransferred, Unfrozen
  <2>7. at' = "back_swap" => at = "back_freeze"
    BY DEF AsksGateway
  <2>8. \/ at' \in {"save", "discard", "drain", "observe", "back_swap"}
        \/ /\ at' = "idle"
           /\ outcome' \in {"gateway_abort_failed", "rollback_failed_candidate_retained"}
    BY DEF AsksGateway
  <2> QED
    BY <1>1, <2>4, <2>5, <2>6, <2>7, <2>8 DEF OldServes, Active, Preserved, Untransferred,
       Scheduling, Unfrozen, Preflight, Discarding, Returned, BackCutting, Old
<1>7. CandidateLeads'
  BY <1>1 DEF CandidateLeads, Active, New, Candidate, Completed, Leading,
     BackLeading, BackReleased, CuttingOver, Verifying, AsksGateway
<1>8. Seeded'
  BY <1>1 DEF Seeded, Released, AsksGateway
<1>9. Lates'
  BY <1>1 DEF Lates, Late, Due, Active, Mine, Back, BackReleased, AsksGateway
<1>10. Records'
  BY <1>1, <1>2 DEF Records, Completed, BeforeSwap, Released, Untransferred,
     Scheduling, Unfrozen, Preflight, Mine, Back, AsksGateway
<1>11. Continuity'
  <2>1. at = "freeze" => ~broken
    BY DEF Continuity, Records, BeforeSwap, Untransferred, Unfrozen
  <2>2. at = "finalize" /\ MayFinalize(Mine) => ~broken
    BY DEF Continuity, MayFinalize, Proven
  <2>3. at' \in {"save", "drain"} => ~broken /\ verification' = None
    BY <2>1, <2>2 DEF AsksGateway
  <2> QED
    BY <1>1, <2>3 DEF Continuity, Completed, BeforeSwap, Released, Untransferred,
       Scheduling, Unfrozen, Preflight, AsksGateway
<1> QED
  BY <1>3, <1>4, <1>5, <1>6, <1>7, <1>8, <1>9, <1>10, <1>11

-----------------------------------------------------------------------------
\* What a cutover of operation o to route r may do, whether it answers or not.
CutsTo(o, r) ==
    /\ preparation' \in {preparation, None}
    /\ \/ UNCHANGED <<route, verification, cutover>>
       \/ \E s \in {"preparing", "failed", "registry_committed", "committed"} :
             /\ cutover' = [cutover EXCEPT ![o] = [status |-> s, route |-> r]]
             /\ route' = IF s \in {"registry_committed", "committed"} THEN r ELSE route
             /\ verification' = IF s = "committed"
                                THEN [op |-> o, epoch |-> r.epoch, continuous |-> TRUE]
                                ELSE verification
             /\ s # "failed" => MaySwap(r.epoch - 1, r)

LEMMA CutEffect ==
    ASSUME NEW l, NEW o \in Operation, NEW e \in Nat, NEW r \in Route,
           NEW next, NEW reread, r.epoch = e + 1, Cut(l, o, e, r, next, reread),
           faults \subseteq Fault
    PROVE  /\ at = l /\ at' \in {next, reread} /\ faults' \subseteq Fault
           /\ CutsTo(o, r)
           /\ UNCHANGED <<room, template, memo, context, failedAt, outcome>>
           /\ Elsewhere
<1>1. e = r.epoch - 1
  BY DEF Route
<1>2. CutsTo(o, r)
  <2>1. CASE Commits(o, r) /\ MaySwap(e, r)
    BY <1>1, <2>1 DEF CutsTo, Commits
  <2>2. CASE StopsHalfway(o, r) /\ MaySwap(e, r)
    BY <1>1, <2>2 DEF CutsTo, StopsHalfway
  <2>3. CASE CutoverFails(o, r)
    BY <2>3 DEF CutsTo, CutoverFails
  <2>4. CASE UNCHANGED gateway
    BY <2>4 DEF CutsTo, gateway
  <2>5. CASE /\ cutover' = [cutover EXCEPT ![o] = [status |-> "preparing", route |-> r]]
             /\ UNCHANGED <<route, preparation, verification>>
             /\ MaySwap(e, r)
    BY <1>1, <2>5 DEF CutsTo
  <2> QED
    BY <2>1, <2>2, <2>3, <2>4, <2>5 DEF Cut
<1>3. at = l /\ at' \in {next, reread} /\ faults' \subseteq Fault
  BY DEF Cut, Happens
<1> QED
  BY <1>2, <1>3 DEF Cut

\* A cutover's route is its target's, which is the Active at the next epoch
\* when the route has still to move.
LEMMA CutRoom ==
    ASSUME Inv, NEW o \in Operation, NEW r \in Route, CutsTo(o, r),
           r.epoch = route.epoch + 1 =>
              r.endpoint \in Pod /\ Active(r.endpoint) /\ pod[r.endpoint].epoch = r.epoch,
           UNCHANGED <<pod, lease, stored, template>>
    PROVE  /\ GatewayType'
           /\ \/ UNCHANGED route
              \/ /\ route' = r /\ r.epoch = route.epoch + 1
                 /\ r.endpoint \in Pod /\ Active(r.endpoint)
                 /\ pod[r.endpoint].epoch = r.epoch
           /\ OneActive' /\ Epochs' /\ Vacant' /\ Misled'
           /\ \A q \in Operation : q # o => cutover'[q] = cutover[q]
           /\ \A q \in Operation : Late(q)' =>
                 /\ \/ Late(q) /\ Due(q)' = Due(q)
                    \/ q = o /\ Due(q)' = r
                 /\ Due(q)'.epoch <= route'.epoch + 1
                 /\ Due(q)'.epoch = route'.epoch + 1 =>
                       /\ Due(q)'.endpoint \in Pod /\ Active(Due(q)'.endpoint)
                       /\ pod[Due(q)'.endpoint].epoch = Due(q)'.epoch
           /\ \/ UNCHANGED verification /\ cutover'[o].status # "committed"
              \/ UNCHANGED <<verification, cutover>>
              \/ /\ verification' = [op |-> o, epoch |-> r.epoch, continuous |-> TRUE]
                 /\ cutover'[o].status = "committed"
                 /\ route' = r /\ r.epoch \in {route.epoch, route.epoch + 1}
<1> USE DEF Inv
<1>1. r.epoch \in Nat /\ route \in Route /\ route.epoch \in Nat
  BY DEF TypeOK, Route
<1>2. MaySwap(r.epoch - 1, r) => r.epoch = route.epoch + 1 \/ route = r
  BY <1>1 DEF MaySwap
<1>3. \/ UNCHANGED <<route, verification, cutover>>
      \/ \E s \in {"preparing", "failed", "registry_committed", "committed"} :
            /\ cutover' = [cutover EXCEPT ![o] = [status |-> s, route |-> r]]
            /\ route' = IF s \in {"registry_committed", "committed"} THEN r ELSE route
            /\ verification' = IF s = "committed"
                               THEN [op |-> o, epoch |-> r.epoch, continuous |-> TRUE]
                               ELSE verification
            /\ s # "failed" => r.epoch = route.epoch + 1 \/ route = r
  BY <1>2 DEF CutsTo
<1>4. GatewayType'
  <2>1. preparation' \in Operation \cup {None}
    BY DEF CutsTo, TypeOK
  <2>2. CASE UNCHANGED <<route, verification, cutover>>
    BY <2>1, <2>2, TypeParts DEF GatewayType
  <2>3. CASE ~UNCHANGED <<route, verification, cutover>>
    <3>1. PICK s \in {"preparing", "failed", "registry_committed", "committed"} :
            /\ cutover' = [cutover EXCEPT ![o] = [status |-> s, route |-> r]]
            /\ route' = IF s \in {"registry_committed", "committed"} THEN r ELSE route
            /\ verification' = IF s = "committed"
                               THEN [op |-> o, epoch |-> r.epoch, continuous |-> TRUE]
                               ELSE verification
      BY <1>3, <2>3
    <3>2. [op |-> o, epoch |-> r.epoch, continuous |-> TRUE] \in Verification
      BY <1>1 DEF Verification
    <3>3. [status |-> s, route |-> r] \in CutoverOperation
      BY DEF CutoverOperation
    <3> QED
      BY <1>1, <2>1, <3>1, <3>2, <3>3, TypeParts DEF GatewayType
  <2> QED
    BY <2>2, <2>3
<1>5. \/ UNCHANGED route
      \/ route' = r /\ r.epoch = route.epoch + 1
  BY <1>3
<1>6. \/ UNCHANGED route
      \/ /\ route' = r /\ r.epoch = route.epoch + 1
         /\ r.endpoint \in Pod /\ Active(r.endpoint)
         /\ pod[r.endpoint].epoch = r.epoch
  BY <1>5
<1>7. OneActive'
  BY DEF OneActive, Active
<1>8. Epochs'
  BY <1>1, <1>6 DEF Epochs, Active, RoomEpoch
<1>9. Vacant'
  <2>1. r.endpoint \in Pod /\ Active(r.endpoint) => lease # None
    BY NoneAssumption DEF OneActive, Pod
  <2> QED
    BY <1>6, <2>1 DEF Vacant, LeadsTo, Waits
<1>10. Misled'
  BY <1>6 DEF Misled, OneActive, Active, LeadsTo, Waits
<1>11. \A q \in Operation :
         /\ q # o => cutover'[q] = cutover[q]
         /\ Late(q)' => \/ Late(q) /\ Due(q)' = Due(q)
                        \/ /\ q = o /\ Due(q)' = r /\ UNCHANGED route
                           /\ r.epoch <= route.epoch + 1
  <2>1. CASE UNCHANGED <<route, verification, cutover>>
    BY <2>1 DEF Late, Due
  <2>2. CASE ~UNCHANGED <<route, verification, cutover>>
    <3>1. PICK s \in {"preparing", "failed", "registry_committed", "committed"} :
            /\ cutover' = [cutover EXCEPT ![o] = [status |-> s, route |-> r]]
            /\ route' = IF s \in {"registry_committed", "committed"} THEN r ELSE route
            /\ s # "failed" => r.epoch = route.epoch + 1 \/ route = r
      BY <1>3, <2>2
    <3>2. cutover \in [Operation -> CutoverOperation]
      BY DEF TypeOK
    <3>3. cutover'[o] = [status |-> s, route |-> r]
      BY <3>1, <3>2
    <3>4. s = "preparing" => UNCHANGED route /\ r.epoch <= route.epoch + 1
      BY <1>1, <3>1
    <3> QED
      BY <3>1, <3>2, <3>3, <3>4 DEF Late, Due
  <2> QED
    BY <2>1, <2>2
<1>12. ASSUME NEW q \in Operation, Late(q)'
       PROVE  /\ \/ Late(q) /\ Due(q)' = Due(q)
                 \/ q = o /\ Due(q)' = r
              /\ Due(q)'.epoch <= route'.epoch + 1
              /\ Due(q)'.epoch = route'.epoch + 1 =>
                    /\ Due(q)'.endpoint \in Pod /\ Active(Due(q)'.endpoint)
                    /\ pod[Due(q)'.endpoint].epoch = Due(q)'.epoch
  <2>1. PICK d : d = Due(q)'
    OBVIOUS
  <2>2. CASE Late(q) /\ d = Due(q)
    <3>1. /\ d.epoch \in Nat
          /\ d.epoch <= route.epoch + 1
          /\ d.epoch = route.epoch + 1 =>
                d.endpoint \in Pod /\ Active(d.endpoint) /\ pod[d.endpoint].epoch = d.epoch
      BY <2>2 DEF Lates, TypeOK, Due, CutoverOperation, Route
    <3> QED
      BY <1>1, <1>6, <2>1, <2>2, <3>1
  <2>3. CASE q = o /\ d = r /\ UNCHANGED route /\ r.epoch <= route.epoch + 1
    BY <2>1, <2>3
  <2> QED
    BY <1>11, <1>12, <2>1, <2>2, <2>3
<1>13. \/ UNCHANGED verification /\ cutover'[o].status # "committed"
       \/ UNCHANGED <<verification, cutover>>
       \/ /\ verification' = [op |-> o, epoch |-> r.epoch, continuous |-> TRUE]
          /\ cutover'[o].status = "committed"
          /\ route' = r /\ r.epoch \in {route.epoch, route.epoch + 1}
  BY <1>3 DEF TypeOK
<1> QED
  BY <1>4, <1>6, <1>7, <1>8, <1>9, <1>10, <1>11, <1>12, <1>13

LEMMA CutsKeep ==
    ASSUME Inv, Swap \/ BackSwap
    PROVE  Inv' /\ (route' # route => \E p \in Pod : Serves(p)')
<1> USE DEF Inv
<1>1. /\ Candidate \in Pod /\ Old \in Pod /\ Candidate \in Nat /\ Old \in Nat
      /\ target.epoch \in Nat /\ currentEpoch \in Nat /\ rollbackEpoch \in Nat
      /\ faults \subseteq Fault
  BY PodsOfHandoff DEF TypeOK
<1>2. at \in {"swap", "back_swap"} /\ handoffs > 0 /\ handoffs \in 1..MaxHandoff
      /\ outcome # "completed"
  BY BoundAssumption DEF Swap, BackSwap, Cut, PodsInOrder, TypeOK
<1>3. Mine \in Operation /\ Back \in Operation /\ Mine # Back
  BY <1>2 DEF Mine, Back, Operation
<1>4. PICK o \in {Mine, Back}, r \in Route :
         /\ CutsTo(o, r)
         /\ r.endpoint \in Pod /\ Active(r.endpoint) /\ pod[r.endpoint].epoch = r.epoch
         /\ cutover[o].status = "none"
         /\ faults' \subseteq Fault
         /\ UNCHANGED <<room, template, memo, context, failedAt, outcome>> /\ Elsewhere
         /\ \/ at = "swap" /\ at' \in {"verify", "reread"} /\ o = Mine /\ r = New
            \/ at = "back_swap" /\ at' \in {"back_proof", "back_reread"} /\ o = Back
  <2>1. CASE Swap
    <3>1. New \in Route /\ New.epoch = target.epoch + 1 /\ New.endpoint = Candidate
      BY <1>1 DEF New, Route
    <3>2. /\ at = "swap" /\ at' \in {"verify", "reread"} /\ CutsTo(Mine, New)
          /\ faults' \subseteq Fault
          /\ UNCHANGED <<room, template, memo, context, failedAt, outcome>> /\ Elsewhere
      BY <1>1, <1>3, <2>1, <3>1, CutEffect DEF Swap
    <3>3. cutover[Mine].status = "none"
      BY <3>2 DEF Records, BeforeSwap
    <3> QED
      BY <1>1, <3>1, <3>2, <3>3 DEF CandidateLeads, Leading, CuttingOver
  <2>2. CASE BackSwap
    <3>1. at = "back_swap"
      BY <2>2 DEF BackSwap, Cut
    <3>2. Active(Old) /\ pod[Old].epoch = rollbackEpoch /\ rollbackEpoch = currentEpoch + 1
      BY <3>1 DEF OldServes, Returned, BackCutting
    <3>3. Restored \in Route /\ Restored.epoch = currentEpoch + 1 /\ Restored.endpoint = Old
      BY <1>1, <3>2 DEF Restored, Route
    <3>4. /\ at' \in {"back_proof", "back_reread"} /\ CutsTo(Back, Restored)
          /\ faults' \subseteq Fault
          /\ UNCHANGED <<room, template, memo, context, failedAt, outcome>> /\ Elsewhere
      BY <1>1, <1>3, <2>2, <3>3, CutEffect DEF BackSwap
    <3>5. cutover[Back].status = "none"
      BY <3>1 DEF Records
    <3> QED
      BY <1>1, <3>1, <3>2, <3>3, <3>4, <3>5
  <2> QED
    BY <2>1, <2>2
<1>5. o \in Operation
  BY <1>3
<1>6. UNCHANGED <<pod, lease, stored, template, checksum, currentEpoch, rollbackEpoch,
                  context, handoffs, target, saves, broken, failedAt, outcome>>
  BY <1>4 DEF Elsewhere, room, memo, bounds
<1>7. /\ GatewayType'
      /\ \/ UNCHANGED route
         \/ route' = r /\ r.epoch = route.epoch + 1
      /\ OneActive' /\ Epochs' /\ Vacant' /\ Misled'
      /\ \A q \in Operation : q # o => cutover'[q] = cutover[q]
      /\ \A q \in Operation : Late(q)' =>
            /\ \/ Late(q) /\ Due(q)' = Due(q)
               \/ q = o /\ Due(q)' = r
            /\ Due(q)'.epoch <= route'.epoch + 1
            /\ Due(q)'.epoch = route'.epoch + 1 =>
                  /\ Due(q)'.endpoint \in Pod /\ Active(Due(q)'.endpoint)
                  /\ pod[Due(q)'.endpoint].epoch = Due(q)'.epoch
      /\ \/ UNCHANGED verification /\ cutover'[o].status # "committed"
         \/ UNCHANGED <<verification, cutover>>
         \/ /\ verification' = [op |-> o, epoch |-> r.epoch, continuous |-> TRUE]
            /\ cutover'[o].status = "committed"
            /\ route' = r
  BY <1>4, <1>5, <1>6, CutRoom
<1>8. TypeOK'
  <2>1. at' \in Label
    BY <1>4 DEF Label, CuttingOver, Verifying, RollingBack
  <2> QED
    BY <1>4, <1>6, <1>7, <2>1, TypeParts, TypePartsNext
       DEF RoomType, MemoType, BoundsType, ProgramType
<1>9. PodsInOrder'
  BY <1>2, <1>4, <1>6 DEF PodsInOrder, Candidate, Old
<1>10. OldServes'
  BY <1>4, <1>6 DEF OldServes, Active, Preserved, Untransferred, Scheduling, Unfrozen,
     Preflight, Discarding, Returned, BackCutting, Old
<1>11. CandidateLeads' /\ Seeded'
  BY <1>2, <1>4, <1>6 DEF CandidateLeads, Seeded, Active, New, Candidate, Completed,
     Leading,
     BackLeading, BackReleased, CuttingOver, Verifying, Released
<1>12. Lates'
  <2> SUFFICES ASSUME NEW q \in Operation, Late(q)'
               PROVE  /\ q \in {Mine, Back} \/ Due(q)'.epoch <= target.epoch
                      /\ q = Mine => Due(q)'.epoch > target.epoch
    BY <1>4, <1>6, <1>7 DEF Lates, Mine, Back, Active, BackReleased
  <2>1. CASE Late(q) /\ Due(q)' = Due(q)
    BY <2>1 DEF Lates
  <2>2. CASE q = o /\ Due(q)' = r
    <3>1. q = Mine => r.epoch = target.epoch + 1
      BY <1>3, <1>4, <2>2 DEF New
    <3> QED
      BY <1>1, <2>2, <3>1
  <2> QED
    BY <1>7, <2>1, <2>2
<1>13. verification # None => verification.op \in Operation /\ verification.op # o
  BY <1>4 DEF Records, TypeOK, Verification
<1>14. Records'
  <2>1. at = "swap" => cutover'[Back].status = "none" /\ r.epoch = target.epoch + 1
    BY <1>3, <1>4, <1>7 DEF Records, New
  <2>2. at = "swap" /\ cutover'[Mine].status = "committed" => route' = r
    BY <1>4, <1>7
  <2>3. \A q \in Operation : q[1] > handoffs => q # o
    BY <1>2, <1>4 DEF Mine, Back
  <2>4. verification' # None => cutover'[verification'.op].status = "committed"
    BY <1>7, <1>13 DEF Records
  <2> QED
    BY <1>1, <1>2, <1>4, <1>6, <1>7, <2>1, <2>2, <2>3, <2>4 DEF Records, Completed,
       BeforeSwap, Released, Untransferred, Scheduling, Unfrozen, Preflight, Mine, Back
<1>15. Continuity'
  <2>1. at = "swap" => ~broken
    BY <1>4, <1>13 DEF Continuity, BeforeSwap
  <2> QED
    BY <1>2, <1>4, <1>6, <2>1 DEF Continuity, Completed, BeforeSwap, Released,
       Untransferred, Scheduling, Unfrozen, Preflight
<1>16. route' # route => Serves(r.endpoint)'
  BY <1>4, <1>6, <1>7 DEF Serves, Active, LeadsTo
<1> QED
  BY <1>4, <1>7, <1>8, <1>9, <1>10, <1>11, <1>12, <1>14, <1>15, <1>16

\* A cutover whose caller has given up: it changes the route only to the Active
\* that its program has meanwhile found no other use for.
LEMMA LateSwapKeeps ==
    ASSUME Inv, LateSwap
    PROVE  Inv' /\ (route' # route => \E p \in Pod : Serves(p)')
<1> USE DEF Inv
<1>1. /\ Candidate \in Pod /\ Old \in Pod /\ Candidate \in Nat /\ Old \in Nat
      /\ target.epoch \in Nat /\ route.epoch \in Nat /\ handoffs \in Nat
  BY PodsOfHandoff, BoundAssumption DEF TypeOK, Route
<1>2. PICK o \in Operation :
         /\ Late(o)
         /\ LET may == MaySwap(Due(o).epoch - 1, Due(o))
            IN  \/ may /\ Commits(o, Due(o)) /\ UNCHANGED faults
                \/ /\ may /\ preparation # o
                   /\ StopsHalfway(o, Due(o)) /\ UNCHANGED faults
                \/ ~may /\ CutoverFails(o, Due(o)) /\ UNCHANGED faults
                \/ CutoverFails(o, Due(o)) /\ Happens("session")
  BY DEF LateSwap, Late, Due
<1>3. PICK r : r = Due(o)
  OBVIOUS
<1>4. r \in Route /\ r.epoch \in Nat
  BY <1>3 DEF TypeOK, Due, CutoverOperation, Route
<1>5. CutsTo(o, r)
  BY <1>2, <1>3 DEF CutsTo, Commits, StopsHalfway, CutoverFails
<1>6. r.epoch = route.epoch + 1 =>
         r.endpoint \in Pod /\ Active(r.endpoint) /\ pod[r.endpoint].epoch = r.epoch
  BY <1>2, <1>3 DEF Lates
<1>7. /\ UNCHANGED <<pod, lease, stored, template, at, checksum, currentEpoch, rollbackEpoch,
                     context, handoffs, target, saves, broken, failedAt, outcome>>
      /\ faults' \subseteq Fault
  BY <1>2, TypeParts DEF LateSwap, Elsewhere, room, memo, bounds, Happens, ProgramType
<1>8. /\ GatewayType'
      /\ \/ UNCHANGED route
         \/ /\ route' = r /\ r.epoch = route.epoch + 1
            /\ r.endpoint \in Pod /\ Active(r.endpoint)
            /\ pod[r.endpoint].epoch = r.epoch
      /\ OneActive' /\ Epochs' /\ Vacant' /\ Misled'
      /\ \A q \in Operation : q # o => cutover'[q] = cutover[q]
      /\ \A q \in Operation : Late(q)' =>
            /\ \/ Late(q) /\ Due(q)' = Due(q)
               \/ q = o /\ Due(q)' = r
            /\ Due(q)'.epoch <= route'.epoch + 1
            /\ Due(q)'.epoch = route'.epoch + 1 =>
                  /\ Due(q)'.endpoint \in Pod /\ Active(Due(q)'.endpoint)
                  /\ pod[Due(q)'.endpoint].epoch = Due(q)'.epoch
      /\ \/ UNCHANGED verification /\ cutover'[o].status # "committed"
         \/ UNCHANGED <<verification, cutover>>
         \/ /\ verification' = [op |-> o, epoch |-> r.epoch, continuous |-> TRUE]
            /\ cutover'[o].status = "committed"
            /\ route' = r /\ r.epoch \in {route.epoch, route.epoch + 1}
  BY <1>4, <1>5, <1>6, <1>7, CutRoom
\* The Active of the room at the route's epoch is not the cutover's.
<1>9. ASSUME NEW p \in Pod, Active(p), pod[p].epoch = route.epoch
      PROVE  UNCHANGED route
  <2>1. \/ UNCHANGED route
        \/ /\ r.epoch = route.epoch + 1
           /\ r.endpoint \in Pod /\ Active(r.endpoint)
           /\ pod[r.endpoint].epoch = r.epoch
    BY <1>8
  <2>2. r.endpoint \in Pod /\ Active(r.endpoint) => r.endpoint = p
    BY <1>9 DEF OneActive
  <2> QED
    BY <1>1, <1>9, <2>1, <2>2
<1>10. TypeOK'
  BY <1>7, <1>8, TypeParts, TypePartsNext DEF RoomType, MemoType, BoundsType, ProgramType
<1>11. PodsInOrder'
  BY <1>7 DEF PodsInOrder, Candidate, Old
<1>12. \A p \in Pod : Serves(p) => Serves(p)'
  BY <1>7, <1>9 DEF Serves, Active, LeadsTo
<1>13. OldServes'
  <2>1. at = "back_finalize" => route' = Restored
    BY <1>1, <1>9 DEF OldServes, Returned, Restored
  <2> QED
    BY <1>1, <1>7, <1>12, <2>1 DEF OldServes, Serves, Active, LeadsTo, Old, Preserved,
       Restored
<1>14. at \in BeforeSwap => o \notin {Mine, Back}
  <2>1. at \in BeforeSwap => cutover[Mine].status = "none" /\ cutover[Back].status = "none"
    BY DEF Records, BeforeSwap, Untransferred, Released, Scheduling, Unfrozen, Preflight
  <2> QED
    BY <1>2, <2>1 DEF Late
<1>15. CandidateLeads'
  <2>1. at \in BackLeading => UNCHANGED route
    BY <1>1, <1>9 DEF CandidateLeads
  <2>2. at \in BackReleased => UNCHANGED route
    BY <1>1, <1>2, <1>3, <1>4, <1>8 DEF Lates
  <2>3. at \in {"finalize", "drain"} \/ Completed => UNCHANGED route
    BY <1>1, <1>9 DEF CandidateLeads, Leading, Verifying, New
  <2> QED
    BY <1>7, <2>1, <2>2, <2>3 DEF CandidateLeads, Active, New, Candidate, Completed, Old
<1>16. Seeded'
  <2>1. at \in Released => UNCHANGED route
    BY <1>1, <1>2, <1>3, <1>4, <1>8, <1>14 DEF Lates, Seeded, BeforeSwap
  <2> QED
    BY <1>7, <2>1 DEF Seeded, Candidate
<1>17. Lates'
  <2> SUFFICES ASSUME NEW q \in Operation, Late(q)'
               PROVE  /\ q \in {Mine, Back} \/ Due(q)'.epoch <= target.epoch
                      /\ q = Mine => Due(q)'.epoch > target.epoch
                      /\ at \in BackReleased => Due(q)'.epoch <= route'.epoch
    BY <1>7, <1>8 DEF Lates, Mine, Back, Active
  <2>1. Late(q) /\ Due(q)' = Due(q)
    BY <1>2, <1>3, <1>8
  <2>2. at \in BackReleased => UNCHANGED route
    BY <1>1, <1>2, <1>3, <1>4, <1>8 DEF Lates
  <2> QED
    BY <2>1, <2>2 DEF Lates
<1>18. o \notin {Mine, Back} => r.epoch <= target.epoch
  BY <1>2, <1>3 DEF Lates
<1>19. cutover[o].status = "preparing" /\ o[1] \in Nat /\ o[1] <= handoffs
  <2>1. o[1] \in Nat
    BY DEF Operation
  <2> QED
    BY <1>1, <1>2, <2>1 DEF Late, Records
<1>20. Records'
  <2>1. handoffs > 0 => Mine \in Operation /\ Back \in Operation
    BY BoundAssumption DEF Mine, Back, Operation, TypeOK
  <2>2. at # "idle" \/ Completed => handoffs > 0
    BY DEF PodsInOrder, Completed
  <2>3. verification # None => verification.op \in Operation /\ verification.op # o
    BY <1>19 DEF Records, TypeOK, Verification
  <2>4. verification' # None => cutover'[verification'.op].status = "committed"
    BY <1>8, <2>3 DEF Records
  <2>5. at \in {"reread", "verify", "finalize"} /\ cutover'[Mine].status = "committed" =>
           route'.epoch > target.epoch
    <3>1. CASE o = Mine
      <4>1. r.epoch > target.epoch
        BY <1>2, <1>3, <3>1 DEF Lates
      <4> QED
        BY <1>8, <1>19, <3>1, <4>1
    <3>2. CASE o # Mine
      <4>1. route'.epoch >= route.epoch /\ route'.epoch \in Nat
        BY <1>1, <1>4, <1>8
      <4>2. cutover[Mine].status = "committed" /\ at \in {"reread", "verify", "finalize"} =>
               route.epoch > target.epoch
        BY DEF Records
      <4>3. at \in {"reread", "verify", "finalize"} => cutover'[Mine] = cutover[Mine]
        BY <1>8, <1>19, <2>1, <2>2, <3>2 DEF Completed
      <4> QED
        BY <1>1, <4>1, <4>2, <4>3
    <3> QED
      BY <3>1, <3>2
  <2>6. \A q \in Operation : q[1] > handoffs => q # o
    BY <1>1, <1>19
  <2>7. cutover[o].status # "none" /\ cutover[o].status # "committed"
    BY <1>19
  <2>8. \A q \in Operation : q[1] > handoffs => cutover'[q].status = "none"
    BY <1>8, <2>6 DEF Records
  <2>9. at \in BeforeSwap => cutover'[Mine].status = "none"
    BY <1>8, <1>14, <2>1, <2>2 DEF Records, BeforeSwap, Untransferred, Scheduling, Unfrozen,
       Preflight, Released
  <2>10. \/ Completed
         \/ at \notin {"idle", "back_reread", "back_proof", "back_finalize",
                       "discard", "delete"}
         => cutover'[Back].status = "none"
    <3>1. cutover[Back].status = "none" => o # Back
      BY <2>7
    <3> QED
      BY <1>8, <2>1, <2>2, <3>1 DEF Records
  <2>11. at \in {"finalize", "drain"} \/ Completed => cutover'[Mine].status = "committed"
    <3>1. cutover[Mine].status = "committed" => o # Mine
      BY <2>7
    <3> QED
      BY <1>8, <2>1, <2>2, <3>1 DEF Records
  <2>12. Mine' = Mine /\ Back' = Back /\ (Completed' <=> Completed)
    BY <1>7 DEF Mine, Back, Completed
  <2> QED
    BY <1>7, <2>4, <2>5, <2>8, <2>9, <2>10, <2>11, <2>12 DEF Records
<1>21. Continuity'
  <2>1. CASE UNCHANGED verification
    BY <1>7, <2>1 DEF Continuity, Completed, Mine
  <2>2. CASE verification' # verification
    <3>1. cutover'[o].status = "committed" /\ r.epoch >= route.epoch
      BY <1>1, <1>4, <1>8, <2>2
    <3>2. at = "drain" \/ Completed => FALSE
      <4>1. at \in {"finalize", "drain"} \/ Completed =>
               /\ route.epoch = target.epoch + 1
               /\ cutover[Mine].status = "committed" /\ cutover[Back].status = "none"
        BY DEF CandidateLeads, New, Records, Completed
      <4> QED
        BY <1>1, <1>4, <1>18, <1>19, <3>1, <4>1
    <3>3. at \in BeforeSwap \cup {"reread", "verify", "finalize"} => ~broken
      <4> SUFFICES ASSUME at \in BeforeSwap \cup {"reread", "verify", "finalize"}, broken
                   PROVE  FALSE
        OBVIOUS
      <4>1. cutover[Mine].status = "committed"
        BY DEF Continuity, Records
      <4>2. at \in {"reread", "verify", "finalize"} /\ cutover[Back].status = "none"
        BY <4>1 DEF Records
      <4>3. route.epoch > target.epoch
        BY <4>1, <4>2 DEF Records
      <4> QED
        BY <1>1, <1>4, <1>18, <1>19, <3>1, <4>1, <4>2, <4>3
    <3> QED
      BY <1>7, <3>2, <3>3 DEF Continuity, Completed
  <2> QED
    BY <2>1, <2>2
<1>22. route' # route => Serves(r.endpoint)'
  BY <1>7, <1>8 DEF Serves, Active, LeadsTo
<1> QED
  BY <1>8, <1>10, <1>11, <1>13, <1>15, <1>16, <1>17, <1>20, <1>21, <1>22

-----------------------------------------------------------------------------
\* What happens besides the program.
LEMMA BootsEffect ==
    ASSUME Inv, NEW p \in Pod, Boots(p)
    PROVE  /\ RoomType' /\ UNCHANGED stored /\ lease' # None
           /\ \/ /\ lease = None /\ lease' = p
                 /\ Active(p)' /\ pod'[p].epoch = RoomEpoch
              \/ /\ lease # None /\ lease' = lease
                 /\ Waits(p)' /\ pod'[p].epoch = stored.epoch
           /\ \A q \in Pod : q # p => pod'[q] = pod[q]
<1>1. RoomType'
  BY BootsType, TypeParts DEF Inv
<1>2. p # None
  BY NoneAssumption DEF Pod
<1>3. pod' = [pod EXCEPT ![p] =
                 [role |-> IF lease = None THEN "active" ELSE "candidate",
                  epoch |-> IF lease = None THEN RoomEpoch ELSE stored.epoch,
                  loaded |-> stored.version, ready |-> TRUE, wrote |-> 0,
                  armed |-> lease # None]]
      /\ lease' = (IF lease = None THEN p ELSE lease) /\ UNCHANGED stored
  BY DEF Boots
<1>4. pod'[p].role = (IF lease = None THEN "active" ELSE "candidate")
      /\ pod'[p].epoch = (IF lease = None THEN RoomEpoch ELSE stored.epoch)
      /\ \A q \in Pod : q # p => pod'[q] = pod[q]
  BY <1>3, TypeParts DEF Inv, RoomType
<1> QED
  BY <1>1, <1>2, <1>3, <1>4 DEF Active, Waits

LEMMA BootsKeep ==
    ASSUME Inv, NEW p \in Pod, Boots(p),
           Waits(p) \/ (p = template /\ ~Running(p)),
           UNCHANGED <<template, gateway, Program>>, Elsewhere, faults' \subseteq Fault
    PROVE  Inv'
<1> USE DEF Inv
<1>1. Candidate \in Pod /\ Old \in Pod /\ Candidate \in Nat /\ Old \in Nat
      /\ p \in Nat /\ p # None
  BY PodsOfHandoff, NoneAssumption DEF Pod
<1>2. UNCHANGED <<template, route, preparation, verification, cutover, at, checksum,
                  currentEpoch, rollbackEpoch, context, handoffs, target, broken, saves,
                  failedAt, outcome>>
  BY DEF Elsewhere, gateway, memo, bounds, Program
<1>3. /\ RoomType' /\ UNCHANGED stored /\ lease' # None
      /\ \/ /\ lease = None /\ lease' = p
            /\ Active(p)' /\ pod'[p].epoch = RoomEpoch
         \/ /\ lease # None /\ lease' = lease
            /\ Waits(p)' /\ pod'[p].epoch = stored.epoch
      /\ \A q \in Pod : q # p => pod'[q] = pod[q]
  BY BootsEffect
<1>4. ~Active(p)
  BY DEF Running, Active, Waits
<1>5. \A q \in Pod : Active(q) => /\ pod'[q] = pod[q] /\ lease = q /\ lease # None
                                  /\ q # p
  BY <1>3, <1>4, NoneAssumption DEF OneActive, Pod
<1>6. \A q \in Pod : Active(q)' => Active(q) \/ (q = p /\ lease = None)
  BY <1>3 DEF Active, Waits
<1>7. TypeOK'
  BY <1>2, <1>3, TypeParts, TypePartsNext DEF GatewayType, MemoType, BoundsType, ProgramType
<1>8. OneActive'
  BY <1>1, <1>3, <1>4, <1>5, <1>6 DEF OneActive, Active, Waits
<1>9. p <= Candidate
  <2>1. CASE Waits(p)
    BY <1>1, <2>1 DEF PodsInOrder, Waits
  <2>2. CASE p = template
    BY <2>2 DEF PodsInOrder
  <2> QED
    BY <2>1, <2>2
<1>10. PodsInOrder'
  BY <1>1, <1>2, <1>3, <1>9 DEF PodsInOrder, Candidate, Old
<1>11. \A q \in Pod : Serves(q) => Serves(q)' /\ pod'[q] = pod[q]
  BY <1>2, <1>5 DEF Serves, Active, LeadsTo
<1>12. OldServes'
  BY <1>1, <1>2, <1>5, <1>11 DEF OldServes, Active, Serves, Old, Preserved, Restored
<1>13. CandidateLeads'
  <2>1. Completed => p # Old
    BY <1>1, <1>4 DEF CandidateLeads, Active, Running, Waits
  <2> QED
    BY <1>1, <1>2, <1>3, <1>5, <2>1 DEF CandidateLeads, Active, New, Candidate,
       Completed, Old
<1>14. Seeded'
  <2>1. at \in {"check", "activate", "release", "repoll"} => lease # None
    BY <1>1, <1>5 DEF OldServes, Untransferred, Preflight, Serves
  <2>2. at \in {"check", "activate", "release", "repoll"} => pod'[Candidate].epoch = target.epoch
    BY <1>1, <1>3, <2>1 DEF Seeded
  <2>3. at \in {"release", "repoll"} => pod'[Candidate].role = "candidate"
    BY <1>1, <1>3, <2>1 DEF Seeded, Waits
  <2> QED
    BY <1>2, <1>3, <2>2, <2>3 DEF Seeded, Candidate
<1>15. Epochs'
  BY <1>2, <1>3, <1>5, <1>6 DEF Epochs, RoomEpoch
<1>16. Vacant'
  BY <1>3 DEF Vacant
<1>17. Misled'
  <2> SUFFICES ASSUME NEW q \in Pod, Active(q)', route'.epoch = pod'[q].epoch
               PROVE  LeadsTo(q)' \/ (q # template' /\ Waits(template)')
    BY DEF Misled
  <2>1. CASE Active(q)
    <3>1. LeadsTo(q) \/ (q # template /\ Waits(template))
      BY <1>2, <1>5, <2>1 DEF Misled
    <3>2. template \in Pod
      BY DEF TypeOK
    <3>3. Waits(template) => Waits(template)'
      BY <1>2, <1>3, <1>5, <2>1, <3>2 DEF Waits
    <3> QED
      BY <1>2, <3>1, <3>3 DEF LeadsTo
  <2>2. CASE q = p /\ lease = None
    BY <1>2, <1>3, <2>2 DEF Epochs, LeadsTo
  <2> QED
    BY <1>6, <2>1, <2>2
<1>18. Lates'
  BY <1>2, <1>5 DEF Lates, Late, Due, Active, Mine, Back
<1>19. Records' /\ Continuity'
  BY <1>2 DEF Records, Continuity, Completed, Mine, Back
<1> QED
  BY <1>7, <1>8, <1>10, <1>12, <1>13, <1>14, <1>15, <1>16, <1>17, <1>18, <1>19

LEMMA TakeoverKeeps ==
    ASSUME Inv, NEW p \in Pod, Takeover(p)
    PROVE  Inv'
<1> USE DEF Inv
<1>1. Candidate \in Pod /\ Old \in Pod /\ Candidate \in Nat /\ Old \in Nat
      /\ p \in Nat /\ p # None
  BY PodsOfHandoff, NoneAssumption DEF Pod
<1>2. UNCHANGED <<stored, template, route, preparation, verification, cutover, at, checksum,
                  currentEpoch, rollbackEpoch, context, handoffs, target, broken, saves,
                  failedAt, outcome, faults>>
  BY DEF Takeover, Elsewhere, gateway, memo, bounds, Program
<1>3. /\ Waits(p) /\ lease = None /\ lease' = p
      /\ pod' = [pod EXCEPT ![p] = [pod[p] EXCEPT !.role = "active", !.epoch = pod[p].epoch + 1,
                                                  !.armed = FALSE]]
  BY TypeParts DEF Takeover, Waits, RoomType, Process
<1>4. /\ RoomType' /\ Active(p)' /\ pod'[p].epoch = pod[p].epoch + 1 /\ pod[p].epoch \in Nat
      /\ \A q \in Pod : q # p => pod'[q] = pod[q]
  <2>1. PICK g : g = pod[p]
    OBVIOUS
  <2>2. g \in Process /\ g.loaded <= stored.version /\ g.wrote <= stored.version
    BY <2>1, TypeParts DEF RoomType
  <2>3. PICK f : f = [g EXCEPT !.role = "active", !.epoch = g.epoch + 1, !.armed = FALSE]
    OBVIOUS
  <2>4. f \in Process
    <3>1. PICK n : n = g.epoch + 1
      OBVIOUS
    <3>2. n \in Nat
      BY <2>2, <3>1 DEF Process
    <3>3. f = [g EXCEPT !.role = "active", !.epoch = n, !.armed = FALSE]
      BY <2>3, <3>1
    <3> QED
      BY <2>2, <3>2, <3>3 DEF Process
  <2>5. f.role = "active" /\ f.epoch = g.epoch + 1 /\ f.loaded = g.loaded
        /\ f.wrote = g.wrote /\ g.epoch \in Nat
    BY <2>2, <2>3 DEF Process
  <2>6. pod' = [pod EXCEPT ![p] = f]
    BY <1>3, <2>1, <2>3
  <2>7. \A q \in Pod : pod'[q] = IF q = p THEN f ELSE pod[q]
    BY <2>6, TypeParts DEF RoomType
  <2>8. RoomType'
    BY <1>2, <1>3, <2>1, <2>2, <2>4, <2>5, <2>6, <2>7, TypeParts DEF RoomType
  <2> QED
    BY <2>1, <2>5, <2>7, <2>8 DEF Active
<1>5. \A q \in Pod : ~Active(q)
  BY <1>3, NoneAssumption DEF OneActive, Pod
<1>6. \A q \in Pod : Active(q)' <=> q = p
  BY <1>4, <1>5 DEF Active
<1>7. TypeOK'
  BY <1>2, <1>4, TypeParts, TypePartsNext DEF GatewayType, MemoType, BoundsType, ProgramType
<1>8. OneActive' /\ Epochs'
  BY <1>2, <1>3, <1>4, <1>6 DEF OneActive, Epochs, RoomEpoch
<1>9. PodsInOrder'
  BY <1>1, <1>2, <1>3, <1>4 DEF PodsInOrder, Candidate, Old, Waits
<1>10. OldServes'
  BY <1>1, <1>2, <1>5 DEF OldServes, Serves, Old, Preserved, Restored
<1>11. CandidateLeads'
  BY <1>1, <1>2, <1>5 DEF CandidateLeads, Leading, Verifying, Completed, Candidate, New
<1>12. Seeded'
  <2>1. at \notin {"check", "activate", "release", "repoll"}
    BY <1>1, <1>5 DEF OldServes, Untransferred, Preflight, Serves
  <2> QED
    BY <1>1, <1>2, <1>3, <2>1 DEF Seeded
<1>13. Vacant'
  BY <1>1, <1>3 DEF Vacant
<1>14. Misled'
  <2> SUFFICES ASSUME route.epoch = pod[p].epoch + 1
               PROVE  LeadsTo(p)' \/ (p # template' /\ Waits(template)')
    BY <1>2, <1>4, <1>6 DEF Misled
  <2>1. /\ template \in Pod
        /\ Waits(template) /\ (LeadsTo(template) \/ pod[template].epoch >= route.epoch)
    BY <1>3 DEF Vacant, TypeOK
  <2>2. CASE p = template
    BY <1>2, <1>4, <2>1, <2>2 DEF LeadsTo
  <2>3. CASE p # template
    BY <1>2, <1>4, <2>1, <2>3 DEF Waits
  <2> QED
    BY <2>2, <2>3
<1>15. Lates'
  BY <1>2, <1>5 DEF Lates, Late, Due, Mine, Back
<1>16. Records' /\ Continuity'
  BY <1>2 DEF Records, Continuity, Completed, Mine, Back
<1> QED
  BY <1>7, <1>8, <1>9, <1>10, <1>11, <1>12, <1>13, <1>14, <1>15, <1>16

LEMMA KubeRemovesKeeps ==
    ASSUME Inv, NEW p \in Pod, KubeRemoves(p)
    PROVE  Inv' /\ ~Active(p)
<1> USE DEF Inv
<1>1. Candidate \in Pod /\ Old \in Pod /\ Candidate \in Nat /\ Old \in Nat
      /\ template \in Pod
  BY PodsOfHandoff DEF TypeOK
<1>2. UNCHANGED <<template, route, preparation, verification, cutover, at, checksum,
                  currentEpoch, rollbackEpoch, context, handoffs, target, broken, saves,
                  failedAt, outcome, faults>>
  BY DEF KubeRemoves, Elsewhere, gateway, memo, bounds, Program
<1>3. p # template /\ Running(p) /\ Active(template) /\ Remove(p)
  BY DEF KubeRemoves
<1>4. lease = template /\ \A q \in Pod : Active(q) => q = template
  BY <1>1, <1>3 DEF OneActive
<1>5. /\ RoomType' /\ UNCHANGED <<lease, stored>> /\ pod'[p].role = "gone"
      /\ \A q \in Pod : q # p => pod'[q] = pod[q]
  BY <1>3, <1>4, RemoveEffect
<1>6. \A q \in Pod : Active(q)' <=> Active(q)
  BY <1>3, <1>4, <1>5 DEF Active
<1>7. \A q \in Pod : Active(q) => pod'[q] = pod[q]
  BY <1>3, <1>4, <1>5
<1>8. TypeOK'
  BY <1>2, <1>5, TypeParts, TypePartsNext DEF GatewayType, MemoType, BoundsType, ProgramType
<1>9. OneActive' /\ Epochs'
  BY <1>2, <1>5, <1>6, <1>7 DEF OneActive, Epochs
<1>10. PodsInOrder'
  BY <1>1, <1>2, <1>3, <1>5 DEF PodsInOrder, Candidate, Old, Running
<1>11. \A q \in Pod : Serves(q) => Serves(q)'
  BY <1>2, <1>6, <1>7 DEF Serves, LeadsTo
<1>12. OldServes'
  BY <1>1, <1>2, <1>6, <1>7, <1>11 DEF OldServes, Serves, Old, Preserved, Restored
<1>13. CandidateLeads'
  BY <1>1, <1>2, <1>5, <1>6, <1>7 DEF CandidateLeads, New, Candidate, Completed, Old
<1>14. Seeded'
  <2>1. at \in {"check", "activate", "release", "repoll"} => p # Candidate
    BY <1>3 DEF PodsInOrder
  <2>2. lease # None
    BY <1>1, <1>4, NoneAssumption DEF Pod
  <2> QED
    BY <1>1, <1>2, <1>5, <2>1, <2>2 DEF Seeded, Candidate
<1>15. Vacant'
  BY <1>1, <1>4, <1>5, NoneAssumption DEF Vacant, Pod
<1>16. Misled'
  BY <1>2, <1>4, <1>6, <1>7 DEF Misled, LeadsTo
<1>17. Lates'
  BY <1>2, <1>6, <1>7 DEF Lates, Late, Due, Mine, Back
<1>18. Records' /\ Continuity'
  BY <1>2 DEF Records, Continuity, Completed, Mine, Back
<1> QED
  BY <1>3, <1>4, <1>8, <1>9, <1>10, <1>12, <1>13, <1>14, <1>15, <1>16, <1>17, <1>18

\* Steps that change one thing of the gateway or of the program.
LEMMA PreparationEndsKeeps ==
    ASSUME Inv, PreparationEnds
    PROVE  Inv'
<1> USE DEF Inv
<1>1. /\ UNCHANGED <<pod, lease, stored, template, route, verification, cutover, at, checksum,
                     currentEpoch, rollbackEpoch, context, handoffs, target, broken, saves,
                     failedAt, outcome>>
      /\ preparation' = None /\ faults' \subseteq Fault
  BY TypeParts DEF PreparationEnds, Happens, Elsewhere, room, memo, bounds, Program,
     ProgramType
<1>2. TypeOK'
  BY <1>1 DEF TypeOK
<1> QED
  BY <1>1, <1>2 DEF OneActive, PodsInOrder, OldServes, CandidateLeads, Seeded, Epochs,
     Vacant,
     Misled, Lates, Late, Due, Records, Continuity, Completed, Preserved, Active, Serves,
     LeadsTo, Waits, New, Restored, Mine, Back, Candidate, Old

LEMMA SessionEndsKeeps ==
    ASSUME Inv, SessionEnds
    PROVE  Inv'
<1> USE DEF Inv
<1>1. /\ UNCHANGED <<pod, lease, stored, template, route, preparation, cutover, at, checksum,
                     currentEpoch, rollbackEpoch, context, handoffs, target, saves, failedAt,
                     outcome>>
      /\ verification # None
      /\ verification' = [verification EXCEPT !.continuous = FALSE]
      /\ broken' = (broken \/ verification.op = Mine)
      /\ faults' \subseteq Fault
  BY TypeParts DEF SessionEnds, Happens, room, memo, bounds, Program, ProgramType
<1>2. /\ verification' \in Verification /\ verification' # None
      /\ verification'.op = verification.op /\ ~verification'.continuous
      /\ verification \in Verification
  BY <1>1, NoneAssumption DEF TypeOK, Verification
<1>3. TypeOK'
  BY <1>1, <1>2 DEF TypeOK
<1>4. Records'
  BY <1>1, <1>2 DEF Records, Completed, Mine, Back
<1>5. Continuity'
  BY <1>1, <1>2 DEF Continuity, Completed, Mine
<1> QED
  BY <1>1, <1>3, <1>4, <1>5 DEF OneActive, PodsInOrder, OldServes, CandidateLeads, Seeded,
     Epochs, Vacant, Misled, Lates, Late, Due, Completed, Preserved, Active, Serves,
     LeadsTo, Waits, New, Restored, Mine, Back, Candidate, Old

LEMMA RestartKeeps ==
    ASSUME Inv, OrchestratorRestarts
    PROVE  Inv'
<1> USE DEF Inv
<1>1. /\ UNCHANGED <<pod, lease, stored, template, route, preparation, verification, cutover,
                     checksum, currentEpoch, rollbackEpoch, handoffs, target, broken, saves>>
      /\ at # "idle" \/ context
      /\ at' = "idle" /\ context' = FALSE
      /\ outcome' = "interrupted" /\ failedAt' = "idle"
      /\ faults' \subseteq Fault
  BY TypeParts DEF OrchestratorRestarts, Happens, Elsewhere, room, gateway, memo, bounds,
     ProgramType
<1>2. TypeOK'
  BY <1>1 DEF TypeOK, Label, Outcome
<1>3. handoffs > 0
  BY <1>1 DEF PodsInOrder
<1>4. OneActive' /\ Epochs' /\ Vacant' /\ Misled'
  BY <1>1 DEF OneActive, Epochs, Vacant, Misled, Active, LeadsTo, Waits
<1>5. PodsInOrder'
  BY <1>1, <1>3 DEF PodsInOrder, Candidate, Old
<1>6. OldServes' /\ CandidateLeads' /\ Seeded'
  BY <1>1 DEF OldServes, CandidateLeads, Seeded, Preserved, Completed, Untransferred,
     Scheduling, Unfrozen, Preflight, Discarding, Returned, BackCutting, Leading,
     CuttingOver, Verifying, BackLeading, BackReleased, Released
<1>7. Lates'
  BY <1>1 DEF Lates, Late, Due, Active, Mine, Back, BackReleased
<1>8. Records' /\ Continuity'
  BY <1>1 DEF Records, Continuity, Completed, BeforeSwap, Untransferred, Released,
     Scheduling, Unfrozen, Preflight, Mine, Back
<1> QED
  BY <1>2, <1>4, <1>5, <1>6, <1>7, <1>8

\* The rollback's observation: the old pod was never released, or the Candidate
\* has to give the room back.
LEMMA NewestIsNat ==
    ASSUME TypeOK
    PROVE  Newest \in Nat
<1>1. /\ route.epoch \in Nat /\ pod[Old].epoch \in Nat /\ pod[Candidate].epoch \in Nat
      /\ CommittedEpoch \in Nat
  BY PodsOfHandoff DEF TypeOK, Route, Process, CommittedEpoch, New
<1> DEFINE E == {route.epoch, pod[Old].epoch, pod[Candidate].epoch, CommittedEpoch}
<1>2. \E e \in E : \A f \in E : f <= e
  <2>1. PICK a \in Nat, b \in Nat, c \in Nat, d \in Nat :
           /\ a = route.epoch /\ b = pod[Old].epoch /\ c = pod[Candidate].epoch
           /\ d = CommittedEpoch
    BY <1>1
  <2>2. \E e \in {a, b, c, d} : \A f \in {a, b, c, d} : f <= e
    OBVIOUS
  <2> QED
    BY <2>1, <2>2
<1>3. Newest \in E
  BY <1>2 DEF Newest
<1> QED
  BY <1>1, <1>3

LEMMA ObserveKeeps ==
    ASSUME Inv, Observe, ~Unanswered("observe", ~(Answered /\ (NeverMoved \/ Moved)))
    PROVE  Inv'
<1> USE DEF Inv
<1>1. /\ at = "observe" /\ Answered
      /\ \/ /\ NeverMoved /\ UNCHANGED memo
            /\ IF preparation = Mine THEN Goes("unfreeze") ELSE RolledBack
         \/ /\ Moved /\ Goes("back_save")
            /\ currentEpoch' = route.epoch /\ rollbackEpoch' = Newest + 1
            /\ UNCHANGED checksum
      /\ UNCHANGED <<room, template, gateway, context>>
      /\ Elsewhere
  BY DEF Observe
<1>2. /\ UNCHANGED <<pod, lease, stored, template, route, preparation, verification, cutover,
                     checksum, context, handoffs, target, saves, broken, failedAt, faults>>
  BY <1>1 DEF Elsewhere, room, gateway, memo, bounds, Goes, RolledBack
<1>3. Candidate \in Pod /\ Old \in Pod
  BY PodsOfHandoff
<1>4. NeverMoved => Serves(Old)
  BY <1>3 DEF NeverMoved, Serves, LeadsTo
<1>5. CASE NeverMoved /\ Goes("unfreeze") /\ UNCHANGED memo
  <2>1. Moves /\ checksum' \in Nat /\ faults' \subseteq Fault
    BY <1>1, <1>2, <1>4, <1>5 DEF Moves, Goes, TypeOK
  <2> QED
    BY <1>1, <1>5, <2>1, MovesKeep DEF Goes, memo
<1>6. CASE ~(NeverMoved /\ Goes("unfreeze") /\ UNCHANGED memo)
  <2>1. \/ /\ at' = "discard" /\ Serves(Old) /\ outcome' = "gateway_rolled_back"
           /\ UNCHANGED <<currentEpoch, rollbackEpoch>>
        \/ /\ at' = "back_save" /\ outcome' = outcome
           /\ currentEpoch' = route.epoch /\ rollbackEpoch' = Newest + 1
           /\ Active(Candidate) /\ pod[Candidate].epoch = route.epoch
           /\ route = [endpoint |-> Candidate, epoch |-> route.epoch]
    <3>1. CASE NeverMoved /\ RolledBack /\ UNCHANGED memo
      BY <1>4, <3>1 DEF RolledBack, memo
    <3>2. CASE Moved /\ Goes("back_save") /\ currentEpoch' = route.epoch
               /\ rollbackEpoch' = Newest + 1
      BY <3>2 DEF Moved, Goes
    <3> QED
      BY <1>1, <1>6, <3>1, <3>2
  <2>2. outcome' # "completed" /\ handoffs > 0
    BY <1>1, <2>1 DEF PodsInOrder
  <2>3. TypeOK'
    <3>1. currentEpoch' \in Nat /\ rollbackEpoch' \in Nat
      BY <2>1, NewestIsNat DEF TypeOK, Route
    <3>2. MemoType'
      BY <1>2, <3>1 DEF MemoType, TypeOK
    <3>3. ProgramType'
      BY <1>2, <2>1, TypeParts DEF ProgramType, Label, Discarding, RollingBack, Outcome
    <3> QED
      BY <1>2, <3>2, <3>3, TypeParts, TypePartsNext DEF RoomType, GatewayType, BoundsType
  <2>4. OneActive' /\ Epochs' /\ Vacant' /\ Misled'
    BY <1>2 DEF OneActive, Epochs, Vacant, Misled, Active, LeadsTo, Waits
  <2>5. PodsInOrder'
    BY <1>1, <1>2, <2>1, <2>2 DEF PodsInOrder, Candidate, Old
  <2>6. OldServes'
    BY <1>2, <2>1 DEF OldServes, Serves, Active, LeadsTo, Old, Preserved, Untransferred,
       Scheduling, Unfrozen, Preflight, Discarding, Returned, BackCutting
  <2>7. CandidateLeads'
    BY <1>2, <2>1, <2>2 DEF CandidateLeads, Active, Candidate, Completed, Leading,
       BackLeading, BackReleased, CuttingOver, Verifying
  <2>8. Seeded'
    BY <2>1 DEF Seeded, Released
  <2>9. Lates'
    BY <1>2, <2>1 DEF Lates, Late, Due, Active, Mine, Back, BackReleased
  <2>10. Records' /\ Continuity'
    BY <1>1, <1>2, <2>1, <2>2 DEF Records, Continuity, Completed, BeforeSwap, Released,
       Untransferred, Scheduling, Unfrozen, Preflight, Mine, Back
  <2> QED
    BY <2>3, <2>4, <2>5, <2>6, <2>7, <2>8, <2>9, <2>10
<1> QED
  BY <1>5, <1>6

-----------------------------------------------------------------------------
\* Every request, with those that fail.
LEMMA UnansweredKeeps ==
    ASSUME Inv, NEW l, NEW refused, l \notin {"idle", "rescind"}, Unanswered(l, refused)
    PROVE  Inv'
<1>1. at # "idle" /\ at # "rescind" /\ Fails
  BY DEF Unanswered, Fails, Happens, Inv, TypeOK
<1> QED
  BY <1>1, FailsKeeps

LEMMA ReadsKeep ==
    ASSUME Inv, NEW l, NEW ok, NEW next, l \notin {"idle", "rescind"}, Reads(l, ok, next),
           at = l /\ at' = next /\ ok => Moves
    PROVE  Inv'
<1>1. CASE Unanswered(l, ~ok)
  BY <1>1, UnansweredKeeps
<1>2. CASE /\ at = l /\ ok /\ Goes(next)
           /\ UNCHANGED <<room, template, gateway, memo, context>>
           /\ Elsewhere
  <2>1. Moves /\ checksum' \in Nat /\ faults' \subseteq Fault
    BY <1>2 DEF Goes, memo, Inv, TypeOK
  <2> QED
    BY <1>2, <2>1, MovesKeep DEF Goes, memo
<1> QED
  BY <1>1, <1>2 DEF Reads

LEMMA StatusIsNat ==
    ASSUME TypeOK, NEW p \in Pod
    PROVE  StatusChecksum(p) \in Nat
<1>1. PICK f : f = pod[p]
  OBVIOUS
<1>2. f \in Process
  BY <1>1 DEF TypeOK
<1> QED
  BY <1>1, <1>2 DEF StatusChecksum, Reported, Process

LEMMA NotesKeep ==
    ASSUME Inv, NEW l, NEW p \in Pod, NEW e, NEW next, l \notin {"idle", "rescind"},
           Notes(l, p, e, next), at = l /\ at' = next => Moves
    PROVE  Inv'
<1>1. CASE Unanswered(l, ~(Active(p) /\ pod[p].epoch = e))
  BY <1>1, UnansweredKeeps
<1>2. CASE ~Unanswered(l, ~(Active(p) /\ pod[p].epoch = e))
  <2>1. /\ at = l /\ checksum' = StatusChecksum(p) /\ Goes(next)
        /\ UNCHANGED <<room, template, gateway, currentEpoch, rollbackEpoch, context>>
        /\ Elsewhere
    BY <1>2 DEF Notes
  <2>2. Moves /\ checksum' \in Nat /\ faults' \subseteq Fault
    BY <2>1, StatusIsNat DEF Goes, Inv, TypeOK
  <2> QED
    BY <2>1, <2>2, MovesKeep DEF Goes
<1> QED
  BY <1>1, <1>2

LEMMA ActivateKeeps ==
    ASSUME Inv, Activate
    PROVE  Inv'
<1>1. CASE Unanswered("activate", ~CanTransfer)
  BY <1>1, UnansweredKeeps
<1>2. CASE ~Unanswered("activate", ~CanTransfer)
  <2>1. /\ at = "activate" /\ CanTransfer /\ Goes(Transfer)
        /\ checksum' = IF Active(Candidate) THEN StatusChecksum(Candidate) ELSE checksum
        /\ UNCHANGED <<room, template, gateway, currentEpoch, rollbackEpoch, context>>
        /\ Elsewhere
    BY <1>2 DEF Activate
  <2>2. Candidate \in Pod /\ Old \in Pod
    BY PodsOfHandoff DEF Inv
  <2>3. Active(Old)
    BY <2>1 DEF Inv, OldServes, Untransferred, Serves
  <2>4. ~Active(Candidate) /\ Waits(Candidate)
    BY <2>1, <2>2, <2>3 DEF CanTransfer, Running, Waits, Active
  <2>5. Moves /\ checksum' \in Nat /\ faults' \subseteq Fault
    BY <2>1, <2>3, <2>4 DEF Moves, Transfer, Goes, Inv, TypeOK
  <2> QED
    BY <2>1, <2>5, MovesKeep DEF Goes
<1> QED
  BY <1>1, <1>2

LEMMA ReleaseKeeps ==
    ASSUME Inv, Release
    PROVE  Inv'
<1>1. CASE Unanswered("release", ~Releasable(Old, checksum, target.epoch) /\ ~Conflict)
  BY <1>1, UnansweredKeeps
<1>2. CASE Releases("release", Old, target.epoch, "reseed")
  BY <1>2, ReleasesKeep
<1>3. CASE /\ at = "release" /\ Goes("repoll")
           /\ UNCHANGED <<room, template, gateway, memo, context>> /\ Elsewhere
  <2>1. Moves /\ checksum' \in Nat /\ faults' \subseteq Fault
    BY <1>3 DEF Moves, Goes, memo, Inv, TypeOK
  <2> QED
    BY <1>3, <2>1, MovesKeep DEF Goes, memo
<1> QED
  BY <1>1, <1>2, <1>3 DEF Release

\* A seed's answer, which the driver expects to have made the process ready.
LEMMA SeedStepKeeps ==
    ASSUME Inv, Seed \/ Reseed \/ BackSeed
    PROVE  Inv'
<1>1. Candidate \in Pod /\ Old \in Pod /\ target.epoch \in Nat /\ currentEpoch \in Nat
  BY PodsOfHandoff DEF Inv, TypeOK
<1>2. faults \subseteq Fault
  BY DEF Inv, TypeOK
<1>3. CASE \/ Unanswered("seed", pod[Candidate].role # "candidate")
           \/ Unanswered("reseed", pod[Candidate].role # "candidate")
           \/ Unanswered("back_seed", pod[Old].role # "candidate")
  BY <1>3, UnansweredKeeps
<1>4. CASE /\ SeedCandidate(Candidate, checksum, target.epoch)
           /\ \/ Replied("seed", Seeds(Candidate, checksum, target.epoch), "check")
              \/ /\ at = "seed" /\ ~Seeds(Candidate, checksum, target.epoch)
                 /\ Goes("poll") /\ Elsewhere
           /\ UNCHANGED <<template, gateway, memo, context>>
  <2>1. /\ at = "seed" /\ faults' \subseteq Fault /\ Elsewhere
        /\ \/ at' \in {"check", "poll"} /\ outcome' = outcome /\ UNCHANGED failedAt
           \/ Throws
    BY <1>2, <1>4 DEF Replied, Goes, Happens
  <2> QED
    BY <1>1, <1>4, <2>1, SeedsKeep
<1>5. CASE /\ Replied("reseed", Seeds(Candidate, checksum, target.epoch), "promote")
           /\ SeedCandidate(Candidate, checksum, target.epoch)
           /\ UNCHANGED <<template, gateway, memo, context>>
  <2>1. /\ at = "reseed" /\ faults' \subseteq Fault /\ Elsewhere
        /\ \/ at' = "promote" /\ outcome' = outcome /\ UNCHANGED failedAt
           \/ Throws
    BY <1>2, <1>5 DEF Replied, Goes, Happens
  <2> QED
    BY <1>1, <1>5, <2>1, SeedsKeep
<1>6. CASE /\ Replied("back_seed", Seeds(Old, checksum, currentEpoch), "back_promote")
           /\ SeedCandidate(Old, checksum, currentEpoch)
           /\ UNCHANGED <<template, gateway, memo, context>>
  <2>1. /\ at = "back_seed" /\ faults' \subseteq Fault /\ Elsewhere
        /\ \/ at' = "back_promote" /\ outcome' = outcome /\ UNCHANGED failedAt
           \/ Throws
    BY <1>2, <1>6 DEF Replied, Goes, Happens
  <2> QED
    BY <1>1, <1>6, <2>1, SeedsKeep
<1> QED
  BY <1>3, <1>4, <1>5, <1>6 DEF Seed, Reseed, BackSeed

LEMMA FreezesKeep ==
    ASSUME Inv, Freeze \/ BackFreeze
    PROVE  Inv'
<1>1. CASE \/ Unanswered("freeze", ~MayFreeze(Mine, target.epoch, None))
           \/ Unanswered("back_freeze", ~MayFreeze(Back, currentEpoch, Mine))
  BY <1>1, UnansweredKeeps
<1>2. CASE \/ /\ AskGateway("freeze", "save")
              /\ FreezeRoom(Mine, target.epoch, None)
              /\ UNCHANGED context
           \/ /\ AskGateway("back_freeze", "back_swap")
              /\ FreezeRoom(Back, currentEpoch, Mine)
              /\ UNCHANGED context
  <2>1. /\ at \in {"freeze", "back_freeze"}
        /\ \/ /\ at' = (IF at = "freeze" THEN "save" ELSE "back_swap")
              /\ outcome' = outcome /\ failedAt' = failedAt
           \/ Throws
        /\ faults' \subseteq Fault
    BY <1>2 DEF AskGateway, Request, Replied, Goes, Happens, Inv, TypeOK
  <2>2. Mine \in Operation /\ Back \in Operation
    BY <2>1, BoundAssumption DEF Inv, TypeOK, PodsInOrder, Mine, Back, Operation
  <2>3. /\ preparation' \in Operation \cup {None} /\ verification' = None
        /\ UNCHANGED <<room, template, route, cutover, memo, context>>
        /\ Elsewhere
    BY <1>2, <2>2 DEF AskGateway, Request, Replied, FreezeRoom
  <2>4. Throws => outcome' = IF at = "freeze" THEN "active_preserved"
                                              ELSE "rollback_failed_candidate_retained"
    BY <2>1, Outcomes DEF Discarding, RollingBack
  <2>5. Throws => at' = IF at = "freeze" THEN "discard" ELSE "idle"
    BY <2>1 DEF Throws, Recovery, Scheduling, Unfrozen, Preflight, Activating,
       CuttingOver, Verifying
  <2>6. AsksGateway
    BY <2>1, <2>3, <2>4, <2>5 DEF AsksGateway
  <2>7. outcome' # "completed" /\ outcome' \in Outcome /\ failedAt' \in Label
    <3>1. outcome # "completed" /\ ProgramType
      BY <2>1, TypeParts DEF Inv, PodsInOrder
    <3> QED
      BY <2>1, <2>4, <3>1, ThrowsType DEF ProgramType
  <2> QED
    BY <2>1, <2>3, <2>6, <2>7, GatewayKeeps
<1> QED
  BY <1>1, <1>2 DEF Freeze, BackFreeze

LEMMA FinalizesKeep ==
    ASSUME Inv, Finalize
    PROVE  Inv'
<1>1. CASE Unanswered("finalize", ~MayFinalize(Mine))
  BY <1>1, UnansweredKeeps
<1>2. CASE /\ AskGateway("finalize", "drain")
           /\ FinalizeVerification(Mine)
           /\ UNCHANGED context
  <2>1. /\ at = "finalize"
        /\ \/ at' = "drain" /\ outcome' = outcome /\ failedAt' = failedAt
           \/ Throws
        /\ faults' \subseteq Fault
    BY <1>2 DEF AskGateway, Request, Replied, Goes, Happens, Inv, TypeOK
  <2>2. /\ preparation' \in Operation \cup {None} /\ verification' = None
        /\ MayFinalize(Mine)
        /\ UNCHANGED <<room, template, route, cutover, memo, context>>
        /\ Elsewhere
    BY <1>2 DEF AskGateway, Request, Replied, FinalizeVerification, Inv, TypeOK
  <2>3. Throws => at' = "observe" /\ outcome' = "active_preserved"
    BY <2>1, Recoveries, Outcomes DEF Discarding, RollingBack, Verifying
  <2>4. AsksGateway
    BY <2>1, <2>2, <2>3 DEF AsksGateway
  <2>5. outcome' # "completed" /\ outcome' \in Outcome /\ failedAt' \in Label
    <3>1. outcome # "completed" /\ ProgramType
      BY <2>1, TypeParts DEF Inv, PodsInOrder
    <3> QED
      BY <2>1, <2>3, <3>1, ThrowsType DEF ProgramType
  <2> QED
    BY <2>1, <2>2, <2>4, <2>5, GatewayKeeps
<1> QED
  BY <1>1, <1>2 DEF Finalize

\* The requests with which the coordinator's catch has the gateway resume the
\* room's sessions or give up their verification.
LEMMA ResumesKeep ==
    ASSUME Inv, Abort \/ Unfreeze \/ BackFinalize
    PROVE  Inv'
<1>1. CASE \/ Unanswered("abort", ~MayAbort(Mine))
           \/ Unanswered("unfreeze", ~MayAbort(Mine))
           \/ Unanswered("back_finalize", ~MayFinalize(Back))
  BY <1>1, UnansweredKeeps
<1>2. CASE ~ \/ Unanswered("abort", ~MayAbort(Mine))
             \/ Unanswered("unfreeze", ~MayAbort(Mine))
             \/ Unanswered("back_finalize", ~MayFinalize(Back))
  <2>1. /\ at \in {"abort", "unfreeze", "back_finalize"}
        /\ \/ /\ at' = "discard" /\ UNCHANGED <<failedAt, faults>>
              /\ outcome' = IF at = "abort" THEN "active_resumed" ELSE "gateway_rolled_back"
           \/ Throws /\ Happens("lost")
        /\ \/ AbortPreparation(Mine)
           \/ FinalizeVerification(Back)
        /\ UNCHANGED <<room, template, memo, context>>
        /\ Elsewhere
    BY <1>2 DEF Abort, Unfreeze, BackFinalize, RolledBack
  <2>2. /\ preparation' \in Operation \cup {None} /\ verification' \in {verification, None}
        /\ UNCHANGED <<route, cutover>>
    BY <2>1 DEF AbortPreparation, FinalizeVerification, Inv, TypeOK
  <2>3. Throws => at' = "idle"
                  /\ outcome' = IF at = "abort" THEN "gateway_abort_failed"
                                ELSE "rollback_failed_candidate_retained"
    BY <2>1, Outcomes DEF Throws, Recovery, Scheduling, Unfrozen, Preflight, Activating,
       CuttingOver, Verifying, Discarding, RollingBack
  <2>4. AsksGateway
    BY <2>1, <2>3 DEF AsksGateway
  <2>5. outcome' # "completed" /\ outcome' \in Outcome /\ failedAt' \in Label
        /\ faults' \subseteq Fault
    <3>1. ProgramType
      BY TypeParts DEF Inv
    <3> QED
      BY <2>1, <2>3, <3>1, ThrowsType DEF ProgramType, Outcome, Happens
  <2> QED
    BY <2>1, <2>2, <2>4, <2>5, GatewayKeeps
<1> QED
  BY <1>1, <1>2

LEMMA InitInv == Init => Inv
<1> SUFFICES ASSUME Init PROVE Inv
  OBVIOUS
<1>1. /\ 1 \in Pod /\ \A p \in Pod : p \in Nat /\ p >= 1
      /\ Candidate = 1 /\ Old = 1 /\ handoffs = 0
      /\ lease = 1 /\ lease # None /\ template = 1
  BY BoundAssumption, NoneAssumption DEF Init, Pod, Candidate, Old
<1>2. Absent \in Process /\ Absent.role = "absent" /\ Absent.loaded = 0 /\ Absent.wrote = 0
  BY DEF Absent, Process
<1> DEFINE first == [Absent EXCEPT !.role = "active", !.epoch = RoomEpoch,
                                   !.ready = TRUE, !.wrote = 1]
<1>3. first \in Process /\ first.role = "active" /\ first.epoch = 1
      /\ first.loaded = 0 /\ first.wrote = 1
  BY DEF Absent, Process, RoomEpoch
<1>4. pod = [p \in Pod |-> IF p = 1 THEN first ELSE Absent]
  BY DEF Init
<1> HIDE DEF first
<1>5. /\ pod[1] = first /\ \A p \in Pod : p # 1 => pod[p] = Absent
      /\ pod \in [Pod -> Process]
  BY <1>1, <1>2, <1>3, <1>4
<1>6. /\ route \in Route /\ route.endpoint = Service /\ route.epoch = RoomEpoch
      /\ RoomEpoch = 1
  BY DEF Init, Route, RoomEpoch
<1>7. TypeOK
  <2>1. RoomType
    BY <1>1, <1>2, <1>3, <1>5 DEF RoomType, Init, RoomEpoch
  <2>2. GatewayType
    <3>1. [status |-> "none", route |-> route] \in CutoverOperation
      BY <1>6 DEF CutoverOperation
    <3> QED
      BY <1>6, <3>1 DEF GatewayType, Init
  <2>3. MemoType /\ ProgramType
    <3>1. /\ at = "idle" /\ failedAt = "idle" /\ outcome = "none" /\ faults = {}
          /\ checksum = 0 /\ currentEpoch = 0 /\ rollbackEpoch = 0
      BY DEF Init
    <3>2. MemoType
      BY <3>1 DEF MemoType
    <3>3. ProgramType
      BY <3>1 DEF ProgramType, Label, Outcome
    <3> QED
      BY <3>2, <3>3
  <2>4. BoundsType
    <3>1. target = [pod |-> 1, epoch |-> 1] /\ saves = 0 /\ broken = FALSE
      BY DEF Init, RoomEpoch
    <3>2. target \in [pod : Pod, epoch : Nat]
      BY <1>1, <3>1
    <3>3. handoffs \in 0..MaxHandoff /\ saves \in 0..MaxSave
      BY <1>1, <3>1, BoundAssumption
    <3> QED
      BY <3>1, <3>2, <3>3 DEF BoundsType
  <2> QED
    BY <1>1, <2>1, <2>2, <2>3, <2>4, TypeParts DEF Init
<1>8. \A p \in Pod : Active(p) <=> p = 1
  BY <1>2, <1>3, <1>5 DEF Active
<1>9. OneActive
  BY <1>1, <1>8 DEF OneActive
<1>10. PodsInOrder
  BY <1>1, <1>2, <1>5 DEF PodsInOrder, Init
<1>11. OldServes /\ CandidateLeads /\ Seeded /\ Records /\ Continuity
  BY <1>1 DEF OldServes, CandidateLeads, Seeded, Records, Continuity, Init, Untransferred,
     Scheduling, Unfrozen, Preflight, Discarding, Preserved, Completed, Returned, BackCutting,
     Leading, BackLeading, BackReleased, CuttingOver, Verifying, Released, BeforeSwap,
     Mine, Back, Operation
<1>12. Epochs /\ Vacant /\ Misled
  BY <1>1, <1>3, <1>5, <1>6, <1>8 DEF Epochs, Vacant, Misled, LeadsTo
<1>13. Lates
  BY DEF Lates, Late, Init
<1> QED
  BY <1>7, <1>9, <1>10, <1>11, <1>12, <1>13 DEF Inv

\* Every action is of a kind that keeps Inv.
LEMMA HandoffKeeps ==
    ASSUME Inv, Handoff
    PROVE  Inv'
<1>1. Candidate \in Pod /\ Old \in Pod
  BY PodsOfHandoff DEF Inv
<1>2. CASE Start
  BY <1>2, StartKeeps
<1>3. CASE Schedule
  BY <1>3, UnansweredKeeps, TemplateKeeps DEF Schedule, AskDeployment, Request, Replied
<1>4. CASE Appear
  BY <1>4, ReadsKeep DEF Appear, Moves
<1>5. CASE Ready
  BY <1>5, ReadsKeep DEF Ready, Moves
<1>6. CASE Freeze
  BY <1>6, FreezesKeep
<1>7. CASE Save
  BY <1>1, <1>7, UnansweredKeeps, SavesKeep DEF Save
<1>8. CASE Poll
  BY <1>1, <1>8, NotesKeep DEF Poll, Moves
<1>9. CASE Check
  BY <1>9, ReadsKeep DEF Check, Moves
<1>10. CASE Seed \/ Reseed
  BY <1>10, SeedStepKeeps
<1>11. CASE Activate
  BY <1>11, ActivateKeeps
<1>12. CASE Release
  BY <1>12, ReleaseKeeps
<1>13. CASE Repoll
  BY <1>1, <1>13, NotesKeep DEF Repoll, Moves
<1>14. CASE Promote
  BY <1>14, UnansweredKeeps, PromotionsKeep DEF Promote
<1>15. CASE Proof
  BY <1>15, ReadsKeep DEF Proof, Moves
<1>16. CASE Swap
  BY <1>16, CutsKeep
<1>17. CASE Reread
  BY <1>17, ReadsKeep DEF Reread, Moves
<1>18. CASE Verify
  <2>1. Committed(Mine, New) => cutover[Mine].status = "committed"
    BY DEF Committed
  <2> QED
    BY <1>18, <2>1, ReadsKeep DEF Verify, Moves
<1>19. CASE Finalize
  BY <1>19, FinalizesKeep
<1>20. CASE Drain
  <2>1. CASE Unanswered("drain", FALSE)
    BY <2>1, UnansweredKeeps
  <2>2. CASE ~Unanswered("drain", FALSE) /\ ~Unanswered("delete", FALSE)
    BY <1>20, <2>2, EndKeeps
  <2>3. CASE Unanswered("delete", FALSE)
    BY <2>3, UnansweredKeeps
  <2> QED
    BY <2>1, <2>2, <2>3
<1> QED
  BY <1>2, <1>3, <1>4, <1>5, <1>6, <1>7, <1>8, <1>9, <1>10, <1>11, <1>12, <1>13, <1>14,
     <1>15, <1>16, <1>17, <1>18, <1>19, <1>20 DEF Handoff

LEMMA RecoverKeeps ==
    ASSUME Inv, Recover
    PROVE  Inv'
<1>1. Candidate \in Pod /\ Old \in Pod
  BY PodsOfHandoff DEF Inv
<1>2. CASE Rescind
  BY <1>2, RescindKeeps
<1>3. CASE Abort \/ Unfreeze \/ BackFinalize
  BY <1>3, ResumesKeep
<1>4. CASE Discard
  BY <1>4, UnansweredKeeps, TemplateKeeps DEF Discard, AskDeployment, Request, Replied
<1>5. CASE Delete
  <2>1. CASE Unanswered("drain", FALSE) \/ Unanswered("delete", FALSE)
    BY <2>1, UnansweredKeeps
  <2>2. CASE ~Unanswered("drain", FALSE) /\ ~Unanswered("delete", FALSE)
    BY <1>5, <2>2, EndKeeps
  <2> QED
    BY <2>1, <2>2
<1>6. CASE Observe
  BY <1>6, UnansweredKeeps, ObserveKeeps
<1>7. CASE BackSave
  BY <1>1, <1>7, UnansweredKeeps, SavesKeep DEF BackSave
<1>8. CASE BackPoll
  BY <1>1, <1>8, NotesKeep DEF BackPoll, Moves
<1>9. CASE BackRelease
  BY <1>9, UnansweredKeeps, ReleasesKeep DEF BackRelease
<1>10. CASE BackSeed
  BY <1>10, SeedStepKeeps
<1>11. CASE BackPromote
  BY <1>11, UnansweredKeeps, PromotionsKeep DEF BackPromote
<1>12. CASE BackFreeze
  BY <1>12, FreezesKeep
<1>13. CASE BackSwap
  BY <1>13, CutsKeep
<1>14. CASE BackReread
  BY <1>14, ReadsKeep DEF BackReread, Moves
<1>15. CASE BackProof
  BY <1>15, ReadsKeep DEF BackProof, Moves
<1> QED
  BY <1>2, <1>3, <1>4, <1>5, <1>6, <1>7, <1>8, <1>9, <1>10, <1>11, <1>12, <1>13, <1>14,
     <1>15 DEF Recover

LEMMA EnvironmentKeeps ==
    ASSUME Inv, Environment
    PROVE  Inv'
<1>1. ASSUME NEW p \in Pod, PodStarts(p) \/ ProcessExits(p)
      PROVE  Inv'
  <2>1. faults' \subseteq Fault
    BY <1>1 DEF PodStarts, ProcessExits, Happens, Inv, TypeOK
  <2>2. Waits(p) \/ (p = template /\ ~Running(p))
    BY <1>1 DEF PodStarts, ProcessExits, Waits
  <2> QED
    BY <1>1, <2>1, <2>2, BootsKeep DEF PodStarts, ProcessExits
<1>2. ASSUME NEW p \in Pod, KubeRemoves(p)
      PROVE  Inv'
  BY <1>2, KubeRemovesKeeps
<1>3. ASSUME NEW p \in Pod, Saves(p)
      PROVE  Inv'
  <2>1. saves' \in 0..MaxSave
    BY <1>3, BoundAssumption DEF Saves, Inv, TypeOK
  <2> QED
    BY <1>3, <2>1, SavesKeep DEF Saves
<1>4. ASSUME NEW p \in Pod, Takeover(p)
      PROVE  Inv'
  BY <1>4, TakeoverKeeps
<1> QED
  BY <1>1, <1>2, <1>3, <1>4, LateSwapKeeps, PreparationEndsKeeps, SessionEndsKeeps,
     RestartKeeps DEF Environment

LEMMA StutterKeeps ==
    ASSUME Inv, UNCHANGED vars
    PROVE  Inv'
<1>1. UNCHANGED <<pod, lease, stored, template, route, preparation, verification, cutover,
                  at, checksum, currentEpoch, rollbackEpoch, context, handoffs, target,
                  broken, saves, failedAt, outcome, faults>>
  BY DEF vars, room, gateway, memo, bounds
<1>2. TypeOK'
  BY <1>1, TypeParts, TypePartsNext DEF Inv, RoomType, GatewayType, MemoType, BoundsType,
     ProgramType
<1>3. OneActive' /\ PodsInOrder' /\ Epochs' /\ Vacant' /\ Misled' /\ Lates'
  BY <1>1 DEF Inv, OneActive, PodsInOrder, Epochs, Vacant, Misled, Lates, Active, Candidate,
     Old, LeadsTo, Waits, Late, Due, Mine, Back
<1>4. OldServes' /\ CandidateLeads' /\ Seeded'
  BY <1>1 DEF Inv, OldServes, CandidateLeads, Seeded, Serves, Active, LeadsTo, Old,
     Candidate, New, Restored, Preserved, Completed
<1>5. Records' /\ Continuity'
  BY <1>1 DEF Inv, Records, Continuity, Completed, Mine, Back
<1> QED
  BY <1>2, <1>3, <1>4, <1>5 DEF Inv

LEMMA NextInv == Inv /\ [Next]_vars => Inv'
BY HandoffKeeps, RecoverKeeps, EnvironmentKeeps, StutterKeeps DEF Next

-----------------------------------------------------------------------------
\* The theorems.

LEMMA InvAlways == Spec => []Inv
BY InitInv, NextInv, PTL DEF Spec

\* Every variable stays within its type; in particular no process says that it
\* has loaded or written a checkpoint that nobody has stored.
THEOREM TypeOKAlways == Spec => []TypeOK
<1>1. Inv => TypeOK
  BY DEF Inv
<1> QED
  BY <1>1, InvAlways, PTL

\* After a handoff that reports the Active as preserved, resumed or rolled back
\* (RoomHandoffFailed), the pod that was to be replaced serves the room, and
\* the gateway's route leads to it at its epoch.
THEOREM PreservedIsServedAlways == Spec => []PreservedIsServed
<1>1. Inv => PreservedIsServed
  BY DEF Inv, OldServes, Preserved, PreservedIsServed
<1> QED
  BY <1>1, InvAlways, PTL

\* After a handoff that reports success (RoomHandoffCoordinator.handoff), the
\* Candidate is the Active and has the route, the old pod is gone, and the
\* gateway's verification has seen no session end.
THEOREM CompletedIsReplacedAlways == Spec => []CompletedIsReplaced
<1>1. Inv => CompletedIsReplaced
  BY DEF Inv, CandidateLeads, Continuity, Completed, CompletedIsReplaced
<1> QED
  BY <1>1, InvAlways, PTL

\* What may happen to a process in a step: a pod that is removed is not the
\* Active, and nothing else that happens to one makes it gone.
Changes(q) ==
    \/ SaveSnapshot(q)
    \/ Boots(q)
    \/ Takeover(q)
    \/ \E c \in Nat, e \in Nat : SeedCandidate(q, c, e)
    \/ \E e \in Nat, flushed \in BOOLEAN : ReleaseActive(q, checksum, e, flushed)
    \/ \E e \in Nat, n \in Nat : PromoteCandidate(q, checksum, e, n)
    \/ Remove(q) /\ ~Active(q)

LEMMA ChangesKeep ==
    ASSUME Inv, NEW p \in Pod, Active(p), NEW q \in Pod, Changes(q)
    PROVE  pod'[p].role # "gone"
<1>1. PICK f : f = pod[q]
  OBVIOUS
<1>2. f \in Process /\ pod \in [Pod -> Process]
  BY <1>1 DEF Inv, TypeOK
<1>3. pod[p].role # "gone" /\ (q = p => f.role = "active")
  BY <1>1 DEF Active
<1>4. CASE SaveSnapshot(q) \/ Boots(q) \/ Takeover(q)
  BY <1>1, <1>2, <1>3, <1>4 DEF SaveSnapshot, Boots, Takeover, Process
<1>5. ASSUME NEW c \in Nat, NEW e \in Nat, SeedCandidate(q, c, e)
      PROVE  pod'[p].role # "gone"
  <2>1. p # q
    BY <1>1, <1>3, <1>5 DEF SeedCandidate
  <2> QED
    BY <1>2, <1>3, <1>5, <2>1 DEF SeedCandidate
<1>6. ASSUME NEW e \in Nat, NEW flushed \in BOOLEAN, ReleaseActive(q, checksum, e, flushed)
      PROVE  pod'[p].role # "gone"
  BY <1>3, <1>6, ReleaseEffect DEF Waits
<1>7. ASSUME NEW e \in Nat, NEW n \in Nat, PromoteCandidate(q, checksum, e, n)
      PROVE  pod'[p].role # "gone"
  BY <1>1, <1>2, <1>3, <1>7 DEF PromoteCandidate, Process
<1>8. CASE Remove(q) /\ ~Active(q)
  BY <1>2, <1>3, <1>8 DEF Remove
<1> QED
  BY <1>4, <1>5, <1>6, <1>7, <1>8 DEF Changes

LEMMA UnansweredChangesNothing ==
    ASSUME NEW l, NEW refused, Unanswered(l, refused)
    PROVE  UNCHANGED <<pod, route>>
BY DEF Unanswered, room, gateway

LEMMA ReadsChangeNothing ==
    ASSUME NEW l, NEW ok, NEW next, Reads(l, ok, next)
    PROVE  UNCHANGED <<pod, route>>
BY UnansweredChangesNothing DEF Reads, room, gateway

LEMMA NotesChangeNothing ==
    ASSUME NEW l, NEW p, NEW e, NEW next, Notes(l, p, e, next)
    PROVE  UNCHANGED <<pod, route>>
BY UnansweredChangesNothing DEF Notes, room, gateway

\* Every step changes at most one process, or moves the route to who serves.
LEMMA HandoffChanges ==
    ASSUME Inv, Handoff
    PROVE  /\ UNCHANGED pod \/ \E q \in Pod : Changes(q)
           /\ route' # route => \E p \in Pod : Serves(p)'
<1>1. Candidate \in Pod /\ Old \in Pod /\ checksum \in Nat /\ target.epoch \in Nat
  BY PodsOfHandoff DEF Inv, TypeOK
<1>2. CASE Start
  BY <1>2, StartKeeps DEF Start, room
<1>3. CASE Schedule
  BY <1>3, UnansweredChangesNothing DEF Schedule, AskDeployment, room, gateway
<1>4. CASE Appear \/ Ready \/ Check \/ Proof \/ Reread \/ Verify
  BY <1>4, ReadsChangeNothing DEF Appear, Ready, Check, Proof, Reread, Verify
<1>5. CASE Freeze \/ Finalize
  BY <1>5, UnansweredChangesNothing DEF Freeze, Finalize, AskGateway, FreezeRoom,
     FinalizeVerification, room
<1>6. CASE Save
  BY <1>1, <1>6, UnansweredChangesNothing DEF Save, AskProcess, gateway, Changes
<1>7. CASE Poll \/ Repoll
  BY <1>7, NotesChangeNothing DEF Poll, Repoll
<1>8. CASE Seed \/ Reseed
  BY <1>1, <1>8, UnansweredChangesNothing DEF Seed, Reseed, gateway, Changes
<1>9. CASE Activate
  BY <1>9, UnansweredChangesNothing DEF Activate, room, gateway
<1>10. CASE Release
  BY <1>1, <1>10, UnansweredChangesNothing DEF Release, Releases, room, gateway, Changes
<1>11. CASE Promote
  BY <1>1, <1>11, UnansweredChangesNothing DEF Promote, gateway, Changes
<1>12. CASE Swap
  BY <1>12, CutsKeep DEF Swap, Cut, room
<1>13. CASE Drain
  <2>1. CASE Unanswered("drain", FALSE)
    BY <2>1, UnansweredChangesNothing
  <2>2. CASE at = "drain" /\ Remove(Old) /\ UNCHANGED gateway
    <3>1. ~Active(Old)
      BY <1>1, <2>2 DEF Inv, CandidateLeads, Leading, OneActive, PodsInOrder, Candidate,
         TypeOK
    <3> QED
      BY <1>1, <2>2, <3>1 DEF Changes, gateway
  <2> QED
    BY <1>13, <2>1, <2>2 DEF Drain
<1> QED
  BY <1>2, <1>3, <1>4, <1>5, <1>6, <1>7, <1>8, <1>9, <1>10, <1>11, <1>12, <1>13
     DEF Handoff

LEMMA RecoverChanges ==
    ASSUME Inv, Recover
    PROVE  /\ UNCHANGED pod \/ \E q \in Pod : Changes(q)
           /\ route' # route => \E p \in Pod : Serves(p)'
<1>1. Candidate \in Pod /\ Old \in Pod /\ checksum \in Nat /\ currentEpoch \in Nat
      /\ rollbackEpoch \in Nat
  BY PodsOfHandoff DEF Inv, TypeOK
<1>2. at \in {"rescind", "delete"} => ~Active(Candidate)
  BY <1>1 DEF Inv, OldServes, Untransferred, Discarding, Serves, OneActive, PodsInOrder,
     Candidate, TypeOK
<1>3. CASE Rescind
  BY <1>1, <1>2, <1>3 DEF Rescind, room, gateway, Changes
<1>4. CASE Abort \/ Unfreeze \/ BackFreeze \/ BackFinalize
  BY <1>4, UnansweredChangesNothing DEF Abort, Unfreeze, BackFreeze, BackFinalize,
     AskGateway, AbortPreparation, FreezeRoom, FinalizeVerification, room
<1>5. CASE Discard
  BY <1>5, UnansweredChangesNothing DEF Discard, AskDeployment, room, gateway
<1>6. CASE Delete
  BY <1>1, <1>2, <1>6, UnansweredChangesNothing DEF Delete, gateway, Changes
<1>7. CASE Observe
  BY <1>7, UnansweredChangesNothing DEF Observe, room, gateway
<1>8. CASE BackSave
  BY <1>1, <1>8, UnansweredChangesNothing DEF BackSave, AskProcess, gateway, Changes
<1>9. CASE BackPoll
  BY <1>9, NotesChangeNothing DEF BackPoll
<1>10. CASE BackRelease
  BY <1>1, <1>10, UnansweredChangesNothing DEF BackRelease, Releases, gateway, Changes
<1>11. CASE BackSeed
  BY <1>1, <1>11, UnansweredChangesNothing DEF BackSeed, gateway, Changes
<1>12. CASE BackPromote
  BY <1>1, <1>12, UnansweredChangesNothing DEF BackPromote, gateway, Changes
<1>13. CASE BackSwap
  BY <1>13, CutsKeep DEF BackSwap, Cut, room
<1>14. CASE BackReread \/ BackProof
  BY <1>14, ReadsChangeNothing DEF BackReread, BackProof
<1> QED
  BY <1>3, <1>4, <1>5, <1>6, <1>7, <1>8, <1>9, <1>10, <1>11, <1>12, <1>13, <1>14
     DEF Recover

LEMMA EnvironmentChanges ==
    ASSUME Inv, Environment
    PROVE  /\ UNCHANGED pod \/ \E q \in Pod : Changes(q)
           /\ route' # route => \E p \in Pod : Serves(p)'
<1>1. ASSUME NEW p \in Pod,
             \/ PodStarts(p) \/ KubeRemoves(p) \/ ProcessExits(p) \/ Saves(p) \/ Takeover(p)
      PROVE  Changes(p) /\ UNCHANGED route
  BY <1>1, KubeRemovesKeeps DEF PodStarts, KubeRemoves, ProcessExits, Saves, Takeover,
     Changes, gateway
<1>2. CASE LateSwap
  BY <1>2, LateSwapKeeps DEF LateSwap, room
<1>3. CASE PreparationEnds \/ SessionEnds \/ OrchestratorRestarts
  BY <1>3 DEF PreparationEnds, SessionEnds, OrchestratorRestarts, room, gateway
<1> QED
  BY <1>1, <1>2, <1>3 DEF Environment

LEMMA NextChanges ==
    ASSUME Inv, [Next]_vars
    PROVE  /\ UNCHANGED pod \/ \E q \in Pod : Changes(q)
           /\ route' # route => \E p \in Pod : Serves(p)'
BY HandoffChanges, RecoverChanges, EnvironmentChanges DEF Next, vars, room, gateway

\* No step deletes the pod that is the room's Active: neither the coordinator's
\* discardCandidate, rescission and drainOldPod, nor the Deployment's rollout.
THEOREM ServingPodIsKeptAlways == Spec => ServingPodIsKept
<1>1. Inv /\ [Next]_vars => [\A p \in Pod : Active(p) => pod'[p].role # "gone"]_vars
  <2> SUFFICES ASSUME Inv, [Next]_vars, NEW p \in Pod, Active(p)
               PROVE  pod'[p].role # "gone"
    OBVIOUS
  <2>1. CASE UNCHANGED pod
    BY <2>1 DEF Active
  <2>2. CASE \E q \in Pod : Changes(q)
    BY <2>2, ChangesKeep
  <2> QED
    BY <2>1, <2>2, NextChanges
<1> QED
  BY <1>1, InvAlways, PTL DEF Spec, ServingPodIsKept

\* A step that changes the gateway's route (compareAndSwap, the reconciliation
\* before a handoff, and a cutover whose caller has given up) leaves it at the
\* room's Active, at the Active's epoch.
THEOREM CutoverLandsOnActiveAlways == Spec => CutoverLandsOnActive
<1>1. Inv /\ [Next]_vars => [route' # route => \E p \in Pod : Serves(p)']_vars
  BY NextChanges
<1> QED
  BY <1>1, InvAlways, PTL DEF Spec, CutoverLandsOnActive
=============================================================================
