---------------------------- MODULE MCRoomAuthority ----------------------------
(***************************************************************************)
(* Instances of RoomAuthority for TLC: every pod is deployed with          *)
(* OPSIA_ROLE=auto and ROOM_EPOCH=1 (deploy/k8s/base/game.yaml), but for   *)
(* one that is pinned to be the Active, the default of runtime.ts:562.     *)
(***************************************************************************)
EXTENDS RoomAuthority, TLC

CONSTANT Pinned

Roles == [p \in Process |-> IF p = Pinned THEN "active" ELSE "auto"]

Symmetry == Permutations(Process \ {Pinned})

=============================================================================
