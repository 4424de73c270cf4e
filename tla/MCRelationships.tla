---------------------------- MODULE MCRelationships ----------------------------
(* A small instance of Relationships for TLC. *)
EXTENDS Relationships, TLC

CONSTANTS i1, i2, i3

(* One index is reused: one stale handle is enough to meet its successor. *)
OneReused == i1 :> 1 @@ i2 :> 0 @@ i3 :> 0
=============================================================================
