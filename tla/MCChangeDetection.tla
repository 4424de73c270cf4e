--------------------------- MODULE MCChangeDetection ---------------------------
(* A small instance of ChangeDetection. *)
EXTENDS ChangeDetection

(* Entities and values are only stored, moved and compared. *)
Symmetry == Permutations(Entity) \cup Permutations(Value)
=============================================================================
