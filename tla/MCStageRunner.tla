------------------------------ MODULE MCStageRunner ------------------------------
EXTENDS StageRunner

(* Batches of up to three, and exclusive systems before or after them. *)
RegisteredKinds ==
  <<{"exclusive", "declared"}, {"declared", "undeclared"}, {"declared", "exclusive"}>>

(* The caller's own descriptor sorts before every system but the first. *)
OwnDescriptors == {[kind |-> "declared", registration |-> 0]}

(* Two events only in a stage that defers nothing.                         *)
FewSteps == Len(emitted) = 2 => deferred = {}
=============================================================================
