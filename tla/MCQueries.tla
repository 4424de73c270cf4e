------------------------------- MODULE MCQueries -------------------------------
(* A small instance of Queries for TLC: two indices with both types, the   *)
(* fewer archetypes the more of them are reused, or four with one type, a  *)
(* borrowed plan or none, and at most one despawn, for chunks whose        *)
(* indices jump between ends that look contiguous.                         *)
EXTENDS Queries

CONSTANTS A, B

TwoTypes == {A, B}
NoBundle == {}

Ask(with, without, optional) ==
  [with |-> with, without |-> without, optional |-> optional]

(* One type, one type with the other excluded or optional, and a pair.     *)
AllQueries == {Ask({A}, {}, {}), Ask({A}, {B}, {}), Ask({A}, {}, {B}), Ask({A, B}, {}, {})}

(* All but the one with an optional type. *)
AllPlanned == AllQueries \ {Ask({A}, {}, {B})}

Reused == {i \in Index : entityGenerations[i] = 1}

TwoIndices == nextEntityIndex <= 2 /\ Cardinality(Reused) + Len(archetypes) <= 4

FourIndices ==
  /\ B \notin UNION ToSet(archetypes)
  /\ plan # NoPlan => plan.kind = "borrowed" /\ plan.query = Ask({A}, {}, {})
  /\ Cardinality(Reused) <= 1

Small == TwoIndices \/ FourIndices
=============================================================================
