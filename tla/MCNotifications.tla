---------------------------- MODULE MCNotifications ----------------------------
(* A small instance of Notifications, and of the storage below it: two     *)
(* stored types, one of them without size, a bundle of both and one type   *)
(* kept in a sparse set.                                                   *)
EXTENDS Notifications

CONSTANTS A, Z, S

OneBundle == {<<Z, A>>}

(* The values of sized types are only stored, moved and compared. *)
ValueSymmetry == Permutations(Value \ {Unit})

(* No step looks at what the step before it told. *)
StorageView == extraVars

(* Beside three or four archetypes no sparse components, which no call on  *)
(* them reads, and one index at most that is reused.                       *)
FewBeside ==
  \/ Len(archetypes) <= 2
  \/ dense[S] = <<>> /\ \E i \in Index : entityGenerations[i] = 0
=============================================================================
