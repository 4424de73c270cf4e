---------------------------- MODULE ChangeDetection ----------------------------
(***************************************************************************)
(* Change detection for one component type T (src/change.rs and the change *)
(* detection part of src/world.rs): a reader freezes the bytes of T's      *)
(* columns and later asks which rows differ.                               *)
(*                                                                         *)
(* Of the storage only what the diff sees is kept: the rows of each        *)
(* archetype with T, in the order of the archetypes, and how each call of  *)
(* World shuffles them (WorldStorage has these calls in full).  An         *)
(* archetype not created yet is one without rows.  An absent entity is     *)
(* dead or lacks T: the readers treat both the same.                       *)
(*                                                                         *)
(* The bytes of a component are one value, so that a diff is a comparison  *)
(* of values: any_bytes_differ, diff_to_bitset and its AVX2 form are three *)
(* ways to compute it.  A T of size zero has no bytes: its rows take no    *)
(* room in a snapshot, and none of them ever differs.  Only that the       *)
(* version moved since the snapshot is kept of the u64 counter.            *)
(***************************************************************************)
EXTENDS Naturals, SequencesExt

CONSTANTS
  Entity,       \* bound: entities that ever hold T
  Value,        \* values of T when it has a size
  Unit,         \* its one value when it has none
  Archetypes    \* bound: archetypes with T

ASSUME EntityAssumption == IsFiniteSet(Entity)
ASSUME ArchetypesAssumption == Archetypes \in Nat

VARIABLES
  sized,     \* whether T has a size: one T throughout
  rows,      \* archetype -> rows, each an entity and its value
  tracked,   \* whether T has a change tracker
  snapshot,  \* the reader's: <<>>, or the rows frozen, as a sequence of one
  bumped     \* whether the column version moved since the snapshot

readerVars == <<tracked, snapshot>>
changeVars == <<sized, rows, readerVars, bumped>>

ValueOfT == IF sized THEN Value ELSE {Unit}

Archetype == 1 .. Archetypes

Row(e, v) == [entity |-> e, value |-> v]

Where(e) == {at \in [arch : Archetype, row : 1 .. Cardinality(Entity)] :
               /\ at.row \in DOMAIN rows[at.arch]
               /\ rows[at.arch][at.row].entity = e}

Holds(e) == Where(e) # {}

EntitiesIn(a) == [r \in DOMAIN rows[a] |-> rows[a][r].entity]

-----------------------------------------------------------------------------
(* What the calls of World do to the rows of T, and which of them bump the *)
(* column version.                                                         *)

(* bump_version: without a snapshot there is nothing to compare it with.   *)
Bump   == bumped' = (snapshot # <<>>)
Silent == UNCHANGED bumped

(* Vec::swap_remove: the last row takes the place of the removed one.      *)
Without(s, r) == [k \in 1 .. Len(s) - 1 |-> IF k = r THEN s[Len(s)] ELSE s[k]]

(* spawn_with, or add_component on an entity without T. *)
Arrive(e, a, v) ==
  /\ ~Holds(e)
  /\ rows' = [rows EXCEPT ![a] = Append(@, Row(e, v))]
  /\ Bump
  /\ UNCHANGED <<sized, readerVars>>

RemoveRow(e) ==
  /\ \E at \in Where(e) : rows' = [rows EXCEPT ![at.arch] = Without(@, at.row)]
  /\ UNCHANGED <<sized, readerVars>>

(* remove_component on T. *)
Leave(e) == RemoveRow(e) /\ Bump

Despawn(e) == RemoveRow(e) /\ Silent

(* add_component or remove_component on another type. *)
Move(e, b) ==
  /\ \E at \in Where(e) :
       /\ at.arch # b
       /\ rows' = [rows EXCEPT ![at.arch] = Without(@, at.row),
                               ![b] = Append(@, rows[at.arch][at.row])]
  /\ Silent
  /\ UNCHANGED <<sized, readerVars>>

Write(e, v) ==
  /\ \E at \in Where(e) : rows' = [rows EXCEPT ![at.arch][at.row].value = v]
  /\ UNCHANGED <<sized, readerVars>>

(* add_component on an entity with T, get_component_mut, mutable queries. *)
Overwrite(e, v) == Write(e, v) /\ Silent

SetComponent(e, v) == Write(e, v) /\ Bump

NoRows == [a \in Archetype |-> <<>>]

(* load_state, of a world saved empty or when the reader took its snapshot *)
(* (bound: of no other): trackers and their snapshots outlive it.  Of a T  *)
(* without size only the empty world: any other has its column back empty  *)
(* under the entity list, which Snapshot models.                           *)
LoadState ==
  /\ rows' \in {NoRows} \cup (IF sized THEN ToSet(snapshot) ELSE {})
  /\ Silent
  /\ UNCHANGED <<sized, readerVars>>

-----------------------------------------------------------------------------
(* The reader's calls.                                                     *)

TrackChanges ==
  /\ tracked' = TRUE
  /\ UNCHANGED <<sized, rows, snapshot, bumped>>

BumpChangeVersion == Bump /\ UNCHANGED <<sized, rows, readerVars>>

(* The code freezes the values only.  The model keeps whose they were, for *)
(* the properties to ask; the readers below see Frozen.                    *)
SnapshotChanges ==
  /\ tracked
  /\ snapshot' = <<rows>>
  /\ bumped' = FALSE
  /\ UNCHANGED <<sized, rows, tracked>>

(* as_bytes of a column with these rows. *)
Bytes(s) == IF sized THEN [r \in DOMAIN s |-> s[r].value] ELSE <<>>

Frozen == FlattenSeq([a \in Archetype |-> Bytes(snapshot[1][a])])

(* Mutant: every archetype is compared with the start of the snapshot. *)
OffsetForgotten(a) == 0

(* snap_offset: the bytes of the archetypes before a, as they are now.     *)
Offset(a) == Len(FlattenSeq([b \in 1 .. a - 1 |-> Bytes(rows[b])]))

(* Where the bytes of row r end, counted like Offset. *)
End(a, r) == Offset(a) + (IF sized THEN r ELSE 0)

Differs(a, r) == sized /\ Frozen[End(a, r)] # rows[a][r].value

(* Mutant: rows beyond the snapshot count as unchanged. *)
RowsWithinSnapshot(a) ==
  {r \in DOMAIN rows[a] : End(a, r) <= Len(Frozen) /\ Differs(a, r)}

(* An archetype that reaches beyond the snapshot is changed as a whole.    *)
ChangedRows(a) ==
  IF Offset(a) + Len(Bytes(rows[a])) > Len(Frozen) THEN DOMAIN rows[a]
  ELSE {r \in DOMAIN rows[a] : Differs(a, r)}

(* The loop over the rows of an archetype that visits those in `chosen'.   *)
Visited(a, chosen) ==
  FlattenSeq([r \in DOMAIN rows[a] |-> IF r \in chosen THEN <<rows[a][r].entity>> ELSE <<>>])

(* The entities for_each_changed visits, in order. *)
ForEachChanged ==
  IF ~tracked \/ snapshot = <<>> THEN FlattenSeq([a \in Archetype |-> EntitiesIn(a)])
  ELSE IF ~bumped THEN <<>>
  ELSE FlattenSeq([a \in Archetype |-> Visited(a, ChangedRows(a))])

(* Mutant: the archetypes before the entity's own are not counted. *)
IsChangedInFirst(e) ==
  \/ ~tracked
  \/ \E at \in Where(e) :
       \/ snapshot = <<>>
       \/ /\ bumped
          /\ sized
          /\ \/ at.row > Len(Frozen)
             \/ Frozen[at.row] # rows[at.arch][at.row].value

IsChanged(e) ==
  \/ ~tracked
  \/ \E at \in Where(e) :
       \/ snapshot = <<>>
       \/ /\ bumped
          /\ \/ End(at.arch, at.row) > Len(Frozen)
             \/ Differs(at.arch, at.row)

-----------------------------------------------------------------------------
Init ==
  /\ sized \in BOOLEAN
  /\ rows = NoRows
  /\ tracked = FALSE
  /\ snapshot = <<>>
  /\ bumped = FALSE

Next ==
  \/ \E e \in Entity, a \in Archetype, v \in ValueOfT : Arrive(e, a, v)
  \/ \E e \in Entity : Leave(e) \/ Despawn(e)
  \/ \E e \in Entity, b \in Archetype : Move(e, b)
  \/ \E e \in Entity, v \in ValueOfT : Overwrite(e, v) \/ SetComponent(e, v)
  \/ LoadState
  \/ TrackChanges
  \/ BumpChangeVersion
  \/ SnapshotChanges

Spec == Init /\ [][Next]_changeVars

-----------------------------------------------------------------------------
(* Properties.                                                             *)

(* The two readers agree: for_each_changed visits live holders of T, each  *)
(* at most once, and misses none of which is_changed says that it changed. *)
(* (It may visit more: a whole archetype that outgrew the snapshot.)       *)
ChangedAgree ==
  /\ Cardinality(ToSet(ForEachChanged)) = Len(ForEachChanged)
  /\ \A e \in ToSet(ForEachChanged) : Holds(e)
  /\ \A e \in Entity : Holds(e) /\ IsChanged(e) => e \in ToSet(ForEachChanged)

SameRows == \A a \in Archetype :
  EntitiesIn(a) = [r \in DOMAIN snapshot[1][a] |-> snapshot[1][a][r].entity]

(* Entities in rows whose value is another one than at the snapshot.       *)
Differing ==
  {rows[p[1]][p[2]].entity : p \in
     {q \in Archetype \X (1 .. Cardinality(Entity)) :
        /\ q[2] \in DOMAIN rows[q[1]]
        /\ rows[q[1]][q[2]] # snapshot[1][q[1]][q[2]]}}

(* While every row still belongs to the entity it was frozen for, both     *)
(* readers report exactly the entities whose value differs, provided that  *)
(* a call that announces its writes was among them.                        *)
UnmovedExact ==
  snapshot # <<>> /\ SameRows =>
    /\ ToSet(ForEachChanged) = IF bumped THEN Differing ELSE {}
    /\ {e \in Entity : IsChanged(e)} = ToSet(ForEachChanged)

Arrived ==
  (UNION {ToSet(EntitiesIn(a)) : a \in Archetype})
    \ (UNION {{row.entity : row \in ToSet(snapshot[1][a])} : a \in Archetype})

(* The frozen rows are all in place, others may have come behind them.     *)
OnlyArrivals ==
  snapshot # <<>> /\ \A a \in Archetype : IsPrefix(snapshot[1][a], rows[a])

(* New rows of a type with a size count as changed as long as they come    *)
(* behind all frozen ones: when rows only arrived since the snapshot, in   *)
(* the last archetype that had any or behind it, both readers report every *)
(* arrival.  (Of a type without size no row differs, and none is reported  *)
(* as long as the reader has a snapshot.)                                  *)
GrowthReported ==
  /\ sized
  /\ OnlyArrivals
  /\ \A a \in Archetype : rows[a] # snapshot[1][a] =>
       \A b \in Archetype : b > a => snapshot[1][b] = <<>>
  => \A e \in Arrived : e \in ToSet(ForEachChanged) /\ IsChanged(e)

(* What the comments of both readers say of every arrival ("entities added *)
(* since snapshot", "Entity was added after snapshot - treat as changed"), *)
(* for a type with a size.  The code compares an arrival in an earlier     *)
(* archetype with the frozen bytes of a later one and misses it when they  *)
(* happen to be equal.                                                     *)
ArrivalsReported ==
  sized /\ OnlyArrivals => \A e \in Arrived : e \in ToSet(ForEachChanged) /\ IsChanged(e)
=============================================================================
