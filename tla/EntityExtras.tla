------------------------------ MODULE EntityExtras ------------------------------
(***************************************************************************)
(* What World keeps about entities beside their archetype row: components  *)
(* in sparse sets (src/sparse_set.rs) and the disabled bits of components  *)
(* (src/world.rs, disable_component to is_component_enabled and the        *)
(* _toggled queries).                                                      *)
(*                                                                         *)
(* Both are tables by entity index: no generation is stored in them, and   *)
(* what keeps them from leaking to the entity that reuses an index is the  *)
(* clean-up in despawn and remove_component.                               *)
(*                                                                         *)
(* Sparse types are registered before any use, as register_sparse asks.    *)
(* The component stored in a sparse set is the handle its writer named, so *)
(* that a mix-up of two entities shows.  Snapshot composes these steps     *)
(* with the rest of the storage and with loading.                          *)
(***************************************************************************)
EXTENDS WorldStorage, SequencesExt

CONSTANT SparseComponent   \* component types registered as sparse

ASSUME SparseAssumption == SparseComponent \cap Component = {}

VARIABLES
  sparse,             \* type -> (index -> position in dense, or 0)
  dense,              \* type -> handles, densely
  sparseComponents,   \* type -> components, aligned with dense
  disabledComponents  \* type -> indices whose bit is set

sparseVars == <<sparse, dense, sparseComponents>>
extraVars  == <<vars, sparseVars, disabledComponents>>

ComponentType == Component \cup SparseComponent

EmptySparse   == [c \in SparseComponent |-> [i \in Index |-> 0]]
NothingDense  == [c \in SparseComponent |-> <<>>]
NoneDisabled  == [c \in ComponentType |-> {}]

-----------------------------------------------------------------------------
(* SparseSet: every operation looks at the index only.                     *)

SparseContains(c, e) == sparse[c][e.index] # 0

SparseGet(c, e) == sparseComponents[c][sparse[c][e.index]]

(* An entry that is there keeps its handle; its component is replaced.     *)
SparseInsert(c, e, component) ==
  IF SparseContains(c, e)
  THEN /\ sparseComponents' = [sparseComponents EXCEPT ![c][sparse[c][e.index]] = component]
       /\ UNCHANGED <<sparse, dense>>
  ELSE /\ sparse' = [sparse EXCEPT ![c][e.index] = Len(dense[c]) + 1]
       /\ dense' = [dense EXCEPT ![c] = Append(@, e)]
       /\ sparseComponents' = [sparseComponents EXCEPT ![c] = Append(@, component)]

(* Mutant: the entry that swap-remove moved keeps its old position. *)
UnfixedWithout(positions, c, i) == [positions EXCEPT ![i] = 0]

(* The positions of c's entries without index i: the last one fills in.    *)
PositionsWithout(positions, c, i) ==
  LET last == dense[c][Len(dense[c])].index
  IN  [positions EXCEPT ![last] = positions[i], ![i] = 0]

(* SparseSet::remove by index, for all types of `types' that have it.      *)
SparseRemove(types, i) ==
  LET holders == {c \in types : sparse[c][i] # 0}
      Drop(table) == [c \in SparseComponent |->
                        IF c \in holders THEN SwapRemove(table[c], sparse[c][i]) ELSE table[c]]
  IN  /\ dense' = Drop(dense)
      /\ sparseComponents' = Drop(sparseComponents)
      /\ sparse' = [c \in SparseComponent |->
                      IF c \in holders THEN PositionsWithout(sparse[c], c, i) ELSE sparse[c]]

-----------------------------------------------------------------------------
(* Calls on the world.                                                     *)

(* has_component: a sparse type answers for any handle with the index.     *)
HasComponent(e, c) ==
  IF c \in SparseComponent THEN SparseContains(c, e)
  ELSE IsAlive(e) /\ c \in archetypes[LocationOf(e).arch]

BitCleared(types, i) == [c \in ComponentType |->
  IF c \in types THEN disabledComponents[c] \ {i} ELSE disabledComponents[c]]

(* Mutant: despawn leaves the bits alone. *)
DespawnKeepingBits(e) ==
  /\ Despawn(e)
  /\ UNCHANGED disabledComponents
  /\ SparseRemove(SparseComponent, e.index)

(* Mutant: despawn leaves the sparse components alone. *)
DespawnKeepingSparse(e) ==
  /\ Despawn(e)
  /\ disabledComponents' = BitCleared(ComponentType, e.index)
  /\ UNCHANGED sparseVars

DespawnEntity(e) ==
  /\ Despawn(e)
  /\ disabledComponents' = BitCleared(ComponentType, e.index)
  /\ SparseRemove(SparseComponent, e.index)

AddSparse(e, c) ==
  /\ IsAlive(e)
  /\ SparseInsert(c, e, e)
  /\ UNCHANGED <<vars, disabledComponents>>

(* get_component_mut on a sparse type, the caller writing its handle.      *)
WriteSparse(e, c) ==
  /\ SparseContains(c, e)
  /\ sparseComponents' = [sparseComponents EXCEPT ![c][sparse[c][e.index]] = e]
  /\ UNCHANGED <<vars, sparse, dense, disabledComponents>>

(* The sparse branch of remove_component comes first: it asks for no live  *)
(* handle, clears no bit and tells no observer.                            *)
RemoveSparse(e, c) ==
  /\ SparseContains(c, e)
  /\ SparseRemove({c}, e.index)
  /\ UNCHANGED <<vars, disabledComponents>>

(* Mutant: remove_component leaves the bit alone. *)
RemoveStoredKeepingBit(e, c) ==
  /\ RemoveComponent(e, c)
  /\ UNCHANGED <<sparseVars, disabledComponents>>

RemoveStored(e, c) ==
  /\ RemoveComponent(e, c)
  /\ disabledComponents' = BitCleared({c}, e.index)
  /\ UNCHANGED sparseVars

DisableComponent(e, c) ==
  /\ HasComponent(e, c)
  /\ disabledComponents' = [disabledComponents EXCEPT ![c] = @ \cup {e.index}]
  /\ UNCHANGED <<vars, sparseVars>>

(* No handle is checked: the bit of the index decides.                     *)
EnableComponent(e, c) ==
  /\ e.index \in disabledComponents[c]
  /\ disabledComponents' = BitCleared({c}, e.index)
  /\ UNCHANGED <<vars, sparseVars>>

IsComponentEnabled(e, c) == HasComponent(e, c) /\ e.index \notin disabledComponents[c]

-----------------------------------------------------------------------------
(* The toggled queries over the types of T.                                *)

(* Mutant: the fast path is taken when any one of the types allows it. *)
AllDisabled(T) == \A c \in T : disabledComponents[c] # {}

AnyDisabled(T) == \E c \in T : disabledComponents[c] # {}

Entities(a) == archetypeEntities[a]

Visible(row, T) == \A c \in T : row.index \notin disabledComponents[c]

Enabled(rows, T) ==
  FlattenSeq([r \in DOMAIN rows |-> IF Visible(rows[r], T) THEN <<rows[r]>> ELSE <<>>])

(* for_each_pair_toggled and for_each_mut_toggled walk the entity list:    *)
(* all rows when no bit of the types is set anywhere, row by row otherwise. *)
Visited(a, T) == IF ~AnyDisabled(T) THEN Entities(a) ELSE Enabled(Entities(a), T)

ForEachToggled(T) ==
  FlattenSeq([a \in DOMAIN archetypes |->
    IF T \subseteq archetypes[a] THEN Visited(a, T) ELSE <<>>])

(* The `expect' on a column of each type. *)
ColumnsThere(T) ==
  \A a \in DOMAIN archetypes : T \subseteq archetypes[a] => T \subseteq DOMAIN columns[a]

HasValues(a, r, T) == \A c \in T : r <= Len(columns[a][c])

(* The walk indexes the columns by row, and panics at the first row it     *)
(* visits that is beyond one.                                              *)
ForEachCompletes(T) ==
  /\ ColumnsThere(T)
  /\ \A a \in DOMAIN archetypes : \A r \in DOMAIN Entities(a) :
       T \subseteq archetypes[a] /\ (AnyDisabled(T) => Visible(Entities(a)[r], T)) =>
         HasValues(a, r, T)

(* query_toggled and query_pair_toggled: the rows zipped with the columns, *)
(* as far as the shortest reaches, and a filter on each.                   *)
Zipped(a, T) ==
  LET shortest == Min({Len(Entities(a))} \cup {Len(columns[a][c]) : c \in T})
  IN  SubSeq(Entities(a), 1, shortest)

QueryToggled(T) ==
  FlattenSeq([a \in DOMAIN archetypes |->
    IF T \subseteq archetypes[a] THEN Enabled(Zipped(a, T), T) ELSE <<>>])

-----------------------------------------------------------------------------
ExtraInit ==
  /\ Init
  /\ sparse = EmptySparse
  /\ dense = NothingDense
  /\ sparseComponents = NothingDense
  /\ disabledComponents = NoneDisabled

SparseStep ==
  \E e \in Handle, c \in SparseComponent : AddSparse(e, c) \/ WriteSparse(e, c) \/ RemoveSparse(e, c)

ToggleStep ==
  \E e \in Handle, c \in ComponentType : DisableComponent(e, c) \/ EnableComponent(e, c)

-----------------------------------------------------------------------------
(* Properties.                                                             *)

(* The two directions of a sparse set agree after every swap-remove: an    *)
(* index leads to its own entry and every entry is led to.                 *)
SparseSetsAgree ==
  \A c \in SparseComponent :
    /\ Len(sparseComponents[c]) = Len(dense[c])
    /\ \A k \in DOMAIN dense[c] : sparse[c][dense[c][k].index] = k
    /\ \A i \in Index : sparse[c][i] # 0 =>
         sparse[c][i] \in DOMAIN dense[c] /\ dense[c][sparse[c][i]].index = i

(* A sparse component never outlives its entity: each entry belongs to the *)
(* live handle it was made for, so a reused index starts without any.      *)
SparseOwnersLive ==
  \A c \in SparseComponent : \A k \in DOMAIN dense[c] : IsAlive(dense[c][k])

(* A disabled bit of a stored component belongs to a live entity that has  *)
(* the component: an entity never starts with a component disabled by the  *)
(* former user of its index, or by its own earlier copy.  (The bits of     *)
(* sparse components survive their removal, see RemoveSparse.)             *)
DisabledHaveComponent ==
  \A c \in Component : \A i \in disabledComponents[c] :
    entityLocations[i] # NoLocation /\ c \in archetypes[entityLocations[i].arch]

(* The toggled queries visit exactly the entities on which all the types   *)
(* are enabled, each once, with or without the fast path.  A load leaves   *)
(* columns short or missing: then the callbacks visit the same unless they *)
(* panic, and the iterators, if no column is missing, exactly those whose  *)
(* row has a value in each.                                                *)
ToggledExact ==
  \A T \in (SUBSET Component) \ {{}} :
    LET asked   == {e \in Live : \A c \in T : IsComponentEnabled(e, c)}
        reached == {e \in asked : HasValues(LocationOf(e).arch, LocationOf(e).row, T)}
        Visits(answer, entities) ==
          Len(answer) = Cardinality(entities) /\ ToSet(answer) = entities
    IN  /\ ForEachCompletes(T) => Visits(ForEachToggled(T), asked)
        /\ ColumnsThere(T) => Visits(QueryToggled(T), reached)
=============================================================================
