------------------------------ MODULE WorldStorage ------------------------------
(***************************************************************************)
(* The entity allocator and the archetype storage of `World'               *)
(* (src/world.rs, src/archetype.rs, src/column.rs, src/bundle.rs).         *)
(*                                                                         *)
(* An entity is a handle: an index and a generation.  A live entity is one *)
(* row of one archetype; the archetype of component set S keeps its rows   *)
(* in `entities' and, aligned with them, one column of values per type of  *)
(* S.  Rows are removed by swap-remove, so most operations move a second   *)
(* entity and have to fix that entity's location as well.                  *)
(*                                                                         *)
(* The same functions of World also maintain state that other modules own: *)
(* ComponentLookup has the structural version and the pointer caches,      *)
(* Relationships the edges that despawn removes.                           *)
(*                                                                         *)
(* Archetype ids and rows count from 1 (from 0 in the code), so that 0 can *)
(* stand for "none"; entity indices count from 0 as in the code.           *)
(***************************************************************************)
EXTENDS Integers, Sequences, FiniteSets

CONSTANTS
  MaxEntities,     \* bound: entity indices ever allocated
  MaxGeneration,   \* bound: times one index is reused
  Component,       \* component types stored in archetypes
  Value,           \* component values
  Bundle           \* tuples of component types given to spawn_with

ASSUME MaxEntitiesAssumption == MaxEntities \in Nat
ASSUME MaxGenerationAssumption == MaxGeneration \in Nat
ASSUME BundleAssumption == Bundle \subseteq Seq(Component) \ {<<>>}

VARIABLES
  nextEntityIndex,           \* next index never used so far
  entityGenerations,         \* index -> generation of its current or next handle
  freeIndices,               \* stack of indices of despawned entities
  entityLocations,           \* index -> archetype and row, or NoLocation
  maxNonemptyEntityIndex,    \* highest index outside the empty archetype, or -1
  componentlessTailStart,    \* indices from here on hold no component
  allGenerationsZero,        \* no index has been reused or despawned
  archetypes,                \* archetype id -> component set
  archetypeEntities,         \* archetype id -> handles, row by row
  columns,                   \* archetype id -> (component type -> values, row by row)
  columnFactories,           \* component types with a registered column factory
  singleComponentArchetypes, \* type -> id cached for {} + type, or 0
  addTransitions,            \* archetype id -> (type -> id cached for set + type, or 0)
  removeTransitions,         \* archetype id -> (type -> id cached for set - type, or 0)
  bundleArchetypes           \* bundle -> id cached for the bundle's set, or 0

allocator == <<nextEntityIndex, entityGenerations, freeIndices, allGenerationsZero>>
tail      == <<maxNonemptyEntityIndex, componentlessTailStart>>
storage   == <<archetypes, archetypeEntities, columns, columnFactories>>
caches    == <<singleComponentArchetypes, addTransitions, removeTransitions, bundleArchetypes>>
vars      == <<allocator, entityLocations, tail, storage, caches>>

Index  == 0 .. MaxEntities - 1
Entity == [index : Index, generation : Nat]
Handle == [index : Index, generation : 0 .. MaxGeneration]

Location       == [arch : Nat, row : Nat]
NoLocation     == [arch |-> 0, row |-> 0]
EmptyArchetype == 1
NoTransitions  == [c \in Component |-> 0]
None           == -1

-----------------------------------------------------------------------------
(* Helpers: rows, columns and archetypes.                                  *)

(* Mutant: Vec::remove instead, which shifts the rows behind.             *)
ShiftRemove(s, i) == [j \in 1 .. Len(s) - 1 |-> IF j < i THEN s[j] ELSE s[j + 1]]

(* Vec::swap_remove: the last element takes the place of the removed one.  *)
SwapRemove(s, i) == [j \in 1 .. Len(s) - 1 |-> IF j = i THEN s[Len(s)] ELSE s[j]]

(* location_of: a handle of another generation has no location.            *)
LocationOf(e) ==
  IF entityGenerations[e.index] = e.generation THEN entityLocations[e.index] ELSE NoLocation

IsAlive(e) == LocationOf(e) # NoLocation

(* Mutant: archetype_map is never filled. *)
FreshArchetypeFor(set) == Len(archetypes) + 1

(* get_or_create_archetype: the id of the archetype with this set, or the  *)
(* next id when there is none yet.                                         *)
ArchetypeFor(set) ==
  IF \E a \in DOMAIN archetypes : archetypes[a] = set
  THEN CHOOSE a \in DOMAIN archetypes : archetypes[a] = set
  ELSE Len(archetypes) + 1

(* A per-archetype table after get_or_create_archetype returned `id'.      *)
Grown(table, id, fresh) == IF id \in DOMAIN table THEN table ELSE Append(table, fresh)

NewColumns(set, factories) == [c \in set \cap factories |-> <<>>]

(* Every column drops the row that the entity list drops. *)
KeepValues(cols, row) == cols   \* Mutant: only the entity list does.

DropValues(cols, row) == [c \in DOMAIN cols |-> SwapRemove(cols[c], row)]

(* Mutant: the moved entity keeps its old location. *)
Unfixed(locations, at) == locations

(* The entity that swap-remove moves into row `at' gets its new location.  *)
Vacated(locations, at) ==
  LET last == archetypeEntities[at.arch][Len(archetypeEntities[at.arch])]
  IN  [locations EXCEPT ![last.index] = at]

(* Mutant: the scan stops at any live entity. *)
LiveBelow(locations, i) ==
  LET live == {j \in Index : j < i /\ locations[j] # NoLocation}
  IN  IF live = {} THEN None ELSE CHOOSE j \in live : \A k \in live : k <= j

(* The downward scan for the next lower index outside the empty archetype. *)
NonemptyBelow(locations, i) ==
  LET nonempty == {j \in Index : j < i /\ locations[j].arch \notin {0, EmptyArchetype}}
  IN  IF nonempty = {} THEN None ELSE CHOOSE j \in nonempty : \A k \in nonempty : k <= j

(* Mutant: the tail starts one index too late. *)
RaiseTailTooFar(i) ==
  /\ maxNonemptyEntityIndex' =
       IF maxNonemptyEntityIndex < i THEN i ELSE maxNonemptyEntityIndex
  /\ componentlessTailStart' = maxNonemptyEntityIndex' + 2

(* Index i got its first component.                                        *)
RaiseTail(i) ==
  /\ maxNonemptyEntityIndex' =
       IF maxNonemptyEntityIndex < i THEN i ELSE maxNonemptyEntityIndex
  /\ componentlessTailStart' = maxNonemptyEntityIndex' + 1

(* Index i lost its last component; entityLocations' is final already.     *)
LowerTail(i) ==
  /\ maxNonemptyEntityIndex' =
       IF maxNonemptyEntityIndex = i
       THEN NonemptyBelow(entityLocations', i) ELSE maxNonemptyEntityIndex
  /\ componentlessTailStart' = maxNonemptyEntityIndex' + 1
-----------------------------------------------------------------------------
(* Spawning.                                                               *)

(* Mutant: a freed index is used again without being popped. *)
AllocateWithoutPop(i) ==
  /\ i = IF freeIndices # <<>> THEN freeIndices[Len(freeIndices)] ELSE nextEntityIndex
  /\ nextEntityIndex' = IF freeIndices # <<>> THEN nextEntityIndex ELSE nextEntityIndex + 1
  /\ allGenerationsZero' = (allGenerationsZero /\ entityGenerations[i] = 0)
  /\ UNCHANGED <<freeIndices, entityGenerations>>

(* Both spawns take a freed index first, the next fresh one otherwise.     *)
Allocate(i) ==
  /\ IF freeIndices # <<>>
     THEN /\ i = freeIndices[Len(freeIndices)]
          /\ freeIndices' = SubSeq(freeIndices, 1, Len(freeIndices) - 1)
          /\ UNCHANGED nextEntityIndex
     ELSE /\ i = nextEntityIndex
          /\ nextEntityIndex' = nextEntityIndex + 1
          /\ UNCHANGED freeIndices
  /\ allGenerationsZero' = (allGenerationsZero /\ entityGenerations[i] = 0)
  /\ UNCHANGED entityGenerations

HandleAt(i) == [index |-> i, generation |-> entityGenerations[i]]

SpawnEmpty ==
  \E i \in Index :
    /\ Allocate(i)
    /\ archetypeEntities' = [archetypeEntities EXCEPT ![EmptyArchetype] = Append(@, HandleAt(i))]
    /\ entityLocations' = [entityLocations EXCEPT
         ![i] = [arch |-> EmptyArchetype, row |-> Len(archetypeEntities[EmptyArchetype]) + 1]]
    /\ UNCHANGED <<tail, archetypes, columns, columnFactories, caches>>

Types(bundle) == {bundle[k] : k \in DOMAIN bundle}

(* push_components: one push per position of the tuple.                    *)
PushBundle(column, bundle, c, value) ==
  column \o [k \in 1 .. Cardinality({p \in DOMAIN bundle : bundle[p] = c}) |-> value]

SpawnWith(bundle, value) ==
  LET cached    == bundleArchetypes[bundle]
      factories == IF cached # 0 THEN columnFactories ELSE columnFactories \cup Types(bundle)
      id        == IF cached # 0 THEN cached ELSE ArchetypeFor(Types(bundle))
      entities  == Grown(archetypeEntities, id, <<>>)
      cols      == Grown(columns, id, NewColumns(Types(bundle), factories))
  IN  \E i \in Index :
        /\ Allocate(i)
        /\ bundleArchetypes' = [bundleArchetypes EXCEPT ![bundle] = id]
        /\ columnFactories' = factories
        /\ archetypes' = Grown(archetypes, id, Types(bundle))
        /\ addTransitions' = Grown(addTransitions, id, NoTransitions)
        /\ removeTransitions' = Grown(removeTransitions, id, NoTransitions)
        /\ archetypeEntities' = [entities EXCEPT ![id] = Append(@, HandleAt(i))]
        /\ columns' = [cols EXCEPT ![id] =
             [c \in DOMAIN @ |-> PushBundle(@[c], bundle, c, value[c])]]
        /\ entityLocations' = [entityLocations EXCEPT
             ![i] = [arch |-> id, row |-> Len(entities[id]) + 1]]
        /\ RaiseTail(i)
        /\ UNCHANGED singleComponentArchetypes
-----------------------------------------------------------------------------
(* Despawning.                                                             *)

(* Mutant: the flag survives the new generation. *)
RetireKeepingFlag(i) ==
  /\ entityGenerations' = [entityGenerations EXCEPT ![i] = @ + 1]
  /\ freeIndices' = Append(freeIndices, i)
  /\ UNCHANGED <<nextEntityIndex, allGenerationsZero>>

(* Mutant: the index is freed under its old generation. *)
RetireSameGeneration(i) ==
  /\ allGenerationsZero' = FALSE
  /\ freeIndices' = Append(freeIndices, i)
  /\ UNCHANGED <<nextEntityIndex, entityGenerations>>

(* The index of a despawned entity: next generation, back on the stack.    *)
Retire(i) ==
  /\ entityGenerations' = [entityGenerations EXCEPT ![i] = @ + 1]
  /\ allGenerationsZero' = FALSE
  /\ freeIndices' = Append(freeIndices, i)
  /\ UNCHANGED nextEntityIndex

(* The generation bound stands for the u32 counter, far from its limit.    *)
Despawn(e) ==
  LET at == LocationOf(e)
  IN  /\ at # NoLocation
      /\ e.generation < MaxGeneration
      /\ archetypeEntities' = [archetypeEntities EXCEPT ![at.arch] = SwapRemove(@, at.row)]
      /\ columns' = [columns EXCEPT ![at.arch] = DropValues(@, at.row)]
      /\ entityLocations' = [Vacated(entityLocations, at) EXCEPT ![e.index] = NoLocation]
      /\ IF at.arch # EmptyArchetype THEN LowerTail(e.index) ELSE UNCHANGED tail
      /\ Retire(e.index)
      /\ UNCHANGED <<archetypes, columnFactories, caches>>
-----------------------------------------------------------------------------
(* Moving an entity between archetypes.                                    *)

(* Mutant: the values are read after the last row took the place. *)
RowValuesAfterSwap(at) ==
  [c \in DOMAIN columns[at.arch] |-> columns[at.arch][c][Len(columns[at.arch][c])]]

(* The values of a row, as swap_remove_into hands them to the destination. *)
RowValues(at) == [c \in DOMAIN columns[at.arch] |-> columns[at.arch][c][at.row]]

(* A column is pushed to when the row has a value for it.                  *)
Pushed(cols, values) ==
  [c \in DOMAIN cols |-> IF c \in DOMAIN values THEN Append(cols[c], values[c]) ELSE cols[c]]

(* The entity at `at' becomes the last row, with `values', of archetype    *)
(* id, which is created here when it is new.                               *)
MoveRow(e, at, id, set, factories, values) ==
  LET entities == Grown(archetypeEntities, id, <<>>)
      cols     == Grown(columns, id, NewColumns(set, factories))
  IN  /\ archetypes' = Grown(archetypes, id, set)
      /\ columnFactories' = factories
      /\ archetypeEntities' = [entities EXCEPT ![at.arch] = SwapRemove(@, at.row),
                                               ![id] = Append(@, e)]
      /\ columns' = [cols EXCEPT
           ![at.arch] = DropValues(@, at.row),
           ![id] = Pushed(@, values)]
      /\ entityLocations' = [Vacated(entityLocations, at) EXCEPT
           ![e.index] = [arch |-> id, row |-> Len(entities[id]) + 1]]

(* add_component on a type the entity already has.                         *)
Overwrite(at, c, v) ==
  /\ columns' = [columns EXCEPT ![at.arch][c][at.row] = v]
  /\ UNCHANGED <<allocator, entityLocations, tail, archetypes, archetypeEntities,
                 columnFactories, caches>>

(* add_component on an entity of the empty archetype.                      *)
AddFirst(e, at, c, v) ==
  LET cached    == singleComponentArchetypes[c]
      id        == IF cached # 0 THEN cached ELSE ArchetypeFor({c})
      factories == IF cached # 0 THEN columnFactories ELSE columnFactories \cup {c}
  IN  /\ MoveRow(e, at, id, {c}, factories, [x \in {c} |-> v])
      /\ singleComponentArchetypes' = [singleComponentArchetypes EXCEPT ![c] = id]
      /\ addTransitions' = Grown(addTransitions, id, NoTransitions)
      /\ removeTransitions' = Grown(removeTransitions, id, NoTransitions)
      /\ RaiseTail(e.index)
      /\ UNCHANGED <<allocator, bundleArchetypes>>

(* add_component on an entity that has other components.                   *)
AddAnother(e, at, c, v) ==
  LET cached == addTransitions[at.arch][c]
      set    == archetypes[at.arch] \cup {c}
      id     == IF cached # 0 THEN cached ELSE ArchetypeFor(set)
  IN  /\ MoveRow(e, at, id, set, columnFactories \cup {c},
                 [x \in DOMAIN RowValues(at) \cup {c} |-> IF x = c THEN v ELSE RowValues(at)[x]])
      /\ addTransitions' = [Grown(addTransitions, id, NoTransitions) EXCEPT ![at.arch][c] = id]
      /\ removeTransitions' = Grown(removeTransitions, id, NoTransitions)
      /\ UNCHANGED <<allocator, tail, singleComponentArchetypes, bundleArchetypes>>

AddComponent(e, c, v) ==
  LET at == LocationOf(e)
  IN  /\ at # NoLocation
      /\ \/ /\ c \in archetypes[at.arch]
            /\ Overwrite(at, c, v)
         \/ /\ c \notin archetypes[at.arch]
            /\ at.arch = EmptyArchetype
            /\ AddFirst(e, at, c, v)
         \/ /\ c \notin archetypes[at.arch]
            /\ at.arch # EmptyArchetype
            /\ AddAnother(e, at, c, v)

RemoveComponent(e, c) ==
  LET at     == LocationOf(e)
      cached == removeTransitions[at.arch][c]
      set    == archetypes[at.arch] \ {c}
      id     == IF cached # 0 THEN cached ELSE ArchetypeFor(set)
  IN  /\ at # NoLocation
      /\ at.arch # EmptyArchetype
      /\ c \in archetypes[at.arch]
      /\ MoveRow(e, at, id, set, columnFactories, RowValues(at))
      /\ removeTransitions' =
           [Grown(removeTransitions, id, NoTransitions) EXCEPT ![at.arch][c] = id]
      /\ addTransitions' = Grown(addTransitions, id, NoTransitions)
      /\ IF id = EmptyArchetype THEN LowerTail(e.index) ELSE UNCHANGED tail
      /\ UNCHANGED <<allocator, singleComponentArchetypes, bundleArchetypes>>

RegisterComponentType(c) ==
  /\ columnFactories' = columnFactories \cup {c}
  /\ UNCHANGED <<allocator, entityLocations, tail, archetypes, archetypeEntities, columns, caches>>
-----------------------------------------------------------------------------
Init ==
  /\ nextEntityIndex = 0
  /\ entityGenerations = [i \in Index |-> 0]
  /\ freeIndices = <<>>
  /\ entityLocations = [i \in Index |-> NoLocation]
  /\ maxNonemptyEntityIndex = None
  /\ componentlessTailStart = 0
  /\ allGenerationsZero = TRUE
  /\ archetypes = <<{}>>
  /\ archetypeEntities = <<<<>>>>
  /\ columns = <<[c \in {} |-> <<>>]>>
  /\ columnFactories = {}
  /\ singleComponentArchetypes = NoTransitions
  /\ addTransitions = <<NoTransitions>>
  /\ removeTransitions = <<NoTransitions>>
  /\ bundleArchetypes = [b \in Bundle |-> 0]

Next ==
  \/ SpawnEmpty
  \/ \E b \in Bundle : \E value \in [Types(b) -> Value] : SpawnWith(b, value)
  \/ \E e \in Handle : Despawn(e)
  \/ \E e \in Handle, c \in Component, v \in Value : AddComponent(e, c, v)
  \/ \E e \in Handle, c \in Component : RemoveComponent(e, c)
  \/ \E c \in Component : RegisterComponentType(c)

Spec == Init /\ [][Next]_vars
-----------------------------------------------------------------------------
(* Properties.                                                             *)

(* Types and lengths of the tables of World.                               *)
TypeOK ==
  /\ nextEntityIndex \in 0 .. MaxEntities
  /\ entityGenerations \in [Index -> Nat]
  /\ freeIndices \in Seq(Index)
  /\ entityLocations \in [Index -> Location]
  /\ maxNonemptyEntityIndex \in Index \cup {None}
  /\ componentlessTailStart \in 0 .. MaxEntities
  /\ allGenerationsZero \in BOOLEAN
  /\ archetypes \in Seq(SUBSET Component)
  /\ archetypeEntities \in Seq(Seq(Entity))
  /\ Len(archetypeEntities) = Len(archetypes)
  /\ Len(columns) = Len(archetypes)
  /\ \A a \in DOMAIN columns : columns[a] \in [DOMAIN columns[a] -> Seq(Value)]
  /\ columnFactories \subseteq Component
  /\ singleComponentArchetypes \in [Component -> Nat]
  /\ addTransitions \in Seq([Component -> Nat])
  /\ removeTransitions \in Seq([Component -> Nat])
  /\ Len(addTransitions) = Len(archetypes)
  /\ Len(removeTransitions) = Len(archetypes)
  /\ bundleArchetypes \in [Bundle -> Nat]

(* The location table and the rows agree in both directions: every row is  *)
(* the location of the live handle stored in it, and every location is a   *)
(* row that stores a handle of its index.  This is what add, remove and    *)
(* despawn restore for the entity that swap-remove moved.                  *)
LocationsMatchRows ==
  /\ \A a \in DOMAIN archetypes : \A r \in DOMAIN archetypeEntities[a] :
       LocationOf(archetypeEntities[a][r]) = [arch |-> a, row |-> r]
  /\ \A i \in Index : entityLocations[i] # NoLocation =>
       /\ entityLocations[i].arch \in DOMAIN archetypes
       /\ entityLocations[i].row \in DOMAIN archetypeEntities[entityLocations[i].arch]
       /\ archetypeEntities[entityLocations[i].arch][entityLocations[i].row].index = i

(* Every archetype has a column for each type of its set, and each column  *)
(* has one value per row: what the `expect's of archetype.rs and the       *)
(* debug_assert_eq!s before the unchecked reads of the queries rely on.    *)
ColumnsAligned ==
  \A a \in DOMAIN archetypes :
    /\ DOMAIN columns[a] = archetypes[a]
    /\ \A c \in archetypes[a] : Len(columns[a][c]) = Len(archetypeEntities[a])

(* The free stack holds exactly the used indices without a live entity,    *)
(* each once: no index is handed out twice, none leaks.                    *)
FreeIndicesExact ==
  /\ \A j, k \in DOMAIN freeIndices : freeIndices[j] = freeIndices[k] => j = k
  /\ {freeIndices[k] : k \in DOMAIN freeIndices}
       = {i \in Index : i < nextEntityIndex /\ entityLocations[i] = NoLocation}
  /\ \A i \in Index : i >= nextEntityIndex =>
       entityLocations[i] = NoLocation /\ entityGenerations[i] = 0

(* get_component answers None for every index from componentlessTailStart  *)
(* on without looking: no entity there may have a component, and the tail  *)
(* starts right after the highest index that has one.                      *)
TailExact ==
  /\ componentlessTailStart = maxNonemptyEntityIndex + 1
  /\ \A i \in Index : entityLocations[i].arch \notin {0, EmptyArchetype} =>
       i <= maxNonemptyEntityIndex
  /\ maxNonemptyEntityIndex # None =>
       entityLocations[maxNonemptyEntityIndex].arch \notin {0, EmptyArchetype}

(* allGenerationsZero lets get_component ignore the generation table.      *)
ZeroFlagSound == allGenerationsZero => \A i \in Index : entityGenerations[i] = 0

(* No two archetypes share a set, and every cached shortcut leads to the   *)
(* archetype the slow path would find.                                     *)
ShortcutsResolve ==
  /\ \A a, b \in DOMAIN archetypes : archetypes[a] = archetypes[b] => a = b
  /\ \A c \in Component : singleComponentArchetypes[c] # 0 =>
       /\ singleComponentArchetypes[c] \in DOMAIN archetypes
       /\ archetypes[singleComponentArchetypes[c]] = {c}
  /\ \A b \in Bundle : bundleArchetypes[b] # 0 =>
       /\ bundleArchetypes[b] \in DOMAIN archetypes
       /\ archetypes[bundleArchetypes[b]] = Types(b)
  /\ \A a \in DOMAIN archetypes, c \in Component :
       /\ addTransitions[a][c] # 0 =>
            /\ addTransitions[a][c] \in DOMAIN archetypes
            /\ archetypes[addTransitions[a][c]] = archetypes[a] \cup {c}
       /\ removeTransitions[a][c] # 0 =>
            /\ removeTransitions[a][c] \in DOMAIN archetypes
            /\ archetypes[removeTransitions[a][c]] = archetypes[a] \ {c}

(* The entity/component map of EntityComponents as the storage holds it: a *)
(* handle counts as issued once its index was used at its generation, and  *)
(* a live handle's map is read off its row.                                *)
Issued ==
  {e \in Handle : \/ e.generation < entityGenerations[e.index]
                  \/ IsAlive(e)}

Live == {e \in Handle : IsAlive(e)}

ComponentsOf(e) ==
  LET at == LocationOf(e)
  IN  [c \in archetypes[at.arch] |-> columns[at.arch][c][at.row]]

Abstract == INSTANCE EntityComponents WITH
  issued <- Issued,
  components <- [e \in Live |-> ComponentsOf(e)]

(* Spawning, despawning, adding and removing components change the map of  *)
(* the named entity only, whatever rows swap-remove shuffles and whatever  *)
(* archetype the cached shortcuts pick; a despawned handle never returns.  *)
ImplementsEntityComponents == Abstract!Spec
=============================================================================
