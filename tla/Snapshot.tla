-------------------------------- MODULE Snapshot --------------------------------
(***************************************************************************)
(* save_state and load_state of World (src/world.rs, src/snapshot.rs) over *)
(* the storage of WorldStorage and the side tables of EntityExtras: a      *)
(* world is saved, goes on or is replaced by a new one, and is rewound.    *)
(*                                                                         *)
(* A snapshot holds the allocator, and per archetype its set, its rows and *)
(* the columns of types that have a size.  Nothing else is rewound: column *)
(* factories, sparse sets, trackers and observers stay as they are, every  *)
(* shortcut, location, disabled bit and relationship is dropped.           *)
(*                                                                         *)
(* Bounds.  A behaviour saves once.  `program' says once and for all which *)
(* types, values and facilities it uses, so that the states of different   *)
(* facilities add up instead of multiplying.  A load may leave columns      *)
(* empty or missing; the world goes on with them, and a call that needs a  *)
(* value that is not there panics, which ends the program.                 *)
(***************************************************************************)
EXTENDS EntityExtras

CONSTANTS
  ZeroSized,   \* component types of size zero: their columns have no bytes
  Programs     \* bound: what a program uses together

ASSUME ZeroSizedAssumption == ZeroSized \subseteq Component

Facility == {"sparse", "toggles", "bundles", "snapshots"}
Program  == [components : SUBSET Component, values : SUBSET Value, uses : SUBSET Facility]

ASSUME ProgramsAssumption == Programs \subseteq Program

VARIABLES
  saved,   \* <<>>, or the snapshot as a sequence of one
  program  \* what this behaviour uses

snapshotVars == <<extraVars, saved, program>>

Uses(facility) == facility \in program.uses

-----------------------------------------------------------------------------
(* Saving.                                                                 *)

WorldSnapshot == [
  entityGenerations |-> entityGenerations,
  freeIndices       |-> freeIndices,
  nextEntityIndex   |-> nextEntityIndex,
  archetypes        |-> archetypes,
  entities          |-> archetypeEntities,
  columns           |-> [a \in DOMAIN archetypes |->
                           [c \in DOMAIN columns[a] \ ZeroSized |-> columns[a][c]]]]

SaveState ==
  /\ saved = <<>>
  /\ saved' = <<WorldSnapshot>>
  /\ UNCHANGED <<extraVars, program>>

-----------------------------------------------------------------------------
(* Loading.                                                                *)

(* Mutant: a type without bytes gets no column. *)
RestoredSized(snapshot, a) ==
  [c \in snapshot.archetypes[a] \cap columnFactories \cap DOMAIN snapshot.columns[a] |->
     snapshot.columns[a][c]]

(* The columns of archetype a: one per registered type, filled when the    *)
(* snapshot has its bytes.                                                 *)
RestoredColumns(snapshot, a) ==
  [c \in snapshot.archetypes[a] \cap columnFactories |->
     IF c \in DOMAIN snapshot.columns[a] THEN snapshot.columns[a][c] ELSE <<>>]

RestoredLocations(snapshot) ==
  [i \in Index |->
     LET at == {p \in [arch : DOMAIN snapshot.archetypes, row : 1 .. MaxEntities] :
                  /\ p.row \in DOMAIN snapshot.entities[p.arch]
                  /\ snapshot.entities[p.arch][p.row].index = i}
     IN  IF at = {} THEN NoLocation ELSE CHOOSE p \in at : TRUE]

(* The highest index outside the empty archetype, which comes first.       *)
RestoredMax(snapshot) ==
  Max({None} \cup {e.index : e \in
         UNION {ToSet(snapshot.entities[a]) : a \in DOMAIN snapshot.archetypes \ {EmptyArchetype}}})

(* Mutant: the flag is taken as it stands. *)
RestoreKeepingFlag(snapshot) ==
  /\ entityGenerations' = snapshot.entityGenerations
  /\ freeIndices' = snapshot.freeIndices
  /\ nextEntityIndex' = snapshot.nextEntityIndex
  /\ UNCHANGED allGenerationsZero

(* Mutant: the indices used since the save are not rewound. *)
RestoreKeepingGenerations(snapshot) ==
  /\ freeIndices' = snapshot.freeIndices
  /\ nextEntityIndex' = snapshot.nextEntityIndex
  /\ UNCHANGED <<entityGenerations, allGenerationsZero>>

(* Generations, free stack and next index are rewound together. *)
RestoreAllocator(snapshot) ==
  /\ entityGenerations' = snapshot.entityGenerations
  /\ freeIndices' = snapshot.freeIndices
  /\ nextEntityIndex' = snapshot.nextEntityIndex
  /\ allGenerationsZero' = (\A i \in Index : snapshot.entityGenerations[i] = 0)

(* Mutant: the archetypes of single components are still known. *)
ForgetOtherShortcuts(count) ==
  /\ UNCHANGED singleComponentArchetypes
  /\ bundleArchetypes' = [b \in Bundle |-> 0]
  /\ addTransitions' = [a \in 1 .. count |-> NoTransitions]
  /\ removeTransitions' = [a \in 1 .. count |-> NoTransitions]

(* No cached archetype id survives. *)
ForgetShortcuts(count) ==
  /\ singleComponentArchetypes' = NoTransitions
  /\ bundleArchetypes' = [b \in Bundle |-> 0]
  /\ addTransitions' = [a \in 1 .. count |-> NoTransitions]
  /\ removeTransitions' = [a \in 1 .. count |-> NoTransitions]

(* Mutant: the disabled bits of the replaced world stay. *)
KeepDisabled == UNCHANGED disabledComponents

(* Every disabled bit is dropped. *)
ForgetDisabled == disabledComponents' = NoneDisabled

LoadState ==
  /\ saved # <<>>
  /\ LET snapshot == saved[1]
     IN  /\ RestoreAllocator(snapshot)
         /\ archetypes' = snapshot.archetypes
         /\ archetypeEntities' = snapshot.entities
         /\ columns' = [a \in DOMAIN snapshot.archetypes |-> RestoredColumns(snapshot, a)]
         /\ entityLocations' = RestoredLocations(snapshot)
         /\ maxNonemptyEntityIndex' = RestoredMax(snapshot)
         /\ componentlessTailStart' = maxNonemptyEntityIndex' + 1
         /\ ForgetShortcuts(Len(snapshot.archetypes))
  /\ ForgetDisabled
  /\ UNCHANGED <<columnFactories, sparseVars, saved, program>>

(* The program starts over, with a new world and the snapshot it kept.     *)
NewWorld ==
  /\ saved # <<>>
  /\ nextEntityIndex' = 0
  /\ entityGenerations' = [i \in Index |-> 0]
  /\ freeIndices' = <<>>
  /\ entityLocations' = [i \in Index |-> NoLocation]
  /\ maxNonemptyEntityIndex' = None
  /\ componentlessTailStart' = 0
  /\ allGenerationsZero' = TRUE
  /\ archetypes' = <<{}>>
  /\ archetypeEntities' = <<<<>>>>
  /\ columns' = <<[c \in {} |-> <<>>]>>
  /\ columnFactories' = {}
  /\ ForgetShortcuts(1)
  /\ sparse' = EmptySparse
  /\ dense' = NothingDense
  /\ sparseComponents' = NothingDense
  /\ ForgetDisabled
  /\ UNCHANGED <<saved, program>>

-----------------------------------------------------------------------------
SnapshotInit ==
  /\ ExtraInit
  /\ saved = <<>>
  /\ program \in Programs

(* After a load columns may be short or missing.  A call that needs what   *)
(* is not there panics (swap_remove beyond a column, the `expect's of      *)
(* archetype.rs), which ends the program; every other call goes on.        *)
RowThere(e) ==
  \A c \in DOMAIN columns[LocationOf(e).arch] :
    LocationOf(e).row \in DOMAIN columns[LocationOf(e).arch][c]

SourceTypes(e) == DOMAIN columns[LocationOf(e).arch]

(* The columns of the archetype that index i is in after the step. *)
DestinationTypes(i) == DOMAIN columns'[entityLocations'[i].arch]

SpawnWithCompletes(b, value) ==
  /\ SpawnWith(b, value)
  /\ Types(b) \subseteq DOMAIN columns'[bundleArchetypes'[b]]

AddComponentCompletes(e, c, v) ==
  /\ IsAlive(e)
  /\ c \in archetypes[LocationOf(e).arch] \/ RowThere(e)
  /\ AddComponent(e, c, v)
  /\ c \in archetypes[LocationOf(e).arch] \/ SourceTypes(e) \cup {c} \subseteq DestinationTypes(e.index)

RemoveCompletes(e, c) ==
  /\ IsAlive(e)
  /\ RowThere(e)
  /\ c \in SourceTypes(e)
  /\ RemoveStored(e, c)
  /\ SourceTypes(e) \ {c} \subseteq DestinationTypes(e.index)

DespawnCompletes(e) ==
  /\ IsAlive(e)
  /\ RowThere(e)
  /\ DespawnEntity(e)

OrdinaryStep ==
  /\ \/ /\ \/ SpawnEmpty
           \/ /\ Uses("bundles")
              /\ \E b \in Bundle : \E value \in [Types(b) -> program.values] :
                   SpawnWithCompletes(b, value)
           \/ \E e \in Handle, c \in program.components, v \in program.values :
                AddComponentCompletes(e, c, v)
           \/ \E c \in program.components : RegisterComponentType(c)
        /\ UNCHANGED <<sparseVars, disabledComponents>>
     \/ \E e \in Handle : DespawnCompletes(e)
     \/ \E e \in Handle, c \in Component : RemoveCompletes(e, c)
     \/ Uses("sparse") /\ SparseStep
     \/ Uses("toggles") /\ ToggleStep
  /\ UNCHANGED <<saved, program>>

SnapshotNext ==
  \/ OrdinaryStep
  \/ Uses("snapshots") /\ SaveState
  \/ LoadState
  \/ NewWorld

SnapshotSpec == SnapshotInit /\ [][SnapshotNext]_snapshotVars

-----------------------------------------------------------------------------
(* Properties.                                                             *)

(* Wherever a program saves, rewinds or starts over, and with whatever     *)
(* columns a load left, the locations, the allocator with its flag and the *)
(* componentless tail agree with the rows, and no cached archetype id      *)
(* leads to a set it was not made for.  Of the columns it says nothing:    *)
(* see ColumnsStayAligned.                                                 *)
StorageSound ==
  /\ LocationsMatchRows
  /\ FreeIndicesExact
  /\ TailExact
  /\ ZeroFlagSound
  /\ ShortcutsResolve

(* What a load cannot give back: a type nobody registered since the world  *)
(* was made has no column, and rows of a type without size have no bytes.  *)
LoadLoses ==
  \E a \in DOMAIN saved[1].archetypes :
    \/ ~(saved[1].archetypes[a] \subseteq columnFactories)
    \/ saved[1].archetypes[a] \cap ZeroSized # {} /\ saved[1].entities[a] # <<>>

(* The columns of every archetype are its own types', one value per row,   *)
(* through every call, and a load keeps them so exactly when the snapshot  *)
(* has bytes and the world a factory for every column: after one that does *)
(* not, rows are left without values (world.rs:3635).                      *)
ColumnsStayAligned ==
  [][IF LoadState THEN ColumnsAligned' <=> ~LoadLoses
                  ELSE ColumnsAligned => ColumnsAligned']_snapshotVars

(* A sparse component never outlives its entity: whatever index is reused, *)
(* its next entity starts without any.  Only a load can leave an entry     *)
(* behind, since it rewinds the handles and not the sparse sets.           *)
SparseOwnersStayLive ==
  [][SparseOwnersLive /\ ~LoadState => SparseOwnersLive']_snapshotVars

SavedLive(snapshot) == UNION {ToSet(snapshot.entities[a]) : a \in DOMAIN snapshot.entities}

SavedRestored ==
  LET snapshot == saved[1]
  IN  /\ Live' = SavedLive(snapshot)
      /\ \A a \in DOMAIN snapshot.archetypes : \A r \in DOMAIN snapshot.entities[a] :
           LET at == LocationOf(snapshot.entities[a][r])'
           IN  /\ archetypes'[at.arch] = snapshot.archetypes[a]
               /\ \A c \in (snapshot.archetypes[a] \cap columnFactories) \ ZeroSized :
                    columns'[at.arch][c][at.row] = snapshot.columns[a][c][r]

(* Loading brings back the entities that were alive at the save, under the *)
(* same handles and with the same sets of components, whatever happened to *)
(* the world since, and their values in every type that is registered and  *)
(* has a size.                                                             *)
LoadRestoresSaved == [][LoadState => SavedRestored]_snapshotVars
=============================================================================
