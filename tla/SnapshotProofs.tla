------------------------------ MODULE SnapshotProofs ------------------------------
(***************************************************************************)
(* Theorems about Snapshot: a world that is saved, goes on and is rewound  *)
(* stays sound, with its sparse sets and disabled bits.                    *)
(*                                                                         *)
(* Ordinary calls are calls of WorldStorage, whose lemmas say what they    *)
(* keep.  A load has to bring all of it back from a snapshot, so the       *)
(* invariant says of the snapshot what it says of the world: that its rows *)
(* are those of one world, its locations the ones the load computes.  The  *)
(* columns are apart, since a load may leave them short or missing.        *)
(***************************************************************************)
EXTENDS Snapshot, WorldStorageProofs

-----------------------------------------------------------------------------
(* The invariants.                                                         *)

StoreInv == RowsInv /\ TailInv /\ ZeroFlagSound /\ GenerationsBounded

(* SparseSetsAgree for one set.                                            *)
Agree(positions, entries, values) ==
  /\ Len(values) = Len(entries)
  /\ \A k \in 1 .. Len(entries) : positions[entries[k].index] = k
  /\ \A i \in Index : positions[i] # 0 =>
       positions[i] \in 1 .. Len(entries) /\ entries[positions[i]].index = i

SparseInv ==
  /\ sparse \in [SparseComponent -> [Index -> Nat]]
  /\ dense \in [SparseComponent -> Seq(Handle)]
  /\ sparseComponents \in [SparseComponent -> Seq(Handle)]
  /\ \A c \in SparseComponent : Agree(sparse[c], dense[c], sparseComponents[c])

DisabledInv ==
  /\ disabledComponents \in [ComponentType -> SUBSET Index]
  /\ DisabledHaveComponent

(* FreeIndicesExact for arbitrary tables.                                  *)
FreeExact(free, next, locs, gens) ==
  /\ \A j, k \in DOMAIN free : free[j] = free[k] => j = k
  /\ {free[k] : k \in DOMAIN free} = {i \in Index : i < next /\ locs[i] = NoLocation}
  /\ \A i \in Index : i >= next => locs[i] = NoLocation /\ gens[i] = 0

(* What a snapshot holds is a world: its locations are not stored, but     *)
(* those that a load computes are the right ones.                          *)
SnapshotSound(s) ==
  /\ s.nextEntityIndex \in 0 .. MaxEntities
  /\ s.entityGenerations \in [Index -> 0 .. MaxGeneration]
  /\ s.freeIndices \in Seq(Index)
  /\ s.archetypes \in Seq(SUBSET Component)
  /\ Len(s.archetypes) \in Nat \ {0}
  /\ s.archetypes[EmptyArchetype] = {}
  /\ \A a, b \in DOMAIN s.archetypes : s.archetypes[a] = s.archetypes[b] => a = b
  /\ s.entities \in Tables(Len(s.archetypes))
  /\ RestoredLocations(s) \in [Index -> Location]
  /\ Corresponds(Len(s.archetypes), s.entities, RestoredLocations(s), s.entityGenerations)
  /\ FreeExact(s.freeIndices, s.nextEntityIndex, RestoredLocations(s), s.entityGenerations)
  /\ \A a \in 1 .. Len(s.archetypes) :
       /\ s.columns[a] \in [s.archetypes[a] \ ZeroSized -> Seq(Value)]
       /\ \A c \in s.archetypes[a] \ ZeroSized : Fits(s.columns[a][c], s.entities[a])

(* Until the save nothing was loaded and the columns are those of a world  *)
(* built step by step.                                                     *)
SavedInv ==
  /\ saved = <<>> => ColumnsInv
  /\ saved # <<>> => SnapshotSound(saved[1])
  /\ program \in Program

-----------------------------------------------------------------------------
(* The tables of the storage.                                              *)

(* The calls of an ordinary step, which panic without the values that they *)
(* need: what follows holds of them whether they do or not.                *)
OrdinaryCall ==
  /\ \/ /\ \/ SpawnEmpty
           \/ \E b \in Bundle : \E value \in [Types(b) -> program.values] : SpawnWith(b, value)
           \/ \E e \in Handle, c \in program.components, v \in program.values :
                AddComponent(e, c, v)
           \/ \E c \in program.components : RegisterComponentType(c)
        /\ UNCHANGED <<sparseVars, disabledComponents>>
     \/ \E e \in Handle : DespawnEntity(e)
     \/ \E e \in Handle, c \in Component : RemoveStored(e, c)
     \/ SparseStep
     \/ ToggleStep
  /\ UNCHANGED <<saved, program>>

(* An ordinary step is one of these calls.                                 *)
LEMMA OrdinaryIsCall == OrdinaryStep => OrdinaryCall
BY DEF OrdinaryStep, OrdinaryCall, SpawnWithCompletes, AddComponentCompletes,
       RemoveCompletes, DespawnCompletes

(* Every ordinary call is a call of the storage, or leaves it alone.       *)
LEMMA OrdinaryIsNext ==
  ASSUME program \in Program, OrdinaryCall
  PROVE  [Next]_vars
<1>1. program.components \subseteq Component /\ program.values \subseteq Value
  BY DEF Program
<1>2. ASSUME NEW b \in Bundle, NEW value \in [Types(b) -> program.values], SpawnWith(b, value)
      PROVE  Next
  <2>1. value \in [Types(b) -> Value]
    BY <1>1
  <2>2. QED
    BY <1>2, <2>1 DEF Next
<1>3. CASE SpawnEmpty
  BY <1>3 DEF Next
<1>4. ASSUME NEW e \in Handle, NEW c \in program.components, NEW v \in program.values,
             AddComponent(e, c, v)
      PROVE  Next
  BY <1>1, <1>4 DEF Next
<1>5. ASSUME NEW c \in program.components, RegisterComponentType(c) PROVE Next
  BY <1>1, <1>5 DEF Next
<1>6. ASSUME NEW e \in Handle, DespawnEntity(e) PROVE Next
  BY <1>6 DEF DespawnEntity, Next
<1>7. ASSUME NEW e \in Handle, NEW c \in Component, RemoveStored(e, c) PROVE Next
  BY <1>7 DEF RemoveStored, Next
<1>8. CASE SparseStep \/ ToggleStep
  BY <1>8 DEF SparseStep, AddSparse, WriteSparse, RemoveSparse,
              ToggleStep, DisableComponent, EnableComponent
<1>9. QED
  BY <1>2, <1>3, <1>4, <1>5, <1>6, <1>7, <1>8 DEF OrdinaryCall

(* No call of the storage breaks its tables.                               *)
LEMMA NextKeepsStore ==
  ASSUME StoreInv, [Next]_vars
  PROVE  StoreInv'
BY NextKeepsRows, NextKeepsTail, NextKeepsZeroFlag, NextKeepsBounds DEF StoreInv

(* The tables of a world just made.                                        *)
LEMMA InitStore == Init => StoreInv
<1> SUFFICES ASSUME Init PROVE StoreInv
  OBVIOUS
<1>1. GenerationsBounded /\ ZeroFlagSound
  BY MaxGenerationAssumption DEF Init, GenerationsBounded, ZeroFlagSound
<1>2. QED
  BY <1>1, InitRows, InitTail DEF StoreInv

(* A new world is a world in its initial state.                            *)
LEMMA NewWorldInit == NewWorld => Init'
<1> SUFFICES ASSUME NewWorld PROVE Init'
  OBVIOUS
<1>1. /\ singleComponentArchetypes' = NoTransitions
      /\ bundleArchetypes' = [b \in Bundle |-> 0]
      /\ addTransitions' = [a \in 1 .. 1 |-> NoTransitions]
      /\ removeTransitions' = [a \in 1 .. 1 |-> NoTransitions]
  BY DEF NewWorld, ForgetShortcuts
<1>2. [a \in 1 .. 1 |-> NoTransitions] = <<NoTransitions>>
  OBVIOUS
<1>3. QED
  BY <1>1, <1>2 DEF NewWorld, Init

(* A new world is sound, whatever the replaced one was.                    *)
LEMMA NewWorldStore == NewWorld => StoreInv'
BY NewWorldInit, InitStore, PTL

-----------------------------------------------------------------------------
(* Saving.                                                                 *)

(* The locations that a load computes, from rows that agree with some      *)
(* table of locations, are that table.                                     *)
LEMMA RestoredLocationsExact ==
  ASSUME NEW s, NEW n \in Nat, s.archetypes \in Seq(SUBSET Component), Len(s.archetypes) = n,
         s.entities \in Tables(n), NEW locs \in [Index -> Location], NEW gens,
         Corresponds(n, s.entities, locs, gens),
         \A a \in 1 .. n : Len(s.entities[a]) \in 0 .. MaxEntities
  PROVE  RestoredLocations(s) = locs
<1> DEFINE All == [arch : 1 .. n, row : 1 .. MaxEntities]
           Found(i) == {p \in All : /\ p.row \in 1 .. Len(s.entities[p.arch])
                                    /\ s.entities[p.arch][p.row].index = i}
           Places(i) == {p \in [arch : DOMAIN s.archetypes, row : 1 .. MaxEntities] :
                           /\ p.row \in DOMAIN s.entities[p.arch]
                           /\ s.entities[p.arch][p.row].index = i}
           Restored(i) == IF Places(i) = {} THEN NoLocation ELSE CHOOSE p \in Places(i) : TRUE
<1>0. RestoredLocations(s) = [i \in Index |-> Restored(i)]
  BY DEF RestoredLocations
<1>1. DOMAIN s.archetypes = 1 .. n
  OBVIOUS
<1>2. \A a \in 1 .. n : DOMAIN s.entities[a] = 1 .. Len(s.entities[a])
  BY TablesRows
<1>3. \A i \in Index : Places(i) = Found(i)
  BY <1>1, <1>2
<1>4. ASSUME NEW i \in Index
      PROVE  Found(i) = IF locs[i] = NoLocation THEN {} ELSE {locs[i]}
  <2>1. ASSUME NEW p \in Found(i) PROVE p = locs[i] /\ locs[i] # NoLocation
    <3>1. /\ p = [arch |-> p.arch, row |-> p.row]
          /\ p.arch \in 1 .. n
          /\ p.row \in 1 .. Len(s.entities[p.arch])
          /\ s.entities[p.arch][p.row].index = i
      OBVIOUS
    <3>2. locs[i] = [arch |-> p.arch, row |-> p.row]
      BY <3>1 DEF Corresponds
    <3>3. QED
      BY <3>1, <3>2 DEF NoLocation
  <2>2. ASSUME locs[i] # NoLocation PROVE locs[i] \in Found(i)
    <3>1. /\ locs[i].arch \in 1 .. n
          /\ locs[i].row \in 1 .. Len(s.entities[locs[i].arch])
          /\ s.entities[locs[i].arch][locs[i].row].index = i
      BY <2>2 DEF Corresponds
    <3>2. locs[i].row \in 1 .. MaxEntities
      BY <3>1, MaxEntitiesAssumption
    <3>3. locs[i] \in All
      BY <3>1, <3>2 DEF Location
    <3>4. QED
      BY <3>1, <3>3
  <2>3. QED
    BY <2>1, <2>2
<1> HIDE DEF Found, Places
<1>5. ASSUME NEW i \in Index PROVE Restored(i) = locs[i]
  <2>1. CASE locs[i] = NoLocation
    BY <1>3, <1>4, <2>1
  <2>2. CASE locs[i] # NoLocation
    BY <1>3, <1>4, <2>2
  <2>3. QED
    BY <2>1, <2>2
<1> HIDE DEF Restored
<1>6. QED
  BY <1>0, <1>5

(* What save_state writes is a sound snapshot.                             *)
LEMMA WorldSnapshotSound ==
  ASSUME StoreInv, ColumnsInv
  PROVE  SnapshotSound(WorldSnapshot)
<1> DEFINE s == WorldSnapshot
           n == Len(archetypes)
<1>1. /\ s.entityGenerations = entityGenerations
      /\ s.freeIndices = freeIndices
      /\ s.nextEntityIndex = nextEntityIndex
      /\ s.archetypes = archetypes
      /\ s.entities = archetypeEntities
      /\ s.columns = [a \in DOMAIN archetypes |->
                        [c \in DOMAIN columns[a] \ ZeroSized |-> columns[a][c]]]
  BY DEF WorldSnapshot
<1>2. RowsType /\ RowsMatch /\ FreeIndicesExact /\ ShortcutsResolve
  BY DEF StoreInv, RowsInv
<1>3. DOMAIN archetypes = 1 .. n /\ n \in Nat
  BY <1>2 DEF RowsType
<1>4. entityGenerations \in [Index -> 0 .. MaxGeneration]
  BY <1>2 DEF StoreInv, GenerationsBounded, RowsType
<1> HIDE DEF s
<1>5. RestoredLocations(s) = entityLocations
  <2>1. \A a \in 1 .. n : Len(archetypeEntities[a]) \in 0 .. MaxEntities
    BY <1>2, RowsBounded
  <2>2. Corresponds(n, s.entities, entityLocations, entityGenerations)
    BY <1>1, <1>2 DEF RowsMatch
  <2>3. /\ s.archetypes \in Seq(SUBSET Component) /\ Len(s.archetypes) = n
        /\ s.entities \in Tables(n) /\ entityLocations \in [Index -> Location]
    BY <1>1, <1>2 DEF RowsType
  <2>4. QED
    BY <1>1, <1>3, <2>1, <2>2, <2>3, RestoredLocationsExact
<1>6. FreeExact(s.freeIndices, s.nextEntityIndex, RestoredLocations(s), s.entityGenerations)
  BY <1>1, <1>2, <1>5 DEF FreeIndicesExact, FreeExact
<1>7. \A a, b \in DOMAIN s.archetypes : s.archetypes[a] = s.archetypes[b] => a = b
  BY <1>1, <1>2 DEF ShortcutsResolve
<1>8. ASSUME NEW a \in 1 .. n
      PROVE  /\ s.columns[a] \in [s.archetypes[a] \ ZeroSized -> Seq(Value)]
             /\ \A c \in s.archetypes[a] \ ZeroSized : Fits(s.columns[a][c], s.entities[a])
  <2>1. /\ columns[a] \in [archetypes[a] -> Seq(Value)]
        /\ \A c \in archetypes[a] : Fits(columns[a][c], archetypeEntities[a])
    BY DEF ColumnsInv, Aligned
  <2>2. s.columns[a] = [c \in archetypes[a] \ ZeroSized |-> columns[a][c]]
    BY <1>1, <1>3, <2>1
  <2>3. QED
    BY <1>1, <2>1, <2>2
<1>9. SnapshotSound(s)
  BY <1>1, <1>2, <1>4, <1>5, <1>6, <1>7, <1>8 DEF SnapshotSound, RowsType, RowsMatch
<1>10. QED
  BY <1>9 DEF s

(* A save writes a sound snapshot, and is the only one.                    *)
LEMMA SaveKeeps ==
  ASSUME StoreInv, SavedInv, SaveState
  PROVE  SavedInv'
<1>1. SnapshotSound(WorldSnapshot)
  BY WorldSnapshotSound DEF SavedInv, SaveState
<1>2. saved' = <<WorldSnapshot>> /\ program' = program
  BY DEF SaveState
<1>3. saved' # <<>> /\ saved'[1] = WorldSnapshot
  BY <1>2
<1>4. SnapshotSound(saved[1])'
  <2>1. PICK s : s = WorldSnapshot
    OBVIOUS
  <2>2. SnapshotSound(s)
    BY <1>1, <2>1
  <2>3. (saved[1])' = s
    BY <1>3, <2>1
  <2>4. QED
    BY <2>2, <2>3
<1>5. QED
  BY <1>2, <1>3, <1>4 DEF SavedInv

-----------------------------------------------------------------------------
(* Loading.                                                                *)

(* The highest index outside the empty archetype, as a load finds it.      *)
LEMMA RestoredMaxExact ==
  ASSUME NEW s, NEW n \in Nat, s.archetypes \in Seq(SUBSET Component), Len(s.archetypes) = n,
         s.entities \in Tables(n), NEW locs \in [Index -> Location], NEW gens,
         Corresponds(n, s.entities, locs, gens)
  PROVE  /\ RestoredMax(s) \in Index \cup {None}
         /\ \A i \in Index : ~ HasNone(locs[i].arch) => i <= RestoredMax(s)
         /\ RestoredMax(s) # None => ~ HasNone(locs[RestoredMax(s)].arch)
<1> DEFINE Stored == UNION {ToSet(s.entities[a]) : a \in DOMAIN s.archetypes \ {EmptyArchetype}}
           T == {e.index : e \in Stored}
           Candidates == {None} \cup T
<1>1. DOMAIN s.archetypes = 1 .. n
  OBVIOUS
<1>2. \A a \in 1 .. n : /\ DOMAIN s.entities[a] = 1 .. Len(s.entities[a])
                        /\ \A r \in 1 .. Len(s.entities[a]) : s.entities[a][r] \in Entity
  BY TablesRows
<1>3. ASSUME NEW e \in Stored
      PROVE  /\ e \in Entity
             /\ ~ HasNone(locs[e.index].arch)
  <2>1. PICK a \in 1 .. n : a # EmptyArchetype /\ e \in ToSet(s.entities[a])
    BY <1>1
  <2>2. PICK r \in 1 .. Len(s.entities[a]) : e = s.entities[a][r]
    BY <1>2, <2>1 DEF ToSet
  <2>3. locs[e.index] = [arch |-> a, row |-> r]
    BY <2>2 DEF Corresponds
  <2>4. QED
    BY <1>2, <2>1, <2>2, <2>3 DEF HasNone, EmptyArchetype
<1>4. ASSUME NEW i \in Index, ~ HasNone(locs[i].arch)
      PROVE  i \in T
  <2>1. locs[i] # NoLocation
    BY <1>4 DEF HasNone, NoLocation
  <2>2. PICK a, r :
          /\ a \in 1 .. n /\ a = locs[i].arch
          /\ r \in 1 .. Len(s.entities[a]) /\ s.entities[a][r].index = i
    BY <2>1 DEF Corresponds
  <2>3. a \in DOMAIN s.archetypes \ {EmptyArchetype}
    BY <1>1, <1>4, <2>2 DEF HasNone
  <2>4. s.entities[a][r] \in ToSet(s.entities[a])
    BY <1>2, <2>2 DEF ToSet
  <2>5. s.entities[a][r] \in Stored
    BY <2>3, <2>4
  <2>6. QED
    BY <2>2, <2>5
<1>5. T \subseteq {i \in Index : ~ HasNone(locs[i].arch)}
  BY <1>3, EntityFields
<1>6. RestoredMax(s) = CHOOSE x \in Candidates : \A y \in Candidates : x >= y
  BY DEF RestoredMax, Max
<1> HIDE DEF T
<1>7. T \in SUBSET (0 .. MaxEntities)
  BY <1>5, MaxEntitiesAssumption DEF Index
<1>8. \E x \in Candidates : \A y \in Candidates : x >= y
  <2>1. CASE T = {}
    BY <2>1 DEF None
  <2>2. CASE T # {}
    <3>1. PICK j \in T : \A k \in T : k <= j
      BY <1>7, <2>2, MaxEntitiesAssumption, GreatestIndex
    <3>2. \A y \in Candidates : j >= y
      BY <1>7, <3>1 DEF None
    <3>3. QED
      BY <3>2
  <2>3. QED
    BY <2>1, <2>2
<1>9. /\ RestoredMax(s) \in Candidates
      /\ \A y \in Candidates : RestoredMax(s) >= y
  BY <1>6, <1>8
<1>10. \A i \in T : i <= RestoredMax(s)
  BY <1>7, <1>9 DEF None
<1>11. QED
  BY <1>4, <1>5, <1>9, <1>10

(* A world that was loaded is a world.                                     *)
LEMMA LoadKeepsStore ==
  ASSUME SavedInv, LoadState
  PROVE  StoreInv'
<1>1. PICK s : s = saved[1]
  OBVIOUS
<1>2. SnapshotSound(s)
  BY <1>1 DEF SavedInv, LoadState
<1>3. PICK n : n = Len(s.archetypes)
  OBVIOUS
<1>4. /\ entityGenerations' = s.entityGenerations
      /\ freeIndices' = s.freeIndices
      /\ nextEntityIndex' = s.nextEntityIndex
      /\ allGenerationsZero' = (\A i \in Index : s.entityGenerations[i] = 0)
      /\ archetypes' = s.archetypes
      /\ archetypeEntities' = s.entities
      /\ entityLocations' = RestoredLocations(s)
      /\ maxNonemptyEntityIndex' = RestoredMax(s)
      /\ componentlessTailStart' = RestoredMax(s) + 1
      /\ singleComponentArchetypes' = NoTransitions
      /\ bundleArchetypes' = [b \in Bundle |-> 0]
      /\ addTransitions' = [a \in 1 .. n |-> NoTransitions]
      /\ removeTransitions' = [a \in 1 .. n |-> NoTransitions]
  BY <1>1, <1>3 DEF LoadState, RestoreAllocator, ForgetShortcuts
<1>5. NoTransitions \in [Component -> Nat] /\ \A c \in Component : NoTransitions[c] = 0
  BY DEF NoTransitions
<1>6. Len(archetypes') = n /\ n \in Nat \ {0} /\ DOMAIN archetypes' = 1 .. n
  BY <1>2, <1>3, <1>4 DEF SnapshotSound
<1>7. RowsType'
  BY <1>2, <1>4, <1>5, <1>6 DEF SnapshotSound, RowsType, Transitions
<1>8. RowsMatch'
  BY <1>2, <1>4, <1>6 DEF SnapshotSound, RowsMatch
<1>9. FreeIndicesExact'
  BY <1>2, <1>4 DEF SnapshotSound, FreeExact, FreeIndicesExact
<1>10. ShortcutsResolve'
  <2>1. \A a, b \in DOMAIN archetypes' : archetypes'[a] = archetypes'[b] => a = b
    BY <1>2, <1>4 DEF SnapshotSound
  <2>2. \A a \in 1 .. n, c \in Component :
          addTransitions'[a][c] = 0 /\ removeTransitions'[a][c] = 0
    BY <1>4, <1>5
  <2>3. /\ \A c \in Component : singleComponentArchetypes'[c] = 0
        /\ \A b \in Bundle : bundleArchetypes'[b] = 0
    BY <1>4, <1>5
  <2>4. QED
    BY <1>6, <2>1, <2>2, <2>3 DEF ShortcutsResolve
<1>11. TailInv'
  <2>1. /\ RestoredMax(s) \in Index \cup {None}
        /\ \A i \in Index : ~ HasNone(RestoredLocations(s)[i].arch) => i <= RestoredMax(s)
        /\ RestoredMax(s) # None => ~ HasNone(RestoredLocations(s)[RestoredMax(s)].arch)
    <3>1. /\ n \in Nat /\ s.archetypes \in Seq(SUBSET Component) /\ Len(s.archetypes) = n
          /\ s.entities \in Tables(n) /\ RestoredLocations(s) \in [Index -> Location]
          /\ Corresponds(n, s.entities, RestoredLocations(s), s.entityGenerations)
      BY <1>2, <1>3 DEF SnapshotSound
    <3>2. QED
      BY ONLY <3>1, RestoredMaxExact
  <2>2. QED
    BY <1>4, <2>1 DEF TailInv, TailExact, HasNone
<1>12. ZeroFlagSound' /\ GenerationsBounded'
  BY <1>2, <1>4 DEF SnapshotSound, ZeroFlagSound, GenerationsBounded
<1>13. QED
  BY <1>7, <1>8, <1>9, <1>10, <1>11, <1>12 DEF StoreInv, RowsInv

(* Every step keeps the tables of the storage and the snapshot.            *)
LEMMA StepKeepsStore ==
  ASSUME StoreInv, SavedInv, [SnapshotNext]_snapshotVars
  PROVE  StoreInv' /\ SavedInv'
<1>1. CASE OrdinaryStep
  <2>1. [Next]_vars
    BY <1>1, OrdinaryIsCall, OrdinaryIsNext DEF SavedInv
  <2>2. UNCHANGED <<saved, program>>
    BY <1>1 DEF OrdinaryStep
  <2>3. saved = <<>> => ColumnsInv'
    BY <2>1, NextKeepsColumns DEF StoreInv, SavedInv
  <2>4. saved' # <<>> => SnapshotSound(saved[1])'
    <3>1. PICK s : s = saved[1]
      OBVIOUS
    <3>2. saved # <<>> => SnapshotSound(s)
      BY <3>1 DEF SavedInv
    <3>3. (saved[1])' = s
      BY <2>2, <3>1
    <3>4. QED
      BY <2>2, <3>2, <3>3
  <2>5. StoreInv'
    BY <2>1, NextKeepsStore
  <2>6. QED
    BY <2>2, <2>3, <2>4, <2>5 DEF SavedInv
<1>2. CASE SaveState
  <2>1. [Next]_vars
    BY <1>2 DEF SaveState, extraVars
  <2>2. QED
    BY <1>2, <2>1, NextKeepsStore, SaveKeeps
<1>3. ASSUME LoadState \/ NewWorld \/ UNCHANGED snapshotVars
      PROVE  SavedInv'
  <2>1. UNCHANGED <<saved, program>>
    BY <1>3 DEF LoadState, NewWorld, snapshotVars
  <2>2. PICK s : s = saved[1]
    OBVIOUS
  <2>3. saved # <<>> => SnapshotSound(s)
    BY <2>2 DEF SavedInv
  <2>4. (saved[1])' = s
    BY <2>1, <2>2
  <2>5. saved = <<>> => ColumnsInv'
    <3>1. SUFFICES ASSUME saved = <<>> PROVE ColumnsInv'
      OBVIOUS
    <3>2. UNCHANGED <<columns, archetypes, archetypeEntities, columnFactories>>
      BY <1>3, <3>1 DEF LoadState, NewWorld, snapshotVars, extraVars, vars, storage
    <3>3. QED
      BY <3>1, <3>2 DEF SavedInv, ColumnsInv
  <2>6. SnapshotSound(saved[1])' \/ saved' = <<>>
    BY <2>1, <2>3, <2>4
  <2>7. QED
    BY <2>1, <2>5, <2>6 DEF SavedInv
<1>4. CASE LoadState
  BY <1>3, <1>4, LoadKeepsStore
<1>5. CASE NewWorld
  BY <1>3, <1>5, NewWorldStore
<1>6. CASE UNCHANGED snapshotVars
  <2>1. [Next]_vars
    BY <1>6 DEF snapshotVars, extraVars
  <2>2. QED
    BY <1>3, <1>6, <2>1, NextKeepsStore
<1>7. QED
  BY <1>1, <1>2, <1>4, <1>5, <1>6 DEF SnapshotNext

(* A program starts with a sound world and no snapshot.                    *)
LEMMA SnapshotInitStore == SnapshotInit => StoreInv /\ SavedInv
BY InitStore, InitColumns, ProgramsAssumption DEF SnapshotInit, ExtraInit, SavedInv

(* World and snapshot are sound, always.                                   *)
LEMMA StoreInvariant == SnapshotSpec => [](StoreInv /\ SavedInv)
<1>1. SnapshotInit => StoreInv /\ SavedInv
  BY SnapshotInitStore
<1>2. StoreInv /\ SavedInv /\ [SnapshotNext]_snapshotVars => (StoreInv /\ SavedInv)'
  BY StepKeepsStore
<1>3. QED
  BY <1>1, <1>2, PTL DEF SnapshotSpec

(* In a world that was saved, went on or was replaced, and was rewound,    *)
(* the locations, the allocator, the tail and the caches agree with the    *)
(* rows: World::load_state rebuilds what World::save_state left out, and   *)
(* every call after it keeps that, whatever columns the load left.  (The   *)
(* columns are the matter of ColumnsStayAlignedTheorem.)                   *)
THEOREM StorageSoundTheorem == SnapshotSpec => []StorageSound
<1>1. StoreInv => StorageSound
  BY RowsMatchLocations DEF StoreInv, RowsInv, TailInv, StorageSound
<1>2. QED
  BY <1>1, StoreInvariant, PTL

-----------------------------------------------------------------------------
(* Sparse sets, for arbitrary tables.                                      *)

(* Positions without index i, whose place the entry of index last takes.   *)
Refilled(positions, last, i) == [positions EXCEPT ![last] = positions[i], ![i] = 0]

(* SparseSet::remove: the last entry takes the place of the removed one,   *)
(* and its index leads there.                                              *)
LEMMA AgreeWithout ==
  ASSUME NEW positions \in [Index -> Nat], NEW entries \in Seq(Handle),
         NEW values \in Seq(Handle), Agree(positions, entries, values),
         NEW i \in Index, positions[i] # 0,
         NEW last, last = entries[Len(entries)].index
  PROVE  /\ positions[i] \in 1 .. Len(entries)
         /\ Agree(Refilled(positions, last, i),
                  SwapRemove(entries, positions[i]), SwapRemove(values, positions[i]))
         /\ Refilled(positions, last, i) \in [Index -> Nat]
         /\ \A k \in 1 .. Len(SwapRemove(entries, positions[i])) :
              \E m \in 1 .. Len(entries) :
                SwapRemove(entries, positions[i])[k] = entries[m] /\ entries[m].index # i
<1>1. PICK p, l : p = positions[i] /\ l = Len(entries)
  OBVIOUS
<1>2. p \in 1 .. l /\ l \in Nat /\ l \in 1 .. l /\ entries[p].index = i
  BY <1>1 DEF Agree
<1>3. \A k \in 1 .. l : entries[k].index \in Index /\ positions[entries[k].index] = k
  BY <1>1, EntityFields, HandleEntity DEF Agree
<1>4. last \in Index /\ positions[last] = l
  BY <1>1, <1>2, <1>3
<1>5. PICK now : now = Refilled(positions, last, i)
  OBVIOUS
<1>6. /\ now \in [Index -> Nat]
      /\ now[i] = 0
      /\ \A j \in Index : j # i => now[j] = IF j = last THEN p ELSE positions[j]
  BY <1>1, <1>2, <1>4, <1>5 DEF Refilled
<1>7. PICK rest, restValues : rest = SwapRemove(entries, p) /\ restValues = SwapRemove(values, p)
  OBVIOUS
<1>8. /\ Len(rest) = l - 1 /\ Len(restValues) = l - 1
      /\ \A k \in 1 .. l - 1 : rest[k] = IF k = p THEN entries[l] ELSE entries[k]
  <2>1. Len(values) = l /\ p \in 1 .. Len(values) /\ p \in 1 .. Len(entries)
    BY <1>1, <1>2 DEF Agree
  <2>2. /\ Len(rest) = Len(entries) - 1
        /\ \A k \in 1 .. Len(entries) - 1 :
             rest[k] = IF k = p THEN entries[Len(entries)] ELSE entries[k]
    BY <1>7, <2>1, SwapRemoveProperties
  <2>3. Len(restValues) = Len(values) - 1
    BY <1>7, <2>1, SwapRemoveProperties
  <2>4. QED
    BY <1>1, <2>1, <2>2, <2>3
<1>9. \A k \in 1 .. l - 1 :
        \E m \in 1 .. l : m # p /\ rest[k] = entries[m] /\ now[entries[m].index] = k
  <2> TAKE k \in 1 .. l - 1
  <2>1. CASE k = p
    <3>1. l # p /\ last = entries[l].index
      BY <1>1, <1>2, <2>1
    <3>2. last # i
      BY <1>1, <1>4, <3>1
    <3>3. QED
      BY <1>2, <1>4, <1>6, <1>8, <2>1, <3>1, <3>2
  <2>2. CASE k # p
    <3>1. k \in 1 .. l /\ k # l
      BY <1>2
    <3>2. entries[k].index # last /\ entries[k].index # i
      BY <1>1, <1>3, <1>4, <2>2, <3>1
    <3>3. QED
      BY <1>3, <1>6, <1>8, <2>2, <3>1, <3>2
  <2>3. QED
    BY <2>1, <2>2
<1>10. ASSUME NEW j \in Index, now[j] # 0
       PROVE  now[j] \in 1 .. l - 1 /\ rest[now[j]].index = j
  <2>1. j # i
    BY <1>6, <1>10
  <2>2. CASE j = last
    <3>1. p # l
      BY <1>1, <1>2, <2>1, <2>2
    <3>2. p \in 1 .. l - 1
      BY <1>2, <3>1
    <3>3. QED
      BY <1>1, <1>6, <1>8, <2>1, <2>2, <3>2
  <2>3. CASE j # last
    <3>1. now[j] = positions[j] /\ positions[j] # 0
      BY <1>6, <1>10, <2>1, <2>3
    <3>2. positions[j] \in 1 .. l /\ entries[positions[j]].index = j
      BY <1>1, <3>1 DEF Agree
    <3>3. positions[j] # l /\ positions[j] # p
      BY <1>1, <1>2, <2>1, <2>3, <3>2
    <3>4. positions[j] \in 1 .. l - 1
      BY <1>2, <3>2, <3>3
    <3>5. QED
      BY <1>8, <3>1, <3>2, <3>3, <3>4
  <2>4. QED
    BY <2>2, <2>3
<1>11. Agree(now, rest, restValues)
  BY <1>8, <1>9, <1>10 DEF Agree
<1>12. \A k \in 1 .. Len(rest) :
         \E m \in 1 .. Len(entries) : rest[k] = entries[m] /\ entries[m].index # i
  <2>1. \A m \in 1 .. l : m # p => entries[m].index # i
    BY <1>1, <1>3
  <2>2. QED
    BY SMTT(30), <1>1, <1>8, <1>9, <2>1
<1>13. QED
  BY <1>1, <1>2, <1>5, <1>6, <1>7, <1>11, <1>12

(* SparseSet::insert of a new index.                                       *)
LEMMA AgreeWith ==
  ASSUME NEW positions \in [Index -> Nat], NEW entries \in Seq(Handle),
         NEW values \in Seq(Handle), Agree(positions, entries, values),
         NEW e \in Handle, positions[e.index] = 0, NEW value
  PROVE  Agree([positions EXCEPT ![e.index] = Len(entries) + 1],
               Append(entries, e), Append(values, value))
<1>1. e.index \in Index
  BY EntityFields, HandleEntity
<1>2. PICK l : l = Len(entries)
  OBVIOUS
<1>3. PICK more, moreValues : more = Append(entries, e) /\ moreValues = Append(values, value)
  OBVIOUS
<1>4. /\ l \in Nat /\ Len(more) = l + 1 /\ Len(moreValues) = l + 1
      /\ more[l + 1] = e
      /\ \A k \in 1 .. l : more[k] = entries[k]
  BY <1>2, <1>3 DEF Agree
<1>5. PICK now : now = [positions EXCEPT ![e.index] = l + 1]
  OBVIOUS
<1>6. \A j \in Index : now[j] = IF j = e.index THEN l + 1 ELSE positions[j]
  BY <1>1, <1>5
<1>7. \A k \in 1 .. l : entries[k].index \in Index /\ positions[entries[k].index] = k
  BY <1>2, EntityFields, HandleEntity DEF Agree
<1>8. ASSUME NEW k \in 1 .. l + 1 PROVE now[more[k].index] = k
  <2>1. CASE k = l + 1
    BY <1>1, <1>4, <1>6, <2>1
  <2>2. CASE k \in 1 .. l
    <3>1. entries[k].index # e.index
      BY <1>7, <2>2
    <3>2. QED
      BY <1>4, <1>6, <1>7, <2>2, <3>1
  <2>3. QED
    BY <1>4, <2>1, <2>2
<1>9. ASSUME NEW j \in Index, now[j] # 0
      PROVE  now[j] \in 1 .. l + 1 /\ more[now[j]].index = j
  <2>1. CASE j = e.index
    BY <1>4, <1>6, <2>1
  <2>2. CASE j # e.index
    <3>1. now[j] = positions[j] /\ positions[j] \in 1 .. l /\ entries[positions[j]].index = j
      BY <1>2, <1>6, <1>9, <2>2 DEF Agree
    <3>2. QED
      BY <1>4, <3>1
  <2>3. QED
    BY <2>1, <2>2
<1>10. QED
  BY <1>2, <1>3, <1>4, <1>5, <1>8, <1>9 DEF Agree

-----------------------------------------------------------------------------
(* The sparse sets of the world.                                           *)

(* A removal by index keeps the sets, and leaves no entry of the index in  *)
(* the types it was made for.                                              *)
LEMMA RemoveKeepsSparse ==
  ASSUME SparseInv, NEW i \in Index, NEW types \in SUBSET SparseComponent, SparseRemove(types, i)
  PROVE  /\ SparseInv'
         /\ \A c \in SparseComponent : \A k \in 1 .. Len(dense'[c]) :
              \E m \in 1 .. Len(dense[c]) :
                /\ dense'[c][k] = dense[c][m]
                /\ c \in types => dense[c][m].index # i
<1>1. /\ sparse' = [c \in SparseComponent |->
                      IF c \in types /\ sparse[c][i] # 0
                      THEN PositionsWithout(sparse[c], c, i) ELSE sparse[c]]
      /\ dense' = [c \in SparseComponent |->
                     IF c \in types /\ sparse[c][i] # 0
                     THEN SwapRemove(dense[c], sparse[c][i]) ELSE dense[c]]
      /\ sparseComponents' = [c \in SparseComponent |->
                                IF c \in types /\ sparse[c][i] # 0
                                THEN SwapRemove(sparseComponents[c], sparse[c][i])
                                ELSE sparseComponents[c]]
  BY DEF SparseRemove
<1>2. ASSUME NEW c \in SparseComponent
      PROVE  /\ sparse'[c] \in [Index -> Nat]
             /\ dense'[c] \in Seq(Handle)
             /\ sparseComponents'[c] \in Seq(Handle)
             /\ Agree(sparse'[c], dense'[c], sparseComponents'[c])
             /\ \A k \in 1 .. Len(dense'[c]) : \E m \in 1 .. Len(dense[c]) :
                  /\ dense'[c][k] = dense[c][m]
                  /\ c \in types => dense[c][m].index # i
  <2>1. /\ sparse[c] \in [Index -> Nat]
        /\ dense[c] \in Seq(Handle)
        /\ sparseComponents[c] \in Seq(Handle)
        /\ Agree(sparse[c], dense[c], sparseComponents[c])
    BY DEF SparseInv
  <2>2. CASE c \in types /\ sparse[c][i] # 0
    <3>1. PICK last : last = dense[c][Len(dense[c])].index
      OBVIOUS
    <3>2. /\ sparse'[c] = Refilled(sparse[c], last, i)
          /\ dense'[c] = SwapRemove(dense[c], sparse[c][i])
          /\ sparseComponents'[c] = SwapRemove(sparseComponents[c], sparse[c][i])
      BY <1>1, <2>2, <3>1 DEF PositionsWithout, Refilled
    <3>3. /\ sparse[c][i] \in 1 .. Len(dense[c])
          /\ Agree(sparse'[c], dense'[c], sparseComponents'[c])
          /\ sparse'[c] \in [Index -> Nat]
          /\ \A k \in 1 .. Len(dense'[c]) : \E m \in 1 .. Len(dense[c]) :
               dense'[c][k] = dense[c][m] /\ dense[c][m].index # i
      <4>1. PICK p, d, v : p = sparse[c] /\ d = dense[c] /\ v = sparseComponents[c]
        OBVIOUS
      <4>2. /\ p \in [Index -> Nat] /\ d \in Seq(Handle) /\ v \in Seq(Handle)
            /\ Agree(p, d, v) /\ p[i] # 0 /\ last = d[Len(d)].index
        BY <2>1, <2>2, <3>1, <4>1
      <4>3. /\ p[i] \in 1 .. Len(d)
            /\ Agree(Refilled(p, last, i), SwapRemove(d, p[i]), SwapRemove(v, p[i]))
            /\ Refilled(p, last, i) \in [Index -> Nat]
            /\ \A k \in 1 .. Len(SwapRemove(d, p[i])) : \E m \in 1 .. Len(d) :
                 SwapRemove(d, p[i])[k] = d[m] /\ d[m].index # i
        BY ONLY SMTT(30), <4>2, i \in Index, AgreeWithout
      <4>4. QED
        BY <3>2, <4>1, <4>3
    <3>4. dense'[c] \in Seq(Handle) /\ sparseComponents'[c] \in Seq(Handle)
      BY <2>1, <3>2, <3>3, SwapRemoveProperties DEF Agree
    <3>5. QED
      BY <3>3, <3>4
  <2>3. CASE ~ (c \in types /\ sparse[c][i] # 0)
    <3>1. /\ sparse'[c] = sparse[c] /\ dense'[c] = dense[c]
          /\ sparseComponents'[c] = sparseComponents[c]
      BY <1>1, <2>3
    <3>2. \A k \in 1 .. Len(dense[c]) : c \in types => dense[c][k].index # i
      BY <2>1, <2>3 DEF Agree
    <3>3. QED
      BY <2>1, <3>1, <3>2
  <2>4. QED
    BY <2>2, <2>3
<1>3. /\ sparse' \in [SparseComponent -> [Index -> Nat]]
      /\ dense' \in [SparseComponent -> Seq(Handle)]
      /\ sparseComponents' \in [SparseComponent -> Seq(Handle)]
  BY <1>1, <1>2
<1>4. SparseInv'
  BY <1>2, <1>3 DEF SparseInv
<1>5. QED
  BY <1>2, <1>4

(* An insertion keeps the sets; its entry is new or was there.             *)
LEMMA InsertKeepsSparse ==
  ASSUME SparseInv, NEW c \in SparseComponent, NEW e \in Handle, SparseInsert(c, e, e)
  PROVE  /\ SparseInv'
         /\ \A x \in SparseComponent : \A k \in 1 .. Len(dense'[x]) :
              \/ dense'[x][k] = e
              \/ k \in 1 .. Len(dense[x]) /\ dense'[x][k] = dense[x][k]
<1>1. e.index \in Index
  BY EntityFields, HandleEntity
<1>2. /\ sparse[c] \in [Index -> Nat] /\ dense[c] \in Seq(Handle)
      /\ sparseComponents[c] \in Seq(Handle)
      /\ Agree(sparse[c], dense[c], sparseComponents[c])
  BY DEF SparseInv
<1>3. CASE SparseContains(c, e)
  <2>1. /\ sparse' = sparse /\ dense' = dense
        /\ sparseComponents' = [sparseComponents EXCEPT ![c][sparse[c][e.index]] = e]
    BY <1>3 DEF SparseInsert
  <2>2. sparse[c][e.index] \in 1 .. Len(sparseComponents[c])
    BY <1>1, <1>2, <1>3 DEF SparseContains, Agree
  <2>3. PICK now : now = [sparseComponents[c] EXCEPT ![sparse[c][e.index]] = e]
    OBVIOUS
  <2>4. now \in Seq(Handle) /\ Len(now) = Len(sparseComponents[c])
    BY <1>2, <2>2, <2>3
  <2>5. sparseComponents' = [sparseComponents EXCEPT ![c] = now]
    BY <2>1, <2>3
  <2>6. sparseComponents' \in [SparseComponent -> Seq(Handle)]
    BY <2>4, <2>5 DEF SparseInv
  <2>7. \A x \in SparseComponent : Len(sparseComponents'[x]) = Len(sparseComponents[x])
    BY <2>4, <2>5 DEF SparseInv
  <2>8. QED
    BY <2>1, <2>6, <2>7 DEF SparseInv, Agree
<1>4. CASE ~ SparseContains(c, e)
  <2>1. PICK positions, entries, values :
          /\ positions = [sparse[c] EXCEPT ![e.index] = Len(dense[c]) + 1]
          /\ entries = Append(dense[c], e)
          /\ values = Append(sparseComponents[c], e)
    OBVIOUS
  <2>2. /\ sparse' = [sparse EXCEPT ![c] = positions]
        /\ dense' = [dense EXCEPT ![c] = entries]
        /\ sparseComponents' = [sparseComponents EXCEPT ![c] = values]
    BY <1>4, <2>1 DEF SparseInsert
  <2>3. Agree(positions, entries, values)
    BY <1>2, <1>4, <2>1, AgreeWith DEF SparseContains
  <2>4. /\ positions \in [Index -> Nat]
        /\ entries \in Seq(Handle)
        /\ values \in Seq(Handle)
        /\ \A k \in 1 .. Len(entries) :
             entries[k] = e \/ (k \in 1 .. Len(dense[c]) /\ entries[k] = dense[c][k])
    BY <1>1, <1>2, <2>1
  <2>5. /\ sparse' \in [SparseComponent -> [Index -> Nat]]
        /\ dense' \in [SparseComponent -> Seq(Handle)]
        /\ sparseComponents' \in [SparseComponent -> Seq(Handle)]
        /\ \A x \in SparseComponent :
             IF x = c
             THEN sparse'[x] = positions /\ dense'[x] = entries /\ sparseComponents'[x] = values
             ELSE /\ sparse'[x] = sparse[x] /\ dense'[x] = dense[x]
                  /\ sparseComponents'[x] = sparseComponents[x]
    BY <2>2, <2>4 DEF SparseInv
  <2>6. \A x \in SparseComponent : Agree(sparse'[x], dense'[x], sparseComponents'[x])
    BY <2>3, <2>5 DEF SparseInv
  <2>7. SparseInv'
    BY <2>5, <2>6 DEF SparseInv
  <2>8. QED
    BY <2>4, <2>5, <2>7
<1>5. QED
  BY <1>3, <1>4

-----------------------------------------------------------------------------
(* What a call does to the archetype of each entity.                       *)

(* The types of the entity at index i: none when there is no entity.       *)
TypesAt(i) ==
  IF entityLocations[i] = NoLocation THEN {} ELSE archetypes[entityLocations[i].arch]

(* Index i gets an archetype of this set, or none; the others stay.        *)
Reshapes(i, id, set) ==
  /\ Repositions(i, id)
  /\ Len(archetypes) <= Len(archetypes')
  /\ \A a \in 1 .. Len(archetypes) : archetypes'[a] = archetypes[a]
  /\ id = 0 \/ (id \in 1 .. Len(archetypes') /\ archetypes'[id] = set)

(* Who keeps its types, and who gets which.                                *)
LEMMA ReshapesTypes ==
  ASSUME RowsInv, RowsInv', NEW i \in Index, NEW id, NEW set, Reshapes(i, id, set)
  PROVE  /\ \A j \in Index : j # i =>
              /\ TypesAt(j)' = TypesAt(j)
              /\ entityLocations'[j] = NoLocation <=> entityLocations[j] = NoLocation
         /\ id # 0 => entityLocations'[i] # NoLocation /\ TypesAt(i)' = set
<1>1. /\ \A j \in Index : entityLocations[j] \in Location
      /\ \A j \in Index : entityLocations'[j] \in Location
      /\ Len(archetypes) \in Nat /\ Len(archetypes') \in Nat
  BY DEF RowsInv, RowsType
<1>2. \A j \in Index : entityLocations[j] # NoLocation =>
        entityLocations[j].arch \in 1 .. Len(archetypes)
  BY DEF RowsInv, RowsMatch, Corresponds
<1>3. \A j \in Index : entityLocations'[j] # NoLocation =>
        entityLocations'[j].arch \in 1 .. Len(archetypes')
  BY DEF RowsInv, RowsMatch, Corresponds
<1>4. NoLocation.arch = 0
  BY DEF NoLocation
<1>5. ASSUME NEW j \in Index, j # i
      PROVE  /\ TypesAt(j)' = TypesAt(j)
             /\ entityLocations'[j] = NoLocation <=> entityLocations[j] = NoLocation
  <2>1. entityLocations'[j].arch = entityLocations[j].arch
    BY <1>5 DEF Reshapes, Repositions
  <2>2. entityLocations'[j] = NoLocation <=> entityLocations[j] = NoLocation
    BY <1>1, <1>2, <1>3, <1>4, <2>1
  <2>3. QED
    BY <1>2, <2>1, <2>2 DEF TypesAt, Reshapes
<1>6. ASSUME id # 0 PROVE entityLocations'[i] # NoLocation /\ TypesAt(i)' = set
  <2>1. entityLocations'[i].arch = id /\ archetypes'[id] = set
    BY <1>6 DEF Reshapes, Repositions
  <2>2. QED
    BY <1>4, <1>6, <2>1 DEF TypesAt
<1>7. QED
  BY <1>5, <1>6

(* A growing archetype table keeps its old entries.                        *)
LEMMA GrownReshapes ==
  ASSUME RowsType, NEW i, NEW id, NEW set \in SUBSET Component, Resolves(id, set),
         archetypes' = Grown(archetypes, id, set), Repositions(i, id)
  PROVE  Reshapes(i, id, set) /\ id # 0
<1>1. /\ Len(archetypes') = IF id \in 1 .. Len(archetypes)
                            THEN Len(archetypes) ELSE Len(archetypes) + 1
      /\ id \in 1 .. Len(archetypes')
      /\ archetypes'[id] = set
      /\ \A a \in 1 .. Len(archetypes) : archetypes'[a] = archetypes[a]
  BY GrownArchetypes
<1>2. Len(archetypes) \in Nat
  BY DEF RowsType
<1>3. QED
  BY <1>1, <1>2 DEF Reshapes

(* A spawn gives one free index an archetype.                              *)
LEMMA SpawnReshapes ==
  ASSUME RowsInv, SpawnEmpty \/ \E b \in Bundle : \E value : SpawnWith(b, value)
  PROVE  /\ \E i \in Index : \E id, set :
              /\ Reshapes(i, id, set)
              /\ id # 0
              /\ entityLocations[i] = NoLocation
         /\ UNCHANGED entityGenerations
<1>0. entityLocations \in [Index -> Location] /\ RowsType
  BY DEF RowsInv, RowsType
<1>1. CASE SpawnEmpty
  <2>1. PICK i \in Index :
          /\ Allocate(i)
          /\ entityLocations' = [entityLocations EXCEPT
               ![i] = [arch |-> EmptyArchetype,
                       row |-> Len(archetypeEntities[EmptyArchetype]) + 1]]
          /\ UNCHANGED archetypes
    BY <1>1 DEF SpawnEmpty
  <2>2. Repositions(i, EmptyArchetype)
    BY <1>0, <2>1 DEF Repositions
  <2>3. Reshapes(i, EmptyArchetype, {}) /\ EmptyArchetype # 0
    BY <1>0, <2>1, <2>2 DEF Reshapes, RowsType, EmptyArchetype
  <2>4. entityLocations[i] = NoLocation /\ UNCHANGED entityGenerations
    BY <2>1, AllocatedIndex DEF RowsInv, Allocate
  <2>5. QED
    BY <2>3, <2>4
<1>2. ASSUME NEW b \in Bundle, NEW value, SpawnWith(b, value)
      PROVE  /\ \E i \in Index : \E id, set :
                  /\ Reshapes(i, id, set)
                  /\ id # 0
                  /\ entityLocations[i] = NoLocation
             /\ UNCHANGED entityGenerations
  <2> DEFINE id == IF bundleArchetypes[b] # 0 THEN bundleArchetypes[b]
                   ELSE ArchetypeFor(Types(b))
             rows == Len(Grown(archetypeEntities, id, <<>>)[id])
  <2>1. PICK i \in Index :
          /\ Allocate(i)
          /\ archetypes' = Grown(archetypes, id, Types(b))
          /\ entityLocations' = [entityLocations EXCEPT ![i] = [arch |-> id, row |-> rows + 1]]
    BY <1>2 DEF SpawnWith
  <2>2. Resolves(id, Types(b))
    <3>1. CASE bundleArchetypes[b] # 0
      BY <3>1 DEF RowsInv, RowsType, ShortcutsResolve, Resolves
    <3>2. CASE bundleArchetypes[b] = 0
      BY <3>2, ArchetypeForResolves DEF RowsInv
    <3>3. QED
      BY <3>1, <3>2
  <2> HIDE DEF id, rows
  <2>3. Repositions(i, id)
    BY <1>0, <2>1 DEF Repositions
  <2>4. Reshapes(i, id, Types(b)) /\ id # 0
    BY <1>0, <2>1, <2>2, <2>3, BundleTypes, GrownReshapes
  <2>5. entityLocations[i] = NoLocation /\ UNCHANGED entityGenerations
    BY <2>1, AllocatedIndex DEF RowsInv, Allocate
  <2>6. QED
    BY <2>4, <2>5
<1>3. QED
  BY <1>1, <1>2

(* add_component takes no type away.                                       *)
LEMMA AddReshapes ==
  ASSUME RowsInv, NEW e \in Entity, NEW c \in Component, NEW v, AddComponent(e, c, v)
  PROVE  /\ \E id : \E set :
              /\ Reshapes(e.index, id, set)
              /\ id # 0
              /\ TypesAt(e.index) \subseteq set
         /\ UNCHANGED entityGenerations
<1> DEFINE at == LocationOf(e)
<1>1. IsAlive(e)
  BY DEF AddComponent, IsAlive
<1>2. /\ e.index \in Index
      /\ entityLocations[e.index].arch = at.arch
      /\ at.arch \in 1 .. Len(archetypes)
      /\ RowsType /\ RowsMatch
      /\ Len(archetypes) \in Nat
      /\ archetypes[at.arch] \in SUBSET Component
  BY <1>1, LiveArchetype DEF RowsInv, RowsType
<1>3. TypesAt(e.index) = archetypes[at.arch]
  BY <1>1, <1>2, LocatedRow DEF TypesAt, IsAlive
<1>4. CASE Overwrite(at, c, v)
  <2>1. Reshapes(e.index, at.arch, archetypes[at.arch]) /\ UNCHANGED entityGenerations
    BY <1>2, <1>4 DEF Overwrite, Reshapes, Repositions, allocator
  <2>2. QED
    BY <1>2, <1>3, <2>1
<1>5. CASE at.arch = EmptyArchetype /\ AddFirst(e, at, c, v)
  <2> DEFINE id == IF singleComponentArchetypes[c] # 0 THEN singleComponentArchetypes[c]
                   ELSE ArchetypeFor({c})
             factories == IF singleComponentArchetypes[c] # 0 THEN columnFactories
                          ELSE columnFactories \cup {c}
             values == [x \in {c} |-> v]
  <2>1. MoveRow(e, at, id, {c}, factories, values) /\ UNCHANGED entityGenerations
    BY <1>5 DEF AddFirst, allocator
  <2>2. Resolves(id, {c})
    <3>1. CASE singleComponentArchetypes[c] # 0
      BY <3>1 DEF RowsInv, RowsType, ShortcutsResolve, Resolves
    <3>2. CASE singleComponentArchetypes[c] = 0
      BY <3>2, ArchetypeForResolves DEF RowsInv
    <3>3. QED
      BY <3>1, <3>2
  <2> HIDE DEF id, factories, values
  <2>3. Repositions(e.index, id) /\ archetypes' = Grown(archetypes, id, {c})
    BY <1>1, <1>2, <2>1, MoveRepositions DEF MoveRow
  <2>4. Reshapes(e.index, id, {c}) /\ id # 0
    BY <1>2, <2>2, <2>3, GrownReshapes
  <2>5. TypesAt(e.index) = {}
    BY <1>2, <1>3, <1>5 DEF RowsType
  <2>6. QED
    BY <2>1, <2>4, <2>5
<1>6. CASE AddAnother(e, at, c, v)
  <2> DEFINE set == archetypes[at.arch] \cup {c}
             id  == IF addTransitions[at.arch][c] # 0 THEN addTransitions[at.arch][c]
                    ELSE ArchetypeFor(set)
             factories == columnFactories \cup {c}
             values == [x \in DOMAIN RowValues(at) \cup {c} |->
                          IF x = c THEN v ELSE RowValues(at)[x]]
  <2>1. MoveRow(e, at, id, set, factories, values) /\ UNCHANGED entityGenerations
    BY <1>6 DEF AddAnother, allocator
  <2>2. Resolves(id, set)
    <3>1. CASE addTransitions[at.arch][c] # 0
      <4>1. DOMAIN archetypes = 1 .. Len(archetypes)
        BY <1>2 DEF RowsType
      <4>2. QED
        BY <1>2, <3>1, <4>1 DEF RowsInv, ShortcutsResolve, Resolves
    <3>2. CASE addTransitions[at.arch][c] = 0
      BY <1>2, <3>2, ArchetypeForResolves
    <3>3. QED
      BY <3>1, <3>2
  <2>3. set \in SUBSET Component /\ TypesAt(e.index) \subseteq set
    BY <1>2, <1>3
  <2> HIDE DEF id, factories, values, set
  <2>4. Repositions(e.index, id) /\ archetypes' = Grown(archetypes, id, set)
    BY <1>1, <1>2, <2>1, MoveRepositions DEF MoveRow
  <2>5. Reshapes(e.index, id, set) /\ id # 0
    BY <1>2, <2>2, <2>3, <2>4, GrownReshapes
  <2>6. QED
    BY <2>1, <2>3, <2>5
<1>7. QED
  BY <1>4, <1>5, <1>6 DEF AddComponent

(* remove_component takes the one type away.                               *)
LEMMA RemoveReshapes ==
  ASSUME RowsInv, NEW e \in Entity, NEW c \in Component, RemoveComponent(e, c)
  PROVE  /\ e.index \in Index
         /\ \E id : \E set :
              /\ Reshapes(e.index, id, set)
              /\ id # 0
              /\ set = TypesAt(e.index) \ {c}
         /\ UNCHANGED entityGenerations
<1> DEFINE at  == LocationOf(e)
           set == archetypes[at.arch] \ {c}
           id  == IF removeTransitions[at.arch][c] # 0 THEN removeTransitions[at.arch][c]
                  ELSE ArchetypeFor(set)
           values == RowValues(at)
<1>1. /\ IsAlive(e)
      /\ MoveRow(e, at, id, set, columnFactories, values)
      /\ UNCHANGED entityGenerations
  BY DEF RemoveComponent, IsAlive, allocator
<1>2. /\ e.index \in Index
      /\ entityLocations[e.index].arch = at.arch
      /\ at.arch \in 1 .. Len(archetypes)
      /\ RowsType /\ RowsMatch
      /\ archetypes[at.arch] \in SUBSET Component
  BY <1>1, LiveArchetype DEF RowsInv, RowsType
<1>3. Resolves(id, set)
  <2>1. CASE removeTransitions[at.arch][c] # 0
    <3>1. DOMAIN archetypes = 1 .. Len(archetypes)
      BY <1>2 DEF RowsType
    <3>2. QED
      BY <1>2, <2>1, <3>1 DEF RowsInv, ShortcutsResolve, Resolves
  <2>2. CASE removeTransitions[at.arch][c] = 0
    BY <1>2, <2>2, ArchetypeForResolves
  <2>3. QED
    BY <2>1, <2>2
<1>4. TypesAt(e.index) = archetypes[at.arch]
  BY <1>1, <1>2, LocatedRow DEF TypesAt, IsAlive
<1>5. set \in SUBSET Component /\ set = TypesAt(e.index) \ {c}
  BY <1>2, <1>4
<1> HIDE DEF id, values, set
<1>6. Repositions(e.index, id) /\ archetypes' = Grown(archetypes, id, set)
  BY <1>1, <1>2, MoveRepositions DEF MoveRow
<1>7. Reshapes(e.index, id, set) /\ id # 0
  BY <1>2, <1>3, <1>5, <1>6, GrownReshapes
<1>8. QED
  BY <1>1, <1>2, <1>5, <1>7

(* despawn takes all types and the life of one handle.                     *)
LEMMA DespawnReshapes ==
  ASSUME RowsInv, NEW e \in Handle, Despawn(e)
  PROVE  /\ e \in Live /\ e.index \in Index
         /\ Reshapes(e.index, 0, {})
         /\ \A j \in Index : j # e.index => entityGenerations'[j] = entityGenerations[j]
<1>1. Repositions(e.index, 0)
  BY DespawnRepositions DEF RowsInv
<1>2. archetypes' = archetypes /\ e \in Live /\ e.index \in Index
  BY EntityFields, HandleEntity DEF Despawn, Live, IsAlive
<1>3. entityGenerations' = [entityGenerations EXCEPT ![e.index] = @ + 1]
  BY DEF Despawn, Retire
<1>4. Reshapes(e.index, 0, {})
  BY <1>1, <1>2 DEF Reshapes, RowsInv, RowsType
<1>5. QED
  BY <1>2, <1>3, <1>4 DEF RowsInv, RowsType

-----------------------------------------------------------------------------
(* Disabled bits.                                                          *)

(* Disabled bits and types.                                                *)
LEMMA DisabledMeaning ==
  DisabledHaveComponent <=> \A c \in Component : \A i \in disabledComponents[c] : c \in TypesAt(i)
BY DEF DisabledHaveComponent, TypesAt

(* Disabled bits and types, after a step.                                  *)
LEMMA DisabledMeaningNext ==
  DisabledHaveComponent' <=>
    \A c \in Component : \A i \in disabledComponents'[c] : c \in TypesAt(i)'
BY DEF DisabledHaveComponent, TypesAt

(* Clearing bits, and taking from an entity no more than the cleared ones. *)
LEMMA ClearedKeepsDisabled ==
  ASSUME RowsInv, RowsInv', DisabledInv, NEW i \in Index, NEW id, NEW set,
         Reshapes(i, id, set), NEW types \in SUBSET ComponentType,
         disabledComponents' = BitCleared(types, i),
         id # 0 => TypesAt(i) \ types \subseteq set,
         id = 0 => Component \subseteq types
  PROVE  DisabledInv'
<1>1. /\ \A j \in Index : j # i => TypesAt(j)' = TypesAt(j)
      /\ id # 0 => TypesAt(i)' = set
  BY ReshapesTypes
<1>2. /\ disabledComponents' \in [ComponentType -> SUBSET Index]
      /\ \A c \in Component : \A j \in disabledComponents'[c] :
           j \in Index /\ j \in disabledComponents[c] /\ (c \in types => j # i)
  BY DEF BitCleared, DisabledInv, ComponentType
<1>3. \A c \in Component : \A j \in disabledComponents'[c] : c \in TypesAt(j)'
  <2> TAKE c \in Component
  <2> TAKE j \in disabledComponents'[c]
  <2>1. c \in TypesAt(j) /\ j \in Index /\ (c \in types => j # i)
    BY <1>2, DisabledMeaning DEF DisabledInv
  <2>2. CASE j # i
    BY <1>1, <2>1, <2>2
  <2>3. CASE j = i
    <3>1. id # 0 /\ c \in TypesAt(i) \ types
      BY <2>1, <2>3
    <3>2. QED
      BY <1>1, <2>3, <3>1
  <2>4. QED
    BY <2>2, <2>3
<1>4. QED
  BY <1>2, <1>3, DisabledMeaningNext DEF DisabledInv

(* A step that clears no bit, and leaves to every entity its types.        *)
LEMMA SameBitsKeepDisabled ==
  ASSUME RowsInv, RowsInv', DisabledInv, NEW i \in Index, NEW id, NEW set,
         Reshapes(i, id, set), id # 0, UNCHANGED disabledComponents,
         TypesAt(i) \subseteq set
  PROVE  DisabledInv'
<1>1. BitCleared({}, i) = disabledComponents
  BY DEF BitCleared, DisabledInv
<1>2. {} \in SUBSET ComponentType /\ TypesAt(i) \ {} \subseteq set
  OBVIOUS
<1>3. QED
  BY <1>1, <1>2, ClearedKeepsDisabled

(* Every call clears the bits of the types that it takes away.             *)
LEMMA OrdinaryKeepsDisabled ==
  ASSUME RowsInv, RowsInv', DisabledInv, program \in Program, OrdinaryCall
  PROVE  DisabledInv'
<1>1. program.components \subseteq Component
  BY DEF Program
<1>2. CASE /\ SpawnEmpty \/ \E b \in Bundle : \E value : SpawnWith(b, value)
           /\ UNCHANGED disabledComponents
  <2>1. PICK i \in Index : \E id, set :
          Reshapes(i, id, set) /\ id # 0 /\ entityLocations[i] = NoLocation
    BY <1>2, SpawnReshapes
  <2>2. TypesAt(i) = {}
    BY <2>1 DEF TypesAt
  <2>3. QED
    BY <1>2, <2>1, <2>2, SameBitsKeepDisabled
<1>3. ASSUME NEW e \in Handle, NEW c \in program.components, NEW v, AddComponent(e, c, v),
             UNCHANGED disabledComponents
      PROVE  DisabledInv'
  <2>1. e \in Entity /\ e.index \in Index /\ c \in Component
    BY <1>1, HandleEntity, EntityFields
  <2>2. PICK id : \E set : /\ Reshapes(e.index, id, set)
                           /\ id # 0
                           /\ TypesAt(e.index) \subseteq set
    BY <1>3, <2>1, AddReshapes
  <2>3. QED
    BY <1>3, <2>1, <2>2, SameBitsKeepDisabled
<1>4. ASSUME UNCHANGED <<entityLocations, archetypes, disabledComponents>>
      PROVE  DisabledInv'
  BY <1>4 DEF DisabledInv, DisabledHaveComponent
<1>5. ASSUME NEW c \in Component, RegisterComponentType(c), UNCHANGED disabledComponents
      PROVE  DisabledInv'
  BY <1>4, <1>5 DEF RegisterComponentType
<1>6. ASSUME NEW e \in Handle, DespawnEntity(e)
      PROVE  DisabledInv'
  <2>1. e.index \in Index /\ Reshapes(e.index, 0, {})
    BY <1>6, DespawnReshapes DEF DespawnEntity
  <2>2. disabledComponents' = BitCleared(ComponentType, e.index)
    BY <1>6 DEF DespawnEntity
  <2>3. Component \subseteq ComponentType
    BY DEF ComponentType
  <2>4. QED
    BY <2>1, <2>2, <2>3, ClearedKeepsDisabled
<1>7. ASSUME NEW e \in Handle, NEW c \in Component, RemoveStored(e, c)
      PROVE  DisabledInv'
  <2>1. e \in Entity
    BY HandleEntity
  <2>2. /\ e.index \in Index
        /\ \E id : \E set : /\ Reshapes(e.index, id, set)
                            /\ id # 0
                            /\ set = TypesAt(e.index) \ {c}
    BY <1>7, <2>1, RemoveReshapes DEF RemoveStored
  <2>3. disabledComponents' = BitCleared({c}, e.index) /\ {c} \in SUBSET ComponentType
    BY <1>7 DEF RemoveStored, ComponentType
  <2>4. QED
    BY <2>2, <2>3, ClearedKeepsDisabled
<1>8. CASE SparseStep
  BY <1>4, <1>8 DEF SparseStep, AddSparse, WriteSparse, RemoveSparse, vars, storage
<1>9. ASSUME NEW e \in Handle, NEW c \in ComponentType, DisableComponent(e, c)
      PROVE  DisabledInv'
  <2>1. e.index \in Index /\ UNCHANGED <<entityLocations, archetypes>>
    BY <1>9, HandleEntity, EntityFields DEF DisableComponent, vars, storage
  <2>2. /\ disabledComponents' \in [ComponentType -> SUBSET Index]
        /\ \A x \in Component : \A i \in disabledComponents'[x] :
             i \in disabledComponents[x] \/ (x = c /\ i = e.index)
    BY <1>9, <2>1 DEF DisableComponent, DisabledInv, ComponentType
  <2>3. ASSUME c \in Component PROVE c \in TypesAt(e.index)
    <3>1. c \notin SparseComponent
      BY <2>3, SparseAssumption
    <3>2. IsAlive(e) /\ c \in archetypes[LocationOf(e).arch]
      BY <1>9, <3>1 DEF DisableComponent, HasComponent
    <3>3. QED
      BY <3>2 DEF IsAlive, LocationOf, TypesAt
  <2>4. \A x \in Component : \A i \in disabledComponents'[x] : x \in TypesAt(i)
    BY <2>2, <2>3, DisabledMeaning DEF DisabledInv
  <2>5. \A i : TypesAt(i)' = TypesAt(i)
    BY <2>1 DEF TypesAt
  <2>6. QED
    BY <2>2, <2>4, <2>5, DisabledMeaningNext DEF DisabledInv
<1>10. ASSUME NEW e \in Handle, NEW c \in ComponentType, EnableComponent(e, c)
       PROVE  DisabledInv'
  <2>1. e.index \in Index /\ UNCHANGED <<entityLocations, archetypes>>
    BY <1>10, HandleEntity, EntityFields DEF EnableComponent, vars, storage
  <2>2. /\ disabledComponents' \in [ComponentType -> SUBSET Index]
        /\ \A x \in Component : disabledComponents'[x] \subseteq disabledComponents[x]
    BY <1>10 DEF EnableComponent, BitCleared, DisabledInv, ComponentType
  <2>3. QED
    BY <2>1, <2>2 DEF DisabledInv, DisabledHaveComponent
<1>11. CASE SparseStep \/ ToggleStep
  BY <1>8, <1>9, <1>10, <1>11 DEF ToggleStep
<1>12. QED
  BY <1>1, <1>2, <1>3, <1>5, <1>6, <1>7, <1>11 DEF OrdinaryCall

(* Loading and starting over drop every bit.                               *)
LEMMA StepKeepsDisabled ==
  ASSUME StoreInv, StoreInv', program \in Program, DisabledInv, [SnapshotNext]_snapshotVars
  PROVE  DisabledInv'
<1>1. CASE OrdinaryStep
  BY <1>1, OrdinaryIsCall, OrdinaryKeepsDisabled DEF StoreInv
<1>2. CASE SaveState \/ UNCHANGED snapshotVars
  BY <1>2 DEF SaveState, snapshotVars, extraVars, vars, storage, DisabledInv, DisabledHaveComponent
<1>3. CASE LoadState \/ NewWorld
  <2>1. disabledComponents' = NoneDisabled
    BY <1>3 DEF LoadState, NewWorld, ForgetDisabled
  <2>2. QED
    BY <2>1 DEF DisabledInv, DisabledHaveComponent, NoneDisabled, ComponentType
<1>4. QED
  BY <1>1, <1>2, <1>3 DEF SnapshotNext

(* A disabled bit of a stored component belongs to a live entity that has  *)
(* it: despawn and remove_component clear the bits of what they take, so   *)
(* no entity that reuses an index starts with a component disabled.        *)
THEOREM DisabledTheorem == SnapshotSpec => []DisabledHaveComponent
<1>1. SnapshotInit => DisabledInv
  BY DEF SnapshotInit, ExtraInit, DisabledInv, DisabledHaveComponent, NoneDisabled, ComponentType
<1>2. /\ StoreInv /\ SavedInv /\ (StoreInv /\ SavedInv)'
      /\ DisabledInv /\ [SnapshotNext]_snapshotVars
      => DisabledInv'
  BY StepKeepsDisabled DEF SavedInv
<1>3. DisabledInv => DisabledHaveComponent
  BY DEF DisabledInv
<1>4. QED
  BY <1>1, <1>2, <1>3, StoreInvariant, PTL DEF SnapshotSpec

-----------------------------------------------------------------------------
(* Owners of sparse components.                                            *)

(* Every step keeps the two directions of the sparse sets.                 *)
LEMMA StepKeepsSparse ==
  ASSUME SparseInv, [SnapshotNext]_snapshotVars
  PROVE  SparseInv'
<1>1. ASSUME UNCHANGED sparseVars PROVE SparseInv'
  BY <1>1 DEF sparseVars, SparseInv
<1>2. ASSUME NEW e \in Handle, DespawnEntity(e) PROVE SparseInv'
  BY <1>2, RemoveKeepsSparse, HandleEntity, EntityFields DEF DespawnEntity
<1>3. ASSUME NEW e \in Handle, NEW c \in SparseComponent, RemoveSparse(e, c) PROVE SparseInv'
  <2>1. {c} \in SUBSET SparseComponent /\ SparseRemove({c}, e.index) /\ e.index \in Index
    BY <1>3, HandleEntity, EntityFields DEF RemoveSparse
  <2>2. QED
    BY <2>1, RemoveKeepsSparse
<1>4. ASSUME NEW e \in Handle, NEW c \in SparseComponent, AddSparse(e, c) PROVE SparseInv'
  BY <1>4, InsertKeepsSparse DEF AddSparse
<1>5. ASSUME NEW e \in Handle, NEW c \in SparseComponent, WriteSparse(e, c) PROVE SparseInv'
  <2>1. SparseInsert(c, e, e)
    BY <1>5 DEF WriteSparse, SparseInsert
  <2>2. QED
    BY <2>1, InsertKeepsSparse
<1>6. CASE NewWorld
  <2>1. sparse' = EmptySparse /\ dense' = NothingDense /\ sparseComponents' = NothingDense
    BY <1>6 DEF NewWorld
  <2>2. QED
    BY <2>1 DEF SparseInv, EmptySparse, NothingDense, Agree
<1>7. ASSUME NEW e \in Handle, NEW c \in Component, RemoveStored(e, c) PROVE SparseInv'
  BY <1>1, <1>7 DEF RemoveStored
<1>8. CASE ToggleStep
  BY <1>1, <1>8 DEF ToggleStep, DisableComponent, EnableComponent
<1>9. CASE OrdinaryStep
  BY <1>1, <1>2, <1>3, <1>4, <1>5, <1>7, <1>8, <1>9, OrdinaryIsCall DEF OrdinaryCall, SparseStep
<1>10. CASE SaveState \/ LoadState \/ UNCHANGED snapshotVars
  BY <1>1, <1>10 DEF SaveState, LoadState, snapshotVars, extraVars
<1>11. QED
  BY <1>6, <1>9, <1>10 DEF SnapshotNext

(* The sparse sets are in order, always.                                   *)
LEMMA SparseInvariant == SnapshotSpec => []SparseInv
<1>1. SnapshotInit => SparseInv
  BY DEF SnapshotInit, ExtraInit, SparseInv, EmptySparse, NothingDense, Agree
<1>2. SparseInv /\ [SnapshotNext]_snapshotVars => SparseInv'
  BY StepKeepsSparse
<1>3. QED
  BY <1>1, <1>2, PTL DEF SnapshotSpec

(* The two directions of every sparse set agree, after any sequence of     *)
(* insertions, removals by swap-remove and clean-ups of despawned indices. *)
THEOREM SparseSetsTheorem == SnapshotSpec => []SparseSetsAgree
<1>1. ASSUME SparseInv PROVE SparseSetsAgree
  <2>1. \A c \in SparseComponent : DOMAIN dense[c] = 1 .. Len(dense[c])
    BY <1>1 DEF SparseInv
  <2>2. QED
    BY <1>1, <2>1 DEF SparseInv, Agree, SparseSetsAgree
<1>2. SparseInv => SparseSetsAgree
  BY <1>1
<1>3. QED
  BY <1>2, SparseInvariant, PTL

(* Only a despawn of the entity ends a life.                               *)
LEMMA OrdinaryKeepsAlive ==
  ASSUME RowsInv, RowsInv', program \in Program, OrdinaryCall,
         NEW f \in Live, \A e \in Handle : DespawnEntity(e) => f.index # e.index
  PROVE  f \in Live'
<1>0. /\ program.components \subseteq Component
      /\ f \in Handle /\ f.index \in Index
      /\ entityGenerations[f.index] = f.generation /\ entityLocations[f.index] # NoLocation
  BY LiveMeaning, HandleEntity, EntityFields DEF Program, Live
<1>1. ASSUME NEW i \in Index, NEW id, NEW set, Reshapes(i, id, set),
             id # 0 \/ i # f.index, entityGenerations'[f.index] = entityGenerations[f.index]
      PROVE  f \in Live'
  <2>1. entityLocations'[f.index] # NoLocation
    BY <1>0, <1>1, ReshapesTypes
  <2>2. QED
    BY <1>0, <1>1, <2>1, LiveMeaningNext
<1>2. CASE SpawnEmpty \/ \E b \in Bundle : \E value : SpawnWith(b, value)
  <2>1. /\ \E i \in Index : \E id, set : Reshapes(i, id, set) /\ id # 0
        /\ UNCHANGED entityGenerations
    BY <1>2, SpawnReshapes
  <2>2. QED
    BY <1>1, <2>1
<1>3. ASSUME NEW e \in Handle, NEW c \in program.components, NEW v, AddComponent(e, c, v)
      PROVE  f \in Live'
  <2>1. e \in Entity /\ e.index \in Index /\ c \in Component
    BY <1>0, HandleEntity, EntityFields
  <2>2. /\ \E id : \E set : Reshapes(e.index, id, set) /\ id # 0
        /\ UNCHANGED entityGenerations
    BY <1>3, <2>1, AddReshapes
  <2>3. QED
    BY <1>1, <2>1, <2>2
<1>4. ASSUME UNCHANGED <<entityLocations, entityGenerations>>
      PROVE  f \in Live'
  BY <1>0, <1>4, LiveMeaningNext
<1>5. ASSUME NEW c \in Component, RegisterComponentType(c)
      PROVE  f \in Live'
  BY <1>4, <1>5 DEF RegisterComponentType, allocator
<1>6. ASSUME NEW e \in Handle, DespawnEntity(e)
      PROVE  f \in Live'
  <2>1. /\ e.index \in Index /\ Reshapes(e.index, 0, {})
        /\ \A j \in Index : j # e.index => entityGenerations'[j] = entityGenerations[j]
    BY <1>6, DespawnReshapes DEF DespawnEntity
  <2>2. f.index # e.index
    BY <1>6
  <2>3. QED
    BY <1>0, <1>1, <2>1, <2>2
<1>7. ASSUME NEW e \in Handle, NEW c \in Component, RemoveStored(e, c)
      PROVE  f \in Live'
  <2>1. e \in Entity
    BY HandleEntity
  <2>2. /\ e.index \in Index
        /\ \E id : \E set : Reshapes(e.index, id, set) /\ id # 0
        /\ UNCHANGED entityGenerations
    BY <1>7, <2>1, RemoveReshapes DEF RemoveStored
  <2>3. QED
    BY <1>1, <2>2
<1>8. CASE SparseStep \/ ToggleStep
  BY <1>4, <1>8 DEF SparseStep, AddSparse, WriteSparse, RemoveSparse,
                    ToggleStep, DisableComponent, EnableComponent, vars, allocator
<1>9. QED
  BY <1>0, <1>2, <1>3, <1>5, <1>6, <1>7, <1>8 DEF OrdinaryCall

OwnersLive == \A c \in SparseComponent : \A k \in 1 .. Len(dense[c]) : dense[c][k] \in Live

(* The owners of sparse components are live handles.                       *)
LEMMA OwnersMeaning == SparseInv => (SparseOwnersLive <=> OwnersLive)
<1> SUFFICES ASSUME SparseInv PROVE SparseOwnersLive <=> OwnersLive
  OBVIOUS
<1>1. \A c \in SparseComponent : dense[c] \in Seq(Handle) /\ DOMAIN dense[c] = 1 .. Len(dense[c])
  BY DEF SparseInv
<1>2. \A c \in SparseComponent : \A k \in 1 .. Len(dense[c]) : dense[c][k] \in Handle
  BY <1>1
<1>3. QED
  BY <1>1, <1>2 DEF SparseOwnersLive, OwnersLive, Live

(* The owners of sparse components, after a step.                          *)
LEMMA OwnersMeaningNext == SparseInv' => (SparseOwnersLive' <=> OwnersLive')
BY OwnersMeaning, PTL

(* despawn takes the entries of the index, no other call ends a life.      *)
LEMMA OwnersStep ==
  ASSUME RowsInv, RowsInv', program \in Program, SparseInv, SparseInv',
         SparseOwnersLive, OrdinaryCall
  PROVE  SparseOwnersLive'
<1>1. \A c \in SparseComponent : \A k \in 1 .. Len(dense[c]) : dense[c][k] \in Live
  BY OwnersMeaning DEF OwnersLive
<1>2. SUFFICES \A c \in SparseComponent : \A k \in 1 .. Len(dense'[c]) : dense'[c][k] \in Live'
  BY OwnersMeaningNext DEF OwnersLive
<1>3. CASE \E e \in Handle : DespawnEntity(e)
  <2>1. PICK e \in Handle : DespawnEntity(e)
    BY <1>3
  <2>2. SparseRemove(SparseComponent, e.index) /\ e.index \in Index /\ Despawn(e)
    BY <2>1, HandleEntity, EntityFields DEF DespawnEntity
  <2>3. \A c \in SparseComponent : \A k \in 1 .. Len(dense'[c]) :
          \E m \in 1 .. Len(dense[c]) :
            dense'[c][k] = dense[c][m] /\ dense[c][m].index # e.index
    <3>1. PICK types : types = SparseComponent
      OBVIOUS
    <3>2. types \in SUBSET SparseComponent /\ SparseRemove(types, e.index)
      BY <2>2, <3>1
    <3>3. \A c \in SparseComponent : \A k \in 1 .. Len(dense'[c]) :
            \E m \in 1 .. Len(dense[c]) :
              /\ dense'[c][k] = dense[c][m]
              /\ c \in types => dense[c][m].index # e.index
      BY <2>2, <3>2, RemoveKeepsSparse
    <3>4. QED
      BY <3>1, <3>3
  <2>4. \A f \in Live : f.index # e.index => f \in Live'
    <3>1. SUFFICES ASSUME NEW f \in Live, f.index # e.index PROVE f \in Live'
      OBVIOUS
    <3>2. /\ Reshapes(e.index, 0, {})
          /\ \A j \in Index : j # e.index => entityGenerations'[j] = entityGenerations[j]
      BY <2>2, DespawnReshapes
    <3>3. /\ f \in Handle /\ f.index \in Index
          /\ entityGenerations[f.index] = f.generation /\ entityLocations[f.index] # NoLocation
      BY LiveMeaning, HandleEntity, EntityFields DEF Live
    <3>4. entityLocations'[f.index] # NoLocation
      BY <2>2, <3>1, <3>2, <3>3, ReshapesTypes
    <3>5. QED
      BY <3>1, <3>2, <3>3, <3>4, LiveMeaningNext
  <2>5. QED
    BY <1>1, <2>3, <2>4
<1>4. CASE ~ \E e \in Handle : DespawnEntity(e)
  <2>1. \A f \in Live : f \in Live'
    BY <1>4, OrdinaryKeepsAlive
  <2>2. ASSUME UNCHANGED dense
        PROVE  \A c \in SparseComponent : \A k \in 1 .. Len(dense'[c]) : dense'[c][k] \in Live'
    BY <1>1, <2>1, <2>2
  <2>3. ASSUME NEW e \in Handle, NEW c \in SparseComponent, AddSparse(e, c)
        PROVE  \A x \in SparseComponent : \A k \in 1 .. Len(dense'[x]) : dense'[x][k] \in Live'
    <3>1. e \in Live
      BY <2>3 DEF AddSparse, Live
    <3>2. \A x \in SparseComponent : \A k \in 1 .. Len(dense'[x]) :
            \/ dense'[x][k] = e
            \/ k \in 1 .. Len(dense[x]) /\ dense'[x][k] = dense[x][k]
      BY <2>3, InsertKeepsSparse DEF AddSparse
    <3>3. QED
      BY <1>1, <2>1, <3>1, <3>2
  <2>4. ASSUME NEW e \in Handle, NEW c \in SparseComponent, RemoveSparse(e, c)
        PROVE  \A x \in SparseComponent : \A k \in 1 .. Len(dense'[x]) : dense'[x][k] \in Live'
    <3>1. {c} \in SUBSET SparseComponent /\ SparseRemove({c}, e.index) /\ e.index \in Index
      BY <2>4, HandleEntity, EntityFields DEF RemoveSparse
    <3>2. \A x \in SparseComponent : \A k \in 1 .. Len(dense'[x]) :
            \E m \in 1 .. Len(dense[x]) : dense'[x][k] = dense[x][m]
      BY <3>1, RemoveKeepsSparse
    <3>3. QED
      BY <1>1, <2>1, <3>2
  <2>5. \/ UNCHANGED dense
        \/ \E e \in Handle, c \in SparseComponent : AddSparse(e, c) \/ RemoveSparse(e, c)
    BY <1>4 DEF OrdinaryCall, SparseStep, WriteSparse, RemoveStored, ToggleStep,
                DisableComponent, EnableComponent, sparseVars
  <2>6. QED
    BY <2>2, <2>3, <2>4, <2>5
<1>5. QED
  BY <1>3, <1>4

(* A sparse component never outlives its entity: only a load, which        *)
(* rewinds the handles and not the sparse sets, can leave an entry whose   *)
(* handle is not alive.                                                    *)
THEOREM SparseOwnersTheorem == SnapshotSpec => SparseOwnersStayLive
<1>1. ASSUME StoreInv, StoreInv', SavedInv, SparseInv, SparseInv', [SnapshotNext]_snapshotVars,
             SparseOwnersLive, ~ LoadState
      PROVE  SparseOwnersLive'
  <2>1. CASE OrdinaryStep
    BY <1>1, <2>1, OrdinaryIsCall, OwnersStep DEF StoreInv, SavedInv
  <2>2. CASE SaveState \/ UNCHANGED snapshotVars
    <3>1. UNCHANGED <<dense, entityLocations, entityGenerations>>
      BY <2>2 DEF SaveState, snapshotVars, extraVars, vars, allocator, sparseVars
    <3>2. QED
      BY <1>1, <3>1 DEF SparseOwnersLive, IsAlive, LocationOf
  <2>3. CASE NewWorld
    <3>1. \A c \in SparseComponent : dense'[c] = <<>>
      BY <2>3 DEF NewWorld, NothingDense
    <3>2. QED
      BY <3>1 DEF SparseOwnersLive
  <2>4. QED
    BY <1>1, <2>1, <2>2, <2>3 DEF SnapshotNext
<1>2. /\ StoreInv /\ SavedInv /\ (StoreInv /\ SavedInv)' /\ SparseInv /\ SparseInv'
      /\ [SnapshotNext]_snapshotVars
      => [SparseOwnersLive /\ ~LoadState => SparseOwnersLive']_snapshotVars
  BY <1>1
<1>3. QED
  BY <1>2, StoreInvariant, SparseInvariant, PTL DEF SnapshotSpec, SparseOwnersStayLive

-----------------------------------------------------------------------------
(* What a load brings back.                                                *)

(* The handles of the rows of a sound snapshot are those that its          *)
(* generations and locations make alive.                                   *)
LEMMA SavedLiveMeaning ==
  ASSUME NEW s, SnapshotSound(s)
  PROVE  /\ SavedLive(s) =
              {f \in Handle : /\ s.entityGenerations[f.index] = f.generation
                              /\ RestoredLocations(s)[f.index] # NoLocation}
         /\ \A a \in DOMAIN s.archetypes : \A r \in DOMAIN s.entities[a] :
              /\ s.entities[a][r] \in Entity
              /\ s.entityGenerations[s.entities[a][r].index] = s.entities[a][r].generation
              /\ RestoredLocations(s)[s.entities[a][r].index] = [arch |-> a, row |-> r]
<1>1. PICK n, locs, gens :
        n = Len(s.archetypes) /\ locs = RestoredLocations(s) /\ gens = s.entityGenerations
  OBVIOUS
<1>2. /\ n \in Nat /\ s.entities \in Tables(n) /\ gens \in [Index -> 0 .. MaxGeneration]
      /\ Corresponds(n, s.entities, locs, gens) /\ DOMAIN s.archetypes = 1 .. n
  BY <1>1 DEF SnapshotSound
<1>3. /\ DOMAIN s.entities = 1 .. n
      /\ \A a \in 1 .. n : /\ s.entities[a] \in Seq(Entity)
                           /\ DOMAIN s.entities[a] = 1 .. Len(s.entities[a])
                           /\ \A r \in 1 .. Len(s.entities[a]) : s.entities[a][r] \in Entity
  BY <1>2, TablesRows DEF Tables
<1>4. ASSUME NEW a \in 1 .. n, NEW r \in 1 .. Len(s.entities[a])
      PROVE  /\ s.entities[a][r] \in Handle
             /\ gens[s.entities[a][r].index] = s.entities[a][r].generation
             /\ locs[s.entities[a][r].index] = [arch |-> a, row |-> r]
             /\ locs[s.entities[a][r].index] # NoLocation
  <2>1. PICK f : f = s.entities[a][r]
    OBVIOUS
  <2>2. f \in Entity /\ gens[f.index] = f.generation /\ locs[f.index] = [arch |-> a, row |-> r]
    <3>1. PICK ents : ents = s.entities
      OBVIOUS
    <3>2. Corresponds(n, ents, locs, gens) /\ f = ents[a][r] /\ r \in 1 .. Len(ents[a])
      BY <1>2, <2>1, <3>1
    <3>3. gens[f.index] = f.generation /\ locs[f.index] = [arch |-> a, row |-> r]
      BY ONLY <3>2, a \in 1 .. n DEF Corresponds
    <3>4. QED
      BY <1>3, <2>1, <3>3
  <2>3. f.generation \in 0 .. MaxGeneration
    BY <1>2, <2>2, EntityFields
  <2>4. f \in Handle
    BY <2>2, <2>3 DEF Entity, Handle
  <2>5. [arch |-> a, row |-> r] # NoLocation
    BY DEF NoLocation
  <2>6. QED
    BY <2>1, <2>2, <2>4, <2>5
<1>5. ASSUME NEW f \in Handle, gens[f.index] = f.generation, locs[f.index] # NoLocation
      PROVE  \E a \in 1 .. n : f \in ToSet(s.entities[a])
  <2>1. f \in Entity /\ f.index \in Index
    BY HandleEntity, EntityFields
  <2>2. PICK a, r :
          /\ a \in 1 .. n /\ r \in 1 .. Len(s.entities[a])
          /\ s.entities[a][r].index = f.index
    <3>1. PICK ents : ents = s.entities
      OBVIOUS
    <3>2. Corresponds(n, ents, locs, gens)
      BY <1>2, <3>1
    <3>3. PICK at : at = locs[f.index]
      OBVIOUS
    <3>4. at.arch \in 1 .. n /\ at.row \in 1 .. Len(ents[at.arch]) /\ ents[at.arch][at.row].index = f.index
      BY ONLY <1>5, <2>1, <3>2, <3>3 DEF Corresponds
    <3>5. QED
      BY <3>1, <3>4
  <2>3. s.entities[a][r].generation = f.generation /\ s.entities[a][r] \in Entity
    <3>1. gens[s.entities[a][r].index] = s.entities[a][r].generation
      BY <1>4, <2>2
    <3>2. QED
      BY <1>3, <1>5, <2>2, <3>1
  <2>4. s.entities[a][r] = f
    BY <2>1, <2>2, <2>3, EntityEqual
  <2>5. QED
    BY <1>3, <2>2, <2>4 DEF ToSet
<1>6. \A f : f \in SavedLive(s) <=> \E a \in 1 .. n : f \in ToSet(s.entities[a])
  BY <1>3 DEF SavedLive
<1>7. ASSUME NEW f \in SavedLive(s)
      PROVE  f \in Handle /\ gens[f.index] = f.generation /\ locs[f.index] # NoLocation
  <2>1. PICK a \in 1 .. n : f \in ToSet(s.entities[a])
    BY <1>6
  <2>2. PICK r \in 1 .. Len(s.entities[a]) : f = s.entities[a][r]
    BY <1>3, <2>1 DEF ToSet
  <2>3. QED
    BY <1>4, <2>2
<1>8. SavedLive(s) =
        {f \in Handle : gens[f.index] = f.generation /\ locs[f.index] # NoLocation}
  BY <1>5, <1>6, <1>7
<1>9. QED
  BY SMTT(30), <1>1, <1>2, <1>3, <1>4, <1>8

(* Loading brings back the entities that were alive at the save, under     *)
(* their handles and with their sets of components, and their values in    *)
(* every type that is registered and has a size, whatever happened to the  *)
(* world since.                                                            *)
THEOREM LoadTheorem == SnapshotSpec => LoadRestoresSaved
<1>1. ASSUME SavedInv, LoadState
      PROVE  SavedRestored
  <2>1. PICK s : s = saved[1]
    OBVIOUS
  <2>2. SnapshotSound(s)
    BY <1>1, <2>1 DEF SavedInv, LoadState
  <2>3. /\ entityGenerations' = s.entityGenerations
        /\ entityLocations' = RestoredLocations(s)
        /\ archetypes' = s.archetypes
        /\ columns' = [a \in DOMAIN s.archetypes |-> RestoredColumns(s, a)]
        /\ saved' = saved
    BY <1>1, <2>1 DEF LoadState, RestoreAllocator
  <2>4. Live' = SavedLive(s)
    <3>1. \A f : f \in SavedLive(s) <=>
            /\ f \in Handle
            /\ entityGenerations'[f.index] = f.generation
            /\ entityLocations'[f.index] # NoLocation
      BY <2>2, <2>3, SavedLiveMeaning
    <3>2. \A f : f \in Live' => f \in Handle
      BY DEF Live
    <3>3. QED
      BY <3>1, <3>2, LiveMeaningNext
  <2>5. ASSUME NEW a \in DOMAIN s.archetypes, NEW r \in DOMAIN s.entities[a]
        PROVE  LET at == LocationOf(s.entities[a][r])'
               IN  /\ archetypes'[at.arch] = s.archetypes[a]
                   /\ \A c \in (s.archetypes[a] \cap columnFactories) \ ZeroSized :
                        columns'[at.arch][c][at.row] = s.columns[a][c][r]
    <3>1. LocationOf(s.entities[a][r])' = [arch |-> a, row |-> r]
      BY <2>2, <2>3, SavedLiveMeaning DEF LocationOf
    <3>2. ASSUME NEW c \in (s.archetypes[a] \cap columnFactories) \ ZeroSized
          PROVE  columns'[a][c] = s.columns[a][c]
      <4>1. columns'[a] = RestoredColumns(s, a)
        BY <2>3
      <4>2. c \in DOMAIN s.columns[a]
        <5>1. a \in 1 .. Len(s.archetypes)
          BY <2>2 DEF SnapshotSound
        <5>2. s.columns[a] \in [s.archetypes[a] \ ZeroSized -> Seq(Value)]
          BY <2>2, <5>1 DEF SnapshotSound
        <5>3. QED
          BY <5>2
      <4>3. QED
        BY <4>1, <4>2 DEF RestoredColumns
    <3>3. QED
      BY <2>3, <3>1, <3>2
  <2>6. (saved[1])' = s
    BY <2>1, <2>3
  <2>7. ASSUME NEW a \in DOMAIN saved[1].archetypes, NEW r \in DOMAIN saved[1].entities[a]
        PROVE  LET at == LocationOf(saved[1].entities[a][r])'
               IN  /\ archetypes'[at.arch] = saved[1].archetypes[a]
                   /\ \A c \in (saved[1].archetypes[a] \cap columnFactories) \ ZeroSized :
                        columns'[at.arch][c][at.row] = saved[1].columns[a][c][r]
    <3>1. LocationOf(saved[1].entities[a][r])' = LocationOf(s.entities[a][r])'
      BY <2>6 DEF LocationOf
    <3>2. a \in DOMAIN s.archetypes /\ r \in DOMAIN s.entities[a]
      BY <2>1
    <3>3. LET at == LocationOf(s.entities[a][r])'
          IN  /\ archetypes'[at.arch] = s.archetypes[a]
              /\ \A c \in (s.archetypes[a] \cap columnFactories) \ ZeroSized :
                   columns'[at.arch][c][at.row] = s.columns[a][c][r]
      BY ONLY <2>5, <3>2
    <3>4. QED
      BY ONLY <2>1, <3>1, <3>3
  <2>8. QED
    BY <2>1, <2>4, <2>7 DEF SavedRestored
<1>2. SavedInv => [LoadState => SavedRestored]_snapshotVars
  BY <1>1
<1>3. QED
  BY <1>2, StoreInvariant, PTL DEF LoadRestoresSaved
-----------------------------------------------------------------------------
(* What a load leaves of the columns.                                      *)

(* The columns hold values of types that belong to the archetype and are   *)
(* registered.  They may be short, or missing.                             *)
TypedTable(n, archs, factories, cols) ==
  /\ cols \in ColumnTables(n)
  /\ \A a \in 1 .. n : DOMAIN cols[a] \subseteq archs[a] \cap factories

TypedColumns ==
  /\ columnFactories \subseteq Component
  /\ TypedTable(Len(archetypes), archetypes, columnFactories, columns)

(* A member of ColumnTable, and its values.                                *)
LEMMA ColumnTableValues ==
  ASSUME NEW f \in ColumnTable
  PROVE  /\ f \in [DOMAIN f -> Seq(Value)] /\ DOMAIN f \in SUBSET Component
         /\ \A c \in DOMAIN f : f[c] \in Seq(Value) /\ DOMAIN f[c] = 1 .. Len(f[c])
<1>1. PICK types \in SUBSET Component : f \in [types -> Seq(Value)]
  BY DEF ColumnTable
<1>2. DOMAIN f = types
  BY <1>1
<1>3. QED
  BY <1>1, <1>2

(* Columns of the same types, or fewer, in place of those of an archetype. *)
LEMMA TypedReplace ==
  ASSUME NEW n \in Nat, NEW archs, NEW factories, NEW cols,
         TypedTable(n, archs, factories, cols), NEW a \in 1 .. n,
         NEW now \in ColumnTable, DOMAIN now \subseteq DOMAIN cols[a]
  PROVE  TypedTable(n, archs, factories, [cols EXCEPT ![a] = now])
<1>1. cols \in [1 .. n -> ColumnTable]
  BY DEF TypedTable, ColumnTables
<1>2. [cols EXCEPT ![a] = now] \in [1 .. n -> ColumnTable]
  BY <1>1
<1>3. \A b \in 1 .. n : [cols EXCEPT ![a] = now][b] = IF b = a THEN now ELSE cols[b]
  BY <1>1
<1>4. QED
  BY <1>2, <1>3 DEF TypedTable, ColumnTables

(* A new archetype has columns for the registered types of its set.        *)
LEMMA TypedGrown ==
  ASSUME RowsType, TypedColumns, NEW id, NEW set \in SUBSET Component, Resolves(id, set),
         NEW archs, archs = Grown(archetypes, id, set),
         NEW factories, columnFactories \subseteq factories
  PROVE  TypedTable(Len(archs), archs, factories,
                    Grown(columns, id, NewColumns(set, factories)))
<1> DEFINE n == Len(archetypes)
           m == Len(archs)
           fresh == NewColumns(set, factories)
           cols == Grown(columns, id, fresh)
<1>1. n \in Nat /\ id \in 1 .. n + 1 /\ archetypes \in Seq(SUBSET Component)
  BY DEF RowsType, Resolves
<1>2. /\ columns \in ColumnTables(n) /\ DOMAIN columns = 1 .. n
      /\ \A a \in 1 .. n : DOMAIN columns[a] \subseteq archetypes[a] \cap factories
  BY DEF TypedColumns, TypedTable, ColumnTables
<1>3. /\ fresh \in ColumnTable
      /\ DOMAIN fresh \subseteq set \cap factories
  <2>1. \A c \in set : <<>> \in Seq(Value)
    OBVIOUS
  <2>2. fresh \in [set \cap factories -> Seq(Value)]
    BY <2>1 DEF NewColumns
  <2>3. QED
    BY <2>2, ColumnTableMember
<1>4. columns \in Seq(ColumnTable) /\ Len(columns) = n
  BY <1>1, <1>2, SeqDef DEF ColumnTables
<1>5. m = IF id \in 1 .. n THEN n ELSE n + 1
  BY <1>1, GrownLen
<1>6. /\ \A a \in 1 .. n : archs[a] = archetypes[a]
      /\ id = n + 1 => archs[id] = set
  BY <1>1, GrownOld, GrownFresh
<1> HIDE DEF fresh
<1>7. /\ cols \in Seq(ColumnTable)
      /\ Len(cols) = IF id \in 1 .. n THEN n ELSE n + 1
      /\ \A a \in 1 .. n : cols[a] = columns[a]
      /\ id = n + 1 => cols[id] = fresh
  BY <1>1, <1>3, <1>4, GrownType, GrownLen, GrownOld, GrownFresh
<1> HIDE DEF cols, m
<1>8. cols \in ColumnTables(m)
  BY <1>5, <1>7 DEF ColumnTables
<1>9. ASSUME NEW a \in 1 .. m PROVE DOMAIN cols[a] \subseteq archs[a] \cap factories
  <2>1. CASE a \in 1 .. n
    BY <1>2, <1>6, <1>7, <2>1
  <2>2. CASE a \notin 1 .. n
    <3>1. a = n + 1 /\ id = n + 1
      BY <1>1, <1>5, <2>2 DEF n
    <3>2. QED
      BY <1>3, <1>6, <1>7, <3>1
  <2>3. QED
    BY <2>1, <2>2
<1>10. QED
  BY <1>8, <1>9 DEF TypedTable, cols, m, fresh

(* swap_remove leaves values, even of a row that is not there.             *)
LEMMA DropTyped ==
  ASSUME NEW f \in ColumnTable, NEW r
  PROVE  DropValues(f, r) \in ColumnTable /\ DOMAIN DropValues(f, r) = DOMAIN f
<1>1. f \in [DOMAIN f -> Seq(Value)] /\ DOMAIN f \in SUBSET Component
  BY ColumnTableValues
<1>2. ASSUME NEW s \in Seq(Value) PROVE SwapRemove(s, r) \in Seq(Value)
  <2>1. CASE Len(s) = 0
    <3>1. 1 .. Len(s) - 1 = {} /\ 1 .. 0 = {}
      BY <2>1
    <3>2. SwapRemove(s, r) \in [1 .. 0 -> Value]
      BY <3>1 DEF SwapRemove
    <3>3. QED
      BY <3>2, SeqDef
  <2>2. CASE Len(s) # 0
    <3>1. PICK k \in Nat : k = Len(s) - 1
      BY <2>2
    <3>2. \A j \in 1 .. k : s[j] \in Value /\ s[Len(s)] \in Value
      BY <2>2, <3>1
    <3>3. SwapRemove(s, r) \in [1 .. k -> Value]
      BY <3>1, <3>2 DEF SwapRemove
    <3>4. QED
      BY <3>1, <3>3, SeqDef
  <2>3. QED
    BY <2>1, <2>2
<1>3. DropValues(f, r) \in [DOMAIN f -> Seq(Value)]
  BY <1>1, <1>2 DEF DropValues
<1>4. QED
  BY <1>1, <1>3, ColumnTableMember

(* A push leaves values.                                                   *)
LEMMA PushTyped ==
  ASSUME NEW f \in ColumnTable, NEW values, \A c \in DOMAIN values : values[c] \in Value
  PROVE  Pushed(f, values) \in ColumnTable /\ DOMAIN Pushed(f, values) = DOMAIN f
<1>1. f \in [DOMAIN f -> Seq(Value)] /\ DOMAIN f \in SUBSET Component
  BY ColumnTableValues
<1>2. \A c \in DOMAIN f : c \in DOMAIN values => Append(f[c], values[c]) \in Seq(Value)
  BY <1>1, AppendProperties
<1>3. Pushed(f, values) \in [DOMAIN f -> Seq(Value)]
  BY <1>1, <1>2 DEF Pushed
<1>4. QED
  BY <1>1, <1>3, ColumnTableMember

(* A move, with whatever values the row has.                               *)
LEMMA MoveKeepsTyped ==
  ASSUME RowsType, RowsMatch, TypedColumns, NEW e \in Entity, IsAlive(e),
         NEW id, NEW set \in SUBSET Component, Resolves(id, set), id # LocationOf(e).arch,
         NEW factories \in SUBSET Component, columnFactories \subseteq factories,
         NEW values, \A c \in DOMAIN values : values[c] \in Value,
         MoveRow(e, LocationOf(e), id, set, factories, values)
  PROVE  TypedColumns'
<1> DEFINE at   == LocationOf(e)
           m    == Len(archetypes')
           cols == Grown(columns, id, NewColumns(set, factories))
           leftCols == WithoutValues(cols, at.arch, at.row)
<1>1. /\ archetypes' = Grown(archetypes, id, set)
      /\ columnFactories' = factories
      /\ columns' = [leftCols EXCEPT ![id] = Pushed(@, values)]
  BY DEF MoveRow, WithoutValues
<1>2. m \in Nat /\ id \in 1 .. m /\ 1 .. Len(archetypes) \subseteq 1 .. m
  BY <1>1, GrownArchetypes DEF RowsType
<1>3. at.arch \in 1 .. m
  BY <1>2, LocatedRow
<1>4. TypedTable(m, archetypes', factories, cols)
  BY <1>1, TypedGrown
<1> HIDE DEF cols, m, at
<1>5. cols[at.arch] \in ColumnTable
  BY <1>3, <1>4 DEF TypedTable, ColumnTables
<1>6. TypedTable(m, archetypes', factories, leftCols)
  <2>1. PICK now : now = DropValues(cols[at.arch], at.row)
    OBVIOUS
  <2>2. now \in ColumnTable /\ DOMAIN now \subseteq DOMAIN cols[at.arch]
    BY <1>5, <2>1, DropTyped
  <2>3. TypedTable(m, archetypes', factories, [cols EXCEPT ![at.arch] = now])
    BY <1>2, <1>3, <1>4, <2>2, TypedReplace
  <2>4. leftCols = [cols EXCEPT ![at.arch] = now]
    BY <2>1 DEF WithoutValues
  <2>5. QED
    BY <2>3, <2>4
<1> HIDE DEF leftCols
<1>7. leftCols[id] \in ColumnTable
  BY <1>2, <1>6 DEF TypedTable, ColumnTables
<1>8. TypedTable(m, archetypes', factories, [leftCols EXCEPT ![id] = Pushed(@, values)])
  <2>1. PICK now : now = Pushed(leftCols[id], values)
    OBVIOUS
  <2>2. now \in ColumnTable /\ DOMAIN now \subseteq DOMAIN leftCols[id]
    BY <1>7, <2>1, PushTyped
  <2>3. TypedTable(m, archetypes', factories, [leftCols EXCEPT ![id] = now])
    BY <1>2, <1>6, <2>2, TypedReplace
  <2>4. QED
    BY <2>1, <2>3
<1>9. QED
  BY <1>1, <1>8 DEF TypedColumns, m

(* The values that swap_remove_into takes along.                           *)
LEMMA RowValuesTyped ==
  ASSUME RowsType, RowsMatch, TypedColumns, NEW e \in Entity, IsAlive(e), RowThere(e)
  PROVE  /\ DOMAIN RowValues(LocationOf(e)) \in SUBSET Component
         /\ \A c \in DOMAIN RowValues(LocationOf(e)) : RowValues(LocationOf(e))[c] \in Value
<1>1. LocationOf(e).arch \in 1 .. Len(archetypes)
  BY LocatedRow
<1>2. PICK f \in ColumnTable : f = columns[LocationOf(e).arch]
  BY <1>1 DEF TypedColumns, TypedTable, ColumnTables
<1>3. PICK r : r = LocationOf(e).row
  OBVIOUS
<1>4. \A c \in DOMAIN f : r \in DOMAIN f[c]
  BY <1>2, <1>3 DEF RowThere
<1>5. DOMAIN f \in SUBSET Component /\ \A c \in DOMAIN f : f[c] \in Seq(Value)
  BY ColumnTableValues
<1>6. \A c \in DOMAIN f : f[c][r] \in Value
  BY <1>4, <1>5
<1>7. RowValues(LocationOf(e)) = [c \in DOMAIN f |-> f[c][r]]
  BY <1>2, <1>3 DEF RowValues
<1>8. QED
  BY <1>5, <1>6, <1>7

(* spawn_with pushes to the columns that are there.                        *)
LEMMA SpawnWithKeepsTyped ==
  ASSUME RowsInv, TypedColumns, NEW b \in Bundle, NEW value \in [Types(b) -> Value],
         SpawnWith(b, value)
  PROVE  TypedColumns'
<1> DEFINE cached == bundleArchetypes[b]
           set  == Types(b)
           id   == IF cached # 0 THEN cached ELSE ArchetypeFor(set)
           factories == IF cached # 0 THEN columnFactories ELSE columnFactories \cup set
           cols == Grown(columns, id, NewColumns(set, factories))
           m    == Len(archetypes')
           pushed == [c \in DOMAIN cols[id] |-> PushBundle(cols[id][c], b, c, value[c])]
<1>1. /\ columnFactories' = factories
      /\ archetypes' = Grown(archetypes, id, set)
      /\ columns' = [cols EXCEPT ![id] = pushed]
  BY DEF SpawnWith
<1>2. set \in SUBSET Component
  BY BundleTypes
<1>3. /\ Resolves(id, set)
      /\ factories \in SUBSET Component
      /\ columnFactories \subseteq factories
  <2>1. CASE cached # 0
    BY <2>1 DEF RowsInv, RowsType, ShortcutsResolve, Resolves, TypedColumns
  <2>2. CASE cached = 0
    BY <1>2, <2>2, ArchetypeForResolves DEF RowsInv, TypedColumns
  <2>3. QED
    BY <2>1, <2>2
<1> HIDE DEF id, factories, set
<1>4. m \in Nat /\ id \in 1 .. m /\ archetypes'[id] = set
  BY <1>1, <1>2, <1>3, GrownArchetypes DEF RowsInv
<1>5. TypedTable(m, archetypes', factories, cols)
  BY <1>1, <1>2, <1>3, TypedGrown DEF RowsInv
<1> HIDE DEF cols, m
<1>6. cols[id] \in ColumnTable /\ DOMAIN cols[id] \subseteq set
  BY <1>4, <1>5 DEF TypedTable, ColumnTables
<1>7. \A c \in DOMAIN cols[id] : PushBundle(cols[id][c], b, c, value[c]) \in Seq(Value)
  <2>1. SUFFICES ASSUME NEW c \in DOMAIN cols[id]
                 PROVE  PushBundle(cols[id][c], b, c, value[c]) \in Seq(Value)
    OBVIOUS
  <2>2. c \in Types(b) /\ value[c] \in Value
    BY <1>6 DEF set
  <2>3. cols[id][c] \in Seq(Value)
    BY <1>6, ColumnTableValues
  <2>4. QED
    BY <2>2, <2>3, PushBundleProperties
<1>8. pushed \in ColumnTable /\ DOMAIN pushed = DOMAIN cols[id]
  <2>1. pushed \in [DOMAIN cols[id] -> Seq(Value)]
    BY <1>7
  <2>2. DOMAIN cols[id] \in SUBSET Component
    BY <1>2, <1>6
  <2>3. QED
    BY <2>1, <2>2, ColumnTableMember
<1> HIDE DEF pushed
<1>9. TypedTable(m, archetypes', factories, [cols EXCEPT ![id] = pushed])
  BY <1>4, <1>5, <1>8, TypedReplace
<1>10. QED
  BY <1>1, <1>3, <1>9 DEF TypedColumns, m

(* despawn drops the values of a row.                                      *)
LEMMA DespawnKeepsTyped ==
  ASSUME RowsInv, TypedColumns, NEW e \in Handle, Despawn(e)
  PROVE  TypedColumns'
<1> DEFINE at == LocationOf(e)
           n  == Len(archetypes)
<1>1. /\ e \in Entity
      /\ IsAlive(e)
      /\ columns' = [columns EXCEPT ![at.arch] = DropValues(columns[at.arch], at.row)]
      /\ UNCHANGED <<archetypes, columnFactories>>
  BY HandleEntity DEF Despawn, IsAlive
<1>2. at.arch \in 1 .. n /\ n \in Nat
  BY <1>1, LocatedRow DEF RowsInv, RowsType
<1> HIDE DEF at
<1>3. columns[at.arch] \in ColumnTable
  BY <1>2 DEF TypedColumns, TypedTable, ColumnTables
<1>4. PICK now : now = DropValues(columns[at.arch], at.row)
  OBVIOUS
<1>5. now \in ColumnTable /\ DOMAIN now \subseteq DOMAIN columns[at.arch]
  BY <1>3, <1>4, DropTyped
<1>6. TypedTable(n, archetypes, columnFactories, columns)
  BY DEF TypedColumns
<1> HIDE DEF n
<1>7. TypedTable(n, archetypes, columnFactories, [columns EXCEPT ![at.arch] = now])
  BY <1>2, <1>5, <1>6, TypedReplace
<1>8. QED
  BY <1>1, <1>4, <1>7 DEF TypedColumns, n

(* add_component on a type the entity has writes a value that is there.    *)
LEMMA OverwriteKeepsTyped ==
  ASSUME RowsInv, TypedColumns, NEW e \in Entity, IsAlive(e), NEW c, NEW v \in Value,
         Overwrite(LocationOf(e), c, v)
  PROVE  TypedColumns'
<1> DEFINE at   == LocationOf(e)
           n    == Len(archetypes)
           f    == columns[at.arch]
           new  == [f[c] EXCEPT ![at.row] = v]
           now  == [f EXCEPT ![c] = new]
<1>1. /\ columns' = [columns EXCEPT ![at.arch] = now]
      /\ UNCHANGED <<archetypes, columnFactories>>
  BY DEF Overwrite
<1>2. at.arch \in 1 .. n /\ n \in Nat
  BY LocatedRow DEF RowsInv, RowsType
<1> HIDE DEF at
<1>3. f \in ColumnTable
  BY <1>2 DEF TypedColumns, TypedTable, ColumnTables
<1> HIDE DEF f
<1>4. f \in [DOMAIN f -> Seq(Value)] /\ DOMAIN f \in SUBSET Component
  BY <1>3, ColumnTableValues
<1>5. ASSUME NEW s \in Seq(Value), NEW r PROVE [s EXCEPT ![r] = v] \in Seq(Value)
  <2>1. s \in [1 .. Len(s) -> Value] /\ Len(s) \in Nat
    OBVIOUS
  <2>2. [s EXCEPT ![r] = v] \in [1 .. Len(s) -> Value]
    BY <2>1
  <2>3. QED
    BY <2>1, <2>2, SeqDef
<1>6. now \in [DOMAIN f -> Seq(Value)]
  <2>1. CASE c \in DOMAIN f
    <3>1. new \in Seq(Value)
      BY <1>4, <1>5, <2>1
    <3> HIDE DEF new
    <3>2. QED
      BY <1>4, <3>1
  <2>2. CASE c \notin DOMAIN f
    <3> HIDE DEF new
    <3>1. QED
      BY <1>4, <2>2
  <2>3. QED
    BY <2>1, <2>2
<1>7. now \in ColumnTable /\ DOMAIN now \subseteq DOMAIN f
  BY <1>4, <1>6, ColumnTableMember
<1> HIDE DEF now
<1>8. TypedTable(n, archetypes, columnFactories, columns)
  BY DEF TypedColumns
<1> HIDE DEF n
<1>9. TypedTable(n, archetypes, columnFactories, [columns EXCEPT ![at.arch] = now])
  BY <1>2, <1>7, <1>8, TypedReplace DEF f
<1>10. QED
  BY <1>1, <1>9 DEF TypedColumns, n

(* add_component that moves has a whole row to take along.                 *)
LEMMA AddKeepsTyped ==
  ASSUME RowsInv, TypedColumns, NEW e \in Entity, NEW c \in Component, NEW v \in Value,
         AddComponent(e, c, v), c \in archetypes[LocationOf(e).arch] \/ RowThere(e)
  PROVE  TypedColumns'
<1> DEFINE at == LocationOf(e)
<1>1. IsAlive(e) /\ RowsType /\ RowsMatch
  BY DEF AddComponent, IsAlive, RowsInv
<1>2. /\ at.arch \in 1 .. Len(archetypes)
      /\ archetypes[at.arch] \in SUBSET Component
      /\ columnFactories \in SUBSET Component
      /\ DOMAIN archetypes = 1 .. Len(archetypes)
  BY <1>1, LocatedRow DEF RowsType, TypedColumns
<1>3. CASE Overwrite(at, c, v)
  BY <1>1, <1>3, OverwriteKeepsTyped
<1>4. CASE c \notin archetypes[at.arch] /\ at.arch = EmptyArchetype /\ AddFirst(e, at, c, v)
  <2> DEFINE id == IF singleComponentArchetypes[c] # 0 THEN singleComponentArchetypes[c]
                   ELSE ArchetypeFor({c})
             factories == IF singleComponentArchetypes[c] # 0 THEN columnFactories
                          ELSE columnFactories \cup {c}
             values == [x \in {c} |-> v]
             set == {c}
  <2>1. MoveRow(e, at, id, set, factories, values)
    BY <1>4 DEF AddFirst
  <2>2. /\ Resolves(id, set)
        /\ factories \in SUBSET Component
        /\ columnFactories \subseteq factories
    <3>1. CASE singleComponentArchetypes[c] # 0
      BY <1>2, <3>1 DEF RowsInv, RowsType, ShortcutsResolve, Resolves
    <3>2. CASE singleComponentArchetypes[c] = 0
      BY <1>1, <1>2, <3>2, ArchetypeForResolves
    <3>3. QED
      BY <3>1, <3>2
  <2>3. /\ set \in SUBSET Component /\ c \in set
        /\ \A x \in DOMAIN values : values[x] \in Value
    OBVIOUS
  <2> HIDE DEF id, factories, values, set
  <2>4. id # at.arch
    BY <1>2, <1>4, <2>2, <2>3 DEF Resolves
  <2>5. QED
    BY <1>1, <2>1, <2>2, <2>3, <2>4, MoveKeepsTyped
<1>5. CASE c \notin archetypes[at.arch] /\ AddAnother(e, at, c, v)
  <2> DEFINE set == archetypes[at.arch] \cup {c}
             id  == IF addTransitions[at.arch][c] # 0 THEN addTransitions[at.arch][c]
                    ELSE ArchetypeFor(set)
             factories == columnFactories \cup {c}
             values == [x \in DOMAIN RowValues(at) \cup {c} |-> IF x = c THEN v ELSE RowValues(at)[x]]
  <2>1. MoveRow(e, at, id, set, factories, values)
    BY <1>5 DEF AddAnother
  <2>2. Resolves(id, set)
    <3>1. CASE addTransitions[at.arch][c] # 0
      BY <1>2, <3>1 DEF RowsInv, ShortcutsResolve, Resolves
    <3>2. CASE addTransitions[at.arch][c] = 0
      BY <1>1, <3>2, ArchetypeForResolves
    <3>3. QED
      BY <3>1, <3>2
  <2>3. /\ set \in SUBSET Component
        /\ c \in set
        /\ factories \in SUBSET Component
        /\ columnFactories \subseteq factories
    BY <1>2
  <2>4. \A x \in DOMAIN values : values[x] \in Value
    BY <1>1, <1>5, RowValuesTyped
  <2> HIDE DEF id, factories, values, set
  <2>5. id # at.arch
    BY <1>2, <1>5, <2>2, <2>3 DEF Resolves
  <2>6. QED
    BY <1>1, <2>1, <2>2, <2>3, <2>4, <2>5, MoveKeepsTyped
<1>6. QED
  BY <1>3, <1>4, <1>5 DEF AddComponent

(* remove_component has a whole row to take along.                         *)
LEMMA RemoveKeepsTyped ==
  ASSUME RowsInv, TypedColumns, NEW e \in Entity, NEW c \in Component,
         RemoveComponent(e, c), RowThere(e)
  PROVE  TypedColumns'
<1> DEFINE at  == LocationOf(e)
           set == archetypes[at.arch] \ {c}
           id  == IF removeTransitions[at.arch][c] # 0 THEN removeTransitions[at.arch][c]
                  ELSE ArchetypeFor(set)
           values == RowValues(at)
           factories == columnFactories
<1>1. /\ IsAlive(e) /\ RowsType /\ RowsMatch
      /\ c \in archetypes[at.arch]
      /\ MoveRow(e, at, id, set, factories, values)
  BY DEF RemoveComponent, IsAlive, RowsInv
<1>2. /\ at.arch \in 1 .. Len(archetypes)
      /\ archetypes[at.arch] \in SUBSET Component
      /\ factories \in SUBSET Component
      /\ columnFactories \subseteq factories
      /\ DOMAIN archetypes = 1 .. Len(archetypes)
  BY <1>1, LocatedRow DEF RowsType, TypedColumns
<1>3. Resolves(id, set)
  <2>1. CASE removeTransitions[at.arch][c] # 0
    BY <1>2, <2>1 DEF RowsInv, ShortcutsResolve, Resolves
  <2>2. CASE removeTransitions[at.arch][c] = 0
    BY <1>1, <2>2, ArchetypeForResolves
  <2>3. QED
    BY <2>1, <2>2
<1>4. \A x \in DOMAIN values : values[x] \in Value
  BY <1>1, RowValuesTyped
<1>5. set \in SUBSET Component /\ c \notin set
  BY <1>2
<1> HIDE DEF id, values, set, factories
<1>6. id # at.arch
  BY <1>1, <1>2, <1>3, <1>5 DEF Resolves
<1>7. QED
  BY <1>1, <1>2, <1>3, <1>4, <1>5, <1>6, MoveKeepsTyped

(* Columns without gaps hold values for every row.                         *)
LEMMA TypedAligned ==
  ASSUME RowsInv, TypedColumns, ColumnsAligned
  PROVE  ColumnsInv
<1>1. DOMAIN archetypes = 1 .. Len(archetypes)
  BY DEF RowsInv, RowsType
<1>2. ASSUME NEW a \in 1 .. Len(archetypes)
      PROVE  /\ columns[a] \in [archetypes[a] -> Seq(Value)]
             /\ \A c \in archetypes[a] : Fits(columns[a][c], archetypeEntities[a])
             /\ archetypes[a] \subseteq columnFactories
  <2>1. /\ columns[a] \in ColumnTable
        /\ DOMAIN columns[a] \subseteq archetypes[a] \cap columnFactories
    BY DEF TypedColumns, TypedTable, ColumnTables
  <2>2. /\ DOMAIN columns[a] = archetypes[a]
        /\ \A c \in archetypes[a] : Len(columns[a][c]) = Len(archetypeEntities[a])
    BY <1>1 DEF ColumnsAligned
  <2>3. columns[a] \in [archetypes[a] -> Seq(Value)]
    BY <2>1, <2>2, ColumnTableValues
  <2>4. Len(archetypeEntities[a]) \in Nat
    BY TablesRows DEF RowsInv, RowsType
  <2>5. QED
    BY <2>1, <2>2, <2>3, <2>4 DEF Fits
<1>3. QED
  BY <1>2 DEF ColumnsInv, Aligned, TypedColumns, TypedTable

(* And the other way round, with tuples that name no type twice.           *)
LEMMA InvAligned ==
  ASSUME RowsInv, ColumnsInv
  PROVE  TypedColumns /\ (BundlesDistinct => ColumnsAligned)
<1>1. DOMAIN archetypes = 1 .. Len(archetypes)
  BY DEF RowsInv, RowsType
<1>2. ASSUME NEW a \in 1 .. Len(archetypes)
      PROVE  /\ DOMAIN columns[a] = archetypes[a]
             /\ DOMAIN columns[a] \subseteq archetypes[a] \cap columnFactories
             /\ BundlesDistinct =>
                  \A c \in archetypes[a] : Len(columns[a][c]) = Len(archetypeEntities[a])
  BY DEF ColumnsInv, Aligned, Fits
<1>3. QED
  BY <1>1, <1>2 DEF ColumnsInv, ColumnsAligned, TypedColumns, TypedTable

(* The columns that a load brings back are typed, and complete unless the  *)
(* load loses something.                                                   *)
LEMMA LoadColumns ==
  ASSUME SavedInv, columnFactories \subseteq Component, LoadState
  PROVE  /\ TypedColumns'
         /\ BundlesDistinct => (ColumnsAligned' <=> ~ LoadLoses)
<1>1. PICK s : s = saved[1]
  OBVIOUS
<1>2. SnapshotSound(s)
  BY <1>1 DEF SavedInv, LoadState
<1>3. /\ archetypes' = s.archetypes
      /\ archetypeEntities' = s.entities
      /\ columns' = [a \in DOMAIN s.archetypes |-> RestoredColumns(s, a)]
      /\ columnFactories' = columnFactories
  BY <1>1 DEF LoadState
<1>4. PICK n \in Nat : n = Len(s.archetypes)
  BY <1>2 DEF SnapshotSound
<1>5. DOMAIN s.archetypes = 1 .. n /\ s.archetypes \in Seq(SUBSET Component)
  BY <1>2, <1>4 DEF SnapshotSound
<1>6. ASSUME NEW a \in 1 .. n
      PROVE  /\ columns'[a] \in ColumnTable
             /\ DOMAIN columns'[a] = s.archetypes[a] \cap columnFactories
             /\ \A c \in s.archetypes[a] \cap columnFactories :
                  /\ c \in ZeroSized => Len(columns'[a][c]) = 0
                  /\ c \notin ZeroSized => Fits(columns'[a][c], s.entities[a])
             /\ s.entities[a] \in Seq(Entity)
             /\ s.archetypes[a] \in SUBSET Component
  <2>1. /\ s.columns[a] \in [s.archetypes[a] \ ZeroSized -> Seq(Value)]
        /\ \A c \in s.archetypes[a] \ ZeroSized : Fits(s.columns[a][c], s.entities[a])
    BY <1>2, <1>4 DEF SnapshotSound
  <2>2. columns'[a] = [c \in s.archetypes[a] \cap columnFactories |->
                         IF c \in ZeroSized THEN <<>> ELSE s.columns[a][c]]
    <3>1. columns'[a] = RestoredColumns(s, a)
      BY <1>3, <1>5
    <3>2. DOMAIN s.columns[a] = s.archetypes[a] \ ZeroSized
      BY <2>1
    <3>3. QED
      BY <3>1, <3>2 DEF RestoredColumns
  <2>3. s.archetypes[a] \in SUBSET Component /\ s.entities[a] \in Seq(Entity)
    <3>1. s.entities \in Tables(n)
      BY <1>2, <1>4 DEF SnapshotSound
    <3>2. QED
      BY <1>5, <3>1 DEF Tables
  <2>4. columns'[a] \in [s.archetypes[a] \cap columnFactories -> Seq(Value)]
    <3>1. <<>> \in Seq(Value)
      OBVIOUS
    <3>2. QED
      BY <2>1, <2>2, <3>1
  <2>5. columns'[a] \in ColumnTable
    BY <2>3, <2>4, ColumnTableMember
  <2>6. QED
    BY <2>1, <2>2, <2>3, <2>4, <2>5
<1>7. TypedColumns'
  <2>1. columns' \in [1 .. n -> ColumnTable]
    BY <1>3, <1>5, <1>6
  <2>2. Len(archetypes') = n
    BY <1>3, <1>4
  <2>3. QED
    BY <1>3, <1>6, <2>1, <2>2 DEF TypedColumns, TypedTable, ColumnTables
<1>8. LoadLoses <=> \E a \in 1 .. n :
                      \/ ~(s.archetypes[a] \subseteq columnFactories)
                      \/ s.archetypes[a] \cap ZeroSized # {} /\ s.entities[a] # <<>>
  BY <1>1, <1>5 DEF LoadLoses
<1>9. ColumnsAligned' <=> \A a \in 1 .. n :
                            /\ DOMAIN columns'[a] = s.archetypes[a]
                            /\ \A c \in s.archetypes[a] : Len(columns'[a][c]) = Len(s.entities[a])
  BY <1>3, <1>5 DEF ColumnsAligned
<1>10. ASSUME BundlesDistinct, NEW a \in 1 .. n
       PROVE  /\ DOMAIN columns'[a] = s.archetypes[a]
              /\ \A c \in s.archetypes[a] : Len(columns'[a][c]) = Len(s.entities[a])
              <=> ~ (\/ ~(s.archetypes[a] \subseteq columnFactories)
                     \/ s.archetypes[a] \cap ZeroSized # {} /\ s.entities[a] # <<>>)
  <2>1. Len(s.entities[a]) = 0 <=> s.entities[a] = <<>>
    BY <1>6, EmptySeq
  <2>2. \A c \in s.archetypes[a] \cap columnFactories :
          Len(columns'[a][c]) = Len(s.entities[a]) <=> (c \in ZeroSized => s.entities[a] = <<>>)
    BY <1>6, <1>10, <2>1 DEF Fits
  <2>3. DOMAIN columns'[a] = s.archetypes[a] <=> s.archetypes[a] \subseteq columnFactories
    BY <1>6
  <2>4. QED
    BY <2>2, <2>3
<1>11. QED
  BY <1>7, <1>8, <1>9, <1>10

(* Whatever is called, the columns hold values of their types.             *)
LEMMA StepKeepsTyped ==
  ASSUME StoreInv, SavedInv, TypedColumns, [SnapshotNext]_snapshotVars
  PROVE  TypedColumns'
<1>1. ASSUME UNCHANGED <<archetypes, columns, columnFactories>> PROVE TypedColumns'
  BY <1>1 DEF TypedColumns
<1>2. CASE OrdinaryStep
  <2>1. /\ program.components \subseteq Component /\ program.values \subseteq Value
        /\ RowsInv
    BY DEF SavedInv, Program, StoreInv
  <2>2. CASE SpawnEmpty
    BY <1>1, <2>2 DEF SpawnEmpty
  <2>3. ASSUME NEW b \in Bundle, NEW value \in [Types(b) -> program.values],
               SpawnWithCompletes(b, value)
        PROVE  TypedColumns'
    <3>1. value \in [Types(b) -> Value] /\ SpawnWith(b, value)
      BY <2>1, <2>3 DEF SpawnWithCompletes
    <3>2. QED
      BY <2>1, <3>1, SpawnWithKeepsTyped
  <2>4. ASSUME NEW e \in Handle, NEW c \in program.components, NEW v \in program.values,
               AddComponentCompletes(e, c, v)
        PROVE  TypedColumns'
    <3>1. c \in Component /\ v \in Value /\ e \in Entity
      BY <2>1, HandleEntity
    <3>2. AddComponent(e, c, v) /\ (c \in archetypes[LocationOf(e).arch] \/ RowThere(e))
      BY <2>4 DEF AddComponentCompletes
    <3>3. QED
      BY <2>1, <3>1, <3>2, AddKeepsTyped
  <2>5. ASSUME NEW c \in program.components, RegisterComponentType(c)
        PROVE  TypedColumns'
    <3>1. /\ c \in Component /\ columnFactories' = columnFactories \cup {c}
          /\ UNCHANGED <<archetypes, columns>>
      BY <2>1, <2>5 DEF RegisterComponentType
    <3>2. QED
      BY <3>1 DEF TypedColumns, TypedTable
  <2>6. ASSUME NEW e \in Handle, DespawnCompletes(e)
        PROVE  TypedColumns'
    BY <2>1, <2>6, DespawnKeepsTyped DEF DespawnCompletes, DespawnEntity
  <2>7. ASSUME NEW e \in Handle, NEW c \in Component, RemoveCompletes(e, c)
        PROVE  TypedColumns'
    BY <2>1, <2>7, HandleEntity, RemoveKeepsTyped DEF RemoveCompletes, RemoveStored
  <2>8. CASE SparseStep \/ ToggleStep
    BY <1>1, <2>8 DEF SparseStep, AddSparse, WriteSparse, RemoveSparse,
                      ToggleStep, DisableComponent, EnableComponent, vars, storage
  <2>9. QED
    BY <1>2, <2>2, <2>3, <2>4, <2>5, <2>6, <2>7, <2>8 DEF OrdinaryStep
<1>3. CASE SaveState \/ UNCHANGED snapshotVars
  BY <1>1, <1>3 DEF SaveState, snapshotVars, extraVars, vars, storage
<1>4. CASE LoadState
  BY <1>4, LoadColumns DEF TypedColumns
<1>5. CASE NewWorld
  <2>1. (RowsInv /\ ColumnsInv)'
    BY <1>5, NewWorldInit, InitRows, InitColumns, PTL
  <2>2. QED
    BY <2>1, InvAligned, PTL
<1>6. QED
  BY <1>2, <1>3, <1>4, <1>5 DEF SnapshotNext

(* The columns are typed, always.                                          *)
LEMMA TypedInvariant == SnapshotSpec => []TypedColumns
<1>1. SnapshotInit => TypedColumns
  BY InitRows, InitColumns, InvAligned DEF SnapshotInit, ExtraInit
<1>2. StoreInv /\ SavedInv /\ TypedColumns /\ [SnapshotNext]_snapshotVars => TypedColumns'
  BY StepKeepsTyped
<1>3. QED
  BY <1>1, <1>2, StoreInvariant, PTL DEF SnapshotSpec

(* Complete columns stay complete until a load, whatever is called and     *)
(* whatever earlier loads left, and a load leaves them complete exactly if *)
(* every type of every archetype is registered and the archetypes of       *)
(* zero-sized types have no rows: World::load_state has no bytes to fill   *)
(* their columns from.  Of tuples that name no type twice.                 *)
THEOREM ColumnsStayAlignedTheorem ==
  ASSUME BundlesDistinct
  PROVE  SnapshotSpec => ColumnsStayAligned
<1>1. ASSUME StoreInv, StoreInv', SavedInv, TypedColumns, LoadState
      PROVE  ColumnsAligned' <=> ~ LoadLoses
  BY <1>1, LoadColumns DEF TypedColumns
<1>2. ASSUME StoreInv, StoreInv', SavedInv, TypedColumns, [SnapshotNext]_snapshotVars,
             ~ LoadState, ColumnsAligned
      PROVE  ColumnsAligned'
  <2>1. RowsInv /\ RowsInv' /\ ColumnsInv
    BY <1>2, TypedAligned DEF StoreInv
  <2>2. CASE OrdinaryStep
    <3>1. [Next]_vars
      BY <1>2, <2>2, OrdinaryIsCall, OrdinaryIsNext DEF SavedInv
    <3>2. ColumnsInv'
      BY <2>1, <3>1, NextKeepsColumns
    <3>3. QED
      BY <2>1, <3>2, InvAligned, PTL
  <2>3. CASE SaveState \/ UNCHANGED snapshotVars
    <3>1. UNCHANGED <<archetypes, columns, archetypeEntities>>
      BY <2>3 DEF SaveState, snapshotVars, extraVars, vars, storage
    <3>2. QED
      BY <1>2, <3>1 DEF ColumnsAligned
  <2>4. CASE NewWorld
    <3>1. (RowsInv /\ ColumnsInv)'
      BY <2>4, NewWorldInit, InitRows, InitColumns, PTL
    <3>2. QED
      BY <3>1, InvAligned, PTL
  <2>5. QED
    BY <1>2, <2>2, <2>3, <2>4 DEF SnapshotNext
<1>3. /\ StoreInv /\ SavedInv /\ TypedColumns /\ (StoreInv /\ SavedInv)'
      /\ [SnapshotNext]_snapshotVars
      => [IF LoadState THEN ColumnsAligned' <=> ~ LoadLoses
                       ELSE ColumnsAligned => ColumnsAligned']_snapshotVars
  BY <1>1, <1>2
<1>4. QED
  BY <1>3, StoreInvariant, TypedInvariant, PTL DEF SnapshotSpec, ColumnsStayAligned
-----------------------------------------------------------------------------
(* The toggled queries.                                                    *)

(* Enabled keeps the rows with all bits clear, each once.                  *)
LEMMA EnabledRows ==
  ASSUME NEW rows \in Seq(Entity), OncePerPlace(rows), NEW T
  PROVE  /\ Enabled(rows, T) \in Seq(Entity)
         /\ OncePerPlace(Enabled(rows, T))
         /\ \A x : x \in ToSet(Enabled(rows, T)) <=>
              \E r \in 1 .. Len(rows) : x = rows[r] /\ Visible(rows[r], T)
<1> DEFINE Kept(r) == Visible(rows[r], T)
<1>1. PICK n, seqs : n = Len(rows) /\ seqs = [r \in DOMAIN rows |-> IF Kept(r) THEN <<rows[r]>> ELSE <<>>]
  OBVIOUS
<1>2. n \in Nat /\ DOMAIN rows = 1 .. n /\ \A r \in 1 .. n : rows[r] \in Entity
  BY <1>1
<1>3. Enabled(rows, T) = FlattenSeq(seqs)
  BY <1>1 DEF Enabled
<1> HIDE DEF Kept
<1>4. ASSUME NEW r \in 1 .. n
      PROVE  /\ seqs[r] \in Seq(Entity)
             /\ \A j : j \in 1 .. Len(seqs[r]) <=> j = 1 /\ Kept(r)
             /\ \A j \in 1 .. Len(seqs[r]) : seqs[r][j] = rows[r]
  <2>1. CASE Kept(r)
    <3>1. seqs[r] = <<rows[r]>>
      BY <1>1, <1>2, <2>1
    <3>2. QED
      BY <1>2, <2>1, <3>1
  <2>2. CASE ~ Kept(r)
    <3>1. seqs[r] = <<>>
      BY <1>1, <1>2, <2>2
    <3>2. QED
      BY <2>2, <3>1
  <2>3. QED
    BY <2>1, <2>2
<1>5. seqs \in [1 .. n -> Seq(Entity)]
  BY <1>1, <1>2, <1>4
<1>6. ASSUME NEW a \in 1 .. n, NEW b \in 1 .. n,
             NEW r \in 1 .. Len(seqs[a]), NEW q \in 1 .. Len(seqs[b]), seqs[a][r] = seqs[b][q]
      PROVE  a = b /\ r = q
  <2>1. rows[a] = rows[b]
    BY <1>4, <1>6
  <2>2. a = b
    BY <1>1, <2>1 DEF OncePerPlace
  <2>3. r = 1 /\ q = 1
    BY <1>4
  <2>4. QED
    BY <2>2, <2>3
<1>7. /\ FlattenSeq(seqs) \in Seq(Entity)
      /\ \A x : x \in ToSet(FlattenSeq(seqs)) <=>
           \E a \in 1 .. n : \E r \in 1 .. Len(seqs[a]) : x = seqs[a][r]
  BY ONLY <1>2, <1>5, FlattenMembers
<1>8. OncePerPlace(FlattenSeq(seqs))
  BY ONLY <1>2, <1>5, <1>6, FlattenDistinct
<1>9. \A x : (\E a \in 1 .. n : \E r \in 1 .. Len(seqs[a]) : x = seqs[a][r])
               <=> \E a \in 1 .. n : x = rows[a] /\ Kept(a)
  BY <1>4
<1>10. \A x : x \in ToSet(Enabled(rows, T)) <=>
           \E r \in 1 .. Len(rows) : x = rows[r] /\ Kept(r)
  <2>1. n = Len(rows)
    BY <1>1
  <2>2. QED
    BY ONLY <2>1, <1>3, <1>7, <1>9
<1>11. QED
  BY <1>3, <1>7, <1>8, <1>10 DEF Kept

(* Every set of natural numbers has a least one.                           *)
LEMMA LeastNumber ==
  ASSUME NEW n \in Nat, NEW S \in SUBSET Nat, n \in S
  PROVE  \E x \in S : \A y \in S : x <= y
<1>1. PICK B : B = {k \in 0 .. n : \A y \in S : k <= y}
  OBVIOUS
<1>2. 0 \in B /\ B \in SUBSET (0 .. n)
  BY <1>1
<1>3. PICK m \in B : \A k \in B : k <= m
  BY <1>2, GreatestIndex
<1>4. m \in 0 .. n /\ \A y \in S : m <= y
  BY <1>1
<1>5. CASE m \in S
  BY <1>4, <1>5
<1>6. CASE m \notin S
  <2>1. m # n /\ \A y \in S : m # y
    BY <1>6
  <2>2. m + 1 \in 0 .. n /\ \A y \in S : m + 1 <= y
    BY <1>4, <2>1
  <2>3. m + 1 \in B
    BY <1>1, <2>2
  <2>4. QED
    BY <1>3, <1>4, <2>3
<1>7. QED
  BY <1>5, <1>6

(* The entities a toggled query is asked for, and those whose row has a    *)
(* value of every type.                                                    *)
AskedEnabled(T) == {e \in Live : \A c \in T : IsComponentEnabled(e, c)}

ReachedEnabled(T) ==
  {e \in AskedEnabled(T) : HasValues(LocationOf(e).arch, LocationOf(e).row, T)}

(* The entity list of an archetype: the live handles located there, each   *)
(* at its row.                                                             *)
LEMMA RowMembers ==
  ASSUME StoreInv, NEW a \in 1 .. Len(archetypes)
  PROVE  /\ Entities(a) \in Seq(Entity)
         /\ OncePerPlace(Entities(a))
         /\ \A r \in 1 .. Len(Entities(a)) :
              Entities(a)[r] \in Live /\ LocationOf(Entities(a)[r]) = [arch |-> a, row |-> r]
         /\ \A x \in Live : LocationOf(x).arch = a =>
              /\ LocationOf(x).row \in 1 .. Len(Entities(a))
              /\ Entities(a)[LocationOf(x).row] = x
<1>0. RowsInv /\ GenerationsBounded
  BY DEF StoreInv
<1>1. PICK rows : rows = Entities(a)
  OBVIOUS
<1>2. /\ rows \in Seq(Entity)
      /\ \A r \in 1 .. Len(rows) :
           rows[r] \in Live /\ LocationOf(rows[r]) = [arch |-> a, row |-> r]
      /\ \A x \in Live : LocationOf(x).arch = a =>
           LocationOf(x).row \in 1 .. Len(rows) /\ rows[LocationOf(x).row] = x
  BY <1>0, <1>1, RowsAreLive DEF Entities
<1>3. ASSUME NEW j \in 1 .. Len(rows), NEW k \in 1 .. Len(rows), rows[j] = rows[k]
      PROVE  j = k
  <2>1. [arch |-> a, row |-> j] = [arch |-> a, row |-> k]
    BY <1>2, <1>3
  <2>2. QED
    BY <2>1
<1>4. OncePerPlace(rows)
  BY <1>3 DEF OncePerPlace
<1>5. QED
  BY <1>1, <1>2, <1>4

(* A live entity is asked for when it has the types and no bit of them is  *)
(* set.                                                                    *)
LEMMA AskedMeaning ==
  ASSUME NEW T \in SUBSET Component
  PROVE  /\ AskedEnabled(T) \subseteq Live
         /\ \A e \in Live : e \in AskedEnabled(T) <=>
              T \subseteq archetypes[LocationOf(e).arch] /\ Visible(e, T)
<1>1. \A c \in T : c \notin SparseComponent
  BY SparseAssumption
<1>2. \A e \in Live : \A c \in T : IsComponentEnabled(e, c) <=>
        c \in archetypes[LocationOf(e).arch] /\ e.index \notin disabledComponents[c]
  BY <1>1 DEF IsComponentEnabled, HasComponent, Live
<1>3. QED
  BY <1>2 DEF AskedEnabled, Visible

(* Parts of the archetypes, one behind the other, are the wanted entities, *)
(* each once, if each part is those of its archetype.                      *)
LEMMA ToggledParts ==
  ASSUME StoreInv, NEW wanted \in SUBSET Live,
         NEW parts \in [1 .. Len(archetypes) -> Seq(Entity)],
         \A a \in 1 .. Len(archetypes) :
           /\ OncePerPlace(parts[a])
           /\ \A x : x \in ToSet(parts[a]) <=> x \in wanted /\ LocationOf(x).arch = a
  PROVE  /\ Len(FlattenSeq(parts)) = Cardinality(wanted)
         /\ ToSet(FlattenSeq(parts)) = wanted
<1>0. RowsInv /\ GenerationsBounded
  BY DEF StoreInv
<1>1. PICK n : n = Len(archetypes)
  OBVIOUS
<1>2. n \in Nat /\ parts \in [1 .. n -> Seq(Entity)]
  BY <1>1 DEF StoreInv, RowsInv, RowsType
<1>3. \A a \in 1 .. n : \A x : x \in ToSet(parts[a]) <=> x \in wanted /\ LocationOf(x).arch = a
  BY <1>1
<1>4. \A a \in 1 .. n : OncePerPlace(parts[a]) /\ parts[a] \in Seq(Entity)
  BY <1>1, <1>2
<1>5. \A a \in 1 .. n : \A r \in 1 .. Len(parts[a]) : parts[a][r] \in ToSet(parts[a])
  BY <1>4 DEF ToSet
<1>6. \A a \in 1 .. n : \A x \in ToSet(parts[a]) : \E r \in 1 .. Len(parts[a]) : x = parts[a][r]
  BY <1>4 DEF ToSet
<1>7. ASSUME NEW a \in 1 .. n, NEW b \in 1 .. n,
             NEW r \in 1 .. Len(parts[a]), NEW q \in 1 .. Len(parts[b]), parts[a][r] = parts[b][q]
      PROVE  a = b /\ r = q
  <2>1. PICK x : x = parts[a][r]
    OBVIOUS
  <2>2. x \in ToSet(parts[a]) /\ x \in ToSet(parts[b])
    BY <1>5, <1>7, <2>1
  <2>3. LocationOf(x).arch = a /\ LocationOf(x).arch = b
    BY <1>3, <2>2
  <2>4. QED
    BY <1>4, <1>7, <2>3 DEF OncePerPlace
<1>8. PICK answer : answer = FlattenSeq(parts)
  OBVIOUS
<1>9. /\ answer \in Seq(Entity)
       /\ \A x : x \in ToSet(answer) <=> \E a \in 1 .. n : \E r \in 1 .. Len(parts[a]) : x = parts[a][r]
  <2>1. /\ FlattenSeq(parts) \in Seq(Entity)
        /\ \A x : x \in ToSet(FlattenSeq(parts)) <=>
             \E a \in 1 .. n : \E r \in 1 .. Len(parts[a]) : x = parts[a][r]
    BY <1>2, FlattenMembers
  <2>2. QED
    BY ONLY <1>8, <2>1
<1>10. OncePerPlace(answer)
  BY ONLY <1>2, <1>7, <1>8, FlattenDistinct
<1>11. \A x : x \in ToSet(answer) <=> x \in wanted
  <2>1. \A x \in wanted : LocationOf(x).arch \in 1 .. n
    BY <1>0, <1>1, RowsAreLive
  <2>2. ASSUME NEW x \in ToSet(answer) PROVE x \in wanted
    BY <1>3, <1>5, <1>9
  <2>3. ASSUME NEW x \in wanted PROVE x \in ToSet(answer)
    <3>1. PICK a \in 1 .. n : LocationOf(x).arch = a
      BY <2>1
    <3>2. x \in ToSet(parts[a])
      BY <1>3, <3>1
    <3>3. \E r \in 1 .. Len(parts[a]) : x = parts[a][r]
      BY ONLY <1>6, <3>2
    <3>4. QED
      BY <1>9, <3>3
  <2>4. QED
    BY <2>2, <2>3
<1>12. ToSet(answer) = wanted
  BY <1>11
<1>13. Cardinality(ToSet(answer)) = Len(answer)
  BY ONLY <1>9, <1>10, DistinctLength
<1>14. QED
  BY <1>8, <1>12, <1>13

(* How far the columns reach: the shortest of them and of the entity list. *)
LEMMA ZippedRows ==
  ASSUME StoreInv, TypedColumns, NEW T \in SUBSET Component, NEW a \in 1 .. Len(archetypes),
         T \subseteq DOMAIN columns[a]
  PROVE  /\ Zipped(a, T) \in Seq(Entity)
         /\ OncePerPlace(Zipped(a, T))
         /\ \A x : x \in ToSet(Zipped(a, T)) <=>
              \E r \in 1 .. Len(Entities(a)) : x = Entities(a)[r] /\ HasValues(a, r, T)
<1>0. PICK rows : rows = Entities(a)
  OBVIOUS
<1>1. PICK n : n = Len(rows)
  OBVIOUS
<1>2. rows \in Seq(Entity) /\ OncePerPlace(rows) /\ n \in Nat
  BY <1>0, <1>1, RowMembers
<1>3. PICK S : S = {n} \cup {Len(columns[a][c]) : c \in T}
  OBVIOUS
<1>4. S \subseteq Nat /\ n \in S
  <2>1. columns[a] \in ColumnTable
    BY DEF TypedColumns, TypedTable, ColumnTables
  <2>2. \A c \in T : columns[a][c] \in Seq(Value)
    BY <2>1, ColumnTableValues
  <2>3. QED
    BY <1>2, <1>3, <2>2
<1>5. PICK m : m = Min(S)
  OBVIOUS
<1>6. m \in S /\ \A y \in S : m <= y
  <2>1. \E x \in S : \A y \in S : x <= y
    BY ONLY <1>2, <1>4, LeastNumber
  <2>2. QED
    BY <1>5, <2>1 DEF Min
<1>7. Zipped(a, T) = SubSeq(rows, 1, m)
  BY <1>0, <1>1, <1>3, <1>5 DEF Zipped
<1>8. m \in 0 .. n
  BY <1>2, <1>4, <1>6
<1>9. PICK front : front = SubSeq(rows, 1, m)
  OBVIOUS
<1>10. front \in Seq(Entity) /\ Len(front) = m /\ \A j \in 1 .. m : front[j] = rows[j]
  <2>1. \A j \in 1 .. m : rows[j] \in Entity
    BY <1>1, <1>2, <1>8
  <2>2. QED
    BY ONLY <1>8, <1>9, <2>1, SubSeqProperties
<1>11. \A r \in 1 .. n : r <= m <=> HasValues(a, r, T)
  <2>1. ASSUME NEW r \in 1 .. n, r <= m PROVE HasValues(a, r, T)
    <3>1. \A c \in T : Len(columns[a][c]) \in S
      BY <1>3
    <3>2. \A y \in S : r <= y
      BY <1>4, <1>6, <1>8, <2>1
    <3>3. QED
      BY <3>1, <3>2 DEF HasValues
  <2>2. ASSUME NEW r \in 1 .. n, HasValues(a, r, T) PROVE r <= m
    <3>1. \A y \in S : r <= y
      BY <1>3, <2>2 DEF HasValues
    <3>2. QED
      BY <1>6, <3>1
  <2>3. QED
    BY <2>1, <2>2
<1>12. OncePerPlace(front)
  BY <1>1, <1>2, <1>8, <1>10 DEF OncePerPlace
<1>13. \A x : x \in ToSet(front) <=> \E r \in 1 .. n : x = rows[r] /\ HasValues(a, r, T)
  <2>1. \A x : x \in ToSet(front) <=> \E j \in 1 .. m : x = rows[j]
    BY <1>10 DEF ToSet
  <2>2. \A r : r \in 1 .. m <=> r \in 1 .. n /\ r <= m
    BY <1>2, <1>8
  <2>3. \A r : r \in 1 .. m <=> r \in 1 .. n /\ HasValues(a, r, T)
    BY <1>11, <2>2
  <2>4. QED
    BY <2>1, <2>3
<1>14. Zipped(a, T) = front
  BY <1>7, <1>9
<1>15. QED
  BY ONLY <1>0, <1>1, <1>10, <1>12, <1>13, <1>14

(* The sequence that an archetype without the types contributes.           *)
LEMMA NoPart ==
  <<>> \in Seq(Entity) /\ OncePerPlace(<<>>) /\ ToSet(<<>>) = {}
BY DEF OncePerPlace, ToSet

(* The walk by row visits what it is asked for, unless it panics.          *)
LEMMA ForEachAnswer ==
  ASSUME StoreInv, NEW T \in SUBSET Component
  PROVE  /\ Len(ForEachToggled(T)) = Cardinality(AskedEnabled(T))
         /\ ToSet(ForEachToggled(T)) = AskedEnabled(T)
<1>1. PICK n : n = Len(archetypes)
  OBVIOUS
<1>2. n \in Nat /\ DOMAIN archetypes = 1 .. n
  BY <1>1 DEF StoreInv, RowsInv, RowsType
<1>3. PICK parts : parts = [a \in 1 .. n |->
                     IF T \subseteq archetypes[a] THEN Visited(a, T) ELSE <<>>]
  OBVIOUS
<1>4. ForEachToggled(T) = FlattenSeq(parts)
  BY <1>2, <1>3 DEF ForEachToggled
<1>5. PICK wanted \in SUBSET Live : wanted = AskedEnabled(T)
  BY AskedMeaning
<1>6. ASSUME NEW a \in 1 .. n
      PROVE  /\ parts[a] \in Seq(Entity)
             /\ OncePerPlace(parts[a])
             /\ \A x : x \in ToSet(parts[a]) <=> x \in wanted /\ LocationOf(x).arch = a
  <2>1. PICK rows : rows = Entities(a)
    OBVIOUS
  <2>2. /\ rows \in Seq(Entity) /\ OncePerPlace(rows) /\ DOMAIN rows = 1 .. Len(rows)
        /\ \A r \in 1 .. Len(rows) :
             rows[r] \in Live /\ LocationOf(rows[r]) = [arch |-> a, row |-> r]
        /\ \A x \in Live : LocationOf(x).arch = a =>
             LocationOf(x).row \in 1 .. Len(rows) /\ rows[LocationOf(x).row] = x
    BY <1>1, <2>1, RowMembers
  <2>3. \A x \in Live : x \in wanted <=>
          T \subseteq archetypes[LocationOf(x).arch] /\ Visible(x, T)
    BY <1>5, AskedMeaning
  <2>4. CASE ~(T \subseteq archetypes[a])
    <3>1. parts[a] = <<>>
      BY <1>3, <2>4
    <3>2. \A x : ~(x \in wanted /\ LocationOf(x).arch = a)
      BY <2>3, <2>4
    <3>3. QED
      BY <3>1, <3>2, NoPart
  <2>5. CASE T \subseteq archetypes[a]
    <3>1. /\ parts[a] \in Seq(Entity)
          /\ OncePerPlace(parts[a])
          /\ \A x : x \in ToSet(parts[a]) <=>
               \E r \in 1 .. Len(rows) : x = rows[r] /\ Visible(rows[r], T)
      <4>1. CASE ~AnyDisabled(T)
        <5>1. parts[a] = rows
          BY <1>3, <2>1, <2>5, <4>1 DEF Visited
        <5>2. \A x : Visible(x, T)
          BY <4>1 DEF AnyDisabled, Visible
        <5>3. \A x : x \in ToSet(rows) <=> \E r \in 1 .. Len(rows) : x = rows[r]
          BY <2>2 DEF ToSet
        <5>4. QED
          BY <2>2, <5>1, <5>2, <5>3
      <4>2. CASE AnyDisabled(T)
        <5>1. parts[a] = Enabled(rows, T)
          BY <1>3, <2>1, <2>5, <4>2 DEF Visited
        <5>2. QED
          BY <2>2, <5>1, EnabledRows
      <4>3. QED
        BY <4>1, <4>2
    <3>2. ASSUME NEW r \in 1 .. Len(rows), Visible(rows[r], T)
          PROVE  rows[r] \in wanted /\ LocationOf(rows[r]).arch = a
      BY <2>2, <2>3, <2>5, <3>2
    <3>3. ASSUME NEW x \in wanted, LocationOf(x).arch = a
          PROVE  \E r \in 1 .. Len(rows) : x = rows[r] /\ Visible(rows[r], T)
      BY <1>5, <2>2, <2>3, <3>3
    <3>4. QED
      BY <3>1, <3>2, <3>3
  <2>6. QED
    BY <2>4, <2>5
<1>7. parts \in [1 .. n -> Seq(Entity)]
  BY <1>3, <1>6
<1>8. Len(FlattenSeq(parts)) = Cardinality(wanted) /\ ToSet(FlattenSeq(parts)) = wanted
  BY <1>1, <1>6, <1>7, ToggledParts
<1>9. QED
  BY <1>4, <1>5, <1>8

(* The zip with the columns visits the rows that have values, if there are *)
(* columns.                                                                *)
LEMMA QueryAnswer ==
  ASSUME StoreInv, TypedColumns, NEW T \in SUBSET Component, ColumnsThere(T)
  PROVE  /\ Len(QueryToggled(T)) = Cardinality(ReachedEnabled(T))
         /\ ToSet(QueryToggled(T)) = ReachedEnabled(T)
<1>1. PICK n : n = Len(archetypes)
  OBVIOUS
<1>2. n \in Nat /\ DOMAIN archetypes = 1 .. n
  BY <1>1 DEF StoreInv, RowsInv, RowsType
<1>3. PICK parts : parts = [a \in 1 .. n |->
                     IF T \subseteq archetypes[a] THEN Enabled(Zipped(a, T), T) ELSE <<>>]
  OBVIOUS
<1>4. QueryToggled(T) = FlattenSeq(parts)
  BY <1>2, <1>3 DEF QueryToggled
<1>5. PICK wanted \in SUBSET Live : wanted = ReachedEnabled(T)
  BY AskedMeaning DEF ReachedEnabled
<1>6. ASSUME NEW a \in 1 .. n
      PROVE  /\ parts[a] \in Seq(Entity)
             /\ OncePerPlace(parts[a])
             /\ \A x : x \in ToSet(parts[a]) <=> x \in wanted /\ LocationOf(x).arch = a
  <2>1. PICK rows : rows = Entities(a)
    OBVIOUS
  <2>2. /\ rows \in Seq(Entity)
        /\ \A r \in 1 .. Len(rows) :
             rows[r] \in Live /\ LocationOf(rows[r]) = [arch |-> a, row |-> r]
        /\ \A x \in Live : LocationOf(x).arch = a =>
             LocationOf(x).row \in 1 .. Len(rows) /\ rows[LocationOf(x).row] = x
    BY <1>1, <2>1, RowMembers
  <2>3. \A x \in Live : x \in wanted <=>
          /\ T \subseteq archetypes[LocationOf(x).arch] /\ Visible(x, T)
          /\ HasValues(LocationOf(x).arch, LocationOf(x).row, T)
    BY <1>5, AskedMeaning DEF ReachedEnabled
  <2>4. CASE ~(T \subseteq archetypes[a])
    <3>1. parts[a] = <<>>
      BY <1>3, <2>4
    <3>2. \A x : ~(x \in wanted /\ LocationOf(x).arch = a)
      BY <2>3, <2>4
    <3>3. QED
      BY <3>1, <3>2, NoPart
  <2>5. CASE T \subseteq archetypes[a]
    <3>1. PICK zipped : zipped = Zipped(a, T)
      OBVIOUS
    <3>2. /\ zipped \in Seq(Entity)
          /\ OncePerPlace(zipped)
          /\ \A x : x \in ToSet(zipped) <=>
               \E r \in 1 .. Len(rows) : x = rows[r] /\ HasValues(a, r, T)
      <4>1. T \subseteq DOMAIN columns[a]
        BY <1>2, <2>5 DEF ColumnsThere
      <4>2. QED
        BY <1>1, <2>1, <3>1, <4>1, ZippedRows
    <3>3. parts[a] = Enabled(zipped, T)
      BY <1>3, <2>5, <3>1
    <3>4. /\ parts[a] \in Seq(Entity)
          /\ OncePerPlace(parts[a])
          /\ \A x : x \in ToSet(parts[a]) <=> x \in ToSet(zipped) /\ Visible(x, T)
      <4>1. \A x : x \in ToSet(zipped) <=> \E r \in 1 .. Len(zipped) : x = zipped[r]
        BY <3>2 DEF ToSet
      <4>2. QED
        BY <3>2, <3>3, <4>1, EnabledRows
    <3>5. ASSUME NEW r \in 1 .. Len(rows), HasValues(a, r, T), Visible(rows[r], T)
          PROVE  rows[r] \in wanted /\ LocationOf(rows[r]).arch = a
      <4>1. PICK x : x = rows[r]
        OBVIOUS
      <4>2. x \in Live /\ LocationOf(x) = [arch |-> a, row |-> r]
        BY <2>2, <4>1
      <4>3. LocationOf(x).arch = a /\ LocationOf(x).row = r
        BY <4>2
      <4>4. QED
        BY <2>3, <2>5, <3>5, <4>1, <4>2, <4>3
    <3>6. ASSUME NEW x \in wanted, LocationOf(x).arch = a
          PROVE  \E r \in 1 .. Len(rows) : x = rows[r] /\ HasValues(a, r, T) /\ Visible(x, T)
      BY <1>5, <2>2, <2>3, <3>6
    <3>7. QED
      BY <3>2, <3>4, <3>5, <3>6
  <2>6. QED
    BY <2>4, <2>5
<1>7. parts \in [1 .. n -> Seq(Entity)]
  BY <1>3, <1>6
<1>8. Len(FlattenSeq(parts)) = Cardinality(wanted) /\ ToSet(FlattenSeq(parts)) = wanted
  BY <1>1, <1>6, <1>7, ToggledParts
<1>9. QED
  BY <1>4, <1>5, <1>8

(* The toggled queries visit exactly the entities on which all the types   *)
(* are enabled, each once, with or without the shortcut they take when no  *)
(* bit is set.  After a load that left columns short, the callbacks visit  *)
(* the same or panic, and the iterators those whose row has its values.    *)
THEOREM ToggledTheorem == SnapshotSpec => []ToggledExact
<1>1. ASSUME StoreInv, TypedColumns, NEW T \in SUBSET Component, ColumnsThere(T)
      PROVE  /\ Len(QueryToggled(T)) = Cardinality(ReachedEnabled(T))
             /\ ToSet(QueryToggled(T)) = ReachedEnabled(T)
  BY <1>1, QueryAnswer
<1>2. ASSUME StoreInv, TypedColumns PROVE ToggledExact
  BY <1>1, <1>2, ForEachAnswer DEF ToggledExact, AskedEnabled, ReachedEnabled
<1>3. StoreInv /\ TypedColumns => ToggledExact
  BY <1>2
<1>4. QED
  BY <1>3, StoreInvariant, TypedInvariant, PTL
=============================================================================
