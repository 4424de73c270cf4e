-------------------------- MODULE StorageCallsProofs --------------------------
(***************************************************************************)
(* What the calls in front of WorldStorage answer and announce.            *)
(*                                                                         *)
(* The pointer caches never answer with a place the storage does not have  *)
(* for the component.  The argument has two halves.  A slot built now      *)
(* answers what the entity locations say: the rows, the tail and the zero  *)
(* flag are in order.  And a slot that is not stale is the slot that would *)
(* be built now: what it was collected from are the rows, every call that  *)
(* moves a row marks it stale, and the calls that write values move none.  *)
(* The halves need each other, because a write goes where a slot points.   *)
(*                                                                         *)
(* The observers are called for exactly the components that a step added,  *)
(* took or replaced.  Here the argument is the refinement: a step puts one *)
(* value, takes one, ends a handle or issues one, and each of these says   *)
(* which holdings appear and which are lost.                               *)
(*                                                                         *)
(* Every way of asking a query gives the live entities that match, each    *)
(* once, with their values; a plan of archetype ids reaches what it was    *)
(* made for; a fresh borrowed plan gives what a new query would; a pass    *)
(* writes what its query names and nothing else.  That holds in every      *)
(* state whose tables are sound, whatever was called before.  What a plan  *)
(* needs besides is that an archetype never changes its set, and, for a    *)
(* borrowed one, that no row has moved.                                    *)
(***************************************************************************)
EXTENDS ComponentLookup, Notifications, Queries, WorldStorageProofs

-----------------------------------------------------------------------------
(* Slots read off the rows, without looking at the columns.                *)

(* Where index i's component of type c is.                                 *)
Place(i, c) ==
  IF entityLocations[i] # NoLocation /\ c \in archetypes[entityLocations[i].arch]
  THEN entityLocations[i] ELSE NoLocation

IdentityTables(c) ==
  {a \in 1 .. Len(archetypes) :
     /\ c \in archetypes[a]
     /\ Len(archetypeEntities[a]) # 0
     /\ \A r \in 1 .. Len(archetypeEntities[a]) : archetypeEntities[a][r].index = r - 1}

Places(c) == [i \in 0 .. nextEntityIndex - 1 |-> Place(i, c)]

TheGenerations ==
  [i \in 0 .. nextEntityIndex - 1 |-> IF allGenerationsZero THEN 0 ELSE entityGenerations[i]]

ThePrefix(c) ==
  IF Cardinality(IdentityTables(c)) = 1 THEN CHOOSE a \in IdentityTables(c) : TRUE ELSE 0

PrefixLen(c) == IF ThePrefix(c) = 0 THEN 0 ELSE Len(archetypeEntities[ThePrefix(c)])

RowGenerationSlot(c) ==
  [fresh |-> TRUE, type |-> c, pointers |-> Places(c), generations |-> TheGenerations]

RowZeroSlot(c) ==
  [fresh |-> TRUE, type |-> c, pointers |-> Places(c), prefix |-> ThePrefix(c),
   prefixLen |-> PrefixLen(c), coversTail |-> CoversTail(PrefixLen(c))]

(* The inductive invariant of the caches: a slot is stale or up to date.   *)
CacheInv ==
  /\ zeroCache = [o \in Owner |-> zeroCache[o]]
  /\ generationCache = [o \in Owner |-> generationCache[o]]
  /\ \A o \in Owner :
       /\ zeroCache[o] = Stale \/ \E c \in Component : zeroCache[o] = RowZeroSlot(c)
       /\ generationCache[o] = Stale
            \/ \E c \in Component : generationCache[o] = RowGenerationSlot(c)

(* What the storage is known to be between two calls.                      *)
WorldInv == StorageInv /\ TailInv /\ ZeroFlagSound

LookupInv == WorldInv /\ CacheInv

-----------------------------------------------------------------------------
(* A slot built now is read off the rows.                                  *)

(* With distinct bundles every column has one value per row.               *)
LEMMA ColumnLengths ==
  ASSUME BundlesDistinct, StorageInv, NEW a \in 1 .. Len(archetypes)
  PROVE  /\ DOMAIN columns[a] = archetypes[a]
         /\ archetypeEntities[a] \in Seq(Entity)
         /\ Len(archetypeEntities[a]) \in Nat
         /\ DOMAIN archetypeEntities[a] = 1 .. Len(archetypeEntities[a])
         /\ \A c \in archetypes[a] :
              /\ columns[a][c] \in Seq(Value)
              /\ Len(columns[a][c]) = Len(archetypeEntities[a])
<1>1. /\ Aligned(Len(archetypes), archetypes, archetypeEntities, columns)
      /\ archetypeEntities \in Tables(Len(archetypes))
  BY DEF StorageInv, ColumnsInv, RowsInv, RowsType
<1>2. /\ DOMAIN columns[a] = archetypes[a]
      /\ archetypeEntities[a] \in Seq(Entity)
      /\ \A c \in archetypes[a] :
           /\ columns[a][c] \in Seq(Value)
           /\ Len(columns[a][c]) = Len(archetypeEntities[a])
  BY <1>1, ExactColumns
<1>3. QED
  BY <1>2, LenProperties

(* The scan over the rows finds index i where its location says, or not    *)
(* at all.                                                                 *)
LEMMA HoldersExact ==
  ASSUME BundlesDistinct, StorageInv, NEW i \in Index, NEW c \in Component
  PROVE  Holders(i, c) = IF Place(i, c) = NoLocation THEN {} ELSE {Place(i, c)}
<1> DEFINE n == Len(archetypes)
           loc == entityLocations[i]
           All == {[arch |-> a, row |-> r] : a \in 1 .. n, r \in 1 .. MaxEntities}
<1>1. /\ n \in Nat /\ DOMAIN archetypes = 1 .. n
      /\ RowsType /\ RowsMatch
      /\ loc \in Location
  BY DEF StorageInv, RowsInv, RowsType
<1>2. \A a \in 1 .. n : /\ DOMAIN columns[a] = archetypes[a]
                        /\ DOMAIN archetypeEntities[a] = 1 .. Len(archetypeEntities[a])
  BY ColumnLengths
<1>3. Holders(i, c) =
        {at \in All : /\ c \in DOMAIN columns[at.arch]
                      /\ at.row \in DOMAIN archetypeEntities[at.arch]
                      /\ archetypeEntities[at.arch][at.row].index = i}
  BY <1>1 DEF Holders
<1>4. ASSUME NEW at \in Holders(i, c) PROVE at = loc /\ Place(i, c) = loc /\ loc # NoLocation
  <2>1. PICK a \in 1 .. n, r \in 1 .. MaxEntities :
          /\ at = [arch |-> a, row |-> r]
          /\ c \in archetypes[a]
          /\ r \in 1 .. Len(archetypeEntities[a])
          /\ archetypeEntities[a][r].index = i
    BY <1>2, <1>3
  <2>2. loc = [arch |-> a, row |-> r]
    BY <1>1, <2>1 DEF RowsMatch, Corresponds
  <2>3. loc # NoLocation /\ c \in archetypes[loc.arch]
    BY <2>1, <2>2 DEF NoLocation
  <2>4. QED
    BY <2>1, <2>2, <2>3 DEF Place
<1>5. ASSUME Place(i, c) # NoLocation PROVE Place(i, c) = loc /\ loc \in Holders(i, c)
  <2>1. loc # NoLocation /\ c \in archetypes[loc.arch] /\ Place(i, c) = loc
    BY <1>5 DEF Place
  <2>2. /\ loc.arch \in 1 .. n
        /\ loc.row \in 1 .. Len(archetypeEntities[loc.arch])
        /\ archetypeEntities[loc.arch][loc.row].index = i
    BY <1>1, <2>1 DEF RowsMatch, Corresponds
  <2>3. loc.row \in 1 .. MaxEntities
    BY <1>1, <2>2, RowsBounded, MaxEntitiesAssumption
  <2>4. loc = [arch |-> loc.arch, row |-> loc.row]
    BY <1>1 DEF Location
  <2> HIDE DEF loc
  <2>5. loc \in All
    BY <2>2, <2>3, <2>4
  <2>6. QED
    BY <1>2, <1>3, <2>1, <2>2, <2>5
<1>6. CASE Place(i, c) = NoLocation
  BY <1>4, <1>6
<1>7. CASE Place(i, c) # NoLocation
  BY <1>4, <1>5, <1>7
<1>8. QED
  BY <1>6, <1>7

LEMMA PointersExact ==
  ASSUME BundlesDistinct, StorageInv, NEW c \in Component
  PROVE  Pointers(c) = Places(c)
<1>1. 0 .. nextEntityIndex - 1 \subseteq Index
  BY MaxEntitiesAssumption DEF StorageInv, RowsInv, RowsType, Index
<1>2. ASSUME NEW i \in 0 .. nextEntityIndex - 1
      PROVE  Place(i, c) = IF Holders(i, c) = {} THEN NoLocation
                           ELSE CHOOSE at \in Holders(i, c) : TRUE
  <2>1. Holders(i, c) = IF Place(i, c) = NoLocation THEN {} ELSE {Place(i, c)}
    BY <1>1, HoldersExact
  <2>2. CASE Place(i, c) = NoLocation
    BY <2>1, <2>2
  <2>3. CASE Place(i, c) # NoLocation
    BY <2>1, <2>3
  <2>4. QED
    BY <2>2, <2>3
<1>3. QED
  BY <1>2 DEF Pointers, Places

LEMMA PrefixesExact ==
  ASSUME BundlesDistinct, StorageInv, NEW c \in Component
  PROVE  IdentityPrefixes(c) = IdentityTables(c)
<1>1. DOMAIN archetypes = 1 .. Len(archetypes)
  BY DEF StorageInv, RowsInv, RowsType
<1>2. ASSUME NEW a \in 1 .. Len(archetypes)
      PROVE  /\ DOMAIN columns[a] = archetypes[a]
             /\ DOMAIN archetypeEntities[a] = 1 .. Len(archetypeEntities[a])
             /\ c \in archetypes[a] =>
                  (columns[a][c] # <<>> <=> Len(archetypeEntities[a]) # 0)
  <2>1. c \in archetypes[a] =>
          columns[a][c] \in Seq(Value) /\ Len(columns[a][c]) = Len(archetypeEntities[a])
    BY ColumnLengths
  <2>2. c \in archetypes[a] => (columns[a][c] # <<>> <=> Len(columns[a][c]) # 0)
    BY <2>1, EmptySeq
  <2>3. QED
    BY <2>1, <2>2, ColumnLengths
<1>3. QED
  BY <1>1, <1>2 DEF IdentityPrefixes, IdentityTables

(* The prefix is an archetype of the type whose rows count up, or none.    *)
LEMMA PrefixProperties ==
  ASSUME RowsType, NEW c \in Component, ThePrefix(c) # 0
  PROVE  ThePrefix(c) \in IdentityTables(c) /\ ThePrefix(c) \in 1 .. Len(archetypes)
<1>1. Cardinality(IdentityTables(c)) = 1 /\ ThePrefix(c) = CHOOSE a \in IdentityTables(c) : TRUE
  BY DEF ThePrefix
<1>2. IdentityTables(c) # {}
  BY <1>1, FS_EmptySet
<1>3. IdentityTables(c) \subseteq 1 .. Len(archetypes)
  BY DEF IdentityTables
<1>4. QED
  BY <1>1, <1>2, <1>3

LEMMA SlotsExact ==
  ASSUME BundlesDistinct, StorageInv, NEW c \in Component
  PROVE  ZeroSlot(c) = RowZeroSlot(c) /\ GenerationSlot(c) = RowGenerationSlot(c)
<1> DEFINE prefix == IF Cardinality(IdentityPrefixes(c)) = 1
                     THEN CHOOSE a \in IdentityPrefixes(c) : TRUE ELSE 0
           prefixLen == IF prefix = 0 THEN 0 ELSE Len(columns[prefix][c])
<1>1. Pointers(c) = Places(c)
  BY PointersExact
<1>2. prefix = ThePrefix(c)
  <2>1. IdentityPrefixes(c) = IdentityTables(c)
    BY PrefixesExact
  <2>2. QED
    BY <2>1 DEF ThePrefix
<1>3. prefixLen = PrefixLen(c)
  <2>1. CASE prefix = 0
    BY <1>2, <2>1 DEF PrefixLen
  <2>2. CASE prefix # 0
    <3>1. ThePrefix(c) \in 1 .. Len(archetypes) /\ c \in archetypes[ThePrefix(c)]
      BY <1>2, <2>2, PrefixProperties DEF StorageInv, RowsInv, IdentityTables
    <3>2. Len(columns[ThePrefix(c)][c]) = Len(archetypeEntities[ThePrefix(c)])
      BY <3>1, ColumnLengths
    <3>3. QED
      BY <1>2, <2>2, <3>2 DEF PrefixLen
  <2>3. QED
    BY <2>1, <2>2
<1>4. ZeroSlot(c) = [fresh |-> TRUE, type |-> c, pointers |-> Pointers(c), prefix |-> prefix,
                     prefixLen |-> prefixLen, coversTail |-> CoversTail(prefixLen)]
  BY DEF ZeroSlot
<1> HIDE DEF prefix, prefixLen
<1>5. ZeroSlot(c) = RowZeroSlot(c)
  BY <1>1, <1>2, <1>3, <1>4 DEF RowZeroSlot
<1>6. GenerationSlot(c) = RowGenerationSlot(c)
  BY <1>1 DEF GenerationSlot, RowGenerationSlot, TheGenerations
<1>7. QED
  BY <1>5, <1>6

-----------------------------------------------------------------------------
(* A lookup answers what the storage has.                                  *)

(* A fresh slot of the right type is the slot that would be built now, so  *)
(* it does not matter whether the lookup finds it or builds it.            *)
LEMMA RefreshedExact ==
  ASSUME BundlesDistinct, LookupInv, NEW o \in Owner, NEW c \in Component
  PROVE  /\ Refreshed(zeroCache[o], c, ZeroSlot(c)) = RowZeroSlot(c)
         /\ Refreshed(generationCache[o], c, GenerationSlot(c)) = RowGenerationSlot(c)
<1>1. ZeroSlot(c) = RowZeroSlot(c) /\ GenerationSlot(c) = RowGenerationSlot(c)
  BY SlotsExact DEF LookupInv, WorldInv
<1>2. \A d \in Component : RowZeroSlot(d).type = d /\ RowGenerationSlot(d).type = d
  BY DEF RowZeroSlot, RowGenerationSlot
<1>3. Fresh(zeroCache[o], c) => zeroCache[o] = RowZeroSlot(c)
  BY <1>2 DEF LookupInv, CacheInv, Fresh
<1>4. Fresh(generationCache[o], c) => generationCache[o] = RowGenerationSlot(c)
  BY <1>2 DEF LookupInv, CacheInv, Fresh
<1>5. QED
  BY <1>1, <1>3, <1>4 DEF Refreshed

(* An index that was never used has no row.                                *)
LEMMA UnusedPlace ==
  ASSUME StorageInv, NEW i \in Index, i \notin 0 .. nextEntityIndex - 1, NEW c \in Component
  PROVE  Place(i, c) = NoLocation
<1>1. i \in Nat /\ nextEntityIndex \in Nat
  BY MaxEntitiesAssumption DEF StorageInv, RowsInv, RowsType, Index
<1>2. i >= nextEntityIndex
  BY <1>1
<1>3. entityLocations[i] = NoLocation
  BY <1>2 DEF StorageInv, RowsInv, FreeIndicesExact
<1>4. QED
  BY <1>3 DEF Place

(* The shortcut for rows that count up from index 0.                       *)
LEMMA PrefixPlace ==
  ASSUME StorageInv, NEW c \in Component, NEW i \in Index, i < PrefixLen(c)
  PROVE  Place(i, c) = [arch |-> ThePrefix(c), row |-> i + 1]
<1> DEFINE a == ThePrefix(c)
           rows == archetypeEntities[a]
<1>1. i \in Nat
  BY MaxEntitiesAssumption DEF Index
<1>2. a # 0
  BY <1>1 DEF PrefixLen
<1>3. a \in IdentityTables(c) /\ a \in 1 .. Len(archetypes) /\ PrefixLen(c) = Len(rows)
  BY <1>2, PrefixProperties DEF StorageInv, RowsInv, PrefixLen
<1>4. Len(rows) \in Nat
  BY <1>3, TablesRows, LenProperties DEF StorageInv, RowsInv, RowsType
<1>5. i + 1 \in 1 .. Len(rows)
  BY <1>1, <1>3, <1>4
<1>6. rows[i + 1].index = (i + 1) - 1 /\ c \in archetypes[a]
  BY <1>3, <1>5 DEF IdentityTables
<1>7. rows[i + 1].index = i
  BY <1>1, <1>6
<1>8. entityLocations[i] = [arch |-> a, row |-> i + 1]
  BY <1>3, <1>5, <1>7 DEF StorageInv, RowsInv, RowsMatch, Corresponds
<1> HIDE DEF a
<1>9. entityLocations[i] # NoLocation /\ c \in archetypes[entityLocations[i].arch]
  BY <1>3, <1>6, <1>8 DEF NoLocation
<1>10. QED
  BY <1>8, <1>9 DEF Place, a

(* Both kinds of slot answer with the place of a handle of the current     *)
(* generation; the zero slot is asked only below the tail.                 *)
LEMMA ZeroAnswerExact ==
  ASSUME StorageInv, NEW c \in Component, NEW e \in Handle, e.index < componentlessTailStart
  PROVE  ZeroAnswer(RowZeroSlot(c), e) = Place(e.index, c)
<1> DEFINE slot == RowZeroSlot(c)
           i == e.index
<1>1. i \in Index
  BY DEF Handle
<1>2. /\ slot.prefix = ThePrefix(c) /\ slot.prefixLen = PrefixLen(c)
      /\ slot.pointers = Places(c)
      /\ slot.coversTail = CoversTail(PrefixLen(c))
  BY DEF RowZeroSlot
<1> HIDE DEF slot
<1>3. CASE slot.coversTail \/ i < slot.prefixLen
  <2>1. i < PrefixLen(c)
    BY <1>2, <1>3 DEF CoversTail
  <2>2. Place(i, c) = [arch |-> ThePrefix(c), row |-> i + 1]
    BY <1>1, <2>1, PrefixPlace
  <2>3. QED
    BY <1>2, <1>3, <2>2 DEF ZeroAnswer, slot
<1>4. CASE ~ (slot.coversTail \/ i < slot.prefixLen)
  <2>1. ZeroAnswer(slot, e) = IF i \in 0 .. nextEntityIndex - 1 THEN Place(i, c) ELSE NoLocation
    BY <1>2, <1>4 DEF ZeroAnswer, Places
  <2>2. QED
    BY <1>1, <2>1, UnusedPlace DEF slot
<1>5. QED
  BY <1>3, <1>4

LEMMA GenerationAnswerExact ==
  ASSUME StorageInv, ~ allGenerationsZero, NEW c \in Component, NEW e \in Handle
  PROVE  GenerationAnswer(RowGenerationSlot(c), e)
           = IF entityGenerations[e.index] = e.generation THEN Place(e.index, c) ELSE NoLocation
<1> DEFINE slot == RowGenerationSlot(c)
           i == e.index
<1>1. i \in Index
  BY DEF Handle
<1>2. slot.pointers = Places(c) /\ slot.generations = TheGenerations
  BY DEF RowGenerationSlot
<1> HIDE DEF slot
<1>3. CASE i \in 0 .. nextEntityIndex - 1
  BY <1>2, <1>3 DEF GenerationAnswer, Places, TheGenerations, slot
<1>4. CASE i \notin 0 .. nextEntityIndex - 1
  BY <1>1, <1>2, <1>4, UnusedPlace DEF GenerationAnswer, Places, slot
<1>5. QED
  BY <1>3, <1>4

(* An index from the tail on is in no archetype with components.           *)
LEMMA TailPlace ==
  ASSUME WorldInv, NEW i \in Index, i >= componentlessTailStart, NEW c \in Component
  PROVE  Place(i, c) = NoLocation
<1>1. i \in Int /\ maxNonemptyEntityIndex \in Int
  BY MaxEntitiesAssumption DEF WorldInv, TailInv, Index, None
<1>2. entityLocations[i].arch \in {0, EmptyArchetype}
  BY <1>1 DEF WorldInv, TailInv, TailExact
<1>3. entityLocations[i] # NoLocation => entityLocations[i].arch # 0
  BY DEF WorldInv, StorageInv, RowsInv, RowsMatch, Corresponds
<1>4. archetypes[EmptyArchetype] = {}
  BY DEF WorldInv, StorageInv, RowsInv, RowsType
<1>5. QED
  BY <1>2, <1>3, <1>4 DEF Place

(* What a handle's location says of its component.                         *)
Stored(e, c) ==
  IF LocationOf(e) # NoLocation /\ c \in archetypes[LocationOf(e).arch]
  THEN LocationOf(e) ELSE NoLocation

LEMMA StoredPlace ==
  ASSUME NEW e \in Handle, NEW c \in Component
  PROVE  Stored(e, c) = IF entityGenerations[e.index] = e.generation
                          THEN Place(e.index, c) ELSE NoLocation
BY DEF Stored, Place, LocationOf

LEMMA AnswerExact ==
  ASSUME BundlesDistinct, LookupInv, NEW o \in Owner, NEW e \in Handle, NEW c \in Component
  PROVE  Answer(o, e, c) = Stored(e, c)
<1>1. /\ e.index \in Index /\ e.index \in Int /\ e.generation \in Nat
      /\ componentlessTailStart \in Int
      /\ WorldInv /\ StorageInv
  BY HandleEntity, EntityFields, MaxEntitiesAssumption
  DEF LookupInv, WorldInv, TailInv, TailExact, Index, None
<1>2. /\ Refreshed(zeroCache[o], c, ZeroSlot(c)) = RowZeroSlot(c)
      /\ Refreshed(generationCache[o], c, GenerationSlot(c)) = RowGenerationSlot(c)
  BY RefreshedExact
<1>3. allGenerationsZero => entityGenerations[e.index] = 0
  BY <1>1 DEF WorldInv, ZeroFlagSound
<1>4. CASE e.index >= componentlessTailStart
  <2>1. Place(e.index, c) = NoLocation
    BY <1>1, <1>4, TailPlace
  <2>2. Answer(o, e, c) = NoLocation
    BY <1>4 DEF Answer, Refused
  <2>3. QED
    BY <2>1, <2>2, StoredPlace
<1>5. CASE allGenerationsZero /\ e.generation # 0
  <2>1. Answer(o, e, c) = NoLocation
    BY <1>5 DEF Answer, Refused
  <2>2. QED
    BY <1>3, <1>5, <2>1, StoredPlace
<1>6. CASE ~ Refused(e) /\ allGenerationsZero
  <2>1. e.index < componentlessTailStart /\ e.generation = 0
    BY <1>1, <1>6 DEF Refused
  <2>2. Answer(o, e, c) = ZeroAnswer(RowZeroSlot(c), e)
    BY <1>2, <1>6 DEF Answer
  <2>3. ZeroAnswer(RowZeroSlot(c), e) = Place(e.index, c)
    BY <1>1, <2>1, ZeroAnswerExact
  <2>4. QED
    BY <1>3, <1>6, <2>1, <2>2, <2>3, StoredPlace
<1>7. CASE ~ Refused(e) /\ ~ allGenerationsZero
  <2>1. Answer(o, e, c) = GenerationAnswer(RowGenerationSlot(c), e)
    BY <1>2, <1>7 DEF Answer
  <2>2. QED
    BY <1>1, <1>7, <2>1, GenerationAnswerExact, StoredPlace
<1>8. QED
  BY <1>4, <1>5, <1>6, <1>7 DEF Refused

LEMMA AnswersAreExact ==
  ASSUME BundlesDistinct, LookupInv
  PROVE  LookupsExact
BY AnswerExact DEF LookupsExact, Stored

-----------------------------------------------------------------------------
(* The calls.                                                              *)

(* What the slots are collected from.                                      *)
rows == <<nextEntityIndex, entityGenerations, allGenerationsZero, entityLocations, tail,
          archetypes, archetypeEntities>>

LEMMA SameRowsSameSlots ==
  ASSUME UNCHANGED rows, NEW c
  PROVE  RowZeroSlot(c)' = RowZeroSlot(c) /\ RowGenerationSlot(c)' = RowGenerationSlot(c)
<1>1. Places(c)' = Places(c) /\ TheGenerations' = TheGenerations
  BY DEF rows, Places, Place, TheGenerations
<1>2. IdentityTables(c)' = IdentityTables(c)
  BY DEF rows, IdentityTables
<1>3. ThePrefix(c)' = ThePrefix(c)
  BY <1>2 DEF ThePrefix
<1>4. PrefixLen(c)' = PrefixLen(c)
  BY <1>3 DEF rows, PrefixLen
<1>5. CoversTail(PrefixLen(c))' = CoversTail(PrefixLen(c))
  BY <1>4 DEF rows, tail, CoversTail
<1>6. QED
  BY <1>1, <1>3, <1>4, <1>5 DEF RowZeroSlot, RowGenerationSlot

(* A write of a value moves no row.                                        *)
LEMMA WriteKeepsRows ==
  ASSUME NEW at, NEW c, NEW v, Write(at, c, v)
  PROVE  UNCHANGED rows
BY DEF Write, rows, allocator

(* While no row moves, slots stay up to date, whichever are built.         *)
LEMMA SlotsKept ==
  ASSUME LookupInv, UNCHANGED rows, UNCHANGED <<generationCache, zeroCache>>
  PROVE  CacheInv'
BY SameRowsSameSlots DEF LookupInv, CacheInv

LEMMA LookupKeepsSlots ==
  ASSUME BundlesDistinct, LookupInv, UNCHANGED rows,
         NEW o \in Owner, NEW e, NEW c \in Component, Lookup(o, e, c)
  PROVE  CacheInv'
<1>1. CASE UNCHANGED <<generationCache, zeroCache>>
  BY <1>1, SlotsKept
<1>2. /\ zeroCache = [p \in Owner |-> zeroCache[p]]
      /\ generationCache = [p \in Owner |-> generationCache[p]]
  BY DEF LookupInv, CacheInv
<1>3. /\ Refreshed(zeroCache[o], c, ZeroSlot(c)) = RowZeroSlot(c)
      /\ Refreshed(generationCache[o], c, GenerationSlot(c)) = RowGenerationSlot(c)
  BY RefreshedExact
<1>4. CASE /\ zeroCache' = [zeroCache EXCEPT ![o] = Refreshed(@, c, ZeroSlot(c))]
           /\ UNCHANGED generationCache
  <2>1. zeroCache' = [p \in Owner |-> IF p = o THEN RowZeroSlot(c) ELSE zeroCache[p]]
    BY <1>2, <1>3, <1>4
  <2>2. QED
    BY <1>2, <1>4, <2>1, SameRowsSameSlots DEF LookupInv, CacheInv
<1>5. CASE /\ generationCache' = [generationCache EXCEPT ![o] = Refreshed(@, c, GenerationSlot(c))]
           /\ UNCHANGED zeroCache
  <2>1. generationCache' = [p \in Owner |-> IF p = o THEN RowGenerationSlot(c) ELSE generationCache[p]]
    BY <1>2, <1>3, <1>5
  <2>2. QED
    BY <1>2, <1>5, <2>1, SameRowsSameSlots DEF LookupInv, CacheInv
<1>6. QED
  BY <1>1, <1>4, <1>5 DEF Lookup

(* Every call that moves rows marks every slot.                            *)
LEMMA BumpKeepsSlots ==
  ASSUME Bump
  PROVE  CacheInv'
BY DEF Bump, AllStale, CacheInv

(* add_component on a type the entity has writes to the entity's row,      *)
(* through the slot or not.                                                *)
LEMMA AddExistingWrites ==
  ASSUME BundlesDistinct, LookupInv,
         NEW e \in Handle, NEW c \in Component, NEW v \in Value, AddExisting(e, c, v)
  PROVE  /\ LocationOf(e) # NoLocation
         /\ c \in archetypes[LocationOf(e).arch]
         /\ Write(LocationOf(e), c, v)
         /\ UNCHANGED <<generationCache, zeroCache>>
<1> DEFINE at    == LocationOf(e)
           slot  == IF allGenerationsZero THEN zeroCache["world"] ELSE generationCache["world"]
           quick == e.index < componentlessTailStart /\ Fresh(slot, c)
           found == IF quick THEN Answer("world", e, c) ELSE NoLocation
<1>1. /\ at # NoLocation
      /\ c \in archetypes[at.arch]
      /\ Write(IF found # NoLocation THEN found ELSE at, c, v)
      /\ UNCHANGED <<generationCache, zeroCache>>
  BY DEF AddExisting
<1>2. Answer("world", e, c) = at
  BY <1>1, AnswerExact DEF Owner, Stored
<1>3. found # NoLocation => found = at
  BY <1>2
<1> HIDE DEF found, at
<1>4. (IF found # NoLocation THEN found ELSE at) = at
  BY <1>3
<1>5. QED
  BY <1>1, <1>4 DEF at

(* A reference of get_component_mut leads to the component of the handle,  *)
(* and there is none for a handle without it.                              *)
LEMMA GetComponentMutWrites ==
  ASSUME BundlesDistinct, LookupInv,
         NEW e \in Handle, NEW c \in Component, NEW v \in Value, GetComponentMut(e, c, v)
  PROVE  /\ Lookup("world", e, c)
         /\ \/ /\ LocationOf(e) # NoLocation
               /\ c \in archetypes[LocationOf(e).arch]
               /\ Write(LocationOf(e), c, v)
            \/ /\ ~ (LocationOf(e) # NoLocation /\ c \in archetypes[LocationOf(e).arch])
               /\ UNCHANGED vars
<1>1. Answer("world", e, c) = Stored(e, c)
  BY AnswerExact DEF Owner
<1>2. /\ Lookup("world", e, c)
      /\ \/ Stored(e, c) # NoLocation /\ Write(Stored(e, c), c, v)
         \/ Stored(e, c) = NoLocation /\ UNCHANGED vars
  BY <1>1 DEF GetComponentMut
<1>3. CASE LocationOf(e) # NoLocation /\ c \in archetypes[LocationOf(e).arch]
  BY <1>2, <1>3 DEF Stored
<1>4. CASE ~ (LocationOf(e) # NoLocation /\ c \in archetypes[LocationOf(e).arch])
  BY <1>2, <1>4 DEF Stored
<1>5. QED
  BY <1>3, <1>4

(* So a write through a slot is an add_component of the storage.           *)
LEMMA WriteIsStorageStep ==
  ASSUME NEW e \in Handle, NEW c \in Component, NEW v \in Value,
         LocationOf(e) # NoLocation, c \in archetypes[LocationOf(e).arch],
         Write(LocationOf(e), c, v)
  PROVE  Next
<1>1. Overwrite(LocationOf(e), c, v)
  BY DEF Write, Overwrite
<1>2. AddComponent(e, c, v)
  BY <1>1 DEF AddComponent
<1>3. QED
  BY <1>2 DEF Next

(* Every call is a call of the storage, or one that leaves it alone, and   *)
(* keeps the slots up to date.                                             *)
LEMMA NextKeepsSlots ==
  ASSUME BundlesDistinct, LookupInv, [LookupNext]_lookupVars
  PROVE  [Next]_vars /\ CacheInv'
<1>1. CASE Structural /\ Bump
  <2>1. Next
    BY <1>1 DEF Structural, AddMissing, Next
  <2>2. QED
    BY <1>1, <2>1, BumpKeepsSlots
<1>2. ASSUME NEW c \in Component, RegisterComponentType(c),
             UNCHANGED <<generationCache, zeroCache>>
      PROVE  [Next]_vars /\ CacheInv'
  <2>1. UNCHANGED rows
    BY <1>2 DEF RegisterComponentType, rows, allocator
  <2>2. QED
    BY <1>2, <2>1, SlotsKept DEF Next
<1>3. UNCHANGED vars => UNCHANGED rows
  BY DEF vars, rows, allocator, storage
<1>4. ASSUME NEW e \in Handle, NEW c \in Component, GetComponent(e, c)
      PROVE  [Next]_vars /\ CacheInv'
  <2>1. UNCHANGED vars /\ Lookup("thread", e, c) /\ "thread" \in Owner
    BY <1>4 DEF GetComponent, Owner
  <2>2. QED
    BY <1>3, <2>1, LookupKeepsSlots
<1>5. ASSUME NEW e \in Handle, NEW c \in Component, NEW v \in Value, GetComponentMut(e, c, v)
      PROVE  [Next]_vars /\ CacheInv'
  <2>1. /\ Lookup("world", e, c)
        /\ \/ /\ LocationOf(e) # NoLocation
              /\ c \in archetypes[LocationOf(e).arch]
              /\ Write(LocationOf(e), c, v)
           \/ UNCHANGED vars
    BY <1>5, GetComponentMutWrites
  <2>2. UNCHANGED rows /\ "world" \in Owner
    BY <1>3, <2>1, WriteKeepsRows DEF Owner
  <2>3. QED
    BY <2>1, <2>2, LookupKeepsSlots, WriteIsStorageStep
<1>6. ASSUME NEW e \in Handle, NEW c \in Component, NEW v \in Value, AddExisting(e, c, v)
      PROVE  [Next]_vars /\ CacheInv'
  <2>1. /\ LocationOf(e) # NoLocation
        /\ c \in archetypes[LocationOf(e).arch]
        /\ Write(LocationOf(e), c, v)
        /\ UNCHANGED <<generationCache, zeroCache>>
    BY <1>6, AddExistingWrites
  <2>2. QED
    BY <2>1, WriteKeepsRows, SlotsKept, WriteIsStorageStep
<1>7. CASE UNCHANGED lookupVars
  BY <1>3, <1>7, SlotsKept DEF lookupVars
<1>8. QED
  BY <1>1, <1>2, <1>4, <1>5, <1>6, <1>7 DEF LookupNext

(* LookupInv is inductive.                                                 *)
LEMMA NextKeepsLookups ==
  ASSUME BundlesDistinct, LookupInv, [LookupNext]_lookupVars
  PROVE  LookupInv'
<1>1. [Next]_vars /\ CacheInv' /\ StorageInv /\ TailInv /\ ZeroFlagSound
  BY NextKeepsSlots DEF LookupInv, WorldInv
<1>2. RowsInv' /\ ColumnsInv' /\ TailInv'
  BY <1>1, NextKeepsRows, NextKeepsColumns, NextKeepsTail DEF StorageInv
<1>3. GenerationsBounded'
  BY <1>1, NextKeepsBounds DEF StorageInv
<1>4. ZeroFlagSound'
  BY <1>1, NextKeepsZeroFlag
<1>5. QED
  BY <1>1, <1>2, <1>3, <1>4 DEF LookupInv, WorldInv, StorageInv

LEMMA InitLookups == LookupInit => LookupInv
<1> SUFFICES ASSUME LookupInit PROVE LookupInv
  OBVIOUS
<1>1. Init
  BY DEF LookupInit
<1>2. RowsInv /\ ColumnsInv /\ TailInv
  BY <1>1, InitRows, InitColumns, InitTail
<1>3. GenerationsBounded /\ ZeroFlagSound
  BY <1>1, MaxGenerationAssumption DEF Init, GenerationsBounded, ZeroFlagSound
<1>4. CacheInv
  BY DEF LookupInit, CacheInv, AllStale
<1>5. QED
  BY <1>2, <1>3, <1>4 DEF LookupInv, WorldInv, StorageInv
-----------------------------------------------------------------------------
(* The theorems.                                                           *)

LEMMA LookupInvariant ==
  ASSUME BundlesDistinct
  PROVE  LookupSpec => []LookupInv
<1>1. LookupInv /\ [LookupNext]_lookupVars => LookupInv'
  BY NextKeepsLookups
<1>2. QED
  BY <1>1, InitLookups, PTL DEF LookupSpec

(* No raw pointer survives the row it was taken from: with tuples that     *)
(* name no type twice, every lookup through every slot returns the place   *)
(* of the component, and nothing for a handle that is dead, reused or      *)
(* without it.                                                             *)
THEOREM LookupsTheorem ==
  ASSUME BundlesDistinct
  PROVE  LookupSpec => []LookupsExact
<1>1. LookupInv => LookupsExact
  BY AnswersAreExact
<1>2. QED
  BY <1>1, LookupInvariant, PTL

(* What one call writes. *)
WritesReach ==
  \A e \in Handle, c \in Component, v \in Value :
    LET at     == LocationOf(e)
        itself == IF at # NoLocation /\ c \in archetypes[at.arch]
                  THEN [columns EXCEPT ![at.arch][c][at.row] = v]
                  ELSE columns
    IN  UNCHANGED archetypeEntities /\ columns' # itself =>
          ~AddExisting(e, c, v) /\ ~GetComponentMut(e, c, v)

(* A write through a cached pointer changes the named component of the     *)
(* named entity and nothing else.                                          *)
THEOREM WritesTheorem ==
  ASSUME BundlesDistinct
  PROVE  LookupSpec => WritesReachTheirEntity
<1>1. LookupInv => WritesReach
  <2> SUFFICES ASSUME LookupInv,
                      NEW e \in Handle, NEW c \in Component, NEW v \in Value,
                      AddExisting(e, c, v) \/ GetComponentMut(e, c, v)
               PROVE  columns' = IF LocationOf(e) # NoLocation
                                    /\ c \in archetypes[LocationOf(e).arch]
                                 THEN [columns EXCEPT ![LocationOf(e).arch][c][LocationOf(e).row] = v]
                                 ELSE columns
    BY DEF WritesReach
  <2>1. CASE AddExisting(e, c, v)
    BY <2>1, AddExistingWrites DEF Write
  <2>2. CASE GetComponentMut(e, c, v)
    BY <2>2, GetComponentMutWrites DEF Write, vars, storage
  <2>3. QED
    BY <2>1, <2>2
<1>2. LookupSpec => [][WritesReach]_lookupVars
  BY <1>1, LookupInvariant, PTL
<1>3. QED
  BY <1>2 DEF WritesReachTheirEntity, WritesReach

(* The cached calls are calls of the storage: what the storage promises,   *)
(* the caches keep, down to the abstract map of components.                *)
THEOREM LookupRefinementTheorem ==
  ASSUME BundlesDistinct
  PROVE  LookupSpec => Spec /\ ImplementsEntityComponents
<1>1. LookupInv /\ [LookupNext]_lookupVars => [Next]_vars
  BY NextKeepsSlots
<1>2. LookupInit => Init
  BY DEF LookupInit
<1>3. LookupSpec => Spec
  BY <1>1, <1>2, LookupInvariant, PTL DEF LookupSpec, Spec
<1>4. QED
  BY <1>3, RefinementTheorem
-----------------------------------------------------------------------------
(* What appears and what is lost.                                          *)

(* The parts of EventsExact, by name.                                      *)
Appeared == Holdings' \ Holdings
Gone     == Holdings \ Holdings'
Lost     == {h \in Gone : IsAlive(h[1])'}
Bundled  == {h \in Appeared : ~IsAlive(h[1]) /\ h[2] \in ZeroSized}
TypesOf(holdings) == {h[2] : h \in holdings}

EventsStep ==
  /\ Appeared \ Bundled \subseteq Told("add")' /\ Told("add")' \subseteq Appeared
  /\ Lost \subseteq Told("remove")' /\ Told("remove")' \subseteq Gone
  /\ Told("set")' \subseteq Holdings \cap Holdings'
  /\ \A call \in StoredCalls' :
       call.value = IF call.kind = "remove" THEN ValueOf(call.entity, call.type)
                    ELSE ValueOf(call.entity, call.type)'
  /\ Cardinality(ToSet(notified')) = Len(notified')
  /\ TypesOf(Appeared \cup Lost \cup Told("set")') \subseteq bumped'
  /\ bumped' \cap Component \subseteq TypesOf(Appeared \cup Gone \cup Told("set")')

LEMMA EventsStepMeaning == (NotifySpec => [][EventsStep]_notifyVars) => (NotifySpec => EventsExact)
BY DEF EventsExact, EventsStep, Appeared, Gone, Lost, Bundled, TypesOf

(* What the code does is more than the property asks: every call is for a  *)
(* component in an archetype, and exactly the components that come with a  *)
(* bundle untold and those that go with a despawned entity are silent.     *)
Spawned == {e \in Handle : ~IsAlive(e) /\ IsAlive(e)'}
Untold  == {h \in Appeared : h[1] \in Spawned /\ h[2] \in ZeroSized}

CallsOf(kind) == {call \in ToSet(notified) : call.kind = kind}

CallsExact ==
  /\ \A call \in ToSet(notified') : call.kind \in {"add", "remove", "set"}
  /\ CallsOf("add")' =
       {Call("add", h[1], h[2], ValueOf(h[1], h[2])') : h \in Appeared \ Untold}
  /\ CallsOf("remove")' = {Call("remove", h[1], h[2], ValueOf(h[1], h[2])) : h \in Lost}
  /\ \A call \in CallsOf("set")' :
       /\ <<call.entity, call.type>> \in Holdings \cap Holdings'
       /\ call.value = ValueOf(call.entity, call.type)'
  /\ Cardinality(ToSet(notified')) = Len(notified')
  /\ bumped' = {call.type : call \in ToSet(notified')} \cup {h[2] : h \in Untold}

LEMMA CallsAreEvents ==
  ASSUME CallsExact
  PROVE  EventsStep
<1>1. PICK calls : calls = ToSet(notified')
  OBVIOUS
<1>2. /\ \A call \in calls : call.kind \in {"add", "remove", "set"}
      /\ {call \in calls : call.kind = "add"} =
           {Call("add", h[1], h[2], ValueOf(h[1], h[2])') : h \in Appeared \ Untold}
      /\ {call \in calls : call.kind = "remove"} =
           {Call("remove", h[1], h[2], ValueOf(h[1], h[2])) : h \in Lost}
      /\ \A call \in calls : call.kind = "set" =>
           /\ <<call.entity, call.type>> \in Holdings \cap Holdings'
           /\ call.value = ValueOf(call.entity, call.type)'
      /\ bumped' = {call.type : call \in calls} \cup {h[2] : h \in Untold}
  BY <1>1 DEF CallsExact, CallsOf
<1>3. /\ \A h \in Holdings : h[1] \in Handle /\ h[2] \in Component /\ h = <<h[1], h[2]>>
      /\ \A h \in Holdings' : /\ h[1] \in Handle /\ h[2] \in Component /\ h = <<h[1], h[2]>>
                              /\ IsAlive(h[1])'
  BY DEF Holdings
<1>4. \A kind, e, c, v : /\ Call(kind, e, c, v).kind = kind /\ Call(kind, e, c, v).entity = e
                         /\ Call(kind, e, c, v).type = c /\ Call(kind, e, c, v).value = v
  BY DEF Call
<1>5. Bundled = Untold
  BY <1>3 DEF Bundled, Untold, Spawned, Appeared
<1>6. /\ StoredCalls' = {call \in calls : call.type \in Component}
      /\ \A kind : Told(kind)' = {<<call.entity, call.type>> :
                                    call \in {x \in StoredCalls' : x.kind = kind}}
  BY <1>1 DEF StoredCalls, Told
<1>7. Appeared \subseteq Holdings' /\ Gone \subseteq Holdings /\ Lost \subseteq Gone
  BY DEF Appeared, Gone, Lost
<1>8. ASSUME NEW call \in calls
      PROVE  /\ call.type \in Component
             /\ call.kind = "add" =>
                  /\ <<call.entity, call.type>> \in Appeared \ Untold
                  /\ call.value = ValueOf(call.entity, call.type)'
             /\ call.kind = "remove" =>
                  /\ <<call.entity, call.type>> \in Lost
                  /\ call.value = ValueOf(call.entity, call.type)
             /\ call.kind = "set" =>
                  /\ <<call.entity, call.type>> \in Holdings \cap Holdings'
                  /\ call.value = ValueOf(call.entity, call.type)'
  <2>1. CASE call.kind = "add"
    <3>1. PICK h \in Appeared \ Untold :
            call = Call("add", h[1], h[2], ValueOf(h[1], h[2])')
      BY <1>2, <2>1
    <3>2. call.entity = h[1] /\ call.type = h[2] /\ call.value = ValueOf(h[1], h[2])'
      BY <1>4, <3>1
    <3>3. h = <<h[1], h[2]>> /\ h[2] \in Component
      BY <1>3, <1>7
    <3>4. QED
      BY <2>1, <3>2, <3>3
  <2>2. CASE call.kind = "remove"
    <3>1. PICK h \in Lost : call = Call("remove", h[1], h[2], ValueOf(h[1], h[2]))
      BY <1>2, <2>2
    <3>2. call.entity = h[1] /\ call.type = h[2] /\ call.value = ValueOf(h[1], h[2])
      BY <1>4, <3>1
    <3>3. h = <<h[1], h[2]>> /\ h[2] \in Component
      BY <1>3, <1>7
    <3>4. QED
      BY <2>2, <3>2, <3>3
  <2>3. CASE call.kind = "set"
    <3>1. /\ <<call.entity, call.type>> \in Holdings \cap Holdings'
          /\ call.value = ValueOf(call.entity, call.type)'
      BY <1>2, <2>3
    <3>2. <<call.entity, call.type>>[2] = call.type
      OBVIOUS
    <3>3. call.type \in Component
      BY <1>3, <3>1, <3>2
    <3>4. QED
      BY <2>3, <3>1, <3>3
  <2>4. QED
    BY <1>2, <2>1, <2>2, <2>3
<1>9. ASSUME NEW kind, NEW h
      PROVE  h \in Told(kind)' <=>
               \E call \in calls : call.kind = kind /\ h = <<call.entity, call.type>>
  BY <1>6, <1>8
<1>10. ASSUME NEW h \in Appeared \ Untold
       PROVE  h \in Told("add")' /\ \E call \in calls : call.type = h[2]
  <2>1. PICK call : call = Call("add", h[1], h[2], ValueOf(h[1], h[2])')
    OBVIOUS
  <2>2. call \in calls /\ call.kind = "add" /\ call.entity = h[1] /\ call.type = h[2]
    BY <1>2, <1>4, <2>1
  <2>3. h = <<call.entity, call.type>>
    BY <1>3, <1>7, <2>2
  <2>4. QED
    BY <1>9, <2>2, <2>3
<1>11. ASSUME NEW h \in Lost
       PROVE  h \in Told("remove")' /\ \E call \in calls : call.type = h[2]
  <2>1. PICK call : call = Call("remove", h[1], h[2], ValueOf(h[1], h[2]))
    OBVIOUS
  <2>2. call \in calls /\ call.kind = "remove" /\ call.entity = h[1] /\ call.type = h[2]
    BY <1>2, <1>4, <2>1
  <2>3. h = <<call.entity, call.type>>
    BY <1>3, <1>7, <2>2
  <2>4. QED
    BY <1>9, <2>2, <2>3
<1>12. /\ Appeared \ Bundled \subseteq Told("add")' /\ Told("add")' \subseteq Appeared
       /\ Lost \subseteq Told("remove")' /\ Told("remove")' \subseteq Gone
       /\ Told("set")' \subseteq Holdings \cap Holdings'
  BY <1>5, <1>7, <1>8, <1>9, <1>10, <1>11
<1>13. \A call \in StoredCalls' :
         call.value = IF call.kind = "remove" THEN ValueOf(call.entity, call.type)
                      ELSE ValueOf(call.entity, call.type)'
  BY <1>2, <1>6, <1>8
<1>14. ASSUME NEW h \in Appeared \cup Lost \cup Told("set")' PROVE h[2] \in bumped'
  <2>1. CASE h \in Untold
    BY <1>2, <2>1
  <2>2. CASE h \in Told("set")'
    <3>1. PICK call \in calls : h = <<call.entity, call.type>>
      BY <1>9, <2>2
    <3>2. h[2] = call.type
      BY <3>1
    <3>3. QED
      BY <1>2, <3>2
  <2>3. QED
    BY <1>2, <1>10, <1>11, <1>14, <2>1, <2>2
<1>15. ASSUME NEW c \in bumped'
       PROVE  \E h \in Appeared \cup Gone \cup Told("set")' : c = h[2]
  <2>1. CASE \E h \in Untold : c = h[2]
    BY <2>1 DEF Untold
  <2>2. ASSUME NEW call \in calls, c = call.type
        PROVE  \E h \in Appeared \cup Gone \cup Told("set")' : c = h[2]
    <3>1. PICK h : h = <<call.entity, call.type>>
      OBVIOUS
    <3>2. h \in Appeared \cup Gone \cup Told("set")'
      BY <1>2, <1>7, <1>8, <1>9, <3>1
    <3>3. QED
      BY <2>2, <3>1, <3>2
  <2>3. QED
    BY <1>2, <2>1, <2>2
<1>16. Cardinality(ToSet(notified')) = Len(notified')
  BY DEF CallsExact
<1>17. QED
  BY <1>12, <1>13, <1>14, <1>15, <1>16 DEF EventsStep, TypesOf

(* Who holds what, by the maps of the live handles.                        *)
LEMMA HoldingsMeaning ==
  ASSUME StorageInv
  PROVE  /\ Live \subseteq Handle
         /\ \A e \in Handle : IsAlive(e) <=> e \in Live
         /\ \A e \in Live : DOMAIN ComponentsOf(e) \subseteq Component
         /\ \A h : h \in Holdings <=>
              \E e \in Live : \E c \in DOMAIN ComponentsOf(e) : h = <<e, c>>
<1>1. Live \subseteq Handle /\ \A e \in Handle : IsAlive(e) <=> e \in Live
  BY DEF Live
<1>2. \A e \in Live : /\ DOMAIN ComponentsOf(e) = archetypes[LocationOf(e).arch]
                      /\ DOMAIN ComponentsOf(e) \subseteq Component
  BY LiveMap
<1>3. ASSUME NEW h \in Holdings
      PROVE  \E e \in Live : \E c \in DOMAIN ComponentsOf(e) : h = <<e, c>>
  <2>1. PICK e \in Handle, c \in Component : h = <<e, c>>
    BY DEF Holdings
  <2>2. h[1] = e /\ h[2] = c
    BY <2>1
  <2>3. IsAlive(e) /\ c \in archetypes[LocationOf(e).arch]
    BY <2>1 DEF Holdings
  <2>4. QED
    BY <1>1, <1>2, <2>1, <2>3
<1>4. ASSUME NEW e \in Live, NEW c \in DOMAIN ComponentsOf(e)
      PROVE  <<e, c>> \in Holdings
  BY <1>1, <1>2 DEF Holdings
<1>5. QED
  BY <1>1, <1>2, <1>3, <1>4

HoldingsMean ==
  /\ Live \subseteq Handle
  /\ \A e \in Handle : IsAlive(e) <=> e \in Live
  /\ \A e \in Live : DOMAIN ComponentsOf(e) \subseteq Component
  /\ \A h : h \in Holdings <=> \E e \in Live : \E c \in DOMAIN ComponentsOf(e) : h = <<e, c>>

LEMMA HoldingsMeaningNext == StorageInv' => HoldingsMean'
<1>1. StorageInv => HoldingsMean
  BY HoldingsMeaning DEF HoldingsMean
<1>2. QED
  BY <1>1, PTL

(* The reference that an observer gets is to the value the entity has now. *)
LEMMA InPlaceExact ==
  ASSUME NEW e, NEW c, c \in DOMAIN ComponentsOf(e)'
  PROVE  InPlace(e, c) = ValueOf(e, c)'
<1>1. PICK at : at = LocationOf(e)'
  OBVIOUS
<1>2. ComponentsOf(e)' = [x \in archetypes'[at.arch] |-> columns'[at.arch][x][at.row]]
  BY <1>1 DEF ComponentsOf
<1>3. InPlace(e, c) = columns'[at.arch][c][at.row]
  BY <1>1 DEF InPlace
<1>4. ValueOf(e, c)' = (ComponentsOf(e)')[c]
  BY DEF ValueOf
<1>5. QED
  BY <1>2, <1>3, <1>4

(* A step that calls nobody is right when nothing appeared and no living   *)
(* entity lost anything.                                                   *)
LEMMA NobodyCalled ==
  ASSUME notified' = <<>>, bumped' = {}, Appeared = {}, Lost = {}
  PROVE  CallsExact
<1>1. ToSet(notified') = {} /\ Len(notified') = 0
  BY DEF ToSet
<1>2. \A kind : CallsOf(kind)' = {}
  BY <1>1 DEF CallsOf
<1>3. Untold = {}
  BY DEF Untold
<1>4. Cardinality(ToSet(notified')) = Len(notified')
  BY <1>1, FS_EmptySet
<1>5. QED
  BY <1>1, <1>2, <1>3, <1>4 DEF CallsExact

(* One call, of one kind, about one component.                             *)
LEMMA OneCalled ==
  ASSUME NEW kind \in {"add", "remove", "set"}, NEW e, NEW c, NEW v,
         notified' = <<Call(kind, e, c, v)>>
  PROVE  /\ ToSet(notified') = {Call(kind, e, c, v)}
         /\ Cardinality(ToSet(notified')) = Len(notified')
         /\ \A other : CallsOf(other)' = IF other = kind THEN {Call(kind, e, c, v)} ELSE {}
         /\ {call.type : call \in ToSet(notified')} = {c}
         /\ \A call \in ToSet(notified') : call.kind \in {"add", "remove", "set"}
<1>1. ToSet(notified') = {Call(kind, e, c, v)} /\ Len(notified') = 1
  BY DEF ToSet
<1>2. Cardinality(ToSet(notified')) = 1
  BY <1>1, FS_Singleton
<1>3. Call(kind, e, c, v).kind = kind /\ Call(kind, e, c, v).type = c
  BY DEF Call
<1>4. ASSUME NEW other PROVE CallsOf(other)' = IF other = kind THEN {Call(kind, e, c, v)} ELSE {}
  <2>1. CallsOf(other)' = {call \in ToSet(notified') : call.kind = other}
    BY DEF CallsOf
  <2>2. QED
    BY <1>1, <1>3, <2>1
<1>5. {call.type : call \in ToSet(notified')} = {c}
  BY <1>1, <1>3
<1>6. \A call \in ToSet(notified') : call.kind \in {"add", "remove", "set"}
  BY <1>1, <1>3
<1>7. QED
  BY <1>1, <1>2, <1>4, <1>5, <1>6

(* What appears and what is lost when one value is put.                    *)
LEMMA PutsHoldings ==
  ASSUME StorageInv, StorageInv', NEW e \in Handle, NEW c \in Component, NEW v, PutsValue(e, c, v)
  PROVE  /\ Spawned = {} /\ Untold = {} /\ Lost = {}
         /\ Appeared = IF c \in DOMAIN ComponentsOf(e) THEN {} ELSE {<<e, c>>}
         /\ <<e, c>> \in Holdings'
         /\ <<e, c>> \in Holdings <=> c \in DOMAIN ComponentsOf(e)
         /\ c \in DOMAIN ComponentsOf(e)' /\ ValueOf(e, c)' = v
<1>1. HoldingsMean /\ HoldingsMean'
  BY HoldingsMeaning, HoldingsMeaningNext DEF HoldingsMean
<1>2. /\ e \in Live /\ Live' = Live
      /\ \A f \in Live : f # e => ComponentsOf(f)' = ComponentsOf(f)
      /\ DOMAIN ComponentsOf(e)' = DOMAIN ComponentsOf(e) \cup {c}
      /\ (ComponentsOf(e)')[c] = v
  BY DEF PutsValue
<1>3. Spawned = {} /\ Untold = {}
  BY <1>1, <1>2 DEF Spawned, Untold, HoldingsMean
<1>4. \A h : h \in Holdings <=> \E f \in Live : \E x \in DOMAIN ComponentsOf(f) : h = <<f, x>>
  BY <1>1 DEF HoldingsMean
<1>5. \A h : h \in Holdings' <=> \E f \in Live : \E x \in DOMAIN ComponentsOf(f)' : h = <<f, x>>
  BY <1>1, <1>2 DEF HoldingsMean
<1>6. \A h : h \in Holdings' <=> h \in Holdings \/ h = <<e, c>>
  <2>1. ASSUME NEW h, h \in Holdings' PROVE h \in Holdings \/ h = <<e, c>>
    <3>f. PICK f \in Live : \E x \in DOMAIN ComponentsOf(f)' : h = <<f, x>>
      BY <1>5, <2>1
    <3>1. PICK x \in DOMAIN ComponentsOf(f)' : h = <<f, x>>
      BY <3>f
    <3>2. CASE f = e
      <4>1. x \in DOMAIN ComponentsOf(e) \/ x = c
        BY <1>2, <3>1, <3>2
      <4>2. QED
        BY <1>2, <1>4, <3>1, <3>2, <4>1
    <3>3. CASE f # e
      BY <1>2, <1>4, <3>1, <3>3
    <3>4. QED
      BY <3>2, <3>3
  <2>2. ASSUME NEW h, h \in Holdings PROVE h \in Holdings'
    <3>f. PICK f \in Live : \E x \in DOMAIN ComponentsOf(f) : h = <<f, x>>
      BY <1>4, <2>2
    <3>1. PICK x \in DOMAIN ComponentsOf(f) : h = <<f, x>>
      BY <3>f
    <3>2. x \in DOMAIN ComponentsOf(f)'
      BY <1>2, <3>1
    <3>3. QED
      BY <1>5, <3>1, <3>2
  <2>3. <<e, c>> \in Holdings'
    <3>1. c \in DOMAIN ComponentsOf(e)'
      BY <1>2
    <3>2. QED
      BY <1>2, <1>5, <3>1
  <2>4. QED
    BY <2>1, <2>2, <2>3
<1>7. <<e, c>> \in Holdings <=> c \in DOMAIN ComponentsOf(e)
  <2>1. \A f, x : <<e, c>> = <<f, x>> => f = e /\ x = c
    OBVIOUS
  <2>2. QED
    BY <1>2, <1>4, <2>1
<1>8. Lost = {}
  BY <1>6 DEF Lost, Gone
<1>9. Appeared = IF c \in DOMAIN ComponentsOf(e) THEN {} ELSE {<<e, c>>}
  BY <1>6, <1>7 DEF Appeared
<1>10. QED
  BY <1>2, <1>3, <1>6, <1>7, <1>8, <1>9 DEF ValueOf

(* The same, for pairs.                                                    *)
PairsMean ==
  /\ Live \subseteq Handle
  /\ \A e \in Handle : IsAlive(e) <=> e \in Live
  /\ \A h \in Holdings : h = <<h[1], h[2]>> /\ h[1] \in Live
  /\ \A f, x : <<f, x>> \in Holdings <=> f \in Live /\ x \in DOMAIN ComponentsOf(f)

LEMMA HoldingsPairs == StorageInv => PairsMean
<1>1. SUFFICES ASSUME StorageInv PROVE PairsMean
  OBVIOUS
<1>2. HoldingsMean
  BY <1>1, HoldingsMeaning DEF HoldingsMean
<1>3. ASSUME NEW h \in Holdings PROVE h = <<h[1], h[2]>> /\ h[1] \in Live
  <2>1. PICK e \in Live : \E c \in DOMAIN ComponentsOf(e) : h = <<e, c>>
    BY <1>2 DEF HoldingsMean
  <2>2. PICK c : h = <<e, c>>
    BY <2>1
  <2>3. QED
    BY <2>2
<1>4. ASSUME NEW f, NEW x
      PROVE  <<f, x>> \in Holdings <=> f \in Live /\ x \in DOMAIN ComponentsOf(f)
  <2>1. ASSUME <<f, x>> \in Holdings PROVE f \in Live /\ x \in DOMAIN ComponentsOf(f)
    <3>1. PICK e \in Live : \E c \in DOMAIN ComponentsOf(e) : <<f, x>> = <<e, c>>
      BY <1>2, <2>1 DEF HoldingsMean
    <3>2. PICK c \in DOMAIN ComponentsOf(e) : <<f, x>> = <<e, c>>
      BY <3>1
    <3>3. f = e /\ x = c
      BY <3>2
    <3>4. QED
      BY <3>3
  <2>2. ASSUME f \in Live, x \in DOMAIN ComponentsOf(f) PROVE <<f, x>> \in Holdings
    BY <1>2, <2>2 DEF HoldingsMean
  <2>3. QED
    BY <2>1, <2>2
<1>5. QED
  BY <1>2, <1>3, <1>4 DEF PairsMean, HoldingsMean

LEMMA HoldingsPairsNext == StorageInv' => PairsMean'
BY HoldingsPairs, PTL

(* What appears and what is lost when one value is taken.                  *)
LEMMA TakesHoldings ==
  ASSUME StorageInv, StorageInv', NEW e \in Handle, NEW c \in Component, TakesValue(e, c)
  PROVE  Appeared = {} /\ Spawned = {} /\ Lost = {<<e, c>>}
<1>1. PairsMean /\ PairsMean'
  BY HoldingsPairs, HoldingsPairsNext
<1>2. /\ e \in Live /\ Live' = Live /\ c \in DOMAIN ComponentsOf(e)
      /\ \A f \in Live : f # e => ComponentsOf(f)' = ComponentsOf(f)
      /\ DOMAIN ComponentsOf(e)' = DOMAIN ComponentsOf(e) \ {c}
  BY DEF TakesValue
<1>3. Spawned = {}
  BY <1>1, <1>2 DEF Spawned, PairsMean
<1>4. \A f, x : <<f, x>> \in Holdings' <=> f \in Live /\ x \in DOMAIN ComponentsOf(f)'
  BY <1>1, <1>2 DEF PairsMean
<1>5. \A f, x : <<f, x>> \in Holdings' <=> <<f, x>> \in Holdings /\ ~ (f = e /\ x = c)
  <2>1. ASSUME NEW f, NEW x
        PROVE  <<f, x>> \in Holdings' <=> <<f, x>> \in Holdings /\ ~ (f = e /\ x = c)
    <3>1. <<f, x>> \in Holdings <=> f \in Live /\ x \in DOMAIN ComponentsOf(f)
      BY <1>1 DEF PairsMean
    <3>2. f \in Live => (x \in DOMAIN ComponentsOf(f)' <=> x \in DOMAIN ComponentsOf(f) /\ ~ (f = e /\ x = c))
      BY <1>2
    <3>3. QED
      BY <1>4, <3>1, <3>2
  <2>2. QED
    BY <2>1
<1>6. \A h \in Holdings \cup Holdings' : h = <<h[1], h[2]>>
  BY <1>1 DEF PairsMean
<1>7. Appeared = {}
  <2>1. ASSUME NEW h \in Holdings' PROVE h \in Holdings
    <3>1. <<h[1], h[2]>> \in Holdings
      BY <1>5, <1>6
    <3>2. QED
      BY <1>6, <3>1
  <2>2. QED
    BY <2>1 DEF Appeared
<1>8. <<e, c>> \in Lost
  <2>1. <<e, c>> \in Holdings
    BY <1>1, <1>2 DEF PairsMean
  <2>2. <<e, c>> \notin Holdings'
    BY <1>5
  <2>3. IsAlive(e)'
    BY <1>1, <1>2 DEF PairsMean
  <2>4. <<e, c>>[1] = e
    OBVIOUS
  <2>5. IsAlive(<<e, c>>[1])'
    BY <2>3, <2>4
  <2>6. QED
    BY <2>1, <2>2, <2>5 DEF Lost, Gone
<1>9. ASSUME NEW h \in Lost PROVE h = <<e, c>>
  <2>1. h \in Holdings /\ h \notin Holdings'
    BY DEF Lost, Gone
  <2>2. h = <<h[1], h[2]>>
    BY <1>6, <2>1
  <2>3. h[1] = e /\ h[2] = c
    BY <1>5, <2>1, <2>2
  <2>4. QED
    BY <2>2, <2>3
<1>10. Lost = {<<e, c>>}
  BY <1>8, <1>9
<1>11. QED
  BY <1>3, <1>7, <1>10

(* When a handle ends, no living entity loses anything.                    *)
LEMMA EndsHoldings ==
  ASSUME StorageInv, StorageInv', NEW e, EndsHandle(e)
  PROVE  Appeared = {} /\ Lost = {}
<1>1. PairsMean /\ PairsMean'
  BY HoldingsPairs, HoldingsPairsNext
<1>2. /\ Live' = Live \ {e}
      /\ \A f \in Live : f # e => ComponentsOf(f)' = ComponentsOf(f)
  BY DEF EndsHandle
<1>3. \A f, x : <<f, x>> \in Holdings' <=> <<f, x>> \in Holdings /\ f # e
  <2>1. ASSUME NEW f, NEW x
        PROVE  <<f, x>> \in Holdings' <=> <<f, x>> \in Holdings /\ f # e
    <3>1. <<f, x>> \in Holdings <=> f \in Live /\ x \in DOMAIN ComponentsOf(f)
      BY <1>1 DEF PairsMean
    <3>2. <<f, x>> \in Holdings' <=> f \in Live' /\ x \in DOMAIN ComponentsOf(f)'
      BY <1>1 DEF PairsMean
    <3>3. QED
      BY <1>2, <3>1, <3>2
  <2>2. QED
    BY <2>1
<1>4. \A h \in Holdings \cup Holdings' : h = <<h[1], h[2]>>
  BY <1>1 DEF PairsMean
<1>5. ASSUME NEW h \in Holdings' PROVE h \in Holdings
  <2>1. <<h[1], h[2]>> \in Holdings
    BY <1>3, <1>4
  <2>2. QED
    BY <1>4, <2>1
<1>6. ASSUME NEW h \in Lost PROVE FALSE
  <2>1. h \in Holdings /\ h \notin Holdings' /\ IsAlive(h[1])'
    BY DEF Lost, Gone
  <2>2. h = <<h[1], h[2]>>
    BY <1>4, <2>1
  <2>3. h[1] = e
    BY <1>3, <2>1, <2>2
  <2>4. h[1] \in Handle
    BY <1>1, <2>1 DEF PairsMean
  <2>5. h[1] \in Live'
    BY <1>1, <2>1, <2>4 DEF PairsMean
  <2>6. QED
    BY <1>2, <2>3, <2>5
<1>7. QED
  BY <1>5, <1>6 DEF Appeared

(* When a handle is issued, exactly what its map has appears.              *)
LEMMA IssuesHoldings ==
  ASSUME StorageInv, StorageInv', NEW e, NEW map, IssuesHandle(e, map)
  PROVE  /\ Lost = {} /\ Spawned = {e}
         /\ Appeared = {<<e, c>> : c \in DOMAIN map}
         /\ e \in Live' /\ ComponentsOf(e)' = map
<1>1. PairsMean /\ PairsMean'
  BY HoldingsPairs, HoldingsPairsNext
<1>2. /\ e \in Handle /\ e \notin Live /\ Live' = Live \cup {e}
      /\ \A f \in Live : ComponentsOf(f)' = ComponentsOf(f)
      /\ ComponentsOf(e)' = map
  BY DEF IssuesHandle, Live, Issued
<1>3. \A f, x : <<f, x>> \in Holdings' <=> <<f, x>> \in Holdings \/ (f = e /\ x \in DOMAIN map)
  <2>1. ASSUME NEW f, NEW x
        PROVE  <<f, x>> \in Holdings' <=> <<f, x>> \in Holdings \/ (f = e /\ x \in DOMAIN map)
    <3>1. <<f, x>> \in Holdings <=> f \in Live /\ x \in DOMAIN ComponentsOf(f)
      BY <1>1 DEF PairsMean
    <3>2. <<f, x>> \in Holdings' <=> f \in Live' /\ x \in DOMAIN ComponentsOf(f)'
      BY <1>1 DEF PairsMean
    <3>3. QED
      BY <1>2, <3>1, <3>2
  <2>2. QED
    BY <2>1
<1>4. \A h \in Holdings \cup Holdings' : h = <<h[1], h[2]>>
  BY <1>1 DEF PairsMean
<1>5. \A x : <<e, x>> \notin Holdings
  BY <1>1, <1>2 DEF PairsMean
<1>6. Lost = {}
  <2>1. ASSUME NEW h \in Holdings PROVE h \in Holdings'
    <3>1. <<h[1], h[2]>> \in Holdings'
      BY <1>3, <1>4
    <3>2. QED
      BY <1>4, <3>1
  <2>2. QED
    BY <2>1 DEF Lost, Gone
<1>7. ASSUME NEW h \in Appeared PROVE \E c \in DOMAIN map : h = <<e, c>>
  <2>1. h \in Holdings' /\ h \notin Holdings
    BY DEF Appeared
  <2>2. h = <<h[1], h[2]>>
    BY <1>4, <2>1
  <2>3. h[1] = e /\ h[2] \in DOMAIN map
    BY <1>3, <2>1, <2>2
  <2>4. QED
    BY <2>2, <2>3
<1>8. ASSUME NEW c \in DOMAIN map PROVE <<e, c>> \in Appeared
  BY <1>3, <1>5 DEF Appeared
<1>9. Appeared = {<<e, c>> : c \in DOMAIN map}
  BY <1>7, <1>8
<1>10. Spawned = {e}
  BY <1>1, <1>2 DEF Spawned, PairsMean
<1>11. QED
  BY <1>2, <1>6, <1>9, <1>10

-----------------------------------------------------------------------------
(* One lemma per call.                                                     *)

(* A component that appeared, and was announced.                           *)
LEMMA AddedExact ==
  ASSUME NEW e, NEW c, NEW v, v = ValueOf(e, c)',
         Appeared = {<<e, c>>}, Untold = {}, Lost = {},
         notified' = <<Call("add", e, c, v)>>, bumped' = {c}
  PROVE  CallsExact
<1>1. /\ ToSet(notified') = {Call("add", e, c, v)}
      /\ Cardinality(ToSet(notified')) = Len(notified')
      /\ \A other : CallsOf(other)' = IF other = "add" THEN {Call("add", e, c, v)} ELSE {}
      /\ {call.type : call \in ToSet(notified')} = {c}
      /\ \A call \in ToSet(notified') : call.kind \in {"add", "remove", "set"}
  BY OneCalled
<1>2. CallsOf("add")' = {Call("add", e, c, v)} /\ CallsOf("remove")' = {} /\ CallsOf("set")' = {}
  BY <1>1
<1>3. <<e, c>>[1] = e /\ <<e, c>>[2] = c
  OBVIOUS
<1>4. Appeared \ Untold = {<<e, c>>}
  OBVIOUS
<1>5. {Call("add", h[1], h[2], ValueOf(h[1], h[2])') : h \in Appeared \ Untold} = {Call("add", e, c, v)}
  BY <1>3, <1>4
<1>6. {h[2] : h \in Untold} = {}
  OBVIOUS
<1>7. {Call("remove", h[1], h[2], ValueOf(h[1], h[2])) : h \in Lost} = {}
  OBVIOUS
<1>8. QED
  BY <1>1, <1>2, <1>5, <1>6, <1>7 DEF CallsExact

(* A component that was lost, and was announced.                           *)
LEMMA RemovedExact ==
  ASSUME NEW e, NEW c, NEW v, v = ValueOf(e, c), Appeared = {}, Lost = {<<e, c>>},
         notified' = <<Call("remove", e, c, v)>>, bumped' = {c}
  PROVE  CallsExact
<1>1. /\ ToSet(notified') = {Call("remove", e, c, v)}
      /\ Cardinality(ToSet(notified')) = Len(notified')
      /\ \A other : CallsOf(other)' = IF other = "remove" THEN {Call("remove", e, c, v)} ELSE {}
      /\ {call.type : call \in ToSet(notified')} = {c}
      /\ \A call \in ToSet(notified') : call.kind \in {"add", "remove", "set"}
  BY OneCalled
<1>2. CallsOf("remove")' = {Call("remove", e, c, v)} /\ CallsOf("add")' = {} /\ CallsOf("set")' = {}
  BY <1>1
<1>3. <<e, c>>[1] = e /\ <<e, c>>[2] = c
  OBVIOUS
<1>4. Untold = {}
  BY DEF Untold
<1>5. {Call("remove", h[1], h[2], ValueOf(h[1], h[2])) : h \in Lost} = {Call("remove", e, c, v)}
  BY <1>3
<1>6. {h[2] : h \in Untold} = {}
  BY <1>4
<1>7. {Call("add", h[1], h[2], ValueOf(h[1], h[2])') : h \in Appeared \ Untold} = {}
  OBVIOUS
<1>8. QED
  BY <1>1, <1>2, <1>5, <1>6, <1>7 DEF CallsExact

(* A value that was replaced, and was announced.                           *)
LEMMA ReplacedExact ==
  ASSUME NEW e, NEW c, NEW v, v = ValueOf(e, c)', <<e, c>> \in Holdings, <<e, c>> \in Holdings',
         Appeared = {}, Lost = {}, notified' = <<Call("set", e, c, v)>>, bumped' = {c}
  PROVE  CallsExact
<1>1. /\ ToSet(notified') = {Call("set", e, c, v)}
      /\ Cardinality(ToSet(notified')) = Len(notified')
      /\ \A other : CallsOf(other)' = IF other = "set" THEN {Call("set", e, c, v)} ELSE {}
      /\ {call.type : call \in ToSet(notified')} = {c}
      /\ \A call \in ToSet(notified') : call.kind \in {"add", "remove", "set"}
  BY OneCalled
<1>2. CallsOf("set")' = {Call("set", e, c, v)} /\ CallsOf("add")' = {} /\ CallsOf("remove")' = {}
  BY <1>1
<1>3. PICK call : call = Call("set", e, c, v)
  OBVIOUS
<1>4. call.entity = e /\ call.type = c /\ call.value = v
  BY <1>3 DEF Call
<1>5. \A some \in CallsOf("set")' : /\ <<some.entity, some.type>> \in Holdings \cap Holdings'
                                    /\ some.value = ValueOf(some.entity, some.type)'
  BY <1>2, <1>3, <1>4
<1>6. Untold = {}
  BY DEF Untold
<1>7. {h[2] : h \in Untold} = {}
  BY <1>6
<1>8. {Call("remove", h[1], h[2], ValueOf(h[1], h[2])) : h \in Lost} = {}
  OBVIOUS
<1>9. {Call("add", h[1], h[2], ValueOf(h[1], h[2])') : h \in Appeared \ Untold} = {}
  OBVIOUS
<1>10. QED
  BY <1>1, <1>2, <1>5, <1>7, <1>8, <1>9 DEF CallsExact

(* What spawn_with announces: the components of the bundle that have a     *)
(* size, each once.                                                        *)
BundleCalls(b, h, value) ==
  [k \in DOMAIN b |-> IF b[k] \in ZeroSized THEN <<>> ELSE <<Call("add", h, b[k], value[b[k]])>>]

LEMMA BundleCallsProperties ==
  ASSUME BundlesDistinct, NEW b \in Bundle, NEW h, NEW value, NEW calls,
         calls = FlattenSeq(BundleCalls(b, h, value))
  PROVE  /\ ToSet(calls) = {Call("add", h, c, value[c]) : c \in Types(b) \ ZeroSized}
         /\ Cardinality(ToSet(calls)) = Len(calls)
<1>1. PICK n, T, seqs : /\ n = Len(b) /\ T = {Call("add", h, c, value[c]) : c \in Types(b)}
                        /\ seqs = BundleCalls(b, h, value)
  OBVIOUS
<1>2. b \in Seq(Component) /\ n \in Nat /\ DOMAIN b = 1 .. n
  BY <1>1, BundleAssumption
<1>3. /\ DOMAIN seqs = 1 .. n
      /\ \A k \in 1 .. n :
           seqs[k] = IF b[k] \in ZeroSized THEN <<>> ELSE <<Call("add", h, b[k], value[b[k]])>>
  BY <1>1, <1>2 DEF BundleCalls
<1>4. seqs \in [1 .. n -> Seq(T)]
  <2>1. seqs = [k \in 1 .. n |-> seqs[k]]
    BY <1>1, <1>2 DEF BundleCalls
  <2>2. ASSUME NEW k \in 1 .. n PROVE seqs[k] \in Seq(T)
    <3>1. b[k] \in Types(b)
      BY <1>2 DEF Types
    <3>2. Call("add", h, b[k], value[b[k]]) \in T
      BY <1>1, <3>1
    <3>3. PICK call : call = Call("add", h, b[k], value[b[k]])
      OBVIOUS
    <3>4. call \in T
      BY <3>2, <3>3
    <3>5. seqs[k] = <<>> \/ seqs[k] = <<call>>
      BY <1>3, <3>3
    <3>6. <<>> \in Seq(T) /\ <<call>> \in Seq(T)
      BY ONLY <3>4
    <3>7. QED
      BY ONLY <3>5, <3>6
  <2>3. QED
    BY <2>1, <2>2
<1>5. \A k \in 1 .. n : \A r \in 1 .. Len(seqs[k]) :
        /\ b[k] \notin ZeroSized /\ r = 1
        /\ seqs[k][r] = Call("add", h, b[k], value[b[k]])
  <2>1. ASSUME NEW k \in 1 .. n, NEW r \in 1 .. Len(seqs[k])
        PROVE  /\ b[k] \notin ZeroSized /\ r = 1
               /\ seqs[k][r] = Call("add", h, b[k], value[b[k]])
    <3>1. CASE b[k] \in ZeroSized
      <4>1. seqs[k] = <<>>
        BY <1>3, <3>1
      <4>2. QED
        BY <4>1
    <3>2. CASE b[k] \notin ZeroSized
      <4>1. PICK call : call = Call("add", h, b[k], value[b[k]])
        OBVIOUS
      <4>2. seqs[k] = <<call>>
        BY <1>3, <3>2, <4>1
      <4>3. r = 1
        BY <4>2
      <4>4. QED
        BY <3>2, <4>1, <4>2, <4>3
    <3>3. QED
      BY <3>1, <3>2
  <2>2. QED
    BY <2>1
<1>6. \A x, y, u, v : Call("add", h, x, u) = Call("add", h, y, v) => x = y
  <2>1. \A x, u : Call("add", h, x, u).type = x
    BY DEF Call
  <2>2. QED
    BY <2>1
<1>7. \A k, l \in 1 .. n : \A r \in 1 .. Len(seqs[k]), q \in 1 .. Len(seqs[l]) :
        seqs[k][r] = seqs[l][q] => k = l /\ r = q
  <2>1. ASSUME NEW k \in 1 .. n, NEW l \in 1 .. n, NEW r \in 1 .. Len(seqs[k]),
               NEW q \in 1 .. Len(seqs[l]), seqs[k][r] = seqs[l][q]
        PROVE  k = l /\ r = q
    <3>1. Call("add", h, b[k], value[b[k]]) = Call("add", h, b[l], value[b[l]]) /\ r = 1 /\ q = 1
      BY <1>5, <2>1
    <3>2. b[k] = b[l]
      BY <1>6, <3>1
    <3>3. k = l
      BY <1>2, <3>2 DEF BundlesDistinct
    <3>4. QED
      BY <3>1, <3>3
  <2>2. QED
    BY <2>1
<1>8. calls = FlattenSeq(seqs)
  BY <1>1
<1>9. /\ calls \in Seq(T)
      /\ \A x : x \in ToSet(calls) <=> \E k \in 1 .. n : \E r \in 1 .. Len(seqs[k]) : x = seqs[k][r]
  <2>1. n \in Nat /\ seqs \in [1 .. n -> Seq(T)]
    BY <1>2, <1>4
  <2>2. QED
    BY ONLY <2>1, <1>8, FlattenMembers
<1>10. OncePerPlace(calls)
  <2>1. n \in Nat /\ seqs \in [1 .. n -> Seq(T)]
    BY <1>2, <1>4
  <2>2. OncePerPlace(FlattenSeq(seqs))
    BY ONLY <2>1, <1>7, FlattenDistinct
  <2>3. QED
    BY <1>8, <2>2
<1>11. Cardinality(ToSet(calls)) = Len(calls)
  BY <1>9, <1>10, DistinctLength
<1>12. ASSUME NEW x \in ToSet(calls)
       PROVE  \E c \in Types(b) \ ZeroSized : x = Call("add", h, c, value[c])
  <2>1. PICK k \in 1 .. n : \E r \in 1 .. Len(seqs[k]) : x = seqs[k][r]
    BY <1>9
  <2>2. b[k] \notin ZeroSized /\ x = Call("add", h, b[k], value[b[k]])
    BY <1>5, <2>1
  <2>3. b[k] \in Types(b)
    BY <1>2 DEF Types
  <2>4. QED
    BY <2>2, <2>3
<1>13. ASSUME NEW c \in Types(b) \ ZeroSized
       PROVE  Call("add", h, c, value[c]) \in ToSet(calls)
  <2>1. PICK k \in 1 .. n : b[k] = c
    BY <1>2 DEF Types
  <2>2. PICK call : call = Call("add", h, c, value[c])
    OBVIOUS
  <2>3. seqs[k] = <<call>>
    BY <1>3, <2>1, <2>2
  <2>4. 1 \in 1 .. Len(seqs[k]) /\ seqs[k][1] = call
    BY <2>3
  <2>5. QED
    BY <1>9, <2>2, <2>4
<1>14. ToSet(calls) = {Call("add", h, c, value[c]) : c \in Types(b) \ ZeroSized}
  BY <1>12, <1>13
<1>15. QED
  BY <1>11, <1>14

(* The calls of a spawn, in terms of the handle and the values.            *)
LEMMA SpawnedCalls ==
  ASSUME NEW b, NEW i, NEW h, h = HandleAt(i), NEW value, DOMAIN value = Types(b),
         ComponentsOf(h)' = value
  PROVE  [k \in DOMAIN b |-> IF b[k] \in ZeroSized THEN <<>>
                             ELSE <<FireOnAdd(HandleAt(i), b[k])>>] = BundleCalls(b, h, value)
<1>1. ASSUME NEW k \in DOMAIN b
      PROVE  FireOnAdd(HandleAt(i), b[k]) = Call("add", h, b[k], value[b[k]])
  <2>1. PICK c : c = b[k]
    OBVIOUS
  <2>2. c \in DOMAIN ComponentsOf(h)'
    BY <2>1 DEF Types
  <2>3. InPlace(h, c) = ValueOf(h, c)'
    BY <2>2, InPlaceExact
  <2>4. ValueOf(h, c)' = value[c]
    BY DEF ValueOf
  <2>5. QED
    BY <2>1, <2>3, <2>4 DEF FireOnAdd
<1>2. QED
  BY <1>1 DEF BundleCalls

LEMMA SpawnedExact ==
  ASSUME NEW set, NEW h, NEW value, DOMAIN value = set, ComponentsOf(h)' = value,
         Appeared = {<<h, c>> : c \in set}, Spawned = {h}, Lost = {},
         ToSet(notified') = {Call("add", h, c, value[c]) : c \in set \ ZeroSized},
         Cardinality(ToSet(notified')) = Len(notified'), bumped' = set
  PROVE  CallsExact
<1>1. \A x, v : /\ Call("add", h, x, v).type = x /\ Call("add", h, x, v).kind = "add"
  BY DEF Call
<1>2. \A x : <<h, x>>[1] = h /\ <<h, x>>[2] = x
  OBVIOUS
<1>3. \A call \in ToSet(notified') : call.kind = "add"
  BY <1>1
<1>4. CallsOf("add")' = ToSet(notified') /\ CallsOf("remove")' = {} /\ CallsOf("set")' = {}
  <2>1. CallsOf("add")' = {call \in ToSet(notified') : call.kind = "add"}
    BY DEF CallsOf
  <2>2. CallsOf("remove")' = {call \in ToSet(notified') : call.kind = "remove"}
    BY DEF CallsOf
  <2>3. CallsOf("set")' = {call \in ToSet(notified') : call.kind = "set"}
    BY DEF CallsOf
  <2>4. QED
    BY <1>3, <2>1, <2>2, <2>3
<1>5. Untold = {<<h, c>> : c \in set \cap ZeroSized}
  <2>1. ASSUME NEW p \in Untold PROVE \E c \in set \cap ZeroSized : p = <<h, c>>
    <3>1. p \in Appeared /\ p[2] \in ZeroSized
      BY DEF Untold
    <3>2. PICK c \in set : p = <<h, c>>
      BY <3>1
    <3>3. QED
      BY <1>2, <3>1, <3>2
  <2>2. ASSUME NEW c \in set \cap ZeroSized PROVE <<h, c>> \in Untold
    BY <1>2 DEF Untold
  <2>3. QED
    BY <2>1, <2>2
<1>6. Appeared \ Untold = {<<h, c>> : c \in set \ ZeroSized}
  <2>1. \A x, y : <<h, x>> = <<h, y>> => x = y
    OBVIOUS
  <2>2. QED
    BY <1>5, <2>1
<1>7. \A c \in set : ValueOf(h, c)' = value[c]
  BY DEF ValueOf
<1>8. {Call("add", p[1], p[2], ValueOf(p[1], p[2])') : p \in Appeared \ Untold}
        = {Call("add", h, c, value[c]) : c \in set \ ZeroSized}
  <2>1. ASSUME NEW c \in set \ ZeroSized, NEW p, p = <<h, c>>
        PROVE  Call("add", p[1], p[2], ValueOf(p[1], p[2])') = Call("add", h, c, value[c])
    <3>1. p[1] = h /\ p[2] = c
      BY <1>2, <2>1
    <3>2. ValueOf(p[1], p[2])' = value[c]
      BY <1>7, <3>1
    <3>3. QED
      BY <3>1, <3>2
  <2>2. ASSUME NEW p \in Appeared \ Untold
        PROVE  \E c \in set \ ZeroSized :
                 Call("add", p[1], p[2], ValueOf(p[1], p[2])') = Call("add", h, c, value[c])
    <3>1. PICK c \in set \ ZeroSized : p = <<h, c>>
      BY <1>6
    <3>2. QED
      BY <2>1, <3>1
  <2>3. ASSUME NEW c \in set \ ZeroSized
        PROVE  \E p \in Appeared \ Untold :
                 Call("add", p[1], p[2], ValueOf(p[1], p[2])') = Call("add", h, c, value[c])
    <3>1. PICK p \in Appeared \ Untold : p = <<h, c>>
      BY <1>6
    <3>2. QED
      BY <2>1, <3>1
  <2>4. QED
    BY <2>2, <2>3
<1>9. {Call("remove", p[1], p[2], ValueOf(p[1], p[2])) : p \in Lost} = {}
  OBVIOUS
<1>10. {p[2] : p \in Untold} = set \cap ZeroSized
  <2>1. ASSUME NEW p \in Untold PROVE p[2] \in set \cap ZeroSized
    <3>1. PICK c \in set \cap ZeroSized : p = <<h, c>>
      BY <1>5
    <3>2. QED
      BY <1>2, <3>1
  <2>2. ASSUME NEW c \in set \cap ZeroSized PROVE \E p \in Untold : p[2] = c
    <3>1. PICK p \in Untold : p = <<h, c>>
      BY <1>5
    <3>2. QED
      BY <1>2, <3>1
  <2>3. QED
    BY <2>1, <2>2
<1>11. {call.type : call \in ToSet(notified')} = set \ ZeroSized
  BY <1>1
<1>12. bumped' = {call.type : call \in ToSet(notified')} \cup {p[2] : p \in Untold}
  BY <1>10, <1>11
<1>13. QED
  BY <1>3, <1>4, <1>8, <1>9, <1>12 DEF CallsExact

(* Every step.                                                             *)
LEMMA SpawnTellsExactly ==
  ASSUME BundlesDistinct, StorageInv, StorageInv', NEW b \in Bundle,
         NEW value \in [Types(b) -> Value], SpawnWithTold(b, value)
  PROVE  CallsExact
<1>1. PICK i \in Index, h \in Handle :
        /\ h = HandleAt(i) /\ IssuesHandle(h, value)
        /\ entityLocations[i] = NoLocation /\ entityLocations'[i] # NoLocation
        /\ \A j \in Index : j # i => entityLocations'[j] = entityLocations[j]
  BY SpawnWithMaps DEF SpawnWithTold
<1>2. DOMAIN value = Types(b)
  OBVIOUS
<1>3. /\ Lost = {} /\ Spawned = {h} /\ Appeared = {<<h, c>> : c \in Types(b)}
      /\ ComponentsOf(h)' = value
  BY <1>1, <1>2, IssuesHoldings
<1>4. PICK j \in Index :
        /\ entityLocations'[j] # entityLocations[j]
        /\ Tell(FlattenSeq([k \in DOMAIN b |-> IF b[k] \in ZeroSized THEN <<>>
                                               ELSE <<FireOnAdd(HandleAt(j), b[k])>>]), Types(b))
  BY DEF SpawnWithTold
<1>5. j = i
  BY <1>1, <1>4
<1>6. [k \in DOMAIN b |-> IF b[k] \in ZeroSized THEN <<>>
                          ELSE <<FireOnAdd(HandleAt(j), b[k])>>] = BundleCalls(b, h, value)
  BY <1>1, <1>2, <1>3, <1>5, SpawnedCalls
<1>7. notified' = FlattenSeq(BundleCalls(b, h, value)) /\ bumped' = Types(b)
  BY <1>4, <1>6 DEF Tell
<1>8. PICK calls : calls = FlattenSeq(BundleCalls(b, h, value))
  OBVIOUS
<1>9. /\ ToSet(calls) = {Call("add", h, c, value[c]) : c \in Types(b) \ ZeroSized}
      /\ Cardinality(ToSet(calls)) = Len(calls)
  BY <1>8, BundleCallsProperties
<1>10. notified' = calls
  BY <1>7, <1>8
<1>11. /\ ToSet(notified') = {Call("add", h, c, value[c]) : c \in Types(b) \ ZeroSized}
       /\ Cardinality(ToSet(notified')) = Len(notified')
  BY <1>9, <1>10
<1>12. QED
  BY <1>2, <1>3, <1>7, <1>11, SpawnedExact

LEMMA SpawnEmptyTellsExactly ==
  ASSUME StorageInv, StorageInv', SpawnEmptyTold
  PROVE  CallsExact
<1>1. PICK h, map : IssuesHandle(h, map) /\ map = [c \in {} |-> 0]
  BY SpawnEmptyMaps DEF SpawnEmptyTold
<1>2. Lost = {} /\ Appeared = {<<h, c>> : c \in DOMAIN map}
  BY <1>1, IssuesHoldings
<1>3. Appeared = {}
  BY <1>1, <1>2
<1>4. notified' = <<>> /\ bumped' = {}
  BY DEF SpawnEmptyTold, Tell, TellNobody
<1>5. QED
  BY <1>2, <1>3, <1>4, NobodyCalled

LEMMA DespawnTellsExactly ==
  ASSUME BundlesDistinct, StorageInv, StorageInv', NEW e \in Handle, DespawnTold(e)
  PROVE  CallsExact
<1>1. EndsHandle(e)
  BY DespawnMaps DEF DespawnTold, DespawnEntity
<1>2. Appeared = {} /\ Lost = {}
  BY <1>1, EndsHoldings
<1>3. notified' = <<>> /\ bumped' = {}
  BY DEF DespawnTold, Tell, TellNobody
<1>4. QED
  BY <1>2, <1>3, NobodyCalled

LEMMA AddTellsExactly ==
  ASSUME BundlesDistinct, StorageInv, StorageInv', NEW e \in Handle, NEW c \in Component,
         NEW v \in Value, AddStoredTold(e, c, v)
  PROVE  CallsExact
<1>1. PutsValue(e, c, v)
  BY AddMaps DEF AddStoredTold
<1>2. /\ Untold = {} /\ Lost = {}
      /\ Appeared = IF c \in DOMAIN ComponentsOf(e) THEN {} ELSE {<<e, c>>}
      /\ c \in DOMAIN ComponentsOf(e)' /\ ValueOf(e, c)' = v
  BY <1>1, PutsHoldings
<1>3. DOMAIN ComponentsOf(e) = archetypes[LocationOf(e).arch]
  BY <1>1, LiveMap DEF PutsValue
<1>4. CASE c \in archetypes[LocationOf(e).arch]
  <2>1. notified' = <<>> /\ bumped' = {}
    BY <1>4 DEF AddStoredTold, Tell, TellNobody
  <2>2. QED
    BY <1>2, <1>3, <1>4, <2>1, NobodyCalled
<1>5. CASE c \notin archetypes[LocationOf(e).arch]
  <2>1. notified' = <<FireOnAdd(e, c)>> /\ bumped' = {c}
    BY <1>5 DEF AddStoredTold, Tell, TellNobody
  <2>2. InPlace(e, c) = ValueOf(e, c)'
    BY <1>2, InPlaceExact
  <2>3. notified' = <<Call("add", e, c, v)>> /\ v = ValueOf(e, c)'
    BY <1>2, <2>1, <2>2 DEF FireOnAdd
  <2>4. Appeared = {<<e, c>>}
    BY <1>2, <1>3, <1>5
  <2>5. QED
    BY <1>2, <2>1, <2>3, <2>4, AddedExact
<1>6. QED
  BY <1>4, <1>5

LEMMA SetTellsExactly ==
  ASSUME BundlesDistinct, StorageInv, StorageInv', NEW e \in Handle, NEW c \in Component,
         NEW v \in Value, SetComponentTold(e, c, v)
  PROVE  CallsExact
<1>1. e \in Live
  BY DEF SetComponentTold, Live
<1>2. DOMAIN ComponentsOf(e) = archetypes[LocationOf(e).arch]
  BY <1>1, LiveMap
<1>3. CASE c \in archetypes[LocationOf(e).arch]
  <2>1. /\ Overwrite(LocationOf(e), c, v)
        /\ notified' = <<FireOnSet(e, c)>> /\ bumped' = {c}
    BY <1>3 DEF SetComponentTold, Tell
  <2>2. PutsValue(e, c, v)
    BY <1>1, <1>3, <2>1, OverwriteMaps
  <2>3. /\ Untold = {} /\ Lost = {}
        /\ Appeared = IF c \in DOMAIN ComponentsOf(e) THEN {} ELSE {<<e, c>>}
        /\ <<e, c>> \in Holdings'
        /\ <<e, c>> \in Holdings <=> c \in DOMAIN ComponentsOf(e)
        /\ c \in DOMAIN ComponentsOf(e)' /\ ValueOf(e, c)' = v
    BY <2>2, PutsHoldings
  <2>4. InPlace(e, c) = ValueOf(e, c)'
    BY <2>3, InPlaceExact
  <2>5. notified' = <<Call("set", e, c, v)>> /\ v = ValueOf(e, c)'
    BY <2>1, <2>3, <2>4 DEF FireOnSet
  <2>6. Appeared = {} /\ <<e, c>> \in Holdings
    BY <1>2, <1>3, <2>3
  <2>7. QED
    BY <2>1, <2>3, <2>5, <2>6, ReplacedExact
<1>4. CASE c \notin archetypes[LocationOf(e).arch]
  <2>1. AddStoredTold(e, c, v)
    BY <1>4, SparseAssumption DEF SetComponentTold, AddComponentTold
  <2>2. QED
    BY <2>1, AddTellsExactly
<1>5. QED
  BY <1>3, <1>4

LEMMA RemoveTellsExactly ==
  ASSUME BundlesDistinct, StorageInv, StorageInv', NEW e \in Handle, NEW c \in Component,
         RemoveStoredTold(e, c)
  PROVE  CallsExact
<1>1. TakesValue(e, c)
  BY RemoveMaps DEF RemoveStoredTold, RemoveStored
<1>2. Appeared = {} /\ Lost = {<<e, c>>}
  BY <1>1, TakesHoldings
<1>3. PICK v : v = ValueOf(e, c)
  OBVIOUS
<1>4. v = RowValues(LocationOf(e))[c]
  <2>1. e \in Live /\ c \in DOMAIN ComponentsOf(e)
    BY <1>1 DEF TakesValue
  <2>2. ComponentsOf(e)[c] = RowValues(LocationOf(e))[c]
    BY <2>1, LiveMap
  <2>3. QED
    BY <1>3, <2>2 DEF ValueOf
<1>5. notified' = <<Call("remove", e, c, v)>> /\ bumped' = {c}
  BY <1>4 DEF RemoveStoredTold, Tell
<1>6. QED
  BY <1>2, <1>3, <1>5, RemovedExact

(* A step that moves no row changes no holding.                            *)
LEMMA SameHoldings ==
  ASSUME UNCHANGED <<entityGenerations, entityLocations, archetypes, columns>>
  PROVE  Appeared = {} /\ Lost = {}
<1>1. Holdings' = Holdings
  BY DEF Holdings, IsAlive, LocationOf
<1>2. QED
  BY <1>1 DEF Appeared, Lost, Gone

LEMMA RegisterTellsExactly ==
  ASSUME NEW c, RegisterTold(c)
  PROVE  CallsExact
<1>1. UNCHANGED <<entityGenerations, entityLocations, archetypes, columns>>
  BY DEF RegisterTold, RegisterComponentType, allocator
<1>2. notified' = <<>> /\ bumped' = {}
  BY DEF RegisterTold, Tell, TellNobody
<1>3. QED
  BY <1>1, <1>2, SameHoldings, NobodyCalled

(* The calls on sparse types leave the archetypes alone and tell nobody.   *)
SparseTold == UNCHANGED vars /\ TellNobody

LEMMA SparseTellsExactly ==
  ASSUME SparseTold
  PROVE  CallsExact
<1>1. UNCHANGED <<entityGenerations, entityLocations, archetypes, columns>>
  BY DEF SparseTold, vars, allocator, storage
<1>2. notified' = <<>> /\ bumped' = {}
  BY DEF SparseTold, TellNobody, Tell
<1>3. QED
  BY <1>1, <1>2, SameHoldings, NobodyCalled

(* The three calls that a sparse type may be named in, by what they do.    *)
LEMMA ToldCases ==
  ASSUME StorageInv, NotifyNext
  PROVE  \/ SpawnEmptyTold
         \/ \E b \in Bundle : \E value \in [Types(b) -> Value] : SpawnWithTold(b, value)
         \/ \E e \in Handle : DespawnTold(e)
         \/ \E e \in Handle, c \in Component : \E v \in Value :
              AddStoredTold(e, c, v) \/ SetComponentTold(e, c, v)
         \/ \E e \in Handle, c \in Component : RemoveStoredTold(e, c)
         \/ \E c \in Component : RegisterTold(c)
         \/ SparseTold
<1>1. ASSUME NEW c \in ComponentType PROVE ValuesOf(c) \subseteq Value
  BY NotificationsAssumption DEF ValuesOf
<1>2. ASSUME NEW e \in Handle, NEW c \in SparseComponent, NEW v, AddComponentTold(e, c, v)
      PROVE  SparseTold
  BY <1>2 DEF AddComponentTold, AddSparse, SparseTold
<1>3. ASSUME NEW e \in Handle, NEW c \in SparseComponent, NEW v, SetComponentTold(e, c, v)
      PROVE  SparseTold
  <2>1. e \in Live
    BY <1>3 DEF SetComponentTold, Live
  <2>2. archetypes[LocationOf(e).arch] \in SUBSET Component
    BY <2>1, LiveMap
  <2>3. AddComponentTold(e, c, v)
    BY <1>3, <2>2, SparseAssumption DEF SetComponentTold
  <2>4. QED
    BY <1>2, <2>3
<1>4. ASSUME NEW e \in Handle, NEW c \in SparseComponent, RemoveComponentTold(e, c)
      PROVE  SparseTold
  BY <1>4 DEF RemoveComponentTold, RemoveSparse, SparseTold
<1>5. ASSUME NEW e \in Handle, NEW c \in ComponentType, NEW v \in ValuesOf(c),
             AddComponentTold(e, c, v) \/ SetComponentTold(e, c, v)
      PROVE  \/ SparseTold
             \/ \E d \in Component, w \in Value :
                  AddStoredTold(e, d, w) \/ SetComponentTold(e, d, w)
  <2>1. v \in Value
    BY <1>1
  <2>2. CASE c \in SparseComponent
    BY <1>2, <1>3, <1>5, <2>2
  <2>3. CASE c \notin SparseComponent
    BY <1>5, <2>1, <2>3 DEF AddComponentTold, ComponentType
  <2>4. QED
    BY <2>2, <2>3
<1>6. ASSUME NEW e \in Handle, NEW c \in ComponentType, RemoveComponentTold(e, c)
      PROVE  SparseTold \/ \E d \in Component : RemoveStoredTold(e, d)
  <2>1. CASE c \in SparseComponent
    BY <1>4, <1>6, <2>1
  <2>2. CASE c \notin SparseComponent
    BY <1>6, <2>2 DEF RemoveComponentTold, ComponentType
  <2>3. QED
    BY <2>1, <2>2
<1>7. QED
  BY <1>5, <1>6 DEF NotifyNext

LEMMA NextTellsExactly ==
  ASSUME BundlesDistinct, StorageInv, StorageInv', NotifyNext
  PROVE  CallsExact
BY ToldCases, SpawnEmptyTellsExactly, SpawnTellsExactly, DespawnTellsExactly, AddTellsExactly,
   SetTellsExactly, RemoveTellsExactly, RegisterTellsExactly, SparseTellsExactly

(* Every step of the calls is a step of the storage, or leaves it alone.   *)
LEMMA NotifyNextStores ==
  ASSUME StorageInv, NotifyNext
  PROVE  [Next]_vars
<1>1. ASSUME NEW e \in Handle, NEW c \in Component, NEW v \in Value, AddStoredTold(e, c, v)
      PROVE  Next
  BY <1>1 DEF AddStoredTold, Next
<1>2. ASSUME NEW e \in Handle, NEW c \in Component, NEW v \in Value, SetComponentTold(e, c, v)
      PROVE  Next
  <2>1. CASE c \in archetypes[LocationOf(e).arch]
    <3>1. Overwrite(LocationOf(e), c, v) /\ IsAlive(e)
      BY <1>2, <2>1 DEF SetComponentTold
    <3>2. LocationOf(e) # NoLocation
      BY <3>1 DEF IsAlive
    <3>3. AddComponent(e, c, v)
      BY <2>1, <3>1, <3>2 DEF AddComponent
    <3>4. QED
      BY <3>3 DEF Next
  <2>2. CASE c \notin archetypes[LocationOf(e).arch]
    <3>1. AddStoredTold(e, c, v)
      BY <1>2, <2>2, SparseAssumption DEF SetComponentTold, AddComponentTold
    <3>2. QED
      BY <1>1, <3>1
  <2>3. QED
    BY <2>1, <2>2
<1>3. ASSUME NEW e \in Handle, NEW c \in Component, RemoveStoredTold(e, c)
      PROVE  Next
  BY <1>3 DEF RemoveStoredTold, RemoveStored, Next
<1>4. ASSUME NEW e \in Handle, DespawnTold(e) PROVE Next
  BY <1>4 DEF DespawnTold, DespawnEntity, Next
<1>5. ASSUME NEW b \in Bundle, NEW value \in [Types(b) -> Value], SpawnWithTold(b, value)
      PROVE  Next
  BY <1>5 DEF SpawnWithTold, Next
<1>6. SpawnEmptyTold \/ (\E c \in Component : RegisterTold(c)) => Next
  BY DEF SpawnEmptyTold, RegisterTold, Next
<1>7. SparseTold => UNCHANGED vars
  BY DEF SparseTold
<1>8. QED
  BY <1>1, <1>2, <1>3, <1>4, <1>5, <1>6, <1>7, ToldCases

(* A world of the calls is a world of the storage.                         *)
LEMMA NotifyStorageInvariant == NotifySpec => []StorageInv
<1>1. StorageInv /\ [NotifyNext]_notifyVars => [Next]_vars
  BY NotifyNextStores DEF notifyVars, extraVars
<1>2. StorageInv /\ [Next]_vars => StorageInv'
  BY NextKeepsRows, NextKeepsColumns, NextKeepsBounds DEF StorageInv
<1>3. NotifyInit => StorageInv
  BY InitRows, InitColumns, MaxGenerationAssumption
     DEF NotifyInit, ExtraInit, Init, GenerationsBounded, StorageInv
<1>4. QED
  BY <1>1, <1>2, <1>3, PTL DEF NotifySpec

(* For bundles that name no type twice, the observer calls and the version *)
(* bumps of every call on the world, sparse types included, are as         *)
(* EventsExact asks: what an entity in an archetype gained, lost or had    *)
(* set, once and with its own value, apart from what it leaves open.       *)
THEOREM NotificationsTheorem ==
  ASSUME BundlesDistinct
  PROVE  NotifySpec => EventsExact
<1>1. StorageInv /\ StorageInv' /\ [NotifyNext]_notifyVars => [EventsStep]_notifyVars
  BY NextTellsExactly, CallsAreEvents
<1>2. NotifySpec => [][EventsStep]_notifyVars
  BY <1>1, NotifyStorageInvariant, PTL DEF NotifySpec
<1>3. QED
  BY <1>2, EventsStepMeaning
-----------------------------------------------------------------------------
(* Queries: rows.                                                          *)

N == Len(archetypes)

(* What soundness says of the tables.                                      *)
LEMMA SoundTables ==
  ASSUME StorageInv
  PROVE  /\ N \in Nat /\ DOMAIN archetypes = 1 .. N /\ DOMAIN columns = 1 .. N
         /\ \A a \in 1 .. N :
              /\ archetypes[a] \in SUBSET Component
              /\ archetypeEntities[a] \in Seq(Entity)
              /\ Len(archetypeEntities[a]) \in Nat
              /\ DOMAIN archetypeEntities[a] = 1 .. Len(archetypeEntities[a])
              /\ columns[a] \in [archetypes[a] -> Seq(Value)]
              /\ \A c \in archetypes[a] : /\ Len(columns[a][c]) \in Nat
                                          /\ DOMAIN columns[a][c] = 1 .. Len(columns[a][c])
                                          /\ Len(columns[a][c]) >= Len(archetypeEntities[a])
<1>1. archetypes \in Seq(SUBSET Component) /\ archetypeEntities \in Tables(Len(archetypes))
  BY DEF StorageInv, RowsInv, RowsType
<1>2. columns \in ColumnTables(Len(archetypes))
      /\ Aligned(Len(archetypes), archetypes, archetypeEntities, columns)
  BY DEF StorageInv, ColumnsInv
<1>3. N \in Nat /\ DOMAIN archetypes = 1 .. N /\ \A a \in 1 .. N : archetypes[a] \in SUBSET Component
  BY <1>1 DEF N
<1>4. DOMAIN columns = 1 .. N
  BY <1>2 DEF ColumnTables, N
<1>5. \A a \in 1 .. N : archetypeEntities[a] \in Seq(Entity)
  BY <1>1, TablesRows DEF N
<1>6. \A a \in 1 .. N : /\ columns[a] \in [archetypes[a] -> Seq(Value)]
                        /\ \A c \in archetypes[a] : Len(columns[a][c]) >= Len(archetypeEntities[a])
  BY <1>2 DEF Aligned, Fits, N
<1>7. \A a \in 1 .. N : \A c \in archetypes[a] :
        Len(columns[a][c]) \in Nat /\ DOMAIN columns[a][c] = 1 .. Len(columns[a][c])
  BY <1>6, LenProperties
<1>8. \A a \in 1 .. N : /\ Len(archetypeEntities[a]) \in Nat
                        /\ DOMAIN archetypeEntities[a] = 1 .. Len(archetypeEntities[a])
  BY <1>5, LenProperties
<1>9. QED
  BY <1>3, <1>4, <1>5, <1>6, <1>7, <1>8

(* A row of a matching archetype is what is expected of its entity.        *)
LEMMA ItemExpected ==
  ASSUME StorageInv, NEW q, NEW a \in 1 .. N, q.with \subseteq archetypes[a],
         NEW r \in 1 .. Len(archetypeEntities[a])
  PROVE  Item(a, r, Fetched(a, q)) = Expected(q, archetypeEntities[a][r])
<1>1. PICK e : e = archetypeEntities[a][r]
  OBVIOUS
<1>2. LocationOf(e) = [arch |-> a, row |-> r]
  BY <1>1, RowsAreLive DEF StorageInv, N
<1>3. ComponentsOf(e) = [c \in archetypes[a] |-> columns[a][c][r]]
  BY <1>2 DEF ComponentsOf
<1>4. PICK types : types = (q.with \cup q.optional) \cap archetypes[a]
  OBVIOUS
<1>5. Fetched(a, q) = types
  BY <1>4, SoundTables DEF Fetched
<1>6. Expected(q, e) = [entity |-> e, values |-> [c \in types |-> ComponentsOf(e)[c]]]
  BY <1>3, <1>4 DEF Expected
<1>7. [c \in types |-> ComponentsOf(e)[c]] = [c \in types |-> Components(a, c)[r]]
  BY <1>3, <1>4 DEF Components
<1>8. QED
  BY <1>1, <1>5, <1>6, <1>7 DEF Item

(* What a live entity's archetype has decides whether it is asked for.     *)
LEMMA AskedArchetype ==
  ASSUME NEW q
  PROVE  Asked(q) = {e \in Live : Matches(LocationOf(e).arch, q)}
<1>1. \A e : DOMAIN ComponentsOf(e) = archetypes[LocationOf(e).arch]
  BY DEF ComponentsOf
<1>2. QED
  BY <1>1 DEF Asked, Matches

(* Of m archetypes the rows of those hit, and the entities in them.        *)
RowsOf(q, m, ids, hit) ==
  [k \in 1 .. m |-> IF k \in hit THEN Rows(ids[k], Fetched(ids[k], q)) ELSE <<>>]

EntitiesOf(ids, hit) == {e \in Live : \E k \in hit : LocationOf(e).arch = ids[k]}

(* Such rows, one archetype behind the other and each archetype once, are  *)
(* an answer about these entities.                                         *)
LEMMA RowsAnswer ==
  ASSUME StorageInv, NEW q, NEW m \in Nat, NEW ids \in [1 .. m -> 1 .. N],
         \A j, k \in 1 .. m : ids[j] = ids[k] => j = k,
         NEW hit \in SUBSET (1 .. m),
         \A k \in hit : q.with \subseteq archetypes[ids[k]]
  PROVE  Answers(FlattenSeq(RowsOf(q, m, ids, hit)), q, EntitiesOf(ids, hit))
<1>0. PICK parts : parts = RowsOf(q, m, ids, hit)
  OBVIOUS
<1>1. PICK S : S = EntitiesOf(ids, hit)
  OBVIOUS
<1>2. PICK T : T = {Expected(q, e) : e \in S}
  OBVIOUS
<1>3. ASSUME NEW k \in hit
      PROVE  /\ Len(parts[k]) = Len(archetypeEntities[ids[k]])
             /\ parts[k] \in Seq(T)
             /\ \A r \in 1 .. Len(parts[k]) :
                  /\ archetypeEntities[ids[k]][r] \in S
                  /\ parts[k][r] = Expected(q, archetypeEntities[ids[k]][r])
  <2>1. PICK a : a = ids[k]
    OBVIOUS
  <2>2. a \in 1 .. N /\ q.with \subseteq archetypes[a] /\ k \in 1 .. m
    BY <2>1
  <2>3. PICK l : l = Len(archetypeEntities[a])
    OBVIOUS
  <2>4. l \in Nat /\ DOMAIN archetypeEntities[a] = 1 .. l
    BY <2>2, <2>3, SoundTables
  <2>5. parts[k] = [r \in 1 .. l |-> Item(a, r, Fetched(a, q))]
    BY <1>0, <2>1, <2>2, <2>4 DEF Rows, RowsOf
  <2>6. \A r \in 1 .. l : Item(a, r, Fetched(a, q)) = Expected(q, archetypeEntities[a][r])
    BY <2>2, <2>3, ItemExpected
  <2>7. \A r \in 1 .. l : archetypeEntities[a][r] \in S
    <3>1. \A r \in 1 .. l : /\ archetypeEntities[a][r] \in Live
                            /\ LocationOf(archetypeEntities[a][r]) = [arch |-> a, row |-> r]
      BY <2>2, <2>3, RowsAreLive DEF StorageInv, N
    <3>2. ASSUME NEW r \in 1 .. l PROVE archetypeEntities[a][r] \in S
      <4>1. PICK e : e = archetypeEntities[a][r]
        OBVIOUS
      <4>2. e \in Live /\ LocationOf(e) = [arch |-> a, row |-> r]
        BY <3>1, <4>1
      <4>3. LocationOf(e).arch = ids[k]
        BY ONLY <2>1, <4>2
      <4>4. k \in hit
        OBVIOUS
      <4>5. e \in EntitiesOf(ids, hit)
        BY ONLY <4>2, <4>3, <4>4 DEF EntitiesOf
      <4>6. QED
        BY ONLY <1>1, <4>1, <4>5
    <3>3. QED
      BY <3>2
  <2>8. parts[k] \in [1 .. l -> T]
    BY <1>2, <2>5, <2>6, <2>7
  <2>9. parts[k] \in Seq(T) /\ Len(parts[k]) = l
    BY <2>4, <2>8, TableIsSequence
  <2>10. QED
    BY <2>1, <2>3, <2>5, <2>6, <2>7, <2>9
<1>4. ASSUME NEW k \in 1 .. m, k \notin hit
      PROVE  parts[k] = <<>>
  BY <1>0, <1>4 DEF RowsOf
<1>5. parts \in [1 .. m -> Seq(T)]
  <2>1. <<>> \in Seq(T)
    OBVIOUS
  <2>2. ASSUME NEW k \in 1 .. m PROVE parts[k] \in Seq(T)
    <3>1. CASE k \in hit
      BY <1>3, <3>1
    <3>2. CASE k \notin hit
      BY <1>4, <2>1, <3>2
    <3>3. QED
      BY <3>1, <3>2
  <2>3. QED
    BY <1>0, <2>2 DEF RowsOf
<1>6. \A k \in 1 .. m : \A r \in 1 .. Len(parts[k]) :
        /\ k \in hit
        /\ r \in 1 .. Len(archetypeEntities[ids[k]])
        /\ archetypeEntities[ids[k]][r] \in S
        /\ parts[k][r] = Expected(q, archetypeEntities[ids[k]][r])
        /\ parts[k][r].entity = archetypeEntities[ids[k]][r]
  <2>1. \A k \in 1 .. m : \A r \in 1 .. Len(parts[k]) : k \in hit
    BY <1>4
  <2>2. \A e : Expected(q, e).entity = e
    BY DEF Expected
  <2>3. QED
    BY <1>3, <2>1, <2>2
<1>7. PICK answer : answer = FlattenSeq(parts)
  OBVIOUS
<1>8. /\ answer \in Seq(T)
      /\ \A x : x \in ToSet(answer) <=> \E k \in 1 .. m : \E r \in 1 .. Len(parts[k]) : x = parts[k][r]
  <2>1. /\ FlattenSeq(parts) \in Seq(T)
        /\ \A x : x \in ToSet(FlattenSeq(parts)) <=>
             \E k \in 1 .. m : \E r \in 1 .. Len(parts[k]) : x = parts[k][r]
    BY ONLY m \in Nat, <1>5, FlattenMembers
  <2>2. QED
    BY ONLY <1>7, <2>1
<1>9. OncePerPlace(answer)
  <2>1. ASSUME NEW j \in 1 .. m, NEW k \in 1 .. m,
               NEW r \in 1 .. Len(parts[j]), NEW s \in 1 .. Len(parts[k]), parts[j][r] = parts[k][s]
        PROVE  j = k /\ r = s
    <3>1. PICK e : e = archetypeEntities[ids[j]][r]
      OBVIOUS
    <3>2. e = archetypeEntities[ids[k]][s]
      <4>1. parts[j][r].entity = e
        BY <1>6, <3>1
      <4>2. parts[k][s].entity = archetypeEntities[ids[k]][s]
        BY <1>6
      <4>3. QED
        BY ONLY <2>1, <4>1, <4>2
    <3>3. LocationOf(e) = [arch |-> ids[j], row |-> r]
      BY <1>6, <3>1, RowsAreLive DEF StorageInv, N
    <3>4. LocationOf(e) = [arch |-> ids[k], row |-> s]
      BY <1>6, <3>2, RowsAreLive DEF StorageInv, N
    <3>5. ids[j] = ids[k] /\ r = s
      <4>1. [arch |-> ids[j], row |-> r] = [arch |-> ids[k], row |-> s]
        BY ONLY <3>3, <3>4
      <4>2. QED
        BY ONLY <4>1
    <3>6. QED
      BY <3>5
  <2>2. QED
    BY ONLY m \in Nat, <1>5, <1>7, <2>1, FlattenDistinct
<1>10. ToSet(answer) = T
  <2>1. ASSUME NEW x \in ToSet(answer) PROVE x \in T
    <3>1. PICK k \in 1 .. m : \E r \in 1 .. Len(parts[k]) : x = parts[k][r]
      BY <1>8
    <3>2. PICK r \in 1 .. Len(parts[k]) : x = parts[k][r]
      BY <3>1
    <3>3. PICK e : e = archetypeEntities[ids[k]][r]
      OBVIOUS
    <3>4. e \in S /\ x = Expected(q, e)
      BY <1>6, <3>2, <3>3
    <3>5. QED
      BY <1>2, <3>4
  <2>2. ASSUME NEW e \in S PROVE Expected(q, e) \in ToSet(answer)
    <3>1. PICK k \in hit : LocationOf(e).arch = ids[k] /\ e \in Live
      BY <1>1 DEF EntitiesOf
    <3>2. PICK r : r = LocationOf(e).row
      OBVIOUS
    <3>3. r \in 1 .. Len(archetypeEntities[ids[k]]) /\ archetypeEntities[ids[k]][r] = e
      BY <3>1, <3>2, RowsAreLive DEF StorageInv, N
    <3>4. r \in 1 .. Len(parts[k]) /\ parts[k][r] = Expected(q, e) /\ k \in 1 .. m
      BY <1>3, <3>3
    <3>5. QED
      BY <1>8, <3>4
  <2>3. QED
    BY <1>2, <2>1, <2>2
<1>11. IsFiniteSet(T) /\ Cardinality(T) = Len(answer)
  BY ONLY <1>8, <1>9, <1>10, DistinctLength
<1>12. Cardinality(S) = Cardinality(T)
  <2>1. PICK f : f = [x \in T |-> x.entity]
    OBVIOUS
  <2>2. \A e : Expected(q, e).entity = e
    BY DEF Expected
  <2>3. f \in [T -> S] /\ \A e \in S : Expected(q, e) \in T /\ f[Expected(q, e)] = e
    BY <1>2, <2>1, <2>2
  <2>4. f \in Surjection(T, S)
    BY <2>3 DEF Surjection
  <2>5. f \in Injection(T, S)
    <3>1. \A x, y \in T : f[x] = f[y] => x = y
      BY <1>2, <2>1, <2>2
    <3>2. QED
      BY <2>3, <3>1 DEF Injection, IsInjective
  <2>6. QED
    BY <1>11, <2>4, <2>5, FS_Surjection
<1>13. Answers(answer, q, S)
  BY <1>2, <1>10, <1>11, <1>12 DEF Answers
<1>14. QED
  BY <1>0, <1>1, <1>7, <1>13

-----------------------------------------------------------------------------
(* The ways of asking.                                                     *)

(* The callbacks, bounded by the entity list, visit what was asked for.    *)
LEMMA ForEachAnswers ==
  ASSUME StorageInv, NEW q
  PROVE  Answers(ForEach(q), q, Asked(q))
<1>1. PICK ids, hit : ids = [k \in 1 .. N |-> k] /\ hit = {a \in 1 .. N : Matches(a, q)}
  OBVIOUS
<1>2. N \in Nat /\ DOMAIN archetypes = 1 .. N
  BY SoundTables
<1>3. /\ N \in Nat
      /\ ids \in [1 .. N -> 1 .. N]
      /\ \A j, k \in 1 .. N : ids[j] = ids[k] => j = k
      /\ hit \in SUBSET (1 .. N)
      /\ \A k \in hit : q.with \subseteq archetypes[ids[k]]
  BY <1>1, <1>2 DEF Matches
<1>4. ForEach(q) = FlattenSeq(RowsOf(q, N, ids, hit))
  <2>1. RowsOf(q, N, ids, hit) =
          [a \in DOMAIN archetypes |-> IF Matches(a, q) THEN Rows(a, Fetched(a, q)) ELSE <<>>]
    BY <1>1, <1>2 DEF RowsOf
  <2>2. QED
    BY <2>1 DEF ForEach
<1>5. EntitiesOf(ids, hit) = Asked(q)
  <2>1. \A e \in Live : LocationOf(e).arch \in 1 .. N
    BY RowsAreLive DEF StorageInv, N
  <2>2. \A e \in Live : Matches(LocationOf(e).arch, q) <=> \E k \in hit : LocationOf(e).arch = ids[k]
    BY <1>1, <2>1
  <2>3. QED
    BY <2>2, AskedArchetype DEF EntitiesOf
<1>6. Answers(FlattenSeq(RowsOf(q, N, ids, hit)), q, EntitiesOf(ids, hit))
  BY ONLY StorageInv, <1>3, RowsAnswer
<1>7. QED
  BY <1>4, <1>5, <1>6

(* No column is shorter than its archetype's rows, so that an iterator     *)
(* zipped with the columns sees every row.                                 *)
LEMMA ZippedExact ==
  ASSUME StorageInv, NEW a \in 1 .. N, NEW types \in SUBSET archetypes[a]
  PROVE  ZippedRows(a, types) = Rows(a, types)
<1>1. PICK l, lens : /\ l = Len(archetypeEntities[a])
                     /\ lens = {l} \cup {Len(Components(a, c)) : c \in types}
  OBVIOUS
<1>2. l \in Nat /\ DOMAIN archetypeEntities[a] = 1 .. l
  BY <1>1, SoundTables
<1>3. \A c \in types : Len(Components(a, c)) \in Nat /\ Len(Components(a, c)) >= l
  BY <1>1, SoundTables DEF Components
<1>4. \A x \in lens : x \in Nat /\ l <= x
  BY <1>1, <1>2, <1>3
<1>5. Min(lens) = l
  <2>1. l \in lens
    BY <1>1
  <2>2. ASSUME NEW x \in lens, \A y \in lens : x =< y PROVE x = l
    <3>1. x \in Nat /\ x <= l /\ l <= x
      BY <1>4, <2>1, <2>2
    <3>2. QED
      BY <1>2, <3>1
  <2>3. QED
    BY <1>4, <2>1, <2>2 DEF Min
<1>6. ZippedRows(a, types) = [r \in 1 .. Min(lens) |-> Item(a, r, types)]
  BY <1>1 DEF ZippedRows
<1>7. QED
  BY <1>2, <1>5, <1>6 DEF Rows

(* The iterators leave optional types out, the optional queries have no    *)
(* excluded ones, and the views and tuples have neither.                   *)
Plain(q)    == [q EXCEPT !.optional = {}]
All(q)      == [q EXCEPT !.without = {}]
Required(q) == [q EXCEPT !.without = {}, !.optional = {}]

LEMMA Projections ==
  ASSUME NEW q \in Query
  PROVE  /\ Plain(q).with = q.with /\ Plain(q).without = q.without /\ Plain(q).optional = {}
         /\ All(q).with = q.with /\ All(q).without = {} /\ All(q).optional = q.optional
         /\ Required(q).with = q.with /\ Required(q).without = {} /\ Required(q).optional = {}
BY DEF Query, Plain, All, Required

(* What each of them matches and fetches, in terms of the query it was     *)
(* given.                                                                  *)
LEMMA ProjectedMatches ==
  ASSUME NEW q \in Query, NEW a
  PROVE  /\ Matches(a, Plain(q)) <=> Matches(a, q)
         /\ Matches(a, All(q)) <=> q.with \subseteq archetypes[a]
         /\ Matches(a, Required(q)) <=> q.with \subseteq archetypes[a]
         /\ Fetched(a, Plain(q)) = q.with
         /\ Fetched(a, All(q)) = Fetched(a, q)
         /\ Fetched(a, Required(q)) = q.with
BY Projections DEF Matches, Fetched

(* They all walk the same rows as the callbacks of such a query.           *)
LEMMA SameWalk ==
  ASSUME StorageInv, NEW q \in Query
  PROVE  /\ IteratorQuery(q) = ForEach(Plain(q))
         /\ OptionalQuery(q) = ForEach(All(q))
         /\ ViewForEach(q) = ForEach(Required(q))
         /\ QueryTuple(q) = ForEach(Required(q))
<1>1. DOMAIN archetypes = 1 .. N
  BY SoundTables
<1>2. ASSUME NEW a \in DOMAIN archetypes
      PROVE  /\ Matches(a, q) => ZippedRows(a, q.with) = Rows(a, q.with)
             /\ q.with \subseteq archetypes[a] => ZippedRows(a, Fetched(a, q)) = Rows(a, Fetched(a, q))
  <2>1. a \in 1 .. N
    BY <1>1
  <2>2. ASSUME q.with \subseteq archetypes[a]
        PROVE  ZippedRows(a, q.with) = Rows(a, q.with)
    BY <2>1, <2>2, ZippedExact
  <2>3. ASSUME q.with \subseteq archetypes[a]
        PROVE  ZippedRows(a, Fetched(a, q)) = Rows(a, Fetched(a, q))
    <3>1. DOMAIN columns[a] = archetypes[a]
      BY <2>1, SoundTables
    <3>2. Fetched(a, q) \in SUBSET archetypes[a]
      BY <2>3, <3>1 DEF Fetched
    <3>3. QED
      BY <2>1, <3>2, ZippedExact
  <2>4. QED
    BY <2>2, <2>3 DEF Matches
<1>3. IteratorQuery(q) = ForEach(Plain(q))
  <2>1. \A a \in DOMAIN archetypes :
          (IF Matches(a, q) THEN ZippedRows(a, q.with) ELSE <<>>) =
          (IF Matches(a, Plain(q)) THEN Rows(a, Fetched(a, Plain(q))) ELSE <<>>)
    BY <1>2, ProjectedMatches
  <2>2. [a \in DOMAIN archetypes |-> IF Matches(a, q) THEN ZippedRows(a, q.with) ELSE <<>>] =
        [a \in DOMAIN archetypes |->
           IF Matches(a, Plain(q)) THEN Rows(a, Fetched(a, Plain(q))) ELSE <<>>]
    BY <2>1
  <2>3. QED
    BY <2>2 DEF IteratorQuery, ForEach
<1>4. OptionalQuery(q) = ForEach(All(q))
  <2>1. \A a \in DOMAIN archetypes :
          (IF q.with \subseteq archetypes[a] THEN ZippedRows(a, Fetched(a, q)) ELSE <<>>) =
          (IF Matches(a, All(q)) THEN Rows(a, Fetched(a, All(q))) ELSE <<>>)
    BY <1>2, ProjectedMatches
  <2>2. [a \in DOMAIN archetypes |->
           IF q.with \subseteq archetypes[a] THEN ZippedRows(a, Fetched(a, q)) ELSE <<>>] =
        [a \in DOMAIN archetypes |->
           IF Matches(a, All(q)) THEN Rows(a, Fetched(a, All(q))) ELSE <<>>]
    BY <2>1
  <2>3. QED
    BY <2>2 DEF OptionalQuery, ForEach
<1>5. ViewForEach(q) = ForEach(Required(q)) /\ QueryTuple(q) = ForEach(Required(q))
  <2>1. \A a \in DOMAIN archetypes :
          (IF q.with \subseteq archetypes[a] THEN Rows(a, q.with) ELSE <<>>) =
          (IF Matches(a, Required(q)) THEN Rows(a, Fetched(a, Required(q))) ELSE <<>>)
    BY ProjectedMatches
  <2>2. [a \in DOMAIN archetypes |->
           IF q.with \subseteq archetypes[a] THEN Rows(a, q.with) ELSE <<>>] =
        [a \in DOMAIN archetypes |->
           IF Matches(a, Required(q)) THEN Rows(a, Fetched(a, Required(q))) ELSE <<>>]
    BY <2>1
  <2>3. QED
    BY <2>2 DEF ViewForEach, QueryTuple, FetchTuples, ForEach
<1>6. QED
  BY <1>3, <1>4, <1>5

(* So each of them answers what it was asked.                              *)
LEMMA WalksAnswer ==
  ASSUME StorageInv, NEW q \in Query
  PROVE  /\ Answers(ForEach(q), q, Asked(q))
         /\ Answers(IteratorQuery(q), Plain(q), Asked(q))
         /\ Answers(OptionalQuery(q), All(q), Asked(All(q)))
         /\ Answers(ViewForEach(q), Required(q), Asked(Required(q)))
         /\ Answers(QueryTuple(q), Required(q), Asked(Required(q)))
<1>1. Asked(Plain(q)) = Asked(q)
  BY Projections DEF Asked
<1>2. Answers(ForEach(Plain(q)), Plain(q), Asked(q))
  BY <1>1, ForEachAnswers
<1>3. QED
  BY <1>2, ForEachAnswers, SameWalk

-----------------------------------------------------------------------------
(* Soundness is kept: by the calls on the storage, as shown there, and by  *)
(* the passes, which replace values and no rows.                           *)

(* Some columns of type c have v in their first rows, and nothing else     *)
(* changed.                                                                *)
Rewrites(cols, c, v) ==
  /\ cols = [a \in DOMAIN columns |-> cols[a]]
  /\ \A a \in DOMAIN columns :
       cols[a] = columns[a] \/ \E len : cols[a] = Overwritten(a, c, len, v)

(* How far a pass along a borrowed plan goes in archetype a.               *)
ReachedLength(a) == (CHOOSE chunk \in ToSet(plan.chunks) : chunk.arch = a).len

LEMMA BorrowedForm ==
  ASSUME NEW c, NEW v
  PROVE  BorrowedPass(c, v) =
           [a \in DOMAIN columns |->
              IF a \in {chunk.arch : chunk \in ToSet(plan.chunks)}
              THEN Overwritten(a, c, ReachedLength(a), v) ELSE columns[a]]
BY DEF BorrowedPass, Written, ReachedLength

LEMMA PassesRewrite ==
  /\ \A q, c, v : Rewrites(DirectPass(q, c, v), c, v)
  /\ \A c, v : Rewrites(PlannedPass(c, v), c, v)
  /\ \A c, v : Rewrites(BorrowedPass(c, v), c, v)
<1>1. \A q, c, v : Rewrites(DirectPass(q, c, v), c, v)
  BY DEF DirectPass, Written, Rewrites
<1>2. \A c, v : Rewrites(PlannedPass(c, v), c, v)
  BY DEF PlannedPass, Written, Rewrites
<1>3. \A c, v : Rewrites(BorrowedPass(c, v), c, v)
  BY BorrowedForm DEF Rewrites
<1>4. QED
  BY <1>1, <1>2, <1>3

(* An overwritten column has the values it had from the len-th on.         *)
LEMMA OverwrittenColumn ==
  ASSUME StorageInv, NEW a \in 1 .. N, NEW c, NEW len, NEW v
  PROVE  /\ DOMAIN Overwritten(a, c, len, v) = archetypes[a]
         /\ \A d \in archetypes[a] :
              /\ d # c => Overwritten(a, c, len, v)[d] = columns[a][d]
              /\ d = c => Overwritten(a, c, len, v)[d] =
                            [r \in 1 .. Len(columns[a][c]) |->
                               IF r <= len THEN v ELSE columns[a][c][r]]
<1>1. columns[a] \in [archetypes[a] -> Seq(Value)]
  BY SoundTables
<1>2. c \in archetypes[a] => DOMAIN columns[a][c] = 1 .. Len(columns[a][c])
  BY SoundTables
<1>3. QED
  BY <1>1, <1>2 DEF Overwritten

LEMMA PassKeepsColumns ==
  ASSUME StorageInv, NEW c \in Component, NEW v \in Value, Rewrites(columns', c, v),
         UNCHANGED <<archetypes, archetypeEntities, columnFactories>>
  PROVE  ColumnsInv'
<1>1. DOMAIN columns' = 1 .. N
  BY SoundTables DEF Rewrites
<1>2. ASSUME NEW a \in 1 .. N
      PROVE  /\ columns'[a] \in [archetypes[a] -> Seq(Value)]
             /\ \A d \in archetypes[a] : Len(columns'[a][d]) = Len(columns[a][d])
  <2>1. a \in DOMAIN columns
    BY SoundTables
  <2>2. CASE columns'[a] = columns[a]
    BY <2>2, SoundTables
  <2>3. ASSUME NEW len, columns'[a] = Overwritten(a, c, len, v)
        PROVE  /\ columns'[a] \in [archetypes[a] -> Seq(Value)]
               /\ \A d \in archetypes[a] : Len(columns'[a][d]) = Len(columns[a][d])
    <3>1. columns[a] \in [archetypes[a] -> Seq(Value)]
      BY SoundTables
    <3>2. PICK cols : cols = Overwritten(a, c, len, v)
      OBVIOUS
    <3>3. /\ DOMAIN cols = archetypes[a]
          /\ \A d \in archetypes[a] :
               /\ d # c => cols[d] = columns[a][d]
               /\ d = c => cols[d] = [r \in 1 .. Len(columns[a][c]) |->
                                        IF r <= len THEN v ELSE columns[a][c][r]]
      BY <3>2, OverwrittenColumn
    <3>4. ASSUME NEW d \in archetypes[a]
          PROVE  cols[d] \in Seq(Value) /\ Len(cols[d]) = Len(columns[a][d])
      <4>1. columns[a][d] \in Seq(Value)
        BY <3>1
      <4>2. CASE d # c
        BY <3>3, <4>1, <4>2
      <4>3. CASE d = c
        <5>1. PICK l, s : s = columns[a][c] /\ l = Len(s)
          OBVIOUS
        <5>2. s \in Seq(Value) /\ l \in Nat /\ \A r \in 1 .. l : s[r] \in Value
          BY <4>1, <4>3, <5>1
        <5>3. cols[d] = [r \in 1 .. l |-> IF r <= len THEN v ELSE s[r]]
          BY <3>3, <4>3, <5>1
        <5>4. cols[d] \in [1 .. l -> Value]
          BY <5>2, <5>3
        <5>5. cols[d] \in Seq(Value) /\ Len(cols[d]) = l
          BY <5>2, <5>4, TableIsSequence
        <5>6. QED
          BY <4>3, <5>1, <5>5
      <4>4. QED
        BY <4>2, <4>3
    <3>5. cols \in [archetypes[a] -> Seq(Value)]
      <4>1. cols = [d \in archetypes[a] |-> cols[d]]
        BY <3>2, <3>1, <3>3 DEF Overwritten
      <4>2. QED
        BY <3>4, <4>1
    <3>6. QED
      BY <2>3, <3>2, <3>4, <3>5
  <2>4. QED
    BY <2>1, <2>2, <2>3 DEF Rewrites
<1>3. PICK n, archs, ents, cols : /\ n = Len(archetypes) /\ archs = archetypes
                                  /\ ents = archetypeEntities /\ cols = columns'
  OBVIOUS
<1>4. Aligned(n, archs, ents, cols)
  <2>1. Aligned(n, archs, ents, columns)
    BY <1>3 DEF StorageInv, ColumnsInv
  <2>2. QED
    BY <1>2, <1>3, <2>1 DEF Aligned, Fits, N
<1>5. cols \in ColumnTables(n)
  <2>1. cols = [a \in 1 .. N |-> columns'[a]]
    <3>1. columns' = [a \in DOMAIN columns |-> columns'[a]]
      BY DEF Rewrites
    <3>2. QED
      BY <1>3, <3>1, SoundTables
  <2>2. \A a \in 1 .. N : columns'[a] \in ColumnTable
    BY <1>2, SoundTables, ColumnTableMember
  <2>3. QED
    BY <1>3, <2>1, <2>2 DEF ColumnTables, N
<1>6. columnFactories \subseteq Component /\ \A a \in 1 .. n : archs[a] \subseteq columnFactories
  BY <1>3 DEF StorageInv, ColumnsInv
<1>7. QED
  BY <1>3, <1>4, <1>5, <1>6 DEF ColumnsInv

-----------------------------------------------------------------------------
(* What a plan rests on.                                                   *)

(* An archetype keeps its set, and none ever goes.                         *)
SetsKept ==
  /\ Len(archetypes') \in Nat /\ Len(archetypes') >= N
  /\ \A a \in 1 .. N : archetypes'[a] = archetypes[a]

LEMMA GrownKeepsSets ==
  ASSUME StorageInv, NEW id, NEW set, archetypes' = Grown(archetypes, id, set)
  PROVE  SetsKept
<1>1. archetypes \in Seq(SUBSET Component)
  BY DEF StorageInv, RowsInv, RowsType
<1>2. Len(archetypes') = IF id \in 1 .. N THEN N ELSE N + 1
  BY <1>1, GrownLen DEF N
<1>3. \A a \in 1 .. N : archetypes'[a] = archetypes[a]
  BY <1>1, GrownOld DEF N
<1>4. N \in Nat
  BY SoundTables
<1>5. QED
  BY <1>2, <1>3, <1>4 DEF SetsKept

LEMMA NextKeepsSets ==
  ASSUME StorageInv, [Next]_vars
  PROVE  SetsKept
<1>1. CASE UNCHANGED archetypes
  BY <1>1, SoundTables DEF SetsKept, N
<1>2. CASE SpawnEmpty
  BY <1>1, <1>2 DEF SpawnEmpty
<1>3. ASSUME NEW b \in Bundle, NEW value \in [Types(b) -> Value], SpawnWith(b, value)
      PROVE  SetsKept
  <2>1. \E id : archetypes' = Grown(archetypes, id, Types(b))
    BY <1>3 DEF SpawnWith
  <2>2. QED
    BY <2>1, GrownKeepsSets
<1>4. ASSUME NEW e \in Handle, Despawn(e) PROVE SetsKept
  BY <1>1, <1>4 DEF Despawn
<1>5. ASSUME NEW e \in Handle, NEW c \in Component, NEW v \in Value, AddComponent(e, c, v)
      PROVE  SetsKept
  <2>1. UNCHANGED archetypes \/ \E id, set : archetypes' = Grown(archetypes, id, set)
    BY <1>5 DEF AddComponent, Overwrite, AddFirst, AddAnother, MoveRow
  <2>2. QED
    BY <1>1, <2>1, GrownKeepsSets
<1>6. ASSUME NEW e \in Handle, NEW c \in Component, RemoveComponent(e, c) PROVE SetsKept
  <2>1. \E id, set : archetypes' = Grown(archetypes, id, set)
    BY <1>6 DEF RemoveComponent, MoveRow
  <2>2. QED
    BY <2>1, GrownKeepsSets
<1>7. ASSUME NEW c \in Component, RegisterComponentType(c) PROVE SetsKept
  BY <1>1, <1>7 DEF RegisterComponentType
<1>8. CASE UNCHANGED vars
  BY <1>1, <1>8 DEF vars, storage
<1>9. QED
  BY <1>2, <1>3, <1>4, <1>5, <1>6, <1>7, <1>8 DEF Next

(* ids are the archetypes that matched when there were `young' of them.    *)
MatchedThen(ids, q, young) ==
  /\ ids \in Seq(Nat) /\ OncePerPlace(ids)
  /\ \A a : a \in ToSet(ids) <=> a \in 1 .. young /\ Matches(a, q)

(* A plan of ids stays what it was made to be, while archetypes are added; *)
(* a borrowed plan is what would be made now, or stale.                    *)
PlanInv ==
  /\ plan.kind = "archetypes" =>
       /\ plan.query \in Planned
       /\ \E young \in 0 .. N : MatchedThen(plan.archetypes, plan.query, young)
  /\ plan.kind = "borrowed" =>
       /\ plan.query \in Planned /\ plan.query.without = {}
       /\ plan.chunks = Chunks(plan.query)

QueryInv == StorageInv /\ PlanInv

LEMMA MatchingNow ==
  ASSUME StorageInv, NEW q
  PROVE  MatchedThen(MatchingArchetypes(q), q, N)
<1>1. PICK seqs : seqs = [a \in 1 .. N |-> IF Matches(a, q) THEN <<a>> ELSE <<>>]
  OBVIOUS
<1>2. N \in Nat /\ MatchingArchetypes(q) = FlattenSeq(seqs)
  BY <1>1, SoundTables DEF MatchingArchetypes
<1>3. ASSUME NEW a \in 1 .. N
      PROVE  /\ seqs[a] \in Seq(Nat)
             /\ \A r : r \in 1 .. Len(seqs[a]) <=> r = 1 /\ Matches(a, q)
             /\ \A r \in 1 .. Len(seqs[a]) : seqs[a][r] = a
  <2>1. CASE Matches(a, q)
    <3>1. seqs[a] = <<a>> /\ a \in Nat
      BY <1>1, <1>2, <2>1
    <3>2. QED
      BY <2>1, <3>1
  <2>2. CASE ~ Matches(a, q)
    <3>1. seqs[a] = <<>>
      BY <1>1, <2>2
    <3>2. QED
      BY <2>2, <3>1
  <2>3. QED
    BY <2>1, <2>2
<1>4. seqs \in [1 .. N -> Seq(Nat)]
  BY <1>1, <1>3
<1>5. PICK ids : ids = FlattenSeq(seqs)
  OBVIOUS
<1>6. /\ ids \in Seq(Nat)
      /\ \A x : x \in ToSet(ids) <=> \E a \in 1 .. N : \E r \in 1 .. Len(seqs[a]) : x = seqs[a][r]
  <2>1. /\ FlattenSeq(seqs) \in Seq(Nat)
        /\ \A x : x \in ToSet(FlattenSeq(seqs)) <=>
             \E a \in 1 .. N : \E r \in 1 .. Len(seqs[a]) : x = seqs[a][r]
    BY ONLY <1>2, <1>4, FlattenMembers
  <2>2. QED
    BY ONLY <1>5, <2>1
<1>7. OncePerPlace(ids)
  <2>1. \A a, b \in 1 .. N : \A r \in 1 .. Len(seqs[a]), p \in 1 .. Len(seqs[b]) :
          seqs[a][r] = seqs[b][p] => a = b /\ r = p
    <3>1. ASSUME NEW a \in 1 .. N, NEW r \in 1 .. Len(seqs[a])
          PROVE  seqs[a][r] = a /\ r = 1
      BY ONLY <1>3, <3>1
    <3>2. QED
      BY ONLY <3>1
  <2>2. QED
    BY ONLY <1>2, <1>4, <1>5, <2>1, FlattenDistinct
<1>8. \A x : x \in ToSet(ids) <=> x \in 1 .. N /\ Matches(x, q)
  <2>1. ASSUME NEW x \in ToSet(ids) PROVE x \in 1 .. N /\ Matches(x, q)
    <3>1. PICK a \in 1 .. N : \E r \in 1 .. Len(seqs[a]) : x = seqs[a][r]
      BY <1>6
    <3>2. x = a /\ Matches(a, q)
      BY <1>3, <3>1
    <3>3. QED
      BY <3>2
  <2>2. ASSUME NEW x \in 1 .. N, Matches(x, q) PROVE x \in ToSet(ids)
    <3>1. 1 \in 1 .. Len(seqs[x]) /\ seqs[x][1] = x
      BY <1>3, <2>2
    <3>2. QED
      BY <1>6, <3>1
  <2>3. QED
    BY <2>1, <2>2
<1>9. QED
  BY <1>2, <1>5, <1>6, <1>7, <1>8 DEF MatchedThen

(* A plan of ids outlives every step that keeps the sets.                  *)
LEMMA MatchedStays ==
  ASSUME StorageInv, SetsKept, NEW ids, NEW q, NEW young \in 0 .. N, MatchedThen(ids, q, young)
  PROVE  young \in 0 .. N' /\ MatchedThen(ids, q, young)'
<1>1. N \in Nat /\ young \in 0 .. Len(archetypes')
  BY SoundTables DEF SetsKept
<1>2. \A a \in 1 .. young : Matches(a, q)' <=> Matches(a, q)
  BY <1>1 DEF Matches, SetsKept
<1>3. \A a : a \in ToSet(ids) <=> a \in 1 .. young /\ Matches(a, q)'
  BY <1>2 DEF MatchedThen
<1>4. QED
  BY <1>1, <1>3 DEF MatchedThen, N

(* The chunks depend on the rows only.                                     *)
LEMMA ChunksStay ==
  ASSUME UNCHANGED <<archetypes, archetypeEntities>>, NEW q
  PROVE  Chunks(q)' = Chunks(q)
BY DEF Chunks, Chunk, Matches

LEMMA PlanStays ==
  ASSUME QueryInv, UNCHANGED <<archetypes, archetypeEntities, plan>>
  PROVE  PlanInv'
<1>1. SetsKept
  BY SoundTables DEF SetsKept, QueryInv, N
<1>2. ASSUME plan.kind = "archetypes"
      PROVE  \E young \in 0 .. N' : MatchedThen(plan.archetypes, plan.query, young)'
  BY <1>1, <1>2, MatchedStays DEF QueryInv, PlanInv
<1>3. \A q : Chunks(q)' = Chunks(q)
  BY ChunksStay
<1>4. QED
  BY <1>2, <1>3 DEF QueryInv, PlanInv

LEMMA ReshapingKeepsPlan ==
  ASSUME QueryInv, [Next]_vars, BumpPlan
  PROVE  PlanInv'
<1>1. SetsKept
  BY NextKeepsSets DEF QueryInv
<1>2. CASE plan.kind = "borrowed"
  <2>1. plan' = [kind |-> "stale"]
    BY <1>2 DEF BumpPlan
  <2>2. QED
    BY <2>1 DEF PlanInv
<1>3. CASE plan.kind # "borrowed"
  <2>1. plan' = plan
    BY <1>3 DEF BumpPlan
  <2>2. ASSUME plan.kind = "archetypes"
        PROVE  \E young \in 0 .. N' : MatchedThen(plan.archetypes, plan.query, young)'
    BY <1>1, <2>1, <2>2, MatchedStays DEF QueryInv, PlanInv
  <2>3. QED
    BY <1>3, <2>1, <2>2 DEF QueryInv, PlanInv
<1>4. QED
  BY <1>2, <1>3

LEMMA PassKeeps ==
  ASSUME QueryInv, Pass
  PROVE  QueryInv'
<1>1. UNCHANGED <<allocator, entityLocations, tail, archetypes, archetypeEntities,
                  columnFactories, caches, plan>>
  BY DEF Pass
<1>2. RowsInv'
  BY <1>1, UntouchedRows DEF QueryInv, StorageInv
<1>3. GenerationsBounded'
  BY <1>1 DEF QueryInv, StorageInv, GenerationsBounded, allocator
<1>4. PICK c \in Component, v \in Value : Rewrites(columns', c, v)
  BY PassesRewrite DEF Pass
<1>5. ColumnsInv'
  BY <1>1, <1>4, PassKeepsColumns DEF QueryInv
<1>6. PlanInv'
  BY <1>1, PlanStays
<1>7. QED
  BY <1>2, <1>3, <1>5, <1>6 DEF QueryInv, StorageInv

LEMMA NextKeepsStorage ==
  ASSUME StorageInv, [Next]_vars
  PROVE  StorageInv'
BY NextKeepsRows, NextKeepsColumns, NextKeepsBounds DEF StorageInv

LEMMA NextKeepsQueryInv ==
  QueryInv /\ [QueryNext]_queryVars => QueryInv'
<1> SUFFICES ASSUME QueryInv, [QueryNext]_queryVars PROVE QueryInv'
  OBVIOUS
<1>1. StorageInv /\ PlanInv
  BY DEF QueryInv
<1>2. ASSUME Reshaping, BumpPlan PROVE QueryInv'
  <2>1. Next
    BY <1>2 DEF Reshaping, Next, Live
  <2>2. QED
    BY <1>1, <1>2, <2>1, NextKeepsStorage, ReshapingKeepsPlan DEF QueryInv
<1>3. ASSUME NEW e \in Handle, NEW c \in Component, NEW v \in Value,
             Replacing(e, c, v), UNCHANGED plan
      PROVE  QueryInv'
  <2>1. Next
    BY <1>3 DEF Replacing, Next
  <2>2. UNCHANGED <<archetypes, archetypeEntities>>
    BY <1>3 DEF Replacing, AddComponent, Overwrite
  <2>3. QED
    BY <1>1, <1>3, <2>1, <2>2, NextKeepsStorage, PlanStays DEF QueryInv
<1>4. ASSUME UNCHANGED vars PROVE StorageInv'
  BY <1>1, <1>4, NextKeepsStorage
<1>5. ASSUME NEW q \in Planned, PlanQuery(q) PROVE QueryInv'
  <2>1. plan' = [kind |-> "archetypes", query |-> q, archetypes |-> MatchingArchetypes(q)]
        /\ UNCHANGED archetypes
    BY <1>5 DEF PlanQuery, vars, storage
  <2>2. MatchedThen(MatchingArchetypes(q), q, N)
    BY <1>1, MatchingNow
  <2>3. N \in 0 .. N
    BY <1>1, SoundTables
  <2>4. PICK ids, n : ids = MatchingArchetypes(q) /\ n = N
    OBVIOUS
  <2>5. n \in 0 .. N' /\ MatchedThen(ids, q, n)'
    BY <2>1, <2>2, <2>3, <2>4 DEF MatchedThen, Matches, N
  <2>6. /\ plan'.kind = "archetypes" /\ plan'.query = q /\ plan'.archetypes = ids
        /\ plan'.kind # "borrowed"
    BY <2>1, <2>4
  <2>7. PlanInv'
    BY <2>5, <2>6 DEF PlanInv
  <2>8. QED
    BY <1>4, <1>5, <2>7 DEF PlanQuery, QueryInv
<1>6. ASSUME NEW q \in Planned, PlanBorrowed(q) PROVE QueryInv'
  <2>1. /\ plan' = [kind |-> "borrowed", query |-> q, chunks |-> Chunks(q)] /\ q.without = {}
        /\ UNCHANGED <<archetypes, archetypeEntities>>
    BY <1>6 DEF PlanBorrowed, vars, storage
  <2>2. /\ plan'.kind = "borrowed" /\ plan'.kind # "archetypes"
        /\ plan'.query = q /\ plan'.chunks = Chunks(q)
    BY <2>1
  <2>3. Chunks(q)' = Chunks(q)
    BY <2>1, ChunksStay
  <2>4. PlanInv'
    BY <2>1, <2>2, <2>3 DEF PlanInv
  <2>5. QED
    BY <1>4, <1>6, <2>4 DEF PlanBorrowed, QueryInv
<1>7. CASE Pass
  BY <1>7, PassKeeps
<1>8. CASE UNCHANGED queryVars
  <2>1. UNCHANGED vars /\ UNCHANGED <<archetypes, archetypeEntities, plan>>
    BY <1>8 DEF queryVars, vars, storage
  <2>2. QED
    BY <1>4, <2>1, PlanStays DEF QueryInv
<1>9. QED
  BY <1>2, <1>3, <1>5, <1>6, <1>7, <1>8 DEF QueryNext

LEMMA QueryInvariant == QuerySpec => []QueryInv
<1>1. QueryInit => QueryInv
  <2>1. Init => GenerationsBounded
    BY MaxGenerationAssumption DEF Init, GenerationsBounded
  <2>2. plan = NoPlan => PlanInv
    BY DEF NoPlan, PlanInv
  <2>3. QED
    BY <2>1, <2>2, InitRows, InitColumns DEF QueryInit, QueryInv, StorageInv
<1>2. QED
  BY <1>1, NextKeepsQueryInv, PTL DEF QuerySpec

-----------------------------------------------------------------------------
(* Plans of archetype ids.                                                 *)

(* A use of the plan gives the rows of its archetypes, whatever is in them *)
(* by now; the archetypes it misses are all younger than the plan.         *)
LEMMA PlanReaches ==
  ASSUME QueryInv
  PROVE  PlansReachPlanned
<1> SUFFICES ASSUME plan.kind = "archetypes" PROVE PlansReachPlanned
  BY DEF PlansReachPlanned
<1>1. PICK q, ids, missed :
        /\ q = plan.query /\ ids = plan.archetypes
        /\ missed = {a \in DOMAIN archetypes : Matches(a, q)} \ ToSet(ids)
  OBVIOUS
<1>2. q \in Planned /\ q.optional = {}
  BY <1>1, PlannedAssumption DEF QueryInv, PlanInv
<1>3. PICK young \in 0 .. N : MatchedThen(ids, q, young)
  BY <1>1 DEF QueryInv, PlanInv
<1>4. StorageInv /\ N \in Nat /\ DOMAIN archetypes = 1 .. N
  BY SoundTables DEF QueryInv
<1>5. PICK m, hit : m = Len(ids) /\ hit = 1 .. m
  OBVIOUS
<1>6. /\ ids \in Seq(Nat) /\ DOMAIN ids = 1 .. m /\ m \in Nat
      /\ ToSet(ids) = {ids[k] : k \in 1 .. m}
  BY <1>3, <1>5 DEF MatchedThen, ToSet
<1>7. \A k \in 1 .. m : ids[k] \in 1 .. young /\ Matches(ids[k], q)
  BY <1>3, <1>6 DEF MatchedThen
<1>8. ids \in [1 .. m -> 1 .. N]
  BY <1>4, <1>6, <1>7
<1>9. \A j, k \in 1 .. m : ids[j] = ids[k] => j = k
  BY <1>3, <1>5 DEF MatchedThen, OncePerPlace
<1>10. \A k \in hit : q.with \subseteq archetypes[ids[k]]
  BY <1>5, <1>7 DEF Matches
<1>11. hit \in SUBSET (1 .. m)
  BY <1>5
<1>12. Answers(FlattenSeq(RowsOf(q, m, ids, hit)), q, EntitiesOf(ids, hit))
  BY ONLY <1>4, <1>6, <1>8, <1>9, <1>10, <1>11, RowsAnswer
<1>13. ForEachWithPlan = FlattenSeq(RowsOf(q, m, ids, hit))
  <2>1. \A a : Fetched(a, q) = q.with
    BY <1>2 DEF Fetched
  <2>2. RowsOf(q, m, ids, hit) = [k \in DOMAIN ids |-> Rows(ids[k], q.with)]
    BY <1>5, <1>6, <2>1 DEF RowsOf
  <2>3. QED
    BY <1>1, <2>2 DEF ForEachWithPlan
<1>14. EntitiesOf(ids, hit) = {e \in Asked(q) : LocationOf(e).arch \notin missed}
  <2>1. \A e \in Live : LocationOf(e).arch \in 1 .. N
    BY <1>4, RowsAreLive DEF StorageInv, N
  <2>2. \A e \in Live : (\E k \in hit : LocationOf(e).arch = ids[k]) <=> LocationOf(e).arch \in ToSet(ids)
    BY <1>5, <1>6
  <2>3. \A a \in 1 .. N : a \in ToSet(ids) => Matches(a, q)
    BY <1>3 DEF MatchedThen
  <2>4. \A a \in 1 .. N : a \in ToSet(ids) <=> Matches(a, q) /\ a \notin missed
    BY <1>1, <1>4, <2>3
  <2>5. \A e \in Live : (\E k \in hit : LocationOf(e).arch = ids[k]) <=>
           Matches(LocationOf(e).arch, q) /\ LocationOf(e).arch \notin missed
    BY <2>1, <2>2, <2>4
  <2>6. QED
    BY <2>5, AskedArchetype DEF EntitiesOf
<1>15. \A a \in missed, b \in ToSet(ids) : a > b
  <2>1. ASSUME NEW a \in missed, NEW b \in ToSet(ids) PROVE a > b
    <3>1. a \in 1 .. N /\ Matches(a, q) /\ a \notin ToSet(ids)
      BY <1>1, <1>4
    <3>2. a \notin 1 .. young /\ b \in 1 .. young
      BY <1>3, <3>1 DEF MatchedThen
    <3>3. QED
      BY <1>4, <3>1, <3>2
  <2>2. QED
    BY <2>1
<1>16. QED
  BY <1>1, <1>12, <1>13, <1>14, <1>15 DEF PlansReachPlanned

(* A plan of ids visits each entity at most once, only live ones that      *)
(* match, with their values, and misses only archetypes younger than it.   *)
THEOREM ReachTheorem == QuerySpec => []PlansReachPlanned
BY QueryInvariant, PlanReaches, PTL

-----------------------------------------------------------------------------
(* Passes.                                                                 *)

(* The first rows of c in the archetypes `ids' hold v, as many as there    *)
(* are entities; the rest is as before.                                    *)
PassResult(result, ids, c, v) ==
  \A a \in 1 .. N :
    result[a] = IF a \in ids THEN Overwritten(a, c, Len(archetypeEntities[a]), v) ELSE columns[a]

WritesOnly(result, c, v, entities) ==
  \A e \in Live : \A d \in archetypes[LocationOf(e).arch] :
    result[LocationOf(e).arch][d][LocationOf(e).row] =
      IF e \in entities /\ d = c THEN v ELSE ComponentsOf(e)[d]

(* By entity: those of the archetypes `ids' get v, and nothing else of     *)
(* anyone is touched.                                                      *)
LEMMA PassWrites ==
  ASSUME StorageInv, NEW result, NEW ids, NEW c, NEW v, PassResult(result, ids, c, v),
         NEW entities, \A e \in Live : e \in entities <=> LocationOf(e).arch \in ids
  PROVE  WritesOnly(result, c, v, entities)
<1>1. ASSUME NEW e \in Live, NEW d \in archetypes[LocationOf(e).arch]
      PROVE  result[LocationOf(e).arch][d][LocationOf(e).row] =
               IF e \in entities /\ d = c THEN v ELSE ComponentsOf(e)[d]
  <2>1. PICK a, r : a = LocationOf(e).arch /\ r = LocationOf(e).row
    OBVIOUS
  <2>2. a \in 1 .. N /\ r \in 1 .. Len(archetypeEntities[a])
    BY <2>1, RowsAreLive DEF StorageInv, N
  <2>3. d \in archetypes[a] /\ ComponentsOf(e)[d] = columns[a][d][r]
    BY <2>1 DEF ComponentsOf
  <2>4. /\ r \in 1 .. Len(columns[a][d]) /\ r <= Len(archetypeEntities[a])
    BY <2>2, <2>3, SoundTables
  <2>5. CASE a \notin ids
    BY <2>1, <2>2, <2>3, <2>5 DEF PassResult
  <2>6. CASE a \in ids
    <3>1. PICK len : len = Len(archetypeEntities[a])
      OBVIOUS
    <3>2. result[a] = Overwritten(a, c, len, v)
      BY <2>2, <2>6, <3>1 DEF PassResult
    <3>3. CASE d # c
      <4>1. result[a][d] = columns[a][d]
        <5>1. StorageInv /\ a \in 1 .. N
          BY <2>2
        <5>2. /\ DOMAIN Overwritten(a, c, len, v) = archetypes[a]
              /\ \A x \in archetypes[a] :
                   /\ x # c => Overwritten(a, c, len, v)[x] = columns[a][x]
                   /\ x = c => Overwritten(a, c, len, v)[x] =
                                 [j \in 1 .. Len(columns[a][c]) |->
                                    IF j <= len THEN v ELSE columns[a][c][j]]
          BY ONLY <5>1, OverwrittenColumn
        <5>3. QED
          BY ONLY <2>3, <3>2, <3>3, <5>2
      <4>2. QED
        BY <2>1, <2>3, <3>3, <4>1
    <3>4. CASE d = c
      <4>1. result[a][d] = [j \in 1 .. Len(columns[a][c]) |-> IF j <= len THEN v ELSE columns[a][c][j]]
        BY <2>2, <2>3, <3>2, <3>4, OverwrittenColumn
      <4>2. r \in 1 .. Len(columns[a][c]) /\ r <= len
        BY <2>4, <3>1, <3>4
      <4>3. result[a][d][r] = v
        BY <4>1, <4>2
      <4>4. QED
        BY <2>1, <2>6, <3>4, <4>3
    <3>5. QED
      BY <3>3, <3>4
  <2>7. QED
    BY <2>5, <2>6
<1>2. QED
  BY <1>1 DEF WritesOnly

(* The chunks of a query point at its archetypes that have rows.           *)
LEMMA ChunkFields ==
  ASSUME StorageInv, NEW a \in 1 .. N
  PROVE  Chunk(a).arch = a /\ Chunk(a).len = Len(archetypeEntities[a])
<1>1. PICK l : l = Len(archetypeEntities[a])
  OBVIOUS
<1>2. l \in Nat /\ DOMAIN archetypeEntities[a] = 1 .. l
  BY <1>1, SoundTables
<1>3. [r \in DOMAIN archetypeEntities[a] |-> archetypeEntities[a][r].index]
        = [r \in 1 .. l |-> archetypeEntities[a][r].index]
  BY <1>2
<1>4. Len([r \in 1 .. l |-> archetypeEntities[a][r].index]) = l
  BY <1>2
<1>5. QED
  BY <1>1, <1>3, <1>4 DEF Chunk

HasRows(a, q) == Matches(a, q) /\ archetypeEntities[a] # <<>>

(* What Chunks concatenates. *)
Heads(q) == [a \in 1 .. N |-> IF HasRows(a, q) THEN <<Chunk(a)>> ELSE <<>>]

LEMMA HeadsProperties ==
  ASSUME StorageInv, NEW q
  PROVE  /\ N \in Nat
         /\ Chunks(q) = FlattenSeq(Heads(q))
         /\ Heads(q) \in [1 .. N -> Seq({Chunk(a) : a \in 1 .. N})]
         /\ \A a \in 1 .. N :
              /\ HasRows(a, q) => Len(Heads(q)[a]) = 1 /\ Heads(q)[a][1] = Chunk(a)
              /\ ~ HasRows(a, q) => Len(Heads(q)[a]) = 0
<1>1. PICK T : T = {Chunk(a) : a \in 1 .. N}
  OBVIOUS
<1>2. ASSUME NEW a \in 1 .. N
      PROVE  /\ Heads(q)[a] \in Seq(T)
             /\ HasRows(a, q) => Len(Heads(q)[a]) = 1 /\ Heads(q)[a][1] = Chunk(a)
             /\ ~ HasRows(a, q) => Len(Heads(q)[a]) = 0
  <2>1. CASE HasRows(a, q)
    <3>1. PICK chunk : chunk = Chunk(a)
      OBVIOUS
    <3>2. Heads(q)[a] = <<chunk>> /\ chunk \in T
      BY <1>1, <2>1, <3>1 DEF Heads
    <3>3. QED
      BY <2>1, <3>1, <3>2
  <2>2. CASE ~ HasRows(a, q)
    <3>1. Heads(q)[a] = <<>>
      BY <2>2 DEF Heads
    <3>2. QED
      BY <2>2, <3>1
  <2>3. QED
    BY <2>1, <2>2
<1>3. Heads(q) = [a \in 1 .. N |-> Heads(q)[a]]
  BY DEF Heads
<1>4. Heads(q) \in [1 .. N -> Seq(T)]
  <2>1. \A a \in 1 .. N : Heads(q)[a] \in Seq(T)
    BY <1>2
  <2>2. QED
    BY <1>3, <2>1
<1>5. N \in Nat /\ DOMAIN archetypes = 1 .. N
  BY SoundTables
<1>6. Chunks(q) = FlattenSeq(Heads(q))
  BY <1>5 DEF Chunks, Heads, HasRows
<1>7. QED
  BY <1>1, <1>2, <1>4, <1>5, <1>6

LEMMA ChunkMembers ==
  ASSUME StorageInv, NEW q
  PROVE  \A x : x \in ToSet(Chunks(q)) <=> \E a \in 1 .. N : HasRows(a, q) /\ x = Chunk(a)
<1>1. PICK T, heads : T = {Chunk(a) : a \in 1 .. N} /\ heads = Heads(q)
  OBVIOUS
<1>2. N \in Nat /\ heads \in [1 .. N -> Seq(T)] /\ Chunks(q) = FlattenSeq(heads)
  BY <1>1, HeadsProperties
<1>3. \A a \in 1 .. N :
        /\ HasRows(a, q) => Len(heads[a]) = 1 /\ heads[a][1] = Chunk(a)
        /\ ~ HasRows(a, q) => Len(heads[a]) = 0
  BY <1>1, HeadsProperties
<1>4. /\ FlattenSeq(heads) \in Seq(T)
      /\ \A x : x \in ToSet(FlattenSeq(heads)) <=>
           \E a \in 1 .. N : \E r \in 1 .. Len(heads[a]) : x = heads[a][r]
  BY ONLY <1>2, FlattenMembers
<1>5. ASSUME NEW x, NEW a \in 1 .. N
      PROVE  (\E r \in 1 .. Len(heads[a]) : x = heads[a][r]) <=> HasRows(a, q) /\ x = Chunk(a)
  <2>1. CASE HasRows(a, q)
    BY <1>3, <2>1
  <2>2. CASE ~ HasRows(a, q)
    BY <1>3, <2>2
  <2>3. QED
    BY <2>1, <2>2
<1>6. QED
  BY <1>2, <1>4, <1>5

LEMMA PassesWrite ==
  ASSUME QueryInv
  PROVE  PassesWriteTheirQuery
<1>1. StorageInv /\ N \in Nat /\ DOMAIN columns = 1 .. N /\ DOMAIN archetypes = 1 .. N
  BY SoundTables DEF QueryInv
<1>2. \A e \in Live : LocationOf(e).arch \in 1 .. N
  BY <1>1, RowsAreLive DEF StorageInv, N
<1>3. PICK v : v = "written"
  OBVIOUS
<1>4. ASSUME NEW c, NEW q
      PROVE  WritesOnly(DirectPass(q, c, v), c, v, Asked(q))
  <2>1. PICK ids : ids = {a \in 1 .. N : Matches(a, q)}
    OBVIOUS
  <2>2. PassResult(DirectPass(q, c, v), ids, c, v)
    BY <1>1, <2>1 DEF PassResult, DirectPass, Written, RowCount
  <2>3. \A e \in Live : e \in Asked(q) <=> LocationOf(e).arch \in ids
    BY <1>2, <2>1, AskedArchetype
  <2>4. QED
    BY <1>1, <2>2, <2>3, PassWrites
<1>5. ASSUME NEW c, plan.kind = "archetypes"
      PROVE  WritesOnly(PlannedPass(c, v), c, v,
                        {e \in Asked(plan.query) : LocationOf(e).arch \in ToSet(plan.archetypes)})
  <2>1. PICK q, ids, entities :
          /\ q = plan.query /\ ids = ToSet(plan.archetypes)
          /\ entities = {e \in Asked(q) : LocationOf(e).arch \in ids}
    OBVIOUS
  <2>2. PassResult(PlannedPass(c, v), ids, c, v)
    BY <1>1, <2>1 DEF PassResult, PlannedPass, Written, RowCount
  <2>3. \A a \in ids : Matches(a, q)
    BY <1>5, <2>1 DEF QueryInv, PlanInv, MatchedThen
  <2>4. \A e \in Live : e \in entities <=> LocationOf(e).arch \in ids
    BY <2>1, <2>3, AskedArchetype
  <2>5. WritesOnly(PlannedPass(c, v), c, v, entities)
    BY <1>1, <2>2, <2>4, PassWrites
  <2>6. QED
    BY <2>1, <2>5
<1>6. ASSUME NEW c, plan.kind = "borrowed"
      PROVE  WritesOnly(BorrowedPass(c, v), c, v, Asked(plan.query))
  <2>1. PICK q, chunks, ids :
          /\ q = plan.query /\ chunks = ToSet(plan.chunks)
          /\ ids = {chunk.arch : chunk \in chunks}
    OBVIOUS
  <2>2. \A x : x \in chunks <=> \E a \in 1 .. N : HasRows(a, q) /\ x = Chunk(a)
    BY <1>1, <1>6, <2>1, ChunkMembers DEF QueryInv, PlanInv
  <2>3. \A a \in 1 .. N : Chunk(a).arch = a /\ Chunk(a).len = Len(archetypeEntities[a])
    BY <1>1, ChunkFields
  <2>4. \A a \in 1 .. N : a \in ids <=> HasRows(a, q)
    BY <2>1, <2>2, <2>3
  <2>5. ASSUME NEW a \in 1 .. N, a \in ids
        PROVE  ReachedLength(a) = Len(archetypeEntities[a])
    <3>1. PICK x : x = CHOOSE chunk \in chunks : chunk.arch = a
      OBVIOUS
    <3>2. x \in chunks /\ x.arch = a
      BY <2>1, <2>5, <3>1
    <3>3. PICK b \in 1 .. N : x = Chunk(b)
      BY <2>2, <3>2
    <3>4. x.len = Len(archetypeEntities[a])
      BY <2>3, <3>2, <3>3
    <3>5. QED
      BY <2>1, <3>1, <3>4 DEF ReachedLength
  <2>6. PassResult(BorrowedPass(c, v), ids, c, v)
    <3>1. BorrowedPass(c, v) =
            [a \in DOMAIN columns |->
               IF a \in ids THEN Overwritten(a, c, ReachedLength(a), v) ELSE columns[a]]
      BY <2>1, BorrowedForm
    <3>2. QED
      BY <1>1, <2>5, <3>1 DEF PassResult
  <2>7. \A e \in Live : e \in Asked(q) <=> LocationOf(e).arch \in ids
    <3>1. ASSUME NEW e \in Live PROVE archetypeEntities[LocationOf(e).arch] # <<>>
      <4>1. LocationOf(e).row \in 1 .. Len(archetypeEntities[LocationOf(e).arch])
        BY <1>1, RowsAreLive DEF StorageInv
      <4>2. QED
        BY <4>1
    <3>2. QED
      BY <1>2, <2>4, <3>1, AskedArchetype DEF HasRows
  <2>8. WritesOnly(BorrowedPass(c, v), c, v, Asked(q))
    BY <1>1, <2>6, <2>7, PassWrites
  <2>9. QED
    BY <2>1, <2>8
<1>7. QED
  BY <1>3, <1>4, <1>5, <1>6 DEF PassesWriteTheirQuery, WritesOnly

(* A mutable pass, direct or by a plan, changes the component it names of  *)
(* the entities it is meant to reach and nothing else of any entity.       *)
THEOREM PassesTheorem == QuerySpec => []PassesWriteTheirQuery
BY QueryInvariant, PassesWrite, PTL

-----------------------------------------------------------------------------
(* Borrowed plans.                                                         *)

(* The sequences heads hold one element each or none; parts has what F     *)
(* gives for the element, or nothing, and mapped what F gives for the      *)
(* elements of the concatenation of heads.                                 *)
MappedHeads(U, T, n, heads, F, parts, mapped) ==
  /\ n \in Nat /\ heads \in [1 .. n -> Seq(U)]
  /\ F \in [U -> Seq(T)] /\ parts \in [1 .. n -> Seq(T)]
  /\ \A a \in 1 .. n : Len(heads[a]) \in {0, 1}
  /\ \A a \in 1 .. n : Len(parts[a]) = IF Len(heads[a]) = 1 THEN Len(F[heads[a][1]]) ELSE 0
  /\ \A a \in 1 .. n : Len(heads[a]) = 1 => parts[a] = F[heads[a][1]]
  /\ mapped = [k \in 1 .. Len(FlattenSeq(heads)) |-> F[FlattenSeq(heads)[k]]]

(* The sequences F gives for the elements of a concatenation of heads, at  *)
(* most one in each, are those of the heads that there are: the empty ones *)
(* in between add nothing.                                                 *)
LEMMA FlattenHeads ==
  ASSUME NEW U, NEW T, NEW n, NEW heads, NEW F, NEW parts, NEW mapped,
         MappedHeads(U, T, n, heads, F, parts, mapped)
  PROVE  FlattenSeq(mapped) = FlattenSeq(parts)
<1> SUFFICES ASSUME NEW h, h = FlattenSeq(heads), n \in Nat, heads \in [1 .. n -> Seq(U)],
                    F \in [U -> Seq(T)], parts \in [1 .. n -> Seq(T)],
                    \A a \in 1 .. n : Len(heads[a]) \in {0, 1},
                    \A a \in 1 .. n : Len(parts[a]) =
                      IF Len(heads[a]) = 1 THEN Len(F[heads[a][1]]) ELSE 0,
                    \A a \in 1 .. n : Len(heads[a]) = 1 => parts[a] = F[heads[a][1]],
                    mapped = [k \in 1 .. Len(h) |-> F[h[k]]]
             PROVE  FlattenSeq(mapped) = FlattenSeq(parts)
  BY DEF MappedHeads
<1>1. h \in Seq(U) /\ \E o : Starts(o, heads, n) /\ Concatenates(h, o, heads, n)
  <2>1. /\ FlattenSeq(heads) \in Seq(U)
        /\ \E o : Starts(o, heads, n) /\ Concatenates(FlattenSeq(heads), o, heads, n)
    BY FlattenProperties
  <2>2. QED
    BY <2>1
<1>2. PICK at : Starts(at, heads, n) /\ Concatenates(h, at, heads, n)
  BY <1>1
<1>3. PICK l, p : l = Len(h) /\ p = [k \in 1 .. l |-> F[h[k]]]
  OBVIOUS
<1>4. l \in Nat /\ p \in [1 .. l -> Seq(T)]
  BY <1>1, <1>3
<1>5. PICK s, t : s = FlattenSeq(p) /\ t = FlattenSeq(parts)
  OBVIOUS
<1>6. PICK from : Starts(from, p, l) /\ Concatenates(s, from, p, l)
  <2>1. \E o : Starts(o, p, l) /\ Concatenates(FlattenSeq(p), o, p, l)
    BY ONLY <1>4, FlattenProperties
  <2>2. QED
    BY <1>5, <2>1
<1>7. PICK off : Starts(off, parts, n) /\ Concatenates(t, off, parts, n)
  <2>1. \E o : Starts(o, parts, n) /\ Concatenates(FlattenSeq(parts), o, parts, n)
    BY FlattenProperties
  <2>2. QED
    BY <1>5, <2>1
<1>8. s \in Seq(T) /\ t \in Seq(T)
  <2>1. FlattenSeq(p) \in Seq(T)
    BY ONLY <1>4, FlattenProperties
  <2>2. FlattenSeq(parts) \in Seq(T)
    BY FlattenProperties
  <2>3. QED
    BY <1>5, <2>1, <2>2
<1>9. /\ at \in [1 .. n + 1 -> Nat] /\ at[1] = 0 /\ at[n + 1] = l
      /\ \A a \in 1 .. n : at[a + 1] = at[a] + Len(heads[a])
  BY <1>2, <1>3 DEF Starts, Concatenates
<1>10. /\ from \in [1 .. l + 1 -> Nat] /\ from[1] = 0 /\ from[l + 1] = Len(s)
       /\ \A k \in 1 .. l : from[k + 1] = from[k] + Len(p[k])
  BY <1>6 DEF Starts, Concatenates
<1>11. /\ off \in [1 .. n + 1 -> Nat] /\ off[1] = 0 /\ off[n + 1] = Len(t)
       /\ \A a \in 1 .. n : off[a + 1] = off[a] + Len(parts[a])
  BY <1>7 DEF Starts, Concatenates
<1>12. ASSUME NEW a \in 1 .. n, Len(heads[a]) = 1
       PROVE  at[a] + 1 \in 1 .. l /\ p[at[a] + 1] = parts[a]
  <2>1. 1 \in 1 .. Len(heads[a])
    BY <1>12
  <2>2. at[a] + 1 \in 1 .. l /\ h[at[a] + 1] = heads[a][1]
    BY <1>2, <1>3, <2>1 DEF Concatenates
  <2>3. parts[a] = F[heads[a][1]]
    BY <1>12
  <2>4. QED
    BY <1>3, <2>2, <2>3
<1>13. \A a \in 1 .. n + 1 : at[a] + 1 \in 1 .. l + 1 /\ off[a] = from[at[a] + 1]
  <2> DEFINE Same(a) == at[a] + 1 \in 1 .. l + 1 /\ off[a] = from[at[a] + 1]
             Good == {m \in 0 .. n : \A a \in 1 .. m + 1 : Same(a)}
  <2>1. 0 \in Good
    <3>1. Same(1)
      BY <1>4, <1>9, <1>10, <1>11
    <3> HIDE DEF Same
    <3>2. \A a \in 1 .. 0 + 1 : Same(a)
      BY <3>1
    <3>3. QED
      BY <3>2
  <2>2. PICK m \in Good : \A k \in Good : k <= m
    <3> HIDE DEF Good
    <3>1. Good \in SUBSET (0 .. n) /\ Good # {}
      BY <2>1 DEF Good
    <3>2. QED
      BY <3>1, GreatestIndex
  <2>3. ASSUME m < n PROVE FALSE
    <3>1. PICK a : a = m + 1
      OBVIOUS
    <3>2. a \in 1 .. n /\ a + 1 \in 1 .. n + 1 /\ Same(a)
      <4> HIDE DEF Same
      <4>1. a \in 1 .. n /\ a \in 1 .. m + 1 /\ a + 1 \in 1 .. n + 1
        BY <2>3, <3>1
      <4>2. QED
        BY <4>1
    <3>3. Same(a + 1)
      <4>1. at[a + 1] = at[a] + Len(heads[a]) /\ off[a + 1] = off[a] + Len(parts[a])
        BY <1>9, <1>11, <3>2
      <4>2. at[a] \in Nat /\ off[a] \in Nat /\ at[a] + 1 \in 1 .. l + 1
        <5>1. a \in 1 .. n + 1 /\ at[a] + 1 \in 1 .. l + 1
          BY <3>2
        <5>2. QED
          BY ONLY <1>9, <1>11, <5>1
      <4>3. CASE Len(heads[a]) = 0
        <5>1. Len(parts[a]) = 0
          BY <3>2, <4>3
        <5>2. at[a + 1] = at[a] /\ off[a + 1] = off[a]
          BY <4>1, <4>2, <4>3, <5>1
        <5>3. QED
          BY <3>2, <5>2
      <4>4. CASE Len(heads[a]) = 1
        <5>1. PICK k : k = at[a] + 1
          OBVIOUS
        <5>2. k \in 1 .. l /\ p[k] = parts[a] /\ at[a + 1] = k /\ off[a] = from[k]
          BY <1>12, <3>2, <4>1, <4>4, <5>1
        <5>3. from[k + 1] = from[k] + Len(p[k])
          BY <1>10, <5>2
        <5>4. off[a + 1] = from[k + 1] /\ k + 1 \in 1 .. l + 1
          BY <1>4, <4>1, <5>2, <5>3
        <5>5. QED
          BY <5>2, <5>4
      <4>5. QED
        BY <3>2, <4>3, <4>4
    <3>4. m + 1 \in Good
      <4> HIDE DEF Same
      <4>1. \A b \in 1 .. m + 1 : Same(b)
        OBVIOUS
      <4>2. \A b \in 1 .. (m + 1) + 1 : b \in 1 .. m + 1 \/ b = a + 1
        BY <3>1
      <4>3. \A b \in 1 .. (m + 1) + 1 : Same(b)
        BY <3>3, <4>1, <4>2
      <4>4. m + 1 \in 0 .. n
        BY <2>3
      <4>5. QED
        BY <4>3, <4>4
    <3>5. QED
      <4> HIDE DEF Good
      <4>1. m + 1 <= m
        BY <2>2, <3>4
      <4>2. m \in Nat
        BY DEF Good
      <4>3. QED
        BY ONLY <4>1, <4>2
  <2> HIDE DEF Same
  <2>4. m = n
    BY <2>2, <2>3
  <2>5. \A a \in 1 .. n + 1 : Same(a)
    BY <2>2, <2>4
  <2>6. QED
    BY <2>5 DEF Same
<1>14. Len(t) = Len(s)
  <2>1. n + 1 \in 1 .. n + 1
    OBVIOUS
  <2>2. off[n + 1] = from[at[n + 1] + 1]
    BY <1>13, <2>1
  <2>3. QED
    BY <1>9, <1>10, <1>11, <2>2
<1>15. ASSUME NEW j \in 1 .. Len(t) PROVE t[j] = s[j]
  <2>1. PICK a \in 1 .. n : \E r \in 1 .. Len(parts[a]) : j = off[a] + r
    BY <1>7 DEF Concatenates
  <2>2. PICK r \in 1 .. Len(parts[a]) : j = off[a] + r
    BY <2>1
  <2>3. t[j] = parts[a][r]
    BY <1>7, <2>2 DEF Concatenates
  <2>4. Len(heads[a]) = 1
    <3>1. CASE Len(heads[a]) = 0
      <4>1. Len(parts[a]) = 0
        BY <3>1
      <4>2. QED
        BY <2>2, <4>1
    <3>2. QED
      BY <3>1
  <2>5. PICK k : k = at[a] + 1
    OBVIOUS
  <2>6. k \in 1 .. l /\ p[k] = parts[a] /\ off[a] = from[k]
    BY <1>12, <1>13, <2>4, <2>5
  <2>7. s[from[k] + r] = p[k][r]
    BY <1>6, <2>2, <2>6 DEF Concatenates
  <2>8. QED
    BY <2>2, <2>3, <2>6, <2>7
<1>16. t = s
  <2>1. /\ t \in [1 .. Len(t) -> T] /\ s \in [1 .. Len(s) -> T]
    BY <1>8
  <2>2. QED
    BY ONLY <1>14, <1>15, <2>1
<1>17. QED
  BY <1>3, <1>5, <1>16

(* Half of r * (2 * base + r - 1) is a number, ContiguousIndexSum, which    *)
(* grows by the next index.                                                *)
LEMMA IndexSumStep ==
  ASSUME NEW base \in Nat, NEW r \in Nat
  PROVE  /\ ContiguousIndexSum(base, r) \in Nat
         /\ ContiguousIndexSum(base, 0) = 0
         /\ ContiguousIndexSum(base, r + 1) = ContiguousIndexSum(base, r) + (base + r)
<1>1. PICK k \in Nat : r = 2 * k \/ r = 2 * k + 1
  <2>1. r \div 2 \in Nat /\ (r = 2 * (r \div 2) \/ r = 2 * (r \div 2) + 1)
    OBVIOUS
  <2>2. QED
    BY <2>1
<1>2. PICK h \in Nat : 2 * h = r * (2 * base + r - 1)
  <2>1. CASE r = 2 * k
    <3>1. CASE k = 0
      <4>1. 2 * 0 = r * (2 * base + r - 1)
        BY <2>1, <3>1
      <4>2. QED
        BY <4>1
    <3>2. CASE k # 0
      <4>1. PICK d \in Nat : d = 2 * base + r - 1
        BY <2>1, <3>2
      <4>2. k * d \in Nat /\ 2 * (k * d) = (2 * k) * d
        BY <4>1
      <4>3. QED
        BY <2>1, <4>1, <4>2
    <3>3. QED
      BY <3>1, <3>2
  <2>2. CASE r = 2 * k + 1
    <3>1. PICK d \in Nat : d = base + k
      OBVIOUS
    <3>2. 2 * base + r - 1 = 2 * d
      BY <2>2, <3>1
    <3>3. r * d \in Nat /\ 2 * (r * d) = r * (2 * d)
      BY <3>1
    <3>4. QED
      BY <3>2, <3>3
  <2>3. QED
    BY <1>1, <2>1, <2>2
<1>3. \A x \in Nat : (2 * x) \div 2 = x
  OBVIOUS
<1>4. ContiguousIndexSum(base, r) = h
  BY <1>2, <1>3 DEF ContiguousIndexSum
<1>5. ContiguousIndexSum(base, 0) = 0
  BY DEF ContiguousIndexSum
<1>6. 2 * (h + (base + r)) = (r + 1) * (2 * base + (r + 1) - 1)
  <2>1. PICK x, y : x = r * base /\ y = r * r
    OBVIOUS
  <2>2. x \in Nat /\ y \in Nat
    BY <2>1
  <2>3. r * (2 * base + r - 1) = 2 * x + y - r
    BY <2>1
  <2>4. (r + 1) * (2 * base + (r + 1) - 1) = 2 * x + y + 2 * base + r
    BY <2>1
  <2>5. QED
    BY <1>2, <2>2, <2>3, <2>4
<1>7. ContiguousIndexSum(base, r + 1) = h + (base + r)
  <2>1. h + (base + r) \in Nat
    BY <1>2
  <2>2. QED
    BY <1>3, <1>6, <2>1 DEF ContiguousIndexSum
<1>8. QED
  BY <1>2, <1>4, <1>5, <1>7

(* f adds up what the table `index' has from 1 on.                         *)
Totals(f, index, n) == f = [r \in 0 .. n |-> IF r = 0 THEN 0 ELSE f[r - 1] + index[r]]

(* For indices that follow each other the closed form is such a function,  *)
LEMMA CountedTotalsExist ==
  ASSUME NEW base \in Nat, NEW n \in Nat, NEW index, \A r \in 1 .. n : index[r] = base + r - 1
  PROVE  \E f : Totals(f, index, n)
<1>1. PICK g : g = [r \in 0 .. n |-> ContiguousIndexSum(base, r)]
  OBVIOUS
<1>2. ASSUME NEW r \in 0 .. n
      PROVE  g[r] = IF r = 0 THEN 0 ELSE g[r - 1] + index[r]
  <2>1. CASE r = 0
    BY <1>1, <2>1, IndexSumStep
  <2>2. CASE r # 0
    <3>1. PICK p : p = r - 1
      OBVIOUS
    <3>2. p \in Nat /\ p \in 0 .. n /\ r = p + 1 /\ r \in 1 .. n
      BY <2>2, <3>1
    <3>3. ContiguousIndexSum(base, p + 1) = ContiguousIndexSum(base, p) + (base + p)
      BY <3>2, IndexSumStep
    <3>4. index[r] = base + p
      BY <3>2
    <3>5. g[r] = g[p] + index[r]
      BY <1>1, <3>2, <3>3, <3>4
    <3>6. QED
      BY <2>2, <3>1, <3>5
  <2>3. QED
    BY <2>1, <2>2
<1>3. Totals(g, index, n)
  BY <1>1, <1>2 DEF Totals
<1>4. QED
  BY <1>3

(* and the only one.                                                       *)
LEMMA CountedTotals ==
  ASSUME NEW base \in Nat, NEW n \in Nat, NEW index, \A r \in 1 .. n : index[r] = base + r - 1,
         NEW f, Totals(f, index, n)
  PROVE  f[n] = ContiguousIndexSum(base, n)
<1> DEFINE Good == {m \in 0 .. n : f[m] = ContiguousIndexSum(base, m)}
<1>1. \A r \in 0 .. n : f[r] = IF r = 0 THEN 0 ELSE f[r - 1] + index[r]
  BY DEF Totals
<1>2. PICK m \in Good : \A k \in Good : k <= m
  <2>1. 0 \in Good
    <3>1. f[0] = 0
      BY <1>1
    <3>2. ContiguousIndexSum(base, 0) = 0
      BY IndexSumStep
    <3>3. QED
      BY <3>1, <3>2
  <2> HIDE DEF Good
  <2>2. Good \in SUBSET (0 .. n) /\ Good # {}
    BY <2>1 DEF Good
  <2>3. QED
    BY <2>2, GreatestIndex
<1>3. ASSUME m < n PROVE FALSE
  <2>1. PICK p : p = m + 1
    OBVIOUS
  <2>2. m \in Nat /\ p \in 1 .. n /\ p \in 0 .. n /\ p # 0 /\ p - 1 = m
    BY <1>3, <2>1
  <2>3. f[p] = f[m] + index[p] /\ index[p] = base + m
    BY <1>1, <2>1, <2>2
  <2>4. f[p] = ContiguousIndexSum(base, p)
    BY <2>1, <2>2, <2>3, IndexSumStep
  <2>5. p \in Good
    BY <2>2, <2>4
  <2> HIDE DEF Good
  <2>6. p <= m
    BY <1>2, <2>5
  <2>7. QED
    BY ONLY <2>1, <2>2, <2>6
<1>4. m = n
  BY <1>3
<1>5. QED
  BY <1>4

(* What a chunk of archetype a holds.                                      *)
LEMMA ChunkIndices ==
  ASSUME StorageInv, NEW a \in 1 .. N, NEW n, n = Len(archetypeEntities[a]),
         NEW index, index = [r \in 1 .. n |-> archetypeEntities[a][r].index]
  PROVE  /\ n \in Nat
         /\ \A r \in 1 .. n : index[r] \in Nat
         /\ \A r \in 1 .. n : CountedIndex(Chunk(a), r) = index[r]
         /\ Chunk(a).base # None =>
              /\ Chunk(a).base \in Nat
              /\ Chunk(a).sum = ContiguousIndexSum(Chunk(a).base, n)
              /\ \A r \in 1 .. n : index[r] = Chunk(a).base + r - 1
<1>1. n \in Nat /\ DOMAIN archetypeEntities[a] = 1 .. n
      /\ \A r \in 1 .. n : archetypeEntities[a][r] \in Entity
  <2>1. archetypeEntities[a] \in Seq(Entity)
    BY SoundTables
  <2>2. QED
    BY <2>1, SoundTables
<1>2. \A r \in 1 .. n : index[r] \in Nat
  BY <1>1, EntityFields DEF Index
<1>3. PICK base : base = ContiguousIndexBase(index)
  OBVIOUS
<1>4. Len(index) = n /\ DOMAIN index = 1 .. n
  BY <1>1
<1>5. Chunk(a) = [arch    |-> a,
                  len     |-> n,
                  base    |-> base,
                  sum     |-> IF base = None THEN None ELSE ContiguousIndexSum(base, n),
                  indices |-> IF base = None THEN index ELSE <<>>]
  <2>1. [r \in DOMAIN archetypeEntities[a] |-> archetypeEntities[a][r].index] = index
    BY <1>1
  <2>2. QED
    BY <1>3, <1>4, <2>1 DEF Chunk
<1>6. CASE base = None
  <2>1. Chunk(a).base = None /\ Chunk(a).indices = index
    BY <1>5, <1>6
  <2>2. QED
    BY <1>1, <1>2, <2>1 DEF CountedIndex
<1>7. CASE base # None
  <2>1. index # <<>> /\ (\A k \in 1 .. n : index[k] = index[1] + k - 1) /\ base = index[1]
    BY <1>3, <1>4, <1>7 DEF ContiguousIndexBase
  <2>2. n # 0
    BY <1>1, <2>1
  <2>3. base \in Nat
    <3>1. 1 \in 1 .. n
      BY <1>1, <2>2
    <3>2. QED
      BY <1>2, <2>1, <3>1
  <2>4. Chunk(a).base = base /\ Chunk(a).sum = ContiguousIndexSum(base, n)
    BY <1>5, <1>7
  <2>5. \A r \in 1 .. n : CountedIndex(Chunk(a), r) = index[r]
    BY <1>7, <2>1, <2>4 DEF CountedIndex
  <2>6. \A r \in 1 .. n : index[r] = base + r - 1
    BY <2>1
  <2>7. PICK chunk : chunk = Chunk(a)
    OBVIOUS
  <2>8. QED
    BY ONLY <1>1, <1>2, <2>3, <2>4, <2>5, <2>6, <2>7
<1>8. QED
  BY <1>6, <1>7

(* The last conjunct of FreshPlansExact for one chunk.                     *)
SumAgrees(chunk) ==
  LET total[r \in 0 .. chunk.len] ==
        IF r = 0 THEN 0 ELSE total[r - 1] + IndexedSlices(chunk)[r].index
  IN  chunk.sum = total[chunk.len]

LEMMA FreshPlans ==
  ASSUME QueryInv
  PROVE  FreshPlansExact
<1> SUFFICES ASSUME plan.kind = "borrowed" PROVE FreshPlansExact
  BY DEF FreshPlansExact
<1>1. PICK q, h, l : q = plan.query /\ h = plan.chunks /\ l = Len(h)
  OBVIOUS
<1>2. StorageInv /\ q.optional = {} /\ h = Chunks(q)
  BY <1>1, PlannedAssumption DEF QueryInv, PlanInv
<1>3. N \in Nat /\ DOMAIN archetypes = 1 .. N
  BY <1>2, SoundTables
<1>4. PICK U, heads : U = {Chunk(a) : a \in 1 .. N} /\ heads = Heads(q)
  OBVIOUS
<1>5. /\ heads \in [1 .. N -> Seq(U)] /\ h = FlattenSeq(heads)
      /\ \A a \in 1 .. N :
           /\ HasRows(a, q) => Len(heads[a]) = 1 /\ heads[a][1] = Chunk(a)
           /\ ~ HasRows(a, q) => Len(heads[a]) = 0
  BY <1>2, <1>4, HeadsProperties
<1>6. h \in Seq(U)
  <2>1. FlattenSeq(heads) \in Seq(U)
    BY ONLY <1>3, <1>5, FlattenProperties
  <2>2. QED
    BY <1>5, <2>1
<1>7. l \in Nat /\ DOMAIN h = 1 .. l /\ \A k \in 1 .. l : \E a \in 1 .. N : h[k] = Chunk(a)
  BY <1>1, <1>4, <1>6
<1>8. ASSUME NEW a \in 1 .. N
      PROVE  EntitySlices(Chunk(a)) = Rows(a, q.with)
  <2>1. PICK n : n = Len(archetypeEntities[a])
    OBVIOUS
  <2>2. Chunk(a).arch = a /\ Chunk(a).len = n /\ DOMAIN archetypeEntities[a] = 1 .. n
    BY <1>2, <2>1, ChunkFields, SoundTables
  <2>3. QED
    BY <1>1, <2>2 DEF EntitySlices, Rows
<1>9. ForEachChunk = ForEach(q)
  <2>1. PICK T : T = UNION {{Item(a, r, q.with) : r \in Nat} : a \in 1 .. N}
    OBVIOUS
  <2>2. PICK F : F = [chunk \in U |-> EntitySlices(chunk)]
    OBVIOUS
  <2>3. PICK parts : parts = [a \in 1 .. N |-> IF Matches(a, q) THEN Rows(a, q.with) ELSE <<>>]
    OBVIOUS
  <2>4. ASSUME NEW a \in 1 .. N
        PROVE  /\ Rows(a, q.with) \in Seq(T) /\ Len(Rows(a, q.with)) = Len(archetypeEntities[a])
    <3>1. PICK n : n = Len(archetypeEntities[a])
      OBVIOUS
    <3>2. n \in Nat /\ DOMAIN archetypeEntities[a] = 1 .. n
      BY <1>2, <3>1, SoundTables
    <3>3. Rows(a, q.with) \in [1 .. n -> T]
      BY <2>1, <3>2 DEF Rows
    <3>4. QED
      BY <3>1, <3>2, <3>3, TableIsSequence
  <2>5. F \in [U -> Seq(T)]
    BY <1>4, <1>8, <2>2, <2>4
  <2>6. ASSUME NEW a \in 1 .. N
        PROVE  /\ parts[a] \in Seq(T)
               /\ Len(parts[a]) = IF Len(heads[a]) = 1 THEN Len(F[heads[a][1]]) ELSE 0
               /\ Len(heads[a]) = 1 => parts[a] = F[heads[a][1]]
               /\ Len(heads[a]) \in {0, 1}
    <3>1. CASE HasRows(a, q)
      <4>1. parts[a] = Rows(a, q.with)
        BY <2>3, <3>1 DEF HasRows
      <4>2. Len(heads[a]) = 1 /\ heads[a][1] = Chunk(a)
        BY <1>5, <3>1
      <4>3. F[Chunk(a)] = Rows(a, q.with)
        BY <1>4, <1>8, <2>2
      <4>4. QED
        BY <2>4, <4>1, <4>2, <4>3
    <3>2. CASE ~ HasRows(a, q)
      <4>1. Len(heads[a]) = 0
        BY <1>5, <3>2
      <4>2. CASE Matches(a, q)
        <5>1. archetypeEntities[a] = <<>> /\ parts[a] = Rows(a, q.with)
          BY <2>3, <3>2, <4>2 DEF HasRows
        <5>2. QED
          BY <2>4, <4>1, <5>1
      <4>3. CASE ~ Matches(a, q)
        <5>1. parts[a] = <<>>
          BY <2>3, <4>3
        <5>2. QED
          BY <4>1, <5>1
      <4>4. QED
        BY <4>2, <4>3
    <3>3. QED
      BY <3>1, <3>2
  <2>7. parts \in [1 .. N -> Seq(T)]
    BY <2>3, <2>6
  <2>8a. PICK mapped : mapped = [k \in 1 .. Len(h) |-> F[h[k]]]
    OBVIOUS
  <2>8. FlattenSeq(mapped) = FlattenSeq(parts)
    <3>1. MappedHeads(U, T, N, heads, F, parts, mapped)
      BY <1>3, <1>5, <2>5, <2>6, <2>7, <2>8a DEF MappedHeads
    <3>2. QED
      BY ONLY <3>1, FlattenHeads
  <2>9. ForEachChunk = FlattenSeq(mapped)
    <3>1. \A k \in 1 .. l : F[h[k]] = EntitySlices(h[k])
      BY <1>4, <1>7, <2>2
    <3>2. [k \in DOMAIN h |-> EntitySlices(h[k])] = mapped
      BY <1>1, <1>7, <2>8a, <3>1
    <3>3. QED
      BY <1>1, <3>2 DEF ForEachChunk
  <2>10. FlattenSeq(parts) = ForEach(q)
    <3>1. \A a : Fetched(a, q) = q.with
      BY <1>2 DEF Fetched
    <3>2. parts = [a \in DOMAIN archetypes |-> IF Matches(a, q) THEN Rows(a, Fetched(a, q)) ELSE <<>>]
      BY <1>3, <2>3, <3>1
    <3>3. QED
      BY <3>2 DEF ForEach
  <2>11. QED
    BY <2>8, <2>9, <2>10
<1>10. ASSUME NEW k \in 1 .. l
       PROVE  \A r \in 1 .. h[k].len : CountedIndex(h[k], r) = IndexedSlices(h[k])[r].index
  <2>1. PICK a \in 1 .. N : h[k] = Chunk(a)
    BY <1>7
  <2>2. PICK n, index : /\ n = Len(archetypeEntities[a])
                        /\ index = [r \in 1 .. n |-> archetypeEntities[a][r].index]
    OBVIOUS
  <2>3. h[k].len = n /\ h[k].arch = a
    BY <1>2, <2>1, <2>2, ChunkFields
  <2>4. \A r \in 1 .. n : IndexedSlices(h[k])[r].index = index[r]
    BY <2>2, <2>3 DEF IndexedSlices
  <2>5. \A r \in 1 .. n : CountedIndex(h[k], r) = index[r]
    BY <1>2, <2>1, <2>2, ChunkIndices
  <2>6. QED
    BY <2>3, <2>4, <2>5
<1>11. ForEachIndexedChunk = ForEachIndexed
  <2>1. ASSUME NEW k \in 1 .. l
        PROVE  [r \in 1 .. h[k].len |->
                  [IndexedSlices(h[k])[r] EXCEPT !.index = CountedIndex(h[k], r)]]
               = IndexedSlices(h[k])
    <3>1. PICK n, S : n = h[k].len /\ S = IndexedSlices(h[k])
      OBVIOUS
    <3>2. S = [r \in 1 .. n |->
                 [index  |-> archetypeEntities[h[k].arch][r].index,
                  values |-> [c \in plan.query.with |-> Components(h[k].arch, c)[r]]]]
      BY <3>1 DEF IndexedSlices
    <3>3. \A r \in 1 .. n : CountedIndex(h[k], r) = S[r].index
      BY <1>10, <3>1
    <3>4. \A r \in 1 .. n : [S[r] EXCEPT !.index = CountedIndex(h[k], r)] = S[r]
      <4>1. ASSUME NEW r \in 1 .. n
            PROVE  [S[r] EXCEPT !.index = CountedIndex(h[k], r)] = S[r]
        <5>1. PICK x, y : x = archetypeEntities[h[k].arch][r].index
                       /\ y = [c \in plan.query.with |-> Components(h[k].arch, c)[r]]
          OBVIOUS
        <5>2. S[r] = [index |-> x, values |-> y]
          BY <3>2, <5>1
        <5>3. CountedIndex(h[k], r) = x
          BY <3>3, <5>2
        <5>4. QED
          BY ONLY <5>2, <5>3
      <4>2. QED
        BY <4>1
    <3>5. QED
      BY <3>1, <3>2, <3>4
  <2>2. [k \in DOMAIN plan.chunks |->
           [r \in 1 .. plan.chunks[k].len |->
              [IndexedSlices(plan.chunks[k])[r] EXCEPT !.index = CountedIndex(plan.chunks[k], r)]]]
        = [k \in DOMAIN plan.chunks |-> IndexedSlices(plan.chunks[k])]
    BY <1>1, <1>7, <2>1
  <2>3. QED
    BY <2>2 DEF ForEachIndexedChunk, ForEachIndexed
<1>12. ASSUME NEW k \in 1 .. l, h[k].base # None
       PROVE  SumAgrees(h[k])
  <2>1. PICK a \in 1 .. N : h[k] = Chunk(a)
    BY <1>7
  <2>2. PICK n, index : /\ n = Len(archetypeEntities[a])
                        /\ index = [r \in 1 .. n |-> archetypeEntities[a][r].index]
    OBVIOUS
  <2>3. h[k].len = n /\ h[k].arch = a
    BY <1>2, <2>1, <2>2, ChunkFields
  <2>4. \A r \in 1 .. n : IndexedSlices(h[k])[r].index = index[r]
    BY <2>2, <2>3 DEF IndexedSlices
  <2>5. PICK base : base = h[k].base
    OBVIOUS
  <2>6. /\ n \in Nat /\ base \in Nat /\ h[k].sum = ContiguousIndexSum(base, n)
        /\ \A r \in 1 .. n : index[r] = base + r - 1
    BY <1>2, <1>12, <2>1, <2>2, <2>5, ChunkIndices
  <2>7. \A f : Totals(f, index, n) <=>
          f = [r \in 0 .. h[k].len |-> IF r = 0 THEN 0 ELSE f[r - 1] + IndexedSlices(h[k])[r].index]
    <3>1. ASSUME NEW f
          PROVE  [r \in 0 .. n |-> IF r = 0 THEN 0 ELSE f[r - 1] + index[r]] =
                 [r \in 0 .. n |-> IF r = 0 THEN 0 ELSE f[r - 1] + IndexedSlices(h[k])[r].index]
      <4>1. \A r \in 0 .. n : r # 0 => r \in 1 .. n
        BY <2>6
      <4>2. QED
        BY <2>4, <4>1
    <3>2. QED
      BY <2>3, <3>1 DEF Totals
  <2>8. \E f : Totals(f, index, n)
    BY <2>6, CountedTotalsExist
  <2>9. PICK total : total = CHOOSE f : f = [r \in 0 .. h[k].len |->
                       IF r = 0 THEN 0 ELSE f[r - 1] + IndexedSlices(h[k])[r].index]
    OBVIOUS
  <2>10. Totals(total, index, n)
    BY <2>7, <2>8, <2>9
  <2>11. total[n] = ContiguousIndexSum(base, n)
    BY <2>6, <2>10, CountedTotals
  <2>12. QED
    BY <2>3, <2>6, <2>9, <2>11 DEF SumAgrees
<1>13. \A k \in DOMAIN plan.chunks : plan.chunks[k].base # None => SumAgrees(plan.chunks[k])
  BY <1>1, <1>7, <1>12
<1>14. ForEachChunk = ForEach(plan.query)
  BY <1>1, <1>9
<1>15. QED
  BY <1>11, <1>13, <1>14 DEF FreshPlansExact, SumAgrees

(* A borrowed plan that its asserts accept gives what a new query would,   *)
(* and its chunks' bases and sums are those of the stored indices.         *)
THEOREM FreshTheorem == QuerySpec => []FreshPlansExact
BY QueryInvariant, FreshPlans, PTL

-----------------------------------------------------------------------------
(* The cursor of the system parameter Query.                               *)

(* A nonempty set of numbers up to n has a least element, and Min gives it. *)
LEMMA LeastIndex ==
  ASSUME NEW n \in Nat, NEW S \in SUBSET (0 .. n), S # {}
  PROVE  Min(S) \in S /\ \A k \in S : Min(S) <= k
<1>1. PICK back : back = {n - k : k \in S}
  OBVIOUS
<1>2. back \in SUBSET (0 .. n) /\ back # {}
  <2>1. \A k \in S : n - k \in 0 .. n
    OBVIOUS
  <2>2. PICK k : k \in S
    OBVIOUS
  <2>3. n - k \in back
    BY <1>1, <2>2
  <2>4. QED
    BY <1>1, <2>1, <2>3
<1>3. PICK j \in back : \A k \in back : k <= j
  BY <1>2, GreatestIndex
<1>4. PICK i \in S : j = n - i
  BY <1>1
<1>5. \A k \in S : i <= k
  <2>1. ASSUME NEW k \in S PROVE i <= k
    <3>1. n - k \in back
      BY <1>1
    <3>2. n - k <= n - i
      BY <1>3, <1>4, <3>1
    <3>3. i \in 0 .. n /\ k \in 0 .. n
      OBVIOUS
    <3>4. QED
      BY ONLY n \in Nat, <3>2, <3>3
  <2>2. QED
    BY <2>1
<1>6. QED
  BY <1>5 DEF Min

(* The rows a query without exclusions is given of archetype a. *)
WalkedRows(q) == [a \in DOMAIN archetypes |-> IF Matches(a, q) THEN Rows(a, Fetched(a, q)) ELSE <<>>]

(* The search of the cursor passes archetypes by which give no rows only.  *)
LEMMA NextArchetypeSkips ==
  ASSUME StorageInv, NEW q \in Query, NEW off, Starts(off, WalkedRows(All(q)), N),
         NEW a \in 1 .. N + 1
  PROVE  /\ NextArchetype(q, a) \in 1 .. N + 1
         /\ off[NextArchetype(q, a)] = off[a]
         /\ NextArchetype(q, a) <= N =>
              /\ TupleMatches(NextArchetype(q, a), q)
              /\ archetypeEntities[NextArchetype(q, a)] # <<>>
<1>1. PICK parts : parts = WalkedRows(All(q))
  OBVIOUS
<1>2. N \in Nat /\ DOMAIN archetypes = 1 .. N
  BY SoundTables
<1>3. off \in [1 .. N + 1 -> Nat] /\ \A b \in 1 .. N : off[b + 1] = off[b] + Len(parts[b])
  BY <1>1 DEF Starts
<1>4. PICK S : S = {b \in a .. N : TupleMatches(b, q) /\ archetypeEntities[b] # <<>>} \cup {N + 1}
  OBVIOUS
<1>5. NextArchetype(q, a) = Min(S)
  BY <1>4 DEF NextArchetype, N
<1>6. Min(S) \in S /\ \A b \in S : Min(S) <= b
  <2>1. S \in SUBSET (0 .. N + 1) /\ S # {}
    BY <1>2, <1>4
  <2>2. N + 1 \in Nat
    BY <1>2
  <2>3. QED
    BY ONLY <2>1, <2>2, LeastIndex
<1>7. PICK next : next = Min(S)
  OBVIOUS
<1>8. next <= N => TupleMatches(next, q) /\ archetypeEntities[next] # <<>>
  BY <1>2, <1>4, <1>6, <1>7
<1>9. next \in a .. N + 1
  BY <1>2, <1>4, <1>6, <1>7
<1>10. ASSUME NEW b \in a .. N, b < next
       PROVE  off[b + 1] = off[b]
  <2>1. b \in 1 .. N /\ b \in 1 .. N + 1 /\ b \notin S
    <3>1. b \in 1 .. N /\ b \in 1 .. N + 1
      BY <1>2
    <3>2. b \in S => next <= b
      BY <1>6, <1>7
    <3>3. next \in Int
      BY <1>2, <1>9
    <3>4. QED
      BY ONLY <1>10, <3>1, <3>2, <3>3
  <2>2. Len(parts[b]) = 0
    <3>1. CASE q.with \subseteq archetypes[b]
      <4>1. archetypeEntities[b] = <<>>
        BY <1>4, <2>1, <3>1 DEF TupleMatches
      <4>2. parts[b] = Rows(b, Fetched(b, All(q)))
        BY <1>1, <1>2, <2>1, <3>1, ProjectedMatches DEF WalkedRows
      <4>3. DOMAIN archetypeEntities[b] = {}
        BY <4>1
      <4>4. parts[b] = <<>>
        BY <4>2, <4>3 DEF Rows
      <4>5. QED
        BY <4>4
    <3>2. CASE ~ (q.with \subseteq archetypes[b])
      <4>1. parts[b] = <<>>
        BY <1>1, <1>2, <2>1, <3>2, ProjectedMatches DEF WalkedRows
      <4>2. QED
        BY <4>1
    <3>3. QED
      BY <3>1, <3>2
  <2>3. off[b] \in Nat
    BY <1>3, <2>1
  <2>4. QED
    BY <1>3, <2>1, <2>2, <2>3
<1>11. off[next] = off[a]
  <2>1. PICK d : d = next - a
    OBVIOUS
  <2>2. d \in Nat /\ next = a + d
    BY <1>2, <1>9, <2>1
  <2> DEFINE Good == {m \in 0 .. d : off[a + m] = off[a]}
  <2>3. 0 \in Good
    BY <2>2
  <2>4. PICK m \in Good : \A k \in Good : k <= m
    <3> HIDE DEF Good
    <3>1. Good \in SUBSET (0 .. d) /\ Good # {}
      BY <2>3 DEF Good
    <3>2. QED
      BY <2>2, <3>1, GreatestIndex
  <2>5. ASSUME m < d PROVE FALSE
    <3>1. PICK b : b = a + m
      OBVIOUS
    <3>2. b \in a .. N /\ b < next /\ b + 1 = a + (m + 1) /\ m + 1 \in 0 .. d
      BY <1>2, <1>9, <2>2, <2>5, <3>1
    <3>3. off[b + 1] = off[b]
      BY <1>10, <3>2
    <3>4. off[a + (m + 1)] = off[a]
      BY <3>1, <3>2, <3>3
    <3>5. m + 1 \in Good
      BY <3>2, <3>4
    <3> HIDE DEF Good
    <3>6. m + 1 <= m
      BY <2>4, <3>5
    <3>7. m \in Nat
      BY DEF Good
    <3>8. QED
      BY ONLY <3>6, <3>7
  <2>6. m = d
    BY <2>2, <2>5
  <2>7. QED
    BY <2>2, <2>6
<1>12. next \in 1 .. N + 1
  BY <1>2, <1>9
<1>13. QED
  BY <1>2, <1>5, <1>7, <1>8, <1>9, <1>11, <1>12

(* f holds the cursor before the first call of next and after each of n.   *)
Cursors(f, q, n) == f = [k \in 0 .. n |-> IF k = 0 THEN IntoIter(q) ELSE Advance(q, f[k - 1])]

LEMMA CursorsExist ==
  ASSUME NEW q, NEW n \in Nat
  PROVE  \E f : Cursors(f, q, n)
<1> DEFINE Good == {m \in 0 .. n : \E f : Cursors(f, q, m)}
<1>1. 0 \in Good
  <2>1. PICK f : f = [k \in 0 .. 0 |-> IntoIter(q)]
    OBVIOUS
  <2>2. Cursors(f, q, 0)
    BY <2>1 DEF Cursors
  <2>3. QED
    BY <2>2
<1>2. PICK m \in Good : \A k \in Good : k <= m
  <2> HIDE DEF Good
  <2>1. Good \in SUBSET (0 .. n) /\ Good # {}
    BY <1>1 DEF Good
  <2>2. QED
    BY <2>1, GreatestIndex
<1>3. ASSUME m < n PROVE FALSE
  <2>1. m \in Nat /\ m + 1 \in 0 .. n
    BY <1>3
  <2>2. PICK f : Cursors(f, q, m)
    OBVIOUS
  <2>3. PICK last : last = Advance(q, f[m])
    OBVIOUS
  <2>4. PICK g : g = [k \in 0 .. m + 1 |-> IF k = m + 1 THEN last ELSE f[k]]
    OBVIOUS
  <2>5. \A k \in 0 .. m : f[k] = IF k = 0 THEN IntoIter(q) ELSE Advance(q, f[k - 1])
    BY <2>2 DEF Cursors
  <2>6. ASSUME NEW k \in 0 .. m + 1
        PROVE  g[k] = IF k = 0 THEN IntoIter(q) ELSE Advance(q, g[k - 1])
    <3>1. CASE k = m + 1
      <4>1. g[k] = last /\ k # 0 /\ k - 1 = m /\ m \in 0 .. m + 1 /\ m # m + 1
        BY <2>1, <2>4, <3>1
      <4>2. g[m] = f[m]
        BY <2>4, <4>1
      <4>3. QED
        BY <2>3, <4>1, <4>2
    <3>2. CASE k # m + 1
      <4>1. k \in 0 .. m /\ (k # 0 => k - 1 \in 0 .. m /\ k - 1 \in 0 .. m + 1 /\ k - 1 # m + 1)
        BY <2>1, <3>2
      <4>2. g[k] = f[k] /\ (k # 0 => g[k - 1] = f[k - 1])
        BY <2>4, <3>2, <4>1
      <4>3. QED
        BY <2>5, <4>1, <4>2
    <3>3. QED
      BY <3>1, <3>2
  <2>7. Cursors(g, q, m + 1)
    BY <2>4, <2>6 DEF Cursors
  <2>8. m + 1 \in Good
    BY <2>1, <2>7
  <2> HIDE DEF Good
  <2>9. m + 1 <= m
    BY <1>2, <2>8
  <2>10. QED
    BY ONLY <2>1, <2>9
<1>4. m = n
  BY <1>3
<1>5. QED
  BY <1>4

LEMMA IteratedAlong ==
  ASSUME NEW q, NEW n \in Nat
  PROVE  \E f : /\ Cursors(f, q, n)
                /\ Iterated(q, n) = [k \in {k \in 1 .. n : f[k].archetype <= N} |-> FetchItem(q, f[k])]
<1>1. PICK f : f = CHOOSE g : g = [k \in 0 .. n |-> IF k = 0 THEN IntoIter(q) ELSE Advance(q, g[k - 1])]
  OBVIOUS
<1>2. Cursors(f, q, n)
  <2>1. PICK g : Cursors(g, q, n)
    BY CursorsExist
  <2>2. g = [k \in 0 .. n |-> IF k = 0 THEN IntoIter(q) ELSE Advance(q, g[k - 1])]
    BY <2>1 DEF Cursors
  <2>3. f = [k \in 0 .. n |-> IF k = 0 THEN IntoIter(q) ELSE Advance(q, f[k - 1])]
    BY <1>1, <2>2, Zenon
  <2>4. QED
    BY <2>3 DEF Cursors
<1>3. Iterated(q, n) = [k \in {k \in 1 .. n : f[k].archetype <= N} |-> FetchItem(q, f[k])]
  BY <1>1 DEF Iterated, N
<1>4. QED
  BY <1>2, <1>3

(* The cursor stands at the k-th row of those that archetypes give from    *)
(* the starts off, or past all of them, at their end or beyond.            *)
CursorAt(it, q, off, k) ==
  \E a \in 1 .. N + 1, r \in Nat, n \in Nat :
    /\ it = [archetype |-> a, row |-> r, length |-> n]
    /\ a <= N => /\ TupleMatches(a, q) /\ n = Len(archetypeEntities[a]) /\ r <= n
                 /\ off[a] + r = k /\ (k >= 1 => r >= 1)
    /\ a > N => n = 0 /\ r = 0 /\ k >= off[N + 1] /\ (k >= 1 => k > off[N + 1])

LEMMA CursorEnters ==
  ASSUME StorageInv, NEW q \in Query, NEW off, Starts(off, WalkedRows(All(q)), N)
  PROVE  CursorAt(IntoIter(q), q, off, 0)
<1>1. N \in Nat /\ 1 \in 1 .. N + 1
  BY SoundTables
<1>2. off \in [1 .. N + 1 -> Nat] /\ off[1] = 0
  BY DEF Starts
<1>3. PICK b : b = NextArchetype(q, 1)
  OBVIOUS
<1>4. b \in 1 .. N + 1 /\ off[b] = 0
      /\ (b <= N => TupleMatches(b, q) /\ archetypeEntities[b] # <<>>)
  BY <1>1, <1>2, <1>3, NextArchetypeSkips
<1>5. PICK n : n = IF b > N THEN 0 ELSE Len(archetypeEntities[b])
  OBVIOUS
<1>6. IntoIter(q) = [archetype |-> b, row |-> 0, length |-> n]
  BY <1>3, <1>5 DEF IntoIter, Enter, N
<1>7. n \in Nat
  <2>1. CASE b > N
    BY <1>5, <2>1
  <2>2. CASE ~ (b > N)
    <3>1. b \in 1 .. N
      BY <1>1, <1>4, <2>2
    <3>2. QED
      BY <1>5, <2>2, <3>1, SoundTables
  <2>3. QED
    BY <2>1, <2>2
<1>8. b <= N => n = Len(archetypeEntities[b]) /\ 0 <= n /\ off[b] + 0 = 0
  BY <1>1, <1>4, <1>5, <1>7
<1>9. b > N => n = 0 /\ off[N + 1] = 0
  <2>1. b > N => b = N + 1
    BY <1>1, <1>4
  <2>2. QED
    BY <1>4, <1>5, <2>1
<1>10. QED
  <2>1. b > N => 0 >= off[N + 1]
    BY <1>9
  <2>2. 0 \in Nat /\ ~ (0 >= 1)
    OBVIOUS
  <2>3. QED
    BY <1>4, <1>6, <1>7, <1>8, <1>9, <2>1, <2>2 DEF CursorAt

LEMMA CursorAdvances ==
  ASSUME StorageInv, NEW q \in Query, NEW off, Starts(off, WalkedRows(All(q)), N),
         NEW it, NEW k \in Nat, CursorAt(it, q, off, k)
  PROVE  CursorAt(Advance(q, it), q, off, k + 1)
<1>1. N \in Nat /\ DOMAIN archetypes = 1 .. N
  BY SoundTables
<1>2. PICK parts : parts = WalkedRows(All(q))
  OBVIOUS
<1>3. off \in [1 .. N + 1 -> Nat] /\ \A b \in 1 .. N : off[b + 1] = off[b] + Len(parts[b])
  BY <1>2 DEF Starts
<1>4. PICK a \in 1 .. N + 1, r \in Nat, n \in Nat :
        /\ it = [archetype |-> a, row |-> r, length |-> n]
        /\ a <= N => /\ TupleMatches(a, q) /\ n = Len(archetypeEntities[a]) /\ r <= n
                     /\ off[a] + r = k /\ (k >= 1 => r >= 1)
        /\ a > N => n = 0 /\ r = 0 /\ k >= off[N + 1] /\ (k >= 1 => k > off[N + 1])
  BY DEF CursorAt
<1>5. CASE r < n
  <2>1. a <= N
    BY <1>1, <1>4, <1>5
  <2>2. Advance(q, it) = [archetype |-> a, row |-> r + 1, length |-> n]
    BY <1>4, <1>5 DEF Advance
  <2>3. off[a] \in Nat
    BY <1>3
  <2>4. r + 1 \in Nat /\ r + 1 <= n /\ off[a] + (r + 1) = k + 1 /\ r + 1 >= 1
    BY <1>4, <1>5, <2>1, <2>3
  <2>5. ~ (a > N)
    BY <1>1, <2>1
  <2>6. QED
    BY <1>4, <2>1, <2>2, <2>4, <2>5 DEF CursorAt
<1>6. CASE ~ (r < n)
  <2>1. CASE a <= N
    <3>1. a \in 1 .. N /\ a + 1 \in 1 .. N + 1 /\ r = n
      BY <1>1, <1>4, <1>6, <2>1
    <3>2. off[a + 1] = k
      <4>1. DOMAIN archetypeEntities[a] = 1 .. n
        BY <1>4, <2>1, <3>1, SoundTables
      <4>2. parts[a] = Rows(a, Fetched(a, All(q)))
        BY <1>1, <1>2, <1>4, <2>1, <3>1, ProjectedMatches DEF WalkedRows, TupleMatches
      <4>3. Len(parts[a]) = n
        BY <4>1, <4>2 DEF Rows
      <4>4. QED
        BY <1>3, <1>4, <2>1, <3>1, <4>3
    <3>3. PICK b : b = NextArchetype(q, a + 1)
      OBVIOUS
    <3>4. b \in 1 .. N + 1 /\ off[b] = k
          /\ (b <= N => TupleMatches(b, q) /\ archetypeEntities[b] # <<>>)
      BY <3>1, <3>2, <3>3, NextArchetypeSkips
    <3>5. PICK m : m = IF b > N THEN 0 ELSE Len(archetypeEntities[b])
      OBVIOUS
    <3>6. Enter(q, it.archetype + 1) = [archetype |-> b, row |-> 0, length |-> m]
      BY <1>4, <3>3, <3>5 DEF Enter, N
    <3>7. Advance(q, it) = IF b > N THEN [archetype |-> b, row |-> 0, length |-> m]
                           ELSE [archetype |-> b, row |-> 1, length |-> m]
      BY <1>4, <1>6, <3>6 DEF Advance, N
    <3>8. CASE b <= N
      <4>1. b \in 1 .. N /\ ~ (b > N)
        BY <1>1, <3>4, <3>8
      <4>2. archetypeEntities[b] \in Seq(Entity) /\ m = Len(archetypeEntities[b]) /\ m \in Nat
        BY <3>5, <4>1, SoundTables
      <4>3. m >= 1
        <5>1. m # 0
          BY <3>4, <3>8, <4>2, EmptySeq
        <5>2. QED
          BY <4>2, <5>1
      <4>4. Advance(q, it) = [archetype |-> b, row |-> 1, length |-> m]
        BY <3>7, <4>1
      <4>5. 1 \in Nat /\ 1 <= m /\ off[b] + 1 = k + 1 /\ 1 >= 1
        BY <3>4, <4>3
      <4>6. QED
        BY <3>4, <3>8, <4>1, <4>2, <4>4, <4>5 DEF CursorAt
    <3>9. CASE ~ (b <= N)
      <4>1. b > N /\ b = N + 1
        BY <1>1, <3>4, <3>9
      <4>2. Advance(q, it) = [archetype |-> b, row |-> 0, length |-> 0]
        BY <3>5, <3>7, <4>1
      <4>3. k + 1 >= off[N + 1] /\ k + 1 > off[N + 1]
        BY <3>4, <4>1
      <4>4. 0 \in Nat
        OBVIOUS
      <4>5. QED
        BY <3>4, <3>9, <4>2, <4>3, <4>4 DEF CursorAt
    <3>10. QED
      BY <3>8, <3>9
  <2>2. CASE ~ (a <= N)
    <3>1. a = N + 1 /\ a > N
      BY <1>1, <2>2
    <3>2. NextArchetype(q, a + 1) = N + 1
      <4>1. PICK S : S = {b \in a + 1 .. N : TupleMatches(b, q) /\ archetypeEntities[b] # <<>>}
                           \cup {N + 1}
        OBVIOUS
      <4>2. S = {N + 1}
        BY <1>1, <3>1, <4>1
      <4>3. Min({N + 1}) = N + 1
        <5>1. {N + 1} \in SUBSET (0 .. N + 1) /\ {N + 1} # {} /\ N + 1 \in Nat
          BY <1>1
        <5>2. Min({N + 1}) \in {N + 1}
          BY ONLY <5>1, LeastIndex
        <5>3. QED
          BY <5>2
      <4>4. QED
        BY <4>1, <4>2, <4>3 DEF NextArchetype, N
    <3>3. Enter(q, it.archetype + 1) = [archetype |-> N + 1, row |-> 0, length |-> 0]
      <4>1. N + 1 > N
        BY <1>1
      <4>2. QED
        BY <1>4, <3>2, <4>1 DEF Enter, N
    <3>4. Advance(q, it) = [archetype |-> N + 1, row |-> 0, length |-> 0]
      <4>1. N + 1 > N
        BY <1>1
      <4>2. QED
        BY <1>4, <1>6, <3>3, <4>1 DEF Advance, N
    <3>5. N + 1 \in 1 .. N + 1 /\ ~ (N + 1 <= N) /\ 0 \in Nat
      BY <1>1
    <3>6. off[N + 1] \in Nat
      BY <1>3, <3>5
    <3>7. k + 1 >= off[N + 1] /\ k + 1 > off[N + 1]
      BY <1>4, <3>1, <3>6
    <3>8. QED
      BY <3>4, <3>5, <3>7 DEF CursorAt
  <2>3. QED
    BY <2>1, <2>2
<1>7. QED
  BY <1>5, <1>6

(* So after k calls it stands at the k-th row.                             *)
LEMMA CursorStands ==
  ASSUME StorageInv, NEW q \in Query, NEW off, Starts(off, WalkedRows(All(q)), N),
         NEW n \in Nat, NEW f, Cursors(f, q, n)
  PROVE  \A k \in 0 .. n : CursorAt(f[k], q, off, k)
<1> DEFINE Good == {m \in 0 .. n : \A k \in 0 .. m : CursorAt(f[k], q, off, k)}
<1>1. \A k \in 0 .. n : f[k] = IF k = 0 THEN IntoIter(q) ELSE Advance(q, f[k - 1])
  BY DEF Cursors
<1>2. 0 \in Good
  <2>1. CursorAt(f[0], q, off, 0)
    BY <1>1, CursorEnters
  <2>2. \A k \in 0 .. 0 : CursorAt(f[k], q, off, k)
    BY <2>1
  <2>3. QED
    BY <2>2
<1>3. PICK m \in Good : \A k \in Good : k <= m
  <2> HIDE DEF Good
  <2>1. Good \in SUBSET (0 .. n) /\ Good # {}
    BY <1>2 DEF Good
  <2>2. QED
    BY <2>1, GreatestIndex
<1>4. ASSUME m < n PROVE FALSE
  <2>1. PICK j : j = m + 1
    OBVIOUS
  <2>2. m \in Nat /\ m \in 0 .. m /\ j \in 0 .. n /\ j # 0 /\ j - 1 = m
    BY <1>4, <2>1
  <2>3. CursorAt(f[m], q, off, m)
    BY <2>2
  <2>4. CursorAt(Advance(q, f[m]), q, off, m + 1)
    BY <2>2, <2>3, CursorAdvances
  <2>5. f[j] = Advance(q, f[m])
    BY <1>1, <2>2
  <2>6. CursorAt(f[j], q, off, j)
    BY <2>1, <2>4, <2>5
  <2>7. \A k \in 0 .. j : k \in 0 .. m \/ k = j
    BY <2>1, <2>2
  <2>8. \A k \in 0 .. j : CursorAt(f[k], q, off, k)
    BY <2>6, <2>7
  <2>9. j \in Good
    BY <2>2, <2>8
  <2> HIDE DEF Good
  <2>10. j <= m
    BY <1>3, <2>9
  <2>11. QED
    BY ONLY <2>1, <2>2, <2>10
<1>5. m = n
  BY <1>4
<1>6. QED
  BY <1>5

(* These rows are a table of sequences.                                    *)
LEMMA WalkedTable ==
  ASSUME StorageInv, NEW q \in Query
  PROVE  /\ \A a \in 1 .. N : TupleMatches(a, q) => WalkedRows(All(q))[a] = Rows(a, Fetched(a, q))
         /\ \E T : WalkedRows(All(q)) \in [1 .. N -> Seq(T)]
         /\ Len(ForEach(All(q))) \in Nat
<1>1. N \in Nat /\ DOMAIN archetypes = 1 .. N
  BY SoundTables
<1>2. PICK parts : parts = WalkedRows(All(q))
  OBVIOUS
<1>4. PICK T : T = UNION {{Item(a, r, Fetched(a, q)) : r \in Nat} : a \in 1 .. N}
  OBVIOUS
<1>5. ASSUME NEW a \in 1 .. N, TupleMatches(a, q)
      PROVE  parts[a] = Rows(a, Fetched(a, q))
  BY <1>1, <1>2, <1>5, ProjectedMatches DEF WalkedRows, TupleMatches
<1>6. ASSUME NEW a \in 1 .. N PROVE parts[a] \in Seq(T)
  <2>1. CASE TupleMatches(a, q)
    <3>1. PICK k : k = Len(archetypeEntities[a])
      OBVIOUS
    <3>2. k \in Nat /\ DOMAIN archetypeEntities[a] = 1 .. k
      BY <3>1, SoundTables
    <3>3. Rows(a, Fetched(a, q)) \in [1 .. k -> T]
      BY <1>4, <3>2 DEF Rows
    <3>4. QED
      BY <1>5, <2>1, <3>2, <3>3, TableIsSequence
  <2>2. CASE ~ TupleMatches(a, q)
    <3>1. parts[a] = <<>>
      BY <1>1, <1>2, <2>2, ProjectedMatches DEF WalkedRows, TupleMatches
    <3>2. QED
      BY <3>1
  <2>3. QED
    BY <2>1, <2>2
<1>7. parts \in [1 .. N -> Seq(T)]
  <2>1. parts = [a \in 1 .. N |-> parts[a]]
    BY <1>1, <1>2 DEF WalkedRows
  <2>2. QED
    BY <1>6, <2>1
<1>8. Len(ForEach(All(q))) \in Nat
  <2>1. FlattenSeq(parts) \in Seq(T)
    BY ONLY <1>1, <1>7, FlattenProperties
  <2>2. ForEach(All(q)) = FlattenSeq(parts)
    BY <1>2 DEF ForEach, WalkedRows
  <2>3. QED
    BY <2>1, <2>2, LenProperties
<1>9. QED
  BY <1>2, <1>5, <1>7, <1>8

(* and the calls return the rows of the callbacks in their order, then     *)
(* nothing.                                                                *)
LEMMA CursorReturns ==
  ASSUME StorageInv, NEW q \in Query, NEW n \in Nat, n >= Len(ForEach(All(q)))
  PROVE  Iterated(q, n) = ForEach(All(q))
<1>1. N \in Nat /\ DOMAIN archetypes = 1 .. N
  BY SoundTables
<1>2. PICK parts, flat, l : /\ parts = WalkedRows(All(q))
                            /\ flat = ForEach(All(q))
                            /\ l = Len(flat)
  OBVIOUS
<1>3. flat = FlattenSeq(parts)
  BY <1>2 DEF ForEach, WalkedRows
<1>4. PICK T : parts \in [1 .. N -> Seq(T)]
  BY <1>2, WalkedTable
<1>5. ASSUME NEW a \in 1 .. N, TupleMatches(a, q)
      PROVE  parts[a] = Rows(a, Fetched(a, q))
  BY <1>2, <1>5, WalkedTable
<1>8. flat \in Seq(T) /\ \E o : Starts(o, parts, N) /\ Concatenates(flat, o, parts, N)
  <2>1. /\ FlattenSeq(parts) \in Seq(T)
        /\ \E o : Starts(o, parts, N) /\ Concatenates(FlattenSeq(parts), o, parts, N)
    BY ONLY <1>1, <1>4, FlattenProperties
  <2>2. QED
    BY <1>3, <2>1
<1>9. PICK off : Starts(off, parts, N) /\ Concatenates(flat, off, parts, N)
  BY <1>8
<1>10. PICK f : /\ Cursors(f, q, n)
                /\ Iterated(q, n) = [k \in {k \in 1 .. n : f[k].archetype <= N} |-> FetchItem(q, f[k])]
  BY IteratedAlong
<1>11. \A k \in 0 .. n : CursorAt(f[k], q, off, k)
  BY <1>2, <1>9, <1>10, CursorStands
<1>12. l \in Nat /\ l <= n /\ off[N + 1] = l /\ flat = [k \in 1 .. l |-> flat[k]]
  <2>1. l \in Nat /\ flat = [k \in 1 .. l |-> flat[k]]
    BY <1>2, <1>8
  <2>2. QED
    BY <1>2, <1>9, <2>1 DEF Concatenates
<1>13. ASSUME NEW k \in 1 .. n
       PROVE  /\ f[k].archetype <= N <=> k <= l
              /\ k <= l => FetchItem(q, f[k]) = flat[k]
  <2>1. k \in 0 .. n /\ k \in Nat /\ k >= 1
    OBVIOUS
  <2>2. CursorAt(f[k], q, off, k)
    BY <1>11, <2>1
  <2>3. PICK a \in 1 .. N + 1, r \in Nat, m \in Nat :
          /\ f[k] = [archetype |-> a, row |-> r, length |-> m]
          /\ a <= N => /\ TupleMatches(a, q) /\ m = Len(archetypeEntities[a]) /\ r <= m
                       /\ off[a] + r = k /\ (k >= 1 => r >= 1)
          /\ a > N => m = 0 /\ r = 0 /\ k >= off[N + 1] /\ (k >= 1 => k > off[N + 1])
    BY <2>2 DEF CursorAt
  <2>4. CASE a <= N
    <3>1. a \in 1 .. N /\ r \in 1 .. m /\ off[a] + r = k
      BY <1>1, <2>1, <2>3, <2>4
    <3>2. parts[a] = Rows(a, Fetched(a, q)) /\ DOMAIN archetypeEntities[a] = 1 .. m
      BY <1>5, <2>3, <2>4, <3>1, SoundTables
    <3>3. Len(parts[a]) = m /\ parts[a][r] = Item(a, r, Fetched(a, q))
      BY <2>3, <3>1, <3>2 DEF Rows
    <3>4. off[a] + r \in 1 .. Len(flat) /\ flat[off[a] + r] = parts[a][r]
      BY <1>9, <3>1, <3>3 DEF Concatenates
    <3>5. k <= l /\ flat[k] = Item(a, r, Fetched(a, q))
      BY <1>2, <1>12, <3>1, <3>3, <3>4
    <3>6. FetchItem(q, f[k]) = Item(a, r, Fetched(a, q)) /\ f[k].archetype <= N
      BY <2>3, <2>4 DEF FetchItem
    <3>7. QED
      BY <3>5, <3>6
  <2>5. CASE ~ (a <= N)
    <3>1. a > N
      BY <1>1, <2>5
    <3>2. ~ (k <= l)
      BY <1>12, <2>1, <2>3, <3>1
    <3>3. ~ (f[k].archetype <= N)
      BY <2>3, <2>5
    <3>4. QED
      BY <3>2, <3>3
  <2>6. QED
    BY <2>4, <2>5
<1>14. {k \in 1 .. n : f[k].archetype <= N} = 1 .. l
  <2>1. \A k \in 1 .. l : k \in 1 .. n /\ k <= l
    BY <1>12
  <2>2. \A k \in 1 .. n : k <= l => k \in 1 .. l
    BY <1>12
  <2>3. QED
    BY <1>13, <2>1, <2>2
<1>15. \A k \in 1 .. l : FetchItem(q, f[k]) = flat[k]
  <2>1. \A k \in 1 .. l : k \in 1 .. n /\ k <= l
    BY <1>12
  <2>2. QED
    BY <1>13, <2>1
<1>16. QED
  BY <1>2, <1>10, <1>12, <1>14, <1>15

LEMMA QueriesAnswer ==
  ASSUME StorageInv
  PROVE  QueriesExact
<1>1. ASSUME NEW q \in Queries
      PROVE  /\ Answers(ForEach(q), q, Asked(q))
             /\ Answers(IteratorQuery(q), Plain(q), Asked(q))
             /\ Answers(OptionalQuery(q), All(q), Asked(All(q)))
             /\ Answers(ViewForEach(q), Required(q), Asked(Required(q)))
             /\ Answers(QueryTuple(q), Required(q), Asked(Required(q)))
             /\ Iterated(q, Cardinality(Asked(All(q))) + 2) = ForEach(All(q))
  <2>1. q \in Query
    BY QueriesAssumption
  <2>2. PICK l, n : l = Len(ForEach(All(q))) /\ n = Cardinality(Asked(All(q))) + 2
    OBVIOUS
  <2>3. Answers(ForEach(All(q)), All(q), Asked(All(q)))
    BY ForEachAnswers
  <2>4. l \in Nat /\ n = l + 2
    <3>1. l = Cardinality(Asked(All(q)))
      BY <2>2, <2>3 DEF Answers
    <3>2. l \in Nat
      BY <2>1, <2>2, WalkedTable
    <3>3. QED
      BY <2>2, <3>1, <3>2
  <2>5. n \in Nat /\ n >= Len(ForEach(All(q)))
    BY <2>2, <2>4
  <2>6. Iterated(q, n) = ForEach(All(q))
    BY <2>1, <2>5, CursorReturns
  <2>7. QED
    BY <2>1, <2>2, <2>6, WalksAnswer
<1>2. QED
  BY <1>1 DEF QueriesExact, Plain, All, Required

(* Every way of asking finds exactly the live entities that have what the  *)
(* query requires and nothing it excludes, each once and with its own      *)
(* values; the cursor gives them in the order of the callbacks.            *)
THEOREM QueriesTheorem == QuerySpec => []QueriesExact
<1>1. QueryInv => QueriesExact
  BY QueriesAnswer DEF QueryInv
<1>2. QED
  BY <1>1, QueryInvariant, PTL
=============================================================================
