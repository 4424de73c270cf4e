---------------------------- MODULE ComponentLookup ----------------------------
(***************************************************************************)
(* The pointer caches in front of WorldStorage: get_component,             *)
(* get_component_mut and the overwriting add_component (src/world.rs).     *)
(*                                                                         *)
(* A cache slot holds, for one component type, a raw pointer per entity    *)
(* index, collected by a scan over all rows.  It is used without touching  *)
(* the storage for as long as the world's structural version is the one it *)
(* was built at.  The version only grows, so a slot that is stale once     *)
(* stays stale: the model keeps no version and marks every slot Stale      *)
(* where the code bumps it (the wrap of the u64 counter is left out).      *)
(*                                                                         *)
(* get_component reads through a thread-local slot, the two mutating calls *)
(* through a slot of the world; each owner has a slot with generations and *)
(* one for worlds whose indices are all in generation 0.  A pointer into a *)
(* column is the archetype and row it points at.                           *)
(***************************************************************************)
EXTENDS WorldStorage

VARIABLES
  generationCache,   \* owner -> slot that checks generations, or Stale
  zeroCache          \* owner -> slot for generation 0 only, or Stale

lookupVars == <<vars, generationCache, zeroCache>>

Owner == {"thread", "world"}
Stale == [fresh |-> FALSE]
AllStale == [o \in Owner |-> Stale]

-----------------------------------------------------------------------------
(* Building a slot.                                                        *)

(* Where the storage holds entity index i's component of type c.           *)
Holders(i, c) ==
  {at \in {[arch |-> a, row |-> r] : a \in DOMAIN archetypes, r \in 1 .. MaxEntities} :
     /\ c \in DOMAIN columns[at.arch]
     /\ at.row \in DOMAIN archetypeEntities[at.arch]
     /\ archetypeEntities[at.arch][at.row].index = i}

Pointers(c) ==
  [i \in 0 .. nextEntityIndex - 1 |->
     IF Holders(i, c) = {} THEN NoLocation ELSE CHOOSE at \in Holders(i, c) : TRUE]

(* Archetypes whose rows hold the entity indices 0, 1, 2, ... in order.    *)
IdentityPrefixes(c) ==
  {a \in DOMAIN archetypes :
     /\ c \in DOMAIN columns[a]
     /\ columns[a][c] # <<>>
     /\ \A r \in DOMAIN archetypeEntities[a] : archetypeEntities[a][r].index = r - 1}

GenerationSlot(c) ==
  [fresh       |-> TRUE,
   type        |-> c,
   pointers    |-> Pointers(c),
   generations |-> [i \in 0 .. nextEntityIndex - 1 |->
                      IF allGenerationsZero THEN 0 ELSE entityGenerations[i]]]

(* Mutant: any prefix is taken to reach the tail. *)
TailReached(prefixLen) == prefixLen # 0

CoversTail(prefixLen) == prefixLen # 0 /\ prefixLen = componentlessTailStart

(* Two identity prefixes would be ambiguous and count as none.             *)
ZeroSlot(c) ==
  LET prefix    == IF Cardinality(IdentityPrefixes(c)) = 1
                   THEN CHOOSE a \in IdentityPrefixes(c) : TRUE ELSE 0
      prefixLen == IF prefix = 0 THEN 0 ELSE Len(columns[prefix][c])
  IN  [fresh      |-> TRUE,
       type       |-> c,
       pointers   |-> Pointers(c),
       prefix     |-> prefix,
       prefixLen  |-> prefixLen,
       coversTail |-> CoversTail(prefixLen)]

-----------------------------------------------------------------------------
(* Reading through a slot.                                                 *)

Fresh(slot, c) == slot # Stale /\ slot.type = c

Refreshed(slot, c, built) == IF Fresh(slot, c) THEN slot ELSE built

(* Mutant: the generations collected with the pointers are not compared. *)
AnyGenerationAnswer(slot, e) ==
  IF e.index \in DOMAIN slot.pointers THEN slot.pointers[e.index] ELSE NoLocation

GenerationAnswer(slot, e) ==
  IF e.index \in DOMAIN slot.pointers /\ slot.generations[e.index] = e.generation
  THEN slot.pointers[e.index] ELSE NoLocation

ZeroAnswer(slot, e) ==
  IF slot.coversTail \/ e.index < slot.prefixLen
  THEN [arch |-> slot.prefix, row |-> e.index + 1]
  ELSE IF e.index \in DOMAIN slot.pointers THEN slot.pointers[e.index] ELSE NoLocation

(* The early returns of get_component and get_component_mut.               *)
Refused(e) ==
  \/ e.index >= componentlessTailStart
  \/ allGenerationsZero /\ e.generation # 0

(* What the lookup of owner o returns for e's component of type c.         *)
Answer(o, e, c) ==
  IF Refused(e) THEN NoLocation
  ELSE IF allGenerationsZero
       THEN ZeroAnswer(Refreshed(zeroCache[o], c, ZeroSlot(c)), e)
       ELSE GenerationAnswer(Refreshed(generationCache[o], c, GenerationSlot(c)), e)

(* What it leaves in the slots.                                            *)
Lookup(o, e, c) ==
  \/ /\ Refused(e)
     /\ UNCHANGED <<generationCache, zeroCache>>
  \/ /\ ~Refused(e)
     /\ allGenerationsZero
     /\ zeroCache' = [zeroCache EXCEPT ![o] = Refreshed(@, c, ZeroSlot(c))]
     /\ UNCHANGED generationCache
  \/ /\ ~Refused(e)
     /\ ~allGenerationsZero
     /\ generationCache' = [generationCache EXCEPT ![o] = Refreshed(@, c, GenerationSlot(c))]
     /\ UNCHANGED zeroCache

GetComponent(e, c) == Lookup("thread", e, c) /\ UNCHANGED vars

Write(at, c, v) ==
  /\ columns' = [columns EXCEPT ![at.arch][c][at.row] = v]
  /\ UNCHANGED <<allocator, entityLocations, tail, archetypes, archetypeEntities,
                 columnFactories, caches>>

(* The caller writes v through the reference it gets.                      *)
GetComponentMut(e, c, v) ==
  /\ Lookup("world", e, c)
  /\ LET at == Answer("world", e, c)
     IN  \/ at # NoLocation /\ Write(at, c, v)
         \/ at = NoLocation /\ UNCHANGED vars

(* add_component on a type the entity has: through the slot of the world   *)
(* when that is fresh, through the entity's location otherwise.            *)
AddExisting(e, c, v) ==
  LET at    == LocationOf(e)
      slot  == IF allGenerationsZero THEN zeroCache["world"] ELSE generationCache["world"]
      quick == e.index < componentlessTailStart /\ Fresh(slot, c)
      found == IF quick THEN Answer("world", e, c) ELSE NoLocation
  IN  /\ at # NoLocation
      /\ c \in archetypes[at.arch]
      /\ Write(IF found # NoLocation THEN found ELSE at, c, v)
      /\ UNCHANGED <<generationCache, zeroCache>>

-----------------------------------------------------------------------------
(* Structural operations: the storage step and its bump.                   *)

(* Mutant: the operation forgets to bump. *)
NoBump == UNCHANGED <<generationCache, zeroCache>>

Bump == generationCache' = AllStale /\ zeroCache' = AllStale

AddMissing(e, c, v) ==
  /\ IsAlive(e)
  /\ c \notin archetypes[LocationOf(e).arch]
  /\ AddComponent(e, c, v)

Structural ==
  \/ SpawnEmpty
  \/ \E b \in Bundle : \E value \in [Types(b) -> Value] : SpawnWith(b, value)
  \/ \E e \in Handle : Despawn(e)
  \/ \E e \in Handle, c \in Component, v \in Value : AddMissing(e, c, v)
  \/ \E e \in Handle, c \in Component : RemoveComponent(e, c)

LookupInit ==
  /\ Init
  /\ generationCache = AllStale
  /\ zeroCache = AllStale

LookupNext ==
  \/ Structural /\ Bump
  \/ \E c \in Component :
       RegisterComponentType(c) /\ UNCHANGED <<generationCache, zeroCache>>
  \/ \E e \in Handle, c \in Component : GetComponent(e, c)
  \/ \E e \in Handle, c \in Component, v \in Value : GetComponentMut(e, c, v)
  \/ \E e \in Handle, c \in Component, v \in Value : AddExisting(e, c, v)

LookupSpec == LookupInit /\ [][LookupNext]_lookupVars

-----------------------------------------------------------------------------
(* Properties.                                                             *)

(* Whatever is cached, a lookup returns exactly the place the storage has  *)
(* for the component, and nothing for a handle that is dead, reused or     *)
(* without it: no raw pointer survives the row it was taken from, and the  *)
(* prefix shortcut never runs past its column.                             *)
LookupsExact ==
  \A o \in Owner, e \in Handle, c \in Component :
    LET at == LocationOf(e)
    IN  Answer(o, e, c) = IF at # NoLocation /\ c \in archetypes[at.arch] THEN at ELSE NoLocation

(* A write through a cached pointer, of add_component or of a reference    *)
(* that get_component_mut returned, changes the component of the entity    *)
(* and type the caller named and nothing else; a handle without the        *)
(* component changes nothing.  (These calls move no row; a step that does  *)
(* is told apart first, at less cost.)                                     *)
WritesReachTheirEntity ==
  [][\A e \in Handle, c \in Component, v \in Value :
       LET at     == LocationOf(e)
           itself == IF at # NoLocation /\ c \in archetypes[at.arch]
                     THEN [columns EXCEPT ![at.arch][c][at.row] = v]
                     ELSE columns
       IN  UNCHANGED archetypeEntities /\ columns' # itself =>
             ~AddExisting(e, c, v) /\ ~GetComponentMut(e, c, v)]_lookupVars
=============================================================================
