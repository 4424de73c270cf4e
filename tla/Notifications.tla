----------------------------- MODULE Notifications -----------------------------
(***************************************************************************)
(* What a call on the storage tells the outside (src/world.rs, fire_on_add *)
(* to fire_on_set, on_add to set_component and the version bumps in        *)
(* spawn_with, add_component and remove_component): which observers it     *)
(* calls, with which entity and value, and which column versions it bumps. *)
(*                                                                         *)
(* Every type has one observer of each kind: observers are only ever       *)
(* added, and a call to several of one type makes the same call to each.   *)
(* A type of size zero has one value, Unit.  Toggling a component tells    *)
(* nobody anything and is left to Snapshot.                                *)
(***************************************************************************)
EXTENDS EntityExtras

CONSTANTS
  ZeroSized,   \* component types of size zero
  Unit         \* their value

ASSUME NotificationsAssumption == ZeroSized \subseteq Component /\ Unit \in Value

VARIABLES
  notified,   \* the observer calls of the last step, in order
  bumped      \* the types whose column version the last step bumped

notifyVars == <<extraVars, notified, bumped>>

(* (A sparse component is the handle of its writer, see EntityExtras.)     *)
ValuesOf(c) == IF c \in Component \ ZeroSized THEN Value \ {Unit} ELSE {Unit}

Call(kind, e, c, value) == [kind |-> kind, entity |-> e, type |-> c, value |-> value]

(* Mutant: the reference is to the last row. *)
InLastRow(e, c) ==
  LET column == columns'[LocationOf(e)'.arch][c] IN column[Len(column)]

(* Observers of an addition or a write get a reference into the column, at *)
(* the location that the step gave the entity.                             *)
InPlace(e, c) == columns'[LocationOf(e)'.arch][c][LocationOf(e)'.row]

FireOnAdd(e, c) == Call("add", e, c, InPlace(e, c))
FireOnSet(e, c) == Call("set", e, c, InPlace(e, c))

Tell(calls, types) == notified' = calls /\ bumped' = types

TellNobody == Tell(<<>>, {})

ExtrasKept == UNCHANGED <<sparseVars, disabledComponents>>

-----------------------------------------------------------------------------
SpawnEmptyTold == SpawnEmpty /\ ExtrasKept /\ TellNobody

(* fire_on_add_by_type_id, after all components are in place: it finds the *)
(* component by the stride of its column and skips columns without one.    *)
(* (The spawned index is the one whose location changes.)                  *)
SpawnWithTold(b, value) ==
  /\ SpawnWith(b, value)
  /\ ExtrasKept
  /\ \E i \in Index :
       /\ entityLocations'[i] # entityLocations[i]
       /\ Tell(FlattenSeq([k \in DOMAIN b |-> IF b[k] \in ZeroSized THEN <<>>
                                              ELSE <<FireOnAdd(HandleAt(i), b[k])>>]),
               Types(b))

(* No on_remove for the components that go with the entity, no version.    *)
DespawnTold(e) == DespawnEntity(e) /\ TellNobody

(* Mutant: an overwrite is announced as an addition. *)
AddTwiceTold(e, c, v) ==
  /\ AddComponent(e, c, v)
  /\ ExtrasKept
  /\ Tell(<<FireOnAdd(e, c)>>, {c})

(* add_component on a stored type tells of new components only.            *)
AddStoredTold(e, c, v) ==
  /\ AddComponent(e, c, v)
  /\ ExtrasKept
  /\ IF c \in archetypes[LocationOf(e).arch]
     THEN TellNobody
     ELSE Tell(<<FireOnAdd(e, c)>>, {c})

(* The branch for sparse types comes first and tells nobody.               *)
AddComponentTold(e, c, v) ==
  IF c \in SparseComponent THEN AddSparse(e, c) /\ TellNobody ELSE AddStoredTold(e, c, v)

RemoveStoredTold(e, c) ==
  /\ RemoveStored(e, c)
  /\ Tell(<<Call("remove", e, c, RowValues(LocationOf(e))[c])>>, {c})

(* So does its branch for sparse types.                                    *)
RemoveComponentTold(e, c) ==
  IF c \in SparseComponent THEN RemoveSparse(e, c) /\ TellNobody ELSE RemoveStoredTold(e, c)

(* A sparse type is in no archetype: set_component always adds it, whether *)
(* the entity has the component or not.                                    *)
SetComponentTold(e, c, v) ==
  /\ IsAlive(e)
  /\ IF c \in archetypes[LocationOf(e).arch]
     THEN Overwrite(LocationOf(e), c, v) /\ ExtrasKept /\ Tell(<<FireOnSet(e, c)>>, {c})
     ELSE AddComponentTold(e, c, v)

RegisterTold(c) == RegisterComponentType(c) /\ ExtrasKept /\ TellNobody

NotifyInit ==
  /\ ExtraInit
  /\ notified = <<>>
  /\ bumped = {}

NotifyNext ==
  \/ SpawnEmptyTold
  \/ \E b \in Bundle : \E value \in [Types(b) -> Value] :
       (\A c \in Types(b) : value[c] \in ValuesOf(c)) /\ SpawnWithTold(b, value)
  \/ \E e \in Handle : DespawnTold(e)
  \/ \E e \in Handle, c \in ComponentType : \E v \in ValuesOf(c) :
       AddComponentTold(e, c, v) \/ SetComponentTold(e, c, v)
  \/ \E e \in Handle, c \in ComponentType : RemoveComponentTold(e, c)
  \/ \E c \in Component : RegisterTold(c)

NotifySpec == NotifyInit /\ [][NotifyNext]_notifyVars

-----------------------------------------------------------------------------
(* Properties.                                                             *)

(* Who has which component in an archetype. *)
Holdings ==
  {h \in Handle \X Component : IsAlive(h[1]) /\ h[2] \in archetypes[LocationOf(h[1]).arch]}

ValueOf(e, c) == ComponentsOf(e)[c]

(* The calls for components in archetypes. *)
StoredCalls == {call \in ToSet(notified) : call.type \in Component}

Told(kind) == {<<call.entity, call.type>> : call \in {x \in StoredCalls : x.kind = kind}}

(* For components in archetypes, the observer calls of a step are the      *)
(* difference it makes: on_add for what an entity did not have, on_remove  *)
(* for what it lost, on_set only for a holder, with the value that is its  *)
(* own after the step or, on removal, before; each call once; and a type   *)
(* has its version bumped for the same reasons.  Left open are two cases   *)
(* in which the code is silent and a doc or the other calls are not: the   *)
(* components that go with a despawned entity (see RemovalsTold) and those *)
(* of size zero that come with a bundle.  Of sparse types nothing is said: *)
(* the code tells nobody of them.                                          *)
EventsExact ==
  [][LET before   == Holdings
         after    == Holdings'
         added    == Told("add")'
         removed  == Told("remove")'
         set      == Told("set")'
         appeared == after \ before
         gone     == before \ after
         taken    == {h \in gone : IsAlive(h[1])'}
         bundled  == {h \in appeared : ~IsAlive(h[1]) /\ h[2] \in ZeroSized}
         TypesIn(holdings) == {h[2] : h \in holdings}
     IN  /\ appeared \ bundled \subseteq added /\ added \subseteq appeared
         /\ taken \subseteq removed /\ removed \subseteq gone
         /\ set \subseteq before \cap after
         /\ \A call \in StoredCalls' :
              call.value = IF call.kind = "remove" THEN ValueOf(call.entity, call.type)
                           ELSE ValueOf(call.entity, call.type)'
         /\ Cardinality(ToSet(notified')) = Len(notified')
         /\ TypesIn(appeared \cup taken \cup set) \subseteq bumped'
         /\ bumped' \cap Component \subseteq TypesIn(appeared \cup gone \cup set)]_notifyVars

(* What the doc of on_remove says: it fires during remove_component and    *)
(* despawn.  despawn drops the components and calls no observer.           *)
RemovalsTold == [][Holdings \ Holdings' \subseteq Told("remove")']_notifyVars
=============================================================================
