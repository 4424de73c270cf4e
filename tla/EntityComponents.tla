---------------------------- MODULE EntityComponents ----------------------------
(***************************************************************************)
(* What the entity/component API of `World' promises, without archetypes,  *)
(* rows, columns, free lists or caches: every live handle owns a partial   *)
(* map from component types to values, each call touches the map of its    *)
(* own handle only, and a handle that was ever returned by a spawn is      *)
(* never returned again.                                                   *)
(***************************************************************************)
CONSTANTS
  Handle,      \* entity handles: index and generation
  Component,   \* component types
  Value        \* component values

VARIABLES
  issued,      \* handles some spawn has returned
  components   \* live handle -> (component type -> value)

vars == <<issued, components>>

Assignment == UNION {[types -> Value] : types \in SUBSET Component}

With(f, x, v) == [y \in DOMAIN f \cup {x} |-> IF y = x THEN v ELSE f[y]]

Without(f, x) == [y \in DOMAIN f \ {x} |-> f[y]]

Init ==
  /\ issued = {}
  /\ components = [e \in {} |-> {}]

Spawn(e) ==
  /\ e \notin issued
  /\ issued' = issued \cup {e}
  /\ \E assignment \in Assignment : components' = With(components, e, assignment)

Despawn(e) ==
  /\ e \in DOMAIN components
  /\ UNCHANGED issued
  /\ components' = Without(components, e)

Put(e, c) ==
  /\ e \in DOMAIN components
  /\ UNCHANGED issued
  /\ \E v \in Value : components' = [components EXCEPT ![e] = With(@, c, v)]

Take(e, c) ==
  /\ e \in DOMAIN components
  /\ c \in DOMAIN components[e]
  /\ UNCHANGED issued
  /\ components' = [components EXCEPT ![e] = Without(@, c)]

Next ==
  \/ \E e \in Handle : Spawn(e)
  \/ \E e \in Handle : Despawn(e)
  \/ \E e \in Handle, c \in Component : Put(e, c) \/ Take(e, c)

Spec == Init /\ [][Next]_vars

(* The calls keep to issued handles and to the component types.            *)
TypeOK ==
  /\ issued \subseteq Handle
  /\ DOMAIN components \subseteq issued
  /\ \A e \in DOMAIN components : components[e] \in Assignment
=============================================================================
