--------------------------- MODULE MCComponentLookup ---------------------------
(* A small instance of ComponentLookup for TLC. *)
EXTENDS ComponentLookup, TLC

CONSTANTS A, B, v1, v2

TwoTypes  == {A, B}
TwoValues == {v1, v2}
Bundles   == {<<A>>, <<B>>}

(* Values and types are only stored, moved and compared. *)
Symmetry == Permutations(Value) \cup Permutations(Component)

Slots == {generationCache[o] : o \in Owner} \cup {zeroCache[o] : o \in Owner}

(* Three indices, when one type is used in them and in the slots; not all  *)
(* of them are reused.                                                     *)
OneType ==
  /\ \E i \in Index : entityGenerations[i] = 0
  /\ \E c \in Component :
       /\ \A a \in DOMAIN archetypes : archetypes[a] \subseteq {c}
       /\ columnFactories \subseteq {c}
       /\ \A slot \in Slots : slot = Stale \/ slot.type = c

(* Two indices, when both types are used, with one value and no bundle,    *)
(* after a despawn with one archetype besides the empty one, and the slots *)
(* of one owner: no call uses those of both.                               *)
TwoIndices ==
  /\ \E o \in Owner : generationCache[o] = Stale /\ zeroCache[o] = Stale
  /\ nextEntityIndex <= 2
  /\ allGenerationsZero \/ Len(archetypes) <= 2
  /\ \A b \in Bundle : bundleArchetypes[b] = 0
  /\ \E v \in Value : \A a \in DOMAIN columns : \A c \in DOMAIN columns[a] :
       \A r \in DOMAIN columns[a][c] : columns[a][c][r] = v

Small == OneType \/ TwoIndices
=============================================================================
