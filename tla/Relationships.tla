----------------------------- MODULE Relationships -----------------------------
(***************************************************************************)
(* Typed edges between entities and the hierarchy operations on them       *)
(* (src/relation.rs and the relation part of src/world.rs).                *)
(*                                                                         *)
(* Every relation type keeps its edges three times: as a set of pairs, as  *)
(* targets by source and as sources by target.  Of the entity allocator    *)
(* only what relations see is kept: which indices are alive and at which   *)
(* generation; a spawn may take any index that is not alive.               *)
(*                                                                         *)
(* despawn_recursive is one call of several steps: while it runs it has    *)
(* the world for itself (&mut self), so nothing else moves.                *)
(***************************************************************************)
EXTENDS Naturals, Sequences, FiniteSets

CONSTANTS
  Index,           \* entity indices
  MaxGeneration,   \* bound: last generation each index is spawned at
  MaxEdges,        \* bound: edges alive at once
  Relation         \* relation types

ASSUME IndexAssumption == IsFiniteSet(Index)   \* an index is a u32
ASSUME MaxGenerationAssumption == MaxGeneration \in [Index -> Nat]
ASSUME MaxEdgesAssumption == MaxEdges \in Nat

VARIABLES
  alive,        \* indices with a live entity
  generation,   \* index -> generation of its current or next handle
  edges,        \* relation -> pairs, forward, reverse
  walk          \* the running despawn_recursive, or Idle

vars == <<alive, generation, edges, walk>>

Handle == UNION {[index : {i}, generation : 0 .. MaxGeneration[i]] : i \in Index}

Idle    == [phase |-> "idle"]
NoEdges == [pairs |-> {}, forward |-> [e \in {} |-> <<>>], reverse |-> [e \in {} |-> <<>>]]

IsAlive(e) == e.index \in alive /\ generation[e.index] = e.generation

-----------------------------------------------------------------------------
(* Adjacency lists: a map from entities to nonempty lists of entities.     *)

Elements(s) == {s[k] : k \in DOMAIN s}

Listed(map, e) == IF e \in DOMAIN map THEN map[e] ELSE <<>>

(* Vec::swap_remove of the first occurrence of x. *)
Dropped(s, x) ==
  IF x \notin Elements(s) THEN s
  ELSE LET pos == CHOOSE k \in DOMAIN s : s[k] = x /\ \A j \in DOMAIN s : s[j] = x => k <= j
       IN  [k \in 1 .. Len(s) - 1 |-> IF k = pos THEN s[Len(s)] ELSE s[k]]

Linked(map, from, to) ==
  [e \in (DOMAIN map) \cup {from} |-> IF e = from THEN Append(Listed(map, from), to) ELSE map[e]]

(* Mutant: lists that became empty stay in the map. *)
UnlinkedKeeping(map, keys, x) ==
  [k \in DOMAIN map |-> IF k \in keys THEN Dropped(map[k], x) ELSE map[k]]

(* x leaves the lists of `keys'; lists that become empty leave the map.    *)
Unlinked(map, keys, x) ==
  LET rest == [k \in DOMAIN map |-> IF k \in keys THEN Dropped(map[k], x) ELSE map[k]]
  IN  [k \in {j \in DOMAIN map : rest[j] # <<>>} |-> rest[k]]

Added(rel, source, target) ==
  [pairs   |-> rel.pairs \cup {<<source, target>>},
   forward |-> Linked(rel.forward, source, target),
   reverse |-> Linked(rel.reverse, target, source)]

Removed(rel, source, target) ==
  [pairs   |-> rel.pairs \ {<<source, target>>},
   forward |-> Unlinked(rel.forward, {source}, target),
   reverse |-> Unlinked(rel.reverse, {target}, source)]

WithoutKey(map, e) == [k \in DOMAIN map \ {e} |-> map[k]]

(* Mutant: only the edges that leave e are removed. *)
SourceRemoved(rel, e) ==
  LET targets == Elements(Listed(rel.forward, e))
  IN  [pairs   |-> rel.pairs \ ({e} \X targets),
       forward |-> WithoutKey(rel.forward, e),
       reverse |-> Unlinked(rel.reverse, targets, e)]

(* remove_entity: first the edges that leave e, then the ones that enter.  *)
EntityRemoved(rel, e) ==
  LET targets  == Elements(Listed(rel.forward, e))
      forward1 == WithoutKey(rel.forward, e)
      reverse1 == Unlinked(rel.reverse, targets, e)
      sources  == Elements(Listed(reverse1, e))
  IN  [pairs   |-> rel.pairs \ (({e} \X targets) \cup (sources \X {e})),
       forward |-> Unlinked(forward1, sources, e),
       reverse |-> WithoutKey(reverse1, e)]

-----------------------------------------------------------------------------
(* Calls on the world.                                                     *)

Spawn(i) ==
  /\ walk = Idle
  /\ i \notin alive
  /\ generation[i] <= MaxGeneration[i]
  /\ alive' = alive \cup {i}
  /\ UNCHANGED <<generation, edges, walk>>

(* Mutant: only the first relation type is cleaned up. *)
DespawnedOneRelation(e) ==
  /\ IsAlive(e)
  /\ alive' = alive \ {e.index}
  /\ generation' = [generation EXCEPT ![e.index] = @ + 1]
  /\ edges' = [edges EXCEPT ![CHOOSE r \in Relation : TRUE] = EntityRemoved(@, e)]

Despawned(e) ==
  /\ IsAlive(e)
  /\ alive' = alive \ {e.index}
  /\ generation' = [generation EXCEPT ![e.index] = @ + 1]
  /\ edges' = [r \in Relation |-> EntityRemoved(edges[r], e)]

Despawn(e) ==
  /\ walk = Idle
  /\ Despawned(e)
  /\ UNCHANGED walk

AddRelation(r, source, target) ==
  /\ walk = Idle
  /\ IsAlive(source) /\ IsAlive(target)
  /\ <<source, target>> \notin edges[r].pairs
  /\ Cardinality(UNION {{r2} \X edges[r2].pairs : r2 \in Relation}) < MaxEdges
  /\ edges' = [edges EXCEPT ![r] = Added(@, source, target)]
  /\ UNCHANGED <<alive, generation, walk>>

(* Stale handles are not refused, but are in no pair.                      *)
RemoveRelation(r, source, target) ==
  /\ walk = Idle
  /\ <<source, target>> \in edges[r].pairs
  /\ edges' = [edges EXCEPT ![r] = Removed(@, source, target)]
  /\ UNCHANGED <<alive, generation, walk>>

-----------------------------------------------------------------------------
(* despawn_recursive: collect depth first, then despawn in that order.     *)

Children(r, e) == Listed(edges[r].reverse, e)

BeginDespawnRecursive(r, root) ==
  /\ walk = Idle
  /\ walk' = [phase |-> "collect", relation |-> r, root |-> root, stack |-> <<root>>,
              visited |-> {}, toDespawn |-> <<>>]
  /\ UNCHANGED <<alive, generation, edges>>

Top(s) == s[Len(s)]
Pop(s) == SubSeq(s, 1, Len(s) - 1)

(* Mutant: an entity met again is never popped. *)
SkipPeeked == UNCHANGED walk

SkipVisited == walk' = [walk EXCEPT !.stack = Pop(@)]

(* Mutant: children of the entity's own targets instead of its sources. *)
VisitUpwards(e) ==
  walk' = [walk EXCEPT !.visited = @ \cup {e.index},
                       !.toDespawn = Append(@, e),
                       !.stack = Pop(@) \o Listed(edges[walk.relation].forward, e)]

(* Mutant: nothing is marked as visited. *)
VisitUnmarked(e) ==
  walk' = [walk EXCEPT !.toDespawn = Append(@, e),
                       !.stack = Pop(@) \o Children(walk.relation, e)]

VisitNew(e) ==
  walk' = [walk EXCEPT !.visited = @ \cup {e.index},
                       !.toDespawn = Append(@, e),
                       !.stack = Pop(@) \o Children(walk.relation, e)]

Collect ==
  /\ walk.phase = "collect"
  /\ walk.stack # <<>>
  /\ LET e == Top(walk.stack)
     IN  \/ e.index \in walk.visited /\ SkipVisited
         \/ e.index \notin walk.visited /\ VisitNew(e)
  /\ UNCHANGED <<alive, generation, edges>>

BeginDespawning ==
  /\ walk.phase = "collect"
  /\ walk.stack = <<>>
  /\ walk' = [phase |-> "despawn", relation |-> walk.relation, root |-> walk.root,
              toDespawn |-> walk.toDespawn, next |-> 1, count |-> 0]
  /\ UNCHANGED <<alive, generation, edges>>

(* despawn answers FALSE for a handle that is not alive.                   *)
DespawnNext ==
  /\ walk.phase = "despawn"
  /\ walk.next <= Len(walk.toDespawn)
  /\ LET e == walk.toDespawn[walk.next]
     IN  \/ /\ Despawned(e)
            /\ walk' = [walk EXCEPT !.next = @ + 1, !.count = @ + 1]
         \/ /\ ~IsAlive(e)
            /\ walk' = [walk EXCEPT !.next = @ + 1]
            /\ UNCHANGED <<alive, generation, edges>>

EndDespawnRecursive ==
  /\ walk.phase = "despawn"
  /\ walk.next > Len(walk.toDespawn)
  /\ walk' = Idle
  /\ UNCHANGED <<alive, generation, edges>>

WalkStep == Collect \/ BeginDespawning \/ DespawnNext \/ EndDespawnRecursive

-----------------------------------------------------------------------------
(* Upward walks: along the first target of each entity, by the code's loop.*)

Parent(r, e) == Listed(edges[r].forward, e)[1]

(* Mutant: the walk does not mark the entity it starts from. *)
MarksAllButFirst(path) == {path[k].index : k \in 2 .. Len(path)}

Marked(path) == {path[k].index : k \in DOMAIN path}

(* The entity itself, followed by its ancestors; the loop ends at a root   *)
(* or at a marked index, so after at most one turn per index.              *)
UpwardPath(r, e) ==
  LET path[turn \in 0 .. Cardinality(Index) + 1] ==
        IF turn = 0 THEN <<e>>
        ELSE LET before == path[turn - 1]
                 last   == Top(before)
             IN  IF \/ Listed(edges[r].forward, last) = <<>>
                    \/ Parent(r, last).index \in Marked(before)
                 THEN before ELSE Append(before, Parent(r, last))
  IN  path[Cardinality(Index) + 1]

Ancestors(r, e) == Tail(UpwardPath(r, e))

Depth(r, e) == Len(Ancestors(r, e))

-----------------------------------------------------------------------------
Init ==
  /\ alive = {}
  /\ generation = [i \in Index |-> 0]
  /\ edges = [r \in Relation |-> NoEdges]
  /\ walk = Idle

Next ==
  \/ \E i \in Index : Spawn(i)
  \/ \E e \in Handle : Despawn(e)
  \/ \E r \in Relation, source \in Handle, target \in Handle :
       AddRelation(r, source, target) \/ RemoveRelation(r, source, target)
  \/ \E r \in Relation, root \in Handle : BeginDespawnRecursive(r, root)
  \/ WalkStep

(* A call that was entered runs to its end.                                *)
Spec == Init /\ [][Next]_vars /\ WF_vars(WalkStep)

-----------------------------------------------------------------------------
(* Properties.                                                             *)

(* The three representations of a relation hold the same edges: each edge  *)
(* is listed exactly once on either side, and no list is empty, so that    *)
(* `has', `targets', `sources' and `has_any_source' cannot disagree.       *)
IndicesAgree ==
  \A r \in Relation :
    LET rel == edges[r]
        OnceEach(map) == \A e \in DOMAIN map :
          /\ map[e] # <<>>
          /\ \A j, k \in DOMAIN map[e] : map[e][j] = map[e][k] => j = k
    IN  /\ OnceEach(rel.forward)
        /\ OnceEach(rel.reverse)
        /\ rel.pairs = UNION {{<<e, t>> : t \in Elements(rel.forward[e])} : e \in DOMAIN rel.forward}
        /\ rel.pairs = UNION {{<<s, e>> : s \in Elements(rel.reverse[e])} : e \in DOMAIN rel.reverse}

(* No edge of any relation outlives one of its entities, not even while    *)
(* despawn_recursive is half done: an index that is reused starts without  *)
(* relations, although no edge is checked when a handle is.                *)
EdgesLive ==
  \A r \in Relation : \A p \in edges[r].pairs : IsAlive(p[1]) /\ IsAlive(p[2])

(* The entities below root: the least set that holds it and the sources of *)
(* every edge into it.                                                     *)
Subtree(r, root) ==
  LET Closed(S) == \A p \in edges[r].pairs : p[2] \in S => p[1] \in S
      handles   == {root} \cup {p[1] : p \in edges[r].pairs}
  IN  CHOOSE S \in SUBSET handles :
        /\ root \in S /\ Closed(S)
        /\ \A T \in SUBSET handles : root \in T /\ Closed(T) => S \subseteq T

(* When the collecting loop ends it has found root and everything below    *)
(* it, each once, on cycles and shared children alike; the visited set is  *)
(* by index only.                                                          *)
SubtreeCollected ==
  walk.phase = "collect" /\ walk.stack = <<>> =>
    /\ Elements(walk.toDespawn) = Subtree(walk.relation, walk.root)
    /\ Len(walk.toDespawn) = Cardinality(Elements(walk.toDespawn))

(* The reported count is the number of entities gone, and all of them are. *)
DespawnsAll ==
  walk.phase = "despawn" /\ walk.next > Len(walk.toDespawn) =>
    /\ \A k \in DOMAIN walk.toDespawn : ~IsAlive(walk.toDespawn[k])
    /\ walk.count \in {0, Len(walk.toDespawn)}

(* ancestors and depth see every entity above e once, and never e itself,  *)
(* on chains, at forks and on cycles: what lies above e is the least set   *)
(* that holds e's first target and the first target of each member.        *)
AncestorsExact ==
  \A r \in Relation, e \in Handle :
    LET targets  == {p[2] : p \in edges[r].pairs}
        First(x) == IF Listed(edges[r].forward, x) = <<>> THEN {} ELSE {Parent(r, x)}
        Above    == CHOOSE S \in SUBSET targets :
                      /\ First(e) \subseteq S /\ \A x \in S : First(x) \subseteq S
                      /\ \A T \in SUBSET targets :
                           First(e) \subseteq T /\ (\A x \in T : First(x) \subseteq T) => S \subseteq T
    IN  /\ Elements(Ancestors(r, e)) = Above \ {e}
        /\ Depth(r, e) = Cardinality(Above \ {e})

(* despawn_recursive returns, whatever cycles the relation has.            *)
WalkTerminates == walk # Idle ~> walk = Idle
=============================================================================
