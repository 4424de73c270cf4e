-------------------------- MODULE RelationshipsProofs --------------------------
(***************************************************************************)
(* Theorems about Relationships for every set of indices and of relation   *)
(* types.                                                                  *)
(*                                                                         *)
(* EdgesInv says that the three representations of a relation are one set  *)
(* of edges between live entities.  WalkInv is the invariant of the depth  *)
(* first walk of despawn_recursive: what it holds is below the root, and   *)
(* what is below an entity it has visited is on the stack or visited.  An  *)
(* upward walk is one state's matter: IsPath is the invariant of its loop. *)
(***************************************************************************)
EXTENDS Relationships, Concatenations, SequenceTheorems

-----------------------------------------------------------------------------
(* The invariants.                                                         *)

(* x is in the list of e. *)
Lists(map, e, x) == e \in DOMAIN map /\ x \in Elements(map[e])

Distinct(s) == \A j, k \in DOMAIN s : s[j] = s[k] => j = k

(* A map from entities to lists without repetition, none of them empty.    *)
ListMap(map) ==
  /\ DOMAIN map \subseteq Handle
  /\ \A e \in DOMAIN map : map[e] \in Seq(Handle) /\ map[e] # <<>> /\ Distinct(map[e])

(* Both maps list the edges of the relation.                               *)
Agreeing(rel) ==
  /\ rel.pairs \subseteq Handle \X Handle
  /\ ListMap(rel.forward)
  /\ ListMap(rel.reverse)
  /\ \A e, x : <<e, x>> \in rel.pairs <=> Lists(rel.forward, e, x)
  /\ \A e, x : <<x, e>> \in rel.pairs <=> Lists(rel.reverse, e, x)

AllocatorType ==
  /\ alive \subseteq Index
  /\ generation \in [Index -> Nat]

EdgesInv ==
  /\ AllocatorType
  /\ edges = [r \in Relation |-> edges[r]]
  /\ \A r \in Relation : Agreeing(edges[r])
  /\ EdgesLive

(* S holds the sources of every edge into it.                              *)
ClosedBelow(r, S) == \A p \in edges[r].pairs : p[2] \in S => p[1] \in S

InOrder(s) == \A j, k \in DOMAIN s : s[j].index = s[k].index => j = k

Collecting ==
  LET found == Elements(walk.toDespawn)
      held  == found \cup Elements(walk.stack)
  IN  /\ walk = [phase |-> "collect", relation |-> walk.relation, root |-> walk.root,
                 stack |-> walk.stack, visited |-> walk.visited, toDespawn |-> walk.toDespawn]
      /\ walk.stack \in Seq(Handle)
      /\ walk.visited = {e.index : e \in found}
      /\ held \subseteq Subtree(walk.relation, walk.root)
      /\ walk.root \in held
      /\ \A p \in edges[walk.relation].pairs : p[2] \in found => p[1] \in held

(* Either the whole list was alive and is despawned one by one, or the     *)
(* root was stale and nothing is.                                          *)
Despawning ==
  LET n == Len(walk.toDespawn)
  IN  /\ walk = [phase |-> "despawn", relation |-> walk.relation, root |-> walk.root,
                 toDespawn |-> walk.toDespawn, next |-> walk.next, count |-> walk.count]
      /\ walk.next \in 1 .. n + 1
      /\ \A k \in 1 .. n : k < walk.next => ~IsAlive(walk.toDespawn[k])
      /\ \/ /\ walk.count = walk.next - 1
            /\ \A k \in 1 .. n : k >= walk.next => IsAlive(walk.toDespawn[k])
         \/ /\ walk.count = 0
            /\ \A k \in 1 .. n : ~IsAlive(walk.toDespawn[k])

WalkInv ==
  \/ walk = Idle
  \/ /\ walk.relation \in Relation
     /\ walk.root \in Handle
     /\ walk.toDespawn \in Seq(Handle)
     /\ InOrder(walk.toDespawn)
     /\ Collecting \/ Despawning

InvAll == EdgesInv /\ WalkInv
-----------------------------------------------------------------------------
(* Lists without repetition.                                               *)

LEMMA EmptyLists ==
  Elements(<<>>) = {} /\ \A S : <<>> \in Seq(S)
BY DEF Elements

(* A handle is its index and its generation.                               *)
LEMMA HandleFields ==
  ASSUME NEW e \in Handle
  PROVE  e = [index |-> e.index, generation |-> e.generation] /\ e.index \in Index
<1>1. PICK i \in Index : e \in [index : {i}, generation : 0 .. MaxGeneration[i]]
  BY DEF Handle
<1>2. QED
  BY <1>1

(* Two live handles of one index are the same.                             *)
LEMMA SameLiveHandle ==
  ASSUME NEW x \in Handle, NEW y \in Handle, IsAlive(x), IsAlive(y), x.index = y.index
  PROVE  x = y
BY HandleFields DEF IsAlive

LEMMA ElementsMeaning ==
  ASSUME NEW S, NEW s \in Seq(S), NEW x
  PROVE  /\ x \in Elements(s) <=> \E k \in 1 .. Len(s) : s[k] = x
         /\ x \in Elements(s) => x \in S
         /\ DOMAIN s = 1 .. Len(s) /\ Len(s) \in Nat
BY DEF Elements

(* Appending what is not in the list keeps it free of repetition.          *)
LEMMA AppendDistinct ==
  ASSUME NEW S, NEW s \in Seq(S), NEW x \in S
  PROVE  /\ Append(s, x) \in Seq(S)
         /\ Append(s, x) # <<>>
         /\ Elements(Append(s, x)) = Elements(s) \cup {x}
         /\ Distinct(s) /\ x \notin Elements(s) => Distinct(Append(s, x))
<1> DEFINE t == Append(s, x)
           n == Len(s)
<1>1. /\ t \in Seq(S) /\ t # <<>> /\ Len(t) = n + 1 /\ n \in Nat
      /\ \A k \in 1 .. n : t[k] = s[k]
      /\ t[n + 1] = x
  BY AppendProperties
<1>2. DOMAIN t = 1 .. n + 1 /\ DOMAIN s = 1 .. n
  BY <1>1
<1> HIDE DEF t, n
<1>3. 1 .. n + 1 = (1 .. n) \cup {n + 1} /\ n + 1 \notin 1 .. n
  BY <1>1
<1>4. Elements(t) = Elements(s) \cup {x}
  <2>1. Elements(t) = {t[k] : k \in 1 .. n + 1} /\ Elements(s) = {s[k] : k \in 1 .. n}
    BY <1>2 DEF Elements
  <2>2. QED
    BY <1>1, <1>3, <2>1
<1>5. ASSUME Distinct(s), x \notin Elements(s)
      PROVE  Distinct(t)
  <2>1. \A k \in 1 .. n : s[k] # x
    BY <1>2, <1>5 DEF Elements
  <2>2. \A j, k \in 1 .. n : s[j] = s[k] => j = k
    BY <1>2, <1>5 DEF Distinct
  <2>3. \A j, k \in 1 .. n + 1 : t[j] = t[k] => j = k
    BY <1>1, <1>3, <2>1, <2>2
  <2>4. QED
    BY <1>2, <2>3 DEF Distinct
<1>6. QED
  BY <1>1, <1>4, <1>5 DEF t

(* swap_remove drops x and nothing else.                                   *)
LEMMA DroppedDistinct ==
  ASSUME NEW S, NEW s \in Seq(S), Distinct(s), NEW x
  PROVE  /\ Dropped(s, x) \in Seq(S)
         /\ Distinct(Dropped(s, x))
         /\ Elements(Dropped(s, x)) = Elements(s) \ {x}
         /\ Dropped(s, x) = <<>> <=> Elements(Dropped(s, x)) = {}
<1> DEFINE n == Len(s)
           t == Dropped(s, x)
<1>1. n \in Nat /\ DOMAIN s = 1 .. n /\ \A k \in 1 .. n : s[k] \in S
  OBVIOUS
<1>2. \A j, k \in 1 .. n : s[j] = s[k] => j = k
  BY <1>1 DEF Distinct
<1>3. t \in Seq(S) /\ Distinct(t) /\ Elements(t) = Elements(s) \ {x}
  <2>1. CASE x \notin Elements(s)
    BY <2>1 DEF Dropped
  <2>2. CASE x \in Elements(s)
    <3>1. PICK pos \in 1 .. n : s[pos] = x
      BY <1>1, <2>2 DEF Elements
    <3>2. (CHOOSE k \in DOMAIN s : s[k] = x /\ \A j \in DOMAIN s : s[j] = x => k <= j) = pos
      <4>1. pos \in DOMAIN s /\ s[pos] = x /\ \A j \in DOMAIN s : s[j] = x => pos <= j
        BY <1>1, <1>2, <3>1
      <4>2. \A k \in DOMAIN s : s[k] = x => k = pos
        BY <1>1, <1>2, <3>1
      <4>3. QED
        BY <4>1, <4>2
    <3>3. t = [k \in 1 .. n - 1 |-> IF k = pos THEN s[n] ELSE s[k]]
      BY <2>2, <3>2 DEF Dropped
    <3> HIDE DEF n, t
    <3>4. /\ DOMAIN t = 1 .. n - 1
          /\ \A k \in 1 .. n - 1 : t[k] = IF k = pos THEN s[n] ELSE s[k]
          /\ n \in 1 .. n /\ n - 1 \in Nat
          /\ \A k \in 1 .. n - 1 : k \in 1 .. n /\ k # n
      BY <1>1, <3>1, <3>3
    <3>5. \A k \in 1 .. n - 1 : t[k] \in S
      BY <1>1, <3>4
    <3>6. t \in Seq(S)
      BY <3>3, <3>4, <3>5
    <3>7. \A j, k \in 1 .. n - 1 : t[j] = t[k] => j = k
      BY <1>2, <3>4
    <3>8. \A k \in 1 .. n - 1 : t[k] # x
      BY <1>2, <3>1, <3>4
    <3>9. ASSUME NEW k \in 1 .. n, s[k] # x
          PROVE  \E j \in 1 .. n - 1 : t[j] = s[k]
      <4>1. CASE k = n
        <5>1. pos \in 1 .. n - 1 /\ t[pos] = s[k]
          BY <1>1, <3>1, <3>4, <3>9, <4>1
        <5>2. QED
          BY <5>1
      <4>2. CASE k # n
        <5>1. k \in 1 .. n - 1 /\ t[k] = s[k]
          BY <1>1, <3>1, <3>4, <3>9, <4>2
        <5>2. QED
          BY <5>1
      <4>3. QED
        BY <4>1, <4>2
    <3>10. Elements(t) = {t[k] : k \in 1 .. n - 1} /\ Elements(s) = {s[k] : k \in 1 .. n}
      BY <1>1, <3>4 DEF Elements
    <3>11. Elements(t) = Elements(s) \ {x}
      <4>1. \A k \in 1 .. n - 1 : \E j \in 1 .. n : t[k] = s[j]
        BY <3>4
      <4>2. QED
        BY <3>8, <3>9, <3>10, <4>1
    <3>12. QED
      BY <3>4, <3>6, <3>7, <3>11 DEF Distinct
  <2>3. QED
    BY <2>1, <2>2
<1>4. t = <<>> <=> Elements(t) = {}
  <2> HIDE DEF t, n
  <2>1. t \in Seq(S)
    BY <1>3
  <2>2. CASE t = <<>>
    BY <2>2, EmptyLists
  <2>3. CASE t # <<>>
    <3>1. 1 \in DOMAIN t
      BY <2>1, <2>3
    <3>2. QED
      BY <2>3, <3>1 DEF Elements
  <2>4. QED
    BY <2>2, <2>3
<1>5. QED
  BY <1>3, <1>4
-----------------------------------------------------------------------------
(* Maps of lists.                                                          *)

LEMMA ListedMeaning ==
  ASSUME NEW map, ListMap(map), NEW e
  PROVE  /\ Listed(map, e) \in Seq(Handle)
         /\ Distinct(Listed(map, e))
         /\ \A x : x \in Elements(Listed(map, e)) <=> Lists(map, e, x)
         /\ \A x : Lists(map, e, x) => e \in Handle /\ x \in Handle
<1>1. CASE e \in DOMAIN map
  BY <1>1, ElementsMeaning DEF Listed, Lists, ListMap
<1>2. CASE e \notin DOMAIN map
  BY <1>2, EmptyLists DEF Listed, Lists, Distinct
<1>3. QED
  BY <1>1, <1>2

LEMMA LinkedMap ==
  ASSUME NEW map, ListMap(map), NEW from \in Handle, NEW to \in Handle, ~Lists(map, from, to)
  PROVE  /\ ListMap(Linked(map, from, to))
         /\ \A e, x : Lists(Linked(map, from, to), e, x)
                        <=> Lists(map, e, x) \/ (e = from /\ x = to)
<1> DEFINE old == Listed(map, from)
           new == Append(old, to)
           t == Linked(map, from, to)
<1>1. old \in Seq(Handle) /\ Distinct(old) /\ to \notin Elements(old)
      /\ \A x : x \in Elements(old) <=> Lists(map, from, x)
  BY ListedMeaning
<1> HIDE DEF old
<1>2. /\ new \in Seq(Handle) /\ new # <<>> /\ Distinct(new)
      /\ Elements(new) = Elements(old) \cup {to}
  BY <1>1, AppendDistinct
<1>3. t = [e \in (DOMAIN map) \cup {from} |-> IF e = from THEN new ELSE map[e]]
  BY DEF Linked, old
<1> HIDE DEF t, new
<1>4. /\ DOMAIN t = (DOMAIN map) \cup {from}
      /\ t[from] = new
      /\ \A e \in DOMAIN map : e # from => t[e] = map[e]
  BY <1>3
<1>5. ListMap(t)
  BY <1>2, <1>4 DEF ListMap
<1>6. \A e, x : Lists(t, e, x) <=> Lists(map, e, x) \/ (e = from /\ x = to)
  BY <1>1, <1>2, <1>4 DEF Lists
<1>7. QED
  BY <1>5, <1>6 DEF t

LEMMA UnlinkedMap ==
  ASSUME NEW map, ListMap(map), NEW keys, NEW y
  PROVE  /\ ListMap(Unlinked(map, keys, y))
         /\ \A e, x : Lists(Unlinked(map, keys, y), e, x)
                        <=> Lists(map, e, x) /\ ~(e \in keys /\ x = y)
<1> DEFINE rest == [k \in DOMAIN map |-> IF k \in keys THEN Dropped(map[k], y) ELSE map[k]]
           t == Unlinked(map, keys, y)
<1>1. t = [k \in {j \in DOMAIN map : rest[j] # <<>>} |-> rest[k]]
  BY DEF Unlinked
<1>2. ASSUME NEW e \in DOMAIN map
      PROVE  /\ rest[e] \in Seq(Handle) /\ Distinct(rest[e])
             /\ \A x : x \in Elements(rest[e]) <=> x \in Elements(map[e]) /\ ~(e \in keys /\ x = y)
  <2>1. map[e] \in Seq(Handle) /\ Distinct(map[e])
    BY DEF ListMap
  <2>2. CASE e \in keys
    BY <2>1, <2>2, DroppedDistinct
  <2>3. CASE e \notin keys
    BY <2>1, <2>3
  <2>4. QED
    BY <2>2, <2>3
<1> HIDE DEF rest, t
<1>3. DOMAIN t \subseteq DOMAIN map /\ \A e \in DOMAIN t : t[e] = rest[e] /\ rest[e] # <<>>
  BY <1>1
<1>4. ListMap(t)
  BY <1>2, <1>3 DEF ListMap
<1>5. ASSUME NEW e, NEW x
      PROVE  Lists(t, e, x) <=> Lists(map, e, x) /\ ~(e \in keys /\ x = y)
  <2>1. CASE e \in DOMAIN t
    BY <1>2, <1>3, <2>1 DEF Lists
  <2>2. CASE e \notin DOMAIN map
    BY <1>3, <2>2 DEF Lists
  <2>3. CASE e \in DOMAIN map /\ e \notin DOMAIN t
    <3>1. rest[e] = <<>>
      BY <1>1, <2>3
    <3>2. Elements(rest[e]) = {}
      BY <3>1, EmptyLists
    <3>3. QED
      BY <1>2, <2>3, <3>2 DEF Lists
  <2>4. QED
    BY <2>1, <2>2, <2>3
<1>6. QED
  BY <1>4, <1>5 DEF t

LEMMA WithoutKeyMap ==
  ASSUME NEW map, ListMap(map), NEW k
  PROVE  /\ ListMap(WithoutKey(map, k))
         /\ \A e, x : Lists(WithoutKey(map, k), e, x) <=> Lists(map, e, x) /\ e # k
BY DEF ListMap, WithoutKey, Lists
-----------------------------------------------------------------------------
(* The operations on a relation.                                           *)

LEMMA AddedAgrees ==
  ASSUME NEW rel, Agreeing(rel), NEW source \in Handle, NEW target \in Handle,
         <<source, target>> \notin rel.pairs
  PROVE  /\ Agreeing(Added(rel, source, target))
         /\ Added(rel, source, target).pairs = rel.pairs \cup {<<source, target>>}
<1> DEFINE new == Added(rel, source, target)
           F == rel.forward
           R == rel.reverse
<1>1. /\ new.pairs = rel.pairs \cup {<<source, target>>}
      /\ new.forward = Linked(F, source, target)
      /\ new.reverse = Linked(R, target, source)
  BY DEF Added
<1>2. ListMap(F) /\ ListMap(R) /\ ~Lists(F, source, target) /\ ~Lists(R, target, source)
  BY DEF Agreeing
<1> HIDE DEF new, F, R
<1>3. /\ ListMap(new.forward)
      /\ \A e, x : Lists(new.forward, e, x) <=> Lists(F, e, x) \/ (e = source /\ x = target)
  BY <1>1, <1>2, LinkedMap
<1>4. /\ ListMap(new.reverse)
      /\ \A e, x : Lists(new.reverse, e, x) <=> Lists(R, e, x) \/ (e = target /\ x = source)
  BY <1>1, <1>2, LinkedMap
<1>5. \A e, x : <<e, x>> \in new.pairs <=> Lists(new.forward, e, x)
  BY <1>1, <1>3 DEF Agreeing, F
<1>6. \A e, x : <<x, e>> \in new.pairs <=> Lists(new.reverse, e, x)
  BY <1>1, <1>4 DEF Agreeing, R
<1>7. new.pairs \subseteq Handle \X Handle
  BY <1>1 DEF Agreeing
<1>8. QED
  BY <1>1, <1>3, <1>4, <1>5, <1>6, <1>7 DEF Agreeing, new

LEMMA RemovedAgrees ==
  ASSUME NEW rel, Agreeing(rel), NEW source, NEW target
  PROVE  /\ Agreeing(Removed(rel, source, target))
         /\ Removed(rel, source, target).pairs = rel.pairs \ {<<source, target>>}
<1> DEFINE new == Removed(rel, source, target)
           F == rel.forward
           R == rel.reverse
<1>1. /\ new.pairs = rel.pairs \ {<<source, target>>}
      /\ new.forward = Unlinked(F, {source}, target)
      /\ new.reverse = Unlinked(R, {target}, source)
  BY DEF Removed
<1>2. ListMap(F) /\ ListMap(R)
  BY DEF Agreeing
<1> HIDE DEF new, F, R
<1>3. /\ ListMap(new.forward)
      /\ \A e, x : Lists(new.forward, e, x) <=> Lists(F, e, x) /\ ~(e \in {source} /\ x = target)
  BY <1>1, <1>2, UnlinkedMap
<1>4. /\ ListMap(new.reverse)
      /\ \A e, x : Lists(new.reverse, e, x) <=> Lists(R, e, x) /\ ~(e \in {target} /\ x = source)
  BY <1>1, <1>2, UnlinkedMap
<1>5. \A e, x : <<e, x>> \in new.pairs <=> Lists(new.forward, e, x)
  BY <1>1, <1>3 DEF Agreeing, F
<1>6. \A e, x : <<x, e>> \in new.pairs <=> Lists(new.reverse, e, x)
  BY <1>1, <1>4 DEF Agreeing, R
<1>7. new.pairs \subseteq Handle \X Handle
  BY <1>1 DEF Agreeing
<1>8. QED
  BY <1>1, <1>3, <1>4, <1>5, <1>6, <1>7 DEF Agreeing, new

(* remove_entity leaves exactly the edges that do not touch k, also when   *)
(* k has an edge to itself.                                                *)
LEMMA EntityRemovedAgrees ==
  ASSUME NEW rel, Agreeing(rel), NEW k
  PROVE  /\ Agreeing(EntityRemoved(rel, k))
         /\ EntityRemoved(rel, k).pairs = {p \in rel.pairs : p[1] # k /\ p[2] # k}
<1> DEFINE new == EntityRemoved(rel, k)
           F == rel.forward
           R == rel.reverse
           targets == Elements(Listed(F, k))
           F1 == WithoutKey(F, k)
           R1 == Unlinked(R, targets, k)
           sources == Elements(Listed(R1, k))
<1>1. /\ new.pairs = rel.pairs \ (({k} \X targets) \cup (sources \X {k}))
      /\ new.forward = Unlinked(F1, sources, k)
      /\ new.reverse = WithoutKey(R1, k)
  BY DEF EntityRemoved
<1>2. /\ ListMap(F) /\ ListMap(R)
      /\ \A e, x : <<e, x>> \in rel.pairs <=> Lists(F, e, x)
      /\ \A e, x : <<x, e>> \in rel.pairs <=> Lists(R, e, x)
      /\ rel.pairs \subseteq Handle \X Handle
  BY DEF Agreeing
<1>3. \A x : x \in targets <=> <<k, x>> \in rel.pairs
  BY <1>2, ListedMeaning
<1> HIDE DEF new, F, R, targets
<1>4. ListMap(F1) /\ \A e, x : Lists(F1, e, x) <=> <<e, x>> \in rel.pairs /\ e # k
  BY <1>2, WithoutKeyMap
<1>5. /\ ListMap(R1)
      /\ \A e, x : Lists(R1, e, x) <=> <<x, e>> \in rel.pairs /\ ~(e \in targets /\ x = k)
  BY <1>2, UnlinkedMap
<1>6. \A x : x \in sources <=> <<x, k>> \in rel.pairs /\ x # k
  <2>1. \A x : x \in sources <=> Lists(R1, k, x)
    <3> HIDE DEF R1
    <3>1. QED
      BY <1>5, ListedMeaning
  <2>2. QED
    BY <1>3, <1>5, <2>1
<1> HIDE DEF F1, R1, sources
<1>7. /\ ListMap(new.forward)
      /\ \A e, x : Lists(new.forward, e, x) <=> Lists(F1, e, x) /\ ~(e \in sources /\ x = k)
  BY <1>1, <1>4, UnlinkedMap
<1>8. /\ ListMap(new.reverse)
      /\ \A e, x : Lists(new.reverse, e, x) <=> Lists(R1, e, x) /\ e # k
  BY <1>1, <1>5, WithoutKeyMap
<1>9. \A e, x : <<e, x>> \in new.pairs <=> <<e, x>> \in rel.pairs /\ e # k /\ x # k
  BY <1>1, <1>3, <1>6
<1>10. new.pairs \subseteq rel.pairs
  BY <1>1
<1>11. \A e, x : <<e, x>> \in new.pairs <=> Lists(new.forward, e, x)
  BY <1>4, <1>6, <1>7, <1>9
<1>12. \A e, x : <<x, e>> \in new.pairs <=> Lists(new.reverse, e, x)
  BY <1>3, <1>5, <1>8, <1>9
<1>13. new.pairs = {p \in rel.pairs : p[1] # k /\ p[2] # k}
  <2>1. \A p \in rel.pairs : p = <<p[1], p[2]>>
    BY <1>2
  <2>2. QED
    BY <1>9, <1>10, <2>1
<1>14. QED
  BY <1>2, <1>7, <1>8, <1>10, <1>11, <1>12, <1>13 DEF Agreeing, new
-----------------------------------------------------------------------------
(* The edges.                                                              *)

(* A despawned entity takes its edges with it, and no other handle's life  *)
(* changes.                                                                *)
LEMMA DespawnedKeeps ==
  ASSUME EdgesInv, NEW e \in Handle, Despawned(e)
  PROVE  /\ EdgesInv'
         /\ IsAlive(e)
         /\ \A x \in Handle : IsAlive(x)' <=> IsAlive(x) /\ x # e
<1>1. /\ alive \subseteq Index /\ generation \in [Index -> Nat] /\ e.index \in Index
      /\ edges = [r \in Relation |-> edges[r]]
      /\ \A r \in Relation : Agreeing(edges[r])
  BY HandleFields DEF EdgesInv, AllocatorType
<1>2. /\ IsAlive(e)
      /\ alive' = alive \ {e.index}
      /\ generation' = [generation EXCEPT ![e.index] = @ + 1]
      /\ edges' = [r \in Relation |-> EntityRemoved(edges[r], e)]
  BY DEF Despawned
<1>3. AllocatorType'
  BY <1>1, <1>2 DEF AllocatorType
<1>4. ASSUME NEW x \in Handle
      PROVE  IsAlive(x)' <=> IsAlive(x) /\ x # e
  <2>1. CASE x.index = e.index
    <3>1. ~ IsAlive(x)'
      BY <1>2, <2>1 DEF IsAlive
    <3>2. IsAlive(x) => x = e
      BY <1>2, <2>1, SameLiveHandle
    <3>3. QED
      BY <3>1, <3>2
  <2>2. CASE x.index # e.index
    <3>1. x.index \in Index /\ generation'[x.index] = generation[x.index]
      BY <1>1, <1>2, <2>2, HandleFields
    <3>2. QED
      BY <1>2, <2>2, <3>1 DEF IsAlive
  <2>3. QED
    BY <2>1, <2>2
<1>5. \A r \in Relation : /\ Agreeing(edges'[r])
                          /\ edges'[r].pairs = {p \in edges[r].pairs : p[1] # e /\ p[2] # e}
  <2>1. ASSUME NEW r \in Relation
        PROVE  /\ Agreeing(edges'[r])
               /\ edges'[r].pairs = {p \in edges[r].pairs : p[1] # e /\ p[2] # e}
    <3>1. edges'[r] = EntityRemoved(edges[r], e)
      BY <1>2
    <3>2. QED
      BY <1>1, <3>1, EntityRemovedAgrees
  <2>2. QED
    BY <2>1
<1>6. EdgesLive'
  <2>1. ASSUME NEW r \in Relation, NEW p \in edges'[r].pairs
        PROVE  IsAlive(p[1])' /\ IsAlive(p[2])'
    <3>1. p \in edges[r].pairs /\ p[1] # e /\ p[2] # e
      BY <1>5, <2>1
    <3>2. p[1] \in Handle /\ p[2] \in Handle
      BY <1>1, <3>1 DEF Agreeing
    <3>3. IsAlive(p[1]) /\ IsAlive(p[2])
      BY <3>1 DEF EdgesInv, EdgesLive
    <3>4. QED
      BY <1>4, <3>1, <3>2, <3>3
  <2>2. QED
    BY <2>1 DEF EdgesLive
<1>7. \A r \in Relation : Agreeing(edges[r])'
  BY <1>5
<1>8. edges' = [r \in Relation |-> edges'[r]]
  BY <1>2
<1>9. QED
  BY <1>2, <1>3, <1>4, <1>6, <1>7, <1>8 DEF EdgesInv

(* New edges join live entities; the entities stay as they are.            *)
LEMMA AddKeeps ==
  ASSUME EdgesInv, NEW r \in Relation, NEW source \in Handle, NEW target \in Handle,
         AddRelation(r, source, target)
  PROVE  EdgesInv'
<1>1. /\ UNCHANGED <<alive, generation, walk>>
      /\ IsAlive(source) /\ IsAlive(target)
      /\ <<source, target>> \notin edges[r].pairs
      /\ edges' = [edges EXCEPT ![r] = Added(@, source, target)]
  BY DEF AddRelation
<1>2. /\ edges = [r2 \in Relation |-> edges[r2]]
      /\ \A r2 \in Relation : Agreeing(edges[r2])
  BY DEF EdgesInv
<1>3. /\ edges' = [r2 \in Relation |-> edges'[r2]]
      /\ edges'[r] = Added(edges[r], source, target)
      /\ \A r2 \in Relation : r2 # r => edges'[r2] = edges[r2]
  BY <1>1, <1>2
<1>4. Agreeing(edges'[r]) /\ edges'[r].pairs = edges[r].pairs \cup {<<source, target>>}
  BY <1>1, <1>2, <1>3, AddedAgrees
<1>5. \A x : IsAlive(x)' <=> IsAlive(x)
  BY <1>1 DEF IsAlive
<1>6. EdgesLive'
  <2>1. ASSUME NEW r2 \in Relation, NEW p \in edges'[r2].pairs
        PROVE  IsAlive(p[1]) /\ IsAlive(p[2])
    <3>1. CASE p \in edges[r2].pairs
      BY <3>1 DEF EdgesInv, EdgesLive
    <3>2. CASE p \notin edges[r2].pairs
      <4>1. p = <<source, target>>
        BY <1>3, <1>4, <2>1, <3>2
      <4>2. QED
        BY <1>1, <4>1
    <3>3. QED
      BY <3>1, <3>2
  <2>2. QED
    BY <1>5, <2>1 DEF EdgesLive
<1>7. \A r2 \in Relation : Agreeing(edges[r2])'
  BY <1>2, <1>3, <1>4
<1>8. AllocatorType'
  BY <1>1 DEF EdgesInv, AllocatorType
<1>9. QED
  BY <1>3, <1>6, <1>7, <1>8 DEF EdgesInv

LEMMA RemoveKeeps ==
  ASSUME EdgesInv, NEW r \in Relation, NEW source \in Handle, NEW target \in Handle,
         RemoveRelation(r, source, target)
  PROVE  EdgesInv'
<1>1. /\ UNCHANGED <<alive, generation, walk>>
      /\ edges' = [edges EXCEPT ![r] = Removed(@, source, target)]
  BY DEF RemoveRelation
<1>2. /\ edges = [r2 \in Relation |-> edges[r2]]
      /\ \A r2 \in Relation : Agreeing(edges[r2])
  BY DEF EdgesInv
<1>3. /\ edges' = [r2 \in Relation |-> edges'[r2]]
      /\ edges'[r] = Removed(edges[r], source, target)
      /\ \A r2 \in Relation : r2 # r => edges'[r2] = edges[r2]
  BY <1>1, <1>2
<1>4. Agreeing(edges'[r]) /\ edges'[r].pairs = edges[r].pairs \ {<<source, target>>}
  BY <1>2, <1>3, RemovedAgrees
<1>5. \A x : IsAlive(x)' <=> IsAlive(x)
  BY <1>1 DEF IsAlive
<1>6. \A r2 \in Relation : edges'[r2].pairs \subseteq edges[r2].pairs
  BY <1>3, <1>4
<1>7. EdgesLive'
  BY <1>5, <1>6 DEF EdgesInv, EdgesLive
<1>8. \A r2 \in Relation : Agreeing(edges[r2])'
  BY <1>2, <1>3, <1>4
<1>9. AllocatorType'
  BY <1>1 DEF EdgesInv, AllocatorType
<1>10. QED
  BY <1>3, <1>7, <1>8, <1>9 DEF EdgesInv

LEMMA SpawnKeeps ==
  ASSUME EdgesInv, NEW i \in Index, Spawn(i)
  PROVE  EdgesInv'
<1>1. alive' = alive \cup {i} /\ UNCHANGED <<generation, edges, walk>>
  BY DEF Spawn
<1>2. \A x : IsAlive(x) => IsAlive(x)'
  BY <1>1 DEF IsAlive
<1>3. EdgesLive'
  BY <1>1, <1>2 DEF EdgesInv, EdgesLive
<1>4. AllocatorType'
  BY <1>1 DEF EdgesInv, AllocatorType
<1>5. QED
  BY <1>1, <1>3, <1>4 DEF EdgesInv

LEMMA EdgesUntouched ==
  ASSUME EdgesInv, UNCHANGED <<alive, generation, edges>>
  PROVE  EdgesInv' /\ \A x : IsAlive(x)' <=> IsAlive(x)
<1>1. \A x : IsAlive(x)' <=> IsAlive(x)
  BY DEF IsAlive
<1>2. EdgesLive' /\ AllocatorType'
  BY <1>1 DEF EdgesInv, EdgesLive, AllocatorType
<1>3. QED
  BY <1>1, <1>2 DEF EdgesInv
-----------------------------------------------------------------------------
(* What is below an entity.                                                *)

Handles(r, root) == {root} \cup {p[1] : p \in edges[r].pairs}

(* Subtree is the least closed set that holds the root: the intersection   *)
(* of all of them.                                                         *)
LEMMA SubtreeMeaning ==
  ASSUME NEW r, NEW root
  PROVE  /\ Subtree(r, root) \subseteq Handles(r, root)
         /\ root \in Subtree(r, root)
         /\ ClosedBelow(r, Subtree(r, root))
         /\ \A T \in SUBSET Handles(r, root) :
              root \in T /\ ClosedBelow(r, T) => Subtree(r, root) \subseteq T
<1> DEFINE H == Handles(r, root)
           Least(S) == /\ root \in S /\ ClosedBelow(r, S)
                       /\ \A T \in SUBSET H : root \in T /\ ClosedBelow(r, T) => S \subseteq T
           I == {x \in H : \A T \in SUBSET H : root \in T /\ ClosedBelow(r, T) => x \in T}
<1>1. Subtree(r, root) = CHOOSE S \in SUBSET H : Least(S)
  BY DEF Subtree, Handles, ClosedBelow
<1>2. I \in SUBSET H /\ root \in I
  BY DEF Handles
<1>3. ClosedBelow(r, I)
  <2>1. ASSUME NEW p \in edges[r].pairs, p[2] \in I PROVE p[1] \in I
    <3>1. p[1] \in H
      BY DEF Handles
    <3>2. ASSUME NEW T \in SUBSET H, root \in T, ClosedBelow(r, T) PROVE p[1] \in T
      BY <2>1, <3>2 DEF ClosedBelow
    <3>3. QED
      BY <3>1, <3>2
  <2> HIDE DEF I
  <2>2. QED
    BY <2>1 DEF ClosedBelow
<1>4. Least(I)
  BY <1>2, <1>3
<1> HIDE DEF I
<1>5. \E S \in SUBSET H : Least(S)
  BY <1>2, <1>4
<1> HIDE DEF H, Least
<1>6. Subtree(r, root) \in SUBSET H /\ Least(Subtree(r, root))
  BY <1>1, <1>5
<1>7. QED
  BY <1>6 DEF H, Least

(* What is below a live root is alive; a stale root is alone, since edges  *)
(* join live entities only.                                                *)
LEMMA SubtreeLife ==
  ASSUME EdgesInv, NEW r \in Relation, NEW root \in Handle
  PROVE  /\ Subtree(r, root) \subseteq Handle
         /\ IsAlive(root) => \A x \in Subtree(r, root) : IsAlive(x)
         /\ ~IsAlive(root) => Subtree(r, root) = {root}
<1> DEFINE S == Subtree(r, root)
<1>1. \A p \in edges[r].pairs : /\ p[1] \in Handle /\ p[2] \in Handle
                                /\ IsAlive(p[1]) /\ IsAlive(p[2])
  BY DEF EdgesInv, EdgesLive, Agreeing
<1>2. S \subseteq Handles(r, root) /\ root \in S
  BY SubtreeMeaning
<1>3. \A x \in S : x = root \/ \E p \in edges[r].pairs : x = p[1]
  BY <1>2 DEF Handles
<1>4. ASSUME ~IsAlive(root) PROVE S = {root}
  <2>1. {root} \in SUBSET Handles(r, root)
    BY DEF Handles
  <2>2. ClosedBelow(r, {root})
    BY <1>1, <1>4 DEF ClosedBelow
  <2>3. S \subseteq {root}
    BY <2>1, <2>2, SubtreeMeaning
  <2>4. QED
    BY <1>2, <2>3
<1> HIDE DEF S
<1>5. QED
  BY <1>1, <1>3, <1>4 DEF S

(* Hence entities below one root are told apart by their indices.          *)
LEMMA SubtreeIndices ==
  ASSUME EdgesInv, NEW r \in Relation, NEW root \in Handle,
         NEW x \in Subtree(r, root), NEW y \in Subtree(r, root), x.index = y.index
  PROVE  x = y
<1>1. x \in Handle /\ y \in Handle
  BY SubtreeLife
<1>2. CASE IsAlive(root)
  BY <1>1, <1>2, SubtreeLife, SameLiveHandle
<1>3. CASE ~IsAlive(root)
  BY <1>3, SubtreeLife
<1>4. QED
  BY <1>2, <1>3
-----------------------------------------------------------------------------
(* The walk of despawn_recursive.                                          *)

LEMMA PopTop ==
  ASSUME NEW S, NEW s \in Seq(S), s # <<>>
  PROVE  /\ Top(s) \in S /\ Pop(s) \in Seq(S)
         /\ Elements(s) = Elements(Pop(s)) \cup {Top(s)}
<1> DEFINE n == Len(s)
           t == Pop(s)
<1>1. n \in Nat /\ n \in 1 .. n /\ \A k \in 1 .. n : s[k] \in S
  BY EmptySeq
<1>2. t \in Seq(S) /\ Len(t) = n - 1 /\ \A k \in 1 .. n - 1 : t[k] = s[k]
  <2>1. n - 1 \in 0 .. n
    BY <1>1
  <2>2. t = SubSeq(s, 1, n - 1)
    BY DEF Pop
  <2> HIDE DEF t
  <2>3. /\ t \in Seq(S)
        /\ Len(t) = IF 1 <= n - 1 THEN (n - 1) - 1 + 1 ELSE 0
        /\ \A k \in 1 .. n - 1 : t[k] = s[k]
    BY <1>1, <2>1, <2>2
  <2>4. Len(t) = n - 1
    <3> HIDE DEF n
    <3>1. QED
      BY <1>1, <2>3
  <2>5. QED
    BY <2>3, <2>4
<1> HIDE DEF t, n
<1>3. /\ \A x : x \in Elements(t) <=> \E k \in 1 .. n - 1 : t[k] = x
      /\ \A x : x \in Elements(s) <=> \E k \in 1 .. n : s[k] = x
  BY <1>2, ElementsMeaning DEF n
<1>4. 1 .. n = (1 .. n - 1) \cup {n}
  BY <1>1
<1>5. Elements(s) = Elements(t) \cup {s[n]}
  BY <1>2, <1>3, <1>4
<1>6. QED
  BY <1>1, <1>2, <1>5 DEF Top, t, n

LEMMA ConcatElements ==
  ASSUME NEW S, NEW s \in Seq(S), NEW t \in Seq(S)
  PROVE  /\ s \o t \in Seq(S)
         /\ Elements(s \o t) = Elements(s) \cup Elements(t)
<1> DEFINE m == Len(s)
           n == Len(t)
           u == s \o t
<1>1. /\ u \in Seq(S) /\ Len(u) = m + n /\ m \in Nat /\ n \in Nat
      /\ \A k \in 1 .. m + n : u[k] = IF k <= m THEN s[k] ELSE t[k - m]
  BY ConcatProperties
<1> HIDE DEF u
<1>2. /\ \A x : x \in Elements(u) <=> \E k \in 1 .. m + n : u[k] = x
      /\ \A x : x \in Elements(s) <=> \E k \in 1 .. m : s[k] = x
      /\ \A x : x \in Elements(t) <=> \E k \in 1 .. n : t[k] = x
  BY <1>1, ElementsMeaning
<1> HIDE DEF m, n
<1>3. ASSUME NEW k \in 1 .. m PROVE k \in 1 .. m + n /\ u[k] = s[k]
  BY <1>1
<1>4. ASSUME NEW k \in 1 .. n PROVE k + m \in 1 .. m + n /\ u[k + m] = t[k]
  BY <1>1
<1>5. ASSUME NEW k \in 1 .. m + n
      PROVE  (\E j \in 1 .. m : u[k] = s[j]) \/ (\E j \in 1 .. n : u[k] = t[j])
  <2>1. CASE k <= m
    <3>1. k \in 1 .. m
      BY <1>1, <2>1
    <3>2. QED
      BY <1>3, <3>1
  <2>2. CASE ~ (k <= m)
    <3>1. k - m \in 1 .. n /\ u[k] = t[k - m]
      BY <1>1, <2>2
    <3>2. QED
      BY <3>1
  <2>3. QED
    BY <2>1, <2>2
<1>6. \A x : x \in Elements(u) <=> x \in Elements(s) \/ x \in Elements(t)
  BY <1>2, <1>3, <1>4, <1>5
<1>7. QED
  BY <1>1, <1>6 DEF u

(* The sources of the edges into e.                                        *)
LEMMA ChildrenMeaning ==
  ASSUME EdgesInv, NEW r \in Relation, NEW e
  PROVE  /\ Children(r, e) \in Seq(Handle)
         /\ \A x : x \in Elements(Children(r, e)) <=> <<x, e>> \in edges[r].pairs
<1>1. ListMap(edges[r].reverse)
      /\ \A x : <<x, e>> \in edges[r].pairs <=> Lists(edges[r].reverse, e, x)
  BY DEF EdgesInv, Agreeing
<1>2. QED
  BY <1>1, ListedMeaning DEF Children

(* The list of a walk grows by an entity of a new index.                   *)
LEMMA InOrderGrows ==
  ASSUME NEW s \in Seq(Handle), InOrder(s), NEW e \in Handle,
         e.index \notin {x.index : x \in Elements(s)}
  PROVE  InOrder(Append(s, e))
<1> DEFINE t == Append(s, e)
           n == Len(s)
<1>1. /\ Len(t) = n + 1 /\ n \in Nat /\ DOMAIN t = 1 .. n + 1 /\ DOMAIN s = 1 .. n
      /\ \A k \in 1 .. n : t[k] = s[k]
      /\ t[n + 1] = e
  BY AppendProperties
<1> HIDE DEF t, n
<1>2. \A k \in 1 .. n : s[k].index # e.index
  BY <1>1 DEF Elements
<1>3. \A j, k \in 1 .. n : s[j].index = s[k].index => j = k
  BY <1>1 DEF InOrder
<1>4. 1 .. n + 1 = (1 .. n) \cup {n + 1}
  BY <1>1
<1>5. \A j, k \in 1 .. n + 1 : t[j].index = t[k].index => j = k
  BY <1>1, <1>2, <1>3, <1>4
<1>6. QED
  BY <1>1, <1>5 DEF InOrder, t

LEMMA BeginKeepsWalk ==
  ASSUME EdgesInv, NEW r \in Relation, NEW root \in Handle, BeginDespawnRecursive(r, root)
  PROVE  WalkInv'
<1> DEFINE w == [phase |-> "collect", relation |-> r, root |-> root, stack |-> <<root>>,
                 visited |-> {}, toDespawn |-> <<>>]
<1>1. walk' = w /\ edges' = edges
  BY DEF BeginDespawnRecursive
<1>2. /\ <<root>> \in Seq(Handle) /\ Elements(<<root>>) = {root}
      /\ Elements(<<>>) = {} /\ <<>> \in Seq(Handle) /\ DOMAIN <<>> = {}
  BY EmptyLists DEF Elements
<1>3. Subtree(r, root)' = Subtree(r, root) /\ root \in Subtree(r, root)
  <2>1. Subtree(r, root)' = Subtree(r, root)
    BY <1>1 DEF Subtree
  <2>2. root \in Subtree(r, root)
    BY SubtreeMeaning
  <2>3. QED
    BY <2>1, <2>2
<1>4. /\ walk'.relation = r /\ walk'.root = root /\ walk'.stack = <<root>>
      /\ walk'.visited = {} /\ walk'.toDespawn = <<>>
  BY <1>1
<1>5. walk' = [phase |-> "collect", relation |-> walk'.relation, root |-> walk'.root,
               stack |-> walk'.stack, visited |-> walk'.visited, toDespawn |-> walk'.toDespawn]
  BY <1>1
<1> HIDE DEF w
<1>6. Collecting'
  BY <1>2, <1>3, <1>4, <1>5 DEF Collecting
<1>7. InOrder(walk'.toDespawn)
  BY <1>2, <1>4 DEF InOrder
<1>8. QED
  BY <1>2, <1>4, <1>6, <1>7 DEF WalkInv

LEMMA CollectKeepsWalk ==
  ASSUME EdgesInv, WalkInv, Collect
  PROVE  WalkInv'
<1> DEFINE r == walk.relation
           root == walk.root
           stack == walk.stack
           list == walk.toDespawn
           e == Top(stack)
           rest == Pop(stack)
           found == Elements(list)
           held == found \cup Elements(stack)
           below == Subtree(r, root)
<1>1. walk.phase = "collect" /\ stack # <<>> /\ UNCHANGED <<alive, generation, edges>>
  BY DEF Collect
<1>2. /\ r \in Relation /\ root \in Handle /\ list \in Seq(Handle) /\ InOrder(list)
      /\ Collecting
  BY <1>1 DEF WalkInv, Idle, Despawning
<1>3. /\ stack \in Seq(Handle)
      /\ walk.visited = {x.index : x \in found}
      /\ held \subseteq below
      /\ root \in held
      /\ \A p \in edges[r].pairs : p[2] \in found => p[1] \in held
  BY <1>2 DEF Collecting
<1>4. walk = [phase |-> "collect", relation |-> r, root |-> root,
              stack |-> stack, visited |-> walk.visited, toDespawn |-> list]
  BY <1>2 DEF Collecting
<1>5. e \in Handle /\ rest \in Seq(Handle) /\ Elements(stack) = Elements(rest) \cup {e}
  BY <1>1, <1>3, PopTop
<1>6. CASE e.index \in walk.visited /\ SkipVisited
  <2>1. PICK x \in found : x.index = e.index
    BY <1>3, <1>6
  <2>2. e \in found
    <3>1. x \in below /\ e \in below
      BY <1>3, <1>5
    <3>2. QED
      BY <1>2, <2>1, <3>1, SubtreeIndices
  <2>3. walk' = [walk EXCEPT !.stack = rest]
    BY <1>6 DEF SkipVisited
  <2>4. /\ walk'.relation = r /\ walk'.root = root /\ walk'.stack = rest
        /\ walk'.visited = walk.visited /\ walk'.toDespawn = list
        /\ walk' = [phase |-> "collect", relation |-> walk'.relation, root |-> walk'.root,
                    stack |-> walk'.stack, visited |-> walk'.visited, toDespawn |-> walk'.toDespawn]
    <3> HIDE DEF r, root, stack, list, rest
    <3>1. QED
      BY <1>4, <2>3
  <2>5. found \cup Elements(rest) = held
    BY <1>5, <2>2
  <2>6. Subtree(walk.relation, walk.root)' = below
    BY <1>1, <2>4 DEF Subtree
  <2> HIDE DEF r, root, stack, list, e, rest, found, below, held
  <2>7. Elements(walk'.toDespawn) = found /\ Elements(walk'.stack) = Elements(rest)
    BY <2>4 DEF found
  <2>8. Collecting'
    BY <1>1, <1>3, <1>5, <2>4, <2>5, <2>6, <2>7 DEF Collecting
  <2>9. QED
    BY <1>2, <2>4, <2>8 DEF WalkInv
<1>7. CASE e.index \notin walk.visited /\ VisitNew(e)
  <2> DEFINE sources == Children(r, e)
  <2>1. sources \in Seq(Handle) /\ \A x : x \in Elements(sources) <=> <<x, e>> \in edges[r].pairs
    BY <1>2, ChildrenMeaning
  <2>2. walk' = [walk EXCEPT !.visited = @ \cup {e.index}, !.toDespawn = Append(@, e),
                             !.stack = rest \o sources]
    BY <1>7 DEF VisitNew
  <2>3. /\ walk'.relation = r /\ walk'.root = root /\ walk'.stack = rest \o sources
        /\ walk'.visited = walk.visited \cup {e.index} /\ walk'.toDespawn = Append(list, e)
        /\ walk' = [phase |-> "collect", relation |-> walk'.relation, root |-> walk'.root,
                    stack |-> walk'.stack, visited |-> walk'.visited, toDespawn |-> walk'.toDespawn]
    <3> HIDE DEF r, root, stack, list, rest, e, sources
    <3> DEFINE marked == walk.visited \cup {e.index}
               longer == Append(list, e)
               deeper == rest \o sources
    <3>1. walk' = [[[walk EXCEPT !.visited = marked] EXCEPT !.toDespawn = longer] EXCEPT !.stack = deeper]
      BY <2>2 DEF list
    <3> HIDE DEF marked, longer, deeper
    <3> DEFINE w1 == [walk EXCEPT !.visited = marked]
               w2 == [w1 EXCEPT !.toDespawn = longer]
    <3>2. w1 = [phase |-> "collect", relation |-> r, root |-> root,
                stack |-> stack, visited |-> marked, toDespawn |-> list]
      BY <1>4
    <3> HIDE DEF w1
    <3>3. w2 = [phase |-> "collect", relation |-> r, root |-> root,
                stack |-> stack, visited |-> marked, toDespawn |-> longer]
      BY <3>2
    <3>4. walk' = [w2 EXCEPT !.stack = deeper]
      BY <3>1 DEF w1
    <3> HIDE DEF w2
    <3>5. walk' = [phase |-> "collect", relation |-> r, root |-> root,
                   stack |-> deeper, visited |-> marked, toDespawn |-> longer]
      BY <3>3, <3>4
    <3>6. QED
      BY <3>5 DEF marked, longer, deeper
  <2>4. Append(list, e) \in Seq(Handle) /\ Elements(Append(list, e)) = found \cup {e}
    BY <1>2, <1>5, AppendDistinct
  <2>5. InOrder(Append(list, e))
    BY <1>2, <1>3, <1>5, <1>7, InOrderGrows
  <2>6. rest \o sources \in Seq(Handle)
        /\ Elements(rest \o sources) = Elements(rest) \cup Elements(sources)
    <3> HIDE DEF rest, sources
    <3>1. QED
      BY <1>5, <2>1, ConcatElements
  <2>7. Subtree(walk.relation, walk.root)' = below
    BY <1>1, <2>3 DEF Subtree
  <2>8. \A p \in edges[r].pairs : p = <<p[1], p[2]>>
    BY <1>2 DEF EdgesInv, Agreeing
  <2>9. e \in below /\ Elements(sources) \subseteq below
    <3>1. e \in below /\ ClosedBelow(r, below)
      BY <1>3, <1>5, SubtreeMeaning
    <3>2. ASSUME NEW x \in Elements(sources) PROVE x \in below
      <4>1. <<x, e>> \in edges[r].pairs
        BY <2>1
      <4> HIDE DEF below
      <4>2. QED
        BY <3>1, <4>1 DEF ClosedBelow
    <3>3. QED
      BY <3>1, <3>2
  <2> DEFINE new == (found \cup {e}) \cup (Elements(rest) \cup Elements(sources))
  <2>10. new = held \cup Elements(sources)
    BY <1>5
  <2>11. ASSUME NEW p \in edges[r].pairs, p[2] \in found \cup {e} PROVE p[1] \in new
    <3>1. CASE p[2] \in found
      BY <1>3, <2>10, <3>1
    <3>2. CASE p[2] = e
      BY <2>1, <2>8, <2>10, <3>2
    <3>3. QED
      BY <2>11, <3>1, <3>2
  <2> HIDE DEF r, root, stack, list, e, rest, found, below, held, sources
  <2>12. /\ Elements(walk'.toDespawn) = found \cup {e}
         /\ Elements(walk'.stack) = Elements(rest) \cup Elements(sources)
         /\ walk'.stack \in Seq(Handle)
    BY <2>3, <2>4, <2>6
  <2>13. walk'.visited = {x.index : x \in found \cup {e}}
    BY <1>3, <2>3
  <2>14. new \subseteq below /\ root \in new
    BY <1>3, <2>9, <2>10
  <2>15. edges'[walk'.relation].pairs = edges[r].pairs
    BY <1>1, <2>3
  <2> HIDE DEF new
  <2>16. Elements(walk'.toDespawn) \cup Elements(walk'.stack) = new
    BY <2>12 DEF new
  <2>17. Collecting'
    BY <2>3, <2>7, <2>11, <2>12, <2>13, <2>14, <2>15, <2>16 DEF Collecting
  <2>18. QED
    BY <1>2, <2>3, <2>4, <2>5, <2>17 DEF WalkInv
<1>8. QED
  BY <1>6, <1>7 DEF Collect

(* What a finished collection has found: everything below the root, once.  *)
LEMMA CollectedSubtree ==
  ASSUME EdgesInv, WalkInv, walk.phase = "collect", walk.stack = <<>>
  PROVE  Elements(walk.toDespawn) = Subtree(walk.relation, walk.root)
<1> DEFINE found == Elements(walk.toDespawn)
           below == Subtree(walk.relation, walk.root)
<1>1. /\ walk.relation \in Relation /\ walk.root \in Handle
      /\ Collecting
  BY DEF WalkInv, Idle, Despawning
<1>2. Elements(walk.stack) = {}
  BY EmptyLists
<1>3. /\ found \subseteq below
      /\ walk.root \in found
      /\ ClosedBelow(walk.relation, found)
  BY <1>1, <1>2 DEF Collecting, ClosedBelow
<1>4. below \subseteq Handles(walk.relation, walk.root)
  BY SubtreeMeaning
<1> HIDE DEF found, below
<1>5. below \subseteq found
  BY <1>3, <1>4, SubtreeMeaning DEF below
<1>6. QED
  BY <1>3, <1>5 DEF found, below

LEMMA DistinctCount ==
  ASSUME NEW s \in Seq(Handle), InOrder(s)
  PROVE  Len(s) = Cardinality(Elements(s))
<1> DEFINE n == Len(s)
           T == 1 .. n
           E == Elements(s)
<1>1. n \in Nat /\ DOMAIN s = T /\ E = {s[k] : k \in T}
  BY DEF Elements
<1>2. \A j, k \in T : s[j] = s[k] => j = k
  BY <1>1 DEF InOrder
<1>3. IsFiniteSet(T) /\ Cardinality(T) = n
  <2>1. 1 \in Int /\ n \in Int /\ (IF 1 > n THEN 0 ELSE n - 1 + 1) = n
    BY <1>1
  <2> HIDE DEF n
  <2>2. QED
    BY <2>1, FS_Interval
<1> HIDE DEF T, E
<1>4. s \in [T -> E]
  BY <1>1
<1>5. s \in Injection(T, E)
  BY <1>2, <1>4 DEF Injection, IsInjective
<1>6. s \in Surjection(T, E)
  BY <1>1, <1>4 DEF Surjection
<1>7. IsFiniteSet(E) /\ (Cardinality(E) = Cardinality(T) <=> s \in Injection(T, E))
  BY <1>3, <1>6, FS_Surjection
<1>8. QED
  BY <1>3, <1>5, <1>7 DEF E

LEMMA BeginDespawningKeepsWalk ==
  ASSUME EdgesInv, WalkInv, BeginDespawning
  PROVE  WalkInv'
<1> DEFINE list == walk.toDespawn
           n == Len(list)
<1>1. /\ walk.phase = "collect" /\ walk.stack = <<>>
      /\ walk' = [phase |-> "despawn", relation |-> walk.relation, root |-> walk.root,
                  toDespawn |-> list, next |-> 1, count |-> 0]
      /\ UNCHANGED <<alive, generation, edges>>
  BY DEF BeginDespawning
<1>2. /\ walk.relation \in Relation /\ walk.root \in Handle /\ list \in Seq(Handle)
      /\ InOrder(list)
  BY <1>1 DEF WalkInv, Idle
<1>3. n \in Nat /\ \A k \in 1 .. n : list[k] \in Subtree(walk.relation, walk.root)
  <2>1. \A k \in 1 .. n : list[k] \in Elements(list)
    BY <1>2 DEF Elements
  <2>2. QED
    BY <1>1, <1>2, <2>1, CollectedSubtree
<1>4. \/ \A k \in 1 .. n : IsAlive(list[k])
      \/ \A k \in 1 .. n : ~IsAlive(list[k])
  <2>1. CASE IsAlive(walk.root)
    BY <1>2, <1>3, <2>1, SubtreeLife
  <2>2. CASE ~IsAlive(walk.root)
    <3>1. Subtree(walk.relation, walk.root) = {walk.root}
      BY <1>2, <2>2, SubtreeLife
    <3>2. QED
      BY <1>3, <2>2, <3>1
  <2>3. QED
    BY <2>1, <2>2
<1>5. \A x : IsAlive(x)' <=> IsAlive(x)
  BY <1>1 DEF IsAlive
<1>6. /\ walk'.relation = walk.relation /\ walk'.root = walk.root /\ walk'.toDespawn = list
      /\ walk'.next = 1 /\ walk'.count = 0
      /\ walk' = [phase |-> "despawn", relation |-> walk'.relation, root |-> walk'.root,
                  toDespawn |-> walk'.toDespawn, next |-> walk'.next, count |-> walk'.count]
  BY <1>1
<1> HIDE DEF list
<1>7. 1 \in 1 .. n + 1 /\ 0 = 1 - 1 /\ \A k \in 1 .. n : ~(k < 1) /\ k >= 1
  BY <1>3
<1>8. Len(walk'.toDespawn) = n
  BY <1>6
<1> HIDE DEF n
<1>9. Despawning'
  BY <1>4, <1>5, <1>6, <1>7, <1>8 DEF Despawning
<1>10. QED
  BY <1>2, <1>6, <1>9 DEF WalkInv

(* One entity of the list after the other: those despawned are dead and    *)
(* counted, those still to come are as alive as they were.                 *)
LEMMA DespawnNextKeeps ==
  ASSUME EdgesInv, WalkInv, DespawnNext
  PROVE  EdgesInv' /\ WalkInv'
<1>0. PICK list, next, count :
        list = walk.toDespawn /\ next = walk.next /\ count = walk.count
  OBVIOUS
<1> DEFINE n == Len(list)
           e == list[next]
<1>1. walk.phase = "despawn" /\ next <= n
  BY <1>0 DEF DespawnNext
<1>2. /\ walk.relation \in Relation /\ walk.root \in Handle /\ list \in Seq(Handle)
      /\ InOrder(list)
      /\ Despawning
  BY <1>0, <1>1 DEF WalkInv, Idle, Collecting
<1>3. /\ next \in 1 .. n + 1
      /\ \A k \in 1 .. n : k < next => ~IsAlive(list[k])
      /\ \/ /\ count = next - 1
            /\ \A k \in 1 .. n : k >= next => IsAlive(list[k])
         \/ /\ count = 0
            /\ \A k \in 1 .. n : ~IsAlive(list[k])
  BY <1>0, <1>2 DEF Despawning
<1>4. walk = [phase |-> "despawn", relation |-> walk.relation, root |-> walk.root,
              toDespawn |-> list, next |-> next, count |-> count]
  BY <1>0, <1>2 DEF Despawning
<1>5. n \in Nat /\ next \in 1 .. n /\ \A k \in 1 .. n : list[k] \in Handle
  BY <1>1, <1>2, <1>3
<1>6. \A k \in 1 .. n : list[k] = e => k = next
  BY <1>2, <1>5 DEF InOrder
<1>7. CASE Despawned(e) /\ walk' = [walk EXCEPT !.next = @ + 1, !.count = @ + 1]
  <2>1. EdgesInv' /\ IsAlive(e) /\ \A x \in Handle : IsAlive(x)' <=> IsAlive(x) /\ x # e
    BY <1>5, <1>7, DespawnedKeeps
  <2>2. count = next - 1 /\ \A k \in 1 .. n : k >= next => IsAlive(list[k])
    BY <1>3, <1>5, <2>1
  <2>3. walk' = [phase |-> "despawn", relation |-> walk.relation, root |-> walk.root,
                 toDespawn |-> list, next |-> next + 1, count |-> count + 1]
    <3> DEFINE w1 == [walk EXCEPT !.next = next + 1]
    <3>1. walk' = [w1 EXCEPT !.count = count + 1]
      BY <1>0, <1>4, <1>7
    <3>2. w1 = [phase |-> "despawn", relation |-> walk.relation, root |-> walk.root,
                toDespawn |-> list, next |-> next + 1, count |-> count]
      BY <1>4
    <3> HIDE DEF w1
    <3>3. QED
      BY <3>1, <3>2
  <2> HIDE DEF e
  <2>4. /\ walk'.relation = walk.relation /\ walk'.root = walk.root /\ walk'.toDespawn = list
        /\ walk'.next = next + 1 /\ walk'.count = count + 1
        /\ walk' = [phase |-> "despawn", relation |-> walk'.relation, root |-> walk'.root,
                    toDespawn |-> walk'.toDespawn, next |-> walk'.next, count |-> walk'.count]
    BY <2>3
  <2>5. \A k \in 1 .. n : k < next + 1 => ~IsAlive(list[k])'
    <3>1. ASSUME NEW k \in 1 .. n, k < next + 1 PROVE ~IsAlive(list[k])'
      <4>1. k < next \/ k = next
        BY <1>5, <3>1
      <4>2. CASE k < next
        BY <1>3, <1>5, <2>1, <4>2
      <4>3. CASE k = next
        BY <1>5, <2>1, <4>3 DEF e
      <4>4. QED
        BY <4>1, <4>2, <4>3
    <3>2. QED
      BY <3>1
  <2>6. \A k \in 1 .. n : k >= next + 1 => IsAlive(list[k])'
    <3>1. ASSUME NEW k \in 1 .. n, k >= next + 1 PROVE IsAlive(list[k])'
      <4>1. k >= next /\ k # next
        BY <1>5, <3>1
      <4>2. QED
        BY <1>5, <1>6, <2>1, <2>2, <4>1
    <3>2. QED
      BY <3>1
  <2>7. next + 1 \in 1 .. n + 1 /\ count + 1 = (next + 1) - 1
    BY <1>5, <2>2
  <2>8. Len(walk'.toDespawn) = n
    BY <2>4
  <2> HIDE DEF n
  <2>9. Despawning'
    BY <2>4, <2>5, <2>6, <2>7, <2>8 DEF Despawning
  <2>10. QED
    BY <1>2, <2>1, <2>4, <2>9 DEF WalkInv
<1>8. CASE /\ ~IsAlive(e)
           /\ walk' = [walk EXCEPT !.next = @ + 1]
           /\ UNCHANGED <<alive, generation, edges>>
  <2>1. EdgesInv' /\ \A x : IsAlive(x)' <=> IsAlive(x)
    BY <1>8, EdgesUntouched
  <2>2. count = 0 /\ \A k \in 1 .. n : ~IsAlive(list[k])
    <3>1. next >= next
      BY <1>5
    <3>2. QED
      BY <1>3, <1>5, <1>8, <3>1
  <2>3. walk' = [phase |-> "despawn", relation |-> walk.relation, root |-> walk.root,
                 toDespawn |-> list, next |-> next + 1, count |-> count]
    <3>1. walk' = [walk EXCEPT !.next = next + 1]
      BY <1>0, <1>8
    <3>2. QED
      BY <1>4, <3>1
  <2> HIDE DEF e
  <2>4. /\ walk'.relation = walk.relation /\ walk'.root = walk.root /\ walk'.toDespawn = list
        /\ walk'.next = next + 1 /\ walk'.count = count
        /\ walk' = [phase |-> "despawn", relation |-> walk'.relation, root |-> walk'.root,
                    toDespawn |-> walk'.toDespawn, next |-> walk'.next, count |-> walk'.count]
    BY <2>3
  <2>5. next + 1 \in 1 .. n + 1
    BY <1>5
  <2>6. Len(walk'.toDespawn) = n
    BY <2>4
  <2> HIDE DEF n
  <2>7. Despawning'
    BY <2>1, <2>2, <2>4, <2>5, <2>6 DEF Despawning
  <2>8. QED
    BY <1>2, <2>1, <2>4, <2>7 DEF WalkInv
<1>9. QED
  BY <1>0, <1>7, <1>8 DEF DespawnNext
-----------------------------------------------------------------------------
(* The inductive invariant.                                                *)

LEMMA NextKeeps ==
  ASSUME InvAll, [Next]_vars
  PROVE  InvAll'
<1>1. EdgesInv /\ WalkInv
  BY DEF InvAll
<1>2. ASSUME walk' = Idle, EdgesInv' PROVE InvAll'
  BY <1>2 DEF InvAll, WalkInv
<1>3. ASSUME NEW i \in Index, Spawn(i) PROVE InvAll'
  BY <1>1, <1>2, <1>3, SpawnKeeps DEF Spawn
<1>4. ASSUME NEW e \in Handle, Despawn(e) PROVE InvAll'
  <2>1. Despawned(e) /\ walk' = Idle
    BY <1>4 DEF Despawn
  <2>2. QED
    BY <1>1, <1>2, <2>1, DespawnedKeeps
<1>5. ASSUME NEW r \in Relation, NEW source \in Handle, NEW target \in Handle,
             AddRelation(r, source, target)
      PROVE  InvAll'
  BY <1>1, <1>2, <1>5, AddKeeps DEF AddRelation
<1>6. ASSUME NEW r \in Relation, NEW source \in Handle, NEW target \in Handle,
             RemoveRelation(r, source, target)
      PROVE  InvAll'
  BY <1>1, <1>2, <1>6, RemoveKeeps DEF RemoveRelation
<1>7. ASSUME NEW r \in Relation, NEW root \in Handle, BeginDespawnRecursive(r, root)
      PROVE  InvAll'
  <2>1. EdgesInv'
    BY <1>1, <1>7, EdgesUntouched DEF BeginDespawnRecursive
  <2>2. QED
    BY <1>1, <1>7, <2>1, BeginKeepsWalk DEF InvAll
<1>8. CASE Collect
  <2>1. EdgesInv'
    BY <1>1, <1>8, EdgesUntouched DEF Collect
  <2>2. QED
    BY <1>1, <1>8, <2>1, CollectKeepsWalk DEF InvAll
<1>9. CASE BeginDespawning
  <2>1. EdgesInv'
    BY <1>1, <1>9, EdgesUntouched DEF BeginDespawning
  <2>2. QED
    BY <1>1, <1>9, <2>1, BeginDespawningKeepsWalk DEF InvAll
<1>10. CASE DespawnNext
  BY <1>1, <1>10, DespawnNextKeeps DEF InvAll
<1>11. CASE EndDespawnRecursive
  <2>1. EdgesInv'
    BY <1>1, <1>11, EdgesUntouched DEF EndDespawnRecursive
  <2>2. QED
    BY <1>2, <1>11, <2>1 DEF EndDespawnRecursive
<1>12. CASE UNCHANGED vars
  <2>1. EdgesInv' /\ \A x : IsAlive(x)' <=> IsAlive(x)
    BY <1>1, <1>12, EdgesUntouched DEF vars
  <2>2. walk' = walk /\ edges' = edges
    BY <1>12 DEF vars
  <2>3. \A r, x : Subtree(r, x)' = Subtree(r, x)
    BY <2>2 DEF Subtree
  <2>4. Collecting' <=> Collecting
    BY <2>2, <2>3 DEF Collecting
  <2>5. Despawning' <=> Despawning
    BY <2>1, <2>2 DEF Despawning
  <2>6. WalkInv'
    BY <1>1, <2>2, <2>4, <2>5 DEF WalkInv
  <2>7. QED
    BY <2>1, <2>6 DEF InvAll
<1>13. QED
  BY <1>3, <1>4, <1>5, <1>6, <1>7, <1>8, <1>9, <1>10, <1>11, <1>12 DEF Next, WalkStep

LEMMA InitKeeps == Init => InvAll
<1> SUFFICES ASSUME Init PROVE InvAll
  OBVIOUS
<1>1. Agreeing(NoEdges)
  <2>1. /\ NoEdges.pairs = {}
        /\ DOMAIN NoEdges.forward = {} /\ DOMAIN NoEdges.reverse = {}
    BY DEF NoEdges
  <2>2. QED
    BY <2>1 DEF Agreeing, ListMap, Lists
<1>2. \A r \in Relation : edges[r] = NoEdges
  BY DEF Init
<1>3. EdgesLive
  BY <1>2 DEF EdgesLive, NoEdges
<1>4. AllocatorType /\ edges = [r \in Relation |-> edges[r]]
  BY DEF Init, AllocatorType
<1>5. QED
  BY <1>1, <1>2, <1>3, <1>4 DEF InvAll, EdgesInv, WalkInv, Init

LEMMA RelationsInvariant == Spec => []InvAll
<1>1. InvAll /\ [Next]_vars => InvAll'
  BY NextKeeps
<1>2. QED
  BY <1>1, InitKeeps, PTL DEF Spec
-----------------------------------------------------------------------------
(* The theorems.                                                           *)

LEMMA AgreeingIndices == InvAll => IndicesAgree
<1> SUFFICES ASSUME InvAll, NEW r \in Relation
             PROVE  LET rel == edges[r]
                        OnceEach(map) == \A e \in DOMAIN map :
                          /\ map[e] # <<>>
                          /\ \A j, k \in DOMAIN map[e] : map[e][j] = map[e][k] => j = k
                    IN  /\ OnceEach(rel.forward)
                        /\ OnceEach(rel.reverse)
                        /\ rel.pairs = UNION {{<<e, t>> : t \in Elements(rel.forward[e])} :
                                                e \in DOMAIN rel.forward}
                        /\ rel.pairs = UNION {{<<s, e>> : s \in Elements(rel.reverse[e])} :
                                                e \in DOMAIN rel.reverse}
  BY DEF IndicesAgree
<1> DEFINE P == edges[r].pairs
           F == edges[r].forward
           R == edges[r].reverse
<1>1. /\ P \subseteq Handle \X Handle
      /\ ListMap(F) /\ ListMap(R)
      /\ \A e, x : <<e, x>> \in P <=> Lists(F, e, x)
      /\ \A e, x : <<x, e>> \in P <=> Lists(R, e, x)
  BY DEF InvAll, EdgesInv, Agreeing
<1>2. \A p \in P : p = <<p[1], p[2]>>
  BY <1>1
<1> HIDE DEF P, F, R
<1>3. P = UNION {{<<e, t>> : t \in Elements(F[e])} : e \in DOMAIN F}
  <2>1. ASSUME NEW p \in P PROVE \E e \in DOMAIN F : \E t \in Elements(F[e]) : p = <<e, t>>
    <3>1. Lists(F, p[1], p[2])
      BY <1>1, <1>2
    <3>2. QED
      BY <1>2, <3>1 DEF Lists
  <2>2. \A e \in DOMAIN F : \A t \in Elements(F[e]) : <<e, t>> \in P
    BY <1>1 DEF Lists
  <2>3. QED
    BY <2>1, <2>2
<1>4. P = UNION {{<<s, e>> : s \in Elements(R[e])} : e \in DOMAIN R}
  <2>1. ASSUME NEW p \in P PROVE \E e \in DOMAIN R : \E s \in Elements(R[e]) : p = <<s, e>>
    <3>1. Lists(R, p[2], p[1])
      BY <1>1, <1>2
    <3>2. QED
      BY <1>2, <3>1 DEF Lists
  <2>2. \A e \in DOMAIN R : \A s \in Elements(R[e]) : <<s, e>> \in P
    BY <1>1 DEF Lists
  <2>3. QED
    BY <2>1, <2>2
<1>5. \A map : ListMap(map) =>
        \A e \in DOMAIN map : /\ map[e] # <<>>
                              /\ \A j, k \in DOMAIN map[e] : map[e][j] = map[e][k] => j = k
  BY DEF ListMap, Distinct
<1>6. QED
  BY <1>1, <1>3, <1>4, <1>5 DEF P, F, R

LEMMA CollectsSubtree == InvAll => SubtreeCollected
<1> SUFFICES ASSUME InvAll, walk.phase = "collect", walk.stack = <<>>
             PROVE  /\ Elements(walk.toDespawn) = Subtree(walk.relation, walk.root)
                    /\ Len(walk.toDespawn) = Cardinality(Elements(walk.toDespawn))
  BY DEF SubtreeCollected
<1>1. walk.toDespawn \in Seq(Handle) /\ InOrder(walk.toDespawn)
  BY DEF InvAll, WalkInv, Idle
<1>2. QED
  BY <1>1, CollectedSubtree, DistinctCount DEF InvAll

LEMMA DespawnsList == InvAll => DespawnsAll
<1> SUFFICES ASSUME InvAll, walk.phase = "despawn", walk.next > Len(walk.toDespawn)
             PROVE  /\ \A k \in DOMAIN walk.toDespawn : ~IsAlive(walk.toDespawn[k])
                    /\ walk.count \in {0, Len(walk.toDespawn)}
  BY DEF DespawnsAll
<1> DEFINE n == Len(walk.toDespawn)
<1>1. walk.toDespawn \in Seq(Handle) /\ Despawning
  BY DEF InvAll, WalkInv, Idle, Collecting
<1>2. n \in Nat /\ DOMAIN walk.toDespawn = 1 .. n
  BY <1>1
<1>3. walk.next \in 1 .. n + 1
  BY <1>1 DEF Despawning
<1>4. walk.next = n + 1 /\ \A k \in 1 .. n : k < walk.next
  BY <1>2, <1>3
<1>5. \A k \in 1 .. n : ~IsAlive(walk.toDespawn[k])
  BY <1>1, <1>4 DEF Despawning
<1>6. walk.count = walk.next - 1 \/ walk.count = 0
  BY <1>1 DEF Despawning
<1>7. QED
  BY <1>2, <1>4, <1>5, <1>6

-----------------------------------------------------------------------------
(* Walks up.                                                               *)

(* One turn of the loop: to the first target of the last entity, unless it *)
(* has none or the target is marked.                                       *)
Stays(r, s) ==
  \/ Listed(edges[r].forward, Top(s)) = <<>>
  \/ Parent(r, Top(s)).index \in Marked(s)

Climbed(r, s) == IF Stays(r, s) THEN s ELSE Append(s, Parent(r, Top(s)))

Climb(r, e, f, n) == f = [t \in 0 .. n |-> IF t = 0 THEN <<e>> ELSE Climbed(r, f[t - 1])]

Climbs(r, e, f, n) == \A t \in 0 .. n : f[t] = IF t = 0 THEN <<e>> ELSE Climbed(r, f[t - 1])

(* A path up from e: each entity is the first target of the one before it. *)
IsPath(r, e, s) ==
  /\ s \in Seq(Handle) /\ s # <<>> /\ s[1] = e
  /\ InOrder(s)
  /\ \A k \in 1 .. Len(s) : k # 1 => /\ Listed(edges[r].forward, s[k - 1]) # <<>>
                                     /\ s[k] = Parent(r, s[k - 1])

(* There is a function that the recursion of UpwardPath defines.           *)
LEMMA ClimbExists ==
  ASSUME NEW r, NEW e, NEW m \in Nat
  PROVE  \E f : Climb(r, e, f, m)
<1> DEFINE Is(f, n) == Climb(r, e, f, n)
           Good == {n \in 0 .. m : \E f : Is(f, n)}
<1>1. 0 \in Good
  <2>1. Is([t \in 0 .. 0 |-> <<e>>], 0)
    BY DEF Climb
  <2> HIDE DEF Is
  <2>2. QED
    BY <2>1
<1> HIDE DEF Is
<1>2. PICK n \in Good : \A k \in Good : k <= n
  <2>1. Good \in SUBSET (0 .. m) /\ Good # {}
    BY <1>1
  <2> HIDE DEF Good
  <2>2. QED
    BY <2>1, GreatestIndex
<1>3. n \in Nat /\ n <= m
  OBVIOUS
<1>4. PICK f : Is(f, n)
  OBVIOUS
<1>5. ASSUME n < m PROVE FALSE
  <2>1. PICK p : p = n + 1
    OBVIOUS
  <2>2. p \in 0 .. m /\ p # 0 /\ p - 1 = n /\ ~ (p <= n) /\ n \in 0 .. n
    BY <1>3, <1>5, <2>1
  <2>3. \A t \in 0 .. p : t # p => t \in 0 .. n
    BY <1>3, <2>1
  <2>4. \A t \in 0 .. p : t # 0 => t - 1 \in 0 .. p /\ t - 1 # p /\ t - 1 \in 0 .. n
    BY <1>3, <2>1
  <2>5. PICK g : g = [t \in 0 .. p |-> IF t = p THEN Climbed(r, f[n]) ELSE f[t]]
    OBVIOUS
  <2>6. ASSUME NEW t \in 0 .. p PROVE g[t] = IF t = 0 THEN <<e>> ELSE Climbed(r, g[t - 1])
    <3>1. t # 0 => g[t - 1] = f[t - 1]
      BY <2>4, <2>5
    <3>2. CASE t = p
      BY <2>2, <2>5, <3>1, <3>2
    <3>3. CASE t # p
      <4>1. t \in 0 .. n /\ g[t] = f[t]
        BY <2>3, <2>5, <3>3
      <4>2. f[t] = IF t = 0 THEN <<e>> ELSE Climbed(r, f[t - 1])
        BY <1>4, <4>1 DEF Is, Climb
      <4>3. QED
        BY <3>1, <4>1, <4>2
    <3>4. QED
      BY <3>2, <3>3
  <2>7. Is(g, p)
    BY <2>5, <2>6 DEF Is, Climb
  <2>8. p \in Good
    BY <2>2, <2>7
  <2>9. QED
    BY <1>2, <2>2, <2>8
<1>6. n = m
  BY <1>3, <1>5
<1>7. QED
  BY <1>4, <1>6 DEF Is

LEMMA UpwardPathMeaning ==
  ASSUME NEW r, NEW e, NEW n, n = Cardinality(Index) + 1, n \in Nat
  PROVE  \E f : Climbs(r, e, f, n) /\ UpwardPath(r, e) = f[n]
<1>1. PICK f : Climb(r, e, f, n)
  BY ClimbExists
<1>2. PICK g : /\ g = [t \in 0 .. n |-> IF t = 0 THEN <<e>> ELSE Climbed(r, g[t - 1])]
               /\ UpwardPath(r, e) = g[n]
  <2>1. UpwardPath(r, e) = (CHOOSE g : g = [t \in 0 .. n |->
                              IF t = 0 THEN <<e>> ELSE Climbed(r, g[t - 1])])[n]
    BY DEF UpwardPath, Climbed, Stays
  <2>2. QED
    BY <1>1, <2>1 DEF Climb
<1>3. \A t \in 0 .. n : g[t] = IF t = 0 THEN <<e>> ELSE Climbed(r, g[t - 1])
  BY <1>2
<1>4. QED
  BY <1>2, <1>3 DEF Climbs

(* What a first target is: a live entity, at the end of an edge.           *)
LEMMA ParentLives ==
  ASSUME EdgesInv, NEW r \in Relation, NEW x, Listed(edges[r].forward, x) # <<>>
  PROVE  /\ x \in Handle /\ IsAlive(x)
         /\ Parent(r, x) \in Handle /\ IsAlive(Parent(r, x))
         /\ Parent(r, x) \in {p[2] : p \in edges[r].pairs}
<1> DEFINE F == edges[r].forward
<1>1. Agreeing(edges[r]) /\ EdgesLive
  BY DEF EdgesInv
<1>2. ListMap(F)
  BY <1>1 DEF Agreeing
<1>3. x \in DOMAIN F /\ Listed(F, x) = F[x]
  BY DEF Listed
<1>4. F[x] \in Seq(Handle) /\ F[x] # <<>>
  BY <1>2, <1>3 DEF ListMap
<1>5. Parent(r, x) = F[x][1] /\ 1 \in DOMAIN F[x]
  BY <1>3, <1>4 DEF Parent
<1>6. Lists(F, x, Parent(r, x))
  BY <1>3, <1>5 DEF Lists, Elements
<1>7. <<x, Parent(r, x)>> \in edges[r].pairs
  BY <1>1, <1>6 DEF Agreeing
<1>8. IsAlive(x) /\ IsAlive(Parent(r, x))
  BY <1>1, <1>7 DEF EdgesLive
<1>9. x \in Handle /\ Parent(r, x) \in Handle
  BY <1>1, <1>7 DEF Agreeing
<1>10. QED
  BY <1>7, <1>8, <1>9

(* A turn of the loop leaves a path, one longer unless it stays.           *)
LEMMA ClimbKeepsPath ==
  ASSUME EdgesInv, NEW r \in Relation, NEW e, NEW s, IsPath(r, e, s)
  PROVE  /\ IsPath(r, e, Climbed(r, s))
         /\ ~Stays(r, s) => Len(Climbed(r, s)) = Len(s) + 1
<1> DEFINE n == Len(s)
           x == Parent(r, Top(s))
           t == Append(s, x)
<1>1. s \in Seq(Handle) /\ s # <<>> /\ n \in Nat /\ n # 0 /\ DOMAIN s = 1 .. n
  BY DEF IsPath
<1>2. CASE Stays(r, s)
  BY <1>2 DEF Climbed
<1>3. CASE ~Stays(r, s)
  <2>1. Climbed(r, s) = t
    BY <1>3 DEF Climbed
  <2>2. Listed(edges[r].forward, Top(s)) # <<>> /\ \A k \in 1 .. n : s[k].index # x.index
    BY <1>1, <1>3 DEF Stays, Marked
  <2>3. x \in Handle /\ Top(s) = s[n]
    BY <2>2, ParentLives DEF Top
  <2> HIDE DEF x
  <2>4. /\ t \in Seq(Handle) /\ Len(t) = n + 1 /\ DOMAIN t = 1 .. n + 1
        /\ t[n + 1] = x /\ \A k \in 1 .. n : t[k] = s[k]
    BY <1>1, <2>3
  <2>5. t # <<>> /\ t[1] = e
    BY <1>1, <2>4 DEF IsPath
  <2>6. \A k \in 1 .. n + 1 : k \in 1 .. n \/ k = n + 1
    BY <1>1
  <2>7. InOrder(t)
    <3>1. \A j, k \in 1 .. n : s[j].index = s[k].index => j = k
      BY <1>1 DEF IsPath, InOrder
    <3> HIDE DEF t
    <3>2. \A j, k \in 1 .. n + 1 : t[j].index = t[k].index => j = k
      BY <2>2, <2>4, <2>6, <3>1
    <3>3. QED
      BY <2>4, <3>2 DEF InOrder
  <2>8. ASSUME NEW k \in 1 .. n + 1, k # 1
        PROVE  Listed(edges[r].forward, t[k - 1]) # <<>> /\ t[k] = Parent(r, t[k - 1])
    <3>1. k - 1 \in 1 .. n
      BY <1>1, <2>8
    <3>2. t[k - 1] = s[k - 1]
      BY <2>4, <3>1
    <3>3. CASE k \in 1 .. n
      <4>1. t[k] = s[k]
        BY <2>4, <3>3
      <4>2. QED
        BY <2>8, <3>2, <3>3, <4>1 DEF IsPath
    <3>4. CASE k = n + 1
      <4>1. k - 1 = n
        BY <1>1, <3>4
      <4>2. QED
        BY <2>2, <2>3, <2>4, <3>2, <3>4, <4>1 DEF x
    <3>5. QED
      BY <2>6, <3>3, <3>4
  <2> HIDE DEF t
  <2>9. IsPath(r, e, t)
    BY <2>4, <2>5, <2>7, <2>8 DEF IsPath
  <2>10. QED
    BY <2>1, <2>4, <2>9
<1>4. QED
  BY <1>2, <1>3

(* A path has no more entities than there are indices.                     *)
LEMMA PathLength ==
  ASSUME NEW r, NEW e, NEW s, IsPath(r, e, s)
  PROVE  Len(s) <= Cardinality(Index) /\ Cardinality(Index) \in Nat
<1>1. PICK n, D : n = Len(s) /\ D = 1 .. n
  OBVIOUS
<1>2. s \in Seq(Handle) /\ n \in Nat /\ DOMAIN s = D
  BY <1>1 DEF IsPath
<1>3. PICK f : f = [k \in D |-> s[k].index]
  OBVIOUS
<1>4. f \in [D -> Index]
  BY <1>2, <1>3, HandleFields
<1>5. \A j, k \in D : f[j] = f[k] => j = k
  BY <1>2, <1>3 DEF IsPath, InOrder
<1>6. f \in Injection(D, Index)
  BY <1>4, <1>5 DEF Injection, IsInjective
<1>7. Cardinality(D) = n
  <2>1. 1 \in Int /\ n \in Int /\ (IF 1 > n THEN 0 ELSE n - 1 + 1) = n
    BY <1>2
  <2>2. QED
    BY <1>1, <2>1, FS_Interval
<1>8. QED
  BY <1>1, <1>6, <1>7, FS_Injection, FS_CardinalityType, IndexAssumption

(* After as many turns the loop has stopped, on a path.                    *)
LEMMA UpwardPathStays ==
  ASSUME EdgesInv, NEW r \in Relation, NEW e \in Handle
  PROVE  IsPath(r, e, UpwardPath(r, e)) /\ Stays(r, UpwardPath(r, e))
<1>1. Cardinality(Index) \in Nat
  BY IndexAssumption, FS_CardinalityType
<1>2. PICK n : n = Cardinality(Index) + 1
  OBVIOUS
<1>3. PICK f : Climbs(r, e, f, n) /\ UpwardPath(r, e) = f[n]
  BY <1>1, <1>2, UpwardPathMeaning
<1> DEFINE Fine(t) == IsPath(r, e, f[t]) /\ (Stays(r, f[t]) \/ Len(f[t]) = t + 1)
           Good == {t \in 0 .. n : Fine(t)}
<1>4. 0 \in Good
  <2>1. f[0] = <<e>> /\ 0 \in 0 .. n
    BY <1>1, <1>2, <1>3 DEF Climbs
  <2>2. IsPath(r, e, <<e>>)
    <3>1. /\ <<e>> \in Seq(Handle) /\ <<e>> # <<>> /\ <<e>>[1] = e
          /\ Len(<<e>>) = 1 /\ DOMAIN <<e>> = {1} /\ 1 .. 1 = {1}
      OBVIOUS
    <3>2. QED
      BY <3>1 DEF IsPath, InOrder
  <2>3. QED
    BY <2>1, <2>2
<1>5. PICK t \in Good : \A k \in Good : k <= t
  <2>1. Good \in SUBSET (0 .. n) /\ Good # {}
    BY <1>4
  <2>2. n \in Nat
    BY <1>1, <1>2
  <2> HIDE DEF Good
  <2>3. QED
    BY <2>1, <2>2, GreatestIndex
<1>6. t \in Nat /\ t <= n /\ Fine(t)
  OBVIOUS
<1>7. ASSUME t < n PROVE FALSE
  <2>1. PICK p : p = t + 1
    OBVIOUS
  <2>2. p \in 0 .. n /\ p # 0 /\ p - 1 = t /\ ~ (p <= t)
    BY <1>1, <1>2, <1>6, <1>7, <2>1
  <2>3. f[p] = Climbed(r, f[t])
    BY <1>3, <2>2 DEF Climbs
  <2>4. IsPath(r, e, f[p]) /\ (~Stays(r, f[t]) => Len(f[p]) = Len(f[t]) + 1)
    BY <1>6, <2>3, ClimbKeepsPath
  <2>5. CASE Stays(r, f[t])
    <3>1. f[p] = f[t]
      BY <2>3, <2>5 DEF Climbed
    <3>2. Fine(p)
      BY <2>4, <2>5, <3>1
    <3>3. QED
      BY <1>5, <2>2, <3>2
  <2>6. CASE ~Stays(r, f[t])
    <3>1. Len(f[p]) = p + 1
      BY <1>6, <2>1, <2>4, <2>6
    <3>2. QED
      BY <1>5, <2>2, <2>4, <3>1
  <2>7. QED
    BY <2>5, <2>6
<1>8. t = n
  BY <1>1, <1>2, <1>6, <1>7
<1>9. Len(f[n]) # n + 1
  BY <1>1, <1>2, <1>6, <1>8, PathLength
<1>10. QED
  BY <1>3, <1>6, <1>8, <1>9

-----------------------------------------------------------------------------
(* What lies above.                                                        *)

Targets(r)  == {p[2] : p \in edges[r].pairs}
First(r, x) == IF Listed(edges[r].forward, x) = <<>> THEN {} ELSE {Parent(r, x)}

ClosedAbove(r, e, S) == First(r, e) \subseteq S /\ \A x \in S : First(r, x) \subseteq S

LeastAbove(r, e, S) ==
  ClosedAbove(r, e, S) /\ \A T \in SUBSET Targets(r) : ClosedAbove(r, e, T) => S \subseteq T

(* The first target of the last entity of a path that stays is on it.      *)
LEMMA PathCloses ==
  ASSUME EdgesInv, NEW r \in Relation, NEW e, NEW s, IsPath(r, e, s), Stays(r, s)
  PROVE  First(r, Top(s)) \subseteq Elements(s)
<1>1. SUFFICES ASSUME Listed(edges[r].forward, Top(s)) # <<>>
               PROVE  Parent(r, Top(s)) \in Elements(s)
  BY DEF First
<1>2. PICK n, x : n = Len(s) /\ x = Parent(r, Top(s))
  OBVIOUS
<1>3. s \in Seq(Handle) /\ n \in Nat /\ DOMAIN s = 1 .. n /\ Top(s) = s[n]
  BY <1>2 DEF IsPath, Top
<1>4. PICK k \in 1 .. n : s[k].index = x.index
  BY <1>1, <1>2, <1>3 DEF Stays, Marked
<1>5. IsAlive(s[k])
  <2>1. CASE k = n
    BY <1>1, <1>3, <2>1, ParentLives
  <2>2. CASE k # n
    <3>1. PICK j : j = k + 1
      OBVIOUS
    <3>2. j \in 1 .. n /\ j # 1 /\ j - 1 = k
      BY <1>3, <2>2, <3>1
    <3>3. Listed(edges[r].forward, s[k]) # <<>>
      BY <1>2, <3>2 DEF IsPath
    <3>4. QED
      BY <3>3, ParentLives
  <2>3. QED
    BY <2>1, <2>2
<1>6. s[k] \in Handle /\ x \in Handle /\ IsAlive(x)
  BY <1>1, <1>2, <1>3, ParentLives
<1>7. s[k] = x
  BY <1>4, <1>5, <1>6, SameLiveHandle
<1>8. QED
  BY <1>2, <1>3, <1>7 DEF Elements

Above(r, s) == {s[k] : k \in 2 .. Len(s)} \cup First(r, s[Len(s)])

(* What lies above e are the entities of the path after e, and e itself if *)
(* the path leads back to it.                                              *)
LEMMA PathIsLeast ==
  ASSUME EdgesInv, NEW r \in Relation, NEW e, NEW s, IsPath(r, e, s), Stays(r, s)
  PROVE  Above(r, s) \in SUBSET Targets(r) /\ LeastAbove(r, e, Above(r, s))
<1>0. PICK n, S : n = Len(s) /\ S = {s[k] : k \in 2 .. n} \cup First(r, s[n])
  OBVIOUS
<1> USE <1>0
<1>1. s \in Seq(Handle) /\ n \in Nat /\ n >= 1 /\ s[1] = e /\ Top(s) = s[n]
  BY DEF IsPath, Top
<1>2. ASSUME NEW k \in 2 .. n
      PROVE  /\ k - 1 \in 1 .. n /\ Listed(edges[r].forward, s[k - 1]) # <<>>
             /\ s[k] = Parent(r, s[k - 1]) /\ First(r, s[k - 1]) = {s[k]}
  <2>1. k \in 1 .. n /\ k # 1 /\ k - 1 \in 1 .. n
    BY <1>1
  <2>2. QED
    BY <2>1 DEF IsPath, First
<1>3. ASSUME NEW x PROVE First(r, x) \subseteq Targets(r)
  <2>1. CASE Listed(edges[r].forward, x) = <<>>
    BY <2>1 DEF First
  <2>2. CASE Listed(edges[r].forward, x) # <<>>
    BY <2>2, ParentLives DEF First, Targets
  <2>3. QED
    BY <2>1, <2>2
<1>4. S \in SUBSET Targets(r)
  <2>1. \A k \in 2 .. n : s[k] \in Targets(r)
    BY <1>2, <1>3
  <2>2. QED
    BY <1>3, <2>1
<1>5. \A k \in 1 .. n : k = n \/ (k + 1 \in 2 .. n /\ (k + 1) - 1 = k)
  BY <1>1
<1>6. \A k \in 1 .. n : First(r, s[k]) \subseteq S
  <2>1. ASSUME NEW k \in 1 .. n, k # n PROVE First(r, s[k]) \subseteq S
    <3>1. PICK j : j = k + 1
      OBVIOUS
    <3>2. j \in 2 .. n /\ j - 1 = k
      BY <1>5, <2>1, <3>1
    <3>3. First(r, s[k]) = {s[j]}
      BY <1>2, <3>2
    <3>4. QED
      BY <3>2, <3>3
  <2>2. QED
    BY <2>1
<1>7. \A x \in S : \E k \in 1 .. n : x = s[k]
  <2>1. First(r, s[n]) \subseteq Elements(s) /\ DOMAIN s = 1 .. n
    BY <1>1, PathCloses
  <2>2. \A k \in 2 .. n : k \in 1 .. n
    BY <1>1
  <2>3. QED
    BY <2>1, <2>2 DEF Elements
<1>8. ClosedAbove(r, e, S)
  <2>1. 1 \in 1 .. n
    BY <1>1
  <2>2. First(r, e) \subseteq S
    BY <1>1, <1>6, <2>1
  <2>3. QED
    BY <1>6, <1>7, <2>2 DEF ClosedAbove
<1>9. ASSUME NEW T \in SUBSET Targets(r), ClosedAbove(r, e, T) PROVE S \subseteq T
  <2> DEFINE In(k) == First(r, s[k]) \subseteq T
             Good == {k \in 0 .. n : k # 0 /\ \A j \in 1 .. k : In(j)}
  <2>1. 1 \in Good
    <3>1. 1 \in 0 .. n /\ 1 .. 1 = {1}
      BY <1>1
    <3>2. In(1)
      BY <1>1, <1>9 DEF ClosedAbove
    <3> HIDE DEF In
    <3>3. QED
      BY <3>1, <3>2
  <2>2. PICK k \in Good : \A j \in Good : j <= k
    <3>1. Good \in SUBSET (0 .. n) /\ Good # {}
      BY <2>1
    <3> HIDE DEF Good
    <3>2. QED
      BY <1>1, <3>1, GreatestIndex
  <2>3. k \in 1 .. n /\ k \in 1 .. k /\ \A j \in 1 .. k : In(j)
    BY <1>1
  <2>4. k = n
    <3>1. SUFFICES ASSUME k # n PROVE FALSE
      OBVIOUS
    <3>2. PICK j : j = k + 1
      OBVIOUS
    <3>3. j \in 2 .. n /\ j - 1 = k /\ j \in 0 .. n /\ j # 0 /\ ~ (j <= k)
      BY <1>1, <1>5, <2>3, <3>1, <3>2
    <3>4. First(r, s[k]) = {s[j]} /\ In(k)
      BY <1>2, <2>3, <3>3
    <3>5. In(j)
      BY <1>9, <3>4 DEF ClosedAbove
    <3>6. \A i \in 1 .. j : i \in 1 .. k \/ i = j
      BY <2>3, <3>2
    <3> HIDE DEF In
    <3>7. \A i \in 1 .. j : In(i)
      BY <2>3, <3>5, <3>6
    <3>8. j \in Good
      BY <3>3, <3>7
    <3> HIDE DEF Good
    <3>9. QED
      BY <2>2, <3>3, <3>8
  <2>5. \A j \in 1 .. n : In(j)
    BY <2>3, <2>4
  <2>6. \A j \in 2 .. n : s[j] \in T
    BY <1>2, <2>5
  <2>7. QED
    BY <2>3, <2>4, <2>6
<1>10. QED
  BY <1>4, <1>8, <1>9 DEF LeastAbove, Above

LEMMA WalksAreExact == EdgesInv => AncestorsExact
<1> SUFFICES ASSUME EdgesInv, NEW r \in Relation, NEW e \in Handle
             PROVE  LET Least == CHOOSE S \in SUBSET Targets(r) : LeastAbove(r, e, S)
                    IN  /\ Elements(Ancestors(r, e)) = Least \ {e}
                        /\ Depth(r, e) = Cardinality(Least \ {e})
  BY DEF AncestorsExact, Targets, First, ClosedAbove, LeastAbove
<1> DEFINE Least == CHOOSE S \in SUBSET Targets(r) : LeastAbove(r, e, S)
<1> HIDE DEF Least
<1>1. PICK s, n : s = UpwardPath(r, e) /\ n = Len(s)
  OBVIOUS
<1>2. IsPath(r, e, s) /\ Stays(r, s)
  BY <1>1, UpwardPathStays
<1>3. PICK up : up = Above(r, s)
  OBVIOUS
<1>4. up \in SUBSET Targets(r) /\ LeastAbove(r, e, up)
  BY <1>1, <1>2, <1>3, PathIsLeast
<1>5. Least = up
  <2>1. Least \in SUBSET Targets(r) /\ LeastAbove(r, e, Least)
    BY <1>4 DEF Least
  <2>2. QED
    BY <1>4, <2>1 DEF LeastAbove
<1>6. s \in Seq(Handle) /\ n \in Nat /\ n >= 1 /\ DOMAIN s = 1 .. n /\ s[1] = e /\ Top(s) = s[n]
  BY <1>1, <1>2 DEF IsPath, Top
<1>7. \A j, k \in 1 .. n : s[j].index = s[k].index => j = k
  BY <1>2, <1>6 DEF IsPath, InOrder
<1>8. PICK t : t = Ancestors(r, e)
  OBVIOUS
<1>9. /\ t \in Seq(Handle) /\ Len(t) = n - 1 /\ DOMAIN t = 1 .. n - 1
      /\ \A k \in 1 .. n - 1 : t[k] = s[k + 1]
  <2>1. t = Tail(s) /\ s # <<>>
    BY <1>1, <1>2, <1>8 DEF Ancestors, IsPath
  <2>2. QED
    BY <1>1, <1>6, <2>1
<1>10. Elements(t) = {s[k] : k \in 2 .. n}
  <2>1. \A k \in 1 .. n - 1 : k + 1 \in 2 .. n
    BY <1>6
  <2>2. \A k \in 2 .. n : k - 1 \in 1 .. n - 1 /\ (k - 1) + 1 = k
    BY <1>6
  <2>3. \A k \in 2 .. n : \E j \in 1 .. n - 1 : s[k] = t[j]
    BY <1>9, <2>2
  <2>4. \A j \in 1 .. n - 1 : \E k \in 2 .. n : t[j] = s[k]
    BY <1>9, <2>1
  <2>5. QED
    <3>1. Elements(t) = {t[j] : j \in 1 .. n - 1}
      BY <1>9 DEF Elements
    <3>2. QED
      BY ONLY <3>1, <2>3, <2>4
<1>11. up \ {e} = {s[k] : k \in 2 .. n}
  <2>1. \A k \in 2 .. n : k \in 1 .. n /\ k # 1 /\ 1 \in 1 .. n
    BY <1>6
  <2>2. \A k \in 2 .. n : s[k] # e
    BY <1>6, <1>7, <2>1
  <2>3. \A k \in 1 .. n : k = 1 \/ k \in 2 .. n
    BY <1>6
  <2>4. First(r, s[n]) \subseteq Elements(s)
    BY <1>2, <1>6, PathCloses
  <2>5. \A x \in First(r, s[n]) : x = e \/ \E k \in 2 .. n : x = s[k]
    BY <1>6, <2>3, <2>4 DEF Elements
  <2>6. QED
    BY <1>1, <1>3, <2>2, <2>5 DEF Above
<1>12. InOrder(t)
  <2>1. \A k \in 1 .. n - 1 : k + 1 \in 1 .. n /\ \A j \in 1 .. n - 1 : j + 1 = k + 1 => j = k
    BY <1>6
  <2>2. QED
    BY <1>7, <1>9, <2>1 DEF InOrder
<1>13. Len(t) = Cardinality(Elements(t))
  BY <1>9, <1>12, DistinctCount
<1>14. Depth(r, e) = Len(t)
  BY <1>8 DEF Depth
<1>15. Elements(Ancestors(r, e)) = Least \ {e} /\ Depth(r, e) = Cardinality(Least \ {e})
  BY <1>5, <1>8, <1>10, <1>11, <1>13, <1>14
<1>16. QED
  BY <1>15 DEF Least

-----------------------------------------------------------------------------
(* The theorems.                                                           *)

(* The pair set and the two adjacency maps of every relation type hold the *)
(* same edges, after any history of calls and within despawn_recursive.    *)
THEOREM IndicesTheorem == Spec => []IndicesAgree
<1>1. QED
  BY AgreeingIndices, RelationsInvariant, PTL

(* Every edge joins two live entities, whatever was despawned, how, and    *)
(* whichever indices were reused.                                          *)
THEOREM EdgesTheorem == Spec => []EdgesLive
<1>1. InvAll => EdgesLive
  BY DEF InvAll, EdgesInv
<1>2. QED
  BY <1>1, RelationsInvariant, PTL

(* The collecting loop of despawn_recursive finds the entities below its   *)
(* root, all of them, no other and none twice, on every graph of edges.    *)
THEOREM SubtreeTheorem == Spec => []SubtreeCollected
<1>1. QED
  BY CollectsSubtree, RelationsInvariant, PTL

(* When despawn_recursive ends nothing it collected is alive, and it has   *)
(* counted all of it, or none when the root was stale.                     *)
THEOREM DespawnsTheorem == Spec => []DespawnsAll
<1>1. QED
  BY DespawnsList, RelationsInvariant, PTL

(* ancestors and depth report what lies above an entity, each once and     *)
(* never the entity itself, whatever cycles and forks a relation has.      *)
THEOREM AncestorsTheorem == Spec => []AncestorsExact
<1>1. InvAll => AncestorsExact
  BY WalksAreExact DEF InvAll
<1>2. QED
  BY <1>1, RelationsInvariant, PTL
=============================================================================
