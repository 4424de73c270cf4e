--------------------------- MODULE WorldStorageProofs ---------------------------
(***************************************************************************)
(* Theorems about WorldStorage for every number of entities, every set of  *)
(* component types and every set of values.                                *)
(*                                                                         *)
(* The inductive invariant RowsInv says where each handle's values are.    *)
(* On it rest the theorems about what WorldStorage keeps beside the rows,  *)
(* the tail of indices without components, the columns of values and the   *)
(* types of all its tables, and the last one: WorldStorage implements      *)
(* EntityComponents.  Rows, columns, swap-removes and shortcuts behave     *)
(* like one map from live handles to components.                           *)
(***************************************************************************)
EXTENDS WorldStorage, Concatenations, SequenceTheorems

-----------------------------------------------------------------------------
(* Rows and locations.                                                     *)

(* Vec::swap_remove keeps the element type, shortens by one, and every     *)
(* element of the result is an element of the original.                    *)
LEMMA SwapRemoveProperties ==
  ASSUME NEW S, NEW s \in Seq(S), NEW i \in 1 .. Len(s)
  PROVE  /\ SwapRemove(s, i) \in Seq(S)
         /\ Len(SwapRemove(s, i)) = Len(s) - 1
         /\ \A j \in 1 .. Len(s) - 1 :
              SwapRemove(s, i)[j] = IF j = i THEN s[Len(s)] ELSE s[j]
<1>1. Len(s) - 1 \in Nat
  OBVIOUS
<1>2. \A j \in 1 .. Len(s) - 1 : (IF j = i THEN s[Len(s)] ELSE s[j]) \in S
  OBVIOUS
<1>3. SwapRemove(s, i) \in [1 .. Len(s) - 1 -> S]
  BY <1>2 DEF SwapRemove
<1>4. SwapRemove(s, i) \in Seq(S)
  BY <1>1, <1>3, SeqDef
<1>5. QED
  BY <1>1, <1>3, <1>4 DEF SwapRemove

(* Vec::pop leaves the elements before the last one.                       *)
LEMMA PopProperties ==
  ASSUME NEW S, NEW s \in Seq(S), s # <<>>
  PROVE  /\ SubSeq(s, 1, Len(s) - 1) \in Seq(S)
         /\ Len(SubSeq(s, 1, Len(s) - 1)) = Len(s) - 1
         /\ \A j \in 1 .. Len(s) - 1 : SubSeq(s, 1, Len(s) - 1)[j] = s[j]
<1> DEFINE k == Len(s) - 1
           front == SubSeq(s, 1, k)
<1>1. k \in Nat /\ 1 \in Int /\ k \in Int
  BY EmptySeq
<1>2. \A j \in 1 .. k : s[j] \in S
  BY <1>1
<1> HIDE DEF k
<1>3. /\ front \in Seq(S)
      /\ Len(front) = IF 1 <= k THEN k - 1 + 1 ELSE 0
      /\ \A j \in 1 .. k - 1 + 1 : front[j] = s[1 + j - 1]
  BY <1>1, <1>2, SubSeqProperties
<1> HIDE DEF front
<1>4. front \in Seq(S) /\ Len(front) = k /\ \A j \in 1 .. k : front[j] = s[j]
  BY <1>1, <1>3
<1>5. QED
  BY <1>4 DEF front, k

(* A per-archetype table grows by at most one entry, at its end.           *)
LEMMA GrownType ==
  ASSUME NEW S, NEW table \in Seq(S), NEW id, NEW fresh \in S
  PROVE  Grown(table, id, fresh) \in Seq(S)
BY AppendProperties DEF Grown

(* How long a per-archetype table is after get_or_create_archetype.      *)
LEMMA GrownLen ==
  ASSUME NEW S, NEW table \in Seq(S), NEW id, NEW fresh
  PROVE  Len(Grown(table, id, fresh)) =
           IF id \in 1 .. Len(table) THEN Len(table) ELSE Len(table) + 1
BY DEF Grown

(* get_or_create_archetype leaves the entries of old archetypes alone.   *)
LEMMA GrownOld ==
  ASSUME NEW S, NEW table \in Seq(S), NEW id, NEW fresh, NEW a \in 1 .. Len(table)
  PROVE  Grown(table, id, fresh)[a] = table[a]
BY DEF Grown

(* The entry of a new archetype is the fresh one.                        *)
LEMMA GrownFresh ==
  ASSUME NEW S, NEW table \in Seq(S), NEW fresh
  PROVE  Grown(table, Len(table) + 1, fresh)[Len(table) + 1] = fresh
BY DEF Grown

-----------------------------------------------------------------------------
(* Rows and locations.  LocationsMatchRows is restated for arbitrary       *)
(* tables, so that each operation is a composition of three pure steps:    *)
(* a new archetype without rows, a row taken out, a row pushed.            *)

Tables(n) == [1 .. n -> Seq(Entity)]

Transitions(n) == [1 .. n -> [Component -> Nat]]

Corresponds(n, ents, locs, gens) ==
  /\ \A a \in 1 .. n : \A r \in 1 .. Len(ents[a]) :
       /\ locs[ents[a][r].index] = [arch |-> a, row |-> r]
       /\ gens[ents[a][r].index] = ents[a][r].generation
  /\ \A i \in Index : locs[i] # NoLocation =>
       /\ locs[i].arch \in 1 .. n
       /\ locs[i].row \in 1 .. Len(ents[locs[i].arch])
       /\ ents[locs[i].arch][locs[i].row].index = i

(* A row taken out by swap-remove, with the fix of the moved entity's      *)
(* location, and a row pushed.                                             *)
WithoutRow(ents, a, r) == [ents EXCEPT ![a] = SwapRemove(@, r)]

WithoutEntity(locs, ents, a, r) ==
  [[locs EXCEPT ![ents[a][Len(ents[a])].index] = [arch |-> a, row |-> r]]
     EXCEPT ![ents[a][r].index] = NoLocation]

WithRow(ents, a, e) == [ents EXCEPT ![a] = Append(@, e)]

WithEntity(locs, ents, a, e) ==
  [locs EXCEPT ![e.index] = [arch |-> a, row |-> Len(ents[a]) + 1]]

(* The fields of an entity handle.                                       *)
LEMMA EntityFields ==
  \A h \in Entity : h.index \in Index /\ h.generation \in Nat
BY DEF Entity

(* Two handles with the same index and generation are the same.          *)
LEMMA EntityEqual ==
  ASSUME NEW h \in Entity, NEW e \in Entity, h.index = e.index, h.generation = e.generation
  PROVE  h = e
BY DEF Entity

(* Every row of an entity table holds an entity handle.                  *)
LEMMA TablesRows ==
  ASSUME NEW n, NEW ents \in Tables(n), NEW a \in 1 .. n
  PROVE  ents[a] \in Seq(Entity) /\ \A r \in 1 .. Len(ents[a]) : ents[a][r] \in Entity
<1>1. ents[a] \in Seq(Entity)
  BY DEF Tables
<1>2. QED
  BY <1>1

(* What is left after row r of archetype a was taken out still matches.    *)
LEMMA TakeOutMatches ==
  ASSUME NEW n \in Nat, NEW ents \in Tables(n), NEW locs \in [Index -> Location], NEW gens,
         NEW gens2, Corresponds(n, ents, locs, gens),
         NEW a \in 1 .. n, NEW r \in 1 .. Len(ents[a]),
         \A i \in Index : i # ents[a][r].index => gens2[i] = gens[i]
  PROVE  Corresponds(n, WithoutRow(ents, a, r), WithoutEntity(locs, ents, a, r), gens2)
<1> DEFINE old   == ents[a]
           k     == Len(old)
           last  == old[k]
           e     == old[r]
           ents2 == [ents EXCEPT ![a] = SwapRemove(@, r)]
           locs2 == [[locs EXCEPT ![last.index] = [arch |-> a, row |-> r]]
                        EXCEPT ![e.index] = NoLocation]
<1>1. old \in Seq(Entity) /\ k \in Nat /\ k \in 1 .. k /\ r \in 1 .. k
  BY DEF Tables
<1>2. /\ \A b \in 1 .. n : ents[b] \in Seq(Entity)
      /\ \A b \in 1 .. n : \A s \in 1 .. Len(ents[b]) : ents[b][s] \in Entity
      /\ \A b \in 1 .. n : \A s \in 1 .. Len(ents[b]) : ents[b][s].index \in Index
  BY TablesRows, EntityFields
<1>3. /\ Len(ents2[a]) = k - 1
      /\ \A j \in 1 .. k - 1 : ents2[a][j] = IF j = r THEN last ELSE old[j]
      /\ \A b \in 1 .. n : b # a => ents2[b] = ents[b]
  <2>1. ents2[a] = SwapRemove(old, r) /\ \A b \in 1 .. n : b # a => ents2[b] = ents[b]
    BY DEF Tables
  <2>2. QED
    BY <1>1, <2>1, SwapRemoveProperties
<1>4. \A i \in Index : locs2[i] = IF i = e.index THEN NoLocation
                                  ELSE IF i = last.index THEN [arch |-> a, row |-> r]
                                  ELSE locs[i]
  OBVIOUS
<1>5. e.index \in Index /\ last.index \in Index
  BY <1>1, <1>2
<1>6. /\ \A b \in 1 .. n : \A s \in 1 .. Len(ents[b]) :
           /\ locs[ents[b][s].index] = [arch |-> b, row |-> s]
           /\ gens[ents[b][s].index] = ents[b][s].generation
      /\ locs[e.index] = [arch |-> a, row |-> r]
      /\ locs[last.index] = [arch |-> a, row |-> k]
  BY <1>1 DEF Corresponds
<1> HIDE DEF ents2, locs2, old, k, last, e
<1>7. ASSUME NEW b \in 1 .. n, NEW s \in 1 .. Len(ents2[b])
      PROVE  /\ locs2[ents2[b][s].index] = [arch |-> b, row |-> s]
             /\ gens2[ents2[b][s].index] = ents2[b][s].generation
  <2>1. CASE b = a /\ s = r
    <3>1. s \in 1 .. k - 1 /\ ents2[b][s] = last /\ k # r
      BY <1>1, <1>3, <2>1
    <3>2. last.index # e.index
      BY <1>6, <3>1
    <3>3. gens[last.index] = last.generation
      BY <1>1, <1>6 DEF last, old, k
    <3>4. QED
      BY <1>4, <1>5, <2>1, <3>1, <3>2, <3>3 DEF e, old
  <2>2. CASE b = a /\ s # r
    <3>1. s \in 1 .. k - 1 /\ ents2[b][s] = old[s] /\ s # k /\ s \in 1 .. k
      BY <1>1, <1>3, <2>2
    <3>2. locs[old[s].index] = [arch |-> a, row |-> s] /\ gens[old[s].index] = old[s].generation
          /\ old[s].index \in Index
      BY <1>2, <1>6, <3>1 DEF old, k
    <3>3. old[s].index # e.index /\ old[s].index # last.index
      BY <1>6, <2>2, <3>1, <3>2
    <3>4. QED
      BY <1>4, <2>2, <3>1, <3>2, <3>3 DEF e, old
  <2>3. CASE b # a
    <3>1. ents2[b] = ents[b]
      BY <1>3, <2>3
    <3>2. locs[ents[b][s].index] = [arch |-> b, row |-> s]
          /\ gens[ents[b][s].index] = ents[b][s].generation /\ ents[b][s].index \in Index
      BY <1>2, <1>6, <3>1
    <3>3. ents[b][s].index # e.index /\ ents[b][s].index # last.index
      BY <1>6, <2>3, <3>2
    <3>4. QED
      BY <1>4, <3>1, <3>2, <3>3 DEF e, old
  <2>4. QED
    BY <2>1, <2>2, <2>3
<1>8. ASSUME NEW i \in Index, locs2[i] # NoLocation
      PROVE  /\ locs2[i].arch \in 1 .. n
             /\ locs2[i].row \in 1 .. Len(ents2[locs2[i].arch])
             /\ ents2[locs2[i].arch][locs2[i].row].index = i
  <2>1. i # e.index
    BY <1>4, <1>8
  <2>2. CASE i = last.index
    <3>1. locs2[i] = [arch |-> a, row |-> r]
      BY <1>4, <2>1, <2>2
    <3>2. r # k
      BY <2>1, <2>2 DEF e, last
    <3>3. r \in 1 .. k - 1
      BY <1>1, <3>2
    <3>4. QED
      BY <1>3, <2>2, <3>1, <3>3
  <2>3. CASE i # last.index
    <3> DEFINE loc == locs[i]
    <3>1. locs2[i] = loc /\ loc # NoLocation
      BY <1>4, <1>8, <2>1, <2>3
    <3>2. loc.arch \in 1 .. n /\ loc.row \in 1 .. Len(ents[loc.arch])
          /\ ents[loc.arch][loc.row].index = i
      BY <3>1 DEF Corresponds
    <3> HIDE DEF loc
    <3>3. CASE loc.arch # a
      BY <1>3, <3>1, <3>2, <3>3
    <3>4. CASE loc.arch = a
      <4>1. loc.row # r /\ loc.row # k /\ loc.row \in 1 .. k
        BY <2>1, <2>3, <3>2, <3>4 DEF e, last, old, k
      <4>2. loc.row \in 1 .. k - 1
        BY <1>1, <4>1
      <4>3. ents2[a][loc.row] = old[loc.row]
        BY <1>3, <4>1, <4>2
      <4>4. QED
        BY <1>3, <3>1, <3>2, <3>4, <4>2, <4>3 DEF old
    <3>5. QED
      BY <3>3, <3>4
  <2>4. QED
    BY <2>2, <2>3
<1>9. Corresponds(n, ents2, locs2, gens2)
  BY <1>7, <1>8 DEF Corresponds
<1>10. QED
  BY <1>9 DEF ents2, locs2, old, last, e, k, WithoutRow, WithoutEntity

(* A row pushed for an entity without a location.                          *)
LEMMA PushMatches ==
  ASSUME NEW n \in Nat, NEW ents \in Tables(n), NEW locs \in [Index -> Location], NEW gens,
         Corresponds(n, ents, locs, gens),
         NEW e \in Entity, NEW a \in 1 .. n,
         locs[e.index] = NoLocation, gens[e.index] = e.generation
  PROVE  Corresponds(n, WithRow(ents, a, e), WithEntity(locs, ents, a, e), gens)
<1> DEFINE old   == ents[a]
           k     == Len(old)
           ents2 == [ents EXCEPT ![a] = Append(@, e)]
           locs2 == [locs EXCEPT ![e.index] = [arch |-> a, row |-> k + 1]]
<1>1. old \in Seq(Entity) /\ k \in Nat /\ e.index \in Index
  BY TablesRows, EntityFields
<1>2. /\ \A b \in 1 .. n : ents[b] \in Seq(Entity)
      /\ \A b \in 1 .. n : \A s \in 1 .. Len(ents[b]) : ents[b][s].index \in Index
  BY TablesRows, EntityFields
<1>3. /\ Len(ents2[a]) = k + 1
      /\ \A j \in 1 .. k : ents2[a][j] = old[j]
      /\ ents2[a][k + 1] = e
      /\ \A b \in 1 .. n : b # a => ents2[b] = ents[b]
  <2>1. ents2[a] = Append(old, e) /\ \A b \in 1 .. n : b # a => ents2[b] = ents[b]
    BY DEF Tables
  <2>2. QED
    BY <1>1, <2>1
<1>4. \A i \in Index : locs2[i] = IF i = e.index THEN [arch |-> a, row |-> k + 1] ELSE locs[i]
  OBVIOUS
<1>5. \A b \in 1 .. n : \A s \in 1 .. Len(ents[b]) :
        /\ locs[ents[b][s].index] = [arch |-> b, row |-> s]
        /\ gens[ents[b][s].index] = ents[b][s].generation
        /\ ents[b][s].index # e.index
  <2>1. SUFFICES ASSUME NEW b \in 1 .. n, NEW s \in 1 .. Len(ents[b])
                 PROVE  /\ locs[ents[b][s].index] = [arch |-> b, row |-> s]
                        /\ gens[ents[b][s].index] = ents[b][s].generation
                        /\ ents[b][s].index # e.index
    OBVIOUS
  <2>2. locs[ents[b][s].index] = [arch |-> b, row |-> s]
        /\ gens[ents[b][s].index] = ents[b][s].generation
    BY DEF Corresponds
  <2>3. [arch |-> b, row |-> s] # NoLocation
    BY DEF NoLocation
  <2>4. QED
    BY <2>2, <2>3
<1> HIDE DEF ents2, locs2, old, k
<1>6. ASSUME NEW b \in 1 .. n, NEW s \in 1 .. Len(ents2[b])
      PROVE  /\ locs2[ents2[b][s].index] = [arch |-> b, row |-> s]
             /\ gens[ents2[b][s].index] = ents2[b][s].generation
  <2>1. CASE b = a /\ s = k + 1
    BY <1>1, <1>3, <1>4, <2>1
  <2>2. CASE ~(b = a /\ s = k + 1)
    <3>1. s \in 1 .. Len(ents[b]) /\ ents2[b][s] = ents[b][s]
      <4>1. CASE b = a
        BY <1>1, <1>3, <2>2, <4>1 DEF old, k
      <4>2. CASE b # a
        BY <1>3, <4>2
      <4>3. QED
        BY <4>1, <4>2
    <3>2. QED
      BY <1>2, <1>4, <1>5, <3>1
  <2>3. QED
    BY <2>1, <2>2
<1>7. ASSUME NEW i \in Index, locs2[i] # NoLocation
      PROVE  /\ locs2[i].arch \in 1 .. n
             /\ locs2[i].row \in 1 .. Len(ents2[locs2[i].arch])
             /\ ents2[locs2[i].arch][locs2[i].row].index = i
  <2>1. CASE i = e.index
    BY <1>1, <1>3, <1>4, <2>1
  <2>2. CASE i # e.index
    <3> DEFINE loc == locs[i]
    <3>1. locs2[i] = loc
      BY <1>4, <2>2
    <3>2. loc.arch \in 1 .. n /\ loc.row \in 1 .. Len(ents[loc.arch])
          /\ ents[loc.arch][loc.row].index = i
      BY <1>7, <3>1 DEF Corresponds
    <3> HIDE DEF loc
    <3>3. CASE loc.arch # a
      BY <1>3, <3>1, <3>2, <3>3
    <3>4. CASE loc.arch = a
      <4>1. loc.row \in 1 .. k /\ loc.row \in 1 .. k + 1
        BY <1>1, <3>2, <3>4 DEF old, k
      <4>2. ents2[a][loc.row] = ents[a][loc.row]
        BY <1>3, <4>1 DEF old
      <4>3. QED
        BY <1>3, <3>1, <3>2, <3>4, <4>1, <4>2
    <3>5. QED
      BY <3>3, <3>4
  <2>3. QED
    BY <2>1, <2>2
<1>8. Corresponds(n, ents2, locs2, gens)
  BY <1>6, <1>7 DEF Corresponds
<1>9. QED
  BY <1>8 DEF ents2, locs2, k, old, WithRow, WithEntity

(* A new archetype has no rows.                                            *)
LEMMA GrowMatches ==
  ASSUME NEW n \in Nat, NEW ents \in Tables(n), NEW locs, NEW gens,
         Corresponds(n, ents, locs, gens), NEW m \in {n, n + 1}, NEW ents2 \in Tables(m),
         \A a \in 1 .. n : ents2[a] = ents[a],
         m = n + 1 => ents2[m] = <<>>
  PROVE  Corresponds(m, ents2, locs, gens)
<1>1. \A a \in 1 .. m : a \in 1 .. n \/ (a = n + 1 /\ ents2[a] = <<>>)
  OBVIOUS
<1>2. 1 .. n \subseteq 1 .. m
  OBVIOUS
<1>3. QED
  BY SMTT(30), <1>1, <1>2 DEF Corresponds
-----------------------------------------------------------------------------
(* The inductive invariant behind the theorems on rows, free indices and   *)
(* shortcuts.  The three need each other: a freed index must have no row,  *)
(* and a shortcut must lead to the set it stands for, or a move could have *)
(* the same archetype as source and destination.                           *)

RowsType ==
  /\ nextEntityIndex \in 0 .. MaxEntities
  /\ entityGenerations \in [Index -> Nat]
  /\ freeIndices \in Seq(Index)
  /\ entityLocations \in [Index -> Location]
  /\ archetypes \in Seq(SUBSET Component)
  /\ Len(archetypes) \in Nat \ {0}
  /\ archetypes[EmptyArchetype] = {}
  /\ archetypeEntities \in Tables(Len(archetypes))
  /\ singleComponentArchetypes \in [Component -> Nat]
  /\ addTransitions \in Transitions(Len(archetypes))
  /\ removeTransitions \in Transitions(Len(archetypes))
  /\ bundleArchetypes \in [Bundle -> Nat]

RowsMatch ==
  Corresponds(Len(archetypes), archetypeEntities, entityLocations, entityGenerations)

RowsInv == RowsType /\ RowsMatch /\ FreeIndicesExact /\ ShortcutsResolve

(* Corresponds says of the tables what LocationsMatchRows says of handles.     *)
LEMMA MatchesHandles ==
  ASSUME NEW n \in Nat, NEW ents \in Tables(n), NEW locs, NEW gens
  PROVE  Corresponds(n, ents, locs, gens) <=>
           /\ \A a \in 1 .. n : \A r \in 1 .. Len(ents[a]) :
                (IF gens[ents[a][r].index] = ents[a][r].generation
                 THEN locs[ents[a][r].index] ELSE NoLocation) = [arch |-> a, row |-> r]
           /\ \A i \in Index : locs[i] # NoLocation =>
                /\ locs[i].arch \in 1 .. n
                /\ locs[i].row \in 1 .. Len(ents[locs[i].arch])
                /\ ents[locs[i].arch][locs[i].row].index = i
<1>1. ASSUME NEW a \in 1 .. n, NEW r \in 1 .. Len(ents[a])
      PROVE  [arch |-> a, row |-> r] # NoLocation
  BY DEF NoLocation
<1>2. ASSUME NEW a \in 1 .. n, NEW r \in 1 .. Len(ents[a])
      PROVE  (IF gens[ents[a][r].index] = ents[a][r].generation
              THEN locs[ents[a][r].index] ELSE NoLocation) = [arch |-> a, row |-> r]
             <=> /\ locs[ents[a][r].index] = [arch |-> a, row |-> r]
                 /\ gens[ents[a][r].index] = ents[a][r].generation
  BY <1>1
<1>3. QED
  BY <1>2 DEF Corresponds

(* On typed states the form used in the proofs is LocationsMatchRows.    *)
LEMMA RowsMatchLocations ==
  ASSUME RowsType
  PROVE  RowsMatch <=> LocationsMatchRows
<1> DEFINE n == Len(archetypes)
<1>1. n \in Nat /\ archetypeEntities \in Tables(n) /\ DOMAIN archetypes = 1 .. n
  BY DEF RowsType
<1>2. \A a \in 1 .. n : DOMAIN archetypeEntities[a] = 1 .. Len(archetypeEntities[a])
  BY <1>1, TablesRows
<1>3. \A i \in Index : entityLocations[i].arch \in 1 .. n =>
        DOMAIN archetypeEntities[entityLocations[i].arch]
          = 1 .. Len(archetypeEntities[entityLocations[i].arch])
  BY <1>2
<1>4. RowsMatch <=>
        /\ \A a \in 1 .. n : \A r \in 1 .. Len(archetypeEntities[a]) :
             LocationOf(archetypeEntities[a][r]) = [arch |-> a, row |-> r]
        /\ \A i \in Index : entityLocations[i] # NoLocation =>
             /\ entityLocations[i].arch \in 1 .. n
             /\ entityLocations[i].row \in 1 .. Len(archetypeEntities[entityLocations[i].arch])
             /\ archetypeEntities[entityLocations[i].arch][entityLocations[i].row].index = i
  BY <1>1, MatchesHandles DEF RowsMatch, LocationOf
<1>5. QED
  BY <1>1, <1>2, <1>3, <1>4 DEF LocationsMatchRows

(* The row a live handle's location names stores that handle.              *)
LEMMA LocatedRow ==
  ASSUME RowsType, RowsMatch, NEW e \in Entity, IsAlive(e)
  PROVE  /\ LocationOf(e).arch \in 1 .. Len(archetypes)
         /\ LocationOf(e).row \in 1 .. Len(archetypeEntities[LocationOf(e).arch])
         /\ archetypeEntities[LocationOf(e).arch][LocationOf(e).row] = e
         /\ LocationOf(e) = entityLocations[e.index]
         /\ LocationOf(e) \in Location
<1> DEFINE at == entityLocations[e.index]
<1>1. LocationOf(e) = at /\ at # NoLocation /\ entityGenerations[e.index] = e.generation
  BY DEF IsAlive, LocationOf
<1>2. e.index \in Index /\ at \in Location
  BY EntityFields DEF RowsType
<1>3. /\ at.arch \in 1 .. Len(archetypes)
      /\ at.row \in 1 .. Len(archetypeEntities[at.arch])
      /\ archetypeEntities[at.arch][at.row].index = e.index
  BY <1>1, <1>2 DEF RowsMatch, Corresponds
<1>4. archetypeEntities[at.arch][at.row] \in Entity
  BY <1>3, TablesRows DEF RowsType
<1>5. entityGenerations[archetypeEntities[at.arch][at.row].index]
        = archetypeEntities[at.arch][at.row].generation
  BY <1>3 DEF RowsMatch, Corresponds
<1>6. archetypeEntities[at.arch][at.row] = e
  <2>1. archetypeEntities[at.arch][at.row].generation = e.generation
    BY <1>1, <1>3, <1>5
  <2>2. QED
    BY <1>3, <1>4, <2>1, EntityEqual
<1>7. QED
  BY <1>1, <1>2, <1>3, <1>6
-----------------------------------------------------------------------------
(* Archetypes and the shortcuts to them.                                   *)

(* id is the archetype of this set, or the next id when there is none.     *)
Resolves(id, set) ==
  /\ id \in 1 .. Len(archetypes) + 1
  /\ id \in 1 .. Len(archetypes) => archetypes[id] = set
  /\ id = Len(archetypes) + 1 => \A a \in 1 .. Len(archetypes) : archetypes[a] # set

(* The slow path of get_or_create_archetype resolves the set.            *)
LEMMA ArchetypeForResolves ==
  ASSUME RowsType, NEW set
  PROVE  Resolves(ArchetypeFor(set), set)
<1>1. DOMAIN archetypes = 1 .. Len(archetypes) /\ Len(archetypes) \in Nat
  BY DEF RowsType
<1>2. CASE \E a \in DOMAIN archetypes : archetypes[a] = set
  <2>1. ArchetypeFor(set) \in DOMAIN archetypes /\ archetypes[ArchetypeFor(set)] = set
    BY <1>2 DEF ArchetypeFor
  <2>2. QED
    BY <1>1, <2>1 DEF Resolves
<1>3. CASE ~ \E a \in DOMAIN archetypes : archetypes[a] = set
  <2>1. ArchetypeFor(set) = Len(archetypes) + 1
    BY <1>3 DEF ArchetypeFor
  <2>2. QED
    BY <1>1, <1>3, <2>1 DEF Resolves
<1>4. QED
  BY <1>2, <1>3

(* An id that resolves a set is the id of that set after it was created. *)
LEMMA GrownArchetypes ==
  ASSUME RowsType, NEW id, NEW set \in SUBSET Component, Resolves(id, set),
         archetypes' = Grown(archetypes, id, set)
  PROVE  /\ archetypes' \in Seq(SUBSET Component)
         /\ Len(archetypes') \in Nat \ {0}
         /\ Len(archetypes') = IF id \in 1 .. Len(archetypes)
                               THEN Len(archetypes) ELSE Len(archetypes) + 1
         /\ id \in 1 .. Len(archetypes')
         /\ archetypes'[id] = set
         /\ \A a \in 1 .. Len(archetypes) : archetypes'[a] = archetypes[a]
<1>1. archetypes \in Seq(SUBSET Component) /\ Len(archetypes) \in Nat \ {0}
  BY DEF RowsType
<1>2. archetypes' \in Seq(SUBSET Component)
  BY <1>1, GrownType
<1>3. Len(archetypes') = IF id \in 1 .. Len(archetypes)
                         THEN Len(archetypes) ELSE Len(archetypes) + 1
  BY <1>1, GrownLen
<1>4. \A a \in 1 .. Len(archetypes) : archetypes'[a] = archetypes[a]
  BY <1>1, GrownOld
<1>5. id \in 1 .. Len(archetypes) + 1
  BY DEF Resolves
<1>6. archetypes'[id] = set
  <2>1. CASE id \in 1 .. Len(archetypes)
    BY <1>4, <2>1 DEF Resolves
  <2>2. CASE id = Len(archetypes) + 1
    BY <1>1, <2>2, GrownFresh
  <2>3. QED
    BY <1>1, <1>5, <2>1, <2>2
<1>7. QED
  BY <1>1, <1>2, <1>3, <1>4, <1>5, <1>6

(* A step that may create the archetype of one set, and caches only its id *)
(* where that set is the right answer, keeps every shortcut right.         *)
LEMMA ShortcutsStep ==
  ASSUME RowsType, ShortcutsResolve, NEW id, NEW set \in SUBSET Component, Resolves(id, set),
         archetypes' = Grown(archetypes, id, set),
         \A c \in Component : \/ singleComponentArchetypes'[c] = singleComponentArchetypes[c]
                              \/ singleComponentArchetypes'[c] = id /\ set = {c},
         \A b \in Bundle : \/ bundleArchetypes'[b] = bundleArchetypes[b]
                           \/ bundleArchetypes'[b] = id /\ set = Types(b),
         \A a \in 1 .. Len(archetypes'), c \in Component :
           \/ addTransitions'[a][c] = 0
           \/ a \in 1 .. Len(archetypes) /\ addTransitions'[a][c] = addTransitions[a][c]
           \/ a \in 1 .. Len(archetypes) /\ addTransitions'[a][c] = id
              /\ set = archetypes[a] \cup {c},
         \A a \in 1 .. Len(archetypes'), c \in Component :
           \/ removeTransitions'[a][c] = 0
           \/ a \in 1 .. Len(archetypes) /\ removeTransitions'[a][c] = removeTransitions[a][c]
           \/ a \in 1 .. Len(archetypes) /\ removeTransitions'[a][c] = id
              /\ set = archetypes[a] \ {c}
  PROVE  ShortcutsResolve'
<1>1. /\ archetypes' \in Seq(SUBSET Component)
      /\ Len(archetypes) \in Nat
      /\ Len(archetypes') = IF id \in 1 .. Len(archetypes)
                            THEN Len(archetypes) ELSE Len(archetypes) + 1
      /\ id \in 1 .. Len(archetypes')
      /\ archetypes'[id] = set
      /\ \A a \in 1 .. Len(archetypes) : archetypes'[a] = archetypes[a]
  BY GrownArchetypes DEF RowsType
<1>2. DOMAIN archetypes = 1 .. Len(archetypes) /\ DOMAIN archetypes' = 1 .. Len(archetypes')
  BY <1>1 DEF RowsType
<1>3. \A a \in 1 .. Len(archetypes) : a \in 1 .. Len(archetypes')
  BY <1>1
<1>4. ASSUME NEW a \in 1 .. Len(archetypes'), NEW b \in 1 .. Len(archetypes'),
             archetypes'[a] = archetypes'[b]
      PROVE  a = b
  <2>1. CASE a \in 1 .. Len(archetypes) /\ b \in 1 .. Len(archetypes)
    BY <1>1, <1>2, <1>4, <2>1 DEF ShortcutsResolve
  <2>2. CASE a \notin 1 .. Len(archetypes)
    <3>1. a = Len(archetypes) + 1 /\ id = a
      BY <1>1, <2>2 DEF Resolves
    <3>2. \A x \in 1 .. Len(archetypes) : archetypes[x] # archetypes'[a]
      BY <1>1, <3>1 DEF Resolves
    <3>3. b \notin 1 .. Len(archetypes)
      BY <1>1, <1>4, <3>2
    <3>4. QED
      BY <1>1, <3>1, <3>3
  <2>3. CASE b \notin 1 .. Len(archetypes)
    <3>1. b = Len(archetypes) + 1 /\ id = b
      BY <1>1, <2>3 DEF Resolves
    <3>2. \A x \in 1 .. Len(archetypes) : archetypes[x] # archetypes'[b]
      BY <1>1, <3>1 DEF Resolves
    <3>3. a \notin 1 .. Len(archetypes)
      BY <1>1, <1>4, <3>2
    <3>4. QED
      BY <1>1, <3>1, <3>3
  <2>4. QED
    BY <2>1, <2>2, <2>3
<1>5. ASSUME NEW c \in Component, singleComponentArchetypes'[c] # 0
      PROVE  /\ singleComponentArchetypes'[c] \in 1 .. Len(archetypes')
             /\ archetypes'[singleComponentArchetypes'[c]] = {c}
  BY <1>1, <1>2, <1>3, <1>5 DEF ShortcutsResolve
<1>6. ASSUME NEW b \in Bundle, bundleArchetypes'[b] # 0
      PROVE  /\ bundleArchetypes'[b] \in 1 .. Len(archetypes')
             /\ archetypes'[bundleArchetypes'[b]] = Types(b)
  BY <1>1, <1>2, <1>3, <1>6 DEF ShortcutsResolve
<1>7. ASSUME NEW a \in 1 .. Len(archetypes'), NEW c \in Component, addTransitions'[a][c] # 0
      PROVE  /\ addTransitions'[a][c] \in 1 .. Len(archetypes')
             /\ archetypes'[addTransitions'[a][c]] = archetypes'[a] \cup {c}
  <2>1. a \in 1 .. Len(archetypes) /\ archetypes'[a] = archetypes[a]
    BY <1>1, <1>7
  <2>2. CASE addTransitions'[a][c] = addTransitions[a][c]
    BY <1>1, <1>2, <1>3, <1>7, <2>1, <2>2 DEF ShortcutsResolve
  <2>3. CASE addTransitions'[a][c] = id /\ set = archetypes[a] \cup {c}
    BY <1>1, <2>1, <2>3
  <2>4. QED
    BY <1>7, <2>2, <2>3
<1>8. ASSUME NEW a \in 1 .. Len(archetypes'), NEW c \in Component, removeTransitions'[a][c] # 0
      PROVE  /\ removeTransitions'[a][c] \in 1 .. Len(archetypes')
             /\ archetypes'[removeTransitions'[a][c]] = archetypes'[a] \ {c}
  <2>1. a \in 1 .. Len(archetypes) /\ archetypes'[a] = archetypes[a]
    BY <1>1, <1>8
  <2>2. CASE removeTransitions'[a][c] = removeTransitions[a][c]
    BY <1>1, <1>2, <1>3, <1>8, <2>1, <2>2 DEF ShortcutsResolve
  <2>3. CASE removeTransitions'[a][c] = id /\ set = archetypes[a] \ {c}
    BY <1>1, <2>1, <2>3
  <2>4. QED
    BY <1>8, <2>2, <2>3
<1>9. QED
  BY <1>2, <1>4, <1>5, <1>6, <1>7, <1>8 DEF ShortcutsResolve
-----------------------------------------------------------------------------
(* What the three ways to change rows do.                                  *)

(* Archetype id exists in the grown tables, without rows if it is new.     *)
LEMMA GrownRows ==
  ASSUME RowsType, RowsMatch, NEW id, NEW set \in SUBSET Component, Resolves(id, set),
         archetypes' = Grown(archetypes, id, set)
  PROVE  LET ents == Grown(archetypeEntities, id, <<>>)
         IN  /\ ents \in Tables(Len(archetypes'))
             /\ Corresponds(Len(archetypes'), ents, entityLocations, entityGenerations)
             /\ \A a \in 1 .. Len(archetypes) : ents[a] = archetypeEntities[a]
<1> DEFINE n == Len(archetypes)
           m == Len(archetypes')
           ents == Grown(archetypeEntities, id, <<>>)
<1>1. n \in Nat /\ archetypeEntities \in Tables(n) /\ id \in 1 .. n + 1
  BY DEF RowsType, Resolves
<1>2. DOMAIN archetypeEntities = 1 .. n /\ Len(archetypeEntities) = n
  BY <1>1 DEF Tables
<1>3. m = IF id \in 1 .. n THEN n ELSE n + 1
  BY GrownArchetypes
<1>4. CASE id \in 1 .. n
  <2>1. ents = archetypeEntities /\ m = n
    BY <1>2, <1>3, <1>4 DEF Grown
  <2>2. QED
    BY <1>1, <2>1 DEF RowsMatch
<1>5. CASE id = n + 1
  <2>1. m = n + 1
    BY <1>1, <1>3, <1>5
  <2>2. archetypeEntities \in Seq(Seq(Entity))
    BY <1>1, <1>2, SeqDef DEF Tables
  <2>3. <<>> \in Seq(Entity)
    OBVIOUS
  <2>4. ents \in Seq(Seq(Entity))
    BY <2>2, <2>3, GrownType
  <2>5. Len(ents) = m
    BY <1>1, <1>2, <1>5, <2>1, <2>2, GrownLen
  <2>6. \A a \in 1 .. n : ents[a] = archetypeEntities[a]
    BY <1>2, <2>2, GrownOld
  <2>7. ents[m] = <<>>
    <3>1. Grown(archetypeEntities, n + 1, <<>>)[n + 1] = <<>>
      BY <1>2, <2>2, GrownFresh
    <3>2. QED
      BY <1>5, <2>1, <3>1
  <2> HIDE DEF ents
  <2>8. ents \in [1 .. m -> Seq(Entity)]
    BY <2>4, <2>5
  <2>9. ents \in Tables(m)
    BY <2>8 DEF Tables
  <2>10. Corresponds(m, ents, entityLocations, entityGenerations)
    BY <1>1, <2>1, <2>6, <2>7, <2>9, GrowMatches DEF RowsMatch
  <2>11. QED
    BY <2>6, <2>9, <2>10 DEF ents
<1>6. QED
  BY <1>1, <1>4, <1>5

(* A row and its entity leave the tables: the types of what is left.       *)
LEMMA TakeOutTypes ==
  ASSUME NEW n \in Nat, NEW ents \in Tables(n), NEW locs \in [Index -> Location],
         Corresponds(n, ents, locs, entityGenerations),
         NEW a \in 1 .. n, NEW r \in 1 .. Len(ents[a])
  PROVE  /\ WithoutRow(ents, a, r) \in Tables(n)
         /\ WithoutEntity(locs, ents, a, r) \in [Index -> Location]
         /\ \A i \in Index : i # ents[a][r].index =>
              (WithoutEntity(locs, ents, a, r)[i] = NoLocation <=> locs[i] = NoLocation)
         /\ WithoutEntity(locs, ents, a, r)[ents[a][r].index] = NoLocation
<1> DEFINE last == ents[a][Len(ents[a])]
           e    == ents[a][r]
           left == [[locs EXCEPT ![last.index] = [arch |-> a, row |-> r]]
                      EXCEPT ![e.index] = NoLocation]
<1>1. ents[a] \in Seq(Entity) /\ r \in 1 .. Len(ents[a]) /\ Len(ents[a]) \in 1 .. Len(ents[a])
  BY TablesRows
<1>2. last.index \in Index /\ e.index \in Index
  BY <1>1, TablesRows, EntityFields
<1>3. SwapRemove(ents[a], r) \in Seq(Entity)
  BY <1>1, SwapRemoveProperties
<1>4. WithoutRow(ents, a, r) \in Tables(n)
  BY <1>3 DEF Tables, WithoutRow
<1>5. [arch |-> a, row |-> r] \in Location /\ NoLocation \in Location
  BY <1>1 DEF Location, NoLocation
<1>6. left \in [Index -> Location]
  BY <1>5
<1>7. \A i \in Index : left[i] = IF i = e.index THEN NoLocation
                                 ELSE IF i = last.index THEN [arch |-> a, row |-> r]
                                 ELSE locs[i]
  OBVIOUS
<1>8. locs[last.index] # NoLocation /\ [arch |-> a, row |-> r] # NoLocation
  <2>1. locs[last.index] = [arch |-> a, row |-> Len(ents[a])]
    BY <1>1 DEF Corresponds
  <2>2. QED
    BY <1>1, <2>1 DEF NoLocation
<1> HIDE DEF left, e, last
<1>9. \A i \in Index : i # e.index => (left[i] = NoLocation <=> locs[i] = NoLocation)
  BY <1>7, <1>8
<1>10. left[e.index] = NoLocation
  BY <1>2, <1>7
<1>11. QED
  BY <1>4, <1>6, <1>9, <1>10 DEF left, e, last, WithoutEntity

(* A pushed row: the types of the tables.                                  *)
LEMMA PushTypes ==
  ASSUME NEW n \in Nat, NEW ents \in Tables(n), NEW locs \in [Index -> Location],
         NEW e \in Entity, NEW a \in 1 .. n
  PROVE  /\ WithRow(ents, a, e) \in Tables(n)
         /\ WithEntity(locs, ents, a, e) \in [Index -> Location]
         /\ \A i \in Index : i # e.index => WithEntity(locs, ents, a, e)[i] = locs[i]
         /\ WithEntity(locs, ents, a, e)[e.index] # NoLocation
<1> DEFINE new == [arch |-> a, row |-> Len(ents[a]) + 1]
<1>1. ents[a] \in Seq(Entity) /\ e.index \in Index
  BY TablesRows, EntityFields
<1>2. Append(ents[a], e) \in Seq(Entity)
  BY <1>1
<1>3. WithRow(ents, a, e) \in Tables(n)
  BY <1>2 DEF Tables, WithRow
<1>4. new \in Location /\ new # NoLocation
  BY <1>1 DEF Location, NoLocation
<1> HIDE DEF new
<1>5. [locs EXCEPT ![e.index] = new] \in [Index -> Location]
  BY <1>4
<1>6. \A i \in Index : i # e.index => [locs EXCEPT ![e.index] = new][i] = locs[i]
  OBVIOUS
<1>7. [locs EXCEPT ![e.index] = new][e.index] # NoLocation
  BY <1>1, <1>4
<1>8. QED
  BY <1>3, <1>5, <1>6, <1>7 DEF new, WithEntity

(* MoveRow is a row taken out and the same entity pushed elsewhere.        *)
LEMMA MoveRowKeepsRows ==
  ASSUME RowsType, RowsMatch, NEW e \in Entity, IsAlive(e),
         NEW id, NEW set \in SUBSET Component, Resolves(id, set), id # LocationOf(e).arch,
         NEW factories, NEW values,
         MoveRow(e, LocationOf(e), id, set, factories, values),
         UNCHANGED entityGenerations
  PROVE  /\ archetypeEntities' \in Tables(Len(archetypes'))
         /\ entityLocations' \in [Index -> Location]
         /\ RowsMatch'
         /\ \A i \in Index : entityLocations'[i] = NoLocation <=> entityLocations[i] = NoLocation
<1> DEFINE at   == LocationOf(e)
           m    == Len(archetypes')
           ents == Grown(archetypeEntities, id, <<>>)
           mid  == WithoutRow(ents, at.arch, at.row)
           left == WithoutEntity(entityLocations, ents, at.arch, at.row)
<1>1. /\ at.arch \in 1 .. Len(archetypes)
      /\ at.row \in 1 .. Len(archetypeEntities[at.arch])
      /\ archetypeEntities[at.arch][at.row] = e
      /\ at \in Location
  BY LocatedRow
<1>2. archetypes' = Grown(archetypes, id, set)
  BY DEF MoveRow
<1>3. /\ m \in Nat
      /\ id \in 1 .. m
      /\ 1 .. Len(archetypes) \subseteq 1 .. m
  BY <1>2, GrownArchetypes DEF RowsType
<1>4. /\ ents \in Tables(m)
      /\ Corresponds(m, ents, entityLocations, entityGenerations)
      /\ ents[at.arch] = archetypeEntities[at.arch]
  BY <1>1, <1>2, GrownRows
<1>5. at = [arch |-> at.arch, row |-> at.row]
  BY <1>1 DEF Location
<1>6. entityLocations \in [Index -> Location]
  BY DEF RowsType
<1>7. archetypeEntities' = WithRow(mid, id, e)
  BY DEF MoveRow, WithRow, WithoutRow
<1>8. mid[id] = ents[id]
  BY <1>3, <1>4 DEF Tables, WithoutRow
<1>9. entityLocations' = WithEntity(left, mid, id, e)
  <2>1. entityLocations' = [Vacated(entityLocations, at) EXCEPT
                              ![e.index] = [arch |-> id, row |-> Len(ents[id]) + 1]]
    BY DEF MoveRow
  <2>2. e.index \in Index
    BY EntityFields
  <2>3. QED
    BY <1>1, <1>4, <1>5, <1>6, <1>8, <2>1, <2>2 DEF Vacated, WithEntity, WithoutEntity
<1> HIDE DEF at, m, ents
<1>10. /\ mid \in Tables(m)
       /\ left \in [Index -> Location]
       /\ \A i \in Index : i # e.index => (left[i] = NoLocation <=> entityLocations[i] = NoLocation)
       /\ left[e.index] = NoLocation
  <2>1. at.arch \in 1 .. m /\ at.row \in 1 .. Len(ents[at.arch]) /\ ents[at.arch][at.row] = e
    BY <1>1, <1>3, <1>4
  <2>2. /\ mid \in Tables(m)
        /\ left \in [Index -> Location]
        /\ \A i \in Index : i # ents[at.arch][at.row].index =>
             (left[i] = NoLocation <=> entityLocations[i] = NoLocation)
        /\ left[ents[at.arch][at.row].index] = NoLocation
    BY <1>3, <1>4, <1>6, <2>1, TakeOutTypes
  <2>3. QED
    BY <2>1, <2>2
<1>11. Corresponds(m, mid, left, entityGenerations)
  <2>1. at.arch \in 1 .. m /\ at.row \in 1 .. Len(ents[at.arch])
    BY <1>1, <1>3, <1>4
  <2>2. QED
    BY <1>3, <1>4, <1>6, <2>1, TakeOutMatches
<1> HIDE DEF mid, left
<1>12. entityGenerations[e.index] = e.generation /\ entityLocations[e.index] # NoLocation
       /\ e.index \in Index
  BY EntityFields DEF IsAlive, LocationOf
<1>13. /\ archetypeEntities' \in Tables(m)
       /\ entityLocations' \in [Index -> Location]
       /\ \A i \in Index : i # e.index => entityLocations'[i] = left[i]
       /\ entityLocations'[e.index] # NoLocation
  BY <1>3, <1>7, <1>9, <1>10, PushTypes
<1>14. Corresponds(m, archetypeEntities', entityLocations', entityGenerations)
  BY <1>3, <1>7, <1>9, <1>10, <1>11, <1>12, PushMatches
<1>15. RowsMatch'
  BY <1>14 DEF RowsMatch, m
<1>16. \A i \in Index : entityLocations'[i] = NoLocation <=> entityLocations[i] = NoLocation
  BY <1>10, <1>12, <1>13
<1>17. QED
  BY <1>13, <1>15, <1>16 DEF m
-----------------------------------------------------------------------------
(* The free stack.                                                         *)

(* The index a spawn takes is in range and has no row.                     *)
LEMMA AllocatedIndex ==
  ASSUME RowsType, FreeIndicesExact, NEW i \in Index, Allocate(i)
  PROVE  entityLocations[i] = NoLocation
<1>1. CASE freeIndices # <<>>
  <2>1. Len(freeIndices) \in DOMAIN freeIndices /\ i = freeIndices[Len(freeIndices)]
    BY <1>1 DEF Allocate, RowsType
  <2>2. QED
    BY <2>1 DEF FreeIndicesExact
<1>2. CASE freeIndices = <<>>
  <2>1. i = nextEntityIndex
    BY <1>2 DEF Allocate
  <2>2. i >= nextEntityIndex
    BY <2>1 DEF Index
  <2>3. QED
    BY <2>2 DEF FreeIndicesExact
<1>3. QED
  BY <1>1, <1>2

(* Taking an index and giving it a row keeps the free stack exact.         *)
LEMMA AllocateKeepsFree ==
  ASSUME RowsType, FreeIndicesExact, NEW i \in Index, Allocate(i),
         entityLocations'[i] # NoLocation,
         \A j \in Index : j # i => entityLocations'[j] = entityLocations[j]
  PROVE  /\ FreeIndicesExact'
         /\ freeIndices' \in Seq(Index)
         /\ nextEntityIndex' \in 0 .. MaxEntities
<1>0. MaxEntities \in Nat /\ nextEntityIndex \in 0 .. MaxEntities /\ freeIndices \in Seq(Index)
      /\ entityGenerations' = entityGenerations
  BY MaxEntitiesAssumption DEF RowsType, Allocate
<1>1. CASE freeIndices # <<>>
  <2> DEFINE k == Len(freeIndices)
  <2>1. /\ k \in 1 .. k /\ k \in Nat /\ i = freeIndices[k]
        /\ freeIndices' = SubSeq(freeIndices, 1, k - 1)
        /\ nextEntityIndex' = nextEntityIndex
    BY <1>0, <1>1 DEF Allocate
  <2>2. /\ freeIndices' \in Seq(Index)
        /\ Len(freeIndices') = k - 1
        /\ \A j \in 1 .. k - 1 : freeIndices'[j] = freeIndices[j]
    BY <1>0, <1>1, <2>1, PopProperties
  <2>3. DOMAIN freeIndices = 1 .. k /\ DOMAIN freeIndices' = 1 .. k - 1
    BY <1>0, <2>2
  <2>4. \A j \in 1 .. k - 1 : j \in 1 .. k /\ j # k
    BY <2>1
  <2>5. \A j, l \in DOMAIN freeIndices' : freeIndices'[j] = freeIndices'[l] => j = l
    BY <2>2, <2>3, <2>4 DEF FreeIndicesExact
  <2>6. ASSUME NEW x \in {freeIndices'[l] : l \in DOMAIN freeIndices'}
        PROVE  x \in Index /\ x < nextEntityIndex' /\ entityLocations'[x] = NoLocation
    <3>1. PICK l \in 1 .. k - 1 : x = freeIndices[l]
      BY <2>2, <2>3
    <3>2. x # i
      BY <2>1, <2>3, <2>4, <3>1 DEF FreeIndicesExact
    <3>3. x \in {j \in Index : j < nextEntityIndex /\ entityLocations[j] = NoLocation}
      BY <2>3, <2>4, <3>1 DEF FreeIndicesExact
    <3>4. QED
      BY <2>1, <3>2, <3>3
  <2>7. ASSUME NEW x \in Index, x < nextEntityIndex', entityLocations'[x] = NoLocation
        PROVE  x \in {freeIndices'[l] : l \in DOMAIN freeIndices'}
    <3>1. x # i /\ x < nextEntityIndex /\ entityLocations[x] = NoLocation
      BY <2>1, <2>7
    <3>2. PICK l \in 1 .. k : x = freeIndices[l]
      BY <2>3, <3>1 DEF FreeIndicesExact
    <3>3. l \in 1 .. k - 1
      BY <2>1, <3>1, <3>2
    <3>4. QED
      BY <2>2, <2>3, <3>2, <3>3
  <2>8. {freeIndices'[l] : l \in DOMAIN freeIndices'}
          = {x \in Index : x < nextEntityIndex' /\ entityLocations'[x] = NoLocation}
    BY <2>6, <2>7
  <2>9. \A x \in Index : x >= nextEntityIndex' =>
          entityLocations'[x] = NoLocation /\ entityGenerations'[x] = 0
    <3>1. i < nextEntityIndex
      BY <2>1, <2>3 DEF FreeIndicesExact
    <3>2. QED
      BY <1>0, <2>1, <3>1 DEF FreeIndicesExact, Index
  <2>10. QED
    BY <1>0, <2>1, <2>2, <2>5, <2>8, <2>9 DEF FreeIndicesExact
<1>2. CASE freeIndices = <<>>
  <2>1. i = nextEntityIndex /\ nextEntityIndex' = nextEntityIndex + 1 /\ freeIndices' = freeIndices
    BY <1>2 DEF Allocate
  <2>2. nextEntityIndex' \in 0 .. MaxEntities
    BY <1>0, <2>1 DEF Index
  <2>3. \A x \in Index : x < nextEntityIndex' => x < nextEntityIndex \/ x = i
    BY <1>0, <2>1 DEF Index
  <2>4. DOMAIN freeIndices = {} /\ DOMAIN freeIndices' = {}
    BY <1>2, <2>1
  <2>5. {x \in Index : x < nextEntityIndex' /\ entityLocations'[x] = NoLocation} = {}
    BY <2>3, <2>4 DEF FreeIndicesExact
  <2>6. \A x \in Index : x >= nextEntityIndex' => x >= nextEntityIndex /\ x # i
    BY <1>0, <2>1 DEF Index
  <2>7. \A x \in Index : x >= nextEntityIndex' =>
          entityLocations'[x] = NoLocation /\ entityGenerations'[x] = 0
    BY <1>0, <2>6 DEF FreeIndicesExact
  <2>8. QED
    BY <1>0, <2>1, <2>2, <2>4, <2>5, <2>7 DEF FreeIndicesExact
<1>3. QED
  BY <1>1, <1>2

(* Retiring an index that loses its row keeps the free stack exact.        *)
LEMMA RetireKeepsFree ==
  ASSUME RowsType, FreeIndicesExact, NEW i \in Index, Retire(i),
         entityLocations[i] # NoLocation,
         entityLocations'[i] = NoLocation,
         \A j \in Index : j # i => (entityLocations'[j] = NoLocation <=> entityLocations[j] = NoLocation)
  PROVE  /\ FreeIndicesExact'
         /\ freeIndices' \in Seq(Index)
         /\ entityGenerations' \in [Index -> Nat]
<1> DEFINE k == Len(freeIndices)
<1>1. /\ nextEntityIndex \in Nat /\ nextEntityIndex' = nextEntityIndex
      /\ freeIndices' = Append(freeIndices, i)
      /\ freeIndices \in Seq(Index) /\ k \in Nat
      /\ entityGenerations' = [entityGenerations EXCEPT ![i] = @ + 1]
  BY DEF Retire, RowsType
<1>2. /\ freeIndices' \in Seq(Index)
      /\ DOMAIN freeIndices = 1 .. k /\ DOMAIN freeIndices' = 1 .. k + 1
      /\ \A j \in 1 .. k : freeIndices'[j] = freeIndices[j]
      /\ freeIndices'[k + 1] = i
  BY <1>1
<1>3. entityGenerations' \in [Index -> Nat]
  BY <1>1 DEF RowsType
<1>4. \A j \in 1 .. k : freeIndices[j] # i
  BY <1>2 DEF FreeIndicesExact
<1>5. \A j \in 1 .. k + 1 : j \in 1 .. k \/ j = k + 1
  BY <1>1
<1>6. 1 .. k \subseteq 1 .. k + 1 /\ k + 1 \in 1 .. k + 1
  BY <1>1
<1>7. \A j, l \in DOMAIN freeIndices' : freeIndices'[j] = freeIndices'[l] => j = l
  BY <1>2, <1>4, <1>5 DEF FreeIndicesExact
<1>8. i < nextEntityIndex
  BY <1>1 DEF FreeIndicesExact, Index
<1>9. ASSUME NEW x \in {freeIndices'[l] : l \in DOMAIN freeIndices'}
      PROVE  x \in Index /\ x < nextEntityIndex' /\ entityLocations'[x] = NoLocation
  <2>1. PICK l \in 1 .. k + 1 : x = freeIndices'[l]
    BY <1>2
  <2>2. CASE l = k + 1
    BY <1>1, <1>2, <1>8, <2>1, <2>2
  <2>3. CASE l \in 1 .. k
    <3>1. x = freeIndices[l] /\ x # i
      BY <1>2, <1>4, <2>1, <2>3
    <3>2. x \in Index /\ x < nextEntityIndex /\ entityLocations[x] = NoLocation
      BY <1>2, <2>3, <3>1 DEF FreeIndicesExact
    <3>3. QED
      BY <1>1, <3>1, <3>2
  <2>4. QED
    BY <1>5, <2>2, <2>3
<1>10. ASSUME NEW x \in Index, x < nextEntityIndex', entityLocations'[x] = NoLocation
       PROVE  x \in {freeIndices'[l] : l \in DOMAIN freeIndices'}
  <2>1. CASE x = i
    BY <1>2, <1>6, <2>1
  <2>2. CASE x # i
    <3>1. x < nextEntityIndex /\ entityLocations[x] = NoLocation
      BY <1>1, <1>10, <2>2
    <3>2. PICK l \in 1 .. k : x = freeIndices[l]
      BY <1>2, <3>1 DEF FreeIndicesExact
    <3>3. QED
      BY <1>2, <1>6, <3>2
  <2>3. QED
    BY <2>1, <2>2
<1>11. {freeIndices'[l] : l \in DOMAIN freeIndices'}
         = {x \in Index : x < nextEntityIndex' /\ entityLocations'[x] = NoLocation}
  BY <1>9, <1>10
<1>12. \A x \in Index : x >= nextEntityIndex' =>
         entityLocations'[x] = NoLocation /\ entityGenerations'[x] = 0
  <2>1. ASSUME NEW x \in Index, x >= nextEntityIndex
        PROVE  x # i
    BY <1>1, <1>8, <2>1 DEF Index
  <2>2. QED
    BY <1>1, <2>1 DEF FreeIndicesExact, RowsType
<1>13. QED
  BY <1>2, <1>3, <1>7, <1>11, <1>12 DEF FreeIndicesExact
-----------------------------------------------------------------------------
(* The steps of the specification.                                         *)

(* The transition caches of a new archetype are empty.                     *)
LEMMA GrownTransitions ==
  ASSUME NEW n \in Nat, NEW id \in 1 .. n + 1, NEW m \in Nat,
         id \in 1 .. n => m = n, id \notin 1 .. n => m = n + 1,
         NEW table \in Transitions(n)
  PROVE  /\ Grown(table, id, NoTransitions) \in Transitions(m)
         /\ \A a \in 1 .. n : Grown(table, id, NoTransitions)[a] = table[a]
         /\ \A a \in 1 .. m : a \notin 1 .. n => Grown(table, id, NoTransitions)[a] = NoTransitions
<1> DEFINE S == [Component -> Nat]
           grown == Grown(table, id, NoTransitions)
<1>1. NoTransitions \in S
  BY DEF NoTransitions
<1>2. table \in [1 .. n -> S]
  BY DEF Transitions
<1> HIDE DEF S
<1>3. table \in Seq(S) /\ Len(table) = n
  BY <1>2, SeqDef
<1>4. grown \in Seq(S)
  BY <1>1, <1>3, GrownType
<1>5. Len(grown) = m
  BY <1>3, GrownLen
<1>6. \A a \in 1 .. n : grown[a] = table[a]
  BY <1>3, GrownOld
<1>7. id = n + 1 => grown[n + 1] = NoTransitions
  BY <1>3, GrownFresh
<1> HIDE DEF grown
<1>8. \A a \in 1 .. m : a \notin 1 .. n => grown[a] = NoTransitions
  BY <1>7
<1>9. grown \in [1 .. m -> S]
  BY <1>4, <1>5
<1>10. QED
  BY <1>6, <1>8, <1>9 DEF S, grown, Transitions

(* Caching one transition out of archetype a, after the table grew.        *)
WithTransition(table, a, c, id) == [table EXCEPT ![a][c] = id]

(* All that `now' has cached beyond `table' is id, for type c, from a.     *)
CachesOnly(now, table, n, m, a, c, id) ==
  \A b \in 1 .. m, x \in Component :
    \/ now[b][x] = 0
    \/ b \in 1 .. n /\ now[b][x] = table[b][x]
    \/ b = a /\ x = c /\ now[b][x] = id

(* Caching a transition changes one entry and leaves new rows empty.     *)
LEMMA CachedTransition ==
  ASSUME NEW n \in Nat, NEW id \in 1 .. n + 1, NEW m \in Nat,
         id \in 1 .. n => m = n, id \notin 1 .. n => m = n + 1,
         NEW table \in Transitions(n), NEW a \in 1 .. n, NEW c \in Component
  PROVE  /\ WithTransition(Grown(table, id, NoTransitions), a, c, id) \in Transitions(m)
         /\ CachesOnly(WithTransition(Grown(table, id, NoTransitions), a, c, id),
                       table, n, m, a, c, id)
<1> DEFINE grown == Grown(table, id, NoTransitions)
           row == [grown[a] EXCEPT ![c] = id]
           now == WithTransition(grown, a, c, id)
<1>1. /\ grown \in Transitions(m)
      /\ \A b \in 1 .. n : grown[b] = table[b]
      /\ \A b \in 1 .. m : b \notin 1 .. n => grown[b] = NoTransitions
  BY GrownTransitions
<1>2. id \in Nat /\ a \in 1 .. m
  OBVIOUS
<1> HIDE DEF grown
<1>3. grown[a] \in [Component -> Nat]
  BY <1>1, <1>2 DEF Transitions
<1>4. row \in [Component -> Nat]
  BY <1>2, <1>3
<1>5. \A x \in Component : row[x] = IF x = c THEN id ELSE grown[a][x]
  BY <1>3
<1>6. now = [grown EXCEPT ![a] = row]
  BY DEF WithTransition
<1> HIDE DEF row, now
<1>7. now \in Transitions(m)
  BY <1>1, <1>4, <1>6 DEF Transitions
<1>8. \A b \in 1 .. m : now[b] = IF b = a THEN row ELSE grown[b]
  BY <1>1, <1>6 DEF Transitions
<1>9. ASSUME NEW b \in 1 .. m, NEW x \in Component
      PROVE  \/ now[b][x] = 0
             \/ b \in 1 .. n /\ now[b][x] = table[b][x]
             \/ b = a /\ x = c /\ now[b][x] = id
  BY <1>1, <1>5, <1>8 DEF NoTransitions
<1>10. QED
  BY <1>7, <1>9 DEF now, grown, CachesOnly

(* How many archetypes there are after one was resolved.                   *)
LEMMA ResolvedCount ==
  ASSUME RowsType, NEW id, NEW set \in SUBSET Component, Resolves(id, set),
         archetypes' = Grown(archetypes, id, set)
  PROVE  /\ Len(archetypes) \in Nat
         /\ id \in 1 .. Len(archetypes) + 1
         /\ Len(archetypes') \in Nat
         /\ id \in 1 .. Len(archetypes) => Len(archetypes') = Len(archetypes)
         /\ id \notin 1 .. Len(archetypes) => Len(archetypes') = Len(archetypes) + 1
BY GrownArchetypes DEF RowsType, Resolves

(* A spawn: an index from the allocator and one pushed row.                *)
LEMMA SpawnKeepsRows ==
  ASSUME RowsInv, NEW i \in Index, Allocate(i),
         NEW id, NEW set \in SUBSET Component, Resolves(id, set),
         archetypes' = Grown(archetypes, id, set),
         archetypeEntities' = WithRow(Grown(archetypeEntities, id, <<>>), id, HandleAt(i)),
         entityLocations' =
           WithEntity(entityLocations, Grown(archetypeEntities, id, <<>>), id, HandleAt(i))
  PROVE  /\ archetypeEntities' \in Tables(Len(archetypes'))
         /\ entityLocations' \in [Index -> Location]
         /\ RowsMatch'
         /\ FreeIndicesExact'
         /\ freeIndices' \in Seq(Index)
         /\ nextEntityIndex' \in 0 .. MaxEntities
<1> DEFINE m == Len(archetypes')
           ents == Grown(archetypeEntities, id, <<>>)
           h == HandleAt(i)
<1>1. h \in Entity /\ h.index = i /\ h.generation = entityGenerations[i]
  BY DEF RowsInv, RowsType, HandleAt, Entity
<1>2. m \in Nat /\ id \in 1 .. m
  BY GrownArchetypes DEF RowsInv
<1>3. ents \in Tables(m) /\ Corresponds(m, ents, entityLocations, entityGenerations)
  BY GrownRows DEF RowsInv
<1>4. entityLocations[i] = NoLocation
  BY AllocatedIndex DEF RowsInv
<1>5. entityLocations \in [Index -> Location]
  BY DEF RowsInv, RowsType
<1> HIDE DEF m, ents, h
<1>6. /\ WithRow(ents, id, h) \in Tables(m)
      /\ WithEntity(entityLocations, ents, id, h) \in [Index -> Location]
      /\ \A j \in Index : j # h.index =>
           WithEntity(entityLocations, ents, id, h)[j] = entityLocations[j]
      /\ WithEntity(entityLocations, ents, id, h)[h.index] # NoLocation
  BY <1>1, <1>2, <1>3, <1>5, PushTypes
<1>7. Corresponds(m, WithRow(ents, id, h), WithEntity(entityLocations, ents, id, h), entityGenerations)
  BY <1>1, <1>2, <1>3, <1>4, <1>5, PushMatches
<1>8. archetypeEntities' = WithRow(ents, id, h)
      /\ entityLocations' = WithEntity(entityLocations, ents, id, h)
  BY DEF ents, h
<1>9. entityGenerations' = entityGenerations
  BY DEF Allocate
<1>10. RowsMatch'
  BY <1>7, <1>8, <1>9 DEF RowsMatch, m
<1>11. entityLocations'[i] # NoLocation
       /\ \A j \in Index : j # i => entityLocations'[j] = entityLocations[j]
  BY <1>1, <1>6, <1>8
<1>12. FreeIndicesExact' /\ freeIndices' \in Seq(Index) /\ nextEntityIndex' \in 0 .. MaxEntities
  BY <1>11, AllocateKeepsFree DEF RowsInv
<1>13. QED
  BY <1>6, <1>8, <1>10, <1>12 DEF m

(* RowsType survives a step that resolves an archetype.                    *)
LEMMA ResolvedTypes ==
  ASSUME RowsType, NEW id, NEW set \in SUBSET Component, Resolves(id, set),
         archetypes' = Grown(archetypes, id, set)
  PROVE  /\ archetypes' \in Seq(SUBSET Component)
         /\ Len(archetypes') \in Nat \ {0}
         /\ archetypes'[EmptyArchetype] = {}
         /\ id \in Nat
<1>1. EmptyArchetype \in 1 .. Len(archetypes) /\ archetypes[EmptyArchetype] = {}
  BY DEF RowsType, EmptyArchetype
<1>2. id \in Nat
  BY DEF Resolves, RowsType
<1>3. QED
  BY <1>1, <1>2, GrownArchetypes

(* A bundle's types are component types.                                 *)
LEMMA BundleTypes ==
  \A b \in Bundle : Types(b) \in SUBSET Component
BY BundleAssumption DEF Types

(* spawn_empty: an index leaves the free stack and becomes a row.        *)
LEMMA SpawnEmptyKeeps ==
  ASSUME RowsInv, SpawnEmpty
  PROVE  RowsInv'
<1>1. PICK i \in Index :
        /\ Allocate(i)
        /\ archetypeEntities' = [archetypeEntities EXCEPT ![EmptyArchetype] = Append(@, HandleAt(i))]
        /\ entityLocations' = [entityLocations EXCEPT
             ![i] = [arch |-> EmptyArchetype, row |-> Len(archetypeEntities[EmptyArchetype]) + 1]]
        /\ UNCHANGED <<archetypes, caches>>
  BY DEF SpawnEmpty
<1>2. EmptyArchetype \in 1 .. Len(archetypes) /\ DOMAIN archetypes = 1 .. Len(archetypes)
      /\ DOMAIN archetypeEntities = 1 .. Len(archetypes)
  BY DEF RowsInv, RowsType, EmptyArchetype, Tables
<1>3. Resolves(EmptyArchetype, {}) /\ {} \in SUBSET Component
  BY <1>2 DEF RowsInv, RowsType, Resolves
<1>4. archetypes' = Grown(archetypes, EmptyArchetype, {})
      /\ archetypeEntities = Grown(archetypeEntities, EmptyArchetype, <<>>)
  BY <1>1, <1>2 DEF Grown
<1>5. HandleAt(i).index = i
  BY DEF HandleAt
<1>6. /\ archetypeEntities' =
           WithRow(Grown(archetypeEntities, EmptyArchetype, <<>>), EmptyArchetype, HandleAt(i))
      /\ entityLocations' =
           WithEntity(entityLocations, Grown(archetypeEntities, EmptyArchetype, <<>>),
                      EmptyArchetype, HandleAt(i))
  BY <1>1, <1>4, <1>5 DEF WithRow, WithEntity
<1>7. /\ archetypeEntities' \in Tables(Len(archetypes'))
      /\ entityLocations' \in [Index -> Location]
      /\ RowsMatch'
      /\ FreeIndicesExact'
      /\ freeIndices' \in Seq(Index)
      /\ nextEntityIndex' \in 0 .. MaxEntities
  BY <1>1, <1>3, <1>4, <1>6, SpawnKeepsRows
<1>8. ShortcutsResolve'
  BY <1>1 DEF RowsInv, ShortcutsResolve, caches
<1>9. entityGenerations' = entityGenerations
  BY <1>1 DEF Allocate
<1>10. RowsType'
  BY <1>1, <1>7, <1>9 DEF RowsInv, RowsType, caches
<1>11. QED
  BY <1>7, <1>8, <1>10 DEF RowsInv

(* spawn_with: the row may be the first one of a new archetype.          *)
LEMMA SpawnWithKeeps ==
  ASSUME RowsInv, NEW b \in Bundle, NEW value, SpawnWith(b, value)
  PROVE  RowsInv'
<1> DEFINE id == IF bundleArchetypes[b] # 0 THEN bundleArchetypes[b] ELSE ArchetypeFor(Types(b))
           ents == Grown(archetypeEntities, id, <<>>)
<1>0. /\ RowsType
      /\ addTransitions \in Transitions(Len(archetypes))
      /\ removeTransitions \in Transitions(Len(archetypes))
  BY DEF RowsInv, RowsType
<1>1. PICK i \in Index :
        /\ Allocate(i)
        /\ bundleArchetypes' = [bundleArchetypes EXCEPT ![b] = id]
        /\ archetypes' = Grown(archetypes, id, Types(b))
        /\ addTransitions' = Grown(addTransitions, id, NoTransitions)
        /\ removeTransitions' = Grown(removeTransitions, id, NoTransitions)
        /\ archetypeEntities' = [ents EXCEPT ![id] = Append(@, HandleAt(i))]
        /\ entityLocations' = [entityLocations EXCEPT
             ![i] = [arch |-> id, row |-> Len(ents[id]) + 1]]
        /\ UNCHANGED singleComponentArchetypes
  BY DEF SpawnWith
<1>2. Types(b) \in SUBSET Component
  BY BundleTypes
<1>3. Resolves(id, Types(b))
  <2>1. CASE bundleArchetypes[b] # 0
    BY <2>1 DEF RowsInv, RowsType, ShortcutsResolve, Resolves
  <2>2. CASE bundleArchetypes[b] = 0
    BY <2>2, ArchetypeForResolves DEF RowsInv
  <2>3. QED
    BY <2>1, <2>2
<1> HIDE DEF id
<1>4. HandleAt(i).index = i
  BY DEF HandleAt
<1>5. /\ archetypeEntities' = WithRow(ents, id, HandleAt(i))
      /\ entityLocations' = WithEntity(entityLocations, ents, id, HandleAt(i))
  BY <1>1, <1>4 DEF WithRow, WithEntity
<1>6. /\ archetypeEntities' \in Tables(Len(archetypes'))
      /\ entityLocations' \in [Index -> Location]
      /\ RowsMatch'
      /\ FreeIndicesExact'
      /\ freeIndices' \in Seq(Index)
      /\ nextEntityIndex' \in 0 .. MaxEntities
  BY <1>1, <1>2, <1>3, <1>5, SpawnKeepsRows
<1>55. /\ Len(archetypes) \in Nat
       /\ id \in 1 .. Len(archetypes) + 1
       /\ Len(archetypes') \in Nat
       /\ id \in 1 .. Len(archetypes) => Len(archetypes') = Len(archetypes)
       /\ id \notin 1 .. Len(archetypes) => Len(archetypes') = Len(archetypes) + 1
  BY <1>0, <1>1, <1>2, <1>3, ResolvedCount
<1>7. /\ archetypes' \in Seq(SUBSET Component)
      /\ Len(archetypes') \in Nat \ {0}
      /\ archetypes'[EmptyArchetype] = {}
      /\ id \in Nat
  BY <1>1, <1>2, <1>3, ResolvedTypes DEF RowsInv
<1>8. /\ addTransitions' \in Transitions(Len(archetypes'))
      /\ \A a \in 1 .. Len(archetypes) : addTransitions'[a] = addTransitions[a]
      /\ \A a \in 1 .. Len(archetypes') : a \notin 1 .. Len(archetypes) =>
           addTransitions'[a] = NoTransitions
  <2> DEFINE n == Len(archetypes)
             m == Len(archetypes')
             grown == Grown(addTransitions, id, NoTransitions)
  <2>1. /\ n \in Nat /\ id \in 1 .. n + 1 /\ m \in Nat
        /\ id \in 1 .. n => m = n
        /\ id \notin 1 .. n => m = n + 1
        /\ addTransitions \in Transitions(n)
    BY <1>0, <1>55
  <2> HIDE DEF n, m
  <2>2. /\ grown \in Transitions(m)
        /\ \A a \in 1 .. n : grown[a] = addTransitions[a]
        /\ \A a \in 1 .. m : a \notin 1 .. n => grown[a] = NoTransitions
    BY <2>1, GrownTransitions
  <2>3. QED
    BY <1>1, <2>2 DEF n, m
<1>9. /\ removeTransitions' \in Transitions(Len(archetypes'))
      /\ \A a \in 1 .. Len(archetypes) : removeTransitions'[a] = removeTransitions[a]
      /\ \A a \in 1 .. Len(archetypes') : a \notin 1 .. Len(archetypes) =>
           removeTransitions'[a] = NoTransitions
  <2> DEFINE n == Len(archetypes)
             m == Len(archetypes')
             grown == Grown(removeTransitions, id, NoTransitions)
  <2>1. /\ n \in Nat /\ id \in 1 .. n + 1 /\ m \in Nat
        /\ id \in 1 .. n => m = n
        /\ id \notin 1 .. n => m = n + 1
        /\ removeTransitions \in Transitions(n)
    BY <1>0, <1>55
  <2> HIDE DEF n, m
  <2>2. /\ grown \in Transitions(m)
        /\ \A a \in 1 .. n : grown[a] = removeTransitions[a]
        /\ \A a \in 1 .. m : a \notin 1 .. n => grown[a] = NoTransitions
    BY <2>1, GrownTransitions
  <2>3. QED
    BY <1>1, <2>2 DEF n, m
<1>10. /\ bundleArchetypes' \in [Bundle -> Nat]
       /\ \A x \in Bundle : \/ bundleArchetypes'[x] = bundleArchetypes[x]
                            \/ bundleArchetypes'[x] = id /\ Types(b) = Types(x)
  BY <1>1, <1>7 DEF RowsInv, RowsType
<1>11. entityGenerations' = entityGenerations
  BY <1>1 DEF Allocate
<1>12. RowsType'
  BY <1>1, <1>6, <1>7, <1>8, <1>9, <1>10, <1>11 DEF RowsInv, RowsType
<1>13. \A c \in Component : NoTransitions[c] = 0
  BY DEF NoTransitions
<1>14. ShortcutsResolve'
  BY <1>1, <1>2, <1>3, <1>8, <1>9, <1>10, <1>13, ShortcutsStep DEF RowsInv
<1>15. QED
  BY <1>6, <1>12, <1>14 DEF RowsInv

(* The bounded handles that Next enumerates are entity handles.          *)
LEMMA HandleEntity ==
  Handle \subseteq Entity
BY MaxGenerationAssumption DEF Handle, Entity

(* despawn: the row is swap-removed and the index goes to the free stack.*)
LEMMA DespawnKeeps ==
  ASSUME RowsInv, NEW e \in Handle, Despawn(e)
  PROVE  RowsInv'
<1> DEFINE at == LocationOf(e)
           n == Len(archetypes)
<1>1. /\ IsAlive(e)
      /\ archetypeEntities' = WithoutRow(archetypeEntities, at.arch, at.row)
      /\ entityLocations' = [Vacated(entityLocations, at) EXCEPT ![e.index] = NoLocation]
      /\ Retire(e.index)
      /\ UNCHANGED <<archetypes, caches>>
  BY DEF Despawn, IsAlive, WithoutRow
<1>2. e \in Entity /\ e.index \in Index
  BY HandleEntity, EntityFields
<1>3. /\ at.arch \in 1 .. n
      /\ at.row \in 1 .. Len(archetypeEntities[at.arch])
      /\ archetypeEntities[at.arch][at.row] = e
      /\ at \in Location
  BY <1>1, <1>2, LocatedRow DEF RowsInv
<1>4. at = [arch |-> at.arch, row |-> at.row]
  BY <1>3 DEF Location
<1>5. entityLocations' = WithoutEntity(entityLocations, archetypeEntities, at.arch, at.row)
  BY <1>1, <1>3, <1>4 DEF Vacated, WithoutEntity
<1>6. /\ n \in Nat
      /\ archetypeEntities \in Tables(n)
      /\ entityLocations \in [Index -> Location]
      /\ Corresponds(n, archetypeEntities, entityLocations, entityGenerations)
      /\ entityGenerations \in [Index -> Nat]
  BY DEF RowsInv, RowsType, RowsMatch
<1>7. entityLocations[e.index] # NoLocation
  BY <1>1 DEF IsAlive, LocationOf
<1>8. \A i \in Index : i # e.index => entityGenerations'[i] = entityGenerations[i]
  BY <1>1, <1>6 DEF Retire
<1> HIDE DEF at, n
<1>9. /\ archetypeEntities' \in Tables(n)
      /\ entityLocations' \in [Index -> Location]
      /\ \A i \in Index : i # e.index =>
           (entityLocations'[i] = NoLocation <=> entityLocations[i] = NoLocation)
      /\ entityLocations'[e.index] = NoLocation
  <2> DEFINE rows == WithoutRow(archetypeEntities, at.arch, at.row)
             left == WithoutEntity(entityLocations, archetypeEntities, at.arch, at.row)
  <2>1. /\ rows \in Tables(n)
        /\ left \in [Index -> Location]
        /\ \A i \in Index : i # archetypeEntities[at.arch][at.row].index =>
             (left[i] = NoLocation <=> entityLocations[i] = NoLocation)
        /\ left[archetypeEntities[at.arch][at.row].index] = NoLocation
    BY <1>3, <1>6, TakeOutTypes
  <2> HIDE DEF rows, left
  <2>2. archetypeEntities' = rows /\ entityLocations' = left
    BY <1>1, <1>5 DEF rows, left
  <2>3. QED
    BY <1>3, <2>1, <2>2
<1>10. Corresponds(n, archetypeEntities', entityLocations', entityGenerations')
  <2>1. \A i \in Index : i # archetypeEntities[at.arch][at.row].index =>
          entityGenerations'[i] = entityGenerations[i]
    BY <1>3, <1>8
  <2>2. Corresponds(n, WithoutRow(archetypeEntities, at.arch, at.row),
                WithoutEntity(entityLocations, archetypeEntities, at.arch, at.row),
                entityGenerations')
    BY <1>3, <1>6, <2>1, TakeOutMatches
  <2>3. QED
    BY <1>1, <1>5, <2>2
<1>11. RowsMatch'
  BY <1>1, <1>10 DEF RowsMatch, n
<1>12. FreeIndicesExact' /\ freeIndices' \in Seq(Index) /\ entityGenerations' \in [Index -> Nat]
  BY <1>1, <1>2, <1>7, <1>9, RetireKeepsFree DEF RowsInv
<1>13. nextEntityIndex' = nextEntityIndex
  BY <1>1 DEF Retire
<1>14. RowsType'
  BY <1>1, <1>9, <1>12, <1>13 DEF RowsInv, RowsType, caches, n
<1>15. ShortcutsResolve'
  BY <1>1 DEF RowsInv, ShortcutsResolve, caches
<1>16. QED
  BY <1>11, <1>12, <1>14, <1>15 DEF RowsInv

(* Nothing but rows and locations: the free stack stays exact.             *)
LEMMA SameAllocatorKeepsFree ==
  ASSUME FreeIndicesExact, UNCHANGED allocator,
         \A i \in Index : entityLocations'[i] = NoLocation <=> entityLocations[i] = NoLocation
  PROVE  FreeIndicesExact'
BY DEF FreeIndicesExact, allocator

(* A move with a resolved destination, whatever is cached on the way.      *)
LEMMA MoveKeeps ==
  ASSUME RowsInv, NEW e \in Entity, IsAlive(e),
         NEW id, NEW set \in SUBSET Component, Resolves(id, set), id # LocationOf(e).arch,
         NEW factories, NEW values,
         MoveRow(e, LocationOf(e), id, set, factories, values),
         UNCHANGED <<allocator, bundleArchetypes>>,
         singleComponentArchetypes' \in [Component -> Nat],
         addTransitions' \in Transitions(Len(archetypes')),
         removeTransitions' \in Transitions(Len(archetypes'))
  PROVE  /\ RowsType'
         /\ RowsMatch'
         /\ FreeIndicesExact'
<1>1. UNCHANGED <<entityGenerations, freeIndices, nextEntityIndex>>
  BY DEF allocator
<1>2. /\ archetypeEntities' \in Tables(Len(archetypes'))
      /\ entityLocations' \in [Index -> Location]
      /\ RowsMatch'
      /\ \A i \in Index : entityLocations'[i] = NoLocation <=> entityLocations[i] = NoLocation
  BY <1>1, MoveRowKeepsRows DEF RowsInv
<1>3. archetypes' = Grown(archetypes, id, set)
  BY DEF MoveRow
<1>4. /\ archetypes' \in Seq(SUBSET Component)
      /\ Len(archetypes') \in Nat \ {0}
      /\ archetypes'[EmptyArchetype] = {}
  BY <1>3, ResolvedTypes DEF RowsInv
<1>5. RowsType'
  BY <1>1, <1>2, <1>4 DEF RowsInv, RowsType
<1>6. FreeIndicesExact'
  BY <1>2, SameAllocatorKeepsFree DEF RowsInv
<1>7. QED
  BY <1>2, <1>5, <1>6

(* The first component of an entity in the empty archetype.                *)
LEMMA AddFirstKeeps ==
  ASSUME RowsInv, NEW e \in Entity, IsAlive(e), NEW c \in Component, NEW v,
         LocationOf(e).arch = EmptyArchetype, AddFirst(e, LocationOf(e), c, v)
  PROVE  RowsInv'
<1> DEFINE at == LocationOf(e)
           id == IF singleComponentArchetypes[c] # 0 THEN singleComponentArchetypes[c]
                 ELSE ArchetypeFor({c})
           factories == IF singleComponentArchetypes[c] # 0 THEN columnFactories
                        ELSE columnFactories \cup {c}
<1>0. /\ RowsType
      /\ singleComponentArchetypes \in [Component -> Nat]
      /\ addTransitions \in Transitions(Len(archetypes))
      /\ removeTransitions \in Transitions(Len(archetypes))
  BY DEF RowsInv, RowsType
<1>1. /\ MoveRow(e, at, id, {c}, factories, [x \in {c} |-> v])
      /\ singleComponentArchetypes' = [singleComponentArchetypes EXCEPT ![c] = id]
      /\ addTransitions' = Grown(addTransitions, id, NoTransitions)
      /\ removeTransitions' = Grown(removeTransitions, id, NoTransitions)
      /\ UNCHANGED <<allocator, bundleArchetypes>>
  BY DEF AddFirst
<1>2. {c} \in SUBSET Component
  OBVIOUS
<1>3. Resolves(id, {c})
  <2>1. CASE singleComponentArchetypes[c] # 0
    BY <2>1 DEF RowsInv, RowsType, ShortcutsResolve, Resolves
  <2>2. CASE singleComponentArchetypes[c] = 0
    BY <2>2, ArchetypeForResolves DEF RowsInv
  <2>3. QED
    BY <2>1, <2>2
<1> HIDE DEF id, factories, at
<1>4. id # at.arch
  <2>1. at.arch \in 1 .. Len(archetypes) /\ archetypes[at.arch] = {}
    BY DEF RowsInv, RowsType, EmptyArchetype, at
  <2>2. QED
    BY <1>3, <2>1 DEF Resolves
<1>5. archetypes' = Grown(archetypes, id, {c})
  BY <1>1 DEF MoveRow
<1>55. /\ Len(archetypes) \in Nat
       /\ id \in 1 .. Len(archetypes) + 1
       /\ Len(archetypes') \in Nat
       /\ id \in 1 .. Len(archetypes) => Len(archetypes') = Len(archetypes)
       /\ id \notin 1 .. Len(archetypes) => Len(archetypes') = Len(archetypes) + 1
  BY <1>0, <1>1, <1>2, <1>3, <1>5, ResolvedCount
<1>6. id \in Nat
  BY <1>2, <1>3, <1>5, ResolvedTypes DEF RowsInv
<1>7. /\ addTransitions' \in Transitions(Len(archetypes'))
      /\ \A a \in 1 .. Len(archetypes) : addTransitions'[a] = addTransitions[a]
      /\ \A a \in 1 .. Len(archetypes') : a \notin 1 .. Len(archetypes) =>
           addTransitions'[a] = NoTransitions
  <2> DEFINE n == Len(archetypes)
             m == Len(archetypes')
             grown == Grown(addTransitions, id, NoTransitions)
  <2>1. /\ n \in Nat /\ id \in 1 .. n + 1 /\ m \in Nat
        /\ id \in 1 .. n => m = n
        /\ id \notin 1 .. n => m = n + 1
        /\ addTransitions \in Transitions(n)
    BY <1>0, <1>55
  <2> HIDE DEF n, m
  <2>2. /\ grown \in Transitions(m)
        /\ \A a \in 1 .. n : grown[a] = addTransitions[a]
        /\ \A a \in 1 .. m : a \notin 1 .. n => grown[a] = NoTransitions
    BY <2>1, GrownTransitions
  <2>3. QED
    BY <1>1, <2>2 DEF n, m
<1>8. /\ removeTransitions' \in Transitions(Len(archetypes'))
      /\ \A a \in 1 .. Len(archetypes) : removeTransitions'[a] = removeTransitions[a]
      /\ \A a \in 1 .. Len(archetypes') : a \notin 1 .. Len(archetypes) =>
           removeTransitions'[a] = NoTransitions
  <2> DEFINE n == Len(archetypes)
             m == Len(archetypes')
             grown == Grown(removeTransitions, id, NoTransitions)
  <2>1. /\ n \in Nat /\ id \in 1 .. n + 1 /\ m \in Nat
        /\ id \in 1 .. n => m = n
        /\ id \notin 1 .. n => m = n + 1
        /\ removeTransitions \in Transitions(n)
    BY <1>0, <1>55
  <2> HIDE DEF n, m
  <2>2. /\ grown \in Transitions(m)
        /\ \A a \in 1 .. n : grown[a] = removeTransitions[a]
        /\ \A a \in 1 .. m : a \notin 1 .. n => grown[a] = NoTransitions
    BY <2>1, GrownTransitions
  <2>3. QED
    BY <1>1, <2>2 DEF n, m
<1>9. /\ singleComponentArchetypes' \in [Component -> Nat]
      /\ \A x \in Component : \/ singleComponentArchetypes'[x] = singleComponentArchetypes[x]
                              \/ singleComponentArchetypes'[x] = id /\ {c} = {x}
  BY <1>0, <1>1, <1>6
<1>10. \A x \in Component : NoTransitions[x] = 0
  BY DEF NoTransitions
<1>11. ShortcutsResolve'
  <2>1. \A a \in 1 .. Len(archetypes'), x \in Component :
          \/ addTransitions'[a][x] = 0
          \/ a \in 1 .. Len(archetypes) /\ addTransitions'[a][x] = addTransitions[a][x]
    BY <1>7, <1>10
  <2>2. \A a \in 1 .. Len(archetypes'), x \in Component :
          \/ removeTransitions'[a][x] = 0
          \/ a \in 1 .. Len(archetypes) /\ removeTransitions'[a][x] = removeTransitions[a][x]
    BY <1>8, <1>10
  <2>3. bundleArchetypes' = bundleArchetypes
    BY <1>1
  <2> DEFINE set == {c}
  <2>4. /\ set \in SUBSET Component /\ Resolves(id, set)
        /\ archetypes' = Grown(archetypes, id, set)
        /\ \A x \in Component : \/ singleComponentArchetypes'[x] = singleComponentArchetypes[x]
                                \/ singleComponentArchetypes'[x] = id /\ set = {x}
    BY <1>2, <1>3, <1>5, <1>9
  <2> HIDE DEF set
  <2>5. QED
    BY <1>0, <2>1, <2>2, <2>3, <2>4, ShortcutsStep DEF RowsInv
<1>12. RowsType' /\ RowsMatch' /\ FreeIndicesExact'
  BY <1>1, <1>2, <1>3, <1>4, <1>7, <1>8, <1>9, MoveKeeps DEF at
<1>13. QED
  BY <1>11, <1>12 DEF RowsInv

(* A further component.                                                    *)
LEMMA AddAnotherKeeps ==
  ASSUME RowsInv, NEW e \in Entity, IsAlive(e), NEW c \in Component, NEW v,
         c \notin archetypes[LocationOf(e).arch], AddAnother(e, LocationOf(e), c, v)
  PROVE  RowsInv'
<1> DEFINE at  == LocationOf(e)
           set == archetypes[at.arch] \cup {c}
           id  == IF addTransitions[at.arch][c] # 0 THEN addTransitions[at.arch][c]
                  ELSE ArchetypeFor(set)
           values == [x \in DOMAIN RowValues(at) \cup {c} |-> IF x = c THEN v ELSE RowValues(at)[x]]
<1>0. /\ RowsType
      /\ singleComponentArchetypes \in [Component -> Nat]
      /\ addTransitions \in Transitions(Len(archetypes))
      /\ removeTransitions \in Transitions(Len(archetypes))
      /\ at.arch \in 1 .. Len(archetypes)
      /\ archetypes[at.arch] \in SUBSET Component
      /\ DOMAIN archetypes = 1 .. Len(archetypes)
  BY LocatedRow DEF RowsInv, RowsType
<1>1. /\ MoveRow(e, at, id, set, columnFactories \cup {c}, values)
      /\ addTransitions' = WithTransition(Grown(addTransitions, id, NoTransitions), at.arch, c, id)
      /\ removeTransitions' = Grown(removeTransitions, id, NoTransitions)
      /\ UNCHANGED <<allocator, singleComponentArchetypes, bundleArchetypes>>
  BY DEF AddAnother, WithTransition
<1>2. set \in SUBSET Component
  BY <1>0
<1>3. Resolves(id, set)
  <2>1. CASE addTransitions[at.arch][c] # 0
    BY <1>0, <2>1 DEF RowsInv, ShortcutsResolve, Resolves
  <2>2. CASE addTransitions[at.arch][c] = 0
    BY <2>2, ArchetypeForResolves DEF RowsInv
  <2>3. QED
    BY <2>1, <2>2
<1> HIDE DEF id, values, at
<1>4. id # at.arch
  BY <1>0, <1>3 DEF Resolves, at
<1>5. archetypes' = Grown(archetypes, id, set)
  BY <1>1 DEF MoveRow
<1>55. /\ Len(archetypes) \in Nat
       /\ id \in 1 .. Len(archetypes) + 1
       /\ Len(archetypes') \in Nat
       /\ id \in 1 .. Len(archetypes) => Len(archetypes') = Len(archetypes)
       /\ id \notin 1 .. Len(archetypes) => Len(archetypes') = Len(archetypes) + 1
  BY <1>0, <1>1, <1>2, <1>3, <1>5, ResolvedCount
<1> HIDE DEF set
<1>6. /\ addTransitions' \in Transitions(Len(archetypes'))
      /\ \A b \in 1 .. Len(archetypes'), x \in Component :
           \/ addTransitions'[b][x] = 0
           \/ b \in 1 .. Len(archetypes) /\ addTransitions'[b][x] = addTransitions[b][x]
           \/ b = at.arch /\ x = c /\ addTransitions'[b][x] = id
  <2> DEFINE n == Len(archetypes)
             m == Len(archetypes')
             now == WithTransition(Grown(addTransitions, id, NoTransitions), at.arch, c, id)
  <2>1. /\ n \in Nat /\ id \in 1 .. n + 1 /\ m \in Nat
        /\ id \in 1 .. n => m = n
        /\ id \notin 1 .. n => m = n + 1
        /\ addTransitions \in Transitions(n)
        /\ at.arch \in 1 .. n
    BY <1>0, <1>55
  <2> HIDE DEF n, m
  <2>2. /\ now \in Transitions(m)
        /\ CachesOnly(now, addTransitions, n, m, at.arch, c, id)
    BY <2>1, CachedTransition
  <2>3. QED
    BY <1>1, <2>2 DEF n, m, CachesOnly
<1>7. /\ removeTransitions' \in Transitions(Len(archetypes'))
      /\ \A a \in 1 .. Len(archetypes) : removeTransitions'[a] = removeTransitions[a]
      /\ \A a \in 1 .. Len(archetypes') : a \notin 1 .. Len(archetypes) =>
           removeTransitions'[a] = NoTransitions
  <2> DEFINE n == Len(archetypes)
             m == Len(archetypes')
             grown == Grown(removeTransitions, id, NoTransitions)
  <2>1. /\ n \in Nat /\ id \in 1 .. n + 1 /\ m \in Nat
        /\ id \in 1 .. n => m = n
        /\ id \notin 1 .. n => m = n + 1
        /\ removeTransitions \in Transitions(n)
    BY <1>0, <1>55
  <2> HIDE DEF n, m
  <2>2. /\ grown \in Transitions(m)
        /\ \A a \in 1 .. n : grown[a] = removeTransitions[a]
        /\ \A a \in 1 .. m : a \notin 1 .. n => grown[a] = NoTransitions
    BY <2>1, GrownTransitions
  <2>3. QED
    BY <1>1, <2>2 DEF n, m
<1>8. \A x \in Component : NoTransitions[x] = 0
  BY DEF NoTransitions
<1>9. \A b \in 1 .. Len(archetypes'), x \in Component :
        \/ addTransitions'[b][x] = 0
        \/ b \in 1 .. Len(archetypes) /\ addTransitions'[b][x] = addTransitions[b][x]
        \/ b \in 1 .. Len(archetypes) /\ addTransitions'[b][x] = id
           /\ set = archetypes[b] \cup {x}
  BY <1>0, <1>6 DEF set
<1>10. \A b \in 1 .. Len(archetypes'), x \in Component :
         \/ removeTransitions'[b][x] = 0
         \/ b \in 1 .. Len(archetypes) /\ removeTransitions'[b][x] = removeTransitions[b][x]
         \/ b \in 1 .. Len(archetypes) /\ removeTransitions'[b][x] = id
            /\ set = archetypes[b] \ {x}
  BY <1>7, <1>8
<1>11. ShortcutsResolve'
  BY <1>1, <1>2, <1>3, <1>5, <1>9, <1>10, ShortcutsStep DEF RowsInv
<1>12. singleComponentArchetypes' \in [Component -> Nat]
  BY <1>0, <1>1
<1>13. RowsType' /\ RowsMatch' /\ FreeIndicesExact'
  BY <1>1, <1>2, <1>3, <1>4, <1>6, <1>7, <1>12, MoveKeeps DEF at
<1>14. QED
  BY <1>11, <1>13 DEF RowsInv

(* remove_component: the row moves along a cached or a new transition.   *)
LEMMA RemoveComponentKeeps ==
  ASSUME RowsInv, NEW e \in Entity, NEW c \in Component, RemoveComponent(e, c)
  PROVE  RowsInv'
<1> DEFINE at  == LocationOf(e)
           set == archetypes[at.arch] \ {c}
           id  == IF removeTransitions[at.arch][c] # 0 THEN removeTransitions[at.arch][c]
                  ELSE ArchetypeFor(set)
<1>1. /\ IsAlive(e)
      /\ c \in archetypes[at.arch]
      /\ MoveRow(e, at, id, set, columnFactories, RowValues(at))
      /\ removeTransitions' =
           WithTransition(Grown(removeTransitions, id, NoTransitions), at.arch, c, id)
      /\ addTransitions' = Grown(addTransitions, id, NoTransitions)
      /\ UNCHANGED <<allocator, singleComponentArchetypes, bundleArchetypes>>
  BY DEF RemoveComponent, IsAlive, WithTransition
<1>0. /\ RowsType
      /\ singleComponentArchetypes \in [Component -> Nat]
      /\ addTransitions \in Transitions(Len(archetypes))
      /\ removeTransitions \in Transitions(Len(archetypes))
      /\ at.arch \in 1 .. Len(archetypes)
      /\ archetypes[at.arch] \in SUBSET Component
      /\ DOMAIN archetypes = 1 .. Len(archetypes)
  BY <1>1, LocatedRow DEF RowsInv, RowsType
<1>2. set \in SUBSET Component
  BY <1>0
<1>3. Resolves(id, set)
  <2>1. CASE removeTransitions[at.arch][c] # 0
    BY <1>0, <2>1 DEF RowsInv, ShortcutsResolve, Resolves
  <2>2. CASE removeTransitions[at.arch][c] = 0
    BY <2>2, ArchetypeForResolves DEF RowsInv
  <2>3. QED
    BY <2>1, <2>2
<1> HIDE DEF id, at
<1>4. id # at.arch
  BY <1>0, <1>1, <1>3 DEF Resolves
<1>5. archetypes' = Grown(archetypes, id, set)
  BY <1>1 DEF MoveRow
<1>55. /\ Len(archetypes) \in Nat
       /\ id \in 1 .. Len(archetypes) + 1
       /\ Len(archetypes') \in Nat
       /\ id \in 1 .. Len(archetypes) => Len(archetypes') = Len(archetypes)
       /\ id \notin 1 .. Len(archetypes) => Len(archetypes') = Len(archetypes) + 1
  BY <1>0, <1>1, <1>2, <1>3, <1>5, ResolvedCount
<1> HIDE DEF set
<1>6. /\ removeTransitions' \in Transitions(Len(archetypes'))
      /\ \A b \in 1 .. Len(archetypes'), x \in Component :
           \/ removeTransitions'[b][x] = 0
           \/ b \in 1 .. Len(archetypes) /\ removeTransitions'[b][x] = removeTransitions[b][x]
           \/ b = at.arch /\ x = c /\ removeTransitions'[b][x] = id
  <2> DEFINE n == Len(archetypes)
             m == Len(archetypes')
             now == WithTransition(Grown(removeTransitions, id, NoTransitions), at.arch, c, id)
  <2>1. /\ n \in Nat /\ id \in 1 .. n + 1 /\ m \in Nat
        /\ id \in 1 .. n => m = n
        /\ id \notin 1 .. n => m = n + 1
        /\ removeTransitions \in Transitions(n)
        /\ at.arch \in 1 .. n
    BY <1>0, <1>55
  <2> HIDE DEF n, m
  <2>2. /\ now \in Transitions(m)
        /\ CachesOnly(now, removeTransitions, n, m, at.arch, c, id)
    BY <2>1, CachedTransition
  <2>3. QED
    BY <1>1, <2>2 DEF n, m, CachesOnly
<1>7. /\ addTransitions' \in Transitions(Len(archetypes'))
      /\ \A a \in 1 .. Len(archetypes) : addTransitions'[a] = addTransitions[a]
      /\ \A a \in 1 .. Len(archetypes') : a \notin 1 .. Len(archetypes) =>
           addTransitions'[a] = NoTransitions
  <2> DEFINE n == Len(archetypes)
             m == Len(archetypes')
             grown == Grown(addTransitions, id, NoTransitions)
  <2>1. /\ n \in Nat /\ id \in 1 .. n + 1 /\ m \in Nat
        /\ id \in 1 .. n => m = n
        /\ id \notin 1 .. n => m = n + 1
        /\ addTransitions \in Transitions(n)
    BY <1>0, <1>55
  <2> HIDE DEF n, m
  <2>2. /\ grown \in Transitions(m)
        /\ \A a \in 1 .. n : grown[a] = addTransitions[a]
        /\ \A a \in 1 .. m : a \notin 1 .. n => grown[a] = NoTransitions
    BY <2>1, GrownTransitions
  <2>3. QED
    BY <1>1, <2>2 DEF n, m
<1>8. \A x \in Component : NoTransitions[x] = 0
  BY DEF NoTransitions
<1>9. \A b \in 1 .. Len(archetypes'), x \in Component :
        \/ removeTransitions'[b][x] = 0
        \/ b \in 1 .. Len(archetypes) /\ removeTransitions'[b][x] = removeTransitions[b][x]
        \/ b \in 1 .. Len(archetypes) /\ removeTransitions'[b][x] = id
           /\ set = archetypes[b] \ {x}
  BY <1>0, <1>6 DEF set
<1>10. \A b \in 1 .. Len(archetypes'), x \in Component :
         \/ addTransitions'[b][x] = 0
         \/ b \in 1 .. Len(archetypes) /\ addTransitions'[b][x] = addTransitions[b][x]
         \/ b \in 1 .. Len(archetypes) /\ addTransitions'[b][x] = id
            /\ set = archetypes[b] \cup {x}
  BY <1>7, <1>8
<1>11. ShortcutsResolve'
  BY <1>1, <1>2, <1>3, <1>5, <1>9, <1>10, ShortcutsStep DEF RowsInv
<1>12. singleComponentArchetypes' \in [Component -> Nat]
  BY <1>0, <1>1
<1>13. RowsType' /\ RowsMatch' /\ FreeIndicesExact'
  BY <1>1, <1>2, <1>3, <1>4, <1>6, <1>7, <1>12, MoveKeeps DEF at
<1>14. QED
  BY <1>11, <1>13 DEF RowsInv

(* World::new: one empty archetype, no entity, nothing cached.           *)
LEMMA InitRows == Init => RowsInv
<1> SUFFICES ASSUME Init PROVE RowsInv
  OBVIOUS
<1> USE DEF Init
<1>1. Len(archetypes) = 1 /\ archetypes[1] = {} /\ DOMAIN archetypes = {1}
      /\ archetypes \in Seq(SUBSET Component)
  OBVIOUS
<1>2. 1 .. 1 = {1} /\ 1 .. 0 = {}
  OBVIOUS
<1>3. archetypeEntities = [a \in 1 .. 1 |-> <<>>] /\ archetypeEntities[1] = <<>>
  <2>1. ASSUME NEW x PROVE <<x>> = [a \in 1 .. 1 |-> x] /\ <<x>>[1] = x
    BY <1>2
  <2> DEFINE norows == <<>>
  <2>2. archetypeEntities = <<norows>>
    OBVIOUS
  <2> HIDE DEF norows
  <2>3. archetypeEntities = [a \in 1 .. 1 |-> norows] /\ archetypeEntities[1] = norows
    BY <2>1, <2>2
  <2>4. QED
    BY <2>3 DEF norows
<1>4. archetypeEntities \in Tables(1)
  <2> DEFINE norows == <<>>
  <2>1. norows \in Seq(Entity)
    OBVIOUS
  <2>2. archetypeEntities = [a \in 1 .. 1 |-> norows]
    BY <1>3
  <2> HIDE DEF norows
  <2>3. [a \in 1 .. 1 |-> norows] \in Tables(1)
    BY <2>1 DEF Tables
  <2>4. QED
    BY <2>2, <2>3
<1>5. NoTransitions \in [Component -> Nat] /\ \A c \in Component : NoTransitions[c] = 0
  BY DEF NoTransitions
<1>6. addTransitions = [a \in 1 .. 1 |-> NoTransitions]
      /\ removeTransitions = [a \in 1 .. 1 |-> NoTransitions]
  BY <1>2
<1>7. addTransitions \in Transitions(1) /\ removeTransitions \in Transitions(1)
      /\ addTransitions[1] = NoTransitions /\ removeTransitions[1] = NoTransitions
  BY <1>5, <1>6 DEF Transitions
<1>8. NoLocation \in Location
  BY DEF NoLocation, Location
<1>9. RowsType
  <2>1. /\ nextEntityIndex \in 0 .. MaxEntities
        /\ entityGenerations \in [Index -> Nat]
        /\ freeIndices \in Seq(Index)
        /\ entityLocations \in [Index -> Location]
        /\ singleComponentArchetypes \in [Component -> Nat]
        /\ bundleArchetypes \in [Bundle -> Nat]
    BY <1>5, <1>8, MaxEntitiesAssumption
  <2>2. QED
    BY <1>1, <1>4, <1>7, <2>1 DEF RowsType, EmptyArchetype
<1>10. RowsMatch
  BY <1>1, <1>2, <1>3 DEF RowsMatch, Corresponds
<1>11. FreeIndicesExact
  <2>1. DOMAIN freeIndices = {}
    OBVIOUS
  <2>2. {i \in Index : i < nextEntityIndex /\ entityLocations[i] = NoLocation} = {}
    BY MaxEntitiesAssumption DEF Index
  <2>3. QED
    BY <2>1, <2>2 DEF FreeIndicesExact
<1>12. ShortcutsResolve
  <2>1. \A c \in Component : singleComponentArchetypes[c] = 0
    BY <1>5
  <2>2. \A b \in Bundle : bundleArchetypes[b] = 0
    OBVIOUS
  <2>3. \A a \in DOMAIN archetypes, c \in Component :
          addTransitions[a][c] = 0 /\ removeTransitions[a][c] = 0
    BY <1>1, <1>5, <1>7
  <2>4. \A a, b \in DOMAIN archetypes : a = b
    BY <1>1
  <2>5. QED
    BY <2>1, <2>2, <2>3, <2>4 DEF ShortcutsResolve
<1>13. QED
  BY <1>9, <1>10, <1>11, <1>12 DEF RowsInv

(* Everything RowsInv speaks of.                                           *)
LEMMA UntouchedRows ==
  ASSUME RowsInv,
         UNCHANGED <<allocator, entityLocations, archetypes, archetypeEntities, caches>>
  PROVE  RowsInv'
<1>1. RowsType' /\ RowsMatch'
  BY DEF RowsInv, RowsType, RowsMatch, allocator, caches
<1>2. FreeIndicesExact'
  BY DEF RowsInv, FreeIndicesExact, allocator
<1>3. ShortcutsResolve'
  BY DEF RowsInv, ShortcutsResolve, caches
<1>4. QED
  BY <1>1, <1>2, <1>3 DEF RowsInv

(* add_component: overwrite, first component, or a move.                 *)
LEMMA AddComponentKeeps ==
  ASSUME RowsInv, NEW e \in Entity, NEW c \in Component, NEW v, AddComponent(e, c, v)
  PROVE  RowsInv'
<1> DEFINE at == LocationOf(e)
<1>1. IsAlive(e)
  BY DEF AddComponent, IsAlive
<1>2. CASE Overwrite(at, c, v)
  BY <1>2, UntouchedRows DEF Overwrite
<1>3. CASE at.arch = EmptyArchetype /\ AddFirst(e, at, c, v)
  BY <1>1, <1>3, AddFirstKeeps
<1>4. CASE c \notin archetypes[at.arch] /\ AddAnother(e, at, c, v)
  BY <1>1, <1>4, AddAnotherKeeps
<1>5. QED
  BY <1>2, <1>3, <1>4 DEF AddComponent

(* RowsInv is inductive: every call on the world keeps it.               *)
LEMMA NextKeepsRows ==
  RowsInv /\ [Next]_vars => RowsInv'
<1> SUFFICES ASSUME RowsInv, [Next]_vars PROVE RowsInv'
  OBVIOUS
<1>1. CASE SpawnEmpty
  BY <1>1, SpawnEmptyKeeps
<1>2. ASSUME NEW b \in Bundle, NEW value \in [Types(b) -> Value], SpawnWith(b, value)
      PROVE  RowsInv'
  BY <1>2, SpawnWithKeeps
<1>3. ASSUME NEW e \in Handle, Despawn(e) PROVE RowsInv'
  BY <1>3, DespawnKeeps
<1>4. ASSUME NEW e \in Handle, NEW c \in Component, NEW v \in Value, AddComponent(e, c, v)
      PROVE  RowsInv'
  BY <1>4, HandleEntity, AddComponentKeeps
<1>5. ASSUME NEW e \in Handle, NEW c \in Component, RemoveComponent(e, c) PROVE RowsInv'
  BY <1>5, HandleEntity, RemoveComponentKeeps
<1>6. ASSUME NEW c \in Component, RegisterComponentType(c) PROVE RowsInv'
  BY <1>6, UntouchedRows DEF RegisterComponentType
<1>7. CASE UNCHANGED vars
  BY <1>7, UntouchedRows DEF vars, allocator, caches, storage
<1>8. QED
  BY <1>1, <1>2, <1>3, <1>4, <1>5, <1>6, <1>7 DEF Next
-----------------------------------------------------------------------------

(* The inductive invariant of the storage.                               *)
LEMMA RowsInvariant == Spec => []RowsInv
BY InitRows, NextKeepsRows, PTL DEF Spec

(* The swap-removes of despawn, add_component and remove_component never   *)
(* leave a location pointing at the wrong row, and never leave a row whose *)
(* entity is dead or is recorded elsewhere.                                *)
THEOREM LocationsTheorem == Spec => []LocationsMatchRows
<1>1. RowsInv => LocationsMatchRows
  BY RowsMatchLocations DEF RowsInv
<1>2. QED
  BY <1>1, RowsInvariant, PTL

(* spawn_empty and spawn_with never hand out an index that is in use, and  *)
(* despawn never loses or doubles one.                                     *)
THEOREM FreeIndicesTheorem == Spec => []FreeIndicesExact
<1>1. RowsInv => FreeIndicesExact
  BY DEF RowsInv
<1>2. QED
  BY <1>1, RowsInvariant, PTL

(* Archetypes stay unique per component set, and every cached transition,  *)
(* single-component and bundle shortcut leads to the archetype that        *)
(* get_or_create_archetype would return.                                   *)
THEOREM ShortcutsTheorem == Spec => []ShortcutsResolve
<1>1. RowsInv => ShortcutsResolve
  BY DEF RowsInv
<1>2. QED
  BY <1>1, RowsInvariant, PTL

(* Spawning and despawning are the only calls that touch the flag or a     *)
(* generation.                                                             *)
LEMMA NextKeepsZeroFlag ==
  ZeroFlagSound /\ [Next]_vars => ZeroFlagSound'
<1> SUFFICES ASSUME ZeroFlagSound, [Next]_vars PROVE ZeroFlagSound'
  OBVIOUS
<1>1. ASSUME NEW i \in Index, Allocate(i) PROVE ZeroFlagSound'
  BY <1>1 DEF Allocate, ZeroFlagSound
<1>2. ASSUME NEW i, Retire(i) PROVE ZeroFlagSound'
  BY <1>2 DEF Retire, ZeroFlagSound
<1>3. ASSUME UNCHANGED allocator PROVE ZeroFlagSound'
  BY <1>3 DEF allocator, ZeroFlagSound
<1>4. CASE SpawnEmpty
  BY <1>1, <1>4 DEF SpawnEmpty
<1>5. ASSUME NEW b \in Bundle, NEW value \in [Types(b) -> Value], SpawnWith(b, value)
      PROVE  ZeroFlagSound'
  BY <1>1, <1>5 DEF SpawnWith
<1>6. ASSUME NEW e \in Handle, Despawn(e) PROVE ZeroFlagSound'
  BY <1>2, <1>6 DEF Despawn
<1>7. ASSUME NEW e \in Handle, NEW c \in Component, NEW v \in Value, AddComponent(e, c, v)
      PROVE  ZeroFlagSound'
  BY <1>3, <1>7 DEF AddComponent, Overwrite, AddFirst, AddAnother
<1>8. ASSUME NEW e \in Handle, NEW c \in Component, RemoveComponent(e, c)
      PROVE  ZeroFlagSound'
  BY <1>3, <1>8 DEF RemoveComponent
<1>9. ASSUME NEW c \in Component, RegisterComponentType(c) PROVE ZeroFlagSound'
  BY <1>3, <1>9 DEF RegisterComponentType
<1>10. CASE UNCHANGED vars
  BY <1>3, <1>10 DEF vars
<1>11. QED
  BY <1>4, <1>5, <1>6, <1>7, <1>8, <1>9, <1>10 DEF Next

(* get_component may skip the generation check while the flag is set.      *)
THEOREM ZeroFlagTheorem == Spec => []ZeroFlagSound
<1>1. Init => ZeroFlagSound
  BY DEF Init, ZeroFlagSound
<1>2. QED
  BY <1>1, NextKeepsZeroFlag, PTL DEF Spec

-----------------------------------------------------------------------------
(* The tail: every operation gives one entity index another archetype.     *)

(* Index i is in archetype id after the step, every other where it was.    *)
Repositions(i, id) ==
  \A j \in Index :
    entityLocations'[j].arch = IF j = i THEN id ELSE entityLocations[j].arch

HasNone(arch) == arch \in {0, EmptyArchetype}

TailInv == maxNonemptyEntityIndex \in Index \cup {None} /\ TailExact

(* The downward scan finds the greatest index with components, if any.     *)
LEMMA NonemptyBelowProperties ==
  ASSUME NEW locs \in [Index -> Location], NEW i \in Index
  PROVE  LET found == NonemptyBelow(locs, i)
         IN  /\ \/ found = None
                \/ found \in Index /\ found < i /\ ~ HasNone(locs[found].arch)
             /\ \A j \in Index : j < i /\ ~ HasNone(locs[j].arch) => j <= found
<1> DEFINE nonempty == {j \in Index : j < i /\ locs[j].arch \notin {0, EmptyArchetype}}
<1>1. MaxEntities \in Nat /\ Index = 0 .. MaxEntities - 1
  BY MaxEntitiesAssumption DEF Index
<1>2. CASE nonempty = {}
  BY <1>2 DEF NonemptyBelow, HasNone
<1>3. CASE nonempty # {}
  <2>1. nonempty \in SUBSET (0 .. MaxEntities)
    BY <1>1
  <2>2. \E j \in nonempty : \A k \in nonempty : k <= j
    BY <1>1, <1>3, <2>1, GreatestIndex
  <2>3. NonemptyBelow(locs, i) = CHOOSE j \in nonempty : \A k \in nonempty : k <= j
    BY <1>3 DEF NonemptyBelow
  <2>4. /\ NonemptyBelow(locs, i) \in nonempty
        /\ \A k \in nonempty : k <= NonemptyBelow(locs, i)
    BY <2>2, <2>3
  <2>5. QED
    BY <2>4 DEF HasNone
<1>4. QED
  BY <1>2, <1>3

(* The first component of an index raises the tail to behind it.           *)
LEMMA RaiseTailKeeps ==
  ASSUME TailInv, NEW i \in Index, NEW id, Repositions(i, id), ~ HasNone(id), RaiseTail(i)
  PROVE  TailInv'
<1>1. Index \subseteq Int /\ None \in Int /\ \A j \in Index : None < j
  BY MaxEntitiesAssumption DEF Index, None
<1>2. maxNonemptyEntityIndex' \in Index \cup {None}
  BY DEF RaiseTail, TailInv
<1>3. componentlessTailStart' = maxNonemptyEntityIndex' + 1
  BY DEF RaiseTail
<1>4. ASSUME NEW j \in Index, ~ HasNone(entityLocations'[j].arch)
      PROVE  j <= maxNonemptyEntityIndex'
  BY <1>1, <1>4 DEF RaiseTail, TailInv, TailExact, HasNone, Repositions
<1>5. maxNonemptyEntityIndex' # None =>
        ~ HasNone(entityLocations'[maxNonemptyEntityIndex'].arch)
  BY <1>1 DEF RaiseTail, TailInv, TailExact, HasNone, Repositions
<1>6. QED
  BY <1>2, <1>3, <1>4, <1>5 DEF TailInv, TailExact, HasNone

(* The last component of an index lowers the tail, with a scan if the      *)
(* index was the highest.                                                  *)
LEMMA LowerTailKeeps ==
  ASSUME TailInv, entityLocations' \in [Index -> Location],
         NEW i \in Index, NEW id, Repositions(i, id), HasNone(id), LowerTail(i)
  PROVE  TailInv'
<1> DEFINE found == NonemptyBelow(entityLocations', i)
<1>1. Index \subseteq Int /\ None \in Int /\ \A j \in Index : None < j
  BY MaxEntitiesAssumption DEF Index, None
<1>2. /\ \/ found = None
         \/ found \in Index /\ found < i /\ ~ HasNone(entityLocations'[found].arch)
      /\ \A j \in Index : j < i /\ ~ HasNone(entityLocations'[j].arch) => j <= found
  BY NonemptyBelowProperties
<1> HIDE DEF found
<1>3. /\ maxNonemptyEntityIndex' = IF maxNonemptyEntityIndex = i
                                   THEN found ELSE maxNonemptyEntityIndex
      /\ componentlessTailStart' = maxNonemptyEntityIndex' + 1
  BY DEF LowerTail, found
<1>4. \A j \in Index : ~ HasNone(entityLocations'[j].arch) =>
        j # i /\ ~ HasNone(entityLocations[j].arch) /\ j <= maxNonemptyEntityIndex
  BY DEF Repositions, TailInv, TailExact, HasNone
<1>5. maxNonemptyEntityIndex' \in Index \cup {None}
  BY <1>2, <1>3 DEF TailInv
<1>6. ASSUME NEW j \in Index, ~ HasNone(entityLocations'[j].arch)
      PROVE  j <= maxNonemptyEntityIndex'
  BY <1>1, <1>2, <1>3, <1>4, <1>6
<1>7. maxNonemptyEntityIndex' # None =>
        ~ HasNone(entityLocations'[maxNonemptyEntityIndex'].arch)
  BY <1>1, <1>2, <1>3 DEF TailInv, TailExact, Repositions, HasNone
<1>8. QED
  BY <1>3, <1>5, <1>6, <1>7 DEF TailInv, TailExact, HasNone

(* Any other change of archetype leaves the tail where it is.              *)
LEMMA SameTailKeeps ==
  ASSUME TailInv, NEW i \in Index, NEW id, Repositions(i, id),
         HasNone(id) <=> HasNone(entityLocations[i].arch), UNCHANGED tail
  PROVE  TailInv'
BY DEF TailInv, TailExact, Repositions, HasNone, tail

(* The entity that swap-remove moves stays in its archetype.               *)
LEMMA VacatedKeepsArchetypes ==
  ASSUME RowsType, RowsMatch, NEW e \in Entity, IsAlive(e)
  PROVE  \A j \in Index : Vacated(entityLocations, LocationOf(e))[j].arch
                            = entityLocations[j].arch
<1> DEFINE at == LocationOf(e)
           last == archetypeEntities[at.arch][Len(archetypeEntities[at.arch])]
<1>1. at.arch \in 1 .. Len(archetypes) /\ at.row \in 1 .. Len(archetypeEntities[at.arch])
  BY LocatedRow
<1>2. Len(archetypeEntities[at.arch]) \in 1 .. Len(archetypeEntities[at.arch])
  BY <1>1, TablesRows DEF RowsType
<1>3. entityLocations[last.index].arch = at.arch
  <2>1. entityLocations[last.index]
          = [arch |-> at.arch, row |-> Len(archetypeEntities[at.arch])]
    BY <1>1, <1>2 DEF RowsMatch, Corresponds
  <2>2. QED
    BY <2>1
<1>4. Vacated(entityLocations, at) = [entityLocations EXCEPT ![last.index] = at]
  BY DEF Vacated
<1> HIDE DEF last, at
<1>5. \A j \in Index : Vacated(entityLocations, at)[j]
                          = IF j = last.index THEN at ELSE entityLocations[j]
  BY <1>4 DEF RowsType
<1>6. QED
  BY <1>3, <1>5 DEF at

(* A move gives the moved entity's index its destination.                  *)
LEMMA MoveRepositions ==
  ASSUME RowsType, RowsMatch, NEW e \in Entity, IsAlive(e),
         NEW id, NEW set, NEW factories, NEW values,
         MoveRow(e, LocationOf(e), id, set, factories, values)
  PROVE  Repositions(e.index, id)
<1> DEFINE vacated == Vacated(entityLocations, LocationOf(e))
           new     == [arch |-> id, row |-> Len(Grown(archetypeEntities, id, <<>>)[id]) + 1]
<1>1. entityLocations' = [vacated EXCEPT ![e.index] = new]
  BY DEF MoveRow
<1>2. DOMAIN vacated = Index
  BY DEF Vacated, RowsType
<1>3. new.arch = id
  OBVIOUS
<1>4. \A j \in Index : vacated[j].arch = entityLocations[j].arch
  BY VacatedKeepsArchetypes
<1> HIDE DEF vacated, new
<1>5. \A j \in Index : entityLocations'[j] = IF j = e.index THEN new ELSE vacated[j]
  BY <1>1, <1>2
<1>6. QED
  BY <1>3, <1>4, <1>5 DEF Repositions

(* A despawn leaves the index without an archetype.                        *)
LEMMA DespawnRepositions ==
  ASSUME RowsType, RowsMatch, NEW e \in Handle, Despawn(e)
  PROVE  Repositions(e.index, 0)
<1> DEFINE vacated == Vacated(entityLocations, LocationOf(e))
<1>1. entityLocations' = [vacated EXCEPT ![e.index] = NoLocation]
  BY DEF Despawn
<1>2. e \in Entity /\ IsAlive(e)
  BY HandleEntity DEF Despawn, IsAlive
<1>3. DOMAIN vacated = Index
  BY DEF Vacated, RowsType
<1>4. \A j \in Index : vacated[j].arch = entityLocations[j].arch
  BY <1>2, VacatedKeepsArchetypes
<1>5. NoLocation.arch = 0
  BY DEF NoLocation
<1> HIDE DEF vacated
<1>6. \A j \in Index : entityLocations'[j] = IF j = e.index THEN NoLocation ELSE vacated[j]
  BY <1>1, <1>3
<1>7. QED
  BY <1>4, <1>5, <1>6 DEF Repositions

(* A live handle is in an archetype of its own entry of the table.         *)
LEMMA LiveArchetype ==
  ASSUME RowsType, RowsMatch, NEW e \in Entity, IsAlive(e)
  PROVE  /\ e.index \in Index
         /\ entityLocations[e.index].arch = LocationOf(e).arch
         /\ LocationOf(e).arch \in 1 .. Len(archetypes)
BY LocatedRow, EntityFields

(* The archetype of a set that is not empty is not the empty archetype.    *)
LEMMA ResolvesSome ==
  ASSUME RowsType, NEW id, NEW set, Resolves(id, set), set # {}
  PROVE  ~ HasNone(id)
<1>1. id # 0 /\ EmptyArchetype \in 1 .. Len(archetypes) /\ archetypes[EmptyArchetype] = {}
  BY DEF RowsType, Resolves, EmptyArchetype
<1>2. id # EmptyArchetype
  BY <1>1 DEF Resolves
<1>3. QED
  BY <1>1, <1>2 DEF HasNone

(* spawn_empty leaves the tail alone, spawn_with raises it.                *)
LEMMA SpawnsKeepTail ==
  ASSUME RowsInv, TailInv,
         SpawnEmpty \/ \E b \in Bundle : \E value \in [Types(b) -> Value] : SpawnWith(b, value)
  PROVE  TailInv'
<1>0. entityLocations \in [Index -> Location] /\ RowsType
  BY DEF RowsInv, RowsType
<1>1. CASE SpawnEmpty
  <2>1. PICK i \in Index :
          /\ Allocate(i)
          /\ entityLocations' = [entityLocations EXCEPT
               ![i] = [arch |-> EmptyArchetype,
                       row |-> Len(archetypeEntities[EmptyArchetype]) + 1]]
          /\ UNCHANGED tail
    BY <1>1 DEF SpawnEmpty
  <2>2. Repositions(i, EmptyArchetype)
    BY <1>0, <2>1 DEF Repositions
  <2>3. entityLocations[i] = NoLocation
    BY <2>1, AllocatedIndex DEF RowsInv
  <2>4. HasNone(EmptyArchetype) /\ HasNone(entityLocations[i].arch)
    BY <2>3 DEF HasNone, NoLocation
  <2>5. QED
    BY <2>1, <2>2, <2>4, SameTailKeeps
<1>2. ASSUME NEW b \in Bundle, NEW value \in [Types(b) -> Value], SpawnWith(b, value)
      PROVE  TailInv'
  <2> DEFINE id == IF bundleArchetypes[b] # 0 THEN bundleArchetypes[b]
                   ELSE ArchetypeFor(Types(b))
             rows == Len(Grown(archetypeEntities, id, <<>>)[id])
  <2>1. PICK i \in Index :
          /\ entityLocations' = [entityLocations EXCEPT ![i] = [arch |-> id, row |-> rows + 1]]
          /\ RaiseTail(i)
    BY <1>2 DEF SpawnWith
  <2>2. Resolves(id, Types(b))
    <3>1. CASE bundleArchetypes[b] # 0
      BY <3>1 DEF RowsInv, RowsType, ShortcutsResolve, Resolves
    <3>2. CASE bundleArchetypes[b] = 0
      BY <3>2, ArchetypeForResolves DEF RowsInv
    <3>3. QED
      BY <3>1, <3>2
  <2> HIDE DEF id, rows
  <2>3. Types(b) # {}
    BY BundleAssumption, EmptySeq DEF Types
  <2>4. ~ HasNone(id)
    BY <1>0, <2>2, <2>3, ResolvesSome
  <2>5. Repositions(i, id)
    BY <1>0, <2>1 DEF Repositions
  <2>6. QED
    BY <2>1, <2>4, <2>5, RaiseTailKeeps
<1>3. QED
  BY <1>1, <1>2

(* despawn lowers the tail for an entity that had components.              *)
LEMMA DespawnKeepsTail ==
  ASSUME RowsInv, TailInv, NEW e \in Handle, Despawn(e)
  PROVE  TailInv'
<1>1. e \in Entity /\ IsAlive(e)
  BY HandleEntity DEF Despawn, IsAlive
<1>2. /\ e.index \in Index
      /\ entityLocations[e.index].arch = LocationOf(e).arch
  BY <1>1, LiveArchetype DEF RowsInv
<1>3. Repositions(e.index, 0) /\ HasNone(0)
  BY DespawnRepositions DEF RowsInv, HasNone
<1>4. entityLocations' \in [Index -> Location]
  BY DespawnKeeps DEF RowsInv, RowsType
<1>5. CASE LocationOf(e).arch # EmptyArchetype
  <2>1. LowerTail(e.index)
    BY <1>5 DEF Despawn
  <2>2. QED
    BY <1>2, <1>3, <1>4, <2>1, LowerTailKeeps
<1>6. CASE LocationOf(e).arch = EmptyArchetype
  <2>1. UNCHANGED tail
    BY <1>6 DEF Despawn
  <2>2. HasNone(entityLocations[e.index].arch)
    BY <1>2, <1>6 DEF HasNone
  <2>3. QED
    BY <1>2, <1>3, <2>1, <2>2, SameTailKeeps
<1>7. QED
  BY <1>5, <1>6

(* add_component raises the tail for the first component only.             *)
LEMMA AddKeepsTail ==
  ASSUME RowsInv, TailInv, NEW e \in Entity, NEW c \in Component, NEW v, AddComponent(e, c, v)
  PROVE  TailInv'
<1> DEFINE at == LocationOf(e)
<1>1. IsAlive(e)
  BY DEF AddComponent, IsAlive
<1>2. /\ e.index \in Index
      /\ entityLocations[e.index].arch = at.arch
      /\ at.arch \in 1 .. Len(archetypes)
      /\ RowsType /\ RowsMatch
  BY <1>1, LiveArchetype DEF RowsInv
<1>3. RowsInv'
  BY AddComponentKeeps
<1>4. CASE Overwrite(at, c, v)
  BY <1>4 DEF Overwrite, TailInv, TailExact, tail
<1>5. CASE AddFirst(e, at, c, v)
  <2> DEFINE id == IF singleComponentArchetypes[c] # 0 THEN singleComponentArchetypes[c]
                   ELSE ArchetypeFor({c})
             factories == IF singleComponentArchetypes[c] # 0 THEN columnFactories
                          ELSE columnFactories \cup {c}
             values == [x \in {c} |-> v]
  <2>1. MoveRow(e, at, id, {c}, factories, values) /\ RaiseTail(e.index)
    BY <1>5 DEF AddFirst
  <2>2. Resolves(id, {c})
    <3>1. CASE singleComponentArchetypes[c] # 0
      BY <3>1 DEF RowsInv, RowsType, ShortcutsResolve, Resolves
    <3>2. CASE singleComponentArchetypes[c] = 0
      BY <3>2, ArchetypeForResolves DEF RowsInv
    <3>3. QED
      BY <3>1, <3>2
  <2> HIDE DEF id, factories, values
  <2>3. ~ HasNone(id)
    <3> DEFINE set == {c}
    <3>1. set # {} /\ Resolves(id, set)
      BY <2>2
    <3> HIDE DEF set
    <3>2. QED
      BY <1>2, <3>1, ResolvesSome
  <2>4. Repositions(e.index, id)
    BY <1>1, <1>2, <2>1, MoveRepositions
  <2>5. QED
    BY <1>2, <2>1, <2>3, <2>4, RaiseTailKeeps
<1>6. CASE c \notin archetypes[at.arch] /\ at.arch # EmptyArchetype /\ AddAnother(e, at, c, v)
  <2> DEFINE set == archetypes[at.arch] \cup {c}
             id  == IF addTransitions[at.arch][c] # 0 THEN addTransitions[at.arch][c]
                    ELSE ArchetypeFor(set)
             factories == columnFactories \cup {c}
             values == [x \in DOMAIN RowValues(at) \cup {c} |-> IF x = c THEN v ELSE RowValues(at)[x]]
  <2>1. MoveRow(e, at, id, set, factories, values) /\ UNCHANGED tail
    BY <1>6 DEF AddAnother
  <2>2. Resolves(id, set)
    <3>1. CASE addTransitions[at.arch][c] # 0
      <4>1. DOMAIN archetypes = 1 .. Len(archetypes)
        BY <1>2 DEF RowsType
      <4>2. QED
        BY <1>2, <3>1, <4>1 DEF RowsInv, ShortcutsResolve, Resolves
    <3>2. CASE addTransitions[at.arch][c] = 0
      BY <1>2, <3>2, ArchetypeForResolves
    <3>3. QED
      BY <3>1, <3>2
  <2>3. set # {}
    OBVIOUS
  <2> HIDE DEF id, factories, values, set
  <2>4. ~ HasNone(id)
    BY <1>2, <2>2, <2>3, ResolvesSome
  <2>5. Repositions(e.index, id)
    BY <1>1, <1>2, <2>1, MoveRepositions
  <2>6. ~ HasNone(entityLocations[e.index].arch)
    BY <1>2, <1>6 DEF HasNone
  <2>7. QED
    BY <1>2, <2>1, <2>4, <2>5, <2>6, SameTailKeeps
<1>7. QED
  BY <1>4, <1>5, <1>6 DEF AddComponent

(* remove_component lowers the tail for the last component only.           *)
LEMMA RemoveKeepsTail ==
  ASSUME RowsInv, TailInv, NEW e \in Entity, NEW c \in Component, RemoveComponent(e, c)
  PROVE  TailInv'
<1> DEFINE at  == LocationOf(e)
           set == archetypes[at.arch] \ {c}
           id  == IF removeTransitions[at.arch][c] # 0 THEN removeTransitions[at.arch][c]
                  ELSE ArchetypeFor(set)
           values == RowValues(at)
<1>1. /\ IsAlive(e)
      /\ at.arch # EmptyArchetype
      /\ MoveRow(e, at, id, set, columnFactories, values)
      /\ IF id = EmptyArchetype THEN LowerTail(e.index) ELSE UNCHANGED tail
  BY DEF RemoveComponent, IsAlive
<1>2. /\ e.index \in Index
      /\ entityLocations[e.index].arch = at.arch
      /\ at.arch \in 1 .. Len(archetypes)
      /\ RowsType /\ RowsMatch
  BY <1>1, LiveArchetype DEF RowsInv
<1>3. Resolves(id, set)
  <2>1. CASE removeTransitions[at.arch][c] # 0
    <3>1. DOMAIN archetypes = 1 .. Len(archetypes)
      BY <1>2 DEF RowsType
    <3>2. QED
      BY <1>2, <2>1, <3>1 DEF RowsInv, ShortcutsResolve, Resolves
  <2>2. CASE removeTransitions[at.arch][c] = 0
    BY <1>2, <2>2, ArchetypeForResolves
  <2>3. QED
    BY <2>1, <2>2
<1> HIDE DEF id, values, set
<1>4. entityLocations' \in [Index -> Location]
  BY RemoveComponentKeeps DEF RowsInv, RowsType
<1>5. Repositions(e.index, id)
  BY <1>1, <1>2, MoveRepositions
<1>6. CASE id = EmptyArchetype
  BY <1>1, <1>2, <1>4, <1>5, <1>6, LowerTailKeeps DEF HasNone
<1>7. CASE id # EmptyArchetype
  <2>1. ~ HasNone(id) /\ ~ HasNone(entityLocations[e.index].arch)
    BY <1>1, <1>2, <1>3, <1>7 DEF HasNone, Resolves
  <2>2. QED
    BY <1>1, <1>2, <1>5, <1>7, <2>1, SameTailKeeps
<1>8. QED
  BY <1>6, <1>7

(* TailInv is inductive, given the rows.                                   *)
LEMMA NextKeepsTail ==
  RowsInv /\ TailInv /\ [Next]_vars => TailInv'
<1> SUFFICES ASSUME RowsInv, TailInv, [Next]_vars PROVE TailInv'
  OBVIOUS
<1>1. ASSUME UNCHANGED <<entityLocations, tail>> PROVE TailInv'
  BY <1>1 DEF TailInv, TailExact, tail
<1>2. CASE SpawnEmpty \/ \E b \in Bundle : \E value \in [Types(b) -> Value] : SpawnWith(b, value)
  BY <1>2, SpawnsKeepTail
<1>3. ASSUME NEW e \in Handle, Despawn(e) PROVE TailInv'
  BY <1>3, DespawnKeepsTail
<1>4. ASSUME NEW e \in Handle, NEW c \in Component, NEW v \in Value, AddComponent(e, c, v)
      PROVE  TailInv'
  BY <1>4, HandleEntity, AddKeepsTail
<1>5. ASSUME NEW e \in Handle, NEW c \in Component, RemoveComponent(e, c) PROVE TailInv'
  BY <1>5, HandleEntity, RemoveKeepsTail
<1>6. ASSUME NEW c \in Component, RegisterComponentType(c) PROVE TailInv'
  BY <1>1, <1>6 DEF RegisterComponentType
<1>7. CASE UNCHANGED vars
  BY <1>1, <1>7 DEF vars
<1>8. QED
  BY <1>2, <1>3, <1>4, <1>5, <1>6, <1>7 DEF Next

(* A new world has no components and an empty tail bound.                  *)
LEMMA InitTail == Init => TailInv
<1>1. Init => \A i \in Index : HasNone(entityLocations[i].arch)
  BY DEF Init, HasNone, NoLocation
<1>2. QED
  BY <1>1 DEF Init, TailInv, TailExact, HasNone, None

(* The inductive invariant of the tail.                                    *)
LEMMA TailInvariant == Spec => []TailInv
BY InitTail, NextKeepsTail, RowsInvariant, PTL DEF Spec

(* get_component answers None for the whole tail without looking: no       *)
(* entity there ever has a component, and the tail never starts later than *)
(* right behind the highest index that has one.                            *)
THEOREM TailTheorem == Spec => []TailExact
<1>1. TailInv => TailExact
  BY DEF TailInv
<1>2. QED
  BY <1>1, TailInvariant, PTL
(* No archetype has more rows than there are indices.                      *)
LEMMA RowsBounded ==
  ASSUME RowsType, RowsMatch, NEW a \in 1 .. Len(archetypes)
  PROVE  Len(archetypeEntities[a]) \in 0 .. MaxEntities
<1> DEFINE n == Len(archetypeEntities[a])
           f == [r \in 1 .. n |-> archetypeEntities[a][r].index]
<1>1. n \in Nat /\ \A r \in 1 .. n : archetypeEntities[a][r] \in Entity
  BY TablesRows, LenProperties DEF RowsType
<1>2. f \in [1 .. n -> Index]
  BY <1>1, EntityFields
<1>3. ASSUME NEW r \in 1 .. n, NEW s \in 1 .. n, f[r] = f[s] PROVE r = s
  <2>1. /\ entityLocations[archetypeEntities[a][r].index] = [arch |-> a, row |-> r]
        /\ entityLocations[archetypeEntities[a][s].index] = [arch |-> a, row |-> s]
    BY DEF RowsMatch, Corresponds
  <2>2. [arch |-> a, row |-> r].row = [arch |-> a, row |-> s].row
    BY <1>3, <2>1
  <2>3. QED
    BY <2>2
<1> HIDE DEF f
<1>4. f \in Injection(1 .. n, Index)
  BY <1>2, <1>3 DEF Injection, IsInjective
<1>5. IsFiniteSet(Index) /\ Cardinality(Index) = MaxEntities
  <2>1. MaxEntities \in Nat /\ 0 \in Int /\ MaxEntities - 1 \in Int
    BY MaxEntitiesAssumption
  <2>2. /\ IsFiniteSet(0 .. MaxEntities - 1)
        /\ Cardinality(0 .. MaxEntities - 1)
             = IF 0 > MaxEntities - 1 THEN 0 ELSE MaxEntities - 1 - 0 + 1
    BY <2>1, FS_Interval
  <2>3. QED
    BY <2>1, <2>2 DEF Index
<1>6. Cardinality(1 .. n) <= Cardinality(Index)
  BY <1>4, <1>5, FS_Injection
<1>7. Cardinality(1 .. n) = n
  <2>1. 1 \in Int /\ n \in Int /\ (IF 1 > n THEN 0 ELSE n - 1 + 1) = n
    BY <1>1
  <2>2. Cardinality(1 .. n) = IF 1 > n THEN 0 ELSE n - 1 + 1
    BY <2>1, FS_Interval
  <2>3. QED
    BY <2>1, <2>2
<1>8. QED
  BY <1>1, <1>5, <1>6, <1>7, MaxEntitiesAssumption
-----------------------------------------------------------------------------
(* The columns.  As for rows, Aligned is stated for arbitrary tables, and  *)
(* each operation is a row of values taken out, pushed, or both.  A tuple  *)
(* that names a type twice pushes two values for it: columns then grow     *)
(* longer than the rows, which Fits allows for such bundles only.          *)

BundlesDistinct ==
  \A b \in Bundle : \A j, k \in DOMAIN b : b[j] = b[k] => j = k

Fits(values, rows) ==
  /\ Len(values) >= Len(rows)
  /\ BundlesDistinct => Len(values) = Len(rows)

ColumnTable == UNION {[types -> Seq(Value)] : types \in SUBSET Component}

ColumnTables(n) == [1 .. n -> ColumnTable]

Aligned(n, archs, ents, cols) ==
  \A a \in 1 .. n :
    /\ cols[a] \in [archs[a] -> Seq(Value)]
    /\ \A c \in archs[a] : Fits(cols[a][c], ents[a])

WithoutValues(cols, a, r) == [cols EXCEPT ![a] = DropValues(@, r)]

WithValues(cols, a, values) ==
  [cols EXCEPT ![a] = [c \in DOMAIN @ |-> Append(@[c], values[c])]]

(* One column per type of a set of component types is a column table.      *)
LEMMA ColumnTableMember ==
  ASSUME NEW types \in SUBSET Component, NEW f \in [types -> Seq(Value)]
  PROVE  f \in ColumnTable
BY DEF ColumnTable

(* Swap-remove on a column and on its rows.                                *)
LEMMA FitsWithout ==
  ASSUME NEW values \in Seq(Value), NEW rows \in Seq(Entity), Fits(values, rows),
         NEW r \in 1 .. Len(rows)
  PROVE  /\ SwapRemove(values, r) \in Seq(Value)
         /\ Fits(SwapRemove(values, r), SwapRemove(rows, r))
<1>1. Len(values) \in Nat /\ Len(rows) \in Nat /\ r \in 1 .. Len(values)
  BY LenProperties DEF Fits
<1>2. /\ SwapRemove(values, r) \in Seq(Value)
      /\ Len(SwapRemove(values, r)) = Len(values) - 1
      /\ Len(SwapRemove(rows, r)) = Len(rows) - 1
  BY <1>1, SwapRemoveProperties
<1>3. QED
  BY <1>1, <1>2 DEF Fits

(* A value and a row pushed.                                               *)
LEMMA FitsWith ==
  ASSUME NEW values \in Seq(Value), NEW rows \in Seq(Entity), Fits(values, rows),
         NEW v \in Value, NEW e \in Entity
  PROVE  Append(values, v) \in Seq(Value) /\ Fits(Append(values, v), Append(rows, e))
BY LenProperties, AppendProperties DEF Fits

(* Whatever is put in place of one archetype's rows and columns.           *)
LEMMA AlignedReplace ==
  ASSUME NEW n \in Nat, NEW archs \in [1 .. n -> SUBSET Component],
         NEW ents \in Tables(n), NEW cols \in ColumnTables(n),
         Aligned(n, archs, ents, cols), NEW a \in 1 .. n,
         NEW rows, NEW now \in [archs[a] -> Seq(Value)],
         \A c \in archs[a] : Fits(now[c], rows)
  PROVE  /\ [cols EXCEPT ![a] = now] \in ColumnTables(n)
         /\ Aligned(n, archs, [ents EXCEPT ![a] = rows], [cols EXCEPT ![a] = now])
<1>1. now \in ColumnTable
  BY ColumnTableMember
<1>2. [cols EXCEPT ![a] = now] \in ColumnTables(n)
  BY <1>1 DEF ColumnTables
<1>3. ASSUME NEW b \in 1 .. n
      PROVE  /\ [cols EXCEPT ![a] = now][b] \in [archs[b] -> Seq(Value)]
             /\ \A c \in archs[b] : Fits([cols EXCEPT ![a] = now][b][c], [ents EXCEPT ![a] = rows][b])
  <2>1. /\ [cols EXCEPT ![a] = now][b] = IF b = a THEN now ELSE cols[b]
        /\ [ents EXCEPT ![a] = rows][b] = IF b = a THEN rows ELSE ents[b]
    BY DEF ColumnTables, Tables
  <2>2. CASE b = a
    BY <2>1, <2>2
  <2>3. CASE b # a
    BY <2>1, <2>3 DEF Aligned
  <2>4. QED
    BY <2>2, <2>3
<1>4. QED
  BY <1>2, <1>3 DEF Aligned

(* Every column drops the row that the entity list drops.                  *)
LEMMA AlignedTakeOut ==
  ASSUME NEW n \in Nat, NEW archs \in [1 .. n -> SUBSET Component],
         NEW ents \in Tables(n), NEW cols \in ColumnTables(n),
         Aligned(n, archs, ents, cols),
         NEW a \in 1 .. n, NEW r \in 1 .. Len(ents[a])
  PROVE  /\ WithoutValues(cols, a, r) \in ColumnTables(n)
         /\ Aligned(n, archs, WithoutRow(ents, a, r), WithoutValues(cols, a, r))
<1> DEFINE left == DropValues(cols[a], r)
<1>1. /\ cols[a] \in [archs[a] -> Seq(Value)]
      /\ \A c \in archs[a] : cols[a][c] \in Seq(Value) /\ Fits(cols[a][c], ents[a])
      /\ ents[a] \in Seq(Entity)
  BY TablesRows DEF Aligned
<1>2. left = [c \in archs[a] |-> SwapRemove(cols[a][c], r)]
  BY <1>1 DEF DropValues
<1>3. \A c \in archs[a] : /\ SwapRemove(cols[a][c], r) \in Seq(Value)
                          /\ Fits(SwapRemove(cols[a][c], r), SwapRemove(ents[a], r))
  BY <1>1, FitsWithout
<1>4. left \in [archs[a] -> Seq(Value)] /\ \A c \in archs[a] : Fits(left[c], SwapRemove(ents[a], r))
  BY <1>2, <1>3
<1> HIDE DEF left
<1>5. WithoutValues(cols, a, r) = [cols EXCEPT ![a] = left]
      /\ WithoutRow(ents, a, r) = [ents EXCEPT ![a] = SwapRemove(ents[a], r)]
  BY DEF WithoutValues, WithoutRow, left
<1> DEFINE rows == SwapRemove(ents[a], r)
<1>6. \A c \in archs[a] : Fits(left[c], rows)
  BY <1>4
<1> HIDE DEF rows
<1>7. /\ [cols EXCEPT ![a] = left] \in ColumnTables(n)
      /\ Aligned(n, archs, [ents EXCEPT ![a] = rows], [cols EXCEPT ![a] = left])
  BY <1>4, <1>6, AlignedReplace
<1>8. QED
  BY <1>5, <1>7 DEF rows

(* Every column of an archetype gets a value for the pushed row.           *)
LEMMA AlignedPush ==
  ASSUME NEW n \in Nat, NEW archs \in [1 .. n -> SUBSET Component],
         NEW ents \in Tables(n), NEW cols \in ColumnTables(n),
         Aligned(n, archs, ents, cols),
         NEW a \in 1 .. n, NEW e \in Entity, NEW values,
         \A c \in archs[a] : values[c] \in Value
  PROVE  /\ WithValues(cols, a, values) \in ColumnTables(n)
         /\ Aligned(n, archs, WithRow(ents, a, e), WithValues(cols, a, values))
<1> DEFINE now == [c \in DOMAIN cols[a] |-> Append(cols[a][c], values[c])]
<1>1. /\ cols[a] \in [archs[a] -> Seq(Value)]
      /\ \A c \in archs[a] : cols[a][c] \in Seq(Value) /\ Fits(cols[a][c], ents[a])
      /\ ents[a] \in Seq(Entity)
  BY TablesRows DEF Aligned
<1>2. \A c \in archs[a] : /\ Append(cols[a][c], values[c]) \in Seq(Value)
                          /\ Fits(Append(cols[a][c], values[c]), Append(ents[a], e))
  BY <1>1, FitsWith
<1>3. now \in [archs[a] -> Seq(Value)] /\ \A c \in archs[a] : Fits(now[c], Append(ents[a], e))
  BY <1>1, <1>2
<1> HIDE DEF now
<1>4. WithValues(cols, a, values) = [cols EXCEPT ![a] = now]
      /\ WithRow(ents, a, e) = [ents EXCEPT ![a] = Append(ents[a], e)]
  BY DEF WithValues, WithRow, now
<1> DEFINE rows == Append(ents[a], e)
<1>5. \A c \in archs[a] : Fits(now[c], rows)
  BY <1>3
<1> HIDE DEF rows
<1>6. /\ [cols EXCEPT ![a] = now] \in ColumnTables(n)
      /\ Aligned(n, archs, [ents EXCEPT ![a] = rows], [cols EXCEPT ![a] = now])
  BY <1>3, <1>5, AlignedReplace
<1>7. QED
  BY <1>4, <1>6 DEF rows

(* A row that has a value for every column is pushed to each of them.      *)
LEMMA PushWholeRow ==
  ASSUME NEW n \in Nat, NEW archs, NEW ents, NEW cols, Aligned(n, archs, ents, cols),
         NEW a \in 1 .. n, NEW values, archs[a] \subseteq DOMAIN values
  PROVE  [cols EXCEPT ![a] = Pushed(@, values)] = WithValues(cols, a, values)
<1>1. DOMAIN cols[a] = archs[a]
  BY DEF Aligned
<1>2. Pushed(cols[a], values) = [c \in DOMAIN cols[a] |-> Append(cols[a][c], values[c])]
  BY <1>1 DEF Pushed
<1>3. QED
  BY <1>2 DEF WithValues

(* push_components pushes one value per position of the tuple: one for     *)
(* each type, unless the tuple names a type twice.                         *)
LEMMA PushBundleProperties ==
  ASSUME NEW b \in Bundle, NEW c \in Types(b), NEW v \in Value, NEW column \in Seq(Value)
  PROVE  /\ PushBundle(column, b, c, v) \in Seq(Value)
         /\ Len(PushBundle(column, b, c, v)) >= Len(column) + 1
         /\ BundlesDistinct => PushBundle(column, b, c, v) = Append(column, v)
<1> DEFINE positions == {p \in DOMAIN b : b[p] = c}
           k      == Cardinality(positions)
           pushed == [j \in 1 .. k |-> v]
<1>1. DOMAIN b = 1 .. Len(b) /\ Len(b) \in Nat
  BY BundleAssumption
<1>2. IsFiniteSet(positions)
  <2>1. IsFiniteSet(1 .. Len(b))
    BY <1>1, FS_Interval
  <2>2. positions \in SUBSET (1 .. Len(b))
    BY <1>1
  <2>3. QED
    BY <2>1, <2>2, FS_Subset
<1>3. PICK p \in positions : TRUE
  BY DEF Types
<1>4. k \in Nat /\ k # 0
  <2> HIDE DEF positions
  <2>1. QED
    BY <1>2, <1>3, FS_CardinalityType, FS_EmptySet
<1>5. BundlesDistinct => k = 1
  <2>1. ASSUME BundlesDistinct PROVE positions = {p}
    BY <1>3, <2>1 DEF BundlesDistinct
  <2> HIDE DEF positions
  <2>2. QED
    BY <2>1, FS_Singleton
<1>6. PushBundle(column, b, c, v) = column \o pushed
  BY DEF PushBundle
<1> HIDE DEF k
<1>7. pushed \in Seq(Value) /\ Len(pushed) = k
  <2>1. pushed \in [1 .. k -> Value]
    OBVIOUS
  <2>2. QED
    BY <1>4, <2>1, SeqDef
<1>8. k = 1 => pushed = <<v>>
  <2>1. <<v>> \in Seq(Value) /\ Len(<<v>>) = 1 /\ <<v>>[1] = v
    OBVIOUS
  <2>2. ASSUME k = 1 PROVE Len(pushed) = 1 /\ \A i \in 1 .. 1 : pushed[i] = <<v>>[i]
    BY <1>7, <2>1, <2>2
  <2> HIDE DEF pushed
  <2>3. QED
    BY <1>7, <2>1, <2>2, SeqEqual
<1> HIDE DEF pushed
<1>9. column \o pushed \in Seq(Value) /\ Len(column \o pushed) = Len(column) + k
  BY <1>7, ConcatProperties
<1>10. BundlesDistinct => column \o pushed = Append(column, v)
  BY <1>5, <1>8, AppendIsConcat
<1>11. QED
  BY <1>4, <1>6, <1>9, <1>10, LenProperties

(* A new archetype has a column, without values, for each type of its set, *)
(* if all those types have a registered factory.                           *)
LEMMA AlignedGrown ==
  ASSUME RowsType, NEW id, NEW set \in SUBSET Component, Resolves(id, set),
         NEW archs, archs = Grown(archetypes, id, set),
         columns \in ColumnTables(Len(archetypes)),
         Aligned(Len(archetypes), archetypes, archetypeEntities, columns),
         NEW factories, id \notin 1 .. Len(archetypes) => set \subseteq factories
  PROVE  LET cols == Grown(columns, id, NewColumns(set, factories))
             ents == Grown(archetypeEntities, id, <<>>)
         IN  /\ cols \in ColumnTables(Len(archs))
             /\ Aligned(Len(archs), archs, ents, cols)
             /\ \A a \in 1 .. Len(archetypes) : cols[a] = columns[a]
<1> DEFINE n == Len(archetypes)
           m == Len(archs)
           cols == Grown(columns, id, NewColumns(set, factories))
           ents == Grown(archetypeEntities, id, <<>>)
<1>1. /\ n \in Nat /\ id \in 1 .. n + 1
      /\ archetypes \in Seq(SUBSET Component)
      /\ archetypeEntities \in Tables(n)
  BY DEF RowsType, Resolves
<1>2. DOMAIN columns = 1 .. n /\ DOMAIN archetypeEntities = 1 .. n /\ DOMAIN archetypes = 1 .. n
  BY <1>1 DEF ColumnTables, Tables
<1>3. CASE id \in 1 .. n
  <2>1. cols = columns /\ ents = archetypeEntities /\ archs = archetypes
    BY <1>2, <1>3 DEF Grown
  <2>2. QED
    BY <2>1
<1>4. CASE id = n + 1
  <2> DEFINE fresh == NewColumns(set, factories)
  <2>1. id \notin 1 .. n /\ set \subseteq factories
    BY <1>1, <1>4
  <2>2. fresh = [c \in set |-> <<>>]
    BY <2>1 DEF NewColumns
  <2>3. fresh \in [set -> Seq(Value)] /\ fresh \in ColumnTable
    <3>1. \A c \in set : <<>> \in Seq(Value)
      OBVIOUS
    <3>2. fresh \in [set -> Seq(Value)]
      BY <2>2, <3>1
    <3>3. QED
      BY <3>2, ColumnTableMember
  <2> DEFINE norows == <<>>
  <2>4. norows \in Seq(Entity) /\ Len(norows) = 0
    OBVIOUS
  <2>5. \A c \in set : Fits(fresh[c], norows)
    BY <2>2 DEF Fits
  <2>6. columns \in Seq(ColumnTable) /\ Len(columns) = n
    BY <1>1, <1>2, SeqDef DEF ColumnTables
  <2>7. archetypeEntities \in Seq(Seq(Entity)) /\ Len(archetypeEntities) = n
    BY <1>1, <1>2, SeqDef DEF Tables
  <2> HIDE DEF fresh, norows
  <2>8. /\ Grown(columns, id, fresh) \in Seq(ColumnTable)
        /\ Len(Grown(columns, id, fresh)) = n + 1
        /\ \A a \in 1 .. n : Grown(columns, id, fresh)[a] = columns[a]
        /\ Grown(columns, id, fresh)[n + 1] = fresh
    BY <1>4, <2>1, <2>3, <2>6, GrownType, GrownLen, GrownOld, GrownFresh
  <2>9. /\ \A a \in 1 .. n : Grown(archetypeEntities, id, norows)[a] = archetypeEntities[a]
        /\ Grown(archetypeEntities, id, norows)[n + 1] = norows
    BY <1>4, <2>7, GrownOld, GrownFresh
  <2>10. /\ m = n + 1
         /\ \A a \in 1 .. n : archs[a] = archetypes[a]
         /\ archs[n + 1] = set
    BY <1>1, <1>4, <2>1, GrownLen, GrownOld, GrownFresh
  <2>11. cols = Grown(columns, id, fresh) /\ ents = Grown(archetypeEntities, id, norows)
    BY DEF fresh, norows
  <2> HIDE DEF cols, ents, n, m
  <2>12. cols \in ColumnTables(m)
    BY <2>8, <2>10, <2>11 DEF ColumnTables
  <2>13. ASSUME NEW a \in 1 .. m
         PROVE  /\ cols[a] \in [archs[a] -> Seq(Value)]
                /\ \A c \in archs[a] : Fits(cols[a][c], ents[a])
    <3>1. CASE a \in 1 .. n
      BY <2>8, <2>9, <2>10, <2>11, <3>1 DEF Aligned, n
    <3>2. CASE a = n + 1
      BY <2>3, <2>5, <2>8, <2>9, <2>10, <2>11, <3>2
    <3>3. QED
      BY <1>1, <2>10, <3>1, <3>2
  <2>14. QED
    BY <2>8, <2>11, <2>12, <2>13 DEF Aligned, n, m, cols, ents
<1>5. QED
  BY <1>1, <1>3, <1>4

ColumnsInv ==
  /\ columns \in ColumnTables(Len(archetypes))
  /\ Aligned(Len(archetypes), archetypes, archetypeEntities, columns)
  /\ columnFactories \subseteq Component
  /\ \A a \in 1 .. Len(archetypes) : archetypes[a] \subseteq columnFactories

(* Once the types of a set are registered, its archetype may be created.   *)
LEMMA FactoriesKept ==
  ASSUME RowsType, ColumnsInv, NEW id, NEW set \in SUBSET Component, Resolves(id, set),
         archetypes' = Grown(archetypes, id, set),
         columnFactories \subseteq columnFactories',
         id \notin 1 .. Len(archetypes) => set \subseteq columnFactories'
  PROVE  \A a \in 1 .. Len(archetypes') : archetypes'[a] \subseteq columnFactories'
<1>1. /\ Len(archetypes) \in Nat
      /\ Len(archetypes') = IF id \in 1 .. Len(archetypes)
                            THEN Len(archetypes) ELSE Len(archetypes) + 1
      /\ archetypes'[id] = set
      /\ id \in 1 .. Len(archetypes) + 1
      /\ \A a \in 1 .. Len(archetypes) : archetypes'[a] = archetypes[a]
  BY GrownArchetypes DEF RowsType, Resolves
<1>2. ASSUME NEW a \in 1 .. Len(archetypes'), a \notin 1 .. Len(archetypes)
      PROVE  a = id /\ id \notin 1 .. Len(archetypes)
  BY <1>1, <1>2
<1>3. QED
  BY <1>1, <1>2 DEF ColumnsInv

(* A move: the row's values leave one archetype and enter another one.     *)
LEMMA MoveKeepsColumns ==
  ASSUME RowsType, RowsMatch, ColumnsInv, NEW e \in Entity, IsAlive(e),
         NEW id, NEW set \in SUBSET Component, Resolves(id, set), id # LocationOf(e).arch,
         NEW factories \in SUBSET Component, columnFactories \subseteq factories,
         id \notin 1 .. Len(archetypes) => set \subseteq factories,
         NEW values, set \subseteq DOMAIN values, \A c \in set : values[c] \in Value,
         MoveRow(e, LocationOf(e), id, set, factories, values)
  PROVE  ColumnsInv'
<1> DEFINE at   == LocationOf(e)
           m    == Len(archetypes')
           ents == Grown(archetypeEntities, id, <<>>)
           cols == Grown(columns, id, NewColumns(set, factories))
           leftEnts == WithoutRow(ents, at.arch, at.row)
           leftCols == WithoutValues(cols, at.arch, at.row)
<1>1. /\ archetypes' = Grown(archetypes, id, set)
      /\ columnFactories' = factories
      /\ archetypeEntities' = WithRow(leftEnts, id, e)
      /\ columns' = [leftCols EXCEPT ![id] = Pushed(@, values)]
  BY DEF MoveRow, WithRow, WithoutRow, WithoutValues
<1>2. /\ archetypes' \in Seq(SUBSET Component)
      /\ m \in Nat
      /\ id \in 1 .. m
      /\ archetypes'[id] = set
      /\ 1 .. Len(archetypes) \subseteq 1 .. m
  BY <1>1, GrownArchetypes DEF RowsType
<1>3. archetypes' \in [1 .. m -> SUBSET Component]
  BY <1>2
<1>4. /\ at.arch \in 1 .. m
      /\ at.row \in 1 .. Len(archetypeEntities[at.arch])
      /\ at.arch \in 1 .. Len(archetypes)
  BY <1>2, LocatedRow
<1>5. /\ ents \in Tables(m)
      /\ Corresponds(m, ents, entityLocations, entityGenerations)
      /\ ents[at.arch] = archetypeEntities[at.arch]
  BY <1>1, <1>4, GrownRows
<1>6. cols \in ColumnTables(m) /\ Aligned(m, archetypes', ents, cols)
  BY <1>1, AlignedGrown DEF ColumnsInv
<1> HIDE DEF ents, cols, m, at
<1>7. at.row \in 1 .. Len(ents[at.arch])
  BY <1>4, <1>5
<1>8. leftCols \in ColumnTables(m) /\ Aligned(m, archetypes', leftEnts, leftCols)
  BY <1>2, <1>3, <1>4, <1>5, <1>6, <1>7, AlignedTakeOut
<1>9. leftEnts \in Tables(m)
  BY <1>2, <1>4, <1>5, <1>7, TakeOutTypes DEF RowsType
<1> HIDE DEF leftEnts, leftCols
<1>9a. columns' = WithValues(leftCols, id, values)
  BY <1>1, <1>2, <1>8, PushWholeRow
<1>10. columns' \in ColumnTables(m) /\ Aligned(m, archetypes', archetypeEntities', columns')
  <2>1. archetypeEntities' = WithRow(leftEnts, id, e)
    BY <1>1
  <2>2. QED
    BY <1>2, <1>3, <1>8, <1>9, <1>9a, <2>1, AlignedPush
<1>11. \A a \in 1 .. Len(archetypes') : archetypes'[a] \subseteq columnFactories'
  BY <1>1, FactoriesKept
<1>12. QED
  BY <1>1, <1>10, <1>11 DEF ColumnsInv, m

(* The values of a live handle's row.                                      *)
LEMMA RowValuesTypes ==
  ASSUME RowsType, RowsMatch, ColumnsInv, NEW e \in Entity, IsAlive(e),
         NEW c \in archetypes[LocationOf(e).arch]
  PROVE  /\ RowValues(LocationOf(e))[c] = columns[LocationOf(e).arch][c][LocationOf(e).row]
         /\ RowValues(LocationOf(e))[c] \in Value
<1> DEFINE at == LocationOf(e)
<1>1. at.arch \in 1 .. Len(archetypes) /\ at.row \in 1 .. Len(archetypeEntities[at.arch])
  BY LocatedRow
<1>2. archetypeEntities[at.arch] \in Seq(Entity)
  BY <1>1, TablesRows DEF RowsType
<1>3. /\ columns[at.arch] \in [archetypes[at.arch] -> Seq(Value)]
      /\ Fits(columns[at.arch][c], archetypeEntities[at.arch])
      /\ c \in archetypes[at.arch]
  BY <1>1 DEF ColumnsInv, Aligned
<1>4. RowValues(at)[c] = columns[at.arch][c][at.row]
  BY <1>3 DEF RowValues
<1> HIDE DEF at
<1>5. columns[at.arch][c] \in Seq(Value) /\ at.row \in 1 .. Len(columns[at.arch][c])
  BY <1>1, <1>2, <1>3, LenProperties DEF Fits
<1>6. QED
  BY <1>4, <1>5 DEF at
-----------------------------------------------------------------------------
(* The steps of the specification.                                         *)

(* spawn_empty pushes a row where there are no columns.                    *)
LEMMA SpawnEmptyKeepsColumns ==
  ASSUME RowsInv, ColumnsInv, SpawnEmpty
  PROVE  ColumnsInv'
<1>1. PICK i \in Index :
        archetypeEntities' = [archetypeEntities EXCEPT ![EmptyArchetype] = Append(@, HandleAt(i))]
  BY DEF SpawnEmpty
<1>2. UNCHANGED <<archetypes, columns, columnFactories>>
  BY DEF SpawnEmpty
<1>3. archetypes[EmptyArchetype] = {} /\ archetypeEntities \in Tables(Len(archetypes))
  BY DEF RowsInv, RowsType
<1>4. \A a \in 1 .. Len(archetypes) : a # EmptyArchetype =>
        archetypeEntities'[a] = archetypeEntities[a]
  BY <1>1, <1>3 DEF Tables
<1>5. Aligned(Len(archetypes), archetypes, archetypeEntities', columns)
  BY <1>3, <1>4 DEF ColumnsInv, Aligned
<1>6. QED
  BY <1>2, <1>5 DEF ColumnsInv

(* spawn_with pushes the bundle's values behind each column.               *)
LEMMA SpawnWithKeepsColumns ==
  ASSUME RowsInv, ColumnsInv, NEW b \in Bundle, NEW value \in [Types(b) -> Value],
         SpawnWith(b, value)
  PROVE  ColumnsInv'
<1> DEFINE cached == bundleArchetypes[b]
           set  == Types(b)
           id   == IF cached # 0 THEN cached ELSE ArchetypeFor(set)
           factories == IF cached # 0 THEN columnFactories ELSE columnFactories \cup set
           ents == Grown(archetypeEntities, id, <<>>)
           cols == Grown(columns, id, NewColumns(set, factories))
           m    == Len(archetypes')
           pushed == [c \in DOMAIN cols[id] |-> PushBundle(cols[id][c], b, c, value[c])]
<1>1. PICK i \in Index :
        /\ columnFactories' = factories
        /\ archetypes' = Grown(archetypes, id, set)
        /\ archetypeEntities' = [ents EXCEPT ![id] = Append(@, HandleAt(i))]
        /\ columns' = [cols EXCEPT ![id] = pushed]
  BY DEF SpawnWith
<1>2. set \in SUBSET Component
  BY BundleTypes
<1>3. /\ Resolves(id, set)
      /\ id \notin 1 .. Len(archetypes) => set \subseteq factories
      /\ factories \in SUBSET Component
      /\ columnFactories \subseteq factories
  <2>1. CASE cached # 0
    BY <2>1 DEF RowsInv, RowsType, ShortcutsResolve, Resolves, ColumnsInv
  <2>2. CASE cached = 0
    BY <1>2, <2>2, ArchetypeForResolves DEF RowsInv, ColumnsInv
  <2>3. QED
    BY <2>1, <2>2
<1> HIDE DEF id, factories, set
<1>4. /\ archetypes' \in Seq(SUBSET Component)
      /\ m \in Nat
      /\ id \in 1 .. m
      /\ archetypes'[id] = set
  BY <1>1, <1>2, <1>3, GrownArchetypes DEF RowsInv
<1>5. ents \in Tables(m)
  BY <1>1, <1>2, <1>3, GrownRows DEF RowsInv
<1>6. cols \in ColumnTables(m) /\ Aligned(m, archetypes', ents, cols)
  BY <1>1, <1>2, <1>3, AlignedGrown DEF ColumnsInv, RowsInv
<1>7. HandleAt(i) \in Entity
  BY DEF RowsInv, RowsType, HandleAt, Entity
<1> HIDE DEF ents, cols, m
<1>8. /\ cols[id] \in [set -> Seq(Value)]
      /\ \A c \in set : cols[id][c] \in Seq(Value) /\ Fits(cols[id][c], ents[id])
      /\ ents[id] \in Seq(Entity)
  BY <1>4, <1>5, <1>6, TablesRows DEF Aligned
<1> DEFINE rows == Append(ents[id], HandleAt(i))
<1>9. Len(rows) = Len(ents[id]) + 1 /\ Len(ents[id]) \in Nat
  BY <1>7, <1>8
<1>10. ASSUME NEW c \in set
       PROVE  /\ PushBundle(cols[id][c], b, c, value[c]) \in Seq(Value)
              /\ Fits(PushBundle(cols[id][c], b, c, value[c]), rows)
  <2>1. value[c] \in Value /\ cols[id][c] \in Seq(Value) /\ c \in Types(b)
    BY <1>8 DEF set
  <2> DEFINE column == cols[id][c]
             more   == PushBundle(column, b, c, value[c])
  <2> HIDE DEF column
  <2>2. /\ more \in Seq(Value)
        /\ Len(more) >= Len(column) + 1
        /\ BundlesDistinct => more = Append(column, value[c])
        /\ column \in Seq(Value)
    BY <2>1, PushBundleProperties DEF column
  <2> HIDE DEF more
  <2>3. BundlesDistinct => Len(more) = Len(column) + 1
    BY <2>1, <2>2, AppendProperties
  <2>4. Fits(column, ents[id])
    BY <1>8 DEF column
  <2> HIDE DEF rows
  <2>5. Fits(more, rows)
    BY <1>9, <2>2, <2>3, <2>4, LenProperties DEF Fits
  <2>6. QED
    BY <2>2, <2>5 DEF more, column
<1>11. pushed \in [set -> Seq(Value)] /\ \A c \in set : Fits(pushed[c], rows)
  BY <1>8, <1>10
<1>12. archetypes' \in [1 .. m -> SUBSET Component]
  BY <1>4 DEF m
<1>13. archetypeEntities' = [ents EXCEPT ![id] = rows]
  BY <1>1
<1> HIDE DEF pushed, rows
<1>14. columns' \in ColumnTables(m) /\ Aligned(m, archetypes', archetypeEntities', columns')
  <2>1. pushed \in [archetypes'[id] -> Seq(Value)] /\ \A c \in archetypes'[id] : Fits(pushed[c], rows)
    BY <1>4, <1>11
  <2>2. /\ [cols EXCEPT ![id] = pushed] \in ColumnTables(m)
        /\ Aligned(m, archetypes', [ents EXCEPT ![id] = rows], [cols EXCEPT ![id] = pushed])
    BY <1>4, <1>5, <1>6, <1>12, <2>1, AlignedReplace
  <2>3. QED
    BY <1>1, <1>13, <2>2
<1>15. \A a \in 1 .. Len(archetypes') : archetypes'[a] \subseteq columnFactories'
  BY <1>1, <1>2, <1>3, FactoriesKept DEF RowsInv
<1>16. QED
  BY <1>1, <1>3, <1>14, <1>15 DEF ColumnsInv, m

(* despawn drops the row's values.                                         *)
LEMMA DespawnKeepsColumns ==
  ASSUME RowsInv, ColumnsInv, NEW e \in Handle, Despawn(e)
  PROVE  ColumnsInv'
<1> DEFINE at == LocationOf(e)
           n  == Len(archetypes)
<1>1. /\ e \in Entity
      /\ IsAlive(e)
      /\ archetypeEntities' = WithoutRow(archetypeEntities, at.arch, at.row)
      /\ columns' = WithoutValues(columns, at.arch, at.row)
      /\ UNCHANGED <<archetypes, columnFactories>>
  BY HandleEntity DEF Despawn, IsAlive, WithoutRow, WithoutValues
<1>2. /\ at.arch \in 1 .. n
      /\ at.row \in 1 .. Len(archetypeEntities[at.arch])
  BY <1>1, LocatedRow DEF RowsInv
<1>3. /\ n \in Nat
      /\ archetypes \in [1 .. n -> SUBSET Component]
      /\ archetypeEntities \in Tables(n)
  BY DEF RowsInv, RowsType
<1> HIDE DEF at, n
<1>4. columns \in ColumnTables(n) /\ Aligned(n, archetypes, archetypeEntities, columns)
  BY DEF ColumnsInv, n
<1>5. columns' \in ColumnTables(n) /\ Aligned(n, archetypes, archetypeEntities', columns')
  BY <1>1, <1>2, <1>3, <1>4, AlignedTakeOut
<1>6. QED
  BY <1>1, <1>5 DEF ColumnsInv, n

(* add_component on a type the entity has writes one value of one column.  *)
LEMMA OverwriteKeepsColumns ==
  ASSUME RowsInv, ColumnsInv, NEW e \in Entity, IsAlive(e),
         NEW c \in archetypes[LocationOf(e).arch], NEW v \in Value,
         Overwrite(LocationOf(e), c, v)
  PROVE  ColumnsInv'
<1> DEFINE at   == LocationOf(e)
           n    == Len(archetypes)
           old  == columns[at.arch][c]
           new  == [old EXCEPT ![at.row] = v]
           cols == [columns[at.arch] EXCEPT ![c] = new]
<1>1. /\ columns' = [columns EXCEPT ![at.arch] = cols]
      /\ UNCHANGED <<archetypes, archetypeEntities, columnFactories>>
  BY DEF Overwrite
<1>2. /\ at.arch \in 1 .. n
      /\ at.row \in 1 .. Len(archetypeEntities[at.arch])
      /\ archetypeEntities[at.arch] \in Seq(Entity)
  BY LocatedRow, TablesRows DEF RowsInv, RowsType
<1>3. /\ n \in Nat
      /\ archetypes \in [1 .. n -> SUBSET Component]
      /\ archetypeEntities \in Tables(n)
      /\ c \in archetypes[at.arch]
  BY DEF RowsInv, RowsType
<1> HIDE DEF at, n
<1>4. columns \in ColumnTables(n) /\ Aligned(n, archetypes, archetypeEntities, columns)
  BY DEF ColumnsInv, n
<1>5. /\ columns[at.arch] \in [archetypes[at.arch] -> Seq(Value)]
      /\ \A x \in archetypes[at.arch] : Fits(columns[at.arch][x], archetypeEntities[at.arch])
  BY <1>2, <1>4 DEF Aligned
<1>6. old \in Seq(Value) /\ Fits(old, archetypeEntities[at.arch])
  BY <1>3, <1>5
<1> HIDE DEF old
<1>7. new \in Seq(Value) /\ Len(new) = Len(old)
  <2>1. at.row \in 1 .. Len(old)
    BY <1>2, <1>6, LenProperties DEF Fits
  <2>2. QED
    BY <1>6, <2>1, ExceptSeq
<1> HIDE DEF new
<1>8. Fits(new, archetypeEntities[at.arch])
  BY <1>6, <1>7 DEF Fits
<1>9. /\ cols \in [archetypes[at.arch] -> Seq(Value)]
      /\ \A x \in archetypes[at.arch] : Fits(cols[x], archetypeEntities[at.arch])
  BY <1>3, <1>5, <1>7, <1>8
<1> DEFINE rows == archetypeEntities[at.arch]
<1>10. archetypeEntities = [archetypeEntities EXCEPT ![at.arch] = rows]
  BY <1>3 DEF Tables
<1>11. \A x \in archetypes[at.arch] : Fits(cols[x], rows)
  BY <1>9
<1> HIDE DEF cols, rows
<1>12. /\ columns' \in ColumnTables(n)
       /\ Aligned(n, archetypes, [archetypeEntities EXCEPT ![at.arch] = rows], columns')
  BY <1>1, <1>2, <1>3, <1>4, <1>9, <1>11, AlignedReplace
<1>13. QED
  BY <1>1, <1>10, <1>12 DEF ColumnsInv, n

(* add_component: overwrite, or a move that adds one value.                *)
LEMMA AddKeepsColumns ==
  ASSUME RowsInv, ColumnsInv, NEW e \in Entity, NEW c \in Component, NEW v \in Value,
         AddComponent(e, c, v)
  PROVE  ColumnsInv'
<1> DEFINE at == LocationOf(e)
<1>1. IsAlive(e) /\ RowsType /\ RowsMatch
  BY DEF AddComponent, IsAlive, RowsInv
<1>2. /\ at.arch \in 1 .. Len(archetypes)
      /\ archetypes[at.arch] \in SUBSET Component
      /\ archetypes[at.arch] \subseteq columnFactories
      /\ columnFactories \in SUBSET Component
      /\ DOMAIN archetypes = 1 .. Len(archetypes)
  BY <1>1, LocatedRow DEF RowsType, ColumnsInv
<1>3. CASE c \in archetypes[at.arch] /\ Overwrite(at, c, v)
  BY <1>1, <1>3, OverwriteKeepsColumns
<1>4. CASE c \notin archetypes[at.arch] /\ at.arch = EmptyArchetype /\ AddFirst(e, at, c, v)
  <2> DEFINE id == IF singleComponentArchetypes[c] # 0 THEN singleComponentArchetypes[c]
                   ELSE ArchetypeFor({c})
             factories == IF singleComponentArchetypes[c] # 0 THEN columnFactories
                          ELSE columnFactories \cup {c}
             values == [x \in {c} |-> v]
             set == {c}
  <2>1. MoveRow(e, at, id, set, factories, values)
    BY <1>4 DEF AddFirst
  <2>2. /\ Resolves(id, set)
        /\ id \notin 1 .. Len(archetypes) => set \subseteq factories
        /\ factories \in SUBSET Component
        /\ columnFactories \subseteq factories
    <3>1. CASE singleComponentArchetypes[c] # 0
      BY <1>2, <3>1 DEF RowsInv, RowsType, ShortcutsResolve, Resolves
    <3>2. CASE singleComponentArchetypes[c] = 0
      BY <1>1, <1>2, <3>2, ArchetypeForResolves
    <3>3. QED
      BY <3>1, <3>2
  <2>3. /\ set \in SUBSET Component /\ c \in set
        /\ set \subseteq DOMAIN values /\ \A x \in set : values[x] \in Value
    OBVIOUS
  <2> HIDE DEF id, factories, values, set
  <2>4. id # at.arch
    BY <1>2, <1>4, <2>2, <2>3 DEF Resolves
  <2>5. QED
    BY <1>1, <2>1, <2>2, <2>3, <2>4, MoveKeepsColumns
<1>5. CASE c \notin archetypes[at.arch] /\ at.arch # EmptyArchetype /\ AddAnother(e, at, c, v)
  <2> DEFINE set == archetypes[at.arch] \cup {c}
             id  == IF addTransitions[at.arch][c] # 0 THEN addTransitions[at.arch][c]
                    ELSE ArchetypeFor(set)
             factories == columnFactories \cup {c}
             values == [x \in DOMAIN RowValues(at) \cup {c} |-> IF x = c THEN v ELSE RowValues(at)[x]]
  <2>1. MoveRow(e, at, id, set, factories, values)
    BY <1>5 DEF AddAnother
  <2>2. Resolves(id, set)
    <3>1. CASE addTransitions[at.arch][c] # 0
      BY <1>2, <3>1 DEF RowsInv, ShortcutsResolve, Resolves
    <3>2. CASE addTransitions[at.arch][c] = 0
      BY <1>1, <3>2, ArchetypeForResolves
    <3>3. QED
      BY <3>1, <3>2
  <2>3. /\ set \in SUBSET Component
        /\ c \in set
        /\ factories \in SUBSET Component
        /\ columnFactories \subseteq factories
        /\ set \subseteq factories
    BY <1>2
  <2>4. set \subseteq DOMAIN values /\ \A x \in set : values[x] \in Value
    BY <1>1, <1>2, RowValuesTypes DEF RowValues, ColumnsInv, Aligned
  <2> HIDE DEF id, factories, values, set
  <2>5. id # at.arch
    BY <1>2, <1>5, <2>2, <2>3 DEF Resolves
  <2>6. QED
    BY <1>1, <2>1, <2>2, <2>3, <2>4, <2>5, MoveKeepsColumns
<1>6. QED
  BY <1>3, <1>4, <1>5 DEF AddComponent

(* remove_component: a move that drops one value.                          *)
LEMMA RemoveKeepsColumns ==
  ASSUME RowsInv, ColumnsInv, NEW e \in Entity, NEW c \in Component, RemoveComponent(e, c)
  PROVE  ColumnsInv'
<1> DEFINE at  == LocationOf(e)
           set == archetypes[at.arch] \ {c}
           id  == IF removeTransitions[at.arch][c] # 0 THEN removeTransitions[at.arch][c]
                  ELSE ArchetypeFor(set)
           values == RowValues(at)
<1>1. /\ IsAlive(e) /\ RowsType /\ RowsMatch
      /\ c \in archetypes[at.arch]
      /\ MoveRow(e, at, id, set, columnFactories, values)
  BY DEF RemoveComponent, IsAlive, RowsInv
<1>2. /\ at.arch \in 1 .. Len(archetypes)
      /\ archetypes[at.arch] \in SUBSET Component
      /\ archetypes[at.arch] \subseteq columnFactories
      /\ columnFactories \in SUBSET Component
      /\ DOMAIN archetypes = 1 .. Len(archetypes)
  BY <1>1, LocatedRow DEF RowsType, ColumnsInv
<1>3. Resolves(id, set)
  <2>1. CASE removeTransitions[at.arch][c] # 0
    BY <1>2, <2>1 DEF RowsInv, ShortcutsResolve, Resolves
  <2>2. CASE removeTransitions[at.arch][c] = 0
    BY <1>1, <2>2, ArchetypeForResolves
  <2>3. QED
    BY <2>1, <2>2
<1>4. set \subseteq DOMAIN values /\ \A x \in set : values[x] \in Value
  BY <1>1, <1>2, RowValuesTypes DEF RowValues, ColumnsInv, Aligned
<1>5. set \in SUBSET Component /\ set \subseteq columnFactories /\ c \notin set
  BY <1>2
<1> HIDE DEF id, values, set
<1>6. id # at.arch
  BY <1>1, <1>2, <1>3, <1>5 DEF Resolves
<1>7. QED
  BY <1>1, <1>2, <1>3, <1>4, <1>5, <1>6, MoveKeepsColumns

(* World::new: the empty archetype has no columns.                         *)
LEMMA InitColumns == Init => ColumnsInv
<1> SUFFICES ASSUME Init PROVE ColumnsInv
  OBVIOUS
<1> DEFINE nocolumns == [c \in {} |-> <<>>]
<1>1. Len(archetypes) = 1 /\ archetypes[1] = {} /\ 1 .. 1 = {1}
  BY DEF Init
<1>2. nocolumns \in [{} -> Seq(Value)] /\ nocolumns \in ColumnTable
  <2>1. nocolumns \in [{} -> Seq(Value)]
    OBVIOUS
  <2>2. QED
    BY <2>1, ColumnTableMember
<1>3. columns = <<nocolumns>>
  BY DEF Init
<1> HIDE DEF nocolumns
<1>4. columns = [a \in 1 .. 1 |-> nocolumns] /\ columns[1] = nocolumns
  BY <1>1, <1>3
<1>5. columns \in ColumnTables(1)
  BY <1>2, <1>4 DEF ColumnTables
<1>6. Aligned(1, archetypes, archetypeEntities, columns)
  BY <1>1, <1>2, <1>4 DEF Aligned
<1>7. QED
  BY <1>1, <1>5, <1>6 DEF ColumnsInv, Init

(* ColumnsInv is inductive, given the rows.                                *)
LEMMA NextKeepsColumns ==
  RowsInv /\ ColumnsInv /\ [Next]_vars => ColumnsInv'
<1> SUFFICES ASSUME RowsInv, ColumnsInv, [Next]_vars PROVE ColumnsInv'
  OBVIOUS
<1>1. CASE SpawnEmpty
  BY <1>1, SpawnEmptyKeepsColumns
<1>2. ASSUME NEW b \in Bundle, NEW value \in [Types(b) -> Value], SpawnWith(b, value)
      PROVE  ColumnsInv'
  BY <1>2, SpawnWithKeepsColumns
<1>3. ASSUME NEW e \in Handle, Despawn(e) PROVE ColumnsInv'
  BY <1>3, DespawnKeepsColumns
<1>4. ASSUME NEW e \in Handle, NEW c \in Component, NEW v \in Value, AddComponent(e, c, v)
      PROVE  ColumnsInv'
  BY <1>4, HandleEntity, AddKeepsColumns
<1>5. ASSUME NEW e \in Handle, NEW c \in Component, RemoveComponent(e, c) PROVE ColumnsInv'
  BY <1>5, HandleEntity, RemoveKeepsColumns
<1>6. ASSUME NEW c \in Component, RegisterComponentType(c) PROVE ColumnsInv'
  BY <1>6 DEF RegisterComponentType, ColumnsInv
<1>7. CASE UNCHANGED vars
  BY <1>7 DEF vars, storage, ColumnsInv
<1>8. QED
  BY <1>1, <1>2, <1>3, <1>4, <1>5, <1>6, <1>7 DEF Next

(* The inductive invariant of the columns.                                 *)
LEMMA ColumnsInvariant == Spec => []ColumnsInv
BY InitColumns, NextKeepsColumns, RowsInvariant, PTL DEF Spec

(* With tuples that name no type twice, every column is exactly as long as *)
(* its entity list after every spawn, move and swap-remove: what the       *)
(* unchecked reads of queries and pointer caches rely on.  A tuple that    *)
(* names a type twice pushes two values for one row (see PushBundle).      *)
THEOREM ColumnsTheorem ==
  ASSUME BundlesDistinct
  PROVE  Spec => []ColumnsAligned
<1>1. RowsInv /\ ColumnsInv => ColumnsAligned
  <2> SUFFICES ASSUME RowsInv, ColumnsInv PROVE ColumnsAligned
    OBVIOUS
  <2>1. DOMAIN archetypes = 1 .. Len(archetypes)
    BY DEF RowsInv, RowsType
  <2>2. ASSUME NEW a \in 1 .. Len(archetypes)
        PROVE  /\ DOMAIN columns[a] = archetypes[a]
               /\ \A c \in archetypes[a] : Len(columns[a][c]) = Len(archetypeEntities[a])
    BY DEF ColumnsInv, Aligned, Fits
  <2>3. QED
    BY <2>1, <2>2 DEF ColumnsAligned
<1>2. QED
  BY <1>1, RowsInvariant, ColumnsInvariant, PTL

(* Whatever bundles are spawned, no column ever misses a value for a row:  *)
(* an unchecked read by row number stays inside its column.                *)
THEOREM NoShortColumnTheorem ==
  Spec => [](\A a \in DOMAIN archetypes : \A c \in archetypes[a] :
               /\ c \in DOMAIN columns[a]
               /\ Len(columns[a][c]) >= Len(archetypeEntities[a]))
<1> DEFINE NoShortColumn ==
             \A a \in DOMAIN archetypes : \A c \in archetypes[a] :
               /\ c \in DOMAIN columns[a]
               /\ Len(columns[a][c]) >= Len(archetypeEntities[a])
<1>1. RowsInv /\ ColumnsInv => NoShortColumn
  <2> SUFFICES ASSUME RowsInv, ColumnsInv PROVE NoShortColumn
    OBVIOUS
  <2>1. DOMAIN archetypes = 1 .. Len(archetypes)
    BY DEF RowsInv, RowsType
  <2>2. QED
    BY <2>1 DEF ColumnsInv, Aligned, Fits
<1> HIDE DEF NoShortColumn
<1>2. Spec => []NoShortColumn
  BY <1>1, RowsInvariant, ColumnsInvariant, PTL
<1>3. QED
  BY <1>2 DEF NoShortColumn
-----------------------------------------------------------------------------
(* Types.                                                                  *)

FlagType == allGenerationsZero \in BOOLEAN

(* spawn and despawn are the only calls that change the flag.              *)
LEMMA NextKeepsFlag ==
  FlagType /\ [Next]_vars => FlagType'
<1> SUFFICES ASSUME FlagType, [Next]_vars
             PROVE  FlagType'
  OBVIOUS
<1>1. ASSUME NEW i, Allocate(i) PROVE FlagType'
  BY <1>1 DEF Allocate, FlagType
<1>2. ASSUME UNCHANGED allocator PROVE FlagType'
  BY <1>2 DEF allocator, FlagType
<1>3. CASE SpawnEmpty
  BY <1>1, <1>3 DEF SpawnEmpty
<1>4. ASSUME NEW b \in Bundle, NEW value \in [Types(b) -> Value], SpawnWith(b, value)
      PROVE  FlagType'
  BY <1>1, <1>4 DEF SpawnWith
<1>5. ASSUME NEW e \in Handle, Despawn(e) PROVE FlagType'
  BY <1>5 DEF Despawn, Retire, FlagType
<1>6. ASSUME NEW e \in Handle, NEW c \in Component, NEW v \in Value, AddComponent(e, c, v)
      PROVE  FlagType'
  BY <1>2, <1>6 DEF AddComponent, Overwrite, AddFirst, AddAnother
<1>7. ASSUME NEW e \in Handle, NEW c \in Component, RemoveComponent(e, c)
      PROVE  FlagType'
  BY <1>2, <1>7 DEF RemoveComponent
<1>8. ASSUME NEW c \in Component, RegisterComponentType(c)
      PROVE  FlagType'
  BY <1>2, <1>8 DEF RegisterComponentType
<1>9. CASE UNCHANGED vars
  BY <1>2, <1>9 DEF vars
<1>10. QED
  BY <1>3, <1>4, <1>5, <1>6, <1>7, <1>8, <1>9 DEF Next

(* A table with one entry per archetype is a sequence of that length.      *)
LEMMA TableIsSequence ==
  ASSUME NEW n \in Nat, NEW S, NEW table \in [1 .. n -> S]
  PROVE  table \in Seq(S) /\ Len(table) = n /\ DOMAIN table = 1 .. n
<1>1. table \in Seq(S)
  BY SeqDef
<1>2. QED
  BY <1>1, LenProperties

(* Every table of World keeps its type and its one entry per archetype,    *)
(* and the tail stays within the indices.                                  *)
THEOREM TypesTheorem == Spec => []TypeOK
<1>1. Spec => []FlagType
  <2>1. Init => FlagType
    BY DEF Init, FlagType
  <2>2. QED
    BY <2>1, NextKeepsFlag, PTL DEF Spec
<1>2. RowsInv /\ ColumnsInv /\ TailInv /\ FlagType => TypeOK
  <2> SUFFICES ASSUME RowsInv, ColumnsInv, TailInv, FlagType
               PROVE  TypeOK
    OBVIOUS
  <2> DEFINE n == Len(archetypes)
  <2>1. /\ nextEntityIndex \in 0 .. MaxEntities
        /\ entityGenerations \in [Index -> Nat]
        /\ freeIndices \in Seq(Index)
        /\ entityLocations \in [Index -> Location]
        /\ archetypes \in Seq(SUBSET Component)
        /\ singleComponentArchetypes \in [Component -> Nat]
        /\ bundleArchetypes \in [Bundle -> Nat]
    BY DEF RowsInv, RowsType
  <2>2. /\ n \in Nat
        /\ archetypeEntities \in [1 .. n -> Seq(Entity)]
        /\ addTransitions \in [1 .. n -> [Component -> Nat]]
        /\ removeTransitions \in [1 .. n -> [Component -> Nat]]
        /\ columns \in [1 .. n -> ColumnTable]
    BY DEF RowsInv, RowsType, Tables, Transitions, ColumnsInv, ColumnTables
  <2>3. \A a \in 1 .. n : columns[a] \in [DOMAIN columns[a] -> Seq(Value)]
    BY DEF ColumnsInv, Aligned
  <2> HIDE DEF n
  <2>4. archetypeEntities \in Seq(Seq(Entity)) /\ Len(archetypeEntities) = n
    BY <2>2, TableIsSequence
  <2>5. /\ addTransitions \in Seq([Component -> Nat]) /\ Len(addTransitions) = n
        /\ removeTransitions \in Seq([Component -> Nat]) /\ Len(removeTransitions) = n
    <3> DEFINE S == [Component -> Nat]
    <3>1. addTransitions \in [1 .. n -> S] /\ removeTransitions \in [1 .. n -> S]
      BY <2>2
    <3> HIDE DEF S
    <3>2. /\ addTransitions \in Seq(S) /\ Len(addTransitions) = n
          /\ removeTransitions \in Seq(S) /\ Len(removeTransitions) = n
      BY <2>2, <3>1, TableIsSequence
    <3>3. QED
      BY <3>2 DEF S
  <2>6. Len(columns) = n /\ DOMAIN columns = 1 .. n
    BY <2>2, TableIsSequence
  <2>7. maxNonemptyEntityIndex \in Index \cup {None} /\ componentlessTailStart \in 0 .. MaxEntities
    <3>1. maxNonemptyEntityIndex \in Index \cup {None}
          /\ componentlessTailStart = maxNonemptyEntityIndex + 1
      BY DEF TailInv, TailExact
    <3>2. QED
      BY <3>1, MaxEntitiesAssumption DEF Index, None
  <2>8. columnFactories \subseteq Component
    BY DEF ColumnsInv
  <2>9. QED
    BY <2>1, <2>3, <2>4, <2>5, <2>6, <2>7, <2>8 DEF TypeOK, n, FlagType
<1>3. QED
  BY <1>1, <1>2, RowsInvariant, ColumnsInvariant, TailInvariant, PTL

-----------------------------------------------------------------------------
(* Values at a location, for arbitrary tables.                             *)

HeldAt(archs, cols, at) == [c \in archs[at.arch] |-> cols[at.arch][c][at.row]]

(* Distinct bundles keep every column exactly as long as its rows.         *)
LEMMA ExactColumns ==
  ASSUME BundlesDistinct, NEW n, NEW archs, NEW ents \in Tables(n), NEW cols,
         Aligned(n, archs, ents, cols), NEW a \in 1 .. n
  PROVE  /\ ents[a] \in Seq(Entity)
         /\ Len(ents[a]) \in Nat
         /\ \A c \in archs[a] : cols[a][c] \in Seq(Value) /\ Len(cols[a][c]) = Len(ents[a])
         /\ DOMAIN cols[a] = archs[a]
<1>1. ents[a] \in Seq(Entity) /\ cols[a] \in [archs[a] -> Seq(Value)]
  BY TablesRows DEF Aligned
<1>2. \A c \in archs[a] : Len(cols[a][c]) = Len(ents[a])
  BY DEF Aligned, Fits
<1>3. QED
  BY <1>1, <1>2, LenProperties

(* Taking out a row leaves every other entity its values, also the one     *)
(* that swap-remove moves into the row.                                    *)
LEMMA TakeOutHolds ==
  ASSUME BundlesDistinct, NEW n \in Nat, NEW archs, NEW ents \in Tables(n),
         NEW cols \in ColumnTables(n), Aligned(n, archs, ents, cols),
         NEW locs \in [Index -> Location], NEW gens, Corresponds(n, ents, locs, gens),
         NEW a \in 1 .. n, NEW r \in 1 .. Len(ents[a]),
         NEW i \in Index, i # ents[a][r].index, locs[i] # NoLocation
  PROVE  HeldAt(archs, WithoutValues(cols, a, r), WithoutEntity(locs, ents, a, r)[i])
           = HeldAt(archs, cols, locs[i])
<1> DEFINE k    == Len(ents[a])
           last == ents[a][k]
           loc  == locs[i]
           left == WithoutValues(cols, a, r)
           new  == WithoutEntity(locs, ents, a, r)[i]
<1>1. /\ ents[a] \in Seq(Entity) /\ k \in Nat
      /\ \A c \in archs[a] : cols[a][c] \in Seq(Value) /\ Len(cols[a][c]) = k
      /\ DOMAIN cols[a] = archs[a]
  <2> HIDE DEF last, loc, left, new
  <2>1. /\ BundlesDistinct /\ ents \in Tables(n)
        /\ Aligned(n, archs, ents, cols) /\ a \in 1 .. n
    OBVIOUS
  <2>2. /\ ents[a] \in Seq(Entity)
        /\ Len(ents[a]) \in Nat
        /\ \A c \in archs[a] : cols[a][c] \in Seq(Value) /\ Len(cols[a][c]) = Len(ents[a])
        /\ DOMAIN cols[a] = archs[a]
    BY ONLY <2>1, ExactColumns
  <2>3. QED
    BY <2>2
<1>2. k \in 1 .. k /\ last.index \in Index /\ ents[a][r].index \in Index
  BY <1>1, TablesRows, EntityFields
<1>3. /\ loc.arch \in 1 .. n
      /\ loc.row \in 1 .. Len(ents[loc.arch])
      /\ ents[loc.arch][loc.row].index = i
      /\ locs[last.index] = [arch |-> a, row |-> k]
  BY <1>2 DEF Corresponds
<1>4. new = IF i = last.index THEN [arch |-> a, row |-> r] ELSE loc
  BY <1>2 DEF WithoutEntity
<1>5. /\ \A b \in 1 .. n : b # a => left[b] = cols[b]
      /\ left[a] = [c \in archs[a] |-> SwapRemove(cols[a][c], r)]
  BY <1>1 DEF WithoutValues, DropValues, ColumnTables
<1>6. \A c \in archs[a] : \A j \in 1 .. k - 1 :
        left[a][c][j] = IF j = r THEN cols[a][c][k] ELSE cols[a][c][j]
  <2>1. ASSUME NEW c \in archs[a], NEW j \in 1 .. k - 1
        PROVE  SwapRemove(cols[a][c], r)[j] = IF j = r THEN cols[a][c][k] ELSE cols[a][c][j]
    <3> DEFINE s == cols[a][c]
    <3>1. s \in Seq(Value) /\ Len(s) = k
      BY <1>1
    <3> HIDE DEF s, k
    <3>2. r \in 1 .. Len(s) /\ j \in 1 .. Len(s) - 1
      BY <3>1 DEF k
    <3>3. SwapRemove(s, r)[j] = IF j = r THEN s[Len(s)] ELSE s[j]
      BY <3>1, <3>2, SwapRemoveProperties
    <3>4. QED
      BY <3>1, <3>3 DEF s
  <2>2. QED
    BY <1>5, <2>1
<1>7. i # ents[a][r].index
  OBVIOUS
<1> HIDE DEF left, new, loc, k, last
<1>8. CASE loc.arch # a
  <2>1. new = loc
    BY <1>3, <1>4, <1>8 DEF loc
  <2>2. left[loc.arch] = cols[loc.arch]
    BY <1>3, <1>5, <1>8
  <2>3. QED
    BY <2>1, <2>2 DEF HeldAt, left, new, loc
<1>9. CASE loc.arch = a /\ i = last.index
  <2>1. loc.row = k /\ new = [arch |-> a, row |-> r]
    BY <1>3, <1>4, <1>9 DEF loc
  <2>2. r # k /\ r \in 1 .. k - 1
    <3>1. r # k
      BY <1>7, <1>9 DEF last
    <3>2. QED
      BY <1>1, <3>1 DEF k
  <2>3. \A c \in archs[a] : left[a][c][r] = cols[a][c][k]
    BY <1>6, <2>2
  <2>4. QED
    BY <1>9, <2>1, <2>3 DEF HeldAt, left, new, loc
<1>10. CASE loc.arch = a /\ i # last.index
  <2>1. new = loc
    BY <1>4, <1>10
  <2>2. loc.row # r /\ loc.row # k
    BY <1>3, <1>7, <1>10 DEF last
  <2>3. loc.row \in 1 .. k - 1
    BY <1>1, <1>3, <1>10, <2>2 DEF k
  <2>4. \A c \in archs[a] : left[a][c][loc.row] = cols[a][c][loc.row]
    BY <1>6, <2>2, <2>3
  <2>5. QED
    BY <1>10, <2>1, <2>4 DEF HeldAt, left, new, loc
<1>11. QED
  BY <1>8, <1>9, <1>10

(* A pushed row of values is behind all others and reads as pushed.        *)
LEMMA PushHolds ==
  ASSUME BundlesDistinct, NEW n \in Nat, NEW archs, NEW ents \in Tables(n),
         NEW cols \in ColumnTables(n), Aligned(n, archs, ents, cols),
         NEW a \in 1 .. n, NEW values, \A c \in archs[a] : values[c] \in Value
  PROVE  /\ \A b \in 1 .. n : \A r \in 1 .. Len(ents[b]) :
              HeldAt(archs, WithValues(cols, a, values), [arch |-> b, row |-> r])
                = HeldAt(archs, cols, [arch |-> b, row |-> r])
         /\ HeldAt(archs, WithValues(cols, a, values), [arch |-> a, row |-> Len(ents[a]) + 1])
              = [c \in archs[a] |-> values[c]]
<1> DEFINE k   == Len(ents[a])
           now == WithValues(cols, a, values)
<1>1. /\ k \in Nat
      /\ \A c \in archs[a] : cols[a][c] \in Seq(Value) /\ Len(cols[a][c]) = k
      /\ DOMAIN cols[a] = archs[a]
  BY ExactColumns
<1>2. /\ \A b \in 1 .. n : b # a => now[b] = cols[b]
      /\ now[a] = [c \in archs[a] |-> Append(cols[a][c], values[c])]
  BY <1>1 DEF WithValues, ColumnTables
<1>3. \A c \in archs[a] : /\ \A r \in 1 .. k : Append(cols[a][c], values[c])[r] = cols[a][c][r]
                          /\ Append(cols[a][c], values[c])[k + 1] = values[c]
  BY SMTT(30), <1>1, AppendProperties
<1> HIDE DEF now
<1>4. ASSUME NEW b \in 1 .. n, NEW r \in 1 .. Len(ents[b])
      PROVE  HeldAt(archs, now, [arch |-> b, row |-> r])
               = HeldAt(archs, cols, [arch |-> b, row |-> r])
  <2>1. CASE b = a
    <3>1. r \in 1 .. k
      BY <2>1
    <3>2. \A c \in archs[a] : now[a][c][r] = cols[a][c][r]
      <4>1. \A c \in archs[a] : now[a][c] = Append(cols[a][c], values[c])
        BY <1>2
      <4>2. \A c \in archs[a] : Append(cols[a][c], values[c])[r] = cols[a][c][r]
        BY <1>3, <3>1
      <4>3. QED
        BY <4>1, <4>2
    <3>3. QED
      BY <2>1, <3>2 DEF HeldAt
  <2>2. CASE b # a
    BY <1>2, <2>2 DEF HeldAt
  <2>3. QED
    BY <2>1, <2>2
<1>5. HeldAt(archs, now, [arch |-> a, row |-> k + 1]) = [c \in archs[a] |-> values[c]]
  <2>1. \A c \in archs[a] : now[a][c][k + 1] = values[c]
    BY <1>2, <1>3
  <2>2. QED
    BY <2>1 DEF HeldAt
<1>6. QED
  BY <1>4, <1>5 DEF now
-----------------------------------------------------------------------------
(* What the storage holds, before and after a step.                        *)

Held(i) == HeldAt(archetypes, columns, entityLocations[i])

(* A handle is live when its index is at its generation and has a row; its *)
(* components are the values of that row.                                  *)
LEMMA LiveMeaning ==
  \A f \in Handle :
    /\ f \in Live <=> entityGenerations[f.index] = f.generation /\ entityLocations[f.index] # NoLocation
    /\ f \in Live => ComponentsOf(f) = Held(f.index)
BY DEF Live, IsAlive, LocationOf, ComponentsOf, Held, HeldAt

LEMMA LiveMeaningNext ==
  \A f \in Handle :
    /\ f \in Live' <=> entityGenerations'[f.index] = f.generation
                       /\ entityLocations'[f.index] # NoLocation
    /\ f \in Live' => ComponentsOf(f)' = Held(f.index)'
BY DEF Live, IsAlive, LocationOf, ComponentsOf, Held, HeldAt

(* Two live handles of one index are the same handle.                      *)
LEMMA LiveDistinct ==
  ASSUME NEW e \in Live, NEW f \in Live, e.index = f.index
  PROVE  e = f
BY LiveMeaning DEF Live, Handle

(* A move carries the values of its entity to the new row and leaves the   *)
(* values of all other entities where their locations lead.                *)
LEMMA MoveHolds ==
  ASSUME BundlesDistinct, RowsType, RowsMatch, ColumnsInv, NEW e \in Entity, IsAlive(e),
         NEW id, NEW set \in SUBSET Component, Resolves(id, set), id # LocationOf(e).arch,
         NEW factories \in SUBSET Component,
         id \notin 1 .. Len(archetypes) => set \subseteq factories,
         NEW values, set \subseteq DOMAIN values, \A c \in set : values[c] \in Value,
         MoveRow(e, LocationOf(e), id, set, factories, values)
  PROVE  /\ \A i \in Index : i # e.index /\ entityLocations[i] # NoLocation => Held(i)' = Held(i)
         /\ Held(e.index)' = [c \in set |-> values[c]]
<1> DEFINE at   == LocationOf(e)
           n    == Len(archetypes)
           m    == Len(archetypes')
           ents == Grown(archetypeEntities, id, <<>>)
           cols == Grown(columns, id, NewColumns(set, factories))
           leftEnts == WithoutRow(ents, at.arch, at.row)
           leftCols == WithoutValues(cols, at.arch, at.row)
           left == WithoutEntity(entityLocations, ents, at.arch, at.row)
<1>1. /\ archetypes' = Grown(archetypes, id, set)
      /\ columns' = [leftCols EXCEPT ![id] = Pushed(@, values)]
  BY DEF MoveRow, WithoutValues
<1>2. /\ archetypes' \in Seq(SUBSET Component)
      /\ m \in Nat
      /\ id \in 1 .. m
      /\ archetypes'[id] = set
      /\ 1 .. n \subseteq 1 .. m
      /\ \A a \in 1 .. n : archetypes'[a] = archetypes[a]
  BY <1>1, GrownArchetypes DEF RowsType
<1>3. archetypes' \in [1 .. m -> SUBSET Component]
  BY <1>2
<1>4. /\ at.arch \in 1 .. n /\ at.arch \in 1 .. m
      /\ at.row \in 1 .. Len(archetypeEntities[at.arch])
      /\ archetypeEntities[at.arch][at.row] = e
      /\ at \in Location
  BY <1>2, LocatedRow
<1>5. /\ ents \in Tables(m)
      /\ Corresponds(m, ents, entityLocations, entityGenerations)
      /\ ents[at.arch] = archetypeEntities[at.arch]
  BY <1>1, <1>4, GrownRows
<1>6. /\ cols \in ColumnTables(m)
      /\ Aligned(m, archetypes', ents, cols)
      /\ \A a \in 1 .. n : cols[a] = columns[a]
  BY <1>1, AlignedGrown DEF ColumnsInv
<1>7. entityLocations \in [Index -> Location] /\ e.index \in Index /\ n \in Nat
  BY EntityFields DEF RowsType
<1>8. leftEnts[id] = ents[id]
  BY <1>2, <1>5 DEF Tables, WithoutRow
<1>9. entityLocations' = WithEntity(left, leftEnts, id, e)
  <2>1. entityLocations' = [Vacated(entityLocations, at) EXCEPT
                              ![e.index] = [arch |-> id, row |-> Len(ents[id]) + 1]]
    BY DEF MoveRow
  <2>2. at = [arch |-> at.arch, row |-> at.row]
    BY <1>4 DEF Location
  <2>3. QED
    BY <1>4, <1>5, <1>7, <1>8, <2>1, <2>2 DEF Vacated, WithEntity, WithoutEntity
<1> HIDE DEF at, m, ents, cols
<1>10. at.row \in 1 .. Len(ents[at.arch]) /\ ents[at.arch][at.row] = e
  BY <1>4, <1>5
<1>11. /\ leftEnts \in Tables(m)
       /\ left \in [Index -> Location]
       /\ \A i \in Index : i # e.index => (left[i] = NoLocation <=> entityLocations[i] = NoLocation)
  <2>1. /\ leftEnts \in Tables(m)
        /\ left \in [Index -> Location]
        /\ \A i \in Index : i # ents[at.arch][at.row].index =>
             (left[i] = NoLocation <=> entityLocations[i] = NoLocation)
    BY <1>2, <1>4, <1>5, <1>7, <1>10, TakeOutTypes
  <2>2. QED
    BY <1>10, <2>1
<1>12. Corresponds(m, leftEnts, left, entityGenerations)
  BY <1>2, <1>4, <1>5, <1>7, <1>10, TakeOutMatches
<1>13. leftCols \in ColumnTables(m) /\ Aligned(m, archetypes', leftEnts, leftCols)
  BY <1>2, <1>3, <1>4, <1>5, <1>6, <1>10, AlignedTakeOut
<1>13a. columns' = WithValues(leftCols, id, values)
  BY <1>1, <1>2, <1>13, PushWholeRow
<1>14. ASSUME NEW i \in Index, i # e.index, entityLocations[i] # NoLocation
       PROVE  HeldAt(archetypes', leftCols, left[i]) = HeldAt(archetypes, columns, entityLocations[i])
  <2> DEFINE archs == archetypes'
  <2>1. /\ BundlesDistinct /\ m \in Nat /\ ents \in Tables(m) /\ cols \in ColumnTables(m)
        /\ Aligned(m, archs, ents, cols) /\ entityLocations \in [Index -> Location]
        /\ Corresponds(m, ents, entityLocations, entityGenerations)
        /\ at.arch \in 1 .. m /\ at.row \in 1 .. Len(ents[at.arch])
        /\ i # ents[at.arch][at.row].index /\ entityLocations[i] # NoLocation
    BY <1>2, <1>4, <1>5, <1>6, <1>7, <1>10, <1>14
  <2>2. entityLocations[i].arch \in 1 .. n
    BY <1>14 DEF RowsMatch, Corresponds
  <2>3. \A a \in 1 .. n : archs[a] = archetypes[a] /\ cols[a] = columns[a]
    BY <1>2, <1>6
  <2> HIDE DEF archs, leftCols, left, n, m, at, ents, cols
  <2>4. HeldAt(archs, leftCols, left[i]) = HeldAt(archs, cols, entityLocations[i])
    <3>1. HeldAt(archs, WithoutValues(cols, at.arch, at.row),
                 WithoutEntity(entityLocations, ents, at.arch, at.row)[i])
            = HeldAt(archs, cols, entityLocations[i])
      BY ONLY ZenonT(60), <2>1, TakeOutHolds, i \in Index
    <3>2. QED
      BY <3>1 DEF leftCols, left
  <2>5. HeldAt(archs, cols, entityLocations[i]) = HeldAt(archetypes, columns, entityLocations[i])
    BY <2>2, <2>3 DEF HeldAt
  <2>6. QED
    BY <2>4, <2>5 DEF archs
<1> HIDE DEF leftEnts, leftCols, left, n
<1>15. /\ \A b \in 1 .. m : \A r \in 1 .. Len(leftEnts[b]) :
            HeldAt(archetypes', columns', [arch |-> b, row |-> r])
              = HeldAt(archetypes', leftCols, [arch |-> b, row |-> r])
       /\ HeldAt(archetypes', columns', [arch |-> id, row |-> Len(leftEnts[id]) + 1])
            = [c \in set |-> values[c]]
  <2> DEFINE archs == archetypes'
             now   == WithValues(leftCols, id, values)
  <2>1. /\ BundlesDistinct /\ m \in Nat /\ leftEnts \in Tables(m) /\ leftCols \in ColumnTables(m)
        /\ Aligned(m, archs, leftEnts, leftCols) /\ id \in 1 .. m
        /\ archs[id] = set
        /\ \A c \in set : values[c] \in Value
    BY <1>2, <1>11, <1>13
  <2> HIDE DEF archs
  <2>2. \A c \in archs[id] : values[c] \in Value
    BY <2>1
  <2>3. /\ \A b \in 1 .. m : \A r \in 1 .. Len(leftEnts[b]) :
             HeldAt(archs, now, [arch |-> b, row |-> r])
               = HeldAt(archs, leftCols, [arch |-> b, row |-> r])
        /\ HeldAt(archs, now, [arch |-> id, row |-> Len(leftEnts[id]) + 1])
             = [c \in archs[id] |-> values[c]]
    BY ONLY <2>1, <2>2, PushHolds
  <2> HIDE DEF now
  <2>4. columns' = now
    BY <1>13a DEF now
  <2>5. QED
    BY <2>1, <2>3, <2>4 DEF archs
<1>16. /\ \A i \in Index : i # e.index => entityLocations'[i] = left[i]
       /\ entityLocations'[e.index] = [arch |-> id, row |-> Len(leftEnts[id]) + 1]
  BY <1>7, <1>9, <1>11 DEF WithEntity
<1>17. ASSUME NEW i \in Index, i # e.index, entityLocations[i] # NoLocation
       PROVE  Held(i)' = Held(i)
  <2>1. left[i] # NoLocation /\ left[i] \in Location
    BY <1>11, <1>17
  <2>2. left[i].arch \in 1 .. m /\ left[i].row \in 1 .. Len(leftEnts[left[i].arch])
    BY <1>12, <2>1 DEF Corresponds
  <2>3. left[i] = [arch |-> left[i].arch, row |-> left[i].row]
    BY <2>1 DEF Location
  <2>4. HeldAt(archetypes', columns', left[i]) = HeldAt(archetypes', leftCols, left[i])
    BY <1>15, <2>2, <2>3
  <2>5. Held(i)' = HeldAt(archetypes', columns', left[i])
    BY <1>16, <1>17 DEF Held, HeldAt
  <2>6. QED
    BY <1>14, <1>17, <2>4, <2>5 DEF Held
<1>18. Held(e.index)' = [c \in set |-> values[c]]
  BY <1>15, <1>16 DEF Held, HeldAt
<1>19. QED
  BY <1>17, <1>18
-----------------------------------------------------------------------------
(* The steps of the abstract specification, in terms of Issued, Live and   *)
(* ComponentsOf.                                                           *)

(* A step that keeps every handle's generation and neither gives nor takes *)
(* a row keeps the handles.                                                *)
LEMMA SameHandles ==
  ASSUME UNCHANGED entityGenerations,
         \A i \in Index : entityLocations'[i] = NoLocation <=> entityLocations[i] = NoLocation
  PROVE  Live' = Live /\ Issued' = Issued
<1>1. \A f \in Handle : f.index \in Index
  BY DEF Handle
<1>2. \A f \in Handle : IsAlive(f)' <=> IsAlive(f)
  BY <1>1 DEF IsAlive, LocationOf
<1>3. QED
  BY <1>2 DEF Live, Issued

(* One entity gained or overwrote a value.                                 *)
PutsValue(e, c, v) ==
  /\ e \in Live /\ Live' = Live /\ Issued' = Issued
  /\ \A f \in Live : f # e => ComponentsOf(f)' = ComponentsOf(f)
  /\ ComponentsOf(e)' = [x \in DOMAIN ComponentsOf(e) \cup {c} |->
                           IF x = c THEN v ELSE ComponentsOf(e)[x]]

LEMMA PutStep ==
  ASSUME NEW e, NEW c \in Component, NEW v \in Value, PutsValue(e, c, v)
  PROVE  Abstract!Next
<1> DEFINE map == [f \in Live |-> ComponentsOf(f)]
<1>1. map' = [map EXCEPT ![e] = Abstract!With(@, c, v)]
  BY DEF Abstract!With, PutsValue
<1>2. Abstract!Put(e, c)
  BY <1>1 DEF Abstract!Put, PutsValue
<1>3. e \in Handle
  BY DEF Live, PutsValue
<1>4. QED
  BY <1>2, <1>3 DEF Abstract!Next

(* One entity lost a value.                                                *)
TakesValue(e, c) ==
  /\ e \in Live /\ c \in DOMAIN ComponentsOf(e) /\ Live' = Live /\ Issued' = Issued
  /\ \A f \in Live : f # e => ComponentsOf(f)' = ComponentsOf(f)
  /\ ComponentsOf(e)' = [x \in DOMAIN ComponentsOf(e) \ {c} |-> ComponentsOf(e)[x]]

LEMMA TakeStep ==
  ASSUME NEW e, NEW c \in Component, TakesValue(e, c)
  PROVE  Abstract!Next
<1> DEFINE map == [f \in Live |-> ComponentsOf(f)]
<1>1. map' = [map EXCEPT ![e] = Abstract!Without(@, c)]
  BY DEF Abstract!Without, TakesValue
<1>2. Abstract!Take(e, c)
  BY <1>1 DEF Abstract!Take, TakesValue
<1>3. e \in Handle
  BY DEF Live, TakesValue
<1>4. QED
  BY <1>2, <1>3 DEF Abstract!Next

(* One entity is gone.                                                     *)
EndsHandle(e) ==
  /\ e \in Live /\ Live' = Live \ {e} /\ Issued' = Issued
  /\ \A f \in Live : f # e => ComponentsOf(f)' = ComponentsOf(f)

LEMMA DespawnStep ==
  ASSUME NEW e, EndsHandle(e)
  PROVE  Abstract!Next
<1> DEFINE map == [f \in Live |-> ComponentsOf(f)]
<1>1. map' = Abstract!Without(map, e)
  BY DEF Abstract!Without, EndsHandle
<1>2. Abstract!Despawn(e)
  BY <1>1 DEF Abstract!Despawn, EndsHandle
<1>3. e \in Handle
  BY DEF Live, EndsHandle
<1>4. QED
  BY <1>2, <1>3 DEF Abstract!Next

(* A handle never issued before appears, with the values of a map.         *)
IssuesHandle(e, map) ==
  /\ e \in Handle /\ e \notin Issued /\ Live' = Live \cup {e} /\ Issued' = Issued \cup {e}
  /\ \A f \in Live : ComponentsOf(f)' = ComponentsOf(f)
  /\ ComponentsOf(e)' = map

LEMMA SpawnStep ==
  ASSUME NEW types \in SUBSET Component, NEW values \in [types -> Value],
         NEW e, IssuesHandle(e, values)
  PROVE  Abstract!Next
<1> DEFINE now == [f \in Live |-> ComponentsOf(f)]
<1>1. e \notin Live
  BY DEF Live, Issued, IssuesHandle
<1>2. now' = Abstract!With(now, e, ComponentsOf(e)')
  BY <1>1 DEF Abstract!With, IssuesHandle
<1>3. ComponentsOf(e)' \in Abstract!Assignment
  BY DEF Abstract!Assignment, IssuesHandle
<1>4. Abstract!Spawn(e)
  BY <1>2, <1>3 DEF Abstract!Spawn, IssuesHandle
<1>5. QED
  BY <1>4 DEF Abstract!Next, IssuesHandle

(* Nothing that the abstract state shows has changed.                      *)
LEMMA StutterStep ==
  ASSUME Live' = Live, Issued' = Issued,
         \A f \in Live : ComponentsOf(f)' = ComponentsOf(f)
  PROVE  UNCHANGED Abstract!vars
BY DEF Abstract!vars
-----------------------------------------------------------------------------
(* What each operation does to the handles and their components: a step of *)
(* the abstract specification.                                             *)

GenerationsBounded == \A i \in Index : entityGenerations[i] \in 0 .. MaxGeneration

StorageInv == RowsInv /\ ColumnsInv /\ GenerationsBounded

(* Every row holds a live handle, which is located there; every live       *)
(* handle has its row.                                                     *)
LEMMA RowsAreLive ==
  ASSUME RowsInv, GenerationsBounded
  PROVE  /\ \A a \in 1 .. Len(archetypes) :
              /\ archetypeEntities[a] \in Seq(Entity)
              /\ \A r \in 1 .. Len(archetypeEntities[a]) :
                   /\ archetypeEntities[a][r] \in Live
                   /\ LocationOf(archetypeEntities[a][r]) = [arch |-> a, row |-> r]
         /\ \A e \in Live :
              /\ LocationOf(e).arch \in 1 .. Len(archetypes)
              /\ LocationOf(e).row \in 1 .. Len(archetypeEntities[LocationOf(e).arch])
              /\ archetypeEntities[LocationOf(e).arch][LocationOf(e).row] = e
<1>1. RowsType /\ RowsMatch /\ GenerationsBounded
  BY DEF RowsInv
<1>2. PICK n, ents : n = Len(archetypes) /\ ents = archetypeEntities
  OBVIOUS
<1>3. n \in Nat /\ ents \in Tables(n) /\ Corresponds(n, ents, entityLocations, entityGenerations)
  BY <1>1, <1>2 DEF RowsType, RowsMatch
<1>4. ASSUME NEW a \in 1 .. n, NEW r \in 1 .. Len(ents[a])
      PROVE  ents[a][r] \in Live /\ LocationOf(ents[a][r]) = [arch |-> a, row |-> r]
  <2>1. PICK f : f = ents[a][r]
    OBVIOUS
  <2>2. f \in Entity /\ f.index \in Index /\ f.generation \in Nat
    BY <1>3, <2>1, TablesRows, EntityFields
  <2>3. entityLocations[f.index] = [arch |-> a, row |-> r] /\ entityGenerations[f.index] = f.generation
    BY <1>3, <2>1 DEF Corresponds
  <2>4. f \in Handle
    BY <1>1, <2>2, <2>3 DEF GenerationsBounded, Entity, Handle
  <2>5. LocationOf(f) = [arch |-> a, row |-> r]
    BY <2>3 DEF LocationOf
  <2>6. [arch |-> a, row |-> r] # NoLocation
    BY DEF NoLocation
  <2>7. QED
    BY <2>1, <2>4, <2>5, <2>6 DEF Live, IsAlive
<1>5. ASSUME NEW e \in Live
      PROVE  /\ LocationOf(e).arch \in 1 .. n
             /\ LocationOf(e).row \in 1 .. Len(ents[LocationOf(e).arch])
             /\ ents[LocationOf(e).arch][LocationOf(e).row] = e
  <2>1. e \in Entity /\ IsAlive(e)
    BY HandleEntity DEF Live
  <2>2. QED
    BY <1>1, <1>2, <2>1, LocatedRow
<1>6. QED
  BY <1>2, <1>3, <1>4, <1>5, TablesRows

RowOf(set, values) == [c \in set |-> values[c]]

(* What a move means for the handles and their components.                 *)
LEMMA MoveMaps ==
  ASSUME BundlesDistinct, StorageInv, NEW e \in Live,
         NEW id, NEW set \in SUBSET Component, Resolves(id, set), id # LocationOf(e).arch,
         NEW factories \in SUBSET Component,
         id \notin 1 .. Len(archetypes) => set \subseteq factories,
         NEW values, set \subseteq DOMAIN values, \A c \in set : values[c] \in Value,
         MoveRow(e, LocationOf(e), id, set, factories, values),
         UNCHANGED entityGenerations
  PROVE  /\ Live' = Live /\ Issued' = Issued
         /\ \A f \in Live : f # e => ComponentsOf(f)' = ComponentsOf(f)
         /\ ComponentsOf(e)' = RowOf(set, values)
<1>1. e \in Handle /\ e \in Entity /\ IsAlive(e) /\ e.index \in Index
  BY HandleEntity DEF Live, Handle
<1>2. \A i \in Index : entityLocations'[i] = NoLocation <=> entityLocations[i] = NoLocation
  BY <1>1, MoveRowKeepsRows DEF StorageInv, RowsInv
<1>3. Live' = Live /\ Issued' = Issued
  BY <1>2, SameHandles
<1>4. /\ \A i \in Index : i # e.index /\ entityLocations[i] # NoLocation => Held(i)' = Held(i)
      /\ Held(e.index)' = [c \in set |-> values[c]]
  BY <1>1, MoveHolds DEF StorageInv, RowsInv
<1>5. ASSUME NEW f \in Live, f # e PROVE ComponentsOf(f)' = ComponentsOf(f)
  <2>1. f \in Handle /\ f.index \in Index /\ f \in Live'
    BY <1>3 DEF Live, Handle
  <2>2. f.index # e.index
    BY <1>5, LiveDistinct
  <2>3. entityLocations[f.index] # NoLocation
    BY <2>1, LiveMeaning
  <2>4. Held(f.index)' = Held(f.index)
    BY <1>4, <2>1, <2>2, <2>3
  <2>5. ComponentsOf(f) = Held(f.index) /\ ComponentsOf(f)' = Held(f.index)'
    BY <2>1, LiveMeaning, LiveMeaningNext
  <2>6. QED
    BY <2>4, <2>5
<1>6. ComponentsOf(e)' = Held(e.index)'
  BY <1>1, <1>3, LiveMeaningNext
<1>7. QED
  BY <1>3, <1>4, <1>5, <1>6 DEF RowOf

(* The map of a live handle: one value per type of its archetype's set.    *)
LEMMA LiveMap ==
  ASSUME StorageInv, NEW e \in Live
  PROVE  /\ e \in Handle /\ e \in Entity /\ IsAlive(e) /\ e.index \in Index
         /\ LocationOf(e).arch \in 1 .. Len(archetypes)
         /\ archetypes[LocationOf(e).arch] \in SUBSET Component
         /\ DOMAIN ComponentsOf(e) = archetypes[LocationOf(e).arch]
         /\ \A c \in archetypes[LocationOf(e).arch] :
              /\ ComponentsOf(e)[c] = RowValues(LocationOf(e))[c]
              /\ ComponentsOf(e)[c] \in Value
<1>1. e \in Handle /\ e \in Entity /\ IsAlive(e) /\ e.index \in Index
  BY HandleEntity DEF Live, Handle
<1>2. LocationOf(e).arch \in 1 .. Len(archetypes)
  BY <1>1, LocatedRow DEF StorageInv, RowsInv
<1>3. archetypes[LocationOf(e).arch] \in SUBSET Component
  BY <1>2 DEF StorageInv, RowsInv, RowsType
<1>4. \A c \in archetypes[LocationOf(e).arch] :
        /\ RowValues(LocationOf(e))[c] = columns[LocationOf(e).arch][c][LocationOf(e).row]
        /\ RowValues(LocationOf(e))[c] \in Value
  BY <1>1, RowValuesTypes DEF StorageInv, RowsInv
<1>5. QED
  BY <1>1, <1>2, <1>3, <1>4 DEF ComponentsOf

(* add_component on a type the entity has.                                 *)
LEMMA OverwriteMaps ==
  ASSUME BundlesDistinct, StorageInv, NEW e \in Live,
         NEW c \in archetypes[LocationOf(e).arch], NEW v \in Value,
         Overwrite(LocationOf(e), c, v)
  PROVE  PutsValue(e, c, v)
<1> DEFINE at == LocationOf(e)
<1>1. /\ columns' = [columns EXCEPT ![at.arch][c][at.row] = v]
      /\ UNCHANGED <<entityGenerations, entityLocations, archetypes, archetypeEntities>>
  BY DEF Overwrite, allocator
<1>2. Live' = Live /\ Issued' = Issued
  BY <1>1, SameHandles
<1>3. /\ e \in Handle /\ e \in Entity /\ IsAlive(e) /\ e.index \in Index
      /\ at.arch \in 1 .. Len(archetypes)
      /\ archetypes[at.arch] \in SUBSET Component
      /\ DOMAIN ComponentsOf(e) = archetypes[at.arch]
  BY LiveMap
<1>4. /\ at.row \in 1 .. Len(archetypeEntities[at.arch])
      /\ archetypeEntities[at.arch] \in Seq(Entity)
      /\ at = entityLocations[e.index]
      /\ archetypeEntities[at.arch][at.row] = e
  BY <1>3, LocatedRow, TablesRows DEF StorageInv, RowsInv, RowsType
<1>5. /\ columns \in ColumnTables(Len(archetypes))
      /\ columns[at.arch] \in [archetypes[at.arch] -> Seq(Value)]
      /\ \A x \in archetypes[at.arch] : Len(columns[at.arch][x]) = Len(archetypeEntities[at.arch])
  BY <1>3 DEF StorageInv, ColumnsInv, Aligned, Fits
<1>6. columns[at.arch][c] \in Seq(Value) /\ at.row \in 1 .. Len(columns[at.arch][c])
  BY <1>4, <1>5
<1> HIDE DEF at
<1>7. /\ \A a \in 1 .. Len(archetypes) : a # at.arch => columns'[a] = columns[a]
      /\ \A x \in archetypes[at.arch] : x # c => columns'[at.arch][x] = columns[at.arch][x]
      /\ columns'[at.arch][c] = [columns[at.arch][c] EXCEPT ![at.row] = v]
  <2> DEFINE old == columns[at.arch]
             new == [columns[at.arch][c] EXCEPT ![at.row] = v]
  <2>1. columns' = [columns EXCEPT ![at.arch] = [old EXCEPT ![c] = new]]
    BY <1>1
  <2>2. DOMAIN columns = 1 .. Len(archetypes) /\ DOMAIN old = archetypes[at.arch]
    BY <1>5 DEF ColumnTables
  <2>3. c \in archetypes[at.arch]
    BY DEF at
  <2> HIDE DEF old, new
  <2>4. /\ \A a \in 1 .. Len(archetypes) : a # at.arch => columns'[a] = columns[a]
        /\ columns'[at.arch] = [old EXCEPT ![c] = new]
    BY <1>3, <2>1, <2>2
  <2>5. /\ \A x \in archetypes[at.arch] : x # c => columns'[at.arch][x] = old[x]
        /\ columns'[at.arch][c] = new
    BY <2>2, <2>3, <2>4
  <2>6. QED
    BY <2>4, <2>5 DEF old, new
<1>8. /\ columns'[at.arch][c][at.row] = v
      /\ \A r \in 1 .. Len(columns[at.arch][c]) : r # at.row =>
           columns'[at.arch][c][r] = columns[at.arch][c][r]
  BY <1>6, <1>7
<1>9. ASSUME NEW f \in Live, f # e PROVE ComponentsOf(f)' = ComponentsOf(f)
  <2> DEFINE loc == LocationOf(f)
  <2>1. /\ loc.arch \in 1 .. Len(archetypes)
        /\ loc.row \in 1 .. Len(archetypeEntities[loc.arch])
        /\ archetypeEntities[loc.arch][loc.row] = f
    BY LiveMap, LocatedRow DEF StorageInv, RowsInv
  <2>2. LocationOf(f)' = loc
    BY <1>1 DEF LocationOf
  <2>3. ComponentsOf(f) = [x \in archetypes[loc.arch] |-> columns[loc.arch][x][loc.row]]
        /\ ComponentsOf(f)' = [x \in archetypes[loc.arch] |-> columns'[loc.arch][x][loc.row]]
    BY <1>1, <2>2 DEF ComponentsOf
  <2> HIDE DEF loc
  <2>4. ASSUME NEW x \in archetypes[loc.arch]
        PROVE  columns'[loc.arch][x][loc.row] = columns[loc.arch][x][loc.row]
    <3>1. CASE loc.arch # at.arch \/ x # c
      BY <1>7, <2>1, <3>1
    <3>2. CASE loc.arch = at.arch /\ x = c
      <4>1. loc.row # at.row
        BY <1>4, <1>9, <2>1, <3>2
      <4>2. loc.row \in 1 .. Len(columns[at.arch][c])
        BY <1>5, <2>1, <3>2
      <4>3. QED
        BY <1>8, <3>2, <4>1, <4>2
    <3>3. QED
      BY <3>1, <3>2
  <2>5. QED
    BY <2>3, <2>4
<1>10. ComponentsOf(e)' = [x \in DOMAIN ComponentsOf(e) \cup {c} |->
                             IF x = c THEN v ELSE ComponentsOf(e)[x]]
  <2>1. LocationOf(e)' = at
    BY <1>1 DEF LocationOf, at
  <2>2. ComponentsOf(e) = [x \in archetypes[at.arch] |-> columns[at.arch][x][at.row]]
        /\ ComponentsOf(e)' = [x \in archetypes[at.arch] |-> columns'[at.arch][x][at.row]]
    BY <1>1, <2>1 DEF ComponentsOf, at
  <2>3. c \in archetypes[at.arch]
    BY DEF at
  <2>4. \A x \in archetypes[at.arch] :
          columns'[at.arch][x][at.row] = IF x = c THEN v ELSE columns[at.arch][x][at.row]
    BY <1>7, <1>8
  <2>5. archetypes[at.arch] \cup {c} = archetypes[at.arch]
    BY <2>3
  <2>6. QED
    BY <2>2, <2>4, <2>5
<1>11. c \in Component
  BY <1>3 DEF at
<1>12. QED
  BY <1>2, <1>9, <1>10, <1>11 DEF PutsValue

(* add_component: an overwrite, or a move that brings one value more.      *)
LEMMA AddMaps ==
  ASSUME BundlesDistinct, StorageInv, NEW e \in Handle, NEW c \in Component, NEW v \in Value,
         AddComponent(e, c, v)
  PROVE  PutsValue(e, c, v)
<1> DEFINE at == LocationOf(e)
<1>1. e \in Live
  BY DEF AddComponent, Live, IsAlive
<1>2. /\ at.arch \in 1 .. Len(archetypes)
      /\ archetypes[at.arch] \in SUBSET Component
      /\ archetypes[at.arch] \subseteq columnFactories
      /\ columnFactories \in SUBSET Component
      /\ DOMAIN archetypes = 1 .. Len(archetypes)
      /\ RowsType /\ ShortcutsResolve
  BY <1>1, LiveMap DEF StorageInv, RowsInv, RowsType, ColumnsInv
<1>3. /\ DOMAIN ComponentsOf(e) = archetypes[at.arch]
      /\ \A x \in archetypes[at.arch] :
           ComponentsOf(e)[x] = RowValues(at)[x] /\ ComponentsOf(e)[x] \in Value
  BY <1>1, LiveMap
<1>4. CASE c \in archetypes[at.arch] /\ Overwrite(at, c, v)
  BY <1>1, <1>4, OverwriteMaps
<1>5. CASE c \notin archetypes[at.arch] /\ at.arch = EmptyArchetype /\ AddFirst(e, at, c, v)
  <2> DEFINE id == IF singleComponentArchetypes[c] # 0 THEN singleComponentArchetypes[c]
                   ELSE ArchetypeFor({c})
             factories == IF singleComponentArchetypes[c] # 0 THEN columnFactories
                          ELSE columnFactories \cup {c}
             values == [x \in {c} |-> v]
             set == {c}
  <2>1. MoveRow(e, at, id, set, factories, values) /\ UNCHANGED entityGenerations
    BY <1>5 DEF AddFirst, allocator
  <2>2. /\ Resolves(id, set)
        /\ id \notin 1 .. Len(archetypes) => set \subseteq factories
        /\ factories \in SUBSET Component
    <3>1. CASE singleComponentArchetypes[c] # 0
      BY <1>2, <3>1 DEF RowsType, ShortcutsResolve, Resolves
    <3>2. CASE singleComponentArchetypes[c] = 0
      BY <1>2, <3>2, ArchetypeForResolves
    <3>3. QED
      BY <3>1, <3>2
  <2>3. /\ set \in SUBSET Component /\ c \in set
        /\ set \subseteq DOMAIN values /\ \A x \in set : values[x] \in Value
    OBVIOUS
  <2>4. archetypes[at.arch] = {}
    BY <1>2, <1>5 DEF RowsType
  <2>5. RowOf(set, values) = [x \in DOMAIN ComponentsOf(e) \cup {c} |->
                                       IF x = c THEN v ELSE ComponentsOf(e)[x]]
    BY <1>3, <2>4 DEF RowOf
  <2> HIDE DEF id, factories, values, set
  <2>6. id # at.arch
    BY <1>2, <1>5, <2>2, <2>3 DEF Resolves
  <2>7. /\ Live' = Live /\ Issued' = Issued
        /\ \A f \in Live : f # e => ComponentsOf(f)' = ComponentsOf(f)
        /\ ComponentsOf(e)' = RowOf(set, values)
    BY <1>1, <2>1, <2>2, <2>3, <2>6, MoveMaps
  <2>8. QED
    BY <1>1, <2>5, <2>7 DEF PutsValue
<1>6. CASE c \notin archetypes[at.arch] /\ at.arch # EmptyArchetype /\ AddAnother(e, at, c, v)
  <2> DEFINE set == archetypes[at.arch] \cup {c}
             id  == IF addTransitions[at.arch][c] # 0 THEN addTransitions[at.arch][c]
                    ELSE ArchetypeFor(set)
             factories == columnFactories \cup {c}
             values == [x \in DOMAIN RowValues(at) \cup {c} |-> IF x = c THEN v ELSE RowValues(at)[x]]
  <2>1. MoveRow(e, at, id, set, factories, values) /\ UNCHANGED entityGenerations
    BY <1>6 DEF AddAnother, allocator
  <2>2. Resolves(id, set)
    <3>1. CASE addTransitions[at.arch][c] # 0
      BY <1>2, <3>1 DEF ShortcutsResolve, Resolves
    <3>2. CASE addTransitions[at.arch][c] = 0
      BY <1>2, <3>2, ArchetypeForResolves
    <3>3. QED
      BY <3>1, <3>2
  <2>3. /\ set \in SUBSET Component
        /\ c \in set
        /\ factories \in SUBSET Component
        /\ set \subseteq factories
    BY <1>2
  <2>4. set \subseteq DOMAIN values /\ \A x \in set : values[x] \in Value
    BY <1>1, <1>2, <1>3 DEF RowValues, ColumnsInv, Aligned, StorageInv
  <2>5. RowOf(set, values) = [x \in DOMAIN ComponentsOf(e) \cup {c} |->
                                       IF x = c THEN v ELSE ComponentsOf(e)[x]]
    BY <1>3, <2>4 DEF RowOf
  <2> HIDE DEF id, factories, values, set
  <2>6. id # at.arch
    BY <1>2, <1>6, <2>2, <2>3 DEF Resolves
  <2>7. /\ Live' = Live /\ Issued' = Issued
        /\ \A f \in Live : f # e => ComponentsOf(f)' = ComponentsOf(f)
        /\ ComponentsOf(e)' = RowOf(set, values)
    BY <1>1, <2>1, <2>2, <2>3, <2>4, <2>6, MoveMaps
  <2>8. QED
    BY <1>1, <2>5, <2>7 DEF PutsValue
<1>7. QED
  BY <1>4, <1>5, <1>6 DEF AddComponent

(* remove_component: a move that leaves one value behind.                  *)
LEMMA RemoveMaps ==
  ASSUME BundlesDistinct, StorageInv, NEW e \in Handle, NEW c \in Component,
         RemoveComponent(e, c)
  PROVE  TakesValue(e, c)
<1> DEFINE at  == LocationOf(e)
           set == archetypes[at.arch] \ {c}
           id  == IF removeTransitions[at.arch][c] # 0 THEN removeTransitions[at.arch][c]
                  ELSE ArchetypeFor(set)
           values == RowValues(at)
<1>1. /\ e \in Live
      /\ c \in archetypes[at.arch]
      /\ MoveRow(e, at, id, set, columnFactories, values)
      /\ UNCHANGED entityGenerations
  BY DEF RemoveComponent, Live, IsAlive, allocator
<1>2. /\ at.arch \in 1 .. Len(archetypes)
      /\ archetypes[at.arch] \in SUBSET Component
      /\ archetypes[at.arch] \subseteq columnFactories
      /\ columnFactories \in SUBSET Component
      /\ DOMAIN archetypes = 1 .. Len(archetypes)
      /\ RowsType /\ ShortcutsResolve
  BY <1>1, LiveMap DEF StorageInv, RowsInv, RowsType, ColumnsInv
<1>3. /\ DOMAIN ComponentsOf(e) = archetypes[at.arch]
      /\ \A x \in archetypes[at.arch] :
           ComponentsOf(e)[x] = RowValues(at)[x] /\ ComponentsOf(e)[x] \in Value
  BY <1>1, LiveMap
<1>4. Resolves(id, set)
  <2>1. CASE removeTransitions[at.arch][c] # 0
    BY <1>2, <2>1 DEF ShortcutsResolve, Resolves
  <2>2. CASE removeTransitions[at.arch][c] = 0
    BY <1>2, <2>2, ArchetypeForResolves
  <2>3. QED
    BY <2>1, <2>2
<1>5. set \subseteq DOMAIN values /\ \A x \in set : values[x] \in Value
  BY <1>1, <1>2, <1>3 DEF RowValues, ColumnsInv, Aligned, StorageInv
<1>6. RowOf(set, values) = [x \in DOMAIN ComponentsOf(e) \ {c} |-> ComponentsOf(e)[x]]
  BY <1>3 DEF RowOf
<1>7. set \in SUBSET Component /\ set \subseteq columnFactories /\ c \notin set
  BY <1>2
<1> HIDE DEF id, values, set
<1>8. id # at.arch
  BY <1>1, <1>2, <1>4, <1>7 DEF Resolves
<1>9. /\ Live' = Live /\ Issued' = Issued
      /\ \A f \in Live : f # e => ComponentsOf(f)' = ComponentsOf(f)
      /\ ComponentsOf(e)' = RowOf(set, values)
  BY <1>1, <1>2, <1>4, <1>5, <1>7, <1>8, MoveMaps
<1>10. QED
  BY <1>1, <1>3, <1>6, <1>9 DEF TakesValue

(* despawn: the handle is gone for good, the others keep their values.     *)
LEMMA DespawnMaps ==
  ASSUME BundlesDistinct, StorageInv, NEW e \in Handle, Despawn(e)
  PROVE  EndsHandle(e)
<1> DEFINE at   == LocationOf(e)
           n    == Len(archetypes)
           left == WithoutEntity(entityLocations, archetypeEntities, at.arch, at.row)
<1>1. e \in Live
  BY DEF Despawn, Live, IsAlive
<1>2. /\ e \in Entity /\ IsAlive(e) /\ e.index \in Index
      /\ at.arch \in 1 .. n
      /\ at.row \in 1 .. Len(archetypeEntities[at.arch])
      /\ archetypeEntities[at.arch][at.row] = e
      /\ at \in Location
  BY <1>1, LiveMap, LocatedRow DEF StorageInv, RowsInv
<1>3. /\ entityGenerations' = [entityGenerations EXCEPT ![e.index] = @ + 1]
      /\ columns' = WithoutValues(columns, at.arch, at.row)
      /\ archetypes' = archetypes
  BY DEF Despawn, Retire, WithoutValues
<1>4. entityLocations' = left
  <2>1. entityLocations' = [Vacated(entityLocations, at) EXCEPT ![e.index] = NoLocation]
    BY DEF Despawn
  <2>2. at = [arch |-> at.arch, row |-> at.row]
    BY <1>2 DEF Location
  <2>3. QED
    BY <1>2, <2>1, <2>2 DEF Vacated, WithoutEntity
<1>5. /\ n \in Nat /\ archetypeEntities \in Tables(n)
      /\ columns \in ColumnTables(n)
      /\ Aligned(n, archetypes, archetypeEntities, columns)
      /\ entityLocations \in [Index -> Location]
      /\ entityGenerations \in [Index -> Nat]
      /\ Corresponds(n, archetypeEntities, entityLocations, entityGenerations)
  BY DEF StorageInv, RowsInv, RowsType, RowsMatch, ColumnsInv
<1> HIDE DEF at, n
<1>6. /\ \A i \in Index : i # e.index => (left[i] = NoLocation <=> entityLocations[i] = NoLocation)
      /\ left[e.index] = NoLocation
  <2>1. /\ \A i \in Index : i # archetypeEntities[at.arch][at.row].index =>
             (left[i] = NoLocation <=> entityLocations[i] = NoLocation)
        /\ left[archetypeEntities[at.arch][at.row].index] = NoLocation
    BY <1>2, <1>5, TakeOutTypes
  <2>2. QED
    BY <1>2, <2>1
<1>7. ASSUME NEW i \in Index, i # e.index, entityLocations[i] # NoLocation
      PROVE  Held(i)' = Held(i)
  <2>1. HeldAt(archetypes, WithoutValues(columns, at.arch, at.row), left[i])
          = HeldAt(archetypes, columns, entityLocations[i])
    <3>1. /\ BundlesDistinct /\ n \in Nat /\ archetypeEntities \in Tables(n)
          /\ columns \in ColumnTables(n)
          /\ Aligned(n, archetypes, archetypeEntities, columns)
          /\ entityLocations \in [Index -> Location]
          /\ Corresponds(n, archetypeEntities, entityLocations, entityGenerations)
          /\ at.arch \in 1 .. n /\ at.row \in 1 .. Len(archetypeEntities[at.arch])
          /\ i # archetypeEntities[at.arch][at.row].index /\ entityLocations[i] # NoLocation
      BY <1>2, <1>5, <1>7
    <3> HIDE DEF left
    <3>2. HeldAt(archetypes, WithoutValues(columns, at.arch, at.row),
                 WithoutEntity(entityLocations, archetypeEntities, at.arch, at.row)[i])
            = HeldAt(archetypes, columns, entityLocations[i])
      <4> HIDE DEF n, at
      <4>1. QED
        BY ONLY ZenonT(60), <3>1, TakeOutHolds, i \in Index
    <3>3. QED
      BY <3>2 DEF left
  <2>2. QED
    BY <1>3, <1>4, <2>1 DEF Held, HeldAt
<1> HIDE DEF left
<1>8. /\ entityGenerations[e.index] = e.generation
      /\ entityGenerations'[e.index] = e.generation + 1
      /\ \A i \in Index : i # e.index => entityGenerations'[i] = entityGenerations[i]
      /\ e.generation \in Nat
  BY <1>1, <1>2, <1>3, <1>5, LiveMeaning, EntityFields
<1>9. ASSUME NEW f \in Handle
      PROVE  /\ f \in Live' <=> f \in Live /\ f # e
             /\ f \in Issued' <=> f \in Issued
  <2>1. f.index \in Index /\ f.generation \in Nat
    BY HandleEntity, EntityFields
  <2>2. IsAlive(f) <=> entityGenerations[f.index] = f.generation /\ entityLocations[f.index] # NoLocation
    BY DEF IsAlive, LocationOf
  <2>3. IsAlive(f)' <=> entityGenerations'[f.index] = f.generation /\ left[f.index] # NoLocation
    BY <1>4 DEF IsAlive, LocationOf
  <2>4. CASE f.index = e.index
    <3>1. ~ IsAlive(f)'
      BY <1>6, <2>3, <2>4
    <3>2. IsAlive(f) <=> f.generation = e.generation
      BY <1>1, <1>8, <2>2, <2>4, LiveMeaning
    <3>3. f = e <=> f.generation = e.generation
      BY <2>4, <1>2, HandleEntity, EntityEqual
    <3>4. f.generation < entityGenerations'[f.index]
            <=> f.generation < entityGenerations[f.index] \/ f.generation = e.generation
      BY <1>8, <2>1, <2>4
    <3>5. QED
      BY <3>1, <3>2, <3>3, <3>4 DEF Live, Issued
  <2>5. CASE f.index # e.index
    <3>1. IsAlive(f)' <=> IsAlive(f)
      BY <1>6, <1>8, <2>1, <2>2, <2>3, <2>5
    <3>2. entityGenerations'[f.index] = entityGenerations[f.index] /\ f # e
      BY <1>8, <2>1, <2>5
    <3>3. QED
      BY <3>1, <3>2 DEF Live, Issued
  <2>6. QED
    BY <2>4, <2>5
<1>10. Live' = Live \ {e} /\ Issued' = Issued
  <2>1. Live \subseteq Handle /\ Live' \subseteq Handle /\ Issued \subseteq Handle /\ Issued' \subseteq Handle
    BY DEF Live, Issued
  <2>2. QED
    BY <1>9, <2>1
<1>11. ASSUME NEW f \in Live, f # e PROVE ComponentsOf(f)' = ComponentsOf(f)
  <2>1. f \in Handle /\ f.index \in Index /\ f \in Live'
    BY <1>10, <1>11 DEF Live, Handle
  <2>2. f.index # e.index
    BY <1>1, <1>11, LiveDistinct
  <2>3. entityLocations[f.index] # NoLocation
    BY <2>1, LiveMeaning
  <2>4. Held(f.index)' = Held(f.index)
    BY <1>7, <2>1, <2>2, <2>3
  <2>5. ComponentsOf(f) = Held(f.index) /\ ComponentsOf(f)' = Held(f.index)'
    BY <2>1, LiveMeaning, LiveMeaningNext
  <2>6. QED
    BY <2>4, <2>5
<1>12. QED
  BY <1>1, <1>10, <1>11 DEF EndsHandle

(* A spawn returns a handle no spawn returned before: its index has no row *)
(* and, at this generation, never had one.                                 *)
LEMMA SpawnMaps ==
  ASSUME StorageInv, NEW i \in Index, Allocate(i),
         entityLocations'[i] # NoLocation,
         \A j \in Index : j # i => entityLocations'[j] = entityLocations[j],
         \A j \in Index : j # i /\ entityLocations[j] # NoLocation => Held(j)' = Held(j),
         NEW h, h = HandleAt(i), NEW map, map = Held(i)'
  PROVE  IssuesHandle(h, map)
<1>1. /\ h \in Handle /\ h.index = i /\ h.generation = entityGenerations[i]
      /\ \A f \in Handle : f.index = i /\ f.generation = entityGenerations[i] => f = h
  <2>1. HandleAt(i) \in Handle
    BY MaxGenerationAssumption DEF StorageInv, GenerationsBounded, HandleAt, Handle
  <2>2. HandleAt(i).index = i /\ HandleAt(i).generation = entityGenerations[i]
    BY DEF HandleAt
  <2>3. \A f \in Handle : f.index = i /\ f.generation = entityGenerations[i] => f = HandleAt(i)
    BY DEF HandleAt, Handle
  <2>4. QED
    BY <2>1, <2>2, <2>3
<1>2. entityLocations[i] = NoLocation
  BY AllocatedIndex DEF StorageInv, RowsInv
<1>3. entityGenerations' = entityGenerations /\ entityGenerations[i] \in Nat
  BY DEF Allocate, StorageInv, RowsInv, RowsType
<1>4. h \notin Issued /\ h \notin Live
  BY <1>1, <1>2, <1>3 DEF Issued, Live, IsAlive, LocationOf
<1>5. ASSUME NEW f \in Handle
      PROVE  IsAlive(f)' <=> IsAlive(f) \/ f = h
  <2>1. f.index \in Index
    BY DEF Handle
  <2>2. IsAlive(f) <=> entityGenerations[f.index] = f.generation /\ entityLocations[f.index] # NoLocation
    BY DEF IsAlive, LocationOf
  <2>3. IsAlive(f)' <=> entityGenerations[f.index] = f.generation /\ entityLocations'[f.index] # NoLocation
    BY <1>3 DEF IsAlive, LocationOf
  <2>4. QED
    BY <1>1, <1>2, <2>1, <2>2, <2>3
<1>6. Live' = Live \cup {h} /\ Issued' = Issued \cup {h}
  <2>1. Live' = Live \cup {h}
    BY <1>1, <1>5 DEF Live
  <2>2. \A f \in Handle : f \in Issued' <=> f \in Issued \/ f = h
    BY <1>3, <1>5 DEF Issued
  <2>3. Issued' \subseteq Handle /\ Issued \subseteq Handle
    BY DEF Issued
  <2>4. QED
    BY <1>1, <2>1, <2>2, <2>3
<1>7. ASSUME NEW f \in Live PROVE ComponentsOf(f)' = ComponentsOf(f)
  <2>1. f \in Handle /\ f.index \in Index /\ f \in Live'
    BY <1>6 DEF Live, Handle
  <2>2. entityLocations[f.index] # NoLocation
    BY <2>1, LiveMeaning
  <2>3. Held(f.index)' = Held(f.index)
    BY <1>2, <2>1, <2>2
  <2>4. ComponentsOf(f) = Held(f.index) /\ ComponentsOf(f)' = Held(f.index)'
    BY <2>1, LiveMeaning, LiveMeaningNext
  <2>5. QED
    BY <2>3, <2>4
<1>8. ComponentsOf(h)' = Held(i)'
  BY <1>1, <1>6, LiveMeaningNext
<1>9. ComponentsOf(h)' = map
  BY <1>8
<1>10. QED
  BY <1>1, <1>4, <1>6, <1>7, <1>9 DEF IssuesHandle

(* spawn_empty: the new handle has no components.                          *)
LEMMA SpawnEmptyMaps ==
  ASSUME StorageInv, SpawnEmpty
  PROVE  \E h : IssuesHandle(h, [c \in {} |-> 0])
<1>1. PICK i \in Index :
        /\ Allocate(i)
        /\ entityLocations' = [entityLocations EXCEPT
             ![i] = [arch |-> EmptyArchetype, row |-> Len(archetypeEntities[EmptyArchetype]) + 1]]
        /\ UNCHANGED <<archetypes, columns>>
  BY DEF SpawnEmpty
<1>2. /\ entityLocations'[i].arch = EmptyArchetype
      /\ entityLocations'[i] # NoLocation
      /\ \A j \in Index : j # i => entityLocations'[j] = entityLocations[j]
  BY <1>1 DEF StorageInv, RowsInv, RowsType, EmptyArchetype, NoLocation
<1>3. \A j \in Index : j # i /\ entityLocations[j] # NoLocation => Held(j)' = Held(j)
  BY <1>1, <1>2 DEF Held, HeldAt
<1>4. archetypes[EmptyArchetype] = {}
  BY DEF StorageInv, RowsInv, RowsType
<1>5. Held(i)' = [c \in {} |-> 0]
  BY <1>1, <1>2, <1>4 DEF Held, HeldAt
<1>6. PICK h : h = HandleAt(i)
  OBVIOUS
<1>7. PICK map : map = Held(i)'
  OBVIOUS
<1>8. IssuesHandle(h, map)
  BY <1>1, <1>2, <1>3, <1>6, <1>7, SpawnMaps
<1>9. QED
  BY <1>5, <1>7, <1>8

(* spawn_with: the new handle has the bundle's values.                     *)
LEMMA SpawnWithMaps ==
  ASSUME BundlesDistinct, StorageInv, NEW b \in Bundle, NEW value \in [Types(b) -> Value],
         SpawnWith(b, value)
  PROVE  \E i \in Index, h \in Handle :
           /\ Allocate(i) /\ h = HandleAt(i) /\ IssuesHandle(h, value)
           /\ entityLocations[i] = NoLocation /\ entityLocations'[i] # NoLocation
           /\ \A j \in Index : j # i => entityLocations'[j] = entityLocations[j]
<1> DEFINE cached == bundleArchetypes[b]
           set  == Types(b)
           id   == IF cached # 0 THEN cached ELSE ArchetypeFor(set)
           factories == IF cached # 0 THEN columnFactories ELSE columnFactories \cup set
           ents == Grown(archetypeEntities, id, <<>>)
           cols == Grown(columns, id, NewColumns(set, factories))
           archs == Grown(archetypes, id, set)
           n    == Len(archetypes)
           m    == Len(archetypes')
           now  == WithValues(cols, id, value)
           new  == [arch |-> id, row |-> Len(ents[id]) + 1]
<1>1. PICK i \in Index :
        /\ Allocate(i)
        /\ archetypes' = archs
        /\ columns' = [cols EXCEPT ![id] =
             [c \in DOMAIN @ |-> PushBundle(@[c], b, c, value[c])]]
        /\ entityLocations' = [entityLocations EXCEPT ![i] = new]
  BY DEF SpawnWith
<1>2. set \in SUBSET Component
  BY BundleTypes
<1>3. /\ Resolves(id, set)
      /\ id \notin 1 .. n => set \subseteq factories
  <2>1. CASE cached # 0
    BY <2>1 DEF StorageInv, RowsInv, RowsType, ShortcutsResolve, Resolves, ColumnsInv
  <2>2. CASE cached = 0
    BY <1>2, <2>2, ArchetypeForResolves DEF StorageInv, RowsInv, ColumnsInv
  <2>3. QED
    BY <2>1, <2>2
<1>4. value \in [set -> Value] /\ \A c \in set : value[c] \in Value
  OBVIOUS
<1> HIDE DEF id, factories, set
<1>5. /\ archs \in Seq(SUBSET Component)
      /\ m \in Nat
      /\ id \in 1 .. m /\ id > 0
      /\ archs[id] = set
      /\ \A a \in 1 .. n : archs[a] = archetypes[a]
  BY <1>1, <1>2, <1>3, GrownArchetypes DEF StorageInv, RowsInv
<1>6. /\ ents \in Tables(m)
      /\ Corresponds(m, ents, entityLocations, entityGenerations)
  BY <1>1, <1>2, <1>3, GrownRows DEF StorageInv, RowsInv
<1>7. /\ cols \in ColumnTables(m)
      /\ Aligned(m, archs, ents, cols)
      /\ \A a \in 1 .. n : cols[a] = columns[a]
  BY <1>1, <1>2, <1>3, AlignedGrown DEF StorageInv, ColumnsInv, RowsInv
<1> HIDE DEF ents, cols, m, archs
<1>8. columns' = now
  <2>1. /\ cols[id] \in [set -> Seq(Value)]
        /\ id \in DOMAIN cols
    BY <1>5, <1>7 DEF Aligned, ColumnTables
  <2>2. ASSUME NEW c \in DOMAIN cols[id]
        PROVE  PushBundle(cols[id][c], b, c, value[c]) = Append(cols[id][c], value[c])
    <3> DEFINE column == cols[id][c]
               v == value[c]
    <3>1. column \in Seq(Value) /\ v \in Value /\ c \in Types(b)
      BY <1>4, <2>1 DEF set
    <3> HIDE DEF column, v
    <3>2. PushBundle(column, b, c, v) = Append(column, v)
      BY <3>1, PushBundleProperties
    <3>3. QED
      BY <3>2 DEF column, v
  <2>3. QED
    BY <1>1, <2>1, <2>2 DEF WithValues
<1>9. /\ \A a \in 1 .. m : \A r \in 1 .. Len(ents[a]) :
           HeldAt(archs, now, [arch |-> a, row |-> r]) = HeldAt(archs, cols, [arch |-> a, row |-> r])
      /\ HeldAt(archs, now, new) = [c \in archs[id] |-> value[c]]
  <2>1. /\ BundlesDistinct /\ m \in Nat /\ ents \in Tables(m) /\ cols \in ColumnTables(m)
        /\ Aligned(m, archs, ents, cols) /\ id \in 1 .. m
    BY <1>5, <1>6, <1>7
  <2>2. \A c \in archs[id] : value[c] \in Value
    BY <1>4, <1>5
  <2>3. QED
    BY ONLY <2>1, <2>2, PushHolds
<1> HIDE DEF now
<1>10. /\ new # NoLocation
       /\ entityLocations \in [Index -> Location]
       /\ entityLocations'[i] = new
       /\ \A j \in Index : j # i => entityLocations'[j] = entityLocations[j]
  BY <1>1, <1>5 DEF StorageInv, RowsInv, RowsType, NoLocation
<1>11. Held(i)' = HeldAt(archs, now, new)
  BY <1>1, <1>8, <1>10 DEF Held, HeldAt
<1>12. Held(i)' = value
  <2>1. Held(i)' = [c \in set |-> value[c]]
    BY <1>5, <1>9, <1>11
  <2>2. QED
    BY <1>4, <2>1
<1>13. ASSUME NEW j \in Index, j # i, entityLocations[j] # NoLocation
       PROVE  Held(j)' = Held(j)
  <2> DEFINE loc == entityLocations[j]
  <2>1. loc.arch \in 1 .. m /\ loc.row \in 1 .. Len(ents[loc.arch])
    BY <1>6, <1>13 DEF Corresponds
  <2>2. loc.arch \in 1 .. n
    BY <1>13 DEF StorageInv, RowsInv, RowsMatch, Corresponds
  <2>3. loc = [arch |-> loc.arch, row |-> loc.row]
    BY <1>10 DEF Location
  <2>4. Held(j)' = HeldAt(archs, now, loc)
    BY <1>1, <1>8, <1>10, <1>13 DEF Held, HeldAt
  <2> HIDE DEF loc
  <2>5. HeldAt(archs, now, loc) = HeldAt(archs, cols, loc)
    BY <1>9, <2>1, <2>3
  <2>6. HeldAt(archs, cols, loc) = HeldAt(archetypes, columns, loc)
    BY <1>5, <1>7, <2>2 DEF HeldAt
  <2>7. QED
    BY <2>4, <2>5, <2>6 DEF Held, loc
<1> HIDE DEF new
<1>14. PICK h : h = HandleAt(i)
  OBVIOUS
<1>15. value = Held(i)'
  BY <1>12
<1>16. IssuesHandle(h, value) /\ h \in Handle
  <2>1. IssuesHandle(h, value)
    BY <1>1, <1>10, <1>13, <1>14, <1>15, SpawnMaps
  <2>2. QED
    BY <2>1 DEF IssuesHandle
<1>17. entityLocations[i] = NoLocation
  BY <1>1, AllocatedIndex DEF StorageInv, RowsInv
<1>18. QED
  BY <1>1, <1>10, <1>14, <1>16, <1>17
-----------------------------------------------------------------------------
(* The theorem.                                                            *)

(* No generation passes the bound that Despawn respects.                   *)
LEMMA NextKeepsBounds ==
  ASSUME RowsInv, GenerationsBounded, [Next]_vars
  PROVE  GenerationsBounded'
<1>1. ASSUME NEW e \in Handle, Despawn(e) PROVE GenerationsBounded'
  <2>1. entityGenerations' = [entityGenerations EXCEPT ![e.index] = @ + 1]
        /\ e.generation < MaxGeneration /\ e \in Live
    BY <1>1 DEF Despawn, Retire, Live, IsAlive
  <2>2. entityGenerations[e.index] = e.generation /\ e.generation \in Nat /\ e.index \in Index
    BY <2>1, LiveMeaning, HandleEntity, EntityFields
  <2>3. QED
    BY <2>1, <2>2, MaxGenerationAssumption DEF GenerationsBounded, RowsInv, RowsType
<1>2. CASE UNCHANGED entityGenerations
  BY <1>2 DEF GenerationsBounded
<1>3. CASE SpawnEmpty
  BY <1>2, <1>3 DEF SpawnEmpty, Allocate
<1>4. ASSUME NEW b \in Bundle, NEW value \in [Types(b) -> Value], SpawnWith(b, value)
      PROVE  GenerationsBounded'
  BY <1>2, <1>4 DEF SpawnWith, Allocate
<1>5. ASSUME NEW e \in Handle, NEW c \in Component, NEW v \in Value, AddComponent(e, c, v)
      PROVE  GenerationsBounded'
  BY <1>2, <1>5 DEF AddComponent, Overwrite, AddFirst, AddAnother, allocator
<1>6. ASSUME NEW e \in Handle, NEW c \in Component, RemoveComponent(e, c)
      PROVE  GenerationsBounded'
  BY <1>2, <1>6 DEF RemoveComponent, allocator
<1>7. ASSUME NEW c \in Component, RegisterComponentType(c) PROVE GenerationsBounded'
  BY <1>2, <1>7 DEF RegisterComponentType, allocator
<1>8. CASE UNCHANGED vars
  BY <1>2, <1>8 DEF vars, allocator
<1>9. QED
  BY <1>1, <1>3, <1>4, <1>5, <1>6, <1>7, <1>8 DEF Next

(* A new world shows the empty map.                                        *)
LEMMA InitImplements == Init => Abstract!Init
<1> SUFFICES ASSUME Init PROVE Abstract!Init
  OBVIOUS
<1>1. \A e \in Handle : ~ IsAlive(e) /\ ~ (e.generation < entityGenerations[e.index])
  BY MaxGenerationAssumption DEF Init, IsAlive, LocationOf, Handle
<1>2. Issued = {} /\ Live = {}
  BY <1>1 DEF Issued, Live
<1>3. [e \in Live |-> ComponentsOf(e)] = [e \in {} |-> {}]
  BY <1>2
<1>4. QED
  BY <1>2, <1>3 DEF Abstract!Init

(* Every step of the storage is a step of the map, or none.                *)
LEMMA NextImplements ==
  ASSUME BundlesDistinct, StorageInv, [Next]_vars
  PROVE  [Abstract!Next]_(Abstract!vars)
<1>1. CASE SpawnEmpty
  <2>1. PICK h, values : IssuesHandle(h, values) /\ values = [c \in {} |-> 0]
    BY <1>1, SpawnEmptyMaps
  <2>2. {} \in SUBSET Component /\ values \in [{} -> Value]
    BY <2>1
  <2>3. QED
    BY <2>1, <2>2, SpawnStep
<1>2. ASSUME NEW b \in Bundle, NEW value \in [Types(b) -> Value], SpawnWith(b, value)
      PROVE  Abstract!Next
  <2>1. PICK h : IssuesHandle(h, value)
    BY <1>2, SpawnWithMaps
  <2>2. Types(b) \in SUBSET Component
    BY BundleTypes
  <2>3. QED
    BY <2>1, <2>2, SpawnStep
<1>3. ASSUME NEW e \in Handle, Despawn(e) PROVE Abstract!Next
  BY <1>3, DespawnMaps, DespawnStep
<1>4. ASSUME NEW e \in Handle, NEW c \in Component, NEW v \in Value, AddComponent(e, c, v)
      PROVE  Abstract!Next
  BY <1>4, AddMaps, PutStep
<1>5. ASSUME NEW e \in Handle, NEW c \in Component, RemoveComponent(e, c) PROVE Abstract!Next
  BY <1>5, RemoveMaps, TakeStep
<1>6. ASSUME UNCHANGED <<entityGenerations, entityLocations, archetypes, columns>>
      PROVE  UNCHANGED Abstract!vars
  <2>1. Live' = Live /\ Issued' = Issued
    BY <1>6, SameHandles
  <2>2. \A f \in Live : ComponentsOf(f)' = ComponentsOf(f)
    BY <1>6 DEF ComponentsOf, LocationOf
  <2>3. QED
    BY <2>1, <2>2, StutterStep
<1>7. ASSUME NEW c \in Component, RegisterComponentType(c) PROVE UNCHANGED Abstract!vars
  BY <1>6, <1>7 DEF RegisterComponentType, allocator
<1>8. CASE UNCHANGED vars
  BY <1>6, <1>8 DEF vars, allocator, storage
<1>9. QED
  BY <1>1, <1>2, <1>3, <1>4, <1>5, <1>7, <1>8 DEF Next

(* The rows, columns, generations and free list always are in order.       *)
LEMMA StorageInvariant == Spec => []StorageInv
<1>1. Init => GenerationsBounded
  BY MaxGenerationAssumption DEF Init, GenerationsBounded
<1>2. RowsInv /\ GenerationsBounded /\ [Next]_vars => GenerationsBounded'
  BY NextKeepsBounds
<1>3. RowsInv /\ ColumnsInv /\ GenerationsBounded => StorageInv
  BY DEF StorageInv
<1>4. QED
  BY <1>1, <1>2, <1>3, RowsInvariant, ColumnsInvariant, PTL DEF Spec

(* For tuples that name no type twice, spawning, despawning, adding and    *)
(* removing components change the component map of the named entity only,  *)
(* whatever rows swap-remove shuffles and whatever archetype the shortcuts *)
(* pick, and no spawn returns a handle that was ever returned before.      *)
THEOREM RefinementTheorem ==
  ASSUME BundlesDistinct
  PROVE  Spec => ImplementsEntityComponents
<1>1. StorageInv /\ [Next]_vars => [Abstract!Next]_(Abstract!vars)
  BY NextImplements
<1>2. Spec => Abstract!Init /\ [][Abstract!Next]_(Abstract!vars)
  BY <1>1, InitImplements, StorageInvariant, PTL DEF Spec
<1>3. QED
  BY <1>2 DEF ImplementsEntityComponents, Abstract!Spec
=============================================================================
