------------------------- MODULE ChangeDetectionProofs -------------------------
(***************************************************************************)
(* Theorems about ChangeDetection for any sets of entities and values and  *)
(* any number of archetypes.                                               *)
(*                                                                         *)
(* ChangeInv says that an entity has one row at most, now and in the       *)
(* snapshot, and that nothing came unannounced.  What the readers report   *)
(* is a matter of one state: their lists are concatenations, and the       *)
(* offsets into the frozen values are where the parts of one begin.        *)
(***************************************************************************)
EXTENDS ChangeDetection, Concatenations

-----------------------------------------------------------------------------
(* The invariant.                                                          *)

RowType == [entity : Entity, value : ValueOfT]

At(x, e) == \E a \in Archetype : \E r \in 1 .. Len(x[a]) : x[a][r].entity = e

(* No entity has two rows. *)
OnePlace(x) ==
  \A a, b \in Archetype : \A r \in 1 .. Len(x[a]), q \in 1 .. Len(x[b]) :
    x[a][r].entity = x[b][q].entity => a = b /\ r = q

Sound(x) == x \in [Archetype -> Seq(RowType)] /\ OnePlace(x)

(* Calls that do not bump the version bring nothing new.                   *)
SnapshotInv ==
  /\ snapshot = <<snapshot[1]>> /\ Sound(snapshot[1])
  /\ tracked
  /\ ~bumped => \A e : At(rows, e) => At(snapshot[1], e)

ChangeInv ==
  /\ Sound(rows)
  /\ bumped \in BOOLEAN
  /\ snapshot = <<>> \/ SnapshotInv

(* The size of T is what it was, and so is the type of a row.              *)
LEMMA SoundStays ==
  ASSUME UNCHANGED sized
  PROVE  /\ Sound(rows') <=> Sound(rows)'
         /\ Sound(snapshot'[1]) <=> Sound(snapshot[1])'
BY DEF Sound, OnePlace, RowType, ValueOfT

LEMMA SamePlace ==
  ASSUME NEW x, OnePlace(x), NEW a \in Archetype, NEW b \in Archetype,
         NEW r \in 1 .. Len(x[a]), NEW q \in 1 .. Len(x[b]), x[a][r].entity = x[b][q].entity
  PROVE  a = b /\ r = q
BY DEF OnePlace

LEMMA AtPlace ==
  ASSUME NEW x, NEW a \in Archetype, NEW r \in 1 .. Len(x[a])
  PROVE  At(x, x[a][r].entity)
BY DEF At

(* An archetype has no more rows than there are entities, so that Where    *)
(* finds every row.                                                        *)
LEMMA FewRows ==
  ASSUME NEW x, Sound(x), NEW a \in Archetype
  PROVE  Len(x[a]) \in Nat /\ \A r \in 1 .. Len(x[a]) : r \in 1 .. Cardinality(Entity)
<1>1. PICK n, D, s : n = Len(x[a]) /\ D = 1 .. n /\ s = [r \in D |-> x[a][r].entity]
  OBVIOUS
<1>2. x[a] \in Seq(RowType) /\ n \in Nat /\ DOMAIN x[a] = D
  BY <1>1 DEF Sound
<1>3. \A r \in D : x[a][r] \in RowType
  BY <1>2
<1>4. s \in [D -> Entity]
  BY <1>1, <1>3 DEF RowType
<1>5. \A r, q \in D : s[r] = s[q] => r = q
  BY <1>1 DEF Sound, OnePlace
<1>6. s \in Injection(D, Entity)
  BY <1>4, <1>5 DEF Injection, IsInjective
<1>7. Cardinality(D) = n
  <2>1. 1 \in Int /\ n \in Int /\ (IF 1 > n THEN 0 ELSE n - 1 + 1) = n
    BY <1>2
  <2>2. QED
    BY <1>1, <2>1, FS_Interval
<1>8. n <= Cardinality(Entity) /\ Cardinality(Entity) \in Nat
  BY <1>6, <1>7, FS_Injection, FS_CardinalityType, EntityAssumption
<1>9. QED
  BY <1>1, <1>2, <1>8

LEMMA WhereMeaning ==
  ASSUME Sound(rows), NEW e
  PROVE  /\ \A at \in Where(e) : /\ at.arch \in Archetype /\ at.row \in 1 .. Len(rows[at.arch])
                                 /\ rows[at.arch][at.row].entity = e
         /\ \A a \in Archetype : \A r \in 1 .. Len(rows[a]) :
              rows[a][r].entity = e => [arch |-> a, row |-> r] \in Where(e)
         /\ Holds(e) <=> At(rows, e)
<1>1. \A a \in Archetype : DOMAIN rows[a] = 1 .. Len(rows[a])
  BY DEF Sound
<1>2. ASSUME NEW at \in Where(e)
      PROVE  /\ at.arch \in Archetype /\ at.row \in 1 .. Len(rows[at.arch])
             /\ rows[at.arch][at.row].entity = e
  BY <1>1 DEF Where
<1>3. ASSUME NEW a \in Archetype, NEW r \in 1 .. Len(rows[a]), rows[a][r].entity = e
      PROVE  [arch |-> a, row |-> r] \in Where(e)
  BY <1>1, <1>3, FewRows DEF Where
<1>4. QED
  BY <1>2, <1>3 DEF Holds, At

-----------------------------------------------------------------------------
(* Edits of the rows.                                                      *)

Pushed(y, x, a, row)     == y = [x EXCEPT ![a] = Append(@, row)]
TakenOut(y, x, a, p)     == y = [x EXCEPT ![a] = Without(@, p)]
Rewritten(y, x, a, p, v) == y = [x EXCEPT ![a][p].value = v]

LEMMA AppendSound ==
  ASSUME NEW x, Sound(x), NEW a \in Archetype, NEW row \in RowType, ~At(x, row.entity),
         NEW y, Pushed(y, x, a, row)
  PROVE  /\ Sound(y)
         /\ \A e : At(y, e) <=> At(x, e) \/ e = row.entity
<1>1. PICK n, s, t : n = Len(x[a]) /\ s = x[a] /\ t = y[a]
  OBVIOUS
<1>2. x \in [Archetype -> Seq(RowType)] /\ s \in Seq(RowType) /\ n \in Nat
  BY <1>1 DEF Sound
<1>3. t = Append(s, row) /\ \A b \in Archetype : b # a => y[b] = x[b]
  BY <1>1, <1>2 DEF Pushed
<1>4. t \in Seq(RowType) /\ Len(t) = n + 1 /\ t[n + 1] = row /\ \A r \in 1 .. n : t[r] = s[r]
  BY <1>1, <1>2, <1>3
<1>5. y \in [Archetype -> Seq(RowType)]
  BY <1>1, <1>2, <1>4 DEF Pushed
<1>6. ASSUME NEW b \in Archetype, NEW r \in 1 .. Len(y[b])
      PROVE  \/ r \in 1 .. Len(x[b]) /\ y[b][r] = x[b][r]
             \/ b = a /\ r = n + 1 /\ y[b][r] = row
  <2>1. CASE b = a
    <3>1. r \in 1 .. n \/ r = n + 1
      BY <1>1, <1>2, <1>4, <2>1
    <3>2. QED
      BY <1>1, <1>4, <2>1, <3>1
  <2>2. CASE b # a
    BY <1>3, <2>2
  <2>3. QED
    BY <2>1, <2>2
<1>7. \A b \in Archetype : \A r \in 1 .. Len(x[b]) : x[b][r].entity # row.entity
  BY DEF At
<1>8. OnePlace(y)
  <2>1. OnePlace(x)
    BY DEF Sound
  <2>2. ASSUME NEW b \in Archetype, NEW c \in Archetype,
               NEW r \in 1 .. Len(y[b]), NEW q \in 1 .. Len(y[c]),
               y[b][r].entity = y[c][q].entity
        PROVE  b = c /\ r = q
    <3>1. CASE r \in 1 .. Len(x[b]) /\ y[b][r] = x[b][r] /\ q \in 1 .. Len(x[c]) /\ y[c][q] = x[c][q]
      <4>1. x[b][r].entity = x[c][q].entity
        BY ONLY <2>2, <3>1
      <4>2. QED
        BY <2>1, <3>1, <4>1, SamePlace
    <3>2. CASE b = a /\ r = n + 1 /\ y[b][r] = row
      <4>1. y[c][q].entity = row.entity
        BY <2>2, <3>2
      <4>2. c = a /\ q = n + 1
        BY ONLY <1>6, <1>7, <2>2, <4>1
      <4>3. QED
        BY <3>2, <4>2
    <3>3. CASE c = a /\ q = n + 1 /\ y[c][q] = row
      <4>1. y[b][r].entity = row.entity
        BY <2>2, <3>3
      <4>2. b = a /\ r = n + 1
        BY ONLY <1>6, <1>7, <2>2, <4>1
      <4>3. QED
        BY <3>3, <4>2
    <3>4. QED
      BY <1>6, <3>1, <3>2, <3>3
  <2>3. QED
    BY <2>2 DEF OnePlace
<1>9. ASSUME NEW b \in Archetype, NEW r \in 1 .. Len(x[b])
      PROVE  r \in 1 .. Len(y[b]) /\ y[b][r] = x[b][r]
  <2>1. CASE b = a
    BY <1>1, <1>2, <1>4, <2>1
  <2>2. CASE b # a
    BY <1>3, <2>2
  <2>3. QED
    BY <2>1, <2>2
<1>10. n + 1 \in 1 .. Len(y[a]) /\ y[a][n + 1] = row
  BY <1>1, <1>2, <1>4
<1>11. ASSUME NEW e, At(y, e) PROVE At(x, e) \/ e = row.entity
  <2>1. PICK b \in Archetype : \E r \in 1 .. Len(y[b]) : y[b][r].entity = e
    BY <1>11 DEF At
  <2>2. PICK r \in 1 .. Len(y[b]) : y[b][r].entity = e
    BY <2>1
  <2>3. QED
    BY <1>6, <2>2, AtPlace
<1>12. ASSUME NEW e, At(x, e) PROVE At(y, e)
  <2>1. PICK b \in Archetype : \E r \in 1 .. Len(x[b]) : x[b][r].entity = e
    BY <1>12 DEF At
  <2>2. PICK r \in 1 .. Len(x[b]) : x[b][r].entity = e
    BY <2>1
  <2>3. QED
    BY <1>9, <2>2, AtPlace
<1>13. At(y, row.entity)
  BY <1>10, AtPlace
<1>14. QED
  BY <1>5, <1>8, <1>11, <1>12, <1>13 DEF Sound

LEMMA WithoutSound ==
  ASSUME NEW x, Sound(x), NEW a \in Archetype, NEW p \in 1 .. Len(x[a]),
         NEW y, TakenOut(y, x, a, p)
  PROVE  /\ Sound(y)
         /\ ~At(y, x[a][p].entity)
         /\ \A e : At(y, e) => At(x, e)
<1>1. PICK n, s, t : n = Len(x[a]) /\ s = x[a] /\ t = y[a]
  OBVIOUS
<1>2. /\ x \in [Archetype -> Seq(RowType)] /\ s \in Seq(RowType) /\ n \in Nat /\ n >= 1
      /\ p \in 1 .. n
  BY <1>1 DEF Sound
<1>3. /\ t = [k \in 1 .. n - 1 |-> IF k = p THEN s[n] ELSE s[k]]
      /\ \A b \in Archetype : b # a => y[b] = x[b]
  BY <1>1, <1>2 DEF Without, TakenOut
<1>4. PICK from : from = [k \in 1 .. n - 1 |-> IF k = p THEN n ELSE k]
  OBVIOUS
<1>5. /\ \A k \in 1 .. n - 1 : from[k] \in 1 .. n /\ from[k] # p /\ t[k] = s[from[k]]
      /\ \A j, k \in 1 .. n - 1 : from[j] = from[k] => j = k
  BY <1>2, <1>3, <1>4
<1>6. t \in Seq(RowType) /\ Len(t) = n - 1
  <2>1. n - 1 \in Nat /\ \A k \in 1 .. n - 1 : t[k] \in RowType
    BY <1>1, <1>2, <1>5
  <2>2. t = [k \in 1 .. n - 1 |-> t[k]]
    BY <1>3
  <2>3. QED
    BY <2>1, <2>2
<1>7. y \in [Archetype -> Seq(RowType)]
  BY <1>1, <1>2, <1>6 DEF TakenOut
<1>8. PICK place : place = [b \in Archetype |-> [r \in 1 .. Len(y[b]) |-> IF b = a THEN from[r] ELSE r]]
  OBVIOUS
<1>9. ASSUME NEW b \in Archetype, NEW r \in 1 .. Len(y[b])
      PROVE  /\ place[b][r] \in 1 .. Len(x[b]) /\ y[b][r] = x[b][place[b][r]]
             /\ b = a => place[b][r] # p
             /\ \A q \in 1 .. Len(y[b]) : place[b][r] = place[b][q] => r = q
  <2>1. CASE b = a
    BY <1>1, <1>5, <1>6, <1>8, <2>1
  <2>2. CASE b # a
    BY <1>3, <1>8, <2>2
  <2>3. QED
    BY <2>1, <2>2
<1>10. OnePlace(x)
  BY DEF Sound
<1>11. OnePlace(y)
  <2>1. ASSUME NEW b \in Archetype, NEW c \in Archetype,
               NEW r \in 1 .. Len(y[b]), NEW q \in 1 .. Len(y[c]),
               y[b][r].entity = y[c][q].entity
        PROVE  b = c /\ r = q
    <3>1. b = c /\ place[b][r] = place[c][q]
      <4>1. PICK i, j : i = place[b][r] /\ j = place[c][q]
        OBVIOUS
      <4>2. i \in 1 .. Len(x[b]) /\ j \in 1 .. Len(x[c]) /\ y[b][r] = x[b][i] /\ y[c][q] = x[c][j]
        BY <1>9, <4>1
      <4>3. x[b][i].entity = x[c][j].entity
        BY ONLY <2>1, <4>2
      <4>4. b = c /\ i = j
        BY ONLY <1>10, <4>2, <4>3, SamePlace
      <4>5. QED
        BY <4>1, <4>4
    <3>2. QED
      BY <1>9, <3>1
  <2>2. QED
    BY <2>1 DEF OnePlace
<1>12. ASSUME NEW b \in Archetype, NEW r \in 1 .. Len(y[b])
       PROVE  y[b][r].entity # x[a][p].entity /\ At(x, y[b][r].entity)
  <2>1. PICK i : i = place[b][r]
    OBVIOUS
  <2>2. i \in 1 .. Len(x[b]) /\ y[b][r] = x[b][i] /\ (b = a => i # p)
    BY <1>9, <2>1
  <2>3. x[b][i].entity # x[a][p].entity
    BY <1>10, <2>2, SamePlace
  <2>4. QED
    BY ONLY <2>2, <2>3, AtPlace
<1>13. ASSUME NEW e, At(y, e) PROVE At(x, e) /\ e # x[a][p].entity
  <2>1. PICK b \in Archetype : \E r \in 1 .. Len(y[b]) : y[b][r].entity = e
    BY <1>13 DEF At
  <2>2. PICK r \in 1 .. Len(y[b]) : y[b][r].entity = e
    BY <2>1
  <2>3. QED
    BY <1>12, <2>2
<1>14. QED
  BY <1>7, <1>11, <1>13 DEF Sound

LEMMA WriteSound ==
  ASSUME NEW x, Sound(x), NEW a \in Archetype, NEW p \in 1 .. Len(x[a]), NEW v \in ValueOfT,
         NEW y, Rewritten(y, x, a, p, v)
  PROVE  Sound(y) /\ \A e : At(y, e) <=> At(x, e)
<1>1. PICK n, s, t : n = Len(x[a]) /\ s = x[a] /\ t = y[a]
  OBVIOUS
<1>2. x \in [Archetype -> Seq(RowType)] /\ s \in Seq(RowType) /\ n \in Nat /\ s \in [1 .. n -> RowType]
  BY <1>1 DEF Sound
<1>3. t = [s EXCEPT ![p].value = v] /\ \A b \in Archetype : b # a => y[b] = x[b]
  BY <1>1, <1>2 DEF Rewritten
<1>4. /\ t \in [1 .. n -> RowType]
      /\ \A r \in 1 .. n : t[r].entity = s[r].entity
  BY <1>2, <1>3 DEF RowType
<1>5. t \in Seq(RowType) /\ Len(t) = n
  BY ONLY <1>2, <1>4
<1>6. y \in [Archetype -> Seq(RowType)]
  BY <1>1, <1>2, <1>5 DEF Rewritten
<1>7. \A b \in Archetype : Len(y[b]) = Len(x[b]) /\ \A r \in 1 .. Len(y[b]) : y[b][r].entity = x[b][r].entity
  <2>1. Len(t) = Len(s) /\ \A r \in 1 .. Len(t) : t[r].entity = s[r].entity
    BY <1>1, <1>4, <1>5
  <2>2. y[a] = t /\ x[a] = s
    BY <1>1
  <2>3. \A b \in Archetype : b # a => y[b] = x[b]
    BY <1>3
  <2>4. QED
    BY ONLY <2>1, <2>2, <2>3
<1>8. OnePlace(y)
  BY <1>7 DEF Sound, OnePlace
<1>9. QED
  BY <1>6, <1>7, <1>8 DEF Sound, At

-----------------------------------------------------------------------------
(* What each call keeps.                                                   *)

LEMMA ArriveKeeps ==
  ASSUME ChangeInv, NEW e \in Entity, NEW a \in Archetype, NEW v \in ValueOfT, Arrive(e, a, v)
  PROVE  ChangeInv'
<1>1. Sound(rows) /\ ~At(rows, e)
  BY WhereMeaning DEF ChangeInv, Arrive
<1>2. Row(e, v) \in RowType /\ Row(e, v).entity = e
  BY DEF Row, RowType
<1>3. Sound(rows')
  <2>1. Pushed(rows', rows, a, Row(e, v))
    BY DEF Arrive, Pushed
  <2>2. QED
    BY <1>1, <1>2, <2>1, AppendSound
<1>4. UNCHANGED <<sized, tracked, snapshot>> /\ bumped' = (snapshot # <<>>)
  BY DEF Arrive, Bump, readerVars
<1>5. CASE snapshot = <<>>
  BY <1>3, <1>4, <1>5, SoundStays DEF ChangeInv
<1>6. CASE snapshot # <<>>
  <2>1. SnapshotInv /\ bumped'
    BY <1>4, <1>6 DEF ChangeInv
  <2>2. SnapshotInv'
    BY <1>4, <2>1, SoundStays DEF SnapshotInv
  <2>3. QED
    BY <1>3, <1>4, <2>1, <2>2, SoundStays DEF ChangeInv
<1>7. QED
  BY <1>5, <1>6

(* The row of an entity goes: nobody is there who was not.                 *)
LEMMA RemoveKeeps ==
  ASSUME ChangeInv, NEW e \in Entity, RemoveRow(e)
  PROVE  /\ Sound(rows') /\ ~At(rows', e)
         /\ \A x : At(rows', x) => At(rows, x)
         /\ UNCHANGED <<sized, tracked, snapshot>>
<1>1. Sound(rows) /\ UNCHANGED <<sized, tracked, snapshot>>
  BY DEF ChangeInv, RemoveRow, readerVars
<1>2. PICK at \in Where(e) : TakenOut(rows', rows, at.arch, at.row)
  BY DEF RemoveRow, TakenOut
<1>3. at.arch \in Archetype /\ at.row \in 1 .. Len(rows[at.arch]) /\ rows[at.arch][at.row].entity = e
  BY <1>1, WhereMeaning
<1>4. QED
  BY <1>1, <1>2, <1>3, WithoutSound

(* Rows that are no others' than before: the invariant stays, whatever is  *)
(* announced.                                                              *)
LEMMA FewerKeeps ==
  ASSUME ChangeInv, Sound(rows'), \A x : At(rows', x) => At(rows, x),
         UNCHANGED <<sized, tracked, snapshot>>, Bump \/ Silent
  PROVE  ChangeInv'
<1>1. bumped' \in BOOLEAN /\ (bumped' \/ bumped' = bumped \/ snapshot = <<>>)
  BY DEF ChangeInv, Bump, Silent
<1>2. CASE snapshot = <<>>
  BY <1>1, <1>2, SoundStays DEF ChangeInv
<1>3. CASE snapshot # <<>>
  <2>1. SnapshotInv
    BY <1>3 DEF ChangeInv
  <2>2. ~bumped' => ~bumped
    BY <1>1, <1>3
  <2>3. SnapshotInv'
    BY <2>1, <2>2, SoundStays DEF SnapshotInv
  <2>4. QED
    BY <1>1, <2>3, SoundStays DEF ChangeInv
<1>4. QED
  BY <1>2, <1>3

LEMMA MoveKeeps ==
  ASSUME ChangeInv, NEW e \in Entity, NEW b \in Archetype, Move(e, b)
  PROVE  ChangeInv'
<1>1. PICK at \in Where(e) :
        /\ at.arch # b
        /\ rows' = [rows EXCEPT ![at.arch] = Without(@, at.row), ![b] = Append(@, rows[at.arch][at.row])]
  BY DEF Move
<1>2. PICK a, p, row : a = at.arch /\ p = at.row /\ row = rows[a][p]
  OBVIOUS
<1>3. Sound(rows)
  BY DEF ChangeInv
<1>4. a \in Archetype /\ a # b /\ p \in 1 .. Len(rows[a]) /\ row.entity = e
  BY <1>1, <1>2, <1>3, WhereMeaning
<1>5. rows \in [Archetype -> Seq(RowType)] /\ row \in RowType
  BY <1>2, <1>3, <1>4 DEF Sound
<1>6. PICK y : TakenOut(y, rows, a, p)
  BY DEF TakenOut
<1>7. Sound(y) /\ ~At(y, row.entity) /\ \A x : At(y, x) => At(rows, x)
  BY <1>2, <1>3, <1>4, <1>6, WithoutSound
<1>8. Pushed(rows', y, b, row)
  BY <1>1, <1>2, <1>4, <1>5, <1>6 DEF Pushed, TakenOut
<1>9. Sound(rows') /\ \A x : At(rows', x) <=> At(y, x) \/ x = row.entity
  BY <1>5, <1>7, <1>8, AppendSound
<1>10. At(rows, e)
  BY <1>2, <1>4 DEF At
<1>11. UNCHANGED <<sized, tracked, snapshot>> /\ Silent
  BY DEF Move, readerVars
<1>12. QED
  BY <1>4, <1>7, <1>9, <1>10, <1>11, FewerKeeps

LEMMA WriteKeeps ==
  ASSUME ChangeInv, NEW e \in Entity, NEW v \in ValueOfT, Write(e, v), Bump \/ Silent
  PROVE  ChangeInv'
<1>1. Sound(rows) /\ UNCHANGED <<sized, tracked, snapshot>>
  BY DEF ChangeInv, Write, readerVars
<1>2. PICK at \in Where(e) : Rewritten(rows', rows, at.arch, at.row, v)
  BY DEF Write, Rewritten
<1>3. at.arch \in Archetype /\ at.row \in 1 .. Len(rows[at.arch])
  BY <1>1, WhereMeaning
<1>4. Sound(rows') /\ \A x : At(rows', x) <=> At(rows, x)
  BY <1>1, <1>2, <1>3, WriteSound
<1>5. QED
  BY <1>1, <1>4, FewerKeeps

LEMMA EmptySound == Sound(NoRows) /\ \A e : ~At(NoRows, e)
<1>1. \A a \in Archetype : NoRows[a] = <<>> /\ Len(NoRows[a]) = 0
  BY DEF NoRows
<1>2. NoRows \in [Archetype -> Seq(RowType)]
  BY DEF NoRows
<1>3. \A a \in Archetype : 1 .. Len(NoRows[a]) = {}
  BY <1>1
<1>4. QED
  BY <1>2, <1>3 DEF Sound, OnePlace, At

(* A load brings back nobody whom the snapshot does not know.              *)
LEMMA LoadKeeps ==
  ASSUME ChangeInv, LoadState
  PROVE  ChangeInv'
<1>1. UNCHANGED <<sized, tracked, snapshot, bumped>> /\ rows' \in {NoRows} \cup ToSet(snapshot)
  BY DEF LoadState, Silent, readerVars
<1>2. CASE snapshot = <<>>
  <2>1. ToSet(<<>>) = {}
    BY DEF ToSet
  <2>2. Sound(rows')
    BY <1>1, <1>2, <2>1, EmptySound
  <2>3. QED
    BY <1>1, <1>2, <2>2, SoundStays DEF ChangeInv
<1>3. CASE snapshot # <<>>
  <2>1. SnapshotInv
    BY <1>3 DEF ChangeInv
  <2>2. ToSet(snapshot) = {snapshot[1]}
    <3>1. PICK x : snapshot = <<x>>
      BY <2>1 DEF SnapshotInv
    <3>2. DOMAIN <<x>> = {1} /\ <<x>>[1] = x
      OBVIOUS
    <3>3. QED
      BY <3>1, <3>2 DEF ToSet
  <2>3. Sound(rows') /\ \A e : At(rows', e) => At(snapshot[1], e)
    BY <1>1, <2>1, <2>2, EmptySound DEF SnapshotInv
  <2>4. SnapshotInv'
    BY <1>1, <2>1, <2>3, SoundStays DEF SnapshotInv
  <2>5. QED
    BY <1>1, <2>3, <2>4, SoundStays DEF ChangeInv
<1>4. QED
  BY <1>2, <1>3

LEMMA SnapshotKeeps ==
  ASSUME ChangeInv, SnapshotChanges
  PROVE  ChangeInv'
<1>1. /\ tracked /\ snapshot' = <<rows>> /\ ~bumped' /\ bumped' \in BOOLEAN
      /\ UNCHANGED <<sized, rows, tracked>>
  BY DEF SnapshotChanges
<1>2. snapshot'[1] = rows
  BY <1>1
<1>3. Sound(rows)
  BY DEF ChangeInv
<1>4. SnapshotInv'
  BY <1>1, <1>2, <1>3, SoundStays DEF SnapshotInv
<1>5. QED
  BY <1>1, <1>3, <1>4, SoundStays DEF ChangeInv

LEMMA NextKeepsChanges ==
  ASSUME ChangeInv, [Next]_changeVars
  PROVE  ChangeInv'
<1>1. ASSUME NEW e \in Entity, NEW a \in Archetype, NEW v \in ValueOfT, Arrive(e, a, v)
      PROVE  ChangeInv'
  BY <1>1, ArriveKeeps
<1>2. ASSUME NEW e \in Entity, Leave(e) \/ Despawn(e) PROVE ChangeInv'
  BY <1>2, RemoveKeeps, FewerKeeps DEF Leave, Despawn
<1>3. ASSUME NEW e \in Entity, NEW b \in Archetype, Move(e, b) PROVE ChangeInv'
  BY <1>3, MoveKeeps
<1>4. ASSUME NEW e \in Entity, NEW v \in ValueOfT, Overwrite(e, v) \/ SetComponent(e, v)
      PROVE  ChangeInv'
  BY <1>4, WriteKeeps DEF Overwrite, SetComponent
<1>5. CASE LoadState
  BY <1>5, LoadKeeps
<1>6. CASE TrackChanges
  <2>1. UNCHANGED <<sized, rows, snapshot, bumped>> /\ tracked'
    BY <1>6 DEF TrackChanges
  <2>2. QED
    BY <2>1, SoundStays DEF ChangeInv, SnapshotInv
<1>7. CASE BumpChangeVersion
  <2>1. Bump /\ UNCHANGED <<sized, rows, tracked, snapshot>>
    BY <1>7 DEF BumpChangeVersion, readerVars
  <2>2. Sound(rows')
    BY <2>1 DEF ChangeInv
  <2>3. QED
    BY <2>1, <2>2, FewerKeeps
<1>8. CASE SnapshotChanges
  BY <1>8, SnapshotKeeps
<1>9. CASE UNCHANGED changeVars
  BY <1>9, SoundStays DEF changeVars, readerVars, ChangeInv, SnapshotInv
<1>10. QED
  BY <1>1, <1>2, <1>3, <1>4, <1>5, <1>6, <1>7, <1>8, <1>9 DEF Next

LEMMA ChangeInvariant == Spec => []ChangeInv
<1>1. Init => ChangeInv
  BY EmptySound DEF Init, ChangeInv
<1>2. ChangeInv /\ [Next]_changeVars => ChangeInv'
  BY NextKeepsChanges
<1>3. QED
  BY <1>1, <1>2, PTL DEF Spec

-----------------------------------------------------------------------------
(* The lists of the readers.                                               *)

LEMMA EntitiesMeaning ==
  ASSUME Sound(rows), NEW a \in Archetype, NEW n, n = Len(rows[a])
  PROVE  /\ n \in Nat /\ DOMAIN rows[a] = 1 .. n
         /\ EntitiesIn(a) \in Seq(Entity) /\ Len(EntitiesIn(a)) = n
         /\ \A r \in 1 .. n : EntitiesIn(a)[r] = rows[a][r].entity /\ rows[a][r] \in RowType
         /\ \A r, q \in 1 .. n : rows[a][r].entity = rows[a][q].entity => r = q
<1>1. rows[a] \in Seq(RowType) /\ OnePlace(rows)
  BY DEF Sound
<1>2. n \in Nat /\ DOMAIN rows[a] = 1 .. n /\ \A r \in 1 .. n : rows[a][r] \in RowType
  BY <1>1
<1>3. EntitiesIn(a) = [r \in 1 .. n |-> rows[a][r].entity]
  BY <1>2 DEF EntitiesIn
<1>4. \A r \in 1 .. n : rows[a][r].entity \in Entity
  BY <1>2 DEF RowType
<1>5. EntitiesIn(a) \in Seq(Entity) /\ Len(EntitiesIn(a)) = n
  BY <1>2, <1>3, <1>4
<1>6. \A r, q \in 1 .. n : rows[a][r].entity = rows[a][q].entity => r = q
  BY <1>1, SamePlace
<1>7. QED
  BY <1>2, <1>3, <1>5, <1>6

(* The list of the entities of some rows of an archetype.                  *)
ListsRows(list, a, chosen) ==
  /\ list \in Seq(Entity)
  /\ OncePerPlace(list)
  /\ \A e : e \in ToSet(list) <=> \E r \in chosen : rows[a][r].entity = e

LEMMA EntitiesList ==
  ASSUME Sound(rows), NEW a \in Archetype
  PROVE  ListsRows(EntitiesIn(a), a, DOMAIN rows[a])
<1>1. PICK n : n = Len(rows[a])
  OBVIOUS
<1>2. PICK list : list = EntitiesIn(a)
  OBVIOUS
<1>3. /\ n \in Nat /\ DOMAIN rows[a] = 1 .. n
      /\ list \in Seq(Entity) /\ Len(list) = n
      /\ \A r \in 1 .. n : list[r] = rows[a][r].entity
      /\ \A r, q \in 1 .. n : rows[a][r].entity = rows[a][q].entity => r = q
  BY <1>1, <1>2, EntitiesMeaning
<1>4. OncePerPlace(list)
  BY <1>3 DEF OncePerPlace
<1>5. ToSet(list) = {list[r] : r \in 1 .. n}
  BY <1>3 DEF ToSet
<1>6. \A e : e \in ToSet(list) <=> \E r \in 1 .. n : rows[a][r].entity = e
  BY <1>3, <1>5
<1>7. QED
  BY <1>2, <1>3, <1>4, <1>6 DEF ListsRows

LEMMA VisitedList ==
  ASSUME Sound(rows), NEW a \in Archetype, NEW chosen, chosen \subseteq DOMAIN rows[a]
  PROVE  ListsRows(Visited(a, chosen), a, chosen)
<1>1. PICK n : n = Len(rows[a])
  OBVIOUS
<1>2. /\ n \in Nat /\ DOMAIN rows[a] = 1 .. n
      /\ \A r \in 1 .. n : rows[a][r] \in RowType
      /\ \A r, q \in 1 .. n : rows[a][r].entity = rows[a][q].entity => r = q
  BY <1>1, EntitiesMeaning
<1>3. PICK table : table = [r \in 1 .. n |-> IF r \in chosen THEN <<rows[a][r].entity>> ELSE <<>>]
  OBVIOUS
<1>4. Visited(a, chosen) = FlattenSeq(table)
  BY <1>2, <1>3 DEF Visited
<1>5. ASSUME NEW r \in 1 .. n
      PROVE  /\ table[r] \in Seq(Entity)
             /\ r \notin chosen => Len(table[r]) = 0
             /\ r \in chosen => Len(table[r]) = 1 /\ table[r][1] = rows[a][r].entity
  <2>1. rows[a][r].entity \in Entity
    BY <1>2 DEF RowType
  <2>2. CASE r \in chosen
    <3>1. PICK e : e = rows[a][r].entity
      OBVIOUS
    <3>2. table[r] = <<e>> /\ e \in Entity
      BY <1>3, <2>1, <2>2, <3>1
    <3>3. QED
      BY <2>2, <3>1, <3>2
  <2>3. CASE r \notin chosen
    BY <1>3, <2>3
  <2>4. QED
    BY <2>2, <2>3
<1>6. table \in [1 .. n -> Seq(Entity)]
  BY <1>3, <1>5
<1>7. ASSUME NEW r \in 1 .. n, NEW k \in 1 .. Len(table[r])
      PROVE  r \in chosen /\ k = 1 /\ table[r][k] = rows[a][r].entity
  <2>1. r \in chosen
    <3>1. SUFFICES ASSUME Len(table[r]) = 0 PROVE FALSE
      BY <1>5
    <3>2. k \in 1 .. 0
      BY <3>1
    <3>3. QED
      BY <3>2
  <2>2. Len(table[r]) = 1 /\ table[r][1] = rows[a][r].entity
    BY <1>5, <2>1
  <2>3. k = 1
    BY <2>2
  <2>4. QED
    BY <2>1, <2>2, <2>3
<1>8. OncePerPlace(FlattenSeq(table))
  <2>1. \A r, q \in 1 .. n : \A k \in 1 .. Len(table[r]), l \in 1 .. Len(table[q]) :
          table[r][k] = table[q][l] => r = q /\ k = l
    BY ONLY <1>2, <1>7
  <2>2. QED
    BY <1>2, <1>6, <2>1, FlattenDistinct
<1>9. /\ FlattenSeq(table) \in Seq(Entity)
      /\ \A e : e \in ToSet(FlattenSeq(table)) <=>
           \E r \in 1 .. n : \E k \in 1 .. Len(table[r]) : e = table[r][k]
  <2>1. n \in Nat
    BY <1>2
  <2>2. QED
    BY ONLY <1>6, <2>1, FlattenMembers
<1>10. ASSUME NEW r \in chosen
       PROVE  r \in 1 .. n /\ 1 \in 1 .. Len(table[r]) /\ table[r][1] = rows[a][r].entity
  BY <1>2, <1>5
<1>11. \A e : (\E r \in 1 .. n : \E k \in 1 .. Len(table[r]) : e = table[r][k])
                <=> \E r \in chosen : rows[a][r].entity = e
  BY <1>7, <1>10
<1>12. QED
  BY <1>4, <1>8, <1>9, <1>11 DEF ListsRows

(* Lists of all archetypes behind each other.                              *)
LEMMA ListsTogether ==
  ASSUME Sound(rows), NEW chosen, \A a \in Archetype : chosen[a] \subseteq DOMAIN rows[a],
         NEW lists, lists = [a \in Archetype |-> lists[a]],
         \A a \in Archetype : ListsRows(lists[a], a, chosen[a])
  PROVE  /\ FlattenSeq(lists) \in Seq(Entity)
         /\ OncePerPlace(FlattenSeq(lists))
         /\ \A e : e \in ToSet(FlattenSeq(lists)) <=>
              \E a \in Archetype : \E r \in chosen[a] : rows[a][r].entity = e
<1>1. PICK n : n = Archetypes
  OBVIOUS
<1>2. n \in Nat /\ Archetype = 1 .. n
  BY <1>1, ArchetypesAssumption DEF Archetype
<1>3. lists \in [1 .. n -> Seq(Entity)]
  BY <1>2 DEF ListsRows
<1>4. ASSUME NEW a \in Archetype, NEW k \in 1 .. Len(lists[a])
      PROVE  lists[a][k] \in ToSet(lists[a])
  <2>1. lists[a] \in Seq(Entity)
    BY DEF ListsRows
  <2>2. QED
    BY <2>1 DEF ToSet
<1>5. ASSUME NEW a \in Archetype, NEW b \in Archetype,
             NEW k \in 1 .. Len(lists[a]), NEW l \in 1 .. Len(lists[b]), lists[a][k] = lists[b][l]
      PROVE  a = b /\ k = l
  <2>1. PICK r \in chosen[a] : rows[a][r].entity = lists[a][k]
    BY <1>4 DEF ListsRows
  <2>2. PICK q \in chosen[b] : rows[b][q].entity = lists[b][l]
    BY <1>4 DEF ListsRows
  <2>3. r \in 1 .. Len(rows[a]) /\ q \in 1 .. Len(rows[b]) /\ OnePlace(rows)
    BY EntitiesMeaning DEF Sound
  <2>4. rows[a][r].entity = rows[b][q].entity
    BY <1>5, <2>1, <2>2
  <2>5. a = b
    BY <2>3, <2>4, SamePlace
  <2>6. OncePerPlace(lists[a])
    BY DEF ListsRows
  <2>7. QED
    BY <1>5, <2>5, <2>6 DEF OncePerPlace
<1>6. OncePerPlace(FlattenSeq(lists))
  BY <1>2, <1>3, <1>5, FlattenDistinct
<1>7. /\ FlattenSeq(lists) \in Seq(Entity)
      /\ \A e : e \in ToSet(FlattenSeq(lists)) <=>
           \E a \in Archetype : \E k \in 1 .. Len(lists[a]) : e = lists[a][k]
  <2>1. n \in Nat
    BY <1>2
  <2>2. /\ FlattenSeq(lists) \in Seq(Entity)
        /\ \A e : e \in ToSet(FlattenSeq(lists)) <=>
             \E a \in 1 .. n : \E k \in 1 .. Len(lists[a]) : e = lists[a][k]
    BY ONLY <1>3, <2>1, FlattenMembers
  <2>3. QED
    BY ONLY <1>2, <2>2
<1>8. \A a \in Archetype : ToSet(lists[a]) = {lists[a][k] : k \in 1 .. Len(lists[a])}
  <2>1. \A a \in Archetype : lists[a] \in Seq(Entity)
    BY DEF ListsRows
  <2>2. QED
    BY <2>1 DEF ToSet
<1>9. ASSUME NEW e, NEW a \in Archetype
      PROVE  (\E k \in 1 .. Len(lists[a]) : e = lists[a][k]) <=> \E r \in chosen[a] : rows[a][r].entity = e
  <2>1. e \in ToSet(lists[a]) <=> \E r \in chosen[a] : rows[a][r].entity = e
    BY DEF ListsRows
  <2>2. e \in ToSet(lists[a]) <=> \E k \in 1 .. Len(lists[a]) : e = lists[a][k]
    BY <1>8
  <2>3. QED
    BY ONLY <2>1, <2>2
<1>10. ASSUME NEW e
       PROVE  (\E a \in Archetype : \E k \in 1 .. Len(lists[a]) : e = lists[a][k])
                <=> \E a \in Archetype : \E r \in chosen[a] : rows[a][r].entity = e
  BY ONLY <1>9
<1>11. QED
  BY ONLY <1>6, <1>7, <1>10

(* The rows that for_each_changed reports. *)
Reported(a) ==
  IF ~tracked \/ snapshot = <<>> THEN DOMAIN rows[a]
  ELSE IF ~bumped THEN {}
  ELSE ChangedRows(a)

LEMMA ReportMeaning ==
  ASSUME ChangeInv
  PROVE  /\ ForEachChanged \in Seq(Entity)
         /\ OncePerPlace(ForEachChanged)
         /\ \A e : e \in ToSet(ForEachChanged) <=>
              \E a \in Archetype : \E r \in Reported(a) : rows[a][r].entity = e
<1>1. Sound(rows)
  BY DEF ChangeInv
<1>2. CASE ~tracked \/ snapshot = <<>>
  <2>1. PICK lists, chosen : /\ lists = [a \in Archetype |-> EntitiesIn(a)]
                             /\ chosen = [a \in Archetype |-> DOMAIN rows[a]]
    OBVIOUS
  <2>2. \A a \in Archetype : ListsRows(lists[a], a, chosen[a]) /\ chosen[a] \subseteq DOMAIN rows[a]
    BY <1>1, <2>1, EntitiesList
  <2>3. lists = [a \in Archetype |-> lists[a]]
    BY <2>1
  <2>4. ForEachChanged = FlattenSeq(lists)
    BY <1>2, <2>1 DEF ForEachChanged
  <2>5. \A a \in Archetype : chosen[a] = Reported(a)
    BY <1>2, <2>1 DEF Reported
  <2>6. QED
    BY <1>1, <2>2, <2>3, <2>4, <2>5, ListsTogether
<1>3. CASE ~(~tracked \/ snapshot = <<>>) /\ ~bumped
  <2>1. ForEachChanged = <<>> /\ \A a \in Archetype : Reported(a) = {}
    BY <1>3 DEF ForEachChanged, Reported
  <2>2. <<>> \in Seq(Entity) /\ Len(<<>>) = 0 /\ ToSet(<<>>) = {}
    BY DEF ToSet
  <2>3. OncePerPlace(<<>>)
    BY <2>2 DEF OncePerPlace
  <2>4. QED
    BY <2>1, <2>2, <2>3
<1>4. CASE ~(~tracked \/ snapshot = <<>>) /\ bumped
  <2>1. PICK lists, chosen : /\ lists = [a \in Archetype |-> Visited(a, ChangedRows(a))]
                             /\ chosen = [a \in Archetype |-> ChangedRows(a)]
    OBVIOUS
  <2>2. \A a \in Archetype : ChangedRows(a) \subseteq DOMAIN rows[a]
    BY DEF ChangedRows
  <2>3. \A a \in Archetype : ListsRows(lists[a], a, chosen[a]) /\ chosen[a] \subseteq DOMAIN rows[a]
    BY <1>1, <2>1, <2>2, VisitedList
  <2>4. lists = [a \in Archetype |-> lists[a]]
    BY <2>1
  <2>5. ForEachChanged = FlattenSeq(lists)
    BY <1>4, <2>1 DEF ForEachChanged
  <2>6. \A a \in Archetype : chosen[a] = Reported(a)
    BY <1>4, <2>1 DEF Reported
  <2>7. QED
    BY <1>1, <2>3, <2>4, <2>5, <2>6, ListsTogether
<1>5. QED
  BY <1>2, <1>3, <1>4

-----------------------------------------------------------------------------
(* Offsets.                                                                *)

Shorter(s, t, n) == \A b \in 1 .. n : Len(s[b]) \in Nat /\ Len(t[b]) \in Nat /\ Len(s[b]) <= Len(t[b])

(* A part begins no later if what is before it is no longer. *)
LEMMA StartsOrder ==
  ASSUME NEW n \in Nat, NEW l \in Nat, NEW m \in Nat, n <= l, n <= m,
         NEW s, NEW t, Shorter(s, t, n), NEW f, Starts(f, s, l), NEW g, Starts(g, t, m)
  PROVE  f[n + 1] \in Nat /\ g[n + 1] \in Nat /\ f[n + 1] <= g[n + 1]
<1> DEFINE Fine(k) == f[k + 1] <= g[k + 1]
           Good == {k \in 0 .. n : Fine(k)}
<1>1. /\ f \in [1 .. l + 1 -> Nat] /\ f[1] = 0 /\ \A b \in 1 .. l : f[b + 1] = f[b] + Len(s[b])
      /\ g \in [1 .. m + 1 -> Nat] /\ g[1] = 0 /\ \A b \in 1 .. m : g[b + 1] = g[b] + Len(t[b])
  BY DEF Starts
<1>2. 0 \in Good
  <2>1. 0 + 1 = 1 /\ 0 \in 0 .. n
    OBVIOUS
  <2>2. QED
    BY <1>1, <2>1
<1>3. PICK k \in Good : \A j \in Good : j <= k
  <2>1. Good \in SUBSET (0 .. n) /\ Good # {}
    BY <1>2
  <2> HIDE DEF Good
  <2>2. QED
    BY <2>1, GreatestIndex
<1>4. k \in Nat /\ k <= n /\ Fine(k)
  OBVIOUS
<1>5. ASSUME k < n PROVE FALSE
  <2>1. PICK p : p = k + 1
    OBVIOUS
  <2>2. /\ p \in 1 .. n /\ p \in 1 .. l /\ p \in 1 .. m /\ p \in 0 .. n
        /\ p \in 1 .. l + 1 /\ p \in 1 .. m + 1 /\ ~ (p <= k)
    BY <1>4, <1>5, <2>1
  <2>3. f[p + 1] = f[p] + Len(s[p]) /\ g[p + 1] = g[p] + Len(t[p])
    BY <1>1, <2>2
  <2>4. f[p] \in Nat /\ g[p] \in Nat /\ f[p] <= g[p]
    BY <1>1, <1>4, <2>1, <2>2
  <2>5. Len(s[p]) \in Nat /\ Len(t[p]) \in Nat /\ Len(s[p]) <= Len(t[p])
    BY <2>2 DEF Shorter
  <2>6. Fine(p)
    BY <2>3, <2>4, <2>5
  <2>7. p \in Good
    BY <2>2, <2>6
  <2>8. QED
    BY <1>3, <2>2, <2>7
<1>6. k = n
  BY <1>4, <1>5
<1>7. n + 1 \in 1 .. l + 1 /\ n + 1 \in 1 .. m + 1
  OBVIOUS
<1>8. QED
  BY <1>1, <1>4, <1>6, <1>7

(* Nothing begins behind the last part that is not empty. *)
LEMMA StartsEnd ==
  ASSUME NEW n \in Nat, NEW a \in 0 .. n, NEW s, NEW f, Starts(f, s, n),
         \A b \in 1 .. n : b > a => Len(s[b]) = 0
  PROVE  f[n + 1] = f[a + 1]
<1> DEFINE Fine(k) == f[k + 1] = f[a + 1]
           Good == {k \in 0 .. n : k >= a /\ Fine(k)}
<1>1. f \in [1 .. n + 1 -> Nat] /\ \A b \in 1 .. n : f[b + 1] = f[b] + Len(s[b])
  BY DEF Starts
<1>2. a \in Good
  OBVIOUS
<1>3. PICK k \in Good : \A j \in Good : j <= k
  <2>1. Good \in SUBSET (0 .. n) /\ Good # {}
    BY <1>2
  <2> HIDE DEF Good
  <2>2. QED
    BY <2>1, GreatestIndex
<1>4. k \in Nat /\ k <= n /\ k >= a /\ Fine(k)
  OBVIOUS
<1>5. ASSUME k < n PROVE FALSE
  <2>1. PICK p : p = k + 1
    OBVIOUS
  <2>2. p \in 1 .. n /\ p \in 0 .. n /\ p \in 1 .. n + 1 /\ p > a /\ p >= a /\ ~ (p <= k)
    BY <1>4, <1>5, <2>1
  <2>3. f[p + 1] = f[p] + 0 /\ f[p] \in Nat
    BY <1>1, <2>2
  <2>4. Fine(p)
    BY <1>4, <2>1, <2>3
  <2>5. p \in Good
    BY <2>2, <2>4
  <2>6. QED
    BY <1>3, <2>2, <2>5
<1>6. k = n
  BY <1>4, <1>5
<1>7. QED
  BY <1>4, <1>6

(* The bytes of a column: one value per row, or none.                      *)
LEMMA BytesMeaning ==
  ASSUME NEW s \in Seq(RowType)
  PROVE  /\ Bytes(s) \in Seq(Value) /\ Len(s) \in Nat /\ Len(Bytes(s)) \in Nat
         /\ sized => Len(Bytes(s)) = Len(s) /\ \A r \in 1 .. Len(s) : Bytes(s)[r] = s[r].value
         /\ ~sized => Len(Bytes(s)) = 0
<1>1. PICK m : m = Len(s)
  OBVIOUS
<1>2. m \in Nat /\ DOMAIN s = 1 .. m /\ \A r \in 1 .. m : s[r] \in RowType
  BY <1>1
<1>3. CASE sized
  <2>1. Bytes(s) = [r \in 1 .. m |-> s[r].value]
    BY <1>2, <1>3 DEF Bytes
  <2>2. \A r \in 1 .. m : s[r].value \in Value
    BY <1>2, <1>3 DEF RowType, ValueOfT
  <2>3. Bytes(s) \in Seq(Value) /\ Len(Bytes(s)) = m
    BY ONLY <1>2, <2>1, <2>2
  <2>4. \A r \in 1 .. m : Bytes(s)[r] = s[r].value
    BY <2>1
  <2>5. QED
    BY <1>1, <1>2, <1>3, <2>3, <2>4
<1>4. CASE ~sized
  <2>1. Bytes(s) = <<>>
    BY <1>4 DEF Bytes
  <2>2. <<>> \in Seq(Value) /\ Len(<<>>) = 0
    OBVIOUS
  <2>3. QED
    BY <1>1, <1>2, <1>4, <2>1, <2>2
<1>5. QED
  BY <1>3, <1>4

Preceding(table, n) == table = [b \in 1 .. n |-> Bytes(rows[b])]

(* The offset of an archetype is where its bytes begin among all bytes.    *)
LEMMA OffsetMeaning ==
  ASSUME Sound(rows), NEW a \in Archetype, NEW n, n = a - 1,
         NEW table, Preceding(table, n)
  PROVE  /\ a \in Nat /\ n \in Nat /\ n <= Archetypes /\ n + 1 = a
         /\ \A b \in 1 .. n : /\ b \in Archetype /\ Len(table[b]) \in Nat
                               /\ Len(table[b]) = IF sized THEN Len(rows[b]) ELSE 0
         /\ \E off : Starts(off, table, n) /\ Offset(a) = off[n + 1] /\ off[n + 1] \in Nat
         /\ ~sized => Offset(a) = 0
<1>1. a \in Nat /\ n \in Nat /\ n <= Archetypes /\ n + 1 = a /\ \A b \in 1 .. n : b \in Archetype
  BY ArchetypesAssumption DEF Archetype
<1>2. ASSUME NEW b \in 1 .. n
      PROVE  /\ table[b] \in Seq(Value) /\ Len(table[b]) \in Nat
             /\ Len(table[b]) = IF sized THEN Len(rows[b]) ELSE 0
  <2>1. b \in Archetype /\ table[b] = Bytes(rows[b])
    BY <1>1 DEF Preceding
  <2>2. rows[b] \in Seq(RowType)
    BY <2>1 DEF Sound
  <2>3. QED
    BY <2>1, <2>2, BytesMeaning
<1>3. table \in [1 .. n -> Seq(Value)]
  BY <1>2 DEF Preceding
<1>4. PICK off : Starts(off, table, n) /\ Concatenates(FlattenSeq(table), off, table, n)
  BY ONLY <1>1, <1>3, FlattenProperties
<1>5. off[n + 1] \in Nat
  <2>1. n + 1 \in 1 .. n + 1
    BY <1>1
  <2>2. QED
    BY <1>4, <2>1 DEF Starts
<1>6. Offset(a) = Len(FlattenSeq(table))
  BY DEF Offset, Preceding
<1>7. Offset(a) = off[n + 1]
  BY <1>4, <1>6 DEF Concatenates
<1>8. ASSUME ~sized PROVE off[n + 1] = 0
  <2>1. 0 \in 0 .. n /\ \A b \in 1 .. n : b > 0 => Len(table[b]) = 0
    BY <1>1, <1>2, <1>8
  <2>2. off[n + 1] = off[0 + 1]
    BY ONLY <1>1, <1>4, <2>1, StartsEnd
  <2>3. QED
    BY <1>4, <2>2 DEF Starts
<1>9. QED
  BY <1>1, <1>2, <1>4, <1>5, <1>7, <1>8

(* The frozen values, archetype after archetype.                           *)
Values(x) == [a \in Archetype |-> Bytes(x[a])]

LEMMA FrozenMeaning ==
  ASSUME NEW x, snapshot[1] = x, Sound(x)
  PROVE  /\ Len(Frozen) \in Nat
         /\ \A a \in Archetype : /\ Len(Values(x)[a]) \in Nat /\ Len(x[a]) \in Nat
                                 /\ Len(Values(x)[a]) = IF sized THEN Len(x[a]) ELSE 0
                                 /\ sized => \A r \in 1 .. Len(x[a]) : Values(x)[a][r] = x[a][r].value
         /\ \E off : /\ Starts(off, Values(x), Archetypes)
                     /\ Concatenates(Frozen, off, Values(x), Archetypes)
<1>1. Archetypes \in Nat /\ Archetype = 1 .. Archetypes
  BY ArchetypesAssumption DEF Archetype
<1>2. PICK n, table : n = Archetypes /\ table = Values(x)
  OBVIOUS
<1>3. ASSUME NEW a \in Archetype
      PROVE  /\ table[a] \in Seq(Value) /\ Len(table[a]) \in Nat /\ Len(x[a]) \in Nat
             /\ Len(table[a]) = IF sized THEN Len(x[a]) ELSE 0
             /\ sized => \A r \in 1 .. Len(x[a]) : table[a][r] = x[a][r].value
  <2>1. x[a] \in Seq(RowType) /\ table[a] = Bytes(x[a])
    BY <1>2 DEF Sound, Values
  <2>2. QED
    BY <2>1, BytesMeaning
<1>4. table \in [1 .. n -> Seq(Value)]
  <2>1. table = [a \in 1 .. n |-> table[a]]
    BY <1>1, <1>2 DEF Values
  <2>2. QED
    BY <1>1, <1>2, <1>3, <2>1
<1>5. Frozen = FlattenSeq(table)
  BY <1>2 DEF Frozen, Values
<1>6. FlattenSeq(table) \in Seq(Value) /\ \E off : Starts(off, table, n) /\ Concatenates(FlattenSeq(table), off, table, n)
  <2>1. n \in Nat
    BY <1>1, <1>2
  <2>2. QED
    BY ONLY <1>4, <2>1, FlattenProperties
<1>7. QED
  BY <1>2, <1>3, <1>5, <1>6

-----------------------------------------------------------------------------
(* The properties.                                                         *)

LEMMA DifferingRow ==
  ASSUME ChangeInv, NEW e \in Entity, IsChanged(e), NEW at \in Where(e), tracked, snapshot # <<>>
  PROVE  bumped /\ at.row \in ChangedRows(at.arch)
<1>1. PICK a, r : a = at.arch /\ r = at.row
  OBVIOUS
<1>2. Sound(rows) /\ Sound(snapshot[1])
  BY DEF ChangeInv, SnapshotInv
<1>3. a \in Archetype /\ r \in 1 .. Len(rows[a]) /\ rows[a][r].entity = e
  BY <1>1, <1>2, WhereMeaning
<1>4. \A b \in Where(e) : b.arch = a /\ b.row = r
  <2>1. SUFFICES ASSUME NEW b \in Where(e) PROVE b.arch = a /\ b.row = r
    OBVIOUS
  <2>2. PICK i, j : i = b.arch /\ j = b.row
    OBVIOUS
  <2>3. i \in Archetype /\ j \in 1 .. Len(rows[i]) /\ rows[i][j].entity = e
    BY <1>2, <2>2, WhereMeaning
  <2>4. OnePlace(rows)
    BY <1>2 DEF Sound
  <2>5. i = a /\ j = r
    BY ONLY <1>3, <2>3, <2>4, SamePlace
  <2>6. QED
    BY <2>2, <2>5
<1>5. bumped /\ (End(a, r) > Len(Frozen) \/ Differs(a, r))
  BY <1>4 DEF IsChanged
<1>6. Offset(a) \in Nat /\ Len(Frozen) \in Nat
  <2>1. PICK n, table, x : n = a - 1 /\ Preceding(table, n) /\ x = snapshot[1]
    BY DEF Preceding
  <2>2. Offset(a) \in Nat
    BY <1>2, <1>3, <2>1, OffsetMeaning
  <2>3. Len(Frozen) \in Nat
    BY <1>2, <2>1, FrozenMeaning
  <2>4. QED
    BY <2>2, <2>3
<1>7. DOMAIN rows[a] = 1 .. Len(rows[a]) /\ Len(rows[a]) \in Nat
  BY <1>2, <1>3, EntitiesMeaning
<1>8. CASE Offset(a) + Len(Bytes(rows[a])) > Len(Frozen)
  BY <1>1, <1>3, <1>5, <1>7, <1>8 DEF ChangedRows
<1>9. CASE ~(Offset(a) + Len(Bytes(rows[a])) > Len(Frozen))
  <2>1. ~(End(a, r) > Len(Frozen))
    <3>1. rows[a] \in Seq(RowType)
      BY <1>2, <1>3 DEF Sound
    <3>2. Len(Bytes(rows[a])) = IF sized THEN Len(rows[a]) ELSE 0
      BY <3>1, BytesMeaning
    <3>3. QED
      BY <1>3, <1>6, <1>7, <1>9, <3>2 DEF End
  <2>2. QED
    BY <1>1, <1>3, <1>5, <1>7, <1>9, <2>1 DEF ChangedRows
<1>10. QED
  BY <1>8, <1>9

LEMMA ReadersAgree == ChangeInv => ChangedAgree
<1> SUFFICES ASSUME ChangeInv PROVE ChangedAgree
  OBVIOUS
<1>1. Sound(rows)
  BY DEF ChangeInv
<1>2. PICK list : list = ForEachChanged
  OBVIOUS
<1>3. /\ list \in Seq(Entity) /\ OncePerPlace(list)
      /\ \A e : e \in ToSet(list) <=> \E a \in Archetype : \E r \in Reported(a) : rows[a][r].entity = e
  BY <1>2, ReportMeaning
<1>4. Cardinality(ToSet(list)) = Len(list)
  BY <1>3, DistinctLength
<1>5. \A a \in Archetype : Reported(a) \subseteq DOMAIN rows[a] /\ DOMAIN rows[a] = 1 .. Len(rows[a])
  BY <1>1, EntitiesMeaning DEF Reported, ChangedRows
<1>6. \A e \in ToSet(list) : Holds(e)
  BY <1>1, <1>3, <1>5, WhereMeaning DEF At
<1>7. ASSUME NEW e \in Entity, Holds(e), IsChanged(e) PROVE e \in ToSet(list)
  <2>1. PICK at \in Where(e) : TRUE
    BY <1>7 DEF Holds
  <2>2. /\ at.arch \in Archetype /\ at.row \in 1 .. Len(rows[at.arch])
        /\ rows[at.arch][at.row].entity = e
    BY <1>1, <2>1, WhereMeaning
  <2>3. at.row \in Reported(at.arch)
    <3>1. CASE ~tracked \/ snapshot = <<>>
      BY <1>5, <2>2, <3>1 DEF Reported
    <3>2. CASE tracked /\ snapshot # <<>>
      BY <1>7, <3>2, DifferingRow DEF Reported
    <3>3. QED
      BY <3>1, <3>2
  <2>4. QED
    BY <1>3, <2>2, <2>3
<1>8. QED
  BY <1>2, <1>4, <1>6, <1>7 DEF ChangedAgree

(* What the readers compare while every row is in its place.               *)
LEMMA UnmovedRows ==
  ASSUME ChangeInv, SnapshotInv, SameRows, NEW a \in Archetype
  PROVE  /\ Len(rows[a]) = Len(snapshot[1][a])
         /\ \A r \in 1 .. Len(rows[a]) :
              /\ rows[a][r].entity = snapshot[1][a][r].entity
              /\ ~(End(a, r) > Len(Frozen))
              /\ Differs(a, r) <=> rows[a][r] # snapshot[1][a][r]
         /\ ChangedRows(a) = {r \in 1 .. Len(rows[a]) : rows[a][r] # snapshot[1][a][r]}
<1>1. PICK x : x = snapshot[1]
  OBVIOUS
<1>2. Sound(rows) /\ Sound(x)
  BY <1>1 DEF ChangeInv, SnapshotInv
<1>3. ASSUME NEW b \in Archetype
      PROVE  /\ Len(rows[b]) = Len(x[b]) /\ Len(rows[b]) \in Nat /\ DOMAIN rows[b] = 1 .. Len(rows[b])
             /\ \A r \in 1 .. Len(rows[b]) : /\ rows[b][r].entity = x[b][r].entity
                                             /\ rows[b][r] \in RowType /\ x[b][r] \in RowType
  <2>1. PICK m, n : m = Len(rows[b]) /\ n = Len(x[b])
    OBVIOUS
  <2>2. /\ m \in Nat /\ DOMAIN rows[b] = 1 .. m /\ Len(EntitiesIn(b)) = m /\ EntitiesIn(b) \in Seq(Entity)
        /\ \A r \in 1 .. m : EntitiesIn(b)[r] = rows[b][r].entity /\ rows[b][r] \in RowType
    BY <1>2, <2>1, EntitiesMeaning
  <2>3. x[b] \in Seq(RowType) /\ n \in Nat /\ DOMAIN x[b] = 1 .. n /\ \A r \in 1 .. n : x[b][r] \in RowType
    BY <1>2, <2>1 DEF Sound
  <2>4. EntitiesIn(b) = [r \in 1 .. n |-> x[b][r].entity]
    BY <1>1, <2>3 DEF SameRows
  <2>5. m = n
    <3>1. DOMAIN EntitiesIn(b) = 1 .. m
      BY ONLY <2>2
    <3>2. DOMAIN EntitiesIn(b) = 1 .. n
      BY ONLY <2>4
    <3>3. 1 .. m = 1 .. n
      BY ONLY <3>1, <3>2
    <3>4. QED
      BY ONLY <2>2, <2>3, <3>3
  <2>6. \A r \in 1 .. m : rows[b][r].entity = x[b][r].entity
    BY <2>2, <2>4, <2>5
  <2>7. QED
    BY <2>1, <2>2, <2>3, <2>5, <2>6
<1>4. PICK n, table, len : n = a - 1 /\ Preceding(table, n) /\ len = Len(rows[a])
  BY DEF Preceding
<1>5. /\ a \in Nat /\ n \in Nat /\ n <= Archetypes /\ n + 1 = a
      /\ \A b \in 1 .. n : /\ b \in Archetype /\ Len(table[b]) \in Nat
                            /\ Len(table[b]) = IF sized THEN Len(rows[b]) ELSE 0
      /\ ~sized => Offset(a) = 0
  BY <1>2, <1>4, OffsetMeaning
<1>6. PICK f : Starts(f, table, n) /\ Offset(a) = f[n + 1] /\ f[n + 1] \in Nat
  BY <1>2, <1>4, OffsetMeaning
<1>7. PICK values : values = Values(x)
  OBVIOUS
<1>8. /\ Len(Frozen) \in Nat
      /\ \A b \in Archetype : /\ Len(values[b]) \in Nat /\ Len(x[b]) \in Nat
                              /\ Len(values[b]) = IF sized THEN Len(x[b]) ELSE 0
                              /\ sized => \A r \in 1 .. Len(x[b]) : values[b][r] = x[b][r].value
  BY <1>1, <1>2, <1>7, FrozenMeaning
<1>9. PICK g : Starts(g, values, Archetypes) /\ Concatenates(Frozen, g, values, Archetypes)
  BY <1>1, <1>2, <1>7, FrozenMeaning
<1>10. Offset(a) = g[a]
  <2>1. Shorter(table, values, n) /\ Shorter(values, table, n)
    BY <1>3, <1>5, <1>8 DEF Shorter
  <2>2. Archetypes \in Nat
    BY ArchetypesAssumption
  <2>3. n <= n
    BY <1>5
  <2>4. f[n + 1] \in Nat /\ g[n + 1] \in Nat /\ f[n + 1] <= g[n + 1] /\ g[n + 1] <= f[n + 1]
    BY <1>5, <1>6, <1>9, <2>1, <2>2, <2>3, StartsOrder
  <2>5. QED
    BY <1>5, <1>6, <2>4
<1>11. Archetype = 1 .. Archetypes
  BY DEF Archetype
<1>12. len \in Nat /\ Len(values[a]) = (IF sized THEN len ELSE 0) /\ Offset(a) \in Nat
  BY <1>3, <1>4, <1>6, <1>8
<1>13. ASSUME NEW r \in 1 .. len
       PROVE  /\ rows[a][r].entity = x[a][r].entity
              /\ ~(End(a, r) > Len(Frozen))
              /\ Differs(a, r) <=> rows[a][r] # x[a][r]
  <2>1. rows[a][r].entity = x[a][r].entity /\ rows[a][r] \in RowType /\ x[a][r] \in RowType
    BY <1>3, <1>4
  <2>2. rows[a][r] = x[a][r] <=> rows[a][r].value = x[a][r].value
    BY <2>1 DEF RowType
  <2>3. CASE sized
    <3>1. Offset(a) + r \in 1 .. Len(Frozen) /\ Frozen[Offset(a) + r] = values[a][r]
      BY <1>9, <1>10, <1>11, <1>12, <2>3 DEF Concatenates
    <3>2. values[a][r] = x[a][r].value
      BY <1>3, <1>4, <1>8, <2>3
    <3>3. QED
      BY <1>8, <1>12, <2>1, <2>2, <2>3, <3>1, <3>2 DEF Differs, End
  <2>4. CASE ~sized
    <3>1. ~(End(a, r) > Len(Frozen))
      BY <1>5, <1>8, <2>4 DEF End
    <3>2. rows[a][r].value = x[a][r].value
      BY <2>1, <2>4 DEF RowType, ValueOfT
    <3>3. QED
      BY <2>1, <2>2, <2>4, <3>1, <3>2 DEF Differs
  <2>5. QED
    BY <2>3, <2>4
<1>14. ChangedRows(a) = {r \in 1 .. len : rows[a][r] # x[a][r]}
  <2>1. DOMAIN rows[a] = 1 .. len
    BY <1>3, <1>4
  <2>2. CASE len = 0
    BY <2>1, <2>2 DEF ChangedRows
  <2>3. CASE len # 0
    <3>1. len \in 1 .. len
      BY <1>12, <2>3
    <3>2. ~(End(a, len) > Len(Frozen))
      BY <1>13, <3>1
    <3>3. Len(Bytes(rows[a])) = IF sized THEN len ELSE 0
      BY <1>2, <1>4, BytesMeaning DEF Sound
    <3>4. ~(Offset(a) + Len(Bytes(rows[a])) > Len(Frozen))
      BY <3>2, <3>3 DEF End
    <3>5. ChangedRows(a) = {r \in 1 .. len : Differs(a, r)}
      BY <2>1, <3>4 DEF ChangedRows
    <3>6. QED
      BY <1>13, <3>5
  <2>4. QED
    BY <2>2, <2>3
<1>15. QED
  BY <1>1, <1>3, <1>4, <1>13, <1>14

LEMMA RowIsChanged ==
  ASSUME ChangeInv, bumped, NEW a \in Archetype, NEW r \in 1 .. Len(rows[a]),
         End(a, r) > Len(Frozen) \/ Differs(a, r)
  PROVE  IsChanged(rows[a][r].entity)
<1>1. PICK at : at = [arch |-> a, row |-> r]
  OBVIOUS
<1>2. Sound(rows)
  BY DEF ChangeInv
<1>3. at \in Where(rows[a][r].entity)
  BY <1>1, <1>2, WhereMeaning
<1>4. at.arch = a /\ at.row = r
  BY <1>1
<1>5. QED
  BY <1>3, <1>4 DEF IsChanged

(* An entity that is_changed names is in a row that for_each_changed takes *)
(* for changed.                                                            *)
LEMMA ChangedIsReported ==
  ASSUME ChangeInv, NEW e \in Entity, IsChanged(e), tracked, snapshot # <<>>
  PROVE  /\ bumped
         /\ \E a \in Archetype : \E r \in ChangedRows(a) : rows[a][r].entity = e
<1>1. PICK at \in Where(e) : TRUE
  BY DEF IsChanged
<1>2. Sound(rows)
  BY DEF ChangeInv
<1>3. at.arch \in Archetype /\ rows[at.arch][at.row].entity = e
  BY <1>1, <1>2, WhereMeaning
<1>4. bumped /\ at.row \in ChangedRows(at.arch)
  BY <1>1, DifferingRow
<1>5. QED
  BY <1>3, <1>4

LEMMA DifferingMeaning ==
  ASSUME ChangeInv, SnapshotInv, SameRows, NEW e
  PROVE  e \in Differing <=> \E a \in Archetype : \E r \in ChangedRows(a) : rows[a][r].entity = e
<1>1. Sound(rows)
  BY DEF ChangeInv
<1>2. \A a \in Archetype : DOMAIN rows[a] = 1 .. Len(rows[a])
  BY <1>1, EntitiesMeaning
<1>3. \A a \in Archetype : ChangedRows(a) = {r \in 1 .. Len(rows[a]) : rows[a][r] # snapshot[1][a][r]}
  BY UnmovedRows
<1>4. ASSUME e \in Differing PROVE \E a \in Archetype : \E r \in ChangedRows(a) : rows[a][r].entity = e
  <2>1. PICK q \in Archetype \X (1 .. Cardinality(Entity)) :
          /\ q[2] \in DOMAIN rows[q[1]] /\ rows[q[1]][q[2]] # snapshot[1][q[1]][q[2]]
          /\ rows[q[1]][q[2]].entity = e
    BY <1>4 DEF Differing
  <2>2. PICK a, r : a = q[1] /\ r = q[2]
    OBVIOUS
  <2>3. a \in Archetype /\ r \in 1 .. Len(rows[a]) /\ rows[a][r] # snapshot[1][a][r] /\ rows[a][r].entity = e
    BY <1>2, <2>1, <2>2
  <2>4. QED
    BY <1>3, <2>3
<1>5. ASSUME NEW a \in Archetype, NEW r \in ChangedRows(a), rows[a][r].entity = e PROVE e \in Differing
  <2>1. r \in 1 .. Len(rows[a]) /\ rows[a][r] # snapshot[1][a][r]
    BY <1>3, <1>5
  <2>2. r \in 1 .. Cardinality(Entity)
    BY <1>1, <2>1, FewRows
  <2>3. PICK q : q = <<a, r>>
    OBVIOUS
  <2>4. q \in Archetype \X (1 .. Cardinality(Entity)) /\ q[1] = a /\ q[2] = r
    BY <2>2, <2>3
  <2>5. q[2] \in DOMAIN rows[q[1]] /\ rows[q[1]][q[2]] # snapshot[1][q[1]][q[2]]
    BY <1>2, <2>1, <2>4
  <2>6. rows[q[1]][q[2]].entity = e
    BY <1>5, <2>4
  <2>7. QED
    BY <2>4, <2>5, <2>6 DEF Differing
<1>6. QED
  BY <1>4, <1>5

LEMMA ReadersExact == ChangeInv => UnmovedExact
<1> SUFFICES ASSUME ChangeInv, snapshot # <<>>, SameRows
             PROVE  /\ ToSet(ForEachChanged) = IF bumped THEN Differing ELSE {}
                    /\ {e \in Entity : IsChanged(e)} = ToSet(ForEachChanged)
  BY DEF UnmovedExact
<1>1. SnapshotInv /\ tracked /\ bumped \in BOOLEAN
  BY DEF ChangeInv, SnapshotInv
<1>2. PICK list : list = ForEachChanged
  OBVIOUS
<1>3. /\ list \in Seq(Entity)
      /\ \A e : e \in ToSet(list) <=> \E a \in Archetype : \E r \in Reported(a) : rows[a][r].entity = e
  BY <1>2, ReportMeaning
<1>4. \A a \in Archetype : Reported(a) = IF bumped THEN ChangedRows(a) ELSE {}
  BY <1>1 DEF Reported
<1>5. ToSet(list) \subseteq Entity
  BY <1>3 DEF ToSet
<1>6. ToSet(list) = IF bumped THEN Differing ELSE {}
  <2>1. CASE bumped
    <3>1. \A e : e \in ToSet(list) <=> e \in Differing
      BY <1>1, <1>3, <1>4, <2>1, DifferingMeaning
    <3>2. QED
      BY <2>1, <3>1
  <2>2. CASE ~bumped
    BY <1>3, <1>4, <2>2
  <2>3. QED
    BY <2>1, <2>2
<1>7. ASSUME NEW e \in Entity, IsChanged(e) PROVE e \in ToSet(list)
  BY <1>1, <1>3, <1>4, <1>7, ChangedIsReported
<1>8. ASSUME NEW e \in ToSet(list) PROVE IsChanged(e)
  <2>1. bumped
    BY <1>3, <1>4, <1>8
  <2>2. PICK a \in Archetype : \E r \in ChangedRows(a) : rows[a][r].entity = e
    BY <1>3, <1>4, <1>8, <2>1
  <2>3. PICK r \in ChangedRows(a) : rows[a][r].entity = e
    BY <2>2
  <2>4. r \in 1 .. Len(rows[a]) /\ Differs(a, r)
    BY <1>1, <2>3, UnmovedRows
  <2>5. QED
    BY <2>1, <2>3, <2>4, RowIsChanged
<1>9. QED
  BY <1>2, <1>5, <1>6, <1>7, <1>8

LEMMA ArrivedMeaning ==
  ASSUME ChangeInv, SnapshotInv, NEW e \in Arrived
  PROVE  /\ \E a \in Archetype : \E r \in 1 .. Len(rows[a]) : rows[a][r].entity = e
         /\ ~At(snapshot[1], e)
<1>1. PICK x : x = snapshot[1]
  OBVIOUS
<1>2. Sound(rows) /\ Sound(x)
  BY <1>1 DEF ChangeInv, SnapshotInv
<1>3. PICK a \in Archetype : e \in ToSet(EntitiesIn(a))
  BY DEF Arrived
<1>4. PICK r \in DOMAIN rows[a] : rows[a][r].entity = e
  BY <1>2, <1>3, EntitiesList DEF ListsRows
<1>5. r \in 1 .. Len(rows[a])
  BY <1>2, EntitiesMeaning
<1>6. \A b \in Archetype : e \notin {row.entity : row \in ToSet(x[b])}
  BY <1>1 DEF Arrived
<1>7. ASSUME NEW b \in Archetype, NEW q \in 1 .. Len(x[b]) PROVE x[b][q].entity # e
  <2>1. PICK s, row : s = x[b] /\ row = s[q]
    OBVIOUS
  <2>2. s \in Seq(RowType) /\ q \in DOMAIN s
    BY <1>2, <2>1 DEF Sound
  <2>3. row \in ToSet(s)
    BY <2>1, <2>2 DEF ToSet
  <2>4. QED
    BY <1>6, <2>1, <2>3
<1>8. QED
  BY <1>1, <1>4, <1>5, <1>7 DEF At

(* Arrivals that come behind all frozen rows are beyond the snapshot.      *)
LEMMA ReadersSeeGrowth == ChangeInv => GrowthReported
<1> DEFINE AtTheEnd == \A a \in Archetype : rows[a] # snapshot[1][a] =>
                         \A b \in Archetype : b > a => snapshot[1][b] = <<>>
<1> SUFFICES ASSUME ChangeInv, sized, OnlyArrivals, AtTheEnd, NEW e \in Arrived
             PROVE  e \in ToSet(ForEachChanged) /\ IsChanged(e)
  BY DEF GrowthReported
<1>1. PICK x : x = snapshot[1]
  OBVIOUS
<1>2. SnapshotInv /\ snapshot # <<>> /\ tracked /\ bumped \in BOOLEAN
  BY DEF OnlyArrivals, ChangeInv, SnapshotInv
<1>3. Sound(rows) /\ Sound(x)
  BY <1>1, <1>2 DEF ChangeInv, SnapshotInv
<1>4. PICK a \in Archetype : \E r \in 1 .. Len(rows[a]) : rows[a][r].entity = e
  BY <1>2, ArrivedMeaning
<1>5. PICK r \in 1 .. Len(rows[a]) : rows[a][r].entity = e
  BY <1>4
<1>6. ~At(x, e)
  BY <1>1, <1>2, ArrivedMeaning
<1>7. bumped
  BY <1>1, <1>2, <1>5, <1>6, AtPlace DEF SnapshotInv
<1>8. \A b \in Archetype : /\ Len(rows[b]) \in Nat /\ Len(x[b]) \in Nat /\ Len(x[b]) <= Len(rows[b])
                           /\ \A q \in 1 .. Len(x[b]) : x[b][q] = rows[b][q]
  <2>1. SUFFICES ASSUME NEW b \in Archetype
                 PROVE  /\ Len(rows[b]) \in Nat /\ Len(x[b]) \in Nat /\ Len(x[b]) <= Len(rows[b])
                        /\ \A q \in 1 .. Len(x[b]) : x[b][q] = rows[b][q]
    OBVIOUS
  <2>2. PICK s, t : s = x[b] /\ t = rows[b]
    OBVIOUS
  <2>3. s \in Seq(RowType) /\ t \in Seq(RowType)
    BY <1>3, <2>2 DEF Sound
  <2>4. Len(s) <= Len(t) /\ SubSeq(s, 1, Len(s)) = SubSeq(t, 1, Len(s))
    BY <1>1, <2>2 DEF OnlyArrivals, IsPrefix
  <2>5. \A q \in 1 .. Len(s) : SubSeq(s, 1, Len(s))[q] = s[q] /\ SubSeq(t, 1, Len(s))[q] = t[q]
    BY ONLY <2>3, <2>4
  <2>6. QED
    BY <2>2, <2>3, <2>4, <2>5
<1>9. r > Len(x[a])
  <2>1. SUFFICES ASSUME r \in 1 .. Len(x[a]) PROVE FALSE
    BY <1>5, <1>8
  <2>2. x[a][r].entity = e
    BY <1>5, <1>8, <2>1
  <2>3. QED
    BY <1>6, <2>1, <2>2, AtPlace
<1>10. \A b \in Archetype : b > a => x[b] = <<>>
  <2>1. rows[a] # x[a]
    BY <1>5, <1>8, <1>9
  <2>2. QED
    BY <1>1, <2>1
<1>11. PICK n, table, values : /\ n = a - 1 /\ Preceding(table, n)
                               /\ values = Values(x)
  BY DEF Preceding
<1>12. /\ a \in Nat /\ n \in Nat /\ n <= Archetypes /\ n + 1 = a
       /\ \A b \in 1 .. n : b \in Archetype /\ Len(table[b]) = Len(rows[b])
  <2>1. sized
    OBVIOUS
  <2>2. QED
    BY ONLY <1>3, <1>4, <1>11, <2>1, OffsetMeaning
<1>13. PICK f : Starts(f, table, n) /\ Offset(a) = f[n + 1] /\ f[n + 1] \in Nat
  BY ONLY <1>3, <1>4, <1>11, OffsetMeaning
<1>14. Len(Frozen) \in Nat /\ \A b \in Archetype : Len(values[b]) = Len(x[b])
  BY <1>1, <1>3, <1>11, FrozenMeaning
<1>15. PICK g : Starts(g, values, Archetypes) /\ Concatenates(Frozen, g, values, Archetypes)
  BY <1>1, <1>3, <1>11, FrozenMeaning
<1>16. Archetypes \in Nat /\ Archetype = 1 .. Archetypes
  BY ArchetypesAssumption DEF Archetype
<1>17. g[n + 1] \in Nat /\ g[n + 1] <= f[n + 1]
  <2>1. Shorter(values, table, n)
    BY <1>8, <1>12, <1>14 DEF Shorter
  <2>2. n <= n
    BY <1>12
  <2>3. QED
    BY <1>12, <1>13, <1>15, <1>16, <2>1, <2>2, StartsOrder
<1>18. Len(Frozen) = g[a] + Len(x[a])
  <2>1. \A b \in 1 .. Archetypes : b > a => Len(values[b]) = 0
    BY <1>10, <1>14, <1>16
  <2>2. g[Archetypes + 1] = g[a + 1]
    BY <1>12, <1>15, <1>16, <2>1, StartsEnd
  <2>3. g[a + 1] = g[a] + Len(values[a])
    BY <1>15, <1>16 DEF Starts
  <2>4. QED
    BY <1>14, <1>15, <2>2, <2>3 DEF Concatenates
<1>19. End(a, r) > Len(Frozen) /\ Offset(a) + Len(Bytes(rows[a])) > Len(Frozen)
  <2>1. Offset(a) \in Nat /\ g[a] \in Nat /\ g[a] <= Offset(a)
    BY <1>12, <1>13, <1>17
  <2>2. r \in Nat /\ r <= Len(rows[a]) /\ Len(rows[a]) \in Nat /\ Len(x[a]) \in Nat
    BY <1>5, <1>8
  <2>3. Offset(a) + r > Len(Frozen) /\ Offset(a) + Len(rows[a]) > Len(Frozen)
    BY ONLY <1>9, <1>18, <2>1, <2>2
  <2>4. Len(Bytes(rows[a])) = Len(rows[a])
    BY <1>3, <1>4, BytesMeaning DEF Sound
  <2>5. QED
    BY <2>3, <2>4 DEF End
<1>20. IsChanged(e)
  BY <1>5, <1>7, <1>19, RowIsChanged
<1>21. r \in Reported(a)
  <2>1. r \in DOMAIN rows[a]
    BY <1>3, <1>5, EntitiesMeaning
  <2>2. QED
    BY <1>2, <1>7, <1>19, <2>1 DEF Reported, ChangedRows
<1>22. e \in ToSet(ForEachChanged)
  BY <1>5, <1>21, ReportMeaning
<1>23. QED
  BY <1>20, <1>22

-----------------------------------------------------------------------------
(* The two readers agree (World::for_each_changed, World::is_changed):     *)
(* for_each_changed visits each entity that has T at most once and misses  *)
(* none that is_changed takes for changed.                                 *)
THEOREM ChangedTheorem == Spec => []ChangedAgree
<1>1. ChangeInv => ChangedAgree
  BY ReadersAgree
<1>2. QED
  BY <1>1, ChangeInvariant, PTL

(* While the rows are those of the snapshot's entities, for_each_changed   *)
(* and is_changed report exactly the entities whose value differs, once a  *)
(* call that announces its writes was made, and none before.               *)
THEOREM UnmovedTheorem == Spec => []UnmovedExact
<1>1. ChangeInv => UnmovedExact
  BY ReadersExact
<1>2. QED
  BY <1>1, ChangeInvariant, PTL

(* Of a type with a size: when rows were only added since the snapshot,    *)
(* and none before a frozen one, for_each_changed and is_changed report    *)
(* every entity added.                                                     *)
THEOREM GrowthTheorem == Spec => []GrowthReported
<1>1. ChangeInv => GrowthReported
  BY ReadersSeeGrowth
<1>2. QED
  BY <1>1, ChangeInvariant, PTL
=============================================================================
