---------------------------- MODULE Concatenations ----------------------------
(***************************************************************************)
(* Lemmas on FlattenSeq, the concatenation of a sequence of sequences.  It *)
(* is defined by a recursive function inside a library module; here it is  *)
(* said where each part begins, what stands there, whose elements it has,  *)
(* and that it takes concatenations to concatenations.                     *)
(***************************************************************************)
EXTENDS Naturals, SequencesExt, FiniteSetTheorems, TLAPS

(* A set of indices that is not empty has a greatest one.  A least set     *)
(* without a greatest member would have a smaller one inside it.           *)
LEMMA GreatestIndex ==
  ASSUME NEW n \in Nat, NEW S \in SUBSET (0 .. n), S # {}
  PROVE  \E j \in S : \A k \in S : k <= j
<1> DEFINE Bad == {U \in SUBSET (0 .. n) : U # {} /\ \A j \in U : \E k \in U : ~ (k <= j)}
           Finite == FiniteSubsetsOf(0 .. n)
<1>1. Bad \subseteq Finite
  BY FS_Interval, FS_FiniteSubsetsOfFinite
<1>2. IsWellFoundedOn(StrictSubsetOrdering(0 .. n), Finite)
  BY FS_StrictSubsetOrderingWellFounded
<1>3. SUFFICES ASSUME Bad # {} PROVE FALSE
  OBVIOUS
<1> HIDE DEF Finite
<1>4. PICK U \in Bad : \A V \in Bad : ~ (<<V, U>> \in StrictSubsetOrdering(0 .. n))
  <2> HIDE DEF Bad
  <2>1. QED
    BY <1>1, <1>2, <1>3, WFMin
<1>5. PICK u \in U : TRUE
  OBVIOUS
<1>6. U \ {u} \notin Bad
  <2>1. U \ {u} \in SUBSET (0 .. n) /\ U \in SUBSET (0 .. n) /\ U \ {u} # U
    OBVIOUS
  <2>2. QED
    BY <1>4, <2>1 DEF StrictSubsetOrdering
<1>7. CASE U \ {u} = {}
  BY <1>5, <1>7
<1>8. CASE U \ {u} # {}
  <2>1. PICK m \in U \ {u} : \A k \in U \ {u} : k <= m
    BY <1>6, <1>8
  <2>2. u \in 0 .. n /\ \A k \in U : k \in 0 .. n
    OBVIOUS
  <2>3. CASE u <= m
    BY <2>1, <2>2, <2>3
  <2>4. CASE ~ (u <= m)
    BY <2>1, <2>2, <2>4
  <2>5. QED
    BY <2>3, <2>4
<1>9. QED
  BY <1>7, <1>8

-----------------------------------------------------------------------------
(* What FlattenSeq puts together.  Its recursive function is characterised  *)
(* by the greatest number of sequences for which it is what it should be.  *)

(* A recursive definition over 1 .. n that puts the sequences of a table   *)
(* behind each other.                                                      *)
Flattens(f, seqs, n) ==
  \A i \in 1 .. n : f[i] = IF i = 1 THEN seqs[i] ELSE f[i - 1] \o seqs[i]

(* There is a function that the recursion of FlattenSeq defines.           *)
LEMMA FlattenExists ==
  ASSUME NEW T, NEW n \in Nat, NEW seqs \in [1 .. n -> Seq(T)]
  PROVE  \E f \in [1 .. n -> Seq(T)] : Flattens(f, seqs, n)
<1> DEFINE Some(m) == \E f \in [1 .. m -> Seq(T)] : Flattens(f, seqs, m)
           Good == {m \in 0 .. n : Some(m)}
<1>1. 0 \in Good
  <2>1. PICK f : f = [i \in 1 .. 0 |-> seqs[i]]
    OBVIOUS
  <2>2. f \in [1 .. 0 -> Seq(T)] /\ Flattens(f, seqs, 0)
    BY <2>1 DEF Flattens
  <2>3. Some(0)
    BY <2>2
  <2> HIDE DEF Some
  <2>4. QED
    BY <2>3
<1>2. PICK m \in Good : \A k \in Good : k <= m
  <2> HIDE DEF Good
  <2>1. Good \in SUBSET (0 .. n) /\ Good # {}
    BY <1>1 DEF Good
  <2>2. QED
    BY <2>1, GreatestIndex
<1>3. ASSUME m < n PROVE FALSE
  <2>1. PICK f \in [1 .. m -> Seq(T)] : Flattens(f, seqs, m)
    OBVIOUS
  <2>2. PICK last : last = IF m = 0 THEN seqs[1] ELSE f[m] \o seqs[m + 1]
    OBVIOUS
  <2>3. last \in Seq(T)
    BY <1>3, <2>1, <2>2
  <2>4. PICK g : g = [i \in 1 .. m + 1 |-> IF i = m + 1 THEN last ELSE f[i]]
    OBVIOUS
  <2>5. g \in [1 .. m + 1 -> Seq(T)]
    BY <2>1, <2>3, <2>4
  <2>6. ASSUME NEW i \in 1 .. m + 1
        PROVE  g[i] = IF i = 1 THEN seqs[i] ELSE g[i - 1] \o seqs[i]
    <3>1. CASE i = m + 1
      BY <2>2, <2>4, <3>1
    <3>2. CASE i # m + 1
      <4>1. i \in 1 .. m /\ (i # 1 => i - 1 \in 1 .. m + 1 /\ i - 1 # m + 1)
        BY <3>2
      <4>2. g[i] = f[i] /\ (i # 1 => g[i - 1] = f[i - 1])
        BY <2>4, <3>2, <4>1
      <4>3. QED
        BY <2>1, <4>1, <4>2 DEF Flattens
    <3>3. QED
      BY <3>1, <3>2
  <2>7. Flattens(g, seqs, m + 1)
    BY <2>6 DEF Flattens
  <2>8. m + 1 \in Good
    BY <1>3, <2>5, <2>7
  <2>9. QED
    BY <1>2, <2>8
<1>4. m = n
  BY <1>3
<1>5. QED
  BY <1>2, <1>4

(* Where the sequences of a table start in the flattened one.              *)
Starts(off, seqs, n) ==
  /\ off \in [1 .. n + 1 -> Nat]
  /\ off[1] = 0
  /\ \A a \in 1 .. n : off[a + 1] = off[a] + Len(seqs[a])

(* s is the sequences of a table one behind the other.                     *)
Concatenates(s, off, seqs, n) ==
  /\ Len(s) = off[n + 1]
  /\ \A a \in 1 .. n : \A r \in 1 .. Len(seqs[a]) :
       off[a] + r \in 1 .. Len(s) /\ s[off[a] + r] = seqs[a][r]
  /\ \A k \in 1 .. Len(s) : \E a \in 1 .. n : \E r \in 1 .. Len(seqs[a]) : k = off[a] + r

(* Such starts exist: they are the sums of the lengths. *)
LEMMA StartsExist ==
  ASSUME NEW T, NEW n \in Nat, NEW seqs \in [1 .. n -> Seq(T)]
  PROVE  \E off : Starts(off, seqs, n)
<1> DEFINE Good == {m \in 0 .. n : \E off : Starts(off, seqs, m)}
<1>1. 0 \in Good
  <2>1. Starts([i \in 1 .. 1 |-> 0], seqs, 0)
    BY DEF Starts
  <2>2. QED
    BY <2>1
<1>2. PICK m \in Good : \A k \in Good : k <= m
  <2> HIDE DEF Good
  <2>1. Good \in SUBSET (0 .. n) /\ Good # {}
    BY <1>1 DEF Good
  <2>2. QED
    BY <2>1, GreatestIndex
<1>3. ASSUME m < n PROVE FALSE
  <2>1. PICK off : Starts(off, seqs, m)
    OBVIOUS
  <2>2. PICK next : next = off[m + 1] + Len(seqs[m + 1])
    OBVIOUS
  <2>3. next \in Nat
    BY <1>3, <2>1, <2>2 DEF Starts
  <2>4. PICK g : g = [i \in 1 .. m + 2 |-> IF i = m + 2 THEN next ELSE off[i]]
    OBVIOUS
  <2>5. g \in [1 .. m + 2 -> Nat] /\ g[1] = 0
    BY <2>1, <2>3, <2>4 DEF Starts
  <2>6. ASSUME NEW a \in 1 .. m + 1
        PROVE  g[a + 1] = g[a] + Len(seqs[a])
    <3>1. CASE a = m + 1
      BY <2>2, <2>4, <3>1
    <3>2. CASE a # m + 1
      <4>1. a \in 1 .. m /\ a + 1 # m + 2 /\ a # m + 2 /\ a + 1 \in 1 .. m + 2 /\ a \in 1 .. m + 2
        BY <3>2
      <4>2. off[a + 1] = off[a] + Len(seqs[a])
        BY <2>1, <4>1 DEF Starts
      <4>3. QED
        BY <2>4, <4>1, <4>2
    <3>3. QED
      BY <3>1, <3>2
  <2>7. Starts(g, seqs, m + 1)
    BY <2>5, <2>6 DEF Starts
  <2>8. m + 1 \in Good
    BY <1>3, <2>7
  <2>9. QED
    BY <1>2, <2>8
<1>4. m = n
  BY <1>3
<1>5. QED
  BY <1>2, <1>4

(* One more sequence behind. *)
LEMMA ConcatenatesStep ==
  ASSUME NEW T, NEW n \in Nat, NEW seqs \in [1 .. n -> Seq(T)], NEW off, Starts(off, seqs, n),
         NEW m \in Nat, NEW p \in Nat, p = m + 1, p <= n,
         NEW s \in Seq(T), Concatenates(s, off, seqs, m)
  PROVE  Concatenates(s \o seqs[p], off, seqs, p)
<1>1. PICK t, l, k, u : t = s \o u /\ l = Len(s) /\ k = Len(u) /\ u = seqs[p]
  OBVIOUS
<1>2. /\ l \in Nat /\ k \in Nat /\ Len(t) = l + k
      /\ \A j \in 1 .. l : t[j] = s[j]
      /\ \A j \in 1 .. k : t[l + j] = u[j]
  <2>1. u \in Seq(T)
    BY <1>1
  <2>2. s \in Seq(T)
    OBVIOUS
  <2>3. QED
    BY ONLY <1>1, <2>1, <2>2
<1>3. l = off[p] /\ off[p + 1] = l + k
  <2>1. l = off[p]
    BY <1>1 DEF Concatenates
  <2>2. p \in 1 .. n
    OBVIOUS
  <2>3. off[p + 1] = off[p] + Len(seqs[p])
    BY <2>2 DEF Starts
  <2>4. QED
    BY <1>1, <2>1, <2>3
<1>4. ASSUME NEW a \in 1 .. p, NEW r \in 1 .. Len(seqs[a])
      PROVE  off[a] + r \in 1 .. Len(t) /\ t[off[a] + r] = seqs[a][r]
  <2>1. CASE a = p
    <3>1. r \in 1 .. k
      BY <1>1, <2>1
    <3>2. t[l + r] = u[r]
      BY <1>2, <3>1
    <3>3. l + r \in 1 .. Len(t)
      BY <1>2, <3>1
    <3>4. QED
      BY <1>1, <1>3, <2>1, <3>2, <3>3
  <2>2. CASE a # p
    <3>1. a \in 1 .. m
      BY <2>2
    <3>2. off[a] + r \in 1 .. l /\ s[off[a] + r] = seqs[a][r]
      BY <1>1, <3>1 DEF Concatenates
    <3>3. QED
      BY <1>2, <3>2
  <2>3. QED
    BY <2>1, <2>2
<1>5. ASSUME NEW j \in 1 .. Len(t)
      PROVE  \E a \in 1 .. p : \E r \in 1 .. Len(seqs[a]) : j = off[a] + r
  <2>1. CASE j \in 1 .. l
    <3>1. PICK a \in 1 .. m : \E r \in 1 .. Len(seqs[a]) : j = off[a] + r
      BY <1>1, <2>1 DEF Concatenates
    <3>2. a \in 1 .. p
      OBVIOUS
    <3>3. QED
      BY <3>1, <3>2
  <2>2. CASE j \notin 1 .. l
    <3>1. PICK r : r = j - l
      OBVIOUS
    <3>2. r \in 1 .. k /\ j = l + r
      BY <1>2, <2>2, <3>1
    <3>3. r \in 1 .. Len(seqs[p]) /\ j = off[p] + r /\ p \in 1 .. p
      BY <1>1, <1>3, <3>2
    <3>4. QED
      BY <3>3
  <2>3. QED
    BY <2>1, <2>2
<1>6. Len(t) = off[p + 1]
  BY <1>2, <1>3
<1>7. Concatenates(t, off, seqs, p)
  BY <1>4, <1>5, <1>6 DEF Concatenates
<1>8. QED
  BY <1>1, <1>7

(* FlattenSeq puts the sequences of a table one behind the other.          *)
LEMMA FlattenProperties ==
  ASSUME NEW T, NEW n \in Nat, NEW seqs \in [1 .. n -> Seq(T)]
  PROVE  /\ FlattenSeq(seqs) \in Seq(T)
         /\ \E off : Starts(off, seqs, n) /\ Concatenates(FlattenSeq(seqs), off, seqs, n)
<1>1. seqs \in Seq(Seq(T)) /\ Len(seqs) = n
  OBVIOUS
<1>2. PICK off : Starts(off, seqs, n)
  BY StartsExist
<1>3. CASE n = 0
  <2>1. FlattenSeq(seqs) = seqs /\ seqs = <<>>
    BY <1>1, <1>3 DEF FlattenSeq
  <2>2. QED
    BY <1>2, <1>3, <2>1 DEF Starts, Concatenates
<1>4. CASE n # 0
  <2>1. PICK g \in [1 .. n -> Seq(T)] : Flattens(g, seqs, n)
    BY FlattenExists
  <2>2. g = [i \in 1 .. n |-> IF i = 1 THEN seqs[i] ELSE g[i - 1] \o seqs[i]]
    BY <2>1 DEF Flattens
  <2>3. PICK f : /\ f = [i \in 1 .. n |-> IF i = 1 THEN seqs[i] ELSE f[i - 1] \o seqs[i]]
                 /\ FlattenSeq(seqs) = f[n]
    <3>1. PICK l : l = Len(seqs)
      OBVIOUS
    <3>2. FlattenSeq(seqs) =
            (CHOOSE f : f = [i \in 1 .. l |-> IF i = 1 THEN seqs[i] ELSE f[i - 1] \o seqs[i]])[l]
      BY <1>1, <1>4, <3>1 DEF FlattenSeq
    <3>3. l = n
      BY <1>1, <3>1
    <3>4. QED
      BY <2>2, <3>2, <3>3
  <2>4. Flattens(f, seqs, n)
    BY <2>3 DEF Flattens
  <2> DEFINE Good == {m \in 0 .. n : m # 0 => f[m] \in Seq(T) /\ Concatenates(f[m], off, seqs, m)}
  <2>5. PICK m \in Good : \A k \in Good : k <= m
    <3>1. 0 \in Good
      OBVIOUS
    <3> HIDE DEF Good
    <3>2. Good \in SUBSET (0 .. n) /\ Good # {}
      BY <3>1 DEF Good
    <3>3. QED
      BY <3>2, GreatestIndex
  <2>6. ASSUME m < n PROVE m + 1 \in Good
    <3>1. m \in Nat /\ m + 1 \in 1 .. n
      BY <2>6
    <3>2. CASE m = 0
      <4>1. f[1] = seqs[1] /\ seqs[1] \in Seq(T) /\ <<>> \o seqs[1] = seqs[1]
        BY <2>4, <3>1, <3>2 DEF Flattens
      <4>2. Concatenates(<<>>, off, seqs, 0)
        BY <1>2 DEF Starts, Concatenates
      <4>3. Concatenates(seqs[1], off, seqs, 1)
        <5>1. /\ n \in Nat /\ seqs \in [1 .. n -> Seq(T)] /\ Starts(off, seqs, n)
              /\ 0 \in Nat /\ 1 \in Nat /\ 1 = 0 + 1 /\ 1 <= n
              /\ <<>> \in Seq(T) /\ Concatenates(<<>>, off, seqs, 0)
          BY <1>2, <3>1, <3>2, <4>2
        <5>2. Concatenates(<<>> \o seqs[1], off, seqs, 1)
          BY ONLY <5>1, ConcatenatesStep
        <5>3. QED
          BY <4>1, <5>2
      <4>4. QED
        BY <3>1, <3>2, <4>1, <4>3
    <3>3. CASE m # 0
      <4>1. f[m] \in Seq(T) /\ Concatenates(f[m], off, seqs, m)
        BY <3>3
      <4>2. PICK p : p = m + 1
        OBVIOUS
      <4>3. p \in 1 .. n /\ p # 1 /\ p - 1 = m /\ p \in Nat
        BY <3>1, <3>3, <4>2
      <4>4. f[p] = f[m] \o seqs[p]
        BY <2>4, <4>3 DEF Flattens
      <4>5. seqs[p] \in Seq(T)
        BY <4>3
      <4>6. f[p] \in Seq(T)
        BY ONLY <4>1, <4>4, <4>5
      <4>7. /\ n \in Nat /\ seqs \in [1 .. n -> Seq(T)] /\ Starts(off, seqs, n)
            /\ m \in Nat /\ p \in Nat /\ p = m + 1 /\ p <= n
            /\ f[m] \in Seq(T) /\ Concatenates(f[m], off, seqs, m)
        BY <1>2, <3>1, <4>1, <4>2, <4>3
      <4>8. Concatenates(f[m] \o seqs[p], off, seqs, p)
        BY ONLY <4>7, ConcatenatesStep
      <4>9. QED
        <5>1. Concatenates(f[p], off, seqs, p)
          BY <4>4, <4>8
        <5>2. p \in Good
          BY <4>3, <4>6, <5>1
        <5>3. QED
          BY <4>2, <5>2
    <3>4. QED
      BY <3>2, <3>3
  <2>7. m = n
    BY <2>5, <2>6
  <2>8. QED
    BY <1>2, <1>4, <2>3, <2>5, <2>7
<1>5. QED
  BY <1>3, <1>4

(* The elements of the sequences are those of the flattened one.           *)
LEMMA FlattenMembers ==
  ASSUME NEW T, NEW n \in Nat, NEW seqs \in [1 .. n -> Seq(T)]
  PROVE  /\ FlattenSeq(seqs) \in Seq(T)
         /\ \A x : x \in ToSet(FlattenSeq(seqs)) <=>
              \E a \in 1 .. n : \E r \in 1 .. Len(seqs[a]) : x = seqs[a][r]
<1>1. PICK flat : flat = FlattenSeq(seqs)
  OBVIOUS
<1>2. flat \in Seq(T)
  BY <1>1, FlattenProperties
<1>3. PICK off : Starts(off, seqs, n) /\ Concatenates(flat, off, seqs, n)
  BY <1>1, FlattenProperties
<1>4. DOMAIN flat = 1 .. Len(flat)
  BY <1>2
<1>5. ASSUME NEW a \in 1 .. n, NEW r \in 1 .. Len(seqs[a])
      PROVE  seqs[a][r] \in ToSet(flat)
  <2>1. off[a] + r \in DOMAIN flat /\ flat[off[a] + r] = seqs[a][r]
    BY <1>3, <1>4 DEF Concatenates
  <2>2. QED
    BY <2>1 DEF ToSet
<1>6. ASSUME NEW x \in ToSet(flat)
      PROVE  \E a \in 1 .. n : \E r \in 1 .. Len(seqs[a]) : x = seqs[a][r]
  <2>1. PICK k \in 1 .. Len(flat) : x = flat[k]
    BY <1>4 DEF ToSet
  <2>2. PICK a \in 1 .. n : \E r \in 1 .. Len(seqs[a]) : k = off[a] + r
    BY <1>3 DEF Concatenates
  <2>3. PICK r \in 1 .. Len(seqs[a]) : k = off[a] + r
    BY <2>2
  <2>4. flat[off[a] + r] = seqs[a][r]
    BY <1>3 DEF Concatenates
  <2>5. QED
    BY <2>1, <2>3, <2>4
<1>7. QED
  BY <1>1, <1>2, <1>5, <1>6

(* No two places of a sequence hold the same. *)
OncePerPlace(s) == \A j, k \in 1 .. Len(s) : s[j] = s[k] => j = k

(* If no two places of the sequences hold the same, no two of the          *)
(* flattened one do.                                                       *)
LEMMA FlattenDistinct ==
  ASSUME NEW T, NEW n \in Nat, NEW seqs \in [1 .. n -> Seq(T)],
         \A a, b \in 1 .. n : \A r \in 1 .. Len(seqs[a]), q \in 1 .. Len(seqs[b]) :
           seqs[a][r] = seqs[b][q] => a = b /\ r = q
  PROVE  OncePerPlace(FlattenSeq(seqs))
<1>1. PICK flat : flat = FlattenSeq(seqs)
  OBVIOUS
<1>2. PICK off : Starts(off, seqs, n) /\ Concatenates(flat, off, seqs, n)
  BY <1>1, FlattenProperties
<1>3. ASSUME NEW j \in 1 .. Len(flat), NEW k \in 1 .. Len(flat), flat[j] = flat[k]
      PROVE  j = k
  <2>1. PICK a \in 1 .. n : \E r \in 1 .. Len(seqs[a]) : j = off[a] + r
    BY <1>2 DEF Concatenates
  <2>2. PICK r \in 1 .. Len(seqs[a]) : j = off[a] + r
    BY <2>1
  <2>3. PICK b \in 1 .. n : \E q \in 1 .. Len(seqs[b]) : k = off[b] + q
    BY <1>2 DEF Concatenates
  <2>4. PICK q \in 1 .. Len(seqs[b]) : k = off[b] + q
    BY <2>3
  <2>5. flat[j] = seqs[a][r]
    BY <1>2, <2>2 DEF Concatenates
  <2>6. flat[k] = seqs[b][q]
    BY <1>2, <2>4 DEF Concatenates
  <2>7. seqs[a][r] = seqs[b][q]
    BY <1>3, <2>5, <2>6
  <2>8. a = b /\ r = q
    BY <2>7
  <2>9. QED
    BY <2>2, <2>4, <2>8
<1>4. QED
  BY <1>1, <1>3 DEF OncePerPlace

(* Such a sequence is as long as it has elements.                          *)
LEMMA DistinctLength ==
  ASSUME NEW T, NEW s \in Seq(T), OncePerPlace(s)
  PROVE  IsFiniteSet(ToSet(s)) /\ Cardinality(ToSet(s)) = Len(s)
<1>1. PICK n, D, E : n = Len(s) /\ D = 1 .. n /\ E = ToSet(s)
  OBVIOUS
<1>2. n \in Nat /\ DOMAIN s = D /\ E = {s[k] : k \in D}
  BY <1>1 DEF ToSet
<1>3. IsFiniteSet(D) /\ Cardinality(D) = n
  <2>1. 1 \in Int /\ n \in Int /\ (IF 1 > n THEN 0 ELSE n - 1 + 1) = n
    BY <1>2
  <2>2. QED
    BY <1>1, <2>1, FS_Interval
<1>4. s \in [D -> E]
  BY <1>2
<1>5. s \in Injection(D, E)
  <2>1. \A j, k \in D : s[j] = s[k] => j = k
    BY <1>1 DEF OncePerPlace
  <2>2. QED
    BY <1>4, <2>1 DEF Injection, IsInjective
<1>6. s \in Surjection(D, E)
  BY <1>2, <1>4 DEF Surjection
<1>7. IsFiniteSet(E) /\ (Cardinality(E) = Cardinality(D) <=> s \in Injection(D, E))
  BY <1>3, <1>6, FS_Surjection
<1>8. QED
  BY <1>1, <1>3, <1>5, <1>7

-----------------------------------------------------------------------------
(* Two sequences behind each other.                                        *)

LEMMA ConcatPlaces ==
  ASSUME NEW T, NEW s \in Seq(T), NEW t \in Seq(T), NEW m, NEW n, NEW u,
         m = Len(s), n = Len(t), u = s \o t
  PROVE  /\ m \in Nat /\ n \in Nat /\ u \in Seq(T) /\ Len(u) = m + n
         /\ \A k \in 1 .. m : u[k] = s[k]
         /\ \A k \in 1 .. n : u[m + k] = t[k]
<1>1. m \in Nat /\ n \in Nat /\ u \in Seq(T) /\ Len(u) = m + n
  OBVIOUS
<1>2. \A k \in 1 .. m : u[k] = s[k]
  OBVIOUS
<1>3. ASSUME NEW k \in 1 .. n PROVE u[m + k] = t[k]
  <2>1. m + k \in 1 .. m + n /\ m + k > m /\ m + k - m = k
    BY <1>1
  <2>2. QED
    BY <1>1, <2>1
<1>4. QED
  BY <1>1, <1>2, <1>3

(* v begins with the m places of s and goes on with the n places of t.     *)
Joins(v, s, m, t, n) ==
  /\ \A k \in 1 .. m : v[k] = s[k]
  /\ \A k \in 1 .. n : v[m + k] = t[k]

LEMMA ConcatByPlaces ==
  ASSUME NEW T, NEW s, NEW t, NEW v, s \in Seq(T), t \in Seq(T), v \in Seq(T),
         NEW m, NEW n, m = Len(s), n = Len(t), Len(v) = m + n, Joins(v, s, m, t, n)
  PROVE  v = s \o t
<1> USE DEF Joins
<1>1. PICK u : u = s \o t
  OBVIOUS
<1>2. /\ m \in Nat /\ n \in Nat /\ u \in Seq(T) /\ Len(u) = m + n
      /\ \A k \in 1 .. m : u[k] = s[k]
      /\ \A k \in 1 .. n : u[m + k] = t[k]
  BY <1>1, ConcatPlaces
<1>3. ASSUME NEW k \in 1 .. m + n PROVE v[k] = u[k]
  <2>1. CASE k \in 1 .. m
    BY <1>2, <2>1
  <2>2. CASE k \notin 1 .. m
    <3>1. PICK j : j = k - m
      OBVIOUS
    <3>2. j \in 1 .. n /\ m + j = k
      BY <1>2, <2>2, <3>1
    <3>3. v[m + j] = t[j] /\ u[m + j] = t[j]
      BY <1>2, <3>2
    <3>4. QED
      BY <3>2, <3>3
  <2>3. QED
    BY <2>1, <2>2
<1>4. v = u
  BY <1>2, <1>3
<1>5. QED
  BY <1>1, <1>4

LEMMA ConcatMembers ==
  ASSUME NEW T, NEW s, NEW t, s \in Seq(T), t \in Seq(T)
  PROVE  s \o t \in Seq(T) /\ ToSet(s \o t) = ToSet(s) \cup ToSet(t)
<1>1. PICK m, n, u : m = Len(s) /\ n = Len(t) /\ u = s \o t
  OBVIOUS
<1>2. /\ m \in Nat /\ n \in Nat /\ u \in Seq(T) /\ Len(u) = m + n
      /\ \A k \in 1 .. m : u[k] = s[k]
      /\ \A k \in 1 .. n : u[m + k] = t[k]
  BY <1>1, ConcatPlaces
<1>3. DOMAIN s = 1 .. m /\ DOMAIN t = 1 .. n /\ DOMAIN u = 1 .. m + n
  BY <1>1, <1>2
<1>4. ASSUME NEW x \in ToSet(u) PROVE x \in ToSet(s) \cup ToSet(t)
  <2>1. PICK k \in 1 .. m + n : x = u[k]
    BY <1>3 DEF ToSet
  <2>2. CASE k \in 1 .. m
    BY <1>2, <1>3, <2>1, <2>2 DEF ToSet
  <2>3. CASE k \notin 1 .. m
    <3>1. PICK j : j = k - m
      OBVIOUS
    <3>2. j \in 1 .. n /\ m + j = k
      BY <1>2, <2>3, <3>1
    <3>3. x = t[j]
      BY <1>2, <2>1, <3>2
    <3>4. QED
      BY <1>3, <3>2, <3>3 DEF ToSet
  <2>4. QED
    BY <2>2, <2>3
<1>5. ASSUME NEW x \in ToSet(s) PROVE x \in ToSet(u)
  <2>1. PICK k \in 1 .. m : x = s[k]
    BY <1>3 DEF ToSet
  <2>2. k \in 1 .. m + n /\ u[k] = x
    BY <1>2, <2>1
  <2>3. QED
    BY <1>3, <2>2 DEF ToSet
<1>6. ASSUME NEW x \in ToSet(t) PROVE x \in ToSet(u)
  <2>1. PICK k \in 1 .. n : x = t[k]
    BY <1>3 DEF ToSet
  <2>2. m + k \in 1 .. m + n /\ u[m + k] = x
    BY <1>2, <2>1
  <2>3. QED
    BY <1>3, <2>2 DEF ToSet
<1>7. ToSet(u) = ToSet(s) \cup ToSet(t)
  BY <1>4, <1>5, <1>6
<1>8. QED
  BY <1>1, <1>2, <1>7

LEMMA ConcatApart ==
  ASSUME NEW T, NEW s, NEW t, s \in Seq(T), t \in Seq(T), OncePerPlace(s \o t)
  PROVE  OncePerPlace(s) /\ OncePerPlace(t) /\ ToSet(s) \cap ToSet(t) = {}
<1>1. PICK m, n, u : m = Len(s) /\ n = Len(t) /\ u = s \o t
  OBVIOUS
<1>2. /\ m \in Nat /\ n \in Nat /\ Len(u) = m + n
      /\ \A k \in 1 .. m : u[k] = s[k]
      /\ \A k \in 1 .. n : u[m + k] = t[k]
  BY <1>1, ConcatPlaces
<1>3. DOMAIN s = 1 .. m /\ DOMAIN t = 1 .. n
  BY <1>1
<1>4. \A j, k \in 1 .. m + n : u[j] = u[k] => j = k
  BY <1>1, <1>2 DEF OncePerPlace
<1>5. ASSUME NEW j \in 1 .. m, NEW k \in 1 .. m, s[j] = s[k] PROVE j = k
  <2>1. j \in 1 .. m + n /\ k \in 1 .. m + n /\ u[j] = u[k]
    BY <1>2, <1>5
  <2>2. QED
    BY <1>4, <2>1
<1>6. ASSUME NEW j \in 1 .. n, NEW k \in 1 .. n, t[j] = t[k] PROVE j = k
  <2>1. m + j \in 1 .. m + n /\ m + k \in 1 .. m + n /\ u[m + j] = u[m + k]
    BY <1>2, <1>6
  <2>2. m + j = m + k
    BY <1>4, <2>1
  <2>3. QED
    BY <1>2, <2>2
<1>7. ASSUME NEW j \in 1 .. m, NEW k \in 1 .. n, s[j] = t[k] PROVE FALSE
  <2>1. j \in 1 .. m + n /\ m + k \in 1 .. m + n /\ u[j] = u[m + k]
    BY <1>2, <1>7
  <2>2. j = m + k
    BY <1>4, <2>1
  <2>3. QED
    BY <1>2, <2>2
<1>8. ToSet(s) \cap ToSet(t) = {}
  BY <1>3, <1>7 DEF ToSet
<1>9. QED
  BY <1>1, <1>5, <1>6, <1>8 DEF OncePerPlace

LEMMA ConcatTogether ==
  ASSUME NEW T, NEW s, NEW t, s \in Seq(T), t \in Seq(T), OncePerPlace(s), OncePerPlace(t),
         ToSet(s) \cap ToSet(t) = {}
  PROVE  OncePerPlace(s \o t)
<1>1. PICK m, n, u : m = Len(s) /\ n = Len(t) /\ u = s \o t
  OBVIOUS
<1>2. /\ m \in Nat /\ n \in Nat /\ Len(u) = m + n
      /\ \A k \in 1 .. m : u[k] = s[k]
      /\ \A k \in 1 .. n : u[m + k] = t[k]
  BY <1>1, ConcatPlaces
<1>3. \A j, k \in 1 .. m : s[j] = s[k] => j = k
  BY <1>1 DEF OncePerPlace
<1>4. \A j, k \in 1 .. n : t[j] = t[k] => j = k
  BY <1>1 DEF OncePerPlace
<1>5. ASSUME NEW j \in 1 .. m, NEW k \in 1 .. n PROVE s[j] # t[k]
  <2>1. s[j] \in ToSet(s) /\ t[k] \in ToSet(t)
    <3>1. j \in DOMAIN s /\ k \in DOMAIN t
      BY <1>1
    <3>2. QED
      BY <3>1 DEF ToSet
  <2>2. QED
    BY <2>1
<1>6. ASSUME NEW k \in 1 .. m + n, k \notin 1 .. m
      PROVE  \E j \in 1 .. n : k = m + j /\ u[k] = t[j]
  <2>1. PICK j : j = k - m
    OBVIOUS
  <2>2. j \in 1 .. n /\ m + j = k
    BY <1>2, <1>6, <2>1
  <2>3. QED
    BY <1>2, <2>2
<1>7. ASSUME NEW j \in 1 .. m + n, NEW k \in 1 .. m + n, u[j] = u[k] PROVE j = k
  <2>1. CASE j \in 1 .. m /\ k \in 1 .. m
    BY <1>2, <1>3, <1>7, <2>1
  <2>2. CASE j \in 1 .. m /\ k \notin 1 .. m
    <3>1. PICK l \in 1 .. n : k = m + l /\ u[k] = t[l]
      BY <1>6, <2>2
    <3>2. u[j] = s[j]
      BY <1>2, <2>2
    <3>3. QED
      BY <1>5, <1>7, <2>2, <3>1, <3>2
  <2>3. CASE j \notin 1 .. m /\ k \in 1 .. m
    <3>1. PICK l \in 1 .. n : j = m + l /\ u[j] = t[l]
      BY <1>6, <2>3
    <3>2. u[k] = s[k]
      BY <1>2, <2>3
    <3>3. QED
      BY <1>5, <1>7, <2>3, <3>1, <3>2
  <2>4. CASE j \notin 1 .. m /\ k \notin 1 .. m
    <3>1. PICK l \in 1 .. n : j = m + l /\ u[j] = t[l]
      BY <1>6, <2>4
    <3>2. PICK i \in 1 .. n : k = m + i /\ u[k] = t[i]
      BY <1>6, <2>4
    <3>3. l = i
      BY <1>4, <1>7, <3>1, <3>2
    <3>4. QED
      BY <3>1, <3>2, <3>3
  <2>5. QED
    BY <2>1, <2>2, <2>3, <2>4
<1>8. QED
  BY <1>1, <1>2, <1>7 DEF OncePerPlace

-----------------------------------------------------------------------------
(* Concatenation in steps.                                                 *)

LEMMA FlattenNone == FlattenSeq(<<>>) = <<>>
BY DEF FlattenSeq

SameUpTo(n, s, t) == \A i \in 1 .. n : s[i] = t[i]

(* Recursions over the same sequences agree. *)
LEMMA FlattensAgree ==
  ASSUME NEW f, NEW g, NEW s, NEW t, NEW n \in Nat, Flattens(f, s, n), Flattens(g, t, n),
         SameUpTo(n, s, t)
  PROVE  SameUpTo(n, f, g)
<1> USE DEF SameUpTo
<1> DEFINE Good == {m \in 0 .. n : \A i \in 1 .. m : f[i] = g[i]}
<1>1. 0 \in Good
  OBVIOUS
<1>2. PICK m \in Good : \A k \in Good : k <= m
  <2> HIDE DEF Good
  <2>1. Good \in SUBSET (0 .. n) /\ Good # {}
    BY <1>1 DEF Good
  <2>2. QED
    BY <2>1, GreatestIndex
<1>3. ASSUME m < n PROVE FALSE
  <2>1. m + 1 \in 1 .. n /\ (m # 0 => m \in 1 .. m /\ m + 1 # 1 /\ m + 1 - 1 = m)
    BY <1>3
  <2>2. f[m + 1] = (IF m + 1 = 1 THEN s[m + 1] ELSE f[m + 1 - 1] \o s[m + 1])
    BY <2>1 DEF Flattens
  <2>3. g[m + 1] = (IF m + 1 = 1 THEN t[m + 1] ELSE g[m + 1 - 1] \o t[m + 1])
    BY <2>1 DEF Flattens
  <2>4. f[m + 1] = g[m + 1]
    <3>1. CASE m = 0
      BY <2>1, <2>2, <2>3, <3>1
    <3>2. CASE m # 0
      <4>1. f[m] = g[m]
        BY <2>1, <3>2
      <4>2. QED
        BY <2>1, <2>2, <2>3, <3>2, <4>1
    <3>3. QED
      BY <3>1, <3>2
  <2>5. \A i \in 1 .. m + 1 : f[i] = g[i]
    <3>1. ASSUME NEW i \in 1 .. m + 1 PROVE f[i] = g[i]
      <4>1. i \in 1 .. m \/ i = m + 1
        OBVIOUS
      <4>2. QED
        BY <2>4, <4>1
    <3>2. QED
      BY <3>1
  <2>6. m + 1 \in Good
    BY <1>3, <2>5
  <2>7. QED
    BY <1>2, <2>6
<1>4. m = n
  BY <1>3
<1>5. QED
  BY <1>2, <1>4

(* FlattenSeq is the last value of its recursion. *)
LEMMA FlattenIsLast ==
  ASSUME NEW T, NEW n \in Nat, n # 0, NEW seqs \in [1 .. n -> Seq(T)]
  PROVE  \E f \in [1 .. n -> Seq(T)] : Flattens(f, seqs, n) /\ FlattenSeq(seqs) = f[n]
<1>1. seqs \in Seq(Seq(T)) /\ Len(seqs) = n
  OBVIOUS
<1>2. PICK g \in [1 .. n -> Seq(T)] : Flattens(g, seqs, n)
  BY FlattenExists
<1>3. g = [i \in 1 .. n |-> IF i = 1 THEN seqs[i] ELSE g[i - 1] \o seqs[i]]
  BY <1>2 DEF Flattens
<1>4. PICK f : /\ f = [i \in 1 .. n |-> IF i = 1 THEN seqs[i] ELSE f[i - 1] \o seqs[i]]
               /\ FlattenSeq(seqs) = f[n]
  <2>1. PICK l : l = Len(seqs)
    OBVIOUS
  <2>2. FlattenSeq(seqs) =
          (CHOOSE h : h = [i \in 1 .. l |-> IF i = 1 THEN seqs[i] ELSE h[i - 1] \o seqs[i]])[l]
    BY <1>1, <2>1 DEF FlattenSeq
  <2>3. l = n
    BY <1>1, <2>1
  <2>4. QED
    BY <1>3, <2>2, <2>3
<1>5. Flattens(f, seqs, n)
  BY <1>4 DEF Flattens
<1>6. n \in 1 .. n
  OBVIOUS
<1>7. f[n] = g[n]
  BY <1>2, <1>5, <1>6, FlattensAgree DEF SameUpTo
<1>8. QED
  BY <1>2, <1>4, <1>7

(* One more sequence at the end.                                           *)
LEMMA FlattenPush ==
  ASSUME NEW T, NEW s \in Seq(Seq(T)), NEW x \in Seq(T)
  PROVE  FlattenSeq(Append(s, x)) = FlattenSeq(s) \o x
<1>1. PICK n, t : n = Len(s) /\ t = Append(s, x)
  OBVIOUS
<1>2. /\ n \in Nat /\ n + 1 \in Nat /\ n + 1 # 0 /\ s \in [1 .. n -> Seq(T)]
      /\ t \in [1 .. n + 1 -> Seq(T)]
      /\ t[n + 1] = x
      /\ \A i \in 1 .. n : t[i] = s[i]
  <2>1. n \in Nat /\ s \in [1 .. n -> Seq(T)]
    BY <1>1
  <2>2. t \in Seq(Seq(T)) /\ Len(t) = n + 1
    BY <1>1
  <2>3. t \in [1 .. n + 1 -> Seq(T)]
    BY <2>2
  <2>4. t[n + 1] = x /\ \A i \in 1 .. n : t[i] = s[i]
    BY <1>1
  <2>5. QED
    BY <2>1, <2>3, <2>4
<1>3. PICK f \in [1 .. n + 1 -> Seq(T)] : Flattens(f, t, n + 1) /\ FlattenSeq(t) = f[n + 1]
  BY <1>2, FlattenIsLast
<1>4. CASE n = 0
  <2>1. f[n + 1] = t[n + 1]
    BY <1>3, <1>4 DEF Flattens
  <2>2. s = <<>>
    <3>1. Len(s) = 0 /\ s \in Seq(Seq(T))
      BY <1>1, <1>4
    <3>2. QED
      BY ONLY <3>1
  <2>3. <<>> \o x = x
    OBVIOUS
  <2>4. QED
    BY <1>1, <1>2, <1>3, <2>1, <2>2, <2>3, FlattenNone
<1>5. CASE n # 0
  <2>1. PICK g \in [1 .. n -> Seq(T)] : Flattens(g, s, n) /\ FlattenSeq(s) = g[n]
    BY <1>2, <1>5, FlattenIsLast
  <2>2. Flattens(f, t, n)
    <3>1. \A i \in 1 .. n : i \in 1 .. n + 1
      BY <1>2
    <3>2. Flattens(f, t, n + 1)
      BY <1>3
    <3>3. QED
      BY ONLY <3>1, <3>2 DEF Flattens
  <2>3. \A i \in 1 .. n : f[i] = g[i]
    <3>1. n \in Nat
      BY <1>2
    <3>2. Flattens(f, t, n)
      BY <2>2
    <3>3. Flattens(g, s, n)
      BY <2>1
    <3>4. SameUpTo(n, t, s)
      BY <1>2 DEF SameUpTo
    <3>5. SameUpTo(n, f, g)
      BY ONLY <3>1, <3>2, <3>3, <3>4, FlattensAgree
    <3>6. QED
      BY <3>5 DEF SameUpTo
  <2>4. f[n] = g[n]
    BY <1>2, <1>5, <2>3
  <2>5. f[n + 1] = f[n] \o t[n + 1]
    <3>1. PICK p : p = n + 1
      OBVIOUS
    <3>2. p \in 1 .. p /\ p # 1 /\ p - 1 = n
      BY <1>2, <1>5, <3>1
    <3>3. Flattens(f, t, p)
      BY <1>3, <3>1
    <3>4. f[p] = (IF p = 1 THEN t[p] ELSE f[p - 1] \o t[p])
      BY ONLY <3>2, <3>3 DEF Flattens
    <3>5. QED
      BY <3>1, <3>2, <3>4
  <2>6. QED
    BY <1>1, <1>2, <1>3, <2>1, <2>4, <2>5
<1>6. QED
  BY <1>4, <1>5

(* The concatenation of a concatenation.                                   *)
LEMMA FlattenConcat ==
  ASSUME NEW T, NEW s \in Seq(Seq(T)), NEW t \in Seq(Seq(T))
  PROVE  FlattenSeq(s \o t) = FlattenSeq(s) \o FlattenSeq(t)
<1>1. PICK n : n = Len(t)
  OBVIOUS
<1> DEFINE Holds(m) == FlattenSeq(s \o SubSeq(t, 1, m)) = FlattenSeq(s) \o FlattenSeq(SubSeq(t, 1, m))
           Good == {m \in 0 .. n : Holds(m)}
<1>2. n \in Nat
  BY <1>1
<1>3. \A m \in 0 .. n : SubSeq(t, 1, m) \in Seq(Seq(T))
  BY <1>1
<1>4. \A u \in Seq(Seq(T)) : FlattenSeq(u) \in Seq(T)
  <2>1. ASSUME NEW u \in Seq(Seq(T)) PROVE FlattenSeq(u) \in Seq(T)
    <3>1. Len(u) \in Nat /\ u \in [1 .. Len(u) -> Seq(T)]
      OBVIOUS
    <3>2. QED
      BY ONLY <3>1, FlattenProperties
  <2>2. QED
    BY <2>1
<1>5. 0 \in Good
  <2>1. SubSeq(t, 1, 0) = <<>>
    OBVIOUS
  <2>2. s \o <<>> = s /\ FlattenSeq(s) \o <<>> = FlattenSeq(s)
    BY <1>4
  <2>3. Holds(0)
    BY <2>1, <2>2, FlattenNone
  <2> HIDE DEF Holds
  <2>4. QED
    BY <1>2, <2>3
<1>6. PICK m \in Good : \A k \in Good : k <= m
  <2> HIDE DEF Good
  <2>1. Good \in SUBSET (0 .. n) /\ Good # {}
    BY <1>5 DEF Good
  <2>2. QED
    BY <1>2, <2>1, GreatestIndex
<1>7. ASSUME m < n PROVE FALSE
  <2>1. PICK u, x, p : u = SubSeq(t, 1, m) /\ x = t[m + 1] /\ p = m + 1
    OBVIOUS
  <2>2. p \in 1 .. n /\ x \in Seq(T) /\ u \in Seq(Seq(T))
    BY <1>1, <1>2, <1>3, <1>7, <2>1
  <2>3. SubSeq(t, 1, p) = Append(u, x)
    <3>1. PICK U : U = Seq(T)
      OBVIOUS
    <3>2. t \in Seq(U) /\ p = m + 1 /\ p \in 1 .. Len(t) /\ m \in Nat
      BY <1>1, <1>7, <2>1, <2>2, <3>1
    <3>3. SubSeq(t, 1, p) = Append(SubSeq(t, 1, m), t[p])
      BY ONLY <3>2, SMTT(30)
    <3>4. QED
      BY <2>1, <3>3
  <2>4. s \o Append(u, x) = Append(s \o u, x) /\ s \o u \in Seq(Seq(T))
    BY ONLY <2>2, s \in Seq(Seq(T)), SMTT(30)
  <2>5. FlattenSeq(s \o u) = FlattenSeq(s) \o FlattenSeq(u)
    BY <2>1
  <2>6. FlattenSeq(Append(s \o u, x)) = FlattenSeq(s \o u) \o x
    BY ONLY <2>2, <2>4, FlattenPush
  <2>7. FlattenSeq(Append(u, x)) = FlattenSeq(u) \o x
    BY ONLY <2>2, FlattenPush
  <2>8. (FlattenSeq(s) \o FlattenSeq(u)) \o x = FlattenSeq(s) \o (FlattenSeq(u) \o x)
    <3>1. PICK v, w : v = FlattenSeq(s) /\ w = FlattenSeq(u)
      OBVIOUS
    <3>2. v \in Seq(T) /\ w \in Seq(T) /\ x \in Seq(T)
      BY <1>4, <2>2, <3>1
    <3>3. (v \o w) \o x = v \o (w \o x)
      BY ONLY <3>2
    <3>4. QED
      BY <3>1, <3>3
  <2>9. Holds(p)
    BY <2>3, <2>4, <2>5, <2>6, <2>7, <2>8
  <2> HIDE DEF Holds
  <2>10. p \in Good
    BY <2>2, <2>9
  <2>11. QED
    BY <1>6, <1>7, <2>1, <2>10
<1>8. m = n
  <2> HIDE DEF Holds
  <2>1. m \in 0 .. n
    OBVIOUS
  <2>2. QED
    BY <1>2, <1>7, <2>1
<1>9. SubSeq(t, 1, n) = t
  BY <1>1
<1>10. QED
  BY <1>6, <1>8, <1>9

(* The first sequence and the others.                                      *)
LEMMA FlattenHead ==
  ASSUME NEW T, NEW s \in Seq(Seq(T)), s # <<>>
  PROVE  FlattenSeq(s) = Head(s) \o FlattenSeq(Tail(s))
<1>1. PICK x, t : x = Head(s) /\ t = Tail(s)
  OBVIOUS
<1>2. x \in Seq(T) /\ t \in Seq(Seq(T)) /\ <<x>> \in Seq(Seq(T)) /\ s = <<x>> \o t
  BY <1>1
<1>3. FlattenSeq(<<x>>) = x
  <2>1. <<x>> = Append(<<>>, x) /\ <<>> \in Seq(Seq(T)) /\ <<>> \o x = x
    BY <1>2
  <2>2. FlattenSeq(Append(<<>>, x)) = FlattenSeq(<<>>) \o x
    BY <1>2, <2>1, FlattenPush
  <2>3. QED
    BY <2>1, <2>2, FlattenNone
<1>4. FlattenSeq(<<x>> \o t) = FlattenSeq(<<x>>) \o FlattenSeq(t)
  BY ONLY <1>2, FlattenConcat
<1>5. QED
  BY <1>1, <1>2, <1>3, <1>4

LEMMA FlattenOne ==
  ASSUME NEW T, NEW s, s \in Seq(T)
  PROVE  FlattenSeq(<<s>>) = s
<1>1. <<s>> = Append(<<>>, s) /\ <<>> \in Seq(Seq(T)) /\ <<>> \o s = s
  OBVIOUS
<1>2. FlattenSeq(Append(<<>>, s)) = FlattenSeq(<<>>) \o s
  BY <1>1, FlattenPush
<1>3. QED
  BY <1>1, <1>2, FlattenNone

(* Nothing but sequences of one element. *)
LEMMA FlattenSingles ==
  ASSUME NEW T, NEW s, s \in Seq(T), NEW u, u = [k \in DOMAIN s |-> <<s[k]>>]
  PROVE  u \in Seq(Seq(T)) /\ Len(u) = Len(s) /\ FlattenSeq(u) = s
<1>1. PICK n : n = Len(s)
  OBVIOUS
<1>2. n \in Nat /\ DOMAIN s = 1 .. n /\ \A k \in 1 .. n : s[k] \in T
  BY <1>1
<1>3. u = [k \in 1 .. n |-> <<s[k]>>]
  BY <1>2
<1>4. u \in Seq(Seq(T)) /\ Len(u) = n /\ \A k \in 1 .. n : u[k] = <<s[k]>>
  <2>1. \A k \in 1 .. n : <<s[k]>> \in Seq(T)
    BY <1>2
  <2>2. u \in [1 .. n -> Seq(T)] /\ \A k \in 1 .. n : u[k] = <<s[k]>>
    BY <1>3, <2>1
  <2>3. QED
    BY ONLY <1>2, <2>2
<1> DEFINE Good == {m \in 0 .. n : FlattenSeq(SubSeq(u, 1, m)) = SubSeq(s, 1, m)}
<1>5. 0 \in Good
  <2>1. SubSeq(u, 1, 0) = <<>> /\ SubSeq(s, 1, 0) = <<>>
    BY <1>4
  <2>2. FlattenSeq(SubSeq(u, 1, 0)) = SubSeq(s, 1, 0)
    BY ONLY <2>1, FlattenNone
  <2>3. QED
    BY <1>2, <2>2
<1>6. PICK m \in Good : \A k \in Good : k <= m
  <2> HIDE DEF Good
  <2>1. Good \in SUBSET (0 .. n) /\ Good # {}
    BY <1>5 DEF Good
  <2>2. QED
    BY <1>2, <2>1, GreatestIndex
<1>7. m \in 0 .. n /\ FlattenSeq(SubSeq(u, 1, m)) = SubSeq(s, 1, m)
  BY <1>6
<1>8. ASSUME m < n PROVE FALSE
  <2>1. PICK p, v, x : p = m + 1 /\ v = SubSeq(u, 1, m) /\ x = u[m + 1]
    OBVIOUS
  <2>2. p \in 1 .. n /\ p \in 0 .. n /\ ~ (p <= m)
    BY <1>2, <1>7, <1>8, <2>1
  <2>3. v \in Seq(Seq(T)) /\ x \in Seq(T) /\ SubSeq(u, 1, p) = Append(v, x)
    <3>1. Len(u) \in Nat /\ p <= Len(u) /\ m \in Nat /\ u \in Seq(Seq(T))
      BY <1>2, <1>4, <1>7, <2>2
    <3>2. QED
      BY ONLY <2>1, <3>1
  <2>4. x = <<s[p]>>
    BY <1>4, <2>1, <2>2
  <2>5. FlattenSeq(Append(v, x)) = FlattenSeq(v) \o x
    BY ONLY <2>3, FlattenPush
  <2>6. SubSeq(s, 1, m) \o <<s[p]>> = SubSeq(s, 1, p)
    BY <1>1, <1>2, <1>7, <2>1, <2>2
  <2>7. FlattenSeq(SubSeq(u, 1, p)) = SubSeq(s, 1, p)
    BY <1>7, <2>1, <2>3, <2>4, <2>5, <2>6
  <2>8. p \in Good
    BY <2>2, <2>7
  <2>9. QED
    BY <1>6, <2>2, <2>8
<1>9. m = n
  BY <1>2, <1>7, <1>8
<1>10. SubSeq(u, 1, n) = u /\ SubSeq(s, 1, n) = s
  BY <1>1, <1>4
<1>11. QED
  BY <1>1, <1>4, <1>7, <1>9, <1>10

(* The sequences of a concatenation, each a part of the whole. *)
LEMMA FlattenTwice ==
  ASSUME NEW T, NEW parts, parts \in Seq(Seq(Seq(T))), NEW whole, whole \in Seq(Seq(T)),
         Len(parts) = Len(whole), \A k \in 1 .. Len(parts) : FlattenSeq(parts[k]) = whole[k]
  PROVE  FlattenSeq(FlattenSeq(parts)) = FlattenSeq(whole)
<1>1. PICK n, S : n = Len(parts) /\ S = Seq(T)
  OBVIOUS
<1>2. n \in Nat /\ parts \in Seq(Seq(S)) /\ whole \in Seq(S) /\ Len(whole) = n
  BY <1>1
<1> DEFINE Holds(m) == FlattenSeq(FlattenSeq(SubSeq(parts, 1, m))) = FlattenSeq(SubSeq(whole, 1, m))
           Good == {m \in 0 .. n : Holds(m)}
<1>3. 0 \in Good
  <2>1. SubSeq(parts, 1, 0) = <<>> /\ SubSeq(whole, 1, 0) = <<>>
    BY <1>2
  <2>2. Holds(0)
    BY ONLY <2>1, FlattenNone
  <2> HIDE DEF Holds
  <2>3. QED
    BY <1>2, <2>2
<1>4. PICK m \in Good : \A k \in Good : k <= m
  <2> HIDE DEF Good
  <2>1. Good \in SUBSET (0 .. n) /\ Good # {}
    BY <1>3 DEF Good
  <2>2. QED
    BY <1>2, <2>1, GreatestIndex
<1>5. m \in 0 .. n /\ Holds(m)
  BY <1>4
<1>6. ASSUME m < n PROVE FALSE
  <2>1. PICK p, v, x, w, y : /\ p = m + 1
                             /\ v = SubSeq(parts, 1, m) /\ x = parts[m + 1]
                             /\ w = SubSeq(whole, 1, m) /\ y = whole[m + 1]
    OBVIOUS
  <2>2. p \in 1 .. n /\ p \in 0 .. n /\ ~ (p <= m)
    BY <1>2, <1>5, <1>6, <2>1
  <2>3. v \in Seq(Seq(S)) /\ x \in Seq(S) /\ SubSeq(parts, 1, p) = Append(v, x)
    <3>1. Len(parts) \in Nat /\ p <= Len(parts) /\ m \in Nat /\ parts \in Seq(Seq(S))
      BY <1>1, <1>2, <1>5, <2>2
    <3>2. QED
      BY ONLY <2>1, <3>1
  <2>4. w \in Seq(S) /\ y \in S /\ SubSeq(whole, 1, p) = Append(w, y)
    <3>1. Len(whole) \in Nat /\ p <= Len(whole) /\ m \in Nat /\ whole \in Seq(S)
      BY <1>1, <1>2, <1>5, <2>2
    <3>2. QED
      BY ONLY <2>1, <3>1
  <2>5. FlattenSeq(x) = y
    BY <1>1, <2>1, <2>2
  <2>6. FlattenSeq(Append(v, x)) = FlattenSeq(v) \o x
    BY ONLY <2>3, FlattenPush
  <2>7. w \in Seq(Seq(T)) /\ y \in Seq(T)
    BY <1>1, <2>4
  <2>8. FlattenSeq(Append(w, y)) = FlattenSeq(w) \o y
    BY ONLY <2>7, FlattenPush
  <2>9. FlattenSeq(FlattenSeq(v) \o x) = FlattenSeq(FlattenSeq(v)) \o FlattenSeq(x)
    <3>1. PICK f : f = FlattenSeq(v)
      OBVIOUS
    <3>2. f \in Seq(S)
      <4>1. PICK l : l = Len(v)
        OBVIOUS
      <4>2. l \in Nat /\ v \in [1 .. l -> Seq(S)]
        BY <2>3, <4>1
      <4>3. FlattenSeq(v) \in Seq(S)
        BY ONLY <4>2, FlattenProperties
      <4>4. QED
        BY <3>1, <4>3
    <3>3. f \in Seq(Seq(T)) /\ x \in Seq(Seq(T))
      BY <1>1, <2>3, <3>2
    <3>4. FlattenSeq(f \o x) = FlattenSeq(f) \o FlattenSeq(x)
      BY ONLY <3>3, FlattenConcat
    <3>5. QED
      BY <3>1, <3>4
  <2>10. Holds(p)
    BY <1>5, <2>1, <2>3, <2>4, <2>5, <2>6, <2>8, <2>9
  <2> HIDE DEF Holds
  <2>11. p \in Good
    BY <2>2, <2>10
  <2>12. QED
    BY <1>4, <2>2, <2>11
<1>7. m = n
  BY <1>2, <1>5, <1>6
<1>8. SubSeq(parts, 1, n) = parts /\ SubSeq(whole, 1, n) = whole
  BY <1>1, <1>2
<1>9. QED
  BY <1>5, <1>7, <1>8
=============================================================================
