---------------------------- MODULE SchedulerProofs ----------------------------
(***************************************************************************)
(* Theorems about Scheduler for every list of systems, every set of        *)
(* functions and every set of data.                                        *)
(*                                                                         *)
(* The sort keeps SortInv: the in-degree of a system counts its edges from *)
(* systems not popped yet, and the queue is what has none.  The cut into   *)
(* batches keeps PlaceInv: the batches, read one after the other, are the  *)
(* sorted list as far as it was placed.                                    *)
(***************************************************************************)
EXTENDS Scheduler, FiniteSetTheorems, SequenceTheorems, TLAPS

-----------------------------------------------------------------------------
(* Least and greatest members.                                             *)

(* A set of numbers up to n that is not empty has a least one: a least set *)
(* without a least member would have a smaller one inside it.              *)
LEMMA LeastNumber ==
  ASSUME NEW n \in Nat, NEW S \in SUBSET (0 .. n), S # {}
  PROVE  \E j \in S : \A k \in S : j <= k
<1> DEFINE Bad == {U \in SUBSET (0 .. n) : U # {} /\ \A j \in U : \E k \in U : ~ (j <= k)}
           Finite == FiniteSubsetsOf(0 .. n)
<1>1. Bad \subseteq Finite
  BY FS_Interval, FS_FiniteSubsetsOfFinite
<1>2. IsWellFoundedOn(StrictSubsetOrdering(0 .. n), Finite)
  BY FS_StrictSubsetOrderingWellFounded
<1>3. SUFFICES ASSUME Bad # {} PROVE FALSE
  OBVIOUS
<1> HIDE DEF Finite
<1>4. PICK U \in Bad : \A V \in Bad : ~ (<<V, U>> \in StrictSubsetOrdering(0 .. n))
  <2> HIDE DEF Bad
  <2>1. QED
    BY <1>1, <1>2, <1>3, WFMin
<1>5. PICK u \in U : TRUE
  OBVIOUS
<1>6. U \ {u} \notin Bad
  <2>1. U \ {u} \in SUBSET (0 .. n) /\ U \in SUBSET (0 .. n) /\ U \ {u} # U
    OBVIOUS
  <2>2. QED
    BY <1>4, <2>1 DEF StrictSubsetOrdering
<1>7. CASE U \ {u} = {}
  BY <1>5, <1>7
<1>8. CASE U \ {u} # {}
  <2>1. PICK m \in U \ {u} : \A k \in U \ {u} : m <= k
    BY <1>6, <1>8
  <2>2. u \in 0 .. n /\ \A k \in U : k \in 0 .. n
    OBVIOUS
  <2>3. CASE m <= u
    BY <2>1, <2>2, <2>3
  <2>4. CASE ~ (m <= u)
    BY <2>1, <2>2, <2>4
  <2>5. QED
    BY <2>3, <2>4
<1>9. QED
  BY <1>7, <1>8

(* The same upside down.                                                   *)
LEMMA GreatestNumber ==
  ASSUME NEW n \in Nat, NEW S \in SUBSET (0 .. n), S # {}
  PROVE  \E j \in S : \A k \in S : k <= j
<1> DEFINE T == {k \in 0 .. n : n - k \in S}
<1>1. \A s \in S : s \in 0 .. n /\ n - s \in 0 .. n /\ n - (n - s) = s
  OBVIOUS
<1>2. T # {}
  BY <1>1
<1>3. PICK t \in T : \A k \in T : t <= k
  <2> HIDE DEF T
  <2>1. T \in SUBSET (0 .. n)
    BY DEF T
  <2>2. QED
    BY <1>2, <2>1, LeastNumber
<1>4. n - t \in S /\ \A s \in S : n - s \in T
  BY <1>1
<1>5. \A s \in S : s <= n - t
  <2>1. ASSUME NEW s \in S PROVE s <= n - t
    <3>1. t <= n - s
      BY <1>3, <1>4
    <3>2. t \in 0 .. n /\ s \in 0 .. n
      BY <1>1
    <3>3. QED
      BY <3>1, <3>2
  <2>2. QED
    BY <2>1
<1>6. QED
  BY <1>4, <1>5
-----------------------------------------------------------------------------
(* The edges.                                                              *)

EdgeType == [from : Index, to : Index, by : {"before", "after"}]

(* Indices are positions of the list of systems.                           *)
LEMMA Indices ==
  ASSUME systems \in Seq(Descriptor)
  PROVE  /\ Len(systems) \in Nat
         /\ Index = 1 .. Len(systems)
         /\ IsFiniteSet(Index) /\ Cardinality(Index) = Len(systems)
         /\ \A i \in Index : /\ systems[i] \in Descriptor
                             /\ systems[i].registration \in Nat
                             /\ systems[i].reads \subseteq Data /\ systems[i].writes \subseteq Data
<1>1. Len(systems) \in Nat /\ Index = 1 .. Len(systems)
  BY DEF Index
<1>2. IsFiniteSet(1 .. Len(systems)) /\ Cardinality(1 .. Len(systems)) = Len(systems)
  BY <1>1, FS_Interval
<1>3. \A i \in 1 .. Len(systems) : systems[i] \in Descriptor
  OBVIOUS
<1>4. QED
  BY <1>1, <1>2, <1>3 DEF Descriptor

(* The last registration of a function that has one.                       *)
LEMMA IndexOfRegistered ==
  ASSUME systems \in Seq(Descriptor), NEW f, Registered(f)
  PROVE  /\ IndexOf(f) \in Index
         /\ systems[IndexOf(f)].fn = f
<1> DEFINE S == {i \in Index : systems[i].fn = f}
           n == Len(systems)
<1>1. n \in Nat /\ S \in SUBSET (0 .. n) /\ S # {}
  BY Indices DEF Registered
<1> HIDE DEF S, n
<1>2. \E j \in S : \A k \in S : k <= j
  BY <1>1, GreatestNumber
<1>3. \E i \in Index : systems[i].fn = f /\ \A j \in Index : systems[j].fn = f => j <= i
  BY <1>2 DEF S
<1>4. QED
  BY <1>3 DEF IndexOf

(* A function registered once is found at its only registration.           *)
LEMMA IndexOfOnce ==
  ASSUME systems \in Seq(Descriptor), NEW i \in Index, Once(systems[i].fn)
  PROVE  Registered(systems[i].fn) /\ IndexOf(systems[i].fn) = i
<1>1. Registered(systems[i].fn)
  BY DEF Registered
<1>2. QED
  BY <1>1, IndexOfRegistered DEF Once

(* Every edge joins two systems of the stage.                              *)
LEMMA ConstraintsType ==
  ASSUME systems \in Seq(Descriptor)
  PROVE  Constraints \subseteq EdgeType
<1>1. ASSUME NEW d \in Constraints PROVE d \in EdgeType
  <2>1. CASE \E i \in Index : \E f \in {g \in systems[i].before : Registered(g)} :
               d = [from |-> i, to |-> IndexOf(f), by |-> "before"]
    BY <2>1, IndexOfRegistered DEF EdgeType
  <2>2. CASE \E i \in Index : \E f \in {g \in systems[i].after : Registered(g)} :
               d = [from |-> IndexOf(f), to |-> i, by |-> "after"]
    BY <2>2, IndexOfRegistered DEF EdgeType
  <2>3. QED
    BY <2>1, <2>2 DEF Constraints
<1>2. QED
  BY <1>1

(* A declaration about a function registered once is an edge.              *)
LEMMA DeclaredEdges ==
  ASSUME systems \in Seq(Descriptor), NEW i \in Index, NEW j \in Index,
         \/ Before(i, j) /\ Once(systems[j].fn)
         \/ After(i, j) /\ Once(systems[i].fn)
  PROVE  \E d \in Constraints : d.from = i /\ d.to = j
<1>1. CASE Before(i, j) /\ Once(systems[j].fn)
  <2> DEFINE f == systems[j].fn
             d == [from |-> i, to |-> IndexOf(f), by |-> "before"]
  <2>1. f \in systems[i].before /\ Registered(f) /\ IndexOf(f) = j
    BY <1>1, IndexOfOnce DEF Before
  <2>2. d \in Constraints
    BY <2>1 DEF Constraints
  <2>3. QED
    BY <2>1, <2>2
<1>2. CASE After(i, j) /\ Once(systems[i].fn)
  <2> DEFINE f == systems[i].fn
             d == [from |-> IndexOf(f), to |-> j, by |-> "after"]
  <2>1. f \in systems[j].after /\ Registered(f) /\ IndexOf(f) = i
    BY <1>2, IndexOfOnce DEF After
  <2>2. d \in Constraints
    BY <2>1 DEF Constraints
  <2>3. QED
    BY <2>1, <2>2
<1>3. QED
  BY <1>1, <1>2

(* There are finitely many edges.                                          *)
LEMMA EdgesFinite ==
  ASSUME systems \in Seq(Descriptor), NEW S \in SUBSET EdgeType
  PROVE  IsFiniteSet(S) /\ Cardinality(S) \in Nat
<1> DEFINE Sides == {"before", "after"}
           T == (Index \X Index) \X Sides
           f == [d \in S |-> <<<<d.from, d.to>>, d.by>>]
<1>1. IsFiniteSet(Sides)
  <2>1. IsFiniteSet({"before"}) /\ IsFiniteSet({"after"}) /\ Sides = {"before"} \cup {"after"}
    BY FS_Singleton
  <2> HIDE DEF Sides
  <2>2. QED
    BY <2>1, FS_Union, FS_Singleton
<1>2. IsFiniteSet(Index \X Index)
  BY Indices, FS_Product
<1>3. IsFiniteSet(T)
  <2> HIDE DEF Sides
  <2>1. QED
    BY <1>1, <1>2, FS_Product
<1>4. f \in [S -> T]
  BY DEF EdgeType
<1>5. \A d, g \in S : f[d] = f[g] => d = g
  BY DEF EdgeType
<1>6. f \in Injection(S, T)
  BY <1>4, <1>5 DEF Injection, IsInjective
<1> HIDE DEF f, T
<1>7. IsFiniteSet(S)
  BY <1>3, <1>6, FS_Injection
<1>8. QED
  BY <1>7, FS_CardinalityType
-----------------------------------------------------------------------------
(* The sort.                                                               *)

Popped == {order[k] : k \in DOMAIN order}

(* The edges that hold system j back.                                      *)
Waiting(j) == {d \in edges : d.to = j /\ d.from \notin Popped}

SortType ==
  /\ systems \in Seq(Descriptor)
  /\ edges = Constraints
  /\ order \in Seq(Index)

(* No system is popped twice or before a system it waits for.              *)
PoppedInOrder ==
  /\ \A k, m \in DOMAIN order : order[k] = order[m] => k = m
  /\ \A m \in DOMAIN order : \A d \in edges :
       d.to = order[m] => \E k \in 1 .. m - 1 : order[k] = d.from

(* A system not popped by turn k that registered earlier than the one      *)
(* popped then was waiting at that turn.                                   *)
Overtaken ==
  \A k \in DOMAIN order : \A j \in Index :
    /\ systems[j].registration < systems[order[k]].registration
    /\ \A x \in 1 .. k : order[x] # j
    => \E d \in edges : d.to = j /\ \A x \in 1 .. k - 1 : order[x] # d.from

CountsExact ==
  /\ inDegree = [j \in Index |-> Cardinality(Waiting(j))]
  /\ queue = {j \in Index : Waiting(j) = {} /\ j \notin Popped}

SortInv == SortType /\ PoppedInOrder /\ Overtaken /\ CountsExact

(* How the sorted list grows.                                              *)
LEMMA PopExtends ==
  ASSUME SortInv, NEW i \in Index, Pop(i)
  PROVE  /\ Len(order) \in Nat /\ DOMAIN order = 1 .. Len(order)
         /\ DOMAIN order' = 1 .. Len(order) + 1
         /\ \A k \in 1 .. Len(order) : order'[k] = order[k] /\ order[k] \in Index
         /\ order'[Len(order) + 1] = i
         /\ order' \in Seq(Index)
         /\ Popped' = Popped \cup {i}
         /\ Waiting(i) = {} /\ i \notin Popped
         /\ Index' = Index
<1> DEFINE n == Len(order)
<1>1. order \in Seq(Index) /\ order' = Append(order, i)
  BY DEF SortInv, SortType, Pop
<1>2. n \in Nat /\ DOMAIN order = 1 .. n /\ \A k \in 1 .. n : order[k] \in Index
  BY <1>1
<1>3. /\ order' \in Seq(Index)
      /\ Len(order') = n + 1
      /\ \A k \in 1 .. n : order'[k] = order[k]
      /\ order'[n + 1] = i
  BY <1>1, AppendProperties
<1>4. DOMAIN order' = 1 .. n + 1
  BY <1>3
<1> HIDE DEF n
<1>5. Popped' = Popped \cup {i}
  <2>1. Popped = {order[k] : k \in 1 .. n} /\ Popped' = {order'[k] : k \in 1 .. n + 1}
    BY <1>2, <1>4 DEF Popped
  <2>2. 1 .. n + 1 = (1 .. n) \cup {n + 1}
    BY <1>2
  <2>3. QED
    BY <1>3, <2>1, <2>2
<1>6. Waiting(i) = {} /\ i \notin Popped
  BY DEF Pop, First, SortInv, CountsExact
<1>7. Index' = Index
  BY DEF Pop, Index
<1>8. QED
  BY <1>2, <1>3, <1>4, <1>5, <1>6, <1>7 DEF n

(* A popped system waits for nothing any more.                             *)
LEMMA PoppedDone ==
  ASSUME SortInv, NEW j \in Popped
  PROVE  Waiting(j) = {}
<1>1. PICK m \in DOMAIN order : order[m] = j
  BY DEF Popped
<1>2. DOMAIN order = 1 .. Len(order) /\ Len(order) \in Nat
  BY DEF SortInv, SortType
<1>3. ASSUME NEW d \in edges, d.to = j PROVE d.from \in Popped
  <2>1. PICK k \in 1 .. m - 1 : order[k] = d.from
    BY <1>1, <1>3 DEF SortInv, PoppedInOrder
  <2>2. k \in DOMAIN order
    BY <1>1, <1>2
  <2>3. QED
    BY <2>1, <2>2 DEF Popped
<1>4. QED
  BY <1>3 DEF Waiting

LEMMA PopKeepsOrder ==
  ASSUME SortInv, NEW i \in Index, Pop(i)
  PROVE  PoppedInOrder'
<1> DEFINE n == Len(order)
           seq == order'
<1>1. /\ n \in Nat /\ DOMAIN order = 1 .. n
      /\ DOMAIN seq = 1 .. n + 1
      /\ \A k \in 1 .. n : seq[k] = order[k] /\ order[k] \in Index
      /\ seq[n + 1] = i
      /\ Waiting(i) = {} /\ i \notin Popped
  BY PopExtends
<1>2. edges' = edges
  BY DEF Pop
<1>3. /\ \A k, m \in 1 .. n : order[k] = order[m] => k = m
      /\ \A m \in 1 .. n : \A d \in edges :
           d.to = order[m] => \E k \in 1 .. m - 1 : order[k] = d.from
  BY <1>1 DEF SortInv, PoppedInOrder
<1>4. \A k \in 1 .. n : order[k] # i
  BY <1>1 DEF Popped
<1> HIDE DEF seq, n
<1>5. \A k, m \in 1 .. n + 1 : seq[k] = seq[m] => k = m
  BY <1>1, <1>3, <1>4
<1>6. ASSUME NEW m \in 1 .. n + 1, NEW d \in edges, d.to = seq[m]
      PROVE  \E k \in 1 .. m - 1 : seq[k] = d.from
  <2>1. CASE m \in 1 .. n
    <3>1. PICK k \in 1 .. m - 1 : order[k] = d.from
      BY <1>1, <1>3, <1>6, <2>1
    <3>2. k \in 1 .. n
      BY <1>1, <2>1
    <3>3. QED
      BY <1>1, <3>1, <3>2
  <2>2. CASE m = n + 1
    <3>1. d.from \in Popped
      BY <1>1, <1>6, <2>2 DEF Waiting
    <3>2. PICK k \in 1 .. n : order[k] = d.from
      BY <1>1, <3>1 DEF Popped
    <3>3. k \in 1 .. m - 1
      BY <1>1, <2>2
    <3>4. QED
      BY <1>1, <3>2, <3>3
  <2>3. QED
    BY <1>1, <2>1, <2>2
<1>7. QED
  BY <1>1, <1>2, <1>5, <1>6 DEF PoppedInOrder, seq

LEMMA PopKeepsOvertaken ==
  ASSUME SortInv, NEW i \in Index, Pop(i)
  PROVE  Overtaken'
<1> DEFINE n == Len(order)
           seq == order'
<1>1. /\ n \in Nat /\ DOMAIN order = 1 .. n
      /\ DOMAIN seq = 1 .. n + 1
      /\ \A k \in 1 .. n : seq[k] = order[k] /\ order[k] \in Index
      /\ seq[n + 1] = i
      /\ Index' = Index
  BY PopExtends
<1>2. edges' = edges /\ systems' = systems
  BY DEF Pop
<1>3. \A j \in queue : systems[i].registration <= systems[j].registration
  BY DEF Pop, First
<1>4. \A j \in Index : systems[j].registration \in Nat
  BY Indices DEF SortInv, SortType
<1> HIDE DEF seq, n
<1>5. ASSUME NEW k \in 1 .. n + 1, NEW j \in Index,
             systems[j].registration < systems[seq[k]].registration,
             \A x \in 1 .. k : seq[x] # j
      PROVE  \E d \in edges : d.to = j /\ \A x \in 1 .. k - 1 : seq[x] # d.from
  <2>1. CASE k \in 1 .. n
    <3>1. 1 .. k \subseteq 1 .. n /\ 1 .. k - 1 \subseteq 1 .. n
      BY <1>1, <2>1
    <3>2. \A x \in 1 .. k : order[x] # j
      BY <1>1, <1>5, <3>1
    <3>3. PICK d \in edges : d.to = j /\ \A x \in 1 .. k - 1 : order[x] # d.from
      BY <1>1, <1>5, <2>1, <3>2 DEF SortInv, Overtaken
    <3>4. QED
      BY <1>1, <3>1, <3>3
  <2>2. CASE k = n + 1
    <3>1. j \notin queue
      BY <1>1, <1>3, <1>4, <1>5, <2>2
    <3>2. j \notin Popped
      <4>1. \A x \in 1 .. n : x \in 1 .. k
        BY <1>1, <2>2
      <4>2. QED
        BY <1>1, <1>5, <4>1 DEF Popped
    <3>3. PICK d \in edges : d.to = j /\ d.from \notin Popped
      BY <3>1, <3>2 DEF SortInv, CountsExact, Waiting
    <3>4. \A x \in 1 .. k - 1 : seq[x] # d.from
      BY <1>1, <2>2, <3>3 DEF Popped
    <3>5. QED
      BY <3>3, <3>4
  <2>3. QED
    BY <1>1, <2>1, <2>2
<1>6. QED
  BY <1>1, <1>2, <1>5 DEF Overtaken, seq

LEMMA PopKeepsCounts ==
  ASSUME SortInv, NEW i \in Index, Pop(i)
  PROVE  CountsExact'
<1> DEFINE W(j) == {d \in edges : d.to = j /\ d.from \notin Popped \cup {i}}
           F(j) == {d \in edges : d.from = i /\ d.to = j}
<1>1. /\ Popped' = Popped \cup {i} /\ Index' = Index
      /\ Waiting(i) = {} /\ i \notin Popped
  BY PopExtends
<1>2. \A j : Waiting(j)' = W(j)
  BY <1>1 DEF Waiting, Pop
<1>3. edges \subseteq EdgeType /\ systems \in Seq(Descriptor)
  BY ConstraintsType DEF SortInv, SortType
<1>4. ASSUME NEW j \in Index
      PROVE  /\ Cardinality(W(j)) = Cardinality(Waiting(j)) - Cardinality(F(j))
             /\ Cardinality(W(j)) \in Nat /\ Cardinality(Waiting(j)) \in Nat
             /\ Cardinality(W(j)) = 0 <=> W(j) = {}
             /\ Cardinality(Waiting(j)) = 0 <=> Waiting(j) = {}
  <2>1. /\ IsFiniteSet(Waiting(j)) /\ Cardinality(Waiting(j)) \in Nat
        /\ IsFiniteSet(W(j)) /\ Cardinality(W(j)) \in Nat
    <3>1. Waiting(j) \in SUBSET EdgeType /\ W(j) \in SUBSET EdgeType
      BY <1>3 DEF Waiting
    <3> HIDE DEF W
    <3>2. QED
      BY <1>3, <3>1, EdgesFinite
  <2>2. W(j) = Waiting(j) \ F(j) /\ Waiting(j) \cap F(j) = F(j)
    BY <1>1 DEF Waiting
  <2> DEFINE A == Waiting(j)
             B == F(j)
             C == W(j)
  <2> HIDE DEF W, F
  <2>3. IsFiniteSet(A) /\ IsFiniteSet(C) /\ C = A \ B /\ A \cap B = B
    BY <2>1, <2>2
  <2> HIDE DEF A, B, C
  <2>4. Cardinality(C) = Cardinality(A) - Cardinality(B)
    BY <2>3, FS_Difference
  <2>5. (Cardinality(C) = 0 <=> C = {}) /\ (Cardinality(A) = 0 <=> A = {})
    BY <2>3, FS_EmptySet
  <2>6. QED
    BY <2>1, <2>4, <2>5 DEF A, B, C
<1>5. /\ inDegree = [j \in Index |-> Cardinality(Waiting(j))]
      /\ queue = {j \in Index : Waiting(j) = {} /\ j \notin Popped}
      /\ inDegree' = [j \in Index |-> inDegree[j] - Cardinality(F(j))]
      /\ queue' = (queue \ {i}) \cup {j \in Index : inDegree[j] > 0 /\ inDegree'[j] = 0}
  BY DEF SortInv, CountsExact, Pop
<1>6. \A j : W(j) \subseteq Waiting(j)
  BY DEF Waiting
<1> HIDE DEF W, F
<1>7. inDegree' = [j \in Index |-> Cardinality(W(j))]
  BY <1>4, <1>5
<1>8. ASSUME NEW j \in Index
      PROVE  j \in queue' <=> W(j) = {} /\ j \notin Popped \cup {i}
  <2>1. inDegree[j] > 0 /\ inDegree'[j] = 0 <=> Waiting(j) # {} /\ W(j) = {}
    BY <1>4, <1>5, <1>7
  <2>2. j \in Popped \cup {i} => Waiting(j) = {}
    BY <1>1, PoppedDone
  <2>3. QED
    BY <1>5, <1>6, <2>1, <2>2
<1>9. queue' \subseteq Index
  BY <1>5
<1>10. QED
  BY <1>1, <1>2, <1>7, <1>8, <1>9 DEF CountsExact

(* SortInv is inductive.                                                   *)
LEMMA PopKeepsSort ==
  ASSUME SortInv, NEW i \in Index, Pop(i)
  PROVE  SortInv'
<1>1. SortType'
  <2>1. order' \in Seq(Index) /\ Index' = Index
    BY PopExtends
  <2>2. systems' = systems /\ edges' = edges
    BY DEF Pop
  <2>3. Constraints' = Constraints
    BY <2>1, <2>2 DEF Constraints, Registered, IndexOf
  <2>4. QED
    BY <2>1, <2>2, <2>3 DEF SortInv, SortType
<1>2. QED
  BY <1>1, PopKeepsOrder, PopKeepsOvertaken, PopKeepsCounts DEF SortInv

(* The other steps leave the sort as it is.                                *)
LEMMA SortUntouched ==
  ASSUME SortInv, UNCHANGED <<systems, edges, inDegree, queue, order>>
  PROVE  SortInv'
<1>1. Index' = Index /\ Popped' = Popped
  BY DEF Index, Popped
<1>2. Constraints' = Constraints
  BY <1>1 DEF Constraints, Registered, IndexOf
<1>3. \A j : Waiting(j)' = Waiting(j)
  BY <1>1 DEF Waiting
<1>4. SortType' /\ PoppedInOrder' /\ Overtaken' /\ CountsExact'
  BY <1>1, <1>2, <1>3 DEF SortInv, SortType, PoppedInOrder, Overtaken, CountsExact
<1>5. QED
  BY <1>4 DEF SortInv

LEMMA InitSort == Init => SortInv
<1> SUFFICES ASSUME Init PROVE SortInv
  OBVIOUS
<1>1. systems \in Seq(Descriptor) /\ edges = Constraints
  BY StagesAssumption DEF Init
<1>2. order = <<>> /\ DOMAIN order = {} /\ Popped = {}
  BY DEF Init, Popped
<1>3. \A j : Waiting(j) = {d \in edges : d.to = j}
  BY <1>2 DEF Waiting
<1>4. \A j \in Index : /\ Waiting(j) \in SUBSET EdgeType
                       /\ IsFiniteSet(Waiting(j))
                       /\ Cardinality(Waiting(j)) = 0 <=> Waiting(j) = {}
  BY <1>1, <1>3, ConstraintsType, EdgesFinite, FS_EmptySet
<1>5. CountsExact
  BY <1>2, <1>3, <1>4 DEF CountsExact, Init, InDegreeOf
<1>6. QED
  BY <1>1, <1>2, <1>5 DEF SortInv, SortType, PoppedInOrder, Overtaken
-----------------------------------------------------------------------------
(* The cut into batches.                                                   *)

PhaseInv ==
  /\ phase \in {"sort", "batch", "planned", "refused"}
  /\ phase \in {"sort", "refused"} => batches = <<>> /\ placed = 0
  /\ phase = "refused" => queue = {} /\ Len(order) # Len(systems)
  /\ phase \in {"batch", "planned"} => Len(order) = Len(systems)
  /\ phase = "planned" => placed = Len(order)

(* p is in an earlier batch than q, or before it in the same batch.        *)
Earlier(p, q) == p[1] < q[1] \/ (p[1] = q[1] /\ p[2] < q[2])

(* The batches hold the first `placed' systems of the order, in order.     *)
PlacedInOrder ==
  /\ placed \in 0 .. Len(order)
  /\ batches \in Seq(Seq(Index))
  /\ \A p \in Positions : \E k \in 1 .. placed : SystemAt(p) = order[k]
  /\ \A k \in 1 .. placed : \E p \in Positions : SystemAt(p) = order[k]
  /\ \A p, q \in Positions : SystemAt(p) = SystemAt(q) => p = q
  /\ \A p, q \in Positions : \A k, m \in 1 .. placed :
       SystemAt(p) = order[k] /\ SystemAt(q) = order[m] /\ k < m => Earlier(p, q)

(* Nothing in a batch conflicts with or must follow what is before it.     *)
Compatible(s, t) == ~ Conflicts(s, t) /\ ~ Ordered(s, t)

BatchesCompatible ==
  \A p, q \in Positions :
    p[1] = q[1] /\ p[2] < q[2] => Compatible(systems[SystemAt(p)], systems[SystemAt(q)])

PlaceInv == PhaseInv /\ PlacedInOrder /\ BatchesCompatible

InvAll == SortInv /\ PlaceInv

PositionsOf(s) == UNION {{b} \X DOMAIN s[b] : b \in DOMAIN s}

(* A position is a batch and a place in it.                                *)
LEMMA PositionMeaning ==
  ASSUME NEW S, NEW s \in Seq(Seq(S)), NEW p
  PROVE  p \in PositionsOf(s) <=> \E b \in 1 .. Len(s) : \E k \in 1 .. Len(s[b]) : p = <<b, k>>
<1>1. DOMAIN s = 1 .. Len(s) /\ \A b \in 1 .. Len(s) : DOMAIN s[b] = 1 .. Len(s[b])
  OBVIOUS
<1>2. QED
  BY <1>1 DEF PositionsOf

LEMMA PositionFields ==
  ASSUME NEW S, NEW s \in Seq(Seq(S)), NEW p \in PositionsOf(s)
  PROVE  /\ p[1] \in 1 .. Len(s) /\ p[2] \in 1 .. Len(s[p[1]])
         /\ p = <<p[1], p[2]>>
         /\ p[1] \in Nat /\ p[2] \in Nat
         /\ s[p[1]][p[2]] \in S
<1>1. PICK b \in 1 .. Len(s) : \E k \in 1 .. Len(s[b]) : p = <<b, k>>
  BY PositionMeaning
<1>2. PICK k \in 1 .. Len(s[b]) : p = <<b, k>>
  BY <1>1
<1>3. s[b] \in Seq(S) /\ b \in Nat /\ k \in Nat
  OBVIOUS
<1>4. s[b][k] \in S
  BY <1>3
<1>5. QED
  BY <1>2, <1>3, <1>4

(* The batches t are the batches s and system x at r, behind all others.   *)
Adds(s, t, r, x) ==
  /\ PositionsOf(t) = PositionsOf(s) \cup {r}
  /\ t[r[1]][r[2]] = x
  /\ \A p \in PositionsOf(s) : Earlier(p, r) /\ t[p[1]][p[2]] = s[p[1]][p[2]]

Joined(s, x) == [s EXCEPT ![Len(s)] = Append(@, x)]

StartPosition(s) == <<Len(s) + 1, 1>>

JoinPosition(s) == <<Len(s), Len(s[Len(s)]) + 1>>

(* A system that starts a batch is behind all others.                      *)
LEMMA StartsBatch ==
  ASSUME NEW S, NEW s \in Seq(Seq(S)), NEW x \in S
  PROVE  /\ Append(s, <<x>>) \in Seq(Seq(S))
         /\ Adds(s, Append(s, <<x>>), StartPosition(s), x)
         /\ \A p \in PositionsOf(s) : p[1] # StartPosition(s)[1]
<1> DEFINE n == Len(s)
           t == Append(s, <<x>>)
           r == StartPosition(s)
<1>0. r = <<n + 1, 1>>
  BY DEF StartPosition
<1>1. /\ n \in Nat /\ t \in Seq(Seq(S)) /\ Len(t) = n + 1
      /\ \A b \in 1 .. n : t[b] = s[b]
      /\ t[n + 1] = <<x>> /\ Len(<<x>>) = 1 /\ <<x>>[1] = x
  BY AppendProperties
<1> HIDE DEF n, t, r
<1>2. ASSUME NEW p
      PROVE  p \in PositionsOf(t) <=> p \in PositionsOf(s) \/ p = r
  <2>1. p \in PositionsOf(t) <=> \E b \in 1 .. n + 1 : \E k \in 1 .. Len(t[b]) : p = <<b, k>>
    BY ONLY <1>1, PositionMeaning
  <2>2. p \in PositionsOf(s) <=> \E b \in 1 .. n : \E k \in 1 .. Len(s[b]) : p = <<b, k>>
    BY PositionMeaning DEF n
  <2>3. 1 .. n + 1 = (1 .. n) \cup {n + 1}
    BY <1>1
  <2>4. (\E k \in 1 .. Len(t[n + 1]) : p = <<n + 1, k>>) <=> p = r
    BY <1>0, <1>1
  <2>5. (\E b \in 1 .. n : \E k \in 1 .. Len(t[b]) : p = <<b, k>>)
          <=> \E b \in 1 .. n : \E k \in 1 .. Len(s[b]) : p = <<b, k>>
    BY <1>1
  <2>6. QED
    BY <2>1, <2>2, <2>3, <2>4, <2>5
<1>3. ASSUME NEW p \in PositionsOf(s)
      PROVE  p[1] # r[1] /\ Earlier(p, r) /\ t[p[1]][p[2]] = s[p[1]][p[2]]
  <2>1. p[1] \in 1 .. n
    BY PositionFields DEF n
  <2>2. p[1] < n + 1
    BY <1>1, <2>1
  <2>3. QED
    BY <1>0, <1>1, <2>1, <2>2 DEF Earlier
<1>4. PositionsOf(t) = PositionsOf(s) \cup {r}
  BY <1>2
<1>5. t[r[1]][r[2]] = x
  BY <1>0, <1>1
<1>6. QED
  BY <1>1, <1>3, <1>4, <1>5 DEF Adds, t, r

(* A system that joins the last batch, too.                                *)
LEMMA JoinsBatch ==
  ASSUME NEW S, NEW s \in Seq(Seq(S)), s # <<>>, NEW x \in S
  PROVE  Joined(s, x) \in Seq(Seq(S)) /\ Adds(s, Joined(s, x), JoinPosition(s), x)
<1> DEFINE n == Len(s)
           old == s[n]
           k == Len(old)
           new == Append(old, x)
           t == Joined(s, x)
           r == JoinPosition(s)
<1>0. r = <<n, k + 1>> /\ t = [s EXCEPT ![n] = new]
  BY DEF Joined, JoinPosition
<1>1. n \in Nat /\ n \in 1 .. n /\ old \in Seq(S) /\ k \in Nat
  BY EmptySeq
<1>2. /\ new \in Seq(S) /\ Len(new) = k + 1
      /\ \A j \in 1 .. k : new[j] = old[j]
      /\ new[k + 1] = x
  BY <1>1, AppendProperties
<1> HIDE DEF new, old, t, r
<1>3. /\ t \in Seq(Seq(S)) /\ Len(t) = n
      /\ t[n] = new
      /\ \A b \in 1 .. n : b # n => t[b] = s[b]
  BY <1>0, <1>1, <1>2, ExceptSeq
<1> HIDE DEF n
<1>4. ASSUME NEW p
      PROVE  p \in PositionsOf(t) <=> p \in PositionsOf(s) \/ p = r
  <2>1. p \in PositionsOf(t) <=> \E b \in 1 .. n : \E j \in 1 .. Len(t[b]) : p = <<b, j>>
    BY ONLY <1>3, PositionMeaning
  <2>2. p \in PositionsOf(s) <=> \E b \in 1 .. n : \E j \in 1 .. Len(s[b]) : p = <<b, j>>
    BY PositionMeaning DEF n
  <2>3. 1 .. k + 1 = (1 .. k) \cup {k + 1} /\ s[n] = old
    BY SMTT(30), <1>1 DEF old
  <2>4. Len(t[n]) = k + 1 /\ Len(s[n]) = k /\ r = <<n, k + 1>>
    BY <1>0, <1>2, <1>3, <2>3 DEF k
  <2> HIDE DEF k
  <2>5. (\E j \in 1 .. Len(t[n]) : p = <<n, j>>) <=> (\E j \in 1 .. Len(s[n]) : p = <<n, j>>) \/ p = r
    BY <2>3, <2>4
  <2>6. \A b \in 1 .. n : b # n => (\E j \in 1 .. Len(t[b]) : p = <<b, j>>)
                                     <=> \E j \in 1 .. Len(s[b]) : p = <<b, j>>
    BY <1>3
  <2>7. QED
    BY <1>1, <2>1, <2>2, <2>5, <2>6
<1>5. ASSUME NEW p \in PositionsOf(s)
      PROVE  Earlier(p, r) /\ t[p[1]][p[2]] = s[p[1]][p[2]]
  <2>1. p[1] \in 1 .. n /\ p[2] \in 1 .. Len(s[p[1]])
    BY PositionFields DEF n
  <2>2. CASE p[1] = n
    <3>1. p[2] \in 1 .. k /\ s[p[1]] = old
      BY <2>1, <2>2 DEF old
    <3>2. p[2] < k + 1
      BY <1>1, <3>1
    <3>3. QED
      BY <1>0, <1>1, <1>2, <1>3, <2>2, <3>1, <3>2 DEF Earlier
  <2>3. CASE p[1] # n
    <3>1. p[1] < n
      BY <1>1, <2>1, <2>3
    <3>2. QED
      BY <1>0, <1>3, <2>1, <2>3, <3>1 DEF Earlier
  <2>4. QED
    BY <2>2, <2>3
<1>6. PositionsOf(t) = PositionsOf(s) \cup {r}
  BY <1>4
<1>7. t[r[1]][r[2]] = x
  BY <1>0, <1>2, <1>3
<1>8. QED
  BY <1>3, <1>5, <1>6, <1>7 DEF Adds, t, r

(* What a step of plan_stage adds: one position, behind all others, that   *)
(* is compatible with the batch it is in.                                  *)
LEMMA PlaceExtends ==
  ASSUME InvAll, Place
  PROVE  /\ batches' \in Seq(Seq(Index))
         /\ \E r : /\ Adds(batches, batches', r, order[placed + 1])
                   /\ \A p \in Positions : p[1] = r[1] =>
                        Compatible(systems[SystemAt(p)], systems[order[placed + 1]])
<1> DEFINE x == order[placed + 1]
<1>1. batches \in Seq(Seq(Index)) /\ x \in Index
  BY DEF InvAll, SortInv, SortType, PlaceInv, PlacedInOrder, Place
<1>2. Positions = PositionsOf(batches)
  BY DEF Positions, PositionsOf
<1>3. CASE batches = <<>> \/ Separate(x)
  <2>1. batches' = Append(batches, <<x>>)
    BY <1>3 DEF Place
  <2> HIDE DEF x
  <2>2. /\ batches' \in Seq(Seq(Index))
        /\ Adds(batches, batches', StartPosition(batches), x)
        /\ \A p \in Positions : p[1] # StartPosition(batches)[1]
    BY <1>1, <1>2, <2>1, StartsBatch
  <2>3. QED
    BY <2>2 DEF x
<1>4. CASE batches # <<>> /\ ~ Separate(x)
  <2>1. batches' = Joined(batches, x)
    BY <1>4 DEF Place, Joined
  <2> HIDE DEF x
  <2>2. batches' \in Seq(Seq(Index)) /\ Adds(batches, batches', JoinPosition(batches), x)
    BY <1>1, <1>4, <2>1, JoinsBatch
  <2>3. ASSUME NEW p \in PositionsOf(batches), p[1] = JoinPosition(batches)[1]
        PROVE  Compatible(systems[SystemAt(p)], systems[x])
    <3>1. p[1] = Len(batches) /\ p[2] \in DOMAIN batches[p[1]]
      BY <1>1, <2>3, PositionFields DEF JoinPosition
    <3>2. QED
      BY <1>4, <3>1 DEF Separate, Compatible, SystemAt
  <2>4. QED
    BY <1>2, <2>2, <2>3 DEF x
<1>5. QED
  BY <1>3, <1>4

(* A step of plan_stage keeps the batches the sorted list, read in order.  *)
LEMMA PlaceKeeps ==
  ASSUME InvAll, Place
  PROVE  PlaceInv'
<1> DEFINE n == placed
           x == order[n + 1]
<1>1. /\ n \in Nat /\ n + 1 \in 1 .. Len(order) /\ Len(order) \in Nat
      /\ placed' = n + 1 /\ order' = order /\ systems' = systems /\ Index' = Index
      /\ phase = "batch" /\ phase' = "batch"
      /\ 1 .. n + 1 \subseteq DOMAIN order
  BY DEF InvAll, SortInv, SortType, PlaceInv, PlacedInOrder, Place, Index
<1>2. /\ batches' \in Seq(Seq(Index))
      /\ \E r : /\ Adds(batches, batches', r, x)
                /\ \A p \in Positions : p[1] = r[1] => Compatible(systems[SystemAt(p)], systems[x])
  BY PlaceExtends
<1>3. PICK r :
        /\ Positions' = Positions \cup {r}
        /\ batches'[r[1]][r[2]] = x
        /\ \A p \in Positions :
             /\ Earlier(p, r)
             /\ batches'[p[1]][p[2]] = SystemAt(p)
             /\ p[1] = r[1] => Compatible(systems[SystemAt(p)], systems[x])
  <2>1. Positions = PositionsOf(batches) /\ Positions' = PositionsOf(batches')
    BY DEF Positions, PositionsOf
  <2> HIDE DEF x
  <2>2. QED
    BY <1>2, <2>1 DEF Adds, SystemAt
<1> DEFINE At(p) == batches'[p[1]][p[2]]
<1>4. At(r) = x /\ \A p \in Positions : At(p) = SystemAt(p)
  BY <1>3
<1>5. /\ \A p \in Positions : \E k \in 1 .. n : SystemAt(p) = order[k]
      /\ \A k \in 1 .. n : \E p \in Positions : SystemAt(p) = order[k]
      /\ \A p, q \in Positions : SystemAt(p) = SystemAt(q) => p = q
      /\ \A p, q \in Positions : \A k, m \in 1 .. n :
           SystemAt(p) = order[k] /\ SystemAt(q) = order[m] /\ k < m => Earlier(p, q)
  BY DEF InvAll, PlaceInv, PlacedInOrder
<1>6. \A k, m \in 1 .. n + 1 : order[k] = order[m] => k = m
  BY <1>1 DEF InvAll, SortInv, PoppedInOrder
<1>7. 1 .. n + 1 = (1 .. n) \cup {n + 1} /\ n + 1 \notin 1 .. n
  BY <1>1
<1>8. \A p \in Positions : SystemAt(p) # x
  <2>1. ASSUME NEW p \in Positions, SystemAt(p) = x PROVE FALSE
    <3>1. PICK k \in 1 .. n : SystemAt(p) = order[k]
      BY <1>5
    <3>2. k = n + 1
      BY <1>6, <1>7, <2>1, <3>1
    <3>3. QED
      BY <1>7, <3>2
  <2>2. QED
    BY <2>1
<1> DEFINE all == Positions \cup {r}
<1> HIDE DEF At
<1>9. \A p \in all : \E k \in 1 .. n + 1 : At(p) = order[k]
  BY <1>4, <1>5, <1>7
<1>10. \A k \in 1 .. n + 1 : \E p \in all : At(p) = order[k]
  BY <1>4, <1>5, <1>7
<1>11. \A p, q \in all : At(p) = At(q) => p = q
  BY <1>4, <1>5, <1>8
<1>12. ASSUME NEW p \in all, NEW q \in all, NEW k \in 1 .. n + 1, NEW m \in 1 .. n + 1,
              At(p) = order[k], At(q) = order[m], k < m
       PROVE  Earlier(p, q)
  <2>1. k \in 1 .. n /\ p \in Positions
    <3>1. k # n + 1
      BY <1>1, <1>12
    <3>2. At(p) # x
      BY <1>6, <1>7, <1>12, <3>1
    <3>3. QED
      BY <1>4, <1>7, <3>1, <3>2
  <2>2. CASE q = r
    BY <1>3, <2>1, <2>2
  <2>3. CASE q \in Positions
    <3>1. m \in 1 .. n
      <4>1. At(q) # x
        BY <1>4, <1>8, <2>3
      <4>2. QED
        BY <1>7, <1>12, <4>1
    <3>2. SystemAt(p) = order[k] /\ SystemAt(q) = order[m]
      BY <1>4, <1>12, <2>1, <2>3
    <3>3. QED
      BY <1>5, <1>12, <2>1, <2>3, <3>1, <3>2
  <2>4. QED
    BY <2>2, <2>3
<1>13. ASSUME NEW p \in all, NEW q \in all, p[1] = q[1], p[2] < q[2]
       PROVE  Compatible(systems[At(p)], systems[At(q)])
  <2>1. \A s \in Positions : s[1] \in Nat /\ s[2] \in Nat
    <3>1. Positions = PositionsOf(batches) /\ batches \in Seq(Seq(Index))
      BY DEF Positions, PositionsOf, InvAll, PlaceInv, PlacedInOrder
    <3>2. QED
      BY <3>1, PositionFields
  <2>11. \A s \in all : s[1] \in Nat /\ s[2] \in Nat
    <3>1. all = PositionsOf(batches') /\ batches' \in Seq(Seq(Index))
      BY <1>2, <1>3 DEF Positions, PositionsOf
    <3> HIDE DEF all
    <3>2. QED
      BY <3>1, PositionFields
  <2>2. p \in Positions
    <3>1. SUFFICES ASSUME p = r PROVE FALSE
      OBVIOUS
    <3>2. q # r
      BY <1>13, <2>11, <3>1
    <3>3. Earlier(q, p)
      BY <1>3, <3>1, <3>2
    <3>4. QED
      BY <1>13, <2>11, <3>3 DEF Earlier
  <2>3. CASE q = r
    BY <1>3, <1>4, <1>13, <2>2, <2>3
  <2>4. CASE q \in Positions
    <3>1. Compatible(systems[SystemAt(p)], systems[SystemAt(q)])
      BY <1>13, <2>2, <2>4 DEF InvAll, PlaceInv, BatchesCompatible
    <3>2. QED
      BY <1>4, <2>2, <2>4, <3>1
  <2>5. QED
    BY <2>3, <2>4
<1>14. Positions' = all /\ \A p : SystemAt(p)' = At(p)
  BY <1>3 DEF SystemAt, At
<1> HIDE DEF x, all, n
<1>15. PlacedInOrder'
  BY <1>1, <1>2, <1>9, <1>10, <1>11, <1>12, <1>14 DEF PlacedInOrder
<1>16. BatchesCompatible'
  BY <1>1, <1>13, <1>14 DEF BatchesCompatible
<1>17. PhaseInv'
  BY <1>1 DEF InvAll, PlaceInv, PhaseInv
<1>18. QED
  BY <1>15, <1>16, <1>17 DEF PlaceInv

(* A step that places nothing keeps what the batches say.                  *)
LEMMA PlacedUntouched ==
  ASSUME PlaceInv, SortInv, UNCHANGED <<systems, batches, placed>>,
         Len(order) \in Nat, Len(order') \in Nat, Len(order) <= Len(order'),
         \A k \in 1 .. placed : order'[k] = order[k]
  PROVE  PlacedInOrder' /\ BatchesCompatible'
<1>1. Positions' = Positions /\ Index' = Index /\ \A p : SystemAt(p)' = SystemAt(p)
  BY DEF Positions, Index, SystemAt
<1>2. placed' \in 0 .. Len(order')
  BY DEF PlaceInv, PlacedInOrder
<1>3. PlacedInOrder'
  <2> DEFINE seq == order'
  <2>1. placed' = placed /\ batches' = batches
    OBVIOUS
  <2>2. batches' \in Seq(Seq(Index'))
    BY <1>1, <2>1 DEF PlaceInv, PlacedInOrder
  <2>3. \A k \in 1 .. placed : seq[k] = order[k]
    OBVIOUS
  <2> HIDE DEF seq
  <2>a. /\ \A p \in Positions : \E k \in 1 .. placed : SystemAt(p) = order[k]
        /\ \A k \in 1 .. placed : \E p \in Positions : SystemAt(p) = order[k]
    BY DEF PlaceInv, PlacedInOrder
  <2>4. \A p \in Positions : \E k \in 1 .. placed : SystemAt(p) = seq[k]
    BY ONLY <2>3, <2>a
  <2>5. \A k \in 1 .. placed : \E p \in Positions : SystemAt(p) = seq[k]
    BY ONLY <2>3, <2>a
  <2>6. \A p, q \in Positions : SystemAt(p) = SystemAt(q) => p = q
    BY DEF PlaceInv, PlacedInOrder
  <2>7. \A p, q \in Positions : \A k, m \in 1 .. placed :
          SystemAt(p) = seq[k] /\ SystemAt(q) = seq[m] /\ k < m => Earlier(p, q)
    <3>1. ASSUME NEW p \in Positions, NEW q \in Positions,
                 NEW k \in 1 .. placed, NEW m \in 1 .. placed,
                 SystemAt(p) = seq[k], SystemAt(q) = seq[m], k < m
          PROVE  Earlier(p, q)
      <4>1. SystemAt(p) = order[k] /\ SystemAt(q) = order[m]
        BY <2>3, <3>1
      <4>2. QED
        BY <3>1, <4>1 DEF PlaceInv, PlacedInOrder
    <3>2. QED
      BY <3>1
  <2>8. /\ \A p \in Positions' : \E k \in 1 .. placed' : SystemAt(p)' = order'[k]
        /\ \A k \in 1 .. placed' : \E p \in Positions' : SystemAt(p)' = order'[k]
    BY ONLY <1>1, <2>1, <2>4, <2>5 DEF seq
  <2>9. \A p, q \in Positions' : SystemAt(p)' = SystemAt(q)' => p = q
    BY ONLY <1>1, <2>6
  <2>10. \A p, q \in Positions' : \A k, m \in 1 .. placed' :
           SystemAt(p)' = order'[k] /\ SystemAt(q)' = order'[m] /\ k < m => Earlier(p, q)
    BY ONLY <1>1, <2>1, <2>7 DEF seq
  <2>11. QED
    BY ONLY <1>2, <2>2, <2>8, <2>9, <2>10 DEF PlacedInOrder, Earlier
<1>4. BatchesCompatible'
  BY <1>1 DEF PlaceInv, BatchesCompatible
<1>5. QED
  BY <1>3, <1>4

(* InvAll is inductive.                                                    *)
LEMMA NextKeeps ==
  ASSUME InvAll, [Next]_vars
  PROVE  InvAll'
<1>1. SortInv /\ PlaceInv /\ PhaseInv /\ Len(order) \in Nat /\ placed \in 0 .. Len(order)
  BY DEF InvAll, SortInv, SortType, PlaceInv, PlacedInOrder
<1>2. ASSUME NEW i \in Index, Pop(i) PROVE InvAll'
  <2>1. SortInv'
    BY <1>1, <1>2, PopKeepsSort
  <2>2. /\ \A k \in 1 .. Len(order) : order'[k] = order[k]
        /\ Len(order') = Len(order) + 1
    <3>1. order' \in Seq(Index) /\ DOMAIN order' = 1 .. Len(order) + 1
      BY <1>1, <1>2, PopExtends
    <3>2. Len(order') = Len(order) + 1
      BY <1>1, <3>1, LenProperties
    <3>3. QED
      BY <1>1, <1>2, <3>2, PopExtends
  <2>3. UNCHANGED <<systems, batches, placed, phase>> /\ phase = "sort"
    BY <1>2 DEF Pop
  <2>4. PlacedInOrder' /\ BatchesCompatible'
    BY <1>1, <2>2, <2>3, PlacedUntouched
  <2>5. PhaseInv'
    BY <1>1, <2>3 DEF PhaseInv
  <2>6. QED
    BY <2>1, <2>4, <2>5 DEF InvAll, PlaceInv
<1>3. CASE Sorted
  <2>1. UNCHANGED <<systems, edges, inDegree, queue, order, batches, placed>>
    BY <1>3 DEF Sorted
  <2>2. SortInv' /\ PlacedInOrder' /\ BatchesCompatible'
    BY <1>1, <2>1, SortUntouched, PlacedUntouched
  <2>3. PhaseInv'
    BY <1>1, <1>3, <2>1 DEF PhaseInv, Sorted, EndSort
  <2>4. QED
    BY <2>2, <2>3 DEF InvAll, PlaceInv
<1>4. CASE Place
  <2>1. SortInv'
    BY <1>1, <1>4, SortUntouched DEF Place
  <2>2. PlaceInv'
    BY <1>4, PlaceKeeps
  <2>3. QED
    BY <2>1, <2>2 DEF InvAll
<1>5. CASE Planned
  <2>1. UNCHANGED <<systems, edges, inDegree, queue, order, batches, placed>>
    BY <1>5 DEF Planned
  <2>2. SortInv' /\ PlacedInOrder' /\ BatchesCompatible'
    BY <1>1, <2>1, SortUntouched, PlacedUntouched
  <2>3. PhaseInv'
    BY <1>1, <1>5, <2>1 DEF PhaseInv, Planned
  <2>4. QED
    BY <2>2, <2>3 DEF InvAll, PlaceInv
<1>6. CASE UNCHANGED vars
  <2>1. UNCHANGED <<systems, edges, inDegree, queue, order, batches, placed, phase>>
    BY <1>6 DEF vars
  <2>2. SortInv' /\ PlacedInOrder' /\ BatchesCompatible'
    BY <1>1, <2>1, SortUntouched, PlacedUntouched
  <2>3. PhaseInv'
    BY <1>1, <2>1 DEF PhaseInv
  <2>4. QED
    BY <2>2, <2>3 DEF InvAll, PlaceInv
<1>7. QED
  BY <1>2, <1>3, <1>4, <1>5, <1>6 DEF Next

LEMMA InitAll == Init => InvAll
<1> SUFFICES ASSUME Init PROVE InvAll
  OBVIOUS
<1>1. SortInv
  BY InitSort
<1>2. /\ batches = <<>> /\ placed = 0 /\ phase = "sort" /\ order = <<>>
      /\ DOMAIN batches = {} /\ Len(order) = 0 /\ 1 .. 0 = {}
  BY DEF Init
<1>3. Positions = {}
  BY <1>2 DEF Positions
<1>4. batches \in Seq(Seq(Index))
  BY <1>2
<1>5. PlaceInv
  BY <1>2, <1>3, <1>4 DEF PlaceInv, PhaseInv, PlacedInOrder, BatchesCompatible
<1>6. QED
  BY <1>1, <1>5 DEF InvAll

(* The inductive invariant of the scheduler.                               *)
LEMMA SchedulerInvariant == Spec => []InvAll
<1>1. InvAll /\ [Next]_vars => InvAll'
  BY NextKeeps
<1>2. QED
  BY <1>1, InitAll, PTL DEF Spec
-----------------------------------------------------------------------------
(* What the invariant says of a finished plan.                             *)

(* The sorted list is as long as the stage when every system is in it, and *)
(* only then.                                                              *)
LEMMA FullOrder ==
  ASSUME SortInv
  PROVE  Len(order) = Len(systems) <=> Popped = Index
<1> DEFINE n == Len(order)
           T == 1 .. n
<1>1. systems \in Seq(Descriptor) /\ order \in Seq(Index) /\ n \in Nat
  BY DEF SortInv, SortType
<1>2. DOMAIN order = T /\ order \in [T -> Index]
  BY <1>1
<1>3. IsFiniteSet(T) /\ Cardinality(T) = n
  <2>1. 1 \in Int /\ n \in Int /\ (IF 1 > n THEN 0 ELSE n - 1 + 1) = n
    BY <1>1
  <2> HIDE DEF n
  <2>2. QED
    BY <2>1, FS_Interval
<1>4. IsFiniteSet(Index) /\ Cardinality(Index) = Len(systems)
  BY <1>1, Indices
<1>5. \A k, m \in T : order[k] = order[m] => k = m
  BY <1>2 DEF SortInv, PoppedInOrder
<1> HIDE DEF T
<1>6. order \in Injection(T, Index)
  BY <1>2, <1>5 DEF Injection, IsInjective
<1>7. n = Len(systems) <=> order \in Surjection(T, Index)
  BY <1>3, <1>4, <1>6, FS_Injection
<1>8. order \in Surjection(T, Index) <=> Popped = Index
  BY <1>2 DEF Surjection, Popped
<1>9. QED
  BY <1>7, <1>8

LEMMA OnceEach == InvAll => EachSystemOnce
<1> SUFFICES ASSUME InvAll, phase = "planned" PROVE
      /\ \A p, q \in Positions : SystemAt(p) = SystemAt(q) => p = q
      /\ {SystemAt(p) : p \in Positions} = Index
  BY DEF EachSystemOnce
<1>1. SortInv /\ PlacedInOrder /\ Len(order) = Len(systems) /\ placed = Len(order)
  BY DEF InvAll, PlaceInv, PhaseInv
<1>2. Popped = Index /\ DOMAIN order = 1 .. placed
  BY <1>1, FullOrder DEF SortInv, SortType
<1>3. {SystemAt(p) : p \in Positions} = Popped
  <2>1. \A p \in Positions : SystemAt(p) \in Popped
    BY <1>1, <1>2 DEF PlacedInOrder, Popped
  <2>2. \A x \in Popped : \E p \in Positions : SystemAt(p) = x
    BY <1>1, <1>2 DEF PlacedInOrder, Popped
  <2>3. QED
    BY <2>1, <2>2
<1>4. QED
  BY <1>1, <1>2, <1>3 DEF PlacedInOrder

(* Two places of one batch are one before the other.                       *)
LEMMA PlacesCompare ==
  ASSUME InvAll, NEW p \in Positions, NEW q \in Positions
  PROVE  /\ p[1] \in Nat /\ q[1] \in Nat
         /\ p[1] = q[1] /\ p # q => p[2] < q[2] \/ q[2] < p[2]
         /\ SystemAt(p) \in Index
<1>1. batches \in Seq(Seq(Index)) /\ Positions = PositionsOf(batches)
  BY DEF InvAll, PlaceInv, PlacedInOrder, Positions, PositionsOf
<1>2. \A r \in PositionsOf(batches) :
        /\ r[1] \in Nat /\ r[2] \in Nat /\ r = <<r[1], r[2]>>
        /\ batches[r[1]][r[2]] \in Index
  BY <1>1, PositionFields
<1>3. /\ p[1] \in Nat /\ p[2] \in Nat /\ p = <<p[1], p[2]>>
      /\ q[1] \in Nat /\ q[2] \in Nat /\ q = <<q[1], q[2]>>
  BY <1>1, <1>2
<1>4. p[1] = q[1] /\ p # q => p[2] # q[2]
  BY <1>3
<1>5. SystemAt(p) \in Index
  BY <1>1, <1>2 DEF SystemAt
<1>6. QED
  BY <1>3, <1>4, <1>5

LEMMA Separated == InvAll => ConflictsSeparated
<1> SUFFICES ASSUME InvAll, NEW p \in Positions, NEW q \in Positions,
                    p[1] = q[1], p # q,
                    NEW d \in Data, d \in systems[SystemAt(p)].writes
             PROVE  d \notin systems[SystemAt(q)].reads \cup systems[SystemAt(q)].writes
  BY DEF ConflictsSeparated
<1>1. CASE p[2] < q[2]
  <2>1. ~ Conflicts(systems[SystemAt(p)], systems[SystemAt(q)])
    BY <1>1 DEF InvAll, PlaceInv, BatchesCompatible, Compatible
  <2>2. QED
    BY <2>1 DEF Conflicts
<1>2. CASE q[2] < p[2]
  <2>1. ~ Conflicts(systems[SystemAt(q)], systems[SystemAt(p)])
    BY <1>2 DEF InvAll, PlaceInv, BatchesCompatible, Compatible
  <2>2. QED
    BY <2>1 DEF Conflicts
<1>3. QED
  BY <1>1, <1>2, PlacesCompare

LEMMA ConstraintsMet == InvAll => ConstraintsHold
<1> SUFFICES ASSUME InvAll, phase = "planned", NEW p \in Positions, NEW q \in Positions,
                    \/ Before(SystemAt(p), SystemAt(q)) /\ Once(systems[SystemAt(q)].fn)
                    \/ After(SystemAt(p), SystemAt(q)) /\ Once(systems[SystemAt(p)].fn)
             PROVE  p[1] < q[1]
  BY DEF ConstraintsHold
<1> DEFINE i == SystemAt(p)
           j == SystemAt(q)
<1>1. i \in Index /\ j \in Index /\ p[1] \in Nat /\ q[1] \in Nat
  BY PlacesCompare
<1>2. SortInv /\ SortType /\ PoppedInOrder /\ PlacedInOrder /\ BatchesCompatible
  BY DEF InvAll, SortInv, PlaceInv
<1>3. placed = Len(order) /\ DOMAIN order = 1 .. placed /\ placed \in Nat
  BY <1>2 DEF InvAll, PlaceInv, PhaseInv, SortType
<1>4. PICK d \in edges : d.from = i /\ d.to = j
  BY <1>1, <1>2, DeclaredEdges DEF SortType
<1>5. Ordered(systems[i], systems[j])
  BY DEF Before, After, Ordered
<1> HIDE DEF i, j
<1>6. PICK m \in 1 .. placed : j = order[m]
  BY <1>2 DEF PlacedInOrder, j
<1>7. PICK k \in 1 .. m - 1 : order[k] = i
  BY <1>2, <1>3, <1>4, <1>6 DEF PoppedInOrder
<1>8. k \in 1 .. placed /\ k < m
  BY <1>3, <1>7
<1>9. Earlier(p, q)
  BY <1>2, <1>6, <1>7, <1>8 DEF PlacedInOrder, i, j
<1>10. ~ (p[1] = q[1] /\ p[2] < q[2])
  BY <1>2, <1>5 DEF BatchesCompatible, Compatible, i, j
<1>11. QED
  BY <1>9, <1>10 DEF Earlier

(* What is never popped waits for something that is never popped.          *)
LEMMA RefusedIsCyclic ==
  ASSUME InvAll, phase = "refused"
  PROVE  Cyclic
<1> DEFINE S == Index \ Popped
<1>1. SortInv /\ queue = {} /\ Len(order) # Len(systems)
  BY DEF InvAll, PlaceInv, PhaseInv
<1>2. Popped \subseteq Index
  BY <1>1 DEF SortInv, SortType, Popped
<1>3. S # {}
  BY <1>1, <1>2, FullOrder
<1>4. edges \subseteq EdgeType
  BY <1>1, ConstraintsType DEF SortInv, SortType
<1>5. ASSUME NEW j \in S PROVE \E d \in edges : d.to = j /\ d.from \in S
  <2>1. Waiting(j) # {}
    BY <1>1 DEF SortInv, CountsExact
  <2>2. PICK d \in edges : d.to = j /\ d.from \notin Popped
    BY <2>1 DEF Waiting
  <2>3. d.from \in Index
    BY <1>4 DEF EdgeType
  <2>4. QED
    BY <2>2, <2>3
<1>6. S \in (SUBSET Index) \ {{}}
  BY <1>3
<1> HIDE DEF S
<1>7. QED
  BY <1>5, <1>6 DEF Cyclic

(* Of systems that wait for each other none is ever the first to be popped. *)
LEMMA SortedIsAcyclic ==
  ASSUME InvAll, phase \in {"batch", "planned"}
  PROVE  ~ Cyclic
<1>1. SUFFICES ASSUME NEW S \in (SUBSET Index) \ {{}},
                      \A j \in S : \E d \in edges : d.to = j /\ d.from \in S
               PROVE  FALSE
  BY DEF Cyclic
<1>2. SortInv /\ SortType /\ PoppedInOrder /\ Len(order) = Len(systems)
  BY DEF InvAll, SortInv, PlaceInv, PhaseInv
<1>3. Popped = Index
  BY <1>2, FullOrder
<1> DEFINE n == Len(order)
           T == {k \in 1 .. n : order[k] \in S}
<1>4. n \in Nat /\ DOMAIN order = 1 .. n
  BY <1>2 DEF SortType
<1>5. T # {}
  <2>1. PICK j \in S : TRUE
    OBVIOUS
  <2>2. j \in Popped
    BY <1>3
  <2>3. PICK k \in 1 .. n : order[k] = j
    BY <1>4, <2>2 DEF Popped
  <2>4. k \in T
    BY <2>3
  <2>5. QED
    BY <2>4
<1>6. T \in SUBSET (0 .. n)
  BY <1>4
<1> HIDE DEF T
<1>7. PICK k \in T : \A m \in T : k <= m
  BY <1>4, <1>5, <1>6, LeastNumber
<1> USE DEF T
<1>8. k \in 1 .. n /\ order[k] \in S
  BY <1>7
<1>9. PICK d \in edges : d.to = order[k] /\ d.from \in S
  BY <1>1, <1>8
<1>10. PICK m \in 1 .. k - 1 : order[m] = d.from
  BY <1>2, <1>4, <1>8, <1>9 DEF PoppedInOrder
<1>11. m \in T /\ ~ (k <= m)
  BY <1>4, <1>8, <1>9, <1>10
<1>12. QED
  BY <1>7, <1>11

LEMMA FirstRegisteredFirst == InvAll => RegistrationOrder
<1> SUFFICES ASSUME InvAll, NEW k \in DOMAIN order, NEW m \in DOMAIN order, k < m,
                    systems[order[m]].registration < systems[order[k]].registration
             PROVE  \E n \in k .. m : \E d \in edges : d.from = order[n] /\ d.to = order[m]
  BY DEF RegistrationOrder
<1>1. SortType /\ PoppedInOrder /\ Overtaken
  BY DEF InvAll, SortInv
<1>2. Len(order) \in Nat /\ DOMAIN order = 1 .. Len(order) /\ order[m] \in Index
  BY <1>1 DEF SortType
<1>3. \A x \in 1 .. k : order[x] # order[m]
  <2>1. ASSUME NEW x \in 1 .. k PROVE x \in DOMAIN order /\ x # m
    BY <1>2
  <2>2. QED
    BY <1>1, <2>1 DEF PoppedInOrder
<1>4. PICK d \in edges : d.to = order[m] /\ \A x \in 1 .. k - 1 : order[x] # d.from
  BY <1>1, <1>2, <1>3 DEF Overtaken
<1>5. PICK n \in 1 .. m - 1 : order[n] = d.from
  BY <1>1, <1>4 DEF PoppedInOrder
<1>6. n \in k .. m
  <2>1. ~ (n \in 1 .. k - 1)
    BY <1>4, <1>5
  <2>2. QED
    BY <1>2, <2>1
<1>7. QED
  BY <1>4, <1>5, <1>6
-----------------------------------------------------------------------------
(* The theorems.                                                           *)

(* A finished plan holds every system of its stage exactly once, however   *)
(* many systems there are and whatever they declare.                       *)
THEOREM OnceTheorem == Spec => []EachSystemOnce
<1>1. InvAll => EachSystemOnce
  BY OnceEach
<1>2. QED
  BY <1>1, SchedulerInvariant, PTL

(* At no time do two systems of one batch touch the same data unless both  *)
(* only read it: what the parallel executor relies on.                     *)
THEOREM SeparationTheorem == Spec => []ConflictsSeparated
<1>1. InvAll => ConflictsSeparated
  BY Separated
<1>2. QED
  BY <1>1, SchedulerInvariant, PTL

(* Every declaration about a function registered once puts the two systems *)
(* into batches in the declared order.                                     *)
THEOREM ConstraintsTheorem == Spec => []ConstraintsHold
<1>1. InvAll => ConstraintsHold
  BY ConstraintsMet
<1>2. QED
  BY <1>1, SchedulerInvariant, PTL

(* plan_stage panics on the stages with a cycle of constraints and on no   *)
(* others.                                                                 *)
THEOREM CyclesTheorem == Spec => []RefusesCycles
<1>1. InvAll => RefusesCycles
  BY RefusedIsCyclic, SortedIsAcyclic DEF RefusesCycles
<1>2. QED
  BY <1>1, SchedulerInvariant, PTL

(* A system runs after one that was registered later only when a           *)
(* constraint kept it waiting for a system sorted no earlier than that one. *)
THEOREM OrderTheorem == Spec => []RegistrationOrder
<1>1. InvAll => RegistrationOrder
  BY FirstRegisteredFirst
<1>2. QED
  BY <1>1, SchedulerInvariant, PTL
=============================================================================
