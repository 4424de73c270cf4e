------------------------------- MODULE Scheduler -------------------------------
(***************************************************************************)
(* How the systems of one stage become batches (src/scheduler.rs).         *)
(*                                                                         *)
(* plan_stage sorts the systems topologically by their before/after        *)
(* constraints, first registered first, and cuts the sorted list into      *)
(* batches whose systems may run at the same time.  The model takes one    *)
(* turn of either loop per step.                                           *)
(*                                                                         *)
(* Component and resource types are together the Data that accesses name.  *)
(* The queue is kept sorted by registration index in the code; here it is  *)
(* the set of its members, of which a least one is popped.                 *)
(***************************************************************************)
EXTENDS Integers, Sequences, FiniteSets

CONSTANTS
  Function,   \* system functions
  Data,       \* component and resource types
  Stages      \* the lists of systems to be planned

Descriptor == [fn : Function, registration : Nat, reads : SUBSET Data, writes : SUBSET Data,
               before : SUBSET Function, after : SUBSET Function]

ASSUME StagesAssumption == Stages \subseteq Seq(Descriptor)

VARIABLES
  systems,    \* the list that is being planned
  edges,      \* the constraints, as pairs of indices
  inDegree,   \* index -> constraints that still hold it back
  queue,      \* indices that nothing holds back
  order,      \* the sorted list so far
  batches,    \* the batches so far, the last one being the current one
  placed,     \* how many of `order' are in batches
  phase       \* "sort", "batch", "planned" or "refused"

vars == <<systems, edges, inDegree, queue, order, batches, placed, phase>>

Index == DOMAIN systems

-----------------------------------------------------------------------------
(* Constraints and accesses.                                               *)

Registered(f) == \E i \in Index : systems[i].fn = f

(* fn_id_to_index: of several registrations the map keeps the last.        *)
IndexOf(f) ==
  CHOOSE i \in Index : systems[i].fn = f /\ \A j \in Index : systems[j].fn = f => j <= i

(* One edge per declaration; functions outside the stage are ignored.      *)
Constraints ==
  (UNION {{[from |-> i, to |-> IndexOf(f), by |-> "before"] :
              f \in {g \in systems[i].before : Registered(g)}} : i \in Index})
  \cup
  (UNION {{[from |-> IndexOf(f), to |-> i, by |-> "after"] :
              f \in {g \in systems[i].after : Registered(g)}} : i \in Index})

(* Mutant: an edge declared from both sides counts once. *)
Predecessors(i) == Cardinality({d.from : d \in {x \in edges : x.to = i}})

InDegreeOf(i) == Cardinality({d \in edges : d.to = i})

(* Mutant: what the second system writes is not looked at. *)
ConflictsOneWay(s, t) == s.writes \cap (t.writes \cup t.reads) # {}

Conflicts(s, t) ==
  \/ s.writes \cap (t.writes \cup t.reads) # {}
  \/ s.reads \cap t.writes # {}

(* Mutant: only the constraints of the second system are looked at. *)
OrderedAfter(s, t) == s.fn \in t.after

(* System t must not run before s has finished. *)
Ordered(s, t) == s.fn \in t.after \/ t.fn \in s.before

-----------------------------------------------------------------------------
(* topological_sort.                                                       *)

(* Mutant: the queue is first in, first out, in any order at first. *)
Queued(i) == i \in queue

First(i) == i \in queue /\ \A j \in queue : systems[i].registration <= systems[j].registration

Pop(i) ==
  /\ phase = "sort"
  /\ First(i)
  /\ order' = Append(order, i)
  /\ inDegree' = [j \in Index |->
       inDegree[j] - Cardinality({d \in edges : d.from = i /\ d.to = j})]
  /\ queue' = (queue \ {i}) \cup {j \in Index : inDegree[j] > 0 /\ inDegree'[j] = 0}
  /\ UNCHANGED <<systems, edges, batches, placed, phase>>

(* Mutant: what is left in a cycle is dropped silently. *)
EndSortUnchecked == phase' = "batch"

(* The assertion after the loop. *)
EndSort == phase' = IF Len(order) = Len(systems) THEN "batch" ELSE "refused"

Sorted ==
  /\ phase = "sort"
  /\ queue = {}
  /\ EndSort
  /\ UNCHANGED <<systems, edges, inDegree, queue, order, batches, placed>>

-----------------------------------------------------------------------------
(* plan_stage.                                                             *)

(* System i cannot share the current batch.                                *)
Separate(i) ==
  LET current == batches[Len(batches)]
  IN  \E k \in DOMAIN current :
        \/ Conflicts(systems[current[k]], systems[i])
        \/ Ordered(systems[current[k]], systems[i])

Place ==
  /\ phase = "batch"
  /\ placed < Len(order)
  /\ LET i == order[placed + 1]
     IN  batches' = IF batches = <<>> \/ Separate(i)
                    THEN Append(batches, <<i>>)
                    ELSE [batches EXCEPT ![Len(batches)] = Append(@, i)]
  /\ placed' = placed + 1
  /\ UNCHANGED <<systems, edges, inDegree, queue, order, phase>>

Planned ==
  /\ phase = "batch"
  /\ placed = Len(order)
  /\ phase' = "planned"
  /\ UNCHANGED <<systems, edges, inDegree, queue, order, batches, placed>>

-----------------------------------------------------------------------------
Init ==
  /\ systems \in Stages
  /\ edges = Constraints
  /\ inDegree = [i \in Index |-> InDegreeOf(i)]
  /\ queue = {i \in Index : inDegree[i] = 0}
  /\ order = <<>>
  /\ batches = <<>>
  /\ placed = 0
  /\ phase = "sort"

Next ==
  \/ \E i \in Index : Pop(i)
  \/ Sorted
  \/ Place
  \/ Planned

Spec == Init /\ [][Next]_vars

-----------------------------------------------------------------------------
(* Properties of the finished plan.                                        *)

Positions == UNION {{b} \X DOMAIN batches[b] : b \in DOMAIN batches}

SystemAt(p) == batches[p[1]][p[2]]

(* Every registered system runs exactly once per stage: a plan is never    *)
(* short of a system and never has one twice.                              *)
EachSystemOnce ==
  phase = "planned" =>
    /\ \A p, q \in Positions : SystemAt(p) = SystemAt(q) => p = q
    /\ {SystemAt(p) : p \in Positions} = Index

(* Two systems that may run at the same time never touch the same data,    *)
(* unless both only read it, in whatever order they were declared.         *)
ConflictsSeparated ==
  \A p, q \in Positions :
    p[1] = q[1] /\ p # q =>
      LET s == systems[SystemAt(p)]
          t == systems[SystemAt(q)]
      IN  \A d \in Data : d \in s.writes => d \notin t.reads \cup t.writes

(* Declared by either side: i must run before j.                           *)
Before(i, j) == systems[j].fn \in systems[i].before
After(i, j)  == systems[i].fn \in systems[j].after

Once(f) == \A i, j \in Index : systems[i].fn = f /\ systems[j].fn = f => i = j

(* A system runs in an earlier batch than each system it was declared      *)
(* before, and in a later one than each it was declared after, if the      *)
(* function the declaration names is registered once.                      *)
ConstraintsHold ==
  phase = "planned" =>
    \A p, q \in Positions :
      LET i == SystemAt(p)
          j == SystemAt(q)
      IN  \/ Before(i, j) /\ Once(systems[j].fn)
          \/ After(i, j) /\ Once(systems[i].fn)
          => p[1] < q[1]

(* The same of every registration of the function named.                   *)
CopiesOrdered ==
  phase = "planned" =>
    \A p, q \in Positions :
      LET i == SystemAt(p)
          j == SystemAt(q)
      IN  i # j /\ (Before(i, j) \/ After(i, j)) => p[1] < q[1]

(* A set of systems each of which waits for another one of the set.        *)
Cyclic ==
  \E S \in (SUBSET Index) \ {{}} :
    \A j \in S : \E d \in edges : d.to = j /\ d.from \in S

(* A stage is refused when its constraints cannot be met, and only then.   *)
RefusesCycles ==
  /\ phase = "refused" => Cyclic
  /\ phase \in {"batch", "planned"} => ~Cyclic

(* A system is overtaken by a later registered one only while it waits for *)
(* a constraint: without constraints the order is that of registration.    *)
RegistrationOrder ==
  phase = "planned" =>
    \A k, m \in DOMAIN order :
      k < m /\ systems[order[m]].registration < systems[order[k]].registration =>
        \E n \in k .. m : \E d \in edges : d.from = order[n] /\ d.to = order[m]
=============================================================================
