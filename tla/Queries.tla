-------------------------------- MODULE Queries --------------------------------
(***************************************************************************)
(* Queries over the archetype storage and the plans made for them          *)
(* (src/world.rs, src/world_query.rs, src/tuple_query.rs).                 *)
(*                                                                         *)
(* A query names the component types an entity must have, those it must    *)
(* not have, and those it gets when they are there.  The code has many     *)
(* entry points for it, which differ in how they walk the rows: callbacks  *)
(* over the entity list, iterators zipped with the columns, vectors built  *)
(* per archetype, and the cursor of the system parameter Query.            *)
(*                                                                         *)
(* A plan remembers what a query matched: archetype ids that are never     *)
(* checked again, or slices into the columns that are checked against the  *)
(* structural version.  As in ComponentLookup the version is not kept: a   *)
(* structural operation turns a borrowed plan into a stale one, whose      *)
(* asserts refuse every use.  Callbacks may write through the references   *)
(* they get.                                                               *)
(***************************************************************************)
EXTENDS WorldStorage, SequencesExt

CONSTANTS
  Queries,   \* the queries that are asked
  Planned    \* those of them that are planned for

Query == [with : SUBSET Component, without : SUBSET Component, optional : SUBSET Component]

ASSUME QueriesAssumption == Queries \subseteq Query /\ \A q \in Queries : q.with # {}

(* No plan takes an optional type, a borrowed one no excluded type.        *)
ASSUME PlannedAssumption == Planned \subseteq Queries /\ \A q \in Planned : q.optional = {}

VARIABLE plan      \* the plan a caller holds, or NoPlan

queryVars == <<vars, plan>>

NoPlan == [kind |-> "none"]

-----------------------------------------------------------------------------
(* What a query matches and what it hands out.                             *)

(* Mutant: the exclusion is forgotten. *)
MatchesRequired(a, q) == q.with \subseteq archetypes[a]

(* The filter of every query: it looks at the component set only.          *)
Matches(a, q) == q.with \subseteq archetypes[a] /\ q.without \cap archetypes[a] = {}

(* Optional types are resolved once per archetype, by column.              *)
Fetched(a, q) == q.with \cup (q.optional \cap DOMAIN columns[a])

(* Archetype::components, the slice of one column. *)
Components(a, c) == columns[a][c]

Item(a, r, types) ==
  [entity |-> archetypeEntities[a][r], values |-> [c \in types |-> Components(a, c)[r]]]

Rows(a, types) == [r \in DOMAIN archetypeEntities[a] |-> Item(a, r, types)]

(* The callback queries of World: the rows counted by the entity list.     *)
ForEach(q) ==
  FlattenSeq([a \in DOMAIN archetypes |-> IF Matches(a, q) THEN Rows(a, Fetched(a, q)) ELSE <<>>])

(* The same walks on the views that split_resource_ref and _mut hand out.  *)
ViewForEach(q) ==
  FlattenSeq([a \in DOMAIN archetypes |->
                IF q.with \subseteq archetypes[a] THEN Rows(a, q.with) ELSE <<>>])

(* The iterator queries: entities zipped with the columns, as far as the   *)
(* shortest reaches.                                                       *)
ZippedRows(a, types) ==
  LET shortest == Min({Len(archetypeEntities[a])} \cup {Len(Components(a, c)) : c \in types})
  IN  [r \in 1 .. shortest |-> Item(a, r, types)]

IteratorQuery(q) ==
  FlattenSeq([a \in DOMAIN archetypes |-> IF Matches(a, q) THEN ZippedRows(a, q.with) ELSE <<>>])

OptionalQuery(q) ==
  FlattenSeq([a \in DOMAIN archetypes |->
    IF q.with \subseteq archetypes[a] THEN ZippedRows(a, Fetched(a, q)) ELSE <<>>])

(* QueryTuple::fetch, one vector per archetype.                            *)
FetchTuples(a, q) == Rows(a, q.with)

QueryTuple(q) ==
  FlattenSeq([a \in DOMAIN archetypes |->
                IF q.with \subseteq archetypes[a] THEN FetchTuples(a, q) ELSE <<>>])

-----------------------------------------------------------------------------
(* QueryIter, the cursor behind the system parameter Query.                *)

(* A tuple of fetches matches when each does: an optional one always does. *)
TupleMatches(a, q) == q.with \subseteq archetypes[a]

(* The next archetype with rows to visit, from a on, or one past the last. *)
NextArchetype(q, a) ==
  Min({b \in a .. Len(archetypes) : TupleMatches(b, q) /\ archetypeEntities[b] # <<>>}
        \cup {Len(archetypes) + 1})

(* The length is read when the cursor enters the archetype. *)
Enter(q, a) ==
  [archetype |-> NextArchetype(q, a),
   row       |-> 0,
   length    |-> IF NextArchetype(q, a) > Len(archetypes) THEN 0
                 ELSE Len(archetypeEntities[NextArchetype(q, a)])]

IntoIter(q) == Enter(q, 1)

(* Mutant: the search for the next archetype starts at the current one. *)
AdvanceSticky(q, it) ==
  IF it.row < it.length THEN [it EXCEPT !.row = @ + 1]
  ELSE LET next == Enter(q, it.archetype)
       IN  IF next.archetype > Len(archetypes) THEN next ELSE [next EXCEPT !.row = 1]

(* QueryIter::next: the row after the current one, else the first row of   *)
(* the next archetype that has any.                                        *)
Advance(q, it) ==
  IF it.row < it.length THEN [it EXCEPT !.row = @ + 1]
  ELSE LET next == Enter(q, it.archetype + 1)
       IN  IF next.archetype > Len(archetypes) THEN next ELSE [next EXCEPT !.row = 1]

(* Fetch::read at the cursor; a null column pointer gives no value. *)
FetchItem(q, it) == Item(it.archetype, it.row, Fetched(it.archetype, q))

(* The items of n calls of next, as long as it returns any. *)
Iterated(q, n) ==
  LET cursor[k \in 0 .. n] == IF k = 0 THEN IntoIter(q) ELSE Advance(q, cursor[k - 1])
      returned == {k \in 1 .. n : cursor[k].archetype <= Len(archetypes)}
  IN  [k \in returned |-> FetchItem(q, cursor[k])]

-----------------------------------------------------------------------------
(* Plans.                                                                  *)

(* Mutant: archetypes without rows are left out, as a borrowed plan does.  *)
NonemptyMatching(q) ==
  FlattenSeq([a \in DOMAIN archetypes |->
                IF Matches(a, q) /\ archetypeEntities[a] # <<>> THEN <<a>> ELSE <<>>])

MatchingArchetypes(q) ==
  FlattenSeq([a \in DOMAIN archetypes |-> IF Matches(a, q) THEN <<a>> ELSE <<>>])

(* plan_query_pair(_without) and plan_query_mut(_without): archetype ids.  *)
PlanQuery(q) ==
  /\ plan' = [kind |-> "archetypes", query |-> q, archetypes |-> MatchingArchetypes(q)]
  /\ UNCHANGED vars

(* Mutant: only the ends are compared. *)
ContiguousByEnds(indices) ==
  IF indices # <<>> /\ indices[Len(indices)] - indices[1] = Len(indices) - 1
  THEN indices[1] ELSE None

(* The first index when the others follow it one by one (the wrap of u32   *)
(* is out of reach of the indices bound).                                  *)
ContiguousIndexBase(indices) ==
  IF indices # <<>> /\ \A k \in DOMAIN indices : indices[k] = indices[1] + k - 1
  THEN indices[1] ELSE None

(* The closed form of the sum of the indices (f32 rounding is left out).   *)
ContiguousIndexSum(base, len) == (len * (2 * base + len - 1)) \div 2

(* A chunk points at the rows of archetype a.  Its length and what was     *)
(* computed from its indices are kept; the rows are read at each use.      *)
Chunk(a) ==
  LET indices == [r \in DOMAIN archetypeEntities[a] |-> archetypeEntities[a][r].index]
      base    == ContiguousIndexBase(indices)
  IN  [arch    |-> a,
       len     |-> Len(indices),
       base    |-> base,
       sum     |-> IF base = None THEN None ELSE ContiguousIndexSum(base, Len(indices)),
       indices |-> IF base = None THEN indices ELSE <<>>]

(* plan_query_pair_borrowed and plan_query_mut_borrowed: a chunk for every *)
(* matching archetype that has rows.                                       *)
Chunks(q) ==
  FlattenSeq([a \in DOMAIN archetypes |->
                IF Matches(a, q) /\ archetypeEntities[a] # <<>> THEN <<Chunk(a)>> ELSE <<>>])

PlanBorrowed(q) ==
  /\ q.without = {}
  /\ plan' = [kind |-> "borrowed", query |-> q, chunks |-> Chunks(q)]
  /\ UNCHANGED vars

(* for_each_pair_with_plan, for_each_mut_with_plan and their chunked forms: *)
(* every planned archetype, as it is now.                                  *)
ForEachWithPlan ==
  LET ids == plan.archetypes
  IN  FlattenSeq([k \in DOMAIN ids |-> Rows(ids[k], plan.query.with)])

(* assert_fresh: the use of a stale plan panics.                           *)
AssertFresh == plan.kind = "borrowed"

(* The slices of a chunk, with full entities or with entity indices only.  *)
EntitySlices(chunk) == [r \in 1 .. chunk.len |-> Item(chunk.arch, r, plan.query.with)]

IndexedSlices(chunk) ==
  [r \in 1 .. chunk.len |->
     [index  |-> archetypeEntities[chunk.arch][r].index,
      values |-> [c \in plan.query.with |-> Components(chunk.arch, c)[r]]]]

(* for_each_chunk and for_each_row.                                        *)
ForEachChunk == FlattenSeq([k \in DOMAIN plan.chunks |-> EntitySlices(plan.chunks[k])])

(* With the chunk's metadata a caller that is given a base counts from it  *)
(* and never reads the indices; the others take the collected ones.        *)
CountedIndex(chunk, r) == IF chunk.base = None THEN chunk.indices[r] ELSE chunk.base + r - 1

(* for_each_indexed_chunk_meta, as such a caller uses it.                  *)
ForEachIndexedChunk ==
  FlattenSeq([k \in DOMAIN plan.chunks |->
    [r \in 1 .. plan.chunks[k].len |->
       [IndexedSlices(plan.chunks[k])[r] EXCEPT !.index = CountedIndex(plan.chunks[k], r)]]])

(* for_each_indexed, with the stored indices. *)
ForEachIndexed == FlattenSeq([k \in DOMAIN plan.chunks |-> IndexedSlices(plan.chunks[k])])

-----------------------------------------------------------------------------
(* Writing through the references a mutable query hands out.               *)

(* Column c of archetype a with v in its first `len' rows. *)
Overwritten(a, c, len, v) ==
  [columns[a] EXCEPT ![c] = [r \in DOMAIN @ |-> IF r <= len THEN v ELSE @[r]]]

Written(ids, len(_), c, v) ==
  [a \in DOMAIN columns |-> IF a \in ids THEN Overwritten(a, c, len(a), v) ELSE columns[a]]

RowCount(a) == Len(archetypeEntities[a])

(* Mutant: the filter of the read-only twin is missing. *)
UnfilteredPass(q, c, v) == Written({a \in DOMAIN archetypes : c \in archetypes[a]}, RowCount, c, v)

(* for_each_mut, for_each_mut_without and for_each_pair_second_mut.        *)
DirectPass(q, c, v) == Written({a \in DOMAIN archetypes : Matches(a, q)}, RowCount, c, v)

(* for_each_mut_with_plan and its chunked forms. *)
PlannedPass(c, v) == Written(ToSet(plan.archetypes), RowCount, c, v)

(* for_each_indexed_chunk of a borrowed mutable plan. *)
BorrowedPass(c, v) ==
  LET chunks == ToSet(plan.chunks)
  IN  Written({chunk.arch : chunk \in chunks},
              LAMBDA a : (CHOOSE chunk \in chunks : chunk.arch = a).len, c, v)

(* No pass touches the structural version. *)
Pass ==
  /\ \E c \in Component, v \in Value :
       \/ \E q \in Queries : c \in q.with /\ columns' = DirectPass(q, c, v)
       \/ plan.kind = "archetypes" /\ plan.query.with = {c} /\ columns' = PlannedPass(c, v)
       \/ AssertFresh /\ plan.query.with = {c} /\ columns' = BorrowedPass(c, v)
  /\ UNCHANGED <<allocator, entityLocations, tail, archetypes, archetypeEntities,
                 columnFactories, caches, plan>>

-----------------------------------------------------------------------------
(* Mutant: the operation forgets to bump the structural version. *)
KeepPlan == UNCHANGED plan

(* bump_structural_version refuses every borrowed plan from now on.        *)
BumpPlan == plan' = IF plan.kind = "borrowed" THEN [kind |-> "stale"] ELSE plan

Reshaping ==
  \/ SpawnEmpty
  \/ \E b \in Bundle : \E value \in [Types(b) -> Value] : SpawnWith(b, value)
  \/ \E e \in Handle : Despawn(e)
  \/ \E e \in Live, c \in Component, v \in Value :
       c \notin archetypes[LocationOf(e).arch] /\ AddComponent(e, c, v)
  \/ \E e \in Handle, c \in Component : RemoveComponent(e, c)

Replacing(e, c, v) ==
  /\ IsAlive(e)
  /\ c \in archetypes[LocationOf(e).arch]
  /\ AddComponent(e, c, v)

QueryInit == Init /\ plan = NoPlan

QueryNext ==
  \/ Reshaping /\ BumpPlan
  \/ \E e \in Handle, c \in Component, v \in Value : Replacing(e, c, v) /\ UNCHANGED plan
  \/ \E q \in Planned : PlanQuery(q)
  \/ \E q \in Planned : PlanBorrowed(q)
  \/ Pass

QuerySpec == QueryInit /\ [][QueryNext]_queryVars

-----------------------------------------------------------------------------
(* Properties.                                                             *)

(* What a query is meant to answer, by entity and component only.          *)
Asked(q) ==
  {e \in Live : /\ q.with \subseteq DOMAIN ComponentsOf(e)
                /\ q.without \cap DOMAIN ComponentsOf(e) = {}}

Expected(q, e) ==
  LET types == (q.with \cup q.optional) \cap DOMAIN ComponentsOf(e)
  IN  [entity |-> e, values |-> [c \in types |-> ComponentsOf(e)[c]]]

Answers(items, q, entities) ==
  /\ Len(items) = Cardinality(entities)
  /\ ToSet(items) = {Expected(q, e) : e \in entities}

(* Every way of asking finds exactly the live entities that have the       *)
(* required components and none of the excluded ones, each once and with   *)
(* its own values, wherever the rows have been moved to; the cursor of     *)
(* Query returns them in the order of the callbacks and then nothing.      *)
QueriesExact ==
  \A q \in Queries :
    LET all       == [q EXCEPT !.without = {}]
        plain     == [q EXCEPT !.optional = {}]
        required  == [q EXCEPT !.without = {}, !.optional = {}]
    IN  /\ Answers(ForEach(q), q, Asked(q))
        /\ Answers(IteratorQuery(q), plain, Asked(q))
        /\ Answers(OptionalQuery(q), all, Asked(all))
        /\ Answers(ViewForEach(q), required, Asked(required))
        /\ Answers(QueryTuple(q), required, Asked(required))
        /\ Iterated(q, Cardinality(Asked(all)) + 2) = ForEach(all)

(* A plan of archetype ids is run without any check, however many          *)
(* entities have come, gone and moved since it was made: it visits each    *)
(* entity at most once, only live ones that match, with their values, and  *)
(* misses only those of archetypes that are younger than the plan.         *)
PlansReachPlanned ==
  plan.kind = "archetypes" =>
    LET missed == {a \in DOMAIN archetypes : Matches(a, plan.query)} \ ToSet(plan.archetypes)
    IN  /\ Answers(ForEachWithPlan, plan.query,
                   {e \in Asked(plan.query) : LocationOf(e).arch \notin missed})
        /\ \A a \in missed, b \in ToSet(plan.archetypes) : a > b

(* A borrowed plan that its asserts accept gives what a new query would:   *)
(* every slice still ends where its archetype does, and the indices a      *)
(* caller counts up from a chunk's base, and their sum, are those stored.  *)
FreshPlansExact ==
  plan.kind = "borrowed" =>
    /\ ForEachChunk = ForEach(plan.query)
    /\ ForEachIndexedChunk = ForEachIndexed
    /\ \A k \in DOMAIN plan.chunks : plan.chunks[k].base # None =>
         LET total[r \in 0 .. plan.chunks[k].len] ==
               IF r = 0 THEN 0 ELSE total[r - 1] + IndexedSlices(plan.chunks[k])[r].index
         IN  plan.chunks[k].sum = total[plan.chunks[k].len]

(* A mutable pass, direct or by a plan, changes the component it names of  *)
(* the entities it is meant to reach, whatever value is written, and       *)
(* nothing else of any entity; a fresh borrowed plan reaches every entity  *)
(* of its query.                                                           *)
PassesWriteTheirQuery ==
  \A c \in Component :
    LET writes(result, entities) ==
          \A e \in Live : \A d \in archetypes[LocationOf(e).arch] :
            result[LocationOf(e).arch][d][LocationOf(e).row] =
              IF e \in entities /\ d = c THEN "written" ELSE ComponentsOf(e)[d]
    IN  /\ \A q \in Queries : c \in q.with => writes(DirectPass(q, c, "written"), Asked(q))
        /\ plan.kind = "archetypes" /\ c \in plan.query.with =>
             writes(PlannedPass(c, "written"),
                    {e \in Asked(plan.query) : LocationOf(e).arch \in ToSet(plan.archetypes)})
        /\ plan.kind = "borrowed" /\ c \in plan.query.with =>
             writes(BorrowedPass(c, "written"), Asked(plan.query))
=============================================================================
