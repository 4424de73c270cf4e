# TLA+ specification of skesis

skesis is an archetype-based entity component system in Rust. This directory
holds TLA+ modules translated from its source, the TLC configurations that check
them on small instances, and theorems about them that TLAPS checks for every
value of the constants. Paths below are relative to the repository, so
`src/world.rs` is the crate's file of that name.

## The system

| Component | State | Operations | Works with |
|---|---|---|---|
| Entity allocator and archetype storage (`world.rs`, `archetype.rs`, `column.rs`, `bundle.rs`, `entity.rs`) | next index, generations, free stack, location of every index, archetypes (entity list and one column per type), column factories, four shortcuts to archetype ids, the componentless tail, the all-generations-zero flag | `spawn_empty`, `spawn_with`, `despawn`, `add_component`, `remove_component`, `set_component`, `register_component_type` | everything below reads or writes through it |
| Component lookup caches (`world.rs`) | per thread and per world one slot of raw pointers with generations and one for generation zero, keyed by component type and structural version | `get_component`, `get_component_mut`, the overwriting `add_component`; every structural operation bumps the version | raw pointers into the columns of the storage |
| Relationships and hierarchy (`relation.rs`, `world.rs`) | per relation type a pair set, targets by source, sources by target | `add_relation`, `remove_relation`, `despawn`, `despawn_recursive`, `ancestors`, `depth`, `find_up` | liveness from the allocator; called by `despawn` |
| Sparse storage (`sparse_set.rs`) | dense arrays and a sparse index per type | insert, remove, get, cleanup in `despawn` | chosen by `add_component` and others before the archetypes |
| Component toggles (`world.rs`) | disabled bits by type and index | `disable_component`, `enable_component` | cleared by `despawn`, `remove_component` and `load_state`, read by the toggled queries |
| Observers (`world.rs`) | `on_add`, `on_remove`, `on_set` functions per type | fired by add, remove, set, spawn on stored types | called with the world by shared reference |
| Change detection (`change.rs`, `world.rs`) | a version per column, a snapshot of bytes per reader | `track_changes`, `bump_change_version`, `snapshot_changes`, `for_each_changed`, `is_changed` | columns and rows of the storage |
| Stage scheduler (`scheduler.rs`, `system.rs`) | none: a function of the systems' accesses and constraints | `topological_sort`, `plan_stage` | plan cached by the application |
| Application, commands, events (`app.rs`, `command.rs`, `event.rs`) | systems and cached plan per stage, command buffers, event buffers | `add_system...`, `update`, `render`, `run_startup`, `shutdown`, `defer_command`, `emit_event` | runs batches of systems in parallel on one world |
| Snapshots (`snapshot.rs`, `world.rs`) | the serialised state | `save_state`, `load_state` | replaces storage and allocator |
| Queries and query plans (`world.rs`, `world_query.rs`, `query.rs`, `tuple_query.rs`) | plans of archetype ids; borrowed plans tagged with world id and structural version | callbacks, iterators, tuples, the cursor of `Query`; passes along a plan | rows and columns of the storage |
| Resources and parameters (`resource.rs`, `param.rs`, `unsafe_cell.rs`) | a map by type | insert, remove, get, `resource_scope` | declared accesses feed the scheduler |
| `#[system]` macro, plugins, facade, benches | none | | |

### What is hard

* **Swap-remove.** Every removal moves a second entity. Its location has to
  follow, in the same call, whichever archetype it is in and also when the
  removed row was the last one.
* **Shortcuts.** Archetype ids are cached by bundle type, by single component and
  per transition. No code path ever checks a cached id against the set it is for.
* **The tail and the flag.** `get_component` answers `None` above
  `componentless_tail_start`, and skips generations while
  `all_generations_zero` holds. Both are maintained incrementally in six places.
* **Raw pointers across calls.** The lookup slots keep pointers into `Vec`s; one
  structural path without a bump and a later call reads freed or shifted memory.
* **Cyclic relations.** Nothing keeps a relation acyclic, so every walk has to
  end, find each entity once, and survive edges that vanish while it removes.
* **Stages.** Systems of one batch run in parallel; order between batches,
  command merge order and event visibility all come from the stage runner, which
  also takes a stage's systems out of the app while it runs.
* **Tables by index.** Sparse components and disabled bits are kept by entity
  index alone; only the clean-up in a few calls keeps them from the next user of
  the index.
* **Plans.** A plan of archetype ids is run without any check, a borrowed one
  after one comparison and then without bounds.
* **Diffs by position.** A change reader compares frozen bytes with whatever row
  is now at the same offset.
* **Restores.** `load_state` swaps in an older world under handles, readers,
  slots and sparse components that belong to the newer one.

### What makes each component correct

* Storage: rows, columns and locations agree; no index is handed out twice or
  lost; a shortcut leads where the slow path would; tail and flag describe the
  location table; and the whole is a map from live handles to components.
* Lookup: a lookup answers with the place the storage has, whatever was cached
  when; a write through it changes that place only.
* Relationships: three indices hold the same edges; no edge outlives an end; the
  recursive despawn finds exactly the subtree and returns.
* Sparse components and toggles: the data follows the handle and not the index;
  a toggled query visits exactly the enabled rows.
* Observers: a call tells the difference it makes, once, with the entity's own
  value, of components in archetypes.
* Change detection: both readers agree, and are exact while rows stay in place.
* Queries: every way of asking gives the same rows, a plan gives what it was made
  for or refuses, a pass writes what its query names and nothing else.
* Scheduler: each system exactly once, constraints between and within batches
  respected, no conflicting pair in a batch, cycles refused.
* Application: commands are applied once, in the order of the plan; a stage
  commits its own events; a cached plan fits its systems.
* Snapshots: a load restores what the save saw and leaves rows, allocator and
  shortcuts sound, and the columns complete unless it has nothing to fill them with.

## Modules

| Module | What it is |
|---|---|
| `EntityComponents` | The abstract specification: live handles, each with a partial map from types to values. No archetypes, rows, caches. |
| `WorldStorage` | Allocator and archetype storage; one action per `World` call. Refines `EntityComponents`. |
| `WorldStorageProofs` | Theorems about `WorldStorage`: rows, locations, free stack, shortcuts, zero flag, tail, columns, types, and that it implements `EntityComponents`. |
| `ComponentLookup` | Extends `WorldStorage` with the pointer caches: the storage calls with their bump, and the three calls that go through a cache. |
| `Relationships` | Edges, the edge cleanup of `despawn`, and `despawn_recursive` one loop turn per step. |
| `Scheduler` | `topological_sort` and `plan_stage`, one loop turn per step, over any set of stages. |
| `Notifications` | Extends `EntityExtras`: the observer calls and column-version bumps of every call on the storage, sparse types included, and `set_component`. |
| `Queries` | Extends `WorldStorage`: every way to ask a query, plans of both kinds, and passes that write. |
| `EntityExtras` | Extends `WorldStorage`: sparse sets, disabled bits and the toggled queries. |
| `Snapshot` | Composes `WorldStorage` and `EntityExtras` with `save_state`, `load_state` and a restart. |
| `ChangeDetection` | One tracked type: its rows by archetype, what each call does to them, and the two change readers. |
| `StageRunner` | The app: registration, stages, parallel systems, command flush, events, panics. |
| `Concatenations` | Lemmas on the library's `FlattenSeq`, about no module of this project. |
| `StorageCallsProofs` | Theorems about `ComponentLookup`, `Notifications` and `Queries`: what callers of the storage are answered, what observers are told, what queries find. |
| `RelationshipsProofs`, `SchedulerProofs`, `StageRunnerProofs`, `SnapshotProofs`, `ChangeDetectionProofs` | Theorems about the module of that name; `SnapshotProofs` also about the `EntityExtras` it composes. |
| `MC...` | Instances of the module they extend, for TLC. |

### How `WorldStorage` corresponds to the code

The variables carry the names of the fields of `World` and `Archetype`
(`archetypeEntities[a]` is `archetypes[a].entities`, `columns[a][c]` is one
`TypedColumn`). Archetype ids and rows count from 1 here and from 0 in the code.
An action is a whole call: allocation, archetype creation, the row, the moved
entity's location, the transition caches and the tail change in one step, since
`&mut World` excludes every other caller. The paths of one function that touch
different caches are disjuncts (`Overwrite`, `AddFirst`, `AddAnother`), the
steps that several functions share are operators (`Allocate`, `MoveRow`,
`Vacated`, `RaiseTail`, `LowerTail`, `Retire`). A call that answers `false` or
`None` and changes nothing is not an action.

The column factories are modelled because an archetype gets columns only for the
types that have one when it is created: that a row move finds every column it
needs depends on each path registering in time.

What the same functions do besides belongs to other components: the bump of the
structural version is in `ComponentLookup`, the removal of edges in
`Relationships`, disabled bits and sparse values in `EntityExtras`, observers and
column versions in `Notifications`. None of that is read by the parts modelled
here, so each of those modules extends this one and conjoins its own effect to
the same action.

### How `ComponentLookup` corresponds to the code

A slot is valid while its type and structural version match. The version only
grows, so a slot that went stale never becomes valid again; the model has no
counter and marks every slot `Stale` where the code bumps the version. A raw
pointer is the archetype and row it was taken from: the columns of an archetype
do not move unless a structural call is made. Building a slot scans the rows as
the code does (`Holders`), and the generation-zero slot has the code's prefix
shortcut (`IdentityPrefixes`, `CoversTail`), which computes a pointer from the
index alone. The thread-local slots of `get_component` and the world's slots of
the two mutating calls are both there, and the properties range over both.
One thread and one world are modelled; the world id in the thread's key is left
out with them.

### How `Relationships` corresponds to the code

Lists are the code's `SmallVec`s with their order (append, swap-remove of the
first match), since order decides what `parent` and the walks see. Of the
allocator only the live indices and their generations are kept, and a spawn may
take any dead index: `WorldStorage` shows that the real one takes one of these.
`despawn_recursive` runs in steps (`Collect`, `BeginDespawning`, `DespawnNext`,
`EndDespawnRecursive`) so that its intermediate states are visible to the
invariants; while `walk` is not `Idle` no other call is enabled, because it holds
`&mut World`. `ancestors`, `depth` and `find_up` share one loop and change
nothing, so that loop is an operator, `UpwardPath`.

### How `Scheduler` corresponds to the code

`systems` is the slice that `plan_stage` gets: its length and descriptors are
chosen in `Init` from the constant `Stages` and never change. `edges`,
`inDegree`, `queue`, `order` and `batches` are the locals of the two functions;
the last batch is the one under construction. `Pop` is one turn of the `while`
loop with its whole inner loop, `Sorted` the assertion after it, `Place` one turn
of the batching loop. A declaration that both sides make gives two edges and an
in-degree of two, as in the code. The queue is a set from which the least
registration index is popped: the code keeps it sorted by that index at every
insertion. Registration indices need not be distinct, since
`add_system_descriptor` takes them from the caller; ties are popped in any order.
`u32` in-degrees cannot overflow with the number of declarations a program has.

### How `Notifications` corresponds to the code

Each action is the `EntityExtras` or `WorldStorage` action of the same call plus
`Tell`, which records the observer calls and version bumps of that call in the
code's order. Observers receive references, so the value of a call is read at the
location the step gave the entity (`InPlace`). `fire_on_add_by_type_id` reaches a
value through its column's stride and skips columns without one: a zero-sized
component that comes with a bundle is not announced, while `add_component` of the
same type announces it. `despawn` announces nothing. The branches of
`add_component` and `remove_component` for sparse types return before observers
and versions are reached (`src/world.rs:1683`, `1830`), and `set_component`, which
looks for the type in the archetype, hands a sparse component to `add_component`
whether the entity has it or not (`2893`): of sparse types nobody is ever told.

### How `Queries` corresponds to the code

The entry points of `World` differ in what bounds the walk: callbacks count the
entity list (`ForEach`), iterators zip entities with columns (`ZippedRows`),
`QueryTuple` builds a vector, `QueryIter` is a cursor that caches the length
(`IntoIter`, `Advance`). A plan is either archetype ids or chunks; a chunk keeps
what the code computed from the indices when it was made (`ContiguousIndexBase`,
`ContiguousIndexSum`) while its rows are read at each use, because the code keeps
slices. As with the lookup slots a structural call turns a borrowed plan into a
stale one, which `assert_fresh` refuses; a plan of ids is never refused. The
`_unchecked` variants skip that assertion and are meant for a plan the caller
knows to be fresh. Passes write one component to all they reach and touch no version.

### How `EntityExtras` and `Snapshot` correspond to the code

A sparse set is its three arrays, with 0 for the code's empty mark. Every access
looks at the index only, as in the code, and a writer stores its own handle, so
that a value in the wrong hands shows. `despawn` and `remove_component` are the
storage's actions with the clean-up of the side tables (`DespawnEntity`,
`RemoveStored`); the sparse branch of `remove_component` returns before the bit is cleared
(`RemoveSparse`), and `enable_component` asks for no live handle.

The toggled queries read columns, and after a load columns may be shorter than
the entity list. The iterators zip the two (`Zipped`) and end with the shorter;
the callbacks index a column by row and panic where it ends
(`ForEachCompletes`), so that what they visit (`ForEachToggled`) is said of calls
that return.

`Snapshot` saves once and loads at any later moment, into the same world or into
a new one without column factories (`NewWorld`). `LoadState` rebuilds what
`load_state` rebuilds and leaves what it leaves: factories and sparse sets. A
registered zero-sized type has its column back empty under a full entity list, an
unregistered type has no column. The world goes on: a call that
needs a value or a column that is not there panics in `Vec::swap_remove` or at an
`expect` of `archetype.rs` and ends the behaviour, every other call is a step
(`SpawnWithCompletes`, `AddComponentCompletes`, `RemoveCompletes`,
`DespawnCompletes`). Overwriting a value that a short column does not have changes
nothing, as on the direct path of `add_component`; its path through a lookup slot
is followed by `ComponentLookup`, for columns that are complete.

### How `ChangeDetection` corresponds to the code

Of the storage only the rows with the tracked type remain, per archetype in the
order of the archetypes; arrival, removal, move and write are what the storage
calls do to those rows. `Offset` is the running offset into the frozen bytes.
The bytes of a component are one value: the AVX2 and scalar comparisons compute
the same predicate. A behaviour tracks a type with a size or one without
(`sized`): the rows of the latter have no bytes, so they take no room in the
frozen bytes (`Bytes`, `End`) and none of them ever differs. The model remembers whose rows were frozen, for the properties
to ask; the readers see the values only. Which calls bump the version is shown by
`Notifications`; here the silent ones are `Despawn`, `Move`, `Overwrite` and
`LoadState`.

### How `StageRunner` corresponds to the code

`agenda` is the rest of the stages of the running call; `phase`, `plan` and
`todo` are the locals of `run_stage`. The systems of a batch that
`can_run_parallel_batch` accepts record into recorders of their own and finish
in any order; every other system is a group of one (`Groups`). A plan is any
that `Scheduler` promises (`PlansOf`), or the panic of a cycle. What systems and
commands do to entities is left to the other modules: a command is a name, and
executing it may defer another or emit an event.

A panic unwinds the call. The stage's systems and plan, which `run_stage` had
taken out of the maps, are gone; buffers stay as they are until the next stage
clears them; `startup_ran` stays unset. A caller that catches the panic may go
on, and the model does. What the host defers or emits between stages lies in the
same buffers.

## Runs

| Run | Bounds | States | Question |
|---|---|---|---|
| `storage` | 2 indices, generations 0 to 1, a sized type of 2 values, a zero-sized and a sparse one, bundle of the stored two | 73,216 | Do all archetypes, transitions and shortcuts keep rows, columns, locations and the free stack together, is the whole the abstract entity/component map, and do observers hear the difference? |
| `lookups` | 3 indices of 1 type and 2 values, or 2 indices of 2 types and 1 value; generations 0 to 1 | 21,923 | Are lookups exact and do writes reach their entity, for every point at which a slot was filled, also when it is refilled for another type and the prefix is one of several archetypes; tail and flag for every order of rows. |
| `relations` | 3 indices, one reused, 3 edges, 2 relations | 166,587 | Do the indices agree, do edges die with entities, does the recursive despawn find the subtree and return? |
| `scheduler` | 3 systems, 3 functions, up to 3 declarations, 3 accesses to one type, 7 registration orders | 320,146 | Is every plan complete, conflict-free and in order, and every cycle refused? |
| `queries` | 2 indices of 2 types with 4 queries (one type, excluded, optional, pair), or 4 indices of 1 type; one plan held | 192,005 | Do all ways of asking agree, what does a plan still reach after any calls, and what does a pass write? |
| `snapshot` | 2 indices, a sized, a zero-sized and a sparse type, 1 save, 7 programs | 223,532 | What do sparse sets, bits, columns and storage hold after any calls, saves, loads and restarts? |
| `changes` | 3 entities, 3 archetypes, a type with 2 values or one without size, one reader | 64,161 | What do the change readers report when rows arrive, leave, move and are restored? |
| `stages` | 1 stage of up to 3 systems, 2 commands or 2 events per stage, any number of stages | 1,084,916 | Are commands flushed in plan order for every interleaving, are events the stage's own and in order, does a cached plan fit after registrations and panics? |
| `despawn_silent` | 1 index, 1 type | violation | Does `on_remove` fire during `despawn`? |
| `scheduler_copies` | 3 systems of 2 functions, up to 2 declarations | violation | Does an ordering hold for every copy of a function? |
| `changes_arrivals` | 3 entities, 2 archetypes, 2 values | violation | Is every entity that got the component after the snapshot reported? |
| `stray_dropped` | 1 system, 1 command | violation | Is a command that the host defers applied at a flush? |

Why the bounds are enough. A swap-remove involves two rows, the removed and the
last one; three entities (`lookups`, `changes`) add one that must not be
touched, and make every position (first, middle, last) occur. Two types give four
archetypes, every transition between them, and four paths to the archetype of
both. One reuse of an index (generation 1) is what distinguishes a stale handle
from a live one. Three edges over three entities contain self loops, cycles of
two and three, shared children and a child with two parents; two relations show
that a despawn cleans both. Three systems and three declarations contain every
cycle of one to three systems, chains, forks, a pair declared from both sides,
and a system between two that only conflict with each other. Three systems in a
stage make a parallel batch of three, and exclusive systems before, after and
between; two commands make one that a command deferred, or two whose order can
be wrong; two events have an order. Four indices hold a chunk whose first and last
index are as far apart as its length says while those between are not consecutive,
the case in which a description of a chunk by its ends would be wrong. Loads meet
every world two indices can form.

`MaxEntities`, `MaxGeneration`, `MaxEdges`, `MaxSystems`, `MaxCommands`,
`MaxEvents`, `Archetypes` and `Programs` are the bounds; they appear as guards or
quantifier ranges. `Programs` says which facilities a behaviour of the `snapshot`
run uses together (each pair that interacts is there), so that their states add
up instead of multiplying. `StageRunner` further limits the host to one stray
command and one stray event between stages, `Snapshot` to one save,
`ChangeDetection` to loads of an empty world or of the reader's own. The wrap of
a generation is out of reach and not modelled.

`CHECK_DEADLOCK FALSE` is set for the storage runs and for `relations` and
`scheduler`, because the bounds, or the end of the plan, end every behaviour;
none of that code blocks. `changes` and `stages` are checked for deadlock: a stage
always goes on to its end or to a panic.

Four runs have a `CONSTRAINT`, a definition of their `MC` module. `lookups` takes
either three indices with one type or two indices with both (`Small`); `queries`
either two indices with both types or four with one type, a borrowed plan and one
despawn (`Small`): the hazards of many rows and of many archetypes are different
ones. `storage` has sparse components only beside at most two archetypes
(`FewBeside`): no call reads both. `stages` emits a second event only in a
stage without commands (`FewSteps`): the two buffers never meet.

`storage` gives TLC a `VIEW` of the storage's variables: `notified` and `bumped`
describe the last step, no step reads them, and the invariants of the run do not
mention them; `EventsExact` is checked on every step taken, not on states.
Symmetry is used for values, component types and entities where they are only
stored and compared; `relations` checks liveness and uses none.

### Fairness

`Relationships` assumes `WF_vars(WalkStep)`: `despawn_recursive` is one
synchronous function, so a call that was entered keeps executing. Nothing is
assumed about callers. `WalkTerminates` says that it returns, which is a property
of the loop and its visited set and would fail without either. No other module has
fairness. A flush need not end (its commands may defer for ever), so `StageRunner`
states no liveness; that nothing gets stuck within the bounds is its deadlock check.

### The findings

`despawn_silent`. The doc of `on_remove` says that it "Fires during
`remove_component` and `despawn`" (`src/world.rs:2838`). `despawn` discards the row
with its components and calls no observer: `RemovalsTold`, that every component an
entity loses is told, fails at the first despawn of an entity with one.
`EventsExact`, which the run `storage` checks, leaves the components of a despawned
entity open.

`stray_dropped`. The doc of `defer_command` says that the command is "to be applied
on stage command flush" (`src/world.rs:3421`). One deferred between stages lies in a buffer that the
`begin_stage` of the next stage clears (`src/command.rs:82`), so that no flush ever
meets it. `DeferredApplied` says that a command stays pending until it is executed as long as
nothing panics, and fails at that step. `FlushOrdered`, which the run `stages` checks, speaks of
the commands of systems only.

`scheduler_copies`. The scheduler resolves `before(f)` and `after(f)` through a
map from function to index that keeps the last registration. If `f` is registered
twice in a stage, which the tests do, the first copy is left where registration
order puts it, on the wrong side of the system that named it. The passing run
states the ordering for functions registered once, and checks that a plan with
copies is still complete and conflict-free.

`changes_arrivals`. `for_each_changed` and `is_changed` count rows from the start
of the frozen bytes, archetype after archetype. A row that was added to an earlier
archetype after the snapshot is compared with bytes of a later archetype, and is
not reported when they are equal, although both functions say in comments that
entities added since the snapshot count as changed (`src/world.rs:3757`, `3832`).
`GrowthReported` is the part that holds.

The models show more places where a doc and the code differ, or where the code
does what its callers might not expect, without a run of their own:

* `spawn_with((a, b))` where both values have one type compiles, since the tuple
  impls of `SpawnBundle` do not require distinct types. `component_set` then has
  one type and `push_components` pushes twice for one row (`PushBundle`), against the
  assertion in the query code (`debug_assert_eq!(entities.len(),
  components_a.len())`, `src/world.rs:2317`): later rows read an earlier entity's
  surplus value. The runs use bundles of distinct types, the theorems that need
  it say so (`BundlesDistinct`), and `NoShortColumnTheorem` shows that no row ever lacks a
  value;
* no observer and no column version hears of a sparse component, although the docs of
  `on_add`, `on_remove` and `set_component` (`src/world.rs:2877`) make no exception;
* a zero-sized component that comes with a bundle fires no `on_add`;
* of a zero-sized type no reader that has a snapshot reports an arrival: there are no
  bytes to outgrow it with (`src/world.rs:3758`, `3833`), against the comments at `3757`
  and `3832`;
* "version unchanged → nothing mutated since snapshot" (`src/world.rs:3737`) and
  "Bumped whenever the column may have been mutated" (`src/change.rs:197`) are not so:
  `get_component_mut`, an overwriting `add_component`, mutable queries, `despawn` and
  `load_state` change a column and bump nothing, so a reader reports nothing until some
  other call does. `UnmovedExact` has that condition in it, `bumped`;
* `load_state` "clears all existing entities, components" (`src/world.rs:3594`),
  but sparse components stay and then belong to whatever entity has the index
  (`SparseOwnersStayLive` excludes loads);
* columns of zero-sized types come back empty after a load, those of unregistered
  types not at all: `ColumnsStayAligned` says exactly when. Toggled iterators then pass over rows
  without a value, toggled callbacks panic (`ToggledExact`);
* a stage whose system panics is empty for good when the caller catches the panic
  (`Panic`).

## Proofs

Everything below holds for every value of the constants. Assumed are only the
named assumptions of the modules, which TLC evaluates on every run: bounds are
natural numbers, a bundle is a nonempty sequence of component types, sets of
stages and relations are what their names say, and the indices of `Relationships`
and the entities of `ChangeDetection` are finitely many, since an index is a `u32`. One hypothesis is stated with
each theorem that needs it: `BundlesDistinct`, that a bundle names each type once.
Without it `ColumnsAligned` fails at the first `spawn_with` of such a bundle.

| Theorem | States | Of |
|---|---|---|
| `LocationsTheorem`, `FreeIndicesTheorem`, `ShortcutsTheorem`, `ZeroFlagTheorem` | `LocationsMatchRows`, `FreeIndicesExact`, `ShortcutsResolve`, `ZeroFlagSound` | `WorldStorage` |
| `TailTheorem`, `TypesTheorem`, `NoShortColumnTheorem` | `TailExact`; `TypeOK`; no column is ever shorter than its rows, duplicate bundles included | `WorldStorage` |
| `ColumnsTheorem` | `ColumnsAligned`, if `BundlesDistinct` | `WorldStorage` |
| `RefinementTheorem` | `ImplementsEntityComponents`, if `BundlesDistinct` | `WorldStorage` |
| `LookupsTheorem`, `WritesTheorem`, `LookupRefinementTheorem` | `LookupsExact`, `WritesReachTheirEntity`, and that the storage with its caches is still the storage, if `BundlesDistinct` | `ComponentLookup` |
| `NotificationsTheorem` | `EventsExact`, if `BundlesDistinct` | `Notifications` |
| `IndicesTheorem`, `EdgesTheorem`, `SubtreeTheorem`, `DespawnsTheorem`, `AncestorsTheorem` | `IndicesAgree`, `EdgesLive`, `SubtreeCollected`, `DespawnsAll`, `AncestorsExact` | `Relationships` |
| `ChangedTheorem`, `UnmovedTheorem`, `GrowthTheorem` | `ChangedAgree`, `UnmovedExact`, `GrowthReported` | `ChangeDetection` |
| `OnceTheorem`, `SeparationTheorem`, `ConstraintsTheorem`, `CyclesTheorem`, `OrderTheorem` | `EachSystemOnce`, `ConflictsSeparated`, `ConstraintsHold`, `RefusesCycles`, `RegistrationOrder` | `Scheduler` |
| `PlansTheorem`, `EventsTheorem`, `FlushTheorem` | `PlanCovers`, `EventsCommitted`, `FlushOrdered` | `StageRunner` |
| `StorageSoundTheorem`, `LoadTheorem`, `DisabledTheorem`, `SparseSetsTheorem`, `SparseOwnersTheorem`, `ToggledTheorem` | `StorageSound`, `LoadRestoresSaved`, `DisabledHaveComponent`, `SparseSetsAgree`, `SparseOwnersStayLive`, `ToggledExact` | `Snapshot` |
| `ColumnsStayAlignedTheorem` | `ColumnsStayAligned`, if `BundlesDistinct` | `Snapshot` |
| `QueriesTheorem`, `ReachTheorem`, `FreshTheorem`, `PassesTheorem` | `QueriesExact`, `PlansReachPlanned`, `FreshPlansExact`, `PassesWriteTheirQuery` | `Queries` |

The definition of each property is in the module that a run checks; the theorems
repeat none of it.

### Storage: rows

None of the first three properties is inductive alone. Swap-remove finds the entity
to fix by reading the last row, so locations need the tables' types and lengths, and
a spawn that reuses an index needs to know that the index has no location, which
is the free stack's invariant; the free stack in turn needs that a handle found
alive has a location. A row moved along a cached transition lands in an archetype
whose existence is only known from the shortcuts. So the inductive invariant is
`RowsInv == RowsType /\ RowsMatch /\ FreeIndicesExact /\ ShortcutsResolve`.

The proof follows the code's layering. `Corresponds` states the correspondence for
arbitrary tables, and three lemmas show it survives each pure edit: a row taken
out by swap-remove with its fix (`TakeOutMatches`), a row pushed (`PushMatches`),
an archetype created (`GrowMatches`). Shortcuts survive any step that adds only
resolved entries (`ShortcutsStep`). Each operation is then a composition of
these, one lemma per action, joined in `NextKeepsRows`. The flag needs only itself.

### Storage: tail, columns, types

The tail is lowered by a downward scan that starts at the old tail, so `TailInv` only
needs the rows besides itself. `Repositions(i, id)` says what a call does as far
as the tail can see: one index now is in archetype `id`.

`ColumnsInv` is stated with `Aligned` and a relation `Fits` between the
number of values and of rows: equality when bundles are distinct, "at least" otherwise.
One proof then gives both `ColumnsTheorem` and `NoShortColumnTheorem`; the latter says
that the one defect the duplicate bundle causes is surplus values, never a row
without one. The factories are part of the invariant because a new archetype has
columns only for registered types.

### Refinement

The abstract state is `[live handle -> its components' values]`. Every operation has
to leave all other handles' values alone, although a swap-remove moves another entity's
row and the fix of its location is a separate assignment: `TakeOutHolds` and
`PushHolds` say so for arbitrary tables, `MoveHolds` for the move between archetypes.
`PutsValue`, `TakesValue`, `EndsHandle` and `IssuesHandle` name "this handle's map changed so,
the others' did not"; one lemma per call says which of them it is, and `PutStep`, `TakeStep`,
`DespawnStep` and `SpawnStep` turn them into steps of `EntityComponents`. `GenerationsBounded` is needed
for handles to be abstract handles. Since the handle of a spawn is new, not just the index,
the proof also says that no handle ever becomes alive twice.

### Lookups

The invariant has two halves that need each other. A slot built now answers what the
locations say (`SlotsExact`, `AnswerExact`: rows, tail and zero flag are in
order). A slot that is not stale is the slot that would be built now (`CacheInv`), because
a call that moves a row marks all slots stale and a write moves none; but that
a write moves nothing else is known only if the slot it goes through is right. So
`LookupInv == WorldInv /\ CacheInv`, with slots read off the rows (`RowZeroSlot`,
`RowGenerationSlot`) and `Aligned` columns standing between the two.

### Observers

`NotificationsTheorem` reuses the proof of the refinement. `PutsValue`, `TakesValue`,
`EndsHandle` and `IssuesHandle` say what a call did to the maps of the live handles, and the
lemmas `PutsHoldings`, `TakesHoldings`, `EndsHoldings` and `IssuesHoldings` what appears among
the holdings and what is lost by each. What is left is to compare that with the calls made, which is
immediate where there is one call or none (`AddedExact`, `RemovedExact`, `ReplacedExact`,
`NobodyCalled`); `spawn_with` makes one call per sized component of a tuple, a concatenation
in which no call is made twice because no type occurs twice (`BundleCallsProperties`). A step on
a sparse type leaves the holdings and calls nobody. That an
observer's reference is to the entity's own value is `InPlaceExact`; the value handed to
`on_remove` is read before the move, and is the one the entity had.

### Queries

`QueryInv == StorageInv /\ PlanInv`. Which rows a query finds is a matter of one state:
every way of asking walks the archetypes in the order of their ids and gives some rows of
each, so that its answer is a concatenation, and sound tables (`RowsMatch`, columns no
shorter than their rows) make it one of the right entities, each once (`RowsAnswer`). The
other walks are then shown to be the callbacks' walk for a query with fewer parts
(`SameWalk`), and the cursor to stand at the k-th row of it after k calls
(`CursorStands`): the archetypes its search skips give no rows (`NextArchetypeSkips`).
`BundlesDistinct` is not needed: surplus values at the end of a column reach no query,
because the entity list bounds every walk or is the shortest sequence zipped.

What a plan says is about two states. `PlanInv` keeps, for a plan of ids, that they are the matching
archetypes among the first so many (`MatchedThen`): archetypes are only ever added and
never change their set, which is all such a plan rests on. For a borrowed plan it keeps that the
chunks are those that would be made now: a call that moves a row makes the plan stale, and a pass
or an overwrite moves none (`PassKeepsColumns`, `ChunksStay`). The sum of a chunk is computed by a closed
form; `CountedTotals` shows that the recursive sum of consecutive indices is that form.

### Concatenations

`FlattenSeq` is a recursive function inside a library module, and no induction theorem can be used on
it. `FlattenProperties` characterises it all the same: `Starts` and `Concatenates` say where each part
begins and what stands there, and the greatest number of parts for which that holds is all of them.
`FlattenMembers` and `FlattenDistinct` say whose elements it has and when none occurs twice,
`FlattenConcat` and `FlattenTwice` that it takes concatenations to concatenations. `ToggledExact`,
the plans, the flush, every property of the queries, the change readers and the calls of a spawn rest on it.

### Relationships

`EdgesInv` says that the three representations of a relation are one set of edges between
live handles, without repetition in a list and without empty lists. `WalkInv` is the invariant of a depth-first walk: what was
found or is on the stack is below the root, and what is below something found is found or
on the stack, so an empty stack means the subtree (`CollectedSubtree`). In the
second loop what is left of the list is alive if the root was, each entry with an index
of its own: the removal of one cannot invalidate another.

`AncestorsExact` compares the walk upwards, a recursive function, with a least closed set.
`IsPath` is the invariant of its loop: what was seen so far is a path of first targets without
repetition. A path has no more entities than there are indices, so the walk has stopped before
its bound, and it stops only where there is no target or one that the path already holds.
What such a path holds behind its start is closed under first targets, and every closed set holds
it, entity after entity.

### Change detection

`ChangeInv` says that an entity has one row at most, among the rows and in the snapshot, and that
without a call that bumps the version no entity has come that the snapshot did not have. What the
two readers report is then a matter of one state. `ReportMeaning` reads the list of
`for_each_changed` as a concatenation of the chosen rows of each archetype. `OffsetMeaning` says that
the running offset is the place where an archetype begins among the rows as they are now, and
`FrozenMeaning` where it began among the frozen ones. When no row moved the two are equal
(`UnmovedRows`); when rows only arrived behind the frozen ones, an archetype begins no earlier than
it did (`StartsOrder`), nothing frozen is behind the archetype that grew (`StartsEnd`), and an arrival
is therefore beyond the snapshot, where both readers report it unseen.

### Scheduler

`SortInv`: the in-degree of a system counts its edges from systems not popped yet, the
queue holds those with none, and a system that registered earlier than the one popped was
waiting then (`Overtaken`). A refusal then means that everything left waits for
something left, which contains a cycle; a cycle means that its first popped member
had a predecessor not popped. `PlaceInv`: the batches, read one after the other, are the
sorted list as far as it was placed, and the members of a batch are compatible.

### Stages and snapshots

`StageInv` has three parts. `RunInv` says where the running call is, `PlanInv` that the plan
taken out of the cache still fits the systems it will be put back for (a registration in
between clears the cache), `EventsInv` that what was emitted is in the buffers that
`EndStage` will read, in that order.

`FlushOrdered` takes four more steps. A command is a name, of the system or command that deferred
it and its number there, and `WellNamed` says that the names in use have no gaps; what a sequence of
systems or commands has deferred is then `Deferrals`, a concatenation. While the stage runs, `Ran`
says that the buffer holds the deferrals of the groups already run, in the order of the plan.
Recorders of a parallel batch are merged by registration, whichever system finished first; since a
batch of a plan is already in that order, the stable sort of `merge_buffers` is the identity
(`MergeKeepsOrder`), and the commands land where a sequential run had put them. During the flush,
`Flushes` says that what was executed, taken and buffered is what the systems deferred, followed
by what all of that deferred in turn: an equation between the sequence and itself, kept by each
command that is executed or defers. At last `LevelsFlatten` shows that a sequence for which it holds
is the levels read one after the other, because a level consists of longer names than the last and
there are finitely many commands. None of these is the host's (`NoneOfHost`), since the stage began by
clearing what the host had deferred.

`StoreInv` is what the storage knows of itself, kept by ordinary calls by the lemmas
above. A load replaces all of it by tables from a snapshot and recomputes locations, the
tail and the flag. So `SavedInv` says that a snapshot is itself a sound world
(`SnapshotSound`), and `RestoredLocationsExact` and `RestoredMaxExact` that the loops of
`load_state` compute what the saved world had. `DisabledInv` rests on
what each call does to the archetype of one entity (`Reshapes`): a bit stays only where
the component does. `SparseInv` is the correspondence of the sparse and the dense array,
which `AgreeWithout` shows to survive a swap-remove.

Columns are not part of it, since a load may leave them short or missing. What stays true all the
same is `TypedColumns`: every column belongs to a registered type of its archetype and holds values, since a
call that returns found what it moved (`AddKeepsTyped`, `RemoveKeepsTyped`). Where such columns are
complete they are what the proofs about `WorldStorage` know of columns (`TypedAligned`), so that
`ColumnsStayAlignedTheorem` follows from the lemmas there; for a load it follows from what
`RestoredColumns` fills (`LoadColumns`). `ToggledExact` needs no columns to be complete: `ZippedRows`
counts how far the iterators reach, and a row of a wanted entity is reached when it has a value in
each column.

### Least and greatest

Facts that one would prove by induction over an index (a scan that stops at the right place,
a cycle among finitely many systems) are proved from a greatest or least counterexample,
which `GreatestIndex` and `LeastNumber` provide from the well-foundedness of strict
inclusion on finite sets.

### Only model-checked

* `WalkTerminates`: liveness. That the walk cannot go on for ever follows from the visited
  set, but the theorem needs fairness and `ENABLED`.

## Not modelled

* Memory layout: alignment, SIMD index lists, the AVX2 byte comparison, and the
  rounding of the `f32` index sum.
* `Archetype::push_entity` and `swap_remove_entity` with boxed values: `World`
  never calls them. `changed_bitset` and `has_changes`: only unit tests
  call them.
* Resources and system parameters: a typed map whose aliasing rules are the
  access conflicts that `Scheduler` checks. `resource_scope` moves a resource out
  while a closure runs; a panic in it loses the resource.
* The reset of relationships by `load_state`, one assignment of an empty store.
* The `#[system]` macro, plugins, the facade and the benches: no state.
* The wrap of `u32` generations and `u64` versions.
* Systems' effects on entities during a stage: parallel systems only read the
  world, exclusive ones and commands run alone, so the storage modules cover them.

## Plan

Every invariant and action property that a run checks has a theorem; liveness has not. What is left is to
state more: the wrap of `u32` generations, which the model bounds away, would need an
allocator in which a handle can come to life again, and the reset of relationships by
`load_state` a composition of `Snapshot` with `Relationships`.

None of these modules declares a `RECURSIVE` operator; what is recursive in them is
a function, and what it computes is characterised by greatest counterexamples.
