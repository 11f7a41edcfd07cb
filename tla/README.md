# BDTK in TLA+

BDTK accelerates analytic SQL engines. *Cider* compiles a Substrait plan to native code and runs it
on batches of columns; *cider-velox* plugs Cider into the Velox engine as operators that Velox driver
threads call. This directory holds TLA+ models of the parts of BDTK that keep state between calls,
the TLC instances that check them, and TLAPS proofs. `PROJECT.json` maps each definition to the source
lines it translates, and lists components, hazards, findings, mutants and theorems.

Abbreviations: `velox/` is `src/cpp/src/cider-velox/src/`, `cider/` is `src/cpp/src/cider/`.

## 1. Inventory

| Part | State | Operations | What is hard |
|---|---|---|---|
| Join operators, `velox/CiderJoinBuild.*`, `CiderOperator.*` | `data_`, `future_`; the bridge's `data_` and `promises_`; `input_`, `buildTableFed_`, `buildSideEmpty_`, `finished_` | `addInput`, `noMoreInput`, `isBlocked`, `setData`, `dataOrFuture`, `getOutput`, `close` | many drivers of two pipelines, a barrier, promises registered while data is published, one shared batch that is moved |
| Group-by, `cider/exec/operator/aggregate/CiderAggHashTable.*`, `cider/exec/module/CiderRuntimeModule.cpp` | hash mode, key ranges, buffer with empty map, row skip mask, iterator | `processNextBatch`, `getGroupTargetPtr`, `rehash`, `fetchResults` | a batch that is aggregated in part, then rehashed and retried; a memory limit |
| Join hash tables, `cider/exec/operator/join/` | buckets, `size_`, `duplicate_num` | `emplace`, `reserve`, `rehash`, `merge_other_hashtables`, `findAll`, `clear` | wrap-around probes, duplicate keys, counts that a lookup trusts |
| Buffer manager, `cider/util/memory/BufferMgr/` | slabs of segments, `chunk_index_`, pins, last touches, slab size | `createBuffer`, `getBuffer`, `reserveBuffer`, `deleteBuffer`, `deleteBuffersWithPrefix`, `clearSlabs` | long sequences of splits, evictions and joins; failing allocations |
| Pipeline operator, `velox/CiderPipelineOperator.cpp`, `cider/exec/processor/` | `state_`, `has_result_`, `no_more_batch_`, output batch, `finished_` | `addInput`, `getOutput`, `noMoreInput`, `isBlocked` | the end of a pipeline; results flushed before the end |
| `CiderHashJoinBuild`, `CiderCrossJoinBuild`, `CiderStatefulOperator` | as the join and group-by operators | the same | the same, with another order of publishing and releasing |
| String dictionary and its proxies, `cider/type/data/string/` | two mapped files, a table of ids, cached hashes, four search caches; generation and transients of a query | `getOrAdd`, `getOrAddBulk`, `getLike`, `getCompare`, recovery; `getOrAddTransient` | growth, a kill between two writes, a bulk that fails half way, caches that insertions have to empty, writers that do not exclude each other |
| Plan transformer, `velox/planTransformer/`, `velox/ciderTransformer/` | the branches of a plan, match results, rewritten nodes; the plan itself, which is changed in place | `transformVeloxPlan` | branches that share nodes, matches that must not overlap, plans that a caller still holds |
| Recyclers, code cache, plan DAG cache, dispatch queue, watchdog (`cider/exec/template/`) | cached items, metrics, sizes; a task queue | put, get, evict, clear; submit, worker loop | little: nothing fills the recyclers and nothing uses the queue |
| Common hash tables, spill file window | cells; partitions | emplace, grow; next, previous | wrap-around |
| Plan parsing, code generation, data convertors, functions, codecs | none between calls | pure | correctness of translations: not a state machine |

How the parts interact: Velox calls the operators of a pipeline from one thread per driver. A join has
a build pipeline, whose last driver publishes all build rows through a bridge, and a probe pipeline,
whose drivers wait for the bridge and then compile their query with the build table. An aggregation
feeds its batches to the group-by table, and fetches the groups after the end of the input. The
newer `CiderPipelineOperator` does the same through a batch processor. Before any of this runs, the plan
transformer replaces sections of the Velox plan by Cider nodes. The buffer manager, the join hash tables
and the string dictionary are libraries below.

## 2. Modules

| Module | Models | State and actions |
|---|---|---|
| `JoinBuild` | the join operators and the bridge | one control point per driver (`bpc`, `ppc`). A handler is cut where it releases a mutex or fulfils a promise, and nowhere else: `noMoreInput` is `BuildNoMoreInput`, `BuildGather`, `BuildRelease`, `BuildPublish`, `BuildNotify`; `isBlocked` of the probe is `ProbePoll`, `ProbeTable`, `ProbeMove`, `ProbeCompile` |
| `JoinBuildProofs` | – | its theorems |
| `AggHashTable` | the group-by | one action per row outcome of a pass (`SkipRow`, `FilteredRow`, `OutOfRange`, `NoSlot`, `Aggregate`), then `BatchDone`, `Retry` (with the whole rehash) or `SpillNotSupported`; `NoMoreInput` and `FetchResults` |
| `AggTableLemmas` | – | lemmas about its operators, and its inductive invariant |
| `AggHashTableProofs` | – | its theorems |
| `JoinMultimap` | what a join hash table promises: a bag of rows | `Emplace`, `MergeOthers` |
| `LinearProbe` | `LinearProbeHashTable` | `Emplace` and `MergeOthers` start an operation; `Skip`, `Grow`, `Place` are its steps, one row at a time |
| `ChainedTable` | `ChainedHashTable` | one action per operation |
| `JoinTables` | `JoinHashTable`, which is one of the two by its type | both tables given the same calls in lockstep |
| `JoinTablesProofs` | – | the theorems of `LinearProbe` and of `JoinTables` |
| `BufferMgr` | the buffer manager | one action per operation; the operators `TakeFree`, `AddSlab`, `Evict`, `RemoveSegment`, `Reserve` are the functions of the code on a record of the pool |
| `BufferPoolLemmas` | – | lemmas about segments and slabs, up to `findFreeBuffer` |
| `BufferMgrProofs` | – | the other operations, its inductive invariant and its theorems |
| `PipelineOperator` | the pipeline operator with its stateless or stateful processor | `GetOutput`, `AddInput`, `AddInputFails`, `NoMoreInput`, `NoInput` as the Velox driver calls them |
| `PipelineOperatorProofs` | – | its theorems |
| `StringDictionary` | the dictionary | an insertion is cut at each write another thread or a kill can see: `getOrAdd` or `getOrAddBulk`, `ReadLocked`, `LocateOne` or `LocateBulk` (or `BulkFails`), `AppendPayload`, `AppendOffset`, `Publish`, `Count`; a search (`getLike`, `getCompare`) is one action; `Restart` is a kill followed by the constructor's recovery |
| `StringProxy` | `StringDictionaryProxy`, made by `RowSetMemoryOwner` | `addStringDict`, `getOrAddTransient`, `ProxyLike`, `ProxyCompare`, `ProxyRestart` |
| `StringLike` | `string_like` as an algorithm, and `LikeMeans`, what LIKE means | – |
| `PlanBranches` | `PlanBranches`, `PlanUtil`: the numbered branches of a plan and the paths through them | – |
| `PlanPatterns` | the patterns with their state machines, `StateMachine`, `PlanPattern` | – |
| `PlanTransformer` | `transformVeloxPlan` | one action per step of its loops: `matchFromSrcToTarget`, `matchSourceBranch`, `matched`, then `rewriteMatchResult`, `branchRewritten`, `rewriteAllBranches` |
| `SeqFilter` | – | `Those`, the elements of a sequence that are in a set; a recursive function, so that a proof can unfold it |
| `BasicLemmas` | – | lemmas for several proof modules |
| `MC...` | – | instances for TLC |

What stands for what:

- **Join.** A batch is a model value; some batches have no row (`empty`). The joined output is the set
  of pairs of a probe and a build batch, so a lost or an incomplete build table shows. Velox's
  barrier (`Task::allPeersFinished`), futures and driver loop are external and modelled from how the
  operators use them. Two probe drivers that move the shared batch at the same time race; the second
  may see it whole or moved from, and both outcomes are taken. The auxiliary `given` remembers which batches
  a probe driver got.
- **Group-by.** The aggregate is `COUNT(*)`, which tells apart each lost and each double row. A row is
  the sequence of group keys it contributes to: none when filtered, one without a join, several with
  one. MurmurHash is a constant function with collisions. `broken` marks a write outside the buffer or
  a row without a slot in a rehash.
- **Linear probing.** The hash masked by the table size is the constant operator `Home`, arbitrary
  within the table. Growing puts the old buckets in front of the work still to do, which is what the
  copy constructor of the code iterates over. The code creates linear tables with 16 buckets and chained
  ones with 16384, and both round the number up to a power of two; the instance starts both with 2, so that keys share buckets and the linear table grows.
- **Buffer manager.** Sizes are in pages; the order of the last touches replaces the epoch. Each
  operation is atomic because `DataMgr` serialises them (`buffer_access_mutex_`). `GrowBuffer` is the exception: a holder
  calls `Buffer::reserve` or `append` without that mutex, and the model still takes the call as one step; a
  `reserve` that needs no more pages changes nothing and is left out. Every allocation of a slab
  may fail. After the undefined read of `slab_segments_[0]` nothing more happens. The auxiliary `passed` names the
  buffers that a deletion of their prefix stepped over because they were pinned.
- **Pipeline operator.** A filter keeps the rows in `Selected`; a row in `Bad` makes the compiled query
  return an error code. An aggregate is the sequence of rows it has seen.
- **Strings.** A string is a short sequence of characters, because hashes, order and LIKE look inside it.
  The hash is the code's polynomial modulo `HashRange`. A canary, the pattern of bytes of a fresh page, is
  an entry of its own. The lock called `write_lock` in the insertions and searches is a shared lock,
  so it orders nothing between callers. `LocateOne` and `LocateBulk` grow the table and the cached hashes in one step, and
  the `CHECK_LT(str_count_, MAX_STRCOUNT)` of an insertion is left out, as no instance comes near it. The auxiliary `issued` and `given` remember what calls returned;
  `stale` names the cache entries that a bulk left behind when it failed after it had added strings.
- **Plans.** A plan is a heap of nodes with their kind and sources; node 1 is the root. A Cider node holds
  as `fragment` the kinds it stands for, so the meaning of a plan before and after can be compared. A
  branch is the list of nodes between two nodes with several sources, with the numbering of the code.

## 3. Runs

Passing runs:

| Run | Instance | Checked |
|---|---|---|
| `join` | 2 build and 2 probe drivers, 2 + 2 batches, any of the build batches empty, every distribution | `BridgeComplete`, `WaitersWoken`, `NeverFails`, `JoinComplete`, `TableKept`, `PipelinesEnd`, `WaitersResume` |
| `agg_hash_table` | 2 key columns of six values and null, 12 entries, 3 out of 15 batches of up to 7 rows, chunks of 2 | `ExactlyOnce`, `FailsOnlyWhenFull`, `OneRehashPerBatch`, `FetchedOnce`, `LookupFindsRow`, `InBounds`, `BatchEnds` |
| `string_dictionary` | 1 writer, 2 strings and a batch with a third that runs out of ids, 2 patterns to compare with (one of them never stored), 2 proxies, table and offset file that grow from 2, kills at every step | `LookupExact`, `IssuedStays`, `RoomLeft`, `ProxyIdsStay`, `CompareExact`, `LikeExact` |
| `buffer_pool` | 3 chunks (two share a prefix), 4 pages, slabs of 3 to 1, requests up to 2, up to 2 pins of a chunk | `Tiling`, `NoAdjacentFree`, `IndexExact`, `PinnedStays` |
| `join_tables` | 3 colliding keys, 2 values, up to 4 rows, 4 different merges | `HalfFull`, `Reachable`, `DuplicatesCounted`, `FindAllExact`, `KeepsRows` (refinement of `JoinMultimap`), `Drains`; `SameAnswers` of the two tables |
| `pipeline_operator` | both kinds of processor, up to 3 batches of up to 2 rows | `NothingLost`, `FlushedAtEnd`, `PipelineEnds` |
| `plan_transformer` | chains of three nodes, joins, joins of joins, a node with three sources; 6 settings of the pattern flags; 2 calls | `PlansKeepMeaning`, `MatchesDisjoint`, `NothingMissed` |

The `TypeOK` of `JoinBuild`, `BufferMgr` and `LinearProbe` is checked too. Each property has a mutant of the
code's model that breaks it. `MCStrings` also compares `string_like` with `LikeMeans` (the assumption `LikeAgrees`) on every string
and every well-formed pattern of up to three characters.

Some properties state what holds in spite of a flaw, and say where the flaw bites:

- A probe driver is `Robbed` when it compiles after another driver has moved the build batch away. `NeverFails`,
  `JoinComplete` and `PipelinesEnd` allow for such a driver and for nothing else. `JoinComplete` is a statement about each
  driver: one that is done and was not robbed has output exactly the batches it was given, each with every build
  row, even when another driver was robbed.
- `CompareExcused` names the patterns and operators for which `getCompare` answers wrongly (a pattern that is not
  stored and has exactly one smaller string; `<>` answered by the scan of `getEquals` for a stored string that is not
  in its cache; an entry a failed bulk left behind); `CompareExact` holds for all others. It is about the answer as the
  proxy passes it on, which nobody cuts off at the query's generation. Read off the sorted ids it is all
  stored strings, later ones than the query too; from the scan it is at least the strings of the generation,
  and for `<>` the count is in it as well, an id that no string has.
- `LikeExact` is about the generation for which the cached answer was made, because `like_cache_` does not tell generations apart.
- `IndexExact` lets a buffer be out of `chunk_index_` that a prefix deletion stepped over; the code does not take it out
  (run `buffer_prefix`).
- `NothingMissed` looks at every node of a returned plan and every path from it to the root. The exception (`Overlooked`) is a
  node that `splitPlanBranches` does not look at (`PlanBranches.cpp:45-50`): one in a branch that ends in a
  node with more than two sources, or below such a node. The instance has such a plan, and the property
  fails on it without the exception: sections below a node with three sources stay as they are.

Why the bounds are enough for the cases that matter:

- two build drivers give a last driver and a peer at every point of the barrier, and two probe drivers a
  move and a second move; the safety properties are also proved for any number of drivers;
- twelve entries for two columns of seven keys let each range grow more than once and use its reserve, then
  force the step to direct hashing, a full direct table and the failure;
- four rows over tables of 1 to 8 buckets grow the linear table twice from its initial size, and
  merges may shrink it first;
- four pages with slabs of up to three force a second, smaller slab, several failures in a row and
  evictions of runs that span used and free segments; the safety properties are also proved for any sizes;
- three strings make table, hash cache and offset file grow, also right after a recovery that sized them afresh; the largest valid id of 1 makes the batch fail after
  strings were added; two proxies have different generations and share one set of caches; a pattern
  that is never stored has none, one or two strings before it, so that it gets each kind of index;
- a join of a join on either side, with a node on each branch, has every kind of path through three levels
  of branches, and a second call meets the plan the first one changed.

Runs that show a disagreement between the code and what its comments say:

| Run | What the code does | What is written |
|---|---|---|
| `join_empty_side` | a probe driver that finds the shared batch moved away by another (`CiderOperator.cpp:139`) takes the build side for empty, needs no input and never finishes | `CiderOperator.cpp:131`: terminate the pipeline early |
| `buffer_prefix` | a pinned buffer deleted with its prefix stays in `chunk_index_` (`BufferMgr.cpp:645`), so it is found again after the unpin | `BufferMgr.cpp:643`: once unpinned, the buffer will be inaccessible |
| `pipeline_no_input` | an aggregation without input never becomes finished (`StatefulProcessor.cpp:37`) | `BatchProcessor.h:59`: finish processing and flush results |
| `string_compare` | `<` with a pattern that is not stored leaves out the only smaller string (`StringDictionary.cpp:722`) | `StringDictionary.cpp:713`: include it, except when the pattern is smaller than every string |
| `string_writers` | two callers add one string twice under the shared `write_lock` (`StringDictionary.cpp:1052`) | `StringDictionary.cpp:1057`: the bucket is computed again in case it changed before the lock |

Others were met while modelling and have no run. After a rehash, a row with several join matches is retried
from its first match, and the matches before the rehash count twice; nothing in the repository says what a
group-by over a join should count, so `ExactlyOnce` keeps account of them (`redone`). When the build drivers got no batch at all,
the last one reads `data_.front()` of an empty vector (`CiderJoinBuild.cpp:97`); the task of the model fails there, and
`NeverFails` and `PipelinesEnd` are about a build side with rows. With several probe drivers only the first one gets
the build rows, although `CiderJoinBuild.h:31` speaks of a hand-over "to a multi-threaded probe
pipeline"; `Robbed` in the properties of the join is this case. `BufferMgr.cpp:364` reads `slab_segments_[0]` of
an empty vector when every slab allocation so far has failed and the slab size was halved below the
request; the model ends there (`undefined`). `clear` of both join hash tables leaves `size_` (`BaseHashTable.h:73,76`),
and `reserve` of the chained one adds buckets without a rehash (`BaseHashTable.h:70`); no operator calls these, and they are
not actions of the models.

Deadlock is checked in all runs but three: in `buffer_pool` and `buffer_prefix` nothing follows the undefined read, and in
`plan_transformer` the callers stop after their last call.

### Fairness

- `JoinBuild`: weak fairness of each driver's steps. The Velox executor runs each driver that is
  not waiting for a future, and no step of one driver disables another's for good.
- `AggHashTable`: weak fairness of the steps of a batch and of a started fetch, which are loops on
  the caller's thread. Nothing makes the caller send another batch or ask for the first chunk.
- `JoinTables`: weak fairness of the steps of an operation of the linear table that is under way, which
  are loops on the caller's thread.
- `PipelineOperator`: weak fairness of `Next`; one driver thread runs the pipeline.
- `StringProxy`, `PlanTransformer` and `BufferMgr`: none; only safety is stated of them.

## 4. Proofs

The theorems hold for every value of the constants that satisfies the named assumptions.

**`JoinBuildProofs`** assumes a non-empty set of build drivers and that `None` is not a batch.
`BridgeComplete` is not inductive: that the published rows are all rows depends on no peer having
cleared its `data_` before the copy. The invariant `IInv` adds

- `Barrier`: the arrived drivers are exactly those past their input; at most one driver is past the
  barrier (`Leader`); each row is in some `todo` or `data_` until the leader has gathered it; a driver
  without a future that is done or closed was released by the leader, or the data is out;
- `Waiters`: the waiting probe drivers are exactly those with a promise, and there is none left in
  the bridge once the data is out;
- `Table`: the shared batch is whole or moved from, and in the latter case some driver has it whole; once a
  driver compiles, it is moved from;
- `NeverFails` itself, which needs `Table` to know why a driver has no table;
- `Joined`: a driver's table is whole or empty; its output is exactly the batches it was given, without the one it still has as
  input, each with every row of its table; and each probe batch is still to come or was given to a driver.

So an output can be incomplete only through a driver with an empty table, and `FedNothing` shows that such a
driver is `Robbed`.

The step lemmas treat one action per case (`TypeBuild`, `BarrierBuild`, `WaitersProbe`, ...).
Theorems: `IInvHolds`, `TypeCorrect`, `BridgeGetsAllRows`, `NoWaiterForgotten`, `TableNotLost`,
`FailsOnlyRobbed`, `JoinIsComplete`.

**`JoinTablesProofs`**, on the linear table alone, assumes that `Home` leads into the table and that every size up to twice
`MaxRows` can be rounded up to a bucket count. The four properties together are inductive, and none
is alone: `HalfFull` gives every probe an empty bucket to end at (`SlotExists`, by the least distance);
that bucket being the first empty one keeps `Reachable` (`PlacedReachable`); and `Reachable` is what
makes the probe pass all earlier rows of the key, so that `duplicate_num` stays exact (`PlacedCounted`).
Two results rest on this invariant. `findAll` trusts the first `duplicate_num` it meets: its scan is followed bucket by
bucket (`ScanDef` and the lemmas after it), and it ends exactly at the last row of the key. And the table implements
`JoinMultimap`: under the mapping `Rows`, which adds what is still in `todo` to what is in the buckets, the start of an
operation is a step of the bag, and `Skip`, `Grow` and `Place` are stutters (`RowsSteps`).
Theorems: `IInvHolds`, `TypeCorrect`, `LoadBounded`, `RowsReachable`, `DuplicatesRight`, `ImplementsMultimap`,
`FindAllCorrect`.

On both tables it adds nothing to these assumptions. `SameAnswers` says nothing about the state during an
operation, where the chained table is ahead of the linear one. `BothInv` relates the chained table to the bag: each row is
in the chain of its key as often as `Rows` says, and the two sizes differ by the rows in `todo`. Between operations
both tables thus hold the bag, and `FindAllExact` gives the answer of the linear one. Theorem: `TablesAgree`.

**`AggTableLemmas`** and **`AggHashTableProofs`** assume at least one key column, an entry limit of at least two, a type range that has zero,
and a hash function into the naturals. The invariant consists of

- `Types`;
- `Lookup`: a key has one row; the ranges cover the keys of the table even when a rehash is due, and unless one is
  due the buffer fits the ranges and each row is where its key hashes to;
- `Passes`: a row that a direct pass leaves found the table full; a row that a range pass leaves is covered by
  the grown ranges, so that after the rehash no row is left (needed for `FailsOnlyWhenFull` and `OneRehashPerBatch`);
- `Fetches`: the chunks returned are disjoint, and are the rows below the iterator;
- `ExactlyOnce`, which needs `Lookup` to know that an aggregation finds the one row of its key.

In range mode a slot is a number in mixed radix: `SlotsDef` unfolds the recursion that defines it, and
equal slots are shown to be equal keys column by column. A rehash reinserts row by row (`ReinsertedDef`), each into an empty slot.
Theorems: `InvHolds`, `RowsCounted`, `GroupsFound`, `WritesInBounds`, `GivesUpWhenFull`, `OneRehash`, `GroupsFetched`.

**`PipelineOperatorProofs`** bounds neither the number of batches nor their length. To `NothingLost` the
invariant adds that a filter's output batch is empty unless there is a result to take, that the driver takes it before it offers
input, and that the processor ends only after its input did. Theorems: `RowsKept`, `EndIsFlushed`.

**`BufferPoolLemmas`** and **`BufferMgrProofs`** assume a pool and slab sizes of at least one page, the smallest slab not
larger than the largest, prefixes that are sets of keys, and that `None` is not a key; `MaxRequest` and `MaxPins` are the bounds of the model, and any bounds do.
Neither the tiling nor the exact index is inductive alone: an eviction joins what it frees and cuts what it needs from it, and
only stays inside the slab because the segments it joins are consecutive; and deleting a key frees the segment
`chunk_index_` leads to, which empties the index of that key only if there was no second segment. `IInv` states of the pool

- `Sized`: types; each slab starts at page 0, each segment starts where the one before it ends, no two free
  ones are neighbours, a used one has pages, and the ends of the slabs add up to the allocated pages;
- `Exact`: the index is the keys in the slabs and the unsized ones, which are disjoint; a key has one
  segment; the keys with a last touch are those in the slabs. This is stronger than `IndexExact`: the code never
  has a buffer outside the index.

The operations all replace a run of segments by others that cover the same pages (`Covers`), and `PoolSplice` proves once
that this keeps `Sized`. `Exact` fails inside `reserveBuffer`, where a buffer that moves is held twice, so the
operations are described by which used segments went and came (`Allocated`, `Removed`, `Moved`), and `Exact` is
shown of their results (`ChangedOK`). Each step lemma also proves `Stays`: a pinned buffer the operation is not about keeps its segment, because an
eviction takes only unpinned ones. Theorems: `InvAlways`, `PoolTypes`, `PoolTiled`, `PoolJoined`, `PoolIndexed`, `PoolPinned`.

**`BasicLemmas`** has what these share. The prover cannot use an induction theorem with a predicate as
a parameter, so induction is stated with a set (`UpTo`: a set that has 0 and with each number the next has them all) and follows from the
well-foundedness of `<`; `RecursionExists` does the same for recursive functions, and from it each proof
module gets the equations of the functions it uses.

Only model-checked: all liveness properties (fairness is out of the prover's reach); everything about
the strings, whose properties hold with one writer and depend on what recovery reads back from the files at every
cut of an insertion; and the plan transformer, whose branches and paths are defined by recursion over the plan, so
that its properties need an induction over plans. That a call of `transformVeloxPlan` ends is not claimed.

## 5. What is not modelled

- Join plans of `CiderPipelineOperator`: the constructor of `DefaultBatchProcessor` calls `shared_from_this()`
  before any `shared_ptr` owns the object, so these processors cannot be made. Grouped plans: refused by
  the nextgen parser.
- Interleavings inside a buffer manager operation, buffer contents, dirty pages and the parent manager;
  `putBuffer`.
- String keys and count-distinct buffers of the group-by.
- Strings: `getOrAddBulkParallel` (off by default, and the hashing it relies on is a stub), `getBulk` (a stub),
  `getRegexpLike`, `copyStrings`, the translation maps and unions of proxies, the case-insensitive and the
  simple variants of LIKE, temporary dictionaries, the growth of the payload file, and `checkpoint` with the loss of
  power (a kill keeps what was written to the mapped files). Queries and a writer take turns between whole calls of
  the searches; the pointers `getStringBytes` returns after its unlock are not followed. The id
  `MAX_STRLEN + 1` that `getEquals` takes for an absent string does not exist in the instance.
- Plan transformer: match results across branches and rewriters that keep or delete a section (used only in tests), the
  left join state, which no pattern enters (for plans with more than two sources at a node see `NothingMissed` in section 3), the 32-bit width of branch ids, and the translation of a
  section to Substrait.
- `CiderHashJoinBuild` and `CiderCrossJoinBuild`: their probe side is one of the processors that cannot be made.
- Recyclers, which nothing fills: the one call that puts a hash table is in `OverlapsJoinHashTable`, which nothing
  instantiates. The dispatch queue has no user, and the hash tables of `cider/common` only tests and a
  context class.
- Code generation, parsing, conversions, functions and codecs: translations without state
  between calls, which a state machine says little about. They are most of the repository, so
  the mapped lines are a small share of it.
- Velox itself, and what it does after a task has failed.

## 6. Plan

1. `CiderStatefulOperator` composed with `AggHashTable`.
2. The buffer manager cut at its mutexes, with `Buffer::reserve` outside `DataMgr`'s lock.
3. Searches of the string dictionary cut at their reads, racing a writer.
4. The hash table of `cider/common/hashtable` and the partition window of the spill buffer, once something uses them.
5. Proofs: `LookupExact` and `IssuedStays` of the string dictionary with one writer.
