# Semantic DB in TLA+

Models, model-checking runs and machine-checked proofs for Semantic DB, a
query engine in Rust that puts one relational interface with business meaning
over databases, files and APIs. The modules are translated from the code under
`src/`; `PROJECT.json` says, definition by definition, which lines each of
them stands for.

## 1. The system

About 50 000 lines of Rust in twelve crates and two applications. Most of it is
pure: documents are validated, intents bound, plans lowered, SQL rendered. What
is hard to test is where several tasks or processes share something, where
something is half done when its owner goes away, or where a check and the use
of what it checked are apart.

| Component | State | Operations | Hard part | What makes it correct |
|---|---|---|---|---|
| Materialization cache, `semantic-materialization` | a directory of generations, one `CURRENT` file per key, lock and lease files, retained batches in memory | `resolve`, `invalidate`, `status`; eviction and memory admission inside `resolve` | several processes on one directory, death at any point, expiry by a wall clock, budgets | a pointer names a whole generation; readers keep theirs; budgets hold; one fetch per key; no stale data after an invalidation |
| Native write sessions, `semantic-postgres/write.rs`, `semantic-engine/reads.rs` | a transaction handle, its session, the lease of a pooled connection | `begin`, `query`, `execute_write`, `commit`, `rollback`, autocommit `apply`; expiry | dropped futures, deadlines, lost acknowledgements, four parties that want one lease | the reported outcome agrees with the database; a transaction is all or nothing; nothing unfinished goes back to the pool |
| Read sessions and guarded reads, `semantic-engine/reads.rs` | a pinned snapshot, a completion guard | `query`, `collect`, streaming | a stream dropped before its end | a result is complete or an error |
| Prepared writes, `semantic-engine/writes.rs` | a plan pinned to a binding generation | `prepare_write`, `explain`, `execute` | a plan executed after what it was prepared against has changed | a stale plan is refused before anything is written |
| Materialized views in a query, `semantic-engine/materialization.rs` | none of its own | `execution_frame` | age limits and revisions along view dependencies | a view is never older than the policies on the way to it allow |
| Deferred providers, `semantic-engine/deferred.rs` | an LRU of live providers, an admission counter, a semaphore | `provider`, `report` | cancelled waits, one key resolved twice | the bounds hold and admission slots come back |
| Query context, `semantic-runtime` | budgets, a deadline, a cancellation flag | `charge_*`, `run`, `cancel` | a wake-up lost between a check and a wait | a cancelled query stops; budgets are never passed |
| Catalog store, `semantic-catalog` (`publication.rs`, `snapshot.rs`, `search.rs`) | the current snapshot; per snapshot its dependents, search index and seed | `snapshot`, `publish`, `search_index` | optimistic publication; incremental validation and reports; indexes updated lazily by readers | no lost update; incremental and full validation agree; reports leave nothing out; indexes fit |
| Compiler caches, `semantic-compiler/typed/dependency_cache.rs`, `cache.rs` | analyses with the lookups they made | `get_or_build` | callers with different snapshots share one identity | a cached analysis is what a fresh one on the caller's snapshot would be |
| Compiler of query graphs, `semantic-compiler/typed/graph*`, `scalar.rs` | none between calls | order, bind, combine and transform nodes | what a node promises (nullability, grain) composed through operators; two forms of every plan | promises hold of the rows; set operators and compositions count as defined; both forms agree |
| Row queries, plans, Ossie import | none | bind, lower, convert | size, not state | tested, not modelled |
| ClickHouse, files, sources | none shared | scans | I/O | not modelled |
| Interpreter | a bounded conversation with a model | interpret, repair | retries | not modelled |
| Server and CLI | sessions, admission | request handlers | shutdown | not modelled |

How they interact: the engine plans SQL with DataFusion over registered
providers. A provider may be deferred (resolved at its first scan), may be
replaced by a materialized generation while a query is planned
(`execution_frame` calls `resolve` for each relation with a policy, in
dependency order), or may be bound to a native session (`Transaction` rebinds
every relation of the session's commit domain). Every scan charges the query
context it runs under, and is awaited through its `run()`, which drops it when the query
is cancelled or late. A compiled query graph was resolved in one catalog snapshot. A transaction's writes stage their input through the
same path and then call the session.

## 2. Modules

| Module | What it is |
|---|---|
| `SnapshotStore` | what the cache promises: per key one visible snapshot, always whole; a reader keeps its own |
| `Materialization` | the cache: files, locks, leases, fills, eviction, deaths |
| `MaterializationProofs` | theorems about it and their proofs: pointers, readers, budgets, single flight |
| `MaterializationRefinement` | the theorem that it implements `SnapshotStore` |
| `MCMaterialization` | sizes for its runs |
| `AtomicWrites` | what native writes promise: transactions that end at one moment, truthfully reported |
| `WriteSession` | transactions, sessions, leases, autocommit, and the server as they use it |
| `WriteSessionProofs` | theorems about them and their proofs, that they implement `AtomicWrites` among them |
| `MCWriteSession` | sizes for its run |
| `AnalysisCache` | the cache of compiler analyses and the calls that share it |
| `AnalysisCacheProofs` | theorems about it and their proofs |
| `MCAnalysisCache` | small catalogs and sizes for its runs |
| `ExecutionFrame` | the relations of a query, their limits and identities, over an atomic cache |
| `ExecutionFrameProofs` | refreshes, one generation per frame, age limits, proved |
| `MCExecutionFrame` | a small catalog with policies and queries for its runs |
| `CatalogStore` | the catalog: publication, incremental validation, snapshots and their search indexes |
| `CatalogStoreProofs` | theorems about it and their proofs |
| `MCCatalogStore` | a library of definitions and batches of changes |
| `QueryGraph` | the compiler of query graphs and what its nodes compute |
| `QueryGraphProofs` | the order, nullability, grains and rows of the compiler, proved |
| `MCQueryGraph` | graphs, row queries and predicates |
| `QueryContext` | cancellation, deadline, `run()` and budgets of a query |
| `DeferredProviders` | providers resolved at the first scan, their cache, locks and permits |
| `QueryScans` | the two together: scans that a query awaits through `run()` |
| `QueryScansProofs` | theorems about the three and their proofs |
| `MCQueryPath` | catalog, graphs, scans and charges, side by side in one run |
| `MCServing` | sessions and providers, side by side in one liveness run |

### 2.1 Materialization

*Requests* are calls of `resolve` and `invalidate`; each belongs to a *manager*,
which stands for a process. `pc` says where a call is in the code:

| `pc` | in `lib.rs` |
|---|---|
| `probe`, `reprobe` | the two looks at `CURRENT` in `resolve`, each under `catalog.lock` |
| `lock_refresh`, `lock_writer`, `lock_catalog` | waiting in `lock()` |
| `evict`, `evict_remove` | the loop of `evict()`, before and after `CURRENT` is removed |
| `fill` | the batches of the stream are written |
| `publish` | the manifest is written, `catalog.lock` is awaited |
| `abort` | an error is on its way out and `Unpublished` is about to be dropped |
| `reading` | the provider and its streams are in use |
| `inv_refresh`, `inv_catalog` | `invalidate` |

The steps are as small as the code's visible effects: each lock taken, the
scan of `evict`, each removal of a pointer and of a directory, each batch, the
manifest, the rename. What happens under `catalog.lock` without an effect in
between (read the manifest, take the shared lease) is one step. Locks are
advisory file locks, so a death (`Crash`) releases those of its process, loses
its memory and its leases, and leaves the directory it was working on in any
state that work can leave: `Debris`. A death in `fill` leaves a directory
without a manifest or, with `TornManifest`, with half of one; a death in
`remove_dir_all` leaves any part of what was there. `remove_dir_all` may also
fail half way while its process lives on (`RemovalFails`, in `evict` and in the
drop of `Unpublished`, which ignores the error). Deaths and failed removals
draw on one bound, `MaxFaults`. A wait for a lock and an eviction that finds
too little to remove end in `GiveUp`.

Abstractions. Bytes are units; a batch decodes to one unit and takes one to
`MaxEncoded` units of file. The clock counts seconds in `0..MaxClock` and may
jump both ways. The query's own `max_cache_age_ms` and the schema revision are
folded into policy and key. A generation's name is taken from those nothing
mentions any longer, in place of an unbounded supply of unique names. Power
loss (unsynced data) is not modelled, only the death of a process. A stream has
at least one batch. A fill's budget is no larger than the disk budget: with a
larger one `evict` refuses at once, before any effect.

### 2.2 WriteSession

A *handle* is an explicit `Transaction` or one autocommit (`WriteConnection::apply`).
`call` is the future in progress on it:

| `call` | in the code |
|---|---|
| `ready` | between calls (autocommit: between two awaits of `apply`) |
| `binding` | `execute_write` and `query` before anything is scanned: `inspect_target`, `validate_operation`, `read_provider` |
| `scanning` | `SessionPartition::execute` |
| `applying` | `PgSession::apply` |
| `committing`, `rolling` | `finish(true)`, `finish(false)` awaited by the caller |
| `gone` | consumed or dropped |

`poisoned` is the handle's flag, `broken` the session's; they differ, and the
code relies on both. `lease` is the option inside the session's mutex.
`finishing` is a lease that `finish` has taken out, `finisher` who awaits it:
the caller, or the task that `SessionOperation::drop` spawned (`cleanup` until
it runs). A request put on a connection stays there when its future is
dropped; only the `wanted` flag is cleared, and the answer is discarded. A
closed connection may still run what it was sent before the server notices.

The server is external: statements in order, writes that wait for `SHARE ROW
EXCLUSIVE` locks, errors that fail the transaction, `COMMIT` of a failed
transaction answered without an error, connections that are lost. A database
error answering `COMMIT` is taken to mean that the transaction was rolled back,
as in the code. The SQL of a mutation, its rows and the isolation level are
abstracted to the set of tables written. Two deadlines of a handle (its own and
the session's, a moment apart) are one `Expire`. Not modelled: read-only
sessions, receipt-pinned reads, `create_table`, `inspect` outside a session.

`AtomicWrites` is what all this promises to callers: transactions that are
`idle`, `open` or `over`, tables that one open transaction at a time may change, an
`End` at which everything that was accepted becomes durable or nothing does, and
one `Tell` that must be true then and for ever. `ImplementsWrites` maps a handle to
the transaction that the server has on its connection (`Begun`), its changes
(`WrittenBy`) and the owners of locks (`HolderOf`); `accepted`, `durable` and `outcome` are
the same in both.

### 2.3 AnalysisCache

A *call* is one `get_or_build`; it brings an identity and the catalog snapshot
its caller holds.

| `pc` | in `dependency_cache.rs` |
|---|---|
| `idle` | before the call and after it |
| `waiting` | `lock.lock().await` |
| `building` | `build().await`, with the guard |
| `returning` | the value is about to be returned; guard and lock are still alive |

Every critical section of the state mutex is one step: the first look with its
four outcomes (`HitAtOnce`, `Join`, `Admit`, `Refuse`), the second look
(`HitAfterWait`, `StartBuild`), the end of a build (`ReturnOversized`,
`Insert`, with the whole eviction loop: `Evicts` says which entries it removes).
`Leave` ends a call wherever it is, as an error of its build or of
`DependencySet::capture`, as a dropped future or after the return; it drops the
guard and the call's share of the lock. `active` holds the `Weak` references:
a lock is alive while some call's `lockOf` names it, and `Retain` forgets the
others when a first look comes by.

Abstractions. `used` stamps are kept as ranks, since only their order is read.
Statistics are left out except `retained_bytes`, on which the eviction loop
acts. `lookup_result` is the constant `Result`; `BuildsAreDetermined` states
what the cache expects of its callers: two snapshots on which all declared
lookups find the same lead to the same analysis. Nothing else about analyses is assumed:
they may declare different lookups on different snapshots, and a lookup may
find nothing.

### 2.4 ExecutionFrame

A *query* is one `execution_frame` with the execution that follows, on an engine
with its own policies. It takes the relations of `Order` (`registration_order`)
one by one; `at` is its place in the loop.

| Action | in `execution_frame` |
|---|---|
| `Begin` | the query context, the needed relations and `allowed_ages` |
| `Register` | an iteration for a relation that is not cached |
| `Invalidate` | `manager.invalidate`, if the options ask for a refresh |
| `Hit` | `manager.resolve` that finds a fresh generation |
| `StartFill`, `Publish` | `manager.resolve` that does not: the stream is read, the generation published, the relation bound to it |
| `Leave` | the end of the query, in the loop or after it, by success, error, deadline or drop |

`Allowed` is the fixed point of `allowed_ages`: `r` is limited by every needed
view above it. `Identity` is the cache key, in which an input counts with its
generation or, if it has none, with its own identity.

Abstractions. The cache is what `SnapshotStore` promises, with the locks of
`Materialization` that matter here: `invalidate` waits for a fill of its key
(`refresh.lock`) and one fill runs at a time (`writer.lock`). The clock counts
seconds and does not go back; the deadline is checked on entry to `resolve` and
before publication. What a generation contains is abstracted to the oldest time
a live row of it was read (`read`) and to the generations it was filled from
(`from`); `acquired` is the manifest's `acquired_at_ms`. Descriptors are the
default ones, which contain the relation's name. Policies are those of relations
no write binding excludes. EXPLAIN and queries that bypass the cache are left
out. Names of generations are never used again.

### 2.5 CatalogStore

A *snapshot* is a record of its catalog, the dependents known of it, its search
index (or none) and the seed an index can start from. `current` names the one
that readers get. A *writer* is one application call with its `publish`:

| `pc` | in `publication.rs` |
|---|---|
| `idle`, `publish` | before and after the application took the snapshot its changes are meant for (`Expect`) |
| `apply` | `publish` has a copy of the current catalog with the expected revision; `apply_changes` and `incremental` run (`Apply`) |
| `commit`, `refused` | the draft is validated and the write lock is awaited (`Commit` compares the revision again); the batch was refused |

A *reader* is one `search_index`: it holds a snapshot, finds no index, takes the
seed out and keeps the index that is ready first (`Hold`, `Look`, `TakeSeed`, `KeepIndex`,
each between two accesses to the snapshot's locks).

`Reached` and `Placed` say what the worklists and Kahn's algorithm come to, as
least closed sets: so they can be reasoned about, and no visiting order has to
be chosen. Abstractions: a definition is its revision; `validate_definitions`
is represented by one rule of each kind that refers to other relations (they
exist, keys agree on both sides, a lineage pins its source), since rules about
one document are checked whenever it changes. Revisions are digests and taken
to be injective. Limits on objects and edges may refuse any batch (`ExceedLimit`).

### 2.6 QueryGraph

A behaviour compiles one proposal: `OrderNext` and `OrderEnd` are `topological`
with its counters of expanded size and depth; then each node is bound by the
action of its operator (`BindRows`, `Calculate`, `Conditional`, `Cast`,
`NullTest`, `CompareSlots`, `Filter`, `SetOperation`, `Compose`), or refused.
A checked node has `slots` (type, nullability, origin), a `grain` and, beside
what the compiler knows, the bag of `rows` the direct plan computes. Parameters
of an operator (what is passed on under which id, keys, domains, predicates) are
chosen by the environment among those the code accepts. `Direct` evaluates the
expression tree of a predicate, `Emitted` its SQL text after it is parsed again.
The row queries at the leaves are given by what they can return
(`LeavesAssumption`: their slots and nulls are those of the bound query, and
their grain is what it groups by).

Abstractions. One output beside the keys of a composition; of the comparison
operators equality and less-than; types where the code distinguishes them.
Allocations, rates, calendars, windows, ratios and the choice of metrics are
left out.

### 2.7 QueryContext, DeferredProviders, QueryScans

`QueryContext` has the two-step `cancel` (`StoreCancel`, `NotifyWaiters`),
`run` in the steps in which it can lose a wake-up (`Enable`, `RefuseRun`, `Wait`,
`Poll`, `Complete`, `Pend`, `Wake`, `TimeOut`), and `charge` as the loop that
`fetch_update` is (`Load`, `Exchange`, which fails if another partition came between, `Exhaust`).
One counter stands for the three budgets.

`DeferredProviders` has one call of `DeferredTable::provider` per scan:

| `scan` | in `deferred.rs` |
|---|---|
| `locking` | `resolution.lock().await`, after a first look in the cache |
| `cold` | the second look missed; `admit_cold` comes next |
| `queued`, `resolving` | waiting for a permit; asking the backend |
| `answered`, `resolved`, `unresolved`, `failed` | about to return, with what it still holds |

`LeaveScan` ends a call wherever it awaits something or returns, and drops what it
holds. Two tables may stand for one relation, and the source may change its
schema at any time (`Drift`).

`QueryScans` composes them: what `run()` polls is a scan, `DropScan` is what
happens to it when `run()` ends first. Statistics are left out.

## 3. Runs

| Run | Size | Question |
|---|---|---|
| `Cache_crash` | 2 processes with one request each, 2 keys, 3 generations, room for 2 fills, clock 0..1, 1 death | do pointers, readers and the abstract store survive every interleaving and every death; do callers that miss together fetch once |
| `Cache_shared` | 3 requests in 2 processes, 1 key, 3 generations, fills of 2 batches of 1 or 2 units, disk 3, memory 2, 1 death, half-written manifests, failing fsyncs | are both budgets kept, is nothing old published after an invalidation |
| `Cache_live` | 3 requests in 2 processes, 1 death, fairness | are the shared locks given back |
| `Cache_unsynced` | 2 requests, 1 key, no death, fsync may fail | finding 1 |
| `Cache_torn` | 1 death, half-written manifests | finding 2 |
| `Write_pair` | a transaction of 2 calls and an autocommit, 2 tables, 2 connections, 1 lost connection | do outcomes, durability and the pool agree; all or nothing over sequences of calls; is the whole to its callers a set of atomic transactions |
| `Serving` | a transaction and an autocommit of 1 call; 2 scans of 2 tables with one permit; fairness | do native transactions end, are waiting scans served |
| `Analysis` | 3 calls, 3 identities, 2 snapshots, 2 active keys, entries of 1 to 3 bytes, 2 entries, 2 bytes, fairness | do answers fit the caller's snapshot, is a build single, are the books right, is admission neither exceeded nor lost, are waiters served |
| `Query_path` | catalog: 3 relations with 8 definitions, 2 writers, a reader, 3 snapshots; graphs: every shape of up to 3 nodes, every operator over every kind of row query, stacked where grain and nulls matter; scans: 3 scans of 4 tables, cache 2, 1 permit, 2 cold; charges: 2 partitions, budget 2, largest `usize` 3 | is validation exact, are reports complete and indexes right; what do checked nodes promise and compute; do budgets add up, wake-ups arrive, admissions come back |
| `Graph_precedence` | as the graphs of `Query_path` | finding 4 |
| `Frame_ages` | 2 queries, a source, a plain view, a stricter cached view; 3 generations, clock 0..3, limits 3 and 1, deadline 1; one asks for a refresh, one for a smaller age | one generation per relation and frame, data within every limit, refreshes that are new |
| `Frame_acquired` | the same | finding 3 |

`Query_path` and `Serving` check parts that share no variable, one behaviour
being about one part (`part`) while the others rest in one initial state. Nothing is
composed there: each part is checked as it would be alone. The one composition in
`Query_path` is `QueryScans`. What the two parts of a query do together across
components (a compiled query in an execution frame over deferred tables) is not
composed into one state space.

Why the bounds are enough. In the cache a hazard needs one victim and one or
two others: an evictor and a reader, a fill and an invalidation, a holder of a
lock and one or two waiters (two, in the same and in another process, in
`Cache_shared` and `Cache_live`). Three generations are one current, one
superseded and one being filled; room for two makes every third fill evict,
skip a leased generation or be refused. One death suffices to leave debris,
and there are requests left to meet it. In the sessions two handles contend for
a table and reuse each other's connections; two calls are a success and then a failure
before the commit, or a failure followed by a call that must be refused. All that is checked
there is also proved (5.2), for any number of calls. In the analysis cache three calls are a builder, a waiter and a
third caller that evicts or joins late; one identity looks up a second name only if
it finds the first, which one snapshot lacks; the largest size does not fit at
all. In the frames three generations are a source, a view filled from it and a
newer source; the clock passes the strict limit, the loose one and the deadline;
the view without a policy between the two cached relations is what a limit and
an identity have to get through. In the catalog one writer can break every rule
(a missing dependency, a circle of views, keys that disagree, a stale pin) and
the other comes between its two comparisons; three snapshots let an index be
updated from one that was itself updated. Two rows per leaf, with nulls and
duplicates where they are allowed, tell the operators apart. Three scans are the holder of a
table's lock, one behind it and one that takes the cold places; two
partitions are a charge and the one that comes between its load and its exchange,
and a budget just below the largest `usize` is where the sum would wrap.
For what the theorems of section 5 state the bounds do not matter.

Symmetry is used for generations, keys, connections, tables and queries in runs
of safety properties only. The system may stop when every handle has had its
one life or a graph is compiled, so `Write_pair`, `Serving` and `Query_path` do not
check deadlock; the runs of the two caches and of the frames do.

Fairness. `Materialization!FairSpec` asks for weak fairness of each call's own
progress: an async function is polled until it returns, lock waits poll their
lock. It asks nothing of callers, who may keep a provider for ever, nor of
time: no wait needs its deadline to end. `WriteSession!Fairness` asks that
ready futures are polled, that timers fire (a `finish` without an answer ends
after 30 seconds, a session expires, its task runs) and that the server
notices a closed connection. Callers may forget handles and the server need not
answer. `AnalysisCache!Fairness` asks that builds end (compilation runs under a
deadline) and, strongly, that a waiter gets the lock of its identity: tokio's
mutex is a queue. It asks nothing of dropped futures. `DeferredFairness` asks
that code between two awaits runs on and that backends answer or fail (by the
query's deadline), and, strongly, that the asynchronous mutex and the semaphore,
both queues, serve who waits.

## 4. Findings

1. `Cache_unsynced`. `resolve` renames the new pointer over `CURRENT`, then
   syncs the key's directory, then disarms the guard that removes the
   generation. If the sync fails, the guard removes a generation `CURRENT`
   names; every later `resolve` of that key fails until it is invalidated,
   and a "failed" refresh has replaced a usable one.
2. `Cache_torn`. `evict` takes a directory for abandoned only if it has no
   manifest at all. A process that dies while it writes the manifest leaves one
   that does not parse; it is skipped, so its bytes are never counted and never
   freed, although the comment next to the code says that every uncommitted
   directory there is abandoned.
3. `Frame_acquired`. `docs/generated/spikes/clickhouse-implementation.md:25` says
   that age follows acquisition, including the oldest input of a view.
   `execution_frame` computes that time and the manifest records it, but `fresh`
   compares the limit with the time of publication. A generation may be used
   when it is older than its limit by the time between acquisition and
   publication. What does hold, and is proved, is `DataWithinLimits`: no row is
   older than the limit and one query deadline.
4. `Graph_precedence`. `CheckedPredicate::sql` joins the children of `All` and
   `Any` without parentheses (`scalar.rs:231`, `274-286`), so a disjunction inside
   a conjunction is parsed back with the wrong binding, and the emitted SQL keeps
   rows the direct plan removes. `EmittedAgreesUnnested` shows that nothing else
   differs.

The properties the first one breaks (`CurrentIsComplete`, `ReadersKeepTheirFiles`,
the refinement) are checked and proved where fsync does not fail
(`SyncFailure = FALSE`); the budgets, single flight and `OutdatedNeverCurrent`
hold even where it does.

Noticed while reading, without a run. Unary operators keep a grain if as many
outputs are keys as the grain has (`calculate.rs:138-141` and the like), where
`graph.rs:32` asks for the keys themselves: a key passed on twice can stand for
another. This stays without effect because `Compose` asks for distinct related
keys, which `ComposedGrainsIdentify` checks and `IdentifyingGrains` proves: where
the keys have origins that differ, none was passed on twice.

## 5. Proofs

Each theorem holds for every value of the constants that satisfies the named
assumption of its module (`ConstantsAssumption`, `CatalogAssumption`,
`QueryAssumption`, `DeferredAssumption`, `BuildsAreDetermined`, `ScansAreTasks`,
`GraphAssumption`, `TreeAssumption`, `LeavesAssumption`);
TLC evaluates the same assumptions in the runs. None of the properties is
inductive; what is added to them is said below, and is what the code relies on
without saying so.

### 5.1 MaterializationProofs, MaterializationRefinement

| Theorem | States |
|---|---|
| `TypeCorrect` | `Spec => []TypeOK` |
| `CurrentComplete`, `ReadersKeep` | `[]CurrentIsComplete`, `[]ReadersKeepTheirFiles`, while fsync does not fail |
| `FillKeeps` | no eviction meets the directory of a running fill |
| `InvalidationHolds` | `[]OutdatedNeverCurrent` |
| `DiskBudget`, `MemoryBudget` | `[]CommittedWithinBudget`, `[]MemoryWithinBudget` |
| `OneFlight` | `Spec => SingleFlight` |
| `Refinement` | `Spec => ImplementsStore`, while fsync does not fail |

`IInv` holds whatever fsync does:

- `LockInv`: who holds `writer.lock` and `catalog.lock` is told by where each
  call is, so there is one writer and one evictor;
- `KeyInv`: a call past its second look holds its key's `refresh.lock`;
- `GenInv`: the directory a writer works on is nobody else's: no pointer names
  it and no reader leases it, a fill's has no manifest, a published one's is
  complete and of the right key.

With `LockInv` the scan of one eviction cannot meet another's fill; with
`GenInv` an aborted or evicted directory is not a current one; the shared lease
carries a reader over both. `OInv` adds, for `InvalidationHolds`, that a fill
or a publication began after the last invalidation, which needs the same lock.
`DiskInv`: beside what is committed there is room for the whole of a running
fill, and no other call commits, since both need `writer.lock`. `MemoryInv`:
what a fill keeps was admitted beside what its manager retains. Both count
bytes as units, the cardinality of a set of pairs; the lemmas about such counts
(fewer units, one generation more, one batch more) are stated once.
`OneFlight`: files that pointers name only age, and only the holder of a
key's `refresh.lock` moves its pointer, so nobody finds later what it missed.

For `Refinement`, `Available` maps `CURRENT` to the store's visible snapshot and
`Held` the providers in use to its readers. Most steps leave both alone or take
away what nobody mentions any more, which is one `Release` of the store; a hit
is `Open`, the manifest `Complete`, the rename `Publish`, an eviction's or an
invalidation's removal of `CURRENT` `Withdraw`. `RInv` supplies what the steps
need beside `IInv`: nobody reads a generation that is being filled or published.

### 5.2 WriteSessionProofs

`TypeCorrect`, `CommitsAreDurable`, `AbortsAreNotDurable`, `TransactionsAreAtomic`,
`PooledConnectionsAreIdle` and `WritesAreTransactions` (`Spec => ImplementsWrites`) prove
every property of `Write_pair`. The invariant
has three parts:

- who holds a connection (`Holders`, `Owners`, `Fresh`): one handle, through its
  lease or through the finish that took the lease out;
- what is under way on it (`Awaited`, `Committing`, `Idle`): only the last
  request may still be wanted, by the call that sent it; a `COMMIT` is alone and finds
  an active transaction that has done exactly what was accepted;
- what the server has done of what the handle was told (`Working`, `Clean`,
  `Finishing`, `Told`): while a call runs the handle is poisoned; between calls one
  that is neither poisoned nor broken stands where its server does.

A dropped future, an error or a late answer leaves one of the two flags behind, so
no `COMMIT` is sent after it. The steps of the server are grouped by what they
leave alone (`SameHandle`, `SameConnection`, `SameFate`).

For `WritesAreTransactions` every action is matched with what its caller sees of it.
Sending, waiting, dropping, expiring and losing connections are stutters (`Silent`); `BEGIN`
on a pooled connection is `Begin`, whether the caller gets its handle or not, since no
former owner has a transaction there; an answered write is `Accept`; the end of a
transaction on the server, by an answer or because its connection went, is `End`; the
end of `finish` or a refused commit is `Tell`. Where the handle and the server
no longer speak with one another the invariant lacks one thing: a connection may be lost
after its write was answered and before the caller is told, and what it is told then is still
true of a transaction that is still open (`Applied`). `RInv` adds that.

### 5.3 AnalysisCacheProofs

| Theorem | States |
|---|---|
| `AnswersFitSnapshots`, `SingleBuilder` | `[]AnswersFit`, `[]OneBuilder` |
| `ActiveBounded`, `RefusalsJustified` | identities in flight within the limit; `RefusedOnlyWhenFull` |
| `BooksBalance`, `CacheBounded` | `[]RetainedIsSum`; entries and bytes within their limits |
| `EvictionsSuffice` | the eviction loop finds enough to remove: its `expect` does not fire |
| `Types` | `[]TypeOK` |

`IInv` is `Structure` with `LocksInv` (a call in flight keeps the lock that
`active` names for its identity, so two calls of one identity share one lock, and
two identities never do), `PlaceInv` (who builds holds that lock's guard),
`EntriesInv` (an entry was built on some snapshot and captured on the same one),
`AnswersFit` and `ActiveWithinLimit`. A dropped call cannot leave a second lock
behind because a lock is replaced only when no call keeps it. `BooksInv` adds
that an identity that is being built has no entry: the look under its lock removed it, and
nobody else inserts it meanwhile. Otherwise the insertion would replace an
entry and leave its bytes on the books.

### 5.4 ExecutionFrameProofs

`RefreshesAreNew` (`RefreshIsNew`), `OneGeneration` (`OneGenerationPerFrame`) and
`AgesWithinLimits` (`DataWithinLimits`) prove every property of `Frame_ages`.

A query that was asked for a refresh invalidates the key, and between that and
its look others may publish under the same key. This is harmless: what is visible
under an invalidated key was published, and for a base relation read, since the
query began (`VisibleInv`); a fill of that key began after the query did, since
the invalidation waited for the one that ran (`FillInv`); a query fills a relation
it refreshes only afterwards (`PlaceInv`).

The other two rest on `AgeInv`. Every generation's key is the identity its relation
has in the frame it was filled from (`GenerationOk`), and so for the frames of
running queries (`FrameOk`). `OneIdentityOneFrame` says what identities are for:
two frames in which a relation has one identity hold the same generations
below it, however deep, because an input counts with its generation and that
generation's key holds the identity of the input. So what a hit binds was filled
from what the frame already scans. For ages, a generation's oldest row was
read within the time a fill may take or is an input's; the limit of an input
is never above that of what is made from it (`LimitsGoDown`); and the input is the
one in the frame.

### 5.5 CatalogStoreProofs

| Theorem | States |
|---|---|
| `NoUpdateIsLost` | `CatalogSpec => NoLostUpdate` |
| `ValidationIsExact` | `[]ValidatedAsAWhole`: the incremental and the full rules agree, both ways |
| `MeaningsAreKept` | `[]UnaffectedKeepsMeaning` |
| `IndexesAreExact` | `[]IndexIsOfItsSnapshot` |

`SoundInv`: the catalog of every snapshot is valid, its dependents and, if there is one, its
index are those of its catalog, and its seed leads to that index; drafts and
the seeds readers took fit their snapshots. The argument about validation: a relation that is not affected has
the same dependencies, at any distance, as before, so what was valid of it
is; and a circle the old catalog did not have leads through a changed view
dependency, so the search from those finds it (of a circular set a minimal one is
taken, all of whose members are reached from one another).

### 5.6 QueryScansProofs

| Theorem | States |
|---|---|
| `CancelReachesWaiters`, `CancelledStays` | `[]NoWakeupIsLost`; no operation is polled after `cancel` has returned |
| `ChargesAreExact` | `[]ChargesAddUp` |
| `QueryTypes`, `DeferredTypes` | `[]QueryTypeOK`, `[]DeferredTypeOK` |
| `AdmissionsComeBack`, `OneColdScan`, `ProvidersMatch` | `[]NothingLeaks`, `[]FollowersCoalesce`, `[]ProvidersFit` |
| `ScansCompose`, `ScansKeepPromises` | `QueryScansSpec => QuerySpec /\ DeferredSpec`, and with it all of the above for scans of queries |

A `run` that waits had enabled its notification before it looked at the flag, which
`cancel` stores before it wakes (`WakeInv`). A charge is added only if
nobody came between its load and its exchange, and then it adds its bytes to the
units counted so far (`ChargeInv`). A scan that holds an admission holds the lock of its
table, and the counters are the numbers of such scans (`HoldInv`).
Every cached provider has the schema its key names, and a scan keeps one only after it
compared the schemas (`FitInv`).

### 5.7 QueryGraphProofs

| Theorem | States |
|---|---|
| `GraphInductive` | `[]GraphInv`, from which the others follow |
| `GraphTypes` | `[]GraphTypeOK` |
| `TopologicalOrder` | `[]OrderIsTopological`, for graphs of any size and shape |
| `DeclaredNulls`, `IdentifyingGrains` | `[]NullsAreDeclared`, `[]ComposedGrainsIdentify` |
| `DefinedRows` | `[]RowsAreAsDefined` |
| `EmittedPredicates` | `[]EmittedAgreesUnnested`, for predicate trees of any size and shape |

`OrderInv` says what the counters of `topological` count: `pending` the inputs that are not
ordered, `expanded` and `depth` the walks whose first edge, if any, leads to an ordered node. Since
inputs come first, such walks are short, so they can be counted: the walks of
a node that begin with a use of the next one are as many as its uses times the walks
of that one (`ThroughCount`). A cycle is a set of nodes each with an input in it,
which is what is left when nothing is ready. A limit is exceeded by the root
if it is by any node, because every node is reached from the root.

`NodesInv` says that every checked node is `Good` and is what its operator means of
two earlier nodes. `Good` has the part that the code relies on without saying so:
not every grain identifies the rows of its node, but a grain
whose keys have origins that all differ does, and this is what survives the counting of
passed keys. On such grains a join meets a row at most once, so what it keeps corresponds
one to one to the groups of its domain (`ComposeKeepsGroups`); and the
numbers of equal rows on two sides overlap in as many as the smaller side has and leave out
the rest (`SetRowsTimes`). A row has a number for each of its occurrences, and equal images
are counted by cardinality (`BagImage`), so that no fold over a bag is needed.

The two readings of a predicate, `Direct` and `Emitted`, are recursive functions over a tree
of any size. That such a function is what its equation says is a `CHOOSE`, so it has to be
shown to exist: were there a first node up to which none solves the equation, the solution below
that node could be extended to it (`RecursionExists`, by `SmallestOne`). Then the first node at
which the readings disagree cannot be a leaf; a negation of one that agrees agrees, its
operand being parenthesised; and a conjunction or disjunction reduces texts none of which
binds more loosely than it does (`HasTree` gives every checked filter its tree).
`TreeAssumption` says of trees what `bind_predicate` makes sure of: operands come before what
uses them, groups are not empty, a negation has one operand.

### 5.8 What is only model-checked

- `PathTypeOK`, which joins the type invariants of three modules for one run
  (`GraphTypes`, `QueryTypes` and `DeferredTypes` prove each of them).
- Liveness (`LocksComeBack`, `WaitersServed`, `TransactionsEnd`, `ScansServed`):
  the prover has no rules for fairness of these actions.

Induction over naturals and finite sets is done by minimal counterexamples
(`WFMin` of the library), which takes no operator as a parameter; that is how
the proofs follow view dependencies to any depth, and how a recursive function is shown
to be what its equation says (5.7). What a `RECURSIVE` operator or a
fold of the community modules computes stays out of reach. For this reason sizes are counted as units, bags by
cardinality, expansion and height by walks, and worklists are least closed sets
in the modules that are proved about.

## 6. Not modelled, and the plan

Not modelled in the components that are: `status` of the cache; read-only
sessions, receipt-pinned reads, `create_table` and `inspect` outside a session;
the branch of `apply_changes` for a catalog that was never validated, which a
store does not have; rules about a single document in `validate_definitions`;
allocations, rates, calendars, windows, ratios, as-of lookups, the choice of
metrics and the emitted SQL beyond predicates in the compiler.

1. `PreparedWrite` (`semantic-engine/writes.rs`) and `ReadSession` on top of
   `WriteSession`: the hazard of `PROJECT.json` that no property covers yet.
2. The plan cache (`cache.rs`) and compile sessions (`prepared.rs`) on top of
   `AnalysisCache`.
3. The server's admission and the interpreter's repair loop, small protocols.

The binder of row queries and their lowering, the Ossie import and the
connectors' SQL are large pure functions over documents; modelling them would
transcribe them.
