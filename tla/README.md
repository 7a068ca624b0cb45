# Formal models of typocop

This directory holds TLA+ models of typocop, the code indexer whose sources are
under `src/` of the repository, the TLC configurations that check them on small
instances, and proofs, checked by TLAPS, of theorems about them. Paths below
are relative to `src/src/` unless they begin with `docs/` or `.kiro/`.

Contents: [inventory](#1-inventory-of-the-system) ·
[modules](#2-modules-and-how-they-correspond-to-the-code) ·
[runs](#3-runs-what-is-checked-and-what-it-shows) ·
[fairness](#4-fairness) · [proofs](#5-proofs) ·
[disagreements found](#6-where-the-code-and-its-documents-disagree) ·
[limits](#7-what-is-not-modelled) · [plan](#8-plan)

## 1. Inventory of the system

Typocop walks a source tree, parses it on worker threads, resolves references
between symbols, and stores symbols, relationships and embeddings in an embedded
graph database (LadybugDB). One process owns the database: either the CLI itself
(embedded mode) or a connection server that other processes reach over gRPC and
that the first of them starts. Queries (CLI, MCP server, HTTP API) only read.

| Component | State it keeps | Operations | Hard behaviour | What makes it correct |
|---|---|---|---|---|
| Request scheduler, `apps/ladybug-server/scheduler.ts` | priority queue, slot counter, started calls, drain waiters, counters | `enqueue`, `markDraining`, `drain`, result, request timer, drain deadline | result, timer and deadline race for one promise; operations that never end | one answer per call, slots counted exactly, order within and between priorities, shutdown told "drained" only when it is |
| Worker pool, `platform/utils/worker-pool.ts` | slots, dispatch cursor, respawn and timeout budgets, breaker | `run`, message, watchdog, `error`/`exit`, `destroy` | threads die, hang or answer after they were replaced; threads and watchdogs are unref'd | each task settled once, `run()` resolves while the caller keeps the process alive, no stray thread |
| Connection pool, `infrastructure/persistence/connection-pool.ts`, `database-adapter.ts` | idle list, active set, wait queue, drained flag | `acquire`, `release`, eviction, `drain` | every operation is cut by awaits; closes may reject | exclusive connections, none lost without a failed close, no stranded waiter, drain waits for users |
| Incremental indexing, `application/indexing/pipeline.ts`, `infrastructure/cache/file-index-cache.ts` | parse cache on disk, symbol, vector and relationship tables | walk, classify, parse, delta delete, writes, cache save, `--full`, `--refresh` | edits during a run, death between writes, failed cache save, adapters that cannot delete by file | an incremental run ends where a fresh index would, where it can |
| Server lifecycle, `apps/ladybug-server/server.ts`, `safety-net.ts`, `runtime.ts`, `main.ts` | startup and shutdown progress, timers, `cleanedUp` flag, discovery file | start, shutdown (signal, Admin call, idle), fatal error, hard exit | shutdown during startup, a close that hangs, a successor that starts meanwhile | bounded shutdown, nothing left behind, no harm to the successor |
| Database connection and lock, `infrastructure/persistence/connection.ts`, `file-lock.ts`, `pool-registry.ts` | database cache with reference counts, lock directory, pool map | open with retries, close, lock, release | several processes, several connections per process | one owner of the database at a time |
| Autostart, `infrastructure/remote-transport/autostart*.ts`, `discovery.ts` | startup lock, discovery file, lock directory it drops | probe, adopt, kill, spawn, wait, drop lock | several clients at once that may die, stale locks and advertisements, pids used again, probes that go unanswered | one server on its way up at a time, no living server robbed of its lock but in named cases, an answered probe before it returns |
| Remote adapter, `infrastructure/remote-transport/remote-adapters/*` | channels, reconnect in progress, closed flag | call, retry, reconnect, close | retry of what may have been done; close during reconnect | a retry on a fresh channel only when it is worth it, no channel leaked, nothing reopened after close |
| RPC routing and services, `apps/ladybug-server/router.ts`, `services/*`, and the graph and vector adapters of `infrastructure/persistence` | the database | validate, queue, time out, execute, answer | an attempt that was given up runs late, beside its own retry or another client's write | an acknowledged write is in force; keys unique, no dangling relationship |
| Watch mode, `infrastructure/watch/file-watcher.ts`, `apps/cli/executor.ts` | pending paths, single-flight flag, debounce timer | event, flush, reindex, stop | changes during a reindex or before chokidar is ready, SIGINT while writing | no announced change lost, one reindex at a time |
| Embedding cache and search index, `infrastructure/cache/embedding-cache.ts`, `application/indexing/search` | content-hash map with FIFO eviction, vector table | look up, embed one by one or in batches, set, prune, flush, write vectors | cap reached in mid-run, failed items and batches, another model | a vector belongs to its text, in the cache, in the results and in the table |
| Reference resolution, `application/indexing/resolution/*` | a cache cleared per file | binding, import tiers, method resolution order | order and ambiguity rules, state carried from hint to hint | a hint resolves alone as among others; linearisation keeps the orders |
| Clustering and processes, `application/indexing/clustering`, `processes` | none (pure) | Louvain moves, traces, entry points | termination, bounds | disjoint clusters no single move improves, longest simple paths within the depth |
| Parsing and extraction, `infrastructure/parsing`, `application/indexing/parsing` | none (pure) | tree-sitter queries, extraction rules | | text transformation |
| Batch writing, `application/indexing/persistence-helpers.ts` | none | cut by size, halve what the server refuses | a full queue that looks like a large message | every row sent once and in order |
| Query use cases, `application/querying`; their front ends `apps/mcp-server`, `apps/query-api` | none (read the graph) | context, slice, impact, trace, claims, dead code, changes, rename, search | several tools answer the same question in their own way | answers true of the graph that do not contradict each other |
| Export, `application/export-render` | the output directory | read in pages, group, render, write | pages that shrink, a table that grows | whole table read, links that lead somewhere |
| Configuration, `platform/config`, `platform/utils/limits.ts` | none | load, validate, default, hand to a spawned server | several readers of one variable | client and server agree |
| Git, embedding adapters | none | run a program, call a service | | I/O |

How they interact: a run of the pipeline hands files to the **worker pool**,
writes through a database adapter that holds a connection of the **connection
pool** (embedded) or calls the server through the **remote adapter**; in the
server each call passes the **request scheduler**; the **lifecycle** of the
server drains the scheduler before it closes the **database connection**, whose
lock directory and discovery file are all that two server processes share;
**autostart** reads the same two names from the client side; **watch mode**
calls the pipeline again and again. JavaScript runs one callback at a time, so
interleaving happens at `await`s, timers, worker threads, processes and the file
system, and nowhere else. `PROJECT.json` lists the hazards at
their lines, and for each component which part of it is modelled.

## 2. Modules and how they correspond to the code

Conventions. A stretch of code between two awaits is one action (a whole
callback where nothing is awaited). A definition introduced by "Regression:" is
not part of the model: it is the same definition with a plausible mistake, kept
beside the right one to show that a property would notice. Variables that only
the properties read are named below as history variables. `PROJECT.json`, under
"map", gives for every definition the lines it translates.

### Processes, callbacks and messages

**`RequestService`** is the contract of the scheduler with no queue in it: open
or closed, each call new, pending or answered, and the `drain()` calls that were
told "done", which is allowed only behind a closed door with nothing pending.

**`Scheduler`** is `PriorityRequestScheduler`. `queue`, `inFlight`,
`inFlightRequests`, `draining`, `drainResolvers` and `totals` are its fields;
`stage`, `outcome`, `drained` and `deadlines` are where each promise and timer
stands. `enqueue()` is `RejectDraining`, `RejectFull` or `Admit` (insert, then
`TryExecuteNext`); an operation ends in `Complete` (`.then`/`.catch`) and `Finish`
(`.finally`), which are microtasks of one turn, so that no timer comes between
them (`MicrotaskPending`). `Timeout` leaves the slot of a started operation
occupied, as the code does. The loop of `tryExecuteNext` is one step: the number
`k` of entries it shifts is the one at which its condition stops holding. Each
call has its own id, as the client draws a random UUID.

**`WorkerPool`** is `run()` and its handlers. `slots` is the array of `Slot`
objects; `threads` is the other side: a thread's task, the frame it posted, the
death events not yet delivered. Handlers are bound to slots and not to threads,
as in the code, so late frames and late exits meet the successor. A task is its
index; the cumulative time budget is counted in timeouts. `heldOpen` says whether
anything of the caller's keeps the process alive, since workers and watchdogs,
which are unref'd, do not (`LetGo`).

**`ConnectionPool`** has the pool's `idle`, `active`, `waitQueue`, `drained`, the
progress of `drain()`, and for each adapter the await at which it stands (`pc`)
and the connection in its hands. `open` is the set of connections the native
library has open, `late` a history variable: who was inside `acquire()` when
`drain()` began; `lost`, another one, is what a rejected `close()` left open. Every
close may reject: `DiscardRejected` (`acquire()` throws and has popped the
connection), `ReleaseRejected` (nobody tells `drain()`), `CloseIdleRejected` and
`DatabaseCloseFails` (`drain()` throws). `drain()` closes the live idle list one
connection per await, as its `for ... of` does.

**`IncrementalIndex`** has the tree (`disk`), the parse cache, the three tables
and the run in progress. A cache entry is the content it was parsed from
(`hash` and symbols), its recorded mtime is the set `suspect` of files whose
mtime has changed since. A row holds the content it was written from. `settled`,
`torn` and `exposed` are history variables: whether the last run completed an
incremental index of an untouched tree; whether the database was written since
the cache was saved; whether, since the last `--refresh`, something has happened
that an incremental run does not recover from (section 3). A run has the adapters of
one of the two modes (`run.adapter`): the embedded ones delete by file, the remote
ones do not, and then the run inserts everything (`DeltaActive`). A tree without
files or symbols is a result too (`ReturnEarly`), and nothing is written, deleted or
saved. `Abort` is the process dying or a write throwing at any step,
with any part of a batch written. `MCIncrementalIndex` gives the contents:
one that declares `f`, one that declares `g` and calls `f`, one the parser
rejects.

**`ServerLifecycle`** has for each server process the progress of
`startConnectionServer()`, `shutdown()` and `runtime.close()`, which run side by
side, its timers and flags; and two shared names, `lockDir` and `discovery`, with
the process that made each. Removal is by path, so it removes whatever is there.
A lock whose maker is dead is free (proper-lockfile's stale window has passed);
one whose maker is alive is not. `early` and `stuck` are history variables:
shutdown began before startup was over; a removal of the discovery file failed.
The hard-exit timer may fire at any moment of a shutdown, which allows
more than its deadline of grace plus hard limit plus a second. gRPC and `drain()`
are one step, since both end by their deadline whatever the
requests do (for `drain()`, `Scheduler` shows it).

**`Autostart`** is `ensureServer()` of several client processes, cut at every
await: `client[c].pc` is the await it stands at, from finding and probing
(`Find`, `Probe`) through the startup lock (`Acquire`, `Recheck`), the end of a
server of another prefix (`Terminate`, `WaitDown`), to spawning and polling
(`Spawn`, `PollHealthy`, `PollTimesOut`). A probe is answered only if a server
listens, and may go unanswered although one does: every step that probes has
both outcomes. `WriteFails` throws; `SpawnFails` does not, but ends the process by
an `error` event nobody listens to; `ClientDies` is any other death, which leaves
the startup lock to go stale and the spawned server running. The other half is what the clients can
see: which pid has bound the port (`listener`), the discovery file, startup lock
and lock directory of each prefix, and what runs under each pid (`proc`), which
may be a server in any phase, an embedded process or an unrelated one, because
pids are used again. `robbed`, `signalled`, the flag `left` of
a server whose client stopped looking after it while it came up, and the flag
`unheard` of a client that probed a serving server in vain, are history variables.

**`RemoteClient`** is `RemoteDatabaseAdapter` with `callWithReconnect()`: a bundle
of clients is the number of its creation, `connecting` is what `initialize()` or
the reconnect waits for, `call` the attempt of each caller. `Fail` is the whole
`catch`: classify by status, join or begin the reconnect, or give up. The server
and the channel are external and may lose, refuse or delay anything.

**`GraphStore`** is the database as a value (nodes, relationships, vectors), and
`Effect(db, op)` what the statements of each method of the graph and vector
adapters do to it. A row is a set of columns with values, because `createNode()`
replaces the record and `createNodes()` sets the union of the batch's columns
(`NodeVal`), and relationships keep only the columns of their type (`RelVal`).
**`RemoteStore`** puts it behind the remote adapters, the
validation of `services/graph.ts` and `services/vector.ts`, the router, and as
much of the scheduler as matters here: an attempt whose deadline passes stays
queued or goes on running, and the call is sent once more with the same request
id, by which the queue is searched. `MCRemoteStore` gives the calls: an indexer
that clears, writes batches (of whole rows and of others) and reads, beside another
client. `standing` in a
call is a history variable: nobody else has written since it was acknowledged.

**`Watch`** is `executeWatch`: chokidar, which is imported and scans the tree before it
is `ready` and until then announces an edit or not, as it does for a path that is to
be ignored (`Ignored`); file system events on their way (`raised`), the
watcher's debounced set (`pending`, `timer`), the single-flight scheduler
(`runs`, `queued`) and SIGINT. A reindex reads file by file whatever is there
when it comes to it (`ReadFile`) and writes at the end, or returns without writing
if there is no symbol in what it has read (`FoundNothing`). Nothing is indexed when
the watch starts, so the index may be behind then. `unseen`, the files whose last
change was not announced, and `outcome` of the last reindex are history variables.

**`EmbeddingIndex`** is phase 6 and the vectors in the database: jobs in the order
of the symbols, hits and misses (`Lookup`), the concurrent loop of single
embeddings or the batches with fallback on failure, scattering of a batch's
results over the jobs, and the cache's `setMany`, eviction, `prune` and `flush`.
A vector is the text and the model it was made of. `unvouched` and `lost` are
history variables: the parse cache does not vouch for the rows; the tree was
edited while that was so.

### Computations

A definition that may return any of several results, because rows come back in no
order, is the set of them.

**`BatchWriter`** is the writing of one list of rows (`persistence-helpers.ts`): a
`job` is the sizes of its rows and the limits; the cut of the rows into batches
(`PlaceAlone`, `PlaceInNext`, `PlaceInCurrent`, `CutEnds`) and each attempt to send
one (`Written`, `Exhausted`, which halves it, `Failed`) is an action.
**`TableReader`** is `fetchPagedRows`: `ReadPage`, `PageExhausted` (half the size),
`PageFails`, beside an indexer that adds and removes rows between the pages
(`AddRow`, `RemoveRow`). **`Settings`** loads, validates and defaults the
configuration, reads the variables that `limits.ts` reads by itself, and passes
them to a spawned server; its one step reads the environment. **`UseCases`** puts a
question to a graph, through the MCP tools, the validating handler, over HTTP or in
the augmented search (`Ask`, `Handle`, `Post`, `Search`); a question is answered in
one step, and `reply` keeps it with its answer.

The others have no variables. **`CodeGraph`** is the graph as the queries read it and
the lookups they share; **`Queries`** the use cases on it; **`McpTools`** the
validation, authorisation and dispatch in front of them (MCP and HTTP).
**`Resolution`** is phase 3: tiers of lookup, hints, C3 linearisation and
overrides, external packages. **`Clustering`** is phase 4 with Louvain's moves
on exact fractions, **`Processes`** phase 5. **`Export`** is the grouping, and the
files and links of the vault; it is given what the reading of each table may come to.

**`MCUseCases`** gives the graphs and the questions. **`MCComputations`** puts
`UseCases`, `Settings`, `BatchWriter` and `TableReader` side by side, one of them at a
time with something to do, and adds the inputs of the other computations: one step
chooses an input and the next one answers it. It states what their answers must
satisfy by definitions that do not follow the code (all orders of the ancestors, all
single moves between clusters, and so on).

### Proofs

**`SchedulerProofs`**, **`ConnectionPoolProofs`**, **`RemoteStoreProofs`**,
**`IncrementalIndexProofs`** (about `IncrementalIndex` and `BatchWriter`),
**`IndexingProofs`** (`WorkerPool` and `EmbeddingIndex`), **`ConnectionProofs`**
(`ServerLifecycle` and `RemoteClient`), **`CliProofs`** (`Autostart`, `Watch` and
`Settings`) and **`UseCaseProofs`** (`UseCases` and `TableReader`) hold theorems only;
see section 5. Modules that share a proof module name their definitions apart
(`WatchSpec`, `EmbeddingSpec`, `AdapterSpec`, `SettingsSpec`, `WriterSpec`,
`ReaderSpec`).

### How the models fit together

The same component is detailed in one module and coarse in the others that need
it. `Scheduler` is in detail what `RemoteStore` has as a queue with slots and
`ServerLifecycle` as a drain that ends by its deadline; its abstract
specification is `RequestService`, which it implements (`ServiceSpec`, checked and
proved). `RemoteClient` is in detail what `RemoteStore` has as `Resend`.
`ServerLifecycle` is in detail the phases of a server in `Autostart`.
`IncrementalIndex` is in detail the reindex of `Watch` and, for the files,
the run of `EmbeddingIndex`.

## 3. Runs: what is checked and what it shows

| Run | Instance | Properties |
|---|---|---|
| `scheduler` | 5 calls of 3 priorities, 2 slots, queue of 2, 1 bounded drain | `TypeOK`, `Accounting`, `QueueDiscipline`, `NoCallLost`, `AnsweredOnce`, `ServedInTurn`, `ServiceSpec` |
| `worker_pool` | 3 tasks, 2 workers, 2 respawns, 2 timeouts to the breaker | `PoolInvariant`, `ResultFromOwner`, `RunResolves` |
| `connection_pool` | 3 adapters, 1 connection, any close may reject | `PoolSound`, `FifoHandOver`, `AcquireAndDrainReturn` |
| `incremental_index` | 2 files, 3 contents, 3 edits, 1 fault, all modes, both adapters | `Converged`, `CacheBehindDatabase` |
| `incremental_crash` | 2 files, incremental only, 2 edits, 1 fault | `IncrementalEqualsFull`: violated |
| `server_lifecycle` | 2 servers with an idle timer, 1 kill or failed removal | `LifecycleSound`, `ShutdownEnds` |
| `remote_client` | 2 callers of 2 calls, 1 server crash | `BundlesSound`, `RetriesSound`, `CallsSettle` |
| `autostart` | 2 clients, 2 prefixes, 2 pids, 2 calls, 2 spawns per call, 1 fault | `StartsSound`, `ReturnsServed`, `EnsureEnds` |
| `remote_store` | 2 clients (2 calls and 1), 1 or 2 slots, queue of 2, 1 fault | `AcknowledgedInForce`, `CallerNotForgotten`, `BatchIsRows`, `StoreConsistent` |
| `embedding_index` | 3 files, 2 contents, 3 models, cap 4, batches of 2, 2 runs, 1 edit, 1 fault | `VectorsSound`, `CacheTracksCorpus` |
| `watch` | 3 files, one ignored, 3 edits, 1 failing reindex, a content without symbols | `WatchSound`, `KeepsUp` |
| `computations` | graphs of 3 symbols and the input sets of `MCComputations` | `AnswersAgree`, `SliceWithinBudget`, `PlanMatchesImpact`, `SpawnedServerAgrees`, `EveryRowWritten`, `WholeTableRead`, `VaultLinksLead`, `AnalysesSound`, `ResolutionSound` |

Some properties are conjunctions of parts that each say one thing:

| Property | Parts |
|---|---|
| `ServedInTurn` | `NoOvertaking`, `AllAnswered` |
| `PoolInvariant` | `TypeOK`, `SettledExactlyOnce`, `TaskOwnership`, `NoStrayThread` |
| `PoolSound` | `TypeOK`, `ExclusiveConnections`, `NoLeakedConnection`, `NoStrandedWaiter`, `DrainSparesHolders` |
| `Converged` | `TypeOK`, `RowsConverge`, `EdgesRestored` |
| `LifecycleSound` | `TypeOK`, `NoOrphans`, `AdvertisedServes` |
| `BundlesSound`, `RetriesSound` | `TypeOK`, `NoLeakedChannel`, `ClosedStaysClosed`; `RetryOnFreshBundle`, `RetriedIffRetryable` |
| `StartsSound` | `TypeOK`, `NoServerRobbed`, `OneServerStarting` |
| `WatchSound`, `KeepsUp` | `WatchTypeOK`, `NeverInterleaves`, `NothingForgotten`; `NoRunAfterClose`, `CatchesUp` |
| `VectorsSound` | `ResultsAligned`, `NoStaleVector` |
| `AnswersAgree`, `AnalysesSound`, `ResolutionSound` | `TraceIsShortest`, `VerdictsAgree`, `AcceptedIsUnderstood`; `ProcessesAreLongestPaths`, `ClustersAreLocalOptima`; `LinearizationRespectsOrders`, `HintsResolveAlone` |

The bounds and why they are enough:

* **Scheduler.** With five calls two run, two wait and one is refused; the
  middle priority occurs twice among those that wait, so insertion in front of,
  among and behind equals all happen, and a freed slot always has a choice. The
  drain is bounded, so the deadline, the timer and the result race on the same
  calls. The theorems of section 5 hold for every number of calls and slots.
* **Worker pool.** Three tasks on two workers leave one task to dispatch after a
  death; two respawns put two generations of threads behind a slot, so frames and
  exits of both an immediate and an older predecessor arrive late; both ways of
  tripping the breaker (respawns, timeouts) are within reach.
* **Connection pool.** One connection and three adapters give a holder, a
  waiter and a caller between two awaits at once, and two waiters behind one
  holder when the order of the hand-over matters. The handles suffice for every
  caller to hold one.
* **Incremental index.** One file calls into the other, so re-indexing the
  callee drops an edge of a file that is not re-indexed. Three edits suffice for
  an edit before a run, during it and after its death. One fault per behaviour:
  two faults in a row only repeat what one leaves behind, since a run reads
  nothing but the cache, the tree and the tables.
* **Server lifecycle.** Two servers are a predecessor and a successor that
  overlap at every pair of awaits. One fault is a kill or one failed removal.
* **Remote client.** Two callers share a reconnect or race for one, and two
  calls each let one of them fail on a bundle the other has already replaced;
  `close()` may come at any moment, more than once. One crash with any number
  of refusals, timeouts and restarts.
* **Autostart.** Two clients of the same prefix contend for the startup lock,
  two of different prefixes for the port. Two pids are two servers, or a server and
  a process that is given the pid of one that is gone. Two spawns make the path that
  kills a failed attempt's server before the next, and the one that gives up. The
  theorems of section 5 hold for any number of calls, pids and faults. That matters
  here: it takes a third call to take the lock of a server that another client has
  left behind, which is why `NoServerRobbed` excepts it.
* **Remote store.** The indexer's two calls are an attempt that is given up and
  what is sent after it; the other client's one call is the write or the read in
  between. Two slots are where two attempts run side by side, one slot where
  they cannot; a queue of two is full when both clients wait.
* **Embedding index.** Three files with two contents share texts, so that one
  vector serves two jobs; a cap of four with up to three texts per run and a
  cluster overflows in the second run; batches of two leave a short last one; of
  the three models two are equally wide, so that the check of the width cannot
  tell them apart. Two runs are one that fills the cache and one that reads it.
* **Watch.** Two files that are watched and three edits give an edit before chokidar
  is ready, before the walk comes to a file, after it, and during the debounce of
  the other; a third is ignored. The second version of a file has no symbol, so a
  reindex may find nothing. The theorems of section
  5 hold for all bounds.
* **Computations.** Three symbols are caller, middle and callee; every set of
  calls among them occurs, so every cycle and every length of path does. Four
  symbols or classes in the inputs of processes, clusters and hierarchies are
  where a diamond and a bridge between two clusters appear. Depths are below zero,
  zero and one; token budgets none, too small for the target, and too small for the
  rest. A job of four rows is cut into two batches, and a batch of three is halved
  twice. A table of three rows, or five with those that are added, is read in pages
  of one to five, so that the last page is full, short or empty, before and after its
  size was halved. An environment sets two variables beside the mode, so that one
  may spoil or outrank the other.

What the passing runs show. A caller of the scheduler is answered exactly once
whichever of the four parties is first, and starts in the right order; an
operation that hangs blocks its slot and nothing else; shutdown is told
"drained" only when nobody waits. The worker pool settles every task exactly
once, and `run()` resolves even if every worker hangs, for a caller that keeps the
process alive meanwhile: workers and watchdogs do not. The connection pool never
shares a connection, loses one only if its `close()` rejects, never strands a waiter,
and closes the database under nobody who was not already inside `acquire()`; every
`acquire()` is answered, and `drain()` returns or throws unless an adapter is never
closed or a release was rejected while it waited.

An incremental run that returns and had something to index leaves the rows of a fresh
index and restores the edges its deletes took, after any edits, deaths, failed saves
and half-written batches. This is not so in four situations, which the properties
name. A tree without files or symbols is a successful result that deletes nothing
(`SomethingToIndex`). And since the last `--refresh`: a file was edited while the
database was ahead of the cache (after a death between the writes, a `--full` or a
`--refresh` run, which save no cache); a `--refresh` was cut short before it cleared
the cache; or a run on the remote adapters of client mode had rows to delete, which
it cannot: such a run only inserts, and the rows of removed and changed files stay
(`exposed`, section 6). The cache never vouches for rows the database does not hold:
always on remote adapters, outside the last three situations on the embedded ones.

A server leaves no lock and no advertisement behind
however it exits, except in the middle of its asynchronous cleanup; what is
advertised has its database open; and a shutdown ends, except that the process
may linger after it in two ways, which `Lingers` names: a native close that
never returns (the hard-exit timer has been cleared by then), and a signal
during startup, after which startup installs the idle timer of a server that is
already shut down, and that timer keeps the process alive.

A call over the remote adapter settles whatever server, channel and `close()` do,
is retried only on a fresh bundle and exactly if the server's error says it is
worth it, and an adapter that is closed while nothing reconnects stays closed.
Clients that start servers for each other give their locks back, or leave them to go
stale when they die, and return only after a probe that was answered (or, with
`met`, after one that found the port silent). They can take the database lock of a
live process in three cases, which `NoServerRobbed` names: a server that stops or an
embedded process; a server that was left behind while it came up, by a client that
died or took the answer of another server for its own; and a server that serves but
did not answer in time when it was probed under the startup lock, since a probe is
lost on any error or timeout. No other server that is starting or serving loses its
lock.
With one slot an acknowledged write is in force until somebody else writes,
although attempts run late, twice or not at all; with any number of slots the
two attempts of one call, which share an id, never remove each other from the
queue, batches of whole rows do what their rows do, and the database stays consistent. Vectors
are those of the texts they are stored under, also after failed items and failed
batches, and the saved cache is that of the corpus. Watch mode never indexes twice at
once and forgets no change that was announced, unless the last reindex failed or
found nothing; an edit before chokidar is ready may never be announced, and nothing
is indexed at the start. Every row of a write is sent once and in order
however batches are refused, and a table that is not changed meanwhile is read
whole. What one query tool says, another does not deny, and a context keeps its token
budget. A spawned server runs with its client's settings. And the analyses of the
indexer agree with their reference definitions on the inputs above.

Every configuration allows deadlock, because each of these systems may really
stop: a scheduler with every call answered, a `run()` that has resolved, a pool
whose users have closed, a tree that is no longer edited, servers that have
exited, clients that have made their calls. Stopping too early is what the
liveness properties rule out.

## 4. Fairness

Fairness is weak and only on what the runtime guarantees.

* `Scheduler`: request timers, drain deadlines and `.finally` microtasks. Not on
  `Complete`: a native operation may hang for ever. Not on `enqueue` or `drain`.
* `WorkerPool`: the watchdog and the delivery of posted frames and death events, as
  long as `heldOpen`: workers (`worker-pool.ts:295`) and timers (`:308`) are unref'd,
  and once nothing else is open the event loop ends, with `run()` unresolved. So
  `RunResolves` has the premise `[]heldOpen`. And the caller's `destroy()` in its
  `finally`. Not on the threads.
* `ConnectionPool`: native calls return or reject, timers fire. Not on `acquire`,
  `drain` or the `close()` of an adapter: `createDatabaseAdapter()` may throw after
  `acquire()` (`database-adapter.ts:54`, `:64`), and then nobody closes it. That
  `drain()` returns has the premise that nobody holds a connection for ever.
* `ServerLifecycle`: a process takes its own steps (timers, file system calls,
  the awaits of startup), one weak condition on their disjunction. Not on the
  native close, and not on signals.
* `Autostart`: one weak condition on the steps of each client, whose every wait has
  a deadline. Nothing on servers: that a call ends may not depend on them.
* `RemoteClient`: the deadline of each call, which gRPC enforces, and the end of
  connecting, whose retries have a total budget. Nothing on the server.
* `Watch`: file system events that are raised arrive, the debounce timer fires, a reindex ends (it
  has no timeout of its own: a reindex that hangs stops the watcher). Not on
  chokidar becoming ready.
* `IncrementalIndex`, `RemoteStore`, `EmbeddingIndex` and the computations state no
  liveness.

## 5. Proofs

TLAPS checks the following for every value of the constants that satisfies their
assumptions, which the code enforces (a constructor that throws, a validator) or
which only say that a bound is a number.

**`SchedulerProofs`**, for any finite set of calls, any priorities, any
positive `MaxConcurrency` and `MaxQueue` and any set of `drain()` calls
(`LimitsAssumption` and `CallsAssumption`):

* `Invariance`: `Spec => []IInv`, the inductive invariant;
* `TypeCorrect`, `QueueOrdered`, `SlotsAndCountersAddUp`, `CallsReachable`: the
  invariants `TypeOK`, `QueueDiscipline`, `Accounting` and `NoCallLost`;
* `AnsweredAtMostOnce` and `TurnsKept`: the action properties `AnsweredOnce` and
  `NoOvertaking` (the safety part of `ServedInTurn`);
* `ImplementsService`, `Spec => ServiceSpec`, with the mapping given in
  `Scheduler` (open is "not draining", a call is pending until its outcome is set,
  the reports are the resolved drains).

The argument. None of the four invariants is inductive alone. `Accounting` counts
the operations that hold a slot, which `tryExecuteNext` preserves only if the
entries it shifts hold none yet: so `IInv` says that every queued call is in stage
"queued" and unsettled (`Waiting`), without repetition. `AnsweredOnce` needs that
a refused or finished call is settled and a new one is not (`Lifecycle`), and the
refinement that `drain()` waiters exist only when draining. `NoCallLost` needs
that a slot is free only when the queue is empty, which after each action is the
exit condition of the start loop. The proof has one lemma per action, after lemmas
on the three operators the actions share: `InsertByPriorityShape` and
`InsertByPrioritySorted` (the insertion point exists, is where the code's
`findIndex` puts it, and keeps the queue sorted), `RemoveFromQueueSorted`, and
`TryExecuteNextStep` (what the loop leaves in queue, slots and counters). For the
refinement the crux is `IdleMeansNobodyWaits`: an empty queue and an idle slot
counter mean that no call is pending, which is why `flushDrainWaiters` may report.
`TurnsKept` needs of each action only what it does to the order of two calls that
are both queued: an insertion leaves it alone and puts the new call behind its
equals, a removal leaves it alone, and the start loop takes a prefix.

**`IndexingProofs`**, on `WorkerPool`, for any number of tasks, workers, respawns
and timeouts (`PoolAssumption`): `PoolStaysSound`, `Spec => []PoolInvariant`, that is
`SettledExactlyOnce`, `TaskOwnership` and `NoStrayThread`, through `Invariance`.
`TaskOwnership` survives `dispatchTo()` only because what has not been dispatched is
open (`UndispatchedOpen`), and the breaker only because a slot's task or the
undispatched rest is all that can be open. `NoStrayThread` needs that the thread of
a respawn is a new one: the threads made are one per slot and one per respawn, and
no slot points beyond them (`Budgets`). `SettledExactlyOnce` is one lemma on
`settle()`. The counters stay in their bounds because an exhausted time budget has
tripped the breaker, and a thread that runs has no event of its death on the way
(`ThreadsInv`). `ResultsFromOwners` is `Spec => ResultFromOwner`, from a second
invariant, `Frames`: a task without an outcome is carried, as a job or as a posted
frame, by no thread but the one its slot points to, so a late frame of a recycled
worker can only be for a task that has failed already.

**`IndexingProofs`**, on `EmbeddingIndex`, for any finite set of files, any
contents, models and dimensions, any positive cap, batch size and concurrency, and
any number of runs, edits and faults (`FilesAreNumbered`, `ModesAreKnown`,
`BoundsArePositive`): `VectorsBelong` (`Spec => []VectorsSound`) and
`SavedCacheTracks` (`Spec => CacheTracksCorpus`), through `EmbeddingInvariance`.
That a hit is the vector of its job's text needs that every entry of the cache is
one (`EntryType`), through insertion, eviction, pruning, a lost save and a change of
model. That no row outlives its text says nothing while the parse cache does not
vouch for the rows, so the invariant says what they follow then: the tree, since it
has not been edited since the `--refresh` that emptied them (`RowsSound`); the
delta write then leaves a row alone only if its file neither went nor changed. And
that a saved manifest loses nothing it has room for needs that the cache of a run is
the manifest until the write back, that what is not a hit is recorded, and that
after `setMany` the cache has each text once, so that it is no longer than the set
of its texts (`LatestFacts`, `SetManyFacts`). Lists are built from the k-th elements
of finite sets of numbers; that these exist is a pigeonhole argument on how many
come before (`NthFacts`), so no induction is needed.

**`ConnectionPoolProofs`**, for any finite set of adapters, any bounds and enough
handles (`PoolConfigAssumption`): `PoolStaysSound` (`Spec => []PoolSound`) and
`WaitersServedInOrder` (`Spec => FifoHandOver`), through `Invariance`. That no
connection is shared is inductive only for every stage at which an adapter may
have one in its hands: the connections of two adapters differ, those on the idle
list are nobody's, `active` is what the holders hold (`OneHolderEach`,
`ApartFromIdle`), and a connection that a rejected close left open is in nobody's
hands and in no list. That `drain()` spares holders rests on what it has behind it:
the idle connections it has passed are closed, and only who was inside
`acquire()` when it began can still come out with one (`DrainInv`,
`ClosedBehind`). And a waiter is never stranded for want of a connection to open,
because each idle or lost one is of an adapter that is through
(`HandlesSuffice`). The order of waiters follows from two lemmas on sequences:
taking one out of a queue without repetition leaves the others in order.

**`IncrementalIndexProofs`**, for any files, names, contents, adapters, edits and faults:
`RunsConverge` (`Spec => []Converged`) and `CacheStaysBehind`
(`Spec => CacheBehindDatabase`), through `Invariance`. Neither says anything of a
run in progress or of one that died, so the inductive invariant has to. Between
runs the tables are `Recoverable`, the weakest thing a next run can repair:
exactly the rows of each entry that a run will trust, and no row, under a name a
file without an entry does not declare, that an upsert would fail to overwrite.
During a run it says what the walk has found and is still so of the files nobody
has touched since (`WalkInv`), how the files are classified (`ClassInv`), and for
each phase which files' rows are deleted, old or new; when the cache is saved both
tables hold the merged tree. The situations of section 3 are where `Recoverable`
fails, and `exposed` marks them until the next `--refresh`.

**`IncrementalIndexProofs`**, on `BatchWriter`, for any jobs: `EveryRowAlwaysWritten`
(`WriterSpec => []EveryRowWritten`). `JobsAssumption` says what the code is given:
sizes and limits are numbers, and no row makes a list shorter. The
property speaks of what was sent, the invariant (`WriterInv`) of what is still to
be: the batches cut so far, the one being filled and the rows not yet looked at
follow each other without a gap, and so do what was sent, the halves on the stack and
the batches behind them (`Covers`). A half is within the budget because its whole was,
or is a single row; and `reported` lags behind what was sent because it moves only
when the stack is empty.

**`ConnectionProofs`**, on `ServerLifecycle`, for any servers, timers and faults:
`FilesTellTheTruth` (`Spec => []LifecycleSound`), through `Invariance`. A process
reads nothing of another's state, and of the two shared names only whether they
are its own. So the invariant is one predicate of a single process,
`Good(s, l, d)`, of its state and of whether the lock directory and the discovery
file are those it made. It only gets easier when they are not (`LosingIsHarmless`),
and losing them, by a removal by path, is all other processes can do to it; hence
one lemma per action about its own process, and `OneStep` for all the others.

**`CliProofs`**, for `Autostart` with any clients, prefixes, pids, calls, attempts
and faults (`AutostartAssumption`): `StartingIsSound` (`Spec => []StartsSound`) and
`ReturnsAreServed` (`Spec => []ReturnsServed`), through `StartsInvariance`. That a
lock directory a client removes is not that of a live server on its way up is a
chain through three pieces of state: a process holds at most the lock of its own
prefix and has the port exactly while it is bound, serving or stopping
(`GoodProcess`); every server on its way up has a client that spawned it and still
polls for it, or was left behind (`Polled`); a client that polls holds the startup
lock of its prefix (`GoodCall`); and while it does, no other server of its prefix
serves, unless the client has probed one in vain (`Alone`). So the holder of the lock
is either the server this client has just killed, or one of those that
`NoServerRobbed` names. The same chain gives `OneServerStarting`: two
servers of a prefix would have the same client polling for both. Pids may be used
again at any moment, which is why `Polled` is stated of pids and not of histories.

For `Watch` with any files, ignored or not, edits and failures: `WatcherSound`
(`WatchSpec => []WatchSound`) and `ClosedWatcherStartsNothing` (`NoRunAfterClose`).
`NothingForgotten` speaks of files the index is behind on whose last change was announced, and a reindex that
succeeds makes the index what it has read, edits that came meanwhile included. So
the inductive invariant also says of a running reindex that every file it has read
in a version that is out of date by now is announced: its event is on its way, or
it is pending or queued (`ReadsFollowed`); that there is one reindex at most; and
that a closed watcher has no timer armed.

For `Settings` with any environments in which a variable holds what its parser can be
given (`EnvironmentsAssumption`) and any bound on the length of a prefix that admits
the default one (`PrefixAssumption`): `SpawnedServersAlwaysAgree`
(`SettingsSpec => []SpawnedServerAgrees`). A client passes resolved values and the
server resolves them again, so the proof is that loading is idempotent where it
matters: a prefix that was normalised stays as it is (`PrefixOnce`), a path under the
home directory that was expanded is not expanded again (`PathAgain`), a number that
was accepted is accepted (`NumberRead`), and what is passed outranks what is inherited
(`ToldByArgs`).

**`ConnectionProofs`**, on `RemoteClient`, for any callers, calls and crashes of the
server: `BundlesStaySound` (`AdapterSpec => []BundlesSound`) and `RetriesStaySound`
(`AdapterSpec => []RetriesSound`), through `AdapterInvariance`. Bundles are numbered in the order
they are made, and the argument is about what a reconnect under way stands between:
the bundle it makes is newer than the current one and than the one of every call
that may still join it, and a call that waits for it has not retried yet
(`ConnectingInv`, `CallInv`). Then no call is left on a bundle that was closed under
it, and the retry is on a newer bundle than the first attempt. `RetriesSound` rests
on `TransientIsRetryable`: the errors `isTransient` accepts are those the adapter
marks as retryable.

**`RemoteStoreProofs`**, for any clients, calls, slots, places in the queue and
faults:

* `RetryIsHarmless`: each method of the graph and vector adapters but
  `runCypherWrite()`, executed twice in a row, has the effect of executing it once,
  for any rows and columns and on any consistent database;
* `StoreStaysConsistent`: `Spec => []StoreConsistent`;
* `NobodyIsForgotten`: `Spec => []CallerNotForgotten`;
* `Invariance`: the inductive invariant behind these two;
* `AcknowledgedStaysInForce`: `Spec => []AcknowledgedInForce`, through
  `TurnInvariance`;
* `BatchWritesItsRows` and `BatchesAreTheirRows`: a batch whose rows are whole
  (`WholeRows`: each has all columns of the batch, and a node that is overwritten has no
  others) has the effect of its rows one by one, on any database, and so
  `Spec => []BatchIsRows`. For other rows it has not (section 6).

Consistency follows from one lemma per kind of statement: a MERGE of rows with
pairwise different keys keeps keys unique and the columns of a relationship those of
its type, a relationship is written only between
nodes there are, a DETACH DELETE takes the relationships with the node
(`EffectKeeps`); and only `Execute` changes the database. `CallerNotForgotten` is
about two attempts that share an id, while the timer removes from the queue the
first entry with that id. It is inductive only with the order of the queue (an
earlier attempt of a call stands before a later one, or not at all) and with what
is known of each attempt that is held: it is not newer than its call
(`QueueInv`, `CurrentInv`). Then the entry that is removed is the one whose timer
fired.

`AcknowledgedInForce` is about one slot, and about attempts the client has given
up and the server has not. `TurnInv` says where they may be: what is held of a
client's current call has its operation; one operation runs at most; and in what
runs followed by what is queued no write of a client stands behind something the
client sent later (`InTurn`, `Before`; a read may overtake, a write may not, since
it is inserted behind its equals). Then, when a write is acknowledged, nothing
older of its client is left to undo it, and what is left of it is itself
(`Stands`), which `RetryIsHarmless` makes harmless.

`BatchIsRows` compares a batch (`CreateNodes` and the like) with the recursive
function `RowByRow`, which writes one row after the other. Induction over data is
done by hand: an explicit solution of the recursion is given (the database after the
rows up to `i`, in one step), it is shown that it satisfies the equations and that
any function that does agrees with it, since otherwise there would be a least
number of rows at which they differ.

**`UseCaseProofs`**, on `UseCases`, for any set of graphs with finitely many
symbols, whose relationships are between these, whose lines and token counts are
numbers and where no symbol's name is the id of another, since an id is a digest of path,
name and kind (`GraphsAssumption`), any questions and requests in which a parameter has
the type it says (`CallsAssumption`), and any positive maximum depth (`DepthAssumption`):

* `AnswersAlwaysAgree`: `Spec => []AnswersAgree`;
* `PlansAlwaysMatchImpact`: `Spec => []PlanMatchesImpact`;
* `SlicesAlwaysWithinBudget`: `Spec => []SliceWithinBudget`.

The invariant, `Replied`, is short: the graph is one of the graphs, and the reply is
one the tool can have given to its question. What is to be shown is about the
algorithms. `Dependents` is a recursive function of the depth; it is characterised
by walks (`Walks`: a symbol depends on another within `d` if a walk of at most `d` calls
leads from the one to the other), and everything two tools must agree on is a statement
on walks. The levels of the breadth-first search are the sets of symbols at a distance,
so the first level that has the goal gives a shortest path. The verdicts follow from
that, case by case of `ParseClaim`. A rename plan matches the impact because an edit of a
symbol is inside its lines, so `detect_changes` finds that symbol, and because risk grows
with the set of dependents.

A slice is made by a pass over the symbols in order, with a sum of tokens. Its
properties speak of sets, so most of the proof is about folds: a fold over a sequence or
a finite set exists and takes one element at a time (`FoldExists`, `FoldsUp`), a sum
does not depend on the order of its terms (`CostOrder`, `CostAgree`), and the total of
the list is the cost of the set of its members (`TokensAreCost`). That a recursive
function exists is shown from least elements (`Least`) and tables of growing length
(`Table`), as the library's theorems take operators. Then `TakesOne` says what one
symbol does to the slice, and `TakesWithin` what holds behind each of them: the budget is
kept, or only what is pinned was taken, and what was left out did not fit.

**`UseCaseProofs`**, on `TableReader`, for any rows, tables, page sizes (also those that
are refused) and number of changes (`TablesAssumption`): `TablesAlwaysReadWhole`,
`ReaderSpec => []WholeTableRead`. Its invariant, `ReaderInv`, says of a reading under
way that `skip` rows were read, which are the first `skip` ones if nothing has changed,
and otherwise, while none was removed, that each row of the start was read (`Got`)
or stands behind `skip` (`Ahead`): an added row pushes others back, never forward. The
short page that ends the reading is compared with the size it was asked for in, so
nothing stands behind it.

Only model-checked. Liveness (`AllAnswered`, `RunResolves`, `AcquireAndDrainReturn`,
`ShutdownEnds`, `CallsSettle`, `EnsureEnds`, `CatchesUp`) under fairness is out of
this prover's reach. Of the safety properties that the passing runs check all but
three are theorems. `AnalysesSound` and `ResolutionSound` are about Louvain's moves,
depth-first traces and C3 merging, which are recursive operators (in `Clustering`,
`Processes`, `Resolution`), and no module from which these can be reached has a usable
SMT backend. `VaultLinksLead` is about files made by filters and folds over nested rows
of text, with which the prover was not able to deal.

## 6. Where the code and its documents disagree

`incremental_crash` is the run that shows the one of most consequence:
`IncrementalEqualsFull` (`pipeline.ts:109`, `pipeline.ts:518`) fails when a run dies
after its first writes and the same file is edited before the next run; the cache
cannot tell that the database holds rows of the older content. `PROJECT.json` quotes
the document.

The following configurations are kept to reproduce others; TLC ends each with a
counterexample (`tlc -config X.cfg <module>`).

| Configuration, module | Property | What happens |
|---|---|---|
| `MCRefreshThenIncremental`, `MCIncrementalIndex` | `IncrementalEqualsFull` | `--refresh` fills the database and leaves the cache empty (`pipeline.ts:607`): the next incremental run after an edit takes every file for a new one and deletes nothing |
| `MCInsertOnly`, `MCIncrementalIndex` | `IncrementalEqualsFull` | the remote adapters have no deletes by file (`pipeline.ts:379`): an incremental run of a client only inserts, and the rows of a removed or changed file stay; the comment at `pipeline.ts:370` says it "degrades to full-refresh" |
| `MCWorkerPoolExit`, `WorkerPool` | `RetiredExitIgnored` | `recycle()` resets `retiring` (`worker-pool.ts:287`, comment at `:83`) before the exit of the retired worker arrives; the exit fails the successor's task and uses up a respawn |
| `MCPoolDesign`, `ConnectionPool` | `PoolBound` | the count of connections is read before an await and used after it (`connection-pool.ts:94`), against Property 1 of `.kiro/specs/connection-pool(done)/design-correctness.md` |
| the same without `PoolBound` | `DrainComplete` | an `acquire()` between two awaits is in no set that `drain()` counts (`connection-pool.ts:177`), against Property 8 there; nor is a release that is still closing its connection |
| `MCLockSuccession`, `ServerLifecycle` | `LockExclusive` | cleanup removes the lock directory by path when the lock is already released (`server.ts:99`); by then it may be the successor's (`docs/LADYBUGDB_CONNECTION_SERVER_SPEC.md:47`) |
| `MCForeignKill`, `Autostart` | `OnlyServersTerminated` | the pid of a discovery file is used again between the probe and the signal (`autostart.ts:148`, comment at `:258`) |
| `MCSerialised`, `MCRemoteStore` | `WritesSerialised` | with two slots an attempt that was given up executes after a later write of the same client |
| `MCBatchShapes`, `MCRemoteStore` | `AnyBatchIsRows` | a batch sets the union of its rows' columns (`ladybug-graph-adapter.ts:191`) where a single write replaces the record (`:171`), so a record may keep a column its row has not; `persistence.ts:58-60` says the stored result is identical either way |
| `MCClusterVectors`, `MCEmbeddingIndex` | `ClusterVectorCurrent` | a delta run computes the vector of a cluster and does not write it: cluster jobs have no file path, and the filter keeps paths in scope (`pipeline.ts:391-406`, comment on `inVectorScope`) |

Smaller ones met while translating, at the lines the models follow:

* Resolution: a comment at `resolution/index.ts:402` announces another order of
  tiers than the code has; `importMap`, `packageMap` and `namedImportMap` are filled
  by tests only; a member call to a method of its own name is skipped; of nested
  symbols around a call the outermost is the caller; an external package's id does
  not name its ecosystem.
* Clustering: a semantic classifier without reference vectors counts as
  initialised; ids of clusters and processes are positions, so they move when
  anything before them does.
* Batch writing: a full queue answers gRPC code 8 like a large message, and the
  writer splits rows for it (`persistence-helpers.ts:285-290`); the size is counted
  in UTF-16 units.
* Export: pages are read without a snapshot, so a deletion in between skips rows
  (`graph-reader.ts:283`; the case `WholeTableRead` excepts); a symbol in two clusters
  gets links to one of its two places; symbols of one name overwrite each other's file (`renderer.ts:92`).
* Settings: a URL without a port, or with port 0, starts no usable server
  (`autostart-runtime.ts:116`); prefixes that share `LADYBUGDB_PATH` have different
  lock files; a maximum message of one to three bytes is accepted, and the writer
  throws on it; `LADYBUGDB_PATH` alone is reported as "default".
* Queries: after a fuzzy match `impact_analysis` still computes the impact of the
  name that was asked.
* Front ends: HTTP pre-commit always reports low risk; a claim of "reachable" is
  refuted when the path is longer than the search; MCP over stdio validates no
  parameters; `shape_check` with a route counts all mismatches.
* Services: a malformed payload is parsed outside the `try` (`services/graph.ts:18`);
  the count of a deletion that was retried is that of the second attempt.
* Embedding: a model of equal width reuses the vectors of its predecessor; an
  embedding that failed is not tried again by delta runs until its file changes;
  eviction comes before pruning, so live entries may go while dead ones stay.

## 7. What is not modelled

* Text: tree-sitter queries and extraction rules, rendering of notes and answers,
  argument parsing, the MCP stdio protocol, logging, progress output, path
  sanitising. They transform text, and what they yield is the input of the models.
* I/O: git, embedding services, gRPC and the database engine, of which the models
  use that a MERGE is an upsert and DETACH DELETE takes the edges.
* `Scheduler`: starvation of background writes by a steady stream of reads is what
  strict priority means (`scheduler.ts:197`); `NoOvertaking` states the order.
* `ConnectionPool`: a second `drain()` of one pool, whose promise replaces the first
  one's (`connection-pool.ts:178`), a second `close()` of one adapter while the
  first awaits (`database-adapter.ts:69`), and the pool registry, in which two first
  callers may build two pools (`pool-registry.ts:13`). The model has one pool, one
  `drain()` and one `close()` per adapter, which is what its callers do outside of
  an interrupt that meets a command at its end.
* Database connection: the reference-counted cache of several connections in one
  process, its map of locks by path (`connection.ts:106`), and the interval between
  giving back the lock and closing the database (`connection.ts:161`), in which a
  second process may open the files: what the engine then does is not known.
* `IncrementalIndex`: rows of clusters, processes and external dependencies; a change
  of `PARSE_VERSION`; a changed file whose parse is skipped for want of a parser
  (`pipeline.ts:683`). The splitting of batches is `BatchWriter`.
* `WorkerPool`: a process that ends while `run()` is pending just takes no further
  step; what of the tasks' results is lost with it is the caller's.
* `ServerLifecycle`: the crash record and the log, more than one connection per
  process, and the `shutdown_failed` branch, which nothing in the sequence can reach
  since every step before it catches its errors.
* `RemoteStore`: the Health and Admin services, which read counters and begin the
  shutdown that `ServerLifecycle` models; sizes of messages; `RunCypherWrite`
  (`router.ts:85`, `remote-graph-adapter.ts:179`), which takes any statement, need not
  be idempotent, and is called by nothing in `src/`. `CreateTables` (`router.ts:142`) is
  modelled as an operation that leaves the rows as they are.
* `EmbeddingIndex`: more than one symbol per file; `EMBEDDING_CACHE_DISABLE`, which
  nothing calls.
* Queries: scores that only rank or explain, and the layout of responses; of clusters
  and processes the `confidence` that answers carry. Louvain's
  gains are exact fractions, so ties are ties; in floating point a tie may go either
  way.

## 8. Plan

What is left, in this order:

1. `DatabaseCache`: the reference counts of `connection.ts` and the pool registry
   with several callers in one process.
2. Rows of clusters and processes in `IncrementalIndex`, whose ids are positions.
3. Proofs: an abstract index ("the tables are those of the tree at the walk") that
   `IncrementalIndex` implements outside the excepted situations; an abstract store of
   which `RemoteStore` with one slot is an implementation.
