# Cube.js in TLA+

This directory is a verification development of the Cube.js back end: TLA+
modules that model its stateful components, TLC configurations that check them
on small instances, and TLAPS proofs for every instance. Paths such as
`QueryQueue.js:218` are relative to
`src/packages/cubejs-query-orchestrator/src/orchestrator/` unless a longer
path is given.

1. [The system](#1-the-system): components, state, operations, interactions
2. [The plan](#2-the-plan)
3. [The query queue](#3-the-query-queue): what the modules say and how they map to the code
4. [The other components](#4-the-other-components): the same for caches, pre-aggregations, live queries and Cube Store
5. [Runs](#5-runs): what is checked, with which bounds
6. [Fairness](#6-fairness)
7. [Proofs](#7-proofs)
8. [Where the code and its documentation disagree](#8-where-the-code-and-its-documentation-disagree)
9. [What is not modelled](#9-what-is-not-modelled)

## 1. The system

A Cube.js deployment is a set of Node.js processes: API instances that serve
HTTP and WebSocket requests, and refresh workers. They share a Redis instance
(production) or keep the same data in the objects of one process
(development), query the user's databases through drivers, and keep
pre-aggregated tables in the source database or in Cube Store, a distributed
store written in Rust.

| component | state | operations | interacts with |
|---|---|---|---|
| Query queue (`QueryQueue.js`) | a running reconciliation (`reconcilePromise`, `reconcileAgain`); one asynchronous `processQuery` per message | `executeInQueue`, `reconcileQueue`, `processQuery`, `processCancel`, `queryTimeout` | the queue store; calls the query and cancel handlers of the query cache and of the pre-aggregations |
| Queue store (`RedisQueueDriver.js`, `LocalQueueDriver.js`) | definitions, queue, deadlines, ACTIVE, heartbeats, processing locks, results, id counter | `addToQueue`, `retrieveForProcessing`, `freeProcessingLock`, `optimisticQueryUpdate`, `setResultAndRemoveQuery`, `getQueryAndRemove`, `updateHeartBeat`, `getResult(Blocking)` | shared by all processes (Redis) or by the queues of one process (local) |
| Query cache (`QueryCache.ts`, `RedisCacheDriver.ts`, `LocalCacheDriver.ts`) | cached results with time and renewal key, an LRU memory cache, locks, `handles` and `cancelHandlerCounter` of each queue | `cachedQueryResult`, `renewQuery`, `cacheQueryResult`, `withLock` | runs misses and renewals through the queue |
| Pre-aggregations (`PreAggregations.ts`) | table lists and version entries per load cache, touch and usage records, the tables themselves | `loadPreAggregation`, `loadPreAggregationWithKeys`, `refresh…Strategy`, `dropOrphanedTables` | its own queues; the query cache for refresh keys and the lock |
| Query orchestrator, server core (`QueryOrchestrator.ts`, `OrchestratorApi.ts`, `OrchestratorStorage.ts`, `CompilerApi.js`) | seen data sources, orchestrators per tenant | `fetchQuery`, `executeQuery`, `streamQuery` | API gateway above, cache and pre-aggregations below |
| Refresh scheduler (`cubejs-server-core/src/core/RefreshScheduler.ts`) | per worker an iterator with three cursors, kept between runs | `runScheduledRefresh`, `roundRobinRefreshPreAggregationsQueryIterator` | executes renewing queries through the orchestrator |
| Subscriptions (`cubejs-api-gateway/src/SubscriptionServer.ts`, `LocalSubscriptionStore.ts`) | per connection its authorization and subscriptions | `processMessage`, `processSubscriptions`, `disconnect` | WebSocket server below, API gateway methods |
| `cached-handler.ts`, `cubejs-backend-shared/src/promises.ts` | a lock and a queue of responses; cancel tokens, interval, debounce and memoize buckets | the handler; `cancel`, `with`, memoized calls | used by readiness checks, compiler, scheduler, locks |
| WebSocket transport of the client (`cubejs-client-ws-transport`) | socket, `messageQueue`, `messageIdToSubscription` | `request`, `subscribe`, `unsubscribe`, reconnects | the subscription server |
| Cube Store connection (`cubejs-cubestore-driver/src/WebSocketConnection.ts`) | socket, `sentMessages` | `query`, re-send on close | Cube Store |
| Cube Store (`src/rust/cubestore`) | metastore: tables, partitions, chunks, WALs, jobs; files in the remote store | schedule, run and time out jobs, compaction, garbage collection | its own workers |

**What is hard.** A query passes through many processes that share nothing but
Redis. Every `await` is a point where others may act: two processes read the
same queue and send the same query to be processed; a reconciliation reads
which queries are stale and removes them some calls later; a worker may lose
its lock while its SQL is running and finish it after somebody else has started
it anew. Processes stop at any moment and leave locks, activities and
heartbeats in Redis. Time-outs (`orphanedTimeout`, `4 * heartBeatInterval`,
`executionTimeout`, `continueWaitTimeout`) race the answers they wait for. The
list of such places, each at its line and with the properties that cover it, is
`hazards` in `PROJECT.json`.

**What makes the components correct**, in short:

- *queue*: a query's entry is whole or absent; at most one lock holder per
  query, and no result but that of the present holder is set, once; at most
  `concurrency` executions; a cancellation hits the query it is meant for;
  whatever a dead process left is reclaimed; a query somebody keeps asking for
  is executed;
- *query cache*: a result is as new as the renewal key it is stored under, the
  cache becomes fresh and stays so, and every request ends;
- *pre-aggregations*: nobody chooses a table that is being loaded, a table goes
  only when a newer one is there, and the current one gets built;
- *live queries*: the callback gets the latest result although connections are
  lost, and then none are sent; nothing is kept for a connection that is gone;
- *Cube Store, meta store*: everything that counts as uploaded is held by the
  remote file system, and a start takes no row back behind the check point;
- *Cube Store, data*: a query finds every row, and the files it reads stay;
- *refresh scheduler*: every partition is refreshed by exactly one worker per round;
- *connections*: an unanswered request is sent again, an answered one is not.

## 2. The plan

In this order; (done) marks what this directory holds.

1. `QueueStore`, `QueryQueue`, `FencedQueue`, `MCQueryQueue` (done): the queue
   on both drivers, with crashes; `QueryQueueProofs` (done): type correctness,
   the inductive invariant, the refinement, the concurrency, the cancel handles.
2. `QueueReconcile` with `QueueReconcileProofs` (done): the reconciliation that
   calls share, with failing store calls, and the wake-ups it must not lose.
   `ResultHandOff` with `ResultHandOffProofs` (done): results as values in a
   list (Redis) or a promise (local), several requests waiting for one query.
3. `CacheRenewal` with `CacheRenewalProofs` (done): a cached result, its refresh
   key and the memory caches of several processes.
4. `PreAggregationTables` with `PreAggregationProofs` (done): loads, builds, the
   lists of tables, and the dropping of orphaned tables under its lock.
5. `LiveQueries` with `LiveQueriesProofs` (done): the transport of the client
   composed with the subscription server, over connections that break.
6. `MetaStoreSync` with `MetaStoreSyncProofs`, `StoreData` with
   `StoreDataProofs` (done): uploads and restarts of Cube Store's meta store;
   imports, compactions, repartitions and the garbage collection.
7. Left: the local lock and the Redis lock on their own (`withLock`), the round
   robin of the refresh scheduler, `asyncMemoize` and `cachedHandler`, the
   connection to Cube Store, external pre-aggregations and partitions, the
   choice of workers and the heartbeats of Cube Store's jobs. These are small
   or sequential beside what is here (section 9).

The abstract specification is `FencedQueue`, what the queue promises with either
driver. For the other components the promise is the temporal property of their
run ("the latest result arrives", "the current table is there for good").

## 3. The query queue

`executeInQueue` (`QueryQueue.js:36-125`) adds a query under the hash of its
key, or joins the one that is there, and reconciles. `reconcileQueueImpl`
(208-241) removes stalled and orphaned queries, cancels their executions, and
sends a message for the first inactive queries, up to the concurrency. Each
message runs `processQuery` (353-501) in the same process: get a processing id,
retrieve (lock, try to become active), then either execute and set the result,
or free the lock and give up.

### Modules

`QueueStore` is the store: its variables are the Redis keys (or the local
objects) of one queue, and it has one operator per driver operation.
`QueryQueue` is the code that uses it. `FencedQueue` is what both promise
together. `MCQueryQueue` gives the constants values for TLC.

Two more modules look closer at what these abstract. `QueueReconcile` is
`reconcileQueue` of one process, with the promise that calls share, the two
reads one after the other, and store calls that throw; of the store it keeps
what decides who may run. `ResultHandOff` is `getResult`, `getResultBlocking`
and the push of `setResultAndRemoveQuery` for one query and several requests,
command by command, for both drivers; results are numbered.

| `QueueStore` variable | Redis key | local object |
|---|---|---|
| `queryDef`, `cancelHandler` | hash `QUERIES`, the field of the JSON in it | `queryDef` |
| `toProcess`, `earlier` | sorted set `QUEUE`; `earlier` is the order of arrival in its scores | `toProcess` |
| `recent`, `orphaned` | sorted set `RECENT`; the members whose score has passed | `recent` |
| `active` | sorted set `ACTIVE`, the score being a processing id | `active` |
| `heartBeat`, `stalled` | sorted set `HEART_BEAT`; the members older than `heartBeatTimeout` | `heartBeat` |
| `lock` | string `…_PROCESSING_LOCK` | `processingLocks` |
| `results` | list `…_RESULT`: 0, or the processing id under which its element was made (the data itself does not bear it) | a resolved `resultPromises` |
| `processingCounter` | counter `PROCESSING_ID` | `processingCounter` |

Time is not counted: `DeadlinePasses` and `HeartBeatAges` move a key into
`orphaned` and `stalled` when the code could see it there. The second needs
that no live worker has been reporting, unless `MayStall` allows a worker to
miss its reports.

`QueryQueue` has one record per `processQuery` invocation (`wk`), one per
process for the reconciliation (`rec`), the messages sent and not yet started
(`inbox`) and the handle counters. The number of workers bounds the
invocations in flight.

| action | code |
|---|---|
| `Request` | `executeInQueue` without a result: `addToQueue`, `reconcileQueue` |
| `TakeResult` | `executeInQueue` or its blocking wait finds a result |
| `ReadToCancel`, `RemoveAndCancel`, `ReadActive`, `SendProcessMessages` | the awaits of `reconcileQueueImpl` |
| `Start` | `processQuery` begins: `getNextProcessingId` |
| `RetrieveNothing`, `Retrieve` | `retrieveForProcessing` and the decisions on its result (365-372) |
| `ReadDefinition` | 369-371, the definition was not among the results |
| `MarkStarted`, `MarkFailed` | the update of `startQueryTime` (384) returns or throws |
| `RegisterHandle` | the handler starts and takes a number (`QueryCache.ts:269-272`) |
| `SaveHandle`, `SaveHandleFailed` | `setCancelHandle` (395-407) |
| `HeartBeat` | the timer (386-389) |
| `Complete`, `TimeOut` | the handler settles, or `queryTimeout` fires (420-446) |
| `SetResult` | `setResultAndRemoveQuery`, then `reconcileQueue` (448-460) |
| `FreeLock` | the skip branch (461-490) |
| `DeadlinePasses`, `HeartBeatAges`, `Crash` | time and failures |

`QueueReconcile`: `phase` is `reconcilePromise` ("none" is null) and how far
`reconcileQueueImpl` is; `again` is `reconcileAgain`. `request[k]` is the
`executeInQueue` of the client that asks for `k`, `finisher[k]` the worker that
has removed `k`, `starting[k]` counts the `processQuery` calls that have not
retrieved yet, `holder[k]` says what the holder of the lock does.

| action | code |
|---|---|
| `Ask` (in `AskForRequest`, `AskAfterResult`) | `reconcileQueue` (139-162) up to the shared promise |
| `ReadActive`, `ReadToProcess` | 228-237; the messages are sent with the second read |
| `ReconcileThrows`, `Reject` | an exception in `reconcileQueueImpl`, the `.catch` |
| `ReconcileReturns` (`Restart`, `Resolve`) | the `.then` |
| `AddToQueue`, `TakeResult`, `AskAnew` | `executeInQueue`, and the client's next request |
| `Retrieve`, `FreeLock`, `SetResult`, `ProcessingFails` | `processQuery` with the local driver's `retrieveForProcessing` |

`ResultHandOff`: `list` is the Redis list, or the value of a resolved promise;
`blocked` the clients in BRPOP, in the order they are served, or those that
await the promise; `promise` says that `resultPromises` has an entry.

| action | Redis | local |
|---|---|---|
| `FirstLook` | RPOP | `getResult`: a resolved promise is taken and deleted |
| `CheckDefinition`, `Block` / `AwaitPromise` | HGET, then RPOP or BRPOP | one step up to `Promise.race` |
| `HandBack`, `DropSpare` | LPUSH, RPOP | |
| `TimeOut` | BRPOP returns nil | the race is lost, the promise stays |
| `SetResult` | LPUSH in the transaction | `resolve`; all who wait go on and delete the promise |
| `RemoveQuery`, `NextRequest`, `Crash` | | a crash takes the local store with it |

### Abstractions, and why they are sound

- A `MULTI` block is one step: Redis executes it so. `WATCH`, `GET`, `EXEC` on
  the lock is one conditional step: processing ids are never reused, so a lock
  that holds my id at `EXEC` held it all the time, and a refused `EXEC` has the
  effect of having read the other's lock. Where the two differ (an update that
  finds no definition, or is refused at `EXEC`, throws; one that sees another id
  returns) both outcomes are there: `UpdateReturns`, `UpdateThrows`.
- A local driver operation does not await, so it is one step.
- `addToQueue` and the following `reconcileQueue()` are one step: the first
  step of a reconciliation (a read) is a step of its own, so what happens
  between the two calls can as well happen before that read.
- Stalled and orphaned keys are read in one step. A key that becomes stalled
  between the two calls is a key that becomes stalled just after them.
- The inbox is a set: two messages for one key in one process that have not
  started are one. A second `processQuery` for a key that is under way is
  possible (the message may be sent again after the first has started).
- After `TimeOut` the model forgets the handler that still runs: it changes no
  shared state any more except through a cancel handle it has registered.
- `TimeOut` happens only while no `setCancelHandle` is in flight. The two would
  share a Redis connection and with it its `WATCH` state
  (`RedisQueueDriver.js:235`), which is not modelled.
- Those who await a local promise go on in one step: their continuations are
  adjacent microtasks.
- `QueueReconcile` leaves out expiry, stalling and several processes (all in
  `QueryQueue`), and a store call that throws after a retrieval: such a worker
  leaves its lock, and the heartbeat time-out of `QueryQueue` reclaims it.
- Priorities are per key; equal scores are ordered by arrival. (The score is a
  double near 10^18, where neighbours are 128 apart, so arrivals within 128 ms
  may in fact tie.)


## 4. The other components

### `CacheRenewal`: results and their refresh keys

`cacheQueryResult` (`QueryCache.ts:409-536`) looks a key up in the memory of
the process, then in the shared cache, and fetches through the queue what is
missing or to be renewed; `renewQuery` (322-352) runs it for the refresh key
and then for the query with the key's value; `cachedQueryResult` (67-155)
answers the request and starts such renewals. The module has one query and one
refresh key. Both return the version of the data they were executed against, so
that "is the result as new as its key" is a comparison.

| variable | code |
|---|---|
| `cache` | the entries of the cache driver: value, renewal key, and a time, kept as an age (young, close to the threshold, past it) |
| `memory` | `memoryCache` of each process; only refresh keys use it |
| `execution` | the query's execution in the queue, or its result that nobody took |
| `call` | a `renewQuery` or the main promise of a background fetch: how far it is and the key it got |
| `fetch` | its `fetchNew` for each of the two queries |

| action | code |
|---|---|
| `Start` | a request (67-155) in one of four ways: `renewQuery` with or without `skipRefreshKeyWaitForRenew`, a plain background fetch, a forced one |
| `FromMemory`, `FromCache` | 460-489, 491-531: an entry that is good |
| `RenewBehind` | "Renewing existing key" (518-526): the old value is used, a fetch goes on behind it |
| `FetchAndWait` | "Missing cache", "Waiting for renew", "Force no cache" |
| `Store`, `Drop` | `fetchNew`'s `then` and `catch` (426-447) |
| `Execute`, `Finish`, `TimeOut` | the queue: `processQuery`, its end for all who wait, `continueWaitTimeout` |
| `Tick`, `Expire`, `UpdateData` | time, the expiration of an entry, the source data |

The refresh key's own query is executed at once: it is short, and what matters
about an execution under way (a fetch that joins it stores a result older than
its key) is modelled for the main query. `joined` in an entry is a history
variable; it says which entries `OwnEntryMatchesKey` speaks of.

### `PreAggregationTables`: loads, builds and dropped tables

`loadPreAggregation` (`PreAggregations.ts:415-569`) of one pre-aggregation kept
in the source database. A request takes the list of tables from the cache or
fetches it, then the state of the queue, and leaves out the tables that are
queued (246-284). It uses the table of its content (the values of the refresh
keys), makes do with the newest one of the structure while the right one is
built, or waits for it. A build (678-705) loads the table, lists the tables,
drops orphaned ones under a lock (918-974) and lists them again.

| variable | code |
|---|---|
| `content` | what the refresh keys evaluate to |
| `tables`, `loading` | what the database shows, and which of these are not complete |
| `list`, `fetch` | the cached result of "Fetch tables"; the query that gets it, shared by all who ask |
| `queue` | the definitions in the pre-aggregation queue |
| `build` | the builds under way, each with its table, and the builds that died and left a definition |
| `lock` | `dropOrphanedTables`' lock |
| `request` | a `loadPreAggregation`: its stage, content, what it saw |

| action | code |
|---|---|
| `Begin` | 415-465; with `renewQuery` the refresh keys are awaited first |
| `ReadList`, `FetchTables`, `CacheTables` | `tablesFromCache`, "Fetch tables" and the caching of its list (195-230) |
| `ReadQueue` | `fetchQueryStageState` and the version entries (246-284) |
| `ReadKeys`, `Decide` | 467-569; the answer, `executeInQueue`, or `scheduleRefresh` |
| `Renew` | `reset` after the table was created (512-521) |
| `Load`, `Loaded` | the table is loaded and indexed (695-701); as many at a time as `queueOptions` allow (1360-1373) |
| `BuildLists`, `BuildCaches` | the two `fetchTables` of a build (702, 704): the database is asked, the answer cached |
| `DropOrphaned`, `DropTable`, `FreeLock` | `dropOrphanedTables` under `withLock` |
| `FinishBuild`, `Settle` | the result is set and those who wait are told, if the definition is still queued |
| `BuildFails`, `DropFails` | a call to the database throws, or a table to be dropped is there no more |
| `Crash`, `Reclaim` | the death of a builder; a reconciliation removes the stalled definition |
| `Orphan` | a reconciliation removes a definition nobody has asked for, its build going on (`QueryQueue.js:211-226`) |
| `ExecutionTimesOut` | those who wait get an error, the build goes on (434-450) |
| `TimeOut`, `ChangeContent`, `ExpireList`, `ExpireLock` | "Continue wait", and time |

Which tables count as used is left open (`used` is any subset of the tables),
so `ReplacedFirst` does not lean on the records of use. What a request answers
is left out. A request that is answered by a table of the structure goes on as
its own background refresh. The two reads in `dropOrphanedTables` (the tables,
and the records of use, which are any) are one step. A load that fails or is
cut off may leave no table (databases load a table with one statement); where
`createIndexes` has failed the table stays (`Abandon`). A table that is being
loaded is locked until it is there, so a build that is to drop it waits.

A definition may leave the queue before its build ends, and then builds overlap
and the queue hides the table no more. Two properties say what is left of their
promise: `NotBeingLoaded` speaks of tables whose definition is in the queue, and
`ReplacedFirst` excepts what is dropped by a build that chose while another table
was being loaded (`whole` in `build` records that): it may take that table for the
newest one and drop the only one with its data.

### `LiveQueries`: subscriptions over connections that break

Client (`cubejs-client-ws-transport/src/index.ts`), network and server
(`SubscriptionServer.ts`, `LocalSubscriptionStore.ts`, `gateway.ts:905-929`),
composed in one module because every property is about both ends.

| variable | code |
|---|---|
| `wanted`, `queue`, `ws` | `messageIdToSubscription` (has the query), `messageQueue`, the socket with `readyState` after the handshake and its set of sent ids |
| `link`, `toServer`, `toClient` | the connections and the messages under way |
| `pending`, `listening`, `got` | `pendingResults`; whether `nextMessage` is set; the latest version the callback has got |
| `auth`, `subscribed`, `state` | the store: `authContext`, the subscription, its last result |
| `task` | a load in progress: one from the server's interval, one from a message |

`Subscribe`, `SubscribeNext`, `Unsubscribe`, `SendQueue`, `HeartBeat`,
`Receive` and `Close` are the client's methods, timers and socket callbacks;
`TakeNext` is `runNextMessage` (`index.ts:211-242`): a result goes to the callback
if it waits for one, else to `pending`, from which the callback takes the newest
when it subscribes again (`SubscribeNext`, `cubejs-client-core/src/index.js:140`);
`InitSocket` is part of those that open a socket. `ProcessMessage` is
`processMessage` up to its load (`Authorize`, `HandleUnsubscribe`,
`HandleSubscribe`), `ProcessSubscription` one subscription of
`processSubscriptions`, `Answer` the end of both. `Disconnect` is the server's
close handler, `Expire` the clean-up in `getAllSubscriptions`. `LoseLink` cuts
a connection and tells nobody.

A load gives the data as of when it began, the oldest it can give. Comparison,
send and store at its end are one step: the local store never gives up the
thread between them. One query per client, and one message of it at a time
beside the interval. A version of the data stands for the whole result as
`gateway.ts:918` compares it, rows and `lastRefreshTime` together, so `UpdateData`
is also a renewal of the refresh key: as long as these go on the server goes on
sending, and `Settles` speaks of the time after the last of them. Since older
results may follow the latest to the callback, `LatestArrives` asks that the
callback gets the latest, not that it gets nothing after it. The token is good and
`checkAuthFn`, which is awaited, is one step of `Authorize`: with a bad one the
client is refused whatever it subscribes to.

### `MetaStoreSync`: Cube Store's meta store on the remote file system

`run_upload`, `upload_check_point` and `load_from_remote`
(`src/rust/cubestore/src/metastore/mod.rs:1571-1911`). `db` is the content
(which write put each row last), `wal` its batches, `uploaded`, `checked` and
`stamp` are `last_upload_seq`, `last_check_seq`, `last_checkpoint_time`;
`snapshots`, `logs` and `current` are the files of the check points, the logs in
their directories and the file `metastore-current`. `loop` is the upload loop
with what it has read. `written` numbers the writes: one that is made after a
start has a number no lost one had.

| action | code |
|---|---|
| `WriteOperation` | a batch is written (1663-1705), also while an upload is under way |
| `BeginUpload`, `GetUpdates`, `UploadLog`, `Finish` | `run_upload` (1726-1787) |
| `TakeCheckPoint`, `UploadSnapshot`, `DeleteOld`, `SwitchCurrent` | `upload_check_point` (1788-1911); the files of older directories go one by one |
| `UploadFails` | a remote call fails: a log may be left damaged, a check point in part, old files deleted in part |
| `RestartOnLocalFiles`, `RestartFromRemote` | a crash and the next start; the second has lost the local files |

`get_updates_since` returns the batch that contains the sequence number asked
for, so a log begins with a batch that has been uploaded (`FirstUpdate`), and
may overwrite a log of the same name. A log file is one batch when it is
written (`Merge`) and when it is replayed. Logs are replayed in the order in
which the file system lists them, which is any (`Listings`), up to the first that
is damaged (`Readable`). What is found of a check point may lack files: without
`CURRENT` RocksDB begins an empty database, without another file it opens none and
the process ends (`CanOpen`); `Parts` has one file for these others. A start
reads the remote files in one step: nobody else writes them.

### `StoreData`: the rows of an index while they are moved

`store/mod.rs`, `store/compaction.rs`, `scheduler/mod.rs`, `cluster/mod.rs` and
the operations of the meta store they call. `partitions` and `chunks` are the
rows of these tables with the rows in each file, `jobs` the job table with what
each worker has read, `events` the meta store events that were sent and not
handled, `garbage` the tasks of `DataGCLoop`, `select` a planned query.

| action | code |
|---|---|
| `PartitionData`, `ActivateChunks` | an import cuts its rows for the active partitions; its chunks are activated together |
| `ProcessEvent` | `process_event` (`scheduler/mod.rs:73-224`): adds jobs, hands files to the garbage collection |
| `CompactCreate`, `CompactSwap` | `compact` (`compaction.rs:49-231`) and `swap_active_partitions` |
| `RepartitionRead`, `RepartitionCreate`, `RepartitionSwap` | `repartition`, chunk by chunk, and `swap_chunks` |
| `Completed`, `JobFails` | the end of a job in `run_local`, which the scheduler is told of |
| `StartSelect`, `EndSelect`, `Tick`, `Collect` | planning a query, its end or time-out, the deletion of files |

Writes of the meta store are single-threaded transactions and so are steps. The
handlers of events are spawned tasks and run in any order; two waiting events
of a row are one, because the handler reads the row. A job that has timed out
fails, though its work may already be done. `CompactCreate` joins reads and the
creation of partitions that are not active, which nobody looks at. The loop up
to the root that finds a partition's chunks is `Lineage`, the least set that has
the partition and the parent of each member; a new partition ends where the
next one begins (`EndOf`). A select reads the files of the active partitions and
of the chunks in their lineages whole (`FilesToRead`): nothing filters a chunk of
a partition that has been split by the ranges of the partitions it was split into
(`mod.rs:2080-2109`, `planning.rs:407-444`, `query_executor.rs:311-352`), so its rows
are read once for each of them, and TLC finds such states. `EachRowIsRead`
therefore says where a row is stored and that it is found, and asks for one read
only where the chunk's partition is active. The job of a compaction is deleted in
the step of its swap, which the code does a little later (`cluster/mod.rs:544`).

## 5. Runs

| run | instance | properties | shows |
|---|---|---|---|
| `redis_two_queries` | Redis, 1 process, 2 queries of different priority, 2 workers alike, concurrency 1, ids and handles up to 2, stalls, time-outs | `TypeOK`, `EntryWhole`, `OwnerHasEntry`, `ActiveWithinConcurrency`, `CancelsItsOwnQuery`, `KeepsPromise` | entries stay whole and an owner's query queued when it is reclaimed and executed anew under an execution that goes on; the trim keeps ACTIVE within the concurrency; a cancellation hits its query only; a late result is not set under the lock of the next holder |
| `redis_crashes` | Redis, 1 query, 2 processes that crash, fairness | `ActiveBelongsToOwner`, `LockIsReclaimable`, `AbandonedIsReclaimed` | what a dead process leaves is consistent, and once crashes stop the lock of a dead execution is freed |
| `local_two_queries` | local, 2 queries, concurrency 1, deadlines pass | `ConcurrencyRespected`, `KeepsPromise` | the local driver does respect the concurrency |
| `reconcile` | 2 queries, concurrency 1, 1 failing store call, fairness | `TypeOK`, `HeardBeforeWaiting`, `NoPlaceIsLost`, `AddedIsAnswered` | no call of `reconcileQueue()` is lost, and clients that ask again are answered |
| `handoff` | both drivers, 3 requests, 2 results, time-outs, crashes, fairness | `TypeOK`, `OneCopy`, `NotAnsweredAgain`, `WaitersAreServed` | results are not duplicated or answered again, and all who waited are served |
| `cache_renewal` | 1 slot of requests, 2 processes, 2 versions of the data, both queries may fail, fairness | `TypeOK`, `OwnEntryMatchesKey`, `EventuallyFresh`, `RequestsEnd` | entries match their keys, the cache gets fresh, every request ends |
| `pre_aggregations` | a client and the scheduler, 2 contents, 2 builds, concurrency 1, 1 upset (a failure, a crash, a change, a definition removed or timed out), fairness | `TypeOK`, `NotBeingLoaded`, `ReplacedFirst`, `EventuallyCurrent` | no request chooses a table the queue is loading, a table goes only for a newer one, the current one gets built |
| `live_queries` | 2 connections, the first of which may be lost, 2 versions, 1 failing load, 2 results that may wait, fairness | `TypeOK`, `AuthorizedFirst`, `LatestArrives`, `Settles`, `DeadAreForgotten` | the callback gets the latest result, then none are sent; dead connections are forgotten |
| `meta_store_sync` | 3 writes over 2 rows, 5 times, 2 faults, fairness | `TypeOK`, `NotBehindCheckPoint`, `SyncedIsHeld`, `WritesGetUploaded` | no log takes a row back behind the check point in any order of replay, what counts as uploaded is held, every write gets there |
| `store_data` | 2 keys, 3 imports, 3 partitions, 4 chunks, 1 failing job, fairness | `TypeOK`, `EachRowIsRead`, `FilesAreKept`, `ChunksMoveOn` | a row is in one file and a select for its key reads it, its files stay, no chunk is left behind |
| `finding_concurrency`, `finding_restore` | | see section 8 | |

Passing runs have between 60 thousand and 1.4 million distinct states and take
up to three minutes each.

**Bounds, and why they are enough.** *Queue*: two keys, two workers and ids up
to 2 are enough for every hazard listed: a hazard needs one query and an old
and a new execution of it, or two queries that compete, and an execution that
returns after the next one has begun. `Concurrency` is 1 where queries compete.
`local_two_queries` and `redis_two_queries` use the symmetry of two workers of
one process, which no definition tells apart; their properties are safety
properties.

*Reconciliation*: one `processQuery` call per key that has not retrieved yet
(`MaxMessages`) is enough: the lost wake-up needs a second call that retrieves
while the first, which has the lock, is skipping. It does happen: b is sent
while a executes and finds no place; before it frees its lock, a finishes and
reconciles, b is sent again, finds its own lock taken and is skipped; b's lock
is freed and nobody will look at the queue. `AddedIsAnswered` holds because b's
client gets "Continue wait" and asks again.

*Hand-off*: three requests make the hand-off a chain (one gets the result,
hands it to the second, who hands it to the third) and two results let an old
one overtake a new one: with Redis a request that got result 1 and pushes it
back after result 2 was pushed discards result 2 and leaves 1 for a later
request. `NotAnsweredAgain` is therefore stated for the local driver.

*Cache*: what one slot of requests starts behind it (`RenewBehind`, executions
that outlive a request that timed out) already overlaps with its next request;
two processes give two memory caches. Two versions let a result be older than
its key. The proofs cover any number of slots.

*Pre-aggregations*: two builds of two contents can end in the other order than
they were asked for; one upset cuts one of them off, or takes its definition
away, so that the two overlap. `OutOfBuilds` is where the
bound keeps a request from going on, and `EventuallyCurrent` excuses just
that. The proofs cover every number of builds and every concurrency.

*Live queries*: all but the last connection may be lost, otherwise nothing
could be promised; a load begun for the first connection ends after the second
has been opened. Two results can wait, so that the older one of them is taken
last. *Meta store*: three writes put a row twice with another
write between them, a check point falls between two logs, and a fault may hit
two of the upload, the check point and the start after it. *Store data*: one import is
there from the start, the second fills two keys, so the compaction splits the
partition, and the third cuts a chunk for the partition that is being
replaced. A query lives one tick and garbage two, in the proportion that
production must keep (`config/mod.rs:259`).

**Deadlock.** `CHECK_DEADLOCK FALSE` stands in the runs of the queue, the
hand-off and the meta store because a run stops when ids, results or times are
used up, and in `live_queries` and `store_data` because the system really may
come to rest: nobody wants the query any more, or there is nothing left to move.

**Mutants.** Every property of a passing run has a mutant: an operator in the
module, just before the definition it spoils, that is the definition with a
plausible mistake (a lock not deleted, a result set without looking at the
lock, an error cached as a result, a sequence number set too far, an event that
is ignored). With the mutant in place TLC finds the property violated in the
same instance.

## 6. Fairness

Safety properties assume none. The specifications with fairness:

- **`QueryQueue`**, for `AbandonedIsReclaimed`: weak fairness of each process's
  reconciliation and of each worker that has started (an event loop runs what
  is ready, and executions end because `executionTimeout` ends them), of
  `HeartBeatAges` (time passes; its guard says that it does not make a
  reporting worker's heartbeat old), and of requests for each key (a client
  that got "Continue wait" asks again, and the refresh worker asks
  periodically). Crashes stop eventually: otherwise the process that is about
  to remove the query may crash each time. Nothing is assumed of `Crash`,
  `DeadlinePasses` or `Start`.
- **`QueueReconcile`**: every step of the process, and the clients, who ask
  until they have an answer: that is what "Continue wait" tells them. Failing
  calls are bounded by `MaxFailures`.
- **`ResultHandOff`**: a request that has begun goes on; nothing of executions.
  The property holds as long as no request times out or crashes (`disturbed`).
- **`CacheRenewal`**: time passes, the queue executes what it has, requests
  make their steps and keep coming. Strong fairness of two things: an
  execution with a result (the source does not fail for ever), and a request
  that starts a renew cycle (every request does, `QueryCache.ts:67-155`; the
  modes `plain` and `force` are main promises beside such a cycle). Weak
  fairness would be met by a slot that is busy every other moment.
- **`PreAggregationTables`**: requests begin (clients repeat them, the
  scheduler comes back), make their steps and time out; "Fetch tables" and the
  builder go on; the queue reclaims what stalls; the cached list and the lock
  expire. Nothing of failures, crashes and changes, which are bounded.
- **`LiveQueries`**: timers fire, messages on a working link arrive, loads end,
  the callback returns and subscribes again (`SubscribeNext`; client-core does so
  after every result, `index.js:82-90`),
  and a lost link is noticed by both ends (the client by four silent
  intervals, the server by its socket). No fairness of `HeartBeat`, so the
  result arrives without it, nor of `LoseLink`, `UpdateData` or the user.
- **`MetaStoreSync`**: the upload loop goes on and time passes. Nothing of
  writes; failures are bounded.
- **`StoreData`**: imports end, events are handled and jobs are run (`Work`).

## 7. Proofs

Every theorem holds for every value of the constants, from the `ASSUME`s of the
modules (sets of keys finite, bounds natural, the local store has one process
that does not crash), which TLC evaluates in the runs, and from what the table
says.

| module | theorem | states |
|---|---|---|
| `QueryQueueProofs` | `TypeCorrect` | `Spec => []TypeOK` |
| | `EntriesAreWhole` | `Spec => []EntryWhole` |
| | `OwnersHaveEntries` | `Spec => []OwnerHasEntry` |
| | `ActivityIsOwned` | `Spec => []ActiveBelongsToOwner` |
| | `LocksAreReclaimable` | `Spec => []LockIsReclaimable` |
| | `QueueKeepsPromise` | `Spec => KeepsPromise`: `QueryQueue` implements `FencedQueue` |
| | `ActiveIsWithinConcurrency` | `Spec => []ActiveWithinConcurrency`, both drivers |
| | `LocalConcurrencyRespected` | `Spec => []ConcurrencyRespected` for the local driver |
| | `CancellationsHitTheirQuery` | `Spec => CancelsItsOwnQuery` for one process that does not restart |
| `QueueReconcileProofs` | `ReconcileTypes` | `Spec => []TypeOK` |
| | `RequestsAreHeard` | `Spec => []HeardBeforeWaiting` |
| | `PlacesAreHeld` | `Spec => []NoPlaceIsLost` |
| `ResultHandOffProofs` | `HandOffTypes` | `Spec => []TypeOK` |
| | `ResultsAreNotDoubled` | `Spec => []OneCopy`, both drivers |
| | `LocalResultsAreTaken` | `Spec => []NotAnsweredAgain` |
| `CacheRenewalProofs` | `CacheTypeOK` | `Spec => []TypeOK` |
| | `OwnEntriesMatchKeys` | `Spec => []OwnEntryMatchesKey` |
| `PreAggregationProofs` | `TablesTypeOK` | `Spec => []TypeOK` |
| | `NoneBeingLoaded` | `Spec => []NotBeingLoaded` |
| | `LoadedAreReplacedFirst` | `Spec => ReplacedFirst` |
| `LiveQueriesProofs` | `LiveQueryTypes` | `Spec => []TypeOK` |
| | `ClientIsAuthorizedFirst` | `Spec => []AuthorizedFirst` |
| `MetaStoreSyncProofs` | `SyncTypes` | `Spec => []TypeOK` |
| | `ReplayKeepsCheckPoint` | `Spec => []NotBehindCheckPoint` |
| | `UploadedIsHeld` | `Spec => []SyncedIsHeld` |
| `StoreDataProofs` | `StoreTypes` | `Spec => []TypeOK` |
| | `RowsAreRead` | `Spec => []EachRowIsRead` |
| | `SelectFilesKept` | `Spec => []FilesAreKept` if `QueryTimeout < NotUsedTimeout` |

These are all the invariants and all the step properties of the passing runs.

**Queue.** `TypeOK` is not inductive: a worker must be known to have an id of
its own before its retrieval can be seen to put a valid id into the lock.
`TypeInv` adds `IdsAreOwn`: the ids of workers under way are ids that were
handed out, and distinct. The safety invariants need each other:
`ActiveBelongsToOwner` needs `SkippedIsInactive` (a worker that skips a query it
was not activated for leaves no activity under its id), `OwnerHasEntry` needs
`EntryWhole` and that ids are distinct (the step that removes a query removes
the lock, and no other worker's id can be there). `QueueInv` is their
conjunction with `TypeInv`; `NextQueueInv` proves it action by action. The
refinement maps the lock to the grant and "handed out and not about to
retrieve" to the spent ids; a step `Finish(k, id)` names the id whose result is
set, and allows it only if `id` holds the grant. `PromisedStep` uses `QueueInv`
for `Finish` (the query of a lock holder is still queued) and for `Grant` (the id of a worker
about to retrieve is not spent).

**Concurrency.** The Redis driver keeps the members of the lowest ranks. That
these are at most `Concurrency` is a count, and it is true only because scores
are distinct: `TrimmedCount` shows that the rank is an injection into
`0 .. Concurrency - 1`. Scores are ids of locks; `LocksAreDistinct` says that no
two keys are locked under one id, which a retrieval keeps since the id of a
worker about to retrieve is in no lock. With the local driver, moreover,
nobody takes a place away from a holder (`HoldersAreActive`): a lock holder
that executes is in ACTIVE, and so executions are counted by ACTIVE.
`finding_concurrency` is what happens with Redis instead.

**Cancel handles.** `HandleInv`: numbers in use are not above the counter, no
two executions have the same, and the number in a definition names an execution
of that query. Only `RemoveAndCancel` and `TimeOut` take a running execution
away (`WhoCancels`), and by `HandleInv` the one they take is that of the query
they are about. Both assumptions are necessary: a handle is a number of one
process, and the counter starts at 1 again after a restart (section 8).

**Reconciliation.** `HeardBeforeWaiting` is not inductive: one must know what
becomes of a request while it waits. `WaitingWillBeHeard` says that there is a
promise then, and that a run that has returned without being asked for another
one has heard every request that waits; a call that comes later sets `again`.
`TypeOK` is inductive; it says that no query is queued twice, so that removing
the first occurrence removes it (`RemoveFirstKeepsQueue`).

**Hand-off.** The list and the queue of blocked requests are sequences without
repetition. The first part of the module says, for each way in which a command
changes one (RPOP, LPUSH, serving the request that waits longest, one that
gives up), which elements the result has, and the rest speaks of elements only.
`OneCopy` needs to know where results come from: `NoneIsNewer` (no result is
anywhere before it is set, so that a new one is pushed for the first time) and
`HandsAreFull` (a request that is about to push a result back has taken one, so
the push completes a move). `NotAnsweredAgain` needs `OnePromise`: with the
local driver a resolved promise holds one value, newer than everything that was
answered, and while it is there nobody waits; only a value that is set later
can be handed to those who do. `HandOffInv` is the conjunction.

**Cache.** `CacheInv` adds to the types that nothing is ahead of the data (an
entry, a key, an execution under way) and `OwnFetchIsFit`: the execution a fetch
waits for, if it had not begun when the fetch asked for it, cannot be older
than the key the fetch holds. Together these make every step of the queue and
of `fetchNew` keep `OwnEntryMatchesKey`.

**Pre-aggregations.** `NotBeingLoaded` is about a request that has read two
things at two times. `WaitingAreUnseen` says that a definition whose build has
not begun is in no list anybody holds, `LoadingIsBuilt` that only builds load
tables, and `BuildsHaveTables` that a build has the table of its time: a request
that reads the queue after its list leaves out what the queue is loading, and
what begins to load afterwards it has not seen. For `ReplacedFirst`,
`DropsAreReplaced` says that for each table a build is to drop, chosen while
nothing was loading, there is a newer one with its data that it is not to drop;
`DropperHasLock`, that no other build drops tables meanwhile. It holds when the
tables are chosen because `TablesToSave` keeps the newest one (`SavedIsNewer`),
and stays because nothing else takes away a table with its data. `TablesOK` is
the conjunction.

**Live queries.** `AuthInv`: on a connection that is not authorized nothing is
under way to the server but its authorization, and while it works nothing is
under way to the client and nothing is loaded for it, so that what makes a
socket ready is the handshake; a socket that is ready and works is authorized.
For `TypeOK` the question is why no channel overflows. `Channels` lists what a
channel to the server can hold, and `SocketInv` says that it agrees with what
the client remembers of its socket (`sent`, `ready`, `wanted`): what has been sent is
not sent again from the queue, and a heartbeat repeats it only when nothing is
under way, so there is never more than a subscription and the unsubscription
after it. `TakeNextTypes` is the same question for the results that wait.

**Meta store.** The order of the replay must not matter, so the invariant speaks
of single rows. `DirectoriesOK` says that no log of a directory has a row older
than its check point has it: the log before a check point goes to the directory
before, and the first log after it begins with a batch the check point has, but
ends with the newest there is (`LoopIs`: each row of a log is at least as new as
the check point has it, since a log ends where the database was when it was
read). From it `NotBehindCheckPoint` follows for every list of logs (`ListIs`,
`MergeIs`: what a sequence of batches puts in a row is what its last batch with
that row puts). For `SyncedIsHeld`, `StampHolds` says that once the check point of
`stamp` is there whole, all rows of the first `uploaded` batches, or later
values, are in it or in logs that are not overwritten any more
(`f.from < FirstUpdate`). That is why a failing upload may leave a damaged file
where a good one was: the file has the name of the last batch uploaded, which is
also the end of the file before, or is in the check point. `Covers` and `WalIs`
carry this over to the check point taken while writes go on. `SyncInv` is the
conjunction.

**Store data.** `EachRowIsRead` is about the places of a row. `RowsOK` says that a
row of an activated import is in the file of one active partition or in one
active chunk, and others are in none; to see that a select comes across that
place one needs `Tiling` (the active partitions share the keys among them) and
`Rooted` (whoever looks for a key in an active partition passes, on the way to
the root, every partition that ever had it), and to see that it does so once
where the chunk's partition is active, `LineageOK` (no active partition stems
from another one). The jobs
need to know what they will find when they end: a partition that was replaced
is never active again (`Replaced`), what a repartition or an import has created
divides the rows it is for (`Divides`), no two of them have a chunk in common,
and a compaction's chunks are still those of its partition or the partition is
replaced, and its swap is refused (`CompactionOK`). The swap itself cuts
the rows at keys: `EndsTile` shows that the ranges of the new partitions tile
that of the old one, `SwapRoots` that lineages go on. `StoreInv` is the
conjunction. `FilesAreKept` is separate (`SelectOK`): what becomes garbage while
a select runs has more time left than the select. Its assumption is the
condition that the comment of `not_used_timeout` (`config/mod.rs:259`) asks of
the configuration.

**Only model-checked**: the liveness properties (`AbandonedIsReclaimed`,
`AddedIsAnswered`, `WaitersAreServed`, `EventuallyFresh`, `RequestsEnd`,
`EventuallyCurrent`, `LatestArrives`, `Settles`, `DeadAreForgotten`,
`WritesGetUploaded`, `ChunksMoveOn`), because fairness is out of the prover's
reach. Where the models use operators of the community modules that are
defined by recursion over a sequence, nothing can be proved about them; the
modules therefore take an element out of a sequence with `RemoveFirst`, which
is defined by its position, and state the result of replaying logs (`Merge`) and
of walking up to the root (`Lineage`) in closed form.

## 8. Where the code and its documentation disagree

Two are runs that TLC ends with a counterexample:

- `finding_concurrency` (`src/docs/content/Configuration/Config.md:643`,
  "Maximum number of queries to be processed simultaneosly."):
  `retrieveForProcessing` trims ACTIVE by processing id. A worker that took id
  1, was slow, and retrieves after the worker with id 2 has begun to execute,
  pushes the other's key out of ACTIVE and executes as well.
- `finding_restore` (`cold_start_test`,
  `src/rust/cubestore/src/metastore/mod.rs:3478`, which uploads and expects the
  writes after a start without local files): `run_upload` adds its log to the
  directory of `last_checkpoint_time`. After a start, or a check point that
  failed, `metastore-current` does not name that directory yet. The upload
  returns `Ok`, and a start from the remote files lacks the writes until the
  next check point, five minutes later, succeeds.

Others were met while modelling; the models do what the code does and state
nothing to the contrary:

- `Config.md:647` ("… the query gets cancelled."): the process that removes a
  dead process's query looks the handle up among its own and may cancel
  another query of its own that has the same number. Hence the assumption of
  `CancellationsHitTheirQuery`.
- `Config.md:646` ("… if not requested during this period."): the deadline is
  read, and the query removed later without a second look; a request in between
  is lost.
- `Config.md:647` again: a retrieval that does not become active leaves a
  heartbeat time (`RedisQueueDriver.js:179`), and the waiting query is removed
  when that is old.
- `src/docs/content/Caching/Overview.md:83-86` (the cached value is returned if
  the `refreshKey` value has not changed): a fetch may join an execution that
  began before its refresh key was read, and its result is cached under the
  newer key (`QueryCache.ts:419`). It is renewed at the threshold only;
  `EventuallyFresh` holds because of that.
- `src/docs/content/Caching/Using-Pre-Aggregations.md:142`: when a refresh key
  goes back to an earlier value, or the older of two contents is built last,
  requests without `renewQuery` get the newest table, which is of the other
  content, and schedule nothing (`PreAggregations.ts:440`).
- `Using-Pre-Aggregations.md:154-156`: the versions of a content that the text
  says are stored for ten minutes are dropped by the next build when their use
  was recorded after it read the records (`PreAggregations.ts:973`), and
  the versions of a structure persist for 30 days by default (1225).
- A live query sends again what has not changed: `gateway.ts:918` compares whole
  results, and `lastRefreshTime` (827) changes with every renewal of the refresh
  key. And the callback may get an older result, or an error, after the latest
  one (`cubejs-client-ws-transport/src/index.ts:216`).
- A chunk that is activated on a partition that has been split is read whole for
  each of its descendants (section 4), so a select that reads several of them
  counts its rows as often, until the chunk is repartitioned. No document or test
  speaks of it.
- The meta store's logs are replayed in the order of their listing
  (`metastore/mod.rs:1620`): which of two logs has the last word on a row is left to
  the file system. The files of the check point that is named are deleted before
  another one is named (1866): a process that dies in between leaves nothing a
  start could load.
- A table may be dropped although no other one has its data, and a table may be
  chosen before its data is complete, when builds overlap because a definition has
  left the queue before its build has ended (`PreAggregations.ts:960`, 254).

## 9. What is not modelled

- *Queue*: `processQuerySkipQueue` and `forceBuild`, the read-only queries of
  its state, store calls other than `optimisticQueryUpdate` that throw after a
  retrieval, the events for the playground, two operations that share a Redis
  connection and its `WATCH` state (`RedisQueueDriver.js:235`). `getResult` of the
  local driver looks at a resolved promise and deletes it some microtasks later
  (`LocalQueueDriver.js:41-48`); `FirstLook` does both, so of two requests that look in
  between only one gets the result.
- *Query cache*: a removal that is not awaited (`QueryCache.ts:440`) and so may come
  late (`Drop` removes at once), the eviction of entries of the memory cache,
  more than one refresh key, `withLock` on its own (it is the
  flag `lock` of `PreAggregationTables`), `testConnections`, `cleanup`.
- *Pre-aggregations*: external storage and its two strategies, `forceBuild`,
  `externalRefresh`, changes of the structure, partitions.
- *Subscriptions and transport*: a token that is refused, methods other than `subscribe` and
  `unsubscribe`, several queries of one client, a subscription store outside
  the process.
- *Cube Store*: a start that dies while it copies a check point (it leaves a
  directory the next one takes for a meta store, 1576), the choice of a worker,
  heartbeats of jobs, `drop_table` and the immediate deletion of files after it
  (`scheduler/mod.rs:175-187`), the
  import through the write-ahead log, warm-up, the queue of remote file
  operations, worker processes; planning and execution of queries, which are
  data.
- *Not modelled at all*: the queue's event bus (read by the playground only),
  pools of Redis connections (libraries), the query orchestrator and the server
  core (glue and configuration), the order in which the refresh scheduler goes
  through its queries (its requests are those of `CacheRenewal` and
  `PreAggregationTables` that renew), promise utilities, the REST part of the
  gateway (no state but one shared promise), the JavaScript client (its
  "Continue wait" loop is the fairness of requests), the Cube Store connection
  (it sends again what was not answered; whether that is harmful depends on
  the statements).
- *Out of scope*: the schema compiler (a translation without concurrency),
  database drivers, user interfaces, framework bindings, and vendored or
  generated code, which is most of the repository's lines.
