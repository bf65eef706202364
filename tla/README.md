# Grafux-mcp: TLA+ models, checks and proofs

Grafux-mcp is a FastAPI service that accepts tool invocations, routes them to
backends (local Python plugins, remote MCP servers, Composio, E2B, devices),
records them in PostgreSQL and streams their events through Redis pub/sub to
WebSocket and SSE clients. This directory models the parts of it where the order
of events matters, checks them with TLC on small instances and proves their safety
and action properties with TLAPS for every instance.

One asyncio event loop runs nearly everything, so the unit of interleaving is the
code between two awaits: each module keeps a `pc` that names the await a task is
parked at, and an action is everything the code does from there to its next await.
Local tools and syncs run in threads: there an action ends where a switch to another
thread can be noticed.

## Inventory

| Component | State | Operations | Interacts with |
|---|---|---|---|
| Invocation orchestration (`services/execution_service.py`, `api/v1/execution.py`) | `mcp_invocations` rows, semaphore, tracked tasks | `invoke`, `invoke_async`, `_run`, `cancel`, `shutdown` | router (calls), event bus (publishes), registry, lifespan |
| Cancellation registry (`core/runtime/cancellation.py`) | map id -> event | `register`, `cancel`, `unregister` | orchestration, DELETE handler |
| Router, thread pool (`core/runtime/router.py`, `threadpool.py`) | bounded worker threads | `route`, `run_in_threadpool` | orchestration above, backends below, `wait_for` around each call |
| Remote connection pool (`core/protocol/connection_pool.py`, `mcp_client.py`) | entries by endpoint, their locks, sessions, last use | `acquire`, `call_tool`, `list_tools`, `_mark_broken`, `evict_idle`, `_evict_to_capacity`, `aclose_all` | router, health monitor, lifespan |
| Event bus and pub/sub (`core/streaming/event_bus.py`, `cache/redis_client.py`) | subscriptions, undelivered events | `publish*`, `subscribe` | orchestration (producer), gateway and SSE (consumers) |
| Stream manager, gateway, SSE (`core/streaming/stream_manager.py`, `api/ws/gateway.py`, `api/v1/streaming.py`) | open sockets, waiters by invocation | connect, `invocation/stream`, disconnect | event bus |
| Server lifecycle, health monitor (`core/lifecycle/*`, `api/v1/registry.py`) | map of live clients, server rows, connection rows, health keys | connect, disconnect, delete, `_check_all` | MCP client, Redis, pool (evict_idle) |
| Tool catalogue (`core/registry/*`, `services/discovery_service.py`, `api/v1/discovery.py`) | tool rows, cached lists, capabilities | discover, upsert, list | server lifecycle (clients), Redis cache |
| Plugin runtime (`core/runtime/plugin_loader.py`, `tool_executor.py`) | process-wide registries, loaded flag, reload lock | load, reload, call, list | threads of the pool, cloud sync |
| Cloud sync (`core/runtime/cloud_syncer.py`) | local files, etag cache, user-id cache | `sync_all`, `sync_tool`, `sync_tool_from_supabase` | S3, Supabase, plugin reload |
| Sessions (`services/session_service.py`) | rows and cache entries | create, get, end | Redis |
| Integrations (E2B, Composio, devices), HTTP client, security, schemas, settings, application shell | little or none of their own | request/response | external services |

What is hard here: invocations that share a semaphore and are cancelled, retried
and shut down at any await; status writes and events that are two steps and may
each fail; pooled sessions under two levels of locks, with timeouts that cancel a
task inside a lock; subscriptions that must be given back although the consumer
left in the middle; checks made before an await and used after it (connect,
cache fills, evictions); threads that reload registries others read.
`PROJECT.json` lists each hazard at its line, with the properties that cover it.

What makes each part correct:

* orchestration - slots are conserved, the row tells the truth, the registry is
  exact, a cancel takes effect, retries are bounded and only for transient errors,
  a shutdown leaves nothing behind, every task ends;
* pool - calls to one wrapper are serialised, locks come back on every exit, the
  size is bounded, a reconnect is a reconnect, no deadlock;
* streams - what was published is what is sent, in order; every stream ends, every
  subscription is released and the registries are exact;
* server lifecycle - map, row, connection rows and health agree when nothing overlaps,
  the map holds open clients only, no transport is lost but by racing connects or a
  session that raises when it is left;
* catalogue - the rows of a server are what it last listed, a cached list is what the
  table holds or its deletion is under way;
* plugin runtime - at rest the registry is what is on disk, a caller gets his own tool,
  nobody ever runs another user's, no failed load leaves a lock behind;
* cloud sync - an undisturbed sync leaves the disk as the bucket is, the ETag cache can
  be trusted, one sync at a time, a pulled tool is what the retry runs.

## Modules

### InvocationLifecycle - the abstract specification

What a poller and a subscriber may see of an invocation: the row goes
absent, pending, running, then one of done, failed, cancelled; one final event that
agrees with the row; the one exception, DONE revoked to CANCELLED by a shutdown
during the publication of the result.

### ExecutionService - invocation orchestration

| Variable | Code |
|---|---|
| `pc`, `attempt`, `lastError` | the await of `_run` / `_run_background` and its locals |
| `mode` | request (`invoke`) or background task (`invoke_async`) |
| `cancelEv` | `CancellationRegistry._events` |
| `status` | `MCPInvocation.status` |
| `finals` | final events that reached the channel |
| `value`, `waiters` | the `asyncio.Semaphore` |
| `phase`, `interrupt` | the lifespan's shutdown and `Task.cancel` |
| `runs`, `returned`, `ackedAt`, `dbFailed` | history, read by no guard |

Each action is one stretch of `_run`: `MarkRunning`, `FirstAttempt`, `RetryTool`,
`ToolReturns`, `ToolRaises`, `MarkDone`, `PublishResult`, `Audit`, `MarkFailed`,
`PublishError`, `MarkCancelled`, with the failing variant of every status write
(`MarkRunningRaises`, `MarkDoneRaises`, `MarkRaises`). `InvokeSync` and `InvokeAsync` insert
the row and start or schedule the task; `CreateRaises` is the insert that is committed and
then not refreshed, a pending row without a task. `LeaveRun` is the exit of
`async with`, shared by all of them. `Cancel` is an accepted DELETE. `Shutdown`
cancels every tracked task; the `Interrupt*` actions deliver the CancelledError at
whatever await the task is parked at, and what was awaited may already have taken
effect.

The tool is abstract: it returns, or raises a transient or a fatal error
(`_is_transient`, and TimeoutError which is always transient). `asyncio.Semaphore`
is external: first come first served.

### ConnectionPool - pooled remote sessions

`pool`, `connected`, `session`, `holder`/`queue` and `lru` are `_entries`, the fields
of `_Entry` and the order of `last_used`, which belongs to the entry and leaves the pool
with it; `reg` is `_registry_lock` with its queue.
`session` tells a live session from one whose transport is lost. `Call`, `Lookup`,
`CreateEntry`, `EvictStart`/`EvictDone` are `_get_entry` with `_evict_to_capacity`;
`TakeLock`, `Connect`, `CallEnds`, `Fails` are `acquire` and the round trip;
`MarkBroken`, `TakeBreakLock`, `Broken` the reconnect; `Timeout` the router's
`wait_for` at any await; `Sweep*` is `evict_idle` run by the health monitor;
`AcloseAll` the shutdown. Entries are objects with an identity, so a task may hold a
reference to one that is no longer in the pool, as in the code. asyncio.Lock is
external: fair, and *not locked* between a release and the resumption of the first
waiter. `peak` is history: the most calls that were in flight together, which is how far
the pool can outgrow its configured size.

### EventStream - events from the producer to the client

`channel` and `stage` are what `ExecutionService._run` publishes, `hub` and `queue`
the pub/sub, `pc` the await of each client's handler, `connections` and `waiters`
the registry of `StreamManager`. A generator the handler leaves at its `yield` goes
to `orphans`, which the event loop's finalizer closes. Clients may vanish at any
point; a producer may end without a final event (cancelled, interrupted, publish
lost). `ManagerExact` is about who is registered; the emptied sets that
`unsubscribe_invocation` leaves under an invocation's id are not counted.

### ServerLifecycle - registered servers

A server is known in four places that no transaction spans: its row (`row`, `kind`),
its connection rows (`conns`, the number that say "connected"), `_active_connections`
(`active`, `open`) and its health entry (`health`). Requests of the registry API
(`pc`, `op`, `srv`, `seen`, `held`) run `connect`, `disconnect` and `unregister` await by
await; `seen` is the server object loaded before the first await. Every database or
Redis call may raise (whether a later call of the same request then succeeds is left
open, as it depends on where the session failed), a dial may fail, health entries
expire and `Restart` loses all that is in memory. `CloseClient` leaves the session and then
the transport; a session that raises leaves the transport entered and forgotten (`torn`).
History says when the code gives no promise: `raced` after two connects that were both
before the map insert; `dirty` after an overlap, a failed write, a status written
through PUT or a restart with the server connected, cleared only by a disconnect that
begins with no other request at work on the server; `again` after a connect that was
recorded beside a row that still said "connected", until all of them are closed, because
a disconnect closes only the latest (`LatestClosed`). `QuietServersAgree` is exact about the
connection rows but for `again`. `MapHoldsOpenClients` has no excuse at all: it holds in
every interleaving. What a `connect` that raised has entered is not tracked (hazard at
`mcp_client.py:95`).

### ToolCatalog - the tools of an organisation and the cached lists of them

`table` is `mcp_tools` (status, and whether the row carries the category asked for),
`cache` the entries of `list_tools` in Redis under the org key and the project keys,
`offer` what a server would list now. A request (`pc`, `key`, `filter`, `got`, `todo`,
`cur`, `listing`, `target`, `broken`) is a listing (`ListBegin`, `Hit` or `Miss`, `RunQuery`,
`Fill`), a discovery (`DiscoverBegin`, then per server `SkipServer` or `ListServer` with its
upsert, and `Invalidate`) or the deletion of a server (`DeleteServer`, `Sweep`).

An upsert is a transaction of three statements under READ COMMITTED: `UpdateStarts` fixes
the rows the UPDATE can see (`target`), `MarkVanished` has them once no other transaction
has written them, `InsertListed` waits in the same way for the rows of the listing, and
`CommitUpsert` makes both visible and lets the rows go. So two discoveries of one server
overlap in any order, and a row that one inserts and commits behind the UPDATE of the
other (`Phantom`) is not marked by it. `UpsertNothing` is the early return of an empty
listing; `UpsertRaises` an error at any statement, which leaves the session of the discovery
in an aborted transaction (`broken`), so its later upserts raise too. Entries expire.
The history says which staleness the code cannot avoid: `raced` (the table changed
between the query of a listing and its store), `owes` (the table is changed and the
deletion of the key still ahead), `excused` (the org list came from a raced query, or
its deletion raised), `old` and `fresh` (a listing overtaken by a change of the server, or
stored beside a phantom).

### PluginRuntime - the registry of local tools

`files` is what the plugin files hold, `tools`, `index`, `errors`, `builtin` the registries
`TOOLS`, `NAME_INDEX`, `PLUGIN_ERRORS` and the built-in part of `TOOLS`, `loaded` the
event, `reloadLock` the lock. A file has one key; contents are good, broken or not UTF-8.
A load (`loader`) clears the registries, registers the built-in tools, then takes the files
in any order: `LoadCheck` reads and compiles, `LoadExec` runs the file as it is then,
which a sync may have changed. The boot thread loads without the lock. A call (`caller`)
passes the event, or times out on it, and looks under its own key, under the bare name
and in the index, each test and its lookup being two steps; whichever way led to a tool,
the authorization check decides (`CallerRuns`). `from` is the file whose tool ran. Callers
may be anonymous. Live-edited code (the `code` argument: a path that is loaded and run in
place of the registered function, or of a tool that is not registered) goes by the disk
and not by the registries, and is left out.

### CloudSync - stores, files and requests

Extends PluginRuntime with the two buckets, the ETag cache (`etags`, and `draft`, the copy
the holder of the lock works on), the lock of the syncer and the requests (`req`): chains of
a call, a pull from Supabase, a sync and reloads, as `legacy.py`, `gateway.py` and the
lifespan make them. `ListBucket` ends with the removal of clean_first, which ignores errors
and may leave any of the files (`ToClean`). A content stands for its ETag. Each file of a sync is
one step (`SkipFile`, `Download`, `DownloadFails`), `Finish` is the prune, the save and
the end of the `with`, after which the reload starts; `SyncRaises` is the `except`.
Clients change the buckets meanwhile (`Upload`). `odd` remembers the files whose ETag
need not describe them: written by Supabase, replaced between listing and download, or
not saved. `SyncMirrors` says file by file what a sync leaves behind: a file that it skips
for an ETag that is not true any more (`Overlooked`) stays wrong, through every later sync
until its object changes. `suspect` remembers that the registry need not be the disk: a load failed, a sync changed
files and stopped short of its reload, or a reload met the boot thread. A user name is
taken to occur in the keys of its own files only (`sync_all` compares substrings).
An answer that `wait_for` gives up on leaves the thread running, so a request lasts
until its thread ends.

### MC modules

`MCExecutionService`, `MCConnectionPool`, `MCEventStream`, `MCServerLifecycle`,
`MCToolCatalog` and `MCCloudSync` extend the modules and define values of constants and
symmetry sets. Symmetry is used in runs without liveness only.

### Proof modules

`ExecutionServiceProofs`, `ConnectionPoolProofs`, `EventStreamProofs`,
`ServerLifecycleProofs`, `ToolCatalogProofs` and `CloudSyncProofs` extend the modules they are
named after (CloudSync includes PluginRuntime) and hold the theorems of "Proofs" below.

Definitions named `X_Suffix` and commented "Mutant" are variants of `X` with a
plausible bug; no specification uses them. Each property of a passing run has one
that violates it (`PROJECT.json`, "mutants").

## Runs

| Run | Bounds | Shows |
|---|---|---|
| `exec` | 2 invocations, 1 slot, 2 retries | all safety and action properties, that the service implements InvocationLifecycle, and that every task ends (`EveryTaskEnds`) |
| `exec_rerun` | 1 invocation, 2 retries | *violation*: a tool that has succeeded is run again when the DONE write fails |
| `pool` | 2 callers, 2 endpoints, size 1, 2 calls each, 1 sweep | serialisation, size bounded by the configuration or the calls in flight together, fresh session on retry, locks released, every call ends without the help of a timeout |
| `pool_shared` | 3 callers, 2 endpoints, size 1 | *violation*: an eviction closes a session that a call is using |
| `pool_broken` | 2 callers, 1 endpoint | *violation*: a session found dead is used again |
| `stream` | 1 invocation, a WebSocket client with 2 streams, an SSE client, 2 logs | order and completeness, registries exact, streams end, subscriptions released |
| `stream_ack` | 1 invocation, 1 WebSocket client | *violation*: the final event is lost between acknowledgement and subscription |
| `server` | 1 server, 2 requests, 3 clients, 4 operations, 1 restart | the map holds open clients only, transports are lost only by racing connects or a session that raises, row, connection rows, map and health agree at rest |
| `catalog` | 1 server with 2 tools, 1 project, 2 requests, 2 changes of the server | a stale org list has an excuse, the rows are what the server last listed, over all overlaps of upsert transactions |
| `catalog_filter` | the same, a server that never changes | *violation*: a full list is answered with the list of one category |
| `localtools` | 2 users with a tool each of the name of a built-in one, 2 requests of 7 sorts beside the boot thread, 1 upload | registry, disk, ETags and buckets agree; calls find the caller's own tool and never run another's; the retry runs what was pulled; locks come back |
| `sync_prune` | the same, 1 request at a time | *violation*: a sync of one user prunes the files of the others |

Why the bounds are enough to be interesting. `exec`: with one slot and two
invocations each of them waits, is woken, is cancelled while waiting and while
working; two retries are the code's own `MAX_RETRIES`. For safety the proofs remove
the bounds. `pool`: size 1 with two endpoints makes every new endpoint an eviction,
and two concurrent callers make the pool exceed its size; two calls each reach an
entry that was evicted, broken and recreated. `stream`: two streams on one socket
distinguish a stale generator from the current one, two clients share a channel.
`server`: no action depends on two servers, so one is enough; four operations allow
a race of two connects, a failed write and the disconnect that repairs it, before or after
the restart, and a second connect of a connected local plugin with the disconnects that
close both rows. `catalog`: two requests make every race of a listing with a discovery, of
two discoveries at any statement and of either with a deletion; two changes let a tool
vanish and come back; one of the two tools has a category. Requests are not bounded there, so the run also covers any sequence of them.
`localtools`: two requests and the boot thread are enough for a sync that changes files
under a reload, a call overtaken by a reload and a pull that writes what a sync has just
downloaded; one file starts as broken code from an earlier sync whose object is gone, the other is
missing and differs between the stores; the one change replaces its object, between listing
and download perhaps, by a file that is not UTF-8, or withdraws it from Supabase; one call is anonymous, one names the key of another user; both tools and the built-in one share a name, so that
every stage of the resolution can answer. `MaxCalls`, `MaxSweeps`, `MaxLogs`, `MaxStreams`,
`MaxOps`, `MaxRestarts`, `MaxJobs`, `MaxUploads` are bounds of the models only and appear in
guards. Deadlock is checked except in the stream runs, where the clients and producers may all have finished, and in `server`,
where the bounded operations may all have been made. In `localtools` it is what shows that
nobody waits for ever on the two locks and the event: `Served`, with every request
answered, is the only state in which the system may stay.

Fairness. Weak fairness of each task's own steps: the event loop resumes every ready
task, and what a task awaits comes back. For a tool call that is `wait_for`
(`router.py`); for database, Redis and socket operations it is the drivers' own
timeouts; for a stream it is the deadline of `event_bus.subscribe`. In `catalog_filter` only
the expiry of a cache entry is fair, because it is stored with SETEX; the requests may stop.
Nothing is assumed of requests, clients, producers, sweeps or the shutdown; `EveryCallEnds`
does not assume that timeouts fire. No liveness is claimed of CloudSync: how long a
plugin runs is up to the plugin.

The six violations are disagreements between the code and what its documentation
says; `PROJECT.json` "findings" quotes both sides. More of them are recorded with the
passing run that states what holds instead: the pool outgrows its configured size
(`PoolBounded`), a vanished tool may stay available (`RowsFollowServer`), the next listing
need not see a discovery (`OrgListFollowsTable`), a sync with S3 overrides or skips what
Supabase gave (`SyncMirrors`), and a reload is not safe against the boot thread
(`RegistryFollowsDisk`). Around the six the passing runs
state what does hold: e.g. `CallersSerialized` (callers never overlap on a wrapper,
an eviction may), `RetriesOnlyTransient` (a re-run always follows a transient error,
though it may be the database's).

## Proofs

Every invariant and every action property of every passing run is a theorem of the module's
`Spec`, for all values of the constants that its named ASSUMEs allow. The bounds of the
models (`MaxOps`, `MaxCalls` ...) are arbitrary naturals in the theorems, and the sets of
requests, servers, threads, files, clients are arbitrary, but for the finite ones named
below. Each proof module has the same layout: the inductive invariant `IndInv` with its
parts, one lemma per action, `Invariance == Spec => []IndInv`, and one theorem per property.
In all six, the properties alone are not inductive: what makes them true is what a task
parked at an await may still rely on, and `IndInv` writes that down await by await. Each
`IndInv` has also been checked with TLC, as an invariant of the instance of its run.

| Module | Theorems (property) |
|---|---|
| `ExecutionServiceProofs` | `TypeCorrect` (`TypeOK`), `SlotsConserved` (`SlotConservation`), `RowTruth` (`RowTellsTruth`), `StrandedRowsExcused` (`OnlyExcusedRowsStranded`), `RegistryExact` (`RegistryMatchesTasks`), `FinalEventsTruthful` (`FinalEventTruthful`), `CancelBounds` (`CancelStopsAttempts`), `ShutdownComplete` (`ShutdownDrains`), `TransientRetries` (`RetriesOnlyTransient`), `TerminalStays` (`TerminalRowsStay`), `Refinement` (`ImplementsLifecycle`) |
| `ConnectionPoolProofs` | `TypeCorrect`, `LocksGivenBack` (`LocksReleased`), `CallersTakeTurns` (`CallersSerialized`), `PoolStaysBounded` (`PoolBounded`), `RetryIsFresh` (`RetryOnFreshSession`) |
| `EventStreamProofs` | `TypeCorrect`, `StreamsFaithful` (`StreamFaithful`), `ManagerKnows` (`ManagerExact`), `HubKnows` (`HubExact`) |
| `ServerLifecycleProofs` | `TypeCorrect`, `MapOpen` (`MapHoldsOpenClients`), `NoOtherLeak` (`ClientsAccountedFor`), `QuietAgreement` (`QuietServersAgree`) |
| `ToolCatalogProofs` | `TypeCorrect`, `OrgListFollows` (`OrgListFollowsTable`), `RowsFollow` (`RowsFollowServer`) |
| `CloudSyncProofs` | `TypeCorrect`, `LocksAreFollowed` (`LocksFollowWork`), `RegistryFollows` (`RegistryFollowsDisk`), `EtagsAreTrue` (`EtagsTellTruth`), `CallsFindOwn` (`CallsFindOwnTool`), `NobodyElses` (`NobodyElsesTool`), `RetryFinds` (`RetryFindsTool`), `SyncsMirror` (`SyncMirrors`) |

**ExecutionService.** Assumes a finite `Inv`, `MaxConcurrent >= 1`, `MaxRetries` a natural.
That a row is `done` only if the tool returned rests on where the task is in `_run`, so

    IndInv == TypeOK /\ SemOK /\ \A i \in Inv : LocalOK(i)

`SemOK` is the global part: free slots and tasks inside `async with` add up to the cap, the
queue holds distinct waiting tasks. Its preservation needs four lemmas on cardinalities and
sequences (`SemStay`, `SemEnter`, `SemLeave`, `SemRemove`). `LocalOK(i)` relates, for one
invocation, the await to the attempt counters, the row, the events, the registry and the
shutdown. A step changes one invocation, plus the `pc` of the waiter it wakes; `Frame` and
`StepOf` reduce the preservation of the invariant to that one invocation. `Refinement` maps
every step to a step of InvocationLifecycle or a stutter (`StepRefines`); `TerminalStays`
follows from it with the row facts of `IndInv`.

**ConnectionPool.** Assumes finite sets of callers and endpoints and `MaxSize >= 1`.
`HolderOK` and `QueueOK` say who holds the lock of an entry and who waits for it,
`RegistryOK` the same of the registry lock; together they give `CallersSerialized` and
`LocksReleased` at every exit, a `Timeout` inside a lock included. `PoolOK` and `SessionOK`
tie the map, the order of use and the sessions together. `EvictOK` (the victim stays pooled
until it is closed, and nobody adds the evicting task's own key meanwhile) is what a removal
needs. `RetryOK` follows the session that failed attempt 1: about to be closed, closed, or
out of the pool, where the retry cannot find it. `PoolBounded` is a counting argument: a
full pool grows only when each of its entries is held by a caller, and by `HolderOK` these
are distinct, none of them the one that adds the entry, and all in flight now, so no more
than `peak` (`PeakOK`). `FreshEntry` counts the entries
that are pooled or referred to: there are always more identities, so the model's finite
stock of entries is no restriction.

**EventStream.** Assumes that a client is a WebSocket or an SSE one, not both. `MadeOK`
and `CurrentOK` give each generator an identity that is never reused, subscribed exactly
while it is read; hence a stream that was dropped and one that follows it on the same
socket cannot be mixed up, and with `LocalsOK` the queue, the event in hand and what was sent
make up the channel from the subscription on.

**ServerLifecycle.** Assumes that `None` is no client and no server. `HeldOK` (one
disconnect pops a client), `RaceOK` (two connects past the check of the map are noted as a
race) and `RequestOK` (what the object loaded before the first await tells) carry
`MapHoldsOpenClients` and `ClientsAccountedFor`. `QuietServersAgree` needs `AloneOK`: a server
that is not `dirty` has at most one request at work on it, and `Stage` says how far that
one has brought row, connections, map and health at each await; `ConnsOK` keeps the
connection rows at one at most without `again`.

**ToolCatalog.** Assumes that `None` is no server and no project and that every listing is
a set of tools.
`OwesOK`, `GotOK` and `ListedOK` say what a request in the middle of its work holds: an
invalidation still ahead, the rows of its query, the listing of a server. With them the
two properties are inductive: what a commit makes available is the listing and what it
takes away is `target`, so a row outside both that is available is a phantom.

**CloudSync with PluginRuntime.** Assumes that `None`, a content, and the answers of a call
that are no tool (`AnswerAssumption`) can be told apart, that the boot thread is no request,
and that a job with a category, or one that pulls or syncs by a short name, names a file of
its own user (`JobAssumption`).
The parts of `IndInv` follow the layers: `LoaderOK`, `ReqOK`, `CallerOK` tie a thread's load
and call to its request; `SoleOK`, `ProgressOK`, `RestOK` and `IndexOK` say what the
registries hold in the middle of a load and after it, up to changes whose reload is still to
come (`Pending`); `PulledOK` and `PulledLoads` follow a pulled file through every later load
to the retry; `SteadyOK` keeps what a call has tested until it looks it up; `EtagOK` and
`CalmOK` relate files, ETags, draft, listing and bucket during a sync. The actions are reduced
to three kinds of steps: `RequestSide` (a request changes files, and starts or ends a load or
a call), `CallMoves` (a step of a call) and `LoadSide` (a step of a load), and the parts of
`IndInv` are proved once for each kind.

Only model-checked: liveness (`EveryTaskEnds`, `EveryCallEnds`, `EveryStreamEnds`,
`SubscriptionsReleased`), because fairness and ENABLED are outside what the
prover handles, and freedom from deadlock. The six violation runs are counterexamples, and
have no theorem.

## Not modelled

* Payloads: arguments, results, log texts, timestamps, which server type a tool
  resolves to.
* The pool's per-loop bookkeeping and the mode without the MCP SDK; the cancellation
  of the health monitor in the middle of a sweep at shutdown.
* The probes of the health monitor and the capability entries of discovery: both write
  keys that no code reads.
* Live-edited tool code (the `code` argument), `list_local_tools`, resources and prompts, diagnostics and output
  files of the plugin runtime: readers, or text. The bound of the thread pool: a thread
  is occupied as long as its plugin runs.
* An error of Redis while a subscription is given up (`event_bus.py:101-105` swallows it and
  skips the `aclose`): the subscription of the model is always released.
* What a failed `client.connect` has entered (`mcp_client.py:40`).
* The worker process (`worker.py`): it runs the same boot load and syncs with a syncer lock
  and registries of its own; two processes on one data directory are not composed.
* A process crash outside ServerLifecycle: no row of an invocation is repaired after one.
* Sessions: single-row operations with a cache entry beside them that is never read.
* E2B, Composio, devices, HTTP client, authentication, schemas, settings: requests to
  external services and declarations, without state that two actors share.

## Plan

Done: all modules above, checked; every safety and action property of the passing runs and
the refinement of InvocationLifecycle, proved.

Left: abstract specifications of more components, with proofs that they are implemented (an
entry of ConnectionPool as a mutex of its callers; CloudSync's registry as a snapshot of the
disk); the composition of ExecutionService and EventStream: the final event a service
publishes and the row a client reads afterwards.
