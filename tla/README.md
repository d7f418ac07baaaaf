# Formal models of remelonDB

remelonDB is an offline-first database for TypeScript clients: records live in a
local SQLite file, are observed reactively, and are synchronised with a server
through a pull/push protocol. This directory holds TLA+ modules of the parts of
it where things happen in an order nobody wrote down, the TLC configurations
that check them on small instances, and TLAPS proofs of what matters most for
instances of every size.

All definitions are read off the code under `src/`; `PROJECT.json` ("map") names
the lines of each. Paths below are under `src/packages`. Conventions: an action
has the name of the function or of the step of the function it models; a
definition that begins with the comment "Mistake:" is a plausible wrong version
of the one after it, used to see that a property notices; properties stand at
the end of a module, the inductive invariants after them or at the head of the
module with its proofs.

## 1. The system and its hard parts

| Component | State it keeps | Operations | Talks to |
| --- | --- | --- | --- |
| Raw records and merge (`core/src/rawRecord`, `sync/applyRemote`, `sync/markAsSynced`, `sync/fetchLocal`) | `_status`, `_changed`, columns of a row | create, update, markAsDeleted, resolve a conflict, apply a remote change, freeze for a push, mark as synced | synchronize(), collections |
| `synchronize()` (`core/src/sync/synchronize.ts`) | stored cursor; the attempt, the answer and the push snapshot in memory | pull, apply write, fetch local changes, push, mark write, retry, resync | server, Database, lease of the driver |
| Sync controller (`core/src/sync/controller.ts`) | running, queued, timers, authBlocked, abort signal, state shown to listeners | start, triggers, notifyLocalWrite, syncNow, dispose | synchronize(), the application, React hooks |
| Sync engine (`server/src/engine.ts`) | none of its own | pull, push, conflict scan, classification, writes, interleave | a `SyncStore` |
| Stores (`server/src/memoryStore.ts`, `store-drizzle`) | rows with revisions, tombstones, retention floor | reads and writes in a pull or push, gc | the engine, retention jobs |
| Database (`core/src/database/Database.ts`, `WorkQueue`, `LocalStorage`) | work queue, accepted work, closing state, open state and version | open and migrate, read, write, batch, direct work, applyExternalChanges, close | driver, cache, subscribers |
| Record cache (`RecordCache.ts`) | one instance per record id | fill from rows, update, destroy | Database, queries |
| Queries and observation (`Query.ts`) | the result, the refetch generation | fetch, count, observe | Database |
| Web driver and shared worker (`driver-web`) | ports, slots, sync lease, compute worker and its epoch, backlog | forward, grant slots, broadcast changes, recruit and reset the compute worker | Databases of all tabs |
| Database manager (`DatabaseManager.ts`) | the account's database, an epoch | init, close, subscribe | Database, React |
| React hooks (`react/index.ts`) | owned session and teardown tail; one shared store per query; state of mutations | useSessionDatabase, useQuery, useQueryCountResult, useMutation | everything above |
| Query builders and compiler (`query/`) | none | Q's clauses, description, SQL with joins, window and count mode | queries |
| Schema and migrations (`schema/`) | none | steps from one version to another | open |
| Node and React Native drivers, nestjs binding, transports, schemas, examples | bindings | | |

What makes them hard, and what "correct" means for them:

- **Sync.** Any number of devices edit offline; each run is a chain of awaited
  requests and of write blocks that commit more than once. In between the user
  edits, other devices push, retention prunes, answers are lost, the process
  dies, a push that was given up still arrives. Correct: a clean row agrees with
  the server as far as the device's cursor claims; nothing the user wrote is
  dropped or overridden; what the server deleted stays deleted; when everybody
  stops writing all devices end up equal.
- **Engine over a store.** Handlers are chains of awaited store calls and gc is
  not held back by any of them. Correct: an answer's cursor never covers a change
  the answer does not carry; no push overwrites a row its author has not seen.
- **Controller.** Triggers coalesce into one run and one follow-up, listeners
  call back from the middle of `run()`. Correct: a caller of `syncNow()` gets the
  outcome of a run that began after the call; a written record is picked up; an
  auth error stops automatic runs until somebody asks; disposal aborts.
- **Several tabs over one file.** Blocks take turns by slots granted by the
  broker; caches follow each other by messages; `close()` waits for what was
  accepted. Correct: exclusive windows, no update built on a stale read, nothing
  left behind by a closed driver, no deadlock.
- **Several tabs that sync one storage.** A lease decides who runs, but gates
  only the start of a run and its mark write. Correct: overlapping runs lose no
  change, a dead holder's lease passes on, what was written is synced.
- **Broker and compute worker.** Ports vanish, the tab that hosts the worker dies
  with requests in flight, a busy worker looks like a dead one, probes and spawn
  deadlines race late workers, an open fails. Correct:
  every request is answered, once; a tab's requests run in its order; what was
  open before a reset is open after it, in the storage kind it had.
- **Open and migrate.** Tabs of different app versions race for a lock, a pool
  and a version stamp, and any request of an open may fail. Correct: storage follows the lock; nothing is reset or
  downgraded; an open database has its app's schema; every open is settled.
- **Manager and session hook.** Opens and closes settle late. Correct: one open
  file at a time; the manager's database is alive; a resolved close told the
  truth; the hook comes to rest.
- **Identity map and observers.** Answers, own commits and relayed commits meet
  in one cache. Correct: a cached raw is the stored row; a Model wraps the raw of
  its id; when all is answered a hook shows what its query asks of storage; no
  answer replaces one read later.

`PROJECT.json` lists the hazards line by line with the property that covers each
or the reason why none does.

## 2. Modules

```
RecordMerge ── SyncServer ─┬─ SyncProtocol ── MCSyncProtocol
                           ├─ MultiTab ── MCMultiTab
                           └─ EngineInterleaving ── MCEngineInterleaving

SyncServer_proofs (lemmas) ─┬─ SyncProtocol_proofs
                            ├─ MultiTab_proofs
                            └─ EngineInterleaving_proofs

SyncController ── MCSyncController       SharedDatabase ─┬─ MCSharedDatabase
                                                         └─ SharedDatabase_proofs

AtomicBlocks <── refined by ── SharedDatabase

RequestService <── refined by ── Broker ─┬─ MCBroker
                                         └─ Broker_proofs

StoredRows ─┬─ Queries ─┬─ MCObserve
            └─ Observe ─┘
                   └─ Observe_proofs

OpenDatabase ───┐
SyncController ─┼─ Lifecycle_proofs
Session ────────┘
```

RecordMerge, SyncServer, StoredRows and Queries are libraries of pure operators and
actions; the others are state machines. Lifecycle_proofs has the theorems of three
machines that share nothing, OpenDatabase, SyncController and Session; for its sake
the initial condition, next-state relation and so on of the last two bear their
names (`ControllerInit`, `SessionNext`, ...). What one module takes for granted
another one shows: SharedDatabase and MultiTab take a broker that grants one
exclusive slot and relays in order; OpenDatabase's shared owner is Broker's compute;
Session takes a `Database.open` that settles, which is `OpenSettles`; Observe takes
the order of the web driver's answers, which is `ServesInOrder`.

### RecordMerge: one row on a device

A row is its `_status`, the set `_changed` and its data: a function from columns
to values, or `Gone`. `EditRow` is `setColumn` with its dirty marking
(`rawRecord/index.ts`), `ResolveConflict`, `ApplyChange` and the local tombstone
rule are `applyRemote.ts`, `Frozen` is the copy `fetchLocal.ts` puts into a push,
`MarkSynced` is `markAsSynced.ts` with its comparison of the live row and the
snapshot. Column values are opaque: what the merge does depends only on which
columns are dirty and whether values are equal. The `created` and `updated`
buckets have the same effect on a row (they differ in a warning) and are one
change. Custom conflict resolvers are application code and not modelled.

### SyncServer: the engine over one scope

`srv` is the scope's rows with revisions, `floor` the retention floor. `EffMax`
is the revision a pull answers; `PullExpired`, `PullChanges` and `PullCursor` are
the pull; `PushConflicts`, `Refused`, `StoreAfter`, `PushCursor`, `PushChanges`
and `CommitPush` are the push in the order of `engine.ts`: conflict scan,
validation, append-only tables, tombstones, hooks, upserts, tombstones,
interleave. A request is a set of rows with a status each, so an id in both halves
of one is not in the model: `synchronize()` never sends it, and the engine drops
the upsert of such an id before anything else (`engine.ts:204-211`).
`Gc` is `gc` of both stores. Upserts and tombstones of a push get one revision
each, where the code allocates per table; EngineInterleaving has it table by
table. Refusals of the storage (foreign keys) are merged with those of the hooks,
as the engine treats them alike.

### SyncProtocol: synchronize() on every device, against that server

One device is one database in one context. `pc` is where its run stands; the
module's header gives the code each value stands for. The apply write and the
mark write are more than one step because the code commits more than once in
them; `Interrupt` is an abort, a failed transport or a crash at any of these
points (all of them lose the run's memory and keep what was committed). A push
request whose client has gone may arrive later (`LatePush`). Local writes happen
between any two steps except between the commits of one write block.
`FetchLocal` is one step because `fetchLocalChanges` reads in a `db.read` block,
which the serial work queue keeps apart from every write.

Not in this module: a second context on the same storage (so the cursor re-check
of `synchronize.ts:328` and the skipped adoption of 420 cannot fire: they are in
MultiTab), the schema version sent for migrations, pull-only sync,
`destroyPermanently` outside of a sync.

### EngineInterleaving: the engine's handlers call by call

The same rows and the same device-side merge, but a pull reads the floor, the
highest revision and then table after table, and a push scans, writes and
collects table after table, with gc and other handlers between any two calls. A
parameter chooses what the store guarantees: store-drizzle's snapshot for a pull
and uncommitted rows for a push, or memoryStore's immediate effects. Each id is
a table of its own. The floor a gc call may choose is at most the revision the
scope has served (`TopOf`), also where drizzle has handed out more to a push
that has not committed.

### SyncController: when a sync runs

`run()` with its three phases, `trigger`, the debounce, `syncNow`, `start`,
`dispose`, the auth block, and listeners that call back while `syncing` is
announced. `begun` and `unsynced` are history. `call` is what each caller's
promise waits for. Throwing listeners, a second `start()`, `lastSyncAt` and
`lastResult` are left out. A debounce is reset by each write, so an application
that never stops writing postpones the sync as long as it writes; the model
bounds its writes (`MaxTriggers`).

### SharedDatabase and AtomicBlocks: blocks, slots, caches and close() of several tabs

The record is abstracted to the number of updates it holds; a writer stores what
it read plus one, so a lost update shows as a number that is too small. A block
goes from `waiting` (slot requested) to `queued`, `read`, `stored`, `published`,
`ended` and `done`, as `withWorkSlot`, `WorkQueue` and `batch` take it.
`GrantSlot` and `Broadcast` are the broker. Each tab receives grants and change
sets through one inbox in order (a port); what a tab posts arrives at once,
because a delay only looks like a later call. In which tab a block is called is
chosen in `Init`. A driver without slots is the instance with one context.
Re-entrant blocks deadlock by documentation and are not modelled, nor is a slot
whose tab died: no code gives it back.

AtomicBlocks is what the application is promised: there is one record, and each
block of whatever tab is one step that reads it and, if it writes, replaces it.
Under the mapping at `Atomic` a block happens when it commits or, without a
commit, when it ends. Slots, queues, caches and broadcasts have no counterpart:
they are the means. The blocks of a closing tab may read an older record
(`SharedClosing` below).

### MultiTab: tabs that sync one storage in turns

The row table and the cursor are shared by the tabs; each has a run with its own
pull answer, push snapshot and interleave. `Grants` is the broker's `syncTurn`,
`Expire` the clock. `Apply` and `AbortApply` are the apply write with its
re-check of the cursor, `Confirm` and `LoseTurn` the second `requestSyncTurn`,
`Mark` the mark write with its conditional adoption. Writes are single steps:
the exclusive slot keeps the writes of two tabs apart, and SyncProtocol has what
a crash leaves of one. Other devices are one action, `RemoteWrite`. `taken` and
`stale` are history; they single out the ids of finding 1.

### Broker and RequestService: the shared worker

`broker` holds the module-level variables of `shared-worker.ts`; `worker` is the
adopted compute with the queue of its channel (`server.ts`); each page has a
connection, a driver (`WebSqliteDriver.ts`), an inbox of controls and the port of
a worker it spawned. The handlers call each other five deep, so they are
operators from a state to the next (`RequestSpawn`, `ResetEpoch`,
`FinishEpochReset`, `AdoptComputePort`, `FlushBacklog`, `FailBacklog`, ...), and
an action applies one to `Now` and makes the result the next state (`Become`).
`FailBacklog` is the loop over the backlog in closed form:
whatever waits fails at once, and since a driver goes by the operations of its failed
requests (`FailedDriver`), their order does not matter; `FlushBacklog` likewise sends
all that waits as one (`SendAll`). `PageDies` takes the page's worker with it.

Timers are actions: a ping's deadline, the watchdog, the spawn deadline, the
release deadline. The broker cannot know whether a silent compute is dead or inside
a long statement, so none of them asks whether it lives: a ping may be answered
(`Pong`) or miss its deadline first, and a compute that is given up alive is
replaced like a dead one. The broker's own worker is then terminated, wherever it
is with its queue; a page's is left to itself and runs on. Either way any prefix of
its queue has run and nobody heard of it (`Unheard`); what an abandoned worker will
run later it might as well have run at that moment, since for the tabs only what
runs and in which order counts. Deadlines of 1 to 10 seconds are taken to be longer
than the way of a posted port, and a page that leaves a control unhandled that long
is `late` from then on. An open may fail although nothing is open (`OpenFails`),
before the worker knows the database or behind (the version is read last,
`server.ts:153-156`); `amiss` marks a worker that such a failure has left without a
database that is held, or with one that nobody was given. There is one database
name; slots, leases and broadcasts are in SharedDatabase and MultiTab.

RequestService is what the tabs are promised: requests run behind those their tab
posted before, each is answered once, and with success only after it ran. Broker
implements it under the mapping at `Service` (INSTANCE ... WITH), checked as
`ServesInOrder`.

### OpenDatabase: lock, pool, version

`disk` is the version stamp and the set of steps that were run. A tab opens its
driver (lock, steal, retries after any error), learns the version and
then goes where `Decided` sends it: set up, recheck after a lost race, migrate,
stamp, ready or failed. Dedicated mode has a worker per tab, shared mode one for
all, chosen in `Init` with the app version of each tab and whether it takes over;
tabs of different versions may share the worker. Any open may fail, and leaves its
worker as it was, with the pool, or with the database open as well (`Leaves`); a
driver that gives up is `rejected`, with its lock given back and its worker running.
Any statement may fail later (`StatementFails`). `torn` is history: a tab was cut
off, or its stamp failed, between its migration and the stamp.

### Session: DatabaseManager under useSessionDatabase

A session is one run of the hook's effect. `mgr[s]` is its manager with the epoch,
the shared init promise, the running close and what that waits for; `opens` are
the opens in flight, `held` the files open. `StartSession` is the continuation of the
teardown tail; `Subscribed` is what the hook does with each state its manager
emits. An open may fail after its driver had opened the file (`leaked`).

### StoredRows and Queries: what a description means

StoredRows says what a row is; Queries what is asked of rows. The clauses of `Q.ts`, the description they build and its refusals, and the rows
the statement of `encodeQuery.ts` returns from a storage: left joins along the
declared associations, deleted filters, three-valued comparisons, fan-out with
its `distinct`, order, window, count. Beside it `Answer` says what a reader asks
for, without joins: a condition on a joined table holds if some partner fulfils
it. `like`, `includes` and raw SQL are left out.

### Observe: one context observing a query

What a query means is a parameter: `Describe` gives the tables of an observed
query and whether it can be counted, `Asks` the rows it asks of a storage,
`Fetches` and `Counts` what its statement returns. `QueriesAnswer` is all the
module takes for granted of them: a statement returns what is asked, namely live
rows of the query's table, and nothing but the query's tables decides which.
MCObserve puts Queries there, and TLC evaluates `QueriesAnswer` for its queries
over every storage of the instance (`AnyStorage`, rows with null values and
tombstones included): so it is a check of the compiler against its meaning,
beside the run. Queries' conditions are recursive, and behind a recursive
operator nothing can be proved; as a parameter they do not stand in the way of
Observe's theorems.

`observer` is the shared store of the react hooks with `Query.observe` (or
`observeCount`) behind it; `cache`, `models` and `orphans` the identity map;
`queue` what was posted to the driver, `inbox` what it answered and what other
contexts published. `Mount` and `Unmount` are components that come and go,
`LocalWrite` and `BatchAnswered` the two ends of `Database.batch`, `ExternalWrite`
to `ExternalAnnounced` a commit of another context on its way through the broker
to `applyExternalChanges`, with rows that lack the columns an older schema does
not know. `ordered` says whether answers come in order (the web driver) or as the
promises of an in-process driver settle. An emission that holds a raw the cache has
dropped since differs from every answer (`Forgetting`). `partial` and `kept` are
history: rows made from part of a row, and an error that is shown beyond its refetch.

## 3. Runs

Each mutant in `PROJECT.json` replaces one mapped definition by its "Mistake"
and must break the property under the same configuration; so no bound below is
too small for the property to notice.

| Run | Shows | Bounds, and why they are enough |
| --- | --- | --- |
| `SyncCore` | clean rows agree, cursors are served, no write dropped, local edits stand | 2 devices, 1 record of 2 columns with 2 values, 3 writes, 1 interruption, 1 attempt per run, gc up to the served revision. Two columns let edits of one record merge; three writes make edit, counter-edit and deletion; 1.6 million states |
| `SyncRefusals` | tombstones stay dead with ids that can be created again, and when writes, faults and pruning cease all devices reach the server's state, but for what it refuses | 2 records, so that a push answer has something to interleave; one append-only, one with a hook, one value refused by validation; 2 writes, 1 interruption, 2 attempts: a conflict, a retry, a resync and a replayed push fit |
| `EngineIsolated` | agreement, served cursors and no blind overwrite over store-drizzle's isolation, call by call | 2 devices, 2 tables, 2 values, 3 pushes, 1 pruning: two pushes of different content that conflict, and a third that pruning can hurt. 3.2 million states |
| `Controller` | calls are covered and resolve, disposal aborts, writes are picked up | 2 calls, 3 triggers or writes, listeners that call `syncNow` and `notifyLocalWrite`: one call runs, one is coalesced, and a trigger is left over |
| `SharedWork` | exclusive windows, blocks that are atomic (the refinement), quiet and terminating close, accepted work ends, caches converge | 2 tabs, 2 writers, 1 reader, one tab may close; the calls fall in the tabs in every way. A second reader (2.9 million states) showed nothing else |
| `MultiTab` | overlapping runs lose no change (but for finding 1), no tab's mark drops a write, everything is synced in the end | 2 tabs, 1 record, 2 local writes, 1 remote one, 1 lease that runs out on a living holder, 1 failed run or dead tab, 2 attempts: two runs overlap at every point. 560 thousand states, deadlock checked |
| `MultiTabLease` | **violation**: finding 1 | the same |
| `Broker` | each request is answered, once; what is held stays open; the refinement | 2 pages, 3 requests, one page that asks for memory and one for either kind: an open, a join and a request behind them, a reset and another while it restores. 2 faults of any kind: a page or the broker's worker dies, that worker does not load, a deadline is missed by a page or by a compute that is only busy. Opens fail without limit. 610 thousand states |
| `OpenDatabase` | storage follows the lock, an open database has its version, no silent reset, opens settle | 2 tabs, versions 1 to 3 with migrations from 2 (one version too old, one step, none, a downgrade), in every mix, 4 opens, 1 death, 2 tries for the pool. 104 thousand states |
| `Session` | one open file, a live database, truthful closes, rest in the end | 3 sessions of 2 users (there, away and back), 3 epochs per manager, one each of leak, failed close, takeover |
| `Observe` | identity map, right observers, no way back; that statements return what is asked (`QueriesAnswer`) | 3 associated tables of 1, 1 and 2 rows, 2 queries that use every clause the compiler treats apart, 2 commits, 1 failure, fetch or remount. 3.6 million states, a little over two minutes |
| `ObserveUnseen` | **violation**: finding 2 | 2 commits, all contexts of one schema |

Deadlock checking is off where a system may stop: a controller may be disposed of
or never triggered, pages and applications may have no more calls, the budgets of
Observe are spent. In SyncProtocol, EngineInterleaving and MultiTab somebody can
always start a run, so it stays on.

**Further configurations.** Each of these states one sentence of the docs that
the code does not keep, and TLC shows a counterexample in seconds. They are kept
for whoever changes that code.

| Configuration (module) | Shows |
| --- | --- |
| `SyncFirstApplyCrash` (MCSyncProtocol) | `CleanRowsAgree` fails after a crash between rows and cursor of a very first apply (`synchronize.ts:333,341`): the next pull is a full one without replacement, and a row whose tombstone was pruned meanwhile stays, clean. `docs/codebase-guide.md:1365` calls the two one atomic commit |
| `SyncGcBeyond` (MCSyncProtocol) | `CleanRowsAgree` fails if gc is given a floor above the last revision, which the stores accept (`memoryStore.ts:128-140`) and then hand out as a cursor ahead of the next push |
| `EngineMemoryGc` (MCEngineInterleaving) | memoryStore's pull is no snapshot (`memoryStore.ts:117`): gc between two awaits takes a deletion out of an answer |
| `ControllerAuthQueue` (MCSyncController) | an automatic follow-up runs after an auth error (`controller.ts:192-196`) |
| `ControllerRearm` (MCSyncController) | `syncNow()` during a run that ends in an auth error succeeds and leaves automatic syncing blocked (`controller.ts:176,233`) |
| `SharedClosing` (MCSharedDatabase) | change sets are dropped as soon as `close()` is called (`Database.ts:508`), while blocks accepted before still run, on a cache that is no longer kept up to date |
| `BrokerFallback` (MCBroker) | requests sent to the broker's own worker before it failed to load are never answered (`shared-worker.ts:158-173`), though its comment says the tabs take over "instead of hanging every request" |
| `BrokerLivelock` (MCBroker) | a compute that is always busy past a deadline is given up, its request replayed to the next one, and so on for ever, without an answer (`shared-worker.ts:379-406,763-794`): the watchdog's comment promises that such requests do not hang (89-94), which holds for a dead compute |
| `OpenLeaksPool` (OpenDatabase) | an open that fails after its worker took the pool gives back the lock and keeps the pool (`server.ts:146-155`, `WebSqliteDriver.ts:483-488`): the next holder of the lock is kept out by a tab that nobody tells to go, takeover or not |
| `SessionLeak` (Session) | a `close()` resolves while the driver of a failed open still has the file (`DatabaseManager.ts:40-42`) |
| `ObserveOlder` (MCObserve) | an update relayed from an older schema, of a record not cached here, enters the cache with null values in the columns that schema lacks (`Database.ts:527-541`); the cached raw wins over later fetches, and the next local update writes the null values to storage |
| `ObserveError` (MCObserve) | a refetch that succeeds with the rows of the last emission notifies nobody (`Query.ts:149-151`), so the error of the refetch before it stays beside current data; `docs/reference/react.md:350-357` ties the error to a failed refetch |

### The bounds by name

`MaxWrites`, `MaxFaults`, `MaxPushes`, `MaxPrunings`, `MaxTriggers` are budgets in
guards; none of them appears in a property. `Retries` is the code's
`conflictRetries`. `GcBeyond` says how far above the last revision a retention
job may put the floor (the code sets no limit), `FirstApplyCrash` whether a
device may die inside its first apply, `FreshIds` whether ids are generated
(never created twice) or chosen by the application. SharedDatabase has no bound
but its sets. `MaxRemote` and `MaxExpiries` (MultiTab), `MaxRequests`,
`MaxFaults` (Broker), `MaxOpens` and `MaxDeaths` (OpenDatabase),
`MaxEpoch`, `MaxLeaks`, `MaxCloseFails` and `MaxTakeovers` (Session) and
`MaxExtras` (Observe) are budgets too; the only one a property names is
`MaxRequests`, to range over requests. `EndlessStalls` (Broker) takes the busy
computes out of its budget. `Candidates` is `SPAWN_CANDIDATES`,
`Attempts` stands for the 20 tries of a coordinated open, `Oldest` for
`minVersion` of the migrations.

### Fairness

- SyncProtocol: a device that runs, or could, goes on (`WF` of its own run step).
  The controller's interval timer starts runs again and again, requests are
  answered or fail, and promises resume. Writes, interruptions, gc and late
  pushes owe nothing. With finite budgets they cease.
- SyncController: `runSync` settles, promise callbacks run, timers that are set
  fire. No trigger of the platform, no interval (it may be disabled) and no call
  of the application is owed.
- SharedDatabase: messages are delivered, the queue runs, a block's work ends,
  storage answers. The application owes no call and no `close()`.
- MultiTab: a living tab goes on (its controller's interval asks again), and the
  lease of a dead holder runs out, because time passes. No lease owes to run out
  on a living one.
- Broker: the handlers of living pages run, a living worker runs its queue, the
  spawn deadline ends, and so do a dead worker's deadlines and its watchdog
  (`Progress`). Nobody has to connect, ask or die, and no living worker has to miss a
  deadline or to be pinged. A worker that is busy too long is one of the faults, and
  these cease: `BrokerLivelock` shows that nothing is answered otherwise. `FairSpec`
  is weak fairness of `Progress` with its ENABLED written out as `Busy`, which TLC
  evaluates a hundred times faster; `WeaklyFair` is the plain form.
- OpenDatabase: workers answer, if only with an error; the browser tells a tab of its lost lock, and
  frees a dead worker's handles.
- Session: effects and promise callbacks run, every open and close settles, in
  one way or another.

## 4. Where code and documentation part

The two violation runs are the findings of `PROJECT.json`.

1. *A mark behind a cursor that moved* (`synchronize.ts:413-437`). The lease may
   run out after its re-confirmation, while the mark write waits for its slot.
   Another tab then pulls a newer remote change over the record that was pushed;
   the merge keeps the local columns, so the record still equals its frozen copy,
   and the mark makes it clean with a content the server no longer has, behind a
   cursor that has passed it. `docs/multi-tab.md:127-131` calls the cost of such
   an overlap "a conflict retry, not corruption".
2. *A relayed destroy of a record not cached here* (`Database.ts:544-548`) is
   dropped without telling anybody, so counts, joins and windows keep their old
   answer. `docs/multi-tab.md:108`: "Observers behave as if the write were
   local".

The further configurations of section 3 show twelve more. What a property excuses
is named in it, and stands here:

- `CleanRowsAgree` of MultiTab excuses `stale` ids: finding 1.
- `HeldStaysOpen` and `NothingHangs` of Broker excuse what was sent to a hosted
  worker that did not load (`stranded`, see `BrokerFallback`). The former also
  excuses a tab slower than its spawn deadline (`late`: asked twice, it spawns twice,
  and the terminated one may be the adopted one; a backlog failed for want of an
  answer takes the pending restore with it), and a failed open (`amiss`), two things
  in one. The restore is an open like any other, and may fail because an abandoned
  worker still has the pool; the broker counts its answer without looking at `ok`
  (`shared-worker.ts:472-481`) and lets the requests of the surviving tabs go to a
  worker without their database, against its comment at 338-342. And an open that
  fails at its last statement leaves the database open, with no holder
  (`server.ts:153-156`): until that worker goes, an open of it by anyone is refused
  as "already open". The latter, `NothingHangs`, also excuses a compute that dies
  while it restores with nothing else on its way: the restore posts past `send`, so
  nothing arms the watchdog (`shared-worker.ts:455-485`, comment at 89-94).
- `PoolFollowsLock` of OpenDatabase excuses the `rejected` driver, whose open failed
  with the pool taken (`OpenLeaksPool`). `ReadyAtItsVersion` excuses `torn`: a tab
  cut off, or refused its stamp, between `Database.ts:200-202` and 203 leaves steps
  without their stamp, and the next open runs them again and fails, for good. It
  also leaves room for what the code cannot prevent: of two apps that share the
  owner, the newer one migrates the file under the open Database of the older.
- `FileExclusive` and `CloseFreesFile` of Session excuse the driver leaked by a
  failed open.
- `ObserverRight` of Observe excuses finding 2 (`missed`), raws made from part
  of a row (`partial`, see `ObserveOlder`) and the error that outlives its refetch
  (`kept`, see `ObserveError`).
- `DisposedAborts` has `"dispose"` out of `ListenerCalls`: a listener that
  disposes while `syncing` is announced is followed by a `runSync` whose signal
  nobody aborts (`controller.ts:144-150`).

Seen while reading, not stated by any run: a slot or holder of a dead tab is never
swept (`shared-worker.ts:587`); a batch may be replayed and so run twice, where
`docs/multi-tab.md:59-62` promises otherwise, and an abandoned living worker of a tab
goes on running what was replayed to the next; a worker whose sqlite never loads
answers pings and nothing else; a destroy races a join; a dedicated
worker that fails to start hangs `open`;
in-process answers out of order can put a destroyed row back into the cache
(`IdentityMap` holds for ordered drivers only); a store that outlives its entry
in the registry may delete a newer one of the same key (`react/index.ts:419`).

## 5. Proofs

All are for any sets of devices, tabs, ids, columns, values, calls and blocks and
any budgets, from the named assumptions of the modules (`MarkersAreNoContent`,
`ServerConstants`, `ProtocolConstants`, `InterleavingConstants`, `TabConstants`,
`ControllerConstants`, `SharedConstants`, `OpenConstants`, `OwnerNames`,
`SessionAssumption`, `ObserveAssumption`), which only give the parameters their
types; `QueriesAnswer` (Observe) says more, and TLC evaluates it for queries that
use every clause (section 2). Two hypotheses
go further and stand in the theorems that need them: `Discipline` (`CleanRowsAlwaysAgree`)
and `Isolated` (EngineInterleaving).

| Theorem | States |
| --- | --- |
| `TypeCorrect`, `CursorsServed` | rows keep a storable shape; no stored cursor is above what the server serves |
| `CleanRowsAlwaysAgree` | the protocol's promise |
| `NoWriteEverDropped` | a row leaves the dirty set only if this very content was accepted, or the server deleted it |
| `LocalEditsAlwaysStand`, `TombstonesAlwaysStayDead` | merges leave the user's columns and deletes alone; no push revives a tombstone |
| `InterleavedConsistent`, `NeverOverwritesBlindly` | the server's promise and its conflict check, with the handlers' store calls interleaved and gc between any two (store-drizzle) |
| `TabsAgree`, `TabsDropNoWrite` | the same promises for tabs that share one storage and run over each other |
| `BookkeepingCorrect`, `CallsAlwaysCovered`, `DisposalAlwaysAborts` | the controller |
| `SharedTypeCorrect`, `WindowsAlwaysHold`, `ClosesQuietly` | tabs, slots and close() |
| `OpenBlocksAlwaysReadFresh`, `BlocksAlwaysAtomic` | a block of an open tab reads the latest record; SharedDatabase implements AtomicBlocks |
| `StorageFollowsLock`, `OpenAtItsVersion`, `OnlyDestroyResets` | opening one database from many tabs, any request of which may fail: the pool is the lock holder's or was kept by a driver that gave up opening; what is stored matches its stamp and an open database has its app's schema, under its own version or a newer app's that shares the owner; nothing resets storage but destroy() |
| `FileAlwaysExclusive`, `ClosesFreeFiles` | one account's file at a time, and a close() that resolves has let go |
| `RequestsAnsweredOnce`, `RequestsServedInOrder` | an unanswered request of a tab is in exactly one of routes and backlog, once; Broker implements RequestService |
| `DatabaseAlwaysAlive` | a manager's database is its newest open's, open and not being closed, and sync runs on no other |
| `CacheDoesNotDesync` | a cached row is the stored row, and a Model wraps the raw of its id, once what is on its way has arrived |
| `ShowsWhatIsAsked`, `AnswersOnlyAdvance` | an observer at rest shows what its query asks of storage; it never goes back to the answer of an older read |

**Agreement.** `CleanRowsAgree` is not inductive: it says nothing of a row whose
change is in an answer on its way. `ServedInv` first bounds every cursor by the
history served (`CursorServed`, `AnswersServed`). `AgreementInv` then follows an
answer through the run: until it is merged, `AnswersDeliver` says what the merge
will make of each row; after the merge the rows agree at the new cursor before it
is stored (`applied`, `merged`); `SnapshotsStand` says that a pushed row stays
dirty until it is marked and that what the server stored is what was frozen, so
that marking it clean is right; `NothingBeforeCursor` is what a full pull without
replacement needs. Each lemma of `SyncProtocol_proofs` is one step of the run.
The server moves under all of it: `CommitPushMoves` and `GcMoves` in
`SyncServer_proofs` say that a row changes only by getting a revision above all
served ones, or by being pruned under the floor, and `StandingDevice` that
neither disturbs a device. `AgreementInv` added to the invariants of `SyncCore`
passes TLC too. `CleanRowsAlwaysAgree` assumes
`Discipline`: `GcBeyond = 0 /\ ~FirstApplyCrash`. `SyncGcBeyond` and
`SyncFirstApplyCrash` show that neither half can be dropped. The other theorems
assume nothing of the kind.

**Interleaved handlers.** `EngineInv` follows a handler from call to call. A pull
has a snapshot (`ViewInv`), the server never goes back behind it (`ViewReached`),
the device's clean rows agree with it (`ViewAgrees`), and what was collected so far
is the snapshot's, up to its last revision (`GatherInv`). A push holds the scope's
lock (`LockInv`), writes above every revision that was served (`MineInv`), so its
commit changes nothing that a cursor has reached, and collects before it reads the
floor: if the floor is still under its cursor, no deletion can have been pruned out
of what it collected (`AnswerInv`); if not, the answer has neither a cursor nor a
change (`DegradedInv`). `AcceptedInv` is what the device may rely on when the answer
arrives. `NeverOverwritesBlindly` adds `ScannedInv`: past the scan, no row of the
request is newer than its cursor. The hypothesis is `Isolated`, store-drizzle's
guarantees; over memoryStore `Consistent` is false (`EngineMemoryGc`).

**Tabs that sync in turns.** `Inv` of MultiTab rests on the cursor: it only rises,
so one that compares equal says that nothing was adopted in between (`CursorFits`).
Pull and push answers carry what lies between two cursors (`PullDelivers`,
`PushDelivers`), which is all that an apply or a mark with an equal cursor has to
know, whatever other runs did meanwhile. For the marks: of two runs under way one is
in `taken` (`RunsOverlap`), so a run that nobody overtook still finds what it pushed
dirty (`PushedStaysDirty`) and no other run marks it. `TabsDropNoWrite` has no such
exception: what an answer does not refuse was accepted as it was frozen
(`PushAcked`), and the gate of the mark compares with just that.

**Controller.** `CoverageInv`: a call attached to a run past its announcement is
in `begun`. A call made in `announcing` is attached to the follow-up, although
`runSync` has not begun, which is why the invariant speaks of the phase.

**Tabs.** `FrontInv`: whatever is at work is in front of its queue. `SlotsInv`:
a writer holds the only slot, a block is past waiting only with a slot, requests
and grants are for waiting blocks, in the right tab and never twice. From it
`WindowsHold` follows by two instances. `ClosingInv` adds that a context past its
barrier has no block left, which needs `SlotsInv` because a grant arriving late
could otherwise revive one.

**Fresh reads.** `FreshInv` reads a tab's queue and inbox as one stream
(`Stream`): a delivery moves nothing in it, what runs leaves its head, what the
broker posts comes last. A block in it has a slot, is the tab's own and comes once
(`UpcomingInv`), so while it is there no other tab commits and no change set is
behind it (`OrderInv`). `PublishedInv`: unless a commit is stored and not yet
published, every open tab will have the record, as the last change of its stream,
or in its cache, or because it has nothing cached and fetches it. A block in front of
its stream therefore reads what is stored, and until it is done its slot keeps
writers away. `OpenBlocksReadFresh` is part of the proof and in no run:
the refinement, which is checked, says more. `BlocksAlwaysAtomic` is then a case for each action: a commit and an
end without one are steps of AtomicBlocks, a call of close() is its `Leave`,
everything else changes nothing there.

**Opening.** `PoolFollowsLock` needs who is served: `Holders` says that whoever has
opened is served, that with an owner of its own a served tab's worker has the pool,
and that whoever is opening or has opened has the lock or is about to hear that it
lost it; what a failed open leaves behind, pool or database, is the tab's whose
driver is trying again or gave up. `Stored` then follows the disk, and needs nothing
of who shares what: it rests on the statements that fail when they are repeated. A
set-up collides unless nothing is stored (`SetupOnNothing`), a migration collides
unless it starts at the stamp (`MigratesFromStamp`). Who is about to stamp has run
every step up to its version, which is above the stamp; any other migration begins
at or below the stamp and so repeats one of these steps and collides
(`NobodyElseMigrates`), which is why at most one tab is about to stamp (`OneStamps`)
and none stamps over a newer version.

**Sessions.** `FileExclusive` counts; `IInv` names what is counted. Per manager: an
open in flight is the promise that callers share or the one a close waits for,
and is older than the epoch once a close began (`OpensOK`); at most one attempt
counts, and it is the manager's database, its open, or what its close still has to
end (`HoldsOK`). Across sessions: one that was cleaned up holds the file only as
the tail, and only while the live session has not made its manager (`CleanedUp`),
which `StartSession` then turns into "holds nothing" by waiting for that close.
`DatabaseIsAlive` adds `AInv`: the promises a manager holds are of
opens in flight, a leaked driver is nobody's database, and during an open of the
manager's present epoch it has neither a database nor a close under way; so an
open that lands late finds its epoch gone.
`ClosesFreeFiles` reads the same invariant at the one step that ends a close
(`OnlySettling`).

**Requests.** The handlers of the broker call each other, so the argument is about
states and not about steps (`Broker_proofs`). `Sound(s, lost, hand)` says of a
state, with requests `lost` to a hosted worker that never loaded and `hand` still in
the hands of the handler: the routes and then the backlog are one chain, each
request once, those of the tabs in the order of the log, and hold just what is
pending and not in hand (`Accounted`, from which `AnsweredOnce` follows); what is
set fits the compute there is (`Gates`: a restore is owed only while there is none,
so it is sent once; the release is asked only of the broker's own worker); and the
queue of a living compute is the end of the routes, before which there are only lost
ones (`Linked`). The last is what the order rests on: an answer is for the request
in front of the queue, which therefore has no unanswered one of its tab before it
but those. `Good` adds that nothing waits when the compute is ready (`Flushed`);
without it a request could be sent past an older one in the backlog. Every operator
has a lemma: it takes a good state to a good one, and no request is answered on the
way but as failed (`Fails`). Each action is then one or two handlers. `IInv` adds
what only actions touch: that a success has run or is a close (`OkRan`), and the
types of `ran` and of the ports on their way. A compute given up alive has run part
of its queue, which nobody heard: since the queue is the end of the routes, any
prefix of it runs behind what its tabs posted before (`RunInArrival`), so that such
a step implements `RequestService` too (`RanStep`, `UnheardStep`). No theorem
depends on who is alive when a deadline ends, nor on which opens fail.

**Observing.** `IdentityMap` and `ObserverRight` speak of a context at rest; the
invariants behind them say the same of one with messages on their way. A change
that sets a column makes everything said of it before a matter of the past, so
`Stands` asks of a value, seen from a place in the inbox: a change of that column
comes after that place or is in the relay, or storage agrees. `CacheStands` says it
of every raw from the front of the inbox, `AnswersStand` of every row of an answer
from the place of that answer, `ChangesStand` of every change from its own.
A step that takes a message from the front may then put what it said into the
cache; a commit is behind everything it contradicts, because answers come in order
and a write block has the write slot until its commit is known here (`Alone`), which
`BatchFits` needs for the records it creates (`NotSeen`). Without order there is no
other context, and `NoSurprise` is all that is left: what is both cached and stored
is the same. For the observer, `NewestIsRight`: the newest refetch, if it has been
answered and nothing new is behind it, carries the present answer, which is where
`QueriesAnswer` is used (a commit in a table that is not the query's changes
nothing); `ShownIsRight`: when neither news nor an answer is to come, the hook shows
it; `Emitted` keeps what the hook shows and what it compares with together through
unmounts, errors and answers equal to the last. `OneNewest` is the generation
counter: of the refetches under way one is newest, and it read last, whence
`NeverBackwards`. `partial` and `missed` are excused as in section 4.

**Only model-checked:** all liveness (`EventuallyConverged`, `CallsResolve`,
`WritesPickedUp`, `AcceptedWorkEnds`, `CloseResolves`, `CachesConverge`,
`SyncedInTheEnd`, `NothingHangs`, `OpenSettles`, `SessionSettles`): it rests on
fairness and ENABLED, which the provers do not handle. Of the invariants,
`HeldStaysOpen` of Broker alone: it says what is open once everything queued has run,
which folds the requests over a queue of any length, and that takes induction over
data, which is out of the provers' reach. What Queries computes: its conditions are
recursive.

## 6. Running

```
tlc -workers 2 -config SyncCore.cfg MCSyncProtocol     # and the other .cfg files
tlapm SyncProtocol_proofs.tla                          # and the other *_proofs.tla
```

The longest runs, `SyncCore`, `EngineIsolated`, `Broker` and `Observe`, take two to
three minutes; the
longest proof, `Broker_proofs`, takes seven.

## 7. Not modelled

- **Several scopes in one store**, foreign ids, and the gap between `foreignIds`
  and an upsert in `store-drizzle` (a hazard without a property). Malformed
  requests, table overrides, and foreign-key refusals row by row.
- **Migration pulls** and the schema version stored beside the cursor; pull-only
  sync; custom conflict resolvers (application code).
- **The controller's** `lastSyncAt` and `lastResult`, throwing listeners, a second
  `start()`.
- **React**: `keepPreviousData`, `select`, `useMutation`, context providers: state
  of one component, rendered.
- **Text**: SQL strings, `like` and `includes`, raw SQL, DDL of schemas and steps,
  batch encoding, wire schemas and transports. They are translations, best served
  by their tests; what they mean is in Queries, OpenDatabase and Observe.
- **Drivers**: the bindings of React Native and the files of the Node driver. The
  contract is assumed: `executeBatch` is atomic, a query reads one snapshot. Its
  conformance suites are tests. The nestjs decorators and the examples keep no
  state of their own.

Worth adding next: a scoped server; `NoBlindOverwrite` over memoryStore, where no
snapshot helps but the handlers' order may; an abstract replica ("clean rows are a
prefix of the server's history") that SyncProtocol, EngineInterleaving and MultiTab
all implement.
