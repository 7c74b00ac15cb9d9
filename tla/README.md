# TLA+ models of oysterpack.go

This directory holds TLA+ models of the concurrent parts of this repository.
Each model was written from the Go source, and TLC checks it. `PROJECT.json` lists
the components, the runs, the mutants, the map from definitions to source lines,
the findings and the hazards.

## 1. Inventory

### Components and their state

| Component | Source | State | Operations |
|---|---|---|---|
| Pipeline runtime | `src/pkg/app/command/pipeline.go`, `errors.go` | per stage: `PoolSize()` worker goroutines; unbuffered channels `in`, the links between stages, and `out`; per item (a `context.Context`): cancellation, error, pong tag, output override, workflow start stamp; pipeline counters/gauges; per-command counters (`NewStage` labels a stage's counters with its command id) | worker loop receive, Done check, first-stage stamp, `process` (inner or last stage), `Stage.run`, send/expire/dying select, success metrics |
| Pipeline registry | `pipeline.go` 30-65, 114-161, 349-360 | `pipelines` map under `pipelineMutex`; `startPipelineMutex` | `StartPipeline`, `StartPipelineFromConfig`, `GetPipeline`, `PipelineIDs`, unregister on `Dying` |
| App server | `src/pkg/app/app.go` | the `app` tomb; `services` map keyed by `ServiceID`, owned by one goroutine; request channels; log level | `RegisterService`/`registerService` plus the per-service watcher, `UnregisterService`, `GetService`, `RegisteredServiceIds`, `SetLogLevel`, `SetServiceLogLevel`, `Kill`/`shutdown`, `Reset` |
| Service container | `src/pkg/service/application.go`, `app.go` | `services` map under an RWMutex; `serviceTickets` slice under a second RWMutex; its own service | `MustRegisterService`/`RegisterService`, `UnRegisterService`, `ServiceByType`, `ServiceByKey`, `ServiceByTypeAsync`, `checkServiceTickets`, `deleteServiceTicket`, `closeAllServiceTickets`, `run`, `destroy`, stop/restart helpers, dependency checks |
| Legacy container | `src/oysterpack/service/application.go` | same as above, without ticket closing | same ticket algorithm; duplicate registration returns nil; `destroy` closes no ticket |
| Key-value store | `src/pkg/data/keyvalue/database.go`, `bucketview.go`, `errors.go` | the bbolt file (root bucket `db`, its `name` key); the one `bolt.DB` holding the file lock; a view's path (a Go slice, possibly sharing its backing array); a goroutine holding a bbolt read transaction per iteration | `OpenDatabase`, `CreateDatabaseIfNotExists`, `Name`, `Close`; `BucketView`, `Keys`, `KeyValues`, `BucketViews` with an optional cancel channel; `Exists`, `Get` |
| Not modelled | sequence, metrics option matching, RPC handlers, message (de)compression, ids/errors, actor/NATS fragments | see `PROJECT.json` | |

### How the components interact

A `Pipeline` is built over an `app.Service`. Its workers run on the service's tomb (`service.Go`) and exit when `service.Dying()` closes. The registry entry is removed when the service or the app tomb dies. The app server is a single goroutine that owns the service map; clients send it requests over unbuffered channels and select against `app.Dying()`. The `pkg/service` container holds its map under locks. It hands services to async waiters through tickets, which short-lived goroutines deliver. The key-value store is independent of the rest. Its views all run `db.View` on the `bolt.DB` of the `Database` they came from: each iteration is a goroutine inside `db.View` that streams entries to its client over an unbuffered channel, `Close` waits for every open read transaction, and after `Close` `db.View` fails without running its function.

### What is hard

- Go's `select` picks at random among the ready cases. A worker can therefore receive after `Dying`, and it can hand on an item whose context is done.
- Unbuffered channels make every hand-off a rendezvous. A stage whose successors are all busy blocks.
- The metric updates that belong together happen in separate steps of different workers.
- Service death can happen between any two steps.
- Ticket delivery runs in goroutines that race with sweeps, deletion and `closeAllServiceTickets`.
- Several checks are made before the state they guard is used: `Alive` before `Go`, a lookup before a ticket is appended, a watcher started before a registration.

### Properties that make each component correct

- **Pipeline**:
  - A failure skips the remaining stages.
  - A ping never runs a command and comes back as a pong.
  - The counters agree with each other.
  - Each item is counted once.
  - A cancelled item is not handed on.
  - Every item in flight eventually leaves: it is delivered, expired, or lost only when the service dies.
- **Pipeline registry**:
  - At most one pipeline exists per service.
  - A registered pipeline belongs to a live service.
- **App server**:
  - A second registration of a service id fails and does not replace the first.
  - Unregistering removes only the service that died.
  - Shutdown terminates once every service dies.
- **Service container**:
  - A waiting ticket is delivered exactly once, or closed at shutdown.
  - No registration deadlocks.
  - At most one service is registered per interface.
- **Key-value store**:
  - A database handed out carries the name it was asked for, and a failed open leaves no file lock behind.
  - Every view call returns, also after `Close`.
  - An iteration yields its bucket's entries in key order from the seek key, and ends.
  - Cancelling ends the iteration and releases the read transaction.
  - A view keeps the path it was created with.

## 2. Plan

The modules, in order of importance:

1. **Pipeline** (done): models the stage workers and refines **PipelineSpec**, the abstract promise of the pipeline. `MCPipeline` instantiates it.
2. **PipelineRegistry** (done): `StartPipeline` under `startPipelineMutex`, the registry map, and the unregister goroutine racing `registerPipeline`, with service death and replacement.
3. **AppServer** (done, partly): the single server goroutine of `app.go` with its request channels, plus clients and service watchers. It models duplicate registration, unregister-by-id, the Go-on-dead-tomb panic, the query requests and `shutdown`. Still open: `Reset`, and an abstract registry spec (a map from id to service) for it to refine.
4. **ServiceContainer** (done, partly): registry and tickets of `pkg/service` and of the legacy `oysterpack/service` container (`impl`), with sweeper, delivery and delete goroutines, and each container's `destroy`. **ApplicationLifecycle** (done, partly) models the rest of `application.go` around `a.mutex`: the queries, `ServiceKeys`, the stop calls, the dependency checks, and `run`/`destroy`. Still open: the restart calls, whose `Client.Restart` is not in this repository.
5. **BucketView** (done, partly): views of `bucketview.go`, with Go's `append` on path slices, and the iteration goroutines with their cancel select. It refines **KeyStream**, the abstract stream an iteration promises. **Database** models `database.go`'s open, create and close over one file, and **KeyValueStore** composes it with BucketView over the shared `bolt.DB`.

## 3. Modules and runs

### Pipeline (`Pipeline.tla`, `PipelineSpec.tla`, `MCPipeline.tla`)

Workers are pairs `<<stage, index>>`. The program counter `pc[w]` follows the worker loop:

- `idle`: the loop's select on `Dying` or `<-in`.
- `got`: between the receive and the `ctx.Done()` check.
- `process`: inside `process(ctx)`.
- `send`: the select on `Dying`, `Done` and `out <- ctx`.
- `record`: the success metrics after a terminal delivery.
- `exited`.

Each ready case of a Go `select` is its own action:

| Action | What it models |
|---|---|
| `Submit` | the caller's `in <- ctx` meeting a stage-1 receive |
| `Forward` | a stage's send meeting the next stage's receive |
| `Check` | the `Done` check and the stamp made by the first stage |
| `ProcessInner`, `ProcessLast` | the two `process` closures, with `RunStage` for `Stage.run` |
| `Commands` | `NewStage`: a stage's run and failed counters are the children of the service's counter vectors labelled with its command id, so `stageRun` and `stageFailed` are indexed by command id and stages running one command share them |
| `Deliver` | the send on `pipeline.out` or on the item's own channel |
| `Expire` | the `Done` case (`pipelineContextExpired`) |
| `Exit` | the `Dying` case: in the worker loop the goroutine returns (`exited`); in a send, `process` returns to the loop (`idle`) and the item is lost |
| `Record` | the last stage's success gauges |

The environment has three actions:

- `Kill`: the service dies.
- `Cancel`: an item's context is cancelled or reaches its deadline.
- `Stopped`: stutters once every goroutine has returned.

A command is abstracted to whether it sets the item's error. Durations, timestamps and the stage-output tap are left out. The tap is a non-blocking offer whose result is ignored.

`PipelineSpec` is the abstract pipeline:

- An item is accepted into flight.
- It leaves in one of three ways: delivered on `out`, or on its own channel if it has one; dropped, only if cancelled; or lost, only if the service is dying.
- It cannot stay in flight forever.

`Pipeline` refines it with the identity mapping on `loc`, `cancelled` and `dying`.

**Bounds** (`MCPipeline`):

- Two stages. Pool sizes are `<<2, 0>>`, so stage 2 exercises the 0-means-1 rule.
- Three items: one plain, one with its own output channel, one ping.
- Any item may be cancelled at any time, and the service may die at any time.

With two stage-1 workers, stage 1 interleaves with itself. Both stage kinds (inner and last) are present. A failure at stage 1 can overtake an item at stage 2. Every select case can fire. The state space is about 219k distinct states and takes about 20 s.

**Fairness**: each worker is weakly fair (`WF_vars(WorkerStep(w))`), because goroutines are scheduled preemptively. The readers of `pipeline.out` and of the items' own channels are assumed always ready. Callers, cancellation and `Kill` have no fairness, because they need not act.

| Run | Expect | Properties | What it shows |
|---|---|---|---|
| `pipeline` | pass | `TypeOK`, `ShortCircuit`, `PingRoundTrip`, `StageCountersConsistent`, `PipelineRefinement` | With distinct command ids, failures short-circuit, pings bypass commands, stage counters agree, and every item in flight leaves correctly. (With distinct ids the first stage is the only one that stamps and counts an item. A reused first command id is the case in `MCPipelineCmdReuse.cfg`, under Further configurations.) |

### Pipeline registry (`PipelineRegistry.tla`, `MCPipelineRegistry.tla`)

Callers are goroutines calling `StartPipelineFromConfig` (`FromConfig`: the unlocked lookup and Alive check) or `StartPipeline` (`Call`). Inside `StartPipeline`, `pc[c]` follows the code:

| Action | What it models |
|---|---|
| `Lock` | `startPipelineMutex.Lock()` |
| `Lookup` | `GetPipeline` under the lock; the early return runs the deferred `Unlock` |
| `Check` | `checkArgs`: only `service.Alive()` can change over time, so the stage, command and metric checks are left out |
| `Spawn` | `build`: one `service.Go` per worker; `tomb.Go` panics once the tomb is dead |
| `StartWatcher` | `go func() { defer unregisterPipeline(id); select Dying... }()` |
| `Register` | `registerPipeline`, the return and the deferred `Unlock` |
| `Unregister` | the unregister goroutine waking on `service.Dying()` or `app.Dying()`; it deletes by id |

A panic anywhere in the locked region releases the mutex through the `defer` (`Panic`).

The service is a `tomb.Tomb` (`app.Service` is not in this snapshot, so its behaviour is taken from tomb.v2): `Kill` makes it dying, each tracked goroutine (the service's own and the pipeline workers) returns once it is dying (`GoroutineExit`), and the last one to return makes it dead. `Restart` creates the next incarnation with the same `ServiceID` once the old one is dead, as `app.go` allows after unregistering it. `AppKill` closes `app.Dying()`. These environment actions are not in `PROJECT.json`'s map, because their code is not in this repository.

**Bounds**: two callers, two incarnations, two workers per pipeline, at most two calls per caller (`MaxCalls`, which keeps the state space finite). That suffices for a caller to hold a stale incarnation, for both callers to race the lock, and for a service to die at every step of a call. The runs set `CHECK_DEADLOCK FALSE`: once the calls are used up and nothing dies, the registry really has nothing left to do.

**Fairness**: every caller step is weakly fair. `Lock` is strongly fair, because `sync.Mutex` switches to starvation mode and hands the lock to a waiter that keeps trying. The unregister goroutine is weakly fair. Calls, deaths and restarts have no fairness.

| Run | Expect | Properties | What it shows |
|---|---|---|---|
| `registry` | pass | `LockDiscipline`, `NoOverwrite`, `CallsComplete` | The mutex is held exactly inside `StartPipeline`, a registered pipeline is never replaced, and every call returns or panics, whatever dies when. |
| `registry_stale` | violation | `StaleEntryRemoved` | A service dying between the watcher's start and `registerPipeline` leaves its dead pipeline registered for good. It is returned to callers holding the next incarnation (pipeline.go:349). |

### App server (`AppServer.tla`, `MCAppServer.tla`)

The server goroutine `srv` is `loop` in its select, `dupReply` while blocked sending `ErrServiceAlreadyRegistered`, `wait` inside `shutdown`'s wait loop, then `done`. `crashed` means it panicked, which ends the process, so `Next` is disabled after it. Clients (`cpc`) call `RegisterService` (`reg`, then `regWait` for the answer), `UnregisterService` (`unreg`) and the queries (`q`, then `qWait`); the server is `reply` while it answers a query. Each side's `select` on `app.Dying()` is `ClientDying`.

| Action | Code |
|---|---|
| `SrvRegister` | the `registerServiceChan` case and `registerService`: store, close the response, `req.Service.Go(watcher)` (`GoWatcher`; a dead tomb panics) |
| `SrvDuplicate` | the duplicate path: the client receives the error, then the code falls through, overwrites the entry and starts another watcher |
| `SrvUnregister` | the `unregisterServiceChan` case for `UnregisterService` |
| `SrvShutdown`, `SrvShutdownDone` | the `app.Dying()` case: `shutdown` kills every mapped service, waits for each to be dead, and empties the map |
| `WatchAppDying`, `WatchSvcDying`, `WatchUnregister`, `WatchUnregAppDying` | the watcher goroutine's two selects; the unregister is by id |
| `Query` | the client side of `RegisteredServiceIds`, `LogLevel`, `SetServiceLogLevel` (kind `ask`: they wait for an answer) and `SetLogLevel` (kind `set`: it does not) |
| `GetService` | the client side of `GetService(id)` (kind `get`): the request, then the answer `services[id]`, where nil becomes `ErrServiceNotRegistered` |
| `SrvQuery` | the server's query cases: `setLogLevelChan` stores the level and is done; the others look the map up and go on to answer. For `getServiceChan` the answer, `services[id]`, is kept in `resp` |
| `SrvReply`, `SrvReplyDying` | the answer's `select`: the client receives it, or `app.Dying()` drops it |

`GetService`'s answer is carried, because `GetServiceNeverAnswersDead` is about it. The other answers (ids, log levels) are not: no property depends on them, and the three waiting queries have the same control.

Services are tombs with a main goroutine plus their watchers (`Settle` makes a tomb dead when the last one returns). `KillService` and `MainExit` are the environment: the service bodies are not in this package.

The history variable `regd` holds the services whose registration succeeded. A service leaves it when `UnregisterService` for its id is served, or when its own watcher unregisters it after it stopped being alive. `RegisteredStays` says the map holds each of them under its id. It can only fail with two services under one id, so it is checked in `MCAppServerShared.cfg`, not in the passing run.

`GetServiceNeverAnswersDead`: while the app is alive, `GetService` never hands a client a dead service. This holds because `registerService` starts the watcher with `req.Service.Go`, so the service's tomb is not dead until the watcher's unregister has been served. A watcher that returned on `Dying` without unregistering (or that ran outside the tomb) would leave a dead service to be handed out.

**Bounds**: two clients, two services, one call per client in the passing run and in `appserver_shutdown`, two per client in `appserver_panic` and `MCAppServerShared.cfg`. Ids are distinct (`MCDistinctIds`), or shared (`MCSharedId`) in `MCAppServerShared.cfg`. One call each is enough for a duplicate registration, for an unregister racing a watcher, and for the app to die at any point. `CHECK_DEADLOCK FALSE`: once the calls are used up, the system may rest.

**Fairness**: each server case is strongly fair (Go's `select` picks uniformly among ready cases). Watchers and the clients' receives are weakly fair. A killed service's goroutine returns (`WF MainExit`); the code cannot guarantee this, and the hazard list says so.

| Run | Expect | Properties | What it shows |
|---|---|---|---|
| `appserver` | pass | `TypeOK`, `GetServiceNeverAnswersDead`, `ClientCallsReturn`, `RepliesNeverStrand` | With distinct ids, while the app is alive `GetService` never hands out a dead service, every call returns, and the server is never left blocked answering a query whose client has gone. |
| `appserver_shutdown` | violation | `ShutdownCompletes` | The duplicate error is sent without a `Dying` case; once its client has left, the server blocks for good and shutdown never runs (app.go:193). |
| `appserver_panic` | violation | `NoServerPanic` | A service that dies after `RegisterService`'s Alive check makes `registerService` call `Go` on a dead tomb, which panics in the server (app.go:204). |

### Service container (`ServiceContainer.tla`, `MCServiceContainer.tla`)

`services[i]` is the `a.services` map under `a.mutex`. Each use of that mutex is a short critical section and is one atomic step. `serviceTicketsMutex` is held by a sweep across its whole loop, so it is modelled as state:
- A sweep is `active` while it holds the read lock.
- A writer that has called `Lock` blocks new readers, as Go's `sync.RWMutex` does. That writer is a waiter in `append` or a delete goroutine counted in `delW`.

Each waiter makes one `ServiceByTypeAsync` call. Its ticket is named after it, and it reads the ticket channel once.

| Action | Code |
|---|---|
| `Lookup` | `ServiceByTypeAsync`: `ServiceByType`; a hit fills the buffered channel and closes it |
| `CallLock`, `Append` | the call to `serviceTicketsMutex.Lock`, then the append and `go a.checkServiceTickets()` |
| `Receive` | the waiter's receive on `Channel()`: a buffered value first, nil once closed and empty |
| `SweepStart`, `SweepStep`, `SweepEnd` | `checkServiceTickets`: `RLock`, then one iteration per ticket listed at the start, then the deferred `RUnlock` |
| `DeliverSend`, `DeliverClose` | the delivery goroutine; a send or close on a closed channel panics, and `IgnorePanic` swallows it |
| `DeleteCallLock`, `Delete` | `deleteServiceTicket`: the call to `Lock`, then the swap-remove |
| `MustRegisterService`, `UnRegisterService` | registration (a duplicate panics and changes nothing) and removal |
| `Destroy` | `destroy`'s `closeAllServiceTickets`, which closes every listed ticket and removes none |
| `LegacyDestroy` | the legacy `ApplicationContext.destroy`, which stops the services and closes no ticket |

`impl` (from the constant `Impls`) is the container: `"pkg"` or `"legacy"`. The legacy container's `ServiceByTypeAsync`, `checkServiceTickets`, `deleteServiceTicket` and `UnRegisterService` are the same code as pkg's. Its `RegisterService` returns nil on a duplicate where `MustRegisterService` panics, and neither changes the registry. So only `destroy` differs.

**Bounds**: one waiter, one interface and two registry calls. The service may already be registered at start, as a package `init` function does. That is enough for these cases:
- a registration between the waiter's lookup and its append;
- a ticket seen by two sweeps, its own and a registration's;
- register, unregister and register again;
- `destroy` at any point.

Both containers are checked in one run (`Impls = {"pkg", "legacy"}`). A second waiter adds no new interaction: tickets touch each other only through the lock. Two waiters with two registry calls take 23 minutes.

**Fairness**: every goroutine is weakly fair. Registration, unregistration and `destroy` are not obliged to happen. `CHECK_DEADLOCK FALSE`: with the calls used up, the system rests.

| Run | Expect | Properties | What it shows |
|---|---|---|---|
| `container` | pass | `NilOnlyOnShutdown`, `TicketResolves` | For both containers, a ticket yields nil only after `destroy`. An outstanding ticket whose service is registered (and stays so) is answered, so the gap between the lookup and the append strands no ticket. |
| `container_shutdown` | violation | `ShutdownAnswersTickets` | In the pkg container, a waiter whose lookup missed before `destroy` appends its ticket after `closeAllServiceTickets`. The ticket is never closed, against "closes on container shutdown" (application.go:166). With `Impls = {"legacy"}` the property fails at once, because the legacy `destroy` closes nothing. |

### Key-value store (`Database.tla`, `BucketView.tla`, `KeyStream.tla`, `KeyValueStore.tla`, `MCBucketView.tla`, `MCDatabase.tla`)

**Database** (`database.go`). The file is abstracted to what the functions read and write: whether it exists, whether it has the root bucket `db`, the root's `name` entry (absent, a name from `DbNames`, or a bucket), and whether a top-level bucket `name` exists. `handle` is the one `bolt.DB` the process can hold on the file: `none`, `db` (owned by the `Database` the client holds), or `leaked` (open, and owned by nothing). bbolt's behaviour is taken as given, since its source is not in the repository: `bolt.Open` creates a missing file and takes an exclusive flock, so any further open waits the 30 s `Timeout` and fails, which changes nothing; `Get` of a key that holds a bucket returns nil; `Put` on it fails; an `Update` whose function returns an error rolls back.

| Action | Code |
|---|---|
| `OpenDatabase` | `TrimSpace(path) != ""`, `bolt.Open`, then the root's name in a `View`: a missing root or an empty name returns an error without `db.Close()` |
| `CreateDatabaseIfNotExists` | `bolt.Open`, then one `Update`: create the root, read the name; with no name, refuse if a top-level `name` bucket exists (rollback), else `Put` the name, ignoring its error; then a stored name other than the one asked for is an error, again without `db.Close()` |
| `Close` | `database.Close`: `db.Close()` |
| `Get`, `Name` | `bucketView.Get(DATABASE_NAME)` on the root view: the name, or "" when the root is missing or the key is absent or a bucket |

**KeyValueStore** composes the two over the `bolt.DB`. It `EXTENDS BucketView` and instantiates `Database` as `DB`, sharing `Empty`. Init is BucketView's Init with a named database file, which is the file the views' bucket tree belongs to. The client opens the file once (`MaxOpens = 1`). Every Database step leaves the views unchanged, and every view step leaves the Database unchanged. `DatabaseClose` also waits until no iteration holds a read transaction (`NoReadTx`, bbolt's `Close`). A view call runs on the open database (`ViewCallOnOpen`). After `Close`, `ViewCallOnClosed` models every call's `db.View` failing without running its function, so the caller's `<-c`, `<-b` or `<-data` waits forever.

**BucketView** (`bucketview.go`).

Every call reads inside `db.View`, a bbolt snapshot, and nothing in `bucketview.go` writes, so the bucket tree is a constant: `Buckets` (paths of buckets) and `Leaves` (paths of plain keys), with `Order` the key order.

A view's path is a Go `[]string`, modelled as a slice header `[arr, len, cap]` over `heap`, the backing arrays. `AppendHdr`/`AppendHeap` are Go's `append`: they write in place when the capacity allows, and otherwise copy into a new array whose capacity is doubled, or is exactly what is needed if that is more (`GrowCap`; 16-byte string headers fill the size classes exactly). The root view's path is `database_path`, `[]string{"db"}`: length 1, capacity 1. `made[i]` records the path view `i` had when it was created.

| Action | Code |
|---|---|
| `NavView` | `BucketView(path...)`/`bucketView`: look up the view's bucket and the child path; on success the new view's path is `append(a.path, path...)` |
| `Keys`, `KeyValues`, `BucketViews` (`StartIter`) | start the goroutine inside `db.View` and receive its data channel (`c <- data`, `return <-c`) |
| `Lookup` | `lookupBucket(tx, a.path)` and `Seek(seek)`/`First()`; a missing bucket leaves nothing to walk |
| `Loop` | one pass of the cursor loop: past the end, `close(data)`; else `Skip` (a closed cancel: `break` leaves only the `select`; `BucketViews` skips a plain key), or commit to the send. `BucketViews` builds the child view `append(a.path, k)` first |
| `Recv`, `RecvEnd` | the client's range loop: receive an entry (the rendezvous), see the close |
| `CancelIter` | the client closes its cancel channel. With `Abandon` it stops reading; otherwise it drains the channel |

**Refinement**: `StreamOf(c)` is `INSTANCE KeyStream WITH` the client's stream:
- `state` is idle before the first call, open from the call to the close, closed after;
- `want` is the entries the goroutine will send: its bucket's entries from the seek key (only the sub-buckets, for `BucketViews`), predicted from the view's path before the lookup;
- `out` is what the client has received;
- `stopped` is the client's cancel.

`KeyStream` says the entries come out in order, the stream closes only when complete or cancelled, and every open stream closes (`WF(Emit \/ Close)`). `IterationsAreStreams` is `StreamOf(c)!Spec` for every client; it is written with the quantifier inside `[]`, which is the form TLC checks.

**Bounds**: one client and at most four calls, over the tree db, db/a, db/b, db/a/a, db/a/a/a, db/a/a/b with plain keys db/k and db/a/k. Seeks are "" and "b". That covers a seek key that exists, a bucket with both sub-buckets and plain keys, a missing bucket (db/b/a, db/b/b), and a cancel at every point of an iteration. Clients share nothing but the views, so a second client only multiplies states (two clients did not finish in 30 minutes). The passing run allows three views. Spare capacity first appears in the third view, db/a/a, so its paths never alias, and the path question is left to `MCBucketViewPaths.cfg` (Further configurations), which allows five. `CHECK_DEADLOCK FALSE`: once the calls are used up, the client rests. The database file is named `x` or `y` (two initial states): a root holding its name and no top-level `name` bucket, the file the bucket tree belongs to. The open calls therefore fail only with a name mismatch, and one open is allowed. `MCDatabase`'s configurations start from every well-formed file (missing, rootless, unnamed, a `name` bucket in the root or at the top) and allow two opens, so that a leaked lock blocks the second.

**Fairness**: the iteration goroutine and the draining client are weakly fair (scheduled goroutines). Calls and cancels are not forced.

| Run | Expect | Properties | What it shows |
|---|---|---|---|
| `kv` | pass | `AtMostOneAfterCancel`, `IterationsAreStreams` | The client opens the database, reads it through views, and closes it. Every iteration is a KeyStream: the entries in order from the seek key, complete unless cancelled, and always closed when the client drains. At most one entry, the one whose send had begun, arrives after a cancel. (The name check of `CreateDatabaseIfNotExists` is checked from every well-formed file in `MCDatabaseNamed.cfg`.) |
| `kv_cancel` | violation | `CancelReleasesTx` | Once the `select` has taken `default`, the send of the entry (bucketview.go:128) has no cancel case. A client that cancels and stops reading leaves the goroutine blocked on that send for good, inside `db.View`. Entries after the cancel are skipped, so the blocked send is the one committed before it. |

### Application lifecycle (`ApplicationLifecycle.tla`, `MCApplicationLifecycle.tla`)

`ServiceContainer` treats each use of `a.mutex` as one atomic step. That is sound there, because its critical sections never block. The other calls of `application.go` do block while they hold the lock: `ServiceKeys` takes `RLock` twice, and `StopAllServices` waits for each service to stop under `RLock`. So this module models `a.mutex` itself, with Go's writer preference:
- `Lock` takes the internal writer mutex (`pc = "lockW"`), then announces itself (`Announce`, `pc = "lockR"`).
- From then on `RLock` blocks (`CanRLock`).
- The writer runs once the readers already inside have left (`NoReaders`).
- `rl[c]` counts the read locks caller `c` holds.

`services[i]` is the map entry under interface `i`, and `inst[i]` counts the services created under it. `st[i]` is the lifecycle state of the latest one. The `Service` type is not in this repository, so its transitions (`Started`, `Terminated`, `Fail`, and `StopAsyc` as an operator) follow the spec's lifecycle. `dpc` is the application service: `run`, its `destroy` loops, done. `await` is the set destroy's second `range` still has to meet.

| Action | Code |
|---|---|
| `Call`, `Return` | a goroutine calling the `Application` interface; the locals are reset when it returns |
| `Announce`, `MustRegisterService`, `UnRegisterService` | `Lock`, then the write-locked body and `Unlock` in one step. A duplicate changes nothing. A new entry may or may not be met by a `range` in progress, while a deleted one is not. |
| `ReadRegistry` | `ServiceByType`, `ServiceByKey`, `Services`, `ServiceInterfaces`, `ServiceStates` |
| `ServiceKeys`, `ServiceInterfaces` | `ServiceKeys`' `RLock`, then the nested `ServiceInterfaces` with its second `RLock`, both released on return |
| `StopAllServices`, `StopService`, `AwaitStopped`, `StopAllDone` | `RLock`, then `Stop()` on each registered service (`StopAsyc`, then wait) with the lock held, then `RUnlock` |
| `LookupToStop`, `StopServiceByType` | `StopServiceByType`/`ByKey`: a read-locked lookup, then `StopAsyc` outside the lock on the client found (`held` records which incarnation) |
| `CheckRegistered`, `CheckRunning` | `CheckAllServiceDependencies`/`CheckServiceDependencies`: the registered report and the running report, each under its own `RLock` (`DepsMissing`, `DepsNotRunning`, `RunningReport`) |
| `StopTrigger`, `StopAllAsync`, `AwaitStart`, `AwaitService`, `DestroyDone` | `run` sees the application stopping, then `destroy`'s `StopAsyc` loop, and its `AwaitStopped` loop over a second `range`, without the lock |

**Bounds**: two callers, two interfaces that depend on each other, with `i1`'s version constraint on `i2` accepted and `i2`'s on `i1` rejected, and four calls in all. That is enough for:
- a writer queued behind a reader;
- a registration between `destroy`'s loops;
- a dependency registered and started between the two phases of a check.

In `OneWriter` only `c1` registers, unregisters and calls `ServiceKeys`, and `c2` makes every other call. This is why: with a second writer the nested `RLock` deadlocks (that is `MCApplicationLifecycleKeys.cfg`), and without `ServiceKeys` its actions would never fire. `CHECK_DEADLOCK FALSE`: once the calls are used up, the system rests.

**Fairness**: each caller's goroutine is weakly fair, and so is the application's `run`/`destroy` goroutine. A service asked to stop eventually terminates (`WF Terminated`): the spec promises it, and the service bodies are not here. A service is not obliged to start, to fail or to be stopped.

| Run | Expect | Properties | What it shows |
|---|---|---|---|
| `lifecycle` | pass | `TypeOK`, `StopAllLeavesNoneRunning`, `CallsReturn` | With one registry writer, every call returns, including a writer queued behind `StopAllServices` while it waits for a service. When `StopAllServices` finishes, no registered service is starting or running: its read lock keeps registrations out. |
| `lifecycle_shutdown` | violation | `ShutdownCompletes` | A service registered after `destroy`'s `StopAsyc` loop is started, never asked to stop, and polled forever by the await loop (application.go:343), against "each with a bounded wait" (spec.md:56). |

### Further configurations

These configurations check one property each, and TLC finds it violated. They are kept beside the runs listed in `PROJECT.json`, and the hazards that they cover cite them.

| Configuration | Property | What it shows |
|---|---|---|
| `MCPipelineCancel.cfg` | `NoHandOnAfterCancel` | A done item is still forwarded, because `select` picks at random (pipeline.go:337). Spec section 3 says no stage may enqueue it. |
| `MCPipelineGauges.cfg` | `FailedDeliveryResetsSuccess` | An item fails at stage 1 and is sent to `pipeline.out`, and only the last stage touches the consecutive gauges. The success gauge still counts an earlier item, against spec section 8: consecutive_success is non-zero iff the last terminal delivery succeeded (pipeline.go:327, 395). |
| `MCPipelineCounters.cfg` | `CounterConsistency` | An expiry at the stage-1 dequeue is counted without a run (pipeline.go:212), against spec section 8's `run_count >= failed_count + context_expired_count`. |
| `MCPipelineRegistryAppDying.cfg` | `OnePipelinePerService` | `app.Dying()` unregisters a live service's pipeline, and the next call starts a second one (pipeline.go:352). |
| `MCPipelineCmdReuse.cfg` | `RunCountedOnce` | The last stage reuses the first stage's command id. The first stage is recognised by command id (pipeline.go:203), so the last stage stamps the item again and increments the run counter a second time. |
| `MCAppServerShared.cfg` | `RegisteredStays` | With two services under one id, a registration answered `ErrServiceAlreadyRegistered` still replaces the registered service (app.go:193). |
| `MCBucketViewPaths.cfg` | `ViewPathsStable` | db -> a -> a has length 3 and capacity 4. Its children db/a/a/a and db/a/a/b share that array, so creating the second rewrites the first's path (bucketview.go:251). |
| `MCBucketViewClosed.cfg` | `ViewCallsReturn` | A view used after `Close`: `db.View` returns `ErrDatabaseNotOpen` without running its function, and the call waits forever on a channel nothing will send on (bucketview.go:142). |
| `MCDatabaseNamed.cfg` (`MCDatabase`) | `DatabaseIsNamed` | From every well-formed file: on a root whose `name` key is a bucket, `CreateDatabaseIfNotExists` checks the top-level bucket instead (database.go:119) and drops `Put`'s error. It then returns a database whose `Name()` is "" (errors.go:25 speaks of the root bucket). |
| `MCDatabaseLeak.cfg` (`MCDatabase`) | `NoLeakedHandle` | `OpenDatabase` of a new file: `bolt.Open` creates it, there is no root, and the error return never calls `db.Close()`. The file lock stays held, so every later open in the process times out (database.go:87). |
| `MCApplicationLifecycleKeys.cfg` | `CallsReturn` | `ServiceKeys` holds `RLock` and calls `ServiceInterfaces`. If a registration's `Lock` comes between the two, the second `RLock` waits for the writer and the writer waits for the first: every caller blocks (application.go:258). |
| `MCApplicationLifecycleDeps.cfg` | `DependencyReportIsSnapshot` | A dependency registered and started between the two phases of `CheckServiceDependencies` is reported missing but not "not running". No snapshot gives that report (application.go:440, spec.md:231). |
| `MCServiceContainerDup.cfg` | `AtMostOneDelivery` | The ticket's own sweep and a registration's sweep both take the read lock before either delete goroutine calls `Lock`. Both then send the service on the ticket channel (application.go:180). |

## 4. Not modelled

See `PROJECT.json` components.
- **Pure data conversion**: messages and their generated Cap'n Proto code, the server spec, and the metrics option matching in `metrics/utils.go`, whose functions have no callers in this snapshot.
- **The RPC app server** (`rpc_app_server.go`): it calls `app.Services.ServiceIDs`, `app.Services.Service` and `app.RPC`, none of which exists in this snapshot's `app.go`, so it cannot be tied to `AppServer`.
- **Fragments whose runtime is not in this snapshot**: actor and NATS.
- **Sequence**: a mutex-protected counter, with nothing a model adds.
- **Within modelled components**:
  - `app.Reset`, which is for tests;
  - bbolt itself (the file format, locking and transactions, taken from its documented behaviour), and the bucket writes of the `bucket` type, which is not in this snapshot;
  - the restart calls of `pkg/service` (`RestartServiceByType`/`ByKey`, `RestartAllServices`, `RestartAllFailedServices`). They call `Client.Restart`, whose implementation is not in this repository;
  - `ServiceCount`, an unlocked `len` of the map: a data race, not a protocol;
  - the client constructor's access to the registry inside `MustRegisterService`. Any constructor that looks up a service deadlocks on every call, and its first test shows it.
