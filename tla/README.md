# Formal model of crdmetrics

TLA+ modules for `crdmetrics`, the Kubernetes controller that turns
`CRDMetricsResource` objects into metric stores and exposes them to Prometheus.
Paths below are relative to the repository (`src/`); module and definition names
are those of this directory.

## 1. The system

### Parts, state and operations

| Part | Code | State | Operations |
|---|---|---|---|
| Informer handlers | `internal/controller.go` 130-189 | the informer's cache (client-go) | `AddFunc`, `UpdateFunc` (only if the spec changed), `DeleteFunc`, all to `enqueueCRDMetrics` |
| Work queue | vendored `workqueue.Typed` | `queue`, `dirty`, `processing`, `shuttingDown` | `Add`, `Get`, `Done`, `ShutDown`; items are `[key, event]` pairs |
| Workers | `internal/controller.go` 242-396 | the item in hand | `processNextWorkItem`, `syncHandler`, `handleObject` |
| Event handler | `internal/events.go` | none of its own; labels and conditions of the resource at the API server | `handleEvent`: `updateMetadata`, status "received", `dropStores`, parse and build, final status |
| Configurer, builder | `internal/config.go`, `internal/builder.go` | `crdmetricsUIDToStores` (a plain Go map shared by workers and the main server); one reflector goroutine per store | `parse`, `build`, `buildStore` |
| Metric store | `internal/store.go` | rendered metrics by object UID; the families' and metrics' label keys and values | `Add`, `Update`, `Delete`, `Replace` (ignored), called by the reflector |
| Rendering | `internal/family.go`, `internal/metric.go` | the label keys and values, extended at every call | `rawFrom`, `resolver`, `writeMetricTo`, `sortLabelset` |
| Exposition | `internal/writer.go` | read locks of the stores | `writeAllTo` |
| Servers, probes | `internal/server.go`, `internal/probe.go` | a read-write lock that is only ever read-locked | `/metrics`, `/healthz`, `/livez`, `/readyz` |
| Resolvers | `pkg/resolver` | none | `Resolve` of CEL and of field paths |
| Options | `internal/options.go` | the flags | `Read`: command line, then overrides from the environment |
| Lifecycle | `main.go`, `pkg/signals`, `Run` in `internal/controller.go` | the process context, informers started and synced, servers, exit code | start in order, first and second signal, shutdown |
| Informer factory | `pkg/generated/informers/externalversions` (generated) | informers by type, which are started | `InformerFor`, `Start` |

### How they interact

A user writes a `CRDMetricsResource`. The API server sends a watch event to the
informer, whose handler puts `[name, event]` on the queue. One of `workers`
(default 2) goroutines takes it and runs `handleEvent`, which makes up to six
API calls (Get/Update of the labels, Get/UpdateStatus twice), each of which may
fail or conflict, and in between rewrites the entry of the resource's UID in the
shared map. Each store in the map is fed by its own reflector, which lists and
watches the custom resources the configuration names. A scrape of the main
server walks the map and writes what the stores hold. The writes of the handler
come back to the informer as watch events.

### What is hard

* *Concurrency.* The queue serialises items, and an item is a pair of key and
  event: the add, the update and the delete of one resource are three items that
  two workers may hold at the same time. The map has no lock.
* *Failure.* Every API error ends the handler with `nil`: nothing is retried.
* *Ordering and staleness.* Handlers read the object anew at each step; events
  are keyed by name, stores by UID, conditions by generation.
* *Unreliable delivery.* Watches break. The informer repairs itself with a list
  (deletions become tombstones, edits coalesce); the store's reflector lists too,
  but the store ignores the list.
* *Start and end.* Cache, map, workers and servers must come up in an order that
  only the code of `Run` keeps; signals arrive at any moment of it, and clients
  that do not read must not keep the process from ending.
* *Crash.* Everything in memory is rebuilt from the list at the next start.

`hazards` in `PROJECT.json` lists these at their lines, with the properties that
cover each and, where a property excepts a case, the case.

### What makes each part correct

* Queue: no mark is lost, no item is in two hands, every mark is served until the
  queue is shut down.
* Event handling: what is exposed for a resource is one build of one of its
  configurations, ends as the current one, never goes back, is fed; `Processed` tells the
  outcome and `Failed` has a reason; other resources are left alone; the controller comes to rest.
* Store: caught up with its watch, it serves exactly the objects there are, at
  their latest version, each label name once.
* Rendering: a sample carries exactly the labels of its metric, family and store,
  each under its own key, in an order that does not depend on chance; a metric
  that cannot be rendered costs only itself.
* Exposition: a scrape shows all stores of a resource at one moment, leaks no
  lock, ends, and does not block the reflectors for ever.
* Lifecycle: nothing is handled or answered before cache and map are there; a
  start serves or exits; a signal ends the process; exit code 0 means a complete
  shutdown; flags win over the environment.

## 2. Modules

| Module | What it is |
|---|---|
| `WorkSet` | abstract specification of a work queue: a set of pending items, at most one worker per item |
| `WorkQueue` | client-go's queue, one action per call; shown to implement `WorkSet` |
| `Controller` | extends `WorkQueue`: API server, informer, workers, shared map, reflectors started, crash and restart |
| `Exposure` | abstract specification of what is exposed: one build of one configuration per resource, fed first, never older |
| `MetricStore` | one store and the reflector that feeds it |
| `Rendering` | how a store renders one object: inheritance, resolvers, labels, samples |
| `Scrape` | scrapes of the main server against the locks of the stores and the unlocked map |
| `Options` | what `Read` makes of command line and environment, as operators |
| `Lifecycle` | extends `WorkQueue` and `Options`: `main` and `Run` from the command line to the exit code, with signals, informer, workers, servers and probes |
| `MC*` | instances for TLC: values of the constants, budgets, symmetry |
| `WorkQueueProofs`, `ControllerProofs`, `ServedProofs`, `UpdateProofs`, `MetricStoreProofs`, `RenderingProofs`, `ScrapeProofs`, `LifecycleProofs` | theorems and their proofs |

### WorkQueue

The variables are the fields of `Typed`, plus `holding` (what `Get` returned to a
worker, until its `Done`) and `exited` (workers whose loop ended). Every method
runs under the queue's lock, so every method is one action; `Get` is two,
`Get` (an item) and `GetShutdown` (the answer `shutdown = true`). The default
queue's `Touch` does nothing, rate limiting and metrics are left out.
`AddRateLimited` is not modelled because no path of `syncHandler` returns an
error: the lister only fails with NotFound, which `syncHandler` replaces by an
empty object, and `handleEvent` always returns `nil`.

### Controller

* *API server (external).* `obj[n]` is the resource of a name, with its UID,
  whether the controller's labels are on it, and its two conditions;
  `specs[u]` is the history of configurations of a UID, its length the
  generation. Resource versions are only used for optimistic concurrency, and
  `fresh[w]` says exactly what matters: the object `w` read last has not been
  written since. `Create`, `EditSpec`, `Touch` (a write that leaves the spec
  alone) and `Delete` are the users.
* *Informer.* `stream` holds the watch events not handed over yet, `cache` what
  the informer knows. `Deliver` is client-go's `processDeltas` with the three
  handlers of `NewController`. `Relist(k)` breaks the watch after the `k`-th
  event: the others are lost, the list is appended and known objects that are
  gone become tombstones, for which `enqueueCRDMetrics` cannot make a key.
* *Workers.* `pc[w]` is the step of `handleEvent`. `TakeItem` covers
  `processNextWorkItem`, `syncHandler` and `handleObject`. Then each API call is
  one action with three outcomes: it succeeds; it fails (NotFound, a conflict,
  or a failure out of the `fault` budget); it is carried out and the answer is
  lost (`AnswerLost`). `DropStores` is the map delete; `BuildStore` builds a
  store, starts its reflector and reads the map; `AppendStore` writes the map:
  the append of `build` is a read and a write with no lock. `FinishItem` is
  `Forget` and `Done`.
* *Crash.* `Restart` loses everything in memory, as a killed process does (and
  as the Go runtime does to a process that writes a map concurrently), and the
  new process lists every resource as added.

Configurations are model values: `c1` has one store, `c2` two, `bad` does not
parse, `empty` is the empty string. A store is known by the generation and the
position it was built from. `budget` counts the disturbances left; `calm` is a
history variable, the names nobody disturbed since the process started.

### Exposure

Four things may happen to the stores of a resource: they are dropped at once
(`Drop`), a store of the newest build gets its reflector (`Feed`), the next such
store is exposed (`Expose`), and the process restarts. `Controller` with one worker
implements it (`ImplementsExposure`), with `reflectors` as `fed`: the set of started
reflectors remembers every build since the start, so the promise that builds do
not go back to an older configuration holds across drops. With two workers it
does not hold, as `mixed_builds` shows.

### MetricStore

`world` is what exists; `phase` is where the reflector is in its cycle of list,
watch and stream; `events` are on their way; `metrics[o]` is what was rendered of
an object, reduced to the version it was rendered from and the label keys it
carries. `famKeys` and `metKeys` are the label keys kept by the family and the
metric, which `Add` extends at every call. The store's `WatchFunc` ignores the
reflector's resource version, so each `Watch` starts with an ADDED event for
every existing object. `tryNoCache` is the option; with it the API server refuses
every watch (`WatchAllowed`).

### Rendering

One call of `Add` for one family, in the order of the code: `Add` (the family
inherits labels and resolver), then for each metric `BeginMetric` (it inherits
from the family; an unknown resolver skips it), `ResolveLabel` for each label
value, or `LabelPanics` when there is no key at its index, `ResolveValue`,
`WriteLabel` for each label in the order of `sortLabelset`, and `WriteValue`,
which discards the sample when `ParseFloat` fails. `fam` and `met` keep what was
inherited, as the code's slices do. An object is what each query yields on it
(scalar, composite, echo, unsupported); `ResolveCEL` and `ResolveUnstructured`
map that to the answer of the two resolvers. An integer inside a map or a list is
`Skipped`: `resolveMap` and `resolveList` test for `int`, and the integers of
unstructured objects are `int64`. The cleaning of a name and the order of names
are constant functions; the instance has two labels that clean to one name. A
range over a map is a choice among all orders, and so is the place of labels with
one name, because `sort.Slice` is not stable. Label names and values are always
appended together, so a resolved labelset is a sequence of pairs and the length
check of `writeMetricTo` cannot fail. A panic stops the process: `"panic"` is a
final stage here and the crash of `Controller`.

### Scrape

`slices` is the shared map, changed by `DropStores` and `AppendStore` as in
`Controller`; a scrape ranges over it (`Begin`, `Visit`, `End`), takes the read lock
of every store of an entry in order (`RLock`), writes them one by one
(`WriteStore`, or `WriteFails` when the client is gone) and runs the deferred
unlocks (`RUnlock`). A reflector asks for the write lock of its store, gets it and
changes what the store holds. The locks are those of `sync.RWMutex`: a waiting
writer keeps new readers out. The lock of the server is only read-locked and does
not appear. `ConcurrentMapAccess` is the Go runtime stopping the process when a
range meets a write of the map. What a store holds is a counter of its changes.

### Options and Lifecycle

`Options` has the steps of `Read` as operators on two functions, the command line
and the environment: `Parsed` (`flag.Parse`), `Overridden` and `Effective` (the
`VisitAll` loop), `Readable` (a bad flag exits in `flag.Parse`, a bad variable
panics; both with code 2), `SetFlags` (what `NFlag` counts).

In `Lifecycle`, `stage` is where `main` is; one action per step: options, version,
clients, `NewController` (which asks the factory for the informer), the factory's
`Start`, the wait for the cache (`CachesSynced`, `SyncCancelled`), `Launch` (map,
servers, workers), and after the context is cancelled `StopSelf`, `StopMain`, `Return`
with the deferred `ShutDown`, `MainEnds`. The handler of `SetupSignalHandler` is
`CatchFirst` and `CatchSecond`, on a channel that holds two signals. The queue is
that of `WorkQueue`, filled from the start of the informer on (`Enqueue`) and emptied
only by the workers that `Launch` started. A server listens or fails to
(`Listen`); a request is a scrape or a probe, and `Forward` is the call of
`genericProbe` to the API server with the context of the process. `Exit` ends
everything: requests that are still open are `"cut"`.

## 3. Runs

Every passing run finishes within two minutes or so on a small machine.

| Run | Checks | Instance |
|---|---|---|
| `work_queue` | `WQTypeOK`, `WQInv`, `ImplementsWorkSet`, `EveryMarkServed` | 3 items, 2 workers, unbounded adds |
| `single_worker` | `OneBuild`, `NoLostUpdate`, `ProcessedTellsOutcome`, `FailedExplained`, `ImplementsExposure`, `Converges`, `Quiesces` | 1 worker, 1 resource, configurations `c1`, `c2`, `bad`, 2 edits, 1 relist, 1 crash |
| `disturbed` | `TypeOK`, `WorkerInv`, `StoresFed`, `UndisturbedServed` | 2 workers, configurations `c2`, `empty`; one resource and one of every disturbance, or two resources and one kind of disturbance |
| `store_gaps` | `TypeOK`, `LiveServed`, `MirrorUnbroken`, `LabelsInherited`, `NeverBack`, `Settles` | 3 objects, 4 changes, any deletions, 2 watch ends, with and without `try-no-cache` |
| `rendering` | `TypeOK`, `LabelsFaithful`, `OneSampleEach`, `LabelsOrdered`, `PanicsOnlyMismatched` | 4 configurations (2 match at every level, 2 lack keys or values), all objects over 6 kinds of fields, 3 calls |
| `scrape` | `TypeOK`, `LockDiscipline`, `OneMoment`, `ScrapesEnd`, `UpdatesApplied`, no deadlock | 2 scrapes that never cease, 2 stores, 2 updates, 1 drop or stop of the process |
| `lifecycle` | `TypeOK`, `ReadyMeansRunning`, `CleanExit`, `FlagsPrecede`, `SignalEnds`, `StartEnds`, `QueuedIsHandled` | flags `workers` and `version`, 4 command lines, 5 environments, 2 items, up to 2 workers, 1 request, signals at any time |

The others show where the code does not do what one of its comments or option
texts says; `findings` in `PROJECT.json` quotes the lines.

| Run | Violated | What happens |
|---|---|---|
| `mixed_builds` | `OneBuild` | two workers hold the add and the update of one resource; both drop, then both append |
| `fault_lost` | `NoLostUpdate` | one failed call, nothing queued again |
| `delete_keeps` | `DeletedDropped` | the Get for a deleted resource fails before `dropStores` |
| `store_stale` | `Mirror` | an object whose deletion no watch delivers stays |
| `store_labels` | `LabelsOnce` | the second `Add` repeats the inherited labels |

Further consequences of the same code, visible in the model's actions and not
kept as runs of their own:

* a conflict with another writer ends `updateMetadata`'s poll at its first try
  (`MetaUpdate`, `CallFails`), so it loses an update as a failed call does;
* a delete event handled after the resource was created again under the same
  name drops the stores of the new one (`DropStores` acts on `res[w].uid`);
* the reflectors of dropped stores keep running (`reflectors` only grows);
* an edit to the empty configuration, which the CRD accepts, leaves the old
  stores exposed (`ReceivedUpdate` goes to `failGet`, past `DropStores`);
* an edit during a build makes the final status carry a generation that is not
  built yet (`StatusSet` stamps the generation of the moment). `Processed` is right
  again when the edit has been handled. `Failed` is never set back (`FailUpdate` is the
  only write of it): after a failure it stays true beside a later `Processed`, mostly
  of an older generation, but of the same one when the edit to a usable
  configuration came between the failure and `FailGet`, which reads the resource
  anew. A resource then rests with both conditions true of the generation it has,
  although `types.go` has `Processed` for one "that has been processed successfully" and
  `Failed` for one "that has failed to process further". `Failed` tells of the past
  (`FailedExplained`), and only `Processed` of the present (`ProcessedTellsOutcome`);
* after a deletion, `emitFailureOnResource`, which reads by name, may report the
  failure on a resource created again under that name (`FailGet`);
* a tombstone is never queued (`OnDelete`), so the recovery of tombstones in
  `handleObject` is not reachable;
* with `try-no-cache` the options of a store's watch carry `resourceVersionMatch`
  without `sendInitialEvents`, which the API server's validation forbids (vendored
  `meta/internalversion/validation/validation.go`); with the list ignored, too, the
  store stays empty. `Settles` excepts that case (`WatchAllowed`);
* two labels that clean to one name are both written (`ResolveLabel`), in any
  order;
* a relist that coalesces an edit and its reversal, or a deletion and a
  creation with the same spec, looks like no change to `UpdateFunc`. If a worker
  read the configuration in between, its stores stay; without an exception
  `single_worker` finds it. The exception that `NoLostUpdate`, `ProcessedTellsOutcome` and
  `Converges` make (`Coalesced`) is wider: they say nothing of a resource that had one
  configuration twice, once a relist has happened;
* after `ShutDown`, whose comment says that it will "immediately instruct the worker
  goroutines to exit", `Get` still hands out what is queued, and the loops end only
  on an empty queue (`GetShutdown`);
* a shutdown waits for nobody and drains nothing: `Shutdown` gets the cancelled context, so open
  scrapes and probes are cut, and `Run` does not wait for the workers: its deferred
  `ShutDown` is followed by the end of `main`, so queued items are left and a handler
  may be cut between two API calls, as by a crash;
* a signal while `Run` waits for the cache ends the process with code 1
  (`SyncCancelled`), and one before or during the start is acted on only there;
* a flag given explicitly with its default value is overridden by the
  environment (`Overridden`), although a comment in `Read` says "Don't override
  flags that have been set"; `FlagsPrecede` excepts this case;
* an override counts as a set flag (`SetFlags`), so `--version` together with any
  `CRDMETRICS_` variable that is applied starts the controller;
* with `workers` 0 nothing is ever handled, while both servers answer (a negative
  number, which the flag accepts and the model leaves out, does the same);
* a server that cannot listen is logged, and the process goes on without it.

### Bounds

Names of bounds: `Budget` (disturbances by kind), `MaxChanges`, `MaxGaps`,
`MaxCalls`, `MaxUpdates`, `MaxDrops`, `FewDisturbances` (a state constraint of `disturbed`), and the sizes of `Names`, `UIDs`, `Configs`,
`Workers`, `Objects`, `Scrapers`, `Stores`, `Requests`, `Commands`, `Envs`. Two workers and one
resource are enough for every race on a map entry, since an entry belongs to one
UID and races need two hands; two resources show that handlers of different
resources do not disturb each other (`FewDisturbances` cuts off runs in which two
resources and two kinds of disturbances meet); two UIDs allow deleting and creating again.
`c2` has two stores, so that a build has a middle. Two edits allow an edit
during a build and one after it, and an edit and its reversal around a relist. In the store, two watch ends allow a relist
after a relist. Two scrapes and two stores are the least that could wait for each
other in a circle through two reflectors. Three calls of `Add` show what is
inherited twice and then again; names of one length and of different lengths
exercise both halves of the sort. The command lines
and environments of `lifecycle` give a flag not at all, as its default and
otherwise, and set it to 0 or to something unreadable; two items are the least for
which a worker too few shows, one request stands for any, as requests do not
depend on each other. `SignalBuffer` is not a bound but the channel's capacity. Workers, names and UIDs are symmetric in the runs that check
invariants only.

`CHECK_DEADLOCK FALSE` is set because the systems may really come to rest: a
controller with nothing to do waits, the budgets of the users run out, and a
panic ends the process. `scrape` checks deadlock: a scrape may always begin.

Every property of a passing run has a mutant of the code's model that breaks it
(`mutants` in `PROJECT.json`; the definitions marked "Mutant of").

### Fairness

Weak fairness of `Deliver` and of each worker's `Step`: goroutines that can run do
run, API calls end in an answer or an error (they are made with a context and
the handler has no loop of its own), and `Get` is woken by the condition
variable. The queue and the reflector have the same, per operation. For the queue
it ends with `ShutDown` (`WQFairness`): that is `Run`'s deferred call, and the process
ends right after it without waiting for its workers. For the reflector,
`BackoffUntil` runs `ListAndWatch` again after any error. Nobody is obliged to
edit, delete or fail. In `Scrape`, weak fairness of each lock operation says that a
lock which stays free is taken, and that of `WriteStore \/ WriteFails` that a client
reads or goes away; the code sets no write timeout, so a client that does neither
holds up the reflectors, and this is an assumption about clients. `Lifecycle` needs
no such assumption: no request has to be answered there. It has weak fairness of
`main`'s steps, of the signal handler, of the workers' steps and of the informer's
first list, which client-go repeats until it succeeds.

## 4. Proofs

`WorkQueueProofs` (for every set of items and workers): `WQTypeCorrect`;
`WQInvariant`, `Spec => []WQInv`, where `WQInv` is inductive together with the
type invariant: queued items are dirty, not processed and queued once
(`QueuedOnce`), dirty items are queued or processed (`NoMarkLost`), what is
processed is what workers hold (`ProcessingIsHeld`), by one worker each
(`ItemExclusive`); `WQItemExclusive`, the sentence of the comment on field
`workqueue`; `WQRefinesWorkSet`, every step is a step of `WorkSet` or a stutter,
for which `WQInv` is needed (a queued item is not in anyone's hands).

`ControllerProofs` (for every set of names, UIDs, configurations and workers,
and every budget): `IInv == TypeOK /\ WQInv /\ WorkerInv` is inductive
(`CtlInvariant`), with `CtlTypeCorrect`, `CtlWorkers` and `CtlQueue` as its parts.
The parts need each other: an action of a worker is well-typed only if the
worker holds an item (`WorkerInv`), a write concerns an object that exists only if
`fresh` implies it, and a worker's item determines which other workers a write
makes stale. One lemma per action; `WorkerMove` and `LocalMove` carry what steps
of one worker have in common.

`CtlStoresFed`, for any number of workers: every exposed store has a running
reflector. The strengthening `FedInv` adds the slices that workers read and have
not written back, and the store each is about to append; it holds because
`buildStore` starts the reflector before the append and nothing ever stops it.

`CtlOneBuild`: if there is only one worker, `OneBuild` holds. The strengthening is
`BuildInv`: while the worker is between `dropStores` and the end of `build`, the
stores of its resource are exactly those built so far from the generation it
builds, and the slice it read is the one in the map. Run `mixed_builds` shows
that the hypothesis cannot be dropped.

`CtlImplementsExposure`: with one worker, `Controller` implements
`Exposure`. Every step is a `Drop`, `Feed`, `Expose` or `Restart` of the abstract
specification, or changes neither stores nor reflectors. Besides `BuildInv` and
`FedInv` this needs `NewestInv`: no reflector is of a generation that its resource
does not have, none is newer than the generation the worker builds (so a build
never goes back), and a worker that builds has a usable configuration with a
store left to build. As the runs do, the proof takes the safety part of
`Exposure`; it has no other.

`ServedProofs`, `CtlUndisturbedServed`, for any number of workers, resources and
disturbances: at rest, a resource that nobody disturbed since the process started
is exposed as configured and its `Processed` condition tells so, whatever happened to the
others. The inductive invariant is `ServedInv` (`CtlServedInvariant`), which adds two
things to `IInv`. `OwnerInv`: a UID has one owner, a worker that builds does so for
the resource its item names, nothing is built of a UID never given. `CalmInv`: for
each undisturbed resource, the informer hands it over once, as added; one worker
takes it; `Progress` says for every step of the handler what is already true; and
while no worker has it, it is either still to be handed over, marked, or served.
It is this chain that a second worker could break, and does break when the
resource is edited (`mixed_builds`). The proof has a frame lemma (`OwnerFrame`, on
`Same(n)`: a step that leaves a resource alone) and per action only the case of the
resource it is about. TLC checked `OwnerInv` and `CalmInv` on the instance of
`disturbed` before they were proved.

`UpdateProofs`, `CtlNoLostUpdate` and `CtlProcessedTellsOutcome`, for any resources and
configurations and any number of edits, broken watches and restarts: at rest every
resource has the stores of the configuration it has now and a `Processed` condition that says so,
unless edits may have coalesced. The hypotheses are that there is one worker, that
the budgets of deletions, of writes beside the controller and of failing calls are
zero (`OnlyEdits`), and that no configuration is empty. For
`NoLostUpdate` none can be dropped, TLC has a counterexample without each: two workers
mix builds (`mixed_builds`); a failed call or a conflict with a foreign write ends the
handler for good (`fault_lost`); the late delete event of a resource drops the stores of
the one created again under its name; and for the empty configuration `handleEvent`
returns before `dropStores`, so that an edit to it keeps the stores of the one before.
`ProcessedTellsOutcome` fails in the same way with two workers, deletions or foreign writes;
that no configuration is empty it needs only for the invariant the two share. An edit
conflicts with the handler too, and that the update is not lost all the same is the
point of the proof. The inductive
invariant is `EditInv` (`CtlEditInvariant`), on top of `IInv` and `OwnerInv`. `Informed`:
what the informer has of a resource, or is about to be handed, are versions it had,
and the last of them is the present one. `Noticed`: each delta on its way brings the
version its predecessor left in the cache, or another configuration, which is what
`UpdateFunc` compares; after a relist this rests on no configuration having come
back (`Coalesced`). `Attended`: once the present version is in the cache, the resource
is marked; or the worker is in its handler and either has still to read the object,
or holds it unchanged, or has done what `Progress` says; or it is served. A conflict
therefore happens only to a worker whose resource has a newer version on its way or
a mark. TLC checked `EditInv` on the instance of `single_worker`, with three edits and
two relists, and with two resources, before it was proved.

`UpdateProofs` also has `CtlFailedExplained`, for any number of workers and all
disturbances but deletions: a resource with a `Failed` condition had a configuration
that could not be processed, at the generation of the condition or before. The
invariant is `FailInv`: a worker past the first status write has the UID of the
resource its item names, and one on its way to report a failure has met an unusable
configuration in the history of that resource. The hypothesis is needed: with
deletions the report may meet another resource of the same name. TLC checked
`FailInv` with two workers, two edits, a foreign write, a fault and a crash.

`MetricStoreProofs`, for every set of objects, all label keys and any number of
changes and gaps: `StoreTypeCorrect`, `StoreLiveServed`, `StoreMirrorUnbroken`,
`StoreLabelsInherited` and the action property `StoreNeverBack`, from the inductive
`StoreInv` (`StoreInvariant`). Its parts: on an open watch the last event of an object
tells its present state, and an object without an event on its way is served
(`StreamInv`); before the first gap nothing is kept of an object that is gone, unless
its deletion is on its way (`GoneInv`); versions do not decrease from the store over
the events to the API server (`OrderInv`); label keys are only added (`KeysInv`).

`RenderingProofs`, for all configurations, objects and numbers of calls:
`RenderTypeCorrect`, `RenderLabelsFaithful`, `RenderOneSampleEach`, `RenderLabelsOrdered`
and `RenderPanicsOnlyMismatched`, from `RenderInv` (`RenderInvariant`). A finished sample
is right because of what holds while it is made: how far the loops are
(`Position`), that the labels a metric keeps are those of metric, family and store
and nothing else, however often they were inherited (`EntriesInv`), that the labels
resolved so far are those of the values looked at so far (`LabelsInv`), that the
labels written so far are sorted and before those left (`OrderInv`), and that the
metrics done so far have a sample exactly if they are usable (`SamplesInv`). For that,
inheritance keeps keys and values of one length where they were so at every level
(`MatchedInv`). A panic needs a level with more values than keys, because
inheritance gives every value a key if each level does (`KeyedInv`); fewer values
than keys only shift the labels.

`ScrapeProofs`, for any number of scrapes, stores and resources:
`ScrapeTypeCorrect`, `ScrapeLockDiscipline` and `ScrapeOneMoment`, from `ScrapeInv`
(`ScrapeInvariant`). `LockDiscipline` needs that a slice has a store once and that a
store in use is not built again (`SlicesInv`), and where a scrape is in its slice
(`Position`); `OneMoment` follows, because no store changes while it is read-locked.

`LifecycleProofs`, for all flags, command lines, environments, items, requests and
numbers of workers: `LifeQueue`, the queue of the lifecycle is a `WorkQueue`, from
which `LifeItemExclusive` follows by `WQItemExclusive`; and `LifeTypeCorrect`, `LifeReady`,
`LifeCleanExit` and `LifeFlagsPrecede` from `LifeInv` (`LifeInvariant`), which says what each
stage implies of informer, map, servers and workers on the way up (`StartOrder`) and
on the way down (`StopOrder`), and what the options are (`OptionsRead`).

Assumptions. `NoItemAssumption`, `ItemsAssumption`, `ConfigAssumption`,
`BoundAssumption` and `SentinelAssumption`: sentinels are distinct from values,
names are finite, items are pairs of name and event, budgets and store counts
are numbers. `ConstantsAssumption` and `StoreAssumption`: bounds are numbers, objects
are finite, label keys come in sequences, `None` is not a value. `RenderingAssumption`
and `ConfigsAssumption`: the cleaning of names is a function, the two orders of names
are numbers and the alphabetic one tells names apart; configurations and objects
have the shape that parsing gives them; the parts of a composite are finite.
Nothing is assumed of the lengths of keys and values. `ScrapeAssumption`: the
bounds are numbers. `OptionsAssumption` and `LifecycleAssumption`: flags have defaults,
`Bad` and `Unset` are not values, workers are numbered. TLC evaluates them in every
run of the modules that declare them. `CtlOneBuild` and `CtlImplementsExposure` have
the hypothesis of one worker, the theorems of `UpdateProofs` those named above; nothing
else has one.

Only model-checked: liveness (`EveryMarkServed`, `Converges`,
`Quiesces`, `Settles`, `ScrapesEnd`, `UpdatesApplied`, `SignalEnds`, `StartEnds`,
`QueuedIsHandled`), which the prover does not handle under fairness. Every safety
property of a passing run is proved.

## 5. Abstractions and what is not modelled

* Lists of the informer return the current state. A first list served from a
  lagging watch cache, followed by the missing events, is left out.
* The informer hands events over in the order of the writes. The real one keeps
  that order per object only; handlers of different objects do not depend on it.
* `parse` is its outcome. Selectors, escaping and the text of samples and headers
  are data that no present property tells apart.
* A scrape's `Visit` copies the slice of an entry, where the code shares its array, and
  `Scrape`'s `AppendStore` is one step, where the code reads and writes the map. Both
  matter only when two workers append to one entry at once, which is the subject of
  `Controller` (`mixed_builds`).
* One family stands for all families of a store, in `MetricStore` with one metric.
* The handlers of `Lifecycle` are the queue's `Get` and `Done`; what they do is in
  `Controller`, what a scrape does in `Scrape`. The three probes differ in their path
  only; the telemetry registry and the pprof pages are library code.
* `-h`, the flags of klog and the limits set from cgroups (`GOMAXPROCS`, `GOMEMLIMIT`,
  whose errors are logged) are left out; `AddEventHandler` fails only on a stopped
  informer, which cannot be there yet.
* Of the generated code, the informer factory's `InformerFor` and `Start` are
  modelled. Its `Shutdown`, `WaitForCacheSync` and options are never called by the
  program; clients, listers, fakes, schemes and deep copies are plumbing with no
  state of their own, and their calls appear as the API steps of `Controller`.
* Version strings, tests and manifests are not modelled.

## 6. Plan

1. Done: `WorkQueue` and `WorkSet`; `Controller` and `Exposure`; `MetricStore`; `Rendering`;
   `Scrape`; `Options` and `Lifecycle`; for each of them, proofs of the type invariant
   and of the safety properties listed in section 4.
2. Left to model-check: everything under fairness, and what section 5 leaves out.
