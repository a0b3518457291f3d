# A TLA+ model of pscale_exporter

`pscale_exporter` polls PowerScale (OneFS) clusters, keeps the result of the
last cycle in memory, and serves it to Prometheus and pushes it over OTLP. This
directory holds TLA+ modules that model the program, TLC configurations that
check them on small instances, and proofs for TLAPS. Paths below are relative
to `src/` unless they name a file of this directory.

## 1. The system

    config file --ReadFile--> SafeConfig --startCollection--> Collector (loop)
        |  watcher, SIGHUP        ^                               | one goroutine
        +------ReloadConfig-------+                               v per cluster
                                                            ClusterClient / LazyClient
                                                                  | HTTPS
    /metrics <- PromCollector <- SnapshotStore <- BuildSnapshot <-+
    /health  <- healthHandler <-      |
    OTLP     <- OTLPExporter  <-------+

| Component | State | Operations | What makes it correct |
|---|---|---|---|
| Collection loop (`internal/powerscale/collector.go`) | its clients, interval, loop context, the results of the cycle in progress | `CollectOnce`, `Run` (select between tick and cancellation), `collectAll` (errgroup), `collectCluster` | a published snapshot has every cluster of the pool; a failing cluster takes no other down; a cancelled loop stops asking and exits |
| Snapshot store (`snapshot.go`) | the current snapshot, immutable once built | `Store`, `Load`, `BuildSnapshot` | readers see one whole snapshot |
| Cluster client (`client.go`), lazy client (`lazy.go`) | session, negotiated API version, `LazyClient.mu` | `GetInventory`, `GetStatistics`, `Close`, deferred session creation | an up cluster is complete; one session at most; no session behind `Close`; `Close` does not hang |
| Server (`main.go`) | clients, collector, `collectCancel`, `mu`, `reloadMu`, watcher, HTTP server, `serverErrChan` | `Start`, `ReloadConfig`, `stopCollection`, `startCollection`, `Shutdown` | no loop is lost; the pool is that of the configuration; the first scrape is not empty; errors and signals end the process |
| Reload triggers (`internal/config/watcher.go`) | a signal channel of capacity 1, the queue of file events | `SetupSIGHUPHandler`, `WatchConfigFile` | an edit that was reported is adopted |
| Configuration (`internal/models/config.go`, `safe_config.go`, `internal/utils/env.go`, `file.go`) | `SafeConfig.C` | defaults, rules, `${VAR}` expansion, password files, load and reload | what runs is usable; a bad file changes nothing; a reload of the same files changes nothing |
| Prometheus collector (`prometheus.go`), health handler (`main.go`) | none | `Collect`, `healthHandler` | one answer is of one cycle |
| OTLP exporter (`otlp.go`) | the registered instruments | `EnsureInstruments`, the observation callback, `Shutdown` | every collected name is pushed |
| Derivations (`derivations.go`, `metrics.go`, `statkeys.go`), payloads (`models/onefs.go`) | none | payload to samples | absent data is not shown as data; units; no duplicate label sets |
| Tracing, logging, build info, `.env`, dump tool, schema tool, charts, dashboards | - | - | output and packaging only |

How they interact: main, the SIGHUP handler and the watcher call into `Server`
from three goroutines; the two reloaders are serialised by `reloadMu`, `Shutdown`
is not. A reload that changes the cluster set cancels the old collector without
waiting for it, closes its clients and builds a new pool; the old loop may be in
the middle of a cycle and shares the store with the new one. The listener
reports a fatal error over a channel of capacity 1 that `Shutdown` closes.
`/metrics` and `/health` read the store and never wait for a cluster.

Behaviours that are hard to test, each listed under `hazards` in `PROJECT.json`
at its line: overlapping collectors over one store; reloads that race each
other, edits and the shutdown; cancellation against a ticker that is always
ready; one deadline over seventeen requests of which thirteen swallow their
errors; a lock held over a network call; an error channel closed under its
sender; secrets that are resolved twice at the start and once in a reload;
intervals that are zero; instruments that outlive the snapshot they were made for,
and a push that is flushed while the process ends; rows of distinct things that
meet in one series, and what a failed or absent answer looks like as a sample.

## 2. Modules

| Module | Models | Composition |
|---|---|---|
| `Collector` | `collector.go`, the store of `snapshot.go` | the state of all collectors ("generations") of a process over one store |
| `ClusterScrape` | `collectCluster`, `client.go`, `lazy.go` | one cluster, request by request; refines `Collector` (`AsCollector`) |
| `Requests` | the endpoint lists of `client.go`, in order, with their kind | used by `ClusterScrape` and `Derivations` |
| `HttpServer` | listener, error channel, wait and shutdown of `main.go`; `Collect` and `healthHandler` as readers | checked through `Export` |
| `Export` | `otlp.go`, the rows of `snapshot.go` and `prometheus.go`, the flush in `Shutdown` | EXTENDS `HttpServer` and refines it (`StillHttpServer`) |
| `Server` | `main.go` with `watcher.go`, `safe_config.go` and the registration of `otlp.go` | EXTENDS `Collector`: its actions create, start and cancel generations |
| `ConfigLoad` | `config.go`, `safe_config.go`, `env.go`, `file.go`, the start of `main.go` | alone; `Server` takes its result (a configuration or `Bad`) as given |
| `OneFS` | the parsers of `models/onefs.go` as operators | used by `Derivations` |
| `Derivations` | `derivations.go`, `metrics.go`, `statkeys.go`, what `collectCluster` and the fetches pass on after a failure | EXTENDS `OneFS` and `Requests` |
| `CollectorProofs`, `ServerProofs`, `ExportProofs`, `ClusterScrapeProofs`, `ConfigLoadProofs`, `DerivationsProofs` | theorems | each EXTENDS the module it is named after, `ServerProofs` also `CollectorProofs`, whose theorems its refinement carries over |
| `SeriesProofs` | theorems about `Derivations` that need the place of a sample or its value | EXTENDS `DerivationsProofs` |
| `SequenceFacts` | what concatenations, `FlattenSeq` and `SetToSeq` hold, and where | used by `DerivationsProofs` |
| `MCCollector`, `MCClusterScrape`, `MCExport`, `MCServer`, `MCConfigLoad`, `MCDerivations` | values of the constants for TLC | |

`PROJECT.json` (`map`) names the lines of every definition. Names ending in
`_Something` after an underscore, such as `Tick_Background`, are broken variants
of the definition they stand next to; no specification uses them. They show that
a property notices the bug they stand for.

### Collector

`loop[g]` is where the driver of generation `g` stands: `sync` is `CollectOnce`
(called by `startCollection` with a context that nobody cancels), `select` and
`cycle` are `Run`. `ctxDone[g]` is the loop's context, `gctxDone[g]` the errgroup
context of the cycle in progress. `results[g][c]` is the goroutine of cluster
`c`: `pending`, `answered` once the last mandatory request has been answered
(from there on the cluster will be up), or returned. `Publish` does not look at
the context again, as the code does not. `Run` panics on an interval that is not
positive, as `time.NewTicker` does, and then nothing else happens. Values of
samples are left out; a snapshot is who published it, its clusters, and which of
them are up.

### ClusterScrape

One step per request, in the order of `GetInventory` and `GetStatistics`, with
the mandatory and best-effort kind of each. `ctx` is the state of the cluster's
context (`context.WithTimeout` over the loop's context). `inner` is the session
of `LazyClient`, `mu` its mutex, which `get` holds while a session is created.
`collectCluster` asks for `APIVersion` first and ignores its error, so a lazy
client may be asked three times for a session in one cycle. A direct
`ClusterClient` is the lazy client whose `inner` is set from the start. The
session library (`gopowerscale`) is external: creating a session succeeds or
fails, and fails when the context is done.

### HttpServer

`main` walks through `Start`, the installation of handlers, the wait and
`Shutdown`; `listener` is the goroutine of `ListenAndServe`, external in what it
returns. `errChan` is `serverErrChan`: `empty`, `full` or `closed`; a send on a
closed channel is the action `ReportPanics`. `scrape[r]` is the handler of
request `r`, which loads the store once and then writes two parts. `--once` starts
no loop, so nothing is published after its one cycle.

### Export

Here a snapshot has rows: `content[k]` is what the `k`-th publication holds, a sequence
of label sets for each metric name, and the value of a row is its place. `registered`
and `ensure` are the instruments and what a call of `EnsureInstruments` has left to
register. The periodic reader is the SDK's, modelled from how `otlp.go` uses it:
it calls the callbacks one after the other (`Callback`, each loads the store for
itself), sends the batch, gives up at its deadline, and at its shutdown waits for
the push in progress and makes a last one. It holds the lock that registration
takes while it calls the callbacks. `MainGoes` is main of `HttpServer` with one
more condition: the error channel is closed after the flush.

### OneFS and Derivations

Each parser of `onefs.go` is an operator from the rows of a reply to the fields the
derivations read, with the three cases of a nullable field (value, null, absent) where
the Go type tells them apart. `BuildSamples` is the concatenation of its families in the
order of the code; a sample is a name, a sequence of label pairs and an exact
quotient, where Go has a float. A map is walked in some order (`SetToSeq`), since Go's order is
random and no property depends on it. `Each`, `When` and `Only` are the three forms of a loop
that appends: what each row yields, one thing under a guard, the rows that pass. `DistinctRows`, the
premise of four properties, says that a list has one row per thing; of a statistic of the whole
cluster there is one row, since rows of several devices would share the series. The rows of the summaries of
protocols, drives and workloads are compared as parsed: the parsers make a missing field and its zero one
value, and leave out a drive whose id they cannot read. `Places` are the places of the samples in the lists
of all clusters: `UniqueSeries` says that there are as many series as places. `Fetched` is the pattern that the best-effort
fetches of `client.go` share: the zero value after a failed request or a payload that does not
decode. The actions collect the clusters of a cycle in any order, each from one
reply. Which requests can fail together, and when, is `ClusterScrape`; here every
single failure and all of them together are replies.

### Server

`pc[p]` is the next statement of `main`, `sighup` and `watcher`; the labels `stop`,
`cancel`, `build`, `sync`, `fields` are the steps of `stopCollection` and
`startCollection` between which other goroutines can run, and are shared by the
three. `cfg` is `SafeConfig.C`, `seen[r]` the configuration a reload has read and
not yet swapped in. `current`, `cancelFn`, `held`, `building` are the places in which
a collector and its cancel function can be: the fields, the locals of
`stopCollection` and those of `startCollection`. `pending` counts undelivered
signals (at most 1, as the channel) and file events. A session creation in
`buildClients` is part of `StartBuilds`: whether it succeeds makes no difference
to the pool, since a failure yields a lazy client. `EarlySignal` is a signal that
arrives before the process has asked for it, which kills the process.

### ConfigLoad

A text is a word or one reference `${VAR}` or `${VAR:-fallback}`; what an
environment variable or a password file holds is a text too, so that a value can
look like a reference. `ReloadLoad` is decode, `SetDefaults`, `ResolveSecrets`,
`Validate`, as in `ReloadConfig`; the start does the same in `StartReads` and
`StartValidates`, and then resolves again (`StartResolvesAgain`, `main.go:428`).
Durations are words that parse or not, endpoints are valid or not, ports are
numbers at the edges of their range. `Word` and `Setting` are the texts of the fields that are
expanded and of those that are not; `DefaultPorts` fills in the ports of the `clusters` entries.

## 3. Runs

`tlc -config X.cfg M` for the module and configuration of each row.

| Run | Question | Bounds |
|---|---|---|
| `collector` | Overlapping collectors over one store, in an environment that creates, starts and cancels them at any time: are snapshots whole, are failures isolated, does cancellation reach every request and end the loop? | 2 clusters, 2 generations, interval positive or not |
| `cluster_scrape` | One cluster with a deadline, cancellation and `Close` at any point: is an up cluster whole, is the session settled, does every cycle and every `Close` end, does it implement `Collector`? | 2 API versions; all 17 requests |
| `export` | Scrapes, pushes, publications, reloads, listener errors and shutdown over one store: is an answer of one snapshot, is a push fresh, do the two paths agree, is `--once` pushed, does nobody wait for ever, is it still `HttpServer`? | 1 request, 1 publication after the first, 2 contents with 1 and 2 metrics and duplicate rows |
| `derivations` | Are labels and series consistent over all clusters and rows, are nodes and totals right, and does what is absent or failed cost only itself? | 2 clusters, 119 replies each |
| `server_reload` | Every interleaving of start, two reloaders, edits and shutdown: no loop lost, pool and configuration agree, first scrape not empty | 2 files (the start is with `onlyA`), 2 edits, 3 generations, push on |
| `server_live` | A requested or reported edit is adopted; the snapshot converges to the configured clusters; the server uses its collectors as module `Collector` says | the edits of `MCEdits`: one that changes the clusters, or a partial file and then one that changes the interval; 2 generations, push off |
| `config_load` | Is what runs usable, and does a reload of untouched files change nothing? | 16 files (8 that meet the rules, 8 that break one each), 2 variables, 1 password file, 2 edits |
| `server_otlp`, `server_panic`, `config_rescan`, `client_rows`, `failed_requests` | Statements of the repository that the code does not meet; TLC finds each violated | smallest instance that shows it |

Why the bounds are enough. Two clusters tell "this cluster" from "another", and
two collectors "retired" from "current"; a third generation lets both reloaders
rebuild while an old loop still runs. A reload that finds the cluster set
unchanged makes no collector, so a process whose file is edited `MaxWrites` times
makes at most `MaxWrites + 1`: `Gen` never runs out before the edits do, and no
behaviour is cut off by the bound. The edits of `server_live` are fewer than its writes allow (`MCEdits`):
a change of the clusters in one write, or, so that a partial file is loaded or skipped before the
contents arrive, `Bad` and then `slowA`, which has the same clusters and makes no collector. File events are bounded by the edits.
In `Export` a publication can fall between any two steps of a scrape, between any two
callbacks of a push, and between the push and its end; scrapes do not meet each other in
the code, so a second one adds nothing; the second content brings a metric that
the first push has no instrument for, and rows with equal labels. The replies of
`MCDerivations` are a full one and those that differ from it in one endpoint: rows with a
field that is null, absent, of another type or at an edge (no drive, a replaced node, a
statistic in error or for a device that is gone, an event that is resolved), no rows, or
no answer; besides them one in which every best-effort request has failed, and the
statistics crossed with the nodes' device ids; two clusters are needed because label names must
agree between clusters, and they are interchangeable (symmetry). In `ClusterScrape` nothing is cut: cycles repeat
for ever. The files of `MCConfigLoad` are chosen so that each rule of
`Validate` and each outcome of the expansion decides one of them. `Metric` is
empty where push is off; `server_reload` has the registration of instruments among
its interleavings. `MCSpec` and `MCFairSpec` start with the file `onlyA`: in `server_reload`, with the files `onlyA` and
`onlyB` and no metrics, exchanging the files and the clusters maps behaviours to
behaviours, so a start with `onlyB` adds nothing; in `server_panic` it leaves the hot reload as the only way in.

`CHECK_DEADLOCK FALSE` is used by `MCCollector.cfg` only: cancelled collectors
stop, and that environment owes them nothing. The other modules have an explicit
stuttering step for a process that is gone, so that TLC reports any other stop.

Mutants (`PROJECT.json`): for every property of a passing run, a variant of one
definition that the property rejects under the same configuration.

### Fairness

* A goroutine that can take its next step takes it (weak fairness): Go schedules
  runnable goroutines, and each request has the context's deadline.
* `Exit` is strongly fair: `select` picks at random among ready cases, so a
  loop whose ticker is always ready sees `ctx.Done()` in the end.
* `ReloadLocks` is strongly fair: `sync.Mutex` hands over to a waiter that starves.
* In `ClusterScrape` a deadline passes, and a request whose context is done
  returns; nothing obliges a cluster to answer.
* `server_live` assumes that the creation of a session returns. The code gives it
  no deadline (`main.go:160`), so a cluster that accepts a connection and never
  answers holds up the start, or `reloadMu` and with it every later reload.
* In `Export` the reader calls its callbacks and gives a push up at its deadline
  (the SDK's timeout, and in `Shutdown` the context of `shutdownTimeout`); the backend
  owes nothing. Registration is strongly fair, as the mutex it waits for hands over.
  `StillHttpServer` includes the fairness of `HttpServer`: the flush holds `Shutdown` up
  for a bounded time only.
* Signals, edits, errors of the listener and main's wait owe nothing.

## 4. Proofs

`tlapm M.tla` for each module `M` whose name ends in `Proofs`, and for `SequenceFacts`. Every invariant and action property that a run checks is also
a theorem; what is left to TLC is liveness.

Assumptions, each next to the constants it is about, and evaluated by TLC in the runs:
`GenAssumption` (generations are positive numbers), `IntervalAssumption`, `VersionAssumption`,
`ConfigAssumption` (every valid file has a non-empty set of known clusters, an interval, and there is
content that is not valid), `ConfigLoadAssumption` (a file that decodes has the fields of
`models.Config`; the empty word is a word and the defaults are settings), `MaxSnapshotAssumption` and
`ContentAssumption` (a metric's rows are a sequence of labels), `StatKeyAssumption` and
`StatMetricAssumption` (in `statisticsKeys.json` no key and no metric is listed twice, and no metric is
one of another family; true of its 22 entries), `ReplyAssumption` (a reply has an entry for each
request, and where the Go types have slices it has sequences), `NumberAssumption` (where the Go types have
numbers a reply has numbers, or one of the values that stand for what the parser tells from one),
`ClusterAssumption` (finitely many clusters) and `PendingAssumption` (no reply and no result is taken for the absence of
one). The theorems hold for any sets of
clusters, files, words and intervals, any numbers of generations, edits, requests, publications, metrics
and API versions, any replies and any number of rows in them.

| Theorem | Says |
|---|---|
| `CollectorTypeCorrect`, `ServerTypeCorrect`, `ScrapeTypeCorrect`, `LoadTypeCorrect`, `ExportTypeCorrect` | types |
| `SnapshotsWhole` | `SnapshotComplete` |
| `FailuresIsolated` | `Isolation` |
| `CancellationReaches` | `CancelReachesRequests` |
| `NoLoopLeaks` | `NoLeakedLoop` |
| `PoolFollowsConfig` | `PoolMatchesConfig` |
| `FirstScrapeServed` | `FirstScrapeNotEmpty` |
| `ServerRefinesCollector`, `ServerSnapshotSafe` | `UsesCollector`, and what it carries over |
| `WhatIsUpIsWhole` | `UpIsWhole` |
| `WhatIsUpKnowsItsVersion` | `UpKnowsItsVersion` |
| `SessionIsSettled` | `SessionSettled` |
| `ScrapeRefinesCollector` | `ImplementsCollector` |
| `AdoptedUsable` | `AdoptedIsUsable` |
| `ReloadIsSteady` | `SteadyReload` |
| `LabelsOfAMetricAgree` | `LabelsAgree` |
| `LossStaysLocal` | `LossIsLocal` |
| `StatisticsAttributed` | `NodeAttribution` |
| `AbsentStaysAbsent` | `AbsentNotZero` |
| `TypeCorrect` | `TypeOK` of `Derivations` |
| `SeriesAreUnique` | `UniqueSeries` |
| `CountsAddUp` | `HealthTotals` |
| `ScrapeIsOneSnapshot` | `AnswerIsOneSnapshot` |
| `PushesAreFresh` | `PushIsFresh` |
| `ExportPathsAgree` | `ExportsAgree` |
| `OnceReachesBackend` | `OnceIsPushed` |
| `ExportRefinesHttp` | the safety part of `StillHttpServer` |

`CollectorProofs`. `CollectorInv` is the type invariant, `SnapshotComplete`,
`Isolation`, and two facts that make them inductive: `ContextsAgree` (the
errgroup context of a cycle is done early only if the loop's context is, since the
goroutines return nil) and `PublisherExists` (a generation that has published has
been created, so its pool no longer changes under the snapshot).
`CancellationReaches` is an action property; it needs `Retired`: a cancelled loop
that is in a cycle has a group context that is done. Two more facts are for the
server: `PoolsInhabited` (a collector is made over at least one client) and `PublishesFirst` (a loop that is
past its first cycle has published).

`ServerProofs`. Every step of the server is a step of `CollectorNext` or leaves
the collectors alone (`StepRefines`), which gives `ServerRefinesCollector` and
carries over what is proved of `Collector` (`ServerSnapshotSafe`).
`NoLeakedLoop` and `PoolMatchesConfig` are not inductive: one has to know who is
inside `stopCollection` and `startCollection`. `Coordinated` says it:
only the holder of `reloadMu` is between `stop` and `fields` besides a main that
starts or shuts down; a main that starts is alone; a cancel function in `held`
belongs to a goroutine that is about to call it; what `building` names has just
been made from `cfg`; the field is free when a new loop is published; and the pool
in use was built from `cfg` except between swap and rebuild. The parts are conditional on
a process that was not killed. One lemma per action shows that it preserves them.
`FirstScrapeInv` puts the two facts of the collectors together with `ServesAfterFirst`: main
leaves `startCollection`, and so comes to the listener, only through a loop that has completed its
first cycle.

`ClusterScrapeProofs`. `UpIsWhole` and `UpKnowsItsVersion` speak of the end of a cycle; `ScrapeInv`
carries what they need from request to request. `RequestsAgree`: the position in the
list of requests, and that the mandatory ones behind it, and no others, have been answered. `CutAgrees`: only a context
that is done cuts a request off, and from the statistics on no inventory request has been, because
`statistics/current` does not swallow its error; this is what keeps the zeros of the best-effort
requests out of a cluster that is up. `SessionAgrees`: the session, its lock and the version the cycle has.
`ContextFollows` and `DriverAgrees` relate the cycle's context and `Close` to the loop's cancellation.
`ScrapeRefinesCollector` maps each step to a step of `Collector` for one cluster and one generation, or to a
stutter; the invariant supplies where the driver stands during a cycle, and that a cycle's context is
cancelled through its loop only, as `Collector` wants of a cluster that is given up.

`ConfigLoadProofs`. One lemma per operator says what it returns for any text, variable, file and
password (`ExpandEnvReturns` to `ReloadLoadReturns`), and two lemmas what resolving again leaves alone:
everything, where no value from outside holds a reference (`ResolvesOnce`), and always the rules of the
clusters (`RulesKept`). `LoadInv` adds two facts to the types: `RulesMet` (from `Validate` on the clusters meet the rules, also after
the second resolution) and `LoadedFromFiles` (while no file is touched, `cfg` is what the start has made of the
files as they are and what a reload would make of them). Without the second, nothing relates the configuration in use to
the files that a later reload reads.

`DerivationsProofs`. Nearly all of its weight is on the operators; the inductive invariant,
`ResultsFollow`, says that a result that is there is `CollectCluster` of the reply that is there, which no step of
another cluster touches. The argument goes by requests. `SamplesByRequest`: the samples of a cluster that is up are the
union of one set for each request (`Part`, and `RequiredSamples` for the three mandatory ones with samples),
which for a failed request is empty or has the zeros of its totals. `PartFits` and `RequiredFits`: each set
has metrics of that request only, and every sample of it has the label names of its metric.
`FamiliesDisjoint`: no metric is of two requests. `LabelsAgree` is then read off the second, `LossIsLocal`
off all three. `NodeAttribution` and `AbsentNotZero` go back from a sample to its row (`Origin`,
`SpecFound`, `NodeStatistic`), where the rows being of distinct things makes the way back unique.

`SeriesProofs`. `UniqueSeries` asks where a sample is in its list, and `DerivationsProofs` says only what a list
holds. `Apart` is a list without two samples of one series, `Sep` one whose metrics are also known. Two such
lists of different metrics stay apart when concatenated (`ConcatSep`); a loop over rows is apart when the
samples of each row are, all their labels begin with the labels of the row, and these tell the rows apart (`EachRowSep`,
`ClusterLabelsTell`, `NodeLabelsTell`). So a family is apart because its rows are distinct (`ListedSep`,
`RequiredSep`), a cluster because a metric is of one family (`ClusterApart`), and the clusters because the first label is
the cluster's name, which is one half of `TypeOK`. Where rows are filtered first, `OnlyPicks` says which row each one
that is left has been. `TypeOK` follows the samples from the numbers of the reply (`Numbers`) through parsers and families (`ClusterTyped`);
inductive with it are `ResultsFollow` and `StateTyped`. For `HealthTotals`, `TotalOfParts` shows that a sum over samples
is the size of a set when each sample counts a part of it and the parts are disjoint: the rows with its state. It
names the function that the fold computes and shows by induction on the size that there is no other.
`DrivesOfNode` and `EventsOfCluster` find the samples, and
`PickedCounts` passes from the rows that the filter leaves to those of the reply.

`SequenceFacts`. The samples are built with `FlattenSeq` and `SetToSeq`, of which the library has no
theorems. What they hold is proved here, with `Holds(s, R)`: `s` is a sequence, and its elements are the set `R`;
and where they hold it, with `Unfolds`: the indices of `FlattenSeq` correspond to the pairs of an index of
the outer sequence and one of the inner.
Induction is over a set of numbers, by its least missing element (`NatSetInduction`), as induction
theorems with an operator parameter are beyond the provers.

`ExportProofs`. A step of the composition is a step of `HttpServer` or leaves it alone
(`StepIsHttpStep`), so `HttpInv` (types, and that a handler's two parts are of the
snapshot it loaded) is shown once, for `HttpServer`'s own steps. `ExportInv` adds what the
exporter's properties need to be inductive: what a callback has read is the store's
content at some moment of its push (`BatchRead`, `ExportedRead`; published snapshots do not
change, `ObservedKept`); the last push is made before main goes on and none follows
it (`FlushOrder`); with `--once` no instrument is added after the start, so that a push whose
callbacks have all been called is complete (`OnceWhole`). That the two paths agree also
needs a fact about rows, `AllFirstAllLast`: if keeping the first of equal rows
loses none, there are no equal rows, and keeping the last loses none either.

Proofs that failed for a reason. `AbsentNotZero` does not follow if a reply may have two rows of one
cluster-wide statistic, from different devices, one in error and one with a value; the second row's sample then stands where the
first has none. `DistinctRows` therefore asks for one row of such a key. `UniqueSeries` does not follow if the rows of the
protocol summary are distinct as they are sent: one without a node and one of node 0 are two rows and one
series (with that premise TLC finds it violated, once a reply has such a pair). `DistinctRows` therefore speaks of the parsed rows
where a parser replaces what is missing.

Only model-checked: the liveness properties (`CancelledLoopExits`, `CycleEnds`, `CloseReturns`,
`ListenerErrorEndsServer`, `ShutdownReturns`, `EnsureFinishes`, `RequestedEditAdopted`, `SnapshotConverges`
and the fairness in `StillHttpServer`), since fairness is beyond the prover. That a metric's name is a string is left
out of `TypeOK` (the provers know a literal, but not that it is in `STRING`): it says that the name is one of `Metrics`.

## 5. Where the code and what is said of it part

Shown by runs, with the quotations in `PROJECT.json`:

1. `server_panic`: a `collection.interval` of `0s` or less is valid and panics the
   loop, and with it the process, at the start and, as the run shows, when hot-reloaded.
2. `config_rescan`: `main` resolves secrets twice, so values inserted by the first pass
   are expanded by the second; the same holds for the contents of a password file.
3. `server_otlp`: metric names that first appear after the start are never pushed.
4. `client_rows`: the client metrics are said to be aggregated by node, protocol and class;
   the code emits one sample per remote client with these labels only, so that each export
   path keeps one client of several.
5. `failed_requests`: what a failed best-effort request leaves is documented twice, and the code does neither.
   `docs/metrics.md:165` says of the section Data protection, which lists `powerscale_snapshot_used_bytes`, that without
   the privilege it "simply emits no series"; the gauge is emitted, as 0 (`derivations.go:183`, and so are the counts of
   exports, shares and snapshots and the two deduplication gauges). `docs/troubleshooting.md:33` says that a failing
   endpoint, SyncIQ and the drive and client summaries among them, "leaves its metrics at zero"; these have no samples.
   `FailureIsDocumented` says that one of the pages describes each cluster; the cycle in which all the requests
   fail refutes both. `LossIsLocal` takes no side: it is about the metrics of the other requests.

Met while modelling and without a run of their own, since each follows from the
code in one or two steps: a reload that changes the interval only is swapped in and never reaches the loop, since
`ReloadConfig` returns early at `main.go:262`, although `docs/getting-started/configuration.md:230` says "the next collection cycle
picks up the new clusters/intervals"; a retired loop that publishes once more makes `/health`
report clusters that are no longer configured, until the next cycle overwrites it
(`SnapshotConverges`; `main.go:344` speaks of all configured clusters); a push that overlaps a
publication mixes two cycles (ADR 0002, line 76, speaks of the same cycle's numbers); a statistic whose value is
null is exported as 0 (`onefs.go:594`), one without a value is not; the last push at a shutdown may
carry the empty snapshot of a cycle that the shutdown has cancelled (`main.go:321`); a cycle in which every cluster fails replaces the prior
snapshot (ADR 0002, line 90, says that it stays); an edit between the first read
of the file and the start of the watcher is not adopted until the next edit or
SIGHUP; a bind error that is returned while `Shutdown` runs is sent on the channel
that `Shutdown` has closed (`main.go:339`); a reload in progress while `Shutdown`
runs may leave a new loop behind it; a credential with an empty fallback fails
although `configuration.md:118` says that a fallback never errors.

## 6. What is left out

The pages of a list beyond the first (the code does not ask for them); rounding of
floats (values are exact quotients); the fields of `onefs.go` that only choose a log line
(`VirtualHardware`, `ReportsHardwareSensors`) and the payload beyond what a sample is made of; what
inotify reports for symbolic links; the TLS and retry behaviour of the HTTP, OTLP and OneFS
libraries (external); tracing, logging, build info, `.env` loading, the dump option,
the schema tool, charts and dashboards (output, or without state the exporter
reads back). `PROJECT.json` lists each with its reason.

## 7. Plan

Done, in this order: `Collector`, `ClusterScrape`, `HttpServer`, `Server` with
`CollectorProofs` and `ServerProofs`, `ConfigLoad`, `Derivations` with `OneFS`, `Export` with
`ExportProofs`.

The proofs came in the same order: `CollectorProofs`, `ServerProofs`, `ExportProofs`,
`ClusterScrapeProofs`, `ConfigLoadProofs`, `SequenceFacts`, `DerivationsProofs` and `SeriesProofs`.

Next: `Server` and `Export` as one composition, with the snapshots that a cancelled loop publishes
during the flush, if its state space allows.
