------------------------------- MODULE Server --------------------------------
(***************************************************************************)
(* The server of the exporter (main.go): start-up, hot reload, shutdown,    *)
(* and what they do to the collectors of module Collector, to the snapshot  *)
(* store and to the OTLP instruments (otlp.go).  The goroutine of the HTTP  *)
(* listener and its error channel are module HttpServer.                    *)
(*                                                                          *)
(* Three goroutines run code of the Server at the same time: main itself,   *)
(* the SIGHUP handler and the config-file watcher (config/watcher.go).  The *)
(* bodies they share, stopCollection and startCollection, are actions with  *)
(* the goroutine as a parameter; pc[p] is the next statement of p.          *)
(* SafeConfig (models/safe_config.go) is the variable cfg.                  *)
(***************************************************************************)
EXTENDS Collector

CONSTANTS Config,      \* the contents of the config file that pass validation
          Bad,         \* any content that does not decode, resolve or validate
          ClustersOf,  \* ClustersOf[f]: the cluster entries of f
          IntervalOf,  \* IntervalOf[f]: its collection.interval
          Metric,      \* the names of the collected metrics
          NamesOf,     \* NamesOf[c]: the names c's samples have when c is up
          OTLPEnabled, \* opentelemetry.metrics.enabled, read at start-up only
          MaxWrites    \* bound on the edits of the config file

ASSUME ConfigAssumption ==
    /\ Bad \notin Config
    /\ ClustersOf \in [Config -> (SUBSET Cluster) \ {{}}]
    /\ IntervalOf \in [Config -> Interval]
    /\ NamesOf \in [Cluster -> SUBSET Metric]
    /\ OTLPEnabled \in BOOLEAN
    /\ MaxWrites \in Nat

Reloader == {"sighup", "watcher"}
Proc == {"main"} \cup Reloader
Nobody == "nobody"

VARIABLES once,        \* the --once flag
          file,        \* what the config file holds
          writes,      \* how often it was edited
          cfg,         \* SafeConfig.C
          pc,          \* pc[p]: the next statement of goroutine p
          seen,        \* seen[r]: newCfg, the configuration r has read, or Bad
          reloadMu,    \* who holds Server.reloadMu
          pending,     \* pending[r]: signals or events r has not received yet
          watching,    \* the file watcher is open
          current,     \* Server.clients and Server.collector: a generation
          cancelFn,    \* Server.collectCancel: the generation it cancels
          held,        \* held[p]: the cancel function stopCollection took
          building,    \* building[p]: the collector startCollection has made
          otlp,        \* the OTLP exporter: "off", "on" or "stopped"
          instruments, \* OTLPExporter.registered
          serving      \* the HTTP server is started and not shut down

reloadVars == <<seen, reloadMu, pending, watching>>
fileVars == <<file, writes>>
poolVars == <<current, cancelFn, held, building>>
exportVars == <<otlp, instruments>>
serverVars == <<once, fileVars, cfg, pc, reloadVars, poolVars, exportVars, serving>>
vars == <<collectorVars, serverVars>>

-----------------------------------------------------------------------------
StartLabel == {"build", "sync", "fields", "otlp", "listen", "handlers", "watch"}
MainLabel == StartLabel \cup
             {"wait", "stop", "cancel", "sdOtlp", "exited", "killed"}
ReloadLabel == {"idle", "lock", "read", "swap", "stop", "cancel", "build", "sync",
                "fields", "otlp"}

\* The process is there: main has not returned and no goroutine has panicked.
Alive == /\ pc["main"] \notin {"exited", "killed"}
         /\ ~Panicked

\* main has returned from Start and not yet begun to shut down.
Running == pc["main"] \in {"handlers", "watch", "wait"}

Goto(p, l) == pc' = [pc EXCEPT ![p] = l]

\* The metric names of the samples in a snapshot.
MetricNames(snap) == UNION {NamesOf[c] : c \in snap.up}

Init ==
    /\ CollectorInit
    /\ once \in BOOLEAN
    /\ cfg \in Config
    /\ file = cfg
    /\ writes = 0
    /\ pc = [p \in Proc |-> IF p = "main" THEN "build" ELSE "idle"]
    /\ seen = [r \in Reloader |-> Bad]
    /\ reloadMu = Nobody
    /\ pending = [r \in Reloader |-> 0]
    /\ watching = FALSE
    /\ current = NoGen
    /\ cancelFn = NoGen
    /\ held = [p \in Proc |-> NoGen]
    /\ building = [p \in Proc |-> NoGen]
    /\ otlp = "off"
    /\ instruments = {}
    /\ serving = FALSE

-----------------------------------------------------------------------------
(* The environment.                                                         *)

\* The file is edited; it may be read in the middle of an edit, which is Bad.
\* inotify reports the edit if the watcher is open.
WriteFile(f) ==
    /\ writes < MaxWrites
    /\ f # file
    /\ file' = f
    /\ writes' = writes + 1
    /\ pending' = IF watching THEN [pending EXCEPT !["watcher"] = @ + 1] ELSE pending
    /\ UNCHANGED <<collectorVars, once, cfg, pc, seen, reloadMu, watching, poolVars, exportVars, serving>>

\* main has passed signal.Notify for SIGHUP (SetupSIGHUPHandler).
HandlesSighup == ~once /\ pc["main"] \notin {"build", "sync", "fields", "otlp", "listen", "handlers"}

Sighup_TwoSlots ==
    /\ HandlesSighup
    /\ pending["sighup"] < 2
    /\ pending' = [pending EXCEPT !["sighup"] = @ + 1]
    /\ UNCHANGED <<collectorVars, once, fileVars, cfg, pc, seen, reloadMu, watching, poolVars, exportVars, serving>>

\* The channel holds one signal; one more is dropped.
Sighup ==
    /\ HandlesSighup
    /\ pending["sighup"] = 0
    /\ pending' = [pending EXCEPT !["sighup"] = 1]
    /\ UNCHANGED <<collectorVars, once, fileVars, cfg, pc, seen, reloadMu, watching, poolVars, exportVars, serving>>

\* A SIGHUP before that, or a SIGINT or SIGTERM before waitForShutdown, ends
\* the process: it has not yet asked for the signal.
EarlySignal ==
    /\ once \/ pc["main"] \in StartLabel
    /\ Goto("main", "killed")
    /\ UNCHANGED <<collectorVars, once, fileVars, cfg, reloadVars, poolVars, exportVars, serving>>

-----------------------------------------------------------------------------
(* stopCollection, called by ReloadConfig and by Shutdown.                  *)

\* Under mu: take the fields and clear them.
StopTakes(p) ==
    /\ pc[p] = "stop"
    /\ held' = [held EXCEPT ![p] = cancelFn]
    /\ cancelFn' = NoGen
    /\ current' = NoGen
    /\ Goto(p, "cancel")
    /\ UNCHANGED <<collectorVars, once, fileVars, cfg, reloadVars, building, exportVars, serving>>

AfterStop(p) == IF p = "main" THEN "sdOtlp" ELSE "build"

StopCancels_NoCancel(p) ==
    /\ pc[p] = "cancel"
    /\ UNCHANGED collectorVars
    /\ held' = [held EXCEPT ![p] = NoGen]
    /\ Goto(p, AfterStop(p))
    /\ UNCHANGED <<once, fileVars, cfg, reloadVars, current, cancelFn, building, exportVars, serving>>

\* if cancel != nil { cancel() }, then Close on every client.  The loop may be
\* anywhere in its cycle, and is not waited for.
StopCancels(p) ==
    /\ pc[p] = "cancel"
    /\ IF held[p] = NoGen THEN UNCHANGED collectorVars ELSE Cancel(held[p])
    /\ held' = [held EXCEPT ![p] = NoGen]
    /\ Goto(p, AfterStop(p))
    /\ UNCHANGED <<once, fileVars, cfg, reloadVars, current, cancelFn, building, exportVars, serving>>

-----------------------------------------------------------------------------
(* startCollection, called by Start and by ReloadConfig.                    *)

StartBuilds_DropsUnreachable(p) ==
    /\ pc[p] = "build"
    /\ \E g \in Gen, P \in SUBSET ClustersOf[cfg] :
          /\ NewCollector(g, P, IntervalOf[cfg])
          /\ building' = [building EXCEPT ![p] = g]
    /\ Goto(p, "sync")
    /\ UNCHANGED <<once, fileVars, cfg, reloadVars, current, cancelFn, held, exportVars, serving>>

\* buildClients and NewCollector over the current configuration, and the start
\* of the synchronous cycle; its steps are the collector's own.
StartBuilds(p) ==
    /\ pc[p] = "build"
    /\ \E g \in Gen :
          /\ NewCollector(g, ClustersOf[cfg], IntervalOf[cfg])
          /\ building' = [building EXCEPT ![p] = g]
    /\ Goto(p, "sync")
    /\ UNCHANGED <<once, fileVars, cfg, reloadVars, current, cancelFn, held, exportVars, serving>>

\* CollectOnce has returned; without --once the loop is started.
StartLoop(p) ==
    /\ pc[p] = "sync"
    /\ ~once
    /\ Run(building[p])
    /\ Goto(p, "fields")
    /\ UNCHANGED <<once, fileVars, cfg, reloadVars, poolVars, exportVars, serving>>

\* Under mu: publish clients, collector and cancel function.
StartFields(p) ==
    /\ pc[p] = "fields"
    /\ current' = building[p]
    /\ cancelFn' = building[p]
    /\ building' = [building EXCEPT ![p] = NoGen]
    /\ Goto(p, "otlp")
    /\ UNCHANGED <<collectorVars, once, fileVars, cfg, reloadVars, held, exportVars, serving>>

\* With --once there is no loop and no cancel function.
StartFieldsOnce ==
    /\ pc["main"] = "sync"
    /\ once
    /\ loop[building["main"]] = "synced"
    /\ current' = building["main"]
    /\ building' = [building EXCEPT !["main"] = NoGen]
    /\ Goto("main", "otlp")
    /\ UNCHANGED <<collectorVars, once, fileVars, cfg, reloadVars, cancelFn, held, exportVars, serving>>

-----------------------------------------------------------------------------
(* Start, after startCollection.                                            *)

\* initOTLP: push is disabled or cannot be set up, or it is on and the names in
\* the snapshot of this moment get their instruments (EnsureInstruments).
InitOTLP ==
    /\ pc["main"] = "otlp"
    /\ \/ UNCHANGED exportVars
       \/ /\ OTLPEnabled
          /\ otlp' = "on"
          /\ instruments' = MetricNames(store)
    /\ Goto("main", "listen")
    /\ UNCHANGED <<collectorVars, once, fileVars, cfg, reloadVars, poolVars, serving>>

Listen_Early ==
    /\ pc["main"] \in {"sync", "listen"}
    /\ serving' = ~once
    /\ IF pc["main"] = "sync" THEN UNCHANGED pc ELSE Goto("main", IF once THEN "stop" ELSE "handlers")
    /\ UNCHANGED <<collectorVars, once, fileVars, cfg, reloadVars, poolVars, exportVars>>

\* The goroutine of ListenAndServe is started; with --once main goes straight
\* on to Shutdown, which stops it again.
Listen ==
    /\ pc["main"] = "listen"
    /\ serving' = ~once
    /\ Goto("main", IF once THEN "stop" ELSE "handlers")
    /\ UNCHANGED <<collectorVars, once, fileVars, cfg, reloadVars, poolVars, exportVars>>

InstallSighup ==
    /\ pc["main"] = "handlers"
    /\ Goto("main", "watch")
    /\ UNCHANGED <<collectorVars, once, fileVars, cfg, reloadVars, poolVars, exportVars, serving>>

\* WatchConfigFile may fail: SIGHUP still reloads.
WatchConfigFile ==
    /\ pc["main"] = "watch"
    /\ watching' \in BOOLEAN
    /\ Goto("main", "wait")
    /\ UNCHANGED <<collectorVars, once, fileVars, cfg, seen, reloadMu, pending, poolVars, exportVars, serving>>

-----------------------------------------------------------------------------
(* ReloadConfig, run by the SIGHUP handler and by the watcher.              *)

\* range sighup; case event := <-watcher.Events.
Receive(r) ==
    /\ pc[r] = "idle"
    /\ pending[r] > 0
    /\ r = "watcher" => watching
    /\ pending' = [pending EXCEPT ![r] = @ - 1]
    /\ Goto(r, "lock")
    /\ UNCHANGED <<collectorVars, once, fileVars, cfg, seen, reloadMu, watching, poolVars, exportVars, serving>>

ReloadLocks_Unserialized(r) ==
    /\ pc[r] = "lock"
    /\ reloadMu' = r
    /\ Goto(r, "read")
    /\ UNCHANGED <<collectorVars, once, fileVars, cfg, seen, pending, watching, poolVars, exportVars, serving>>

ReloadLocks_TryLock(r) ==
    /\ pc[r] = "lock"
    /\ IF reloadMu = Nobody THEN reloadMu' = r /\ Goto(r, "read")
                            ELSE UNCHANGED reloadMu /\ Goto(r, "idle")
    /\ UNCHANGED <<collectorVars, once, fileVars, cfg, seen, pending, watching, poolVars, exportVars, serving>>

ReloadLocks(r) ==
    /\ pc[r] = "lock"
    /\ reloadMu = Nobody
    /\ reloadMu' = r
    /\ Goto(r, "read")
    /\ UNCHANGED <<collectorVars, once, fileVars, cfg, seen, pending, watching, poolVars, exportVars, serving>>

ReloadReturns(r) ==
    /\ reloadMu' = Nobody
    /\ Goto(r, "idle")

\* SafeConfig.ReloadConfig up to its lock: decode, resolve, validate.
ReloadReads(r) ==
    /\ pc[r] = "read"
    /\ \/ /\ file = Bad
          /\ ReloadReturns(r)
          /\ UNCHANGED seen
       \/ /\ file # Bad
          /\ seen' = [seen EXCEPT ![r] = file]
          /\ Goto(r, "swap")
          /\ UNCHANGED reloadMu
    /\ UNCHANGED <<collectorVars, once, fileVars, cfg, pending, watching, poolVars, exportVars, serving>>

\* !reflect.DeepEqual(sc.C.Clusters, newCfg.Clusters), before the swap.
ClustersChanged_AfterSwap(r) == ClustersOf[seen[r]] # ClustersOf[cfg']
ClustersChanged(r) == ClustersOf[seen[r]] # ClustersOf[cfg]

\* The comparison, the swap, and ReloadConfig's early return.
ReloadSwaps(r) ==
    /\ pc[r] = "swap"
    /\ cfg' = seen[r]
    /\ seen' = [seen EXCEPT ![r] = Bad]
    /\ \/ /\ ClustersChanged(r)
          /\ Goto(r, "stop")
          /\ UNCHANGED reloadMu
       \/ ~ClustersChanged(r) /\ ReloadReturns(r)
    /\ UNCHANGED <<collectorVars, once, fileVars, pending, watching, poolVars, exportVars, serving>>

\* EnsureInstruments, if there is an OTLP exporter; then reloadMu is released.
ReloadRegisters(r) ==
    /\ pc[r] = "otlp"
    /\ instruments' = IF otlp = "off" THEN instruments ELSE instruments \cup MetricNames(store)
    /\ ReloadReturns(r)
    /\ UNCHANGED <<collectorVars, once, fileVars, cfg, seen, pending, watching, poolVars, otlp, serving>>

-----------------------------------------------------------------------------
(* waitForShutdown and Shutdown.                                            *)

\* A signal or the error of the HTTP server, at any time; then Shutdown closes
\* the watcher and the HTTP server, which ends no reload that is in progress.
StopRequested ==
    /\ pc["main"] = "wait"
    /\ watching' = FALSE
    /\ serving' = FALSE
    /\ Goto("main", "stop")
    /\ UNCHANGED <<collectorVars, once, fileVars, cfg, seen, reloadMu, pending, poolVars, exportVars>>

\* otlp.Shutdown; then main returns.
ShutdownOTLP ==
    /\ pc["main"] = "sdOtlp"
    /\ otlp' = IF otlp = "on" THEN "stopped" ELSE otlp
    /\ Goto("main", "exited")
    /\ UNCHANGED <<collectorVars, once, fileVars, cfg, reloadVars, poolVars, instruments, serving>>

\* Nothing happens in a process that is gone.
Gone == ~Alive /\ UNCHANGED vars

-----------------------------------------------------------------------------
Collects == \E g \in Gen : CollectorStep(g) /\ UNCHANGED serverVars

Environment ==
    \/ \E f \in Config \cup {Bad} : WriteFile(f)
    \/ Sighup
    \/ EarlySignal

SharedStep(p) == \/ StopTakes(p) \/ StopCancels(p)
                 \/ StartBuilds(p) \/ StartLoop(p) \/ StartFields(p)

MainStep == \/ SharedStep("main")
            \/ StartFieldsOnce \/ InitOTLP \/ Listen \/ InstallSighup \/ WatchConfigFile
            \/ StopRequested \/ ShutdownOTLP

ReloadStep(r) == \/ Receive(r) \/ ReloadLocks(r) \/ ReloadReads(r) \/ ReloadSwaps(r)
                 \/ SharedStep(r)
                 \/ ReloadRegisters(r)

Next ==
    \/ /\ Alive
       /\ \/ Environment
          \/ Collects
          \/ MainStep
          \/ \E r \in Reloader : ReloadStep(r)
    \/ Gone

Spec == Init /\ [][Next]_vars

(* Fairness: goroutines that can go on do so.  main may wait for ever for a *)
(* signal, an error of the listener is never owed, and the environment owes *)
(* nothing.  A mutex is handed over in the end (sync.Mutex does not starve  *)
(* a waiter), which is strong fairness.  That a session creation returns is *)
(* an assumption about the network: buildClients sets no deadline.          *)

CollectorProgress(g) ==
    /\ \A c \in Cluster :
          WF_vars(/\ Alive /\ c \in pool[g]
                  /\ \/ Answered(g, c) \/ CollectClusterUp(g, c)
                     \/ CollectClusterFails(g, c) \/ CollectClusterCancelled(g, c)
                  /\ UNCHANGED serverVars)
    /\ WF_vars(Alive /\ (StoreInitial(g) \/ Publish(g)) /\ UNCHANGED serverVars)
    /\ WF_vars(Alive /\ Tick(g) /\ UNCHANGED serverVars)
    /\ SF_vars(Alive /\ Exit(g) /\ UNCHANGED serverVars)

Fairness ==
    /\ \A g \in Gen : CollectorProgress(g)
    /\ WF_vars(Alive /\ pc["main"] # "wait" /\ MainStep)
    /\ \A r \in Reloader : /\ WF_vars(Alive /\ ReloadStep(r))
                           /\ SF_vars(Alive /\ ReloadLocks(r))

FairSpec == Spec /\ Fairness

-----------------------------------------------------------------------------
(* Properties.                                                              *)

\* The type of the server's state.
ServerTypeOK ==
    /\ once \in BOOLEAN
    /\ file \in Config \cup {Bad} /\ writes \in 0..MaxWrites
    /\ cfg \in Config
    /\ pc \in [Proc -> MainLabel \cup ReloadLabel]
    /\ seen \in [Reloader -> Config \cup {Bad}]
    /\ reloadMu \in Reloader \cup {Nobody}
    /\ pending \in [Reloader -> Nat] /\ pending["sighup"] \in 0..1
    /\ watching \in BOOLEAN
    /\ current \in Gen \cup {NoGen} /\ cancelFn \in Gen \cup {NoGen}
    /\ held \in [Proc -> Gen \cup {NoGen}]
    /\ building \in [Proc -> Gen \cup {NoGen}]
    /\ otlp \in {"off", "on", "stopped"} /\ instruments \subseteq Metric
    /\ serving \in BOOLEAN

\* No collection loop is ever lost: a loop that has not been cancelled can
\* still be, because its cancel function is in the server's field, in the
\* hands of a stopCollection that is about to call it, or in those of the
\* startCollection that is about to publish it.
NoLeakedLoop ==
    \A g \in Gen : Looping(g) /\ ~ctxDone[g] =>
        \/ cancelFn = g
        \/ \E p \in Proc : held[p] = g \/ building[p] = g

\* Between reloads the clients of the server are those of the configuration
\* that SafeConfig holds: no sequence of edits, signals and bad files makes
\* the client pool and the configuration drift apart.
PoolMatchesConfig ==
    Running /\ reloadMu = Nobody =>
        current # NoGen /\ pool[current] = ClustersOf[cfg]

\* The first scrape is not empty (main.go:163): once the listener serves, there
\* is a snapshot, with an entry for at least one cluster, and no reload takes
\* it away.
FirstScrapeNotEmpty ==
    serving => store.gen # NoGen /\ store.clusters # {}

\* A reload has been asked for: by a SIGHUP, or by an event of the open watcher.
ReloadRequested == pending["sighup"] > 0 \/ (watching /\ pending["watcher"] > 0)

\* An edit for which a reload has been requested is adopted in the end, unless
\* the file is edited again or the process stops: neither an event nor the one
\* signal the channel holds is lost while another reload is in progress, and a
\* SIGHUP makes good an edit from before the watcher was opened (main.go:460).
RequestedEditAdopted ==
    \A f \in Config :
        (ReloadRequested /\ file = f) ~> (cfg = f \/ file # f \/ ~Running \/ ~Alive)

\* After the last reload the snapshot comes to describe the configured clusters
\* and no others, and stays so while the exporter runs: whatever a retired
\* collector still publishes is overwritten, and it stops publishing.
SnapshotConverges ==
    <>[](pc["main"] = "wait" /\ Alive /\ reloadMu = Nobody
            => store.clusters = ClustersOf[cfg])

\* The server uses its collectors as module Collector specifies.
UsesCollector == CollectorSpec

-----------------------------------------------------------------------------
(* What the repository says and the code does not do.                       *)

\* Prometheus and OTLP "always report the same cycle's numbers" (ADR 0002):
\* with push enabled, every metric name of the snapshot has an instrument.
OTLPCoversSnapshot ==
    Running /\ Alive /\ reloadMu = Nobody /\ otlp = "on" => MetricNames(store) \subseteq instruments

\* "an invalid file never affects the running exporter" (safe_config.go:39): no
\* file takes the collection loop down.
NoFilePanicsLoop == ~Panicked
=============================================================================
