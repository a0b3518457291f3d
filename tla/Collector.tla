------------------------------ MODULE Collector ------------------------------
(***************************************************************************)
(* The collection loop of the exporter (internal/powerscale/collector.go)   *)
(* and the snapshot store it publishes to (snapshot.go).                    *)
(*                                                                          *)
(* Every reload that changes the cluster set makes a new Collector, and the *)
(* old one is cancelled but not waited for, so several collectors can be    *)
(* running at once over ONE store.  A collector is a "generation"; the      *)
(* generations are numbered in the order in which they are created.         *)
(*                                                                          *)
(* One cycle (collectAll) starts a goroutine per cluster under an errgroup, *)
(* waits for all of them and builds the snapshot.  The goroutine of a       *)
(* cluster (collectCluster) is three steps here: the answer that completes  *)
(* the mandatory fetches, after which the cluster will be reported up       *)
(* whatever happens, then its return; or a return with an error.  Module    *)
(* ClusterScrape models the fetches one by one and refines these steps.     *)
(***************************************************************************)
EXTENDS Integers, FiniteSets

CONSTANTS Cluster,    \* the cluster entries a configuration can name
          Gen,        \* the generations (collectors) of one process
          Interval    \* the values collection.interval can take, in any unit

NoGen == 0

ASSUME GenAssumption == Gen \subseteq Nat \ {NoGen}
ASSUME IntervalAssumption == Interval \subseteq Int

VARIABLES pool,       \* pool[g]: the clusters of g's clients
          interval,   \* interval[g]: the period g was created with
          loop,       \* loop[g]: where g's driver stands
          ctxDone,    \* ctxDone[g]: the context of g's loop is cancelled
          gctxDone,   \* gctxDone[g]: the errgroup context of g's cycle is done early
          results,    \* results[g][c]: what c's goroutine has done this cycle
          store       \* the published snapshot

collectorVars == <<pool, interval, loop, ctxDone, gctxDone, results, store>>

LoopState == {"none", "sync", "synced", "select", "cycle", "exited", "panicked"}

\* What a goroutine of the cycle has returned: the cluster up, its own error
\* (API error, parse error or its own deadline), or its context cancelled.
Returned == {"ok", "failed", "cancelled"}
Progress == {"none", "pending", "answered"} \cup Returned

Polling(g) == loop[g] \in {"sync", "cycle"}
Looping(g) == loop[g] \in {"select", "cycle"}
Panicked == \E g \in Gen : loop[g] = "panicked"

-----------------------------------------------------------------------------
(* Snapshots.                                                               *)

\* clusters: the keys of PerCluster; up: those whose entry has Up set, which
\* are the ones that carry samples.  gen is who published it.
Snapshot == [gen : Gen \cup {NoGen}, clusters : SUBSET Cluster, up : SUBSET Cluster]

EmptySnapshot == [gen |-> NoGen, clusters |-> {}, up |-> {}]

\* An entry that is still nil is skipped, so it has no key in PerCluster.
BuildSnapshot(g) ==
    [gen      |-> g,
     clusters |-> {c \in pool[g] : results[g][c] \in Returned},
     up       |-> {c \in pool[g] : results[g][c] = "ok"}]

-----------------------------------------------------------------------------
CollectorInit ==
    /\ pool = [g \in Gen |-> {}]
    /\ interval = [g \in Gen |-> 0]
    /\ loop = [g \in Gen |-> "none"]
    /\ ctxDone = [g \in Gen |-> FALSE]
    /\ gctxDone = [g \in Gen |-> FALSE]
    /\ results = [g \in Gen |-> [c \in Cluster |-> "none"]]
    /\ store = EmptySnapshot

Fresh(g) == /\ loop[g] = "none"
            /\ \A h \in Gen : loop[h] = "none" => g <= h

\* make([]*ClusterSnapshot, n) and one g.Go per client of P.
StartGoroutines(g, P) ==
    results' = [results EXCEPT ![g] = [c \in Cluster |-> IF c \in P THEN "pending" ELSE "none"]]

NewCollector_WrongUnit(g, P, i) ==
    /\ Fresh(g)
    /\ pool' = [pool EXCEPT ![g] = P]
    /\ interval' = [interval EXCEPT ![g] = 1000 * i]
    /\ loop' = [loop EXCEPT ![g] = "sync"]
    /\ StartGoroutines(g, P)
    /\ UNCHANGED <<ctxDone, gctxDone, store>>

\* NewCollector followed by the start of the synchronous CollectOnce.  Its
\* context is the initial one, which nobody can cancel.
NewCollector(g, P, i) ==
    /\ Fresh(g)
    /\ pool' = [pool EXCEPT ![g] = P]
    /\ interval' = [interval EXCEPT ![g] = i]
    /\ loop' = [loop EXCEPT ![g] = "sync"]
    /\ StartGoroutines(g, P)
    /\ UNCHANGED <<ctxDone, gctxDone, store>>

-----------------------------------------------------------------------------
(* The goroutine of one cluster.                                            *)

\* What the function passed to g.Go returns: "return nil", whatever the
\* outcome.  errgroup cancels the group's context on the first error.
ReturnsError_Fails(o) == o # "ok"
ReturnsError(o) == FALSE

GoroutineReturns(g, c, o) ==
    /\ results' = [results EXCEPT ![g][c] = o]
    /\ gctxDone' = [gctxDone EXCEPT ![g] = @ \/ ReturnsError(o)]
    /\ UNCHANGED <<pool, interval, loop, ctxDone, store>>

\* The last mandatory fetch is answered.  With its context done no fetch
\* succeeds, so this needs a live context.
Answered(g, c) ==
    /\ Polling(g)
    /\ results[g][c] = "pending"
    /\ ~gctxDone[g]
    /\ results' = [results EXCEPT ![g][c] = "answered"]
    /\ UNCHANGED <<pool, interval, loop, ctxDone, gctxDone, store>>

\* The best-effort fetches that follow never fail the cluster: cs.Up = true.
CollectClusterUp(g, c) ==
    /\ Polling(g)
    /\ results[g][c] = "answered"
    /\ GoroutineReturns(g, c, "ok")

\* An API or parse error, or the deadline of this cluster alone.
CollectClusterFails(g, c) ==
    /\ Polling(g)
    /\ results[g][c] = "pending"
    /\ GoroutineReturns(g, c, "failed")

\* The fetch in progress fails because the group's context is done.
CollectClusterCancelled(g, c) ==
    /\ Polling(g)
    /\ results[g][c] = "pending"
    /\ gctxDone[g]
    /\ GoroutineReturns(g, c, "cancelled")

-----------------------------------------------------------------------------
(* The driver of a collector.                                               *)

\* g.Wait() has returned.
AllReturned_None(g) == TRUE
AllReturned(g) == \A c \in pool[g] : results[g][c] \in Returned

\* store.Store(BuildSnapshot(results)).  The results and the group's context are
\* local to the cycle that ends here.
StoreSnapshot(g) ==
    /\ AllReturned(g)
    /\ store' = BuildSnapshot(g)
    /\ StartGoroutines(g, {})
    /\ gctxDone' = [gctxDone EXCEPT ![g] = FALSE]
    /\ UNCHANGED <<pool, interval, ctxDone>>

\* The end of CollectOnce: store.Store(collectAll(ctx)).
StoreInitial(g) ==
    /\ loop[g] = "sync"
    /\ loop' = [loop EXCEPT ![g] = "synced"]
    /\ StoreSnapshot(g)

\* go collector.Run(loopCtx): time.NewTicker panics unless its period is
\* positive, and a panic in a goroutine ends the process.
Run(g) ==
    /\ loop[g] = "synced"
    /\ loop' = [loop EXCEPT ![g] = IF interval[g] > 0 THEN "select" ELSE "panicked"]
    /\ UNCHANGED <<pool, interval, ctxDone, gctxDone, results, store>>

Tick_Background(g) ==
    /\ loop[g] = "select"
    /\ loop' = [loop EXCEPT ![g] = "cycle"]
    /\ gctxDone' = [gctxDone EXCEPT ![g] = FALSE]
    /\ StartGoroutines(g, pool[g])
    /\ UNCHANGED <<pool, interval, ctxDone, store>>

\* case <-ticker.C.  Go's select picks any ready case, so a tick can be
\* taken although the context is done as well.
Tick(g) ==
    /\ loop[g] = "select"
    /\ loop' = [loop EXCEPT ![g] = "cycle"]
    /\ gctxDone' = [gctxDone EXCEPT ![g] = ctxDone[g]]
    /\ StartGoroutines(g, pool[g])
    /\ UNCHANGED <<pool, interval, ctxDone, store>>

\* c.store.Store(c.collectAll(ctx)): the context is not looked at again.
Publish(g) ==
    /\ loop[g] = "cycle"
    /\ loop' = [loop EXCEPT ![g] = "select"]
    /\ StoreSnapshot(g)

\* case <-ctx.Done(): return.
Exit_Never(g) == FALSE /\ UNCHANGED collectorVars
Exit(g) ==
    /\ loop[g] = "select"
    /\ ctxDone[g]
    /\ loop' = [loop EXCEPT ![g] = "exited"]
    /\ UNCHANGED <<pool, interval, ctxDone, gctxDone, results, store>>

\* loopCancel(), called by the server: it does not wait for the loop.
Cancel(g) ==
    /\ Looping(g)
    /\ ctxDone' = [ctxDone EXCEPT ![g] = TRUE]
    /\ gctxDone' = [gctxDone EXCEPT ![g] = (loop[g] = "cycle")]
    /\ UNCHANGED <<pool, interval, loop, results, store>>

-----------------------------------------------------------------------------
\* The steps a collector takes by itself.
CollectorStep(g) ==
    \/ \E c \in pool[g] : \/ Answered(g, c)
                          \/ CollectClusterUp(g, c)
                          \/ CollectClusterFails(g, c)
                          \/ CollectClusterCancelled(g, c)
    \/ StoreInitial(g)
    \/ Tick(g)
    \/ Publish(g)
    \/ Exit(g)

\* The collectors in an environment that creates, starts and cancels them at
\* any time; module Server is the environment of the program.
CollectorNext ==
    /\ ~Panicked
    /\ \E g \in Gen :
          \/ \E P \in SUBSET Cluster, i \in Interval : P # {} /\ NewCollector(g, P, i)
          \/ Run(g)
          \/ Cancel(g)
          \/ CollectorStep(g)

CollectorSpec == CollectorInit /\ [][CollectorNext]_collectorVars

\* Every goroutine returns (its context has a deadline, set per cluster), the
\* driver goes on, and a select that finds ctx.Done() ready again and again
\* takes it in the end: Go chooses among ready cases at random.
CollectorFairness ==
    \A g \in Gen :
        /\ \A c \in Cluster :
              WF_collectorVars(/\ ~Panicked /\ c \in pool[g]
                               /\ \/ Answered(g, c) \/ CollectClusterUp(g, c)
                                  \/ CollectClusterFails(g, c)
                                  \/ CollectClusterCancelled(g, c))
        /\ WF_collectorVars(~Panicked /\ (StoreInitial(g) \/ Publish(g)))
        /\ WF_collectorVars(~Panicked /\ Tick(g))
        /\ SF_collectorVars(~Panicked /\ Exit(g))

FairCollectorSpec == CollectorSpec /\ CollectorFairness

-----------------------------------------------------------------------------
(* Properties.                                                              *)

\* The type of the collectors' state and of the store.
CollectorTypeOK ==
    /\ pool \in [Gen -> SUBSET Cluster]
    /\ interval \in [Gen -> Interval \cup {0}]
    /\ loop \in [Gen -> LoopState]
    /\ ctxDone \in [Gen -> BOOLEAN]
    /\ gctxDone \in [Gen -> BOOLEAN]
    /\ results \in [Gen -> [Cluster -> Progress]]
    /\ store \in Snapshot

\* A published snapshot has an entry for every cluster of the collector that
\* published it and for no other: a cluster that could not be collected is
\* reported down, never dropped, and no cycle is published before all its
\* goroutines have written their result.
SnapshotComplete ==
    store.gen # NoGen => /\ store.clusters = pool[store.gen]
                         /\ store.up \subseteq store.clusters

\* One cluster's failure does not affect the others: a cluster is only given
\* up for a done context when the collector's own loop was cancelled, never
\* because a peer of the same cycle failed.
Isolation ==
    \A g \in Gen, c \in Cluster : results[g][c] = "cancelled" => ctxDone[g]

\* Cancelling a loop reaches the requests of the cycle in progress and of every
\* cycle the loop may still start: once the loop is cancelled no further
\* cluster can be answered, so a retired collector only ever loses clusters.
CancelReachesRequests ==
    [][\A g \in Gen :
          ctxDone[g] => {c \in Cluster : results[g][c] \in {"answered", "ok"}}'
                            \subseteq {c \in Cluster : results[g][c] \in {"answered", "ok"}}
      ]_collectorVars

\* A cancelled loop stops: its goroutine does not outlive the cancellation for
\* ever, although every tick may win the select against ctx.Done().
CancelledLoopExits ==
    \A g \in Gen : ctxDone[g] ~> (loop[g] = "exited" \/ Panicked)
=============================================================================
