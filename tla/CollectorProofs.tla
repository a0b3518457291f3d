--------------------------- MODULE CollectorProofs ---------------------------
(***************************************************************************)
(* Proofs about module Collector, for any number of clusters, generations   *)
(* and intervals.                                                           *)
(***************************************************************************)
EXTENDS Collector, TLAPS

USE DEF NoGen

\* A group's context is done early only because its loop was cancelled.
ContextsAgree == \A g \in Gen : gctxDone[g] => ctxDone[g]

\* Who has published has been created, so its client pool no longer changes.
PublisherExists == store.gen # NoGen => loop[store.gen] # "none"

\* The inductive invariant.  SnapshotComplete speaks of the pool of a
\* generation that may have been retired long ago, hence PublisherExists;
\* Isolation speaks of the loop's context where the code tests the group's,
\* hence ContextsAgree.
CollectorInv ==
    /\ CollectorTypeOK
    /\ ContextsAgree
    /\ PublisherExists
    /\ SnapshotComplete
    /\ Isolation

-----------------------------------------------------------------------------
\* The invariant holds of a store with the empty snapshot and no collector.
LEMMA CollectorInitial == CollectorInit => CollectorInv
  BY GenAssumption
  DEF CollectorInit, CollectorInv, CollectorTypeOK, ContextsAgree, PublisherExists,
      SnapshotComplete, Isolation, EmptySnapshot, Snapshot, LoopState, Progress, Returned

\* Starting the goroutines of a cycle keeps the type of results.
LEMMA StartGoroutinesType ==
  ASSUME CollectorTypeOK, NEW g \in Gen, NEW P \in SUBSET Cluster, StartGoroutines(g, P)
  PROVE  /\ results' \in [Gen -> [Cluster -> Progress]]
         /\ \A h \in Gen, c \in Cluster : results'[h][c] = "cancelled" => results[h][c] = "cancelled"
  BY DEF CollectorTypeOK, StartGoroutines, Progress, Returned

\* NewCollector touches a generation that has published nothing.
LEMMA NewCollectorStep ==
  ASSUME CollectorInv, NEW g \in Gen, NEW P \in SUBSET Cluster, NEW i \in Interval,
         NewCollector(g, P, i)
  PROVE  CollectorInv'
<1> USE DEF CollectorInv
<1>1. CollectorTypeOK'
  BY StartGoroutinesType DEF CollectorTypeOK, NewCollector, Fresh, LoopState
<1>2. ContextsAgree' /\ Isolation'
  BY StartGoroutinesType DEF ContextsAgree, Isolation, NewCollector
<1>3. PublisherExists' /\ SnapshotComplete'
  BY DEF PublisherExists, SnapshotComplete, CollectorTypeOK, Snapshot, NewCollector, Fresh
<1> QED
  BY <1>1, <1>2, <1>3

\* A goroutine that returns changes its own result and, as it returns no error,
\* no context.
LEMMA GoroutineStep ==
  ASSUME CollectorInv, NEW g \in Gen, NEW c \in pool[g], NEW o \in Returned,
         o = "cancelled" => gctxDone[g],
         GoroutineReturns(g, c, o)
  PROVE  CollectorInv'
<1> USE DEF CollectorInv
<1>1. c \in Cluster
  BY DEF CollectorTypeOK
<1>2. CollectorTypeOK'
  BY <1>1 DEF CollectorTypeOK, GoroutineReturns, ReturnsError, Progress
<1>3. ContextsAgree'
  BY DEF ContextsAgree, CollectorTypeOK, GoroutineReturns, ReturnsError
<1>4. Isolation'
  BY <1>1 DEF Isolation, ContextsAgree, CollectorTypeOK, GoroutineReturns
<1>5. PublisherExists' /\ SnapshotComplete'
  BY DEF PublisherExists, SnapshotComplete, GoroutineReturns
<1> QED
  BY <1>2, <1>3, <1>4, <1>5

\* A publication waits for all results, so its snapshot has the pool's entries.
LEMMA StoreStep ==
  ASSUME CollectorInv, NEW g \in Gen, StoreSnapshot(g), NEW l \in LoopState,
         l # "none", loop' = [loop EXCEPT ![g] = l]
  PROVE  CollectorInv'
<1> USE DEF CollectorInv
<1>1. results' \in [Gen -> [Cluster -> Progress]]
      /\ \A h \in Gen, c \in Cluster : results'[h][c] = "cancelled" => results[h][c] = "cancelled"
  BY StartGoroutinesType DEF StoreSnapshot
<1>2. store' \in Snapshot /\ store'.gen = g
      /\ store'.clusters = pool[g] /\ store'.up \subseteq store'.clusters
  BY DEF StoreSnapshot, BuildSnapshot, AllReturned, Snapshot, CollectorTypeOK, Returned
<1>3. CollectorTypeOK'
  BY <1>1, <1>2 DEF CollectorTypeOK, StoreSnapshot
<1>4. ContextsAgree' /\ Isolation'
  BY <1>1 DEF ContextsAgree, Isolation, CollectorTypeOK, StoreSnapshot
<1>5. PublisherExists' /\ SnapshotComplete'
  BY <1>2 DEF PublisherExists, SnapshotComplete, StoreSnapshot, CollectorTypeOK
<1> QED
  BY <1>3, <1>4, <1>5

\* Every step of a collector by itself keeps the invariant.
LEMMA CollectorStepInv ==
  ASSUME CollectorInv, NEW g \in Gen, CollectorStep(g)
  PROVE  CollectorInv'
<1> USE DEF CollectorInv
<1>1. ASSUME NEW c \in pool[g], Answered(g, c)
      PROVE  CollectorInv'
  <2>1. c \in Cluster
    BY DEF CollectorTypeOK
  <2>2. CollectorTypeOK'
    BY <1>1, <2>1 DEF CollectorTypeOK, Answered, Progress
  <2>3. ContextsAgree' /\ Isolation'
    BY <1>1, <2>1 DEF ContextsAgree, Isolation, CollectorTypeOK, Answered
  <2>4. PublisherExists' /\ SnapshotComplete'
    BY <1>1 DEF PublisherExists, SnapshotComplete, Answered
  <2> QED
    BY <2>2, <2>3, <2>4
<1>2. ASSUME NEW c \in pool[g], CollectClusterUp(g, c)
      PROVE  CollectorInv'
  BY <1>2, GoroutineStep DEF CollectClusterUp, Returned
<1>3. ASSUME NEW c \in pool[g], CollectClusterFails(g, c)
      PROVE  CollectorInv'
  BY <1>3, GoroutineStep DEF CollectClusterFails, Returned
<1>4. ASSUME NEW c \in pool[g], CollectClusterCancelled(g, c)
      PROVE  CollectorInv'
  BY <1>4, GoroutineStep DEF CollectClusterCancelled, Returned
<1>5. CASE StoreInitial(g)
  BY <1>5, StoreStep DEF StoreInitial, LoopState
<1>6. CASE Publish(g)
  BY <1>6, StoreStep DEF Publish, LoopState
<1>7. CASE Tick(g)
  <2>1. pool[g] \in SUBSET Cluster
    BY DEF CollectorTypeOK
  <2>2. results' \in [Gen -> [Cluster -> Progress]]
        /\ \A h \in Gen, c \in Cluster : results'[h][c] = "cancelled" => results[h][c] = "cancelled"
    BY <1>7, <2>1, StartGoroutinesType DEF Tick
  <2>3. CollectorTypeOK'
    BY <1>7, <2>2 DEF CollectorTypeOK, Tick, LoopState
  <2>4. ContextsAgree' /\ Isolation'
    BY <1>7, <2>2 DEF ContextsAgree, Isolation, CollectorTypeOK, Tick
  <2>5. PublisherExists' /\ SnapshotComplete'
    BY <1>7 DEF PublisherExists, SnapshotComplete, CollectorTypeOK, Snapshot, Tick
  <2> QED
    BY <2>3, <2>4, <2>5
<1>8. CASE Exit(g)
  <2>1. CollectorTypeOK'
    BY <1>8 DEF CollectorTypeOK, Exit, LoopState
  <2>2. ContextsAgree' /\ Isolation' /\ PublisherExists' /\ SnapshotComplete'
    BY <1>8 DEF ContextsAgree, Isolation, PublisherExists, SnapshotComplete,
                CollectorTypeOK, Snapshot, Exit
  <2> QED
    BY <2>1, <2>2
<1> QED
  BY <1>1, <1>2, <1>3, <1>4, <1>5, <1>6, <1>7, <1>8 DEF CollectorStep

\* The start of a loop and its cancellation keep the invariant.
LEMMA RunStep ==
  ASSUME CollectorInv, NEW g \in Gen, Run(g)
  PROVE  CollectorInv'
<1> USE DEF CollectorInv
<1>1. CollectorTypeOK'
  BY DEF CollectorTypeOK, Run, LoopState
<1>2. ContextsAgree' /\ Isolation' /\ PublisherExists' /\ SnapshotComplete'
  BY DEF ContextsAgree, Isolation, PublisherExists, SnapshotComplete, CollectorTypeOK, Snapshot, Run
<1> QED
  BY <1>1, <1>2

LEMMA CancelStep ==
  ASSUME CollectorInv, NEW g \in Gen, Cancel(g)
  PROVE  CollectorInv'
<1> USE DEF CollectorInv
<1>1. CollectorTypeOK'
  BY DEF CollectorTypeOK, Cancel
<1>2. ContextsAgree' /\ Isolation'
  BY DEF ContextsAgree, Isolation, CollectorTypeOK, Cancel
<1>3. PublisherExists' /\ SnapshotComplete'
  BY DEF PublisherExists, SnapshotComplete, Cancel
<1> QED
  BY <1>1, <1>2, <1>3

\* The invariant is inductive.
LEMMA CollectorInductive ==
  ASSUME CollectorInv, [CollectorNext]_collectorVars
  PROVE  CollectorInv'
<1>1. CASE UNCHANGED collectorVars
  BY <1>1 DEF collectorVars, CollectorInv, CollectorTypeOK, ContextsAgree, PublisherExists,
              SnapshotComplete, Isolation
<1>2. CASE CollectorNext
  <2>1. PICK g \in Gen : \/ \E P \in SUBSET Cluster, i \in Interval : P # {} /\ NewCollector(g, P, i)
                         \/ Run(g) \/ Cancel(g) \/ CollectorStep(g)
    BY <1>2 DEF CollectorNext
  <2> QED
    BY <2>1, NewCollectorStep, RunStep, CancelStep, CollectorStepInv
<1> QED
  BY <1>1, <1>2

-----------------------------------------------------------------------------
\* What every reachable state of the collectors satisfies.
LEMMA CollectorSafe == CollectorSpec => []CollectorInv
<1>1. CollectorInv /\ [CollectorNext]_collectorVars => CollectorInv'
  BY CollectorInductive
<1> QED
  BY <1>1, CollectorInitial, PTL DEF CollectorSpec

\* Every behaviour of the collectors keeps the types of their state.
THEOREM CollectorTypeCorrect == CollectorSpec => []CollectorTypeOK
<1>1. CollectorInv => CollectorTypeOK
  BY DEF CollectorInv
<1> QED
  BY <1>1, CollectorSafe, PTL

\* However many collectors share the store and whenever they are cancelled, a
\* published snapshot has exactly the clusters of its collector: no cycle is
\* published before g.Wait (collector.go:76), and a cluster that failed is
\* reported down rather than dropped.
THEOREM SnapshotsWhole == CollectorSpec => []SnapshotComplete
<1>1. CollectorInv => SnapshotComplete
  BY DEF CollectorInv
<1> QED
  BY <1>1, CollectorSafe, PTL

\* No cluster is given up because a peer of its cycle failed (graceful
\* degradation, collector.go:17): the errgroup's context is done early only
\* through the loop's own cancellation.
THEOREM FailuresIsolated == CollectorSpec => []Isolation
<1>1. CollectorInv => Isolation
  BY DEF CollectorInv
<1> QED
  BY <1>1, CollectorSafe, PTL

\* A cancelled loop has been started, and its cancellation is that of the group
\* of every cycle it is in.
Retired ==
    \A g \in Gen : ctxDone[g] => /\ loop[g] \in {"select", "cycle", "exited"}
                                 /\ loop[g] = "cycle" => gctxDone[g]

\* Retired holds at first and is kept by every step.
LEMMA RetiredInitial == CollectorInit => Retired
  BY DEF CollectorInit, Retired

LEMMA RetiredInductive ==
  ASSUME CollectorTypeOK, Retired, [CollectorNext]_collectorVars
  PROVE  Retired'
<1>1. CASE UNCHANGED collectorVars
  BY <1>1 DEF collectorVars, Retired
<1>2. ASSUME NEW g \in Gen, NEW P \in SUBSET Cluster, NEW i \in Interval, NewCollector(g, P, i)
      PROVE  Retired'
  BY <1>2 DEF Retired, CollectorTypeOK, NewCollector, Fresh
<1>3. ASSUME NEW g \in Gen, Run(g) \/ Cancel(g) \/ Tick(g) \/ Exit(g)
      PROVE  Retired'
  BY <1>3 DEF Retired, CollectorTypeOK, Run, Cancel, Tick, Exit, Looping
<1>4. ASSUME NEW g \in Gen, StoreInitial(g) \/ Publish(g)
      PROVE  Retired'
  BY <1>4 DEF Retired, CollectorTypeOK, StoreInitial, Publish, StoreSnapshot
<1>5. ASSUME NEW g \in Gen, NEW c \in pool[g],
             \/ Answered(g, c) \/ CollectClusterUp(g, c)
             \/ CollectClusterFails(g, c) \/ CollectClusterCancelled(g, c)
      PROVE  Retired'
  BY <1>5 DEF Retired, CollectorTypeOK, Answered, CollectClusterUp, CollectClusterFails,
              CollectClusterCancelled, GoroutineReturns, ReturnsError
<1>6. CASE CollectorNext
  BY <1>6, <1>2, <1>3, <1>4, <1>5 DEF CollectorNext, CollectorStep
<1> QED
  BY <1>1, <1>6

\* What has been answered in a generation that is cancelled.
LEMMA CancelledLoses ==
  ASSUME CollectorTypeOK, Retired, [CollectorNext]_collectorVars,
         NEW h \in Gen, ctxDone[h], NEW d \in Cluster,
         results'[h][d] \in {"answered", "ok"}
  PROVE  results[h][d] \in {"answered", "ok"}
<1>1. CASE UNCHANGED collectorVars
  BY <1>1 DEF collectorVars
<1>2. ASSUME NEW g \in Gen, NEW P \in SUBSET Cluster, StartGoroutines(g, P)
      PROVE  results[h][d] \in {"answered", "ok"}
  BY <1>2 DEF StartGoroutines, CollectorTypeOK
<1>3. ASSUME NEW g \in Gen, Run(g) \/ Cancel(g) \/ Exit(g)
      PROVE  results[h][d] \in {"answered", "ok"}
  BY <1>3 DEF Run, Cancel, Exit
<1>4. ASSUME NEW g \in Gen, NEW c \in pool[g], Answered(g, c)
      PROVE  results[h][d] \in {"answered", "ok"}
  <2>1. g # h
    BY <1>4 DEF Answered, Polling, Retired
  <2> QED
    BY <1>4, <2>1 DEF Answered, CollectorTypeOK
<1>5. ASSUME NEW g \in Gen, NEW c \in pool[g],
             \/ CollectClusterUp(g, c) \/ CollectClusterFails(g, c)
             \/ CollectClusterCancelled(g, c)
      PROVE  results[h][d] \in {"answered", "ok"}
  BY <1>5 DEF CollectClusterUp, CollectClusterFails, CollectClusterCancelled,
              GoroutineReturns, CollectorTypeOK
<1>6. ASSUME NEW g \in Gen, StoreInitial(g) \/ Publish(g) \/ Tick(g)
      PROVE  results[h][d] \in {"answered", "ok"}
  BY <1>6, <1>2 DEF StoreInitial, Publish, Tick, StoreSnapshot, CollectorTypeOK
<1>7. CASE CollectorNext
  BY <1>7, <1>2, <1>3, <1>4, <1>5, <1>6 DEF CollectorNext, CollectorStep, NewCollector
<1> QED
  BY <1>1, <1>7

\* Once a loop is cancelled no request of it is answered any more, in the cycle
\* in progress or in one that a tick still starts: the cancellation of
\* stopCollection (main.go:291) reaches the requests of every cycle.
THEOREM CancellationReaches == CollectorSpec => CancelReachesRequests
<1>1. CollectorInit => Retired
  BY RetiredInitial
<1>2. CollectorTypeOK /\ Retired /\ [CollectorNext]_collectorVars => Retired'
  BY RetiredInductive
<1>3. CollectorTypeOK /\ Retired /\ [CollectorNext]_collectorVars
        => [\A g \in Gen :
              ctxDone[g] => {c \in Cluster : results[g][c] \in {"answered", "ok"}}'
                                \subseteq {c \in Cluster : results[g][c] \in {"answered", "ok"}}
           ]_collectorVars
  BY CancelledLoses
<1> QED
  BY <1>1, <1>2, <1>3, CollectorTypeCorrect, PTL DEF CollectorSpec, CancelReachesRequests

-----------------------------------------------------------------------------
(* What a reader of the store can rely on.                                  *)

\* A collector is made over at least one client.
PoolsInhabited == \A g \in Gen : loop[g] # "none" => pool[g] # {}

\* A collector that is past its synchronous first cycle has published it, and
\* no step takes the store's snapshot away again.
PublishesFirst ==
    \A g \in Gen : loop[g] \notin {"none", "sync"} => store.gen # NoGen

\* No step of the collectors empties the store again.
LEMMA StoreKept ==
  ASSUME CollectorTypeOK, [CollectorNext]_collectorVars, store.gen # NoGen
  PROVE  store'.gen # NoGen
<1>1. ASSUME NEW g \in Gen, StoreSnapshot(g)
      PROVE  store'.gen # NoGen
  BY <1>1, GenAssumption DEF StoreSnapshot, BuildSnapshot
<1>2. ASSUME NEW g \in Gen, CollectorStep(g)
      PROVE  store'.gen # NoGen
  BY <1>1, <1>2 DEF CollectorStep, Answered, CollectClusterUp, CollectClusterFails,
                    CollectClusterCancelled, GoroutineReturns, StoreInitial, Publish, Tick, Exit
<1> QED
  BY <1>2 DEF CollectorNext, NewCollector, Run, Cancel, collectorVars

\* Both hold at first and are kept by every step.
LEMMA StoreInitially == CollectorInit => PoolsInhabited /\ PublishesFirst
  BY DEF CollectorInit, PoolsInhabited, PublishesFirst

LEMMA StoreInductive ==
  ASSUME CollectorTypeOK, PoolsInhabited, PublishesFirst, [CollectorNext]_collectorVars
  PROVE  PoolsInhabited' /\ PublishesFirst'
<1> USE DEF PoolsInhabited, PublishesFirst
<1>1. CASE UNCHANGED collectorVars
  BY <1>1 DEF collectorVars
<1>2. ASSUME NEW g \in Gen, NEW P \in SUBSET Cluster, NEW i \in Interval, P # {},
             NewCollector(g, P, i)
      PROVE  PoolsInhabited' /\ PublishesFirst'
  BY <1>2 DEF CollectorTypeOK, NewCollector, Fresh
<1>3. ASSUME NEW g \in Gen, Run(g) \/ Cancel(g) \/ Tick(g) \/ Exit(g)
      PROVE  PoolsInhabited' /\ PublishesFirst'
  BY <1>3 DEF CollectorTypeOK, Run, Cancel, Tick, Exit
<1>4. ASSUME NEW g \in Gen, StoreInitial(g) \/ Publish(g)
      PROVE  PoolsInhabited' /\ PublishesFirst'
  <2>1. store'.gen # NoGen
    BY <1>4, GenAssumption DEF StoreInitial, Publish, StoreSnapshot, BuildSnapshot
  <2> QED
    BY <1>4, <2>1 DEF CollectorTypeOK, StoreInitial, Publish, StoreSnapshot
<1>5. ASSUME NEW g \in Gen, NEW c \in pool[g],
             \/ Answered(g, c) \/ CollectClusterUp(g, c)
             \/ CollectClusterFails(g, c) \/ CollectClusterCancelled(g, c)
      PROVE  PoolsInhabited' /\ PublishesFirst'
  BY <1>5 DEF Answered, CollectClusterUp, CollectClusterFails, CollectClusterCancelled,
              GoroutineReturns
<1>6. CASE CollectorNext
  BY <1>6, <1>2, <1>3, <1>4, <1>5 DEF CollectorNext, CollectorStep
<1> QED
  BY <1>1, <1>6
=============================================================================
