---------------------------- MODULE ServerProofs -----------------------------
(***************************************************************************)
(* Proofs about module Server, for any configurations, clusters, metrics    *)
(* and numbers of edits and generations.                                    *)
(***************************************************************************)
EXTENDS Server, CollectorProofs

USE ConfigAssumption, GenAssumption, IntervalAssumption

-----------------------------------------------------------------------------
(* The inductive invariant.                                                 *)

\* A reloader between its reloadMu.Lock() and its deferred Unlock().
InReload(r) == pc[r] \in {"read", "swap", "stop", "cancel", "build", "sync", "fields", "otlp"}

\* A reloader from the decision to rebuild to the publication of the new pool.
Rebuilding(r) == pc[r] \in {"stop", "cancel", "build", "sync", "fields"}

\* Mutual exclusion: who is inside ReloadConfig holds reloadMu.
ReloadLocked == \A r \in Reloader : InReload(r) <=> reloadMu = r

\* While main is in Start, and with --once at all times, there is no reload.
StartAlone ==
    /\ once \/ pc["main"] \in StartLabel \ {"watch"}
         => \A r \in Reloader : pc[r] = "idle" /\ pending[r] = 0
    /\ once \/ pc["main"] \in StartLabel => ~watching
    /\ pc["main"] \in {"handlers", "watch", "wait"} => ~once

\* stopCollection's local variable is set from the take to the cancellation.
HeldInStop == \A p \in Proc : pc[p] # "cancel" => held[p] = NoGen

\* What a reloader is about to make the configuration is a valid one.
ReadValid == \A r \in Reloader : pc[r] = "swap" => seen[r] \in Config

\* startCollection's local variable is set while its collector is not yet
\* published, and that collector is over the current configuration.
BuildingInStart ==
    \A p \in Proc :
        /\ building[p] # NoGen <=> pc[p] \in {"sync", "fields"}
        /\ building[p] # NoGen => /\ loop[building[p]] # "none"
                                  /\ pool[building[p]] = ClustersOf[cfg]

\* Nobody is in startCollection while the field collectCancel is in use, so
\* publishing a new cancel function overwrites none.
SlotFree ==
    /\ pc["main"] \in {"build", "sync", "fields"} => cancelFn = NoGen
    /\ \A r \in Reloader : pc[r] \in {"cancel", "build", "sync", "fields"} => cancelFn = NoGen

\* Unless a reloader is rebuilding, the pool is that of the configuration.
PoolCurrent ==
    /\ pc["main"] \in {"otlp", "listen", "handlers", "watch", "wait"}
    /\ \A r \in Reloader : ~Rebuilding(r)
    => /\ current # NoGen
       /\ loop[current] # "none"
       /\ pool[current] = ClustersOf[cfg]

\* After a kill in the middle of Start the rest says nothing any more.
Coordinated ==
    pc["main"] # "killed" =>
        ReloadLocked /\ StartAlone /\ HeldInStop /\ ReadValid
        /\ BuildingInStart /\ SlotFree /\ PoolCurrent

\* What the steps of the server have to keep; the collectors' own invariant is
\* kept because each step is a step of module Collector.
ServerCore == ServerTypeOK /\ NoLeakedLoop /\ Coordinated

ServerInv == CollectorInv /\ ServerCore

-----------------------------------------------------------------------------
(* Each step of the server is a step of the collectors or leaves them alone. *)

\* A configuration is one that a collector can be created with.
LEMMA ConfigUsable ==
  ASSUME NEW f \in Config
  PROVE  /\ ClustersOf[f] \in SUBSET Cluster
         /\ ClustersOf[f] # {}
         /\ IntervalOf[f] \in Interval
  BY ConfigAssumption

\* The shared bodies stopCollection and startCollection.
LEMMA SharedStepRefines ==
  ASSUME ServerInv, Alive, NEW p \in Proc, SharedStep(p)
  PROVE  [CollectorNext]_collectorVars
<1> USE DEF ServerInv, ServerCore
<1>1. CASE StopTakes(p) \/ StartFields(p)
  BY <1>1 DEF StopTakes, StartFields, collectorVars
<1>2. CASE StopCancels(p)
  <2>1. held[p] \in Gen \cup {NoGen}
    BY DEF ServerTypeOK
  <2> QED
    BY <1>2, <2>1 DEF StopCancels, CollectorNext, Alive, collectorVars
<1>3. CASE StartBuilds(p)
  <2>1. PICK g \in Gen : NewCollector(g, ClustersOf[cfg], IntervalOf[cfg])
    BY <1>3 DEF StartBuilds
  <2>2. cfg \in Config
    BY DEF ServerTypeOK
  <2> QED
    BY <2>1, <2>2, ConfigUsable DEF CollectorNext, Alive
<1>4. CASE StartLoop(p)
  <2>1. building[p] \in Gen
    BY <1>4 DEF StartLoop, ServerTypeOK, Coordinated, BuildingInStart, Alive
  <2> QED
    BY <1>4, <2>1 DEF StartLoop, CollectorNext, Alive
<1> QED
  BY <1>1, <1>2, <1>3, <1>4 DEF SharedStep

\* Every step of the server.
LEMMA StepRefines ==
  ASSUME ServerInv, [Next]_vars
  PROVE  [CollectorNext]_collectorVars
<1>1. CASE UNCHANGED vars \/ Gone
  BY <1>1 DEF vars, Gone
<1>2. CASE Alive /\ Environment
  BY <1>2 DEF Environment, WriteFile, Sighup, EarlySignal, collectorVars
<1>3. CASE Alive /\ Collects
  BY <1>3 DEF Collects, CollectorNext, Alive
<1>4. CASE Alive /\ MainStep
  <2>1. CASE SharedStep("main")
    BY <1>4, <2>1, SharedStepRefines DEF Proc
  <2> QED
    BY <1>4, <2>1 DEF MainStep, StartFieldsOnce, InitOTLP, Listen, InstallSighup,
                      WatchConfigFile, StopRequested, ShutdownOTLP, collectorVars
<1>5. ASSUME NEW r \in Reloader, Alive, ReloadStep(r)
      PROVE  [CollectorNext]_collectorVars
  <2>1. CASE SharedStep(r)
    BY <1>5, <2>1, SharedStepRefines DEF Proc
  <2> QED
    BY <1>5, <2>1 DEF ReloadStep, Receive, ReloadLocks, ReloadReads, ReloadSwaps,
                      ReloadRegisters, collectorVars
<1> QED
  BY <1>1, <1>2, <1>3, <1>4, <1>5 DEF Next

-----------------------------------------------------------------------------
(* The steps keep ServerCore.                                               *)

\* What a collector's own step leaves alone.
LEMMA CollectorStepFrame ==
  ASSUME CollectorTypeOK, NEW g \in Gen, CollectorStep(g)
  PROVE  /\ pool' = pool /\ ctxDone' = ctxDone
         /\ \A h \in Gen : /\ loop'[h] = "none" <=> loop[h] = "none"
                           /\ loop'[h] \in {"select", "cycle"} => loop[h] \in {"select", "cycle"}
<1>1. ASSUME NEW c \in pool[g],
             \/ Answered(g, c) \/ CollectClusterUp(g, c)
             \/ CollectClusterFails(g, c) \/ CollectClusterCancelled(g, c)
      PROVE  pool' = pool /\ ctxDone' = ctxDone /\ loop' = loop
  BY <1>1 DEF Answered, CollectClusterUp, CollectClusterFails, CollectClusterCancelled,
              GoroutineReturns
<1>2. CASE StoreInitial(g) \/ Publish(g)
  BY <1>2 DEF CollectorTypeOK, StoreInitial, Publish, StoreSnapshot
<1>3. CASE Tick(g) \/ Exit(g)
  BY <1>3 DEF CollectorTypeOK, Tick, Exit
<1> QED
  BY <1>1, <1>2, <1>3 DEF CollectorStep

LEMMA CollectsCore ==
  ASSUME ServerInv, Alive, Collects
  PROVE  ServerCore'
<1> USE DEF ServerInv, ServerCore, CollectorInv
<1>1. PICK g \in Gen : CollectorStep(g) /\ UNCHANGED serverVars
  BY DEF Collects
<1>2. /\ pool' = pool /\ ctxDone' = ctxDone
      /\ \A h \in Gen : /\ loop'[h] = "none" <=> loop[h] = "none"
                        /\ loop'[h] \in {"select", "cycle"} => loop[h] \in {"select", "cycle"}
  BY <1>1, CollectorStepFrame
<1>3. ServerTypeOK'
  BY <1>1 DEF ServerTypeOK, serverVars, fileVars, reloadVars, poolVars, exportVars
<1>4. NoLeakedLoop'
  BY <1>1, <1>2 DEF NoLeakedLoop, Looping, serverVars, poolVars
<1>5. Coordinated'
  <2> USE <1>1, <1>2 DEF serverVars, fileVars, reloadVars, poolVars, Coordinated
  <2>1. pc["main"] # "killed" => ReloadLocked' /\ StartAlone' /\ HeldInStop' /\ ReadValid' /\ SlotFree'
    BY DEF ReloadLocked, InReload, StartAlone, HeldInStop, ReadValid, SlotFree
  <2>2. pc["main"] # "killed" => BuildingInStart'
    <3>1. \A p \in Proc : building[p] \in Gen \cup {NoGen}
      BY DEF ServerTypeOK
    <3>2. building' = building /\ pc' = pc /\ cfg' = cfg
      OBVIOUS
    <3>3. \A p \in Proc : building[p] # NoGen =>
              /\ loop'[building[p]] = "none" <=> loop[building[p]] = "none"
              /\ pool'[building[p]] = pool[building[p]]
      BY <3>1, <1>2
    <3> HIDE <1>1, <1>2
    <3> QED
      BY <3>2, <3>3 DEF BuildingInStart
  <2>3. pc["main"] # "killed" => PoolCurrent'
    BY DEF PoolCurrent, Rebuilding, ServerTypeOK
  <2> QED
    BY <2>1, <2>2, <2>3
<1> QED
  BY <1>3, <1>4, <1>5

LEMMA EnvironmentCore ==
  ASSUME ServerInv, Alive, Environment
  PROVE  ServerCore'
<1> USE DEF ServerInv, ServerCore, Goto, Proc, Reloader, Nobody
<1>1. ServerTypeOK'
  BY DEF ServerTypeOK, Environment, WriteFile, Sighup, EarlySignal, MainLabel,
         reloadVars, fileVars, poolVars, exportVars
<1>2. NoLeakedLoop'
  BY DEF NoLeakedLoop, Looping, Environment, WriteFile, Sighup, EarlySignal,
         collectorVars, poolVars
<1>3. ASSUME EarlySignal
      PROVE  Coordinated'
  BY <1>3 DEF EarlySignal, Coordinated, ServerTypeOK
<1>4. ASSUME NEW f \in Config \cup {Bad}, WriteFile(f)
      PROVE  Coordinated'
  BY <1>4 DEF WriteFile, Coordinated, ReloadLocked, InReload, StartAlone, HeldInStop, ReadValid,
     BuildingInStart, SlotFree, PoolCurrent, Rebuilding, collectorVars, poolVars
<1>5. ASSUME Sighup
      PROVE  Coordinated'
  BY <1>5 DEF Sighup, HandlesSighup, StartLabel, Coordinated, ReloadLocked, InReload, StartAlone,
     HeldInStop, ReadValid, BuildingInStart, SlotFree, PoolCurrent, Rebuilding, collectorVars, poolVars
<1> QED
  BY <1>1, <1>2, <1>3, <1>4, <1>5 DEF Environment

LEMMA StopTakesCore ==
  ASSUME ServerInv, Alive, NEW p \in Proc, StopTakes(p)
  PROVE  ServerCore'
<1> USE DEF ServerInv, ServerCore, StopTakes, Goto, Proc, Reloader, Nobody
<1>1. ServerTypeOK'
  BY DEF ServerTypeOK, MainLabel, reloadVars, fileVars, exportVars
<1>2. held[p] = NoGen
  BY DEF Coordinated, HeldInStop, ReadValid, Alive
<1>3. NoLeakedLoop'
  BY <1>2 DEF NoLeakedLoop, Looping, ServerTypeOK, collectorVars
<1>4. Coordinated'
  BY DEF Alive, ServerTypeOK, Coordinated, ReloadLocked, InReload, StartAlone, StartLabel, HeldInStop, ReadValid,
     BuildingInStart, SlotFree, PoolCurrent, Rebuilding, collectorVars, reloadVars
<1> QED
  BY <1>1, <1>3, <1>4

LEMMA StopCancelsCore ==
  ASSUME ServerInv, Alive, NEW p \in Proc, StopCancels(p)
  PROVE  ServerCore'
<1> USE DEF ServerInv, ServerCore, CollectorInv, StopCancels, AfterStop, Goto, Proc, Reloader, Nobody
<1>1. ServerTypeOK'
  BY DEF ServerTypeOK, MainLabel, StartLabel, ReloadLabel, reloadVars, fileVars, exportVars
<1>2. /\ pool' = pool /\ loop' = loop
      /\ \A g \in Gen : ctxDone'[g] <=> ctxDone[g] \/ g = held[p]
  BY DEF Cancel, CollectorTypeOK, collectorVars, ServerTypeOK
<1>3. NoLeakedLoop'
  BY <1>2 DEF NoLeakedLoop, Looping, ServerTypeOK
<1>4. Coordinated'
  BY <1>2 DEF Alive, ServerTypeOK, Coordinated, ReloadLocked, InReload, StartAlone, StartLabel,
     HeldInStop, ReadValid, BuildingInStart, SlotFree, PoolCurrent, Rebuilding, reloadVars
<1> QED
  BY <1>1, <1>3, <1>4

LEMMA StartBuildsCore ==
  ASSUME ServerInv, Alive, NEW p \in Proc, StartBuilds(p)
  PROVE  ServerCore'
<1> USE DEF ServerInv, ServerCore, CollectorInv, Goto, Proc, Reloader, Nobody
<1>1. PICK g \in Gen : /\ NewCollector(g, ClustersOf[cfg], IntervalOf[cfg])
                       /\ building' = [building EXCEPT ![p] = g]
  BY DEF StartBuilds
<1>2. /\ loop[g] = "none" /\ ctxDone' = ctxDone
      /\ pool'[g] = ClustersOf[cfg] /\ loop'[g] = "sync"
      /\ \A h \in Gen : h # g => pool'[h] = pool[h] /\ loop'[h] = loop[h]
  BY <1>1 DEF NewCollector, Fresh, CollectorTypeOK
<1>3. /\ pc[p] = "build" /\ pc' = [pc EXCEPT ![p] = "sync"]
      /\ UNCHANGED <<once, fileVars, cfg, reloadVars, current, cancelFn, held, exportVars, serving>>
  BY DEF StartBuilds
<1>4. ServerTypeOK'
  BY <1>1, <1>3 DEF ServerTypeOK, MainLabel, StartLabel, reloadVars, fileVars, exportVars
<1>5. g # NoGen
  BY GenAssumption
<1>6. building[p] = NoGen
  BY <1>3 DEF Coordinated, BuildingInStart, Alive
<1>7. NoLeakedLoop'
  BY <1>1, <1>2, <1>3, <1>6 DEF NoLeakedLoop, Looping, ServerTypeOK
<1>8. Coordinated'
  <2> USE <1>3 DEF Coordinated, Alive, reloadVars
  <2>1. ReloadLocked' /\ StartAlone' /\ HeldInStop' /\ ReadValid' /\ SlotFree'
    BY DEF ReloadLocked, InReload, StartAlone, HeldInStop, ReadValid, SlotFree, ServerTypeOK, StartLabel
  <2>2. BuildingInStart'
    <3>1. \A q \in Proc : building[q] \in Gen \cup {NoGen}
      BY DEF ServerTypeOK
    <3>2. building'[p] = g /\ pc'[p] = "sync" /\ cfg' = cfg
          /\ \A q \in Proc : q # p => building'[q] = building[q] /\ pc'[q] = pc[q]
      BY <1>1 DEF ServerTypeOK
    <3> QED
      BY <3>1, <3>2, <1>2, <1>5 DEF BuildingInStart
  <2>3. PoolCurrent'
    BY <1>2 DEF PoolCurrent, Rebuilding, ServerTypeOK
  <2> QED
    BY <2>1, <2>2, <2>3
<1> QED
  BY <1>4, <1>7, <1>8

LEMMA StartLoopCore ==
  ASSUME ServerInv, Alive, NEW p \in Proc, StartLoop(p)
  PROVE  ServerCore'
<1> USE DEF ServerInv, ServerCore, CollectorInv, Goto, Proc, Reloader, Nobody
<1>1. /\ pc[p] = "sync" /\ pc' = [pc EXCEPT ![p] = "fields"]
      /\ UNCHANGED <<once, fileVars, cfg, reloadVars, poolVars, exportVars, serving>>
  BY DEF StartLoop
<1>2. building[p] \in Gen
  BY <1>1 DEF Coordinated, BuildingInStart, ServerTypeOK, Alive
<1>3. /\ pool' = pool /\ ctxDone' = ctxDone
      /\ loop[building[p]] = "synced" /\ loop'[building[p]] # "none"
      /\ \A h \in Gen : h # building[p] => loop'[h] = loop[h]
  BY <1>2 DEF StartLoop, Run, CollectorTypeOK
<1>4. ServerTypeOK'
  BY <1>1 DEF ServerTypeOK, MainLabel, StartLabel, reloadVars, fileVars, poolVars, exportVars
<1>5. NoLeakedLoop'
  BY <1>1, <1>3 DEF NoLeakedLoop, Looping, poolVars
<1>6. Coordinated'
  <2> USE <1>1 DEF Coordinated, Alive, reloadVars, poolVars
  <2>1. ReloadLocked' /\ StartAlone' /\ HeldInStop' /\ ReadValid' /\ SlotFree'
    BY DEF ReloadLocked, InReload, StartAlone, HeldInStop, ReadValid, SlotFree, ServerTypeOK, StartLabel
  <2>2. BuildingInStart'
    <3>1. \A q \in Proc : building[q] \in Gen \cup {NoGen}
      BY DEF ServerTypeOK
    <3>2. building' = building /\ pc'[p] = "fields" /\ cfg' = cfg
          /\ \A q \in Proc : q # p => pc'[q] = pc[q]
      BY DEF ServerTypeOK
    <3> QED
      BY <3>1, <3>2, <1>1, <1>3 DEF BuildingInStart
  <2>3. PoolCurrent'
    BY <1>3 DEF PoolCurrent, Rebuilding, ServerTypeOK
  <2> QED
    BY <2>1, <2>2, <2>3
<1> QED
  BY <1>4, <1>5, <1>6

LEMMA StartFieldsCore ==
  ASSUME ServerInv, Alive, NEW p \in Proc, StartFields(p)
  PROVE  ServerCore'
<1> USE DEF ServerInv, ServerCore, StartFields, Goto, Proc, Reloader, Nobody
<1>1. building[p] \in Gen /\ building[p] # NoGen
  BY DEF Coordinated, BuildingInStart, ServerTypeOK, Alive
<1>2. cancelFn = NoGen
  BY DEF Coordinated, SlotFree, Alive
<1>3. ServerTypeOK'
  BY <1>1 DEF ServerTypeOK, MainLabel, StartLabel, reloadVars, fileVars, exportVars
<1>4. NoLeakedLoop'
  BY <1>2, GenAssumption DEF NoLeakedLoop, Looping, ServerTypeOK, collectorVars
<1>5. Coordinated'
  <2> USE DEF Coordinated, Alive, reloadVars, collectorVars
  <2>1. ReloadLocked' /\ StartAlone' /\ HeldInStop' /\ ReadValid'
    BY DEF ReloadLocked, InReload, StartAlone, HeldInStop, ReadValid, ServerTypeOK, StartLabel
  <2>2. BuildingInStart'
    BY DEF BuildingInStart, ServerTypeOK
  <2>3. SlotFree'
    BY DEF SlotFree, ServerTypeOK, ReloadLocked, InReload, StartAlone, StartLabel
  <2>4. PoolCurrent'
    BY <1>1 DEF PoolCurrent, BuildingInStart, Rebuilding, ServerTypeOK
  <2> QED
    BY <2>1, <2>2, <2>3, <2>4
<1> QED
  BY <1>3, <1>4, <1>5

LEMMA StartFieldsOnceCore ==
  ASSUME ServerInv, Alive, StartFieldsOnce
  PROVE  ServerCore'
<1> USE DEF ServerInv, ServerCore, StartFieldsOnce, Goto, Proc, Reloader, Nobody
<1>1. building["main"] \in Gen /\ building["main"] # NoGen
  BY DEF Coordinated, BuildingInStart, ServerTypeOK, Alive
<1>2. ServerTypeOK'
  BY <1>1 DEF ServerTypeOK, MainLabel, StartLabel, reloadVars, fileVars, exportVars
<1>3. NoLeakedLoop'
  BY <1>1 DEF NoLeakedLoop, Looping, ServerTypeOK, collectorVars
<1>4. Coordinated'
  <2> USE DEF Coordinated, Alive, reloadVars, collectorVars
  <2>1. ReloadLocked' /\ StartAlone' /\ HeldInStop' /\ ReadValid' /\ SlotFree'
    BY DEF ReloadLocked, InReload, StartAlone, HeldInStop, ReadValid, SlotFree, ServerTypeOK, StartLabel
  <2>2. BuildingInStart'
    BY DEF BuildingInStart, ServerTypeOK
  <2>3. PoolCurrent'
    BY <1>1 DEF PoolCurrent, BuildingInStart, Rebuilding, ServerTypeOK
  <2> QED
    BY <2>1, <2>2, <2>3
<1> QED
  BY <1>2, <1>3, <1>4

\* The steps of main outside stopCollection and startCollection.
LEMMA MainCore ==
  ASSUME ServerInv, Alive,
         InitOTLP \/ Listen \/ InstallSighup \/ WatchConfigFile \/ StopRequested \/ ShutdownOTLP
  PROVE  ServerCore'
<1> USE DEF ServerInv, ServerCore, Goto, Proc, Reloader, Nobody
<1>1. /\ UNCHANGED <<collectorVars, once, fileVars, cfg, seen, reloadMu, pending, poolVars>>
      /\ \A r \in Reloader : pc'[r] = pc[r]
  BY DEF InitOTLP, Listen, InstallSighup, WatchConfigFile, StopRequested, ShutdownOTLP,
         reloadVars, ServerTypeOK
<1>2. /\ pc["main"] \in {"otlp", "listen", "handlers", "watch", "wait", "sdOtlp"}
      /\ \/ pc'["main"] \in {"listen", "handlers", "watch", "wait"}
            /\ pc["main"] \in {"otlp", "listen", "handlers", "watch"}
         \/ pc'["main"] \in {"stop", "exited"}
      /\ pc'["main"] \in {"listen", "handlers"} => pc["main"] \in {"otlp", "listen"}
      /\ pc'["main"] \in {"handlers", "watch", "wait"} => ~once
      /\ once \/ pc'["main"] \in StartLabel => ~watching'
  BY DEF InitOTLP, Listen, InstallSighup, WatchConfigFile, StopRequested, ShutdownOTLP,
         reloadVars, ServerTypeOK, StartLabel, Coordinated, StartAlone, Alive
<1>3. ServerTypeOK'
  <2>1. MetricNames(store) \subseteq Metric
    BY DEF MetricNames, CollectorInv, CollectorTypeOK, Snapshot, ConfigAssumption
  <2> QED
    BY <2>1 DEF ServerTypeOK, MainLabel, StartLabel, reloadVars, fileVars, exportVars, poolVars,
       InitOTLP, Listen, InstallSighup, WatchConfigFile, StopRequested, ShutdownOTLP
<1>4. NoLeakedLoop'
  BY <1>1 DEF NoLeakedLoop, Looping, collectorVars, poolVars
<1>5. Coordinated'
  <2> USE <1>1, <1>2 DEF Coordinated, Alive, collectorVars, poolVars
  <2>1. ReloadLocked' /\ StartAlone' /\ HeldInStop' /\ ReadValid' /\ SlotFree'
    BY DEF ReloadLocked, InReload, StartAlone, HeldInStop, ReadValid, SlotFree, StartLabel
  <2>2. BuildingInStart'
    BY DEF BuildingInStart
  <2>3. PoolCurrent'
    BY DEF PoolCurrent, Rebuilding
  <2> QED
    BY <2>1, <2>2, <2>3
<1> QED
  BY <1>3, <1>4, <1>5

\* The steps of ReloadConfig outside stopCollection and startCollection.
LEMMA ReloadCore ==
  ASSUME ServerInv, Alive, NEW r \in Reloader,
         Receive(r) \/ ReloadLocks(r) \/ ReloadReads(r) \/ ReloadSwaps(r) \/ ReloadRegisters(r)
  PROVE  ServerCore'
<1> USE DEF ServerInv, ServerCore, Goto, Proc, Reloader, Nobody, ReloadReturns
<1>1. /\ UNCHANGED <<collectorVars, once, fileVars, watching, poolVars>>
      /\ \A p \in Proc : p # r => pc'[p] = pc[p]
  BY DEF Receive, ReloadLocks, ReloadReads, ReloadSwaps, ReloadRegisters, ServerTypeOK
<1>2. ServerTypeOK'
  <2>1. MetricNames(store) \subseteq Metric
    BY DEF MetricNames, CollectorInv, CollectorTypeOK, Snapshot, ConfigAssumption
  <2>2. CASE Receive(r) \/ ReloadLocks(r) \/ ReloadReads(r)
    BY <2>2, <1>1 DEF ServerTypeOK, ReloadLabel, Receive, ReloadLocks, ReloadReads, fileVars,
       poolVars, exportVars
  <2>3. CASE ReloadSwaps(r)
    <3>1. pc[r] = "swap" => seen[r] \in Config
      BY DEF Coordinated, ReadValid, Alive
    <3> QED
      BY <2>3, <1>1, <3>1 DEF ServerTypeOK, ReloadLabel, ReloadSwaps, fileVars, poolVars, exportVars
  <2>4. CASE ReloadRegisters(r)
    BY <2>1, <2>4, <1>1 DEF ServerTypeOK, ReloadLabel, ReloadRegisters, fileVars, poolVars
  <2> QED
    BY <2>2, <2>3, <2>4
<1>3. NoLeakedLoop'
  BY <1>1 DEF NoLeakedLoop, Looping, collectorVars, poolVars
<1>4. ASSUME ReloadSwaps(r)
      PROVE  BuildingInStart' /\ PoolCurrent'
  <2>1. \A q \in Proc : building[q] = NoGen
    BY <1>4 DEF ReloadSwaps, Coordinated, ReloadLocked, InReload, StartAlone, StartLabel,
       BuildingInStart, Alive, ServerTypeOK
  <2>2. BuildingInStart'
    BY <1>4, <2>1 DEF ReloadSwaps, BuildingInStart, Coordinated, ServerTypeOK, Alive, poolVars
  <2>3. ClustersOf[cfg'] = ClustersOf[cfg] \/ pc'[r] = "stop"
    BY <1>4 DEF ReloadSwaps, ClustersChanged, ServerTypeOK
  <2>4. PoolCurrent'
    BY <1>1, <1>4, <2>3 DEF ReloadSwaps, PoolCurrent, Rebuilding, Coordinated, Alive,
       ServerTypeOK, collectorVars, poolVars
  <2> QED
    BY <2>2, <2>4
<1>5. ASSUME ~ReloadSwaps(r)
      PROVE  BuildingInStart' /\ PoolCurrent'
  <2>1. UNCHANGED <<collectorVars, cfg, poolVars>>
        /\ \/ pc[r] \in {"idle", "lock", "read"} /\ pc'[r] \in {"idle", "lock", "read", "swap"}
           \/ pc[r] = "otlp" /\ pc'[r] = "idle"
    BY <1>1, <1>5 DEF Receive, ReloadLocks, ReloadReads, ReloadRegisters, ServerTypeOK
  <2> QED
    BY <1>1, <2>1 DEF BuildingInStart, PoolCurrent, Rebuilding, Coordinated, Alive,
       collectorVars, poolVars
<1>6. ReloadLocked' /\ StartAlone' /\ HeldInStop' /\ ReadValid' /\ SlotFree'
  <2> USE <1>1 DEF Coordinated, Alive, poolVars, ServerTypeOK
  <2>1. CASE Receive(r) \/ ReloadLocks(r)
    BY <2>1 DEF Receive, ReloadLocks, ReloadLocked, InReload, StartAlone, HeldInStop, ReadValid,
       SlotFree
  <2>2. CASE ReloadReads(r)
    BY <2>2 DEF ReloadReads, ReloadLocked, InReload, StartAlone, HeldInStop, ReadValid, SlotFree
  <2>3. CASE ReloadSwaps(r)
    BY <2>3 DEF ReloadSwaps, ReloadLocked, InReload, StartAlone, HeldInStop, ReadValid, SlotFree
  <2>4. CASE ReloadRegisters(r)
    BY <2>4 DEF ReloadRegisters, ReloadLocked, InReload, StartAlone, HeldInStop, ReadValid, SlotFree
  <2> QED
    BY <2>1, <2>2, <2>3, <2>4
<1> QED
  BY <1>2, <1>3, <1>4, <1>5, <1>6 DEF Coordinated

-----------------------------------------------------------------------------
\* The invariant holds at first: main is alone and nothing is published.
LEMMA ServerInitial == Init => ServerInv
<1> SUFFICES ASSUME Init PROVE ServerInv
  OBVIOUS
<1>1. CollectorInv
  BY CollectorInitial DEF Init
<1>2. ServerTypeOK
  <2> USE DEF Init, Proc, Reloader
  <2>1. pc \in [Proc -> MainLabel \cup ReloadLabel]
    BY DEF MainLabel, StartLabel, ReloadLabel
  <2>2. writes \in 0..MaxWrites /\ pending \in [Reloader -> Nat] /\ pending["sighup"] \in 0..1
    BY ConfigAssumption
  <2>3. /\ seen \in [Reloader -> Config \cup {Bad}]
        /\ held \in [Proc -> Gen \cup {NoGen}] /\ building \in [Proc -> Gen \cup {NoGen}]
    OBVIOUS
  <2> QED
    BY <2>1, <2>2, <2>3 DEF ServerTypeOK
<1>3. NoLeakedLoop
  BY DEF Init, CollectorInit, NoLeakedLoop, Looping
<1>4. Coordinated
  BY DEF Init, Coordinated, ReloadLocked, InReload, StartAlone, StartLabel, HeldInStop, ReadValid,
         BuildingInStart, SlotFree, PoolCurrent, Proc, Reloader, Nobody
<1> QED
  BY <1>1, <1>2, <1>3, <1>4 DEF ServerInv, ServerCore

\* The invariant is inductive.
LEMMA ServerInductive ==
  ASSUME ServerInv, [Next]_vars
  PROVE  ServerInv'
<1>1. CollectorInv'
  BY StepRefines, CollectorInductive DEF ServerInv
<1>2. CASE UNCHANGED vars \/ Gone
  <2>1. UNCHANGED vars
    BY <1>2 DEF Gone
  <2>2. ServerTypeOK' /\ NoLeakedLoop'
    BY <2>1 DEF ServerInv, ServerCore, ServerTypeOK, NoLeakedLoop, Looping, vars, collectorVars,
       serverVars, fileVars, reloadVars, poolVars, exportVars
  <2>3. Coordinated'
    BY <2>1 DEF ServerInv, ServerCore, Coordinated, ReloadLocked, InReload, StartAlone, HeldInStop,
       ReadValid, BuildingInStart, SlotFree, PoolCurrent, Rebuilding, vars, collectorVars,
       serverVars, fileVars, reloadVars, poolVars, exportVars
  <2> QED
    BY <1>1, <2>2, <2>3 DEF ServerInv, ServerCore
<1>3. ASSUME NEW p \in Proc, Alive, SharedStep(p)
      PROVE  ServerCore'
  BY <1>3, StopTakesCore, StopCancelsCore, StartBuildsCore, StartLoopCore, StartFieldsCore
  DEF SharedStep
<1>4. ASSUME Alive, MainStep
      PROVE  ServerCore'
  BY <1>3, <1>4, StartFieldsOnceCore, MainCore DEF MainStep, Proc
<1>5. ASSUME NEW r \in Reloader, Alive, ReloadStep(r)
      PROVE  ServerCore'
  BY <1>3, <1>5, ReloadCore DEF ReloadStep, Proc
<1> QED
  BY <1>1, <1>2, <1>4, <1>5, EnvironmentCore, CollectsCore DEF Next, ServerInv

LEMMA ServerInvariant == Spec => []ServerInv
<1>1. ServerInv /\ [Next]_vars => ServerInv'
  BY ServerInductive
<1> QED
  BY <1>1, ServerInitial, PTL DEF Spec

\* Every behaviour of the server keeps the types of its state and of the
\* collectors' state.
THEOREM ServerTypeCorrect == Spec => [](CollectorTypeOK /\ ServerTypeOK)
<1>1. ServerInv => CollectorTypeOK /\ ServerTypeOK
  BY DEF ServerInv, CollectorInv, ServerCore
<1> QED
  BY <1>1, ServerInvariant, PTL

\* Whatever edits, signals and reloads happen, a collection loop that has not
\* been cancelled can still be: startCollection (main.go:159) never overwrites
\* a cancel function that is in use.
THEOREM NoLoopLeaks == Spec => []NoLeakedLoop
<1>1. ServerInv => NoLeakedLoop
  BY DEF ServerInv, ServerCore
<1> QED
  BY <1>1, ServerInvariant, PTL

\* Between reloads the server's clients are those of the configuration: the
\* comparison of ReloadConfig (safe_config.go:68) before the swap, and the
\* rebuild under the same mutex, never let them drift apart.
THEOREM PoolFollowsConfig == Spec => []PoolMatchesConfig
<1>1. ServerInv => PoolMatchesConfig
  BY DEF ServerInv, ServerCore, PoolMatchesConfig, Running, Coordinated, ReloadLocked, InReload,
         PoolCurrent, Rebuilding, Reloader, Nobody
<1> QED
  BY <1>1, ServerInvariant, PTL

\* The server creates, starts and cancels its collectors only as module
\* Collector allows: it never cancels a loop that was not started and never
\* creates one with a configuration that has no clusters.
THEOREM ServerRefinesCollector == Spec => UsesCollector
<1>1. Init => CollectorInit
  BY DEF Init
<1>2. ServerInv /\ [Next]_vars => [CollectorNext]_collectorVars
  BY StepRefines
<1> QED
  BY <1>1, <1>2, ServerInvariant, PTL DEF Spec, UsesCollector, CollectorSpec

\* So what is proved of the collectors holds in the server: with any overlap of
\* retired and current loops the published snapshot is whole, no cluster is
\* lost because of a peer, and a retired loop answers no further cluster.
THEOREM ServerSnapshotSafe ==
  Spec => [](SnapshotComplete /\ Isolation) /\ CancelReachesRequests
  BY ServerRefinesCollector, SnapshotsWhole, FailuresIsolated, CancellationReaches, PTL
  DEF UsesCollector

-----------------------------------------------------------------------------
(* The first scrape.                                                        *)

\* From the end of main's startCollection on, and so whenever the listener
\* serves, there is a published snapshot.
ServesAfterFirst ==
    serving \/ pc["main"] \notin {"build", "sync", "killed"} => store.gen # NoGen

\* What it takes for the snapshot to have an entry as well.
FirstScrapeInv ==
    /\ PoolsInhabited
    /\ PublishesFirst
    /\ ServesAfterFirst

\* main leaves startCollection through a loop that has completed its first
\* cycle; nothing else makes the listener serve or main go on.
LEMMA ServesStep ==
  ASSUME ServerInv, FirstScrapeInv, [Next]_vars
  PROVE  ServesAfterFirst'
<1> USE DEF ServerInv, ServerCore, FirstScrapeInv
<1>1. store.gen # NoGen => store'.gen # NoGen
  BY StepRefines, StoreKept DEF CollectorInv
<1>2. ASSUME serving' => serving,
             pc'["main"] \notin {"build", "sync", "killed"}
               => pc["main"] \notin {"build", "sync", "killed"}
      PROVE  ServesAfterFirst'
  BY <1>1, <1>2 DEF ServesAfterFirst
<1>3. ASSUME UNCHANGED <<pc, serving>>
      PROVE  ServesAfterFirst'
  BY <1>2, <1>3
<1>4. CASE UNCHANGED vars \/ Gone
  BY <1>3, <1>4 DEF Gone, vars, serverVars
<1>5. CASE Alive /\ (Environment \/ Collects)
  <2>1. CASE EarlySignal
    BY <1>2, <2>1 DEF EarlySignal, Goto, Proc, ServerTypeOK
  <2> QED
    BY <1>3, <1>5, <2>1 DEF Environment, WriteFile, Sighup, Collects, serverVars
<1>6. ASSUME NEW r \in Reloader, Alive, ReloadStep(r)
      PROVE  ServesAfterFirst'
  <2>1. serving' = serving
    BY <1>6 DEF ReloadStep, SharedStep, Receive, ReloadLocks, ReloadReads, ReloadSwaps,
                ReloadRegisters, StopTakes, StopCancels, StartBuilds, StartLoop, StartFields
  <2>2. pc'["main"] = pc["main"]
    BY <1>6 DEF ReloadStep, SharedStep, Receive, ReloadLocks, ReloadReads, ReloadSwaps,
                ReloadRegisters, StopTakes, StopCancels, StartBuilds, StartLoop, StartFields,
                Goto, ReloadReturns, Proc, Reloader, ServerTypeOK
  <2> QED
    BY <1>2, <2>1, <2>2
<1>7. CASE Alive /\ MainStep
  <2>1. CASE StopTakes("main") \/ StopCancels("main") \/ StartBuilds("main") \/ StartFields("main")
    BY <1>2, <2>1 DEF StopTakes, StopCancels, StartBuilds, StartFields, Goto, AfterStop, Proc,
                      ServerTypeOK
  <2>2. CASE StartLoop("main") \/ StartFieldsOnce
    <3>1. building["main"] \in Gen /\ loop[building["main"]] = "synced"
      <4>1. pc["main"] = "sync"
        BY <2>2 DEF StartLoop, StartFieldsOnce
      <4>2. building["main"] \in Gen
        BY <1>7, <4>1 DEF Coordinated, BuildingInStart, ServerTypeOK, Alive, Proc
      <4> QED
        BY <2>2, <4>2 DEF StartLoop, StartFieldsOnce, Run
    <3>2. store.gen # NoGen
      BY <3>1 DEF PublishesFirst
    <3> QED
      BY <1>1, <3>2 DEF ServesAfterFirst
  <2>3. CASE InitOTLP \/ Listen \/ InstallSighup \/ WatchConfigFile \/ StopRequested \/ ShutdownOTLP
    BY <1>1, <2>3 DEF ServesAfterFirst, InitOTLP, Listen, InstallSighup, WatchConfigFile,
                      StopRequested, ShutdownOTLP
  <2> QED
    BY <1>7, <2>1, <2>2, <2>3 DEF MainStep, SharedStep
<1> QED
  BY <1>4, <1>5, <1>6, <1>7 DEF Next

LEMMA FirstScrapeInvariant == Spec => []FirstScrapeInv
<1>1. Init => FirstScrapeInv
  BY StoreInitially DEF Init, FirstScrapeInv, ServesAfterFirst, Proc
<1>2. ServerInv /\ FirstScrapeInv /\ [Next]_vars => FirstScrapeInv'
  BY StepRefines, StoreInductive, ServesStep DEF FirstScrapeInv, ServerInv, CollectorInv
<1> QED
  BY <1>1, <1>2, ServerInvariant, PTL DEF Spec

\* The first scrape is not empty (main.go:163): the first cycle is published
\* before the listener is started, a configuration without clusters is never
\* loaded, and no reload, failure or shutdown takes the snapshot away.
THEOREM FirstScrapeServed == Spec => []FirstScrapeNotEmpty
<1>1. ServerInv /\ FirstScrapeInv => FirstScrapeNotEmpty
  <2> SUFFICES ASSUME ServerInv, FirstScrapeInv, serving
               PROVE  store.gen # NoGen /\ store.clusters # {}
    BY DEF FirstScrapeNotEmpty
  <2>1. store.gen \in Gen /\ store.gen # NoGen
    BY DEF FirstScrapeInv, ServesAfterFirst, ServerInv, CollectorInv, CollectorTypeOK, Snapshot
  <2>2. store.clusters = pool[store.gen] /\ pool[store.gen] # {}
    BY <2>1 DEF FirstScrapeInv, PoolsInhabited, ServerInv, CollectorInv, PublisherExists,
                SnapshotComplete
  <2> QED
    BY <2>1, <2>2
<1> QED
  BY <1>1, ServerInvariant, FirstScrapeInvariant, PTL
=============================================================================
