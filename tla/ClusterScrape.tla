---------------------------- MODULE ClusterScrape ----------------------------
(***************************************************************************)
(* The collection of ONE cluster, request by request: collectCluster of     *)
(* internal/powerscale/collector.go, the fetch sequences GetInventory and   *)
(* GetStatistics of client.go, and the LazyClient of lazy.go that stands in *)
(* for a cluster whose session could not be created when the client pool    *)
(* was built.                                                               *)
(*                                                                          *)
(* A request is one step, taken when its answer has been received: a GET    *)
(* succeeds only while its context is live, and a GET whose context is done *)
(* fails.  One deadline covers all the requests of a cycle.  What a payload *)
(* holds is left out; that it may fail to parse is part of a fetch's error. *)
(***************************************************************************)
EXTENDS Integers, Requests

CONSTANT Version   \* the platform API versions a session can negotiate

ASSUME VersionAssumption == Version \subseteq Nat \ {0}

VARIABLES driver,     \* the collector's driver, as loop[g] of module Collector
          cancelled,  \* the loop's context is cancelled
          inner,      \* LazyClient.inner: the session's API version, 0 when nil
          mu,         \* holder of LazyClient.mu while it is held across a step
          closing,    \* stopCollection: "no", then "waiting" for mu, then "closed"
          ctx,        \* the cluster's context: "live", "deadline" or "cancelled"
          at,         \* where collectCluster stands
          k,          \* the request it stands at
          got,        \* the mandatory endpoints answered and parsed in this cycle
          cut,        \* the endpoints lost to the context in this cycle
          csVersion,  \* cs.APIVersion
          outcome,    \* how the cycle ended for this cluster, once it did
          published,  \* the entry in the store, "none" before the first cycle
          hadSession  \* history: the cycle began with a session

scrapeVars == <<ctx, at, k, got, cut, csVersion, outcome>>
vars == <<driver, cancelled, inner, mu, closing, ctx, at, k, got, cut,
          csVersion, outcome, published, hadSession>>

-----------------------------------------------------------------------------
Init ==
    /\ driver = "none"
    /\ cancelled = FALSE
    /\ inner = 0
    /\ mu = "free"
    /\ closing = "no"
    /\ ctx = "live"
    /\ at = "idle" /\ k = 0
    /\ got = {} /\ cut = {}
    /\ csVersion = 0
    /\ outcome = "none"
    /\ published = "none"
    /\ hadSession = FALSE

Begin_Background ==
    /\ ctx' = "live"
    /\ at' = "version" /\ k' = 0
    /\ got' = {} /\ cut' = {}
    /\ csVersion' = 0
    /\ outcome' = "none"

\* context.WithTimeout, a fresh ClusterSnapshot, and the first call.
Begin ==
    /\ ctx' = IF cancelled THEN "cancelled" ELSE "live"
    /\ at' = "version" /\ k' = 0
    /\ got' = {} /\ cut' = {}
    /\ csVersion' = 0
    /\ outcome' = "none"

\* buildClients: a session now (version v), or a LazyClient (v = 0) when its
\* creation fails; then the synchronous first cycle begins.
BuildClient(v) ==
    /\ driver = "none"
    /\ driver' = "sync"
    /\ inner' = v
    /\ hadSession' = (v # 0)
    /\ Begin
    /\ UNCHANGED <<cancelled, mu, closing, published>>

Tick ==
    /\ driver = "select"
    /\ driver' = "cycle"
    /\ hadSession' = (inner # 0)
    /\ Begin
    /\ UNCHANGED <<cancelled, inner, mu, closing, published>>

-----------------------------------------------------------------------------
(* LazyClient.get: called by APIVersion, GetInventory and GetStatistics.    *)

InGet == at \in {"version", "inventory", "statistics"}

\* What each of the three callers does once it has a client of version v.
\* APIVersion returns the version the session negotiated when it was created.
Delegate_NoVersion(v) ==
    /\ at' = IF at = "version" THEN "inventory" ELSE "fetch"
    /\ k' = IF at = "version" THEN 0 ELSE k + 1
    /\ csVersion' = csVersion
    /\ UNCHANGED <<ctx, got, cut, outcome>>

Delegate(v) ==
    /\ at' = IF at = "version" THEN "inventory" ELSE "fetch"
    /\ k' = IF at = "version" THEN 0 ELSE k + 1
    /\ csVersion' = IF at = "version" THEN v ELSE csVersion
    /\ UNCHANGED <<ctx, got, cut, outcome>>

\* The cluster is reported down with the error.
Down(o) ==
    /\ at' = "done"
    /\ outcome' = o
    /\ UNCHANGED <<ctx, k, got, cut, csVersion>>

\* collectCluster ignores the error of APIVersion and goes on.
GetFails(o) ==
    IF at = "version"
    THEN /\ at' = "inventory"
         /\ UNCHANGED <<ctx, k, got, cut, csVersion, outcome>>
    ELSE Down(o)

\* l.inner is set: the lock is taken and released.
GetCached ==
    /\ InGet
    /\ inner # 0
    /\ mu = "free"
    /\ Delegate(inner)
    /\ UNCHANGED <<driver, cancelled, inner, mu, closing, published, hadSession>>

\* l.inner is nil: create is called with the lock held.
GetCreates ==
    /\ InGet
    /\ inner = 0
    /\ mu = "free"
    /\ mu' = "scrape"
    /\ UNCHANGED <<driver, cancelled, inner, closing, scrapeVars, published, hadSession>>

CreateSucceeds_NoContext(v) ==
    /\ InGet
    /\ mu = "scrape"
    /\ inner' = v
    /\ mu' = "free"
    /\ Delegate(v)
    /\ UNCHANGED <<driver, cancelled, closing, published, hadSession>>

\* api.New authenticates over ctx, so it cannot succeed once ctx is done.
CreateSucceeds(v) ==
    /\ InGet
    /\ mu = "scrape"
    /\ ctx = "live"
    /\ inner' = v
    /\ mu' = "free"
    /\ Delegate(v)
    /\ UNCHANGED <<driver, cancelled, closing, published, hadSession>>

CreateFails_KeepsLock ==
    /\ InGet
    /\ mu = "scrape"
    /\ UNCHANGED mu
    /\ GetFails(IF ctx = "cancelled" THEN "cancelled" ELSE "failed")
    /\ UNCHANGED <<driver, cancelled, inner, closing, published, hadSession>>

CreateFails ==
    /\ InGet
    /\ mu = "scrape"
    /\ mu' = "free"
    /\ GetFails(IF ctx = "cancelled" THEN "cancelled" ELSE "failed")
    /\ UNCHANGED <<driver, cancelled, inner, closing, published, hadSession>>

-----------------------------------------------------------------------------
(* The requests of GetInventory and GetStatistics.                          *)

Advance_PastEnd ==
    \/ /\ k = Len(InventoryRequests)
       /\ at' = "statistics"
       /\ k' = k
    \/ /\ k # Len(InventoryRequests)
       /\ at' = "fetch"
       /\ k' = k + 1

\* After the last request of GetInventory, GetStatistics asks for the client
\* again; after its own last request collectCluster has all it needs.
Advance ==
    \/ /\ k = Len(InventoryRequests)
       /\ at' = "statistics"
       /\ k' = k
    \/ /\ k = Len(Requests)
       /\ at' = "build"
       /\ k' = k
    \/ /\ k \notin {Len(InventoryRequests), Len(Requests)}
       /\ at' = "fetch"
       /\ k' = k + 1

Quiet == UNCHANGED <<driver, cancelled, inner, mu, closing, published, hadSession>>

FetchAnswered ==
    /\ at = "fetch"
    /\ ctx = "live"
    /\ got' = IF Requests[k].required THEN got \cup {Requests[k].ep} ELSE got
    /\ Advance
    /\ UNCHANGED <<ctx, cut, csVersion, outcome>>
    /\ Quiet

\* A best-effort endpoint that fails or does not parse yields its zero value.
FetchFails ==
    /\ at = "fetch"
    /\ ctx = "live"
    /\ \/ Requests[k].required /\ Down("failed")
       \/ ~Requests[k].required /\ Advance /\ UNCHANGED <<ctx, got, cut, csVersion, outcome>>
    /\ Quiet

FetchCut_Skips ==
    /\ at = "fetch"
    /\ ctx # "live"
    /\ cut' = cut \cup {Requests[k].ep}
    /\ Advance /\ UNCHANGED <<ctx, got, csVersion, outcome>>
    /\ Quiet

\* The context is done: the request fails at once.
FetchCut ==
    /\ at = "fetch"
    /\ ctx # "live"
    /\ cut' = cut \cup {Requests[k].ep}
    /\ \/ /\ Requests[k].required
          /\ at' = "done"
          /\ outcome' = IF ctx = "cancelled" THEN "cancelled" ELSE "failed"
          /\ UNCHANGED <<ctx, k, got, csVersion>>
       \/ ~Requests[k].required /\ Advance /\ UNCHANGED <<ctx, got, csVersion, outcome>>
    /\ Quiet

\* BuildSamples, cs.Up = true.
Finish ==
    /\ at = "build"
    /\ at' = "done"
    /\ outcome' = "ok"
    /\ UNCHANGED <<ctx, k, got, cut, csVersion>>
    /\ Quiet

DeadlinePasses_Never == FALSE /\ UNCHANGED vars

\* The deadline of this cluster's cycle passes.
DeadlinePasses ==
    /\ at \notin {"idle", "done"}
    /\ ctx = "live"
    /\ ctx' = "deadline"
    /\ UNCHANGED <<at, k, got, cut, csVersion, outcome>>
    /\ Quiet

-----------------------------------------------------------------------------
(* The driver.                                                              *)

\* store.Store: the entry of this cluster replaces the one before.
Store ==
    /\ driver \in {"sync", "cycle"}
    /\ at = "done"
    /\ driver' = IF driver = "sync" THEN "synced" ELSE "select"
    /\ published' = outcome
    /\ outcome' = "none"
    /\ at' = "idle"
    /\ UNCHANGED <<cancelled, inner, mu, closing, ctx, k, got, cut, csVersion, hadSession>>

Run ==
    /\ driver = "synced"
    /\ driver' = "select"
    /\ UNCHANGED <<cancelled, inner, mu, closing, scrapeVars, published, hadSession>>

\* stopCollection: cancel(), then c.Close() on every client.
Cancel ==
    /\ driver \in {"select", "cycle"}
    /\ ~cancelled
    /\ cancelled' = TRUE
    /\ closing' = "waiting"
    /\ ctx' = IF ctx = "live" THEN "cancelled" ELSE ctx
    /\ UNCHANGED <<driver, inner, mu, at, k, got, cut, csVersion, outcome, published, hadSession>>

\* LazyClient.Close needs mu; what it then closes holds no resources.
Close ==
    /\ closing = "waiting"
    /\ mu = "free"
    /\ closing' = "closed"
    /\ UNCHANGED <<driver, cancelled, inner, mu, scrapeVars, published, hadSession>>

Exit ==
    /\ driver = "select"
    /\ cancelled
    /\ driver' = "exited"
    /\ UNCHANGED <<cancelled, inner, mu, closing, scrapeVars, published, hadSession>>

\* Nothing is left to do for a collector that was stopped.
Stopped ==
    /\ driver = "exited"
    /\ closing = "closed"
    /\ UNCHANGED vars

Get == GetCached \/ GetCreates \/ CreateFails \/ \E v \in Version : CreateSucceeds(v)
Fetch == FetchAnswered \/ FetchFails \/ FetchCut

Next ==
    \/ \E v \in Version \cup {0} : BuildClient(v)
    \/ Run \/ Tick \/ Cancel \/ Close \/ Exit
    \/ Get \/ Fetch \/ Finish \/ DeadlinePasses
    \/ Store
    \/ Stopped

\* A deadline passes when its time comes, and every call made over a context
\* that is done returns; requests are not assumed to be answered otherwise.
Fairness ==
    /\ WF_vars(DeadlinePasses)
    /\ WF_vars(GetCached \/ GetCreates)
    /\ WF_vars(ctx # "live" /\ (CreateFails \/ FetchCut))
    /\ WF_vars(Finish \/ Store \/ Run)
    /\ WF_vars(Tick)
    /\ WF_vars(Close)
    /\ SF_vars(Exit)

Spec == Init /\ [][Next]_vars /\ Fairness

-----------------------------------------------------------------------------
(* Properties.                                                              *)

\* The type of the state.
TypeOK ==
    /\ driver \in {"none", "sync", "synced", "select", "cycle", "exited"}
    /\ cancelled \in BOOLEAN /\ hadSession \in BOOLEAN
    /\ inner \in Version \cup {0}
    /\ mu \in {"free", "scrape"}
    /\ closing \in {"no", "waiting", "closed"}
    /\ ctx \in {"live", "deadline", "cancelled"}
    /\ at \in {"idle", "version", "inventory", "statistics", "fetch", "build", "done"}
    /\ k \in 0..Len(Requests)
    /\ got \subseteq RequiredEndpoints(Requests)
    /\ cut \subseteq Endpoints(Requests)
    /\ csVersion \in Version \cup {0}
    /\ outcome \in {"none", "ok", "failed", "cancelled"}
    /\ published \in {"none", "ok", "failed", "cancelled"}

\* A cluster that is up has all it promises: the four mandatory payloads were
\* answered in this very cycle, and no inventory payload is a zero that the
\* deadline put there.  (A deadline in the middle of the best-effort inventory
\* requests is caught by the statistics request that follows them; one after
\* it only costs summaries.)
UpIsWhole ==
    outcome = "ok" => /\ RequiredEndpoints(Requests) \subseteq got
                      /\ cut \cap Endpoints(InventoryRequests) = {}

\* A cluster that is up reports the API version of its session, except in the
\* cycle in which GetInventory created the session that APIVersion had failed
\* to create just before.
UpKnowsItsVersion ==
    outcome = "ok" => /\ inner # 0
                      /\ csVersion \in {0, inner}
                      /\ hadSession => csVersion = inner

\* A session is created at most once and never behind Close: the loop is
\* cancelled before its clients are closed, so a creation still in progress
\* cannot succeed afterwards.
SessionSettled ==
    [][(inner # 0 \/ closing = "closed") => inner' = inner]_<<inner, driver, closing>>

\* Every cycle ends within its deadline whatever the cluster does, a hung
\* session creation included, and the loop goes on.
CycleEnds == at = "version" ~> at = "idle"

\* Close returns although a session creation may hold LazyClient.mu.
CloseReturns == closing = "waiting" ~> closing = "closed"

-----------------------------------------------------------------------------
(* One cluster's scrape implements the cluster steps of module Collector.   *)

TheCluster == "c"
TheGen == 1

ScrapeProgress ==
    IF at \in {"idle", "done"} THEN outcome
    ELSE IF "statistics/current" \in got THEN "answered" ELSE "pending"

AsCollector == INSTANCE Collector WITH
    Cluster  <- {TheCluster},
    Gen      <- {TheGen},
    Interval <- {1},
    pool     <- [g \in {TheGen} |-> IF driver = "none" THEN {} ELSE {TheCluster}],
    interval <- [g \in {TheGen} |-> IF driver = "none" THEN 0 ELSE 1],
    loop     <- [g \in {TheGen} |-> driver],
    ctxDone  <- [g \in {TheGen} |-> cancelled],
    gctxDone <- [g \in {TheGen} |-> cancelled /\ driver = "cycle"],
    results  <- [g \in {TheGen} |-> [c \in {TheCluster} |-> ScrapeProgress]],
    store    <- IF published = "none" THEN [gen |-> 0, clusters |-> {}, up |-> {}]
                ELSE [gen |-> TheGen, clusters |-> {TheCluster},
                      up |-> IF published = "ok" THEN {TheCluster} ELSE {}]

\* The request-by-request scrape of a cluster implements the collector's
\* specification, with the answer of statistics/current as the point from
\* which the cluster will be reported up.
ImplementsCollector == AsCollector!CollectorSpec
=============================================================================
