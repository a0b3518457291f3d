------------------------- MODULE ClusterScrapeProofs -------------------------
(***************************************************************************)
(* Proofs about module ClusterScrape, for any API versions: its safety       *)
(* properties, and that it implements module Collector.                     *)
(***************************************************************************)
EXTENDS ClusterScrape, TLAPS

USE VersionAssumption

-----------------------------------------------------------------------------
(* The requests of a cycle.                                                 *)

\* The requests that fail the cycle, by position.
RequiredAt == {1, 2, 3, 13}

\* The seventeen requests, one by one.
LEMMA RequestsListed ==
    /\ Len(InventoryRequests) = 12 /\ Len(Requests) = 17
    /\ Requests[1] = Mandatory("cluster/config")
    /\ Requests[2] = Mandatory("cluster/nodes")
    /\ Requests[3] = Mandatory("quota/quotas")
    /\ \A i \in 4..12 : ~Requests[i].required
    /\ Requests[13] = Mandatory("statistics/current")
    /\ Requests[14] = BestEffort("summary/protocol")
    /\ Requests[15] = BestEffort("summary/drive")
    /\ Requests[16] = BestEffort("summary/client")
    /\ Requests[17] = BestEffort("summary/workload")
<1>1. Len(InventoryRequests) = 12 /\ Len(StatisticsRequests) = 5
  BY DEF InventoryRequests, StatisticsRequests
<1>2. /\ Len(Requests) = 17
      /\ \A i \in 1..12 : Requests[i] = InventoryRequests[i]
      /\ \A i \in 13..17 : Requests[i] = StatisticsRequests[i - 12]
  BY <1>1 DEF Requests, InventoryRequests, StatisticsRequests
<1>3. \A i \in 4..12 : ~InventoryRequests[i].required
  BY DEF InventoryRequests, BestEffort
<1> QED
  BY <1>1, <1>2, <1>3 DEF InventoryRequests, StatisticsRequests

\* Four requests are mandatory, with four endpoints; those from the statistics
\* on are no endpoints of the inventory.
LEMMA RequestFacts ==
    /\ Len(InventoryRequests) = 12 /\ Len(Requests) = 17
    /\ \A i \in 1..17 : Requests[i].required <=> i \in RequiredAt
    /\ \A i, j \in RequiredAt : i # j => Requests[i].ep # Requests[j].ep
    /\ Requests[13].ep = "statistics/current"
    /\ \A i \in 1..17 : Requests[i].ep \in Endpoints(Requests)
    /\ RequiredEndpoints(Requests) = {Requests[i].ep : i \in RequiredAt}
    /\ \A i \in 13..17 : Requests[i].ep \notin Endpoints(InventoryRequests)
<1>1. DOMAIN Requests = 1..17 /\ DOMAIN InventoryRequests = 1..12
  BY RequestsListed DEF Requests, InventoryRequests, StatisticsRequests
<1>2. \A i \in 1..17 : Requests[i].required <=> i \in RequiredAt
  BY RequestsListed DEF RequiredAt, Mandatory, BestEffort
<1>3. \A i, j \in RequiredAt : i # j => Requests[i].ep # Requests[j].ep
  BY RequestsListed DEF RequiredAt, Mandatory
<1>4. Requests[13].ep = "statistics/current"
  BY RequestsListed DEF Mandatory
<1>5. \A i \in 1..17 : Requests[i].ep \in Endpoints(Requests)
  BY <1>1 DEF Endpoints, Range
<1>6. RequiredEndpoints(Requests) = {Requests[i].ep : i \in RequiredAt}
  BY <1>1, <1>2 DEF RequiredEndpoints, Range, RequiredAt
<1>7. \A i \in 13..17 : Requests[i].ep \notin Endpoints(InventoryRequests)
  <2>1. \A j \in 1..12 : InventoryRequests[j].ep \notin
          {"statistics/current", "summary/protocol", "summary/drive", "summary/client",
           "summary/workload"}
    BY DEF InventoryRequests, Mandatory, BestEffort
  <2>2. \A i \in 13..17 : Requests[i].ep \in
          {"statistics/current", "summary/protocol", "summary/drive", "summary/client",
           "summary/workload"}
    BY RequestsListed DEF Mandatory, BestEffort
  <2> QED
    BY <1>1, <2>1, <2>2 DEF Endpoints, Range
<1> QED
  BY RequestsListed, <1>2, <1>3, <1>4, <1>5, <1>6, <1>7

-----------------------------------------------------------------------------
(* The inductive invariant.                                                 *)

Busy == at \notin {"idle", "done"}

\* Where the driver stands, what collectCluster does and what is published.
DriverAgrees ==
    /\ at # "idle" <=> driver \in {"sync", "cycle"}
    /\ cancelled => driver \in {"select", "cycle", "exited"}
    /\ closing = "no" <=> ~cancelled
    /\ outcome = "none" <=> at # "done"
    /\ driver = "none" => inner = 0 /\ published = "none" /\ ~hadSession

\* The context of a cycle is done once its loop is cancelled, and is cancelled
\* through that alone.
ContextFollows ==
    at # "idle" => /\ cancelled => ctx # "live"
                   /\ ctx = "cancelled" => cancelled

\* Where the requests stand, and which mandatory ones are behind.
Behind == IF at \in {"statistics", "build"} THEN k ELSE k - 1

RequestsAgree ==
    /\ at \in {"version", "inventory"} => k = 0
    /\ at = "fetch" => k \in 1..17
    /\ at = "statistics" => k = 12
    /\ at = "build" => k = 17
    /\ Busy => \A i \in RequiredAt : i <= Behind <=> Requests[i].ep \in got

\* Only a context that is done loses an endpoint; statistics/current, which
\* needs a live one, therefore stands for all the requests before it.
CutAgrees ==
    Busy => /\ cut # {} => ctx # "live"
            /\ Behind >= 13 => cut \cap Endpoints(InventoryRequests) = {}

\* The session of LazyClient and what the cycle has made of it.
SessionAgrees ==
    /\ mu = "scrape" => InGet /\ inner = 0
    /\ hadSession => inner # 0
    /\ at # "idle" => /\ csVersion \in {0, inner}
                      /\ hadSession /\ at # "version" => csVersion = inner
    /\ at \in {"statistics", "fetch", "build"} => inner # 0

\* UpIsWhole and UpKnowsItsVersion speak of the end of a cycle; the other parts
\* carry what they need from request to request.
ScrapeInv ==
    /\ TypeOK
    /\ DriverAgrees
    /\ ContextFollows
    /\ RequestsAgree
    /\ CutAgrees
    /\ SessionAgrees
    /\ UpIsWhole
    /\ UpKnowsItsVersion

-----------------------------------------------------------------------------
(* The steps keep the invariant.                                            *)

\* The invariant holds at first.
LEMMA ScrapeInitial == Init => ScrapeInv
<1> SUFFICES ASSUME Init PROVE ScrapeInv
  OBVIOUS
<1> USE DEF Init
<1>1. TypeOK
  <2>1. k \in 0..Len(Requests)
    BY RequestFacts
  <2>2. cancelled \in BOOLEAN /\ hadSession \in BOOLEAN
    OBVIOUS
  <2> QED
    BY <2>1, <2>2 DEF TypeOK
<1>2. DriverAgrees /\ ContextFollows /\ RequestsAgree /\ CutAgrees /\ SessionAgrees
  BY DEF DriverAgrees, ContextFollows, RequestsAgree, CutAgrees, SessionAgrees, Busy, InGet
<1>3. UpIsWhole /\ UpKnowsItsVersion
  BY DEF UpIsWhole, UpKnowsItsVersion
<1> QED
  BY <1>1, <1>2, <1>3 DEF ScrapeInv

\* A new cycle starts from nothing, with a context that the loop's cancellation
\* has already reached.
LEMMA BeginStep ==
  ASSUME ScrapeInv, (\E v \in Version \cup {0} : BuildClient(v)) \/ Tick
  PROVE  ScrapeInv'
<1> USE DEF ScrapeInv
<1>1. /\ ctx' = IF cancelled THEN "cancelled" ELSE "live"
      /\ at' = "version" /\ k' = 0 /\ got' = {} /\ cut' = {}
      /\ csVersion' = 0 /\ outcome' = "none"
      /\ UNCHANGED <<cancelled, mu, closing, published>>
      /\ inner' \in Version \cup {0} /\ hadSession' = (inner' # 0)
      /\ driver' \in {"sync", "cycle"}
      /\ driver' = "sync" => ~cancelled
      /\ at = "idle"
  BY DEF BuildClient, Tick, Begin, DriverAgrees, TypeOK
<1>2. TypeOK'
  <2>1. k' \in 0..Len(Requests)
    BY <1>1, RequestFacts
  <2>2. hadSession' \in BOOLEAN
    BY <1>1
  <2> QED
    BY <1>1, <2>1, <2>2 DEF TypeOK
<1>3. DriverAgrees' /\ ContextFollows' /\ CutAgrees' /\ SessionAgrees'
  BY <1>1 DEF DriverAgrees, ContextFollows, CutAgrees, SessionAgrees, Busy, InGet
<1>4. RequestsAgree'
  BY <1>1 DEF RequestsAgree, Busy, Behind, RequiredAt
<1>5. UpIsWhole' /\ UpKnowsItsVersion'
  BY <1>1 DEF UpIsWhole, UpKnowsItsVersion
<1> QED
  BY <1>2, <1>3, <1>4, <1>5

\* APIVersion, GetInventory and GetStatistics go on with a client of version v,
\* the one LazyClient holds from then on.
LEMMA DelegateStep ==
  ASSUME ScrapeInv, InGet, NEW v \in Version, inner \in {0, v}, inner' = v, mu' = "free",
         Delegate(v), UNCHANGED <<driver, cancelled, closing, published, hadSession>>
  PROVE  ScrapeInv'
<1> USE DEF ScrapeInv, InGet
<1>1. k \in 0..17 /\ k' \in 0..17
  BY RequestFacts DEF TypeOK, RequestsAgree, Delegate
<1>2. TypeOK'
  <2>1. k' \in 0..Len(Requests)
    BY <1>1, RequestFacts
  <2>2. csVersion' \in Version \cup {0} /\ at' \in {"inventory", "fetch"}
    BY DEF Delegate, TypeOK
  <2> QED
    BY <2>1, <2>2 DEF TypeOK, Delegate
<1>3. DriverAgrees' /\ ContextFollows'
  BY DEF DriverAgrees, ContextFollows, Delegate
<1>4. RequestsAgree' /\ CutAgrees'
  BY <1>1 DEF RequestsAgree, CutAgrees, Behind, Busy, Delegate, RequiredAt
<1>5. SessionAgrees'
  BY DEF SessionAgrees, Delegate
<1>6. UpIsWhole' /\ UpKnowsItsVersion'
  BY DEF UpIsWhole, UpKnowsItsVersion, Delegate, DriverAgrees
<1> QED
  BY <1>2, <1>3, <1>4, <1>5, <1>6

\* The steps of LazyClient.get.
LEMMA GetStep ==
  ASSUME ScrapeInv, Get
  PROVE  ScrapeInv'
<1> USE DEF ScrapeInv
<1>1. CASE GetCached
  <2>1. inner \in Version
    BY <1>1 DEF GetCached, TypeOK
  <2> QED
    BY <1>1, <2>1, DelegateStep DEF GetCached
<1>2. ASSUME NEW v \in Version, CreateSucceeds(v)
      PROVE  ScrapeInv'
  <2>1. inner = 0
    BY <1>2 DEF CreateSucceeds, SessionAgrees
  <2> QED
    BY <1>2, <2>1, DelegateStep DEF CreateSucceeds
<1>3. CASE GetCreates
  <2>1. TypeOK' /\ DriverAgrees' /\ ContextFollows'
    BY <1>3 DEF GetCreates, TypeOK, DriverAgrees, ContextFollows, scrapeVars
  <2>2. RequestsAgree' /\ CutAgrees'
    BY <1>3 DEF GetCreates, RequestsAgree, CutAgrees, Busy, Behind, scrapeVars
  <2>3. SessionAgrees' /\ UpIsWhole' /\ UpKnowsItsVersion'
    BY <1>3 DEF GetCreates, SessionAgrees, UpIsWhole, UpKnowsItsVersion, InGet, scrapeVars
  <2> QED
    BY <2>1, <2>2, <2>3
<1>4. CASE CreateFails
  <2> USE <1>4 DEF CreateFails, GetFails, Down, InGet
  <2>1. /\ UNCHANGED <<driver, cancelled, inner, closing, published, hadSession>>
        /\ UNCHANGED <<ctx, k, got, cut, csVersion>>
        /\ mu' = "free"
        /\ \/ at = "version" /\ at' = "inventory" /\ outcome' = outcome
           \/ at # "version" /\ at' = "done" /\ outcome' \in {"failed", "cancelled"}
    OBVIOUS
  <2>2. TypeOK' /\ DriverAgrees' /\ ContextFollows'
    BY <2>1 DEF TypeOK, DriverAgrees, ContextFollows
  <2>3. RequestsAgree' /\ CutAgrees'
    BY <2>1 DEF RequestsAgree, CutAgrees, Busy, Behind
  <2>4. SessionAgrees' /\ UpIsWhole' /\ UpKnowsItsVersion'
    BY <2>1 DEF SessionAgrees, UpIsWhole, UpKnowsItsVersion, DriverAgrees
  <2> QED
    BY <2>2, <2>3, <2>4
<1> QED
  BY <1>1, <1>2, <1>3, <1>4 DEF Get

\* The request at position k is behind: with its endpoint among those answered
\* if it is mandatory, and lost to the context only if it is not.
LEMMA AdvanceStep ==
  ASSUME ScrapeInv, at = "fetch", Advance,
         \A i \in RequiredAt : Requests[i].ep \in got' <=> Requests[i].ep \in got \/ i = k,
         \/ cut' = cut /\ ctx = "live"
         \/ cut' = cut \cup {Requests[k].ep} /\ k \notin RequiredAt /\ ctx # "live",
         got' \subseteq RequiredEndpoints(Requests),
         UNCHANGED <<ctx, csVersion, outcome>>, Quiet
  PROVE  ScrapeInv'
<1> USE DEF ScrapeInv
<1>1. k \in 1..17 /\ inner # 0
  BY DEF RequestsAgree, SessionAgrees
<1>2. /\ k' \in 1..17 /\ at' \in {"statistics", "build", "fetch"}
      /\ at' = "statistics" => k = 12 /\ k' = 12
      /\ at' = "build" => k = 17 /\ k' = 17
      /\ at' = "fetch" => k' = k + 1
  BY <1>1, RequestFacts DEF Advance
<1>3. Behind = k - 1 /\ Behind' = k
  <2>1. CASE at' = "fetch"
    <3>1. k' - 1 = k
      BY <1>1, <1>2, <2>1
    <3> QED
      BY <2>1, <3>1 DEF Behind
  <2>2. CASE at' # "fetch"
    BY <1>2, <2>2 DEF Behind
  <2> QED
    BY <2>1, <2>2
<1>4. TypeOK'
  <2>1. k' \in 0..Len(Requests) /\ cut' \subseteq Endpoints(Requests)
    BY <1>1, <1>2, RequestFacts DEF TypeOK
  <2>2. /\ UNCHANGED <<driver, cancelled, inner, mu, closing, published, hadSession,
                       ctx, csVersion, outcome>>
        /\ at' \in {"statistics", "build", "fetch"}
    BY <1>2 DEF Quiet
  <2> QED
    BY <2>1, <2>2 DEF TypeOK
<1>5. DriverAgrees' /\ ContextFollows'
  BY <1>2 DEF DriverAgrees, ContextFollows, Quiet
<1>6. RequestsAgree'
  <2>1. \A i \in RequiredAt : i <= Behind <=> Requests[i].ep \in got
    BY DEF RequestsAgree, Busy
  <2>2. \A i \in RequiredAt : i <= k <=> i <= k - 1 \/ i = k
    BY <1>1 DEF RequiredAt
  <2> QED
    BY <1>2, <1>3, <2>1, <2>2 DEF RequestsAgree
<1>7. CutAgrees'
  <2>1. cut' # {} => ctx # "live"
    BY DEF CutAgrees, Busy
  <2>2. ASSUME k >= 13
        PROVE  cut' \cap Endpoints(InventoryRequests) = {}
    <3>1. CASE ctx = "live"
      BY <3>1 DEF CutAgrees, Busy
    <3>2. CASE ctx # "live"
      <4>1. k >= 14 /\ Requests[k].ep \notin Endpoints(InventoryRequests)
        BY <1>1, <2>2, <3>2, RequestFacts DEF RequiredAt
      <4>2. cut \cap Endpoints(InventoryRequests) = {}
        BY <1>3, <4>1, <1>1 DEF CutAgrees, Busy
      <4> QED
        BY <3>2, <4>1, <4>2
    <3> QED
      BY <3>1, <3>2
  <2> QED
    BY <1>2, <1>3, <2>1, <2>2 DEF CutAgrees
<1>8. SessionAgrees' /\ UpIsWhole' /\ UpKnowsItsVersion'
  <2>1. outcome = "none" /\ mu # "scrape"
    BY DEF DriverAgrees, SessionAgrees, InGet
  <2> QED
    BY <1>1, <1>2, <2>1 DEF SessionAgrees, UpIsWhole, UpKnowsItsVersion, Quiet
<1> QED
  BY <1>4, <1>5, <1>6, <1>7, <1>8

\* The end of a cycle that leaves the cluster down.
LEMMA DownStep ==
  ASSUME ScrapeInv, at = "fetch", at' = "done", outcome' \in {"failed", "cancelled"},
         cut' \subseteq Endpoints(Requests),
         UNCHANGED <<ctx, k, got, csVersion>>, Quiet
  PROVE  ScrapeInv'
<1> USE DEF ScrapeInv, Quiet
<1>1. TypeOK'
  BY DEF TypeOK
<1>2. DriverAgrees' /\ ContextFollows' /\ RequestsAgree' /\ CutAgrees'
  BY DEF DriverAgrees, ContextFollows, RequestsAgree, CutAgrees, Busy
<1>3. SessionAgrees' /\ UpIsWhole' /\ UpKnowsItsVersion'
  BY DEF SessionAgrees, UpIsWhole, UpKnowsItsVersion, InGet
<1> QED
  BY <1>1, <1>2, <1>3

\* A request is answered, fails, or is lost to the context.
LEMMA FetchStep ==
  ASSUME ScrapeInv, Fetch
  PROVE  ScrapeInv'
<1>1. k \in 1..17 /\ at = "fetch"
  BY DEF ScrapeInv, RequestsAgree, Fetch, FetchAnswered, FetchFails, FetchCut
<1>2. cut \subseteq Endpoints(Requests) /\ got \subseteq RequiredEndpoints(Requests)
  BY DEF ScrapeInv, TypeOK
<1>3. CASE FetchAnswered
  <2>1. /\ got' \subseteq RequiredEndpoints(Requests)
        /\ \A i \in RequiredAt : Requests[i].ep \in got' <=> Requests[i].ep \in got \/ i = k
    BY <1>1, <1>2, <1>3, RequestFacts DEF FetchAnswered
  <2> QED
    BY <1>3, <2>1, AdvanceStep DEF FetchAnswered
<1>4. CASE FetchFails
  <2>1. CASE ~Requests[k].required /\ Advance /\ UNCHANGED <<ctx, got, cut, csVersion, outcome>>
    BY <1>1, <1>2, <1>4, <2>1, RequestFacts, AdvanceStep DEF FetchFails
  <2>2. CASE Requests[k].required /\ Down("failed")
    BY <1>1, <1>2, <1>4, <2>2, DownStep DEF FetchFails, Down
  <2> QED
    BY <1>4, <2>1, <2>2 DEF FetchFails
<1>5. CASE FetchCut
  <2>1. cut' = cut \cup {Requests[k].ep} /\ cut' \subseteq Endpoints(Requests) /\ ctx # "live"
    BY <1>1, <1>2, <1>5, RequestFacts DEF FetchCut
  <2>2. CASE ~Requests[k].required /\ Advance /\ UNCHANGED <<ctx, got, csVersion, outcome>>
    BY <1>1, <1>2, <1>5, <2>1, <2>2, RequestFacts, AdvanceStep DEF FetchCut
  <2>3. CASE at' = "done" /\ outcome' \in {"failed", "cancelled"} /\ UNCHANGED <<ctx, k, got, csVersion>>
    BY <1>1, <1>5, <2>1, <2>3, DownStep DEF FetchCut
  <2> QED
    BY <1>5, <2>2, <2>3 DEF FetchCut
<1> QED
  BY <1>3, <1>4, <1>5 DEF Fetch

\* The cluster is reported up: all its requests are behind.
LEMMA FinishStep ==
  ASSUME ScrapeInv, Finish
  PROVE  ScrapeInv'
<1> USE DEF ScrapeInv, Finish, Quiet
<1>1. TypeOK' /\ DriverAgrees' /\ ContextFollows'
  BY DEF TypeOK, DriverAgrees, ContextFollows
<1>2. RequestsAgree' /\ CutAgrees'
  BY DEF RequestsAgree, CutAgrees, Busy
<1>3. UpIsWhole'
  <2>1. Behind = 17
    BY DEF RequestsAgree, Behind
  <2>2. \A i \in RequiredAt : Requests[i].ep \in got
    BY <2>1 DEF RequestsAgree, Busy, RequiredAt
  <2>3. cut \cap Endpoints(InventoryRequests) = {}
    BY <2>1 DEF CutAgrees, Busy
  <2> QED
    BY <2>2, <2>3, RequestFacts DEF UpIsWhole
<1>4. SessionAgrees' /\ UpKnowsItsVersion'
  BY DEF SessionAgrees, UpKnowsItsVersion, InGet
<1> QED
  BY <1>1, <1>2, <1>3, <1>4

\* The deadline, and the steps of the driver and of stopCollection.
LEMMA DriverStep ==
  ASSUME ScrapeInv, DeadlinePasses \/ Store \/ Run \/ Cancel \/ Close \/ Exit
  PROVE  ScrapeInv'
<1> USE DEF ScrapeInv, Quiet
<1>1. CASE DeadlinePasses
  <2> USE <1>1 DEF DeadlinePasses
  <2>1. TypeOK' /\ DriverAgrees' /\ ContextFollows'
    BY DEF TypeOK, DriverAgrees, ContextFollows
  <2>2. RequestsAgree' /\ CutAgrees'
    BY DEF RequestsAgree, CutAgrees, Busy, Behind
  <2>3. SessionAgrees' /\ UpIsWhole' /\ UpKnowsItsVersion'
    BY DEF SessionAgrees, UpIsWhole, UpKnowsItsVersion, InGet
  <2> QED
    BY <2>1, <2>2, <2>3
<1>2. CASE Store
  <2> USE <1>2 DEF Store
  <2>1. TypeOK' /\ DriverAgrees' /\ ContextFollows'
    BY DEF TypeOK, DriverAgrees, ContextFollows
  <2>2. RequestsAgree' /\ CutAgrees'
    BY DEF RequestsAgree, CutAgrees, Busy
  <2>3. SessionAgrees' /\ UpIsWhole' /\ UpKnowsItsVersion'
    BY DEF SessionAgrees, UpIsWhole, UpKnowsItsVersion, InGet
  <2> QED
    BY <2>1, <2>2, <2>3
<1>3. CASE Cancel
  <2> USE <1>3 DEF Cancel
  <2>1. TypeOK' /\ DriverAgrees' /\ ContextFollows'
    BY DEF TypeOK, DriverAgrees, ContextFollows
  <2>2. RequestsAgree' /\ CutAgrees'
    BY DEF RequestsAgree, CutAgrees, Busy, Behind
  <2>3. SessionAgrees' /\ UpIsWhole' /\ UpKnowsItsVersion'
    BY DEF SessionAgrees, UpIsWhole, UpKnowsItsVersion, InGet
  <2> QED
    BY <2>1, <2>2, <2>3
<1>4. CASE Run \/ Close \/ Exit
  <2> USE <1>4 DEF Run, Close, Exit, scrapeVars
  <2>1. TypeOK' /\ DriverAgrees' /\ ContextFollows'
    BY DEF TypeOK, DriverAgrees, ContextFollows
  <2>2. RequestsAgree' /\ CutAgrees'
    BY DEF RequestsAgree, CutAgrees, Busy, Behind
  <2>3. SessionAgrees' /\ UpIsWhole' /\ UpKnowsItsVersion'
    BY DEF SessionAgrees, UpIsWhole, UpKnowsItsVersion, InGet
  <2> QED
    BY <2>1, <2>2, <2>3
<1> QED
  BY <1>1, <1>2, <1>3, <1>4

\* The invariant is inductive.
LEMMA ScrapeInductive ==
  ASSUME ScrapeInv, [Next]_vars
  PROVE  ScrapeInv'
<1>1. CASE UNCHANGED vars
  BY <1>1 DEF vars, ScrapeInv, TypeOK, DriverAgrees, ContextFollows, RequestsAgree, CutAgrees,
              SessionAgrees, UpIsWhole, UpKnowsItsVersion, Busy, Behind, InGet
<1>2. CASE Next
  BY <1>1, <1>2, BeginStep, GetStep, FetchStep, FinishStep, DriverStep DEF Next, Stopped
<1> QED
  BY <1>1, <1>2

LEMMA ScrapeInvariant == Spec => []ScrapeInv
<1>1. ScrapeInv /\ [Next]_vars => ScrapeInv'
  BY ScrapeInductive
<1> QED
  BY <1>1, ScrapeInitial, PTL DEF Spec

-----------------------------------------------------------------------------
(* Theorems.                                                                *)

\* The state of a scrape keeps its types.
THEOREM ScrapeTypeCorrect == Spec => []TypeOK
<1>1. ScrapeInv => TypeOK
  BY DEF ScrapeInv
<1> QED
  BY <1>1, ScrapeInvariant, PTL

\* Whenever the deadline passes, a cluster that is reported up has all four
\* mandatory payloads of this cycle and no inventory payload that the deadline
\* made a zero: the swallowed errors of the best-effort requests (client.go:183)
\* are followed by a statistics request that does not swallow its own.
THEOREM WhatIsUpIsWhole == Spec => []UpIsWhole
<1>1. ScrapeInv => UpIsWhole
  BY DEF ScrapeInv
<1> QED
  BY <1>1, ScrapeInvariant, PTL

\* A cluster that is up has a session and reports the version of that session,
\* save in the cycle that created it after APIVersion (collector.go:86) had
\* failed to; then it reports none.
THEOREM WhatIsUpKnowsItsVersion == Spec => []UpKnowsItsVersion
<1>1. ScrapeInv => UpKnowsItsVersion
  BY DEF ScrapeInv
<1> QED
  BY <1>1, ScrapeInvariant, PTL

\* LazyClient (lazy.go:33) creates at most one session and none behind Close:
\* the cancellation that precedes Close has reached the context of a creation
\* that is still in progress.
THEOREM SessionIsSettled == Spec => SessionSettled
<1>1. ScrapeInv /\ [Next]_vars
        => [(inner # 0 \/ closing = "closed") => inner' = inner]_<<inner, driver, closing>>
  <2> SUFFICES ASSUME ScrapeInv, [Next]_vars, inner # 0 \/ closing = "closed"
               PROVE  inner' = inner
    OBVIOUS
  <2> USE DEF ScrapeInv
  <2>1. ASSUME NEW v \in Version, CreateSucceeds(v)
        PROVE  FALSE
    <3>1. inner = 0 /\ ctx = "live" /\ at # "idle"
      BY <2>1 DEF CreateSucceeds, SessionAgrees, InGet
    <3>2. ~cancelled
      BY <3>1 DEF ContextFollows
    <3> QED
      BY <3>1, <3>2 DEF DriverAgrees
  <2>2. ASSUME NEW v \in Version \cup {0}, BuildClient(v)
        PROVE  FALSE
    BY <2>2 DEF BuildClient, DriverAgrees
  <2> QED
    BY <2>1, <2>2 DEF Next, Get, GetCached, GetCreates, CreateFails, Fetch, FetchAnswered,
       FetchFails, FetchCut, Finish, DeadlinePasses, Quiet, Store, Run, Tick, Cancel, Close,
       Exit, Stopped, vars
<1> QED
  BY <1>1, ScrapeInvariant, PTL DEF Spec, SessionSettled

-----------------------------------------------------------------------------
(* The scrape implements the cluster steps of module Collector.             *)

USE DEF TheCluster, TheGen

\* What the goroutine has done, as module Collector sees it.
LEMMA ProgressOf ==
  ASSUME ScrapeInv
  PROVE  /\ at \in {"version", "inventory", "statistics"} => ScrapeProgress = "pending"
         /\ at = "fetch" => ScrapeProgress = IF k > 13 THEN "answered" ELSE "pending"
         /\ at = "build" => ScrapeProgress = "answered"
         /\ at = "idle" => ScrapeProgress = "none"
         /\ at = "done" => ScrapeProgress = outcome
<1> USE DEF ScrapeInv
<1>1. Busy => (13 <= Behind <=> "statistics/current" \in got)
  BY RequestFacts DEF RequestsAgree, RequiredAt
<1>2. CASE at \in {"version", "inventory", "statistics"}
  BY <1>1, <1>2 DEF RequestsAgree, Behind, Busy, ScrapeProgress
<1>3. CASE at = "fetch"
  <2>1. 13 <= k - 1 <=> k > 13
    BY <1>3 DEF RequestsAgree
  <2> QED
    BY <1>1, <1>3, <2>1 DEF RequestsAgree, Behind, Busy, ScrapeProgress
<1>4. CASE at = "build"
  BY <1>1, <1>4 DEF RequestsAgree, Behind, Busy, ScrapeProgress
<1>5. CASE at \in {"idle", "done"}
  BY <1>5 DEF ScrapeProgress, DriverAgrees
<1> QED
  BY <1>2, <1>3, <1>4, <1>5 DEF TypeOK

\* A step that leaves the driver, the store and the progress is a stutter.
LEMMA StutterMaps ==
  ASSUME UNCHANGED <<driver, cancelled, published>>, ScrapeProgress' = ScrapeProgress
  PROVE  UNCHANGED AsCollector!collectorVars
  BY DEF AsCollector!collectorVars

\* Steps of the goroutine of the cluster.
LEMMA GoroutineMaps ==
  ASSUME ScrapeInv, driver \in {"sync", "cycle"}, UNCHANGED <<driver, cancelled, published>>,
         \/ ScrapeProgress = "pending" /\ ScrapeProgress' = "answered" /\ ~cancelled
         \/ ScrapeProgress = "answered" /\ ScrapeProgress' = "ok"
         \/ ScrapeProgress = "pending" /\ ScrapeProgress' = "failed"
         \/ ScrapeProgress = "pending" /\ ScrapeProgress' = "cancelled" /\ cancelled
  PROVE  AsCollector!CollectorNext
<1>1. AsCollector!Polling(TheGen) /\ ~AsCollector!Panicked
  BY DEF AsCollector!Polling, AsCollector!Panicked
<1>2. cancelled => driver = "cycle"
  BY DEF ScrapeInv, DriverAgrees
<1>3. AsCollector!CollectorStep(TheGen)
  <2>1. CASE ScrapeProgress = "pending" /\ ScrapeProgress' = "answered" /\ ~cancelled
    <3>1. AsCollector!Answered(TheGen, TheCluster)
      BY <1>1, <2>1 DEF AsCollector!Answered
    <3> QED
      BY <3>1 DEF AsCollector!CollectorStep
  <2>2. CASE ScrapeProgress = "answered" /\ ScrapeProgress' = "ok"
    <3>1. AsCollector!CollectClusterUp(TheGen, TheCluster)
      BY <1>1, <2>2 DEF AsCollector!CollectClusterUp, AsCollector!GoroutineReturns,
                        AsCollector!ReturnsError
    <3> QED
      BY <3>1 DEF AsCollector!CollectorStep
  <2>3. CASE ScrapeProgress = "pending" /\ ScrapeProgress' = "failed"
    <3>1. AsCollector!CollectClusterFails(TheGen, TheCluster)
      BY <1>1, <2>3 DEF AsCollector!CollectClusterFails, AsCollector!GoroutineReturns,
                        AsCollector!ReturnsError
    <3> QED
      BY <3>1 DEF AsCollector!CollectorStep
  <2>4. CASE ScrapeProgress = "pending" /\ ScrapeProgress' = "cancelled" /\ cancelled
    <3>1. AsCollector!CollectClusterCancelled(TheGen, TheCluster)
      BY <1>1, <1>2, <2>4 DEF AsCollector!CollectClusterCancelled,
                              AsCollector!GoroutineReturns, AsCollector!ReturnsError
    <3> QED
      BY <3>1 DEF AsCollector!CollectorStep
  <2> QED
    BY <2>1, <2>2, <2>3, <2>4
<1> QED
  BY <1>1, <1>3 DEF AsCollector!CollectorNext

\* LazyClient.get is invisible, unless it fails the cycle.
LEMMA GetMaps ==
  ASSUME ScrapeInv, ScrapeInv', Get
  PROVE  [AsCollector!CollectorNext]_(AsCollector!collectorVars)
<1>1. UNCHANGED <<driver, cancelled, published>> /\ InGet
  BY DEF Get, GetCached, GetCreates, CreateFails, CreateSucceeds
<1>2. ScrapeProgress = "pending" /\ driver \in {"sync", "cycle"}
  BY <1>1, ProgressOf DEF InGet, ScrapeInv, DriverAgrees
<1>3. CASE GetCached \/ GetCreates \/ \E v \in Version : CreateSucceeds(v)
  <2>1. at' \in {"version", "inventory", "statistics"} \/ (at' = "fetch" /\ k' \in {1, 13})
    BY <1>3 DEF GetCached, GetCreates, CreateSucceeds, Delegate, scrapeVars, ScrapeInv,
                RequestsAgree, InGet
  <2>2. "statistics/current" \in got' <=> "statistics/current" \in got
    BY <1>3 DEF GetCached, GetCreates, CreateSucceeds, Delegate, scrapeVars
  <2>3. ScrapeProgress' = "pending"
    BY <1>1, <1>2, <2>1, <2>2 DEF ScrapeProgress, InGet
  <2> QED
    BY <1>1, <1>2, <2>3, StutterMaps
<1>4. CASE CreateFails
  <2>1. CASE at = "version"
    <3>1. ScrapeProgress' = "pending"
      BY <1>2, <1>4, <2>1 DEF CreateFails, GetFails, ScrapeProgress
    <3> QED
      BY <1>1, <1>2, <3>1, StutterMaps
  <2>2. CASE at # "version"
    <3>1. /\ ScrapeProgress' = IF ctx = "cancelled" THEN "cancelled" ELSE "failed"
          /\ ctx = "cancelled" => cancelled
      BY <1>4, <2>2 DEF CreateFails, GetFails, Down, ScrapeProgress, InGet, ScrapeInv,
                        ContextFollows
    <3> QED
      BY <1>1, <1>2, <3>1, GoroutineMaps
  <2> QED
    BY <2>1, <2>2
<1> QED
  BY <1>1, <1>3, <1>4 DEF Get

\* The answer of statistics/current is what module Collector calls answered;
\* the failure of a mandatory request is the goroutine's.
LEMMA FetchMaps ==
  ASSUME ScrapeInv, ScrapeInv', Fetch
  PROVE  [AsCollector!CollectorNext]_(AsCollector!collectorVars)
<1>1. /\ UNCHANGED <<driver, cancelled, published>> /\ at = "fetch"
      /\ driver \in {"sync", "cycle"} /\ k \in 1..17
  BY DEF Fetch, FetchAnswered, FetchFails, FetchCut, Quiet, ScrapeInv, DriverAgrees, RequestsAgree
<1>2. Requests[k].required => k \in RequiredAt
  BY <1>1, RequestFacts
<1>3. ASSUME Advance, got' = got
      PROVE  [AsCollector!CollectorNext]_(AsCollector!collectorVars)
  <2>1. ScrapeProgress' = ScrapeProgress
    BY <1>1, <1>3 DEF ScrapeProgress, Advance
  <2> QED
    BY <1>1, <2>1, StutterMaps
<1>4. ASSUME Requests[k].required, at' = "done",
             outcome' = "failed" \/ (outcome' = "cancelled" /\ ctx = "cancelled")
      PROVE  [AsCollector!CollectorNext]_(AsCollector!collectorVars)
  <2>1. ScrapeProgress = "pending" /\ ScrapeProgress' = outcome'
    BY <1>1, <1>2, <1>4, ProgressOf DEF RequiredAt, ScrapeProgress
  <2>2. ctx = "cancelled" => cancelled
    BY <1>1 DEF ScrapeInv, ContextFollows
  <2> QED
    BY <1>1, <1>4, <2>1, <2>2, GoroutineMaps
<1>5. CASE FetchAnswered
  <2>1. Advance /\ got' \in {got, got \cup {Requests[k].ep}} /\ ~cancelled
    BY <1>1, <1>5 DEF FetchAnswered, ScrapeInv, ContextFollows
  <2>2. CASE ScrapeProgress' = ScrapeProgress
    BY <1>1, <2>2, StutterMaps
  <2>3. CASE ScrapeProgress' # ScrapeProgress
    <3>1. ScrapeProgress = "pending" /\ ScrapeProgress' = "answered"
      BY <1>1, <2>1, <2>3 DEF ScrapeProgress, Advance
    <3> QED
      BY <1>1, <2>1, <3>1, GoroutineMaps
  <2> QED
    BY <2>2, <2>3
<1>6. CASE FetchFails
  BY <1>3, <1>4, <1>6 DEF FetchFails, Down
<1>7. CASE FetchCut
  BY <1>3, <1>4, <1>7 DEF FetchCut
<1> QED
  BY <1>5, <1>6, <1>7 DEF Fetch

\* The end of collectCluster, and the deadline.
LEMMA FinishMaps ==
  ASSUME ScrapeInv, Finish \/ DeadlinePasses
  PROVE  [AsCollector!CollectorNext]_(AsCollector!collectorVars)
<1>1. UNCHANGED <<driver, cancelled, published>>
  BY DEF Finish, DeadlinePasses, Quiet
<1>2. CASE Finish
  <2>1. ScrapeProgress = "answered" /\ ScrapeProgress' = "ok" /\ driver \in {"sync", "cycle"}
    BY <1>2, ProgressOf DEF Finish, ScrapeProgress, ScrapeInv, DriverAgrees
  <2> QED
    BY <1>1, <2>1, GoroutineMaps
<1>3. CASE DeadlinePasses
  BY <1>1, <1>3, StutterMaps DEF DeadlinePasses, ScrapeProgress
<1> QED
  BY <1>2, <1>3

\* The steps of the driver are those of the collector's.
LEMMA DriverMaps ==
  ASSUME ScrapeInv, ScrapeInv',
         \/ \E v \in Version \cup {0} : BuildClient(v)
         \/ Run \/ Tick \/ Cancel \/ Close \/ Exit \/ Store
  PROVE  [AsCollector!CollectorNext]_(AsCollector!collectorVars)
<1> USE DEF ScrapeInv
<1>1. ~AsCollector!Panicked
  BY DEF AsCollector!Panicked, TypeOK
<1>2. CASE \E v \in Version \cup {0} : BuildClient(v)
  <2>1. /\ driver = "none" /\ driver' = "sync" /\ UNCHANGED <<cancelled, published>> /\ ~cancelled
        /\ ScrapeProgress = "none" /\ ScrapeProgress' = "pending"
    BY <1>2, ProgressOf DEF BuildClient, Begin, DriverAgrees, ScrapeProgress
  <2>2. AsCollector!Fresh(TheGen)
    BY <2>1 DEF AsCollector!Fresh
  <2>3. AsCollector!StartGoroutines(TheGen, {TheCluster})
    BY <2>1 DEF AsCollector!StartGoroutines
  <2>4. AsCollector!NewCollector(TheGen, {TheCluster}, 1)
    BY <2>1, <2>2, <2>3 DEF AsCollector!NewCollector
  <2> QED
    BY <1>1, <2>4 DEF AsCollector!CollectorNext
<1>3. CASE Run
  <2>1. /\ driver = "synced" /\ driver' = "select" /\ UNCHANGED <<cancelled, published>>
        /\ ScrapeProgress' = ScrapeProgress
    BY <1>3 DEF Run, scrapeVars, ScrapeProgress
  <2>2. AsCollector!Run(TheGen)
    BY <2>1 DEF AsCollector!Run
  <2> QED
    BY <1>1, <2>2 DEF AsCollector!CollectorNext
<1>4. CASE Tick
  <2>1. /\ driver = "select" /\ driver' = "cycle" /\ UNCHANGED <<cancelled, published>>
        /\ ScrapeProgress' = "pending"
    BY <1>4 DEF Tick, Begin, ScrapeProgress
  <2>2. AsCollector!Tick(TheGen)
    BY <2>1 DEF AsCollector!Tick, AsCollector!StartGoroutines, TypeOK
  <2> QED
    BY <1>1, <2>2 DEF AsCollector!CollectorNext, AsCollector!CollectorStep
<1>5. CASE Cancel
  <2>1. /\ driver \in {"select", "cycle"} /\ cancelled' = TRUE /\ UNCHANGED <<driver, published>>
        /\ ScrapeProgress' = ScrapeProgress
    BY <1>5 DEF Cancel, ScrapeProgress
  <2>2. AsCollector!Cancel(TheGen)
    BY <2>1 DEF AsCollector!Cancel, AsCollector!Looping
  <2> QED
    BY <1>1, <2>2 DEF AsCollector!CollectorNext
<1>6. CASE Close
  BY <1>6, StutterMaps DEF Close, scrapeVars, ScrapeProgress
<1>7. CASE Exit
  <2>1. /\ driver = "select" /\ cancelled /\ driver' = "exited" /\ UNCHANGED <<cancelled, published>>
        /\ ScrapeProgress' = ScrapeProgress
    BY <1>7 DEF Exit, scrapeVars, ScrapeProgress
  <2>2. AsCollector!Exit(TheGen)
    BY <2>1 DEF AsCollector!Exit
  <2> QED
    BY <1>1, <2>2 DEF AsCollector!CollectorNext, AsCollector!CollectorStep
<1>8. CASE Store
  <2>1. /\ driver \in {"sync", "cycle"} /\ UNCHANGED cancelled
        /\ driver' = IF driver = "sync" THEN "synced" ELSE "select"
        /\ ScrapeProgress = outcome /\ published' = outcome
        /\ outcome \in {"ok", "failed", "cancelled"}
        /\ ScrapeProgress' = "none"
    BY <1>8, ProgressOf DEF Store, TypeOK, DriverAgrees, ScrapeProgress
  <2>2. AsCollector!StoreSnapshot(TheGen)
    BY <2>1 DEF AsCollector!StoreSnapshot, AsCollector!AllReturned, AsCollector!BuildSnapshot,
                AsCollector!StartGoroutines, AsCollector!Returned
  <2>3. AsCollector!StoreInitial(TheGen) \/ AsCollector!Publish(TheGen)
    BY <2>1, <2>2 DEF AsCollector!StoreInitial, AsCollector!Publish
  <2> QED
    BY <1>1, <2>3 DEF AsCollector!CollectorNext, AsCollector!CollectorStep
<1> QED
  BY <1>2, <1>3, <1>4, <1>5, <1>6, <1>7, <1>8

\* The scrape of a cluster request by request, with LazyClient, the deadline
\* and Close, takes only the steps that module Collector gives a cluster: so
\* Isolation, SnapshotComplete and CancelReachesRequests, which are proved
\* there, hold of the requests of client.go.
THEOREM ScrapeRefinesCollector == Spec => ImplementsCollector
<1>1. Init => AsCollector!CollectorInit
  BY DEF Init, AsCollector!CollectorInit, AsCollector!EmptySnapshot, AsCollector!NoGen, ScrapeProgress
<1>2. ScrapeInv /\ [Next]_vars => [AsCollector!CollectorNext]_(AsCollector!collectorVars)
  <2> SUFFICES ASSUME ScrapeInv, [Next]_vars
               PROVE  [AsCollector!CollectorNext]_(AsCollector!collectorVars)
    OBVIOUS
  <2>1. ScrapeInv'
    BY ScrapeInductive
  <2>2. CASE UNCHANGED vars \/ Stopped
    BY <2>2, StutterMaps DEF Stopped, vars, ScrapeProgress
  <2> QED
    BY <2>1, <2>2, GetMaps, FetchMaps, FinishMaps, DriverMaps DEF Next
<1> QED
  BY <1>1, <1>2, ScrapeInvariant, PTL DEF Spec, ImplementsCollector, AsCollector!CollectorSpec
=============================================================================
