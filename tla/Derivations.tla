----------------------------- MODULE Derivations -----------------------------
(***************************************************************************)
(* From the answers of a cluster to its samples: what collectCluster         *)
(* (collector.go) and the fetches of client.go hand on when a request fails, *)
(* BuildSamples and its families (derivations.go), the label sets            *)
(* (metrics.go) and the statistic keys (statkeys.go).  The order and timing  *)
(* of the requests are module ClusterScrape; here a cycle collects the       *)
(* clusters in any order, each from one reply, and publishes them together.  *)
(***************************************************************************)
EXTENDS OneFS, Requests

CONSTANTS Cluster,       \* the names of the configured clusters
          Reply,         \* replies: endpoint -> payload, or Failed
          Failed,        \* a request that failed or a payload that did not decode
          ActiveStatus,  \* licence statuses that are, trimmed and in lower case,
                         \* "licensed", "activated" or "evaluation"
          StatKeySpecs,  \* the table of statisticsKeys.json
          Pending        \* no result: the cluster's goroutine has not returned

\* The configured clusters are finitely many.
ASSUME ClusterAssumption == IsFiniteSet(Cluster)

\* No key is listed twice, and no metric is fed by two keys.
ASSUME StatKeyAssumption ==
    \A i, j \in DOMAIN StatKeySpecs :
        /\ StatKeySpecs[i].divisor \in Nat
        /\ i # j => /\ StatKeySpecs[i].key # StatKeySpecs[j].key
                    /\ StatKeySpecs[i].metric # StatKeySpecs[j].metric

\* The metric of each of the nine usage fields; all are emitted.
PoolMetrics ==
    << <<"total_bytes", "powerscale_storagepool_total_capacity_bytes">>,
       <<"used_bytes", "powerscale_storagepool_used_capacity_bytes">>,
       <<"avail_bytes", "powerscale_storagepool_available_capacity_bytes">>,
       <<"total_ssd_bytes", "powerscale_storagepool_ssd_total_capacity_bytes">>,
       <<"used_ssd_bytes", "powerscale_storagepool_ssd_used_capacity_bytes">>,
       <<"avail_ssd_bytes", "powerscale_storagepool_ssd_available_capacity_bytes">>,
       <<"total_hdd_bytes", "powerscale_storagepool_hdd_total_capacity_bytes">>,
       <<"used_hdd_bytes", "powerscale_storagepool_hdd_used_capacity_bytes">>,
       <<"avail_hdd_bytes", "powerscale_storagepool_hdd_available_capacity_bytes">> >>

PoolFields == {PoolMetrics[i][1] : i \in DOMAIN PoolMetrics}

\* The endpoints whose payload is a list.
ListEndpoints ==
    {"cluster/nodes", "quota/quotas", "sync/policies", "eventgroup-occurrences", "license/licenses",
     "storagepools", "statistics/current", "summary/protocol", "summary/drive", "summary/client",
     "summary/workload"}

\* A reply has something for every request, and its lists are lists.
ASSUME ReplyAssumption ==
    \A r \in Reply :
        /\ DOMAIN r = Endpoints(Requests)
        /\ \A ep \in ListEndpoints : r[ep] # Failed => IsList(r[ep])
        /\ r["cluster/nodes"] # Failed => \A n \in Range(r["cluster/nodes"]) :
              /\ IsList(n.drives) /\ IsList(SensorGroups(n.sensors))
              /\ \A g \in Range(SensorGroups(n.sensors)) : IsList(g.values)

\* Where a number is read there is one, or what the parser tells from one.
ASSUME NumberAssumption ==
    \A r \in Reply :
        LET Rows(ep) == IF r[ep] = Failed THEN {} ELSE Range(r[ep])
            Have(ep, fields, numbers) == \A x \in Rows(ep), f \in fields : x[f] \in numbers
            Sums(ep, fields) == r[ep] # Failed => \A f \in fields : r[ep][f] \in Int \cup {Null}
            IsFlex(v) == v \in {Null, Other} \/ v[2] \in Int
        IN  /\ Have("cluster/nodes", {"supplies", "failures"}, Int)
            /\ \A n \in Rows("cluster/nodes") : \A g \in Range(SensorGroups(n.sensors)) :
                  \A v \in Range(g.values) : IsFlex(v.value)
            /\ Have("quota/quotas", {"usage", "app", "physical"}, Int)
            /\ Have("quota/quotas", {"ratio", "hard", "soft", "advisory"}, Int \cup {Null})
            /\ Sums("nfs/exports", {"total"}) /\ Sums("smb/shares", {"total"})
            /\ Sums("snapshot/snapshots", {"total"})
            /\ Sums("snapshots-summary", {"active_size", "size"})
            /\ Sums("dedupe-summary", {"saved_logical_blocks", "logical_blocks", "block_size"})
            /\ Have("license/licenses", {"expiration"}, Int \cup {Null, Other})
            /\ \A p \in Rows("storagepools") :
                  PoolFields \subseteq DOMAIN p.usage /\ \A f \in PoolFields : IsFlex(p.usage[f])
            /\ Have("statistics/current", {"value"}, Int \cup {Null, Other})
            /\ Have("summary/protocol", {"operation_rate", "time_avg"}, Int \cup {Null, Other})
            /\ \A p \in Rows("summary/protocol") :
                  \A s \in DOMAIN p.stages : p.stages[s] \in Int \cup {Null, Other}
            /\ Have("summary/drive", {"xfers_in", "xfers_out", "busy"}, Int)
            /\ Have("summary/client", {"operation_rate", "in", "out"}, Int)
            /\ Have("summary/workload", {"ops", "bytes_in", "bytes_out", "cpu"}, Int)

VARIABLES reply,   \* reply[c]: what cluster c answered in this cycle
          result   \* result[c]: its ClusterSnapshot, Pending until it is there

vars == <<reply, result>>

-----------------------------------------------------------------------------
(* Samples.  A label is a pair <<name, value>>, a value an exact quotient     *)
(* <<v, d>>; cl is a cluster's name and id, the first labels of every sample. *)

Sample(name, labels, v, d) == [Name |-> name, Labels |-> labels, Value |-> <<v, d>>]
Gauge(name, labels, v) == Sample(name, labels, v, 1)
b2f(b) == IF b THEN 1 ELSE 0

microsPerSecond == 1000000

baseLabels(cl) == << <<"cluster", cl.name>>, <<"cluster_id", cl.id>> >>
nodeLabels(cl, lnn) == baseLabels(cl) \o << <<"node", lnn>> >>
driveLabels(cl, lnn, state) == nodeLabels(cl, lnn) \o << <<"state", state>> >>
sensorLabels(cl, lnn, sensor) == nodeLabels(cl, lnn) \o << <<"sensor", sensor>> >>
hardwareInfoLabels(cl, lnn, hw) ==
    nodeLabels(cl, lnn) \o << <<"product", hw.product>>, <<"series", hw.series>>, <<"hwgen", hw.hwgen>> >>

quotaLabels_NoID(cl, q) ==
    baseLabels(cl) \o << <<"quota_path", q.path>>, <<"quota_type", q.type>> >>

quotaLabels(cl, q) ==
    baseLabels(cl) \o << <<"quota_id", q.id>>, <<"quota_path", q.path>>, <<"quota_type", q.type>> >>
policyLabels(cl, policy) == baseLabels(cl) \o << <<"policy", policy>> >>
severityLabels(cl, severity) == baseLabels(cl) \o << <<"severity", severity>> >>
licenseLabels(cl, name) == baseLabels(cl) \o << <<"name", name>> >>
licenseActiveLabels(cl, name, status) == licenseLabels(cl, name) \o << <<"status", status>> >>
storagePoolLabels(cl, p) == baseLabels(cl) \o << <<"pool", p.Name>>, <<"type", p.Type>> >>
protocolLabels(cl, p) ==
    nodeLabels(cl, p.Node) \o << <<"protocol", p.Protocol>>, <<"op", p.Operation>> >>
driveStatLabels(cl, d) == nodeLabels(cl, d.Node) \o << <<"bay", d.Bay>>, <<"type", d.Type>> >>
clientLabels(cl, c) ==
    nodeLabels(cl, c.Node) \o << <<"protocol", c.Protocol>>, <<"class", c.Class>> >>

WorkloadDimensions == <<"zone", "protocol", "username", "system_name", "job_type">>

workloadLabels_OmitsUnpinned(cl, w) ==
    nodeLabels(cl, w.Node) \o
        SelectSeq([i \in DOMAIN WorkloadDimensions |->
                      <<WorkloadDimensions[i], w.ID[WorkloadDimensions[i]]>>],
                  LAMBDA l : l[2] # "")

\* A dimension the dataset does not pin is the empty string, and is kept.
workloadLabels(cl, w) ==
    nodeLabels(cl, w.Node) \o
        [i \in DOMAIN WorkloadDimensions |-> <<WorkloadDimensions[i], w.ID[WorkloadDimensions[i]]>>]

-----------------------------------------------------------------------------
(* The families, in the order of BuildSamples.                              *)

HasSpec(p) == \E i \in DOMAIN StatKeySpecs : StatKeySpecs[i].key = p.Key
SpecOf(p) == CHOOSE s \in Range(StatKeySpecs) : s.key = p.Key

Scaled_ByOmitted(spec, labels, v) == Sample(spec.metric, labels, v, spec.divisor)

\* An omitted divisor passes the value through.
Scaled(spec, labels, v) == Sample(spec.metric, labels, v, IF spec.divisor = 0 THEN 1 ELSE spec.divisor)

lnnByDevID_Identity(nodes) == [d \in {nodes[i].ID : i \in DOMAIN nodes} |-> d]

\* The node number of each device; of two nodes with one device id, the last.
lnnByDevID(nodes) ==
    [d \in {nodes[i].ID : i \in DOMAIN nodes} |->
        nodes[SelectLastInSeq(nodes, LAMBDA n : n.ID = d)].LNN]

\* A node statistic of a device that is no node of the inventory is dropped.
statSamples(cl, current, nodes) ==
    LET lnn == lnnByDevID(nodes)
        Of(p) == LET spec == SpecOf(p)
                 IN  IF spec.scope # "node" THEN <<Scaled(spec, baseLabels(cl), p.Value)>>
                     ELSE When(p.DevID \in DOMAIN lnn,
                               Scaled(spec, nodeLabels(cl, lnn[p.DevID]), p.Value))
    IN  Each(Of, Only(HasSpec, current))

QuotaThreshold == [hard |-> "powerscale_quota_hard_threshold_bytes",
                   soft |-> "powerscale_quota_soft_threshold_bytes",
                   advisory |-> "powerscale_quota_advisory_threshold_bytes"]

OfQuota_Always(cl, q) ==
    LET labels == quotaLabels(cl, q)
    IN  <<Gauge("powerscale_quota_usage_bytes", labels, q.usage),
          Gauge("powerscale_quota_application_usage_bytes", labels, q.app),
          Gauge("powerscale_quota_physical_usage_bytes", labels, q.physical)>>
        \o When(q.ratio > 0, Gauge("powerscale_quota_reduction_ratio", labels, q.ratio))
        \o <<Gauge(QuotaThreshold.hard, labels, q.hard)>>
        \o When(q.soft > 0, Gauge(QuotaThreshold.soft, labels, q.soft))
        \o When(q.advisory > 0, Gauge(QuotaThreshold.advisory, labels, q.advisory))

OfQuota(cl, q) ==
    LET labels == quotaLabels(cl, q)
    IN  <<Gauge("powerscale_quota_usage_bytes", labels, q.usage),
          Gauge("powerscale_quota_application_usage_bytes", labels, q.app)>>
        \o When(q.physical > 0, Gauge("powerscale_quota_physical_usage_bytes", labels, q.physical))
        \o When(q.ratio > 0, Gauge("powerscale_quota_reduction_ratio", labels, q.ratio))
        \o When(q.hard > 0, Gauge(QuotaThreshold.hard, labels, q.hard))
        \o When(q.soft > 0, Gauge(QuotaThreshold.soft, labels, q.soft))
        \o When(q.advisory > 0, Gauge(QuotaThreshold.advisory, labels, q.advisory))

quotaSamples(cl, quotas) == Each(LAMBDA q : OfQuota(cl, q), quotas)

countSamples(cl, counts) ==
    <<Gauge("powerscale_nfs_exports", baseLabels(cl), counts.NFSExports),
      Gauge("powerscale_smb_shares", baseLabels(cl), counts.SMBShares),
      Gauge("powerscale_snapshots", baseLabels(cl), counts.Snapshots)>>

OfProtocol(cl, p) ==
    LET labels == protocolLabels(cl, p)
        Stage(s) == When(s \in DOMAIN p.StageAvg,
                         Sample("powerscale_protocol_latency_stage_seconds",
                                labels \o << <<"stage", s>> >>, p.StageAvg[s], microsPerSecond))
    IN  <<Gauge("powerscale_protocol_operations_per_second", labels, p.OperationRate),
          Sample("powerscale_protocol_latency_seconds", labels, p.LatencyAvg, microsPerSecond)>>
        \o Each(Stage, ProtocolStages)

protoSamples(cl, proto) == Each(LAMBDA p : OfProtocol(cl, p), proto)

\* The map of drive states is walked in no particular order.
OfNodeHealth(cl, n) ==
    LET base == nodeLabels(cl, n.LNN)
        Drives(state) == <<Gauge("powerscale_node_drives", driveLabels(cl, n.LNN, state),
                                 n.DrivesByState[state])>>
    IN  <<Gauge("powerscale_node_readonly", base, b2f(n.Readonly)),
          Gauge("powerscale_node_smartfail", base, b2f(n.Smartfail))>>
        \o Each(Drives, SetToSeq(DOMAIN n.DrivesByState))

nodeHealthSamples(cl, nodes) == Each(LAMBDA n : OfNodeHealth(cl, n), nodes)

OfHardware(cl, n) ==
    LET base == nodeLabels(cl, n.LNN)
        Reading(name, s) == <<Gauge(name, sensorLabels(cl, n.LNN, s.Name), s.Value)>>
    IN  When(\E f \in DOMAIN n.Hardware : n.Hardware[f] # "",
             Gauge("powerscale_node_hardware_info", hardwareInfoLabels(cl, n.LNN, n.Hardware), 1))
        \o When(n.PowerSupplies > 0, Gauge("powerscale_node_power_supplies", base, n.PowerSupplies))
        \o When(n.PowerSupplies > 0,
                Gauge("powerscale_node_power_supply_failures", base, n.PowerSupplyFailures))
        \o Each(LAMBDA t : Reading("powerscale_node_temperature_celsius", t), n.Temperatures)
        \o Each(LAMBDA f : Reading("powerscale_node_fan_speed_rpm", f), n.Fans)

hardwareSamples(cl, nodes) == Each(LAMBDA n : OfHardware(cl, n), nodes)

snapshotSamples(cl, used) == <<Gauge("powerscale_snapshot_used_bytes", baseLabels(cl), used)>>

syncFailureStates == {"failed", "needs_attention", "unknown"}

OfPolicy(cl, p) ==
    <<Gauge("powerscale_synciq_policy_enabled", policyLabels(cl, p.Name), b2f(p.Enabled)),
      Gauge("powerscale_synciq_last_run_failed", policyLabels(cl, p.Name),
            b2f(p.LastJobState \in syncFailureStates))>>

syncSamples(cl, policies) == Each(LAMBDA p : OfPolicy(cl, p), policies)

eventSamples(cl, events) ==
    Each(LAMBDA severity : <<Gauge("powerscale_active_events", severityLabels(cl, severity),
                                   events[severity])>>,
         SetToSeq(DOMAIN events))

dedupeSamples(cl, d) ==
    <<Gauge("powerscale_dedupe_logical_saved_bytes", baseLabels(cl), d.LogicalSaved),
      Gauge("powerscale_dedupe_deduplicated_bytes", baseLabels(cl), d.Deduplicated)>>

OfLicense(cl, l) ==
    <<Gauge("powerscale_license_expiration_timestamp_seconds", licenseLabels(cl, l.Name), l.Expiration),
      Gauge("powerscale_license_active", licenseActiveLabels(cl, l.Name, l.Status),
            b2f(l.Status \in ActiveStatus))>>

licenseSamples(cl, licenses) == Each(LAMBDA l : OfLicense(cl, l), licenses)

OfPool(cl, p) ==
    [i \in DOMAIN PoolMetrics |->
        Gauge(PoolMetrics[i][2], storagePoolLabels(cl, p), p.Usage[PoolMetrics[i][1]])]

storagePoolSamples(cl, pools) == Each(LAMBDA p : OfPool(cl, p), pools)

OfDrive(cl, d) ==
    <<Gauge("powerscale_drive_operations_per_second", driveStatLabels(cl, d), d.OpsPerSec),
      Gauge("powerscale_drive_busy_percent", driveStatLabels(cl, d), d.BusyPercent)>>

driveSamples(cl, drives) == Each(LAMBDA d : OfDrive(cl, d), drives)

OfClient(cl, c) ==
    <<Gauge("powerscale_client_operations_per_second", clientLabels(cl, c), c.OpsPerSec),
      Gauge("powerscale_client_in_bytes_per_second", clientLabels(cl, c), c.InBps),
      Gauge("powerscale_client_out_bytes_per_second", clientLabels(cl, c), c.OutBps)>>

clientSamples(cl, clients) == Each(LAMBDA c : OfClient(cl, c), clients)

OfWorkload(cl, w) ==
    LET labels == workloadLabels(cl, w)
    IN  <<Gauge("powerscale_workload_operations_per_second", labels, w.Ops),
          Gauge("powerscale_workload_in_bytes_per_second", labels, w.BytesIn),
          Gauge("powerscale_workload_out_bytes_per_second", labels, w.BytesOut),
          Sample("powerscale_workload_cpu_seconds_per_second", labels, w.CPUMicros, microsPerSecond)>>

workloadSamples(cl, workloads) == Each(LAMBDA w : OfWorkload(cl, w), workloads)

BuildSamples(name, inv, st) ==
    LET cl == [name |-> name, id |-> inv.Cluster.GUID]
    IN  statSamples(cl, st.Current, inv.Nodes) \o quotaSamples(cl, inv.Quotas)
        \o countSamples(cl, inv.Counts) \o protoSamples(cl, st.Proto)
        \o nodeHealthSamples(cl, inv.Nodes) \o hardwareSamples(cl, inv.Nodes)
        \o snapshotSamples(cl, inv.Snapshot) \o syncSamples(cl, inv.SyncPolicies)
        \o eventSamples(cl, inv.Events) \o dedupeSamples(cl, inv.Dedupe)
        \o licenseSamples(cl, inv.Licenses) \o storagePoolSamples(cl, inv.StoragePools)
        \o driveSamples(cl, st.Drives) \o clientSamples(cl, st.Clients)
        \o workloadSamples(cl, st.Workloads)

-----------------------------------------------------------------------------
(* One cluster's collection.                                                *)

\* A best-effort fetch yields its zero value when it fails.
Fetched(r, ep, Parse(_), zero) == IF r[ep] = Failed THEN zero ELSE Parse(r[ep])
Listed(r, ep, Parse(_)) == Fetched(r, ep, Parse, <<>>)

inventoryCounts(r) ==
    [NFSExports |-> Fetched(r, "nfs/exports", ParseTotal, 0),
     SMBShares |-> Fetched(r, "smb/shares", ParseTotal, 0),
     Snapshots |-> Fetched(r, "snapshot/snapshots", ParseTotal, 0)]

GetInventory(r) ==
    [Cluster |-> ParseClusterConfig(r["cluster/config"]),
     Nodes |-> ParseNodes(r["cluster/nodes"]),
     Quotas |-> ParseQuotas(r["quota/quotas"]),
     Counts |-> inventoryCounts(r),
     Snapshot |-> Fetched(r, "snapshots-summary", ParseSnapshotSummary, 0),
     SyncPolicies |-> Listed(r, "sync/policies", ParseSyncPolicies),
     Events |-> Listed(r, "eventgroup-occurrences", ParseEventOccurrences),
     Dedupe |-> Fetched(r, "dedupe-summary", ParseDedupeSummary,
                        [LogicalSaved |-> 0, Deduplicated |-> 0]),
     Licenses |-> Listed(r, "license/licenses", ParseLicenses),
     StoragePools |-> Listed(r, "storagepools", ParseStoragePools)]

GetStatistics_StopsAtFailure(r) ==
    LET proto == Listed(r, "summary/protocol", ParseProtocolSummary)
        Later(ep, Parse(_)) == IF r["summary/protocol"] = Failed THEN <<>> ELSE Listed(r, ep, Parse)
    IN  [Current |-> ParseStatCurrent(r["statistics/current"]), Proto |-> proto,
         Drives |-> Later("summary/drive", ParseDriveSummary),
         Clients |-> Later("summary/client", ParseClientSummary),
         Workloads |-> Later("summary/workload", ParseWorkloadSummary)]

GetStatistics(r) ==
    [Current |-> ParseStatCurrent(r["statistics/current"]),
     Proto |-> Listed(r, "summary/protocol", ParseProtocolSummary),
     Drives |-> Listed(r, "summary/drive", ParseDriveSummary),
     Clients |-> Listed(r, "summary/client", ParseClientSummary),
     Workloads |-> Listed(r, "summary/workload", ParseWorkloadSummary)]

\* A cluster with a failed required request is down and has no samples.
CollectCluster(c, r) ==
    IF \E ep \in RequiredEndpoints(Requests) : r[ep] = Failed
    THEN [Up |-> FALSE, Samples |-> <<>>]
    ELSE [Up |-> TRUE, Samples |-> BuildSamples(c, GetInventory(r), GetStatistics(r))]

\* Neither a reply nor a result is taken for one that is not there.
ASSUME PendingAssumption ==
    \A r \in Reply : r # Pending /\ \A c \in Cluster : CollectCluster(c, r) # Pending

-----------------------------------------------------------------------------
Init ==
    /\ reply = [c \in Cluster |-> Pending]
    /\ result = [c \in Cluster |-> Pending]

\* The goroutine of cluster c returns.
Collect(c) ==
    /\ result[c] = Pending
    /\ \E r \in Reply :
          /\ reply' = [reply EXCEPT ![c] = r]
          /\ result' = [result EXCEPT ![c] = CollectCluster(c, r)]

\* All have returned and their results are published; the next cycle begins.
NextCycle ==
    /\ \A c \in Cluster : result[c] # Pending
    /\ reply' = [c \in Cluster |-> Pending]
    /\ result' = [c \in Cluster |-> Pending]

Next == NextCycle \/ \E c \in Cluster : Collect(c)

Spec == Init /\ [][Next]_vars

-----------------------------------------------------------------------------
(* What the properties speak of.                                            *)

Collected == {c \in Cluster : result[c] # Pending}
Samples(c) == result[c].Samples
All == UNION {Range(Samples(c)) : c \in Collected}

\* Where the samples are: a cluster and an index into its list.
Places == UNION {{<<c, i>> : i \in DOMAIN Samples(c)} : c \in Collected}

Series(s) == <<s.Name, s.Labels>>
LabelNames(s) == [i \in DOMAIN s.Labels |-> s.Labels[i][1]]
Total(samples) == MapThenSumSet(LAMBDA s : s.Value[1], samples)
Has(s, name, value) == \E i \in DOMAIN s.Labels : s.Labels[i] = <<name, value>>

Distinct(Key(_), rows) == \A i, j \in DOMAIN rows : Key(rows[i]) = Key(rows[j]) => i = j

\* A statistic of the cluster, not of a node.
ClusterWide(key) == HasSpec([Key |-> key]) /\ SpecOf([Key |-> key]).scope # "node"

\* The rows of a reply are of distinct things; of a statistic of the cluster there
\* is one row.  A failed request has no rows.  The rows of summaries are told apart
\* as parsed, where a missing field and its zero are one.
DistinctRows(r) ==
    LET Rows(ep, Key(_)) == r[ep] # Failed => Distinct(Key, r[ep])
    IN  /\ Rows("cluster/nodes", LAMBDA n : n.id) /\ Rows("cluster/nodes", LAMBDA n : n.lnn)
        /\ \A n \in Range(ParseNodes(r["cluster/nodes"])) :
              Distinct(LAMBDA t : t.Name, n.Temperatures) /\ Distinct(LAMBDA f : f.Name, n.Fans)
        /\ Rows("quota/quotas", LAMBDA q : q.id)
        /\ Rows("sync/policies", LAMBDA p : p.name)
        /\ Rows("license/licenses", LAMBDA l : l.name)
        /\ Rows("storagepools", LAMBDA p : <<p.name, p.type>>)
        /\ Rows("statistics/current",
                LAMBDA s : IF ClusterWide(s.key) THEN <<s.key>> ELSE <<s.key, s.devid>>)
        /\ Distinct(LAMBDA p : <<p.Node, p.Protocol, p.Operation>>,
                    Listed(r, "summary/protocol", ParseProtocolSummary))
        /\ Distinct(LAMBDA d : <<d.Node, d.Bay>>, Listed(r, "summary/drive", ParseDriveSummary))
        /\ Rows("summary/client", LAMBDA c : <<c.node, c.protocol, c.class>>)
        /\ Distinct(LAMBDA w : <<w.Node, [i \in DOMAIN WorkloadDimensions |->
                                            w.ID[WorkloadDimensions[i]]]>>,
                    Listed(r, "summary/workload", ParseWorkloadSummary))

QuotaMetrics ==
    {"powerscale_quota_usage_bytes", "powerscale_quota_application_usage_bytes",
     "powerscale_quota_physical_usage_bytes", "powerscale_quota_reduction_ratio"}
    \cup Range(QuotaThreshold)

NodeMetrics ==
    {"powerscale_node_readonly", "powerscale_node_smartfail", "powerscale_node_drives",
     "powerscale_node_hardware_info", "powerscale_node_power_supplies",
     "powerscale_node_power_supply_failures", "powerscale_node_temperature_celsius",
     "powerscale_node_fan_speed_rpm"}

\* The metrics of each best-effort request.
FamilyOf ==
    [ep \in Endpoints(Requests) \ RequiredEndpoints(Requests) |->
        CASE ep = "nfs/exports" -> {"powerscale_nfs_exports"}
          [] ep = "smb/shares" -> {"powerscale_smb_shares"}
          [] ep = "snapshot/snapshots" -> {"powerscale_snapshots"}
          [] ep = "snapshots-summary" -> {"powerscale_snapshot_used_bytes"}
          [] ep = "dedupe-summary" -> {"powerscale_dedupe_logical_saved_bytes",
                                       "powerscale_dedupe_deduplicated_bytes"}
          [] ep = "sync/policies" -> {"powerscale_synciq_policy_enabled",
                                      "powerscale_synciq_last_run_failed"}
          [] ep = "eventgroup-occurrences" -> {"powerscale_active_events"}
          [] ep = "license/licenses" -> {"powerscale_license_expiration_timestamp_seconds",
                                         "powerscale_license_active"}
          [] ep = "storagepools" -> {PoolMetrics[i][2] : i \in DOMAIN PoolMetrics}
          [] ep = "summary/protocol" -> {"powerscale_protocol_operations_per_second",
                                         "powerscale_protocol_latency_seconds",
                                         "powerscale_protocol_latency_stage_seconds"}
          [] ep = "summary/drive" -> {"powerscale_drive_operations_per_second",
                                      "powerscale_drive_busy_percent"}
          [] ep = "summary/client" -> {"powerscale_client_operations_per_second",
                                       "powerscale_client_in_bytes_per_second",
                                       "powerscale_client_out_bytes_per_second"}
          [] ep = "summary/workload" -> {"powerscale_workload_operations_per_second",
                                         "powerscale_workload_in_bytes_per_second",
                                         "powerscale_workload_out_bytes_per_second",
                                         "powerscale_workload_cpu_seconds_per_second"}]

StatMetrics == {StatKeySpecs[i].metric : i \in DOMAIN StatKeySpecs}
Metrics == StatMetrics \cup QuotaMetrics \cup NodeMetrics
           \cup UNION {FamilyOf[ep] : ep \in DOMAIN FamilyOf}

Lost(r) == UNION {FamilyOf[ep] : ep \in {e \in DOMAIN FamilyOf : r[e] = Failed}}

\* No key of the table feeds a metric of another family.
ASSUME StatMetricAssumption ==
    \A i \in DOMAIN StatKeySpecs :
        StatKeySpecs[i].metric \notin
            QuotaMetrics \cup NodeMetrics \cup UNION {FamilyOf[ep] : ep \in DOMAIN FamilyOf}

\* q is r with its failed requests answered.
Completes(q, r) == \A ep \in DOMAIN r : q[ep] # Failed /\ (r[ep] # Failed => q[ep] = r[ep])

-----------------------------------------------------------------------------
(* Properties.                                                              *)

\* The type of the state; a sample is of a known metric and of the cluster that was
\* asked, and its value is no division by zero.
TypeOK ==
    /\ reply \in [Cluster -> Reply \cup {Pending}]
    /\ \A c \in Cluster : (result[c] = Pending) <=> (reply[c] = Pending)
    /\ \A c \in Collected :
          /\ result[c].Up \in BOOLEAN
          /\ \A s \in Range(Samples(c)) :
                /\ s.Name \in Metrics /\ s.Labels[1] = <<"cluster", c>>
                /\ s.Value[1] \in Int /\ s.Value[2] \in Nat \ {0}

\* All samples of a metric have the same label names, whatever the clusters and
\* rows they are from: PromCollector.Collect (prometheus.go) describes a metric by
\* its first sample and drops those that do not fit.
LabelsAgree ==
    LET described == {<<s.Name, LabelNames(s)>> : s \in All}
    IN  \A d, e \in described : d[1] = e[1] => d = e

\* Rows of distinct things have distinct series, so that none is dropped as a
\* duplicate by PromCollector.Collect or overwritten in an OTLP gauge.
UniqueSeries ==
    (\A c \in Collected : result[c].Up => DistinctRows(reply[c])) =>
        Cardinality({Series(Samples(p[1])[p[2]]) : p \in Places}) = Cardinality(Places)

\* A node's statistic carries the number of the node whose device the row is of,
\* although the rows name devices and the other metrics of a node its number; a
\* device that is no node of the inventory has none.
NodeAttribution ==
    \A c \in Collected : result[c].Up /\ DistinctRows(reply[c]) =>
        LET rows == Range(reply[c]["statistics/current"])
            nodes == Range(reply[c]["cluster/nodes"])
        IN  \A i \in DOMAIN StatKeySpecs : StatKeySpecs[i].scope = "node" =>
              LET spec == StatKeySpecs[i]
                  read == {p \in rows \X nodes : /\ p[1].key = spec.key /\ Usable(p[1])
                                                 /\ p[1].devid = p[2].id}
                  made == {s \in Range(Samples(c)) : s.Name = spec.metric}
              IN  {<<p[2].lnn, Deref(p[1].value)>> : p \in read}
                    = {<<s.Labels[3][2], s.Value[1]>> : s \in made}

\* Every drive in a bay is counted in one state, an empty bay in none, and every
\* unresolved event in one severity: the sums over the states and severities, on
\* which the alerts are built, lose nothing.
HealthTotals ==
    \A c \in Collected : result[c].Up =>
        LET Of(name) == {s \in Range(Samples(c)) : s.Name = name}
            nodes == reply[c]["cluster/nodes"]
            events == reply[c]["eventgroup-occurrences"]
        IN  /\ DistinctRows(reply[c]) => \A n \in Range(nodes) :
                  Total({s \in Of("powerscale_node_drives") : Has(s, "node", n.lnn)})
                    = Cardinality({i \in DOMAIN n.drives : n.drives[i].present # FALSE})
            /\ Total(Of("powerscale_active_events"))
                    = IF events = Failed THEN 0
                      ELSE Cardinality({i \in DOMAIN events : ~events[i].resolved})

\* What the cluster does not report is not exported as a 0 that looks measured:
\* a threshold that is not set, a reduction ratio not there yet, the power
\* supplies of a node that lists none, a statistic in error.
AbsentNotZero ==
    \A c \in Collected : result[c].Up /\ DistinctRows(reply[c]) =>
        LET Exported(name, label, value) ==
                \E s \in Range(Samples(c)) : s.Name = name /\ Has(s, label, value)
        IN  /\ \A q \in Range(reply[c]["quota/quotas"]) :
                  /\ \A t \in DOMAIN QuotaThreshold :
                        q[t] = Null => ~Exported(QuotaThreshold[t], "quota_id", q.id)
                  /\ q.ratio = Null => ~Exported("powerscale_quota_reduction_ratio", "quota_id", q.id)
            /\ \A n \in Range(reply[c]["cluster/nodes"]) : n.supplies = 0 =>
                  ~Exported("powerscale_node_power_supply_failures", "node", n.lnn)
            /\ \A s \in Range(reply[c]["statistics/current"]) :
                  s.error # Null /\ HasSpec([Key |-> s.key]) =>
                      LET spec == SpecOf([Key |-> s.key])
                      IN  ~\E x \in Range(Samples(c)) :
                              /\ x.Name = spec.metric
                              /\ spec.scope = "node" =>
                                    \E n \in Range(reply[c]["cluster/nodes"]) :
                                        n.id = s.devid /\ Has(x, "node", n.lnn)

\* A failed best-effort request costs at most its own metrics: every other is as it
\* would have been had the request been answered, the metrics of other requests,
\* of those after it too, and of those that failed with it.
LossIsLocal ==
    \A c \in Collected : result[c].Up =>
        \A q \in {x \in Reply : Completes(x, reply[c])} :
            LET Others(samples) == {s \in Range(samples) : s.Name \notin Lost(reply[c])}
            IN  Others(Samples(c)) = Others(CollectCluster(c, q).Samples)

-----------------------------------------------------------------------------
(* What the repository says and the code does not do.                       *)

\* Two pages say what a best-effort request that fails leaves behind: by docs/
\* metrics.md:165 those of its section Data protection emit "no series", by
\* docs/troubleshooting.md:33 every one "leaves its metrics at zero".  One of
\* them describes each cluster.
FailureIsDocumented ==
    \A c \in Collected : result[c].Up =>
        LET failed == {ep \in DOMAIN FamilyOf : reply[c][ep] = Failed}
            Left(ep) == {s \in Range(Samples(c)) : s.Name \in FamilyOf[ep]}
            DataProtection == {"snapshots-summary", "sync/policies", "eventgroup-occurrences"}
        IN  \/ \A ep \in failed \cap DataProtection : Left(ep) = {}
            \/ \A ep \in failed : /\ FamilyOf[ep] = {s.Name : s \in Left(ep)}
                                   /\ \A s \in Left(ep) : s.Value[1] = 0

\* docs/metrics.md:247: the client metrics are "aggregated by node / protocol /
\* class": the remote clients of a class are one series with the sum of their rates.
ClientsAggregated ==
    \A c \in Collected : result[c].Up /\ reply[c]["summary/client"] # Failed =>
        LET rows == reply[c]["summary/client"]
            Class(i) == <<rows[i].node, rows[i].protocol, rows[i].class>>
        IN  \A i \in DOMAIN rows :
                \E s \in Range(Samples(c)) :
                    /\ s.Name = "powerscale_client_operations_per_second"
                    /\ Has(s, "node", rows[i].node) /\ Has(s, "protocol", rows[i].protocol)
                    /\ Has(s, "class", rows[i].class)
                    /\ s.Value[1] = MapThenSumSet(LAMBDA j : rows[j].operation_rate,
                                                  {j \in DOMAIN rows : Class(j) = Class(i)})
=============================================================================
