-------------------------- MODULE DerivationsProofs --------------------------
(***************************************************************************)
(* Theorems about module Derivations: for any replies, any number of rows in *)
(* them and any number of clusters.                                         *)
(***************************************************************************)
EXTENDS Derivations, SequenceFacts, TLAPS

-----------------------------------------------------------------------------
(* Loops over rows.                                                         *)

\* A list is what holds its range.
LEMMA ListHolds == \A s : IsList(s) <=> Holds(s, Range(s))
  BY DEF IsList, Holds

\* What holds a set is a list with that range.
LEMMA HoldsList == \A s, R : Holds(s, R) => IsList(s) /\ Range(s) = R
  BY DEF IsList, Holds

\* What a function over the rows of a list holds is a list.
LEMMA MappedIsList ==
  ASSUME NEW rows, IsList(rows), NEW ss, ss = [i \in DOMAIN rows |-> ss[i]]
  PROVE  IsList(ss) /\ DOMAIN ss = DOMAIN rows
<1>1. PICK n \in Nat : DOMAIN rows = 1..n
  BY ListDomain DEF IsList
<1>2. DOMAIN ss = DOMAIN rows
  BY Zenon
<1> QED
  BY <1>1, <1>2, FunctionIsList DEF IsList

\* What a loop over rows appends (Each).
LEMMA EachHolds ==
  ASSUME NEW rows, IsList(rows), NEW ss, ss = [i \in DOMAIN rows |-> ss[i]],
         NEW R, \A i \in DOMAIN rows : Holds(ss[i], R[i])
  PROVE  Holds(FlattenSeq(ss), UNION {R[i] : i \in DOMAIN rows})
<1>1. PICK n \in Nat : DOMAIN rows = 1..n
  BY ListDomain DEF IsList
<1> QED
  BY <1>1, FlattenHolds

\* A loop over rows appends the samples of each row.
LEMMA EachLists ==
  ASSUME NEW rows, IsList(rows), NEW ss, ss = [i \in DOMAIN rows |-> ss[i]],
         \A i \in DOMAIN rows : IsList(ss[i])
  PROVE  Holds(FlattenSeq(ss), UNION {Range(ss[i]) : i \in DOMAIN rows})
<1> DEFINE R == [i \in DOMAIN rows |-> Range(ss[i])]
<1>1. \A i \in DOMAIN rows : Holds(ss[i], R[i])
  BY ListHolds
<1>2. UNION {R[i] : i \in DOMAIN rows} = UNION {Range(ss[i]) : i \in DOMAIN rows}
  OBVIOUS
<1> HIDE DEF R
<1>3. Holds(FlattenSeq(ss), UNION {R[i] : i \in DOMAIN rows})
  BY <1>1, EachHolds
<1> QED
  BY <1>2, <1>3

\* The rows in T.
LEMMA OnlyHolds ==
  ASSUME NEW rows, IsList(rows), NEW T
  PROVE  Holds(FlattenSeq([i \in DOMAIN rows |-> When(rows[i] \in T, rows[i])]), Range(rows) \cap T)
<1> DEFINE ss == [i \in DOMAIN rows |-> When(rows[i] \in T, rows[i])]
           R == [i \in DOMAIN rows |-> IF rows[i] \in T THEN {rows[i]} ELSE {}]
<1>1. ASSUME NEW i \in DOMAIN rows PROVE Holds(ss[i], R[i])
  BY Holding DEF When
<1>2. ss = [i \in DOMAIN rows |-> ss[i]]
  OBVIOUS
<1>3. UNION {R[i] : i \in DOMAIN rows} = Range(rows) \cap T
  BY DEF Range
<1> HIDE DEF ss, R
<1>4. Holds(FlattenSeq(ss), UNION {R[i] : i \in DOMAIN rows})
  BY <1>1, <1>2, EachHolds
<1> QED
  BY <1>3, <1>4 DEF ss

\* What each filter of the parsers and of statSamples passes.
LEMMA OnlyUsable ==
  ASSUME NEW rows, IsList(rows)
  PROVE  Holds(Only(Usable, rows), {x \in Range(rows) : Usable(x)})
<1> DEFINE T == {x \in Range(rows) : Usable(x)}
<1>1. Only(Usable, rows) = FlattenSeq([i \in DOMAIN rows |-> When(rows[i] \in T, rows[i])])
  BY DEF Only, Each, When, Range
<1>2. Range(rows) \cap T = T
  OBVIOUS
<1> HIDE DEF T
<1>3. Holds(Only(Usable, rows), Range(rows) \cap T)
  BY <1>1, OnlyHolds
<1> QED
  BY <1>2, <1>3 DEF T

\* A filter of a list is a list: the drives whose id splits,
LEMMA OnlyDriveIDOk ==
  ASSUME NEW rows, IsList(rows)
  PROVE  IsList(Only(DriveIDOk, rows))
<1> DEFINE T == {x \in Range(rows) : DriveIDOk(x)}
<1>1. Only(DriveIDOk, rows) = FlattenSeq([i \in DOMAIN rows |-> When(rows[i] \in T, rows[i])])
  BY DEF Only, Each, When, Range
<1> HIDE DEF T
<1>2. Holds(Only(DriveIDOk, rows), Range(rows) \cap T)
  BY <1>1, OnlyHolds
<1> QED
  BY <1>2, HoldsList

\* the drives that are present,
LEMMA OnlyInstalled ==
  ASSUME NEW rows, IsList(rows)
  PROVE  IsList(Only(Installed, rows))
<1> DEFINE T == {x \in Range(rows) : Installed(x)}
<1>1. Only(Installed, rows) = FlattenSeq([i \in DOMAIN rows |-> When(rows[i] \in T, rows[i])])
  BY DEF Only, Each, When, Range
<1> HIDE DEF T
<1>2. Holds(Only(Installed, rows), Range(rows) \cap T)
  BY <1>1, OnlyHolds
<1> QED
  BY <1>2, HoldsList

\* the events that are unresolved,
LEMMA OnlyUnresolved ==
  ASSUME NEW rows, IsList(rows)
  PROVE  IsList(Only(Unresolved, rows))
<1> DEFINE T == {x \in Range(rows) : Unresolved(x)}
<1>1. Only(Unresolved, rows) = FlattenSeq([i \in DOMAIN rows |-> When(rows[i] \in T, rows[i])])
  BY DEF Only, Each, When, Range
<1> HIDE DEF T
<1>2. Holds(Only(Unresolved, rows), Range(rows) \cap T)
  BY <1>1, OnlyHolds
<1> QED
  BY <1>2, HoldsList

\* the statistics that the table knows, here with the rows that are kept.
LEMMA OnlyHasSpec ==
  ASSUME NEW rows, IsList(rows)
  PROVE  Holds(Only(HasSpec, rows), {x \in Range(rows) : HasSpec(x)})
<1> DEFINE T == {x \in Range(rows) : HasSpec(x)}
<1>1. Only(HasSpec, rows) = FlattenSeq([i \in DOMAIN rows |-> When(rows[i] \in T, rows[i])])
  BY DEF Only, Each, When, Range
<1>2. Range(rows) \cap T = T
  OBVIOUS
<1> HIDE DEF T
<1>3. Holds(Only(HasSpec, rows), Range(rows) \cap T)
  BY <1>1, OnlyHolds
<1> QED
  BY <1>2, <1>3 DEF T

-----------------------------------------------------------------------------
(* What is parsed are lists.                                                *)

\* The parsers that keep every row.
LEMMA ParsedRows ==
  ASSUME NEW rows, IsList(rows)
  PROVE  /\ IsList(ParseQuotas(rows)) /\ IsList(ParseSyncPolicies(rows))
         /\ IsList(ParseLicenses(rows)) /\ IsList(ParseStoragePools(rows))
         /\ IsList(ParseProtocolSummary(rows)) /\ IsList(ParseClientSummary(rows))
         /\ IsList(ParseWorkloadSummary(rows))
<1>1. IsList(ParseQuotas(rows))
  <2> DEFINE ss == ParseQuotas(rows)
  <2>1. ss = [i \in DOMAIN rows |-> ss[i]]
    BY DEF ParseQuotas
  <2> HIDE DEF ss
  <2>2. IsList(ss)
    BY <2>1, MappedIsList
  <2> QED
    BY <2>2 DEF ss
<1>2. IsList(ParseSyncPolicies(rows))
  <2> DEFINE ss == ParseSyncPolicies(rows)
  <2>1. ss = [i \in DOMAIN rows |-> ss[i]]
    BY DEF ParseSyncPolicies
  <2> HIDE DEF ss
  <2>2. IsList(ss)
    BY <2>1, MappedIsList
  <2> QED
    BY <2>2 DEF ss
<1>3. IsList(ParseLicenses(rows))
  <2> DEFINE ss == ParseLicenses(rows)
  <2>1. ss = [i \in DOMAIN rows |-> ss[i]]
    BY DEF ParseLicenses
  <2> HIDE DEF ss
  <2>2. IsList(ss)
    BY <2>1, MappedIsList
  <2> QED
    BY <2>2 DEF ss
<1>4. IsList(ParseStoragePools(rows))
  <2> DEFINE ss == ParseStoragePools(rows)
  <2>1. ss = [i \in DOMAIN rows |-> ss[i]]
    BY DEF ParseStoragePools
  <2> HIDE DEF ss
  <2>2. IsList(ss)
    BY <2>1, MappedIsList
  <2> QED
    BY <2>2 DEF ss
<1>5. IsList(ParseProtocolSummary(rows))
  <2> DEFINE ss == ParseProtocolSummary(rows)
  <2>1. ss = [i \in DOMAIN rows |-> ss[i]]
    BY DEF ParseProtocolSummary
  <2> HIDE DEF ss
  <2>2. IsList(ss)
    BY <2>1, MappedIsList
  <2> QED
    BY <2>2 DEF ss
<1>6. IsList(ParseClientSummary(rows))
  <2> DEFINE ss == ParseClientSummary(rows)
  <2>1. ss = [i \in DOMAIN rows |-> ss[i]]
    BY DEF ParseClientSummary
  <2> HIDE DEF ss
  <2>2. IsList(ss)
    BY <2>1, MappedIsList
  <2> QED
    BY <2>2 DEF ss
<1>7. IsList(ParseWorkloadSummary(rows))
  <2> DEFINE ss == ParseWorkloadSummary(rows)
  <2>1. ss = [i \in DOMAIN rows |-> ss[i]]
    BY DEF ParseWorkloadSummary
  <2> HIDE DEF ss
  <2>2. IsList(ss)
    BY <2>1, MappedIsList
  <2> QED
    BY <2>2 DEF ss
<1> QED
  BY <1>1, <1>2, <1>3, <1>4, <1>5, <1>6, <1>7

\* ParseDriveSummary makes a list.
LEMMA ParsedDrives ==
  ASSUME NEW rows, IsList(rows)
  PROVE  IsList(ParseDriveSummary(rows))
<1> DEFINE ok == Only(DriveIDOk, rows)
           ss == ParseDriveSummary(rows)
<1>1. IsList(ok)
  BY OnlyDriveIDOk
<1>2. ss = [i \in DOMAIN ok |-> ss[i]]
  BY DEF ParseDriveSummary
<1> HIDE DEF ok, ss
<1>3. IsList(ss)
  BY <1>1, <1>2, MappedIsList
<1> QED
  BY <1>3 DEF ss

\* The statistics that are read: one for each usable row, with its fields.
LEMMA ParsedStatistics ==
  ASSUME NEW rows, IsList(rows)
  PROVE  /\ IsList(ParseStatCurrent(rows))
         /\ Range(ParseStatCurrent(rows)) =
               {[Key |-> x.key, DevID |-> x.devid, Value |-> Deref(x.value)] :
                   x \in {y \in Range(rows) : Usable(y)}}
<1> DEFINE usable == Only(Usable, rows)
           ss == [i \in DOMAIN usable |->
                    [Key |-> usable[i].key, DevID |-> usable[i].devid, Value |-> Deref(usable[i].value)]]
<1>1. IsList(usable) /\ Range(usable) = {y \in Range(rows) : Usable(y)}
  <2> HIDE DEF usable
  <2>1. Holds(usable, {y \in Range(rows) : Usable(y)})
    BY OnlyUsable DEF usable
  <2> QED
    BY <2>1, HoldsList
<1>2. ParseStatCurrent(rows) = ss
  BY DEF ParseStatCurrent
<1> HIDE DEF usable
<1>3. ss = [i \in DOMAIN usable |-> ss[i]] /\ DOMAIN ss = DOMAIN usable
  OBVIOUS
<1>4. Range(ss) = {[Key |-> x.key, DevID |-> x.devid, Value |-> Deref(x.value)] : x \in Range(usable)}
  BY DEF Range
<1> HIDE DEF ss
<1>5. IsList(ss)
  BY <1>1, <1>3, MappedIsList
<1> QED
  BY <1>1, <1>2, <1>4, <1>5

\* Few enough keys to walk.
LEMMA CountedKeys ==
  ASSUME NEW rows, IsList(rows)
  PROVE  /\ IsFiniteSet(DOMAIN CountBy(DriveState, rows))
         /\ IsFiniteSet(DOMAIN CountBy(Severity, rows))
<1>1. IsFiniteSet(DOMAIN CountBy(DriveState, rows))
  <2> DEFINE ss == [i \in DOMAIN rows |-> DriveState(rows[i])]
  <2>1. DOMAIN CountBy(DriveState, rows) = Range(ss)
    BY DEF CountBy, Range
  <2>2. ss = [i \in DOMAIN rows |-> ss[i]]
    OBVIOUS
  <2> HIDE DEF ss
  <2>3. IsList(ss)
    BY <2>2, MappedIsList
  <2> QED
    BY <2>1, <2>3, ListIsFinite DEF IsList
<1>2. IsFiniteSet(DOMAIN CountBy(Severity, rows))
  <2> DEFINE ss == [i \in DOMAIN rows |-> Severity(rows[i])]
  <2>1. DOMAIN CountBy(Severity, rows) = Range(ss)
    BY DEF CountBy, Range
  <2>2. ss = [i \in DOMAIN rows |-> ss[i]]
    OBVIOUS
  <2> HIDE DEF ss
  <2>3. IsList(ss)
    BY <2>2, MappedIsList
  <2> QED
    BY <2>1, <2>3, ListIsFinite DEF IsList
<1> QED
  BY <1>1, <1>2

\* The readings of a node's sensors.
LEMMA ReadingsAreLists ==
  ASSUME NEW s, IsList(SensorGroups(s)), \A g \in Range(SensorGroups(s)) : IsList(g.values), NEW names
  PROVE  IsList(Readings(s, names))
<1> DEFINE groups == SensorGroups(s)
           ss == [i \in DOMAIN groups |->
                    IF groups[i].name \in names
                    THEN [j \in DOMAIN groups[i].values |->
                            [Name |-> groups[i].values[j].name, Value |-> Flex(groups[i].values[j].value)]]
                    ELSE <<>>]
<1>1. Readings(s, names) = FlattenSeq(ss)
  BY DEF Readings, Each
<1> HIDE DEF groups
<1>2. ss = [i \in DOMAIN groups |-> ss[i]]
  OBVIOUS
<1>3. ASSUME NEW i \in DOMAIN groups PROVE IsList(ss[i])
  <2> DEFINE values == groups[i].values
             vs == [j \in DOMAIN values |-> [Name |-> values[j].name, Value |-> Flex(values[j].value)]]
  <2>1. IsList(values)
    BY DEF groups, Range
  <2>2. vs = [j \in DOMAIN values |-> vs[j]]
    OBVIOUS
  <2>3. ss[i] = IF groups[i].name \in names THEN vs ELSE <<>>
    OBVIOUS
  <2> HIDE DEF values, vs, ss
  <2>4. IsList(vs) /\ IsList(<<>>)
    BY <2>1, <2>2, MappedIsList, Holding, HoldsList
  <2> QED
    BY <2>3, <2>4
<1> HIDE DEF ss
<1>4. Holds(FlattenSeq(ss), UNION {Range(ss[i]) : i \in DOMAIN groups})
  BY <1>2, <1>3, EachLists DEF groups
<1> QED
  BY <1>1, <1>4, HoldsList

\* What a node's samples are made of.
NodeOK(n) ==
    IsFiniteSet(DOMAIN n.DrivesByState) /\ IsList(n.Temperatures) /\ IsList(n.Fans)

\* ParseNodes keeps the nodes, in order, and makes the parts of each lists.
LEMMA ParsedNodes ==
  ASSUME NEW rows, IsList(rows),
         \A n \in Range(rows) :
            /\ IsList(n.drives) /\ IsList(SensorGroups(n.sensors))
            /\ \A g \in Range(SensorGroups(n.sensors)) : IsList(g.values)
  PROVE  /\ IsList(ParseNodes(rows)) /\ DOMAIN ParseNodes(rows) = DOMAIN rows
         /\ \A i \in DOMAIN rows : ParseNodes(rows)[i] = ParseNode(rows[i])
         /\ \A i \in DOMAIN rows : NodeOK(ParseNodes(rows)[i])
<1> DEFINE ss == ParseNodes(rows)
<1>1. ss = [i \in DOMAIN rows |-> ss[i]] /\ \A i \in DOMAIN rows : ss[i] = ParseNode(rows[i])
  BY DEF ParseNodes
<1> HIDE DEF ss
<1>2. IsList(ss) /\ DOMAIN ss = DOMAIN rows
  BY <1>1, MappedIsList
<1>3. ASSUME NEW i \in DOMAIN rows PROVE NodeOK(ss[i])
  <2> DEFINE n == rows[i]
  <2>1. n \in Range(rows)
    BY DEF Range
  <2>2. /\ ss[i].DrivesByState = CountBy(DriveState, Only(Installed, n.drives))
        /\ ss[i].Temperatures = Readings(n.sensors, TempGroup)
        /\ ss[i].Fans = Readings(n.sensors, FanGroup \ TempGroup)
    <3>1. ss[i] = ParseNode(n)
      BY <1>1
    <3> HIDE DEF n
    <3> DEFINE drives == CountBy(DriveState, Only(Installed, n.drives))
               temps == Readings(n.sensors, TempGroup)
               fans == Readings(n.sensors, FanGroup \ TempGroup)
    <3>2. ParseNode(n) =
            [ID |-> n.id, LNN |-> n.lnn, Readonly |-> n.readonly, Smartfail |-> n.smartfailed,
             DrivesByState |-> drives, PowerSupplies |-> n.supplies,
             PowerSupplyFailures |-> n.failures, Temperatures |-> temps, Fans |-> fans,
             Hardware |-> n.hardware]
      BY DEF ParseNode
    <3> HIDE DEF drives, temps, fans
    <3>3. ss[i].DrivesByState = drives /\ ss[i].Temperatures = temps /\ ss[i].Fans = fans
      BY <3>1, <3>2
    <3> QED
      BY <3>3 DEF drives, temps, fans
  <2> HIDE DEF n
  <2>3. IsFiniteSet(DOMAIN CountBy(DriveState, Only(Installed, n.drives)))
    BY <2>1, OnlyInstalled, CountedKeys
  <2>4. IsList(Readings(n.sensors, TempGroup)) /\ IsList(Readings(n.sensors, FanGroup \ TempGroup))
    BY <2>1, ReadingsAreLists
  <2> QED
    BY <2>2, <2>3, <2>4 DEF NodeOK
<1> QED
  BY <1>1, <1>2, <1>3 DEF ss

-----------------------------------------------------------------------------
(* Endpoints and their metrics.                                             *)

BestEffortListed ==
    {"nfs/exports", "smb/shares", "snapshot/snapshots", "snapshots-summary", "sync/policies",
     "eventgroup-occurrences", "dedupe-summary", "license/licenses", "storagepools",
     "summary/protocol", "summary/drive", "summary/client", "summary/workload"}

RequiredListed == {"cluster/config", "cluster/nodes", "quota/quotas", "statistics/current"}

\* The endpoints of module Requests, by name.
LEMMA EndpointsListed ==
    /\ RequiredEndpoints(Requests) = RequiredListed
    /\ Endpoints(Requests) = RequiredListed \cup BestEffortListed
    /\ DOMAIN FamilyOf = BestEffortListed
<1> DEFINE I == InventoryRequests
           S == StatisticsRequests
<1>1. /\ DOMAIN I = 1..12 /\ Len(I) = 12
      /\ I[1] = Mandatory("cluster/config") /\ I[2] = Mandatory("cluster/nodes")
      /\ I[3] = Mandatory("quota/quotas") /\ I[4] = BestEffort("nfs/exports")
      /\ I[5] = BestEffort("smb/shares") /\ I[6] = BestEffort("snapshot/snapshots")
      /\ I[7] = BestEffort("snapshots-summary") /\ I[8] = BestEffort("sync/policies")
      /\ I[9] = BestEffort("eventgroup-occurrences") /\ I[10] = BestEffort("dedupe-summary")
      /\ I[11] = BestEffort("license/licenses") /\ I[12] = BestEffort("storagepools")
  BY DEF InventoryRequests
<1>2. /\ DOMAIN S = 1..5 /\ Len(S) = 5
      /\ S[1] = Mandatory("statistics/current") /\ S[2] = BestEffort("summary/protocol")
      /\ S[3] = BestEffort("summary/drive") /\ S[4] = BestEffort("summary/client")
      /\ S[5] = BestEffort("summary/workload")
  BY DEF StatisticsRequests
<1>3. Range(Requests) = Range(I) \cup Range(S)
  <2>1. Requests = I \o S
    BY DEF Requests
  <2>2. I = [i \in 1..12 |-> I[i]] /\ S = [i \in 1..5 |-> S[i]]
    BY DEF InventoryRequests, StatisticsRequests
  <2> HIDE DEF I, S
  <2>3. I \in Seq(Range(I)) /\ S \in Seq(Range(S))
    BY <2>2, FunctionIsList
  <2> QED
    BY <2>1, <2>3, ConcatLists
<1> HIDE DEF I, S
<1>4. Range(I) = {Mandatory(ep) : ep \in {"cluster/config", "cluster/nodes", "quota/quotas"}}
                 \cup {BestEffort(ep) : ep \in
                         {"nfs/exports", "smb/shares", "snapshot/snapshots", "snapshots-summary",
                          "sync/policies", "eventgroup-occurrences", "dedupe-summary",
                          "license/licenses", "storagepools"}}
  BY <1>1 DEF Range
<1>5. Range(S) = {Mandatory("statistics/current")}
                 \cup {BestEffort(ep) : ep \in {"summary/protocol", "summary/drive", "summary/client",
                                                "summary/workload"}}
  BY <1>2 DEF Range
<1>6. Range(Requests) = {Mandatory(ep) : ep \in RequiredListed}
                        \cup {BestEffort(ep) : ep \in BestEffortListed}
  BY <1>3, <1>4, <1>5 DEF RequiredListed, BestEffortListed
<1>7. \A ep : /\ Mandatory(ep).ep = ep /\ BestEffort(ep).ep = ep
              /\ Mandatory(ep).required = TRUE /\ BestEffort(ep).required = FALSE
  BY DEF Mandatory, BestEffort
<1> HIDE DEF RequiredListed, BestEffortListed
<1>8. Endpoints(Requests) = RequiredListed \cup BestEffortListed
  BY <1>6, <1>7 DEF Endpoints
<1>9. RequiredEndpoints(Requests) = RequiredListed
  BY <1>6, <1>7 DEF RequiredEndpoints
<1>10. RequiredListed \cap BestEffortListed = {}
  BY DEF RequiredListed, BestEffortListed
<1>11. DOMAIN FamilyOf = Endpoints(Requests) \ RequiredEndpoints(Requests)
  BY DEF FamilyOf
<1> QED
  BY <1>8, <1>9, <1>10, <1>11

\* The metrics of the best-effort requests with few metrics, by name.
LEMMA Families ==
    /\ FamilyOf["nfs/exports"] = {"powerscale_nfs_exports"}
    /\ FamilyOf["smb/shares"] = {"powerscale_smb_shares"}
    /\ FamilyOf["snapshot/snapshots"] = {"powerscale_snapshots"}
    /\ FamilyOf["snapshots-summary"] = {"powerscale_snapshot_used_bytes"}
    /\ FamilyOf["dedupe-summary"] = {"powerscale_dedupe_logical_saved_bytes",
                                     "powerscale_dedupe_deduplicated_bytes"}
    /\ FamilyOf["sync/policies"] = {"powerscale_synciq_policy_enabled",
                                    "powerscale_synciq_last_run_failed"}
    /\ FamilyOf["eventgroup-occurrences"] = {"powerscale_active_events"}
    /\ FamilyOf["license/licenses"] = {"powerscale_license_expiration_timestamp_seconds",
                                       "powerscale_license_active"}
    /\ FamilyOf["storagepools"] = {PoolMetrics[i][2] : i \in DOMAIN PoolMetrics}
    /\ FamilyOf["summary/protocol"] = {"powerscale_protocol_operations_per_second",
                                       "powerscale_protocol_latency_seconds",
                                       "powerscale_protocol_latency_stage_seconds"}
    /\ FamilyOf["summary/drive"] = {"powerscale_drive_operations_per_second",
                                    "powerscale_drive_busy_percent"}
    /\ FamilyOf["summary/client"] = {"powerscale_client_operations_per_second",
                                     "powerscale_client_in_bytes_per_second",
                                     "powerscale_client_out_bytes_per_second"}
    /\ FamilyOf["summary/workload"] = {"powerscale_workload_operations_per_second",
                                       "powerscale_workload_in_bytes_per_second",
                                       "powerscale_workload_out_bytes_per_second",
                                       "powerscale_workload_cpu_seconds_per_second"}
<1>1. \A ep \in BestEffortListed : ep \in Endpoints(Requests) \ RequiredEndpoints(Requests)
  BY EndpointsListed DEF FamilyOf
<1> QED
  BY <1>1 DEF FamilyOf, BestEffortListed

-----------------------------------------------------------------------------
(* Labels.                                                                  *)

Names(labels) == [i \in DOMAIN labels |-> labels[i][1]]

Labelled(labels, names) == IsList(labels) /\ Names(labels) = names

\* The names of short label sequences,
LEMMA LabelTuples ==
    /\ \A a : Labelled(<<a>>, <<a[1]>>)
    /\ \A a, b : Labelled(<<a, b>>, <<a[1], b[1]>>)
    /\ \A a, b, c : Labelled(<<a, b, c>>, <<a[1], b[1], c[1]>>)
<1>1. \A a : Names(<<a>>) = <<a[1]>>
  BY DEF Names
<1>2. \A a, b : Names(<<a, b>>) = <<a[1], b[1]>>
  BY DEF Names
<1>3. \A a, b, c : Names(<<a, b, c>>) = <<a[1], b[1], c[1]>>
  BY DEF Names
<1> QED
  BY <1>1, <1>2, <1>3, Tuples DEF Labelled, IsList

\* of a concatenation,
LEMMA LabelConcat ==
  ASSUME NEW l, NEW m, NEW a, NEW b, Labelled(l, a), Labelled(m, b)
  PROVE  Labelled(l \o m, a \o b)
<1> DEFINE j == Len(l)
           k == Len(m)
           u == l \o m
<1>1. /\ j \in Nat /\ k \in Nat /\ DOMAIN l = 1..j /\ DOMAIN m = 1..k /\ DOMAIN u = 1..(j + k)
      /\ \A i \in 1..j : u[i] = l[i]
      /\ \A i \in (j + 1)..(j + k) : u[i] = m[i - j]
  <2>1. l \in Seq(Range(l) \cup Range(m)) /\ m \in Seq(Range(l) \cup Range(m))
    BY DEF Labelled, IsList
  <2> HIDE DEF Labelled
  <2> QED
    BY <2>1
<1>0. j \in Nat /\ k \in Nat
  BY <1>1
<1>2. IsList(u)
  BY ConcatLists DEF Labelled, IsList
<1>3. a = [i \in 1..j |-> l[i][1]] /\ b = [i \in 1..k |-> m[i][1]]
  BY <1>1 DEF Labelled, Names
<1> HIDE DEF j, k, u
<1>4. a \o b = [i \in 1..(j + k) |-> u[i][1]]
  <2> DEFINE A == {l[i][1] : i \in 1..j}
             B == {m[i][1] : i \in 1..k}
             c == a \o b
             T == A \cup B
  <2>1. a \in [1..j -> A] /\ b \in [1..k -> B]
    BY <1>3
  <2>2. a \in Seq(T) /\ b \in Seq(T) /\ Len(a) = j /\ Len(b) = k
    <3> HIDE DEF A, B
    <3> QED
      BY <1>1, <2>1
  <2>3. /\ c = [i \in 1..(j + k) |-> c[i]]
        /\ \A i \in 1..j : c[i] = a[i]
        /\ \A i \in (j + 1)..(j + k) : c[i] = b[i - j]
    <3> HIDE DEF T
    <3>1. c \in Seq(T) /\ Len(c) = j + k
      BY <2>2
    <3>2. c = [i \in 1..Len(c) |-> c[i]]
      <4> HIDE DEF c
      <4> QED
        BY <3>1
    <3>3. /\ \A i \in 1..j : c[i] = a[i]
          /\ \A i \in (j + 1)..(j + k) : c[i] = b[i - j]
      BY <2>2
    <3> HIDE DEF c
    <3> QED
      BY <3>1, <3>2, <3>3
  <2>4. ASSUME NEW i \in 1..(j + k) PROVE c[i] = u[i][1]
    <3>1. CASE i \in 1..j
      BY <1>1, <1>3, <2>3, <3>1
    <3>2. CASE i \in (j + 1)..(j + k)
      <4>1. i - j \in 1..k
        BY <1>1, <3>2
      <4> QED
        BY <1>1, <1>3, <2>3, <3>2, <4>1
    <3>3. i \in 1..j \/ i \in (j + 1)..(j + k)
      BY <1>0
    <3> QED
      BY <3>1, <3>2, <3>3
  <2> HIDE DEF c
  <2>5. c = [i \in 1..(j + k) |-> u[i][1]]
    BY <2>3, <2>4
  <2> QED
    BY <2>5 DEF c
<1> QED
  BY <1>1, <1>2, <1>4 DEF Labelled, Names, u

\* The label names of each kind of sample.
baseNames == <<"cluster", "cluster_id">>
nodeNames == baseNames \o <<"node">>
quotaNames == baseNames \o <<"quota_id", "quota_path", "quota_type">>

\* and of the label sets of metrics.go.
LEMMA LabelSets ==
  ASSUME NEW cl, NEW x
  PROVE  /\ Labelled(baseLabels(cl), baseNames)
         /\ Labelled(nodeLabels(cl, x), nodeNames)
         /\ \A state : Labelled(driveLabels(cl, x, state), nodeNames \o <<"state">>)
         /\ \A sensor : Labelled(sensorLabels(cl, x, sensor), nodeNames \o <<"sensor">>)
         /\ Labelled(quotaLabels(cl, x), quotaNames)
         /\ Labelled(policyLabels(cl, x), baseNames \o <<"policy">>)
         /\ Labelled(severityLabels(cl, x), baseNames \o <<"severity">>)
         /\ Labelled(licenseLabels(cl, x), baseNames \o <<"name">>)
         /\ Labelled(storagePoolLabels(cl, x), baseNames \o <<"pool", "type">>)
         /\ \A status : Labelled(licenseActiveLabels(cl, x, status),
                                 baseNames \o <<"name">> \o <<"status">>)
         /\ \A hw : Labelled(hardwareInfoLabels(cl, x, hw),
                             nodeNames \o <<"product", "series", "hwgen">>)
<1>1. Labelled(baseLabels(cl), baseNames)
  BY LabelTuples DEF baseLabels, baseNames
<1>2. \A y : Labelled(<< <<"node", y>> >>, <<"node">>) /\ Labelled(<< <<"state", y>> >>, <<"state">>)
             /\ Labelled(<< <<"sensor", y>> >>, <<"sensor">>) /\ Labelled(<< <<"policy", y>> >>, <<"policy">>)
             /\ Labelled(<< <<"severity", y>> >>, <<"severity">>) /\ Labelled(<< <<"name", y>> >>, <<"name">>)
             /\ Labelled(<< <<"status", y>> >>, <<"status">>)
  BY LabelTuples
<1>3. Labelled(nodeLabels(cl, x), nodeNames)
  BY <1>1, <1>2, LabelConcat DEF nodeLabels, nodeNames
<1>4. \A state : Labelled(driveLabels(cl, x, state), nodeNames \o <<"state">>)
  BY <1>2, <1>3, LabelConcat DEF driveLabels
<1>5. \A sensor : Labelled(sensorLabels(cl, x, sensor), nodeNames \o <<"sensor">>)
  BY <1>2, <1>3, LabelConcat DEF sensorLabels
<1>6. Labelled(policyLabels(cl, x), baseNames \o <<"policy">>)
  BY <1>1, <1>2, LabelConcat DEF policyLabels
<1>7. Labelled(severityLabels(cl, x), baseNames \o <<"severity">>)
  BY <1>1, <1>2, LabelConcat DEF severityLabels
<1>8. Labelled(licenseLabels(cl, x), baseNames \o <<"name">>)
  BY <1>1, <1>2, LabelConcat DEF licenseLabels
<1>9. \A status : Labelled(licenseActiveLabels(cl, x, status), baseNames \o <<"name">> \o <<"status">>)
  BY <1>2, <1>8, LabelConcat DEF licenseActiveLabels
<1>10. Labelled(quotaLabels(cl, x), quotaNames)
  <2>1. Labelled(<< <<"quota_id", x.id>>, <<"quota_path", x.path>>, <<"quota_type", x.type>> >>,
                 <<"quota_id", "quota_path", "quota_type">>)
    BY LabelTuples
  <2> QED
    BY <1>1, <2>1, LabelConcat DEF quotaLabels, quotaNames
<1>11. Labelled(storagePoolLabels(cl, x), baseNames \o <<"pool", "type">>)
  <2>1. Labelled(<< <<"pool", x.Name>>, <<"type", x.Type>> >>, <<"pool", "type">>)
    BY LabelTuples
  <2> QED
    BY <1>1, <2>1, LabelConcat DEF storagePoolLabels
<1>12. \A hw : Labelled(hardwareInfoLabels(cl, x, hw), nodeNames \o <<"product", "series", "hwgen">>)
  <2> TAKE hw
  <2>1. Labelled(<< <<"product", hw.product>>, <<"series", hw.series>>, <<"hwgen", hw.hwgen>> >>,
                 <<"product", "series", "hwgen">>)
    BY LabelTuples
  <2> QED
    BY <1>3, <2>1, LabelConcat DEF hardwareInfoLabels
<1> QED
  BY <1>1, <1>3, <1>4, <1>5, <1>6, <1>7, <1>8, <1>9, <1>10, <1>11, <1>12

\* Those of the rows of the statistics, whose node is a field.
LEMMA RowLabelSets ==
  ASSUME NEW cl, NEW x
  PROVE  /\ Labelled(protocolLabels(cl, x), nodeNames \o <<"protocol", "op">>)
         /\ \A stage : Labelled(protocolLabels(cl, x) \o << <<"stage", stage>> >>,
                                nodeNames \o <<"protocol", "op">> \o <<"stage">>)
         /\ Labelled(driveStatLabels(cl, x), nodeNames \o <<"bay", "type">>)
         /\ Labelled(clientLabels(cl, x), nodeNames \o <<"protocol", "class">>)
         /\ Labelled(workloadLabels(cl, x), nodeNames \o WorkloadDimensions)
<1>1. Labelled(nodeLabels(cl, x.Node), nodeNames)
  BY LabelSets
<1>2. Labelled(protocolLabels(cl, x), nodeNames \o <<"protocol", "op">>)
  <2>1. Labelled(<< <<"protocol", x.Protocol>>, <<"op", x.Operation>> >>, <<"protocol", "op">>)
    BY LabelTuples
  <2> QED
    BY <1>1, <2>1, LabelConcat DEF protocolLabels
<1>3. \A stage : Labelled(protocolLabels(cl, x) \o << <<"stage", stage>> >>,
                          nodeNames \o <<"protocol", "op">> \o <<"stage">>)
  <2> TAKE stage
  <2>1. Labelled(<< <<"stage", stage>> >>, <<"stage">>)
    BY LabelTuples
  <2> QED
    BY <1>2, <2>1, LabelConcat
<1>4. Labelled(driveStatLabels(cl, x), nodeNames \o <<"bay", "type">>)
  <2>1. Labelled(<< <<"bay", x.Bay>>, <<"type", x.Type>> >>, <<"bay", "type">>)
    BY LabelTuples
  <2> QED
    BY <1>1, <2>1, LabelConcat DEF driveStatLabels
<1>5. Labelled(clientLabels(cl, x), nodeNames \o <<"protocol", "class">>)
  <2>1. Labelled(<< <<"protocol", x.Protocol>>, <<"class", x.Class>> >>, <<"protocol", "class">>)
    BY LabelTuples
  <2> QED
    BY <1>1, <2>1, LabelConcat DEF clientLabels
<1>6. Labelled(workloadLabels(cl, x), nodeNames \o WorkloadDimensions)
  <2> DEFINE d == WorkloadDimensions
             l == [i \in DOMAIN d |-> <<d[i], x.ID[d[i]]>>]
  <2>1. DOMAIN d = 1..5 /\ d = [i \in 1..5 |-> d[i]]
    BY DEF WorkloadDimensions
  <2> HIDE DEF d
  <2>2. l = [i \in 1..5 |-> l[i]] /\ DOMAIN l = 1..5 /\ \A i \in 1..5 : l[i][1] = d[i]
    BY <2>1
  <2>3. workloadLabels(cl, x) = nodeLabels(cl, x.Node) \o l
    BY DEF workloadLabels, d
  <2> HIDE DEF l
  <2>4. Labelled(l, d)
    BY <2>1, <2>2, FunctionIsList DEF Labelled, Names, IsList
  <2> QED
    BY <1>1, <2>3, <2>4, LabelConcat DEF d
<1> QED
  BY <1>2, <1>3, <1>4, <1>5, <1>6

-----------------------------------------------------------------------------
(* The label names of each metric.                                          *)

OwnMetrics == QuotaMetrics \cup NodeMetrics \cup UNION {FamilyOf[ep] : ep \in DOMAIN FamilyOf}
SpecScope(name) == (CHOOSE s \in Range(StatKeySpecs) : s.metric = name).scope

stageNames == nodeNames \o <<"protocol", "op">> \o <<"stage">>

OwnLabelNames(name) ==
    IF name \in QuotaMetrics THEN quotaNames
    ELSE IF name = "powerscale_node_drives" THEN nodeNames \o <<"state">>
    ELSE IF name = "powerscale_node_hardware_info" THEN nodeNames \o <<"product", "series", "hwgen">>
    ELSE IF name \in {"powerscale_node_temperature_celsius", "powerscale_node_fan_speed_rpm"}
         THEN nodeNames \o <<"sensor">>
    ELSE IF name \in NodeMetrics THEN nodeNames
    ELSE IF name \in FamilyOf["sync/policies"] THEN baseNames \o <<"policy">>
    ELSE IF name \in FamilyOf["eventgroup-occurrences"] THEN baseNames \o <<"severity">>
    ELSE IF name = "powerscale_license_expiration_timestamp_seconds" THEN baseNames \o <<"name">>
    ELSE IF name = "powerscale_license_active" THEN baseNames \o <<"name">> \o <<"status">>
    ELSE IF name \in FamilyOf["storagepools"] THEN baseNames \o <<"pool", "type">>
    ELSE IF name = "powerscale_protocol_latency_stage_seconds" THEN stageNames
    ELSE IF name \in FamilyOf["summary/protocol"] THEN nodeNames \o <<"protocol", "op">>
    ELSE IF name \in FamilyOf["summary/drive"] THEN nodeNames \o <<"bay", "type">>
    ELSE IF name \in FamilyOf["summary/client"] THEN nodeNames \o <<"protocol", "class">>
    ELSE IF name \in FamilyOf["summary/workload"] THEN nodeNames \o WorkloadDimensions
    ELSE baseNames

LabelNamesOf(name) ==
    IF name \in OwnMetrics THEN OwnLabelNames(name)
    ELSE IF SpecScope(name) # "node" THEN baseNames ELSE nodeNames

\* The metrics of quotas, by name.
LEMMA QuotaMetricsListed ==
    QuotaMetrics = {"powerscale_quota_usage_bytes", "powerscale_quota_application_usage_bytes",
                    "powerscale_quota_physical_usage_bytes", "powerscale_quota_reduction_ratio",
                    "powerscale_quota_hard_threshold_bytes", "powerscale_quota_soft_threshold_bytes",
                    "powerscale_quota_advisory_threshold_bytes"}
<1>1. Range(QuotaThreshold) = {"powerscale_quota_hard_threshold_bytes",
                               "powerscale_quota_soft_threshold_bytes",
                               "powerscale_quota_advisory_threshold_bytes"}
  <2>1. DOMAIN QuotaThreshold = {"hard", "soft", "advisory"}
    BY DEF QuotaThreshold
  <2>2. /\ QuotaThreshold["hard"] = "powerscale_quota_hard_threshold_bytes"
        /\ QuotaThreshold["soft"] = "powerscale_quota_soft_threshold_bytes"
        /\ QuotaThreshold["advisory"] = "powerscale_quota_advisory_threshold_bytes"
    BY DEF QuotaThreshold
  <2> QED
    BY <2>1, <2>2 DEF Range
<1> QED
  BY <1>1 DEF QuotaMetrics

\* The metrics of storage pools, by name.
LEMMA PoolMetricsListed ==
    FamilyOf["storagepools"] =
       {"powerscale_storagepool_total_capacity_bytes", "powerscale_storagepool_used_capacity_bytes",
        "powerscale_storagepool_available_capacity_bytes",
        "powerscale_storagepool_ssd_total_capacity_bytes", "powerscale_storagepool_ssd_used_capacity_bytes",
        "powerscale_storagepool_ssd_available_capacity_bytes",
        "powerscale_storagepool_hdd_total_capacity_bytes", "powerscale_storagepool_hdd_used_capacity_bytes",
        "powerscale_storagepool_hdd_available_capacity_bytes"}
<1>1. DOMAIN PoolMetrics = 1..9
  BY DEF PoolMetrics
<1>2. {PoolMetrics[i][2] : i \in 1..9} =
       {PoolMetrics[1][2], PoolMetrics[2][2], PoolMetrics[3][2], PoolMetrics[4][2], PoolMetrics[5][2],
        PoolMetrics[6][2], PoolMetrics[7][2], PoolMetrics[8][2], PoolMetrics[9][2]}
  OBVIOUS
<1>3. /\ PoolMetrics[1][2] = "powerscale_storagepool_total_capacity_bytes"
      /\ PoolMetrics[2][2] = "powerscale_storagepool_used_capacity_bytes"
      /\ PoolMetrics[3][2] = "powerscale_storagepool_available_capacity_bytes"
      /\ PoolMetrics[4][2] = "powerscale_storagepool_ssd_total_capacity_bytes"
      /\ PoolMetrics[5][2] = "powerscale_storagepool_ssd_used_capacity_bytes"
      /\ PoolMetrics[6][2] = "powerscale_storagepool_ssd_available_capacity_bytes"
      /\ PoolMetrics[7][2] = "powerscale_storagepool_hdd_total_capacity_bytes"
      /\ PoolMetrics[8][2] = "powerscale_storagepool_hdd_used_capacity_bytes"
      /\ PoolMetrics[9][2] = "powerscale_storagepool_hdd_available_capacity_bytes"
  BY DEF PoolMetrics
<1> QED
  BY <1>1, <1>2, <1>3, Families

\* The label names of the metrics whose family has several label sets.
LEMMA OwnLabels ==
    /\ \A n \in QuotaMetrics : LabelNamesOf(n) = quotaNames
    /\ LabelNamesOf("powerscale_node_drives") = nodeNames \o <<"state">>
    /\ LabelNamesOf("powerscale_node_hardware_info") = nodeNames \o <<"product", "series", "hwgen">>
    /\ \A n \in {"powerscale_node_temperature_celsius", "powerscale_node_fan_speed_rpm"} :
          LabelNamesOf(n) = nodeNames \o <<"sensor">>
    /\ \A n \in {"powerscale_node_readonly", "powerscale_node_smartfail", "powerscale_node_power_supplies",
                 "powerscale_node_power_supply_failures"} : LabelNamesOf(n) = nodeNames
    /\ \A n \in FamilyOf["sync/policies"] : LabelNamesOf(n) = baseNames \o <<"policy">>
    /\ \A n \in FamilyOf["eventgroup-occurrences"] : LabelNamesOf(n) = baseNames \o <<"severity">>
    /\ LabelNamesOf("powerscale_license_expiration_timestamp_seconds") = baseNames \o <<"name">>
    /\ LabelNamesOf("powerscale_license_active") = baseNames \o <<"name">> \o <<"status">>
    /\ \A n \in FamilyOf["storagepools"] : LabelNamesOf(n) = baseNames \o <<"pool", "type">>
    /\ LabelNamesOf("powerscale_protocol_latency_stage_seconds") = stageNames
    /\ \A n \in {"powerscale_protocol_operations_per_second", "powerscale_protocol_latency_seconds"} :
          LabelNamesOf(n) = nodeNames \o <<"protocol", "op">>
    /\ \A n \in FamilyOf["summary/drive"] : LabelNamesOf(n) = nodeNames \o <<"bay", "type">>
    /\ \A n \in FamilyOf["summary/client"] : LabelNamesOf(n) = nodeNames \o <<"protocol", "class">>
    /\ \A n \in FamilyOf["summary/workload"] : LabelNamesOf(n) = nodeNames \o WorkloadDimensions
    /\ \A n \in FamilyOf["nfs/exports"] \cup FamilyOf["smb/shares"] \cup FamilyOf["snapshot/snapshots"]
                \cup FamilyOf["snapshots-summary"] \cup FamilyOf["dedupe-summary"] :
          LabelNamesOf(n) = baseNames
<1>1. \A ep \in BestEffortListed : \A n \in FamilyOf[ep] : n \in OwnMetrics
  BY EndpointsListed DEF OwnMetrics
<1>2. \A n \in OwnMetrics : LabelNamesOf(n) = OwnLabelNames(n)
  BY DEF LabelNamesOf
<1>3. \A n \in QuotaMetrics \cup NodeMetrics : n \in OwnMetrics
  BY DEF OwnMetrics
<1>4. \A n \in QuotaMetrics : LabelNamesOf(n) = quotaNames
  BY <1>1, <1>2, <1>3, Families, PoolMetricsListed, QuotaMetricsListed
     DEF OwnLabelNames, NodeMetrics, BestEffortListed
<1>5. LabelNamesOf("powerscale_node_drives") = nodeNames \o <<"state">>
  BY <1>1, <1>2, <1>3, Families, PoolMetricsListed, QuotaMetricsListed
     DEF OwnLabelNames, NodeMetrics, BestEffortListed
<1>6. LabelNamesOf("powerscale_node_hardware_info") = nodeNames \o <<"product", "series", "hwgen">>
  BY <1>1, <1>2, <1>3, Families, PoolMetricsListed, QuotaMetricsListed
     DEF OwnLabelNames, NodeMetrics, BestEffortListed
<1>7. \A n \in {"powerscale_node_temperature_celsius", "powerscale_node_fan_speed_rpm"} :
         LabelNamesOf(n) = nodeNames \o <<"sensor">>
  BY <1>1, <1>2, <1>3, Families, PoolMetricsListed, QuotaMetricsListed
     DEF OwnLabelNames, NodeMetrics, BestEffortListed
<1>8. \A n \in {"powerscale_node_readonly", "powerscale_node_smartfail", "powerscale_node_power_supplies",
                "powerscale_node_power_supply_failures"} : LabelNamesOf(n) = nodeNames
  BY <1>1, <1>2, <1>3, Families, PoolMetricsListed, QuotaMetricsListed
     DEF OwnLabelNames, NodeMetrics, BestEffortListed
<1>9. \A n \in FamilyOf["sync/policies"] : LabelNamesOf(n) = baseNames \o <<"policy">>
  BY <1>1, <1>2, <1>3, Families, PoolMetricsListed, QuotaMetricsListed
     DEF OwnLabelNames, NodeMetrics, BestEffortListed
<1>10. \A n \in FamilyOf["eventgroup-occurrences"] : LabelNamesOf(n) = baseNames \o <<"severity">>
  BY <1>1, <1>2, <1>3, Families, PoolMetricsListed, QuotaMetricsListed
     DEF OwnLabelNames, NodeMetrics, BestEffortListed
<1>11. LabelNamesOf("powerscale_license_expiration_timestamp_seconds") = baseNames \o <<"name">>
  BY <1>1, <1>2, <1>3, Families, PoolMetricsListed, QuotaMetricsListed
     DEF OwnLabelNames, NodeMetrics, BestEffortListed
<1>12. LabelNamesOf("powerscale_license_active") = baseNames \o <<"name">> \o <<"status">>
  BY <1>1, <1>2, <1>3, Families, PoolMetricsListed, QuotaMetricsListed
     DEF OwnLabelNames, NodeMetrics, BestEffortListed
<1>13. \A n \in FamilyOf["storagepools"] : LabelNamesOf(n) = baseNames \o <<"pool", "type">>
  BY <1>1, <1>2, <1>3, Families, PoolMetricsListed, QuotaMetricsListed
     DEF OwnLabelNames, NodeMetrics, BestEffortListed
<1>14. LabelNamesOf("powerscale_protocol_latency_stage_seconds") = stageNames
  BY <1>1, <1>2, <1>3, Families, PoolMetricsListed, QuotaMetricsListed
     DEF OwnLabelNames, NodeMetrics, BestEffortListed
<1>15. \A n \in {"powerscale_protocol_operations_per_second", "powerscale_protocol_latency_seconds"} :
         LabelNamesOf(n) = nodeNames \o <<"protocol", "op">>
  BY <1>1, <1>2, <1>3, Families, PoolMetricsListed, QuotaMetricsListed
     DEF OwnLabelNames, NodeMetrics, BestEffortListed
<1>16. \A n \in FamilyOf["summary/drive"] : LabelNamesOf(n) = nodeNames \o <<"bay", "type">>
  BY <1>1, <1>2, <1>3, Families, PoolMetricsListed, QuotaMetricsListed
     DEF OwnLabelNames, NodeMetrics, BestEffortListed
<1>17. \A n \in FamilyOf["summary/client"] : LabelNamesOf(n) = nodeNames \o <<"protocol", "class">>
  BY <1>1, <1>2, <1>3, Families, PoolMetricsListed, QuotaMetricsListed
     DEF OwnLabelNames, NodeMetrics, BestEffortListed
<1>18. \A n \in FamilyOf["summary/workload"] : LabelNamesOf(n) = nodeNames \o WorkloadDimensions
  BY <1>1, <1>2, <1>3, Families, PoolMetricsListed, QuotaMetricsListed
     DEF OwnLabelNames, NodeMetrics, BestEffortListed
<1>19. \A n \in FamilyOf["nfs/exports"] \cup FamilyOf["smb/shares"] \cup FamilyOf["snapshot/snapshots"]
               \cup FamilyOf["snapshots-summary"] \cup FamilyOf["dedupe-summary"] :
         LabelNamesOf(n) = baseNames
  BY <1>1, <1>2, <1>3, Families, PoolMetricsListed, QuotaMetricsListed
     DEF OwnLabelNames, NodeMetrics, BestEffortListed
<1> QED
  BY <1>4, <1>5, <1>6, <1>7, <1>8, <1>9, <1>10, <1>11, <1>12, <1>13, <1>14, <1>15, <1>16, <1>17, <1>18, <1>19


-----------------------------------------------------------------------------
(* Samples of some metrics with the label names of their metric.            *)

SampleFits(s, M) == s.Name \in M /\ LabelNames(s) = LabelNamesOf(s.Name)
Fits(list, M) == IsList(list) /\ \A s \in Range(list) : SampleFits(s, M)

\* A sample fits M if its metric is in M and it has the metric's label names.
LEMMA FittingSample ==
    \A name, labels, v, d, M :
        name \in M /\ Labelled(labels, LabelNamesOf(name)) =>
            SampleFits(Sample(name, labels, v, d), M) /\ SampleFits(Gauge(name, labels, v), M)
<1> TAKE name, labels, v, d, M
<1>1. \A x, y : Sample(name, labels, x, y).Name = name /\ Sample(name, labels, x, y).Labels = labels
  BY DEF Sample
<1>2. \A x, y : LabelNames(Sample(name, labels, x, y)) = Names(labels)
  BY <1>1 DEF LabelNames, Names
<1>3. Gauge(name, labels, v) = Sample(name, labels, v, 1)
  BY DEF Gauge
<1> HIDE DEF Sample, Gauge
<1> QED
  BY <1>1, <1>2, <1>3 DEF SampleFits, Labelled

\* Short sequences of fitting samples fit,
LEMMA FittingTuples ==
  ASSUME NEW M
  PROVE  /\ Fits(<<>>, M)
         /\ \A a : SampleFits(a, M) => Fits(<<a>>, M) /\ \A p : Fits(When(p, a), M)
         /\ \A a, b : SampleFits(a, M) /\ SampleFits(b, M) => Fits(<<a, b>>, M)
         /\ \A a, b, c : SampleFits(a, M) /\ SampleFits(b, M) /\ SampleFits(c, M) => Fits(<<a, b, c>>, M)
         /\ \A a, b, c, d : SampleFits(a, M) /\ SampleFits(b, M) /\ SampleFits(c, M) /\ SampleFits(d, M) =>
               Fits(<<a, b, c, d>>, M)
<1>1. Fits(<<>>, M) /\ \A a : SampleFits(a, M) => Fits(<<a>>, M)
  BY Tuples DEF Fits, IsList
<1>2. \A a, p : SampleFits(a, M) => Fits(When(p, a), M)
  BY <1>1 DEF When
<1>3. \A a, b : SampleFits(a, M) /\ SampleFits(b, M) => Fits(<<a, b>>, M)
  BY Tuples DEF Fits, IsList
<1>4. \A a, b, c : SampleFits(a, M) /\ SampleFits(b, M) /\ SampleFits(c, M) => Fits(<<a, b, c>>, M)
  BY Tuples DEF Fits, IsList
<1>5. \A a, b, c, d : SampleFits(a, M) /\ SampleFits(b, M) /\ SampleFits(c, M) /\ SampleFits(d, M) =>
         Fits(<<a, b, c, d>>, M)
  BY Tuples DEF Fits, IsList
<1> QED
  BY <1>1, <1>2, <1>3, <1>4, <1>5

\* so do concatenations,
LEMMA FittingConcat ==
    \A s, t, M : Fits(s, M) /\ Fits(t, M) => Fits(s \o t, M)
<1> SUFFICES ASSUME NEW s, NEW t, NEW M, Fits(s, M), Fits(t, M) PROVE Fits(s \o t, M)
  OBVIOUS
<1>1. s \in Seq(Range(s)) /\ t \in Seq(Range(t))
  BY DEF Fits, IsList
<1>2. s \o t \in Seq(Range(s \o t)) /\ Range(s \o t) = Range(s) \cup Range(t)
  BY <1>1, ConcatLists
<1> QED
  BY <1>2 DEF Fits, IsList

\* and what fits some metrics fits more metrics.
LEMMA FittingWiden ==
    \A s, M, N : Fits(s, M) /\ M \subseteq N => Fits(s, N)
  BY DEF Fits, SampleFits

\* What a loop over rows appends.
LEMMA FittingEach ==
  ASSUME NEW rows, IsList(rows), NEW ss, ss = [i \in DOMAIN rows |-> ss[i]],
         NEW M, \A i \in DOMAIN rows : Fits(ss[i], M)
  PROVE  Fits(FlattenSeq(ss), M)
<1>1. \A i \in DOMAIN rows : IsList(ss[i])
  BY DEF Fits
<1>2. Holds(FlattenSeq(ss), UNION {Range(ss[i]) : i \in DOMAIN rows})
  BY <1>1, EachLists
<1> DEFINE f == FlattenSeq(ss)
<1> HIDE DEF f
<1>3. IsList(f) /\ Range(f) = UNION {Range(ss[i]) : i \in DOMAIN rows}
  BY <1>2, HoldsList DEF f
<1> QED
  BY <1>3 DEF Fits, f


-----------------------------------------------------------------------------
(* The samples of one row.                                                  *)

\* The samples of one quota fit.
LEMMA QuotaFits ==
    \A cl, q : Fits(OfQuota(cl, q), QuotaMetrics)
<1> TAKE cl, q
<1> DEFINE labels == quotaLabels(cl, q)
           g(name, v) == Gauge(name, labels, v)
<1>1. \A name \in QuotaMetrics : \A v : SampleFits(g(name, v), QuotaMetrics)
  BY OwnLabels, LabelSets, FittingSample
<1>2. /\ QuotaThreshold.hard = "powerscale_quota_hard_threshold_bytes"
      /\ QuotaThreshold.soft = "powerscale_quota_soft_threshold_bytes"
      /\ QuotaThreshold.advisory = "powerscale_quota_advisory_threshold_bytes"
  BY DEF QuotaThreshold
<1> DEFINE s1 == <<g("powerscale_quota_usage_bytes", q.usage),
                   g("powerscale_quota_application_usage_bytes", q.app)>>
           s2 == When(q.physical > 0, g("powerscale_quota_physical_usage_bytes", q.physical))
           s3 == When(q.ratio > 0, g("powerscale_quota_reduction_ratio", q.ratio))
           s4 == When(q.hard > 0, g(QuotaThreshold.hard, q.hard))
           s5 == When(q.soft > 0, g(QuotaThreshold.soft, q.soft))
           s6 == When(q.advisory > 0, g(QuotaThreshold.advisory, q.advisory))
<1>3. OfQuota(cl, q) = s1 \o s2 \o s3 \o s4 \o s5 \o s6
  BY DEF OfQuota
<1> HIDE DEF g
<1>4. Fits(s1, QuotaMetrics)
  BY <1>1, QuotaMetricsListed, FittingTuples
<1>5. Fits(s2, QuotaMetrics) /\ Fits(s3, QuotaMetrics)
  BY <1>1, QuotaMetricsListed, FittingTuples
<1>6. Fits(s4, QuotaMetrics) /\ Fits(s5, QuotaMetrics) /\ Fits(s6, QuotaMetrics)
  BY <1>1, <1>2, QuotaMetricsListed, FittingTuples
<1> HIDE DEF s1, s2, s3, s4, s5, s6
<1> QED
  BY <1>3, <1>4, <1>5, <1>6, FittingConcat

\* The samples of a row of summary/protocol.
LEMMA ProtocolFits ==
    \A cl, p : Fits(OfProtocol(cl, p), FamilyOf["summary/protocol"])
<1> TAKE cl, p
<1> DEFINE M == FamilyOf["summary/protocol"]
           labels == protocolLabels(cl, p)
           stage(s) == Sample("powerscale_protocol_latency_stage_seconds",
                              labels \o << <<"stage", s>> >>, p.StageAvg[s], microsPerSecond)
           stages == [i \in DOMAIN ProtocolStages |->
                        When(ProtocolStages[i] \in DOMAIN p.StageAvg, stage(ProtocolStages[i]))]
           s1 == <<Gauge("powerscale_protocol_operations_per_second", labels, p.OperationRate),
                   Sample("powerscale_protocol_latency_seconds", labels, p.LatencyAvg, microsPerSecond)>>
<1>1. OfProtocol(cl, p) = s1 \o FlattenSeq(stages)
  BY DEF OfProtocol, Each
<1>2. \A s : SampleFits(stage(s), M)
  <2>1. "powerscale_protocol_latency_stage_seconds" \in M
    BY Families
  <2>2. LabelNamesOf("powerscale_protocol_latency_stage_seconds") = stageNames
    BY OwnLabels
  <2>3. \A s : Labelled(labels \o << <<"stage", s>> >>, stageNames)
    BY RowLabelSets DEF stageNames
  <2> HIDE DEF M, labels
  <2> QED
    BY <2>1, <2>2, <2>3, FittingSample
<1>3. Fits(s1, M)
  <2>1. /\ SampleFits(Gauge("powerscale_protocol_operations_per_second", labels, p.OperationRate), M)
        /\ SampleFits(Sample("powerscale_protocol_latency_seconds", labels, p.LatencyAvg, microsPerSecond), M)
    <3> DEFINE two == {"powerscale_protocol_operations_per_second", "powerscale_protocol_latency_seconds"}
               names == nodeNames \o <<"protocol", "op">>
    <3>1. \A name \in two : name \in M
      BY Families
    <3>2. \A name \in two : LabelNamesOf(name) = names
      BY OwnLabels
    <3>3. Labelled(labels, names)
      BY RowLabelSets
    <3> HIDE DEF M, labels, names
    <3>4. \A name \in two : \A v, d : SampleFits(Gauge(name, labels, v), M)
                                     /\ SampleFits(Sample(name, labels, v, d), M)
      BY <3>1, <3>2, <3>3, FittingSample
    <3> QED
      BY <3>4
  <2> QED
    BY <2>1, FittingTuples
<1>4. IsList(ProtocolStages)
  <2>1. ProtocolStages = [i \in 1..7 |-> ProtocolStages[i]]
    BY DEF ProtocolStages
  <2> QED
    BY <2>1, FunctionIsList DEF IsList
<1>5. stages = [i \in DOMAIN ProtocolStages |-> stages[i]]
  OBVIOUS
<1>6. \A i \in DOMAIN ProtocolStages : Fits(stages[i], M)
  BY <1>2, FittingTuples
<1> HIDE DEF s1, stages, M
<1>7. Fits(FlattenSeq(stages), M)
  BY <1>4, <1>5, <1>6, FittingEach
<1> QED
  BY <1>1, <1>3, <1>7, FittingConcat DEF M

\* The samples that nodeHealthSamples and hardwareSamples make fit,
LEMMA NodeSamples ==
    \A cl, lnn, v :
       /\ \A name \in {"powerscale_node_readonly", "powerscale_node_smartfail", "powerscale_node_power_supplies",
                      "powerscale_node_power_supply_failures"} :
             SampleFits(Gauge(name, nodeLabels(cl, lnn), v), NodeMetrics)
       /\ \A s : SampleFits(Gauge("powerscale_node_drives", driveLabels(cl, lnn, s), v), NodeMetrics)
       /\ \A hw : SampleFits(Gauge("powerscale_node_hardware_info", hardwareInfoLabels(cl, lnn, hw), v),
                             NodeMetrics)
       /\ \A name \in {"powerscale_node_temperature_celsius", "powerscale_node_fan_speed_rpm"} : \A s :
             SampleFits(Gauge(name, sensorLabels(cl, lnn, s), v), NodeMetrics)
<1> TAKE cl, lnn, v
<1> DEFINE four == {"powerscale_node_readonly", "powerscale_node_smartfail", "powerscale_node_power_supplies",
                    "powerscale_node_power_supply_failures"}
           two == {"powerscale_node_temperature_celsius", "powerscale_node_fan_speed_rpm"}
           dn == nodeNames \o <<"state">>
           hn == nodeNames \o <<"product", "series", "hwgen">>
           sn == nodeNames \o <<"sensor">>
           M == NodeMetrics
<1>1. /\ \A name \in four \cup two : name \in M
      /\ "powerscale_node_drives" \in M /\ "powerscale_node_hardware_info" \in M
  BY DEF NodeMetrics
<1>2. /\ \A name \in four : LabelNamesOf(name) = nodeNames
      /\ \A name \in two : LabelNamesOf(name) = sn
      /\ LabelNamesOf("powerscale_node_drives") = dn
      /\ LabelNamesOf("powerscale_node_hardware_info") = hn
  BY OwnLabels
<1>3. /\ Labelled(nodeLabels(cl, lnn), nodeNames)
      /\ \A s : Labelled(driveLabels(cl, lnn, s), dn)
      /\ \A s : Labelled(sensorLabels(cl, lnn, s), sn)
      /\ \A hw : Labelled(hardwareInfoLabels(cl, lnn, hw), hn)
  BY LabelSets
<1> HIDE DEF four, two, dn, hn, sn, M
<1>4. \A name \in four : SampleFits(Gauge(name, nodeLabels(cl, lnn), v), M)
  BY <1>1, <1>2, <1>3, FittingSample
<1>5. \A s : SampleFits(Gauge("powerscale_node_drives", driveLabels(cl, lnn, s), v), M)
  BY <1>1, <1>2, <1>3, FittingSample
<1>6. \A hw : SampleFits(Gauge("powerscale_node_hardware_info", hardwareInfoLabels(cl, lnn, hw), v), M)
  BY <1>1, <1>2, <1>3, FittingSample
<1>7. \A name \in two : \A s : SampleFits(Gauge(name, sensorLabels(cl, lnn, s), v), M)
  BY <1>1, <1>2, <1>3, FittingSample
<1> QED
  BY <1>4, <1>5, <1>6, <1>7 DEF M, four, two

\* hence all of those of one node's health,
LEMMA NodeHealthFits ==
    \A cl, n : IsFiniteSet(DOMAIN n.DrivesByState) => Fits(OfNodeHealth(cl, n), NodeMetrics)
<1> TAKE cl, n
<1> HAVE IsFiniteSet(DOMAIN n.DrivesByState)
<1> DEFINE states == SetToSeq(DOMAIN n.DrivesByState)
           base == nodeLabels(cl, n.LNN)
           drives == [i \in DOMAIN states |->
                        <<Gauge("powerscale_node_drives", driveLabels(cl, n.LNN, states[i]),
                                n.DrivesByState[states[i]])>>]
           s1 == <<Gauge("powerscale_node_readonly", base, b2f(n.Readonly)),
                   Gauge("powerscale_node_smartfail", base, b2f(n.Smartfail))>>
<1>1. OfNodeHealth(cl, n) = s1 \o FlattenSeq(drives)
  BY DEF OfNodeHealth, Each
<1>2. Fits(s1, NodeMetrics)
  <2>1. /\ SampleFits(Gauge("powerscale_node_readonly", base, b2f(n.Readonly)), NodeMetrics)
        /\ SampleFits(Gauge("powerscale_node_smartfail", base, b2f(n.Smartfail)), NodeMetrics)
    BY NodeSamples
  <2> QED
    BY <2>1, FittingTuples
<1>3. IsList(states)
  BY SetToSeqLists DEF IsList
<1>4. \A s, v : SampleFits(Gauge("powerscale_node_drives", driveLabels(cl, n.LNN, s), v), NodeMetrics)
  BY NodeSamples
<1>5. \A i \in DOMAIN states : Fits(drives[i], NodeMetrics)
  BY <1>4, FittingTuples
<1>6. drives = [i \in DOMAIN states |-> drives[i]]
  OBVIOUS
<1> HIDE DEF s1, states, drives
<1>7. Fits(FlattenSeq(drives), NodeMetrics)
  BY <1>3, <1>5, <1>6, FittingEach
<1> QED
  BY <1>1, <1>2, <1>7, FittingConcat

\* and of one node's hardware.
LEMMA HardwareFits ==
    \A cl, n : IsList(n.Temperatures) /\ IsList(n.Fans) => Fits(OfHardware(cl, n), NodeMetrics)
<1> TAKE cl, n
<1> HAVE IsList(n.Temperatures) /\ IsList(n.Fans)
<1> DEFINE M == NodeMetrics
           base == nodeLabels(cl, n.LNN)
           reading(name, s) == <<Gauge(name, sensorLabels(cl, n.LNN, s.Name), s.Value)>>
           temps == n.Temperatures
           fans == n.Fans
           t == [i \in DOMAIN temps |-> reading("powerscale_node_temperature_celsius", temps[i])]
           f == [i \in DOMAIN fans |-> reading("powerscale_node_fan_speed_rpm", fans[i])]
           info == Gauge("powerscale_node_hardware_info", hardwareInfoLabels(cl, n.LNN, n.Hardware), 1)
           supplies == Gauge("powerscale_node_power_supplies", base, n.PowerSupplies)
           failures == Gauge("powerscale_node_power_supply_failures", base, n.PowerSupplyFailures)
           s1 == When(\E x \in DOMAIN n.Hardware : n.Hardware[x] # "", info)
           s2 == When(n.PowerSupplies > 0, supplies)
           s3 == When(n.PowerSupplies > 0, failures)
<1>1. OfHardware(cl, n) = s1 \o s2 \o s3 \o FlattenSeq(t) \o FlattenSeq(f)
  BY DEF OfHardware, Each
<1>2. SampleFits(info, M) /\ SampleFits(supplies, M) /\ SampleFits(failures, M)
  BY NodeSamples
<1>3. \A name \in {"powerscale_node_temperature_celsius", "powerscale_node_fan_speed_rpm"} :
         \A s, v : SampleFits(Gauge(name, sensorLabels(cl, n.LNN, s), v), M)
  BY NodeSamples
<1>4. \A i \in DOMAIN temps : Fits(t[i], M)
  BY <1>3, FittingTuples
<1>5. \A i \in DOMAIN fans : Fits(f[i], M)
  BY <1>3, FittingTuples
<1>6. t = [i \in DOMAIN temps |-> t[i]] /\ f = [i \in DOMAIN fans |-> f[i]]
  OBVIOUS
<1> HIDE DEF info, supplies, failures
<1>7. Fits(s1, M) /\ Fits(s2, M) /\ Fits(s3, M)
  <2> HIDE DEF M
  <2> QED
    BY <1>2, FittingTuples
<1> HIDE DEF s1, s2, s3, t, f, M
<1>8. Fits(FlattenSeq(t), M) /\ Fits(FlattenSeq(f), M)
  BY <1>4, <1>5, <1>6, FittingEach
<1> QED
  BY <1>1, <1>7, <1>8, FittingConcat DEF M

\* The samples of one row of each remaining list.
LEMMA RowsFit ==
    \A cl, x :
       /\ Fits(OfPolicy(cl, x), FamilyOf["sync/policies"])
       /\ Fits(OfLicense(cl, x), FamilyOf["license/licenses"])
       /\ Fits(OfPool(cl, x), FamilyOf["storagepools"])
       /\ Fits(OfDrive(cl, x), FamilyOf["summary/drive"])
       /\ Fits(OfClient(cl, x), FamilyOf["summary/client"])
       /\ Fits(OfWorkload(cl, x), FamilyOf["summary/workload"])
<1> TAKE cl, x
<1>1. Fits(OfPolicy(cl, x), FamilyOf["sync/policies"])
  <2>1. \A name \in FamilyOf["sync/policies"] : \A p, v :
           SampleFits(Gauge(name, policyLabels(cl, p), v), FamilyOf["sync/policies"])
    BY OwnLabels, LabelSets, FittingSample
  <2> QED
    BY <2>1, Families, FittingTuples DEF OfPolicy
<1>2. Fits(OfLicense(cl, x), FamilyOf["license/licenses"])
  <2>1. \A v, l, a : /\ SampleFits(Gauge("powerscale_license_expiration_timestamp_seconds",
                                         licenseLabels(cl, l), v), FamilyOf["license/licenses"])
                     /\ SampleFits(Gauge("powerscale_license_active", licenseActiveLabels(cl, l, a), v),
                                   FamilyOf["license/licenses"])
    <3> DEFINE M == FamilyOf["license/licenses"]
               names == baseNames \o <<"name">>
               wide == baseNames \o <<"name">> \o <<"status">>
    <3>1. "powerscale_license_expiration_timestamp_seconds" \in M /\ "powerscale_license_active" \in M
      BY Families
    <3>2. /\ LabelNamesOf("powerscale_license_expiration_timestamp_seconds") = names
          /\ LabelNamesOf("powerscale_license_active") = wide
      BY OwnLabels
    <3>3. \A l, a : Labelled(licenseLabels(cl, l), names) /\ Labelled(licenseActiveLabels(cl, l, a), wide)
      BY LabelSets
    <3> HIDE DEF M, names, wide
    <3>4. /\ \A v, l : SampleFits(Gauge("powerscale_license_expiration_timestamp_seconds",
                                       licenseLabels(cl, l), v), M)
          /\ \A v, l, a : SampleFits(Gauge("powerscale_license_active",
                                          licenseActiveLabels(cl, l, a), v), M)
      BY <3>1, <3>2, <3>3, FittingSample
    <3> QED
      BY <3>4 DEF M
  <2> QED
    BY <2>1, FittingTuples DEF OfLicense
<1>3. Fits(OfPool(cl, x), FamilyOf["storagepools"])
  <2> DEFINE M == FamilyOf["storagepools"]
             s == OfPool(cl, x)
  <2>1. DOMAIN PoolMetrics = 1..9
    BY DEF PoolMetrics
  <2>2. /\ s = [i \in 1..9 |-> s[i]]
        /\ \A i \in 1..9 : s[i] = Gauge(PoolMetrics[i][2], storagePoolLabels(cl, x),
                                        x.Usage[PoolMetrics[i][1]])
    BY <2>1 DEF OfPool
  <2>3. \A i \in 1..9 : PoolMetrics[i][2] \in M
    BY <2>1, Families
  <2>4. \A name \in M : \A v : SampleFits(Gauge(name, storagePoolLabels(cl, x), v), M)
    BY OwnLabels, LabelSets, FittingSample
  <2> HIDE DEF s, M
  <2>5. \A i \in 1..9 : SampleFits(s[i], M)
    BY <2>2, <2>3, <2>4
  <2>6. IsList(s) /\ DOMAIN s = 1..9
    BY <2>2, FunctionIsList DEF IsList
  <2>7. Fits(s, M)
    BY <2>5, <2>6 DEF Fits, Range
  <2> QED
    BY <2>7 DEF s, M
<1>4. Fits(OfDrive(cl, x), FamilyOf["summary/drive"])
  <2>1. \A name \in FamilyOf["summary/drive"] : \A v :
           SampleFits(Gauge(name, driveStatLabels(cl, x), v), FamilyOf["summary/drive"])
    BY OwnLabels, RowLabelSets, FittingSample
  <2> QED
    BY <2>1, Families, FittingTuples DEF OfDrive
<1>5. Fits(OfClient(cl, x), FamilyOf["summary/client"])
  <2>1. \A name \in FamilyOf["summary/client"] : \A v :
           SampleFits(Gauge(name, clientLabels(cl, x), v), FamilyOf["summary/client"])
    BY OwnLabels, RowLabelSets, FittingSample
  <2> QED
    BY <2>1, Families, FittingTuples DEF OfClient
<1>6. Fits(OfWorkload(cl, x), FamilyOf["summary/workload"])
  <2>1. \A name \in FamilyOf["summary/workload"] : \A v, d :
           /\ SampleFits(Gauge(name, workloadLabels(cl, x), v), FamilyOf["summary/workload"])
           /\ SampleFits(Sample(name, workloadLabels(cl, x), v, d), FamilyOf["summary/workload"])
    BY OwnLabels, RowLabelSets, FittingSample
  <2> QED
    BY <2>1, Families, FittingTuples DEF OfWorkload
<1> QED
  BY <1>1, <1>2, <1>3, <1>4, <1>5, <1>6


-----------------------------------------------------------------------------
(* The samples of each family.                                              *)

\* The table is read backwards without ambiguity.
LEMMA SpecFound ==
    /\ \A p : HasSpec(p) => SpecOf(p) \in Range(StatKeySpecs) /\ SpecOf(p).key = p.Key
    /\ \A s, t \in Range(StatKeySpecs) : s.metric = t.metric \/ s.key = t.key => s = t
    /\ \A s \in Range(StatKeySpecs) : SpecScope(s.metric) = s.scope /\ LabelNamesOf(s.metric) =
          IF s.scope # "node" THEN baseNames ELSE nodeNames
<1>1. ASSUME NEW p, HasSpec(p) PROVE SpecOf(p) \in Range(StatKeySpecs) /\ SpecOf(p).key = p.Key
  <2>1. \E s \in Range(StatKeySpecs) : s.key = p.Key
    BY <1>1 DEF HasSpec, Range
  <2> QED
    BY <2>1 DEF SpecOf
<1>2. ASSUME NEW s \in Range(StatKeySpecs), NEW t \in Range(StatKeySpecs),
             s.metric = t.metric \/ s.key = t.key
      PROVE  s = t
  <2>1. PICK i \in DOMAIN StatKeySpecs : s = StatKeySpecs[i]
    BY DEF Range
  <2>2. PICK j \in DOMAIN StatKeySpecs : t = StatKeySpecs[j]
    BY DEF Range
  <2>3. i = j
    BY <1>2, <2>1, <2>2, StatKeyAssumption
  <2> QED
    BY <2>1, <2>2, <2>3
<1>3. ASSUME NEW s \in Range(StatKeySpecs)
      PROVE  SpecScope(s.metric) = s.scope /\ LabelNamesOf(s.metric) =
                IF s.scope # "node" THEN baseNames ELSE nodeNames
  <2> DEFINE u == CHOOSE x \in Range(StatKeySpecs) : x.metric = s.metric
  <2>1. u \in Range(StatKeySpecs) /\ u.metric = s.metric
    OBVIOUS
  <2>2. u = s
    BY <1>2, <2>1
  <2>3. SpecScope(s.metric) = s.scope
    BY <2>2 DEF SpecScope
  <2>4. s.metric \notin OwnMetrics
    <3>1. PICK i \in DOMAIN StatKeySpecs : s = StatKeySpecs[i]
      BY DEF Range
    <3> QED
      BY <3>1, StatMetricAssumption DEF OwnMetrics
  <2> QED
    BY <2>3, <2>4 DEF LabelNamesOf
<1> QED
  BY <1>1, <1>2, <1>3

\* What a row of statistics becomes.
StatSample(cl, p, lnn) ==
    IF SpecOf(p).scope # "node" THEN <<Scaled(SpecOf(p), baseLabels(cl), p.Value)>>
    ELSE When(p.DevID \in DOMAIN lnn, Scaled(SpecOf(p), nodeLabels(cl, lnn[p.DevID]), p.Value))

\* The sample of one statistic that the table knows.
LEMMA StatSampleFits ==
    \A cl, p, lnn : HasSpec(p) => Fits(StatSample(cl, p, lnn), StatMetrics)
<1> TAKE cl, p, lnn
<1> HAVE HasSpec(p)
<1> DEFINE spec == SpecOf(p)
<1>1. /\ spec \in Range(StatKeySpecs)
      /\ LabelNamesOf(spec.metric) = IF spec.scope # "node" THEN baseNames ELSE nodeNames
  BY SpecFound
<1>2. spec.metric \in StatMetrics
  BY <1>1 DEF StatMetrics, Range
<1>3. \A l, v : Labelled(l, LabelNamesOf(spec.metric)) => SampleFits(Scaled(spec, l, v), StatMetrics)
  <2> TAKE l, v
  <2>1. PICK d : Scaled(spec, l, v) = Sample(spec.metric, l, v, d)
    BY DEF Scaled
  <2> HIDE DEF spec
  <2> QED
    BY <1>2, <2>1, FittingSample
<1>4. Labelled(baseLabels(cl), baseNames) /\ \A x : Labelled(nodeLabels(cl, x), nodeNames)
  BY LabelSets
<1> HIDE DEF spec
<1>5. CASE spec.scope # "node"
  <2>1. SampleFits(Scaled(spec, baseLabels(cl), p.Value), StatMetrics)
    BY <1>1, <1>3, <1>4, <1>5
  <2> QED
    BY <1>5, <2>1, FittingTuples DEF StatSample, spec
<1>6. CASE spec.scope = "node"
  <2>1. SampleFits(Scaled(spec, nodeLabels(cl, lnn[p.DevID]), p.Value), StatMetrics)
    BY <1>1, <1>3, <1>4, <1>6
  <2>2. \A q : Fits(When(q, Scaled(spec, nodeLabels(cl, lnn[p.DevID]), p.Value)), StatMetrics)
    BY <2>1, FittingTuples
  <2> QED
    BY <1>6, <2>2 DEF StatSample, spec
<1> QED
  BY <1>5, <1>6

\* The statistics of the rows, and those alone.
LEMMA StatSamples ==
  ASSUME NEW cl, NEW current, IsList(current), NEW nodes
  PROVE  /\ Fits(statSamples(cl, current, nodes), StatMetrics)
         /\ Range(statSamples(cl, current, nodes)) =
              UNION {Range(StatSample(cl, p, lnnByDevID(nodes))) :
                        p \in {x \in Range(current) : HasSpec(x)}}
<1> DEFINE rows == Only(HasSpec, current)
           lnn == lnnByDevID(nodes)
           ss == [i \in DOMAIN rows |-> StatSample(cl, rows[i], lnn)]
<1>1. statSamples(cl, current, nodes) = FlattenSeq(ss)
  BY DEF statSamples, Each, StatSample
<1>2. IsList(rows) /\ Range(rows) = {x \in Range(current) : HasSpec(x)}
  <2> HIDE DEF rows
  <2>1. Holds(rows, {x \in Range(current) : HasSpec(x)})
    BY OnlyHasSpec DEF rows
  <2> QED
    BY <2>1, HoldsList
<1> HIDE DEF rows, lnn
<1>3. \A i \in DOMAIN rows : Fits(ss[i], StatMetrics)
  <2>1. \A i \in DOMAIN rows : HasSpec(rows[i])
    BY <1>2 DEF Range
  <2> QED
    BY <2>1, StatSampleFits
<1>4. ss = [i \in DOMAIN rows |-> ss[i]]
  OBVIOUS
<1>5. UNION {Range(ss[i]) : i \in DOMAIN rows}
        = UNION {Range(StatSample(cl, p, lnn)) : p \in Range(rows)}
  BY DEF Range
<1> HIDE DEF ss
<1>6. Fits(FlattenSeq(ss), StatMetrics)
  BY <1>2, <1>3, <1>4, FittingEach
<1>7. Range(FlattenSeq(ss)) = UNION {Range(ss[i]) : i \in DOMAIN rows}
  <2>1. \A i \in DOMAIN rows : IsList(ss[i])
    BY <1>3 DEF Fits
  <2>2. Holds(FlattenSeq(ss), UNION {Range(ss[i]) : i \in DOMAIN rows})
    BY <1>2, <1>4, <2>1, EachLists
  <2> QED
    BY <2>2, HoldsList
<1> QED
  BY <1>1, <1>2, <1>5, <1>6, <1>7 DEF lnn


\* One sample or more for each row of a list.
LEMMA RowFamilies ==
  ASSUME NEW cl, NEW rows, IsList(rows)
  PROVE  /\ Fits(quotaSamples(cl, rows), QuotaMetrics)
         /\ Fits(protoSamples(cl, rows), FamilyOf["summary/protocol"])
         /\ Fits(syncSamples(cl, rows), FamilyOf["sync/policies"])
         /\ Fits(licenseSamples(cl, rows), FamilyOf["license/licenses"])
         /\ Fits(storagePoolSamples(cl, rows), FamilyOf["storagepools"])
         /\ Fits(driveSamples(cl, rows), FamilyOf["summary/drive"])
         /\ Fits(clientSamples(cl, rows), FamilyOf["summary/client"])
         /\ Fits(workloadSamples(cl, rows), FamilyOf["summary/workload"])
<1>1. Fits(quotaSamples(cl, rows), QuotaMetrics)
  <2> DEFINE ss == [i \in DOMAIN rows |-> OfQuota(cl, rows[i])]
  <2>1. quotaSamples(cl, rows) = FlattenSeq(ss)
    BY DEF quotaSamples, Each
  <2>2. ss = [i \in DOMAIN rows |-> ss[i]] /\ \A i \in DOMAIN rows : Fits(ss[i], QuotaMetrics)
    BY QuotaFits
  <2> HIDE DEF ss
  <2> QED
    BY <2>1, <2>2, FittingEach
<1>2. Fits(protoSamples(cl, rows), FamilyOf["summary/protocol"])
  <2> DEFINE ss == [i \in DOMAIN rows |-> OfProtocol(cl, rows[i])]
  <2>1. protoSamples(cl, rows) = FlattenSeq(ss)
    BY DEF protoSamples, Each
  <2>2. ss = [i \in DOMAIN rows |-> ss[i]] /\ \A i \in DOMAIN rows : Fits(ss[i], FamilyOf["summary/protocol"])
    BY ProtocolFits
  <2> HIDE DEF ss
  <2> QED
    BY <2>1, <2>2, FittingEach
<1>3. Fits(syncSamples(cl, rows), FamilyOf["sync/policies"])
  <2> DEFINE ss == [i \in DOMAIN rows |-> OfPolicy(cl, rows[i])]
  <2>1. syncSamples(cl, rows) = FlattenSeq(ss)
    BY DEF syncSamples, Each
  <2>2. ss = [i \in DOMAIN rows |-> ss[i]] /\ \A i \in DOMAIN rows : Fits(ss[i], FamilyOf["sync/policies"])
    BY RowsFit
  <2> HIDE DEF ss
  <2> QED
    BY <2>1, <2>2, FittingEach
<1>4. Fits(licenseSamples(cl, rows), FamilyOf["license/licenses"])
  <2> DEFINE ss == [i \in DOMAIN rows |-> OfLicense(cl, rows[i])]
  <2>1. licenseSamples(cl, rows) = FlattenSeq(ss)
    BY DEF licenseSamples, Each
  <2>2. ss = [i \in DOMAIN rows |-> ss[i]] /\ \A i \in DOMAIN rows : Fits(ss[i], FamilyOf["license/licenses"])
    BY RowsFit
  <2> HIDE DEF ss
  <2> QED
    BY <2>1, <2>2, FittingEach
<1>5. Fits(storagePoolSamples(cl, rows), FamilyOf["storagepools"])
  <2> DEFINE ss == [i \in DOMAIN rows |-> OfPool(cl, rows[i])]
  <2>1. storagePoolSamples(cl, rows) = FlattenSeq(ss)
    BY DEF storagePoolSamples, Each
  <2>2. ss = [i \in DOMAIN rows |-> ss[i]] /\ \A i \in DOMAIN rows : Fits(ss[i], FamilyOf["storagepools"])
    BY RowsFit
  <2> HIDE DEF ss
  <2> QED
    BY <2>1, <2>2, FittingEach
<1>6. Fits(driveSamples(cl, rows), FamilyOf["summary/drive"])
  <2> DEFINE ss == [i \in DOMAIN rows |-> OfDrive(cl, rows[i])]
  <2>1. driveSamples(cl, rows) = FlattenSeq(ss)
    BY DEF driveSamples, Each
  <2>2. ss = [i \in DOMAIN rows |-> ss[i]] /\ \A i \in DOMAIN rows : Fits(ss[i], FamilyOf["summary/drive"])
    BY RowsFit
  <2> HIDE DEF ss
  <2> QED
    BY <2>1, <2>2, FittingEach
<1>7. Fits(clientSamples(cl, rows), FamilyOf["summary/client"])
  <2> DEFINE ss == [i \in DOMAIN rows |-> OfClient(cl, rows[i])]
  <2>1. clientSamples(cl, rows) = FlattenSeq(ss)
    BY DEF clientSamples, Each
  <2>2. ss = [i \in DOMAIN rows |-> ss[i]] /\ \A i \in DOMAIN rows : Fits(ss[i], FamilyOf["summary/client"])
    BY RowsFit
  <2> HIDE DEF ss
  <2> QED
    BY <2>1, <2>2, FittingEach
<1>8. Fits(workloadSamples(cl, rows), FamilyOf["summary/workload"])
  <2> DEFINE ss == [i \in DOMAIN rows |-> OfWorkload(cl, rows[i])]
  <2>1. workloadSamples(cl, rows) = FlattenSeq(ss)
    BY DEF workloadSamples, Each
  <2>2. ss = [i \in DOMAIN rows |-> ss[i]] /\ \A i \in DOMAIN rows : Fits(ss[i], FamilyOf["summary/workload"])
    BY RowsFit
  <2> HIDE DEF ss
  <2> QED
    BY <2>1, <2>2, FittingEach
<1> QED
  BY <1>1, <1>2, <1>3, <1>4, <1>5, <1>6, <1>7, <1>8

\* The samples of the inventory's nodes.
LEMMA NodeFamilies ==
  ASSUME NEW cl, NEW nodes, IsList(nodes), \A i \in DOMAIN nodes : NodeOK(nodes[i])
  PROVE  /\ Fits(nodeHealthSamples(cl, nodes), NodeMetrics)
         /\ Fits(hardwareSamples(cl, nodes), NodeMetrics)
<1>1. Fits(nodeHealthSamples(cl, nodes), NodeMetrics)
  <2> DEFINE ss == [i \in DOMAIN nodes |-> OfNodeHealth(cl, nodes[i])]
  <2>1. nodeHealthSamples(cl, nodes) = FlattenSeq(ss)
    BY DEF nodeHealthSamples, Each
  <2>2. ss = [i \in DOMAIN nodes |-> ss[i]] /\ \A i \in DOMAIN nodes : Fits(ss[i], NodeMetrics)
    BY NodeHealthFits DEF NodeOK
  <2> HIDE DEF ss
  <2> QED
    BY <2>1, <2>2, FittingEach
<1>2. Fits(hardwareSamples(cl, nodes), NodeMetrics)
  <2> DEFINE ss == [i \in DOMAIN nodes |-> OfHardware(cl, nodes[i])]
  <2>1. hardwareSamples(cl, nodes) = FlattenSeq(ss)
    BY DEF hardwareSamples, Each
  <2>2. ss = [i \in DOMAIN nodes |-> ss[i]] /\ \A i \in DOMAIN nodes : Fits(ss[i], NodeMetrics)
    BY HardwareFits DEF NodeOK
  <2> HIDE DEF ss
  <2> QED
    BY <2>1, <2>2, FittingEach
<1> QED
  BY <1>1, <1>2

\* The samples of the cluster as a whole.
LEMMA ClusterSamples ==
  ASSUME NEW cl
  PROVE  \A ep \in {"nfs/exports", "smb/shares", "snapshot/snapshots", "snapshots-summary",
                    "dedupe-summary"} :
            \A name \in FamilyOf[ep] : \A v :
               SampleFits(Gauge(name, baseLabels(cl), v), FamilyOf[ep])
  BY OwnLabels, LabelSets, FittingSample

\* The samples of the events, one per severity.
LEMMA EventsFit ==
    \A cl, events : IsFiniteSet(DOMAIN events) =>
        Fits(eventSamples(cl, events), FamilyOf["eventgroup-occurrences"])
<1> TAKE cl, events
<1> HAVE IsFiniteSet(DOMAIN events)
<1> DEFINE M == FamilyOf["eventgroup-occurrences"]
           severities == SetToSeq(DOMAIN events)
           ss == [i \in DOMAIN severities |->
                    <<Gauge("powerscale_active_events", severityLabels(cl, severities[i]),
                            events[severities[i]])>>]
<1>1. eventSamples(cl, events) = FlattenSeq(ss)
  BY DEF eventSamples, Each
<1>2. IsList(severities)
  BY SetToSeqLists DEF IsList
<1>3. \A s, v : SampleFits(Gauge("powerscale_active_events", severityLabels(cl, s), v), M)
  <2>1. "powerscale_active_events" \in M
    BY Families
  <2>2. \A s : Labelled(severityLabels(cl, s), LabelNamesOf("powerscale_active_events"))
    BY <2>1, OwnLabels, LabelSets
  <2> HIDE DEF M
  <2> QED
    BY <2>1, <2>2, FittingSample
<1>4. \A i \in DOMAIN severities : Fits(ss[i], M)
  BY <1>3, FittingTuples
<1>5. ss = [i \in DOMAIN severities |-> ss[i]]
  OBVIOUS
<1> HIDE DEF severities, ss, M
<1>6. Fits(FlattenSeq(ss), M)
  BY <1>2, <1>4, <1>5, FittingEach
<1> QED
  BY <1>1, <1>6 DEF M


-----------------------------------------------------------------------------
(* The samples of a cluster, request by request.                            *)

\* The labels of a cluster that answers r.
ClusterOf(c, r) == [name |-> c, id |-> ParseClusterConfig(r["cluster/config"]).GUID]

\* What the required requests become.
RequiredSamples(cl, r) ==
    LET nodes == ParseNodes(r["cluster/nodes"])
    IN  Range(statSamples(cl, ParseStatCurrent(r["statistics/current"]), nodes))
        \cup Range(quotaSamples(cl, ParseQuotas(r["quota/quotas"])))
        \cup Range(nodeHealthSamples(cl, nodes)) \cup Range(hardwareSamples(cl, nodes))

\* The endpoints whose metrics are exported, as 0, when their request has failed.
ZeroListed ==
    {"nfs/exports", "smb/shares", "snapshot/snapshots", "snapshots-summary", "dedupe-summary"}

Dedupe(cl, d) ==
    {Gauge("powerscale_dedupe_logical_saved_bytes", baseLabels(cl), d.LogicalSaved),
     Gauge("powerscale_dedupe_deduplicated_bytes", baseLabels(cl), d.Deduplicated)}
NoDedupe == [LogicalSaved |-> 0, Deduplicated |-> 0]

\* What the payload p of a best-effort request becomes, and what its failure.
Answered(cl, ep, p) ==
    CASE ep = "nfs/exports" -> {Gauge("powerscale_nfs_exports", baseLabels(cl), ParseTotal(p))}
      [] ep = "smb/shares" -> {Gauge("powerscale_smb_shares", baseLabels(cl), ParseTotal(p))}
      [] ep = "snapshot/snapshots" -> {Gauge("powerscale_snapshots", baseLabels(cl), ParseTotal(p))}
      [] ep = "snapshots-summary" ->
            {Gauge("powerscale_snapshot_used_bytes", baseLabels(cl), ParseSnapshotSummary(p))}
      [] ep = "dedupe-summary" -> Dedupe(cl, ParseDedupeSummary(p))
      [] ep = "sync/policies" -> Range(syncSamples(cl, ParseSyncPolicies(p)))
      [] ep = "eventgroup-occurrences" -> Range(eventSamples(cl, ParseEventOccurrences(p)))
      [] ep = "license/licenses" -> Range(licenseSamples(cl, ParseLicenses(p)))
      [] ep = "storagepools" -> Range(storagePoolSamples(cl, ParseStoragePools(p)))
      [] ep = "summary/protocol" -> Range(protoSamples(cl, ParseProtocolSummary(p)))
      [] ep = "summary/drive" -> Range(driveSamples(cl, ParseDriveSummary(p)))
      [] ep = "summary/client" -> Range(clientSamples(cl, ParseClientSummary(p)))
      [] ep = "summary/workload" -> Range(workloadSamples(cl, ParseWorkloadSummary(p)))

Unanswered(cl, ep) ==
    CASE ep = "nfs/exports" -> {Gauge("powerscale_nfs_exports", baseLabels(cl), 0)}
      [] ep = "smb/shares" -> {Gauge("powerscale_smb_shares", baseLabels(cl), 0)}
      [] ep = "snapshot/snapshots" -> {Gauge("powerscale_snapshots", baseLabels(cl), 0)}
      [] ep = "snapshots-summary" -> {Gauge("powerscale_snapshot_used_bytes", baseLabels(cl), 0)}
      [] ep = "dedupe-summary" -> Dedupe(cl, NoDedupe)
      [] OTHER -> {}

Part(cl, r, ep) == IF r[ep] = Failed THEN Unanswered(cl, ep) ELSE Answered(cl, ep, r[ep])

\* A loop over no rows.
LEMMA NoRows ==
  ASSUME NEW cl
  PROVE  /\ Range(syncSamples(cl, <<>>)) = {} /\ Range(eventSamples(cl, <<>>)) = {}
         /\ Range(licenseSamples(cl, <<>>)) = {} /\ Range(storagePoolSamples(cl, <<>>)) = {}
         /\ Range(protoSamples(cl, <<>>)) = {} /\ Range(driveSamples(cl, <<>>)) = {}
         /\ Range(clientSamples(cl, <<>>)) = {} /\ Range(workloadSamples(cl, <<>>)) = {}
<1>1. ASSUME NEW rows, DOMAIN rows = {}, IsList(rows), NEW ss, ss = [i \in DOMAIN rows |-> ss[i]]
      PROVE  Range(FlattenSeq(ss)) = {}
  <2>1. Holds(FlattenSeq(ss), UNION {Range(ss[i]) : i \in DOMAIN rows})
    BY <1>1, EachLists
  <2>2. UNION {Range(ss[i]) : i \in DOMAIN rows} = {}
    BY <1>1
  <2> QED
    BY <2>1, <2>2, HoldsList
<1> DEFINE e == <<>>
<1>2. DOMAIN e = {} /\ IsList(e)
  BY EmptyRange, Tuples DEF IsList
<1>3. Range(syncSamples(cl, e)) = {}
  <2> DEFINE ss == [i \in DOMAIN e |-> OfPolicy(cl, e[i])]
  <2>1. syncSamples(cl, e) = FlattenSeq(ss) /\ ss = [i \in DOMAIN e |-> ss[i]]
    BY DEF syncSamples, Each
  <2> HIDE DEF ss, e
  <2> QED
    BY <1>1, <1>2, <2>1
<1>4. Range(licenseSamples(cl, e)) = {}
  <2> DEFINE ss == [i \in DOMAIN e |-> OfLicense(cl, e[i])]
  <2>1. licenseSamples(cl, e) = FlattenSeq(ss) /\ ss = [i \in DOMAIN e |-> ss[i]]
    BY DEF licenseSamples, Each
  <2> HIDE DEF ss, e
  <2> QED
    BY <1>1, <1>2, <2>1
<1>5. Range(storagePoolSamples(cl, e)) = {}
  <2> DEFINE ss == [i \in DOMAIN e |-> OfPool(cl, e[i])]
  <2>1. storagePoolSamples(cl, e) = FlattenSeq(ss) /\ ss = [i \in DOMAIN e |-> ss[i]]
    BY DEF storagePoolSamples, Each
  <2> HIDE DEF ss, e
  <2> QED
    BY <1>1, <1>2, <2>1
<1>6. Range(protoSamples(cl, e)) = {}
  <2> DEFINE ss == [i \in DOMAIN e |-> OfProtocol(cl, e[i])]
  <2>1. protoSamples(cl, e) = FlattenSeq(ss) /\ ss = [i \in DOMAIN e |-> ss[i]]
    BY DEF protoSamples, Each
  <2> HIDE DEF ss, e
  <2> QED
    BY <1>1, <1>2, <2>1
<1>7. Range(driveSamples(cl, e)) = {}
  <2> DEFINE ss == [i \in DOMAIN e |-> OfDrive(cl, e[i])]
  <2>1. driveSamples(cl, e) = FlattenSeq(ss) /\ ss = [i \in DOMAIN e |-> ss[i]]
    BY DEF driveSamples, Each
  <2> HIDE DEF ss, e
  <2> QED
    BY <1>1, <1>2, <2>1
<1>8. Range(clientSamples(cl, e)) = {}
  <2> DEFINE ss == [i \in DOMAIN e |-> OfClient(cl, e[i])]
  <2>1. clientSamples(cl, e) = FlattenSeq(ss) /\ ss = [i \in DOMAIN e |-> ss[i]]
    BY DEF clientSamples, Each
  <2> HIDE DEF ss, e
  <2> QED
    BY <1>1, <1>2, <2>1
<1>9. Range(workloadSamples(cl, e)) = {}
  <2> DEFINE ss == [i \in DOMAIN e |-> OfWorkload(cl, e[i])]
  <2>1. workloadSamples(cl, e) = FlattenSeq(ss) /\ ss = [i \in DOMAIN e |-> ss[i]]
    BY DEF workloadSamples, Each
  <2> HIDE DEF ss, e
  <2> QED
    BY <1>1, <1>2, <2>1
<1>10. Range(eventSamples(cl, e)) = {}
  <2> DEFINE severities == SetToSeq(DOMAIN e)
             ss == [i \in DOMAIN severities |->
                      <<Gauge("powerscale_active_events", severityLabels(cl, severities[i]),
                              e[severities[i]])>>]
  <2>1. eventSamples(cl, e) = FlattenSeq(ss) /\ ss = [i \in DOMAIN severities |-> ss[i]]
    BY DEF eventSamples, Each
  <2>2. IsFiniteSet({})
    BY FS_EmptySet
  <2>3. IsList(severities) /\ Range(severities) = {}
    BY <1>2, <2>2, SetToSeqLists DEF IsList
  <2> HIDE DEF ss, e, severities
  <2>4. DOMAIN severities = {}
    BY <2>3 DEF Range
  <2> QED
    BY <1>1, <2>1, <2>3, <2>4
<1> QED
  BY <1>3, <1>4, <1>5, <1>6, <1>7, <1>8, <1>9, <1>10


\* What the answers without rows contribute.
LEMMA PartsListed ==
  ASSUME NEW cl
  PROVE  /\ \A p :
               /\ Answered(cl, "nfs/exports", p) = {Gauge("powerscale_nfs_exports", baseLabels(cl), ParseTotal(p))}
               /\ Answered(cl, "smb/shares", p) = {Gauge("powerscale_smb_shares", baseLabels(cl), ParseTotal(p))}
               /\ Answered(cl, "snapshot/snapshots", p) =
                     {Gauge("powerscale_snapshots", baseLabels(cl), ParseTotal(p))}
               /\ Answered(cl, "snapshots-summary", p) =
                     {Gauge("powerscale_snapshot_used_bytes", baseLabels(cl), ParseSnapshotSummary(p))}
               /\ Answered(cl, "dedupe-summary", p) = Dedupe(cl, ParseDedupeSummary(p))
               /\ Answered(cl, "sync/policies", p) = Range(syncSamples(cl, ParseSyncPolicies(p)))
               /\ Answered(cl, "license/licenses", p) = Range(licenseSamples(cl, ParseLicenses(p)))
               /\ Answered(cl, "storagepools", p) = Range(storagePoolSamples(cl, ParseStoragePools(p)))
               /\ Answered(cl, "summary/protocol", p) = Range(protoSamples(cl, ParseProtocolSummary(p)))
               /\ Answered(cl, "summary/drive", p) = Range(driveSamples(cl, ParseDriveSummary(p)))
               /\ Answered(cl, "summary/client", p) = Range(clientSamples(cl, ParseClientSummary(p)))
               /\ Answered(cl, "summary/workload", p) = Range(workloadSamples(cl, ParseWorkloadSummary(p)))
               /\ Answered(cl, "eventgroup-occurrences", p) = Range(eventSamples(cl, ParseEventOccurrences(p)))
         /\ Unanswered(cl, "nfs/exports") = {Gauge("powerscale_nfs_exports", baseLabels(cl), 0)}
         /\ Unanswered(cl, "smb/shares") = {Gauge("powerscale_smb_shares", baseLabels(cl), 0)}
         /\ Unanswered(cl, "snapshot/snapshots") = {Gauge("powerscale_snapshots", baseLabels(cl), 0)}
         /\ Unanswered(cl, "snapshots-summary") = {Gauge("powerscale_snapshot_used_bytes", baseLabels(cl), 0)}
         /\ Unanswered(cl, "dedupe-summary") = Dedupe(cl, NoDedupe)
         /\ \A ep \in BestEffortListed \ ZeroListed : Unanswered(cl, ep) = {}
<1>1. \A p : Answered(cl, "dedupe-summary", p) = Dedupe(cl, ParseDedupeSummary(p))
  BY DEF Answered
<1>2. /\ \A p : Answered(cl, "nfs/exports", p) = {Gauge("powerscale_nfs_exports", baseLabels(cl), ParseTotal(p))}
      /\ Unanswered(cl, "nfs/exports") = {Gauge("powerscale_nfs_exports", baseLabels(cl), 0)}
  BY DEF Answered, Unanswered
<1>3. /\ \A p : Answered(cl, "smb/shares", p) = {Gauge("powerscale_smb_shares", baseLabels(cl), ParseTotal(p))}
      /\ Unanswered(cl, "smb/shares") = {Gauge("powerscale_smb_shares", baseLabels(cl), 0)}
  BY DEF Answered, Unanswered
<1>4. /\ \A p : Answered(cl, "snapshot/snapshots", p) = {Gauge("powerscale_snapshots", baseLabels(cl), ParseTotal(p))}
      /\ Unanswered(cl, "snapshot/snapshots") = {Gauge("powerscale_snapshots", baseLabels(cl), 0)}
  BY DEF Answered, Unanswered
<1>5. /\ \A p : Answered(cl, "snapshots-summary", p) = {Gauge("powerscale_snapshot_used_bytes", baseLabels(cl), ParseSnapshotSummary(p))}
      /\ Unanswered(cl, "snapshots-summary") = {Gauge("powerscale_snapshot_used_bytes", baseLabels(cl), 0)}
  BY DEF Answered, Unanswered
<1>6. \A p : Answered(cl, "sync/policies", p) = Range(syncSamples(cl, ParseSyncPolicies(p)))
  BY DEF Answered
<1>7. \A p : Answered(cl, "license/licenses", p) = Range(licenseSamples(cl, ParseLicenses(p)))
  BY DEF Answered
<1>8. \A p : Answered(cl, "storagepools", p) = Range(storagePoolSamples(cl, ParseStoragePools(p)))
  BY DEF Answered
<1>9. \A p : Answered(cl, "summary/protocol", p) = Range(protoSamples(cl, ParseProtocolSummary(p)))
  BY DEF Answered
<1>10. \A p : Answered(cl, "summary/drive", p) = Range(driveSamples(cl, ParseDriveSummary(p)))
  BY DEF Answered
<1>11. \A p : Answered(cl, "summary/client", p) = Range(clientSamples(cl, ParseClientSummary(p)))
  BY DEF Answered
<1>12. \A p : Answered(cl, "summary/workload", p) = Range(workloadSamples(cl, ParseWorkloadSummary(p)))
  BY DEF Answered
<1>13. \A p : Answered(cl, "eventgroup-occurrences", p) = Range(eventSamples(cl, ParseEventOccurrences(p)))
  BY DEF Answered
<1>14. Unanswered(cl, "dedupe-summary") = Dedupe(cl, NoDedupe)
  BY DEF Unanswered
<1>15. \A ep \in BestEffortListed \ ZeroListed : Unanswered(cl, ep) = {}
  BY DEF Unanswered, BestEffortListed, ZeroListed
<1> QED
  BY <1>1, <1>2, <1>3, <1>4, <1>5, <1>6, <1>7, <1>8, <1>9, <1>10, <1>11, <1>12, <1>13, <1>14, <1>15

\* What a reply that is not Failed holds.
LEMMA ReplyLists ==
  ASSUME NEW r \in Reply
  PROVE  /\ \A ep \in ListEndpoints : r[ep] # Failed => IsList(r[ep])
         /\ DOMAIN r = RequiredListed \cup BestEffortListed
         /\ r["cluster/nodes"] # Failed =>
               /\ IsList(ParseNodes(r["cluster/nodes"]))
               /\ \A i \in DOMAIN ParseNodes(r["cluster/nodes"]) : NodeOK(ParseNodes(r["cluster/nodes"])[i])
<1>1. \A ep \in ListEndpoints : r[ep] # Failed => IsList(r[ep])
  BY ReplyAssumption
<1>2. DOMAIN r = RequiredListed \cup BestEffortListed
  BY ReplyAssumption, EndpointsListed
<1>3. ASSUME r["cluster/nodes"] # Failed
      PROVE  /\ IsList(ParseNodes(r["cluster/nodes"]))
             /\ \A i \in DOMAIN ParseNodes(r["cluster/nodes"]) : NodeOK(ParseNodes(r["cluster/nodes"])[i])
  <2> DEFINE rows == r["cluster/nodes"]
  <2>1. IsList(rows)
    BY <1>1, <1>3 DEF ListEndpoints
  <2>2. \A n \in Range(rows) :
            /\ IsList(n.drives) /\ IsList(SensorGroups(n.sensors))
            /\ \A g \in Range(SensorGroups(n.sensors)) : IsList(g.values)
    BY <1>3, ReplyAssumption
  <2> HIDE DEF rows
  <2>3. /\ IsList(ParseNodes(rows)) /\ DOMAIN ParseNodes(rows) = DOMAIN rows
        /\ \A i \in DOMAIN rows : NodeOK(ParseNodes(rows)[i])
    BY <2>1, <2>2, ParsedNodes
  <2> QED
    BY <2>3 DEF rows
<1> QED
  BY <1>1, <1>2, <1>3

\* The samples of a best-effort request are of its family.
LEMMA PartFits ==
  ASSUME NEW cl, NEW r \in Reply, NEW ep \in BestEffortListed
  PROVE  \A s \in Part(cl, r, ep) : SampleFits(s, FamilyOf[ep])
<1>0. ep \in ListEndpoints /\ r[ep] # Failed => IsList(r[ep])
  BY ReplyLists
<1> DEFINE Good(S) == \A s \in S : SampleFits(s, FamilyOf[ep])
<1>1. CASE ep \in ZeroListed /\ ep # "dedupe-summary"
  <2>1. PICK name : name \in FamilyOf[ep] /\ \E v : Part(cl, r, ep) = {Gauge(name, baseLabels(cl), v)}
    <3>1. CASE ep = "nfs/exports"
      <4>1. "powerscale_nfs_exports" \in FamilyOf["nfs/exports"]
        BY Families
      <4>2. \E v : Part(cl, r, "nfs/exports") = {Gauge("powerscale_nfs_exports", baseLabels(cl), v)}
        BY PartsListed DEF Part
      <4> QED
        BY <3>1, <4>1, <4>2
    <3>2. CASE ep = "smb/shares"
      <4>1. "powerscale_smb_shares" \in FamilyOf["smb/shares"]
        BY Families
      <4>2. \E v : Part(cl, r, "smb/shares") = {Gauge("powerscale_smb_shares", baseLabels(cl), v)}
        BY PartsListed DEF Part
      <4> QED
        BY <3>2, <4>1, <4>2
    <3>3. CASE ep = "snapshot/snapshots"
      <4>1. "powerscale_snapshots" \in FamilyOf["snapshot/snapshots"]
        BY Families
      <4>2. \E v : Part(cl, r, "snapshot/snapshots") = {Gauge("powerscale_snapshots", baseLabels(cl), v)}
        BY PartsListed DEF Part
      <4> QED
        BY <3>3, <4>1, <4>2
    <3>4. CASE ep = "snapshots-summary"
      <4>1. "powerscale_snapshot_used_bytes" \in FamilyOf["snapshots-summary"]
        BY Families
      <4>2. \E v : Part(cl, r, "snapshots-summary") = {Gauge("powerscale_snapshot_used_bytes", baseLabels(cl), v)}
        BY PartsListed DEF Part
      <4> QED
        BY <3>4, <4>1, <4>2
    <3> QED
      BY <1>1, <3>1, <3>2, <3>3, <3>4 DEF ZeroListed
  <2>2. PICK v : Part(cl, r, ep) = {Gauge(name, baseLabels(cl), v)}
    BY <2>1
  <2> QED
    BY <1>1, <2>1, <2>2, ClusterSamples DEF ZeroListed
<1>2. CASE ep = "dedupe-summary"
  <2>1. \A d : Good(Dedupe(cl, d))
    <3>1. \A name \in FamilyOf["dedupe-summary"] : \A v :
             SampleFits(Gauge(name, baseLabels(cl), v), FamilyOf["dedupe-summary"])
      BY ClusterSamples
    <3>2. \A v : /\ SampleFits(Gauge("powerscale_dedupe_logical_saved_bytes", baseLabels(cl), v), FamilyOf[ep])
                 /\ SampleFits(Gauge("powerscale_dedupe_deduplicated_bytes", baseLabels(cl), v), FamilyOf[ep])
      BY <1>2, <3>1, Families
    <3> QED
      BY <3>2 DEF Dedupe
  <2>2. \E d : Part(cl, r, ep) = Dedupe(cl, d)
    BY <1>2, PartsListed DEF Part
  <2> QED
    BY <2>1, <2>2
<1>3. CASE ep \in BestEffortListed \ ZeroListed /\ r[ep] = Failed
  BY <1>3, PartsListed DEF Part
<1>4. CASE ep = "eventgroup-occurrences" /\ r[ep] # Failed
  <2> DEFINE p == r["eventgroup-occurrences"]
  <2>1. IsList(p)
    BY <1>0, <1>4 DEF ListEndpoints
  <2> HIDE DEF p
  <2>2. IsFiniteSet(DOMAIN ParseEventOccurrences(p))
    BY <2>1, OnlyUnresolved, CountedKeys DEF ParseEventOccurrences
  <2>3. Fits(eventSamples(cl, ParseEventOccurrences(p)), FamilyOf["eventgroup-occurrences"])
    BY <2>2, EventsFit
  <2>4. Good(Range(eventSamples(cl, ParseEventOccurrences(p))))
    BY <1>4, <2>3 DEF Fits
  <2> QED
    BY <1>4, <2>4, PartsListed DEF Part, p
<1>5. CASE ep = "sync/policies" /\ r[ep] # Failed
  <2> DEFINE p == r["sync/policies"]
  <2>1. IsList(p)
    BY <1>0, <1>5 DEF ListEndpoints
  <2> HIDE DEF p
  <2>2. Fits(syncSamples(cl, ParseSyncPolicies(p)), FamilyOf["sync/policies"])
    BY <2>1, ParsedRows, RowFamilies
  <2>3. Good(Range(syncSamples(cl, ParseSyncPolicies(p))))
    BY <1>5, <2>2 DEF Fits
  <2> QED
    BY <1>5, <2>3, PartsListed DEF Part, p
<1>6. CASE ep = "license/licenses" /\ r[ep] # Failed
  <2> DEFINE p == r["license/licenses"]
  <2>1. IsList(p)
    BY <1>0, <1>6 DEF ListEndpoints
  <2> HIDE DEF p
  <2>2. Fits(licenseSamples(cl, ParseLicenses(p)), FamilyOf["license/licenses"])
    BY <2>1, ParsedRows, RowFamilies
  <2>3. Good(Range(licenseSamples(cl, ParseLicenses(p))))
    BY <1>6, <2>2 DEF Fits
  <2> QED
    BY <1>6, <2>3, PartsListed DEF Part, p
<1>7. CASE ep = "storagepools" /\ r[ep] # Failed
  <2> DEFINE p == r["storagepools"]
  <2>1. IsList(p)
    BY <1>0, <1>7 DEF ListEndpoints
  <2> HIDE DEF p
  <2>2. Fits(storagePoolSamples(cl, ParseStoragePools(p)), FamilyOf["storagepools"])
    BY <2>1, ParsedRows, RowFamilies
  <2>3. Good(Range(storagePoolSamples(cl, ParseStoragePools(p))))
    BY <1>7, <2>2 DEF Fits
  <2> QED
    BY <1>7, <2>3, PartsListed DEF Part, p
<1>8. CASE ep = "summary/protocol" /\ r[ep] # Failed
  <2> DEFINE p == r["summary/protocol"]
  <2>1. IsList(p)
    BY <1>0, <1>8 DEF ListEndpoints
  <2> HIDE DEF p
  <2>2. Fits(protoSamples(cl, ParseProtocolSummary(p)), FamilyOf["summary/protocol"])
    BY <2>1, ParsedRows, RowFamilies
  <2>3. Good(Range(protoSamples(cl, ParseProtocolSummary(p))))
    BY <1>8, <2>2 DEF Fits
  <2> QED
    BY <1>8, <2>3, PartsListed DEF Part, p
<1>9. CASE ep = "summary/drive" /\ r[ep] # Failed
  <2> DEFINE p == r["summary/drive"]
  <2>1. IsList(p)
    BY <1>0, <1>9 DEF ListEndpoints
  <2> HIDE DEF p
  <2>2. Fits(driveSamples(cl, ParseDriveSummary(p)), FamilyOf["summary/drive"])
    BY <2>1, ParsedDrives, RowFamilies
  <2>3. Good(Range(driveSamples(cl, ParseDriveSummary(p))))
    BY <1>9, <2>2 DEF Fits
  <2> QED
    BY <1>9, <2>3, PartsListed DEF Part, p
<1>10. CASE ep = "summary/client" /\ r[ep] # Failed
  <2> DEFINE p == r["summary/client"]
  <2>1. IsList(p)
    BY <1>0, <1>10 DEF ListEndpoints
  <2> HIDE DEF p
  <2>2. Fits(clientSamples(cl, ParseClientSummary(p)), FamilyOf["summary/client"])
    BY <2>1, ParsedRows, RowFamilies
  <2>3. Good(Range(clientSamples(cl, ParseClientSummary(p))))
    BY <1>10, <2>2 DEF Fits
  <2> QED
    BY <1>10, <2>3, PartsListed DEF Part, p
<1>11. CASE ep = "summary/workload" /\ r[ep] # Failed
  <2> DEFINE p == r["summary/workload"]
  <2>1. IsList(p)
    BY <1>0, <1>11 DEF ListEndpoints
  <2> HIDE DEF p
  <2>2. Fits(workloadSamples(cl, ParseWorkloadSummary(p)), FamilyOf["summary/workload"])
    BY <2>1, ParsedRows, RowFamilies
  <2>3. Good(Range(workloadSamples(cl, ParseWorkloadSummary(p))))
    BY <1>11, <2>2 DEF Fits
  <2> QED
    BY <1>11, <2>3, PartsListed DEF Part, p
<1> QED
  BY <1>1, <1>2, <1>3, <1>4, <1>5, <1>6, <1>7, <1>8, <1>9, <1>10, <1>11 DEF BestEffortListed, ZeroListed


\* The samples of the required requests.
LEMMA RequiredFits ==
  ASSUME NEW cl, NEW r \in Reply, \A ep \in RequiredListed : r[ep] # Failed
  PROVE  LET nodes == ParseNodes(r["cluster/nodes"])
         IN  /\ Fits(statSamples(cl, ParseStatCurrent(r["statistics/current"]), nodes), StatMetrics)
             /\ Fits(quotaSamples(cl, ParseQuotas(r["quota/quotas"])), QuotaMetrics)
             /\ Fits(nodeHealthSamples(cl, nodes), NodeMetrics)
             /\ Fits(hardwareSamples(cl, nodes), NodeMetrics)
<1> DEFINE nodes == ParseNodes(r["cluster/nodes"])
           rows == r["statistics/current"]
           quotas == r["quota/quotas"]
<1>1. IsList(rows) /\ IsList(quotas)
  BY ReplyLists DEF RequiredListed, ListEndpoints
<1>2. IsList(nodes) /\ \A i \in DOMAIN nodes : NodeOK(nodes[i])
  BY ReplyLists DEF RequiredListed
<1> HIDE DEF nodes, rows, quotas
<1>3. Fits(statSamples(cl, ParseStatCurrent(rows), nodes), StatMetrics)
  BY <1>1, ParsedStatistics, StatSamples
<1>4. Fits(quotaSamples(cl, ParseQuotas(quotas)), QuotaMetrics)
  BY <1>1, ParsedRows, RowFamilies
<1>5. Fits(nodeHealthSamples(cl, nodes), NodeMetrics) /\ Fits(hardwareSamples(cl, nodes), NodeMetrics)
  BY <1>2, NodeFamilies
<1> QED
  BY <1>3, <1>4, <1>5 DEF nodes, rows, quotas

\* What the fetches hand on.
LEMMA FetchedFields ==
  ASSUME NEW r
  PROVE  /\ GetInventory(r).Cluster = ParseClusterConfig(r["cluster/config"])
         /\ GetInventory(r).Nodes = ParseNodes(r["cluster/nodes"])
         /\ GetInventory(r).Quotas = ParseQuotas(r["quota/quotas"])
         /\ GetInventory(r).Counts = inventoryCounts(r)
         /\ GetInventory(r).Snapshot = Fetched(r, "snapshots-summary", ParseSnapshotSummary, 0)
         /\ GetInventory(r).SyncPolicies = Listed(r, "sync/policies", ParseSyncPolicies)
         /\ GetInventory(r).Events = Listed(r, "eventgroup-occurrences", ParseEventOccurrences)
         /\ GetInventory(r).Dedupe = Fetched(r, "dedupe-summary", ParseDedupeSummary, NoDedupe)
         /\ GetInventory(r).Licenses = Listed(r, "license/licenses", ParseLicenses)
         /\ GetInventory(r).StoragePools = Listed(r, "storagepools", ParseStoragePools)
         /\ GetStatistics(r).Current = ParseStatCurrent(r["statistics/current"])
         /\ GetStatistics(r).Proto = Listed(r, "summary/protocol", ParseProtocolSummary)
         /\ GetStatistics(r).Drives = Listed(r, "summary/drive", ParseDriveSummary)
         /\ GetStatistics(r).Clients = Listed(r, "summary/client", ParseClientSummary)
         /\ GetStatistics(r).Workloads = Listed(r, "summary/workload", ParseWorkloadSummary)
<1> DEFINE iCluster == ParseClusterConfig(r["cluster/config"])
           iNodes == ParseNodes(r["cluster/nodes"])
           iQuotas == ParseQuotas(r["quota/quotas"])
           iCounts == inventoryCounts(r)
           iSnapshot == Fetched(r, "snapshots-summary", ParseSnapshotSummary, 0)
           iSyncPolicies == Listed(r, "sync/policies", ParseSyncPolicies)
           iEvents == Listed(r, "eventgroup-occurrences", ParseEventOccurrences)
           iDedupe == Fetched(r, "dedupe-summary", ParseDedupeSummary, NoDedupe)
           iLicenses == Listed(r, "license/licenses", ParseLicenses)
           iStoragePools == Listed(r, "storagepools", ParseStoragePools)
           sCurrent == ParseStatCurrent(r["statistics/current"])
           sProto == Listed(r, "summary/protocol", ParseProtocolSummary)
           sDrives == Listed(r, "summary/drive", ParseDriveSummary)
           sClients == Listed(r, "summary/client", ParseClientSummary)
           sWorkloads == Listed(r, "summary/workload", ParseWorkloadSummary)
<1>1. GetInventory(r) =
        [Cluster |-> iCluster,
         Nodes |-> iNodes,
         Quotas |-> iQuotas,
         Counts |-> iCounts,
         Snapshot |-> iSnapshot,
         SyncPolicies |-> iSyncPolicies,
         Events |-> iEvents,
         Dedupe |-> iDedupe,
         Licenses |-> iLicenses,
         StoragePools |-> iStoragePools]
  BY DEF GetInventory, NoDedupe
<1>2. GetStatistics(r) =
        [Current |-> sCurrent,
         Proto |-> sProto,
         Drives |-> sDrives,
         Clients |-> sClients,
         Workloads |-> sWorkloads]
  BY DEF GetStatistics
<1> HIDE DEF iCluster, iNodes, iQuotas, iCounts, iSnapshot, iSyncPolicies, iEvents, iDedupe, iLicenses, iStoragePools, sCurrent, sProto, sDrives, sClients, sWorkloads
<1>3. /\ GetInventory(r).Cluster = iCluster
      /\ GetInventory(r).Nodes = iNodes
      /\ GetInventory(r).Quotas = iQuotas
      /\ GetInventory(r).Counts = iCounts
      /\ GetInventory(r).Snapshot = iSnapshot
      /\ GetInventory(r).SyncPolicies = iSyncPolicies
      /\ GetInventory(r).Events = iEvents
      /\ GetInventory(r).Dedupe = iDedupe
      /\ GetInventory(r).Licenses = iLicenses
      /\ GetInventory(r).StoragePools = iStoragePools
  BY <1>1
<1>4. /\ GetStatistics(r).Current = sCurrent
      /\ GetStatistics(r).Proto = sProto
      /\ GetStatistics(r).Drives = sDrives
      /\ GetStatistics(r).Clients = sClients
      /\ GetStatistics(r).Workloads = sWorkloads
  BY <1>2
<1> QED
  BY <1>3, <1>4 DEF iCluster, iNodes, iQuotas, iCounts, iSnapshot, iSyncPolicies, iEvents, iDedupe, iLicenses, iStoragePools, sCurrent, sProto, sDrives, sClients, sWorkloads


\* What each best-effort fetch becomes, answered or not.
LEMMA ListedParts ==
  ASSUME NEW cl, NEW r \in Reply
  PROVE  /\ Holds(syncSamples(cl, Listed(r, "sync/policies", ParseSyncPolicies)), Part(cl, r, "sync/policies"))
         /\ Holds(licenseSamples(cl, Listed(r, "license/licenses", ParseLicenses)), Part(cl, r, "license/licenses"))
         /\ Holds(storagePoolSamples(cl, Listed(r, "storagepools", ParseStoragePools)), Part(cl, r, "storagepools"))
         /\ Holds(protoSamples(cl, Listed(r, "summary/protocol", ParseProtocolSummary)), Part(cl, r, "summary/protocol"))
         /\ Holds(driveSamples(cl, Listed(r, "summary/drive", ParseDriveSummary)), Part(cl, r, "summary/drive"))
         /\ Holds(clientSamples(cl, Listed(r, "summary/client", ParseClientSummary)), Part(cl, r, "summary/client"))
         /\ Holds(workloadSamples(cl, Listed(r, "summary/workload", ParseWorkloadSummary)), Part(cl, r, "summary/workload"))
         /\ Holds(eventSamples(cl, Listed(r, "eventgroup-occurrences", ParseEventOccurrences)), Part(cl, r, "eventgroup-occurrences"))
<1>1. Holds(syncSamples(cl, Listed(r, "sync/policies", ParseSyncPolicies)), Part(cl, r, "sync/policies"))
  <2> DEFINE p == r["sync/policies"]
             rows == Listed(r, "sync/policies", ParseSyncPolicies)
  <2>1. rows = IF p = Failed THEN <<>> ELSE ParseSyncPolicies(p)
    BY DEF Listed, Fetched
  <2>2. Part(cl, r, "sync/policies") = IF p = Failed THEN {} ELSE Range(syncSamples(cl, ParseSyncPolicies(p)))
    BY PartsListed DEF Part, BestEffortListed, ZeroListed
  <2>3. p # Failed => IsList(p)
    BY ReplyLists DEF ListEndpoints
  <2> HIDE DEF p, rows
  <2>4. IsList(rows)
    BY <2>1, <2>3, ParsedRows, Tuples DEF IsList
  <2>5. IsList(syncSamples(cl, rows))
    BY <2>4, RowFamilies DEF Fits
  <2>6. Range(syncSamples(cl, rows)) = Part(cl, r, "sync/policies")
    BY <2>1, <2>2, NoRows
  <2> QED
    BY <2>5, <2>6, ListHolds DEF rows
<1>2. Holds(licenseSamples(cl, Listed(r, "license/licenses", ParseLicenses)), Part(cl, r, "license/licenses"))
  <2> DEFINE p == r["license/licenses"]
             rows == Listed(r, "license/licenses", ParseLicenses)
  <2>1. rows = IF p = Failed THEN <<>> ELSE ParseLicenses(p)
    BY DEF Listed, Fetched
  <2>2. Part(cl, r, "license/licenses") = IF p = Failed THEN {} ELSE Range(licenseSamples(cl, ParseLicenses(p)))
    BY PartsListed DEF Part, BestEffortListed, ZeroListed
  <2>3. p # Failed => IsList(p)
    BY ReplyLists DEF ListEndpoints
  <2> HIDE DEF p, rows
  <2>4. IsList(rows)
    BY <2>1, <2>3, ParsedRows, Tuples DEF IsList
  <2>5. IsList(licenseSamples(cl, rows))
    BY <2>4, RowFamilies DEF Fits
  <2>6. Range(licenseSamples(cl, rows)) = Part(cl, r, "license/licenses")
    BY <2>1, <2>2, NoRows
  <2> QED
    BY <2>5, <2>6, ListHolds DEF rows
<1>3. Holds(storagePoolSamples(cl, Listed(r, "storagepools", ParseStoragePools)), Part(cl, r, "storagepools"))
  <2> DEFINE p == r["storagepools"]
             rows == Listed(r, "storagepools", ParseStoragePools)
  <2>1. rows = IF p = Failed THEN <<>> ELSE ParseStoragePools(p)
    BY DEF Listed, Fetched
  <2>2. Part(cl, r, "storagepools") = IF p = Failed THEN {} ELSE Range(storagePoolSamples(cl, ParseStoragePools(p)))
    BY PartsListed DEF Part, BestEffortListed, ZeroListed
  <2>3. p # Failed => IsList(p)
    BY ReplyLists DEF ListEndpoints
  <2> HIDE DEF p, rows
  <2>4. IsList(rows)
    BY <2>1, <2>3, ParsedRows, Tuples DEF IsList
  <2>5. IsList(storagePoolSamples(cl, rows))
    BY <2>4, RowFamilies DEF Fits
  <2>6. Range(storagePoolSamples(cl, rows)) = Part(cl, r, "storagepools")
    BY <2>1, <2>2, NoRows
  <2> QED
    BY <2>5, <2>6, ListHolds DEF rows
<1>4. Holds(protoSamples(cl, Listed(r, "summary/protocol", ParseProtocolSummary)), Part(cl, r, "summary/protocol"))
  <2> DEFINE p == r["summary/protocol"]
             rows == Listed(r, "summary/protocol", ParseProtocolSummary)
  <2>1. rows = IF p = Failed THEN <<>> ELSE ParseProtocolSummary(p)
    BY DEF Listed, Fetched
  <2>2. Part(cl, r, "summary/protocol") = IF p = Failed THEN {} ELSE Range(protoSamples(cl, ParseProtocolSummary(p)))
    BY PartsListed DEF Part, BestEffortListed, ZeroListed
  <2>3. p # Failed => IsList(p)
    BY ReplyLists DEF ListEndpoints
  <2> HIDE DEF p, rows
  <2>4. IsList(rows)
    BY <2>1, <2>3, ParsedRows, Tuples DEF IsList
  <2>5. IsList(protoSamples(cl, rows))
    BY <2>4, RowFamilies DEF Fits
  <2>6. Range(protoSamples(cl, rows)) = Part(cl, r, "summary/protocol")
    BY <2>1, <2>2, NoRows
  <2> QED
    BY <2>5, <2>6, ListHolds DEF rows
<1>5. Holds(driveSamples(cl, Listed(r, "summary/drive", ParseDriveSummary)), Part(cl, r, "summary/drive"))
  <2> DEFINE p == r["summary/drive"]
             rows == Listed(r, "summary/drive", ParseDriveSummary)
  <2>1. rows = IF p = Failed THEN <<>> ELSE ParseDriveSummary(p)
    BY DEF Listed, Fetched
  <2>2. Part(cl, r, "summary/drive") = IF p = Failed THEN {} ELSE Range(driveSamples(cl, ParseDriveSummary(p)))
    BY PartsListed DEF Part, BestEffortListed, ZeroListed
  <2>3. p # Failed => IsList(p)
    BY ReplyLists DEF ListEndpoints
  <2> HIDE DEF p, rows
  <2>4. IsList(rows)
    BY <2>1, <2>3, ParsedDrives, Tuples DEF IsList
  <2>5. IsList(driveSamples(cl, rows))
    BY <2>4, RowFamilies DEF Fits
  <2>6. Range(driveSamples(cl, rows)) = Part(cl, r, "summary/drive")
    BY <2>1, <2>2, NoRows
  <2> QED
    BY <2>5, <2>6, ListHolds DEF rows
<1>6. Holds(clientSamples(cl, Listed(r, "summary/client", ParseClientSummary)), Part(cl, r, "summary/client"))
  <2> DEFINE p == r["summary/client"]
             rows == Listed(r, "summary/client", ParseClientSummary)
  <2>1. rows = IF p = Failed THEN <<>> ELSE ParseClientSummary(p)
    BY DEF Listed, Fetched
  <2>2. Part(cl, r, "summary/client") = IF p = Failed THEN {} ELSE Range(clientSamples(cl, ParseClientSummary(p)))
    BY PartsListed DEF Part, BestEffortListed, ZeroListed
  <2>3. p # Failed => IsList(p)
    BY ReplyLists DEF ListEndpoints
  <2> HIDE DEF p, rows
  <2>4. IsList(rows)
    BY <2>1, <2>3, ParsedRows, Tuples DEF IsList
  <2>5. IsList(clientSamples(cl, rows))
    BY <2>4, RowFamilies DEF Fits
  <2>6. Range(clientSamples(cl, rows)) = Part(cl, r, "summary/client")
    BY <2>1, <2>2, NoRows
  <2> QED
    BY <2>5, <2>6, ListHolds DEF rows
<1>7. Holds(workloadSamples(cl, Listed(r, "summary/workload", ParseWorkloadSummary)), Part(cl, r, "summary/workload"))
  <2> DEFINE p == r["summary/workload"]
             rows == Listed(r, "summary/workload", ParseWorkloadSummary)
  <2>1. rows = IF p = Failed THEN <<>> ELSE ParseWorkloadSummary(p)
    BY DEF Listed, Fetched
  <2>2. Part(cl, r, "summary/workload") = IF p = Failed THEN {} ELSE Range(workloadSamples(cl, ParseWorkloadSummary(p)))
    BY PartsListed DEF Part, BestEffortListed, ZeroListed
  <2>3. p # Failed => IsList(p)
    BY ReplyLists DEF ListEndpoints
  <2> HIDE DEF p, rows
  <2>4. IsList(rows)
    BY <2>1, <2>3, ParsedRows, Tuples DEF IsList
  <2>5. IsList(workloadSamples(cl, rows))
    BY <2>4, RowFamilies DEF Fits
  <2>6. Range(workloadSamples(cl, rows)) = Part(cl, r, "summary/workload")
    BY <2>1, <2>2, NoRows
  <2> QED
    BY <2>5, <2>6, ListHolds DEF rows
<1>8. Holds(eventSamples(cl, Listed(r, "eventgroup-occurrences", ParseEventOccurrences)), Part(cl, r, "eventgroup-occurrences"))
  <2> DEFINE p == r["eventgroup-occurrences"]
             rows == Listed(r, "eventgroup-occurrences", ParseEventOccurrences)
  <2>1. rows = IF p = Failed THEN <<>> ELSE ParseEventOccurrences(p)
    BY DEF Listed, Fetched
  <2>2. Part(cl, r, "eventgroup-occurrences") = IF p = Failed THEN {} ELSE Range(eventSamples(cl, ParseEventOccurrences(p)))
    BY PartsListed DEF Part, BestEffortListed, ZeroListed
  <2>3. p # Failed => IsList(p)
    BY ReplyLists DEF ListEndpoints
  <2> HIDE DEF p, rows
  <2>4. IsFiniteSet(DOMAIN rows)
    <3>1. IsFiniteSet(DOMAIN <<>>)
      BY EmptyRange, FS_EmptySet
    <3>2. p # Failed => IsFiniteSet(DOMAIN ParseEventOccurrences(p))
      BY <2>3, OnlyUnresolved, CountedKeys DEF ParseEventOccurrences
    <3> QED
      BY <2>1, <3>1, <3>2
  <2>5. IsList(eventSamples(cl, rows))
    BY <2>4, EventsFit DEF Fits
  <2>6. Range(eventSamples(cl, rows)) = Part(cl, r, "eventgroup-occurrences")
    BY <2>1, <2>2, NoRows
  <2> QED
    BY <2>5, <2>6, ListHolds DEF rows
<1> QED
  BY <1>1, <1>2, <1>3, <1>4, <1>5, <1>6, <1>7, <1>8

\* The families that are made of totals are the parts of their requests, failed or not.
LEMMA TotalParts ==
  ASSUME NEW cl, NEW r \in Reply
  PROVE  /\ Holds(countSamples(cl, inventoryCounts(r)),
                  Part(cl, r, "nfs/exports") \cup Part(cl, r, "smb/shares")
                  \cup Part(cl, r, "snapshot/snapshots"))
         /\ Holds(snapshotSamples(cl, Fetched(r, "snapshots-summary", ParseSnapshotSummary, 0)),
                  Part(cl, r, "snapshots-summary"))
         /\ Holds(dedupeSamples(cl, Fetched(r, "dedupe-summary", ParseDedupeSummary, NoDedupe)),
                  Part(cl, r, "dedupe-summary"))
<1> DEFINE n == Fetched(r, "nfs/exports", ParseTotal, 0)
           m == Fetched(r, "smb/shares", ParseTotal, 0)
           k == Fetched(r, "snapshot/snapshots", ParseTotal, 0)
           u == Fetched(r, "snapshots-summary", ParseSnapshotSummary, 0)
           d == Fetched(r, "dedupe-summary", ParseDedupeSummary, NoDedupe)
           counts == inventoryCounts(r)
<1>1. counts = [NFSExports |-> n, SMBShares |-> m, Snapshots |-> k]
  BY DEF inventoryCounts
<1>2. Part(cl, r, "nfs/exports") = {Gauge("powerscale_nfs_exports", baseLabels(cl), n)}
  BY PartsListed DEF Part, Fetched
<1>3. Part(cl, r, "smb/shares") = {Gauge("powerscale_smb_shares", baseLabels(cl), m)}
  BY PartsListed DEF Part, Fetched
<1>4. Part(cl, r, "snapshot/snapshots") = {Gauge("powerscale_snapshots", baseLabels(cl), k)}
  BY PartsListed DEF Part, Fetched
<1>5. Part(cl, r, "snapshots-summary") = {Gauge("powerscale_snapshot_used_bytes", baseLabels(cl), u)}
  BY PartsListed DEF Part, Fetched
<1>6. Part(cl, r, "dedupe-summary") = Dedupe(cl, d)
  BY PartsListed DEF Part, Fetched
<1> HIDE DEF n, m, k, u, d, counts
<1>7. counts.NFSExports = n /\ counts.SMBShares = m /\ counts.Snapshots = k
  BY <1>1
<1>8. Holds(countSamples(cl, counts),
            Part(cl, r, "nfs/exports") \cup Part(cl, r, "smb/shares")
            \cup Part(cl, r, "snapshot/snapshots"))
  <2> DEFINE a == Gauge("powerscale_nfs_exports", baseLabels(cl), n)
             b == Gauge("powerscale_smb_shares", baseLabels(cl), m)
             c == Gauge("powerscale_snapshots", baseLabels(cl), k)
  <2>1. countSamples(cl, counts) = <<a, b, c>>
    BY <1>7 DEF countSamples
  <2>2. Part(cl, r, "nfs/exports") = {a} /\ Part(cl, r, "smb/shares") = {b}
        /\ Part(cl, r, "snapshot/snapshots") = {c}
    BY <1>2, <1>3, <1>4
  <2> HIDE DEF a, b, c
  <2>3. {a} \cup {b} \cup {c} = {a, b, c}
    OBVIOUS
  <2>4. Holds(<<a, b, c>>, {a, b, c})
    BY Holding
  <2> QED
    BY <2>1, <2>2, <2>3, <2>4
<1>9. Holds(snapshotSamples(cl, u), Part(cl, r, "snapshots-summary"))
  BY <1>5, Holding DEF snapshotSamples
<1>10. Holds(dedupeSamples(cl, d), Part(cl, r, "dedupe-summary"))
  BY <1>6, Holding DEF dedupeSamples, Dedupe
<1> QED
  BY <1>8, <1>9, <1>10 DEF n, m, k, u, d, counts

\* An up cluster's samples are those of its required requests and of each of the
\* best-effort ones.
LEMMA SamplesByRequest ==
  ASSUME NEW c, NEW r \in Reply, \A ep \in RequiredListed : r[ep] # Failed
  PROVE  LET cl == ClusterOf(c, r)
         IN  /\ CollectCluster(c, r).Up
             /\ Range(CollectCluster(c, r).Samples) =
                   RequiredSamples(cl, r) \cup UNION {Part(cl, r, ep) : ep \in BestEffortListed}
<1> DEFINE cl == ClusterOf(c, r)
           nodes == ParseNodes(r["cluster/nodes"])
           s1 == statSamples(cl, ParseStatCurrent(r["statistics/current"]), nodes)
           s2 == quotaSamples(cl, ParseQuotas(r["quota/quotas"]))
           s3 == countSamples(cl, inventoryCounts(r))
           s4 == protoSamples(cl, Listed(r, "summary/protocol", ParseProtocolSummary))
           s5 == nodeHealthSamples(cl, nodes)
           s6 == hardwareSamples(cl, nodes)
           s7 == snapshotSamples(cl, Fetched(r, "snapshots-summary", ParseSnapshotSummary, 0))
           s8 == syncSamples(cl, Listed(r, "sync/policies", ParseSyncPolicies))
           s9 == eventSamples(cl, Listed(r, "eventgroup-occurrences", ParseEventOccurrences))
           s10 == dedupeSamples(cl, Fetched(r, "dedupe-summary", ParseDedupeSummary, NoDedupe))
           s11 == licenseSamples(cl, Listed(r, "license/licenses", ParseLicenses))
           s12 == storagePoolSamples(cl, Listed(r, "storagepools", ParseStoragePools))
           s13 == driveSamples(cl, Listed(r, "summary/drive", ParseDriveSummary))
           s14 == clientSamples(cl, Listed(r, "summary/client", ParseClientSummary))
           s15 == workloadSamples(cl, Listed(r, "summary/workload", ParseWorkloadSummary))
           R1 == Range(s1)
           R2 == Range(s2)
           R3 == Part(cl, r, "nfs/exports") \cup Part(cl, r, "smb/shares") \cup Part(cl, r, "snapshot/snapshots")
           R4 == Part(cl, r, "summary/protocol")
           R5 == Range(s5)
           R6 == Range(s6)
           R7 == Part(cl, r, "snapshots-summary")
           R8 == Part(cl, r, "sync/policies")
           R9 == Part(cl, r, "eventgroup-occurrences")
           R10 == Part(cl, r, "dedupe-summary")
           R11 == Part(cl, r, "license/licenses")
           R12 == Part(cl, r, "storagepools")
           R13 == Part(cl, r, "summary/drive")
           R14 == Part(cl, r, "summary/client")
           R15 == Part(cl, r, "summary/workload")
<1>1. CollectCluster(c, r) =
        [Up |-> TRUE, Samples |-> BuildSamples(c, GetInventory(r), GetStatistics(r))]
  BY EndpointsListed DEF CollectCluster
<1>2. BuildSamples(c, GetInventory(r), GetStatistics(r)) =
        s1 \o s2 \o s3 \o s4 \o s5 \o s6 \o s7 \o s8 \o s9 \o s10 \o s11 \o s12 \o s13 \o s14 \o s15
  BY FetchedFields DEF BuildSamples, ClusterOf
<1>3. Holds(s1, R1) /\ Holds(s2, R2) /\ Holds(s5, R5) /\ Holds(s6, R6)
  <2>1. IsList(s1) /\ IsList(s2) /\ IsList(s5) /\ IsList(s6)
    BY RequiredFits DEF Fits
  <2> HIDE DEF s1, s2, s5, s6
  <2> QED
    BY <2>1, ListHolds
<1>4. Holds(s3, R3) /\ Holds(s7, R7) /\ Holds(s10, R10)
  BY TotalParts
<1>5. /\ Holds(s4, R4) /\ Holds(s8, R8) /\ Holds(s9, R9) /\ Holds(s11, R11) /\ Holds(s12, R12)
      /\ Holds(s13, R13) /\ Holds(s14, R14) /\ Holds(s15, R15)
  BY ListedParts
<1>6. R1 \cup R2 \cup R5 \cup R6 = RequiredSamples(cl, r)
  BY DEF RequiredSamples
<1>7. R3 \cup R4 \cup R7 \cup R8 \cup R9 \cup R10 \cup R11 \cup R12 \cup R13 \cup R14 \cup R15
        = UNION {Part(cl, r, ep) : ep \in BestEffortListed}
  <2> HIDE DEF cl
  <2> QED
    BY DEF BestEffortListed
<1> HIDE DEF s1, R1, s2, R2, s3, R3, s4, R4, s5, R5, s6, R6, s7, R7, s8, R8, s9, R9, s10, R10, s11, R11, s12, R12, s13, R13, s14, R14, s15, R15
<1>8. Holds(s1 \o s2 \o s3 \o s4 \o s5 \o s6, R1 \cup R2 \cup R3 \cup R4 \cup R5 \cup R6)
  BY <1>3, <1>4, <1>5, ConcatHolds6
<1>9. Holds(s1 \o s2 \o s3 \o s4 \o s5 \o s6 \o s7 \o s8 \o s9 \o s10 \o s11,
            R1 \cup R2 \cup R3 \cup R4 \cup R5 \cup R6 \cup R7 \cup R8 \cup R9 \cup R10 \cup R11)
  <2> DEFINE a == s1 \o s2 \o s3 \o s4 \o s5 \o s6
             A == R1 \cup R2 \cup R3 \cup R4 \cup R5 \cup R6
  <2>1. Holds(a, A)
    BY <1>8
  <2> HIDE DEF a, A
  <2>2. Holds(a \o s7 \o s8 \o s9 \o s10 \o s11, A \cup R7 \cup R8 \cup R9 \cup R10 \cup R11)
    BY <1>4, <1>5, <2>1, ConcatHolds6
  <2> QED
    BY <2>2 DEF a, A
<1>10. Holds(s1 \o s2 \o s3 \o s4 \o s5 \o s6 \o s7 \o s8 \o s9 \o s10 \o s11 \o s12 \o s13 \o s14 \o s15,
             R1 \cup R2 \cup R3 \cup R4 \cup R5 \cup R6 \cup R7 \cup R8 \cup R9 \cup R10 \cup R11 \cup R12 \cup R13 \cup R14 \cup R15)
  <2> DEFINE a == s1 \o s2 \o s3 \o s4 \o s5 \o s6 \o s7 \o s8 \o s9 \o s10 \o s11
             A == R1 \cup R2 \cup R3 \cup R4 \cup R5 \cup R6 \cup R7 \cup R8 \cup R9 \cup R10 \cup R11
  <2>1. Holds(a, A)
    BY <1>9
  <2> HIDE DEF a, A
  <2>2. Holds(a \o s12 \o s13 \o s14 \o s15, A \cup R12 \cup R13 \cup R14 \cup R15)
    BY <1>5, <2>1, ConcatHolds5
  <2> QED
    BY <2>2 DEF a, A
<1> DEFINE samples == s1 \o s2 \o s3 \o s4 \o s5 \o s6 \o s7 \o s8 \o s9 \o s10 \o s11 \o s12 \o s13 \o s14 \o s15
           union == R1 \cup R2 \cup R3 \cup R4 \cup R5 \cup R6 \cup R7 \cup R8 \cup R9 \cup R10 \cup R11 \cup R12 \cup R13 \cup R14 \cup R15
<1>11. union = RequiredSamples(cl, r) \cup UNION {Part(cl, r, ep) : ep \in BestEffortListed}
  BY <1>6, <1>7
<1>12. Range(samples) = union
  <2> HIDE DEF samples, union
  <2>1. Holds(samples, union)
    BY <1>10 DEF samples, union
  <2> QED
    BY <2>1, HoldsList
<1>13. CollectCluster(c, r).Up /\ CollectCluster(c, r).Samples = samples
  <2> DEFINE bs == BuildSamples(c, GetInventory(r), GetStatistics(r))
  <2>1. bs = samples
    BY <1>2
  <2>2. CollectCluster(c, r) = [Up |-> TRUE, Samples |-> bs]
    BY <1>1
  <2> HIDE DEF bs, samples
  <2> QED
    BY <2>1, <2>2
<1> HIDE DEF samples, union
<1> QED
  BY <1>11, <1>12, <1>13 DEF cl


-----------------------------------------------------------------------------
(* The state.                                                               *)

\* A result that is there is what its cluster's reply becomes: inductive as it
\* stands, and all that the properties of the samples need of the state.
ResultsFollow ==
    /\ DOMAIN reply = Cluster /\ DOMAIN result = Cluster
    /\ \A c \in Cluster : result[c] # Pending =>
          reply[c] \in Reply /\ result[c] = CollectCluster(c, reply[c])

\* At first no result is there.
LEMMA ResultsFollowInit == Init => ResultsFollow
  BY DEF Init, ResultsFollow

\* A result is made of the reply of its cycle, and a new cycle has none.
LEMMA ResultsFollowNext == ResultsFollow /\ [Next]_vars => ResultsFollow'
<1> SUFFICES ASSUME ResultsFollow, [Next]_vars PROVE ResultsFollow'
  OBVIOUS
<1>1. CASE NextCycle
  BY <1>1 DEF NextCycle, ResultsFollow
<1>2. ASSUME NEW c \in Cluster, Collect(c) PROVE ResultsFollow'
  <2>1. PICK r \in Reply : /\ reply' = [reply EXCEPT ![c] = r]
                           /\ result' = [result EXCEPT ![c] = CollectCluster(c, r)]
    BY <1>2 DEF Collect
  <2>2. DOMAIN reply' = Cluster /\ DOMAIN result' = Cluster
    BY <2>1 DEF ResultsFollow
  <2>3. ASSUME NEW d \in Cluster, result'[d] # Pending
        PROVE  reply'[d] \in Reply /\ result'[d] = CollectCluster(d, reply'[d])
    <3>1. CASE d = c
      BY <2>1, <3>1 DEF ResultsFollow
    <3>2. CASE d # c
      BY <2>1, <2>3, <3>2 DEF ResultsFollow
    <3> QED
      BY <3>1, <3>2
  <2> QED
    BY <2>2, <2>3 DEF ResultsFollow
<1>3. CASE UNCHANGED vars
  BY <1>3 DEF vars, ResultsFollow
<1> QED
  BY <1>1, <1>2, <1>3 DEF Next

\* The inductive invariant.
LEMMA ResultsFollowAlways == Spec => []ResultsFollow
  BY ResultsFollowInit, ResultsFollowNext, PTL DEF Spec

\* What a collected cluster holds: nothing when it is down, the samples of its
\* requests when it is up.
LEMMA DownOrUp ==
  ASSUME ResultsFollow, NEW c \in Collected
  PROVE  /\ reply[c] \in Reply
         /\ ~result[c].Up => Range(Samples(c)) = {}
         /\ result[c].Up =>
               /\ \A ep \in RequiredListed : reply[c][ep] # Failed
               /\ Range(Samples(c)) =
                     RequiredSamples(ClusterOf(c, reply[c]), reply[c])
                     \cup UNION {Part(ClusterOf(c, reply[c]), reply[c], ep) : ep \in BestEffortListed}
<1> DEFINE r == reply[c]
<1>1. c \in Cluster /\ r \in Reply /\ result[c] = CollectCluster(c, r)
  BY DEF Collected, ResultsFollow
<1> HIDE DEF r
<1>2. CASE \E ep \in RequiredListed : r[ep] = Failed
  <2>1. result[c] = [Up |-> FALSE, Samples |-> <<>>]
    BY <1>1, <1>2, EndpointsListed DEF CollectCluster
  <2>2. result[c].Up = FALSE /\ Samples(c) = <<>>
    BY <2>1 DEF Samples
  <2> QED
    BY <1>1, <2>2, EmptyRange DEF r
<1>3. CASE \A ep \in RequiredListed : r[ep] # Failed
  <2>1. /\ CollectCluster(c, r).Up
        /\ Range(CollectCluster(c, r).Samples) =
              RequiredSamples(ClusterOf(c, r), r)
              \cup UNION {Part(ClusterOf(c, r), r, ep) : ep \in BestEffortListed}
    BY <1>1, <1>3, SamplesByRequest
  <2>2. result[c].Up /\ Samples(c) = CollectCluster(c, r).Samples
    BY <1>1, <2>1 DEF Samples
  <2> QED
    BY <1>1, <1>3, <2>1, <2>2 DEF r
<1> QED
  BY <1>2, <1>3

\* The samples of the required requests have metrics of their own.
LEMMA RequiredSamplesFit ==
  ASSUME NEW cl, NEW r \in Reply, \A ep \in RequiredListed : r[ep] # Failed
  PROVE  \A s \in RequiredSamples(cl, r) :
            SampleFits(s, StatMetrics \cup QuotaMetrics \cup NodeMetrics)
<1> DEFINE M == StatMetrics \cup QuotaMetrics \cup NodeMetrics
           nodes == ParseNodes(r["cluster/nodes"])
           s1 == statSamples(cl, ParseStatCurrent(r["statistics/current"]), nodes)
           s2 == quotaSamples(cl, ParseQuotas(r["quota/quotas"]))
           s3 == nodeHealthSamples(cl, nodes)
           s4 == hardwareSamples(cl, nodes)
<1>1. Fits(s1, StatMetrics) /\ Fits(s2, QuotaMetrics) /\ Fits(s3, NodeMetrics) /\ Fits(s4, NodeMetrics)
  BY RequiredFits
<1>2. RequiredSamples(cl, r) = Range(s1) \cup Range(s2) \cup Range(s3) \cup Range(s4)
  BY DEF RequiredSamples
<1> HIDE DEF s1, s2, s3, s4
<1>3. Fits(s1, M) /\ Fits(s2, M) /\ Fits(s3, M) /\ Fits(s4, M)
  BY <1>1, FittingWiden
<1> QED
  BY <1>2, <1>3 DEF Fits

\* Every sample has the label names of its metric.
LEMMA AllLabelled ==
  ASSUME ResultsFollow
  PROVE  \A s \in All : LabelNames(s) = LabelNamesOf(s.Name)
<1> SUFFICES ASSUME NEW c \in Collected, NEW s \in Range(Samples(c))
             PROVE  LabelNames(s) = LabelNamesOf(s.Name)
  BY DEF All
<1> DEFINE r == reply[c]
           cl == ClusterOf(c, r)
<1>1. r \in Reply
  BY DownOrUp
<1>2. result[c].Up
  BY DownOrUp
<1>3. \A ep \in RequiredListed : r[ep] # Failed
  BY <1>2, DownOrUp
<1>4. s \in RequiredSamples(cl, r) \/ \E ep \in BestEffortListed : s \in Part(cl, r, ep)
  BY <1>2, DownOrUp
<1> HIDE DEF r, cl
<1>5. CASE s \in RequiredSamples(cl, r)
  BY <1>1, <1>3, <1>5, RequiredSamplesFit DEF SampleFits
<1>6. ASSUME NEW ep \in BestEffortListed, s \in Part(cl, r, ep)
      PROVE  LabelNames(s) = LabelNamesOf(s.Name)
  BY <1>1, <1>6, PartFits DEF SampleFits
<1> QED
  BY <1>4, <1>5, <1>6

\* All samples of a metric have the same label names, whatever the clusters and
\* the rows of their replies: none is dropped by PromCollector.Collect for not
\* fitting the description made from another.
THEOREM LabelsOfAMetricAgree == Spec => []LabelsAgree
<1>1. ResultsFollow => LabelsAgree
  BY AllLabelled DEF LabelsAgree
<1> QED
  BY <1>1, ResultsFollowAlways, PTL


-----------------------------------------------------------------------------
(* A failed request costs its own metrics.                                  *)

\* A metric is of one request.
LEMMA FamiliesDisjoint ==
    /\ \A e, f \in BestEffortListed : e # f => FamilyOf[e] \cap FamilyOf[f] = {}
    /\ \A e \in BestEffortListed :
          FamilyOf[e] \cap (StatMetrics \cup QuotaMetrics \cup NodeMetrics) = {}
<1>1. \A f \in BestEffortListed : "nfs/exports" # f => FamilyOf["nfs/exports"] \cap FamilyOf[f] = {}
  BY Families, PoolMetricsListed DEF BestEffortListed
<1>2. \A f \in BestEffortListed : "smb/shares" # f => FamilyOf["smb/shares"] \cap FamilyOf[f] = {}
  BY Families, PoolMetricsListed DEF BestEffortListed
<1>3. \A f \in BestEffortListed : "snapshot/snapshots" # f => FamilyOf["snapshot/snapshots"] \cap FamilyOf[f] = {}
  BY Families, PoolMetricsListed DEF BestEffortListed
<1>4. \A f \in BestEffortListed : "snapshots-summary" # f => FamilyOf["snapshots-summary"] \cap FamilyOf[f] = {}
  BY Families, PoolMetricsListed DEF BestEffortListed
<1>5. \A f \in BestEffortListed : "sync/policies" # f => FamilyOf["sync/policies"] \cap FamilyOf[f] = {}
  BY Families, PoolMetricsListed DEF BestEffortListed
<1>6. \A f \in BestEffortListed : "eventgroup-occurrences" # f => FamilyOf["eventgroup-occurrences"] \cap FamilyOf[f] = {}
  BY Families, PoolMetricsListed DEF BestEffortListed
<1>7. \A f \in BestEffortListed : "dedupe-summary" # f => FamilyOf["dedupe-summary"] \cap FamilyOf[f] = {}
  BY Families, PoolMetricsListed DEF BestEffortListed
<1>8. \A f \in BestEffortListed : "license/licenses" # f => FamilyOf["license/licenses"] \cap FamilyOf[f] = {}
  BY Families, PoolMetricsListed DEF BestEffortListed
<1>9. \A f \in BestEffortListed : "storagepools" # f => FamilyOf["storagepools"] \cap FamilyOf[f] = {}
  BY Families, PoolMetricsListed DEF BestEffortListed
<1>10. \A f \in BestEffortListed : "summary/protocol" # f => FamilyOf["summary/protocol"] \cap FamilyOf[f] = {}
  BY Families, PoolMetricsListed DEF BestEffortListed
<1>11. \A f \in BestEffortListed : "summary/drive" # f => FamilyOf["summary/drive"] \cap FamilyOf[f] = {}
  BY Families, PoolMetricsListed DEF BestEffortListed
<1>12. \A f \in BestEffortListed : "summary/client" # f => FamilyOf["summary/client"] \cap FamilyOf[f] = {}
  BY Families, PoolMetricsListed DEF BestEffortListed
<1>13. \A f \in BestEffortListed : "summary/workload" # f => FamilyOf["summary/workload"] \cap FamilyOf[f] = {}
  BY Families, PoolMetricsListed DEF BestEffortListed
<1>14. \A e \in BestEffortListed : FamilyOf[e] \cap (QuotaMetrics \cup NodeMetrics) = {}
  BY Families, PoolMetricsListed, QuotaMetricsListed DEF BestEffortListed, NodeMetrics
<1>15. \A e \in BestEffortListed : FamilyOf[e] \cap StatMetrics = {}
  BY StatMetricAssumption, EndpointsListed DEF StatMetrics
<1>16. ASSUME NEW e \in BestEffortListed, NEW f \in BestEffortListed, e # f
       PROVE  FamilyOf[e] \cap FamilyOf[f] = {}
  BY <1>16, <1>1, <1>2, <1>3, <1>4, <1>5, <1>6, <1>7, <1>8, <1>9, <1>10, <1>11, <1>12, <1>13 DEF BestEffortListed
<1> QED
  BY <1>14, <1>15, <1>16

\* One cluster: its samples, and those of a reply in which no request has failed.
LEMMA LossOfOne ==
  ASSUME ResultsFollow, NEW c \in Collected, result[c].Up, NEW q \in Reply, Completes(q, reply[c])
  PROVE  LET Others(samples) == {s \in Range(samples) : s.Name \notin Lost(reply[c])}
         IN  Others(Samples(c)) = Others(CollectCluster(c, q).Samples)
<1> DEFINE r == reply[c]
           cl == ClusterOf(c, r)
           req == RequiredSamples(cl, r)
           whole == Range(CollectCluster(c, q).Samples)
           lost == Lost(r)
           got == Range(Samples(c))
           Fails(ep) == r[ep] = Failed
<1>1. /\ r \in Reply /\ \A ep \in RequiredListed : r[ep] # Failed
      /\ got = req \cup UNION {Part(cl, r, ep) : ep \in BestEffortListed}
  BY DownOrUp
<1>2. \A ep \in RequiredListed \cup BestEffortListed :
         q[ep] # Failed /\ (~Fails(ep) => q[ep] = r[ep])
  <2>1. DOMAIN r = RequiredListed \cup BestEffortListed
    BY <1>1, ReplyLists
  <2> QED
    BY <2>1 DEF Completes
<1>3. \A ep \in RequiredListed : q[ep] = r[ep]
  BY <1>1, <1>2
<1>4. ClusterOf(c, q) = cl /\ RequiredSamples(cl, q) = req
  BY <1>3 DEF ClusterOf, RequiredSamples, RequiredListed
<1>5. whole = req \cup UNION {Part(cl, q, ep) : ep \in BestEffortListed}
  BY <1>2, <1>4, SamplesByRequest
<1>6. lost = UNION {FamilyOf[ep] : ep \in {e \in BestEffortListed : Fails(e)}}
  BY EndpointsListed DEF Lost
<1>7. \A ep \in BestEffortListed : /\ \A s \in Part(cl, q, ep) : s.Name \in FamilyOf[ep]
                                   /\ \A s \in Part(cl, r, ep) : s.Name \in FamilyOf[ep]
  BY <1>1, PartFits DEF SampleFits
<1>8. \A ep \in BestEffortListed : ~Fails(ep) => Part(cl, r, ep) = Part(cl, q, ep)
  BY <1>2 DEF Part
<1> HIDE DEF req, whole, lost, got, Fails, r, cl
<1>9. \A s : s.Name \notin lost => (s \in got <=> s \in whole)
  <2> SUFFICES ASSUME NEW s, s.Name \notin lost, NEW ep \in BestEffortListed
               PROVE  s \in Part(cl, r, ep) <=> s \in Part(cl, q, ep)
    BY <1>1, <1>5
  <2>1. CASE Fails(ep)
    BY <1>6, <1>7, <2>1
  <2>2. CASE ~Fails(ep)
    BY <1>8, <2>2
  <2> QED
    BY <2>1, <2>2
<1>10. {s \in got : s.Name \notin lost} = {s \in whole : s.Name \notin lost}
  BY <1>9
<1> QED
  BY <1>10 DEF got, whole, lost, r

\* A failed best-effort request changes nothing outside the metrics of its own
\* family, whatever the other requests answered (the best-effort fetches of client.go, from line 242 on).
THEOREM LossStaysLocal == Spec => []LossIsLocal
<1>1. ResultsFollow => LossIsLocal
  BY LossOfOne DEF LossIsLocal
<1> QED
  BY <1>1, ResultsFollowAlways, PTL


-----------------------------------------------------------------------------
(* Labels by position.                                                      *)

\* The labels of a node, by position.
LEMMA NodeLabelsAt ==
    \A cl, x : /\ DOMAIN nodeLabels(cl, x) = 1..3
               /\ nodeLabels(cl, x)[1] = <<"cluster", cl.name>>
               /\ nodeLabels(cl, x)[2] = <<"cluster_id", cl.id>>
               /\ nodeLabels(cl, x)[3] = <<"node", x>>
<1> TAKE cl, x
<1> DEFINE l == baseLabels(cl)
           m == << <<"node", x>> >>
<1>1. /\ DOMAIN l = 1..2 /\ DOMAIN m = 1..1 /\ l[1] = <<"cluster", cl.name>>
      /\ l[2] = <<"cluster_id", cl.id>> /\ m[1] = <<"node", x>>
  BY DEF baseLabels
<1>2. IsList(l) /\ IsList(m)
  BY Tuples DEF baseLabels, IsList
<1>3. nodeLabels(cl, x) = l \o m
  BY DEF nodeLabels
<1> HIDE DEF l, m
<1> DEFINE T == Range(l) \cup Range(m)
<1>4. l \in Seq(T) /\ m \in Seq(T)
  BY <1>2 DEF IsList
<1>5. Len(l) = 2 /\ Len(m) = 1
  BY <1>1, <1>4
<1> HIDE DEF T
<1> DEFINE u == l \o m
           j == Len(l)
           k == Len(m)
<1>6. /\ j \in Nat /\ k \in Nat /\ DOMAIN u = 1..(j + k)
      /\ \A i \in 1..j : u[i] = l[i]
      /\ \A i \in (j + 1)..(j + k) : u[i] = m[i - j]
  BY <1>4
<1>7. j = 2 /\ k = 1
  BY <1>5
<1> HIDE DEF u, j, k
<1>8. DOMAIN u = 1..3 /\ u[1] = l[1] /\ u[2] = l[2] /\ u[3] = m[1]
  BY <1>6, <1>7
<1> QED
  BY <1>1, <1>3, <1>8 DEF u

\* The labels of a quota, by position.
LEMMA QuotaLabelsAt ==
    \A cl, q : /\ DOMAIN quotaLabels(cl, q) = 1..5
               /\ quotaLabels(cl, q)[1] = <<"cluster", cl.name>>
               /\ quotaLabels(cl, q)[2] = <<"cluster_id", cl.id>>
               /\ quotaLabels(cl, q)[3] = <<"quota_id", q.id>>
               /\ quotaLabels(cl, q)[4] = <<"quota_path", q.path>>
               /\ quotaLabels(cl, q)[5] = <<"quota_type", q.type>>
<1> TAKE cl, q
<1> DEFINE l == baseLabels(cl)
           m == << <<"quota_id", q.id>>, <<"quota_path", q.path>>, <<"quota_type", q.type>> >>
<1>1. /\ DOMAIN l = 1..2 /\ DOMAIN m = 1..3 /\ l[1] = <<"cluster", cl.name>>
      /\ l[2] = <<"cluster_id", cl.id>> /\ m[1] = <<"quota_id", q.id>>
      /\ m[2] = <<"quota_path", q.path>> /\ m[3] = <<"quota_type", q.type>>
  BY DEF baseLabels
<1>2. IsList(l) /\ IsList(m)
  BY Tuples DEF baseLabels, IsList
<1>3. quotaLabels(cl, q) = l \o m
  BY DEF quotaLabels
<1> HIDE DEF l, m
<1> DEFINE T == Range(l) \cup Range(m)
<1>4. l \in Seq(T) /\ m \in Seq(T)
  BY <1>2 DEF IsList
<1>5. Len(l) = 2 /\ Len(m) = 3
  BY <1>1, <1>4
<1> HIDE DEF T
<1> DEFINE u == l \o m
           j == Len(l)
           k == Len(m)
<1>6. /\ j \in Nat /\ k \in Nat /\ DOMAIN u = 1..(j + k)
      /\ \A i \in 1..j : u[i] = l[i]
      /\ \A i \in (j + 1)..(j + k) : u[i] = m[i - j]
  BY <1>4
<1>7. j = 2 /\ k = 3
  BY <1>5
<1> HIDE DEF u, j, k
<1>8. DOMAIN u = 1..5 /\ u[1] = l[1] /\ u[2] = l[2] /\ u[3] = m[1] /\ u[4] = m[2] /\ u[5] = m[3]
  BY <1>6, <1>7
<1> QED
  BY <1>1, <1>3, <1>8 DEF u

\* The node label and the quota_id label are where the label sets have them.
LEMMA HasLabel ==
    /\ \A s, cl, x, v : s.Labels = nodeLabels(cl, x) => (Has(s, "node", v) <=> v = x)
    /\ \A s, cl, q, v : s.Labels = quotaLabels(cl, q) /\ Has(s, "quota_id", v) => v = q.id
<1>1. ASSUME NEW s, NEW cl, NEW x, NEW v, s.Labels = nodeLabels(cl, x)
      PROVE  Has(s, "node", v) <=> v = x
  <2> DEFINE l == nodeLabels(cl, x)
  <2>1. /\ DOMAIN l = 1..3 /\ l[1] = <<"cluster", cl.name>> /\ l[2] = <<"cluster_id", cl.id>>
        /\ l[3] = <<"node", x>>
    BY NodeLabelsAt
  <2> HIDE DEF l
  <2>2. Has(s, "node", v) <=> \E i \in 1..3 : l[i] = <<"node", v>>
    BY <1>1, <2>1 DEF Has, l
  <2>3. l[1] # <<"node", v>> /\ l[2] # <<"node", v>> /\ (l[3] = <<"node", v>> <=> v = x)
    BY <2>1
  <2> QED
    BY <2>2, <2>3
<1>2. ASSUME NEW s, NEW cl, NEW q, NEW v, s.Labels = quotaLabels(cl, q), Has(s, "quota_id", v)
      PROVE  v = q.id
  <2> DEFINE l == quotaLabels(cl, q)
  <2>1. /\ DOMAIN l = 1..5 /\ l[1] = <<"cluster", cl.name>> /\ l[2] = <<"cluster_id", cl.id>>
        /\ l[3] = <<"quota_id", q.id>> /\ l[4] = <<"quota_path", q.path>>
        /\ l[5] = <<"quota_type", q.type>>
    BY QuotaLabelsAt
  <2> HIDE DEF l
  <2>2. \E i \in 1..5 : l[i] = <<"quota_id", v>>
    BY <1>2, <2>1 DEF Has, l
  <2>3. /\ l[1] # <<"quota_id", v>> /\ l[2] # <<"quota_id", v>> /\ l[4] # <<"quota_id", v>>
        /\ l[5] # <<"quota_id", v>> /\ (l[3] = <<"quota_id", v>> => v = q.id)
    BY <2>1
  <2> QED
    BY <2>2, <2>3
<1> QED
  BY <1>1, <1>2

-----------------------------------------------------------------------------
(* Which request a metric is from.                                          *)

\* A metric is of one of the required requests.
LEMMA RequiredDisjoint ==
    /\ StatMetrics \cap (QuotaMetrics \cup NodeMetrics) = {}
    /\ QuotaMetrics \cap NodeMetrics = {}
<1>1. StatMetrics \cap (QuotaMetrics \cup NodeMetrics) = {}
  BY StatMetricAssumption DEF StatMetrics
<1>2. QuotaMetrics \cap NodeMetrics = {}
  BY QuotaMetricsListed DEF NodeMetrics
<1> QED
  BY <1>1, <1>2

\* The parts of the reply to the required requests.
Nodes(r) == ParseNodes(r["cluster/nodes"])
Stats(r) == ParseStatCurrent(r["statistics/current"])
Quotas(r) == ParseQuotas(r["quota/quotas"])

\* Samples of statistics, quotas and nodes are made by their own families only.
LEMMA Origin ==
  ASSUME ResultsFollow, NEW c \in Collected, result[c].Up, NEW s
  PROVE  LET r == reply[c]
             cl == ClusterOf(c, r)
         IN  /\ s.Name \in StatMetrics =>
                   (s \in Range(Samples(c)) <=> s \in Range(statSamples(cl, Stats(r), Nodes(r))))
             /\ s \in Range(Samples(c)) /\ s.Name \in QuotaMetrics =>
                   s \in Range(quotaSamples(cl, Quotas(r)))
             /\ s \in Range(Samples(c)) /\ s.Name \in NodeMetrics =>
                   \/ s \in Range(nodeHealthSamples(cl, Nodes(r)))
                   \/ s \in Range(hardwareSamples(cl, Nodes(r)))
<1> DEFINE r == reply[c]
           cl == ClusterOf(c, r)
           s1 == statSamples(cl, Stats(r), Nodes(r))
           s2 == quotaSamples(cl, Quotas(r))
           s3 == nodeHealthSamples(cl, Nodes(r))
           s4 == hardwareSamples(cl, Nodes(r))
           own == StatMetrics \cup QuotaMetrics \cup NodeMetrics
<1>1. /\ r \in Reply /\ \A ep \in RequiredListed : r[ep] # Failed
      /\ Range(Samples(c)) = RequiredSamples(cl, r) \cup UNION {Part(cl, r, ep) : ep \in BestEffortListed}
  BY DownOrUp
<1> HIDE DEF r, cl
<1>2. RequiredSamples(cl, r) = Range(s1) \cup Range(s2) \cup Range(s3) \cup Range(s4)
  BY DEF RequiredSamples, Nodes, Stats, Quotas
<1>3. Fits(s1, StatMetrics) /\ Fits(s2, QuotaMetrics) /\ Fits(s3, NodeMetrics) /\ Fits(s4, NodeMetrics)
  BY <1>1, RequiredFits DEF Nodes, Stats, Quotas
<1> HIDE DEF s1, s2, s3, s4
<1>4. /\ s \in Range(s1) => s.Name \in StatMetrics
      /\ s \in Range(s2) => s.Name \in QuotaMetrics
      /\ s \in Range(s3) \cup Range(s4) => s.Name \in NodeMetrics
  BY <1>3 DEF Fits, SampleFits
<1>5. \A ep \in BestEffortListed : s \in Part(cl, r, ep) => s.Name \notin own
  <2>1. \A ep \in BestEffortListed : s \in Part(cl, r, ep) => s.Name \in FamilyOf[ep]
    BY <1>1, PartFits DEF SampleFits
  <2> QED
    BY <2>1, FamiliesDisjoint
<1>6. s \in Range(Samples(c)) /\ s.Name \in own => s \in RequiredSamples(cl, r)
  BY <1>1, <1>5
<1>7. /\ s.Name \in StatMetrics => (s \in Range(Samples(c)) <=> s \in Range(s1))
      /\ s \in Range(Samples(c)) /\ s.Name \in QuotaMetrics => s \in Range(s2)
      /\ s \in Range(Samples(c)) /\ s.Name \in NodeMetrics => s \in Range(s3) \/ s \in Range(s4)
  BY <1>1, <1>2, <1>4, <1>6, RequiredDisjoint
<1> QED
  BY <1>7 DEF s1, s2, s3, s4, r, cl


-----------------------------------------------------------------------------
(* Which node a statistic is of.                                            *)

\* The node number of a device, when no two nodes have one device id.
LEMMA NodeNumbers ==
  ASSUME NEW rows, IsList(rows), \A i, j \in DOMAIN rows : rows[i].id = rows[j].id => i = j
  PROVE  /\ DOMAIN lnnByDevID(ParseNodes(rows)) = {n.id : n \in Range(rows)}
         /\ \A n \in Range(rows) : lnnByDevID(ParseNodes(rows))[n.id] = n.lnn
<1> DEFINE nodes == ParseNodes(rows)
           lnn == lnnByDevID(nodes)
           last(d) == SelectLastInSeq(nodes, LAMBDA n : n.ID = d)
<1>1. /\ DOMAIN nodes = DOMAIN rows
      /\ \A i \in DOMAIN rows : nodes[i].ID = rows[i].id /\ nodes[i].LNN = rows[i].lnn
  <2>1. nodes = [i \in DOMAIN rows |-> ParseNode(rows[i])]
    BY DEF ParseNodes
  <2>2. \A n : ParseNode(n).ID = n.id /\ ParseNode(n).LNN = n.lnn
    <3> TAKE n
    <3> DEFINE drives == CountBy(DriveState, Only(Installed, n.drives))
               temps == Readings(n.sensors, TempGroup)
               fans == Readings(n.sensors, FanGroup \ TempGroup)
    <3>1. ParseNode(n) =
            [ID |-> n.id, LNN |-> n.lnn, Readonly |-> n.readonly, Smartfail |-> n.smartfailed,
             DrivesByState |-> drives, PowerSupplies |-> n.supplies,
             PowerSupplyFailures |-> n.failures, Temperatures |-> temps, Fans |-> fans,
             Hardware |-> n.hardware]
      BY DEF ParseNode
    <3> HIDE DEF drives, temps, fans
    <3> QED
      BY <3>1
  <2> HIDE DEF nodes
  <2> QED
    BY <2>1, <2>2
<1>2. lnn = [d \in {nodes[i].ID : i \in DOMAIN nodes} |->
               nodes[last(d)].LNN]
  BY DEF lnnByDevID
<1>3. IsList(nodes)
  <2>1. nodes = [i \in DOMAIN rows |-> nodes[i]]
    BY DEF ParseNodes
  <2> HIDE DEF nodes
  <2> QED
    BY <2>1, MappedIsList
<1> HIDE DEF nodes, lnn
<1>4. {nodes[i].ID : i \in DOMAIN nodes} = {n.id : n \in Range(rows)}
  BY <1>1 DEF Range
<1>5. 1..Len(nodes) = DOMAIN nodes /\ DOMAIN nodes \subseteq Int
  BY <1>3 DEF IsList
<1>6. ASSUME NEW i \in DOMAIN rows
      PROVE  last(rows[i].id) = i
  <2> DEFINE I == {k \in 1..Len(nodes) : nodes[k].ID = rows[i].id}
  <2>1. I = {i}
    BY <1>1, <1>5
  <2>2. last(rows[i].id) = IF I # {} THEN Max(I) ELSE 0
    BY DEF SelectLastInSeq
  <2> HIDE DEF I, last
  <2>3. i \in Int
    BY <1>1, <1>5
  <2>4. Max({i}) = i
    <3>1. i \in {i} /\ \A y \in {i} : i >= y
      BY <2>3
    <3> QED
      BY <3>1 DEF Max
  <2> QED
    BY <2>1, <2>2, <2>4
<1> HIDE DEF last
<1>7. ASSUME NEW n \in Range(rows) PROVE lnn[n.id] = n.lnn
  <2>1. PICK i \in DOMAIN rows : n = rows[i]
    BY DEF Range
  <2>2. n.id \in {nodes[k].ID : k \in DOMAIN nodes}
    BY <1>4
  <2>3. lnn[n.id] = nodes[last(n.id)].LNN
    BY <1>2, <2>2
  <2>4. lnn[n.id] = nodes[i].LNN
    BY <1>6, <2>1, <2>3
  <2> QED
    BY <1>1, <2>1, <2>4
<1> QED
  BY <1>2, <1>4, <1>7 DEF nodes, lnn

\* A sample of a node statistic and the row and the node it is of.
LEMMA NodeStatistic ==
  ASSUME ResultsFollow, NEW c \in Collected, result[c].Up,
         LET nodes == reply[c]["cluster/nodes"]
         IN  \A i, j \in DOMAIN nodes : nodes[i].id = nodes[j].id => i = j,
         NEW spec \in Range(StatKeySpecs), spec.scope = "node", NEW s
  PROVE  s \in Range(Samples(c)) /\ s.Name = spec.metric <=>
            \E p \in Range(reply[c]["statistics/current"]), n \in Range(reply[c]["cluster/nodes"]) :
               /\ p.key = spec.key /\ Usable(p) /\ p.devid = n.id
               /\ s = Scaled(spec, nodeLabels(ClusterOf(c, reply[c]), n.lnn), Deref(p.value))
<1> DEFINE r == reply[c]
           cl == ClusterOf(c, r)
           rows == r["statistics/current"]
           nodes == r["cluster/nodes"]
           current == Stats(r)
           lnn == lnnByDevID(Nodes(r))
<1>1. r \in Reply /\ \A ep \in RequiredListed : r[ep] # Failed
  BY DownOrUp
<1>2. IsList(rows) /\ IsList(nodes)
  BY <1>1, ReplyLists DEF RequiredListed, ListEndpoints
<1>3. \A i, j \in DOMAIN nodes : nodes[i].id = nodes[j].id => i = j
  OBVIOUS
<1>4. s.Name \in StatMetrics =>
         (s \in Range(Samples(c)) <=> s \in Range(statSamples(cl, current, Nodes(r))))
  BY Origin
<1>5. DOMAIN lnn = {n.id : n \in Range(nodes)} /\ \A n \in Range(nodes) : lnn[n.id] = n.lnn
  <2> HIDE DEF rows, nodes, r
  <2>1. Nodes(r) = ParseNodes(nodes)
    BY DEF Nodes, nodes
  <2>2. /\ DOMAIN lnnByDevID(ParseNodes(nodes)) = {n.id : n \in Range(nodes)}
        /\ \A n \in Range(nodes) : lnnByDevID(ParseNodes(nodes))[n.id] = n.lnn
    <3>1. IsList(nodes) /\ \A i, j \in DOMAIN nodes : nodes[i].id = nodes[j].id => i = j
      BY <1>2, <1>3
    <3> QED
      BY <3>1, NodeNumbers
  <2> QED
    BY <2>1, <2>2
<1>6. /\ IsList(current)
      /\ Range(current) = {[Key |-> x.key, DevID |-> x.devid, Value |-> Deref(x.value)] :
                              x \in {y \in Range(rows) : Usable(y)}}
  <2> HIDE DEF rows, r
  <2>1. current = ParseStatCurrent(rows)
    BY DEF Stats, rows
  <2> QED
    BY <1>2, <2>1, ParsedStatistics
<1>7. Range(statSamples(cl, current, Nodes(r))) =
         UNION {Range(StatSample(cl, p, lnn)) : p \in {x \in Range(current) : HasSpec(x)}}
  <2> HIDE DEF current, cl, r
  <2> QED
    BY <1>6, StatSamples
<1>8. spec.metric \in StatMetrics
  BY DEF StatMetrics, Range
<1> DEFINE made == statSamples(cl, current, Nodes(r))
<1> HIDE DEF r, cl, rows, nodes, current, lnn
\* The row of the table for a statistic that is read.
<1>9. ASSUME NEW p, p.Key = spec.key PROVE HasSpec(p) /\ SpecOf(p) = spec
  <2>1. HasSpec(p)
    BY <1>9 DEF HasSpec, Range
  <2> QED
    BY <1>9, <2>1, SpecFound
<1>10. ASSUME NEW p, HasSpec(p), s \in Range(StatSample(cl, p, lnn)), s.Name = spec.metric
       PROVE  /\ p.Key = spec.key /\ p.DevID \in DOMAIN lnn
              /\ s = Scaled(spec, nodeLabels(cl, lnn[p.DevID]), p.Value)
  <2> DEFINE found == SpecOf(p)
  <2>1. found \in Range(StatKeySpecs) /\ found.key = p.Key
    BY <1>10, SpecFound
  <2>2. \A l, v : Scaled(found, l, v).Name = found.metric
    BY DEF Scaled, Sample
  <2>3. CASE found.scope # "node"
    <3>1. s = Scaled(found, baseLabels(cl), p.Value)
      <4>1. StatSample(cl, p, lnn) = <<Scaled(found, baseLabels(cl), p.Value)>>
        BY <2>3 DEF StatSample
      <4> HIDE DEF found
      <4> QED
        BY <1>10, <4>1, Tuples
    <3>2. found = spec
      <4> HIDE DEF found
      <4> QED
        BY <1>10, <2>1, <2>2, <3>1, SpecFound
    <3> QED
      BY <2>3, <3>2
  <2>4. CASE found.scope = "node"
    <3> DEFINE t == Scaled(found, nodeLabels(cl, lnn[p.DevID]), p.Value)
    <3>1. StatSample(cl, p, lnn) = When(p.DevID \in DOMAIN lnn, t)
      BY <2>4 DEF StatSample
    <3>2. t.Name = found.metric
      BY <2>2
    <3> HIDE DEF found, t
    <3>3. p.DevID \in DOMAIN lnn /\ s = t
      BY <1>10, <3>1, Tuples DEF When
    <3>4. found = spec
      BY <1>10, <2>1, <3>2, <3>3, SpecFound
    <3> QED
      BY <2>1, <3>3, <3>4 DEF t
  <2> QED
    BY <2>3, <2>4
<1>11. ASSUME s \in Range(made), s.Name = spec.metric
       PROVE  \E p \in Range(rows), n \in Range(nodes) :
                 /\ p.key = spec.key /\ Usable(p) /\ p.devid = n.id
                 /\ s = Scaled(spec, nodeLabels(cl, n.lnn), Deref(p.value))
  <2>1. PICK x \in Range(current) : HasSpec(x) /\ s \in Range(StatSample(cl, x, lnn))
    BY <1>7, <1>11
  <2>2. PICK p \in Range(rows) : /\ Usable(p) /\ x.Key = p.key /\ x.DevID = p.devid
                                 /\ x.Value = Deref(p.value)
    BY <1>6
  <2>3. /\ x.Key = spec.key /\ x.DevID \in DOMAIN lnn
        /\ s = Scaled(spec, nodeLabels(cl, lnn[x.DevID]), x.Value)
    BY <1>10, <1>11, <2>1
  <2>4. PICK n \in Range(nodes) : x.DevID = n.id
    BY <1>5, <2>3
  <2> QED
    BY <1>5, <2>2, <2>3, <2>4
<1>12. ASSUME NEW p \in Range(rows), NEW n \in Range(nodes),
              p.key = spec.key, Usable(p), p.devid = n.id,
              s = Scaled(spec, nodeLabels(cl, n.lnn), Deref(p.value))
       PROVE  s \in Range(made) /\ s.Name = spec.metric
  <2>1. s.Name = spec.metric
    BY <1>12 DEF Scaled, Sample
  <2> DEFINE x == [Key |-> p.key, DevID |-> p.devid, Value |-> Deref(p.value)]
  <2>2. x \in Range(current) /\ x.Key = spec.key /\ x.DevID = n.id /\ x.Value = Deref(p.value)
    BY <1>6, <1>12
  <2> HIDE DEF x
  <2>3. HasSpec(x) /\ SpecOf(x) = spec
    BY <1>9, <2>2
  <2>4. StatSample(cl, x, lnn) = <<s>>
    BY <1>5, <1>12, <2>2, <2>3 DEF StatSample, When
  <2>5. s \in Range(StatSample(cl, x, lnn))
    BY <2>4, Tuples
  <2> QED
    BY <1>7, <2>1, <2>2, <2>3, <2>5
<1> QED
  BY <1>4, <1>8, <1>11, <1>12 DEF r, cl, rows, nodes, current

\* For one statistic of the nodes: the rows that can be read and the samples are the same pairs of node and value.
LEMMA AttributionOfOne ==
  ASSUME ResultsFollow, NEW c \in Collected, result[c].Up, DistinctRows(reply[c]),
         NEW spec \in Range(StatKeySpecs), spec.scope = "node"
  PROVE  LET rows == Range(reply[c]["statistics/current"])
             nodes == Range(reply[c]["cluster/nodes"])
             read == {p \in rows \X nodes : /\ p[1].key = spec.key /\ Usable(p[1])
                                            /\ p[1].devid = p[2].id}
             made == {s \in Range(Samples(c)) : s.Name = spec.metric}
         IN  {<<p[2].lnn, Deref(p[1].value)>> : p \in read}
               = {<<s.Labels[3][2], s.Value[1]>> : s \in made}
<1> DEFINE rows == Range(reply[c]["statistics/current"])
           nodes == Range(reply[c]["cluster/nodes"])
           cl == ClusterOf(c, reply[c])
           read == {p \in rows \X nodes : /\ p[1].key = spec.key /\ Usable(p[1])
                                          /\ p[1].devid = p[2].id}
           made == {s \in Range(Samples(c)) : s.Name = spec.metric}
           of(p, n) == Scaled(spec, nodeLabels(cl, n.lnn), Deref(p.value))
<1>1. LET ns == reply[c]["cluster/nodes"]
      IN  \A i, j \in DOMAIN ns : ns[i].id = ns[j].id => i = j
  <2>1. reply[c]["cluster/nodes"] # Failed
    BY DownOrUp DEF RequiredListed
  <2> QED
    BY <2>1 DEF DistinctRows, Distinct
<1>2. \A s : s \in made <=> \E p \in rows, n \in nodes :
                 p.key = spec.key /\ Usable(p) /\ p.devid = n.id /\ s = of(p, n)
  BY <1>1, NodeStatistic
<1>3. \A p, n : of(p, n).Labels[3][2] = n.lnn /\ of(p, n).Value[1] = Deref(p.value)
  <2> TAKE p, n
  <2>1. of(p, n).Labels = nodeLabels(cl, n.lnn) /\ of(p, n).Value[1] = Deref(p.value)
    BY DEF Scaled, Sample
  <2>2. nodeLabels(cl, n.lnn)[3] = <<"node", n.lnn>>
    BY NodeLabelsAt
  <2> HIDE DEF of, cl
  <2> QED
    BY <2>1, <2>2
<1>4. \A p, n : <<p, n>> \in read <=> /\ p \in rows /\ n \in nodes
                                      /\ p.key = spec.key /\ Usable(p) /\ p.devid = n.id
  OBVIOUS
<1>5. \A x \in read : x = <<x[1], x[2]>>
  OBVIOUS
<1> HIDE DEF rows, nodes, cl, read, made, of
<1>6. {<<x[2].lnn, Deref(x[1].value)>> : x \in read} \subseteq {<<s.Labels[3][2], s.Value[1]>> : s \in made}
  <2> SUFFICES ASSUME NEW x \in read
               PROVE  \E s \in made : <<x[2].lnn, Deref(x[1].value)>> = <<s.Labels[3][2], s.Value[1]>>
    OBVIOUS
  <2>1. PICK p, n : x = <<p, n>>
    BY <1>5
  <2>2. of(p, n) \in made
    BY <1>2, <1>4, <2>1
  <2> QED
    BY <1>3, <2>1, <2>2
<1>7. {<<s.Labels[3][2], s.Value[1]>> : s \in made} \subseteq {<<x[2].lnn, Deref(x[1].value)>> : x \in read}
  <2> SUFFICES ASSUME NEW s \in made
               PROVE  \E x \in read : <<x[2].lnn, Deref(x[1].value)>> = <<s.Labels[3][2], s.Value[1]>>
    OBVIOUS
  <2>1. PICK p \in rows, n \in nodes :
           p.key = spec.key /\ Usable(p) /\ p.devid = n.id /\ s = of(p, n)
    BY <1>2
  <2>2. <<p, n>> \in read
    BY <1>4, <2>1
  <2> QED
    BY <1>3, <2>1, <2>2
<1> QED
  BY <1>6, <1>7 DEF rows, nodes, read, made

\* The statistics of a node carry its number, for any assignment of device ids to
\* nodes; the samples of a node metric are those rows and no others.
THEOREM StatisticsAttributed == Spec => []NodeAttribution
<1>1. ResultsFollow => NodeAttribution
  <2>1. \A i \in DOMAIN StatKeySpecs : StatKeySpecs[i] \in Range(StatKeySpecs)
    BY DEF Range
  <2> QED
    BY <2>1, AttributionOfOne DEF NodeAttribution
<1> QED
  BY <1>1, ResultsFollowAlways, PTL


-----------------------------------------------------------------------------
(* What is absent.                                                          *)

\* A sample of a quota has its labels, and its values are those it has.
LEMMA QuotaRow ==
  ASSUME NEW cl, NEW q, NEW s \in Range(OfQuota(cl, q))
  PROVE  /\ s.Labels = quotaLabels(cl, q)
         /\ s.Name = "powerscale_quota_reduction_ratio" => q.ratio > 0
         /\ s.Name = "powerscale_quota_hard_threshold_bytes" => q.hard > 0
         /\ s.Name = "powerscale_quota_soft_threshold_bytes" => q.soft > 0
         /\ s.Name = "powerscale_quota_advisory_threshold_bytes" => q.advisory > 0
<1> DEFINE labels == quotaLabels(cl, q)
           g(name, v) == Gauge(name, labels, v)
           a == g("powerscale_quota_usage_bytes", q.usage)
           b == g("powerscale_quota_application_usage_bytes", q.app)
           g2 == g("powerscale_quota_physical_usage_bytes", q.physical)
           g3 == g("powerscale_quota_reduction_ratio", q.ratio)
           g4 == g("powerscale_quota_hard_threshold_bytes", q.hard)
           g5 == g("powerscale_quota_soft_threshold_bytes", q.soft)
           g6 == g("powerscale_quota_advisory_threshold_bytes", q.advisory)
           p2 == q.physical > 0
           p3 == q.ratio > 0
           p4 == q.hard > 0
           p5 == q.soft > 0
           p6 == q.advisory > 0
           s1 == <<a, b>>
           s2 == When(p2, g2)
           s3 == When(p3, g3)
           s4 == When(p4, g4)
           s5 == When(p5, g5)
           s6 == When(p6, g6)
           R2 == IF p2 THEN {g2} ELSE {}
           R3 == IF p3 THEN {g3} ELSE {}
           R4 == IF p4 THEN {g4} ELSE {}
           R5 == IF p5 THEN {g5} ELSE {}
           R6 == IF p6 THEN {g6} ELSE {}
<1>1. /\ QuotaThreshold.hard = "powerscale_quota_hard_threshold_bytes"
      /\ QuotaThreshold.soft = "powerscale_quota_soft_threshold_bytes"
      /\ QuotaThreshold.advisory = "powerscale_quota_advisory_threshold_bytes"
  BY DEF QuotaThreshold
<1>2. OfQuota(cl, q) = s1 \o s2 \o s3 \o s4 \o s5 \o s6
  BY <1>1 DEF OfQuota
<1>3. \A name, v : g(name, v).Name = name /\ g(name, v).Labels = labels
  BY DEF Gauge, Sample
<1> HIDE DEF g
<1>4. /\ a.Name = "powerscale_quota_usage_bytes" /\ b.Name = "powerscale_quota_application_usage_bytes"
      /\ g2.Name = "powerscale_quota_physical_usage_bytes"
      /\ g3.Name = "powerscale_quota_reduction_ratio"
      /\ g4.Name = "powerscale_quota_hard_threshold_bytes"
      /\ g5.Name = "powerscale_quota_soft_threshold_bytes"
      /\ g6.Name = "powerscale_quota_advisory_threshold_bytes"
      /\ \A x \in {a, b, g2, g3, g4, g5, g6} : x.Labels = labels
  BY <1>3
<1> HIDE DEF a, b, g2, g3, g4, g5, g6, p2, p3, p4, p5, p6
<1>5. Holds(s1, {a, b})
  BY Holding
<1>6. /\ Holds(s2, R2) /\ Holds(s3, R3) /\ Holds(s4, R4) /\ Holds(s5, R5)
      /\ Holds(s6, R6)
  BY Holding DEF When
<1> DEFINE Q == {a, b} \cup R2 \cup R3 \cup R4 \cup R5 \cup R6
<1>7. s \in Q => s \in {a, b} \/ s \in R2 \/ s \in R3 \/ s \in R4 \/ s \in R5 \/ s \in R6
  <2> HIDE DEF R2, R3, R4, R5, R6
  <2> QED
    OBVIOUS
<1>8. /\ s \in R2 => s = g2
      /\ s \in R3 => s = g3 /\ q.ratio > 0
      /\ s \in R4 => s = g4 /\ q.hard > 0
      /\ s \in R5 => s = g5 /\ q.soft > 0
      /\ s \in R6 => s = g6 /\ q.advisory > 0
  BY DEF p3, p4, p5, p6
<1> HIDE DEF s1, s2, s3, s4, s5, s6, R2, R3, R4, R5, R6
<1>9. Holds(OfQuota(cl, q), Q)
  BY <1>2, <1>5, <1>6, ConcatHolds6
<1>10. s \in Q
  <2> HIDE DEF Q
  <2> QED
    BY <1>9, HoldsList
<1> QED
  BY <1>4, <1>7, <1>8, <1>10

\* Failures of power supplies are exported for a node that has supplies,
LEMMA HardwareRow ==
  ASSUME NEW cl, NEW n, IsList(n.Temperatures), IsList(n.Fans), NEW s \in Range(OfHardware(cl, n)),
         s.Name = "powerscale_node_power_supply_failures"
  PROVE  s.Labels = nodeLabels(cl, n.LNN) /\ n.PowerSupplies > 0
<1> DEFINE base == nodeLabels(cl, n.LNN)
           reading(name, x) == <<Gauge(name, sensorLabels(cl, n.LNN, x.Name), x.Value)>>
           temps == n.Temperatures
           fans == n.Fans
           t == [i \in DOMAIN temps |-> reading("powerscale_node_temperature_celsius", temps[i])]
           f == [i \in DOMAIN fans |-> reading("powerscale_node_fan_speed_rpm", fans[i])]
           info == Gauge("powerscale_node_hardware_info", hardwareInfoLabels(cl, n.LNN, n.Hardware), 1)
           supplies == Gauge("powerscale_node_power_supplies", base, n.PowerSupplies)
           failures == Gauge("powerscale_node_power_supply_failures", base, n.PowerSupplyFailures)
           described == \E x \in DOMAIN n.Hardware : n.Hardware[x] # ""
           s1 == When(described, info)
           s2 == When(n.PowerSupplies > 0, supplies)
           s3 == When(n.PowerSupplies > 0, failures)
           T == UNION {Range(t[i]) : i \in DOMAIN temps}
           F == UNION {Range(f[i]) : i \in DOMAIN fans}
<1>1. OfHardware(cl, n) = s1 \o s2 \o s3 \o FlattenSeq(t) \o FlattenSeq(f)
  BY DEF OfHardware, Each
<1>2. \A name, labels, v : Gauge(name, labels, v).Name = name /\ Gauge(name, labels, v).Labels = labels
  BY DEF Gauge, Sample
<1>3. /\ info.Name # "powerscale_node_power_supply_failures"
      /\ supplies.Name # "powerscale_node_power_supply_failures"
      /\ failures.Labels = base
  BY <1>2
<1>4. \A x \in T \cup F : x.Name # "powerscale_node_power_supply_failures"
  <2>1. ASSUME NEW name, name # "powerscale_node_power_supply_failures", NEW y, NEW x \in Range(reading(name, y))
        PROVE  x.Name # "powerscale_node_power_supply_failures"
    <3>1. x = Gauge(name, sensorLabels(cl, n.LNN, y.Name), y.Value)
      <4> DEFINE g == Gauge(name, sensorLabels(cl, n.LNN, y.Name), y.Value)
      <4>1. reading(name, y) = <<g>>
        OBVIOUS
      <4> HIDE DEF g
      <4> QED
        BY <2>1, <4>1, Tuples DEF g
    <3> QED
      BY <1>2, <2>1, <3>1
  <2> QED
    BY <2>1
<1>5. t = [i \in DOMAIN temps |-> t[i]] /\ f = [i \in DOMAIN fans |-> f[i]]
  OBVIOUS
<1>6. (\A i \in DOMAIN temps : IsList(t[i])) /\ (\A i \in DOMAIN fans : IsList(f[i]))
  BY Tuples DEF IsList
<1> HIDE DEF info, supplies, failures, described, t, f
<1>7. Holds(s1, Range(s1)) /\ Holds(s2, Range(s2)) /\ Holds(s3, Range(s3))
  BY Tuples DEF When, Holds
<1>8. s \in Range(s1) \cup Range(s2) \cup Range(s3) => s \in {info, supplies} \/ (s = failures /\ n.PowerSupplies > 0)
  BY Tuples DEF When
<1>9. Holds(FlattenSeq(t), T) /\ Holds(FlattenSeq(f), F)
  <2>1. IsList(temps) /\ IsList(fans)
    OBVIOUS
  <2> HIDE DEF temps, fans
  <2>2. Holds(FlattenSeq(t), UNION {Range(t[i]) : i \in DOMAIN temps})
    BY <1>5, <1>6, <2>1, EachLists
  <2>3. Holds(FlattenSeq(f), UNION {Range(f[i]) : i \in DOMAIN fans})
    BY <1>5, <1>6, <2>1, EachLists
  <2> QED
    BY <2>2, <2>3
<1> DEFINE R1 == Range(s1)
           R2 == Range(s2)
           R3 == Range(s3)
           Q == R1 \cup R2 \cup R3 \cup T \cup F
<1>10. s \in Q => s \in R1 \cup R2 \cup R3 \/ s \in T \cup F
  OBVIOUS
<1> HIDE DEF s1, s2, s3, T, F
<1>11. Holds(OfHardware(cl, n), Q)
  BY <1>1, <1>7, <1>9, ConcatHolds5
<1>12. s \in Q
  <2> HIDE DEF Q
  <2> QED
    BY <1>11, HoldsList
<1> QED
  BY <1>3, <1>4, <1>8, <1>10, <1>12

\* and not as part of its health.
LEMMA HealthRow ==
  ASSUME NEW cl, NEW n, IsFiniteSet(DOMAIN n.DrivesByState), NEW s \in Range(OfNodeHealth(cl, n))
  PROVE  s.Name # "powerscale_node_power_supply_failures"
<1> DEFINE states == SetToSeq(DOMAIN n.DrivesByState)
           base == nodeLabels(cl, n.LNN)
           gauge(state) == Gauge("powerscale_node_drives", driveLabels(cl, n.LNN, state),
                                 n.DrivesByState[state])
           drives == [i \in DOMAIN states |-> <<gauge(states[i])>>]
           a == Gauge("powerscale_node_readonly", base, b2f(n.Readonly))
           b == Gauge("powerscale_node_smartfail", base, b2f(n.Smartfail))
           R == UNION {Range(drives[i]) : i \in DOMAIN states}
<1>1. OfNodeHealth(cl, n) = <<a, b>> \o FlattenSeq(drives)
  BY DEF OfNodeHealth, Each
<1>2. /\ a.Name # "powerscale_node_power_supply_failures"
      /\ b.Name # "powerscale_node_power_supply_failures"
      /\ \A state : gauge(state).Name # "powerscale_node_power_supply_failures"
  BY DEF Gauge, Sample
<1>3. IsList(states)
  BY SetToSeqLists DEF IsList
<1> HIDE DEF a, b, gauge, states
<1>4. \A x \in R : x.Name # "powerscale_node_power_supply_failures"
  <2> SUFFICES ASSUME NEW i \in DOMAIN states, NEW x \in Range(drives[i])
               PROVE  x.Name # "powerscale_node_power_supply_failures"
    OBVIOUS
  <2>1. drives[i] = <<gauge(states[i])>>
    OBVIOUS
  <2>2. x \in Range(<<gauge(states[i])>>)
    BY <2>1
  <2>3. x = gauge(states[i])
    BY <2>2, Tuples
  <2> QED
    BY <1>2, <2>3
<1>5. drives = [i \in DOMAIN states |-> drives[i]] /\ \A i \in DOMAIN states : IsList(drives[i])
  BY Tuples DEF IsList
<1> HIDE DEF drives
<1>6. Holds(FlattenSeq(drives), R)
  BY <1>3, <1>5, EachLists
<1> HIDE DEF R
<1>7. Holds(OfNodeHealth(cl, n), {a, b} \cup R)
  <2>1. Holds(<<a, b>>, {a, b})
    BY Holding
  <2> QED
    BY <1>1, <1>6, <2>1, ConcatHolds
<1>8. s \in {a, b} \cup R
  BY <1>7, HoldsList
<1> QED
  BY <1>2, <1>4, <1>8

\* The row that a sample of a family is of.
LEMMA RowOfSample ==
  ASSUME NEW cl, NEW rows, IsList(rows)
  PROVE  /\ \A s \in Range(quotaSamples(cl, rows)) : \E i \in DOMAIN rows : s \in Range(OfQuota(cl, rows[i]))
         /\ (\A i \in DOMAIN rows : NodeOK(rows[i])) =>
               /\ \A s \in Range(nodeHealthSamples(cl, rows)) :
                     \E i \in DOMAIN rows : s \in Range(OfNodeHealth(cl, rows[i]))
               /\ \A s \in Range(hardwareSamples(cl, rows)) :
                     \E i \in DOMAIN rows : s \in Range(OfHardware(cl, rows[i]))
<1>0. ASSUME NEW ss, ss = [i \in DOMAIN rows |-> ss[i]], \A i \in DOMAIN rows : IsList(ss[i]),
             NEW s \in Range(FlattenSeq(ss))
      PROVE  \E i \in DOMAIN rows : s \in Range(ss[i])
  <2> DEFINE R == UNION {Range(ss[i]) : i \in DOMAIN rows}
  <2>1. Holds(FlattenSeq(ss), R)
    BY <1>0, EachLists
  <2>2. s \in R => \E i \in DOMAIN rows : s \in Range(ss[i])
    OBVIOUS
  <2> HIDE DEF R
  <2>3. s \in R
    BY <2>1, <1>0, HoldsList
  <2> QED
    BY <2>2, <2>3
<1>1. \A s \in Range(quotaSamples(cl, rows)) : \E i \in DOMAIN rows : s \in Range(OfQuota(cl, rows[i]))
  <2> DEFINE ss == [i \in DOMAIN rows |-> OfQuota(cl, rows[i])]
  <2>1. quotaSamples(cl, rows) = FlattenSeq(ss)
    BY DEF quotaSamples, Each
  <2>2. ss = [i \in DOMAIN rows |-> ss[i]] /\ \A i \in DOMAIN rows : IsList(ss[i]) /\ ss[i] = OfQuota(cl, rows[i])
    BY QuotaFits DEF Fits
  <2> HIDE DEF ss
  <2> QED
    BY <1>0, <2>1, <2>2
<1>2. ASSUME \A i \in DOMAIN rows : NodeOK(rows[i])
      PROVE  \A s \in Range(nodeHealthSamples(cl, rows)) :
                \E i \in DOMAIN rows : s \in Range(OfNodeHealth(cl, rows[i]))
  <2> DEFINE ss == [i \in DOMAIN rows |-> OfNodeHealth(cl, rows[i])]
  <2>1. nodeHealthSamples(cl, rows) = FlattenSeq(ss)
    BY DEF nodeHealthSamples, Each
  <2>2. /\ ss = [i \in DOMAIN rows |-> ss[i]]
        /\ \A i \in DOMAIN rows : IsList(ss[i]) /\ ss[i] = OfNodeHealth(cl, rows[i])
    BY <1>2, NodeHealthFits DEF Fits, NodeOK
  <2> HIDE DEF ss
  <2> QED
    BY <1>0, <2>1, <2>2
<1>3. ASSUME \A i \in DOMAIN rows : NodeOK(rows[i])
      PROVE  \A s \in Range(hardwareSamples(cl, rows)) :
                \E i \in DOMAIN rows : s \in Range(OfHardware(cl, rows[i]))
  <2> DEFINE ss == [i \in DOMAIN rows |-> OfHardware(cl, rows[i])]
  <2>1. hardwareSamples(cl, rows) = FlattenSeq(ss)
    BY DEF hardwareSamples, Each
  <2>2. /\ ss = [i \in DOMAIN rows |-> ss[i]]
        /\ \A i \in DOMAIN rows : IsList(ss[i]) /\ ss[i] = OfHardware(cl, rows[i])
    BY <1>3, HardwareFits DEF Fits, NodeOK
  <2> HIDE DEF ss
  <2> QED
    BY <1>0, <2>1, <2>2
<1> QED
  BY <1>1, <1>2, <1>3


\* What is not reported of one cluster is not exported.
LEMMA QuotaAbsent ==
  ASSUME ResultsFollow, NEW c \in Collected, result[c].Up, DistinctRows(reply[c]),
         NEW q \in Range(reply[c]["quota/quotas"]), NEW s \in Range(Samples(c)), Has(s, "quota_id", q.id)
  PROVE  /\ \A t \in DOMAIN QuotaThreshold : q[t] = Null => s.Name # QuotaThreshold[t]
         /\ q.ratio = Null => s.Name # "powerscale_quota_reduction_ratio"
<1> DEFINE r == reply[c]
           cl == ClusterOf(c, r)
           rows == r["quota/quotas"]
           quotas == Quotas(r)
<1>1. /\ DOMAIN QuotaThreshold = {"hard", "soft", "advisory"}
      /\ QuotaThreshold["hard"] = "powerscale_quota_hard_threshold_bytes"
      /\ QuotaThreshold["soft"] = "powerscale_quota_soft_threshold_bytes"
      /\ QuotaThreshold["advisory"] = "powerscale_quota_advisory_threshold_bytes"
  BY DEF QuotaThreshold
<1>2. r \in Reply /\ \A ep \in RequiredListed : r[ep] # Failed
  BY DownOrUp
<1>3. IsList(rows) /\ \A i, j \in DOMAIN rows : rows[i].id = rows[j].id => i = j
  <2>1. rows # Failed
    BY <1>2 DEF RequiredListed
  <2> QED
    BY <1>2, <2>1, ReplyLists DEF ListEndpoints, DistinctRows, Distinct
<1>4. /\ DOMAIN quotas = DOMAIN rows
      /\ \A i \in DOMAIN rows : /\ quotas[i].id = rows[i].id /\ quotas[i].ratio = Deref(rows[i].ratio)
                                /\ quotas[i].hard = Deref(rows[i].hard)
                                /\ quotas[i].soft = Deref(rows[i].soft)
                                /\ quotas[i].advisory = Deref(rows[i].advisory)
  <2>1. quotas = [i \in DOMAIN rows |-> ParseQuota(rows[i])]
    BY DEF Quotas, ParseQuotas
  <2>2. \A x : /\ ParseQuota(x).id = x.id /\ ParseQuota(x).ratio = Deref(x.ratio)
               /\ ParseQuota(x).hard = Deref(x.hard) /\ ParseQuota(x).soft = Deref(x.soft)
               /\ ParseQuota(x).advisory = Deref(x.advisory)
    BY DEF ParseQuota
  <2> HIDE DEF quotas, rows
  <2> QED
    BY <2>1, <2>2
<1>5. s.Name \in QuotaMetrics => s \in Range(quotaSamples(cl, quotas))
  BY Origin
<1>6. IsList(quotas)
  <2> HIDE DEF rows
  <2> QED
    BY <1>3, ParsedRows DEF Quotas, rows
<1>7. PICK k \in DOMAIN rows : q = rows[k]
  BY DEF Range
<1> HIDE DEF r, cl, rows, quotas
<1>8. ASSUME s.Name \in QuotaMetrics
      PROVE  /\ s.Name = "powerscale_quota_reduction_ratio" => Deref(q.ratio) > 0
             /\ s.Name = "powerscale_quota_hard_threshold_bytes" => Deref(q.hard) > 0
             /\ s.Name = "powerscale_quota_soft_threshold_bytes" => Deref(q.soft) > 0
             /\ s.Name = "powerscale_quota_advisory_threshold_bytes" => Deref(q.advisory) > 0
  <2>1. PICK i \in DOMAIN rows : s \in Range(OfQuota(cl, quotas[i]))
    BY <1>4, <1>5, <1>6, <1>8, RowOfSample
  <2>2. s.Labels = quotaLabels(cl, quotas[i])
    BY <2>1, QuotaRow
  <2>3. q.id = quotas[i].id
    BY <2>2, HasLabel
  <2>4. i = k
    BY <1>3, <1>4, <1>7, <2>3
  <2>5. /\ s.Name = "powerscale_quota_reduction_ratio" => quotas[i].ratio > 0
        /\ s.Name = "powerscale_quota_hard_threshold_bytes" => quotas[i].hard > 0
        /\ s.Name = "powerscale_quota_soft_threshold_bytes" => quotas[i].soft > 0
        /\ s.Name = "powerscale_quota_advisory_threshold_bytes" => quotas[i].advisory > 0
    BY <2>1, QuotaRow
  <2> QED
    BY <1>4, <1>7, <2>4, <2>5
<1>9. Deref(Null) = 0 /\ ~(0 > 0)
  BY DEF Deref
<1>10. {"powerscale_quota_reduction_ratio", "powerscale_quota_hard_threshold_bytes",
        "powerscale_quota_soft_threshold_bytes", "powerscale_quota_advisory_threshold_bytes"}
          \subseteq QuotaMetrics
  BY QuotaMetricsListed
<1>11. q.ratio = Null => s.Name # "powerscale_quota_reduction_ratio"
  BY <1>8, <1>9, <1>10
<1>12. /\ q["hard"] = Null => s.Name # "powerscale_quota_hard_threshold_bytes"
       /\ q["soft"] = Null => s.Name # "powerscale_quota_soft_threshold_bytes"
       /\ q["advisory"] = Null => s.Name # "powerscale_quota_advisory_threshold_bytes"
  BY <1>8, <1>9, <1>10
<1> QED
  BY <1>1, <1>11, <1>12

\* So a node without supplies has none.
LEMMA SuppliesAbsent ==
  ASSUME ResultsFollow, NEW c \in Collected, result[c].Up, DistinctRows(reply[c]),
         NEW n \in Range(reply[c]["cluster/nodes"]), n.supplies = 0,
         NEW s \in Range(Samples(c)), Has(s, "node", n.lnn)
  PROVE  s.Name # "powerscale_node_power_supply_failures"
<1> SUFFICES ASSUME s.Name = "powerscale_node_power_supply_failures" PROVE FALSE
  OBVIOUS
<1> DEFINE r == reply[c]
           cl == ClusterOf(c, r)
           rows == r["cluster/nodes"]
           nodes == Nodes(r)
<1>1. r \in Reply /\ \A ep \in RequiredListed : r[ep] # Failed
  BY DownOrUp
<1>2. IsList(nodes) /\ \A i \in DOMAIN nodes : NodeOK(nodes[i])
  BY <1>1, ReplyLists DEF RequiredListed, Nodes
<1>3. \A i, j \in DOMAIN rows : rows[i].lnn = rows[j].lnn => i = j
  <2>1. rows # Failed
    BY <1>1 DEF RequiredListed
  <2> QED
    BY <2>1 DEF DistinctRows, Distinct
<1>4. s \in Range(nodeHealthSamples(cl, nodes)) \/ s \in Range(hardwareSamples(cl, nodes))
  <2>1. s.Name \in NodeMetrics
    BY DEF NodeMetrics
  <2> QED
    BY <2>1, Origin
<1>5. /\ DOMAIN nodes = DOMAIN rows
      /\ \A i \in DOMAIN rows : nodes[i].LNN = rows[i].lnn /\ nodes[i].PowerSupplies = rows[i].supplies
  <2>1. nodes = [i \in DOMAIN rows |-> ParseNode(rows[i])]
    BY DEF Nodes, ParseNodes
  <2>2. \A x : ParseNode(x).LNN = x.lnn /\ ParseNode(x).PowerSupplies = x.supplies
    <3> TAKE x
    <3> DEFINE drives == CountBy(DriveState, Only(Installed, x.drives))
               temps == Readings(x.sensors, TempGroup)
               fans == Readings(x.sensors, FanGroup \ TempGroup)
    <3>1. ParseNode(x) =
            [ID |-> x.id, LNN |-> x.lnn, Readonly |-> x.readonly, Smartfail |-> x.smartfailed,
             DrivesByState |-> drives, PowerSupplies |-> x.supplies,
             PowerSupplyFailures |-> x.failures, Temperatures |-> temps, Fans |-> fans,
             Hardware |-> x.hardware]
      BY DEF ParseNode
    <3> HIDE DEF drives, temps, fans
    <3> QED
      BY <3>1
  <2> HIDE DEF nodes, rows
  <2> QED
    BY <2>1, <2>2
<1>6. PICK k \in DOMAIN rows : n = rows[k]
  BY DEF Range
<1> HIDE DEF r, cl, rows, nodes
<1>7. PICK i \in DOMAIN nodes : s \in Range(OfHardware(cl, nodes[i]))
  <2>1. CASE s \in Range(nodeHealthSamples(cl, nodes))
    <3>1. PICK i \in DOMAIN nodes : s \in Range(OfNodeHealth(cl, nodes[i]))
      BY <1>2, <2>1, RowOfSample
    <3>2. IsFiniteSet(DOMAIN nodes[i].DrivesByState)
      BY <1>2 DEF NodeOK
    <3> QED
      BY <3>1, <3>2, HealthRow
  <2>2. CASE s \in Range(hardwareSamples(cl, nodes))
    BY <1>2, <2>2, RowOfSample
  <2> QED
    BY <1>4, <2>1, <2>2
<1>8. s.Labels = nodeLabels(cl, nodes[i].LNN) /\ nodes[i].PowerSupplies > 0
  <2>1. IsList(nodes[i].Temperatures) /\ IsList(nodes[i].Fans)
    BY <1>2 DEF NodeOK
  <2> QED
    BY <1>7, <2>1, HardwareRow
<1>9. n.lnn = nodes[i].LNN
  BY <1>8, HasLabel
<1>10. i = k
  BY <1>3, <1>5, <1>6, <1>9
<1> QED
  BY <1>5, <1>6, <1>8, <1>10

\* The row that a statistic of the cluster is of.
LEMMA ClusterStatistic ==
  ASSUME ResultsFollow, NEW c \in Collected, result[c].Up,
         NEW spec \in Range(StatKeySpecs), NEW s \in Range(Samples(c)), s.Name = spec.metric
  PROVE  \E p \in Range(reply[c]["statistics/current"]) : p.key = spec.key /\ Usable(p)
<1> DEFINE r == reply[c]
           cl == ClusterOf(c, r)
           rows == r["statistics/current"]
           current == Stats(r)
           lnn == lnnByDevID(Nodes(r))
<1>1. r \in Reply /\ \A ep \in RequiredListed : r[ep] # Failed
  BY DownOrUp
<1>2. IsList(rows)
  BY <1>1, ReplyLists DEF RequiredListed, ListEndpoints
<1>3. s \in Range(statSamples(cl, current, Nodes(r)))
  <2>1. s.Name \in StatMetrics
    BY DEF StatMetrics, Range
  <2> QED
    BY <2>1, Origin
<1>4. /\ IsList(current)
      /\ Range(current) = {[Key |-> x.key, DevID |-> x.devid, Value |-> Deref(x.value)] :
                              x \in {y \in Range(rows) : Usable(y)}}
  <2> HIDE DEF rows, r
  <2>1. current = ParseStatCurrent(rows)
    BY DEF Stats, rows
  <2> QED
    BY <1>2, <2>1, ParsedStatistics
<1>5. PICK x \in Range(current) : HasSpec(x) /\ s \in Range(StatSample(cl, x, lnn))
  <2> HIDE DEF current, cl, r
  <2>1. Range(statSamples(cl, current, Nodes(r))) =
           UNION {Range(StatSample(cl, p, lnn)) : p \in {y \in Range(current) : HasSpec(y)}}
    BY <1>4, StatSamples
  <2> QED
    BY <1>3, <2>1
<1> HIDE DEF r, cl, rows, current, lnn
<1>6. SpecOf(x) \in Range(StatKeySpecs) /\ SpecOf(x).key = x.Key
  BY <1>5, SpecFound
<1>7. s.Name = SpecOf(x).metric
  <2> DEFINE a == Scaled(SpecOf(x), baseLabels(cl), x.Value)
             b == Scaled(SpecOf(x), nodeLabels(cl, lnn[x.DevID]), x.Value)
  <2>1. a.Name = SpecOf(x).metric /\ b.Name = SpecOf(x).metric
    BY DEF Scaled, Sample
  <2>2. StatSample(cl, x, lnn) \in {<<>>, <<a>>, <<b>>}
    BY DEF StatSample, When
  <2> HIDE DEF a, b
  <2>3. s = a \/ s = b
    BY <1>5, <2>2, Tuples
  <2> QED
    BY <2>1, <2>3
<1>8. x.Key = spec.key
  BY <1>6, <1>7, SpecFound
<1>9. PICK p \in Range(rows) : Usable(p) /\ x.Key = p.key
  BY <1>4
<1> QED
  BY <1>8, <1>9 DEF rows, r

\* No sample is made of a statistic in error.
LEMMA StatisticAbsent ==
  ASSUME ResultsFollow, NEW c \in Collected, result[c].Up, DistinctRows(reply[c]),
         NEW s \in Range(reply[c]["statistics/current"]), s.error # Null, HasSpec([Key |-> s.key]),
         NEW x \in Range(Samples(c)), x.Name = SpecOf([Key |-> s.key]).metric,
         SpecOf([Key |-> s.key]).scope = "node" =>
            \E n \in Range(reply[c]["cluster/nodes"]) : n.id = s.devid /\ Has(x, "node", n.lnn)
  PROVE  FALSE
<1> DEFINE r == reply[c]
           cl == ClusterOf(c, r)
           rows == r["statistics/current"]
           nodes == r["cluster/nodes"]
           spec == SpecOf([Key |-> s.key])
<1>1. spec \in Range(StatKeySpecs) /\ spec.key = s.key
  BY SpecFound
<1>2. r \in Reply /\ \A ep \in RequiredListed : r[ep] # Failed
  BY DownOrUp
<1>3. /\ \A i, j \in DOMAIN nodes : nodes[i].id = nodes[j].id => i = j
      /\ \A i, j \in DOMAIN nodes : nodes[i].lnn = nodes[j].lnn => i = j
  <2>1. nodes # Failed
    BY <1>2 DEF RequiredListed
  <2> QED
    BY <2>1 DEF DistinctRows, Distinct
<1>4. \A p \in Range(rows) :
         p.key = s.key /\ (ClusterWide(s.key) \/ p.devid = s.devid) => p = s
  <2>1. rows # Failed
    BY <1>2 DEF RequiredListed
  <2> DEFINE of(p) == IF ClusterWide(p.key) THEN <<p.key>> ELSE <<p.key, p.devid>>
  <2>2. \A i, j \in DOMAIN rows : of(rows[i]) = of(rows[j]) => i = j
    BY <2>1 DEF DistinctRows, Distinct
  <2>3. \A p : p.key = s.key /\ (ClusterWide(s.key) \/ p.devid = s.devid) => of(p) = of(s)
    OBVIOUS
  <2> HIDE DEF of
  <2> QED
    BY <2>2, <2>3 DEF Range
<1>5. ~Usable(s)
  BY DEF Usable
<1>6. CASE spec.scope # "node"
  <2>1. ClusterWide(s.key)
    BY <1>6 DEF ClusterWide
  <2>2. PICK p \in Range(rows) : p.key = spec.key /\ Usable(p)
    BY <1>1, ClusterStatistic
  <2>3. p = s
    BY <1>1, <1>4, <2>1, <2>2
  <2> QED
    BY <1>5, <2>2, <2>3
<1>7. CASE spec.scope = "node"
  <2>1. PICK n \in Range(nodes) : n.id = s.devid /\ Has(x, "node", n.lnn)
    BY <1>7
  <2>2. PICK p \in Range(rows), m \in Range(nodes) :
           /\ p.key = spec.key /\ Usable(p) /\ p.devid = m.id
           /\ x = Scaled(spec, nodeLabels(cl, m.lnn), Deref(p.value))
    <3>1. spec \in Range(StatKeySpecs) /\ x \in Range(Samples(c)) /\ x.Name = spec.metric
      BY <1>1
    <3> HIDE DEF spec
    <3> QED
      BY <1>3, <1>7, <3>1, NodeStatistic
  <2>3. x.Labels = nodeLabels(cl, m.lnn)
    <3> HIDE DEF spec, cl
    <3> QED
      BY <2>2 DEF Scaled, Sample
  <2>4. n.lnn = m.lnn
    <3> HIDE DEF cl
    <3> QED
      BY <2>1, <2>3, HasLabel
  <2>5. n = m
    <3> HIDE DEF nodes
    <3> QED
      BY <1>3, <2>1, <2>2, <2>4 DEF Range
  <2>6. p = s
    BY <1>1, <1>4, <2>1, <2>2, <2>5
  <2> QED
    BY <1>5, <2>2, <2>6
<1> QED
  BY <1>6, <1>7

\* What a cluster does not report, a quota without a threshold or a ratio, a node
\* without power supplies, a statistic in error, is not exported as a 0 that looks
\* measured.
THEOREM AbsentStaysAbsent == Spec => []AbsentNotZero
<1>1. ASSUME ResultsFollow PROVE AbsentNotZero
  <2>1. ASSUME NEW c \in Collected, result[c].Up, DistinctRows(reply[c]),
               NEW q \in Range(reply[c]["quota/quotas"]), NEW s \in Range(Samples(c)),
               Has(s, "quota_id", q.id)
        PROVE  /\ \A t \in DOMAIN QuotaThreshold : q[t] = Null => s.Name # QuotaThreshold[t]
               /\ q.ratio = Null => s.Name # "powerscale_quota_reduction_ratio"
    BY <1>1, <2>1, QuotaAbsent
  <2>2. ASSUME NEW c \in Collected, result[c].Up, DistinctRows(reply[c]),
               NEW n \in Range(reply[c]["cluster/nodes"]), n.supplies = 0,
               NEW s \in Range(Samples(c)), Has(s, "node", n.lnn)
        PROVE  s.Name # "powerscale_node_power_supply_failures"
    BY <1>1, <2>2, SuppliesAbsent
  <2>3. ASSUME NEW c \in Collected, result[c].Up, DistinctRows(reply[c]),
               NEW s \in Range(reply[c]["statistics/current"]), s.error # Null, HasSpec([Key |-> s.key]),
               NEW x \in Range(Samples(c)), x.Name = SpecOf([Key |-> s.key]).metric,
               SpecOf([Key |-> s.key]).scope = "node" =>
                  \E n \in Range(reply[c]["cluster/nodes"]) : n.id = s.devid /\ Has(x, "node", n.lnn)
        PROVE  FALSE
    BY <1>1, <2>3, StatisticAbsent
  <2> QED
    BY <2>1, <2>2, <2>3 DEF AbsentNotZero
<1> QED
  BY <1>1, ResultsFollowAlways, PTL

=============================================================================
