-------------------------------- MODULE OneFS --------------------------------
(***************************************************************************)
(* What the parsers of internal/models/onefs.go make of the payloads of a   *)
(* cluster.  A payload is its decoded JSON: a list is a sequence of rows, a *)
(* row a record of the fields the parser reads.  Only the fields whose      *)
(* decoding does something are told apart from plain values:                *)
(*   Null   the field is absent or null,                                    *)
(*   Other  it holds what the parser does not take there (a list, a text).  *)
(* A payload that does not decode at all is an error of the fetch and is    *)
(* left to module Derivations.                                              *)
(***************************************************************************)
EXTENDS Integers, Sequences, SequencesExt, FiniteSetsExt

CONSTANTS Null, Other,
          TempGroup,   \* names of sensor groups that contain "temp", in any case
          FanGroup     \* names of sensor groups that contain "fan", in any case

\* The slice a loop over rows appends to: what F makes of each row, in order; s
\* if p holds; the rows that pass Test.
Each(F(_), rows) == FlattenSeq([i \in DOMAIN rows |-> F(rows[i])])
When(p, s) == IF p THEN <<s>> ELSE <<>>
Only(Test(_), rows) == Each(LAMBDA x : When(Test(x), x), rows)

\* s is a sequence, as a JSON list that has been decoded is.
IsList(s) == s \in Seq(Range(s))

Deref(p) == IF p = Null THEN 0 ELSE p

\* flexFloat: a number, plain or quoted, <<form, n>>; anything else is 0.
Flex(v) == IF v \in {Null, Other} THEN 0 ELSE v[2]

\* How many rows have each key; a key nobody has is not in the domain.
CountBy(Key(_), rows) ==
    [k \in {Key(rows[i]) : i \in DOMAIN rows} |->
        Cardinality({i \in DOMAIN rows : Key(rows[i]) = k})]

-----------------------------------------------------------------------------
(* The inventory.                                                           *)

ParseClusterConfig(p) == [Name |-> p.name, GUID |-> p.guid]

DriveState(d) == IF d.ui_state = "" THEN "UNKNOWN" ELSE d.ui_state

Installed_NeedsFlag(d) == d.present = TRUE

\* An empty bay is not a drive; a payload without the flag lists drives only.
Installed(d) == d.present # FALSE

\* sensorGroups: a list of groups, bare or in an object; any other shape is empty.
SensorGroups(s) == IF s = Other THEN <<>> ELSE s.groups

\* The readings of the groups with one of these names.
Readings(s, names) ==
    Each(LAMBDA g : IF g.name \in names
                    THEN [j \in DOMAIN g.values |->
                            [Name |-> g.values[j].name, Value |-> Flex(g.values[j].value)]]
                    ELSE <<>>,
         SensorGroups(s))

ParseNode(n) ==
    [ID |-> n.id, LNN |-> n.lnn, Readonly |-> n.readonly, Smartfail |-> n.smartfailed,
     DrivesByState |-> CountBy(DriveState, Only(Installed, n.drives)),
     PowerSupplies |-> n.supplies, PowerSupplyFailures |-> n.failures,
     Temperatures |-> Readings(n.sensors, TempGroup),
     Fans |-> Readings(n.sensors, FanGroup \ TempGroup),
     Hardware |-> n.hardware]

ParseNodes(rows) == [i \in DOMAIN rows |-> ParseNode(rows[i])]

ParseQuota(q) ==
    [id |-> q.id, path |-> q.path, type |-> q.type, usage |-> q.usage, app |-> q.app,
     physical |-> q.physical, ratio |-> Deref(q.ratio), hard |-> Deref(q.hard),
     soft |-> Deref(q.soft), advisory |-> Deref(q.advisory)]

ParseQuotas(rows) == [i \in DOMAIN rows |-> ParseQuota(rows[i])]

ParseTotal(p) == Deref(p.total)

\* The space of the live snapshots, also when it is 0; else the total.
ParseSnapshotSummary(p) == IF p.active_size # Null THEN p.active_size ELSE Deref(p.size)

ParseSyncPolicies(rows) ==
    [i \in DOMAIN rows |->
        [Name |-> rows[i].name, Enabled |-> rows[i].enabled,
         LastJobState |-> rows[i].last_job_state]]

\* A date stands for its Unix time; no date, or a text that is none, is 0.
ExpirationUnix(d) == IF d \in {Null, Other} THEN 0 ELSE d

ParseLicenses(rows) ==
    [i \in DOMAIN rows |->
        [Name |-> rows[i].name, Status |-> rows[i].status,
         Expiration |-> ExpirationUnix(rows[i].expiration)]]

\* usage[f] for the nine fields of a pool's usage.
ParseStoragePools(rows) ==
    [i \in DOMAIN rows |->
        [Name |-> rows[i].name, Type |-> rows[i].type,
         Usage |-> [f \in DOMAIN rows[i].usage |-> Flex(rows[i].usage[f])]]]

Unresolved(e) == ~e.resolved
Severity(e) == IF e.severity = "" THEN "unknown" ELSE e.severity
ParseEventOccurrences(rows) == CountBy(Severity, Only(Unresolved, rows))

\* OneFS counts blocks.
ParseDedupeSummary(p) ==
    [LogicalSaved |-> Deref(p.saved_logical_blocks) * Deref(p.block_size),
     Deduplicated |-> Deref(p.logical_blocks) * Deref(p.block_size)]

-----------------------------------------------------------------------------
(* The statistics.                                                          *)

\* A row with an error is skipped, and one whose value is missing or no number;
\* an explicit null is not: it decodes into the zero it is decoded over.
Usable(s) == s.error = Null /\ s.value # Other

ParseStatCurrent(rows) ==
    LET usable == Only(Usable, rows)
    IN  [i \in DOMAIN usable |->
            [Key |-> usable[i].key, DevID |-> usable[i].devid, Value |-> Deref(usable[i].value)]]

\* A field of a row of unknown types: 0 or "" when it is not of the wanted type.
NumberOr0(v) == IF v \in {Null, Other} THEN 0 ELSE v
TextOrEmpty(v) == IF v \in {Null, Other} THEN "" ELSE v

ProtocolStages == <<"auth", "export", "fha_blocking", "fiber_block_quota", "kernel",
                    "spark_dispatch", "total_elapsed">>

\* stages[s] is the row's field s_avg; only numbers are kept.
StageAvg(stages) == [s \in {t \in DOMAIN stages : stages[t] \notin {Null, Other}} |-> stages[s]]

ParseProtocolSummary(rows) ==
    [i \in DOMAIN rows |->
        LET r == rows[i]
        IN  [Node |-> NumberOr0(r.node), Protocol |-> TextOrEmpty(r.protocol),
             Operation |-> TextOrEmpty(r.operation), OperationRate |-> NumberOr0(r.operation_rate),
             LatencyAvg |-> NumberOr0(r.time_avg), StageAvg |-> StageAvg(r.stages)]]

\* splitDriveID: drive_id is "LNN:bay", cut at its first colon into <<LNN, bay>>;
\* a drive_id without a colon is Other, as is an LNN that is no number.
DriveIDOk(d) == d.drive_id # Other /\ d.drive_id[1] # Other /\ d.drive_id[2] # ""

ParseDriveSummary(rows) ==
    LET ok == Only(DriveIDOk, rows)
    IN  [i \in DOMAIN ok |->
            [Node |-> ok[i].drive_id[1], Bay |-> ok[i].drive_id[2], Type |-> ok[i].type,
             OpsPerSec |-> ok[i].xfers_in + ok[i].xfers_out, BusyPercent |-> ok[i].busy]]

ParseClientSummary(rows) ==
    [i \in DOMAIN rows |->
        [Node |-> rows[i].node, Protocol |-> rows[i].protocol, Class |-> rows[i].class,
         OpsPerSec |-> rows[i].operation_rate, InBps |-> rows[i].in, OutBps |-> rows[i].out]]

\* id holds the identity dimensions in the order of workloadLabels.
ParseWorkloadSummary(rows) ==
    [i \in DOMAIN rows |->
        [Node |-> rows[i].node,
         ID |-> [d \in DOMAIN rows[i].id |-> TextOrEmpty(rows[i].id[d])],
         Ops |-> rows[i].ops, BytesIn |-> rows[i].bytes_in, BytesOut |-> rows[i].bytes_out,
         CPUMicros |-> rows[i].cpu]]
=============================================================================
