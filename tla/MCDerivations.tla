----------------------------- MODULE MCDerivations -----------------------------
(***************************************************************************)
(* Derivations on the replies of a cluster of two nodes whose device ids and *)
(* node numbers are crossed, with one or two endpoints at a time answering   *)
(* something else or nothing.                                               *)
(***************************************************************************)
EXTENDS Derivations

\* No name is preferred to another.
Symmetry == Permutations(Cluster)

Num(n) == <<"number", n>>
Quoted(n) == <<"text", n>>

Key(key, metric, scope, divisor) == [key |-> key, metric |-> metric, scope |-> scope, divisor |-> divisor]
MCStatKeySpecs ==
    <<Key("cluster.cpu.sys.avg", "powerscale_cluster_cpu_sys_percent", "cluster", 10),
      Key("ifs.bytes.used", "powerscale_cluster_used_capacity_bytes", "cluster", 0),
      Key("node.cpu.sys.avg", "powerscale_node_cpu_sys_percent", "node", 10),
      Key("node.memory.used", "powerscale_node_memory_used_bytes", "node", 0)>>

-----------------------------------------------------------------------------
Drive(state, present) == [ui_state |-> state, present |-> present]
Group(name, values) == [name |-> name, values |-> values]
Value(name, value) == [name |-> name, value |-> value]

Physical ==
    [id |-> 1, lnn |-> 2, readonly |-> FALSE, smartfailed |-> TRUE,
     drives |-> <<Drive("HEALTHY", TRUE), Drive("HEALTHY", FALSE), Drive("", Null),
                  Drive("DEAD", TRUE), Drive("HEALTHY", Null)>>,
     supplies |-> 2, failures |-> 1,
     hardware |-> [product |-> "H700", series |-> "h", hwgen |-> "5"],
     sensors |-> [groups |-> <<Group("Temps", <<Value("inlet", Num(21)), Value("cpu", Quoted(50))>>),
                               Group("Fans", <<Value("cpu", Num(3)), Value("rear", Other)>>),
                               Group("FanTemps", <<Value("fan", Null)>>),
                               Group("Volts", <<Value("v", Num(12))>>)>>]]
Virtual ==
    [id |-> 2, lnn |-> 1, readonly |-> TRUE, smartfailed |-> FALSE, drives |-> <<>>,
     supplies |-> 0, failures |-> 0, hardware |-> [product |-> "", series |-> "", hwgen |-> ""],
     sensors |-> Other]

Quota(id, path, type) ==
    [id |-> id, path |-> path, type |-> type, usage |-> 5, app |-> 4, physical |-> 7,
     ratio |-> Null, hard |-> 9, soft |-> Null, advisory |-> Null]
Stat(devid, key, value) == [devid |-> devid, key |-> key, value |-> value, error |-> Null]
Stages(v) == [s \in Range(ProtocolStages) |-> IF s = "kernel" THEN v ELSE Null]
Protocol(node, op) ==
    [node |-> node, protocol |-> "nfs3", operation |-> op, operation_rate |-> 3, time_avg |-> 20,
     stages |-> Stages(8)]
DriveRow(id) == [drive_id |-> id, type |-> "SSD", xfers_in |-> 1, xfers_out |-> 2, busy |-> 9]
Client(node, class, rate) ==
    [node |-> node, protocol |-> "nfs3", class |-> class, operation_rate |-> rate, in |-> 1, out |-> 2]
Identity(user) ==
    [zone |-> "System", protocol |-> Null, username |-> user, system_name |-> Null, job_type |-> Null]
Workload(node, user) ==
    [node |-> node, id |-> Identity(user), ops |-> 1, bytes_in |-> 2, bytes_out |-> 3, cpu |-> 4]
Pool(name, type, v) == [name |-> name, type |-> type, usage |-> [i \in {m[1] : m \in Range(PoolMetrics)} |-> v]]

Base ==
    [ep \in Endpoints(Requests) |->
        CASE ep = "cluster/config" -> [name |-> "n", guid |-> "g"]
          [] ep = "cluster/nodes" -> <<Physical, Virtual>>
          [] ep = "quota/quotas" -> <<Quota("q1", "/ifs", "directory"), Quota("q2", "/ifs", "user"),
                                      Quota("q3", "/ifs", "user")>>
          [] ep \in {"nfs/exports", "smb/shares", "snapshot/snapshots"} -> [total |-> 3]
          [] ep = "snapshots-summary" -> [active_size |-> 6, size |-> 8]
          [] ep = "sync/policies" -> <<[name |-> "p", enabled |-> TRUE, last_job_state |-> "failed"],
                                       [name |-> "p2", enabled |-> FALSE, last_job_state |-> "running"]>>
          [] ep = "eventgroup-occurrences" -> <<[severity |-> "critical", resolved |-> FALSE],
                                                [severity |-> "critical", resolved |-> TRUE],
                                                [severity |-> "", resolved |-> FALSE]>>
          [] ep = "dedupe-summary" -> [saved_logical_blocks |-> 2, logical_blocks |-> 3, block_size |-> 8]
          [] ep = "license/licenses" -> <<[name |-> "l1", status |-> "Licensed", expiration |-> Null],
                                          [name |-> "l2", status |-> "Expired", expiration |-> 11]>>
          [] ep = "storagepools" -> <<Pool("p", "tier", Quoted(5)), Pool("p", "nodepool", Num(5))>>
          [] ep = "statistics/current" -> <<Stat(0, "cluster.cpu.sys.avg", 41),
                                            Stat(1, "node.cpu.sys.avg", 12), Stat(2, "node.cpu.sys.avg", 34)>>
          [] ep = "summary/protocol" -> <<Protocol(1, "read"), Protocol(2, "read")>>
          [] ep = "summary/drive" -> <<DriveRow(<<1, "1">>), DriveRow(<<1, "2:3">>)>>
          [] ep = "summary/client" -> <<Client(1, "read", 2), Client(1, "write", 4)>>
          [] ep = "summary/workload" -> <<Workload(1, "u"), Workload(1, Null)>>]

-----------------------------------------------------------------------------
(* What else an endpoint may answer.                                        *)

DriveLists == UNION {[1..n -> {Drive("HEALTHY", TRUE), Drive("", Null), Drive("DEAD", FALSE)}] : n \in 1..2}
Optional == {Null, 0, 1}

StatRows ==
    {<<Stat(1, "node.memory.used", 7), [Stat(2, "node.memory.used", 8) EXCEPT !.error = "e"]>>,
     <<Stat(2, "node.memory.used", 0), Stat(1, "node.cpu.sys.avg", Other), Stat(2, "unknown", 4)>>,
     <<Stat(0, "ifs.bytes.used", 5), Stat(3, "node.memory.used", 6), Stat(0, "node.memory.used", 6)>>,
     <<Stat(1, "node.memory.used", Null)>>,
     <<[Stat(0, "cluster.cpu.sys.avg", 5) EXCEPT !.error = "e"]>>}

NodeRows ==
    {<<[Virtual EXCEPT !.drives = d]>> : d \in DriveLists}
    \cup {<<[Physical EXCEPT !.id = 3], Physical, [Virtual EXCEPT !.lnn = 3]>>}
    \cup {<<[Physical EXCEPT !.id = i]>> : i \in 0..3}

Variants ==
    [ep \in Endpoints(Requests) |->
        CASE ep = "cluster/config" -> {[name |-> "n", guid |-> ""]}
          [] ep = "cluster/nodes" -> NodeRows
          [] ep = "quota/quotas" ->
                {<<[Quota("q1", "/ifs", "directory") EXCEPT !.hard = h, !.soft = s, !.ratio = r]>> :
                    h \in Optional, s \in {Null, 0, 6}, r \in Optional}
          [] ep \in {"nfs/exports", "smb/shares", "snapshot/snapshots"} -> {[total |-> Null]}
          [] ep = "snapshots-summary" -> {[active_size |-> Null, size |-> 8], [active_size |-> 0, size |-> 8]}
          [] ep = "sync/policies" -> {<<[name |-> "p", enabled |-> TRUE, last_job_state |-> ""]>>}
          [] ep = "eventgroup-occurrences" ->
                [1..2 -> {[severity |-> s, resolved |-> b] : s \in {"", "unknown"}, b \in BOOLEAN}]
          [] ep = "dedupe-summary" -> {[saved_logical_blocks |-> 2, logical_blocks |-> 3, block_size |-> Null]}
          [] ep = "license/licenses" -> {<<[name |-> "l1", status |-> "", expiration |-> Other]>>}
          [] ep = "storagepools" -> {<<Pool("p", "tier", Other)>>}
          [] ep = "statistics/current" -> StatRows
          [] ep = "summary/protocol" ->
                {<<[Protocol(1, "read") EXCEPT !.stages = Stages(Other), !.time_avg = Other]>>}
          [] ep = "summary/drive" -> {<<DriveRow(Other), DriveRow(<<Other, "1">>), DriveRow(<<1, "">>)>>}
          [] ep = "summary/client" -> {<<Client(1, "read", 2), Client(1, "read", 4)>>}
          [] ep = "summary/workload" -> {<<[Workload(1, "u") EXCEPT !.id.zone = Null]>>}]

BestEffortEndpoints == Endpoints(Requests) \ RequiredEndpoints(Requests)

\* The list endpoints may also have nothing to list.
MCReply ==
    {Base}
    \cup UNION {{[Base EXCEPT ![ep] = v] : v \in Variants[ep] \cup {Failed}} : ep \in Endpoints(Requests)}
    \cup {[Base EXCEPT ![ep] = <<>>] :
            ep \in Endpoints(Requests) \ {"cluster/config", "nfs/exports", "smb/shares",
                                          "snapshot/snapshots", "snapshots-summary", "dedupe-summary"}}
    \cup {[Base EXCEPT !["cluster/nodes"] = <<[Physical EXCEPT !.id = i]>>, !["statistics/current"] = s] :
            i \in 1..2, s \in StatRows}
    \cup {[ep \in Endpoints(Requests) |-> IF ep \in BestEffortEndpoints THEN Failed ELSE Base[ep]]}
=============================================================================
