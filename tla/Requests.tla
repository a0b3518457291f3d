------------------------------ MODULE Requests -------------------------------
(***************************************************************************)
(* The requests of one collection of one cluster, in the order in which    *)
(* GetInventory and GetStatistics of internal/powerscale/client.go make     *)
(* them, each with what a failure does: a required one fails the cycle, a  *)
(* best-effort one leaves its part of the result empty.                     *)
(***************************************************************************)
EXTENDS Sequences, SequencesExt

Mandatory(ep) == [ep |-> ep, required |-> TRUE]
BestEffort(ep) == [ep |-> ep, required |-> FALSE]

InventoryRequests ==
    <<Mandatory("cluster/config"), Mandatory("cluster/nodes"), Mandatory("quota/quotas"),
      BestEffort("nfs/exports"), BestEffort("smb/shares"), BestEffort("snapshot/snapshots"),
      BestEffort("snapshots-summary"), BestEffort("sync/policies"),
      BestEffort("eventgroup-occurrences"), BestEffort("dedupe-summary"),
      BestEffort("license/licenses"), BestEffort("storagepools")>>

StatisticsRequests ==
    <<Mandatory("statistics/current"), BestEffort("summary/protocol"),
      BestEffort("summary/drive"), BestEffort("summary/client"),
      BestEffort("summary/workload")>>

Requests == InventoryRequests \o StatisticsRequests

Endpoints(reqs) == {r.ep : r \in Range(reqs)}
RequiredEndpoints(reqs) == {r.ep : r \in {q \in Range(reqs) : q.required}}
=============================================================================
