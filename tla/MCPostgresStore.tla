---------------------------- MODULE MCPostgresStore ----------------------------
(***************************************************************************)
(* Two nodes of one GPU type for PostgresStore.  The fixture seeds the     *)
(* spot node as recovering, and a batch workload on the other one; a       *)
(* request for that node's two GPUs preempts it.                           *)
(***************************************************************************)
EXTENDS PostgresStore

MCNodeIds == 1 .. 2

MCFleet ==
    << [gpuType |-> "L4", class |-> "on_demand", total |-> 2],
       [gpuType |-> "L4", class |-> "spot",      total |-> 1] >>

Ask(type, gpus, prio) ==
    [type |-> type, gpuType |-> "L4", gpus |-> gpus, prio |-> prio,
     spot |-> type = "batch", submitted |-> 0, replicas |-> 1, duration |-> 1]

MCRequests == { Ask("training", 1, "normal"), Ask("training", 2, "high") }

MCSeedRequest == << Ask("batch", 1, "normal") >>
MCSeedHosts   == << {1} >>
MCSeedHealth  == << "healthy", "recovering" >>
MCSeedPhantom == << 0, 0 >>

(* For the run of two sessions: no nodes, a workload and an event.  What the  *)
(* sessions wait for does not depend on what the rows say, only on the tables.*)
NoNodeIds    == {}
NoNodes      == << >>
OneRequest   == { Ask("training", 1, "normal") }
PendingHosts == << {} >>

(* For the runs on what the documents say: one GPU, two workloads queued for it. *)
ClaimNodeIds == {1}
ClaimFleet   == << [gpuType |-> "L4", class |-> "on_demand", total |-> 1] >>

ClaimSeedRequest == << Ask("training", 1, "normal"), Ask("batch", 1, "normal") >>
ClaimSeedHosts   == << {}, {} >>
ClaimSeedHealth  == << "healthy" >>
ClaimSeedPhantom == << 0 >>
==============================================================================
