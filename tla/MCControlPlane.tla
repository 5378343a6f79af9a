---------------------------- MODULE MCControlPlane ----------------------------
(***************************************************************************)
(* An on-demand and a spot node of one GPU type.  The fixture seeds the    *)
(* spot node as recovering, and a batch workload on the other one.         *)
(***************************************************************************)
EXTENDS ControlPlane

MCNodeIds == 1 .. 2

MCFleet ==
    << [gpuType |-> "L4", class |-> "on_demand", total |-> 2],
       [gpuType |-> "L4", class |-> "spot",      total |-> 2] >>

Ask(type, gpus, prio, spot, submitted, replicas) ==
    [type |-> type, gpuType |-> "L4", gpus |-> gpus, prio |-> prio,
     spot |-> spot, submitted |-> submitted, replicas |-> replicas,
     duration |-> 1]

MCSeedRequest == << Ask("batch", 2, "normal", TRUE, 0, 1) >>
MCSeedHosts   == << {1} >>
MCSeedHealth  == << "healthy", "recovering" >>
MCSeedPhantom == << 0, 0 >>

(* A service of two replicas, and training that preempts what it meets: three *)
(* workloads at most, and two for the runs that check liveness.               *)
MCRequests ==
    { Ask("inference", 1, "normal", TRUE,  1, 2),
      Ask("training",  2, "high",   FALSE, 1, 1) }

MCWorkloadIds   == 1 .. 3
LiveWorkloadIds == 1 .. 2
==============================================================================
