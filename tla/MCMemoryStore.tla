---------------------------- MODULE MCMemoryStore ----------------------------
(***************************************************************************)
(* A small fleet for MemoryStore: an on-demand and a spot node of one GPU  *)
(* type, and an on-demand node of another.  The fixture seeds the spot     *)
(* node as recovering, and the last one with a workload and with one more  *)
(* GPU that is allocated to nobody.                                        *)
(***************************************************************************)
EXTENDS Telemetry

MCWorkloadIds == 1 .. 4
MCNodeIds     == 1 .. 3

MCFleet ==
    << [gpuType |-> "L4",   class |-> "on_demand", total |-> 2],
       [gpuType |-> "L4",   class |-> "spot",      total |-> 2],
       [gpuType |-> "H100", class |-> "on_demand", total |-> 2] >>

Ask(type, gpuType, gpus, prio, spot, submitted, replicas) ==
    [type |-> type, gpuType |-> gpuType, gpus |-> gpus, prio |-> prio,
     spot |-> spot, submitted |-> submitted, replicas |-> replicas,
     duration |-> 1]

\* Work that does not end.
Lasting(request) == [request EXCEPT !.duration = 0]

MCRequests ==
    { Ask("inference", "L4", 1, "normal", TRUE,  2, 2),
      Lasting(Ask("inference", "L4", 1, "normal", FALSE, 2, 1)),
      Ask("training",  "L4", 2, "high",   FALSE, 2, 1),
      Ask("batch",     "L4", 1, "normal", TRUE,  1, 1) }

MCSeedRequest == << Ask("training", "H100", 1, "normal", TRUE, 0, 1) >>
MCSeedHosts   == << {3} >>
MCSeedHealth  == << "healthy", "recovering", "healthy" >>
MCSeedPhantom == << 0, 0, 1 >>

(* For the runs on what the documents say: three L4 nodes, nothing seeded on   *)
(* them but one GPU, services of one and two replicas, work of two priorities.*)
ClaimFleet ==
    << [gpuType |-> "L4", class |-> "on_demand", total |-> 2],
       [gpuType |-> "L4", class |-> "on_demand", total |-> 2],
       [gpuType |-> "L4", class |-> "spot",      total |-> 2] >>

ClaimRequests ==
    { Ask("inference", "L4", 1, "normal", TRUE,  2, 2),
      Ask("inference", "L4", 2, "normal", FALSE, 2, 1),
      Ask("training",  "L4", 2, "low",    FALSE, 2, 1),
      Ask("batch",     "L4", 2, "low",    FALSE, 1, 1) }

ClaimSeedRequest == << Ask("batch", "L4", 1, "low", FALSE, 0, 1) >>
ClaimSeedHealth  == << "healthy", "healthy", "healthy" >>
ClaimSeedHosts   == << {1} >>
ClaimSeedPhantom == << 0, 0, 0 >>
==============================================================================
