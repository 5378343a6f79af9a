--------------------------- MODULE MCPlacementLoop ---------------------------
(* All fleets of three L4 nodes of up to two GPUs, against every class of     *)
(* work that the policy tells apart.                                          *)
EXTENDS PlacementLoop

Kinds == { << "training", FALSE, 1 >>, << "batch", TRUE, 1 >>, << "batch", FALSE, 1 >>,
           << "inference", TRUE, 2 >>, << "inference", FALSE, 2 >>,
           << "inference", TRUE, 3 >> }

MCAsked ==
    { [type |-> k[1], spot |-> k[2], replicas |-> k[3], gpus |-> g,
       gpuType |-> "L4", prio |-> "normal", submitted |-> 0] :
         k \in Kinds, g \in 1 .. 2 }

ANode ==
    { [gpuType |-> "L4", class |-> c, total |-> t, alloc |-> a, health |-> h] :
         c \in CapacityClasses, t \in {2, 3}, a \in 0 .. 2, h \in {"healthy", "failed"} }

MCFleets ==
    { f \in [1 .. 3 -> ANode] :
        \A n \in 1 .. 3 : f[n].health = "failed" =>
            /\ f[n].alloc = 0 /\ f[n].total = 2 }
==============================================================================
