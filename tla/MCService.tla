------------------------------- MODULE MCService -------------------------------
(***************************************************************************)
(* A node of each class, each with one GPU in use: of batch work, and of   *)
(* nobody.  Requests as clients post them, some of which are refused.      *)
(***************************************************************************)
EXTENDS Service, TLC

ClientSymmetry == Permutations(Clients)

MCNodeIds == 1 .. 2

MCFleet ==
    << [gpuType |-> "L4", class |-> "on_demand", total |-> 2],
       [gpuType |-> "L4", class |-> "spot",      total |-> 2] >>

Body(type, gpus, prio, spot, replicas, duration) ==
    [type |-> type, gpuType |-> "L4", gpus |-> gpus, prio |-> prio,
     spot |-> spot, replicas |-> replicas, duration |-> duration]

\* A service of two replicas, and bodies that are refused: no GPUs, no time, a
\* negative number of replicas.
MCPosted ==
    { Body("inference", 1, "normal", TRUE, 2, 1), Body("batch", 0, "low", TRUE, 0, 1),
      Body("batch", 1, "low", TRUE, 0, 0), Body("inference", 1, "low", TRUE, -1, 1) }

\* The simulation that exhausts the capacity submits training, which preempts
\* the batch work of the fixture.
Exhausting == Normalized(Body("training", 2, "high", FALSE, 1, 1), 1)

MCSimulations == { [req |-> Exhausting, times |-> 1] }

MCRequests == { Normalized(p, 1) : p \in {q \in MCPosted : Valid(q)} } \cup { Exhausting }

\* The work of the fixture outlasts the calls: it has no duration here.
MCSeedRequest == << Normalized(Body("batch", 1, "normal", TRUE, 0, 0), 0) >>
MCSeedHosts   == << {1} >>
MCSeedHealth  == << "healthy", "healthy" >>
MCSeedPhantom == << 0, 1 >>
==============================================================================
