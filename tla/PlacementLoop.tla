---------------------------- MODULE PlacementLoop ----------------------------
(***************************************************************************)
(* The loops that compute a placement: scheduleInferenceWorkloadLocked     *)
(* asks the policy for one node per replica, on a tentative copy of the    *)
(* fleet and with the nodes already used excluded; the policy itself scans *)
(* the nodes in the order of a map, that is in any order, and keeps the    *)
(* best.  The other types make one round.  The module shows that what the  *)
(* loops return is Scheduler!Decide, the closed form the store is modelled *)
(* with.                                                                   *)
(***************************************************************************)
EXTENDS Scheduler

CONSTANTS
    Asked,      \* workloads to place, with their number of replicas
    Fleets      \* fleets to place them on: functions from ids to nodes

NodeRecords ==
    [gpuType : STRING, class : CapacityClasses, total : Nat, alloc : Nat,
     health : NodeHealths]

ASSUME AskedAssumption ==
    \A w \in Asked : w.gpus \in Nat /\ w.replicas \in Nat \ {0}

\* The fleets are those of a store whose GPU account is sound.
ASSUME FleetsAssumption ==
    \A f \in Fleets :
        /\ DOMAIN f \subseteq Nat /\ IsFiniteSet(DOMAIN f)
        /\ f \in [DOMAIN f -> NodeRecords]
        /\ \A n \in DOMAIN f : f[n].alloc <= f[n].total

VARIABLES
    work,       \* the workload, fixed
    fleet,      \* s.nodes, fixed until the loop succeeds
    tempNodes,  \* the tentative copy
    usedNodes,  \* nodes that have a replica
    unseen,     \* nodes the current call of Decide has still to look at
    best,       \* the candidates that may still come first: none or one
    outcome     \* "deciding", "placed" or "queued"

vars == << work, fleet, tempNodes, usedNodes, unseen, best, outcome >>

Init ==
    /\ work \in Asked
    /\ fleet \in Fleets
    /\ tempNodes = fleet
    /\ usedNodes = {}
    /\ unseen = DOMAIN fleet
    /\ best = {}
    /\ outcome = "deciding"

\* Variant: the first eligible node is kept, and map order decides.
LookFirst(n) ==
    /\ n \in unseen
    /\ unseen' = unseen \ {n}
    /\ best' = IF best = {} /\ EligibleNode(work, tempNodes[n]) THEN {n} ELSE best
    /\ UNCHANGED << work, fleet, tempNodes, usedNodes, outcome >>

\* One iteration of the loop over the nodes, and of the sort that follows it.
Look(n) ==
    /\ n \in unseen
    /\ unseen' = unseen \ {n}
    /\ best' = IF ~EligibleNode(work, tempNodes[n]) THEN best
               ELSE IF \E m \in best : PreferNode(work, tempNodes, m, n) THEN best
               ELSE {n}
    /\ UNCHANGED << work, fleet, tempNodes, usedNodes, outcome >>

\* Variant: the tentative allocation is on every node, the excluded ones or not.
AllocateEverywhere(n) ==
    [m \in DOMAIN tempNodes |-> [tempNodes[m] EXCEPT !.alloc = @ + work.gpus]]

\* The tentative copy once node n holds a replica.
Allocate(n) == [tempNodes EXCEPT ![n].alloc = @ + work.gpus]

\* toSchedulerNodesLockedExcluding
Excluding(used) == DOMAIN tempNodes \ used

\* Decide has selected a node: next replica, or done.
Select(n) ==
    /\ unseen = {} /\ outcome = "deciding"
    /\ best = {n}
    /\ tempNodes' = Allocate(n)
    /\ usedNodes' = usedNodes \cup {n}
    /\ IF Cardinality(usedNodes') = work.replicas
       THEN outcome' = "placed" /\ UNCHANGED unseen
       ELSE unseen' = Excluding(usedNodes') /\ UNCHANGED outcome
    /\ best' = {}
    /\ UNCHANGED << work, fleet >>

\* Decide has found no node: nothing of the tentative copy is kept.
GiveUp ==
    /\ unseen = {} /\ outcome = "deciding"
    /\ best = {}
    /\ outcome' = "queued"
    /\ UNCHANGED << work, fleet, tempNodes, usedNodes, unseen, best >>

Next ==
    \/ \E n \in unseen : Look(n)
    \/ \E n \in best : Select(n)
    \/ GiveUp

Spec == Init /\ [][Next]_vars
------------------------------------------------------------------------------
\* The loops return the nodes of the closed form, all of them or none,
\* whatever the order in which a map yields the nodes and although each round
\* scores a fleet that the earlier rounds have changed.
LoopIsDecide ==
    /\ outcome = "placed" => usedNodes = Decide(work, fleet, work.replicas)
    /\ outcome = "queued" =>
          Cardinality(Decide(work, fleet, work.replicas)) < work.replicas

\* A placed workload has as many distinct nodes as replicas, none of them
\* allocated beyond its size, and each of them gave exactly one share.
ReplicasSpread ==
    outcome = "placed" =>
        /\ Cardinality(usedNodes) = work.replicas
        /\ \A n \in DOMAIN fleet :
              /\ tempNodes[n].alloc <= fleet[n].total
              /\ tempNodes[n].alloc - fleet[n].alloc =
                    IF n \in usedNodes THEN work.gpus ELSE 0
==============================================================================
