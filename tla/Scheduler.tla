------------------------------ MODULE Scheduler ------------------------------
(***************************************************************************)
(* The pure placement policy of src/internal/scheduler/scheduler.go: which *)
(* nodes may host a workload, which of them are preferred, and the order   *)
(* in which a scheduling pass visits the pending workloads.                *)
(*                                                                         *)
(* A workload is a record [type, gpuType, gpus, prio, spot, submitted] and *)
(* a node a record [gpuType, class, total, alloc, health].  Identifiers    *)
(* are natural numbers standing for the identifier strings: only their     *)
(* order is ever used.                                                     *)
(***************************************************************************)
EXTENDS Integers, FiniteSets

WorkloadTypes   == {"training", "inference", "batch"}
Priorities      == {"low", "normal", "high"}
CapacityClasses == {"on_demand", "spot"}
NodeHealths     == {"healthy", "failed", "recovering"}

\* The larger of two integers.
AtLeast(lo, x) == IF x < lo THEN lo ELSE x

\* Lexicographic order on integer tuples of the same length: the shape of
\* every comparator passed to sort.SliceStable in the code.
LexLess(s, t) ==
    \E i \in DOMAIN s : s[i] < t[i] /\ \A j \in 1 .. i - 1 : s[j] = t[j]

PriorityRank(p) ==
    CASE p = "high" -> 3 [] p = "normal" -> 2 [] OTHER -> 1

WorkloadClassRank(type) ==
    CASE type = "inference" -> 3 [] type = "training" -> 2 [] OTHER -> 1

\* The order of a scheduling pass: workload a, with identifier i, goes before
\* workload b, with identifier j.
WorkloadLess(a, i, b, j) ==
    LET Key(w, id) == << -PriorityRank(w.prio), -WorkloadClassRank(w.type),
                         IF w.spot THEN 1 ELSE 0, w.submitted, id >>
    IN  LexLess(Key(a, i), Key(b, j))

FreeGPUs(n) == n.total - n.alloc

\* Training never runs on spot capacity; batch and inference only when the
\* request tolerates it.
SpotCompatible(w, n) ==
    \/ n.class = "on_demand"
    \/ w.spot /\ w.type # "training"

\* Variant: the health of the node is not looked at.
EligibleAnyHealth(w, n) ==
    /\ n.gpuType = w.gpuType
    /\ FreeGPUs(n) >= w.gpus
    /\ SpotCompatible(w, n)

\* eligibilityReason, when it finds no reason against.
EligibleNode(w, n) ==
    /\ n.health = "healthy"
    /\ n.gpuType = w.gpuType
    /\ FreeGPUs(n) >= w.gpus
    /\ SpotCompatible(w, n)

UtilizationPenalty(n) ==
    IF n.total <= 0 THEN 1000 ELSE (n.alloc * 100) \div n.total

\* Lower is better.  Inference spreads to the least utilised node, the other
\* types pack the tightest one; each class of work has a preferred capacity.
PlacementScore(w, n) ==
    LET preferred == IF w.type = "batch" /\ w.spot THEN "spot" ELSE "on_demand"
        away(cost) == IF n.class = preferred THEN 0 ELSE cost
    IN  IF w.type = "inference"
        THEN away(250) + UtilizationPenalty(n)
        ELSE away(1000) + AtLeast(0, FreeGPUs(n) - w.gpus)

\* Deterministic preference between two eligible nodes of the fleet N.
PreferNode(w, N, m, n) ==
    LET Key(id) == << PlacementScore(w, N[id]), FreeGPUs(N[id]) - w.gpus, id >>
    IN  LexLess(Key(m), Key(n))

\* The k nodes of fleet N (a function from identifiers to nodes) that Decide
\* selects when it is asked k times with the nodes already used excluded.
\* Fewer than k when the fleet has no k eligible nodes.
Decide(w, N, k) ==
    LET eligible == {n \in DOMAIN N : EligibleNode(w, N[n])}
    IN  {n \in eligible :
            Cardinality({m \in eligible : PreferNode(w, N, m, n)}) < k}
==============================================================================
