----------------------------- MODULE MemoryStore -----------------------------
(***************************************************************************)
(* The in-memory store of src/internal/store/memory.go: the workloads, the *)
(* fleet, and every operation that changes them.  All operations run under *)
(* one mutex.  A scheduling pass is split into one step per workload so    *)
(* that the invariants are also checked inside the critical section; while *)
(* a pass is under way (todo # {}) the mutex is held and nothing else may  *)
(* read or write the store.                                                *)
(*                                                                         *)
(* Each field of the code's records is a variable of its own, indexed by   *)
(* the identifier: the attributes of a request are req[w], the union of    *)
(* Placement and ReplicaPlacements is hosts[w], and UpdatedAt plus         *)
(* DurationSeconds is kept as the time left before the deadline, left[w].  *)
(***************************************************************************)
EXTENDS Scheduler

CONSTANTS
    WorkloadIds,    \* identifiers workloads may have, numbers
    NodeIds,        \* identifiers of the nodes of the fleet, numbers
    Fleet,          \* Fleet[n]: the fixed attributes gpuType, class, total
    Requests,       \* what clients ask for
    NoRequest,      \* req[w] of an identifier not in the store
    SeedRequest,    \* the demo fixture: request of each seeded workload,
    SeedHosts,      \*   the nodes it runs on ({} when it is pending),
    SeedHealth,     \*   the health of each node,
    SeedPhantom     \*   GPUs of the node allocated to no workload

VARIABLES
    state,      \* state[w]: "absent" when w is not in the store
    req,        \* req[w]: the request w was created from
    hosts,      \* hosts[w]: the nodes that hold a replica of w
    left,       \* left[w]: time units until UpdatedAt + DurationSeconds
    health,     \* health[n]: "absent" when n is not in the store
    alloc,      \* alloc[n]: AllocatedGPUs
    running,    \* running[n]: RunningWorkloadIDs
    todo,       \* workloads the pass under way has still to try
    preempted   \* auxiliary: the pass under way has taken GPUs back

workloadVars == << state, req, hosts, left >>
nodeVars     == << health, alloc, running >>
passVars     == << todo, preempted >>
vars         == << workloadVars, nodeVars, passVars >>

Attributes ==
    [type : WorkloadTypes, gpuType : STRING, gpus : Nat \ {0}, prio : Priorities,
     spot : BOOLEAN, submitted : Nat, replicas : Nat, duration : Nat]

ASSUME IdsAssumption ==
    /\ WorkloadIds \subseteq Nat /\ IsFiniteSet(WorkloadIds)
    /\ NodeIds \subseteq Nat /\ IsFiniteSet(NodeIds)

ASSUME RequestsAssumption ==
    /\ Requests \subseteq Attributes
    /\ NoRequest \notin Attributes

ASSUME FleetAssumption ==
    Fleet \in [NodeIds -> [gpuType : STRING, class : CapacityClasses, total : Nat]]

\* What one replica of each workload of S holds, r giving the requests: pairs
\* of a workload and one of its GPUs.  Counting the pairs replaces a sum.
Slots(r, S) == UNION {{w} \X (1 .. r[w].gpus) : w \in S}
GPUs(r, S)  == Cardinality(Slots(r, S))

\* The GPUs that the seeded workloads hold on node n.
SeedGPUs(n) == GPUs(SeedRequest, {w \in DOMAIN SeedRequest : n \in SeedHosts[w]})

\* The fixture is itself a legal placement.
ASSUME SeedAssumption ==
    /\ DOMAIN SeedRequest \subseteq WorkloadIds
    /\ SeedRequest \in [DOMAIN SeedRequest -> Attributes]
    /\ SeedHosts \in [DOMAIN SeedRequest -> SUBSET NodeIds]
    /\ SeedHealth \in [NodeIds -> NodeHealths]
    /\ SeedPhantom \in [NodeIds -> Nat]
    /\ \A w \in DOMAIN SeedRequest :
          /\ Cardinality(SeedHosts[w]) <= 1
          /\ \A n \in SeedHosts[w] :
                /\ SeedHealth[n] = "healthy"
                /\ Fleet[n].gpuType = SeedRequest[w].gpuType
                /\ SpotCompatible(SeedRequest[w], Fleet[n])
    /\ \A n \in NodeIds :
          /\ SeedPhantom[n] + SeedGPUs(n) <= Fleet[n].total
          /\ SeedHealth[n] = "failed" => SeedPhantom[n] = 0
------------------------------------------------------------------------------
(* Derived state *)

GPUsOf(S) == GPUs(req, S)

\* workloadTargetsNode: the workloads with a replica on node n.
HostedOn(n) == {w \in WorkloadIds : n \in hosts[w]}

Pending == {w \in WorkloadIds : state[w] = "pending"}

Present == {n \in NodeIds : health[n] # "absent"}

\* toSchedulerNode: what the policy sees of a node.
NodeView(n) ==
    [gpuType |-> Fleet[n].gpuType, class |-> Fleet[n].class,
     total |-> Fleet[n].total, alloc |-> alloc[n], health |-> health[n]]

Nodes == [n \in Present |-> NodeView(n)]

\* domain.Node.FreeGPUs: unlike the policy's, never below zero.
NodeFreeGPUs(n) == AtLeast(0, Fleet[n].total - alloc[n])

\* normalizeInferenceReplicas, and the single placement of the other types.
Replicas(w) == IF req[w].type = "inference" THEN AtLeast(1, req[w].replicas) ELSE 1
------------------------------------------------------------------------------
(* Victim selection *)

\* prioritySpotCompatible: the store's own copy of the policy of Scheduler.
PrioritySpotCompatible(w, n) ==
    \/ n.class = "on_demand"
    \/ w.spot /\ w.type # "training"

\* The order in which running workloads are given up.
VictimBefore(u, v) ==
    LET Key(x) == << PriorityRank(req[x].prio), -req[x].gpus,
                     -req[x].submitted, x >>
    IN  LexLess(Key(u), Key(v))

\* Variant: one victim more when the first ones hold exactly what is needed.
PrefixOneMore(C, need) ==
    {v \in C : GPUsOf({u \in C : VictimBefore(u, v)}) <= need}

\* The shortest prefix of C, in that order, that holds at least need GPUs;
\* all of C when C holds fewer.  GPUs that are free already do not count.
Prefix(C, need) ==
    {v \in C : GPUsOf({u \in C : VictimBefore(u, v)}) < need}

\* Variant: equal priorities preempt each other.
GivesWayAmongEquals(v, w, how) ==
    \/ /\ how = "preempt"
       /\ PriorityRank(req[v].prio) <= PriorityRank(req[w].prio)
    \/ /\ how = "rebalance"
       /\ req[v].type = "batch" /\ req[v].prio = req[w].prio

\* Which running workloads v may have to make room for w.
GivesWay(v, w, how) ==
    \/ /\ how = "preempt"
       /\ PriorityRank(req[v].prio) < PriorityRank(req[w].prio)
    \/ /\ how = "rebalance"
       /\ req[v].type = "batch" /\ req[v].prio = req[w].prio

\* selectPreemptableVictims and selectBatchVictims.
VictimsOn(w, n, how) ==
    Prefix({v \in HostedOn(n) : state[v] = "running" /\ GivesWay(v, w, how)},
           req[w].gpus)

\* The node as it would be once the victims are gone.
ReclaimedView(w, n, how) ==
    [NodeView(n) EXCEPT !.alloc = AtLeast(0, @ - GPUsOf(VictimsOn(w, n, how)))]

\* The build...CandidateLocked functions, and the guards of their callers:
\* inference never preempts, and rebalances only a single replica.
ReclaimNodes(w, how) ==
    {n \in Present :
        /\ \/ how = "preempt" /\ req[w].type # "inference"
                              /\ PriorityRank(req[w].prio) > PriorityRank("low")
           \/ how = "rebalance" /\ req[w].type # "batch" /\ Replicas(w) = 1
        /\ health[n] = "healthy"
        /\ Fleet[n].gpuType = req[w].gpuType
        /\ PrioritySpotCompatible(req[w], Fleet[n])
        /\ VictimsOn(w, n, how) # {}
        /\ NodeFreeGPUs(n) + GPUsOf(VictimsOn(w, n, how)) >= req[w].gpus}

\* Fewest victims, then fewest GPUs taken back, then the placement score.
ReclaimBefore(w, m, n, how) ==
    LET Key(x) == LET V == VictimsOn(w, x, how)
                  IN  << Cardinality(V), GPUsOf(V),
                         PlacementScore(req[w], ReclaimedView(w, x, how)), x >>
    IN  LexLess(Key(m), Key(n))
------------------------------------------------------------------------------
(* scheduleWorkloadLocked, by outcome.  It leaves req and health alone. *)

\* Enough nodes fit: one replica on each.
Place(w) ==
    LET chosen == Decide(req[w], Nodes, Replicas(w)) IN
    /\ Cardinality(chosen) = Replicas(w)
    /\ state' = [state EXCEPT ![w] = "running"]
    /\ hosts' = [hosts EXCEPT ![w] = chosen]
    /\ left' = [left EXCEPT ![w] = req[w].duration]
    /\ alloc' = [n \in NodeIds |->
                    IF n \in chosen THEN alloc[n] + req[w].gpus ELSE alloc[n]]
    /\ running' = [n \in NodeIds |->
                    IF n \in chosen THEN running[n] \cup {w} ELSE running[n]]

\* Variant: one lost replica queues the whole service.
EvictedStateAll(V, n) ==
    [v \in WorkloadIds |-> IF v \in V THEN "pending" ELSE state[v]]

\* evictWorkloadFromNodeLocked for the workloads V on node n: an inference
\* service with replicas elsewhere runs on, everything else is queued again.
\* Either way UpdatedAt, hence the deadline, is reset.
EvictedState(V, n) ==
    [v \in WorkloadIds |->
        IF v \in V /\ hosts[v] = {n} THEN "pending" ELSE state[v]]
EvictedHosts(V, n) ==
    [v \in WorkloadIds |-> IF v \in V THEN hosts[v] \ {n} ELSE hosts[v]]
EvictedLeft(V) ==
    [v \in WorkloadIds |-> IF v \in V THEN req[v].duration ELSE left[v]]

\* tryPriorityPreemption and trySamePriorityBatchRebalance: w takes the place
\* of the victims on the best node.
Reclaim(w, how) ==
    \E n \in ReclaimNodes(w, how) :
        LET V == VictimsOn(w, n, how) IN
        /\ \A m \in ReclaimNodes(w, how) \ {n} : ReclaimBefore(w, n, m, how)
        /\ state' = [EvictedState(V, n) EXCEPT ![w] = "running"]
        /\ hosts' = [EvictedHosts(V, n) EXCEPT ![w] = {n}]
        /\ left' = [EvictedLeft(V) EXCEPT ![w] = req[w].duration]
        /\ alloc' = [alloc EXCEPT ![n] = AtLeast(0, @ - GPUsOf(V)) + req[w].gpus]
        /\ running' = [running EXCEPT ![n] = (@ \ V) \cup {w}]

Fits(w) == Cardinality(Decide(req[w], Nodes, Replicas(w))) = Replicas(w)

ScheduleLocked(w) ==
    /\ UNCHANGED << req, health >>
    /\ \/ Place(w)
       \/ ~Fits(w) /\ Reclaim(w, "preempt")
       \/ ~Fits(w) /\ ReclaimNodes(w, "preempt") = {} /\ Reclaim(w, "rebalance")
       \/ \* queued, with a fresh UpdatedAt
          /\ ~Fits(w)
          /\ ReclaimNodes(w, "preempt") = {} /\ ReclaimNodes(w, "rebalance") = {}
          /\ UNCHANGED << state, hosts, left, alloc, running >>
------------------------------------------------------------------------------
(* The operations *)

LockFree == todo = {}

\* Variants: the pass takes the running workloads too; the pass takes the
\* queue as it was before the operation changed it.
BeginPassWithRunning ==
    /\ todo' = {w \in WorkloadIds : state'[w] \in {"pending", "running"}}
    /\ preempted' = FALSE

BeginPassOnOldQueue ==
    /\ todo' = Pending
    /\ preempted' = FALSE

\* schedulePendingLocked: the workloads to try are fixed when the pass starts.
BeginPass ==
    /\ todo' = Pending'
    /\ preempted' = FALSE

PassStep ==
    \E w \in todo :
        /\ \A u \in todo \ {w} : WorkloadLess(req[w], w, req[u], u)
        /\ ScheduleLocked(w)
        /\ todo' = todo \ {w}
        /\ preempted' = /\ todo' # {}
                        /\ preempted \/ \E v \in WorkloadIds : ~(hosts[v] \subseteq hosts'[v])

SchedulePendingWorkloads ==
    /\ LockFree
    /\ UNCHANGED << workloadVars, nodeVars >>
    /\ BeginPass

ScheduleWorkload(w) ==
    /\ LockFree
    /\ state[w] = "pending"
    /\ ScheduleLocked(w)
    /\ UNCHANGED passVars

CreateWorkload(w, r) ==
    /\ LockFree
    /\ state[w] = "absent"
    /\ state' = [state EXCEPT ![w] = "pending"]
    /\ req' = [req EXCEPT ![w] = r]
    /\ left' = [left EXCEPT ![w] = r.duration]
    /\ UNCHANGED << hosts, nodeVars, passVars >>

\* evictNodeWorkloadsLocked, then the node is failed, then a pass.
Disrupt(n) ==
    /\ LockFree
    /\ n \in Present
    /\ state' = EvictedState(HostedOn(n), n)
    /\ hosts' = EvictedHosts(HostedOn(n), n)
    /\ left' = EvictedLeft(HostedOn(n))
    /\ health' = [health EXCEPT ![n] = "failed"]
    /\ alloc' = [alloc EXCEPT ![n] = 0]
    /\ running' = [running EXCEPT ![n] = {}]
    /\ BeginPass
    /\ UNCHANGED req

FailNode(n) == Disrupt(n)

PreemptSpotNode(n) == Fleet[n].class = "spot" /\ Disrupt(n)

RecoverNode(n) ==
    /\ LockFree
    /\ n \in Present
    /\ health' = [health EXCEPT ![n] = "healthy"]
    /\ UNCHANGED << workloadVars, alloc, running >>
    /\ BeginPass

\* UpdateNode, with the update the reconciliation loop applies.
HealNode(n) ==
    /\ LockFree
    /\ health[n] = "recovering"
    /\ health' = [health EXCEPT ![n] = "healthy"]
    /\ UNCHANGED << workloadVars, alloc, running, passVars >>

Expired ==
    {w \in WorkloadIds : /\ state[w] = "running"
                         /\ req[w].duration > 0
                         /\ left[w] = 0}

\* Variant: only one replica gives its GPUs back.
ReleasedOfOneReplica(n) ==
    GPUsOf({w \in Expired \cap HostedOn(n) : \A m \in hosts[w] : n <= m})

\* What completion gives back on node n: every replica's GPUs.
Released(n) == GPUsOf(Expired \cap HostedOn(n))

CompleteExpiredWorkloads ==
    /\ LockFree
    /\ state' = [w \in WorkloadIds |-> IF w \in Expired THEN "completed" ELSE state[w]]
    /\ hosts' = [w \in WorkloadIds |-> IF w \in Expired THEN {} ELSE hosts[w]]
    /\ alloc' = [n \in NodeIds |-> AtLeast(0, alloc[n] - Released(n))]
    /\ running' = [n \in NodeIds |-> running[n] \ (Expired \cap HostedOn(n))]
    /\ UNCHANGED << req, left, health, passVars >>

Clear ==
    /\ LockFree
    /\ state' = [w \in WorkloadIds |-> "absent"]
    /\ req' = [w \in WorkloadIds |-> NoRequest]
    /\ hosts' = [w \in WorkloadIds |-> {}]
    /\ left' = [w \in WorkloadIds |-> 0]
    /\ health' = [n \in NodeIds |-> "absent"]
    /\ alloc' = [n \in NodeIds |-> 0]
    /\ running' = [n \in NodeIds |-> {}]
    /\ UNCHANGED passVars

\* Variant: the fixture is added to the queue there is.
SeedDemoDataBesideQueue ==
    LET ids  == DOMAIN SeedRequest
        kept == Pending \ ids IN
    /\ LockFree
    /\ state' = [w \in WorkloadIds |-> IF w \in kept THEN "pending"
                                       ELSE IF w \notin ids THEN "absent"
                                       ELSE IF SeedHosts[w] = {} THEN "pending"
                                       ELSE "running"]
    /\ req' = [w \in WorkloadIds |-> IF w \in kept THEN req[w]
                                     ELSE IF w \in ids THEN SeedRequest[w] ELSE NoRequest]
    /\ hosts' = [w \in WorkloadIds |-> IF w \in ids THEN SeedHosts[w] ELSE {}]
    /\ left' = [w \in WorkloadIds |-> IF w \in ids THEN SeedRequest[w].duration ELSE 0]
    /\ health' = SeedHealth
    /\ alloc' = [n \in NodeIds |-> SeedPhantom[n] + SeedGPUs(n)]
    /\ running' = [n \in NodeIds |-> {w \in ids : n \in SeedHosts[w]}]
    /\ UNCHANGED passVars

\* resetLocked, then the demo fixture.
SeedDemoData ==
    LET ids == DOMAIN SeedRequest IN
    /\ LockFree
    /\ state' = [w \in WorkloadIds |-> IF w \notin ids THEN "absent"
                                       ELSE IF SeedHosts[w] = {} THEN "pending"
                                       ELSE "running"]
    /\ req' = [w \in WorkloadIds |-> IF w \in ids THEN SeedRequest[w] ELSE NoRequest]
    /\ hosts' = [w \in WorkloadIds |-> IF w \in ids THEN SeedHosts[w] ELSE {}]
    /\ left' = [w \in WorkloadIds |-> IF w \in ids THEN SeedRequest[w].duration ELSE 0]
    /\ health' = SeedHealth
    /\ alloc' = [n \in NodeIds |-> SeedPhantom[n] + SeedGPUs(n)]
    /\ running' = [n \in NodeIds |-> {w \in ids : n \in SeedHosts[w]}]
    /\ UNCHANGED passVars

\* External: one unit of time goes by between two operations.
Tick ==
    /\ LockFree
    /\ left' = [w \in WorkloadIds |-> IF state[w] = "running"
                                      THEN AtLeast(0, left[w] - 1) ELSE left[w]]
    /\ UNCHANGED << state, req, hosts, nodeVars, passVars >>

\* NewMemoryStore.  NewSeededMemoryStore is this followed by SeedDemoData.
Init ==
    /\ state = [w \in WorkloadIds |-> "absent"]
    /\ req = [w \in WorkloadIds |-> NoRequest]
    /\ hosts = [w \in WorkloadIds |-> {}]
    /\ left = [w \in WorkloadIds |-> 0]
    /\ health = [n \in NodeIds |-> "absent"]
    /\ alloc = [n \in NodeIds |-> 0]
    /\ running = [n \in NodeIds |-> {}]
    /\ todo = {}
    /\ preempted = FALSE

Next ==
    \/ \E w \in WorkloadIds, r \in Requests : CreateWorkload(w, r)
    \/ \E w \in WorkloadIds : ScheduleWorkload(w)
    \/ SchedulePendingWorkloads
    \/ PassStep
    \/ \E n \in NodeIds : FailNode(n)
    \/ \E n \in NodeIds : PreemptSpotNode(n)
    \/ \E n \in NodeIds : RecoverNode(n)
    \/ \E n \in NodeIds : HealNode(n)
    \/ CompleteExpiredWorkloads
    \/ Tick
    \/ Clear
    \/ SeedDemoData

Spec == Init /\ [][Next]_vars
------------------------------------------------------------------------------
(* What must hold *)

\* The workloads and the nodes have their types, and whatever is in the store
\* was asked for.
StoreTypeOK ==
    /\ state \in [WorkloadIds -> {"absent", "pending", "running", "completed"}]
    /\ req \in [WorkloadIds -> Attributes \cup {NoRequest}]
    /\ \A w \in WorkloadIds : req[w] = NoRequest <=> state[w] = "absent"
    /\ hosts \in [WorkloadIds -> SUBSET NodeIds]
    /\ left \in [WorkloadIds -> Nat]
    /\ health \in [NodeIds -> NodeHealths \cup {"absent"}]
    /\ alloc \in [NodeIds -> Nat]
    /\ running \in [NodeIds -> SUBSET WorkloadIds]

\* Every variable has its type, and what a pass still has to try is pending.
TypeOK ==
    /\ StoreTypeOK
    /\ todo \subseteq Pending
    /\ preempted \in BOOLEAN

\* The two directions of the placement agree, at every point of every
\* operation: a workload runs exactly when it has a host, each node lists
\* exactly the workloads placed on it, and only inference has several hosts.
\* workloads and nodes are written separately by six functions of memory.go.
PlacementConsistent ==
    /\ \A w \in WorkloadIds : hosts[w] # {} <=> state[w] = "running"
    /\ \A n \in NodeIds : running[n] = HostedOn(n)
    /\ \A w \in WorkloadIds : state[w] = "running" =>
          Cardinality(hosts[w]) <= Replicas(w)

\* Whatever runs, runs where its policy allows it: on a present, healthy node
\* of its GPU type, and on spot capacity only if it tolerates that.  Health
\* changes under running work, placement is decided in three places.
PolicyRespected ==
    \A w \in WorkloadIds : \A n \in hosts[w] :
        /\ health[n] = "healthy"
        /\ Fleet[n].gpuType = req[w].gpuType
        /\ SpotCompatible(req[w], Fleet[n])

\* AllocatedGPUs is the sum of what the hosted workloads hold, plus at most
\* the GPUs the demo fixture allocates to no workload; it never exceeds the
\* node.  The code keeps it incrementally and clamps it at zero, so that a
\* double release would go unnoticed.
AllocationAccounted ==
    \A n \in NodeIds :
        /\ alloc[n] \in {GPUsOf(HostedOn(n)), SeedPhantom[n] + GPUsOf(HostedOn(n))}
        /\ alloc[n] <= Fleet[n].total

\* What a scheduling decision took: replicas that disappear without their node
\* failing, and without the workload or the store coming to an end.
Displaced(v) ==
    /\ ~SeedDemoData
    /\ state[v] = "running" /\ state'[v] \in {"running", "pending"}
    /\ health' = health
    /\ ~(hosts[v] \subseteq hosts'[v])

\* GPUs are taken back only for a workload that starts in the same step and
\* that goes before the victim in the queue order.  So a pass, which visits
\* workloads in that order, never undoes what it placed itself, and two
\* workloads never evict each other in turn.  The victims are chosen with
\* priorities and types, the order with WorkloadLess: nothing ties the two.
EvictionRespectsQueueOrder ==
    [][\A v \in WorkloadIds : Displaced(v) =>
          \E w \in WorkloadIds :
             /\ state[w] = "pending" /\ state'[w] = "running"
             /\ WorkloadLess(req[w], w, req[v], v)]_vars

\* Preemption is "intentionally conservative" (APPROACH.md:106): of those who
\* are displaced for w there is one without whom they would not hold the GPUs
\* that w has asked for.  Victims are counted on every node while the node is
\* chosen, and again to choose the nodes that qualify.
EvictionBounded ==
    [][\A w \in WorkloadIds :
          LET D == {v \in WorkloadIds : Displaced(v)} IN
          state[w] = "pending" /\ state'[w] = "running" /\ D # {}
             => \E v \in D : GPUsOf(D \ {v}) < req[w].gpus]_vars

\* A pass that takes nothing back leaves nothing queued that would fit: the
\* placements it makes later only shrink what an earlier refusal looked at.
PassIsWorkConserving ==
    [][(/\ todo # {} /\ todo' = {} /\ ~preempted
        /\ \A v \in WorkloadIds : hosts[v] \subseteq hosts'[v])
       => \A w \in WorkloadIds : ~(state[w] = "pending" /\ Fits(w))']_vars

\* The refinement mapping: what of the store the ledger sees.
Sizes     == [w \in WorkloadIds |-> IF state[w] = "absent" THEN 0 ELSE req[w].gpus]
Totals    == [n \in NodeIds |-> Fleet[n].total]
Completed == {w \in WorkloadIds : state[w] = "completed"}

SeedSizes ==
    [w \in WorkloadIds |-> IF w \in DOMAIN SeedRequest THEN SeedRequest[w].gpus ELSE 0]
SeedHeld  == [n \in NodeIds |-> {w \in DOMAIN SeedRequest : n \in SeedHosts[w]}]

L == INSTANCE Ledger WITH
        Holders <- WorkloadIds, Places <- NodeIds, Capacity <- Totals,
        SizeAtHand <- SeedSizes, HeldAtHand <- SeedHeld,
        size <- Sizes, held <- running, finished <- Completed

\* Seen as a ledger of GPUs, every operation is one kind of entry: a workload
\* gets all its GPUs at once, or those of victims on one node in the step that
\* evicts them; none moves, none gets a replica later; what is completed has
\* given everything back and never returns; and the data are replaced by nothing
\* or by the fixture, never in part.
ImplementsLedger == L!Spec

(* What the documents say and the code does not do *)

\* plans/002-task-checkpoints.md:209, "Disrupted workloads are requeued and
\* immediately rescheduled when capacity exists": between operations, a service
\* that lost replicas has no eligible node it could get one back on.  The
\* evicted replica is dropped, and running work is never scheduled again.
LostReplicasReplaced ==
    LockFree => \A w \in WorkloadIds :
        state[w] = "running" /\ Cardinality(hosts[w]) < Replicas(w) =>
            \A n \in Present \ hosts[w] : ~EligibleNode(req[w], NodeView(n))
==============================================================================
