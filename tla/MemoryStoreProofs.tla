-------------------------- MODULE MemoryStoreProofs --------------------------
(***************************************************************************)
(* Proofs about MemoryStore, for every fleet, every set of identifiers and *)
(* every set of requests: the accounting of GPUs, and the inductive        *)
(* invariant that the safety properties follow from.                       *)
(***************************************************************************)
EXTENDS MemoryStore, FiniteSetTheorems, TLAPS

------------------------------------------------------------------------------
(* Counting GPUs *)

\* The requests of the workloads of S have a number of GPUs.
Counted(r, S) == IsFiniteSet(S) /\ \A w \in S : r[w].gpus \in Nat

\* Finitely many workloads hold finitely many GPUs.
LEMMA SlotsFinite ==
    ASSUME NEW r, NEW S, Counted(r, S)
    PROVE  IsFiniteSet(Slots(r, S)) /\ GPUs(r, S) \in Nat
<1> DEFINE held == [w \in S |-> {w} \X (1 .. r[w].gpus)]
           T == {held[w] : w \in S}
<1>1. held \in Surjection(S, T)
  BY DEF Surjection
<1>2. IsFiniteSet(T)
  BY <1>1, FS_Surjection DEF Counted
<1>3. \A U \in T : IsFiniteSet(U)
  <2> SUFFICES ASSUME NEW w \in S PROVE IsFiniteSet({w} \X (1 .. r[w].gpus))
    OBVIOUS
  <2>1. IsFiniteSet({w})
    BY FS_Singleton
  <2>2. IsFiniteSet(1 .. r[w].gpus)
    BY FS_Interval DEF Counted
  <2> QED BY <2>1, <2>2, FS_Product
<1>4. IsFiniteSet(UNION T)
  BY <1>2, <1>3, FS_UNION
<1>5. UNION T = Slots(r, S)
  BY DEF Slots
<1> QED BY <1>4, <1>5, FS_CardinalityType DEF GPUs

\* Nobody holds nothing.
LEMMA GPUsOfNobody == ASSUME NEW r PROVE GPUs(r, {}) = 0
<1>1. Slots(r, {}) = {}
  BY DEF Slots
<1> QED BY <1>1, FS_EmptySet DEF GPUs

\* One workload holds what its request says.
LEMMA GPUsOfOne ==
    ASSUME NEW r, NEW w, r[w].gpus \in Nat
    PROVE  GPUs(r, {w}) = r[w].gpus
<1>1. Slots(r, {w}) = {w} \X (1 .. r[w].gpus)
  BY DEF Slots
<1>2. IsFiniteSet({w}) /\ Cardinality({w}) = 1
  BY FS_Singleton
<1>3. IsFiniteSet(1 .. r[w].gpus) /\ Cardinality(1 .. r[w].gpus) = r[w].gpus
  <2> DEFINE g == r[w].gpus
  <2>1. g \in Int /\ 1 \in Int
    OBVIOUS
  <2>2. /\ IsFiniteSet(1 .. g)
        /\ Cardinality(1 .. g) = IF 1 > g THEN 0 ELSE g - 1 + 1
    <3> HIDE DEF g
    <3> QED BY <2>1, FS_Interval
  <2> QED BY <2>2
<1>4. Cardinality({w} \X (1 .. r[w].gpus)) = 1 * r[w].gpus
  BY <1>2, <1>3, FS_Product
<1> QED BY <1>1, <1>4 DEF GPUs

\* Disjoint sets of workloads hold disjoint sets of GPUs.
LEMMA GPUsOfDisjoint ==
    ASSUME NEW r, NEW A, NEW B, Counted(r, A), Counted(r, B), A \cap B = {}
    PROVE  GPUs(r, A \cup B) = GPUs(r, A) + GPUs(r, B)
<1>1. Slots(r, A \cup B) = Slots(r, A) \cup Slots(r, B)
  BY DEF Slots
<1>2. Slots(r, A) \cap Slots(r, B) = {}
  BY DEF Slots
<1>3. /\ IsFiniteSet(Slots(r, A)) /\ GPUs(r, A) \in Nat
      /\ IsFiniteSet(Slots(r, B)) /\ GPUs(r, B) \in Nat
  BY SlotsFinite
<1>4. Cardinality(Slots(r, A) \cap Slots(r, B)) = 0
  BY <1>2, FS_EmptySet
<1>5. Cardinality(Slots(r, A) \cup Slots(r, B))
        = GPUs(r, A) + GPUs(r, B) - Cardinality(Slots(r, A) \cap Slots(r, B))
  BY <1>3, FS_Union DEF GPUs
<1>6. Cardinality(Slots(r, A) \cup Slots(r, B)) = GPUs(r, A) + GPUs(r, B)
  BY <1>3, <1>4, <1>5
<1> QED BY <1>1, <1>6 DEF GPUs

\* Taking workloads away takes their GPUs away, and no more than there were.
LEMMA GPUsOfDifference ==
    ASSUME NEW r, NEW A, NEW B, Counted(r, A), B \subseteq A
    PROVE  /\ GPUs(r, A) \in Nat /\ GPUs(r, B) \in Nat /\ GPUs(r, A \ B) \in Nat
           /\ GPUs(r, A \ B) = GPUs(r, A) - GPUs(r, B)
<1>1. Counted(r, B) /\ Counted(r, A \ B)
  BY FS_Subset DEF Counted
<1>2. GPUs(r, (A \ B) \cup B) = GPUs(r, A \ B) + GPUs(r, B)
  BY <1>1, GPUsOfDisjoint
<1>3. (A \ B) \cup B = A
  OBVIOUS
<1> QED BY <1>1, <1>2, <1>3, SlotsFinite

\* Adding a workload adds its GPUs.
LEMMA GPUsOfMore ==
    ASSUME NEW r, NEW A, NEW w, Counted(r, A), w \notin A, r[w].gpus \in Nat
    PROVE  GPUs(r, A \cup {w}) = GPUs(r, A) + r[w].gpus
<1>1. Counted(r, {w})
  BY FS_Singleton DEF Counted
<1>2. A \cap {w} = {}
  OBVIOUS
<1>3. GPUs(r, A \cup {w}) = GPUs(r, A) + GPUs(r, {w})
  BY <1>1, <1>2, GPUsOfDisjoint
<1> QED BY <1>3, GPUsOfOne

\* Only the requests of the workloads counted matter.
LEMMA GPUsOfSame ==
    ASSUME NEW r, NEW q, NEW S, \A w \in S : r[w] = q[w]
    PROVE  GPUs(r, S) = GPUs(q, S)
<1>1. Slots(r, S) = Slots(q, S)
  BY DEF Slots
<1> QED BY <1>1 DEF GPUs
------------------------------------------------------------------------------
(* The inductive invariant *)

\* The workloads and the nodes of the store are in order.
StoreInv ==
    /\ StoreTypeOK
    /\ PlacementConsistent
    /\ PolicyRespected
    /\ AllocationAccounted

\* The conjunction of the safety invariants: none of them is inductive alone.
IInv == StoreInv /\ TypeOK

\* What the store says of a workload that is in it.
LEMMA RequestFacts ==
    ASSUME StoreInv, NEW w \in WorkloadIds, state[w] # "absent"
    PROVE  /\ req[w] \in Attributes
           /\ req[w].gpus \in Nat \ {0}
           /\ req[w].duration \in Nat
           /\ Replicas(w) \in Nat /\ Replicas(w) >= 1
<1>1. req[w] \in Attributes
  BY DEF StoreInv, StoreTypeOK
<1> QED BY <1>1 DEF Attributes, Replicas, AtLeast

\* What a set of running workloads holds can be counted.
LEMMA RunningCounted ==
    ASSUME StoreInv, NEW S \in SUBSET WorkloadIds, \A w \in S : state[w] = "running"
    PROVE  Counted(req, S) /\ GPUsOf(S) \in Nat
<1>1. IsFiniteSet(S)
  BY IdsAssumption, FS_Subset
<1>2. \A w \in S : req[w].gpus \in Nat
  BY RequestFacts
<1> QED BY <1>1, <1>2, SlotsFinite DEF Counted, GPUsOf

\* The workloads hosted on a node all run, and can be counted.
LEMMA HostedRuns ==
    ASSUME StoreInv, NEW n \in NodeIds
    PROVE  /\ HostedOn(n) \subseteq WorkloadIds
           /\ \A w \in HostedOn(n) : state[w] = "running" /\ req[w] # NoRequest
           /\ Counted(req, HostedOn(n)) /\ GPUsOf(HostedOn(n)) \in Nat
<1>1. \A w \in HostedOn(n) : state[w] = "running" /\ req[w] # NoRequest
  BY DEF HostedOn, StoreInv, PlacementConsistent, StoreTypeOK
<1>2. HostedOn(n) \subseteq WorkloadIds
  BY DEF HostedOn
<1> QED BY <1>1, <1>2, RunningCounted

\* What an eligible node is, in terms of the store's variables.
LEMMA EligibleFacts ==
    ASSUME StoreInv, NEW w \in WorkloadIds, NEW k,
           NEW n \in Decide(req[w], Nodes, k)
    PROVE  /\ n \in NodeIds
           /\ health[n] = "healthy"
           /\ Fleet[n].gpuType = req[w].gpuType
           /\ SpotCompatible(req[w], Fleet[n])
           /\ Fleet[n].total - alloc[n] >= req[w].gpus
<1>1. n \in Present /\ EligibleNode(req[w], NodeView(n))
  BY DEF Decide, Nodes
<1> QED BY <1>1 DEF Present, EligibleNode, NodeView, FreeGPUs, SpotCompatible

\* Place keeps the store in order, and takes only w out of the queue.
LEMMA PlacePreserves ==
    ASSUME StoreInv, NEW w \in Pending, Place(w), UNCHANGED << req, health >>
    PROVE  StoreInv' /\ Pending \ {w} \subseteq Pending'
<1> DEFINE chosen == Decide(req[w], Nodes, Replicas(w))
<1>1. /\ w \in WorkloadIds /\ state[w] = "pending" /\ hosts[w] = {}
      /\ req[w] \in Attributes /\ req[w].gpus \in Nat \ {0}
      /\ req[w].duration \in Nat
      /\ Replicas(w) \in Nat /\ Replicas(w) >= 1
  BY RequestFacts DEF Pending, StoreInv, PlacementConsistent
<1>2. \A n \in chosen : /\ n \in NodeIds
                        /\ health[n] = "healthy"
                        /\ Fleet[n].gpuType = req[w].gpuType
                        /\ SpotCompatible(req[w], Fleet[n])
                        /\ Fleet[n].total - alloc[n] >= req[w].gpus
  BY <1>1, EligibleFacts
<1>3. /\ Cardinality(chosen) = Replicas(w)
      /\ state' = [state EXCEPT ![w] = "running"]
      /\ hosts' = [hosts EXCEPT ![w] = chosen]
      /\ left' = [left EXCEPT ![w] = req[w].duration]
      /\ alloc' = [n \in NodeIds |->
                      IF n \in chosen THEN alloc[n] + req[w].gpus ELSE alloc[n]]
      /\ running' = [n \in NodeIds |->
                      IF n \in chosen THEN running[n] \cup {w} ELSE running[n]]
      /\ req' = req /\ health' = health
  BY DEF Place
<1> HIDE DEF chosen
<1>4. chosen # {}
  <2>1. chosen = {} => Cardinality(chosen) = 0
    BY FS_EmptySet
  <2>2. Cardinality(chosen) # 0
    BY <1>1, <1>3
  <2> QED BY <2>1, <2>2
<1>5. StoreTypeOK'
  BY <1>1, <1>2, <1>3 DEF StoreInv, StoreTypeOK
<1>6. \A n \in NodeIds : HostedOn(n)' = IF n \in chosen THEN HostedOn(n) \cup {w}
                                                        ELSE HostedOn(n)
  BY <1>1, <1>3 DEF HostedOn, StoreInv, StoreTypeOK
<1>7. PlacementConsistent'
  <2>1. \A v \in WorkloadIds : hosts'[v] # {} <=> state'[v] = "running"
    BY <1>1, <1>3, <1>4 DEF StoreInv, StoreTypeOK, PlacementConsistent
  <2>2. \A n \in NodeIds : running'[n] = HostedOn(n)'
    BY <1>3, <1>6 DEF StoreInv, PlacementConsistent
  <2>3. ASSUME NEW v \in WorkloadIds, state'[v] = "running"
        PROVE  Cardinality(hosts'[v]) <= Replicas(v)'
    <3>1. Replicas(v)' = Replicas(v)
      BY <1>3 DEF Replicas
    <3>2. CASE v = w
      BY <1>1, <1>3, <3>1, <3>2 DEF StoreInv, StoreTypeOK
    <3>3. CASE v # w
      BY <1>3, <2>3, <3>1, <3>3 DEF StoreInv, StoreTypeOK, PlacementConsistent
    <3> QED BY <3>2, <3>3
  <2> QED BY <2>1, <2>2, <2>3 DEF PlacementConsistent
<1>8. PolicyRespected'
  BY <1>1, <1>2, <1>3 DEF StoreInv, StoreTypeOK, PolicyRespected, SpotCompatible
<1>9. AllocationAccounted'
  <2> SUFFICES ASSUME NEW n \in NodeIds
               PROVE  /\ alloc'[n] \in {GPUsOf(HostedOn(n))',
                                        SeedPhantom[n] + GPUsOf(HostedOn(n))'}
                      /\ alloc'[n] <= Fleet[n].total
    BY DEF AllocationAccounted
  <2>1. /\ alloc[n] \in {GPUsOf(HostedOn(n)), SeedPhantom[n] + GPUsOf(HostedOn(n))}
        /\ alloc[n] <= Fleet[n].total /\ alloc[n] \in Nat
        /\ Fleet[n].total \in Nat /\ SeedPhantom[n] \in Nat
    BY FleetAssumption, SeedAssumption DEF StoreInv, StoreTypeOK, AllocationAccounted
  <2>2. CASE n \in chosen
    <3>1. w \notin HostedOn(n)
      BY <1>1 DEF HostedOn
    <3>2. GPUsOf(HostedOn(n))' = GPUsOf(HostedOn(n)) + req[w].gpus
      BY <1>1, <1>3, <1>6, <2>2, <3>1, HostedRuns, GPUsOfMore DEF GPUsOf
    <3> QED BY <1>1, <1>2, <1>3, <2>1, <2>2, <3>2, HostedRuns
  <2>3. CASE n \notin chosen
    <3>1. GPUsOf(HostedOn(n))' = GPUsOf(HostedOn(n))
      BY <1>3, <1>6, <2>3 DEF GPUsOf
    <3> QED BY <1>3, <2>1, <2>3, <3>1
  <2> QED BY <2>2, <2>3
<1>10. Pending \ {w} \subseteq Pending'
  BY <1>1, <1>3 DEF Pending, StoreInv, StoreTypeOK
<1> QED BY <1>5, <1>7, <1>8, <1>9, <1>10 DEF StoreInv

\* What a node that can be reclaimed is, and who its victims are.
LEMMA ReclaimFacts ==
    ASSUME StoreInv, NEW w \in WorkloadIds, NEW how,
           NEW n \in ReclaimNodes(w, how)
    PROVE  /\ n \in NodeIds
           /\ health[n] = "healthy"
           /\ Fleet[n].gpuType = req[w].gpuType
           /\ SpotCompatible(req[w], Fleet[n])
           /\ Fleet[n].total - alloc[n] + GPUsOf(VictimsOn(w, n, how)) >= req[w].gpus
           /\ VictimsOn(w, n, how) \subseteq HostedOn(n)
           /\ \A v \in VictimsOn(w, n, how) : GivesWay(v, w, how)
<1>1. n \in NodeIds /\ health[n] = "healthy" /\ Fleet[n].gpuType = req[w].gpuType
  BY DEF ReclaimNodes, Present
<1>2. SpotCompatible(req[w], Fleet[n])
  BY DEF ReclaimNodes, PrioritySpotCompatible, NodeView, SpotCompatible
<1>3. Fleet[n].total - alloc[n] + GPUsOf(VictimsOn(w, n, how)) >= req[w].gpus
  <2>1. Fleet[n].total - alloc[n] >= 0
    BY <1>1, FleetAssumption DEF StoreInv, StoreTypeOK, AllocationAccounted
  <2>2. NodeFreeGPUs(n) = Fleet[n].total - alloc[n]
    BY <1>1, <2>1, FleetAssumption DEF NodeFreeGPUs, AtLeast, StoreInv, StoreTypeOK
  <2> QED BY <2>2 DEF ReclaimNodes
<1>4. \A v \in VictimsOn(w, n, how) : v \in HostedOn(n) /\ GivesWay(v, w, how)
  BY DEF VictimsOn, Prefix
<1> QED BY <1>1, <1>2, <1>3, <1>4

\* A workload that loses a replica either keeps another one or is queued.
LEMMA EvictionOfReplica ==
    ASSUME StoreInv, NEW n \in NodeIds, NEW V \in SUBSET HostedOn(n)
    PROVE  /\ EvictedState(V, n) \in
                [WorkloadIds -> {"absent", "pending", "running", "completed"}]
           /\ EvictedHosts(V, n) \in [WorkloadIds -> SUBSET NodeIds]
           /\ EvictedLeft(V) \in [WorkloadIds -> Nat]
           /\ \A v \in WorkloadIds :
                 /\ EvictedHosts(V, n)[v] # {} <=> EvictedState(V, n)[v] = "running"
                 /\ EvictedState(V, n)[v] = "absent" <=> state[v] = "absent"
                 /\ state[v] = "pending" => EvictedState(V, n)[v] = "pending"
                 /\ EvictedState(V, n)[v] = "running" =>
                       Cardinality(EvictedHosts(V, n)[v]) <= Replicas(v)
<1>1. \A v \in V : v \in WorkloadIds /\ state[v] = "running" /\ n \in hosts[v]
  BY HostedRuns DEF HostedOn
<1>2. /\ EvictedState(V, n) \in
            [WorkloadIds -> {"absent", "pending", "running", "completed"}]
      /\ EvictedHosts(V, n) \in [WorkloadIds -> SUBSET NodeIds]
  BY DEF EvictedState, EvictedHosts, StoreInv, StoreTypeOK
<1>3. EvictedLeft(V) \in [WorkloadIds -> Nat]
  BY <1>1, RequestFacts DEF EvictedLeft, StoreInv, StoreTypeOK
<1>4. ASSUME NEW v \in WorkloadIds
      PROVE  /\ EvictedHosts(V, n)[v] # {} <=> EvictedState(V, n)[v] = "running"
             /\ EvictedState(V, n)[v] = "absent" <=> state[v] = "absent"
             /\ state[v] = "pending" => EvictedState(V, n)[v] = "pending"
  BY <1>1, <1>4 DEF EvictedState, EvictedHosts, StoreInv, StoreTypeOK, PlacementConsistent
<1>5. ASSUME NEW v \in WorkloadIds, EvictedState(V, n)[v] = "running"
      PROVE  Cardinality(EvictedHosts(V, n)[v]) <= Replicas(v)
  <2>1. state[v] = "running"
    BY <1>1, <1>5 DEF EvictedState
  <2>2. /\ hosts[v] \subseteq NodeIds
        /\ Cardinality(hosts[v]) <= Replicas(v)
        /\ Replicas(v) \in Nat
    BY <2>1, RequestFacts DEF StoreInv, StoreTypeOK, PlacementConsistent
  <2>3. IsFiniteSet(hosts[v])
    BY <2>2, IdsAssumption, FS_Subset
  <2>4. EvictedHosts(V, n)[v] \in SUBSET hosts[v]
    BY DEF EvictedHosts
  <2>5. /\ Cardinality(EvictedHosts(V, n)[v]) <= Cardinality(hosts[v])
        /\ IsFiniteSet(EvictedHosts(V, n)[v])
    BY <2>3, <2>4, FS_Subset
  <2> QED BY <2>2, <2>3, <2>5, FS_CardinalityType
<1> QED BY <1>2, <1>3, <1>4, <1>5

\* Reclaim keeps the store in order, and takes only w out of the queue.
LEMMA ReclaimPreserves ==
    ASSUME StoreInv, NEW w \in Pending, NEW how, Reclaim(w, how),
           UNCHANGED << req, health >>
    PROVE  StoreInv' /\ Pending \ {w} \subseteq Pending'
<1>1. /\ w \in WorkloadIds /\ state[w] = "pending" /\ hosts[w] = {}
      /\ req[w] \in Attributes /\ req[w].gpus \in Nat \ {0}
      /\ req[w].duration \in Nat
      /\ Replicas(w) \in Nat /\ Replicas(w) >= 1
  BY RequestFacts DEF Pending, StoreInv, PlacementConsistent
<1>2. PICK n \in ReclaimNodes(w, how) :
         LET V == VictimsOn(w, n, how) IN
         /\ state' = [EvictedState(V, n) EXCEPT ![w] = "running"]
         /\ hosts' = [EvictedHosts(V, n) EXCEPT ![w] = {n}]
         /\ left' = [EvictedLeft(V) EXCEPT ![w] = req[w].duration]
         /\ alloc' = [alloc EXCEPT ![n] = AtLeast(0, @ - GPUsOf(V)) + req[w].gpus]
         /\ running' = [running EXCEPT ![n] = (@ \ V) \cup {w}]
  BY DEF Reclaim
<1> DEFINE V == VictimsOn(w, n, how)
<1>3. /\ n \in NodeIds
      /\ health[n] = "healthy"
      /\ Fleet[n].gpuType = req[w].gpuType
      /\ SpotCompatible(req[w], Fleet[n])
      /\ Fleet[n].total - alloc[n] + GPUsOf(V) >= req[w].gpus
      /\ V \subseteq HostedOn(n)
  BY <1>1, ReclaimFacts
<1>4. /\ state' = [EvictedState(V, n) EXCEPT ![w] = "running"]
      /\ hosts' = [EvictedHosts(V, n) EXCEPT ![w] = {n}]
      /\ left' = [EvictedLeft(V) EXCEPT ![w] = req[w].duration]
      /\ alloc' = [alloc EXCEPT ![n] = AtLeast(0, @ - GPUsOf(V)) + req[w].gpus]
      /\ running' = [running EXCEPT ![n] = (@ \ V) \cup {w}]
      /\ req' = req /\ health' = health
  BY <1>2
<1> HIDE DEF V
<1>5. /\ EvictedState(V, n) \in
            [WorkloadIds -> {"absent", "pending", "running", "completed"}]
      /\ EvictedHosts(V, n) \in [WorkloadIds -> SUBSET NodeIds]
      /\ EvictedLeft(V) \in [WorkloadIds -> Nat]
      /\ \A v \in WorkloadIds :
            /\ EvictedHosts(V, n)[v] # {} <=> EvictedState(V, n)[v] = "running"
            /\ EvictedState(V, n)[v] = "absent" <=> state[v] = "absent"
            /\ state[v] = "pending" => EvictedState(V, n)[v] = "pending"
            /\ EvictedState(V, n)[v] = "running" =>
                  Cardinality(EvictedHosts(V, n)[v]) <= Replicas(v)
  BY <1>3, EvictionOfReplica
<1>6. /\ Counted(req, HostedOn(n))
      /\ GPUsOf(V) \in Nat /\ GPUsOf(HostedOn(n)) \in Nat
      /\ GPUsOf(HostedOn(n) \ V) \in Nat
      /\ GPUsOf(HostedOn(n) \ V) = GPUsOf(HostedOn(n)) - GPUsOf(V)
  BY <1>3, HostedRuns, GPUsOfDifference DEF GPUsOf
<1>7. /\ alloc[n] \in {GPUsOf(HostedOn(n)), SeedPhantom[n] + GPUsOf(HostedOn(n))}
      /\ alloc[n] \in Nat /\ Fleet[n].total \in Nat /\ SeedPhantom[n] \in Nat
  BY <1>3, FleetAssumption, SeedAssumption DEF StoreInv, StoreTypeOK, AllocationAccounted
<1>8. /\ alloc'[n] = alloc[n] - GPUsOf(V) + req[w].gpus
      /\ alloc'[n] \in Nat
      /\ \A m \in NodeIds \ {n} : alloc'[m] = alloc[m]
  BY <1>1, <1>3, <1>4, <1>6, <1>7 DEF AtLeast, StoreInv, StoreTypeOK
<1>9. StoreTypeOK'
  <2>1. state' \in [WorkloadIds -> {"absent", "pending", "running", "completed"}]
    BY <1>4, <1>5
  <2>2. /\ req' \in [WorkloadIds -> Attributes \cup {NoRequest}]
        /\ health' \in [NodeIds -> NodeHealths \cup {"absent"}]
    BY <1>4 DEF StoreInv, StoreTypeOK
  <2>3. \A v \in WorkloadIds : req'[v] = NoRequest <=> state'[v] = "absent"
    BY <1>1, <1>4, <1>5 DEF StoreInv, StoreTypeOK
  <2>4. hosts' \in [WorkloadIds -> SUBSET NodeIds] /\ left' \in [WorkloadIds -> Nat]
    BY <1>1, <1>3, <1>4, <1>5
  <2>5. alloc' \in [NodeIds -> Nat]
    BY <1>4, <1>8 DEF StoreInv, StoreTypeOK
  <2>6. running' \in [NodeIds -> SUBSET WorkloadIds]
    BY <1>1, <1>4 DEF StoreInv, StoreTypeOK
  <2> QED BY <2>1, <2>2, <2>3, <2>4, <2>5, <2>6 DEF StoreTypeOK
<1>10. /\ HostedOn(n)' = (HostedOn(n) \ V) \cup {w}
       /\ \A m \in NodeIds \ {n} : HostedOn(m)' = HostedOn(m)
  BY <1>1, <1>3, <1>4, <1>5 DEF HostedOn, EvictedHosts, StoreInv, StoreTypeOK
<1>11. PlacementConsistent'
  <2>1. \A v \in WorkloadIds : hosts'[v] # {} <=> state'[v] = "running"
    BY <1>1, <1>4, <1>5
  <2>2. \A m \in NodeIds : running'[m] = HostedOn(m)'
    BY <1>3, <1>4, <1>10 DEF StoreInv, StoreTypeOK, PlacementConsistent
  <2>3. ASSUME NEW v \in WorkloadIds, state'[v] = "running"
        PROVE  Cardinality(hosts'[v]) <= Replicas(v)'
    <3>1. Replicas(v)' = Replicas(v)
      BY <1>4 DEF Replicas
    <3>2. CASE v = w
      <4>1. hosts'[v] = {n}
        BY <1>1, <1>4, <1>5, <3>2
      <4>2. Cardinality({n}) = 1
        BY FS_Singleton
      <4> QED BY <1>1, <3>1, <3>2, <4>1, <4>2
    <3>3. CASE v # w
      BY <1>4, <1>5, <2>3, <3>1, <3>3
    <3> QED BY <3>2, <3>3
  <2> QED BY <2>1, <2>2, <2>3 DEF PlacementConsistent
<1>12. PolicyRespected'
  <2> SUFFICES ASSUME NEW v \in WorkloadIds, NEW m \in hosts'[v]
               PROVE  /\ health[m] = "healthy"
                      /\ Fleet[m].gpuType = req[v].gpuType
                      /\ SpotCompatible(req[v], Fleet[m])
    BY <1>4 DEF PolicyRespected, SpotCompatible
  <2>1. CASE v = w
    BY <1>1, <1>3, <1>4, <1>5, <2>1
  <2>2. CASE v # w
    <3>1. m \in hosts[v]
      BY <1>4, <1>5, <2>2 DEF EvictedHosts
    <3> QED BY <3>1 DEF StoreInv, PolicyRespected
  <2> QED BY <2>1, <2>2
<1>13. AllocationAccounted'
  <2> SUFFICES ASSUME NEW m \in NodeIds
               PROVE  /\ alloc'[m] \in {GPUsOf(HostedOn(m))',
                                        SeedPhantom[m] + GPUsOf(HostedOn(m))'}
                      /\ alloc'[m] <= Fleet[m].total
    BY DEF AllocationAccounted
  <2>1. CASE m = n
    <3>1. w \notin HostedOn(n) \ V /\ Counted(req, HostedOn(n) \ V)
      BY <1>1, <1>6, FS_Subset DEF HostedOn, Counted
    <3>2. GPUs(req, (HostedOn(n) \ V) \cup {w}) = GPUsOf(HostedOn(n) \ V) + req[w].gpus
      BY <1>1, <3>1, GPUsOfMore DEF GPUsOf
    <3>3. GPUsOf(HostedOn(n))' = GPUs(req, (HostedOn(n) \ V) \cup {w})
      BY <1>4, <1>10 DEF GPUsOf
    <3>4. GPUsOf(HostedOn(n))' = GPUsOf(HostedOn(n)) - GPUsOf(V) + req[w].gpus
      BY <1>6, <3>2, <3>3
    <3> QED BY <1>1, <1>3, <1>6, <1>7, <1>8, <2>1, <3>4
  <2>2. CASE m # n
    <3>1. GPUsOf(HostedOn(m))' = GPUsOf(HostedOn(m))
      BY <1>4, <1>10, <2>2 DEF GPUsOf
    <3> QED BY <1>8, <2>2, <3>1 DEF StoreInv, AllocationAccounted
  <2> QED BY <2>1, <2>2
<1>14. Pending \ {w} \subseteq Pending'
  BY <1>1, <1>4, <1>5 DEF Pending
<1> QED BY <1>9, <1>11, <1>12, <1>13, <1>14 DEF StoreInv

\* scheduleWorkloadLocked, whatever its outcome.
LEMMA ScheduleLockedPreserves ==
    ASSUME StoreInv, NEW w \in Pending, ScheduleLocked(w)
    PROVE  StoreInv' /\ Pending \ {w} \subseteq Pending'
<1>1. UNCHANGED << req, health >>
  BY DEF ScheduleLocked
<1>2. CASE Place(w)
  BY <1>1, <1>2, PlacePreserves
<1>3. ASSUME NEW how, Reclaim(w, how) PROVE StoreInv' /\ Pending \ {w} \subseteq Pending'
  BY <1>1, <1>3, ReclaimPreserves
<1>4. CASE UNCHANGED << state, hosts, left, alloc, running >>
  <2>1. StoreTypeOK' /\ Pending' = Pending
    BY <1>1, <1>4 DEF StoreInv, StoreTypeOK, Pending
  <2>2. PlacementConsistent' /\ AllocationAccounted'
    BY <1>1, <1>4 DEF StoreInv, PlacementConsistent, AllocationAccounted, HostedOn,
       GPUsOf, Replicas
  <2>3. PolicyRespected'
    BY <1>1, <1>4 DEF StoreInv, PolicyRespected, SpotCompatible
  <2> QED BY <2>1, <2>2, <2>3 DEF StoreInv
<1> QED BY <1>2, <1>3, <1>4 DEF ScheduleLocked

\* A failure or a preemption empties the node.
LEMMA DisruptPreserves ==
    ASSUME StoreInv, NEW n \in NodeIds, Disrupt(n)
    PROVE  StoreInv'
<1> DEFINE V == HostedOn(n)
<1>1. /\ state' = EvictedState(V, n)
      /\ hosts' = EvictedHosts(V, n)
      /\ left' = EvictedLeft(V)
      /\ health' = [health EXCEPT ![n] = "failed"]
      /\ alloc' = [alloc EXCEPT ![n] = 0]
      /\ running' = [running EXCEPT ![n] = {}]
      /\ req' = req
  BY DEF Disrupt
<1>2. /\ EvictedState(V, n) \in
            [WorkloadIds -> {"absent", "pending", "running", "completed"}]
      /\ EvictedHosts(V, n) \in [WorkloadIds -> SUBSET NodeIds]
      /\ EvictedLeft(V) \in [WorkloadIds -> Nat]
      /\ \A v \in WorkloadIds :
            /\ EvictedHosts(V, n)[v] # {} <=> EvictedState(V, n)[v] = "running"
            /\ EvictedState(V, n)[v] = "absent" <=> state[v] = "absent"
            /\ state[v] = "pending" => EvictedState(V, n)[v] = "pending"
            /\ EvictedState(V, n)[v] = "running" =>
                  Cardinality(EvictedHosts(V, n)[v]) <= Replicas(v)
  BY EvictionOfReplica
<1>3. \A v \in WorkloadIds : hosts'[v] = hosts[v] \ {n}
  BY <1>1 DEF EvictedHosts, HostedOn, StoreInv, StoreTypeOK
<1>4. /\ HostedOn(n)' = {}
      /\ \A m \in NodeIds \ {n} : HostedOn(m)' = HostedOn(m)
  BY <1>3 DEF HostedOn
<1> HIDE DEF V
<1>5. StoreTypeOK'
  BY <1>1, <1>2 DEF StoreInv, StoreTypeOK, NodeHealths
<1>6. PlacementConsistent'
  <2>1. \A v \in WorkloadIds : Replicas(v)' = Replicas(v)
    BY <1>1 DEF Replicas
  <2>2. \A m \in NodeIds : running'[m] = HostedOn(m)'
    BY <1>1, <1>4 DEF StoreInv, StoreTypeOK, PlacementConsistent
  <2> QED BY <1>1, <1>2, <2>1, <2>2 DEF PlacementConsistent
<1>7. PolicyRespected'
  <2> SUFFICES ASSUME NEW v \in WorkloadIds, NEW m \in hosts'[v]
               PROVE  /\ health'[m] = "healthy"
                      /\ Fleet[m].gpuType = req[v].gpuType
                      /\ SpotCompatible(req[v], Fleet[m])
    BY <1>1 DEF PolicyRespected, SpotCompatible
  <2>1. m \in hosts[v] /\ m # n /\ m \in NodeIds
    BY <1>3 DEF StoreInv, StoreTypeOK
  <2> QED BY <1>1, <2>1 DEF StoreInv, StoreTypeOK, PolicyRespected
<1>8. AllocationAccounted'
  <2> SUFFICES ASSUME NEW m \in NodeIds
               PROVE  /\ alloc'[m] \in {GPUsOf(HostedOn(m))',
                                        SeedPhantom[m] + GPUsOf(HostedOn(m))'}
                      /\ alloc'[m] <= Fleet[m].total
    BY DEF AllocationAccounted
  <2>1. CASE m = n
    <3>1. GPUsOf(HostedOn(m))' = 0
      BY <1>4, <2>1, GPUsOfNobody DEF GPUsOf
    <3>2. alloc'[m] = 0
      BY <1>1, <2>1 DEF StoreInv, StoreTypeOK
    <3>3. Fleet[m].total \in Nat
      BY FleetAssumption
    <3> QED BY <3>1, <3>2, <3>3
  <2>2. CASE m # n
    <3>1. GPUsOf(HostedOn(m))' = GPUsOf(HostedOn(m))
      BY <1>1, <1>4, <2>2 DEF GPUsOf
    <3> QED BY <1>1, <2>2, <3>1 DEF StoreInv, StoreTypeOK, AllocationAccounted
  <2> QED BY <2>1, <2>2
<1> QED BY <1>5, <1>6, <1>7, <1>8 DEF StoreInv

\* Making a node healthy harms no workload: nothing runs on an unhealthy one.
LEMMA HealthyPreserves ==
    ASSUME StoreInv, NEW n \in NodeIds,
           health' = [health EXCEPT ![n] = "healthy"],
           UNCHANGED << workloadVars, alloc, running >>
    PROVE  StoreInv'
<1> USE DEF workloadVars
<1>1. StoreTypeOK'
  BY DEF StoreInv, StoreTypeOK, NodeHealths
<1>2. PlacementConsistent' /\ AllocationAccounted'
  BY DEF StoreInv, PlacementConsistent, AllocationAccounted, HostedOn, GPUsOf, Replicas
<1>3. PolicyRespected'
  BY DEF StoreInv, StoreTypeOK, PolicyRespected, SpotCompatible
<1> QED BY <1>1, <1>2, <1>3 DEF StoreInv

\* Completed workloads give back all they hold.
LEMMA CompletePreserves ==
    ASSUME StoreInv, CompleteExpiredWorkloads
    PROVE  StoreInv' /\ Pending \subseteq Pending'
<1>1. /\ Expired \subseteq WorkloadIds
      /\ \A w \in Expired : state[w] = "running"
  BY DEF Expired
<1> DEFINE E == Expired
<1>2. /\ state' = [w \in WorkloadIds |-> IF w \in E THEN "completed" ELSE state[w]]
      /\ hosts' = [w \in WorkloadIds |-> IF w \in E THEN {} ELSE hosts[w]]
      /\ alloc' = [n \in NodeIds |-> AtLeast(0, alloc[n] - GPUsOf(E \cap HostedOn(n)))]
      /\ running' = [n \in NodeIds |-> running[n] \ (E \cap HostedOn(n))]
      /\ req' = req /\ left' = left /\ health' = health
  BY DEF CompleteExpiredWorkloads, Released
<1> HIDE DEF E
<1>3. /\ E \subseteq WorkloadIds
      /\ \A w \in E : state[w] = "running"
  BY <1>1 DEF E
<1>4. ASSUME NEW n \in NodeIds
      PROVE  HostedOn(n)' = HostedOn(n) \ (E \cap HostedOn(n))
  BY <1>2 DEF HostedOn
<1>5. ASSUME NEW n \in NodeIds
      PROVE  /\ alloc'[n] = alloc[n] - GPUsOf(E \cap HostedOn(n))
             /\ alloc'[n] \in Nat /\ alloc'[n] <= alloc[n]
             /\ alloc'[n] \in {GPUsOf(HostedOn(n))', SeedPhantom[n] + GPUsOf(HostedOn(n))'}
  <2>1. /\ GPUsOf(E \cap HostedOn(n)) \in Nat /\ GPUsOf(HostedOn(n)) \in Nat
        /\ GPUs(req, HostedOn(n) \ (E \cap HostedOn(n))) \in Nat
        /\ GPUs(req, HostedOn(n) \ (E \cap HostedOn(n)))
              = GPUsOf(HostedOn(n)) - GPUsOf(E \cap HostedOn(n))
    BY HostedRuns, GPUsOfDifference DEF GPUsOf
  <2>2. GPUsOf(HostedOn(n))' = GPUs(req, HostedOn(n) \ (E \cap HostedOn(n)))
    BY <1>2, <1>4 DEF GPUsOf
  <2>3. /\ alloc[n] \in {GPUsOf(HostedOn(n)), SeedPhantom[n] + GPUsOf(HostedOn(n))}
        /\ SeedPhantom[n] \in Nat
    BY SeedAssumption DEF StoreInv, AllocationAccounted
  <2>4. alloc'[n] = alloc[n] - GPUsOf(E \cap HostedOn(n)) /\ alloc'[n] \in Nat
    BY <1>2, <2>1, <2>3 DEF AtLeast
  <2> QED BY <2>1, <2>2, <2>3, <2>4
<1>6. StoreTypeOK'
  BY <1>2, <1>3, <1>5 DEF StoreInv, StoreTypeOK
<1>7. PlacementConsistent'
  <2>1. \A w \in WorkloadIds : Replicas(w)' = Replicas(w)
    BY <1>2 DEF Replicas
  <2>2. \A n \in NodeIds : running'[n] = HostedOn(n)'
    BY <1>2, <1>4 DEF StoreInv, PlacementConsistent
  <2> QED BY <1>2, <1>3, <2>1, <2>2 DEF StoreInv, PlacementConsistent
<1>8. PolicyRespected'
  BY <1>2 DEF StoreInv, PolicyRespected, SpotCompatible
<1>9. AllocationAccounted'
  <2> SUFFICES ASSUME NEW n \in NodeIds
               PROVE  /\ alloc'[n] \in {GPUsOf(HostedOn(n))',
                                        SeedPhantom[n] + GPUsOf(HostedOn(n))'}
                      /\ alloc'[n] <= Fleet[n].total
    BY DEF AllocationAccounted
  <2>1. /\ alloc[n] <= Fleet[n].total /\ alloc[n] \in Nat
        /\ Fleet[n].total \in Nat
    BY FleetAssumption DEF StoreInv, StoreTypeOK, AllocationAccounted
  <2>2. alloc'[n] \in {GPUsOf(HostedOn(n))', SeedPhantom[n] + GPUsOf(HostedOn(n))'}
    BY <1>5
  <2>3. alloc'[n] \in Nat /\ alloc'[n] <= alloc[n]
    BY <1>5
  <2>4. alloc'[n] <= Fleet[n].total
    BY <2>1, <2>3
  <2> QED BY <2>2, <2>4
<1>10. Pending \subseteq Pending'
  BY <1>2, <1>3 DEF Pending
<1> QED BY <1>6, <1>7, <1>8, <1>9, <1>10 DEF StoreInv

\* An empty store is in order.
LEMMA EmptyIsSound ==
    ASSUME state = [w \in WorkloadIds |-> "absent"],
           req = [w \in WorkloadIds |-> NoRequest],
           hosts = [w \in WorkloadIds |-> {}],
           left = [w \in WorkloadIds |-> 0],
           health = [n \in NodeIds |-> "absent"],
           alloc = [n \in NodeIds |-> 0],
           running = [n \in NodeIds |-> {}]
    PROVE  StoreInv
<1>1. StoreTypeOK
  BY DEF StoreTypeOK
<1>2. \A n \in NodeIds : HostedOn(n) = {} /\ GPUsOf(HostedOn(n)) = 0
  <2> SUFFICES ASSUME NEW n \in NodeIds
               PROVE  HostedOn(n) = {} /\ GPUsOf(HostedOn(n)) = 0
    OBVIOUS
  <2>1. HostedOn(n) = {}
    BY DEF HostedOn
  <2> QED BY <2>1, GPUsOfNobody DEF GPUsOf
<1>3. PlacementConsistent
  BY <1>2 DEF PlacementConsistent
<1>4. PolicyRespected
  BY DEF PolicyRespected
<1>5. AllocationAccounted
  BY <1>2, FleetAssumption DEF AllocationAccounted
<1> QED BY <1>1, <1>3, <1>4, <1>5 DEF StoreInv

\* Clear leaves an empty store, which is in order.
LEMMA ClearPreserves ==
    ASSUME Clear
    PROVE  StoreInv'
<1>1. /\ state' = [w \in WorkloadIds |-> "absent"]
      /\ req' = [w \in WorkloadIds |-> NoRequest]
      /\ hosts' = [w \in WorkloadIds |-> {}]
      /\ left' = [w \in WorkloadIds |-> 0]
      /\ health' = [n \in NodeIds |-> "absent"]
      /\ alloc' = [n \in NodeIds |-> 0]
      /\ running' = [n \in NodeIds |-> {}]
  BY DEF Clear
<1>2. StoreTypeOK'
  BY <1>1 DEF StoreTypeOK
<1>3. \A n \in NodeIds : HostedOn(n)' = {} /\ GPUsOf(HostedOn(n))' = 0
  <2> SUFFICES ASSUME NEW n \in NodeIds
               PROVE  HostedOn(n)' = {} /\ GPUsOf(HostedOn(n))' = 0
    OBVIOUS
  <2>1. HostedOn(n)' = {}
    BY <1>1 DEF HostedOn
  <2> QED BY <2>1, GPUsOfNobody DEF GPUsOf
<1>4. PlacementConsistent'
  BY <1>1, <1>3 DEF PlacementConsistent
<1>5. PolicyRespected'
  BY <1>1 DEF PolicyRespected
<1>6. AllocationAccounted'
  BY <1>1, <1>3, FleetAssumption DEF AllocationAccounted
<1> QED BY <1>2, <1>4, <1>5, <1>6 DEF StoreInv

\* The demo fixture is in order, by the assumption about it.
LEMMA SeedPreserves ==
    ASSUME SeedDemoData
    PROVE  StoreInv'
<1> DEFINE ids == DOMAIN SeedRequest
<1>1. /\ state' = [w \in WorkloadIds |-> IF w \notin ids THEN "absent"
                                         ELSE IF SeedHosts[w] = {} THEN "pending"
                                         ELSE "running"]
      /\ req' = [w \in WorkloadIds |-> IF w \in ids THEN SeedRequest[w] ELSE NoRequest]
      /\ hosts' = [w \in WorkloadIds |-> IF w \in ids THEN SeedHosts[w] ELSE {}]
      /\ left' = [w \in WorkloadIds |-> IF w \in ids THEN SeedRequest[w].duration ELSE 0]
      /\ health' = SeedHealth
      /\ alloc' = [n \in NodeIds |-> SeedPhantom[n] + SeedGPUs(n)]
      /\ running' = [n \in NodeIds |-> {w \in ids : n \in SeedHosts[w]}]
  BY DEF SeedDemoData
<1>2. /\ ids \subseteq WorkloadIds
      /\ \A w \in ids : /\ SeedRequest[w] \in Attributes
                        /\ SeedRequest[w].gpus \in Nat \ {0}
                        /\ SeedRequest[w].duration \in Nat
                        /\ SeedHosts[w] \in SUBSET NodeIds
  BY SeedAssumption DEF Attributes
<1> HIDE DEF ids
<1>3. \A n \in NodeIds : HostedOn(n)' = {w \in ids : n \in SeedHosts[w]}
  BY <1>1, <1>2 DEF HostedOn
<1>4. ASSUME NEW n \in NodeIds
      PROVE  GPUsOf(HostedOn(n))' = SeedGPUs(n) /\ SeedGPUs(n) \in Nat
  <2> DEFINE S == {w \in ids : n \in SeedHosts[w]}
  <2>1. S \in SUBSET WorkloadIds
    BY <1>2
  <2>2. Counted(SeedRequest, S)
    BY <1>2, <2>1, IdsAssumption, FS_Subset DEF Counted
  <2>3. GPUs(SeedRequest, S) = GPUs(req', S)
    <3>1. \A w \in S : SeedRequest[w] = req'[w]
      BY <1>1, <1>2
    <3> HIDE DEF S
    <3> QED BY <3>1, GPUsOfSame
  <2> QED BY <1>3, <2>2, <2>3, SlotsFinite DEF GPUsOf, SeedGPUs, ids
<1>5. StoreTypeOK'
  <2>1. /\ alloc' \in [NodeIds -> Nat]
        /\ health' \in [NodeIds -> NodeHealths \cup {"absent"}]
    BY <1>1, <1>4, SeedAssumption
  <2>2. /\ state' \in [WorkloadIds -> {"absent", "pending", "running", "completed"}]
        /\ req' \in [WorkloadIds -> Attributes \cup {NoRequest}]
        /\ hosts' \in [WorkloadIds -> SUBSET NodeIds]
        /\ left' \in [WorkloadIds -> Nat]
        /\ running' \in [NodeIds -> SUBSET WorkloadIds]
    BY <1>1, <1>2
  <2>3. \A w \in WorkloadIds : req'[w] = NoRequest <=> state'[w] = "absent"
    BY <1>1, <1>2, RequestsAssumption
  <2> QED BY <2>1, <2>2, <2>3 DEF StoreTypeOK
<1>6. PlacementConsistent'
  <2>1. \A w \in WorkloadIds : hosts'[w] # {} <=> state'[w] = "running"
    BY <1>1
  <2>2. \A n \in NodeIds : running'[n] = HostedOn(n)'
    BY <1>1, <1>3
  <2>3. ASSUME NEW w \in WorkloadIds, state'[w] = "running"
        PROVE  Cardinality(hosts'[w]) <= Replicas(w)'
    <3>1. w \in ids /\ hosts'[w] = SeedHosts[w] /\ req'[w] = SeedRequest[w]
      BY <1>1, <2>3
    <3>2. Cardinality(SeedHosts[w]) <= 1
      BY <3>1, SeedAssumption DEF ids
    <3>3. IsFiniteSet(SeedHosts[w])
      BY <1>2, <3>1, IdsAssumption, FS_Subset
    <3>4. Replicas(w)' \in Nat /\ Replicas(w)' >= 1
      BY <1>2, <3>1 DEF Replicas, AtLeast, Attributes
    <3> QED BY <3>1, <3>2, <3>3, <3>4, FS_CardinalityType
  <2> QED BY <2>1, <2>2, <2>3 DEF PlacementConsistent
<1>7. PolicyRespected'
  <2> SUFFICES ASSUME NEW w \in WorkloadIds, NEW n \in hosts'[w]
               PROVE  /\ health'[n] = "healthy"
                      /\ Fleet[n].gpuType = req'[w].gpuType
                      /\ SpotCompatible(req'[w], Fleet[n])
    BY DEF PolicyRespected, SpotCompatible
  <2>1. w \in ids /\ n \in SeedHosts[w] /\ req'[w] = SeedRequest[w]
    BY <1>1
  <2> QED BY <1>1, <2>1, SeedAssumption DEF ids
<1>8. AllocationAccounted'
  <2> SUFFICES ASSUME NEW n \in NodeIds
               PROVE  /\ alloc'[n] \in {GPUsOf(HostedOn(n))',
                                        SeedPhantom[n] + GPUsOf(HostedOn(n))'}
                      /\ alloc'[n] <= Fleet[n].total
    BY DEF AllocationAccounted
  <2>1. alloc'[n] = SeedPhantom[n] + SeedGPUs(n)
    BY <1>1
  <2>2. GPUsOf(HostedOn(n))' = SeedGPUs(n)
    BY <1>4
  <2> QED BY <2>1, <2>2, SeedAssumption
<1> QED BY <1>5, <1>6, <1>7, <1>8 DEF StoreInv

\* A new workload is queued and holds nothing.
LEMMA CreatePreserves ==
    ASSUME StoreInv, NEW w \in WorkloadIds, NEW r \in Requests, CreateWorkload(w, r)
    PROVE  StoreInv' /\ Pending \subseteq Pending'
<1>1. /\ state[w] = "absent" /\ hosts[w] = {}
      /\ r \in Attributes /\ r.duration \in Nat
      /\ state' = [state EXCEPT ![w] = "pending"]
      /\ req' = [req EXCEPT ![w] = r]
      /\ left' = [left EXCEPT ![w] = r.duration]
      /\ hosts' = hosts /\ health' = health /\ alloc' = alloc /\ running' = running
  BY RequestsAssumption
     DEF CreateWorkload, nodeVars, Attributes, StoreInv, PlacementConsistent
<1>2. StoreTypeOK'
  BY <1>1, RequestsAssumption DEF StoreInv, StoreTypeOK
<1>3. \A v \in WorkloadIds : hosts[v] # {} => req'[v] = req[v] /\ Replicas(v)' = Replicas(v)
  BY <1>1 DEF Replicas, StoreInv, StoreTypeOK
<1>4. ASSUME NEW n \in NodeIds
      PROVE  HostedOn(n)' = HostedOn(n) /\ GPUsOf(HostedOn(n))' = GPUsOf(HostedOn(n))
  <2>1. HostedOn(n)' = HostedOn(n)
    BY <1>1 DEF HostedOn
  <2>2. \A v \in HostedOn(n) : req'[v] = req[v]
    BY <1>3 DEF HostedOn
  <2>3. GPUs(req', HostedOn(n)) = GPUs(req, HostedOn(n))
    BY <2>2, GPUsOfSame
  <2> QED BY <2>1, <2>3 DEF GPUsOf
<1>5. PlacementConsistent'
  <2>1. \A v \in WorkloadIds : hosts'[v] # {} <=> state'[v] = "running"
    BY <1>1 DEF StoreInv, StoreTypeOK, PlacementConsistent
  <2>2. \A n \in NodeIds : running'[n] = HostedOn(n)'
    BY <1>1, <1>4 DEF StoreInv, PlacementConsistent
  <2>3. \A v \in WorkloadIds : state'[v] = "running" =>
                                  Cardinality(hosts'[v]) <= Replicas(v)'
    BY <1>1, <1>3 DEF StoreInv, StoreTypeOK, PlacementConsistent
  <2> QED BY <2>1, <2>2, <2>3 DEF PlacementConsistent
<1>6. PolicyRespected'
  BY <1>1, <1>3 DEF StoreInv, PolicyRespected, SpotCompatible
<1>7. AllocationAccounted'
  BY <1>1, <1>4 DEF StoreInv, AllocationAccounted
<1>8. Pending \subseteq Pending'
  BY <1>1 DEF Pending, StoreInv, StoreTypeOK
<1> QED BY <1>2, <1>5, <1>6, <1>7, <1>8 DEF StoreInv

\* Time touches the deadlines only.
LEMMA TickPreserves ==
    ASSUME StoreInv, Tick
    PROVE  StoreInv' /\ Pending \subseteq Pending'
<1>1. /\ left' = [w \in WorkloadIds |-> IF state[w] = "running"
                                        THEN AtLeast(0, left[w] - 1) ELSE left[w]]
      /\ UNCHANGED << state, req, hosts, health, alloc, running >>
  BY DEF Tick, nodeVars
<1>2. StoreTypeOK' /\ Pending \subseteq Pending'
  BY <1>1 DEF StoreInv, StoreTypeOK, AtLeast, Pending
<1>3. PlacementConsistent' /\ AllocationAccounted'
  BY <1>1 DEF StoreInv, PlacementConsistent, AllocationAccounted, HostedOn, GPUsOf, Replicas
<1>4. PolicyRespected'
  BY <1>1 DEF StoreInv, PolicyRespected, SpotCompatible
<1> QED BY <1>2, <1>3, <1>4 DEF StoreInv

\* What touches neither workloads nor nodes keeps the store in order.
LEMMA StoreStays ==
    ASSUME StoreInv, UNCHANGED << workloadVars, nodeVars >>
    PROVE  StoreInv'
<1>1. UNCHANGED << state, req, hosts, left, health, alloc, running >>
  BY DEF workloadVars, nodeVars
<1>2. StoreTypeOK'
  BY <1>1 DEF StoreInv, StoreTypeOK
<1>3. PlacementConsistent'
  BY <1>1 DEF StoreInv, PlacementConsistent, HostedOn, Replicas
<1>4. PolicyRespected'
  BY <1>1 DEF StoreInv, PolicyRespected, SpotCompatible
<1>5. AllocationAccounted'
  BY <1>1 DEF StoreInv, AllocationAccounted, HostedOn, GPUsOf
<1> QED BY <1>2, <1>3, <1>4, <1>5 DEF StoreInv
------------------------------------------------------------------------------
(* The theorems *)

\* NewMemoryStore is in order.
LEMMA InitIInv == Init => IInv
<1> SUFFICES ASSUME Init PROVE IInv
  OBVIOUS
<1>1. StoreInv
  BY EmptyIsSound DEF Init
<1>2. todo \subseteq Pending /\ preempted \in BOOLEAN
  BY DEF Init
<1> QED BY <1>1, <1>2 DEF IInv, TypeOK, StoreInv

\* Every operation, and every step of a scheduling pass, keeps the store in
\* order.  An operation that begins a pass queues exactly what is pending; the
\* others run while nothing is queued, and a step takes its workload out.
LEMMA NextIInv == IInv /\ [Next]_vars => IInv'
<1> SUFFICES ASSUME IInv, [Next]_vars PROVE IInv'
  OBVIOUS
<1>1. StoreInv /\ todo \subseteq Pending /\ preempted \in BOOLEAN
  BY DEF IInv, TypeOK
<1>2. SUFFICES StoreInv' /\ (todo \subseteq Pending)' /\ (preempted \in BOOLEAN)'
  BY DEF IInv, TypeOK, StoreInv
<1>3. ASSUME BeginPass PROVE (todo \subseteq Pending)' /\ (preempted \in BOOLEAN)'
  BY <1>3 DEF BeginPass
<1>4. ASSUME LockFree, UNCHANGED passVars
      PROVE  (todo \subseteq Pending)' /\ (preempted \in BOOLEAN)'
  BY <1>1, <1>4 DEF LockFree, passVars
<1>5. CASE \E w \in WorkloadIds, r \in Requests : CreateWorkload(w, r)
  <2>1. LockFree /\ UNCHANGED passVars
    BY <1>5 DEF CreateWorkload, passVars
  <2> QED BY <1>1, <1>4, <1>5, <2>1, CreatePreserves
<1>6. CASE \E w \in WorkloadIds : ScheduleWorkload(w)
  <2>1. PICK w \in WorkloadIds : ScheduleWorkload(w)
    BY <1>6
  <2>2. w \in Pending /\ ScheduleLocked(w) /\ LockFree /\ UNCHANGED passVars
    BY <2>1 DEF ScheduleWorkload, Pending
  <2> QED BY <1>1, <1>4, <2>2, ScheduleLockedPreserves
<1>7. CASE SchedulePendingWorkloads
  <2>1. StoreInv'
    BY <1>1, <1>7, StoreStays DEF SchedulePendingWorkloads
  <2> QED BY <1>3, <1>7, <2>1 DEF SchedulePendingWorkloads
<1>8. CASE PassStep
  <2>1. PICK w \in todo : /\ ScheduleLocked(w)
                          /\ todo' = todo \ {w}
                          /\ preempted' \in BOOLEAN
    BY <1>8 DEF PassStep
  <2>2. w \in Pending
    BY <1>1, <2>1
  <2>3. StoreInv' /\ Pending \ {w} \subseteq Pending'
    BY <1>1, <2>1, <2>2, ScheduleLockedPreserves
  <2> QED BY <1>1, <2>1, <2>3
<1>9. ASSUME NEW n \in NodeIds, Disrupt(n)
      PROVE  StoreInv' /\ (todo \subseteq Pending)' /\ (preempted \in BOOLEAN)'
  BY <1>1, <1>3, <1>9, DisruptPreserves DEF Disrupt
<1>10. CASE \E n \in NodeIds : FailNode(n)
  BY <1>9, <1>10 DEF FailNode
<1>11. CASE \E n \in NodeIds : PreemptSpotNode(n)
  BY <1>9, <1>11 DEF PreemptSpotNode
<1>12. CASE \E n \in NodeIds : RecoverNode(n)
  <2>1. PICK n \in NodeIds : RecoverNode(n)
    BY <1>12
  <2>2. BeginPass /\ StoreInv'
    BY <1>1, <2>1, HealthyPreserves DEF RecoverNode
  <2> QED BY <1>3, <2>2
<1>13. CASE \E n \in NodeIds : HealNode(n)
  <2>1. PICK n \in NodeIds : HealNode(n)
    BY <1>13
  <2>2. LockFree /\ UNCHANGED passVars /\ StoreInv'
    BY <1>1, <2>1, HealthyPreserves DEF HealNode, passVars
  <2> QED BY <1>4, <2>2
<1>14. CASE CompleteExpiredWorkloads
  <2>1. LockFree /\ UNCHANGED passVars
    BY <1>14 DEF CompleteExpiredWorkloads, passVars
  <2> QED BY <1>1, <1>4, <1>14, <2>1, CompletePreserves
<1>15. CASE Tick
  <2>1. LockFree /\ UNCHANGED passVars
    BY <1>15 DEF Tick, passVars
  <2> QED BY <1>1, <1>4, <1>15, <2>1, TickPreserves
<1>16. CASE Clear
  BY <1>4, <1>16, ClearPreserves DEF Clear
<1>17. CASE SeedDemoData
  BY <1>4, <1>17, SeedPreserves DEF SeedDemoData
<1>18. CASE UNCHANGED vars
  <2>1. StoreInv'
    BY <1>1, <1>18, StoreStays DEF vars
  <2>2. (todo \subseteq Pending)' /\ (preempted \in BOOLEAN)'
    BY <1>1, <1>18 DEF vars, workloadVars, passVars, Pending
  <2> QED BY <2>1, <2>2
<1> QED BY <1>5, <1>6, <1>7, <1>8, <1>10, <1>11, <1>12, <1>13, <1>14, <1>15,
           <1>16, <1>17, <1>18 DEF Next

\* The store is in order in every reachable state, inside and between its
\* critical sections.
THEOREM Safety == Spec => []IInv
BY InitIInv, NextIInv, PTL DEF Spec

\* Every variable of the store keeps its type, and a scheduling pass never
\* holds a workload that something else has started, ended or removed.
THEOREM TypeCorrect == Spec => []TypeOK
<1>1. IInv => TypeOK
  BY DEF IInv
<1> QED BY <1>1, Safety, PTL

\* Workloads and nodes always agree on what runs where, although memory.go
\* writes the two sides separately.
THEOREM PlacementAgrees == Spec => []PlacementConsistent
<1>1. IInv => PlacementConsistent
  BY DEF IInv, StoreInv
<1> QED BY <1>1, Safety, PTL

\* No sequence of failures, recoveries, preemptions and passes leaves work on
\* a node that its policy forbids.
THEOREM PolicyHolds == Spec => []PolicyRespected
<1>1. IInv => PolicyRespected
  BY DEF IInv, StoreInv
<1> QED BY <1>1, Safety, PTL

\* No node is ever allocated beyond its size, and the incremental counter of
\* allocated GPUs never drifts from what the hosted workloads hold: the clamps
\* at zero in memory.go never take effect on a double release.
THEOREM AllocationExact == Spec => []AllocationAccounted
<1>1. IInv => AllocationAccounted
  BY DEF IInv, StoreInv
<1> QED BY <1>1, Safety, PTL
------------------------------------------------------------------------------
(* Evictions and the order of the queue *)

\* Work that has to give way goes behind the work it makes room for: victims
\* have a lower priority, or the same one and, being batch, a lower class.
LEMMA VictimsGoBehind ==
    ASSUME StoreInv, NEW w \in Pending, NEW v \in WorkloadIds, NEW how,
           NEW n \in ReclaimNodes(w, how), v \in VictimsOn(w, n, how)
    PROVE  WorkloadLess(req[w], w, req[v], v)
<1>1. w \in WorkloadIds /\ req[w] \in Attributes
  BY RequestFacts DEF Pending
<1>2. GivesWay(v, w, how)
  BY <1>1, ReclaimFacts
<1> DEFINE Key(x) == << -PriorityRank(req[x].prio), -WorkloadClassRank(req[x].type),
                        IF req[x].spot THEN 1 ELSE 0, req[x].submitted, x >>
<1>3. SUFFICES LexLess(Key(w), Key(v))
  BY DEF WorkloadLess
<1>4. DOMAIN Key(w) = 1 .. 5
  OBVIOUS
<1>5. CASE PriorityRank(req[v].prio) < PriorityRank(req[w].prio)
  <2>1. Key(w)[1] < Key(v)[1]
    BY <1>5 DEF PriorityRank
  <2>2. 1 \in 1 .. 5 /\ \A j \in 1 .. 1 - 1 : Key(w)[j] = Key(v)[j]
    OBVIOUS
  <2> QED BY <1>4, <2>1, <2>2 DEF LexLess
<1>6. CASE /\ how = "rebalance"
           /\ req[v].type = "batch" /\ req[v].prio = req[w].prio
  <2>1. req[w].type # "batch" /\ req[w].type \in WorkloadTypes
    BY <1>1, <1>6 DEF ReclaimNodes, Attributes
  <2>2. Key(w)[2] < Key(v)[2]
    BY <1>6, <2>1 DEF WorkloadClassRank, WorkloadTypes
  <2>3. 2 \in 1 .. 5 /\ \A j \in 1 .. 2 - 1 : Key(w)[j] = Key(v)[j]
    BY <1>6
  <2> QED BY <1>4, <2>2, <2>3 DEF LexLess
<1> QED BY <1>2, <1>5, <1>6 DEF GivesWay

\* A scheduling decision displaces only what goes behind the workload it starts.
LEMMA ScheduleLockedDisplaces ==
    ASSUME StoreInv, NEW w \in Pending, ScheduleLocked(w),
           NEW v \in WorkloadIds, Displaced(v)
    PROVE  /\ state[w] = "pending" /\ state'[w] = "running"
           /\ WorkloadLess(req[w], w, req[v], v)
<1>1. /\ w \in WorkloadIds /\ state[w] = "pending" /\ hosts[w] = {}
      /\ state[v] = "running" /\ ~(hosts[v] \subseteq hosts'[v])
      /\ state \in [WorkloadIds -> {"absent", "pending", "running", "completed"}]
      /\ hosts \in [WorkloadIds -> SUBSET NodeIds]
  BY DEF Pending, Displaced, StoreInv, StoreTypeOK, PlacementConsistent
<1>2. ~Place(w)
  BY <1>1 DEF Place
<1>3. ~UNCHANGED << state, hosts, left, alloc, running >>
  BY <1>1
<1>4. PICK how : Reclaim(w, how)
  BY <1>2, <1>3 DEF ScheduleLocked
<1>5. PICK n \in ReclaimNodes(w, how) :
         /\ state' = [EvictedState(VictimsOn(w, n, how), n) EXCEPT ![w] = "running"]
         /\ hosts' = [EvictedHosts(VictimsOn(w, n, how), n) EXCEPT ![w] = {n}]
  BY <1>4 DEF Reclaim
<1>6. v \in VictimsOn(w, n, how)
  BY <1>1, <1>5 DEF EvictedHosts
<1>7. state'[w] = "running"
  BY <1>1, <1>5 DEF EvictedState
<1> QED BY <1>1, <1>6, <1>7, VictimsGoBehind

\* Only a decision of the scheduler displaces a running workload on a fleet that
\* nothing happens to.
LEMMA DisplacedByDecision ==
    ASSUME IInv, Next, NEW v \in WorkloadIds, Displaced(v)
    PROVE  \E w \in Pending : ScheduleLocked(w)
<1>1. /\ StoreInv /\ todo \subseteq Pending /\ Pending \subseteq WorkloadIds
      /\ state[v] = "running" /\ hosts' # hosts /\ health' = health
  BY DEF IInv, TypeOK, Pending, Displaced
<1>2. CASE \E w \in WorkloadIds : ScheduleWorkload(w)
  BY <1>2 DEF ScheduleWorkload, Pending
<1>3. CASE PassStep
  BY <1>1, <1>3 DEF PassStep
<1>4. ASSUME NEW n \in NodeIds PROVE ~Disrupt(n)
  <2> SUFFICES ASSUME Disrupt(n) PROVE FALSE
    OBVIOUS
  <2>1. health[n] = "failed"
    BY <1>1 DEF Disrupt, Present, StoreInv, StoreTypeOK
  <2>2. HostedOn(n) = {}
    BY <1>1, <2>1 DEF HostedOn, StoreInv, PolicyRespected
  <2>3. hosts' = [u \in WorkloadIds |-> hosts[u]]
    BY <2>2 DEF Disrupt, EvictedHosts
  <2> QED BY <1>1, <2>3 DEF StoreInv, StoreTypeOK
<1>5. ~CompleteExpiredWorkloads
  BY DEF CompleteExpiredWorkloads, Displaced, Expired
<1>6. ~Clear
  BY DEF Clear, Displaced
<1>7. ~SeedDemoData
  BY DEF Displaced
<1>8. ASSUME UNCHANGED hosts PROVE FALSE
  BY <1>1, <1>8
<1> QED BY <1>2, <1>3, <1>4, <1>5, <1>6, <1>7, <1>8
        DEF Next, CreateWorkload, SchedulePendingWorkloads, FailNode,
            PreemptSpotNode, RecoverNode, HealNode, Tick, workloadVars

\* In every step of every behaviour, GPUs are taken back only for a workload
\* that goes before the victim in the queue: two workloads never evict each
\* other in turn, whatever the operations in between.
THEOREM EvictionOrdered == Spec => EvictionRespectsQueueOrder
<1> DEFINE Justified ==
      \A v \in WorkloadIds : Displaced(v) =>
          \E w \in WorkloadIds :
             /\ state[w] = "pending" /\ state'[w] = "running"
             /\ WorkloadLess(req[w], w, req[v], v)
<1>1. ASSUME IInv, Next PROVE Justified
  <2> SUFFICES ASSUME NEW v \in WorkloadIds, Displaced(v)
               PROVE  \E w \in WorkloadIds :
                         /\ state[w] = "pending" /\ state'[w] = "running"
                         /\ WorkloadLess(req[w], w, req[v], v)
    OBVIOUS
  <2>1. PICK w \in Pending : ScheduleLocked(w)
    BY <1>1, DisplacedByDecision
  <2>2. /\ w \in WorkloadIds /\ state[w] = "pending" /\ state'[w] = "running"
        /\ WorkloadLess(req[w], w, req[v], v)
    BY <1>1, <2>1, ScheduleLockedDisplaces DEF IInv, Pending
  <2> QED BY <2>2
<1>2. IInv /\ [Next]_vars => [Justified]_vars
  BY <1>1
<1>3. Spec => [][Justified]_vars
  BY <1>2, Safety, PTL DEF Spec
<1> QED BY <1>3 DEF EvictionRespectsQueueOrder
------------------------------------------------------------------------------
\* The fleet is there with all its nodes, or it has been cleared.
WholeFleet == Present = {} \/ Present = NodeIds

\* The fleet comes and goes as a whole.
LEMMA WholeFleetKept == TypeOK /\ WholeFleet /\ [Next]_vars => WholeFleet'
<1> SUFFICES ASSUME TypeOK, WholeFleet, [Next]_vars PROVE WholeFleet'
  OBVIOUS
<1>1. ASSUME \A n \in NodeIds : health'[n] = "absent" <=> health[n] = "absent"
      PROVE  WholeFleet'
  BY <1>1 DEF WholeFleet, Present
<1>2. ASSUME NEW n \in Present, NEW h \in NodeHealths, health' = [health EXCEPT ![n] = h]
      PROVE  WholeFleet'
  BY <1>1, <1>2 DEF TypeOK, StoreTypeOK, Present, NodeHealths
<1>3. CASE UNCHANGED health
  BY <1>1, <1>3
<1>4. CASE \E n \in NodeIds : FailNode(n) \/ PreemptSpotNode(n)
  BY <1>2, <1>4 DEF FailNode, PreemptSpotNode, Disrupt, NodeHealths
<1>5. CASE \E n \in NodeIds : RecoverNode(n)
  BY <1>2, <1>5 DEF RecoverNode, NodeHealths
<1>6. CASE \E n \in NodeIds : HealNode(n)
  <2>1. PICK n \in NodeIds : HealNode(n)
    BY <1>6
  <2>2. n \in Present
    BY <2>1 DEF HealNode, Present
  <2> QED BY <1>2, <2>1, <2>2 DEF HealNode, NodeHealths
<1>7. CASE Clear
  BY <1>7 DEF Clear, WholeFleet, Present
<1>8. CASE SeedDemoData
  BY <1>8, SeedAssumption DEF SeedDemoData, WholeFleet, Present, NodeHealths
<1>9. ASSUME \/ \E w \in WorkloadIds, r \in Requests : CreateWorkload(w, r)
             \/ \E w \in WorkloadIds : ScheduleWorkload(w)
             \/ SchedulePendingWorkloads \/ PassStep
             \/ CompleteExpiredWorkloads \/ Tick \/ UNCHANGED vars
      PROVE  UNCHANGED health
  BY <1>9 DEF CreateWorkload, ScheduleWorkload, SchedulePendingWorkloads, PassStep,
              ScheduleLocked, Place, Reclaim, CompleteExpiredWorkloads, Tick, vars, nodeVars
<1> QED BY <1>3, <1>4, <1>5, <1>6, <1>7, <1>8, <1>9 DEF Next
==============================================================================
