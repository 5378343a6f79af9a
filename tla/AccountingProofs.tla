--------------------------- MODULE AccountingProofs ---------------------------
(***************************************************************************)
(* Accounts of the GPUs, for every fleet, every set of identifiers and     *)
(* every set of requests: the store implements the ledger, one lemma per   *)
(* kind of entry; the figures of the fleet summary add up; and nobody is   *)
(* evicted whose GPUs are not needed.  They stand on the inductive         *)
(* invariant of MemoryStoreProofs, the last one also on the strict orders  *)
(* of SchedulerProofs, and so does the order of the queue.                 *)
(***************************************************************************)
EXTENDS Telemetry, MemoryStoreProofs, SchedulerProofs

------------------------------------------------------------------------------
(* The ledger: the mapping *)

\* What workloads of the store hold by the ledger is what they hold by their
\* requests.
LEMMA UsedIsGPUs ==
    ASSUME NEW S \in SUBSET WorkloadIds, \A w \in S : state[w] # "absent"
    PROVE  L!Used(S) = GPUsOf(S)
<1>1. \A w \in S : Sizes[w] = req[w].gpus
  BY DEF Sizes
<1>2. L!Shares(S) = Slots(req, S)
  BY <1>1 DEF L!Shares, Slots
<1>3. L!Cardinality(Slots(req, S)) = Cardinality(Slots(req, S))
  BY DEF L!Cardinality, Cardinality
<1> QED BY <1>2, <1>3 DEF L!Used, GPUsOf, GPUs

\* A node, seen by the ledger: who holds GPUs of it is known, and they fit
\* beside what is allocated.
LEMMA NodeInLedger ==
    ASSUME StoreInv, NEW n \in NodeIds
    PROVE  /\ running[n] = HostedOn(n)
           /\ \A w \in running[n] : w \in WorkloadIds /\ Sizes[w] > 0
           /\ L!Used(running[n]) = GPUsOf(HostedOn(n))
           /\ L!Used(running[n]) \in Nat /\ alloc[n] \in Nat /\ Totals[n] \in Nat
           /\ L!Used(running[n]) <= alloc[n]
           /\ alloc[n] <= Totals[n]
           /\ Totals[n] = Fleet[n].total
<1>1. running[n] = HostedOn(n)
  BY DEF StoreInv, PlacementConsistent
<1>2. /\ HostedOn(n) \in SUBSET WorkloadIds
      /\ \A w \in HostedOn(n) : state[w] = "running"
      /\ GPUsOf(HostedOn(n)) \in Nat
  BY HostedRuns
<1>3. \A w \in HostedOn(n) : Sizes[w] > 0
  <2> SUFFICES ASSUME NEW w \in HostedOn(n) PROVE Sizes[w] > 0
    OBVIOUS
  <2>1. w \in WorkloadIds /\ state[w] = "running" /\ req[w].gpus \in Nat \ {0}
    BY <1>2, RequestFacts
  <2> QED BY <2>1 DEF Sizes
<1>4. L!Used(HostedOn(n)) = GPUsOf(HostedOn(n))
  BY <1>2, UsedIsGPUs
<1>5. Totals[n] = Fleet[n].total /\ Fleet[n].total \in Nat
  BY FleetAssumption DEF Totals
<1>6. /\ alloc[n] \in {GPUsOf(HostedOn(n)), SeedPhantom[n] + GPUsOf(HostedOn(n))}
      /\ alloc[n] <= Fleet[n].total /\ alloc[n] \in Nat
      /\ SeedPhantom[n] \in Nat
  BY SeedAssumption DEF StoreInv, StoreTypeOK, AllocationAccounted
<1> QED BY <1>1, <1>2, <1>3, <1>4, <1>5, <1>6

\* A workload that has no host holds nothing, and queued work may be granted
\* GPUs.
LEMMA QueuedInLedger ==
    ASSUME StoreInv, NEW w \in Pending
    PROVE  /\ w \in WorkloadIds /\ L!Idle(w) /\ w \notin Completed
           /\ Sizes[w] = req[w].gpus /\ Sizes[w] \in Nat /\ Sizes[w] > 0
<1>1. w \in WorkloadIds /\ state[w] = "pending" /\ hosts[w] = {}
  BY DEF Pending, StoreInv, PlacementConsistent
<1>2. req[w].gpus \in Nat \ {0}
  BY <1>1, RequestFacts
<1>3. L!Idle(w)
  BY <1>1 DEF L!Idle, StoreInv, PlacementConsistent, HostedOn
<1> QED BY <1>1, <1>2, <1>3 DEF Sizes, Completed

\* Steps that change no request, and whether a workload is in the store and
\* completed of none, leave these parts of the ledger alone.
LEMMA SameInLedger ==
    ASSUME req' = req,
           \A v \in WorkloadIds : /\ state'[v] = "absent" <=> state[v] = "absent"
                                  /\ state'[v] = "completed" <=> state[v] = "completed"
    PROVE  Sizes' = Sizes /\ Completed' = Completed
BY DEF Sizes, Completed
------------------------------------------------------------------------------
(* One lemma per entry *)

\* CreateWorkload enters a holder.
LEMMA CreateEnters ==
    ASSUME StoreInv, NEW w \in WorkloadIds, NEW r \in Requests, CreateWorkload(w, r)
    PROVE  L!Enter(w)
<1>1. /\ state[w] = "absent"
      /\ state' = [state EXCEPT ![w] = "pending"]
      /\ req' = [req EXCEPT ![w] = r]
      /\ running' = running
      /\ r.gpus \in Nat \ {0}
      /\ state \in [WorkloadIds -> {"absent", "pending", "running", "completed"}]
      /\ DOMAIN req = WorkloadIds
  BY RequestsAssumption DEF CreateWorkload, nodeVars, Attributes, StoreInv, StoreTypeOK
<1>2. Sizes[w] = 0 /\ Sizes'[w] = r.gpus /\ Sizes'[w] > 0
  BY <1>1 DEF Sizes
<1>3. Sizes' = [Sizes EXCEPT ![w] = Sizes'[w]]
  BY <1>1, <1>2 DEF Sizes
<1>4. Completed' = Completed
  BY <1>1 DEF Completed
<1> QED BY <1>1, <1>2, <1>3, <1>4 DEF L!Enter

\* Place grants GPUs of several nodes at once.
LEMMA PlaceGrants ==
    ASSUME StoreInv, NEW w \in Pending, Place(w), UNCHANGED << req, health >>
    PROVE  \E N \in SUBSET NodeIds : L!Grant(w, N)
<1> DEFINE chosen == Decide(req[w], Nodes, Replicas(w))
<1>1. /\ Cardinality(chosen) = Replicas(w)
      /\ state' = [state EXCEPT ![w] = "running"]
      /\ running' = [n \in NodeIds |->
                      IF n \in chosen THEN running[n] \cup {w} ELSE running[n]]
      /\ req' = req
  BY DEF Place
<1>2. /\ w \in WorkloadIds /\ state[w] = "pending"
      /\ Replicas(w) \in Nat /\ Replicas(w) >= 1
  BY RequestFacts DEF Pending
<1>3. \A n \in chosen : n \in NodeIds /\ Fleet[n].total - alloc[n] >= req[w].gpus
  BY <1>2, EligibleFacts
<1> HIDE DEF chosen
<1>4. chosen # {}
  <2>1. chosen = {} => Cardinality(chosen) = 0
    BY FS_EmptySet
  <2> QED BY <1>1, <1>2, <2>1
<1>5. Sizes' = Sizes /\ Completed' = Completed
  <2>1. \A v \in WorkloadIds : /\ state'[v] = "absent" <=> state[v] = "absent"
                               /\ state'[v] = "completed" <=> state[v] = "completed"
    BY <1>1, <1>2 DEF StoreInv, StoreTypeOK
  <2> QED BY <1>1, <2>1, SameInLedger
<1>6. \A n \in chosen : L!Used(running[n]) + Sizes[w] <= Totals[n]
  <2> SUFFICES ASSUME NEW n \in chosen
               PROVE  L!Used(running[n]) + Sizes[w] <= Totals[n]
    OBVIOUS
  <2>1. n \in NodeIds /\ Fleet[n].total - alloc[n] >= req[w].gpus
    BY <1>3
  <2>2. /\ L!Used(running[n]) \in Nat /\ alloc[n] \in Nat /\ Totals[n] \in Nat
        /\ L!Used(running[n]) <= alloc[n] /\ Totals[n] = Fleet[n].total
    BY <2>1, NodeInLedger
  <2>3. Sizes[w] = req[w].gpus /\ Sizes[w] \in Nat
    BY QueuedInLedger
  <2> QED BY <2>1, <2>2, <2>3
<1>7. L!Grant(w, chosen)
  BY <1>1, <1>4, <1>5, <1>6, QueuedInLedger DEF L!Grant
<1> QED BY <1>3, <1>7

\* Reclaim takes GPUs of one node over.
LEMMA ReclaimTakesOver ==
    ASSUME StoreInv, NEW w \in Pending, NEW how, Reclaim(w, how),
           UNCHANGED << req, health >>
    PROVE  \E n \in NodeIds : \E V \in SUBSET running[n] : L!TakeOver(w, n, V)
<1>1. w \in WorkloadIds /\ state[w] = "pending"
  BY DEF Pending
<1>2. PICK n \in ReclaimNodes(w, how) :
         /\ state' = [EvictedState(VictimsOn(w, n, how), n) EXCEPT ![w] = "running"]
         /\ running' = [running EXCEPT ![n] = (@ \ VictimsOn(w, n, how)) \cup {w}]
  BY DEF Reclaim
<1> DEFINE V == VictimsOn(w, n, how)
<1>3. /\ n \in NodeIds
      /\ Fleet[n].total - alloc[n] + GPUsOf(V) >= req[w].gpus
      /\ V \in SUBSET HostedOn(n)
      /\ V # {}
  BY <1>1, ReclaimFacts DEF ReclaimNodes
<1>4. /\ state' = [EvictedState(V, n) EXCEPT ![w] = "running"]
      /\ running' = [running EXCEPT ![n] = (@ \ V) \cup {w}]
      /\ req' = req
  BY <1>2
<1> HIDE DEF V
<1>5. \A v \in V : v \in WorkloadIds /\ state[v] = "running"
  BY <1>3, HostedRuns
<1>6. Sizes' = Sizes /\ Completed' = Completed
  <2>1. \A v \in WorkloadIds : /\ state'[v] = "absent" <=> state[v] = "absent"
                               /\ state'[v] = "completed" <=> state[v] = "completed"
    BY <1>1, <1>4, <1>5 DEF EvictedState
  <2> QED BY <1>4, <2>1, SameInLedger
<1>7. L!Used(running[n]) - L!Used(V) + Sizes[w] <= Totals[n]
  <2>1. L!Used(V) = GPUsOf(V)
    BY <1>5, UsedIsGPUs
  <2>2. GPUsOf(V) \in Nat
    BY <1>5, RunningCounted
  <2>3. /\ L!Used(running[n]) \in Nat /\ alloc[n] \in Nat /\ Totals[n] \in Nat
        /\ L!Used(running[n]) <= alloc[n] /\ Totals[n] = Fleet[n].total
    BY <1>3, NodeInLedger
  <2>4. Sizes[w] = req[w].gpus /\ Sizes[w] \in Nat
    BY QueuedInLedger
  <2> QED BY <1>3, <2>1, <2>2, <2>3, <2>4
<1>8. V \in SUBSET running[n]
  BY <1>3, NodeInLedger
<1>9. L!TakeOver(w, n, V)
  BY <1>3, <1>4, <1>6, <1>7, QueuedInLedger DEF L!TakeOver
<1> QED BY <1>3, <1>8, <1>9

\* scheduleWorkloadLocked is an entry for w, or none.
LEMMA ScheduleIsEntry ==
    ASSUME StoreInv, NEW w \in Pending, ScheduleLocked(w)
    PROVE  L!Next \/ UNCHANGED L!ledger
<1>1. w \in WorkloadIds /\ UNCHANGED << req, health >>
  BY DEF ScheduleLocked, Pending
<1>2. CASE Place(w)
  BY <1>1, <1>2, PlaceGrants DEF L!Next
<1>3. ASSUME NEW how, Reclaim(w, how) PROVE L!Next
  BY <1>1, <1>3, ReclaimTakesOver DEF L!Next
<1>4. CASE UNCHANGED << state, hosts, left, alloc, running >>
  BY <1>1, <1>4 DEF L!ledger, Sizes, Completed
<1> QED BY <1>2, <1>3, <1>4 DEF ScheduleLocked

\* A failed or preempted node withdraws its GPUs, and what has completed stays so.
LEMMA DisruptWithdraws ==
    ASSUME StoreInv, NEW n \in NodeIds, Disrupt(n)
    PROVE  L!Withdraw(n)
<1>1. /\ state' = EvictedState(HostedOn(n), n)
      /\ running' = [running EXCEPT ![n] = {}]
      /\ req' = req
  BY DEF Disrupt
<1>2. \A v \in HostedOn(n) : state[v] = "running"
  BY HostedRuns
<1>3. \A v \in WorkloadIds : /\ state'[v] = "absent" <=> state[v] = "absent"
                             /\ state'[v] = "completed" <=> state[v] = "completed"
  BY <1>1, <1>2 DEF EvictedState
<1> QED BY <1>1, <1>3, SameInLedger DEF L!Withdraw

\* Completion finishes the workloads whose time is up, on all their nodes.
LEMMA CompleteFinishes ==
    ASSUME StoreInv, CompleteExpiredWorkloads
    PROVE  L!Finish(Expired)
<1> DEFINE E == Expired
<1>1. /\ E \subseteq WorkloadIds
      /\ \A w \in E : state[w] = "running"
  BY DEF Expired
<1>2. /\ state' = [w \in WorkloadIds |-> IF w \in E THEN "completed" ELSE state[w]]
      /\ running' = [n \in NodeIds |-> running[n] \ (E \cap HostedOn(n))]
      /\ req' = req
  BY DEF CompleteExpiredWorkloads
<1> HIDE DEF E
<1>3. Sizes' = Sizes /\ Completed' = Completed \cup E
  BY <1>1, <1>2 DEF Sizes, Completed
<1>4. running' = [n \in NodeIds |-> running[n] \ E]
  <2>1. \A n \in NodeIds : running[n] \ (E \cap HostedOn(n)) = running[n] \ E
    BY DEF StoreInv, PlacementConsistent
  <2> QED BY <1>2, <2>1
<1>5. \A w \in E : ~L!Idle(w)
  BY <1>1 DEF L!Idle, StoreInv, StoreTypeOK, PlacementConsistent, HostedOn
<1> QED BY <1>3, <1>4, <1>5 DEF L!Finish, E

------------------------------------------------------------------------------
(* The refinement *)

\* Every operation of the store is one entry of the ledger, or none; clearing
\* drops everything, and seeding replaces it by the fixture.
LEMMA OperationIsEntry == IInv /\ [Next]_vars => [L!Next]_(L!ledger)
<1> SUFFICES ASSUME IInv, [Next]_vars PROVE L!Next \/ UNCHANGED L!ledger
  OBVIOUS
<1>1. StoreInv /\ todo \subseteq Pending
  BY DEF IInv, TypeOK, StoreInv
<1>2. CASE \E w \in WorkloadIds, r \in Requests : CreateWorkload(w, r)
  BY <1>1, <1>2, CreateEnters DEF L!Next
<1>3. CASE \E w \in WorkloadIds : ScheduleWorkload(w)
  <2>1. PICK w \in Pending : ScheduleLocked(w)
    BY <1>3 DEF ScheduleWorkload, Pending
  <2> QED BY <1>1, <2>1, ScheduleIsEntry
<1>4. CASE PassStep
  <2>1. PICK w \in Pending : ScheduleLocked(w)
    BY <1>1, <1>4 DEF PassStep
  <2> QED BY <1>1, <2>1, ScheduleIsEntry
<1>5. ASSUME NEW n \in NodeIds, Disrupt(n) PROVE L!Next
  BY <1>1, <1>5, DisruptWithdraws DEF L!Next
<1>6. CASE \E n \in NodeIds : FailNode(n)
  BY <1>5, <1>6 DEF FailNode
<1>7. CASE \E n \in NodeIds : PreemptSpotNode(n)
  BY <1>5, <1>7 DEF PreemptSpotNode
<1>8. CASE CompleteExpiredWorkloads
  <2>1. Expired \in SUBSET WorkloadIds
    BY DEF Expired
  <2> QED BY <1>1, <1>8, <2>1, CompleteFinishes DEF L!Next
<1>9. CASE Clear
  <2>1. /\ Sizes' = [w \in WorkloadIds |-> 0] /\ Completed' = {}
        /\ running' = [n \in NodeIds |-> {}]
    BY <1>9 DEF Clear, Sizes, Completed
  <2> QED BY <2>1 DEF L!Reset, L!Next
<1>10. CASE SeedDemoData
  <2>1. Sizes' = SeedSizes /\ Completed' = {} /\ running' = SeedHeld
    BY <1>10 DEF SeedDemoData, Sizes, Completed, SeedSizes, SeedHeld
  <2> QED BY <2>1 DEF L!Reset, L!Next
<1>11. ASSUME UNCHANGED << state, req, running >> PROVE UNCHANGED L!ledger
  BY <1>11 DEF L!ledger, Sizes, Completed
<1> QED BY <1>2, <1>3, <1>4, <1>6, <1>7, <1>8, <1>9, <1>10, <1>11
        DEF Next, SchedulePendingWorkloads, RecoverNode, HealNode, Tick,
            vars, workloadVars, nodeVars

\* The store implements the ledger: in every behaviour of it, GPUs change
\* hands only by the ledger's entries, whatever memory.go does inside.
THEOREM StoreImplementsLedger == Spec => ImplementsLedger
<1>1. Init => L!Init
  BY DEF Init, L!Init, Sizes, Completed
<1>2. Spec => L!Init /\ [][L!Next]_(L!ledger)
  BY <1>1, OperationIsEntry, Safety, PTL DEF Spec
<1> QED BY <1>2 DEF ImplementsLedger, L!Spec
------------------------------------------------------------------------------
(* The figures of the summary *)

\* Nothing is allocated on a failed node, not even by the fixture.  This is
\* not a consequence of IInv, which allows for allocations to nobody.
FailedNodesEmpty == \A n \in NodeIds : health[n] = "failed" => alloc[n] = 0

\* Whatever a scheduling decision allocates is on healthy nodes.
LEMMA ScheduleLockedOnHealthy ==
    ASSUME StoreInv, FailedNodesEmpty, NEW w \in Pending, ScheduleLocked(w)
    PROVE  FailedNodesEmpty'
<1>1. w \in WorkloadIds /\ UNCHANGED << req, health >>
  BY DEF ScheduleLocked, Pending
<1>2. CASE Place(w)
  <2>1. \A n \in Decide(req[w], Nodes, Replicas(w)) : health[n] = "healthy"
    BY <1>1, EligibleFacts
  <2>2. \A n \in NodeIds : n \notin Decide(req[w], Nodes, Replicas(w)) => alloc'[n] = alloc[n]
    BY <1>2 DEF Place
  <2> QED BY <1>1, <2>1, <2>2 DEF FailedNodesEmpty
<1>3. ASSUME NEW how, Reclaim(w, how) PROVE FailedNodesEmpty'
  <2>1. PICK n \in ReclaimNodes(w, how) :
           \E g : alloc' = [alloc EXCEPT ![n] = g]
    BY <1>3 DEF Reclaim
  <2>2. health[n] = "healthy"
    BY <1>1, ReclaimFacts
  <2> QED BY <1>1, <2>1, <2>2 DEF FailedNodesEmpty, StoreInv, StoreTypeOK
<1>4. CASE UNCHANGED << state, hosts, left, alloc, running >>
  BY <1>1, <1>4 DEF FailedNodesEmpty
<1> QED BY <1>2, <1>3, <1>4 DEF ScheduleLocked

\* The fixture allocates nothing on a failed node.
LEMMA SeedOnHealthy ==
    ASSUME SeedDemoData
    PROVE  FailedNodesEmpty'
<1> SUFFICES ASSUME NEW n \in NodeIds, health'[n] = "failed" PROVE alloc'[n] = 0
  BY DEF FailedNodesEmpty
<1>1. SeedHealth[n] = "failed" /\ alloc'[n] = SeedPhantom[n] + SeedGPUs(n)
  BY DEF SeedDemoData
<1>2. SeedPhantom[n] = 0
  BY <1>1, SeedAssumption
<1>3. {w \in DOMAIN SeedRequest : n \in SeedHosts[w]} = {}
  BY <1>1, SeedAssumption
<1>4. SeedGPUs(n) = 0
  BY <1>3, GPUsOfNobody DEF SeedGPUs
<1> QED BY <1>1, <1>2, <1>4

\* No operation leaves an allocation on a node it fails, and none allocates on
\* a failed node.
LEMMA FailedStayEmpty == IInv /\ FailedNodesEmpty /\ [Next]_vars => FailedNodesEmpty'
<1> SUFFICES ASSUME IInv, FailedNodesEmpty, [Next]_vars PROVE FailedNodesEmpty'
  OBVIOUS
<1>1. /\ StoreInv /\ todo \subseteq Pending
      /\ health \in [NodeIds -> NodeHealths \cup {"absent"}]
      /\ alloc \in [NodeIds -> Nat]
  BY DEF IInv, TypeOK, StoreInv, StoreTypeOK
<1>2. CASE \E w \in WorkloadIds : ScheduleWorkload(w)
  <2>1. PICK w \in Pending : ScheduleLocked(w)
    BY <1>2 DEF ScheduleWorkload, Pending
  <2> QED BY <1>1, <2>1, ScheduleLockedOnHealthy
<1>3. CASE PassStep
  <2>1. PICK w \in Pending : ScheduleLocked(w)
    BY <1>1, <1>3 DEF PassStep
  <2> QED BY <1>1, <2>1, ScheduleLockedOnHealthy
<1>4. ASSUME NEW n \in NodeIds, Disrupt(n) PROVE FailedNodesEmpty'
  BY <1>1, <1>4 DEF Disrupt, FailedNodesEmpty
<1>5. ASSUME NEW n \in NodeIds, health' = [health EXCEPT ![n] = "healthy"], alloc' = alloc
      PROVE  FailedNodesEmpty'
  BY <1>1, <1>5 DEF FailedNodesEmpty
<1>6. CASE CompleteExpiredWorkloads
  <2> SUFFICES ASSUME NEW n \in NodeIds, health[n] = "failed"
               PROVE  alloc'[n] = 0
    BY <1>6 DEF FailedNodesEmpty, CompleteExpiredWorkloads
  <2>1. Released(n) \in Nat
    <3>1. /\ Expired \cap HostedOn(n) \in SUBSET WorkloadIds
          /\ \A w \in Expired \cap HostedOn(n) : state[w] = "running"
      BY DEF Expired
    <3> QED BY <1>1, <3>1, RunningCounted DEF Released
  <2>2. alloc'[n] = AtLeast(0, alloc[n] - Released(n)) /\ alloc[n] = 0
    BY <1>6 DEF CompleteExpiredWorkloads, FailedNodesEmpty
  <2> QED BY <2>1, <2>2 DEF AtLeast
<1>7. CASE Clear
  BY <1>7 DEF Clear, FailedNodesEmpty
<1>8. CASE SeedDemoData
  BY <1>8, SeedOnHealthy
<1>9. ASSUME UNCHANGED << health, alloc >> PROVE FailedNodesEmpty'
  BY <1>9 DEF FailedNodesEmpty
<1> QED BY <1>2, <1>3, <1>4, <1>5, <1>6, <1>7, <1>8, <1>9
        DEF Next, CreateWorkload, SchedulePendingWorkloads, FailNode, PreemptSpotNode,
            RecoverNode, HealNode, Tick, vars, nodeVars
------------------------------------------------------------------------------
(* The partition *)

\* The GPUs of some nodes of the fleet are finitely many.
LEMMA TotalFinite ==
    ASSUME NEW N \in SUBSET NodeIds
    PROVE  IsFiniteSet(TotalGPUs(N))
<1> DEFINE of == [n \in N |-> {n} \X (1 .. Fleet[n].total)]
           T == {of[n] : n \in N}
<1>1. IsFiniteSet(N)
  BY IdsAssumption, FS_Subset
<1>2. IsFiniteSet(T)
  <2>1. of \in Surjection(N, T)
    BY DEF Surjection
  <2> QED BY <1>1, <2>1, FS_Surjection
<1>3. \A U \in T : IsFiniteSet(U)
  <2> SUFFICES ASSUME NEW n \in N PROVE IsFiniteSet({n} \X (1 .. Fleet[n].total))
    OBVIOUS
  <2>1. IsFiniteSet({n})
    BY FS_Singleton
  <2>2. Fleet[n].total \in Int
    BY FleetAssumption
  <2>3. IsFiniteSet(1 .. Fleet[n].total)
    BY <2>2, FS_Interval
  <2> QED BY <2>1, <2>3, FS_Product
<1>4. IsFiniteSet(UNION T)
  BY <1>2, <1>3, FS_UNION
<1>5. UNION T = TotalGPUs(N)
  BY DEF TotalGPUs
<1> QED BY <1>4, <1>5

\* Every GPU of a node is allocated, free or failed, and only one of them.
LEMMA PartitionOfGPUs ==
    ASSUME StoreInv, FailedNodesEmpty, NEW N \in SUBSET NodeIds
    PROVE  /\ TotalGPUs(N) = AllocatedGPUs(N) \cup AvailableGPUs(N) \cup TotalGPUs(Failed(N))
           /\ AllocatedGPUs(N) \cap AvailableGPUs(N) = {}
           /\ (AllocatedGPUs(N) \cup AvailableGPUs(N)) \cap TotalGPUs(Failed(N)) = {}
<1>1. \A n \in N : /\ alloc[n] \in Nat /\ Fleet[n].total \in Nat
                   /\ alloc[n] <= Fleet[n].total
                   /\ n \in Failed(N) => alloc[n] = 0
  BY FleetAssumption DEF StoreInv, StoreTypeOK, AllocationAccounted, FailedNodesEmpty, Failed
<1>2. \A n, i : << n, i >> \in TotalGPUs(N) <=> n \in N /\ i \in 1 .. Fleet[n].total
  BY DEF TotalGPUs
<1>3. \A n, i : << n, i >> \in AllocatedGPUs(N) <=> n \in N /\ i \in 1 .. alloc[n]
  BY DEF AllocatedGPUs
<1>4. \A n, i : << n, i >> \in AvailableGPUs(N) <=>
                    n \in N \ Failed(N) /\ i \in alloc[n] + 1 .. Fleet[n].total
  BY DEF AvailableGPUs
<1>5. \A n, i : << n, i >> \in TotalGPUs(Failed(N)) <=>
                    n \in Failed(N) /\ i \in 1 .. Fleet[n].total
  BY DEF TotalGPUs
<1>6. Failed(N) \subseteq N
  BY DEF Failed
<1>7. /\ \A x \in TotalGPUs(N) \cup AllocatedGPUs(N) \cup AvailableGPUs(N) \cup TotalGPUs(Failed(N)) :
            x = << x[1], x[2] >>
  BY DEF TotalGPUs, AllocatedGPUs, AvailableGPUs
\* On a node of N, in terms of the index of the GPU.
<1>8. ASSUME NEW n \in N, NEW i
      PROVE  /\ i \in 1 .. Fleet[n].total <=>
                    i \in 1 .. alloc[n] \/ i \in alloc[n] + 1 .. Fleet[n].total
             /\ ~(i \in 1 .. alloc[n] /\ i \in alloc[n] + 1 .. Fleet[n].total)
             /\ n \in Failed(N) => i \notin 1 .. alloc[n]
  <2> DEFINE a == alloc[n]
             t == Fleet[n].total
  <2>1. a \in Nat /\ t \in Nat /\ a <= t /\ (n \in Failed(N) => a = 0)
    BY <1>1
  <2> HIDE DEF a, t
  <2>2. i \in 1 .. t <=> i \in 1 .. a \/ i \in a + 1 .. t
    BY <2>1
  <2>3. ~(i \in 1 .. a /\ i \in a + 1 .. t)
    BY <2>1
  <2>4. n \in Failed(N) => i \notin 1 .. a
    BY <2>1
  <2> QED BY <2>2, <2>3, <2>4 DEF a, t
<1>9. ASSUME NEW n, NEW i
      PROVE  /\ << n, i >> \in TotalGPUs(N) <=>
                    \/ << n, i >> \in AllocatedGPUs(N) \/ << n, i >> \in AvailableGPUs(N)
                    \/ << n, i >> \in TotalGPUs(Failed(N))
             /\ ~(<< n, i >> \in AllocatedGPUs(N) /\ << n, i >> \in AvailableGPUs(N))
             /\ << n, i >> \in TotalGPUs(Failed(N)) =>
                    << n, i >> \notin AllocatedGPUs(N) /\ << n, i >> \notin AvailableGPUs(N)
  <2>1. CASE n \notin N
    BY <1>2, <1>3, <1>4, <1>5, <1>6, <2>1
  <2>2. CASE n \in N
    <3> DEFINE T == i \in 1 .. Fleet[n].total
               A == i \in 1 .. alloc[n]
               V == i \in alloc[n] + 1 .. Fleet[n].total
    <3>1. (T <=> A \/ V) /\ ~(A /\ V) /\ (n \in Failed(N) => ~A)
      BY <1>8, <2>2
    <3>2. /\ << n, i >> \in TotalGPUs(N) <=> T
          /\ << n, i >> \in AllocatedGPUs(N) <=> A
          /\ << n, i >> \in AvailableGPUs(N) <=> n \notin Failed(N) /\ V
          /\ << n, i >> \in TotalGPUs(Failed(N)) <=> n \in Failed(N) /\ T
      BY <1>2, <1>3, <1>4, <1>5, <2>2
    <3> HIDE DEF T, A, V
    <3> QED BY <3>1, <3>2
  <2> QED BY <2>1, <2>2
<1> QED BY <1>7, <1>9

\* Hence the figures of any set of nodes add up.
LEMMA FiguresAddUp ==
    ASSUME StoreInv, FailedNodesEmpty, NEW N \in SUBSET NodeIds
    PROVE  LET s == Summary(N) IN s.total = s.allocated + s.available + s.failed
<1> DEFINE A == AllocatedGPUs(N)
           B == AvailableGPUs(N)
           C == TotalGPUs(Failed(N))
           D == TotalGPUs(N)
<1>1. D = A \cup B \cup C /\ A \cap B = {} /\ (A \cup B) \cap C = {}
  BY PartitionOfGPUs
<1>2. IsFiniteSet(D)
  BY TotalFinite
<1>3. /\ (Summary(N)).total = Cardinality(D) /\ (Summary(N)).allocated = Cardinality(A)
      /\ (Summary(N)).available = Cardinality(B) /\ (Summary(N)).failed = Cardinality(C)
  BY DEF Summary
<1> HIDE DEF A, B, C, D
<1>4. IsFiniteSet(A) /\ IsFiniteSet(B) /\ IsFiniteSet(C) /\ IsFiniteSet(A \cup B)
  BY <1>1, <1>2, FS_Subset
<1>5. /\ Cardinality(A) \in Nat /\ Cardinality(B) \in Nat /\ Cardinality(C) \in Nat
      /\ Cardinality(A \cap B) = 0 /\ Cardinality((A \cup B) \cap C) = 0
  BY <1>1, <1>4, FS_CardinalityType, FS_EmptySet
<1>6. Cardinality(A \cup B) = Cardinality(A) + Cardinality(B) - Cardinality(A \cap B)
  BY <1>4, FS_Union
<1>7. Cardinality((A \cup B) \cup C)
        = Cardinality(A \cup B) + Cardinality(C) - Cardinality((A \cup B) \cap C)
  BY <1>4, FS_Union
<1>8. Cardinality(D) = Cardinality(A) + Cardinality(B) + Cardinality(C)
  BY <1>1, <1>5, <1>6, <1>7
<1> QED BY <1>3, <1>8

\* Whatever the operations and the fleet, the summary and every sample account
\* for each GPU exactly once, for the fleet and for each GPU type.
THEOREM CapacityAddsUp == Spec => []CapacityPartitioned
<1>1. Init => FailedNodesEmpty
  BY DEF Init, FailedNodesEmpty
<1>2. IInv /\ FailedNodesEmpty => CapacityPartitioned
  <2> SUFFICES ASSUME StoreInv, FailedNodesEmpty,
                      NEW N \in {Present} \cup {OfType(Fleet[n].gpuType) : n \in NodeIds}
               PROVE  LET s == Summary(N) IN s.total = s.allocated + s.available + s.failed
    BY DEF CapacityPartitioned, IInv
  <2>1. N \in SUBSET NodeIds
    BY DEF Present, OfType
  <2> QED BY <2>1, FiguresAddUp
<1> QED BY <1>1, <1>2, FailedStayEmpty, Safety, PTL DEF Spec

------------------------------------------------------------------------------
(* What an eviction costs *)

\* The order in which victims are given up, as a relation of the workloads C.
VictimOrder(C) == {p \in C \X C : VictimBefore(p[1], p[2])}

\* It is strict and total: two workloads have different identifiers.
LEMMA VictimsOrdered ==
    ASSUME NEW C \in SUBSET WorkloadIds, \A v \in C : req[v] \in Attributes
    PROVE  StrictlyOrders(VictimOrder(C), C)
<1> DEFINE Key(x) == << PriorityRank(req[x].prio), -req[x].gpus, -req[x].submitted, x >>
           R == VictimOrder(C)
<1>1. \A v \in C : PriorityRank(req[v].prio) \in Int
  BY DEF PriorityRank
<1>2. \A v \in C : req[v].gpus \in Int /\ req[v].submitted \in Int /\ v \in Int
  BY IdsAssumption DEF Attributes
<1>3. \A v \in C : Key(v) \in Int \X Int \X Int \X Int /\ Key(v)[4] = v
  BY <1>1, <1>2
<1>4. \A u, v \in C : << u, v >> \in R <=> LexLess(Key(u), Key(v))
  BY DEF VictimOrder, VictimBefore
<1> HIDE DEF Key, R
<1>5. \A u, v \in C : << u, v >> \in R <=>
          \/ Key(u)[1] < Key(v)[1]
          \/ Key(u)[1] = Key(v)[1] /\ Key(u)[2] < Key(v)[2]
          \/ Key(u)[1] = Key(v)[1] /\ Key(u)[2] = Key(v)[2] /\ Key(u)[3] < Key(v)[3]
          \/ Key(u)[1] = Key(v)[1] /\ Key(u)[2] = Key(v)[2] /\ Key(u)[3] = Key(v)[3] /\ u < v
  BY <1>3, <1>4, LexFour
<1>6. \A v \in C : /\ Key(v)[1] \in Int /\ Key(v)[2] \in Int
                   /\ Key(v)[3] \in Int /\ v \in Int
  BY <1>3
<1>7. StrictlyOrders(R, C)
  BY <1>5, <1>6 DEF StrictlyOrders
<1> QED BY <1>7 DEF R

\* The victims taken are a beginning of that order, and without the last of
\* them they hold less than what is needed.
LEMMA PrefixIsShort ==
    ASSUME NEW C \in SUBSET WorkloadIds, \A v \in C : req[v] \in Attributes,
           NEW need, need \in Nat, Prefix(C, need) # {}
    PROVE  \E l \in Prefix(C, need) : GPUsOf(Prefix(C, need) \ {l}) < need
<1> DEFINE V == Prefix(C, need)
           R == VictimOrder(C)
<1>1. StrictlyOrders(R, C)
  BY VictimsOrdered
<1>2. \A v \in C : {u \in C : VictimBefore(u, v)} = Before(R, C, v)
  BY DEF VictimOrder, Before
<1>3. V \subseteq C /\ \A v \in C : v \in V <=> GPUsOf(Before(R, C, v)) < need
  BY <1>2 DEF Prefix
<1>4. \A S \in SUBSET C : Counted(req, S)
  BY IdsAssumption, FS_Subset DEF Counted, Attributes
<1> HIDE DEF V, R
<1>5. StrictlyOrders(R, V) /\ IsFiniteSet(V) /\ V # {}
  BY <1>1, <1>3, <1>4 DEF StrictlyOrders, Counted, V
<1>6. PICK l \in V : Before(R, V, l) = V \ {l}
  BY <1>5, LastOfOrder
<1>7. V \ {l} \subseteq Before(R, C, l)
  BY <1>3, <1>6 DEF Before
<1>8. Before(R, C, l) \in SUBSET C
  BY DEF Before
<1>9. GPUsOf(V \ {l}) <= GPUsOf(Before(R, C, l))
  <2> DEFINE A == Before(R, C, l)
             B == V \ {l}
  <2>1. /\ GPUs(req, A) \in Nat /\ GPUs(req, B) \in Nat /\ GPUs(req, A \ B) \in Nat
        /\ GPUs(req, A \ B) = GPUs(req, A) - GPUs(req, B)
    BY <1>4, <1>7, <1>8, GPUsOfDifference
  <2> QED BY <2>1 DEF GPUsOf
<1>10. /\ GPUsOf(Before(R, C, l)) < need /\ GPUsOf(Before(R, C, l)) \in Nat
       /\ GPUsOf(V \ {l}) \in Nat
  BY <1>3, <1>4, <1>6, <1>8, SlotsFinite DEF GPUsOf
<1>11. GPUsOf(V \ {l}) < need
  BY <1>9, <1>10
<1> QED BY <1>6, <1>11 DEF V

\* The workload that a decision starts is the one it decides about.
LEMMA StartsOnlyItself ==
    ASSUME StoreInv, NEW u \in Pending, ScheduleLocked(u),
           NEW w \in WorkloadIds, state[w] = "pending", state'[w] = "running"
    PROVE  u = w
<1>1. /\ u \in WorkloadIds
      /\ state \in [WorkloadIds -> {"absent", "pending", "running", "completed"}]
  BY DEF Pending, StoreInv, StoreTypeOK
<1>2. CASE Place(u)
  BY <1>1, <1>2 DEF Place
<1>3. ASSUME NEW how, Reclaim(u, how) PROVE u = w
  <2>1. PICK n \in ReclaimNodes(u, how) :
           state' = [EvictedState(VictimsOn(u, n, how), n) EXCEPT ![u] = "running"]
    BY <1>3 DEF Reclaim
  <2>2. u # w => state'[w] # "running"
    BY <1>1, <2>1 DEF EvictedState
  <2> QED BY <2>2
<1>4. CASE UNCHANGED << state, hosts, left, alloc, running >>
  BY <1>4
<1> QED BY <1>2, <1>3, <1>4 DEF ScheduleLocked

\* A decision for w displaces the victims, and nobody else.
LEMMA DecisionDisplaces ==
    ASSUME StoreInv, NEW w \in Pending, ScheduleLocked(w),
           NEW D, D = {v \in WorkloadIds : Displaced(v)}, D # {}
    PROVE  \E v \in D : GPUsOf(D \ {v}) < req[w].gpus
<1>1. /\ w \in WorkloadIds /\ state[w] = "pending" /\ hosts[w] = {}
      /\ state \in [WorkloadIds -> {"absent", "pending", "running", "completed"}]
      /\ hosts \in [WorkloadIds -> SUBSET NodeIds]
  BY DEF Pending, StoreInv, StoreTypeOK, PlacementConsistent
<1>2. ~SeedDemoData
  BY DEF Displaced
<1>3. PICK x \in WorkloadIds : state[x] = "running" /\ ~(hosts[x] \subseteq hosts'[x])
  BY DEF Displaced
<1>4. ~Place(w)
  BY <1>1, <1>3 DEF Place
<1>5. ~UNCHANGED << state, hosts, left, alloc, running >>
  BY <1>3
<1>6. PICK how : Reclaim(w, how)
  BY <1>4, <1>5 DEF ScheduleLocked
<1>7. PICK n \in ReclaimNodes(w, how) :
         /\ state' = [EvictedState(VictimsOn(w, n, how), n) EXCEPT ![w] = "running"]
         /\ hosts' = [EvictedHosts(VictimsOn(w, n, how), n) EXCEPT ![w] = {n}]
  BY <1>6 DEF Reclaim
<1> DEFINE C == {v \in HostedOn(n) : state[v] = "running" /\ GivesWay(v, w, how)}
           V == VictimsOn(w, n, how)
<1>8. V = Prefix(C, req[w].gpus)
  BY DEF VictimsOn
<1>9. V \subseteq C
  BY <1>8 DEF Prefix
<1>10. \A v \in C : v \in WorkloadIds /\ state[v] = "running" /\ n \in hosts[v]
  BY DEF HostedOn
<1> HIDE DEF C, V
<1>11. D = V
  <2>1. ASSUME NEW v \in WorkloadIds, Displaced(v) PROVE v \in V
    BY <1>1, <1>7, <2>1 DEF EvictedHosts, Displaced, V
  <2>2. ASSUME NEW v \in V PROVE v \in WorkloadIds /\ Displaced(v)
    <3>1. v \in WorkloadIds /\ state[v] = "running" /\ n \in hosts[v] /\ v # w
      BY <1>1, <1>9, <1>10
    <3>2. hosts'[v] = hosts[v] \ {n}
      BY <1>1, <1>7, <3>1 DEF EvictedHosts, V
    <3>3. state'[v] \in {"running", "pending"}
      BY <1>1, <1>7, <3>1 DEF EvictedState, V
    <3>4. health' = health
      BY DEF ScheduleLocked
    <3> QED BY <1>2, <3>1, <3>2, <3>3, <3>4 DEF Displaced
  <2> QED BY <2>1, <2>2
<1>12. req[w].gpus \in Nat
  BY <1>1, RequestFacts
<1>13. \A v \in C : req[v] \in Attributes
  BY <1>10, RequestFacts
<1> QED BY <1>8, <1>10, <1>11, <1>12, <1>13, PrefixIsShort

\* In every step of every behaviour, a workload that takes GPUs back takes no
\* victim too many: without one of them they would not hold what it asked for.
THEOREM EvictionIsBounded == Spec => EvictionBounded
<1> DEFINE Bounded ==
      \A w \in WorkloadIds :
          LET D == {v \in WorkloadIds : Displaced(v)} IN
          state[w] = "pending" /\ state'[w] = "running" /\ D # {}
             => \E v \in D : GPUsOf(D \ {v}) < req[w].gpus
<1>1. ASSUME IInv, Next PROVE Bounded
  <2> DEFINE D == {v \in WorkloadIds : Displaced(v)}
  <2> SUFFICES ASSUME NEW w \in WorkloadIds, D # {},
                      state[w] = "pending", state'[w] = "running"
               PROVE  \E v \in D : GPUsOf(D \ {v}) < req[w].gpus
    OBVIOUS
  <2>1. PICK x \in WorkloadIds : Displaced(x)
    OBVIOUS
  <2>2. PICK u \in Pending : ScheduleLocked(u)
    BY <1>1, <2>1, DisplacedByDecision
  <2>3. u = w
    BY <1>1, <2>2, StartsOnlyItself DEF IInv
  <2> QED BY <1>1, <2>2, <2>3, DecisionDisplaces DEF IInv
<1>2. IInv /\ [Next]_vars => [Bounded]_vars
  BY <1>1
<1>3. Spec => [][Bounded]_vars
  BY <1>2, Safety, PTL DEF Spec
<1> QED BY <1>3 DEF EvictionBounded
------------------------------------------------------------------------------
(* The order of the queue *)

\* The order of the queue, as a relation of the workloads C.
QueueOrder(C) == {p \in C \X C : WorkloadLess(req[p[1]], p[1], req[p[2]], p[2])}

\* It is strict and total, whatever workloads have asked for.
LEMMA QueueOrdered ==
    ASSUME NEW C \in SUBSET WorkloadIds, \A v \in C : req[v] \in Attributes
    PROVE  StrictlyOrders(QueueOrder(C), C)
<1> DEFINE Key(x) == << -PriorityRank(req[x].prio), -WorkloadClassRank(req[x].type),
                        IF req[x].spot THEN 1 ELSE 0, req[x].submitted, x >>
           R == QueueOrder(C)
<1>1. \A v \in C : PriorityRank(req[v].prio) \in Int /\ WorkloadClassRank(req[v].type) \in Int
  BY DEF PriorityRank, WorkloadClassRank
<1>2. \A v \in C : req[v].submitted \in Int /\ v \in Int
  BY IdsAssumption DEF Attributes
<1>3. \A v \in C : Key(v) \in Int \X Int \X Int \X Int \X Int /\ Key(v)[5] = v
  BY <1>1, <1>2
<1>4. \A u, v \in C : << u, v >> \in R <=> LexLess(Key(u), Key(v))
  BY DEF QueueOrder, WorkloadLess
<1> HIDE DEF Key, R
<1>5. ASSUME NEW u \in C, NEW v \in C
      PROVE  << u, v >> \in R <=>
          \/ Key(u)[1] < Key(v)[1]
          \/ Key(u)[1] = Key(v)[1] /\ Key(u)[2] < Key(v)[2]
          \/ Key(u)[1] = Key(v)[1] /\ Key(u)[2] = Key(v)[2] /\ Key(u)[3] < Key(v)[3]
          \/ Key(u)[1] = Key(v)[1] /\ Key(u)[2] = Key(v)[2] /\ Key(u)[3] = Key(v)[3]
             /\ Key(u)[4] < Key(v)[4]
          \/ Key(u)[1] = Key(v)[1] /\ Key(u)[2] = Key(v)[2] /\ Key(u)[3] = Key(v)[3]
             /\ Key(u)[4] = Key(v)[4] /\ u < v
  <2>1. /\ Key(u) \in Int \X Int \X Int \X Int \X Int
        /\ Key(v) \in Int \X Int \X Int \X Int \X Int
        /\ Key(u)[5] = u /\ Key(v)[5] = v
    BY <1>3
  <2>2. << u, v >> \in R <=> LexLess(Key(u), Key(v))
    BY <1>4
  <2> QED BY <2>1, <2>2, LexFive
<1>6. \A v \in C : /\ Key(v)[1] \in Int /\ Key(v)[2] \in Int /\ Key(v)[3] \in Int
                   /\ Key(v)[4] \in Int /\ v \in Int
  BY <1>3
<1>7. StrictlyOrders(R, C)
  BY <1>5, <1>6 DEF StrictlyOrders
<1> QED BY <1>7 DEF R

\* Nobody goes before itself, and of two workloads in the store exactly one
\* goes before the other: what EvictionRespectsQueueOrder allows one of them
\* to do to the other, it never allows the other way round.  And as long as a
\* pass has workloads left, one of them comes first: it never gets stuck.
QueueHasOrder ==
    LET Known == {w \in WorkloadIds : state[w] # "absent"} IN
    /\ StrictlyOrders(QueueOrder(Known), Known)
    /\ todo # {} => \E w \in todo : \A u \in todo \ {w} : WorkloadLess(req[w], w, req[u], u)

\* The queue is ordered in every reachable state, for any set of requests.
THEOREM QueueStaysOrdered == Spec => []QueueHasOrder
<1> DEFINE Known == {w \in WorkloadIds : state[w] # "absent"}
<1>1. ASSUME IInv PROVE QueueHasOrder
  <2>1. Known \in SUBSET WorkloadIds /\ \A v \in Known : req[v] \in Attributes
    BY <1>1, RequestFacts DEF IInv
  <2>2. StrictlyOrders(QueueOrder(Known), Known)
    BY <2>1, QueueOrdered
  <2>3. ASSUME todo # {}
        PROVE  \E w \in todo : \A u \in todo \ {w} : WorkloadLess(req[w], w, req[u], u)
    <3>1. todo \in SUBSET WorkloadIds /\ (\A v \in todo : state[v] # "absent")
      BY <1>1 DEF IInv, TypeOK, Pending
    <3>2. (\A v \in todo : req[v] \in Attributes) /\ IsFiniteSet(todo)
      BY <1>1, <3>1, RequestFacts, IdsAssumption, FS_Subset DEF IInv
    <3>3. StrictlyOrders(QueueOrder(todo), todo)
      BY <3>1, <3>2, QueueOrdered
    <3>4. PICK f \in todo : \A x \in todo \ {f} : << f, x >> \in QueueOrder(todo)
      BY <2>3, <3>2, <3>3, FirstOfOrder
    <3> QED BY <3>4 DEF QueueOrder
  <2> QED BY <2>2, <2>3 DEF QueueHasOrder
<1> QED BY <1>1, Safety, PTL
==============================================================================
