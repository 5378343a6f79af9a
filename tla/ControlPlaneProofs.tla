-------------------------- MODULE ControlPlaneProofs --------------------------
(***************************************************************************)
(* The processes of ControlPlane use the store only through its            *)
(* operations, whole and one at a time: the composition implements         *)
(* MemoryStore, so what MemoryStoreProofs proves of the store holds for    *)
(* any number of submitting requests, and whatever fails.                  *)
(*                                                                         *)
(* The second part proves that a pass that takes nothing back leaves       *)
(* nothing queued that would fit, and from it that no wakeup is lost:      *)
(* whoever frees capacity owes a pass.  Both rest on what it means to fit: *)
(* the policy is asked for as many nodes as there are replicas, and by     *)
(* DecideSelects it finds them exactly when that many nodes are eligible,  *)
(* whatever their scores.  Placements only make nodes less eligible.       *)
(***************************************************************************)
EXTENDS ControlPlane, MemoryStoreProofs, SchedulerProofs

\* The part of CPTypeOK that does not speak of faults, and the steps of the
\* processes but for faults, whatever is recorded beside them.
ProcessesOK ==
    /\ client \in [Clients -> WorkloadIds \cup {NoWorkload}]
    /\ stage \in Stages
    /\ changed \in BOOLEAN
    /\ recovering \subseteq NodeIds

ProcessStep ==
    \/ \E c \in Clients, w \in WorkloadIds, r \in Requests : SubmitCreate(c, w, r)
    \/ \E c \in Clients : SubmitSchedule(c)
    \/ Reconcile
    \/ Request
    \/ Internal

\* No process leaves its own type.
LEMMA ProcessStepKeepsTypes == ProcessesOK /\ ProcessStep => ProcessesOK'
<1> SUFFICES ASSUME ProcessesOK, ProcessStep PROVE ProcessesOK'
  OBVIOUS
<1> USE DEF ProcessesOK, Stages
<1>1. CASE \E c \in Clients, w \in WorkloadIds, r \in Requests : SubmitCreate(c, w, r)
  BY <1>1 DEF SubmitCreate
<1>2. CASE \E c \in Clients : SubmitSchedule(c)
  BY <1>2 DEF SubmitSchedule
<1>3. CASE ReconcileComplete
  BY <1>3 DEF ReconcileComplete
<1>4. CASE ReconcileList
  BY <1>4 DEF ReconcileList
<1>5. CASE ReconcileHeal
  <2>1. PICK n \in recovering :
           IF health[n] = "absent"
           THEN stage' = "complete" /\ changed' = FALSE /\ recovering' = {}
           ELSE stage' = "heal" /\ changed' = NodeChanged(n)
                                /\ recovering' = recovering \ {n}
    BY <1>5 DEF ReconcileHeal
  <2>2. NodeChanged(n) \in BOOLEAN
    BY DEF NodeChanged
  <2> QED BY <1>5, <2>1, <2>2 DEF ReconcileHeal
<1>6. CASE ReconcileSchedule
  BY <1>6 DEF ReconcileSchedule
<1>7. CASE Request
  BY <1>7 DEF Request, processVars
<1>8. CASE Internal
  BY <1>8 DEF Internal, processVars
<1> QED BY <1>1, <1>2, <1>3, <1>4, <1>5, <1>6, <1>7, <1>8 DEF ProcessStep, Reconcile

\* A step of a process is an operation of the store, a step inside one, or
\* leaves the store alone.
LEMMA ProcessStepIsOperation == ProcessesOK /\ ProcessStep => [Next]_vars
<1> SUFFICES ASSUME ProcessesOK, ProcessStep PROVE [Next]_vars
  OBVIOUS
<1>1. CASE \E c \in Clients, w \in WorkloadIds, r \in Requests : SubmitCreate(c, w, r)
  BY <1>1 DEF SubmitCreate, Next
<1>2. CASE \E c \in Clients : SubmitSchedule(c)
  <2>1. PICK c \in Clients : SubmitSchedule(c)
    BY <1>2
  <2>2. client[c] \in WorkloadIds
    BY <2>1 DEF SubmitSchedule, ProcessesOK
  <2> QED BY <2>1, <2>2 DEF SubmitSchedule, Next
<1>3. CASE ReconcileComplete
  BY <1>3 DEF ReconcileComplete, Next
<1>4. CASE ReconcileList
  BY <1>4 DEF ReconcileList
<1>5. CASE ReconcileHeal
  <2>1. PICK n \in recovering : HealNode(n) \/ UNCHANGED vars
    BY <1>5 DEF ReconcileHeal
  <2> QED BY <2>1 DEF Next, ProcessesOK
<1>6. CASE ReconcileSchedule
  BY <1>6 DEF ReconcileSchedule, Next
<1>7. CASE Request
  BY <1>7 DEF Request, Next
<1>8. CASE Internal
  BY <1>8 DEF Internal, Next
<1> QED BY <1>1, <1>2, <1>3, <1>4, <1>5, <1>6, <1>7, <1>8 DEF ProcessStep, Reconcile

\* A fault leaves the store alone, and puts the processes back to a start.
LEMMA FaultIsHarmless == ProcessesOK /\ Fault => ProcessesOK' /\ UNCHANGED vars
<1> QED BY DEF ProcessesOK, Stages, Fault, SubmitFails, ListFails, ReconcileFails, Crash

\* A step of the control plane is one of a process, or a fault.
LEMMA StepOfControlPlane ==
    [CPNext]_cpVars => ProcessStep \/ Fault \/ UNCHANGED << vars, processVars >>
<1> QED BY DEF CPNext, ProcessStep, Reconcile, cpVars

\* The types of the processes' variables are an inductive invariant.
LEMMA StepKeepsTypes == CPTypeOK /\ [CPNext]_cpVars => CPTypeOK'
<1> SUFFICES ASSUME CPTypeOK, [CPNext]_cpVars PROVE CPTypeOK'
  OBVIOUS
<1>1. ProcessesOK
  BY DEF CPTypeOK, ProcessesOK
<1>2. ProcessesOK'
  BY <1>1, StepOfControlPlane, ProcessStepKeepsTypes, FaultIsHarmless
     DEF ProcessesOK, processVars
<1>3. Excuse => faults' = faults /\ excused' \in BOOLEAN
  BY DEF Excuse
<1>4. Fault => faults' \in 0 .. MaxFaults /\ excused' \in BOOLEAN
  BY MaxFaultsAssumption DEF Fault, CPTypeOK
<1>5. Excuse \/ Fault \/ UNCHANGED auxVars
  BY DEF CPNext, cpVars
<1>6. faults' \in 0 .. MaxFaults /\ excused' \in BOOLEAN
  BY <1>3, <1>4, <1>5 DEF auxVars, CPTypeOK
<1> QED BY <1>2, <1>6 DEF CPTypeOK, ProcessesOK

\* Whatever the clients, the faults and the interleaving, a submission only
\* ever holds a workload of the store's identifiers, the loop is at one of its
\* four calls, and it goes through nodes of the fleet.
THEOREM ProcessTypes == CPSpec => []CPTypeOK
<1>1. ASSUME CPInit PROVE CPTypeOK
  <2>1. 0 \in 0 .. MaxFaults
    BY MaxFaultsAssumption
  <2>2. client \in [Clients -> WorkloadIds \cup {NoWorkload}]
    BY <1>1 DEF CPInit
  <2> QED BY <1>1, <2>1, <2>2 DEF CPInit, CPTypeOK, Stages
<1> QED BY <1>1, StepKeepsTypes, PTL DEF CPSpec

\* What a step of the control plane does to the store is one operation, or none.
LEMMA StepIsOperation == CPTypeOK /\ [CPNext]_cpVars => [Next]_vars
<1>1. CPTypeOK => ProcessesOK
  BY DEF CPTypeOK, ProcessesOK
<1> QED BY <1>1, StepOfControlPlane, ProcessStepIsOperation, FaultIsHarmless

\* The control plane implements the store: every behaviour of the processes,
\* with its crashes and failed calls, is a behaviour of MemoryStore.
THEOREM ImplementsStore == CPSpec => Spec
<1>1. CPInit => Init
  BY DEF CPInit
<1> QED BY <1>1, StepIsOperation, ProcessTypes, PTL DEF CPSpec, Spec

\* Hence the two directions of the placement, the policy and the GPU account
\* hold at every point between and inside the calls of the processes.
THEOREM StoreStaysSound ==
    CPSpec => [](PlacementConsistent /\ PolicyRespected /\ AllocationAccounted)
<1> QED BY ImplementsStore, PlacementAgrees, PolicyHolds, AllocationExact, PTL

\* And no interleaving of requests with the loop makes two workloads evict
\* each other in turn.
THEOREM EvictionsOrdered == CPSpec => EvictionRespectsQueueOrder
<1> QED BY ImplementsStore, EvictionOrdered, PTL
------------------------------------------------------------------------------
(* What fits, passes and wakeups *)

EligibleNodes(w) == {n \in Present : EligibleNode(req[w], NodeView(n))}

\* Fitting is a matter of the number of eligible nodes.
LEMMA FitsByCount ==
    ASSUME StoreInv, NEW w \in WorkloadIds, state[w] # "absent"
    PROVE  /\ Fits(w) <=> Cardinality(EligibleNodes(w)) >= Replicas(w)
           /\ IsFiniteSet(EligibleNodes(w))
<1>1. req[w].gpus \in Int /\ Replicas(w) \in Nat
  BY RequestFacts
<1>2. /\ DOMAIN Nodes = Present /\ Present \subseteq Int /\ IsFiniteSet(Present)
      /\ \A n \in Present : Nodes[n] = NodeView(n)
  <2>1. Present \subseteq NodeIds
    BY DEF Present
  <2>2. IsFiniteSet(Present)
    BY <2>1, IdsAssumption, FS_Subset
  <2>3. DOMAIN Nodes = Present /\ \A n \in Present : Nodes[n] = NodeView(n)
    BY DEF Nodes
  <2> QED BY <2>1, <2>2, <2>3, IdsAssumption
<1>3. \A n \in Present : Nodes[n].total \in Int /\ Nodes[n].alloc \in Int
  BY <1>2, FleetAssumption DEF NodeView, Present, StoreInv, StoreTypeOK
<1>4. {n \in DOMAIN Nodes : EligibleNode(req[w], Nodes[n])} = EligibleNodes(w)
  BY <1>2 DEF EligibleNodes
<1>5. Cardinality(Decide(req[w], Nodes, Replicas(w)))
        = IF Cardinality(EligibleNodes(w)) < Replicas(w)
          THEN Cardinality(EligibleNodes(w)) ELSE Replicas(w)
  BY <1>1, <1>2, <1>3, <1>4, DecideSelects
<1>6. IsFiniteSet(EligibleNodes(w)) /\ Cardinality(EligibleNodes(w)) \in Nat
  BY <1>2, FS_Subset, FS_CardinalityType DEF EligibleNodes
<1> QED BY <1>1, <1>5, <1>6 DEF Fits

\* The same in the next state.
LEMMA FitsByCountAll ==
    StoreInv => \A w \in WorkloadIds : state[w] # "absent" =>
       /\ Fits(w) <=> Cardinality(EligibleNodes(w)) >= Replicas(w)
       /\ IsFiniteSet(EligibleNodes(w))
<1> QED BY FitsByCount

LEMMA FitsByCountNext ==
    (StoreInv => \A w \in WorkloadIds : state[w] # "absent" =>
       /\ Fits(w) <=> Cardinality(EligibleNodes(w)) >= Replicas(w)
       /\ IsFiniteSet(EligibleNodes(w)))'
<1> QED BY FitsByCountAll, PTL

\* What did not fit does not fit while nodes only fill up.
LEMMA FullerStaysFull ==
    ASSUME StoreInv, StoreInv', NEW w \in WorkloadIds,
           state[w] # "absent", state'[w] # "absent",
           UNCHANGED << req, health >>, \A n \in NodeIds : alloc[n] <= alloc'[n],
           ~Fits(w)
    PROVE  ~Fits(w)'
<1>1. Replicas(w)' = Replicas(w) /\ Replicas(w) \in Nat
  BY RequestFacts DEF Replicas
<1>2. EligibleNodes(w)' \in SUBSET EligibleNodes(w)
  <2> SUFFICES ASSUME NEW n \in NodeIds, EligibleNode(req[w], NodeView(n)')
               PROVE  EligibleNode(req[w], NodeView(n))
    BY DEF EligibleNodes, Present
  <2>1. /\ Fleet[n].total \in Nat /\ alloc[n] \in Nat /\ alloc'[n] \in Nat
        /\ alloc[n] <= alloc'[n] /\ req[w].gpus \in Nat
    BY FleetAssumption, RequestFacts DEF StoreInv, StoreTypeOK
  <2> QED BY <2>1 DEF EligibleNode, NodeView, FreeGPUs, SpotCompatible
<1>3. /\ Cardinality(EligibleNodes(w)') <= Cardinality(EligibleNodes(w))
      /\ Cardinality(EligibleNodes(w)) \in Nat /\ Cardinality(EligibleNodes(w)') \in Nat
  BY <1>2, FitsByCount, FS_Subset, FS_CardinalityType
<1> QED BY <1>1, <1>3, FitsByCount, FitsByCountNext

\* A decision that takes nothing back: what stays queued did not fit before, or
\* is w itself, and does not fit now.
LEMMA DecisionLeavesUnfit ==
    ASSUME StoreInv, StoreInv', NEW w \in Pending, ScheduleLocked(w),
           \A v \in WorkloadIds : hosts[v] \subseteq hosts'[v]
    PROVE  /\ Pending' \subseteq Pending
           /\ \A v \in Pending' : v = w \/ ~Fits(v) => ~Fits(v)'
<1>1. /\ UNCHANGED << req, health >>
      /\ w \in WorkloadIds /\ state[w] = "pending" /\ hosts[w] = {}
      /\ req[w].gpus \in Nat
  BY RequestFacts DEF ScheduleLocked, Pending, StoreInv, PlacementConsistent
<1>2. ASSUME NEW how, Reclaim(w, how) PROVE FALSE
  <2>1. PICK n \in ReclaimNodes(w, how) :
           hosts' = [EvictedHosts(VictimsOn(w, n, how), n) EXCEPT ![w] = {n}]
    BY <1>2 DEF Reclaim
  <2>2. PICK v \in VictimsOn(w, n, how) : v \in HostedOn(n)
    BY <1>1, <2>1, ReclaimFacts DEF ReclaimNodes
  <2>3. v \in WorkloadIds /\ n \in hosts[v] /\ v # w
    BY <1>1, <2>2 DEF HostedOn
  <2>4. hosts'[v] = hosts[v] \ {n}
    BY <2>1, <2>2, <2>3 DEF EvictedHosts
  <2> QED BY <2>3, <2>4
<1>3. CASE Place(w)
  <2>1. \A n \in NodeIds : alloc[n] <= alloc'[n]
    BY <1>1, <1>3 DEF Place, StoreInv, StoreTypeOK
  <2>2. Pending' = Pending \ {w}
    BY <1>1, <1>3 DEF Place, Pending, StoreInv, StoreTypeOK
  <2>3. \A v \in Pending' : v \in WorkloadIds /\ v # w /\ state[v] # "absent"
                            /\ state'[v] # "absent"
    BY <2>2 DEF Pending
  <2> QED BY <1>1, <2>1, <2>2, <2>3, FullerStaysFull
<1>4. CASE ~Fits(w) /\ UNCHANGED << state, hosts, left, alloc, running >>
  <2>1. Pending' = Pending
    BY <1>4 DEF Pending
  <2>2. \A v \in WorkloadIds : Fits(v)' <=> Fits(v)
    BY <1>1, <1>4 DEF Fits, Nodes, Present, NodeView, Replicas
  <2> QED BY <1>4, <2>1, <2>2 DEF Pending
<1> QED BY <1>2, <1>3, <1>4 DEF ScheduleLocked

\* Inside a pass that has taken nothing back, what it has refused does not fit.
RefusedUnfit ==
    todo # {} /\ ~preempted => \A w \in Pending \ todo : ~Fits(w)

\* One workload of a pass.
LEMMA PassStepLeavesUnfit ==
    ASSUME IInv, RefusedUnfit, PassStep, ~preempted,
           \A v \in WorkloadIds : hosts[v] \subseteq hosts'[v]
    PROVE  \A w \in Pending' \ todo' : ~Fits(w)'
<1>1. PICK w \in todo : ScheduleLocked(w) /\ todo' = todo \ {w}
  BY DEF PassStep
<1>2. w \in Pending /\ StoreInv /\ StoreInv'
  BY <1>1, NextIInv DEF IInv, TypeOK, Next
<1>3. /\ Pending' \subseteq Pending
      /\ \A v \in Pending' : v = w \/ ~Fits(v) => ~Fits(v)'
  BY <1>1, <1>2, DecisionLeavesUnfit
<1>4. \A v \in Pending \ todo : ~Fits(v)
  BY <1>1 DEF RefusedUnfit
<1> QED BY <1>1, <1>3, <1>4

\* Every other operation begins a pass with all that is queued, or none.
LEMMA OperationBeginsPass ==
    ASSUME [Next]_vars
    PROVE  \/ PassStep
           \/ LockFree /\ (todo' = {} \/ (todo' = Pending' /\ ~preempted'))
           \/ UNCHANGED vars
<1>1. ASSUME \/ SchedulePendingWorkloads
             \/ \E n \in NodeIds : FailNode(n) \/ PreemptSpotNode(n) \/ RecoverNode(n)
      PROVE  LockFree /\ todo' = Pending' /\ ~preempted'
  BY <1>1 DEF SchedulePendingWorkloads, FailNode, PreemptSpotNode, RecoverNode, Disrupt,
              BeginPass
<1>2. ASSUME \/ \E w \in WorkloadIds, r \in Requests : CreateWorkload(w, r)
             \/ \E w \in WorkloadIds : ScheduleWorkload(w)
             \/ \E n \in NodeIds : HealNode(n)
             \/ CompleteExpiredWorkloads \/ Tick
      PROVE  LockFree /\ todo' = {}
  BY <1>2 DEF CreateWorkload, ScheduleWorkload, HealNode, CompleteExpiredWorkloads, Tick,
              LockFree, passVars
<1>3. ASSUME Clear \/ SeedDemoData PROVE LockFree /\ todo' = {}
  BY <1>3 DEF Clear, SeedDemoData, LockFree, passVars
<1> QED BY <1>1, <1>2, <1>3 DEF Next

\* The invariant of a pass is kept.
LEMMA RefusedUnfitKept == IInv /\ RefusedUnfit /\ [Next]_vars => RefusedUnfit'
<1> SUFFICES ASSUME IInv, RefusedUnfit, [Next]_vars, todo' # {}, ~preempted'
             PROVE  \A w \in Pending' \ todo' : ~Fits(w)'
  BY DEF RefusedUnfit
<1>1. CASE PassStep
  <2>1. ~preempted /\ \A v \in WorkloadIds : hosts[v] \subseteq hosts'[v]
    BY <1>1 DEF PassStep
  <2> QED BY <1>1, <2>1, PassStepLeavesUnfit
<1>2. CASE todo' = Pending'
  BY <1>2
<1>3. CASE UNCHANGED vars
  BY <1>3 DEF RefusedUnfit, vars, workloadVars, nodeVars, passVars, Pending,
              Fits, Nodes, Present, NodeView, Replicas
<1> QED BY <1>1, <1>2, <1>3, OperationBeginsPass

\* A pass that takes nothing back leaves nothing queued that fits, whatever the
\* fleet, the queue and the policy's scores.
THEOREM PassConserves == Spec => PassIsWorkConserving
<1> DEFINE Conserves ==
      (/\ todo # {} /\ todo' = {} /\ ~preempted
       /\ \A v \in WorkloadIds : hosts[v] \subseteq hosts'[v])
      => \A w \in WorkloadIds : ~(state[w] = "pending" /\ Fits(w))'
<1>1. IInv /\ RefusedUnfit /\ [Next]_vars => [Conserves]_vars
  <2> SUFFICES ASSUME IInv, RefusedUnfit, [Next]_vars, todo # {}, todo' = {}, ~preempted,
                      \A v \in WorkloadIds : hosts[v] \subseteq hosts'[v],
                      NEW w \in WorkloadIds
               PROVE  ~(state[w] = "pending" /\ Fits(w))'
    OBVIOUS
  <2>1. PassStep
    BY OperationBeginsPass DEF LockFree, vars, passVars
  <2>2. \A v \in Pending' : ~Fits(v)'
    BY <2>1, PassStepLeavesUnfit
  <2> QED BY <2>2 DEF Pending
<1>2. Init => RefusedUnfit
  BY DEF Init, RefusedUnfit
<1>3. Spec => [][Conserves]_vars
  BY <1>1, <1>2, RefusedUnfitKept, Safety, PTL DEF Spec
<1> QED BY <1>3 DEF PassIsWorkConserving
------------------------------------------------------------------------------
\* A pass that has taken something back leaves it excused.
PreemptionExcused == todo # {} /\ preempted => excused

Owed(w) ==
    \/ \E c \in Clients : client[c] = w
    \/ stage # "complete" /\ changed

WakeupInv == RefusedUnfit /\ PreemptionExcused /\ NoLostWakeup

\* Fitting is a matter of the request and of the fleet.
LEMMA FitsSame ==
    ASSUME NEW w, req'[w] = req[w], UNCHANGED << health, alloc >>
    PROVE  Fits(w)' <=> Fits(w)
<1>1. Nodes' = Nodes /\ Replicas(w)' = Replicas(w)
  BY DEF Nodes, Present, NodeView, Replicas
<1> QED BY <1>1 DEF Fits

\* On no fleet, nothing fits.
LEMMA NothingFitsNowhere ==
    ASSUME StoreInv, Present = {}, NEW w \in Pending
    PROVE  ~Fits(w)
<1>1. w \in WorkloadIds /\ state[w] # "absent"
  BY DEF Pending
<1>2. EligibleNodes(w) = {}
  BY DEF EligibleNodes
<1> QED BY <1>1, <1>2, FitsByCount, RequestFacts, FS_EmptySet

\* Replicas that a decision takes away are taken back from running work.
LEMMA TakenIsDisplaced ==
    ASSUME StoreInv, NEW w \in Pending, ScheduleLocked(w), ~SeedDemoData,
           NEW v \in WorkloadIds, ~(hosts[v] \subseteq hosts'[v])
    PROVE  Displaced(v)
<1>1. state[v] = "running" /\ v # w /\ health' = health /\ w \in WorkloadIds
  BY DEF StoreInv, PlacementConsistent, Pending, ScheduleLocked
<1>2. state'[v] \in {"running", "pending"}
  <2>1. CASE Place(w)
    BY <1>1, <2>1 DEF Place, StoreInv, StoreTypeOK
  <2>2. ASSUME NEW how, Reclaim(w, how) PROVE state'[v] \in {"running", "pending"}
    BY <1>1, <2>2 DEF Reclaim, EvictedState
  <2> QED BY <1>1, <2>1, <2>2 DEF ScheduleLocked
<1> QED BY <1>1, <1>2 DEF Displaced

\* Every step of the control plane is one of a process, and excuses what it
\* takes back, or it is a fault.
LEMMA StepExcuses ==
    [CPNext]_cpVars => (ProcessStep /\ Excuse) \/ Fault \/ UNCHANGED cpVars
<1> QED BY DEF CPNext, ProcessStep, Reconcile

\* A pass ends unexcused only if it has refused all that stays queued.
LEMMA PassEndsUnfit ==
    ASSUME IInv, RefusedUnfit, PreemptionExcused, PassStep, Excuse, todo' = {}, ~excused'
    PROVE  \A w \in Pending' : ~Fits(w)'
<1>1. todo # {} /\ \E w \in Pending : ScheduleLocked(w)
  BY DEF PassStep, IInv, TypeOK
<1>2. ~preempted
  BY <1>1 DEF Excuse, PreemptionExcused, PassEnds
<1>3. \A v \in WorkloadIds : hosts[v] \subseteq hosts'[v]
  BY <1>1, TakenIsDisplaced DEF Excuse, IInv
<1> QED BY <1>2, <1>3, PassStepLeavesUnfit

\* Outside a pass, a step of a process leaves nothing queued that fits and is
\* owed nothing.  One step per operation.
LEMMA ProcessKeepsWakeups ==
    ASSUME IInv, ProcessesOK, WholeFleet, NoLostWakeup, LockFree, ProcessStep, Excuse,
           ~excused', todo' = {}, NEW v \in Pending', Fits(v)'
    PROVE  Owed(v)'
<1>1. /\ ~excused /\ ~SeedDemoData /\ \A u \in WorkloadIds : ~Displaced(u)
      /\ \A w \in Pending : Fits(w) => Owed(w)
  BY DEF Excuse, PassEnds, LockFree, NoLostWakeup, Owed
<1>2. StoreInv /\ v \in WorkloadIds
  BY DEF IInv, Pending
<1>3. ASSUME UNCHANGED vars PROVE v \in Pending /\ Fits(v) /\ Owed(v)
  <2>1. v \in Pending /\ Fits(v)
    BY <1>3, FitsSame DEF vars, workloadVars, nodeVars, Pending
  <2> QED BY <1>1, <2>1
<1>4. CASE \E c \in Clients, w \in WorkloadIds, r \in Requests : SubmitCreate(c, w, r)
  <2>1. PICK c \in Clients, w \in WorkloadIds, r \in Requests : SubmitCreate(c, w, r)
    BY <1>4
  <2>2. CASE v = w
    BY <2>1, <2>2 DEF SubmitCreate, ProcessesOK, Owed
  <2>3. CASE v # w
    <3>1. v \in Pending /\ req'[v] = req[v] /\ UNCHANGED << health, alloc >>
      BY <1>2, <2>1, <2>3
         DEF SubmitCreate, CreateWorkload, Pending, StoreInv, StoreTypeOK, nodeVars
    <3>2. Owed(v)
      BY <1>1, <3>1, FitsSame
    <3>3. \A d \in Clients : client[d] = v => client'[d] = v
      BY <1>2, <2>1, NoWorkloadAssumption DEF SubmitCreate, ProcessesOK
    <3> QED BY <2>1, <3>2, <3>3 DEF SubmitCreate, Owed
  <2> QED BY <2>2, <2>3
<1>5. CASE \E c \in Clients : SubmitSchedule(c)
  <2>1. PICK c \in Clients : SubmitSchedule(c)
    BY <1>5
  <2>2. v # client[c] /\ Owed(v)
    <3>1. CASE state[client[c]] # "pending" /\ UNCHANGED vars
      BY <1>3, <3>1 DEF Pending
    <3>2. CASE ScheduleWorkload(client[c])
      <4>1. client[c] \in Pending /\ ScheduleLocked(client[c])
        BY <2>1, <3>2 DEF ScheduleWorkload, SubmitSchedule, ProcessesOK, Pending
      <4>2. \A u \in WorkloadIds : hosts[u] \subseteq hosts'[u]
        BY <1>1, <1>2, <4>1, TakenIsDisplaced
      <4>3. StoreInv'
        BY <1>2, <4>1, ScheduleLockedPreserves
      <4>4. v \in Pending /\ v # client[c] /\ Fits(v)
        BY <1>2, <4>1, <4>2, <4>3, DecisionLeavesUnfit
      <4> QED BY <1>1, <4>4
    <3> QED BY <2>1, <3>1, <3>2 DEF SubmitSchedule
  <2>3. \A d \in Clients : client[d] = v => client'[d] = v
    BY <2>1, <2>2 DEF SubmitSchedule, ProcessesOK
  <2> QED BY <2>1, <2>2, <2>3 DEF SubmitSchedule, Owed
<1>6. CASE ReconcileComplete
  <2>1. CASE Expired # {}
    BY <1>6, <2>1 DEF ReconcileComplete, Owed
  <2>2. CASE Expired = {}
    <3>1. \A n \in NodeIds : Released(n) = 0
      BY <2>2, GPUsOfNobody DEF Released, GPUsOf
    <3>2. alloc' = alloc
      BY <1>2, <1>6, <3>1
         DEF ReconcileComplete, CompleteExpiredWorkloads, StoreInv, StoreTypeOK, AtLeast
    <3>3. v \in Pending /\ req' = req /\ health' = health
      BY <1>2, <1>6, <2>2 DEF ReconcileComplete, CompleteExpiredWorkloads, Pending
    <3>4. Owed(v)
      BY <1>1, <3>2, <3>3, FitsSame
    <3> QED BY <1>6, <3>4 DEF ReconcileComplete, Owed
  <2> QED BY <2>1, <2>2
<1>7. CASE ReconcileList
  BY <1>3, <1>7 DEF ReconcileList, Owed
<1>8. CASE ReconcileHeal
  <2>1. PICK n \in recovering :
           /\ HealNode(n) \/ (health[n] # "recovering" /\ UNCHANGED vars)
           /\ health[n] # "absent" => stage' = "heal" /\ changed' = NodeChanged(n)
    BY <1>8 DEF ReconcileHeal
  <2>2. n \in NodeIds /\ client' = client /\ stage = "heal"
    BY <1>8 DEF ProcessesOK, ReconcileHeal
  <2>3. CASE HealNode(n)
    BY <1>2, <2>1, <2>2, <2>3 DEF HealNode, NodeChanged, Owed, StoreInv, StoreTypeOK
  <2>4. CASE health[n] = "absent" /\ UNCHANGED vars
    <3>1. Present = {}
      BY <2>2, <2>4 DEF WholeFleet, Present
    <3> QED BY <1>2, <1>3, <2>4, <3>1, NothingFitsNowhere
  <2>5. CASE health[n] # "absent" /\ UNCHANGED vars
    BY <1>3, <2>1, <2>2, <2>5 DEF NodeChanged, Owed
  <2> QED BY <2>1, <2>3, <2>4, <2>5
<1>9. CASE ReconcileSchedule
  <2>1. CASE changed
    BY <1>9, <2>1 DEF ReconcileSchedule, SchedulePendingWorkloads, BeginPass
  <2>2. CASE ~changed
    BY <1>3, <1>9, <2>2 DEF ReconcileSchedule, Owed
  <2> QED BY <2>1, <2>2
<1>10. CASE Request
  <2>1. CASE \/ SchedulePendingWorkloads
             \/ \E n \in NodeIds : FailNode(n) \/ PreemptSpotNode(n) \/ RecoverNode(n)
    BY <2>1 DEF SchedulePendingWorkloads, FailNode, PreemptSpotNode, RecoverNode, Disrupt,
                BeginPass
  <2>2. CASE Clear
    BY <2>2 DEF Clear, Pending
  <2> QED BY <1>1, <1>10, <2>1, <2>2 DEF Request
<1>11. CASE Internal
  <2>1. Tick
    BY <1>11 DEF Internal, PassStep, LockFree
  <2>2. v \in Pending /\ Fits(v)
    BY <2>1, FitsSame DEF Tick, Pending, nodeVars
  <2> QED BY <1>1, <1>11, <2>2 DEF Internal, processVars, Owed
<1> QED BY <1>4, <1>5, <1>6, <1>7, <1>8, <1>9, <1>10, <1>11 DEF ProcessStep, Reconcile

\* A step of the control plane keeps the invariant.
LEMMA WakeupKept ==
    IInv /\ CPTypeOK /\ WholeFleet /\ WakeupInv /\ [CPNext]_cpVars => WakeupInv'
<1> SUFFICES ASSUME IInv, CPTypeOK, WholeFleet, WakeupInv, [CPNext]_cpVars
             PROVE  WakeupInv'
  OBVIOUS
<1> USE DEF WakeupInv
<1>1. [Next]_vars /\ ProcessesOK
  BY StepIsOperation DEF CPTypeOK, ProcessesOK
<1>2. RefusedUnfit'
  BY <1>1, RefusedUnfitKept
<1>3. CASE Fault
  BY <1>2, <1>3 DEF Fault, PreemptionExcused, NoLostWakeup
<1>4. CASE UNCHANGED cpVars
  <2>1. NoLostWakeup'
    BY <1>4, FitsSame DEF NoLostWakeup, LockFree, Pending, cpVars, vars, workloadVars,
                          nodeVars, passVars, processVars, auxVars
  <2>2. PreemptionExcused'
    BY <1>4 DEF PreemptionExcused, cpVars, vars, passVars, auxVars
  <2> QED BY <1>2, <2>1, <2>2
<1>5. CASE ProcessStep /\ Excuse
  <2>1. PreemptionExcused'
    <3> SUFFICES ASSUME todo' # {}, preempted', ~excused' PROVE FALSE
      BY DEF PreemptionExcused
    <3>1. CASE PassStep
      <4>1. todo # {} /\ \E w \in Pending : ScheduleLocked(w)
        BY <3>1 DEF PassStep, IInv, TypeOK
      <4>2. ~preempted
        BY <1>5, <4>1 DEF Excuse, PassEnds, PreemptionExcused
      <4>3. \E v \in WorkloadIds : ~(hosts[v] \subseteq hosts'[v])
        BY <3>1, <4>2 DEF PassStep
      <4> QED BY <1>5, <4>1, <4>3, TakenIsDisplaced DEF Excuse, IInv
    <3>2. CASE UNCHANGED vars
      BY <1>5, <3>2 DEF vars, passVars, Excuse, PassEnds, PreemptionExcused
    <3> QED BY <1>1, <3>1, <3>2, OperationBeginsPass
  <2>2. NoLostWakeup'
    <3> SUFFICES ASSUME todo' = {}, ~excused', NEW v \in Pending', Fits(v)' PROVE Owed(v)'
      BY DEF NoLostWakeup, LockFree, Owed
    <3>1. CASE LockFree
      BY <1>1, <1>5, <3>1, ProcessKeepsWakeups
    <3>2. CASE PassStep
      BY <1>5, <3>2, PassEndsUnfit
    <3>3. LockFree \/ PassStep
      BY <1>1, OperationBeginsPass DEF LockFree, vars, passVars
    <3> QED BY <3>1, <3>2, <3>3
  <2> QED BY <1>2, <2>1, <2>2
<1> QED BY <1>3, <1>4, <1>5, StepExcuses

\* No interleaving of submissions, the administrator's requests and the rounds
\* of the loop leaves work queued that fits and that nobody is going to try,
\* for any number of clients, workloads and nodes.
THEOREM NoWakeupLost == CPSpec => []NoLostWakeup
<1>1. CPInit => WholeFleet /\ WakeupInv
  BY DEF CPInit, Init, WholeFleet, Present, WakeupInv, RefusedUnfit, PreemptionExcused,
         NoLostWakeup, Pending
<1>2. IInv => TypeOK
  BY DEF IInv
<1>3. CPSpec => [](IInv /\ CPTypeOK)
  BY ImplementsStore, Safety, ProcessTypes, PTL
<1>4. CPSpec => []WholeFleet
  BY <1>1, <1>2, <1>3, StepIsOperation, WholeFleetKept, PTL DEF CPSpec
<1> QED BY <1>1, <1>3, <1>4, WakeupKept, PTL DEF CPSpec, WakeupInv
===============================================================================
