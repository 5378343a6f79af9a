------------------------------- MODULE LogProofs -------------------------------
(***************************************************************************)
(* What the service tells: its events and its samples.  The newest event   *)
(* about a workload tells its state, and the newest samples show the       *)
(* present state, though both are recorded some time after what they tell  *)
(* of, by any number of threads.                                           *)
(*                                                                         *)
(* For the log, every step accounts for what it changes (StepAccounts): an *)
(* event is owed for it, or the workload is in the hands of a pass or of a *)
(* decision.  For the samples, every step that changes something leaves a  *)
(* sample to come (StepObliges), and a fresh sample once recorded is       *)
(* followed by no more than the stale ones that were due at the time.      *)
(***************************************************************************)
EXTENDS ServiceProofs, SequenceTheorems

Events == [about : WorkloadIds, kind : EventKinds]

\* Event kind k tells that a workload is in state st.
Tells(k, st) ==
    /\ k \in {"submitted", "queued", "pending"} => st = "pending"
    /\ k \in {"scheduled", "disrupted", "running"} => st = "running"
    /\ k = "completed" => st = "completed"

\* The events s account for a step: each of them tells the state it has led to,
\* unless the pass under way has still to try the workload; a workload without
\* an event keeps its state, or is queued again by a decision.
Reports(s) ==
    /\ \A i \in DOMAIN s : Tells(s[i].kind, state'[s[i].about]) \/ s[i].about \in todo'
    /\ \A w \in WorkloadIds \ About(s) : state'[w] = state[w] \/ QueuedAgain(w) \/ w \in todo'
    /\ todo \ todo' \subseteq About(s)

\* So do the events of a narrative, for which no pass is under way.
Narrates(n) == \A i \in DOMAIN n : Tells(n[i].kind, state'[n[i].about])

\* EventsOf makes one event for every workload of a set, of the kind asked for.
LEMMA EventsOfSet ==
    ASSUME NEW S \in SUBSET WorkloadIds, NEW k \in EventKinds
    PROVE  LET s == EventsOf(S, k)
           IN  /\ s \in Seq(Events) /\ About(s) = S
               /\ \A i \in DOMAIN s : s[i].kind = k /\ s[i].about \in S
<1> DEFINE E == {Event(w, k) : w \in S}
           s == EventsOf(S, k)
<1>1. IsFiniteSet(S)
  BY IdsAssumption, FS_Subset
<1>2. IsFiniteSet(E)
  <2>1. [w \in S |-> Event(w, k)] \in Surjection(S, E)
    BY DEF Surjection
  <2> QED BY <1>1, <2>1, FS_Surjection
<1>3. PICK f : f \in Bijection(1 .. Cardinality(E), E)
  BY <1>2, FS_CardinalityType DEF ExistsBijection
<1>4. f \in [1 .. Cardinality(E) -> E] /\ IsInjective(f)
  BY <1>3 DEF Bijection, Injection, Surjection, IsInjective, IsInjective
<1>5. s \in [1 .. Cardinality(E) -> E] /\ IsInjective(s)
  <2>1. s = CHOOSE g \in [1 .. Cardinality(E) -> E] : IsInjective(g)
    BY DEF EventsOf, SetToSeq
  <2> HIDE DEF s, E
  <2> QED BY <1>4, <2>1
<1>6. Cardinality(E) \in Nat
  BY <1>2, FS_CardinalityType
<1>7. s \in Bijection(1 .. Cardinality(E), E)
  <2>1. s \in Injection(1 .. Cardinality(E), E)
    BY <1>5 DEF Injection, IsInjective, IsInjective
  <2>2. IsFiniteSet(1 .. Cardinality(E)) /\ Cardinality(1 .. Cardinality(E)) = Cardinality(E)
    BY <1>6, FS_Interval
  <2> QED BY <1>2, <2>1, <2>2, FS_Injection DEF Bijection
<1> HIDE DEF s
<1>8. s \in Seq(E) /\ DOMAIN s = 1 .. Cardinality(E)
  BY <1>5, <1>6, SeqDef
<1>9. E \subseteq Events
  BY DEF Events, Event
<1>10. \A i \in DOMAIN s : s[i] \in E
  BY <1>5, <1>8
<1>11. \A e \in E : \E i \in DOMAIN s : s[i] = e
  BY <1>7, <1>8 DEF Bijection, Surjection
<1>12. \A e \in E : e.about \in S /\ e.kind = k
  BY DEF Event
<1>13. \A w \in S : Event(w, k) \in E /\ Event(w, k).about = w
  BY DEF Event
<1>14. About(s) = S
  BY <1>10, <1>11, <1>12, <1>13 DEF About
<1>15. s \in Seq(Events)
  BY <1>8, <1>9, SeqMonotonic
<1>16. \A i \in DOMAIN s : s[i].kind = k /\ s[i].about \in S
  BY <1>10, <1>12
<1> QED BY <1>14, <1>15, <1>16 DEF s

\* A decision about w leaves it queued or running, and every other workload in
\* its state, or queued again.
LEMMA DecisionOnStates ==
    ASSUME StoreInv, NEW w \in WorkloadIds, state[w] = "pending", ScheduleLocked(w)
    PROVE  /\ state'[w] \in {"pending", "running"}
           /\ \A v \in WorkloadIds \ {w} : state'[v] = state[v] \/ QueuedAgain(v)
<1>1. state \in [WorkloadIds -> {"absent", "pending", "running", "completed"}]
  BY DEF StoreInv, StoreTypeOK
<1>2. CASE Place(w)
  BY <1>1, <1>2 DEF Place
<1>3. CASE \E how \in {"preempt", "rebalance"} : Reclaim(w, how)
  <2>1. PICK how, n :
           LET V == VictimsOn(w, n, how)
           IN  state' = [EvictedState(V, n) EXCEPT ![w] = "running"]
    BY <1>3 DEF Reclaim
  <2> DEFINE V == VictimsOn(w, n, how)
  <2>2. \A v \in V : state[v] = "running"
    BY DEF VictimsOn, Prefix
  <2>3. EvictedState(V, n) = [v \in WorkloadIds |->
           IF v \in V /\ hosts[v] = {n} THEN "pending" ELSE state[v]]
    BY DEF EvictedState
  <2> HIDE DEF V
  <2>4. state' = [EvictedState(V, n) EXCEPT ![w] = "running"]
    BY <2>1 DEF V
  <2> QED BY <1>1, <2>2, <2>3, <2>4 DEF QueuedAgain
<1>4. CASE UNCHANGED state
  BY <1>1, <1>4
<1> QED BY <1>2, <1>3, <1>4 DEF ScheduleLocked

\* The events of one workload.
LEMMA OneEvent ==
    ASSUME NEW w \in WorkloadIds, NEW k \in EventKinds
    PROVE  LET s == << Event(w, k) >>
           IN  /\ s \in Seq(Events) /\ About(s) = {w}
               /\ DOMAIN s = {1} /\ s[1].about = w /\ s[1].kind = k
<1>1. Event(w, k) \in Events /\ Event(w, k).about = w /\ Event(w, k).kind = k
  BY DEF Event, Events
<1> QED BY <1>1 DEF About

\* No events are a sequence of events.
LEMMA NoEvent == << >> \in Seq(Events) /\ About(<< >>) = {} /\ DOMAIN << >> = {}
<1> QED BY DEF About

\* The log is left alone and so are the states, or a call accounts for what it
\* has changed.
Accounted ==
    \/ \E t \in Threads, s, n \in Seq(Events) :
          Report(t, s, n) /\ Reports(s) /\ Narrates(n) /\ UNCHANGED latest
    \/ UNCHANGED << state, todo, logVars >>

\* A call with no narrative accounts by its events.
LEMMA LogAccounts ==
    ASSUME NEW t \in Threads, NEW s \in Seq(Events), Log(t, s), Reports(s), UNCHANGED latest
    PROVE  Accounted
<1>1. << >> \in Seq(Events) /\ Narrates(<< >>)
  BY NoEvent DEF Narrates
<1> QED BY <1>1 DEF Accounted, Log

\* A call without events that leaves the states alone, and does not finish a
\* pass, accounts for it.
LEMMA QuietStep ==
    ASSUME NEW t \in Threads, Log(t, << >>), UNCHANGED << state, latest >>, LockFree
    PROVE  Accounted
<1>1. << >> \in Seq(Events) /\ Reports(<< >>)
  BY NoEvent DEF Reports, LockFree
<1> QED BY <1>1, LogAccounts

\* A submission owes the event of what it has created.
LEMMA SubmitAccounts ==
    ASSUME StoreInv, NEW c \in Clients, NEW r \in Requests, Submit(c, r)
    PROVE  Accounted
<1>1. PICK w \in WorkloadIds : SubmitCreate(c, w, r) /\ Log(c, << Event(w, "submitted") >>)
  BY ScriptFacts DEF Submit, Fresh
<1>2. /\ state' = [state EXCEPT ![w] = "pending"] /\ UNCHANGED todo /\ LockFree
      /\ state \in [WorkloadIds -> {"absent", "pending", "running", "completed"}]
  BY <1>1 DEF SubmitCreate, CreateWorkload, passVars, StoreInv, StoreTypeOK
<1> DEFINE s == << Event(w, "submitted") >>
<1>3. /\ s \in Seq(Events) /\ About(s) = {w}
      /\ DOMAIN s = {1} /\ s[1].about = w /\ s[1].kind = "submitted"
  <2>1. "submitted" \in EventKinds
    BY DEF EventKinds
  <2> QED BY <2>1, OneEvent
<1> HIDE DEF s
<1>4. Reports(s)
  BY <1>2, <1>3 DEF Reports, Tells, LockFree
<1> QED BY <1>1, <1>3, <1>4, LogAccounts DEF Submit, Threads, s

\* The event of a scheduling decision tells what has become of its workload.
LEMMA ResultReports ==
    ASSUME StoreInv, NEW w \in WorkloadIds, state[w] = "pending", ScheduleLocked(w),
           todo \ todo' \subseteq {w}
    PROVE  << Result(w) >> \in Seq(Events) /\ Reports(<< Result(w) >>)
<1> DEFINE k == IF state'[w] = "running" THEN "scheduled" ELSE "queued"
           s == << Event(w, k) >>
<1>1. k \in EventKinds
  BY DEF EventKinds
<1>2. /\ s \in Seq(Events) /\ About(s) = {w}
      /\ DOMAIN s = {1} /\ s[1].about = w /\ s[1].kind = k
  BY <1>1, OneEvent
<1>3. s = << Result(w) >>
  BY DEF Result
<1>4. /\ state'[w] \in {"pending", "running"}
      /\ \A v \in WorkloadIds \ {w} : state'[v] = state[v] \/ QueuedAgain(v)
  BY DecisionOnStates
<1> HIDE DEF s
<1>5. Reports(s)
  BY <1>2, <1>4 DEF Reports, Tells
<1> QED BY <1>2, <1>3, <1>5

\* What a submission returns is pending, running or has completed already.
LEMMA ReturnedStates ==
    ASSUME StoreInv, NEW c \in Clients, Schedule(c), client[c] \in WorkloadIds,
           state'[client[c]] # "absent"
    PROVE  state'[client[c]] \in {"pending", "running", "completed"}
<1> DEFINE w == client[c]
<1>1. CASE state[w] = "pending"
  <2>1. ScheduleLocked(w)
    BY <1>1 DEF Schedule, SubmitSchedule, ScheduleWorkload
  <2> QED BY <1>1, <2>1, DecisionOnStates
<1>2. CASE state[w] # "pending"
  <2>1. UNCHANGED state
    BY <1>2 DEF Schedule, SubmitSchedule, ScheduleWorkload, vars, workloadVars
  <2> QED BY <2>1 DEF StoreInv, StoreTypeOK
<1> QED BY <1>1, <1>2

\* A submission owes the result of its decision, if there was one to take, and
\* what it returns to a simulation tells of the state it has led to.
LEMMA ScheduleAccounts ==
    ASSUME StoreInv, ProcessesOK, NEW c \in Clients, Schedule(c)
    PROVE  Accounted
<1>1. client[c] \in WorkloadIds
  BY DEF Schedule, SubmitSchedule, ProcessesOK
<1> DEFINE w == client[c]
           s == Outcome(w)
           n == Returned(c)
<1>2. c \in Threads /\ Report(c, s, n) /\ UNCHANGED latest
  BY DEF Schedule, Threads
<1>3. s \in Seq(Events) /\ Reports(s)
  <2>1. CASE state[w] = "pending"
    <3>1. ScheduleLocked(w) /\ UNCHANGED todo
      BY <2>1 DEF Schedule, SubmitSchedule, ScheduleWorkload, passVars
    <3> QED BY <1>1, <2>1, <3>1, ResultReports DEF Outcome
  <2>2. CASE state[w] # "pending"
    <3>1. UNCHANGED << state, todo >> /\ LockFree
      BY <2>2 DEF Schedule, SubmitSchedule, ScheduleWorkload, vars, workloadVars, passVars
    <3>2. s = << >>
      BY <2>2 DEF Outcome
    <3> HIDE DEF s
    <3> QED BY <3>1, <3>2, NoEvent DEF Reports, LockFree
  <2> QED BY <2>1, <2>2
<1>4. n \in Seq(Events) /\ Narrates(n)
  <2>1. CASE n = << >>
    <3> HIDE DEF n
    <3> QED BY <2>1, NoEvent DEF Narrates
  <2>2. CASE n # << >>
    <3>1. n = << Event(w, state'[w]) >> /\ state'[w] # "absent"
      BY <2>2 DEF Returned
    <3>2. state'[w] \in {"pending", "running", "completed"}
      BY <1>1, <3>1, ReturnedStates
    <3>3. state'[w] \in EventKinds
      BY <3>2 DEF EventKinds
    <3>4. /\ n \in Seq(Events) /\ DOMAIN n = {1}
          /\ n[1].about = w /\ n[1].kind = state'[w]
      BY <1>1, <3>1, <3>3, OneEvent
    <3> HIDE DEF n
    <3> QED BY <3>2, <3>4 DEF Narrates, Tells
  <2> QED BY <2>1, <2>2
<1> HIDE DEF s, n
<1> QED BY <1>2, <1>3, <1>4 DEF Accounted

\* The failure of a node owes an event for every workload it hosted: what is
\* not running any more is in the hands of the pass that follows.
LEMMA DisruptsAccounts ==
    ASSUME StoreInv, NEW c \in Clients, NEW n, NEW how, Disrupts(c, n, how)
    PROVE  Accounted
<1> DEFINE s == EventsOf(HostedOn(n), "disrupted")
<1>1. Disrupt(n) /\ Log(c, s) /\ UNCHANGED latest
  BY DEF Disrupts, FailNode, PreemptSpotNode
<1>2. /\ s \in Seq(Events) /\ About(s) = HostedOn(n)
      /\ \A i \in DOMAIN s : s[i].kind = "disrupted" /\ s[i].about \in HostedOn(n)
  BY EventsOfSet DEF HostedOn, EventKinds
<1>3. /\ todo = {} /\ todo' = Pending'
      /\ state' = [v \in WorkloadIds |->
                      IF v \in HostedOn(n) /\ hosts[v] = {n} THEN "pending" ELSE state[v]]
  BY <1>1 DEF Disrupt, BeginPass, LockFree, EvictedState
<1>4. \A v \in HostedOn(n) : v \in WorkloadIds /\ state[v] = "running"
  BY DEF HostedOn, StoreInv, PlacementConsistent
<1> HIDE DEF s
<1>5. \A v \in HostedOn(n) : state'[v] = "running" \/ v \in todo'
  BY <1>3, <1>4 DEF Pending
<1>6. Reports(s)
  BY <1>2, <1>3, <1>5 DEF Reports, Tells
<1> QED BY <1>1, <1>2, <1>6, LogAccounts DEF Threads

\* A pass owes the result of every workload it tries.
LEMMA PassAccounts == ASSUME IInv, Pass, holder \in Threads PROVE Accounted
<1>1. PICK x \in todo \ todo' : Log(holder, << Result(x) >>)
  BY DEF Pass
<1>2. PICK w \in todo : ScheduleLocked(w) /\ todo' = todo \ {w}
  BY DEF Pass, PassStep
<1>3. x = w
  BY <1>1, <1>2
<1>4. w \in WorkloadIds /\ state[w] = "pending" /\ StoreInv
  BY <1>2 DEF IInv, TypeOK, Pending
<1>5. todo \ todo' \subseteq {w}
  BY <1>2
<1>6. << Result(w) >> \in Seq(Events) /\ Reports(<< Result(w) >>)
  BY <1>2, <1>4, <1>5, ResultReports
<1> QED BY <1>1, <1>3, <1>6, LogAccounts DEF Pass

\* The loop owes an event for every workload it completes, and changes no
\* state otherwise.
LEMMA LoopAccounts == ASSUME StoreInv, LoopStep PROVE Accounted
<1>0. Loop \in Threads /\ LockFree /\ UNCHANGED latest
  BY DEF Threads, LoopStep, Ready
<1>1. CASE ReconcileComplete /\ Log(Loop, EventsOf(Expired, "completed"))
  <2> DEFINE s == EventsOf(Expired, "completed")
  <2>1. "completed" \in EventKinds /\ Expired \in SUBSET WorkloadIds
    BY DEF EventKinds, Expired
  <2>2. /\ s \in Seq(Events) /\ About(s) = Expired
        /\ \A i \in DOMAIN s : s[i].kind = "completed" /\ s[i].about \in Expired
    BY <2>1, EventsOfSet
  <2>3. state' = [w \in WorkloadIds |-> IF w \in Expired THEN "completed" ELSE state[w]]
    BY <1>1 DEF ReconcileComplete, CompleteExpiredWorkloads
  <2> HIDE DEF s
  <2>4. Reports(s)
    BY <1>0, <2>1, <2>2, <2>3 DEF Reports, Tells, LockFree
  <2> QED BY <1>0, <1>1, <2>2, <2>4, LogAccounts DEF s
<1>2. ASSUME ReconcileList \/ ReconcileHeal \/ ReconcileSchedule
      PROVE  UNCHANGED state
  BY <1>2 DEF ReconcileList, ReconcileHeal, ReconcileSchedule, HealNode,
              SchedulePendingWorkloads, vars, workloadVars
<1>3. CASE Log(Loop, << >>) /\ UNCHANGED state
  BY <1>0, <1>3, QuietStep
<1> QED BY <1>1, <1>2, <1>3 DEF LoopStep

\* A recovery, like the tick, begins a pass and changes no state.
LEMMA RecoversAccounts ==
    ASSUME NEW c \in Clients, NEW n, Recovers(c, n) \/ SchedulerTick(c)
    PROVE  Accounted
<1>1. Log(c, << >>) /\ UNCHANGED << state, latest >> /\ LockFree
  BY DEF Recovers, SchedulerTick, RecoverNode, SchedulePendingWorkloads, workloadVars
<1> QED BY <1>1, QuietStep DEF Threads

\* A simulation does what its calls do, until it tells of it.
LEMMA SimulationAccounts ==
    ASSUME StoreInv, ScriptsOK, NEW c \in Clients, Simulation(c)
    PROVE  Accounted \/ SimulationEnds(c)
<1> USE DEF cpVars, vars, workloadVars, passVars
<1>1. CASE SimulationLists(c)
  BY <1>1 DEF SimulationLists, Accounted
<1>2. CASE SimulationSubmits(c)
  BY <1>2, SubmitAccounts DEF SimulationSubmits, ScriptsOK
<1>3. CASE SimulationDisrupts(c)
  BY <1>3, DisruptsAccounts DEF SimulationDisrupts, Accounted
<1> QED BY <1>1, <1>2, <1>3 DEF Simulation

\* A call of a client accounts for what it does, unless it replaces everything.
LEMMA CallAccounts ==
    ASSUME StoreInv, NEW c \in Clients, Call(c)
    PROVE  Accounted \/ ReplaceData(c)
<1> USE DEF cpVars, vars, workloadVars, passVars
<1>1. CASE \E p \in Posted, r \in Requests : Submit(c, r)
  BY <1>1, SubmitAccounts
<1>2. CASE OneCall(c)
  BY <1>2, DisruptsAccounts, RecoversAccounts DEF OneCall, Sample, Accounted
<1>3. CASE StartSimulation(c)
  BY <1>3 DEF StartSimulation, Accounted
<1> QED BY <1>1, <1>2, <1>3 DEF Call

\* Every step of the service accounts for what it changes, records an event,
\* ends a simulation, or replaces the data.
LEMMA StepAccounts ==
    ASSUME IInv, ServiceInv, holder \in Threads, [ServiceNext]_allVars
    PROVE  \/ Accounted
           \/ \E t \in Threads : Record(t)
           \/ \E c \in Clients : ReplaceData(c) \/ SimulationEnds(c)
           \/ Start
<1>0. StoreInv /\ ProcessesOK /\ ScriptsOK
  BY DEF IInv, ServiceInv
<1>1. CASE \E c \in Clients : Call(c) \/ Schedule(c) \/ Simulation(c)
  BY <1>0, <1>1, CallAccounts, ScheduleAccounts, SimulationAccounts
<1>2. CASE \E t \in Threads : Capture(t) \/ RecordTelemetry(t)
  BY <1>2 DEF Capture, RecordTelemetry, cpVars, vars, workloadVars, passVars, Accounted
<1>3. CASE LoopStep \/ Pass
  BY <1>0, <1>3, LoopAccounts, PassAccounts
<1>4. CASE TimePasses
  BY <1>4 DEF TimePasses, Tick, passVars, serviceVars, Accounted
<1>5. CASE UNCHANGED allVars
  BY <1>5 DEF allVars, cpVars, vars, workloadVars, passVars, serviceVars, Accounted
<1> QED BY <1>1, <1>2, <1>3, <1>4, <1>5 DEF ServiceNext

------------------------------------------------------------------------------
(* How a step treats samples and counters, and the types *)

\* How a step treats the samples that are due and those there are.
SampleStep ==
    \/ \E t \in Threads, next \in DueStates : Sampling(t, next)
    \/ \E t \in Threads : due' = [due EXCEPT ![t] = "take"] /\ UNCHANGED history
    \/ \E t \in Threads : Capture(t) \/ RecordTelemetry(t)
    \/ Start
    \/ UNCHANGED sampleVars

\* Every step treats them in one of these ways.
LEMMA StepSamples ==
    ASSUME due \in [Threads -> DueStates], holder \in Threads, [ServiceNext]_allVars
    PROVE  SampleStep
<1>0. Clients \subseteq Threads /\ Loop \in Threads /\ {"no", "take"} \subseteq DueStates
  BY DEF Threads, DueStates
<1>1. \A c \in Clients : \A r : Submit(c, r) => SampleStep
  BY <1>0 DEF Submit, SampleStep
<1>2. \A c \in Clients : \A n, how : Disrupts(c, n, how) => SampleStep
  BY <1>0 DEF Disrupts, SampleStep
<1>3. \A c \in Clients : OneCall(c) => SampleStep
  BY <1>0, <1>2 DEF OneCall, Recovers, SchedulerTick, ReplaceData, Sample, SampleStep
<1>4. \A c \in Clients : Call(c) => SampleStep
  BY <1>1, <1>3 DEF Call, StartSimulation, SampleStep
<1>5. \A c \in Clients : Simulation(c) => SampleStep
  BY <1>0, <1>1, <1>2 DEF Simulation, SimulationLists, SimulationSubmits,
     SimulationDisrupts, SimulationEnds, SampleStep
<1>6. \A c \in Clients : Schedule(c) => SampleStep
  BY <1>0 DEF Schedule, SampleStep
<1>7. LoopStep => SampleStep
  BY <1>0 DEF LoopStep, SampleStep
<1>8. Pass => SampleStep
  BY DEF Pass, SampleStep
<1>9. \A t \in Threads : Record(t) => SampleStep
  BY DEF Record, SampleStep
<1>10. TimePasses \/ UNCHANGED allVars => SampleStep
  BY DEF TimePasses, serviceVars, allVars, SampleStep
<1> QED BY <1>4, <1>5, <1>6, <1>7, <1>8, <1>9, <1>10 DEF ServiceNext, SampleStep

\* The counters and the holder of the mutex.
LEMMA StepCounts ==
    ASSUME holder \in Threads, issued \subseteq WorkloadIds, calls \in 0 .. MaxCalls,
           [ServiceNext]_allVars
    PROVE  holder' \in Threads /\ issued' \subseteq WorkloadIds /\ calls' \in 0 .. MaxCalls
<1>0. Clients \subseteq Threads /\ Loop \in Threads
  BY DEF Threads
<1>1. \A t \in Threads : Begins(t) => holder' \in Threads
  BY <1>0 DEF Begins
<1>2. \A c \in Clients : \A r : Submit(c, r) => UNCHANGED holder /\ issued' \subseteq WorkloadIds
  BY ScriptFacts DEF Submit, Fresh
<1>3. \A c \in Clients : \A n, how : Disrupts(c, n, how) => holder' \in Threads
  BY <1>0, <1>1 DEF Disrupts
<1>4. \A c \in Clients : OneCall(c) => holder' \in Threads
  BY <1>0, <1>1, <1>3 DEF OneCall, Recovers, SchedulerTick, ReplaceData, Sample
<1>5. ASSUME NEW c \in Clients, Call(c)
      PROVE  holder' \in Threads /\ issued' \subseteq WorkloadIds
  BY <1>2, <1>4, <1>5 DEF Call, StartSimulation
<1>6. ASSUME NEW c \in Clients, Call(c) PROVE calls' \in 0 .. MaxCalls
  <2>1. calls < MaxCalls /\ calls' = calls + 1
    BY <1>6 DEF Call
  <2> QED BY <2>1, BoundsAssumption
<1>7. ASSUME NEW c \in Clients, Simulation(c)
      PROVE  holder' \in Threads /\ issued' \subseteq WorkloadIds /\ UNCHANGED calls
  BY <1>2, <1>3, <1>7 DEF Simulation, SimulationLists, SimulationSubmits,
     SimulationDisrupts, SimulationEnds
<1>8. \A c \in Clients : Schedule(c) => UNCHANGED << holder, issued, calls >>
  BY DEF Schedule
<1>9. \A t : Record(t) \/ Capture(t) \/ RecordTelemetry(t) => UNCHANGED << holder, issued, calls >>
  BY DEF Record, Capture, RecordTelemetry
<1>10. LoopStep \/ Pass => holder' \in Threads /\ UNCHANGED << issued, calls >>
  BY <1>0, <1>1 DEF LoopStep, Pass
<1>11. Start \/ TimePasses \/ UNCHANGED allVars => UNCHANGED << holder, issued, calls >>
  BY DEF Start, TimePasses, serviceVars, allVars
<1> QED BY <1>5, <1>6, <1>7, <1>8, <1>9, <1>10, <1>11 DEF ServiceNext

\* The types of the log and of the samples.
OwesOK    == owes \in [Threads -> Seq(Events)] /\ told \in [Threads -> Seq(Events)]
LatestOK  == latest \in [WorkloadIds -> EventKinds \cup {"none"}]
HistoryOK == history \in Seq(BOOLEAN) /\ Len(history) <= MaxSnapshots
DueOK     == due \in [Threads -> DueStates]

\* The log keeps its type.
LEMMA LogTyped ==
    ASSUME OwesOK, LatestOK, unclear \subseteq WorkloadIds, IInv, ServiceInv,
           holder \in Threads, [ServiceNext]_allVars
    PROVE  OwesOK' /\ LatestOK' /\ unclear' \subseteq WorkloadIds
<1>1. ASSUME NEW t \in Threads, NEW s \in Seq(Events), NEW n \in Seq(Events),
             Report(t, s, n), UNCHANGED latest
      PROVE  OwesOK' /\ LatestOK' /\ unclear' \subseteq WorkloadIds
  <2>1. owes[t] \o s \in Seq(Events) /\ told[t] \o n \in Seq(Events)
    BY <1>1, ConcatProperties DEF OwesOK
  <2> QED BY <1>1, <2>1 DEF Report, OwesOK, LatestOK
<1>2. ASSUME NEW t \in Threads, Record(t)
      PROVE  OwesOK' /\ LatestOK' /\ unclear' \subseteq WorkloadIds
  <2>1. owes[t] \in Seq(Events) /\ owes[t] # << >>
    BY <1>2 DEF OwesOK, Record
  <2>2. Head(owes[t]) \in Events /\ Tail(owes[t]) \in Seq(Events)
    BY <2>1, HeadTailProperties
  <2>3. Head(owes[t]).kind \in EventKinds
    BY <2>2 DEF Events
  <2> QED BY <1>2, <2>2, <2>3 DEF Record, OwesOK, LatestOK
<1>3. ASSUME NEW c \in Clients, ReplaceData(c)
      PROVE  OwesOK' /\ LatestOK' /\ unclear' \subseteq WorkloadIds
  <2>1. ASSUME NEW s \in Seq(Events) PROVE About(s) \subseteq WorkloadIds
    <3> SUFFICES ASSUME NEW i \in DOMAIN s PROVE s[i].about \in WorkloadIds
      BY DEF About
    <3>1. s[i] \in Events
      BY LenProperties, ElementOfSeq
    <3> QED BY <3>1 DEF Events
  <2>2. \A t \in Threads : About(owes[t]) \cup About(told[t]) \subseteq WorkloadIds
    BY <2>1 DEF OwesOK
  <2> QED BY <1>3, <2>2 DEF ReplaceData, OwesOK, LatestOK
<1>4. ASSUME UNCHANGED logVars
      PROVE  OwesOK' /\ LatestOK' /\ unclear' \subseteq WorkloadIds
  BY <1>4 DEF logVars, OwesOK, LatestOK
<1>5. ASSUME NEW c \in Clients, SimulationEnds(c)
      PROVE  OwesOK' /\ LatestOK' /\ unclear' \subseteq WorkloadIds
  <2>1. << >> \in Seq(Events) /\ c \in Threads
    BY NoEvent DEF Threads
  <2> QED BY <1>5, <2>1 DEF SimulationEnds, OwesOK, LatestOK
<1> QED BY <1>1, <1>2, <1>3, <1>4, <1>5, StepAccounts DEF Accounted, Start

\* The newest samples are at most k, and as many as there are if they are no more.
LEMMA NewestFacts ==
    ASSUME NEW h \in Seq(BOOLEAN), NEW k \in Nat \ {0}, Len(h) > 0
    PROVE  LET d == IF Len(h) > k THEN Len(h) - k ELSE 0
           IN  /\ Newest(h, k) \in Seq(BOOLEAN) /\ Len(Newest(h, k)) = Len(h) - d
               /\ \A i \in 1 .. Len(h) - d : Newest(h, k)[i] = h[i + d]
<1> DEFINE d == IF Len(h) > k THEN Len(h) - k ELSE 0
<1>1. Len(h) \in Nat
  BY LenProperties
<1>2. Newest(h, k) = SubSeq(h, d + 1, Len(h))
  <2>1. AtLeast(1, Len(h) - k + 1) = d + 1
    BY <1>1 DEF AtLeast
  <2> QED BY <2>1 DEF Newest
<1>3. d + 1 \in 1 .. Len(h) /\ Len(h) \in 1 .. Len(h)
  BY <1>1
<1>4. /\ SubSeq(h, d + 1, Len(h)) \in Seq(BOOLEAN)
      /\ Len(SubSeq(h, d + 1, Len(h))) = Len(h) - (d + 1) + 1
      /\ \A i \in 1 .. Len(h) - (d + 1) + 1 : SubSeq(h, d + 1, Len(h))[i] = h[d + 1 + i - 1]
  <2> DEFINE m == d + 1
             n == Len(h)
  <2>1. m \in Int /\ n \in Int /\ m <= n
    BY <1>1, <1>3
  <2>2. \A i \in m .. n : h[i] \in BOOLEAN
    <3>1. \A i \in 1 .. n : h[i] \in BOOLEAN
      BY ElementOfSeq
    <3> QED BY <1>3, <3>1
  <2> HIDE DEF m, n
  <2>3. /\ SubSeq(h, m, n) \in Seq(BOOLEAN)
        /\ Len(SubSeq(h, m, n)) = n - m + 1
        /\ \A i \in 1 .. n - m + 1 : SubSeq(h, m, n)[i] = h[m + i - 1]
    BY <2>1, <2>2, SubSeqProperties
  <2> QED BY <2>3 DEF m, n
<1>5. d \in Nat
  BY <1>1
<1> HIDE DEF d
<1>6. Len(h) - (d + 1) + 1 = Len(h) - d
  BY <1>1, <1>5
<1>7. ASSUME NEW i \in 1 .. Len(h) - d PROVE Newest(h, k)[i] = h[i + d]
  <2>1. d + 1 + i - 1 = i + d
    BY <1>5
  <2>2. SubSeq(h, d + 1, Len(h))[i] = h[d + 1 + i - 1]
    BY <1>4, <1>6
  <2> QED BY <1>2, <2>1, <2>2
<1>8. Newest(h, k) \in Seq(BOOLEAN) /\ Len(Newest(h, k)) = Len(h) - d
  BY <1>2, <1>4, <1>6
<1> QED BY <1>7, <1>8 DEF d

\* A sample that is recorded comes last, and the history keeps its bound.
LEMMA RecordedFacts ==
    ASSUME NEW h \in Seq(BOOLEAN), NEW b \in BOOLEAN
    PROVE  /\ Append(h, b) \in Seq(BOOLEAN) /\ Len(Append(h, b)) = Len(h) + 1
           /\ Append(h, b)[Len(h) + 1] = b
           /\ \A i \in 1 .. Len(h) : Append(h, b)[i] = h[i]
           /\ Recorded(h, b, MaxSnapshots) \in Seq(BOOLEAN)
           /\ Len(Recorded(h, b, MaxSnapshots)) \in 1 .. MaxSnapshots
<1>1. /\ Append(h, b) \in Seq(BOOLEAN) /\ Len(Append(h, b)) = Len(h) + 1
      /\ Append(h, b)[Len(h) + 1] = b
      /\ \A i \in 1 .. Len(h) : Append(h, b)[i] = h[i]
      /\ Len(h) \in Nat
  BY AppendProperties, LenProperties
<1>2. /\ Recorded(h, b, MaxSnapshots) \in Seq(BOOLEAN)
      /\ Len(Recorded(h, b, MaxSnapshots)) \in 1 .. MaxSnapshots
  <2> DEFINE a == Append(h, b)
             d == IF Len(a) > MaxSnapshots THEN Len(a) - MaxSnapshots ELSE 0
  <2>1. Len(a) \in Nat /\ Len(a) > 0
    BY <1>1
  <2>2. Newest(a, MaxSnapshots) \in Seq(BOOLEAN) /\ Len(Newest(a, MaxSnapshots)) = Len(a) - d
    BY <1>1, <2>1, NewestFacts, BoundsAssumption
  <2> HIDE DEF a
  <2>3. Len(a) - d \in 1 .. MaxSnapshots
    BY <2>1, BoundsAssumption
  <2> QED BY <2>2, <2>3 DEF Recorded, a
<1> QED BY <1>1, <1>2

\* A call that samples leaves as many samples as there were.
LEMMA SamplingKeeps ==
    ASSUME HistoryOK, DueOK, NEW t \in Threads, NEW next \in DueStates, Sampling(t, next)
    PROVE  /\ HistoryOK' /\ DueOK' /\ Len(history') = Len(history)
           /\ \A i \in 1 .. Len(history) : history'[i] = (history[i] /\ ~Changed)
<1>1. /\ Len(history) \in Nat /\ DOMAIN history = 1 .. Len(history)
      /\ history \in [1 .. Len(history) -> BOOLEAN]
  BY LenProperties DEF HistoryOK
<1>2. history' = [i \in 1 .. Len(history) |-> history[i] /\ ~Changed]
  BY <1>1 DEF Sampling
<1>3. history' \in [1 .. Len(history) -> BOOLEAN]
  BY <1>2
<1>4. history' \in Seq(BOOLEAN) /\ Len(history') = Len(history)
  BY <1>1, <1>3, SeqDef
<1>5. \A u \in Threads : due'[u] \in DueStates /\ due' = [v \in Threads |-> due'[v]]
  BY DEF Sampling, DueOK, DueStates
<1>6. DueOK'
  BY <1>5 DEF DueOK
<1> QED BY <1>2, <1>4, <1>6 DEF HistoryOK

\* The history and what is due keep their types.
LEMMA SamplesTyped ==
    ASSUME HistoryOK, DueOK, holder \in Threads, [ServiceNext]_allVars
    PROVE  HistoryOK' /\ DueOK'
<1>1. ASSUME NEW t \in Threads, NEW next \in DueStates, Sampling(t, next)
      PROVE  HistoryOK' /\ DueOK'
  BY <1>1, SamplingKeeps
<1>2. ASSUME NEW t \in Threads, due' = [due EXCEPT ![t] = "take"], UNCHANGED history
      PROVE  HistoryOK' /\ DueOK'
  BY <1>2 DEF HistoryOK, DueOK, DueStates
<1>3. ASSUME NEW t \in Threads, Capture(t) PROVE HistoryOK' /\ DueOK'
  BY <1>3 DEF Capture, HistoryOK, DueOK, DueStates
<1>4. ASSUME NEW t \in Threads, RecordTelemetry(t) PROVE HistoryOK' /\ DueOK'
  <2>1. (due[t] = "fresh") \in BOOLEAN /\ history \in Seq(BOOLEAN)
    BY DEF HistoryOK
  <2>2. /\ history' \in Seq(BOOLEAN) /\ Len(history') \in 1 .. MaxSnapshots
    BY <1>4, <2>1, RecordedFacts DEF RecordTelemetry
  <2>3. DueOK'
    BY <1>4 DEF RecordTelemetry, DueOK, DueStates
  <2> QED BY <2>2, <2>3, BoundsAssumption DEF HistoryOK
<1>5. ASSUME Start PROVE HistoryOK' /\ DueOK'
  <2>1. << TRUE >> \in Seq(BOOLEAN) /\ Len(<< TRUE >>) = 1
    OBVIOUS
  <2> QED BY <1>5, <2>1, BoundsAssumption DEF Start, HistoryOK, DueOK
<1>6. ASSUME UNCHANGED sampleVars PROVE HistoryOK' /\ DueOK'
  BY <1>6 DEF sampleVars, HistoryOK, DueOK
<1> QED BY <1>1, <1>2, <1>3, <1>4, <1>5, <1>6, StepSamples DEF SampleStep, DueOK

\* Before the store is made nothing has happened.
Untouched ==
    history = << >> =>
       /\ owes = [t \in Threads |-> << >>]
       /\ told = [t \in Threads |-> << >>]
       /\ latest = [w \in WorkloadIds |-> "none"]
       /\ due = [t \in Threads |-> "no"]

\* Once there is a sample there always is one.
LEMMA HistoryGrows ==
    ASSUME HistoryOK, DueOK, holder \in Threads, [ServiceNext]_allVars, history' = << >>
    PROVE  UNCHANGED allVars
<1>1. Len(<< >>) = 0 /\ \A h \in Seq(BOOLEAN) : Len(h) = 0 => h = << >>
  BY EmptySeq
<1>2. SUFFICES ASSUME history # << >> PROVE FALSE
  BY <1>2 DEF ServiceNext, Start
<1>3. Len(history) \in Nat /\ Len(history) # 0
  BY <1>1, <1>2, LenProperties DEF HistoryOK
<1>4. Len(history') = 0
  BY <1>1
<1>5. ASSUME NEW t \in Threads, NEW next \in DueStates, Sampling(t, next) PROVE FALSE
  <2>1. Len(history') = Len(history)
    BY <1>5, SamplingKeeps
  <2> QED BY <1>3, <1>4, <2>1
<1>6. ASSUME NEW t \in Threads, RecordTelemetry(t) PROVE FALSE
  <2>1. (due[t] = "fresh") \in BOOLEAN /\ history \in Seq(BOOLEAN)
    BY DEF HistoryOK
  <2>2. Len(history') \in 1 .. MaxSnapshots
    BY <1>6, <2>1, RecordedFacts DEF RecordTelemetry
  <2> QED BY <1>4, <2>2, BoundsAssumption
<1>7. \A t : Capture(t) => UNCHANGED history
  BY DEF Capture
<1>8. SampleStep
  BY StepSamples DEF DueOK
<1> QED BY <1>2, <1>5, <1>6, <1>7, <1>8 DEF SampleStep, sampleVars, Start

\* No step but the first touches anything.
LEMMA UntouchedKept ==
    ASSUME HistoryOK, DueOK, holder \in Threads, Untouched, [ServiceNext]_allVars
    PROVE  Untouched'
<1> SUFFICES ASSUME history' = << >> PROVE Untouched'
  BY DEF Untouched
<1>1. UNCHANGED allVars
  BY HistoryGrows
<1> QED BY <1>1 DEF allVars, serviceVars, logVars, sampleVars, Untouched

\* The variables of the service with their types.
TypesInv ==
    /\ OwesOK /\ LatestOK /\ HistoryOK /\ DueOK /\ Untouched
    /\ holder \in Threads
    /\ issued \subseteq WorkloadIds
    /\ calls \in 0 .. MaxCalls
    /\ unclear \subseteq WorkloadIds

\* The types are kept, with the invariants of the store and the service.
LEMMA TypesKept == IInv /\ ServiceInv /\ TypesInv /\ [ServiceNext]_allVars => TypesInv'
<1> SUFFICES ASSUME IInv, ServiceInv, TypesInv, [ServiceNext]_allVars PROVE TypesInv'
  OBVIOUS
<1> USE DEF TypesInv
<1>1. OwesOK' /\ LatestOK' /\ unclear' \subseteq WorkloadIds
  BY LogTyped
<1>2. HistoryOK' /\ DueOK' /\ Untouched'
  BY SamplesTyped, UntouchedKept
<1>3. holder' \in Threads /\ issued' \subseteq WorkloadIds /\ calls' \in 0 .. MaxCalls
  BY StepCounts
<1> QED BY <1>1, <1>2, <1>3

\* They hold at the start.
LEMMA TypesStart == ServiceInit => TypesInv
<1> SUFFICES ASSUME ServiceInit PROVE TypesInv
  OBVIOUS
<1>1. << >> \in Seq(Events) /\ << >> \in Seq(BOOLEAN) /\ Len(<< >>) = 0
  BY EmptySeq
<1> QED BY <1>1, BoundsAssumption
        DEF ServiceInit, TypesInv, OwesOK, LatestOK, HistoryOK, DueOK, DueStates, Untouched, Threads

\* The service keeps its types, and the history of samples its bound.
THEOREM ServiceTypes == ServiceSpec => []ServiceTypeOK
<1>1. TypesInv /\ ServiceInv => ServiceTypeOK
  BY DEF TypesInv, ServiceInv, ScriptsOK, Scripts, ServiceTypeOK, OwesOK, LatestOK,
         HistoryOK, DueOK, Events
<1>2. Init => IInv
  BY InitIInv
<1> QED BY <1>1, <1>2, ServiceStarts, ServiceKept, NextIInv, TypesStart, TypesKept, PTL
        DEF ServiceSpec

------------------------------------------------------------------------------
(* The log *)

\* The event at i is the last one of s about w.
LastAbout(s, w, i) ==
    i \in DOMAIN s /\ s[i].about = w /\ \A j \in DOMAIN s : j > i => s[j].about # w

\* Of a workload that is not unclear, one thread at most owes events or has a
\* narrative.  The last of the events it owes tells its state; if there is none,
\* the log does; and so does what the simulation will tell.  While the pass has
\* still to try the workload, that may wait.
Holds(t) == About(owes[t]) \cup About(told[t])
OneTeller(w) == \A t, u \in Threads : w \in Holds(t) \cap Holds(u) => t = u
OwedTells(w) ==
    \A t \in Threads : \A i : LastAbout(owes[t], w, i) => Tells(owes[t][i].kind, state[w])
NewestTells(w) == (\A t \in Threads : w \notin About(owes[t])) => Tells(latest[w], state[w])
ToldTells(w) ==
    \A t \in Threads : \A i \in DOMAIN told[t] :
        told[t][i].about = w => Tells(told[t][i].kind, state[w])

Truthful(w) == OwedTells(w) /\ NewestTells(w) /\ ToldTells(w)

LogInv ==
    \A w \in WorkloadIds \ unclear :
        /\ OneTeller(w)
        /\ w \notin todo /\ state[w] # "absent" => Truthful(w)

\* In q, the events s follow the events o, as far as w is concerned.
Follows(o, s, q, w) ==
    /\ About(q) = About(o) \cup About(s)
    /\ w \in About(s) =>
          \A i : LastAbout(q, w, i) =>
             \E j \in DOMAIN s : q[i] = s[j] /\ s[j].about = w
    /\ w \notin About(s) =>
          \A i : LastAbout(q, w, i) => LastAbout(o, w, i) /\ q[i] = o[i]

\* Events that are owed in addition come last.
LEMMA AddedEvents ==
    ASSUME NEW o \in Seq(Events), NEW s \in Seq(Events), NEW w
    PROVE  Follows(o, s, o \o s, w)
<1>1. /\ Len(o) \in Nat /\ Len(s) \in Nat
      /\ DOMAIN o = 1 .. Len(o) /\ DOMAIN s = 1 .. Len(s)
  BY LenProperties
<1>2. /\ DOMAIN (o \o s) = 1 .. Len(o) + Len(s)
      /\ \A i \in 1 .. Len(o) : (o \o s)[i] = o[i]
      /\ \A i \in Len(o) + 1 .. Len(o) + Len(s) : (o \o s)[i] = s[i - Len(o)]
  <2>1. o \o s \in Seq(Events) /\ Len(o \o s) = Len(o) + Len(s)
    BY ConcatProperties
  <2>2. \A i \in 1 .. Len(o) + Len(s) :
           (o \o s)[i] = IF i <= Len(o) THEN o[i] ELSE s[i - Len(o)]
    BY ConcatProperties
  <2>3. DOMAIN (o \o s) = 1 .. Len(o) + Len(s)
    BY <2>1, LenProperties
  <2> QED BY <1>1, <2>2, <2>3
<1> DEFINE q == o \o s
<1> HIDE DEF q
<1>3. \A i \in 1 .. Len(s) : i + Len(o) \in DOMAIN q /\ q[i + Len(o)] = s[i]
  BY <1>1, <1>2 DEF q
<1>4. \A i \in DOMAIN q : \/ i \in DOMAIN o /\ q[i] = o[i]
                          \/ i - Len(o) \in DOMAIN s /\ q[i] = s[i - Len(o)] /\ i > Len(o)
  BY <1>1, <1>2 DEF q
<1>5. About(q) = About(o) \cup About(s)
  <2>1. ASSUME NEW a \in About(q) PROVE a \in About(o) \cup About(s)
    BY <1>4 DEF About
  <2>2. ASSUME NEW a \in About(o) PROVE a \in About(q)
    BY <1>1, <1>2 DEF About, q
  <2>3. ASSUME NEW a \in About(s) PROVE a \in About(q)
    BY <1>1, <1>3 DEF About
  <2> QED BY <2>1, <2>2, <2>3
<1>6. ASSUME NEW i, LastAbout(q, w, i), w \in About(s)
      PROVE  i - Len(o) \in DOMAIN s /\ q[i] = s[i - Len(o)] /\ s[i - Len(o)].about = w
  <2>1. PICK j \in DOMAIN s : s[j].about = w
    BY <1>6 DEF About
  <2>2. j + Len(o) \in DOMAIN q /\ q[j + Len(o)].about = w
    BY <1>1, <1>3, <2>1
  <2>3. i \in DOMAIN q /\ q[i].about = w /\ ~(j + Len(o) > i)
    BY <1>6, <2>2 DEF LastAbout
  <2>4. i \notin DOMAIN o
    BY <1>1, <2>1, <2>3
  <2> QED BY <1>4, <2>3, <2>4
<1>7. ASSUME NEW i, LastAbout(q, w, i), w \notin About(s)
      PROVE  LastAbout(o, w, i) /\ q[i] = o[i]
  <2>1. i \in DOMAIN q /\ q[i].about = w
    BY <1>7 DEF LastAbout
  <2>2. i \in DOMAIN o /\ q[i] = o[i]
    BY <1>4, <1>7, <2>1 DEF About
  <2>3. \A j \in DOMAIN o : j \in DOMAIN q /\ q[j] = o[j]
    BY <1>1, <1>2 DEF q
  <2> QED BY <1>7, <2>1, <2>2, <2>3 DEF LastAbout
<1>8. Follows(o, s, q, w)
  BY <1>5, <1>6, <1>7 DEF Follows
<1> QED BY <1>8 DEF q

\* The first event leaves the others in their order.
LEMMA RemovedEvent ==
    ASSUME NEW o \in Seq(Events), o # << >>, NEW w
    PROVE  /\ Head(o) = o[1] /\ 1 \in DOMAIN o
           /\ About(Tail(o)) \subseteq About(o)
           /\ About(o) \subseteq About(Tail(o)) \cup {o[1].about}
           /\ \A i : LastAbout(Tail(o), w, i) => LastAbout(o, w, i + 1) /\ Tail(o)[i] = o[i + 1]
           /\ w \notin About(Tail(o)) /\ o[1].about = w => LastAbout(o, w, 1)
<1>1. Len(o) \in Nat \ {0} /\ DOMAIN o = 1 .. Len(o)
  BY LenProperties, EmptySeq
<1>2. /\ Head(o) = o[1]
      /\ Tail(o) \in Seq(Events) /\ Len(Tail(o)) = Len(o) - 1
      /\ \A i \in 1 .. Len(Tail(o)) : Tail(o)[i] = o[i + 1]
  BY HeadTailProperties
<1> DEFINE r == Tail(o)
<1> HIDE DEF r
<1>3. DOMAIN r = 1 .. Len(o) - 1 /\ \A i \in DOMAIN r : r[i] = o[i + 1] /\ i + 1 \in DOMAIN o
  <2>1. DOMAIN r = 1 .. Len(r)
    BY <1>2, LenProperties DEF r
  <2> QED BY <1>1, <1>2, <2>1 DEF r
<1>4. \A j \in DOMAIN o : j = 1 \/ (j - 1 \in DOMAIN r /\ r[j - 1] = o[j])
  BY <1>1, <1>3
<1>5. About(r) \subseteq About(o)
  BY <1>3 DEF About
<1>6. About(o) \subseteq About(r) \cup {o[1].about}
  BY <1>4 DEF About
<1>7. ASSUME NEW i, LastAbout(r, w, i)
      PROVE  LastAbout(o, w, i + 1) /\ r[i] = o[i + 1]
  <2>1. i \in DOMAIN r /\ r[i].about = w
    BY <1>7 DEF LastAbout
  <2>2. ASSUME NEW j \in DOMAIN o, j > i + 1 PROVE o[j].about # w
    <3>1. j - 1 \in DOMAIN r /\ r[j - 1] = o[j] /\ j - 1 > i
      BY <1>1, <1>3, <1>4, <2>1, <2>2
    <3> QED BY <1>7, <3>1 DEF LastAbout
  <2> QED BY <1>3, <2>1, <2>2 DEF LastAbout
<1>8. ASSUME w \notin About(r), o[1].about = w PROVE LastAbout(o, w, 1)
  BY <1>1, <1>4, <1>8 DEF LastAbout, About
<1>9. 1 \in DOMAIN o
  BY <1>1
<1> QED BY <1>2, <1>5, <1>6, <1>7, <1>8, <1>9 DEF r

\* A narrative grows by what is added to it.
LEMMA AddedNarrative ==
    ASSUME NEW o \in Seq(Events), NEW s \in Seq(Events)
    PROVE  /\ About(o \o s) = About(o) \cup About(s)
           /\ \A i \in DOMAIN (o \o s) : \/ \E j \in DOMAIN o : (o \o s)[i] = o[j]
                                         \/ \E j \in DOMAIN s : (o \o s)[i] = s[j]
<1>1. /\ Len(o) \in Nat /\ Len(s) \in Nat
      /\ DOMAIN o = 1 .. Len(o) /\ DOMAIN s = 1 .. Len(s)
  BY LenProperties
<1>2. DOMAIN (o \o s) = 1 .. Len(o) + Len(s)
  <2>1. o \o s \in Seq(Events) /\ Len(o \o s) = Len(o) + Len(s)
    BY ConcatProperties
  <2> QED BY <2>1, LenProperties
<1>3. \A i \in 1 .. Len(o) + Len(s) :
         (o \o s)[i] = IF i <= Len(o) THEN o[i] ELSE s[i - Len(o)]
  BY ConcatProperties
<1>4. About(o \o s) = About(o) \cup About(s)
  BY AddedEvents DEF Follows
<1>5. \A i \in 1 .. Len(o) + Len(s) :
         (i <= Len(o) /\ i \in DOMAIN o) \/ (~(i <= Len(o)) /\ i - Len(o) \in DOMAIN s)
  BY <1>1
<1> DEFINE q == o \o s
<1> HIDE DEF q
<1>6. \A i \in DOMAIN q : \/ \E j \in DOMAIN o : q[i] = o[j]
                          \/ \E j \in DOMAIN s : q[i] = s[j]
  BY <1>2, <1>3, <1>5 DEF q
<1> QED BY <1>4, <1>6 DEF q

\* A call that accounts for what it has changed keeps the log true.
LEMMA LogKeeps ==
    ASSUME OwesOK, LogInv, NEW t \in Threads, NEW s \in Seq(Events), NEW n \in Seq(Events),
           Report(t, s, n), Reports(s), Narrates(n), UNCHANGED latest
    PROVE  LogInv'
<1> SUFFICES ASSUME NEW w \in WorkloadIds, w \notin unclear'
             PROVE  /\ OneTeller(w)'
                    /\ w \notin todo' /\ state'[w] # "absent" => Truthful(w)'
  BY DEF LogInv
<1>1. owes[t] \in Seq(Events) /\ told[t] \in Seq(Events)
  BY DEF OwesOK
<1>2. /\ owes'[t] = owes[t] \o s /\ told'[t] = told[t] \o n
      /\ \A u \in Threads \ {t} : owes'[u] = owes[u] /\ told'[u] = told[u]
  BY DEF Report, OwesOK
<1>3. Follows(owes[t], s, owes'[t], w)
  BY <1>1, <1>2, AddedEvents
<1>4. /\ About(told'[t]) = About(told[t]) \cup About(n)
      /\ \A i \in DOMAIN told'[t] : \/ \E j \in DOMAIN told[t] : told'[t][i] = told[t][j]
                                   \/ \E j \in DOMAIN n : told'[t][i] = n[j]
  <2> DEFINE o == told[t]
  <2>1. o \in Seq(Events) /\ told'[t] = o \o n
    BY <1>1, <1>2
  <2> HIDE DEF o
  <2>2. /\ About(o \o n) = About(o) \cup About(n)
        /\ \A i \in DOMAIN (o \o n) : \/ \E j \in DOMAIN o : (o \o n)[i] = o[j]
                                      \/ \E j \in DOMAIN n : (o \o n)[i] = n[j]
    BY <2>1, AddedNarrative
  <2> DEFINE q == o \o n
  <2>3. told'[t] = q
    BY <2>1
  <2>4. /\ About(q) = About(o) \cup About(n)
        /\ \A i \in DOMAIN q : \/ \E j \in DOMAIN o : q[i] = o[j]
                              \/ \E j \in DOMAIN n : q[i] = n[j]
    BY <2>2
  <2> HIDE DEF q
  <2> QED BY <2>3, <2>4 DEF o
<1>5. \A u \in Threads : w \in Holds(u)' <=>
         \/ w \in Holds(u)
         \/ u = t /\ w \in About(s) \cup About(n)
  BY <1>2, <1>3, <1>4 DEF Holds, Follows
<1>6. ASSUME w \in About(s) \cup About(n)
      PROVE  /\ \A u \in Threads \ {t} : w \notin Holds(u)
             /\ \A u \in Threads : w \notin About(told[u])
  BY <1>6 DEF Report, Contested, Holds
<1>7. ASSUME w \notin About(s) PROVE w \notin unclear /\ ~QueuedAgain(w)
  BY <1>7 DEF Report
<1>8. ASSUME w \notin About(s), w \notin todo', state'[w] # "absent"
      PROVE  state'[w] = state[w] /\ Truthful(w)
  <2>1. state'[w] = state[w] /\ w \notin todo
    BY <1>7, <1>8 DEF Reports
  <2> QED BY <1>7, <1>8, <2>1 DEF LogInv
<1>9. OneTeller(w)'
  <2>1. CASE w \in About(s) \cup About(n)
    BY <1>5, <1>6, <2>1 DEF OneTeller
  <2>2. CASE w \notin About(s) \cup About(n)
    <3>1. OneTeller(w)
      BY <1>7, <2>2 DEF LogInv
    <3> QED BY <1>5, <2>2, <3>1 DEF OneTeller
  <2> QED BY <2>1, <2>2
<1>10. ASSUME w \notin todo', state'[w] # "absent" PROVE OwedTells(w)'
  <2> SUFFICES ASSUME NEW u \in Threads, NEW i, LastAbout(owes'[u], w, i)
               PROVE  Tells(owes'[u][i].kind, state'[w])
    BY DEF OwedTells
  <2>1. CASE w \in About(s)
    <3>1. u = t
      BY <1>2, <1>6, <2>1 DEF LastAbout, About, Holds
    <3>2. PICK j \in DOMAIN s : owes'[t][i] = s[j] /\ s[j].about = w
      BY <1>3, <2>1, <3>1 DEF Follows
    <3> QED BY <1>10, <3>1, <3>2 DEF Reports
  <2>2. CASE w \notin About(s)
    <3>1. LastAbout(owes[u], w, i) /\ owes'[u][i] = owes[u][i]
      BY <1>2, <1>3, <2>2 DEF Follows
    <3> QED BY <1>8, <1>10, <2>2, <3>1 DEF Truthful, OwedTells
  <2> QED BY <2>1, <2>2
<1>11. ASSUME w \notin todo', state'[w] # "absent" PROVE NewestTells(w)'
  <2>1. CASE w \in About(s)
    BY <1>3, <2>1 DEF NewestTells, Follows
  <2>2. CASE w \notin About(s)
    <3>1. \A u \in Threads : w \in About(owes'[u]) <=> w \in About(owes[u])
      BY <1>2, <1>3, <2>2 DEF Follows
    <3> QED BY <1>8, <1>11, <2>2, <3>1 DEF Truthful, NewestTells
  <2> QED BY <2>1, <2>2
<1>12. ASSUME w \notin todo', state'[w] # "absent" PROVE ToldTells(w)'
  <2> SUFFICES ASSUME NEW u \in Threads, NEW i \in DOMAIN told'[u], told'[u][i].about = w
               PROVE  Tells(told'[u][i].kind, state'[w])
    BY DEF ToldTells
  <2>1. CASE \E j \in DOMAIN n : told'[u][i] = n[j]
    BY <2>1 DEF Narrates
  <2>2. CASE \E j \in DOMAIN told[u] : told'[u][i] = told[u][j]
    <3>1. PICK j \in DOMAIN told[u] : told'[u][i] = told[u][j]
      BY <2>2
    <3>2. w \in About(told[u])
      BY <3>1 DEF About
    <3>3. w \notin About(s)
      BY <1>6, <3>2
    <3> QED BY <1>8, <1>12, <3>1, <3>3 DEF Truthful, ToldTells
  <2> QED BY <1>2, <1>4, <2>1, <2>2
<1> QED BY <1>9, <1>10, <1>11, <1>12 DEF Truthful

\* A simulation that ends owes what it has to tell.
LEMMA EndsKeeps ==
    ASSUME OwesOK, LogInv, NEW c \in Clients, SimulationEnds(c)
    PROVE  LogInv'
<1> SUFFICES ASSUME NEW w \in WorkloadIds, w \notin unclear
             PROVE  /\ OneTeller(w)'
                    /\ w \notin todo /\ state[w] # "absent" => Truthful(w)'
  BY DEF LogInv, SimulationEnds, cpVars, vars, workloadVars, passVars
<1>1. /\ c \in Threads /\ owes[c] = << >>
      /\ owes'[c] = told[c] /\ told'[c] = << >>
      /\ \A u \in Threads \ {c} : owes'[u] = owes[u] /\ told'[u] = told[u]
      /\ UNCHANGED << state, latest >>
  BY DEF SimulationEnds, Ready, OwesOK, Threads, cpVars, vars, workloadVars
<1>2. About(<< >>) = {} /\ DOMAIN << >> = {}
  BY NoEvent
<1>3. OneTeller(w) /\ (w \notin todo /\ state[w] # "absent" => Truthful(w))
  BY DEF LogInv
<1>4. \A u \in Threads : w \in Holds(u)' <=> w \in Holds(u)
  BY <1>1, <1>2 DEF Holds
<1>5. OneTeller(w)'
  BY <1>3, <1>4 DEF OneTeller
<1>6. ASSUME Truthful(w) PROVE Truthful(w)'
  <2>1. OwedTells(w)'
    <3> SUFFICES ASSUME NEW u \in Threads, NEW i, LastAbout(owes'[u], w, i)
                 PROVE  Tells(owes'[u][i].kind, state[w])
      BY <1>1 DEF OwedTells
    <3>1. CASE u = c
      BY <1>1, <1>6, <3>1 DEF LastAbout, Truthful, ToldTells
    <3>2. CASE u # c
      BY <1>1, <1>6, <3>2 DEF Truthful, OwedTells
    <3> QED BY <3>1, <3>2
  <2>2. NewestTells(w)'
    <3> SUFFICES ASSUME \A u \in Threads : w \notin About(owes'[u])
                 PROVE  Tells(latest[w], state[w])
      BY <1>1 DEF NewestTells
    <3>1. \A u \in Threads : w \notin About(owes[u])
      BY <1>1, <1>2
    <3> QED BY <1>6, <3>1 DEF Truthful, NewestTells
  <2>3. ToldTells(w)'
    BY <1>1, <1>2, <1>6 DEF Truthful, ToldTells
  <2> QED BY <2>1, <2>2, <2>3 DEF Truthful
<1> QED BY <1>3, <1>5, <1>6

\* So does recording an event.
LEMMA RecordKeeps ==
    ASSUME OwesOK, LatestOK, LogInv, NEW t \in Threads, Record(t)
    PROVE  LogInv'
<1> SUFFICES ASSUME NEW w \in WorkloadIds, w \notin unclear
             PROVE  /\ OneTeller(w)'
                    /\ w \notin todo /\ state[w] # "absent" => Truthful(w)'
  BY DEF LogInv, Record, cpVars, vars, workloadVars, passVars
<1>1. /\ owes[t] \in Seq(Events) /\ owes[t] # << >>
      /\ owes'[t] = Tail(owes[t])
      /\ \A u \in Threads \ {t} : owes'[u] = owes[u]
      /\ UNCHANGED << state, told >>
  BY DEF OwesOK, Record, cpVars, vars, workloadVars
<1>2. /\ Head(owes[t]) = owes[t][1] /\ 1 \in DOMAIN owes[t]
      /\ About(owes'[t]) \subseteq About(owes[t])
      /\ About(owes[t]) \subseteq About(owes'[t]) \cup {owes[t][1].about}
      /\ \A i : LastAbout(owes'[t], w, i) =>
            LastAbout(owes[t], w, i + 1) /\ owes'[t][i] = owes[t][i + 1]
      /\ w \notin About(owes'[t]) /\ owes[t][1].about = w => LastAbout(owes[t], w, 1)
  <2> DEFINE o == owes[t]
  <2>1. o \in Seq(Events) /\ o # << >> /\ owes'[t] = Tail(o)
    BY <1>1
  <2> HIDE DEF o
  <2>2. /\ Head(o) = o[1] /\ 1 \in DOMAIN o
        /\ About(Tail(o)) \subseteq About(o)
        /\ About(o) \subseteq About(Tail(o)) \cup {o[1].about}
        /\ \A i : LastAbout(Tail(o), w, i) => LastAbout(o, w, i + 1) /\ Tail(o)[i] = o[i + 1]
        /\ w \notin About(Tail(o)) /\ o[1].about = w => LastAbout(o, w, 1)
    BY <2>1, RemovedEvent
  <2> QED BY <2>1, <2>2 DEF o
<1>3. latest' = [latest EXCEPT ![owes[t][1].about] = owes[t][1].kind]
  BY <1>2 DEF Record
<1>4. OneTeller(w) /\ (w \notin todo /\ state[w] # "absent" => Truthful(w))
  BY DEF LogInv
<1>5. OneTeller(w)'
  <2>1. \A u \in Threads : w \in Holds(u)' => w \in Holds(u)
    BY <1>1, <1>2 DEF Holds
  <2> QED BY <1>4, <2>1 DEF OneTeller
<1>6. ASSUME OwedTells(w), NewestTells(w) PROVE OwedTells(w)' /\ NewestTells(w)'
  <2>1. ASSUME NEW u \in Threads, NEW i, LastAbout(owes'[u], w, i)
        PROVE  Tells(owes'[u][i].kind, state[w])
    <3>1. CASE u = t
      BY <1>2, <1>6, <2>1, <3>1 DEF OwedTells
    <3>2. CASE u # t
      BY <1>1, <1>6, <2>1, <3>2 DEF OwedTells
    <3> QED BY <3>1, <3>2
  <2>2. ASSUME \A u \in Threads : w \notin About(owes'[u])
        PROVE  Tells(latest'[w], state[w])
    <3>1. CASE owes[t][1].about = w
      <4>1. LastAbout(owes[t], w, 1)
        BY <1>2, <2>2, <3>1
      <4>2. latest'[w] = owes[t][1].kind
        BY <1>3, <3>1 DEF LatestOK
      <4> QED BY <1>6, <4>1, <4>2 DEF OwedTells
    <3>2. CASE owes[t][1].about # w
      <4>1. \A u \in Threads : w \notin About(owes[u])
        BY <1>1, <1>2, <2>2, <3>2
      <4>2. latest'[w] = latest[w]
        BY <1>3, <3>2 DEF LatestOK
      <4> QED BY <1>6, <4>1, <4>2 DEF NewestTells
    <3> QED BY <3>1, <3>2
  <2> QED BY <1>1, <2>1, <2>2 DEF OwedTells, NewestTells
<1>7. ToldTells(w) => ToldTells(w)'
  BY <1>1 DEF ToldTells
<1> QED BY <1>4, <1>5, <1>6, <1>7 DEF Truthful

\* Every step keeps the log true.
LEMMA LogInvKept == IInv /\ ServiceInv /\ TypesInv /\ LogInv /\ [ServiceNext]_allVars => LogInv'
<1> SUFFICES ASSUME IInv, ServiceInv, TypesInv, LogInv, [ServiceNext]_allVars PROVE LogInv'
  OBVIOUS
<1> DEFINE Silent(w) == /\ \A t \in Threads : w \notin Holds(t)
                        /\ latest[w] = "none"
<1>1. ASSUME \A w \in WorkloadIds \ unclear' : Silent(w)' PROVE LogInv'
  BY <1>1 DEF LogInv, OneTeller, Truthful, OwedTells, NewestTells, ToldTells, Holds,
              LastAbout, About, Tells
<1>2. ASSUME NEW c \in Clients, ReplaceData(c) PROVE LogInv'
  <2>1. \A w \in WorkloadIds \ unclear' : Silent(w)'
    BY <1>2 DEF ReplaceData, Holds
  <2> QED BY <1>1, <2>1
<1>3. ASSUME Start PROVE LogInv'
  <2>1. \A w \in WorkloadIds \ unclear' : Silent(w)'
    BY <1>3, NoEvent DEF Start, TypesInv, Untouched, logVars, Holds
  <2> QED BY <1>1, <2>1
<1>4. ASSUME UNCHANGED << state, todo, logVars >> PROVE LogInv'
  BY <1>4 DEF LogInv, OneTeller, Truthful, OwedTells, NewestTells, ToldTells, Holds, logVars
<1>5. ASSUME Accounted PROVE LogInv'
  BY <1>4, <1>5, LogKeeps DEF Accounted, TypesInv
<1>6. ASSUME NEW t \in Threads, Record(t) PROVE LogInv'
  BY <1>6, RecordKeeps DEF TypesInv
<1>7. ASSUME NEW c \in Clients, SimulationEnds(c) PROVE LogInv'
  BY <1>7, EndsKeeps DEF TypesInv
<1> QED BY <1>2, <1>3, <1>5, <1>6, <1>7, StepAccounts DEF TypesInv

\* The newest event about a workload tells its state, however the calls of the
\* clients, the loop and the passes interleave, and whatever is simulated.
THEOREM LogIsTrue == ServiceSpec => []LogTellsState
<1>1. ServiceInit => LogInv
  BY NoEvent DEF ServiceInit, LogInv, OneTeller, Truthful, OwedTells, NewestTells, ToldTells,
                 Holds, LastAbout, Tells
<1>2. TypesInv /\ LogInv => LogTellsState
  <2> SUFFICES ASSUME TypesInv, LogInv, NEW w \in WorkloadIds \ unclear,
                      LockFree, state[w] # "absent", latest[w] # "none",
                      \A t \in Threads : w \notin About(owes[t])
               PROVE  CASE latest[w] \in {"submitted", "queued", "pending"}
                             -> state[w] = "pending"
                        [] latest[w] \in {"scheduled", "disrupted", "running"}
                             -> state[w] = "running"
                        [] latest[w] = "completed" -> state[w] = "completed"
    BY DEF LogTellsState
  <2>1. Tells(latest[w], state[w])
    BY DEF LogInv, Truthful, NewestTells, LockFree
  <2>2. latest[w] \in EventKinds
    BY DEF TypesInv, LatestOK
  <2> QED BY <2>1, <2>2 DEF Tells, EventKinds
<1>3. Init => IInv
  BY InitIInv
<1> QED BY <1>1, <1>2, <1>3, ServiceStarts, ServiceKept, NextIInv, TypesStart, TypesKept,
           LogInvKept, PTL DEF ServiceSpec

------------------------------------------------------------------------------
(* The samples *)

\* A sample of the present state is still to come: one is due that has not read
\* the store yet or has just read it; or a submission or a round of the loop is
\* under way that will take one.  The round takes none if a node is gone.
Obliged ==
    \/ \E t \in Threads : due[t] \in {"take", "fresh"}
    \/ \E c \in Clients : client[c] # NoWorkload
    \/ stage # "complete" /\ recovering \subseteq Present

\* Or there is one, and it will be among the newest whatever stale samples are
\* still appended.
Stale == {t \in Threads : due[t] = "stale"}

Shown ==
    \E i \in 1 .. Len(history) :
        history[i] /\ Len(history) - i + Cardinality(Stale) < Cardinality(Threads)

\* A pass is run by a call that takes a sample after it; the loop goes through
\* a list of nodes only while it heals.
PassSampled == todo # {} => due[holder] = "take"
ListUsed    == stage \in {"complete", "list"} => recovering = {}

SampleInv ==
    /\ PassSampled /\ ListUsed
    /\ history # << >> => Obliged \/ Shown

\* Where nothing of the store changes and nothing is due in addition.
SameSamples ==
    /\ UNCHANGED << client, health, sampleVars >>
    /\ \/ UNCHANGED << stage, recovering >>
       \/ \E n \in recovering : health[n] = "absent"

\* A submission, and a round of the loop that goes on, will take a sample.
LEMMA SubmitObliges ==
    ASSUME ProcessesOK, NEW c \in Clients, NEW r, Submit(c, r)
    PROVE  Obliged'
<1>1. PICK w \in WorkloadIds : client' = [client EXCEPT ![c] = w]
  BY ScriptFacts DEF Submit, SubmitCreate, Fresh
<1>2. client'[c] # NoWorkload
  BY <1>1, NoWorkloadAssumption DEF ProcessesOK
<1> QED BY <1>2 DEF Obliged

\* So will a call that says so.
LEMMA TakeObliges ==
    ASSUME NEW t \in Threads, DueOK,
           Sampling(t, "take") \/ due' = [due EXCEPT ![t] = "take"]
    PROVE  Obliged'
<1>1. due'[t] = "take"
  BY DEF Sampling, DueOK
<1> QED BY <1>1 DEF Obliged

\* The loop: it will take a sample, or it has found that a node is gone.
LEMMA LoopObliges ==
    ASSUME StoreInv, ServiceInv, HistoryOK, DueOK, ListUsed, LoopStep
    PROVE  Obliged' \/ SameSamples
<1>0. Loop \in Threads /\ Ready(Loop)
  BY DEF Threads, LoopStep
<1>1. CASE ReconcileComplete
  <2>1. stage' = "list" /\ recovering' = {}
    BY <1>1 DEF ReconcileComplete, ListUsed
  <2> QED BY <2>1 DEF Obliged
<1>2. CASE ReconcileList
  <2>1. stage' = "heal" /\ recovering' \subseteq Present'
    BY <1>2 DEF ReconcileList, Present, vars, nodeVars
  <2> QED BY <2>1 DEF Obliged
<1>3. CASE ReconcileHeal /\ Sampling(Loop, "no")
  <2>1. PICK n \in recovering :
           /\ HealNode(n) \/ (health[n] # "recovering" /\ UNCHANGED vars)
           /\ health[n] # "absent" => stage' = "heal" /\ recovering' = recovering \ {n}
    BY <1>3 DEF ReconcileHeal
  <2>2. n \in NodeIds /\ recovering \subseteq NodeIds
    BY DEF ServiceInv, ProcessesOK
  <2>3. CASE health[n] # "absent"
    <3>1. \A m \in NodeIds : health[m] # "absent" => health'[m] # "absent"
      BY <2>1 DEF HealNode, vars, nodeVars, StoreInv, StoreTypeOK
    <3>2. recovering \subseteq Present
      BY <2>2, <2>3 DEF ServiceInv, WholeFleet, Present
    <3>3. recovering' \subseteq Present'
      BY <2>1, <2>2, <2>3, <3>1, <3>2 DEF Present
    <3> QED BY <2>1, <2>3, <3>3 DEF Obliged
  <2>4. CASE health[n] = "absent"
    <3>1. UNCHANGED vars
      BY <2>1, <2>4 DEF HealNode
    <3>2. ~Changed
      BY <3>1 DEF vars, workloadVars, nodeVars, Changed
    <3>3. due' = due
      BY <1>0, <1>3, <3>2 DEF Sampling, DueOK, Ready
    <3>4. history' = history
      <4>1. history \in [1 .. Len(history) -> BOOLEAN] /\ DOMAIN history = 1 .. Len(history)
        BY LenProperties DEF HistoryOK
      <4> QED BY <1>3, <3>2, <4>1 DEF Sampling
    <3>5. UNCHANGED << client, health >>
      BY <1>3, <3>1 DEF ReconcileHeal, vars, nodeVars
    <3> QED BY <2>4, <3>3, <3>4, <3>5 DEF SameSamples, sampleVars
  <2> QED BY <2>3, <2>4
<1>4. CASE Sampling(Loop, "take")
  BY <1>0, <1>4, TakeObliges
<1> QED BY <1>1, <1>2, <1>3, <1>4 DEF LoopStep

\* Every step leaves a sample to come, except where one is recorded, where
\* nothing changes, and at the start.
LEMMA StepObliges ==
    ASSUME IInv, ServiceInv, TypesInv, PassSampled, ListUsed, [ServiceNext]_allVars
    PROVE  \/ Obliged'
           \/ SameSamples
           \/ Start
           \/ \E t \in Threads : RecordTelemetry(t)
<1>0. Clients \subseteq Threads /\ DueOK /\ HistoryOK /\ ProcessesOK /\ StoreInv
  BY DEF Threads, TypesInv, ServiceInv, IInv
<1> USE DEF cpVars, vars, nodeVars, processVars
<1>1. \A c \in Clients : \A r : Submit(c, r) => Obliged'
  BY <1>0, SubmitObliges
<1>2. \A t \in Threads : Sampling(t, "take") \/ due' = [due EXCEPT ![t] = "take"] => Obliged'
  BY <1>0, TakeObliges
<1>3. \A c \in Clients : \A n, how : Disrupts(c, n, how) => Obliged'
  BY <1>0, <1>2 DEF Disrupts
<1>4. \A c \in Clients : OneCall(c) => Obliged'
  BY <1>0, <1>2, <1>3 DEF OneCall, Recovers, SchedulerTick, ReplaceData, Sample
<1>5. \A c \in Clients : StartSimulation(c) => SameSamples
  BY DEF StartSimulation, SameSamples
<1>6. \A c \in Clients : Call(c) => Obliged' \/ SameSamples
  BY <1>1, <1>4, <1>5 DEF Call
<1>7. \A c \in Clients : Schedule(c) => Obliged'
  BY <1>0, <1>2 DEF Schedule
<1>8. \A c \in Clients : Simulation(c) => Obliged' \/ SameSamples
  BY <1>0, <1>1, <1>2, <1>3 DEF Simulation, SimulationLists, SimulationSubmits,
     SimulationDisrupts, SimulationEnds, SameSamples
<1>9. \A t \in Threads : Record(t) => SameSamples
  BY DEF Record, SameSamples
<1>10. \A t \in Threads : Capture(t) => Obliged'
  BY <1>0 DEF Capture, DueOK, Obliged
<1>11. LoopStep => Obliged' \/ SameSamples
  BY <1>0, LoopObliges
<1>12. Pass => Obliged'
  <2>1. Pass => todo # {}
    BY DEF Pass, PassStep
  <2>2. Pass => Sampling(holder, "take")
    BY <2>1 DEF Pass, PassSampled
  <2> QED BY <1>2, <2>2 DEF TypesInv
<1>13. TimePasses \/ UNCHANGED allVars => SameSamples
  BY DEF TimePasses, Tick, serviceVars, allVars, SameSamples
<1> QED BY <1>6, <1>7, <1>8, <1>9, <1>10, <1>11, <1>12, <1>13 DEF ServiceNext

\* What is to come or is shown stays so where nothing changes.
LEMMA SameSamplesKeep ==
    ASSUME SameSamples, Obliged \/ Shown PROVE Obliged' \/ Shown'
<1>1. CASE Shown
  BY <1>1 DEF SameSamples, sampleVars, Shown, Stale
<1>2. CASE Obliged
  BY <1>2 DEF SameSamples, sampleVars, Obliged, Present
<1> QED BY <1>1, <1>2

\* A sample that is recorded fresh is shown; a stale one leaves what is shown
\* among the newest, though one place further back.
LEMMA RecordShows ==
    ASSUME IsFiniteSet(Threads), Cardinality(Threads) <= MaxSnapshots,
           HistoryOK, DueOK, NEW t \in Threads, RecordTelemetry(t), Obliged \/ Shown
    PROVE  Obliged' \/ Shown'
<1> DEFINE b == (due[t] = "fresh")
           a == Append(history, b)
           d == IF Len(a) > MaxSnapshots THEN Len(a) - MaxSnapshots ELSE 0
           N == Cardinality(Threads)
<1>1. /\ Len(history) \in Nat /\ history \in Seq(BOOLEAN) /\ b \in BOOLEAN
      /\ MaxSnapshots \in Nat \ {0} /\ N \in Nat
  BY LenProperties, BoundsAssumption, FS_CardinalityType DEF HistoryOK
<1>2. /\ a \in Seq(BOOLEAN) /\ Len(a) = Len(history) + 1 /\ a[Len(history) + 1] = b
      /\ \A i \in 1 .. Len(history) : a[i] = history[i]
  BY <1>1, RecordedFacts
<1>3. /\ Newest(a, MaxSnapshots) \in Seq(BOOLEAN)
      /\ Len(Newest(a, MaxSnapshots)) = Len(a) - d
      /\ \A i \in 1 .. Len(a) - d : Newest(a, MaxSnapshots)[i] = a[i + d]
  <2>1. a \in Seq(BOOLEAN) /\ Len(a) > 0 /\ MaxSnapshots \in Nat \ {0}
    BY <1>1, <1>2
  <2> HIDE DEF a
  <2> QED BY <2>1, NewestFacts
<1>4. history' = Newest(a, MaxSnapshots)
  BY DEF RecordTelemetry, Recorded
<1>5. due' = [due EXCEPT ![t] = "no"]
  BY DEF RecordTelemetry
<1>6. Stale' = Stale \ {t}
  BY <1>5 DEF Stale, DueOK
<1>7. IsFiniteSet(Stale) /\ IsFiniteSet(Threads \ {t})
  BY FS_Subset DEF Stale
<1>8. Cardinality(Threads \ {t}) = N - 1
  BY FS_RemoveElement
<1>9. Cardinality(Stale') \in Nat /\ Cardinality(Stale') < N
  <2>1. Stale' \subseteq Threads \ {t}
    BY <1>6 DEF Stale
  <2> QED BY <1>1, <1>7, <1>8, <2>1, FS_Subset, FS_CardinalityType
<1> HIDE DEF a, b, N
<1>10. CASE due[t] = "fresh"
  <2> DEFINE i == Len(a) - d
  <2>1. i \in 1 .. Len(history') /\ i + d = Len(history) + 1 /\ Len(history') = i
    BY <1>1, <1>2, <1>3, <1>4
  <2>2. history'[i]
    BY <1>2, <1>3, <1>4, <1>10, <2>1 DEF b
  <2>3. Len(history') - i = 0
    BY <1>1, <1>2, <2>1
  <2>4. Len(history') - i + Cardinality(Stale') < N
    BY <1>9, <2>3
  <2> QED BY <2>1, <2>2, <2>4 DEF Shown, N
<1>11. CASE due[t] # "fresh"
  <2>1. due[t] = "stale" /\ t \in Stale
    BY <1>11 DEF RecordTelemetry, Stale
  <2>2. CASE Obliged
    <3>1. UNCHANGED << client, stage, recovering, health >>
      BY DEF RecordTelemetry, cpVars, vars, nodeVars, processVars
    <3>2. \A u \in Threads : due[u] \in {"take", "fresh"} => due'[u] = due[u]
      BY <1>5, <2>1 DEF DueOK
    <3> QED BY <2>2, <3>1, <3>2 DEF Obliged, Present
  <2>3. CASE Shown
    <3>1. PICK i \in 1 .. Len(history) :
             history[i] /\ Len(history) - i + Cardinality(Stale) < N
      BY <2>3 DEF Shown, N
    <3>2. Cardinality(Stale') = Cardinality(Stale) - 1 /\ Cardinality(Stale) \in Nat
      BY <1>6, <1>7, <2>1, FS_RemoveElement, FS_CardinalityType
    <3>3. Cardinality(Stale) >= 1 /\ N <= MaxSnapshots
      BY <1>9, <3>2 DEF N
    <3>4. i - d \in 1 .. Len(a) - d
      BY <1>1, <1>2, <3>1, <3>2, <3>3
    <3>5. i - d + d = i /\ i \in 1 .. Len(history)
      BY <1>1, <1>2, <3>1
    <3>6. history'[i - d] = history[i] /\ i - d \in 1 .. Len(history')
      BY <1>2, <1>3, <1>4, <3>4, <3>5
    <3>7. Len(history') - (i - d) + Cardinality(Stale') < N
      BY <1>1, <1>2, <1>3, <1>4, <3>1, <3>2
    <3> QED BY <3>1, <3>6, <3>7 DEF Shown, N
  <2> QED BY <2>2, <2>3
<1> QED BY <1>10, <1>11

\* The mutex is held for a pass by a call that samples after it.
LEMMA PassSampledKept ==
    ASSUME IInv, TypesInv, PassSampled, [ServiceNext]_allVars
    PROVE  PassSampled'
<1>0. /\ Clients \subseteq Threads /\ Loop \in Threads /\ holder \in Threads
      /\ due \in [Threads -> DueStates]
  BY DEF Threads, TypesInv, DueOK
<1>1. ASSUME todo' = {} PROVE PassSampled'
  BY <1>1 DEF PassSampled
<1>2. ASSUME NEW t \in Threads, Begins(t), Sampling(t, "take") PROVE PassSampled'
  BY <1>2 DEF Begins, Sampling, PassSampled
<1>3. ASSUME UNCHANGED << todo, holder >>, due'[holder] = due[holder] PROVE PassSampled'
  BY <1>3 DEF PassSampled
<1>4. ASSUME LockFree, UNCHANGED passVars PROVE PassSampled'
  BY <1>1, <1>4 DEF LockFree, passVars
<1>5. ASSUME LockFree, UNCHANGED cpVars PROVE PassSampled'
  BY <1>4, <1>5 DEF cpVars, vars
<1>6. \A c \in Clients : \A r : Submit(c, r) => PassSampled'
  BY <1>4 DEF Submit, Ready, SubmitCreate, CreateWorkload
<1>7. \A c \in Clients : \A n, how : Disrupts(c, n, how) => PassSampled'
  BY <1>0, <1>2 DEF Disrupts
<1>8. \A c \in Clients : Call(c) => PassSampled'
  BY <1>0, <1>2, <1>4, <1>5, <1>6, <1>7
     DEF Call, Ready, OneCall, Recovers, SchedulerTick, ReplaceData, Clear, SeedDemoData,
         Sample, StartSimulation
<1>9. \A c \in Clients : Schedule(c) => PassSampled'
  BY <1>4 DEF Schedule, Ready, SubmitSchedule, ScheduleWorkload, vars
<1>10. \A c \in Clients : Simulation(c) => PassSampled'
  BY <1>5, <1>6, <1>7 DEF Simulation, SimulationLists, SimulationSubmits,
     SimulationDisrupts, SimulationEnds, Ready
<1>11. \A t \in Threads : Record(t) \/ Capture(t) => PassSampled'
  BY <1>5 DEF Record, Capture
<1>12. ASSUME NEW t \in Threads, RecordTelemetry(t) PROVE PassSampled'
  <2>1. UNCHANGED << todo, holder >> /\ due' = [due EXCEPT ![t] = "no"]
    BY <1>12 DEF RecordTelemetry, cpVars, vars, passVars
  <2>2. CASE todo = {}
    BY <1>1, <2>1, <2>2
  <2>3. CASE todo # {}
    <3>1. holder # t
      BY <1>12, <2>3 DEF RecordTelemetry, PassSampled
    <3> QED BY <1>0, <1>3, <2>1, <3>1
  <2> QED BY <2>2, <2>3
<1>13. ASSUME LoopStep PROVE PassSampled'
  <2>1. CASE Sampling(Loop, "take")
    BY <1>0, <1>2, <1>13, <2>1 DEF LoopStep
  <2>2. CASE ReconcileComplete
    BY <1>4, <1>13, <2>2 DEF LoopStep, Ready, ReconcileComplete, CompleteExpiredWorkloads
  <2>3. CASE ReconcileList
    BY <1>4, <2>3 DEF ReconcileList, vars
  <2>4. CASE ReconcileHeal
    BY <1>4, <2>4 DEF ReconcileHeal, HealNode, vars
  <2> QED BY <1>13, <2>1, <2>2, <2>3, <2>4 DEF LoopStep
<1>14. ASSUME Pass PROVE PassSampled'
  <2>1. todo # {} /\ Begins(holder) /\ Sampling(holder, due[holder])
    BY <1>14 DEF Pass, PassStep
  <2> QED BY <1>0, <1>2, <2>1 DEF PassSampled
<1>15. TimePasses \/ Start => PassSampled'
  BY <1>3, <1>4 DEF TimePasses, Tick, Start, ConfiguredStore, SeedDemoData, vars, passVars
<1>16. UNCHANGED allVars => PassSampled'
  BY DEF allVars, cpVars, vars, passVars, serviceVars, sampleVars, PassSampled
<1> QED BY <1>8, <1>9, <1>10, <1>11, <1>12, <1>13, <1>14, <1>15, <1>16 DEF ServiceNext

\* The list of the loop is used up when a round begins or ends.
LEMMA ListUsedKept ==
    ASSUME ScriptsOK, ListUsed, [ServiceNext]_allVars
    PROVE  ListUsed'
<1> USE DEF ListUsed
<1>1. ProcessStep \/ UNCHANGED << vars, processVars >>
  BY ServiceStep
<1>2. ASSUME UNCHANGED << stage, recovering >> PROVE ListUsed'
  BY <1>2
<1>3. ASSUME Reconcile PROVE ListUsed'
  <2>1. ReconcileComplete => ListUsed'
    BY DEF ReconcileComplete
  <2>2. ReconcileList => ListUsed'
    BY DEF ReconcileList
  <2>3. ReconcileHeal => ListUsed'
    BY DEF ReconcileHeal
  <2>4. ReconcileSchedule => ListUsed'
    BY DEF ReconcileSchedule
  <2> QED BY <1>3, <2>1, <2>2, <2>3, <2>4 DEF Reconcile
<1>4. ASSUME NEW c, NEW w, NEW r, SubmitCreate(c, w, r) \/ SubmitSchedule(c)
      PROVE  ListUsed'
  BY <1>2, <1>4 DEF SubmitCreate, SubmitSchedule
<1> QED BY <1>1, <1>2, <1>3, <1>4 DEF ProcessStep, Request, Internal, processVars

\* The invariant, if the history has room for a sample of every thread.
LEMMA SampleInvKept ==
    ASSUME IsFiniteSet(Threads), Cardinality(Threads) <= MaxSnapshots
    PROVE  IInv /\ ServiceInv /\ TypesInv /\ SampleInv /\ [ServiceNext]_allVars => SampleInv'
<1> SUFFICES ASSUME IInv, ServiceInv, TypesInv, SampleInv, [ServiceNext]_allVars
             PROVE  SampleInv'
  OBVIOUS
<1>1. PassSampled' /\ ListUsed'
  BY PassSampledKept, ListUsedKept DEF SampleInv, ServiceInv
<1>2. ASSUME Start PROVE Shown'
  <2>1. history' = << TRUE >> /\ UNCHANGED due /\ due = [t \in Threads |-> "no"]
    BY <1>2 DEF Start, TypesInv, Untouched
  <2>2. Stale' = {}
    BY <2>1 DEF Stale
  <2>3. Cardinality(Threads) > 0
    <3>1. Threads # {}
      BY DEF Threads
    <3> QED BY <3>1, FS_EmptySet, FS_CardinalityType
  <2>4. Cardinality(Stale') = 0
    BY <2>2, FS_EmptySet
  <2>5. Len(history') = 1 /\ history'[1]
    BY <2>1
  <2> QED BY <2>3, <2>4, <2>5 DEF Shown
<1>3. ASSUME history' # << >>, ~Start PROVE Obliged' \/ Shown'
  <2>1. CASE history = << >>
    <3>1. UNCHANGED allVars
      BY <1>3, <2>1 DEF ServiceNext
    <3> QED BY <1>3, <2>1, <3>1 DEF allVars, serviceVars, sampleVars
  <2>2. CASE history # << >>
    BY <1>3, <2>2, StepObliges, SameSamplesKeep, RecordShows DEF SampleInv, TypesInv
  <2> QED BY <2>1, <2>2
<1> QED BY <1>1, <1>2, <1>3 DEF SampleInv

\* Whoever asks for the newest samples, one for every thread, finds the present
\* state among them once nothing is under way; provided that the history holds
\* as many.
THEOREM PresentSampled ==
    ASSUME IsFiniteSet(Clients), Cardinality(Threads) <= MaxSnapshots
    PROVE  ServiceSpec => []PresentStateSampled
<1>0. IsFiniteSet(Threads)
  BY FS_AddElement DEF Threads
<1>1. ServiceInit => SampleInv
  BY DEF ServiceInit, CPInit, Init, SampleInv, PassSampled, ListUsed
<1>2. IInv /\ ServiceInv /\ TypesInv /\ SampleInv /\ [ServiceNext]_allVars => SampleInv'
  BY <1>0, SampleInvKept
<1>3. TypesInv /\ SampleInv => PresentStateSampled
  <2> SUFFICES ASSUME TypesInv, SampleInv, AtRest
               PROVE  LET newest == TelemetryHistory(history, Cardinality(Threads))
                      IN  \E i \in DOMAIN newest : newest[i]
    BY DEF PresentStateSampled
  <2> DEFINE N == Cardinality(Threads)
             d == IF Len(history) > N THEN Len(history) - N ELSE 0
  <2>1. \A t \in Threads : due[t] = "no"
    BY DEF AtRest, Ready
  <2>2. ~Obliged /\ Stale = {}
    BY <2>1 DEF Obliged, AtRest, Stale
  <2>3. PICK i \in 1 .. Len(history) : history[i] /\ Len(history) - i + Cardinality(Stale) < N
    BY <2>2 DEF SampleInv, AtRest, Shown
  <2>4. N \in Nat \ {0}
    <3>1. Threads # {}
      BY DEF Threads
    <3> QED BY <1>0, <3>1, FS_EmptySet, FS_CardinalityType
  <2>5. history \in Seq(BOOLEAN) /\ Len(history) \in Nat /\ Len(history) > 0
    BY <2>3, LenProperties DEF TypesInv, HistoryOK
  <2>6. /\ Newest(history, N) \in Seq(BOOLEAN)
        /\ Len(Newest(history, N)) = Len(history) - d
        /\ \A j \in 1 .. Len(history) - d : Newest(history, N)[j] = history[j + d]
    <3> HIDE DEF N
    <3> QED BY <2>4, <2>5, NewestFacts
  <2> HIDE DEF N
  <2>7. Cardinality(Stale) = 0
    BY <2>2, FS_EmptySet
  <2>8. i - d \in 1 .. Len(history) - d /\ i - d + d = i
    BY <2>3, <2>4, <2>5, <2>7
  <2>9. Newest(history, N)[i - d]
    BY <2>3, <2>6, <2>8
  <2>10. i - d \in DOMAIN Newest(history, N)
    <3>1. DOMAIN Newest(history, N) = 1 .. Len(Newest(history, N))
      BY <2>6, LenProperties
    <3> QED BY <2>6, <2>8, <3>1
  <2>11. TelemetryHistory(history, N) = Newest(history, N)
    BY <2>4 DEF TelemetryHistory
  <2> QED BY <2>9, <2>10, <2>11 DEF N
<1>4. Init => IInv
  BY InitIInv
<1> QED BY <1>1, <1>2, <1>3, <1>4, ServiceStarts, ServiceKept, NextIInv, TypesStart, TypesKept,
           PTL DEF ServiceSpec
==============================================================================
