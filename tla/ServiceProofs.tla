---------------------------- MODULE ServiceProofs ----------------------------
(***************************************************************************)
(* The service uses the store only through the operations of its           *)
(* processes, and records what they did beside them: it implements         *)
(* MemoryStore, and through it the ledger.  What is proved of the store    *)
(* holds of the service, with its simulations, for any number of clients   *)
(* and whatever they post.                                                 *)
(***************************************************************************)
EXTENDS Service, ControlPlaneProofs, AccountingProofs

Scripts ==
    [do : {"nothing", "submit", "list", "fail", "preempt"},
     req : Requests \cup {NoRequest}, times : Nat,
     nodes : SUBSET NodeIds, done : SUBSET NodeIds]

\* A script submits what a client may ask for, and disrupts nodes of the fleet.
ScriptsOK ==
    /\ script \in [Clients -> Scripts]
    /\ \A c \in Clients : script[c].do = "submit" => script[c].req \in Requests

ServiceInv == ProcessesOK /\ ScriptsOK /\ WholeFleet

\* The empty script is one, and the first of a set of nodes are nodes.
LEMMA ScriptFacts ==
    /\ NoScript \in Scripts /\ NoScript.do = "nothing"
    /\ \A S, k : FirstOf(S, k) \subseteq S
<1> QED BY DEF NoScript, Scripts, FirstOf

\* Calls that disrupt, recover or replace are requests to the store.
LEMMA CallIsRequest ==
    ASSUME NEW c, NEW n, \/ \E how \in {"fail", "preempt"} : Disrupts(c, n, how)
                         \/ Recovers(c, n)
                         \/ SchedulerTick(c)
                         \/ ReplaceData(c)
    PROVE  Request
<1>1. ASSUME Disrupt(n) \/ RecoverNode(n) PROVE n \in NodeIds
  BY <1>1 DEF Disrupt, RecoverNode, Present
<1> QED BY <1>1 DEF Disrupts, Recovers, SchedulerTick, ReplaceData, Request,
                    FailNode, PreemptSpotNode

\* A submission creates one of the identifiers of the store.
LEMMA SubmitIsCreate ==
    ASSUME NEW c \in Clients, NEW r \in Requests, Submit(c, r)
    PROVE  ProcessStep
<1> QED BY ScriptFacts DEF Submit, ProcessStep, Fresh

\* A call of a client uses the store as one of the processes, or not at all.
LEMMA CallIsProcessStep ==
    ASSUME NEW c \in Clients, Call(c)
    PROVE  ProcessStep \/ UNCHANGED << vars, processVars >>
<1>1. CASE \E p \in Posted, r \in Requests : Submit(c, r)
  BY <1>1, SubmitIsCreate
<1>2. CASE OneCall(c)
  BY <1>2, CallIsRequest DEF OneCall, ProcessStep, Sample, cpVars
<1>3. CASE StartSimulation(c)
  BY <1>3 DEF StartSimulation, cpVars
<1> QED BY <1>1, <1>2, <1>3 DEF Call

\* So does a step of a simulation.
LEMMA SimulationIsProcessStep ==
    ASSUME ScriptsOK, NEW c \in Clients, Simulation(c)
    PROVE  ProcessStep \/ UNCHANGED << vars, processVars >>
<1>1. CASE SimulationLists(c)
  BY <1>1 DEF SimulationLists, cpVars
<1>2. CASE SimulationSubmits(c)
  BY <1>2, SubmitIsCreate DEF SimulationSubmits, ScriptsOK
<1>3. CASE SimulationDisrupts(c)
  <2>1. CASE UNCHANGED cpVars
    BY <2>1 DEF cpVars
  <2>2. CASE \E n \in script[c].nodes : Disrupts(c, n, script[c].do)
    <3>1. PICK n \in script[c].nodes : Disrupts(c, n, script[c].do)
      BY <2>2
    <3>2. script[c].do \in {"fail", "preempt"}
      BY <3>1 DEF Disrupts
    <3> QED BY <3>1, <3>2, CallIsRequest DEF ProcessStep
  <2> QED BY <1>3, <2>1, <2>2, ScriptFacts DEF SimulationDisrupts
<1>4. CASE SimulationEnds(c)
  BY <1>4 DEF SimulationEnds, cpVars
<1> QED BY <1>1, <1>2, <1>3, <1>4 DEF Simulation

\* Every step of the service is one of a process, or it leaves the store and
\* the processes alone: recording, sampling and scripts are beside them.
LEMMA ServiceStep ==
    ASSUME ScriptsOK, [ServiceNext]_allVars
    PROVE  ProcessStep \/ UNCHANGED << vars, processVars >>
<1>1. CASE Start
  BY <1>1 DEF Start, ConfiguredStore, ProcessStep, Request
<1>2. CASE \E c \in Clients : Call(c) \/ Schedule(c) \/ Simulation(c)
  BY <1>2, CallIsProcessStep, SimulationIsProcessStep DEF Schedule, ProcessStep
<1>3. CASE \E t \in Threads : Record(t) \/ Capture(t) \/ RecordTelemetry(t)
  BY <1>3 DEF Record, Capture, RecordTelemetry, cpVars
<1>4. CASE LoopStep
  BY <1>4 DEF LoopStep, ProcessStep, Reconcile
<1>5. CASE Pass
  BY <1>5 DEF Pass, ProcessStep, Internal
<1>6. CASE TimePasses
  BY <1>6 DEF TimePasses, ProcessStep, Internal
<1>7. CASE UNCHANGED allVars
  BY <1>7 DEF allVars, cpVars
<1> QED BY <1>1, <1>2, <1>3, <1>4, <1>5, <1>6, <1>7 DEF ServiceNext

\* The scripts keep their type: what a simulation takes from its list are nodes.
LEMMA ScriptsKept ==
    ASSUME ScriptsOK, [ServiceNext]_allVars
    PROVE  ScriptsOK'
<1> USE DEF ScriptsOK
<1>1. CASE \E c \in Clients : Call(c) /\ StartSimulation(c)
  <2>1. PICK c \in Clients : StartSimulation(c)
    BY <1>1
  <2>2. PICK s : /\ script' = [script EXCEPT ![c] = s]
                 /\ s \in Scripts
                 /\ s.do = "submit" => s.req \in Requests
    <3> DEFINE Submits == {[NoScript EXCEPT !.do = "submit", !.req = x.req, !.times = x.times] :
                             x \in Simulations}
    <3>1. ASSUME NEW x \in Simulations
          PROVE  LET s == [NoScript EXCEPT !.do = "submit", !.req = x.req, !.times = x.times]
                 IN  s \in Scripts /\ s.req \in Requests
      <4>1. x.req \in Requests /\ x.times \in Nat
        BY SimulationsAssumption
      <4> QED BY <4>1 DEF NoScript, Scripts
    <3>2. \A do \in {"list", "fail", "preempt"}, S \in SUBSET NodeIds :
             Script(do, S) \in Scripts /\ Script(do, S).do = do
      BY DEF NoScript, Scripts, Script
    <3>3. \A k, S : S \subseteq NodeIds => FirstOf(S, k) \in SUBSET NodeIds
      BY ScriptFacts
    <3>4. HealthyNodes \subseteq NodeIds
      BY DEF HealthyNodes
    <3> DEFINE Spots == FirstOf({n \in HealthyNodes : Fleet[n].class = "spot"}, 1)
               Busy  == FirstOf({n \in HealthyNodes : alloc[n] > 0}, 2)
    <3>5. Spots \in SUBSET NodeIds /\ Busy \in SUBSET NodeIds
      BY <3>3, <3>4
    <3>6. \A s \in Submits : s \in Scripts /\ s.req \in Requests
      BY <3>1
    <3> HIDE DEF Submits, Spots, Busy
    <3>7. script' \in {[script EXCEPT ![c] = s] :
                          s \in Submits
                           \cup {IF Spots = {} THEN NoScript ELSE Script("preempt", Spots)}
                           \cup {IF Busy = {} THEN Script("list", {}) ELSE Script("fail", Busy)}}
      BY <2>1 DEF StartSimulation, Submits, Spots, Busy
    <3> QED BY <3>2, <3>5, <3>6, <3>7, ScriptFacts
  <2> QED BY <2>2
<1>2. CASE \E c \in Clients : SimulationLists(c)
  <2>1. PICK c \in Clients : SimulationLists(c)
    BY <1>2
  <2> DEFINE S == FirstOf(HealthyNodes, 2)
  <2>2. S \in SUBSET NodeIds
    BY ScriptFacts DEF HealthyNodes
  <2>3. Script("fail", S) \in Scripts /\ Script("fail", S).do = "fail"
    BY <2>2 DEF Script, Scripts, NoScript
  <2>4. script' = [script EXCEPT ![c] = IF S = {} THEN NoScript ELSE Script("fail", S)]
    BY <2>1 DEF SimulationLists
  <2> HIDE DEF S
  <2> QED BY <2>3, <2>4, ScriptFacts
<1>3. CASE \E c \in Clients : SimulationSubmits(c)
  <2>1. PICK c \in Clients : SimulationSubmits(c)
    BY <1>3
  <2> DEFINE s == [script[c] EXCEPT !.times = @ - 1]
  <2>2. script[c] \in Scripts /\ script[c].times > 0
    BY <2>1 DEF SimulationSubmits
  <2>3. s \in Scripts /\ s.do = script[c].do /\ s.req = script[c].req
    BY <2>2 DEF Scripts
  <2>4. script' = [script EXCEPT ![c] = s]
    BY <2>1 DEF SimulationSubmits
  <2> HIDE DEF s
  <2> QED BY <2>3, <2>4
<1>4. CASE \E c \in Clients : SimulationDisrupts(c)
  <2>1. PICK c \in Clients : SimulationDisrupts(c)
    BY <1>4
  <2>2. PICK n \in script[c].nodes :
           \/ script' = [script EXCEPT ![c].nodes = @ \ {n}, ![c].done = @ \cup {n}]
           \/ script' = [script EXCEPT ![c] = NoScript]
    BY <2>1, ScriptFacts DEF SimulationDisrupts
  <2>3. CASE script' = [script EXCEPT ![c] = NoScript]
    BY <2>3, ScriptFacts
  <2>4. CASE script' = [script EXCEPT ![c].nodes = @ \ {n}, ![c].done = @ \cup {n}]
    <3> DEFINE s == [script[c] EXCEPT !.nodes = @ \ {n}, !.done = @ \cup {n}]
    <3>1. script[c] \in Scripts /\ n \in NodeIds
      BY DEF Scripts
    <3>2. s \in Scripts /\ s.do = script[c].do /\ s.req = script[c].req
      BY <3>1 DEF Scripts
    <3>3. script' = [script EXCEPT ![c] = s]
      BY <2>4
    <3> HIDE DEF s
    <3> QED BY <3>2, <3>3
  <2> QED BY <2>2, <2>3, <2>4
<1>5. CASE \E c \in Clients : SimulationEnds(c)
  BY <1>5, ScriptFacts DEF SimulationEnds
<1>6. ASSUME UNCHANGED script PROVE ScriptsOK'
  BY <1>6
<1>7. CASE \E c \in Clients : Call(c) /\ UNCHANGED script
  BY <1>6, <1>7
<1>8. \A c \in Clients : Call(c) => StartSimulation(c) \/ UNCHANGED script
  BY DEF Call
<1>9. \A c \in Clients : Schedule(c) => UNCHANGED script
  BY DEF Schedule
<1>10. \A t : Record(t) \/ Capture(t) \/ RecordTelemetry(t) => UNCHANGED script
  BY DEF Record, Capture, RecordTelemetry
<1>11. Start \/ LoopStep \/ Pass \/ TimePasses \/ UNCHANGED allVars => UNCHANGED script
  BY DEF Start, LoopStep, Pass, TimePasses, serviceVars, allVars
<1> QED BY <1>1, <1>2, <1>3, <1>4, <1>5, <1>6, <1>8, <1>9, <1>10, <1>11
        DEF ServiceNext, Simulation

\* The invariant, with the store's own.
LEMMA ServiceKept == IInv /\ ServiceInv /\ [ServiceNext]_allVars => ServiceInv' /\ [Next]_vars
<1> SUFFICES ASSUME IInv, ServiceInv, [ServiceNext]_allVars PROVE ServiceInv' /\ [Next]_vars
  OBVIOUS
<1>1. ProcessStep \/ UNCHANGED << vars, processVars >>
  BY ServiceStep DEF ServiceInv
<1>2. [Next]_vars
  BY <1>1, ProcessStepIsOperation DEF ServiceInv
<1>3. ProcessesOK'
  BY <1>1, ProcessStepKeepsTypes DEF ServiceInv, ProcessesOK, processVars
<1>4. ScriptsOK'
  BY ScriptsKept DEF ServiceInv
<1>5. WholeFleet'
  BY <1>2, WholeFleetKept DEF ServiceInv, IInv
<1> QED BY <1>2, <1>3, <1>4, <1>5 DEF ServiceInv

\* It holds at the start.
LEMMA ServiceStarts == ServiceInit => Init /\ ServiceInv
<1> SUFFICES ASSUME ServiceInit PROVE Init /\ ServiceInv
  OBVIOUS
<1>1. ProcessesOK
  BY DEF ServiceInit, CPInit, ProcessesOK, Stages
<1>2. ScriptsOK
  BY ScriptFacts DEF ServiceInit, ScriptsOK
<1>3. WholeFleet
  BY DEF ServiceInit, CPInit, Init, WholeFleet, Present
<1> QED BY <1>1, <1>2, <1>3 DEF ServiceInit, CPInit, ServiceInv

\* The service implements the store: its calls, its loop and its simulations
\* reach the store only by the operations of MemoryStore, with arguments the
\* store expects, so that what is proved of the store holds of the service.
THEOREM ServiceSafety == ServiceSpec => Spec /\ []ServiceInv
<1>1. Init => IInv
  BY InitIInv
<1> QED BY <1>1, ServiceStarts, ServiceKept, NextIInv, PTL DEF ServiceSpec, Spec

\* Hence GPUs change hands only by the entries of the ledger, whatever clients
\* post and however their calls interleave ...
THEOREM ServiceImplementsLedger == ServiceSpec => ImplementsLedger
<1> QED BY ServiceSafety, StoreImplementsLedger, PTL

\* ... and the summary of the fleet accounts for every GPU at any moment a
\* request may ask for it.
THEOREM ServiceAddsUp == ServiceSpec => []CapacityPartitioned
<1> QED BY ServiceSafety, CapacityAddsUp, PTL

\* And nobody loses GPUs to one behind it in the queue, nor more than that one
\* needs, whoever asks for the pass in which it happens.
THEOREM ServiceEvictions == ServiceSpec => EvictionRespectsQueueOrder /\ EvictionBounded
<1> QED BY ServiceSafety, EvictionOrdered, EvictionIsBounded, PTL

\* A simulation that is cut short while it has nodes to disrupt was told that
\* the next one is not there.
LEMMA OnlyNotFoundCuts ==
    ASSUME [ServiceNext]_allVars, ScriptsOK, NEW c \in Clients,
           script[c].do \in {"fail", "preempt"}, script[c].nodes # {},
           script'[c] = NoScript
    PROVE  UNCHANGED health /\ \E n \in script[c].nodes : health[n] = "absent"
<1>1. script[c] # NoScript /\ script'[c] # script[c]
  BY ScriptFacts
<1>2. ASSUME NEW d \in Clients, d # c PROVE ~Call(d) /\ ~Simulation(d)
  <2>1. ASSUME NEW s, script' = [script EXCEPT ![d] = s] PROVE FALSE
    BY <1>1, <1>2, <2>1 DEF ScriptsOK
  <2>2. ~StartSimulation(d)
    <3> SUFFICES ASSUME StartSimulation(d) PROVE FALSE
      OBVIOUS
    <3>1. PICK s : script' = [script EXCEPT ![d] = s]
      BY DEF StartSimulation
    <3> QED BY <2>1, <3>1
  <2>3. ~SimulationDisrupts(d)
    <3> SUFFICES ASSUME SimulationDisrupts(d) PROVE FALSE
      OBVIOUS
    <3>1. PICK n \in script[d].nodes :
             \/ script' = [script EXCEPT ![d].nodes = @ \ {n}, ![d].done = @ \cup {n}]
             \/ script' = [script EXCEPT ![d] = NoScript]
      BY ScriptFacts DEF SimulationDisrupts
    <3> QED BY <1>1, <1>2, <3>1 DEF ScriptsOK
  <2>4. ~SimulationLists(d) /\ ~SimulationSubmits(d) /\ ~SimulationEnds(d)
    BY <1>1, <1>2 DEF ScriptsOK, SimulationLists, SimulationSubmits, SimulationEnds
  <2>5. ~Call(d)
    BY <1>1, <2>2 DEF Call
  <2> QED BY <2>2, <2>3, <2>4, <2>5 DEF Simulation
<1>3. ~Call(c)
  BY <1>1 DEF Call
<1>4. ~SimulationLists(c) /\ ~SimulationSubmits(c) /\ ~SimulationEnds(c)
  BY DEF SimulationLists, SimulationSubmits, SimulationEnds
<1>5. \A d : Schedule(d) => UNCHANGED script
  BY DEF Schedule
<1>6. \A t : Record(t) \/ Capture(t) \/ RecordTelemetry(t) => UNCHANGED script
  BY DEF Record, Capture, RecordTelemetry
<1>7. Start \/ LoopStep \/ Pass \/ TimePasses \/ UNCHANGED allVars => UNCHANGED script
  BY DEF Start, LoopStep, Pass, TimePasses, serviceVars, allVars
<1>8. SimulationDisrupts(c)
  BY <1>1, <1>2, <1>3, <1>4, <1>5, <1>6, <1>7 DEF ServiceNext, Simulation
<1>9. PICK n \in script[c].nodes :
         \/ script' = [script EXCEPT ![c].nodes = @ \ {n}, ![c].done = @ \cup {n}]
         \/ ~SimulationFinds(n) /\ UNCHANGED cpVars
  BY <1>8, ScriptFacts DEF SimulationDisrupts
<1>10. script' # [script EXCEPT ![c].nodes = @ \ {n}, ![c].done = @ \cup {n}]
  BY ScriptFacts DEF ScriptsOK, Scripts
<1> QED BY <1>9, <1>10 DEF SimulationFinds, cpVars, vars, nodeVars

\* Whoever gets the error of a disrupting simulation finds no half of it.
THEOREM FailedSimulations == ServiceSpec => FailedSimulationLeavesNothing
<1>1. ASSUME ServiceInv, [ServiceNext]_allVars, NEW c \in Clients,
             script[c].do \in {"fail", "preempt"}, script[c].nodes # {},
             script'[c] = NoScript, NEW n \in script[c].done
      PROVE  health'[n] = "absent"
  <2>1. PICK m \in script[c].nodes : health[m] = "absent" /\ UNCHANGED health
    BY <1>1, OnlyNotFoundCuts DEF ServiceInv
  <2>2. m \in NodeIds /\ n \in NodeIds
    BY <1>1 DEF ServiceInv, ScriptsOK, Scripts
  <2> QED BY <1>1, <2>1, <2>2 DEF ServiceInv, WholeFleet, Present
<1>2. ServiceInv /\ [ServiceNext]_allVars =>
         [\A c \in Clients :
             /\ script[c].do \in {"fail", "preempt"} /\ script[c].nodes # {}
             /\ script'[c] = NoScript
             => \A n \in script[c].done : health'[n] = "absent"]_allVars
  BY <1>1
<1> QED BY <1>2, ServiceSafety, PTL DEF ServiceSpec, FailedSimulationLeavesNothing
==============================================================================
