-------------------------------- MODULE Service --------------------------------
(***************************************************************************)
(* The service of controlplane/service.go around the processes of          *)
(* ControlPlane: what each call adds to the log of events, the samples of  *)
(* the telemetry it takes, the validation of requests, and the             *)
(* simulations, which are scripts of calls.                                *)
(*                                                                         *)
(* A call works in three parts: the operations on the store, then its      *)
(* events, one CreateEvent each, then the sample.  Other threads run in    *)
(* between.  Calls do not fail here; ControlPlane and PostgresStore model  *)
(* that.  Events about nodes are left out, those of the narrative of a     *)
(* simulation included.                                                    *)
(***************************************************************************)
EXTENDS ControlPlane, Telemetry, SequencesExt

CONSTANTS
    Loop,           \* the thread of the reconciliation loop
    Posted,         \* the bodies clients may post
    Simulations,    \* the simulations that submit: [req, times]
    MaxSnapshots,   \* maxTelemetrySnapshots
    MaxCalls        \* bound on the calls of the clients

ASSUME LoopAssumption == Loop \notin Clients
ASSUME SimulationsAssumption == Simulations \subseteq [req : Requests, times : Nat]
ASSUME BoundsAssumption == MaxSnapshots \in Nat \ {0} /\ MaxCalls \in Nat

Threads == Clients \cup {Loop}

VARIABLES
    owes,       \* owes[t]: the events the call of t has still to record
    told,       \* told[t]: the narrative of t's simulation, recorded at its end
    due,        \* due[t]: whether the call of t has still to sample, see below
    holder,     \* whose call holds the mutex for the pass under way
    latest,     \* latest[w]: the newest event about w in the log
    history,    \* the samples, oldest first: does it show the present state?
    script,     \* script[c]: the simulation c runs
    issued,     \* identifiers given to submissions
    calls,      \* calls the clients have made
    unclear     \* auxiliary: workloads the log may contradict, see Log

logVars     == << owes, told, latest, unclear >>
sampleVars  == << due, history >>
serviceVars == << logVars, sampleVars, holder, script, issued, calls >>
allVars     == << cpVars, serviceVars >>

\* "take" a sample; or one has been begun, and the store has not changed since
\* ("fresh") or has ("stale").  Of the two reads of a sample only the first is a
\* step: whenever the second one comes, the sample shows the present state if
\* nothing has changed since the first.
DueStates == {"no", "take", "fresh", "stale"}

\* The first k of a set of identifiers.
FirstOf(S, k) == {n \in S : Cardinality({m \in S : m < n}) < k}

Event(w, kind) == [about |-> w, kind |-> kind]

About(s) == {s[i].about : i \in DOMAIN s}

NoScript == [do |-> "nothing", req |-> NoRequest, times |-> 0, nodes |-> {}, done |-> {}]

ServiceInit ==
    /\ CPInit
    /\ owes = [t \in Threads |-> << >>]
    /\ told = [t \in Threads |-> << >>]
    /\ due = [t \in Threads |-> "no"]
    /\ holder = Loop
    /\ latest = [w \in WorkloadIds |-> "none"]
    /\ history = << >>
    /\ script = [c \in Clients |-> NoScript]
    /\ issued = {}
    /\ calls = 0
    /\ unclear = {}
------------------------------------------------------------------------------
(* What every step of a call does to the log and to the samples *)

\* What a sample shows of the store.
Changed == << state, health, alloc >>' # << state, health, alloc >>

\* evictWorkloadFromNodeLocked: w is queued again.
QueuedAgain(w) == state[w] = "running" /\ state'[w] = "pending"

\* Another thread has still to record an event about w, or a simulation to tell
\* what the submission of w returned.
Contested(t, w) ==
    \E u \in Threads : \/ u # t /\ w \in About(owes[u])
                      \/ w \in About(told[u])

\* Thread t will record the events s, and n when its simulation ends.  Contested
\* events may be recorded in either order, and what a decision takes the last
\* GPUs of gets no event at all: such a workload is unclear, until an event
\* about it is not contested.
Report(t, s, n) ==
    /\ owes' = [owes EXCEPT ![t] = @ \o s]
    /\ told' = [told EXCEPT ![t] = @ \o n]
    /\ unclear' = {w \in WorkloadIds :
                      IF w \in About(s) THEN Contested(t, w)
                      ELSE \/ w \in unclear \/ QueuedAgain(w)
                           \/ w \in About(n) /\ Contested(t, w)}

Log(t, s) == Report(t, s, << >>)

\* Thread t owes the sample next; what others have read may be out of date.
Sampling(t, next) ==
    /\ due' = [u \in Threads |-> IF u = t THEN next
                                 ELSE IF due[u] = "fresh" /\ Changed THEN "stale"
                                 ELSE due[u]]
    /\ history' = [i \in DOMAIN history |-> history[i] /\ ~Changed]

\* The event of a scheduling result.
Result(w) == Event(w, IF state'[w] = "running" THEN "scheduled" ELSE "queued")

EventsOf(S, kind) == SetToSeq({Event(w, kind) : w \in S})

\* Thread t has finished what it owes, and may go on.
Ready(t) == LockFree /\ owes[t] = << >> /\ due[t] = "no"

Begins(t) == holder' = IF todo' = {} THEN Loop ELSE t

\* RecordScheduledResults, RecordAffectedWorkloads: one event at a time.
Record(t) ==
    /\ LockFree
    /\ owes[t] # << >>
    /\ latest' = [latest EXCEPT ![Head(owes[t]).about] = Head(owes[t]).kind]
    /\ owes' = [owes EXCEPT ![t] = Tail(@)]
    /\ UNCHANGED << cpVars, sampleVars, told, unclear, holder, script, issued, calls >>

\* captureTelemetrySnapshot reads the store, which needs its mutex ...
Capture(t) ==
    /\ LockFree
    /\ owes[t] = << >> /\ due[t] = "take"
    /\ due' = [due EXCEPT ![t] = "fresh"]
    /\ UNCHANGED << cpVars, logVars, history, holder, script, issued, calls >>

\* ... and recordTelemetry appends under another one.
RecordTelemetry(t) ==
    /\ due[t] \in {"fresh", "stale"}
    /\ due' = [due EXCEPT ![t] = "no"]
    /\ history' = Recorded(history, due[t] = "fresh", MaxSnapshots)
    /\ UNCHANGED << cpVars, logVars, holder, script, issued, calls >>
------------------------------------------------------------------------------
(* Submissions *)

\* validateWorkloadRequest, on the body of a request.
Valid(p) ==
    /\ p.type \in WorkloadTypes
    /\ p.gpuType \in {"H100", "A100", "L4"}
    /\ p.gpus > 0
    /\ p.prio \in Priorities
    /\ p.duration > 0
    /\ p.type = "inference" => p.replicas >= 0

\* What Submit makes of it at time t, with normalizeReplicas.
Normalized(p, t) ==
    [type |-> p.type, gpuType |-> p.gpuType, gpus |-> p.gpus, prio |-> p.prio,
     spot |-> p.spot, submitted |-> t, duration |-> p.duration,
     replicas |-> IF p.type = "inference" THEN AtLeast(1, p.replicas) ELSE 1]

\* nextID: identifiers are never used again, nor are those of the fixture.
Fresh == WorkloadIds \ (issued \cup DOMAIN SeedRequest)

Submit(c, r) ==
    /\ Ready(c)
    /\ \E w \in FirstOf(Fresh, 1) :
          /\ SubmitCreate(c, w, r)
          /\ Log(c, << Event(w, "submitted") >>)
          /\ issued' = issued \cup {w}
    /\ Sampling(c, "no")
    /\ UNCHANGED << latest, holder >>

\* A workload that is not pending any more has no result to record.
Outcome(w) == IF state[w] = "pending" THEN << Result(w) >> ELSE << >>

\* What a simulation keeps of a submission: the workload as it was returned, empty
\* if it is not there any more.
Returned(c) ==
    LET w == client[c]
    IN  IF script[c].do = "submit" /\ state'[w] # "absent"
        THEN << Event(w, state'[w]) >> ELSE << >>

\* Variant: a submission is sampled when it has been placed.
ScheduleSampledIfPlaced(c) ==
    /\ Ready(c)
    /\ SubmitSchedule(c)
    /\ Report(c, Outcome(client[c]), Returned(c))
    /\ Sampling(c, IF state'[client[c]] = "running" THEN "take" ELSE "no")
    /\ UNCHANGED << latest, holder, script, issued, calls >>

Schedule(c) ==
    /\ Ready(c)
    /\ SubmitSchedule(c)
    /\ Report(c, Outcome(client[c]), Returned(c))
    /\ Sampling(c, "take")
    /\ UNCHANGED << latest, holder, script, issued, calls >>
------------------------------------------------------------------------------
(* The other calls *)

Disrupts(c, n, how) ==
    /\ \/ how = "fail" /\ FailNode(n)
       \/ how = "preempt" /\ PreemptSpotNode(n)
    /\ Log(c, EventsOf(HostedOn(n), "disrupted"))
    /\ Sampling(c, "take")
    /\ Begins(c)
    /\ UNCHANGED << processVars, latest >>

\* Calls without events of their own; those of the pass come with its steps.
Recovers(c, n) ==
    /\ RecoverNode(n)
    /\ Log(c, << >>) /\ Sampling(c, "take") /\ Begins(c)
    /\ UNCHANGED << processVars, latest >>

SchedulerTick(c) ==
    /\ SchedulePendingWorkloads
    /\ Log(c, << >>) /\ Sampling(c, "take") /\ Begins(c)
    /\ UNCHANGED << processVars, latest >>

\* resetLocked removes the events as well; those still owed come into the new log.
ReplaceData(c) ==
    /\ Clear \/ SeedDemoData
    /\ Sampling(c, "take")
    /\ unclear' = UNION {About(owes[t]) \cup About(told[t]) : t \in Threads}
    /\ latest' = [w \in WorkloadIds |-> "none"]
    /\ UNCHANGED << processVars, owes, told, holder >>

\* The sampler of main.go, on its ticker.
Sample(c) ==
    /\ due' = [due EXCEPT ![c] = "take"]
    /\ UNCHANGED << cpVars, logVars, history, holder >>
------------------------------------------------------------------------------
(* RunSimulation: a script is a list of calls, chosen from what c has read *)

HealthyNodes == {n \in NodeIds : health[n] = "healthy"}

Script(do, nodes) == [NoScript EXCEPT !.do = do, !.nodes = nodes]

\* The spike and the exhaustion submit the same request several times; the
\* others list the nodes: the first healthy spot node, or the first two healthy
\* nodes in use.  The failures list the nodes once more when none is in use.
\* No node at all ends the simulation with ErrNotFound.
StartSimulation(c) ==
    /\ script' \in
          {[script EXCEPT ![c] = s] :
              s \in {[NoScript EXCEPT !.do = "submit", !.req = x.req, !.times = x.times] :
                        x \in Simulations}
               \cup {LET S == FirstOf({n \in HealthyNodes : Fleet[n].class = "spot"}, 1)
                     IN  IF S = {} THEN NoScript ELSE Script("preempt", S)}
               \cup {LET S == FirstOf({n \in HealthyNodes : alloc[n] > 0}, 2)
                     IN  IF S = {} THEN Script("list", {}) ELSE Script("fail", S)}}
    /\ UNCHANGED << cpVars, logVars, sampleVars, holder, issued >>

SimulationLists(c) ==
    /\ Ready(c)
    /\ script[c].do = "list"
    /\ script' = [script EXCEPT ![c] = LET S == FirstOf(HealthyNodes, 2)
                                       IN  IF S = {} THEN NoScript ELSE Script("fail", S)]
    /\ UNCHANGED << cpVars, logVars, sampleVars, holder, issued, calls >>

SimulationSubmits(c) ==
    /\ script[c].do = "submit" /\ script[c].times > 0
    /\ Submit(c, script[c].req)
    /\ script' = [script EXCEPT ![c].times = @ - 1]
    /\ UNCHANGED calls

\* Variant: a node that is not healthy any more is not found.
SimulationFindsOnlyHealthy(n) == health[n] = "healthy"

SimulationFinds(n) == health[n] # "absent"

\* FailNode or PreemptSpotNode of the next node of the list, whatever has become
\* of it; ErrNotFound ends the simulation, with no sample.
SimulationDisrupts(c) ==
    /\ Ready(c)
    /\ \E n \in FirstOf(script[c].nodes, 1) :
          \/ /\ SimulationFinds(n)
             /\ Disrupts(c, n, script[c].do)
             /\ script' = [script EXCEPT ![c].nodes = @ \ {n}, ![c].done = @ \cup {n}]
          \/ /\ ~SimulationFinds(n)
             /\ script' = [script EXCEPT ![c] = NoScript]
             /\ UNCHANGED << cpVars, logVars, sampleVars, holder >>
    /\ UNCHANGED << issued, calls >>

\* A simulation that went through records its narrative (recordSimulationNarrative),
\* whatever has become of its workloads meanwhile, and takes a sample of its own.
SimulationEnds(c) ==
    /\ Ready(c)
    /\ client[c] = NoWorkload
    /\ script[c].do \in {"submit", "fail", "preempt"}
    /\ script[c].times = 0 /\ script[c].nodes = {}
    /\ script' = [script EXCEPT ![c] = NoScript]
    /\ owes' = [owes EXCEPT ![c] = told[c]]
    /\ told' = [told EXCEPT ![c] = << >>]
    /\ due' = [due EXCEPT ![c] = "take"]
    /\ UNCHANGED << cpVars, latest, unclear, history, holder, issued, calls >>
------------------------------------------------------------------------------
OneCall(c) ==
    \/ \E n \in NodeIds : \/ Disrupts(c, n, "fail") \/ Disrupts(c, n, "preempt")
                          \/ Recovers(c, n)
    \/ SchedulerTick(c)
    \/ ReplaceData(c)
    \/ Sample(c)

\* An idle client makes one of the calls.
Call(c) ==
    /\ Ready(c)
    /\ client[c] = NoWorkload /\ script[c] = NoScript
    /\ calls < MaxCalls /\ calls' = calls + 1
    /\ \/ /\ \/ \E p \in Posted, r \in Requests :
                   Valid(p) /\ r = Normalized(p, r.submitted) /\ Submit(c, r)
             \/ OneCall(c) /\ UNCHANGED issued
          /\ UNCHANGED script
       \/ StartSimulation(c)

Simulation(c) ==
    \/ SimulationLists(c) \/ SimulationSubmits(c)
    \/ SimulationDisrupts(c) \/ SimulationEnds(c)

\* Variant: a pass reports what it has placed.
PassReportsPlaced ==
    /\ PassStep /\ UNCHANGED processVars
    /\ \E w \in todo \ todo' :
          Log(holder, IF state'[w] = "running" THEN << Result(w) >> ELSE << >>)
    /\ Sampling(holder, due[holder])
    /\ Begins(holder)
    /\ UNCHANGED << latest, script, issued, calls >>

\* schedulePendingLocked returns one result for every workload it tries.
Pass ==
    /\ PassStep /\ UNCHANGED processVars
    /\ \E w \in todo \ todo' : Log(holder, << Result(w) >>)
    /\ Sampling(holder, due[holder])
    /\ Begins(holder)
    /\ UNCHANGED << latest, script, issued, calls >>

TimePasses ==
    /\ Tick /\ UNCHANGED processVars
    /\ UNCHANGED serviceVars

\* The loop takes a sample at the end of a round, not when an error ends it.
LoopStep ==
    /\ Ready(Loop)
    /\ \/ /\ ReconcileComplete
          /\ Log(Loop, EventsOf(Expired, "completed")) /\ Sampling(Loop, "no")
       \/ /\ ReconcileList \/ ReconcileHeal
          /\ Log(Loop, << >>) /\ Sampling(Loop, "no")
       \/ /\ ReconcileSchedule
          /\ Log(Loop, << >>) /\ Sampling(Loop, "take")
    /\ Begins(Loop)
    /\ UNCHANGED << latest, script, issued, calls >>

\* NewConfiguredStore: the store is seeded unless the environment says no.
ConfiguredStore == SeedDemoData \/ UNCHANGED vars

\* Start-up: the store, then the first sample of New, and only then the threads.
Start ==
    /\ history = << >>
    /\ ConfiguredStore
    /\ history' = << TRUE >>
    /\ UNCHANGED << processVars, auxVars, logVars, due, holder, script, issued, calls >>

ServiceNext ==
    \/ Start
    \/ /\ history # << >>
       /\ \/ \E c \in Clients : Call(c) \/ Schedule(c) \/ Simulation(c)
          \/ \E t \in Threads : Record(t) \/ Capture(t) \/ RecordTelemetry(t)
          \/ LoopStep
          \/ Pass
          \/ TimePasses
       /\ UNCHANGED auxVars

ServiceSpec == ServiceInit /\ [][ServiceNext]_allVars
------------------------------------------------------------------------------
(* What must hold *)

\* An event of a narrative tells the state itself.
EventKinds == {"submitted", "scheduled", "queued", "disrupted", "completed",
               "pending", "running"}

\* The variables of the service have their types, and the history is bounded.
ServiceTypeOK ==
    /\ {owes, told} \subseteq [Threads -> Seq([about : WorkloadIds, kind : EventKinds])]
    /\ due \in [Threads -> DueStates]
    /\ holder \in Threads
    /\ latest \in [WorkloadIds -> EventKinds \cup {"none"}]
    /\ history \in Seq(BOOLEAN) /\ Len(history) <= MaxSnapshots
    /\ script \in [Clients -> [do : {"nothing", "submit", "list", "fail", "preempt"},
                               req : Requests \cup {NoRequest}, times : Nat,
                               nodes : SUBSET NodeIds, done : SUBSET NodeIds]]
    /\ issued \subseteq WorkloadIds
    /\ calls \in 0 .. MaxCalls
    /\ unclear \subseteq WorkloadIds

\* Every thread is done with its call.
AtRest ==
    /\ history # << >>
    /\ stage = "complete"
    /\ \A c \in Clients : client[c] = NoWorkload
    /\ \A t \in Threads : Ready(t)

\* When nothing is under way, the telemetry shows the present state: whoever
\* asks for as many of the newest samples as there are threads finds it among
\* them.  A sample is appended some time after it was read, so that the very
\* newest may be older than the last change; and a round of the loop that ends
\* with an error takes none, although it may have completed or healed
\* something before.
PresentStateSampled ==
    AtRest => LET newest == TelemetryHistory(history, Cardinality(Threads))
              IN  \E i \in DOMAIN newest : newest[i]

\* The newest event about a workload tells the state it is in, once nobody owes
\* an event about it, wherever two threads did not race for it and no decision
\* has taken its GPUs.  Events are recorded after the operation by four packages,
\* from the results that the operation returned; a simulation holds those of its
\* submissions until it ends, so it races with whoever reports one of its
\* workloads before that.
LogTellsState ==
    \A w \in WorkloadIds \ unclear :
        /\ LockFree /\ state[w] # "absent" /\ latest[w] # "none"
        /\ \A t \in Threads : w \notin About(owes[t])
        => CASE latest[w] \in {"submitted", "queued", "pending"}    -> state[w] = "pending"
             [] latest[w] \in {"scheduled", "disrupted", "running"} -> state[w] = "running"
             [] latest[w] = "completed"                             -> state[w] = "completed"

\* A simulation chooses its nodes from a list and then fails them one by one.
\* When it ends with ErrNotFound, the nodes it has failed until then are gone
\* from the store: while calls do not fail nothing else ends it halfway, and a
\* caller who gets the error finds no half of a scenario in the fleet.
FailedSimulationLeavesNothing ==
    [][\A c \in Clients :
          /\ script[c].do \in {"fail", "preempt"} /\ script[c].nodes # {}
          /\ script'[c] = NoScript
          => \A n \in script[c].done : health'[n] = "absent"]_allVars

(* What the documents say and the code does not do *)

\* APPROACH.md:106, "Affected workloads receive explicit state transitions,
\* reasons, and events": whatever is queued again because it loses its GPUs gets
\* an event.  The victims of a scheduling decision are in no result of it.
VictimsAreTold ==
    [][\A w \in WorkloadIds :
          Displaced(w) => \E t \in Threads : w \in About(owes'[t])]_allVars
==============================================================================
