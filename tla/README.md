# A verification model of the GPU control plane

The repository is a control plane for a fleet of GPU nodes, in Go: clients submit
training, inference and batch workloads over HTTP, a scheduler places them on nodes, an
administrator fails, recovers and preempts nodes, and a background loop completes work
whose time is up and heals nodes. These modules model the parts where state changes, check
them with TLC on small fleets, and prove their safety properties with TLAPS for every
fleet, queue and fixture. `PROJECT.json` lists the components, the runs, the mutants, the findings, the
hazards, the theorems, and the source lines of every definition.

## 1. The system

| part | state | operations | calls |
|---|---|---|---|
| scheduler (`internal/scheduler`) | none, pure functions | `Decide`, `WorkloadLess`, eligibility and scores | - |
| memory store (`internal/store/memory.go`) | maps of workloads, nodes, events, one mutex | create, schedule one, schedule all pending, fail, recover, preempt spot node, update node, complete expired, seed, clear | scheduler |
| Postgres store (`internal/store/postgres.go`) | three tables | the same, each as a transaction: load all rows, run the operation of a memory store, delete all rows, insert all rows | memory store |
| workload manager (`internal/workloads`) | a sequence number | `Submit`: create, record an event, read back, schedule; `SchedulerTick` | store, recorder |
| fleet manager (`internal/fleet`) | none | fail, recover, preempt a node and record events; summary | store, recorder |
| service (`internal/controlplane`) | telemetry history under a lock | forwards to the managers; `Reconcile`; four simulations | managers, store |
| event recorder (`internal/events`) | none | best effort `CreateEvent` | store |
| telemetry (`internal/telemetry`) | none | builds a snapshot from lists of nodes and workloads | - |
| gateway (`internal/gateway`) | none | HTTP routes, validation | service |
| main (`cmd/control-plane`) | two tickers | runs `Reconcile` and the telemetry sampler every few seconds | service |
| frontend (`frontend`) | presentation | polls the gateway | gateway |

Parts interact by synchronous calls; HTTP handlers, the reconciliation loop and the
telemetry sampler run concurrently and share the store. With the memory store every
operation is atomic under a mutex; with Postgres an operation is a transaction.

What is hard, and what would make each part correct:

* **Placement state is kept twice** (the placement on the workload, the list and the GPU
  count on the node) and changed by six functions. The two must always agree, the count be
  exact, and the count never exceed the node.
* **Capacity is taken back** from running work in two ways, for which victims are chosen by
  one order and the queue is served by another. Two workloads must not evict each other in
  turn; a pass that takes nothing back must leave nothing queued that fits.
* **The scan of the fleet is in map order**, and the replicas of a service are placed on a
  tentative copy. The outcome must not depend on the order, or leave traces when it fails.
* **Submissions and the loop make several calls** with other requests in between, and the
  loop schedules only if it has itself seen a change. Whoever frees capacity owes a pass to
  the queue.
* **Calls fail and processes restart** between two calls (with Postgres the state survives).
  Completion and healing must go on, and so should scheduling.
* **Calls report what they have done afterwards**: one event at a time into the log, then a
  sample that is read under one lock and appended under another. Other calls run in between.
  Log and telemetry must still tell the state of the store.
* **Simulations are scripts** of calls on nodes chosen from a list that grows stale; an error
  halfway must not leave half a scenario.
* **Postgres transactions interleave by statement**, at READ COMMITTED, without locking what
  they load. The tables must change together; two transactions must not allocate the same
  GPUs, lose each other's changes, or wait for each other for ever.

The list of hazards in `PROJECT.json` has each of these at its line, with the property that
covers it.

## 2. The modules

    Scheduler <- MemoryStore <- ControlPlane  <- Service
              |              <- Telemetry     <-/
              |              <- PostgresStore
              <- PlacementLoop          MemoryStore implements Ledger

An arrow is EXTENDS; the composing modules add processes to the store and use its
operations as they are. `Ledger` is instantiated by `MemoryStore` with a refinement mapping.

### Scheduler
Operators for `scheduler.go`: `EligibleNode` (`eligibilityReason`), `PlacementScore`,
`PreferNode` (the comparator of the candidates), `WorkloadLess` (the order of the pending
workloads) and `Decide(w, N, k)`, the closed form of asking the policy `k` times with the
nodes already used excluded. Identifiers are numbers, since only their order is used.

### PlacementLoop
The loops behind `Decide`: the scan of the nodes in any order (`Look`), the choice and the
tentative allocation of one replica (`Select`), the failure that keeps nothing (`GiveUp`).
`LoopIsDecide` shows that they return exactly the closed form.

### Ledger
The abstract specification of what the store promises about GPUs: who holds GPUs of which
node. Somebody new enters with a size that never changes; GPUs are granted all at once to
somebody who has none, on nodes with room; or taken over on one node from others, within
its size; a node withdraws all of its GPUs; whoever ends gives everything back and never
holds any again; everything is dropped, or replaced by the data at hand, which are always the
same (`SizeAtHand`, `HeldAtHand`: the fixture). There are no types, priorities, queues or
clocks. `ImplementsLedger` says that every step of `MemoryStore` is one of these
or a stutter, under `size` = the GPUs of the request, `held` = `HostedOn`, `finished` = the
completed workloads. It is about hazards no invariant sees: work that gains GPUs while it
runs, moves, runs again after its end, is given two decisions in one step, or outlives a reset.

### MemoryStore
One variable per field of the code's records, indexed by the identifier: `state`, `req`
(the attributes of the request), `hosts` (the nodes of `Placement` and
`ReplicaPlacements` together), `left` (`UpdatedAt` + `DurationSeconds`, as the time left),
`health`, `alloc` (`AllocatedGPUs`), `running` (`RunningWorkloadIDs`). One action per
operation. Operations are atomic except a scheduling pass, which is one step per workload:
`todo` is what it has still to try, and no other operation starts before it is empty (the
mutex). So the invariants are also checked in the middle of a pass.

`ScheduleLocked` is `scheduleWorkloadLocked` by outcome: `Place`, `Reclaim(w, "preempt")`,
`Reclaim(w, "rebalance")`, or queued. The victims of a node are a prefix of its candidates
in the order `VictimBefore`; both ways of reclaiming differ only in `GivesWay` and in the
guards of `ReclaimNodes`.

### ControlPlane
The processes that share the store: `Submit` as two calls (`SubmitCreate`,
`SubmitSchedule`) with anything in between, the administrator's requests, and `Reconcile`
as one step per call (`complete`, `list`, `heal` per node of the list, `schedule`). A fault
is a call that fails with no effect, a `ListNodes` that fails and returns an empty list, or
a crash; all are bounded by `MaxFaults`. The store survives a crash (Postgres), the local
variables do not. Transactions are taken to be atomic here; `PostgresStore` looks inside.

### Telemetry
The figures of `fleet.Build`, which a sample repeats, as sizes of sets of GPUs, and the
bounded history of `recordTelemetry` and `TelemetryHistory`. `CapacityPartitioned` says that
allocated, available and failed GPUs add up to the total, for the fleet and every GPU type.

### Service
The service around the processes of `ControlPlane`. A call has three parts, and other
threads run between them: its operations on the store, its events (`owes`, recorded one by
one into `latest`, the newest event of each workload), and its sample (`due`, `history`). What the
submissions of a simulation return it holds in `told`, and owes as events about these
workloads when it ends (`recordSimulationNarrative`), with the states of then.
`Call` is a request: a submission as posted, validated and normalized (`Valid`,
`Normalized`, `Fresh` for `nextID`), a failure, preemption, recovery, scheduler tick, reset
or seeding, a sample of the telemetry ticker, or the start of a simulation. `script` is
what a simulation has still to do. `Pass` is a step of a scheduling pass under the mutex of
the call `holder`, which gets its results. `LoopStep` is a round of `Reconcile`, `Start`
the process before its threads.

A sample is reduced to one bit, whether it shows the present state of the store: only the
first of its two reads is a step, since when the second comes late the sample shows the
present state exactly if nothing has changed since the first. Any change resets the bit of
all the samples there are, so a state that comes back by chance does not count. The log is
reduced to the newest event of each workload. `unclear` is auxiliary: the workloads whose
log may contradict the store: because two threads owed events about them at once, because
somebody reported them while a simulation still held their narrative, because the log was
emptied while events about them were owed or held, or because they lost their GPUs to a
decision, which makes no event (`claim_victims`). An event of a narrative counts by the state
in its metadata; its text says "queued" of everything without a placement.

### PostgresStore
`withState` statement by statement: three loads, the operation (that of `MemoryStore`, on
the loaded state), three deletes, three inserts, commit. A table is a set of row versions
that say who inserted and who deleted them; `DeleteAll`, `DeleteRest` and `InsertAll`
follow the rules of READ COMMITTED, a delete waits for the transaction that deletes the
same rows and passes over what was inserted since, an insert waits for open transactions
with the same key and fails on a committed one. These are external and modelled from how
the code uses them. `Rollback` is any error, and a crash. `SeedDemoData` and `Clear` load
nothing. Statements of many rows of one table are one step: they go through the rows in
the same order in every transaction.

## 3. The runs

| run | instance | shows |
|---|---|---|
| `store` | 3 nodes of 2 GPUs (two of one type, one of them spot), 4 workloads, 4 kinds of request, duration 1 or none | types; the two directions of the placement agree; work is only where its policy allows; the GPU account is exact; GPUs are taken back only for work that goes before the victim, and no victim beyond those that hold what it asked for; a pass that takes nothing back leaves nothing queued that fits; the summary adds up; the store implements `Ledger` |
| `placement_loop` | all fleets of 3 nodes of 2 or 3 GPUs of one type, 12 kinds of work, up to 3 replicas | the loops compute the closed form in any map order; replicas are on distinct nodes |
| `processes` | 2 nodes, 3 workloads, 2 clients, 1 fault | `NoLostWakeup`: between operations, queued work that fits is owed an attempt |
| `loop` | 2 nodes, 2 workloads, 1 client, 1 fault | expired work completes and recovering nodes heal, whatever fails; while nothing fails, queued work that fits does not stay queued for ever |
| `service` | 2 nodes of 2 GPUs, 3 workloads, 2 clients with 2 calls between them, the loop, a history of 3 samples | at rest the present state is among the newest samples; the newest event of a workload tells its state, but for the named races; a simulation that ends with an error leaves none of the nodes it failed (calls of the store do not fail here) |
| `postgres_alone` | 2 nodes, 3 workloads, 1 event, one session | at every statement, failure or crash, the committed rows are a sound state of the store; no workload, request, end of a workload or event is lost but by a reset |
| `postgres_sessions` | a workload, an event, two sessions | every transaction ends; a reader sees nothing of one before its commit, and then all of it |

Five further runs check what a document of the repository says of the program, and TLC
refutes it; each is a finding in `PROJECT.json`.

| run | document | what happens |
|---|---|---|
| `claim_victims` | affected workloads receive transitions, reasons and events | the victims of a preemption or rebalance get no event |
| `claim_replicas` | disrupted workloads are requeued and rescheduled | a service that lost a replica never gets it back |
| `claim_reschedule` | reschedule disrupted workloads when possible | one failure between a change and its pass, and queued work that fits stays queued |
| `claim_allocation` | must avoid double allocation | two transactions place work on the same GPUs |
| `claim_events` | durable event history | a concurrent transaction writes the old list of events back |

Two more differences were read in the code and need no run, each being one guard:
inference never preempts work of lower priority (`memory.go:472`, where the documents
reclaim for any higher priority), and the rebalance of batch capacity is open to training
as well (`memory.go:678`, where they have it for inference). The models follow the code.

**Why the bounds are enough.** Two GPUs on a node and requests of one and two give full,
partly free and shared nodes. In `store` a service of two replicas, one high-priority
training, batch and two kinds of inference meet both ways of reclaiming, with victims of
each kind: of two victims of one GPU on a node the service of one GPU takes one back and
the training both, which is where a victim too many would show; the third node has
another GPU type, a seeded workload and a GPU that the fixture allocates to nobody (as
the real fixture does for `node-h100-od-1` and `node-l4-od-1`), and the spot node is
seeded as recovering. Four workloads are enough for a victim that must choose between
nodes while a third waits. A duration of one unit makes "running", "time is up" and
"completed" distinct; longer ones only repeat; work without one does not end. For the
loop two nodes are enough, because it treats nodes one at a time. One fault is what
loses a change; more repeat it. In `postgres_sessions` the rows carry no node: what a
session waits for depends on the tables and keys, not on the data, and two tables are
enough for two lock orders. In `service` two clients and the loop are the three threads;
two calls are two overlapping requests, or a simulation and a request that disturbs it.
Each node has one GPU in use, of the seeded batch work and of nobody, so that a service of
two replicas just fits across both, and a failure of one leaves a replica; the simulated
training preempts the batch work, which fits on the other node. Three workloads are the
seeded one and one for each call, since identifiers are not used again. The seeded
work outlasts the calls (it has no duration in this run, and completes in the others), and
its nodes are healthy: what completes is submitted, and what heals is recovered by a call.
The history holds as many samples as there are threads, the least for which `PresentStateSampled`
can be asked: each thread may append one late sample after the one that is up to date.
One body is accepted and three are refused, each for another reason. Calls do not fail
in this run (`processes` and `loop` have that), and the clients are symmetric. Every
action fires in some passing run. `PlacementLoop` is a terminating algorithm, so its run
does not check deadlock; every other run does.

**Fairness.** `ControlPlane`: weak fairness of the steps inside the store (the holder of
the mutex goes on, and time passes); strong fairness of `Reconcile`, which a ticker runs for
ever and whose errors `startReconciler` logs and skips, and of a submission in progress:
their calls wait for a mutex that Go does not let anybody starve on. Strong, because the
mutex is free and taken infinitely often. Requests of clients and administrators are not
fair: they come or do not come. Faults are bounded and not fair. `PostgresStore`: strong
fairness of the statements of a transaction; nothing forces one to begin or to fail.

**Mutants.** For each property of each passing run a definition of the code has a variant
beside it (a dropped guard, a pass on the old queue, an uncounted change, a missing
rollback, a rollback that commits) under which TLC finds the property violated.

**What `excused` means.** That queued work which fits is always owed an attempt does not
hold in general: a victim of a preemption is queued although another node may have room,
because the list of a pass is fixed when it starts, and a fault loses the count of
changes (`claim_reschedule`). `NoLostWakeup` states what does hold: apart from evictions
and faults since the last pass that took nothing back, no capacity becomes free without
a pass that is owed. `excused` records those exceptions.

**A lock order.** `truncateAll` locks events, workloads, nodes; `insertState` inserts into
nodes, workloads, events. A first model of two sessions without `DeadlockVictim` had a
behaviour in which two transactions wait for each other: one has passed over the rows of a
table that the other inserted meanwhile, and meets them again when it inserts. So
`TransactionsEnd` rests on the deadlock detection of the database.

## 4. The proofs

TLAPS checks them for all values of the constants that satisfy the named assumptions:
finite sets of numbers as identifiers, requests with at least one GPU (the gateway's
validation), a fixture that is itself a legal placement (`SeedAssumption`). TLC evaluates
the assumptions in every run.

| module | proves |
|---|---|
| `MemoryStoreProofs` | the inductive invariant of the store, its four parts; GPUs are taken back in the queue order (`EvictionOrdered`) |
| `SchedulerProofs` | `DecideSelects`: asked for `k` nodes, the policy selects `k` of the eligible ones, or all if there are fewer |
| `PostgresProofs` | for any number of sessions: the types of rows and transactions, readers see a transaction whole and only once it commits; with one session: what is committed is always a state `MemoryStore` promises, and keeps what was committed before |
| `PlacementLoopProofs` | the loops compute `Decide` in every order of the map, and spread the replicas |
| `AccountingProofs` | `MemoryStore` implements `Ledger`; the figures of the summary add up; no decision displaces more than it takes to hold the GPUs asked for; the queue is strictly ordered |
| `ControlPlaneProofs` | the processes implement `MemoryStore`, so that its theorems carry over; a pass that takes nothing back leaves nothing queued that fits; no wakeup is lost |
| `ServiceProofs` | the service implements `MemoryStore` and `Ledger`, so its evictions are ordered and bounded too; a simulation that ends with an error leaves none of the nodes it failed |
| `LogProofs` | the types of the service; the log tells the state of the workloads; the newest samples show the present state |

*The invariant.* `IInv` is `TypeOK /\ StoreInv`, where `StoreInv` joins the store's
types, `PlacementConsistent`, `PolicyRespected` and `AllocationAccounted`. None of these
is inductive alone: the account of a node is maintained through `HostedOn`, which is
what `running` says only if the placement agrees; a reclaimed node stays within its size
only if its victims are hosted on it and counted; a running workload must have a request
for its GPUs to be a number; a workload that is placed had no host only because it was
pending.

*The argument.* GPUs are counted as the cardinality of a set of pairs (workload, one of its
GPUs), so that sums are unions: `GPUsOfDisjoint`, `GPUsOfDifference`, `GPUsOfMore` and
`GPUsOfSame` are all the arithmetic that is needed, from the library's facts on finite
sets. Each operation has a lemma (`PlacePreserves`, `ReclaimPreserves`, `DisruptPreserves`,
`CompletePreserves`, ...) that it keeps `StoreInv`; `NextIInv` combines them.
`AllocationExact` also shows that the `ErrConflict` branches after an eviction in
`tryPriorityPreemptionLocked` and in the rebalance are unreachable, and that no `max(0, ...)`
ever clamps.

*Evictions.* `EvictionOrdered` proves that every step that takes GPUs back starts a
workload that precedes the victim in `WorkloadLess`: `VictimsGoBehind` compares the two
orders key by key. Failures and completions do not displace, because a failed node hosts
nothing, by the invariant. `QueueStaysOrdered` adds that `WorkloadLess` is strict and total on
the workloads of the store, whatever they have asked for: so what one may do to another is
never allowed the other way round, and a pass that has workloads left always has a first one.

*Victims.* `EvictionIsBounded` rests on the order in which victims are given up being strict
and total (`VictimsOrdered`, whose last key is the identifier). The victims of a node are those
before which less is given up than is needed, hence a beginning of that order; its last member
(`LastOfOrder`) is one without whom the others do not hold enough (`PrefixIsShort`). That what
is displaced in a step is exactly these, and on one node (`DecisionDisplaces`), takes the
agreement of the placement. The bound is on what was asked for: GPUs of the node that are
free already do not count, as in the code, so fewer victims might do.

*The ledger.* Under `IInv` each operation is shown to be one entry: a placement grants, a
reclaim takes over from its victims, a failure or preemption withdraws, a completion
finishes. That a grant respects the capacity is the account of the invariant; that it goes
to somebody idle is the agreement of the placement. A reset is one of two states and no
other: nothing at all, or the fixture with its sizes and its holders; that nobody else stays,
queued or running, is what `Clear` and `SeedDemoData` are shown to do.

*The summary.* The three figures are disjoint parts of the fleet only if a failed node has
nothing allocated, which `IInv` does not say. `FailedNodesEmpty` does, and is inductive
with it: only a failure makes a node failed, and empties it; nothing is placed on a node
that is not healthy.

*The policy.* `DecideSelects` numbers the candidates by how many are preferred to them. The
order of preference is total on the identifiers, so the numbers are distinct and fill
`1 .. m`, whatever the scores (`RanksAreAll`); `Decide` takes those up to `k`.
`PlacementLoopProofs` is the argument of a selection sort: what the scan has chosen is the
best of what it has looked at, and what has been selected so far is the first `i` in the order
of preference, because a tentative allocation changes only nodes that are excluded from then on.

*The wakeups.* By `DecideSelects`, to fit is to have at least as many eligible nodes as
replicas (`FitsByCount`). In a pass without preemption nodes only fill up, so what was
refused stays unfit (`FullerStaysFull`, `RefusedUnfit`); when the pass ends everything pending
has been refused: `PassConserves`. `NoWakeupLost` adds `PreemptionExcused` (a pass that has
preempted leaves the exception recorded) and goes through the processes one step at a time
(`ProcessKeepsWakeups`): what frees capacity either starts a pass or is counted by the
round of the loop that will start one.

*The compositions.* `ImplementsStore` and `ServiceSafety` prove that every behaviour of
`ControlPlane` and of `Service` is one of `MemoryStore`, whose variables they contain
unchanged: each step is an operation or leaves the store alone. What a client schedules,
what the loop heals and what a script names must be identifiers of the store for that.
`FailedSimulations` rests on `WholeFleet`: the nodes are all there or all gone, since only
`Clear` and `SeedDemoData` add or remove any; so if the next node of a script is not found
the earlier ones are not there either.

*The log.* `StepAccounts`: every step of the service records an event, replaces the data, or
accounts for what it changes. A call accounts for its step when each event it owes tells the
state the step has led to, and every workload it owes none for keeps its state, is queued
again by a decision, or is in the hands of the pass that has begun; and when what it adds to
a narrative tells that state too (`Narrates`). `LogInv` is what this maintains: of a workload
that is not `unclear` at most one thread owes events or holds a narrative (`OneTeller`), the
last event it owes tells its state, and so does every event of the narrative (`ToldTells`); if
none is owed the newest event of the log does. So the end of a simulation, which changes no
workload, owes events that are still true (`EndsKeeps`). The exception `unclear` is part of the
statement: it names the races, those with the narrative of a simulation included, and the
victims without an event, and no more (`Contested`, `QueuedAgain`). The exception for the
narrative is a real one: a simulation places a workload, the workload completes, and the
event that comes last says it is running.

*The samples.* `StepObliges`: every step that changes what a sample shows leaves a sample to
come (`Obliged`): one is due, or a submission or a round of the loop is under way that takes
one. A round that ends because a node is gone takes none; but then the store was cleared
after the round listed the nodes, and that call took one. When the sample that was to come
is recorded it is fresh, or something has changed since and another one is to come; after
it only those of the other threads can follow that were read before (`Shown`, `RecordShows`),
one for each thread at most. So `PresentSampled` needs the history to hold as many samples as
there are threads: the program keeps 480 of them.

*The transactions.* `SoundRows` says of rows what `StoreInv` says of a `MemoryStore`. A
`MemoryStore` filled from sound rows is sound (`FilledIsSound`), an operation keeps it so by
`NextIInv`, and what is written back is sound rows (`WrittenIsSound`); the fixture is, by
`SeedAssumption`. `AloneInv` follows the tables through the statements: each holds the
committed rows, marked as deleted if the transaction has come past it (`Gone`), and the rows
of the image once they are inserted (`New`). So a reader sees the old rows up to the commit
and those of the image after it, and a rollback anywhere leaves the old ones. That there is
only one session is needed for what is inserted to be what was read: with two, the runs
`claim_allocation` and `claim_events` show what happens.

*What lasts.* `WorkSurvives` and `EventsSurvive` follow what the transaction has in hand
(`InHand`): the image after the load, the memory during the operation, the image again
up to the commit all have the committed workloads, with their requests and ends, and the
events, unless the image is that of a reset. No operation forgets a workload, changes a
request or undoes an end (`OperationKeepsWork`). `EventsDurable` is the property that
`claim_events` refutes for two sessions: that there is one is what makes the difference.

*What readers see.* With several sessions a table mixes versions of many transactions.
`KeyInv` orders them by key: of two versions of a key, one is inserted by a session that
deletes the other (`Keyed`); what a session has inserted is rows of its image, which
nobody deletes before it commits (`Owned`), and in every table it has come past it is
the whole image (`Inserts`). So whatever ends, at most one version of a key is left that
a reader sees, a rollback leaves what was seen before, and a commit every row of the
image (`StepShows`, `CommitShows`). Without the keys neither would hold: two committed
rows of one key would let a reader see either. TLC has checked `KeyInv` on the instance
of `postgres_sessions` before it was proved.

*Only model-checked:* liveness (`ExpiredWorkCompletes`, `RecoveringNodesHeal`,
`QueuedWorkScheduled`, `TransactionsEnd`), which is beyond the prover.

## 5. Not modelled

* `CreateNode`, `UpdateWorkload`, `UpdateEvent`: only tests call them. `UpdateNode` is
  modelled with the one update the program makes.
* The fields that decide nothing: region, zone, provider, texts, checkpoint and drain
  metadata, which are written and shown but never read by a decision.
* Errors for missing identifiers, which change nothing, but for the one that ends a
  simulation.
* Time inside an operation: it takes none, and one unit passes between two operations.
* Events about nodes, those in the narrative of a simulation included; the texts of events; a
  `CreateEvent` that fails, which the recorder ignores. Failing calls are in
  `ControlPlane` and not in `Service`.
* The counts of nodes by health and of workloads by state in a sample; the utilization.
* In `PostgresStore` times are abstracted: which running workloads are due is chosen when
  the rows are loaded. Row encoding, connection retries and the schema bootstrap are left out.
* The read-only routes of the gateway, its encoding and error codes; the parsing of the
  environment; the adapter `internal/reconciler`, which only tests use; frontend and
  deployment, which keep no state the control plane depends on.

## 6. Plan

In order of what matters most:

1. *Done:* `Scheduler`, `MemoryStore`, `PlacementLoop`, with the inductive invariant.
2. *Done:* `ControlPlane` and the theorem that it implements the store; `PostgresStore`.
3. *Done:* `Ledger`, and the proof that the store implements it; `Telemetry`.
4. *Done:* `Service`: events, samples, simulations, start-up and validation.
5. *Done:* the proofs of the policy, its loops, conservation by a pass, the wakeups, the
   events and the samples.
6. *Done:* the transactions: types and visibility for any number of sessions, `CommittedSound`
   and durability for one.
7. *Done:* what an eviction costs, and the order of the queue.
8. Open: an abstract specification for the committed rows. A transaction may commit several
   decisions of a pass at once, so they are no single entry of `Ledger`.
9. Open: failing calls in `Service`.
