----------------------------- MODULE ControlPlane -----------------------------
(***************************************************************************)
(* The processes that share the store: requests that submit workloads      *)
(* (workloads/manager.go), requests of the administrator (fleet/manager.go *)
(* and the demo data handlers), and the reconciliation loop of             *)
(* controlplane/service.go.  Each call of the store is atomic, but a       *)
(* submission and a round of the loop make several, and other processes    *)
(* run in between.  The store is durable: a call may fail and leave no     *)
(* effect, and the process may crash and restart between two calls.        *)
(***************************************************************************)
EXTENDS MemoryStore

CONSTANTS
    Clients,        \* requests that may be submitting at the same time
    NoWorkload,     \* what an idle client is submitting
    MaxFaults       \* bound on the calls that fail and the crashes

ASSUME NoWorkloadAssumption == NoWorkload \notin WorkloadIds
ASSUME MaxFaultsAssumption == MaxFaults \in Nat

VARIABLES
    client,     \* client[c]: the workload c has created and not yet scheduled
    stage,      \* what Reconcile does next
    changed,    \* Reconcile: changed > 0
    recovering, \* Reconcile: the recovering nodes of the list it goes through
    faults,     \* calls failed and crashes so far
    excused     \* auxiliary: a fault or an eviction since the last pass

processVars == << client, stage, changed, recovering >>
auxVars     == << faults, excused >>
cpVars      == << vars, processVars, auxVars >>

Stages == {"complete", "list", "heal", "schedule"}

CPInit ==
    /\ Init
    /\ client = [c \in Clients |-> NoWorkload]
    /\ stage = "complete"
    /\ changed = FALSE
    /\ recovering = {}
    /\ faults = 0
    /\ excused = FALSE
------------------------------------------------------------------------------
(* Submit: create, then schedule what was created if it is still there. *)

SubmitCreate(c, w, r) ==
    /\ client[c] = NoWorkload
    /\ CreateWorkload(w, r)
    /\ client' = [client EXCEPT ![c] = w]
    /\ UNCHANGED << stage, changed, recovering >>

\* ScheduleWorkload returns a workload that is not pending as it is.
SubmitSchedule(c) ==
    /\ LockFree
    /\ client[c] # NoWorkload
    /\ \/ ScheduleWorkload(client[c])
       \/ state[client[c]] # "pending" /\ UNCHANGED vars
    /\ client' = [client EXCEPT ![c] = NoWorkload]
    /\ UNCHANGED << stage, changed, recovering >>
------------------------------------------------------------------------------
(* Reconcile, one step per call of the store *)

\* Variant: what has completed does not count as a change.
ReconcileCompleteUncounted ==
    /\ stage = "complete"
    /\ CompleteExpiredWorkloads
    /\ changed' = FALSE
    /\ stage' = "list"
    /\ UNCHANGED << client, recovering >>

ReconcileComplete ==
    /\ stage = "complete"
    /\ CompleteExpiredWorkloads
    /\ changed' = (Expired # {})
    /\ stage' = "list"
    /\ UNCHANGED << client, recovering >>

ReconcileList ==
    /\ LockFree
    /\ stage = "list"
    /\ recovering' = {n \in NodeIds : health[n] = "recovering"}
    /\ stage' = "heal"
    /\ UNCHANGED << vars, client, changed >>

\* Variant: healing a node does not count as a change.
NodeChangedNever(n) == changed

\* A node counts as changed when it is healthy after the update, even if
\* another request made it so after the list was taken.
NodeChanged(n) == changed \/ health'[n] = "healthy"

\* UpdateNode of the next node of the list.  A node that is gone ends the round.
ReconcileHeal ==
    /\ LockFree
    /\ stage = "heal" /\ recovering # {}
    /\ \E n \in recovering :
          /\ \A m \in recovering : n <= m
          /\ \/ HealNode(n)
             \/ health[n] # "recovering" /\ UNCHANGED vars
          /\ IF health[n] = "absent"
             THEN stage' = "complete" /\ changed' = FALSE /\ recovering' = {}
             ELSE stage' = "heal" /\ changed' = NodeChanged(n)
                                  /\ recovering' = recovering \ {n}
    /\ UNCHANGED client

ReconcileSchedule ==
    /\ LockFree
    /\ stage = "heal" /\ recovering = {}
    /\ IF changed THEN SchedulePendingWorkloads ELSE UNCHANGED vars
    /\ stage' = "complete" /\ changed' = FALSE
    /\ UNCHANGED << client, recovering >>

Reconcile ==
    ReconcileComplete \/ ReconcileList \/ ReconcileHeal \/ ReconcileSchedule
------------------------------------------------------------------------------
(* Faults *)

\* The call a submission is about to make fails; the workload stays as it is.
SubmitFails(c) ==
    /\ client[c] # NoWorkload
    /\ client' = [client EXCEPT ![c] = NoWorkload]
    /\ UNCHANGED << vars, stage, changed, recovering >>

\* ListNodes has no error to return: a failed read is an empty list.
ListFails ==
    /\ stage = "list"
    /\ stage' = "heal" /\ recovering' = {}
    /\ UNCHANGED << vars, client, changed >>

\* Variant: an error ends the loop.
ReconcileFailsForGood ==
    /\ stage = "heal"
    /\ stage' = "stopped" /\ changed' = FALSE /\ recovering' = {}
    /\ UNCHANGED << vars, client >>

\* Any other error ends the round; the loop logs it and waits for the next one.
ReconcileFails ==
    /\ stage = "heal"
    /\ stage' = "complete" /\ changed' = FALSE /\ recovering' = {}
    /\ UNCHANGED << vars, client >>

Crash ==
    /\ client' = [c \in Clients |-> NoWorkload]
    /\ stage' = "complete" /\ changed' = FALSE /\ recovering' = {}
    /\ UNCHANGED vars

Fault ==
    /\ LockFree
    /\ faults < MaxFaults
    /\ (\E c \in Clients : SubmitFails(c)) \/ ListFails \/ ReconcileFails \/ Crash
    /\ faults' = faults + 1
    /\ excused' = TRUE
------------------------------------------------------------------------------
\* Requests of one call each: the administrator's, and the scheduler tick.
Request ==
    /\ \/ \E n \in NodeIds : FailNode(n) \/ PreemptSpotNode(n) \/ RecoverNode(n)
       \/ SchedulePendingWorkloads
       \/ Clear
       \/ SeedDemoData
    /\ UNCHANGED processVars

\* What goes on inside the store.
Internal == (PassStep \/ Tick) /\ UNCHANGED processVars

PassEnds == todo # {} /\ todo' = {}

\* Evictions leave work queued that may fit elsewhere, until a pass ends
\* without any; and so does the fixture.
Excuse ==
    /\ excused' = (\/ SeedDemoData
                   \/ \E v \in WorkloadIds : Displaced(v)
                   \/ excused /\ ~(PassEnds /\ ~preempted))
    /\ UNCHANGED faults

CPNext ==
    \/ \E c \in Clients, w \in WorkloadIds, r \in Requests : SubmitCreate(c, w, r) /\ Excuse
    \/ \E c \in Clients : SubmitSchedule(c) /\ Excuse
    \/ ReconcileComplete /\ Excuse
    \/ ReconcileList /\ Excuse
    \/ ReconcileHeal /\ Excuse
    \/ ReconcileSchedule /\ Excuse
    \/ Request /\ Excuse
    \/ Internal /\ Excuse
    \/ Fault

\* The holder of the mutex goes on; the loop runs on its ticker for ever, and
\* Go's mutex starves nobody.  Requests come or do not come.
Fairness ==
    /\ WF_cpVars(Internal /\ Excuse)
    /\ SF_cpVars(Reconcile /\ Excuse)
    /\ \A c \in Clients : SF_cpVars(SubmitSchedule(c) /\ Excuse)

CPSpec == CPInit /\ [][CPNext]_cpVars /\ Fairness
------------------------------------------------------------------------------
(* What must hold *)

\* The processes' variables have their types.
CPTypeOK ==
    /\ client \in [Clients -> WorkloadIds \cup {NoWorkload}]
    /\ stage \in Stages
    /\ changed \in BOOLEAN
    /\ recovering \subseteq NodeIds
    /\ faults \in 0 .. MaxFaults
    /\ excused \in BOOLEAN

\* No wakeup is lost: between two operations, work that is queued although it
\* fits is still owed an attempt, by the request that submitted it or by the
\* round of the loop that freed the capacity.  The loop schedules only after
\* a change it has seen itself, so every step that frees capacity has to be
\* followed by a pass; faults and evictions are the known exceptions.
NoLostWakeup ==
    LockFree /\ ~excused =>
        \A w \in Pending :
            Fits(w) => \/ \E c \in Clients : client[c] = w
                       \/ stage # "complete" /\ changed

\* Work whose time is up is completed, whatever fails a bounded number of
\* times and however requests interleave with the rounds of the loop.
ExpiredWorkCompletes ==
    \A w \in WorkloadIds : w \in Expired ~> w \notin Expired

\* A recovering node is healed, or failed, or removed.
RecoveringNodesHeal ==
    \A n \in NodeIds : health[n] = "recovering" ~> health[n] # "recovering"

\* While no call fails, queued work that fits does not stay so for ever: it
\* starts, or other work takes its place.  The loop schedules only after a
\* change it has seen, and this holds because all work ends and every end is
\* a change.
QueuedWorkScheduled ==
    \A w \in WorkloadIds :
        (state[w] = "pending" /\ Fits(w) /\ faults = 0)
            ~> (faults > 0 \/ ~(state[w] = "pending" /\ Fits(w)))

(* What the documents say and the code does not do *)

\* prd/000-gpu-control-plane-prd.md:39, "Reschedule disrupted workloads when
\* possible", by the loop that plans/002-task-checkpoints.md:600 says feeds
\* "pending workloads back into scheduling": the same, whatever has failed
\* before.  One failure between a change and the pass for it loses the change:
\* later rounds see none, and a round that changes nothing schedules nothing.
QueuedWorkScheduledAnyway ==
    \A w \in WorkloadIds :
        (state[w] = "pending" /\ Fits(w)) ~> ~(state[w] = "pending" /\ Fits(w))
==============================================================================
