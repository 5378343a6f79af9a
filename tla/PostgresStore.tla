----------------------------- MODULE PostgresStore -----------------------------
(***************************************************************************)
(* The durable store of src/internal/store/postgres.go.  Every operation   *)
(* that changes something is a transaction that loads the three tables     *)
(* into a fresh MemoryStore, runs the operation of MemoryStore on it,      *)
(* deletes every row and inserts the new state.  No lock of the program    *)
(* and no row lock covers the load: transactions of different requests     *)
(* interleave statement by statement, at PostgreSQL's default isolation    *)
(* level, READ COMMITTED.                                                  *)
(*                                                                         *)
(* The variables of MemoryStore are the MemoryStore of the transaction     *)
(* whose operation runs (turn); operations of different transactions do    *)
(* not share memory, so they run one after the other without loss.  Times  *)
(* are abstracted: whether a deadline has passed is chosen at the load.    *)
(***************************************************************************)
EXTENDS MemoryStore, Sequences

CONSTANTS
    Sessions,       \* requests and loops that may have a transaction open
    NoSession,      \* none of them
    EventIds,       \* identifiers of events
    SeedEvents      \* those of the fixture

ASSUME NoSessionAssumption == NoSession \notin Sessions
ASSUME EventsAssumption == SeedEvents \subseteq EventIds

VARIABLES
    rows,       \* rows[t]: the row versions of table t
    pc,         \* pc[s]: the statement that session s runs next
    image,      \* image[s]: the state that s has loaded, and then changed
    turn        \* the session whose operation runs in memory

dbVars == << rows, pc, image, turn >>
pgVars == << vars, dbVars >>

Tables == {"nodes", "workloads", "events"}

\* The tables in the order of truncateAll, and in that of insertState.
DeleteOrder == << "events", "workloads", "nodes" >>
InsertOrder == << "nodes", "workloads", "events" >>

\* Stages of a transaction, with the statement of those that make several.
At(stage) == << stage, 0 >>
Idle      == At("idle")
------------------------------------------------------------------------------
(* Row versions.  by: who inserted it and has not committed yet; gone: who    *)
(* deleted it and has not committed yet; seen: whose DELETE waits with the    *)
(* version in its snapshot.                                                   *)

Version(k, d, s) == [key |-> k, data |-> d, by |-> s, gone |-> NoSession, seen |-> {}]

Committed(t) == {r \in rows[t] : r.by = NoSession}

\* What a SELECT of a whole table returns, as a function from keys to data.
Content(t) ==
    [k \in {r.key : r \in Committed(t)} |->
        (CHOOSE r \in Committed(t) : r.key = k).data]

NoRows == [k \in {} |-> {}]
Empty  == [t \in Tables |-> NoRows]

\* Variant: finished workloads are not written.
WorkloadRowsOpen ==
    [w \in {v \in WorkloadIds : state[v] \in {"pending", "running"}} |->
        [state |-> state[w], req |-> req[w], hosts |-> hosts[w]]]

\* The rows of a MemoryStore's nodes and workloads, and back.
NodeRows ==
    [n \in Present |-> [health |-> health[n], alloc |-> alloc[n], running |-> running[n]]]
WorkloadRows ==
    [w \in {v \in WorkloadIds : state[v] # "absent"} |->
        [state |-> state[w], req |-> req[w], hosts |-> hosts[w]]]

\* NewSeededMemoryStore, as rows.
Fixture ==
    [nodes |-> [n \in NodeIds |->
        [health |-> SeedHealth[n], alloc |-> SeedPhantom[n] + SeedGPUs(n),
         running |-> {w \in DOMAIN SeedRequest : n \in SeedHosts[w]}]],
     workloads |-> [w \in DOMAIN SeedRequest |->
        [state |-> IF SeedHosts[w] = {} THEN "pending" ELSE "running",
         req |-> SeedRequest[w], hosts |-> SeedHosts[w]]],
     events |-> [e \in SeedEvents |-> {}]]

\* NewPostgresStore has found the database empty and seeded it.
PGInit ==
    /\ Init
    /\ rows = [t \in Tables |->
                  {Version(k, Fixture[t][k], NoSession) : k \in DOMAIN Fixture[t]}]
    /\ pc = [s \in Sessions |-> Idle]
    /\ image = [s \in Sessions |-> Empty]
    /\ turn = NoSession
------------------------------------------------------------------------------
(* loadState: three statements, each with a snapshot of its own *)

Load(s, t) ==
    /\ image' = [image EXCEPT ![s] = [@ EXCEPT ![t] = Content(t)]]
    /\ UNCHANGED << vars, rows, turn >>

LoadNodes(s) ==
    /\ pc[s] = Idle
    /\ Load(s, "nodes")
    /\ pc' = [pc EXCEPT ![s] = At("loadWorkloads")]

LoadWorkloads(s) ==
    /\ pc[s] = At("loadWorkloads")
    /\ Load(s, "workloads")
    /\ pc' = [pc EXCEPT ![s] = At("loadEvents")]

\* Variant: loadState leaves the events out.
LoadNoEvents(s) ==
    /\ pc[s] = At("loadEvents")
    /\ UNCHANGED << vars, rows, image, turn >>
    /\ pc' = [pc EXCEPT ![s] = At("apply")]

LoadEvents(s) ==
    /\ pc[s] = At("loadEvents")
    /\ Load(s, "events")
    /\ pc' = [pc EXCEPT ![s] = At("apply")]
------------------------------------------------------------------------------
(* fn(state): an operation of MemoryStore on what has been loaded *)

Loaded(s, w) == w \in DOMAIN image[s].workloads

\* The MemoryStore of s is filled; due are the workloads whose time is up.
Enter(s) ==
    /\ pc[s] = At("apply") /\ turn = NoSession
    /\ LET N == image[s].nodes
           W == image[s].workloads
       IN  /\ state' = [w \in WorkloadIds |-> IF Loaded(s, w) THEN W[w].state ELSE "absent"]
           /\ req' = [w \in WorkloadIds |-> IF Loaded(s, w) THEN W[w].req ELSE NoRequest]
           /\ hosts' = [w \in WorkloadIds |-> IF Loaded(s, w) THEN W[w].hosts ELSE {}]
           /\ \E due \in SUBSET {w \in DOMAIN W : W[w].state = "running"} :
                 left' = [w \in WorkloadIds |->
                            IF Loaded(s, w) /\ w \notin due THEN W[w].req.duration ELSE 0]
           /\ health' = [n \in NodeIds |-> IF n \in DOMAIN N THEN N[n].health ELSE "absent"]
           /\ alloc' = [n \in NodeIds |-> IF n \in DOMAIN N THEN N[n].alloc ELSE 0]
           /\ running' = [n \in NodeIds |-> IF n \in DOMAIN N THEN N[n].running ELSE {}]
    /\ UNCHANGED passVars
    /\ pc' = [pc EXCEPT ![s] = At("operate")]
    /\ turn' = s
    /\ UNCHANGED << rows, image >>

Operation ==
    \/ \E w \in WorkloadIds, r \in Requests : CreateWorkload(w, r)
    \/ \E w \in WorkloadIds : ScheduleWorkload(w)
    \/ SchedulePendingWorkloads
    \/ \E n \in NodeIds : FailNode(n) \/ PreemptSpotNode(n) \/ RecoverNode(n) \/ HealNode(n)
    \/ CompleteExpiredWorkloads

Operate(s) ==
    /\ turn = s /\ pc[s] = At("operate")
    /\ Operation
    /\ pc' = [pc EXCEPT ![s] = At("leave")]
    /\ UNCHANGED << rows, image, turn >>

OperatePass(s) ==
    /\ turn = s
    /\ PassStep
    /\ UNCHANGED dbVars

\* The MemoryStore is what will be written, and is no longer needed.
ForgetMemory ==
    /\ state' = [w \in WorkloadIds |-> "absent"]
    /\ req' = [w \in WorkloadIds |-> NoRequest]
    /\ hosts' = [w \in WorkloadIds |-> {}]
    /\ left' = [w \in WorkloadIds |-> 0]
    /\ health' = [n \in NodeIds |-> "absent"]
    /\ alloc' = [n \in NodeIds |-> 0]
    /\ running' = [n \in NodeIds |-> {}]
    /\ todo' = {} /\ preempted' = FALSE

Leave(s) ==
    /\ turn = s /\ pc[s] = At("leave") /\ LockFree
    /\ image' = [image EXCEPT ![s] =
                    [nodes |-> NodeRows, workloads |-> WorkloadRows, events |-> @.events]]
    /\ ForgetMemory
    /\ pc' = [pc EXCEPT ![s] = << "delete", 1 >>]
    /\ turn' = NoSession
    /\ UNCHANGED rows

\* CreateEvent touches neither nodes nor workloads.
AddEvent(s) ==
    /\ pc[s] = At("apply")
    /\ \E e \in EventIds \ DOMAIN image[s].events :
          image' = [image EXCEPT ![s].events = [k \in DOMAIN @ \cup {e} |-> {}]]
    /\ pc' = [pc EXCEPT ![s] = << "delete", 1 >>]
    /\ UNCHANGED << vars, rows, turn >>

\* SeedDemoData (replaceAll) and Clear load nothing; Clear inserts nothing.
Replace(s, content) ==
    /\ pc[s] = Idle
    /\ image' = [image EXCEPT ![s] = content]
    /\ pc' = [pc EXCEPT ![s] = << "delete", 1 >>]
    /\ UNCHANGED << vars, rows, turn >>

PGSeedDemoData(s) == Replace(s, Fixture)
PGClear(s)        == Replace(s, Empty)
------------------------------------------------------------------------------
(* truncateAll, insertState and Commit *)

\* Variant: the loop runs over the end of the list.
AfterDeleteOneMore(i) == << "delete", i + 1 >>

\* Variant: the last table is left out of insertState.
AfterInsertOneLess(i) ==
    IF i + 1 < Len(InsertOrder) THEN << "insert", i + 1 >> ELSE At("commit")

\* The statement after statement i of the deletes, or of the inserts.
AfterDelete(i) == IF i < Len(DeleteOrder) THEN << "delete", i + 1 >> ELSE << "insert", 1 >>
AfterInsert(i) == IF i < Len(InsertOrder) THEN << "insert", i + 1 >> ELSE At("commit")

MarkDeleted(t, V, s) ==
    rows' = [rows EXCEPT ![t] =
                (@ \ V) \cup {[r EXCEPT !.gone = s, !.seen = @ \ {s}] : r \in V}]

\* External: DELETE without WHERE.  It deletes the versions of its snapshot,
\* after waiting for whoever else is deleting them.
DeleteAll(s) ==
    \E i \in DOMAIN DeleteOrder :
        LET t == DeleteOrder[i]
            V == Committed(t)
        IN  /\ pc[s] = << "delete", i >>
            /\ IF \A r \in V : r.gone = NoSession
               THEN /\ MarkDeleted(t, V, s)
                    /\ pc' = [pc EXCEPT ![s] = AfterDelete(i)]
               ELSE /\ rows' = [rows EXCEPT ![t] =
                          (@ \ V) \cup {[r EXCEPT !.seen = @ \cup {s}] : r \in V}]
                    /\ pc' = [pc EXCEPT ![s] = << "wait", i >>]
            /\ UNCHANGED << vars, image, turn >>

\* External: the DELETE goes on.  Versions that another transaction deleted
\* are gone; versions inserted since are not in the snapshot and stay.
DeleteRest(s) ==
    \E i \in DOMAIN DeleteOrder :
        LET t == DeleteOrder[i]
            V == {r \in rows[t] : s \in r.seen}
        IN  /\ pc[s] = << "wait", i >>
            /\ \A r \in V : r.gone = NoSession
            /\ MarkDeleted(t, V, s)
            /\ pc' = [pc EXCEPT ![s] = AfterDelete(i)]
            /\ UNCHANGED << vars, image, turn >>

\* Versions that keep s from inserting: those of its keys that it has not
\* deleted itself.  Open ones may still go away, the others violate the key.
InTheWay(s, t) == {r \in rows[t] : r.key \in DOMAIN image[s][t] /\ r.gone # s}
Duplicates(s, t) == {r \in InTheWay(s, t) : r.by = NoSession /\ r.gone = NoSession}

\* What is inserted, when nothing is in the way.
Insertable(s, t) == IF InTheWay(s, t) = {} THEN DOMAIN image[s][t] ELSE {}

\* Variant: the rows are inserted outside the transaction (db.Exec, not tx.Exec).
InsertAtOnce(s) ==
    \E i \in DOMAIN InsertOrder :
        LET t == InsertOrder[i] IN
        /\ pc[s] = << "insert", i >>
        /\ Insertable(s, t) # {} \/ DOMAIN image[s][t] = {}
        /\ rows' = [rows EXCEPT ![t] =
                       @ \cup {Version(k, image[s][t][k], NoSession) : k \in Insertable(s, t)}]
        /\ pc' = [pc EXCEPT ![s] = AfterInsert(i)]
        /\ UNCHANGED << vars, image, turn >>

InsertAll(s) ==
    \E i \in DOMAIN InsertOrder :
        LET t == InsertOrder[i] IN
        /\ pc[s] = << "insert", i >>
        /\ Insertable(s, t) # {} \/ DOMAIN image[s][t] = {}
        /\ rows' = [rows EXCEPT ![t] =
                       @ \cup {Version(k, image[s][t][k], s) : k \in Insertable(s, t)}]
        /\ pc' = [pc EXCEPT ![s] = AfterInsert(i)]
        /\ UNCHANGED << vars, image, turn >>

\* What is left of a table when s ends: on a rollback its deletions are undone,
\* on a commit its insertions are.
Ended(t, s, committed) ==
    {[r EXCEPT !.by = IF @ = s THEN NoSession ELSE @,
               !.gone = IF @ = s THEN NoSession ELSE @,
               !.seen = @ \ {s}] :
        r \in {v \in rows[t] : IF committed THEN v.gone # s ELSE v.by # s}}

End(s, committed) ==
    /\ rows' = [t \in Tables |-> Ended(t, s, committed)]
    /\ pc' = [pc EXCEPT ![s] = Idle]
    /\ image' = [image EXCEPT ![s] = Empty]

Commit(s) ==
    /\ pc[s] = At("commit")
    /\ End(s, TRUE)
    /\ UNCHANGED << vars, turn >>

\* Variant: the transaction is not rolled back (no deferred rollback).
DuplicateKeyLeftOpen(s) ==
    \E i \in DOMAIN InsertOrder :
        /\ pc[s] = << "insert", i >>
        /\ Duplicates(s, InsertOrder[i]) # {}
        /\ pc' = [pc EXCEPT ![s] = Idle]
        /\ image' = [image EXCEPT ![s] = Empty]
        /\ UNCHANGED << vars, rows, turn >>

\* A key is there already: the statement fails and withState rolls back.
DuplicateKey(s) ==
    \E i \in DOMAIN InsertOrder :
        /\ pc[s] = << "insert", i >>
        /\ Duplicates(s, InsertOrder[i]) # {}
        /\ End(s, FALSE)
        /\ UNCHANGED << vars, turn >>

\* Whom the statement of s waits for.
WaitsFor(s) ==
    {x \in Sessions \ {s} :
        \/ \E i \in DOMAIN DeleteOrder : \E r \in rows[DeleteOrder[i]] :
              pc[s] = << "wait", i >> /\ s \in r.seen /\ r.gone = x
        \/ \E i \in DOMAIN InsertOrder : \E r \in InTheWay(s, InsertOrder[i]) :
              /\ pc[s] = << "insert", i >>
              /\ Duplicates(s, InsertOrder[i]) = {}
              /\ r.by = x \/ r.gone = x}

\* External: the database finds sessions that wait for each other, and fails
\* the statement of one of them.  Deletes and inserts go through the tables in
\* opposite orders, so this does happen.
DeadlockVictim(s) ==
    /\ \E C \in SUBSET Sessions : s \in C /\ \A x \in C : WaitsFor(x) \cap C # {}
    /\ End(s, FALSE)
    /\ UNCHANGED << vars, turn >>

\* Variant: what has been done so far is committed.
RollbackCommitting(s) ==
    /\ pc[s] # Idle
    /\ End(s, TRUE)
    /\ IF turn = s THEN ForgetMemory /\ turn' = NoSession
                   ELSE UNCHANGED << vars, turn >>

\* Any error, of the operation or of the connection, and a crash of the
\* program: the transaction is rolled back.
Rollback(s) ==
    /\ pc[s] # Idle
    /\ End(s, FALSE)
    /\ IF turn = s THEN ForgetMemory /\ turn' = NoSession
                   ELSE UNCHANGED << vars, turn >>
------------------------------------------------------------------------------
Statement(s) ==
    \/ LoadWorkloads(s) \/ LoadEvents(s)
    \/ Enter(s) \/ Operate(s) \/ OperatePass(s) \/ Leave(s)
    \/ DeleteAll(s) \/ DeleteRest(s)
    \/ InsertAll(s) \/ DuplicateKey(s) \/ DeadlockVictim(s)
    \/ Commit(s)

PGNext ==
    \E s \in Sessions :
        \/ LoadNodes(s)
        \/ PGSeedDemoData(s)
        \/ PGClear(s)
        \/ AddEvent(s)
        \/ Statement(s)
        \/ Rollback(s)

PGSpec == PGInit /\ [][PGNext]_pgVars

\* The database and the program execute every statement they can.  Strong,
\* because turn, which the code does not have, is taken by others meanwhile.
PGFairSpec == PGSpec /\ \A s \in Sessions : SF_pgVars(Statement(s))
------------------------------------------------------------------------------
(* What must hold *)

\* The tables hold rows of their kind, the sessions are where a transaction
\* can be, and only the session whose turn it is uses the MemoryStore.
PGTypeOK ==
    /\ DOMAIN rows = Tables
    /\ \A t \in Tables : \A r \in rows[t] :
          /\ r.by \in Sessions \cup {NoSession} /\ r.gone \in Sessions \cup {NoSession}
          /\ r.seen \subseteq Sessions
    /\ pc \in [Sessions ->
                 {At(g) : g \in {"idle", "loadWorkloads", "loadEvents", "apply",
                                "operate", "leave", "commit"}}
                 \cup {"delete", "wait", "insert"} \X (1 .. 3)]
    /\ \A s \in Sessions : DOMAIN image[s] = Tables
    /\ turn = NoSession \/ pc[turn] \in {At("operate"), At("leave")}

\* The store that a reader of the committed rows sees.
Nodes_       == Content("nodes")
Workloads_   == Content("workloads")
Seen(w)      == w \in DOMAIN Workloads_
SeenNode(n)  == n \in DOMAIN Nodes_

DB == INSTANCE MemoryStore WITH
    state <- [w \in WorkloadIds |-> IF Seen(w) THEN Workloads_[w].state ELSE "absent"],
    req <- [w \in WorkloadIds |-> IF Seen(w) THEN Workloads_[w].req ELSE NoRequest],
    hosts <- [w \in WorkloadIds |-> IF Seen(w) THEN Workloads_[w].hosts ELSE {}],
    left <- [w \in WorkloadIds |-> 0],
    health <- [n \in NodeIds |-> IF SeenNode(n) THEN Nodes_[n].health ELSE "absent"],
    alloc <- [n \in NodeIds |-> IF SeenNode(n) THEN Nodes_[n].alloc ELSE 0],
    running <- [n \in NodeIds |-> IF SeenNode(n) THEN Nodes_[n].running ELSE {}],
    todo <- {},
    preempted <- FALSE

\* With one transaction at a time, the committed rows are at every moment a
\* state that MemoryStore promises: every statement may fail and the process
\* may crash between two of them, and the three tables still change together.
CommittedSound ==
    DB!PlacementConsistent /\ DB!PolicyRespected /\ DB!AllocationAccounted

\* Transactions that delete and insert the same rows wait for each other, and
\* never for ever: each one commits or is rolled back.
TransactionsEnd == \A s \in Sessions : pc[s] # Idle ~> pc[s] = Idle

\* What a SELECT returns changes when a transaction commits and never before:
\* no statement of it, no failure, no deadlock and no crash shows or undoes a
\* row, although the tables are emptied and filled again in six statements.
OnlyCommitsShow ==
    [][(\E t \in Tables : Content(t)' # Content(t)) => \E s \in Sessions : Commit(s)]_pgVars

\* A commit shows the whole of what the transaction has computed, in all three
\* tables.  What else is left has been there before: rows that another
\* transaction inserted after the snapshots of the deletes.
CommitShowsImage ==
    [][\A s \in Sessions : Commit(s) =>
          \A t \in Tables : \A k \in DOMAIN image[s][t] \cup DOMAIN Content(t)' :
             /\ k \in DOMAIN Content(t)'
             /\ IF k \in DOMAIN image[s][t]
                THEN Content(t)'[k] = image[s][t][k]
                ELSE k \in DOMAIN Content(t) /\ Content(t)'[k] = Content(t)[k]]_pgVars

\* The commit of a request to clear or to replace the data.
Resets(s) == Commit(s) /\ image[s] \in {Empty, Fixture}

\* With one transaction at a time, what has been accepted stays, although every
\* write empties the tables and fills them again with what it has loaded: a
\* workload keeps what it has asked for, and one that has finished stays so.
WorkloadsDurable ==
    [][\/ \E s \in Sessions : Resets(s)
       \/ \A w \in DOMAIN Workloads_ :
             /\ w \in DOMAIN Workloads_'
             /\ Workloads_'[w].req = Workloads_[w].req
             /\ Workloads_[w].state = "completed" => Workloads_'[w].state = "completed"]_pgVars

(* What the documents say and the code does not do *)

\* rfcs/be/001-scalable-backend-runtime-and-state-rfc.md:127, the scheduler
\* "Must avoid double allocation": the committed workloads hold no more GPUs
\* of a node than it has.  Transactions of two requests load the tables while
\* neither has committed, or one of them between two loads of the other.
NoDoubleAllocation ==
    \A n \in NodeIds : DB!GPUsOf(DB!HostedOn(n)) <= Fleet[n].total

\* rfcs/be/001-scalable-backend-runtime-and-state-rfc.md:106, "Durable event
\* history for audit/debug": an event that has been committed stays, unless
\* the commit is that of a request to clear or to replace the data.  With one
\* transaction at a time it does; a second one that has loaded the events
\* before writes them back without it.
EventsDurable ==
    [][DOMAIN Content("events") \subseteq DOMAIN Content("events")'
       \/ \E s \in Sessions : Resets(s)]_pgVars
==============================================================================
