---------------------------- MODULE PostgresProofs ----------------------------
(***************************************************************************)
(* The durable store.  For any number of sessions, rows and transactions   *)
(* keep their types.  For a single one, that is with transactions one at a *)
(* time, the committed rows are at every moment a state that MemoryStore   *)
(* promises, whatever fails and wherever the process crashes.              *)
(*                                                                         *)
(* For any number again, readers see nothing of a transaction before it    *)
(* commits, and then all of it; for a single one, a commit keeps what was  *)
(* committed before.                                                       *)
(*                                                                         *)
(* The first is an invariant of the statements.  The second follows the    *)
(* rows through a transaction: f is what is committed, the image what will *)
(* be, and every table holds f, f deleted, or f deleted and the image      *)
(* inserted, depending on the statement the session has come to.  The      *)
(* third is about keys: of two versions of one, a session inserts the one  *)
(* and deletes the other, so that one of them is left when it ends.  The   *)
(* last follows what the transaction has in hand from load to commit.      *)
(***************************************************************************)
EXTENDS PostgresStore, MemoryStoreProofs

(* Rows and transactions keep their types *)

Who == Sessions \cup {NoSession}

\* A row version has its fields.
IsVersion(r) ==
    /\ r = [x \in {"key", "data", "by", "gone", "seen"} |-> r[x]]
    /\ r.by \in Who /\ r.gone \in Who /\ r.seen \in SUBSET Sessions

RowsOK  == DOMAIN rows = Tables /\ \A t \in Tables : \A r \in rows[t] : IsVersion(r)
PcOK    == pc \in [Sessions ->
                      {At(g) : g \in {"idle", "loadWorkloads", "loadEvents", "apply",
                                      "operate", "leave", "commit"}}
                      \cup {"delete", "wait", "insert"} \X (1 .. 3)]
ImageOK == /\ image = [s \in Sessions |-> image[s]]
           /\ \A s \in Sessions : DOMAIN image[s] = Tables
TurnOK  == turn \in Who /\ (turn # NoSession => pc[turn] \in {At("operate"), At("leave")})

PGInv == RowsOK /\ PcOK /\ ImageOK /\ TurnOK

\* The statements of the deletes and the inserts.
LEMMA OrderFacts ==
    /\ DOMAIN DeleteOrder = 1 .. 3 /\ DOMAIN InsertOrder = 1 .. 3
    /\ Len(DeleteOrder) = 3 /\ Len(InsertOrder) = 3
    /\ DeleteOrder[1] = "events" /\ DeleteOrder[2] = "workloads" /\ DeleteOrder[3] = "nodes"
    /\ InsertOrder[1] = "nodes" /\ InsertOrder[2] = "workloads" /\ InsertOrder[3] = "events"
    /\ \A i \in 1 .. 3 : DeleteOrder[i] \in Tables /\ InsertOrder[i] \in Tables
    /\ \A i \in 1 .. 3 : AfterDelete(i) = IF i = 3 THEN << "insert", 1 >> ELSE << "delete", i + 1 >>
    /\ \A i \in 1 .. 3 : AfterInsert(i) = IF i = 3 THEN At("commit") ELSE << "insert", i + 1 >>
<1>1. /\ DOMAIN DeleteOrder = 1 .. 3 /\ DOMAIN InsertOrder = 1 .. 3
      /\ Len(DeleteOrder) = 3 /\ Len(InsertOrder) = 3
      /\ DeleteOrder[1] = "events" /\ DeleteOrder[2] = "workloads" /\ DeleteOrder[3] = "nodes"
      /\ InsertOrder[1] = "nodes" /\ InsertOrder[2] = "workloads" /\ InsertOrder[3] = "events"
  BY DEF DeleteOrder, InsertOrder
<1>2. \A i \in 1 .. 3 : DeleteOrder[i] \in Tables /\ InsertOrder[i] \in Tables
  <2> SUFFICES ASSUME NEW i \in 1 .. 3 PROVE DeleteOrder[i] \in Tables /\ InsertOrder[i] \in Tables
    OBVIOUS
  <2>1. i = 1 \/ i = 2 \/ i = 3
    OBVIOUS
  <2> QED BY <1>1, <2>1 DEF Tables
<1>3. \A i \in 1 .. 3 : AfterDelete(i) = IF i = 3 THEN << "insert", 1 >> ELSE << "delete", i + 1 >>
  BY <1>1 DEF AfterDelete
<1>4. \A i \in 1 .. 3 : AfterInsert(i) = IF i = 3 THEN At("commit") ELSE << "insert", i + 1 >>
  BY <1>1 DEF AfterInsert
<1> QED BY <1>1, <1>2, <1>3, <1>4

\* A session that goes on to another statement of a transaction.
LEMMA PcMoves ==
    ASSUME PcOK, NEW s \in Sessions, NEW p, pc' = [pc EXCEPT ![s] = p],
           \/ \E g \in {"idle", "loadWorkloads", "loadEvents", "apply",
                        "operate", "leave", "commit"} : p = At(g)
           \/ p \in {"delete", "wait", "insert"} \X (1 .. 3)
    PROVE  PcOK'
<1> QED BY DEF PcOK

LEMMA DeleteStarts == << "delete", 1 >> \in {"delete", "wait", "insert"} \X (1 .. 3)
<1> QED OBVIOUS

\* The statements that come after another are statements.
LEMMA AfterFacts ==
    ASSUME NEW i \in 1 .. 3
    PROVE  /\ AfterDelete(i) \in {"delete", "wait", "insert"} \X (1 .. 3)
           /\ << "wait", i >> \in {"delete", "wait", "insert"} \X (1 .. 3)
           /\ \/ AfterInsert(i) = At("commit")
              \/ AfterInsert(i) \in {"delete", "wait", "insert"} \X (1 .. 3)
<1> QED BY OrderFacts

\* The turn is not with a session whose operation does not run.
LEMMA NotItsTurn ==
    ASSUME TurnOK, NEW s \in Sessions, pc[s] \notin {At("operate"), At("leave")}
    PROVE  turn # s
<1> QED BY NoSessionAssumption DEF TurnOK

\* The turn stays with its session while others go on.
LEMMA TurnStays ==
    ASSUME PcOK, TurnOK, NEW s \in Sessions, NEW p, pc' = [pc EXCEPT ![s] = p],
           UNCHANGED turn, turn # s
    PROVE  TurnOK'
<1> QED BY DEF PcOK, TurnOK, Who

\* A version that is inserted.
LEMMA VersionIs == ASSUME NEW k, NEW d, NEW s \in Who PROVE IsVersion(Version(k, d, s))
<1> QED BY DEF Version, IsVersion, Who

\* What a statement writes in a version: who deletes it, who waits for it,
\* and the end of a transaction.
LEMMA VersionEdits ==
    ASSUME NEW r, IsVersion(r), NEW s \in Sessions
    PROVE  /\ IsVersion([r EXCEPT !.gone = s, !.seen = @ \ {s}])
           /\ IsVersion([r EXCEPT !.seen = @ \cup {s}])
           /\ IsVersion([r EXCEPT !.by = IF @ = s THEN NoSession ELSE @,
                                 !.gone = IF @ = s THEN NoSession ELSE @,
                                 !.seen = @ \ {s}])
<1>1. IsVersion([r EXCEPT !.gone = s, !.seen = @ \ {s}])
  BY DEF IsVersion, Who
<1>2. IsVersion([r EXCEPT !.seen = @ \cup {s}])
  BY DEF IsVersion, Who
<1>3. IsVersion([r EXCEPT !.by = IF @ = s THEN NoSession ELSE @,
                          !.gone = IF @ = s THEN NoSession ELSE @,
                          !.seen = @ \ {s}])
  BY DEF IsVersion, Who
<1> QED BY <1>1, <1>2, <1>3

\* Marking deletions, and ending a transaction, keep the versions of a table.
LEMMA MarkKeeps ==
    ASSUME RowsOK, NEW t \in Tables, NEW V \in SUBSET rows[t], NEW s \in Sessions,
           MarkDeleted(t, V, s)
    PROVE  RowsOK'
<1>1. ASSUME NEW r \in V PROVE IsVersion([r EXCEPT !.gone = s, !.seen = @ \ {s}])
  BY VersionEdits DEF RowsOK
<1> QED BY <1>1 DEF MarkDeleted, RowsOK

\* So does waiting.
LEMMA WaitKeeps ==
    ASSUME RowsOK, NEW t \in Tables, NEW V \in SUBSET rows[t], NEW s \in Sessions,
           rows' = [rows EXCEPT ![t] = (@ \ V) \cup {[r EXCEPT !.seen = @ \cup {s}] : r \in V}]
    PROVE  RowsOK'
<1>1. ASSUME NEW r \in V PROVE IsVersion([r EXCEPT !.seen = @ \cup {s}])
  BY VersionEdits DEF RowsOK
<1> QED BY <1>1 DEF RowsOK

LEMMA EndKeeps ==
    ASSUME RowsOK, PcOK, ImageOK, NEW s \in Sessions, NEW c, End(s, c)
    PROVE  RowsOK' /\ PcOK' /\ ImageOK'
<1>1. RowsOK'
  <2>1. ASSUME NEW t \in Tables, NEW v \in rows[t]
        PROVE  IsVersion([v EXCEPT !.by = IF @ = s THEN NoSession ELSE @,
                                   !.gone = IF @ = s THEN NoSession ELSE @,
                                   !.seen = @ \ {s}])
    BY VersionEdits DEF RowsOK
  <2>2. \A t \in Tables : \A r \in Ended(t, s, c) : IsVersion(r)
    BY <2>1 DEF Ended
  <2> QED BY <2>2 DEF End, RowsOK
<1>2. PcOK'
  BY PcMoves DEF End, Idle
<1>3. ImageOK'
  BY DEF End, ImageOK, Empty
<1> QED BY <1>1, <1>2, <1>3

LEMMA PGInvKept == PGInv /\ [PGNext]_pgVars => PGInv'
<1> SUFFICES ASSUME PGInv, [PGNext]_pgVars PROVE PGInv'
  OBVIOUS
<1> USE DEF PGInv
<1>1. CASE UNCHANGED pgVars
  BY <1>1 DEF pgVars, dbVars, RowsOK, PcOK, ImageOK, TurnOK
<1>2. ASSUME NEW s \in Sessions, LoadNodes(s) \/ LoadWorkloads(s) \/ LoadEvents(s)
      PROVE  PGInv'
  <2>1. PICK t \in Tables : Load(s, t)
    BY <1>2 DEF LoadNodes, LoadWorkloads, LoadEvents, Tables
  <2>2. turn # s
    BY <1>2, NotItsTurn DEF LoadNodes, LoadWorkloads, LoadEvents, At, Idle
  <2>3. PcOK' /\ TurnOK'
    BY <1>2, <2>1, <2>2, PcMoves, TurnStays DEF LoadNodes, LoadWorkloads, LoadEvents, Load
  <2>4. RowsOK' /\ ImageOK'
    BY <2>1 DEF Load, RowsOK, ImageOK
  <2> QED BY <2>3, <2>4
<1>3. ASSUME NEW s \in Sessions, NEW g, Replace(s, g), DOMAIN g = Tables
      PROVE  PGInv'
  <2>1. turn # s
    BY <1>3, NotItsTurn DEF Replace, At, Idle
  <2>2. PcOK' /\ TurnOK'
    BY <1>3, <2>1, DeleteStarts, PcMoves, TurnStays DEF Replace
  <2> QED BY <1>3, <2>2 DEF Replace, RowsOK, ImageOK
<1>4. ASSUME NEW s \in Sessions, AddEvent(s) PROVE PGInv'
  <2>1. turn # s
    BY <1>4, NotItsTurn DEF AddEvent, At
  <2>2. PcOK' /\ TurnOK'
    BY <1>4, <2>1, DeleteStarts, PcMoves, TurnStays DEF AddEvent
  <2>3. ImageOK'
    BY <1>4 DEF AddEvent, ImageOK
  <2> QED BY <1>4, <2>2, <2>3 DEF AddEvent, RowsOK
<1>5. ASSUME NEW s \in Sessions, Enter(s) PROVE PGInv'
  <2>1. PcOK'
    BY <1>5, PcMoves DEF Enter
  <2>2. TurnOK'
    BY <1>5 DEF Enter, TurnOK, Who, PcOK
  <2> QED BY <1>5, <2>1, <2>2 DEF Enter, RowsOK, ImageOK
<1>6. ASSUME NEW s \in Sessions, Operate(s) \/ OperatePass(s) PROVE PGInv'
  <2>1. CASE Operate(s)
    <3>1. PcOK'
      BY <2>1, PcMoves DEF Operate
    <3>2. TurnOK'
      BY <2>1 DEF Operate, TurnOK, PcOK
    <3> QED BY <2>1, <3>1, <3>2 DEF Operate, RowsOK, ImageOK
  <2>2. CASE OperatePass(s)
    BY <2>2 DEF OperatePass, dbVars, RowsOK, PcOK, ImageOK, TurnOK
  <2> QED BY <1>6, <2>1, <2>2
<1>7. ASSUME NEW s \in Sessions, Leave(s) PROVE PGInv'
  <2>1. PcOK'
    BY <1>7, DeleteStarts, PcMoves DEF Leave
  <2>2. ImageOK'
    BY <1>7 DEF Leave, ImageOK, Tables
  <2> QED BY <1>7, <2>1, <2>2 DEF Leave, RowsOK, TurnOK, Who
<1>8. ASSUME NEW s \in Sessions, DeleteAll(s) PROVE PGInv'
  <2>1. PICK i \in 1 .. 3 :
           LET t == DeleteOrder[i]
               V == Committed(t)
           IN  /\ pc[s] = << "delete", i >>
               /\ \/ MarkDeleted(t, V, s) /\ pc' = [pc EXCEPT ![s] = AfterDelete(i)]
                  \/ /\ rows' = [rows EXCEPT ![t] =
                           (@ \ V) \cup {[r EXCEPT !.seen = @ \cup {s}] : r \in V}]
                     /\ pc' = [pc EXCEPT ![s] = << "wait", i >>]
               /\ UNCHANGED << image, turn >>
    BY <1>8, OrderFacts DEF DeleteAll
  <2> DEFINE t == DeleteOrder[i]
             V == Committed(t)
  <2>2. t \in Tables /\ V \in SUBSET rows[t]
    BY OrderFacts DEF Committed
  <2>3. turn # s
    BY <2>1, NotItsTurn DEF At
  <2>4. PcOK' /\ TurnOK'
    BY <2>1, <2>3, AfterFacts, PcMoves, TurnStays
  <2> HIDE DEF t, V
  <2>5. RowsOK'
    <3>1. CASE MarkDeleted(t, V, s)
      BY <2>2, <3>1, MarkKeeps
    <3>2. CASE rows' = [rows EXCEPT ![t] =
                  (@ \ V) \cup {[r EXCEPT !.seen = @ \cup {s}] : r \in V}]
      BY <2>2, <3>2, WaitKeeps
    <3> QED BY <2>1, <3>1, <3>2 DEF t, V
  <2> QED BY <2>1, <2>4, <2>5 DEF ImageOK
<1>9. ASSUME NEW s \in Sessions, DeleteRest(s) PROVE PGInv'
  <2>1. PICK i \in 1 .. 3 :
           /\ pc[s] = << "wait", i >>
           /\ MarkDeleted(DeleteOrder[i], {r \in rows[DeleteOrder[i]] : s \in r.seen}, s)
           /\ pc' = [pc EXCEPT ![s] = AfterDelete(i)]
           /\ UNCHANGED << image, turn >>
    BY <1>9, OrderFacts DEF DeleteRest
  <2>2. DeleteOrder[i] \in Tables
    BY OrderFacts
  <2>3. turn # s
    BY <2>1, NotItsTurn DEF At
  <2>4. PcOK' /\ TurnOK'
    BY <2>1, <2>3, AfterFacts, PcMoves, TurnStays
  <2>5. RowsOK'
    BY <2>1, <2>2, MarkKeeps
  <2> QED BY <2>1, <2>4, <2>5 DEF ImageOK
<1>10. ASSUME NEW s \in Sessions, InsertAll(s) PROVE PGInv'
  <2>1. PICK i, K :
           /\ i \in 1 .. 3
           /\ pc[s] = << "insert", i >>
           /\ rows' = [rows EXCEPT ![InsertOrder[i]] =
                 @ \cup {Version(k, image[s][InsertOrder[i]][k], s) : k \in K}]
           /\ pc' = [pc EXCEPT ![s] = AfterInsert(i)]
           /\ UNCHANGED << image, turn >>
    BY <1>10, OrderFacts DEF InsertAll
  <2>2. InsertOrder[i] \in Tables
    BY <2>1, OrderFacts
  <2>3. turn # s
    BY <2>1, NotItsTurn DEF At
  <2>4. PcOK' /\ TurnOK'
    BY <2>1, <2>3, AfterFacts, PcMoves, TurnStays
  <2>5. RowsOK'
    <3>1. \A k, d : IsVersion(Version(k, d, s))
      BY VersionIs DEF Who
    <3> QED BY <2>1, <2>2, <3>1 DEF RowsOK
  <2> QED BY <2>1, <2>4, <2>5 DEF ImageOK
<1>11. ASSUME NEW s \in Sessions, Commit(s) \/ DuplicateKey(s) \/ DeadlockVictim(s)
       PROVE  PGInv'
  <2>1. PICK c : End(s, c) /\ UNCHANGED turn
    BY <1>11 DEF Commit, DuplicateKey, DeadlockVictim
  <2>2. turn # s
    <3>1. CASE Commit(s)
      BY <3>1, NotItsTurn DEF Commit, At
    <3>3. CASE DuplicateKey(s)
      <4>1. PICK i : pc[s] = << "insert", i >>
        BY <3>3 DEF DuplicateKey
      <4> QED BY <4>1, NotItsTurn DEF At
    <3>2. CASE DeadlockVictim(s)
      <4>1. WaitsFor(s) # {}
        BY <3>2 DEF DeadlockVictim
      <4>2. PICK i : pc[s] = << "wait", i >> \/ pc[s] = << "insert", i >>
        BY <4>1 DEF WaitsFor
      <4> QED BY <4>2, NotItsTurn DEF At
    <3> QED BY <1>11, <3>1, <3>2, <3>3
  <2>3. TurnOK'
    BY <2>1, <2>2, TurnStays DEF End
  <2> QED BY <2>1, <2>3, EndKeeps
<1>12. ASSUME NEW s \in Sessions, Rollback(s) PROVE PGInv'
  <2>1. End(s, FALSE)
    BY <1>12 DEF Rollback
  <2>2. CASE turn = s
    BY <1>12, <2>1, <2>2, EndKeeps DEF Rollback, TurnOK, Who
  <2>3. CASE turn # s
    <3>1. TurnOK'
      BY <1>12, <2>1, <2>3, TurnStays DEF Rollback, End
    <3> QED BY <2>1, <3>1, EndKeeps
  <2> QED BY <2>2, <2>3
<1>13. DOMAIN Fixture = Tables /\ DOMAIN Empty = Tables
  BY DEF Fixture, Empty, Tables
<1> QED BY <1>1, <1>2, <1>3, <1>4, <1>5, <1>6, <1>7, <1>8, <1>9, <1>10, <1>11, <1>12, <1>13
        DEF PGNext, Statement, PGSeedDemoData, PGClear

LEMMA PGInitInv == PGInit => PGInv
<1> SUFFICES ASSUME PGInit PROVE PGInv
  OBVIOUS
<1>1. \A k, d : IsVersion(Version(k, d, NoSession))
  BY VersionIs DEF Who
<1>2. RowsOK
  BY <1>1 DEF PGInit, RowsOK
<1> QED BY <1>2 DEF PGInit, PGInv, PcOK, ImageOK, TurnOK, Who, Idle, Empty

\* Whatever transactions interleave, wait, deadlock or fail, the tables hold
\* versions of rows and every session is at a statement of its transaction.
THEOREM PGTypes == PGSpec => []PGTypeOK
<1>1. PGInv => PGTypeOK
  <2>1. ASSUME PGInv, NEW t \in Tables, NEW r \in rows[t]
        PROVE  r.by \in Who /\ r.gone \in Who /\ r.seen \subseteq Sessions
    BY <2>1 DEF PGInv, RowsOK, IsVersion
  <2> QED BY <2>1 DEF PGInv, PGTypeOK, RowsOK, PcOK, ImageOK, TurnOK, Who
<1> QED BY <1>1, PGInitInv, PGInvKept, PTL DEF PGSpec
------------------------------------------------------------------------------
(* Rows that make a sound store *)

\* As Replicas, of a request.
RowReplicas(r) == IF r.type = "inference" THEN AtLeast(1, r.replicas) ELSE 1

\* The workloads whose rows have a replica on n, and what they hold of it.
HostedRows(W, n) == {w \in DOMAIN W : n \in W[w].hosts}
RowGPUs(W, n)    == GPUs([w \in DOMAIN W |-> W[w].req], HostedRows(W, n))

SoundWorkload(N, r) ==
    /\ r.state \in {"pending", "running", "completed"} /\ r.req \in Attributes
    /\ r.hosts \subseteq DOMAIN N
    /\ r.hosts # {} <=> r.state = "running"
    /\ r.state = "running" => Cardinality(r.hosts) <= RowReplicas(r.req)
    /\ \A n \in r.hosts : /\ N[n].health = "healthy"
                          /\ Fleet[n].gpuType = r.req.gpuType
                          /\ SpotCompatible(r.req, Fleet[n])

SoundNode(N, W, n) ==
    /\ N[n].health \in NodeHealths /\ N[n].alloc \in Nat
    /\ N[n].running = HostedRows(W, n)
    /\ N[n].alloc \in {RowGPUs(W, n), SeedPhantom[n] + RowGPUs(W, n)}
    /\ N[n].alloc <= Fleet[n].total

\* The rows N of nodes and W of workloads are a state MemoryStore promises.
SoundRows(N, W) ==
    /\ N = [n \in DOMAIN N |-> N[n]] /\ DOMAIN N \subseteq NodeIds
    /\ W = [w \in DOMAIN W |-> W[w]] /\ DOMAIN W \subseteq WorkloadIds
    /\ \A w \in DOMAIN W : SoundWorkload(N, W[w])
    /\ \A n \in DOMAIN N : SoundNode(N, W, n)

\* The same of variables like those of MemoryStore.
Sound(st, rq, hs, hl, al, rn) ==
    /\ st \in [WorkloadIds -> {"absent", "pending", "running", "completed"}]
    /\ rq \in [WorkloadIds -> Attributes \cup {NoRequest}]
    /\ \A w \in WorkloadIds : rq[w] = NoRequest <=> st[w] = "absent"
    /\ hs \in [WorkloadIds -> SUBSET NodeIds]
    /\ hl \in [NodeIds -> NodeHealths \cup {"absent"}]
    /\ al \in [NodeIds -> Nat]
    /\ rn \in [NodeIds -> SUBSET WorkloadIds]
    /\ \A w \in WorkloadIds :
          /\ hs[w] # {} <=> st[w] = "running"
          /\ st[w] = "running" => Cardinality(hs[w]) <= RowReplicas(rq[w])
          /\ \A n \in hs[w] : /\ hl[n] = "healthy"
                              /\ Fleet[n].gpuType = rq[w].gpuType
                              /\ SpotCompatible(rq[w], Fleet[n])
    /\ \A n \in NodeIds :
          LET H == {w \in WorkloadIds : n \in hs[w]}
          IN  /\ rn[n] = H
              /\ al[n] \in {GPUs(rq, H), SeedPhantom[n] + GPUs(rq, H)}
              /\ al[n] <= Fleet[n].total

\* A MemoryStore filled from sound rows is sound: what has no row is absent.
LEMMA FilledIsSound ==
    ASSUME NEW N, NEW W, SoundRows(N, W)
    PROVE  Sound([w \in WorkloadIds |-> IF w \in DOMAIN W THEN W[w].state ELSE "absent"],
                 [w \in WorkloadIds |-> IF w \in DOMAIN W THEN W[w].req ELSE NoRequest],
                 [w \in WorkloadIds |-> IF w \in DOMAIN W THEN W[w].hosts ELSE {}],
                 [n \in NodeIds |-> IF n \in DOMAIN N THEN N[n].health ELSE "absent"],
                 [n \in NodeIds |-> IF n \in DOMAIN N THEN N[n].alloc ELSE 0],
                 [n \in NodeIds |-> IF n \in DOMAIN N THEN N[n].running ELSE {}])
<1> DEFINE st == [w \in WorkloadIds |-> IF w \in DOMAIN W THEN W[w].state ELSE "absent"]
           rq == [w \in WorkloadIds |-> IF w \in DOMAIN W THEN W[w].req ELSE NoRequest]
           hs == [w \in WorkloadIds |-> IF w \in DOMAIN W THEN W[w].hosts ELSE {}]
           hl == [n \in NodeIds |-> IF n \in DOMAIN N THEN N[n].health ELSE "absent"]
           al == [n \in NodeIds |-> IF n \in DOMAIN N THEN N[n].alloc ELSE 0]
           rn == [n \in NodeIds |-> IF n \in DOMAIN N THEN N[n].running ELSE {}]
           H(n) == {w \in WorkloadIds : n \in hs[w]}
<1>1. /\ DOMAIN N \subseteq NodeIds /\ DOMAIN W \subseteq WorkloadIds
      /\ \A w \in DOMAIN W : SoundWorkload(N, W[w])
      /\ \A n \in DOMAIN N : SoundNode(N, W, n)
  BY DEF SoundRows
<1>2. /\ st \in [WorkloadIds -> {"absent", "pending", "running", "completed"}]
      /\ rq \in [WorkloadIds -> Attributes \cup {NoRequest}]
      /\ \A w \in WorkloadIds : rq[w] = NoRequest <=> st[w] = "absent"
      /\ hs \in [WorkloadIds -> SUBSET NodeIds]
  BY <1>1, RequestsAssumption DEF SoundWorkload
<1>3. /\ hl \in [NodeIds -> NodeHealths \cup {"absent"}]
      /\ al \in [NodeIds -> Nat]
      /\ rn \in [NodeIds -> SUBSET WorkloadIds]
  BY <1>1 DEF SoundNode, HostedRows
<1>4. ASSUME NEW w \in WorkloadIds
      PROVE  /\ hs[w] # {} <=> st[w] = "running"
             /\ st[w] = "running" => Cardinality(hs[w]) <= RowReplicas(rq[w])
             /\ \A n \in hs[w] : /\ hl[n] = "healthy"
                                 /\ Fleet[n].gpuType = rq[w].gpuType
                                 /\ SpotCompatible(rq[w], Fleet[n])
  <2>1. CASE w \in DOMAIN W
    <3>1. SoundWorkload(N, W[w])
      BY <1>1, <2>1
    <3>2. st[w] = W[w].state /\ rq[w] = W[w].req /\ hs[w] = W[w].hosts
      BY <2>1
    <3>3. \A n \in W[w].hosts : hl[n] = N[n].health
      BY <1>1, <3>1 DEF SoundWorkload
    <3> HIDE DEF st, rq, hs, hl
    <3> QED BY <3>1, <3>2, <3>3 DEF SoundWorkload
  <2>2. CASE w \notin DOMAIN W
    BY <2>2
  <2> QED BY <2>1, <2>2
<1>5. ASSUME NEW n \in NodeIds
      PROVE  /\ rn[n] = H(n)
             /\ al[n] \in {GPUs(rq, H(n)), SeedPhantom[n] + GPUs(rq, H(n))}
             /\ al[n] <= Fleet[n].total
  <2>1. CASE n \in DOMAIN N
    <3>1. H(n) = HostedRows(W, n)
      BY <1>1 DEF HostedRows
    <3>2. GPUs(rq, H(n)) = RowGPUs(W, n)
      <4> DEFINE rw == [w \in DOMAIN W |-> W[w].req]
      <4>1. \A w \in HostedRows(W, n) : rw[w] = rq[w]
        BY <1>1 DEF HostedRows
      <4> HIDE DEF rq, rw
      <4>2. GPUs(rw, HostedRows(W, n)) = GPUs(rq, HostedRows(W, n))
        BY <4>1, GPUsOfSame
      <4> QED BY <3>1, <4>2 DEF RowGPUs, rw
    <3>3. SoundNode(N, W, n) /\ rn[n] = N[n].running /\ al[n] = N[n].alloc
      BY <1>1, <2>1
    <3> HIDE DEF rn, al, rq, H
    <3> QED BY <3>1, <3>2, <3>3 DEF SoundNode
  <2>2. CASE n \notin DOMAIN N
    <3>1. H(n) = {}
      BY <1>1, <2>2 DEF SoundWorkload
    <3>2. GPUs(rq, H(n)) = 0
      BY <3>1, GPUsOfNobody
    <3>3. rn[n] = {} /\ al[n] = 0
      BY <2>2
    <3> HIDE DEF rn, al, rq, H
    <3> QED BY <3>1, <3>2, <3>3, FleetAssumption
  <2> QED BY <2>1, <2>2
<1> HIDE DEF st, rq, hs, hl, al, rn
<1>6. Sound(st, rq, hs, hl, al, rn)
  BY <1>2, <1>3, <1>4, <1>5 DEF Sound
<1> QED BY <1>6 DEF st, rq, hs, hl, al, rn

\* A MemoryStore is sound when its variables are.
LEMMA SoundStore ==
    ASSUME Sound(state, req, hosts, health, alloc, running)',
           left' \in [WorkloadIds -> Nat]
    PROVE  StoreInv'
<1>1. StoreTypeOK'
  BY DEF Sound, StoreTypeOK
<1>2. PlacementConsistent'
  BY DEF Sound, PlacementConsistent, HostedOn, Replicas, RowReplicas
<1>3. PolicyRespected'
  BY DEF Sound, PolicyRespected, SpotCompatible
<1>4. AllocationAccounted'
  BY DEF Sound, AllocationAccounted, HostedOn, GPUsOf
<1> QED BY <1>1, <1>2, <1>3, <1>4 DEF StoreInv

\* What is written back from a sound MemoryStore is sound.
LEMMA WrittenIsSound ==
    ASSUME StoreInv
    PROVE  SoundRows(NodeRows, WorkloadRows)
<1> DEFINE N == NodeRows
           W == WorkloadRows
<1>1. /\ DOMAIN N = Present /\ Present \subseteq NodeIds
      /\ \A n \in Present : /\ N[n].health = health[n] /\ N[n].alloc = alloc[n]
                            /\ N[n].running = running[n]
  BY DEF NodeRows, Present
<1>2. /\ DOMAIN W = {v \in WorkloadIds : state[v] # "absent"}
      /\ \A w \in DOMAIN W : /\ W[w].state = state[w] /\ W[w].req = req[w]
                             /\ W[w].hosts = hosts[w]
  BY DEF WorkloadRows
<1>3. N = [n \in DOMAIN N |-> N[n]] /\ W = [w \in DOMAIN W |-> W[w]]
  BY DEF NodeRows, WorkloadRows
<1> HIDE DEF N, W
<1>4. ASSUME NEW w \in DOMAIN W PROVE SoundWorkload(N, W[w])
  <2>1. w \in WorkloadIds /\ state[w] # "absent"
    BY <1>2
  <2>2. /\ state[w] \in {"pending", "running", "completed"} /\ req[w] \in Attributes
        /\ hosts[w] \subseteq NodeIds
        /\ hosts[w] # {} <=> state[w] = "running"
        /\ state[w] = "running" => Cardinality(hosts[w]) <= RowReplicas(req[w])
    BY <2>1 DEF StoreInv, StoreTypeOK, PlacementConsistent, Replicas, RowReplicas
  <2>3. \A n \in hosts[w] : /\ health[n] = "healthy"
                            /\ Fleet[n].gpuType = req[w].gpuType
                            /\ SpotCompatible(req[w], Fleet[n])
    BY <2>1 DEF StoreInv, PolicyRespected
  <2>4. hosts[w] \subseteq Present
    BY <2>2, <2>3 DEF Present
  <2> QED BY <1>1, <1>2, <2>2, <2>3, <2>4 DEF SoundWorkload
<1>5. ASSUME NEW n \in DOMAIN N PROVE SoundNode(N, W, n)
  <2>1. n \in NodeIds /\ n \in Present
    BY <1>1
  <2>2. HostedRows(W, n) = HostedOn(n)
    BY <1>2 DEF HostedRows, HostedOn, StoreInv, StoreTypeOK, PlacementConsistent
  <2>3. RowGPUs(W, n) = GPUsOf(HostedOn(n))
    <3> DEFINE rw == [w \in DOMAIN W |-> W[w].req]
    <3>1. \A w \in HostedOn(n) : rw[w] = req[w]
      BY <1>2, <2>2 DEF HostedRows
    <3> HIDE DEF rw
    <3>2. GPUs(rw, HostedOn(n)) = GPUs(req, HostedOn(n))
      BY <3>1, GPUsOfSame
    <3> QED BY <2>2, <3>2 DEF RowGPUs, GPUsOf, rw
  <2>4. /\ health[n] \in NodeHealths /\ alloc[n] \in Nat
        /\ running[n] = HostedOn(n)
        /\ alloc[n] \in {GPUsOf(HostedOn(n)), SeedPhantom[n] + GPUsOf(HostedOn(n))}
        /\ alloc[n] <= Fleet[n].total
    BY <2>1 DEF StoreInv, StoreTypeOK, PlacementConsistent, AllocationAccounted, Present
  <2> QED BY <1>1, <2>1, <2>2, <2>3, <2>4 DEF SoundNode
<1> QED BY <1>1, <1>2, <1>3, <1>4, <1>5 DEF SoundRows, N, W

\* No rows at all are sound.
LEMMA NoRowsSound == SoundRows(NoRows, NoRows)
<1>1. DOMAIN NoRows = {} /\ NoRows = [k \in DOMAIN NoRows |-> NoRows[k]]
  BY DEF NoRows
<1> QED BY <1>1 DEF SoundRows

\* A MemoryStore that is forgotten is an empty one.
LEMMA ForgottenIsSound == ASSUME ForgetMemory PROVE IInv'
<1>1. DOMAIN NoRows = {}
  BY DEF NoRows
<1>2. /\ state' = [w \in WorkloadIds |-> IF w \in DOMAIN NoRows THEN NoRows[w].state ELSE "absent"]
      /\ req' = [w \in WorkloadIds |-> IF w \in DOMAIN NoRows THEN NoRows[w].req ELSE NoRequest]
      /\ hosts' = [w \in WorkloadIds |-> IF w \in DOMAIN NoRows THEN NoRows[w].hosts ELSE {}]
      /\ health' = [n \in NodeIds |-> IF n \in DOMAIN NoRows THEN NoRows[n].health ELSE "absent"]
      /\ alloc' = [n \in NodeIds |-> IF n \in DOMAIN NoRows THEN NoRows[n].alloc ELSE 0]
      /\ running' = [n \in NodeIds |-> IF n \in DOMAIN NoRows THEN NoRows[n].running ELSE {}]
      /\ left' = [w \in WorkloadIds |-> 0] /\ todo' = {} /\ preempted' = FALSE
  BY <1>1 DEF ForgetMemory
<1>3. Sound(state', req', hosts', health', alloc', running')
  BY <1>2, NoRowsSound, FilledIsSound
<1>4. StoreInv'
  BY <1>2, <1>3, SoundStore DEF Sound, RowReplicas
<1> QED BY <1>2, <1>4 DEF IInv, TypeOK, StoreInv

\* The demo fixture is sound, by the assumption about it.
LEMMA FixtureSound == SoundRows(Fixture.nodes, Fixture.workloads)
<1> DEFINE N == Fixture.nodes
           W == Fixture.workloads
           ids == DOMAIN SeedRequest
<1>1. /\ N = [n \in NodeIds |->
                [health |-> SeedHealth[n], alloc |-> SeedPhantom[n] + SeedGPUs(n),
                 running |-> {w \in ids : n \in SeedHosts[w]}]]
      /\ W = [w \in ids |->
                [state |-> IF SeedHosts[w] = {} THEN "pending" ELSE "running",
                 req |-> SeedRequest[w], hosts |-> SeedHosts[w]]]
  BY DEF Fixture
<1>2. /\ DOMAIN N = NodeIds /\ DOMAIN W = ids
      /\ N = [n \in DOMAIN N |-> N[n]] /\ W = [w \in DOMAIN W |-> W[w]]
      /\ \A n \in NodeIds : /\ N[n].health = SeedHealth[n]
                            /\ N[n].alloc = SeedPhantom[n] + SeedGPUs(n)
                            /\ N[n].running = {w \in ids : n \in SeedHosts[w]}
      /\ \A w \in ids : /\ W[w].state = (IF SeedHosts[w] = {} THEN "pending" ELSE "running")
                        /\ W[w].req = SeedRequest[w] /\ W[w].hosts = SeedHosts[w]
  BY <1>1
<1> HIDE DEF N, W
<1>3. /\ ids \subseteq WorkloadIds
      /\ \A w \in ids : /\ SeedRequest[w] \in Attributes
                        /\ SeedRequest[w].gpus \in Nat
                        /\ SeedHosts[w] \in SUBSET NodeIds
  BY SeedAssumption DEF Attributes
<1>4. ASSUME NEW w \in ids PROVE SoundWorkload(N, W[w])
  <2>1. Cardinality(SeedHosts[w]) <= 1 /\ IsFiniteSet(SeedHosts[w])
    BY <1>3, SeedAssumption, IdsAssumption, FS_Subset
  <2>2. RowReplicas(SeedRequest[w]) \in Nat /\ RowReplicas(SeedRequest[w]) >= 1
    BY <1>3 DEF RowReplicas, AtLeast, Attributes
  <2>3. Cardinality(SeedHosts[w]) <= RowReplicas(SeedRequest[w])
    BY <2>1, <2>2, FS_CardinalityType
  <2>4. \A n \in SeedHosts[w] : /\ SeedHealth[n] = "healthy"
                                /\ Fleet[n].gpuType = SeedRequest[w].gpuType
                                /\ SpotCompatible(SeedRequest[w], Fleet[n])
    BY SeedAssumption
  <2> QED BY <1>2, <1>3, <2>3, <2>4 DEF SoundWorkload
<1>5. ASSUME NEW n \in NodeIds PROVE SoundNode(N, W, n)
  <2> DEFINE S == {w \in ids : n \in SeedHosts[w]}
  <2>1. S = HostedRows(W, n)
    BY <1>2 DEF HostedRows
  <2>2. Counted(SeedRequest, S)
    BY <1>3, IdsAssumption, FS_Subset DEF Counted
  <2>3. SeedGPUs(n) \in Nat /\ SeedGPUs(n) = GPUs(SeedRequest, S)
    BY <2>2, SlotsFinite DEF SeedGPUs
  <2>4. RowGPUs(W, n) = SeedGPUs(n)
    <3> DEFINE rw == [w \in DOMAIN W |-> W[w].req]
    <3>1. \A w \in S : rw[w] = SeedRequest[w]
      BY <1>2
    <3> HIDE DEF rw, S
    <3>2. GPUs(rw, S) = GPUs(SeedRequest, S)
      BY <3>1, GPUsOfSame
    <3> QED BY <2>1, <2>3, <3>2 DEF RowGPUs, rw
  <2> HIDE DEF S
  <2>5. /\ SeedHealth[n] \in NodeHealths /\ SeedPhantom[n] \in Nat
        /\ SeedPhantom[n] + SeedGPUs(n) <= Fleet[n].total
    BY SeedAssumption
  <2>6. N[n].running = S
    BY <1>2 DEF S
  <2> QED BY <1>2, <2>1, <2>3, <2>4, <2>5, <2>6 DEF SoundNode
<1> QED BY <1>2, <1>3, <1>4, <1>5 DEF SoundRows, N, W

------------------------------------------------------------------------------
(* Tables under one transaction *)

\* The versions of the rows f, inserted by b and deleted by x.
Held(f, b, x) ==
    {[key |-> k, data |-> f[k], by |-> b, gone |-> x, seen |-> {}] : k \in DOMAIN f}

\* What a reader sees of a set of versions.
ContentOf(R) ==
    [k \in {r.key : r \in {v \in R : v.by = NoSession}} |->
        (CHOOSE r \in {v \in R : v.by = NoSession} : r.key = k).data]

\* The committed rows f, deleted by x, and versions H that are not committed.
TableIs(R, f, x, H) ==
    /\ R = Held(f, NoSession, x) \cup H
    /\ \A r \in H : r.by # NoSession

\* A reader sees what was committed, and not what a transaction inserts.
LEMMA ContentIs ==
    ASSUME NEW R, NEW f, NEW x, NEW H, TableIs(R, f, x, H)
    PROVE  /\ ContentOf(R) = [k \in DOMAIN f |-> f[k]]
           /\ TableIs(R, ContentOf(R), x, H)
<1> DEFINE C == {v \in R : v.by = NoSession}
<1>1. C = Held(f, NoSession, x)
  BY DEF Held, TableIs
<1>2. \A r \in C : r.key \in DOMAIN f /\ r.data = f[r.key]
  BY <1>1 DEF Held
<1>3. ASSUME NEW k \in DOMAIN f PROVE \E r \in C : r.key = k
  <2> DEFINE r == [key |-> k, data |-> f[k], by |-> NoSession, gone |-> x, seen |-> {}]
  <2>1. r \in Held(f, NoSession, x) /\ r.key = k
    BY DEF Held
  <2> HIDE DEF C, r
  <2> QED BY <1>1, <2>1
<1> HIDE DEF C
<1>4. {r.key : r \in C} = DOMAIN f
  BY <1>2, <1>3
<1>5. \A k \in DOMAIN f : (CHOOSE r \in C : r.key = k).data = f[k]
  BY <1>2, <1>3
<1>6. ContentOf(R) = [k \in DOMAIN f |-> f[k]]
  BY <1>4, <1>5 DEF ContentOf, C
<1>7. Held(ContentOf(R), NoSession, x) = Held(f, NoSession, x)
  BY <1>6 DEF Held
<1> QED BY <1>6, <1>7 DEF TableIs

\* A version is its fields.
LEMMA VersionFields ==
    ASSUME NEW q, NEW k, NEW d, NEW b, NEW g, NEW S,
           q = [x \in {"key", "data", "by", "gone", "seen"} |-> q[x]],
           q.key = k, q.data = d, q.by = b, q.gone = g, q.seen = S
    PROVE  q = [key |-> k, data |-> d, by |-> b, gone |-> g, seen |-> S]
<1> QED OBVIOUS

\* A transaction deletes the rows that are committed, and at its end what it
\* inserted, or only marked as deleted, is committed.
LEMMA HeldDeleted ==
    ASSUME NEW f, NEW s
    PROVE  {[r EXCEPT !.gone = s, !.seen = @ \ {s}] : r \in Held(f, NoSession, NoSession)}
             = Held(f, NoSession, s)
<1> DEFINE H == Held(f, NoSession, NoSession)
           after(r) == [r EXCEPT !.gone = s, !.seen = @ \ {s}]
           v(k, x) == [key |-> k, data |-> f[k], by |-> NoSession, gone |-> x, seen |-> {}]
<1>1. ASSUME NEW k, NEW r, r = v(k, NoSession) PROVE after(r) = v(k, s)
  <2> DEFINE q == after(r)
  <2>1. r = [y \in {"key", "data", "by", "gone", "seen"} |-> r[y]]
    BY <1>1
  <2>2. q = [y \in {"key", "data", "by", "gone", "seen"} |-> q[y]]
    BY <2>1
  <2>3. q.key = k /\ q.data = f[k] /\ q.by = NoSession /\ q.gone = s /\ q.seen = {}
    BY <1>1, <2>1
  <2> HIDE DEF q
  <2>4. q = v(k, s)
    BY <2>2, <2>3, VersionFields
  <2> QED BY <2>4 DEF q
<1>2. /\ H = {v(k, NoSession) : k \in DOMAIN f}
      /\ Held(f, NoSession, s) = {v(k, s) : k \in DOMAIN f}
  BY DEF Held
<1>3. {after(r) : r \in H} = Held(f, NoSession, s)
  <2> HIDE DEF v, after, H
  <2> QED BY <1>1, <1>2
<1> QED BY <1>3

\* The versions R once s has ended.
Closed(R, s) ==
    {[r EXCEPT !.by = IF @ = s THEN NoSession ELSE @,
               !.gone = IF @ = s THEN NoSession ELSE @,
               !.seen = @ \ {s}] : r \in R}

LEMMA HeldEnded ==
    ASSUME NEW f, NEW s, NEW b \in {NoSession, s}, NEW g \in {NoSession, s}
    PROVE  Closed(Held(f, b, g), s) = Held(f, NoSession, NoSession)
<1> DEFINE H == Held(f, b, g)
           after(r) == [r EXCEPT !.by = IF @ = s THEN NoSession ELSE @,
                                 !.gone = IF @ = s THEN NoSession ELSE @,
                                 !.seen = @ \ {s}]
           v(k, c, x) == [key |-> k, data |-> f[k], by |-> c, gone |-> x, seen |-> {}]
<1>1. ASSUME NEW k, NEW r, r = v(k, b, g) PROVE after(r) = v(k, NoSession, NoSession)
  <2> DEFINE q == after(r)
  <2>1. r = [y \in {"key", "data", "by", "gone", "seen"} |-> r[y]]
    BY <1>1
  <2>2. q = [y \in {"key", "data", "by", "gone", "seen"} |-> q[y]]
    BY <2>1
  <2>3. /\ q.key = k /\ q.data = f[k] /\ q.by = NoSession
        /\ q.gone = NoSession /\ q.seen = {}
    BY <1>1, <2>1
  <2> HIDE DEF q
  <2>4. q = v(k, NoSession, NoSession)
    BY <2>2, <2>3, VersionFields
  <2> QED BY <2>4 DEF q
<1>2. /\ H = {v(k, b, g) : k \in DOMAIN f}
      /\ Held(f, NoSession, NoSession) = {v(k, NoSession, NoSession) : k \in DOMAIN f}
  BY DEF Held
<1>3. {after(r) : r \in H} = Held(f, NoSession, NoSession)
  <2> HIDE DEF v, after, H
  <2> QED BY <1>1, <1>2
<1> QED BY <1>3 DEF Closed

\* A table after a step in which its committed rows are f.
LEMMA TableAfter ==
    ASSUME NEW t \in Tables, NEW f, NEW x, NEW H, TableIs(rows'[t], f, x, H)
    PROVE  /\ Content(t)' = [k \in DOMAIN f |-> f[k]]
           /\ TableIs(rows'[t], Content(t)', x, H)
<1>1. Content(t)' = ContentOf(rows'[t])
  BY DEF Content, Committed, ContentOf
<1> QED BY <1>1, ContentIs

LEMMA ContentIsFunction ==
    ASSUME NEW t PROVE [k \in DOMAIN Content(t) |-> Content(t)[k]] = Content(t)
<1> QED BY DEF Content

LEMMA OthersVersions ==
    ASSUME NEW f, NEW b, b # NoSession, NEW x
    PROVE  \A r \in Held(f, b, x) : r.by # NoSession /\ r.by = b /\ r.gone = x
<1> QED BY DEF Held
------------------------------------------------------------------------------
(* One transaction after the other *)

\* The tables that a transaction has deleted, and those that it has inserted,
\* when it comes to statement p.
Gone(p) == {t \in Tables : \/ p[1] \in {"insert", "commit"}
                           \/ p[1] = "delete" /\ \E j \in 1 .. 3 : j < p[2] /\ DeleteOrder[j] = t}
New(p)  == {t \in Tables : \/ p[1] = "commit"
                           \/ p[1] = "insert" /\ \E j \in 1 .. 3 : j < p[2] /\ InsertOrder[j] = t}

\* Stages that read, or run in memory.
Early(p) == p \in {At(g) : g \in {"idle", "loadWorkloads", "loadEvents", "apply",
                                  "operate", "leave"}} \cup {<< "delete", 1 >>}

LEMMA StageFacts ==
    /\ \A p : Early(p) => Gone(p) = {} /\ New(p) = {}
    /\ Gone(At("commit")) = Tables /\ New(At("commit")) = Tables
    /\ \A i \in 1 .. 3 :
          /\ Gone(<< "insert", i >>) = Tables /\ New(<< "delete", i >>) = {}
          /\ DeleteOrder[i] \notin Gone(<< "delete", i >>)
          /\ InsertOrder[i] \notin New(<< "insert", i >>)
          /\ Gone(AfterDelete(i)) = Gone(<< "delete", i >>) \cup {DeleteOrder[i]}
          /\ New(AfterDelete(i)) = {}
          /\ Gone(AfterInsert(i)) = Tables
          /\ New(AfterInsert(i)) = New(<< "insert", i >>) \cup {InsertOrder[i]}
<1>1. ASSUME NEW p, Early(p) PROVE Gone(p) = {} /\ New(p) = {}
  BY <1>1 DEF Early, Gone, New, At
<1>2. Gone(At("commit")) = Tables /\ New(At("commit")) = Tables
  BY DEF Gone, New, At
<1>3. ASSUME NEW i \in 1 .. 3
      PROVE  /\ Gone(<< "insert", i >>) = Tables /\ New(<< "delete", i >>) = {}
             /\ DeleteOrder[i] \notin Gone(<< "delete", i >>)
             /\ InsertOrder[i] \notin New(<< "insert", i >>)
  <2>1. i = 1 \/ i = 2 \/ i = 3
    OBVIOUS
  <2> QED BY <2>1, OrderFacts DEF Gone, New
<1>4. ASSUME NEW i \in 1 .. 3
      PROVE  /\ Gone(AfterDelete(i)) = Gone(<< "delete", i >>) \cup {DeleteOrder[i]}
             /\ New(AfterDelete(i)) = {}
  <2>1. i = 1 \/ i = 2 \/ i = 3
    OBVIOUS
  <2> QED BY <2>1, OrderFacts DEF Gone, New, Tables
<1>5. ASSUME NEW i \in 1 .. 3
      PROVE  /\ Gone(AfterInsert(i)) = Tables
             /\ New(AfterInsert(i)) = New(<< "insert", i >>) \cup {InsertOrder[i]}
  <2>1. i = 1 \/ i = 2 \/ i = 3
    OBVIOUS
  <2> QED BY <2>1, OrderFacts DEF Gone, New, Tables, At
<1> QED BY <1>1, <1>2, <1>3, <1>4, <1>5

\* Every table holds what is committed, deleted or not, and what the
\* transaction has inserted.
Stands(s) ==
    \A t \in Tables :
        rows[t] = Held(Content(t), NoSession, IF t \in Gone(pc[s]) THEN s ELSE NoSession)
                  \cup (IF t \in New(pc[s]) THEN Held(image[s][t], s, NoSession) ELSE {})

CommittedRows == SoundRows(Content("nodes"), Content("workloads"))

\* What has been loaded, and what will be written.
ImageStands(s) ==
    /\ pc[s] = At("loadWorkloads") => image[s]["nodes"] = Content("nodes")
    /\ pc[s] \in {At("loadEvents"), At("apply"), At("commit")} \cup {"delete", "insert"} \X (1 .. 3)
          => SoundRows(image[s]["nodes"], image[s]["workloads"])

\* The memory is in order, also between the transactions.
MemoryStands == IInv /\ (turn = NoSession => todo = {})

\* With one session nobody deletes what it deletes: it never waits.
NeverWaits(s) == pc[s] \notin {"wait"} \X (1 .. 3)

AloneInv(s) == Stands(s) /\ CommittedRows /\ ImageStands(s) /\ MemoryStands /\ NeverWaits(s)

\* Steps that leave the rows alone.
LEMMA RowsStay ==
    ASSUME NEW s, Stands(s), CommittedRows, UNCHANGED rows, Early(pc[s]), Early(pc'[s])
    PROVE  Stands(s)' /\ CommittedRows'
<1>1. \A t : Content(t)' = Content(t)
  BY DEF Content, Committed
<1>2. CommittedRows'
  BY <1>1 DEF CommittedRows
<1>3. /\ Gone(pc[s]) = {} /\ New(pc[s]) = {}
      /\ Gone(pc'[s]) = {} /\ New(pc'[s]) = {}
  BY StageFacts
<1>4. \A t \in Tables : rows'[t] = Held(Content(t)', NoSession, NoSession) \cup {}
  BY <1>1, <1>3 DEF Stands
<1>5. Gone(pc[s])' = {} /\ New(pc[s])' = {}
  BY <1>3 DEF Gone, New
<1> QED BY <1>2, <1>4, <1>5 DEF Stands

\* Steps that touch neither the memory nor the turn.
LEMMA MemoryStays ==
    ASSUME MemoryStands, UNCHANGED vars, UNCHANGED turn
    PROVE  MemoryStands'
<1>1. IInv'
  BY NextIInv DEF MemoryStands
<1> QED BY <1>1 DEF MemoryStands, vars, passVars

LEMMA ContentStays == ASSUME UNCHANGED rows PROVE \A t : Content(t)' = Content(t)
<1> QED BY DEF Content, Committed

\* The statements of the load.
LEMMA LoadsKeep ==
    ASSUME NEW s \in Sessions, PGInv, AloneInv(s),
           LoadNodes(s) \/ LoadWorkloads(s) \/ LoadEvents(s)
    PROVE  AloneInv(s)'
<1>2. PICK t \in Tables : Load(s, t)
  BY DEF LoadNodes, LoadWorkloads, LoadEvents, Tables
<1>1. \A u : Content(u)' = Content(u)
  BY <1>2, ContentStays DEF Load
<1>3. image'[s] = [image[s] EXCEPT ![t] = Content(t)] /\ DOMAIN image[s] = Tables
  BY <1>2 DEF Load, PGInv, ImageOK
<1>4. /\ Early(pc[s]) /\ Early(pc'[s]) /\ pc'[s] \notin {"wait"} \X (1 .. 3)
      /\ ImageStands(s)'
  <2>1. CASE LoadNodes(s)
    <3>1. pc[s] = Idle /\ pc'[s] = At("loadWorkloads") /\ image'[s]["nodes"] = Content("nodes")
      BY <2>1 DEF LoadNodes, Load, PGInv, ImageOK, PcOK, Tables
    <3> QED BY <1>1, <3>1 DEF Early, Idle, At, ImageStands
  <2>2. CASE LoadWorkloads(s)
    <3>1. /\ pc[s] = At("loadWorkloads") /\ pc'[s] = At("loadEvents")
          /\ image'[s]["workloads"] = Content("workloads")
          /\ image'[s]["nodes"] = image[s]["nodes"]
      BY <2>2 DEF LoadWorkloads, Load, PGInv, ImageOK, PcOK, Tables
    <3>2. SoundRows(image[s]["nodes"], Content("workloads"))
      BY <3>1 DEF AloneInv, CommittedRows, ImageStands
    <3>3. SoundRows(image'[s]["nodes"], image'[s]["workloads"])
      BY <3>1, <3>2
    <3> QED BY <3>1, <3>3 DEF Early, At, ImageStands
  <2>3. CASE LoadEvents(s)
    <3>1. /\ pc[s] = At("loadEvents") /\ pc'[s] = At("apply")
          /\ image'[s]["workloads"] = image[s]["workloads"]
          /\ image'[s]["nodes"] = image[s]["nodes"]
      BY <2>3 DEF LoadEvents, Load, PGInv, ImageOK, PcOK, Tables
    <3>2. SoundRows(image[s]["nodes"], image[s]["workloads"])
      BY <3>1 DEF AloneInv, ImageStands
    <3> QED BY <3>1, <3>2 DEF Early, At, ImageStands
  <2> QED BY <2>1, <2>2, <2>3
<1>5. Stands(s)' /\ CommittedRows'
  BY <1>2, <1>4, RowsStay DEF AloneInv, Load
<1>6. MemoryStands'
  BY <1>2, MemoryStays DEF AloneInv, Load
<1> QED BY <1>4, <1>5, <1>6 DEF AloneInv, NeverWaits

\* The operations of MemoryStore, between Enter and Leave, are its steps.
LEMMA EnterKeeps ==
    ASSUME NEW s \in Sessions, PGInv, AloneInv(s), Enter(s)
    PROVE  AloneInv(s)'
<1> DEFINE N == image[s]["nodes"]
           W == image[s]["workloads"]
<1>1. pc[s] = At("apply") /\ turn = NoSession /\ turn' = s
      /\ pc'[s] = At("operate") /\ UNCHANGED << rows, image, todo, preempted >>
  BY DEF Enter, passVars, PGInv, PcOK
<1>2. SoundRows(N, W)
  BY <1>1 DEF AloneInv, ImageStands
<1>3. PICK due : left' = [w \in WorkloadIds |->
                            IF Loaded(s, w) /\ w \notin due THEN W[w].req.duration ELSE 0]
  BY DEF Enter
<1>4. \A w \in DOMAIN W : W[w].req.duration \in Nat
  BY <1>2 DEF SoundRows, SoundWorkload, Attributes
<1>5. left' \in [WorkloadIds -> Nat]
  BY <1>3, <1>4 DEF Loaded
<1>6. /\ state' = [w \in WorkloadIds |-> IF w \in DOMAIN W THEN W[w].state ELSE "absent"]
      /\ req' = [w \in WorkloadIds |-> IF w \in DOMAIN W THEN W[w].req ELSE NoRequest]
      /\ hosts' = [w \in WorkloadIds |-> IF w \in DOMAIN W THEN W[w].hosts ELSE {}]
      /\ health' = [n \in NodeIds |-> IF n \in DOMAIN N THEN N[n].health ELSE "absent"]
      /\ alloc' = [n \in NodeIds |-> IF n \in DOMAIN N THEN N[n].alloc ELSE 0]
      /\ running' = [n \in NodeIds |-> IF n \in DOMAIN N THEN N[n].running ELSE {}]
  BY DEF Enter, Loaded
<1> HIDE DEF N, W
<1>7. Sound(state', req', hosts', health', alloc', running')
  BY <1>2, <1>6, FilledIsSound
<1>8. StoreInv'
  BY <1>5, <1>7, SoundStore DEF Sound, RowReplicas
<1>9. MemoryStands'
  BY <1>1, <1>8, NoSessionAssumption DEF AloneInv, MemoryStands, IInv, TypeOK, StoreInv
<1>10. Stands(s)' /\ CommittedRows'
  <2>1. Early(pc[s]) /\ Early(pc'[s])
    BY <1>1 DEF Early, At
  <2> QED BY <1>1, <2>1, RowsStay DEF AloneInv
<1>11. ImageStands(s)' /\ NeverWaits(s)'
  BY <1>1 DEF ImageStands, NeverWaits, At
<1> QED BY <1>9, <1>10, <1>11 DEF AloneInv

LEMMA OperationKeeps ==
    ASSUME NEW s \in Sessions, PGInv, AloneInv(s), Operate(s) \/ OperatePass(s)
    PROVE  AloneInv(s)'
<1>1. /\ turn = s /\ pc[s] \in {At("operate"), At("leave")}
      /\ pc'[s] \in {At("operate"), At("leave")}
      /\ UNCHANGED << rows, image, turn >>
  BY NoSessionAssumption DEF Operate, OperatePass, dbVars, PGInv, PcOK, TurnOK
<1>2. [Next]_vars
  BY DEF Operate, OperatePass, Operation, Next
<1>3. MemoryStands'
  BY <1>1, <1>2, NextIInv, NoSessionAssumption DEF AloneInv, MemoryStands
<1>4. Stands(s)' /\ CommittedRows'
  <2>1. Early(pc[s]) /\ Early(pc'[s])
    BY <1>1 DEF Early, At
  <2> QED BY <1>1, <2>1, RowsStay DEF AloneInv
<1>5. ImageStands(s)' /\ NeverWaits(s)'
  BY <1>1 DEF ImageStands, NeverWaits, At
<1> QED BY <1>3, <1>4, <1>5 DEF AloneInv

LEMMA LeaveKeeps ==
    ASSUME NEW s \in Sessions, PGInv, AloneInv(s), Leave(s)
    PROVE  AloneInv(s)'
<1>1. /\ pc[s] = At("leave") /\ pc'[s] = << "delete", 1 >> /\ UNCHANGED rows
      /\ image'[s]["nodes"] = NodeRows /\ image'[s]["workloads"] = WorkloadRows
      /\ ForgetMemory
  BY DEF Leave, PGInv, PcOK, ImageOK
<1>2. SoundRows(NodeRows, WorkloadRows)
  BY WrittenIsSound DEF AloneInv, MemoryStands, IInv
<1>3. SoundRows(image'[s]["nodes"], image'[s]["workloads"])
  BY <1>1, <1>2
<1>4. ImageStands(s)' /\ NeverWaits(s)'
  BY <1>1, <1>3 DEF ImageStands, NeverWaits, At
<1>5. MemoryStands'
  BY <1>1, ForgottenIsSound DEF MemoryStands, ForgetMemory
<1>6. Stands(s)' /\ CommittedRows'
  <2>1. Early(pc[s]) /\ Early(pc'[s])
    BY <1>1 DEF Early, At
  <2> QED BY <1>1, <2>1, RowsStay DEF AloneInv
<1> QED BY <1>4, <1>5, <1>6 DEF AloneInv

\* Requests that write without an operation: an event, the fixture, nothing.
LEMMA ReplaceKeeps ==
    ASSUME NEW s \in Sessions, PGInv, AloneInv(s),
           AddEvent(s) \/ PGSeedDemoData(s) \/ PGClear(s)
    PROVE  AloneInv(s)'
<1>1. /\ pc[s] \in {Idle, At("apply")} /\ pc'[s] = << "delete", 1 >>
      /\ UNCHANGED << vars, rows, turn >>
  BY DEF AddEvent, PGSeedDemoData, PGClear, Replace, PGInv, PcOK
<1>2. SoundRows(image'[s]["nodes"], image'[s]["workloads"])
  <2>1. CASE AddEvent(s)
    <3>1. /\ image'[s]["nodes"] = image[s]["nodes"]
          /\ image'[s]["workloads"] = image[s]["workloads"]
      BY <2>1 DEF AddEvent, PGInv, ImageOK, Tables
    <3>2. SoundRows(image[s]["nodes"], image[s]["workloads"])
      BY <2>1 DEF AddEvent, AloneInv, ImageStands
    <3> QED BY <3>1, <3>2
  <2>2. CASE PGSeedDemoData(s)
    <3>1. image'[s] = Fixture
      BY <2>2 DEF PGSeedDemoData, Replace, PGInv, ImageOK
    <3> QED BY <3>1, FixtureSound
  <2>3. CASE PGClear(s)
    <3>1. image'[s]["nodes"] = NoRows /\ image'[s]["workloads"] = NoRows
      BY <2>3 DEF PGClear, Replace, PGInv, ImageOK, Empty, Tables
    <3> QED BY <3>1, NoRowsSound
  <2> QED BY <2>1, <2>2, <2>3
<1>3. ImageStands(s)' /\ NeverWaits(s)'
  BY <1>1, <1>2 DEF ImageStands, NeverWaits, At
<1>4. MemoryStands'
  BY <1>1, MemoryStays DEF AloneInv
<1>5. Stands(s)' /\ CommittedRows'
  <2>1. Early(pc[s]) /\ Early(pc'[s])
    BY <1>1 DEF Early, At, Idle
  <2> QED BY <1>1, <2>1, RowsStay DEF AloneInv
<1> QED BY <1>3, <1>4, <1>5 DEF AloneInv

\* A statement that changes one table, of which it leaves the committed rows.
LEMMA OneTableAfter ==
    ASSUME NEW s \in Sessions, Stands(s), CommittedRows, UNCHANGED image, NEW t \in Tables,
           rows'[t] =
              Held(Content(t), NoSession, IF t \in Gone(pc'[s]) THEN s ELSE NoSession)
              \cup (IF t \in New(pc'[s]) THEN Held(image[s][t], s, NoSession) ELSE {}),
           \A u \in Tables \ {t} :
              /\ rows'[u] = rows[u]
              /\ u \in Gone(pc'[s]) <=> u \in Gone(pc[s])
              /\ u \in New(pc'[s]) <=> u \in New(pc[s])
    PROVE  Stands(s)' /\ CommittedRows'
<1> DEFINE x == IF t \in Gone(pc'[s]) THEN s ELSE NoSession
           H == IF t \in New(pc'[s]) THEN Held(image[s][t], s, NoSession) ELSE {}
<1>1. Content(t)' = Content(t) /\ rows'[t] = Held(Content(t)', NoSession, x) \cup H
  <2>1. \A r \in H : r.by # NoSession
    BY OthersVersions, NoSessionAssumption
  <2>2. TableIs(rows'[t], Content(t), x, H)
    BY <2>1 DEF TableIs
  <2> HIDE DEF x, H
  <2>3. /\ Content(t)' = [k \in DOMAIN Content(t) |-> Content(t)[k]]
        /\ TableIs(rows'[t], Content(t)', x, H)
    BY <2>2, TableAfter
  <2> QED BY <2>3, ContentIsFunction DEF TableIs
<1>2. ASSUME NEW u \in Tables \ {t} PROVE Content(u)' = Content(u)
  <2>1. Committed(u)' = Committed(u)
    BY DEF Committed
  <2> QED BY <2>1 DEF Content
<1>3. CommittedRows'
  BY <1>1, <1>2 DEF CommittedRows, Tables
<1>4. ASSUME NEW u \in Tables
      PROVE  rows'[u] = Held(Content(u)', NoSession, IF u \in Gone(pc'[s]) THEN s ELSE NoSession)
                        \cup (IF u \in New(pc'[s]) THEN Held(image'[s][u], s, NoSession) ELSE {})
  <2>1. CASE u = t
    BY <1>1, <2>1
  <2>2. CASE u # t
    BY <1>2, <2>2 DEF Stands
  <2> QED BY <2>1, <2>2
<1>5. \A u \in Tables : /\ (u \in Gone(pc[s]))' <=> u \in Gone(pc'[s])
                        /\ (u \in New(pc[s]))' <=> u \in New(pc'[s])
  BY DEF Gone, New
<1> QED BY <1>3, <1>4, <1>5 DEF Stands

LEMMA DeleteKeeps ==
    ASSUME NEW s \in Sessions, PGInv, AloneInv(s), DeleteAll(s)
    PROVE  AloneInv(s)'
<1>1. PICK i \in 1 .. 3 :
         /\ pc[s] = << "delete", i >>
         /\ IF \A r \in Committed(DeleteOrder[i]) : r.gone = NoSession
            THEN /\ MarkDeleted(DeleteOrder[i], Committed(DeleteOrder[i]), s)
                 /\ pc' = [pc EXCEPT ![s] = AfterDelete(i)]
            ELSE TRUE
         /\ UNCHANGED << vars, image, turn >>
  BY OrderFacts DEF DeleteAll
<1> DEFINE t == DeleteOrder[i]
           C == Content(t)
<1>2. t \in Tables /\ t \notin Gone(pc[s]) /\ New(pc[s]) = {}
  BY <1>1, OrderFacts, StageFacts
<1>3. rows[t] = Held(C, NoSession, NoSession)
  BY <1>2 DEF AloneInv, Stands
<1>4. Committed(t) = rows[t] /\ \A r \in rows[t] : r.gone = NoSession
  BY <1>3 DEF Committed, Held
<1>5. MarkDeleted(t, rows[t], s) /\ pc'[s] = AfterDelete(i)
  BY <1>1, <1>4 DEF PGInv, PcOK
<1> HIDE DEF t, C
<1>6. rows'[t] = {[r EXCEPT !.gone = s, !.seen = @ \ {s}] : r \in rows[t]}
      /\ \A u \in Tables \ {t} : rows'[u] = rows[u]
  BY <1>2, <1>5 DEF MarkDeleted, PGInv, RowsOK
<1>7. rows'[t] = Held(C, NoSession, s)
  BY <1>3, <1>6, HeldDeleted
<1>8. Gone(pc'[s]) = Gone(pc[s]) \cup {t} /\ New(pc'[s]) = {}
  BY <1>1, <1>5, StageFacts DEF t
<1>9. Stands(s)' /\ CommittedRows'
  <2>1. rows'[t] =
           Held(Content(t), NoSession, IF t \in Gone(pc'[s]) THEN s ELSE NoSession)
           \cup (IF t \in New(pc'[s]) THEN Held(image[s][t], s, NoSession) ELSE {})
    BY <1>2, <1>7, <1>8 DEF C
  <2> QED BY <1>1, <1>2, <1>6, <1>8, <2>1, OneTableAfter DEF AloneInv
<1>10. pc'[s] \in {"delete", "insert"} \X (1 .. 3)
  BY <1>5, OrderFacts
<1>11. ImageStands(s)' /\ NeverWaits(s)'
  <2>1. SoundRows(image[s]["nodes"], image[s]["workloads"])
    BY <1>1 DEF AloneInv, ImageStands
  <2>2. SoundRows(image'[s]["nodes"], image'[s]["workloads"])
    BY <1>1, <2>1
  <2> QED BY <1>10, <2>2 DEF ImageStands, NeverWaits, At
<1>12. MemoryStands'
  BY <1>1, MemoryStays DEF AloneInv
<1> QED BY <1>9, <1>11, <1>12 DEF AloneInv

LEMMA InsertKeeps ==
    ASSUME NEW s \in Sessions, PGInv, AloneInv(s), InsertAll(s)
    PROVE  AloneInv(s)'
<1>1. PICK i \in 1 .. 3 :
         /\ pc[s] = << "insert", i >>
         /\ rows' = [rows EXCEPT ![InsertOrder[i]] =
               @ \cup {Version(k, image[s][InsertOrder[i]][k], s) :
                          k \in Insertable(s, InsertOrder[i])}]
         /\ pc' = [pc EXCEPT ![s] = AfterInsert(i)]
         /\ UNCHANGED << vars, image, turn >>
  BY OrderFacts DEF InsertAll
<1> DEFINE t == InsertOrder[i]
           C == Content(t)
           G == image[s][t]
<1>2. t \in Tables /\ t \notin New(pc[s]) /\ t \in Gone(pc[s]) /\ s # NoSession
  BY <1>1, OrderFacts, StageFacts, NoSessionAssumption
<1>3. rows[t] = Held(C, NoSession, s)
  BY <1>2 DEF AloneInv, Stands
<1>4. Insertable(s, t) = DOMAIN G
  <2>1. \A r \in rows[t] : r.gone = s
    BY <1>3 DEF Held
  <2> QED BY <2>1 DEF InTheWay, Insertable
<1>5. {Version(k, G[k], s) : k \in DOMAIN G} = Held(G, s, NoSession)
  BY DEF Version, Held
<1>6. pc'[s] = AfterInsert(i) /\ \A u \in Tables \ {t} : rows'[u] = rows[u]
  BY <1>1 DEF PGInv, PcOK, RowsOK
<1>7. rows'[t] = Held(C, NoSession, s) \cup Held(G, s, NoSession)
  BY <1>1, <1>2, <1>3, <1>4, <1>5 DEF PGInv, RowsOK
<1> HIDE DEF t, C, G
<1>8. Gone(pc'[s]) = Gone(pc[s]) /\ New(pc'[s]) = New(pc[s]) \cup {t}
  BY <1>1, <1>6, StageFacts DEF t
<1>9. Stands(s)' /\ CommittedRows'
  <2>1. rows'[t] =
           Held(Content(t), NoSession, IF t \in Gone(pc'[s]) THEN s ELSE NoSession)
           \cup (IF t \in New(pc'[s]) THEN Held(image[s][t], s, NoSession) ELSE {})
    BY <1>2, <1>7, <1>8 DEF C, G
  <2> QED BY <1>1, <1>2, <1>6, <1>8, <2>1, OneTableAfter DEF AloneInv
<1>10. pc'[s] = At("commit") \/ pc'[s] \in {"insert"} \X (1 .. 3)
  BY <1>6, OrderFacts
<1>11. ImageStands(s)' /\ NeverWaits(s)'
  <2>1. SoundRows(image[s]["nodes"], image[s]["workloads"])
    BY <1>1 DEF AloneInv, ImageStands
  <2>2. SoundRows(image'[s]["nodes"], image'[s]["workloads"])
    BY <1>1, <2>1
  <2> QED BY <1>10, <2>2 DEF ImageStands, NeverWaits, At
<1>12. MemoryStands'
  BY <1>1, MemoryStays DEF AloneInv
<1> QED BY <1>9, <1>11, <1>12 DEF AloneInv

\* At its end a transaction has no rows of its own left.
LEMMA EndLeaves ==
    ASSUME NEW s \in Sessions, PGInv, AloneInv(s), NEW c, End(s, c),
           NEW F, \A t \in Tables : Ended(t, s, c) = Held(F[t], NoSession, NoSession),
           SoundRows(F["nodes"], F["workloads"])
    PROVE  Stands(s)' /\ CommittedRows' /\ ImageStands(s)' /\ NeverWaits(s)'
<1>1. pc'[s] = Idle /\ \A t \in Tables : rows'[t] = Ended(t, s, c)
  BY DEF End, PGInv, PcOK
<1>2. ASSUME NEW t \in Tables
      PROVE  /\ Content(t)' = [k \in DOMAIN F[t] |-> F[t][k]]
             /\ rows'[t] = Held(Content(t)', NoSession, NoSession)
  <2>1. TableIs(rows'[t], F[t], NoSession, {})
    BY <1>1 DEF TableIs
  <2>2. /\ Content(t)' = [k \in DOMAIN F[t] |-> F[t][k]]
        /\ TableIs(rows'[t], Content(t)', NoSession, {})
    BY <2>1, TableAfter
  <2> QED BY <2>2 DEF TableIs
<1>3. Content("nodes")' = F["nodes"] /\ Content("workloads")' = F["workloads"]
  BY <1>2 DEF SoundRows, Tables
<1>4. CommittedRows'
  BY <1>3 DEF CommittedRows
<1>5. Gone(pc'[s]) = {} /\ New(pc'[s]) = {}
  BY <1>1, StageFacts DEF Early, Idle
<1>6. Gone(pc[s])' = {} /\ New(pc[s])' = {}
  BY <1>5 DEF Gone, New
<1>7. Stands(s)'
  BY <1>2, <1>6 DEF Stands
<1> QED BY <1>1, <1>4, <1>7 DEF ImageStands, NeverWaits, Idle, At

LEMMA CommitKeeps ==
    ASSUME NEW s \in Sessions, PGInv, AloneInv(s), Commit(s)
    PROVE  AloneInv(s)'
<1>1. pc[s] = At("commit") /\ End(s, TRUE) /\ UNCHANGED << vars, turn >> /\ s # NoSession
  BY NoSessionAssumption DEF Commit
<1>2. ASSUME NEW t \in Tables
      PROVE  Ended(t, s, TRUE) = Held(image[s][t], NoSession, NoSession)
  <2> DEFINE D == Held(Content(t), NoSession, s)
             G == Held(image[s][t], s, NoSession)
  <2>1. rows[t] = D \cup G
    BY <1>1, StageFacts DEF AloneInv, Stands
  <2>2. {v \in rows[t] : v.gone # s} = G
    <3>1. /\ \A v \in D : v.gone = s
          /\ \A v \in G : v.gone = NoSession
      BY DEF Held
    <3> HIDE DEF D, G
    <3> QED BY <1>1, <2>1, <3>1
  <2>3. Ended(t, s, TRUE) = Closed(G, s)
    <3> HIDE DEF D, G
    <3> QED BY <2>2 DEF Ended, Closed
  <2> QED BY <2>3, HeldEnded
<1>3. SoundRows(image[s]["nodes"], image[s]["workloads"])
  BY <1>1 DEF AloneInv, ImageStands
<1>4. Stands(s)' /\ CommittedRows' /\ ImageStands(s)' /\ NeverWaits(s)'
  BY <1>1, <1>2, <1>3, EndLeaves
<1>5. MemoryStands'
  BY <1>1, MemoryStays DEF AloneInv
<1> QED BY <1>4, <1>5 DEF AloneInv

\* Whatever fails, and wherever the process crashes.
LEMMA RollbackKeeps ==
    ASSUME NEW s \in Sessions, PGInv, AloneInv(s), End(s, FALSE),
           \/ ForgetMemory
           \/ UNCHANGED << vars, turn >>
    PROVE  AloneInv(s)'
<1>1. ASSUME NEW t \in Tables
      PROVE  Ended(t, s, FALSE) = Held(Content(t), NoSession, NoSession)
  <2> DEFINE x == IF t \in Gone(pc[s]) THEN s ELSE NoSession
             D == Held(Content(t), NoSession, x)
             G == IF t \in New(pc[s]) THEN Held(image[s][t], s, NoSession) ELSE {}
  <2>1. rows[t] = D \cup G /\ s # NoSession
    BY NoSessionAssumption DEF AloneInv, Stands
  <2>2. {v \in rows[t] : v.by # s} = D
    <3>1. /\ \A v \in D : v.by = NoSession
          /\ \A v \in G : v.by = s
      BY DEF Held
    <3> HIDE DEF D, G
    <3> QED BY <2>1, <3>1
  <2>3. Ended(t, s, FALSE) = Closed(D, s)
    <3> HIDE DEF D, G
    <3> QED BY <2>2 DEF Ended, Closed
  <2>4. x \in {NoSession, s} /\ NoSession \in {NoSession, s}
    OBVIOUS
  <2> HIDE DEF x
  <2>5. Closed(D, s) = Held(Content(t), NoSession, NoSession)
    BY <2>4, HeldEnded
  <2> HIDE DEF D
  <2> QED BY <2>3, <2>5
<1>2. Stands(s)' /\ CommittedRows' /\ ImageStands(s)' /\ NeverWaits(s)'
  <2> DEFINE F == [t \in Tables |-> Content(t)]
  <2>1. /\ \A t \in Tables : Ended(t, s, FALSE) = Held(F[t], NoSession, NoSession)
        /\ SoundRows(F["nodes"], F["workloads"])
    BY <1>1 DEF AloneInv, CommittedRows, Tables
  <2> HIDE DEF F
  <2> QED BY <2>1, EndLeaves
<1>3. MemoryStands'
  <2>1. CASE ForgetMemory
    BY <2>1, ForgottenIsSound DEF MemoryStands, ForgetMemory
  <2>2. CASE UNCHANGED << vars, turn >>
    BY <2>2, MemoryStays DEF AloneInv
  <2> QED BY <2>1, <2>2
<1> QED BY <1>2, <1>3 DEF AloneInv

LEMMA AloneInit == ASSUME NEW s \in Sessions, PGInit PROVE AloneInv(s)
<1>1. \A t \in Tables : rows[t] = Held(Fixture[t], NoSession, NoSession)
  BY DEF PGInit, Version, Held
<1>2. ASSUME NEW t \in Tables
      PROVE  /\ Content(t) = [k \in DOMAIN Fixture[t] |-> Fixture[t][k]]
             /\ rows[t] = Held(Content(t), NoSession, NoSession)
  <2>1. TableIs(rows[t], Fixture[t], NoSession, {})
    BY <1>1 DEF TableIs
  <2>2. Content(t) = ContentOf(rows[t])
    BY DEF Content, Committed, ContentOf
  <2>3. /\ ContentOf(rows[t]) = [k \in DOMAIN Fixture[t] |-> Fixture[t][k]]
        /\ TableIs(rows[t], ContentOf(rows[t]), NoSession, {})
    BY <2>1, ContentIs
  <2> QED BY <2>2, <2>3 DEF TableIs
<1>3. Content("nodes") = Fixture["nodes"] /\ Content("workloads") = Fixture["workloads"]
  BY <1>2, FixtureSound DEF SoundRows, Tables
<1>4. pc[s] = Idle /\ Early(pc[s]) /\ Gone(pc[s]) = {} /\ New(pc[s]) = {}
  BY StageFacts DEF PGInit, Early, Idle
<1>5. IInv /\ todo = {}
  BY InitIInv DEF PGInit, Init
<1> QED BY <1>2, <1>3, <1>4, <1>5, FixtureSound
        DEF AloneInv, Stands, CommittedRows, ImageStands, MemoryStands, NeverWaits, Idle, At

LEMMA AloneKept ==
    ASSUME NEW s, Sessions = {s}, PGInv, AloneInv(s), [PGNext]_pgVars
    PROVE  AloneInv(s)'
<1>1. s \in Sessions
  OBVIOUS
<1>2. CASE UNCHANGED pgVars
  <2>1. UNCHANGED << vars, rows, pc, image, turn >>
    BY <1>2 DEF pgVars, dbVars
  <2>2. MemoryStands'
    BY <2>1, MemoryStays DEF AloneInv
  <2>3. \A t : Content(t)' = Content(t)
    BY <2>1, ContentStays
  <2>4. CommittedRows' /\ ImageStands(s)' /\ NeverWaits(s)'
    BY <2>1, <2>3 DEF AloneInv, CommittedRows, ImageStands, NeverWaits
  <2>5. Stands(s)'
    BY <2>1, <2>3 DEF AloneInv, Stands, Gone, New
  <2> QED BY <2>2, <2>4, <2>5 DEF AloneInv
<1>3. CASE LoadNodes(s) \/ LoadWorkloads(s) \/ LoadEvents(s)
  BY <1>1, <1>3, LoadsKeep
<1>4. CASE PGSeedDemoData(s) \/ PGClear(s) \/ AddEvent(s)
  BY <1>1, <1>4, ReplaceKeeps
<1>5. CASE Enter(s)
  BY <1>1, <1>5, EnterKeeps
<1>6. CASE Operate(s) \/ OperatePass(s)
  BY <1>1, <1>6, OperationKeeps
<1>7. CASE Leave(s)
  BY <1>1, <1>7, LeaveKeeps
<1>8. CASE DeleteAll(s)
  BY <1>1, <1>8, DeleteKeeps
<1>9. CASE DeleteRest(s)
  BY <1>9, OrderFacts DEF DeleteRest, AloneInv, NeverWaits
<1>10. CASE InsertAll(s)
  BY <1>1, <1>10, InsertKeeps
<1>11. CASE DuplicateKey(s) \/ DeadlockVictim(s)
  <2>1. End(s, FALSE) /\ UNCHANGED << vars, turn >>
    BY <1>11 DEF DuplicateKey, DeadlockVictim
  <2> QED BY <1>1, <2>1, RollbackKeeps
<1>12. CASE Commit(s)
  BY <1>1, <1>12, CommitKeeps
<1>13. CASE Rollback(s)
  <2>1. End(s, FALSE) /\ (ForgetMemory \/ UNCHANGED << vars, turn >>)
    BY <1>13 DEF Rollback
  <2> QED BY <1>1, <2>1, RollbackKeeps
<1> QED BY <1>1, <1>2, <1>3, <1>4, <1>5, <1>6, <1>7, <1>8, <1>9, <1>10, <1>11, <1>12, <1>13
        DEF PGNext, Statement

\* A reader of sound rows sees what MemoryStore promises.
LEMMA ReadersSee == ASSUME CommittedRows PROVE CommittedSound
<1>1. Sound([w \in WorkloadIds |-> IF Seen(w) THEN Workloads_[w].state ELSE "absent"],
            [w \in WorkloadIds |-> IF Seen(w) THEN Workloads_[w].req ELSE NoRequest],
            [w \in WorkloadIds |-> IF Seen(w) THEN Workloads_[w].hosts ELSE {}],
            [n \in NodeIds |-> IF SeenNode(n) THEN Nodes_[n].health ELSE "absent"],
            [n \in NodeIds |-> IF SeenNode(n) THEN Nodes_[n].alloc ELSE 0],
            [n \in NodeIds |-> IF SeenNode(n) THEN Nodes_[n].running ELSE {}])
  BY FilledIsSound DEF CommittedRows, Seen, SeenNode, Nodes_, Workloads_
<1>5. \A S : DB!Cardinality(S) = Cardinality(S)
  BY DEF DB!Cardinality, Cardinality
<1>2. DB!PlacementConsistent
  BY <1>1, <1>5 DEF Sound, RowReplicas, DB!PlacementConsistent, DB!HostedOn, DB!Replicas,
              AtLeast, DB!AtLeast
<1>3. DB!PolicyRespected
  BY <1>1 DEF Sound, DB!PolicyRespected, SpotCompatible, DB!SpotCompatible
<1>4. DB!AllocationAccounted
  BY <1>1, <1>5 DEF Sound, DB!AllocationAccounted, DB!GPUsOf, DB!HostedOn, GPUs, Slots,
              DB!GPUs, DB!Slots
<1> QED BY <1>2, <1>3, <1>4 DEF CommittedSound

\* With transactions one at a time, the committed rows are at every moment a
\* state that MemoryStore promises, whatever statement fails and wherever the
\* process crashes: the tables change together, at the commit.
THEOREM CommittedRowsSound ==
    ASSUME NEW s, Sessions = {s}
    PROVE  PGSpec => []CommittedSound
<1>1. PGInit => PGInv /\ AloneInv(s)
  BY PGInitInv, AloneInit
<1>2. PGInv /\ AloneInv(s) /\ [PGNext]_pgVars => (PGInv /\ AloneInv(s))'
  BY PGInvKept, AloneKept
<1>3. PGInv /\ AloneInv(s) => CommittedSound
  BY ReadersSee DEF AloneInv
<1> QED BY <1>1, <1>2, <1>3, PTL DEF PGSpec
------------------------------------------------------------------------------
(* What readers see, for any number of sessions *)

\* The committed versions; ContentOf is what a reader sees of them.
Open(R) == {r \in R : r.by = NoSession}

LEMMA ContentShows == \A t : Content(t) = ContentOf(rows[t])
<1> QED BY DEF Content, Committed, ContentOf

LEMMA ContentShowsNext == \A t : Content(t)' = ContentOf(rows'[t])
<1> QED BY DEF Content, Committed, ContentOf

\* r is inserted in the place of q by the transaction that deletes q.
Replaces(r, q) == r.by # NoSession /\ q.gone = r.by

\* The keys of a table: of two versions of a key, one is inserted by the
\* session that deletes the other.  I are the sessions that have inserted
\* their rows, m what these rows are.
Keyed(R) ==
    \A r \in R, q \in R : r.key = q.key => r = q \/ Replaces(r, q) \/ Replaces(q, r)
Owned(R, I, m) ==
    \A r \in R : r.by # NoSession =>
        /\ r.by \in I /\ r.gone = NoSession /\ r.seen = {}
        /\ r.key \in DOMAIN m[r.by] /\ r.data = m[r.by][r.key]
Inserts(R, I, m) ==
    \A s \in I : \A k \in DOMAIN m[s] : \E r \in R : r.by = s /\ r.key = k
TableInv(R, I, m) ==
    (\A r \in R : IsVersion(r)) /\ Keyed(R) /\ Owned(R, I, m) /\ Inserts(R, I, m)

LEMMA ShownAt ==
    ASSUME NEW R, Keyed(R), NEW r \in Open(R)
    PROVE  r.key \in DOMAIN ContentOf(R) /\ ContentOf(R)[r.key] = r.data
<1> DEFINE q == CHOOSE q \in Open(R) : q.key = r.key
<1>1. q \in Open(R) /\ q.key = r.key
  OBVIOUS
<1>2. q = r
  BY <1>1 DEF Keyed, Open, Replaces
<1> QED BY <1>1, <1>2 DEF ContentOf, Open

LEMMA ShownFrom ==
    ASSUME NEW R, NEW k \in DOMAIN ContentOf(R)
    PROVE  \E r \in Open(R) : r.key = k
<1> QED BY DEF ContentOf, Open

\* Two sets of versions with the same committed rows show the same.
LEMMA ShownSame ==
    ASSUME NEW R, NEW S, Keyed(R), Keyed(S),
           \A r \in Open(R) : \E q \in Open(S) : q.key = r.key /\ q.data = r.data,
           \A q \in Open(S) : \E r \in Open(R) : q.key = r.key /\ q.data = r.data
    PROVE  ContentOf(R) = ContentOf(S)
<1>1. DOMAIN ContentOf(R) = DOMAIN ContentOf(S)
  BY DEF ContentOf, Open
<1>2. ASSUME NEW k \in DOMAIN ContentOf(R) PROVE ContentOf(R)[k] = ContentOf(S)[k]
  <2>1. PICK r \in Open(R) : r.key = k
    BY <1>2, ShownFrom
  <2>2. PICK q \in Open(S) : q.key = r.key /\ q.data = r.data
    OBVIOUS
  <2>3. ContentOf(R)[k] = r.data /\ ContentOf(S)[k] = q.data
    BY <2>1, <2>2, ShownAt
  <2> QED BY <2>2, <2>3
<1>3. /\ ContentOf(R) = [k \in DOMAIN ContentOf(R) |-> ContentOf(R)[k]]
      /\ ContentOf(S) = [k \in DOMAIN ContentOf(S) |-> ContentOf(S)[k]]
  BY DEF ContentOf
<1> QED BY <1>1, <1>2, <1>3

\* A statement that marks committed versions: f(r) is what becomes of r.
Marks(f, R) ==
    \A r \in R :
        /\ IsVersion(f[r]) /\ f[r].key = r.key /\ f[r].data = r.data /\ f[r].by = r.by
        /\ r.by # NoSession => f[r] = r
        /\ r.gone # NoSession => f[r].gone = r.gone

LEMMA MarkedTable ==
    ASSUME NEW R, NEW I, NEW m, TableInv(R, I, m), NEW f, Marks(f, R),
           NEW S, S = {f[r] : r \in R}
    PROVE  TableInv(S, I, m) /\ ContentOf(S) = ContentOf(R)
<1>1. \A r \in S : IsVersion(r)
  BY DEF Marks
<1>2. Keyed(S)
  <2> SUFFICES ASSUME NEW r \in R, NEW q \in R, f[r].key = f[q].key
               PROVE  f[r] = f[q] \/ Replaces(f[r], f[q]) \/ Replaces(f[q], f[r])
    BY DEF Keyed
  <2>1. r = q \/ Replaces(r, q) \/ Replaces(q, r)
    BY DEF Marks, TableInv, Keyed
  <2> QED BY <2>1 DEF Marks, Replaces
<1>3. Owned(S, I, m)
  BY DEF Marks, TableInv, Owned
<1>4. Inserts(S, I, m)
  <2> SUFFICES ASSUME NEW s \in I, NEW k \in DOMAIN m[s] PROVE \E r \in S : r.by = s /\ r.key = k
    BY DEF Inserts
  <2>1. PICK r \in R : r.by = s /\ r.key = k
    BY DEF TableInv, Inserts
  <2> QED BY <2>1 DEF Marks
<1>5. ContentOf(S) = ContentOf(R)
  <2>1. \A r \in Open(R) : f[r] \in Open(S) /\ f[r].key = r.key /\ f[r].data = r.data
    BY DEF Marks, Open
  <2>2. \A q \in Open(S) : \E r \in Open(R) : q.key = r.key /\ q.data = r.data
    BY DEF Marks, Open
  <2> QED BY <1>2, <2>1, <2>2, ShownSame DEF TableInv
<1> QED BY <1>1, <1>2, <1>3, <1>4, <1>5 DEF TableInv

\* The versions R and those of the rows f that s inserts.
WithInserted(R, f, s) == R \cup {Version(k, f[k], s) : k \in DOMAIN f}

\* Rows that are inserted where every version of a key is deleted by s itself.
LEMMA InsertedTable ==
    ASSUME NEW R, NEW I \in SUBSET Sessions, NEW m, TableInv(R, I, m),
           NEW s \in Sessions \ I,
           \A r \in R : r.key \in DOMAIN m[s] => r.gone = s
    PROVE  /\ TableInv(WithInserted(R, m[s], s), I \cup {s}, m)
           /\ ContentOf(WithInserted(R, m[s], s)) = ContentOf(R)
<1> DEFINE v(k) == Version(k, m[s][k], s)
           S    == WithInserted(R, m[s], s)
<1>1. ASSUME NEW k \in DOMAIN m[s]
      PROVE  /\ IsVersion(v(k)) /\ v(k).key = k /\ v(k).data = m[s][k]
             /\ v(k).by = s /\ v(k).gone = NoSession /\ v(k).seen = {}
  BY VersionIs DEF Version, Who
<1>2. s # NoSession
  BY NoSessionAssumption
<1>3. \A r \in S : r \in R \/ \E k \in DOMAIN m[s] : r = v(k)
  BY DEF WithInserted
<1>4. R \subseteq S /\ \A k \in DOMAIN m[s] : v(k) \in S
  BY DEF WithInserted
<1> HIDE DEF v, S
<1>5. \A r \in S : IsVersion(r)
  BY <1>1, <1>3 DEF TableInv
<1>6. Keyed(S)
  <2> SUFFICES ASSUME NEW r \in S, NEW q \in S, r.key = q.key
               PROVE  r = q \/ Replaces(r, q) \/ Replaces(q, r)
    BY DEF Keyed
  <2>1. CASE r \in R /\ q \in R
    BY <2>1 DEF TableInv, Keyed
  <2>2. CASE r \in R /\ q \notin R
    BY <1>1, <1>2, <1>3, <2>2 DEF Replaces
  <2>3. CASE r \notin R /\ q \in R
    BY <1>1, <1>2, <1>3, <2>3 DEF Replaces
  <2>4. CASE r \notin R /\ q \notin R
    BY <1>1, <1>3, <2>4
  <2> QED BY <2>1, <2>2, <2>3, <2>4
<1>7. Owned(S, I \cup {s}, m)
  <2> SUFFICES ASSUME NEW r \in S, r.by # NoSession
               PROVE  /\ r.by \in I \cup {s} /\ r.gone = NoSession /\ r.seen = {}
                      /\ r.key \in DOMAIN m[r.by] /\ r.data = m[r.by][r.key]
    BY DEF Owned
  <2>1. CASE r \in R
    BY <2>1 DEF TableInv, Owned
  <2>2. CASE r \notin R
    BY <1>1, <1>3, <2>2
  <2> QED BY <2>1, <2>2
<1>8. Inserts(S, I \cup {s}, m)
  <2> SUFFICES ASSUME NEW x \in I \cup {s}, NEW k \in DOMAIN m[x]
               PROVE  \E r \in S : r.by = x /\ r.key = k
    BY DEF Inserts
  <2>1. CASE x = s
    BY <1>1, <1>4, <2>1
  <2>2. CASE x \in I
    BY <1>4, <2>2 DEF TableInv, Inserts
  <2> QED BY <2>1, <2>2
<1>9. Open(S) = Open(R)
  BY <1>1, <1>2, <1>3, <1>4 DEF Open
<1>10. ContentOf(S) = ContentOf(R)
  <2>1. Keyed(R) /\ \A r \in Open(R) : \E q \in Open(S) : q.key = r.key /\ q.data = r.data
    BY <1>9 DEF TableInv
  <2>2. \A q \in Open(S) : \E r \in Open(R) : q.key = r.key /\ q.data = r.data
    BY <1>9
  <2> QED BY <1>6, <2>1, <2>2, ShownSame
<1> QED BY <1>5, <1>6, <1>7, <1>8, <1>10 DEF TableInv, S

\* A version when s has ended.
Over(r, s) == [r EXCEPT !.by = IF @ = s THEN NoSession ELSE @,
                        !.gone = IF @ = s THEN NoSession ELSE @,
                        !.seen = @ \ {s}]

LEMMA OverFields ==
    ASSUME NEW r, IsVersion(r), NEW s \in Sessions
    PROVE  /\ IsVersion(Over(r, s))
           /\ Over(r, s).key = r.key /\ Over(r, s).data = r.data
           /\ Over(r, s).by = IF r.by = s THEN NoSession ELSE r.by
           /\ Over(r, s).gone = IF r.gone = s THEN NoSession ELSE r.gone
           /\ Over(r, s).seen = r.seen \ {s}
<1> QED BY VersionEdits DEF Over, IsVersion

\* What is left of the versions R when s ends.
AfterRollback(R, s) == {Over(r, s) : r \in {v \in R : v.by # s}}
AfterCommit(R, s)   == {Over(r, s) : r \in {v \in R : v.gone # s}}

\* A transaction that ends leaves the keys in order: R is what is left of the
\* table, without what it inserted or without what it deleted.
LEMMA EndedTable ==
    ASSUME NEW R, NEW I \in SUBSET Sessions, NEW m, TableInv(R, I, m), NEW s \in Sessions,
           NEW Rest \in SUBSET R,
           (\A r \in Rest : r.by # s) \/ (\A r \in Rest : r.gone # s),
           \A r \in R : r.by \notin {NoSession, s} => r \in Rest,
           NEW S, S = {Over(r, s) : r \in Rest}
    PROVE  TableInv(S, I \ {s}, m)
<1>1. \A r \in Rest : /\ IsVersion(Over(r, s))
                      /\ Over(r, s).key = r.key /\ Over(r, s).data = r.data
                      /\ Over(r, s).by = IF r.by = s THEN NoSession ELSE r.by
                      /\ Over(r, s).gone = IF r.gone = s THEN NoSession ELSE r.gone
                      /\ Over(r, s).seen = r.seen \ {s}
  BY OverFields DEF TableInv
<1>2. s # NoSession
  BY NoSessionAssumption
<1>3. \A r \in S : IsVersion(r)
  BY <1>1
<1>4. Keyed(S)
  <2> SUFFICES ASSUME NEW r \in Rest, NEW q \in Rest, Over(r, s).key = Over(q, s).key
               PROVE  \/ Over(r, s) = Over(q, s)
                      \/ Replaces(Over(r, s), Over(q, s))
                      \/ Replaces(Over(q, s), Over(r, s))
    BY DEF Keyed
  <2>1. r = q \/ Replaces(r, q) \/ Replaces(q, r)
    BY <1>1 DEF TableInv, Keyed
  <2>2. CASE Replaces(r, q)
    BY <1>1, <1>2, <2>2 DEF Replaces
  <2>3. CASE Replaces(q, r)
    BY <1>1, <1>2, <2>3 DEF Replaces
  <2> QED BY <2>1, <2>2, <2>3
<1>5. Owned(S, I \ {s}, m)
  <2> SUFFICES ASSUME NEW r \in Rest, Over(r, s).by # NoSession
               PROVE  /\ Over(r, s).by \in I \ {s} /\ Over(r, s).gone = NoSession
                      /\ Over(r, s).seen = {}
                      /\ Over(r, s).key \in DOMAIN m[Over(r, s).by]
                      /\ Over(r, s).data = m[Over(r, s).by][Over(r, s).key]
    BY DEF Owned
  <2>1. r.by # s /\ Over(r, s).by = r.by /\ r.by # NoSession
    BY <1>1
  <2>2. /\ r.by \in I /\ r.gone = NoSession /\ r.seen = {}
        /\ r.key \in DOMAIN m[r.by] /\ r.data = m[r.by][r.key]
    BY <2>1 DEF TableInv, Owned
  <2> QED BY <1>1, <1>2, <2>1, <2>2
<1>6. Inserts(S, I \ {s}, m)
  <2> SUFFICES ASSUME NEW x \in I \ {s}, NEW k \in DOMAIN m[x]
               PROVE  \E r \in Rest : Over(r, s).by = x /\ Over(r, s).key = k
    BY DEF Inserts
  <2>1. PICK r \in R : r.by = x /\ r.key = k
    BY DEF TableInv, Inserts
  <2>2. r \in Rest /\ r.by # s
    BY <2>1, NoSessionAssumption
  <2>3. Over(r, s).by = x /\ Over(r, s).key = k
    BY <1>1, <2>1, <2>2
  <2> QED BY <2>2, <2>3
<1> QED BY <1>3, <1>4, <1>5, <1>6 DEF TableInv

\* A rollback shows what was shown before.
LEMMA RolledBackTable ==
    ASSUME NEW R, NEW I \in SUBSET Sessions, NEW m, TableInv(R, I, m), NEW s \in Sessions
    PROVE  /\ TableInv(AfterRollback(R, s), I \ {s}, m)
           /\ ContentOf(AfterRollback(R, s)) = ContentOf(R)
<1> DEFINE Rest == {v \in R : v.by # s}
           S == {Over(r, s) : r \in Rest}
<1>1. TableInv(S, I \ {s}, m)
  BY EndedTable
<1>2. \A r \in Rest : /\ Over(r, s).key = r.key /\ Over(r, s).data = r.data
                      /\ Over(r, s).by = r.by
  BY OverFields DEF TableInv
<1>3. s # NoSession
  BY NoSessionAssumption
<1>4. \A r \in Open(R) : Over(r, s) \in Open(S) /\ Over(r, s).key = r.key /\ Over(r, s).data = r.data
  BY <1>2, <1>3 DEF Open
<1>5. \A q \in Open(S) : \E r \in Open(R) : q.key = r.key /\ q.data = r.data
  BY <1>2, <1>3 DEF Open
<1>6. Keyed(R) /\ Keyed(S)
  BY <1>1 DEF TableInv
<1>7. S = AfterRollback(R, s)
  BY DEF AfterRollback
<1> HIDE DEF S
<1>8. ContentOf(S) = ContentOf(R)
  BY <1>4, <1>5, <1>6, ShownSame
<1> QED BY <1>1, <1>7, <1>8

\* The table C shows the rows f, and of others some that B has shown.
ShowsRows(C, f, B) ==
    /\ \A k \in DOMAIN f : k \in DOMAIN C /\ C[k] = f[k]
    /\ \A k \in DOMAIN C \ DOMAIN f : k \in DOMAIN B /\ C[k] = B[k]

\* A commit shows the rows that it has inserted, and of the others some that
\* were shown before.
LEMMA CommittedTable ==
    ASSUME NEW R, NEW I \in SUBSET Sessions, NEW m, TableInv(R, I, m), NEW s \in I
    PROVE  /\ TableInv(AfterCommit(R, s), I \ {s}, m)
           /\ ShowsRows(ContentOf(AfterCommit(R, s)), m[s], ContentOf(R))
<1> DEFINE Rest == {v \in R : v.gone # s}
           S == {Over(r, s) : r \in Rest}
<1>1. s \in Sessions /\ s # NoSession
  BY NoSessionAssumption
<1>2. \A r \in R : r.by \notin {NoSession, s} => r \in Rest
  BY <1>1 DEF TableInv, Owned
<1>3. TableInv(S, I \ {s}, m)
  BY <1>1, <1>2, EndedTable
<1>4. \A r \in Rest : /\ Over(r, s).key = r.key /\ Over(r, s).data = r.data
                      /\ Over(r, s).by = IF r.by = s THEN NoSession ELSE r.by
  BY <1>1, OverFields DEF TableInv
<1>5. Keyed(R) /\ Keyed(S)
  BY <1>3 DEF TableInv
<1>6. ASSUME NEW k \in DOMAIN m[s]
      PROVE  k \in DOMAIN ContentOf(S) /\ ContentOf(S)[k] = m[s][k]
  <2>1. PICK r \in R : r.by = s /\ r.key = k
    BY DEF TableInv, Inserts
  <2>2. r.gone = NoSession /\ r.data = m[s][k]
    BY <1>1, <2>1 DEF TableInv, Owned
  <2>3. Over(r, s) \in Open(S) /\ Over(r, s).key = k /\ Over(r, s).data = m[s][k]
    BY <1>1, <1>4, <2>1, <2>2 DEF Open
  <2> QED BY <1>5, <2>3, ShownAt
<1>7. ASSUME NEW k \in DOMAIN ContentOf(S), k \notin DOMAIN m[s]
      PROVE  k \in DOMAIN ContentOf(R) /\ ContentOf(S)[k] = ContentOf(R)[k]
  <2>1. PICK q \in Open(S) : q.key = k
    BY ShownFrom
  <2>2. PICK r \in Rest : q = Over(r, s)
    BY <2>1 DEF Open
  <2>3. r.key = k /\ r.data = q.data
    BY <1>4, <2>1, <2>2
  <2>4. r.by # s
    BY <1>1, <1>7, <2>3 DEF TableInv, Owned
  <2>5. r \in Open(R)
    BY <1>4, <2>1, <2>2, <2>4 DEF Open
  <2> QED BY <1>5, <2>1, <2>3, <2>5, ShownAt
<1>8. S = AfterCommit(R, s)
  BY DEF AfterCommit
<1> HIDE DEF S
<1> QED BY <1>3, <1>6, <1>7, <1>8 DEF ShowsRows
\* The sessions that have inserted table t, and the rows they compute for it.
InsertedIn(t) == {x \in Sessions : t \in New(pc[x])}
Images(t)     == [x \in Sessions |-> image[x][t]]

KeyInv == \A t \in Tables : TableInv(rows[t], InsertedIn(t), Images(t))

\* Nothing is inserted before the deletes are done.
LEMMA NothingNew ==
    /\ \A p : Early(p) => New(p) = {}
    /\ \A i \in 1 .. 3 : /\ New(<< "delete", i >>) = {} /\ New(<< "wait", i >>) = {}
                         /\ New(AfterDelete(i)) = {}
<1> QED BY StageFacts DEF New

LEMMA EarlyStages ==
    /\ Early(Idle) /\ Early(<< "delete", 1 >>)
    /\ \A g \in {"idle", "loadWorkloads", "loadEvents", "apply", "operate", "leave"} : Early(At(g))
<1> QED BY DEF Early, Idle

\* What is known of a table depends only on the sessions that have inserted it.
LEMMA SameOwners ==
    ASSUME NEW R, NEW I, NEW J, NEW m, NEW n, TableInv(R, I, m), J = I,
           \A x \in I : m[x] = n[x]
    PROVE  TableInv(R, J, n)
<1> QED BY DEF TableInv, Owned, Inserts

\* Only s moves to another statement.
LEMMA OthersStay ==
    ASSUME PcOK, NEW s \in Sessions, NEW p, pc' = [pc EXCEPT ![s] = p], NEW t
    PROVE  InsertedIn(t)' = (InsertedIn(t) \ {s}) \cup (IF t \in New(p) THEN {s} ELSE {})
<1>1. \A x \in Sessions : pc'[x] = IF x = s THEN p ELSE pc[x]
  BY DEF PcOK
<1>2. InsertedIn(t)' = {x \in Sessions : t \in New(pc'[x])}
  BY DEF InsertedIn, New
<1> QED BY <1>1, <1>2 DEF InsertedIn

\* A step of a session that inserts nothing and ends nothing, with what it
\* marks in a table: the readers see what they have seen.
LEMMA QuietTable ==
    ASSUME PcOK, KeyInv, NEW s \in Sessions, NEW p, pc' = [pc EXCEPT ![s] = p],
           New(pc[s]) = {}, New(p) = {}, \A x \in Sessions \ {s} : image'[x] = image[x],
           NEW t \in Tables, NEW f, Marks(f, rows[t]), rows'[t] = {f[r] : r \in rows[t]}
    PROVE  TableInv(rows'[t], InsertedIn(t)', Images(t)') /\ Content(t)' = Content(t)
<1>1. TableInv(rows[t], InsertedIn(t), Images(t))
  BY DEF KeyInv
<1>2. TableInv(rows'[t], InsertedIn(t), Images(t)) /\ ContentOf(rows'[t]) = ContentOf(rows[t])
  BY <1>1, MarkedTable
<1>3. s \notin InsertedIn(t)
  BY DEF InsertedIn
<1>4. InsertedIn(t)' = InsertedIn(t)
  <2>1. InsertedIn(t)' = (InsertedIn(t) \ {s}) \cup (IF t \in New(p) THEN {s} ELSE {})
    BY OthersStay
  <2> QED BY <1>3, <2>1
<1>5. \A x \in InsertedIn(t) : Images(t)[x] = Images(t)'[x]
  BY <1>3 DEF InsertedIn, Images
<1>6. TableInv(rows'[t], InsertedIn(t)', Images(t)')
  BY <1>2, <1>4, <1>5, SameOwners
<1> QED BY <1>2, <1>6, ContentShows, ContentShowsNext

\* A table in which nothing is marked.
LEMMA Unmarked ==
    ASSUME KeyInv, NEW t \in Tables
    PROVE  \E f : Marks(f, rows[t]) /\ rows[t] = {f[r] : r \in rows[t]}
<1> DEFINE f == [r \in rows[t] |-> r]
<1>1. Marks(f, rows[t])
  BY DEF KeyInv, TableInv, Marks
<1>2. rows[t] = {f[r] : r \in rows[t]}
  OBVIOUS
<1> QED BY <1>1, <1>2

LEMMA QuietStep ==
    ASSUME PcOK, KeyInv, NEW s \in Sessions, NEW p, pc' = [pc EXCEPT ![s] = p],
           New(pc[s]) = {}, New(p) = {}, \A x \in Sessions \ {s} : image'[x] = image[x],
           UNCHANGED rows
    PROVE  KeyInv' /\ \A t \in Tables : Content(t)' = Content(t)
<1>1. ASSUME NEW t \in Tables
      PROVE  TableInv(rows'[t], InsertedIn(t)', Images(t)') /\ Content(t)' = Content(t)
  <2>1. PICK f : Marks(f, rows[t]) /\ rows[t] = {f[r] : r \in rows[t]}
    BY Unmarked
  <2> QED BY <2>1, QuietTable
<1> QED BY <1>1 DEF KeyInv

\* e edits the versions V, which are committed, and keeps who deleted them.
Edits(e, V) ==
    \A r \in V : /\ IsVersion(e[r]) /\ e[r].key = r.key /\ e[r].data = r.data
                 /\ e[r].by = r.by /\ r.by = NoSession
                 /\ r.gone # NoSession => e[r].gone = r.gone

\* A statement that edits the versions V of table u, which are committed.
LEMMA MarkingStep ==
    ASSUME RowsOK, PcOK, KeyInv, NEW s \in Sessions, NEW p, pc' = [pc EXCEPT ![s] = p],
           New(pc[s]) = {}, New(p) = {}, UNCHANGED image,
           NEW u \in Tables, NEW V \in SUBSET rows[u], NEW e,
           Edits(e, V),
           rows' = [rows EXCEPT ![u] = (@ \ V) \cup {e[r] : r \in V}]
    PROVE  KeyInv' /\ \A t \in Tables : Content(t)' = Content(t)
<1>1. ASSUME NEW t \in Tables
      PROVE  TableInv(rows'[t], InsertedIn(t)', Images(t)') /\ Content(t)' = Content(t)
  <2>1. \E f : Marks(f, rows[t]) /\ rows'[t] = {f[r] : r \in rows[t]}
    <3>1. CASE t = u
      <4> DEFINE f == [r \in rows[t] |-> IF r \in V THEN e[r] ELSE r]
      <4>1. Marks(f, rows[t])
        BY <3>1 DEF Marks, RowsOK, Edits
      <4>2. rows'[t] = (rows[t] \ V) \cup {e[r] : r \in V}
        BY <3>1 DEF RowsOK
      <4>3. \A r \in rows[t] : f[r] = IF r \in V THEN e[r] ELSE r
        OBVIOUS
      <4> HIDE DEF f
      <4>4. rows'[t] = {f[r] : r \in rows[t]}
        BY <3>1, <4>2, <4>3
      <4> QED BY <4>1, <4>4
    <3>2. CASE t # u
      <4>1. rows'[t] = rows[t]
        BY <3>2 DEF RowsOK
      <4> QED BY <4>1, Unmarked
    <3> QED BY <3>1, <3>2
  <2>2. PICK f : Marks(f, rows[t]) /\ rows'[t] = {f[r] : r \in rows[t]}
    BY <2>1
  <2> QED BY <2>2, QuietTable
<1> QED BY <1>1 DEF KeyInv

\* What the two edits of a DELETE leave in a version.
LEMMA EditFields ==
    ASSUME NEW r, IsVersion(r), NEW s \in Sessions
    PROVE  LET a == [r EXCEPT !.gone = s, !.seen = @ \ {s}]
               b == [r EXCEPT !.seen = @ \cup {s}]
           IN  /\ IsVersion(a) /\ a.key = r.key /\ a.data = r.data /\ a.by = r.by
               /\ IsVersion(b) /\ b.key = r.key /\ b.data = r.data /\ b.by = r.by
               /\ b.gone = r.gone
<1> QED BY VersionEdits DEF IsVersion

\* A session deletes versions that are committed and nobody has deleted.
LEMMA DeletingStep ==
    ASSUME RowsOK, PcOK, KeyInv, NEW s \in Sessions, NEW p, pc' = [pc EXCEPT ![s] = p],
           New(pc[s]) = {}, New(p) = {}, UNCHANGED image,
           NEW u \in Tables, NEW V \in SUBSET rows[u], MarkDeleted(u, V, s),
           \A r \in V : r.by = NoSession /\ r.gone = NoSession
    PROVE  KeyInv' /\ \A t \in Tables : Content(t)' = Content(t)
<1> DEFINE e == [r \in V |-> [r EXCEPT !.gone = s, !.seen = @ \ {s}]]
<1>1. Edits(e, V)
  BY EditFields DEF RowsOK, Edits
<1>2. rows' = [rows EXCEPT ![u] = (@ \ V) \cup {e[r] : r \in V}]
  BY DEF MarkDeleted
<1> HIDE DEF e
<1> QED BY <1>1, <1>2, MarkingStep

\* A session waits, with the versions V in its snapshot.
LEMMA WaitingStep ==
    ASSUME RowsOK, PcOK, KeyInv, NEW s \in Sessions, NEW p, pc' = [pc EXCEPT ![s] = p],
           New(pc[s]) = {}, New(p) = {}, UNCHANGED image,
           NEW u \in Tables, NEW V \in SUBSET rows[u], \A r \in V : r.by = NoSession,
           rows' = [rows EXCEPT ![u] = (@ \ V) \cup {[r EXCEPT !.seen = @ \cup {s}] : r \in V}]
    PROVE  KeyInv' /\ \A t \in Tables : Content(t)' = Content(t)
<1> DEFINE e == [r \in V |-> [r EXCEPT !.seen = @ \cup {s}]]
<1>1. Edits(e, V)
  BY EditFields DEF RowsOK, Edits
<1>2. rows' = [rows EXCEPT ![u] = (@ \ V) \cup {e[r] : r \in V}]
  OBVIOUS
<1> HIDE DEF e
<1> QED BY <1>1, <1>2, MarkingStep

LEMMA DeleteAllShows ==
    ASSUME PGInv, KeyInv, NEW s \in Sessions, DeleteAll(s) \/ DeleteRest(s)
    PROVE  KeyInv' /\ \A t \in Tables : Content(t)' = Content(t)
<1> USE DEF PGInv
<1>1. CASE DeleteAll(s)
  <2>1. PICK i \in 1 .. 3 :
           LET t == DeleteOrder[i]
               V == Committed(t)
           IN  /\ pc[s] = << "delete", i >>
               /\ \/ /\ MarkDeleted(t, V, s) /\ pc' = [pc EXCEPT ![s] = AfterDelete(i)]
                     /\ \A r \in V : r.gone = NoSession
                  \/ /\ rows' = [rows EXCEPT ![t] =
                           (@ \ V) \cup {[r EXCEPT !.seen = @ \cup {s}] : r \in V}]
                     /\ pc' = [pc EXCEPT ![s] = << "wait", i >>]
               /\ UNCHANGED image
    BY <1>1, OrderFacts DEF DeleteAll
  <2> DEFINE t == DeleteOrder[i]
             V == Committed(t)
  <2>2. t \in Tables /\ V \in SUBSET rows[t] /\ \A r \in V : r.by = NoSession
    BY OrderFacts DEF Committed
  <2>3. New(pc[s]) = {} /\ New(AfterDelete(i)) = {} /\ New(<< "wait", i >>) = {}
    BY <2>1, NothingNew
  <2>4. CASE /\ MarkDeleted(t, V, s) /\ pc' = [pc EXCEPT ![s] = AfterDelete(i)]
             /\ \A r \in V : r.gone = NoSession
    <3> HIDE DEF t, V
    <3> QED BY <2>1, <2>2, <2>3, <2>4, DeletingStep
  <2>5. CASE /\ rows' = [rows EXCEPT ![t] =
                    (@ \ V) \cup {[r EXCEPT !.seen = @ \cup {s}] : r \in V}]
             /\ pc' = [pc EXCEPT ![s] = << "wait", i >>]
    <3> HIDE DEF t, V
    <3> QED BY <2>1, <2>2, <2>3, <2>5, WaitingStep
  <2> QED BY <2>1, <2>4, <2>5
<1>2. CASE DeleteRest(s)
  <2>1. PICK i \in 1 .. 3 :
           LET t == DeleteOrder[i]
               V == {r \in rows[t] : s \in r.seen}
           IN  /\ pc[s] = << "wait", i >> /\ \A r \in V : r.gone = NoSession
               /\ MarkDeleted(t, V, s)
               /\ pc' = [pc EXCEPT ![s] = AfterDelete(i)]
               /\ UNCHANGED image
    BY <1>2, OrderFacts DEF DeleteRest
  <2> DEFINE t == DeleteOrder[i]
             V == {r \in rows[t] : s \in r.seen}
  <2>2. t \in Tables /\ V \in SUBSET rows[t]
    BY OrderFacts
  <2>3. \A r \in V : r.by = NoSession
    BY <2>2 DEF KeyInv, TableInv, Owned
  <2>4. New(pc[s]) = {} /\ New(AfterDelete(i)) = {}
    BY <2>1, NothingNew
  <2>5. (\A r \in V : r.gone = NoSession) /\ MarkDeleted(t, V, s)
    BY <2>1
  <2> HIDE DEF t, V
  <2> QED BY <2>1, <2>2, <2>3, <2>4, <2>5, DeletingStep
<1> QED BY <1>1, <1>2

LEMMA InsertAllShows ==
    ASSUME PGInv, KeyInv, NEW s \in Sessions, InsertAll(s)
    PROVE  KeyInv' /\ \A t \in Tables : Content(t)' = Content(t)
<1> USE DEF PGInv
<1>1. PICK i \in 1 .. 3 :
         LET t == InsertOrder[i]
         IN  /\ pc[s] = << "insert", i >>
             /\ Insertable(s, t) # {} \/ DOMAIN image[s][t] = {}
             /\ rows' = [rows EXCEPT ![t] =
                   @ \cup {Version(k, image[s][t][k], s) : k \in Insertable(s, t)}]
             /\ pc' = [pc EXCEPT ![s] = AfterInsert(i)]
             /\ UNCHANGED image
  BY OrderFacts DEF InsertAll
<1> DEFINE u == InsertOrder[i]
<1>2. u \in Tables
  BY OrderFacts
<1>3. /\ u \notin New(pc[s])
      /\ New(AfterInsert(i)) = New(pc[s]) \cup {u}
  BY <1>1, StageFacts
<1>4. /\ Insertable(s, u) = DOMAIN image[s][u]
      /\ \A r \in rows[u] : r.key \in DOMAIN image[s][u] => r.gone = s
  BY <1>1 DEF Insertable, InTheWay
<1>5. rows' = [rows EXCEPT ![u] =
         @ \cup {Version(k, Images(u)[s][k], s) : k \in DOMAIN Images(u)[s]}]
  BY <1>1, <1>4 DEF Images
<1>6. \A t : InsertedIn(t)' = (InsertedIn(t) \ {s}) \cup (IF t \in New(AfterInsert(i)) THEN {s} ELSE {})
  BY <1>1, OthersStay
<1>7. \A t : Images(t)' = Images(t)
  BY <1>1 DEF Images
<1> HIDE DEF u
<1>8. ASSUME NEW t \in Tables
      PROVE  TableInv(rows'[t], InsertedIn(t)', Images(t)') /\ Content(t)' = Content(t)
  <2>1. TableInv(rows[t], InsertedIn(t), Images(t))
    BY DEF KeyInv
  <2>2. CASE t = u
    <3> DEFINE S == WithInserted(rows[u], Images(u)[s], s)
    <3>1. rows'[t] = S
      BY <1>2, <1>5, <2>2 DEF RowsOK, WithInserted
    <3>2. s \in Sessions \ InsertedIn(u) /\ InsertedIn(u) \in SUBSET Sessions
      BY <1>3 DEF InsertedIn
    <3>3. \A r \in rows[u] : r.key \in DOMAIN Images(u)[s] => r.gone = s
      BY <1>4 DEF Images
    <3>4. TableInv(S, InsertedIn(u) \cup {s}, Images(u)) /\ ContentOf(S) = ContentOf(rows[u])
      <4>2. TableInv(rows[u], InsertedIn(u), Images(u))
        BY <2>1, <2>2
      <4> QED BY <3>2, <3>3, <4>2, InsertedTable
    <3> HIDE DEF S
    <3>5. InsertedIn(u)' = InsertedIn(u) \cup {s}
      <4>1. InsertedIn(u)' = (InsertedIn(u) \ {s}) \cup (IF u \in New(AfterInsert(i)) THEN {s} ELSE {})
        BY <1>6
      <4> QED BY <1>3, <4>1
    <3> QED BY <1>7, <2>2, <3>1, <3>4, <3>5, ContentShows, ContentShowsNext
  <2>3. CASE t # u
    <3>1. rows'[t] = rows[t]
      BY <1>5, <2>3 DEF RowsOK
    <3>2. InsertedIn(t)' = InsertedIn(t)
      <4>1. InsertedIn(t)' = (InsertedIn(t) \ {s}) \cup (IF t \in New(AfterInsert(i)) THEN {s} ELSE {})
        BY <1>6
      <4>2. t \in New(AfterInsert(i)) <=> s \in InsertedIn(t)
        BY <1>3, <2>3 DEF InsertedIn
      <4> QED BY <4>1, <4>2
    <3> QED BY <1>7, <2>1, <3>1, <3>2, ContentShows, ContentShowsNext
  <2> QED BY <2>2, <2>3
<1> QED BY <1>8 DEF KeyInv

\* The end of a transaction, table by table.
LEMMA EndShows ==
    ASSUME PGInv, NEW s \in Sessions, NEW c, End(s, c), NEW t \in Tables
    PROVE  /\ InsertedIn(t)' = InsertedIn(t) \ {s} /\ InsertedIn(t) \in SUBSET Sessions
           /\ \A x \in InsertedIn(t) \ {s} : Images(t)[x] = Images(t)'[x]
           /\ c = TRUE => rows'[t] = AfterCommit(rows[t], s)
           /\ c = FALSE => rows'[t] = AfterRollback(rows[t], s)
<1> USE DEF PGInv
<1>1. InsertedIn(t)' = InsertedIn(t) \ {s}
  <2>1. pc' = [pc EXCEPT ![s] = Idle] /\ New(Idle) = {}
    BY EarlyStages, NothingNew DEF End
  <2>2. InsertedIn(t)' = (InsertedIn(t) \ {s}) \cup (IF t \in New(Idle) THEN {s} ELSE {})
    BY <2>1, OthersStay
  <2> QED BY <2>1, <2>2
<1>2. \A x \in InsertedIn(t) \ {s} : Images(t)[x] = Images(t)'[x]
  BY DEF End, ImageOK, Images, InsertedIn
<1>3. /\ c = TRUE => rows'[t] = AfterCommit(rows[t], s)
      /\ c = FALSE => rows'[t] = AfterRollback(rows[t], s)
  <2>1. rows'[t] = Ended(t, s, c)
    BY DEF End
  <2>2. Ended(t, s, TRUE) = AfterCommit(rows[t], s)
    BY DEF Ended, Over, AfterCommit
  <2>3. Ended(t, s, FALSE) = AfterRollback(rows[t], s)
    BY DEF Ended, Over, AfterRollback
  <2> QED BY <2>1, <2>2, <2>3
<1> QED BY <1>1, <1>2, <1>3 DEF InsertedIn

LEMMA RollbackShows ==
    ASSUME PGInv, KeyInv, NEW s \in Sessions, End(s, FALSE)
    PROVE  KeyInv' /\ \A t \in Tables : Content(t)' = Content(t)
<1>1. ASSUME NEW t \in Tables
      PROVE  TableInv(rows'[t], InsertedIn(t)', Images(t)') /\ Content(t)' = Content(t)
  <2>1. /\ InsertedIn(t)' = InsertedIn(t) \ {s} /\ InsertedIn(t) \in SUBSET Sessions
        /\ \A x \in InsertedIn(t) \ {s} : Images(t)[x] = Images(t)'[x]
        /\ rows'[t] = AfterRollback(rows[t], s)
    BY EndShows
  <2>2. TableInv(rows[t], InsertedIn(t), Images(t))
    BY DEF KeyInv
  <2>3. /\ TableInv(rows'[t], InsertedIn(t) \ {s}, Images(t))
        /\ ContentOf(rows'[t]) = ContentOf(rows[t])
    BY <2>1, <2>2, RolledBackTable
  <2>4. TableInv(rows'[t], InsertedIn(t)', Images(t)')
    BY <2>1, <2>3, SameOwners
  <2> QED BY <2>3, <2>4, ContentShows, ContentShowsNext
<1> QED BY <1>1 DEF KeyInv

LEMMA CommitShows ==
    ASSUME PGInv, KeyInv, NEW s \in Sessions, Commit(s)
    PROVE  /\ KeyInv'
           /\ \A t \in Tables : ShowsRows(Content(t)', image[s][t], Content(t))
<1>1. ASSUME NEW t \in Tables
      PROVE  /\ TableInv(rows'[t], InsertedIn(t)', Images(t)')
             /\ ShowsRows(Content(t)', image[s][t], Content(t))
  <2>1. /\ InsertedIn(t)' = InsertedIn(t) \ {s} /\ InsertedIn(t) \in SUBSET Sessions
        /\ \A x \in InsertedIn(t) \ {s} : Images(t)[x] = Images(t)'[x]
        /\ rows'[t] = AfterCommit(rows[t], s)
    BY EndShows DEF Commit
  <2>2. TableInv(rows[t], InsertedIn(t), Images(t))
    BY DEF KeyInv
  <2>3. s \in InsertedIn(t) /\ Images(t)[s] = image[s][t]
    BY StageFacts DEF Commit, InsertedIn, Images
  <2>4. /\ TableInv(rows'[t], InsertedIn(t) \ {s}, Images(t))
        /\ ShowsRows(ContentOf(rows'[t]), Images(t)[s], ContentOf(rows[t]))
    BY <2>1, <2>2, <2>3, CommittedTable
  <2>5. TableInv(rows'[t], InsertedIn(t)', Images(t)')
    BY <2>1, <2>4, SameOwners
  <2> QED BY <2>3, <2>4, <2>5, ContentShows, ContentShowsNext
<1> QED BY <1>1 DEF KeyInv

LEMMA RowsUntouched ==
    ASSUME KeyInv, UNCHANGED << rows, pc, image >>
    PROVE  KeyInv' /\ \A t \in Tables : Content(t)' = Content(t)
<1>1. \A t : InsertedIn(t)' = InsertedIn(t)
  BY DEF InsertedIn, New
<1>2. \A t : Images(t)' = Images(t)
  BY DEF Images
<1>3. \A t : Content(t)' = Content(t)
  BY ContentShows, ContentShowsNext
<1> QED BY <1>1, <1>2, <1>3 DEF KeyInv

\* Every step keeps the keys, and what is shown unless it is a commit.
LEMMA StepShows ==
    ASSUME PGInv, KeyInv, [PGNext]_pgVars
    PROVE  /\ KeyInv'
           /\ \/ \E s \in Sessions : Commit(s)
              \/ \A t \in Tables : Content(t)' = Content(t)
<1> DEFINE Goal == KeyInv' /\ \A t \in Tables : Content(t)' = Content(t)
<1> USE DEF PGInv
<1>1. CASE UNCHANGED pgVars
  BY <1>1, RowsUntouched DEF pgVars, dbVars
<1>2. ASSUME NEW s \in Sessions, LoadNodes(s) \/ LoadWorkloads(s) \/ LoadEvents(s)
      PROVE  Goal
  <2>1. PICK g \in {"idle", "loadWorkloads", "loadEvents"}, h \in {"loadWorkloads", "loadEvents", "apply"} :
           pc[s] = At(g) /\ pc' = [pc EXCEPT ![s] = At(h)]
    BY <1>2 DEF LoadNodes, LoadWorkloads, LoadEvents, Idle
  <2>2. New(pc[s]) = {} /\ New(At(h)) = {}
    BY <2>1, EarlyStages, NothingNew
  <2>3. UNCHANGED rows /\ \A x \in Sessions \ {s} : image'[x] = image[x]
    BY <1>2 DEF LoadNodes, LoadWorkloads, LoadEvents, Load, ImageOK
  <2> QED BY <2>1, <2>2, <2>3, QuietStep
<1>3. ASSUME NEW s \in Sessions, PGSeedDemoData(s) \/ PGClear(s) \/ AddEvent(s) \/ Leave(s)
      PROVE  Goal
  <2>1. PICK g \in {"idle", "apply", "leave"} : pc[s] = At(g)
    BY <1>3 DEF PGSeedDemoData, PGClear, Replace, AddEvent, Leave, Idle
  <2>2. pc' = [pc EXCEPT ![s] = << "delete", 1 >>]
    BY <1>3 DEF PGSeedDemoData, PGClear, Replace, AddEvent, Leave
  <2>3. New(pc[s]) = {} /\ New(<< "delete", 1 >>) = {}
    BY <2>1, EarlyStages, NothingNew
  <2>4. UNCHANGED rows /\ \A x \in Sessions \ {s} : image'[x] = image[x]
    BY <1>3 DEF PGSeedDemoData, PGClear, Replace, AddEvent, Leave, ImageOK
  <2> QED BY <2>2, <2>3, <2>4, QuietStep
<1>4. ASSUME NEW s \in Sessions, Enter(s) \/ Operate(s) PROVE Goal
  <2>1. PICK g \in {"apply", "operate"}, h \in {"operate", "leave"} :
           pc[s] = At(g) /\ pc' = [pc EXCEPT ![s] = At(h)]
    BY <1>4 DEF Enter, Operate
  <2>2. New(pc[s]) = {} /\ New(At(h)) = {}
    BY <2>1, EarlyStages, NothingNew
  <2>3. UNCHANGED rows /\ \A x \in Sessions \ {s} : image'[x] = image[x]
    BY <1>4 DEF Enter, Operate
  <2> QED BY <2>1, <2>2, <2>3, QuietStep
<1>5. ASSUME NEW s \in Sessions, OperatePass(s) PROVE Goal
  BY <1>5, RowsUntouched DEF OperatePass, dbVars
<1>6. ASSUME NEW s \in Sessions, DuplicateKey(s) \/ DeadlockVictim(s) \/ Rollback(s)
      PROVE  Goal
  <2>1. End(s, FALSE)
    BY <1>6 DEF DuplicateKey, DeadlockVictim, Rollback
  <2> QED BY <2>1, RollbackShows
<1> HIDE DEF Goal
<1>7. ASSUME NEW s \in Sessions, DeleteAll(s) \/ DeleteRest(s) \/ InsertAll(s) PROVE Goal
  BY <1>7, DeleteAllShows, InsertAllShows DEF Goal
<1>8. ASSUME NEW s \in Sessions, Commit(s) PROVE KeyInv'
  BY <1>8, CommitShows
<1>9. CASE \E s \in Sessions : Commit(s)
  BY <1>8, <1>9
<1>10. CASE PGNext /\ ~ \E s \in Sessions : Commit(s)
  <2>1. Goal
    BY <1>2, <1>3, <1>4, <1>5, <1>6, <1>7, <1>10 DEF PGNext, Statement
  <2> QED BY <2>1 DEF Goal
<1> QED BY <1>1, <1>9, <1>10

\* The fixture's rows have a key each.
LEMMA KeyInit == ASSUME PGInit PROVE KeyInv
<1>1. PGInv
  BY PGInitInv
<1>2. \A t : InsertedIn(t) = {}
  BY EarlyStages, NothingNew DEF PGInit, InsertedIn
<1>3. ASSUME NEW t \in Tables PROVE TableInv(rows[t], {}, Images(t))
  <2>1. rows[t] = {Version(k, Fixture[t][k], NoSession) : k \in DOMAIN Fixture[t]}
    BY DEF PGInit
  <2>2. \A k, d : Version(k, d, NoSession).key = k /\ Version(k, d, NoSession).by = NoSession
    BY DEF Version
  <2>3. Keyed(rows[t])
    BY <2>1, <2>2 DEF Keyed
  <2>4. \A r \in rows[t] : r.by = NoSession
    BY <2>1, <2>2
  <2> QED BY <1>1, <2>3, <2>4 DEF PGInv, RowsOK, TableInv, Owned, Inserts
<1> QED BY <1>2, <1>3 DEF KeyInv

\* For any number of sessions: a SELECT returns something else only after a
\* commit.  Statements, failures, deadlocks and crashes are never seen.
THEOREM ReadersSeeCommits == PGSpec => OnlyCommitsShow
<1>1. ASSUME PGInv, KeyInv, [PGNext]_pgVars
      PROVE  [(\E t \in Tables : Content(t)' # Content(t)) => \E s \in Sessions : Commit(s)]_pgVars
  BY <1>1, StepShows
<1>2. PGInv /\ KeyInv /\ [PGNext]_pgVars => PGInv' /\ KeyInv'
  BY PGInvKept, StepShows
<1>3. PGInit => PGInv /\ KeyInv
  BY PGInitInv, KeyInit
<1> QED BY <1>1, <1>2, <1>3, PTL DEF PGSpec, OnlyCommitsShow

\* For any number of sessions: a commit shows everything the transaction has
\* computed, whatever other transactions have deleted or inserted meanwhile.
THEOREM CommitsAreWhole == PGSpec => CommitShowsImage
<1> DEFINE A == \A s \in Sessions : Commit(s) =>
                   \A t \in Tables : \A k \in DOMAIN image[s][t] \cup DOMAIN Content(t)' :
                      /\ k \in DOMAIN Content(t)'
                      /\ IF k \in DOMAIN image[s][t]
                         THEN Content(t)'[k] = image[s][t][k]
                         ELSE k \in DOMAIN Content(t) /\ Content(t)'[k] = Content(t)[k]
<1>1. ASSUME PGInv, KeyInv PROVE A
  BY <1>1, CommitShows DEF ShowsRows
<1>2. PGInv /\ KeyInv /\ [PGNext]_pgVars => PGInv' /\ KeyInv'
  BY PGInvKept, StepShows
<1>3. PGInit => PGInv /\ KeyInv
  BY PGInitInv, KeyInit
<1>4. PGInv /\ KeyInv /\ [PGNext]_pgVars => [A]_pgVars
  BY <1>1
<1>5. PGSpec => [][A]_pgVars
  <2> HIDE DEF A
  <2> QED BY <1>2, <1>3, <1>4, PTL DEF PGSpec
<1> QED BY <1>5 DEF CommitShowsImage, A
------------------------------------------------------------------------------
(* What one transaction at a time keeps *)

\* The workloads of A are in B, with what they asked for, and finished if they
\* were.
KeepsWork(A, B) ==
    \A w \in DOMAIN A :
        /\ w \in DOMAIN B
        /\ B[w].req = A[w].req
        /\ A[w].state = "completed" => B[w].state = "completed"

\* So does the memory.
MemoryKeepsWork(A) ==
    \A w \in DOMAIN A :
        /\ state[w] # "absent"
        /\ req[w] = A[w].req
        /\ A[w].state = "completed" => state[w] = "completed"

Reset(m) == m \in {Empty, Fixture}

\* From the load to the commit, the transaction holds what is committed.
InHand(s) ==
    /\ pc[s] \in {At("loadEvents"), At("apply")}
          => KeepsWork(Content("workloads"), image[s]["workloads"])
    /\ pc[s] \in {At("operate"), At("leave")} => MemoryKeepsWork(Content("workloads"))
    /\ pc[s] \in {At("apply"), At("operate"), At("leave")}
          => DOMAIN Content("events") \subseteq DOMAIN image[s]["events"]
    /\ pc[s] \in {At("commit")} \cup {"delete", "insert"} \X (1 .. 3) =>
          \/ Reset(image[s])
          \/ /\ KeepsWork(Content("workloads"), image[s]["workloads"])
             /\ DOMAIN Content("events") \subseteq DOMAIN image[s]["events"]

\* An operation forgets no workload, changes no request and undoes no end.
LEMMA OperationKeepsWork ==
    ASSUME IInv, Operation \/ PassStep, NEW w \in WorkloadIds, state[w] # "absent"
    PROVE  /\ state'[w] # "absent" /\ req'[w] = req[w]
           /\ state[w] = "completed" => state'[w] = "completed"
<1>1. /\ StoreInv
      /\ state \in [WorkloadIds -> {"absent", "pending", "running", "completed"}]
      /\ state[w] = "completed" => hosts[w] = {}
  BY DEF IInv, StoreInv, StoreTypeOK, PlacementConsistent
<1> DEFINE Goal == /\ state'[w] # "absent" /\ req'[w] = req[w]
                   /\ state[w] = "completed" => state'[w] = "completed"
<1>2. CASE \E v \in WorkloadIds, r \in Requests : CreateWorkload(v, r)
  <2>1. PICK v \in WorkloadIds, r \in Requests : CreateWorkload(v, r)
    BY <1>2
  <2>2. v # w /\ state' = [state EXCEPT ![v] = "pending"] /\ req'[w] = req[w]
    BY <2>1 DEF CreateWorkload, IInv, StoreInv, StoreTypeOK
  <2> QED BY <1>1, <2>2
<1>3. ASSUME NEW u, state[u] = "pending", ScheduleLocked(u) PROVE Goal
  <2>1. req' = req
    BY <1>3 DEF ScheduleLocked, Place, Reclaim
  <2>2. CASE Place(u)
    BY <1>1, <1>3, <2>1, <2>2 DEF Place
  <2>3. ASSUME NEW how, Reclaim(u, how) PROVE Goal
    <3>1. PICK n \in ReclaimNodes(u, how) :
             state' = [EvictedState(VictimsOn(u, n, how), n) EXCEPT ![u] = "running"]
      BY <2>3 DEF Reclaim
    <3>2. state[w] = "completed" => state'[w] = "completed"
      BY <1>1, <1>3, <3>1 DEF EvictedState
    <3>3. state'[w] # "absent"
      BY <3>1 DEF EvictedState
    <3> QED BY <2>1, <3>2, <3>3
  <2>4. CASE UNCHANGED << state, hosts, left, alloc, running >>
    BY <2>1, <2>4
  <2> QED BY <1>3, <2>2, <2>3, <2>4 DEF ScheduleLocked
<1>4. ASSUME NEW n \in NodeIds, Disrupt(n) PROVE Goal
  <2>1. PICK V : state' = EvictedState(V, n) /\ req' = req
    BY <1>4 DEF Disrupt
  <2> QED BY <1>1, <2>1 DEF EvictedState
<1>5. CASE CompleteExpiredWorkloads
  BY <1>1, <1>5 DEF CompleteExpiredWorkloads
<1>6. CASE UNCHANGED << state, req >>
  BY <1>6
<1>7. CASE \E u \in WorkloadIds : ScheduleWorkload(u)
  BY <1>3, <1>7 DEF ScheduleWorkload
<1>8. CASE PassStep
  <2>1. PICK u \in todo : ScheduleLocked(u)
    BY <1>8 DEF PassStep
  <2> QED BY <1>3, <2>1 DEF IInv, TypeOK, Pending
<1>9. CASE SchedulePendingWorkloads \/ \E n \in NodeIds : RecoverNode(n) \/ HealNode(n)
  BY <1>6, <1>9 DEF SchedulePendingWorkloads, RecoverNode, HealNode, workloadVars
<1>10. CASE \E n \in NodeIds : FailNode(n) \/ PreemptSpotNode(n)
  BY <1>4, <1>10 DEF FailNode, PreemptSpotNode
<1> QED BY <1>2, <1>5, <1>7, <1>8, <1>9, <1>10 DEF Operation

LEMMA HandInit == ASSUME NEW s \in Sessions, PGInit PROVE InHand(s)
<1>1. pc[s] = Idle
  BY DEF PGInit
<1> QED BY <1>1 DEF InHand, Idle, At

\* A transaction that has ended holds nothing.
LEMMA HandDropped ==
    ASSUME NEW s \in Sessions, PGInv, NEW c, End(s, c) PROVE InHand(s)'
<1>1. pc'[s] = Idle
  BY DEF End, PGInv, PcOK
<1> QED BY <1>1 DEF InHand, Idle, At

\* The load takes everything.
LEMMA HandFilled ==
    ASSUME NEW s \in Sessions, PGInv, InHand(s),
           Content("workloads")' = Content("workloads"),
           Content("events")' = Content("events"),
           LoadNodes(s) \/ LoadWorkloads(s) \/ LoadEvents(s)
    PROVE  InHand(s)'
<1>1. CASE LoadNodes(s)
  <2>1. pc'[s] = At("loadWorkloads")
    BY <1>1 DEF LoadNodes, PGInv, PcOK
  <2> QED BY <2>1 DEF InHand, At
<1>2. CASE LoadWorkloads(s)
  <2>1. pc'[s] = At("loadEvents") /\ image'[s]["workloads"] = Content("workloads")
    BY <1>2 DEF LoadWorkloads, Load, PGInv, ImageOK, PcOK, Tables
  <2>2. KeepsWork(Content("workloads")', image'[s]["workloads"])
    BY <2>1 DEF KeepsWork
  <2> QED BY <2>1, <2>2 DEF InHand, At
<1>3. CASE LoadEvents(s)
  <2>1. /\ pc[s] = At("loadEvents") /\ pc'[s] = At("apply")
        /\ image'[s]["workloads"] = image[s]["workloads"]
        /\ image'[s]["events"] = Content("events")
    BY <1>3 DEF LoadEvents, Load, PGInv, ImageOK, PcOK, Tables
  <2>2. KeepsWork(Content("workloads")', image'[s]["workloads"])
    BY <2>1 DEF InHand
  <2>3. DOMAIN Content("events")' \subseteq DOMAIN image'[s]["events"]
    BY <2>1
  <2> QED BY <2>1, <2>2, <2>3 DEF InHand, At
<1> QED BY <1>1, <1>2, <1>3

\* The memory is filled with what has been loaded, worked on, and read out.
LEMMA HandWorks ==
    ASSUME NEW s \in Sessions, PGInv, AloneInv(s), InHand(s),
           Content("workloads")' = Content("workloads"),
           Content("events")' = Content("events"),
           Enter(s) \/ Operate(s) \/ OperatePass(s) \/ Leave(s)
    PROVE  InHand(s)'
<1> DEFINE C == Content("workloads")
<1>1. DOMAIN C \subseteq WorkloadIds
  BY DEF AloneInv, CommittedRows, SoundRows
<1>2. CASE Enter(s)
  <2> DEFINE W == image[s]["workloads"]
  <2>1. /\ pc[s] = At("apply") /\ pc'[s] = At("operate") /\ image' = image
        /\ state' = [w \in WorkloadIds |-> IF w \in DOMAIN W THEN W[w].state ELSE "absent"]
        /\ req' = [w \in WorkloadIds |-> IF w \in DOMAIN W THEN W[w].req ELSE NoRequest]
    BY <1>2 DEF Enter, Loaded, PGInv, PcOK
  <2>2. KeepsWork(C, W) /\ SoundRows(image[s]["nodes"], W)
    BY <2>1 DEF InHand, AloneInv, ImageStands
  <2>3. \A w \in DOMAIN W : W[w].state # "absent"
    BY <2>2 DEF SoundRows, SoundWorkload
  <2>4. MemoryKeepsWork(C)'
    <3> HIDE DEF C, W
    <3>1. \A w \in DOMAIN C :
             /\ state'[w] # "absent" /\ req'[w] = C[w].req
             /\ C[w].state = "completed" => state'[w] = "completed"
      BY <1>1, <2>1, <2>2, <2>3 DEF KeepsWork
    <3> QED BY <3>1 DEF MemoryKeepsWork, C
  <2>5. DOMAIN Content("events") \subseteq DOMAIN image[s]["events"]
    BY <2>1 DEF InHand
  <2>6. DOMAIN Content("events")' \subseteq DOMAIN image'[s]["events"]
    BY <2>1, <2>5
  <2> QED BY <2>1, <2>4, <2>6 DEF InHand, At
<1>3. CASE Operate(s) \/ OperatePass(s)
  <2>1. /\ pc[s] \in {At("operate"), At("leave")} /\ pc'[s] \in {At("operate"), At("leave")}
        /\ image' = image /\ (Operation \/ PassStep) /\ IInv
    BY <1>3, NoSessionAssumption
       DEF Operate, OperatePass, dbVars, PGInv, PcOK, TurnOK, AloneInv, MemoryStands
  <2>2. /\ MemoryKeepsWork(C)
        /\ DOMAIN Content("events") \subseteq DOMAIN image[s]["events"]
    BY <2>1 DEF InHand
  <2>3. MemoryKeepsWork(C)'
    <3> HIDE DEF C
    <3>1. \A w \in DOMAIN C :
             /\ state'[w] # "absent" /\ req'[w] = req[w]
             /\ state[w] = "completed" => state'[w] = "completed"
      BY <1>1, <2>1, <2>2, OperationKeepsWork DEF MemoryKeepsWork
    <3>2. \A w \in DOMAIN C :
             /\ state'[w] # "absent" /\ req'[w] = C[w].req
             /\ C[w].state = "completed" => state'[w] = "completed"
      BY <2>2, <3>1 DEF MemoryKeepsWork
    <3> QED BY <3>2 DEF MemoryKeepsWork, C
  <2>4. DOMAIN Content("events")' \subseteq DOMAIN image'[s]["events"]
    BY <2>1, <2>2
  <2> QED BY <2>1, <2>3, <2>4 DEF InHand, At
<1>4. CASE Leave(s)
  <2>1. /\ pc[s] = At("leave") /\ pc'[s] = << "delete", 1 >>
        /\ image'[s]["workloads"] = WorkloadRows
        /\ image'[s]["events"] = image[s]["events"]
    BY <1>4 DEF Leave, PGInv, PcOK, ImageOK
  <2>2. /\ MemoryKeepsWork(C)
        /\ DOMAIN Content("events") \subseteq DOMAIN image[s]["events"]
    BY <2>1 DEF InHand
  <2>3. KeepsWork(C, WorkloadRows)
    BY <1>1, <2>2 DEF KeepsWork, MemoryKeepsWork, WorkloadRows
  <2>4. /\ KeepsWork(Content("workloads")', image'[s]["workloads"])
        /\ DOMAIN Content("events")' \subseteq DOMAIN image'[s]["events"]
    BY <2>1, <2>2, <2>3
  <2> QED BY <2>1, <2>4 DEF InHand, At
<1> QED BY <1>2, <1>3, <1>4

\* An event is added to what has been loaded; a reset needs nothing of it.
LEMMA HandReplaced ==
    ASSUME NEW s \in Sessions, PGInv, InHand(s),
           Content("workloads")' = Content("workloads"),
           Content("events")' = Content("events"),
           AddEvent(s) \/ PGSeedDemoData(s) \/ PGClear(s)
    PROVE  InHand(s)'
<1>1. CASE AddEvent(s)
  <2>1. pc[s] = At("apply") /\ pc'[s] = << "delete", 1 >>
    BY <1>1 DEF AddEvent, PGInv, PcOK
  <2>2. PICK e : image' = [image EXCEPT ![s].events = [k \in DOMAIN @ \cup {e} |-> {}]]
    BY <1>1 DEF AddEvent
  <2>3. /\ image'[s]["workloads"] = image[s]["workloads"]
        /\ DOMAIN image[s]["events"] \subseteq DOMAIN image'[s]["events"]
    BY <2>2 DEF PGInv, ImageOK, Tables
  <2>4. /\ KeepsWork(Content("workloads"), image[s]["workloads"])
        /\ DOMAIN Content("events") \subseteq DOMAIN image[s]["events"]
    BY <2>1 DEF InHand
  <2>5. /\ KeepsWork(Content("workloads")', image'[s]["workloads"])
        /\ DOMAIN Content("events")' \subseteq DOMAIN image'[s]["events"]
    BY <2>3, <2>4
  <2> QED BY <2>1, <2>5 DEF InHand, At
<1>2. CASE PGSeedDemoData(s) \/ PGClear(s)
  <2>1. pc'[s] = << "delete", 1 >> /\ image'[s] \in {Empty, Fixture}
    BY <1>2 DEF PGSeedDemoData, PGClear, Replace, PGInv, PcOK, ImageOK
  <2>2. Reset(image[s])'
    <3>1. /\ Empty' = Empty /\ Fixture' = Fixture
      BY DEF Empty, NoRows, Fixture, SeedGPUs, GPUs, Slots
    <3> QED BY <2>1, <3>1 DEF Reset
  <2> QED BY <2>1, <2>2 DEF InHand, At
<1> QED BY <1>1, <1>2

\* While the tables are rewritten, the transaction keeps what it will commit.
LEMMA HandHeld ==
    ASSUME NEW s \in Sessions, PGInv, InHand(s), NeverWaits(s),
           Content("workloads")' = Content("workloads"),
           Content("events")' = Content("events"),
           DeleteAll(s) \/ InsertAll(s)
    PROVE  InHand(s)'
<1>1. PICK i \in 1 .. 3 :
         /\ pc[s] \in {<< "delete", i >>, << "insert", i >>}
         /\ pc'[s] \in {AfterDelete(i), AfterInsert(i), << "wait", i >>}
         /\ image' = image
  BY OrderFacts DEF DeleteAll, InsertAll, PGInv, PcOK
<1>2. pc'[s] \in {At("commit")} \cup {"delete", "insert", "wait"} \X (1 .. 3)
  BY <1>1, OrderFacts
<1>3. \/ Reset(image[s])
      \/ /\ KeepsWork(Content("workloads"), image[s]["workloads"])
         /\ DOMAIN Content("events") \subseteq DOMAIN image[s]["events"]
  BY <1>1 DEF InHand
<1>4. \/ Reset(image'[s])
      \/ /\ KeepsWork(Content("workloads")', image'[s]["workloads"])
         /\ DOMAIN Content("events")' \subseteq DOMAIN image'[s]["events"]
  BY <1>1, <1>3
<1>5. Reset(image[s])' <=> Reset(image'[s])
  <2>1. /\ Empty' = Empty /\ Fixture' = Fixture
    BY DEF Empty, NoRows, Fixture, SeedGPUs, GPUs, Slots
  <2> QED BY <2>1 DEF Reset
<1> QED BY <1>2, <1>4, <1>5 DEF InHand, At

\* Everything that is known of a single session.
SingleInv(s) == PGInv /\ KeyInv /\ AloneInv(s) /\ InHand(s)

LEMMA SingleInit == ASSUME NEW s, Sessions = {s}, PGInit PROVE SingleInv(s)
<1> QED BY PGInitInv, KeyInit, AloneInit, HandInit DEF SingleInv

\* What a commit that resets nothing shows has what was shown before.
CommitKeepsAll ==
    /\ KeepsWork(Content("workloads"), Content("workloads")')
    /\ DOMAIN Content("events") \subseteq DOMAIN Content("events")'

\* The steps of the one session that are not seen.
LEMMA HandKept ==
    ASSUME NEW s, Sessions = {s}, SingleInv(s), [PGNext]_pgVars, ~Commit(s)
    PROVE  InHand(s)' /\ CommitKeepsAll
<1> DEFINE Goal == InHand(s)'
<1>1. Content("workloads")' = Content("workloads") /\ Content("events")' = Content("events")
  BY StepShows DEF SingleInv, Tables
<1>2. ASSUME LoadNodes(s) \/ LoadWorkloads(s) \/ LoadEvents(s) PROVE Goal
  BY <1>1, <1>2, HandFilled DEF SingleInv
<1>3. ASSUME Enter(s) \/ Operate(s) \/ OperatePass(s) \/ Leave(s) PROVE Goal
  BY <1>1, <1>3, HandWorks DEF SingleInv
<1>4. ASSUME AddEvent(s) \/ PGSeedDemoData(s) \/ PGClear(s) PROVE Goal
  BY <1>1, <1>4, HandReplaced DEF SingleInv
<1>5. ASSUME DeleteAll(s) \/ InsertAll(s) PROVE Goal
  BY <1>1, <1>5, HandHeld DEF SingleInv, AloneInv
<1>6. ASSUME DuplicateKey(s) \/ DeadlockVictim(s) \/ Rollback(s) PROVE Goal
  <2>1. End(s, FALSE)
    BY <1>6 DEF DuplicateKey, DeadlockVictim, Rollback
  <2> QED BY <2>1, HandDropped DEF SingleInv
<1>7. ~DeleteRest(s)
  BY OrderFacts DEF DeleteRest, SingleInv, AloneInv, NeverWaits
<1>8. ASSUME UNCHANGED pgVars PROVE Goal
  <2>1. UNCHANGED << pc, image, state, req >>
    BY <1>8 DEF pgVars, dbVars, vars, workloadVars
  <2>2. Reset(image[s]) <=> Reset(image[s])'
    <3>1. Empty' = Empty /\ Fixture' = Fixture
      BY DEF Empty, NoRows, Fixture, SeedGPUs, GPUs, Slots
    <3> QED BY <2>1, <3>1 DEF Reset
  <2>3. MemoryKeepsWork(Content("workloads")) => MemoryKeepsWork(Content("workloads"))'
    BY <1>1, <2>1 DEF MemoryKeepsWork
  <2>4. /\ KeepsWork(Content("workloads"), image[s]["workloads"])
             => KeepsWork(Content("workloads")', image'[s]["workloads"])
        /\ DOMAIN Content("events")' = DOMAIN Content("events")
    BY <1>1, <2>1
  <2>5. InHand(s)
    BY DEF SingleInv
  <2> QED BY <2>1, <2>2, <2>3, <2>4, <2>5 DEF InHand
<1>9. CommitKeepsAll
  BY <1>1 DEF CommitKeepsAll, KeepsWork
<1>10. Goal
  <2> HIDE DEF Goal
  <2> QED BY <1>2, <1>3, <1>4, <1>5, <1>6, <1>7, <1>8 DEF PGNext, Statement
<1> QED BY <1>9, <1>10

LEMMA SingleStep ==
    ASSUME NEW s, Sessions = {s}, SingleInv(s), [PGNext]_pgVars
    PROVE  /\ SingleInv(s)'
           /\ \/ Resets(s)
              \/ CommitKeepsAll
<1>1. PGInv' /\ KeyInv' /\ AloneInv(s)'
  BY PGInvKept, StepShows, AloneKept DEF SingleInv
<1>2. CASE Commit(s)
  <2>1. pc[s] = At("commit") /\ End(s, TRUE)
    BY <1>2 DEF Commit
  <2>2. InHand(s)'
    BY <2>1, HandDropped DEF SingleInv
  <2>3. \A t \in Tables : ShowsRows(Content(t)', image[s][t], Content(t))
    BY <1>2, CommitShows DEF SingleInv
  <2>4. ASSUME ~Resets(s) PROVE CommitKeepsAll
    <3>1. /\ KeepsWork(Content("workloads"), image[s]["workloads"])
          /\ DOMAIN Content("events") \subseteq DOMAIN image[s]["events"]
      BY <1>2, <2>1, <2>4 DEF SingleInv, InHand, Resets, Reset
    <3>2. /\ ShowsRows(Content("workloads")', image[s]["workloads"], Content("workloads"))
          /\ ShowsRows(Content("events")', image[s]["events"], Content("events"))
      BY <2>3 DEF Tables
    <3>3. KeepsWork(Content("workloads"), Content("workloads")')
      BY <3>1, <3>2 DEF KeepsWork, ShowsRows
    <3>4. DOMAIN Content("events") \subseteq DOMAIN Content("events")'
      BY <3>1, <3>2 DEF ShowsRows
    <3> QED BY <3>3, <3>4 DEF CommitKeepsAll
  <2> QED BY <1>1, <2>2, <2>4 DEF SingleInv
<1>3. CASE ~Commit(s)
  BY <1>1, <1>3, HandKept DEF SingleInv
<1> QED BY <1>2, <1>3

\* With transactions one at a time no workload that has been accepted is lost,
\* nor what it asked for, nor its end, whatever fails in between.
THEOREM WorkSurvives ==
    ASSUME NEW one, Sessions = {one}
    PROVE  PGSpec => WorkloadsDurable
<1> DEFINE Kept ==
      \/ \E s \in Sessions : Resets(s)
      \/ \A w \in DOMAIN Workloads_ :
            /\ w \in DOMAIN Workloads_'
            /\ Workloads_'[w].req = Workloads_[w].req
            /\ Workloads_[w].state = "completed" => Workloads_'[w].state = "completed"
<1>1. Resets(one) \/ CommitKeepsAll => Kept
  BY DEF CommitKeepsAll, KeepsWork, Workloads_
<1>2. PGInit => SingleInv(one)
  BY SingleInit
<1>3. SingleInv(one) /\ [PGNext]_pgVars => SingleInv(one)' /\ [Kept]_pgVars
  <2> HIDE DEF Kept
  <2> QED BY <1>1, SingleStep
<1>4. PGSpec => [][Kept]_pgVars
  <2> HIDE DEF Kept
  <2> QED BY <1>2, <1>3, PTL DEF PGSpec
<1> QED BY <1>4, PTL DEF WorkloadsDurable

\* Nor an event, which is what a second transaction breaks.
THEOREM EventsSurvive ==
    ASSUME NEW one, Sessions = {one}
    PROVE  PGSpec => EventsDurable
<1> DEFINE Kept == \/ DOMAIN Content("events") \subseteq DOMAIN Content("events")'
                   \/ \E s \in Sessions : Resets(s)
<1>1. Resets(one) \/ CommitKeepsAll => Kept
  BY DEF CommitKeepsAll
<1>2. PGInit => SingleInv(one)
  BY SingleInit
<1>3. SingleInv(one) /\ [PGNext]_pgVars => SingleInv(one)' /\ [Kept]_pgVars
  <2> HIDE DEF Kept
  <2> QED BY <1>1, SingleStep
<1>4. PGSpec => [][Kept]_pgVars
  <2> HIDE DEF Kept
  <2> QED BY <1>2, <1>3, PTL DEF PGSpec
<1> QED BY <1>4, PTL DEF EventsDurable
==============================================================================
