------------------------------- MODULE Telemetry -------------------------------
(***************************************************************************)
(* What the control plane reports of its store: the fleet summary of       *)
(* fleet/summary.go, which a sample of telemetry/telemetry.go repeats, and *)
(* the bounded history of samples of controlplane/service.go.  A number of *)
(* GPUs is the size of a set of GPUs, << n, i >> being the i-th of node n. *)
(***************************************************************************)
EXTENDS MemoryStore, Sequences

\* GPUs of the nodes N: all of them, or those from the given bounds.
TotalGPUs(N)     == UNION {{n} \X (1 .. Fleet[n].total) : n \in N}
AllocatedGPUs(N) == UNION {{n} \X (1 .. alloc[n]) : n \in N}

Failed(N) == {n \in N : health[n] = "failed"}

\* Variant: the loop goes on after a failed node.
FreeOfAll(N) == UNION {{n} \X (alloc[n] + 1 .. Fleet[n].total) : n \in N}

\* What is free, of the nodes that have not failed; never less than nothing.
AvailableGPUs(N) ==
    UNION {{n} \X (alloc[n] + 1 .. Fleet[n].total) : n \in N \ Failed(N)}

\* The four figures of fleet.Build, for the whole fleet or one GPU type.
Summary(N) ==
    [total     |-> Cardinality(TotalGPUs(N)),
     allocated |-> Cardinality(AllocatedGPUs(N)),
     available |-> Cardinality(AvailableGPUs(N)),
     failed    |-> Cardinality(TotalGPUs(Failed(N)))]

OfType(g) == {n \in Present : Fleet[n].gpuType = g}

\* recordTelemetry: the newest sample goes last, the oldest ones are dropped.
Newest(h, k) == SubSeq(h, AtLeast(1, Len(h) - k + 1), Len(h))

\* Variant: nothing is dropped.
RecordedUntrimmed(h, s, max) == Append(h, s)

Recorded(h, s, max) == Newest(Append(h, s), max)

\* The newest samples, all of them when limit is not positive.
TelemetryHistory(h, limit) == IF limit <= 0 THEN h ELSE Newest(h, limit)
------------------------------------------------------------------------------
(* What must hold *)

\* The figures add up, for the fleet and for every GPU type: no GPU is counted
\* twice, as allocated and failed, or free and failed, and none is missing.
\* The three are counted separately, and a failed node counts with all its
\* GPUs whatever is allocated on it: this rests on what evictions, preemptions
\* and completions leave in the allocation of a node that fails.
CapacityPartitioned ==
    \A N \in {Present} \cup {OfType(Fleet[n].gpuType) : n \in NodeIds} :
        LET s == Summary(N) IN s.total = s.allocated + s.available + s.failed
==============================================================================
