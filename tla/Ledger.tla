-------------------------------- MODULE Ledger --------------------------------
(***************************************************************************)
(* What the store of the control plane promises about GPUs, and nothing    *)
(* else: who holds GPUs of which node, and how that may change in a step.  *)
(* Priorities, types, queues and clocks do not appear.  MemoryStore        *)
(* implements this specification (ImplementsLedger).                       *)
(***************************************************************************)
EXTENDS Integers, FiniteSets

CONSTANTS
    Holders,    \* who may hold GPUs
    Places,     \* where the GPUs are
    Capacity,   \* Capacity[n]: GPUs of n
    SizeAtHand, \* the data at hand to begin with: size,
    HeldAtHand  \*   and held

VARIABLES
    size,       \* size[w]: GPUs w holds wherever it holds any, 0 when unknown
    held,       \* held[n]: who holds GPUs of n
    finished    \* who has held GPUs and never will again

ledger == << size, held, finished >>

Shares(S) == UNION {{w} \X (1 .. size[w]) : w \in S}
Used(S)   == Cardinality(Shares(S))

Idle(w) == \A n \in Places : w \notin held[n]

Init ==
    /\ size = [w \in Holders |-> 0]
    /\ held = [n \in Places |-> {}]
    /\ finished = {}

\* Somebody new asks, for a number of GPUs that never changes again.
Enter(w) ==
    /\ size[w] = 0
    /\ size'[w] > 0
    /\ size' = [size EXCEPT ![w] = size'[w]]
    /\ UNCHANGED << held, finished >>

\* GPUs are granted all at once, to somebody who has none.
Grant(w, N) ==
    /\ size[w] > 0 /\ Idle(w) /\ w \notin finished
    /\ N # {}
    /\ \A n \in N : Used(held[n]) + size[w] <= Capacity[n]
    /\ held' = [n \in Places |-> IF n \in N THEN held[n] \cup {w} ELSE held[n]]
    /\ UNCHANGED << size, finished >>

\* Or taken over on one node from others, who keep what they have elsewhere.
TakeOver(w, n, V) ==
    /\ size[w] > 0 /\ Idle(w) /\ w \notin finished
    /\ V # {}
    /\ Used(held[n]) - Used(V) + size[w] <= Capacity[n]
    /\ held' = [held EXCEPT ![n] = (@ \ V) \cup {w}]
    /\ UNCHANGED << size, finished >>

\* A node withdraws its GPUs; nobody gets others instead in the same step.
Withdraw(n) ==
    /\ held' = [held EXCEPT ![n] = {}]
    /\ UNCHANGED << size, finished >>

\* Whoever ends gives everything back.
Finish(S) ==
    /\ \A w \in S : ~Idle(w)
    /\ held' = [n \in Places |-> held[n] \ S]
    /\ finished' = finished \cup S
    /\ UNCHANGED size

\* Everything is dropped; or replaced by the data at hand, always the same.
Reset ==
    /\ \/ /\ size' = [w \in Holders |-> 0]
          /\ held' = [n \in Places |-> {}]
       \/ size' = SizeAtHand /\ held' = HeldAtHand
    /\ finished' = {}

Next ==
    \/ \E w \in Holders : Enter(w)
    \/ \E w \in Holders, N \in SUBSET Places : Grant(w, N)
    \/ \E w \in Holders, n \in Places : \E V \in SUBSET held[n] : TakeOver(w, n, V)
    \/ \E n \in Places : Withdraw(n)
    \/ \E S \in SUBSET Holders : Finish(S)
    \/ Reset

Spec == Init /\ [][Next]_ledger
==============================================================================
