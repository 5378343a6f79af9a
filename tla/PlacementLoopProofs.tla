-------------------------- MODULE PlacementLoopProofs --------------------------
(***************************************************************************)
(* The loops of the placement compute the closed form Decide, on every     *)
(* fleet, for every request and in every order in which a map yields the   *)
(* nodes.  The invariant is that of a selection sort: the nodes used so    *)
(* far come before all other eligible ones, and the best one seen in the   *)
(* current scan comes before all others seen.                              *)
(***************************************************************************)
EXTENDS PlacementLoop, SchedulerProofs

\* The eligible nodes of the fleet as it was, and the preference between them.
Suitable   == {n \in DOMAIN fleet : EligibleNode(work, fleet[n])}
Preference == {p \in Suitable \X Suitable : PreferNode(work, fleet, p[1], p[2])}

\* Those that the current scan has looked at.
Scanned == Suitable \ (usedNodes \cup unseen)

FleetFixed == work \in Asked /\ fleet \in Fleets

UsedComeFirst ==
    /\ usedNodes \subseteq Suitable
    /\ \A u \in usedNodes : \A n \in Suitable \ usedNodes : << u, n >> \in Preference
    /\ outcome = "placed" => Cardinality(usedNodes) = work.replicas
    /\ outcome # "placed" => Cardinality(usedNodes) < work.replicas

TentativeOnUsed ==
    tempNodes = [m \in DOMAIN fleet |->
                    IF m \in usedNodes THEN [fleet[m] EXCEPT !.alloc = @ + work.gpus]
                                       ELSE fleet[m]]

BestOfScanned ==
    /\ outcome \in {"deciding", "placed", "queued"}
    /\ unseen \subseteq DOMAIN fleet \ usedNodes
    /\ outcome # "deciding" => unseen = {} /\ best = {}
    /\ outcome # "placed" =>
          /\ best \subseteq Scanned
          /\ best = {} => Scanned = {}
          /\ \A b \in best : \A n \in Scanned \ {b} : << b, n >> \in Preference
          /\ \A a, b \in best : a = b

LoopInv == FleetFixed /\ UsedComeFirst /\ TentativeOnUsed /\ BestOfScanned

\* The nodes of the fleet are records of whole numbers, and the preference
\* orders the eligible ones.
LEMMA FleetFacts ==
    ASSUME FleetFixed
    PROVE  /\ work.gpus \in Nat /\ work.replicas \in Nat /\ work.replicas > 0
           /\ DOMAIN fleet \subseteq Nat
           /\ \A n \in DOMAIN fleet :
                 fleet[n] \in NodeRecords /\ fleet[n].alloc <= fleet[n].total
           /\ IsFiniteSet(Suitable) /\ Suitable \subseteq DOMAIN fleet
           /\ StrictlyOrders(Preference, Suitable)
<1>1. /\ work.gpus \in Nat /\ work.replicas \in Nat /\ work.replicas > 0
      /\ DOMAIN fleet \subseteq Nat /\ IsFiniteSet(DOMAIN fleet)
      /\ \A n \in DOMAIN fleet :
            fleet[n] \in NodeRecords /\ fleet[n].alloc <= fleet[n].total
  BY AskedAssumption, FleetsAssumption DEF FleetFixed
<1>2. Suitable \in SUBSET DOMAIN fleet /\ IsFiniteSet(Suitable)
  BY <1>1, FS_Subset DEF Suitable
<1>3. \A n \in Suitable : fleet[n].total \in Int /\ fleet[n].alloc \in Int
  BY <1>1, <1>2 DEF NodeRecords
<1>4. StrictlyOrders(Preference, Suitable)
  BY <1>1, <1>2, <1>3, PreferenceOrders DEF Preference
<1> QED BY <1>1, <1>2, <1>4

\* What the loop starts from.
LEMMA LoopStarts == Init => LoopInv
<1> SUFFICES ASSUME Init PROVE LoopInv
  OBVIOUS
<1>1. FleetFixed
  BY DEF Init, FleetFixed
<1>2. UsedComeFirst
  BY <1>1, FleetFacts, FS_EmptySet DEF Init, UsedComeFirst
<1>3. TentativeOnUsed
  BY <1>1, FleetsAssumption DEF Init, TentativeOnUsed, FleetFixed
<1>4. BestOfScanned
  BY DEF Init, BestOfScanned, Scanned, Suitable
<1> QED BY <1>1, <1>2, <1>3, <1>4 DEF LoopInv

\* One iteration of a scan: the best one seen comes before all others seen.
LEMMA LookKeeps ==
    ASSUME LoopInv, NEW n \in unseen, Look(n)
    PROVE  LoopInv'
<1> USE DEF LoopInv
<1>1. /\ UNCHANGED << work, fleet, tempNodes, usedNodes, outcome >>
      /\ Suitable' = Suitable /\ Preference' = Preference
  BY DEF Look, Suitable, Preference
<1>2. n \in DOMAIN fleet /\ n \notin usedNodes /\ n \notin Scanned /\ n \notin best
      /\ outcome = "deciding" /\ StrictlyOrders(Preference, Suitable)
  BY FleetFacts DEF BestOfScanned, Scanned
<1>3. \A m \in DOMAIN fleet \ usedNodes : tempNodes[m] = fleet[m]
  BY DEF TentativeOnUsed
<1>4. Scanned' = IF n \in Suitable THEN Scanned \cup {n} ELSE Scanned
  BY <1>1, <1>2 DEF Look, Scanned
<1>5. EligibleNode(work, tempNodes[n]) <=> n \in Suitable
  BY <1>2, <1>3 DEF Suitable
<1>6. \A m \in best : n \in Suitable =>
          (PreferNode(work, tempNodes, m, n) <=> << m, n >> \in Preference)
  <2> SUFFICES ASSUME NEW m \in best, n \in Suitable
               PROVE  PreferNode(work, tempNodes, m, n) <=> << m, n >> \in Preference
    OBVIOUS
  <2>1. m \in Suitable /\ m \notin usedNodes /\ m \in DOMAIN fleet
    BY <1>2 DEF BestOfScanned, Scanned, Suitable
  <2>2. PreferNode(work, tempNodes, m, n) <=> PreferNode(work, fleet, m, n)
    BY <1>2, <1>3, <2>1 DEF PreferNode
  <2> QED BY <2>1, <2>2 DEF Preference
<1>7. BestOfScanned'
  <2>1. unseen' \subseteq DOMAIN fleet \ usedNodes /\ outcome' = "deciding"
    BY <1>1, <1>2 DEF Look, BestOfScanned
  <2>2. CASE n \notin Suitable
    BY <1>1, <1>4, <1>5, <2>1, <2>2 DEF Look, BestOfScanned
  <2>3. CASE n \in Suitable /\ \E m \in best : << m, n >> \in Preference
    <3>1. best' = best
      BY <1>5, <1>6, <2>3 DEF Look
    <3> QED BY <1>1, <1>2, <1>4, <2>1, <2>3, <3>1 DEF BestOfScanned
  <2>4. CASE n \in Suitable /\ ~\E m \in best : << m, n >> \in Preference
    <3>1. best' = {n}
      BY <1>5, <1>6, <2>4 DEF Look
    <3>2. ASSUME NEW x \in Scanned PROVE << n, x >> \in Preference
      <4>1. PICK b \in best : b \in Scanned /\ (x # b => << b, x >> \in Preference)
        BY <1>2, <3>2 DEF BestOfScanned
      <4>2. << n, b >> \in Preference
        BY <1>2, <2>4, <4>1 DEF StrictlyOrders, Scanned
      <4> QED BY <1>2, <2>4, <4>1, <4>2 DEF StrictlyOrders, Scanned
    <3> QED BY <1>1, <1>4, <2>1, <2>4, <3>1, <3>2 DEF BestOfScanned
  <2> QED BY <2>2, <2>3, <2>4
<1> QED BY <1>1, <1>7 DEF FleetFixed, UsedComeFirst, TentativeOnUsed

\* A replica takes the best node of a finished scan.
LEMMA SelectKeeps ==
    ASSUME LoopInv, NEW n \in best, Select(n)
    PROVE  LoopInv'
<1> USE DEF LoopInv
<1>1. /\ UNCHANGED << work, fleet >> /\ usedNodes' = usedNodes \cup {n}
      /\ outcome = "deciding" /\ unseen = {} /\ best = {n} /\ best' = {}
      /\ Suitable' = Suitable /\ Preference' = Preference
  BY DEF Select, Suitable, Preference
<1>2. n \in Suitable /\ n \notin usedNodes
      /\ \A m \in Suitable \ (usedNodes \cup {n}) : << n, m >> \in Preference
  BY <1>1 DEF BestOfScanned, Scanned
<1>3. IsFiniteSet(usedNodes) /\ Cardinality(usedNodes) \in Nat
      /\ Cardinality(usedNodes') = Cardinality(usedNodes) + 1
  <2>1. IsFiniteSet(usedNodes)
    BY FleetFacts, FS_Subset DEF UsedComeFirst
  <2> QED BY <1>1, <1>2, <2>1, FS_AddElement, FS_CardinalityType
<1>4. work.replicas \in Nat /\ Cardinality(usedNodes) < work.replicas
  BY <1>1, FleetFacts DEF UsedComeFirst
<1>5. outcome' = IF Cardinality(usedNodes') = work.replicas THEN "placed" ELSE "deciding"
  BY <1>1 DEF Select
<1>6. UsedComeFirst'
  BY <1>1, <1>2, <1>3, <1>4, <1>5 DEF UsedComeFirst
<1>7. TentativeOnUsed'
  BY <1>1, <1>2, FleetFacts DEF TentativeOnUsed, Select, Allocate, NodeRecords
<1>8. BestOfScanned'
  <2>1. CASE outcome' = "placed"
    BY <1>1, <1>5, <2>1 DEF Select, BestOfScanned
  <2>2. CASE outcome' = "deciding"
    <3>1. unseen' = DOMAIN fleet \ usedNodes'
      BY <1>1, <1>5, <2>2 DEF Select, Excluding, TentativeOnUsed
    <3>2. Scanned' = {}
      BY <1>1, <3>1 DEF Scanned, Suitable
    <3> QED BY <1>1, <2>2, <3>1, <3>2 DEF BestOfScanned
  <2> QED BY <1>5, <2>1, <2>2
<1> QED BY <1>1, <1>6, <1>7, <1>8 DEF FleetFixed

\* A scan that has found nothing ends the loop.
LEMMA GiveUpKeeps == LoopInv /\ GiveUp => LoopInv'
<1> QED BY DEF LoopInv, GiveUp, FleetFixed, UsedComeFirst, TentativeOnUsed, BestOfScanned,
               Scanned, Suitable, Preference

LEMMA StutterKeeps == LoopInv /\ UNCHANGED vars => LoopInv'
<1> QED BY DEF vars, LoopInv, FleetFixed, UsedComeFirst, TentativeOnUsed, BestOfScanned,
               Scanned, Suitable, Preference

\* The invariant of the selection holds throughout.
LEMMA LoopInvariant == Spec => []LoopInv
<1>1. LoopInv /\ [Next]_vars => LoopInv'
  BY LookKeeps, SelectKeeps, GiveUpKeeps, StutterKeeps DEF Next
<1> QED BY <1>1, LoopStarts, PTL DEF Spec

\* A set of nodes that come before all other eligible ones is what the closed
\* form selects when it is asked for as many.
LEMMA FirstAreDecided ==
    ASSUME LoopInv
    PROVE  Decide(work, fleet, Cardinality(usedNodes)) = usedNodes
<1> USE DEF LoopInv
<1>1. /\ IsFiniteSet(Suitable) /\ StrictlyOrders(Preference, Suitable)
      /\ usedNodes \subseteq Suitable /\ IsFiniteSet(usedNodes)
      /\ Cardinality(usedNodes) \in Nat
  BY FleetFacts, FS_Subset, FS_CardinalityType DEF UsedComeFirst
<1>2. \A n \in Suitable : {m \in Suitable : PreferNode(work, fleet, m, n)}
                             = Before(Preference, Suitable, n)
  BY DEF Before, Preference
<1>3. Decide(work, fleet, Cardinality(usedNodes))
        = {n \in Suitable : Cardinality(Before(Preference, Suitable, n))
                              < Cardinality(usedNodes)}
  BY <1>2 DEF Decide, Suitable
<1>4. ASSUME NEW u \in usedNodes
      PROVE  Cardinality(Before(Preference, Suitable, u)) < Cardinality(usedNodes)
  <2>1. Before(Preference, Suitable, u) \in SUBSET usedNodes
        /\ u \notin Before(Preference, Suitable, u)
    BY <1>1 DEF Before, StrictlyOrders, UsedComeFirst
  <2>2. /\ Cardinality(Before(Preference, Suitable, u)) <= Cardinality(usedNodes)
        /\ Cardinality(Before(Preference, Suitable, u)) # Cardinality(usedNodes)
        /\ Cardinality(Before(Preference, Suitable, u)) \in Nat
    BY <1>1, <2>1, FS_Subset, FS_CardinalityType
  <2> QED BY <1>1, <2>2
<1>5. ASSUME NEW n \in Suitable \ usedNodes
      PROVE  ~(Cardinality(Before(Preference, Suitable, n)) < Cardinality(usedNodes))
  <2>1. usedNodes \in SUBSET Before(Preference, Suitable, n)
    BY <1>1 DEF Before, UsedComeFirst
  <2>2. Before(Preference, Suitable, n) \in SUBSET Suitable
    BY DEF Before
  <2>3. IsFiniteSet(Before(Preference, Suitable, n))
    BY <1>1, <2>2, FS_Subset
  <2>4. /\ Cardinality(usedNodes) <= Cardinality(Before(Preference, Suitable, n))
        /\ Cardinality(Before(Preference, Suitable, n)) \in Nat
    BY <2>1, <2>3, FS_Subset, FS_CardinalityType
  <2> QED BY <1>1, <2>4
<1> QED BY <1>1, <1>3, <1>4, <1>5

\* Whatever the fleet, the request and the order in which the map yields the
\* nodes, the loops place the replicas on the nodes of the closed form that
\* the store is modelled with, or on none when it has too few.
THEOREM LoopComputesDecide == Spec => []LoopIsDecide
<1>1. LoopInv => LoopIsDecide
  <2> SUFFICES ASSUME LoopInv PROVE LoopIsDecide
    OBVIOUS
  <2>1. CASE outcome = "placed"
    BY <2>1, FirstAreDecided DEF LoopInv, UsedComeFirst, LoopIsDecide
  <2>2. CASE outcome = "queued"
    <3>1. Suitable = usedNodes /\ Cardinality(usedNodes) < work.replicas
      BY <2>2 DEF LoopInv, UsedComeFirst, BestOfScanned, Scanned
    <3>2. Decide(work, fleet, work.replicas) \in SUBSET usedNodes
      BY <3>1 DEF Decide, Suitable
    <3>3. /\ Cardinality(Decide(work, fleet, work.replicas)) <= Cardinality(usedNodes)
          /\ Cardinality(Decide(work, fleet, work.replicas)) \in Nat
          /\ Cardinality(usedNodes) \in Nat /\ work.replicas \in Nat
      BY <3>1, <3>2, FleetFacts, FS_Subset, FS_CardinalityType DEF LoopInv
    <3> QED BY <2>2, <3>1, <3>3 DEF LoopIsDecide
  <2> QED BY <2>1, <2>2 DEF LoopIsDecide
<1> QED BY <1>1, LoopInvariant, PTL

\* And the tentative allocations that become the store's are one share on each
\* of as many distinct nodes as there are replicas, within their size.
THEOREM ReplicasAreSpread == Spec => []ReplicasSpread
<1>1. LoopInv => ReplicasSpread
  <2> SUFFICES ASSUME LoopInv, outcome = "placed", NEW n \in DOMAIN fleet
               PROVE  /\ Cardinality(usedNodes) = work.replicas
                      /\ tempNodes[n].alloc <= fleet[n].total
                      /\ tempNodes[n].alloc - fleet[n].alloc =
                            IF n \in usedNodes THEN work.gpus ELSE 0
    BY DEF ReplicasSpread, LoopInv, UsedComeFirst
  <2>1. /\ work.gpus \in Nat /\ fleet[n].alloc \in Nat /\ fleet[n].total \in Nat
        /\ fleet[n] \in NodeRecords /\ fleet[n].alloc <= fleet[n].total
    BY FleetFacts DEF LoopInv, NodeRecords
  <2>2. n \in usedNodes => fleet[n].total - fleet[n].alloc >= work.gpus
    BY DEF LoopInv, UsedComeFirst, Suitable, EligibleNode, FreeGPUs
  <2>3. tempNodes[n].alloc = IF n \in usedNodes THEN fleet[n].alloc + work.gpus
                                                ELSE fleet[n].alloc
    BY <2>1 DEF LoopInv, TentativeOnUsed, NodeRecords
  <2> QED BY <2>1, <2>2, <2>3 DEF LoopInv, UsedComeFirst
<1> QED BY <1>1, LoopInvariant, PTL
================================================================================
