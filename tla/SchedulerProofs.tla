---------------------------- MODULE SchedulerProofs ----------------------------
(***************************************************************************)
(* The closed form Decide of the policy returns as many nodes as it is     *)
(* asked for exactly when that many are eligible.  Whether a workload fits *)
(* depends then on the eligible nodes alone, not on the scores.            *)
(***************************************************************************)
EXTENDS Scheduler, FiniteSetTheorems, TLAPS

\* R orders the members of E strictly and totally.
StrictlyOrders(R, E) ==
    /\ \A x \in E : << x, x >> \notin R
    /\ \A x, y, z \in E : << x, y >> \in R /\ << y, z >> \in R => << x, z >> \in R
    /\ \A x, y \in E : x # y => << x, y >> \in R \/ << y, x >> \in R

\* The members of E that come before n.
Before(R, E, n) == {m \in E : << m, n >> \in R}

\* In a strict total order of a finite set, as many members come before n as
\* before no other: their numbers are those from nought up, without a gap.
LEMMA RanksAreAll ==
    ASSUME NEW E, IsFiniteSet(E), NEW R, StrictlyOrders(R, E)
    PROVE  LET rank == [n \in E |-> Cardinality(Before(R, E, n))]
           IN  rank \in Injection(E, 0 .. Cardinality(E) - 1)
               /\ rank \in Surjection(E, 0 .. Cardinality(E) - 1)
<1> DEFINE rank == [n \in E |-> Cardinality(Before(R, E, n))]
           N    == Cardinality(E)
<1>1. N \in Nat
  BY FS_CardinalityType
<1>2. \A n \in E : Before(R, E, n) \in SUBSET E /\ n \notin Before(R, E, n)
  BY DEF Before, StrictlyOrders
<1>3. \A n \in E : IsFiniteSet(Before(R, E, n)) /\ Cardinality(Before(R, E, n)) \in Nat
  BY <1>2, FS_Subset, FS_CardinalityType
<1>4. ASSUME NEW n \in E PROVE Cardinality(Before(R, E, n)) \in 0 .. N - 1
  <2>1. Cardinality(Before(R, E, n)) <= N
    BY <1>2, FS_Subset
  <2>2. Cardinality(Before(R, E, n)) # N
    BY <1>2, FS_Subset
  <2> QED BY <1>1, <1>3, <2>1, <2>2
<1>5. ASSUME NEW x \in E, NEW y \in E, << x, y >> \in R PROVE rank[x] # rank[y]
  <2>1. Before(R, E, x) \in SUBSET Before(R, E, y)
    BY <1>5 DEF Before, StrictlyOrders
  <2>2. x \in Before(R, E, y) /\ x \notin Before(R, E, x)
    BY <1>5 DEF Before, StrictlyOrders
  <2>3. Cardinality(Before(R, E, y)) # Cardinality(Before(R, E, x))
    BY <1>3, <2>1, <2>2, FS_Subset
  <2> QED BY <2>3
<1>6. rank \in [E -> 0 .. N - 1]
  BY <1>4
<1>7. \A x, y \in E : rank[x] = rank[y] => x = y
  BY <1>5 DEF StrictlyOrders
<1>8. rank \in Injection(E, 0 .. N - 1)
  BY <1>6, <1>7 DEF Injection, IsInjective
<1>9. IsFiniteSet(0 .. N - 1) /\ Cardinality(0 .. N - 1) = N
  BY <1>1, FS_Interval
<1>10. rank \in Surjection(E, 0 .. N - 1)
  BY <1>8, <1>9, FS_Injection
<1> QED BY <1>8, <1>10

\* One member comes after all the others.
LEMMA LastOfOrder ==
    ASSUME NEW E, IsFiniteSet(E), E # {}, NEW R, StrictlyOrders(R, E)
    PROVE  \E l \in E : Before(R, E, l) = E \ {l}
<1> DEFINE rank == [n \in E |-> Cardinality(Before(R, E, n))]
           N    == Cardinality(E)
<1>1. N \in Nat /\ N # 0
  BY FS_CardinalityType, FS_EmptySet
<1>2. rank \in Surjection(E, 0 .. N - 1)
  BY RanksAreAll
<1>3. PICK l \in E : Cardinality(Before(R, E, l)) = N - 1
  <2>1. \A i \in 0 .. N - 1 : \E n \in E : rank[n] = i
    <3> HIDE DEF rank, N
    <3> QED BY <1>2 DEF Surjection
  <2>2. N - 1 \in 0 .. N - 1
    BY <1>1
  <2>3. PICK l \in E : rank[l] = N - 1
    BY <2>1, <2>2
  <2> QED BY <2>3
<1>4. Before(R, E, l) \in SUBSET (E \ {l})
  BY DEF Before, StrictlyOrders
<1>5. IsFiniteSet(E \ {l}) /\ Cardinality(E \ {l}) = N - 1
  BY FS_RemoveElement
<1>6. Before(R, E, l) = E \ {l}
  BY <1>3, <1>4, <1>5, FS_Subset
<1> QED BY <1>6

\* So the members that have fewer than k before them are k, or all of them.
LEMMA FirstAreCounted ==
    ASSUME NEW E, IsFiniteSet(E), NEW R, StrictlyOrders(R, E), NEW k \in Nat
    PROVE  Cardinality({n \in E : Cardinality(Before(R, E, n)) < k})
             = IF Cardinality(E) < k THEN Cardinality(E) ELSE k
<1> DEFINE rank == [n \in E |-> Cardinality(Before(R, E, n))]
           N    == Cardinality(E)
           size == IF N < k THEN N ELSE k
           D    == {n \in E : Cardinality(Before(R, E, n)) < k}
           g    == [n \in D |-> rank[n]]
<1>1. N \in Nat /\ size \in Nat
  BY FS_CardinalityType
<1>2. rank \in Injection(E, 0 .. N - 1) /\ rank \in Surjection(E, 0 .. N - 1)
  BY RanksAreAll
<1>3. /\ rank \in [E -> 0 .. N - 1]
      /\ \A x, y \in E : rank[x] = rank[y] => x = y
      /\ \A i \in 0 .. N - 1 : \E n \in E : rank[n] = i
  BY <1>2 DEF Injection, IsInjective, Surjection
<1>4. D \subseteq E /\ \A n \in E : n \in D <=> rank[n] < k
  OBVIOUS
<1> HIDE DEF rank, D
<1>5. \A n \in D : rank[n] \in 0 .. size - 1
  BY <1>1, <1>3, <1>4
<1>6. g \in Injection(D, 0 .. size - 1)
  BY <1>3, <1>4, <1>5 DEF Injection, IsInjective
<1>7. \A i \in 0 .. size - 1 : \E n \in D : g[n] = i
  BY <1>1, <1>3, <1>4
<1>8. g \in Surjection(D, 0 .. size - 1)
  BY <1>5, <1>7 DEF Surjection
<1>9. IsFiniteSet(0 .. size - 1) /\ Cardinality(0 .. size - 1) = size
  <2> HIDE DEF size
  <2>1. /\ IsFiniteSet(0 .. size - 1)
        /\ Cardinality(0 .. size - 1) = IF 0 > size - 1 THEN 0 ELSE (size - 1) - 0 + 1
    BY <1>1, FS_Interval
  <2> QED BY <1>1, <2>1
<1>10. Cardinality(D) = size
  BY <1>6, <1>8, <1>9, FS_Injection
<1> QED BY <1>10 DEF D

\* The order of keys with three parts, spelled out.
LEMMA LexThree ==
    ASSUME NEW a \in Int \X Int \X Int, NEW b \in Int \X Int \X Int
    PROVE  LexLess(a, b) <=> \/ a[1] < b[1]
                             \/ a[1] = b[1] /\ a[2] < b[2]
                             \/ a[1] = b[1] /\ a[2] = b[2] /\ a[3] < b[3]
<1>1. DOMAIN a = 1 .. 3
  OBVIOUS
<1>2. (\A j \in 1 .. 1 - 1 : a[j] = b[j]) <=> TRUE
  OBVIOUS
<1>3. (\A j \in 1 .. 2 - 1 : a[j] = b[j]) <=> a[1] = b[1]
  OBVIOUS
<1>4. (\A j \in 1 .. 3 - 1 : a[j] = b[j]) <=> a[1] = b[1] /\ a[2] = b[2]
  OBVIOUS
<1>5. \A i \in 1 .. 3 : i = 1 \/ i = 2 \/ i = 3
  OBVIOUS
<1> QED BY <1>1, <1>2, <1>3, <1>4, <1>5 DEF LexLess

\* And with four parts.
LEMMA LexFour ==
    ASSUME NEW a \in Int \X Int \X Int \X Int, NEW b \in Int \X Int \X Int \X Int
    PROVE  LexLess(a, b) <=>
               \/ a[1] < b[1]
               \/ a[1] = b[1] /\ a[2] < b[2]
               \/ a[1] = b[1] /\ a[2] = b[2] /\ a[3] < b[3]
               \/ a[1] = b[1] /\ a[2] = b[2] /\ a[3] = b[3] /\ a[4] < b[4]
<1>1. DOMAIN a = 1 .. 4
  OBVIOUS
<1>2. (\A j \in 1 .. 1 - 1 : a[j] = b[j]) <=> TRUE
  OBVIOUS
<1>3. (\A j \in 1 .. 2 - 1 : a[j] = b[j]) <=> a[1] = b[1]
  OBVIOUS
<1>4. (\A j \in 1 .. 3 - 1 : a[j] = b[j]) <=> a[1] = b[1] /\ a[2] = b[2]
  OBVIOUS
<1>5. (\A j \in 1 .. 4 - 1 : a[j] = b[j]) <=> a[1] = b[1] /\ a[2] = b[2] /\ a[3] = b[3]
  OBVIOUS
<1>6. \A i \in 1 .. 4 : i = 1 \/ i = 2 \/ i = 3 \/ i = 4
  OBVIOUS
<1> QED BY <1>1, <1>2, <1>3, <1>4, <1>5, <1>6 DEF LexLess

\* And with five parts.
LEMMA LexFive ==
    ASSUME NEW a \in Int \X Int \X Int \X Int \X Int,
           NEW b \in Int \X Int \X Int \X Int \X Int
    PROVE  LexLess(a, b) <=>
               \/ a[1] < b[1]
               \/ a[1] = b[1] /\ a[2] < b[2]
               \/ a[1] = b[1] /\ a[2] = b[2] /\ a[3] < b[3]
               \/ a[1] = b[1] /\ a[2] = b[2] /\ a[3] = b[3] /\ a[4] < b[4]
               \/ a[1] = b[1] /\ a[2] = b[2] /\ a[3] = b[3] /\ a[4] = b[4] /\ a[5] < b[5]
<1>1. DOMAIN a = 1 .. 5
  OBVIOUS
<1>2. (\A j \in 1 .. 1 - 1 : a[j] = b[j]) <=> TRUE
  OBVIOUS
<1>3. (\A j \in 1 .. 2 - 1 : a[j] = b[j]) <=> a[1] = b[1]
  OBVIOUS
<1>4. (\A j \in 1 .. 3 - 1 : a[j] = b[j]) <=> a[1] = b[1] /\ a[2] = b[2]
  OBVIOUS
<1>5. (\A j \in 1 .. 4 - 1 : a[j] = b[j]) <=> a[1] = b[1] /\ a[2] = b[2] /\ a[3] = b[3]
  OBVIOUS
<1>6. (\A j \in 1 .. 5 - 1 : a[j] = b[j])
         <=> a[1] = b[1] /\ a[2] = b[2] /\ a[3] = b[3] /\ a[4] = b[4]
  OBVIOUS
<1>7. \A i \in 1 .. 5 : i = 1 \/ i = 2 \/ i = 3 \/ i = 4 \/ i = 5
  OBVIOUS
<1> QED BY <1>1, <1>2, <1>3, <1>4, <1>5, <1>6, <1>7 DEF LexLess

\* One member comes before all the others.
LEMMA FirstOfOrder ==
    ASSUME NEW E, IsFiniteSet(E), E # {}, NEW R, StrictlyOrders(R, E)
    PROVE  \E f \in E : \A x \in E \ {f} : << f, x >> \in R
<1> DEFINE rank == [n \in E |-> Cardinality(Before(R, E, n))]
           N    == Cardinality(E)
<1>1. N \in Nat /\ N # 0
  BY FS_CardinalityType, FS_EmptySet
<1>2. rank \in Surjection(E, 0 .. N - 1)
  BY RanksAreAll
<1>3. PICK f \in E : Cardinality(Before(R, E, f)) = 0
  <2>1. \A i \in 0 .. N - 1 : \E n \in E : rank[n] = i
    <3> HIDE DEF rank, N
    <3> QED BY <1>2 DEF Surjection
  <2>2. PICK f \in E : rank[f] = 0
    BY <1>1, <2>1
  <2> QED BY <2>2
<1>4. Before(R, E, f) \in SUBSET E
  BY DEF Before
<1>5. Before(R, E, f) = {}
  BY <1>3, <1>4, FS_Subset, FS_EmptySet
<1> QED BY <1>5 DEF Before, StrictlyOrders

\* The preference is a strict total order of nodes with whole numbers.
LEMMA PreferenceOrders ==
    ASSUME NEW w, w.gpus \in Int, NEW N, NEW E \in SUBSET Int,
           \A n \in E : N[n].total \in Int /\ N[n].alloc \in Int
    PROVE  StrictlyOrders({p \in E \X E : PreferNode(w, N, p[1], p[2])}, E)
<1> DEFINE Key(n) == << PlacementScore(w, N[n]), FreeGPUs(N[n]) - w.gpus, n >>
           R == {p \in E \X E : PreferNode(w, N, p[1], p[2])}
<1>1. \A n \in E : FreeGPUs(N[n]) \in Int
  BY DEF FreeGPUs
<1>2. \A n \in E : PlacementScore(w, N[n]) \in Int
  BY <1>1 DEF PlacementScore, UtilizationPenalty, AtLeast
<1>3. \A n \in E : Key(n) \in Int \X Int \X Int /\ Key(n)[3] = n
  BY <1>1, <1>2
<1>4. \A m, n \in E : << m, n >> \in R <=> LexLess(Key(m), Key(n))
  BY DEF PreferNode
<1> HIDE DEF Key, R
<1>5. \A m, n \in E : << m, n >> \in R <=>
          \/ Key(m)[1] < Key(n)[1]
          \/ Key(m)[1] = Key(n)[1] /\ Key(m)[2] < Key(n)[2]
          \/ Key(m)[1] = Key(n)[1] /\ Key(m)[2] = Key(n)[2] /\ m < n
  BY <1>3, <1>4, LexThree
<1>6. \A n \in E : Key(n)[1] \in Int /\ Key(n)[2] \in Int /\ n \in Int
  BY <1>3
<1>7. StrictlyOrders(R, E)
  BY <1>5, <1>6 DEF StrictlyOrders
<1> QED BY <1>7 DEF R

\* Decide selects k nodes, unless fewer are eligible: then it selects those.
THEOREM DecideSelects ==
    ASSUME NEW w, w.gpus \in Int, NEW N, NEW k \in Nat,
           DOMAIN N \subseteq Int, IsFiniteSet(DOMAIN N),
           \A n \in DOMAIN N : N[n].total \in Int /\ N[n].alloc \in Int
    PROVE  LET eligible == {n \in DOMAIN N : EligibleNode(w, N[n])}
           IN  Cardinality(Decide(w, N, k))
                 = IF Cardinality(eligible) < k THEN Cardinality(eligible) ELSE k
<1> DEFINE E == {n \in DOMAIN N : EligibleNode(w, N[n])}
           R == {p \in E \X E : PreferNode(w, N, p[1], p[2])}
<1>1. E \in SUBSET DOMAIN N /\ IsFiniteSet(E)
  BY FS_Subset
<1>2. StrictlyOrders(R, E)
  BY <1>1, PreferenceOrders
<1>3. \A n \in E : {m \in E : PreferNode(w, N, m, n)} = Before(R, E, n)
  BY DEF Before
<1>4. Decide(w, N, k) = {n \in E : Cardinality(Before(R, E, n)) < k}
  BY <1>3 DEF Decide
<1> HIDE DEF E, R
<1>5. Cardinality(Decide(w, N, k)) = IF Cardinality(E) < k THEN Cardinality(E) ELSE k
  BY <1>1, <1>2, <1>4, FirstAreCounted
<1> QED BY <1>5 DEF E
================================================================================
