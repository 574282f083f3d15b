---------------------------- MODULE PagedProofs ----------------------------
(***************************************************************************)
(* Proofs about CudaPagedKv, for any number of sessions, slots, positions  *)
(* and pages: the pool, the page tables and the device agree about every   *)
(* page in every state, what the code treats as an internal inconsistency  *)
(* never happens, and the pool is large enough.  PagedRowProofs adds the   *)
(* content of the rows.                                                    *)
(*                                                                         *)
(* The lemmas go from the inside out: what the operators of CudaKvPages    *)
(* return; who holds a page (a table, the retained prefix, the reservation *)
(* of a pending append) and what each operator does to the holders; the    *)
(* inductive invariant PagedInv, one lemma per action, and its theorems;   *)
(* SizeInv, which counts what the sequences may claim of the pool.         *)
(***************************************************************************)
EXTENDS CudaPagedKv, SequenceTheorems, FiniteSetTheorems, TLAPS


Distinct(hs) == \A i, j \in DOMAIN hs : Index(hs[i]) = Index(hs[j]) => i = j
AllLive(q, hs) == \A i \in DOMAIN hs : Live(q, hs[i])

PoolSound(q) ==
    /\ q \in Pools
    /\ \A p \in Pages : p > q.used => q.refs[p] = 0
    /\ Elems(q.free) = {p \in 1 .. q.used : q.refs[p] = 0}
    /\ \A i, j \in DOMAIN q.free : q.free[i] = q.free[j] => i = j

\* What it is for a page to be among the indices of handles.
LEMMA IndicesIs ==
    ASSUME NEW hs, NEW p
    PROVE  p \in Indices(hs) <=> \E i \in DOMAIN hs : Index(hs[i]) = p
BY DEF Indices, Elems

\* The parts of a pool, one by one.
LEMMA PoolFields ==
    ASSUME NEW q \in Pools
    PROVE  /\ q.gen \in [Pages -> Nat] /\ q.refs \in [Pages -> Nat]
           /\ q.free \in Seq(Pages) /\ q.used \in 0 .. CapacityPages
           /\ DOMAIN q.free = 1 .. Len(q.free) /\ Len(q.free) \in Nat
           /\ CapacityPages \in Nat /\ Pages \subseteq Nat \ {0}
BY PageAssumption DEF Pools, Pages

\* The numbers of a finite set, in order: each of them, once.
LEMMA OrderedIs ==
    ASSUME NEW ns \in SUBSET Nat, IsFiniteSet(ns)
    PROVE  /\ Cardinality(ns) \in Nat
           /\ \A i \in 1 .. Cardinality(ns) : Ordered(ns)[i] \in ns
           /\ \A i, j \in 1 .. Cardinality(ns) : Ordered(ns)[i] = Ordered(ns)[j] => i = j
           /\ \A n \in ns : \E i \in 1 .. Cardinality(ns) : Ordered(ns)[i] = n
           /\ \A i \in 1 .. Cardinality(ns) :
                 Cardinality({m \in ns : m < Ordered(ns)[i]}) = i - 1
<1> DEFINE below(n) == {m \in ns : m < n}
           rank == [n \in ns |-> Cardinality(below(n)) + 1]
           k == Cardinality(ns)
<1>1. k \in Nat
  BY FS_CardinalityType
<1>2. \A n \in ns : below(n) \in SUBSET ns /\ below(n) # ns
  OBVIOUS
<1>3. \A n \in ns : /\ IsFiniteSet(below(n)) /\ Cardinality(below(n)) \in Nat
                    /\ Cardinality(below(n)) < k
  <2> SUFFICES ASSUME NEW n \in ns
               PROVE  /\ IsFiniteSet(below(n)) /\ Cardinality(below(n)) \in Nat
                      /\ Cardinality(below(n)) < k
    OBVIOUS
  <2>1. below(n) \in SUBSET ns /\ below(n) # ns
    BY <1>2
  <2> HIDE DEF below
  <2>2. IsFiniteSet(below(n)) /\ Cardinality(below(n)) <= k /\ k # Cardinality(below(n))
    BY <2>1, FS_Subset
  <2>3. Cardinality(below(n)) \in Nat
    BY <2>2, FS_CardinalityType
  <2> QED BY <2>2, <2>3, <1>1
<1>4. \A m, n \in ns : m < n => Cardinality(below(m)) < Cardinality(below(n))
  <2> SUFFICES ASSUME NEW m \in ns, NEW n \in ns, m < n
               PROVE  Cardinality(below(m)) < Cardinality(below(n))
    OBVIOUS
  <2>1. below(m) \in SUBSET below(n) /\ below(m) # below(n)
    <3>1. m \in below(n) /\ m \notin below(m)
      OBVIOUS
    <3>2. \A x \in below(m) : x \in below(n)
      OBVIOUS
    <3> QED BY <3>1, <3>2
  <2>2. IsFiniteSet(below(n)) /\ Cardinality(below(n)) \in Nat /\ Cardinality(below(m)) \in Nat
    BY <1>3
  <2> HIDE DEF below
  <2> QED BY <2>1, <2>2, FS_Subset
<1>5. rank \in Injection(ns, 1 .. k)
  <2>1. rank \in [ns -> 1 .. k]
    <3> HIDE DEF below
    <3> QED BY <1>1, <1>3
  <2>2. ASSUME NEW m \in ns, NEW n \in ns, rank[m] = rank[n]
        PROVE  m = n
    <3>1. m \in Nat /\ n \in Nat
      OBVIOUS
    <3> HIDE DEF below
    <3>2. Cardinality(below(m)) = Cardinality(below(n))
      BY <2>2, <1>3
    <3> QED BY <3>1, <3>2, <1>3, <1>4
  <2> HIDE DEF rank
  <2> QED BY <2>1, <2>2 DEF Injection, IsInjective
<1>6. rank \in Surjection(ns, 1 .. k)
  <2>1. IsFiniteSet(1 .. k) /\ Cardinality(1 .. k) = k
    BY <1>1, FS_Interval
  <2> HIDE DEF rank, k
  <2> QED BY <1>5, <2>1, FS_Injection DEF k
<1>7. \A i \in 1 .. k : \E n \in ns : Cardinality(below(n)) = i - 1
  <2> SUFFICES ASSUME NEW i \in 1 .. k PROVE \E n \in ns : Cardinality(below(n)) = i - 1
    OBVIOUS
  <2>1. PICK n \in ns : rank[n] = i
    <3> HIDE DEF rank, k
    <3> QED BY <1>6 DEF Surjection
  <2> HIDE DEF below
  <2> QED BY <2>1, <1>3, <1>1
<1>8. \A i \in 1 .. k : Ordered(ns)[i] \in ns /\ Cardinality(below(Ordered(ns)[i])) = i - 1
  <2> SUFFICES ASSUME NEW i \in 1 .. k
               PROVE  Ordered(ns)[i] \in ns /\ Cardinality(below(Ordered(ns)[i])) = i - 1
    OBVIOUS
  <2>1. Ordered(ns)[i] = CHOOSE n \in ns : Cardinality(below(n)) = i - 1
    BY DEF Ordered
  <2>2. \E n \in ns : Cardinality(below(n)) = i - 1
    BY <1>7
  <2> HIDE DEF below
  <2> QED BY <2>1, <2>2
<1>9. \A i, j \in 1 .. k : Ordered(ns)[i] = Ordered(ns)[j] => i = j
  <2> HIDE DEF below
  <2> QED BY <1>8, <1>1
<1>10. \A n \in ns : \E i \in 1 .. k : Ordered(ns)[i] = n
  <2> SUFFICES ASSUME NEW n \in ns PROVE \E i \in 1 .. k : Ordered(ns)[i] = n
    OBVIOUS
  <2> DEFINE i == Cardinality(below(n)) + 1
  <2>1. i \in 1 .. k
    <3> HIDE DEF below
    <3> QED BY <1>3, <1>1
  <2>2. Ordered(ns)[i] \in ns /\ Cardinality(below(Ordered(ns)[i])) = Cardinality(below(n))
    <3> HIDE DEF below
    <3> QED BY <1>8, <2>1, <1>3
  <2>3. Ordered(ns)[i] \in Nat /\ n \in Nat
    BY <2>2
  <2> HIDE DEF below
  <2>4. Ordered(ns)[i] = n
    BY <2>2, <2>3, <1>4, <1>3
  <2> HIDE DEF i
  <2> QED BY <2>1, <2>4
<1> QED BY <1>1, <1>8, <1>9, <1>10

\* A nonempty finite set of numbers has a least one.
LEMMA LeastIs ==
    ASSUME NEW ns \in SUBSET Nat, IsFiniteSet(ns), ns # {}
    PROVE  \E n \in ns : \A m \in ns : n <= m
<1>1. Cardinality(ns) \in Nat /\ Cardinality(ns) # 0
  BY FS_CardinalityType, FS_EmptySet
<1>2. 1 \in 1 .. Cardinality(ns)
  BY <1>1
<1>5. /\ \A i \in 1 .. Cardinality(ns) : Ordered(ns)[i] \in ns
      /\ \A i \in 1 .. Cardinality(ns) : Cardinality({m \in ns : m < Ordered(ns)[i]}) = i - 1
  BY OrderedIs
<1> DEFINE o == Ordered(ns)[1]
<1>6. o \in ns /\ Cardinality({m \in ns : m < o}) = 0
  BY <1>2, <1>5
<1> HIDE DEF o
<1>3. PICK n \in ns : Cardinality({m \in ns : m < n}) = 0
  BY <1>6
<1>4. {m \in ns : m < n} = {}
  BY <1>3, FS_Subset, FS_EmptySet
<1> QED BY <1>4

\* The parts of a sound pool: references, free stack, pages ever used.
Stack(R, F, U) ==
    /\ \A p \in Pages : p > U => R[p] = 0
    /\ Elems(F) = {p \in 1 .. U : R[p] = 0}
    /\ \A i, j \in DOMAIN F : F[i] = F[j] => i = j

\* PoolSound, with the free stack in a predicate of its own.
LEMMA PoolParts ==
    ASSUME NEW q
    PROVE  PoolSound(q) <=> q \in Pools /\ Stack(q.refs, q.free, q.used)
BY DEF PoolSound, Stack

\* What a sound free stack says of each of its entries and of each vacant page.
LEMMA StackIs ==
    ASSUME NEW R \in [Pages -> Nat], NEW F \in Seq(Pages), NEW U \in 0 .. CapacityPages,
           Stack(R, F, U)
    PROVE  /\ \A i \in 1 .. Len(F) : F[i] \in Pages /\ F[i] <= U /\ R[F[i]] = 0
           /\ \A p \in 1 .. U : p \in Pages
           /\ \A p \in 1 .. U : R[p] = 0 => \E i \in 1 .. Len(F) : F[i] = p
           /\ \A i, j \in 1 .. Len(F) : F[i] = F[j] => i = j
           /\ \A p \in Pages : R[p] > 0 => p \in 1 .. U
<1>1. DOMAIN F = 1 .. Len(F) /\ Len(F) \in Nat
  OBVIOUS
<1>2. CapacityPages \in Nat /\ U \in Nat
  BY PageAssumption
<1>3. \A p \in 1 .. U : p \in Pages
  BY <1>2 DEF Pages
<1>4. \A i \in 1 .. Len(F) : F[i] \in Elems(F)
  BY <1>1 DEF Elems
<1>5. \A p \in Elems(F) : p \in 1 .. U /\ R[p] = 0
  BY DEF Stack
<1>6. \A i \in 1 .. Len(F) : F[i] \in Pages /\ F[i] <= U /\ R[F[i]] = 0
  BY <1>3, <1>4, <1>5, <1>2
<1>7. \A p \in 1 .. U : R[p] = 0 => \E i \in 1 .. Len(F) : F[i] = p
  <2> SUFFICES ASSUME NEW p \in 1 .. U, R[p] = 0 PROVE \E i \in 1 .. Len(F) : F[i] = p
    OBVIOUS
  <2>1. p \in Elems(F)
    BY DEF Stack
  <2> QED BY <2>1, <1>1 DEF Elems
<1>8. \A p \in Pages : R[p] > 0 => p \in 1 .. U
  BY <1>2 DEF Stack, Pages
<1>9. \A i, j \in 1 .. Len(F) : F[i] = F[j] => i = j
  BY <1>1 DEF Stack
<1> QED BY <1>3, <1>6, <1>7, <1>8, <1>9

\* What is free: the stack and the pages never used.
LEMMA FreeCount ==
    ASSUME NEW R \in [Pages -> Nat], NEW F \in Seq(Pages), NEW U \in 0 .. CapacityPages,
           Stack(R, F, U)
    PROVE  /\ Cardinality({p \in Pages : R[p] > 0}) = U - Len(F)
           /\ Len(F) <= U
<1> DEFINE live == {p \in Pages : R[p] > 0}
           n == Len(F)
           vacant == {F[i] : i \in 1 .. n}
<1>1. DOMAIN F = 1 .. n /\ n \in Nat /\ CapacityPages \in Nat /\ U \in Nat /\ Pages \subseteq Nat
  BY PageAssumption DEF Pages
<1>2. /\ \A i \in 1 .. n : F[i] \in Pages /\ F[i] <= U /\ R[F[i]] = 0
      /\ \A p \in 1 .. U : p \in Pages
      /\ \A p \in 1 .. U : R[p] = 0 => \E i \in 1 .. n : F[i] = p
      /\ \A i, j \in 1 .. n : F[i] = F[j] => i = j
      /\ \A p \in Pages : R[p] > 0 => p \in 1 .. U
  BY StackIs
<1>3. F \in Bijection(1 .. n, vacant)
  <2>1. F \in [1 .. n -> vacant]
    BY <1>1
  <2>2. \A v \in vacant : \E i \in 1 .. n : F[i] = v
    OBVIOUS
  <2> HIDE DEF n, vacant
  <2> QED BY <2>1, <2>2, <1>2 DEF Bijection, Injection, Surjection, IsInjective
<1>4. Cardinality(vacant) = n
  <2> HIDE DEF n, vacant
  <2> QED BY <1>1, <1>3, FS_CountingElements DEF ExistsBijection
<1>5. vacant \in SUBSET (1 .. U)
  BY <1>1, <1>2 DEF Pages
<1>6. IsFiniteSet(1 .. U) /\ Cardinality(1 .. U) = U
  BY <1>1, FS_Interval
<1>7. n <= U
  <2> DEFINE D == 1 .. U
  <2>1. IsFiniteSet(D) /\ vacant \in SUBSET D /\ Cardinality(D) = U
    BY <1>5, <1>6
  <2> HIDE DEF n, vacant, D
  <2>2. Cardinality(vacant) <= Cardinality(D)
    BY <2>1, FS_Subset
  <2> QED BY <1>4, <2>1, <2>2
<1>8. live = (1 .. U) \ vacant
  <2>1. \A p \in live : p \in 1 .. U /\ p \notin vacant
    BY <1>2
  <2>2. \A p \in (1 .. U) \ vacant : p \in live
    BY <1>2
  <2> HIDE DEF vacant, live
  <2> QED BY <2>1, <2>2
<1>9. Cardinality(live) = U - n
  <2> DEFINE D == 1 .. U
  <2>1. D \cap vacant = vacant
    BY <1>5
  <2>2. IsFiniteSet(D) /\ Cardinality(D) = U /\ live = D \ vacant
    BY <1>6, <1>8
  <2> HIDE DEF vacant, live, n, D
  <2>3. Cardinality(D \ vacant) = Cardinality(D) - Cardinality(D \cap vacant)
    BY <2>2, FS_Difference
  <2> QED BY <1>4, <2>1, <2>2, <2>3
<1> QED BY <1>7, <1>9

\* How many pages can be reserved: those never used, and the free ones.
LEMMA AvailableIs ==
    ASSUME NEW q, PoolSound(q)
    PROVE  /\ Available(q) = CapacityPages - q.used + Len(q.free)
           /\ Available(q) \in Nat
           /\ Len(q.free) <= q.used
<1>1. q \in Pools /\ Stack(q.refs, q.free, q.used)
  BY PoolParts
<1>2. /\ q.refs \in [Pages -> Nat] /\ q.free \in Seq(Pages) /\ q.used \in 0 .. CapacityPages
      /\ CapacityPages \in Nat /\ Len(q.free) \in Nat
  BY <1>1, PoolFields
<1>3. Cardinality({p \in Pages : q.refs[p] > 0}) = q.used - Len(q.free) /\ Len(q.free) <= q.used
  BY <1>1, <1>2, FreeCount
<1> QED BY <1>2, <1>3 DEF Available

\* The pages a reservation takes, and the stack it leaves.
Takes(pk, F, U, k) ==
    /\ DOMAIN pk = 1 .. k
    /\ \A i \in 1 .. k : pk[i] = IF i <= Len(F) THEN F[Len(F) + 1 - i]
                                                ELSE U + i - Len(F)

TakenFrom(R2, R, pk) == \A p \in Pages : R2[p] = IF p \in Elems(pk) THEN 1 ELSE R[p]

\* The pages a reservation takes are distinct and vacant, and leave a sound stack.
LEMMA TakeIs ==
    ASSUME NEW R \in [Pages -> Nat], NEW F \in Seq(Pages), NEW U \in 0 .. CapacityPages,
           Stack(R, F, U), NEW k \in Nat, k <= CapacityPages - U + Len(F),
           NEW pk, Takes(pk, F, U, k)
    PROVE  /\ \A i \in 1 .. k : pk[i] \in Pages /\ R[pk[i]] = 0
           /\ \A i, j \in 1 .. k : pk[i] = pk[j] => i = j
           /\ SubSeq(F, 1, Len(F) - AtMost(k, Len(F))) \in Seq(Pages)
           /\ U + k - AtMost(k, Len(F)) \in 0 .. CapacityPages
           /\ \A R2 \in [Pages -> Nat] : TakenFrom(R2, R, pk) =>
                    Stack(R2, SubSeq(F, 1, Len(F) - AtMost(k, Len(F))),
                          U + k - AtMost(k, Len(F)))
<1> DEFINE n == Len(F)
           m == n - AtMost(k, n)
           V == U + k - AtMost(k, n)
           E == SubSeq(F, 1, m)
<1>1. /\ n \in Nat /\ CapacityPages \in Nat /\ U \in Nat /\ U <= CapacityPages
      /\ Pages = 1 .. CapacityPages
  BY PageAssumption DEF Pages
<1>2. /\ \A i \in 1 .. n : F[i] \in Pages /\ F[i] <= U /\ R[F[i]] = 0
      /\ \A p \in 1 .. U : p \in Pages
      /\ \A p \in 1 .. U : R[p] = 0 => \E i \in 1 .. n : F[i] = p
      /\ \A i, j \in 1 .. n : F[i] = F[j] => i = j
      /\ \A p \in Pages : R[p] > 0 => p \in 1 .. U
  BY StackIs
<1>3. n <= U /\ k <= CapacityPages - U + n
  BY FreeCount
<1>4. \A i \in 1 .. k : pk[i] = IF i <= n THEN F[n + 1 - i] ELSE U + i - n
  BY DEF Takes
<1>5. \A p : p \in Elems(pk) <=> \E i \in 1 .. k : pk[i] = p
  BY DEF Elems, Takes
<1>6. \A p \in Pages : p > U => R[p] = 0
  BY DEF Stack
<1>7. /\ m \in 0 .. n /\ (k <= n => m = n - k) /\ (k > n => m = 0)
      /\ V = U + k - (n - m) /\ V \in 0 .. CapacityPages /\ V >= U
  <2> HIDE DEF n
  <2> QED BY <1>1, <1>3 DEF AtMost
<1>8. E \in Seq(Pages) /\ Len(E) = m /\ \A i \in 1 .. m : E[i] = F[i]
  <2> HIDE DEF m
  <2>1. \A i \in 1 .. m : F[i] \in Pages
    BY <1>2, <1>7
  <2>2. m \in Int /\ m >= 0
    BY <1>7, <1>1
  <2> QED BY <2>1, <2>2, SubSeqProperties
<1> HIDE DEF n, m, V, E
<1>9. \A i \in 1 .. k : i <= n => n + 1 - i \in 1 .. n
  BY <1>1
<1>10. \A i \in 1 .. k : pk[i] \in Pages /\ R[pk[i]] = 0
  <2> SUFFICES ASSUME NEW i \in 1 .. k PROVE pk[i] \in Pages /\ R[pk[i]] = 0
    OBVIOUS
  <2>1. CASE i <= n
    BY <2>1, <1>2, <1>4, <1>9
  <2>2. CASE ~(i <= n)
    <3>1. pk[i] = U + i - n
      BY <2>2, <1>4
    <3>2. U + i - n \in 1 .. CapacityPages /\ U + i - n > U
      BY <2>2, <1>1, <1>3
    <3>3. U + i - n \in Pages
      BY <3>2, <1>1
    <3> QED BY <3>1, <3>2, <3>3, <1>6
  <2> QED BY <2>1, <2>2
<1>11. \A i, j \in 1 .. k : pk[i] = pk[j] => i = j
  <2> SUFFICES ASSUME NEW i \in 1 .. k, NEW j \in 1 .. k, pk[i] = pk[j] PROVE i = j
    OBVIOUS
  <2>1. CASE i <= n /\ j <= n
    <3>1. F[n + 1 - i] = F[n + 1 - j]
      BY <2>1, <1>4
    <3>2. n + 1 - i = n + 1 - j
      BY <3>1, <1>2, <1>9, <2>1
    <3> QED BY <3>2, <1>1
  <2>2. CASE i <= n /\ ~(j <= n)
    <3>1. pk[i] <= U /\ pk[j] = U + j - n
      BY <2>2, <1>2, <1>4, <1>9
    <3> QED BY <3>1, <2>2, <1>1
  <2>3. CASE ~(i <= n) /\ j <= n
    <3>1. pk[j] <= U /\ pk[i] = U + i - n
      BY <2>3, <1>2, <1>4, <1>9
    <3> QED BY <3>1, <2>3, <1>1
  <2>4. CASE ~(i <= n) /\ ~(j <= n)
    <3>1. pk[i] = U + i - n /\ pk[j] = U + j - n
      BY <2>4, <1>4
    <3>2. U + i - n = U + j - n
      BY <3>1
    <3> QED BY <3>2, <1>1
  <2> QED BY <2>1, <2>2, <2>3, <2>4
<1>12. \A i \in 1 .. n : F[i] \in Elems(pk) <=> i > m
  <2> SUFFICES ASSUME NEW i \in 1 .. n
               PROVE (\E j \in 1 .. k : pk[j] = F[i]) <=> i > m
    BY <1>5
  <2>1. ASSUME NEW j \in 1 .. k, pk[j] = F[i] PROVE i > m
    <3>1. j <= n
      BY <2>1, <1>1, <1>2, <1>4
    <3>2. F[n + 1 - j] = F[i] /\ n + 1 - j \in 1 .. n
      BY <2>1, <1>4, <1>9, <3>1
    <3>3. i = n + 1 - j
      BY <3>2, <1>2
    <3> QED BY <3>3, <1>7, <1>1
  <2>2. ASSUME i > m PROVE \E j \in 1 .. k : pk[j] = F[i]
    <3>1. n + 1 - i \in 1 .. k /\ n + 1 - i <= n
      BY <2>2, <1>7, <1>1
    <3>2. n + 1 - (n + 1 - i) = i
      BY <1>1
    <3> QED BY <3>1, <3>2, <1>4
  <2> QED BY <2>1, <2>2
<1>13. \A p \in Elems(pk) : p <= V
  <2> SUFFICES ASSUME NEW i \in 1 .. k PROVE pk[i] <= V
    BY <1>5
  <2>1. CASE i <= n
    <3>1. pk[i] = F[n + 1 - i] /\ F[n + 1 - i] <= U /\ F[n + 1 - i] \in Pages
      BY <2>1, <1>2, <1>4, <1>9
    <3>2. F[n + 1 - i] \in Int
      BY <3>1, <1>1
    <3>3. F[n + 1 - i] <= V
      BY <3>1, <3>2, <1>7, <1>1
    <3> QED BY <3>1, <3>3
  <2>2. CASE ~(i <= n)
    <3>1. pk[i] = U + i - n
      BY <2>2, <1>4
    <3> QED BY <3>1, <2>2, <1>1, <1>7
  <2> QED BY <2>1, <2>2
<1>14. \A p \in Pages : p > U /\ p <= V => p \in Elems(pk)
  <2> SUFFICES ASSUME NEW p \in Pages, p > U, p <= V PROVE \E i \in 1 .. k : pk[i] = p
    BY <1>5
  <2>0. p \in Int
    BY <1>1
  <2>1. k > n /\ m = 0
    BY <2>0, <1>1, <1>7
  <2>2. p - U + n \in 1 .. k /\ ~(p - U + n <= n)
    BY <2>1, <1>7, <1>1
  <2>3. pk[p - U + n] = U + (p - U + n) - n
    BY <2>2, <1>4
  <2>4. U + (p - U + n) - n = p
    BY <2>0, <1>1
  <2> QED BY <2>2, <2>3, <2>4
<1>15. ASSUME NEW R2 \in [Pages -> Nat], TakenFrom(R2, R, pk)
       PROVE  Stack(R2, E, V)
  <2> HIDE DEF Elems
  <2>0. /\ \A p \in Pages : p \in Elems(pk) => R2[p] = 1
        /\ \A p \in Pages : p \notin Elems(pk) => R2[p] = R[p]
    BY <1>15 DEF TakenFrom
  <2>1. \A p \in Pages : p > V => R2[p] = 0
    <3> SUFFICES ASSUME NEW p \in Pages, p > V PROVE R2[p] = 0
      OBVIOUS
    <3>1. p \in Int /\ ~(p <= V) /\ p > U
      BY <1>1, <1>7
    <3> QED BY <2>0, <3>1, <1>13, <1>6
  <2>2. ASSUME NEW p \in Elems(E) PROVE p \in 1 .. V /\ R2[p] = 0
    <3>0. DOMAIN E = 1 .. m
      BY <1>8
    <3>1. PICK i \in 1 .. m : p = F[i]
      BY <3>0, <1>8 DEF Elems
    <3>2. i \in 1 .. n /\ ~(i > m)
      BY <1>7, <1>1
    <3>3. p \notin Elems(pk) /\ p \in Pages /\ p <= U /\ R[p] = 0
      BY <3>1, <3>2, <1>2, <1>12
    <3> QED BY <3>3, <2>0, <1>7, <1>1
  <2>3. ASSUME NEW p \in 1 .. V, R2[p] = 0 PROVE p \in Elems(E)
    <3>1. p \in Pages
      BY <1>7, <1>1
    <3>2. p \notin Elems(pk) /\ R[p] = 0
      <4>1. ASSUME p \in Elems(pk) PROVE FALSE
        <5>1. R2[p] = 1
          BY <4>1, <3>1, <2>0
        <5> QED BY <5>1, <2>3
      <4>2. R2[p] = R[p]
        BY <4>1, <3>1, <2>0
      <4> QED BY <4>1, <4>2, <2>3
    <3>3. p \in 1 .. U
      BY <3>1, <3>2, <1>14, <1>1
    <3>4. PICK i \in 1 .. n : F[i] = p
      BY <3>2, <3>3, <1>2
    <3>5. i \in 1 .. m
      BY <3>2, <3>4, <1>12, <1>7, <1>1, SMTT(30)
    <3>6. E[i] = p /\ i \in DOMAIN E
      BY <3>4, <3>5, <1>8
    <3> QED BY <3>6 DEF Elems
  <2>4. \A i, j \in DOMAIN E : E[i] = E[j] => i = j
    <3>1. DOMAIN E = 1 .. m /\ \A i \in 1 .. m : i \in 1 .. n
      BY <1>8, <1>7, <1>1
    <3> QED BY <3>1, <1>8, <1>2
  <2> QED BY <2>1, <2>2, <2>3, <2>4 DEF Stack
<1> QED BY <1>7, <1>8, <1>10, <1>11, <1>15 DEF n, m, V, E

\* The handles of a reservation.
LEMMA PickedIs ==
    ASSUME NEW q, PoolSound(q), NEW k \in Nat, k <= Available(q)
    PROVE  /\ PickedHandles(q, k) \in Seq(Handles)
           /\ Len(PickedHandles(q, k)) = k /\ DOMAIN PickedHandles(q, k) = 1 .. k
           /\ Distinct(PickedHandles(q, k))
           /\ \A p \in Indices(PickedHandles(q, k)) : p \in Pages /\ q.refs[p] = 0
           /\ \A i \in 1 .. k :
                 Generation(PickedHandles(q, k)[i]) = q.gen[Index(PickedHandles(q, k)[i])] + 1
           /\ Indices(PickedHandles(q, k)) = Elems(Picked(q, k))
<1> DEFINE pk == Picked(q, k)
           hs == PickedHandles(q, k)
<1>1. /\ q.refs \in [Pages -> Nat] /\ q.free \in Seq(Pages) /\ q.used \in 0 .. CapacityPages
      /\ q.gen \in [Pages -> Nat] /\ Stack(q.refs, q.free, q.used)
  BY PoolFields, PoolParts
<1>2. k <= CapacityPages - q.used + Len(q.free)
  BY AvailableIs
<1>3. Takes(pk, q.free, q.used, k) /\ DOMAIN pk = 1 .. k
  BY DEF Picked, Takes
<1>4. DOMAIN hs = 1 .. k /\ \A i \in 1 .. k : hs[i] = <<pk[i], q.gen[pk[i]] + 1>>
  BY DEF PickedHandles
<1>5. hs = [i \in 1 .. k |-> hs[i]]
  BY DEF PickedHandles
<1> HIDE DEF pk, hs
<1>6. /\ \A i \in 1 .. k : pk[i] \in Pages /\ q.refs[pk[i]] = 0
      /\ \A i, j \in 1 .. k : pk[i] = pk[j] => i = j
  <2> DEFINE F == q.free
             U == q.used
             R == q.refs
  <2>1. R \in [Pages -> Nat] /\ F \in Seq(Pages) /\ U \in 0 .. CapacityPages
    BY <1>1
  <2>2. Stack(R, F, U) /\ k <= CapacityPages - U + Len(F) /\ Takes(pk, F, U, k)
    BY <1>1, <1>2, <1>3
  <2> HIDE DEF F, U, R
  <2>3. /\ \A i \in 1 .. k : pk[i] \in Pages /\ R[pk[i]] = 0
        /\ \A i, j \in 1 .. k : pk[i] = pk[j] => i = j
    BY <2>1, <2>2, TakeIs
  <2> QED BY <2>3 DEF R
<1>7. \A i \in 1 .. k : /\ hs[i] \in Handles /\ Index(hs[i]) = pk[i]
                        /\ Generation(hs[i]) = q.gen[Index(hs[i])] + 1
  <2> SUFFICES ASSUME NEW i \in 1 .. k
               PROVE  /\ hs[i] \in Handles /\ Index(hs[i]) = pk[i]
                      /\ Generation(hs[i]) = q.gen[Index(hs[i])] + 1
    OBVIOUS
  <2>1. hs[i] = <<pk[i], q.gen[pk[i]] + 1>> /\ pk[i] \in Pages /\ q.gen[pk[i]] + 1 \in Nat
    BY <1>1, <1>4, <1>6
  <2>2. Index(hs[i]) = pk[i] /\ Generation(hs[i]) = q.gen[pk[i]] + 1
    BY <2>1 DEF Index, Generation
  <2>3. hs[i] \in Handles
    BY <2>1 DEF Handles
  <2> QED BY <2>2, <2>3
<1>8. hs \in Seq(Handles) /\ Len(hs) = k
  BY <1>5, <1>7
<1>9. Distinct(hs)
  BY <1>4, <1>6, <1>7 DEF Distinct
<1>10. Indices(hs) = Elems(pk)
  <2>1. \A p : p \in Indices(hs) <=> \E i \in 1 .. k : pk[i] = p
    BY <1>4, <1>7, IndicesIs
  <2>2. \A p : p \in Elems(pk) <=> \E i \in 1 .. k : pk[i] = p
    BY <1>3 DEF Elems
  <2> QED BY <2>1, <2>2
<1>11. \A p \in Indices(hs) : p \in Pages /\ q.refs[p] = 0
  BY <1>4, <1>6, <1>7, IndicesIs
<1> QED BY <1>4, <1>7, <1>8, <1>9, <1>10, <1>11 DEF pk, hs

\* A reservation takes vacant pages, and gives each of them one reference and a
\* new life.
LEMMA ReserveIs ==
    ASSUME NEW q, PoolSound(q), NEW k \in Nat, k <= Available(q)
    PROVE  /\ PoolSound(Reserve(q, k))
           /\ AllLive(Reserve(q, k), PickedHandles(q, k))
           /\ \A p \in Pages : p \in Indices(PickedHandles(q, k)) =>
                 /\ q.refs[p] = 0 /\ Reserve(q, k).refs[p] = 1
                 /\ Reserve(q, k).gen[p] = q.gen[p] + 1
           /\ \A p \in Pages : p \notin Indices(PickedHandles(q, k)) =>
                 /\ Reserve(q, k).refs[p] = q.refs[p]
                 /\ Reserve(q, k).gen[p] = q.gen[p]
<1> DEFINE n == Len(q.free)
           pk == Picked(q, k)
           hs == PickedHandles(q, k)
           z == Reserve(q, k)
<1>1. /\ q.refs \in [Pages -> Nat] /\ q.free \in Seq(Pages) /\ q.used \in 0 .. CapacityPages
      /\ q.gen \in [Pages -> Nat] /\ Stack(q.refs, q.free, q.used)
  BY PoolFields, PoolParts
<1>2. k <= CapacityPages - q.used + n
  BY AvailableIs
<1>3. Takes(pk, q.free, q.used, k)
  BY DEF Picked, Takes
<1>4. /\ Indices(hs) = Elems(pk) /\ DOMAIN hs = 1 .. k
      /\ \A p \in Indices(hs) : p \in Pages /\ q.refs[p] = 0
      /\ \A i \in 1 .. k : Generation(hs[i]) = q.gen[Index(hs[i])] + 1
  BY PickedIs
<1>5. /\ z.gen = [p \in Pages |-> IF p \in Elems(pk) THEN q.gen[p] + 1 ELSE q.gen[p]]
      /\ z.refs = [p \in Pages |-> IF p \in Elems(pk) THEN 1 ELSE q.refs[p]]
      /\ z.free = SubSeq(q.free, 1, n - AtMost(k, n))
      /\ z.used = q.used + k - AtMost(k, n)
      /\ z = [gen |-> z.gen, refs |-> z.refs, free |-> z.free, used |-> z.used]
  BY DEF Reserve
<1> HIDE DEF pk, hs, z
<1>6. z.gen \in [Pages -> Nat] /\ z.refs \in [Pages -> Nat]
  BY <1>1, <1>5
<1>7. TakenFrom(z.refs, q.refs, pk)
  BY <1>5 DEF TakenFrom
<1>8. z.free \in Seq(Pages) /\ z.used \in 0 .. CapacityPages /\ Stack(z.refs, z.free, z.used)
  <2> DEFINE F == q.free
             U == q.used
             R == q.refs
  <2>1. R \in [Pages -> Nat] /\ F \in Seq(Pages) /\ U \in 0 .. CapacityPages
    BY <1>1
  <2>2. Stack(R, F, U) /\ k <= CapacityPages - U + Len(F) /\ Takes(pk, F, U, k)
    BY <1>1, <1>2, <1>3
  <2>3. TakenFrom(z.refs, R, pk)
    BY <1>7
  <2>4. z.free = SubSeq(F, 1, Len(F) - AtMost(k, Len(F))) /\ z.used = U + k - AtMost(k, Len(F))
    BY <1>5
  <2> HIDE DEF F, U, R
  <2>5. /\ SubSeq(F, 1, Len(F) - AtMost(k, Len(F))) \in Seq(Pages)
        /\ U + k - AtMost(k, Len(F)) \in 0 .. CapacityPages
        /\ \A R2 \in [Pages -> Nat] : TakenFrom(R2, R, pk) =>
              Stack(R2, SubSeq(F, 1, Len(F) - AtMost(k, Len(F))), U + k - AtMost(k, Len(F)))
    BY <2>1, <2>2, TakeIs
  <2> QED BY <2>3, <2>4, <2>5, <1>6
<1>9. PoolSound(z)
  <2>1. z \in Pools
    BY <1>5, <1>6, <1>8 DEF Pools
  <2> QED BY <2>1, <1>8, PoolParts
<1>10. \A p \in Pages : p \in Indices(hs) =>
          q.refs[p] = 0 /\ z.refs[p] = 1 /\ z.gen[p] = q.gen[p] + 1
  BY <1>4, <1>5
<1>11. \A p \in Pages : p \notin Indices(hs) => z.refs[p] = q.refs[p] /\ z.gen[p] = q.gen[p]
  BY <1>4, <1>5
<1>12. AllLive(z, hs)
  <2> SUFFICES ASSUME NEW i \in 1 .. k PROVE Live(z, hs[i])
    BY <1>4 DEF AllLive
  <2>1. Index(hs[i]) \in Indices(hs)
    BY <1>4, IndicesIs
  <2>2. z.refs[Index(hs[i])] = 1 /\ z.gen[Index(hs[i])] = Generation(hs[i])
    BY <2>1, <1>4, <1>10
  <2> QED BY <2>2 DEF Live
<1> QED BY <1>9, <1>10, <1>11, <1>12 DEF z, hs

\* A release takes one reference of each page away; a page's last one frees it.
LEMMA ReleaseIs ==
    ASSUME NEW q, PoolSound(q), NEW hs \in Seq(Handles), Distinct(hs),
           \A p \in Indices(hs) : q.refs[p] > 0
    PROVE  /\ PoolSound(Release(q, hs))
           /\ Release(q, hs).gen = q.gen
           /\ \A p \in Pages : p \in Indices(hs) => Release(q, hs).refs[p] = q.refs[p] - 1
           /\ \A p \in Pages : p \notin Indices(hs) => Release(q, hs).refs[p] = q.refs[p]
<1> DEFINE last == {i \in DOMAIN hs : q.refs[Index(hs[i])] = 1}
           k == Cardinality(last)
           freed == [i \in 1 .. k |-> Index(hs[Ordered(last)[i]])]
           z == Release(q, hs)
           F == q.free
           n == Len(F)
           U == q.used
           R == q.refs
<1>1. /\ R \in [Pages -> Nat] /\ F \in Seq(Pages) /\ U \in 0 .. CapacityPages
      /\ q.gen \in [Pages -> Nat] /\ Stack(R, F, U) /\ U \in Nat /\ n \in Nat
      /\ q \in Pools
  BY PoolFields, PoolParts, SMTT(30)
<1>2. /\ z.refs = [p \in Pages |-> IF p \in Indices(hs) THEN R[p] - 1 ELSE R[p]]
      /\ z.free = F \o freed /\ z.gen = q.gen /\ z.used = U
      /\ z = [gen |-> z.gen, refs |-> z.refs, free |-> z.free, used |-> z.used]
  <2> DEFINE X == [p \in Pages |-> IF p \in Indices(hs) THEN R[p] - 1 ELSE R[p]]
             Y == F \o freed
  <2>1. z = [q EXCEPT !.refs = X, !.free = Y]
    BY DEF Release
  <2> HIDE DEF X, Y, z
  <2>2. z = [gen |-> q.gen, refs |-> X, free |-> Y, used |-> q.used]
    BY <2>1, <1>1 DEF Pools
  <2> QED BY <2>2 DEF X, Y
<1>3. /\ DOMAIN hs = 1 .. Len(hs) /\ Len(hs) \in Nat
      /\ \A i \in DOMAIN hs : hs[i] \in Handles /\ Index(hs[i]) \in Pages
  BY DEF Handles, Index
<1>4. last \in SUBSET Nat /\ IsFiniteSet(last)
  <2>1. last \in SUBSET (1 .. Len(hs))
    BY <1>3
  <2>2. IsFiniteSet(1 .. Len(hs))
    BY <1>3, FS_Interval
  <2> HIDE DEF last
  <2>3. IsFiniteSet(last)
    BY <2>1, <2>2, FS_Subset
  <2> QED BY <2>1, <2>3
<1>5. /\ k \in Nat
      /\ \A i \in 1 .. k : Ordered(last)[i] \in last
      /\ \A i, j \in 1 .. k : Ordered(last)[i] = Ordered(last)[j] => i = j
      /\ \A j \in last : \E i \in 1 .. k : Ordered(last)[i] = j
  <2> HIDE DEF last
  <2> QED BY <1>4, OrderedIs
<1>6. \A j \in last : j \in DOMAIN hs /\ R[Index(hs[j])] = 1
  OBVIOUS
<1>7. \A j \in DOMAIN hs : R[Index(hs[j])] = 1 => j \in last
  OBVIOUS
<1>8. /\ DOMAIN freed = 1 .. k
      /\ \A i \in 1 .. k : freed[i] = Index(hs[Ordered(last)[i]])
      /\ freed = [i \in 1 .. k |-> freed[i]]
  OBVIOUS
<1> HIDE DEF last, k, freed, z, F, n, U, R
<1>9. \A i \in 1 .. k : freed[i] \in Pages /\ freed[i] \in Indices(hs) /\ R[freed[i]] = 1
  BY <1>3, <1>5, <1>6, <1>8, IndicesIs
<1>10. freed \in Seq(Pages) /\ Len(freed) = k
  BY <1>5, <1>8, <1>9
<1>11. \A i, j \in 1 .. k : freed[i] = freed[j] => i = j
  <2> SUFFICES ASSUME NEW i \in 1 .. k, NEW j \in 1 .. k, freed[i] = freed[j] PROVE i = j
    OBVIOUS
  <2>1. Ordered(last)[i] \in DOMAIN hs /\ Ordered(last)[j] \in DOMAIN hs
    BY <1>5, <1>6
  <2>2. Ordered(last)[i] = Ordered(last)[j]
    BY <2>1, <1>8 DEF Distinct
  <2> QED BY <2>2, <1>5
<1>12. \A p \in Indices(hs) : R[p] = 1 => \E i \in 1 .. k : freed[i] = p
  <2> SUFFICES ASSUME NEW p \in Indices(hs), R[p] = 1 PROVE \E i \in 1 .. k : freed[i] = p
    OBVIOUS
  <2>1. PICK j \in DOMAIN hs : Index(hs[j]) = p
    BY IndicesIs
  <2>2. PICK i \in 1 .. k : Ordered(last)[i] = j
    BY <2>1, <1>5, <1>7
  <2> QED BY <2>1, <2>2, <1>8
<1>13. \A p \in Indices(hs) : p \in Pages /\ R[p] > 0
  BY <1>3, IndicesIs DEF R
<1>14. /\ \A p \in Pages : p \in Indices(hs) => z.refs[p] = R[p] - 1
       /\ \A p \in Pages : p \notin Indices(hs) => z.refs[p] = R[p]
  BY <1>2
<1>15. z.refs \in [Pages -> Nat]
  <2>1. \A p \in Pages : p \in Indices(hs) => R[p] - 1 \in Nat
    BY <1>13, <1>1
  <2> QED BY <2>1, <1>1, <1>2
<1>16. /\ z.free \in Seq(Pages) /\ Len(z.free) = n + k
       /\ \A i \in 1 .. n : z.free[i] = F[i]
       /\ \A i \in 1 .. k : \A j \in 1 .. n + k : j = n + i => z.free[j] = freed[i]
  <2>0. F \in Seq(Pages) /\ freed \in Seq(Pages) /\ Len(F) = n /\ Len(freed) = k
    BY <1>1, <1>10 DEF n
  <2>1. z.free \in Seq(Pages) /\ Len(z.free) = n + k
        /\ \A i \in 1 .. n + k : z.free[i] = IF i <= n THEN F[i] ELSE freed[i - n]
    <3>1. /\ F \o freed \in Seq(Pages) /\ Len(F \o freed) = Len(F) + Len(freed)
          /\ \A i \in 1 .. Len(F) + Len(freed) :
                (F \o freed)[i] = IF i <= Len(F) THEN F[i] ELSE freed[i - Len(F)]
      BY <2>0, ConcatProperties
    <3> QED BY <3>1, <2>0, <1>2
  <2>2. \A i \in 1 .. n : i \in 1 .. n + k /\ i <= n
    BY <1>1, <1>5
  <2>3. \A i \in 1 .. k : n + i \in 1 .. n + k /\ ~(n + i <= n) /\ n + i - n = i
    BY <1>1, <1>5
  <2>4. ASSUME NEW i \in 1 .. k, NEW j \in 1 .. n + k, j = n + i PROVE z.free[j] = freed[i]
    <3>1. ~(j <= n) /\ j - n = i
      BY <2>4, <1>1, <1>5
    <3>2. z.free[j] = freed[j - n]
      BY <3>1, <2>1
    <3> QED BY <3>1, <3>2
  <2> QED BY <2>1, <2>2, <2>4
<1>17. /\ \A i \in 1 .. n : F[i] \in Pages /\ F[i] <= U /\ R[F[i]] = 0
       /\ \A p \in 1 .. U : p \in Pages
       /\ \A p \in 1 .. U : R[p] = 0 => \E i \in 1 .. n : F[i] = p
       /\ \A i, j \in 1 .. n : F[i] = F[j] => i = j
       /\ \A p \in Pages : R[p] > 0 => p \in 1 .. U
  BY <1>1, StackIs DEF n
<1>18. \A i \in 1 .. n + k : i \in 1 .. n \/ \E j \in 1 .. k : i = n + j
  <2> SUFFICES ASSUME NEW i \in 1 .. n + k, i \notin 1 .. n PROVE \E j \in 1 .. k : i = n + j
    OBVIOUS
  <2>1. i - n \in 1 .. k /\ i = n + (i - n)
    BY <1>1, <1>5
  <2> QED BY <2>1
<1>19. Stack(z.refs, z.free, U)
  <2>1. \A p \in Pages : p > U => z.refs[p] = 0
    <3> SUFFICES ASSUME NEW p \in Pages, p > U PROVE z.refs[p] = 0
      OBVIOUS
    <3>1. p \notin 1 .. U
      BY <1>1
    <3>2. R[p] \in Nat /\ ~(R[p] > 0)
      BY <3>1, <1>17, <1>1
    <3>3. p \notin Indices(hs)
      BY <3>2, <1>13
    <3> QED BY <3>2, <3>3, <1>14
  <2>2. DOMAIN z.free = 1 .. n + k
    BY <1>16
  <2>3. ASSUME NEW p \in Elems(z.free) PROVE p \in 1 .. U /\ z.refs[p] = 0
    <3>1. PICK i \in 1 .. n + k : z.free[i] = p
      BY <2>2 DEF Elems
    <3>2. CASE i \in 1 .. n
      <4>1. p = F[i] /\ p \in Pages /\ p <= U /\ R[p] = 0
        BY <3>1, <3>2, <1>16, <1>17
      <4>2. p \notin Indices(hs)
        BY <4>1, <1>13
      <4>3. p \in 1 .. U
        BY <4>1, <1>1 DEF Pages
      <4> QED BY <4>1, <4>2, <4>3, <1>14
    <3>3. ASSUME NEW j \in 1 .. k, i = n + j PROVE p \in 1 .. U /\ z.refs[p] = 0
      <4>1. p = freed[j]
        BY <3>1, <3>3, <1>16, <1>1, <1>5
      <4>2. p \in Pages /\ p \in Indices(hs) /\ R[p] = 1
        BY <4>1, <1>9
      <4>3. z.refs[p] = R[p] - 1
        BY <4>2, <1>14
      <4>4. p \in 1 .. U
        BY <4>2, <1>17
      <4> QED BY <4>2, <4>3, <4>4
    <3> QED BY <3>2, <3>3, <1>18
  <2>4. ASSUME NEW p \in 1 .. U, z.refs[p] = 0 PROVE p \in Elems(z.free)
    <3>1. p \in Pages
      BY <1>17
    <3>2. CASE p \in Indices(hs)
      <4>1. z.refs[p] = R[p] - 1 /\ R[p] \in Nat
        BY <3>1, <3>2, <1>14, <1>1
      <4>2. R[p] = 1
        BY <4>1, <2>4
      <4>3. PICK i \in 1 .. k : freed[i] = p
        BY <3>2, <4>2, <1>12
      <4>4. n + i \in 1 .. n + k
        BY <1>1, <1>5
      <4>5. PICK j \in 1 .. n + k : j = n + i
        BY <4>4
      <4>6. z.free[j] = p
        BY <4>3, <4>5, <1>16
      <4> QED BY <4>6, <2>2 DEF Elems
    <3>3. CASE p \notin Indices(hs)
      <4>1. R[p] = 0
        BY <3>1, <3>3, <2>4, <1>14
      <4>2. PICK i \in 1 .. n : F[i] = p
        BY <4>1, <1>17
      <4>3. i \in 1 .. n + k
        BY <1>1, <1>5
      <4> QED BY <4>2, <4>3, <2>2, <1>16 DEF Elems
    <3> QED BY <3>2, <3>3
  <2>5. ASSUME NEW i \in 1 .. n + k, NEW j \in 1 .. n + k, z.free[i] = z.free[j] PROVE i = j
    <3>1. CASE i \in 1 .. n /\ j \in 1 .. n
      BY <3>1, <2>5, <1>16, <1>17
    <3>2. ASSUME i \in 1 .. n, NEW b \in 1 .. k, j = n + b PROVE FALSE
      <4>1. R[z.free[i]] = 0
        BY <3>2, <1>16, <1>17
      <4>2. R[z.free[j]] = 1
        BY <3>2, <1>9, <1>16
      <4> QED BY <4>1, <4>2, <2>5
    <3>3. ASSUME j \in 1 .. n, NEW a \in 1 .. k, i = n + a PROVE FALSE
      <4>1. R[z.free[j]] = 0
        BY <3>3, <1>16, <1>17
      <4>2. R[z.free[i]] = 1
        BY <3>3, <1>9, <1>16
      <4> QED BY <4>1, <4>2, <2>5
    <3>4. ASSUME NEW a \in 1 .. k, i = n + a, NEW b \in 1 .. k, j = n + b PROVE i = j
      <4>1. freed[a] = freed[b]
        BY <3>4, <2>5, <1>16, <1>1, <1>5
      <4>2. a = b
        BY <4>1, <1>11
      <4> QED BY <4>2, <3>4
    <3> QED BY <3>1, <3>2, <3>3, <3>4, <1>18
  <2> QED BY <2>1, <2>2, <2>3, <2>4, <2>5 DEF Stack
<1>20. PoolSound(z)
  <2>1. z \in Pools
    BY <1>1, <1>2, <1>15, <1>16 DEF Pools
  <2> QED BY <2>1, <1>2, <1>19, PoolParts
<1> QED BY <1>2, <1>14, <1>20 DEF z, R

\* A retained handle adds one reference to its page and moves nothing else.
LEMMA RetainIs ==
    ASSUME NEW q, PoolSound(q), NEW hs, \A p \in Indices(hs) : p \in Pages /\ q.refs[p] > 0
    PROVE  /\ PoolSound(Retain(q, hs))
           /\ Retain(q, hs).gen = q.gen
           /\ \A p \in Pages : p \in Indices(hs) => Retain(q, hs).refs[p] = q.refs[p] + 1
           /\ \A p \in Pages : p \notin Indices(hs) => Retain(q, hs).refs[p] = q.refs[p]
<1> DEFINE z == Retain(q, hs)
           X == [p \in Pages |-> IF p \in Indices(hs) THEN q.refs[p] + 1 ELSE q.refs[p]]
           R == q.refs
           F == q.free
           U == q.used
<1>1. /\ R \in [Pages -> Nat] /\ F \in Seq(Pages) /\ U \in 0 .. CapacityPages
      /\ q.gen \in [Pages -> Nat] /\ Stack(R, F, U) /\ U \in Nat /\ q \in Pools
  BY PoolFields, PoolParts
<1>2. z = [q EXCEPT !.refs = X]
  BY DEF Retain
<1>3. /\ \A p \in Pages : p \in Indices(hs) => X[p] = R[p] + 1
      /\ \A p \in Pages : p \notin Indices(hs) => X[p] = R[p]
      /\ X \in [Pages -> Nat]
  BY <1>1
<1>4. \A p \in Indices(hs) : p \in Pages /\ R[p] > 0
  OBVIOUS
<1> HIDE DEF z, X
<1>5. z = [gen |-> q.gen, refs |-> X, free |-> F, used |-> U] /\ z \in Pools
  BY <1>1, <1>2, <1>3 DEF Pools
<1> HIDE DEF R, F, U
<1>6. \A p \in Pages : X[p] = 0 <=> R[p] = 0
  <2> SUFFICES ASSUME NEW p \in Pages PROVE X[p] = 0 <=> R[p] = 0
    OBVIOUS
  <2>1. R[p] \in Nat
    BY <1>1
  <2>2. CASE p \in Indices(hs)
    <3>1. X[p] = R[p] + 1 /\ R[p] > 0
      BY <2>2, <1>3, <1>4
    <3> QED BY <2>1, <3>1
  <2>3. CASE p \notin Indices(hs)
    BY <2>3, <1>3
  <2> QED BY <2>2, <2>3
<1>7. Stack(X, F, U)
  <2>1. \A p \in Pages : p > U => X[p] = 0
    BY <1>1, <1>6 DEF Stack
  <2>2. \A p \in 1 .. U : p \in Pages
    BY <1>1, StackIs
  <2>3. {p \in 1 .. U : X[p] = 0} = {p \in 1 .. U : R[p] = 0}
    BY <2>2, <1>6
  <2> QED BY <1>1, <2>1, <2>3 DEF Stack
<1>8. PoolSound(z)
  <2>1. z.refs = X /\ z.free = F /\ z.used = U
    BY <1>5
  <2> QED BY <2>1, <1>5, <1>7, PoolParts
<1> QED BY <1>3, <1>5, <1>8 DEF z, R

\* Pieces of a list of handles.
LEMMA SubHandles ==
    ASSUME NEW hs \in Seq(Handles), NEW a \in Nat \ {0}, NEW b \in 0 .. Len(hs)
    PROVE  /\ SubSeq(hs, a, b) \in Seq(Handles)
           /\ Len(SubSeq(hs, a, b)) = IF a <= b THEN b - a + 1 ELSE 0
           /\ \A i \in DOMAIN SubSeq(hs, a, b) : /\ SubSeq(hs, a, b)[i] = hs[a + i - 1]
                                                 /\ a + i - 1 \in a .. b
                                                 /\ a + i - 1 \in DOMAIN hs
           /\ \A p : p \in Indices(SubSeq(hs, a, b)) <=> \E i \in a .. b : Index(hs[i]) = p
           /\ Distinct(hs) => Distinct(SubSeq(hs, a, b))
<1> DEFINE c == SubSeq(hs, a, b)
<1>1. Len(hs) \in Nat /\ DOMAIN hs = 1 .. Len(hs) /\ b \in Nat /\ b <= Len(hs)
  OBVIOUS
<1>2. \A i \in a .. b : hs[i] \in Handles
  BY <1>1
<1>3. /\ c \in Seq(Handles) /\ Len(c) = IF a <= b THEN b - a + 1 ELSE 0
      /\ \A i \in 1 .. b - a + 1 : c[i] = hs[a + i - 1]
  BY <1>1, <1>2, SubSeqProperties
<1> HIDE DEF c
<1>4. DOMAIN c = 1 .. Len(c) /\ Len(c) \in Nat
  BY <1>3
<1>5. \A i \in 1 .. Len(c) : /\ i \in 1 .. b - a + 1 /\ a + i - 1 \in a .. b
                             /\ a + i - 1 \in DOMAIN hs
  BY <1>1, <1>3, <1>4
<1>6. \A i \in DOMAIN c : c[i] = hs[a + i - 1] /\ a + i - 1 \in a .. b /\ a + i - 1 \in DOMAIN hs
  BY <1>3, <1>4, <1>5
<1>7. \A j \in a .. b : \E i \in DOMAIN c : c[i] = hs[j]
  <2> SUFFICES ASSUME NEW j \in a .. b PROVE \E i \in DOMAIN c : c[i] = hs[j]
    OBVIOUS
  <2>1. j - a + 1 \in 1 .. Len(c) /\ a + (j - a + 1) - 1 = j
    BY <1>1, <1>3
  <2> QED BY <2>1, <1>4, <1>6
<1>8. \A p : p \in Indices(c) <=> \E i \in a .. b : Index(hs[i]) = p
  <2> TAKE p
  <2>1. ASSUME p \in Indices(c) PROVE \E i \in a .. b : Index(hs[i]) = p
    <3>1. PICK i \in DOMAIN c : Index(c[i]) = p
      BY <2>1, IndicesIs
    <3> QED BY <3>1, <1>6
  <2>2. ASSUME NEW i \in a .. b, Index(hs[i]) = p PROVE p \in Indices(c)
    BY <2>2, <1>7, IndicesIs
  <2> QED BY <2>1, <2>2
<1>9. ASSUME Distinct(hs) PROVE Distinct(c)
  <2> SUFFICES ASSUME NEW i \in DOMAIN c, NEW j \in DOMAIN c, Index(c[i]) = Index(c[j])
               PROVE  i = j
    BY DEF Distinct
  <2>1. a + i - 1 = a + j - 1
    BY <1>6, <1>9 DEF Distinct
  <2>2. i \in Nat /\ j \in Nat
    BY <1>4
  <2> QED BY <2>1, <2>2
<1> QED BY <1>3, <1>6, <1>8, <1>9 DEF c

\* The reverse of handles has the same pages, each once.
LEMMA ReversedIs ==
    ASSUME NEW hs \in Seq(Handles), Distinct(hs)
    PROVE  /\ Reversed(hs) \in Seq(Handles) /\ Distinct(Reversed(hs))
           /\ Indices(Reversed(hs)) = Indices(hs)
<1> DEFINE c == Reversed(hs)
           n == Len(hs)
<1>1. n \in Nat /\ DOMAIN hs = 1 .. n
  OBVIOUS
<1>2. DOMAIN c = 1 .. n /\ c = [i \in 1 .. n |-> c[i]] /\ \A i \in 1 .. n : c[i] = hs[n + 1 - i]
  BY DEF Reversed
<1> HIDE DEF c, n
<1>3. \A i \in 1 .. n : n + 1 - i \in 1 .. n
  BY <1>1
<1>4. c \in Seq(Handles)
  BY <1>1, <1>2, <1>3
<1>5. Distinct(c)
  <2> SUFFICES ASSUME NEW i \in 1 .. n, NEW j \in 1 .. n, Index(c[i]) = Index(c[j])
               PROVE  i = j
    BY <1>2 DEF Distinct
  <2>1. n + 1 - i = n + 1 - j
    BY <1>1, <1>2, <1>3 DEF Distinct
  <2> QED BY <2>1, <1>1
<1>6. \A j \in 1 .. n : \E i \in 1 .. n : c[i] = hs[j]
  <2> SUFFICES ASSUME NEW j \in 1 .. n PROVE \E i \in 1 .. n : c[i] = hs[j]
    OBVIOUS
  <2>1. n + 1 - j \in 1 .. n /\ n + 1 - (n + 1 - j) = j
    BY <1>1
  <2> QED BY <2>1, <1>2
<1>7. \A p : p \in Indices(c) <=> p \in Indices(hs)
  <2> TAKE p
  <2>1. ASSUME p \in Indices(c) PROVE p \in Indices(hs)
    BY <2>1, <1>1, <1>2, <1>3, IndicesIs
  <2>2. ASSUME p \in Indices(hs) PROVE p \in Indices(c)
    BY <2>2, <1>1, <1>2, <1>6, IndicesIs
  <2> QED BY <2>1, <2>2
<1> QED BY <1>4, <1>5, <1>7 DEF c

\* A fork gives the pages it keeps one more reference, and no other page any.
LEMMA ForkedIs ==
    ASSUME NEW q, PoolSound(q), NEW t, t.pages \in Seq(Handles), Distinct(t.pages), NEW n,
           \A p \in Indices(t.pages) : q.refs[p] > 0,
           DivCeil(n, PageTokens) \in 0 .. Len(t.pages)
    PROVE  /\ PoolSound(Forked(q, t, n))
           /\ Forked(q, t, n).gen = q.gen
           /\ \A p \in Pages : p \in Indices(KeptPages(t, n)) =>
                 Forked(q, t, n).refs[p] = q.refs[p] + 1
           /\ \A p \in Pages : p \notin Indices(KeptPages(t, n)) =>
                 Forked(q, t, n).refs[p] = q.refs[p]
<1> DEFINE hs == t.pages
           d == DivCeil(n, PageTokens)
           kept == SubSeq(hs, 1, d)
           rest == SubSeq(hs, d + 1, Len(hs))
           y == Retain(q, hs)
           z == Release(y, rest)
<1>1. /\ hs \in Seq(Handles) /\ Distinct(hs) /\ d \in 0 .. Len(hs) /\ Len(hs) \in Nat
      /\ DOMAIN hs = 1 .. Len(hs)
  OBVIOUS
<1>2. z = Forked(q, t, n) /\ kept = KeptPages(t, n)
  BY DEF Forked, KeptPages
<1>3. \A p \in Indices(hs) : p \in Pages /\ q.refs[p] > 0
  <2>1. \A i \in DOMAIN hs : Index(hs[i]) \in Pages
    BY <1>1 DEF Handles, Index
  <2> QED BY <2>1, IndicesIs
<1> HIDE DEF hs, d
<1>4. /\ PoolSound(y) /\ y.gen = q.gen
      /\ \A p \in Pages : p \in Indices(hs) => y.refs[p] = q.refs[p] + 1
      /\ \A p \in Pages : p \notin Indices(hs) => y.refs[p] = q.refs[p]
  BY <1>3, RetainIs
<1>5. d + 1 \in Nat \ {0} /\ d \in Nat /\ Len(hs) \in 0 .. Len(hs)
  BY <1>1
<1>6. /\ rest \in Seq(Handles) /\ Distinct(rest)
      /\ \A p : p \in Indices(rest) <=> \E i \in d + 1 .. Len(hs) : Index(hs[i]) = p
  BY <1>1, <1>5, SubHandles
<1>7. \A p : p \in Indices(kept) <=> \E i \in 1 .. d : Index(hs[i]) = p
  BY <1>1, <1>5, SubHandles
<1> HIDE DEF kept, rest, y, z
<1>8. \A p : p \in Indices(hs) <=> p \in Indices(kept) \/ p \in Indices(rest)
  <2>1. \A i \in 1 .. Len(hs) : i \in 1 .. d \/ i \in d + 1 .. Len(hs)
    BY <1>1
  <2>2. \A i : (i \in 1 .. d \/ i \in d + 1 .. Len(hs)) => i \in 1 .. Len(hs)
    BY <1>1
  <2> QED BY <2>1, <2>2, <1>1, <1>6, <1>7, IndicesIs
<1>9. \A p : ~(p \in Indices(kept) /\ p \in Indices(rest))
  <2> SUFFICES ASSUME NEW i \in 1 .. d, NEW j \in d + 1 .. Len(hs), Index(hs[i]) = Index(hs[j])
               PROVE  FALSE
    BY <1>6, <1>7
  <2>1. i \in DOMAIN hs /\ j \in DOMAIN hs /\ i # j
    BY <1>1
  <2> QED BY <2>1, <1>1 DEF Distinct
<1>10. q.refs \in [Pages -> Nat]
  BY PoolFields DEF PoolSound
<1>11. \A p \in Indices(rest) : p \in Pages /\ y.refs[p] = q.refs[p] + 1 /\ y.refs[p] > 0
  BY <1>3, <1>4, <1>8, <1>10
<1>12. /\ PoolSound(z) /\ z.gen = y.gen
       /\ \A p \in Pages : p \in Indices(rest) => z.refs[p] = y.refs[p] - 1
       /\ \A p \in Pages : p \notin Indices(rest) => z.refs[p] = y.refs[p]
  BY <1>4, <1>6, <1>11, ReleaseIs DEF z
<1>13. \A p \in Pages : p \in Indices(kept) => z.refs[p] = q.refs[p] + 1
  BY <1>4, <1>8, <1>9, <1>12
<1>14. \A p \in Pages : p \notin Indices(kept) => z.refs[p] = q.refs[p]
  <2> SUFFICES ASSUME NEW p \in Pages, p \notin Indices(kept) PROVE z.refs[p] = q.refs[p]
    OBVIOUS
  <2>1. CASE p \in Indices(rest)
    <3>1. z.refs[p] = y.refs[p] - 1 /\ y.refs[p] = q.refs[p] + 1
      BY <2>1, <1>11, <1>12
    <3> QED BY <3>1, <1>10
  <2>2. CASE p \notin Indices(rest)
    BY <2>2, <1>4, <1>8, <1>12
  <2> QED BY <2>1, <2>2
<1> QED BY <1>2, <1>4, <1>12, <1>13, <1>14

\* A reservation taken back leaves every reference as it was; only pages that
\* nobody refers to have begun another life.
LEMMA TakenBack ==
    ASSUME NEW q, PoolSound(q), NEW k \in Nat, k <= Available(q)
    PROVE  /\ PoolSound(Undone(Reserve(q, k), PickedHandles(q, k)))
           /\ \A p \in Pages :
                 Undone(Reserve(q, k), PickedHandles(q, k)).refs[p] = q.refs[p]
           /\ \A p \in Pages : q.refs[p] > 0 =>
                 Undone(Reserve(q, k), PickedHandles(q, k)).gen[p] = q.gen[p]
<1> DEFINE y == Reserve(q, k)
           hs == PickedHandles(q, k)
           z == Undone(y, hs)
<1>1. /\ PoolSound(y)
      /\ \A p \in Pages : p \in Indices(hs) => q.refs[p] = 0 /\ y.refs[p] = 1
      /\ \A p \in Pages : p \notin Indices(hs) => y.refs[p] = q.refs[p] /\ y.gen[p] = q.gen[p]
  BY ReserveIs
<1>2. hs \in Seq(Handles) /\ Distinct(hs) /\ \A p \in Indices(hs) : p \in Pages
  BY PickedIs
<1> HIDE DEF y, hs
<1>3. /\ Reversed(hs) \in Seq(Handles) /\ Distinct(Reversed(hs))
      /\ Indices(Reversed(hs)) = Indices(hs)
  BY <1>2, ReversedIs
<1>4. \A p \in Indices(hs) : y.refs[p] > 0
  BY <1>1, <1>2
<1>5. /\ PoolSound(z) /\ z.gen = y.gen
      /\ \A p \in Pages : p \in Indices(hs) => z.refs[p] = y.refs[p] - 1
      /\ \A p \in Pages : p \notin Indices(hs) => z.refs[p] = y.refs[p]
  BY <1>1, <1>3, <1>4, ReleaseIs DEF Undone
<1> HIDE DEF z
<1>6. \A p \in Pages : z.refs[p] = q.refs[p]
  BY <1>1, <1>5
<1>7. \A p \in Pages : q.refs[p] > 0 => z.gen[p] = q.gen[p]
  BY <1>1, <1>5
<1> QED BY <1>5, <1>6, <1>7 DEF y, hs, z

(***************************************************************************)
(* Who holds a page: tables, the retained prefix, pending appends.         *)
(***************************************************************************)

Pending == [seq : Sessions, from : Nat, pages : Seq(Handles), alloc : Seq(Handles),
            cow : BOOLEAN]

TabHold(T, p)  == {s \in DOMAIN T : p \in Indices(T[s].pages)}
PreHold(C, p)  == {c \in C : p \in Indices(c.table.pages)}
PendHold(D, p) == {i \in DOMAIN D : p \in Indices(D[i].alloc)}
Of(b) == IF b THEN 1 ELSE 0

\* The holders of the model, counted by kind.
LEMMA HoldersAre ==
    ASSUME NEW p
    PROVE  Holders(p) = Cardinality(TabHold(tables, p)) + Cardinality(PreHold(cached, p))
                      + Cardinality(PendHold(op.pend, p))
BY DEF Holders, TabHold, PreHold, PendHold

\* A table that is put, changed or removed counts by itself.
LEMMA TabCount ==
    ASSUME NEW T, NEW s, NEW p, IsFiniteSet(DOMAIN T)
    PROVE  /\ Cardinality(TabHold(T, p)) \in Nat /\ IsFiniteSet(TabHold(T, p))
           /\ Cardinality(TabHold(T, p) \ {s}) \in Nat
           /\ s \in TabHold(T, p) =>
                Cardinality(TabHold(T, p)) = Cardinality(TabHold(T, p) \ {s}) + 1
           /\ s \notin TabHold(T, p) =>
                Cardinality(TabHold(T, p)) = Cardinality(TabHold(T, p) \ {s})
<1> DEFINE H == TabHold(T, p)
<1>1. H \in SUBSET DOMAIN T
  BY DEF TabHold
<1> HIDE DEF H
<1>2. IsFiniteSet(H)
  BY <1>1, FS_Subset
<1>3. Cardinality(H) \in Nat
  BY <1>2, FS_CardinalityType
<1>4. IsFiniteSet(H \ {s}) /\ Cardinality(H \ {s}) = IF s \in H THEN Cardinality(H) - 1 ELSE Cardinality(H)
  BY <1>2, FS_RemoveElement
<1>5. Cardinality(H \ {s}) \in Nat
  BY <1>4, FS_CardinalityType
<1> QED BY <1>2, <1>3, <1>4, <1>5 DEF H

\* Tables that differ only in one sequence have the same other holders.
LEMMA TabOthers ==
    ASSUME NEW T, NEW T2, NEW s, NEW p,
           \A x : x # s => (x \in DOMAIN T <=> x \in DOMAIN T2),
           \A x \in DOMAIN T : x # s => T2[x] = T[x]
    PROVE  TabHold(T2, p) \ {s} = TabHold(T, p) \ {s}
BY DEF TabHold

\* The retained prefix holds a page once or not at all.
LEMMA PreCount ==
    ASSUME NEW C, NEW p, IsFiniteSet(C), Cardinality(C) <= 1
    PROVE  /\ Cardinality(PreHold(C, p)) \in {0, 1}
           /\ Cardinality(PreHold(C, p)) = 1 <=> \E c \in C : p \in Indices(c.table.pages)
<1> DEFINE H == PreHold(C, p)
<1>1. H \in SUBSET C
  BY DEF PreHold
<1>2. H # {} <=> \E c \in C : p \in Indices(c.table.pages)
  BY DEF PreHold
<1> HIDE DEF H
<1>3. IsFiniteSet(H) /\ Cardinality(H) <= Cardinality(C) /\ Cardinality(C) \in Nat
  BY <1>1, FS_Subset, FS_CardinalityType
<1>4. Cardinality(H) \in Nat /\ (Cardinality(H) = 0 <=> H = {})
  BY <1>3, FS_CardinalityType, FS_EmptySet
<1>5. Cardinality(H) \in {0, 1}
  BY <1>3, <1>4
<1> QED BY <1>2, <1>4, <1>5 DEF H

\* The one retained prefix.
LEMMA OnlyOne ==
    ASSUME NEW C, IsFiniteSet(C), Cardinality(C) <= 1, NEW c \in C
    PROVE  C = {c} /\ (CHOOSE x \in C : TRUE) = c
<1>1. Cardinality(C) \in Nat /\ (Cardinality(C) = 0 <=> C = {})
  BY FS_CardinalityType, FS_EmptySet
<1>2. Cardinality(C) = 1
  BY <1>1
<1>3. PICK x : C = {x}
  BY <1>2, FS_Singleton
<1> QED BY <1>3

\* The pending appends that reserved a page.
LEMMA PendCount ==
    ASSUME NEW D \in Seq(Pending), NEW p
    PROVE  /\ IsFiniteSet(PendHold(D, p)) /\ Cardinality(PendHold(D, p)) \in Nat
           /\ \A i \in DOMAIN D : p \in Indices(D[i].alloc) => Cardinality(PendHold(D, p)) >= 1
           /\ \A i, j \in DOMAIN D : Cardinality(PendHold(D, p)) = 1 /\ p \in Indices(D[i].alloc)
                                     /\ p \in Indices(D[j].alloc) => i = j
           /\ D = <<>> => Cardinality(PendHold(D, p)) = 0
<1> DEFINE H == PendHold(D, p)
<1>1. /\ H \in SUBSET DOMAIN D
      /\ \A i \in DOMAIN D : p \in Indices(D[i].alloc) => i \in H
      /\ D = <<>> => H = {}
  BY DEF PendHold
<1>2. IsFiniteSet(DOMAIN D)
  BY FS_Interval
<1> HIDE DEF H
<1>3. IsFiniteSet(H)
  BY <1>1, <1>2, FS_Subset
<1>4. Cardinality(H) \in Nat /\ (Cardinality(H) = 0 <=> H = {})
  BY <1>3, FS_CardinalityType, FS_EmptySet
<1>5. Cardinality(H) = 1 => \E x : H = {x}
  BY <1>3, FS_Singleton
<1>6. \A i \in DOMAIN D : p \in Indices(D[i].alloc) => Cardinality(H) >= 1
  BY <1>1, <1>4
<1>7. \A i, j \in DOMAIN D : Cardinality(H) = 1 /\ p \in Indices(D[i].alloc)
                             /\ p \in Indices(D[j].alloc) => i = j
  BY <1>1, <1>5
<1> QED BY <1>1, <1>3, <1>4, <1>6, <1>7 DEF H

\* One pending append more.
LEMMA PendAppend ==
    ASSUME NEW D \in Seq(Pending), NEW r \in Pending, NEW p
    PROVE  /\ p \in Indices(r.alloc) =>
                Cardinality(PendHold(Append(D, r), p)) = Cardinality(PendHold(D, p)) + 1
           /\ p \notin Indices(r.alloc) =>
                Cardinality(PendHold(Append(D, r), p)) = Cardinality(PendHold(D, p))
<1> DEFINE E == Append(D, r)
           n == Len(D)
           H == PendHold(D, p)
           G == PendHold(E, p)
<1>1. /\ n \in Nat /\ DOMAIN D = 1 .. n /\ DOMAIN E = 1 .. n + 1
      /\ \A i \in 1 .. n : E[i] = D[i]
      /\ E[n + 1] = r
  OBVIOUS
<1> HIDE DEF E, n
<1>2. p \in Indices(r.alloc) => G = H \cup {n + 1}
  BY <1>1 DEF PendHold
<1>3. p \notin Indices(r.alloc) => G = H
  BY <1>1 DEF PendHold
<1>4. n + 1 \notin H
  BY <1>1 DEF PendHold
<1>5. IsFiniteSet(H)
  BY PendCount
<1> HIDE DEF H, G
<1>6. Cardinality(H \cup {n + 1}) = Cardinality(H) + 1
  BY <1>4, <1>5, FS_AddElement
<1> QED BY <1>2, <1>3, <1>6 DEF E, H, G

\* The last pending append taken away (an abort).
LEMMA PendFront ==
    ASSUME NEW D \in Seq(Pending), D # <<>>, NEW p
    PROVE  /\ p \in Indices(D[Len(D)].alloc) =>
                Cardinality(PendHold(SubSeq(D, 1, Len(D) - 1), p)) = Cardinality(PendHold(D, p)) - 1
           /\ p \notin Indices(D[Len(D)].alloc) =>
                Cardinality(PendHold(SubSeq(D, 1, Len(D) - 1), p)) = Cardinality(PendHold(D, p))
<1> DEFINE n == Len(D)
           E == SubSeq(D, 1, n - 1)
           H == PendHold(D, p)
           G == PendHold(E, p)
<1>1. n \in Nat \ {0} /\ DOMAIN D = 1 .. n
  OBVIOUS
<1>2. \A i \in 1 .. n - 1 : D[i] \in Pending
  BY <1>1
<1>3. E \in Seq(Pending) /\ Len(E) = n - 1 /\ \A i \in 1 .. n - 1 : E[i] = D[i]
  BY <1>1, <1>2, SubSeqProperties
<1>4. DOMAIN E = 1 .. n - 1
  BY <1>3
<1> HIDE DEF E, n
<1>5. G = H \ {n}
  BY <1>1, <1>3, <1>4 DEF PendHold
<1>6. n \in H <=> p \in Indices(D[n].alloc)
  BY <1>1 DEF PendHold
<1>7. IsFiniteSet(H)
  BY PendCount
<1> HIDE DEF H, G
<1>8. Cardinality(H \ {n}) = IF n \in H THEN Cardinality(H) - 1 ELSE Cardinality(H)
  BY <1>7, FS_RemoveElement
<1> QED BY <1>5, <1>6, <1>8 DEF E, n, H, G

\* The first pending append taken away (a commit).
LEMMA PendTail ==
    ASSUME NEW D \in Seq(Pending), D # <<>>, NEW p
    PROVE  /\ p \in Indices(D[1].alloc) =>
                Cardinality(PendHold(Tail(D), p)) = Cardinality(PendHold(D, p)) - 1
           /\ p \notin Indices(D[1].alloc) =>
                Cardinality(PendHold(Tail(D), p)) = Cardinality(PendHold(D, p))
<1> DEFINE n == Len(D)
           E == Tail(D)
           H == PendHold(D, p)
           G == PendHold(E, p)
           f == [i \in G |-> i + 1]
<1>1. n \in Nat \ {0} /\ DOMAIN D = 1 .. n
  OBVIOUS
<1>2. E \in Seq(Pending) /\ Len(E) = n - 1 /\ \A i \in 1 .. n - 1 : E[i] = D[i + 1]
  BY <1>1, HeadTailProperties
<1>3. DOMAIN E = 1 .. n - 1
  BY <1>2
<1> HIDE DEF E, n
<1>4. \A i \in G : i \in 1 .. n - 1 /\ i + 1 \in H \ {1}
  BY <1>1, <1>2, <1>3 DEF PendHold
<1>5. \A j \in H \ {1} : j - 1 \in G /\ (j - 1) + 1 = j
  <2> SUFFICES ASSUME NEW j \in H, j # 1 PROVE j - 1 \in G /\ (j - 1) + 1 = j
    OBVIOUS
  <2>1. j \in 1 .. n /\ p \in Indices(D[j].alloc)
    BY <1>1 DEF PendHold
  <2>2. j - 1 \in 1 .. n - 1 /\ (j - 1) + 1 = j
    BY <2>1, <1>1
  <2>3. E[j - 1] = D[j]
    BY <2>2, <1>2
  <2> QED BY <2>1, <2>2, <2>3, <1>3 DEF PendHold
<1>6. IsFiniteSet(H) /\ IsFiniteSet(G)
  BY <1>2, PendCount
<1>7. 1 \in H <=> p \in Indices(D[1].alloc)
  BY <1>1 DEF PendHold
<1> HIDE DEF H, G
<1>8. f \in Bijection(G, H \ {1})
  <2>1. f \in [G -> H \ {1}]
    BY <1>4
  <2>2. \A i, j \in G : f[i] = f[j] => i = j
    BY <1>4, <1>1
  <2>3. \A j \in H \ {1} : \E i \in G : f[i] = j
    BY <1>5
  <2> HIDE DEF f
  <2> QED BY <2>1, <2>2, <2>3 DEF Bijection, Injection, Surjection, IsInjective
<1>9. Cardinality(H \ {1}) = Cardinality(G)
  BY <1>6, <1>8, FS_Bijection DEF ExistsBijection
<1>10. Cardinality(H \ {1}) = IF 1 \in H THEN Cardinality(H) - 1 ELSE Cardinality(H)
  BY <1>6, FS_RemoveElement
<1> QED BY <1>7, <1>9, <1>10 DEF E, H, G

Entries == [table : Tables, toks : Seq(Tokens)]
Fits(t) == Len(t.pages) = DivCeil(t.len, PageTokens)
Sane(t) == t \in Tables /\ Fits(t) /\ Distinct(t.pages)

Cnt(T, C, D, p) ==
    Cardinality(TabHold(T, p)) + Cardinality(PreHold(C, p)) + Cardinality(PendHold(D, p))

\* Tables, prefix and pending appends, as such.
Store(T, C, D) ==
    /\ T \in [DOMAIN T -> Tables] /\ DOMAIN T \subseteq Sessions
    /\ \A s \in DOMAIN T : Sane(T[s])
    /\ C \subseteq Entries /\ IsFiniteSet(C) /\ Cardinality(C) <= 1
    /\ \A c \in C : Sane(c.table)
    /\ D \in Seq(Pending)
    /\ \A i \in DOMAIN D : Distinct(D[i].alloc)

\* The pool counts exactly those who refer to its pages; a reserved page is referred
\* to by its reservation alone.
Refers(q, T, C, D) ==
    /\ PoolSound(q)
    /\ \A p \in Pages : q.refs[p] = Cnt(T, C, D, p)
    /\ \A s \in DOMAIN T : AllLive(q, T[s].pages)
    /\ \A c \in C : AllLive(q, c.table.pages)
    /\ \A i \in DOMAIN D : AllLive(q, D[i].alloc)
    /\ \A i \in DOMAIN D : \A p \in Indices(D[i].alloc) : q.refs[p] = 1

\* Live handles name pages with references.
LEMMA LivePages ==
    ASSUME NEW q, NEW hs \in Seq(Handles), AllLive(q, hs)
    PROVE  \A p \in Indices(hs) : p \in Pages /\ q.refs[p] > 0
<1>1. \A i \in DOMAIN hs : Index(hs[i]) \in Pages /\ q.refs[Index(hs[i])] > 0
  BY DEF AllLive, Live, Handles, Index
<1> QED BY <1>1, IndicesIs

\* Handles stay live while generations stay and counts stay above zero.
LEMMA LiveStays ==
    ASSUME NEW q, NEW z, NEW hs, AllLive(q, hs),
           \A p \in Indices(hs) : z.gen[p] = q.gen[p] /\ z.refs[p] > 0
    PROVE  AllLive(z, hs)
<1> SUFFICES ASSUME NEW i \in DOMAIN hs PROVE Live(z, hs[i])
  BY DEF AllLive
<1>1. Index(hs[i]) \in Indices(hs)
  BY IndicesIs
<1>2. q.gen[Index(hs[i])] = Generation(hs[i])
  BY DEF AllLive, Live
<1> QED BY <1>1, <1>2 DEF Live

\* What the tables, the prefix and the appends are.
LEMMA StoreFacts ==
    ASSUME NEW T, NEW C, NEW D, Store(T, C, D)
    PROVE  /\ IsFiniteSet(DOMAIN T)
           /\ \A s \in DOMAIN T : /\ s \in Sessions /\ T[s] \in Tables
                                  /\ T[s].pages \in Seq(Handles) /\ T[s].len \in Nat
                                  /\ Fits(T[s]) /\ Distinct(T[s].pages)
           /\ IsFiniteSet(C) /\ Cardinality(C) <= 1
           /\ \A c \in C : /\ c.table \in Tables /\ c.toks \in Seq(Tokens)
                           /\ c.table.pages \in Seq(Handles) /\ c.table.len \in Nat
                           /\ Fits(c.table) /\ Distinct(c.table.pages)
           /\ D \in Seq(Pending)
           /\ \A i \in DOMAIN D : D[i] \in Pending /\ D[i].alloc \in Seq(Handles)
                                  /\ Distinct(D[i].alloc)
<1> USE DEF Store
<1>1. IsFiniteSet(DOMAIN T)
  BY FS_Subset, SessionAssumption
<1>2. \A s \in DOMAIN T : /\ s \in Sessions /\ T[s] \in Tables
                          /\ T[s].pages \in Seq(Handles) /\ T[s].len \in Nat
                          /\ Fits(T[s]) /\ Distinct(T[s].pages)
  BY DEF Sane, Tables
<1>3. \A c \in C : /\ c.table \in Tables /\ c.toks \in Seq(Tokens)
                   /\ c.table.pages \in Seq(Handles) /\ c.table.len \in Nat
                   /\ Fits(c.table) /\ Distinct(c.table.pages)
  BY DEF Sane, Tables, Entries
<1>4. \A i \in DOMAIN D : D[i] \in Pending /\ D[i].alloc \in Seq(Handles) /\ Distinct(D[i].alloc)
  <2>1. \A i \in DOMAIN D : D[i] \in Pending /\ Distinct(D[i].alloc)
    OBVIOUS
  <2>2. \A r \in Pending : r.alloc \in Seq(Handles)
    BY DEF Pending
  <2> QED BY <2>1, <2>2
<1> QED BY <1>1, <1>2, <1>3, <1>4

\* The three counts are numbers.
LEMMA CountFacts ==
    ASSUME NEW T, NEW C, NEW D, Store(T, C, D), NEW p
    PROVE  /\ Cardinality(TabHold(T, p)) \in Nat /\ Cardinality(PreHold(C, p)) \in Nat
           /\ Cardinality(PendHold(D, p)) \in Nat /\ IsFiniteSet(TabHold(T, p))
<1>1. Cardinality(TabHold(T, p)) \in Nat /\ IsFiniteSet(TabHold(T, p))
  BY StoreFacts, TabCount
<1>2. Cardinality(PreHold(C, p)) \in Nat
  BY StoreFacts, PreCount
<1>3. Cardinality(PendHold(D, p)) \in Nat
  BY StoreFacts, PendCount
<1> QED BY <1>1, <1>2, <1>3

\* What every reference is worth: a page with one holder has no other.
LEMMA RefFacts ==
    ASSUME NEW q, NEW T, NEW C, NEW D, Store(T, C, D), Refers(q, T, C, D)
    PROVE  /\ q.refs \in [Pages -> Nat] /\ q.gen \in [Pages -> Nat] /\ q \in Pools
           /\ \A s \in DOMAIN T : \A p \in Indices(T[s].pages) : p \in Pages /\ q.refs[p] > 0
           /\ \A c \in C : \A p \in Indices(c.table.pages) : p \in Pages /\ q.refs[p] > 0
           /\ \A i \in DOMAIN D : \A p \in Indices(D[i].alloc) : p \in Pages /\ q.refs[p] = 1
           /\ \A i \in DOMAIN D : \A p \in Indices(D[i].alloc) :
                 /\ \A s \in DOMAIN T : p \notin Indices(T[s].pages)
                 /\ \A c \in C : p \notin Indices(c.table.pages)
                 /\ \A j \in DOMAIN D : p \in Indices(D[j].alloc) => i = j
           /\ \A s \in DOMAIN T : \A p \in Indices(T[s].pages) : q.refs[p] = 1 =>
                 /\ \A x \in DOMAIN T : p \in Indices(T[x].pages) => x = s
                 /\ \A c \in C : p \notin Indices(c.table.pages)
<1>1. q.refs \in [Pages -> Nat] /\ q.gen \in [Pages -> Nat] /\ q \in Pools
  BY PoolFields DEF Refers, PoolSound
<1>2. \A s \in DOMAIN T : \A p \in Indices(T[s].pages) : p \in Pages /\ q.refs[p] > 0
  BY LivePages, StoreFacts DEF Refers
<1>3. \A c \in C : \A p \in Indices(c.table.pages) : p \in Pages /\ q.refs[p] > 0
  BY LivePages, StoreFacts DEF Refers
<1>4. \A i \in DOMAIN D : \A p \in Indices(D[i].alloc) : p \in Pages /\ q.refs[p] = 1
  BY LivePages, StoreFacts DEF Refers
<1>5. \A p \in Pages : q.refs[p] = Cardinality(TabHold(T, p)) + Cardinality(PreHold(C, p))
                                   + Cardinality(PendHold(D, p))
  BY DEF Refers, Cnt
<1>6. \A p : /\ Cardinality(TabHold(T, p)) \in Nat /\ Cardinality(PreHold(C, p)) \in Nat
             /\ Cardinality(PendHold(D, p)) \in Nat /\ IsFiniteSet(TabHold(T, p))
  BY CountFacts
<1>7. ASSUME NEW s \in DOMAIN T, NEW p, p \in Indices(T[s].pages)
      PROVE  /\ Cardinality(TabHold(T, p)) >= 1
             /\ Cardinality(TabHold(T, p)) = 1 =>
                  \A x \in DOMAIN T : p \in Indices(T[x].pages) => x = s
  <2>1. s \in TabHold(T, p) /\ \A x \in DOMAIN T : p \in Indices(T[x].pages) => x \in TabHold(T, p)
    BY <1>7 DEF TabHold
  <2>2. Cardinality(TabHold(T, p)) # 0
    BY <2>1, <1>6, FS_EmptySet
  <2>3. Cardinality(TabHold(T, p)) = 1 => \E x : TabHold(T, p) = {x}
    BY <1>6, FS_Singleton
  <2> QED BY <2>1, <2>2, <2>3, <1>6
<1>8. ASSUME NEW c \in C, NEW p, p \in Indices(c.table.pages)
      PROVE  Cardinality(PreHold(C, p)) = 1
  BY <1>8, StoreFacts, PreCount
<1>9. \A i \in DOMAIN D : \A p \in Indices(D[i].alloc) :
         /\ \A s \in DOMAIN T : p \notin Indices(T[s].pages)
         /\ \A c \in C : p \notin Indices(c.table.pages)
         /\ \A j \in DOMAIN D : p \in Indices(D[j].alloc) => i = j
  <2> SUFFICES ASSUME NEW i \in DOMAIN D, NEW p \in Indices(D[i].alloc)
               PROVE  /\ \A s \in DOMAIN T : p \notin Indices(T[s].pages)
                      /\ \A c \in C : p \notin Indices(c.table.pages)
                      /\ \A j \in DOMAIN D : p \in Indices(D[j].alloc) => i = j
    OBVIOUS
  <2>0. D \in Seq(Pending)
    BY StoreFacts
  <2>1. Cardinality(PendHold(D, p)) >= 1
    BY <2>0, PendCount
  <2>2. /\ Cardinality(TabHold(T, p)) = 0 /\ Cardinality(PreHold(C, p)) = 0
        /\ Cardinality(PendHold(D, p)) = 1
    BY <2>1, <1>4, <1>5, <1>6
  <2>3. \A j \in DOMAIN D : p \in Indices(D[j].alloc) => i = j
    BY <2>0, <2>2, PendCount
  <2>4. \A s \in DOMAIN T : p \notin Indices(T[s].pages)
    BY <2>2, <1>7
  <2>5. \A c \in C : p \notin Indices(c.table.pages)
    BY <2>2, <1>8
  <2> QED BY <2>3, <2>4, <2>5
<1>10. \A s \in DOMAIN T : \A p \in Indices(T[s].pages) : q.refs[p] = 1 =>
          /\ \A x \in DOMAIN T : p \in Indices(T[x].pages) => x = s
          /\ \A c \in C : p \notin Indices(c.table.pages)
  <2> SUFFICES ASSUME NEW s \in DOMAIN T, NEW p \in Indices(T[s].pages), q.refs[p] = 1
               PROVE  /\ \A x \in DOMAIN T : p \in Indices(T[x].pages) => x = s
                      /\ \A c \in C : p \notin Indices(c.table.pages)
    OBVIOUS
  <2>1. Cardinality(TabHold(T, p)) >= 1
    BY <1>7
  <2>2. Cardinality(TabHold(T, p)) = 1 /\ Cardinality(PreHold(C, p)) = 0
    BY <2>1, <1>2, <1>5, <1>6
  <2> QED BY <2>2, <1>7, <1>8
<1> QED BY <1>1, <1>2, <1>3, <1>4, <1>9, <1>10

\* A page reserved for an append has one reference, and nobody else has the page.
LEMMA AllocFacts ==
    ASSUME NEW q, NEW T, NEW C, NEW D, Store(T, C, D), Refers(q, T, C, D),
           NEW i \in DOMAIN D, NEW p \in Indices(D[i].alloc)
    PROVE  /\ p \in Pages /\ q.refs[p] = 1
           /\ \A s \in DOMAIN T : p \notin Indices(T[s].pages)
           /\ \A c \in C : p \notin Indices(c.table.pages)
           /\ \A j \in DOMAIN D : p \in Indices(D[j].alloc) => i = j
BY RefFacts

\* A page in a table has references; with only one, nobody else has the page.
LEMMA TableFacts ==
    ASSUME NEW q, NEW T, NEW C, NEW D, Store(T, C, D), Refers(q, T, C, D),
           NEW s \in DOMAIN T, NEW p \in Indices(T[s].pages)
    PROVE  /\ p \in Pages /\ q.refs[p] > 0
           /\ q.refs[p] = 1 => /\ \A x \in DOMAIN T : p \in Indices(T[x].pages) => x = s
                              /\ \A c \in C : p \notin Indices(c.table.pages)
BY RefFacts

\* Another pool with the same references, as lively where it is referred to.
LEMMA SameRefers ==
    ASSUME NEW q, NEW z, NEW T, NEW C, NEW D, Store(T, C, D), Refers(q, T, C, D),
           PoolSound(z), \A p \in Pages : z.refs[p] = q.refs[p],
           \A p \in Pages : q.refs[p] > 0 => z.gen[p] = q.gen[p]
    PROVE  Refers(z, T, C, D)
<1> DEFINE Kept(hs) == \A p \in Indices(hs) : p \in Pages /\ q.refs[p] > 0
<1>1. ASSUME NEW hs, AllLive(q, hs), Kept(hs) PROVE AllLive(z, hs)
  BY <1>1, LiveStays
<1>2. \A s \in DOMAIN T : Kept(T[s].pages)
  BY RefFacts
<1>3. \A c \in C : Kept(c.table.pages)
  BY RefFacts
<1>4. \A i \in DOMAIN D : Kept(D[i].alloc) /\ \A p \in Indices(D[i].alloc) : p \in Pages
  BY RefFacts
<1> HIDE DEF Kept
<1>5. /\ \A s \in DOMAIN T : AllLive(z, T[s].pages)
      /\ \A c \in C : AllLive(z, c.table.pages)
      /\ \A i \in DOMAIN D : AllLive(z, D[i].alloc)
  BY <1>1, <1>2, <1>3, <1>4 DEF Refers
<1>6. \A i \in DOMAIN D : \A p \in Indices(D[i].alloc) : z.refs[p] = 1
  BY <1>4 DEF Refers
<1> QED BY <1>5, <1>6 DEF Refers

\* A reservation for another append.
LEMMA ReserveRefers ==
    ASSUME NEW q, NEW T, NEW C, NEW D, Store(T, C, D), Refers(q, T, C, D),
           NEW k \in Nat, k <= Available(q), NEW r \in Pending, r.alloc = PickedHandles(q, k)
    PROVE  Refers(Reserve(q, k), T, C, Append(D, r))
<1> DEFINE z == Reserve(q, k)
           hs == PickedHandles(q, k)
           E == Append(D, r)
<1>1. /\ PoolSound(z) /\ AllLive(z, hs)
      /\ \A p \in Pages : p \in Indices(hs) => q.refs[p] = 0 /\ z.refs[p] = 1
      /\ \A p \in Pages : p \notin Indices(hs) => z.refs[p] = q.refs[p] /\ z.gen[p] = q.gen[p]
  BY ReserveIs DEF Refers
<1>2. \A p \in Indices(hs) : p \in Pages
  BY PickedIs DEF Refers
<1>3. D \in Seq(Pending)
  BY StoreFacts
<1>4. /\ Len(D) \in Nat /\ DOMAIN D = 1 .. Len(D) /\ DOMAIN E = 1 .. Len(D) + 1
      /\ \A i \in 1 .. Len(D) : E[i] = D[i]
      /\ E[Len(D) + 1] = r
  BY <1>3
<1>5. \A p : /\ p \in Indices(hs) => Cardinality(PendHold(E, p)) = Cardinality(PendHold(D, p)) + 1
             /\ p \notin Indices(hs) => Cardinality(PendHold(E, p)) = Cardinality(PendHold(D, p))
  BY <1>3, PendAppend
<1>6. \A p : /\ Cardinality(TabHold(T, p)) \in Nat /\ Cardinality(PreHold(C, p)) \in Nat
             /\ Cardinality(PendHold(D, p)) \in Nat
  BY CountFacts
<1> HIDE DEF z, hs, E
<1>7. \A p \in Pages : z.refs[p] = Cnt(T, C, E, p)
  <2> SUFFICES ASSUME NEW p \in Pages PROVE z.refs[p] = Cnt(T, C, E, p)
    OBVIOUS
  <2>1. q.refs[p] = Cardinality(TabHold(T, p)) + Cardinality(PreHold(C, p)) + Cardinality(PendHold(D, p))
    BY DEF Refers, Cnt
  <2>2. CASE p \in Indices(hs)
    <3>1. q.refs[p] = 0 /\ z.refs[p] = 1
      BY <2>2, <1>1
    <3>2. Cardinality(PendHold(E, p)) = Cardinality(PendHold(D, p)) + 1
      BY <2>2, <1>5
    <3> QED BY <2>1, <3>1, <3>2, <1>6 DEF Cnt
  <2>3. CASE p \notin Indices(hs)
    <3>1. z.refs[p] = q.refs[p] /\ Cardinality(PendHold(E, p)) = Cardinality(PendHold(D, p))
      BY <2>3, <1>1, <1>5
    <3> QED BY <2>1, <3>1 DEF Cnt
  <2> QED BY <2>2, <2>3
<1> DEFINE Kept(gs) == \A p \in Indices(gs) : p \in Pages /\ q.refs[p] > 0
<1>8. \A p \in Pages : q.refs[p] > 0 => p \notin Indices(hs)
  BY <1>1
<1>9. ASSUME NEW gs, AllLive(q, gs), Kept(gs) PROVE AllLive(z, gs)
  BY <1>1, <1>8, <1>9, LiveStays
<1>10. \A s \in DOMAIN T : Kept(T[s].pages)
  BY RefFacts
<1>11. \A c \in C : Kept(c.table.pages)
  BY RefFacts
<1>12. \A i \in DOMAIN D : Kept(D[i].alloc) /\ \A p \in Indices(D[i].alloc) : p \in Pages /\ q.refs[p] = 1
  BY RefFacts
<1> HIDE DEF Kept
<1>13. /\ \A s \in DOMAIN T : AllLive(z, T[s].pages)
       /\ \A c \in C : AllLive(z, c.table.pages)
       /\ \A i \in DOMAIN D : AllLive(z, D[i].alloc)
  BY <1>9, <1>10, <1>11, <1>12 DEF Refers
<1>14. \A i \in DOMAIN D : \A p \in Indices(D[i].alloc) : z.refs[p] = 1
  BY <1>1, <1>8, <1>12
<1>15. \A p \in Indices(hs) : z.refs[p] = 1
  BY <1>1, <1>2
<1>16. \A i \in DOMAIN E : (i \in DOMAIN D /\ E[i] = D[i]) \/ E[i] = r
  <2> SUFFICES ASSUME NEW i \in 1 .. Len(D) + 1 PROVE (i \in DOMAIN D /\ E[i] = D[i]) \/ E[i] = r
    BY <1>4
  <2>1. i \in 1 .. Len(D) \/ i = Len(D) + 1
    BY <1>4
  <2> QED BY <2>1, <1>4
<1>17. r.alloc = hs
  BY DEF hs
<1>18. /\ \A i \in DOMAIN E : AllLive(z, E[i].alloc)
       /\ \A i \in DOMAIN E : \A p \in Indices(E[i].alloc) : z.refs[p] = 1
  BY <1>1, <1>13, <1>14, <1>15, <1>16, <1>17
<1>19. Refers(z, T, C, E)
  BY <1>1, <1>7, <1>13, <1>18 DEF Refers
<1> QED BY <1>19 DEF z, E

\* The handles of hs are of the present life of their pages.
Current(q, hs) == \A i \in DOMAIN hs : q.gen[Index(hs[i])] = Generation(hs[i])

\* Live handles are of the generation of their page.
LEMMA CurrentIs ==
    ASSUME NEW q, NEW z, NEW hs, AllLive(q, hs), z.gen = q.gen
    PROVE  Current(z, hs)
BY DEF Current, AllLive, Live

\* Counts that are right, and handles of the present lives, are all that is needed.
LEMMA RefersBy ==
    ASSUME NEW z, NEW T, NEW C, NEW D, Store(T, C, D), PoolSound(z),
           \A p \in Pages : z.refs[p] = Cnt(T, C, D, p),
           \A s \in DOMAIN T : Current(z, T[s].pages),
           \A c \in C : Current(z, c.table.pages),
           \A i \in DOMAIN D : Current(z, D[i].alloc),
           \A i \in DOMAIN D : \A p \in Indices(D[i].alloc) : z.refs[p] = 1
    PROVE  Refers(z, T, C, D)
<1>1. \A p : /\ Cardinality(TabHold(T, p)) \in Nat /\ Cardinality(PreHold(C, p)) \in Nat
             /\ Cardinality(PendHold(D, p)) \in Nat /\ IsFiniteSet(TabHold(T, p))
  BY CountFacts
<1>2. \A p \in Pages : z.refs[p] = Cardinality(TabHold(T, p)) + Cardinality(PreHold(C, p))
                                   + Cardinality(PendHold(D, p))
  BY DEF Cnt
<1>3. ASSUME NEW hs \in Seq(Handles), Current(z, hs), \A p \in Indices(hs) : p \in Pages => z.refs[p] > 0
      PROVE  AllLive(z, hs)
  <2>1. \A i \in DOMAIN hs : Index(hs[i]) \in Pages /\ Index(hs[i]) \in Indices(hs)
    BY IndicesIs DEF Handles, Index
  <2> QED BY <1>3, <2>1 DEF AllLive, Live, Current
<1>4. ASSUME NEW s \in DOMAIN T PROVE AllLive(z, T[s].pages)
  <2>1. ASSUME NEW p \in Indices(T[s].pages), p \in Pages PROVE z.refs[p] > 0
    <3>1. s \in TabHold(T, p)
      BY DEF TabHold
    <3>2. Cardinality(TabHold(T, p)) # 0
      BY <3>1, <1>1, FS_EmptySet
    <3> QED BY <2>1, <3>2, <1>1, <1>2
  <2> QED BY <2>1, <1>3, StoreFacts
<1>5. ASSUME NEW c \in C PROVE AllLive(z, c.table.pages)
  <2>1. ASSUME NEW p \in Indices(c.table.pages), p \in Pages PROVE z.refs[p] > 0
    <3>1. Cardinality(PreHold(C, p)) = 1
      BY StoreFacts, PreCount
    <3> QED BY <2>1, <3>1, <1>1, <1>2
  <2> QED BY <2>1, <1>3, StoreFacts
<1>6. ASSUME NEW i \in DOMAIN D PROVE AllLive(z, D[i].alloc)
  <2>1. \A p \in Indices(D[i].alloc) : p \in Pages => z.refs[p] > 0
    OBVIOUS
  <2> QED BY <2>1, <1>3, StoreFacts
<1> QED BY <1>4, <1>5, <1>6 DEF Refers

\* The retained prefix goes.
LEMMA EvictRefers ==
    ASSUME NEW q, NEW T, NEW C, NEW D, Store(T, C, D), Refers(q, T, C, D), NEW c \in C
    PROVE  Store(T, {}, D) /\ Refers(Release(q, c.table.pages), T, {}, D)
<1> DEFINE z == Release(q, c.table.pages)
           hs == c.table.pages
<1>1. Store(T, {}, D)
  <2>1. IsFiniteSet({}) /\ Cardinality({}) = 0
    BY FS_EmptySet
  <2> QED BY <2>1 DEF Store
<1>2. hs \in Seq(Handles) /\ Distinct(hs) /\ C = {c}
  BY StoreFacts, OnlyOne
<1>3. \A p \in Indices(hs) : p \in Pages /\ q.refs[p] > 0
  BY RefFacts
<1>4. PoolSound(q)
  BY DEF Refers
<1> HIDE DEF hs
<1>5. /\ PoolSound(z) /\ z.gen = q.gen
      /\ \A p \in Pages : p \in Indices(hs) => z.refs[p] = q.refs[p] - 1
      /\ \A p \in Pages : p \notin Indices(hs) => z.refs[p] = q.refs[p]
  BY <1>2, <1>3, <1>4, ReleaseIs DEF hs
<1> HIDE DEF z
<1>6. \A p \in Pages : z.refs[p] = Cnt(T, {}, D, p)
  <2> SUFFICES ASSUME NEW p \in Pages PROVE z.refs[p] = Cnt(T, {}, D, p)
    OBVIOUS
  <2>1. q.refs[p] = Cardinality(TabHold(T, p)) + Cardinality(PreHold(C, p)) + Cardinality(PendHold(D, p))
    BY DEF Refers, Cnt
  <2>2. Cardinality(PreHold({}, p)) = 0
    <3>1. PreHold({}, p) = {}
      BY DEF PreHold
    <3> QED BY <3>1, FS_EmptySet
  <2>3. /\ Cardinality(TabHold(T, p)) \in Nat /\ Cardinality(PreHold(C, p)) \in {0, 1}
        /\ Cardinality(PendHold(D, p)) \in Nat
        /\ Cardinality(PreHold(C, p)) = 1 <=> \E x \in C : p \in Indices(x.table.pages)
    BY CountFacts, PreCount, StoreFacts
  <2>4. CASE p \in Indices(hs)
    <3>1. Cardinality(PreHold(C, p)) = 1
      BY <2>3, <2>4 DEF hs
    <3>2. z.refs[p] = q.refs[p] - 1
      BY <2>4, <1>5
    <3> QED BY <2>1, <2>2, <2>3, <3>1, <3>2 DEF Cnt
  <2>5. CASE p \notin Indices(hs)
    <3>1. Cardinality(PreHold(C, p)) = 0
      BY <2>3, <2>5, <1>2 DEF hs
    <3>2. z.refs[p] = q.refs[p]
      BY <2>5, <1>5
    <3> QED BY <2>1, <2>2, <2>3, <3>1, <3>2 DEF Cnt
  <2> QED BY <2>4, <2>5
<1>7. /\ \A s \in DOMAIN T : Current(z, T[s].pages)
      /\ \A i \in DOMAIN D : Current(z, D[i].alloc)
  BY <1>5, CurrentIs DEF Refers
<1>8. \A i \in DOMAIN D : \A p \in Indices(D[i].alloc) : z.refs[p] = 1
  <2> SUFFICES ASSUME NEW i \in DOMAIN D, NEW p \in Indices(D[i].alloc) PROVE z.refs[p] = 1
    OBVIOUS
  <2>1. p \in Pages /\ q.refs[p] = 1 /\ p \notin Indices(hs)
    BY RefFacts DEF hs
  <2> QED BY <2>1, <1>5
<1>9. Refers(z, T, {}, D)
  BY <1>1, <1>5, <1>6, <1>7, <1>8, RefersBy
<1> QED BY <1>1, <1>9 DEF z, hs

\* The last append is taken back.
LEMMA AbortRefers ==
    ASSUME NEW q, NEW T, NEW C, NEW D, Store(T, C, D), Refers(q, T, C, D), D # <<>>
    PROVE  /\ Store(T, C, SubSeq(D, 1, Len(D) - 1))
           /\ Refers(Undone(q, D[Len(D)].alloc), T, C, SubSeq(D, 1, Len(D) - 1))
           /\ \A p \in Pages : p \in Indices(D[Len(D)].alloc) =>
                 Undone(q, D[Len(D)].alloc).refs[p] = 0
           /\ \A p \in Pages : p \notin Indices(D[Len(D)].alloc) =>
                 Undone(q, D[Len(D)].alloc).refs[p] = q.refs[p]
           /\ Undone(q, D[Len(D)].alloc).gen = q.gen
<1> DEFINE n == Len(D)
           E == SubSeq(D, 1, n - 1)
           hs == D[n].alloc
           z == Undone(q, hs)
<1>1. n \in Nat \ {0} /\ DOMAIN D = 1 .. n /\ n \in DOMAIN D /\ D \in Seq(Pending)
  BY StoreFacts
<1>2. \A i \in 1 .. n - 1 : D[i] \in Pending
  BY <1>1
<1>3. E \in Seq(Pending) /\ Len(E) = n - 1 /\ \A i \in 1 .. n - 1 : E[i] = D[i]
  BY <1>1, <1>2, SubSeqProperties
<1>4. DOMAIN E = 1 .. n - 1 /\ \A i \in 1 .. n - 1 : i \in DOMAIN D /\ i # n
  <2> HIDE DEF E, n
  <2>1. DOMAIN E = 1 .. n - 1
    BY <1>3
  <2> QED BY <2>1, <1>1
<1>5. hs \in Seq(Handles) /\ Distinct(hs) /\ \A p \in Indices(hs) : p \in Pages /\ q.refs[p] = 1
  BY <1>1, StoreFacts, RefFacts
<1>6. PoolSound(q)
  BY DEF Refers
<1>7. \A p : /\ p \in Indices(hs) => Cardinality(PendHold(E, p)) = Cardinality(PendHold(D, p)) - 1
             /\ p \notin Indices(hs) => Cardinality(PendHold(E, p)) = Cardinality(PendHold(D, p))
  BY <1>1, PendFront
<1> HIDE DEF n, E
<1>8. Store(T, C, E)
  BY <1>3, <1>4 DEF Store
<1>9. /\ Reversed(hs) \in Seq(Handles) /\ Distinct(Reversed(hs))
      /\ Indices(Reversed(hs)) = Indices(hs)
  BY <1>5, ReversedIs
<1>10. /\ PoolSound(z) /\ z.gen = q.gen
       /\ \A p \in Pages : p \in Indices(hs) => z.refs[p] = q.refs[p] - 1
       /\ \A p \in Pages : p \notin Indices(hs) => z.refs[p] = q.refs[p]
  <2> HIDE DEF hs
  <2>1. \A p \in Indices(hs) : q.refs[p] > 0
    BY <1>5
  <2> QED BY <2>1, <1>5, <1>6, <1>9, ReleaseIs DEF Undone
<1> HIDE DEF z, hs
<1>11. \A p \in Pages : z.refs[p] = Cnt(T, C, E, p)
  <2> SUFFICES ASSUME NEW p \in Pages PROVE z.refs[p] = Cnt(T, C, E, p)
    OBVIOUS
  <2>1. q.refs[p] = Cardinality(TabHold(T, p)) + Cardinality(PreHold(C, p)) + Cardinality(PendHold(D, p))
    BY DEF Refers, Cnt
  <2>2. /\ Cardinality(TabHold(T, p)) \in Nat /\ Cardinality(PreHold(C, p)) \in Nat
        /\ Cardinality(PendHold(D, p)) \in Nat
    BY CountFacts
  <2>3. CASE p \in Indices(hs)
    <3>1. z.refs[p] = q.refs[p] - 1 /\ Cardinality(PendHold(E, p)) = Cardinality(PendHold(D, p)) - 1
      BY <2>3, <1>7, <1>10
    <3> QED BY <2>1, <2>2, <3>1 DEF Cnt
  <2>4. CASE p \notin Indices(hs)
    <3>1. z.refs[p] = q.refs[p] /\ Cardinality(PendHold(E, p)) = Cardinality(PendHold(D, p))
      BY <2>4, <1>7, <1>10
    <3> QED BY <2>1, <3>1 DEF Cnt
  <2> QED BY <2>3, <2>4
<1>12. /\ \A s \in DOMAIN T : Current(z, T[s].pages)
       /\ \A c \in C : Current(z, c.table.pages)
       /\ \A i \in DOMAIN D : Current(z, D[i].alloc)
  BY <1>10, CurrentIs DEF Refers
<1>13. \A i \in DOMAIN E : \A p \in Indices(E[i].alloc) : z.refs[p] = 1
  <2> SUFFICES ASSUME NEW i \in DOMAIN E, NEW p \in Indices(E[i].alloc) PROVE z.refs[p] = 1
    OBVIOUS
  <2>1. i \in DOMAIN D /\ i # n /\ n \in DOMAIN D /\ p \in Indices(D[i].alloc)
    BY <1>1, <1>3, <1>4
  <2>2. p \in Pages /\ q.refs[p] = 1 /\ p \notin Indices(hs)
    BY <2>1, RefFacts DEF hs
  <2> QED BY <2>2, <1>10
<1>14. \A i \in DOMAIN E : Current(z, E[i].alloc)
  BY <1>12, <1>3, <1>4
<1>15. Refers(z, T, C, E)
  BY <1>8, <1>10, <1>11, <1>12, <1>13, <1>14, RefersBy
<1>16. \A p \in Pages : p \in Indices(hs) => z.refs[p] = 0
  BY <1>5, <1>10
<1> QED BY <1>8, <1>10, <1>15, <1>16 DEF n, E, hs, z

\* The pages of two sequences of handles, one after the other.
LEMMA ConcatHandles ==
    ASSUME NEW a \in Seq(Handles), NEW b \in Seq(Handles)
    PROVE  /\ a \o b \in Seq(Handles) /\ Len(a \o b) = Len(a) + Len(b)
           /\ \A p : p \in Indices(a \o b) <=> p \in Indices(a) \/ p \in Indices(b)
           /\ Distinct(a) /\ Distinct(b) /\ (\A p \in Indices(a) : p \notin Indices(b))
                => Distinct(a \o b)
           /\ \A q : Current(q, a) /\ Current(q, b) => Current(q, a \o b)
<1> DEFINE c == a \o b
           m == Len(a)
           n == Len(b)
<1>1. m \in Nat /\ n \in Nat /\ DOMAIN a = 1 .. m /\ DOMAIN b = 1 .. n
  OBVIOUS
<1>2. /\ c \in Seq(Handles) /\ Len(c) = m + n
      /\ \A i \in 1 .. m + n : c[i] = IF i <= m THEN a[i] ELSE b[i - m]
  BY ConcatProperties
<1> HIDE DEF c, m, n
<1>3. DOMAIN c = 1 .. m + n
  BY <1>2
<1>4. \A i \in 1 .. m : i \in 1 .. m + n /\ c[i] = a[i]
  BY <1>1, <1>2
<1>5. ASSUME NEW j \in 1 .. n PROVE \E i \in 1 .. m + n : i = m + j /\ c[i] = b[j]
  <2>1. m + j \in 1 .. m + n /\ ~(m + j <= m) /\ (m + j) - m = j
    BY <1>1
  <2>2. c[m + j] = b[(m + j) - m]
    BY <2>1, <1>2
  <2> QED BY <2>1, <2>2
<1>6. ASSUME NEW i \in 1 .. m + n
      PROVE  (i \in 1 .. m /\ c[i] = a[i]) \/ (\E j \in 1 .. n : i = m + j /\ c[i] = b[j])
  <2>1. CASE i <= m
    BY <2>1, <1>1, <1>2
  <2>2. CASE ~(i <= m)
    <3>1. i - m \in 1 .. n /\ i = m + (i - m)
      BY <2>2, <1>1
    <3>2. c[i] = b[i - m]
      BY <2>2, <1>2
    <3> QED BY <3>1, <3>2
  <2> QED BY <2>1, <2>2
<1>7. \A p : p \in Indices(c) <=> p \in Indices(a) \/ p \in Indices(b)
  <2> TAKE p
  <2>1. ASSUME p \in Indices(c) PROVE p \in Indices(a) \/ p \in Indices(b)
    <3>1. PICK i \in 1 .. m + n : Index(c[i]) = p
      BY <2>1, <1>3, IndicesIs
    <3> QED BY <3>1, <1>1, <1>6, IndicesIs
  <2>2. ASSUME p \in Indices(a) PROVE p \in Indices(c)
    BY <2>2, <1>1, <1>3, <1>4, IndicesIs
  <2>3. ASSUME p \in Indices(b) PROVE p \in Indices(c)
    BY <2>3, <1>1, <1>3, <1>5, IndicesIs
  <2> QED BY <2>1, <2>2, <2>3
<1>8. ASSUME Distinct(a), Distinct(b), \A p \in Indices(a) : p \notin Indices(b)
      PROVE  Distinct(c)
  <2>1. ASSUME NEW i \in 1 .. m, NEW j \in 1 .. n PROVE Index(a[i]) # Index(b[j])
    BY <1>1, <1>8, IndicesIs
  <2>2. ASSUME NEW i \in 1 .. m + n, NEW j \in 1 .. m + n, Index(c[i]) = Index(c[j]) PROVE i = j
    <3>1. CASE i \in 1 .. m /\ c[i] = a[i] /\ j \in 1 .. m /\ c[j] = a[j]
      BY <3>1, <2>2, <1>8, <1>1 DEF Distinct
    <3>2. ASSUME NEW x \in 1 .. n, i = m + x, c[i] = b[x], NEW y \in 1 .. n, j = m + y, c[j] = b[y]
          PROVE  i = j
      <4>1. x = y
        BY <3>2, <2>2, <1>8, <1>1 DEF Distinct
      <4> QED BY <4>1, <3>2
    <3>3. ASSUME i \in 1 .. m, c[i] = a[i], NEW y \in 1 .. n, c[j] = b[y] PROVE FALSE
      BY <3>3, <2>1, <2>2
    <3>4. ASSUME j \in 1 .. m, c[j] = a[j], NEW y \in 1 .. n, c[i] = b[y] PROVE FALSE
      BY <3>4, <2>1, <2>2
    <3> QED BY <3>1, <3>2, <3>3, <3>4, <1>6
  <2> QED BY <2>2, <1>3 DEF Distinct
<1>9. ASSUME NEW q, Current(q, a), Current(q, b) PROVE Current(q, c)
  <2> SUFFICES ASSUME NEW i \in 1 .. m + n PROVE q.gen[Index(c[i])] = Generation(c[i])
    BY <1>3 DEF Current
  <2> QED BY <1>1, <1>6, <1>9 DEF Current
<1> QED BY <1>2, <1>7, <1>8, <1>9 DEF c, m, n

Own(t, cow) == IF cow THEN SubSeq(t.pages, 1, Len(t.pages) - 1) ELSE t.pages
Source(t, cow) == IF cow THEN <<t.pages[Len(t.pages)]>> ELSE <<>>

\* A table's pages are its own ones and the source of the copy.
LEMMA OwnIs ==
    ASSUME NEW t, t.pages \in Seq(Handles), Distinct(t.pages), NEW cow \in BOOLEAN,
           cow => t.pages # <<>>
    PROVE  /\ Own(t, cow) \in Seq(Handles) /\ Distinct(Own(t, cow))
           /\ Len(Own(t, cow)) = Len(t.pages) - Of(cow)
           /\ Source(t, cow) \in Seq(Handles) /\ Distinct(Source(t, cow))
           /\ \A p : p \in Indices(Source(t, cow)) <=> cow /\ p = LastPage(t)
           /\ \A p : p \in Indices(t.pages) <=> p \in Indices(Own(t, cow)) \/ p \in Indices(Source(t, cow))
           /\ \A p : ~(p \in Indices(Own(t, cow)) /\ p \in Indices(Source(t, cow)))
           /\ \A q : Current(q, t.pages) => Current(q, Own(t, cow))
<1> DEFINE hs == t.pages
           n == Len(hs)
<1>1. n \in Nat /\ DOMAIN hs = 1 .. n /\ hs \in Seq(Handles) /\ Distinct(hs)
  OBVIOUS
<1>2. CASE cow
  <2> DEFINE a == SubSeq(hs, 1, n - 1)
  <2>1. n \in Nat \ {0} /\ n - 1 \in 0 .. n /\ 1 \in Nat \ {0}
    BY <1>1, <1>2
  <2>2. Own(t, cow) = a /\ Source(t, cow) = <<hs[n]>> /\ LastPage(t) = Index(hs[n])
    BY <1>2 DEF Own, Source, LastPage
  <2> HIDE DEF n, hs
  <2>3. /\ a \in Seq(Handles) /\ Len(a) = IF 1 <= n - 1 THEN (n - 1) - 1 + 1 ELSE 0
        /\ \A p : p \in Indices(a) <=> \E i \in 1 .. n - 1 : Index(hs[i]) = p
        /\ Distinct(a)
        /\ \A i \in DOMAIN a : a[i] = hs[i] /\ i \in DOMAIN hs
    <3> DEFINE k == n - 1
    <3>1. k \in 0 .. Len(hs)
      BY <2>1 DEF n
    <3> HIDE DEF k
    <3>2. /\ SubSeq(hs, 1, k) \in Seq(Handles)
          /\ Len(SubSeq(hs, 1, k)) = IF 1 <= k THEN k - 1 + 1 ELSE 0
          /\ \A p : p \in Indices(SubSeq(hs, 1, k)) <=> \E i \in 1 .. k : Index(hs[i]) = p
          /\ Distinct(SubSeq(hs, 1, k))
      BY <2>1, <3>1, <1>1, SubHandles
    <3>3. \A i \in DOMAIN SubSeq(hs, 1, k) : SubSeq(hs, 1, k)[i] = hs[i] /\ i \in DOMAIN hs
      <4>1. DOMAIN SubSeq(hs, 1, k) = 1 .. k
        BY <3>1, <3>2
      <4>2. \A i \in 1 .. k : i \in DOMAIN hs /\ hs[i] \in Handles /\ 1 + i - 1 = i
        BY <3>1, <1>1 DEF n
      <4>3. \A i \in 1 .. k - 1 + 1 : SubSeq(hs, 1, k)[i] = hs[1 + i - 1]
        BY <4>2, <3>1, SubSeqProperties
      <4> QED BY <4>1, <4>2, <4>3, <3>1
    <3> QED BY <3>2, <3>3 DEF k
  <2>4. Len(a) = n - 1
    BY <2>1, <2>3
  <2>5. <<hs[n]>> \in Seq(Handles) /\ Distinct(<<hs[n]>>) /\ n \in 1 .. n
    BY <1>1, <2>1 DEF Distinct
  <2>6. \A p : p \in Indices(<<hs[n]>>) <=> p = Index(hs[n])
    BY IndicesIs
  <2>7. \A p : p \in Indices(hs) <=> p \in Indices(a) \/ p = Index(hs[n])
    <3>1. \A i : i \in 1 .. n <=> i \in 1 .. n - 1 \/ i = n
      BY <2>1
    <3> QED BY <3>1, <1>1, <2>3, IndicesIs
  <2>8. \A p : ~(p \in Indices(a) /\ p = Index(hs[n]))
    <3> SUFFICES ASSUME NEW i \in 1 .. n - 1, Index(hs[i]) = Index(hs[n]) PROVE FALSE
      BY <2>3
    <3>1. i \in 1 .. n /\ n \in 1 .. n /\ i # n
      BY <2>1
    <3> QED BY <3>1, <1>1 DEF Distinct
  <2>9. \A q : Current(q, hs) => Current(q, a)
    BY <2>3 DEF Current
  <2> HIDE DEF a
  <2> QED BY <1>2, <2>2, <2>3, <2>4, <2>5, <2>6, <2>7, <2>8, <2>9 DEF hs, n, Of
<1>3. CASE ~cow
  <2>1. Own(t, cow) = hs /\ Source(t, cow) = <<>>
    BY <1>3 DEF Own, Source
  <2>2. <<>> \in Seq(Handles) /\ Distinct(<<>>) /\ \A p : p \notin Indices(<<>>)
    BY IndicesIs, SMTT(30) DEF Distinct
  <2> QED BY <1>1, <1>3, <2>1, <2>2 DEF Of
<1> QED BY <1>2, <1>3

\* The first append is committed: its table has the reserved pages, and not the page
\* they were copied from.
LEMMA CommitRefers ==
    ASSUME NEW q, NEW T, NEW C, NEW D, Store(T, C, D), Refers(q, T, C, D), D # <<>>,
           NEW r, r = D[1], r.seq \in DOMAIN T,
           NEW m \in Nat,
           r.pages = Own(T[r.seq], r.cow) \o r.alloc,
           Len(r.pages) = DivCeil(m, PageTokens),
           r.cow => T[r.seq].pages # <<>> /\ q.refs[LastPage(T[r.seq])] >= 2
    PROVE  LET T2 == [T EXCEPT ![r.seq] = [pages |-> r.pages, len |-> m]]
               z == Release(q, Source(T[r.seq], r.cow))
           IN  /\ Store(T2, C, Tail(D))
               /\ Refers(z, T2, C, Tail(D))
               /\ z.gen = q.gen
               /\ \A p \in Pages : (q.refs[p] > 0 <=> z.refs[p] > 0)
               /\ \A p \in Pages : (~r.cow \/ p # LastPage(T[r.seq])) => z.refs[p] = q.refs[p]
<1> DEFINE s == r.seq
           t == T[s]
           a == Own(t, r.cow)
           b == r.alloc
           src == Source(t, r.cow)
           u == [pages |-> r.pages, len |-> m]
           E == Tail(D)
           n == Len(D)
           T2 == [T EXCEPT ![r.seq] = [pages |-> r.pages, len |-> m]]
           z == Release(q, Source(T[r.seq], r.cow))
<1>1. /\ n \in Nat \ {0} /\ DOMAIN D = 1 .. n /\ D \in Seq(Pending) /\ 1 \in DOMAIN D
      /\ r \in Pending /\ r.cow \in BOOLEAN
      /\ b \in Seq(Handles) /\ Distinct(b)
  <2>1. D \in Seq(Pending) /\ \A i \in DOMAIN D : D[i] \in Pending /\ D[i].alloc \in Seq(Handles) /\ Distinct(D[i].alloc)
    BY StoreFacts
  <2>2. n \in Nat \ {0} /\ DOMAIN D = 1 .. n /\ 1 \in DOMAIN D
    BY <2>1
  <2>3. r.cow \in BOOLEAN
    BY <2>1, <2>2 DEF Pending
  <2> QED BY <2>1, <2>2, <2>3
<1>2. E \in Seq(Pending) /\ Len(E) = n - 1 /\ \A i \in 1 .. n - 1 : E[i] = D[i + 1]
  BY <1>1, HeadTailProperties
<1>3. DOMAIN E = 1 .. n - 1 /\ \A i \in 1 .. n - 1 : i + 1 \in DOMAIN D /\ i + 1 # 1
  <2> HIDE DEF E, n
  <2>1. DOMAIN E = 1 .. n - 1
    BY <1>2
  <2> QED BY <2>1, <1>1
<1>4. t.pages \in Seq(Handles) /\ Distinct(t.pages) /\ s \in DOMAIN T /\ s \in Sessions
  BY StoreFacts
<1>5. /\ a \in Seq(Handles) /\ Distinct(a)
      /\ src \in Seq(Handles) /\ Distinct(src)
      /\ \A p : p \in Indices(src) <=> r.cow /\ p = LastPage(t)
      /\ \A p : p \in Indices(t.pages) <=> p \in Indices(a) \/ p \in Indices(src)
      /\ \A p : ~(p \in Indices(a) /\ p \in Indices(src))
      /\ \A x : Current(x, t.pages) => Current(x, a)
  BY <1>1, <1>4, OwnIs
<1>6. /\ \A p \in Indices(t.pages) : p \in Pages /\ q.refs[p] > 0
      /\ \A p \in Indices(b) : p \in Pages /\ q.refs[p] = 1 /\ p \notin Indices(t.pages)
  <2>1. ASSUME NEW p \in Indices(t.pages) PROVE p \in Pages /\ q.refs[p] > 0
    BY <1>4, TableFacts
  <2>2. ASSUME NEW p \in Indices(b)
        PROVE  p \in Pages /\ q.refs[p] = 1 /\ p \notin Indices(t.pages)
    <3>1. PICK i \in DOMAIN D : D[i] = r
      BY <1>1
    <3>2. p \in Indices(D[i].alloc)
      BY <3>1
    <3> QED BY <3>2, <1>4, AllocFacts
  <2> QED BY <2>1, <2>2
<1>7. r.pages = a \o b /\ u.pages = r.pages /\ u.len = m
  OBVIOUS
<1>8. T2 = [T EXCEPT ![s] = u] /\ z = Release(q, src)
  OBVIOUS
<1>9. r.cow => q.refs[LastPage(t)] >= 2
  OBVIOUS
<1>10. \A p : /\ p \in Indices(b) => Cardinality(PendHold(E, p)) = Cardinality(PendHold(D, p)) - 1
              /\ p \notin Indices(b) => Cardinality(PendHold(E, p)) = Cardinality(PendHold(D, p))
  BY <1>1, PendTail
<1>11. Len(u.pages) = DivCeil(m, PageTokens)
  OBVIOUS
<1>12. u = [pages |-> r.pages, len |-> m]
  OBVIOUS
<1> HIDE DEF s, t, a, b, src, u, E, n, T2, z
<1>13. /\ u.pages \in Seq(Handles)
       /\ \A p : p \in Indices(u.pages) <=> p \in Indices(a) \/ p \in Indices(b)
       /\ Distinct(u.pages)
       /\ \A x : Current(x, a) /\ Current(x, b) => Current(x, u.pages)
  <2>1. \A p \in Indices(a) : p \notin Indices(b)
    BY <1>5, <1>6
  <2> QED BY <2>1, <1>1, <1>5, <1>7, ConcatHandles
<1>14. Sane(u)
  <2>1. u \in Tables
    BY <1>7, <1>12, <1>13 DEF Tables
  <2> QED BY <2>1, <1>7, <1>11, <1>13 DEF Sane, Fits
<1>15. /\ DOMAIN T2 = DOMAIN T /\ T2[s] = u /\ \A x \in DOMAIN T : x # s => T2[x] = T[x]
       /\ T2 \in [DOMAIN T -> Tables]
  <2>1. T \in [DOMAIN T -> Tables] /\ u \in Tables
    BY <1>14 DEF Store, Sane
  <2> QED BY <2>1, <1>4, <1>8
<1>16. Store(T2, C, E)
  <2>1. \A x \in DOMAIN T2 : Sane(T2[x])
    BY <1>14, <1>15 DEF Store
  <2>2. \A i \in DOMAIN E : Distinct(E[i].alloc)
    BY <1>2, <1>3 DEF Store
  <2> QED BY <2>1, <2>2, <1>2, <1>15 DEF Store
<1>17. \A p \in Indices(src) : p \in Pages /\ q.refs[p] >= 2
  BY <1>5, <1>6, <1>9
<1>18. /\ PoolSound(z) /\ z.gen = q.gen
       /\ \A p \in Pages : p \in Indices(src) => z.refs[p] = q.refs[p] - 1
       /\ \A p \in Pages : p \notin Indices(src) => z.refs[p] = q.refs[p]
  <2>1. PoolSound(q) /\ q.refs \in [Pages -> Nat]
    BY RefFacts DEF Refers
  <2>2. \A p \in Indices(src) : q.refs[p] > 0
    BY <1>17, <2>1
  <2> QED BY <2>1, <2>2, <1>5, <1>8, ReleaseIs
<1>19. \A p \in Pages : z.refs[p] = Cnt(T2, C, E, p)
  <2> SUFFICES ASSUME NEW p \in Pages PROVE z.refs[p] = Cnt(T2, C, E, p)
    OBVIOUS
  <2> DEFINE o == Cardinality(TabHold(T, p) \ {s})
             pre == Cardinality(PreHold(C, p))
  <2>1. q.refs[p] = Cardinality(TabHold(T, p)) + pre + Cardinality(PendHold(D, p))
    BY DEF Refers, Cnt
  <2>2. pre \in Nat /\ Cardinality(PendHold(D, p)) \in Nat
    BY CountFacts
  <2>3. /\ o \in Nat
        /\ s \in TabHold(T, p) => Cardinality(TabHold(T, p)) = o + 1
        /\ s \notin TabHold(T, p) => Cardinality(TabHold(T, p)) = o
    BY StoreFacts, TabCount
  <2>4. TabHold(T2, p) \ {s} = TabHold(T, p) \ {s}
    BY <1>15 DEF TabHold
  <2>5. /\ s \in TabHold(T2, p) => Cardinality(TabHold(T2, p)) = o + 1
        /\ s \notin TabHold(T2, p) => Cardinality(TabHold(T2, p)) = o
    <3>1. IsFiniteSet(DOMAIN T2)
      BY <1>15, StoreFacts
    <3>2. /\ s \in TabHold(T2, p) => Cardinality(TabHold(T2, p)) = Cardinality(TabHold(T2, p) \ {s}) + 1
          /\ s \notin TabHold(T2, p) => Cardinality(TabHold(T2, p)) = Cardinality(TabHold(T2, p) \ {s})
      BY <3>1, TabCount
    <3> QED BY <2>4, <3>2
  <2>6. s \in TabHold(T, p) <=> p \in Indices(t.pages)
    BY <1>4 DEF TabHold, t
  <2>7. s \in TabHold(T2, p) <=> p \in Indices(u.pages)
    BY <1>4, <1>15 DEF TabHold
  <2> HIDE DEF o, pre
  <2>8. CASE p \in Indices(b)
    <3>1. p \notin Indices(t.pages) /\ p \notin Indices(src) /\ p \in Indices(u.pages)
      BY <2>8, <1>5, <1>6, <1>13
    <3>2. /\ Cardinality(TabHold(T, p)) = o /\ Cardinality(TabHold(T2, p)) = o + 1
          /\ Cardinality(PendHold(E, p)) = Cardinality(PendHold(D, p)) - 1
          /\ z.refs[p] = q.refs[p]
      BY <2>8, <3>1, <2>3, <2>5, <2>6, <2>7, <1>10, <1>18
    <3> QED BY <2>1, <2>2, <2>3, <3>2 DEF Cnt, pre
  <2>9. CASE p \notin Indices(b) /\ p \in Indices(src)
    <3>1. p \in Indices(t.pages) /\ p \notin Indices(u.pages)
      BY <2>9, <1>5, <1>13
    <3>2. /\ Cardinality(TabHold(T, p)) = o + 1 /\ Cardinality(TabHold(T2, p)) = o
          /\ Cardinality(PendHold(E, p)) = Cardinality(PendHold(D, p))
          /\ z.refs[p] = q.refs[p] - 1
      BY <2>9, <3>1, <2>3, <2>5, <2>6, <2>7, <1>10, <1>18
    <3> QED BY <2>1, <2>2, <2>3, <3>2 DEF Cnt, pre
  <2>10. CASE p \notin Indices(b) /\ p \notin Indices(src)
    <3>1. p \in Indices(t.pages) <=> p \in Indices(u.pages)
      BY <2>10, <1>5, <1>13
    <3>2. /\ Cardinality(TabHold(T, p)) = Cardinality(TabHold(T2, p))
          /\ Cardinality(PendHold(E, p)) = Cardinality(PendHold(D, p))
          /\ z.refs[p] = q.refs[p]
      BY <2>10, <3>1, <2>3, <2>5, <2>6, <2>7, <1>10, <1>18
    <3> QED BY <2>1, <3>2 DEF Cnt, pre
  <2> QED BY <2>8, <2>9, <2>10
<1>20. /\ \A x \in DOMAIN T : Current(z, T[x].pages)
       /\ \A c \in C : Current(z, c.table.pages)
       /\ \A i \in DOMAIN D : Current(z, D[i].alloc)
  BY <1>18, CurrentIs DEF Refers
<1>21. \A x \in DOMAIN T2 : Current(z, T2[x].pages)
  <2>1. Current(z, u.pages)
    BY <1>1, <1>4, <1>5, <1>13, <1>20 DEF t, b
  <2> QED BY <2>1, <1>15, <1>20
<1>22. \A i \in DOMAIN E : Current(z, E[i].alloc)
  BY <1>2, <1>3, <1>20
<1>23. \A i \in DOMAIN E : \A p \in Indices(E[i].alloc) : z.refs[p] = 1
  <2> SUFFICES ASSUME NEW i \in DOMAIN E, NEW p \in Indices(E[i].alloc) PROVE z.refs[p] = 1
    OBVIOUS
  <2>1. i + 1 \in DOMAIN D /\ p \in Indices(D[i + 1].alloc)
    BY <1>2, <1>3
  <2>2. p \in Pages /\ q.refs[p] = 1 /\ p \notin Indices(t.pages)
    <3>1. PICK j \in DOMAIN D : p \in Indices(D[j].alloc)
      BY <2>1
    <3>2. p \in Pages /\ q.refs[p] = 1 /\ \A x \in DOMAIN T : p \notin Indices(T[x].pages)
      BY <3>1, AllocFacts
    <3> QED BY <3>2, <1>4 DEF t
  <2> QED BY <2>2, <1>5, <1>18
<1>24. Refers(z, T2, C, E)
  BY <1>16, <1>18, <1>19, <1>20, <1>21, <1>22, <1>23, RefersBy
<1>25. \A p \in Pages : (q.refs[p] > 0 <=> z.refs[p] > 0)
  <2>1. q.refs \in [Pages -> Nat]
    BY RefFacts
  <2> QED BY <2>1, <1>17, <1>18
<1>26. \A p \in Pages : (~r.cow \/ p # LastPage(t)) => z.refs[p] = q.refs[p]
  BY <1>5, <1>18
<1> QED BY <1>16, <1>18, <1>24, <1>25, <1>26 DEF E, t, s, T2, z

\* Two sets of tables that differ in one table at most.
Differ(T, T2, s) ==
    /\ IsFiniteSet(DOMAIN T) /\ IsFiniteSet(DOMAIN T2)
    /\ \A x : x # s => (x \in DOMAIN T <=> x \in DOMAIN T2)
    /\ \A x \in DOMAIN T : x # s => T2[x] = T[x]

\* The holders of a page before and after one table changes.
LEMMA TabMove ==
    ASSUME NEW T, NEW T2, NEW s, NEW p, Differ(T, T2, s)
    PROVE  \E o \in Nat :
              /\ s \in TabHold(T, p) => Cardinality(TabHold(T, p)) = o + 1
              /\ s \notin TabHold(T, p) => Cardinality(TabHold(T, p)) = o
              /\ s \in TabHold(T2, p) => Cardinality(TabHold(T2, p)) = o + 1
              /\ s \notin TabHold(T2, p) => Cardinality(TabHold(T2, p)) = o
<1> DEFINE o == Cardinality(TabHold(T, p) \ {s})
<1>1. /\ o \in Nat
      /\ s \in TabHold(T, p) => Cardinality(TabHold(T, p)) = o + 1
      /\ s \notin TabHold(T, p) => Cardinality(TabHold(T, p)) = o
  BY TabCount DEF Differ
<1>2. TabHold(T2, p) \ {s} = TabHold(T, p) \ {s}
  BY DEF TabHold, Differ
<1>3. /\ s \in TabHold(T2, p) => Cardinality(TabHold(T2, p)) = Cardinality(TabHold(T2, p) \ {s}) + 1
      /\ s \notin TabHold(T2, p) => Cardinality(TabHold(T2, p)) = Cardinality(TabHold(T2, p) \ {s})
  BY TabCount DEF Differ
<1> HIDE DEF o
<1>4. /\ s \in TabHold(T2, p) => Cardinality(TabHold(T2, p)) = o + 1
      /\ s \notin TabHold(T2, p) => Cardinality(TabHold(T2, p)) = o
  BY <1>2, <1>3 DEF o
<1> QED BY <1>1, <1>4

\* The first k handles of a table.
LEMMA PrefixHandles ==
    ASSUME NEW hs \in Seq(Handles), NEW k \in 0 .. Len(hs)
    PROVE  /\ SubSeq(hs, 1, k) \in Seq(Handles) /\ Len(SubSeq(hs, 1, k)) = k
           /\ \A i \in DOMAIN SubSeq(hs, 1, k) : i \in DOMAIN hs /\ SubSeq(hs, 1, k)[i] = hs[i]
           /\ \A p : p \in Indices(SubSeq(hs, 1, k)) <=> \E i \in 1 .. k : Index(hs[i]) = p
           /\ Distinct(hs) => Distinct(SubSeq(hs, 1, k))
<1>1. DOMAIN hs = 1 .. Len(hs) /\ Len(hs) \in Nat /\ 1 \in Nat \ {0} /\ k \in Nat
  OBVIOUS
<1>2. /\ SubSeq(hs, 1, k) \in Seq(Handles)
      /\ Len(SubSeq(hs, 1, k)) = IF 1 <= k THEN k - 1 + 1 ELSE 0
      /\ \A p : p \in Indices(SubSeq(hs, 1, k)) <=> \E i \in 1 .. k : Index(hs[i]) = p
      /\ Distinct(hs) => Distinct(SubSeq(hs, 1, k))
  BY <1>1, SubHandles
<1>3. Len(SubSeq(hs, 1, k)) = k /\ DOMAIN SubSeq(hs, 1, k) = 1 .. k
  BY <1>1, <1>2
<1>4. \A i \in 1 .. k : i \in DOMAIN hs /\ hs[i] \in Handles /\ 1 + i - 1 = i
  BY <1>1
<1>5. \A i \in 1 .. k - 1 + 1 : SubSeq(hs, 1, k)[i] = hs[1 + i - 1]
  BY <1>1, <1>4, SubSeqProperties
<1>6. \A i \in 1 .. k : SubSeq(hs, 1, k)[i] = hs[i]
  BY <1>1, <1>4, <1>5
<1> QED BY <1>2, <1>3, <1>4, <1>6

\* A table adopts the first pages of the prefix.
LEMMA ForkRefers ==
    ASSUME NEW q, NEW T, NEW C, NEW D, Store(T, C, D), Refers(q, T, C, D),
           NEW c \in C, NEW s \in DOMAIN T, T[s].pages = <<>>,
           NEW n \in Nat, DivCeil(n, PageTokens) \in 0 .. Len(c.table.pages)
    PROVE  LET T2 == [T EXCEPT ![s] = [pages |-> KeptPages(c.table, n), len |-> n]]
               z == Forked(q, c.table, n)
           IN  /\ Store(T2, C, D)
               /\ Refers(z, T2, C, D)
               /\ z.gen = q.gen
               /\ \A p \in Pages : (q.refs[p] > 0 <=> z.refs[p] > 0)
               /\ \A p \in Pages : p \notin Indices(c.table.pages) => z.refs[p] = q.refs[p]
<1>0. ASSUME NEW i \in DOMAIN D, NEW p \in Indices(D[i].alloc)
      PROVE  p \in Pages /\ q.refs[p] = 1 /\ p \notin Indices(c.table.pages)
  <2>1. \A x \in C : p \notin Indices(x.table.pages)
    BY AllocFacts
  <2>2. p \in Pages /\ q.refs[p] = 1
    BY AllocFacts
  <2> QED BY <2>1, <2>2
<1> DEFINE hs == c.table.pages
           d == DivCeil(n, PageTokens)
           kept == KeptPages(c.table, n)
           u == [pages |-> kept, len |-> n]
           T2 == [T EXCEPT ![s] = u]
           z == Forked(q, c.table, n)
<1>1. hs \in Seq(Handles) /\ Distinct(hs) /\ DOMAIN hs = 1 .. Len(hs) /\ Len(hs) \in Nat
  BY StoreFacts
<1>2. \A p \in Indices(hs) : p \in Pages /\ q.refs[p] > 0
  BY RefFacts
<1>3. kept = SubSeq(hs, 1, d) /\ d \in 0 .. Len(hs) /\ u.pages = kept /\ u.len = n
  BY DEF KeptPages
<1>4. PoolSound(q) /\ q.refs \in [Pages -> Nat]
  BY RefFacts DEF Refers
<1>5. /\ PoolSound(z) /\ z.gen = q.gen
      /\ \A p \in Pages : p \in Indices(kept) => z.refs[p] = q.refs[p] + 1
      /\ \A p \in Pages : p \notin Indices(kept) => z.refs[p] = q.refs[p]
  BY <1>1, <1>2, <1>4, ForkedIs
<1>6. T \in [DOMAIN T -> Tables]
  BY DEF Store
<1>7. u = [pages |-> kept, len |-> n] /\ T2 = [T EXCEPT ![s] = u]
  OBVIOUS
<1> HIDE DEF hs, d, kept, u, T2, z
<1>8. /\ kept \in Seq(Handles) /\ Len(kept) = d /\ Distinct(kept)
      /\ \A p : p \in Indices(kept) => p \in Indices(hs)
      /\ \A x : Current(x, hs) => Current(x, kept)
  <2>1. 1 \in Nat \ {0} /\ d \in Nat
    BY <1>1, <1>3
  <2>2. /\ SubSeq(hs, 1, d) \in Seq(Handles) /\ Len(SubSeq(hs, 1, d)) = d
        /\ \A i \in DOMAIN SubSeq(hs, 1, d) : i \in DOMAIN hs /\ SubSeq(hs, 1, d)[i] = hs[i]
        /\ \A p : p \in Indices(SubSeq(hs, 1, d)) <=> \E i \in 1 .. d : Index(hs[i]) = p
        /\ Distinct(SubSeq(hs, 1, d))
    BY <1>1, <1>3, PrefixHandles
  <2>3. /\ kept \in Seq(Handles) /\ Len(kept) = d /\ Distinct(kept)
        /\ \A i \in DOMAIN kept : i \in DOMAIN hs /\ kept[i] = hs[i]
        /\ \A p : p \in Indices(kept) <=> \E i \in 1 .. d : Index(hs[i]) = p
    BY <2>2, <1>3
  <2>4. \A i \in 1 .. d : i \in DOMAIN hs
    BY <1>1, <1>3
  <2>5. \A p : p \in Indices(kept) => p \in Indices(hs)
    BY <2>3, <2>4, <1>1, IndicesIs
  <2>6. \A x : Current(x, hs) => Current(x, kept)
    BY <2>3 DEF Current
  <2> QED BY <2>3, <2>5, <2>6
<1>9. Sane(u)
  <2>1. u \in Tables
    BY <1>7, <1>8 DEF Tables
  <2> QED BY <2>1, <1>3, <1>8 DEF Sane, Fits, d
<1>10. /\ DOMAIN T2 = DOMAIN T /\ T2[s] = u /\ \A x \in DOMAIN T : x # s => T2[x] = T[x]
       /\ T2 \in [DOMAIN T -> Tables]
  <2>1. u \in Tables
    BY <1>9 DEF Sane
  <2> QED BY <2>1, <1>6, <1>7
<1>11. Store(T2, C, D)
  <2>1. \A x \in DOMAIN T2 : Sane(T2[x])
    BY <1>9, <1>10 DEF Store
  <2> QED BY <2>1, <1>10 DEF Store
<1>12. Differ(T, T2, s)
  BY <1>10, StoreFacts DEF Differ
<1>13. \A p \in Pages : z.refs[p] = Cnt(T2, C, D, p)
  <2> SUFFICES ASSUME NEW p \in Pages PROVE z.refs[p] = Cnt(T2, C, D, p)
    OBVIOUS
  <2>1. q.refs[p] = Cardinality(TabHold(T, p)) + Cardinality(PreHold(C, p)) + Cardinality(PendHold(D, p))
    BY DEF Refers, Cnt
  <2>2. Cardinality(PreHold(C, p)) \in Nat /\ Cardinality(PendHold(D, p)) \in Nat
    BY CountFacts
  <2>3. PICK o \in Nat :
              /\ s \in TabHold(T, p) => Cardinality(TabHold(T, p)) = o + 1
              /\ s \notin TabHold(T, p) => Cardinality(TabHold(T, p)) = o
              /\ s \in TabHold(T2, p) => Cardinality(TabHold(T2, p)) = o + 1
              /\ s \notin TabHold(T2, p) => Cardinality(TabHold(T2, p)) = o
    BY <1>12, TabMove
  <2>4. s \notin TabHold(T, p)
    <3>1. p \notin Indices(T[s].pages)
      BY IndicesIs
    <3> QED BY <3>1 DEF TabHold
  <2>5. s \in TabHold(T2, p) <=> p \in Indices(kept)
    BY <1>3, <1>10 DEF TabHold
  <2>6. CASE p \in Indices(kept)
    <3>1. /\ Cardinality(TabHold(T, p)) = o /\ Cardinality(TabHold(T2, p)) = o + 1
          /\ z.refs[p] = q.refs[p] + 1
      BY <2>3, <2>4, <2>5, <2>6, <1>5
    <3> QED BY <2>1, <2>2, <3>1 DEF Cnt
  <2>7. CASE p \notin Indices(kept)
    <3>1. Cardinality(TabHold(T, p)) = Cardinality(TabHold(T2, p)) /\ z.refs[p] = q.refs[p]
      BY <2>3, <2>4, <2>5, <2>7, <1>5
    <3> QED BY <2>1, <3>1 DEF Cnt
  <2> QED BY <2>6, <2>7
<1>14. /\ \A x \in DOMAIN T : Current(z, T[x].pages)
       /\ \A x \in C : Current(z, x.table.pages)
       /\ \A i \in DOMAIN D : Current(z, D[i].alloc)
  BY <1>5, CurrentIs DEF Refers
<1>15. \A x \in DOMAIN T2 : Current(z, T2[x].pages)
  <2>1. Current(z, kept)
    BY <1>8, <1>14 DEF hs
  <2> QED BY <2>1, <1>3, <1>10, <1>14
<1>16. \A i \in DOMAIN D : \A p \in Indices(D[i].alloc) : z.refs[p] = 1
  <2> SUFFICES ASSUME NEW i \in DOMAIN D, NEW p \in Indices(D[i].alloc) PROVE z.refs[p] = 1
    OBVIOUS
  <2>1. p \in Pages /\ q.refs[p] = 1
    BY <1>0
  <2>2. p \notin Indices(hs)
    BY <1>0 DEF hs
  <2> QED BY <2>1, <2>2, <1>5, <1>8
<1>17. Refers(z, T2, C, D)
  BY <1>5, <1>11, <1>13, <1>14, <1>15, <1>16, RefersBy
<1>18. \A p \in Pages : (q.refs[p] > 0 <=> z.refs[p] > 0)
  <2> SUFFICES ASSUME NEW p \in Pages PROVE q.refs[p] > 0 <=> z.refs[p] > 0
    OBVIOUS
  <2>1. CASE p \in Indices(kept)
    <3>1. q.refs[p] > 0 /\ z.refs[p] = q.refs[p] + 1 /\ q.refs[p] \in Nat
      BY <2>1, <1>2, <1>4, <1>5, <1>8
    <3> QED BY <3>1
  <2>2. CASE p \notin Indices(kept)
    BY <2>2, <1>5
  <2> QED BY <2>1, <2>2
<1>19. \A p \in Pages : p \notin Indices(hs) => z.refs[p] = q.refs[p]
  BY <1>5, <1>8
<1> QED BY <1>5, <1>11, <1>17, <1>18, <1>19 DEF hs, kept, u, T2, z

\* The tables without one of them.
LEMMA WithoutIs ==
    ASSUME NEW T, NEW C, NEW D, Store(T, C, D), NEW s \in DOMAIN T
    PROVE  LET T2 == Without(T, s)
           IN  /\ DOMAIN T2 = DOMAIN T \ {s} /\ \A x \in DOMAIN T2 : T2[x] = T[x]
               /\ Store(T2, C, D) /\ Differ(T, T2, s)
               /\ \A p : s \notin TabHold(T2, p)
<1> DEFINE T2 == Without(T, s)
<1>1. T \in [DOMAIN T -> Tables] /\ IsFiniteSet(DOMAIN T)
  BY StoreFacts DEF Store
<1>2. DOMAIN T2 = DOMAIN T \ {s} /\ (\A x \in DOMAIN T2 : T2[x] = T[x]) /\ T2 \in [DOMAIN T2 -> Tables]
  BY <1>1 DEF Without
<1> HIDE DEF T2
<1>3. Store(T2, C, D)
  BY <1>2 DEF Store
<1>4. Differ(T, T2, s)
  <2>1. IsFiniteSet(DOMAIN T2)
    BY <1>1, <1>2, FS_Subset
  <2> QED BY <2>1, <1>1, <1>2 DEF Differ
<1>5. \A p : s \notin TabHold(T2, p)
  BY <1>2 DEF TabHold
<1> QED BY <1>2, <1>3, <1>4, <1>5 DEF T2

\* A table goes with its pages.
LEMMA DropRefers ==
    ASSUME NEW q, NEW T, NEW C, NEW D, Store(T, C, D), Refers(q, T, C, D), NEW s \in DOMAIN T
    PROVE  Refers(Release(q, T[s].pages), Without(T, s), C, D)
<1> DEFINE hs == T[s].pages
           z == Release(q, hs)
           T2 == Without(T, s)
<1>1. hs \in Seq(Handles) /\ Distinct(hs)
  BY StoreFacts
<1>2. \A p \in Indices(hs) : p \in Pages /\ q.refs[p] > 0
  BY RefFacts
<1>3. /\ DOMAIN T2 = DOMAIN T \ {s} /\ (\A x \in DOMAIN T2 : T2[x] = T[x])
      /\ Store(T2, C, D) /\ Differ(T, T2, s) /\ \A p : s \notin TabHold(T2, p)
  BY WithoutIs
<1>4. PoolSound(q) /\ q.refs \in [Pages -> Nat]
  BY RefFacts DEF Refers
<1> HIDE DEF hs, T2
<1>5. /\ PoolSound(z) /\ z.gen = q.gen
      /\ \A p \in Pages : p \in Indices(hs) => z.refs[p] = q.refs[p] - 1
      /\ \A p \in Pages : p \notin Indices(hs) => z.refs[p] = q.refs[p]
  BY <1>1, <1>2, <1>4, ReleaseIs
<1> HIDE DEF z
<1>6. \A p \in Pages : z.refs[p] = Cnt(T2, C, D, p)
  <2> SUFFICES ASSUME NEW p \in Pages PROVE z.refs[p] = Cnt(T2, C, D, p)
    OBVIOUS
  <2>1. q.refs[p] = Cardinality(TabHold(T, p)) + Cardinality(PreHold(C, p)) + Cardinality(PendHold(D, p))
    BY DEF Refers, Cnt
  <2>2. Cardinality(PreHold(C, p)) \in Nat /\ Cardinality(PendHold(D, p)) \in Nat
    BY CountFacts
  <2>3. PICK o \in Nat :
              /\ s \in TabHold(T, p) => Cardinality(TabHold(T, p)) = o + 1
              /\ s \notin TabHold(T, p) => Cardinality(TabHold(T, p)) = o
              /\ s \in TabHold(T2, p) => Cardinality(TabHold(T2, p)) = o + 1
              /\ s \notin TabHold(T2, p) => Cardinality(TabHold(T2, p)) = o
    BY <1>3, TabMove
  <2>4. s \in TabHold(T, p) <=> p \in Indices(hs)
    BY DEF TabHold, hs
  <2>5. CASE p \in Indices(hs)
    <3>1. /\ Cardinality(TabHold(T, p)) = o + 1 /\ Cardinality(TabHold(T2, p)) = o
          /\ z.refs[p] = q.refs[p] - 1
      BY <2>3, <2>4, <2>5, <1>3, <1>5
    <3> QED BY <2>1, <2>2, <3>1 DEF Cnt
  <2>6. CASE p \notin Indices(hs)
    <3>1. Cardinality(TabHold(T, p)) = Cardinality(TabHold(T2, p)) /\ z.refs[p] = q.refs[p]
      BY <2>3, <2>4, <2>6, <1>3, <1>5
    <3> QED BY <2>1, <3>1 DEF Cnt
  <2> QED BY <2>5, <2>6
<1>7. /\ \A x \in DOMAIN T : Current(z, T[x].pages)
      /\ \A x \in C : Current(z, x.table.pages)
      /\ \A i \in DOMAIN D : Current(z, D[i].alloc)
  BY <1>5, CurrentIs DEF Refers
<1>8. \A x \in DOMAIN T2 : Current(z, T2[x].pages)
  BY <1>3, <1>7
<1>9. \A i \in DOMAIN D : \A p \in Indices(D[i].alloc) : z.refs[p] = 1
  <2> SUFFICES ASSUME NEW i \in DOMAIN D, NEW p \in Indices(D[i].alloc) PROVE z.refs[p] = 1
    OBVIOUS
  <2>1. p \in Pages /\ q.refs[p] = 1 /\ p \notin Indices(hs)
    BY AllocFacts DEF hs
  <2> QED BY <2>1, <1>5
<1>10. Refers(z, T2, C, D)
  BY <1>3, <1>5, <1>6, <1>7, <1>8, <1>9, RefersBy
<1> QED BY <1>10 DEF z, T2, hs

\* A table becomes the retained prefix.
LEMMA KeepRefers ==
    ASSUME NEW q, NEW T, NEW D, Store(T, {}, D), Refers(q, T, {}, D), NEW s \in DOMAIN T,
           NEW e \in Entries, e.table = T[s]
    PROVE  Store(Without(T, s), {e}, D) /\ Refers(q, Without(T, s), {e}, D)
<1> DEFINE T2 == Without(T, s)
           hs == T[s].pages
<1>1. /\ DOMAIN T2 = DOMAIN T \ {s} /\ (\A x \in DOMAIN T2 : T2[x] = T[x])
      /\ Store(T2, {}, D) /\ Differ(T, T2, s) /\ \A p : s \notin TabHold(T2, p)
  BY WithoutIs
<1> HIDE DEF T2
<1>2. IsFiniteSet({e}) /\ Cardinality({e}) = 1
  BY FS_Singleton
<1>3. Store(T2, {e}, D)
  <2>1. Sane(e.table)
    BY DEF Store
  <2> QED BY <2>1, <1>1, <1>2 DEF Store
<1>4. \A p \in Pages : q.refs[p] = Cnt(T2, {e}, D, p)
  <2> SUFFICES ASSUME NEW p \in Pages PROVE q.refs[p] = Cnt(T2, {e}, D, p)
    OBVIOUS
  <2>1. q.refs[p] = Cardinality(TabHold(T, p)) + Cardinality(PreHold({}, p)) + Cardinality(PendHold(D, p))
    BY DEF Refers, Cnt
  <2>2. Cardinality(PreHold({}, p)) = 0
    <3>1. PreHold({}, p) = {}
      BY DEF PreHold
    <3> QED BY <3>1, FS_EmptySet
  <2>3. Cardinality(PendHold(D, p)) \in Nat
    BY CountFacts
  <2>4. PICK o \in Nat :
              /\ s \in TabHold(T, p) => Cardinality(TabHold(T, p)) = o + 1
              /\ s \notin TabHold(T, p) => Cardinality(TabHold(T, p)) = o
              /\ s \in TabHold(T2, p) => Cardinality(TabHold(T2, p)) = o + 1
              /\ s \notin TabHold(T2, p) => Cardinality(TabHold(T2, p)) = o
    BY <1>1, TabMove
  <2>5. s \in TabHold(T, p) <=> p \in Indices(hs)
    BY DEF TabHold
  <2>6. /\ Cardinality(PreHold({e}, p)) \in {0, 1}
        /\ Cardinality(PreHold({e}, p)) = 1 <=> p \in Indices(hs)
    <3>1. /\ Cardinality(PreHold({e}, p)) \in {0, 1}
          /\ Cardinality(PreHold({e}, p)) = 1 <=> \E c \in {e} : p \in Indices(c.table.pages)
      BY <1>2, PreCount
    <3> QED BY <3>1
  <2>7. CASE p \in Indices(hs)
    <3>1. /\ Cardinality(TabHold(T, p)) = o + 1 /\ Cardinality(TabHold(T2, p)) = o
          /\ Cardinality(PreHold({e}, p)) = 1
      BY <2>4, <2>5, <2>6, <2>7, <1>1
    <3> QED BY <2>1, <2>2, <2>3, <3>1 DEF Cnt
  <2>8. CASE p \notin Indices(hs)
    <3>1. /\ Cardinality(TabHold(T, p)) = Cardinality(TabHold(T2, p))
          /\ Cardinality(PreHold({e}, p)) = 0
      BY <2>4, <2>5, <2>6, <2>8, <1>1
    <3> QED BY <2>1, <2>2, <3>1 DEF Cnt
  <2> QED BY <2>7, <2>8
<1>5. Refers(q, T2, {e}, D)
  BY <1>1, <1>4 DEF Refers
<1> QED BY <1>3, <1>5 DEF T2

\* Releasing nothing changes no count.
LEMMA EmptyRelease ==
    ASSUME NEW q, NEW T, NEW C, NEW D, Store(T, C, D), Refers(q, T, C, D)
    PROVE  /\ Refers(Release(q, <<>>), T, C, D)
           /\ \A p \in Pages : Release(q, <<>>).refs[p] = q.refs[p]
           /\ Release(q, <<>>).gen = q.gen
<1>1. <<>> \in Seq(Handles) /\ Distinct(<<>>) /\ \A p : p \notin Indices(<<>>)
  BY IndicesIs DEF Distinct
<1>2. PoolSound(q)
  BY DEF Refers
<1> DEFINE z == Release(q, <<>>)
<1>3. PoolSound(z) /\ z.gen = q.gen /\ \A p \in Pages : z.refs[p] = q.refs[p]
  BY <1>1, <1>2, ReleaseIs
<1> HIDE DEF z
<1>4. Refers(z, T, C, D)
  BY <1>3, SameRefers
<1> QED BY <1>3, <1>4 DEF z

\* A new, empty table.
LEMMA PutRefers ==
    ASSUME NEW q, NEW T, NEW C, NEW D, Store(T, C, D), Refers(q, T, C, D),
           NEW s \in Sessions, s \notin DOMAIN T
    PROVE  LET T2 == Put(T, s, EmptyTable)
           IN  /\ Store(T2, C, D) /\ Refers(q, T2, C, D)
               /\ DOMAIN T2 = DOMAIN T \cup {s} /\ T2[s] = EmptyTable
               /\ \A x \in DOMAIN T : T2[x] = T[x]
<1> DEFINE T2 == Put(T, s, EmptyTable)
<1>1. EmptyTable \in Tables /\ EmptyTable.pages = <<>> /\ EmptyTable.len = 0
  BY DEF EmptyTable, Tables
<1>2. Sane(EmptyTable)
  <2>1. DivCeil(0, PageTokens) = 0
    BY PageAssumption DEF DivCeil
  <2>2. Distinct(<<>>)
    BY DEF Distinct
  <2> QED BY <1>1, <2>1, <2>2 DEF Sane, Fits
<1>3. T \in [DOMAIN T -> Tables]
  BY DEF Store
<1>4. /\ DOMAIN T2 = DOMAIN T \cup {s} /\ T2[s] = EmptyTable
      /\ \A x \in DOMAIN T : T2[x] = T[x]
      /\ T2 \in [DOMAIN T2 -> Tables]
  BY <1>1, <1>3 DEF Put
<1> HIDE DEF T2
<1>5. Store(T2, C, D)
  BY <1>2, <1>4 DEF Store
<1>6. \A p : TabHold(T2, p) = TabHold(T, p)
  <2>1. \A p : p \notin Indices(EmptyTable.pages)
    BY <1>1, IndicesIs
  <2> QED BY <2>1, <1>4 DEF TabHold
<1>7. \A x \in DOMAIN T2 : AllLive(q, T2[x].pages)
  <2>1. AllLive(q, EmptyTable.pages)
    BY <1>1 DEF AllLive
  <2> QED BY <2>1, <1>4 DEF Refers
<1>8. Refers(q, T2, C, D)
  BY <1>6, <1>7 DEF Refers, Cnt
<1> QED BY <1>4, <1>5, <1>8 DEF T2

\* A new engine's pool has no page and nobody refers to one.
LEMMA FreshRefers == Store(NoEntries, {}, <<>>) /\ Refers(EmptyPool, NoEntries, {}, <<>>)
<1>1. IsFiniteSet({}) /\ Cardinality({}) = 0
  BY FS_EmptySet
<1>2. DOMAIN NoEntries = {} /\ NoEntries \in [{} -> Tables]
  BY DEF NoEntries
<1>3. Store(NoEntries, {}, <<>>)
  BY <1>1, <1>2 DEF Store
<1>4. /\ EmptyPool \in Pools /\ EmptyPool.refs = [p \in Pages |-> 0] /\ EmptyPool.free = <<>>
      /\ EmptyPool.used = 0
  BY PageAssumption DEF EmptyPool, Pools
<1>5. Stack(EmptyPool.refs, EmptyPool.free, EmptyPool.used)
  <2>1. Elems(<<>>) = {}
    BY DEF Elems
  <2>2. 1 .. 0 = {}
    OBVIOUS
  <2> QED BY <1>4, <2>1, <2>2 DEF Stack
<1>6. PoolSound(EmptyPool)
  BY <1>4, <1>5, PoolParts
<1>7. \A p \in Pages : EmptyPool.refs[p] = Cnt(NoEntries, {}, <<>>, p)
  <2> SUFFICES ASSUME NEW p \in Pages PROVE 0 = Cnt(NoEntries, {}, <<>>, p)
    BY <1>4
  <2>1. TabHold(NoEntries, p) = {} /\ PreHold({}, p) = {} /\ PendHold(<<>>, p) = {}
    BY <1>2 DEF TabHold, PreHold, PendHold
  <2>2. Cnt(NoEntries, {}, <<>>, p) = Cardinality({}) + Cardinality({}) + Cardinality({})
    BY <2>1 DEF Cnt
  <2> QED BY <2>2, <1>1
<1>8. Refers(EmptyPool, NoEntries, {}, <<>>)
  BY <1>2, <1>6, <1>7 DEF Refers
<1> QED BY <1>3, <1>8

(***************************************************************************)
(* The inductive invariant.                                                *)
(***************************************************************************)

DevPages == [Pages -> [gen : Nat, rows : [0 .. PageTokens - 1 -> Seq(Tokens)]]]

Kinds  == {"idle", "prefill", "decode", "acquire", "batchPrefill", "batchDecode"}
Stages == {"none", "enter", "cursor", "prepare", "kernel", "commit", "abort"}
Errors == {"none", "device", "capacity", "position", "kernel"}
OpTyped(o) ==
    /\ o = [kind |-> o.kind, stage |-> o.stage, rows |-> o.rows, in |-> o.in,
            todo |-> o.todo, pend |-> o.pend, err |-> o.err]
    /\ o.kind \in Kinds /\ o.stage \in Stages /\ o.err \in Errors
    /\ o.rows \in Seq(Sessions) /\ o.todo \in Seq(Sessions)
    /\ o.in \in [Elems(o.rows) -> Seq(Tokens)]
    /\ o.pend \in Seq(Pending)

Typed ==
    /\ up \in BOOLEAN
    /\ record \in [DOMAIN record -> Seq(Tokens)]
    /\ DOMAIN record \subseteq DOMAIN tables
    /\ slots \in [1 .. Slots -> [gen : Nat, holder : Sessions \cup {Nobody}]]
    /\ lease \in [Sessions -> SUBSET [slot : 1 .. Slots, gen : Nat]]
    /\ phase \in [Sessions -> Phases]
    /\ toks \in [Sessions -> Seq(Tokens)]
    /\ done \in [Sessions -> Nat]
    /\ pos \in [Sessions -> Nat]
    /\ solo \in SUBSET Sessions

\* Pool, tables, prefix and appends count the same; the device has the pages.
Counted == Store(tables, cached, op.pend) /\ Refers(pool, tables, cached, op.pend)

Mirrors(d, q) ==
    /\ d \in DevPages
    /\ \A p \in Pages : d[p].gen = IF q.refs[p] > 0 THEN q.gen[p] ELSE 0

\* A prompt that is not finished has a token left.
Progress(s) ==
    /\ pos[s] <= Len(toks[s]) /\ done[s] <= Len(toks[s])
    /\ phase[s] = "new" => done[s] = 0 /\ pos[s] = 0
    /\ phase[s] = "prefill" => done[s] < Len(toks[s])

Going == \A s \in Sessions : Progress(s)

\* The rows an operation still has to commit.
PendSeqs == {op.pend[i].seq : i \in DOMAIN op.pend}
Working == op.stage \in {"prepare", "kernel", "commit", "abort"}
Injective(f) == \A i, j \in DOMAIN f : f[i] = f[j] => i = j

OpShape ==
    /\ op.kind = "idle" <=> op = Idle
    /\ op.stage = "none" => op = Idle
    /\ op # Idle => op.rows # <<>>
    /\ Single => Len(op.rows) = 1
    /\ Injective(op.rows)

OpStages ==
    /\ op.stage \in {"enter", "cursor"} => op.pend = <<>> /\ op.todo = op.rows
    /\ op.stage = "cursor" => Single /\ Elems(op.rows) \subseteq DOMAIN tables
    /\ Working => op.kind # "acquire" /\ Elems(op.rows) \subseteq DOMAIN tables
    /\ Elems(op.todo) \subseteq Elems(op.rows) /\ PendSeqs \subseteq Elems(op.rows)
    /\ op.stage = "prepare" => op.todo # <<>> /\ Injective(op.todo)
    /\ op.stage = "prepare" => PendSeqs \cap Elems(op.todo) = {}
    /\ op.stage \in {"kernel", "commit"} => op.todo = <<>>
    /\ op.stage = "kernel" => op.pend # <<>>
    /\ \A i, j \in DOMAIN op.pend : op.pend[i].seq = op.pend[j].seq => i = j
    /\ op.stage = "abort" /\ op.err = "position" => ~Single

\* What is appended: the rest of a prompt's chunk, or one token.
Coming(s) == IF s \in Elems(op.todo) \cup PendSeqs THEN Len(op.in[s]) ELSE 0
Appends(s) ==
    /\ phase[s] # "new"
    /\ Working /\ op.stage # "abort" /\ s \in Elems(op.todo) \cup PendSeqs => op.in[s] # <<>>
    /\ Working /\ op.stage # "abort" /\ op.kind \in {"prefill", "batchPrefill"} =>
          tables[s].len + Coming(s) <= Len(toks[s])
    /\ op.kind \in {"prefill", "batchPrefill"} /\ op.stage \in {"enter", "cursor"} =>
          op.in[s] # <<>> /\ done[s] + Len(op.in[s]) <= Len(toks[s])
    /\ op.kind \in {"decode", "batchDecode"} => Len(op.in[s]) = 1

Appending == \A s \in Elems(op.rows) : Appends(s)

\* A pending append: the pages of its table, less the shared one it copies, then
\* the pages it reserved.
PendSound(r) ==
    LET t == tables[r.seq]
    IN  /\ r.from = t.len
        /\ r.pages = Own(t, r.cow) \o r.alloc
        /\ Len(r.pages) = DivCeil(t.len + Len(op.in[r.seq]), PageTokens)
        /\ r.cow => t.len % PageTokens # 0 /\ op.kind = "prefill"
        /\ r.cow /\ op.stage # "abort" => pool.refs[LastPage(t)] >= 2
        /\ ~r.cow /\ t.len % PageTokens # 0 => pool.refs[LastPage(t)] = 1

Pends == \A i \in DOMAIN op.pend : PendSound(op.pend[i])

\* A sequence shares the page it writes next only from the adoption of a prefix to
\* the commit that follows.
Adopting(s) ==
    /\ op.kind = "prefill" /\ Working /\ s = This
    /\ op.stage = "commit" => op.pend # <<>>
Owned(q, t) == t.len % PageTokens # 0 => q.refs[LastPage(t)] = 1
Tails == \A s \in DOMAIN tables : Owned(pool, tables[s]) \/ Adopting(s)

Seated ==
    /\ ~up => DOMAIN tables = {}
    /\ \A s \in DOMAIN tables : LeaseValid(s)
    /\ \A i \in 1 .. Slots : slots[i].holder # Nobody => slots[i].holder \in DOMAIN tables
    /\ \A i, j \in 1 .. Slots :
          slots[i].holder = slots[j].holder /\ slots[i].holder # Nobody => i = j

OpSound == OpTyped(op) /\ OpShape /\ OpStages /\ Appending /\ Pends

PagedInv ==
    /\ Typed /\ Going
    /\ Counted /\ Mirrors(dev, pool)
    /\ OpSound /\ Tails
    /\ Seated

\* Between operations there is nothing to commit.
LEMMA Rests ==
    ASSUME op' = Idle
    PROVE  OpSound' /\ op'.pend = <<>> /\ \A s : ~Adopting(s)'
<1>1. /\ op'.kind = "idle" /\ op'.stage = "none" /\ op'.rows = <<>> /\ op'.todo = <<>>
      /\ op'.pend = <<>> /\ op'.in = NoEntries /\ op'.err = "none"
  BY DEF Idle
<1>2. Elems(<<>>) = {} /\ DOMAIN op'.pend = {}
  BY <1>1 DEF Elems
<1>3. OpTyped(op')
  <2>1. NoEntries \in [{} -> Seq(Tokens)]
    BY DEF NoEntries
  <2>2. op' = [kind |-> op'.kind, stage |-> op'.stage, rows |-> op'.rows, in |-> op'.in,
               todo |-> op'.todo, pend |-> op'.pend, err |-> op'.err]
    BY DEF Idle
  <2> QED BY <1>1, <1>2, <2>1, <2>2 DEF OpTyped, Kinds, Stages, Errors
<1>4. OpShape'
  BY <1>1 DEF OpShape, Single, Injective
<1>5. OpStages'
  <2>1. PendSeqs' = {}
    BY <1>2 DEF PendSeqs
  <2> QED BY <1>1, <1>2, <2>1 DEF OpStages, Working
<1>6. Appending' /\ Pends'
  BY <1>1, <1>2 DEF Appending, Pends
<1> QED BY <1>1, <1>3, <1>4, <1>5, <1>6 DEF OpSound, Adopting

\* An engine that is new, or gone.
LEMMA FreshIs ==
    ASSUME FreshEngine, op'.pend = <<>>
    PROVE  /\ Counted' /\ Mirrors(dev, pool)' /\ Tails' /\ Seated'
           /\ record' \in [DOMAIN record' -> Seq(Tokens)] /\ DOMAIN record' \subseteq DOMAIN tables'
           /\ slots' \in [1 .. Slots -> [gen : Nat, holder : Sessions \cup {Nobody}]]
<1>1. /\ pool' = EmptyPool /\ tables' = NoEntries /\ record' = NoEntries /\ cached' = {}
      /\ dev' = [p \in Pages |-> NoPage]
      /\ slots' = [i \in 1 .. Slots |-> [gen |-> 0, holder |-> Nobody]]
  BY DEF FreshEngine
<1>2. DOMAIN NoEntries = {} /\ NoEntries \in [{} -> Seq(Tokens)]
  BY DEF NoEntries
<1>3. Counted'
  BY <1>1, FreshRefers DEF Counted
<1>4. Mirrors(dev, pool)'
  <2>1. NoPage \in [gen : Nat, rows : [0 .. PageTokens - 1 -> Seq(Tokens)]] /\ NoPage.gen = 0
    BY DEF NoPage
  <2>2. \A p \in Pages : EmptyPool.refs[p] = 0
    BY DEF EmptyPool
  <2> QED BY <1>1, <2>1, <2>2 DEF Mirrors, DevPages
<1>5. Tails'
  BY <1>1, <1>2 DEF Tails
<1>6. \A i \in 1 .. Slots : slots'[i].holder = Nobody
  BY <1>1
<1>7. Seated'
  BY <1>1, <1>2, <1>6 DEF Seated
<1> QED BY <1>1, <1>2, <1>3, <1>4, <1>5, <1>7, SizeAssumption

\* Dropping the engine in the middle of an operation (Teardown) keeps the invariant.
LEMMA TeardownInv ==
    ASSUME PagedInv, Teardown
    PROVE  PagedInv'
<1>1. op' = Idle /\ up' = FALSE /\ FreshEngine /\ UNCHANGED <<toks, done, pos, solo>>
  BY DEF Teardown
<1>2. lease' = [s \in Sessions |-> IF s \in Elems(op.rows) THEN {} ELSE lease[s]]
  BY DEF Teardown
<1>3. PICK ss : phase' = [s \in Sessions |-> IF s \in ss THEN "failed" ELSE phase[s]]
  BY DEF Teardown, Fail
<1>4. OpSound' /\ op'.pend = <<>>
  BY <1>1, Rests
<1>5. /\ Counted' /\ Mirrors(dev, pool)' /\ Tails' /\ Seated'
      /\ record' \in [DOMAIN record' -> Seq(Tokens)] /\ DOMAIN record' \subseteq DOMAIN tables'
      /\ slots' \in [1 .. Slots -> [gen : Nat, holder : Sessions \cup {Nobody}]]
  BY <1>1, <1>4, FreshIs
<1>6. Typed'
  BY <1>1, <1>2, <1>3, <1>5 DEF PagedInv, Typed, Phases
<1>7. Going'
  BY <1>1, <1>3 DEF PagedInv, Typed, Going, Progress
<1> QED BY <1>4, <1>5, <1>6, <1>7 DEF PagedInv

\* The engine as it was, and an operation no further.
LEMMA SameEngine ==
    ASSUME PagedInv, UNCHANGED engineVars, op'.pend = op.pend
    PROVE  Counted' /\ Mirrors(dev, pool)'
BY DEF PagedInv, Counted, engineVars

\* Pool and tables as they were leave every last page as it was.
LEMMA SameTails ==
    ASSUME PagedInv, UNCHANGED <<pool, tables>>,
           \A s \in DOMAIN tables : Adopting(s) => Adopting(s)'
    PROVE  Tails'
BY DEF PagedInv, Tails, Owned

\* Slots and leases as they were stay matched with the tables.
LEMMA SameSeats ==
    ASSUME PagedInv, UNCHANGED <<up, slots, lease>>, DOMAIN tables' = DOMAIN tables
    PROVE  Seated'
BY DEF PagedInv, Seated, LeaseValid

\* Nothing pending: no append to be sound.
LEMMA NoPends ==
    ASSUME op'.pend = <<>>
    PROVE  Pends' /\ PendSeqs' = {} /\ DOMAIN op'.pend = {}
<1>1. DOMAIN op'.pend = {}
  OBVIOUS
<1> QED BY <1>1 DEF Pends, PendSeqs

\* An operation that begins.
LEMMA BegunIs ==
    ASSUME NEW kind \in Kinds \ {"idle"}, NEW rows \in Seq(Sessions), rows # <<>>,
           NEW in \in [Elems(rows) -> Seq(Tokens)], Injective(rows),
           kind \in {"prefill", "decode", "acquire"} => Len(rows) = 1,
           op' = Begun(kind, rows, in)
    PROVE  /\ OpTyped(op') /\ OpShape' /\ OpStages' /\ Pends'
           /\ op'.pend = <<>> /\ op'.stage = "enter" /\ op'.kind = kind
           /\ op'.rows = rows /\ op'.in = in /\ ~Working' /\ \A s : ~Adopting(s)'
<1>1. /\ op'.kind = kind /\ op'.stage = "enter" /\ op'.rows = rows /\ op'.in = in
      /\ op'.todo = rows /\ op'.pend = <<>> /\ op'.err = "none"
      /\ op' = [kind |-> op'.kind, stage |-> op'.stage, rows |-> op'.rows, in |-> op'.in,
                todo |-> op'.todo, pend |-> op'.pend, err |-> op'.err]
  BY DEF Begun
<1>2. Pends' /\ PendSeqs' = {} /\ DOMAIN op'.pend = {}
  BY <1>1, NoPends
<1>3. OpTyped(op')
  BY <1>1 DEF OpTyped, Stages, Errors
<1>4. op' # Idle /\ op'.kind # "idle"
  BY <1>1 DEF Idle, Kinds
<1>5. OpShape'
  BY <1>1, <1>4 DEF OpShape, Single
<1>6. ~Working'
  BY <1>1 DEF Working
<1>7. OpStages'
  BY <1>1, <1>2, <1>6 DEF OpStages
<1> QED BY <1>1, <1>2, <1>3, <1>5, <1>6, <1>7 DEF Adopting

\* A prompt: given once, then what it was.
LEMMA PromptIs ==
    ASSUME PagedInv, NEW s \in Sessions, NEW prompt \in PromptOf(s), Prefilling(s, prompt)
    PROVE  /\ prompt \in Seq(Tokens) /\ done[s] < Len(prompt) /\ pos[s] <= Len(prompt)
           /\ toks' \in [Sessions -> Seq(Tokens)] /\ toks'[s] = prompt
           /\ phase' \in [Sessions -> Phases] /\ phase'[s] = "prefill"
           /\ UNCHANGED <<lease, done, pos, solo>>
           /\ Going'
<1>1. /\ toks \in [Sessions -> Seq(Tokens)] /\ phase \in [Sessions -> Phases]
      /\ done \in [Sessions -> Nat] /\ pos \in [Sessions -> Nat]
      /\ \A x \in Sessions : Progress(x)
  BY DEF PagedInv, Typed, Going
<1>2. /\ toks' = [toks EXCEPT ![s] = prompt] /\ phase' = [phase EXCEPT ![s] = "prefill"]
      /\ UNCHANGED <<lease, done, pos, solo>> /\ phase[s] \in {"new", "prefill"}
  BY DEF Prefilling
<1>3. prompt \in Seq(Tokens) /\ done[s] < Len(prompt) /\ pos[s] <= Len(prompt)
  <2>1. CASE phase[s] = "new"
    <3>1. prompt \in Prefix /\ Len(prompt) >= 2
      BY <2>1 DEF PromptOf, Prompts
    <3>2. PICK n \in 0 .. MaxPos : prompt \in [1 .. n -> Tokens]
      BY <3>1 DEF Prefix
    <3>3. n \in Nat
      BY <3>2, SizeAssumption
    <3>4. prompt \in Seq(Tokens)
      BY <3>2, <3>3
    <3>5. done[s] = 0 /\ pos[s] = 0
      BY <1>1, <2>1 DEF Progress
    <3> QED BY <3>1, <3>4, <3>5
  <2>2. CASE phase[s] # "new"
    <3>1. prompt = toks[s] /\ phase[s] = "prefill"
      BY <2>2, <1>2 DEF PromptOf
    <3> QED BY <3>1, <1>1 DEF Progress
  <2> QED BY <2>1, <2>2
<1>4. Going'
  <2> SUFFICES ASSUME NEW x \in Sessions PROVE Progress(x)'
    BY DEF Going
  <2>1. CASE x = s
    BY <2>1, <1>1, <1>2, <1>3 DEF Progress
  <2>2. CASE x # s
    BY <2>2, <1>1, <1>2 DEF Progress
  <2> QED BY <2>1, <2>2
<1> QED BY <1>1, <1>2, <1>3, <1>4 DEF Phases

\* An operation on one sequence.
LEMMA OneRow ==
    ASSUME NEW s \in Sessions
    PROVE  /\ <<s>> \in Seq(Sessions) /\ <<s>> # <<>> /\ Elems(<<s>>) = {s}
           /\ Injective(<<s>>) /\ Len(<<s>>) = 1 /\ <<s>>[1] = s
BY DEF Elems, Injective

\* EnterPrefill keeps the invariant.
LEMMA EnterPrefillInv ==
    ASSUME PagedInv, NEW s \in Sessions, EnterPrefill(s)
    PROVE  PagedInv'
<1>1. op = Idle /\ UNCHANGED up /\ UNCHANGED engineVars
  BY DEF EnterPrefill
<1>0. PICK prompt \in PromptOf(s) : \E end \in done[s] + 1 .. Len(prompt) :
         /\ Prefilling(s, prompt)
         /\ op' = Begun("prefill", <<s>>, [x \in {s} |-> SubSeq(prompt, done[s] + 1, end)])
  BY DEF EnterPrefill
<1>2. PICK end \in done[s] + 1 .. Len(prompt) :
         /\ Prefilling(s, prompt)
         /\ op' = Begun("prefill", <<s>>, [x \in {s} |-> SubSeq(prompt, done[s] + 1, end)])
  BY <1>0
<1> DEFINE chunk == SubSeq(prompt, done[s] + 1, end)
           in == [x \in {s} |-> chunk]
<1>3. /\ prompt \in Seq(Tokens) /\ done[s] < Len(prompt)
      /\ toks' \in [Sessions -> Seq(Tokens)] /\ toks'[s] = prompt
      /\ phase' \in [Sessions -> Phases] /\ phase'[s] = "prefill"
      /\ UNCHANGED <<lease, done, pos, solo>>
      /\ Going'
  BY <1>2, PromptIs
<1>4. done[s] \in Nat
  BY DEF PagedInv, Typed
<1>5. chunk \in Seq(Tokens) /\ Len(chunk) = end - done[s] /\ end \in Nat
  BY <1>2, <1>3, <1>4
<1> HIDE DEF chunk
<1>6. /\ OpTyped(op') /\ OpShape' /\ OpStages' /\ Pends'
      /\ op'.pend = <<>> /\ op'.stage = "enter" /\ op'.kind = "prefill"
      /\ op'.rows = <<s>> /\ op'.in = in /\ ~Working' /\ \A x : ~Adopting(x)'
  <2>1. in \in [Elems(<<s>>) -> Seq(Tokens)]
    BY <1>5, OneRow
  <2>2. op' = Begun("prefill", <<s>>, in)
    BY <1>2 DEF chunk
  <2> HIDE DEF in
  <2> QED BY <2>1, <2>2, OneRow, BegunIs DEF Kinds
<1>7. op'.in[s] = chunk /\ Elems(op'.rows) = {s}
  BY <1>6, OneRow
<1>8. Appending'
  <2>1. op'.in[s] # <<>> /\ done'[s] + Len(op'.in[s]) <= Len(toks'[s])
    BY <1>2, <1>3, <1>4, <1>5, <1>7
  <2> QED BY <2>1, <1>3, <1>6, <1>7 DEF Appending, Appends
<1>9. Typed'
  BY <1>1, <1>3 DEF PagedInv, Typed, engineVars
<1>10. op.pend = <<>> /\ \A x : ~Adopting(x)
  BY <1>1 DEF Idle, Adopting
<1>11. Counted' /\ Mirrors(dev, pool)' /\ Tails' /\ Seated'
  BY <1>1, <1>3, <1>6, <1>10, SameEngine, SameTails, SameSeats DEF engineVars
<1> QED BY <1>3, <1>6, <1>8, <1>9, <1>11 DEF PagedInv, OpSound

\* EnterAcquire keeps the invariant.
LEMMA EnterAcquireInv ==
    ASSUME PagedInv, NEW s \in Sessions, EnterAcquire(s)
    PROVE  PagedInv'
<1>1. op = Idle /\ UNCHANGED up /\ UNCHANGED engineVars
  BY DEF EnterAcquire
<1>2. PICK prompt \in PromptOf(s) : Prefilling(s, prompt)
  BY DEF EnterAcquire
<1> DEFINE in == [x \in {s} |-> <<>>]
<1>3. /\ toks' \in [Sessions -> Seq(Tokens)]
      /\ phase' \in [Sessions -> Phases] /\ phase'[s] = "prefill"
      /\ UNCHANGED <<lease, done, pos, solo>>
      /\ Going'
  BY <1>2, PromptIs
<1>4. in \in [Elems(<<s>>) -> Seq(Tokens)] /\ op' = Begun("acquire", <<s>>, in)
  BY OneRow DEF EnterAcquire
<1> HIDE DEF in
<1>5. /\ OpTyped(op') /\ OpShape' /\ OpStages' /\ Pends'
      /\ op'.pend = <<>> /\ op'.stage = "enter" /\ op'.kind = "acquire" /\ op'.rows = <<s>>
      /\ ~Working' /\ \A x : ~Adopting(x)'
  BY <1>4, OneRow, BegunIs DEF Kinds
<1>6. Appending'
  BY <1>3, <1>5, OneRow DEF Appending, Appends
<1>7. Typed'
  BY <1>1, <1>3 DEF PagedInv, Typed, engineVars
<1>8. op.pend = <<>> /\ \A x : ~Adopting(x)
  BY <1>1 DEF Idle, Adopting
<1>9. Counted' /\ Mirrors(dev, pool)' /\ Tails' /\ Seated'
  BY <1>1, <1>3, <1>5, <1>8, SameEngine, SameTails, SameSeats DEF engineVars
<1> QED BY <1>3, <1>5, <1>6, <1>7, <1>9 DEF PagedInv, OpSound

\* EnterDecode keeps the invariant.
LEMMA EnterDecodeInv ==
    ASSUME PagedInv, NEW s \in Sessions, EnterDecode(s)
    PROVE  PagedInv'
<1>1. /\ op = Idle /\ UNCHANGED <<up, lease, phase, toks, done, pos>> /\ UNCHANGED engineVars
      /\ solo' = solo \ {s}
  BY DEF EnterDecode
<1>2. PICK t \in Tokens : op' = Begun("decode", <<s>>, [x \in {s} |-> <<t>>])
  BY DEF EnterDecode
<1> DEFINE in == [x \in {s} |-> <<t>>]
<1>3. in \in [Elems(<<s>>) -> Seq(Tokens)] /\ op' = Begun("decode", <<s>>, in)
  BY <1>2, OneRow
<1>4. in[s] = <<t>>
  OBVIOUS
<1> HIDE DEF in
<1>5. /\ OpTyped(op') /\ OpShape' /\ OpStages' /\ Pends'
      /\ op'.pend = <<>> /\ op'.stage = "enter" /\ op'.kind = "decode"
      /\ op'.rows = <<s>> /\ op'.in = in /\ ~Working' /\ \A x : ~Adopting(x)'
  BY <1>3, OneRow, BegunIs DEF Kinds
<1>6. Appending'
  BY <1>1, <1>4, <1>5, OneRow DEF Appending, Appends, EnterDecode
<1>7. Typed'
  BY <1>1 DEF PagedInv, Typed, engineVars
<1>8. Going'
  BY <1>1 DEF PagedInv, Going, Progress
<1>9. op.pend = <<>> /\ \A x : ~Adopting(x)
  BY <1>1 DEF Idle, Adopting
<1>10. Counted' /\ Mirrors(dev, pool)' /\ Tails' /\ Seated'
  BY <1>1, <1>5, <1>9, SameEngine, SameTails, SameSeats DEF engineVars
<1> QED BY <1>5, <1>6, <1>7, <1>8, <1>10 DEF PagedInv, OpSound

\* A sequence of one element is not empty, and lengthens another by one.
LEMMA OneLong ==
    ASSUME NEW S, NEW a \in Seq(S), NEW b \in Seq(S), Len(b) = 1
    PROVE  b # <<>> /\ a \o b \in Seq(S) /\ Len(a \o b) = Len(a) + 1 /\ Len(a) \in Nat
<1>1. Len(<<>>) = 0
  BY EmptySeq
<1>0. 1 # 0
  OBVIOUS
<1>2. b # <<>>
  BY <1>0, <1>1, Zenon
<1>3. a \o b \in Seq(S) /\ Len(a \o b) = Len(a) + Len(b)
  BY ConcatProperties
<1>4. Len(a) \in Nat
  OBVIOUS
<1> QED BY <1>2, <1>3, <1>4

\* The rows of a batch, each once.
LEMMA OrdersAre ==
    ASSUME NEW ss \in SUBSET Sessions, Cardinality(ss) >= 2, NEW rows \in Orders(ss)
    PROVE  rows \in Seq(Sessions) /\ rows # <<>> /\ Injective(rows) /\ Elems(rows) = ss
<1> DEFINE n == Cardinality(ss)
<1>1. n \in Nat /\ n >= 2 /\ IsFiniteSet(ss)
  BY FS_Subset, FS_CardinalityType, SessionAssumption
<1>2. rows \in [1 .. n -> ss] /\ Elems(rows) = ss
  BY DEF Orders
<1> HIDE DEF n
<1>3. rows \in Seq(Sessions) /\ DOMAIN rows = 1 .. n
  BY <1>1, <1>2
<1>4. rows # <<>>
  BY <1>1, <1>3
<1>5. rows \in Surjection(1 .. n, ss)
  BY <1>2, <1>3 DEF Elems, Surjection
<1>6. IsFiniteSet(1 .. n) /\ Cardinality(1 .. n) = n
  BY <1>1, FS_Interval
<1>7. rows \in Injection(1 .. n, ss)
  BY <1>5, <1>6, FS_Surjection DEF n
<1>8. Injective(rows)
  BY <1>3, <1>7 DEF Injective, Injection, IsInjective
<1> QED BY <1>2, <1>3, <1>4, <1>8

\* EnterBatch keeps the invariant.
LEMMA EnterBatchInv ==
    ASSUME PagedInv, NEW ss \in SUBSET Sessions, EnterBatch(ss)
    PROVE  PagedInv'
<1>1. op = Idle /\ UNCHANGED <<up, lease, phase, toks, done, pos, solo>> /\ UNCHANGED engineVars
  BY DEF EnterBatch, sessionVars
<1>2. PICK rows \in Orders(ss) :
          \/ /\ \A s \in ss : phase[s] = "prefill"
             /\ op' = Begun("batchPrefill", rows, [s \in ss |-> <<toks[s][done[s] + 1]>>])
          \/ /\ \A s \in ss : phase[s] = "decode" /\ Len(toks[s]) < MaxTokens
             /\ \E in \in [ss -> Tokens] :
                   op' = Begun("batchDecode", rows, [s \in ss |-> <<in[s]>>])
  BY DEF EnterBatch
<1>3. rows \in Seq(Sessions) /\ rows # <<>> /\ Injective(rows) /\ Elems(rows) = ss
  BY <1>2, OrdersAre DEF EnterBatch
<1>4. /\ toks \in [Sessions -> Seq(Tokens)] /\ done \in [Sessions -> Nat]
      /\ \A s \in Sessions : Progress(s)
  BY DEF PagedInv, Typed, Going
<1>5. \E kind \in {"batchPrefill", "batchDecode"} : \E in \in [ss -> Seq(Tokens)] :
         /\ op' = Begun(kind, rows, in)
         /\ \A s \in ss : Len(in[s]) = 1 /\ phase[s] # "new"
         /\ kind = "batchPrefill" => \A s \in ss : done[s] + 1 <= Len(toks[s])
  <2>1. CASE /\ \A s \in ss : phase[s] = "prefill"
             /\ op' = Begun("batchPrefill", rows, [s \in ss |-> <<toks[s][done[s] + 1]>>])
    <3> DEFINE in == [s \in ss |-> <<toks[s][done[s] + 1]>>]
    <3>1. \A s \in ss : done[s] < Len(toks[s]) /\ done[s] \in Nat /\ toks[s] \in Seq(Tokens)
      BY <2>1, <1>4 DEF Progress
    <3>2. \A s \in ss : toks[s][done[s] + 1] \in Tokens
      BY <3>1
    <3>3. \A s \in ss : in[s] \in Seq(Tokens) /\ Len(in[s]) = 1
      BY <3>2
    <3>4. in \in [ss -> Seq(Tokens)]
      BY <3>3
    <3>5. op' = Begun("batchPrefill", rows, in)
      BY <2>1
    <3>6. \A s \in ss : done[s] + 1 <= Len(toks[s])
      BY <3>1
    <3> HIDE DEF in
    <3>7. \A s \in ss : phase[s] # "new"
      BY <2>1
    <3> QED BY <3>3, <3>4, <3>5, <3>6, <3>7
  <2>2. ASSUME NEW f \in [ss -> Tokens],
               op' = Begun("batchDecode", rows, [s \in ss |-> <<f[s]>>])
        PROVE  \E in \in [ss -> Seq(Tokens)] :
                  op' = Begun("batchDecode", rows, in) /\ \A s \in ss : Len(in[s]) = 1
    <3> DEFINE in == [s \in ss |-> <<f[s]>>]
    <3>1. in \in [ss -> Seq(Tokens)] /\ \A s \in ss : Len(in[s]) = 1
      OBVIOUS
    <3>2. op' = Begun("batchDecode", rows, in)
      BY <2>2
    <3> HIDE DEF in
    <3> QED BY <3>1, <3>2
  <2>3. \A s \in ss : phase[s] # "new"
    BY <1>2
  <2> QED BY <2>1, <2>2, <2>3, <1>2
<1>6. PICK kind \in {"batchPrefill", "batchDecode"} : \E in \in [ss -> Seq(Tokens)] :
         /\ op' = Begun(kind, rows, in)
         /\ \A s \in ss : Len(in[s]) = 1 /\ phase[s] # "new"
         /\ kind = "batchPrefill" => \A s \in ss : done[s] + 1 <= Len(toks[s])
  BY <1>5
<1>7. PICK in \in [ss -> Seq(Tokens)] :
         /\ op' = Begun(kind, rows, in)
         /\ \A s \in ss : Len(in[s]) = 1 /\ phase[s] # "new"
         /\ kind = "batchPrefill" => \A s \in ss : done[s] + 1 <= Len(toks[s])
  BY <1>6
<1>8. /\ OpTyped(op') /\ OpShape' /\ OpStages' /\ Pends'
      /\ op'.pend = <<>> /\ op'.stage = "enter" /\ op'.kind = kind
      /\ op'.rows = rows /\ op'.in = in /\ ~Working' /\ \A x : ~Adopting(x)'
  BY <1>3, <1>6, <1>7, BegunIs DEF Kinds
<1>9. Appending'
  <2> SUFFICES ASSUME NEW s \in ss PROVE Appends(s)'
    BY <1>3, <1>8 DEF Appending
  <2>1. op'.in[s] \in Seq(Tokens) /\ Len(op'.in[s]) = 1
    BY <1>7, <1>8
  <2>2. op'.in[s] # <<>>
    BY <2>1, OneLong
  <2> QED BY <1>1, <1>7, <1>8, <2>1, <2>2 DEF Appends
<1>10. Typed' /\ Going'
  BY <1>1 DEF PagedInv, Typed, Going, Progress, engineVars
<1>11. op.pend = <<>> /\ \A x : ~Adopting(x)
  BY <1>1 DEF Idle, Adopting
<1>12. Counted' /\ Mirrors(dev, pool)' /\ Tails' /\ Seated'
  BY <1>1, <1>8, <1>11, SameEngine, SameTails, SameSeats DEF engineVars
<1> QED BY <1>8, <1>9, <1>10, <1>12 DEF PagedInv, OpSound

-----------------------------------------------------------------------------
\* The first row of an operation is a session.
LEMMA ThisIs ==
    ASSUME PagedInv, op.kind # "idle"
    PROVE  /\ This \in Sessions /\ This \in Elems(op.rows)
           /\ Single => op.rows = <<This>> /\ Elems(op.rows) = {This}
<1>1. op.rows \in Seq(Sessions) /\ op.rows # <<>> /\ (Single => Len(op.rows) = 1)
  BY DEF PagedInv, OpSound, OpTyped, OpShape, Idle
<1>2. 1 \in DOMAIN op.rows
  BY <1>1
<1>3. Single => DOMAIN op.rows = {1}
  BY <1>1
<1> QED BY <1>1, <1>2, <1>3 DEF This, Elems

\* Failed sessions keep their tokens and their progress.
LEMMA FailIs ==
    ASSUME PagedInv, NEW ss, Fail(ss), UNCHANGED <<toks, done, pos>>
    PROVE  phase' \in [Sessions -> Phases] /\ Going'
BY DEF PagedInv, Typed, Phases, Fail, Going, Progress

\* An operation the device does not serve ends; the session goes on on the CPU or fails.
LEMMA DeclinedIs ==
    ASSUME PagedInv, Declined, op.kind # "idle"
    PROVE  /\ OpSound' /\ op'.pend = <<>> /\ Going' /\ \A s : ~Adopting(s)'
           /\ phase' \in [Sessions -> Phases] /\ toks' \in [Sessions -> Seq(Tokens)]
           /\ done' \in [Sessions -> Nat] /\ pos' \in [Sessions -> Nat] /\ solo' = solo
<1>1. op' = Idle /\ UNCHANGED solo
  BY DEF Declined
<1>2. OpSound' /\ op'.pend = <<>> /\ \A s : ~Adopting(s)'
  BY <1>1, Rests
<1>3. /\ toks \in [Sessions -> Seq(Tokens)] /\ phase \in [Sessions -> Phases]
      /\ done \in [Sessions -> Nat] /\ pos \in [Sessions -> Nat]
      /\ \A x \in Sessions : Progress(x)
  BY DEF PagedInv, Typed, Going
<1>4. This \in Sessions /\ This \in Elems(op.rows)
  BY ThisIs
<1>5. /\ phase' \in [Sessions -> Phases] /\ toks' \in [Sessions -> Seq(Tokens)]
      /\ done' \in [Sessions -> Nat] /\ pos' \in [Sessions -> Nat]
      /\ Going'
  <2>1. CASE /\ phase' = [phase EXCEPT ![This] = "decode"]
             /\ pos' = [pos EXCEPT ![This] = Len(toks[This])]
             /\ UNCHANGED <<toks, done>>
    BY <2>1, <1>3, <1>4 DEF Phases, Going, Progress
  <2>2. ASSUME NEW ss, Fail(ss), UNCHANGED <<toks, done, pos>>
        PROVE  <1>5!:
    BY <2>2, <1>3, FailIs
  <2>3. CASE /\ op.kind = "decode"
             /\ toks' = [toks EXCEPT ![This] = @ \o op.in[This]]
             /\ pos' = [pos EXCEPT ![This] = @ + 1]
             /\ UNCHANGED <<phase, done>>
    <3>1. op.in[This] \in Seq(Tokens) /\ Len(op.in[This]) = 1
      BY <2>3, <1>4 DEF PagedInv, OpSound, OpTyped, Appending, Appends
    <3> DEFINE c == toks[This] \o op.in[This]
    <3>2. c \in Seq(Tokens) /\ Len(c) = Len(toks[This]) + 1 /\ Len(toks[This]) \in Nat
      BY <3>1, <1>3, <1>4, OneLong
    <3>3. toks' = [toks EXCEPT ![This] = c]
      BY <2>3
    <3> HIDE DEF c
    <3>4. /\ toks' \in [Sessions -> Seq(Tokens)] /\ pos' \in [Sessions -> Nat]
          /\ toks'[This] = c /\ pos'[This] = pos[This] + 1
          /\ \A s \in Sessions : s # This => toks'[s] = toks[s] /\ pos'[s] = pos[s]
      <4>1. toks' \in [Sessions -> Seq(Tokens)] /\ toks'[This] = c
            /\ \A s \in Sessions : s # This => toks'[s] = toks[s]
        BY <3>2, <3>3, <1>3, <1>4
      <4>2. pos' \in [Sessions -> Nat] /\ pos'[This] = pos[This] + 1
            /\ \A s \in Sessions : s # This => pos'[s] = pos[s]
        BY <2>3, <1>3, <1>4
      <4> QED BY <4>1, <4>2
    <3>5. pos[This] \in Nat /\ done[This] \in Nat
      BY <1>3, <1>4
    <3>6. phase' = phase /\ done' = done
      BY <2>3
    <3>7. ASSUME NEW s \in Sessions PROVE Progress(s)'
      <4>1. CASE s = This
        <5>1. Progress(This) /\ phase[This] # "new"
          BY <1>3, <1>4 DEF PagedInv, OpSound, Appending, Appends
        <5> QED BY <4>1, <5>1, <3>2, <3>4, <3>5, <3>6 DEF Progress
      <4>2. CASE s # This
        BY <4>2, <3>4, <3>6, <1>3 DEF Progress
      <4> QED BY <4>1, <4>2
    <3> QED BY <3>4, <3>6, <3>7, <1>3 DEF Going
  <2> QED BY <2>1, <2>2, <2>3 DEF Declined
<1> QED BY <1>1, <1>2, <1>5

\* An operation that only goes to another stage.
LEMMA Advances ==
    ASSUME PagedInv, NEW st \in Stages \ {"none"}, op.stage # "none",
           op' = [op EXCEPT !.stage = st]
    PROVE  /\ op.kind # "idle" /\ op' # Idle /\ OpTyped(op') /\ OpShape'
           /\ op'.stage = st /\ op'.kind = op.kind /\ op'.rows = op.rows /\ op'.in = op.in
           /\ op'.todo = op.todo /\ op'.pend = op.pend /\ op'.err = op.err
           /\ Single' = Single /\ This' = This /\ PendSeqs' = PendSeqs
<1>1. OpTyped(op) /\ OpShape
  BY DEF PagedInv, OpSound
<1>2. /\ op' = [kind |-> op.kind, stage |-> st, rows |-> op.rows, in |-> op.in,
                todo |-> op.todo, pend |-> op.pend, err |-> op.err]
  BY <1>1 DEF OpTyped
<1>3. /\ op'.stage = st /\ op'.kind = op.kind /\ op'.rows = op.rows /\ op'.in = op.in
      /\ op'.todo = op.todo /\ op'.pend = op.pend /\ op'.err = op.err
  BY <1>2
<1>4. op # Idle /\ op' # Idle /\ op.kind # "idle"
  BY <1>1, <1>3 DEF OpShape, Idle
<1>5. OpTyped(op')
  BY <1>1, <1>2, <1>3 DEF OpTyped
<1>6. OpShape'
  BY <1>1, <1>3, <1>4 DEF OpShape, Single
<1>7. Single' = Single /\ This' = This /\ PendSeqs' = PendSeqs
  BY <1>3 DEF Single, This, PendSeqs
<1> QED BY <1>3, <1>4, <1>5, <1>6, <1>7

\* Engine and sessions as they were keep types, progress and slots.
LEMMA SameSessions ==
    ASSUME PagedInv, UNCHANGED sessionVars, UNCHANGED up, UNCHANGED engineVars
    PROVE  Typed' /\ Going' /\ Seated'
<1>1. UNCHANGED <<lease, phase, toks, done, pos, solo, up, record, tables, slots>>
  BY DEF sessionVars, engineVars
<1>2. Typed' /\ Going'
  BY <1>1 DEF PagedInv, Typed, Going, Progress
<1> QED BY <1>1, <1>2, SameSeats

\* Declined keeps the invariant, from any stage before the plan.
LEMMA DeclinedInv ==
    ASSUME PagedInv, Declined, op.stage \in {"enter", "cursor"},
           UNCHANGED up, UNCHANGED engineVars, UNCHANGED lease
    PROVE  PagedInv'
<1>1. op.kind # "idle" /\ op.pend = <<>> /\ \A s : ~Adopting(s)
  BY DEF PagedInv, OpSound, OpShape, OpStages, Idle, Adopting, Working
<1>2. /\ OpSound' /\ op'.pend = <<>> /\ Going'
      /\ phase' \in [Sessions -> Phases] /\ toks' \in [Sessions -> Seq(Tokens)]
      /\ done' \in [Sessions -> Nat] /\ pos' \in [Sessions -> Nat] /\ solo' = solo
  BY <1>1, DeclinedIs
<1>3. Typed'
  BY <1>2 DEF PagedInv, Typed, engineVars
<1>4. Counted' /\ Mirrors(dev, pool)' /\ Tails' /\ Seated'
  BY <1>1, <1>2, SameEngine, SameTails, SameSeats DEF engineVars
<1> QED BY <1>2, <1>3, <1>4 DEF PagedInv

\* An operation that ends with an error of its streams alone.
LEMMA FailedInv ==
    ASSUME PagedInv, NEW ss, Fail(ss), op' = Idle, op.pend = <<>>, \A s : ~Adopting(s),
           UNCHANGED up, UNCHANGED engineVars, UNCHANGED <<lease, toks, done, pos, solo>>
    PROVE  PagedInv'
<1>1. OpSound' /\ op'.pend = <<>>
  BY Rests
<1>2. phase' \in [Sessions -> Phases] /\ Going'
  BY FailIs
<1>3. Typed'
  BY <1>2 DEF PagedInv, Typed, engineVars
<1>4. Counted' /\ Mirrors(dev, pool)' /\ Tails' /\ Seated'
  BY <1>1, SameEngine, SameTails, SameSeats DEF engineVars
<1> QED BY <1>1, <1>2, <1>3, <1>4 DEF PagedInv

\* Build keeps the invariant.
LEMMA BuildInv ==
    ASSUME PagedInv, Build
    PROVE  PagedInv'
<1>1. op.stage = "enter" /\ ~up
  BY DEF Build
<1>2. CASE up' = TRUE /\ FreshEngine /\ UNCHANGED sessionVars /\ UNCHANGED op
  <2>1. op.pend = <<>> /\ op'.pend = <<>>
    BY <1>1, <1>2 DEF PagedInv, OpSound, OpStages
  <2>2. /\ Counted' /\ Mirrors(dev, pool)' /\ Tails' /\ Seated'
        /\ record' \in [DOMAIN record' -> Seq(Tokens)] /\ DOMAIN record' \subseteq DOMAIN tables'
        /\ slots' \in [1 .. Slots -> [gen : Nat, holder : Sessions \cup {Nobody}]]
    BY <1>2, <2>1, FreshIs
  <2>3. UNCHANGED <<lease, phase, toks, done, pos, solo, op>>
    BY <1>2 DEF sessionVars
  <2>4. Typed' /\ Going'
    BY <1>2, <2>2, <2>3 DEF PagedInv, Typed, Going, Progress
  <2>5. OpTyped(op') /\ OpShape' /\ Single' = Single /\ Working' = Working /\ ~Working
    BY <1>1, <2>3 DEF PagedInv, OpSound, OpShape, Single, Working
  <2>6. OpStages'
    BY <1>1, <2>3, <2>5 DEF PagedInv, OpSound, OpStages, PendSeqs
  <2>7. Appending'
    BY <1>1, <2>3, <2>5 DEF PagedInv, OpSound, Appending, Appends
  <2>8. Pends'
    BY <2>1, NoPends
  <2> QED BY <2>2, <2>4, <2>5, <2>6, <2>7, <2>8 DEF PagedInv, OpSound
<1>3. CASE Declined /\ UNCHANGED <<up, engineVars, lease>>
  BY <1>1, <1>3, DeclinedInv
<1> QED BY <1>2, <1>3 DEF Build

\* PastThreshold keeps the invariant.
LEMMA PastThresholdInv ==
    ASSUME PagedInv, PastThreshold
    PROVE  PagedInv'
BY DeclinedInv DEF PastThreshold

\* A valid lease is the lease of a sequence with a table.
LEMMA LeaseTable ==
    ASSUME PagedInv, NEW s \in Sessions, LeaseValid(s)
    PROVE  s \in DOMAIN tables
<1>1. PICK l \in lease[s] : slots[l.slot] = [gen |-> l.gen, holder |-> s]
  BY DEF LeaseValid
<1>2. l.slot \in 1 .. Slots
  BY DEF PagedInv, Typed
<1>3. slots[l.slot].holder = s /\ s # Nobody
  BY <1>1, SessionAssumption
<1> QED BY <1>2, <1>3 DEF PagedInv, Seated

\* EnterRows keeps the invariant.
LEMMA EnterRowsInv ==
    ASSUME PagedInv, EnterRows
    PROVE  PagedInv'
<1> DEFINE start(s) == IF op.kind = "batchDecode" THEN pos[s] ELSE done[s]
           ready == up /\ \A s \in Elems(op.rows) : LeaseValid(s) /\ tables[s].len = start(s)
<1>1. op.stage = "enter" /\ ~Single
  BY DEF EnterRows
<1>2. op.pend = <<>> /\ op.kind \in Kinds /\ op.kind # "idle" /\ \A s : ~Adopting(s)
  BY <1>1 DEF PagedInv, OpSound, OpTyped, OpShape, OpStages, Idle, Adopting, Working
<1>3. CASE ready /\ op' = [op EXCEPT !.stage = "prepare"] /\ UNCHANGED <<up, engineVars, sessionVars>>
  <2>1. /\ OpTyped(op') /\ OpShape'
        /\ op'.stage = "prepare" /\ op'.kind = op.kind /\ op'.rows = op.rows /\ op'.in = op.in
        /\ op'.todo = op.todo /\ op'.pend = op.pend /\ op'.err = op.err
        /\ Single' = Single /\ This' = This /\ PendSeqs' = PendSeqs
    BY <1>1, <1>3, Advances DEF Stages
  <2>2. Typed' /\ Going' /\ Seated'
    BY <1>3, SameSessions
  <2>3. UNCHANGED <<tables, pool, toks, phase>>
    BY <1>3 DEF engineVars, sessionVars
  <2>4. Counted' /\ Mirrors(dev, pool)' /\ Tails' /\ Pends' /\ PendSeqs = {}
    BY <1>2, <1>3, <2>1, <2>3, SameEngine, SameTails, NoPends DEF PendSeqs
  <2>5. op.todo = op.rows /\ op.rows # <<>> /\ Injective(op.rows)
    BY <1>1, <1>2 DEF PagedInv, OpSound, OpStages, OpShape, Idle
  <2>6. op.rows \in Seq(Sessions) /\ Elems(op.rows) \subseteq Sessions
    BY DEF PagedInv, OpSound, OpTyped, Elems
  <2>7. \A s \in Elems(op.rows) : s \in DOMAIN tables
    BY <1>3, <2>6, LeaseTable
  <2>8. OpStages'
    <3>1. op'.kind # "acquire" /\ Elems(op'.rows) \subseteq DOMAIN tables'
      BY <1>1, <2>1, <2>3, <2>7 DEF Single
    <3> QED BY <2>1, <2>4, <2>5, <3>1 DEF PagedInv, OpSound, OpStages
  <2>9. Appending'
    <3> SUFFICES ASSUME NEW s \in Elems(op.rows) PROVE Appends(s)'
      BY <2>1 DEF Appending
    <3>1. Appends(s)
      BY DEF PagedInv, OpSound, Appending
    <3>2. op.in[s] # <<>>
      <4>1. CASE op.kind = "batchPrefill"
        BY <1>1, <3>1, <4>1 DEF Appends
      <4>2. CASE op.kind = "batchDecode"
        <5>1. Len(op.in[s]) = 1 /\ op.in[s] \in Seq(Tokens)
          BY <3>1, <4>2 DEF Appends, PagedInv, OpSound, OpTyped
        <5> QED BY <5>1, OneLong
      <4> QED BY <1>1, <1>2, <4>1, <4>2 DEF Single, Kinds
    <3>3. op.kind = "batchPrefill" => tables[s].len + Len(op.in[s]) <= Len(toks[s])
      BY <1>1, <1>3, <3>1 DEF Appends
    <3>4. Coming(s)' = Len(op.in[s])
      BY <2>1, <2>4, <2>5 DEF Coming
    <3>5. op.kind # "prefill"
      BY <1>1 DEF Single
    <3> QED BY <2>1, <2>3, <3>1, <3>2, <3>3, <3>4, <3>5 DEF Appends
  <2> QED BY <2>1, <2>2, <2>4, <2>8, <2>9 DEF PagedInv, OpSound
<1>4. CASE /\ Fail(Elems(op.rows)) /\ op' = Idle
           /\ UNCHANGED <<up, engineVars, lease, toks, done, pos, solo>>
  BY <1>2, <1>4, FailedInv
<1> QED BY <1>3, <1>4 DEF EnterRows

\* The session of an operation on one sequence reaches the stage that checks it.
LEMMA ToCursor ==
    ASSUME PagedInv, op.stage = "enter", Single, op' = [op EXCEPT !.stage = "cursor"],
           This \in DOMAIN tables', UNCHANGED <<toks, done, phase>>
    PROVE  OpSound' /\ op'.pend = <<>> /\ op.pend = <<>> /\ \A s : ~Adopting(s)' /\ ~Adopting(s)
<1>1. /\ OpTyped(op') /\ OpShape' /\ op.kind # "idle"
      /\ op'.stage = "cursor" /\ op'.kind = op.kind /\ op'.rows = op.rows /\ op'.in = op.in
      /\ op'.todo = op.todo /\ op'.pend = op.pend /\ op'.err = op.err
      /\ Single' = Single /\ This' = This /\ PendSeqs' = PendSeqs
  BY Advances DEF Stages
<1>2. op.pend = <<>> /\ op.todo = op.rows
  BY DEF PagedInv, OpSound, OpStages
<1>3. ~Working /\ ~Working'
  BY <1>1 DEF Working
<1>4. Elems(op.rows) = {This}
  BY <1>1, ThisIs
<1>5. OpStages'
  BY <1>1, <1>2, <1>3, <1>4 DEF PagedInv, OpSound, OpStages
<1>6. Appending'
  BY <1>1, <1>3 DEF PagedInv, OpSound, Appending, Appends
<1>7. Pends'
  BY <1>1, <1>2, NoPends
<1> QED BY <1>1, <1>2, <1>3, <1>5, <1>6, <1>7 DEF OpSound, Adopting

\* The first of some slots is one of them.
LEMMA FirstIs ==
    ASSUME NEW ss \in SUBSET (1 .. Slots), ss # {}
    PROVE  FirstOf(ss) \in ss
<1>1. Slots \in Nat /\ IsFiniteSet(1 .. Slots)
  BY SizeAssumption, FS_Interval
<1>2. IsFiniteSet(ss) /\ ss \in SUBSET Nat
  <2>1. IsFiniteSet(ss)
    BY <1>1, FS_Subset
  <2>2. \A i \in ss : i \in Nat
    BY <1>1
  <2> QED BY <2>1, <2>2
<1>3. \E i \in ss : \A j \in ss : i <= j
  BY <1>2, LeastIs
<1> QED BY <1>3 DEF FirstOf

\* A slot for a sequence that has none.
LEMMA SeatedNext ==
    ASSUME PagedInv, NEW s \in Sessions, NEW i \in Holding(Nobody), NEW g \in Nat,
           ~LeaseValid(s), Holding(s) = {}, s \notin DOMAIN tables, up, up' = up,
           slots' = [slots EXCEPT ![i] = [gen |-> g, holder |-> s]],
           lease' = [lease EXCEPT ![s] = {[slot |-> i, gen |-> g]}],
           DOMAIN tables' = DOMAIN tables \cup {s}
    PROVE  /\ Seated'
           /\ slots' \in [1 .. Slots -> [gen : Nat, holder : Sessions \cup {Nobody}]]
           /\ lease' \in [Sessions -> SUBSET [slot : 1 .. Slots, gen : Nat]]
<1>1. /\ slots \in [1 .. Slots -> [gen : Nat, holder : Sessions \cup {Nobody}]]
      /\ lease \in [Sessions -> SUBSET [slot : 1 .. Slots, gen : Nat]]
      /\ DOMAIN tables \subseteq Sessions
  BY StoreFacts DEF PagedInv, Typed, Counted
<1>2. i \in 1 .. Slots /\ slots[i].holder = Nobody /\ s # Nobody
  BY SessionAssumption DEF Holding
<1>3. /\ slots' \in [1 .. Slots -> [gen : Nat, holder : Sessions \cup {Nobody}]]
      /\ lease' \in [Sessions -> SUBSET [slot : 1 .. Slots, gen : Nat]]
  BY <1>1, <1>2
<1>4. /\ slots'[i] = [gen |-> g, holder |-> s]
      /\ \A j \in 1 .. Slots : j # i => slots'[j] = slots[j]
      /\ lease'[s] = {[slot |-> i, gen |-> g]}
      /\ \A x \in Sessions : x # s => lease'[x] = lease[x]
  BY <1>1, <1>2
<1>5. LeaseValid(s)'
  <2> DEFINE l == [slot |-> i, gen |-> g]
  <2>1. l \in lease'[s] /\ l.slot = i /\ l.gen = g
    BY <1>4
  <2> HIDE DEF l
  <2>2. slots'[l.slot] = [gen |-> l.gen, holder |-> s]
    BY <1>4, <2>1
  <2> QED BY <2>1, <2>2 DEF LeaseValid
<1>6. ASSUME NEW x \in DOMAIN tables PROVE LeaseValid(x)'
  <2>1. PICK l \in lease[x] : slots[l.slot] = [gen |-> l.gen, holder |-> x]
    BY DEF PagedInv, Seated, LeaseValid
  <2>2. x \in Sessions /\ x # s /\ x # Nobody
    BY <1>1, SessionAssumption
  <2>3. l.slot \in 1 .. Slots
    BY <1>1, <2>1, <2>2
  <2>4. l.slot # i
    BY <1>2, <2>1, <2>2
  <2> QED BY <1>4, <2>1, <2>2, <2>3, <2>4 DEF LeaseValid
<1>7. \A j \in 1 .. Slots : slots[j].holder # s
  BY DEF Holding
<1>8. \A j \in 1 .. Slots : slots'[j].holder # Nobody => slots'[j].holder \in DOMAIN tables'
  BY <1>4 DEF PagedInv, Seated
<1>9. \A j, k \in 1 .. Slots :
         slots'[j].holder = slots'[k].holder /\ slots'[j].holder # Nobody => j = k
  BY <1>4, <1>7 DEF PagedInv, Seated
<1> QED BY <1>3, <1>5, <1>6, <1>8, <1>9 DEF Seated

\* Select keeps the invariant.
LEMMA SelectInv ==
    ASSUME PagedInv, Select
    PROVE  PagedInv'
<1> DEFINE s == This
           vacant == Holding(Nobody)
           i == FirstOf(vacant)
           g == slots[i].gen + 1
<1>1. op.stage = "enter" /\ Single /\ up
  BY DEF Select
<1>2. op.kind # "idle"
  BY <1>1 DEF PagedInv, OpSound, OpShape, Idle
<1>3. s \in Sessions
  BY <1>2, ThisIs
<1>4. CASE LeaseValid(s) /\ op' = [op EXCEPT !.stage = "cursor"] /\ UNCHANGED <<up, engineVars, sessionVars>>
  <2>1. This \in DOMAIN tables
    BY <1>3, <1>4, LeaseTable
  <2>2. UNCHANGED <<tables, pool, toks, done, phase>>
    BY <1>4 DEF engineVars, sessionVars
  <2>3. OpSound' /\ op'.pend = <<>> /\ op.pend = <<>> /\ \A x : ~Adopting(x)' /\ ~Adopting(x)
    BY <1>1, <1>4, <2>1, <2>2, ToCursor
  <2>4. Typed' /\ Going' /\ Seated'
    BY <1>4, SameSessions
  <2>5. Counted' /\ Mirrors(dev, pool)' /\ Tails'
    BY <1>4, <2>2, <2>3, SameEngine, SameTails
  <2> QED BY <2>3, <2>4, <2>5 DEF PagedInv
<1>5. CASE Teardown
  BY <1>5, TeardownInv
<1>6. CASE /\ ~LeaseValid(s) /\ Holding(s) = {} /\ s \notin DOMAIN tables
           /\ vacant # {}
           /\ slots' = [slots EXCEPT ![i] = [gen |-> g, holder |-> s]]
           /\ lease' = [lease EXCEPT ![s] = {[slot |-> i, gen |-> g]}]
           /\ tables' = Put(tables, s, EmptyTable)
           /\ op' = [op EXCEPT !.stage = "cursor"]
           /\ UNCHANGED <<up, pool, dev, record, cached, phase, toks, done, pos, solo>>
  <2>1. i \in vacant
    BY <1>6, FirstIs DEF Holding
  <2>2. g \in Nat
    BY <2>1 DEF PagedInv, Typed, Holding
  <2>3. /\ Store(tables', cached, op.pend) /\ Refers(pool, tables', cached, op.pend)
        /\ DOMAIN tables' = DOMAIN tables \cup {s} /\ tables'[s] = EmptyTable
        /\ \A x \in DOMAIN tables : tables'[x] = tables[x]
    BY <1>3, <1>6, PutRefers DEF PagedInv, Counted
  <2> HIDE DEF i, g, s, vacant
  <2>4. /\ Seated'
        /\ slots' \in [1 .. Slots -> [gen : Nat, holder : Sessions \cup {Nobody}]]
        /\ lease' \in [Sessions -> SUBSET [slot : 1 .. Slots, gen : Nat]]
    BY <1>1, <1>3, <1>6, <2>1, <2>2, <2>3, SeatedNext DEF vacant
  <2>5. This \in DOMAIN tables'
    BY <2>3 DEF s
  <2>6. OpSound' /\ op'.pend = <<>> /\ op.pend = <<>> /\ \A x : ~Adopting(x)' /\ ~Adopting(x)
    BY <1>1, <1>6, <2>5, ToCursor
  <2>7. Typed' /\ Going'
    BY <1>6, <2>3, <2>4 DEF PagedInv, Typed, Going, Progress
  <2>8. Counted' /\ Mirrors(dev, pool)'
    BY <1>6, <2>3, <2>6 DEF PagedInv, Counted
  <2>9. Tails'
    <3>1. Owned(pool, EmptyTable)
      BY PageAssumption DEF Owned, EmptyTable
    <3>2. \A x \in DOMAIN tables : Owned(pool, tables[x])
      BY <2>6 DEF PagedInv, Tails
    <3> QED BY <1>6, <2>3, <3>1, <3>2 DEF Tails
  <2> QED BY <2>4, <2>6, <2>7, <2>8, <2>9 DEF PagedInv
<1>7. CASE /\ ~LeaseValid(s) /\ Holding(s) = {}
           /\ Declined
           /\ lease' = [lease EXCEPT ![s] = {}]
           /\ UNCHANGED <<up, engineVars>>
  <2>1. op.pend = <<>> /\ \A x : ~Adopting(x)
    BY <1>1 DEF PagedInv, OpSound, OpStages, Adopting, Working
  <2>2. /\ OpSound' /\ op'.pend = <<>> /\ Going'
        /\ phase' \in [Sessions -> Phases] /\ toks' \in [Sessions -> Seq(Tokens)]
        /\ done' \in [Sessions -> Nat] /\ pos' \in [Sessions -> Nat] /\ solo' = solo
    BY <1>2, <1>7, DeclinedIs
  <2>3. lease' \in [Sessions -> SUBSET [slot : 1 .. Slots, gen : Nat]]
    BY <1>7 DEF PagedInv, Typed
  <2>4. Typed'
    BY <1>7, <2>2, <2>3 DEF PagedInv, Typed, engineVars
  <2>5. Counted' /\ Mirrors(dev, pool)' /\ Tails'
    BY <1>7, <2>1, <2>2, SameEngine, SameTails DEF engineVars
  <2>6. s \notin DOMAIN tables
    BY <1>7 DEF PagedInv, Seated
  <2>7. UNCHANGED <<up, slots, tables>>
    BY <1>7 DEF engineVars
  <2>8. \A x \in DOMAIN tables : LeaseValid(x)'
    <3> SUFFICES ASSUME NEW x \in DOMAIN tables PROVE LeaseValid(x)'
      OBVIOUS
    <3>1. x \in Sessions /\ x # s
      BY <2>6, StoreFacts DEF PagedInv, Counted
    <3>2. lease'[x] = lease[x]
      BY <1>7, <3>1 DEF PagedInv, Typed
    <3> QED BY <2>7, <3>2 DEF PagedInv, Seated, LeaseValid
  <2>9. Seated'
    BY <2>7, <2>8 DEF PagedInv, Seated
  <2> QED BY <2>2, <2>4, <2>5, <2>9 DEF PagedInv
<1> QED BY <1>4, <1>5, <1>6, <1>7 DEF Select

\* A table that ends inside a page has a last page.
LEMMA TailPage ==
    ASSUME NEW t, Sane(t), t.len % PageTokens # 0
    PROVE  /\ t.pages # <<>> /\ Len(t.pages) \in DOMAIN t.pages
           /\ LastPage(t) \in Pages /\ LastPage(t) \in Indices(t.pages)
<1>1. t.pages \in Seq(Handles) /\ t.len \in Nat /\ Len(t.pages) = DivCeil(t.len, PageTokens)
  BY DEF Sane, Tables, Fits
<1>2. PageTokens \in Nat \ {0} /\ t.len >= 1
  BY <1>1, PageAssumption
<1>3. Len(t.pages) >= 1
  <2>1. (t.len + PageTokens - 1) \div PageTokens >= 1
    BY <1>1, <1>2, SMTT(30)
  <2> QED BY <1>1, <2>1 DEF DivCeil
<1>4. Len(t.pages) \in DOMAIN t.pages /\ t.pages # <<>>
  BY <1>1, <1>3
<1>5. LastPage(t) \in Pages
  BY <1>1, <1>4 DEF LastPage, Handles, Index
<1> QED BY <1>4, <1>5, IndicesIs DEF LastPage

\* A sequence with a table, its pages and the last of them.
LEMMA TableTail ==
    ASSUME PagedInv, NEW s \in DOMAIN tables
    PROVE  /\ s \in Sessions /\ Sane(tables[s])
           /\ tables[s].len % PageTokens # 0 => LastPage(tables[s]) \in Pages
BY StoreFacts, TailPage DEF PagedInv, Counted, Sane

\* The same references: what owns its last page still does.
LEMMA RefsTails ==
    ASSUME PagedInv, UNCHANGED tables, \A p \in Pages : pool'.refs[p] = pool.refs[p],
           \A s \in DOMAIN tables : Adopting(s) => Adopting(s)'
    PROVE  Tails'
<1> SUFFICES ASSUME NEW s \in DOMAIN tables, ~Adopting(s)
             PROVE  Owned(pool', tables[s])
  BY DEF Tails
<1>1. Owned(pool, tables[s])
  BY DEF PagedInv, Tails
<1> QED BY <1>1, TableTail DEF Owned

\* A stage fails: the operation takes its appends back.
LEMMA Aborts ==
    ASSUME PagedInv, op.stage \in {"prepare", "kernel"}, NEW e \in Errors,
           e = "position" => ~Single,
           op' = [op EXCEPT !.stage = "abort", !.err = e],
           UNCHANGED <<tables, toks, done, phase>>,
           \A p \in Pages : pool'.refs[p] = pool.refs[p]
    PROVE  OpSound' /\ op'.pend = op.pend /\ Tails'
<1>1. OpTyped(op) /\ OpShape /\ OpStages /\ Appending /\ Pends
  BY DEF PagedInv, OpSound
<1>2. op' = [kind |-> op.kind, stage |-> "abort", rows |-> op.rows, in |-> op.in,
             todo |-> op.todo, pend |-> op.pend, err |-> e]
  BY <1>1 DEF OpTyped
<1>3. /\ op'.stage = "abort" /\ op'.kind = op.kind /\ op'.rows = op.rows /\ op'.in = op.in
      /\ op'.todo = op.todo /\ op'.pend = op.pend /\ op'.err = e
      /\ Single' = Single /\ This' = This /\ PendSeqs' = PendSeqs /\ Working /\ Working'
  BY <1>2 DEF Single, This, PendSeqs, Working
<1>4. op # Idle /\ op' # Idle /\ op.kind # "idle"
  <2>1. Idle.stage = "none"
    BY DEF Idle
  <2>2. op.stage # "none" /\ op'.stage # "none"
    BY <1>3
  <2>3. op # Idle /\ op' # Idle
    BY <2>1, <2>2
  <2> QED BY <1>1, <2>3 DEF OpShape
<1>5. OpTyped(op')
  BY <1>1, <1>2, <1>3 DEF OpTyped, Stages
<1>6. OpShape'
  BY <1>1, <1>3, <1>4 DEF OpShape
<1>7. OpStages'
  BY <1>1, <1>3 DEF OpStages
<1>8. Appending'
  BY <1>1, <1>3 DEF Appending, Appends
<1>9. Pends'
  <2> SUFFICES ASSUME NEW i \in DOMAIN op.pend PROVE PendSound(op.pend[i])'
    BY <1>3 DEF Pends
  <2>1. PendSound(op.pend[i])
    BY <1>1 DEF Pends
  <2>2. op.pend[i].seq \in DOMAIN tables
    BY <1>1, <1>3 DEF OpStages, PendSeqs
  <2>3. tables[op.pend[i].seq].len % PageTokens # 0 => LastPage(tables[op.pend[i].seq]) \in Pages
    BY <2>2, TableTail
  <2> QED BY <1>3, <2>1, <2>3, ZenonT(30) DEF PendSound
<1>10. \A s \in DOMAIN tables : Adopting(s) => Adopting(s)'
  BY <1>3 DEF Adopting
<1>11. Tails'
  BY <1>10, RefsTails
<1> QED BY <1>3, <1>5, <1>6, <1>7, <1>8, <1>9, <1>11 DEF OpSound

\* KernelFails keeps the invariant.
LEMMA KernelFailsInv ==
    ASSUME PagedInv, KernelFails
    PROVE  PagedInv'
<1> DEFINE e == IF OutOfRange THEN "position" ELSE "kernel"
<1>1. /\ op.stage = "kernel" /\ op' = [op EXCEPT !.stage = "abort", !.err = e]
      /\ UNCHANGED up /\ UNCHANGED engineVars /\ UNCHANGED sessionVars
  BY DEF KernelFails
<1>2. e \in Errors /\ (e = "position" => ~Single)
  BY DEF Errors, OutOfRange
<1>3. UNCHANGED <<tables, toks, done, phase, pool>>
  BY <1>1 DEF engineVars, sessionVars
<1> HIDE DEF e
<1>4. OpSound' /\ op'.pend = op.pend /\ Tails'
  BY <1>1, <1>2, <1>3, Aborts, ZenonT(30)
<1>5. Typed' /\ Going' /\ Seated'
  BY <1>1, SameSessions
<1>6. Counted' /\ Mirrors(dev, pool)'
  BY <1>1, <1>4, SameEngine
<1> QED BY <1>4, <1>5, <1>6 DEF PagedInv

\* EndAbort keeps the invariant.
LEMMA EndAbortInv ==
    ASSUME PagedInv, EndAbort
    PROVE  PagedInv'
<1>1. op.stage = "abort" /\ op.pend = <<>>
  BY DEF EndAbort
<1>2. CASE /\ op.err = "position" /\ op' = Idle /\ solo' = Elems(op.rows)
           /\ UNCHANGED <<up, engineVars, lease, phase, toks, done, pos>>
  <2>1. \A s : ~Adopting(s)
    BY <1>1, <1>2 DEF PagedInv, OpSound, OpStages, Adopting, Single
  <2>2. OpSound' /\ op'.pend = <<>>
    BY <1>2, Rests
  <2>3. op.rows \in Seq(Sessions)
    BY DEF PagedInv, OpSound, OpTyped
  <2>4. solo' \in SUBSET Sessions
    BY <1>2, <2>3 DEF Elems
  <2>5. Typed' /\ Going'
    BY <1>2, <2>4 DEF PagedInv, Typed, Going, Progress, engineVars
  <2>6. Counted' /\ Mirrors(dev, pool)' /\ Tails' /\ Seated'
    BY <1>1, <1>2, <2>1, <2>2, SameEngine, SameTails, SameSeats DEF engineVars
  <2> QED BY <2>2, <2>5, <2>6 DEF PagedInv
<1>3. CASE Teardown
  BY <1>3, TeardownInv
<1> QED BY <1>2, <1>3 DEF EndAbort

\* CheckCursor keeps the invariant.
LEMMA CheckCursorInv ==
    ASSUME PagedInv, CheckCursor
    PROVE  PagedInv'
<1> DEFINE s == This
           start == IF op.kind = "decode" THEN pos[s] ELSE done[s]
<1>1. op.stage = "cursor"
  BY DEF CheckCursor
<1>2. op.pend = <<>> /\ op.kind \in Kinds /\ op.kind # "idle" /\ \A x : ~Adopting(x)
  BY <1>1 DEF PagedInv, OpSound, OpTyped, OpShape, OpStages, Idle, Adopting, Working
<1>3. Single /\ Elems(op.rows) \subseteq DOMAIN tables /\ op.todo = op.rows /\ op.rows # <<>>
      /\ Injective(op.rows)
  BY <1>1, <1>2 DEF PagedInv, OpSound, OpStages, OpShape, Idle
<1>4. s \in Sessions /\ Elems(op.rows) = {s}
  BY <1>2, <1>3, ThisIs
<1>5. CASE /\ op.kind = "acquire" /\ op' = Idle
           /\ UNCHANGED <<up, engineVars, sessionVars>>
  <2>1. OpSound' /\ op'.pend = <<>>
    BY <1>5, Rests
  <2>2. Typed' /\ Going' /\ Seated'
    BY <1>5, SameSessions
  <2>3. Counted' /\ Mirrors(dev, pool)' /\ Tails'
    BY <1>2, <1>5, <2>1, SameEngine, SameTails DEF engineVars
  <2> QED BY <2>1, <2>2, <2>3 DEF PagedInv
<1>6. CASE /\ op.kind # "acquire"
           /\ start < MaxPos /\ tables[s].len = start
           /\ op' = [op EXCEPT !.stage = "prepare"]
           /\ UNCHANGED <<up, engineVars, sessionVars>>
  <2>1. /\ OpTyped(op') /\ OpShape'
        /\ op'.stage = "prepare" /\ op'.kind = op.kind /\ op'.rows = op.rows /\ op'.in = op.in
        /\ op'.todo = op.todo /\ op'.pend = op.pend /\ op'.err = op.err
        /\ Single' = Single /\ This' = This /\ PendSeqs' = PendSeqs
    BY <1>1, <1>6, Advances DEF Stages
  <2>2. Typed' /\ Going' /\ Seated'
    BY <1>6, SameSessions
  <2>3. UNCHANGED <<tables, pool, toks, phase>>
    BY <1>6 DEF engineVars, sessionVars
  <2>4. Counted' /\ Mirrors(dev, pool)' /\ Tails' /\ Pends' /\ PendSeqs = {}
    BY <1>2, <1>6, <2>1, <2>3, SameEngine, SameTails, NoPends DEF PendSeqs
  <2>5. OpStages'
    BY <1>3, <1>6, <2>1, <2>3, <2>4 DEF PagedInv, OpSound, OpStages
  <2>6. Appends(s)
    BY <1>4 DEF PagedInv, OpSound, Appending
  <2>7. op.kind \in {"prefill", "decode"}
    BY <1>2, <1>3, <1>6 DEF Single
  <2>8. op.in[s] # <<>>
    <3>1. CASE op.kind = "prefill"
      BY <1>1, <2>6, <3>1 DEF Appends
    <3>2. CASE op.kind = "decode"
      <4>1. Len(op.in[s]) = 1 /\ op.in[s] \in Seq(Tokens)
        BY <1>4, <2>6, <3>2 DEF Appends, PagedInv, OpSound, OpTyped
      <4> QED BY <4>1, OneLong
    <3> QED BY <2>7, <3>1, <3>2
  <2>9. op.kind = "prefill" => tables[s].len + Len(op.in[s]) <= Len(toks[s])
    BY <1>1, <1>6, <2>6 DEF Appends
  <2>10. Coming(s)' = Len(op.in[s])
    BY <1>3, <1>4, <2>1, <2>4 DEF Coming
  <2>11. Appending'
    <3>1. Appends(s)'
      BY <2>1, <2>3, <2>6, <2>7, <2>8, <2>9, <2>10 DEF Appends
    <3> QED BY <1>4, <2>1, <3>1 DEF Appending
  <2> QED BY <2>1, <2>2, <2>4, <2>5, <2>11 DEF PagedInv, OpSound
<1>7. CASE /\ \E ss \in Casualties : Fail(ss)
           /\ op' = Idle
           /\ UNCHANGED <<up, engineVars, lease, toks, done, pos, solo>>
  BY <1>2, <1>7, FailedInv
<1>8. CASE Declined /\ UNCHANGED <<up, engineVars, lease>>
  BY <1>1, <1>8, DeclinedInv
<1> QED BY <1>5, <1>6, <1>7, <1>8 DEF CheckCursor

\* ReleaseFails keeps the invariant.
LEMMA ReleaseFailsInv ==
    ASSUME PagedInv, ReleaseFails
    PROVE  PagedInv'
BY TeardownInv DEF ReleaseFails

\* What is true of the sessions when all is committed.
LEMMA Committed ==
    ASSUME PagedInv, op.stage = "commit", op.pend = <<>>, NEW s \in Elems(op.rows)
    PROVE  /\ s \in Sessions /\ s \in DOMAIN tables /\ tables[s].len \in Nat
           /\ op.in[s] \in Seq(Tokens) /\ phase[s] # "new"
           /\ op.kind \in {"decode", "batchDecode"} => Len(op.in[s]) = 1
           /\ op.kind \in {"prefill", "batchPrefill"} => tables[s].len <= Len(toks[s])
           /\ toks[s] \in Seq(Tokens) /\ Len(toks[s]) \in Nat /\ pos[s] \in Nat /\ done[s] \in Nat
           /\ Progress(s)
<1>1. /\ OpTyped(op) /\ Appends(s) /\ OpStages /\ Working /\ op.todo = <<>> /\ Typed
  BY DEF PagedInv, OpSound, Appending, OpStages, Working
<1>2. Elems(op.todo) = {} /\ PendSeqs = {}
  BY <1>1 DEF Elems, PendSeqs
<1>3. Coming(s) = 0
  BY <1>2 DEF Coming
<1>4. s \in DOMAIN tables
  BY <1>1 DEF OpStages
<1>5. s \in Sessions /\ tables[s].len \in Nat
  BY <1>4, StoreFacts DEF PagedInv, Counted
<1>6. op.in[s] \in Seq(Tokens) /\ phase[s] # "new"
  BY <1>1 DEF OpTyped, Appends
<1>7. op.kind \in {"decode", "batchDecode"} => Len(op.in[s]) = 1
  BY <1>1 DEF Appends
<1>8. op.kind \in {"prefill", "batchPrefill"} => tables[s].len <= Len(toks[s])
  <2>1. op.kind \in {"prefill", "batchPrefill"} => tables[s].len + Coming(s) <= Len(toks[s])
    BY <1>1 DEF Appends
  <2> QED BY <2>1, <1>3, <1>5
<1>9. /\ toks[s] \in Seq(Tokens) /\ Len(toks[s]) \in Nat /\ pos[s] \in Nat /\ done[s] \in Nat
      /\ Progress(s)
  BY <1>1, <1>5 DEF Typed, PagedInv, Going
<1> QED BY <1>4, <1>5, <1>6, <1>7, <1>8, <1>9

\* The part of the end of an operation that is not the bookkeeping of its sessions.
LEMMA Finishes ==
    ASSUME PagedInv, Finish
    PROVE  /\ op.stage = "commit" /\ op.pend = <<>> /\ op.kind # "idle"
           /\ This \in Sessions /\ This \in Elems(op.rows)
           /\ op' = Idle /\ UNCHANGED <<up, pool, dev, tables, cached, slots, lease, solo>>
           /\ OpSound' /\ Counted' /\ Mirrors(dev, pool)' /\ Tails' /\ Seated'
<1>1. /\ op.stage = "commit" /\ op.pend = <<>> /\ op' = Idle
      /\ UNCHANGED <<up, pool, dev, tables, cached, slots, lease, solo>>
  BY DEF Finish
<1>2. OpSound' /\ op'.pend = <<>>
  BY <1>1, Rests
<1>3. \A s : ~Adopting(s)
  BY <1>1 DEF Adopting
<1>4. op.kind # "idle"
  BY <1>1 DEF PagedInv, OpSound, OpShape, Idle
<1>5. Counted' /\ Mirrors(dev, pool)'
  BY <1>1, <1>2 DEF PagedInv, Counted
<1>6. Tails' /\ Seated'
  BY <1>1, <1>3, SameTails, SameSeats
<1> QED BY <1>1, <1>2, <1>4, <1>5, <1>6, ThisIs

\* One record more, or a new one in its place.
LEMMA RecordPut ==
    ASSUME PagedInv, NEW s \in DOMAIN tables, NEW x \in Seq(Tokens),
           DOMAIN tables' = DOMAIN tables, record' = Put(record, s, x)
    PROVE  record' \in [DOMAIN record' -> Seq(Tokens)] /\ DOMAIN record' \subseteq DOMAIN tables'
<1>1. record \in [DOMAIN record -> Seq(Tokens)] /\ DOMAIN record \subseteq DOMAIN tables
  BY DEF PagedInv, Typed
<1>2. record' = [y \in DOMAIN record \cup {s} |-> IF y = s THEN x ELSE record[y]]
  BY DEF Put
<1>3. DOMAIN record' = DOMAIN record \cup {s}
  BY <1>2
<1>4. \A y \in DOMAIN record \cup {s} : record'[y] \in Seq(Tokens)
  BY <1>1, <1>2
<1> QED BY <1>1, <1>2, <1>3, <1>4

\* The end of a prefill chunk keeps the invariant.
LEMMA FinishPrefillInv ==
    ASSUME PagedInv, Finish, FinishPrefill
    PROVE  PagedInv'
<1>0. PICK s \in Sessions : s = This
  BY Finishes
<1> DEFINE end == tables[s].len
<1>1. /\ op.stage = "commit" /\ op.pend = <<>> /\ s \in Elems(op.rows)
      /\ op' = Idle /\ UNCHANGED <<up, pool, dev, tables, cached, slots, lease, solo>>
      /\ OpSound' /\ Counted' /\ Mirrors(dev, pool)' /\ Tails' /\ Seated'
  BY <1>0, Finishes
<1>2. /\ op.kind = "prefill" /\ UNCHANGED toks
      /\ record' = IF done[s] = 0 /\ end = Len(toks[s]) THEN Put(record, s, toks[s]) ELSE record
      /\ done' = [done EXCEPT ![s] = end]
      /\ \/ end = Len(toks[s]) /\ phase' = [phase EXCEPT ![s] = "decode"] /\ pos' = [pos EXCEPT ![s] = end]
         \/ end = Len(toks[s]) /\ Fail({s}) /\ pos' = pos
         \/ end # Len(toks[s]) /\ UNCHANGED <<phase, pos>>
  BY <1>0 DEF FinishPrefill
<1>3. /\ s \in Sessions /\ s \in DOMAIN tables /\ end \in Nat
      /\ phase[s] # "new" /\ end <= Len(toks[s])
      /\ toks[s] \in Seq(Tokens) /\ Len(toks[s]) \in Nat /\ pos[s] \in Nat /\ done[s] \in Nat
      /\ Progress(s)
  BY <1>1, <1>2, Committed
<1>4. /\ phase \in [Sessions -> Phases] /\ pos \in [Sessions -> Nat]
      /\ done \in [Sessions -> Nat] /\ \A x \in Sessions : Progress(x)
  BY DEF PagedInv, Typed, Going
<1> HIDE DEF end
<1>5. record' \in [DOMAIN record' -> Seq(Tokens)] /\ DOMAIN record' \subseteq DOMAIN tables'
  <2>1. CASE done[s] = 0 /\ end = Len(toks[s])
    BY <2>1, <1>1, <1>2, <1>3, RecordPut
  <2>2. CASE ~(done[s] = 0 /\ end = Len(toks[s]))
    BY <2>2, <1>1, <1>2 DEF PagedInv, Typed
  <2> QED BY <2>1, <2>2
<1>6. done' \in [Sessions -> Nat] /\ done'[s] = end /\ \A x \in Sessions : x # s => done'[x] = done[x]
  BY <1>2, <1>3, <1>4
<1>7. /\ phase' \in [Sessions -> Phases] /\ pos' \in [Sessions -> Nat]
      /\ \A x \in Sessions : x # s => phase'[x] = phase[x] /\ pos'[x] = pos[x]
      /\ phase'[s] # "new" /\ pos'[s] <= Len(toks[s])
      /\ phase'[s] = "prefill" => end < Len(toks[s])
  <2>1. CASE /\ end = Len(toks[s]) /\ phase' = [phase EXCEPT ![s] = "decode"]
             /\ pos' = [pos EXCEPT ![s] = end]
    BY <2>1, <1>3, <1>4 DEF Phases
  <2>2. CASE end = Len(toks[s]) /\ Fail({s}) /\ pos' = pos
    BY <2>2, <1>3, <1>4 DEF Fail, Phases, Progress
  <2>3. CASE end # Len(toks[s]) /\ UNCHANGED <<phase, pos>>
    BY <2>3, <1>3, <1>4 DEF Progress
  <2> QED BY <2>1, <2>2, <2>3, <1>2
<1>8. Going'
  <2>1. Progress(s)'
    BY <1>2, <1>3, <1>6, <1>7 DEF Progress
  <2>2. \A x \in Sessions : x # s => Progress(x)'
    BY <1>2, <1>4, <1>6, <1>7 DEF Progress
  <2> QED BY <2>1, <2>2 DEF Going
<1>9. Typed'
  BY <1>1, <1>2, <1>5, <1>6, <1>7 DEF PagedInv, Typed
<1> QED BY <1>1, <1>8, <1>9 DEF PagedInv

\* The end of a decode step keeps the invariant.
LEMMA FinishDecodeInv ==
    ASSUME PagedInv, Finish, FinishDecode
    PROVE  PagedInv'
<1>0. PICK s \in Sessions : s = This
  BY Finishes
<1>c. PICK c : c = toks[s] \o op.in[s]
  OBVIOUS
<1>1. /\ op.stage = "commit" /\ op.pend = <<>> /\ s \in Elems(op.rows)
      /\ op' = Idle /\ UNCHANGED <<up, pool, dev, tables, cached, slots, lease, solo>>
      /\ OpSound' /\ Counted' /\ Mirrors(dev, pool)' /\ Tails' /\ Seated'
  BY <1>0, Finishes
<1>2. /\ op.kind = "decode" /\ UNCHANGED <<phase, done>>
      /\ record' = record \/ (s \in DOMAIN record /\ record' = [record EXCEPT ![s] = @ \o op.in[s]])
      /\ toks' = [toks EXCEPT ![s] = c]
      /\ pos' = [pos EXCEPT ![s] = @ + 1]
  BY <1>0, <1>c DEF FinishDecode, RecordGrows
<1>3. /\ s \in Sessions /\ op.in[s] \in Seq(Tokens) /\ phase[s] # "new" /\ Len(op.in[s]) = 1
      /\ toks[s] \in Seq(Tokens) /\ Len(toks[s]) \in Nat /\ pos[s] \in Nat /\ done[s] \in Nat
      /\ Progress(s)
  BY <1>1, <1>2, Committed
<1>4. /\ toks \in [Sessions -> Seq(Tokens)] /\ pos \in [Sessions -> Nat]
      /\ record \in [DOMAIN record -> Seq(Tokens)] /\ DOMAIN record \subseteq DOMAIN tables
      /\ \A x \in Sessions : Progress(x)
  BY DEF PagedInv, Typed, Going
<1>5. c \in Seq(Tokens) /\ Len(c) = Len(toks[s]) + 1
  BY <1>3, <1>c, OneLong
<1>6. record' \in [DOMAIN record' -> Seq(Tokens)] /\ DOMAIN record' \subseteq DOMAIN tables'
  <2>1. CASE s \in DOMAIN record /\ record' = [record EXCEPT ![s] = @ \o op.in[s]]
    <3> DEFINE b == record[s] \o op.in[s]
    <3>1. b \in Seq(Tokens)
      BY <2>1, <1>3, <1>4, OneLong
    <3>2. record' = [record EXCEPT ![s] = b]
      BY <2>1
    <3> HIDE DEF b
    <3>3. record' \in [DOMAIN record -> Seq(Tokens)] /\ DOMAIN record' = DOMAIN record
      BY <3>1, <3>2, <1>4
    <3> QED BY <3>3, <1>1, <1>4
  <2> QED BY <2>1, <1>1, <1>2, <1>4
<1>7. /\ toks' \in [Sessions -> Seq(Tokens)] /\ toks'[s] = c
      /\ \A x \in Sessions : x # s => toks'[x] = toks[x]
  BY <1>2, <1>3, <1>4, <1>5
<1>8. /\ pos' \in [Sessions -> Nat] /\ pos'[s] = pos[s] + 1
      /\ \A x \in Sessions : x # s => pos'[x] = pos[x]
  BY <1>2, <1>3, <1>4
<1>9. Going'
  <2>1. Progress(s)'
    BY <1>2, <1>3, <1>5, <1>7, <1>8 DEF Progress
  <2>2. \A x \in Sessions : x # s => Progress(x)'
    BY <1>2, <1>4, <1>7, <1>8 DEF Progress
  <2> QED BY <2>1, <2>2 DEF Going
<1>10. Typed'
  BY <1>1, <1>2, <1>6, <1>7, <1>8 DEF PagedInv, Typed
<1> QED BY <1>1, <1>9, <1>10 DEF PagedInv

\* The end of a batch keeps the invariant.
LEMMA FinishBatchInv ==
    ASSUME PagedInv, Finish, FinishBatch
    PROVE  PagedInv'
<1> DEFINE rs == Elems(op.rows)
           ended == {s \in rs : tables[s].len = Len(toks[s])}
<1>1. /\ op.stage = "commit" /\ op.pend = <<>>
      /\ op' = Idle /\ UNCHANGED <<up, pool, dev, tables, cached, slots, lease, solo>>
      /\ OpSound' /\ Counted' /\ Mirrors(dev, pool)' /\ Tails' /\ Seated'
  BY Finishes
<1>2. \A s \in rs :
         /\ s \in Sessions /\ tables[s].len \in Nat
         /\ op.in[s] \in Seq(Tokens) /\ phase[s] # "new"
         /\ op.kind \in {"decode", "batchDecode"} => Len(op.in[s]) = 1
         /\ op.kind \in {"prefill", "batchPrefill"} => tables[s].len <= Len(toks[s])
         /\ Len(toks[s]) \in Nat
  BY <1>1, Committed
<1>3. /\ toks \in [Sessions -> Seq(Tokens)] /\ pos \in [Sessions -> Nat] /\ done \in [Sessions -> Nat]
      /\ phase \in [Sessions -> Phases]
      /\ \A x \in Sessions : Progress(x)
  BY DEF PagedInv, Typed, Going
<1> HIDE DEF rs
<1>4. CASE /\ op.kind = "batchDecode"
           /\ toks' = [s \in Sessions |-> IF s \in rs THEN toks[s] \o op.in[s] ELSE toks[s]]
           /\ pos' = [s \in Sessions |-> IF s \in rs THEN pos[s] + 1 ELSE pos[s]]
           /\ UNCHANGED <<record, phase, done>>
  <2>1. \A s \in rs : /\ toks[s] \o op.in[s] \in Seq(Tokens)
                      /\ Len(toks[s] \o op.in[s]) = Len(toks[s]) + 1
    BY <1>2, <1>3, <1>4, OneLong
  <2>2. toks' \in [Sessions -> Seq(Tokens)] /\ pos' \in [Sessions -> Nat]
    <3>1. \A s \in Sessions : toks'[s] \in Seq(Tokens)
      BY <1>3, <1>4, <2>1
    <3>2. \A s \in Sessions : pos'[s] \in Nat
      BY <1>3, <1>4
    <3> QED BY <1>4, <3>1, <3>2
  <2>3. Going'
    <3> SUFFICES ASSUME NEW s \in Sessions PROVE Progress(s)'
      BY DEF Going
    <3>1. CASE s \in rs
      <4>1. Len(toks'[s]) = Len(toks[s]) + 1 /\ pos'[s] = pos[s] + 1 /\ done' = done /\ phase' = phase
        BY <3>1, <1>4, <2>1
      <4>2. pos[s] \in Nat /\ done[s] \in Nat /\ Len(toks[s]) \in Nat /\ Progress(s) /\ phase[s] # "new"
        BY <3>1, <1>2, <1>3
      <4> QED BY <4>1, <4>2 DEF Progress
    <3>2. CASE s \notin rs
      BY <3>2, <1>3, <1>4 DEF Progress
    <3> QED BY <3>1, <3>2
  <2>4. Typed'
    BY <1>1, <1>4, <2>2 DEF PagedInv, Typed
  <2> QED BY <1>1, <2>3, <2>4 DEF PagedInv
<1>5. CASE /\ op.kind = "batchPrefill"
           /\ done' = [s \in Sessions |-> IF s \in rs THEN tables[s].len ELSE done[s]]
           /\ phase' = [s \in Sessions |-> IF s \in ended THEN "decode" ELSE phase[s]]
           /\ pos' = [s \in Sessions |-> IF s \in ended THEN tables[s].len ELSE pos[s]]
           /\ UNCHANGED <<record, toks>>
  <2>1. \A s \in ended : s \in rs /\ tables[s].len = Len(toks[s])
    OBVIOUS
  <2>2. \A s \in rs : s \notin ended => tables[s].len # Len(toks[s])
    OBVIOUS
  <2> HIDE DEF ended
  <2>3. done' \in [Sessions -> Nat] /\ phase' \in [Sessions -> Phases] /\ pos' \in [Sessions -> Nat]
    BY <1>2, <1>3, <1>5, <2>1 DEF Phases
  <2>4. Going'
    <3> SUFFICES ASSUME NEW s \in Sessions PROVE Progress(s)'
      BY DEF Going
    <3>1. CASE s \in ended
      <4>1. /\ done'[s] = tables[s].len /\ phase'[s] = "decode" /\ pos'[s] = tables[s].len
            /\ toks' = toks /\ tables[s].len = Len(toks[s]) /\ Len(toks[s]) \in Nat
        BY <3>1, <1>2, <1>5, <2>1
      <4> QED BY <4>1 DEF Progress
    <3>2. CASE s \in rs /\ s \notin ended
      <4>1. /\ done'[s] = tables[s].len /\ phase'[s] = phase[s] /\ pos'[s] = pos[s]
            /\ toks' = toks /\ tables[s].len < Len(toks[s]) /\ phase[s] # "new"
        BY <3>2, <1>2, <1>5, <2>2
      <4>2. tables[s].len \in Nat /\ Len(toks[s]) \in Nat /\ Progress(s)
        BY <3>2, <1>2, <1>3
      <4> QED BY <4>1, <4>2 DEF Progress
    <3>3. CASE s \notin rs
      BY <3>3, <1>3, <1>5, <2>1 DEF Progress
    <3> QED BY <3>1, <3>2, <3>3
  <2>5. Typed'
    BY <1>1, <1>5, <2>3 DEF PagedInv, Typed
  <2> QED BY <1>1, <2>4, <2>5 DEF PagedInv
<1> QED BY <1>4, <1>5 DEF FinishBatch, rs

\* Finish keeps the invariant.
LEMMA FinishInv ==
    ASSUME PagedInv, Finish
    PROVE  PagedInv'
BY FinishPrefillInv, FinishDecodeInv, FinishBatchInv DEF Finish

\* Division by a page size is monotonic.
LEMMA DivMono ==
    ASSUME NEW a \in Nat, NEW b \in Nat, a <= b, NEW n \in Nat \ {0}
    PROVE  a \div n \in Nat /\ b \div n \in Nat /\ a \div n <= b \div n
OBVIOUS

\* The table, the tokens and the pages of the row that is planned next.
LEMMA RowIs ==
    ASSUME PagedInv, op.stage = "prepare"
    PROVE  /\ Row \in Sessions /\ Row \in DOMAIN tables /\ Row \in Elems(op.rows)
           /\ Row \in Elems(op.todo) /\ Row \notin PendSeqs
           /\ op.in[Row] \in Seq(Tokens) /\ op.in[Row] # <<>> /\ Count \in Nat /\ Count >= 1
           /\ Sane(tables[Row]) /\ Appends(Row)
<1>1. /\ OpTyped(op) /\ OpStages /\ Appending /\ Working
  BY DEF PagedInv, OpSound, Working
<1>2. /\ op.todo # <<>> /\ op.todo \in Seq(Sessions) /\ PendSeqs \cap Elems(op.todo) = {}
      /\ Elems(op.todo) \subseteq Elems(op.rows) /\ Elems(op.rows) \subseteq DOMAIN tables
  BY <1>1 DEF OpTyped, OpStages
<1>3. Row = op.todo[1] /\ 1 \in DOMAIN op.todo
  BY <1>2 DEF Row
<1>4. Row \in Elems(op.todo)
  BY <1>3 DEF Elems
<1>5. Row \in Elems(op.rows) /\ Row \in DOMAIN tables /\ Row \notin PendSeqs
  BY <1>2, <1>4
<1>6. Appends(Row)
  BY <1>1, <1>5 DEF Appending
<1>7. op.in[Row] \in Seq(Tokens) /\ op.in[Row] # <<>>
  BY <1>1, <1>4, <1>5, <1>6 DEF OpTyped, Appends
<1>8. Count \in Nat /\ Count >= 1
  BY <1>7, EmptySeq DEF Count
<1> QED BY <1>4, <1>5, <1>6, <1>7, <1>8, TableTail

\* The pages an append needs: those past the table, and the copy.
LEMMA NeededIs ==
    ASSUME NEW q, NEW t, Sane(t), NEW k \in Nat
    PROVE  /\ NewPages(t, k) \in Nat /\ Needed(q, t, k) \in Nat
           /\ Len(t.pages) + NewPages(t, k) = DivCeil(t.len + k, PageTokens)
           /\ Len(t.pages) \in Nat /\ DivCeil(t.len + k, PageTokens) \in Nat
           /\ CopiesTail(q, t, k) => Needed(q, t, k) = NewPages(t, k) + 1
           /\ ~CopiesTail(q, t, k) => Needed(q, t, k) = NewPages(t, k)
<1>1. t.len \in Nat /\ Len(t.pages) = DivCeil(t.len, PageTokens) /\ PageTokens \in Nat \ {0}
  BY PageAssumption DEF Sane, Tables, Fits
<1> DEFINE a == t.len + PageTokens - 1
           b == t.len + k + PageTokens - 1
<1>2. a \in Nat /\ b \in Nat /\ a <= b
  BY <1>1
<1>3. a \div PageTokens \in Nat /\ b \div PageTokens \in Nat /\ a \div PageTokens <= b \div PageTokens
  BY <1>1, <1>2, DivMono
<1>4. DivCeil(t.len, PageTokens) = a \div PageTokens /\ DivCeil(t.len + k, PageTokens) = b \div PageTokens
  BY DEF DivCeil
<1> HIDE DEF a, b
<1>5. NewPages(t, k) = b \div PageTokens - a \div PageTokens
  BY <1>1, <1>4 DEF NewPages
<1>6. NewPages(t, k) \in Nat
  BY <1>3, <1>5
<1>7. /\ CopiesTail(q, t, k) => Needed(q, t, k) = NewPages(t, k) + 1
      /\ ~CopiesTail(q, t, k) => Needed(q, t, k) = NewPages(t, k)
  BY <1>6 DEF Needed
<1> QED BY <1>1, <1>3, <1>4, <1>5, <1>6, <1>7

\* The device mirrors any pool with these counts and generations.
LEMMA SameMirrors ==
    ASSUME NEW d, NEW q, NEW z, Mirrors(d, q), \A p \in Pages : z.refs[p] = q.refs[p],
           \A p \in Pages : q.refs[p] > 0 => z.gen[p] = q.gen[p]
    PROVE  Mirrors(d, z)
BY DEF Mirrors

\* A reservation that is taken back, all of it.
LEMMA BackIs ==
    ASSUME PagedInv, NEW k \in Nat, k <= Available(pool),
           NEW z, z = Undone(Reserve(pool, k), PickedHandles(pool, k))
    PROVE  /\ PoolSound(z) /\ \A p \in Pages : z.refs[p] = pool.refs[p]
           /\ Refers(z, tables, cached, op.pend)
           /\ Mirrors(dev, z)
<1>1. /\ Store(tables, cached, op.pend) /\ Refers(pool, tables, cached, op.pend)
      /\ PoolSound(pool) /\ Mirrors(dev, pool)
  BY DEF PagedInv, Counted, Refers
<1>2. /\ PoolSound(z) /\ \A p \in Pages : z.refs[p] = pool.refs[p]
      /\ \A p \in Pages : pool.refs[p] > 0 => z.gen[p] = pool.gen[p]
  BY <1>1, TakenBack
<1>3. Refers(z, tables, cached, op.pend)
  BY <1>1, <1>2, SameRefers
<1>4. Mirrors(dev, z)
  BY <1>1, <1>2, SameMirrors
<1> QED BY <1>2, <1>3, <1>4

\* A plan that ran out of pages and gave them back changed no count.
LEMMA ExhaustedIs ==
    ASSUME PagedInv
    PROVE  /\ \A p \in Pages : Exhausted(pool).refs[p] = pool.refs[p]
           /\ Refers(Exhausted(pool), tables, cached, op.pend)
           /\ Mirrors(dev, Exhausted(pool))
<1>1. Available(pool) \in Nat
  BY AvailableIs DEF PagedInv, Counted, Refers
<1>2. Available(pool) <= Available(pool)
  BY <1>1
<1> QED BY <1>1, <1>2, BackIs DEF Exhausted

\* An operation that gives its reservation back and goes to its abort keeps the invariant.
LEMMA TakesBackInv ==
    ASSUME PagedInv, op.stage = "prepare", NEW e \in Errors, e # "position",
           op' = [op EXCEPT !.stage = "abort", !.err = e],
           \A p \in Pages : pool'.refs[p] = pool.refs[p],
           Refers(pool', tables, cached, op.pend), Mirrors(dev, pool'),
           UNCHANGED <<up, dev, tables, record, cached, slots>>, UNCHANGED sessionVars
    PROVE  PagedInv'
<1>1. UNCHANGED <<tables, toks, done, phase>>
  BY DEF sessionVars
<1>2. OpSound' /\ op'.pend = op.pend /\ Tails'
  BY <1>1, Aborts, ZenonT(30)
<1>3. Counted' /\ Mirrors(dev, pool)'
  BY <1>2 DEF PagedInv, Counted
<1>4. Typed' /\ Going'
  BY DEF PagedInv, Typed, Going, Progress, sessionVars
<1>5. Seated'
  BY SameSeats DEF sessionVars
<1> QED BY <1>2, <1>3, <1>4, <1>5 DEF PagedInv

\* DeviceFails keeps the invariant.
LEMMA DeviceFailsInv ==
    ASSUME PagedInv, DeviceFails
    PROVE  PagedInv'
<1>1. /\ op.stage = "prepare" /\ Need \in 1 .. Available(pool)
      /\ pool' = Undone(Reserve(pool, Need), PickedHandles(pool, Need))
      /\ op' = [op EXCEPT !.stage = "abort", !.err = "device"]
      /\ UNCHANGED <<up, dev, tables, record, cached, slots>> /\ UNCHANGED sessionVars
  BY DEF DeviceFails
<1>2. Available(pool) \in Nat
  BY AvailableIs DEF PagedInv, Counted, Refers
<1>3. Need \in Nat /\ Need <= Available(pool)
  BY <1>1, <1>2
<1> HIDE DEF Need
<1>4. /\ \A p \in Pages : pool'.refs[p] = pool.refs[p]
      /\ Refers(pool', tables, cached, op.pend) /\ Mirrors(dev, pool')
  BY <1>1, <1>3, BackIs
<1> QED BY <1>1, <1>4, TakesBackInv DEF Errors

\* PoolExhausted keeps the invariant.
LEMMA PoolExhaustedInv ==
    ASSUME PagedInv, PoolExhausted
    PROVE  PagedInv'
<1>1. /\ op.stage = "prepare"
      /\ pool' = Exhausted(pool)
      /\ op' = [op EXCEPT !.stage = "abort", !.err = "capacity"]
      /\ UNCHANGED <<up, dev, tables, record, cached, slots>> /\ UNCHANGED sessionVars
  BY DEF PoolExhausted
<1>2. /\ \A p \in Pages : pool'.refs[p] = pool.refs[p]
      /\ Refers(pool', tables, cached, op.pend) /\ Mirrors(dev, pool')
  BY <1>1, ExhaustedIs
<1> QED BY <1>1, <1>2, TakesBackInv DEF Errors

\* Freed device pages have no generation; the others stay.
LEMMA FreedIs ==
    ASSUME NEW d \in DevPages, NEW ps
    PROVE  /\ Freed(d, ps) \in DevPages
           /\ \A p \in Pages : p \in ps => Freed(d, ps)[p].gen = 0
           /\ \A p \in Pages : p \notin ps => Freed(d, ps)[p] = d[p]
<1>1. NoPage \in [gen : Nat, rows : [0 .. PageTokens - 1 -> Seq(Tokens)]] /\ NoPage.gen = 0
  BY DEF NoPage
<1> QED BY <1>1 DEF Freed, DevPages

\* The device loses the pages whose last reference goes, and no other.
LEMMA ReleaseMirrors ==
    ASSUME NEW d, NEW q, PoolSound(q), Mirrors(d, q), NEW hs \in Seq(Handles), Distinct(hs),
           \A p \in Indices(hs) : p \in Pages /\ q.refs[p] > 0
    PROVE  Mirrors(Freed(d, Exclusive(q, hs)), Release(q, hs))
<1> DEFINE z == Release(q, hs)
           x == Freed(d, Exclusive(q, hs))
<1>1. /\ z.gen = q.gen
      /\ \A p \in Pages : p \in Indices(hs) => z.refs[p] = q.refs[p] - 1
      /\ \A p \in Pages : p \notin Indices(hs) => z.refs[p] = q.refs[p]
  BY ReleaseIs
<1>2. q.refs \in [Pages -> Nat]
  BY PoolFields DEF PoolSound
<1>3. /\ d \in DevPages /\ \A p \in Pages : d[p].gen = IF q.refs[p] > 0 THEN q.gen[p] ELSE 0
  BY DEF Mirrors
<1>4. /\ x \in DevPages
      /\ \A p \in Pages : p \in Exclusive(q, hs) => x[p].gen = 0
      /\ \A p \in Pages : p \notin Exclusive(q, hs) => x[p] = d[p]
  BY <1>3, FreedIs
<1>5. \A p : p \in Exclusive(q, hs) <=> p \in Indices(hs) /\ q.refs[p] = 1
  BY DEF Exclusive
<1> HIDE DEF z, x
<1>6. ASSUME NEW p \in Pages PROVE x[p].gen = IF z.refs[p] > 0 THEN z.gen[p] ELSE 0
  <2>1. CASE p \in Indices(hs) /\ q.refs[p] = 1
    BY <2>1, <1>1, <1>4, <1>5
  <2>2. CASE p \in Indices(hs) /\ q.refs[p] # 1
    <3>1. q.refs[p] \in Nat /\ q.refs[p] > 0
      BY <1>2, <2>2
    <3>2. z.refs[p] = q.refs[p] - 1 /\ x[p] = d[p] /\ z.gen[p] = q.gen[p]
      BY <1>1, <1>4, <1>5, <2>2
    <3>3. z.refs[p] > 0
      BY <2>2, <3>1, <3>2
    <3> QED BY <1>3, <3>1, <3>2, <3>3
  <2>3. CASE p \notin Indices(hs)
    BY <2>3, <1>1, <1>3, <1>4, <1>5
  <2> QED BY <2>1, <2>2, <2>3
<1> QED BY <1>4, <1>6 DEF Mirrors, z, x

\* Who owns its last page shares it with neither the prefix nor another table.
LEMMA OwnedAlone ==
    ASSUME PagedInv, NEW s \in DOMAIN tables, tables[s].len % PageTokens # 0,
           pool.refs[LastPage(tables[s])] = 1
    PROVE  /\ LastPage(tables[s]) \in Pages
           /\ \A c \in cached : LastPage(tables[s]) \notin Indices(c.table.pages)
           /\ \A x \in DOMAIN tables : LastPage(tables[s]) \in Indices(tables[x].pages) => x = s
<1>1. Store(tables, cached, op.pend) /\ Refers(pool, tables, cached, op.pend)
  BY DEF PagedInv, Counted
<1>2. LastPage(tables[s]) \in Pages /\ LastPage(tables[s]) \in Indices(tables[s].pages)
  BY TableTail, TailPage
<1> QED BY <1>1, <1>2, TableFacts

\* While rows of a single prompt's chunk are planned, none is pending.
LEMMA NoneYet ==
    ASSUME PagedInv, op.stage = "prepare", op.kind = "prefill", NEW i \in DOMAIN op.pend
    PROVE  FALSE
<1>1. OpStages /\ Single /\ op.kind # "idle"
  BY DEF PagedInv, OpSound, Single
<1>2. Elems(op.rows) = {This} /\ op.pend[i].seq \in PendSeqs
  BY <1>1, ThisIs DEF PendSeqs
<1>3. Row \in Elems(op.todo) /\ Row \in Elems(op.rows)
  BY RowIs
<1>4. op.pend[i].seq = Row
  BY <1>1, <1>2, <1>3 DEF OpStages
<1> QED BY <1>1, <1>2, <1>3, <1>4 DEF OpStages

\* EvictPrefix keeps the invariant: no planned row has a page of the prefix to copy.
LEMMA EvictPrefixInv ==
    ASSUME PagedInv, EvictPrefix
    PROVE  PagedInv'
<1> DEFINE q == Exhausted(pool)
<1>1. PICK c \in cached :
         /\ op.stage = "prepare"
         /\ dev' = Freed(dev, Exclusive(q, c.table.pages))
         /\ pool' = Release(q, c.table.pages)
         /\ cached' = {}
         /\ UNCHANGED <<up, tables, record, slots, op>> /\ UNCHANGED sessionVars
  BY DEF EvictPrefix, Evictable
<1>2. /\ \A p \in Pages : q.refs[p] = pool.refs[p]
      /\ Refers(q, tables, cached, op.pend)
      /\ Mirrors(dev, q)
  BY ExhaustedIs
<1> HIDE DEF q
<1>3. Store(tables, cached, op.pend) /\ PoolSound(q)
  BY <1>2 DEF PagedInv, Counted, Refers
<1>4. Counted'
  BY <1>1, <1>2, <1>3, EvictRefers DEF Counted
<1>5. /\ c.table.pages \in Seq(Handles) /\ Distinct(c.table.pages)
      /\ \A p \in Indices(c.table.pages) : p \in Pages /\ q.refs[p] > 0
  BY <1>2, <1>3, StoreFacts, RefFacts
<1>6. Mirrors(dev, pool)'
  BY <1>1, <1>2, <1>3, <1>5, ReleaseMirrors
<1>7. \A p \in Pages : p \notin Indices(c.table.pages) => pool'.refs[p] = pool.refs[p]
  BY <1>1, <1>2, <1>3, <1>5, ReleaseIs
<1>8. ASSUME NEW s \in DOMAIN tables, tables[s].len % PageTokens # 0,
             pool.refs[LastPage(tables[s])] = 1
      PROVE  pool'.refs[LastPage(tables[s])] = 1
  BY <1>7, <1>8, OwnedAlone
<1>9. UNCHANGED <<lease, phase, toks, done, pos, solo>>
  BY <1>1 DEF sessionVars
<1>10. Tails'
  <2> SUFFICES ASSUME NEW s \in DOMAIN tables PROVE Owned(pool, tables[s])' \/ Adopting(s)'
    BY <1>1 DEF Tails
  <2>1. Adopting(s) => Adopting(s)'
    BY <1>1 DEF Adopting, Working, This
  <2>2. Owned(pool, tables[s]) => Owned(pool, tables[s])'
    BY <1>1, <1>8 DEF Owned
  <2> QED BY <2>1, <2>2 DEF PagedInv, Tails
<1>11. Pends'
  <2> SUFFICES ASSUME NEW i \in DOMAIN op.pend PROVE PendSound(op.pend[i])'
    BY <1>1 DEF Pends
  <2>1. PendSound(op.pend[i])
    BY DEF PagedInv, OpSound, Pends
  <2>2. op.kind # "prefill"
    BY <1>1, NoneYet, SMTT(30)
  <2>3. ~op.pend[i].cow
    BY <2>1, <2>2 DEF PendSound
  <2>4. op.pend[i].seq \in DOMAIN tables
    BY <1>1, SMTT(30) DEF PagedInv, OpSound, OpStages, PendSeqs, Working
  <2> DEFINE s == op.pend[i].seq
  <2>5. tables[s].len % PageTokens # 0 => pool.refs[LastPage(tables[s])] = 1
    BY <2>1, <2>3 DEF PendSound
  <2>6. tables[s].len % PageTokens # 0 => pool'.refs[LastPage(tables[s])] = 1
    BY <1>8, <2>4, <2>5
  <2> QED BY <1>1, <2>1, <2>3, <2>6, ZenonT(30) DEF PendSound
<1>12. OpTyped(op') /\ OpShape' /\ OpStages' /\ Appending'
  <2>1. OpTyped(op') /\ OpShape'
    BY <1>1 DEF PagedInv, OpSound, OpShape, Single
  <2>2. Single' = Single /\ Working' = Working /\ PendSeqs' = PendSeqs
    BY <1>1 DEF Single, Working, PendSeqs
  <2>3. OpStages'
    BY <1>1, <2>2 DEF PagedInv, OpSound, OpStages
  <2>4. Appending'
    BY <1>1, <1>9, <2>2 DEF PagedInv, OpSound, Appending, Appends, Coming
  <2> QED BY <2>1, <2>3, <2>4
<1>13. Typed' /\ Going'
  BY <1>1, <1>9 DEF PagedInv, Typed, Going, Progress
<1>14. Seated'
  BY <1>1, <1>9, SameSeats
<1> QED BY <1>4, <1>6, <1>10, <1>11, <1>12, <1>13, <1>14 DEF PagedInv, OpSound

\* The appends of an operation are others.
LEMMA PendUpdate ==
    ASSUME PagedInv, op.stage # "none", NEW D \in Seq(Pending), op' = [op EXCEPT !.pend = D]
    PROVE  /\ OpTyped(op') /\ OpShape' /\ op'.pend = D
           /\ op'.stage = op.stage /\ op'.kind = op.kind /\ op'.rows = op.rows /\ op'.in = op.in
           /\ op'.todo = op.todo /\ op'.err = op.err
           /\ Single' = Single /\ This' = This /\ Working' = Working /\ op.kind # "idle"
<1>1. OpTyped(op) /\ OpShape
  BY DEF PagedInv, OpSound
<1>2. /\ op' = [kind |-> op.kind, stage |-> op.stage, rows |-> op.rows, in |-> op.in,
                todo |-> op.todo, pend |-> D, err |-> op.err]
  BY <1>1 DEF OpTyped
<1>3. /\ op'.stage = op.stage /\ op'.kind = op.kind /\ op'.rows = op.rows /\ op'.in = op.in
      /\ op'.todo = op.todo /\ op'.pend = D /\ op'.err = op.err
  BY <1>2
<1>4. op # Idle /\ op' # Idle /\ op.kind # "idle"
  BY <1>1, <1>3 DEF OpShape, Idle
<1>5. OpTyped(op')
  BY <1>1, <1>2, <1>3 DEF OpTyped
<1>6. Single' = Single /\ This' = This /\ Working' = Working
  BY <1>3 DEF Single, This, Working
<1>7. OpShape'
  BY <1>1, <1>3, <1>4, <1>6 DEF OpShape
<1> QED BY <1>3, <1>4, <1>5, <1>6, <1>7

\* AbortRow keeps the invariant.
LEMMA AbortRowInv ==
    ASSUME PagedInv, AbortRow
    PROVE  PagedInv'
<1> DEFINE n == Len(op.pend)
           hs == op.pend[n].alloc
           E == SubSeq(op.pend, 1, n - 1)
<1>1. /\ op.stage = "abort" /\ op.pend # <<>>
      /\ dev' = Freed(dev, Indices(hs)) /\ pool' = Undone(pool, hs)
      /\ op' = [op EXCEPT !.pend = E]
      /\ UNCHANGED <<up, tables, record, cached, slots>> /\ UNCHANGED sessionVars
  BY DEF AbortRow
<1>2. op.pend \in Seq(Pending) /\ n \in Nat /\ n >= 1 /\ DOMAIN op.pend = 1 .. n
  BY <1>1, EmptySeq DEF PagedInv, OpSound, OpTyped
<1>3. /\ Store(tables, cached, op.pend) /\ Refers(pool, tables, cached, op.pend)
      /\ Mirrors(dev, pool)
  BY DEF PagedInv, Counted
<1>4. /\ Store(tables, cached, E)
      /\ Refers(pool', tables, cached, E)
      /\ \A p \in Pages : p \in Indices(hs) => pool'.refs[p] = 0
      /\ \A p \in Pages : p \notin Indices(hs) => pool'.refs[p] = pool.refs[p]
      /\ pool'.gen = pool.gen
  BY <1>1, <1>3, AbortRefers
<1>5. E \in Seq(Pending)
  BY <1>4, StoreFacts
<1>6. DOMAIN E = 1 .. n - 1 /\ \A i \in 1 .. n - 1 : E[i] = op.pend[i]
  BY <1>2
<1>7. n \in DOMAIN op.pend
  BY <1>2
<1> HIDE DEF E, hs
<1>8. /\ OpTyped(op') /\ OpShape' /\ op'.pend = E
      /\ op'.stage = op.stage /\ op'.kind = op.kind /\ op'.rows = op.rows /\ op'.in = op.in
      /\ op'.todo = op.todo /\ op'.err = op.err
      /\ Single' = Single /\ This' = This /\ Working' = Working
  BY <1>1, <1>5, PendUpdate
<1>9. Counted'
  BY <1>1, <1>4, <1>8 DEF Counted
<1>10. Mirrors(dev, pool)'
  <2>1. /\ dev \in DevPages
        /\ \A p \in Pages : dev[p].gen = IF pool.refs[p] > 0 THEN pool.gen[p] ELSE 0
    BY <1>3 DEF Mirrors
  <2>2. /\ dev' \in DevPages
        /\ \A p \in Pages : p \in Indices(hs) => dev'[p].gen = 0
        /\ \A p \in Pages : p \notin Indices(hs) => dev'[p] = dev[p]
    BY <1>1, <2>1, FreedIs
  <2> QED BY <1>4, <2>1, <2>2 DEF Mirrors
<1>11. ASSUME NEW s \in DOMAIN tables, tables[s].len % PageTokens # 0
       PROVE  pool'.refs[LastPage(tables[s])] = pool.refs[LastPage(tables[s])]
  <2>1. LastPage(tables[s]) \in Pages /\ LastPage(tables[s]) \in Indices(tables[s].pages)
    BY <1>11, TableTail, TailPage
  <2>2. LastPage(tables[s]) \notin Indices(hs)
    BY <1>3, <1>7, <2>1, AllocFacts DEF hs
  <2> QED BY <1>4, <2>1, <2>2
<1>12. Tails'
  <2> SUFFICES ASSUME NEW s \in DOMAIN tables PROVE Owned(pool, tables[s])' \/ Adopting(s)'
    BY <1>1 DEF Tails
  <2>1. Adopting(s) => Adopting(s)'
    BY <1>1, <1>8 DEF Adopting
  <2>2. Owned(pool, tables[s]) => Owned(pool, tables[s])'
    BY <1>1, <1>11 DEF Owned
  <2> QED BY <2>1, <2>2 DEF PagedInv, Tails
<1>13. PendSeqs' \subseteq PendSeqs
  BY <1>2, <1>6, <1>8 DEF PendSeqs
<1>14. Pends'
  <2> SUFFICES ASSUME NEW i \in 1 .. n - 1 PROVE PendSound(op.pend[i])'
    BY <1>6, <1>8 DEF Pends
  <2>a. i \in DOMAIN op.pend /\ op'.pend[i] = op.pend[i]
    BY <1>2, <1>6, <1>8
  <2>1. PendSound(op.pend[i])
    BY <2>a DEF PagedInv, OpSound, Pends
  <2>2. op.pend[i].seq \in DOMAIN tables
    BY <2>a, <1>1 DEF PagedInv, OpSound, OpStages, PendSeqs, Working
  <2> DEFINE t == tables[op.pend[i].seq]
  <2>3. t.len % PageTokens # 0 => pool'.refs[LastPage(t)] = pool.refs[LastPage(t)]
    BY <1>11, <2>2
  <2> QED BY <1>1, <1>8, <2>a, <2>1, <2>3, ZenonT(30) DEF PendSound
<1>15. OpStages'
  <2>1. \A i, j \in DOMAIN op'.pend : op'.pend[i].seq = op'.pend[j].seq => i = j
    <3>1. OpStages
      BY DEF PagedInv, OpSound
    <3>2. \A i, j \in DOMAIN op.pend : op.pend[i].seq = op.pend[j].seq => i = j
      BY <3>1 DEF OpStages
    <3>3. \A i \in DOMAIN op'.pend : i \in DOMAIN op.pend /\ op'.pend[i] = op.pend[i]
      BY <1>2, <1>6, <1>8
    <3> QED BY <3>2, <3>3
  <2> QED BY <1>1, <1>8, <1>13, <2>1 DEF PagedInv, OpSound, OpStages
<1>16. UNCHANGED <<lease, phase, toks, done, pos, solo>>
  BY <1>1 DEF sessionVars
<1>17. Appending'
  BY <1>1, <1>8, <1>16 DEF PagedInv, OpSound, Appending, Appends
<1>18. Typed' /\ Going'
  BY <1>1, <1>16 DEF PagedInv, Typed, Going, Progress
<1>19. Seated'
  BY <1>1, <1>16, SameSeats
<1> QED BY <1>8, <1>9, <1>10, <1>12, <1>14, <1>15, <1>17, <1>18, <1>19 DEF PagedInv, OpSound

\* The rest of a sequence without its first element.
LEMMA TailSeq ==
    ASSUME NEW S, NEW x \in Seq(S), x # <<>>
    PROVE  /\ Tail(x) \in Seq(S) /\ Elems(x) = Elems(Tail(x)) \cup {Head(x)}
           /\ Injective(x) => Injective(Tail(x)) /\ Head(x) \notin Elems(Tail(x))
           /\ Len(x) = 1 => Tail(x) = <<>>
           /\ Len(x) # 1 => Tail(x) # <<>>
<1> DEFINE n == Len(x)
           y == Tail(x)
<1>1. n \in Nat /\ n >= 1 /\ DOMAIN x = 1 .. n
  BY EmptySeq
<1>2. /\ y \in Seq(S) /\ Len(y) = n - 1 /\ DOMAIN y = 1 .. n - 1
      /\ \A i \in 1 .. n - 1 : y[i] = x[i + 1]
  BY <1>1
<1>3. Head(x) = x[1]
  OBVIOUS
<1> HIDE DEF n, y
<1>4. ASSUME NEW i \in 1 .. n PROVE x[i] \in Elems(y) \/ x[i] = Head(x)
  <2>1. CASE i = 1
    BY <1>3, <2>1
  <2>2. CASE i # 1
    <3>1. PICK j \in 1 .. n - 1 : j + 1 = i
      <4>1. i - 1 \in 1 .. n - 1 /\ i - 1 + 1 = i
        BY <1>1, <2>2
      <4> QED BY <4>1
    <3>2. y[j] = x[i] /\ j \in DOMAIN y
      BY <1>2, <3>1
    <3> QED BY <3>2 DEF Elems
  <2> QED BY <2>1, <2>2
<1>5. \A j \in 1 .. n - 1 : j + 1 \in 1 .. n /\ j + 1 # 1 /\ y[j] = x[j + 1]
  BY <1>1, <1>2
<1>6. 1 \in 1 .. n
  BY <1>1
<1>7. Elems(x) = Elems(y) \cup {Head(x)}
  <2>1. \A v \in Elems(x) : v \in Elems(y) \cup {Head(x)}
    BY <1>1, <1>4 DEF Elems
  <2>2. \A v \in Elems(y) : v \in Elems(x)
    BY <1>1, <1>2, <1>5 DEF Elems
  <2>3. Head(x) \in Elems(x)
    BY <1>1, <1>3, <1>6 DEF Elems
  <2> QED BY <2>1, <2>2, <2>3
<1>8. ASSUME Injective(x) PROVE Injective(y) /\ Head(x) \notin Elems(y)
  <2>1. \A i, j \in 1 .. n : x[i] = x[j] => i = j
    BY <1>1, <1>8 DEF Injective
  <2>2. \A j \in 1 .. n - 1 : y[j] # Head(x)
    BY <1>3, <1>5, <1>6, <2>1
  <2>3. ASSUME NEW i \in 1 .. n - 1, NEW j \in 1 .. n - 1, y[i] = y[j] PROVE i = j
    <3>1. i + 1 = j + 1
      BY <1>5, <2>1, <2>3
    <3> QED BY <1>1, <3>1
  <2> QED BY <1>2, <2>2, <2>3 DEF Injective, Elems
<1>9. /\ n = 1 => y = <<>>
      /\ n # 1 => y # <<>>
  <2>1. Len(<<>>) = 0 /\ (y = <<>> => Len(y) = 0) /\ (y # <<>> => Len(y) # 0)
    BY <1>2, EmptySeq
  <2> QED BY <1>1, <1>2, <2>1
<1> QED BY <1>2, <1>7, <1>8, <1>9 DEF n, y

\* The append that is planned, and the pool it leaves.
LEMMA PlannedIs ==
    ASSUME PagedInv, op.stage = "prepare", Need <= Available(pool),
           NEW r, r = [seq |-> Row, from |-> tables[Row].len,
                       pages |-> Planned(pool, tables[Row], Count),
                       alloc |-> PickedHandles(pool, Need),
                       cow |-> CopiesTail(pool, tables[Row], Count)]
    PROVE  LET t == tables[Row]
           IN  /\ r \in Pending /\ r.seq = Row /\ r.from = t.len
               /\ r.alloc = PickedHandles(pool, Need) /\ Distinct(r.alloc)
               /\ r.pages = Own(t, r.cow) \o r.alloc
               /\ Len(r.pages) = DivCeil(t.len + Count, PageTokens)
               /\ r.cow => t.len % PageTokens # 0 /\ pool.refs[LastPage(t)] >= 2
                           /\ op.kind = "prefill" /\ 1 \in DOMAIN r.alloc
               /\ ~r.cow /\ t.len % PageTokens # 0 => pool.refs[LastPage(t)] = 1
               /\ r.cow = CopiesTail(pool, t, Count)
               /\ Need \in Nat
<1> DEFINE t == tables[Row]
           cow == CopiesTail(pool, t, Count)
           hs == PickedHandles(pool, Need)
<1>1. /\ Row \in Sessions /\ Row \in DOMAIN tables /\ Count \in Nat /\ Count >= 1 /\ Sane(t)
  BY RowIs
<1>2. /\ NewPages(t, Count) \in Nat /\ Need \in Nat
      /\ Len(t.pages) + NewPages(t, Count) = DivCeil(t.len + Count, PageTokens)
      /\ Len(t.pages) \in Nat
      /\ cow => Need = NewPages(t, Count) + 1
      /\ ~cow => Need = NewPages(t, Count)
  BY <1>1, NeededIs DEF Need
<1>3. cow \in BOOLEAN
  BY DEF CopiesTail
<1>4. t.pages \in Seq(Handles) /\ t.len \in Nat /\ Distinct(t.pages)
  BY <1>1 DEF Sane, Tables
<1>5. cow => t.len % PageTokens # 0 /\ pool.refs[LastPage(t)] > 1
  BY DEF CopiesTail
<1>6. t.len % PageTokens # 0 => /\ t.pages # <<>> /\ LastPage(t) \in Pages
                                /\ LastPage(t) \in Indices(t.pages)
  BY <1>1, TailPage
<1>7. Store(tables, cached, op.pend) /\ Refers(pool, tables, cached, op.pend) /\ PoolSound(pool)
  BY DEF PagedInv, Counted, Refers
<1>8. /\ hs \in Seq(Handles) /\ Len(hs) = Need /\ DOMAIN hs = 1 .. Need /\ Distinct(hs)
  BY <1>2, <1>7, PickedIs
<1>9. pool.refs \in [Pages -> Nat]
  BY <1>7, RefFacts
<1>10. Planned(pool, t, Count) = Own(t, cow) \o hs
  BY DEF Planned, Own, Need
<1> HIDE DEF cow, hs, Need, Count
<1>11. Own(t, cow) \in Seq(Handles) /\ Len(Own(t, cow)) = Len(t.pages) - Of(cow)
  BY <1>3, <1>4, <1>5, <1>6, OwnIs
<1>12. /\ Planned(pool, t, Count) \in Seq(Handles)
       /\ Len(Planned(pool, t, Count)) = Len(Own(t, cow)) + Len(hs)
  BY <1>8, <1>10, <1>11, ConcatHandles
<1>13. Len(Planned(pool, t, Count)) = DivCeil(t.len + Count, PageTokens)
  <2>1. CASE cow
    <3>1. Of(cow) = 1
      BY <2>1 DEF Of
    <3>2. Need = NewPages(t, Count) + 1
      BY <1>2, <2>1
    <3>3. Len(Own(t, cow)) = Len(t.pages) - 1 /\ Len(hs) = NewPages(t, Count) + 1
      BY <1>8, <1>11, <3>1, <3>2
    <3>4. Len(Planned(pool, t, Count)) = (Len(t.pages) - 1) + (NewPages(t, Count) + 1)
      BY <1>12, <3>3
    <3>5. (Len(t.pages) - 1) + (NewPages(t, Count) + 1) = Len(t.pages) + NewPages(t, Count)
      BY <1>2, SMTT(30)
    <3> QED BY <1>2, <3>4, <3>5
  <2>2. CASE ~cow
    <3>1. Of(cow) = 0
      BY <2>2 DEF Of
    <3>2. Need = NewPages(t, Count)
      BY <1>2, <2>2
    <3> QED BY <1>2, <1>8, <1>11, <1>12, <3>1, <3>2
  <2> QED BY <2>1, <2>2
<1>14. r = [seq |-> Row, from |-> t.len, pages |-> Planned(pool, t, Count), alloc |-> hs, cow |-> cow]
  BY DEF cow, hs
<1>15. /\ r.seq = Row /\ r.from = t.len /\ r.alloc = hs /\ r.cow = cow
       /\ r.pages = Planned(pool, t, Count)
  BY <1>14
<1>16. r \in Pending
  BY <1>1, <1>3, <1>4, <1>8, <1>12, <1>14 DEF Pending
<1>17. cow => /\ t.len % PageTokens # 0 /\ pool.refs[LastPage(t)] >= 2
              /\ op.kind = "prefill" /\ 1 \in DOMAIN hs
  <2> SUFFICES ASSUME cow
               PROVE  /\ t.len % PageTokens # 0 /\ pool.refs[LastPage(t)] >= 2
                      /\ op.kind = "prefill" /\ 1 \in DOMAIN hs
    OBVIOUS
  <2>1. pool.refs[LastPage(t)] \in Nat /\ pool.refs[LastPage(t)] > 1 /\ t.len % PageTokens # 0
    BY <1>5, <1>6, <1>9
  <2>2. ~Owned(pool, t)
    BY <2>1 DEF Owned
  <2>3. Adopting(Row)
    BY <1>1, <2>2 DEF PagedInv, Tails
  <2>4. op.kind = "prefill"
    BY <2>3 DEF Adopting
  <2>5. 1 \in DOMAIN hs
    BY <1>2, <1>8
  <2> QED BY <2>1, <2>4, <2>5
<1>18. ~cow /\ t.len % PageTokens # 0 => pool.refs[LastPage(t)] = 1
  <2> SUFFICES ASSUME ~cow, t.len % PageTokens # 0 PROVE pool.refs[LastPage(t)] = 1
    OBVIOUS
  <2>1. ~(pool.refs[LastPage(t)] > 1)
    BY <1>1 DEF cow, CopiesTail
  <2>2. pool.refs[LastPage(t)] > 0 /\ pool.refs[LastPage(t)] \in Nat
    BY <1>1, <1>6, <1>7, <1>9, TableFacts
  <2> QED BY <2>1, <2>2
<1> QED BY <1>2, <1>8, <1>10, <1>13, <1>15, <1>16, <1>17, <1>18 DEF cow, hs

\* Pages allocated on the device for a reservation mirror the pool after it.
LEMMA AllocMirrors ==
    ASSUME NEW d, NEW q, PoolSound(q), Mirrors(d, q), NEW k \in Nat, k <= Available(q)
    PROVE  Mirrors(Allocated(d, PickedHandles(q, k)), Reserve(q, k))
<1> DEFINE hs == PickedHandles(q, k)
           z == Reserve(q, k)
           x == Allocated(d, hs)
<1>1. /\ \A p \in Pages : p \in Indices(hs) => /\ q.refs[p] = 0 /\ z.refs[p] = 1
                                               /\ z.gen[p] = q.gen[p] + 1
      /\ \A p \in Pages : p \notin Indices(hs) => z.refs[p] = q.refs[p] /\ z.gen[p] = q.gen[p]
  BY ReserveIs
<1>2. /\ DOMAIN hs = 1 .. k
      /\ \A i \in 1 .. k : Generation(hs[i]) = q.gen[Index(hs[i])] + 1
  BY PickedIs
<1>3. q.gen \in [Pages -> Nat]
  BY PoolFields DEF PoolSound
<1>4. /\ d \in DevPages /\ \A p \in Pages : d[p].gen = IF q.refs[p] > 0 THEN q.gen[p] ELSE 0
  BY DEF Mirrors
<1>5. \A p : p \in Indices(hs) <=> \E i \in DOMAIN hs : Index(hs[i]) = p
  BY IndicesIs
<1>6. NoPage = [gen |-> 0, rows |-> NoPage.rows] /\ NoPage.rows \in [0 .. PageTokens - 1 -> Seq(Tokens)]
  BY DEF NoPage
<1>7. x = [p \in Pages |-> IF \E i \in DOMAIN hs : Index(hs[i]) = p
                           THEN [NoPage EXCEPT !.gen =
                                   Generation(hs[CHOOSE i \in DOMAIN hs : Index(hs[i]) = p])]
                           ELSE d[p]]
  BY DEF Allocated
<1> HIDE DEF hs, z, x
<1>8. ASSUME NEW p \in Pages
      PROVE  /\ x[p] \in [gen : Nat, rows : [0 .. PageTokens - 1 -> Seq(Tokens)]]
             /\ x[p].gen = IF z.refs[p] > 0 THEN z.gen[p] ELSE 0
  <2>1. CASE p \in Indices(hs)
    <3> DEFINE i == CHOOSE j \in DOMAIN hs : Index(hs[j]) = p
    <3>1. i \in DOMAIN hs /\ Index(hs[i]) = p
      BY <1>5, <2>1
    <3>2. x[p] = [NoPage EXCEPT !.gen = Generation(hs[i])]
      BY <1>5, <1>7, <2>1
    <3> HIDE DEF i
    <3>3. Generation(hs[i]) = q.gen[p] + 1
      BY <1>2, <3>1
    <3>4. q.gen[p] + 1 \in Nat
      BY <1>3
    <3>5. x[p] = [gen |-> q.gen[p] + 1, rows |-> NoPage.rows]
      BY <1>6, <3>2, <3>3
    <3>6. z.refs[p] > 0 /\ z.gen[p] = q.gen[p] + 1
      BY <1>1, <2>1
    <3> QED BY <1>6, <3>4, <3>5, <3>6
  <2>2. CASE p \notin Indices(hs)
    BY <2>2, <1>1, <1>4, <1>5, <1>7 DEF DevPages
  <2> QED BY <2>1, <2>2
<1>9. x \in DevPages
  BY <1>7, <1>8 DEF DevPages
<1> QED BY <1>8, <1>9 DEF Mirrors, hs, z, x

\* Rows written to a page leave it the page it is.
LEMMA RowsMirrors ==
    ASSUME NEW d, NEW q, Mirrors(d, q), NEW p \in Pages,
           NEW rows \in [0 .. PageTokens - 1 -> Seq(Tokens)]
    PROVE  Mirrors([d EXCEPT ![p].rows = rows], q)
<1> DEFINE u == [d[p] EXCEPT !.rows = rows]
<1>1. d \in DevPages /\ \A x \in Pages : d[x].gen = IF q.refs[x] > 0 THEN q.gen[x] ELSE 0
  BY DEF Mirrors
<1>2. d[p] \in [gen : Nat, rows : [0 .. PageTokens - 1 -> Seq(Tokens)]]
  BY <1>1 DEF DevPages
<1>3. u \in [gen : Nat, rows : [0 .. PageTokens - 1 -> Seq(Tokens)]] /\ u.gen = d[p].gen
  BY <1>2
<1>4. [d EXCEPT ![p].rows = rows] = [d EXCEPT ![p] = u]
  BY <1>1 DEF DevPages
<1> HIDE DEF u
<1> DEFINE e == [d EXCEPT ![p] = u]
<1>5. e \in DevPages /\ \A x \in Pages : e[x].gen = d[x].gen
  BY <1>1, <1>3 DEF DevPages
<1> HIDE DEF e
<1>6. Mirrors(e, q)
  BY <1>1, <1>5 DEF Mirrors
<1> QED BY <1>4, <1>6 DEF e

\* The sequences of the pending appends, with one more.
LEMMA AppendSeqs ==
    ASSUME NEW D \in Seq(Pending), NEW r \in Pending
    PROVE  /\ Append(D, r) \in Seq(Pending) /\ Append(D, r) # <<>>
           /\ {Append(D, r)[i].seq : i \in DOMAIN Append(D, r)} = {D[i].seq : i \in DOMAIN D} \cup {r.seq}
           /\ \A i \in DOMAIN Append(D, r) : (i \in DOMAIN D /\ Append(D, r)[i] = D[i]) \/ Append(D, r)[i] = r
           /\ (\A i, j \in DOMAIN D : D[i].seq = D[j].seq => i = j)
              /\ r.seq \notin {D[i].seq : i \in DOMAIN D}
              => \A i, j \in DOMAIN Append(D, r) : Append(D, r)[i].seq = Append(D, r)[j].seq => i = j
<1> DEFINE E == Append(D, r)
           n == Len(D)
<1>1. /\ n \in Nat /\ DOMAIN D = 1 .. n /\ DOMAIN E = 1 .. n + 1 /\ E \in Seq(Pending)
      /\ \A i \in 1 .. n : E[i] = D[i]
      /\ E[n + 1] = r
  OBVIOUS
<1> HIDE DEF E, n
<1>2. E # <<>>
  BY <1>1
<1>3. \A i \in 1 .. n + 1 : i \in 1 .. n \/ i = n + 1
  BY <1>1
<1>4. \A i \in DOMAIN E : (i \in DOMAIN D /\ E[i] = D[i]) \/ (i = n + 1 /\ E[i] = r)
  BY <1>1, <1>3
<1>5. \A i \in 1 .. n : i \in DOMAIN E
  BY <1>1
<1>6. n + 1 \in DOMAIN E
  BY <1>1
<1>7. {E[i].seq : i \in DOMAIN E} = {D[i].seq : i \in DOMAIN D} \cup {r.seq}
  <2>1. \A i \in DOMAIN E : E[i].seq \in {D[j].seq : j \in DOMAIN D} \cup {r.seq}
    BY <1>4
  <2>2. \A j \in DOMAIN D : D[j].seq \in {E[i].seq : i \in DOMAIN E}
    BY <1>1, <1>5
  <2>3. r.seq \in {E[i].seq : i \in DOMAIN E}
    BY <1>1, <1>6
  <2> QED BY <2>1, <2>2, <2>3
<1>8. ASSUME \A i, j \in DOMAIN D : D[i].seq = D[j].seq => i = j,
             r.seq \notin {D[i].seq : i \in DOMAIN D},
             NEW i \in DOMAIN E, NEW j \in DOMAIN E, E[i].seq = E[j].seq
      PROVE  i = j
  BY <1>4, <1>8
<1> QED BY <1>1, <1>2, <1>4, <1>7, <1>8 DEF E

\* PlanRow keeps the invariant.
LEMMA PlanRowInv ==
    ASSUME PagedInv, PlanRow
    PROVE  PagedInv'
<1>0. PICK k, c, s, t :
         /\ k = Need /\ c = Count /\ s = Row /\ t = tables[s]
  OBVIOUS
<1>1. PICK hs, r :
         /\ hs = PickedHandles(pool, k)
         /\ r = [seq |-> s, from |-> t.len, pages |-> Planned(pool, t, c),
                 alloc |-> hs, cow |-> CopiesTail(pool, t, c)]
  OBVIOUS
<1>2. /\ op.stage = "prepare" /\ k <= Available(pool)
      /\ pool' = Reserve(pool, k)
      /\ dev' = Copied(Allocated(dev, hs), t, hs)
      /\ op' = [op EXCEPT !.todo = Tail(@),
                          !.stage = IF Len(op.todo) = 1 THEN "kernel" ELSE @,
                          !.pend = Append(@, r)]
      /\ UNCHANGED <<up, tables, record, cached, slots>> /\ UNCHANGED sessionVars
  BY <1>0, <1>1 DEF PlanRow
<1>3. /\ s \in Sessions /\ s \in DOMAIN tables /\ s \in Elems(op.rows)
      /\ s \in Elems(op.todo) /\ s \notin PendSeqs
      /\ op.in[s] \in Seq(Tokens) /\ op.in[s] # <<>> /\ c \in Nat /\ c >= 1
      /\ Sane(t)
  BY <1>0, <1>2, RowIs
<1>4. /\ r \in Pending /\ r.seq = s /\ r.from = t.len
      /\ r.alloc = hs /\ Distinct(r.alloc)
      /\ r.pages = Own(t, r.cow) \o r.alloc
      /\ Len(r.pages) = DivCeil(t.len + c, PageTokens)
      /\ r.cow => t.len % PageTokens # 0 /\ pool.refs[LastPage(t)] >= 2
                  /\ op.kind = "prefill" /\ 1 \in DOMAIN r.alloc
      /\ ~r.cow /\ t.len % PageTokens # 0 => pool.refs[LastPage(t)] = 1
      /\ r.cow = CopiesTail(pool, t, c)
      /\ k \in Nat
  BY <1>0, <1>1, <1>2, PlannedIs
<1>5. /\ OpTyped(op) /\ OpShape /\ OpStages /\ Appending /\ Pends /\ Tails
      /\ Store(tables, cached, op.pend) /\ Refers(pool, tables, cached, op.pend)
      /\ PoolSound(pool) /\ Mirrors(dev, pool)
  BY DEF PagedInv, OpSound, Counted, Refers
<1> DEFINE D == Append(op.pend, r)
           td == Tail(op.todo)
           st == IF Len(op.todo) = 1 THEN "kernel" ELSE "prepare"
<1>6. op.pend \in Seq(Pending) /\ op.todo \in Seq(Sessions) /\ op.todo # <<>> /\ Injective(op.todo)
  BY <1>2, <1>5 DEF OpTyped, OpStages
<1>7. /\ D \in Seq(Pending) /\ D # <<>>
      /\ {D[i].seq : i \in DOMAIN D} = PendSeqs \cup {s}
      /\ \A i \in DOMAIN D : (i \in DOMAIN op.pend /\ D[i] = op.pend[i]) \/ D[i] = r
      /\ \A i, j \in DOMAIN D : D[i].seq = D[j].seq => i = j
  <2>1. \A i, j \in DOMAIN op.pend : op.pend[i].seq = op.pend[j].seq => i = j
    BY <1>5 DEF OpStages
  <2> QED BY <2>1, <1>3, <1>4, <1>6, AppendSeqs DEF PendSeqs
<1>8. /\ td \in Seq(Sessions) /\ Elems(op.todo) = Elems(td) \cup {s} /\ Injective(td)
      /\ s \notin Elems(td)
      /\ Len(op.todo) = 1 => td = <<>>
      /\ Len(op.todo) # 1 => td # <<>>
  BY <1>0, <1>6, TailSeq DEF Row
<1>9. op' = [kind |-> op.kind, stage |-> st, rows |-> op.rows, in |-> op.in,
             todo |-> td, pend |-> D, err |-> op.err]
  BY <1>2, <1>5 DEF OpTyped
<1>10. /\ st \in {"kernel", "prepare"}
       /\ st = "kernel" => td = <<>>
       /\ st = "prepare" => td # <<>>
  BY <1>8
<1> HIDE DEF D, td, st
<1>11. /\ op'.kind = op.kind /\ op'.stage = st /\ op'.rows = op.rows /\ op'.in = op.in
       /\ op'.todo = td /\ op'.pend = D /\ op'.err = op.err
  BY <1>9
<1>12. /\ Single' = Single /\ This' = This /\ Working /\ Working' /\ PendSeqs' = PendSeqs \cup {s}
  <2>1. Single' = Single /\ This' = This
    BY <1>11 DEF Single, This
  <2>2. Working /\ Working'
    BY <1>2, <1>10, <1>11 DEF Working
  <2>3. PendSeqs' = {D[i].seq : i \in DOMAIN D}
    BY <1>11 DEF PendSeqs
  <2> QED BY <1>7, <2>1, <2>2, <2>3
<1>13. OpTyped(op')
  BY <1>5, <1>7, <1>8, <1>9, <1>10, <1>11 DEF OpTyped, Stages
<1>14. OpShape'
  <2>1. op.stage # "none" /\ op'.stage # "none" /\ Idle.stage = "none"
    BY <1>2, <1>10, <1>11 DEF Idle
  <2>2. op # Idle /\ op' # Idle
    BY <2>1
  <2> QED BY <1>5, <1>11, <1>12, <2>1, <2>2 DEF OpShape
<1>15. OpStages'
  <2>1. Elems(td) \subseteq Elems(op.rows) /\ PendSeqs' \subseteq Elems(op.rows)
    BY <1>3, <1>5, <1>8, <1>12 DEF OpStages
  <2>2. PendSeqs' \cap Elems(td) = {}
    BY <1>2, <1>5, <1>8, <1>12 DEF OpStages
  <2>3. op.kind # "acquire" /\ Elems(op.rows) \subseteq DOMAIN tables'
    BY <1>2, <1>5, <1>12 DEF OpStages
  <2> QED BY <1>7, <1>8, <1>10, <1>11, <2>1, <2>2, <2>3 DEF OpStages
<1>16. UNCHANGED <<tables, lease, phase, toks, done, pos, solo>>
  BY <1>2 DEF sessionVars
<1>17. Appending'
  <2> SUFFICES ASSUME NEW x \in Elems(op.rows) PROVE Appends(x)'
    BY <1>11 DEF Appending
  <2>1. Appends(x)
    BY <1>5 DEF Appending
  <2>2. Elems(op'.todo) \cup PendSeqs' = Elems(op.todo) \cup PendSeqs
    BY <1>8, <1>11, <1>12
  <2>3. Coming(x)' = Coming(x)
    BY <1>11, <2>2 DEF Coming
  <2> QED BY <1>2, <1>10, <1>11, <1>12, <1>16, <2>1, <2>2, <2>3 DEF Appends
<1>18. /\ \A p \in Pages : p \in Indices(hs) => pool.refs[p] = 0
       /\ \A p \in Pages : p \notin Indices(hs) => pool'.refs[p] = pool.refs[p]
  BY <1>1, <1>2, <1>4, <1>5, ReserveIs
<1>19. ASSUME NEW x \in DOMAIN tables, tables[x].len % PageTokens # 0
       PROVE  pool'.refs[LastPage(tables[x])] = pool.refs[LastPage(tables[x])]
  <2>1. LastPage(tables[x]) \in Pages /\ LastPage(tables[x]) \in Indices(tables[x].pages)
    BY <1>19, TableTail, TailPage
  <2>2. pool.refs[LastPage(tables[x])] > 0
    BY <1>5, <2>1, TableFacts
  <2> QED BY <1>18, <2>1, <2>2
<1>20. Pends'
  <2> SUFFICES ASSUME NEW i \in DOMAIN D PROVE PendSound(op.pend[i])'
    BY <1>11 DEF Pends
  <2>1. CASE i \in DOMAIN op.pend /\ D[i] = op.pend[i]
    <3>1. PendSound(op.pend[i])
      BY <1>5, <2>1 DEF Pends
    <3>2. op.pend[i].seq \in DOMAIN tables
      BY <1>5, <1>12, <2>1 DEF OpStages, PendSeqs
    <3> DEFINE u == tables[op.pend[i].seq]
    <3>3. u.len % PageTokens # 0 => pool'.refs[LastPage(u)] = pool.refs[LastPage(u)]
      BY <1>19, <3>2
    <3>4. /\ op'.pend[i] = op.pend[i] /\ op'.in = op.in /\ op'.kind = op.kind
          /\ tables' = tables /\ op.stage # "abort" /\ op'.stage # "abort"
      BY <1>2, <1>10, <1>11, <1>16, <2>1
    <3> QED BY <3>1, <3>3, <3>4, ZenonT(30) DEF PendSound
  <2>2. CASE D[i] = r
    <3>1. t = tables[s] /\ c = Len(op.in[s])
      BY <1>0 DEF Count
    <3>2. t.len % PageTokens # 0 => pool'.refs[LastPage(t)] = pool.refs[LastPage(t)]
      BY <1>3, <1>19, <3>1
    <3>3. /\ op'.pend[i] = r /\ op'.in = op.in /\ op'.kind = op.kind /\ tables' = tables
      BY <1>11, <1>16, <2>2
    <3> QED BY <1>4, <3>1, <3>2, <3>3 DEF PendSound
  <2> QED BY <1>7, <2>1, <2>2
<1>21. Tails'
  <2> SUFFICES ASSUME NEW x \in DOMAIN tables PROVE Owned(pool, tables[x])' \/ Adopting(x)'
    BY <1>16 DEF Tails
  <2>1. Adopting(x) => Adopting(x)'
    BY <1>7, <1>10, <1>11, <1>12 DEF Adopting
  <2>2. Owned(pool, tables[x]) => Owned(pool, tables[x])'
    BY <1>16, <1>19 DEF Owned
  <2> QED BY <1>5, <2>1, <2>2 DEF Tails
<1>22. Counted'
  <2>1. Refers(pool', tables, cached, D)
    BY <1>1, <1>2, <1>4, <1>5, ReserveRefers DEF D
  <2>2. \A i \in DOMAIN D : Distinct(D[i].alloc)
    BY <1>4, <1>5, <1>7 DEF Store
  <2>3. Store(tables, cached, D)
    BY <1>5, <1>7, <2>2 DEF Store
  <2> QED BY <1>2, <1>11, <2>1, <2>3 DEF Counted
<1>23. Mirrors(dev, pool)'
  <2> DEFINE a == Allocated(dev, hs)
  <2>1. Mirrors(a, pool')
    BY <1>1, <1>2, <1>4, <1>5, AllocMirrors
  <2>2. CopiesTail(pool, t, Count) <=> r.cow
    BY <1>0, <1>4
  <2>3. CASE r.cow
    <3>1. dev' = [a EXCEPT ![Index(hs[1])].rows = a[LastPage(t)].rows]
      BY <1>2, <2>2, <2>3 DEF Copied
    <3> HIDE DEF a
    <3>2. LastPage(t) \in Pages
      BY <1>3, <1>4, <2>3, TailPage
    <3>3. a[LastPage(t)].rows \in [0 .. PageTokens - 1 -> Seq(Tokens)]
      BY <2>1, <3>2 DEF Mirrors, DevPages
    <3>4. Index(hs[1]) \in Pages
      BY <1>4, <2>3 DEF Pending, Handles, Index
    <3> QED BY <2>1, <3>1, <3>3, <3>4, RowsMirrors
  <2>4. CASE ~r.cow
    BY <1>2, <2>1, <2>2, <2>4 DEF Copied
  <2> QED BY <2>3, <2>4
<1>24. Typed' /\ Going'
  BY <1>2, <1>16 DEF PagedInv, Typed, Going, Progress
<1>25. Seated'
  BY <1>2, <1>16, SameSeats
<1> QED BY <1>13, <1>14, <1>15, <1>17, <1>20, <1>21, <1>22, <1>23, <1>24, <1>25 DEF PagedInv, OpSound

\* The page of the next row.
LEMMA DivNext ==
    ASSUME NEW q \in Nat, NEW n \in Nat \ {0}
    PROVE  q \div n \in Nat /\ q % n \in 0 .. n - 1 /\ q \div n + 1 = (q + n) \div n
<1>1. q \div n \in Nat
  OBVIOUS
<1>2. q % n \in 0 .. n - 1
  OBVIOUS
<1>3. q \div n + 1 = (q + n) \div n
  OBVIOUS
<1> QED BY <1>1, <1>2, <1>3

\* The row before an append is within the pages of its plan.
LEMMA DivReach ==
    ASSUME NEW f \in Nat \ {0}, NEW x \in Nat \ {0}, NEW n \in Nat \ {0}
    PROVE  (f - 1 + n) \div n <= (f + x + n - 1) \div n
<1>1. f - 1 + n \in Nat /\ f + x + n - 1 \in Nat /\ f - 1 + n <= f + x + n - 1
  OBVIOUS
<1> QED BY <1>1, DivMono

\* What the kernel computes for a row is a sequence of tokens: the row it reads is there.
LEMMA ComputedIs ==
    ASSUME PagedInv, op.stage = "kernel", NEW i \in DOMAIN op.pend, NEW k \in 1 .. MaxPos,
           k <= Len(op.in[op.pend[i].seq])
    PROVE  Computed(op.pend[i], k) \in Seq(Tokens)
<1> DEFINE r == op.pend[i]
           s == r.seq
           x == op.in[s]
<1>1. /\ OpTyped(op) /\ OpStages /\ PendSound(r) /\ Mirrors(dev, pool)
      /\ PageTokens \in Nat \ {0}
  BY PageAssumption DEF PagedInv, OpSound, Pends
<1>2. r \in Pending /\ r.pages \in Seq(Handles) /\ r.from \in Nat /\ s \in Elems(op.rows)
  <2>1. op.pend \in Seq(Pending)
    BY <1>1 DEF OpTyped
  <2>2. r \in Pending
    BY <2>1
  <2>3. s \in PendSeqs
    BY DEF PendSeqs
  <2> QED BY <1>1, <2>2, <2>3 DEF Pending, OpStages
<1>3. s \in DOMAIN tables /\ x \in Seq(Tokens)
  BY <1>1, <1>2 DEF OpStages, Working, OpTyped
<1>4. tables[s].len \in Nat /\ Len(x) \in Nat
  BY <1>3, TableTail, SMTT(30) DEF Sane, Tables
<1>5. r.from = tables[s].len /\ Len(r.pages) = DivCeil(r.from + Len(x), PageTokens)
  BY <1>1 DEF PendSound
<1>6. SubSeq(x, 1, k) \in Seq(Tokens)
  <2>1. k \in Nat /\ k <= Len(x)
    BY SizeAssumption
  <2> HIDE DEF x
  <2> QED BY <1>3, <2>1
<1>7. ASSUME r.from # 0
      PROVE  RowAt(dev, r.pages, r.from - 1) \in Seq(Tokens)
  <2> DEFINE q == r.from - 1
             j == q \div PageTokens + 1
  <2>1. q \in Nat /\ r.from \in Nat \ {0} /\ Len(x) \in Nat \ {0}
    BY <1>2, <1>4, <1>7
  <2>2. /\ q \div PageTokens \in Nat /\ q % PageTokens \in 0 .. PageTokens - 1
        /\ j = (q + PageTokens) \div PageTokens
    <3> HIDE DEF q
    <3> QED BY <1>1, <2>1, DivNext
  <2>3. (r.from - 1 + PageTokens) \div PageTokens
          <= (r.from + Len(x) + PageTokens - 1) \div PageTokens
    <3> HIDE DEF r, x, s
    <3> QED BY <1>1, <2>1, DivReach
  <2>4. j <= Len(r.pages) /\ j \in Nat /\ j >= 1 /\ Len(r.pages) \in Nat
    <3>1. j <= Len(r.pages)
      BY <1>5, <2>2, <2>3 DEF DivCeil
    <3>2. j \in Nat /\ j >= 1
      BY <2>2
    <3>3. Len(r.pages) \in Nat
      BY <1>2
    <3> QED BY <3>1, <3>2, <3>3
  <2>5. j \in 1 .. Len(r.pages)
    <3> HIDE DEF q, j, r
    <3> QED BY <2>4
  <2> HIDE DEF q, j, r
  <2>6. Index(r.pages[j]) \in Pages
    BY <1>2, <2>5 DEF Handles, Index
  <2>7. dev[Index(r.pages[j])].rows \in [0 .. PageTokens - 1 -> Seq(Tokens)]
    BY <1>1, <2>6 DEF Mirrors, DevPages
  <2>8. dev[Index(r.pages[j])].rows[q % PageTokens] \in Seq(Tokens)
    BY <2>2, <2>7
  <2> QED BY <2>8 DEF RowAt, q, j
<1>8. (IF r.from = 0 THEN <<>> ELSE RowAt(dev, r.pages, r.from - 1)) \in Seq(Tokens)
  <2> HIDE DEF r
  <2> QED BY <1>7
<1> QED BY <1>6, <1>8 DEF Computed

\* Forward keeps the invariant.
LEMMA ForwardInv ==
    ASSUME PagedInv, Forward
    PROVE  PagedInv'
<1>1. /\ op.stage = "kernel" /\ op' = [op EXCEPT !.stage = "commit"]
      /\ UNCHANGED <<up, pool, tables, record, cached, slots>> /\ UNCHANGED sessionVars
      /\ dev' = [p \in Pages |-> [dev[p] EXCEPT !.rows =
                 [o \in 0 .. PageTokens - 1 |->
                    IF Writers(p, o) = {} THEN dev[p].rows[o]
                    ELSE LET w == CHOOSE w \in Writers(p, o) : TRUE
                         IN  Computed(w[1], w[2])]]]
  BY DEF Forward
<1>2. /\ op.kind # "idle" /\ op' # Idle /\ OpTyped(op') /\ OpShape'
      /\ op'.stage = "commit" /\ op'.kind = op.kind /\ op'.rows = op.rows /\ op'.in = op.in
      /\ op'.todo = op.todo /\ op'.pend = op.pend /\ op'.err = op.err
      /\ Single' = Single /\ This' = This /\ PendSeqs' = PendSeqs
  BY <1>1, Advances DEF Stages
<1>3. /\ OpStages /\ Appending /\ Pends /\ Tails /\ Mirrors(dev, pool) /\ OpTyped(op)
      /\ Store(tables, cached, op.pend) /\ Refers(pool, tables, cached, op.pend)
  BY DEF PagedInv, OpSound, Counted
<1>4. Working /\ Working' /\ op.pend # <<>> /\ op.todo = <<>>
  BY <1>1, <1>2, <1>3 DEF Working, OpStages
<1>5. UNCHANGED <<lease, phase, toks, done, pos, solo>>
  BY <1>1 DEF sessionVars
<1>6. OpStages'
  BY <1>1, <1>2, <1>3, <1>4 DEF OpStages
<1>7. Appending'
  <2> SUFFICES ASSUME NEW x \in Elems(op.rows) PROVE Appends(x)'
    BY <1>2 DEF Appending
  <2>1. Appends(x)
    BY <1>3 DEF Appending
  <2>2. Coming(x)' = Coming(x)
    BY <1>2 DEF Coming
  <2> QED BY <1>1, <1>2, <1>4, <1>5, <2>1, <2>2 DEF Appends
<1>8. Pends'
  <2> SUFFICES ASSUME NEW i \in DOMAIN op.pend PROVE PendSound(op.pend[i])'
    BY <1>2 DEF Pends
  <2>1. PendSound(op.pend[i])
    BY <1>3 DEF Pends
  <2> QED BY <1>1, <1>2, <2>1, ZenonT(30) DEF PendSound
<1>9. Tails'
  <2>1. \A s \in DOMAIN tables : Adopting(s) => Adopting(s)'
    BY <1>2, <1>4 DEF Adopting
  <2> QED BY <1>1, <2>1, SameTails
<1>10. Mirrors(dev, pool)'
  <2>1. /\ dev \in DevPages
        /\ \A p \in Pages : dev[p].gen = IF pool.refs[p] > 0 THEN pool.gen[p] ELSE 0
    BY <1>3 DEF Mirrors
  <2> DEFINE R(p) == [o \in 0 .. PageTokens - 1 |->
                        IF Writers(p, o) = {} THEN dev[p].rows[o]
                        ELSE LET w == CHOOSE w \in Writers(p, o) : TRUE
                             IN  Computed(w[1], w[2])]
  <2>2. ASSUME NEW p \in Pages
        PROVE  R(p) \in [0 .. PageTokens - 1 -> Seq(Tokens)]
    <3> SUFFICES ASSUME NEW o \in 0 .. PageTokens - 1
                 PROVE  (IF Writers(p, o) = {} THEN dev[p].rows[o]
                         ELSE LET w == CHOOSE w \in Writers(p, o) : TRUE
                              IN  Computed(w[1], w[2])) \in Seq(Tokens)
      OBVIOUS
    <3>1. CASE Writers(p, o) = {}
      BY <2>1, <3>1 DEF DevPages
    <3>2. CASE Writers(p, o) # {}
      <4> DEFINE w == CHOOSE w \in Writers(p, o) : TRUE
      <4>1. w \in Writers(p, o)
        BY <3>2
      <4> HIDE DEF w
      <4>2. /\ w \in Elems(op.pend) \X (1 .. MaxPos)
            /\ w[2] <= Len(op.in[w[1].seq])
        BY <4>1 DEF Writers
      <4>3. w[1] \in Elems(op.pend) /\ w[2] \in 1 .. MaxPos
        BY <4>2
      <4>4. PICK i \in DOMAIN op.pend : w[1] = op.pend[i]
        BY <4>3 DEF Elems
      <4>5. Computed(w[1], w[2]) \in Seq(Tokens)
        BY <1>1, <4>2, <4>3, <4>4, ComputedIs
      <4> QED BY <3>2, <4>5 DEF w
    <3> QED BY <3>1, <3>2
  <2>3. dev' = [p \in Pages |-> [dev[p] EXCEPT !.rows = R(p)]]
    BY <1>1
  <2> HIDE DEF R
  <2>4. \A p \in Pages : dev[p] = [gen |-> dev[p].gen, rows |-> dev[p].rows] /\ dev[p].gen \in Nat
    BY <2>1 DEF DevPages
  <2>5. \A p \in Pages : dev'[p] = [gen |-> dev[p].gen, rows |-> R(p)]
    <3> SUFFICES ASSUME NEW p \in Pages
                 PROVE  dev'[p] = [gen |-> dev[p].gen, rows |-> R(p)]
      OBVIOUS
    <3>1. dev'[p] = [dev[p] EXCEPT !.rows = R(p)]
      BY <2>3
    <3> DEFINE e == dev[p]
    <3>2. dev'[p] = [e EXCEPT !.rows = R(p)] /\ e = [gen |-> e.gen, rows |-> e.rows]
      BY <2>4, <3>1
    <3> HIDE DEF e
    <3>3. dev'[p] = [gen |-> e.gen, rows |-> R(p)]
      BY <3>2
    <3> QED BY <3>3 DEF e
  <2>6. dev' \in DevPages
    BY <2>2, <2>3, <2>4, <2>5 DEF DevPages
  <2> QED BY <1>1, <2>1, <2>5, <2>6 DEF Mirrors
<1>11. Counted'
  BY <1>1, <1>2, <1>3 DEF Counted
<1>12. Typed' /\ Going'
  BY <1>1, <1>5 DEF PagedInv, Typed, Going, Progress
<1>13. Seated'
  BY <1>1, <1>5, SameSeats
<1> QED BY <1>2, <1>6, <1>7, <1>8, <1>9, <1>10, <1>11, <1>12, <1>13 DEF PagedInv, OpSound

\* An append to full pages needs one more.
LEMMA DivOver ==
    ASSUME NEW a \in Nat, NEW c \in Nat \ {0}, NEW n \in Nat \ {0}, a % n = 0
    PROVE  (a + n - 1) \div n < (a + c + n - 1) \div n
<1>1. (a + n - 1) \div n < (a + n) \div n
  OBVIOUS
<1>2. (a + n) \div n <= (a + c + n - 1) \div n
  OBVIOUS
<1>3. (a + n - 1) \div n \in Nat /\ (a + n) \div n \in Nat /\ (a + c + n - 1) \div n \in Nat
  OBVIOUS
<1> QED BY <1>1, <1>2, <1>3

\* What is committed next, as it was planned; validate_append accepts it.
LEMMA CommitFacts ==
    ASSUME PagedInv, op.stage = "commit", op.pend # <<>>, NEW r, r = Head(op.pend)
    PROVE  /\ r = op.pend[1] /\ 1 \in DOMAIN op.pend /\ PendSound(r) /\ CommitValid(r)
           /\ r \in Pending /\ r.seq \in DOMAIN tables /\ r.seq \in Elems(op.rows)
           /\ r.seq \in PendSeqs /\ Sane(tables[r.seq])
           /\ op.in[r.seq] \in Seq(Tokens) /\ Len(op.in[r.seq]) \in Nat \ {0}
           /\ r.from + Len(op.in[r.seq]) \in Nat /\ r.from \in Nat
           /\ CopySource(r) = Source(tables[r.seq], r.cow)
           /\ r.cow => tables[r.seq].pages # <<>> /\ pool.refs[LastPage(tables[r.seq])] >= 2
           /\ r.cow => op.kind = "prefill" /\ Elems(op.rows) = {r.seq}
<1>1. /\ OpTyped(op) /\ OpStages /\ Pends /\ Appending /\ Working
      /\ Store(tables, cached, op.pend) /\ Refers(pool, tables, cached, op.pend)
  BY DEF PagedInv, OpSound, Counted, Working
<1>2. r = op.pend[1] /\ 1 \in DOMAIN op.pend /\ r \in Pending
  <2>1. op.pend \in Seq(Pending)
    BY <1>1 DEF OpTyped
  <2>2. Len(op.pend) \in Nat /\ Len(op.pend) # 0 /\ DOMAIN op.pend = 1 .. Len(op.pend)
    BY <2>1, EmptySeq
  <2>3. Head(op.pend) = op.pend[1]
    BY <2>1
  <2> QED BY <2>1, <2>2, <2>3
<1>3. PendSound(r)
  BY <1>1, <1>2 DEF Pends
<1>4. r.seq \in PendSeqs
  BY <1>2 DEF PendSeqs
<1>5. r.seq \in Elems(op.rows) /\ r.seq \in DOMAIN tables
  BY <1>1, <1>4 DEF OpStages
<1>6. Sane(tables[r.seq])
  BY <1>5, TableTail
<1>7. op.in[r.seq] \in Seq(Tokens) /\ op.in[r.seq] # <<>>
  BY <1>1, <1>4, <1>5 DEF OpTyped, Appending, Appends
<1>8. Len(op.in[r.seq]) \in Nat \ {0}
  BY <1>7, EmptySeq
<1>9. r.from \in Nat
  BY <1>2, SMTT(60) DEF Pending
<1>10. r.cow => tables[r.seq].pages # <<>> /\ pool.refs[LastPage(tables[r.seq])] >= 2
  BY <1>3, <1>6, TailPage, SMTT(30) DEF PendSound
<1>11. CommitValid(r)
  <2>1. AllLive(pool, r.alloc)
    BY <1>1, <1>2 DEF Refers
  <2> QED BY <1>3, <1>10, <2>1 DEF CommitValid, PendSound, AllLive
<1>12. r.cow => op.kind = "prefill" /\ Elems(op.rows) = {r.seq}
  <2>1. r.cow => op.kind = "prefill" /\ Single
    BY <1>3 DEF PendSound, Single
  <2>2. r.cow => Elems(op.rows) = {This}
    BY <2>1, ThisIs
  <2> QED BY <1>5, <2>1, <2>2, SMTT(30)
<1>13. CopySource(r) = Source(tables[r.seq], r.cow)
  BY DEF CopySource, Source
<1> QED BY <1>2, <1>3, <1>4, <1>5, <1>6, <1>7, <1>8, <1>9, <1>10, <1>11, <1>12, <1>13, SMTT(30)

SeqsOf(D) == {D[i].seq : i \in DOMAIN D}

\* What is left to commit once the first append is.
LEMMA TailPends ==
    ASSUME PagedInv, op.stage = "commit", op.pend # <<>>, NEW D, D = Tail(op.pend)
    PROVE  /\ D \in Seq(Pending)
           /\ \A i \in DOMAIN D : i + 1 \in DOMAIN op.pend /\ D[i] = op.pend[i + 1]
           /\ \A i \in DOMAIN D : D[i].seq # Head(op.pend).seq
           /\ SeqsOf(D) = PendSeqs \ {Head(op.pend).seq}
           /\ \A i, j \in DOMAIN D : D[i].seq = D[j].seq => i = j
<1>1. /\ op.pend \in Seq(Pending)
      /\ \A i, j \in DOMAIN op.pend : op.pend[i].seq = op.pend[j].seq => i = j
  BY DEF PagedInv, OpSound, OpTyped, OpStages
<1> DEFINE n == Len(op.pend)
<1>2. n \in Nat /\ n # 0 /\ DOMAIN op.pend = 1 .. n
  BY <1>1, EmptySeq
<1>3. D \in Seq(Pending) /\ DOMAIN D = 1 .. n - 1 /\ \A i \in 1 .. n - 1 : D[i] = op.pend[i + 1]
  BY <1>1, <1>2
<1>4. Head(op.pend) = op.pend[1] /\ 1 \in DOMAIN op.pend
  BY <1>1, <1>2
<1> HIDE DEF n
<1>5. \A i \in DOMAIN D : i + 1 \in DOMAIN op.pend /\ D[i] = op.pend[i + 1] /\ i + 1 # 1 /\ i \in Nat
  BY <1>2, <1>3
<1>6. \A i \in DOMAIN D : D[i].seq # Head(op.pend).seq
  BY <1>1, <1>4, <1>5
<1>7. \A j \in DOMAIN op.pend : j = 1 \/ (j - 1 \in DOMAIN D /\ D[j - 1] = op.pend[j])
  <2> SUFFICES ASSUME NEW j \in DOMAIN op.pend, j # 1
               PROVE  j - 1 \in DOMAIN D /\ D[j - 1] = op.pend[j]
    OBVIOUS
  <2>1. j - 1 \in 1 .. n - 1 /\ (j - 1) + 1 = j
    BY <1>2
  <2> QED BY <1>3, <2>1
<1>8. SeqsOf(D) = PendSeqs \ {Head(op.pend).seq}
  <2>1. \A i \in DOMAIN D : D[i].seq \in PendSeqs
    BY <1>5 DEF PendSeqs
  <2>2. \A j \in DOMAIN op.pend : op.pend[j].seq # Head(op.pend).seq =>
            op.pend[j].seq \in {D[i].seq : i \in DOMAIN D}
    BY <1>4, <1>7
  <2> QED BY <1>6, <2>1, <2>2 DEF PendSeqs, SeqsOf
<1>9. \A i, j \in DOMAIN D : D[i].seq = D[j].seq => i = j
  <2> SUFFICES ASSUME NEW i \in DOMAIN D, NEW j \in DOMAIN D, D[i].seq = D[j].seq PROVE i = j
    OBVIOUS
  <2>1. i + 1 = j + 1
    BY <1>1, <1>5
  <2> QED BY <1>5, <2>1
<1> QED BY <1>3, <1>5, <1>6, <1>8, <1>9
\* The pool and the tables after a commit.
LEMMA CommitPool ==
    ASSUME PagedInv, op.stage = "commit", op.pend # <<>>, NEW r, r = Head(op.pend),
           NEW m, m = r.from + Len(op.in[r.seq]),
           NEW V, V = [tables EXCEPT ![r.seq] = [pages |-> r.pages, len |-> m]],
           NEW z, z = Release(pool, Source(tables[r.seq], r.cow))
    PROVE  /\ Store(V, cached, Tail(op.pend))
           /\ Refers(z, V, cached, Tail(op.pend))
           /\ z.gen = pool.gen
           /\ \A p \in Pages : (pool.refs[p] > 0 <=> z.refs[p] > 0)
           /\ \A p \in Pages : (~r.cow \/ p # LastPage(tables[r.seq])) => z.refs[p] = pool.refs[p]
<1>1. Store(tables, cached, op.pend) /\ Refers(pool, tables, cached, op.pend)
  BY SMTT(30) DEF PagedInv, Counted
<1>2. /\ r = op.pend[1] /\ r.seq \in DOMAIN tables /\ PendSound(r) /\ m \in Nat
      /\ r.cow => tables[r.seq].pages # <<>> /\ pool.refs[LastPage(tables[r.seq])] >= 2
  BY CommitFacts
<1>3. /\ r.pages = Own(tables[r.seq], r.cow) \o r.alloc
      /\ Len(r.pages) = DivCeil(m, PageTokens)
  BY <1>2, ZenonT(30) DEF PendSound
<1>4. Store(V, cached, Tail(op.pend)) /\ Refers(z, V, cached, Tail(op.pend))
  BY <1>1, <1>2, <1>3, CommitRefers, ZenonT(60)
<1> DEFINE t == tables[r.seq]
           src == Source(t, r.cow)
<1>5. /\ Sane(t) /\ t.pages \in Seq(Handles) /\ Distinct(t.pages) /\ r.cow \in BOOLEAN
      /\ r.cow => t.pages # <<>>
  <2>1. /\ r \in Pending /\ Sane(tables[r.seq])
        /\ r.cow => tables[r.seq].pages # <<>>
    BY CommitFacts
  <2>2. r.cow \in BOOLEAN
    BY <2>1, SMTT(30) DEF Pending
  <2>3. t.pages \in Seq(Handles) /\ Distinct(t.pages)
    BY <2>1, SMTT(30) DEF Sane, Tables
  <2> QED BY <2>1, <2>2, <2>3, SMTT(30)
<1>6. /\ src \in Seq(Handles) /\ Distinct(src)
      /\ \A p : p \in Indices(src) <=> r.cow /\ p = LastPage(t)
  BY <1>5, OwnIs
<1>7. PoolSound(pool) /\ pool.refs \in [Pages -> Nat]
  BY <1>1, RefFacts DEF Refers
<1>8. \A p \in Indices(src) : p \in Pages /\ pool.refs[p] >= 2 /\ pool.refs[p] > 0
  <2> SUFFICES ASSUME NEW p \in Indices(src)
               PROVE  p \in Pages /\ pool.refs[p] >= 2 /\ pool.refs[p] > 0
    OBVIOUS
  <2>1. r.cow /\ p = LastPage(t)
    BY <1>6
  <2>2. t.len % PageTokens # 0
    BY <1>2, <2>1, ZenonT(30) DEF PendSound
  <2>3. LastPage(t) \in Pages
    BY <1>5, <2>2, TailPage
  <2>4. pool.refs[p] >= 2 /\ p \in Pages
    BY <1>2, <2>1, <2>3
  <2>5. pool.refs[p] \in Nat
    BY <1>7, <2>4
  <2> QED BY <2>4, <2>5
<1> HIDE DEF t, src
<1>9. z = Release(pool, src)
  BY SMTT(60) DEF t, src
<1>10. /\ z.gen = pool.gen
       /\ \A p \in Pages : p \in Indices(src) => z.refs[p] = pool.refs[p] - 1
       /\ \A p \in Pages : p \notin Indices(src) => z.refs[p] = pool.refs[p]
  <2>1. /\ src \in Seq(Handles) /\ Distinct(src) /\ PoolSound(pool)
        /\ \A p \in Indices(src) : pool.refs[p] > 0
    BY <1>6, <1>7, <1>8 DEF t, src
  <2>2. PICK hs : hs = src
    OBVIOUS
  <2>3. /\ hs \in Seq(Handles) /\ Distinct(hs) /\ PoolSound(pool)
        /\ \A p \in Indices(hs) : pool.refs[p] > 0
    BY <2>1, <2>2
  <2>4. /\ Release(pool, hs).gen = pool.gen
        /\ \A p \in Pages : p \in Indices(hs) =>
              Release(pool, hs).refs[p] = pool.refs[p] - 1
        /\ \A p \in Pages : p \notin Indices(hs) =>
              Release(pool, hs).refs[p] = pool.refs[p]
    BY <2>3, ReleaseIs, SMTT(30)
  <2>5. Release(pool, hs) = z
    BY <1>9, <2>2
  <2>6. /\ z.gen = pool.gen
        /\ \A p \in Pages : p \in Indices(hs) => z.refs[p] = pool.refs[p] - 1
        /\ \A p \in Pages : p \notin Indices(hs) => z.refs[p] = pool.refs[p]
    BY <2>4, <2>5, ZenonT(30)
  <2> QED BY <2>2, <2>6, ZenonT(30)
<1>11. ASSUME NEW p \in Pages
       PROVE  /\ pool.refs[p] > 0 <=> z.refs[p] > 0
              /\ (~r.cow \/ p # LastPage(t)) => z.refs[p] = pool.refs[p]
  <2>1. CASE p \in Indices(src)
    <3>1. /\ z.refs[p] = pool.refs[p] - 1 /\ pool.refs[p] >= 2 /\ pool.refs[p] \in Nat
          /\ r.cow /\ p = LastPage(t)
      BY <1>6, <1>7, <1>8, <1>10, <2>1, ZenonT(30)
    <3>2. PICK v : v = pool.refs[p]
      BY SMTT(30)
    <3>3. PICK w : w = z.refs[p]
      BY SMTT(30)
    <3>4. v \in Nat /\ v >= 2 /\ w = v - 1
      BY <3>1, <3>2, <3>3
    <3>5. v > 0 /\ w > 0
      BY <3>4
    <3> QED BY <3>1, <3>2, <3>3, <3>5
  <2>2. CASE p \notin Indices(src)
    BY <1>6, <1>10, <2>2, ZenonT(30)
  <2> QED BY <2>1, <2>2, SMTT(30)
<1> QED BY <1>4, <1>10, <1>11, ZenonT(30) DEF t

\* A page reserved for an append is in nothing else.
LEMMA ReservedAlone ==
    ASSUME PagedInv, NEW i \in DOMAIN op.pend, NEW p \in Indices(op.pend[i].alloc)
    PROVE  /\ p \in Pages /\ pool.refs[p] = 1
           /\ \A s \in DOMAIN tables : p \notin Indices(tables[s].pages)
           /\ \A c \in cached : p \notin Indices(c.table.pages)
           /\ \A j \in DOMAIN op.pend : p \in Indices(op.pend[j].alloc) => i = j
<1>1. Store(tables, cached, op.pend) /\ Refers(pool, tables, cached, op.pend)
  BY DEF PagedInv, Counted
<1>5. p \in Pages /\ pool.refs[p] = 1
  BY <1>1, AllocFacts
<1>2. \A s \in DOMAIN tables : p \notin Indices(tables[s].pages)
  BY <1>1, AllocFacts
<1>3. \A c \in cached : p \notin Indices(c.table.pages)
  BY <1>1, AllocFacts
<1>4. \A j \in DOMAIN op.pend : p \in Indices(op.pend[j].alloc) => i = j
  <2> SUFFICES ASSUME NEW j \in DOMAIN op.pend, p \in Indices(op.pend[j].alloc) PROVE i = j
    OBVIOUS
  <2>1. PICK D : D = op.pend
    OBVIOUS
  <2>2. Store(tables, cached, D) /\ Refers(pool, tables, cached, D) /\ i \in DOMAIN D /\ j \in DOMAIN D
        /\ p \in Indices(D[i].alloc) /\ p \in Indices(D[j].alloc)
    BY <1>1, <2>1
  <2>3. \A k \in DOMAIN D : p \in Indices(D[k].alloc) => i = k
    BY <2>2, AllocFacts, SMTT(30)
  <2> QED BY <2>2, <2>3
<1> QED BY <1>2, <1>3, <1>4, <1>5

\* The last page after a commit is a page of the reservation, or the page the table
\* had alone.
LEMMA CommitTail ==
    ASSUME PagedInv, op.stage = "commit", op.pend # <<>>, NEW r, r = Head(op.pend),
           NEW m, m = r.from + Len(op.in[r.seq]), m % PageTokens # 0,
           NEW u, u = [pages |-> r.pages, len |-> m], Sane(u)
    PROVE  /\ pool.refs[LastPage(u)] = 1 /\ LastPage(u) \in Pages
           /\ r.cow => LastPage(u) # LastPage(tables[r.seq])
<1> DEFINE t == tables[r.seq]
           c == Len(op.in[r.seq])
<1>1. /\ r = op.pend[1] /\ 1 \in DOMAIN op.pend /\ PendSound(r)
      /\ r \in Pending /\ r.seq \in DOMAIN tables /\ Sane(t)
      /\ c \in Nat \ {0} /\ r.from \in Nat /\ m \in Nat
      /\ r.cow => t.pages # <<>>
  BY CommitFacts
<1>2. /\ r.from = t.len /\ r.pages = Own(t, r.cow) \o r.alloc
      /\ Len(r.pages) = DivCeil(m, PageTokens)
      /\ r.cow => t.len % PageTokens # 0
      /\ ~r.cow /\ t.len % PageTokens # 0 => pool.refs[LastPage(t)] = 1
  BY <1>1, ZenonT(30) DEF PendSound
<1>3. Store(tables, cached, op.pend) /\ Refers(pool, tables, cached, op.pend)
  BY SMTT(30) DEF PagedInv, Counted
<1>4. t.pages \in Seq(Handles) /\ r.alloc \in Seq(Handles) /\ r.pages \in Seq(Handles)
      /\ r.cow \in BOOLEAN /\ Len(t.pages) = DivCeil(t.len, PageTokens) /\ t.len \in Nat
      /\ Distinct(t.pages)
  BY <1>1 DEF Pending, Sane, Tables, Fits
<1>5. LastPage(u) = Index(r.pages[Len(r.pages)])
  BY SMTT(30) DEF LastPage
<1>6. Own(t, r.cow) \in Seq(Handles) /\ Len(Own(t, r.cow)) = Len(t.pages) - Of(r.cow)
  BY <1>1, <1>4, OwnIs
<1>7. PageTokens \in Nat \ {0}
  BY PageAssumption
<1>8. LastPage(u) \in Pages
  BY TailPage, SMTT(30)
<1>9. CASE r.alloc # <<>>
  <2>1. Len(r.alloc) \in Nat /\ Len(r.alloc) # 0 /\ Len(r.alloc) \in DOMAIN r.alloc
    <3>1. PICK a : a = r.alloc
      BY SMTT(30)
    <3>2. a \in Seq(Handles) /\ a # <<>>
      BY <1>4, <1>9, <3>1
    <3>3. Len(a) \in Nat /\ Len(a) # 0 /\ Len(a) \in DOMAIN a
      BY <3>2, EmptySeq, SMTT(30)
    <3> QED BY <3>1, <3>3
  <2>2. r.pages[Len(r.pages)] = r.alloc[Len(r.alloc)]
    <3> DEFINE a == Own(t, r.cow)
               b == r.alloc
    <3>1. a \in Seq(Handles) /\ b \in Seq(Handles) /\ Len(b) # 0
      BY <1>4, <1>6, <2>1
    <3> HIDE DEF a, b
    <3>2. (a \o b)[Len(a \o b)] = b[Len(b)]
      BY <3>1, SMTT(30)
    <3> QED BY <1>2, <3>2, ZenonT(30) DEF a, b
  <2>3. LastPage(u) \in Indices(r.alloc)
    <3>1. PICK a : a = r.alloc
      OBVIOUS
    <3>2. PICK k : k = Len(a)
      BY SMTT(30)
    <3>3. k \in DOMAIN a /\ Index(a[k]) = LastPage(u)
      BY <1>5, <2>1, <2>2, <3>1, <3>2, SMTT(30)
    <3>4. LastPage(u) \in Indices(a)
      BY <3>3, IndicesIs, SMTT(30)
    <3> QED BY <3>1, <3>4
  <2>4. pool.refs[LastPage(u)] = 1 /\ LastPage(u) \notin Indices(t.pages)
    <3>1. PICK i \in DOMAIN op.pend : LastPage(u) \in Indices(op.pend[i].alloc)
      BY <1>1, <2>3
    <3>2. PICK p \in Indices(op.pend[i].alloc) : p = LastPage(u)
      BY <3>1
    <3>3. pool.refs[p] = 1 /\ \A s \in DOMAIN tables : p \notin Indices(tables[s].pages)
      BY ReservedAlone, ZenonT(30)
    <3> QED BY <1>1, <3>2, <3>3, SMTT(30)
  <2>5. r.cow => LastPage(t) \in Indices(t.pages)
    BY <1>1, <1>2, TailPage, ZenonT(30)
  <2> QED BY <1>8, <2>4, <2>5
<1>10. CASE r.alloc = <<>>
  <2>1. r.pages = Own(t, r.cow)
    <3> DEFINE a == Own(t, r.cow)
    <3>1. a \in Seq(Handles)
      BY <1>6
    <3> HIDE DEF a
    <3>2. a \o <<>> = a
      BY <3>1
    <3> QED BY <1>2, <1>10, <3>2, ZenonT(30) DEF a
  <2>2. DivCeil(m, PageTokens) = DivCeil(t.len, PageTokens) - Of(r.cow)
    BY <1>2, <1>4, <1>6, <2>1, ZenonT(30)
  <2>3. m = t.len + c
    BY <1>2, ZenonT(30)
  <2> DEFINE x == (t.len + PageTokens - 1) \div PageTokens
             y == (m + PageTokens - 1) \div PageTokens
  <2>4. x \in Nat /\ y \in Nat /\ x <= y
    <3> DEFINE a == t.len + PageTokens - 1
               b == m + PageTokens - 1
    <3>1. a \in Nat /\ b \in Nat /\ a <= b
      <4> DEFINE w == t.len
      <4>1. w \in Nat /\ c \in Nat /\ m = w + c /\ PageTokens \in Nat \ {0}
        BY <1>1, <1>4, <1>7, <2>3, ZenonT(30)
      <4> HIDE DEF w, c
      <4>2. w + PageTokens - 1 \in Nat /\ m + PageTokens - 1 \in Nat
            /\ w + PageTokens - 1 <= m + PageTokens - 1
        BY <4>1
      <4> QED BY <4>2, SMTT(60) DEF w
    <3> HIDE DEF a, b
    <3>2. a \div PageTokens \in Nat /\ b \div PageTokens \in Nat
          /\ a \div PageTokens <= b \div PageTokens
      BY <1>7, <3>1, DivMono, SMTT(30)
    <3> QED BY <3>2, ZenonT(30) DEF a, b
  <2>5. y = x - Of(r.cow)
    BY <2>2 DEF DivCeil
  <2> HIDE DEF x, y
  <2>6. ~r.cow /\ y = x
    BY <2>4, <2>5 DEF Of
  <2>7. t.len % PageTokens # 0
    <3> SUFFICES ASSUME t.len % PageTokens = 0 PROVE FALSE
      OBVIOUS
    <3> DEFINE a == t.len
    <3> HIDE DEF a, c
    <3>1. (a + PageTokens - 1) \div PageTokens < (a + c + PageTokens - 1) \div PageTokens
      BY <1>1, <1>4, <1>7, DivOver, ZenonT(30) DEF a
    <3>2. x < y
      BY <2>3, <3>1, ZenonT(30) DEF x, y, a
    <3> QED BY <2>4, <2>6, <3>2
  <2>8. r.pages = t.pages
    BY <2>1, <2>6, SMTT(30) DEF Own
  <2>9. LastPage(u) = LastPage(t)
    BY <1>5, <2>8 DEF LastPage
  <2> QED BY <1>2, <1>8, <2>6, <2>7, <2>9, ZenonT(30)
<1> QED BY <1>9, <1>10, SMTT(30)

\* The first pending append, and the table it will leave.
First == Head(op.pend)
AfterCommit == [pages |-> First.pages, len |-> First.from + Len(op.in[First.seq])]

\* CommitTail about the table a commit leaves.
LEMMA CommitTailFirst ==
    ASSUME PagedInv, op.stage = "commit", op.pend # <<>>,
           Sane(AfterCommit), AfterCommit.len % PageTokens # 0
    PROVE  /\ pool.refs[LastPage(AfterCommit)] = 1 /\ LastPage(AfterCommit) \in Pages
           /\ First.cow => LastPage(AfterCommit) # LastPage(tables[First.seq])
<1>1. PICK r : r = Head(op.pend)
  OBVIOUS
<1>2. PICK m : m = r.from + Len(op.in[r.seq])
  OBVIOUS
<1>3. PICK u : u = [pages |-> r.pages, len |-> m]
  OBVIOUS
<1>4. r = First /\ u = AfterCommit
  BY <1>1, <1>2, <1>3 DEF First, AfterCommit
<1>5. Sane(u) /\ m % PageTokens # 0
  BY <1>3, <1>4
<1>6. /\ pool.refs[LastPage(u)] = 1 /\ LastPage(u) \in Pages
      /\ r.cow => LastPage(u) # LastPage(tables[r.seq])
  BY <1>1, <1>2, <1>3, <1>5, CommitTail, ZenonT(60)
<1> QED BY <1>4, <1>6

\* CommitRow keeps the invariant, and its refusal (the Teardown branch) would too.
LEMMA CommitRowInv ==
    ASSUME PagedInv, CommitRow
    PROVE  PagedInv'
<1> DEFINE r == Head(op.pend)
<1>1. op.stage = "commit" /\ op.pend # <<>>
  BY DEF CommitRow
<1>2. CASE Teardown
  BY <1>2, TeardownInv
<1>3. CASE /\ pool' = Release(pool, CopySource(r))
           /\ tables' = [tables EXCEPT ![r.seq] =
                            [pages |-> r.pages, len |-> r.from + Len(op.in[r.seq])]]
           /\ op' = [op EXCEPT !.pend = Tail(@)]
           /\ UNCHANGED <<up, dev, record, cached, slots, sessionVars>>
  <2>0. PICK b : b = r
    OBVIOUS
  <2>1. PICK D : D = Tail(op.pend)
    OBVIOUS
  <2>2. PICK s : s = b.seq
    OBVIOUS
  <2>3. PICK m : m = b.from + Len(op.in[s])
    OBVIOUS
  <2>4. /\ b = op.pend[1] /\ 1 \in DOMAIN op.pend /\ PendSound(b)
        /\ b \in Pending /\ s \in DOMAIN tables /\ s \in Elems(op.rows)
        /\ s \in PendSeqs /\ Sane(tables[s])
        /\ op.in[s] \in Seq(Tokens) /\ Len(op.in[s]) \in Nat \ {0}
        /\ m \in Nat /\ b.from \in Nat
        /\ CopySource(b) = Source(tables[s], b.cow)
        /\ b.cow => tables[s].pages # <<>> /\ pool.refs[LastPage(tables[s])] >= 2
        /\ b.cow => op.kind = "prefill" /\ Elems(op.rows) = {s}
    BY <1>1, <2>0, <2>2, <2>3, CommitFacts
  <2>5. /\ D \in Seq(Pending)
        /\ \A i \in DOMAIN D : i + 1 \in DOMAIN op.pend /\ D[i] = op.pend[i + 1]
        /\ \A i \in DOMAIN D : D[i].seq # s
        /\ SeqsOf(D) = PendSeqs \ {s}
        /\ \A i, j \in DOMAIN D : D[i].seq = D[j].seq => i = j
    <3>1. s = Head(op.pend).seq
      BY <2>0, <2>2
    <3>2. /\ D \in Seq(Pending)
          /\ \A i \in DOMAIN D : i + 1 \in DOMAIN op.pend /\ D[i] = op.pend[i + 1]
          /\ \A i \in DOMAIN D : D[i].seq # Head(op.pend).seq
          /\ SeqsOf(D) = PendSeqs \ {Head(op.pend).seq}
          /\ \A i, j \in DOMAIN D : D[i].seq = D[j].seq => i = j
      BY <1>1, <2>1, TailPends
    <3> QED BY <3>1, <3>2
  <2>6. /\ pool' = Release(pool, Source(tables[s], b.cow))
        /\ tables' = [tables EXCEPT ![s] = [pages |-> b.pages, len |-> m]]
        /\ op' = [op EXCEPT !.pend = D]
        /\ UNCHANGED <<up, dev, record, cached, slots>> /\ UNCHANGED sessionVars
    BY <1>3, <2>0, <2>1, <2>2, <2>3, <2>4
  <2> HIDE DEF r
  <2>7. /\ OpTyped(op) /\ OpStages /\ Pends /\ Appending /\ Tails /\ Mirrors(dev, pool)
        /\ Store(tables, cached, op.pend) /\ Refers(pool, tables, cached, op.pend)
    BY DEF PagedInv, OpSound, Counted
  <2>8. /\ b.from = tables[s].len /\ b.pages = Own(tables[s], b.cow) \o b.alloc
        /\ Len(b.pages) = DivCeil(m, PageTokens)
    BY <2>2, <2>3, <2>4, ZenonT(30) DEF PendSound
  <2>9. /\ Store(tables', cached, D)
        /\ Refers(pool', tables', cached, D)
        /\ pool'.gen = pool.gen
        /\ \A p \in Pages : (pool.refs[p] > 0 <=> pool'.refs[p] > 0)
        /\ \A p \in Pages : (~b.cow \/ p # LastPage(tables[s])) => pool'.refs[p] = pool.refs[p]
    <3>1. b = Head(op.pend) /\ m = b.from + Len(op.in[b.seq])
      BY <2>0, <2>2, <2>3 DEF r
    <3>2. /\ tables' = [tables EXCEPT ![b.seq] = [pages |-> b.pages, len |-> m]]
          /\ pool' = Release(pool, Source(tables[b.seq], b.cow))
      BY <2>2, <2>6
    <3>3. PICK V : V = [tables EXCEPT ![b.seq] = [pages |-> b.pages, len |-> m]]
      OBVIOUS
    <3>4. PICK z : z = Release(pool, Source(tables[b.seq], b.cow))
      OBVIOUS
    <3>5. /\ Store(V, cached, Tail(op.pend))
          /\ Refers(z, V, cached, Tail(op.pend))
          /\ z.gen = pool.gen
          /\ \A p \in Pages : (pool.refs[p] > 0 <=> z.refs[p] > 0)
          /\ \A p \in Pages : (~b.cow \/ p # LastPage(tables[b.seq])) => z.refs[p] = pool.refs[p]
      BY <1>1, <3>1, <3>3, <3>4, CommitPool, ZenonT(60)
    <3> QED BY <2>1, <2>2, <3>2, <3>3, <3>4, <3>5
  <2>10. /\ OpTyped(op') /\ OpShape' /\ op'.pend = D
         /\ op'.stage = op.stage /\ op'.kind = op.kind /\ op'.rows = op.rows /\ op'.in = op.in
         /\ op'.todo = op.todo /\ op'.err = op.err
         /\ Single' = Single /\ This' = This /\ Working' = Working
    BY <1>1, <2>5, <2>6, PendUpdate
  <2>11. UNCHANGED <<lease, phase, toks, done, pos, solo>>
    BY <2>6 DEF sessionVars
  <2>12. /\ DOMAIN tables' = DOMAIN tables /\ tables'[s] = [pages |-> b.pages, len |-> m]
         /\ \A x \in DOMAIN tables : x # s => tables'[x] = tables[x]
    <3>1. tables \in [DOMAIN tables -> Tables]
      BY <2>7 DEF Store
    <3> QED BY <2>4, <2>6, <3>1
  <2>13. PendSeqs' = PendSeqs \ {s} /\ op.todo = <<>> /\ Elems(op.todo) = {} /\ Working
    <3>1. PendSeqs' = SeqsOf(D)
      BY <2>10 DEF PendSeqs, SeqsOf
    <3>2. op.todo = <<>> /\ Working
      BY <1>1, <2>7 DEF OpStages, Working
    <3>3. Elems(op.todo) = {}
      BY <3>2 DEF Elems
    <3> QED BY <2>5, <3>1, <3>2, <3>3
  <2>14. OpStages'
    <3>1. Elems(op'.rows) \subseteq DOMAIN tables' /\ op'.kind # "acquire"
      BY <2>7, <2>10, <2>12, <2>13 DEF OpStages
    <3>2. PendSeqs' \subseteq Elems(op'.rows) /\ Elems(op'.todo) \subseteq Elems(op'.rows)
      BY <2>7, <2>10, <2>13 DEF OpStages
    <3> QED BY <1>1, <2>5, <2>10, <2>13, <3>1, <3>2 DEF OpStages
  <2>15. Counted' /\ Mirrors(dev, pool)'
    BY <2>6, <2>7, <2>9, <2>10 DEF Counted, Mirrors
  <2>16. Appending'
    <3> SUFFICES ASSUME NEW x \in Elems(op.rows) PROVE Appends(x)'
      BY <2>10 DEF Appending
    <3>1. Appends(x)
      BY <2>7 DEF Appending
    <3>2. CASE x = s
      <4>1. Coming(x) = Len(op.in[s]) /\ Coming(x)' = 0
        BY <2>4, <2>10, <2>13, <3>2 DEF Coming
      <4>2. tables'[x].len + Coming(x)' = tables[x].len + Coming(x)
        <5>1. tables'[s] = [pages |-> b.pages, len |-> m] /\ m = tables[s].len + Len(op.in[s])
          BY <2>3, <2>8, <2>12
        <5>2. tables'[x].len = m
          BY <3>2, <5>1
        <5>3. m \in Nat
          BY <2>4
        <5> QED BY <3>2, <4>1, <5>1, <5>2, <5>3
      <4>3. phase'[x] # "new" /\ toks'[x] = toks[x] /\ op'.stage = "commit"
            /\ x \notin Elems(op'.todo) \cup PendSeqs'
        BY <1>1, <2>10, <2>11, <2>13, <3>1, <3>2 DEF Appends
      <4>4. op.kind \in {"prefill", "batchPrefill"} => tables[x].len + Coming(x) <= Len(toks[x])
        BY <1>1, <2>13, <3>1 DEF Appends
      <4>5. op.kind \in {"decode", "batchDecode"} => Len(op'.in[x]) = 1
        BY <2>10, <3>1 DEF Appends
      <4>6. op.kind \in {"prefill", "batchPrefill"} =>
               tables'[x].len + Coming(x)' <= Len(toks'[x])
        BY <4>2, <4>3, <4>4
      <4> QED BY <2>10, <4>3, <4>5, <4>6 DEF Appends
    <3>3. CASE x # s
      <4>1. Coming(x)' = Coming(x)
        BY <2>10, <2>13, <3>3 DEF Coming
      <4>2. tables'[x] = tables[x]
        BY <2>7, <2>12, <2>13, <3>3 DEF OpStages
      <4> QED BY <1>1, <2>10, <2>11, <2>13, <3>1, <4>1, <4>2 DEF Appends
    <3> QED BY <3>2, <3>3
  <2>17. ASSUME NEW i \in DOMAIN D
         PROVE  ~b.cow
    <3>1. D[i].seq \in PendSeqs /\ D[i].seq # s
      BY <2>5 DEF SeqsOf
    <3>2. D[i].seq \in Elems(op.rows)
      BY <2>7, <3>1 DEF OpStages
    <3> QED BY <2>4, <3>1, <3>2
  <2>18. Pends'
    <3> SUFFICES ASSUME NEW i \in DOMAIN D PROVE PendSound(op.pend[i])'
      BY <2>10 DEF Pends
    <3>1. i + 1 \in DOMAIN op.pend /\ op'.pend[i] = op.pend[i + 1] /\ D[i] = op.pend[i + 1]
      BY <2>5, <2>10
    <3>2. PICK e : e = op.pend[i + 1]
      OBVIOUS
    <3>3. PendSound(e) /\ e.seq # s /\ e.seq \in PendSeqs
      BY <2>5, <2>7, <3>1, <3>2 DEF Pends, PendSeqs
    <3>4. e.seq \in DOMAIN tables /\ tables'[e.seq] = tables[e.seq]
      BY <2>7, <2>12, <2>13, <3>3 DEF OpStages
    <3>5. tables[e.seq].len % PageTokens # 0 =>
             pool'.refs[LastPage(tables[e.seq])] = pool.refs[LastPage(tables[e.seq])]
      BY <2>9, <2>17, <3>4, TableTail
    <3>6. op'.pend[i] = e /\ op'.in = op.in /\ op'.kind = op.kind /\ op'.stage = op.stage
      BY <2>10, <3>1, <3>2
    <3> QED BY <3>3, <3>4, <3>5, <3>6 DEF PendSound
  <2>19. Tails'
    <3> SUFFICES ASSUME NEW x \in DOMAIN tables PROVE Owned(pool, tables[x])' \/ Adopting(x)'
      BY <2>12 DEF Tails
    <3>1. CASE x = s
      <4>1. Sane(tables'[s])
        BY <2>9, <2>4, <2>12 DEF Store
      <4>2. PICK u : u = [pages |-> b.pages, len |-> m]
        OBVIOUS
      <4>3. tables'[x] = u /\ u.len = m /\ Sane(u)
        BY <2>12, <3>1, <4>1, <4>2
      <4>4. ASSUME m % PageTokens # 0
            PROVE  pool'.refs[LastPage(u)] = 1
        <5>1. /\ pool.refs[LastPage(u)] = 1 /\ LastPage(u) \in Pages
              /\ b.cow => LastPage(u) # LastPage(tables[s])
          <6>1. b = First /\ s = First.seq
            BY <2>0, <2>2 DEF r, First
          <6>2. u = AfterCommit
            BY <2>2, <2>3, <4>2, <6>1 DEF AfterCommit
          <6>3. Sane(AfterCommit) /\ AfterCommit.len % PageTokens # 0
            BY <4>3, <4>4, <6>2
          <6>4. /\ pool.refs[LastPage(AfterCommit)] = 1 /\ LastPage(AfterCommit) \in Pages
                /\ First.cow => LastPage(AfterCommit) # LastPage(tables[First.seq])
            BY <1>1, <6>3, CommitTailFirst
          <6> QED BY <6>1, <6>2, <6>4
        <5> QED BY <2>9, <5>1
      <4> QED BY <4>3, <4>4 DEF Owned
    <3>2. CASE x # s
      <4>1. tables'[x] = tables[x]
        BY <2>12, <3>2
      <4>2. ~Adopting(x)
        <5> SUFFICES ASSUME Adopting(x) PROVE FALSE
          OBVIOUS
        <5>1. Single /\ op.kind # "idle" /\ x = This
          BY DEF Adopting, Single
        <5> QED BY <2>4, <3>2, <5>1, ThisIs
      <4>3. Owned(pool, tables[x])
        BY <2>7, <4>2 DEF Tails
      <4>4. ASSUME tables[x].len % PageTokens # 0
            PROVE  pool'.refs[LastPage(tables[x])] = 1
        <5>1. pool.refs[LastPage(tables[x])] = 1 /\ LastPage(tables[x]) \in Pages
          BY <4>3, <4>4, TableTail DEF Owned
        <5> QED BY <2>4, <2>9, <5>1
      <4> QED BY <4>1, <4>4 DEF Owned
    <3> QED BY <3>1, <3>2
  <2>20. Typed' /\ Going'
    BY <2>6, <2>11, <2>12 DEF PagedInv, Typed, Going, Progress
  <2>21. Seated'
    BY <2>6, <2>11, <2>12, SameSeats
  <2> QED BY <2>10, <2>14, <2>15, <2>16, <2>18, <2>19, <2>20, <2>21 DEF PagedInv, OpSound
<1> QED BY <1>2, <1>3 DEF CommitRow

\* The length of a common prefix is a number: there is a first difference, or none.
LEMMA CommonIs ==
    ASSUME NEW a \in Seq(Tokens), NEW b \in Seq(Tokens)
    PROVE  LET n == CommonPrefix(a, b)
           IN  /\ n \in Nat /\ n <= Len(a) /\ n <= Len(b)
               /\ SubSeq(a, 1, n) = SubSeq(b, 1, n)
<1> DEFINE M == AtMost(Len(a), Len(b))
           Agree(n) == /\ SubSeq(a, 1, n) = SubSeq(b, 1, n)
                       /\ n < M => a[n + 1] # b[n + 1]
           ns == {n \in 0 .. M : n < M => a[n + 1] # b[n + 1]}
<1>1. M \in Nat /\ M <= Len(a) /\ M <= Len(b) /\ Len(a) \in Nat /\ Len(b) \in Nat
  BY DEF AtMost
<1>2. ns \in SUBSET Nat /\ IsFiniteSet(ns) /\ ns # {}
  <2>1. IsFiniteSet(0 .. M)
    BY <1>1, FS_Interval
  <2>2. M \in ns
    BY <1>1
  <2> QED BY <1>1, <2>1, <2>2, FS_Subset
<1>3. PICK n \in ns : \A m \in ns : n <= m
  <2> HIDE DEF ns
  <2> QED BY <1>2, LeastIs
<1>4. n \in 0 .. M /\ (n < M => a[n + 1] # b[n + 1])
  OBVIOUS
<1>5. \A m \in 0 .. M : m < n => a[m + 1] = b[m + 1]
  BY <1>1, <1>3, <1>4
<1> HIDE DEF M, ns
<1>6. \A i \in 1 .. n : a[i] = b[i]
  <2> SUFFICES ASSUME NEW i \in 1 .. n PROVE a[i] = b[i]
    OBVIOUS
  <2>1. i - 1 \in 0 .. M /\ i - 1 < n /\ (i - 1) + 1 = i
    BY <1>1, <1>4
  <2> QED BY <1>5, <2>1
<1>7. SubSeq(a, 1, n) = SubSeq(b, 1, n)
  BY <1>1, <1>4, <1>6
<1>8. Agree(n)
  BY <1>4, <1>7
<1>9. \E k \in 0 .. M : Agree(k)
  BY <1>4, <1>8
<1>10. PICK k : k = CHOOSE m \in 0 .. M : Agree(m)
  OBVIOUS
<1>11. k \in 0 .. M /\ Agree(k)
  <2> HIDE DEF Agree
  <2> QED BY <1>9, <1>10
<1>12. CommonPrefix(a, b) = k
  BY <1>10 DEF CommonPrefix, M
<1>13. k \in Nat /\ k <= Len(a) /\ k <= Len(b) /\ SubSeq(a, 1, k) = SubSeq(b, 1, k)
  BY <1>1, <1>11
<1> QED BY <1>12, <1>13

\* What an adoption reuses: some tokens of the retained prefix, and not all of the prompt.
LEMMA ReuseIs ==
    ASSUME PagedInv, NEW s \in DOMAIN tables, NEW x \in Seq(Tokens), x # <<>>,
           NEW n, n = Reuse(s, x), n > 0, NEW c, c = CHOOSE e \in cached : TRUE
    PROVE  /\ c \in cached /\ n \in Nat /\ n <= c.table.len /\ n <= Len(x) - 1
           /\ tables[s].len = 0 /\ tables[s].pages = <<>>
           /\ DivCeil(n, PageTokens) \in 0 .. Len(c.table.pages)
           /\ Sane(c.table)
<1>1. cached # {} /\ tables[s].len = 0
  BY DEF Reuse
<1>2. c \in cached
  BY <1>1
<1>3. Sane(c.table) /\ c.table.len \in Nat /\ c.toks \in Seq(Tokens) /\ c.table.pages \in Seq(Handles)
      /\ Len(c.table.pages) = DivCeil(c.table.len, PageTokens)
  BY <1>2 DEF PagedInv, Counted, Store, Entries, Sane, Tables, Fits
<1>4. Len(x) \in Nat /\ Len(x) >= 1
  BY EmptySeq
<1> DEFINE k == CommonPrefix(c.toks, x)
<1>5. k \in Nat
  BY <1>3, CommonIs
<1>6. n = AtMost(AtMost(k, c.table.len), Len(x) - 1)
  BY <1>1 DEF Reuse, MaxReuse
<1> HIDE DEF k
<1>7. n \in Nat /\ n <= c.table.len /\ n <= Len(x) - 1
  BY <1>3, <1>4, <1>5, <1>6 DEF AtMost
<1>8. PageTokens \in Nat \ {0}
  BY PageAssumption
<1>9. tables[s].pages = <<>>
  <2>1. Sane(tables[s])
    BY TableTail
  <2>2. Len(tables[s].pages) = DivCeil(0, PageTokens) /\ tables[s].pages \in Seq(Handles)
    BY <1>1, <2>1 DEF Sane, Tables, Fits
  <2>3. DivCeil(0, PageTokens) = 0
    BY <1>8 DEF DivCeil
  <2> QED BY <2>2, <2>3, EmptySeq
<1>10. DivCeil(n, PageTokens) \in 0 .. Len(c.table.pages)
  <2> DEFINE a == n + PageTokens - 1
             b == c.table.len + PageTokens - 1
  <2>1. a \in Nat /\ b \in Nat /\ a <= b
    BY <1>3, <1>7, <1>8
  <2> HIDE DEF a, b
  <2>2. a \div PageTokens \in Nat /\ b \div PageTokens \in Nat /\ a \div PageTokens <= b \div PageTokens
    BY <1>8, <2>1, DivMono
  <2>3. DivCeil(n, PageTokens) = a \div PageTokens /\ Len(c.table.pages) = b \div PageTokens
    BY <1>3 DEF DivCeil, a, b
  <2> QED BY <2>2, <2>3
<1> QED BY <1>1, <1>2, <1>3, <1>7, <1>9, <1>10

\* Adopt keeps the invariant.
LEMMA AdoptInv ==
    ASSUME PagedInv, Adopt
    PROVE  PagedInv'
<1>0. PICK s : s = This
  OBVIOUS
<1>1. PICK x : x = op.in[s]
  OBVIOUS
<1>2. PICK n : n = Reuse(s, x)
  OBVIOUS
<1>3. PICK c : c = CHOOSE e \in cached : TRUE
  OBVIOUS
<1>4. PICK y : y = SubSeq(x, n + 1, Len(x))
  OBVIOUS
<1>5. /\ op.stage = "cursor" /\ op.kind = "prefill" /\ Len(x) = Len(toks[s]) /\ n > 0
      /\ pool' = Forked(pool, c.table, n)
      /\ tables' = [tables EXCEPT ![s] = [pages |-> KeptPages(c.table, n), len |-> n]]
      /\ record' = Put(record, s, SubSeq(x, 1, n))
      /\ op' = [op EXCEPT !.stage = "prepare", !.in = [z \in {s} |-> y]]
      /\ UNCHANGED <<up, dev, cached, slots>> /\ UNCHANGED sessionVars
  BY <1>0, <1>1, <1>2, <1>3, <1>4 DEF Adopt, WholePrompt
<1>6. /\ OpTyped(op) /\ OpShape /\ OpStages /\ Appending /\ Tails /\ Mirrors(dev, pool) /\ Single
      /\ Store(tables, cached, op.pend) /\ Refers(pool, tables, cached, op.pend)
  BY <1>5 DEF PagedInv, OpSound, Counted, Single
<1>7. /\ s \in Sessions /\ op.rows = <<s>> /\ Elems(op.rows) = {s} /\ s \in DOMAIN tables
      /\ op.kind # "idle"
  BY <1>0, <1>5, <1>6, ThisIs DEF OpStages
<1>8. op.pend = <<>> /\ op.todo = op.rows /\ op.rows # <<>> /\ Injective(op.rows)
  <2>1. op.rows # <<>>
    BY <1>7
  <2> QED BY <1>5, <1>6, <2>1 DEF OpStages, OpShape
<1>9. x \in Seq(Tokens) /\ x # <<>> /\ phase[s] # "new"
  BY <1>1, <1>5, <1>6, <1>7 DEF OpTyped, Appending, Appends
<1>10. /\ c \in cached /\ n \in Nat /\ n <= c.table.len /\ n <= Len(x) - 1
       /\ tables[s].len = 0 /\ tables[s].pages = <<>>
       /\ DivCeil(n, PageTokens) \in 0 .. Len(c.table.pages)
       /\ Sane(c.table)
  BY <1>2, <1>3, <1>5, <1>7, <1>9, ReuseIs
<1>11. Len(x) \in Nat /\ y \in Seq(Tokens) /\ Len(y) = Len(x) - n /\ Len(y) \in Nat /\ y # <<>>
       /\ SubSeq(x, 1, n) \in Seq(Tokens)
  <2>1. Len(x) \in Nat
    BY <1>9
  <2>2. y \in Seq(Tokens) /\ Len(y) = Len(x) - n
    BY <1>4, <1>9, <1>10, <2>1
  <2>3. Len(y) # 0
    BY <1>10, <2>1, <2>2
  <2>4. SubSeq(x, 1, n) \in Seq(Tokens)
    BY <1>9, <1>10, <2>1
  <2> QED BY <2>1, <2>2, <2>3, <2>4, EmptySeq
<1>12. /\ Store(tables', cached, op.pend) /\ Refers(pool', tables', cached, op.pend)
       /\ pool'.gen = pool.gen
       /\ \A p \in Pages : (pool.refs[p] > 0 <=> pool'.refs[p] > 0)
       /\ \A p \in Pages : p \notin Indices(c.table.pages) => pool'.refs[p] = pool.refs[p]
  <2>1. Store(tables', cached, op.pend) /\ Refers(pool', tables', cached, op.pend)
    BY <1>5, <1>6, <1>7, <1>10, ForkRefers
  <2> DEFINE hs == c.table.pages
             kept == KeptPages(c.table, n)
  <2>2. PoolSound(pool) /\ pool.refs \in [Pages -> Nat]
    BY <1>6, RefFacts DEF Refers
  <2>3. hs \in Seq(Handles) /\ Distinct(hs) /\ \A p \in Indices(hs) : p \in Pages /\ pool.refs[p] > 0
    BY <1>6, <1>10, RefFacts DEF Sane, Tables
  <2>4. /\ pool'.gen = pool.gen
        /\ \A p \in Pages : p \in Indices(kept) => pool'.refs[p] = pool.refs[p] + 1
        /\ \A p \in Pages : p \notin Indices(kept) => pool'.refs[p] = pool.refs[p]
    BY <1>5, <1>10, <2>2, <2>3, ForkedIs
  <2>5. \A p : p \in Indices(kept) => p \in Indices(hs)
    <3>1. \A p : p \in Indices(kept) <=> \E i \in 1 .. DivCeil(n, PageTokens) : Index(hs[i]) = p
      BY <1>10, <2>3, PrefixHandles DEF KeptPages
    <3>2. \A i \in 1 .. DivCeil(n, PageTokens) : i \in DOMAIN hs
      BY <1>10, <2>3
    <3> QED BY <3>1, <3>2, IndicesIs
  <2> HIDE DEF hs, kept
  <2>6. ASSUME NEW p \in Pages
        PROVE  /\ pool.refs[p] > 0 <=> pool'.refs[p] > 0
               /\ p \notin Indices(hs) => pool'.refs[p] = pool.refs[p]
    <3>1. CASE p \in Indices(kept)
      <4>1. /\ pool'.refs[p] = pool.refs[p] + 1 /\ pool.refs[p] \in Nat /\ pool.refs[p] > 0
            /\ p \in Indices(hs)
        BY <2>2, <2>3, <2>4, <2>5, <3>1
      <4> QED BY <4>1
    <3>2. CASE p \notin Indices(kept)
      BY <2>4, <3>2
    <3> QED BY <3>1, <3>2
  <2> QED BY <2>1, <2>4, <2>6 DEF hs
<1>13. /\ DOMAIN tables' = DOMAIN tables /\ tables'[s].len = n
       /\ \A z \in DOMAIN tables : z # s => tables'[z] = tables[z]
  <2>1. tables \in [DOMAIN tables -> Tables]
    BY <1>6 DEF Store
  <2> QED BY <1>5, <1>7, <2>1
<1>14. op' = [kind |-> op.kind, stage |-> "prepare", rows |-> op.rows, in |-> [z \in {s} |-> y],
              todo |-> op.todo, pend |-> op.pend, err |-> op.err]
  BY <1>5, <1>6 DEF OpTyped
<1>15. /\ op'.kind = op.kind /\ op'.stage = "prepare" /\ op'.rows = op.rows
       /\ op'.in = [z \in {s} |-> y]
       /\ op'.todo = op.todo /\ op'.pend = op.pend /\ op'.err = op.err
  BY <1>14
<1>16. OpTyped(op')
  <2>1. op'.in \in [Elems(op.rows) -> Seq(Tokens)]
    BY <1>7, <1>11, <1>15
  <2> QED BY <1>6, <1>14, <1>15, <2>1 DEF OpTyped, Stages
<1>17. Single' /\ This' = This /\ Working' /\ PendSeqs' = {}
  <2>1. Single' /\ This' = This /\ Working'
    BY <1>5, <1>15 DEF Single, This, Working
  <2>2. op'.pend = <<>>
    BY <1>8, <1>15
  <2> QED BY <2>1, <2>2, NoPends
<1>18. OpShape'
  <2>1. op.stage # "none" /\ op'.stage # "none" /\ Idle.stage = "none"
    BY <1>5, <1>15 DEF Idle
  <2>2. op # Idle /\ op' # Idle
    BY <2>1
  <2> QED BY <1>6, <1>7, <1>8, <1>15, <1>17, <2>1, <2>2 DEF OpShape
<1>19. OpStages'
  <2>1. op'.todo # <<>> /\ Injective(op'.todo) /\ Elems(op'.todo) \subseteq Elems(op'.rows)
    BY <1>8, <1>15
  <2>2. Elems(op'.rows) \subseteq DOMAIN tables' /\ op'.kind # "acquire"
    BY <1>5, <1>7, <1>13, <1>15
  <2>3. DOMAIN op'.pend = {}
    BY <1>8, <1>15, NoPends
  <2> QED BY <1>15, <1>17, <2>1, <2>2, <2>3 DEF OpStages
<1>20. UNCHANGED <<lease, phase, toks, done, pos, solo>>
  BY <1>5 DEF sessionVars
<1>21. Appending'
  <2>1. op'.in[s] = y
    BY <1>15
  <2>2. Elems(op'.todo) = {s}
    BY <1>7, <1>8, <1>15
  <2>3. Coming(s)' = Len(y)
    BY <2>1, <2>2 DEF Coming
  <2>4. tables'[s].len + Coming(s)' <= Len(toks[s])
    BY <1>5, <1>10, <1>11, <1>13, <2>3
  <2>5. Appends(s)'
    BY <1>5, <1>9, <1>11, <1>15, <1>20, <2>1, <2>4 DEF Appends
  <2> QED BY <1>7, <1>15, <2>5 DEF Appending
<1>22. Pends'
  BY <1>8, <1>15, NoPends
<1>23. Tails'
  <2> SUFFICES ASSUME NEW z \in DOMAIN tables PROVE Owned(pool, tables[z])' \/ Adopting(z)'
    BY <1>13 DEF Tails
  <2>1. CASE z = s
    BY <1>0, <1>5, <1>15, <1>17, <2>1 DEF Adopting
  <2>2. CASE z # s
    <3>1. ~Adopting(z)
      BY <1>5 DEF Adopting, Working
    <3>2. Owned(pool, tables[z])
      BY <1>6, <3>1 DEF Tails
    <3>3. ASSUME tables[z].len % PageTokens # 0
          PROVE  pool'.refs[LastPage(tables[z])] = 1
      <4>1. pool.refs[LastPage(tables[z])] = 1
        BY <3>2, <3>3 DEF Owned
      <4>2. /\ LastPage(tables[z]) \in Pages
            /\ LastPage(tables[z]) \notin Indices(c.table.pages)
        BY <1>10, <3>3, <4>1, OwnedAlone
      <4> QED BY <1>12, <4>1, <4>2
    <3> QED BY <1>13, <2>2, <3>3 DEF Owned
  <2> QED BY <2>1, <2>2
<1>24. Counted' /\ Mirrors(dev, pool)'
  BY <1>5, <1>6, <1>12, <1>15 DEF Counted, Mirrors
<1>25. record' \in [DOMAIN record' -> Seq(Tokens)] /\ DOMAIN record' \subseteq DOMAIN tables'
  BY <1>5, <1>7, <1>11, <1>13, RecordPut
<1>26. Typed' /\ Going'
  BY <1>5, <1>20, <1>25 DEF PagedInv, Typed, Going, Progress
<1>27. Seated'
  BY <1>5, <1>13, <1>20, SameSeats
<1> QED BY <1>16, <1>18, <1>19, <1>21, <1>22, <1>23, <1>24, <1>26, <1>27 DEF PagedInv, OpSound

\* What a session that goes leaves of itself.
LEMMA GoneIs ==
    ASSUME PagedInv, NEW s \in Sessions, op = Idle, op' = op, Gone(s),
           lease' = [lease EXCEPT ![s] = {}]
    PROVE  /\ OpSound' /\ op'.pend = <<>> /\ op.pend = <<>> /\ Going'
           /\ lease' \in [Sessions -> SUBSET [slot : 1 .. Slots, gen : Nat]]
           /\ phase' \in [Sessions -> Phases] /\ toks' \in [Sessions -> Seq(Tokens)]
           /\ done' \in [Sessions -> Nat] /\ pos' \in [Sessions -> Nat]
           /\ solo' \in SUBSET Sessions
           /\ \A x \in DOMAIN tables : Owned(pool, tables[x])
           /\ lease'[s] = {} /\ \A x \in Sessions : x # s => lease'[x] = lease[x]
<1>1. OpSound' /\ op'.pend = <<>> /\ op.pend = <<>>
  BY Rests DEF Idle
<1>2. /\ phase' = [phase EXCEPT ![s] = "ended"] /\ toks' = [toks EXCEPT ![s] = <<>>]
      /\ done' = [done EXCEPT ![s] = 0] /\ pos' = [pos EXCEPT ![s] = 0] /\ solo' = solo \ {s}
  BY DEF Gone
<1>3. /\ phase \in [Sessions -> Phases] /\ toks \in [Sessions -> Seq(Tokens)]
      /\ done \in [Sessions -> Nat] /\ pos \in [Sessions -> Nat] /\ solo \in SUBSET Sessions
      /\ lease \in [Sessions -> SUBSET [slot : 1 .. Slots, gen : Nat]]
  BY DEF PagedInv, Typed
<1>4. \A x \in DOMAIN tables : Owned(pool, tables[x])
  <2>1. \A x : ~Adopting(x)
    BY DEF Adopting, Working, Idle
  <2> QED BY <2>1 DEF PagedInv, Tails
<1>5. Going'
  <2> SUFFICES ASSUME NEW x \in Sessions PROVE Progress(x)'
    BY DEF Going
  <2>1. CASE x = s
    <3>1. toks'[x] = <<>> /\ done'[x] = 0 /\ pos'[x] = 0 /\ phase'[x] = "ended"
      BY <1>2, <1>3, <2>1
    <3> QED BY <3>1 DEF Progress
  <2>2. CASE x # s
    <3>1. toks'[x] = toks[x] /\ done'[x] = done[x] /\ pos'[x] = pos[x] /\ phase'[x] = phase[x]
      BY <1>2, <1>3, <2>2
    <3> QED BY <3>1 DEF PagedInv, Going, Progress
  <2> QED BY <2>1, <2>2
<1>6. /\ phase' \in [Sessions -> Phases] /\ toks' \in [Sessions -> Seq(Tokens)]
      /\ done' \in [Sessions -> Nat] /\ pos' \in [Sessions -> Nat]
      /\ solo' \in SUBSET Sessions
  BY <1>2, <1>3 DEF Phases
<1>7. /\ lease' \in [Sessions -> SUBSET [slot : 1 .. Slots, gen : Nat]]
      /\ lease'[s] = {} /\ \A x \in Sessions : x # s => lease'[x] = lease[x]
  BY <1>3
<1> QED BY <1>1, <1>4, <1>5, <1>6, <1>7

\* A session without a valid lease goes: the engine stays as it is.
LEMMA DropStaleInv ==
    ASSUME PagedInv, NEW s \in Sessions, op = Idle, op' = op, Gone(s),
           lease' = [lease EXCEPT ![s] = {}], ~(up /\ LeaseValid(s)),
           UNCHANGED up, UNCHANGED engineVars
    PROVE  PagedInv'
<1>1. /\ OpSound' /\ op'.pend = <<>> /\ op.pend = <<>> /\ Going'
      /\ lease' \in [Sessions -> SUBSET [slot : 1 .. Slots, gen : Nat]]
      /\ phase' \in [Sessions -> Phases] /\ toks' \in [Sessions -> Seq(Tokens)]
      /\ done' \in [Sessions -> Nat] /\ pos' \in [Sessions -> Nat]
      /\ solo' \in SUBSET Sessions
      /\ \A x \in DOMAIN tables : Owned(pool, tables[x])
      /\ lease'[s] = {} /\ \A x \in Sessions : x # s => lease'[x] = lease[x]
  BY GoneIs
<1>2. UNCHANGED <<pool, dev, tables, record, cached, slots>>
  BY DEF engineVars
<1>3. Counted' /\ Mirrors(dev, pool)'
  BY <1>1, SameEngine
<1>4. Tails'
  BY <1>1, <1>2 DEF Tails, Owned
<1>5. s \notin DOMAIN tables
  BY DEF PagedInv, Seated
<1>6. Seated'
  <2>1. \A x \in DOMAIN tables : x \in Sessions /\ LeaseValid(x)
    BY TableTail DEF PagedInv, Seated
  <2>2. \A x \in DOMAIN tables : LeaseValid(x)'
    <3> SUFFICES ASSUME NEW x \in DOMAIN tables PROVE LeaseValid(x)'
      OBVIOUS
    <3>1. lease'[x] = lease[x] /\ slots' = slots /\ LeaseValid(x)
      BY <1>1, <1>2, <1>5, <2>1
    <3> QED BY <3>1 DEF LeaseValid
  <2> QED BY <1>2, <2>2 DEF PagedInv, Seated
<1>7. Typed'
  BY <1>1, <1>2 DEF PagedInv, Typed
<1> QED BY <1>1, <1>3, <1>4, <1>6, <1>7 DEF PagedInv

\* A session goes and a device page cannot be released: the engine is dropped.
LEMMA DropTornInv ==
    ASSUME PagedInv, NEW s \in Sessions, op = Idle, op' = op, Gone(s),
           lease' = [lease EXCEPT ![s] = {}], up' = FALSE, FreshEngine
    PROVE  PagedInv'
<1>1. /\ OpSound' /\ op'.pend = <<>> /\ op.pend = <<>> /\ Going'
      /\ lease' \in [Sessions -> SUBSET [slot : 1 .. Slots, gen : Nat]]
      /\ phase' \in [Sessions -> Phases] /\ toks' \in [Sessions -> Seq(Tokens)]
      /\ done' \in [Sessions -> Nat] /\ pos' \in [Sessions -> Nat]
      /\ solo' \in SUBSET Sessions
  BY GoneIs
<1>2. /\ Counted' /\ Mirrors(dev, pool)' /\ Tails' /\ Seated'
      /\ record' \in [DOMAIN record' -> Seq(Tokens)] /\ DOMAIN record' \subseteq DOMAIN tables'
      /\ slots' \in [1 .. Slots -> [gen : Nat, holder : Sessions \cup {Nobody}]]
  BY <1>1, FreshIs
<1>3. Typed'
  BY <1>1, <1>2 DEF Typed
<1> QED BY <1>1, <1>2, <1>3 DEF PagedInv

\* The pool, the tables and the prefix once a session's pages are let go or kept.
LEMMA DropPool ==
    ASSUME PagedInv, NEW s \in DOMAIN tables, op.pend = <<>>,
           NEW z, z = Release(pool, Outgoing(s)),
           NEW C, C = IF Retained(s) THEN {[table |-> tables[s], toks |-> record[s]]}
                                     ELSE cached
    PROVE  /\ Store(Without(tables, s), C, <<>>)
           /\ Refers(z, Without(tables, s), C, <<>>)
           /\ Outgoing(s) \in Seq(Handles) /\ Distinct(Outgoing(s))
           /\ \A p \in Indices(Outgoing(s)) :
                 /\ p \in Pages /\ pool.refs[p] > 0
                 /\ p \in Indices(tables[s].pages) \/ \E c \in cached : p \in Indices(c.table.pages)
<1>1. /\ Store(tables, cached, <<>>) /\ Refers(pool, tables, cached, <<>>)
  BY DEF PagedInv, Counted
<1>2. s \in Sessions /\ Sane(tables[s]) /\ tables[s].pages \in Seq(Handles) /\ Distinct(tables[s].pages)
      /\ tables[s] \in Tables
  BY TableTail DEF Sane, Tables
<1>3. CASE ~Retained(s)
  <2>1. Outgoing(s) = tables[s].pages /\ C = cached
    BY <1>3 DEF Outgoing
  <2>2. Store(Without(tables, s), C, <<>>)
    BY <1>1, <2>1, WithoutIs
  <2>3. Refers(z, Without(tables, s), C, <<>>)
    BY <1>1, <2>1, DropRefers
  <2>4. \A p \in Indices(tables[s].pages) : p \in Pages /\ pool.refs[p] > 0
    BY <1>1, RefFacts
  <2> QED BY <1>2, <2>1, <2>2, <2>3, <2>4
<1>4. CASE Retained(s)
  <2>1. PICK e : e = [table |-> tables[s], toks |-> record[s]]
    OBVIOUS
  <2>2. C = {e} /\ e.table = tables[s] /\ e \in Entries
    <3>1. s \in DOMAIN record /\ record[s] \in Seq(Tokens)
      BY <1>4 DEF Retained, PagedInv, Typed
    <3> QED BY <1>2, <1>4, <2>1, <3>1 DEF Entries
  <2>3. ASSUME Store(tables, {}, <<>>), Refers(z, tables, {}, <<>>)
        PROVE  Store(Without(tables, s), C, <<>>) /\ Refers(z, Without(tables, s), C, <<>>)
    BY <2>2, <2>3, KeepRefers
  <2>4. CASE cached = {}
    <3>1. Outgoing(s) = <<>>
      BY <1>4, <2>4 DEF Outgoing
    <3>2. Store(tables, {}, <<>>) /\ Refers(z, tables, {}, <<>>)
      BY <1>1, <2>4, <3>1, EmptyRelease
    <3>3. Outgoing(s) \in Seq(Handles) /\ Distinct(Outgoing(s)) /\ Indices(Outgoing(s)) = {}
      BY <3>1 DEF Distinct, Indices, Elems
    <3> QED BY <2>3, <3>2, <3>3
  <2>5. CASE cached # {}
    <3>1. PICK c \in cached : Outgoing(s) = c.table.pages
      BY <1>4, <2>5 DEF Outgoing
    <3>2. Store(tables, {}, <<>>) /\ Refers(z, tables, {}, <<>>)
      BY <1>1, <3>1, EvictRefers
    <3>3. /\ c.table.pages \in Seq(Handles) /\ Distinct(c.table.pages)
          /\ \A p \in Indices(c.table.pages) : p \in Pages /\ pool.refs[p] > 0
      BY <1>1, StoreFacts, RefFacts
    <3> QED BY <2>3, <3>1, <3>2, <3>3
  <2> QED BY <2>4, <2>5
<1> QED BY <1>3, <1>4
\* A slot is given back with the table of its sequence.
LEMMA VacatedIs ==
    ASSUME PagedInv, NEW s \in DOMAIN tables, slots' = Vacated(s), up, up' = up,
           DOMAIN tables' = DOMAIN tables \ {s},
           \A x \in Sessions : x # s => lease'[x] = lease[x]
    PROVE  /\ Seated'
           /\ slots' \in [1 .. Slots -> [gen : Nat, holder : Sessions \cup {Nobody}]]
<1>1. /\ slots \in [1 .. Slots -> [gen : Nat, holder : Sessions \cup {Nobody}]]
      /\ lease \in [Sessions -> SUBSET [slot : 1 .. Slots, gen : Nat]]
      /\ Seated /\ s \in Sessions /\ s # Nobody
  BY TableTail, SessionAssumption DEF PagedInv, Typed
<1>2. slots' = [i \in 1 .. Slots |-> IF slots[i].holder = s
                THEN [slots[i] EXCEPT !.holder = Nobody] ELSE slots[i]]
  BY DEF Vacated
<1>3. ASSUME NEW i \in 1 .. Slots
      PROVE  /\ slots'[i] \in [gen : Nat, holder : Sessions \cup {Nobody}]
             /\ slots[i].holder = s => slots'[i].holder = Nobody
             /\ slots[i].holder # s => slots'[i] = slots[i]
  <2>1. slots[i] \in [gen : Nat, holder : Sessions \cup {Nobody}]
    BY <1>1
  <2>2. CASE slots[i].holder = s
    <3>1. slots'[i] = [slots[i] EXCEPT !.holder = Nobody]
      BY <1>2, <2>2
    <3> QED BY <2>1, <2>2, <3>1
  <2>3. CASE slots[i].holder # s
    BY <1>2, <2>1, <2>3
  <2> QED BY <2>2, <2>3
<1>4. slots' \in [1 .. Slots -> [gen : Nat, holder : Sessions \cup {Nobody}]]
  BY <1>2, <1>3
<1>5. ASSUME NEW x \in DOMAIN tables, x # s
      PROVE  LeaseValid(x)'
  <2>1. x \in Sessions /\ LeaseValid(x) /\ lease'[x] = lease[x]
    BY <1>1, <1>5, TableTail DEF Seated
  <2>2. PICK l \in lease[x] : slots[l.slot] = [gen |-> l.gen, holder |-> x]
    BY <2>1 DEF LeaseValid
  <2>3. l.slot \in 1 .. Slots
    BY <1>1, <2>1
  <2>4. slots[l.slot].holder = x
    BY <2>2
  <2>5. slots'[l.slot] = slots[l.slot]
    BY <1>3, <1>5, <2>3, <2>4
  <2> QED BY <2>1, <2>2, <2>5 DEF LeaseValid
<1>6. ASSUME NEW i \in 1 .. Slots, slots'[i].holder # Nobody
      PROVE  slots'[i] = slots[i] /\ slots'[i].holder \in DOMAIN tables \ {s}
  <2>1. slots[i].holder # s
    BY <1>3, <1>6
  <2>2. slots'[i] = slots[i]
    BY <1>3, <2>1
  <2> QED BY <1>1, <1>6, <2>1, <2>2 DEF Seated
<1>7. \A i, j \in 1 .. Slots :
         slots'[i].holder = slots'[j].holder /\ slots'[i].holder # Nobody => i = j
  BY <1>1, <1>6 DEF Seated
<1> QED BY <1>4, <1>5, <1>6, <1>7 DEF Seated

\* A session goes and its pages are let go, or kept as the next prefix.
LEMMA DropHeldInv ==
    ASSUME PagedInv, NEW s \in Sessions, op = Idle, op' = op, Gone(s),
           lease' = [lease EXCEPT ![s] = {}], up, LeaseValid(s),
           dev' = Freed(dev, Exclusive(pool, Outgoing(s))),
           pool' = Release(pool, Outgoing(s)),
           cached' = IF Retained(s) THEN {[table |-> tables[s], toks |-> record[s]]} ELSE cached,
           tables' = Without(tables, s), record' = Without(record, s),
           slots' = Vacated(s), up' = up
    PROVE  PagedInv'
<1>1. /\ OpSound' /\ op'.pend = <<>> /\ op.pend = <<>> /\ Going'
      /\ lease' \in [Sessions -> SUBSET [slot : 1 .. Slots, gen : Nat]]
      /\ phase' \in [Sessions -> Phases] /\ toks' \in [Sessions -> Seq(Tokens)]
      /\ done' \in [Sessions -> Nat] /\ pos' \in [Sessions -> Nat]
      /\ solo' \in SUBSET Sessions
      /\ \A x \in DOMAIN tables : Owned(pool, tables[x])
      /\ lease'[s] = {} /\ \A x \in Sessions : x # s => lease'[x] = lease[x]
  BY GoneIs
<1>2. s \in DOMAIN tables
  BY LeaseTable
<1>3. /\ Store(tables', cached', <<>>)
      /\ Refers(pool', tables', cached', <<>>)
      /\ Outgoing(s) \in Seq(Handles) /\ Distinct(Outgoing(s))
      /\ \A p \in Indices(Outgoing(s)) :
            /\ p \in Pages /\ pool.refs[p] > 0
            /\ p \in Indices(tables[s].pages) \/ \E c \in cached : p \in Indices(c.table.pages)
  BY <1>1, <1>2, DropPool
<1>4. DOMAIN tables' = DOMAIN tables \ {s} /\ \A x \in DOMAIN tables' : tables'[x] = tables[x]
  BY DEF Without
<1>5. PoolSound(pool) /\ Mirrors(dev, pool)
  BY DEF PagedInv, Counted, Refers
<1>6. Mirrors(dev, pool)'
  BY <1>3, <1>5, ReleaseMirrors
<1>7. \A p \in Pages : p \notin Indices(Outgoing(s)) => pool'.refs[p] = pool.refs[p]
  BY <1>3, <1>5, ReleaseIs
<1>8. Tails'
  <2> SUFFICES ASSUME NEW x \in DOMAIN tables, x # s, tables[x].len % PageTokens # 0
               PROVE  pool'.refs[LastPage(tables[x])] = 1
    BY <1>4 DEF Tails, Owned
  <2>1. pool.refs[LastPage(tables[x])] = 1
    BY <1>1 DEF Owned
  <2>2. /\ LastPage(tables[x]) \in Pages
        /\ \A c \in cached : LastPage(tables[x]) \notin Indices(c.table.pages)
        /\ \A y \in DOMAIN tables : LastPage(tables[x]) \in Indices(tables[y].pages) => y = x
    BY <2>1, OwnedAlone
  <2>3. LastPage(tables[x]) \notin Indices(Outgoing(s))
    BY <1>2, <1>3, <2>2
  <2> QED BY <1>7, <2>1, <2>2, <2>3
<1>9. Seated' /\ slots' \in [1 .. Slots -> [gen : Nat, holder : Sessions \cup {Nobody}]]
  BY <1>1, <1>2, <1>4, VacatedIs
<1>10. record' \in [DOMAIN record' -> Seq(Tokens)] /\ DOMAIN record' \subseteq DOMAIN tables'
  <2>1. record \in [DOMAIN record -> Seq(Tokens)] /\ DOMAIN record \subseteq DOMAIN tables
    BY DEF PagedInv, Typed
  <2>2. record' = [y \in DOMAIN record \ {s} |-> record[y]]
    BY DEF Without
  <2> QED BY <1>4, <2>1, <2>2
<1>11. Typed'
  BY <1>1, <1>9, <1>10 DEF PagedInv, Typed
<1>12. Counted'
  BY <1>1, <1>3 DEF Counted
<1> QED BY <1>1, <1>6, <1>8, <1>9, <1>11, <1>12 DEF PagedInv

\* Drop keeps the invariant.
LEMMA DropInv ==
    ASSUME PagedInv, NEW s \in Sessions, Drop(s)
    PROVE  PagedInv'
<1>1. op = Idle /\ op' = op /\ Gone(s) /\ lease' = [lease EXCEPT ![s] = {}]
  BY DEF Drop
<1>2. CASE ~(up /\ LeaseValid(s)) /\ UNCHANGED up /\ UNCHANGED engineVars
  BY <1>1, <1>2, DropStaleInv
<1>3. CASE up' = FALSE /\ FreshEngine
  BY <1>1, <1>3, DropTornInv
<1>4. CASE /\ up /\ LeaseValid(s)
           /\ dev' = Freed(dev, Exclusive(pool, Outgoing(s)))
           /\ pool' = Release(pool, Outgoing(s))
           /\ cached' = IF Retained(s) THEN {[table |-> tables[s], toks |-> record[s]]}
                                       ELSE cached
           /\ tables' = Without(tables, s)
           /\ record' = Without(record, s)
           /\ slots' = Vacated(s)
           /\ up' = up
  BY <1>1, <1>4, DropHeldInv
<1> QED BY <1>2, <1>3, <1>4 DEF Drop

\* The invariant holds before there is an engine.
LEMMA StartInv == Init => PagedInv
<1> SUFFICES ASSUME Init PROVE PagedInv
  OBVIOUS
<1>1. /\ up = FALSE /\ pool = EmptyPool /\ dev = [p \in Pages |-> NoPage]
      /\ tables = NoEntries /\ record = NoEntries /\ cached = {}
      /\ slots = [i \in 1 .. Slots |-> [gen |-> 0, holder |-> Nobody]]
      /\ lease = [s \in Sessions |-> {}] /\ phase = [s \in Sessions |-> "new"]
      /\ toks = [s \in Sessions |-> <<>>] /\ done = [s \in Sessions |-> 0]
      /\ pos = [s \in Sessions |-> 0] /\ solo = {} /\ op = Idle
  BY DEF Init
<1>2. DOMAIN NoEntries = {} /\ NoEntries \in [{} -> Seq(Tokens)]
  BY DEF NoEntries
<1>3. op.pend = <<>> /\ op.stage = "none" /\ op.kind = "idle" /\ op.rows = <<>> /\ op.todo = <<>>
      /\ op.in = NoEntries /\ op.err = "none"
  BY <1>1 DEF Idle
<1>4. Typed
  <2>1. slots \in [1 .. Slots -> [gen : Nat, holder : Sessions \cup {Nobody}]]
    BY <1>1
  <2>2. /\ lease \in [Sessions -> SUBSET [slot : 1 .. Slots, gen : Nat]]
        /\ phase \in [Sessions -> Phases] /\ toks \in [Sessions -> Seq(Tokens)]
        /\ done \in [Sessions -> Nat] /\ pos \in [Sessions -> Nat] /\ solo \in SUBSET Sessions
    BY <1>1 DEF Phases
  <2>3. record \in [DOMAIN record -> Seq(Tokens)] /\ DOMAIN record \subseteq DOMAIN tables
    BY <1>1, <1>2
  <2> QED BY <1>1, <2>1, <2>2, <2>3 DEF Typed
<1>5. Going
  BY <1>1 DEF Going, Progress
<1>6. Counted
  BY <1>1, <1>3, FreshRefers DEF Counted
<1>7. Mirrors(dev, pool)
  <2>1. NoPage \in [gen : Nat, rows : [0 .. PageTokens - 1 -> Seq(Tokens)]] /\ NoPage.gen = 0
    BY DEF NoPage
  <2>2. \A p \in Pages : EmptyPool.refs[p] = 0
    BY DEF EmptyPool
  <2> QED BY <1>1, <2>1, <2>2 DEF Mirrors, DevPages
<1>8. Tails
  BY <1>1, <1>2 DEF Tails
<1>9. Seated
  BY <1>1, <1>2 DEF Seated
<1>10. OpSound
  <2>1. Elems(<<>>) = {} /\ DOMAIN <<>> = {}
    BY DEF Elems
  <2>2. OpTyped(op)
    BY <1>1, <1>2, <1>3, <2>1 DEF OpTyped, Idle, Kinds, Stages, Errors
  <2>3. OpShape
    BY <1>1, <1>3, <2>1 DEF OpShape, Single, Injective
  <2>4. OpStages
    BY <1>3, <2>1 DEF OpStages, Working, PendSeqs
  <2>5. Appending /\ Pends
    BY <1>3, <2>1 DEF Appending, Pends
  <2> QED BY <2>2, <2>3, <2>4, <2>5 DEF OpSound
<1> QED BY <1>4, <1>5, <1>6, <1>7, <1>8, <1>9, <1>10 DEF PagedInv

\* A step that changes nothing keeps the invariant.
LEMMA StutterInv ==
    ASSUME PagedInv, UNCHANGED vars
    PROVE  PagedInv'
<1>1. UNCHANGED <<up, op>> /\ UNCHANGED engineVars /\ UNCHANGED sessionVars
  BY DEF vars
<1>2. UNCHANGED <<pool, dev, tables, record, cached, slots>>
  BY <1>1 DEF engineVars
<1>3. UNCHANGED <<lease, phase, toks, done, pos, solo>>
  BY <1>1 DEF sessionVars
<1>4. Typed' /\ Going' /\ Seated'
  BY <1>1, SameSessions
<1>5. Counted' /\ Mirrors(dev, pool)'
  BY <1>1, SameEngine
<1>6. Single' = Single /\ This' = This /\ Working' = Working /\ PendSeqs' = PendSeqs
  BY <1>1 DEF Single, This, Working, PendSeqs
<1>7. Tails'
  BY <1>1, <1>2, <1>6, SameTails DEF Adopting
<1>8. OpTyped(op') /\ OpShape' /\ OpStages'
  BY <1>1, <1>2, <1>6, SMTT(60) DEF PagedInv, OpSound, OpShape, OpStages
<1>9. Appending' /\ Pends'
  BY <1>1, <1>2, <1>3, <1>6 DEF PagedInv, OpSound, Appending, Appends, Coming, Pends, PendSound
<1> QED BY <1>4, <1>5, <1>7, <1>8, <1>9 DEF PagedInv, OpSound

\* Every step of the specification keeps the invariant.
LEMMA StepInv == PagedInv /\ [Next]_vars => PagedInv'
<1> SUFFICES ASSUME PagedInv, [Next]_vars PROVE PagedInv'
  OBVIOUS
<1>1. CASE UNCHANGED vars
  BY <1>1, StutterInv
<1>2. ASSUME NEW s \in Sessions, EnterPrefill(s) \/ EnterAcquire(s) \/ EnterDecode(s) \/ Drop(s)
      PROVE  PagedInv'
  BY <1>2, EnterPrefillInv, EnterAcquireInv, EnterDecodeInv, DropInv
<1>3. ASSUME NEW ss \in SUBSET Sessions, EnterBatch(ss)
      PROVE  PagedInv'
  BY <1>3, EnterBatchInv
<1>4. ASSUME Build \/ PastThreshold \/ Select \/ Adopt \/ CheckCursor \/ EnterRows
      PROVE  PagedInv'
  BY <1>4, BuildInv, PastThresholdInv, SelectInv, AdoptInv, CheckCursorInv, EnterRowsInv
<1>5. ASSUME PlanRow \/ DeviceFails \/ EvictPrefix \/ PoolExhausted
      PROVE  PagedInv'
  BY <1>5, PlanRowInv, DeviceFailsInv, EvictPrefixInv, PoolExhaustedInv
<1>6. ASSUME Forward \/ KernelFails \/ CommitRow \/ Finish
      PROVE  PagedInv'
  BY <1>6, ForwardInv, KernelFailsInv, CommitRowInv, FinishInv
<1>7. ASSUME AbortRow \/ ReleaseFails \/ EndAbort
      PROVE  PagedInv'
  BY <1>7, AbortRowInv, ReleaseFailsInv, EndAbortInv
<1> QED BY <1>1, <1>2, <1>3, <1>4, <1>5, <1>6, <1>7 DEF Next

\* In every behaviour the inductive invariant holds: reference counts are the
\* counts of holders, the device has the pages the pool has handed out, what an
\* operation has planned fits the tables it was planned for, and a last page that
\* is written next is its sequence's own (cuda_paged_kv.rs, inference.rs).
THEOREM PagedInvariant == Spec => []PagedInv
BY StartInv, StepInv, PTL DEF Spec

\* The invariant says of every page what PagesExact says.
LEMMA PagesAre == PagedInv => PagesExact
<1> SUFFICES ASSUME PagedInv PROVE PagesExact
  OBVIOUS
<1>1. /\ Typed /\ Going /\ OpTyped(op) /\ Store(tables, cached, op.pend)
      /\ Refers(pool, tables, cached, op.pend) /\ Mirrors(dev, pool)
  BY DEF PagedInv, OpSound, Counted
<1>2. TypeOK
  <2>1. pool \in Pools
    BY <1>1 DEF Refers, PoolSound
  <2>2. dev \in [Pages -> [gen : Nat, rows : [0 .. PageTokens - 1 -> Seq(Tokens)]]]
    BY <1>1 DEF Mirrors, DevPages
  <2>3. /\ DOMAIN tables \in SUBSET Sessions
        /\ \A s \in DOMAIN tables :
              tables[s] \in Tables /\ Len(tables[s].pages) = DivCeil(tables[s].len, PageTokens)
    BY <1>1 DEF Store, Sane, Fits
  <2>4. Cardinality(cached) <= 1
    BY <1>1 DEF Store
  <2>5. /\ op.kind \in {"idle", "prefill", "decode", "acquire", "batchPrefill", "batchDecode"}
        /\ op.stage \in {"none", "enter", "cursor", "prepare", "kernel", "commit", "abort"}
    BY <1>1 DEF OpTyped, Kinds, Stages
  <2>6. \A s \in Sessions : pos[s] <= Len(toks[s]) /\ done[s] <= Len(toks[s])
    BY <1>1 DEF Going, Progress
  <2>7. /\ up \in BOOLEAN /\ DOMAIN record \in SUBSET DOMAIN tables
        /\ slots \in [1 .. Slots -> [gen : Nat, holder : Sessions \cup {Nobody}]]
        /\ \A s \in Sessions : lease[s] \in SUBSET [slot : 1 .. Slots, gen : Nat]
        /\ phase \in [Sessions -> Phases] /\ solo \in SUBSET Sessions
    BY <1>1 DEF Typed
  <2> QED BY <2>1, <2>2, <2>3, <2>4, <2>5, <2>6, <2>7 DEF TypeOK
<1>3. RefsExact
  <2>1. \A p \in Pages : pool.refs[p] = Holders(p)
    BY <1>1, HoldersAre DEF Refers, Cnt
  <2>2. \A s \in DOMAIN tables : \A h \in Elems(tables[s].pages) : Live(pool, h)
    BY <1>1 DEF Refers, AllLive, Elems
  <2>3. \A c \in cached : \A h \in Elems(c.table.pages) : Live(pool, h)
    BY <1>1 DEF Refers, AllLive, Elems
  <2>4. Elems(pool.free) = {p \in 1 .. pool.used : pool.refs[p] = 0}
    BY <1>1 DEF Refers, PoolSound
  <2>5. Cardinality(Elems(pool.free)) = Len(pool.free)
    <3> DEFINE F == pool.free
               n == Len(F)
               vacant == {F[i] : i \in 1 .. n}
    <3>1. F \in Seq(Pages) /\ \A i, j \in DOMAIN F : F[i] = F[j] => i = j
      BY <1>1, PoolFields DEF Refers, PoolSound
    <3>2. n \in Nat /\ DOMAIN F = 1 .. n /\ Elems(F) = vacant
      BY <3>1 DEF Elems
    <3>3. F \in [1 .. n -> vacant] /\ \A v \in vacant : \E i \in 1 .. n : F[i] = v
      BY <3>1, <3>2
    <3> HIDE DEF F, n, vacant
    <3>4. F \in Bijection(1 .. n, vacant)
      BY <3>1, <3>2, <3>3 DEF Bijection, Injection, Surjection, IsInjective
    <3>5. Cardinality(vacant) = n
      BY <3>2, <3>4, FS_CountingElements DEF ExistsBijection
    <3> QED BY <3>2, <3>5 DEF F, n
  <2> QED BY <2>1, <2>2, <2>3, <2>4, <2>5 DEF RefsExact
<1>4. DeviceExact
  BY <1>1 DEF Mirrors, DeviceExact
<1> QED BY <1>2, <1>3, <1>4 DEF PagesExact

\* Pool, page tables and device agree about every page at every point of every
\* operation, its errors, aborts, evictions and teardowns included (the callers of
\* CudaKvPagePool in inference.rs and cuda_resident.rs), for any sizes.
THEOREM PagesAreExact == Spec => []PagesExact
BY PagedInvariant, PagesAre, PTL

\* The invariant makes the branches kept for an inconsistency unreachable.
LEMMA ConsistencyIs == PagedInv => NoInconsistency
<1> SUFFICES ASSUME PagedInv PROVE NoInconsistency
  OBVIOUS
<1>1. CommitsAccepted
  BY CommitFacts DEF CommitsAccepted
<1>2. SlotsMatchTables
  <2>1. /\ Seated /\ slots \in [1 .. Slots -> [gen : Nat, holder : Sessions \cup {Nobody}]]
        /\ lease \in [Sessions -> SUBSET [slot : 1 .. Slots, gen : Nat]]
    BY DEF PagedInv, Typed
  <2> SUFFICES ASSUME NEW s \in Sessions
               PROVE  /\ Cardinality(Holding(s)) = IF s \in DOMAIN tables THEN 1 ELSE 0
                      /\ s \in DOMAIN tables => LeaseValid(s)
    BY DEF SlotsMatchTables
  <2>2. s \in DOMAIN tables => LeaseValid(s)
    BY <2>1 DEF Seated
  <2>3. s # Nobody
    BY SessionAssumption
  <2>4. CASE s \in DOMAIN tables
    <3>1. PICK l \in lease[s] : slots[l.slot] = [gen |-> l.gen, holder |-> s]
      BY <2>2, <2>4 DEF LeaseValid
    <3>2. PICK k \in 1 .. Slots : k = l.slot
      BY <2>1
    <3>3. slots[k].holder = s
      BY <3>1, <3>2
    <3>4. \A j \in 1 .. Slots : slots[j].holder = s => j = k
      BY <2>1, <2>3, <3>3 DEF Seated
    <3>5. Holding(s) = {k}
      BY <3>3, <3>4 DEF Holding
    <3> QED BY <2>2, <2>4, <3>5, FS_Singleton
  <2>5. CASE s \notin DOMAIN tables
    <3>1. Holding(s) = {}
      BY <2>1, <2>3, <2>5 DEF Seated, Holding
    <3> QED BY <2>5, <3>1, FS_EmptySet
  <2> QED BY <2>4, <2>5
<1> QED BY <1>1, <1>2 DEF NoInconsistency

\* A commit is never refused by validate_append and a slot never lacks its table,
\* so the branches that drop the engine for an internal inconsistency are dead.
THEOREM NeverInconsistent == Spec => []NoInconsistency
BY PagedInvariant, ConsistencyIs, PTL

(***************************************************************************)
(* The size of the pool.                                                   *)
(***************************************************************************)

Prefills == op.kind \in {"prefill", "batchPrefill"}
Decodes  == op.kind \in {"decode", "batchDecode"}
Ahead    == Working /\ op.stage # "abort"

\* The streams of an operation are where it needs them: no other operation runs
\* until it has ended.
InStep ==
    /\ Prefills \/ op.kind = "acquire" => \A s \in Elems(op.rows) : phase[s] = "prefill"
    /\ Decodes => \A s \in Elems(op.rows) : phase[s] = "decode"

\* What is appended to s ends within the capacity.
Room(s) == tables[s].len + Coming(s) <= MaxPos
Roomy == Ahead /\ (op.kind # "batchDecode" \/ op.stage = "commit") =>
            \A s \in Elems(op.rows) : Room(s)

TablesFit  == \A s \in DOMAIN tables : tables[s].len <= MaxPos
PromptsFit == \A s \in Sessions : phase[s] = "prefill" => Len(toks[s]) <= MaxPos

SizeToBlame ==
    \/ MaxPos % PageTokens # 0
    \/ \E s \in Elems(op.rows) : tables[s].len >= MaxPos
Blamed == op.err = "capacity" => op.stage = "abort" /\ SizeToBlame

SizeInv == InStep /\ Roomy /\ TablesFit /\ PromptsFit /\ Blamed

\* Between operations nothing is appended, and no error is left to explain.
LEMMA RestedSize ==
    ASSUME op' = Idle
    PROVE  InStep' /\ Roomy' /\ Blamed'
<1>1. op'.kind = "idle" /\ op'.stage = "none" /\ op'.err = "none"
  BY DEF Idle
<1> QED BY <1>1 DEF InStep, Prefills, Decodes, Roomy, Ahead, Working, Blamed

\* An operation that begins has planned nothing and has no error yet.
LEMMA BegunSize ==
    ASSUME NEW kind, NEW rows, NEW in, op' = Begun(kind, rows, in)
    PROVE  Roomy' /\ Blamed' /\ op'.kind = kind /\ op'.rows = rows
<1>1. op'.stage = "enter" /\ op'.err = "none" /\ op'.kind = kind /\ op'.rows = rows
  BY DEF Begun
<1> QED BY <1>1 DEF Roomy, Ahead, Working, Blamed

\* The prompts in flight stay, but for those whose stream leaves the phase.
LEMMA PromptsKept ==
    ASSUME SizeInv,
           \A s \in Sessions : phase'[s] = "prefill" => phase[s] = "prefill" /\ toks'[s] = toks[s]
    PROVE  PromptsFit'
BY DEF SizeInv, PromptsFit

\* A new engine has no table that could be too long.
LEMMA EmptyFits ==
    ASSUME FreshEngine
    PROVE  TablesFit'
<1>1. DOMAIN tables' = {}
  BY DEF FreshEngine, NoEntries
<1> QED BY <1>1 DEF TablesFit

\* A stream that still prefills after a failure is one that did before.
LEMMA FailedPhase ==
    ASSUME PagedInv, NEW ss, Fail(ss), NEW s \in Sessions, phase'[s] = "prefill"
    PROVE  phase[s] = "prefill"
BY DEF Fail

\* Dropping the engine (Teardown) keeps SizeInv.
LEMMA TeardownSize ==
    ASSUME PagedInv, SizeInv, Teardown
    PROVE  SizeInv'
<1>1. InStep' /\ Roomy' /\ Blamed' /\ TablesFit'
  BY RestedSize, EmptyFits DEF Teardown
<1>2. PICK ss : Fail(ss)
  BY DEF Teardown
<1>3. PromptsFit'
  BY <1>2, FailedPhase, PromptsKept DEF Teardown
<1> QED BY <1>1, <1>3 DEF SizeInv

\* A prompt that is begun, or goes on, is within the capacity.
LEMMA PromptFits ==
    ASSUME PagedInv, SizeInv, NEW s \in Sessions, NEW prompt \in PromptOf(s), Prefilling(s, prompt)
    PROVE  PromptsFit' /\ phase'[s] = "prefill" /\ Len(prompt) <= MaxPos
<1>1. /\ phase[s] \in {"new", "prefill"} /\ toks' = [toks EXCEPT ![s] = prompt]
      /\ phase' = [phase EXCEPT ![s] = "prefill"]
      /\ toks \in [Sessions -> Seq(Tokens)] /\ phase \in [Sessions -> Phases]
  BY DEF Prefilling, PagedInv, Typed
<1>2. Len(prompt) <= MaxPos
  <2>1. CASE phase[s] = "new"
    <3>1. prompt \in Prefix
      BY <2>1 DEF PromptOf, Prompts
    <3>2. PICK n \in 0 .. MaxPos : prompt \in [1 .. n -> Tokens]
      BY <3>1 DEF Prefix
    <3>3. Len(prompt) = n
      BY <3>2
    <3> QED BY <3>2, <3>3, SizeAssumption
  <2>2. CASE phase[s] = "prefill"
    BY <2>2 DEF PromptOf, SizeInv, PromptsFit
  <2> QED BY <1>1, <2>1, <2>2
<1>3. ASSUME NEW x \in Sessions, phase'[x] = "prefill"
      PROVE  Len(toks'[x]) <= MaxPos
  BY <1>1, <1>2, <1>3 DEF SizeInv, PromptsFit
<1> QED BY <1>1, <1>2, <1>3 DEF PromptsFit

\* EnterPrefill keeps SizeInv.
LEMMA EnterPrefillSize ==
    ASSUME PagedInv, SizeInv, NEW s \in Sessions, EnterPrefill(s)
    PROVE  SizeInv'
<1>1. PICK prompt \in PromptOf(s) : \E end \in done[s] + 1 .. Len(prompt) :
         /\ Prefilling(s, prompt)
         /\ op' = Begun("prefill", <<s>>, [x \in {s} |-> SubSeq(prompt, done[s] + 1, end)])
  BY DEF EnterPrefill
<1>2. PICK end \in done[s] + 1 .. Len(prompt) :
         /\ Prefilling(s, prompt)
         /\ op' = Begun("prefill", <<s>>, [x \in {s} |-> SubSeq(prompt, done[s] + 1, end)])
  BY <1>1
<1>3. PromptsFit' /\ phase'[s] = "prefill"
  BY <1>2, PromptFits
<1>4. Roomy' /\ Blamed' /\ op'.kind = "prefill" /\ op'.rows = <<s>>
  BY <1>2, BegunSize
<1>5. InStep'
  BY <1>3, <1>4, OneRow DEF InStep, Prefills, Decodes
<1>6. TablesFit'
  BY DEF EnterPrefill, engineVars, SizeInv, TablesFit
<1> QED BY <1>3, <1>4, <1>5, <1>6 DEF SizeInv

\* EnterAcquire keeps SizeInv.
LEMMA EnterAcquireSize ==
    ASSUME PagedInv, SizeInv, NEW s \in Sessions, EnterAcquire(s)
    PROVE  SizeInv'
<1>1. PICK prompt \in PromptOf(s) : Prefilling(s, prompt)
  BY DEF EnterAcquire
<1>2. PromptsFit' /\ phase'[s] = "prefill"
  BY <1>1, PromptFits
<1>3. Roomy' /\ Blamed' /\ op'.kind = "acquire" /\ op'.rows = <<s>>
  BY BegunSize DEF EnterAcquire
<1>4. InStep'
  BY <1>2, <1>3, OneRow DEF InStep, Prefills, Decodes
<1>5. TablesFit'
  BY DEF EnterAcquire, engineVars, SizeInv, TablesFit
<1> QED BY <1>2, <1>3, <1>4, <1>5 DEF SizeInv

\* EnterDecode keeps SizeInv.
LEMMA EnterDecodeSize ==
    ASSUME PagedInv, SizeInv, NEW s \in Sessions, EnterDecode(s)
    PROVE  SizeInv'
<1>1. PICK t \in Tokens : op' = Begun("decode", <<s>>, [x \in {s} |-> <<t>>])
  BY DEF EnterDecode
<1>2. Roomy' /\ Blamed' /\ op'.kind = "decode" /\ op'.rows = <<s>>
  BY <1>1, BegunSize
<1>3. phase[s] = "decode" /\ UNCHANGED <<tables, phase, toks>>
  BY DEF EnterDecode, engineVars
<1>4. InStep'
  BY <1>2, <1>3, OneRow DEF InStep, Prefills, Decodes
<1> QED BY <1>2, <1>3, <1>4, PromptsKept DEF SizeInv, TablesFit

\* EnterBatch keeps SizeInv.
LEMMA EnterBatchSize ==
    ASSUME PagedInv, SizeInv, NEW ss \in SUBSET Sessions, EnterBatch(ss)
    PROVE  SizeInv'
<1>1. UNCHANGED <<tables, phase, toks>> /\ Cardinality(ss) >= 2
  BY DEF EnterBatch, engineVars, sessionVars
<1>2. PICK rows \in Orders(ss) :
         \/ /\ \A s \in ss : phase[s] = "prefill"
            /\ op' = Begun("batchPrefill", rows, [s \in ss |-> <<toks[s][done[s] + 1]>>])
         \/ /\ \A s \in ss : phase[s] = "decode" /\ Len(toks[s]) < MaxTokens
            /\ \E in \in [ss -> Tokens] :
                  op' = Begun("batchDecode", rows, [s \in ss |-> <<in[s]>>])
  BY DEF EnterBatch
<1>3. Elems(rows) = ss
  BY <1>1, OrdersAre
<1>4. Roomy' /\ Blamed' /\ InStep'
  <2>1. CASE /\ \A s \in ss : phase[s] = "prefill"
             /\ op' = Begun("batchPrefill", rows, [s \in ss |-> <<toks[s][done[s] + 1]>>])
    <3>1. Roomy' /\ Blamed' /\ op'.kind = "batchPrefill" /\ op'.rows = rows
      BY <2>1, BegunSize
    <3> QED BY <1>1, <1>3, <2>1, <3>1 DEF InStep, Prefills, Decodes
  <2>2. CASE /\ \A s \in ss : phase[s] = "decode"
             /\ \E in \in [ss -> Tokens] :
                   op' = Begun("batchDecode", rows, [s \in ss |-> <<in[s]>>])
    <3>1. PICK in \in [ss -> Tokens] : op' = Begun("batchDecode", rows, [s \in ss |-> <<in[s]>>])
      BY <2>2
    <3>2. Roomy' /\ Blamed' /\ op'.kind = "batchDecode" /\ op'.rows = rows
      BY <3>1, BegunSize
    <3> QED BY <1>1, <1>3, <2>2, <3>2 DEF InStep, Prefills, Decodes
  <2> QED BY <1>2, <2>1, <2>2
<1> QED BY <1>1, <1>4, PromptsKept DEF SizeInv, TablesFit

\* Declined keeps SizeInv: the step goes on on the CPU, or fails.
LEMMA DeclinedSize ==
    ASSUME PagedInv, SizeInv, Declined, op.kind # "idle", UNCHANGED tables
    PROVE  SizeInv'
<1>1. InStep' /\ Roomy' /\ Blamed'
  BY RestedSize DEF Declined
<1>2. This \in Sessions /\ This \in Elems(op.rows)
  BY ThisIs
<1>3. toks \in [Sessions -> Seq(Tokens)] /\ phase \in [Sessions -> Phases]
  BY DEF PagedInv, Typed
<1>4. PromptsFit'
  <2> SUFFICES ASSUME NEW s \in Sessions, phase'[s] = "prefill"
               PROVE  phase[s] = "prefill" /\ toks'[s] = toks[s]
    BY PromptsKept
  <2>1. CASE UNCHANGED toks
    <3>1. phase[s] = "prefill"
      <4>1. CASE phase' = [phase EXCEPT ![This] = "decode"]
        BY <1>2, <1>3, <4>1
      <4>2. CASE \E ss : Fail(ss)
        BY <4>2, FailedPhase
      <4>3. CASE UNCHANGED phase
        BY <4>3
      <4> QED BY <4>1, <4>2, <4>3 DEF Declined
    <3> QED BY <2>1, <3>1
  <2>2. CASE op.kind = "decode" /\ toks' = [toks EXCEPT ![This] = @ \o op.in[This]] /\ UNCHANGED phase
    <3>1. phase[This] = "decode"
      BY <1>2, <2>2 DEF SizeInv, InStep, Decodes
    <3> QED BY <1>3, <2>2, <3>1
  <2> QED BY <2>1, <2>2 DEF Declined
<1>5. TablesFit'
  BY DEF SizeInv, TablesFit
<1> QED BY <1>1, <1>4, <1>5 DEF SizeInv

\* An operation that goes on with its streams and tables as they are.
LEMMA StaysSize ==
    ASSUME SizeInv, op'.kind = op.kind, op'.rows = op.rows, UNCHANGED <<tables, phase, toks>>
    PROVE  InStep' /\ TablesFit' /\ PromptsFit'
<1>1. PromptsFit'
  BY PromptsKept
<1> QED BY <1>1 DEF SizeInv, InStep, Prefills, Decodes, TablesFit

\* Errors are blamed on the size only when the operation is given up.
LEMMA NotBlamed ==
    ASSUME SizeInv, op.stage # "abort", op'.err = op.err
    PROVE  Blamed'
BY DEF SizeInv, Blamed

\* A step that is refused and fails its streams keeps SizeInv.
LEMMA FailsSize ==
    ASSUME PagedInv, SizeInv, NEW ss, Fail(ss), op' = Idle, UNCHANGED <<tables, toks>>
    PROVE  SizeInv'
<1>1. PromptsFit'
  BY FailedPhase, PromptsKept
<1>2. TablesFit'
  BY DEF SizeInv, TablesFit
<1> QED BY <1>1, <1>2, RestedSize DEF SizeInv

\* Build keeps SizeInv.
LEMMA BuildSize ==
    ASSUME PagedInv, SizeInv, Build
    PROVE  SizeInv'
<1>1. op.stage = "enter" /\ op.kind # "idle"
  BY DEF Build, PagedInv, OpSound, OpShape, Idle
<1>2. CASE FreshEngine /\ UNCHANGED sessionVars /\ UNCHANGED op
  <2>1. UNCHANGED <<phase, toks>>
    BY <1>2 DEF sessionVars
  <2>2. InStep' /\ Roomy' /\ Blamed'
    BY <1>1, <1>2, <2>1 DEF SizeInv, InStep, Prefills, Decodes, Roomy, Ahead, Working, Blamed
  <2> QED BY <1>2, <2>1, <2>2, EmptyFits, PromptsKept DEF SizeInv
<1>3. CASE Declined /\ UNCHANGED <<up, engineVars, lease>>
  BY <1>1, <1>3, DeclinedSize DEF engineVars
<1> QED BY <1>2, <1>3 DEF Build

\* PastThreshold keeps SizeInv.
LEMMA PastThresholdSize ==
    ASSUME PagedInv, SizeInv, PastThreshold
    PROVE  SizeInv'
BY DeclinedSize DEF PastThreshold, engineVars

\* Select keeps SizeInv.
LEMMA SelectSize ==
    ASSUME PagedInv, SizeInv, Select
    PROVE  SizeInv'
<1>1. op.stage = "enter" /\ op.kind # "idle"
  BY DEF Select, PagedInv, OpSound, OpShape, Idle
<1>2. CASE Teardown
  BY <1>2, TeardownSize
<1>3. CASE Declined /\ UNCHANGED <<up, engineVars>>
  BY <1>1, <1>3, DeclinedSize DEF engineVars
<1>4. CASE op' = [op EXCEPT !.stage = "cursor"]
           /\ (UNCHANGED engineVars \/ tables' = Put(tables, This, EmptyTable))
           /\ UNCHANGED <<phase, toks>>
  <2>1. op'.stage = "cursor" /\ op'.kind = op.kind /\ op'.rows = op.rows /\ op'.err = op.err
    BY <1>1, <1>4, Advances DEF Stages
  <2>2. InStep' /\ Roomy' /\ PromptsFit'
    BY <1>4, <2>1, PromptsKept DEF SizeInv, InStep, Prefills, Decodes, Roomy, Ahead, Working
  <2>3. TablesFit'
    <3>1. CASE UNCHANGED engineVars
      BY <3>1 DEF SizeInv, TablesFit, engineVars
    <3>2. CASE tables' = Put(tables, This, EmptyTable)
      BY <3>2, SizeAssumption DEF SizeInv, TablesFit, Put, EmptyTable
    <3> QED BY <1>4, <3>1, <3>2
  <2> QED BY <1>1, <2>1, <2>2, <2>3, NotBlamed DEF SizeInv
<1> QED BY <1>2, <1>3, <1>4 DEF Select, sessionVars

\* CheckCursor keeps SizeInv.
LEMMA CheckCursorSize ==
    ASSUME PagedInv, SizeInv, CheckCursor
    PROVE  SizeInv'
<1>0. PICK s : s = This
  OBVIOUS
<1>1. op.stage = "cursor" /\ op.kind # "idle"
  BY DEF CheckCursor, PagedInv, OpSound, OpShape, Idle
<1>2. CASE op' = Idle /\ UNCHANGED engineVars /\ UNCHANGED sessionVars
  <2>1. TablesFit' /\ PromptsFit'
    BY <1>2, PromptsKept DEF engineVars, sessionVars, SizeInv, TablesFit
  <2> QED BY <1>2, <2>1, RestedSize DEF SizeInv
<1>3. CASE /\ (\E ss : Fail(ss)) /\ op' = Idle /\ UNCHANGED engineVars /\ UNCHANGED toks
  BY <1>3, FailsSize DEF engineVars
<1>4. CASE Declined /\ UNCHANGED engineVars
  BY <1>1, <1>4, DeclinedSize DEF engineVars
<1>5. CASE /\ op.kind # "acquire"
           /\ (IF op.kind = "decode" THEN pos[s] ELSE done[s]) < MaxPos
           /\ tables[s].len = IF op.kind = "decode" THEN pos[s] ELSE done[s]
           /\ op' = [op EXCEPT !.stage = "prepare"]
           /\ UNCHANGED engineVars /\ UNCHANGED sessionVars
  <2>1. /\ op'.stage = "prepare" /\ op'.kind = op.kind /\ op'.rows = op.rows /\ op'.err = op.err
        /\ op'.in = op.in /\ op'.todo = op.todo /\ PendSeqs' = PendSeqs
    BY <1>1, <1>5, Advances DEF Stages
  <2>2. UNCHANGED <<tables, phase, toks, done, pos>>
    BY <1>5 DEF engineVars, sessionVars
  <2>3. OpTyped(op) /\ OpShape /\ OpStages /\ Appending
    BY DEF PagedInv, OpSound
  <2>4. Single /\ s \in Sessions /\ Elems(op.rows) = {s} /\ op.rows \in Seq(Sessions)
    BY <1>0, <1>1, <2>3, ThisIs DEF OpStages, OpTyped
  <2>5. /\ Appends(s) /\ op.in[s] \in Seq(Tokens) /\ Len(op.in[s]) \in Nat
        /\ Coming(s) \in 0 .. Len(op.in[s])
    <3>1. Appends(s) /\ op.in[s] \in Seq(Tokens)
      BY <2>3, <2>4 DEF Appending, OpTyped
    <3>2. Len(op.in[s]) \in Nat
      BY <3>1
    <3> QED BY <3>1, <3>2 DEF Coming
  <2>6. Typed
    BY DEF PagedInv
  <2>7. tables[s].len + Coming(s) <= MaxPos
    <3>1. CASE op.kind = "decode"
      <4>1. Len(op.in[s]) = 1 /\ tables[s].len = pos[s] /\ pos[s] \in Nat /\ pos[s] < MaxPos
        BY <1>5, <2>4, <2>5, <2>6, <3>1 DEF Appends, Typed
      <4> QED BY <2>5, <4>1, SizeAssumption
    <3>2. CASE op.kind = "prefill"
      <4>1. /\ done[s] + Len(op.in[s]) <= Len(toks[s]) /\ tables[s].len = done[s] /\ done[s] \in Nat
            /\ toks[s] \in Seq(Tokens)
        BY <1>1, <1>5, <2>4, <2>5, <2>6, <3>2 DEF Appends, Typed
      <4>2. phase[s] = "prefill"
        BY <2>4, <3>2 DEF SizeInv, InStep, Prefills
      <4>3. Len(toks[s]) <= MaxPos /\ Len(toks[s]) \in Nat
        BY <2>4, <4>1, <4>2 DEF SizeInv, PromptsFit
      <4> QED BY <2>5, <4>1, <4>3, SizeAssumption
    <3> QED BY <1>5, <2>4, <3>1, <3>2 DEF Single
  <2>8. Roomy'
    <3>1. Coming(s)' = Coming(s)
      BY <2>1 DEF Coming
    <3> QED BY <2>1, <2>2, <2>4, <2>7, <3>1 DEF Roomy, Room
  <2> QED BY <1>1, <2>1, <2>2, <2>8, StaysSize, NotBlamed DEF SizeInv
<1> QED BY <1>0, <1>2, <1>3, <1>4, <1>5 DEF CheckCursor

\* EnterRows keeps SizeInv.
LEMMA EnterRowsSize ==
    ASSUME PagedInv, SizeInv, EnterRows
    PROVE  SizeInv'
<1>1. op.stage = "enter" /\ ~Single
  BY DEF EnterRows
<1>2. CASE (\E ss : Fail(ss)) /\ op' = Idle /\ UNCHANGED engineVars /\ UNCHANGED toks
  BY <1>2, FailsSize DEF engineVars
<1>3. CASE /\ \A s \in Elems(op.rows) :
                 tables[s].len = IF op.kind = "batchDecode" THEN pos[s] ELSE done[s]
           /\ op' = [op EXCEPT !.stage = "prepare"]
           /\ UNCHANGED engineVars /\ UNCHANGED sessionVars
  <2>1. /\ op'.stage = "prepare" /\ op'.kind = op.kind /\ op'.rows = op.rows /\ op'.err = op.err
        /\ op'.in = op.in /\ op'.todo = op.todo /\ PendSeqs' = PendSeqs
    BY <1>1, <1>3, Advances DEF Stages
  <2>2. UNCHANGED <<tables, phase, toks>>
    BY <1>3 DEF engineVars, sessionVars
  <2>3. OpTyped(op) /\ OpShape /\ Appending /\ Typed
    BY DEF PagedInv, OpSound
  <2>4. ASSUME op.kind # "batchDecode", NEW s \in Elems(op.rows)
        PROVE  Room(s)'
    <3>1. op.kind = "batchPrefill"
      BY <1>1, <2>3, <2>4 DEF Single, OpTyped, OpShape, Kinds, Idle
    <3>2. s \in Sessions
      BY <2>3 DEF OpTyped, Elems
    <3>3. /\ done[s] + Len(op.in[s]) <= Len(toks[s]) /\ tables[s].len = done[s] /\ done[s] \in Nat
          /\ toks[s] \in Seq(Tokens) /\ op.in[s] \in Seq(Tokens)
      BY <1>1, <1>3, <2>3, <3>1, <3>2 DEF Appending, Appends, Typed, OpTyped
    <3>4. phase[s] = "prefill"
      BY <3>1 DEF SizeInv, InStep, Prefills
    <3>5. Len(toks[s]) <= MaxPos /\ Len(toks[s]) \in Nat /\ Len(op.in[s]) \in Nat
      BY <3>2, <3>3, <3>4 DEF SizeInv, PromptsFit
    <3>6. Coming(s)' \in 0 .. Len(op.in[s])
      BY <2>1, <3>5 DEF Coming
    <3>7. tables[s].len + Coming(s)' <= MaxPos
      BY <3>3, <3>5, <3>6, SizeAssumption
    <3> QED BY <2>2, <3>7 DEF Room
  <2>5. Roomy'
    BY <2>1, <2>4 DEF Roomy
  <2> QED BY <1>1, <2>1, <2>2, <2>5, StaysSize, NotBlamed DEF SizeInv
<1> QED BY <1>2, <1>3 DEF EnterRows

\* An operation that is given up.
LEMMA AbortsSize ==
    ASSUME PagedInv, SizeInv, op.stage # "none", NEW e, op' = [op EXCEPT !.stage = "abort", !.err = e],
           UNCHANGED <<tables, phase, toks>>, e = "capacity" => SizeToBlame
    PROVE  SizeInv'
<1>1. OpTyped(op)
  BY DEF PagedInv, OpSound
<1>2. op' = [kind |-> op.kind, stage |-> "abort", rows |-> op.rows, in |-> op.in,
             todo |-> op.todo, pend |-> op.pend, err |-> e]
  BY <1>1 DEF OpTyped
<1>3. op'.stage = "abort" /\ op'.kind = op.kind /\ op'.rows = op.rows /\ op'.err = e
  BY <1>2
<1>4. Roomy' /\ Blamed'
  BY <1>3 DEF Roomy, Ahead, Blamed, SizeToBlame
<1> QED BY <1>3, <1>4, StaysSize DEF SizeInv

\* DeviceFails keeps SizeInv.
LEMMA DeviceFailsSize ==
    ASSUME PagedInv, SizeInv, DeviceFails
    PROVE  SizeInv'
<1>0. PICK e : e = "device"
  OBVIOUS
<1>1. /\ e # "capacity" /\ op.stage # "none" /\ op' = [op EXCEPT !.stage = "abort", !.err = e]
      /\ UNCHANGED <<tables, phase, toks>>
  BY <1>0 DEF DeviceFails, sessionVars
<1> QED BY <1>1, AbortsSize, ZenonT(30)

\* KernelFails keeps SizeInv.
LEMMA KernelFailsSize ==
    ASSUME PagedInv, SizeInv, KernelFails
    PROVE  SizeInv'
<1>1. PICK e : e = IF OutOfRange THEN "position" ELSE "kernel"
  OBVIOUS
<1>2. e # "capacity" /\ op.stage # "none" /\ op' = [op EXCEPT !.stage = "abort", !.err = e]
  BY <1>1 DEF KernelFails
<1>3. UNCHANGED <<tables, phase, toks>>
  BY DEF KernelFails, engineVars, sessionVars
<1> QED BY <1>2, <1>3, AbortsSize, ZenonT(30)

\* EvictPrefix keeps SizeInv.
LEMMA EvictPrefixSize ==
    ASSUME PagedInv, SizeInv, EvictPrefix
    PROVE  SizeInv'
BY DEF EvictPrefix, sessionVars, SizeInv, InStep, Prefills, Decodes, Roomy, Room, Coming,
       PendSeqs, Ahead, Working, TablesFit, PromptsFit, Blamed, SizeToBlame

\* ReleaseFails keeps SizeInv.
LEMMA ReleaseFailsSize ==
    ASSUME PagedInv, SizeInv, ReleaseFails
    PROVE  SizeInv'
BY TeardownSize DEF ReleaseFails

\* EndAbort keeps SizeInv.
LEMMA EndAbortSize ==
    ASSUME PagedInv, SizeInv, EndAbort
    PROVE  SizeInv'
<1>1. CASE op' = Idle /\ UNCHANGED <<tables, phase, toks>>
  <2>1. TablesFit' /\ PromptsFit'
    BY <1>1, PromptsKept DEF SizeInv, TablesFit
  <2> QED BY <1>1, <2>1, RestedSize DEF SizeInv
<1>2. CASE Teardown
  BY <1>2, TeardownSize
<1> QED BY <1>1, <1>2 DEF EndAbort, engineVars

\* AbortRow keeps SizeInv.
LEMMA AbortRowSize ==
    ASSUME PagedInv, SizeInv, AbortRow
    PROVE  SizeInv'
<1>0. PICK D : D = SubSeq(op.pend, 1, Len(op.pend) - 1)
  OBVIOUS
<1>1. op.stage = "abort" /\ UNCHANGED <<tables, phase, toks>> /\ op' = [op EXCEPT !.pend = D]
  BY <1>0 DEF AbortRow, sessionVars
<1>2. OpTyped(op)
  BY DEF PagedInv, OpSound
<1>3. op' = [kind |-> op.kind, stage |-> op.stage, rows |-> op.rows, in |-> op.in,
             todo |-> op.todo, pend |-> D, err |-> op.err]
  BY <1>1, <1>2 DEF OpTyped
<1>4. op'.stage = "abort" /\ op'.kind = op.kind /\ op'.rows = op.rows /\ op'.err = op.err
  BY <1>1, <1>3
<1>5. Roomy' /\ Blamed'
  BY <1>1, <1>4 DEF Roomy, Ahead, Blamed, SizeToBlame, SizeInv
<1> QED BY <1>1, <1>4, <1>5, StaysSize DEF SizeInv

\* Forward keeps SizeInv.
LEMMA ForwardSize ==
    ASSUME PagedInv, SizeInv, Forward
    PROVE  SizeInv'
<1>1. /\ op.stage = "kernel" /\ ~OutOfRange /\ op' = [op EXCEPT !.stage = "commit"]
      /\ UNCHANGED <<tables, phase, toks>>
  BY DEF Forward, sessionVars
<1>2. /\ op'.stage = "commit" /\ op'.kind = op.kind /\ op'.rows = op.rows /\ op'.err = op.err
      /\ op'.in = op.in /\ op'.todo = op.todo /\ PendSeqs' = PendSeqs
  BY <1>1, Advances DEF Stages
<1>3. OpTyped(op) /\ OpShape /\ OpStages /\ Appending /\ Pends /\ Ahead /\ Working
  BY <1>1 DEF PagedInv, OpSound, Ahead, Working
<1>4. ASSUME NEW s \in Elems(op.rows)
      PROVE  Room(s)'
  <2>1. Coming(s)' = Coming(s)
    BY <1>2 DEF Coming
  <2>2. CASE op.kind # "batchDecode"
    BY <1>1, <1>3, <2>1, <2>2 DEF SizeInv, Roomy, Room
  <2>3. CASE op.kind = "batchDecode"
    <3>1. s \in DOMAIN tables /\ s \in Sessions
      BY <1>3 DEF OpStages, OpTyped, Elems
    <3>2. Sane(tables[s])
      BY <3>1, TableTail
    <3>3. tables[s].len \in Nat /\ tables[s].len <= MaxPos
      BY <3>1, <3>2 DEF Sane, Tables, SizeInv, TablesFit
    <3>4. CASE s \in PendSeqs
      <4>1. PICK i \in DOMAIN op.pend : op.pend[i].seq = s
        BY <3>4 DEF PendSeqs
      <4>2. op.pend[i].from < MaxPos
        <5>1. ~Single
          BY <2>3 DEF Single
        <5>2. op.pend[i].from \in Nat
          <6>1. op.pend \in Seq(Pending)
            BY <1>3 DEF OpTyped
          <6>2. op.pend[i] \in Pending
            BY <4>1, <6>1
          <6> QED BY <6>2 DEF Pending
        <5> QED BY <1>1, <5>1, <5>2, SizeAssumption DEF OutOfRange
      <4>3. tables[s].len < MaxPos
        BY <1>3, <4>1, <4>2 DEF Pends, PendSound
      <4>4. Len(op.in[s]) = 1
        BY <1>3, <2>3 DEF Appending, Appends
      <4>5. Coming(s) \in {0, 1}
        BY <4>4 DEF Coming
      <4> QED BY <1>1, <2>1, <3>3, <4>3, <4>5, SizeAssumption DEF Room
    <3>5. CASE s \notin PendSeqs
      <4>1. Elems(op.todo) = {}
        BY <1>1, <1>3 DEF OpStages, Elems
      <4>2. Coming(s) = 0
        BY <3>5, <4>1 DEF Coming
      <4> QED BY <1>1, <2>1, <3>3, <4>2 DEF Room
    <3> QED BY <3>4, <3>5
  <2> QED BY <2>2, <2>3
<1>5. Roomy'
  BY <1>2, <1>4 DEF Roomy
<1> QED BY <1>1, <1>2, <1>5, StaysSize, NotBlamed DEF SizeInv

\* What planning a row does to the operation.
LEMMA PlanMoves ==
    ASSUME PagedInv, PlanRow
    PROVE  /\ op.stage = "prepare" /\ op'.stage \in {"prepare", "kernel"}
           /\ op'.kind = op.kind /\ op'.rows = op.rows /\ op'.in = op.in /\ op'.err = op.err
           /\ op'.todo = Tail(op.todo)
           /\ Elems(op'.todo) \cup PendSeqs' = Elems(op.todo) \cup PendSeqs
           /\ UNCHANGED <<tables, record, cached>> /\ UNCHANGED sessionVars
<1>1. PICK r : r = [seq |-> Row, from |-> tables[Row].len, pages |-> Planned(pool, tables[Row], Count),
                    alloc |-> PickedHandles(pool, Need), cow |-> CopiesTail(pool, tables[Row], Count)]
  OBVIOUS
<1>2. /\ op.stage = "prepare" /\ Need <= Available(pool)
      /\ op' = [op EXCEPT !.todo = Tail(@), !.stage = IF Len(op.todo) = 1 THEN "kernel" ELSE @,
                          !.pend = Append(@, r)]
      /\ UNCHANGED <<tables, record, cached>> /\ UNCHANGED sessionVars
  BY <1>1 DEF PlanRow
<1>3. OpTyped(op) /\ OpStages
  BY DEF PagedInv, OpSound
<1>4. op.pend \in Seq(Pending) /\ op.todo \in Seq(Sessions) /\ op.todo # <<>>
  BY <1>2, <1>3 DEF OpTyped, OpStages
<1> DEFINE D == Append(op.pend, r)
           td == Tail(op.todo)
           st == IF Len(op.todo) = 1 THEN "kernel" ELSE op.stage
<1>5. r \in Pending /\ r.seq = Row
  BY <1>1, <1>2, PlannedIs
<1>6. {D[i].seq : i \in DOMAIN D} = PendSeqs \cup {Row}
  BY <1>4, <1>5, AppendSeqs DEF PendSeqs
<1>7. Elems(op.todo) = Elems(td) \cup {Row}
  BY <1>4, TailSeq DEF Row
<1>8. op' = [kind |-> op.kind, stage |-> st, rows |-> op.rows, in |-> op.in,
             todo |-> td, pend |-> D, err |-> op.err]
  BY <1>2, <1>3 DEF OpTyped
<1>9. st \in {"prepare", "kernel"}
  BY <1>2
<1> HIDE DEF D, td, st
<1>10. /\ op'.stage \in {"prepare", "kernel"} /\ op'.todo = td /\ op'.pend = D
       /\ op'.kind = op.kind /\ op'.rows = op.rows /\ op'.in = op.in /\ op'.err = op.err
  BY <1>8, <1>9
<1>11. PendSeqs' = PendSeqs \cup {Row}
  BY <1>6, <1>10 DEF PendSeqs
<1> QED BY <1>2, <1>7, <1>10, <1>11 DEF td

\* PlanRow keeps SizeInv.
LEMMA PlanRowSize ==
    ASSUME PagedInv, SizeInv, PlanRow
    PROVE  SizeInv'
<1>1. /\ op.stage = "prepare" /\ op'.stage \in {"prepare", "kernel"}
      /\ op'.kind = op.kind /\ op'.rows = op.rows /\ op'.in = op.in /\ op'.err = op.err
      /\ Elems(op'.todo) \cup PendSeqs' = Elems(op.todo) \cup PendSeqs
      /\ UNCHANGED <<tables, phase, toks>>
  BY PlanMoves DEF sessionVars
<1>2. \A s : Coming(s)' = Coming(s)
  BY <1>1 DEF Coming
<1>3. Roomy'
  BY <1>1, <1>2 DEF SizeInv, Roomy, Room, Ahead, Working
<1> QED BY <1>1, <1>3, StaysSize, NotBlamed DEF SizeInv

\* Finish keeps SizeInv.
LEMMA FinishSize ==
    ASSUME PagedInv, SizeInv, Finish
    PROVE  SizeInv'
<1>1. /\ op' = Idle /\ UNCHANGED tables /\ This \in Sessions /\ This \in Elems(op.rows)
  BY Finishes
<1>2. Typed
  BY DEF PagedInv
<1>3. PromptsFit'
  <2> SUFFICES ASSUME NEW s \in Sessions, phase'[s] = "prefill"
               PROVE  phase[s] = "prefill" /\ toks'[s] = toks[s]
    BY PromptsKept
  <2>1. CASE FinishPrefill
    <3>1. UNCHANGED toks
      BY <2>1 DEF FinishPrefill
    <3>2. \/ UNCHANGED phase \/ phase' = [phase EXCEPT ![This] = "decode"] \/ Fail({This})
      BY <2>1 DEF FinishPrefill
    <3>3. phase[s] = "prefill"
      BY <1>1, <1>2, <3>2 DEF Typed, Fail
    <3> QED BY <3>1, <3>3
  <2>2. CASE FinishDecode
    <3>1. phase[This] = "decode" /\ UNCHANGED phase /\ toks' = [toks EXCEPT ![This] = @ \o op.in[This]]
      BY <1>1, <2>2 DEF FinishDecode, SizeInv, InStep, Decodes
    <3> QED BY <1>2, <3>1 DEF Typed
  <2>3. CASE FinishBatch
    <3>1. CASE op.kind = "batchDecode" /\ UNCHANGED phase
               /\ toks' = [x \in Sessions |-> IF x \in Elems(op.rows) THEN toks[x] \o op.in[x] ELSE toks[x]]
      BY <3>1 DEF SizeInv, InStep, Decodes
    <3>2. CASE UNCHANGED toks /\ \E ended : phase' = [x \in Sessions |-> IF x \in ended THEN "decode" ELSE phase[x]]
      <4>1. PICK ended : phase' = [x \in Sessions |-> IF x \in ended THEN "decode" ELSE phase[x]]
        BY <3>2
      <4> QED BY <3>2, <4>1
    <3> QED BY <2>3, <3>1, <3>2 DEF FinishBatch
  <2> QED BY <2>1, <2>2, <2>3 DEF Finish
<1>4. TablesFit'
  BY <1>1 DEF SizeInv, TablesFit
<1> QED BY <1>1, <1>3, <1>4, RestedSize DEF SizeInv

\* Drop keeps SizeInv.
LEMMA DropSize ==
    ASSUME PagedInv, SizeInv, NEW s \in Sessions, Drop(s)
    PROVE  SizeInv'
<1>1. op' = Idle /\ Gone(s)
  BY DEF Drop
<1>2. PromptsFit'
  BY <1>1, PromptsKept DEF Gone, PagedInv, Typed
<1>3. TablesFit'
  <2>1. CASE UNCHANGED engineVars
    BY <2>1 DEF engineVars, SizeInv, TablesFit
  <2>2. CASE tables' = Without(tables, s)
    BY <2>2 DEF Without, SizeInv, TablesFit
  <2>3. CASE FreshEngine
    BY <2>3, EmptyFits
  <2> QED BY <2>1, <2>2, <2>3 DEF Drop
<1> QED BY <1>1, <1>2, <1>3, RestedSize DEF SizeInv

\* What committing a row does to the tables and the operation.
LEMMA CommitMoves ==
    ASSUME PagedInv, CommitRow, ~Teardown
    PROVE  LET r == Head(op.pend)
               m == r.from + Len(op.in[r.seq])
           IN  /\ op.stage = "commit" /\ op.pend # <<>>
               /\ tables' = [tables EXCEPT ![r.seq] = [pages |-> r.pages, len |-> m]]
               /\ DOMAIN tables' = DOMAIN tables
               /\ tables'[r.seq] = [pages |-> r.pages, len |-> m]
               /\ \A x \in DOMAIN tables : x # r.seq => tables'[x] = tables[x]
               /\ op'.pend = Tail(op.pend) /\ PendSeqs' = PendSeqs \ {r.seq}
               /\ op'.stage = "commit" /\ op'.kind = op.kind /\ op'.rows = op.rows
               /\ op'.in = op.in /\ op'.todo = op.todo /\ op'.err = op.err
               /\ op.todo = <<>>
               /\ UNCHANGED <<dev, record, cached>> /\ UNCHANGED sessionVars
<1>0. PICK r : r = Head(op.pend)
  OBVIOUS
<1>1. PICK m : m = r.from + Len(op.in[r.seq])
  OBVIOUS
<1>2. PICK D : D = Tail(op.pend)
  OBVIOUS
<1>3. PICK s : s = r.seq
  OBVIOUS
<1>4. /\ op.stage = "commit" /\ op.pend # <<>>
      /\ tables' = [tables EXCEPT ![s] = [pages |-> r.pages, len |-> m]]
      /\ op' = [op EXCEPT !.pend = D]
      /\ UNCHANGED <<dev, record, cached>> /\ UNCHANGED sessionVars
  BY <1>0, <1>1, <1>2, <1>3 DEF CommitRow
<1>5. s \in DOMAIN tables
  BY <1>0, <1>3, <1>4, CommitFacts
<1>6. D \in Seq(Pending) /\ SeqsOf(D) = PendSeqs \ {s}
  BY <1>0, <1>2, <1>3, <1>4, TailPends
<1>7. /\ op'.pend = D /\ op'.stage = op.stage /\ op'.kind = op.kind /\ op'.rows = op.rows
      /\ op'.in = op.in /\ op'.todo = op.todo /\ op'.err = op.err
  BY <1>4, <1>6, PendUpdate
<1>8. PendSeqs' = PendSeqs \ {s}
  BY <1>6, <1>7 DEF PendSeqs, SeqsOf
<1>9. tables \in [DOMAIN tables -> Tables]
  BY DEF PagedInv, Counted, Store
<1>10. /\ DOMAIN tables' = DOMAIN tables /\ tables'[s] = [pages |-> r.pages, len |-> m]
       /\ \A x \in DOMAIN tables : x # s => tables'[x] = tables[x]
  BY <1>4, <1>5, <1>9
<1>11. op.todo = <<>>
  BY <1>4 DEF PagedInv, OpSound, OpStages
<1> QED BY <1>0, <1>1, <1>2, <1>3, <1>4, <1>7, <1>8, <1>10, <1>11

\* CommitRow keeps SizeInv.
LEMMA CommitRowSize ==
    ASSUME PagedInv, SizeInv, CommitRow
    PROVE  SizeInv'
<1>1. CASE Teardown
  BY <1>1, TeardownSize
<1>2. CASE ~Teardown
  <2>0. PICK r : r = Head(op.pend)
    OBVIOUS
  <2>1. PICK m : m = r.from + Len(op.in[r.seq])
    OBVIOUS
  <2>2. PICK s : s = r.seq
    OBVIOUS
  <2>3. /\ op.stage = "commit" /\ op.pend # <<>>
        /\ DOMAIN tables' = DOMAIN tables
        /\ tables'[s] = [pages |-> r.pages, len |-> m]
        /\ \A x \in DOMAIN tables : x # s => tables'[x] = tables[x]
        /\ PendSeqs' = PendSeqs \ {s}
        /\ op'.stage = "commit" /\ op'.kind = op.kind /\ op'.rows = op.rows
        /\ op'.in = op.in /\ op'.todo = op.todo /\ op'.err = op.err /\ op.todo = <<>>
        /\ UNCHANGED sessionVars
    BY <1>2, <2>0, <2>1, <2>2, CommitMoves, SMTT(30)
  <2>4. /\ s \in DOMAIN tables /\ s \in Elems(op.rows) /\ s \in PendSeqs /\ m \in Nat
        /\ PendSound(r)
    BY <2>0, <2>1, <2>2, <2>3, CommitFacts
  <2>5. Elems(op.todo) = {} /\ Elems(op'.todo) = {}
    BY <2>3 DEF Elems
  <2>6. Ahead /\ Ahead'
    BY <2>3 DEF Ahead, Working
  <2>7. m <= MaxPos
    <3>1. Room(s)
      BY <2>3, <2>4, <2>6 DEF SizeInv, Roomy
    <3>2. Coming(s) = Len(op.in[s])
      BY <2>4 DEF Coming
    <3>3. m = tables[s].len + Len(op.in[s])
      BY <2>1, <2>2, <2>4 DEF PendSound
    <3> QED BY <3>1, <3>2, <3>3 DEF Room
  <2>8. TablesFit'
    <3> SUFFICES ASSUME NEW x \in DOMAIN tables PROVE tables'[x].len <= MaxPos
      BY <2>3 DEF TablesFit
    <3>1. CASE x = s
      BY <2>3, <2>7, <3>1
    <3>2. CASE x # s
      BY <2>3, <3>2 DEF SizeInv, TablesFit
    <3> QED BY <3>1, <3>2
  <2>9. Roomy'
    <3> SUFFICES ASSUME NEW x \in Elems(op.rows) PROVE Room(x)'
      BY <2>3 DEF Roomy
    <3>1. x \in DOMAIN tables
      BY <2>6 DEF Ahead, PagedInv, OpSound, OpStages
    <3>2. CASE x = s
      <4>1. Coming(x)' = 0
        BY <2>3, <2>5, <3>2 DEF Coming
      <4> QED BY <2>3, <2>4, <2>7, <3>2, <4>1 DEF Room
    <3>3. CASE x # s
      <4>1. Coming(x)' = Coming(x)
        BY <2>3, <2>5, <3>3 DEF Coming
      <4>2. Room(x)
        BY <2>3, <2>6 DEF SizeInv, Roomy
      <4> QED BY <2>3, <3>1, <3>3, <4>1, <4>2 DEF Room
    <3> QED BY <3>2, <3>3
  <2>10. InStep' /\ PromptsFit'
    <3>1. UNCHANGED <<phase, toks>>
      BY <2>3 DEF sessionVars
    <3> QED BY <2>3, <3>1, PromptsKept DEF SizeInv, InStep, Prefills, Decodes
  <2> QED BY <2>3, <2>8, <2>9, <2>10, NotBlamed DEF SizeInv
<1> QED BY <1>1, <1>2

\* What adopting the prefix does to the tables and the operation.
LEMMA AdoptMoves ==
    ASSUME PagedInv, Adopt
    PROVE  LET s == This
               x == op.in[s]
               n == Reuse(s, x)
               c == CHOOSE e \in cached : TRUE
           IN  /\ op.stage = "cursor" /\ op.kind = "prefill" /\ op'.stage = "prepare"
               /\ op'.kind = op.kind /\ op'.rows = op.rows /\ op'.todo = op.todo
               /\ op'.pend = op.pend /\ op'.err = op.err
               /\ op'.in = [z \in {s} |-> SubSeq(x, n + 1, Len(x))]
               /\ op.pend = <<>> /\ op.todo = op.rows /\ Elems(op.rows) = {s}
               /\ s \in Sessions /\ s \in DOMAIN tables /\ c \in cached
               /\ x \in Seq(Tokens) /\ x # <<>> /\ Len(x) \in Nat
               /\ n \in Nat /\ n > 0 /\ n <= c.table.len /\ n <= Len(x) - 1
               /\ Len(x) = Len(toks[s]) /\ done[s] + Len(x) <= Len(toks[s]) /\ done[s] = 0
               /\ SubSeq(x, n + 1, Len(x)) \in Seq(Tokens)
               /\ Len(SubSeq(x, n + 1, Len(x))) = Len(x) - n
               /\ DOMAIN tables' = DOMAIN tables
               /\ tables'[s] = [pages |-> KeptPages(c.table, n), len |-> n]
               /\ \A z \in DOMAIN tables : z # s => tables'[z] = tables[z]
               /\ record' = Put(record, s, SubSeq(x, 1, n))
               /\ UNCHANGED <<dev, cached>> /\ UNCHANGED sessionVars
<1>0. PICK s : s = This
  OBVIOUS
<1>1. PICK x : x = op.in[s]
  OBVIOUS
<1>2. PICK n : n = Reuse(s, x)
  OBVIOUS
<1>3. PICK c : c = CHOOSE e \in cached : TRUE
  OBVIOUS
<1>4. PICK y : y = SubSeq(x, n + 1, Len(x))
  OBVIOUS
<1>5. /\ op.stage = "cursor" /\ op.kind = "prefill" /\ Len(x) = Len(toks[s]) /\ n > 0
      /\ tables' = [tables EXCEPT ![s] = [pages |-> KeptPages(c.table, n), len |-> n]]
      /\ record' = Put(record, s, SubSeq(x, 1, n))
      /\ op' = [op EXCEPT !.stage = "prepare", !.in = [z \in {s} |-> y]]
      /\ UNCHANGED <<dev, cached>> /\ UNCHANGED sessionVars
  BY <1>0, <1>1, <1>2, <1>3, <1>4 DEF Adopt, WholePrompt
<1>6. /\ OpTyped(op) /\ OpShape /\ OpStages /\ Appending /\ Single /\ Typed
      /\ tables \in [DOMAIN tables -> Tables]
  BY <1>5 DEF PagedInv, OpSound, Counted, Store, Single
<1>7. /\ s \in Sessions /\ op.rows = <<s>> /\ Elems(op.rows) = {s} /\ s \in DOMAIN tables
  BY <1>0, <1>5, <1>6, ThisIs DEF OpStages
<1>8. op.pend = <<>> /\ op.todo = op.rows
  BY <1>5, <1>6 DEF OpStages
<1>9. x \in Seq(Tokens) /\ x # <<>> /\ done[s] + Len(x) <= Len(toks[s]) /\ done[s] \in Nat
  BY <1>1, <1>5, <1>6, <1>7 DEF OpTyped, Appending, Appends, Typed
<1>10. c \in cached /\ n \in Nat /\ n <= c.table.len /\ n <= Len(x) - 1
  BY <1>2, <1>3, <1>5, <1>7, <1>9, ReuseIs
<1>11. Len(x) \in Nat
  BY <1>9
<1>12. y \in Seq(Tokens) /\ Len(y) = Len(x) - n /\ done[s] = 0
  <2>1. y \in Seq(Tokens) /\ Len(y) = Len(x) - n
    BY <1>4, <1>9, <1>10, <1>11
  <2>2. done[s] = 0
    BY <1>5, <1>9, <1>11
  <2> QED BY <2>1, <2>2
<1>13. /\ DOMAIN tables' = DOMAIN tables
       /\ tables'[s] = [pages |-> KeptPages(c.table, n), len |-> n]
       /\ \A z \in DOMAIN tables : z # s => tables'[z] = tables[z]
  BY <1>5, <1>6, <1>7
<1>14. op' = [kind |-> op.kind, stage |-> "prepare", rows |-> op.rows, in |-> [z \in {s} |-> y],
              todo |-> op.todo, pend |-> op.pend, err |-> op.err]
  BY <1>5, <1>6 DEF OpTyped
<1>15. /\ op'.kind = op.kind /\ op'.stage = "prepare" /\ op'.rows = op.rows
       /\ op'.in = [z \in {s} |-> y]
       /\ op'.todo = op.todo /\ op'.pend = op.pend /\ op'.err = op.err
  BY <1>14
<1> QED BY <1>0, <1>1, <1>2, <1>3, <1>4, <1>5, <1>7, <1>8, <1>9, <1>10, <1>11, <1>12, <1>13, <1>15, ZenonT(60)

\* Adopt keeps SizeInv.
LEMMA AdoptSize ==
    ASSUME PagedInv, SizeInv, Adopt
    PROVE  SizeInv'
<1>0. PICK s : s = This
  OBVIOUS
<1>1. PICK x : x = op.in[s]
  OBVIOUS
<1>2. PICK n : n = Reuse(s, x)
  OBVIOUS
<1>3. PICK c : c = CHOOSE e \in cached : TRUE
  OBVIOUS
<1>4. PICK y : y = SubSeq(x, n + 1, Len(x))
  OBVIOUS
<1>5. /\ op.stage = "cursor" /\ op.kind = "prefill" /\ op'.stage = "prepare"
      /\ op'.kind = op.kind /\ op'.rows = op.rows /\ op'.todo = op.todo
      /\ op'.pend = op.pend /\ op'.err = op.err
      /\ op'.in = [z \in {s} |-> y]
      /\ op.todo = op.rows /\ Elems(op.rows) = {s}
      /\ s \in Sessions /\ s \in DOMAIN tables
      /\ Len(x) \in Nat /\ n \in Nat /\ n <= Len(x) - 1
      /\ Len(x) = Len(toks[s]) /\ Len(y) = Len(x) - n
      /\ DOMAIN tables' = DOMAIN tables
      /\ tables'[s] = [pages |-> KeptPages(c.table, n), len |-> n]
      /\ \A z \in DOMAIN tables : z # s => tables'[z] = tables[z]
      /\ UNCHANGED sessionVars
  BY <1>0, <1>1, <1>2, <1>3, <1>4, AdoptMoves
<1>6. UNCHANGED <<phase, toks>>
  BY <1>5 DEF sessionVars
<1>7. Len(x) <= MaxPos
  <2>1. phase[s] = "prefill"
    BY <1>5 DEF SizeInv, InStep, Prefills
  <2> QED BY <1>5, <2>1 DEF SizeInv, PromptsFit
<1>8. Coming(s)' = Len(y)
  <2>1. op'.in[s] = y /\ s \in Elems(op'.todo)
    BY <1>5
  <2> QED BY <2>1 DEF Coming
<1>9. Roomy'
  <2>1. n + Len(y) <= MaxPos
    BY <1>5, <1>7, SizeAssumption
  <2>2. Room(s)'
    BY <1>5, <1>8, <2>1 DEF Room
  <2> QED BY <1>5, <2>2 DEF Roomy
<1>10. TablesFit'
  <2>1. n <= MaxPos
    BY <1>5, <1>7, SizeAssumption
  <2>2. ASSUME NEW z \in DOMAIN tables PROVE tables'[z].len <= MaxPos
    BY <1>5, <2>1 DEF SizeInv, TablesFit
  <2> QED BY <1>5, <2>2 DEF TablesFit
<1>11. InStep' /\ PromptsFit'
  BY <1>5, <1>6, PromptsKept DEF SizeInv, InStep, Prefills, Decodes
<1> QED BY <1>5, <1>9, <1>10, <1>11, NotBlamed DEF SizeInv

\* The pages of k full pages of rows are k.
LEMMA DivWhole ==
    ASSUME NEW k \in Nat, NEW n \in Nat \ {0}
    PROVE  (n * k + n - 1) \div n = k
<1>1. n * k \in Nat
  OBVIOUS
<1> DEFINE a == n * k + n - 1
<1>2. a \in Nat
  BY <1>1
<1>3. n * k <= a /\ a < n * (k + 1)
  BY <1>1
<1>4. a \div n >= k
  BY <1>2, <1>3
<1>5. a \div n < k + 1
  BY <1>2, <1>3
<1> QED BY <1>2, <1>4, <1>5

\* Where positions fill whole pages, the pool has each slot's share.
LEMMA ShareIs ==
    ASSUME MaxPos % PageTokens = 0
    PROVE  /\ CapacityPages = Slots * DivCeil(MaxPos, PageTokens)
           /\ DivCeil(MaxPos, PageTokens) \in Nat /\ Slots \in Nat
<1> DEFINE n == PageTokens
           k == MaxPos \div n
<1>1. n \in Nat \ {0} /\ MaxPos \in Nat /\ Slots \in Nat /\ CapacityPages = DivCeil(MaxPos * Slots, n)
  BY PageAssumption, SizeAssumption
<1>2. k \in Nat /\ MaxPos = n * k
  BY <1>1
<1>3. MaxPos * Slots = n * (k * Slots) /\ k * Slots \in Nat /\ Slots * k = k * Slots
  BY <1>1, <1>2
<1>4. DivCeil(MaxPos, n) = k
  BY <1>1, <1>2, DivWhole DEF DivCeil
<1>5. DivCeil(MaxPos * Slots, n) = k * Slots
  BY <1>1, <1>3, DivWhole DEF DivCeil
<1> QED BY <1>1, <1>2, <1>3, <1>4, <1>5

\* The claims cl of the sequences S, each in a slot of its own, have every page of
\* L, and one of them can still grow by k pages: the pages of L leave room for k.
LEMMA ClaimsLeaveRoom ==
    ASSUME NEW S, NEW cl, NEW seat, NEW L, NEW m \in Nat, NEW n \in Nat,
           \A s \in S : cl[s] \in Seq(Handles) /\ Len(cl[s]) <= m,
           \A s \in S : \E j \in 1 .. n : seat[j] = s,
           \A p \in L : \E s \in S : \E i \in DOMAIN cl[s] : Index(cl[s][i]) = p,
           NEW r \in S, NEW k \in Nat, Len(cl[r]) + k <= m
    PROVE  IsFiniteSet(L) /\ Cardinality(L) + k <= n * m
<1> DEFINE grid == (1 .. n) \X (1 .. m)
           D == {d \in grid : seat[d[1]] \in S /\ d[2] <= Len(cl[seat[d[1]]])}
           page == [d \in D |-> Index(cl[seat[d[1]]][d[2]])]
           I == {page[d] : d \in D}
<1>1. /\ IsFiniteSet(1 .. n) /\ Cardinality(1 .. n) = n
      /\ IsFiniteSet(1 .. m) /\ Cardinality(1 .. m) = m
  <2>1. \A b \in Nat : IsFiniteSet(1 .. b) /\ Cardinality(1 .. b) = b
    <3> SUFFICES ASSUME NEW b \in Nat PROVE IsFiniteSet(1 .. b) /\ Cardinality(1 .. b) = b
      OBVIOUS
    <3>1. IsFiniteSet(1 .. b) /\ Cardinality(1 .. b) = IF 1 > b THEN 0 ELSE b - 1 + 1
      BY FS_Interval
    <3> QED BY <3>1
  <2> QED BY <2>1
<1>2. IsFiniteSet(grid) /\ Cardinality(grid) = n * m
  BY <1>1, FS_Product, ZenonT(60)
<1>3. D \in SUBSET grid /\ IsFiniteSet(D)
  BY <1>2, FS_Subset
<1>4. page \in Surjection(D, I)
  BY SMTT(60) DEF Surjection
<1>5. IsFiniteSet(I) /\ Cardinality(I) <= Cardinality(D)
  <2> HIDE DEF D, I, page
  <2> QED BY <1>3, <1>4, FS_Surjection
<1>6. L \in SUBSET I
  <2> SUFFICES ASSUME NEW p \in L PROVE p \in I
    OBVIOUS
  <2>1. PICK s \in S : \E i \in DOMAIN cl[s] : Index(cl[s][i]) = p
    OBVIOUS
  <2>2. PICK i \in DOMAIN cl[s] : Index(cl[s][i]) = p
    BY <2>1
  <2>3. PICK j \in 1 .. n : seat[j] = s
    OBVIOUS
  <2>4. i \in 1 .. Len(cl[s]) /\ i \in 1 .. m
    BY <2>2
  <2>5. <<j, i>> \in D
    BY <2>3, <2>4, SMTT(60)
  <2>6. page[<<j, i>>] = p
    BY <2>2, <2>3, <2>5
  <2> QED BY <2>5, <2>6
<1>7. IsFiniteSet(L) /\ Cardinality(L) <= Cardinality(I)
  BY <1>5, <1>6, FS_Subset
<1>8. PICK j \in 1 .. n : seat[j] = r
  OBVIOUS
<1> DEFINE a == Len(cl[r])
           N == {j} \X (a + 1 .. a + k)
<1>9. a \in Nat
  OBVIOUS
<1>10. IsFiniteSet(N) /\ Cardinality(N) = k
  <2>1. IsFiniteSet(a + 1 .. a + k) /\ Cardinality(a + 1 .. a + k) = k
    <3>1. PICK u, v : u = a + 1 /\ v = a + k
      OBVIOUS
    <3>2. u \in Int /\ v \in Int
      BY <1>9, <3>1
    <3>3. IsFiniteSet(u .. v) /\ Cardinality(u .. v) = IF u > v THEN 0 ELSE v - u + 1
      BY <3>2, FS_Interval
    <3> QED BY <1>9, <3>1, <3>3
  <2>2. IsFiniteSet({j}) /\ Cardinality({j}) = 1
    BY FS_Singleton
  <2>3. Cardinality(N) = Cardinality({j}) * Cardinality(a + 1 .. a + k) /\ IsFiniteSet(N)
    <3> HIDE DEF a
    <3> QED BY <2>1, <2>2, FS_Product
  <2> QED BY <2>1, <2>2, <2>3
<1>11. N \in SUBSET grid
  BY <1>8, <1>9
<1>12. D \cap N = {}
  <2> SUFFICES ASSUME NEW d \in D, d \in N PROVE FALSE
    OBVIOUS
  <2>1. d[1] = j /\ d[2] \in a + 1 .. a + k /\ d[2] <= Len(cl[seat[d[1]]])
    OBVIOUS
  <2>2. d[2] <= a
    BY <1>8, <2>1
  <2> QED BY <1>9, <2>1, <2>2
<1> HIDE DEF D, I, page, grid, N
<1>13. /\ IsFiniteSet(D \cup N) /\ Cardinality(D \cup N) = Cardinality(D) + Cardinality(N)
  <2>1. /\ IsFiniteSet(D \cup N)
        /\ Cardinality(D \cup N) = Cardinality(D) + Cardinality(N) - Cardinality(D \cap N)
    BY <1>3, <1>10, FS_Union
  <2>2. Cardinality(D \cap N) = 0
    BY <1>12, FS_EmptySet
  <2>3. Cardinality(D) \in Nat /\ Cardinality(N) \in Nat
    BY <1>3, <1>10, FS_CardinalityType
  <2> QED BY <2>1, <2>2, <2>3
<1>14. Cardinality(D \cup N) <= n * m
  <2>1. D \cup N \in SUBSET grid
    BY <1>3, <1>11
  <2> QED BY <1>2, <2>1, FS_Subset
<1>15. Cardinality(D) \in Nat /\ Cardinality(I) \in Nat /\ Cardinality(L) \in Nat /\ n * m \in Nat
  BY <1>3, <1>5, <1>7, FS_CardinalityType
<1>16. Cardinality(D) + k <= n * m
  BY <1>10, <1>13, <1>14
<1>17. Cardinality(L) <= Cardinality(D)
  BY <1>5, <1>7, <1>15, SMTT(30)
<1> QED BY <1>7, <1>15, <1>16, <1>17

\* The pages a sequence is entitled to while a row is planned: its table's, those
\* of its pending append, and for the row itself none that it is going to copy.
Append1(s) == op.pend[CHOOSE i \in DOMAIN op.pend : op.pend[i].seq = s]
Claim(s) ==
    IF s = Row THEN Own(tables[s], CopiesTail(pool, tables[s], Count))
    ELSE IF s \in PendSeqs THEN Append1(s).pages ELSE tables[s].pages

\* The append that is pending for a sequence, as it was planned.
LEMMA PendOf ==
    ASSUME PagedInv, op.stage = "prepare", NEW i \in DOMAIN op.pend, NEW s, s = op.pend[i].seq
    PROVE  /\ Append1(s) = op.pend[i] /\ s \in DOMAIN tables /\ s # Row /\ s \in PendSeqs
           /\ op.pend[i] \in Pending /\ ~op.pend[i].cow /\ Sane(tables[s])
           /\ op.pend[i].pages = tables[s].pages \o op.pend[i].alloc
           /\ op.pend[i].pages \in Seq(Handles)
           /\ Len(op.pend[i].pages) = DivCeil(tables[s].len + Len(op.in[s]), PageTokens)
           /\ \A p : p \in Indices(op.pend[i].pages) <=>
                        p \in Indices(tables[s].pages) \/ p \in Indices(op.pend[i].alloc)
<1>1. OpTyped(op) /\ OpStages /\ Pends /\ Working
  BY DEF PagedInv, OpSound, Working
<1>2. s \in PendSeqs /\ s \in DOMAIN tables
  BY <1>1 DEF PendSeqs, OpStages
<1>3. s # Row
  BY <1>2, RowIs
<1>4. Append1(s) = op.pend[i]
  <2>1. \A j \in DOMAIN op.pend : op.pend[j].seq = s => j = i
    BY <1>1 DEF OpStages
  <2>2. (CHOOSE j \in DOMAIN op.pend : op.pend[j].seq = s) = i
    BY <2>1
  <2> QED BY <2>2 DEF Append1
<1>5. op.pend[i] \in Pending
  <2>1. op.pend \in Seq(Pending)
    BY <1>1 DEF OpTyped
  <2> QED BY <2>1
<1>6. PendSound(op.pend[i]) /\ op.kind # "prefill"
  BY <1>1, NoneYet, SMTT(30) DEF Pends
<1>7. ~op.pend[i].cow
  BY <1>6, SMTT(60) DEF PendSound
<1>8. /\ op.pend[i].pages = tables[s].pages \o op.pend[i].alloc
      /\ Len(op.pend[i].pages) = DivCeil(tables[s].len + Len(op.in[s]), PageTokens)
  BY <1>6, <1>7, ZenonT(30) DEF PendSound, Own
<1>9. Sane(tables[s])
  BY <1>2, TableTail
<1>11. tables[s].pages \in Seq(Handles) /\ op.pend[i].alloc \in Seq(Handles)
  BY <1>5, <1>9, SMTT(60) DEF Sane, Tables, Pending
<1>10. /\ op.pend[i].pages \in Seq(Handles)
       /\ \A p : p \in Indices(op.pend[i].pages) <=>
                    p \in Indices(tables[s].pages) \/ p \in Indices(op.pend[i].alloc)
  BY <1>8, <1>11, ConcatHandles
<1> QED BY <1>2, <1>3, <1>4, <1>5, <1>7, <1>8, <1>9, <1>10

\* Every row can be appended to within the capacity, and so every claim is within
\* a slot's share.
LEMMA ClaimsFit ==
    ASSUME PagedInv, SizeInv, op.stage = "prepare", ~SizeToBlame
    PROVE  LET m == DivCeil(MaxPos, PageTokens)
           IN  /\ \A s \in DOMAIN tables : Claim(s) \in Seq(Handles) /\ Len(Claim(s)) <= m
               /\ Need \in Nat /\ Len(Claim(Row)) + Need <= m
<1>0. PICK m : m = DivCeil(MaxPos, PageTokens)
  OBVIOUS
<1>1. /\ OpTyped(op) /\ OpStages /\ Appending /\ OpShape /\ Ahead /\ Working
  BY DEF PagedInv, OpSound, Ahead, Working
<1>2. ASSUME NEW s \in Elems(op.rows)
      PROVE  Room(s) /\ s \in DOMAIN tables /\ Coming(s) \in Nat /\ tables[s].len \in Nat
  <2>1. s \in DOMAIN tables /\ op.in[s] \in Seq(Tokens)
    BY <1>1 DEF OpStages, OpTyped
  <2>2. Sane(tables[s])
    BY <2>1, TableTail
  <2>3. tables[s].len \in Nat /\ Len(op.in[s]) \in Nat
    BY <2>1, <2>2 DEF Sane, Tables
  <2>4. Coming(s) \in Nat
    BY <2>3 DEF Coming
  <2>5. CASE op.kind # "batchDecode"
    BY <1>1, <2>1, <2>3, <2>4, <2>5 DEF SizeInv, Roomy
  <2>6. CASE op.kind = "batchDecode"
    <3>1. ~(tables[s].len >= MaxPos)
      BY DEF SizeToBlame
    <3>2. Coming(s) <= 1
      <4>1. Len(op.in[s]) = 1
        BY <1>1, <2>6 DEF Appending, Appends
      <4>2. Coming(s) \in {0, Len(op.in[s])}
        BY DEF Coming
      <4> QED BY <4>1, <4>2
    <3> QED BY <2>1, <2>3, <2>4, <3>1, <3>2, SizeAssumption DEF Room
  <2> QED BY <2>5, <2>6
<1>3. ASSUME NEW a \in Nat, a <= MaxPos
      PROVE  DivCeil(a, PageTokens) <= m /\ DivCeil(a, PageTokens) \in Nat
  <2>1. PICK x, y, n : x = a + PageTokens - 1 /\ y = MaxPos + PageTokens - 1 /\ n = PageTokens
    OBVIOUS
  <2>2. x \in Nat /\ y \in Nat /\ x <= y /\ n \in Nat \ {0}
    BY <1>3, <2>1, PageAssumption, SizeAssumption
  <2>3. x \div n \in Nat /\ x \div n <= y \div n
    BY <2>2, DivMono
  <2> QED BY <1>0, <2>1, <2>3 DEF DivCeil
<1>4. ASSUME NEW s \in DOMAIN tables
      PROVE  /\ Sane(tables[s]) /\ tables[s].pages \in Seq(Handles)
             /\ Len(tables[s].pages) <= m
  <2>1. Sane(tables[s])
    BY TableTail
  <2>2. tables[s].len <= MaxPos
    BY DEF SizeInv, TablesFit
  <2>3. tables[s].pages \in Seq(Handles) /\ tables[s].len \in Nat
        /\ Len(tables[s].pages) = DivCeil(tables[s].len, PageTokens)
    BY <2>1 DEF Sane, Tables, Fits
  <2> QED BY <1>3, <2>1, <2>2, <2>3
<1>5. /\ Row \in DOMAIN tables /\ Row \in Elems(op.rows) /\ Row \in Elems(op.todo)
      /\ Count \in Nat /\ Count >= 1
  BY RowIs
<1>6. PICK t, c, b : t = tables[Row] /\ c = Count /\ b = CopiesTail(pool, t, c)
  OBVIOUS
<1>7. /\ Need \in Nat /\ NewPages(t, c) \in Nat
      /\ Len(t.pages) + NewPages(t, c) = DivCeil(t.len + c, PageTokens)
      /\ Len(t.pages) \in Nat
      /\ b => Need = NewPages(t, c) + 1
      /\ ~b => Need = NewPages(t, c)
  <2>1. Sane(t) /\ c \in Nat
    BY <1>4, <1>5, <1>6
  <2>2. Need = Needed(pool, t, c)
    BY <1>6 DEF Need
  <2> QED BY <1>6, <2>1, <2>2, NeededIs
<1>8. DivCeil(t.len + c, PageTokens) <= m
  <2>1. Coming(Row) = c
    BY <1>5, <1>6 DEF Coming, Count
  <2>2. t.len + c <= MaxPos /\ t.len + c \in Nat
    BY <1>2, <1>5, <1>6, <2>1 DEF Room
  <2> QED BY <1>3, <2>2
<1>9. Claim(Row) = Own(t, b)
  BY <1>6 DEF Claim
<1>10. m \in Nat
  BY <1>0, <1>3, SizeAssumption
<1>11. Own(t, b) \in Seq(Handles) /\ Len(Own(t, b)) + Need <= m /\ Len(Own(t, b)) \in Nat
  <2>1. CASE b
    <3>1. t.len % PageTokens # 0 /\ Sane(t) /\ Distinct(t.pages) /\ b \in BOOLEAN
      BY <1>4, <1>5, <1>6, <2>1 DEF CopiesTail, Sane
    <3>2. t.pages # <<>> /\ t.pages \in Seq(Handles)
      BY <1>4, <1>5, <1>6, <3>1, TailPage
    <3>3. Own(t, b) \in Seq(Handles) /\ Len(Own(t, b)) = Len(t.pages) - Of(b)
      BY <3>1, <3>2, OwnIs
    <3>4. Len(Own(t, b)) = Len(t.pages) - 1
      BY <2>1, <3>3 DEF Of
    <3>5. Len(Own(t, b)) \in Nat
      BY <3>3
    <3>6. Need = NewPages(t, c) + 1
      BY <1>7, <2>1
    <3>7. Len(Own(t, b)) + Need <= m
      BY <1>7, <1>8, <1>10, <3>4, <3>6
    <3> QED BY <3>3, <3>5, <3>7
  <2>2. CASE ~b
    <3>1. Own(t, b) = t.pages
      BY <2>2 DEF Own
    <3> QED BY <1>4, <1>5, <1>6, <1>7, <1>8, <2>2, <3>1
  <2> QED BY <2>1, <2>2
<1>12. ASSUME NEW s \in DOMAIN tables
       PROVE  Claim(s) \in Seq(Handles) /\ Len(Claim(s)) <= m
  <2>1. CASE s = Row
    BY <1>7, <1>9, <1>11, <1>10, <2>1
  <2>2. CASE s # Row /\ s \in PendSeqs
    <3>1. PICK i \in DOMAIN op.pend : s = op.pend[i].seq
      BY <2>2 DEF PendSeqs
    <3>2. /\ Append1(s) = op.pend[i] /\ op.pend[i].pages \in Seq(Handles)
          /\ Len(op.pend[i].pages) = DivCeil(tables[s].len + Len(op.in[s]), PageTokens)
      BY <3>1, PendOf
    <3>3. Coming(s) = Len(op.in[s]) /\ s \in Elems(op.rows)
      BY <1>1, <2>2 DEF Coming, OpStages
    <3>4. tables[s].len + Len(op.in[s]) \in Nat /\ tables[s].len + Len(op.in[s]) <= MaxPos
      BY <1>2, <3>3 DEF Room
    <3> QED BY <1>3, <2>2, <3>2, <3>4 DEF Claim
  <2>3. CASE s # Row /\ s \notin PendSeqs
    BY <1>4, <2>3 DEF Claim
  <2> QED BY <2>1, <2>2, <2>3
<1> QED BY <1>0, <1>7, <1>9, <1>11, <1>12

\* Without a prefix, every page in use is in a claim.
LEMMA ClaimsCover ==
    ASSUME PagedInv, op.stage = "prepare", cached = {}, NEW p \in Pages, pool.refs[p] > 0
    PROVE  \E s \in DOMAIN tables : \E i \in DOMAIN Claim(s) : Index(Claim(s)[i]) = p
<1> SUFFICES \E s \in DOMAIN tables : p \in Indices(Claim(s))
  BY IndicesIs
<1>1. /\ OpTyped(op) /\ OpStages
      /\ Store(tables, cached, op.pend) /\ Refers(pool, tables, cached, op.pend)
  BY DEF PagedInv, OpSound, Counted
<1>2. pool.refs[p] = Cnt(tables, cached, op.pend, p)
  BY <1>1 DEF Refers
<1>3. Cardinality(PreHold(cached, p)) = 0
  <2>1. PreHold(cached, p) = {}
    BY DEF PreHold
  <2> QED BY <2>1, FS_EmptySet
<1>4. /\ Cardinality(TabHold(tables, p)) \in Nat /\ Cardinality(PendHold(op.pend, p)) \in Nat
      /\ IsFiniteSet(DOMAIN tables)
  BY <1>1, CountFacts, StoreFacts
<1>5. pool.refs[p] = Cardinality(TabHold(tables, p)) + Cardinality(PendHold(op.pend, p))
  BY <1>2, <1>3, <1>4 DEF Cnt
<1>6. ASSUME NEW s \in DOMAIN tables, s # Row, p \in Indices(tables[s].pages)
      PROVE  p \in Indices(Claim(s))
  <2>1. CASE s \in PendSeqs
    <3>1. PICK i \in DOMAIN op.pend : s = op.pend[i].seq
      BY <2>1 DEF PendSeqs
    <3>2. Append1(s) = op.pend[i] /\ p \in Indices(op.pend[i].pages)
      BY <1>6, <3>1, PendOf
    <3> QED BY <1>6, <2>1, <3>2 DEF Claim
  <2>2. CASE s \notin PendSeqs
    BY <1>6, <2>2 DEF Claim
  <2> QED BY <2>1, <2>2
<1>7. CASE Cardinality(PendHold(op.pend, p)) > 0
  <2>1. PendHold(op.pend, p) # {}
    BY <1>7, FS_EmptySet
  <2>2. PICK i \in DOMAIN op.pend : p \in Indices(op.pend[i].alloc)
    BY <2>1 DEF PendHold
  <2>3. PICK s : s = op.pend[i].seq
    OBVIOUS
  <2>4. /\ Append1(s) = op.pend[i] /\ s \in DOMAIN tables /\ s # Row /\ s \in PendSeqs
        /\ p \in Indices(op.pend[i].pages)
    BY <2>2, <2>3, PendOf
  <2>5. p \in Indices(Claim(s))
    BY <2>4 DEF Claim
  <2> QED BY <2>4, <2>5
<1>8. CASE Cardinality(PendHold(op.pend, p)) = 0
  <2>1. TabHold(tables, p) # {}
    BY <1>4, <1>5, <1>8, FS_EmptySet
  <2>2. PICK s \in DOMAIN tables : p \in Indices(tables[s].pages)
    BY <2>1 DEF TabHold
  <2>3. CASE s # Row
    BY <1>6, <2>2, <2>3
  <2>4. CASE s = Row
    <3>1. PICK t, c, b : t = tables[Row] /\ c = Count /\ b = CopiesTail(pool, t, c)
      OBVIOUS
    <3>2. Claim(Row) = Own(t, b) /\ p \in Indices(t.pages) /\ Sane(t) /\ b \in BOOLEAN
      BY <2>2, <2>4, <3>1, TableTail DEF Claim, CopiesTail
    <3>3. CASE ~b
      <4>1. Own(t, b) = t.pages
        BY <3>3 DEF Own
      <4> QED BY <2>2, <2>4, <3>2, <4>1
    <3>4. CASE b
      <4>1. t.len % PageTokens # 0 /\ pool.refs[LastPage(t)] > 1
        BY <3>1, <3>4 DEF CopiesTail
      <4>2. t.pages # <<>> /\ t.pages \in Seq(Handles) /\ Distinct(t.pages)
        BY <3>2, <4>1, TailPage DEF Sane, Tables
      <4>3. p \in Indices(Own(t, b)) \/ p = LastPage(t)
        BY <3>2, <4>2, OwnIs
      <4>4. CASE p \in Indices(Own(t, b))
        BY <2>2, <2>4, <3>2, <4>4
      <4>5. CASE p = LastPage(t)
        <5>1. Cardinality(TabHold(tables, p)) > 1
          BY <1>4, <1>5, <1>8, <4>1, <4>5
        <5>2. s \in TabHold(tables, p)
          BY <2>2 DEF TabHold
        <5>3. /\ Cardinality(TabHold(tables, p)) = Cardinality(TabHold(tables, p) \ {s}) + 1
              /\ Cardinality(TabHold(tables, p) \ {s}) \in Nat
          BY <1>4, <5>2, TabCount
        <5>4. Cardinality(TabHold(tables, p) \ {s}) # 0
          BY <5>1, <5>3
        <5>5. TabHold(tables, p) \ {s} # {}
          BY <5>4, FS_EmptySet
        <5>6. PICK x \in DOMAIN tables : x # s /\ p \in Indices(tables[x].pages)
          BY <5>5 DEF TabHold
        <5> QED BY <1>6, <2>4, <5>6
      <4> QED BY <4>3, <4>4, <4>5
    <3> QED BY <3>2, <3>3, <3>4
  <2> QED BY <2>3, <2>4
<1> QED BY <1>4, <1>7, <1>8

\* A sequence with a table has a slot.
LEMMA SeatOf ==
    ASSUME PagedInv, NEW s \in DOMAIN tables
    PROVE  \E j \in 1 .. Slots : slots[j].holder = s
<1>1. s \in Sessions /\ LeaseValid(s)
  BY TableTail DEF PagedInv, Seated
<1>2. PICK l \in lease[s] : slots[l.slot] = [gen |-> l.gen, holder |-> s]
  BY <1>1 DEF LeaseValid
<1>3. l.slot \in 1 .. Slots
  BY <1>1, <1>2 DEF PagedInv, Typed
<1> QED BY <1>2, <1>3

\* A pool that cannot serve a row, with no prefix left to evict, is too small.
LEMMA PoolIsBlamed ==
    ASSUME PagedInv, SizeInv, op.stage = "prepare", cached = {}, Need > Available(pool)
    PROVE  SizeToBlame
<1> SUFFICES ASSUME ~SizeToBlame PROVE FALSE
  OBVIOUS
<1>1. PICK m : m = DivCeil(MaxPos, PageTokens)
  OBVIOUS
<1>2. m \in Nat /\ Slots \in Nat /\ CapacityPages = Slots * m
  BY <1>1, ShareIs DEF SizeToBlame
<1>3. /\ \A s \in DOMAIN tables : Claim(s) \in Seq(Handles) /\ Len(Claim(s)) <= m
      /\ Need \in Nat /\ Len(Claim(Row)) + Need <= m
  BY <1>1, ClaimsFit
<1>4. PICK cl : cl = [s \in DOMAIN tables |-> Claim(s)]
  OBVIOUS
<1>5. PICK seat : seat = [j \in 1 .. Slots |-> slots[j].holder]
  OBVIOUS
<1>6. PICK L : L = {p \in Pages : pool.refs[p] > 0}
  OBVIOUS
<1>7. \A s \in DOMAIN tables : cl[s] = Claim(s)
  BY <1>4
<1>8. \A s \in DOMAIN tables : cl[s] \in Seq(Handles) /\ Len(cl[s]) <= m
  BY <1>3, <1>7
<1>9. \A s \in DOMAIN tables : \E j \in 1 .. Slots : seat[j] = s
  BY <1>5, SeatOf
<1>10. \A p \in L : \E s \in DOMAIN tables : \E i \in DOMAIN cl[s] : Index(cl[s][i]) = p
  BY <1>6, <1>7, ClaimsCover
<1>11. Row \in DOMAIN tables /\ Len(cl[Row]) + Need <= m
  BY <1>3, <1>7, RowIs
<1>12. IsFiniteSet(L) /\ Cardinality(L) + Need <= Slots * m
  BY <1>2, <1>3, <1>8, <1>9, <1>10, <1>11, ClaimsLeaveRoom, ZenonT(60)
<1>13. Cardinality(L) \in Nat /\ Available(pool) = CapacityPages - Cardinality(L)
  BY <1>6, <1>12, FS_CardinalityType DEF Available
<1>14. CapacityPages \in Nat
  BY PageAssumption
<1> QED BY <1>2, <1>3, <1>12, <1>13, <1>14

\* PoolExhausted keeps SizeInv: the claims of the other sequences leave the row its share.
LEMMA PoolExhaustedSize ==
    ASSUME PagedInv, SizeInv, PoolExhausted
    PROVE  SizeInv'
<1>0. PICK e : e = "capacity"
  OBVIOUS
<1>1. /\ op.stage = "prepare" /\ Need > Available(pool) /\ cached = {}
      /\ op' = [op EXCEPT !.stage = "abort", !.err = e] /\ UNCHANGED <<tables, phase, toks>>
  BY <1>0 DEF PoolExhausted, Evictable, sessionVars
<1>2. SizeToBlame
  BY <1>1, PoolIsBlamed
<1> QED BY <1>1, <1>2, AbortsSize, ZenonT(30)

\* SizeInv holds before there is an engine.
LEMMA StartSize == Init => SizeInv
<1> SUFFICES ASSUME Init PROVE SizeInv
  OBVIOUS
<1>1. op.kind = "idle" /\ op.stage = "none" /\ op.err = "none"
  BY DEF Init, Idle
<1>2. DOMAIN tables = {}
  BY DEF Init, NoEntries
<1>3. \A s \in Sessions : phase[s] = "new"
  BY DEF Init
<1> QED BY <1>1, <1>2, <1>3 DEF SizeInv, InStep, Prefills, Decodes, Roomy, Ahead, Working,
                                TablesFit, PromptsFit, Blamed

\* A step that changes nothing keeps SizeInv.
LEMMA StutterSize ==
    ASSUME SizeInv, UNCHANGED vars
    PROVE  SizeInv'
BY DEF vars, engineVars, sessionVars, SizeInv, InStep, Prefills, Decodes, Roomy, Room, Coming,
       PendSeqs, Ahead, Working, TablesFit, PromptsFit, Blamed, SizeToBlame

\* Every step of the specification keeps SizeInv.
LEMMA StepSize == PagedInv /\ SizeInv /\ [Next]_vars => SizeInv'
<1> SUFFICES ASSUME PagedInv, SizeInv, [Next]_vars PROVE SizeInv'
  OBVIOUS
<1>1. CASE UNCHANGED vars
  BY <1>1, StutterSize
<1>2. CASE \E s \in Sessions : EnterPrefill(s) \/ EnterAcquire(s) \/ EnterDecode(s) \/ Drop(s)
  BY <1>2, EnterPrefillSize, EnterAcquireSize, EnterDecodeSize, DropSize
<1>3. CASE \E ss \in SUBSET Sessions : EnterBatch(ss)
  BY <1>3, EnterBatchSize
<1>4. CASE Build \/ PastThreshold \/ Select \/ Adopt \/ CheckCursor \/ EnterRows
  BY <1>4, BuildSize, PastThresholdSize, SelectSize, AdoptSize, CheckCursorSize, EnterRowsSize
<1>5. CASE PlanRow \/ DeviceFails \/ EvictPrefix \/ PoolExhausted \/ Forward \/ KernelFails
  BY <1>5, PlanRowSize, DeviceFailsSize, EvictPrefixSize, PoolExhaustedSize, ForwardSize,
     KernelFailsSize
<1>6. CASE CommitRow \/ Finish \/ AbortRow \/ ReleaseFails \/ EndAbort
  BY <1>6, CommitRowSize, FinishSize, AbortRowSize, ReleaseFailsSize, EndAbortSize
<1> QED BY <1>1, <1>2, <1>3, <1>4, <1>5, <1>6 DEF Next

\* The invariant says of the pool's size what CapacitySuffices says.
LEMMA SizeIs == SizeInv => CapacitySuffices
BY DEF SizeInv, Blamed, SizeToBlame, CapacitySuffices

\* The pool answers a capacity error (cuda_paged_kv.rs reserve, after the eviction
\* of the prefix in inference.rs) only where positions do not fill whole pages or a
\* row is past the capacity: shared, copied and retained pages never use up the share
\* of a sequence, for any number of slots and any page size.
THEOREM CapacityAlwaysSuffices == Spec => []CapacitySuffices
<1>1. Init => PagedInv /\ SizeInv
  BY StartInv, StartSize
<1>2. PagedInv /\ SizeInv /\ [Next]_vars => (PagedInv /\ SizeInv)'
  BY StepInv, StepSize
<1>3. PagedInv /\ SizeInv => CapacitySuffices
  BY SizeIs
<1> QED BY <1>1, <1>2, <1>3, PTL DEF Spec
=============================================================================
