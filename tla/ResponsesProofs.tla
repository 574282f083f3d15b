-------------------------- MODULE ResponsesProofs ---------------------------
(***************************************************************************)
(* Proofs about ResponsesStore: the locks of create_response and of the    *)
(* handlers of conversations, for any set of requests, conversations and   *)
(* keys, any item limit and any number of restarts.                        *)
(***************************************************************************)
EXTENDS ResponsesStore, SequenceTheorems, TLAPS

Active == {"fresh", "generating"}

\* t holds the lock of every key it needs.
Holding(t) == Len(locks[t]) = Len(KeySeq(t)) /\ HoldsAll(t)

\* The response of s was stored, and is still there unless it was deleted.
Kept(s) == resp[s] # None \/ s \in deleted

Shapes ==
    /\ TypeOK
    /\ workload \subseteq Tasks
    /\ DOMAIN conv = Convs /\ conv = [c \in Convs |-> conv[c]]
    /\ DOMAIN resp = Tasks /\ resp = [t \in Tasks |-> resp[t]]

\* The pool never forgets a lock that a task holds or waits for.
Locking ==
    \A t \in Tasks :
        /\ Len(locks[t]) <= Len(KeySeq(t))
        /\ \A i \in DOMAIN locks[t] :
              t \in Range(queue[locks[t][i]]) /\ pool[KeySeq(t)[i]] = locks[t][i]
        /\ pc[t] \in Active => Holding(t) /\ Kind[t] = "create"

\* Rows say whose they are, and no two have one key.
RowsTrue ==
    /\ \A t \in Tasks : resp[t] # None =>
          resp[t].key = KeyOf[t] /\ resp[t].hash = HashOf[t] /\ t \in Stores
    /\ \A s, t \in Tasks :
          resp[s] # None /\ resp[t] # None /\ KeyOf[s] = KeyOf[t] /\ KeyOf[s] # None => s = t

\* What a task has read under its locks is still so.
ReadStands ==
    \A t \in Tasks :
        /\ pc[t] \in Active => StoredUnder(t) = {}
        /\ pc[t] = "generating" /\ ConvOf[t] # None =>
              conv[ConvOf[t]] = base[t] /\ Exists(ConvOf[t])

\* What was committed, answered or appended was stored.
StoredFirst ==
    /\ \A t \in Tasks : pc[t] = "committed" =>
          Kind[t] = "create" /\ (t \in Stores => Kept(t))
    /\ \A t \in Tasks : answer[t] # None =>
          /\ answer[t] \in Stores => Kept(answer[t])
          /\ KeyOf[t] # None => /\ answer[t] \in Stores
                                /\ KeyOf[answer[t]] = KeyOf[t]
                                /\ HashOf[answer[t]] = HashOf[t]
    /\ \A c \in Convs, t \in Tasks :
          Exists(c) /\ Output(t) \in Range(conv[c]) /\ t \in Stores => Kept(t)

IInv == Shapes /\ Locking /\ RowsTrue /\ ReadStands /\ StoredFirst /\ TurnsAreWhole

(***************************************************************************)
(* Sequences.                                                              *)
(***************************************************************************)

LEMMA RemoveAtProperties ==
    ASSUME NEW S, NEW q \in Seq(S), NEW i \in DOMAIN q
    PROVE  /\ RemoveAt(q, i) \in Seq(S)
           /\ Len(q) \in Nat /\ Len(RemoveAt(q, i)) = Len(q) - 1
           /\ \A j \in 1 .. i - 1 : RemoveAt(q, i)[j] = q[j]
           /\ \A j \in i .. Len(q) - 1 : RemoveAt(q, i)[j] = q[j + 1]
<1> DEFINE a == SubSeq(q, 1, i - 1)
           b == SubSeq(q, i + 1, Len(q))
<1>1. Len(q) \in Nat /\ DOMAIN q = 1 .. Len(q) /\ i \in 1 .. Len(q)
  BY LenProperties
<1>2. /\ a \in Seq(S) /\ Len(a) = i - 1
      /\ \A j \in 1 .. i - 1 : a[j] = q[j]
  BY <1>1, SubSeqProperties
<1>3. /\ b \in Seq(S) /\ Len(b) = Len(q) - i
      /\ \A j \in 1 .. Len(q) - i : b[j] = q[i + j]
  BY <1>1, SubSeqProperties
<1>4. RemoveAt(q, i) = a \o b
  BY DEF RemoveAt
<1> HIDE DEF a, b
<1>5. /\ a \o b \in Seq(S) /\ Len(a \o b) = Len(a) + Len(b)
      /\ \A j \in 1 .. Len(a) + Len(b) :
            (a \o b)[j] = IF j <= Len(a) THEN a[j] ELSE b[j - Len(a)]
  BY <1>2, <1>3, ConcatProperties
<1> DEFINE r == RemoveAt(q, i)
<1>6. r = a \o b
  BY <1>4
<1> HIDE DEF r
<1>7. Len(a) + Len(b) = Len(q) - 1 /\ i \in Nat
  BY <1>1, <1>2, <1>3
<1>8. \A j \in 1 .. i - 1 : r[j] = q[j]
  BY <1>1, <1>2, <1>5, <1>6, <1>7
<1>9. ASSUME NEW j \in i .. Len(q) - 1 PROVE r[j] = q[j + 1]
  <2>1. j \in 1 .. Len(a) + Len(b) /\ ~(j <= Len(a)) /\ j - Len(a) \in 1 .. Len(q) - i
    BY <1>1, <1>2, <1>7
  <2>2. r[j] = b[j - Len(a)]
    BY <1>5, <1>6, <2>1
  <2>3. b[j - Len(a)] = q[i + (j - Len(a))] /\ i + (j - Len(a)) = j + 1
    BY <1>1, <1>2, <1>3, <2>1
  <2> QED BY <2>2, <2>3
<1>10. r \in Seq(S) /\ Len(r) = Len(q) - 1
  BY <1>5, <1>6, <1>7
<1> QED BY <1>1, <1>8, <1>9, <1>10 DEF r

\* A task that leaves a queue leaves the others where they are.
LEMMA LeaveProperties ==
    ASSUME NEW q \in Seq(Tasks), NEW t
    PROVE  /\ Leave(q, t) \in Seq(Tasks)
           /\ \A u \in Range(q) : u # t => u \in Range(Leave(q, t))
           /\ \A u : u # t /\ q # <<>> /\ Head(q) = u => Head(Leave(q, t)) = u
<1>1. CASE t \notin Range(q)
  BY <1>1 DEF Leave
<1>2. CASE t \in Range(q)
  <2> DEFINE i == CHOOSE j \in DOMAIN q : q[j] = t
             r == RemoveAt(q, i)
  <2>1. i \in DOMAIN q /\ q[i] = t
    BY <1>2 DEF Range
  <2>2. Leave(q, t) = r
    BY <1>2 DEF Leave
  <2> HIDE DEF i
  <2>3. /\ r \in Seq(Tasks) /\ Len(q) \in Nat /\ Len(r) = Len(q) - 1
        /\ \A j \in 1 .. i - 1 : r[j] = q[j]
        /\ \A j \in i .. Len(q) - 1 : r[j] = q[j + 1]
    BY <2>1, RemoveAtProperties
  <2>4. DOMAIN q = 1 .. Len(q) /\ DOMAIN r = 1 .. Len(q) - 1
    BY <2>3, LenProperties
  <2> HIDE DEF r
  <2>5. ASSUME NEW u \in Range(q), u # t PROVE u \in Range(r)
    <3>1. PICK j \in DOMAIN q : q[j] = u
      BY <2>5 DEF Range
    <3>2. CASE j < i
      <4>1. j \in DOMAIN r /\ r[j] = u
        BY <2>1, <2>3, <2>4, <3>1, <3>2
      <4> QED BY <4>1 DEF Range
    <3>3. CASE j > i
      <4>1. j - 1 \in DOMAIN r /\ r[j - 1] = u
        BY <2>1, <2>3, <2>4, <3>1, <3>3
      <4> QED BY <4>1 DEF Range
    <3> QED BY <2>1, <2>4, <2>5, <3>1, <3>2, <3>3
  <2>6. ASSUME NEW u, u # t, q # <<>>, Head(q) = u PROVE Head(r) = u
    <3>1. q[1] = u /\ 1 < i /\ i <= Len(q)
      BY <2>1, <2>4, <2>6
    <3>2. r[1] = u /\ Len(r) > 0
      BY <2>1, <2>3, <2>4, <3>1
    <3> QED BY <2>3, <3>2
  <2> QED BY <2>2, <2>3, <2>5, <2>6
<1> QED BY <1>1, <1>2

\* A task that joins a queue joins it at the end.
LEMMA JoinProperties ==
    ASSUME NEW q \in Seq(Tasks), NEW t \in Tasks
    PROVE  /\ Append(q, t) \in Seq(Tasks)
           /\ \A u \in Range(q) : u \in Range(Append(q, t))
           /\ t \in Range(Append(q, t))
           /\ q # <<>> => Head(Append(q, t)) = Head(q)
<1> DEFINE r == Append(q, t)
<1>1. /\ r \in Seq(Tasks) /\ Len(r) = Len(q) + 1
      /\ \A i \in 1 .. Len(q) : r[i] = q[i]
      /\ r[Len(q) + 1] = t
  BY AppendProperties
<1>2. Len(q) \in Nat /\ DOMAIN q = 1 .. Len(q) /\ DOMAIN r = 1 .. Len(q) + 1
  BY <1>1, LenProperties
<1> HIDE DEF r
<1>3. ASSUME NEW u \in Range(q) PROVE u \in Range(r)
  <2>1. PICK j \in DOMAIN q : q[j] = u
    BY <1>3 DEF Range
  <2>2. j \in DOMAIN r /\ r[j] = u
    BY <1>1, <1>2, <2>1
  <2> QED BY <2>2 DEF Range
<1>4. t \in Range(r)
  <2>1. Len(q) + 1 \in DOMAIN r
    BY <1>2
  <2> QED BY <1>1, <2>1 DEF Range
<1>5. q # <<>> => Head(r) = Head(q)
  <2> SUFFICES ASSUME q # <<>> PROVE Head(r) = Head(q)
    OBVIOUS
  <2>1. Len(q) > 0
    BY <1>2, EmptySeq
  <2> QED BY <1>1, <1>2, <2>1
<1> QED BY <1>1, <1>3, <1>4, <1>5 DEF r

(***************************************************************************)
(* The locks.                                                              *)
(***************************************************************************)

\* The keys of a task.
LEMMA KeySeqProperties ==
    ASSUME NEW t \in Tasks
    PROVE  /\ KeySeq(t) \in Seq(LockKeys) /\ Len(KeySeq(t)) \in Nat
           /\ DOMAIN KeySeq(t) = 1 .. Len(KeySeq(t))
           /\ ConvOf[t] # None => Len(KeySeq(t)) >= 1 /\ KeySeq(t)[1] = ConvOf[t]
           /\ KeyOf[t] # None => /\ Len(KeySeq(t)) >= 1
                                 /\ KeySeq(t)[Len(KeySeq(t))] = KeyOf[t]
<1>1. /\ ConvOf[t] # None => ConvOf[t] \in LockKeys
      /\ KeyOf[t] # None => KeyOf[t] \in LockKeys
  BY TasksAssumption DEF LockKeys
<1>2. CASE ConvOf[t] = None /\ KeyOf[t] = None
  <2>1. KeySeq(t) = <<>>
    BY <1>2 DEF KeySeq
  <2> QED BY <1>2, <2>1
<1>3. CASE ConvOf[t] = None /\ KeyOf[t] # None
  <2>1. KeySeq(t) = <<KeyOf[t]>>
    BY <1>3 DEF KeySeq
  <2> QED BY <1>1, <1>3, <2>1
<1>4. CASE ConvOf[t] # None /\ KeyOf[t] = None
  <2>1. KeySeq(t) = <<ConvOf[t]>>
    BY <1>4 DEF KeySeq
  <2> QED BY <1>1, <1>4, <2>1
<1>5. CASE ConvOf[t] # None /\ KeyOf[t] # None
  <2> DEFINE a == <<ConvOf[t]>>
             b == <<KeyOf[t]>>
             r == a \o b
  <2>1. KeySeq(t) = r
    BY <1>5 DEF KeySeq
  <2>2. /\ a \in Seq(LockKeys) /\ Len(a) = 1 /\ a[1] = ConvOf[t]
        /\ b \in Seq(LockKeys) /\ Len(b) = 1 /\ b[1] = KeyOf[t]
    BY <1>1, <1>5
  <2> HIDE DEF a, b
  <2>3. /\ r \in Seq(LockKeys) /\ Len(r) = Len(a) + Len(b)
        /\ \A i \in 1 .. Len(a) + Len(b) : r[i] = IF i <= Len(a) THEN a[i] ELSE b[i - Len(a)]
    BY <2>2, ConcatProperties
  <2> HIDE DEF r
  <2>4. Len(r) = 2 /\ r[1] = ConvOf[t] /\ r[2] = KeyOf[t] /\ DOMAIN r = 1 .. 2
    BY <2>2, <2>3, LenProperties
  <2>5. /\ KeySeq(t) \in Seq(LockKeys) /\ Len(KeySeq(t)) = 2 /\ DOMAIN KeySeq(t) = 1 .. 2
        /\ KeySeq(t)[1] = ConvOf[t] /\ KeySeq(t)[2] = KeyOf[t]
    BY <2>1, <2>3, <2>4
  <2>6. Len(KeySeq(t)) \in Nat /\ KeySeq(t)[Len(KeySeq(t))] = KeyOf[t]
    BY <2>5
  <2>7. Len(KeySeq(t)) >= 1 /\ DOMAIN KeySeq(t) = 1 .. Len(KeySeq(t))
    BY <2>5
  <2> QED BY <2>5, <2>6, <2>7
<1> QED BY <1>2, <1>3, <1>4, <1>5

\* One key has one lock, and a lock has one holder.
LEMMA Exclusion ==
    ASSUME Locking, Shapes, NEW t \in Tasks, NEW u \in Tasks, Holding(t), Holding(u),
           \/ ConvOf[t] # None /\ ConvOf[t] = ConvOf[u]
           \/ KeyOf[t] # None /\ KeyOf[t] = KeyOf[u]
    PROVE  t = u
<1>1. \A v \in Tasks : locks[v] \in Seq(LockIds) /\ DOMAIN locks[v] = 1 .. Len(locks[v])
  BY LenProperties DEF Shapes, TypeOK
<1>2. \E i \in DOMAIN locks[t], j \in DOMAIN locks[u] : KeySeq(t)[i] = KeySeq(u)[j]
  <2>1. CASE ConvOf[t] # None /\ ConvOf[t] = ConvOf[u]
    <3>1. 1 \in DOMAIN locks[t] /\ 1 \in DOMAIN locks[u] /\ KeySeq(t)[1] = KeySeq(u)[1]
      BY <1>1, <2>1, KeySeqProperties DEF Holding
    <3> QED BY <3>1
  <2>2. CASE KeyOf[t] # None /\ KeyOf[t] = KeyOf[u]
    <3>1. /\ Len(KeySeq(t)) \in DOMAIN locks[t] /\ Len(KeySeq(u)) \in DOMAIN locks[u]
          /\ KeySeq(t)[Len(KeySeq(t))] = KeySeq(u)[Len(KeySeq(u))]
      BY <1>1, <2>2, KeySeqProperties DEF Holding
    <3> QED BY <3>1
  <2> QED BY <2>1, <2>2
<1>3. PICK i \in DOMAIN locks[t], j \in DOMAIN locks[u] : KeySeq(t)[i] = KeySeq(u)[j]
  BY <1>2
<1>4. locks[t][i] = locks[u][j]
  BY <1>3 DEF Locking
<1> QED BY <1>3, <1>4 DEF Holding, HoldsAll

LockTypes ==
    /\ pool \in [LockKeys -> LockIds \cup {0}]
    /\ queue \in [LockIds -> Seq(Tasks)]
    /\ locks \in [Tasks -> Seq(LockIds)]

\* Nothing moves but the places of the tasks.
LEMMA LocksStay ==
    ASSUME Shapes, Locking, UNCHANGED lockVars,
           \A u \in Tasks : pc'[u] \in Active => Holding(u) /\ Kind[u] = "create"
    PROVE  Locking' /\ LockTypes'
<1>1. UNCHANGED <<pool, queue, locks>>
  BY DEF lockVars
<1>2. LockTypes'
  BY <1>1 DEF Shapes, TypeOK, LockTypes
<1>3. ASSUME NEW u \in Tasks
      PROVE  /\ Len(locks'[u]) <= Len(KeySeq(u))
             /\ \A i \in DOMAIN locks'[u] :
                   u \in Range(queue'[locks'[u][i]]) /\ pool'[KeySeq(u)[i]] = locks'[u][i]
             /\ pc'[u] \in Active => Holding(u)' /\ Kind[u] = "create"
  <2>1. Holding(u) => Holding(u)'
    BY <1>1 DEF Holding, HoldsAll
  <2> QED BY <1>1, <2>1 DEF Locking
<1> QED BY <1>2, <1>3 DEF Locking

\* A task gives up its locks and its places.
LEMMA LocksReleased ==
    ASSUME Shapes, Locking, NEW t \in Tasks, Release(t), pc'[t] \notin Active,
           \A u \in Tasks \ {t} : pc'[u] = pc[u]
    PROVE  Locking' /\ LockTypes'
<1>1. LockTypes
  BY DEF Shapes, TypeOK, LockTypes
<1>2. /\ queue' = [l \in LockIds |-> Leave(queue[l], t)]
      /\ locks' = [locks EXCEPT ![t] = <<>>]
      /\ pool' = pool
  BY DEF Release
<1>3. \A l \in LockIds :
        /\ Leave(queue[l], t) \in Seq(Tasks)
        /\ \A u \in Range(queue[l]) : u # t => u \in Range(Leave(queue[l], t))
        /\ \A u : u # t /\ queue[l] # <<>> /\ Head(queue[l]) = u => Head(Leave(queue[l], t)) = u
  BY <1>1, LeaveProperties DEF LockTypes
<1>4. queue' \in [LockIds -> Seq(Tasks)]
  BY <1>2, <1>3
<1>5. locks' \in [Tasks -> Seq(LockIds)] /\ locks'[t] = <<>>
      /\ \A u \in Tasks \ {t} : locks'[u] = locks[u]
  BY <1>1, <1>2 DEF LockTypes
<1>6. LockTypes'
  BY <1>1, <1>2, <1>4, <1>5 DEF LockTypes
<1>7. ASSUME NEW u \in Tasks
      PROVE  /\ Len(locks'[u]) <= Len(KeySeq(u))
             /\ \A i \in DOMAIN locks'[u] :
                   u \in Range(queue'[locks'[u][i]]) /\ pool'[KeySeq(u)[i]] = locks'[u][i]
             /\ pc'[u] \in Active => Holding(u)' /\ Kind[u] = "create"
  <2>1. CASE u = t
    <3>1. Len(locks'[u]) = 0 /\ DOMAIN locks'[u] = {} /\ Len(KeySeq(u)) \in Nat
      BY <1>5, <2>1, KeySeqProperties
    <3> QED BY <2>1, <3>1
  <2>2. CASE u # t
    <3>1. locks'[u] = locks[u] /\ pc'[u] = pc[u] /\ locks[u] \in Seq(LockIds)
      BY <1>1, <1>5, <2>2 DEF LockTypes
    <3>2. \A i \in DOMAIN locks[u] : locks[u][i] \in LockIds
      BY <3>1
    <3>3. ASSUME NEW i \in DOMAIN locks[u]
          PROVE  /\ u \in Range(queue'[locks[u][i]])
                 /\ Head(queue[locks[u][i]]) = u => Head(queue'[locks[u][i]]) = u
      <4> DEFINE l == locks[u][i]
      <4>1. l \in LockIds /\ u \in Range(queue[l])
        BY <3>2 DEF Locking
      <4>2. queue[l] # <<>>
        BY <4>1 DEF Range
      <4> HIDE DEF l
      <4>3. queue'[l] = Leave(queue[l], t)
        BY <1>2, <4>1
      <4>4. u \in Range(queue'[l]) /\ (Head(queue[l]) = u => Head(queue'[l]) = u)
        BY <1>3, <2>2, <4>1, <4>2, <4>3
      <4> QED BY <4>4 DEF l
    <3>4. Holding(u) => Holding(u)'
      BY <3>1, <3>3 DEF Holding, HoldsAll
    <3> QED BY <1>2, <3>1, <3>3, <3>4 DEF Locking
  <2> QED BY <2>1, <2>2
<1> QED BY <1>6, <1>7 DEF Locking

\* A task asks for its next lock: for_key keeps the locks that are referred to.
LEMMA LocksJoined ==
    ASSUME Shapes, Locking, NEW t \in Tasks, ForKey(t)
    PROVE  Locking' /\ LockTypes'
<1>1. LockTypes
  BY DEF Shapes, TypeOK, LockTypes
<1>2. \A u \in Tasks :
         /\ Len(locks[u]) \in Nat /\ DOMAIN locks[u] = 1 .. Len(locks[u])
         /\ \A i \in DOMAIN locks[u] : locks[u][i] \in LockIds
  BY <1>1, LenProperties DEF LockTypes
<1> DEFINE n == Len(locks[t]) + 1
           key == KeySeq(t)[n]
<1>3. n \in 1 .. Len(KeySeq(t)) /\ key \in LockKeys /\ pc[t] = "locking"
  BY <1>2, KeySeqProperties DEF ForKey
<1>4. PICK lock \in IF Referenced(key) THEN {pool[key]} ELSE NewLocks :
         /\ pool' = [k \in LockKeys |-> IF k = key THEN lock
                                        ELSE IF Referenced(k) THEN pool[k] ELSE 0]
         /\ queue' = [queue EXCEPT ![lock] = Append(@, t)]
         /\ locks' = [locks EXCEPT ![t] = Append(@, lock)]
  BY DEF ForKey
<1>5. lock \in LockIds /\ (Referenced(key) => lock = pool[key])
  BY <1>1, <1>3 DEF LockTypes, Referenced, NewLocks
<1>6. /\ Append(queue[lock], t) \in Seq(Tasks)
      /\ \A u \in Range(queue[lock]) : u \in Range(Append(queue[lock], t))
      /\ t \in Range(Append(queue[lock], t))
      /\ queue[lock] # <<>> => Head(Append(queue[lock], t)) = Head(queue[lock])
  BY <1>1, <1>5, JoinProperties DEF LockTypes
<1>7. /\ queue' \in [LockIds -> Seq(Tasks)] /\ queue'[lock] = Append(queue[lock], t)
      /\ \A l \in LockIds \ {lock} : queue'[l] = queue[l]
  BY <1>1, <1>4, <1>5, <1>6 DEF LockTypes
<1>8. /\ Append(locks[t], lock) \in Seq(LockIds) /\ Len(Append(locks[t], lock)) = n
      /\ DOMAIN Append(locks[t], lock) = 1 .. n
      /\ \A i \in 1 .. Len(locks[t]) : Append(locks[t], lock)[i] = locks[t][i]
      /\ Append(locks[t], lock)[n] = lock
  BY <1>1, <1>5, AppendProperties, LenProperties DEF LockTypes
<1>9. /\ locks' \in [Tasks -> Seq(LockIds)] /\ locks'[t] = Append(locks[t], lock)
      /\ \A u \in Tasks \ {t} : locks'[u] = locks[u]
  BY <1>1, <1>4, <1>8 DEF LockTypes
<1>10. pool' \in [LockKeys -> LockIds \cup {0}]
  BY <1>1, <1>4, <1>5 DEF LockTypes
<1>11. LockTypes'
  BY <1>7, <1>9, <1>10 DEF LockTypes
<1> HIDE DEF key, n
<1>12. ASSUME NEW u \in Tasks, NEW i \in DOMAIN locks[u]
       PROVE  /\ u \in Range(queue'[locks[u][i]])
              /\ Head(queue[locks[u][i]]) = u => Head(queue'[locks[u][i]]) = u
              /\ pool'[KeySeq(u)[i]] = locks[u][i]
  <2> DEFINE l == locks[u][i]
             k == KeySeq(u)[i]
  <2>1. l \in LockIds /\ u \in Range(queue[l]) /\ pool[k] = l
    BY <1>2 DEF Locking
  <2>2. queue[l] # <<>>
    BY <2>1 DEF Range
  <2>3. k \in LockKeys
    BY <1>2, KeySeqProperties DEF Locking
  <2>4. Referenced(k)
    <3>1. l # 0
      BY <2>1 DEF LockIds
    <3> QED BY <2>1, <2>2, <3>1 DEF Referenced
  <2> HIDE DEF l, k
  <2>5. pool'[k] = l
    BY <1>4, <1>5, <2>1, <2>3, <2>4
  <2>6. u \in Range(queue'[l]) /\ (Head(queue[l]) = u => Head(queue'[l]) = u)
    BY <1>6, <1>7, <2>1, <2>2
  <2> QED BY <2>5, <2>6 DEF l, k
<1>13. ASSUME NEW u \in Tasks
       PROVE  /\ Len(locks'[u]) <= Len(KeySeq(u))
              /\ \A i \in DOMAIN locks'[u] :
                    u \in Range(queue'[locks'[u][i]]) /\ pool'[KeySeq(u)[i]] = locks'[u][i]
              /\ pc'[u] \in Active => Holding(u)' /\ Kind[u] = "create"
  <2>1. pc'[u] = pc[u]
    BY DEF ForKey
  <2>2. CASE u = t
    <3>1. pc[u] \notin Active
      BY <1>3, <2>2 DEF Active
    <3>2. Len(locks'[u]) <= Len(KeySeq(u))
      BY <1>3, <1>8, <1>9, <2>2, KeySeqProperties
    <3>3. ASSUME NEW i \in DOMAIN locks'[u]
          PROVE  u \in Range(queue'[locks'[u][i]]) /\ pool'[KeySeq(u)[i]] = locks'[u][i]
      <4>1. CASE i = n
        <5>1. locks'[u][i] = lock /\ KeySeq(u)[i] = key
          BY <1>8, <1>9, <2>2, <4>1 DEF key
        <5>2. pool'[key] = lock
          BY <1>3, <1>4
        <5> QED BY <1>6, <1>7, <2>2, <5>1, <5>2
      <4>2. CASE i # n
        <5>1. i \in DOMAIN locks[u] /\ locks'[u][i] = locks[u][i]
          BY <1>2, <1>8, <1>9, <2>2, <4>2 DEF n
        <5> QED BY <1>12, <5>1
      <4> QED BY <4>1, <4>2
    <3> QED BY <2>1, <3>1, <3>2, <3>3
  <2>3. CASE u # t
    <3>1. locks'[u] = locks[u]
      BY <1>9, <2>3
    <3>2. Holding(u) => Holding(u)'
      BY <1>12, <3>1 DEF Holding, HoldsAll
    <3> QED BY <1>12, <2>1, <3>1, <3>2 DEF Locking
  <2> QED BY <2>2, <2>3
<1> QED BY <1>11, <1>13 DEF Locking

\* A restart forgets every lock and every task that had one.
LEMMA LocksForgotten ==
    ASSUME Shapes, Crash
    PROVE  Locking' /\ LockTypes'
<1>1. /\ pool' = [k \in LockKeys |-> 0] /\ queue' = [l \in LockIds |-> <<>>]
      /\ locks' = [t \in Tasks |-> <<>>]
      /\ pc' = [t \in Tasks |-> IF pc[t] \in Final \cup {"idle"} THEN pc[t] ELSE "lost"]
  BY DEF Crash
<1>2. LockTypes'
  BY <1>1 DEF LockTypes
<1>3. ASSUME NEW u \in Tasks
      PROVE  /\ Len(locks'[u]) = 0 /\ DOMAIN locks'[u] = {} /\ pc'[u] \notin Active
             /\ Len(KeySeq(u)) \in Nat
  BY <1>1, KeySeqProperties DEF Active, Final
<1> QED BY <1>2, <1>3 DEF Locking

Places == Final \cup {"idle", "locking", "fresh", "generating", "committed"}

\* What a step says of the tasks' places.
LEMMA EndsReleases ==
    ASSUME Shapes, Locking, NEW t \in Tasks, NEW how \in Final \cup {"committed"}, Ends(t, how)
    PROVE  /\ Locking' /\ LockTypes'
           /\ pc' \in [Tasks -> Places] /\ pc'[t] = how
           /\ \A u \in Tasks \ {t} : pc'[u] = pc[u]
           /\ base' \in [Tasks -> Seq(Items)]
           /\ \A u \in Tasks \ {t} : base'[u] = base[u]
<1>1. pc \in [Tasks -> Places] /\ base \in [Tasks -> Seq(Items)]
  BY DEF Shapes, TypeOK, Places
<1>2. how \in Places /\ how \notin Active
  BY DEF Places, Final, Active
<1>3. /\ pc' \in [Tasks -> Places] /\ pc'[t] = how
      /\ \A u \in Tasks \ {t} : pc'[u] = pc[u]
  BY <1>1, <1>2 DEF Ends
<1>4. <<>> \in Seq(Items)
  OBVIOUS
<1>5. /\ base' \in [Tasks -> Seq(Items)]
      /\ \A u \in Tasks \ {t} : base'[u] = base[u]
  BY <1>1, <1>4 DEF Ends
<1>6. Locking' /\ LockTypes'
  BY <1>2, <1>3, LocksReleased DEF Ends
<1> QED BY <1>3, <1>5, <1>6

(***************************************************************************)
(* Steps that leave the database alone: what they may do with the tasks.   *)
(***************************************************************************)
Quietly ==
    /\ UNCHANGED <<workload, conv, resp, deleted>>
    /\ pc' \in [Tasks -> Places]
    /\ base' \in [Tasks -> Seq(Items)]
    /\ answer' \in [Tasks -> Tasks \cup {None}]
    /\ crashes' \in 0 .. MaxCrashes
    /\ \A u \in Tasks :
          /\ pc'[u] \in Active => pc[u] \in Active \/ StoredUnder(u) = {}
          /\ pc'[u] = "generating" /\ ConvOf[u] # None =>
                \/ pc[u] = "generating" /\ base'[u] = base[u]
                \/ base'[u] = conv[ConvOf[u]] /\ Exists(ConvOf[u])
          /\ pc'[u] = "committed" => pc[u] = "committed"
          /\ \/ answer'[u] = answer[u]
             \/ pc[u] = "committed" /\ answer'[u] = u
             \/ answer'[u] \in StoredUnder(u) /\ resp[answer'[u]].hash = HashOf[u]
          /\ pc[u] = "done" => pc'[u] = "done"

LEMMA QuietStep ==
    ASSUME IInv, Quietly, Locking', LockTypes'
    PROVE  IInv'
<1>1. UNCHANGED <<workload, conv, resp, deleted>>
  BY DEF Quietly
<1>2. /\ \A c : Exists(c)' <=> Exists(c)
      /\ \A s : Kept(s)' <=> Kept(s)
      /\ \A u : StoredUnder(u)' = StoredUnder(u)
  BY <1>1 DEF Exists, Kept, StoredUnder
<1>3. Shapes'
  <2>1. TypeOK'
    BY <1>1, <1>2 DEF IInv, Shapes, TypeOK, LockTypes, Quietly, Places
  <2> QED BY <1>1, <2>1 DEF IInv, Shapes
<1>4. RowsTrue'
  BY <1>1 DEF IInv, RowsTrue
<1>5. ReadStands'
  BY <1>1, <1>2 DEF IInv, ReadStands, Quietly, Active
<1>6. StoredFirst'
  <2>1. ASSUME NEW u \in Tasks, pc'[u] = "committed"
        PROVE  Kind[u] = "create" /\ (u \in Stores => Kept(u)')
    BY <1>2, <2>1 DEF IInv, StoredFirst, Quietly
  <2>2. ASSUME NEW u \in Tasks, answer'[u] # None
        PROVE  /\ answer'[u] \in Stores => Kept(answer'[u])
               /\ KeyOf[u] # None => /\ answer'[u] \in Stores
                                     /\ KeyOf[answer'[u]] = KeyOf[u]
                                     /\ HashOf[answer'[u]] = HashOf[u]
    <3>1. CASE answer'[u] = answer[u]
      BY <2>2, <3>1 DEF IInv, StoredFirst
    <3>2. CASE pc[u] = "committed" /\ answer'[u] = u
      <4>1. Kind[u] = "create" /\ (u \in Stores => Kept(u))
        BY <3>2 DEF IInv, StoredFirst
      <4>2. KeyOf[u] # None => u \in Stores
        BY <4>1, TasksAssumption
      <4> QED BY <3>2, <4>1, <4>2
    <3>3. CASE answer'[u] \in StoredUnder(u) /\ resp[answer'[u]].hash = HashOf[u]
      <4> DEFINE s == answer'[u]
      <4>1. s \in Tasks /\ resp[s] # None /\ resp[s].key = KeyOf[u] /\ resp[s].hash = HashOf[u]
        BY <3>3 DEF StoredUnder
      <4>2. KeyOf[s] = KeyOf[u] /\ HashOf[s] = HashOf[u] /\ s \in Stores
        BY <4>1 DEF IInv, RowsTrue
      <4> QED BY <4>1, <4>2 DEF Kept
    <3> QED BY <3>1, <3>2, <3>3 DEF Quietly
  <2>3. \A s : (resp'[s] # None \/ s \in deleted') <=> Kept(s)
    BY <1>1 DEF Kept
  <2>4. \A c \in Convs, t \in Tasks :
          Exists(c)' /\ Output(t) \in Range(conv'[c]) /\ t \in Stores => Kept(t)'
    BY <1>1, <1>2 DEF IInv, StoredFirst
  <2> QED BY <2>1, <2>2, <2>3, <2>4 DEF StoredFirst, Kept
<1>7. TurnsAreWhole'
  <2>1. (\A d \in Tasks : Kind[d] = "deleteItem" => pc'[d] # "done")
          => (\A d \in Tasks : Kind[d] = "deleteItem" => pc[d] # "done")
    BY DEF Quietly
  <2> QED BY <1>1, <1>2, <2>1 DEF IInv, TurnsAreWhole
<1> QED BY <1>3, <1>4, <1>5, <1>6, <1>7 DEF IInv

\* The requests' steps that leave the database alone.
LEMMA QuietActions ==
    ASSUME IInv, NEW t \in Tasks, UNCHANGED workload,
           \/ Send(t) \/ ForKey(t) \/ Lookup(t) \/ Load(t) \/ Fail(t) \/ Reply(t)
           \/ Disconnect(t)
           \/ /\ Ends(t, "failed") \/ Ends(t, "done")
              /\ pc[t] # "done" /\ UNCHANGED <<conv, resp, deleted, answer, crashes>>
    PROVE  IInv'
<1> USE DEF IInv
<1>1. /\ pc \in [Tasks -> Places] /\ base \in [Tasks -> Seq(Items)]
      /\ answer \in [Tasks -> Tasks \cup {None}] /\ crashes \in 0 .. MaxCrashes
  BY DEF Shapes, TypeOK, Places
<1>2. \A u \in Tasks : pc[u] \in Active => Holding(u) /\ Kind[u] = "create"
  BY DEF Locking
<1>3. ASSUME NEW how \in Final, Ends(t, how), pc[t] # "done",
             UNCHANGED <<conv, resp, deleted, crashes>>,
             \/ UNCHANGED answer
             \/ \E s \in StoredUnder(t) : /\ resp[s].hash = HashOf[t]
                                          /\ answer' = [answer EXCEPT ![t] = s]
      PROVE  IInv'
  <2>1. /\ Locking' /\ LockTypes'
        /\ pc' \in [Tasks -> Places] /\ pc'[t] = how
        /\ \A u \in Tasks \ {t} : pc'[u] = pc[u]
        /\ base' \in [Tasks -> Seq(Items)]
        /\ \A u \in Tasks \ {t} : base'[u] = base[u]
    BY <1>3, EndsReleases
  <2>2. how \notin Active /\ how # "committed" /\ how # "generating"
    BY DEF Final, Active
  <2>3. /\ answer' \in [Tasks -> Tasks \cup {None}]
        /\ \A u \in Tasks : \/ answer'[u] = answer[u]
                            \/ /\ answer'[u] \in StoredUnder(u)
                               /\ resp[answer'[u]].hash = HashOf[u]
    BY <1>1, <1>3 DEF StoredUnder
  <2>4. Quietly
    BY <1>1, <1>3, <2>1, <2>2, <2>3 DEF Quietly
  <2> QED BY <2>1, <2>4, QuietStep
<1>4. {"answered", "rejected", "failed", "lost", "done"} = Final
  BY DEF Final
<1>5. ASSUME NEW how \in Places, pc' = [pc EXCEPT ![t] = how],
             UNCHANGED <<lockVars, conv, resp, deleted, crashes>>, pc[t] # "done",
             how \in Active => Holding(t) /\ Kind[t] = "create" /\ StoredUnder(t) = {},
             how # "committed",
             how = "generating" /\ ConvOf[t] # None =>
                base' = [base EXCEPT ![t] = conv[ConvOf[t]]] /\ Exists(ConvOf[t]),
             base' \in [Tasks -> Seq(Items)],
             \A u \in Tasks \ {t} : base'[u] = base[u],
             UNCHANGED answer \/ (pc[t] = "committed" /\ answer' = [answer EXCEPT ![t] = t])
      PROVE  IInv'
  <2>1. /\ pc' \in [Tasks -> Places] /\ pc'[t] = how
        /\ \A u \in Tasks \ {t} : pc'[u] = pc[u]
    BY <1>1, <1>5
  <2>2. Locking' /\ LockTypes'
    BY <1>2, <1>5, <2>1, LocksStay
  <2>3. /\ answer' \in [Tasks -> Tasks \cup {None}]
        /\ \A u \in Tasks : \/ answer'[u] = answer[u]
                            \/ pc[u] = "committed" /\ answer'[u] = u
    BY <1>1, <1>5
  <2>4. how = "generating" /\ ConvOf[t] # None =>
           base'[t] = conv[ConvOf[t]] /\ Exists(ConvOf[t])
    BY <1>1, <1>5
  <2>5. Quietly
    BY <1>1, <1>5, <2>1, <2>3, <2>4 DEF Quietly
  <2> QED BY <2>2, <2>5, QuietStep
<1>6. CASE Send(t)
  <2>1. pc[t] = "idle" /\ pc' = [pc EXCEPT ![t] = "locking"] /\ "locking" \in Places \ Active
    BY <1>6 DEF Send, Places, Active
  <2>2. UNCHANGED <<lockVars, conv, resp, deleted, crashes, base, answer>>
    BY <1>6 DEF Send, dbVars
  <2> QED BY <1>1, <1>5, <2>1, <2>2
<1>7. CASE ForKey(t)
  <2>1. UNCHANGED <<conv, resp, deleted, pc, base, answer, crashes>>
    BY <1>7 DEF ForKey, dbVars
  <2>2. Quietly
    BY <1>1, <2>1 DEF Quietly
  <2> QED BY <1>7, <2>2, LocksJoined, QuietStep
<1>8. CASE Lookup(t)
  <2>1. /\ Kind[t] = "create" /\ Holding(t) /\ pc[t] = "locking"
        /\ UNCHANGED <<conv, resp, deleted, crashes>>
    BY <1>8 DEF Lookup, Ready, Holding, dbVars
  <2>2. CASE StoredUnder(t) = {} /\ pc' = [pc EXCEPT ![t] = "fresh"]
             /\ UNCHANGED <<lockVars, base, answer>>
    <3>1. "fresh" \in Places
      BY DEF Places
    <3> QED BY <1>1, <1>5, <2>1, <2>2, <3>1
  <2>3. ASSUME NEW u \in StoredUnder(t), resp[u].hash = HashOf[t], Ends(t, "answered"),
               answer' = [answer EXCEPT ![t] = u]
        PROVE  IInv'
    BY <1>3, <1>4, <2>1, <2>3
  <2>4. CASE Ends(t, "rejected") /\ UNCHANGED answer
    BY <1>3, <1>4, <2>1, <2>4
  <2> QED BY <1>8, <2>2, <2>3, <2>4 DEF Lookup
<1>9. CASE Load(t)
  <2>1. pc[t] = "fresh" /\ UNCHANGED <<conv, resp, deleted, crashes, answer>>
    BY <1>9 DEF Load, dbVars
  <2>2. CASE Ends(t, "failed")
    BY <1>3, <1>4, <2>1, <2>2
  <2>3. CASE /\ HasHistory(t) /\ pc' = [pc EXCEPT ![t] = "generating"]
             /\ base' = [base EXCEPT ![t] = History(t)]
             /\ UNCHANGED lockVars
    <3>1. Holding(t) /\ Kind[t] = "create" /\ StoredUnder(t) = {} /\ "generating" \in Places
      BY <1>2, <2>1 DEF Active, ReadStands, Places
    <3>2. History(t) \in Seq(Items)
      <4>1. CASE PrevOf[t] # None
        <5>1. PrevOf[t] \in Tasks /\ resp[PrevOf[t]] # None
          BY <2>3, <4>1, TasksAssumption DEF HasHistory
        <5>2. resp[PrevOf[t]] \in Rows
          BY <5>1 DEF Shapes, TypeOK
        <5>3. resp[PrevOf[t]].context \in Seq(Items)
          BY <5>2 DEF Rows
        <5> QED BY <4>1, <5>3 DEF History
      <4>2. CASE PrevOf[t] = None /\ ConvOf[t] # None
        <5>1. ConvOf[t] \in Convs /\ Exists(ConvOf[t])
          BY <2>3, <4>2, TasksAssumption DEF HasHistory
        <5>2. conv[ConvOf[t]] \in Seq(Items)
          BY <5>1 DEF Shapes, TypeOK
        <5> QED BY <4>2, <5>2 DEF History
      <4>3. CASE PrevOf[t] = None /\ ConvOf[t] = None
        BY <4>3 DEF History
      <4> QED BY <4>1, <4>2, <4>3
    <3>3. /\ base' \in [Tasks -> Seq(Items)]
          /\ \A u \in Tasks \ {t} : base'[u] = base[u]
      BY <1>1, <2>3, <3>2
    <3>4. ConvOf[t] # None => /\ base' = [base EXCEPT ![t] = conv[ConvOf[t]]]
                              /\ Exists(ConvOf[t])
      BY <2>3, <3>1, TasksAssumption DEF HasHistory, History
    <3> QED BY <1>5, <2>1, <2>3, <3>1, <3>3, <3>4
  <2> QED BY <1>9, <2>2, <2>3 DEF Load
<1>10. CASE Fail(t)
  <2>1. /\ Ends(t, "failed") /\ UNCHANGED <<conv, resp, deleted, crashes, answer>>
        /\ pc[t] # "done"
    BY <1>10 DEF Fail, dbVars, Ready
  <2> QED BY <1>3, <1>4, <2>1
<1>11. CASE Reply(t)
  <2>1. /\ pc[t] = "committed" /\ pc' = [pc EXCEPT ![t] = "answered"]
        /\ answer' = [answer EXCEPT ![t] = t]
        /\ UNCHANGED <<lockVars, conv, resp, deleted, base, crashes>>
        /\ "answered" \in Places \ Active
    BY <1>11 DEF Reply, dbVars, Places, Final, Active
  <2> QED BY <1>1, <1>5, <2>1
<1>12. CASE Disconnect(t)
  <2>1. /\ Ends(t, "lost") /\ UNCHANGED <<conv, resp, deleted, crashes, answer>>
        /\ pc[t] # "done"
    BY <1>12 DEF Disconnect, dbVars
  <2> QED BY <1>3, <1>4, <2>1
<1>13. CASE /\ Ends(t, "failed") \/ Ends(t, "done")
            /\ pc[t] # "done" /\ UNCHANGED <<conv, resp, deleted, answer, crashes>>
  BY <1>3, <1>4, <1>13
<1> QED BY <1>6, <1>7, <1>8, <1>9, <1>10, <1>11, <1>12, <1>13

(***************************************************************************)
(* Conversations whose turns are whole.                                    *)
(***************************************************************************)
OwnInput(t) == \A a \in Tasks : Kind[a] = "add" => InputId[a] # InputId[t]
NoneDeleted == \A d \in Tasks : Kind[d] = "deleteItem" => pc[d] # "done"

Whole(q) ==
    \A t \in Creates :
        /\ \A i \in DOMAIN q : q[i] = Output(t) => i > 1 /\ q[i - 1] = Input(t)
        /\ OwnInput(t) =>
             \A i \in DOMAIN q : q[i] = Input(t)
                => \E u \in Creates : i < Len(q) /\ q[i + 1] = Output(u)

LEMMA WholeSays ==
    TurnsAreWhole <=> \A c \in Convs : Exists(c) /\ NoneDeleted => Whole(conv[c])
BY DEF TurnsAreWhole, Whole, OwnInput, NoneDeleted

\* Inputs and outputs are different items.
LEMMA ItemsDiffer ==
    /\ \A t, u \in Tasks : Input(t) # Output(u)
    /\ \A t, u \in Tasks : Output(t) = Output(u) => t = u
    /\ \A t \in Tasks : Input(t) \in Items /\ Output(t) \in Items
BY DEF Input, Output, Items

\* A sequence with a turn appended.
LEMMA TurnAppended ==
    ASSUME NEW q \in Seq(Items), NEW a \in Items, NEW b \in Items
    PROVE  /\ q \o <<a, b>> \in Seq(Items) /\ Len(q) \in Nat /\ Len(q \o <<a, b>>) = Len(q) + 2
           /\ DOMAIN q = 1 .. Len(q) /\ DOMAIN (q \o <<a, b>>) = 1 .. Len(q) + 2
           /\ \A i \in DOMAIN q : (q \o <<a, b>>)[i] = q[i]
           /\ (q \o <<a, b>>)[Len(q) + 1] = a /\ (q \o <<a, b>>)[Len(q) + 2] = b
<1> DEFINE p == <<a, b>>
           r == q \o p
<1>1. p \in Seq(Items) /\ Len(p) = 2 /\ p[1] = a /\ p[2] = b
  OBVIOUS
<1> HIDE DEF p
<1>2. /\ r \in Seq(Items) /\ Len(r) = Len(q) + Len(p)
      /\ \A i \in 1 .. Len(q) + Len(p) : r[i] = IF i <= Len(q) THEN q[i] ELSE p[i - Len(q)]
  BY <1>1, ConcatProperties
<1> HIDE DEF r
<1>3. Len(q) \in Nat /\ DOMAIN q = 1 .. Len(q) /\ DOMAIN r = 1 .. Len(q) + 2 /\ Len(r) = Len(q) + 2
  BY <1>1, <1>2, LenProperties
<1>4. \A i \in DOMAIN q : r[i] = q[i]
  BY <1>1, <1>2, <1>3
<1>5. r[Len(q) + 1] = a
  <2>1. Len(q) + 1 \in 1 .. Len(q) + Len(p) /\ ~(Len(q) + 1 <= Len(q)) /\ Len(q) + 1 - Len(q) = 1
    BY <1>1, <1>3
  <2> QED BY <1>1, <1>2, <2>1
<1>6. r[Len(q) + 2] = b
  <2>1. Len(q) + 2 \in 1 .. Len(q) + Len(p) /\ ~(Len(q) + 2 <= Len(q)) /\ Len(q) + 2 - Len(q) = 2
    BY <1>1, <1>3
  <2> QED BY <1>1, <1>2, <2>1
<1> QED BY <1>2, <1>3, <1>4, <1>5, <1>6 DEF r, p

\* A commit appends a whole turn.
LEMMA WholeTurn ==
    ASSUME NEW q \in Seq(Items), Whole(q), NEW t \in Creates
    PROVE  Whole(q \o <<Input(t), Output(t)>>)
<1> DEFINE r == q \o <<Input(t), Output(t)>>
<1>1. t \in Tasks /\ Input(t) \in Items /\ Output(t) \in Items
  BY ItemsDiffer DEF Creates
<1>2. /\ Len(q) \in Nat /\ Len(r) = Len(q) + 2
      /\ DOMAIN q = 1 .. Len(q) /\ DOMAIN r = 1 .. Len(q) + 2
      /\ \A i \in DOMAIN q : r[i] = q[i]
      /\ r[Len(q) + 1] = Input(t) /\ r[Len(q) + 2] = Output(t)
  BY <1>1, TurnAppended
<1> HIDE DEF r
<1>3. ASSUME NEW u \in Creates, NEW i \in DOMAIN r, r[i] = Output(u)
      PROVE  i > 1 /\ r[i - 1] = Input(u)
  <2>1. u \in Tasks
    BY DEF Creates
  <2>2. CASE i \in DOMAIN q
    <3>1. i > 1 /\ q[i - 1] = Input(u)
      BY <1>2, <1>3, <2>2 DEF Whole
    <3>2. i - 1 \in DOMAIN q
      BY <1>2, <2>2, <3>1
    <3> QED BY <1>2, <3>1, <3>2
  <2>3. CASE i = Len(q) + 1
    BY <1>1, <1>2, <1>3, <2>1, <2>3, ItemsDiffer
  <2>4. CASE i = Len(q) + 2
    <3>1. u = t
      BY <1>1, <1>2, <1>3, <2>1, <2>4, ItemsDiffer
    <3>2. i > 1 /\ i - 1 = Len(q) + 1
      BY <1>2, <2>4
    <3> QED BY <1>2, <3>1, <3>2
  <2> QED BY <1>2, <2>2, <2>3, <2>4
<1>4. ASSUME NEW u \in Creates, OwnInput(u), NEW i \in DOMAIN r, r[i] = Input(u)
      PROVE  \E v \in Creates : i < Len(r) /\ r[i + 1] = Output(v)
  <2>1. u \in Tasks
    BY DEF Creates
  <2>2. CASE i \in DOMAIN q
    <3>1. PICK v \in Creates : i < Len(q) /\ q[i + 1] = Output(v)
      BY <1>2, <1>4, <2>2 DEF Whole
    <3>2. i + 1 \in DOMAIN q /\ i < Len(r)
      BY <1>2, <2>2, <3>1
    <3> QED BY <1>2, <3>1, <3>2
  <2>3. CASE i = Len(q) + 1
    <3>1. i < Len(r) /\ i + 1 = Len(q) + 2
      BY <1>2, <2>3
    <3> QED BY <1>2, <3>1
  <2>4. CASE i = Len(q) + 2
    BY <1>1, <1>2, <1>4, <2>1, <2>4, ItemsDiffer
  <2> QED BY <1>2, <2>2, <2>3, <2>4
<1>5. Whole(r)
  BY <1>3, <1>4 DEF Whole
<1> QED BY <1>5 DEF r

\* Items added by hand break no turn.
LEMMA WholeAdd ==
    ASSUME NEW q \in Seq(Items), Whole(q), NEW a \in Tasks, Kind[a] = "add"
    PROVE  Whole(Append(q, Input(a)))
<1> DEFINE r == Append(q, Input(a))
<1>1. Input(a) \in Items
  BY ItemsDiffer
<1>2. /\ Len(q) \in Nat /\ Len(r) = Len(q) + 1
      /\ DOMAIN q = 1 .. Len(q) /\ DOMAIN r = 1 .. Len(q) + 1
      /\ \A i \in DOMAIN q : r[i] = q[i]
      /\ r[Len(q) + 1] = Input(a)
  BY <1>1, AppendProperties, LenProperties
<1> HIDE DEF r
<1>3. ASSUME NEW u \in Creates, NEW i \in DOMAIN r, r[i] = Output(u)
      PROVE  i > 1 /\ r[i - 1] = Input(u)
  <2>1. u \in Tasks
    BY DEF Creates
  <2>2. CASE i \in DOMAIN q
    <3>1. i > 1 /\ q[i - 1] = Input(u)
      BY <1>2, <1>3, <2>2 DEF Whole
    <3>2. i - 1 \in DOMAIN q
      BY <1>2, <2>2, <3>1
    <3> QED BY <1>2, <3>1, <3>2
  <2>3. CASE i = Len(q) + 1
    BY <1>1, <1>2, <1>3, <2>1, <2>3, ItemsDiffer
  <2> QED BY <1>2, <2>2, <2>3
<1>4. ASSUME NEW u \in Creates, OwnInput(u), NEW i \in DOMAIN r, r[i] = Input(u)
      PROVE  \E v \in Creates : i < Len(r) /\ r[i + 1] = Output(v)
  <2>1. u \in Tasks
    BY DEF Creates
  <2>2. CASE i \in DOMAIN q
    <3>1. PICK v \in Creates : i < Len(q) /\ q[i + 1] = Output(v)
      BY <1>2, <1>4, <2>2 DEF Whole
    <3>2. i + 1 \in DOMAIN q /\ i < Len(r)
      BY <1>2, <2>2, <3>1
    <3> QED BY <1>2, <3>1, <3>2
  <2>3. CASE i = Len(q) + 1
    <3>1. InputId[a] = InputId[u]
      BY <1>2, <1>4, <2>3 DEF Input
    <3> QED BY <1>4, <3>1 DEF OwnInput
  <2> QED BY <1>2, <2>2, <2>3
<1>5. Whole(r)
  BY <1>3, <1>4 DEF Whole
<1> QED BY <1>5 DEF r

(***************************************************************************)
(* Steps that change the database.                                         *)
(***************************************************************************)

\* The commit of a response: no other task has read what it changes.
LEMMA CommitStep ==
    ASSUME IInv, NEW t \in Tasks, UNCHANGED <<workload, deleted, answer, crashes>>,
           pc[t] = "generating",
           ConvOf[t] # None => Appendable(ConvOf[t], <<Input(t), Output(t)>>),
           Insertable(t), Ends(t, "committed"), resp' = Inserted(t), conv' = Appended(t)
    PROVE  IInv'
<1> USE DEF IInv
<1>1. /\ Locking' /\ LockTypes'
      /\ pc' \in [Tasks -> Places] /\ pc'[t] = "committed"
      /\ \A u \in Tasks \ {t} : pc'[u] = pc[u]
      /\ base' \in [Tasks -> Seq(Items)]
      /\ \A u \in Tasks \ {t} : base'[u] = base[u]
  BY EndsReleases
<1>2. Holding(t) /\ Kind[t] = "create" /\ t \in Creates
  BY DEF Locking, Active, Creates
<1>3. ASSUME NEW u \in Tasks, u # t, pc[u] \in Active
      PROVE  /\ ConvOf[u] # None => ConvOf[u] # ConvOf[t]
             /\ KeyOf[u] # None => KeyOf[u] # KeyOf[t]
  <2>1. Holding(u)
    BY <1>3 DEF Locking
  <2> QED BY <1>2, <1>3, <2>1, Exclusion
<1>4. Input(t) \in Items /\ Output(t) \in Items
  BY ItemsDiffer
<1> DEFINE pair == <<Input(t), Output(t)>>
           row == [key |-> KeyOf[t], hash |-> HashOf[t], context |-> base[t] \o pair]
<1>5. row \in Rows /\ row # None
  <2>1. base[t] \o pair \in Seq(Items)
    BY <1>4, TurnAppended DEF Shapes, TypeOK
  <2>2. KeyOf[t] \in Keys \cup {None} /\ HashOf[t] \in {HashOf[u] : u \in Tasks}
    BY TasksAssumption
  <2>3. row \in Rows
    BY <2>1, <2>2 DEF Rows
  <2> QED BY <2>3, RowAssumption
<1>6. row.key = KeyOf[t] /\ row.hash = HashOf[t]
  OBVIOUS
<1>7. resp' = IF t \in Stores THEN [resp EXCEPT ![t] = row] ELSE resp
  BY DEF Inserted
<1>8. conv' = IF ConvOf[t] # None THEN [conv EXCEPT ![ConvOf[t]] = @ \o pair] ELSE conv
  BY DEF Appended
<1>9. Len(pair) = 2
  OBVIOUS
<1> HIDE DEF row, pair
<1>10. /\ DOMAIN resp' = Tasks /\ resp' = [u \in Tasks |-> resp'[u]]
       /\ t \in Stores => resp'[t] = row
       /\ t \notin Stores => resp'[t] = resp[t]
       /\ \A u \in Tasks \ {t} : resp'[u] = resp[u]
  BY <1>7 DEF Shapes
<1>11. /\ DOMAIN conv' = Convs /\ conv' = [c \in Convs |-> conv'[c]]
       /\ \A c \in Convs : c = ConvOf[t] /\ ConvOf[t] # None => conv'[c] = conv[c] \o pair
       /\ \A c \in Convs : c # ConvOf[t] \/ ConvOf[t] = None => conv'[c] = conv[c]
  BY <1>8 DEF Shapes
<1>12. \A s \in Tasks : Kept(s) => Kept(s)'
  BY <1>5, <1>10 DEF Kept
<1>13. t \in Stores => Kept(t)'
  BY <1>5, <1>10 DEF Kept
\* Every conversation is as it was, or has this turn appended.
<1>14. ASSUME NEW c \in Convs
       PROVE  \/ conv'[c] = conv[c]
              \/ /\ Exists(c) /\ conv[c] \in Seq(Items) /\ c = ConvOf[t]
                 /\ conv'[c] = conv[c] \o pair /\ Len(conv[c]) + 2 <= MaxItems
  BY <1>9, <1>11 DEF Appendable, Shapes, TypeOK, pair
<1>15. ASSUME NEW c \in Convs, Exists(c)'
       PROVE  /\ conv'[c] \in Seq(Items) /\ Len(conv'[c]) <= MaxItems
              /\ \A u \in Tasks : Output(u) \in Range(conv'[c]) =>
                    u = t \/ (Exists(c) /\ Output(u) \in Range(conv[c]))
              /\ NoneDeleted' => Whole(conv'[c])
  <2>1. NoneDeleted' => NoneDeleted
    BY <1>1, <1>2 DEF NoneDeleted
  <2>2. CASE conv'[c] = conv[c]
    <3>1. Exists(c)
      BY <1>15, <2>2 DEF Exists
    <3>2. NoneDeleted => Whole(conv[c])
      BY <3>1, WholeSays
    <3> QED BY <2>1, <2>2, <3>1, <3>2 DEF Shapes, TypeOK
  <2>3. CASE /\ Exists(c) /\ conv[c] \in Seq(Items)
             /\ conv'[c] = conv[c] \o pair /\ Len(conv[c]) + 2 <= MaxItems
    <3> DEFINE q == conv[c]
               r == q \o pair
    <3>1. /\ r \in Seq(Items) /\ Len(q) \in Nat /\ Len(r) = Len(q) + 2
          /\ DOMAIN q = 1 .. Len(q) /\ DOMAIN r = 1 .. Len(q) + 2
          /\ \A i \in DOMAIN q : r[i] = q[i]
          /\ r[Len(q) + 1] = Input(t) /\ r[Len(q) + 2] = Output(t)
      BY <1>4, <2>3, TurnAppended DEF pair
    <3>2. NoneDeleted => Whole(q)
      BY <2>3, WholeSays
    <3>3. Whole(q) => Whole(r)
      BY <1>2, <2>3, WholeTurn DEF pair
    <3> HIDE DEF q, r
    <3>4. ASSUME NEW u \in Tasks, Output(u) \in Range(r)
          PROVE  u = t \/ Output(u) \in Range(q)
      <4>1. PICK i \in DOMAIN r : r[i] = Output(u)
        BY <3>4 DEF Range
      <4>2. CASE i \in DOMAIN q
        BY <3>1, <4>1, <4>2 DEF Range
      <4>3. CASE i = Len(q) + 1
        BY <3>1, <4>1, <4>3, ItemsDiffer
      <4>4. CASE i = Len(q) + 2
        BY <3>1, <4>1, <4>4, ItemsDiffer
      <4> QED BY <3>1, <4>1, <4>2, <4>3, <4>4
    <3>5. conv'[c] = r /\ Len(q) + 2 <= MaxItems
      BY <2>3 DEF q, r
    <3> QED BY <2>1, <2>3, <3>1, <3>2, <3>3, <3>4, <3>5 DEF q
  <2> QED BY <1>14, <2>2, <2>3
<1>16. Shapes'
  <2>1. \A c \in Convs : Exists(c)' => conv'[c] \in Seq(Items) /\ Len(conv'[c]) <= MaxItems
    BY <1>15
  <2>2. \A u \in Tasks : resp'[u] # None => resp'[u] \in Rows
    BY <1>5, <1>10 DEF Shapes, TypeOK
  <2>3. TypeOK'
    BY <1>1, <2>1, <2>2 DEF TypeOK, LockTypes, Places, Shapes
  <2> QED BY <1>10, <1>11, <2>3 DEF Shapes
<1>17. RowsTrue'
  <2>1. \A u \in Tasks : resp'[u] # None =>
          resp'[u].key = KeyOf[u] /\ resp'[u].hash = HashOf[u] /\ u \in Stores
    BY <1>6, <1>10 DEF RowsTrue
  <2>2. ASSUME NEW u \in Tasks, u # t, t \in Stores, resp[u] # None,
               KeyOf[u] = KeyOf[t], KeyOf[t] # None
        PROVE  FALSE
    <3>1. u \in StoredUnder(t)
      BY <2>2 DEF StoredUnder, RowsTrue
    <3> QED BY <2>2, <3>1 DEF Insertable
  <2>3. ASSUME NEW u \in Tasks, NEW v \in Tasks, resp'[u] # None, resp'[v] # None,
               KeyOf[u] = KeyOf[v], KeyOf[u] # None
        PROVE  u = v
    <3>1. CASE u # t /\ v # t
      BY <1>10, <2>3, <3>1 DEF RowsTrue
    <3>2. CASE u = t \/ v = t
      BY <1>10, <2>1, <2>2, <2>3, <3>2
    <3> QED BY <3>1, <3>2
  <2> QED BY <2>1, <2>3 DEF RowsTrue
<1>18. ReadStands'
  <2>1. ASSUME NEW u \in Tasks, pc'[u] \in Active PROVE StoredUnder(u)' = {}
    <3>1. u # t /\ pc[u] \in Active
      BY <1>1, <2>1 DEF Active
    <3>2. StoredUnder(u) = {} /\ (KeyOf[u] # None => KeyOf[u] # KeyOf[t])
      BY <1>3, <3>1 DEF ReadStands
    <3>3. \A v \in Tasks : v # t => ~(resp[v] # None /\ KeyOf[u] # None /\ resp[v].key = KeyOf[u])
      BY <3>2 DEF StoredUnder
    <3>4. \A v \in Tasks : ~(resp'[v] # None /\ KeyOf[u] # None /\ resp'[v].key = KeyOf[u])
      BY <1>10, <1>17, <3>2, <3>3 DEF RowsTrue
    <3> QED BY <3>4 DEF StoredUnder
  <2>2. ASSUME NEW u \in Tasks, pc'[u] = "generating", ConvOf[u] # None
        PROVE  conv'[ConvOf[u]] = base'[u] /\ Exists(ConvOf[u])'
    <3>1. u # t /\ pc[u] = "generating" /\ ConvOf[u] \in Convs
      BY <1>1, <2>2, TasksAssumption
    <3>2. ConvOf[u] # ConvOf[t]
      BY <1>3, <2>2, <3>1 DEF Active
    <3>3. conv'[ConvOf[u]] = conv[ConvOf[u]] /\ base'[u] = base[u]
      BY <1>1, <1>11, <3>1, <3>2
    <3> QED BY <2>2, <3>1, <3>3 DEF ReadStands, Exists
  <2> QED BY <2>1, <2>2 DEF ReadStands
<1>19. StoredFirst'
  <2>1. ASSUME NEW u \in Tasks, pc'[u] = "committed"
        PROVE  Kind[u] = "create" /\ (u \in Stores => Kept(u)')
    <3>1. CASE u = t
      BY <1>2, <1>13, <3>1
    <3>2. CASE u # t
      BY <1>1, <1>12, <2>1, <3>2 DEF StoredFirst
    <3> QED BY <3>1, <3>2
  <2>2. ASSUME NEW u \in Tasks, answer'[u] # None
        PROVE  /\ answer'[u] \in Stores => resp'[answer'[u]] # None \/ answer'[u] \in deleted'
               /\ KeyOf[u] # None => /\ answer'[u] \in Stores
                                     /\ KeyOf[answer'[u]] = KeyOf[u]
                                     /\ HashOf[answer'[u]] = HashOf[u]
    <3>1. answer'[u] = answer[u] /\ answer[u] \in Tasks
      BY <2>2 DEF Shapes, TypeOK
    <3> QED BY <1>12, <2>2, <3>1 DEF StoredFirst, Kept
  <2>3. \A c \in Convs, u \in Tasks :
          Exists(c)' /\ Output(u) \in Range(conv'[c]) /\ u \in Stores => Kept(u)'
    BY <1>12, <1>13, <1>15 DEF StoredFirst
  <2> QED BY <2>1, <2>2, <2>3 DEF StoredFirst, Kept
<1>20. TurnsAreWhole'
  <2>1. \A c \in Convs : Exists(c)' /\ NoneDeleted' => Whole(conv'[c])
    BY <1>15
  <2> QED BY <2>1 DEF TurnsAreWhole, Whole, OwnInput, NoneDeleted
<1> QED BY <1>1, <1>16, <1>17, <1>18, <1>19, <1>20

\* A handler changes one conversation, which no generation has read.
LEMMA ConversationStep ==
    ASSUME IInv, Locking', LockTypes', NEW c \in Convs, NEW x,
           UNCHANGED <<workload, resp, deleted, answer, crashes>>,
           conv' = [conv EXCEPT ![c] = x],
           pc' \in [Tasks -> Places], base' \in [Tasks -> Seq(Items)],
           \A u \in Tasks : (pc'[u] = pc[u] /\ base'[u] = base[u]) \/ pc'[u] = "done",
           \A u \in Tasks : pc[u] = "generating" /\ ConvOf[u] # None => ConvOf[u] # c,
           x \notin {Absent, Gone} =>
              /\ x \in Seq(Items) /\ Len(x) <= MaxItems
              /\ \A u \in Tasks : Output(u) \in Range(x) /\ u \in Stores => Kept(u)
              /\ NoneDeleted' => Whole(x)
    PROVE  IInv'
<1> USE DEF IInv
<1>1. /\ DOMAIN conv' = Convs /\ conv' = [d \in Convs |-> conv'[d]] /\ conv'[c] = x
      /\ \A d \in Convs : d # c => conv'[d] = conv[d]
  BY DEF Shapes
<1>2. /\ \A u \in Tasks : Kept(u)' <=> Kept(u)
      /\ \A u \in Tasks : StoredUnder(u)' = StoredUnder(u)
  BY DEF Kept, StoredUnder
<1>3. NoneDeleted' => NoneDeleted
  BY DEF NoneDeleted
<1>4. ASSUME NEW d \in Convs, Exists(d)'
      PROVE  /\ conv'[d] \in Seq(Items) /\ Len(conv'[d]) <= MaxItems
             /\ \A u \in Tasks : Output(u) \in Range(conv'[d]) /\ u \in Stores => Kept(u)
             /\ NoneDeleted' => Whole(conv'[d])
  <2>1. CASE d = c
    BY <1>1, <1>4, <2>1 DEF Exists
  <2>2. CASE d # c
    <3>1. conv'[d] = conv[d] /\ Exists(d)
      BY <1>1, <1>4, <2>2 DEF Exists
    <3> QED BY <1>3, <3>1, WholeSays DEF Shapes, TypeOK, StoredFirst
  <2> QED BY <2>1, <2>2
<1>5. Shapes'
  <2>1. \A d \in Convs : Exists(d)' => conv'[d] \in Seq(Items) /\ Len(conv'[d]) <= MaxItems
    BY <1>4
  <2>2. TypeOK'
    BY <2>1 DEF TypeOK, LockTypes, Places, Shapes
  <2> QED BY <1>1, <2>2 DEF Shapes
<1>6. RowsTrue'
  BY DEF RowsTrue
<1>7. ReadStands'
  <2>1. ASSUME NEW u \in Tasks, pc'[u] \in Active PROVE StoredUnder(u)' = {}
    BY <1>2, <2>1 DEF ReadStands, Active
  <2>2. ASSUME NEW u \in Tasks, pc'[u] = "generating", ConvOf[u] # None
        PROVE  conv'[ConvOf[u]] = base'[u] /\ Exists(ConvOf[u])'
    <3>1. pc[u] = "generating" /\ base'[u] = base[u] /\ ConvOf[u] \in Convs
      BY <2>2, TasksAssumption
    <3>2. conv'[ConvOf[u]] = conv[ConvOf[u]]
      BY <1>1, <2>2, <3>1
    <3> QED BY <2>2, <3>1, <3>2 DEF ReadStands, Exists
  <2> QED BY <2>1, <2>2 DEF ReadStands
<1>8. StoredFirst'
  <2>1. \A u \in Tasks : pc'[u] = "committed" => Kind[u] = "create" /\ (u \in Stores => Kept(u)')
    BY <1>2 DEF StoredFirst
  <2>2. ASSUME NEW u \in Tasks, answer'[u] # None
        PROVE  /\ answer'[u] \in Stores => resp'[answer'[u]] # None \/ answer'[u] \in deleted'
               /\ KeyOf[u] # None => /\ answer'[u] \in Stores
                                     /\ KeyOf[answer'[u]] = KeyOf[u]
                                     /\ HashOf[answer'[u]] = HashOf[u]
    BY <2>2 DEF StoredFirst, Kept
  <2>3. \A d \in Convs, u \in Tasks :
          Exists(d)' /\ Output(u) \in Range(conv'[d]) /\ u \in Stores => Kept(u)'
    BY <1>2, <1>4
  <2> QED BY <2>1, <2>2, <2>3 DEF StoredFirst, Kept
<1>9. TurnsAreWhole'
  <2>1. \A d \in Convs : Exists(d)' /\ NoneDeleted' => Whole(conv'[d])
    BY <1>4
  <2> QED BY <2>1 DEF TurnsAreWhole, Whole, OwnInput, NoneDeleted
<1> QED BY <1>5, <1>6, <1>7, <1>8, <1>9

\* The handlers of conversations hold the conversation's lock.
LEMMA HandlerStep ==
    ASSUME IInv, UNCHANGED workload, NEW t \in Tasks,
           AddItems(t) \/ UpdateConversation(t) \/ DeleteItem(t) \/ DeleteConversation(t)
    PROVE  IInv'
<1> USE DEF IInv
<1> DEFINE c == ConvOf[t]
<1>1. /\ Ends(t, "done") /\ UNCHANGED <<resp, deleted, answer, crashes>>
      /\ Holding(t) /\ pc[t] = "locking" /\ Kind[t] # "create"
  BY DEF AddItems, UpdateConversation, DeleteItem, DeleteConversation, Under, Ready, Holding
<1>2. c \in Convs /\ c # None
  BY <1>1, TasksAssumption
<1>3. "done" \in Final \cup {"committed"}
  BY DEF Final
<1>4. /\ Locking' /\ LockTypes'
      /\ pc' \in [Tasks -> Places] /\ pc'[t] = "done"
      /\ \A u \in Tasks \ {t} : pc'[u] = pc[u]
      /\ base' \in [Tasks -> Seq(Items)]
      /\ \A u \in Tasks \ {t} : base'[u] = base[u]
  BY <1>1, <1>3, EndsReleases
<1>5. \A u \in Tasks : pc[u] = "generating" /\ ConvOf[u] # None => ConvOf[u] # c
  <2> SUFFICES ASSUME NEW u \in Tasks, pc[u] = "generating", ConvOf[u] # None, ConvOf[u] = c
               PROVE  FALSE
    OBVIOUS
  <2>1. Holding(u)
    BY DEF Locking, Active
  <2>2. u = t
    BY <1>1, <2>1, Exclusion
  <2> QED BY <1>1, <2>2
<1>6. NoneDeleted' => NoneDeleted /\ Kind[t] # "deleteItem"
  BY <1>1, <1>4 DEF NoneDeleted
<1>7. Exists(c) => /\ conv[c] \in Seq(Items) /\ Len(conv[c]) <= MaxItems
                   /\ \A u \in Tasks : Output(u) \in Range(conv[c]) /\ u \in Stores => Kept(u)
                   /\ NoneDeleted => Whole(conv[c])
  BY <1>2, WholeSays DEF Shapes, TypeOK, StoredFirst
<1> HIDE DEF c
<1>8. CASE UNCHANGED conv
  BY <1>1, <1>8, QuietActions
<1>9. CASE /\ AddItems(t) /\ Appendable(c, <<Input(t)>>)
           /\ conv' = [conv EXCEPT ![c] = Append(@, Input(t))]
  <2> DEFINE q == conv[c]
             x == Append(q, Input(t))
  <2>1. Exists(c) /\ Len(q) + 1 <= MaxItems /\ Kind[t] = "add" /\ Input(t) \in Items
    BY <1>9, ItemsDiffer DEF Appendable, AddItems, Under
  <2>2. q \in Seq(Items)
    BY <1>7, <2>1
  <2>3. /\ x \in Seq(Items) /\ Len(x) = Len(q) + 1 /\ Len(q) \in Nat
        /\ DOMAIN q = 1 .. Len(q) /\ DOMAIN x = 1 .. Len(q) + 1
        /\ \A i \in DOMAIN q : x[i] = q[i]
        /\ x[Len(q) + 1] = Input(t)
    BY <2>1, <2>2, AppendProperties, LenProperties
  <2>4. NoneDeleted => Whole(x)
    BY <1>7, <2>1, <2>2, WholeAdd
  <2> HIDE DEF x
  <2>5. ASSUME NEW u \in Tasks, Output(u) \in Range(x) PROVE Output(u) \in Range(q)
    <3>1. PICK i \in DOMAIN x : x[i] = Output(u)
      BY <2>5 DEF Range
    <3>2. i # Len(q) + 1
      BY <2>3, <3>1, ItemsDiffer
    <3>3. i \in DOMAIN q /\ q[i] = Output(u)
      BY <2>3, <3>1, <3>2
    <3> QED BY <3>3 DEF Range
  <2>6. /\ x \in Seq(Items) /\ Len(x) <= MaxItems
        /\ \A u \in Tasks : Output(u) \in Range(x) /\ u \in Stores => Kept(u)
        /\ NoneDeleted' => Whole(x)
    BY <1>6, <1>7, <2>1, <2>3, <2>4, <2>5
  <2>7. conv' = [conv EXCEPT ![c] = x]
    BY <1>9 DEF x
  <2> QED BY <1>1, <1>2, <1>4, <1>5, <2>6, <2>7, ConversationStep
<1>10. ASSUME DeleteItem(t), Exists(c), NEW i \in DOMAIN conv[c],
              conv' = [conv EXCEPT ![c] = RemoveAt(@, i)]
       PROVE  IInv'
  <2> DEFINE q == conv[c]
             x == RemoveAt(q, i)
  <2>1. q \in Seq(Items) /\ Len(q) <= MaxItems /\ MaxItems \in Nat
    BY <1>7, <1>10, TasksAssumption
  <2>2. /\ x \in Seq(Items)
        /\ Len(q) \in Nat /\ Len(x) = Len(q) - 1
        /\ \A j \in 1 .. i - 1 : x[j] = q[j]
        /\ \A j \in i .. Len(q) - 1 : x[j] = q[j + 1]
    BY <1>10, <2>1, RemoveAtProperties
  <2>3. DOMAIN q = 1 .. Len(q) /\ DOMAIN x = 1 .. Len(q) - 1
    BY <2>1, <2>2, LenProperties
  <2>4. conv' = [conv EXCEPT ![c] = x]
    BY <1>10
  <2> HIDE DEF x
  <2>5. ASSUME NEW u \in Tasks, Output(u) \in Range(x) PROVE Output(u) \in Range(q)
    <3>1. PICK j \in DOMAIN x : x[j] = Output(u)
      BY <2>5 DEF Range
    <3>2. CASE j < i
      <4>1. j \in DOMAIN q /\ q[j] = Output(u)
        BY <1>10, <2>2, <2>3, <3>1, <3>2
      <4> QED BY <4>1 DEF Range
    <3>3. CASE j >= i
      <4>1. j + 1 \in DOMAIN q /\ q[j + 1] = Output(u)
        BY <1>10, <2>2, <2>3, <3>1, <3>3
      <4> QED BY <4>1 DEF Range
    <3> QED BY <1>10, <2>3, <3>1, <3>2, <3>3
  <2>6. Kind[t] = "deleteItem"
    BY <1>10 DEF DeleteItem, Under
  <2>7. /\ x \in Seq(Items) /\ Len(x) <= MaxItems
        /\ \A u \in Tasks : Output(u) \in Range(x) /\ u \in Stores => Kept(u)
        /\ NoneDeleted' => Whole(x)
    BY <1>6, <1>7, <1>10, <2>1, <2>2, <2>5, <2>6
  <2> QED BY <1>1, <1>2, <1>4, <1>5, <2>4, <2>7, ConversationStep
<1>11. CASE conv' = [conv EXCEPT ![c] = Gone]
  BY <1>1, <1>2, <1>4, <1>5, <1>11, ConversationStep
<1> QED
  BY <1>8, <1>9, <1>10, <1>11
  DEF AddItems, UpdateConversation, DeleteItem, DeleteConversation, c

\* A new conversation is one that nobody can have read.
LEMMA CreateStep ==
    ASSUME IInv, UNCHANGED workload, NEW c \in Convs, CreateConversation(c)
    PROVE  IInv'
<1> USE DEF IInv
<1>1. /\ conv[c] = Absent /\ conv' = [conv EXCEPT ![c] = <<>>]
      /\ UNCHANGED <<resp, deleted, lockVars, pc, base, answer, crashes>>
  BY DEF CreateConversation
<1>2. /\ pc \in [Tasks -> Places] /\ base \in [Tasks -> Seq(Items)] /\ MaxItems \in Nat
  BY TasksAssumption DEF Shapes, TypeOK, Places
<1>3. Locking' /\ LockTypes'
  BY <1>1, LocksStay DEF Locking
<1>4. \A u \in Tasks : pc[u] = "generating" /\ ConvOf[u] # None => ConvOf[u] # c
  BY <1>1 DEF ReadStands, Exists
<1>5. /\ <<>> \in Seq(Items) /\ Len(<<>>) <= MaxItems
      /\ \A u \in Tasks : Output(u) \notin Range(<<>>)
      /\ Whole(<<>>)
  BY <1>2 DEF Range, Whole
<1> QED BY <1>1, <1>2, <1>3, <1>4, <1>5, ConversationStep

\* A deleted response is remembered as one.
LEMMA DeleteStep ==
    ASSUME IInv, UNCHANGED workload, NEW s \in Tasks, DeleteResponse(s)
    PROVE  IInv'
<1> USE DEF IInv
<1>1. /\ resp' = [resp EXCEPT ![s] = None] /\ deleted' = deleted \cup {s}
      /\ UNCHANGED <<conv, lockVars, pc, base, answer, crashes>>
  BY DEF DeleteResponse
<1>2. Locking' /\ LockTypes'
  BY <1>1, LocksStay DEF Locking
<1>3. /\ DOMAIN resp' = Tasks /\ resp' = [u \in Tasks |-> resp'[u]]
      /\ resp'[s] = None /\ \A u \in Tasks \ {s} : resp'[u] = resp[u]
  BY <1>1 DEF Shapes
<1>4. /\ \A u \in Tasks : Kept(u) => Kept(u)'
      /\ \A d : Exists(d)' <=> Exists(d)
  BY <1>1, <1>3 DEF Kept, Exists
<1>5. \A u \in Tasks : StoredUnder(u)' \subseteq StoredUnder(u)
  BY <1>3 DEF StoredUnder
<1>6. Shapes'
  <2>1. \A u \in Tasks : resp'[u] # None => resp'[u] \in Rows
    BY <1>3 DEF Shapes, TypeOK
  <2>2. TypeOK'
    BY <1>1, <1>2, <1>4, <2>1 DEF TypeOK, LockTypes, Shapes
  <2> QED BY <1>1, <1>3, <2>2 DEF Shapes
<1>7. RowsTrue'
  BY <1>3 DEF RowsTrue
<1>8. ReadStands'
  BY <1>1, <1>4, <1>5 DEF ReadStands
<1>9. StoredFirst'
  <2>1. \A u \in Tasks : pc'[u] = "committed" => Kind[u] = "create" /\ (u \in Stores => Kept(u)')
    BY <1>1, <1>4 DEF StoredFirst
  <2>2. ASSUME NEW u \in Tasks, answer'[u] # None
        PROVE  /\ answer'[u] \in Stores => resp'[answer'[u]] # None \/ answer'[u] \in deleted'
               /\ KeyOf[u] # None => /\ answer'[u] \in Stores
                                     /\ KeyOf[answer'[u]] = KeyOf[u]
                                     /\ HashOf[answer'[u]] = HashOf[u]
    <3>1. answer'[u] = answer[u] /\ answer[u] \in Tasks
      BY <1>1, <2>2 DEF Shapes, TypeOK
    <3> QED BY <1>4, <2>2, <3>1 DEF StoredFirst, Kept
  <2>3. \A d \in Convs, u \in Tasks :
          Exists(d)' /\ Output(u) \in Range(conv'[d]) /\ u \in Stores => Kept(u)'
    BY <1>1, <1>4 DEF StoredFirst
  <2> QED BY <2>1, <2>2, <2>3 DEF StoredFirst, Kept
<1>10. TurnsAreWhole'
  BY <1>1, <1>4 DEF TurnsAreWhole
<1> QED BY <1>2, <1>6, <1>7, <1>8, <1>9, <1>10

LEMMA CrashStep ==
    ASSUME IInv, UNCHANGED workload, Crash
    PROVE  IInv'
<1> USE DEF IInv
<1>1. Locking' /\ LockTypes'
  BY LocksForgotten
<1>2. /\ pc' = [t \in Tasks |-> IF pc[t] \in Final \cup {"idle"} THEN pc[t] ELSE "lost"]
      /\ base' = [t \in Tasks |-> <<>>] /\ crashes < MaxCrashes /\ crashes' = crashes + 1
      /\ UNCHANGED <<conv, resp, deleted, answer>>
  BY DEF Crash, dbVars
<1>3. /\ pc \in [Tasks -> Places] /\ answer \in [Tasks -> Tasks \cup {None}]
      /\ crashes \in 0 .. MaxCrashes /\ MaxCrashes \in Nat
  BY TasksAssumption DEF Shapes, TypeOK, Places
<1>4. pc' \in [Tasks -> Places]
      /\ \A u \in Tasks : pc'[u] \notin Active \cup {"committed"} /\ (pc[u] = "done" => pc'[u] = "done")
  BY <1>2, <1>3 DEF Places, Final, Active
<1>5. base' \in [Tasks -> Seq(Items)] /\ crashes' \in 0 .. MaxCrashes
  BY <1>2, <1>3
<1>6. Quietly
  BY <1>2, <1>3, <1>4, <1>5 DEF Quietly, Active
<1> QED BY <1>1, <1>6, QuietStep

\* Every step keeps the invariant.
LEMMA IInvStep ==
    IInv /\ [Next]_vars => IInv'
<1> SUFFICES ASSUME IInv, [Next]_vars PROVE IInv'
  OBVIOUS
<1>1. workload \subseteq Tasks
  BY DEF IInv, Shapes
<1>2. CASE Next
  <2>1. UNCHANGED workload
    BY <1>2 DEF Next
  <2>2. ASSUME NEW t \in workload, Send(t) \/ Handler(t) \/ Fail(t) \/ Disconnect(t)
        PROVE  IInv'
    <3>1. t \in Tasks
      BY <1>1
    <3>2. CASE Commit(t)
      <4>1. CASE Ends(t, "failed") /\ UNCHANGED <<conv, resp>>
        BY <2>1, <3>1, <3>2, <4>1, QuietActions DEF Commit
      <4>2. CASE /\ ConvOf[t] # None => Appendable(ConvOf[t], <<Input(t), Output(t)>>)
                 /\ Insertable(t)
                 /\ Ends(t, "committed")
                 /\ resp' = Inserted(t)
                 /\ conv' = Appended(t)
        BY <2>1, <3>1, <3>2, <4>2, CommitStep DEF Commit
      <4> QED BY <3>2, <4>1, <4>2 DEF Commit
    <3>3. CASE ~Commit(t)
      BY <2>1, <2>2, <3>1, <3>3, QuietActions, HandlerStep DEF Handler
    <3> QED BY <3>2, <3>3
  <2>3. ASSUME NEW c \in Convs, CreateConversation(c) PROVE IInv'
    BY <2>1, <2>3, CreateStep
  <2>4. ASSUME NEW s \in workload, DeleteResponse(s) PROVE IInv'
    BY <1>1, <2>1, <2>4, DeleteStep
  <2>5. CASE Crash
    BY <2>1, <2>5, CrashStep
  <2> QED BY <1>2, <2>2, <2>3, <2>4, <2>5 DEF Next
<1>3. CASE UNCHANGED vars
  <2>1. UNCHANGED <<workload, conv, resp, deleted, lockVars, pc, base, answer, crashes>>
    BY <1>3 DEF vars, dbVars
  <2>2. Locking' /\ LockTypes'
    BY <2>1, LocksStay DEF IInv, Locking
  <2>3. Quietly
    BY <2>1 DEF Quietly, IInv, Shapes, TypeOK, Places
  <2> QED BY <2>2, <2>3, QuietStep
<1> QED BY <1>2, <1>3

LEMMA InitIInv ==
    Init => IInv
<1> SUFFICES ASSUME Init PROVE IInv
  OBVIOUS
<1>1. \A c \in Convs : ~Exists(c)
  BY DEF Init, Exists
<1>2. MaxCrashes \in Nat /\ workload \subseteq Tasks
  BY TasksAssumption DEF Init
<1>3. /\ \A t \in Tasks : resp[t] = None /\ pc[t] = "idle" /\ answer[t] = None
      /\ \A t \in Tasks : locks[t] = <<>> /\ Len(locks[t]) = 0 /\ DOMAIN locks[t] = {}
      /\ \A t \in Tasks : Len(KeySeq(t)) \in Nat
  BY KeySeqProperties DEF Init
<1>4. TypeOK
  <2>1. pool \in [LockKeys -> LockIds \cup {0}] /\ queue \in [LockIds -> Seq(Tasks)]
        /\ locks \in [Tasks -> Seq(LockIds)] /\ base \in [Tasks -> Seq(Items)]
    BY DEF Init
  <2>2. pc \in [Tasks -> Final \cup {"idle", "locking", "fresh", "generating", "committed"}]
        /\ answer \in [Tasks -> Tasks \cup {None}] /\ deleted \subseteq Tasks
        /\ crashes \in 0 .. MaxCrashes
    BY <1>2 DEF Init
  <2> QED BY <1>1, <1>3, <2>1, <2>2 DEF TypeOK
<1>5. Shapes
  BY <1>2, <1>4 DEF Init, Shapes
<1>6. Locking /\ RowsTrue /\ ReadStands /\ StoredFirst /\ TurnsAreWhole
  BY <1>1, <1>3 DEF Locking, RowsTrue, ReadStands, StoredFirst, TurnsAreWhole, Active
<1> QED BY <1>5, <1>6 DEF IInv

\* The invariant holds in every state of every behaviour.
LEMMA Invariance ==
    Spec => []IInv
BY InitIInv, IInvStep, PTL DEF Spec

(***************************************************************************)
(* The locks that create_response and the handlers of a conversation take  *)
(* from ResponseLockPool exclude each other, and a turn is generated from  *)
(* the history it is appended to.                                          *)
(***************************************************************************)
THEOREM HistoriesAreIsolated ==
    Spec => []HistoryIsolated
<1>1. IInv => HistoryIsolated
  <2> SUFFICES ASSUME IInv PROVE HistoryIsolated
    OBVIOUS
  <2>1. MutualExclusion
    BY DEF MutualExclusion, IInv, Locking
  <2>2. PromptIsHistory
    BY DEF PromptIsHistory, IInv, ReadStands, Creates
  <2> QED BY <2>1, <2>2 DEF HistoryIsolated, IInv, Shapes
<1> QED BY <1>1, Invariance, PTL

(***************************************************************************)
(* An idempotency key stands for one generation and, while none of its     *)
(* responses is deleted, for one answer and one turn, over disconnects,    *)
(* retries and restarts (create_response and commit_response).             *)
(***************************************************************************)
THEOREM KeysActOnce ==
    Spec => []OncePerKey
<1>1. IInv => OncePerKey
  <2> SUFFICES ASSUME IInv PROVE OncePerKey
    OBVIOUS
  <2> USE DEF IInv
  <2>1. KeyGeneratesOnce
    <3> SUFFICES ASSUME NEW t \in Creates, pc[t] = "generating", KeyOf[t] # None
                 PROVE  /\ StoredUnder(t) = {}
                        /\ \A u \in Creates \ {t} : KeyOf[u] = KeyOf[t] => pc[u] # "generating"
      BY DEF KeyGeneratesOnce
    <3>1. t \in Tasks /\ StoredUnder(t) = {} /\ Holding(t)
      BY DEF Creates, ReadStands, Locking, Active
    <3>2. ASSUME NEW u \in Creates \ {t}, KeyOf[u] = KeyOf[t], pc[u] = "generating"
          PROVE  FALSE
      <4>1. u \in Tasks /\ Holding(u)
        BY <3>2 DEF Creates, Locking, Active
      <4> QED BY <3>1, <3>2, <4>1, Exclusion
    <3> QED BY <3>1, <3>2
  <2>2. RetryIsHarmless
    <3> SUFFICES ASSUME NEW t \in Creates, NEW u \in Creates,
                        t # u, KeyOf[t] # None, KeyOf[t] = KeyOf[u],
                        \A s \in deleted : KeyOf[s] # KeyOf[t]
                 PROVE  /\ (answer[t] # None /\ answer[u] # None) =>
                             answer[t] = answer[u] /\ HashOf[t] = HashOf[u]
                        /\ \A c \in Convs : Exists(c) =>
                             ~({Output(t), Output(u)} \subseteq Range(conv[c]))
      BY DEF RetryIsHarmless
    <3>1. t \in Tasks /\ u \in Tasks /\ t \in Stores /\ u \in Stores
      BY TasksAssumption DEF Creates
    <3>2. \A s \in Tasks : Kept(s) /\ KeyOf[s] = KeyOf[t] => resp[s] # None
      BY DEF Kept
    <3>3. ASSUME answer[t] # None, answer[u] # None
          PROVE  answer[t] = answer[u] /\ HashOf[t] = HashOf[u]
      <4>1. answer[t] \in Tasks /\ answer[u] \in Tasks
        BY <3>1, <3>3 DEF Shapes, TypeOK
      <4>2. /\ KeyOf[answer[t]] = KeyOf[t] /\ KeyOf[answer[u]] = KeyOf[t]
            /\ HashOf[answer[t]] = HashOf[t] /\ HashOf[answer[u]] = HashOf[u]
            /\ Kept(answer[t]) /\ Kept(answer[u])
        BY <3>1, <3>3 DEF StoredFirst
      <4>3. resp[answer[t]] # None /\ resp[answer[u]] # None
        BY <3>2, <4>1, <4>2
      <4> QED BY <4>1, <4>2, <4>3 DEF RowsTrue
    <3>4. ASSUME NEW c \in Convs, Exists(c), {Output(t), Output(u)} \subseteq Range(conv[c])
          PROVE  FALSE
      <4>1. Kept(t) /\ Kept(u)
        BY <3>1, <3>4 DEF StoredFirst
      <4>2. resp[t] # None /\ resp[u] # None
        BY <3>1, <3>2, <4>1
      <4> QED BY <3>1, <4>2 DEF RowsTrue
    <3> QED BY <3>3, <3>4
  <2> QED BY <2>1, <2>2 DEF OncePerKey
<1> QED BY <1>1, Invariance, PTL

(***************************************************************************)
(* A stored response that a client saw completed stays in the database     *)
(* until it is deleted, and a turn enters its conversation whole: the      *)
(* commit is one transaction (ResponsePersistence::commit).                *)
(***************************************************************************)
THEOREM TurnsStay ==
    Spec => []TurnsAreDurable
<1>1. IInv => TurnsAreDurable
  <2> SUFFICES ASSUME IInv PROVE TurnsAreDurable
    OBVIOUS
  <2>1. CompletedIsDurable
    BY DEF CompletedIsDurable, IInv, StoredFirst, Kept, Creates
  <2> QED BY <2>1 DEF TurnsAreDurable, IInv
<1> QED BY <1>1, Invariance, PTL
=============================================================================
