--------------------------- MODULE RegistryProofs ---------------------------
(***************************************************************************)
(* Proofs about ModelRegistry, for every set of clients, model ids, files, *)
(* servers and requests.                                                   *)
(***************************************************************************)
EXTENDS ModelRegistry, SequenceTheorems, TLAPS

(***************************************************************************)
(* Where in its code a handler has which locks.                            *)
(***************************************************************************)

Release == {"key", "drop", "drop rest", "deactivate", "next active", "trim"}
Loading == {"lease load", "fast", "heal", "reactivate", "build", "publish", "activate",
            "clear", "serve"}

\* From the look for a turn under the transition lock to its release.
Transit == {"target", "exclusive"} \cup Release \cup Loading

\* A handler at p holds l, or waits for it, as a reader; as a writer.
Shared(l, p) ==
    \/ l = "lifecycle" /\ p \in Loading \cup {"fit", "lease", "verify", "weights", "decode",
                                              "encoder load"}
    \/ l = "loaded" /\ p \in {"resident", "survey", "fast", "key", "next active", "pick",
                              "pick active", "use", "verify", "encoder model", "show loaded"}
    \/ l = "active" /\ p \in {"target", "pick active", "show", "show loaded"}

Sole(l, p) ==
    \/ l = "transition" /\ p \in Transit \cup {"replace", "enter", "unload", "turn"}
    \/ l = "lifecycle" /\ p \in Release \cup {"exclusive"}
    \/ l = "loaded" /\ p \in {"drop", "publish"}
    \/ l = "active" /\ p \in {"reactivate", "activate", "deactivate", "next active", "use"}
    \/ l = "encoderLoad" /\ p \in {"look again", "encoder model", "encoder load"}

\* A handler at p got l before.
Kept(l, p) ==
    \/ l = "transition" /\ p \in Transit
    \/ l = "lifecycle" /\ p \in Release \cup (Loading \ {"lease load"})
                                 \cup {"verify", "weights", "decode"}
    \/ l = "loaded" /\ p \in {"pick active", "use"}

Entries == [who : Clients, mode : {"r", "w"}]

LockTable ==
    /\ lock \in [LockNames -> Seq(Entries)]
    /\ \A l \in LockNames :
          /\ \A i, j \in DOMAIN lock[l] : lock[l][i].who = lock[l][j].who => i = j
          /\ \A i \in DOMAIN lock[l] :
                IF lock[l][i].mode = "r" THEN Shared(l, task[lock[l][i].who].pc)
                                         ELSE Sole(l, task[lock[l][i].who].pc)

HeldLocks ==
    \A c \in Clients, l \in LockNames : Kept(l, task[c].pc) => Holds(c, l)

(***************************************************************************)
(* Queues.                                                                 *)
(***************************************************************************)

\* The entry i of q holds its lock.
Grants(q, i) ==
    /\ q[i].mode = "w" => i = 1
    /\ q[i].mode = "r" => \A j \in 1 .. i : q[j].mode = "r"

\* A queue without its i-th entry.
LEMMA RemoveAtProperties ==
    ASSUME NEW S, NEW q \in Seq(S), NEW i \in DOMAIN q
    PROVE  /\ RemoveAt(q, i) \in Seq(S)
           /\ Len(q) \in Nat /\ Len(RemoveAt(q, i)) = Len(q) - 1
           /\ \A j \in 1 .. i - 1 : RemoveAt(q, i)[j] = q[j]
           /\ \A j \in i .. Len(q) - 1 : RemoveAt(q, i)[j] = q[j + 1]
<1> DEFINE a == SubSeq(q, 1, i - 1)
           b == SubSeq(q, i + 1, Len(q))
           r == RemoveAt(q, i)
<1>1. Len(q) \in Nat /\ DOMAIN q = 1 .. Len(q) /\ i \in 1 .. Len(q)
  BY LenProperties
<1>2. a \in Seq(S) /\ Len(a) = i - 1 /\ \A j \in 1 .. i - 1 : a[j] = q[j]
  BY <1>1, SubSeqProperties
<1>3. b \in Seq(S) /\ Len(b) = Len(q) - i /\ \A j \in 1 .. Len(q) - i : b[j] = q[i + j]
  BY <1>1, SubSeqProperties
<1>4. r = a \o b
  BY DEF RemoveAt
<1> HIDE DEF a, b, r
<1>5. /\ r \in Seq(S) /\ Len(r) = Len(a) + Len(b)
      /\ \A j \in 1 .. Len(a) + Len(b) : r[j] = IF j <= Len(a) THEN a[j] ELSE b[j - Len(a)]
  BY <1>2, <1>3, <1>4, ConcatProperties
<1>6. Len(r) = Len(q) - 1
  BY <1>1, <1>2, <1>3, <1>5
<1>7. ASSUME NEW j \in 1 .. i - 1 PROVE r[j] = q[j]
  BY <1>1, <1>2, <1>3, <1>5
<1>8. ASSUME NEW j \in i .. Len(q) - 1 PROVE r[j] = q[j + 1]
  <2>1. j \in 1 .. Len(a) + Len(b) /\ ~(j <= Len(a)) /\ j - Len(a) \in 1 .. Len(q) - i
    BY <1>1, <1>2, <1>3
  <2>2. r[j] = b[j - Len(a)] /\ b[j - Len(a)] = q[i + (j - Len(a))]
    BY <1>3, <1>5, <2>1
  <2>3. i + (j - Len(a)) = j + 1
    BY <1>1, <1>2
  <2> QED BY <2>2, <2>3
<1> QED BY <1>1, <1>5, <1>6, <1>7, <1>8 DEF r

\* What stays in a queue that c leaves: the others, in their order, and whoever
\* held the lock still holds it.
LEMMA LeaveProperties ==
    ASSUME NEW q \in Seq(Entries), NEW c,
           \A i, j \in DOMAIN q : q[i].who = q[j].who => i = j
    PROVE  /\ Leave(q, c) \in Seq(Entries)
           /\ \A i \in DOMAIN Leave(q, c) :
                 \E j \in DOMAIN q : Leave(q, c)[i] = q[j] /\ q[j].who # c
           /\ \A i, j \in DOMAIN Leave(q, c) :
                 Leave(q, c)[i].who = Leave(q, c)[j].who => i = j
           /\ \A i \in DOMAIN q : q[i].who # c /\ Grants(q, i) =>
                 \E j \in DOMAIN Leave(q, c) :
                    Leave(q, c)[j] = q[i] /\ Grants(Leave(q, c), j)
<1>1. CASE ~\E i \in DOMAIN q : q[i].who = c
  <2>1. Leave(q, c) = q
    BY <1>1 DEF Leave
  <2> QED BY <1>1, <2>1
<1>2. CASE \E i \in DOMAIN q : q[i].who = c
  <2> DEFINE k == CHOOSE i \in DOMAIN q : q[i].who = c
             r == RemoveAt(q, k)
  <2>1. k \in DOMAIN q /\ q[k].who = c
    BY <1>2
  <2>2. Leave(q, c) = r
    BY <1>2 DEF Leave
  <2> HIDE DEF k
  <2>3. /\ r \in Seq(Entries) /\ Len(q) \in Nat /\ Len(r) = Len(q) - 1
        /\ \A j \in 1 .. k - 1 : r[j] = q[j]
        /\ \A j \in k .. Len(q) - 1 : r[j] = q[j + 1]
    BY <2>1, RemoveAtProperties
  <2>4. DOMAIN q = 1 .. Len(q) /\ DOMAIN r = 1 .. Len(q) - 1
    BY <2>3, LenProperties
  <2> HIDE DEF r
  <2> DEFINE From(i) == IF i < k THEN i ELSE i + 1
  <2>5. \A i \in DOMAIN r : From(i) \in DOMAIN q /\ From(i) # k /\ r[i] = q[From(i)]
    BY <2>1, <2>3, <2>4
  <2>6. ASSUME NEW i \in DOMAIN r
        PROVE  \E j \in DOMAIN q : r[i] = q[j] /\ q[j].who # c
    BY <2>1, <2>5
  <2>7. ASSUME NEW i \in DOMAIN r, NEW j \in DOMAIN r, r[i].who = r[j].who PROVE i = j
    <3>1. From(i) = From(j)
      BY <2>5, <2>7
    <3> QED BY <2>1, <2>4, <3>1
  <2>8. ASSUME NEW i \in DOMAIN q, q[i].who # c, Grants(q, i)
        PROVE  \E j \in DOMAIN r : r[j] = q[i] /\ Grants(r, j)
    <3> DEFINE j == IF i < k THEN i ELSE i - 1
    <3>1. i # k /\ j \in DOMAIN r /\ j <= i /\ r[j] = q[i]
      BY <2>1, <2>3, <2>4, <2>8
    <3>2. q[i].mode = "w" => j = 1
      BY <2>1, <2>4, <2>8, <3>1 DEF Grants
    <3>3. ASSUME q[i].mode = "r", NEW n \in 1 .. j PROVE r[n].mode = "r"
      <4>1. n \in DOMAIN r /\ From(n) \in 1 .. i
        BY <2>1, <2>4, <3>1
      <4>2. r[n] = q[From(n)]
        BY <2>5, <4>1
      <4> QED BY <2>8, <3>3, <4>1, <4>2 DEF Grants
    <3> HIDE DEF j
    <3> QED BY <3>1, <3>2, <3>3 DEF Grants
  <2> QED BY <2>2, <2>3, <2>6, <2>7, <2>8
<1> QED BY <1>1, <1>2

\* A queue with one more entry: it is the last, and whoever held the lock holds it.
LEMMA JoinProperties ==
    ASSUME NEW q \in Seq(Entries), NEW e \in Entries,
           \A i, j \in DOMAIN q : q[i].who = q[j].who => i = j,
           \A i \in DOMAIN q : q[i].who # e.who
    PROVE  /\ Append(q, e) \in Seq(Entries)
           /\ \A i \in DOMAIN Append(q, e) :
                 Append(q, e)[i] = e \/ \E j \in DOMAIN q : Append(q, e)[i] = q[j]
           /\ \A i, j \in DOMAIN Append(q, e) :
                 Append(q, e)[i].who = Append(q, e)[j].who => i = j
           /\ \A i \in DOMAIN q : Grants(q, i) =>
                 \E j \in DOMAIN Append(q, e) :
                    Append(q, e)[j] = q[i] /\ Grants(Append(q, e), j)
<1> DEFINE r == Append(q, e)
<1>1. /\ r \in Seq(Entries) /\ Len(r) = Len(q) + 1
      /\ \A i \in 1 .. Len(q) : r[i] = q[i]
      /\ r[Len(q) + 1] = e
  BY AppendProperties
<1>2. Len(q) \in Nat /\ DOMAIN q = 1 .. Len(q) /\ DOMAIN r = 1 .. Len(q) + 1
  BY <1>1, LenProperties
<1> HIDE DEF r
<1>3. \A i \in DOMAIN r : (i \in DOMAIN q /\ r[i] = q[i]) \/ (i = Len(q) + 1 /\ r[i] = e)
  BY <1>1, <1>2
<1>4. ASSUME NEW i \in DOMAIN r, NEW j \in DOMAIN r, r[i].who = r[j].who PROVE i = j
  BY <1>3, <1>4
<1>5. ASSUME NEW i \in DOMAIN q, Grants(q, i)
      PROVE  \E j \in DOMAIN r : r[j] = q[i] /\ Grants(r, j)
  <2>1. i \in DOMAIN r /\ r[i] = q[i] /\ \A n \in 1 .. i : r[n] = q[n]
    BY <1>1, <1>2
  <2>2. Grants(r, i)
    BY <1>2, <1>5, <2>1 DEF Grants
  <2> QED BY <2>1, <2>2
<1> QED BY <1>1, <1>3, <1>4, <1>5 DEF r

\* A writer that holds a lock holds it alone.
LEMMA Exclusion ==
    ASSUME LockTable, NEW l \in LockNames, NEW c \in Clients, NEW d \in Clients,
           Holds(c, l), Holds(d, l), ~Shared(l, task[c].pc)
    PROVE  c = d
<1>1. lock[l] \in Seq(Entries) /\ Len(lock[l]) \in Nat /\ DOMAIN lock[l] = 1 .. Len(lock[l])
  BY LenProperties DEF LockTable
<1>2. PICK i \in DOMAIN lock[l] : lock[l][i].who = c /\ Grants(lock[l], i)
  BY <1>1 DEF Holds, Grants
<1>3. PICK j \in DOMAIN lock[l] : lock[l][j].who = d /\ Grants(lock[l], j)
  BY <1>1 DEF Holds, Grants
<1>4. lock[l][i] \in Entries /\ lock[l][j] \in Entries
  BY <1>1, ElementOfSeq
<1>5. lock[l][i].mode = "w" /\ i = 1
  BY <1>2, <1>4 DEF LockTable, Grants, Entries
<1>6. CASE lock[l][j].mode = "w"
  BY <1>2, <1>3, <1>5, <1>6 DEF Grants
<1>7. CASE lock[l][j].mode = "r"
  BY <1>1, <1>3, <1>5, <1>7 DEF Grants
<1> QED BY <1>4, <1>6, <1>7 DEF Entries

(***************************************************************************)
(* What a step of c does to the locks.                                     *)
(***************************************************************************)

\* c goes to q, drops the locks in `drops` and asks for those in `asks`.
Moves(c, q, drops, asks) ==
    /\ task'[c].pc = q /\ \A d \in Clients \ {c} : task'[d] = task[d]
    /\ lock' = After(c, drops, asks)

\* The table allows it: what c does not drop it has at q as it had it, and what
\* it asks for it did not have.
Fits(p, q, drops) ==
    \A l \in LockNames \ drops :
        /\ Shared(l, p) => Shared(l, q)
        /\ Sole(l, p) => Sole(l, q)

\* Locks that are only dropped or kept.
LEMMA Drops ==
    ASSUME LockTable, HeldLocks, NEW c \in Clients, NEW q, NEW drops,
           Moves(c, q, drops, {}), Fits(task[c].pc, q, drops),
           \A l \in LockNames : Kept(l, q) =>
              l \notin drops /\ (Kept(l, task[c].pc) \/ Holds(c, l))
    PROVE  LockTable' /\ HeldLocks'
<1> DEFINE k(l) == IF l \in drops THEN Leave(lock[l], c) ELSE lock[l]
<1>1. lock' = [l \in LockNames |-> k(l)]
  BY DEF Moves, After
<1>2. ASSUME NEW l \in LockNames
      PROVE  /\ lock[l] \in Seq(Entries) /\ DOMAIN lock[l] = 1 .. Len(lock[l])
             /\ k(l) \in Seq(Entries) /\ DOMAIN k(l) = 1 .. Len(k(l))
             /\ \A i, j \in DOMAIN k(l) : k(l)[i].who = k(l)[j].who => i = j
             /\ \A i \in DOMAIN k(l) : \E j \in DOMAIN lock[l] :
                   k(l)[i] = lock[l][j] /\ (lock[l][j].who = c => l \notin drops)
             /\ \A i \in DOMAIN lock[l] :
                   (lock[l][i].who = c => l \notin drops) /\ Grants(lock[l], i) =>
                      \E j \in DOMAIN k(l) : k(l)[j] = lock[l][i] /\ Grants(k(l), j)
  <2>1. /\ lock[l] \in Seq(Entries)
        /\ \A i, j \in DOMAIN lock[l] : lock[l][i].who = lock[l][j].who => i = j
    BY DEF LockTable
  <2>2. CASE l \in drops
    <3> DEFINE r == Leave(lock[l], c)
    <3>1. /\ r \in Seq(Entries)
          /\ \A i \in DOMAIN r : \E j \in DOMAIN lock[l] : r[i] = lock[l][j] /\ lock[l][j].who # c
          /\ \A i, j \in DOMAIN r : r[i].who = r[j].who => i = j
          /\ \A i \in DOMAIN lock[l] : lock[l][i].who # c /\ Grants(lock[l], i) =>
                \E j \in DOMAIN r : r[j] = lock[l][i] /\ Grants(r, j)
      BY <2>1, LeaveProperties
    <3>2. k(l) = r
      BY <2>2
    <3> HIDE DEF r, k
    <3> QED BY <2>1, <2>2, <3>1, <3>2, LenProperties
  <2>3. CASE l \notin drops
    <3>1. k(l) = lock[l]
      BY <2>3
    <3> HIDE DEF k
    <3> QED BY <2>1, <2>3, <3>1, LenProperties
  <2> QED BY <2>2, <2>3
<1>3. \A l \in LockNames : lock'[l] = k(l)
  BY <1>1
<1> HIDE DEF k
<1>4. lock' \in [LockNames -> Seq(Entries)]
  BY <1>1, <1>2
<1>5. ASSUME NEW l \in LockNames, NEW i \in DOMAIN lock'[l]
      PROVE  IF lock'[l][i].mode = "r" THEN Shared(l, task'[lock'[l][i].who].pc)
                                       ELSE Sole(l, task'[lock'[l][i].who].pc)
  <2>1. PICK j \in DOMAIN lock[l] :
           lock'[l][i] = lock[l][j] /\ (lock[l][j].who = c => l \notin drops)
    BY <1>2, <1>3
  <2>2. lock[l][j] \in Entries
    BY <1>2, ElementOfSeq
  <2>3. lock[l][j].who \in Clients
    BY <2>2 DEF Entries
  <2> QED BY <2>1, <2>3 DEF LockTable, Moves, Fits
<1>6. LockTable'
  BY <1>2, <1>3, <1>4, <1>5 DEF LockTable
<1>7. ASSUME NEW d \in Clients, NEW l \in LockNames, Kept(l, task'[d].pc) PROVE Holds(d, l)'
  <2>1. Holds(d, l) /\ (d = c => l \notin drops)
    BY <1>7 DEF HeldLocks, Moves
  <2>2. PICK i \in DOMAIN lock[l] : lock[l][i].who = d /\ Grants(lock[l], i)
    BY <1>2, <2>1 DEF Holds, Grants
  <2>3. PICK j \in DOMAIN k(l) : k(l)[j] = lock[l][i] /\ Grants(k(l), j)
    BY <1>2, <2>1, <2>2
  <2>4. lock'[l] = k(l) /\ j \in 1 .. Len(lock'[l]) /\ lock'[l][j].who = d
    BY <1>2, <1>3, <2>2, <2>3
  <2> QED BY <2>3, <2>4 DEF Holds, Grants
<1> QED BY <1>6, <1>7 DEF HeldLocks

\* Locks of which one is asked for.
LEMMA Asks ==
    ASSUME LockTable, HeldLocks, NEW c \in Clients, NEW q, NEW drops,
           NEW x \in LockNames, NEW mode \in {"r", "w"},
           Moves(c, q, drops, {[lock |-> x, mode |-> mode]}),
           Fits(task[c].pc, q, drops \cup {x}),
           x \in drops \/ ~(Shared(x, task[c].pc) \/ Sole(x, task[c].pc)),
           IF mode = "r" THEN Shared(x, q) ELSE Sole(x, q),
           \A l \in LockNames : Kept(l, q) =>
              l \notin drops \cup {x} /\ (Kept(l, task[c].pc) \/ Holds(c, l))
    PROVE  LockTable' /\ HeldLocks'
<1> DEFINE e == [who |-> c, mode |-> mode]
           ask == [lock |-> x, mode |-> mode]
           k(l) == IF l \in drops THEN Leave(lock[l], c) ELSE lock[l]
           n(l) == IF l = x THEN Append(k(l), e) ELSE k(l)
<1>a. e \in Entries /\ e.who = c /\ e.mode = mode
  BY DEF Entries
<1>1. \A l \in LockNames : lock'[l] = n(l)
  <2>1. ASSUME NEW l \in LockNames PROVE lock'[l] = n(l)
    <3>1. lock'[l] = IF \E a \in {ask} : a.lock = l
                     THEN Append(k(l), [who |-> c, mode |-> (CHOOSE a \in {ask} : a.lock = l).mode])
                     ELSE k(l)
      BY DEF Moves, After
    <3>2. (\E a \in {ask} : a.lock = l) <=> l = x
      OBVIOUS
    <3>3. l = x => (CHOOSE a \in {ask} : a.lock = l) = ask
      OBVIOUS
    <3> QED BY <3>1, <3>2, <3>3
  <2> QED BY <2>1
<1>b. lock' = [l \in LockNames |-> lock'[l]]
  BY DEF Moves, After
<1>2. ASSUME NEW l \in LockNames
      PROVE  /\ lock[l] \in Seq(Entries) /\ DOMAIN lock[l] = 1 .. Len(lock[l])
             /\ k(l) \in Seq(Entries)
             /\ \A i, j \in DOMAIN k(l) : k(l)[i].who = k(l)[j].who => i = j
             /\ \A i \in DOMAIN k(l) : \E j \in DOMAIN lock[l] :
                   k(l)[i] = lock[l][j] /\ (lock[l][j].who = c => l \notin drops)
             /\ \A i \in DOMAIN lock[l] :
                   (lock[l][i].who = c => l \notin drops) /\ Grants(lock[l], i) =>
                      \E j \in DOMAIN k(l) : k(l)[j] = lock[l][i] /\ Grants(k(l), j)
  <2>1. /\ lock[l] \in Seq(Entries)
        /\ \A i, j \in DOMAIN lock[l] : lock[l][i].who = lock[l][j].who => i = j
    BY DEF LockTable
  <2>2. CASE l \in drops
    <3> DEFINE r == Leave(lock[l], c)
    <3>1. /\ r \in Seq(Entries)
          /\ \A i \in DOMAIN r : \E j \in DOMAIN lock[l] : r[i] = lock[l][j] /\ lock[l][j].who # c
          /\ \A i, j \in DOMAIN r : r[i].who = r[j].who => i = j
          /\ \A i \in DOMAIN lock[l] : lock[l][i].who # c /\ Grants(lock[l], i) =>
                \E j \in DOMAIN r : r[j] = lock[l][i] /\ Grants(r, j)
      BY <2>1, LeaveProperties
    <3>2. k(l) = r
      BY <2>2
    <3> HIDE DEF r, k
    <3> QED BY <2>1, <2>2, <3>1, <3>2, LenProperties
  <2>3. CASE l \notin drops
    <3>1. k(l) = lock[l]
      BY <2>3
    <3> HIDE DEF k
    <3> QED BY <2>1, <2>3, <3>1, LenProperties
  <2> QED BY <2>2, <2>3
<1> HIDE DEF k, e
<1>3. ASSUME NEW i \in DOMAIN k(x) PROVE k(x)[i].who # e.who
  <2>1. PICK j \in DOMAIN lock[x] :
           k(x)[i] = lock[x][j] /\ (lock[x][j].who = c => x \notin drops)
    BY <1>2
  <2>2. lock[x][j].who = c => Shared(x, task[c].pc) \/ Sole(x, task[c].pc)
    BY DEF LockTable
  <2> QED BY <1>a, <2>1, <2>2
<1>4. ASSUME NEW l \in LockNames
      PROVE  /\ n(l) \in Seq(Entries) /\ DOMAIN n(l) = 1 .. Len(n(l))
             /\ \A i, j \in DOMAIN n(l) : n(l)[i].who = n(l)[j].who => i = j
             /\ \A i \in DOMAIN n(l) :
                   \/ l = x /\ n(l)[i] = e
                   \/ \E j \in DOMAIN lock[l] :
                         /\ n(l)[i] = lock[l][j]
                         /\ lock[l][j].who = c => l \notin drops \cup {x}
             /\ \A i \in DOMAIN lock[l] :
                   (lock[l][i].who = c => l \notin drops) /\ Grants(lock[l], i) =>
                      \E j \in DOMAIN n(l) : n(l)[j] = lock[l][i] /\ Grants(n(l), j)
  <2>1. CASE l = x
    <3> DEFINE r == Append(k(x), e)
    <3>1. /\ r \in Seq(Entries)
          /\ \A i \in DOMAIN r : r[i] = e \/ \E j \in DOMAIN k(x) : r[i] = k(x)[j]
          /\ \A i, j \in DOMAIN r : r[i].who = r[j].who => i = j
          /\ \A i \in DOMAIN k(x) : Grants(k(x), i) =>
                \E j \in DOMAIN r : r[j] = k(x)[i] /\ Grants(r, j)
      BY <1>a, <1>2, <1>3, JoinProperties
    <3>2. n(l) = r
      BY <2>1
    <3> HIDE DEF r, n
    <3>3. ASSUME NEW i \in DOMAIN r
          PROVE  r[i] = e \/ \E j \in DOMAIN lock[x] : r[i] = lock[x][j] /\ lock[x][j].who # c
      BY <1>a, <1>2, <1>3, <3>1
    <3>4. ASSUME NEW i \in DOMAIN lock[x], lock[x][i].who = c => x \notin drops,
                 Grants(lock[x], i)
          PROVE  \E j \in DOMAIN r : r[j] = lock[x][i] /\ Grants(r, j)
      <4>1. PICK j \in DOMAIN k(x) : k(x)[j] = lock[x][i] /\ Grants(k(x), j)
        BY <1>2, <3>4
      <4>2. PICK m \in DOMAIN r : r[m] = k(x)[j] /\ Grants(r, m)
        BY <3>1, <4>1
      <4> QED BY <4>1, <4>2
    <3>5. DOMAIN r = 1 .. Len(r)
      BY <3>1, LenProperties
    <3>6. /\ r \in Seq(Entries)
          /\ \A i, j \in DOMAIN r : r[i].who = r[j].who => i = j
      BY <3>1
    <3> QED BY <2>1, <3>2, <3>3, <3>4, <3>5, <3>6
  <2>2. CASE l # x
    <3>1. n(l) = k(l)
      BY <2>2
    <3>2. DOMAIN k(l) = 1 .. Len(k(l))
      BY <1>2, LenProperties
    <3> HIDE DEF n
    <3>3. ASSUME NEW i \in DOMAIN k(l)
          PROVE  \E j \in DOMAIN lock[l] :
                    /\ k(l)[i] = lock[l][j]
                    /\ lock[l][j].who = c => l \notin drops \cup {x}
      BY <1>2, <2>2
    <3>4. \A i \in DOMAIN lock[l] :
             (lock[l][i].who = c => l \notin drops) /\ Grants(lock[l], i) =>
                \E j \in DOMAIN k(l) : k(l)[j] = lock[l][i] /\ Grants(k(l), j)
      BY <1>2
    <3>5. /\ k(l) \in Seq(Entries)
          /\ \A i, j \in DOMAIN k(l) : k(l)[i].who = k(l)[j].who => i = j
      BY <1>2
    <3> QED BY <2>2, <3>1, <3>2, <3>3, <3>4, <3>5
  <2> QED BY <2>1, <2>2
<1> HIDE DEF n
<1>5. lock' \in [LockNames -> Seq(Entries)]
  BY <1>b, <1>1, <1>4
<1>6. ASSUME NEW l \in LockNames, NEW i \in DOMAIN lock'[l]
      PROVE  IF lock'[l][i].mode = "r" THEN Shared(l, task'[lock'[l][i].who].pc)
                                       ELSE Sole(l, task'[lock'[l][i].who].pc)
  <2>1. CASE l = x /\ n(l)[i] = e
    BY <1>1, <1>a, <2>1 DEF Moves
  <2>2. CASE \E j \in DOMAIN lock[l] : /\ n(l)[i] = lock[l][j]
                                       /\ lock[l][j].who = c => l \notin drops \cup {x}
    <3>1. PICK j \in DOMAIN lock[l] : /\ n(l)[i] = lock[l][j]
                                      /\ lock[l][j].who = c => l \notin drops \cup {x}
      BY <2>2
    <3>2. lock[l][j] \in Entries
      BY <1>2, ElementOfSeq
    <3>3. lock'[l][i] = lock[l][j]
      BY <1>1, <3>1
    <3>4. lock[l][j].who \in Clients
      BY <3>2 DEF Entries
    <3> QED BY <3>1, <3>3, <3>4 DEF LockTable, Moves, Fits
  <2> QED BY <1>1, <1>4, <2>1, <2>2
<1>7. LockTable'
  BY <1>1, <1>4, <1>5, <1>6 DEF LockTable
<1>8. ASSUME NEW d \in Clients, NEW l \in LockNames, Kept(l, task'[d].pc) PROVE Holds(d, l)'
  <2>1. Holds(d, l) /\ (d = c => l \notin drops)
    BY <1>8 DEF HeldLocks, Moves
  <2>2. PICK i \in DOMAIN lock[l] : lock[l][i].who = d /\ Grants(lock[l], i)
    BY <1>2, <2>1 DEF Holds, Grants
  <2>3. PICK j \in DOMAIN n(l) : n(l)[j] = lock[l][i] /\ Grants(n(l), j)
    BY <1>4, <2>1, <2>2
  <2>4. lock'[l] = n(l) /\ j \in 1 .. Len(lock'[l]) /\ lock'[l][j].who = d
    BY <1>1, <1>4, <2>2, <2>3
  <2> QED BY <2>3, <2>4 DEF Holds, Grants
<1> QED BY <1>7, <1>8 DEF HeldLocks

(***************************************************************************)
(* What a handler relies on where it is, and what the registries keep.     *)
(***************************************************************************)

Tasks == [pc : Places, req : site.requests \cup {[op |-> "none"]}, ok : BOOLEAN,
          model : (Ids \cup {NoId}) \X MaybeFile, used : MaybeFile,
          todo : SUBSET (Ids \cup {NoId})]

\* The places of the handler of each request.
PlacesOf(op) ==
    CASE op = "load"   -> Release \cup Loading \cup {"resident", "survey", "replace",
                                                     "exclusive", "fit", "enter"}
      [] op = "unload" -> Release \cup {"unload", "target", "exclusive"}
      [] op = "chat"   -> Loading \cup {"enter", "pick", "pick active", "use", "lease",
                                        "verify", "weights", "decode"}
      [] op = "embed"  -> {"look", "look again", "encoder model", "encoder load"}
      [] op = "show"   -> {"show", "show loaded"}
      [] op = "turn"   -> {"turn"}
      [] OTHER         -> {}

\* A handler at p works on task.model.
Modelled == Loading \cup {"resident", "survey", "fit", "enter", "use", "lease", "verify",
                          "weights", "decode", "encoder load"}
Freed == Release \ {"key"}

HasRuntime(f) == site.kind[f] \in {"gemma4", "runnable"}

\* The place fits the request, and a release has targets.
Placed(c) ==
    /\ task[c].pc = "done" \/ task[c].pc \in PlacesOf(task[c].req.op)
    /\ task[c].req.op = "load" => task[c].model = <<task[c].req.id, task[c].req.file>>
    /\ task[c].pc \in Release \cup {"replace", "exclusive"} => task[c].todo # {}

\* The model is one that can be loaded under its id.
OnModel(c) ==
    task[c].pc \in Modelled => task[c].model \in Models /\ File(c) \in FilesOf(Id(c))

\* No turn begins during a transition.
Undisturbed(c) == task[c].pc \in Transit => ~Busy

OnLoaded(c) ==
    /\ task[c].pc \in {"use", "weights", "decode"} => loaded[Id(c)] # NoFile
    /\ task[c].pc \in {"heal", "reactivate", "activate", "clear", "serve"} =>
          loaded[Id(c)] = File(c)

\* Once the engine released the targets they stay off the device.
Freeing(c) ==
    task[c].pc \in Freed /\ site.cuda =>
        \A m \in device : OneFile(m[1]) => m[1] \notin Doomed(c)

Runs(c) ==
    /\ task[c].pc \in {"publish", "activate"} /\ site.kind[File(c)] = "runnable" =>
          runtime[Id(c)] = File(c)
    /\ task[c].pc = "reactivate" /\ HasRuntime(File(c)) /\ OneFile(Id(c)) =>
          runtime[Id(c)] = File(c)

Relies(c) ==
    /\ Placed(c) /\ OnModel(c) /\ Undisturbed(c)
    /\ OnLoaded(c) /\ Freeing(c) /\ Runs(c)

Stored ==
    \A i \in Ids : /\ loaded[i] \in FilesOf(i) \cup {NoFile}
                   /\ runtime[i] \in FilesOf(i) \cup {NoFile}

\* A release that dropped its records is about to move the active id.
Moving == {c \in Clients : task[c].pc \in {"drop rest", "deactivate", "next active"}}
ActiveSound ==
    torn \/ active \in LoadedIds \cup {NoId} \/ \E c \in Moving : active \in Doomed(c)

\* A release that dropped its records is about to drop the rest; a load that
\* published the runtime is about to publish the record.
Dropping == {c \in Clients : task[c].pc = "drop rest"}
Coming == {c \in Clients : task[c].pc = "publish"}
LeftSound ==
    torn \/ \A i \in Ids : loaded[i] = NoFile =>
               \/ \E c \in Dropping : i \in Doomed(c)
               \/ /\ weights[i] = NoFile
                  /\ runtime[i] = NoFile \/ \E c \in Coming : Id(c) = i

DeviceSound ==
    site.cuda => \A m \in device : OneFile(m[1]) => loaded[m[1]] = m[2]

Registered ==
    /\ loaded \in [Ids -> MaybeFile] /\ weights \in [Ids -> MaybeFile]
    /\ runtime \in [Ids -> MaybeFile] /\ encoder \in [Ids -> MaybeFile]
    /\ active \in Ids \cup {NoId}
    /\ device \subseteq Models
    /\ session \in Models \cup {NoModel}
    /\ sent \in 0 .. MaxRequests /\ torn \in BOOLEAN

\* What holds of the registries whoever is at work.
Sound == Registered /\ Stored /\ ActiveSound /\ LeftSound /\ DeviceSound /\ TurnKeepsModel

RegistryInv ==
    /\ site \in Sites
    /\ task \in [Clients -> Tasks]
    /\ LockTable /\ HeldLocks
    /\ \A c \in Clients : Relies(c)
    /\ Sound

(***************************************************************************)
(* Steps of one handler.                                                   *)
(***************************************************************************)

\* c goes to p with the model m, u used and the targets t; the others stay.
Becomes(c, p, m, u, t) ==
    /\ task' \in [Clients -> Tasks]
    /\ task'[c].pc = p /\ task'[c].req = task[c].req
    /\ task'[c].model = m /\ task'[c].used = u /\ task'[c].todo = t
    /\ \A d \in Clients \ {c} : task'[d] = task[d]

LEMMA Updates ==
    ASSUME task \in [Clients -> Tasks], NEW c \in Clients, NEW p \in Places
    PROVE  /\ task' = [task EXCEPT ![c].pc = p] =>
                 Becomes(c, p, task[c].model, task[c].used, task[c].todo)
           /\ \A ok \in BOOLEAN : task' = [task EXCEPT ![c].pc = p, ![c].ok = ok] =>
                 Becomes(c, p, task[c].model, task[c].used, task[c].todo) /\ task'[c].ok = ok
           /\ \A m \in (Ids \cup {NoId}) \X MaybeFile :
                 task' = [task EXCEPT ![c].pc = p, ![c].model = m] =>
                    Becomes(c, p, m, task[c].used, task[c].todo)
           /\ \A u \in MaybeFile : task' = [task EXCEPT ![c].pc = p, ![c].used = u] =>
                 Becomes(c, p, task[c].model, u, task[c].todo)
           /\ \A t \in SUBSET (Ids \cup {NoId}) :
                 task' = [task EXCEPT ![c].pc = p, ![c].todo = t] =>
                    Becomes(c, p, task[c].model, task[c].used, t)
<1>0. task[c] \in Tasks
  OBVIOUS
<1>1. ASSUME task' = [task EXCEPT ![c].pc = p]
      PROVE  Becomes(c, p, task[c].model, task[c].used, task[c].todo)
  <2>1. [task[c] EXCEPT !.pc = p] \in Tasks
    BY <1>0 DEF Tasks
  <2> QED BY <1>0, <1>1, <2>1 DEF Becomes, Tasks
<1>2. ASSUME NEW ok \in BOOLEAN, task' = [task EXCEPT ![c].pc = p, ![c].ok = ok]
      PROVE  Becomes(c, p, task[c].model, task[c].used, task[c].todo) /\ task'[c].ok = ok
  BY <1>0, <1>2 DEF Becomes, Tasks
<1>3. ASSUME NEW m \in (Ids \cup {NoId}) \X MaybeFile,
             task' = [task EXCEPT ![c].pc = p, ![c].model = m]
      PROVE  Becomes(c, p, m, task[c].used, task[c].todo)
  BY <1>0, <1>3 DEF Becomes, Tasks
<1>4. ASSUME NEW u \in MaybeFile, task' = [task EXCEPT ![c].pc = p, ![c].used = u]
      PROVE  Becomes(c, p, task[c].model, u, task[c].todo)
  BY <1>0, <1>4 DEF Becomes, Tasks
<1>5. ASSUME NEW t \in SUBSET (Ids \cup {NoId}),
             task' = [task EXCEPT ![c].pc = p, ![c].todo = t]
      PROVE  Becomes(c, p, task[c].model, task[c].used, t)
  BY <1>0, <1>5 DEF Becomes, Tasks
<1> QED BY <1>1, <1>2, <1>3, <1>4, <1>5

\* A transition is under way for one handler only, and no decode during a release.
LEMMA Apart ==
    ASSUME RegistryInv, NEW c \in Clients, NEW d \in Clients, c # d
    PROVE  /\ Holds(c, "transition") => task[d].pc \notin Transit
           /\ task[c].pc \in Transit => task[d].pc \notin Transit
           /\ task[c].pc \in Release => task[d].pc \notin {"weights", "decode"}
           /\ task[c].pc = "drop" /\ Holds(c, "loaded") => task[d].pc # "use"
<1>0. LockTable /\ HeldLocks
  BY DEF RegistryInv
<1>1. Holds(c, "transition") => task[d].pc \notin Transit
  <2>1. ~Shared("transition", task[c].pc)
    BY DEF Shared
  <2>2. task[d].pc \in Transit => Holds(d, "transition")
    BY <1>0 DEF HeldLocks, Kept, LockNames
  <2>3. "transition" \in LockNames
    BY DEF LockNames
  <2> QED BY <1>0, <2>1, <2>2, <2>3, Exclusion
<1>2. task[c].pc \in Transit => Holds(c, "transition")
  BY <1>0 DEF HeldLocks, Kept, LockNames
<1>3. ASSUME task[c].pc \in Release PROVE task[d].pc \notin {"weights", "decode"}
  <2>1. "lifecycle" \in LockNames /\ ~Shared("lifecycle", task[c].pc)
    BY <1>3 DEF Shared, LockNames, Release, Loading
  <2>2. Holds(c, "lifecycle")
    BY <1>0, <1>3, <2>1 DEF HeldLocks, Kept
  <2>3. task[d].pc \in {"weights", "decode"} => Holds(d, "lifecycle")
    BY <1>0, <2>1 DEF HeldLocks, Kept
  <2> QED BY <1>0, <2>1, <2>2, <2>3, Exclusion
<1>4. ASSUME task[c].pc = "drop", Holds(c, "loaded") PROVE task[d].pc # "use"
  <2>1. "loaded" \in LockNames /\ ~Shared("loaded", task[c].pc)
    BY <1>4 DEF Shared, LockNames
  <2>2. task[d].pc = "use" => Holds(d, "loaded")
    BY <1>0, <2>1 DEF HeldLocks, Kept
  <2> QED BY <1>0, <1>4, <2>1, <2>2, Exclusion
<1> QED BY <1>1, <1>2, <1>3, <1>4

\* What c changes is nothing the others rely on.
Spares(c) ==
    /\ \/ loaded' = loaded
       \/ task[c].pc = "drop" /\ Holds(c, "loaded")
       \/ task[c].pc = "publish" /\ \A i \in Ids : loaded[i] # NoFile => loaded'[i] # NoFile
    /\ runtime' = runtime \/ task[c].pc \in Transit
    /\ session' \in {session, NoModel} \/ Holds(c, "transition")
    /\ device' \subseteq device \/ task[c].pc = "decode"

LEMMA SameSite ==
    ASSUME site' = site
    PROVE  /\ \A i : FilesOf(i)' = FilesOf(i)
           /\ \A i : OneFile(i)' = OneFile(i)
           /\ \A f : HasRuntime(f)' = HasRuntime(f)
           /\ Tasks' = Tasks
<1>1. ASSUME NEW i PROVE FilesOf(i)' = FilesOf(i)
  BY DEF FilesOf
<1>2. ASSUME NEW i PROVE OneFile(i)' = OneFile(i)
  BY <1>1 DEF OneFile
<1>3. ASSUME NEW f PROVE HasRuntime(f)' = HasRuntime(f)
  BY DEF HasRuntime
<1>4. Tasks' = Tasks
  BY DEF Tasks
<1> QED BY <1>1, <1>2, <1>3, <1>4

LEMMA OthersRely ==
    ASSUME RegistryInv, NEW c \in Clients, NEW d \in Clients, c # d,
           site' = site, task'[d] = task[d], Spares(c)
    PROVE  Relies(d)'
<1>1. Relies(d)
  BY DEF RegistryInv
<1>2. Placed(d)'
  BY <1>1 DEF Relies, Placed
<1>3. OnModel(d)'
  BY <1>1, SameSite DEF Relies, OnModel, File, Id
<1>4. Undisturbed(d)'
  BY <1>1, Apart DEF Relies, Undisturbed, Busy, Spares
<1>5. OnLoaded(d)'
  <2> SUFFICES ASSUME task[d].pc \in {"use", "weights", "decode", "heal", "reactivate",
                                     "activate", "clear", "serve"}
               PROVE  OnLoaded(d)'
    BY DEF OnLoaded
  <2>1. OnLoaded(d) /\ OnModel(d)
    BY <1>1 DEF Relies
  <2>2. Id(d) \in Ids /\ Id(d)' = Id(d) /\ File(d)' = File(d)
    BY <2>1 DEF OnModel, Modelled, Models, Id, File, Loading
  <2>3. CASE loaded' = loaded
    BY <2>1, <2>2, <2>3 DEF OnLoaded
  <2>4. CASE task[c].pc = "drop" /\ Holds(c, "loaded")
    BY <2>4, Apart DEF Transit, Release, Loading
  <2>5. CASE task[c].pc = "publish" /\ \A i \in Ids : loaded[i] # NoFile => loaded'[i] # NoFile
    BY <2>1, <2>2, <2>5, Apart DEF OnLoaded, Transit, Loading
  <2> QED BY <2>3, <2>4, <2>5 DEF Spares
<1>6. Freeing(d)'
  <2> SUFFICES ASSUME task[d].pc \in Freed PROVE Freeing(d)'
    BY DEF Freeing
  <2>1. task[c].pc # "decode"
    BY Apart DEF Freed
  <2>2. Doomed(d)' = Doomed(d)
    BY DEF Doomed, Target
  <2> QED BY <1>1, <2>1, <2>2, SameSite DEF Relies, Freeing, Spares
<1>7. Runs(d)'
  <2> SUFFICES ASSUME task[d].pc \in {"publish", "activate", "reactivate"} PROVE Runs(d)'
    BY DEF Runs
  <2>1. runtime' = runtime
    BY Apart DEF Spares, Transit, Loading
  <2>2. Id(d)' = Id(d) /\ File(d)' = File(d)
    BY DEF Id, File
  <2> QED BY <1>1, <2>1, <2>2, SameSite DEF Relies, Runs
<1> QED BY <1>2, <1>3, <1>4, <1>5, <1>6, <1>7 DEF Relies

LEMMA Conclude ==
    ASSUME RegistryInv, NEW c \in Clients, NEW q, NEW m, NEW u, NEW t,
           site' = site, Becomes(c, q, m, u, t), LockTable', HeldLocks',
           Spares(c), Relies(c)', Sound'
    PROVE  RegistryInv'
<1>1. \A d \in Clients : Relies(d)'
  BY OthersRely DEF Becomes
<1>2. task' \in [Clients -> Tasks'] /\ site' \in Sites
  BY SameSite DEF Becomes, RegistryInv
<1> QED BY <1>1, <1>2 DEF RegistryInv

\* The places from which the registries are still to be brought together.
Unsettled == {"drop rest", "deactivate", "next active", "publish"}

LEMMA Settled ==
    ASSUME RegistryInv, NEW c \in Clients, site' = site,
           \A d \in Clients \ {c} : task'[d] = task[d],
           task[c].pc \notin Unsettled
    PROVE  /\ ActiveSound /\ loaded' = loaded /\ active' = active /\ torn' = torn => ActiveSound'
           /\ /\ LeftSound /\ loaded' = loaded /\ weights' = weights
              /\ runtime' = runtime /\ torn' = torn
              => LeftSound'
<1>1. \A d \in Moving \cup Dropping \cup Coming : d # c /\ task'[d] = task[d]
  BY DEF Moving, Dropping, Coming, Unsettled
<1>a. ASSUME NEW d \in Clients, task'[d] = task[d] PROVE Doomed(d)' = Doomed(d)
  BY <1>a DEF Doomed, Target
<1>b. \A d \in Moving : d \in Moving'
  BY <1>1 DEF Moving
<1>c. \A d \in Dropping : d \in Dropping'
  BY <1>1 DEF Dropping
<1>2. \A d \in Moving : d \in Moving' /\ Doomed(d)' = Doomed(d)
  BY <1>1, <1>a, <1>b DEF Moving
<1>3. \A d \in Dropping : d \in Dropping' /\ Doomed(d)' = Doomed(d)
  BY <1>1, <1>a, <1>c DEF Dropping
<1>4. \A d \in Coming : d \in Coming' /\ Id(d)' = Id(d)
  BY <1>1 DEF Coming, Id
<1>5. ASSUME ActiveSound, loaded' = loaded, active' = active, torn' = torn PROVE ActiveSound'
  BY <1>2, <1>5 DEF ActiveSound, LoadedIds
<1>6. ASSUME LeftSound, loaded' = loaded, weights' = weights, runtime' = runtime, torn' = torn
      PROVE  LeftSound'
  BY <1>3, <1>4, <1>6 DEF LeftSound
<1> QED BY <1>5, <1>6

\* A step that changes no registry.
LEMMA Plain ==
    ASSUME RegistryInv, NEW c \in Clients, NEW q, NEW m, NEW u, NEW t,
           site' = site, UNCHANGED <<Registries, Others>>, task[c].pc \notin Unsettled,
           Becomes(c, q, m, u, t), LockTable', HeldLocks', Relies(c)'
    PROVE  RegistryInv'
<1>0. /\ loaded' = loaded /\ active' = active /\ weights' = weights /\ runtime' = runtime
      /\ encoder' = encoder /\ device' = device /\ session' = session /\ sent' = sent
      /\ torn' = torn
  BY DEF Registries, Others
<1>1. Spares(c)
  BY <1>0 DEF Spares
<1>2. Sound
  BY DEF RegistryInv
<1>3. ActiveSound' /\ LeftSound'
  BY <1>0, <1>2, Settled DEF Sound, Becomes
<1>4. Registered' /\ TurnKeepsModel'
  BY <1>0, <1>2 DEF Sound, Registered, TurnKeepsModel, Busy
<1>5. Stored' /\ DeviceSound'
  BY <1>0, <1>2, SameSite DEF Sound, Stored, DeviceSound
<1>6. Sound'
  BY <1>3, <1>4, <1>5 DEF Sound
<1> QED BY <1>1, <1>6, Conclude

\* An answer drops every lock and relies on nothing.
LEMMA Answers ==
    ASSUME RegistryInv, NEW c \in Clients, NEW ok \in BOOLEAN, Answer(c, ok)
    PROVE  /\ Becomes(c, "done", task[c].model, task[c].used, task[c].todo)
           /\ task'[c].ok = ok
           /\ LockTable' /\ HeldLocks' /\ Relies(c)'
<1>1. /\ Becomes(c, "done", task[c].model, task[c].used, task[c].todo)
      /\ task'[c].ok = ok
  BY Updates DEF Answer, RegistryInv, Places
<1>2. Moves(c, "done", LockNames, {})
  BY <1>1 DEF Moves, Becomes, Answer
<1>3. Fits(task[c].pc, "done", LockNames) /\ \A l \in LockNames : ~Kept(l, "done")
  BY DEF Fits, Kept, Transit, Release, Loading
<1>4. LockTable' /\ HeldLocks'
  BY <1>2, <1>3, Drops DEF RegistryInv
<1>5. Relies(c)
  BY DEF RegistryInv
<1>6. task'[c].pc = "done" /\ task'[c].req = task[c].req /\ task'[c].model = task[c].model
  BY <1>1 DEF Becomes
<1>7. Placed(c)'
  BY <1>5, <1>6 DEF Relies, Placed, Release
<1>8. OnModel(c)' /\ Undisturbed(c)' /\ OnLoaded(c)' /\ Freeing(c)' /\ Runs(c)'
  BY <1>6 DEF OnModel, Undisturbed, OnLoaded, Freeing, Runs, Modelled, Freed, Transit, Release,
              Loading
<1>9. Relies(c)'
  BY <1>7, <1>8 DEF Relies
<1> QED BY <1>1, <1>4, <1>9

LEMMA AnswersPlain ==
    ASSUME RegistryInv, NEW c \in Clients, NEW ok \in BOOLEAN, Answer(c, ok),
           site' = site, UNCHANGED <<Registries, Others>>, task[c].pc \notin Unsettled
    PROVE  RegistryInv'
BY Answers, Plain

LEMMA Goes ==
    ASSUME RegistryInv, NEW c \in Clients, NEW q \in Places, NEW drops, NEW asks,
           Goto(c, q, drops, asks)
    PROVE  /\ Becomes(c, q, task[c].model, task[c].used, task[c].todo)
           /\ Moves(c, q, drops, asks)
<1>1. Becomes(c, q, task[c].model, task[c].used, task[c].todo)
  BY Updates DEF Goto, RegistryInv
<1> QED BY <1>1 DEF Becomes, Moves, Goto

\* What Relies(c) asks for once c is at q, with the model m and the targets t.
LEMMA RelyAt ==
    ASSUME NEW c \in Clients, NEW q, NEW m, NEW u, NEW t, site' = site,
           Becomes(c, q, m, u, t),
           q \in PlacesOf(task[c].req.op),
           task[c].req.op = "load" => m = <<task[c].req.id, task[c].req.file>>,
           q \in Release \cup {"replace", "exclusive"} => t # {},
           q \in Modelled => m \in Models /\ m[2] \in FilesOf(m[1]),
           q \in Transit => session' = NoModel,
           q \in {"use", "weights", "decode"} => loaded'[m[1]] # NoFile,
           q \in {"heal", "reactivate", "activate", "clear", "serve"} => loaded'[m[1]] = m[2],
           q \in Freed => Freeing(c)',
           q \in {"publish", "activate"} /\ site.kind[m[2]] = "runnable" => runtime'[m[1]] = m[2],
           q = "reactivate" /\ HasRuntime(m[2]) /\ OneFile(m[1]) => runtime'[m[1]] = m[2]
    PROVE  Relies(c)'
<1>1. /\ task'[c].pc = q /\ task'[c].req = task[c].req
      /\ task'[c].model = m /\ task'[c].todo = t
  BY DEF Becomes
<1>2. Id(c)' = m[1] /\ File(c)' = m[2]
  BY <1>1 DEF Id, File
<1>3. Placed(c)'
  BY <1>1 DEF Placed
<1>4. OnModel(c)'
  BY <1>1, <1>2, SameSite DEF OnModel
<1>5. Undisturbed(c)' /\ OnLoaded(c)'
  BY <1>1, <1>2 DEF Undisturbed, OnLoaded, Busy
<1>6. Freeing(c)'
  BY <1>1 DEF Freeing
<1>7. Runs(c)'
  BY <1>1, <1>2, SameSite DEF Runs
<1> QED BY <1>3, <1>4, <1>5, <1>6, <1>7 DEF Relies

\* The table allows c to go to q with the locks in `drops` dropped and no other
\* asked for; with x asked for.
MayGo(c, q, drops) ==
    /\ Fits(task[c].pc, q, drops)
    /\ \A l \in LockNames : Kept(l, q) =>
          l \notin drops /\ (Kept(l, task[c].pc) \/ Holds(c, l))

MayAsk(c, q, drops, x, mode) ==
    /\ MayGo(c, q, drops \cup {x})
    /\ x \in drops \/ ~(Shared(x, task[c].pc) \/ Sole(x, task[c].pc))
    /\ IF mode = "r" THEN Shared(x, q) ELSE Sole(x, q)

LEMMA LocksOnly ==
    ASSUME RegistryInv, NEW c \in Clients, NEW q, NEW m, NEW u, NEW t, NEW drops,
           Becomes(c, q, m, u, t), lock' = After(c, drops, {}),
           MayGo(c, q, drops)
    PROVE  LockTable' /\ HeldLocks'
<1>1. Moves(c, q, drops, {})
  BY DEF Moves, Becomes
<1> QED BY <1>1, Drops DEF RegistryInv, MayGo

LEMMA LocksRead ==
    ASSUME RegistryInv, NEW c \in Clients, NEW q, NEW m, NEW u, NEW t, NEW drops,
           NEW x \in LockNames, Becomes(c, q, m, u, t), lock' = After(c, drops, {Read(x)}),
           MayAsk(c, q, drops, x, "r")
    PROVE  LockTable' /\ HeldLocks'
<1>1. Moves(c, q, drops, {[lock |-> x, mode |-> "r"]})
  BY DEF Moves, Becomes, Read
<1>2. /\ Fits(task[c].pc, q, drops \cup {x})
      /\ x \in drops \/ ~(Shared(x, task[c].pc) \/ Sole(x, task[c].pc))
      /\ Shared(x, q)
      /\ \A l \in LockNames : Kept(l, q) =>
            l \notin drops \cup {x} /\ (Kept(l, task[c].pc) \/ Holds(c, l))
  BY DEF MayAsk, MayGo
<1> QED BY <1>1, <1>2, Asks DEF RegistryInv

LEMMA LocksWrite ==
    ASSUME RegistryInv, NEW c \in Clients, NEW q, NEW m, NEW u, NEW t, NEW drops,
           NEW x \in LockNames, Becomes(c, q, m, u, t), lock' = After(c, drops, {Write(x)}),
           MayAsk(c, q, drops, x, "w")
    PROVE  LockTable' /\ HeldLocks'
<1>1. Moves(c, q, drops, {[lock |-> x, mode |-> "w"]})
  BY DEF Moves, Becomes, Write
<1>2. /\ Fits(task[c].pc, q, drops \cup {x})
      /\ x \in drops \/ ~(Shared(x, task[c].pc) \/ Sole(x, task[c].pc))
      /\ Sole(x, q)
      /\ \A l \in LockNames : Kept(l, q) =>
            l \notin drops \cup {x} /\ (Kept(l, task[c].pc) \/ Holds(c, l))
  BY DEF MayAsk, MayGo
<1> QED BY <1>1, <1>2, Asks DEF RegistryInv

LEMMA Names ==
    "transition" \in LockNames /\ "lifecycle" \in LockNames /\ "loaded" \in LockNames
    /\ "active" \in LockNames /\ "encoderLoad" \in LockNames
BY DEF LockNames

\* What the type of a task and of its request gives.
LEMMA Requests ==
    ASSUME RegistryInv, NEW c \in Clients, task[c].pc # "done"
    PROVE  /\ task[c] \in Tasks
           /\ task[c].req.op = "load" => task[c].req.id \in Ids /\ task[c].req.file \in Files
                                         /\ task[c].req.file \in FilesOf(task[c].req.id)
           /\ task[c].req.op \in {"unload", "chat"} => task[c].req.id \in Ids \cup {NoId}
           /\ task[c].req.op = "embed" => task[c].req.id \in Ids
           /\ Placed(c) /\ task[c].pc \in PlacesOf(task[c].req.op)
<1>1. task[c] \in Tasks /\ site \in Sites /\ Relies(c)
  BY DEF RegistryInv
<1>2. Placed(c) /\ task[c].pc \in PlacesOf(task[c].req.op)
  BY <1>1 DEF Relies, Placed
<1>3. task[c].req \in site.requests \cup {[op |-> "none"]}
  BY <1>1 DEF Tasks
<1>4. task[c].req.op # "none"
  BY <1>2 DEF PlacesOf
<1>5. task[c].req \in site.requests
  BY <1>3, <1>4
<1>6. \/ task[c].req.op = "load" /\ task[c].req.id \in Ids /\ task[c].req.file \in Files
      \/ task[c].req.op \in {"unload", "chat"} /\ task[c].req.id \in Ids \cup {NoId}
      \/ task[c].req.op = "embed" /\ task[c].req.id \in Ids
      \/ task[c].req.op \in {"show", "turn"}
  BY <1>1, <1>5, RegistryAssumption
<1>7. task[c].req.op = "load" => task[c].req.file \in FilesOf(task[c].req.id)
  BY <1>5 DEF FilesOf
<1> QED BY <1>1, <1>2, <1>6, <1>7

\* The model of a load is one.
LEMMA LoadModel ==
    ASSUME RegistryInv, NEW c \in Clients, task[c].pc # "done", task[c].req.op = "load"
    PROVE  /\ task[c].model = <<task[c].req.id, task[c].req.file>>
           /\ task[c].model \in Models /\ File(c) \in FilesOf(Id(c))
           /\ Id(c) = task[c].req.id /\ File(c) = task[c].req.file
<1>1. task[c].model = <<task[c].req.id, task[c].req.file>>
  BY Requests DEF Placed
<1> QED BY <1>1, Requests DEF Models, Id, File

LEMMA WorksOnModel ==
    ASSUME RegistryInv, NEW c \in Clients, task[c].pc \in Modelled
    PROVE  /\ task[c].model \in Models /\ task[c].model = <<Id(c), File(c)>>
           /\ Id(c) \in Ids /\ File(c) \in Files /\ File(c) # NoFile
           /\ File(c) \in FilesOf(Id(c))
<1>1. OnModel(c)
  BY DEF RegistryInv, Relies
<1>2. task[c].model \in Ids \X Files /\ File(c) \in FilesOf(Id(c))
  BY <1>1 DEF OnModel, Models
<1> QED BY <1>2, RegistryAssumption DEF Id, File, Models

LEMMA UnloadStep ==
    ASSUME RegistryInv, NEW c \in Clients, Unload(c), site' = site
    PROVE  RegistryInv'
<1>0. /\ task[c].pc = "unload" /\ UNCHANGED <<Registries, Others>> /\ Holds(c, "transition")
      /\ task[c].pc \notin Unsettled /\ task[c].pc # "done"
  BY DEF Unload, At, Unsettled
<1>1. CASE Answer(c, FALSE)
  BY <1>0, <1>1, AnswersPlain
<1>2. CASE ~Busy /\ Goto(c, "target", {}, IF task[c].req.id = NoId THEN {Read("active")} ELSE {})
  <2>1. Becomes(c, "target", task[c].model, task[c].used, task[c].todo)
    BY <1>2, Goes DEF Places
  <2>2. LockTable' /\ HeldLocks'
    <3>1. MayGo(c, "target", {}) /\ MayAsk(c, "target", {}, "active", "r")
      BY <1>0 DEF MayGo, MayAsk, Fits, Shared, Sole, Kept, LockNames, Transit, Release, Loading
    <3>2. CASE lock' = After(c, {}, {})
      BY <2>1, <3>1, <3>2, LocksOnly
    <3>3. CASE lock' = After(c, {}, {Read("active")})
      BY <2>1, <3>1, <3>3, LocksRead, Names
    <3> QED BY <1>2, <3>2, <3>3 DEF Goto
  <2>3. Relies(c)'
    <3>1. Placed(c) /\ "target" \in PlacesOf(task[c].req.op)
      BY <1>0, Requests DEF PlacesOf, Release, Loading
    <3> QED BY <1>0, <1>2, <2>1, <3>1, RelyAt DEF Placed, Modelled, Release, Loading, Transit,
            Busy, Freed, Others
  <2> QED BY <1>0, <2>1, <2>2, <2>3, Plain
<1> QED BY <1>1, <1>2 DEF Unload

LEMMA PickTargetStep ==
    ASSUME RegistryInv, NEW c \in Clients, PickTarget(c), site' = site
    PROVE  RegistryInv'
<1> DEFINE t == IF task[c].req.id = NoId THEN active ELSE task[c].req.id
<1>0. /\ task[c].pc = "target" /\ UNCHANGED <<Registries, Others>>
      /\ task[c].pc \notin Unsettled /\ task[c].pc # "done"
  BY DEF PickTarget, At, Unsettled
<1>1. CASE Answer(c, FALSE)
  BY <1>0, <1>1, AnswersPlain
<1>2. CASE /\ task' = [task EXCEPT ![c].pc = "exclusive", ![c].todo = {t}]
           /\ lock' = After(c, {"active"}, {Write("lifecycle")})
  <2>1. task[c].req.op = "unload" /\ task[c].req.id \in Ids \cup {NoId}
    BY <1>0, Requests DEF PlacesOf, Release, Loading
  <2>2. active \in Ids \cup {NoId}
    BY DEF RegistryInv, Sound, Registered
  <2>3. {t} \in SUBSET (Ids \cup {NoId}) /\ {t} # {}
    BY <2>1, <2>2
  <2> HIDE DEF t
  <2>4. /\ Becomes(c, "exclusive", task[c].model, task[c].used, {t})
        /\ lock' = After(c, {"active"}, {Write("lifecycle")})
    BY <1>2, <2>3, Updates DEF Places, RegistryInv
  <2>5. LockTable' /\ HeldLocks'
    <3>1. MayAsk(c, "exclusive", {"active"}, "lifecycle", "w")
      BY <1>0 DEF MayGo, MayAsk, Fits, Shared, Sole, Kept, LockNames, Transit, Release, Loading
    <3> QED BY <2>4, <3>1, LocksWrite, Names
  <2>6. "exclusive" \in PlacesOf(task[c].req.op) /\ session' = NoModel
    BY <1>0, <2>1 DEF PlacesOf, RegistryInv, Relies, Undisturbed, Transit, Busy, Others
  <2>7. Relies(c)'
    BY <2>1, <2>3, <2>4, <2>6, RelyAt DEF Modelled, Freed, Release, Loading
  <2> QED BY <1>0, <2>4, <2>5, <2>7, Plain
<1> QED BY <1>1, <1>2 DEF PickTarget

\* release_model begins: for an unload, for a replacement and for its next target.
LEMMA EnteringRelease ==
    ASSUME RegistryInv, NEW c \in Clients, NEW drops, NEW t,
           t \in SUBSET (Ids \cup {NoId}), t # {}, EnterRelease(c, drops, t), site' = site,
           MayAsk(c, "key", drops, "loaded", "r"), MayAsk(c, "drop", drops, "loaded", "w"),
           session' = NoModel, task[c].req.op \in {"load", "unload"}, task[c].pc # "done"
    PROVE  /\ \E q \in {"key", "drop"} : Becomes(c, q, task[c].model, task[c].used, t)
           /\ LockTable' /\ HeldLocks' /\ Relies(c)'
<1>0. {"key", "drop"} \subseteq PlacesOf(task[c].req.op)
      /\ (task[c].req.op = "load" => task[c].model = <<task[c].req.id, task[c].req.file>>)
  BY Requests DEF PlacesOf, Release, Loading, Placed
<1>1. CASE site.cuda
  <2>1. Becomes(c, "key", task[c].model, task[c].used, t)
        /\ lock' = After(c, drops, {Read("loaded")})
    BY <1>1, Updates DEF EnterRelease, Places, RegistryInv
  <2>2. LockTable' /\ HeldLocks'
    BY <2>1, LocksRead, Names
  <2>3. Relies(c)'
    BY <1>0, <2>1, RelyAt DEF Modelled, Freed, Loading
  <2> QED BY <2>1, <2>2, <2>3
<1>2. CASE ~site.cuda
  <2>1. Becomes(c, "drop", task[c].model, task[c].used, t)
        /\ lock' = After(c, drops, {Write("loaded")})
    BY <1>2, Updates DEF EnterRelease, Places, RegistryInv
  <2>2. LockTable' /\ HeldLocks'
    BY <2>1, LocksWrite, Names
  <2>3. Freeing(c)'
    BY <1>2 DEF Freeing
  <2>4. Relies(c)'
    BY <1>0, <2>1, <2>3, RelyAt DEF Modelled, Loading
  <2> QED BY <2>1, <2>2, <2>4
<1> QED BY <1>1, <1>2

LEMMA ExclusiveStep ==
    ASSUME RegistryInv, NEW c \in Clients, Exclusive(c), site' = site
    PROVE  RegistryInv'
<1>0. /\ task[c].pc = "exclusive" /\ UNCHANGED <<Registries, Others>> /\ Holds(c, "lifecycle")
      /\ task[c].pc \notin Unsettled /\ task[c].pc # "done" /\ EnterRelease(c, {}, task[c].todo)
  BY DEF Exclusive, At, Unsettled
<1>1. MayAsk(c, "key", {}, "loaded", "r") /\ MayAsk(c, "drop", {}, "loaded", "w")
  BY <1>0 DEF MayGo, MayAsk, Fits, Shared, Sole, Kept, LockNames, Transit, Release, Loading
<1>2. task[c].req.op \in {"load", "unload"} /\ task[c].todo # {}
      /\ task[c].todo \in SUBSET (Ids \cup {NoId})
  BY <1>0, Requests DEF PlacesOf, Release, Loading, Placed, Tasks
<1>3. session' = NoModel
  BY <1>0 DEF RegistryInv, Relies, Undisturbed, Transit, Busy, Others
<1>4. /\ \E q \in {"key", "drop"} : Becomes(c, q, task[c].model, task[c].used, task[c].todo)
      /\ LockTable' /\ HeldLocks' /\ Relies(c)'
  BY <1>0, <1>1, <1>2, <1>3, EnteringRelease
<1> QED BY <1>0, <1>4, Plain

LEMMA ResidentStep ==
    ASSUME RegistryInv, NEW c \in Clients, Resident(c), site' = site
    PROVE  RegistryInv'
<1>0. /\ task[c].pc = "resident" /\ UNCHANGED <<Registries, Others>>
      /\ task[c].pc \notin Unsettled /\ task[c].pc # "done"
      /\ task' = [task EXCEPT ![c].pc = "survey", ![c].used = loaded[Id(c)]]
      /\ lock' = After(c, {"loaded"}, {Read("loaded")})
  BY DEF Resident, At, Unsettled
<1>1. task[c].req.op = "load"
  BY <1>0, Requests DEF PlacesOf, Release, Loading
<1>2. /\ task[c].model \in Models /\ File(c) \in FilesOf(Id(c)) /\ Id(c) \in Ids
      /\ task[c].model = <<task[c].req.id, task[c].req.file>>
  BY <1>0, <1>1, LoadModel, WorksOnModel DEF Modelled
<1>3. loaded[Id(c)] \in MaybeFile
  BY <1>2 DEF RegistryInv, Sound, Registered
<1>4. /\ Becomes(c, "survey", task[c].model, loaded[Id(c)], task[c].todo)
      /\ lock' = After(c, {"loaded"}, {Read("loaded")})
  BY <1>0, <1>3, Updates DEF Places, RegistryInv
<1>5. LockTable' /\ HeldLocks'
  <2>1. MayAsk(c, "survey", {"loaded"}, "loaded", "r")
    BY <1>0 DEF MayGo, MayAsk, Fits, Shared, Sole, Kept, LockNames, Transit, Release, Loading
  <2> QED BY <1>4, <2>1, LocksRead, Names
<1>6. "survey" \in PlacesOf(task[c].req.op) /\ task[c].model[2] \in FilesOf(task[c].model[1])
  BY <1>1, <1>2 DEF PlacesOf, Id, File
<1>7. Relies(c)'
  BY <1>2, <1>4, <1>6, RelyAt DEF Freed, Release, Loading, Transit
<1> QED BY <1>0, <1>4, <1>5, <1>7, Plain

\* From the survey, or after a release, to the fit preflight or past it.
LEMMA GoesToFit ==
    ASSUME RegistryInv, NEW c \in Clients, NEW drops, ToFit(c, drops), site' = site,
           task[c].req.op = "load", task[c].pc # "done",
           MayAsk(c, "enter", drops, "transition", "w"),
           MayAsk(c, "fit", drops, "lifecycle", "r")
    PROVE  /\ \E q : Becomes(c, q, task[c].model, task[c].used, task[c].todo)
           /\ LockTable' /\ HeldLocks' /\ Relies(c)'
<1>1. /\ task[c].model = <<task[c].req.id, task[c].req.file>> /\ task[c].model \in Models
      /\ task[c].model[2] \in FilesOf(task[c].model[1])
  BY LoadModel DEF Id, File
<1>2. {"enter", "fit"} \subseteq PlacesOf(task[c].req.op)
  BY DEF PlacesOf
<1>3. CASE Goto(c, "enter", drops, {Write("transition")})
  <2>1. /\ Becomes(c, "enter", task[c].model, task[c].used, task[c].todo)
        /\ lock' = After(c, drops, {Write("transition")})
    BY <1>3, Goes DEF Goto, Places
  <2>2. LockTable' /\ HeldLocks'
    BY <2>1, LocksWrite, Names
  <2>3. Relies(c)'
    BY <1>1, <1>2, <2>1, RelyAt DEF Freed, Release, Loading, Transit
  <2> QED BY <2>1, <2>2, <2>3
<1>4. CASE Goto(c, "fit", drops, {Read("lifecycle")})
  <2>1. /\ Becomes(c, "fit", task[c].model, task[c].used, task[c].todo)
        /\ lock' = After(c, drops, {Read("lifecycle")})
    BY <1>4, Goes DEF Goto, Places
  <2>2. LockTable' /\ HeldLocks'
    BY <2>1, LocksRead, Names
  <2>3. Relies(c)'
    BY <1>1, <1>2, <2>1, RelyAt DEF Freed, Release, Loading, Transit
  <2> QED BY <2>1, <2>2, <2>3
<1> QED BY <1>3, <1>4 DEF ToFit

LEMMA SurveyStep ==
    ASSUME RegistryInv, NEW c \in Clients, Survey(c), site' = site
    PROVE  RegistryInv'
<1> DEFINE reclaim == {i \in LoadedIds : <<i, loaded[i]>> # task[c].model}
<1>0. /\ task[c].pc = "survey" /\ UNCHANGED <<Registries, Others>>
      /\ task[c].pc \notin Unsettled /\ task[c].pc # "done"
  BY DEF Survey, At, Unsettled
<1>a. task[c].req.op = "load"
  BY <1>0, Requests DEF PlacesOf, Release, Loading
<1>1. CASE Answer(c, FALSE)
  BY <1>0, <1>1, AnswersPlain
<1>2. CASE /\ reclaim # {}
           /\ task' = [task EXCEPT ![c].pc = "replace", ![c].todo = reclaim]
           /\ lock' = After(c, {"loaded"}, {Write("transition")})
  <2>1. reclaim \in SUBSET (Ids \cup {NoId})
    BY DEF LoadedIds
  <2> HIDE DEF reclaim
  <2>2. /\ Becomes(c, "replace", task[c].model, task[c].used, reclaim)
        /\ lock' = After(c, {"loaded"}, {Write("transition")})
    BY <1>2, <2>1, Updates DEF Places, RegistryInv
  <2>3. LockTable' /\ HeldLocks'
    <3>1. MayAsk(c, "replace", {"loaded"}, "transition", "w")
      BY <1>0 DEF MayGo, MayAsk, Fits, Shared, Sole, Kept, LockNames, Transit, Release, Loading
    <3> QED BY <2>2, <3>1, LocksWrite, Names
  <2>4. "replace" \in PlacesOf(task[c].req.op)
        /\ task[c].model = <<task[c].req.id, task[c].req.file>>
    BY <1>0, <1>a, LoadModel DEF PlacesOf
  <2>5. Relies(c)'
    BY <1>2, <2>2, <2>4, RelyAt DEF Modelled, Freed, Release, Loading, Transit
  <2> QED BY <1>0, <2>2, <2>3, <2>5, Plain
<1>3. CASE ToFit(c, {"loaded"})
  <2>1. /\ MayAsk(c, "enter", {"loaded"}, "transition", "w")
        /\ MayAsk(c, "fit", {"loaded"}, "lifecycle", "r")
    BY <1>0 DEF MayGo, MayAsk, Fits, Shared, Sole, Kept, LockNames, Transit, Release, Loading
  <2>2. /\ \E q : Becomes(c, q, task[c].model, task[c].used, task[c].todo)
        /\ LockTable' /\ HeldLocks' /\ Relies(c)'
    BY <1>0, <1>a, <1>3, <2>1, GoesToFit
  <2> QED BY <1>0, <2>2, Plain
<1> QED BY <1>1, <1>2, <1>3 DEF Survey

LEMMA ReplaceStep ==
    ASSUME RegistryInv, NEW c \in Clients, Replace(c), site' = site
    PROVE  RegistryInv'
<1>0. /\ task[c].pc = "replace" /\ UNCHANGED <<Registries, Others>> /\ Holds(c, "transition")
      /\ task[c].pc \notin Unsettled /\ task[c].pc # "done"
  BY DEF Replace, At, Unsettled
<1>1. CASE Answer(c, FALSE)
  BY <1>0, <1>1, AnswersPlain
<1>2. CASE ~Busy /\ Goto(c, "exclusive", {}, {Write("lifecycle")})
  <2>1. /\ Becomes(c, "exclusive", task[c].model, task[c].used, task[c].todo)
        /\ lock' = After(c, {}, {Write("lifecycle")})
    BY <1>2, Goes DEF Goto, Places
  <2>2. LockTable' /\ HeldLocks'
    <3>1. MayAsk(c, "exclusive", {}, "lifecycle", "w")
      BY <1>0 DEF MayGo, MayAsk, Fits, Shared, Sole, Kept, LockNames, Transit, Release, Loading
    <3> QED BY <2>1, <3>1, LocksWrite, Names
  <2>3. /\ task[c].req.op = "load" /\ "exclusive" \in PlacesOf(task[c].req.op)
        /\ task[c].todo # {}
    BY <1>0, Requests DEF PlacesOf, Placed, Release, Loading
  <2>4. task[c].model = <<task[c].req.id, task[c].req.file>> /\ session' = NoModel
    BY <1>0, <1>2, <2>3, LoadModel DEF Busy, Others
  <2>5. Relies(c)'
    BY <2>1, <2>3, <2>4, RelyAt DEF Modelled, Freed, Release, Loading, Transit
  <2> QED BY <1>0, <2>1, <2>2, <2>5, Plain
<1> QED BY <1>1, <1>2 DEF Replace

LEMMA FitStep ==
    ASSUME RegistryInv, NEW c \in Clients, Fit(c), site' = site
    PROVE  RegistryInv'
<1>0. /\ task[c].pc = "fit" /\ UNCHANGED <<Registries, Others>>
      /\ task[c].pc \notin Unsettled /\ task[c].pc # "done"
  BY DEF Fit, At, Unsettled
<1>1. CASE Answer(c, FALSE)
  BY <1>0, <1>1, AnswersPlain
<1>2. CASE Goto(c, "enter", {"lifecycle"}, {Write("transition")})
  <2>1. /\ Becomes(c, "enter", task[c].model, task[c].used, task[c].todo)
        /\ lock' = After(c, {"lifecycle"}, {Write("transition")})
    BY <1>2, Goes DEF Goto, Places
  <2>2. LockTable' /\ HeldLocks'
    <3>1. MayAsk(c, "enter", {"lifecycle"}, "transition", "w")
      BY <1>0 DEF MayGo, MayAsk, Fits, Shared, Sole, Kept, LockNames, Transit, Release, Loading
    <3> QED BY <2>1, <3>1, LocksWrite, Names
  <2>3. task[c].req.op = "load" /\ "enter" \in PlacesOf(task[c].req.op)
    BY <1>0, Requests DEF PlacesOf, Release, Loading
  <2>4. /\ task[c].model = <<task[c].req.id, task[c].req.file>> /\ task[c].model \in Models
        /\ task[c].model[2] \in FilesOf(task[c].model[1])
    BY <1>0, <2>3, LoadModel DEF Id, File
  <2>5. Relies(c)'
    BY <2>1, <2>3, <2>4, RelyAt DEF Freed, Release, Loading, Transit
  <2> QED BY <1>0, <2>1, <2>2, <2>5, Plain
<1> QED BY <1>1, <1>2 DEF Fit

LEMMA EnterStep ==
    ASSUME RegistryInv, NEW c \in Clients, Enter(c), site' = site
    PROVE  RegistryInv'
<1>0. /\ task[c].pc = "enter" /\ UNCHANGED <<Registries, Others>> /\ Holds(c, "transition")
      /\ task[c].pc \notin Unsettled /\ task[c].pc # "done"
  BY DEF Enter, At, Unsettled
<1>1. CASE Answer(c, FALSE)
  BY <1>0, <1>1, AnswersPlain
<1>2. CASE ~Busy /\ Goto(c, "lease load", {}, {Read("lifecycle")})
  <2>1. /\ Becomes(c, "lease load", task[c].model, task[c].used, task[c].todo)
        /\ lock' = After(c, {}, {Read("lifecycle")})
    BY <1>2, Goes DEF Goto, Places
  <2>2. LockTable' /\ HeldLocks'
    <3>1. MayAsk(c, "lease load", {}, "lifecycle", "r")
      BY <1>0 DEF MayGo, MayAsk, Fits, Shared, Sole, Kept, LockNames, Transit, Release, Loading
    <3> QED BY <2>1, <3>1, LocksRead, Names
  <2>3. "lease load" \in PlacesOf(task[c].req.op)
        /\ (task[c].req.op = "load" => task[c].model = <<task[c].req.id, task[c].req.file>>)
    BY <1>0, Requests DEF PlacesOf, Release, Loading, Placed
  <2>4. /\ task[c].model \in Models /\ task[c].model[2] \in FilesOf(task[c].model[1])
        /\ session' = NoModel
    BY <1>0, <1>2, WorksOnModel DEF Modelled, Id, File, Busy, Others
  <2>5. Relies(c)'
    BY <2>1, <2>3, <2>4, RelyAt DEF Freed, Release
  <2> QED BY <1>0, <2>1, <2>2, <2>5, Plain
<1> QED BY <1>1, <1>2 DEF Enter

\* A load that is done: the chat it was for goes on, a load answers.
LEMMA Loads ==
    ASSUME RegistryInv, NEW c \in Clients, LoadDone(c), site' = site, task[c].pc \in Loading
    PROVE  /\ \E q : Becomes(c, q, task[c].model, task[c].used, task[c].todo)
           /\ LockTable' /\ HeldLocks' /\ Relies(c)'
<1>0. task[c].pc # "done"
  BY DEF Loading
<1>1. CASE Answer(c, TRUE)
  BY <1>1, Answers
<1>2. CASE task[c].req.op = "chat" /\ Goto(c, "lease", LockNames, {Read("lifecycle")})
  <2>1. /\ Becomes(c, "lease", task[c].model, task[c].used, task[c].todo)
        /\ lock' = After(c, LockNames, {Read("lifecycle")})
    BY <1>2, Goes DEF Goto, Places
  <2>2. LockTable' /\ HeldLocks'
    <3>1. MayAsk(c, "lease", LockNames, "lifecycle", "r")
      BY <1>0 DEF MayGo, MayAsk, Fits, Shared, Sole, Kept, LockNames, Transit, Release, Loading
    <3> QED BY <2>1, <3>1, LocksRead, Names
  <2>3. "lease" \in PlacesOf(task[c].req.op)
    BY <1>2 DEF PlacesOf
  <2>4. task[c].model \in Models /\ task[c].model[2] \in FilesOf(task[c].model[1])
    BY WorksOnModel DEF Modelled, Id, File
  <2>5. Relies(c)'
    BY <1>2, <2>1, <2>3, <2>4, RelyAt DEF Freed, Release, Loading, Transit
  <2> QED BY <2>1, <2>2, <2>5
<1> QED BY <1>1, <1>2 DEF LoadDone

\* What a load has at every place of Loading.
LEMMA LoadingHas ==
    ASSUME RegistryInv, NEW c \in Clients, task[c].pc \in Loading
    PROVE  /\ task[c].model \in Models /\ task[c].model[1] = Id(c) /\ task[c].model[2] = File(c)
           /\ Id(c) \in Ids /\ File(c) \in Files /\ File(c) # NoFile
           /\ File(c) \in FilesOf(Id(c))
           /\ task[c].req.op \in {"load", "chat"}
           /\ Loading \subseteq PlacesOf(task[c].req.op)
           /\ task[c].req.op = "load" => task[c].model = <<task[c].req.id, task[c].req.file>>
           /\ session = NoModel
<1>1. /\ task[c].model \in Models
      /\ Id(c) \in Ids /\ File(c) \in Files /\ File(c) # NoFile
      /\ File(c) \in FilesOf(Id(c))
  BY WorksOnModel DEF Modelled
<1>2. task[c].pc # "done"
  BY DEF Loading
<1>3. task[c].req.op \in {"load", "chat"}
  BY <1>2, Requests DEF PlacesOf, Release, Loading
<1>4. Loading \subseteq PlacesOf(task[c].req.op)
  BY <1>3 DEF PlacesOf
<1>5. task[c].req.op = "load" => task[c].model = <<task[c].req.id, task[c].req.file>>
  BY <1>2, LoadModel
<1>6. session = NoModel
  BY DEF RegistryInv, Relies, Undisturbed, Transit, Busy
<1> QED BY <1>1, <1>3, <1>4, <1>5, <1>6 DEF Id, File

LEMMA LeaseLoadStep ==
    ASSUME RegistryInv, NEW c \in Clients, LeaseLoad(c), site' = site
    PROVE  RegistryInv'
<1>0. /\ task[c].pc = "lease load" /\ UNCHANGED <<Registries, Others>> /\ Holds(c, "lifecycle")
      /\ task[c].pc \notin Unsettled /\ task[c].pc # "done"
      /\ Goto(c, "fast", {}, {Read("loaded")})
  BY DEF LeaseLoad, At, Unsettled
<1>1. /\ Becomes(c, "fast", task[c].model, task[c].used, task[c].todo)
      /\ lock' = After(c, {}, {Read("loaded")})
  BY <1>0, Goes DEF Goto, Places
<1>2. LockTable' /\ HeldLocks'
  <2>1. MayAsk(c, "fast", {}, "loaded", "r")
    BY <1>0 DEF MayGo, MayAsk, Fits, Shared, Sole, Kept, LockNames, Transit, Release, Loading
  <2> QED BY <1>1, <2>1, LocksRead, Names
<1>3. task[c].pc \in Loading /\ session' = session
  BY <1>0 DEF Loading, Others
<1>4. Relies(c)'
  BY <1>1, <1>3, LoadingHas, RelyAt DEF Freed, Release, Loading
<1> QED BY <1>0, <1>1, <1>2, <1>4, Plain

LEMMA FastStep ==
    ASSUME RegistryInv, NEW c \in Clients, Fast(c), site' = site
    PROVE  RegistryInv'
<1>0. /\ task[c].pc = "fast" /\ UNCHANGED <<Registries, Others>>
      /\ task[c].pc \notin Unsettled /\ task[c].pc # "done"
  BY DEF Fast, At, Unsettled
<1>a. /\ task[c].pc \in Loading
      /\ loaded' = loaded /\ runtime' = runtime /\ session' = session
  BY <1>0 DEF Loading, Registries, Others
<1>b. /\ task[c].model \in Models /\ task[c].model[1] = Id(c) /\ task[c].model[2] = File(c)
      /\ Id(c) \in Ids /\ File(c) \in FilesOf(Id(c)) /\ session' = NoModel
      /\ Loading \subseteq PlacesOf(task[c].req.op)
      /\ task[c].req.op = "load" => task[c].model = <<task[c].req.id, task[c].req.file>>
  BY <1>a, LoadingHas
<1>1. CASE Goto(c, "build", {"loaded"}, {})
  <2>1. /\ Becomes(c, "build", task[c].model, task[c].used, task[c].todo)
        /\ lock' = After(c, {"loaded"}, {})
    BY <1>1, Goes DEF Goto, Places
  <2>2. LockTable' /\ HeldLocks'
    <3>1. MayGo(c, "build", {"loaded"})
      BY <1>0 DEF MayGo, MayAsk, Fits, Shared, Sole, Kept, LockNames, Transit, Release, Loading
    <3> QED BY <2>1, <3>1, LocksOnly
  <2>3. Relies(c)'
    BY <1>b, <2>1, RelyAt DEF Freed, Release, Loading
  <2> QED BY <1>0, <2>1, <2>2, <2>3, Plain
<1>2. CASE loaded[Id(c)] = File(c) /\ Goto(c, "heal", {"loaded"}, {})
  <2>1. /\ Becomes(c, "heal", task[c].model, task[c].used, task[c].todo)
        /\ lock' = After(c, {"loaded"}, {})
    BY <1>2, Goes DEF Goto, Places
  <2>2. LockTable' /\ HeldLocks'
    <3>1. MayGo(c, "heal", {"loaded"})
      BY <1>0 DEF MayGo, MayAsk, Fits, Shared, Sole, Kept, LockNames, Transit, Release, Loading
    <3> QED BY <2>1, <3>1, LocksOnly
  <2>3. Relies(c)'
    BY <1>2, <1>a, <1>b, <2>1, RelyAt DEF Freed, Release, Loading
  <2> QED BY <1>0, <2>1, <2>2, <2>3, Plain
<1>3. CASE /\ loaded[Id(c)] = File(c) /\ ~(HasRuntime(File(c)) /\ runtime[Id(c)] = NoFile)
           /\ Goto(c, "reactivate", {"loaded"}, {Write("active")})
  <2>1. /\ Becomes(c, "reactivate", task[c].model, task[c].used, task[c].todo)
        /\ lock' = After(c, {"loaded"}, {Write("active")})
    BY <1>3, Goes DEF Goto, Places
  <2>2. LockTable' /\ HeldLocks'
    <3>1. MayAsk(c, "reactivate", {"loaded"}, "active", "w")
      BY <1>0 DEF MayGo, MayAsk, Fits, Shared, Sole, Kept, LockNames, Transit, Release, Loading
    <3> QED BY <2>1, <3>1, LocksWrite, Names
  <2>3. HasRuntime(File(c)) /\ OneFile(Id(c)) => runtime[Id(c)] = File(c)
    BY <1>3, <1>b DEF RegistryInv, Sound, Stored, OneFile
  <2>4. Relies(c)'
    BY <1>3, <1>a, <1>b, <2>1, <2>3, RelyAt DEF Freed, Release, Loading
  <2> QED BY <1>0, <2>1, <2>2, <2>4, Plain
<1>4. CASE LoadDone(c)
  <2>1. /\ \E q : Becomes(c, q, task[c].model, task[c].used, task[c].todo)
        /\ LockTable' /\ HeldLocks' /\ Relies(c)'
    BY <1>a, <1>4, Loads
  <2> QED BY <1>0, <2>1, Plain
<1> QED BY <1>1, <1>2, <1>3, <1>4 DEF Fast, HasRuntime

\* A generation picks a model that is loaded or can be.
LEMMA Chooses ==
    ASSUME RegistryInv, NEW c \in Clients, NEW t, NEW drops, Chosen(c, t, drops), site' = site,
           UNCHANGED <<Registries, Others>>, task[c].pc \in {"pick", "pick active"},
           MayAsk(c, "use", drops, "active", "w"),
           MayAsk(c, "enter", {"loaded"} \cup drops, "transition", "w")
    PROVE  RegistryInv'
<1>0. /\ task[c].pc \notin Unsettled /\ task[c].pc # "done"
      /\ task[c].req.op = "chat" /\ {"use", "enter"} \subseteq PlacesOf(task[c].req.op)
  BY Requests DEF Unsettled, PlacesOf, Release, Loading
<1>1. CASE Answer(c, FALSE)
  BY <1>0, <1>1, AnswersPlain
<1>2. CASE t \in LoadedIds /\ With(c, "use", <<t, loaded[t]>>, drops, {Write("active")})
  <2>1. /\ t \in Ids /\ loaded[t] # NoFile /\ loaded[t] \in MaybeFile
        /\ loaded[t] \in FilesOf(t) \cup {NoFile} /\ loaded' = loaded
    BY <1>2 DEF LoadedIds, RegistryInv, Sound, Stored, Registered, Registries
  <2>2. <<t, loaded[t]>> \in Models /\ <<t, loaded[t]>> \in (Ids \cup {NoId}) \X MaybeFile
    BY <2>1 DEF Models, MaybeFile
  <2>3. Becomes(c, "use", <<t, loaded[t]>>, task[c].used, task[c].todo)
        /\ lock' = After(c, drops, {Write("active")})
    BY <1>2, <2>2, Updates DEF With, Places, RegistryInv
  <2>4. LockTable' /\ HeldLocks'
    BY <2>3, LocksWrite, Names
  <2>5. Relies(c)'
    BY <1>0, <2>1, <2>2, <2>3, RelyAt DEF Freed, Release, Loading, Transit
  <2> QED BY <1>0, <2>3, <2>4, <2>5, Plain
<1>3. CASE /\ t \in Ids /\ site.disk[t] # NoFile
           /\ With(c, "enter", <<t, site.disk[t]>>, {"loaded"} \cup drops, {Write("transition")})
  <2>1. site.disk[t] \in Files /\ site.disk[t] \in FilesOf(t)
    <3>1. site.disk \in [Ids -> Files \cup {NoFile}]
      BY RegistryAssumption DEF RegistryInv
    <3> QED BY <1>3, <3>1 DEF FilesOf
  <2>2. /\ <<t, site.disk[t]>> \in Models
        /\ <<t, site.disk[t]>> \in (Ids \cup {NoId}) \X MaybeFile
    BY <1>3, <2>1 DEF Models, MaybeFile
  <2>3. Becomes(c, "enter", <<t, site.disk[t]>>, task[c].used, task[c].todo)
        /\ lock' = After(c, {"loaded"} \cup drops, {Write("transition")})
    BY <1>3, <2>2, Updates DEF With, Places, RegistryInv
  <2>4. LockTable' /\ HeldLocks'
    BY <2>3, LocksWrite, Names
  <2>5. Relies(c)'
    BY <1>0, <2>1, <2>2, <2>3, RelyAt DEF Freed, Release, Loading, Transit
  <2> QED BY <1>0, <2>3, <2>4, <2>5, Plain
<1> QED BY <1>1, <1>2, <1>3 DEF Chosen

LEMMA PickStep ==
    ASSUME RegistryInv, NEW c \in Clients, Pick(c), site' = site
    PROVE  RegistryInv'
<1>0. /\ task[c].pc = "pick" /\ UNCHANGED <<Registries, Others>> /\ Holds(c, "loaded")
      /\ task[c].pc \notin Unsettled /\ task[c].pc # "done"
  BY DEF Pick, At, Unsettled
<1>1. CASE Chosen(c, task[c].req.id, {})
  <2>1. /\ MayAsk(c, "use", {}, "active", "w")
        /\ MayAsk(c, "enter", {"loaded"} \cup {}, "transition", "w")
    BY <1>0 DEF MayGo, MayAsk, Fits, Shared, Sole, Kept, LockNames, Transit, Release, Loading
  <2> QED BY <1>0, <1>1, <2>1, Chooses
<1>2. CASE Goto(c, "pick active", {}, {Read("active")})
  <2>1. /\ Becomes(c, "pick active", task[c].model, task[c].used, task[c].todo)
        /\ lock' = After(c, {}, {Read("active")})
    BY <1>2, Goes DEF Goto, Places
  <2>2. LockTable' /\ HeldLocks'
    <3>1. MayAsk(c, "pick active", {}, "active", "r")
      BY <1>0 DEF MayGo, MayAsk, Fits, Shared, Sole, Kept, LockNames, Transit, Release, Loading
    <3> QED BY <2>1, <3>1, LocksRead, Names
  <2>3. task[c].req.op = "chat" /\ "pick active" \in PlacesOf(task[c].req.op)
    BY <1>0, Requests DEF PlacesOf, Release, Loading
  <2>4. Relies(c)'
    BY <2>1, <2>3, RelyAt DEF Modelled, Freed, Release, Loading, Transit
  <2> QED BY <1>0, <2>1, <2>2, <2>4, Plain
<1> QED BY <1>1, <1>2 DEF Pick

LEMMA PickActiveStep ==
    ASSUME RegistryInv, NEW c \in Clients, PickActive(c), site' = site
    PROVE  RegistryInv'
<1>0. /\ task[c].pc = "pick active" /\ UNCHANGED <<Registries, Others>>
      /\ task[c].pc \notin Unsettled /\ task[c].pc # "done"
  BY DEF PickActive, At, Unsettled
<1>1. /\ MayAsk(c, "use", {"active"}, "active", "w")
      /\ MayAsk(c, "enter", {"loaded"} \cup {"active"}, "transition", "w")
  BY <1>0 DEF MayGo, MayAsk, Fits, Shared, Sole, Kept, LockNames, Transit, Release, Loading
<1>2. \E t : Chosen(c, t, {"active"})
  BY DEF PickActive
<1> QED BY <1>0, <1>1, <1>2, Chooses

LEMMA LeaseStep ==
    ASSUME RegistryInv, NEW c \in Clients, Lease(c), site' = site
    PROVE  RegistryInv'
<1>0. /\ task[c].pc = "lease" /\ UNCHANGED <<Registries, Others>> /\ Holds(c, "lifecycle")
      /\ task[c].pc \notin Unsettled /\ task[c].pc # "done"
      /\ Goto(c, "verify", {}, {Read("loaded")})
  BY DEF Lease, At, Unsettled
<1>1. /\ Becomes(c, "verify", task[c].model, task[c].used, task[c].todo)
      /\ lock' = After(c, {}, {Read("loaded")})
  BY <1>0, Goes DEF Goto, Places
<1>2. LockTable' /\ HeldLocks'
  <2>1. MayAsk(c, "verify", {}, "loaded", "r")
    BY <1>0 DEF MayGo, MayAsk, Fits, Shared, Sole, Kept, LockNames, Transit, Release, Loading
  <2> QED BY <1>1, <2>1, LocksRead, Names
<1>3. /\ task[c].req.op = "chat" /\ "verify" \in PlacesOf(task[c].req.op)
      /\ task[c].model \in Models /\ task[c].model[2] \in FilesOf(task[c].model[1])
  BY <1>0, Requests, WorksOnModel DEF PlacesOf, Release, Loading, Modelled, Id, File
<1>4. Relies(c)'
  BY <1>1, <1>3, RelyAt DEF Freed, Release, Loading, Transit
<1> QED BY <1>0, <1>1, <1>2, <1>4, Plain

LEMMA VerifyStep ==
    ASSUME RegistryInv, NEW c \in Clients, Verify(c), site' = site
    PROVE  RegistryInv'
<1>0. /\ task[c].pc = "verify" /\ UNCHANGED <<Registries, Others>>
      /\ task[c].pc \notin Unsettled /\ task[c].pc # "done"
  BY DEF Verify, At, Unsettled
<1>1. CASE Answer(c, FALSE)
  BY <1>0, <1>1, AnswersPlain
<1>2. CASE loaded[Id(c)] = File(c) /\ Goto(c, "weights", {"loaded"}, {})
  <2>1. /\ Becomes(c, "weights", task[c].model, task[c].used, task[c].todo)
        /\ lock' = After(c, {"loaded"}, {})
    BY <1>2, Goes DEF Goto, Places
  <2>2. LockTable' /\ HeldLocks'
    <3>1. MayGo(c, "weights", {"loaded"})
      BY <1>0 DEF MayGo, MayAsk, Fits, Shared, Sole, Kept, LockNames, Transit, Release, Loading
    <3> QED BY <2>1, <3>1, LocksOnly
  <2>3. /\ task[c].req.op = "chat" /\ "weights" \in PlacesOf(task[c].req.op)
        /\ task[c].model \in Models /\ task[c].model[2] \in FilesOf(task[c].model[1])
    BY <1>0, Requests, WorksOnModel DEF PlacesOf, Release, Loading, Modelled, Id, File
  <2>4. loaded'[task[c].model[1]] # NoFile
    BY <1>0, <1>2, WorksOnModel DEF Modelled, Id, File, Registries
  <2>5. Relies(c)'
    BY <2>1, <2>3, <2>4, RelyAt DEF Freed, Release, Loading, Transit
  <2> QED BY <1>0, <2>1, <2>2, <2>5, Plain
<1> QED BY <1>1, <1>2 DEF Verify

LEMMA LookStep ==
    ASSUME RegistryInv, NEW c \in Clients, Look(c), site' = site
    PROVE  RegistryInv'
<1>0. /\ task[c].pc = "look" /\ UNCHANGED <<Registries, Others>>
      /\ task[c].pc \notin Unsettled /\ task[c].pc # "done"
  BY DEF Look, At, Unsettled
<1>1. CASE Answer(c, TRUE)
  BY <1>0, <1>1, AnswersPlain
<1>2. CASE Goto(c, "look again", {}, {Write("encoderLoad")})
  <2>1. /\ Becomes(c, "look again", task[c].model, task[c].used, task[c].todo)
        /\ lock' = After(c, {}, {Write("encoderLoad")})
    BY <1>2, Goes DEF Goto, Places
  <2>2. LockTable' /\ HeldLocks'
    <3>1. MayAsk(c, "look again", {}, "encoderLoad", "w")
      BY <1>0 DEF MayGo, MayAsk, Fits, Shared, Sole, Kept, LockNames, Transit, Release, Loading
    <3> QED BY <2>1, <3>1, LocksWrite, Names
  <2>3. task[c].req.op = "embed" /\ "look again" \in PlacesOf(task[c].req.op)
    BY <1>0, Requests DEF PlacesOf, Release, Loading
  <2>4. Relies(c)'
    BY <2>1, <2>3, RelyAt DEF Modelled, Freed, Release, Loading, Transit
  <2> QED BY <1>0, <2>1, <2>2, <2>4, Plain
<1> QED BY <1>1, <1>2 DEF Look

LEMMA LookAgainStep ==
    ASSUME RegistryInv, NEW c \in Clients, LookAgain(c), site' = site
    PROVE  RegistryInv'
<1>0. /\ task[c].pc = "look again" /\ UNCHANGED <<Registries, Others>>
      /\ task[c].pc \notin Unsettled /\ task[c].pc # "done"
  BY DEF LookAgain, At, Unsettled
<1>1. CASE Answer(c, TRUE)
  BY <1>0, <1>1, AnswersPlain
<1>2. CASE Goto(c, "encoder model", {}, {Read("loaded")})
  <2>1. /\ Becomes(c, "encoder model", task[c].model, task[c].used, task[c].todo)
        /\ lock' = After(c, {}, {Read("loaded")})
    BY <1>2, Goes DEF Goto, Places
  <2>2. LockTable' /\ HeldLocks'
    <3>1. MayAsk(c, "encoder model", {}, "loaded", "r")
      BY <1>0 DEF MayGo, MayAsk, Fits, Shared, Sole, Kept, LockNames, Transit, Release, Loading
    <3> QED BY <2>1, <3>1, LocksRead, Names
  <2>3. task[c].req.op = "embed" /\ "encoder model" \in PlacesOf(task[c].req.op)
    BY <1>0, Requests DEF PlacesOf, Release, Loading
  <2>4. Relies(c)'
    BY <2>1, <2>3, RelyAt DEF Modelled, Freed, Release, Loading, Transit
  <2> QED BY <1>0, <2>1, <2>2, <2>4, Plain
<1> QED BY <1>1, <1>2 DEF LookAgain

LEMMA ShowStep ==
    ASSUME RegistryInv, NEW c \in Clients, Show(c), site' = site
    PROVE  RegistryInv'
<1>0. /\ task[c].pc = "show" /\ UNCHANGED <<Registries, Others>>
      /\ task[c].pc \notin Unsettled /\ task[c].pc # "done"
  BY DEF Show, At, Unsettled
<1>1. CASE Answer(c, TRUE)
  BY <1>0, <1>1, AnswersPlain
<1>2. CASE Goto(c, "show loaded", {}, {Read("loaded")})
  <2>1. /\ Becomes(c, "show loaded", task[c].model, task[c].used, task[c].todo)
        /\ lock' = After(c, {}, {Read("loaded")})
    BY <1>2, Goes DEF Goto, Places
  <2>2. LockTable' /\ HeldLocks'
    <3>1. MayAsk(c, "show loaded", {}, "loaded", "r")
      BY <1>0 DEF MayGo, MayAsk, Fits, Shared, Sole, Kept, LockNames, Transit, Release, Loading
    <3> QED BY <2>1, <3>1, LocksRead, Names
  <2>3. task[c].req.op = "show" /\ "show loaded" \in PlacesOf(task[c].req.op)
    BY <1>0, Requests DEF PlacesOf, Release, Loading
  <2>4. Relies(c)'
    BY <2>1, <2>3, RelyAt DEF Modelled, Freed, Release, Loading, Transit
  <2> QED BY <1>0, <2>1, <2>2, <2>4, Plain
<1> QED BY <1>1, <1>2 DEF Show

LEMMA EncoderModelStep ==
    ASSUME RegistryInv, NEW c \in Clients, EncoderModel(c), site' = site
    PROVE  RegistryInv'
<1> DEFINE i == task[c].req.id
<1>0. /\ task[c].pc = "encoder model" /\ UNCHANGED <<Registries, Others>>
      /\ task[c].pc \notin Unsettled /\ task[c].pc # "done"
  BY DEF EncoderModel, At, Unsettled
<1>1. CASE Answer(c, FALSE)
  BY <1>0, <1>1, AnswersPlain
<1>2. CASE /\ loaded[i] # NoFile
           /\ With(c, "encoder load", <<i, loaded[i]>>, {"loaded"}, {Read("lifecycle")})
  <2>1. /\ task[c].req.op = "embed" /\ "encoder load" \in PlacesOf(task[c].req.op)
        /\ i \in Ids
    BY <1>0, Requests DEF PlacesOf, Release, Loading
  <2>2. loaded[i] \in MaybeFile /\ loaded[i] \in FilesOf(i) \cup {NoFile}
    BY <2>1 DEF RegistryInv, Sound, Stored, Registered
  <2>3. <<i, loaded[i]>> \in Models /\ <<i, loaded[i]>> \in (Ids \cup {NoId}) \X MaybeFile
    BY <1>2, <2>1, <2>2 DEF Models, MaybeFile
  <2>4. /\ Becomes(c, "encoder load", <<i, loaded[i]>>, task[c].used, task[c].todo)
        /\ lock' = After(c, {"loaded"}, {Read("lifecycle")})
    BY <1>2, <2>3, Updates DEF With, Places, RegistryInv
  <2>5. LockTable' /\ HeldLocks'
    <3>1. MayAsk(c, "encoder load", {"loaded"}, "lifecycle", "r")
      BY <1>0 DEF MayGo, MayAsk, Fits, Shared, Sole, Kept, LockNames, Transit, Release, Loading
    <3> QED BY <2>4, <3>1, LocksRead, Names
  <2>6. Relies(c)'
    BY <1>2, <2>1, <2>2, <2>3, <2>4, RelyAt DEF Freed, Release, Loading, Transit
  <2> QED BY <1>0, <2>4, <2>5, <2>6, Plain
<1> QED BY <1>1, <1>2 DEF EncoderModel

\* Handlers that only answer.
LEMMA ShowsStep ==
    ASSUME RegistryInv, NEW c \in Clients, ShowLoaded(c) \/ GiveUp(c), site' = site
    PROVE  RegistryInv'
<1>1. /\ Answer(c, TRUE) /\ UNCHANGED <<Registries, Others>>
      /\ task[c].pc \notin Unsettled
  BY DEF ShowLoaded, GiveUp, At, Unsettled
<1> QED BY <1>1, AnswersPlain

(***************************************************************************)
(* Steps that change the registries.                                       *)
(***************************************************************************)

LEMMA Alone ==
    ASSUME RegistryInv, NEW c \in Clients, task[c].pc \in Transit
    PROVE  /\ \A d \in Moving \cup Dropping \cup Coming : d = c
           /\ session = NoModel
<1>1. \A d \in Moving \cup Dropping \cup Coming : d \in Clients /\ task[d].pc \in Transit
  BY DEF Moving, Dropping, Coming, Transit, Release, Loading
<1>2. \A d \in Moving \cup Dropping \cup Coming : d = c
  BY <1>1, Apart
<1>3. session = NoModel
  BY DEF RegistryInv, Relies, Undisturbed, Busy
<1> QED BY <1>2, <1>3

\* The device is given up, in part or whole.
LEMMA DeviceShrinks ==
    ASSUME RegistryInv, NEW c \in Clients, NEW q, NEW m, NEW u, NEW t,
           site' = site, UNCHANGED <<loaded, active, weights, runtime, encoder, Others>>,
           task[c].pc \notin Unsettled, device' \subseteq device,
           Becomes(c, q, m, u, t), LockTable', HeldLocks', Relies(c)'
    PROVE  RegistryInv'
<1>0. /\ loaded' = loaded /\ active' = active /\ weights' = weights /\ runtime' = runtime
      /\ encoder' = encoder /\ session' = session /\ sent' = sent /\ torn' = torn
  BY DEF Others
<1>1. Spares(c)
  BY <1>0 DEF Spares
<1>2. Sound
  BY DEF RegistryInv
<1>3. ActiveSound' /\ LeftSound'
  BY <1>0, <1>2, Settled DEF Sound, Becomes
<1>4. Registered' /\ TurnKeepsModel'
  BY <1>0, <1>2 DEF Sound, Registered, TurnKeepsModel, Busy
<1>5. Stored' /\ DeviceSound'
  BY <1>0, <1>2, SameSite DEF Sound, Stored, DeviceSound
<1>6. Sound'
  BY <1>3, <1>4, <1>5 DEF Sound
<1> QED BY <1>1, <1>6, Conclude

\* The active id moves to a loaded model.
LEMMA ActiveMoves ==
    ASSUME RegistryInv, NEW c \in Clients, NEW q, NEW m, NEW u, NEW t,
           site' = site, UNCHANGED <<loaded, weights, runtime, encoder, device, Others>>,
           task[c].pc \notin Unsettled, active' \in LoadedIds,
           Becomes(c, q, m, u, t), LockTable', HeldLocks', Relies(c)'
    PROVE  RegistryInv'
<1>0. /\ loaded' = loaded /\ weights' = weights /\ runtime' = runtime /\ device' = device
      /\ encoder' = encoder /\ session' = session /\ sent' = sent /\ torn' = torn
  BY DEF Others
<1>1. Spares(c)
  BY <1>0 DEF Spares
<1>2. Sound
  BY DEF RegistryInv
<1>3. ActiveSound'
  BY <1>0 DEF ActiveSound, LoadedIds
<1>4. LeftSound'
  BY <1>0, <1>2, Settled DEF Sound, Becomes
<1>5. Registered' /\ TurnKeepsModel'
  BY <1>0, <1>2 DEF Sound, Registered, TurnKeepsModel, Busy, LoadedIds
<1>6. Stored' /\ DeviceSound'
  BY <1>0, <1>2, SameSite DEF Sound, Stored, DeviceSound
<1>7. Sound'
  BY <1>3, <1>4, <1>5, <1>6 DEF Sound
<1> QED BY <1>1, <1>7, Conclude

\* The runtime of the model of a load changes: to its file once the record is there
\* or about to be, to none before it is built anew.
LEMMA RuntimeChanges ==
    ASSUME RegistryInv, NEW c \in Clients, NEW q, NEW m, NEW u, NEW t, NEW x,
           site' = site, UNCHANGED <<loaded, active, weights, encoder, device, Others>>,
           task[c].pc \in Loading, task[c].pc \notin Unsettled,
           x \in {File(c), NoFile}, runtime' = [runtime EXCEPT ![Id(c)] = x],
           loaded[Id(c)] # NoFile \/ q = "publish", m = task[c].model,
           Becomes(c, q, m, u, t), LockTable', HeldLocks', Relies(c)'
    PROVE  RegistryInv'
<1>0. /\ loaded' = loaded /\ weights' = weights /\ active' = active /\ device' = device
      /\ encoder' = encoder /\ session' = session /\ sent' = sent /\ torn' = torn
      /\ task[c].pc \in Transit
  BY DEF Others, Transit
<1>1. Spares(c)
  BY <1>0 DEF Spares
<1>2. Sound
  BY DEF RegistryInv
<1>a. /\ Id(c) \in Ids /\ x \in MaybeFile /\ x \in FilesOf(Id(c)) \cup {NoFile}
      /\ runtime \in [Ids -> MaybeFile]
      /\ \A i \in Ids : runtime'[i] = IF i = Id(c) THEN x ELSE runtime[i]
  BY <1>2, LoadingHas DEF Sound, Registered, MaybeFile
<1>3. ActiveSound'
  BY <1>0, <1>2, Settled DEF Sound, Becomes
<1>4. LeftSound'
  <2>1. SUFFICES ASSUME ~torn, NEW i \in Ids, loaded[i] = NoFile
                 PROVE  /\ weights[i] = NoFile
                        /\ runtime'[i] = NoFile \/ \E d \in Coming' : Id(d)' = i
    BY <1>0 DEF LeftSound
  <2>2. ~(\E d \in Dropping : i \in Doomed(d)) /\ ~(\E d \in Coming : Id(d) = i)
    BY <1>0, Alone DEF Dropping, Coming, Unsettled
  <2>3. weights[i] = NoFile /\ runtime[i] = NoFile
    BY <1>2, <2>1, <2>2 DEF Sound, LeftSound
  <2>4. i = Id(c) => c \in Coming' /\ Id(c)' = Id(c)
    BY <2>1 DEF Coming, Becomes, Id
  <2> QED BY <1>a, <2>3, <2>4
<1>5. Registered'
  BY <1>0, <1>2, <1>a DEF Sound, Registered
<1>6. TurnKeepsModel'
  BY <1>0, <1>2 DEF Sound, TurnKeepsModel, Busy
<1>7. Stored' /\ DeviceSound'
  BY <1>0, <1>2, <1>a, SameSite DEF Sound, Stored, DeviceSound
<1>8. Sound'
  BY <1>3, <1>4, <1>5, <1>6, <1>7 DEF Sound
<1> QED BY <1>1, <1>8, Conclude

LEMMA ReleaseHas ==
    ASSUME RegistryInv, NEW c \in Clients, task[c].pc \in Release
    PROVE  /\ task[c].pc \in Transit
           /\ task[c].req.op \in {"load", "unload"}
           /\ Release \subseteq PlacesOf(task[c].req.op)
           /\ task[c].req.op = "load" => task[c].model = <<task[c].req.id, task[c].req.file>>
           /\ task[c].todo # {} /\ task[c].todo \in SUBSET (Ids \cup {NoId})
           /\ session = NoModel
           /\ \A d \in Moving \cup Dropping \cup Coming : d = c
           /\ Sound /\ Freeing(c)
<1>1. task[c].pc \in Transit /\ task[c].pc # "done"
  BY DEF Transit, Release
<1>2. task[c].req.op \in {"load", "unload"}
  BY <1>1, Requests DEF PlacesOf, Release, Loading
<1>3. Release \subseteq PlacesOf(task[c].req.op)
  BY <1>2 DEF PlacesOf
<1>4. /\ task[c].req.op = "load" => task[c].model = <<task[c].req.id, task[c].req.file>>
      /\ task[c].todo # {}
  BY <1>1, Requests DEF Placed
<1>5. task[c].todo \in SUBSET (Ids \cup {NoId})
  BY <1>1, Requests DEF Tasks
<1>6. Sound /\ Freeing(c)
  BY DEF RegistryInv, Relies
<1> QED BY <1>1, <1>2, <1>3, <1>4, <1>5, <1>6, Alone

\* The targets stay the same on the way through release_model.
LEMMA SameDoomed ==
    ASSUME NEW c \in Clients, NEW q, NEW m, NEW u, Becomes(c, q, m, u, task[c].todo)
    PROVE  Doomed(c)' = Doomed(c) /\ Target(c)' = Target(c)
BY DEF Becomes, Doomed, Target

\* What was freed stays free.
LEMMA StaysFreed ==
    ASSUME RegistryInv, NEW c \in Clients, NEW q, NEW m, NEW u, site' = site,
           task[c].pc \in Freed, device' \subseteq device, Becomes(c, q, m, u, task[c].todo)
    PROVE  Freeing(c)'
<1>1. Freeing(c)
  BY DEF RegistryInv, Relies
<1>2. Doomed(c)' = Doomed(c)
  BY SameDoomed
<1> SUFFICES ASSUME site.cuda, NEW x \in device', OneFile(x[1]) PROVE x[1] \notin Doomed(c)
  BY <1>2, SameSite DEF Freeing
<1> QED BY <1>1 DEF Freeing

LEMMA ReleaseResidentStep ==
    ASSUME RegistryInv, NEW c \in Clients, ReleaseResident(c), site' = site
    PROVE  RegistryInv'
<1>0. /\ task[c].pc = "key" /\ Holds(c, "loaded")
      /\ task[c].pc \notin Unsettled /\ task[c].pc # "done"
      /\ UNCHANGED <<loaded, active, weights, runtime, encoder, Others>>
  BY DEF ReleaseResident, At, Unsettled
<1> DEFINE mine == {m \in Models : m[1] \in Doomed(c) /\ loaded[m[1]] = m[2]}
<1>1. CASE Answer(c, FALSE) /\ device' = device
  BY <1>0, <1>1, AnswersPlain DEF Registries
<1>2. CASE /\ device' = IF Target(c) = NoId THEN {} ELSE device \ mine
           /\ Goto(c, "drop", {"loaded"}, {Write("loaded")})
  <2>1. /\ Becomes(c, "drop", task[c].model, task[c].used, task[c].todo)
        /\ lock' = After(c, {"loaded"}, {Write("loaded")})
    BY <1>2, Goes DEF Goto, Places
  <2>2. LockTable' /\ HeldLocks'
    <3>1. MayAsk(c, "drop", {"loaded"}, "loaded", "w")
      BY <1>0 DEF MayGo, MayAsk, Fits, Shared, Sole, Kept, LockNames, Transit, Release, Loading
    <3> QED BY <2>1, <3>1, LocksWrite, Names
  <2>3. /\ device' \subseteq device /\ task[c].pc \in Release /\ session' = session
        /\ device \subseteq Models
    BY <1>0, <1>2 DEF Release, Others, RegistryInv, Sound, Registered
  <2>4. Doomed(c)' = Doomed(c)
    BY <2>1, SameDoomed
  <2>5. Freeing(c)'
    <3> SUFFICES ASSUME site.cuda, NEW m \in device', OneFile(m[1]), m[1] \in Doomed(c)
                 PROVE  FALSE
      BY <2>4, SameSite DEF Freeing
    <3>1. m \in Models /\ loaded[m[1]] = m[2]
      BY <2>3 DEF RegistryInv, Sound, DeviceSound
    <3>2. m \in mine
      BY <3>1
    <3> QED BY <1>2, <3>2
  <2>6. Relies(c)'
    BY <2>1, <2>3, <2>5, ReleaseHas, RelyAt DEF Modelled, Release, Loading
  <2> QED BY <1>0, <2>1, <2>2, <2>3, <2>6, DeviceShrinks
<1> QED BY <1>1, <1>2 DEF ReleaseResident

LEMMA DropRecordStep ==
    ASSUME RegistryInv, NEW c \in Clients, DropRecord(c), site' = site
    PROVE  RegistryInv'
<1>0. /\ task[c].pc = "drop" /\ task[c].pc # "done" /\ Holds(c, "loaded")
      /\ loaded' = Without(loaded, Doomed(c)) /\ active' = active /\ weights' = weights
      /\ runtime' = runtime /\ encoder' = encoder /\ device' = device /\ session' = session
      /\ sent' = sent /\ torn' = torn /\ Goto(c, "drop rest", {"loaded"}, {})
  BY DEF DropRecord, At, Others
<1>a. task[c].pc \in Release
  BY <1>0 DEF Release
<1>b. \A d \in Moving \cup Dropping \cup Coming : FALSE
  BY <1>0, <1>a, ReleaseHas DEF Moving, Dropping, Coming
<1>c. \A i \in Ids : loaded'[i] = IF i \in Doomed(c) THEN NoFile ELSE loaded[i]
  BY <1>0 DEF Without
<1>1. /\ Becomes(c, "drop rest", task[c].model, task[c].used, task[c].todo)
      /\ lock' = After(c, {"loaded"}, {})
  BY <1>0, Goes DEF Goto, Places
<1>2. LockTable' /\ HeldLocks'
  <2>1. MayGo(c, "drop rest", {"loaded"})
    BY <1>0 DEF MayGo, MayAsk, Fits, Shared, Sole, Kept, LockNames, Transit, Release, Loading
  <2> QED BY <1>1, <2>1, LocksOnly
<1>3. Doomed(c)' = Doomed(c)
  BY <1>1, SameDoomed
<1>4. Spares(c)
  BY <1>0 DEF Spares
<1>5. Freeing(c)'
  BY <1>0, <1>1, StaysFreed DEF Freed, Release
<1>6. Relies(c)'
  BY <1>0, <1>a, <1>1, <1>5, ReleaseHas, RelyAt DEF Modelled, Release, Loading
<1>7. c \in Moving' /\ c \in Dropping'
  BY <1>1 DEF Becomes, Moving, Dropping
<1>8. ActiveSound'
  <2>1. torn \/ active \in LoadedIds \cup {NoId}
    BY <1>a, <1>b, ReleaseHas DEF Sound, ActiveSound
  <2>2. CASE active \in LoadedIds /\ active \in Doomed(c)
    BY <1>0, <1>3, <1>7, <2>2 DEF ActiveSound
  <2>3. CASE active \in LoadedIds /\ active \notin Doomed(c)
    BY <1>0, <1>c, <2>3 DEF ActiveSound, LoadedIds
  <2> QED BY <1>0, <2>1, <2>2, <2>3 DEF ActiveSound
<1>9. LeftSound'
  <2> SUFFICES ASSUME ~torn, NEW i \in Ids, loaded'[i] = NoFile, i \notin Doomed(c)
               PROVE  weights[i] = NoFile /\ runtime[i] = NoFile
    BY <1>0, <1>3, <1>7 DEF LeftSound
  <2> QED BY <1>a, <1>b, <1>c, ReleaseHas DEF Sound, LeftSound
<1>10. Registered'
  BY <1>0, <1>a, ReleaseHas DEF Sound, Registered, Without, MaybeFile
<1>11. Stored'
  BY <1>0, <1>a, <1>c, ReleaseHas, SameSite DEF Sound, Stored
<1>12. DeviceSound'
  <2> SUFFICES ASSUME site.cuda, NEW m \in device, OneFile(m[1])
               PROVE  loaded'[m[1]] = m[2]
    BY <1>0, SameSite DEF DeviceSound
  <2>1. m[1] \in Ids /\ m[1] \notin Doomed(c) /\ loaded[m[1]] = m[2]
    BY <1>0, <1>a, ReleaseHas DEF Sound, Registered, DeviceSound, Models, Freeing, Freed, Release
  <2> QED BY <1>c, <2>1
<1>13. TurnKeepsModel'
  BY <1>0, <1>a, ReleaseHas DEF TurnKeepsModel, Busy
<1>14. Sound'
  BY <1>8, <1>9, <1>10, <1>11, <1>12, <1>13 DEF Sound
<1> QED BY <1>1, <1>2, <1>4, <1>6, <1>14, Conclude

LEMMA DropRestStep ==
    ASSUME RegistryInv, NEW c \in Clients, DropRest(c), site' = site
    PROVE  RegistryInv'
<1>0. /\ task[c].pc = "drop rest" /\ task[c].pc # "done"
      /\ runtime' = Without(runtime, Doomed(c)) /\ encoder' = Without(encoder, Doomed(c))
      /\ weights' = Without(weights, Doomed(c)) /\ loaded' = loaded /\ active' = active
      /\ device' = device /\ session' = session /\ sent' = sent /\ torn' = torn
      /\ Goto(c, "deactivate", {}, {Write("active")})
  BY DEF DropRest, At, Others
<1>a. task[c].pc \in Release
  BY <1>0 DEF Release
<1>b. \A i \in Ids : /\ runtime'[i] = IF i \in Doomed(c) THEN NoFile ELSE runtime[i]
                     /\ weights'[i] = IF i \in Doomed(c) THEN NoFile ELSE weights[i]
  BY <1>0 DEF Without
<1>1. /\ Becomes(c, "deactivate", task[c].model, task[c].used, task[c].todo)
      /\ lock' = After(c, {}, {Write("active")})
  BY <1>0, Goes DEF Goto, Places
<1>2. LockTable' /\ HeldLocks'
  <2>1. MayAsk(c, "deactivate", {}, "active", "w")
    BY <1>0 DEF MayGo, MayAsk, Fits, Shared, Sole, Kept, LockNames, Transit, Release, Loading
  <2> QED BY <1>1, <2>1, LocksWrite, Names
<1>3. Doomed(c)' = Doomed(c)
  BY <1>1, SameDoomed
<1>4. Spares(c)
  BY <1>0, <1>a, ReleaseHas DEF Spares
<1>5. Freeing(c)'
  BY <1>0, <1>1, StaysFreed DEF Freed, Release
<1>6. Relies(c)'
  BY <1>0, <1>a, <1>1, <1>5, ReleaseHas, RelyAt DEF Modelled, Release, Loading
<1>7. ActiveSound'
  <2>1. c \in Moving'
    BY <1>1 DEF Becomes, Moving
  <2>2. torn \/ active \in LoadedIds \cup {NoId} \/ active \in Doomed(c)
    BY <1>a, ReleaseHas DEF Sound, ActiveSound
  <2> QED BY <1>0, <1>3, <2>1, <2>2 DEF ActiveSound, LoadedIds
<1>8. LeftSound'
  <2> SUFFICES ASSUME ~torn, NEW i \in Ids, loaded[i] = NoFile
               PROVE  weights'[i] = NoFile /\ runtime'[i] = NoFile
    BY <1>0 DEF LeftSound
  <2>1. i \in Doomed(c) \/ (weights[i] = NoFile /\ runtime[i] = NoFile)
    BY <1>0, <1>a, ReleaseHas DEF Sound, LeftSound, Coming
  <2> QED BY <1>b, <2>1
<1>9. Registered'
  BY <1>0, <1>a, ReleaseHas DEF Sound, Registered, Without, MaybeFile
<1>10. Stored' /\ DeviceSound'
  BY <1>0, <1>a, <1>b, ReleaseHas, SameSite DEF Sound, Stored, DeviceSound
<1>11. TurnKeepsModel'
  BY <1>0, <1>a, ReleaseHas DEF TurnKeepsModel, Busy
<1>12. Sound'
  BY <1>7, <1>8, <1>9, <1>10, <1>11 DEF Sound
<1> QED BY <1>1, <1>2, <1>4, <1>6, <1>12, Conclude

\* The active id is dealt with, and nothing else changes.
LEMMA Deactivates ==
    ASSUME RegistryInv, NEW c \in Clients, NEW q, site' = site,
           task[c].pc \in {"deactivate", "next active"}, q \in {"next active", "trim"},
           loaded' = loaded, weights' = weights, runtime' = runtime, encoder' = encoder,
           device' = device, session' = session, sent' = sent, torn' = torn,
           Becomes(c, q, task[c].model, task[c].used, task[c].todo), LockTable', HeldLocks',
           active' \in Ids \cup {NoId}, ActiveSound'
    PROVE  RegistryInv'
<1>1. task[c].pc \in Release
  BY DEF Release
<1>2. Doomed(c)' = Doomed(c)
  BY SameDoomed
<1>3. Spares(c)
  BY DEF Spares
<1>4. Freeing(c)'
  BY StaysFreed DEF Freed, Release
<1>5. Relies(c)'
  <2>1. /\ q \in Release /\ q \notin Modelled
        /\ q \notin {"publish", "activate", "reactivate", "heal", "clear", "serve", "use",
                     "weights", "decode"}
    BY DEF Release, Modelled, Loading
  <2> QED BY <1>1, <1>4, <2>1, ReleaseHas, RelyAt
<1>6. LeftSound'
  <2>1. ~(\E d \in Dropping \cup Coming : TRUE)
    BY <1>1, ReleaseHas DEF Dropping, Coming
  <2> QED BY <1>1, <2>1, ReleaseHas DEF Sound, LeftSound
<1>7. Registered' /\ TurnKeepsModel'
  BY <1>1, ReleaseHas DEF Sound, Registered, TurnKeepsModel, Busy
<1>8. Stored' /\ DeviceSound'
  BY <1>1, ReleaseHas, SameSite DEF Sound, Stored, DeviceSound
<1>9. Sound'
  BY <1>6, <1>7, <1>8 DEF Sound
<1> QED BY <1>3, <1>5, <1>9, Conclude

LEMMA DeactivateStep ==
    ASSUME RegistryInv, NEW c \in Clients, Deactivate(c), site' = site
    PROVE  RegistryInv'
<1>0. /\ task[c].pc = "deactivate" /\ task[c].pc # "done" /\ Holds(c, "active")
      /\ loaded' = loaded /\ weights' = weights /\ runtime' = runtime /\ encoder' = encoder
      /\ device' = device /\ session' = session /\ sent' = sent /\ torn' = torn
  BY DEF Deactivate, At, Others
<1>a. task[c].pc \in Release /\ active \in Ids \cup {NoId}
  BY <1>0 DEF Release, RegistryInv, Sound, Registered
<1>b. torn \/ active \in LoadedIds \cup {NoId} \/ active \in Doomed(c)
  BY <1>a, ReleaseHas DEF Sound, ActiveSound
<1>1. CASE /\ Target(c) # NoId /\ active = Target(c) /\ active' = active
           /\ Goto(c, "next active", {}, {Read("loaded")})
  <2>1. /\ Becomes(c, "next active", task[c].model, task[c].used, task[c].todo)
        /\ lock' = After(c, {}, {Read("loaded")})
    BY <1>1, Goes DEF Goto, Places
  <2>2. LockTable' /\ HeldLocks'
    <3>1. MayAsk(c, "next active", {}, "loaded", "r")
      BY <1>0 DEF MayGo, MayAsk, Fits, Shared, Sole, Kept, LockNames, Transit, Release, Loading
    <3> QED BY <2>1, <3>1, LocksRead, Names
  <2>3. c \in Moving' /\ Doomed(c)' = Doomed(c)
    BY <2>1, SameDoomed DEF Becomes, Moving
  <2>4. ActiveSound'
    BY <1>0, <1>1, <1>b, <2>3 DEF ActiveSound, LoadedIds
  <2> QED BY <1>0, <1>1, <1>a, <2>1, <2>2, <2>4, Deactivates
<1>2. CASE /\ ~(Target(c) # NoId /\ active = Target(c))
           /\ active' = IF Target(c) = NoId THEN NoId ELSE active
           /\ Goto(c, "trim", {"active"}, {})
  <2>1. /\ Becomes(c, "trim", task[c].model, task[c].used, task[c].todo)
        /\ lock' = After(c, {"active"}, {})
    BY <1>2, Goes DEF Goto, Places
  <2>2. LockTable' /\ HeldLocks'
    <3>1. MayGo(c, "trim", {"active"})
      BY <1>0 DEF MayGo, MayAsk, Fits, Shared, Sole, Kept, LockNames, Transit, Release, Loading
    <3> QED BY <2>1, <3>1, LocksOnly
  <2>3. ActiveSound'
    BY <1>0, <1>2, <1>b DEF ActiveSound, LoadedIds, Doomed
  <2>4. active' \in Ids \cup {NoId}
    BY <1>2, <1>a
  <2> QED BY <1>0, <2>1, <2>2, <2>3, <2>4, Deactivates
<1> QED BY <1>1, <1>2 DEF Deactivate

LEMMA NextActiveStep ==
    ASSUME RegistryInv, NEW c \in Clients, NextActive(c), site' = site
    PROVE  RegistryInv'
<1>0. /\ task[c].pc = "next active" /\ task[c].pc # "done" /\ Holds(c, "loaded")
      /\ loaded' = loaded /\ weights' = weights /\ runtime' = runtime /\ encoder' = encoder
      /\ device' = device /\ session' = session /\ sent' = sent /\ torn' = torn
      /\ active' \in LoadedIds \cup {NoId} /\ Goto(c, "trim", {"active", "loaded"}, {})
  BY DEF NextActive, At, Others
<1>1. /\ Becomes(c, "trim", task[c].model, task[c].used, task[c].todo)
      /\ lock' = After(c, {"active", "loaded"}, {})
  BY <1>0, Goes DEF Goto, Places
<1>2. LockTable' /\ HeldLocks'
  <2>1. MayGo(c, "trim", {"active", "loaded"})
    BY <1>0 DEF MayGo, MayAsk, Fits, Shared, Sole, Kept, LockNames, Transit, Release, Loading
  <2> QED BY <1>1, <2>1, LocksOnly
<1>3. ActiveSound' /\ active' \in Ids \cup {NoId}
  BY <1>0 DEF ActiveSound, LoadedIds
<1> QED BY <1>0, <1>1, <1>2, <1>3, Deactivates

LEMMA TrimStep ==
    ASSUME RegistryInv, NEW c \in Clients, Trim(c), site' = site
    PROVE  RegistryInv'
<1>0. /\ task[c].pc = "trim"
      /\ task[c].pc \notin Unsettled /\ task[c].pc # "done"
      /\ UNCHANGED <<loaded, active, weights, runtime, encoder, Others>>
  BY DEF Trim, At, Unsettled
<1> DEFINE rest == task[c].todo \ {Target(c)}
<1>a. task[c].pc \in Release /\ session' = session
  BY <1>0 DEF Release, Others
<1>1. CASE Answer(c, FALSE) /\ device' = device
  BY <1>0, <1>1, AnswersPlain DEF Registries
<1>2. CASE /\ device' = IF site.cuda THEN device ELSE {}
           /\ IF rest # {} THEN EnterRelease(c, {}, rest)
              ELSE IF task[c].req.op = "load" THEN ToFit(c, {"transition", "lifecycle"})
                   ELSE Answer(c, TRUE)
  <2>0. device' \subseteq device
    BY <1>2
  <2>1. CASE rest # {} /\ EnterRelease(c, {}, rest)
    <3>1. MayAsk(c, "key", {}, "loaded", "r") /\ MayAsk(c, "drop", {}, "loaded", "w")
      BY <1>0 DEF MayGo, MayAsk, Fits, Shared, Sole, Kept, LockNames, Transit, Release, Loading
    <3>2. rest \in SUBSET (Ids \cup {NoId})
      BY <1>a, ReleaseHas
    <3> HIDE DEF rest
    <3>3. /\ \E q \in {"key", "drop"} : Becomes(c, q, task[c].model, task[c].used, rest)
          /\ LockTable' /\ HeldLocks' /\ Relies(c)'
      BY <1>0, <1>a, <2>1, <3>1, <3>2, ReleaseHas, EnteringRelease
    <3> QED BY <1>0, <2>0, <3>3, DeviceShrinks
  <2>2. CASE task[c].req.op = "load" /\ ToFit(c, {"transition", "lifecycle"})
    <3>1. /\ MayAsk(c, "enter", {"transition", "lifecycle"}, "transition", "w")
          /\ MayAsk(c, "fit", {"transition", "lifecycle"}, "lifecycle", "r")
      BY <1>0 DEF MayGo, MayAsk, Fits, Shared, Sole, Kept, LockNames, Transit, Release, Loading
    <3>2. /\ \E q : Becomes(c, q, task[c].model, task[c].used, task[c].todo)
          /\ LockTable' /\ HeldLocks' /\ Relies(c)'
      BY <1>0, <2>2, <3>1, GoesToFit
    <3> QED BY <1>0, <2>0, <3>2, DeviceShrinks
  <2>3. CASE Answer(c, TRUE)
    BY <1>0, <2>0, <2>3, Answers, DeviceShrinks
  <2> QED BY <1>2, <2>1, <2>2, <2>3
<1> QED BY <1>1, <1>2 DEF Trim

LEMMA HealStep ==
    ASSUME RegistryInv, NEW c \in Clients, Heal(c), site' = site
    PROVE  RegistryInv'
<1>0. /\ task[c].pc = "heal" /\ task[c].pc \in Loading /\ task[c].pc \notin Unsettled
      /\ UNCHANGED <<loaded, active, weights, encoder, device, Others>>
      /\ loaded' = loaded /\ session' = session
  BY DEF Heal, At, Others, Loading, Unsettled
<1>a. loaded[Id(c)] = File(c) /\ loaded[Id(c)] # NoFile /\ Id(c) \in LoadedIds
  BY <1>0, LoadingHas DEF RegistryInv, Relies, OnLoaded, LoadedIds
<1>1. CASE Answer(c, FALSE) /\ runtime' = runtime
  BY <1>0, <1>1, AnswersPlain DEF Registries
<1>2. CASE runtime' = [runtime EXCEPT ![Id(c)] = File(c)]
  <2>1. runtime'[Id(c)] = File(c)
    BY <1>0, <1>2, LoadingHas DEF RegistryInv, Sound, Registered
  <2>2. CASE Goto(c, "reactivate", {}, {Write("active")})
    <3>1. /\ Becomes(c, "reactivate", task[c].model, task[c].used, task[c].todo)
          /\ lock' = After(c, {}, {Write("active")})
      BY <2>2, Goes DEF Goto, Places
    <3>2. LockTable' /\ HeldLocks'
      <4>1. MayAsk(c, "reactivate", {}, "active", "w")
        BY <1>0 DEF MayGo, MayAsk, Fits, Shared, Sole, Kept, LockNames, Transit, Release, Loading
      <4> QED BY <3>1, <4>1, LocksWrite, Names
    <3>3. Relies(c)'
      BY <1>0, <1>a, <2>1, <3>1, LoadingHas, RelyAt DEF Freed, Release, Loading
    <3> QED BY <1>0, <1>2, <1>a, <3>1, <3>2, <3>3, RuntimeChanges
  <2>3. CASE LoadDone(c)
    BY <1>0, <1>2, <1>a, <2>3, Loads, RuntimeChanges
  <2>4. CASE Answer(c, FALSE)
    BY <1>0, <1>2, <1>a, <2>4, Answers, RuntimeChanges
  <2> QED BY <2>2, <2>3, <2>4 DEF Heal
<1> QED BY <1>1, <1>2 DEF Heal

LEMMA ReactivateStep ==
    ASSUME RegistryInv, NEW c \in Clients, Reactivate(c), site' = site
    PROVE  RegistryInv'
<1>0. /\ task[c].pc = "reactivate" /\ task[c].pc \in Loading
      /\ task[c].pc \notin Unsettled /\ Holds(c, "active")
      /\ UNCHANGED <<loaded, weights, runtime, encoder, device, Others>>
      /\ loaded' = loaded /\ runtime' = runtime /\ session' = session
      /\ active' = Id(c) /\ LoadDone(c)
  BY DEF Reactivate, At, Others, Loading, Unsettled
<1>a. loaded[Id(c)] = File(c) /\ loaded[Id(c)] # NoFile /\ Id(c) \in LoadedIds
  BY <1>0, LoadingHas DEF RegistryInv, Relies, OnLoaded, LoadedIds
<1> QED BY <1>0, <1>a, Loads, ActiveMoves

LEMMA BuildStep ==
    ASSUME RegistryInv, NEW c \in Clients, Build(c), site' = site
    PROVE  RegistryInv'
<1>0. /\ task[c].pc = "build" /\ task[c].pc \in Loading /\ task[c].pc \notin Unsettled
      /\ UNCHANGED <<loaded, active, weights, encoder, device, Others>>
      /\ loaded' = loaded /\ session' = session
  BY DEF Build, At, Others, Loading, Unsettled
<1>1. CASE Answer(c, FALSE) /\ runtime' = runtime
  BY <1>0, <1>1, AnswersPlain DEF Registries
<1>2. CASE /\ runtime' = IF site.kind[File(c)] = "runnable"
                         THEN [runtime EXCEPT ![Id(c)] = File(c)] ELSE runtime
           /\ Goto(c, "publish", {}, {Write("loaded")})
  <2>1. /\ Becomes(c, "publish", task[c].model, task[c].used, task[c].todo)
        /\ lock' = After(c, {}, {Write("loaded")})
    BY <1>2, Goes DEF Goto, Places
  <2>2. LockTable' /\ HeldLocks'
    <3>1. MayAsk(c, "publish", {}, "loaded", "w")
      BY <1>0 DEF MayGo, MayAsk, Fits, Shared, Sole, Kept, LockNames, Transit, Release, Loading
    <3> QED BY <2>1, <3>1, LocksWrite, Names
  <2>3. site.kind[File(c)] = "runnable" => runtime'[Id(c)] = File(c)
    BY <1>0, <1>2, LoadingHas DEF RegistryInv, Sound, Registered
  <2>4. Relies(c)'
    BY <1>0, <2>1, <2>3, LoadingHas, RelyAt DEF Freed, Release, Loading
  <2>5. CASE site.kind[File(c)] = "runnable"
    BY <1>0, <1>2, <2>1, <2>2, <2>4, <2>5, RuntimeChanges
  <2>6. CASE site.kind[File(c)] # "runnable"
    BY <1>0, <1>2, <2>1, <2>2, <2>4, <2>6, Plain DEF Registries
  <2> QED BY <2>5, <2>6
<1> QED BY <1>1, <1>2 DEF Build

\* A published model is built for serving, or the load is done.
LEMMA Published ==
    ASSUME RegistryInv, NEW c \in Clients, NEW drops, AfterPublish(c, drops), site' = site,
           task[c].pc \in Loading, loaded'[Id(c)] = File(c), session' = session,
           MayGo(c, "clear", drops), MayGo(c, "serve", drops)
    PROVE  /\ \E q : Becomes(c, q, task[c].model, task[c].used, task[c].todo)
           /\ LockTable' /\ HeldLocks' /\ Relies(c)'
<1>1. CASE LoadDone(c)
  BY <1>1, Loads
<1>2. CASE Goto(c, "clear", drops, {})
  <2>1. /\ Becomes(c, "clear", task[c].model, task[c].used, task[c].todo)
        /\ lock' = After(c, drops, {})
    BY <1>2, Goes DEF Goto, Places
  <2>2. LockTable' /\ HeldLocks'
    BY <2>1, LocksOnly
  <2>3. Relies(c)'
    BY <2>1, LoadingHas, RelyAt DEF Freed, Release, Loading
  <2> QED BY <2>1, <2>2, <2>3
<1>3. CASE Goto(c, "serve", drops, {})
  <2>1. /\ Becomes(c, "serve", task[c].model, task[c].used, task[c].todo)
        /\ lock' = After(c, drops, {})
    BY <1>3, Goes DEF Goto, Places
  <2>2. LockTable' /\ HeldLocks'
    BY <2>1, LocksOnly
  <2>3. Relies(c)'
    BY <2>1, LoadingHas, RelyAt DEF Freed, Release, Loading
  <2> QED BY <2>1, <2>2, <2>3
<1> QED BY <1>1, <1>2, <1>3 DEF AfterPublish

LEMMA PublishStep ==
    ASSUME RegistryInv, NEW c \in Clients, Publish(c), site' = site
    PROVE  RegistryInv'
<1>0. /\ task[c].pc = "publish" /\ task[c].pc \in Loading /\ Holds(c, "loaded")
      /\ loaded' = [loaded EXCEPT ![Id(c)] = File(c)] /\ active' = active /\ weights' = weights
      /\ runtime' = runtime /\ encoder' = encoder /\ device' = device /\ session' = session
      /\ sent' = sent /\ torn' = torn
  BY DEF Publish, At, Others, Loading, Unsettled
<1>a. /\ \A i \in Ids : loaded'[i] = IF i = Id(c) THEN File(c) ELSE loaded[i]
      /\ loaded' \in [Ids -> MaybeFile] /\ Sound /\ Runs(c) /\ task[c].pc \in Transit
  BY <1>0, LoadingHas DEF RegistryInv, Sound, Registered, MaybeFile, Relies, Transit
<1>b. /\ \A d \in Moving \cup Dropping : FALSE
      /\ \A d \in Coming : Id(d) = Id(c)
  BY <1>0, <1>a, Alone DEF Moving, Dropping, Coming
<1>1. /\ \E q : Becomes(c, q, task[c].model, task[c].used, task[c].todo)
      /\ LockTable' /\ HeldLocks' /\ Relies(c)'
  <2>0. loaded'[Id(c)] = File(c)
    BY <1>0, <1>a, LoadingHas
  <2>1. CASE Goto(c, "activate", {"loaded"}, {Write("active")})
    <3>1. /\ Becomes(c, "activate", task[c].model, task[c].used, task[c].todo)
          /\ lock' = After(c, {"loaded"}, {Write("active")})
      BY <2>1, Goes DEF Goto, Places
    <3>2. LockTable' /\ HeldLocks'
      <4>1. MayAsk(c, "activate", {"loaded"}, "active", "w")
        BY <1>0 DEF MayGo, MayAsk, Fits, Shared, Sole, Kept, LockNames, Transit, Release, Loading
      <4> QED BY <3>1, <4>1, LocksWrite, Names
    <3>3. site.kind[File(c)] = "runnable" => runtime'[Id(c)] = File(c)
      BY <1>0, <1>a DEF Runs
    <3>4. Relies(c)'
      BY <1>0, <2>0, <3>1, <3>3, LoadingHas, RelyAt DEF Freed, Release, Loading
    <3> QED BY <3>1, <3>2, <3>4
  <2>2. CASE AfterPublish(c, {"loaded"})
    <3>1. MayGo(c, "clear", {"loaded"}) /\ MayGo(c, "serve", {"loaded"})
      BY <1>0 DEF MayGo, MayAsk, Fits, Shared, Sole, Kept, LockNames, Transit, Release, Loading
    <3> QED BY <1>0, <2>0, <2>2, <3>1, Published
  <2> QED BY <2>1, <2>2 DEF Publish
<1>2. Spares(c)
  BY <1>0, <1>a, LoadingHas DEF Spares
<1>3. ActiveSound'
  <2>1. torn \/ active \in LoadedIds \cup {NoId}
    BY <1>a, <1>b DEF Sound, ActiveSound
  <2>2. active \in LoadedIds => active \in LoadedIds'
    BY <1>0, <1>a, LoadingHas DEF LoadedIds
  <2> QED BY <1>0, <2>1, <2>2 DEF ActiveSound
<1>4. LeftSound'
  <2> SUFFICES ASSUME ~torn, NEW i \in Ids, loaded'[i] = NoFile
               PROVE  weights[i] = NoFile /\ runtime[i] = NoFile
    BY <1>0 DEF LeftSound
  <2>1. i # Id(c) /\ loaded[i] = NoFile
    BY <1>0, <1>a, LoadingHas
  <2> QED BY <1>a, <1>b, <2>1 DEF Sound, LeftSound
<1>5. Registered'
  BY <1>0, <1>a DEF Sound, Registered
<1>6. Stored'
  BY <1>0, <1>a, LoadingHas, SameSite DEF Sound, Stored
<1>7. DeviceSound'
  <2> SUFFICES ASSUME site.cuda, NEW m \in device, OneFile(m[1])
               PROVE  loaded'[m[1]] = m[2]
    BY <1>0, SameSite DEF DeviceSound
  <2>1. m[1] \in Ids /\ m[2] # NoFile /\ loaded[m[1]] = m[2]
    BY <1>a, RegistryAssumption DEF Sound, Registered, DeviceSound, Models
  <2>2. m[2] \in FilesOf(m[1])
    BY <1>a, <2>1 DEF Sound, Stored
  <2> QED BY <1>0, <1>a, <2>1, <2>2, LoadingHas DEF OneFile
<1>8. TurnKeepsModel'
  BY <1>0, <1>a, Alone DEF TurnKeepsModel, Busy
<1>9. Sound'
  BY <1>3, <1>4, <1>5, <1>6, <1>7, <1>8 DEF Sound
<1> QED BY <1>1, <1>2, <1>9, Conclude

LEMMA ActivateStep ==
    ASSUME RegistryInv, NEW c \in Clients, Activate(c), site' = site
    PROVE  RegistryInv'
<1>0. /\ task[c].pc = "activate" /\ task[c].pc \in Loading
      /\ task[c].pc \notin Unsettled /\ Holds(c, "active")
      /\ UNCHANGED <<loaded, weights, runtime, encoder, device, Others>>
      /\ loaded' = loaded /\ runtime' = runtime /\ session' = session
      /\ active' = Id(c) /\ AfterPublish(c, {"active"})
  BY DEF Activate, At, Others, Loading, Unsettled
<1>a. loaded[Id(c)] = File(c) /\ loaded[Id(c)] # NoFile /\ Id(c) \in LoadedIds
  BY <1>0, LoadingHas DEF RegistryInv, Relies, OnLoaded, LoadedIds
<1>1. MayGo(c, "clear", {"active"}) /\ MayGo(c, "serve", {"active"})
  BY <1>0 DEF MayGo, MayAsk, Fits, Shared, Sole, Kept, LockNames, Transit, Release, Loading
<1>2. /\ \E q : Becomes(c, q, task[c].model, task[c].used, task[c].todo)
      /\ LockTable' /\ HeldLocks' /\ Relies(c)'
  BY <1>0, <1>a, <1>1, Published
<1> QED BY <1>0, <1>a, <1>2, ActiveMoves

LEMMA ClearStep ==
    ASSUME RegistryInv, NEW c \in Clients, Clear(c), site' = site
    PROVE  RegistryInv'
<1>0. /\ task[c].pc = "clear" /\ task[c].pc \in Loading /\ task[c].pc \notin Unsettled
      /\ UNCHANGED <<loaded, active, weights, encoder, device, Others>>
      /\ loaded' = loaded /\ session' = session
      /\ runtime' = [runtime EXCEPT ![Id(c)] = NoFile] /\ Goto(c, "serve", {}, {})
  BY DEF Clear, At, Others, Loading, Unsettled
<1>a. loaded[Id(c)] = File(c) /\ loaded[Id(c)] # NoFile /\ Id(c) \in LoadedIds
  BY <1>0, LoadingHas DEF RegistryInv, Relies, OnLoaded, LoadedIds
<1>1. /\ Becomes(c, "serve", task[c].model, task[c].used, task[c].todo)
      /\ lock' = After(c, {}, {})
  BY <1>0, Goes DEF Goto, Places
<1>2. LockTable' /\ HeldLocks'
  <2>1. MayGo(c, "serve", {})
    BY <1>0 DEF MayGo, MayAsk, Fits, Shared, Sole, Kept, LockNames, Transit, Release, Loading
  <2> QED BY <1>1, <2>1, LocksOnly
<1>3. Relies(c)'
  BY <1>0, <1>a, <1>1, LoadingHas, RelyAt DEF Freed, Release, Loading
<1> QED BY <1>0, <1>a, <1>1, <1>2, <1>3, RuntimeChanges

LEMMA ServeStep ==
    ASSUME RegistryInv, NEW c \in Clients, Serve(c), site' = site
    PROVE  RegistryInv'
<1>0. /\ task[c].pc = "serve" /\ task[c].pc \in Loading /\ task[c].pc \notin Unsettled
      /\ UNCHANGED <<loaded, active, weights, encoder, device, Others>>
      /\ loaded' = loaded /\ session' = session
  BY DEF Serve, At, Others, Loading, Unsettled
<1>a. loaded[Id(c)] = File(c) /\ loaded[Id(c)] # NoFile /\ Id(c) \in LoadedIds
  BY <1>0, LoadingHas DEF RegistryInv, Relies, OnLoaded, LoadedIds
<1>1. CASE Answer(c, FALSE) /\ runtime' = runtime
  BY <1>0, <1>1, AnswersPlain DEF Registries
<1>2. CASE runtime' = [runtime EXCEPT ![Id(c)] = File(c)] /\ LoadDone(c)
  BY <1>0, <1>2, <1>a, Loads, RuntimeChanges
<1> QED BY <1>1, <1>2 DEF Serve

LEMMA UseStep ==
    ASSUME RegistryInv, NEW c \in Clients, Use(c), site' = site
    PROVE  RegistryInv'
<1>0. /\ task[c].pc = "use" /\ task[c].pc # "done"
      /\ task[c].pc \notin Unsettled /\ Holds(c, "active")
      /\ UNCHANGED <<loaded, weights, runtime, encoder, device, Others>> /\ active' = Id(c)
      /\ Goto(c, "lease", {"active", "loaded"}, {Read("lifecycle")})
  BY DEF Use, At, Others, Unsettled
<1>a. /\ task[c].model \in Models /\ task[c].model[1] = Id(c) /\ task[c].model[2] = File(c)
      /\ Id(c) \in Ids /\ File(c) \in Files /\ File(c) # NoFile /\ File(c) \in FilesOf(Id(c))
  BY <1>0, WorksOnModel DEF Modelled, Id, File
<1>b. task[c].req.op = "chat" /\ "lease" \in PlacesOf(task[c].req.op)
  BY <1>0, Requests DEF PlacesOf, Release, Loading
<1>c. loaded[Id(c)] # NoFile /\ Id(c) \in LoadedIds
  BY <1>0, <1>a DEF RegistryInv, Relies, OnLoaded, LoadedIds
<1>1. /\ Becomes(c, "lease", task[c].model, task[c].used, task[c].todo)
      /\ lock' = After(c, {"active", "loaded"}, {Read("lifecycle")})
  BY <1>0, Goes DEF Goto, Places
<1>2. LockTable' /\ HeldLocks'
  <2>1. MayAsk(c, "lease", {"active", "loaded"}, "lifecycle", "r")
    BY <1>0 DEF MayGo, MayAsk, Fits, Shared, Sole, Kept, LockNames, Transit, Release, Loading
  <2> QED BY <1>1, <2>1, LocksRead, Names
<1>3. Relies(c)'
  BY <1>a, <1>b, <1>1, RelyAt DEF Freed, Release, Loading, Transit
<1> QED BY <1>0, <1>c, <1>1, <1>2, <1>3, ActiveMoves

LEMMA WeightsStep ==
    ASSUME RegistryInv, NEW c \in Clients, Weights(c), site' = site
    PROVE  RegistryInv'
<1>0. /\ task[c].pc = "weights" /\ task[c].pc # "done" /\ task[c].pc \notin Unsettled
      /\ loaded' = loaded /\ active' = active /\ runtime' = runtime /\ encoder' = encoder
      /\ device' = device /\ session' = session /\ sent' = sent /\ torn' = torn
      /\ UNCHANGED Others
  BY DEF Weights, At, Others, Unsettled
<1>a. /\ task[c].model \in Models /\ task[c].model[1] = Id(c) /\ task[c].model[2] = File(c)
      /\ Id(c) \in Ids /\ File(c) \in Files /\ File(c) # NoFile /\ File(c) \in FilesOf(Id(c))
  BY <1>0, WorksOnModel DEF Modelled, Id, File
<1>b. task[c].req.op = "chat" /\ "decode" \in PlacesOf(task[c].req.op)
  BY <1>0, Requests DEF PlacesOf, Release, Loading
<1>c. loaded[Id(c)] # NoFile /\ Id(c) \in LoadedIds
  BY <1>0, <1>a DEF RegistryInv, Relies, OnLoaded, LoadedIds
<1>d. After(c, {}, {}) = lock
  BY DEF After, RegistryInv, LockTable
<1>1. CASE Answer(c, FALSE) /\ weights' = weights
  BY <1>0, <1>1, AnswersPlain DEF Registries
<1>2. ASSUME NEW x \in MaybeFile, lock' = lock,
             task' = [task EXCEPT ![c].pc = "decode", ![c].used = x],
             weights' \in [Ids -> MaybeFile],
             \A i \in Ids : weights'[i] \in {weights[i], NoFile} \/ i = Id(c)
      PROVE  RegistryInv'
  <2>1. /\ Becomes(c, "decode", task[c].model, x, task[c].todo)
        /\ lock' = After(c, {}, {})
    BY <1>2, <1>d, Updates DEF Places, RegistryInv
  <2>2. LockTable' /\ HeldLocks'
    <3>1. MayGo(c, "decode", {})
      BY <1>0 DEF MayGo, MayAsk, Fits, Shared, Sole, Kept, LockNames, Transit, Release, Loading
    <3> QED BY <2>1, <3>1, LocksOnly
  <2>3. Relies(c)'
    BY <1>0, <1>a, <1>b, <1>c, <2>1, RelyAt DEF Freed, Release, Loading, Transit
  <2>4. Spares(c)
    BY <1>0 DEF Spares
  <2>5. Sound
    BY DEF RegistryInv
  <2>6. ActiveSound'
    BY <1>0, <2>1, <2>5, Settled DEF Sound, Becomes
  <2>7. LeftSound'
    <3> SUFFICES ASSUME ~torn, NEW i \in Ids, loaded[i] = NoFile
                 PROVE  \/ \E d \in Dropping' : i \in Doomed(d)'
                        \/ /\ weights'[i] = NoFile
                           /\ runtime[i] = NoFile \/ \E d \in Coming' : Id(d)' = i
      BY <1>0 DEF LeftSound
    <3>1. \A d \in Dropping \cup Coming : d # c /\ d \in Clients /\ task'[d] = task[d]
      BY <1>0, <2>1 DEF Dropping, Coming, Becomes
    <3>2. \A d \in Clients : task'[d] = task[d] => Doomed(d)' = Doomed(d)
      <4>1. ASSUME NEW d \in Clients, task'[d] = task[d] PROVE Doomed(d)' = Doomed(d)
        BY <4>1 DEF Doomed, Target
      <4> QED BY <4>1
    <3>3. /\ \A d \in Dropping : d \in Dropping' /\ Doomed(d)' = Doomed(d)
          /\ \A d \in Coming : d \in Coming' /\ Id(d)' = Id(d)
      BY <3>1, <3>2 DEF Dropping, Coming, Id
    <3>4. \/ \E d \in Dropping : i \in Doomed(d)
          \/ /\ weights[i] = NoFile
             /\ runtime[i] = NoFile \/ \E d \in Coming : Id(d) = i
      BY <2>5 DEF Sound, LeftSound
    <3>5. weights[i] = NoFile => weights'[i] = NoFile
      BY <1>2, <1>c
    <3> QED BY <3>3, <3>4, <3>5
  <2>8. Registered' /\ TurnKeepsModel'
    BY <1>0, <1>2, <2>5 DEF Sound, Registered, TurnKeepsModel, Busy
  <2>9. Stored' /\ DeviceSound'
    BY <1>0, <2>5, SameSite DEF Sound, Stored, DeviceSound
  <2>10. Sound'
    BY <2>6, <2>7, <2>8, <2>9 DEF Sound
  <2> QED BY <2>1, <2>2, <2>3, <2>4, <2>10, Conclude
<1>3. CASE /\ weights' = weights /\ lock' = lock
           /\ task' = [task EXCEPT ![c].pc = "decode", ![c].used = weights[Id(c)]]
  BY <1>2, <1>3, <1>a DEF RegistryInv, Sound, Registered
<1>4. CASE /\ \E gone \in SUBSET (Ids \ {Id(c)}) :
                 weights' = [Without(weights, gone) EXCEPT ![Id(c)] = File(c)]
           /\ lock' = lock /\ task' = [task EXCEPT ![c].pc = "decode", ![c].used = File(c)]
  <2>1. PICK gone \in SUBSET (Ids \ {Id(c)}) :
           weights' = [Without(weights, gone) EXCEPT ![Id(c)] = File(c)]
    BY <1>4
  <2>2. weights \in [Ids -> MaybeFile] /\ File(c) \in MaybeFile
    BY <1>a DEF RegistryInv, Sound, Registered, MaybeFile
  <2>3. Without(weights, gone) \in [Ids -> MaybeFile]
        /\ \A i \in Ids : Without(weights, gone)[i] \in {weights[i], NoFile}
    BY <2>2 DEF Without, MaybeFile
  <2> QED BY <1>2, <1>4, <1>a, <2>1, <2>2, <2>3
<1> QED BY <1>1, <1>3, <1>4 DEF Weights

LEMMA DecodeStep ==
    ASSUME RegistryInv, NEW c \in Clients, Decode(c), site' = site
    PROVE  RegistryInv'
<1>0. /\ task[c].pc = "decode" /\ task[c].pc # "done" /\ task[c].pc \notin Unsettled
      /\ loaded' = loaded /\ active' = active /\ runtime' = runtime /\ encoder' = encoder
      /\ weights' = weights /\ session' = session /\ sent' = sent /\ torn' = torn
      /\ UNCHANGED Others
  BY DEF Decode, At, Others, Unsettled
<1>a. /\ task[c].model \in Models /\ task[c].model[1] = Id(c) /\ task[c].model[2] = File(c)
      /\ Id(c) \in Ids /\ File(c) \in Files /\ File(c) # NoFile /\ File(c) \in FilesOf(Id(c))
  BY <1>0, WorksOnModel DEF Modelled, Id, File
<1>c. loaded[Id(c)] # NoFile /\ Id(c) \in LoadedIds
  BY <1>0, <1>a DEF RegistryInv, Relies, OnLoaded, LoadedIds
<1>1. CASE Answer(c, FALSE) /\ device' = device
  BY <1>0, <1>1, AnswersPlain DEF Registries
<1>2. CASE device' = device \cup {task[c].model} /\ Answer(c, TRUE)
  <2>1. /\ Becomes(c, "done", task[c].model, task[c].used, task[c].todo)
        /\ LockTable' /\ HeldLocks' /\ Relies(c)'
    BY <1>2, Answers
  <2>2. Spares(c)
    BY <1>0 DEF Spares
  <2>3. Sound
    BY DEF RegistryInv
  <2>4. ActiveSound' /\ LeftSound'
    BY <1>0, <2>1, <2>3, Settled DEF Sound, Becomes
  <2>5. Registered' /\ TurnKeepsModel'
    BY <1>0, <1>2, <1>a, <2>3 DEF Sound, Registered, TurnKeepsModel, Busy
  <2>6. Stored'
    BY <1>0, <2>3, SameSite DEF Sound, Stored
  <2>7. DeviceSound'
    <3> SUFFICES ASSUME site.cuda, OneFile(Id(c)) PROVE loaded[Id(c)] = File(c)
      BY <1>0, <1>2, <1>a, <2>3, SameSite DEF Sound, DeviceSound
    <3> QED BY <1>a, <1>c, <2>3 DEF Sound, Stored, OneFile
  <2>8. Sound'
    BY <2>4, <2>5, <2>6, <2>7 DEF Sound
  <2> QED BY <2>1, <2>2, <2>8, Conclude
<1> QED BY <1>1, <1>2 DEF Decode

LEMMA EncoderLoadStep ==
    ASSUME RegistryInv, NEW c \in Clients, EncoderLoad(c), site' = site
    PROVE  RegistryInv'
<1>0. /\ task[c].pc = "encoder load" /\ task[c].pc # "done" /\ task[c].pc \notin Unsettled
      /\ loaded' = loaded /\ active' = active /\ runtime' = runtime /\ device' = device
      /\ weights' = weights /\ session' = session /\ sent' = sent /\ torn' = torn
      /\ UNCHANGED Others
  BY DEF EncoderLoad, At, Others, Unsettled
<1>a. /\ task[c].model \in Models /\ task[c].model[1] = Id(c) /\ task[c].model[2] = File(c)
      /\ Id(c) \in Ids /\ File(c) \in Files /\ File(c) # NoFile /\ File(c) \in FilesOf(Id(c))
  BY <1>0, WorksOnModel DEF Modelled, Id, File
<1>1. CASE Answer(c, FALSE) /\ encoder' = encoder
  BY <1>0, <1>1, AnswersPlain DEF Registries
<1>2. CASE /\ encoder' = [encoder EXCEPT ![Id(c)] = IF @ = NoFile THEN File(c) ELSE @]
           /\ Answer(c, TRUE)
  <2>1. /\ Becomes(c, "done", task[c].model, task[c].used, task[c].todo)
        /\ LockTable' /\ HeldLocks' /\ Relies(c)'
    BY <1>2, Answers
  <2>2. Spares(c)
    BY <1>0 DEF Spares
  <2>3. Sound
    BY DEF RegistryInv
  <2>4. ActiveSound' /\ LeftSound'
    BY <1>0, <2>1, <2>3, Settled DEF Sound, Becomes
  <2>5. encoder' \in [Ids -> MaybeFile]
    BY <1>2, <1>a, <2>3 DEF Sound, Registered, MaybeFile
  <2>6. Registered' /\ TurnKeepsModel'
    BY <1>0, <2>3, <2>5 DEF Sound, Registered, TurnKeepsModel, Busy
  <2>7. Stored' /\ DeviceSound'
    BY <1>0, <2>3, SameSite DEF Sound, Stored, DeviceSound
  <2>8. Sound'
    BY <2>4, <2>6, <2>7 DEF Sound
  <2> QED BY <2>1, <2>2, <2>8, Conclude
<1> QED BY <1>1, <1>2 DEF EncoderLoad

LEMMA TurnStep ==
    ASSUME RegistryInv, NEW c \in Clients, Turn(c), site' = site
    PROVE  RegistryInv'
<1> DEFINE fit == active \in LoadedIds /\ ~Busy
<1>0. /\ task[c].pc = "turn" /\ task[c].pc \notin Unsettled /\ Holds(c, "transition")
      /\ loaded' = loaded /\ active' = active /\ runtime' = runtime /\ device' = device
      /\ weights' = weights /\ encoder' = encoder /\ sent' = sent /\ torn' = torn
      /\ session' = IF fit THEN <<active, loaded[active]>> ELSE session
      /\ \E ok \in BOOLEAN : Answer(c, ok)
  BY DEF Turn, At, Registries, Unsettled
<1>1. /\ Becomes(c, "done", task[c].model, task[c].used, task[c].todo)
      /\ LockTable' /\ HeldLocks' /\ Relies(c)'
  BY <1>0, Answers
<1>2. Spares(c)
  BY <1>0 DEF Spares
<1>3. Sound
  BY DEF RegistryInv
<1>4. ActiveSound' /\ LeftSound'
  BY <1>0, <1>1, <1>3, Settled DEF Sound, Becomes
<1>5. fit => <<active, loaded[active]>> \in Models
  BY <1>3 DEF Sound, Registered, LoadedIds, MaybeFile, Models
<1>6. Registered'
  BY <1>0, <1>3, <1>5 DEF Sound, Registered
<1>7. TurnKeepsModel'
  BY <1>0, <1>3 DEF Sound, TurnKeepsModel, Busy
<1>8. Stored' /\ DeviceSound'
  BY <1>0, <1>3, SameSite DEF Sound, Stored, DeviceSound
<1>9. Sound'
  BY <1>4, <1>6, <1>7, <1>8 DEF Sound
<1> QED BY <1>1, <1>2, <1>9, Conclude

\* A client that hangs up half way through leaves a mark.
LEMMA HangUpStep ==
    ASSUME RegistryInv, NEW c \in Clients, HangUp(c), site' = site
    PROVE  RegistryInv'
<1>0. /\ loaded' = loaded /\ active' = active /\ runtime' = runtime /\ device' = device
      /\ weights' = weights /\ encoder' = encoder /\ sent' = sent /\ session' = session
      /\ torn' = (torn \/ task[c].pc \in HalfWay) /\ Answer(c, FALSE)
  BY DEF HangUp, Registries
<1>1. /\ Becomes(c, "done", task[c].model, task[c].used, task[c].todo)
      /\ LockTable' /\ HeldLocks' /\ Relies(c)'
  BY <1>0, Answers
<1>2. Spares(c)
  BY <1>0 DEF Spares
<1>3. Sound
  BY DEF RegistryInv
<1>4. ActiveSound' /\ LeftSound'
  <2>1. CASE torn'
    BY <2>1 DEF ActiveSound, LeftSound
  <2>2. CASE ~torn'
    <3>1. torn' = torn /\ task[c].pc \notin Unsettled
      BY <1>0, <1>3, <2>2 DEF HalfWay, Unsettled, Sound, Registered
    <3> QED BY <1>0, <1>1, <1>3, <3>1, Settled DEF Sound, Becomes
  <2> QED BY <2>1, <2>2
<1>5. Registered' /\ TurnKeepsModel'
  <2>1. torn' \in BOOLEAN
    BY <1>0
  <2> QED BY <1>0, <1>3, <2>1 DEF Sound, Registered, TurnKeepsModel, Busy
<1>6. Stored' /\ DeviceSound'
  BY <1>0, <1>3, SameSite DEF Sound, Stored, DeviceSound
<1>7. Sound'
  BY <1>4, <1>5, <1>6 DEF Sound
<1> QED BY <1>1, <1>2, <1>7, Conclude

LEMMA TurnEndsStep ==
    ASSUME RegistryInv, TurnEnds, site' = site
    PROVE  RegistryInv'
<1>0. /\ loaded' = loaded /\ active' = active /\ runtime' = runtime /\ device' = device
      /\ weights' = weights /\ encoder' = encoder /\ sent' = sent /\ torn' = torn
      /\ session' = NoModel /\ lock' = lock /\ task' = task
  BY DEF TurnEnds, Registries
<1>1. LockTable' /\ HeldLocks'
  BY <1>0 DEF RegistryInv, LockTable, HeldLocks, Holds
<1>2. ASSUME NEW c \in Clients PROVE Relies(c)'
  <2>1. Relies(c) /\ Id(c)' = Id(c) /\ File(c)' = File(c) /\ Doomed(c)' = Doomed(c)
    BY <1>0 DEF RegistryInv, Id, File, Doomed, Target
  <2>2. Placed(c)' /\ Undisturbed(c)' /\ OnLoaded(c)'
    BY <1>0, <2>1 DEF Relies, Placed, Undisturbed, OnLoaded, Busy
  <2>3. OnModel(c)' /\ Freeing(c)'
    BY <1>0, <2>1, SameSite DEF Relies, OnModel, Freeing
  <2>4. Runs(c)'
    BY <1>0, <2>1, SameSite DEF Relies, Runs
  <2> QED BY <2>2, <2>3, <2>4 DEF Relies
<1>3. Sound
  BY DEF RegistryInv
<1>4. ActiveSound' /\ LeftSound'
  <2>1. \A c : Id(c)' = Id(c) /\ Doomed(c)' = Doomed(c)
    BY <1>0 DEF Id, Doomed, Target
  <2>2. Moving' = Moving /\ Dropping' = Dropping /\ Coming' = Coming /\ LoadedIds' = LoadedIds
    BY <1>0 DEF Moving, Dropping, Coming, LoadedIds
  <2> QED BY <1>0, <1>3, <2>1, <2>2 DEF Sound, ActiveSound, LeftSound
<1>5. Registered' /\ TurnKeepsModel'
  BY <1>0, <1>3 DEF Sound, Registered, TurnKeepsModel, Busy
<1>6. Stored' /\ DeviceSound'
  BY <1>0, <1>3, SameSite DEF Sound, Stored, DeviceSound
<1>7. Sound'
  BY <1>4, <1>5, <1>6 DEF Sound
<1>8. task' \in [Clients -> Tasks'] /\ site' \in Sites
  BY <1>0, SameSite DEF RegistryInv
<1> QED BY <1>1, <1>2, <1>7, <1>8 DEF RegistryInv

\* A request comes.
LEMMA BeginStep ==
    ASSUME RegistryInv, NEW c \in Clients, NEW req \in site.requests, Begin(c, req), site' = site
    PROVE  RegistryInv'
<1> DEFINE refused == req.op = "unload" /\ Busy
           first == First(c, req)
           m == IF req.op = "load" THEN <<req.id, req.file>> ELSE NoModel
           new == [pc |-> IF refused THEN "done" ELSE first.pc, req |-> req, ok |-> FALSE,
                   model |-> m, used |-> NoFile, todo |-> {}]
<1>0. /\ task[c].pc = "done" /\ task[c].pc \notin Unsettled /\ sent < MaxRequests
      /\ sent' = sent + 1
      /\ task' = [task EXCEPT ![c] = new]
      /\ lock' = After(c, {}, IF refused THEN {} ELSE first.asks)
      /\ loaded' = loaded /\ active' = active /\ runtime' = runtime /\ device' = device
      /\ weights' = weights /\ encoder' = encoder /\ session' = session /\ torn' = torn
  BY DEF Begin, At, Registries, Unsettled
<1>1. \/ req.op = "load" /\ req.id \in Ids /\ req.file \in Files
      \/ req.op \in {"unload", "chat"} /\ req.id \in Ids \cup {NoId}
      \/ req.op = "embed" /\ req.id \in Ids
      \/ req.op \in {"show", "turn"}
  BY RegistryAssumption DEF RegistryInv
<1>2. \/ req.op = "load" /\ first = [pc |-> "resident", asks |-> {Read("loaded")}]
      \/ req.op = "unload" /\ first = [pc |-> "unload", asks |-> {Write("transition")}]
      \/ req.op = "chat" /\ first = [pc |-> "pick", asks |-> {Read("loaded")}]
      \/ req.op = "embed" /\ first = [pc |-> "look", asks |-> {}]
      \/ req.op = "show" /\ first = [pc |-> "show", asks |-> {Read("active")}]
      \/ req.op = "turn" /\ first = [pc |-> "turn", asks |-> {Write("transition")}]
  BY <1>1 DEF First
<1> HIDE DEF refused, first
<1>3. new.pc \in {"done", "resident", "unload", "pick", "look", "show", "turn"}
  BY <1>2
<1>4. /\ m \in (Ids \cup {NoId}) \X MaybeFile
      /\ req.op = "load" => m \in Models /\ m[1] = req.id /\ m[2] = req.file
                            /\ m[2] \in FilesOf(m[1])
  BY <1>1 DEF NoModel, MaybeFile, Models, FilesOf
<1> HIDE DEF m
<1>5. new \in Tasks
  BY <1>3, <1>4 DEF Tasks, Places, MaybeFile
<1>6. /\ task'[c] = new /\ \A d \in Clients \ {c} : task'[d] = task[d]
      /\ task' \in [Clients -> Tasks]
  BY <1>0, <1>5 DEF RegistryInv
<1>7. LockTable' /\ HeldLocks'
  <2>0. LockTable /\ HeldLocks
    BY DEF RegistryInv
  <2>1. \A l \in LockNames : ~Kept(l, new.pc)
    BY <1>3 DEF Kept, Transit, Release, Loading
  <2>2. \A l \in LockNames : ~Shared(l, "done") /\ ~Sole(l, "done")
    BY DEF Shared, Sole, Transit, Release, Loading
  <2>3. ASSUME lock' = After(c, {}, {}) PROVE LockTable' /\ HeldLocks'
    <3>1. Moves(c, new.pc, {}, {})
      BY <1>6, <2>3 DEF Moves
    <3>2. Fits(task[c].pc, new.pc, {})
      BY <1>0, <2>2 DEF Fits
    <3> HIDE DEF new
    <3> QED BY <2>0, <2>1, <3>1, <3>2, Drops
  <2>4. ASSUME NEW x \in LockNames, NEW mode \in {"r", "w"},
               lock' = After(c, {}, {[lock |-> x, mode |-> mode]}),
               IF mode = "r" THEN Shared(x, new.pc) ELSE Sole(x, new.pc)
        PROVE  LockTable' /\ HeldLocks'
    <3>1. Moves(c, new.pc, {}, {[lock |-> x, mode |-> mode]})
      BY <1>6, <2>4 DEF Moves
    <3>2. Fits(task[c].pc, new.pc, {} \cup {x})
          /\ ~(Shared(x, task[c].pc) \/ Sole(x, task[c].pc))
      BY <1>0, <2>2 DEF Fits
    <3> HIDE DEF new
    <3> QED BY <2>0, <2>1, <2>4, <3>1, <3>2, Asks
  <2>5. \/ lock' = After(c, {}, {})
        \/ \E x \in LockNames, mode \in {"r", "w"} :
              /\ lock' = After(c, {}, {[lock |-> x, mode |-> mode]})
              /\ IF mode = "r" THEN Shared(x, new.pc) ELSE Sole(x, new.pc)
    <3>1. CASE refused
      BY <1>0, <3>1
    <3>2. CASE ~refused
      <4>1. lock' = After(c, {}, first.asks) /\ new.pc = first.pc
        BY <1>0, <3>2
      <4>2. /\ Read("loaded") = [lock |-> "loaded", mode |-> "r"]
            /\ Read("active") = [lock |-> "active", mode |-> "r"]
            /\ Write("transition") = [lock |-> "transition", mode |-> "w"]
        BY DEF Read, Write
      <4>3. /\ Shared("loaded", "resident") /\ Shared("loaded", "pick") /\ Shared("active", "show")
            /\ Sole("transition", "unload") /\ Sole("transition", "turn")
        BY DEF Shared, Sole
      <4> HIDE DEF new
      <4>4. CASE req.op = "embed" /\ first = [pc |-> "look", asks |-> {}]
        BY <4>1, <4>4
      <4>5. CASE \/ first = [pc |-> "resident", asks |-> {Read("loaded")}]
                 \/ first = [pc |-> "pick", asks |-> {Read("loaded")}]
        <5>1. /\ lock' = After(c, {}, {[lock |-> "loaded", mode |-> "r"]})
              /\ Shared("loaded", new.pc)
          BY <4>1, <4>2, <4>3, <4>5
        <5> QED BY <5>1, Names
      <4>6. CASE first = [pc |-> "show", asks |-> {Read("active")}]
        <5>1. /\ lock' = After(c, {}, {[lock |-> "active", mode |-> "r"]})
              /\ Shared("active", new.pc)
          BY <4>1, <4>2, <4>3, <4>6
        <5> QED BY <5>1, Names
      <4>7. CASE \/ first = [pc |-> "unload", asks |-> {Write("transition")}]
                 \/ first = [pc |-> "turn", asks |-> {Write("transition")}]
        <5>1. /\ lock' = After(c, {}, {[lock |-> "transition", mode |-> "w"]})
              /\ Sole("transition", new.pc)
          BY <4>1, <4>2, <4>3, <4>7
        <5> QED BY <5>1, Names
      <4> QED BY <1>2, <4>4, <4>5, <4>6, <4>7
    <3> QED BY <3>1, <3>2
  <2> QED BY <2>3, <2>4, <2>5
<1>8. Spares(c)
  BY <1>0 DEF Spares
<1>9. \A d \in Clients \ {c} : Relies(d)'
  BY <1>6, <1>8, OthersRely
<1>10. Relies(c)'
  <2>1. /\ task'[c].pc \in {"done", "resident", "unload", "pick", "look", "show", "turn"}
        /\ task'[c].req = req /\ task'[c].model = m
    BY <1>3, <1>6
  <2>2. task'[c].pc = "done" \/ task'[c].pc \in PlacesOf(req.op)
    <3>1. task'[c].pc = "done" \/ task'[c].pc = first.pc
      BY <1>6
    <3>2. \/ req.op = "load" /\ first.pc = "resident"
          \/ req.op = "unload" /\ first.pc = "unload"
          \/ req.op = "chat" /\ first.pc = "pick"
          \/ req.op = "embed" /\ first.pc = "look"
          \/ req.op = "show" /\ first.pc = "show"
          \/ req.op = "turn" /\ first.pc = "turn"
      BY <1>2
    <3>3. first.pc \in PlacesOf(req.op)
      BY <3>2 DEF PlacesOf
    <3> QED BY <3>1, <3>3
  <2>3. Placed(c)'
    BY <2>1, <2>2 DEF Placed, Release, m
  <2>4. task'[c].pc = "resident" => req.op = "load"
    BY <1>2, <1>6
  <2>5. OnModel(c)'
    BY <1>4, <2>1, <2>4, SameSite DEF OnModel, Modelled, Loading, Id, File
  <2>6. Undisturbed(c)' /\ OnLoaded(c)' /\ Freeing(c)' /\ Runs(c)'
    BY <2>1 DEF Undisturbed, OnLoaded, Freeing, Runs, Freed, Transit, Release, Loading
  <2> QED BY <2>3, <2>5, <2>6 DEF Relies
<1>11. Sound
  BY DEF RegistryInv
<1>12. ActiveSound' /\ LeftSound'
  BY <1>0, <1>6, <1>11, Settled DEF Sound
<1>13. sent' \in 0 .. MaxRequests
  BY <1>0, <1>11, RegistryAssumption DEF Sound, Registered
<1>14. Registered' /\ TurnKeepsModel'
  BY <1>0, <1>11, <1>13 DEF Sound, Registered, TurnKeepsModel, Busy
<1>15. Stored' /\ DeviceSound'
  BY <1>0, <1>11, SameSite DEF Sound, Stored, DeviceSound
<1>16. Sound'
  BY <1>12, <1>14, <1>15 DEF Sound
<1>17. task' \in [Clients -> Tasks'] /\ site' \in Sites
  BY <1>6, SameSite DEF RegistryInv
<1> QED BY <1>7, <1>9, <1>10, <1>16, <1>17 DEF RegistryInv

(***************************************************************************)
(* The invariant, and what it gives.                                       *)
(***************************************************************************)

LEMMA RegistryInit == Init => RegistryInv
<1> SUFFICES ASSUME Init PROVE RegistryInv
  OBVIOUS
<1>0. /\ site \in Sites /\ loaded = site.startup
      /\ site.startup \in [Ids -> MaybeFile] /\ NoId \notin Ids /\ NoFile \notin Files
      /\ MaxRequests \in Nat
  BY RegistryAssumption DEF Init, MaybeFile
<1>1. /\ task \in [Clients -> Tasks]
      /\ \A c \in Clients : task[c].pc = "done" /\ task[c].req.op = "none"
  BY DEF Init, Tasks, Places, NoModel, MaybeFile
<1>2. LockTable
  <2>1. << >> \in Seq(Entries) /\ DOMAIN << >> = {}
    OBVIOUS
  <2> QED BY <2>1 DEF Init, LockTable
<1>3. HeldLocks
  BY <1>1 DEF HeldLocks, Kept, Transit, Release, Loading
<1>4. ASSUME NEW c \in Clients PROVE Relies(c)
  <2>1. task[c].pc = "done" /\ task[c].req.op = "none"
    BY <1>1
  <2>2. Placed(c)
    BY <2>1 DEF Placed, Release
  <2>3. OnModel(c) /\ Undisturbed(c) /\ OnLoaded(c) /\ Freeing(c) /\ Runs(c)
    BY <2>1 DEF OnModel, Undisturbed, OnLoaded, Freeing, Runs, Modelled, Freed, Transit, Release,
                Loading
  <2> QED BY <2>2, <2>3 DEF Relies
<1>5. Registered
  <2>1. loaded \in [Ids -> MaybeFile] /\ active \in Ids \cup {NoId}
    BY <1>0 DEF Init, LoadedIds
  <2>2. /\ weights \in [Ids -> MaybeFile] /\ encoder \in [Ids -> MaybeFile]
        /\ runtime \in [Ids -> MaybeFile]
    BY <1>0 DEF Init, MaybeFile
  <2>3. device \subseteq Models /\ session \in Models \cup {NoModel}
    BY DEF Init
  <2>4. sent \in 0 .. MaxRequests
    BY <1>0 DEF Init
  <2>5. torn \in BOOLEAN
    BY DEF Init
  <2> QED BY <2>1, <2>2, <2>3, <2>4, <2>5 DEF Registered
<1>6. Stored
  BY <1>0 DEF Init, Stored, FilesOf
<1>7. ActiveSound /\ LeftSound
  BY DEF Init, ActiveSound, LeftSound
<1>8. DeviceSound /\ TurnKeepsModel
  BY DEF Init, DeviceSound, TurnKeepsModel, Busy
<1>9. Sound
  BY <1>5, <1>6, <1>7, <1>8 DEF Sound
<1> QED BY <1>0, <1>1, <1>2, <1>3, <1>4, <1>9 DEF RegistryInv

\* A step of the handler of c, one case for each action.
LEMMA HandlerStep ==
    ASSUME RegistryInv, NEW c \in Clients, Step(c), site' = site
    PROVE  RegistryInv'
<1>1. CASE \/ ReleaseResident(c) \/ DropRecord(c) \/ DropRest(c) \/ Deactivate(c)
           \/ NextActive(c) \/ Trim(c)
  BY <1>1, ReleaseResidentStep, DropRecordStep, DropRestStep, DeactivateStep, NextActiveStep,
     TrimStep
<1>2. CASE \/ Unload(c) \/ PickTarget(c) \/ Exclusive(c)
           \/ Resident(c) \/ Survey(c) \/ Replace(c) \/ Fit(c) \/ Enter(c)
  BY <1>2, UnloadStep, PickTargetStep, ExclusiveStep, ResidentStep, SurveyStep, ReplaceStep,
     FitStep, EnterStep
<1>3. CASE \/ LeaseLoad(c) \/ Fast(c) \/ Heal(c) \/ Reactivate(c) \/ Build(c)
           \/ Publish(c) \/ Activate(c) \/ Clear(c) \/ Serve(c)
  BY <1>3, LeaseLoadStep, FastStep, HealStep, ReactivateStep, BuildStep, PublishStep,
     ActivateStep, ClearStep, ServeStep
<1>4. CASE \/ Pick(c) \/ PickActive(c) \/ Use(c) \/ Lease(c)
           \/ Verify(c) \/ Weights(c) \/ Decode(c)
  BY <1>4, PickStep, PickActiveStep, UseStep, LeaseStep, VerifyStep, WeightsStep, DecodeStep
<1>5. CASE \/ Look(c) \/ LookAgain(c) \/ EncoderModel(c) \/ EncoderLoad(c)
           \/ Show(c) \/ ShowLoaded(c) \/ GiveUp(c) \/ Turn(c)
  BY <1>5, LookStep, LookAgainStep, EncoderModelStep, EncoderLoadStep, ShowStep, ShowsStep,
     TurnStep
<1> QED BY <1>1, <1>2, <1>3, <1>4, <1>5 DEF Step

LEMMA SiteClients ==
    ASSUME RegistryInv
    PROVE  site.clients \subseteq Clients
BY RegistryAssumption DEF RegistryInv

LEMMA RegistryNext == RegistryInv /\ [Next]_vars => RegistryInv'
<1> SUFFICES ASSUME RegistryInv, [Next]_vars PROVE RegistryInv'
  OBVIOUS
<1>1. ASSUME NEW c \in site.clients, Step(c), site' = site PROVE RegistryInv'
  BY <1>1, HandlerStep, SiteClients
<1>2. ASSUME NEW c \in site.clients, HangUp(c), site' = site PROVE RegistryInv'
  BY <1>2, HangUpStep, SiteClients
<1>3. ASSUME NEW c \in site.clients, NEW req \in site.requests, Begin(c, req), site' = site
      PROVE  RegistryInv'
  BY <1>3, BeginStep, SiteClients
<1>4. ASSUME TurnEnds, site' = site PROVE RegistryInv'
  BY <1>4, TurnEndsStep
<1>5. CASE UNCHANGED vars
  <2>0. /\ site' = site /\ loaded' = loaded /\ active' = active /\ runtime' = runtime
        /\ device' = device /\ weights' = weights /\ encoder' = encoder /\ sent' = sent
        /\ torn' = torn /\ session' = session /\ lock' = lock /\ task' = task
    BY <1>5 DEF vars
  <2>1. LockTable' /\ HeldLocks'
    BY <2>0 DEF RegistryInv, LockTable, HeldLocks, Holds
  <2>2. ASSUME NEW c \in Clients PROVE Relies(c)'
    <3>1. Relies(c) /\ Id(c)' = Id(c) /\ File(c)' = File(c) /\ Doomed(c)' = Doomed(c)
      BY <2>0 DEF RegistryInv, Id, File, Doomed, Target
    <3>2. Placed(c)' /\ Undisturbed(c)' /\ OnLoaded(c)'
      BY <2>0, <3>1 DEF Relies, Placed, Undisturbed, OnLoaded, Busy
    <3>3. OnModel(c)' /\ Freeing(c)'
      BY <2>0, <3>1, SameSite DEF Relies, OnModel, Freeing
    <3>4. Runs(c)'
      BY <2>0, <3>1, SameSite DEF Relies, Runs
    <3> QED BY <3>2, <3>3, <3>4 DEF Relies
  <2>3. ActiveSound' /\ LeftSound'
    <3>1. \A c : Id(c)' = Id(c) /\ Doomed(c)' = Doomed(c)
      BY <2>0 DEF Id, Doomed, Target
    <3>2. Moving' = Moving /\ Dropping' = Dropping /\ Coming' = Coming /\ LoadedIds' = LoadedIds
      BY <2>0 DEF Moving, Dropping, Coming, LoadedIds
    <3> QED BY <2>0, <3>1, <3>2 DEF RegistryInv, Sound, ActiveSound, LeftSound
  <2>4. Registered' /\ TurnKeepsModel'
    BY <2>0 DEF RegistryInv, Sound, Registered, TurnKeepsModel, Busy
  <2>5. Stored' /\ DeviceSound'
    BY <2>0, SameSite DEF RegistryInv, Sound, Stored, DeviceSound
  <2>6. task' \in [Clients -> Tasks'] /\ site' \in Sites
    BY <2>0, SameSite DEF RegistryInv
  <2> QED BY <2>1, <2>2, <2>3, <2>4, <2>5, <2>6 DEF RegistryInv, Sound
<1> QED BY <1>1, <1>2, <1>3, <1>4, <1>5 DEF Next

\* The inductive invariant: who holds which lock where in its code, what each
\* handler relies on there, and what the registries keep whoever is at work.
THEOREM RegistryInvariant == Spec => []RegistryInv
BY RegistryInit, RegistryNext, PTL DEF Spec

LEMMA InvType == RegistryInv => TypeOK
<1> SUFFICES ASSUME RegistryInv PROVE TypeOK
  OBVIOUS
<1>1. Registered
  BY DEF RegistryInv, Sound
<1>2. ASSUME NEW c \in Clients
      PROVE  /\ task[c].pc \in Places /\ task[c].req \in site.requests \cup {[op |-> "none"]}
             /\ task[c].model \in (Ids \cup {NoId}) \X MaybeFile
             /\ task[c].used \in MaybeFile /\ task[c].todo \subseteq Ids \cup {NoId}
  <2>1. task[c] \in Tasks
    BY DEF RegistryInv
  <2> QED BY <2>1 DEF Tasks
<1>3. ASSUME NEW l \in LockNames
      PROVE  /\ \A i \in 1 .. Len(lock[l]) : lock[l][i] \in [who : Clients, mode : {"r", "w"}]
             /\ \A i, j \in 1 .. Len(lock[l]) : lock[l][i].who = lock[l][j].who => i = j
  <2>1. lock[l] \in Seq(Entries)
        /\ \A i, j \in DOMAIN lock[l] : lock[l][i].who = lock[l][j].who => i = j
    BY DEF RegistryInv, LockTable
  <2>2. DOMAIN lock[l] = 1 .. Len(lock[l]) /\ \A i \in 1 .. Len(lock[l]) : lock[l][i] \in Entries
    BY <2>1, LenProperties, ElementOfSeq
  <2> QED BY <2>1, <2>2 DEF Entries
<1> QED BY <1>1, <1>2, <1>3 DEF TypeOK, Registered

\* Between transitions no release and no load is half done.
LEMMA QuietAlone ==
    ASSUME RegistryInv, lock["transition"] = << >>
    PROVE  \A c \in Clients : task[c].pc \notin Transit
<1>1. \A c : ~Holds(c, "transition")
  BY DEF Holds
<1> QED BY <1>1, Names DEF RegistryInv, HeldLocks, Kept

LEMMA InvAgree == RegistryInv => RegistriesAgree
<1> SUFFICES ASSUME RegistryInv PROVE ActiveIsLoaded /\ NothingLeftOfUnloaded
  BY InvType DEF RegistriesAgree
<1> SUFFICES ASSUME Quiet
             PROVE  /\ active \in LoadedIds \cup {NoId}
                    /\ \A i \in Ids : loaded[i] = NoFile =>
                          weights[i] = NoFile /\ runtime[i] = NoFile
  BY DEF ActiveIsLoaded, NothingLeftOfUnloaded
<1>1. \A d \in Moving \cup Dropping \cup Coming : FALSE
  BY QuietAlone DEF Quiet, Moving, Dropping, Coming, Transit, Release, Loading
<1> QED BY <1>1 DEF Quiet, RegistryInv, Sound, ActiveSound, LeftSound

\* Whenever no transition is under way the active id names a loaded model and
\* nothing is kept for an unloaded one, however loads, replacements, unloads and
\* generations interleave.
THEOREM RegistriesCorrect == Spec => []RegistriesAgree
BY RegistryInvariant, InvAgree, PTL

LEMMA InvInUse == RegistryInv => InUseStays
<1> SUFFICES ASSUME RegistryInv PROVE DecodingIsLoaded
  BY DEF InUseStays, RegistryInv, Sound
<1> SUFFICES ASSUME NEW c \in Clients, task[c].pc = "decode" PROVE Id(c) \in LoadedIds
  BY DEF DecodingIsLoaded, Decoding, At, Id
<1>1. Id(c) \in Ids
  BY WorksOnModel DEF Modelled
<1> QED BY <1>1 DEF RegistryInv, Relies, OnLoaded, LoadedIds

\* No transition takes a model from a decode or from a Workspace turn.
THEOREM InUseCorrect == Spec => []InUseStays
BY RegistryInvariant, InvInUse, PTL

(***************************************************************************)
(* What a successful answer says.                                          *)
(***************************************************************************)

LEMMA GotoEffect ==
    ASSUME RegistryInv, NEW c \in Clients, NEW q, NEW drops, NEW asks, Goto(c, q, drops, asks)
    PROVE  task'[c].pc = q /\ \A d \in Clients \ {c} : task'[d] = task[d]
<1>1. task \in [Clients -> Tasks] /\ task[c] \in Tasks
  BY DEF RegistryInv
<1> QED BY <1>1 DEF Goto, Tasks

LEMMA WithEffect ==
    ASSUME RegistryInv, NEW c \in Clients, NEW q, NEW m, NEW drops, NEW asks,
           With(c, q, m, drops, asks)
    PROVE  task'[c].pc = q /\ \A d \in Clients \ {c} : task'[d] = task[d]
<1>1. task \in [Clients -> Tasks] /\ task[c] \in Tasks
  BY DEF RegistryInv
<1> QED BY <1>1 DEF With, Tasks

LEMMA AnswerEffect ==
    ASSUME RegistryInv, NEW c \in Clients, NEW ok, Answer(c, ok)
    PROVE  /\ task'[c].pc = "done" /\ task'[c].ok = ok
           /\ \A d \in Clients \ {c} : task'[d] = task[d]
<1>1. task \in [Clients -> Tasks] /\ task[c] \in Tasks
  BY DEF RegistryInv
<1> QED BY <1>1 DEF Answer, Tasks

LEMMA ReleaseEffect ==
    ASSUME RegistryInv, NEW c \in Clients, NEW drops, NEW t, EnterRelease(c, drops, t)
    PROVE  task'[c].pc # "done" /\ \A d \in Clients \ {c} : task'[d] = task[d]
<1>1. task \in [Clients -> Tasks] /\ task[c] \in Tasks
  BY DEF RegistryInv
<1> QED BY <1>1 DEF EnterRelease, Tasks

LEMMA ToFitEffect ==
    ASSUME RegistryInv, NEW c \in Clients, NEW drops, ToFit(c, drops)
    PROVE  task'[c].pc # "done" /\ \A d \in Clients \ {c} : task'[d] = task[d]
<1>1. CASE Goto(c, "enter", drops, {Write("transition")})
  BY <1>1, GotoEffect
<1>2. CASE Goto(c, "fit", drops, {Read("lifecycle")})
  BY <1>2, GotoEffect
<1> QED BY <1>1, <1>2 DEF ToFit

LEMMA LoadDoneEffect ==
    ASSUME RegistryInv, NEW c \in Clients, LoadDone(c)
    PROVE  \A d \in Clients \ {c} : task'[d] = task[d]
BY GotoEffect, AnswerEffect DEF LoadDone

LEMMA PublishedEffect ==
    ASSUME RegistryInv, NEW c \in Clients, NEW drops, AfterPublish(c, drops)
    PROVE  /\ \A d \in Clients \ {c} : task'[d] = task[d]
           /\ site.kind[File(c)] = "gemma4" => task'[c].pc # "done"
<1>1. CASE site.kind[File(c)] = "gemma4" /\ Goto(c, "clear", drops, {})
  BY <1>1, GotoEffect
<1>2. CASE site.kind[File(c)] = "dg" /\ Goto(c, "serve", drops, {})
  BY <1>2, GotoEffect
<1>3. CASE site.kind[File(c)] \notin {"gemma4", "dg"} /\ LoadDone(c)
  BY <1>3, LoadDoneEffect
<1> QED BY <1>1, <1>2, <1>3 DEF AfterPublish

LEMMA ChosenEffect ==
    ASSUME RegistryInv, NEW c \in Clients, NEW t, NEW drops, Chosen(c, t, drops)
    PROVE  /\ \A d \in Clients \ {c} : task'[d] = task[d]
           /\ task'[c].pc = "done" => task'[c].ok = FALSE
<1>1. CASE Answer(c, FALSE)
  BY <1>1, AnswerEffect
<1>2. CASE With(c, "use", <<t, loaded[t]>>, drops, {Write("active")})
  BY <1>2, WithEffect
<1>3. CASE With(c, "enter", <<t, site.disk[t]>>, {"loaded"} \cup drops, {Write("transition")})
  BY <1>3, WithEffect
<1> QED BY <1>1, <1>2, <1>3 DEF Chosen

\* A step of c is a step of no other, and these are the places where it can
\* answer with success.
Succeeding == {"trim", "fast", "heal", "reactivate", "publish", "activate", "serve", "decode",
               "look", "look again", "encoder load", "show", "show loaded", "turn"}
Owned(c) ==
    /\ \A d \in Clients \ {c} : task'[d] = task[d]
    /\ task'[c].pc = "done" /\ task'[c].ok = TRUE => task[c].pc \in Succeeding

LEMMA OnlyGoes ==
    ASSUME RegistryInv, NEW c \in Clients, NEW q, q # "done", NEW drops, NEW asks,
           Goto(c, q, drops, asks)
    PROVE  Owned(c)
BY GotoEffect DEF Owned

LEMMA OnlyFails ==
    ASSUME RegistryInv, NEW c \in Clients, Answer(c, FALSE)
    PROVE  Owned(c)
BY AnswerEffect DEF Owned

LEMMA MaySucceed ==
    ASSUME RegistryInv, NEW c \in Clients, NEW ok, Answer(c, ok), task[c].pc \in Succeeding
    PROVE  Owned(c)
BY AnswerEffect DEF Owned

LEMMA Owning ==
    ASSUME RegistryInv, NEW c \in Clients, Step(c)
    PROVE  Owned(c)
<1>0. task \in [Clients -> Tasks] /\ task[c] \in Tasks
  BY DEF RegistryInv
<1>1. CASE ReleaseResident(c)
  <2>1. CASE Answer(c, FALSE)
    BY <2>1, OnlyFails
  <2>2. CASE Goto(c, "drop", {"loaded"}, {Write("loaded")})
    BY <2>2, OnlyGoes
  <2> QED BY <1>1, <2>1, <2>2 DEF ReleaseResident
<1>2. CASE DropRecord(c)
  <2>1. CASE Goto(c, "drop rest", {"loaded"}, {})
    BY <2>1, OnlyGoes
  <2> QED BY <1>2, <2>1 DEF DropRecord
<1>3. CASE DropRest(c)
  <2>1. CASE Goto(c, "deactivate", {}, {Write("active")})
    BY <2>1, OnlyGoes
  <2> QED BY <1>3, <2>1 DEF DropRest
<1>4. CASE Deactivate(c)
  <2>1. CASE Goto(c, "next active", {}, {Read("loaded")})
    BY <2>1, OnlyGoes
  <2>2. CASE Goto(c, "trim", {"active"}, {})
    BY <2>2, OnlyGoes
  <2> QED BY <1>4, <2>1, <2>2 DEF Deactivate
<1>5. CASE NextActive(c)
  <2>1. CASE Goto(c, "trim", {"active", "loaded"}, {})
    BY <2>1, OnlyGoes
  <2> QED BY <1>5, <2>1 DEF NextActive
<1>6. CASE Unload(c)
  <2>1. CASE Answer(c, FALSE)
    BY <2>1, OnlyFails
  <2>2. CASE Goto(c, "target", {}, IF task[c].req.id = NoId THEN {Read("active")} ELSE {})
    BY <2>2, OnlyGoes
  <2> QED BY <1>6, <2>1, <2>2 DEF Unload
<1>7. CASE Replace(c)
  <2>1. CASE Answer(c, FALSE)
    BY <2>1, OnlyFails
  <2>2. CASE Goto(c, "exclusive", {}, {Write("lifecycle")})
    BY <2>2, OnlyGoes
  <2> QED BY <1>7, <2>1, <2>2 DEF Replace
<1>8. CASE Fit(c)
  <2>1. CASE Answer(c, FALSE)
    BY <2>1, OnlyFails
  <2>2. CASE Goto(c, "enter", {"lifecycle"}, {Write("transition")})
    BY <2>2, OnlyGoes
  <2> QED BY <1>8, <2>1, <2>2 DEF Fit
<1>9. CASE Enter(c)
  <2>1. CASE Answer(c, FALSE)
    BY <2>1, OnlyFails
  <2>2. CASE Goto(c, "lease load", {}, {Read("lifecycle")})
    BY <2>2, OnlyGoes
  <2> QED BY <1>9, <2>1, <2>2 DEF Enter
<1>10. CASE LeaseLoad(c)
  <2>1. CASE Goto(c, "fast", {}, {Read("loaded")})
    BY <2>1, OnlyGoes
  <2> QED BY <1>10, <2>1 DEF LeaseLoad
<1>11. CASE Build(c)
  <2>1. CASE Answer(c, FALSE)
    BY <2>1, OnlyFails
  <2>2. CASE Goto(c, "publish", {}, {Write("loaded")})
    BY <2>2, OnlyGoes
  <2> QED BY <1>11, <2>1, <2>2 DEF Build
<1>12. CASE Clear(c)
  <2>1. CASE Goto(c, "serve", {}, {})
    BY <2>1, OnlyGoes
  <2> QED BY <1>12, <2>1 DEF Clear
<1>13. CASE Use(c)
  <2>1. CASE Goto(c, "lease", {"active", "loaded"}, {Read("lifecycle")})
    BY <2>1, OnlyGoes
  <2> QED BY <1>13, <2>1 DEF Use
<1>14. CASE Lease(c)
  <2>1. CASE Goto(c, "verify", {}, {Read("loaded")})
    BY <2>1, OnlyGoes
  <2> QED BY <1>14, <2>1 DEF Lease
<1>15. CASE Verify(c)
  <2>1. CASE Answer(c, FALSE)
    BY <2>1, OnlyFails
  <2>2. CASE Goto(c, "weights", {"loaded"}, {})
    BY <2>2, OnlyGoes
  <2> QED BY <1>15, <2>1, <2>2 DEF Verify
<1>16. CASE Decode(c)
  <2>0. task[c].pc \in Succeeding
    BY <1>16 DEF Decode, At, Succeeding
  <2>1. CASE Answer(c, FALSE)
    BY <2>1, OnlyFails
  <2>2. CASE Answer(c, TRUE)
    BY <2>0, <2>2, MaySucceed
  <2> QED BY <1>16, <2>1, <2>2 DEF Decode
<1>17. CASE Look(c)
  <2>0. task[c].pc \in Succeeding
    BY <1>17 DEF Look, At, Succeeding
  <2>1. CASE Answer(c, TRUE)
    BY <2>0, <2>1, MaySucceed
  <2>2. CASE Goto(c, "look again", {}, {Write("encoderLoad")})
    BY <2>2, OnlyGoes
  <2> QED BY <1>17, <2>1, <2>2 DEF Look
<1>18. CASE LookAgain(c)
  <2>0. task[c].pc \in Succeeding
    BY <1>18 DEF LookAgain, At, Succeeding
  <2>1. CASE Answer(c, TRUE)
    BY <2>0, <2>1, MaySucceed
  <2>2. CASE Goto(c, "encoder model", {}, {Read("loaded")})
    BY <2>2, OnlyGoes
  <2> QED BY <1>18, <2>1, <2>2 DEF LookAgain
<1>19. CASE EncoderLoad(c)
  <2>0. task[c].pc \in Succeeding
    BY <1>19 DEF EncoderLoad, At, Succeeding
  <2>1. CASE Answer(c, FALSE)
    BY <2>1, OnlyFails
  <2>2. CASE Answer(c, TRUE)
    BY <2>0, <2>2, MaySucceed
  <2> QED BY <1>19, <2>1, <2>2 DEF EncoderLoad
<1>20. CASE Show(c)
  <2>0. task[c].pc \in Succeeding
    BY <1>20 DEF Show, At, Succeeding
  <2>1. CASE Answer(c, TRUE)
    BY <2>0, <2>1, MaySucceed
  <2>2. CASE Goto(c, "show loaded", {}, {Read("loaded")})
    BY <2>2, OnlyGoes
  <2> QED BY <1>20, <2>1, <2>2 DEF Show
<1>21. CASE ShowLoaded(c)
  <2>0. task[c].pc \in Succeeding
    BY <1>21 DEF ShowLoaded, At, Succeeding
  <2>1. CASE Answer(c, TRUE)
    BY <2>0, <2>1, MaySucceed
  <2> QED BY <1>21, <2>1 DEF ShowLoaded
<1>22. CASE EncoderModel(c)
  <2>1. CASE Answer(c, FALSE)
    BY <2>1, OnlyFails
  <2>2. CASE With(c, "encoder load", <<task[c].req.id, loaded[task[c].req.id]>>,
              {"loaded"}, {Read("lifecycle")})
    BY <2>2, WithEffect DEF Owned
  <2> QED BY <1>22, <2>1, <2>2 DEF EncoderModel
<1>23. CASE Trim(c)
  BY <1>23, GotoEffect, AnswerEffect, ReleaseEffect, ToFitEffect DEF Trim, Owned, Succeeding, At
<1>24. CASE Exclusive(c)
  BY <1>24, ReleaseEffect DEF Exclusive, Owned
<1>25. CASE Fast(c)
  BY <1>25, GotoEffect, AnswerEffect, LoadDoneEffect DEF Fast, Owned, Succeeding, At
<1>26. CASE Heal(c)
  BY <1>26, GotoEffect, AnswerEffect, LoadDoneEffect DEF Heal, Owned, Succeeding, At
<1>27. CASE Reactivate(c)
  BY <1>27, GotoEffect, AnswerEffect, LoadDoneEffect DEF Reactivate, Owned, Succeeding, At
<1>28. CASE Serve(c)
  BY <1>28, GotoEffect, AnswerEffect, LoadDoneEffect DEF Serve, Owned, Succeeding, At
<1>29. CASE Publish(c)
  BY <1>29, GotoEffect, AnswerEffect, PublishedEffect DEF Publish, Owned, Succeeding, At
<1>30. CASE Activate(c)
  BY <1>30, GotoEffect, AnswerEffect, PublishedEffect DEF Activate, Owned, Succeeding, At
<1>31. CASE PickActive(c)
  BY <1>31, ChosenEffect DEF PickActive, Owned
<1>32. CASE GiveUp(c)
  BY <1>32, AnswerEffect DEF GiveUp, Owned, Succeeding
<1>33. CASE Resident(c)
  BY <1>33, <1>0 DEF Resident, Owned, Tasks
<1>34. CASE Turn(c)
  BY <1>34, AnswerEffect DEF Turn, Owned, Succeeding, At
<1>35. CASE Pick(c)
  <2>1. CASE Goto(c, "pick active", {}, {Read("active")})
    BY <2>1, OnlyGoes
  <2>2. CASE Chosen(c, task[c].req.id, {})
    BY <2>2, ChosenEffect DEF Owned
  <2> QED BY <1>35, <2>1, <2>2 DEF Pick
<1>36. CASE Weights(c)
  <2>1. CASE Answer(c, FALSE)
    BY <2>1, OnlyFails
  <2>2. CASE \E f : task' = [task EXCEPT ![c].pc = "decode", ![c].used = f]
    BY <1>0, <2>2 DEF Owned, Tasks
  <2> QED BY <1>36, <2>1, <2>2 DEF Weights
<1>37. CASE PickTarget(c)
  <2>1. CASE Answer(c, FALSE)
    BY <2>1, OnlyFails
  <2>2. CASE \E t : task' = [task EXCEPT ![c].pc = "exclusive", ![c].todo = {t}]
    BY <1>0, <2>2 DEF Owned, Tasks
  <2> QED BY <1>37, <2>1, <2>2 DEF PickTarget
<1>38. CASE Survey(c)
  <2>1. CASE Answer(c, FALSE)
    BY <2>1, OnlyFails
  <2>2. CASE \E t : task' = [task EXCEPT ![c].pc = "replace", ![c].todo = t]
    BY <1>0, <2>2 DEF Owned, Tasks
  <2>3. CASE ToFit(c, {"loaded"})
    BY <2>3, ToFitEffect DEF Owned
  <2> QED BY <1>38, <2>1, <2>2, <2>3 DEF Survey
<1> QED BY <1>1, <1>2, <1>3, <1>4, <1>5, <1>6, <1>7, <1>8, <1>9, <1>10, <1>11, <1>12,
     <1>13, <1>14, <1>15, <1>16, <1>17, <1>18, <1>19, <1>20, <1>21, <1>22, <1>23, <1>24,
     <1>25, <1>26, <1>27, <1>28, <1>29, <1>30, <1>31, <1>32, <1>33, <1>34, <1>35, <1>36,
     <1>37, <1>38 DEF Step

\* The action of a handler is told by its place.
LEMMA StepAt ==
    ASSUME NEW c, Step(c)
    PROVE  /\ task[c].pc = "trim" => Trim(c)
           /\ task[c].pc = "fast" => Fast(c)
           /\ task[c].pc = "heal" => Heal(c)
           /\ task[c].pc = "reactivate" => Reactivate(c)
           /\ task[c].pc \in {"publish", "activate"} => Publish(c) \/ Activate(c)
           /\ task[c].pc = "serve" => Serve(c)
<1>1. /\ (ReleaseResident(c) => task[c].pc = "key") /\ (DropRecord(c) => task[c].pc = "drop")
      /\ (DropRest(c) => task[c].pc = "drop rest") /\ (Deactivate(c) => task[c].pc = "deactivate")
      /\ (NextActive(c) => task[c].pc = "next active") /\ (Trim(c) => task[c].pc = "trim")
  BY DEF At, ReleaseResident, DropRecord, DropRest, Deactivate, NextActive, Trim
<1>2. /\ (Unload(c) => task[c].pc = "unload") /\ (PickTarget(c) => task[c].pc = "target")
      /\ (Exclusive(c) => task[c].pc = "exclusive") /\ (Resident(c) => task[c].pc = "resident")
      /\ (Survey(c) => task[c].pc = "survey") /\ (Replace(c) => task[c].pc = "replace")
      /\ (Fit(c) => task[c].pc = "fit") /\ (Enter(c) => task[c].pc = "enter")
  BY DEF At, Unload, PickTarget, Exclusive, Resident, Survey, Replace, Fit, Enter
<1>3. /\ (LeaseLoad(c) => task[c].pc = "lease load") /\ (Fast(c) => task[c].pc = "fast")
      /\ (Heal(c) => task[c].pc = "heal") /\ (Reactivate(c) => task[c].pc = "reactivate")
      /\ (Build(c) => task[c].pc = "build") /\ (Publish(c) => task[c].pc = "publish")
      /\ (Activate(c) => task[c].pc = "activate") /\ (Clear(c) => task[c].pc = "clear")
      /\ (Serve(c) => task[c].pc = "serve")
  BY DEF At, LeaseLoad, Fast, Heal, Reactivate, Build, Publish, Activate, Clear, Serve
<1>4. /\ (Pick(c) => task[c].pc = "pick") /\ (PickActive(c) => task[c].pc = "pick active")
      /\ (Use(c) => task[c].pc = "use") /\ (Lease(c) => task[c].pc = "lease")
      /\ (Verify(c) => task[c].pc = "verify") /\ (Weights(c) => task[c].pc = "weights")
      /\ (Decode(c) => task[c].pc = "decode")
  BY DEF At, Pick, PickActive, Use, Lease, Verify, Weights, Decode
<1>5. /\ (Look(c) => task[c].pc = "look") /\ (LookAgain(c) => task[c].pc = "look again")
      /\ (EncoderModel(c) => task[c].pc = "encoder model")
      /\ (EncoderLoad(c) => task[c].pc = "encoder load")
      /\ (Show(c) => task[c].pc = "show") /\ (ShowLoaded(c) => task[c].pc = "show loaded")
      /\ (Turn(c) => task[c].pc = "turn")
  BY DEF At, Look, LookAgain, EncoderModel, EncoderLoad, Show, ShowLoaded, Turn
<1>6. GiveUp(c) => task[c].pc \in {"show", "show loaded"}
  BY DEF GiveUp
<1> QED BY <1>1, <1>2, <1>3, <1>4, <1>5, <1>6 DEF Step

\* Only the handler's own step answers with success.
Succeeds(c) == ~At(c, "done") /\ task'[c].pc = "done" /\ task'[c].ok

LEMMA Answering ==
    ASSUME RegistryInv, [Next]_vars, NEW c \in Clients, Succeeds(c)
    PROVE  Step(c) /\ site' = site /\ task[c].pc \in Succeeding
<1>0. task[c] \in Tasks
  BY DEF RegistryInv
<1>1. task'[c] # task[c]
  BY <1>0 DEF Succeeds, At
<1>2. CASE \E d \in site.clients : Step(d) /\ site' = site
  <2>1. PICK d \in Clients : Step(d) /\ site' = site
    BY <1>2, SiteClients
  <2>2. Owned(d)
    BY <2>1, Owning
  <2>3. d = c
    BY <1>1, <2>2 DEF Owned
  <2> QED BY <2>1, <2>2, <2>3 DEF Owned, Succeeds
<1>3. ASSUME NEW d \in Clients, HangUp(d) PROVE FALSE
  <2>1. /\ task'[d].ok = FALSE
        /\ \A e \in Clients \ {d} : task'[e] = task[e]
    BY <1>3, AnswerEffect DEF HangUp
  <2> QED BY <1>1, <2>1 DEF Succeeds
<1>4. ASSUME NEW d \in Clients, NEW req, Begin(d, req) PROVE FALSE
  <2>1. \E r : task' = [task EXCEPT ![d] = r]
    BY <1>4 DEF Begin
  <2>2. task \in [Clients -> Tasks]
    BY DEF RegistryInv
  <2>3. c = d
    BY <1>1, <2>1, <2>2
  <2> QED BY <1>4, <2>3 DEF Begin, Succeeds
<1>5. CASE TurnEnds \/ UNCHANGED vars
  BY <1>1, <1>5 DEF TurnEnds, vars
<1> QED BY <1>2, <1>3, <1>4, <1>5, SiteClients DEF Next

\* The runtime a load leaves when it answers.
LEMMA LoadServes ==
    ASSUME RegistryInv, NEW c \in Clients, Step(c), Succeeds(c), task[c].pc \in Succeeding,
           task[c].req.op = "load", OneFile(Id(c)), HasRuntime(File(c))
    PROVE  runtime'[Id(c)] = File(c)
<1>0. /\ task[c].pc # "done" /\ task'[c].pc = "done" /\ task[c] \in Tasks
      /\ task[c].pc \in PlacesOf("load")
  BY Requests DEF Succeeds, At
<1>1. /\ Id(c) \in Ids /\ File(c) \in Files /\ File(c) # NoFile /\ File(c) \in FilesOf(Id(c))
  BY <1>0, LoadModel, RegistryAssumption DEF Models, Id, File
<1>2. Runs(c) /\ OnLoaded(c) /\ Registered /\ Stored
  BY DEF RegistryInv, Relies, Sound
<1>3. runtime \in [Ids -> MaybeFile]
  BY <1>2 DEF Registered
<1>4. task[c].pc \in {"trim", "fast", "heal", "reactivate", "publish", "activate", "serve"}
  BY <1>0 DEF PlacesOf, Release, Loading, Succeeding
<1>5. CASE task[c].pc = "trim"
  <2>1. Trim(c)
    BY <1>5, StepAt
  <2>2. ~Answer(c, FALSE)
    BY AnswerEffect DEF Succeeds
  <2>3. \/ EnterRelease(c, {}, task[c].todo \ {Target(c)})
        \/ ToFit(c, {"transition", "lifecycle"})
    BY <2>1, <2>2 DEF Trim
  <2> QED BY <1>0, <2>3, ReleaseEffect, ToFitEffect
<1>6. CASE task[c].pc = "fast"
  <2>1. Fast(c)
    BY <1>6, StepAt
  <2>2. ~Goto(c, "build", {"loaded"}, {}) /\ ~Goto(c, "heal", {"loaded"}, {})
    <3>1. "build" # "done" /\ "heal" # "done"
      OBVIOUS
    <3> QED BY <1>0, <3>1, GotoEffect
  <2>3. loaded[Id(c)] = File(c) /\ runtime[Id(c)] # NoFile /\ runtime' = runtime
    BY <2>1, <2>2 DEF Fast, HasRuntime, Registries
  <2> QED BY <1>1, <1>2, <2>3 DEF Stored, OneFile
<1>7. CASE task[c].pc = "heal"
  <2>1. Heal(c)
    BY <1>7, StepAt
  <2>2. ~Answer(c, FALSE)
    BY AnswerEffect DEF Succeeds
  <2> QED BY <1>1, <1>3, <2>1, <2>2 DEF Heal
<1>8. CASE task[c].pc = "reactivate"
  <2>1. Reactivate(c)
    BY <1>8, StepAt
  <2> QED BY <1>2, <1>8, <2>1 DEF Reactivate, Runs
<1>9. CASE task[c].pc \in {"publish", "activate"}
  <2>1. Publish(c) \/ Activate(c)
    BY <1>9, StepAt
  <2>2. runtime' = runtime
    BY <2>1 DEF Publish, Activate
  <2>3. ~Goto(c, "activate", {"loaded"}, {Write("active")})
    <3>1. "activate" # "done"
      OBVIOUS
    <3> QED BY <1>0, <3>1, GotoEffect
  <2>4. \E drops : AfterPublish(c, drops)
    BY <2>1, <2>3 DEF Publish, Activate
  <2>5. site.kind[File(c)] # "gemma4"
    BY <1>0, <2>4, PublishedEffect
  <2> QED BY <1>2, <1>9, <2>2, <2>5 DEF HasRuntime, Runs
<1>10. CASE task[c].pc = "serve"
  <2>1. Serve(c)
    BY <1>10, StepAt
  <2>2. ~Answer(c, FALSE)
    BY AnswerEffect DEF Succeeds
  <2> QED BY <1>1, <1>3, <2>1, <2>2 DEF Serve
<1> QED BY <1>4, <1>5, <1>6, <1>7, <1>8, <1>9, <1>10

\* What an unload has taken off the device when it answers.
LEMMA UnloadFrees ==
    ASSUME RegistryInv, NEW c \in Clients, Step(c), Succeeds(c), task[c].pc \in Succeeding,
           task[c].req.op = "unload", NEW m \in device', OneFile(m[1])
    PROVE  m[1] \notin Doomed(c)
<1>1. task[c].pc = "trim"
  BY Requests DEF Succeeds, At, PlacesOf, Release, Succeeding
<1>2. Trim(c)
  BY <1>1, StepAt
<1>3. ~Answer(c, FALSE)
  BY AnswerEffect DEF Succeeds
<1>4. device' = IF site.cuda THEN device ELSE {}
  BY <1>2, <1>3 DEF Trim
<1>5. Freeing(c)
  BY DEF RegistryInv, Relies
<1>6. task[c].pc \in Freed
  BY <1>1 DEF Freed, Release
<1> QED BY <1>4, <1>5, <1>6 DEF Freeing

LoadServable ==
    \A c \in Clients :
        (/\ ~At(c, "done") /\ task'[c].pc = "done" /\ task'[c].ok
         /\ task[c].req.op = "load" /\ OneFile(task[c].req.id)
         /\ site.kind[task[c].req.file] \in {"gemma4", "runnable"})
        => runtime'[task[c].req.id] = task[c].req.file

UnloadFreed ==
    \A c \in Clients :
        (/\ ~At(c, "done") /\ task'[c].pc = "done" /\ task'[c].ok
         /\ task[c].req.op = "unload")
        => \A m \in device' : OneFile(m[1]) => m[1] \notin Doomed(c)

LEMMA LoadNext == RegistryInv /\ [Next]_vars => [LoadServable]_vars
<1> SUFFICES ASSUME RegistryInv, [Next]_vars, NEW c \in Clients, Succeeds(c),
                    task[c].req.op = "load", OneFile(task[c].req.id),
                    HasRuntime(task[c].req.file)
             PROVE  runtime'[task[c].req.id] = task[c].req.file
  BY DEF LoadServable, Succeeds, HasRuntime
<1>1. Step(c) /\ task[c].pc \in Succeeding
  BY Answering
<1>2. Id(c) = task[c].req.id /\ File(c) = task[c].req.file
  BY LoadModel DEF Succeeds, At
<1> QED BY <1>1, <1>2, LoadServes

LEMMA UnloadNext == RegistryInv /\ [Next]_vars => [UnloadFreed]_vars
<1> SUFFICES ASSUME RegistryInv, [Next]_vars, NEW c \in Clients, Succeeds(c),
                    task[c].req.op = "unload", NEW m \in device', OneFile(m[1])
             PROVE  m[1] \notin Doomed(c)
  BY DEF UnloadFreed, Succeeds
<1>1. Step(c) /\ task[c].pc \in Succeeding
  BY Answering
<1> QED BY <1>1, UnloadFrees

\* A load of a model with a runtime of its own answers success only with that
\* runtime in place, on the fast path too, whatever attempts failed or were cut
\* off before it, if only one file is ever loaded under its id.
THEOREM LoadCorrect == Spec => LoadAnswersServable
BY RegistryInvariant, LoadNext, PTL DEF Spec, LoadAnswersServable, LoadServable

\* An unload answers success only when nothing is left on the device of the
\* models it was for, those ids that only one file is ever loaded under.
THEOREM UnloadCorrect == Spec => UnloadAnswersFreed
BY RegistryInvariant, UnloadNext, PTL DEF Spec, UnloadAnswersFreed, UnloadFreed
=============================================================================
