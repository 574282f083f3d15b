------------------------- MODULE EngineWorkerProofs -------------------------
(***************************************************************************)
(* Proofs about EngineWorker, for every set of jobs, number of slots,      *)
(* channel capacity and step budget: where a job is and what is counted,   *)
(* then what a round does to the streams, what /slots shows of them, that  *)
(* the worker implements EngineService, and, in the last part, what        *)
(* slot_snapshot shows of the running task (EngineSlotSnapshot).           *)
(***************************************************************************)
EXTENDS EngineRefinement, EngineSlotSnapshot, SequenceTheorems, FiniteSetTheorems, TLAPS

(***************************************************************************)
(* The sequences of the worker as sets of jobs.                            *)
(***************************************************************************)

\* An element of a sequence of jobs is a job.
LEMMA ElemsType ==
    ASSUME NEW S, NEW s \in Seq(S)
    PROVE  Elems(s) \subseteq S
BY LenProperties, ElementOfSeq DEF Elems

\* The empty sequence holds nothing.
LEMMA ElemsEmpty == Elems(<<>>) = {} /\ Distinct(<<>>)
BY DEF Elems, Distinct

\* push_back of a job that is not there yet.
LEMMA ElemsAppend ==
    ASSUME NEW S, NEW s \in Seq(S), NEW x \in S
    PROVE  /\ Append(s, x) \in Seq(S)
           /\ Elems(Append(s, x)) = Elems(s) \cup {x}
           /\ Distinct(s) /\ x \notin Elems(s) => Distinct(Append(s, x))
<1> DEFINE t == Append(s, x)
<1>1. /\ t \in Seq(S)
      /\ Len(t) = Len(s) + 1
      /\ \A i \in 1 .. Len(s) : t[i] = s[i]
      /\ t[Len(s) + 1] = x
  BY AppendProperties
<1>2. DOMAIN s = 1 .. Len(s) /\ DOMAIN t = 1 .. Len(s) + 1 /\ Len(s) \in Nat
  BY <1>1, LenProperties
<1> HIDE DEF t
<1>3. Elems(t) = Elems(s) \cup {x}
  <2>1. Elems(t) \subseteq Elems(s) \cup {x}
    BY <1>1, <1>2 DEF Elems
  <2>2. Elems(s) \subseteq Elems(t)
    BY <1>1, <1>2 DEF Elems
  <2>3. x \in Elems(t)
    <3>1. Len(s) + 1 \in DOMAIN t
      BY <1>2
    <3> QED BY <3>1, <1>1 DEF Elems
  <2> QED BY <2>1, <2>2, <2>3
<1>4. Distinct(s) /\ x \notin Elems(s) => Distinct(t)
  BY <1>1, <1>2 DEF Distinct, Elems
<1> QED BY <1>1, <1>3, <1>4 DEF t

\* pop_front.
LEMMA ElemsTail ==
    ASSUME NEW S, NEW s \in Seq(S), s # <<>>, Distinct(s)
    PROVE  /\ Head(s) \in S
           /\ Head(s) \in Elems(s)
           /\ Tail(s) \in Seq(S)
           /\ Elems(Tail(s)) = Elems(s) \ {Head(s)}
           /\ Distinct(Tail(s))
<1> DEFINE t == Tail(s)
<1>1. /\ Head(s) \in S
      /\ t \in Seq(S)
      /\ Len(t) = Len(s) - 1
      /\ \A i \in 1 .. Len(t) : t[i] = s[i + 1]
  BY HeadTailProperties
<1>2. /\ DOMAIN s = 1 .. Len(s)
      /\ DOMAIN t = 1 .. Len(s) - 1
      /\ Len(s) \in Nat \ {0}
      /\ Head(s) = s[1]
  BY <1>1, LenProperties, EmptySeq
<1> HIDE DEF t
<1>3. Elems(t) = Elems(s) \ {Head(s)}
  <2>1. ASSUME NEW i \in DOMAIN t
        PROVE  t[i] \in Elems(s) \ {Head(s)}
    BY <1>1, <1>2 DEF Elems, Distinct
  <2>2. ASSUME NEW i \in DOMAIN s, s[i] # Head(s)
        PROVE  s[i] \in Elems(t)
    <3>1. i - 1 \in DOMAIN t /\ t[i - 1] = s[i]
      BY <1>1, <1>2, <2>2
    <3> QED BY <3>1 DEF Elems
  <2> QED BY <2>1, <2>2 DEF Elems
<1>4. Distinct(t)
  <2> SUFFICES ASSUME NEW m \in DOMAIN t, NEW n \in DOMAIN t, t[m] = t[n]
               PROVE  m = n
    BY DEF Distinct
  <2>1. m + 1 \in DOMAIN s /\ n + 1 \in DOMAIN s /\ s[m + 1] = s[n + 1]
    BY <1>1, <1>2
  <2>2. m + 1 = n + 1
    BY <2>1 DEF Distinct
  <2> QED BY <2>2, <1>2
<1>5. Head(s) \in Elems(s)
  BY <1>2 DEF Elems
<1> QED BY <1>1, <1>3, <1>4, <1>5 DEF t

\* Concatenation of two sequences with nothing in common.
LEMMA ElemsConcat ==
    ASSUME NEW S, NEW s \in Seq(S), NEW t \in Seq(S),
           Distinct(s), Distinct(t), Elems(s) \cap Elems(t) = {}
    PROVE  /\ s \o t \in Seq(S)
           /\ Elems(s \o t) = Elems(s) \cup Elems(t)
           /\ Distinct(s \o t)
<1> DEFINE u == s \o t
<1>1. /\ u \in Seq(S)
      /\ Len(u) = Len(s) + Len(t)
      /\ \A i \in 1 .. Len(s) + Len(t) :
            u[i] = IF i <= Len(s) THEN s[i] ELSE t[i - Len(s)]
  BY ConcatProperties
<1>2. /\ DOMAIN s = 1 .. Len(s) /\ Len(s) \in Nat
      /\ DOMAIN t = 1 .. Len(t) /\ Len(t) \in Nat
      /\ DOMAIN u = 1 .. Len(s) + Len(t)
  BY <1>1, LenProperties
<1> HIDE DEF u
<1>3. ASSUME NEW i \in DOMAIN s
      PROVE  i \in DOMAIN u /\ u[i] = s[i]
  BY <1>1, <1>2
<1>4. ASSUME NEW i \in DOMAIN t
      PROVE  Len(s) + i \in DOMAIN u /\ u[Len(s) + i] = t[i]
  BY <1>1, <1>2
<1>5. ASSUME NEW i \in DOMAIN u
      PROVE  \/ i \in DOMAIN s /\ u[i] = s[i]
             \/ i - Len(s) \in DOMAIN t /\ u[i] = t[i - Len(s)] /\ i > Len(s)
  BY <1>1, <1>2
<1>6. Elems(u) = Elems(s) \cup Elems(t)
  <2>1. Elems(u) \subseteq Elems(s) \cup Elems(t)
    BY <1>5 DEF Elems
  <2>2. Elems(s) \subseteq Elems(u)
    BY <1>3 DEF Elems
  <2>3. Elems(t) \subseteq Elems(u)
    BY <1>4 DEF Elems
  <2> QED BY <2>1, <2>2, <2>3
<1>7. Distinct(u)
  <2> SUFFICES ASSUME NEW m \in DOMAIN u, NEW n \in DOMAIN u, u[m] = u[n]
               PROVE  m = n
    BY DEF Distinct
  <2>0. m \in Int /\ n \in Int /\ Len(s) \in Int
    BY <1>2
  <2>1. \A i \in DOMAIN s, k \in DOMAIN t : s[i] # t[k]
    BY DEF Elems
  <2>2. CASE m \in DOMAIN s /\ u[m] = s[m]
    <3>1. ~(n - Len(s) \in DOMAIN t /\ u[n] = t[n - Len(s)])
      BY <2>1, <2>2
    <3>2. n \in DOMAIN s /\ u[n] = s[n]
      BY <3>1, <1>5
    <3> QED BY <2>2, <3>2 DEF Distinct
  <2>3. CASE m - Len(s) \in DOMAIN t /\ u[m] = t[m - Len(s)]
    <3>1. ~(n \in DOMAIN s /\ u[n] = s[n])
      BY <2>1, <2>3
    <3>2. n - Len(s) \in DOMAIN t /\ u[n] = t[n - Len(s)]
      BY <3>1, <1>5
    <3>3. m - Len(s) = n - Len(s)
      BY <2>3, <3>2 DEF Distinct
    <3> QED BY <3>3, <2>0
  <2> QED BY <2>2, <2>3, <1>5
<1> QED BY <1>1, <1>6, <1>7 DEF u

\* A sequence split in two.
LEMMA ElemsSplit ==
    ASSUME NEW S, NEW s \in Seq(S), Distinct(s), NEW k \in 0 .. Len(s)
    PROVE  /\ SubSeq(s, 1, k) \in Seq(S)
           /\ SubSeq(s, k + 1, Len(s)) \in Seq(S)
           /\ Distinct(SubSeq(s, 1, k))
           /\ Distinct(SubSeq(s, k + 1, Len(s)))
           /\ Elems(SubSeq(s, 1, k)) \cap Elems(SubSeq(s, k + 1, Len(s))) = {}
           /\ Elems(SubSeq(s, 1, k)) \cup Elems(SubSeq(s, k + 1, Len(s))) = Elems(s)
<1> DEFINE l == SubSeq(s, 1, k)
           r == SubSeq(s, k + 1, Len(s))
<1>1. Len(s) \in Nat /\ DOMAIN s = 1 .. Len(s) /\ \A i \in 1 .. Len(s) : s[i] \in S
  BY LenProperties, ElementOfSeq
<1>2. /\ l \in Seq(S)
      /\ Len(l) = k
      /\ \A i \in 1 .. k : l[i] = s[i]
  <2>1. \A i \in 1 .. k : s[i] \in S
    BY <1>1
  <2>2. /\ l \in Seq(S)
        /\ Len(l) = IF 1 <= k THEN k - 1 + 1 ELSE 0
        /\ \A i \in 1 .. k - 1 + 1 : l[i] = s[1 + i - 1]
    BY <2>1, <1>1, SubSeqProperties
  <2> QED BY <2>2, <1>1
<1>3. /\ r \in Seq(S)
      /\ Len(r) = Len(s) - k
      /\ \A i \in 1 .. Len(s) - k : r[i] = s[k + i]
  <2>1. \A i \in k + 1 .. Len(s) : s[i] \in S
    BY <1>1
  <2>2. /\ r \in Seq(S)
        /\ Len(r) = IF k + 1 <= Len(s) THEN Len(s) - (k + 1) + 1 ELSE 0
        /\ \A i \in 1 .. Len(s) - (k + 1) + 1 : r[i] = s[k + 1 + i - 1]
    BY <2>1, <1>1, SubSeqProperties
  <2> HIDE DEF r
  <2>3. Len(r) = Len(s) - k
    <3>1. k \in Int /\ Len(s) \in Int /\ k <= Len(s)
      BY <1>1
    <3>2. CASE k + 1 <= Len(s)
      BY <2>2, <3>1, <3>2
    <3>3. CASE ~(k + 1 <= Len(s))
      BY <2>2, <3>1, <3>3
    <3> QED BY <3>2, <3>3
  <2>4. ASSUME NEW i \in 1 .. Len(s) - k
        PROVE  r[i] = s[k + i]
    <3>1. i \in 1 .. Len(s) - (k + 1) + 1 /\ k + 1 + i - 1 = k + i
      BY <1>1
    <3>2. r[i] = s[k + 1 + i - 1]
      BY <2>2, <3>1
    <3> QED BY <3>1, <3>2
  <2> QED BY <2>2, <2>3, <2>4
<1>4. DOMAIN l = 1 .. k /\ DOMAIN r = 1 .. Len(s) - k
  BY <1>2, <1>3, LenProperties
<1> HIDE DEF l, r
<1>a. ASSUME NEW i \in DOMAIN l
      PROVE  i \in DOMAIN s /\ l[i] = s[i] /\ i \in Int /\ i <= k
  BY <1>1, <1>2, <1>4
<1>b. ASSUME NEW i \in DOMAIN r
      PROVE  k + i \in DOMAIN s /\ r[i] = s[k + i] /\ i \in Int /\ k + i > k
  BY <1>1, <1>3, <1>4
<1>5. Distinct(l) /\ Distinct(r)
  <2>1. Distinct(l)
    BY <1>a DEF Distinct
  <2>2. Distinct(r)
    <3> SUFFICES ASSUME NEW m \in DOMAIN r, NEW n \in DOMAIN r, r[m] = r[n]
                 PROVE  m = n
      BY DEF Distinct
    <3>1. k + m = k + n
      BY <1>b DEF Distinct
    <3> QED BY <3>1, <1>b
  <2> QED BY <2>1, <2>2
<1>6. \A i \in DOMAIN l, m \in DOMAIN r : l[i] # r[m]
  <2> SUFFICES ASSUME NEW i \in DOMAIN l, NEW m \in DOMAIN r, l[i] = r[m]
               PROVE  FALSE
    OBVIOUS
  <2>1. i = k + m
    BY <1>a, <1>b DEF Distinct
  <2> QED BY <2>1, <1>a, <1>b
<1>7. Elems(l) \cap Elems(r) = {}
  BY <1>6 DEF Elems
<1>8. Elems(l) \cup Elems(r) \subseteq Elems(s)
  BY <1>a, <1>b DEF Elems
<1>9. Elems(s) \subseteq Elems(l) \cup Elems(r)
  <2> SUFFICES ASSUME NEW i \in DOMAIN s
               PROVE  s[i] \in Elems(l) \cup Elems(r)
    BY DEF Elems
  <2>1. CASE i <= k
    BY <2>1, <1>1, <1>2, <1>4 DEF Elems
  <2>2. CASE i > k
    <3>1. i - k \in DOMAIN r /\ r[i - k] = s[i]
      BY <2>2, <1>1, <1>3, <1>4
    <3> QED BY <3>1 DEF Elems
  <2> QED BY <2>1, <2>2, <1>1
<1> QED BY <1>2, <1>3, <1>5, <1>7, <1>8, <1>9 DEF l, r

(***************************************************************************)
(* The inductive invariant.                                                *)
(***************************************************************************)

\* Where the worker may hold a round, completed jobs or an exclusive job, and
\* how many streams it holds.
RoundPhase ==
    /\ wpc \in {"exclusive", "lowerDepth"} => \E x \in Jobs : exec = {x}
    /\ wpc \in {"top", "recv", "dispatch"} => tasks = <<>> /\ done = {}
    /\ wpc \in {"exclusive", "lowerDepth"} => tasks = <<>> /\ done = {}
    /\ wpc = "retire" => tasks = <<>>
    /\ pending = <<>> \/ \E x \in Jobs : pending = <<x>>
    /\ Len(active) + Len(tasks) + Len(waiting) <= Slots

IInv == TypeOK /\ DepthExact /\ OnePlace /\ RoundPhase

\* Initially nobody is anywhere.
LEMMA InitIInv == Init => IInv
<1> SUFFICES ASSUME Init PROVE IInv
  OBVIOUS
<1> USE JobsAssumption, BoundsAssumption, KeysAssumption
<1>1. TypeOK
  <2>1. /\ st \in [Jobs -> Status]
        /\ kind \in [Jobs -> Kinds]
        /\ outcome \in [Jobs -> Outcomes]
        /\ prefill \in [Jobs -> BOOLEAN]
    BY DEF Init, Status, Kinds, Outcomes
  <2>2. /\ taken \in [Jobs -> 0 .. MaxSteps]
        /\ cancelAt \in [Jobs -> -1 .. MaxSteps]
        /\ slotOf \in [Jobs -> 0 .. Slots]
        /\ public \in [1 .. Slots -> Jobs \cup {NoJob}]
        /\ depth \in Int /\ occupied \in Nat /\ exclusiveActive \in 0 .. 1
    BY DEF Init
  <2>3. /\ queue \in Seq(Jobs) /\ pending \in Seq(Jobs) /\ waiting \in Seq(Jobs)
        /\ active \in Seq(Jobs) /\ tasks \in Seq(Jobs)
    BY EmptySeq DEF Init
  <2>4. /\ open \in BOOLEAN /\ disconnected \in BOOLEAN /\ sawCancel \in BOOLEAN
        /\ key \in [Jobs -> Keys \cup {NoKey}]
        /\ activeId \in Jobs \cup {NoJob}
    BY DEF Init
  <2> QED BY <2>1, <2>2, <2>3, <2>4 DEF Init, TypeOK
<1>2. Unretired = {} /\ Accepted = {}
  BY DEF Init, Unretired, Accepted
<1>3. DepthExact
  BY <1>2, FS_EmptySet DEF Init, DepthExact
<1>4. OnePlace
  BY <1>2, ElemsEmpty DEF Init, OnePlace, Exclusive
<1>5. RoundPhase
  BY DEF Init, RoundPhase
<1> QED BY <1>1, <1>3, <1>4, <1>5 DEF IInv

\* fill_slots: nothing is lost between the active and the waiting queue.
LEMMA FillSlots ==
    ASSUME TypeOK, OnePlace, RoundPhase
    PROVE  /\ Filled \in Seq(Jobs) /\ Unfilled \in Seq(Jobs)
           /\ Distinct(Filled) /\ Distinct(Unfilled)
           /\ Elems(Filled) \cap Elems(Unfilled) = {}
           /\ Elems(Filled) \cup Elems(Unfilled) = Elems(active) \cup Elems(waiting)
           /\ Len(Filled) + Len(Unfilled) = Len(active) + Len(waiting)
           /\ Len(Filled) \in Nat /\ Len(Unfilled) \in Nat
<1> DEFINE l == SubSeq(waiting, 1, Room)
<1>1. /\ active \in Seq(Jobs) /\ waiting \in Seq(Jobs) /\ tasks \in Seq(Jobs)
      /\ Distinct(active) /\ Distinct(waiting)
      /\ Elems(active) \cap Elems(waiting) = {}
  BY DEF TypeOK, OnePlace
<1>2. Len(active) \in Nat /\ Len(waiting) \in Nat /\ Len(tasks) \in Nat /\ Slots \in Nat
  BY <1>1, LenProperties, BoundsAssumption
<1>3. Room \in 0 .. Len(waiting)
  BY <1>2 DEF Room, RoundPhase
<1>4. /\ l \in Seq(Jobs) /\ Unfilled \in Seq(Jobs)
      /\ Distinct(l) /\ Distinct(Unfilled)
      /\ Elems(l) \cap Elems(Unfilled) = {}
      /\ Elems(l) \cup Elems(Unfilled) = Elems(waiting)
  BY <1>1, <1>3, ElemsSplit DEF Unfilled
<1>5. Elems(active) \cap Elems(l) = {}
  BY <1>1, <1>4
<1>6. /\ Filled \in Seq(Jobs)
      /\ Distinct(Filled)
      /\ Elems(Filled) = Elems(active) \cup Elems(l)
  <2>1. Filled = active \o l
    BY DEF Filled
  <2> HIDE DEF l
  <2>2. /\ active \o l \in Seq(Jobs)
        /\ Distinct(active \o l)
        /\ Elems(active \o l) = Elems(active) \cup Elems(l)
    BY <1>1, <1>4, <1>5, ElemsConcat
  <2> QED BY <2>1, <2>2
<1>7. Len(l) = Room /\ Len(Unfilled) = Len(waiting) - Room
  <2>1. waiting \o <<>> = waiting /\ Room \in Int /\ Room + 1 \in Int
    BY <1>1, <1>3, <1>2, ConcatEmptySeq
  <2>2. /\ \A i \in 1 .. Room : waiting[i] \in Jobs
        /\ \A i \in Room + 1 .. Len(waiting) : waiting[i] \in Jobs
    BY <1>1, <1>2, <1>3, ElementOfSeq
  <2>3. Len(l) = IF 1 <= Room THEN Room - 1 + 1 ELSE 0
    BY <2>1, <2>2, SubSeqProperties
  <2>4. Len(Unfilled) = IF Room + 1 <= Len(waiting)
                          THEN Len(waiting) - (Room + 1) + 1 ELSE 0
    BY <2>1, <2>2, <1>2, SubSeqProperties DEF Unfilled
  <2>5. Len(l) = Room
    BY <2>3, <1>3, <1>2
  <2>6. Len(Unfilled) = Len(waiting) - Room
    BY <2>4, <1>3, <1>2
  <2> QED BY <2>5, <2>6
<1>8. Len(Filled) = Len(active) + Room
  BY <1>1, <1>4, <1>7, ConcatProperties DEF Filled
<1>9. Len(Filled) + Len(Unfilled) = Len(active) + Len(waiting)
  BY <1>7, <1>8, <1>2, <1>3
<1>10. Elems(Filled) \cap Elems(Unfilled) = {}
  BY <1>6, <1>4, <1>1
<1>11. Elems(Filled) \cup Elems(Unfilled) = Elems(active) \cup Elems(waiting)
  BY <1>6, <1>4
<1> QED BY <1>4, <1>6, <1>8, <1>7, <1>9, <1>10, <1>11, <1>2, <1>3

\* Dropping jobs keeps their fields in their types.
LEMMA ForgetType ==
    ASSUME TypeOK, NEW S, Forget(S)
    PROVE  /\ st' \in [Jobs -> Status]
           /\ kind' \in [Jobs -> Kinds]
           /\ prefill' \in [Jobs -> BOOLEAN]
           /\ taken' \in [Jobs -> 0 .. MaxSteps]
           /\ cancelAt' \in [Jobs -> -1 .. MaxSteps]
<1> USE BoundsAssumption
<1>1. st' \in [Jobs -> Status] /\ kind' \in [Jobs -> Kinds]
  BY DEF TypeOK, Forget, Status, Kinds
<1>2. prefill' \in [Jobs -> BOOLEAN]
  BY Zenon DEF TypeOK, Forget
<1>3. taken' \in [Jobs -> 0 .. MaxSteps]
  BY DEF TypeOK, Forget
<1>4. cancelAt' \in [Jobs -> -1 .. MaxSteps]
  BY DEF TypeOK, Forget
<1> QED BY <1>1, <1>2, <1>3, <1>4

\* Every step keeps every variable in its type.
LEMMA TypeStep ==
    ASSUME TypeOK, OnePlace, RoundPhase, Next
    PROVE  TypeOK'
<1> USE JobsAssumption, BoundsAssumption, KeysAssumption
<1> USE DEF TypeOK, handlerVars, jobVars, loopVars, batchVars, roundVars, slotVars
<1>1. ASSUME NEW j \in Jobs, Reserve(j) PROVE TypeOK'
  <2>1. PICK k \in Kinds, b \in BOOLEAN : /\ kind' = [kind EXCEPT ![j] = k]
                                          /\ prefill' = [prefill EXCEPT ![j] = b]
    BY <1>1 DEF Reserve
  <2>2. kind' \in [Jobs -> Kinds]
    BY <2>1
  <2>3. prefill' \in [Jobs -> BOOLEAN]
    BY <2>1, Zenon
  <2>4. st' \in [Jobs -> Status] /\ depth' \in Int
    BY <1>1 DEF Reserve, Status
  <2> QED BY <1>1, <2>2, <2>3, <2>4 DEF Reserve
<1>2. ASSUME NEW j \in Jobs, TrySend(j) PROVE TypeOK'
  <2>1. Append(queue, j) \in Seq(Jobs)
    BY AppendProperties
  <2> QED BY <1>2, <2>1 DEF TrySend, Status
<1>3. ASSUME NEW j \in Jobs, Release(j) PROVE TypeOK'
  <2>1. Forget({j}) /\ depth' \in Int
    BY <1>3 DEF Release
  <2> QED BY <1>3, <2>1, ForgetType DEF Release
<1>4. ASSUME NEW j \in Jobs, Cancel(j) PROVE TypeOK'
  <2>1. taken[j] \in -1 .. MaxSteps
    OBVIOUS
  <2>2. cancelAt' \in [Jobs -> -1 .. MaxSteps]
    BY <1>4, <2>1 DEF Cancel
  <2> QED BY <1>4, <2>2 DEF Cancel
<1>5. CASE DropHandles
  BY <1>5 DEF DropHandles
<1>6. CASE TakePending
  <2>1. pending # <<>> => Append(waiting, Head(pending)) \in Seq(Jobs)
    BY HeadTailProperties, AppendProperties
  <2>2. waiting' \in Seq(Jobs) /\ pending' \in Seq(Jobs)
    <3>1. CASE pending # <<>> /\ HasFreeSlot
      <4>1. waiting' = Append(waiting, Head(pending)) /\ pending' = <<>>
        BY <1>6, <3>1 DEF TakePending
      <4>2. <<>> \in Seq(Jobs)
        BY EmptySeq
      <4> QED BY <2>1, <3>1, <4>1, <4>2
    <3>2. CASE ~(pending # <<>> /\ HasFreeSlot)
      BY <1>6, <3>2 DEF TakePending
    <3> QED BY <3>1, <3>2
  <2> QED BY <1>6, <2>2 DEF TakePending
<1>7. CASE RecvCooperative
  <2>1. /\ Head(queue) \in Jobs
        /\ Tail(queue) \in Seq(Jobs)
        /\ Append(waiting, Head(queue)) \in Seq(Jobs)
        /\ <<Head(queue)>> \in Seq(Jobs)
    BY <1>7, HeadTailProperties, AppendProperties DEF RecvCooperative
  <2>2. waiting' \in Seq(Jobs) /\ pending' \in Seq(Jobs)
    BY <1>7, <2>1 DEF RecvCooperative
  <2> QED BY <1>7, <2>1, <2>2 DEF RecvCooperative
<1>8. CASE RecvExclusive
  <2>1. Head(queue) \in Jobs /\ Tail(queue) \in Seq(Jobs)
    BY <1>8, HeadTailProperties DEF RecvExclusive
  <2>2. /\ exec' \in SUBSET Jobs
        /\ activeId' \in Jobs \cup {NoJob}
        /\ exclusiveActive' \in 0 .. 1
        /\ queue' \in Seq(Jobs)
    BY <1>8, <2>1 DEF RecvExclusive
  <2> QED BY <1>8, <2>2 DEF RecvExclusive
<1>9. CASE FinishExclusive
  BY <1>9 DEF FinishExclusive
<1>10. CASE RetireExclusive
  <2>1. Forget(exec) /\ depth' \in Int
    BY <1>10 DEF RetireExclusive
  <2> QED BY <1>10, <2>1, ForgetType DEF RetireExclusive
<1>11. CASE StopReceiving
  BY <1>11 DEF StopReceiving
<1>12. CASE RecvClosed
  BY <1>12 DEF RecvClosed
<1>13. CASE ExitOrContinue
  BY <1>13 DEF ExitOrContinue
<1>14. CASE StartRound
  <2>1. ScheduledLen \in Nat
    BY LenProperties DEF ScheduledLen
  <2>2. Elems(Filled) \subseteq Jobs
    BY FillSlots, ElemsType
  <2> QED BY <1>14, <2>1, <2>2, FillSlots, EmptySeq DEF StartRound
<1>15. CASE KeyPanics
  <2>1. ScheduledLen \in Nat
    BY LenProperties DEF ScheduledLen
  <2>2. st' \in [Jobs -> Status]
    BY <1>15 DEF KeyPanics, Status
  <2>3. /\ slotOf' \in [Jobs -> 0 .. Slots]
        /\ public' \in [1 .. Slots -> Jobs \cup {NoJob}]
        /\ activeId' \in Jobs \cup {NoJob}
    BY <1>15 DEF KeyPanics
  <2>4. /\ queue' \in Seq(Jobs) /\ pending' \in Seq(Jobs)
        /\ waiting' \in Seq(Jobs) /\ active' \in Seq(Jobs)
    BY <1>15, EmptySeq DEF KeyPanics
  <2> QED BY <1>15, <2>1, <2>2, <2>3, <2>4 DEF KeyPanics
<1>16. CASE PickGroup
  <2>1. PICK j \in todo : starting' = IF key[j] = NoKey THEN {j}
                                     ELSE {k \in todo : key[k] = key[j]}
    BY <1>16 DEF PickGroup
  <2>2. starting' \subseteq Jobs
    BY <2>1
  <2> QED BY <1>16, <2>2 DEF PickGroup
<1>17. CASE PickSolo
  BY <1>17 DEF PickSolo
<1>18. CASE BeginStep
  <2>1. PICK j \in starting :
          /\ begun' = begun \cup {j}
          /\ \/ \E s \in 1 .. Slots : /\ slotOf' = [slotOf EXCEPT ![j] = s]
                                     /\ public' = [public EXCEPT ![s] = j]
             \/ UNCHANGED <<slotOf, public>>
          /\ starting' = starting \ {j}
          /\ exec' = exec \cup {j}
          /\ activeId' \in exec'
    BY <1>18 DEF BeginStep
  <2>2. slotOf' \in [Jobs -> 0 .. Slots] /\ public' \in [1 .. Slots -> Jobs \cup {NoJob}]
    <3>1. CASE UNCHANGED <<slotOf, public>>
      BY <3>1
    <3>2. ASSUME NEW s \in 1 .. Slots,
                 slotOf' = [slotOf EXCEPT ![j] = s], public' = [public EXCEPT ![s] = j]
          PROVE  /\ slotOf' \in [Jobs -> 0 .. Slots]
                 /\ public' \in [1 .. Slots -> Jobs \cup {NoJob}]
      <4>1. j \in Jobs /\ s \in 0 .. Slots
        OBVIOUS
      <4> QED BY <3>2, <4>1
    <3> QED BY <2>1, <3>1, <3>2
  <2>3. CancelSeen(exec') \in BOOLEAN
    BY DEF CancelSeen
  <2>4. /\ begun' \in SUBSET Jobs /\ starting' \in SUBSET Jobs
        /\ exec' \in SUBSET Jobs /\ activeId' \in Jobs \cup {NoJob}
    BY <2>1
  <2>5. wpc' \in {"run", "begin"} /\ sawCancel' \in BOOLEAN
    BY <1>18, <2>3 DEF BeginStep
  <2> QED BY <1>18, <2>2, <2>4, <2>5 DEF BeginStep
<1>19. CASE StepReturns
  <2>1. PICK c \in SUBSET exec :
          /\ \A j \in exec \ c : HasBudget(j)
          /\ FinishSteps(c)
          /\ Record(c)
          /\ taken' = [j \in Jobs |-> IF j \in exec \ c THEN taken[j] + 1 ELSE taken[j]]
          /\ \E still \in SUBSET {j \in exec \ c : prefill[j]} :
                prefill' = [j \in Jobs |-> IF j \in exec THEN j \in still ELSE prefill[j]]
    BY <1>19 DEF StepReturns
  <2>2. taken' \in [Jobs -> 0 .. MaxSteps]
    BY <2>1 DEF HasBudget
  <2>3. prefill' \in [Jobs -> BOOLEAN]
    <3>1. PICK still \in SUBSET {j \in exec \ c : prefill[j]} :
            prefill' = [j \in Jobs |-> IF j \in exec THEN j \in still ELSE prefill[j]]
      BY <2>1
    <3>2. /\ \A j \in Jobs : prefill[j] \in BOOLEAN
          /\ \A j \in Jobs : (j \in still) \in BOOLEAN
      <4>1. prefill \in [Jobs -> BOOLEAN]
        OBVIOUS
      <4>2. \A j \in Jobs : prefill[j] \in BOOLEAN
        BY <4>1
      <4>3. \A j \in Jobs : (j \in still) \in BOOLEAN
        OBVIOUS
      <4> QED BY <4>2, <4>3
    <3>3. \A j \in Jobs : (IF j \in exec THEN j \in still ELSE prefill[j]) \in BOOLEAN
      BY <3>2, Zenon
    <3> QED BY <3>1, <3>3, Zenon
  <2>4. /\ begun' \in SUBSET Jobs
        /\ slotOf' \in [Jobs -> 0 .. Slots]
        /\ public' \in [1 .. Slots -> Jobs \cup {NoJob}]
        /\ activeId' \in Jobs \cup {NoJob}
    BY <2>1 DEF FinishSteps, FreedTable
  <2>5. /\ outcome' \in [Jobs -> Outcomes]
        /\ exec' = {} /\ sawCancel' = FALSE /\ wpc' = "pick"
    BY <2>1 DEF Record, Outcomes
  <2> QED BY <1>19, <2>2, <2>3, <2>4, <2>5 DEF StepReturns
<1>20. CASE GroupDeclines
  BY <1>20 DEF GroupDeclines
<1>21. CASE StepPanics
  BY <1>21 DEF StepPanics, Record, Outcomes
<1>22. CASE CollectResult
  <2>1. /\ Head(tasks) \in Jobs
        /\ Tail(tasks) \in Seq(Jobs)
        /\ Append(active, Head(tasks)) \in Seq(Jobs)
    BY <1>22, HeadTailProperties, AppendProperties DEF CollectResult
  <2>2. CASE outcome[Head(tasks)] = "continue"
    BY <1>22, <2>1, <2>2 DEF CollectResult, Requeued
  <2>3. CASE outcome[Head(tasks)] # "continue"
    <3>0. /\ done' = done \cup {Head(tasks)} /\ begun' = begun \ {Head(tasks)}
          /\ activeId' \in {NoJob, activeId}
          /\ active' = active /\ tasks' = Tail(tasks)
      BY <1>22, <2>3 DEF CollectResult
    <3>1. /\ done' \in SUBSET Jobs /\ begun' \in SUBSET Jobs
          /\ activeId' \in Jobs \cup {NoJob}
          /\ active' \in Seq(Jobs) /\ tasks' \in Seq(Jobs)
      BY <2>1, <3>0
    <3>2. slotOf' = [slotOf EXCEPT ![Head(tasks)] = 0] /\ public' = FreedTable({Head(tasks)})
      BY <1>22, <2>3 DEF CollectResult
    <3>3. slotOf' \in [Jobs -> 0 .. Slots]
      BY <3>2, <2>1
    <3>4. public' \in [1 .. Slots -> Jobs \cup {NoJob}]
      BY <3>2 DEF FreedTable
    <3> QED BY <1>22, <3>1, <3>3, <3>4 DEF CollectResult
  <2> QED BY <2>2, <2>3
<1>23. CASE PublishOccupied
  BY <1>23, FillSlots DEF PublishOccupied, Outcomes
<1>24. CASE RetireCompleted
  <2>1. Cardinality(done) \in Nat
    BY FS_Subset, FS_CardinalityType
  <2>2. Forget(done) /\ depth' \in Int
    BY <1>24, <2>1 DEF RetireCompleted, CompletedCount
  <2> QED BY <1>24, <2>2, ForgetType DEF RetireCompleted
<1> QED
  BY <1>1, <1>2, <1>3, <1>4, <1>5, <1>6, <1>7, <1>8, <1>9, <1>10, <1>11, <1>12,
     <1>13, <1>14, <1>15, <1>16, <1>17, <1>18, <1>19, <1>20, <1>21, <1>22, <1>23,
     <1>24
  DEF Next, Handler, Worker

\* A step that moves no job keeps the count and the places.
LEMMA QuietStep ==
    ASSUME DepthExact, OnePlace, Exclusive' = Exclusive,
           UNCHANGED <<st, depth, queue, pending, waiting, active, tasks, done>>
    PROVE  DepthExact' /\ OnePlace'
BY DEF DepthExact, OnePlace, Unretired, Accepted, Elems, Distinct

\* The count when one more job is reserved.
LEMMA CountUp ==
    ASSUME DepthExact, NEW j \in Jobs, j \notin Unretired,
           Unretired' = Unretired \cup {j}, depth' = depth + 1
    PROVE  DepthExact'
<1>1. IsFiniteSet(Unretired)
  BY FS_Subset, JobsAssumption DEF Unretired
<1> QED BY <1>1, FS_AddElement DEF DepthExact

\* The count when some jobs are retired, all at once.
LEMMA CountDown ==
    ASSUME DepthExact, NEW S, S \subseteq Unretired,
           Unretired' = Unretired \ S, depth' = depth - Cardinality(S)
    PROVE  DepthExact'
<1>1. IsFiniteSet(Unretired)
  BY FS_Subset, JobsAssumption DEF Unretired
<1>2. Unretired \cap S = S
  OBVIOUS
<1>3. Cardinality(Unretired \ S) = Cardinality(Unretired) - Cardinality(S)
  BY <1>1, <1>2, FS_Difference
<1> QED BY <1>3 DEF DepthExact

\* What Forget does to the sets of jobs.
LEMMA ForgetSets ==
    ASSUME TypeOK, NEW S, Forget(S)
    PROVE  /\ Accepted' = Accepted \ S
           /\ Unretired' = Unretired \ S
BY DEF TypeOK, Forget, Accepted, Unretired

\* A place that is empty.
LEMMA NoElems ==
    ASSUME NEW s, s = <<>>
    PROVE  Elems(s) = {} /\ Distinct(s)
BY ElemsEmpty

\* Every step keeps the count of the jobs.
LEMMA DepthStep ==
    ASSUME IInv, Next
    PROVE  DepthExact'
<1> USE DEF handlerVars, jobVars, loopVars, batchVars, roundVars, slotVars
<1>a. TypeOK /\ DepthExact /\ OnePlace /\ RoundPhase
  BY DEF IInv
<1>b. st \in [Jobs -> Status]
  BY <1>a DEF TypeOK
<1>c. Accepted \subseteq Unretired
  BY DEF Accepted, Unretired
<1>1. ASSUME NEW j \in Jobs, Reserve(j) PROVE DepthExact'
  <2>1. j \notin Unretired /\ Unretired' = Unretired \cup {j} /\ depth' = depth + 1
    BY <1>1, <1>b DEF Reserve, Unretired
  <2> QED BY <1>a, <2>1, CountUp
<1>2. ASSUME NEW j \in Jobs, TrySend(j) PROVE DepthExact'
  <2>1. Unretired' = Unretired /\ depth' = depth
    BY <1>2, <1>b DEF TrySend, Unretired
  <2> QED BY <1>a, <2>1 DEF DepthExact
<1>3. ASSUME NEW j \in Jobs, Release(j) PROVE DepthExact'
  <2>1. /\ Unretired' = Unretired \ {j}
        /\ {j} \subseteq Unretired
        /\ depth' = depth - 1
    BY <1>3, <1>a, ForgetSets DEF Release, Unretired
  <2>2. depth' = depth - Cardinality({j})
    BY <2>1, FS_Singleton
  <2> QED BY <1>a, <2>1, <2>2, CountDown
<1>4. CASE RetireExclusive
  <2>1. PICK x \in Jobs : exec = {x}
    BY <1>4, <1>a DEF RetireExclusive, RoundPhase
  <2>2. exec \subseteq Accepted
    BY <1>4, <1>a DEF RetireExclusive, OnePlace, Exclusive
  <2>3. Unretired' = Unretired \ exec
    BY <1>4, <1>a, ForgetSets DEF RetireExclusive
  <2>4. depth' = depth - Cardinality(exec)
    BY <1>4, <2>1, FS_Singleton DEF RetireExclusive
  <2> QED BY <1>a, <1>c, <2>2, <2>3, <2>4, CountDown
<1>5. CASE RetireCompleted
  <2>1. done \subseteq Accepted
    BY <1>a DEF OnePlace
  <2>2. Unretired' = Unretired \ done
    BY <1>5, <1>a, ForgetSets DEF RetireCompleted
  <2>3. depth' = depth - Cardinality(done)
    BY <1>5 DEF RetireCompleted, CompletedCount
  <2> QED BY <1>a, <1>c, <2>1, <2>2, <2>3, CountDown
<1>6. CASE KeyPanics
  <2>1. Unretired' = Unretired /\ depth' = depth
    BY <1>6, <1>b DEF KeyPanics, Unretired
  <2> QED BY <1>a, <2>1 DEF DepthExact
<1>7. ASSUME UNCHANGED <<st, depth>> PROVE DepthExact'
  BY <1>7, <1>a DEF DepthExact, Unretired
<1>8. ASSUME NEW j \in Jobs, Cancel(j) PROVE DepthExact'
  BY <1>8, <1>7 DEF Cancel
<1>9. CASE DropHandles \/ TakePending \/ RecvCooperative \/ RecvExclusive \/ FinishExclusive
  BY <1>9, <1>7 DEF DropHandles, TakePending, RecvCooperative, RecvExclusive, FinishExclusive
<1>10. CASE StopReceiving \/ RecvClosed \/ ExitOrContinue \/ StartRound \/ PickGroup
  BY <1>10, <1>7 DEF StopReceiving, RecvClosed, ExitOrContinue, StartRound, PickGroup
<1>11. CASE PickSolo \/ BeginStep \/ StepReturns \/ GroupDeclines
  BY <1>11, <1>7 DEF PickSolo, BeginStep, StepReturns, GroupDeclines
<1>12. CASE StepPanics \/ CollectResult \/ PublishOccupied
  BY <1>12, <1>7 DEF StepPanics, CollectResult, PublishOccupied
<1> QED
  BY <1>1, <1>2, <1>3, <1>4, <1>5, <1>6, <1>8, <1>9, <1>10, <1>11, <1>12
  DEF Next, Handler, Worker

\* Every step leaves every accepted job in exactly one place.
LEMMA PlaceStep ==
    ASSUME IInv, Next
    PROVE  OnePlace'
<1> USE DEF handlerVars, jobVars, loopVars, batchVars, roundVars, slotVars
<1>a. TypeOK /\ DepthExact /\ OnePlace /\ RoundPhase
  BY DEF IInv
<1>b. /\ st \in [Jobs -> Status]
      /\ queue \in Seq(Jobs) /\ pending \in Seq(Jobs) /\ waiting \in Seq(Jobs)
      /\ active \in Seq(Jobs) /\ tasks \in Seq(Jobs)
  BY <1>a DEF TypeOK
<1>c. /\ Distinct(queue) /\ Distinct(pending) /\ Distinct(waiting)
      /\ Distinct(active) /\ Distinct(tasks)
  BY <1>a DEF OnePlace
<1>1. ASSUME UNCHANGED <<st, depth, queue, pending, waiting, active, tasks, done>>,
             Exclusive' = Exclusive
      PROVE  OnePlace'
  BY <1>1, <1>a, QuietStep
<1>2. ASSUME UNCHANGED <<queue, pending, waiting, active, tasks, done>>,
             Exclusive' = Exclusive, Accepted' = Accepted
      PROVE  OnePlace'
  BY <1>2, <1>a DEF OnePlace
<1>3. ASSUME NEW j \in Jobs, Handler(j) PROVE OnePlace'
  <2>1. CASE Reserve(j)
    <3>1. Accepted' = Accepted /\ Exclusive' = Exclusive
      BY <2>1, <1>b DEF Reserve, Accepted, Exclusive
    <3> QED BY <2>1, <3>1, <1>2 DEF Reserve
  <2>2. CASE TrySend(j)
    <3>1. CASE st' = [st EXCEPT ![j] = "refused"] /\ UNCHANGED queue
      <4>1. Accepted' = Accepted /\ Exclusive' = Exclusive
        BY <2>2, <3>1, <1>b DEF TrySend, Accepted, Exclusive
      <4> QED BY <2>2, <3>1, <4>1, <1>2 DEF TrySend
    <3>2. CASE st' = [st EXCEPT ![j] = "accepted"] /\ queue' = Append(queue, j)
      <4>1. j \notin Accepted /\ Accepted' = Accepted \cup {j} /\ Exclusive' = Exclusive
        BY <2>2, <3>2, <1>b DEF TrySend, Accepted, Exclusive
      <4>2. j \notin Elems(queue)
        BY <4>1, <1>a DEF OnePlace
      <4>3. Elems(queue') = Elems(queue) \cup {j} /\ Distinct(queue')
        BY <3>2, <4>2, <1>b, <1>c, ElemsAppend
      <4>4. UNCHANGED <<pending, waiting, active, tasks, done>>
        BY <2>2 DEF TrySend
      <4> QED BY <4>1, <4>3, <4>4, <1>a DEF OnePlace
    <3> QED BY <2>2, <3>1, <3>2 DEF TrySend
  <2>3. CASE Release(j)
    <3>1. Accepted' = Accepted \ {j} /\ j \notin Accepted
      BY <2>3, <1>a, ForgetSets DEF Release, Accepted
    <3>2. Accepted' = Accepted /\ Exclusive' = Exclusive
      BY <2>3, <3>1 DEF Release, Exclusive
    <3> QED BY <2>3, <3>2, <1>2 DEF Release
  <2>4. CASE Cancel(j)
    BY <2>4, <1>1 DEF Cancel, Exclusive
  <2> QED BY <1>3, <2>1, <2>2, <2>3, <2>4 DEF Handler
<1>4. CASE TakePending
  <2>1. Exclusive' = Exclusive /\ Accepted' = Accepted
    BY <1>4 DEF TakePending, Exclusive, Accepted
  <2>2. CASE pending # <<>> /\ HasFreeSlot
    <3>1. PICK x \in Jobs : pending = <<x>>
      BY <2>2, <1>a DEF RoundPhase
    <3>2. waiting' = Append(waiting, x) /\ pending' = <<>>
      BY <1>4, <2>2, <3>1 DEF TakePending
    <3>3. Elems(pending) = {x}
      BY <3>1 DEF Elems
    <3>4. x \notin Elems(waiting)
      BY <3>3, <1>a DEF OnePlace
    <3>5. Elems(waiting') = Elems(waiting) \cup {x} /\ Distinct(waiting')
      BY <3>2, <3>4, <1>b, <1>c, ElemsAppend
    <3>6. Elems(pending') = {} /\ Distinct(pending')
      BY <3>2, NoElems
    <3>7. UNCHANGED <<queue, active, tasks, done>>
      BY <1>4 DEF TakePending
    <3> QED BY <2>1, <3>3, <3>5, <3>6, <3>7, <1>a DEF OnePlace
  <2>3. CASE ~(pending # <<>> /\ HasFreeSlot)
    BY <1>4, <2>1, <2>3, <1>2 DEF TakePending
  <2> QED BY <2>2, <2>3
<1>5. CASE RecvCooperative
  <2> DEFINE x == Head(queue)
  <2>1. Exclusive' = Exclusive /\ Accepted' = Accepted /\ pending = <<>>
    BY <1>5 DEF RecvCooperative, Exclusive, Accepted
  <2>2. /\ x \in Jobs /\ x \in Elems(queue)
        /\ Elems(queue') = Elems(queue) \ {x} /\ Distinct(queue')
    BY <1>5, <1>b, <1>c, ElemsTail DEF RecvCooperative
  <2>3. UNCHANGED <<active, tasks, done>>
    BY <1>5 DEF RecvCooperative
  <2>4. x \notin Elems(waiting) /\ Elems(pending) = {}
    BY <2>1, <2>2, <1>a, NoElems DEF OnePlace
  <2>5. CASE HasFreeSlot
    <3>1. waiting' = Append(waiting, x) /\ pending' = pending
      BY <1>5, <2>5 DEF RecvCooperative
    <3> HIDE DEF x
    <3>2. Elems(waiting') = Elems(waiting) \cup {x} /\ Distinct(waiting')
      BY <3>1, <2>2, <2>4, <1>b, <1>c, ElemsAppend
    <3> QED BY <2>1, <2>2, <2>3, <2>4, <3>1, <3>2, <1>a DEF OnePlace
  <2>6. CASE ~HasFreeSlot
    <3>1. waiting' = waiting /\ pending' = <<x>>
      BY <1>5, <2>6 DEF RecvCooperative
    <3> HIDE DEF x
    <3>2. Elems(pending') = {x} /\ Distinct(pending')
      BY <3>1 DEF Elems, Distinct
    <3> QED BY <2>1, <2>2, <2>3, <2>4, <3>1, <3>2, <1>a DEF OnePlace
  <2> QED BY <2>5, <2>6
<1>6. CASE RecvExclusive
  <2> DEFINE x == Head(queue)
  <2>1. Exclusive = {} /\ Exclusive' = {x} /\ Accepted' = Accepted
    BY <1>6 DEF RecvExclusive, Exclusive, Accepted
  <2>2. /\ x \in Elems(queue)
        /\ Elems(queue') = Elems(queue) \ {x} /\ Distinct(queue')
    BY <1>6, <1>b, <1>c, ElemsTail DEF RecvExclusive
  <2>3. UNCHANGED <<pending, waiting, active, tasks, done>>
    BY <1>6 DEF RecvExclusive
  <2> HIDE DEF x
  <2> QED BY <2>1, <2>2, <2>3, <1>a DEF OnePlace
<1>7. CASE RetireExclusive
  <2>1. Accepted' = Accepted \ exec
    BY <1>7, <1>a, ForgetSets DEF RetireExclusive
  <2>2. Exclusive = exec /\ Exclusive' = {}
    BY <1>7 DEF RetireExclusive, Exclusive
  <2>3. UNCHANGED <<queue, pending, waiting, active, tasks, done>>
    BY <1>7 DEF RetireExclusive
  <2> QED BY <2>1, <2>2, <2>3, <1>a DEF OnePlace
<1>8. CASE StartRound
  <2>1. Exclusive = {} /\ Exclusive' = {} /\ Accepted' = Accepted
    BY <1>8 DEF StartRound, Exclusive, Accepted
  <2>2. tasks' = Filled /\ waiting' = Unfilled /\ active' = <<>>
    BY <1>8 DEF StartRound
  <2>3. Elems(active') = {} /\ Distinct(active')
    BY <2>2, NoElems
  <2>4. tasks = <<>> /\ done = {}
    BY <1>8, <1>a DEF StartRound, RoundPhase
  <2>5. Elems(tasks) = {}
    BY <2>4, NoElems
  <2>6. UNCHANGED <<queue, pending, done>>
    BY <1>8 DEF StartRound
  <2>7. /\ Distinct(tasks') /\ Distinct(waiting')
        /\ Elems(tasks') \cap Elems(waiting') = {}
        /\ Elems(tasks') \cup Elems(waiting') = Elems(active) \cup Elems(waiting)
    BY <2>2, <1>a, FillSlots
  <2> QED BY <2>1, <2>3, <2>4, <2>5, <2>6, <2>7, <1>a DEF OnePlace
<1>9. CASE KeyPanics
  <2>1. Exclusive' = {} /\ Accepted' = {}
    BY <1>9, <1>b DEF KeyPanics, Exclusive, Accepted, Status
  <2>2. /\ queue' = <<>> /\ pending' = <<>> /\ waiting' = <<>> /\ active' = <<>>
        /\ tasks' = <<>> /\ done' = {}
    BY <1>9, <1>a DEF KeyPanics, RoundPhase
  <2>3. /\ Elems(queue') = {} /\ Distinct(queue')
        /\ Elems(pending') = {} /\ Distinct(pending')
        /\ Elems(waiting') = {} /\ Distinct(waiting')
        /\ Elems(active') = {} /\ Distinct(active')
        /\ Elems(tasks') = {} /\ Distinct(tasks')
    BY <2>2, NoElems
  <2> QED BY <2>1, <2>2, <2>3 DEF OnePlace
<1>10. CASE CollectResult
  <2> DEFINE x == Head(tasks)
  <2>1. Exclusive = {} /\ Exclusive' = {} /\ Accepted' = Accepted
    BY <1>10 DEF CollectResult, Exclusive, Accepted
  <2>2. /\ x \in Jobs /\ x \in Elems(tasks)
        /\ Elems(tasks') = Elems(tasks) \ {x} /\ Distinct(tasks')
    BY <1>10, <1>b, <1>c, ElemsTail DEF CollectResult
  <2>3. UNCHANGED <<queue, pending, waiting>>
    BY <1>10 DEF CollectResult
  <2>4. \/ active' = Append(active, x) /\ done' = done
        \/ active' = active /\ done' = done \cup {x}
    BY <1>10 DEF CollectResult, Requeued
  <2> HIDE DEF x
  <2>5. x \notin Elems(active)
    BY <2>2, <1>a DEF OnePlace
  <2>6. CASE active' = Append(active, x) /\ done' = done
    <3>1. Elems(active') = Elems(active) \cup {x} /\ Distinct(active')
      BY <2>6, <2>2, <2>5, <1>b, <1>c, ElemsAppend
    <3> QED BY <2>1, <2>2, <2>3, <2>6, <3>1, <1>a DEF OnePlace
  <2>7. CASE active' = active /\ done' = done \cup {x}
    BY <2>1, <2>2, <2>3, <2>7, <1>a DEF OnePlace
  <2> QED BY <2>4, <2>6, <2>7
<1>11. CASE PublishOccupied
  <2>1. Exclusive' = Exclusive /\ Accepted' = Accepted
    BY <1>11 DEF PublishOccupied, Exclusive, Accepted
  <2>2. active' = Filled /\ waiting' = Unfilled /\ UNCHANGED <<queue, pending, tasks, done>>
    BY <1>11 DEF PublishOccupied
  <2>3. /\ Distinct(active') /\ Distinct(waiting')
        /\ Elems(active') \cap Elems(waiting') = {}
        /\ Elems(active') \cup Elems(waiting') = Elems(active) \cup Elems(waiting)
    BY <2>2, <1>a, FillSlots
  <2> QED BY <2>1, <2>2, <2>3, <1>a DEF OnePlace
<1>12. CASE RetireCompleted
  <2>1. Accepted' = Accepted \ done
    BY <1>12, <1>a, ForgetSets DEF RetireCompleted
  <2>2. Exclusive = {} /\ Exclusive' = {} /\ done' = {}
    BY <1>12 DEF RetireCompleted, Exclusive
  <2>3. UNCHANGED <<queue, pending, waiting, active, tasks>>
    BY <1>12 DEF RetireCompleted
  <2> QED BY <2>1, <2>2, <2>3, <1>a DEF OnePlace
<1>13. CASE DropHandles
  BY <1>13, <1>1 DEF DropHandles, Exclusive
<1>14. CASE FinishExclusive
  BY <1>14, <1>1 DEF FinishExclusive, Exclusive
<1>15. CASE StopReceiving
  BY <1>15, <1>1 DEF StopReceiving, Exclusive
<1>16. CASE RecvClosed
  BY <1>16, <1>1 DEF RecvClosed, Exclusive
<1>17. CASE ExitOrContinue
  <2>1. Exclusive' = Exclusive
    BY <1>17 DEF ExitOrContinue, Exclusive
  <2> QED BY <1>17, <2>1, <1>1 DEF ExitOrContinue
<1>18. CASE PickGroup
  BY <1>18, <1>1 DEF PickGroup, Exclusive
<1>19. CASE PickSolo
  BY <1>19, <1>1 DEF PickSolo, Exclusive
<1>20. CASE BeginStep
  <2>1. Exclusive' = Exclusive
    BY <1>20 DEF BeginStep, Exclusive
  <2> QED BY <1>20, <2>1, <1>1 DEF BeginStep
<1>21. CASE StepReturns
  <2>1. Exclusive' = Exclusive
    BY <1>21 DEF StepReturns, Record, Exclusive
  <2> QED BY <1>21, <2>1, <1>1 DEF StepReturns
<1>22. CASE GroupDeclines
  BY <1>22, <1>1 DEF GroupDeclines, Exclusive
<1>23. CASE StepPanics
  BY <1>23, <1>1 DEF StepPanics, Record, Exclusive
<1> QED
  BY <1>3, <1>4, <1>5, <1>6, <1>7, <1>8, <1>9, <1>10, <1>11, <1>12, <1>13, <1>14,
     <1>15, <1>16, <1>17, <1>18, <1>19, <1>20, <1>21, <1>22, <1>23
  DEF Next, Worker

\* Every step keeps the phase facts; the slots bound what a round may hold.
LEMMA PhaseStep ==
    ASSUME IInv, Next
    PROVE  RoundPhase'
<1> USE DEF handlerVars, jobVars, loopVars, batchVars, roundVars, slotVars
<1>a. TypeOK /\ DepthExact /\ OnePlace /\ RoundPhase
  BY DEF IInv
<1>b. /\ queue \in Seq(Jobs) /\ pending \in Seq(Jobs) /\ waiting \in Seq(Jobs)
      /\ active \in Seq(Jobs) /\ tasks \in Seq(Jobs) /\ exec \in SUBSET Jobs
  BY <1>a DEF TypeOK
<1>c. /\ Len(active) \in Nat /\ Len(tasks) \in Nat /\ Len(waiting) \in Nat
      /\ Slots \in Nat
  BY <1>b, LenProperties, BoundsAssumption
<1>d. Len(<<>>) = 0
  BY EmptySeq
<1>1. ASSUME UNCHANGED <<wpc, exec, tasks, done, pending, active, waiting>>
      PROVE  RoundPhase'
  BY <1>1, <1>a DEF RoundPhase
<1>2. ASSUME NEW j \in Jobs, Handler(j) PROVE RoundPhase'
  BY <1>2, <1>1 DEF Handler, Reserve, TrySend, Release, Cancel
<1>3. CASE DropHandles
  BY <1>3, <1>1 DEF DropHandles
<1>4. CASE TakePending
  <2>1. CASE pending # <<>> /\ HasFreeSlot
    <3>1. PICK x \in Jobs : pending = <<x>>
      BY <2>1, <1>a DEF RoundPhase
    <3>2. waiting' = Append(waiting, x) /\ pending' = <<>>
      BY <1>4, <2>1, <3>1 DEF TakePending
    <3>3. Len(waiting') = Len(waiting) + 1
      BY <3>2, <1>b, AppendProperties
    <3>4. tasks = <<>>
      BY <1>4, <1>a DEF TakePending, RoundPhase
    <3>5. Len(active) + Len(waiting) < Slots
      BY <2>1 DEF HasFreeSlot
    <3>6. Len(active') + Len(tasks') + Len(waiting') <= Slots
      BY <1>4, <3>3, <3>4, <3>5, <1>c, <1>d DEF TakePending
    <3> QED BY <1>4, <1>a, <3>2, <3>6 DEF TakePending, RoundPhase
  <2>2. CASE ~(pending # <<>> /\ HasFreeSlot)
    BY <1>4, <2>2, <1>a DEF TakePending, RoundPhase
  <2> QED BY <2>1, <2>2
<1>5. CASE RecvCooperative
  <2>1. Head(queue) \in Jobs
    BY <1>5, <1>b, HeadTailProperties DEF RecvCooperative
  <2>2. tasks = <<>>
    BY <1>5, <1>a DEF RecvCooperative, RoundPhase
  <2>3. CASE HasFreeSlot
    <3>1. waiting' = Append(waiting, Head(queue)) /\ pending' = pending
      BY <1>5, <2>3 DEF RecvCooperative
    <3>2. Len(waiting') = Len(waiting) + 1
      BY <3>1, <2>1, <1>b, AppendProperties
    <3>3. Len(active) + Len(waiting) < Slots
      BY <2>3 DEF HasFreeSlot
    <3>4. Len(active') + Len(tasks') + Len(waiting') <= Slots
      BY <1>5, <2>2, <3>2, <3>3, <1>c, <1>d DEF RecvCooperative
    <3> QED BY <1>5, <1>a, <3>1, <3>4 DEF RecvCooperative, RoundPhase
  <2>4. CASE ~HasFreeSlot
    <3>1. waiting' = waiting /\ pending' = <<Head(queue)>>
      BY <1>5, <2>4 DEF RecvCooperative
    <3> QED BY <1>5, <1>a, <2>1, <3>1 DEF RecvCooperative, RoundPhase
  <2> QED BY <2>3, <2>4
<1>6. CASE RecvExclusive
  <2>1. Head(queue) \in Jobs
    BY <1>6, <1>b, HeadTailProperties DEF RecvExclusive
  <2> QED BY <1>6, <1>a, <2>1 DEF RecvExclusive, RoundPhase
<1>7. CASE StartRound
  <2>1. tasks' = Filled /\ waiting' = Unfilled /\ active' = <<>>
    BY <1>7 DEF StartRound
  <2>2. tasks = <<>>
    BY <1>7, <1>a DEF StartRound, RoundPhase
  <2>3. /\ Len(tasks') + Len(waiting') = Len(active) + Len(waiting)
        /\ Len(tasks') \in Nat /\ Len(waiting') \in Nat
    BY <2>1, <1>a, FillSlots
  <2>4. Len(active) + Len(waiting) <= Slots
    BY <2>2, <1>a, <1>c, <1>d DEF RoundPhase
  <2>5. Len(active') = 0
    BY <2>1, <1>d
  <2>6. Len(active') + Len(tasks') + Len(waiting') <= Slots
    BY <2>3, <2>4, <2>5, <1>c
  <2> QED BY <1>7, <1>a, <2>6 DEF StartRound, RoundPhase
<1>8. CASE KeyPanics
  <2>1. /\ waiting' = <<>> /\ active' = <<>> /\ tasks' = <<>> /\ pending' = <<>>
        /\ wpc' = "dead"
    BY <1>8, <1>a DEF KeyPanics, RoundPhase
  <2>2. Len(active') + Len(tasks') + Len(waiting') <= Slots
    BY <2>1, <1>c, <1>d
  <2> QED BY <2>1, <2>2 DEF RoundPhase
<1>9. CASE CollectResult
  <2>1. /\ Head(tasks) \in Jobs
        /\ tasks' = Tail(tasks)
        /\ Len(tasks') = Len(tasks) - 1
    BY <1>9, <1>b, HeadTailProperties DEF CollectResult
  <2>2. \/ active' = Append(active, Head(tasks))
        \/ active' = active
    BY <1>9 DEF CollectResult, Requeued
  <2>3. Len(active') <= Len(active) + 1 /\ Len(active') \in Nat
    BY <2>1, <2>2, <1>b, <1>c, AppendProperties
  <2>4. Len(active') + Len(tasks') + Len(waiting') <= Slots
    BY <1>9, <1>a, <1>c, <2>1, <2>3 DEF CollectResult, RoundPhase
  <2> QED BY <1>9, <1>a, <2>4 DEF CollectResult, RoundPhase
<1>10. CASE PublishOccupied
  <2>1. active' = Filled /\ waiting' = Unfilled /\ tasks' = tasks
    BY <1>10 DEF PublishOccupied
  <2>2. /\ Len(active') + Len(waiting') = Len(active) + Len(waiting)
        /\ Len(active') \in Nat /\ Len(waiting') \in Nat
    BY <2>1, <1>a, FillSlots
  <2>3. Len(active') + Len(tasks') + Len(waiting') <= Slots
    BY <1>a, <1>c, <2>1, <2>2 DEF RoundPhase
  <2> QED BY <1>10, <1>a, <2>3 DEF PublishOccupied, RoundPhase
<1>11. CASE FinishExclusive \/ RetireExclusive \/ StopReceiving \/ RecvClosed
  BY <1>11, <1>a DEF FinishExclusive, RetireExclusive, StopReceiving, RecvClosed, RoundPhase
<1>12. CASE ExitOrContinue \/ PickGroup \/ PickSolo \/ GroupDeclines
  BY <1>12, <1>a DEF ExitOrContinue, PickGroup, PickSolo, GroupDeclines, RoundPhase
<1>13. CASE BeginStep
  <2>1. wpc' \in {"run", "begin"} /\ UNCHANGED <<tasks, done, pending, active, waiting>>
    BY <1>13 DEF BeginStep
  <2> QED BY <2>1, <1>a DEF RoundPhase
<1>14. CASE StepReturns
  <2>1. wpc' = "pick" /\ UNCHANGED <<tasks, done, pending, active, waiting>>
    BY <1>14 DEF StepReturns, Record
  <2> QED BY <2>1, <1>a DEF RoundPhase
<1>15. CASE StepPanics \/ RetireCompleted
  BY <1>15, <1>a DEF StepPanics, Record, RetireCompleted, RoundPhase
<1> QED
  BY <1>2, <1>3, <1>4, <1>5, <1>6, <1>7, <1>8, <1>9, <1>10, <1>11, <1>12, <1>13,
     <1>14, <1>15
  DEF Next, Worker

\* The invariant is inductive.
LEMMA StepIInv == IInv /\ [Next]_vars => IInv'
<1> SUFFICES ASSUME IInv, [Next]_vars PROVE IInv'
  OBVIOUS
<1>1. CASE Next
  <2>1. TypeOK' /\ DepthExact' /\ OnePlace' /\ RoundPhase'
    BY <1>1, TypeStep, DepthStep, PlaceStep, PhaseStep DEF IInv
  <2> QED BY <2>1 DEF IInv
<1>2. CASE UNCHANGED vars
  <2> USE DEF vars, handlerVars, jobVars, loopVars, batchVars, roundVars, slotVars
  <2>1. TypeOK'
    BY <1>2 DEF TypeOK, IInv
  <2>2. DepthExact' /\ OnePlace'
    <3>1. Exclusive' = Exclusive
      BY <1>2 DEF Exclusive
    <3> QED BY <1>2, <3>1, QuietStep DEF IInv
  <2>3. RoundPhase'
    BY <1>2 DEF RoundPhase, IInv
  <2> QED BY <2>1, <2>2, <2>3 DEF IInv
<1> QED BY <1>1, <1>2

\* IInv holds in every reachable state of the worker.
LEMMA Invariance == Spec => []IInv
<1>1. Init => IInv
  BY InitIInv
<1>2. IInv /\ [Next]_vars => IInv'
  BY StepIInv
<1> QED BY <1>1, <1>2, PTL DEF Spec

\* The state the worker thread and the handlers share never leaves its types,
\* in particular no stream takes more steps than its token budget.
THEOREM TypeCorrect == Spec => []TypeOK
<1>1. IInv => TypeOK
  BY DEF IInv
<1> QED BY <1>1, Invariance, PTL

\* EngineHandle.depth counts the unretired jobs exactly, whatever the number
\* of handlers that race inside post and of jobs a round retires at once.
THEOREM DepthCounts == Spec => []DepthExact
<1>1. IInv => DepthExact
  BY DEF IInv
<1> QED BY <1>1, Invariance, PTL

\* No hand-over between the channel, the held-back stream, the two queues of
\* the batch and the round loses or duplicates a job.
THEOREM PlacesExact == Spec => []OnePlace
<1>1. IInv => OnePlace
  BY DEF IInv
<1> QED BY <1>1, Invariance, PTL

(***************************************************************************)
(* Backpressure.                                                           *)
(***************************************************************************)

\* What IInv leaves open about numbers: the channel stays within its capacity,
\* a slot is not given away before its completed stream is retired, and an
\* exclusive job never runs over a held-back stream.
Bounded ==
    /\ Len(queue) <= QueueDepth
    /\ Len(active) + Len(tasks) + Len(waiting) + Cardinality(done) <= Slots
    /\ wpc \in {"exclusive", "lowerDepth"} => pending = <<>>

\* A sequence of jobs has at most as many members as places.
LEMMA ElemsCount ==
    ASSUME NEW S, NEW s \in Seq(S)
    PROVE  /\ IsFiniteSet(Elems(s))
           /\ Cardinality(Elems(s)) \in Nat
           /\ Cardinality(Elems(s)) <= Len(s)
<1>1. DOMAIN s = 1 .. Len(s) /\ Len(s) \in Nat
  BY LenProperties
<1>2. IsFiniteSet(DOMAIN s) /\ Cardinality(DOMAIN s) = Len(s)
  BY <1>1, FS_Interval
<1>3. s \in Surjection(DOMAIN s, Elems(s))
  <2>1. s = [i \in DOMAIN s |-> s[i]]
    BY <1>1, SeqDef
  <2> QED BY <2>1 DEF Surjection, Elems
<1>4. IsFiniteSet(Elems(s)) /\ Cardinality(Elems(s)) <= Len(s)
  BY <1>2, <1>3, FS_Surjection
<1> QED BY <1>4, FS_CardinalityType

\* A union has at most as many members as its two parts together.
LEMMA UnionCount ==
    ASSUME NEW S, IsFiniteSet(S), NEW T, IsFiniteSet(T),
           NEW m \in Nat, Cardinality(S) <= m,
           NEW n \in Nat, Cardinality(T) <= n
    PROVE  IsFiniteSet(S \cup T) /\ Cardinality(S \cup T) <= m + n
<1>1. IsFiniteSet(S \cap T)
  BY FS_Intersection
<1>2. /\ Cardinality(S) \in Nat /\ Cardinality(T) \in Nat
      /\ Cardinality(S \cap T) \in Nat
  BY <1>1, FS_CardinalityType
<1>3. /\ IsFiniteSet(S \cup T)
      /\ Cardinality(S \cup T) = Cardinality(S) + Cardinality(T) - Cardinality(S \cap T)
  BY FS_Union
<1> QED BY <1>2, <1>3

\* Initially everything is empty.
LEMMA InitBounded == Init => Bounded
<1> SUFFICES ASSUME Init PROVE Bounded
  OBVIOUS
<1>1. Cardinality(done) = 0
  BY FS_EmptySet DEF Init
<1>2. /\ Len(queue) = 0 /\ Len(active) = 0 /\ Len(tasks) = 0 /\ Len(waiting) = 0
      /\ pending = <<>>
  BY EmptySeq DEF Init
<1> QED BY <1>1, <1>2, BoundsAssumption DEF Bounded

\* Every step keeps the numbers: the channel refuses what does not fit, the
\* batch admits only with a free slot, and the jobs a round completes still
\* count against the slots until they are retired.
LEMMA BoundedStep ==
    ASSUME IInv, Bounded, Next
    PROVE  Bounded'
<1> USE DEF handlerVars, jobVars, loopVars, batchVars, roundVars, slotVars
<1>a. TypeOK /\ DepthExact /\ OnePlace /\ RoundPhase
  BY DEF IInv
<1>b. /\ queue \in Seq(Jobs) /\ pending \in Seq(Jobs) /\ waiting \in Seq(Jobs)
      /\ active \in Seq(Jobs) /\ tasks \in Seq(Jobs) /\ done \in SUBSET Jobs
  BY <1>a DEF TypeOK
<1>c. IsFiniteSet(done) /\ Cardinality(done) \in Nat
  BY <1>b, JobsAssumption, FS_Subset, FS_CardinalityType
<1>d. /\ Len(active) \in Nat /\ Len(tasks) \in Nat /\ Len(waiting) \in Nat
      /\ Len(queue) \in Nat /\ Slots \in Nat /\ QueueDepth \in Nat
  BY <1>b, LenProperties, BoundsAssumption
<1>e. Len(<<>>) = 0 /\ Cardinality({}) = 0
  BY EmptySeq, FS_EmptySet
<1>1. ASSUME UNCHANGED <<wpc, queue, tasks, done, pending, active, waiting>>
      PROVE  Bounded'
  BY <1>1 DEF Bounded
<1>2. ASSUME NEW j \in Jobs, Handler(j) PROVE Bounded'
  <2>1. CASE Reserve(j) \/ Release(j) \/ Cancel(j)
    BY <2>1, <1>1 DEF Reserve, Release, Cancel
  <2>2. CASE TrySend(j)
    <3>1. UNCHANGED <<wpc, tasks, done, pending, active, waiting>>
      BY <2>2 DEF TrySend
    <3>2. \/ queue' = Append(queue, j) /\ Len(queue) < QueueDepth
          \/ queue' = queue
      BY <2>2, <1>d DEF TrySend, ChannelFull
    <3>3. Len(queue') <= QueueDepth
      BY <3>2, <1>b, <1>d, AppendProperties DEF Bounded
    <3> QED BY <3>1, <3>3 DEF Bounded
  <2> QED BY <1>2, <2>1, <2>2 DEF Handler
<1>3. CASE TakePending
  <2>1. tasks = <<>> /\ done = {}
    BY <1>3, <1>a DEF TakePending, RoundPhase
  <2>2. CASE pending # <<>> /\ HasFreeSlot
    <3>1. PICK x \in Jobs : pending = <<x>>
      BY <2>2, <1>a DEF RoundPhase
    <3>2. waiting' = Append(waiting, x)
      BY <1>3, <2>2, <3>1 DEF TakePending
    <3>3. Len(waiting') = Len(waiting) + 1
      BY <3>2, <1>b, AppendProperties
    <3>4. Len(active) + Len(waiting) < Slots
      BY <2>2 DEF HasFreeSlot
    <3>5. Len(active') + Len(tasks') + Len(waiting') + Cardinality(done') <= Slots
      BY <1>3, <2>1, <3>3, <3>4, <1>d, <1>e DEF TakePending
    <3> QED BY <1>3, <3>5 DEF TakePending, Bounded
  <2>3. CASE ~(pending # <<>> /\ HasFreeSlot)
    BY <1>3, <2>3 DEF TakePending, Bounded
  <2> QED BY <2>2, <2>3
<1>4. CASE RecvCooperative
  <2>1. tasks = <<>> /\ done = {}
    BY <1>4, <1>a DEF RecvCooperative, RoundPhase
  <2>2. Head(queue) \in Jobs /\ Len(queue') = Len(queue) - 1
    BY <1>4, <1>b, HeadTailProperties DEF RecvCooperative
  <2>3. Len(queue') <= QueueDepth
    BY <2>2, <1>d DEF Bounded
  <2>4. Len(active') + Len(tasks') + Len(waiting') + Cardinality(done') <= Slots
    <3>1. CASE HasFreeSlot
      <4>1. waiting' = Append(waiting, Head(queue))
        BY <1>4, <3>1 DEF RecvCooperative
      <4>2. Len(waiting') = Len(waiting) + 1
        BY <4>1, <2>2, <1>b, AppendProperties
      <4>3. Len(active) + Len(waiting) < Slots
        BY <3>1 DEF HasFreeSlot
      <4> QED BY <1>4, <2>1, <4>2, <4>3, <1>d, <1>e DEF RecvCooperative
    <3>2. CASE ~HasFreeSlot
      BY <1>4, <3>2 DEF RecvCooperative, Bounded
    <3> QED BY <3>1, <3>2
  <2> QED BY <1>4, <2>3, <2>4 DEF RecvCooperative, Bounded
<1>5. CASE RecvExclusive
  <2>1. Len(queue') = Len(queue) - 1
    BY <1>5, <1>b, HeadTailProperties DEF RecvExclusive
  <2>2. Len(queue') <= QueueDepth
    BY <2>1, <1>d DEF Bounded
  <2> QED BY <1>5, <2>2 DEF RecvExclusive, Bounded
<1>6. CASE StartRound
  <2>1. tasks' = Filled /\ waiting' = Unfilled /\ active' = <<>> /\ done' = done
    BY <1>6 DEF StartRound
  <2>2. tasks = <<>>
    BY <1>6, <1>a DEF StartRound, RoundPhase
  <2>3. /\ Len(tasks') + Len(waiting') = Len(active) + Len(waiting)
        /\ Len(tasks') \in Nat /\ Len(waiting') \in Nat
    BY <2>1, <1>a, FillSlots
  <2>4. Len(active') + Len(tasks') + Len(waiting') + Cardinality(done') <= Slots
    BY <2>1, <2>2, <2>3, <1>c, <1>d, <1>e DEF Bounded
  <2> QED BY <1>6, <2>4 DEF StartRound, Bounded
<1>7. CASE KeyPanics
  <2>1. /\ queue' = <<>> /\ waiting' = <<>> /\ active' = <<>> /\ tasks' = <<>>
        /\ pending' = <<>> /\ done' = {}
    BY <1>7, <1>a DEF KeyPanics, RoundPhase
  <2> QED BY <2>1, <1>d, <1>e DEF Bounded
<1>8. CASE CollectResult
  <2>1. Head(tasks) \in Jobs /\ Len(tasks') = Len(tasks) - 1
    BY <1>8, <1>b, HeadTailProperties DEF CollectResult
  <2>2. \/ active' = Append(active, Head(tasks)) /\ done' = done
        \/ active' = active /\ done' = done \cup {Head(tasks)}
    BY <1>8 DEF CollectResult, Requeued
  <2>3. /\ Len(active') + Cardinality(done') <= Len(active) + Cardinality(done) + 1
        /\ Len(active') \in Nat /\ Cardinality(done') \in Nat
    <3>1. CASE active' = Append(active, Head(tasks)) /\ done' = done
      BY <3>1, <2>1, <1>b, <1>c, <1>d, AppendProperties
    <3>2. CASE active' = active /\ done' = done \cup {Head(tasks)}
      <4>1. Cardinality(done') \in {Cardinality(done), Cardinality(done) + 1}
        BY <3>2, <1>c, FS_AddElement
      <4> QED BY <3>2, <4>1, <1>c, <1>d
    <3> QED BY <2>2, <3>1, <3>2
  <2>4. Len(active') + Len(tasks') + Len(waiting') + Cardinality(done') <= Slots
    BY <1>8, <2>1, <2>3, <1>c, <1>d DEF CollectResult, Bounded
  <2> QED BY <1>8, <2>4 DEF CollectResult, Bounded
<1>9. CASE PublishOccupied
  <2>1. active' = Filled /\ waiting' = Unfilled /\ tasks' = tasks /\ done' = done
    BY <1>9 DEF PublishOccupied
  <2>2. /\ Len(active') + Len(waiting') = Len(active) + Len(waiting)
        /\ Len(active') \in Nat /\ Len(waiting') \in Nat
    BY <2>1, <1>a, FillSlots
  <2>3. Len(active') + Len(tasks') + Len(waiting') + Cardinality(done') <= Slots
    BY <2>1, <2>2, <1>c, <1>d DEF Bounded
  <2> QED BY <1>9, <2>3 DEF PublishOccupied, Bounded
<1>10. CASE RetireCompleted
  <2>1. Len(active') + Len(tasks') + Len(waiting') + Cardinality(done') <= Slots
    BY <1>10, <1>c, <1>d, <1>e DEF RetireCompleted, Bounded
  <2> QED BY <1>10, <2>1 DEF RetireCompleted, Bounded
<1>11. CASE FinishExclusive \/ RetireExclusive \/ StopReceiving \/ RecvClosed
  BY <1>11 DEF FinishExclusive, RetireExclusive, StopReceiving, RecvClosed, Bounded
<1>12. CASE ExitOrContinue \/ PickGroup \/ PickSolo \/ GroupDeclines \/ DropHandles
  BY <1>12 DEF ExitOrContinue, PickGroup, PickSolo, GroupDeclines, DropHandles, Bounded
<1>13. CASE BeginStep
  <2>1. /\ wpc' \in {"run", "begin"}
        /\ UNCHANGED <<queue, tasks, done, pending, active, waiting>>
    BY <1>13 DEF BeginStep
  <2> QED BY <2>1 DEF Bounded
<1>14. CASE StepReturns \/ StepPanics
  <2>1. wpc' = "pick" /\ UNCHANGED <<queue, tasks, done, pending, active, waiting>>
    BY <1>14 DEF StepReturns, StepPanics, Record
  <2> QED BY <2>1 DEF Bounded
<1> QED
  BY <1>2, <1>3, <1>4, <1>5, <1>6, <1>7, <1>8, <1>9, <1>10, <1>11, <1>12, <1>13,
     <1>14
  DEF Next, Worker

\* IInv and the numbers hold together in every reachable state.
LEMMA Invariance2 == Spec => [](IInv /\ Bounded)
<1>1. Init => IInv /\ Bounded
  BY InitIInv, InitBounded
<1>2. IInv /\ Bounded /\ [Next]_vars => IInv' /\ Bounded'
  <2> SUFFICES ASSUME IInv, Bounded, [Next]_vars PROVE IInv' /\ Bounded'
    OBVIOUS
  <2>1. IInv'
    BY StepIInv
  <2>2. CASE Next
    BY <2>1, <2>2, BoundedStep
  <2>3. CASE UNCHANGED vars
    <3>1. UNCHANGED <<wpc, queue, tasks, done, pending, active, waiting>>
      BY <2>3 DEF vars, handlerVars, jobVars, loopVars, batchVars, roundVars, slotVars
    <3> QED BY <2>1, <3>1 DEF Bounded
  <2> QED BY <2>2, <2>3
<1> QED BY <1>1, <1>2, PTL DEF Spec

\* The counts add up: the streams in slots, one held-back stream or one running
\* exclusive job but never both, and a full channel.
LEMMA BoundedBacklog ==
    ASSUME IInv, Bounded
    PROVE  BacklogBounded
<1> DEFINE q == Elems(queue)   p == Elems(pending)  w == Elems(waiting)
           a == Elems(active)  t == Elems(tasks)
<1>a. TypeOK /\ OnePlace /\ RoundPhase
  BY DEF IInv
<1>b. /\ queue \in Seq(Jobs) /\ pending \in Seq(Jobs) /\ waiting \in Seq(Jobs)
      /\ active \in Seq(Jobs) /\ tasks \in Seq(Jobs) /\ done \in SUBSET Jobs
  BY <1>a DEF TypeOK
<1>c. IsFiniteSet(done) /\ Cardinality(done) \in Nat
  BY <1>b, JobsAssumption, FS_Subset, FS_CardinalityType
<1>d. /\ Len(active) \in Nat /\ Len(tasks) \in Nat /\ Len(waiting) \in Nat
      /\ Len(queue) \in Nat /\ Len(pending) \in Nat
      /\ Slots \in Nat /\ QueueDepth \in Nat
  BY <1>b, LenProperties, BoundsAssumption
<1>1. Len(pending) <= 1
  <2>1. ASSUME NEW x \in Jobs, pending = <<x>> PROVE Len(pending) = 1
    BY <2>1
  <2>2. pending = <<>> => Len(pending) = 0
    BY EmptySeq
  <2>3. pending = <<>> \/ \E x \in Jobs : pending = <<x>>
    BY <1>a DEF RoundPhase
  <2>4. CASE pending = <<>>
    <3>1. Len(pending) = 0
      BY <2>2, <2>4
    <3> QED BY <3>1
  <2>5. CASE \E x \in Jobs : pending = <<x>>
    <3>1. Len(pending) = 1
      BY <2>1, <2>5
    <3> QED BY <3>1
  <2> QED BY <2>3, <2>4, <2>5
<1>2. Len(Held) <= Slots + 1
  <2>1. active \o tasks \in Seq(Jobs) /\ Len(active \o tasks) = Len(active) + Len(tasks)
    BY <1>b, ConcatProperties
  <2>2. /\ active \o tasks \o waiting \in Seq(Jobs)
        /\ Len(active \o tasks \o waiting) = Len(active) + Len(tasks) + Len(waiting)
    BY <2>1, <1>b, ConcatProperties
  <2>3. Len(Held) = Len(active) + Len(tasks) + Len(waiting) + Len(pending)
    BY <2>2, <1>b, ConcatProperties DEF Held
  <2> QED BY <2>3, <1>1, <1>a, <1>d DEF RoundPhase
<1>3. IsFiniteSet(p \cup Exclusive) /\ Cardinality(p \cup Exclusive) <= 1
  <2>1. CASE wpc \in {"exclusive", "lowerDepth"}
    <3>1. p = {} /\ \E x \in Jobs : Exclusive = {x}
      BY <2>1, <1>a, NoElems DEF Bounded, RoundPhase, Exclusive
    <3>2. PICK x \in Jobs : p \cup Exclusive = {x}
      BY <3>1
    <3>3. IsFiniteSet({x}) /\ Cardinality({x}) = 1
      BY FS_Singleton
    <3>4. IsFiniteSet(p \cup Exclusive) /\ Cardinality(p \cup Exclusive) = 1
      BY <3>2, <3>3
    <3> QED BY <3>4
  <2>2. CASE wpc \notin {"exclusive", "lowerDepth"}
    <3>1. p \cup Exclusive = p
      BY <2>2 DEF Exclusive
    <3>2. IsFiniteSet(p) /\ Cardinality(p) \in Nat /\ Cardinality(p) <= Len(pending)
      BY <1>b, ElemsCount
    <3> HIDE DEF p
    <3>3. Cardinality(p) <= 1
      BY <3>2, <1>1, <1>d
    <3> QED BY <3>1, <3>2, <3>3
  <2> QED BY <2>1, <2>2
<1>4. /\ IsFiniteSet(q) /\ Cardinality(q) <= Len(queue)
      /\ IsFiniteSet(w) /\ Cardinality(w) <= Len(waiting)
      /\ IsFiniteSet(a) /\ Cardinality(a) <= Len(active)
      /\ IsFiniteSet(t) /\ Cardinality(t) <= Len(tasks)
  BY <1>b, ElemsCount
<1> HIDE DEF q, p, w, a, t
<1>5. IsFiniteSet(a \cup t) /\ Cardinality(a \cup t) <= Len(active) + Len(tasks)
  BY <1>4, <1>d, UnionCount
<1>6. /\ IsFiniteSet((a \cup t) \cup w)
      /\ Cardinality((a \cup t) \cup w) <= (Len(active) + Len(tasks)) + Len(waiting)
  <2>1. Len(active) + Len(tasks) \in Nat
    BY <1>d
  <2> QED BY <2>1, <1>4, <1>5, <1>d, UnionCount
<1>7. /\ IsFiniteSet(((a \cup t) \cup w) \cup done)
      /\ Cardinality(((a \cup t) \cup w) \cup done) <= Slots
  <2>1. (Len(active) + Len(tasks)) + Len(waiting) \in Nat
    BY <1>d
  <2>2. /\ IsFiniteSet(((a \cup t) \cup w) \cup done)
        /\ Cardinality(((a \cup t) \cup w) \cup done)
              <= ((Len(active) + Len(tasks)) + Len(waiting)) + Cardinality(done)
    <3> DEFINE u == (a \cup t) \cup w
               m == (Len(active) + Len(tasks)) + Len(waiting)
               n == Cardinality(done)
    <3>1. IsFiniteSet(u) /\ Cardinality(u) <= m /\ m \in Nat
      BY <2>1, <1>6
    <3>2. IsFiniteSet(done) /\ Cardinality(done) <= n /\ n \in Nat
      BY <1>c
    <3> HIDE DEF u, m, n
    <3>3. IsFiniteSet(u \cup done) /\ Cardinality(u \cup done) <= m + n
      BY <3>1, <3>2, UnionCount
    <3> QED BY <3>3 DEF u, m, n
  <2>3. Cardinality(((a \cup t) \cup w) \cup done) \in Nat
    BY <2>2, FS_CardinalityType
  <2> QED BY <2>2, <2>3, <1>c, <1>d DEF Bounded
<1>8. IsFiniteSet(q) /\ Cardinality(q) <= QueueDepth
  <2>1. Cardinality(q) \in Nat
    BY <1>4, FS_CardinalityType
  <2> QED BY <2>1, <1>4, <1>d DEF Bounded
<1> DEFINE r == ((a \cup t) \cup w) \cup done
<1>9. IsFiniteSet(q \cup r) /\ Cardinality(q \cup r) <= QueueDepth + Slots
  BY <1>7, <1>8, <1>d, UnionCount
<1>10. /\ IsFiniteSet((q \cup r) \cup (p \cup Exclusive))
       /\ Cardinality((q \cup r) \cup (p \cup Exclusive)) <= (QueueDepth + Slots) + 1
  <2> HIDE DEF r
  <2>1. QueueDepth + Slots \in Nat /\ 1 \in Nat
    BY <1>d
  <2> QED BY <2>1, <1>9, <1>3, UnionCount
<1>11. Accepted = (q \cup r) \cup (p \cup Exclusive)
  BY <1>a DEF OnePlace, q, p, w, a, t
<1>12. Cardinality(Accepted) <= QueueDepth + Slots + 1
  BY <1>10, <1>11, <1>d
<1> QED BY <1>2, <1>12 DEF BacklogBounded

\* Backpressure holds whatever the load: besides what fits in the channel the
\* worker never holds more than the streams in slots and one job.
THEOREM Backpressure == Spec => []BacklogBounded
<1>1. IInv /\ Bounded => BacklogBounded
  BY BoundedBacklog
<1> QED BY <1>1, Invariance2, PTL

(***************************************************************************)
(* The inductive invariants of a round.                                    *)
(***************************************************************************)

InRound == wpc \in {"pick", "begin", "run", "collect"}
Calling == IF wpc \in {"begin", "run"} THEN exec ELSE {}

\* The sets of a round belong to it, and a task is in at most one of them until
\* its step has an outcome.
RoundSets ==
    /\ wpc \notin {"pick", "begin", "run"} => todo = {} /\ solo = {}
    /\ (wpc = "begin") <=> (starting # {})
    /\ wpc \notin {"begin", "run", "exclusive", "lowerDepth"} => exec = {}
    /\ wpc = "run" => exec # {}
    /\ todo \cup solo \cup starting \cup Calling \subseteq Elems(tasks)
    /\ todo \cap (solo \cup starting \cup Calling) = {}
    /\ solo \cap (starting \cup Calling) = {}
    /\ starting \cap Calling = {}
    /\ \A j \in todo \cup solo \cup starting \cup Calling : outcome[j] = "none"

\* Who has a guard, an outcome or a step behind it, and where.
Traces ==
    /\ begun \subseteq Elems(active) \cup Elems(tasks)
    /\ Calling \subseteq begun
    /\ \A j \in Jobs : outcome[j] # "none" =>
          InRound /\ j \in Elems(active) \cup Elems(tasks) \cup done
    /\ \A j \in Jobs : outcome[j] = "continue" => taken[j] > 0
    /\ InRound => \A j \in Elems(active) : outcome[j] = "continue"
    /\ \A j \in Jobs : taken[j] # 0 =>
          st[j] = "lost" \/ j \in Elems(active) \cup Elems(tasks) \cup done

\* Until a call looks again, a token fired under it has cost it no step.
CancelFresh ==
    /\ \A j \in Jobs : cancelAt[j] # -1 => taken[j] <= cancelAt[j] + 1
    /\ wpc = "run" /\ ~sawCancel =>
          \A j \in exec : cancelAt[j] # -1 => taken[j] = cancelAt[j]

\* The channel stays empty behind the last handle.
Closing ==
    /\ ~open => \A j \in Jobs : st[j] \notin {"posting", "refused"}
    /\ disconnected => queue = <<>> /\ ~open

\* x is somewhere in front of y.
InOrder(s, x, y) == \E i, k \in DOMAIN s : i < k /\ s[i] = x /\ s[k] = y

\* The steps of a task before the current round.
Base(j) == IF outcome[j] = "continue" THEN taken[j] - 1 ELSE taken[j]

\* Before the round, those in front were at least as far as those behind.
Levelled == \A x, y \in Jobs : InOrder(Backlog, x, y) => Base(y) <= Base(x)

RInv == RoundSets /\ Traces /\ SlotTableExact /\ ActiveIdLive /\ CancelFresh /\ Closing

(***************************************************************************)
(* Where the tasks of a round go.                                          *)
(***************************************************************************)

\* fill_slots leaves the active tasks in front.
LEMMA FilledHolds ==
    ASSUME TypeOK, OnePlace, RoundPhase
    PROVE  Elems(active) \subseteq Elems(Filled) /\ Elems(Filled) \subseteq Jobs
<1> DEFINE l == SubSeq(waiting, 1, Room)
<1>1. /\ active \in Seq(Jobs) /\ waiting \in Seq(Jobs) /\ tasks \in Seq(Jobs)
      /\ Distinct(active) /\ Distinct(waiting)
      /\ Elems(active) \cap Elems(waiting) = {}
  BY DEF TypeOK, OnePlace
<1>2. Len(active) \in Nat /\ Len(waiting) \in Nat /\ Len(tasks) \in Nat /\ Slots \in Nat
  BY <1>1, LenProperties, BoundsAssumption
<1>3. Room \in 0 .. Len(waiting)
  BY <1>2 DEF Room, RoundPhase
<1>4. l \in Seq(Jobs) /\ Distinct(l) /\ Elems(l) \subseteq Elems(waiting)
  BY <1>1, <1>3, ElemsSplit
<1> HIDE DEF l
<1>5. Filled = active \o l
  BY DEF Filled, l
<1>6. Elems(active \o l) = Elems(active) \cup Elems(l)
  BY <1>1, <1>4, ElemsConcat
<1> QED BY <1>5, <1>6, <1>1, ElemsType, FillSlots

\* The sets of tasks before and after a step that touches them.
LEMMA TaskMoves ==
    ASSUME TypeOK, OnePlace, RoundPhase
    PROVE  /\ Elems(active) \subseteq Jobs /\ Elems(tasks) \subseteq Jobs
           /\ StartRound => /\ Elems(active') = {}
                            /\ Elems(active) \cup Elems(tasks) \subseteq Elems(tasks')
           /\ KeyPanics => Elems(active') = {} /\ Elems(tasks') = {} /\ done' = {}
           /\ CollectResult =>
                /\ Head(tasks) \in Jobs
                /\ Head(tasks) \in Elems(tasks)
                /\ Head(tasks) \notin Elems(active)
                /\ Elems(tasks') = Elems(tasks) \ {Head(tasks)}
                /\ outcome[Head(tasks)] = "continue" =>
                      Elems(active') = Elems(active) \cup {Head(tasks)}
           /\ PublishOccupied => /\ Elems(active) \subseteq Elems(active')
                                 /\ Elems(tasks) = {} /\ Elems(tasks') = {}
<1>0. active \in Seq(Jobs) /\ tasks \in Seq(Jobs) /\ Distinct(active) /\ Distinct(tasks)
  BY DEF TypeOK, OnePlace
<1>1. Elems(active) \subseteq Jobs /\ Elems(tasks) \subseteq Jobs
  BY <1>0, ElemsType
<1>2. ASSUME StartRound
      PROVE  /\ Elems(active') = {}
             /\ Elems(active) \cup Elems(tasks) \subseteq Elems(tasks')
  BY <1>2, FilledHolds, NoElems DEF StartRound, RoundPhase
<1>3. ASSUME KeyPanics PROVE Elems(active') = {} /\ Elems(tasks') = {} /\ done' = {}
  BY <1>3, NoElems DEF KeyPanics, RoundPhase, roundVars
<1>4. ASSUME CollectResult
      PROVE  /\ Head(tasks) \in Jobs
             /\ Head(tasks) \in Elems(tasks)
             /\ Head(tasks) \notin Elems(active)
             /\ Elems(tasks') = Elems(tasks) \ {Head(tasks)}
             /\ outcome[Head(tasks)] = "continue" =>
                   Elems(active') = Elems(active) \cup {Head(tasks)}
  <2>1. tasks # <<>> /\ tasks' = Tail(tasks)
    BY <1>4 DEF CollectResult
  <2>2. /\ Head(tasks) \in Jobs /\ Head(tasks) \in Elems(tasks)
        /\ Elems(tasks') = Elems(tasks) \ {Head(tasks)}
    BY <2>1, <1>0, ElemsTail
  <2>3. Head(tasks) \notin Elems(active)
    BY <2>2 DEF OnePlace
  <2>4. ASSUME outcome[Head(tasks)] = "continue"
        PROVE  Elems(active') = Elems(active) \cup {Head(tasks)}
    <3>1. active' = Append(active, Head(tasks))
      BY <1>4, <2>4 DEF CollectResult, Requeued
    <3> QED BY <3>1, <2>2, <1>0, ElemsAppend
  <2> QED BY <2>2, <2>3, <2>4
<1>5. ASSUME PublishOccupied
      PROVE  /\ Elems(active) \subseteq Elems(active')
             /\ Elems(tasks) = {} /\ Elems(tasks') = {}
  BY <1>5, FilledHolds, NoElems DEF PublishOccupied
<1> QED BY <1>1, <1>2, <1>3, <1>4, <1>5

\* The sets of a round stay apart.
LEMMA RoundSetsStep ==
    ASSUME IInv, RoundSets, Traces, Next
    PROVE  RoundSets'
<1>a. TypeOK /\ OnePlace /\ RoundPhase
  BY DEF IInv
<1>b. /\ outcome \in [Jobs -> Outcomes] /\ taken \in [Jobs -> 0 .. MaxSteps]
      /\ st \in [Jobs -> Status]
      /\ todo \subseteq Jobs /\ solo \subseteq Jobs /\ starting \subseteq Jobs
      /\ exec \subseteq Jobs /\ done \subseteq Jobs
  BY <1>a DEF TypeOK
<1> USE <1>b DEF RoundSets, Calling, handlerVars, jobVars, loopVars, batchVars, roundVars, slotVars
<1>1. ASSUME NEW j \in Jobs, Reserve(j) PROVE RoundSets'
  BY <1>1 DEF Reserve
<1>2. ASSUME NEW j \in Jobs, TrySend(j) PROVE RoundSets'
  BY <1>2 DEF TrySend
<1>3. ASSUME NEW j \in Jobs, Release(j) PROVE RoundSets'
  BY <1>3 DEF Release, Forget
<1>4. ASSUME NEW j \in Jobs, Cancel(j) PROVE RoundSets'
  BY <1>4 DEF Cancel
<1>5. CASE DropHandles
  BY <1>5 DEF DropHandles
<1>6. CASE TakePending
  BY <1>6 DEF TakePending
<1>7. CASE RecvCooperative
  BY <1>7 DEF RecvCooperative
<1>8. CASE RecvExclusive
  BY <1>8 DEF RecvExclusive
<1>9. CASE FinishExclusive
  BY <1>9 DEF FinishExclusive
<1>10. CASE RetireExclusive
  BY <1>10 DEF RetireExclusive, Forget
<1>11. CASE StopReceiving
  BY <1>11 DEF StopReceiving
<1>12. CASE RecvClosed
  BY <1>12 DEF RecvClosed
<1>13. CASE ExitOrContinue
  BY <1>13 DEF ExitOrContinue
<1>14. CASE StartRound
  BY <1>14, <1>a, TaskMoves, FilledHolds DEF StartRound, Traces, InRound
<1>15. CASE KeyPanics
  BY <1>15, <1>a, TaskMoves DEF KeyPanics
<1>16. CASE PickGroup
  BY <1>16 DEF PickGroup
<1>17. CASE PickSolo
  BY <1>17 DEF PickSolo
<1>18. CASE BeginStep
  BY <1>18 DEF BeginStep
<1>19. CASE StepReturns
  BY <1>19 DEF StepReturns, Record
<1>20. CASE GroupDeclines
  BY <1>20 DEF GroupDeclines
<1>21. CASE StepPanics
  BY <1>21 DEF StepPanics, Record
<1>22. CASE CollectResult
  BY <1>22, <1>a, TaskMoves DEF CollectResult
<1>23. CASE PublishOccupied
  BY <1>23, <1>a, TaskMoves DEF PublishOccupied
<1>24. CASE RetireCompleted
  BY <1>24 DEF RetireCompleted, Forget
<1> QED
  BY <1>1, <1>2, <1>3, <1>4, <1>5, <1>6, <1>7, <1>8, <1>9, <1>10, <1>11, <1>12,
     <1>13, <1>14, <1>15, <1>16, <1>17, <1>18, <1>19, <1>20, <1>21, <1>22, <1>23,
     <1>24
  DEF Next, Handler, Worker

\* Guards, outcomes and steps stay with their tasks.
LEMMA TracesStep ==
    ASSUME IInv, RoundSets, Traces, Next
    PROVE  Traces'
<1>a. TypeOK /\ OnePlace /\ RoundPhase
  BY DEF IInv
<1>b. /\ outcome \in [Jobs -> Outcomes] /\ taken \in [Jobs -> 0 .. MaxSteps]
      /\ st \in [Jobs -> Status]
      /\ todo \subseteq Jobs /\ solo \subseteq Jobs /\ starting \subseteq Jobs
      /\ exec \subseteq Jobs /\ done \subseteq Jobs
  BY <1>a DEF TypeOK
<1>c. /\ Elems(active) \cup Elems(tasks) \cup done \subseteq Accepted
      /\ Elems(active) \cap Elems(tasks) = {}
  BY <1>a DEF OnePlace
<1>d. Elems(active) \subseteq Jobs /\ Elems(tasks) \subseteq Jobs
  BY <1>a, TaskMoves
<1> USE <1>b DEF Traces, RoundSets, InRound, Calling, Status, handlerVars, jobVars,
                 loopVars, batchVars, roundVars, slotVars
<1>1. ASSUME NEW j \in Jobs, Reserve(j) PROVE Traces'
  BY <1>1 DEF Reserve
<1>2. ASSUME NEW j \in Jobs, TrySend(j) PROVE Traces'
  BY <1>2 DEF TrySend
<1>3. ASSUME NEW j \in Jobs, Release(j) PROVE Traces'
  BY <1>3, <1>c DEF Release, Forget, Accepted
<1>4. ASSUME NEW j \in Jobs, Cancel(j) PROVE Traces'
  BY <1>4 DEF Cancel
<1>5. CASE DropHandles
  BY <1>5 DEF DropHandles
<1>6. CASE TakePending
  BY <1>6 DEF TakePending
<1>7. CASE RecvCooperative
  BY <1>7 DEF RecvCooperative
<1>8. CASE RecvExclusive
  BY <1>8 DEF RecvExclusive
<1>9. CASE FinishExclusive
  BY <1>9 DEF FinishExclusive
<1>10. CASE RetireExclusive
  BY <1>10 DEF RetireExclusive, Forget
<1>11. CASE StopReceiving
  BY <1>11 DEF StopReceiving
<1>12. CASE RecvClosed
  BY <1>12 DEF RecvClosed
<1>13. CASE ExitOrContinue
  BY <1>13 DEF ExitOrContinue
<1>14. CASE StartRound
  BY <1>14, <1>a, TaskMoves DEF StartRound
<1>15. CASE KeyPanics
  BY <1>15, <1>a, <1>c, TaskMoves DEF KeyPanics, Accepted
<1>16. CASE PickGroup
  BY <1>16 DEF PickGroup
<1>17. CASE PickSolo
  BY <1>17 DEF PickSolo
<1>18. CASE BeginStep
  BY <1>18 DEF BeginStep
<1>19. CASE StepReturns
  <2>1. PICK c \in SUBSET exec :
          /\ begun' = begun \ c
          /\ outcome' = [j \in Jobs |-> IF j \in c THEN "complete"
                                        ELSE IF j \in exec THEN "continue" ELSE outcome[j]]
          /\ taken' = [j \in Jobs |-> IF j \in exec \ c THEN taken[j] + 1 ELSE taken[j]]
    BY <1>19 DEF StepReturns, FinishSteps, Record
  <2>2. wpc = "run" /\ wpc' = "pick" /\ UNCHANGED <<active, tasks, done, st, todo, solo>>
    BY <1>19 DEF StepReturns, Record
  <2> QED BY <2>1, <2>2, <1>c, <1>d
<1>20. CASE GroupDeclines
  BY <1>20 DEF GroupDeclines
<1>21. CASE StepPanics
  BY <1>21, <1>c, <1>d DEF StepPanics, Record
<1>22. CASE CollectResult
  BY <1>22, <1>a, TaskMoves DEF CollectResult, Requeued
<1>23. CASE PublishOccupied
  BY <1>23, <1>a, TaskMoves DEF PublishOccupied
<1>24. CASE RetireCompleted
  BY <1>24 DEF RetireCompleted, Forget
<1> QED
  BY <1>1, <1>2, <1>3, <1>4, <1>5, <1>6, <1>7, <1>8, <1>9, <1>10, <1>11, <1>12,
     <1>13, <1>14, <1>15, <1>16, <1>17, <1>18, <1>19, <1>20, <1>21, <1>22, <1>23,
     <1>24
  DEF Next, Handler, Worker

(***************************************************************************)
(* What /slots shows.                                                      *)
(***************************************************************************)

\* begin_step finds an entry for a stream that has none: the streams that hold
\* one are others of the same round.
LEMMA SlotIsFree ==
    ASSUME IInv, RoundSets, Traces, SlotTableExact, NEW j \in starting, slotOf[j] = 0
    PROVE  \E s \in 1 .. Slots : public[s] = NoJob
<1> SUFFICES ASSUME \A s \in 1 .. Slots : public[s] # NoJob PROVE FALSE
  OBVIOUS
<1> DEFINE T == (Elems(active) \cup Elems(tasks)) \ {j}
<1>1. /\ active \in Seq(Jobs) /\ tasks \in Seq(Jobs) /\ waiting \in Seq(Jobs)
      /\ public \in [1 .. Slots -> Jobs \cup {NoJob}]
      /\ slotOf \in [Jobs -> 0 .. Slots]
      /\ Slots \in Nat
  BY BoundsAssumption DEF IInv, TypeOK
<1>2. /\ Len(active) \in Nat /\ Len(tasks) \in Nat /\ Len(waiting) \in Nat
      /\ Len(active) + Len(tasks) <= Slots
  BY <1>1, LenProperties DEF IInv, RoundPhase
<1>3. /\ IsFiniteSet(Elems(active)) /\ Cardinality(Elems(active)) <= Len(active)
      /\ IsFiniteSet(Elems(tasks)) /\ Cardinality(Elems(tasks)) <= Len(tasks)
  BY <1>1, ElemsCount
<1>4. /\ IsFiniteSet(Elems(active) \cup Elems(tasks))
      /\ Cardinality(Elems(active) \cup Elems(tasks)) <= Len(active) + Len(tasks)
  BY <1>2, <1>3, UnionCount
<1>5. j \in Elems(active) \cup Elems(tasks)
  BY DEF RoundSets
<1>6. IsFiniteSet(T) /\ Cardinality(T) < Slots
  <2>1. /\ IsFiniteSet(T)
        /\ Cardinality(T) = Cardinality(Elems(active) \cup Elems(tasks)) - 1
        /\ Cardinality(Elems(active) \cup Elems(tasks)) \in Nat
    BY <1>4, <1>5, FS_RemoveElement, FS_CardinalityType
  <2> HIDE DEF T
  <2> QED BY <2>1, <1>2, <1>4, <1>1
<1>7. IsFiniteSet(1 .. Slots) /\ Cardinality(1 .. Slots) = Slots
  <2>1. /\ IsFiniteSet(1 .. Slots)
        /\ Cardinality(1 .. Slots) = IF 1 > Slots THEN 0 ELSE Slots - 1 + 1
    BY <1>1, FS_Interval
  <2> QED BY <2>1, <1>1
<1>8. public \in [1 .. Slots -> T]
  <2>1. ASSUME NEW s \in 1 .. Slots PROVE public[s] \in T
    <3>1. public[s] \in Jobs /\ slotOf[public[s]] = s /\ s # 0
      BY <1>1 DEF SlotTableExact
    <3>2. public[s] \in begun /\ public[s] # j
      BY <3>1 DEF SlotTableExact
    <3> QED BY <3>2 DEF Traces
  <2> QED BY <2>1, <1>1
<1>9. \E s, t \in 1 .. Slots : s # t /\ public[s] = public[t]
  <2> DEFINE P == 1 .. Slots
  <2>1. /\ IsFiniteSet(P) /\ IsFiniteSet(T) /\ Cardinality(T) < Cardinality(P)
        /\ public \in [P -> T]
    BY <1>6, <1>7, <1>8
  <2> HIDE DEF T, P
  <2>2. \E s, t \in P : s # t /\ public[s] = public[t]
    BY <2>1, FS_PigeonHole
  <2> QED BY <2>2 DEF P
<1> QED BY <1>9 DEF SlotTableExact

\* The slot table and the jobs stay in agreement.
LEMMA SlotTableStep ==
    ASSUME IInv, RoundSets, Traces, SlotTableExact, Next
    PROVE  SlotTableExact'
<1>a. TypeOK /\ OnePlace /\ RoundPhase
  BY DEF IInv
<1>b. /\ st \in [Jobs -> Status]
      /\ public \in [1 .. Slots -> Jobs \cup {NoJob}] /\ slotOf \in [Jobs -> 0 .. Slots]
      /\ begun \subseteq Jobs /\ Slots \in Nat /\ NoJob \notin Jobs
  BY <1>a, BoundsAssumption, JobsAssumption DEF TypeOK
<1> USE <1>b DEF SlotTableExact, handlerVars, jobVars, loopVars, batchVars, roundVars, slotVars
<1>1. ASSUME NEW j \in Jobs, Reserve(j) PROVE SlotTableExact'
  BY <1>1 DEF Reserve
<1>2. ASSUME NEW j \in Jobs, TrySend(j) PROVE SlotTableExact'
  BY <1>2 DEF TrySend
<1>3. ASSUME NEW j \in Jobs, Release(j) PROVE SlotTableExact'
  BY <1>3 DEF Release, Forget
<1>4. ASSUME NEW j \in Jobs, Cancel(j) PROVE SlotTableExact'
  BY <1>4 DEF Cancel
<1>5. CASE DropHandles
  BY <1>5 DEF DropHandles
<1>6. CASE TakePending
  BY <1>6 DEF TakePending
<1>7. CASE RecvCooperative
  BY <1>7 DEF RecvCooperative
<1>8. CASE RecvExclusive
  BY <1>8 DEF RecvExclusive
<1>9. CASE FinishExclusive
  BY <1>9 DEF FinishExclusive
<1>10. CASE RetireExclusive
  BY <1>10 DEF RetireExclusive, Forget
<1>11. CASE StopReceiving
  BY <1>11 DEF StopReceiving
<1>12. CASE RecvClosed
  BY <1>12 DEF RecvClosed
<1>13. CASE ExitOrContinue
  BY <1>13 DEF ExitOrContinue
<1>14. CASE StartRound
  BY <1>14 DEF StartRound
<1>15. CASE KeyPanics
  BY <1>15 DEF KeyPanics
<1>16. CASE PickGroup
  BY <1>16 DEF PickGroup
<1>17. CASE PickSolo
  BY <1>17 DEF PickSolo
<1>18. CASE BeginStep
  <2>1. PICK k \in starting :
          /\ begun' = begun \cup {k}
          /\ \/ /\ slotOf[k] = 0
                /\ \E s \in 1 .. Slots : FreeSlot(s) /\ slotOf' = [slotOf EXCEPT ![k] = s]
                                                     /\ public' = [public EXCEPT ![s] = k]
             \/ /\ slotOf[k] # 0 \/ \A s \in 1 .. Slots : public[s] # NoJob
                /\ UNCHANGED <<slotOf, public>>
    BY <1>18 DEF BeginStep
  <2>2. k \in Jobs
    BY <1>a DEF TypeOK
  <2>3. CASE slotOf[k] # 0
    BY <2>1, <2>2, <2>3
  <2>4. CASE slotOf[k] = 0
    <3>1. PICK s \in 1 .. Slots : /\ public[s] = NoJob
                                  /\ slotOf' = [slotOf EXCEPT ![k] = s]
                                  /\ public' = [public EXCEPT ![s] = k]
      BY <2>1, <2>4, SlotIsFree DEF FreeSlot
    <3> QED BY <2>1, <2>2, <2>4, <3>1
  <2> QED BY <2>3, <2>4
<1>19. CASE StepReturns
  <2>1. PICK c \in SUBSET exec : FinishSteps(c)
    BY <1>19 DEF StepReturns
  <2> QED BY <2>1 DEF FinishSteps, FreedTable
<1>20. CASE GroupDeclines
  BY <1>20 DEF GroupDeclines
<1>21. CASE StepPanics
  BY <1>21 DEF StepPanics, Record
<1>22. CASE CollectResult
  <2>1. Head(tasks) \in Jobs
    BY <1>22, <1>a, TaskMoves
  <2> QED BY <1>22, <2>1 DEF CollectResult, FreedTable
<1>23. CASE PublishOccupied
  BY <1>23 DEF PublishOccupied
<1>24. CASE RetireCompleted
  BY <1>24 DEF RetireCompleted, Forget
<1> QED
  BY <1>1, <1>2, <1>3, <1>4, <1>5, <1>6, <1>7, <1>8, <1>9, <1>10, <1>11, <1>12,
     <1>13, <1>14, <1>15, <1>16, <1>17, <1>18, <1>19, <1>20, <1>21, <1>22, <1>23,
     <1>24
  DEF Next, Handler, Worker

\* The published task id stays that of a live job.
LEMMA ActiveIdStep ==
    ASSUME IInv, RoundSets, Traces, ActiveIdLive, Next
    PROVE  ActiveIdLive'
<1>a. TypeOK /\ OnePlace /\ RoundPhase
  BY DEF IInv
<1>b. /\ st \in [Jobs -> Status]
      /\ public \in [1 .. Slots -> Jobs \cup {NoJob}] /\ slotOf \in [Jobs -> 0 .. Slots]
      /\ begun \subseteq Jobs /\ Slots \in Nat /\ NoJob \notin Jobs
  BY <1>a, BoundsAssumption, JobsAssumption DEF TypeOK
<1>c. /\ Elems(active) \cup Elems(tasks) \cup Exclusive \subseteq Accepted
      /\ (Elems(active) \cup Elems(tasks)) \cap (done \cup Exclusive) = {}
      /\ Elems(queue) \subseteq Accepted
  BY <1>a DEF OnePlace
<1> USE <1>b DEF ActiveIdLive, Accepted, handlerVars, jobVars, loopVars, batchVars, roundVars, slotVars
<1>1. ASSUME NEW j \in Jobs, Reserve(j) PROVE ActiveIdLive'
  BY <1>1 DEF Reserve
<1>2. ASSUME NEW j \in Jobs, TrySend(j) PROVE ActiveIdLive'
  BY <1>2 DEF TrySend
<1>3. ASSUME NEW j \in Jobs, Release(j) PROVE ActiveIdLive'
  BY <1>3 DEF Release, Forget
<1>4. ASSUME NEW j \in Jobs, Cancel(j) PROVE ActiveIdLive'
  BY <1>4 DEF Cancel
<1>5. CASE DropHandles
  BY <1>5 DEF DropHandles
<1>6. CASE TakePending
  BY <1>6 DEF TakePending
<1>7. CASE RecvCooperative
  BY <1>7 DEF RecvCooperative
<1>8. CASE RecvExclusive
  <2>1. Head(queue) \in Elems(queue)
    BY <1>8, <1>a, ElemsTail DEF RecvExclusive, TypeOK, OnePlace
  <2> QED BY <1>8, <2>1, <1>c DEF RecvExclusive
<1>9. CASE FinishExclusive
  BY <1>9 DEF FinishExclusive
<1>10. CASE RetireExclusive
  BY <1>10, <1>c DEF RetireExclusive, Forget, Exclusive, Traces
<1>11. CASE StopReceiving
  BY <1>11 DEF StopReceiving
<1>12. CASE RecvClosed
  BY <1>12 DEF RecvClosed
<1>13. CASE ExitOrContinue
  BY <1>13 DEF ExitOrContinue
<1>14. CASE StartRound
  BY <1>14 DEF StartRound
<1>15. CASE KeyPanics
  BY <1>15 DEF KeyPanics
<1>16. CASE PickGroup
  BY <1>16 DEF PickGroup
<1>17. CASE PickSolo
  BY <1>17 DEF PickSolo
<1>18. CASE BeginStep
  <2>1. activeId' \in exec' /\ exec' \subseteq begun' /\ exec' \subseteq Elems(tasks)
    BY <1>18 DEF BeginStep, RoundSets, Traces, Calling
  <2> QED BY <1>18, <2>1, <1>c DEF BeginStep
<1>19. CASE StepReturns
  <2>1. PICK c \in SUBSET exec : FinishSteps(c)
    BY <1>19 DEF StepReturns
  <2>2. wpc = "run" /\ UNCHANGED st
    BY <1>19 DEF StepReturns
  <2>3. exec \subseteq begun /\ exec \subseteq Accepted
    BY <2>2, <1>c DEF RoundSets, Traces, Calling
  <2>4. PICK id : ActiveAfter(c, id) /\ activeId' = id
    BY <2>1 DEF FinishSteps
  <2>5. \/ id \in exec \ c
        \/ id = NoJob
        \/ id = activeId /\ c = {}
    BY <2>4 DEF ActiveAfter, IsFirst
  <2>6. begun' = begun \ c
    BY <2>1 DEF FinishSteps
  <2> QED BY <2>2, <2>3, <2>4, <2>5, <2>6
<1>20. CASE GroupDeclines
  BY <1>20 DEF GroupDeclines
<1>21. CASE StepPanics
  BY <1>21 DEF StepPanics, Record
<1>22. CASE CollectResult
  BY <1>22 DEF CollectResult, FreedTable, Requeued
<1>23. CASE PublishOccupied
  BY <1>23 DEF PublishOccupied
<1>24. CASE RetireCompleted
  BY <1>24, <1>c DEF RetireCompleted, Forget, Traces
<1> QED
  BY <1>1, <1>2, <1>3, <1>4, <1>5, <1>6, <1>7, <1>8, <1>9, <1>10, <1>11, <1>12,
     <1>13, <1>14, <1>15, <1>16, <1>17, <1>18, <1>19, <1>20, <1>21, <1>22, <1>23,
     <1>24
  DEF Next, Handler, Worker

\* A cancelled stream is never given two more steps.
LEMMA CancelStep ==
    ASSUME IInv, CancelFresh, Next
    PROVE  CancelFresh'
<1>a. TypeOK
  BY DEF IInv
<1>b. /\ taken \in [Jobs -> 0 .. MaxSteps] /\ cancelAt \in [Jobs -> -1 .. MaxSteps]
      /\ exec \subseteq Jobs /\ starting \subseteq Jobs /\ MaxSteps \in Nat
      /\ sawCancel \in BOOLEAN
  BY <1>a, BoundsAssumption DEF TypeOK
<1> USE <1>b DEF CancelFresh, handlerVars, jobVars, loopVars, batchVars, roundVars, slotVars
<1>1. ASSUME NEW j \in Jobs, Reserve(j) PROVE CancelFresh'
  BY <1>1 DEF Reserve
<1>2. ASSUME NEW j \in Jobs, TrySend(j) PROVE CancelFresh'
  BY <1>2 DEF TrySend
<1>3. ASSUME NEW j \in Jobs, Release(j) PROVE CancelFresh'
  BY <1>3 DEF Release, Forget
<1>4. ASSUME NEW j \in Jobs, Cancel(j) PROVE CancelFresh'
  BY <1>4 DEF Cancel
<1>5. CASE DropHandles
  BY <1>5 DEF DropHandles
<1>6. CASE TakePending
  BY <1>6 DEF TakePending
<1>7. CASE RecvCooperative
  BY <1>7 DEF RecvCooperative
<1>8. CASE RecvExclusive
  BY <1>8 DEF RecvExclusive
<1>9. CASE FinishExclusive
  BY <1>9 DEF FinishExclusive
<1>10. CASE RetireExclusive
  BY <1>10 DEF RetireExclusive, Forget
<1>11. CASE StopReceiving
  BY <1>11 DEF StopReceiving
<1>12. CASE RecvClosed
  BY <1>12 DEF RecvClosed
<1>13. CASE ExitOrContinue
  BY <1>13 DEF ExitOrContinue
<1>14. CASE StartRound
  BY <1>14 DEF StartRound
<1>15. CASE KeyPanics
  BY <1>15 DEF KeyPanics
<1>16. CASE PickGroup
  BY <1>16 DEF PickGroup
<1>17. CASE PickSolo
  BY <1>17 DEF PickSolo
<1>18. CASE BeginStep
  <2>1. exec' \subseteq Jobs /\ sawCancel' = CancelSeen(exec')
    BY <1>18 DEF BeginStep
  <2> QED BY <1>18, <2>1 DEF BeginStep, CancelSeen
<1>19. CASE StepReturns
  <2>1. PICK c \in SUBSET exec :
          /\ sawCancel => c = exec
          /\ taken' = [j \in Jobs |-> IF j \in exec \ c THEN taken[j] + 1 ELSE taken[j]]
    BY <1>19 DEF StepReturns
  <2>2. wpc = "run" /\ wpc' = "pick" /\ UNCHANGED cancelAt
    BY <1>19 DEF StepReturns, Record
  <2> QED BY <2>1, <2>2
<1>20. CASE GroupDeclines
  BY <1>20 DEF GroupDeclines
<1>21. CASE StepPanics
  BY <1>21 DEF StepPanics, Record
<1>22. CASE CollectResult
  BY <1>22 DEF CollectResult, FreedTable, Requeued
<1>23. CASE PublishOccupied
  BY <1>23 DEF PublishOccupied
<1>24. CASE RetireCompleted
  BY <1>24 DEF RetireCompleted, Forget
<1> QED
  BY <1>1, <1>2, <1>3, <1>4, <1>5, <1>6, <1>7, <1>8, <1>9, <1>10, <1>11, <1>12,
     <1>13, <1>14, <1>15, <1>16, <1>17, <1>18, <1>19, <1>20, <1>21, <1>22, <1>23,
     <1>24
  DEF Next, Handler, Worker

\* Once the last handle is gone nothing arrives.
LEMMA ClosingStep ==
    ASSUME IInv, Closing, Next
    PROVE  Closing'
<1>a. TypeOK
  BY DEF IInv
<1>b. st \in [Jobs -> Status] /\ open \in BOOLEAN /\ disconnected \in BOOLEAN
  BY <1>a DEF TypeOK
<1> USE <1>b DEF Closing, handlerVars, jobVars, loopVars, batchVars, roundVars, slotVars
<1>1. ASSUME NEW j \in Jobs, Reserve(j) PROVE Closing'
  BY <1>1 DEF Reserve
<1>2. ASSUME NEW j \in Jobs, TrySend(j) PROVE Closing'
  BY <1>2 DEF TrySend
<1>3. ASSUME NEW j \in Jobs, Release(j) PROVE Closing'
  BY <1>3 DEF Release, Forget
<1>4. ASSUME NEW j \in Jobs, Cancel(j) PROVE Closing'
  BY <1>4 DEF Cancel
<1>5. CASE DropHandles
  BY <1>5 DEF DropHandles
<1>6. CASE TakePending
  BY <1>6 DEF TakePending
<1>7. CASE RecvCooperative
  BY <1>7 DEF RecvCooperative
<1>8. CASE RecvExclusive
  BY <1>8 DEF RecvExclusive
<1>9. CASE FinishExclusive
  BY <1>9 DEF FinishExclusive
<1>10. CASE RetireExclusive
  BY <1>10 DEF RetireExclusive, Forget
<1>11. CASE StopReceiving
  BY <1>11 DEF StopReceiving
<1>12. CASE RecvClosed
  BY <1>12 DEF RecvClosed, ChannelClosed
<1>13. CASE ExitOrContinue
  BY <1>13 DEF ExitOrContinue
<1>14. CASE StartRound
  BY <1>14 DEF StartRound
<1>15. CASE KeyPanics
  BY <1>15 DEF KeyPanics
<1>16. CASE PickGroup
  BY <1>16 DEF PickGroup
<1>17. CASE PickSolo
  BY <1>17 DEF PickSolo
<1>18. CASE BeginStep
  BY <1>18 DEF BeginStep
<1>19. CASE StepReturns
  BY <1>19 DEF StepReturns, FinishSteps, Record
<1>20. CASE GroupDeclines
  BY <1>20 DEF GroupDeclines
<1>21. CASE StepPanics
  BY <1>21 DEF StepPanics, Record
<1>22. CASE CollectResult
  BY <1>22 DEF CollectResult, FreedTable, Requeued
<1>23. CASE PublishOccupied
  BY <1>23 DEF PublishOccupied
<1>24. CASE RetireCompleted
  BY <1>24 DEF RetireCompleted, Forget
<1> QED
  BY <1>1, <1>2, <1>3, <1>4, <1>5, <1>6, <1>7, <1>8, <1>9, <1>10, <1>11, <1>12,
     <1>13, <1>14, <1>15, <1>16, <1>17, <1>18, <1>19, <1>20, <1>21, <1>22, <1>23,
     <1>24
  DEF Next, Handler, Worker

\* Everything but the order holds to begin with.
LEMMA InitRInv == Init => RInv
<1> SUFFICES ASSUME Init PROVE RInv
  OBVIOUS
<1> USE BoundsAssumption, JobsAssumption
<1>1. RoundSets /\ Traces
  BY ElemsEmpty DEF Init, RoundSets, Traces, Calling, InRound
<1>2. SlotTableExact /\ ActiveIdLive
  BY DEF Init, SlotTableExact, ActiveIdLive
<1>3. CancelFresh /\ Closing
  BY DEF Init, CancelFresh, Closing
<1> QED BY <1>1, <1>2, <1>3 DEF RInv

\* Every step keeps it.
LEMMA RInvStep == IInv /\ RInv /\ [Next]_vars => RInv'
<1> SUFFICES ASSUME IInv, RInv, [Next]_vars PROVE RInv'
  OBVIOUS
<1>a. RoundSets /\ Traces /\ SlotTableExact /\ ActiveIdLive /\ CancelFresh /\ Closing
  BY DEF RInv
<1>1. CASE Next
  BY <1>1, <1>a, RoundSetsStep, TracesStep, SlotTableStep, ActiveIdStep, CancelStep,
     ClosingStep
  DEF RInv
<1>2. CASE UNCHANGED vars
  <2> USE <1>2, <1>a DEF vars, handlerVars, jobVars, loopVars, batchVars, roundVars, slotVars
  <2>1. RoundSets' /\ Traces'
    BY DEF RoundSets, Traces, Calling, InRound
  <2>2. SlotTableExact' /\ ActiveIdLive'
    BY DEF SlotTableExact, ActiveIdLive, Accepted
  <2>3. CancelFresh' /\ Closing'
    BY DEF CancelFresh, Closing
  <2> QED BY <2>1, <2>2, <2>3 DEF RInv
<1> QED BY <1>1, <1>2

\* All of it holds in every reachable state.
LEMMA RoundInvariance == Spec => [](IInv /\ Bounded /\ RInv)
<1>1. Init => RInv
  BY InitRInv
<1>2. IInv /\ RInv /\ [Next]_vars => RInv'
  BY RInvStep
<1> QED BY <1>1, <1>2, Invariance2, PTL DEF Spec

\* What /slots and the health of the engine show is exact in every reachable
\* state, for any number of slots and streams: begin_step always finds a free
\* entry, a panic leaves none behind, and the active id names a live job.
THEOREM ViewIsExact == Spec => []PublicViewExact
<1>1. RInv => PublicViewExact
  BY DEF RInv, PublicViewExact
<1> QED BY <1>1, RoundInvariance, PTL

\* A stream whose handler is gone takes at most one more step, grouped or not,
\* whenever the token fires between the look a call takes and its end.
THEOREM CancelIsPrompt == Spec => []CancelWithinOneStep
<1>1. RInv => CancelWithinOneStep
  BY DEF RInv, CancelFresh, CancelWithinOneStep
<1> QED BY <1>1, RoundInvariance, PTL

(***************************************************************************)
(* The order of the backlog.                                               *)
(***************************************************************************)

\* Who is in front of whom in a concatenation.
LEMMA OrderConcat ==
    ASSUME NEW S, NEW s \in Seq(S), NEW t \in Seq(S)
    PROVE  /\ s \o t \in Seq(S)
           /\ Elems(s \o t) = Elems(s) \cup Elems(t)
           /\ \A x, y : InOrder(s \o t, x, y) <=>
                 \/ InOrder(s, x, y)
                 \/ InOrder(t, x, y)
                 \/ x \in Elems(s) /\ y \in Elems(t)
<1> DEFINE u == s \o t
<1>1. /\ u \in Seq(S)
      /\ Len(u) = Len(s) + Len(t)
      /\ \A i \in 1 .. Len(s) + Len(t) :
            u[i] = IF i <= Len(s) THEN s[i] ELSE t[i - Len(s)]
  BY ConcatProperties
<1>2. /\ DOMAIN s = 1 .. Len(s) /\ Len(s) \in Nat
      /\ DOMAIN t = 1 .. Len(t) /\ Len(t) \in Nat
      /\ DOMAIN u = 1 .. Len(s) + Len(t)
  BY <1>1, LenProperties
<1> HIDE DEF u
<1>3. ASSUME NEW i \in DOMAIN s
      PROVE  i \in DOMAIN u /\ u[i] = s[i] /\ i \in Int /\ i <= Len(s)
  BY <1>1, <1>2
<1>4. ASSUME NEW i \in DOMAIN t
      PROVE  /\ Len(s) + i \in DOMAIN u /\ u[Len(s) + i] = t[i]
             /\ i \in Int /\ Len(s) + i > Len(s)
  BY <1>1, <1>2
<1>5. ASSUME NEW i \in DOMAIN u
      PROVE  /\ i \in Int
             /\ \/ i \in DOMAIN s /\ u[i] = s[i] /\ i <= Len(s)
                \/ i - Len(s) \in DOMAIN t /\ u[i] = t[i - Len(s)] /\ i > Len(s)
  BY <1>1, <1>2
<1>6. Elems(u) = Elems(s) \cup Elems(t)
  <2>1. Elems(u) \subseteq Elems(s) \cup Elems(t)
    BY <1>5 DEF Elems
  <2>2. Elems(s) \subseteq Elems(u)
    BY <1>3 DEF Elems
  <2>3. Elems(t) \subseteq Elems(u)
    BY <1>4 DEF Elems
  <2> QED BY <2>1, <2>2, <2>3
<1>7. ASSUME NEW x, NEW y, InOrder(u, x, y)
      PROVE  InOrder(s, x, y) \/ InOrder(t, x, y) \/ (x \in Elems(s) /\ y \in Elems(t))
  <2>1. PICK i \in DOMAIN u, k \in DOMAIN u : i < k /\ u[i] = x /\ u[k] = y
    BY <1>7 DEF InOrder
  <2>2. CASE k \in DOMAIN s /\ u[k] = s[k] /\ k <= Len(s)
    <3>1. i \in DOMAIN s /\ u[i] = s[i]
      BY <2>1, <2>2, <1>5, <1>2
    <3> QED BY <2>1, <2>2, <3>1 DEF InOrder
  <2>3. CASE k - Len(s) \in DOMAIN t /\ u[k] = t[k - Len(s)] /\ k > Len(s)
    <3>1. CASE i \in DOMAIN s /\ u[i] = s[i]
      BY <2>1, <2>3, <3>1 DEF Elems
    <3>2. CASE i - Len(s) \in DOMAIN t /\ u[i] = t[i - Len(s)]
      <4>1. i - Len(s) < k - Len(s)
        BY <2>1, <1>2
      <4> QED BY <2>1, <2>3, <3>2, <4>1 DEF InOrder
    <3> QED BY <3>1, <3>2, <1>5
  <2> QED BY <2>2, <2>3, <1>5
<1>8. ASSUME NEW x, NEW y, InOrder(s, x, y)
      PROVE  InOrder(u, x, y)
  BY <1>8, <1>3 DEF InOrder
<1>9. ASSUME NEW x, NEW y, InOrder(t, x, y)
      PROVE  InOrder(u, x, y)
  <2>1. PICK i \in DOMAIN t, k \in DOMAIN t : i < k /\ t[i] = x /\ t[k] = y
    BY <1>9 DEF InOrder
  <2>2. Len(s) + i < Len(s) + k
    BY <2>1, <1>2
  <2> QED BY <2>1, <2>2, <1>4 DEF InOrder
<1>10. ASSUME NEW x, NEW y, x \in Elems(s), y \in Elems(t)
       PROVE  InOrder(u, x, y)
  <2>1. PICK i \in DOMAIN s, k \in DOMAIN t : s[i] = x /\ t[k] = y
    BY <1>10 DEF Elems
  <2>2. i < Len(s) + k
    BY <2>1, <1>2, <1>3, <1>4
  <2> QED BY <2>1, <2>2, <1>3, <1>4 DEF InOrder
<1> QED BY <1>1, <1>6, <1>7, <1>8, <1>9, <1>10 DEF u

\* Short sequences.
LEMMA OrderShort ==
    ASSUME NEW z
    PROVE  /\ Elems(<<z>>) = {z}
           /\ \A x, y : ~InOrder(<<z>>, x, y)
           /\ Elems(<<>>) = {}
           /\ \A x, y : ~InOrder(<<>>, x, y)
BY DEF Elems, InOrder

\* push_back.
LEMMA OrderPush ==
    ASSUME NEW S, NEW s \in Seq(S), NEW z \in S
    PROVE  /\ Elems(Append(s, z)) = Elems(s) \cup {z}
           /\ \A x, y : InOrder(Append(s, z), x, y) <=>
                 InOrder(s, x, y) \/ (x \in Elems(s) /\ y = z)
<1>1. Append(s, z) = s \o <<z>> /\ <<z>> \in Seq(S)
  BY AppendIsConcat
<1>2. /\ Elems(s \o <<z>>) = Elems(s) \cup Elems(<<z>>)
      /\ \A x, y : InOrder(s \o <<z>>, x, y) <=>
            \/ InOrder(s, x, y)
            \/ InOrder(<<z>>, x, y)
            \/ x \in Elems(s) /\ y \in Elems(<<z>>)
  BY <1>1, OrderConcat
<1>3. Elems(<<z>>) = {z} /\ \A x, y : ~InOrder(<<z>>, x, y)
  BY OrderShort
<1> QED BY <1>1, <1>2, <1>3

\* pop_front.
LEMMA OrderPop ==
    ASSUME NEW S, NEW s \in Seq(S), s # <<>>
    PROVE  /\ Elems(s) = {Head(s)} \cup Elems(Tail(s))
           /\ \A x, y : InOrder(s, x, y) <=>
                 InOrder(Tail(s), x, y) \/ (x = Head(s) /\ y \in Elems(Tail(s)))
<1>1. Head(s) \in S /\ Tail(s) \in Seq(S) /\ <<Head(s)>> \in Seq(S)
  BY HeadTailProperties
<1>2. s = <<Head(s)>> \o Tail(s)
  <2>1. Len(s) \in Nat \ {0}
    BY EmptySeq
  <2>2. SubSeq(s, 1, Len(s)) = <<s[1]>> \o SubSeq(s, 1 + 1, Len(s))
    <3>1. 1 \in 1 .. Len(s) /\ Len(s) \in 1 .. Len(s)
      BY <2>1
    <3> QED BY <3>1, SubSeqRecursiveFirst
  <2>3. Tail(s) = SubSeq(s, 2, Len(s)) /\ SubSeq(s, 1, Len(s)) = s /\ Head(s) = s[1]
    BY TailIsSubSeq, SubSeqFull
  <2> QED BY <2>2, <2>3
<1>3. /\ Elems(<<Head(s)>> \o Tail(s)) = Elems(<<Head(s)>>) \cup Elems(Tail(s))
      /\ \A x, y : InOrder(<<Head(s)>> \o Tail(s), x, y) <=>
            \/ InOrder(<<Head(s)>>, x, y)
            \/ InOrder(Tail(s), x, y)
            \/ x \in Elems(<<Head(s)>>) /\ y \in Elems(Tail(s))
  BY <1>1, OrderConcat
<1>4. Elems(<<Head(s)>>) = {Head(s)} /\ \A x, y : ~InOrder(<<Head(s)>>, x, y)
  BY OrderShort
<1> QED BY <1>2, <1>3, <1>4

\* fill_slots moves the oldest waiting tasks behind the active ones.
LEMMA OrderFill ==
    ASSUME TypeOK, OnePlace, RoundPhase
    PROVE  \E l \in Seq(Jobs) :
             /\ Elems(Filled) = Elems(active) \cup Elems(l)
             /\ Elems(waiting) = Elems(l) \cup Elems(Unfilled)
             /\ \A x, y : InOrder(Filled, x, y) <=>
                   \/ InOrder(active, x, y) \/ InOrder(l, x, y)
                   \/ x \in Elems(active) /\ y \in Elems(l)
             /\ \A x, y : InOrder(waiting, x, y) <=>
                   \/ InOrder(l, x, y) \/ InOrder(Unfilled, x, y)
                   \/ x \in Elems(l) /\ y \in Elems(Unfilled)
<1> DEFINE l == SubSeq(waiting, 1, Room)
<1>1. /\ active \in Seq(Jobs) /\ waiting \in Seq(Jobs) /\ tasks \in Seq(Jobs)
      /\ Distinct(waiting)
  BY DEF TypeOK, OnePlace
<1>2. Len(active) \in Nat /\ Len(waiting) \in Nat /\ Len(tasks) \in Nat /\ Slots \in Nat
  BY <1>1, LenProperties, BoundsAssumption
<1>3. Room \in 0 .. Len(waiting)
  BY <1>2 DEF Room, RoundPhase
<1>4. l \in Seq(Jobs) /\ Unfilled \in Seq(Jobs)
  BY <1>1, <1>3, ElemsSplit DEF Unfilled
<1>5. waiting = l \o Unfilled
  <2>1. 1 \in 1 .. Len(waiting) + 1 /\ Room \in 1 - 1 .. Len(waiting)
        /\ Len(waiting) \in Room .. Len(waiting)
    BY <1>2, <1>3
  <2>2. l \o SubSeq(waiting, Room + 1, Len(waiting)) = SubSeq(waiting, 1, Len(waiting))
    BY <2>1, <1>1, ConcatAdjacentSubSeq
  <2> QED BY <2>2, <1>1, SubSeqFull DEF Unfilled
<1>6. Filled = active \o l
  BY DEF Filled
<1> HIDE DEF l
<1>7. /\ Elems(l \o Unfilled) = Elems(l) \cup Elems(Unfilled)
      /\ \A x, y : InOrder(l \o Unfilled, x, y) <=>
            \/ InOrder(l, x, y) \/ InOrder(Unfilled, x, y)
            \/ x \in Elems(l) /\ y \in Elems(Unfilled)
  BY <1>4, OrderConcat
<1>8. /\ Elems(active \o l) = Elems(active) \cup Elems(l)
      /\ \A x, y : InOrder(active \o l, x, y) <=>
            \/ InOrder(active, x, y) \/ InOrder(l, x, y)
            \/ x \in Elems(active) /\ y \in Elems(l)
  BY <1>1, <1>4, OrderConcat
<1> QED BY <1>4, <1>5, <1>6, <1>7, <1>8

\* Who is in front of whom in five sequences one after the other.
LEMMA OrderFive ==
    ASSUME NEW S, NEW a \in Seq(S), NEW t \in Seq(S), NEW w \in Seq(S),
           NEW p \in Seq(S), NEW q \in Seq(S)
    PROVE  /\ a \o t \o w \o p \in Seq(S)
           /\ Elems(a \o t \o w \o p) = Elems(a) \cup Elems(t) \cup Elems(w) \cup Elems(p)
           /\ \A x, y : InOrder(a \o t \o w \o p \o q, x, y) <=>
                 \/ InOrder(a, x, y) \/ InOrder(t, x, y) \/ InOrder(w, x, y)
                 \/ InOrder(p, x, y) \/ InOrder(q, x, y)
                 \/ x \in Elems(a) /\ y \in Elems(t) \cup Elems(w) \cup Elems(p) \cup Elems(q)
                 \/ x \in Elems(t) /\ y \in Elems(w) \cup Elems(p) \cup Elems(q)
                 \/ x \in Elems(w) /\ y \in Elems(p) \cup Elems(q)
                 \/ x \in Elems(p) /\ y \in Elems(q)
<1> DEFINE s2 == a \o t
           s3 == s2 \o w
           s4 == s3 \o p
<1>1. /\ s2 \in Seq(S)
      /\ Elems(s2) = Elems(a) \cup Elems(t)
      /\ \A x, y : InOrder(s2, x, y) <=>
            InOrder(a, x, y) \/ InOrder(t, x, y) \/ (x \in Elems(a) /\ y \in Elems(t))
  BY OrderConcat
<1> HIDE DEF s2
<1>2. /\ s3 \in Seq(S)
      /\ Elems(s3) = Elems(s2) \cup Elems(w)
      /\ \A x, y : InOrder(s3, x, y) <=>
            InOrder(s2, x, y) \/ InOrder(w, x, y) \/ (x \in Elems(s2) /\ y \in Elems(w))
  BY <1>1, OrderConcat
<1> HIDE DEF s3
<1>3. /\ s4 \in Seq(S)
      /\ Elems(s4) = Elems(s3) \cup Elems(p)
      /\ \A x, y : InOrder(s4, x, y) <=>
            InOrder(s3, x, y) \/ InOrder(p, x, y) \/ (x \in Elems(s3) /\ y \in Elems(p))
  BY <1>2, OrderConcat
<1> HIDE DEF s4
<1>4. \A x, y : InOrder(s4 \o q, x, y) <=>
            InOrder(s4, x, y) \/ InOrder(q, x, y) \/ (x \in Elems(s4) /\ y \in Elems(q))
  BY <1>3, OrderConcat
<1>5. Elems(s4) = Elems(a) \cup Elems(t) \cup Elems(w) \cup Elems(p)
  BY <1>1, <1>2, <1>3
<1>6. ASSUME NEW x, NEW y
      PROVE  InOrder(s4 \o q, x, y) <=>
                 \/ InOrder(a, x, y) \/ InOrder(t, x, y) \/ InOrder(w, x, y)
                 \/ InOrder(p, x, y) \/ InOrder(q, x, y)
                 \/ x \in Elems(a) /\ y \in Elems(t) \cup Elems(w) \cup Elems(p) \cup Elems(q)
                 \/ x \in Elems(t) /\ y \in Elems(w) \cup Elems(p) \cup Elems(q)
                 \/ x \in Elems(w) /\ y \in Elems(p) \cup Elems(q)
                 \/ x \in Elems(p) /\ y \in Elems(q)
  BY <1>1, <1>2, <1>3, <1>4
<1> QED BY <1>3, <1>5, <1>6 DEF s2, s3, s4

\* No step puts an accepted job in front of one that was in front of it.
LEMMA StepOrder ==
    ASSUME IInv, IInv', Next, NEW x \in Jobs, NEW y \in Jobs,
           InOrder(Backlog', x, y), st[y] = "accepted"
    PROVE  InOrder(Backlog, x, y)
<1>a. TypeOK /\ OnePlace /\ RoundPhase /\ TypeOK'
  BY DEF IInv
<1>b. /\ queue \in Seq(Jobs) /\ pending \in Seq(Jobs) /\ waiting \in Seq(Jobs)
      /\ active \in Seq(Jobs) /\ tasks \in Seq(Jobs)
      /\ st \in [Jobs -> Status]
  BY <1>a DEF TypeOK
<1>c. /\ queue' \in Seq(Jobs) /\ pending' \in Seq(Jobs) /\ waiting' \in Seq(Jobs)
      /\ active' \in Seq(Jobs) /\ tasks' \in Seq(Jobs)
  BY <1>a DEF TypeOK
<1>d.
      InOrder(Backlog, x, y) <=>
         \/ InOrder(active, x, y) \/ InOrder(tasks, x, y) \/ InOrder(waiting, x, y)
         \/ InOrder(pending, x, y) \/ InOrder(queue, x, y)
         \/ /\ x \in Elems(active)
            /\ y \in Elems(tasks) \cup Elems(waiting) \cup Elems(pending) \cup Elems(queue)
         \/ x \in Elems(tasks) /\ y \in Elems(waiting) \cup Elems(pending) \cup Elems(queue)
         \/ x \in Elems(waiting) /\ y \in Elems(pending) \cup Elems(queue)
         \/ x \in Elems(pending) /\ y \in Elems(queue)
  BY <1>b, OrderFive DEF Backlog, Held
<1>e.
      InOrder(Backlog', x, y) <=>
         \/ InOrder(active', x, y) \/ InOrder(tasks', x, y) \/ InOrder(waiting', x, y)
         \/ InOrder(pending', x, y) \/ InOrder(queue', x, y)
         \/ /\ x \in Elems(active')
            /\ y \in Elems(tasks') \cup Elems(waiting') \cup Elems(pending') \cup Elems(queue')
         \/ x \in Elems(tasks') /\ y \in Elems(waiting') \cup Elems(pending') \cup Elems(queue')
         \/ x \in Elems(waiting') /\ y \in Elems(pending') \cup Elems(queue')
         \/ x \in Elems(pending') /\ y \in Elems(queue')
  <2>1. Backlog' = active' \o tasks' \o waiting' \o pending' \o queue'
    BY DEF Backlog, Held
  <2>2.
        InOrder(active' \o tasks' \o waiting' \o pending' \o queue', x, y) <=>
           \/ InOrder(active', x, y) \/ InOrder(tasks', x, y) \/ InOrder(waiting', x, y)
           \/ InOrder(pending', x, y) \/ InOrder(queue', x, y)
           \/ /\ x \in Elems(active')
              /\ y \in Elems(tasks') \cup Elems(waiting') \cup Elems(pending') \cup Elems(queue')
           \/ x \in Elems(tasks') /\ y \in Elems(waiting') \cup Elems(pending') \cup Elems(queue')
           \/ x \in Elems(waiting') /\ y \in Elems(pending') \cup Elems(queue')
           \/ x \in Elems(pending') /\ y \in Elems(queue')
    BY <1>c, OrderFive
  <2> QED BY <2>1, <2>2
<1>f. Elems(<<>>) = {} /\ ~InOrder(<<>>, x, y)
  BY OrderShort
<1>g. ASSUME UNCHANGED <<active, tasks, waiting, pending, queue>>
      PROVE  InOrder(Backlog, x, y)
  BY <1>g DEF Backlog, Held
<1> USE DEF handlerVars, jobVars, loopVars, batchVars, roundVars, slotVars
<1>1. ASSUME NEW j \in Jobs, Reserve(j) PROVE InOrder(Backlog, x, y)
  BY <1>1, <1>g DEF Reserve
<1>2. ASSUME NEW j \in Jobs, TrySend(j) PROVE InOrder(Backlog, x, y)
  <2>1. CASE UNCHANGED queue
    BY <1>2, <2>1, <1>g DEF TrySend
  <2>2. CASE queue' = Append(queue, j)
    <3>1. InOrder(queue', x, y) => InOrder(queue, x, y) \/ y = j
      BY <2>2, <1>b, OrderPush
    <3>2. Elems(queue') = Elems(queue) \cup {j}
      BY <2>2, <1>b, OrderPush
    <3>3. y # j /\ UNCHANGED <<active, tasks, waiting, pending>>
      BY <1>2 DEF TrySend
    <3> QED BY <1>d, <1>e, <3>1, <3>2, <3>3
  <2> QED BY <1>2, <2>1, <2>2 DEF TrySend
<1>3. ASSUME NEW j \in Jobs, Release(j) PROVE InOrder(Backlog, x, y)
  BY <1>3, <1>g DEF Release
<1>4. ASSUME NEW j \in Jobs, Cancel(j) PROVE InOrder(Backlog, x, y)
  BY <1>4, <1>g DEF Cancel
<1>5. CASE DropHandles
  BY <1>5, <1>g DEF DropHandles
<1>6. CASE TakePending
  <2>1. CASE UNCHANGED <<waiting, pending>>
    BY <1>6, <2>1, <1>g DEF TakePending
  <2>2. CASE ~UNCHANGED <<waiting, pending>>
    <3>1. /\ pending # <<>> /\ pending' = <<>>
          /\ waiting' = Append(waiting, Head(pending))
          /\ UNCHANGED <<active, tasks, queue>>
      BY <1>6, <2>2 DEF TakePending
    <3>2. /\ Head(pending) \in Elems(pending) /\ Head(pending) \in Jobs
      BY <3>1, <1>b, OrderPop, HeadTailProperties
    <3>3. /\ Elems(waiting') = Elems(waiting) \cup {Head(pending)}
          /\ InOrder(waiting', x, y) =>
                InOrder(waiting, x, y) \/ (x \in Elems(waiting) /\ y = Head(pending))
      BY <3>1, <3>2, <1>b, OrderPush
    <3>4. Elems(pending') = {} /\ ~InOrder(pending', x, y)
      BY <3>1, <1>f
    <3> QED BY <1>d, <1>e, <3>1, <3>2, <3>3, <3>4
  <2> QED BY <2>1, <2>2
<1>7. CASE RecvCooperative
  <2>1. queue # <<>> /\ queue' = Tail(queue) /\ pending = <<>> /\ UNCHANGED <<active, tasks>>
    BY <1>7 DEF RecvCooperative
  <2>2. /\ Elems(queue) = {Head(queue)} \cup Elems(queue')
        /\ InOrder(queue, x, y) <=>
              InOrder(queue', x, y) \/ (x = Head(queue) /\ y \in Elems(queue'))
        /\ Head(queue) \in Jobs
    BY <2>1, <1>b, OrderPop, HeadTailProperties
  <2>3. Elems(pending) = {} /\ ~InOrder(pending, x, y)
    BY <2>1, <1>f
  <2>4. CASE waiting' = Append(waiting, Head(queue)) /\ UNCHANGED pending
    <3>1. /\ Elems(waiting') = Elems(waiting) \cup {Head(queue)}
          /\ InOrder(waiting', x, y) =>
                InOrder(waiting, x, y) \/ (x \in Elems(waiting) /\ y = Head(queue))
      BY <2>2, <2>4, <1>b, OrderPush
    <3> QED BY <1>d, <1>e, <2>1, <2>2, <2>3, <2>4, <3>1
  <2>5. CASE pending' = <<Head(queue)>> /\ UNCHANGED waiting
    <3>1. Elems(pending') = {Head(queue)} /\ ~InOrder(pending', x, y)
      BY <2>5, OrderShort
    <3> QED BY <1>d, <1>e, <2>1, <2>2, <2>3, <2>5, <3>1
  <2> QED BY <1>7, <2>4, <2>5 DEF RecvCooperative
<1>8. CASE RecvExclusive
  <2>1. /\ queue # <<>> /\ queue' = Tail(queue)
        /\ UNCHANGED <<active, tasks, waiting, pending>>
    BY <1>8 DEF RecvExclusive
  <2>2. /\ Elems(queue') \subseteq Elems(queue)
        /\ InOrder(queue', x, y) => InOrder(queue, x, y)
    BY <2>1, <1>b, OrderPop
  <2> QED BY <1>d, <1>e, <2>1, <2>2
<1>9. CASE FinishExclusive
  BY <1>9, <1>g DEF FinishExclusive
<1>10. CASE RetireExclusive
  BY <1>10, <1>g DEF RetireExclusive
<1>11. CASE StopReceiving
  BY <1>11, <1>g DEF StopReceiving
<1>12. CASE RecvClosed
  BY <1>12, <1>g DEF RecvClosed
<1>13. CASE ExitOrContinue
  BY <1>13, <1>g DEF ExitOrContinue
<1>14. CASE StartRound
  <2>1. /\ tasks = <<>> /\ tasks' = Filled /\ waiting' = Unfilled /\ active' = <<>>
        /\ UNCHANGED <<pending, queue>>
    BY <1>14, <1>a DEF StartRound, RoundPhase
  <2>2. PICK l \in Seq(Jobs) :
          /\ Elems(Filled) = Elems(active) \cup Elems(l)
          /\ Elems(waiting) = Elems(l) \cup Elems(Unfilled)
          /\ InOrder(Filled, x, y) <=>
                \/ InOrder(active, x, y) \/ InOrder(l, x, y)
                \/ x \in Elems(active) /\ y \in Elems(l)
          /\ InOrder(waiting, x, y) <=>
                \/ InOrder(l, x, y) \/ InOrder(Unfilled, x, y)
                \/ x \in Elems(l) /\ y \in Elems(Unfilled)
    BY <1>a, OrderFill
  <2> QED BY <1>d, <1>e, <1>f, <2>1, <2>2
<1>15. CASE KeyPanics
  <2>1. /\ tasks' = <<>> /\ waiting' = <<>> /\ active' = <<>> /\ pending' = <<>>
        /\ queue' = <<>>
    BY <1>15, <1>a DEF KeyPanics, RoundPhase
  <2> QED BY <1>e, <1>f, <2>1
<1>16. CASE PickGroup
  BY <1>16, <1>g DEF PickGroup
<1>17. CASE PickSolo
  BY <1>17, <1>g DEF PickSolo
<1>18. CASE BeginStep
  BY <1>18, <1>g DEF BeginStep
<1>19. CASE StepReturns
  BY <1>19, <1>g DEF StepReturns
<1>20. CASE GroupDeclines
  BY <1>20, <1>g DEF GroupDeclines
<1>21. CASE StepPanics
  BY <1>21, <1>g DEF StepPanics
<1>22. CASE CollectResult
  <2>1. tasks # <<>> /\ tasks' = Tail(tasks) /\ UNCHANGED <<waiting, pending, queue>>
    BY <1>22 DEF CollectResult
  <2>2. /\ Elems(tasks) = {Head(tasks)} \cup Elems(tasks')
        /\ InOrder(tasks, x, y) <=>
              InOrder(tasks', x, y) \/ (x = Head(tasks) /\ y \in Elems(tasks'))
        /\ Head(tasks) \in Jobs
    BY <2>1, <1>b, OrderPop, HeadTailProperties
  <2>3. CASE UNCHANGED active
    BY <1>d, <1>e, <2>1, <2>2, <2>3
  <2>4. CASE active' = Append(active, Head(tasks))
    <3>1. /\ Elems(active') = Elems(active) \cup {Head(tasks)}
          /\ InOrder(active', x, y) =>
                InOrder(active, x, y) \/ (x \in Elems(active) /\ y = Head(tasks))
      BY <2>2, <2>4, <1>b, OrderPush
    <3> QED BY <1>d, <1>e, <2>1, <2>2, <2>4, <3>1
  <2> QED BY <1>22, <2>3, <2>4 DEF CollectResult, Requeued
<1>23. CASE PublishOccupied
  <2>1. /\ tasks = <<>> /\ tasks' = <<>> /\ waiting' = Unfilled /\ active' = Filled
        /\ UNCHANGED <<pending, queue>>
    BY <1>23, <1>a DEF PublishOccupied
  <2>2. PICK l \in Seq(Jobs) :
          /\ Elems(Filled) = Elems(active) \cup Elems(l)
          /\ Elems(waiting) = Elems(l) \cup Elems(Unfilled)
          /\ InOrder(Filled, x, y) <=>
                \/ InOrder(active, x, y) \/ InOrder(l, x, y)
                \/ x \in Elems(active) /\ y \in Elems(l)
          /\ InOrder(waiting, x, y) <=>
                \/ InOrder(l, x, y) \/ InOrder(Unfilled, x, y)
                \/ x \in Elems(l) /\ y \in Elems(Unfilled)
    BY <1>a, OrderFill
  <2> QED BY <1>d, <1>e, <1>f, <2>1, <2>2
<1>24. CASE RetireCompleted
  BY <1>24, <1>g DEF RetireCompleted
<1> QED
  BY <1>1, <1>2, <1>3, <1>4, <1>5, <1>6, <1>7, <1>8, <1>9, <1>10, <1>11, <1>12,
     <1>13, <1>14, <1>15, <1>16, <1>17, <1>18, <1>19, <1>20, <1>21, <1>22, <1>23,
     <1>24
  DEF Next, Handler, Worker

\* Jobs are served in the order in which the channel took them: no step of any
\* thread, no held-back stream, no grouped, declined or panicking round puts a job
\* behind one that came later.
THEOREM ServedInOrder == Spec => AdmissionFIFO
<1> DEFINE A == \A m, n \in DOMAIN Backlog' :
                   m < n => \/ st[Backlog'[n]] # "accepted"
                            \/ \E i, k \in DOMAIN Backlog :
                                  i < k /\ Backlog[i] = Backlog'[m] /\ Backlog[k] = Backlog'[n]
<1>1. ASSUME IInv, IInv', [Next]_vars PROVE [A]_vars
  <2> SUFFICES ASSUME Next PROVE A
    BY <1>1
  <2> SUFFICES ASSUME NEW m \in DOMAIN Backlog', NEW n \in DOMAIN Backlog', m < n,
                      st[Backlog'[n]] = "accepted"
               PROVE  \E i, k \in DOMAIN Backlog :
                         i < k /\ Backlog[i] = Backlog'[m] /\ Backlog[k] = Backlog'[n]
    OBVIOUS
  <2>1. Backlog' \in Seq(Jobs)
    <3>1. /\ active' \in Seq(Jobs) /\ tasks' \in Seq(Jobs) /\ waiting' \in Seq(Jobs)
          /\ pending' \in Seq(Jobs) /\ queue' \in Seq(Jobs)
      BY <1>1 DEF IInv, TypeOK
    <3>2. Held' = active' \o tasks' \o waiting' \o pending' /\ Backlog' = Held' \o queue'
      BY DEF Held, Backlog
    <3>3. Held' \in Seq(Jobs)
      BY <3>1, <3>2, OrderFive
    <3> QED BY <3>1, <3>2, <3>3, OrderConcat
  <2>2. Backlog'[m] \in Jobs /\ Backlog'[n] \in Jobs
    BY <2>1, LenProperties, ElementOfSeq
  <2>3. InOrder(Backlog', Backlog'[m], Backlog'[n])
    BY DEF InOrder
  <2>4. InOrder(Backlog, Backlog'[m], Backlog'[n])
    BY <2>2, <2>3, <1>1, StepOrder
  <2> QED BY <2>4 DEF InOrder
<1> QED BY <1>1, Invariance, PTL DEF Spec, AdmissionFIFO

(***************************************************************************)
(* Streams advance in lockstep.                                            *)
(***************************************************************************)

\* The members of the backlog.
LEMMA BacklogElems ==
    ASSUME NEW S, NEW a \in Seq(S), NEW t \in Seq(S), NEW w \in Seq(S),
           NEW p \in Seq(S), NEW q \in Seq(S),
           NEW x, NEW y, InOrder(a \o t \o w \o p \o q, x, y)
    PROVE  {x, y} \subseteq Elems(a) \cup Elems(t) \cup Elems(w) \cup Elems(p) \cup Elems(q)
<1> DEFINE h == a \o t \o w \o p
<1>1. /\ h \in Seq(S)
      /\ Elems(h) = Elems(a) \cup Elems(t) \cup Elems(w) \cup Elems(p)
  BY OrderFive
<1>2. InOrder(h \o q, x, y)
  OBVIOUS
<1> HIDE DEF h
<1>3. Elems(h \o q) = Elems(h) \cup Elems(q)
  BY <1>1, OrderConcat
<1>4. x \in Elems(h \o q) /\ y \in Elems(h \o q)
  BY <1>2 DEF InOrder, Elems
<1> QED BY <1>1, <1>3, <1>4

\* Nobody stands in front of an active stream but another one, and the backlog
\* holds no completed job.
LEMMA OrderTop ==
    ASSUME IInv, NEW x, NEW y, InOrder(Backlog, x, y)
    PROVE  /\ y \notin done
           /\ y \in Elems(active) => x \in Elems(active)
<1>1. /\ queue \in Seq(Jobs) /\ pending \in Seq(Jobs) /\ waiting \in Seq(Jobs)
      /\ active \in Seq(Jobs) /\ tasks \in Seq(Jobs)
  BY DEF IInv, TypeOK
<1>2. InOrder(active \o tasks \o waiting \o pending \o queue, x, y)
  BY DEF Backlog, Held
<1>3. y \in Elems(active) \cup Elems(tasks) \cup Elems(waiting) \cup Elems(pending)
           \cup Elems(queue)
  BY <1>1, <1>2, BacklogElems
<1>4. y \notin done
  BY <1>3 DEF IInv, OnePlace
<1>5. ASSUME y \in Elems(active) PROVE x \in Elems(active)
  <2>1. \/ InOrder(active, x, y) \/ InOrder(tasks, x, y) \/ InOrder(waiting, x, y)
        \/ InOrder(pending, x, y) \/ InOrder(queue, x, y)
        \/ x \in Elems(active)
        \/ y \in Elems(waiting) \cup Elems(pending) \cup Elems(queue)
    BY <1>1, <1>2, OrderFive
  <2>2. \A s : InOrder(s, x, y) => x \in Elems(s) /\ y \in Elems(s)
    BY DEF InOrder, Elems
  <2>3. y \notin Elems(tasks) \cup Elems(waiting) \cup Elems(pending) \cup Elems(queue)
    BY <1>5 DEF IInv, OnePlace
  <2> QED BY <2>1, <2>2, <2>3
<1> QED BY <1>4, <1>5

\* A step leaves the jobs of the backlog on the levels of their last round.
LEMMA LevelStep ==
    ASSUME IInv, IInv', RInv, RInv', Levelled, Next
    PROVE  Levelled'
<1> SUFFICES ASSUME NEW x \in Jobs, NEW y \in Jobs, InOrder(Backlog', x, y)
             PROVE  Base(y)' <= Base(x)'
  BY DEF Levelled
<1> USE DEF handlerVars, jobVars, loopVars, batchVars, roundVars, slotVars
<1>a. TypeOK /\ OnePlace /\ OnePlace' /\ Traces /\ Traces' /\ RoundSets
  BY DEF IInv, RInv
<1>b. /\ taken \in [Jobs -> 0 .. MaxSteps] /\ outcome \in [Jobs -> Outcomes]
      /\ st \in [Jobs -> Status] /\ MaxSteps \in Nat
  BY <1>a, BoundsAssumption DEF TypeOK
<1>c. /\ queue' \in Seq(Jobs) /\ pending' \in Seq(Jobs) /\ waiting' \in Seq(Jobs)
      /\ active' \in Seq(Jobs) /\ tasks' \in Seq(Jobs)
      /\ taken' \in [Jobs -> 0 .. MaxSteps] /\ outcome' \in [Jobs -> Outcomes]
  BY DEF IInv, TypeOK
<1>d. x \in Accepted' /\ y \in Accepted'
  <2>1. Backlog' = active' \o tasks' \o waiting' \o pending' \o queue'
    BY DEF Backlog, Held
  <2>2. {x, y} \subseteq Elems(active') \cup Elems(tasks') \cup Elems(waiting')
                          \cup Elems(pending') \cup Elems(queue')
    BY <2>1, <1>c, BacklogElems
  <2>3. Elems(active') \cup Elems(tasks') \cup Elems(waiting')
           \cup Elems(pending') \cup Elems(queue') \subseteq Accepted'
    BY <1>a DEF OnePlace
  <2> QED BY <2>2, <2>3
<1>e. ASSUME UNCHANGED st PROVE st[y] = "accepted"
  BY <1>d, <1>e DEF Accepted
<1>f. ASSUME st[y] = "accepted",
             taken'[x] = taken[x], taken'[y] = taken[y],
             outcome'[x] = outcome[x], outcome'[y] = outcome[y]
      PROVE  Base(y)' <= Base(x)'
  <2>1. Base(y) <= Base(x)
    BY <1>f, StepOrder DEF Levelled
  <2> QED BY <2>1, <1>f DEF Base
<1>g. ASSUME UNCHANGED <<st, taken, outcome>> PROVE Base(y)' <= Base(x)'
  BY <1>e, <1>f, <1>g
<1>h. ASSUME NEW S, Forget(S), UNCHANGED outcome PROVE Base(y)' <= Base(x)'
  <2>1. /\ st' = [j \in Jobs |-> IF j \in S THEN "idle" ELSE st[j]]
        /\ taken' = [j \in Jobs |-> IF j \in S THEN 0 ELSE taken[j]]
    BY <1>h DEF Forget
  <2>2. x \notin S /\ y \notin S
    BY <2>1, <1>d DEF Accepted
  <2>3. st[y] = "accepted" /\ taken'[x] = taken[x] /\ taken'[y] = taken[y]
    BY <2>1, <2>2, <1>d DEF Accepted
  <2> QED BY <2>3, <1>h, <1>f
<1>i. Base(x)' >= 0 /\ Base(x)' \in Int
  BY <1>a, <1>c DEF Traces, Base
<1>j. Elems(active) \cup Elems(tasks) \cup done \subseteq Accepted
  BY <1>a DEF OnePlace
<1>1. ASSUME NEW j \in Jobs, TrySend(j) PROVE Base(y)' <= Base(x)'
  <2>1. st[j] = "posting" /\ UNCHANGED <<taken, outcome>>
        /\ \A k \in Jobs \ {j} : st'[k] = st[k]
    BY <1>1, <1>b DEF TrySend
  <2>2. CASE y # j
    BY <2>1, <2>2, <1>d, <1>f DEF Accepted
  <2>3. CASE y = j
    <3>1. j \notin Accepted
      BY <2>1 DEF Accepted
    <3>2. taken[j] = 0 /\ outcome[j] = "none"
      BY <2>1, <3>1, <1>a, <1>b, <1>j DEF Traces
    <3>3. Base(y)' = 0
      BY <2>1, <2>3, <3>2 DEF Base
    <3> QED BY <3>3, <1>i
  <2> QED BY <2>2, <2>3
<1>2. ASSUME NEW j \in Jobs, Reserve(j) PROVE Base(y)' <= Base(x)'
  <2>1. y # j /\ UNCHANGED <<taken, outcome>> /\ st'[y] = st[y]
    BY <1>2, <1>d, <1>b DEF Reserve, Accepted
  <2> QED BY <2>1, <1>d, <1>f DEF Accepted
<1>3. ASSUME NEW j \in Jobs, Release(j) PROVE Base(y)' <= Base(x)'
  BY <1>3, <1>h DEF Release
<1>4. ASSUME NEW j \in Jobs, Cancel(j) PROVE Base(y)' <= Base(x)'
  BY <1>4, <1>g DEF Cancel
<1>5. CASE RetireExclusive \/ RetireCompleted
  BY <1>5, <1>h DEF RetireExclusive, RetireCompleted
<1>6. CASE KeyPanics
  BY <1>6, <1>d, <1>b DEF KeyPanics, Accepted
<1>7. CASE DropHandles \/ TakePending \/ RecvCooperative \/ RecvExclusive \/ FinishExclusive
  BY <1>7, <1>g DEF DropHandles, TakePending, RecvCooperative, RecvExclusive, FinishExclusive
<1>8. CASE StopReceiving \/ RecvClosed \/ ExitOrContinue \/ StartRound \/ PickGroup
  BY <1>8, <1>g DEF StopReceiving, RecvClosed, ExitOrContinue, StartRound, PickGroup
<1>9. CASE PickSolo \/ BeginStep \/ GroupDeclines \/ CollectResult
  BY <1>9, <1>g DEF PickSolo, BeginStep, GroupDeclines, CollectResult
<1>10. ASSUME UNCHANGED st,
              \A j \in Jobs : Base(j)' = Base(j)
       PROVE  Base(y)' <= Base(x)'
  BY <1>10, <1>e, StepOrder DEF Levelled
<1>11. CASE StepReturns
  <2>1. PICK c \in SUBSET exec :
          /\ outcome' = [j \in Jobs |-> IF j \in c THEN "complete"
                                        ELSE IF j \in exec THEN "continue" ELSE outcome[j]]
          /\ taken' = [j \in Jobs |-> IF j \in exec \ c THEN taken[j] + 1 ELSE taken[j]]
    BY <1>11 DEF StepReturns, Record
  <2>2. \A j \in exec : outcome[j] = "none"
    BY <1>11, <1>a DEF StepReturns, RoundSets, Calling
  <2>3. \A j \in Jobs : Base(j)' = Base(j)
    BY <2>1, <2>2, <1>b DEF Base
  <2> QED BY <2>3, <1>10, <1>11 DEF StepReturns
<1>12. CASE StepPanics
  <2>1. /\ outcome' = [j \in Jobs |-> IF j \in exec THEN "complete"
                                      ELSE IF j \in exec THEN "continue" ELSE outcome[j]]
        /\ UNCHANGED taken
    BY <1>12 DEF StepPanics, Record
  <2>2. \A j \in exec : outcome[j] = "none"
    BY <1>12, <1>a DEF StepPanics, RoundSets, Calling
  <2>3. \A j \in Jobs : Base(j)' = Base(j)
    BY <2>1, <2>2, <1>b DEF Base
  <2> QED BY <2>3, <1>10, <1>12 DEF StepPanics
<1>13. CASE PublishOccupied
  <2>1. /\ UNCHANGED <<st, taken>> /\ wpc = "collect" /\ tasks = <<>>
        /\ outcome' = [j \in Jobs |-> "none"]
    BY <1>13 DEF PublishOccupied
  <2>2. InOrder(Backlog, x, y) /\ Base(y) <= Base(x)
    BY <2>1, <1>e, StepOrder DEF Levelled
  <2>3. taken'[x] = Base(x)' /\ taken'[y] = Base(y)'
    BY <2>1 DEF Base
  <2>4. CASE y \in Elems(active)
    <3>1. x \in Elems(active)
      BY <2>2, <2>4, OrderTop, ElemsEmpty, <2>1
    <3>2. outcome[x] = "continue" /\ outcome[y] = "continue"
      BY <2>1, <2>4, <3>1, <1>a DEF Traces, InRound
    <3> QED BY <2>1, <2>2, <2>3, <3>2, <1>b DEF Base
  <2>5. CASE y \notin Elems(active)
    <3>1. y \notin done
      BY <2>2, OrderTop
    <3>2. taken[y] = 0
      BY <2>1, <2>5, <3>1, <1>a, <1>e, NoElems DEF Traces
    <3> QED BY <2>1, <2>3, <3>2, <1>b
  <2> QED BY <2>4, <2>5
<1> QED
  BY <1>1, <1>2, <1>3, <1>4, <1>5, <1>6, <1>7, <1>8, <1>9, <1>11, <1>12, <1>13
  DEF Next, Handler, Worker

\* Levelled holds in every reachable state.
LEMMA LevelInvariance == Spec => []Levelled
<1>1. Init => Levelled
  <2> SUFFICES ASSUME Init, NEW x \in Jobs, NEW y \in Jobs PROVE Base(y) <= Base(x)
    BY DEF Levelled
  <2> QED BY DEF Init, Base
<1>2. ASSUME IInv, IInv', RInv, RInv', Levelled, [Next]_vars PROVE Levelled'
  <2>1. CASE Next
    BY <1>2, <2>1, LevelStep
  <2>2. CASE UNCHANGED vars
    <3>1. UNCHANGED <<active, tasks, waiting, pending, queue, taken, outcome>>
      BY <2>2 DEF vars, handlerVars, jobVars, loopVars, batchVars, roundVars
    <3> QED BY <1>2, <3>1 DEF Levelled, Backlog, Held, Base
  <2> QED BY <1>2, <2>1, <2>2
<1> QED BY <1>1, <1>2, RoundInvariance, PTL DEF Spec

\* Streams advance in lockstep: whatever is grouped, declined, cancelled or
\* panics, no stream is ahead of an older one by more than the step of the
\* current round.
THEOREM StreamsInLockstep == Spec => []Lockstep
<1>1. ASSUME IInv, RInv, Levelled PROVE Lockstep
  <2> SUFFICES ASSUME NEW m \in DOMAIN Held, NEW n \in DOMAIN Held, m < n
               PROVE  taken[Held[n]] <= taken[Held[m]] + (IF tasks = <<>> THEN 0 ELSE 1)
    BY DEF Lockstep
  <2>a. /\ queue \in Seq(Jobs) /\ pending \in Seq(Jobs) /\ waiting \in Seq(Jobs)
        /\ active \in Seq(Jobs) /\ tasks \in Seq(Jobs)
        /\ taken \in [Jobs -> 0 .. MaxSteps] /\ outcome \in [Jobs -> Outcomes]
        /\ MaxSteps \in Nat
    BY <1>1, BoundsAssumption DEF IInv, TypeOK
  <2>b. Held \in Seq(Jobs)
    BY <2>a, OrderFive DEF Held
  <2> DEFINE x == Held[m]
             y == Held[n]
  <2>c. x \in Jobs /\ y \in Jobs
    BY <2>b, LenProperties, ElementOfSeq
  <2>d. InOrder(Held, x, y) /\ y \in Elems(Held)
    BY DEF InOrder, Elems
  <2>e. InOrder(Backlog, x, y)
    BY <2>a, <2>b, <2>d, OrderConcat DEF Backlog
  <2> HIDE DEF x, y
  <2>f. Base(y) <= Base(x)
    BY <1>1, <2>c, <2>e DEF Levelled
  <2>g. y \in Elems(active) \cup Elems(tasks) \cup Elems(waiting) \cup Elems(pending)
    BY <2>a, <2>d, OrderFive DEF Held
  <2>h. y \in Accepted /\ y \notin done
    BY <1>1, <2>g DEF IInv, OnePlace
  <2>1. CASE tasks # <<>>
    <3>1. taken[y] <= Base(y) + 1 /\ Base(x) <= taken[x]
      BY <2>a, <2>c DEF Base
    <3>2. Base(x) \in Int /\ Base(y) \in Int
      BY <2>a, <2>c DEF Base
    <3>3. taken[y] <= taken[x] + 1
      BY <3>1, <3>2, <2>a, <2>c, <2>f
    <3> QED BY <3>3, <2>1 DEF x, y
  <2>2. CASE tasks = <<>>
    <3>1. taken[y] <= taken[x]
      <4>1. CASE y \in Elems(active)
        <5>1. x \in Elems(active)
          BY <1>1, <2>e, <4>1, OrderTop
        <5>2. outcome[x] = outcome[y]
          BY <1>1, <2>c, <4>1, <5>1 DEF RInv, Traces, InRound
        <5> QED BY <5>2, <2>f, <2>a, <2>c DEF Base
      <4>2. CASE y \notin Elems(active)
        <5>1. taken[y] = 0
          BY <1>1, <2>2, <2>c, <2>h, <4>2, NoElems DEF RInv, Traces, Accepted
        <5> QED BY <5>1, <2>a, <2>c
      <4> QED BY <4>1, <4>2
    <3>2. taken[x] \in Int
      BY <2>a, <2>c
    <3> QED BY <3>1, <3>2, <2>2 DEF x, y
  <2> QED BY <2>1, <2>2
<1> QED BY <1>1, RoundInvariance, LevelInvariance, PTL

(***************************************************************************)
(* The worker implements the service.                                      *)
(***************************************************************************)

\* A sequence without repetitions has as many members as places.
LEMMA DistinctCount ==
    ASSUME NEW S, NEW s \in Seq(S), Distinct(s)
    PROVE  IsFiniteSet(Elems(s)) /\ Cardinality(Elems(s)) = Len(s)
<1>1. DOMAIN s = 1 .. Len(s) /\ Len(s) \in Nat
  BY LenProperties
<1>2. IsFiniteSet(DOMAIN s) /\ Cardinality(DOMAIN s) = Len(s)
  BY <1>1, FS_Interval
<1>3. s \in Surjection(DOMAIN s, Elems(s)) /\ s \in Injection(DOMAIN s, Elems(s))
  <2>1. s = [i \in DOMAIN s |-> s[i]]
    BY <1>1, SeqDef
  <2>2. s \in [DOMAIN s -> Elems(s)]
    BY <2>1 DEF Elems
  <2>3. s \in Injection(DOMAIN s, Elems(s))
    BY <2>2 DEF Injection, IsInjective, Distinct
  <2>4. s \in Surjection(DOMAIN s, Elems(s))
    BY <2>1 DEF Surjection, Elems
  <2> QED BY <2>3, <2>4
<1> QED BY <1>2, <1>3, FS_Surjection

\* A full channel holds as many jobs as it has places.
LEMMA FullChannel ==
    ASSUME IInv, ChannelFull
    PROVE  Cardinality(Accepted) >= QueueDepth
<1>1. /\ queue \in Seq(Jobs) /\ Distinct(queue) /\ Elems(queue) \subseteq Accepted
  BY DEF IInv, TypeOK, OnePlace
<1>2. Len(queue) \in Nat /\ QueueDepth \in Nat
  BY <1>1, LenProperties, BoundsAssumption
<1>3. IsFiniteSet(Accepted)
  BY JobsAssumption, FS_Subset DEF Accepted
<1>4. Cardinality(Elems(queue)) = Len(queue)
  BY <1>1, DistinctCount
<1>5. Cardinality(Elems(queue)) <= Cardinality(Accepted)
  BY <1>1, <1>3, FS_Subset
<1>6. Cardinality(Accepted) \in Nat
  BY <1>3, FS_CardinalityType
<1> QED BY <1>2, <1>4, <1>5, <1>6 DEF ChannelFull

\* The jobs the service owns are those the worker has accepted.
LEMMA OwnedAccepted ==
    ASSUME TypeOK
    PROVE  Service!Owned = Accepted
<1>1. st \in [Jobs -> Status]
  BY DEF TypeOK
<1>2. \A s \in Status : (StatusMap[s] = "owned") <=> (s = "accepted")
  BY DEF Status, StatusMap
<1> QED BY <1>1, <1>2 DEF Service!Owned, Accepted

\* Every step of the worker and its handlers is a step of the service, or
\* nothing a caller can see.
LEMMA ServiceStep ==
    ASSUME IInv, IInv', RInv, RInv', BacklogBounded', Next
    PROVE  Service!Next \/ UNCHANGED Service!vars
<1> DEFINE Status_ == [j \in Jobs |-> StatusMap[st[j]]]
           Comp == IF wpc \in {"run", "exclusive"} THEN exec ELSE {}
<1> USE DEF handlerVars, jobVars, loopVars, batchVars, roundVars, slotVars
<1>a. /\ TypeOK /\ TypeOK' /\ OnePlace /\ OnePlace' /\ RoundPhase
      /\ RoundSets /\ RoundSets' /\ Traces /\ Traces' /\ Closing
  BY DEF IInv, RInv
<1>b. st \in [Jobs -> Status] /\ st' \in [Jobs -> Status]
  BY <1>a DEF TypeOK
<1>c. /\ StatusMap["idle"] = "free" /\ StatusMap["posting"] = "asking"
      /\ StatusMap["refused"] = "away" /\ StatusMap["accepted"] = "owned"
      /\ StatusMap["lost"] = "lost"
  BY DEF StatusMap
<1>d. Service!Owned = Accepted
  BY <1>a, OwnedAccepted
<1>f. Service!Cardinality(Accepted) = Cardinality(Accepted)
  BY DEF Service!Cardinality, Cardinality
<1>e. ASSUME UNCHANGED st, Comp' = Comp, Closed' = Closed
      PROVE  UNCHANGED Service!vars
  BY <1>e DEF Service!vars
<1>1. ASSUME NEW j \in Jobs, Reserve(j) PROVE Service!Next
  <2>1. /\ st[j] = "idle" /\ st' = [st EXCEPT ![j] = "posting"]
        /\ Comp' = Comp /\ Closed' = Closed
    BY <1>1 DEF Reserve, Closed
  <2>2. Status_[j] = "free" /\ Status_' = [Status_ EXCEPT ![j] = "asking"]
    BY <2>1, <1>b, <1>c
  <2>3. Service!Ask(j)
    BY <2>1, <2>2 DEF Service!Ask
  <2> QED BY <2>3 DEF Service!Next
<1>2. ASSUME NEW j \in Jobs, TrySend(j) PROVE Service!Next
  <2>1. st[j] = "posting" /\ Comp' = Comp /\ Closed' = Closed
    BY <1>2 DEF TrySend, Closed
  <2>2. Status_[j] = "asking"
    BY <2>1, <1>c
  <2>3. CASE ~Closed /\ st' = [st EXCEPT ![j] = "accepted"]
    <3>1. Status_' = [Status_ EXCEPT ![j] = "owned"]
      BY <2>3, <1>b, <1>c
    <3>2. j \notin Accepted /\ Accepted' = Accepted \cup {j}
      BY <2>1, <2>3, <1>b DEF Accepted
    <3>3. IsFiniteSet(Accepted) /\ Cardinality(Accepted) \in Nat
      BY JobsAssumption, FS_Subset, FS_CardinalityType DEF Accepted
    <3>4. Cardinality(Accepted') = Cardinality(Accepted) + 1
      BY <3>2, <3>3, FS_AddElement
    <3>5. Cardinality(Accepted') <= QueueDepth + Slots + 1
      BY DEF BacklogBounded
    <3>6. Cardinality(Service!Owned) < QueueDepth + Slots + 1
      BY <3>3, <3>4, <3>5, <1>d, BoundsAssumption
    <3>7. Service!Take(j)
      BY <2>1, <2>2, <2>3, <3>1, <3>6, <1>d, <1>f DEF Service!Take
    <3> QED BY <3>7 DEF Service!Next
  <2>4. CASE (Closed \/ ChannelFull) /\ st' = [st EXCEPT ![j] = "refused"]
    <3>1. Status_' = [Status_ EXCEPT ![j] = "away"]
      BY <2>4, <1>b, <1>c
    <3>2. Closed \/ Cardinality(Service!Owned) >= QueueDepth
      BY <2>4, <1>d, FullChannel
    <3>3. Service!TurnAway(j)
      BY <2>1, <2>2, <3>1, <3>2, <1>d, <1>f DEF Service!TurnAway
    <3> QED BY <3>3 DEF Service!Next
  <2> QED BY <1>2, <2>3, <2>4 DEF TrySend
<1>3. ASSUME NEW j \in Jobs, Release(j) PROVE Service!Next
  <2>1. /\ st[j] = "refused"
        /\ st' = [k \in Jobs |-> IF k \in {j} THEN "idle" ELSE st[k]]
        /\ Comp' = Comp /\ Closed' = Closed
    BY <1>3 DEF Release, Forget, Closed
  <2>2. Status_[j] = "away" /\ Status_' = [Status_ EXCEPT ![j] = "free"]
    BY <2>1, <1>b, <1>c
  <2>3. Service!Leave(j)
    BY <2>1, <2>2 DEF Service!Leave
  <2> QED BY <2>3 DEF Service!Next
<1>4. ASSUME NEW j \in Jobs, Cancel(j) PROVE UNCHANGED Service!vars
  BY <1>4, <1>e DEF Cancel, Closed
<1>5. ASSUME UNCHANGED st, Comp = {}, Comp' # {}, Comp' \subseteq Accepted,
             ~Closed, Closed' = Closed
      PROVE  Service!Next
  <2>1. Service!Start
    BY <1>5, <1>d DEF Service!Start
  <2> QED BY <2>1 DEF Service!Next
<1>6. ASSUME UNCHANGED st, Comp # {}, Comp' = {}, Closed' = Closed
      PROVE  Service!Next
  <2>1. Service!Stop
    BY <1>6 DEF Service!Stop
  <2> QED BY <2>1 DEF Service!Next
<1>7. ASSUME NEW S, S \subseteq Accepted, Forget(S),
             Comp = {}, Comp' = {}, Closed' = Closed
      PROVE  Service!Next \/ UNCHANGED Service!vars
  <2>1. st' = [j \in Jobs |-> IF j \in S THEN "idle" ELSE st[j]]
    BY <1>7 DEF Forget
  <2>2. CASE S = {}
    <3>1. st' = st
      BY <2>1, <2>2, <1>b
    <3> QED BY <3>1, <1>7, <1>e
  <2>3. CASE S # {}
    <3>1. Status_' = [j \in Jobs |-> IF j \in S THEN "free" ELSE Status_[j]]
      BY <2>1, <1>b, <1>c
    <3>2. S \in (SUBSET Service!Owned) \ {{}}
      BY <1>7, <1>d, <2>3
    <3>3. Service!Complete
      BY <1>7, <3>1, <3>2 DEF Service!Complete
    <3> QED BY <3>3 DEF Service!Next
  <2> QED BY <2>2, <2>3
<1>8. CASE RecvExclusive
  <2>1. Head(queue) \in Accepted
    BY <1>8, <1>a, ElemsTail DEF RecvExclusive, TypeOK, OnePlace
  <2>2. /\ UNCHANGED st /\ wpc = "recv" /\ wpc' = "exclusive" /\ exec' = {Head(queue)}
    BY <1>8 DEF RecvExclusive
  <2> QED BY <2>1, <2>2, <1>5 DEF Closed
<1>9. CASE FinishExclusive
  <2>1. UNCHANGED <<st, exec>> /\ wpc = "exclusive" /\ wpc' = "lowerDepth" /\ exec # {}
    BY <1>9, <1>a DEF FinishExclusive, RoundPhase
  <2> QED BY <2>1, <1>6 DEF Closed
<1>10. CASE RetireExclusive
  <2>1. Forget(exec) /\ wpc = "lowerDepth" /\ wpc' = "recv"
    BY <1>10 DEF RetireExclusive
  <2>2. exec \subseteq Accepted
    BY <2>1, <1>a DEF OnePlace, Exclusive
  <2> QED BY <2>1, <2>2, <1>7 DEF Closed
<1>11. CASE RetireCompleted
  <2>1. Forget(done) /\ wpc = "retire" /\ wpc' = "top"
    BY <1>11 DEF RetireCompleted
  <2>2. done \subseteq Accepted
    BY <1>a DEF OnePlace
  <2> QED BY <2>1, <2>2, <1>7 DEF Closed
<1>12. CASE BeginStep
  <2>1. UNCHANGED st /\ wpc = "begin" /\ wpc' \in {"begin", "run"}
    BY <1>12 DEF BeginStep
  <2>2. CASE wpc' = "begin"
    BY <2>1, <2>2, <1>e DEF Closed
  <2>3. CASE wpc' = "run"
    <3>1. exec' # {} /\ exec' \subseteq Elems(tasks')
      BY <2>3, <1>a DEF RoundSets, Calling
    <3>2. Elems(tasks') \subseteq Accepted' /\ Accepted' = Accepted
      BY <2>1, <1>a DEF OnePlace, Accepted
    <3> QED BY <2>1, <2>3, <3>1, <3>2, <1>5 DEF Closed
  <2> QED BY <2>1, <2>2, <2>3
<1>13. CASE StepReturns \/ GroupDeclines \/ StepPanics
  <2>1. UNCHANGED st /\ wpc = "run" /\ wpc' = "pick"
    BY <1>13 DEF StepReturns, GroupDeclines, StepPanics, Record
  <2>2. exec # {}
    BY <2>1, <1>a DEF RoundSets
  <2> QED BY <2>1, <2>2, <1>6 DEF Closed
<1>14. CASE ExitOrContinue
  <2>1. UNCHANGED st /\ wpc = "dispatch" /\ BatchEmpty
        /\ wpc' = IF disconnected /\ pending = <<>> THEN "exit" ELSE "top"
    BY <1>14 DEF ExitOrContinue
  <2>2. CASE wpc' = "top"
    BY <2>1, <2>2, <1>e DEF Closed
  <2>3. CASE disconnected /\ pending = <<>> /\ wpc' = "exit"
    <3>1. queue = <<>> /\ tasks = <<>> /\ done = {} /\ active = <<>> /\ waiting = <<>>
      BY <2>1, <2>3, <1>a DEF Closing, RoundPhase, BatchEmpty
    <3>2. Accepted = {}
      BY <2>1, <2>3, <3>1, <1>a, NoElems DEF OnePlace, Exclusive
    <3>3. Service!GoDown
      BY <2>1, <2>3, <3>2, <1>d DEF Service!GoDown, Closed
    <3> QED BY <3>3 DEF Service!Next
  <2> QED BY <2>1, <2>2, <2>3
<1>15. CASE KeyPanics
  <2>1. /\ wpc = "dispatch" /\ wpc' = "dead"
        /\ st' = [j \in Jobs |-> IF st[j] = "accepted" THEN "lost" ELSE st[j]]
    BY <1>15 DEF KeyPanics
  <2>2. Status_' = [j \in Jobs |-> IF j \in Accepted THEN "lost" ELSE Status_[j]]
    BY <2>1, <1>b, <1>c DEF Accepted
  <2>3. Service!Crash
    BY <2>1, <2>2, <1>d DEF Service!Crash, Closed
  <2> QED BY <2>3 DEF Service!Next
<1>16. CASE DropHandles
  BY <1>16, <1>e DEF DropHandles, Closed
<1>17. CASE TakePending \/ RecvCooperative \/ StopReceiving \/ RecvClosed \/ StartRound
  BY <1>17, <1>e DEF TakePending, RecvCooperative, StopReceiving, RecvClosed, StartRound, Closed
<1>18. CASE PickGroup \/ PickSolo \/ CollectResult \/ PublishOccupied
  BY <1>18, <1>e DEF PickGroup, PickSolo, CollectResult, PublishOccupied, Closed
<1> QED
  BY <1>1, <1>2, <1>3, <1>4, <1>8, <1>9, <1>10, <1>11, <1>12, <1>13, <1>14, <1>15,
     <1>16, <1>17, <1>18
  DEF Next, Handler, Worker

\* The engine of engine.rs keeps every promise of EngineService, for any number
\* of slots, jobs and places in the channel: one call computes at a time, a
\* refusal has a cause, a job is completed once, an orderly end owes nothing.
THEOREM WorkerImplementsService == Spec => ImplementsService
<1>1. Init => Service!Init
  <2> SUFFICES ASSUME Init PROVE Service!Init
    OBVIOUS
  <2>1. [j \in Jobs |-> StatusMap[st[j]]] = [j \in Jobs |-> "free"]
    BY DEF Init, StatusMap
  <2> QED BY <2>1 DEF Init, Service!Init, Closed
<1>2. ASSUME IInv, IInv', RInv, RInv', BacklogBounded', [Next]_vars
      PROVE  [Service!Next]_(Service!vars)
  <2>1. CASE Next
    BY <1>2, <2>1, ServiceStep
  <2>2. CASE UNCHANGED vars
    BY <2>2 DEF vars, handlerVars, loopVars, roundVars, Service!vars, Closed
  <2> QED BY <1>2, <2>1, <2>2
<1> QED BY <1>1, <1>2, RoundInvariance, Backpressure, PTL DEF Spec, ImplementsService, Service!Spec

(***************************************************************************)
(* What slot_snapshot reads of the running task while the worker stores    *)
(* it: EngineSlotSnapshot, with the order of the stores and of the loads,  *)
(* for any set of tasks and any clock.                                     *)
(***************************************************************************)

SlotTyped == SnapshotTypeOK /\ (task # 0 => task \in live) /\ (running => task # 0 /\ plan = <<>>)

\* A task that has begun has the time it began at.
SlotDated == \A t \in live : slot[t]["started"] >= 1

\* The atomics never show an id without a start: a publication stores the start
\* first, a drop zeroes the id first.
SlotOrdered ==
    /\ cell["id"] # 0 => cell["started"] >= 1
    /\ running => cell["started"] >= 1
    /\ task # 0 /\ plan # <<>> =>
          /\ \A i \in DOMAIN plan : plan[i][1] = "started" => plan[i][2] >= 1
          /\ cell["started"] >= 1 \/ plan[1][1] = "started"
    /\ task = 0 /\ plan # <<>> =>
          /\ \A i \in DOMAIN plan : plan[i][2] = 0
          /\ cell["id"] = 0 \/ plan[1][1] = "id"

\* A snapshot that has seen an id, with no drop since, still sees a start.
SlotWitnessed ==
    /\ rpc \in {<<"started", "last", "units">>, <<"last", "units">>, <<"units">>, <<>>}
    /\ seen["id"] # 0 /\ ~dropped =>
          /\ rpc # <<>> => cell["id"] # 0
          /\ rpc # <<"started", "last", "units">> => seen["started"] >= 1

SlotIInv == SlotTyped /\ SlotDated /\ SlotOrdered /\ SlotWitnessed

\* What the worker stores when it publishes a task and when it drops one.
LEMMA StoresOf ==
    ASSUME NEW v
    PROVE  /\ Stores(PublishOrder, v) = << <<"started", v["started"]>>, <<"last", v["last"]>>,
                                           <<"units", v["units"]>>, <<"id", v["id"]>> >>
           /\ Stores(DropOrder, v) = << <<"id", v["id"]>>, <<"started", v["started"]>>,
                                        <<"last", v["last"]>>, <<"units", v["units"]>> >>
BY DEF Stores, PublishOrder, DropOrder

\* The stores that are left after the first.
LEMMA PlanTail ==
    ASSUME NEW p \in Seq(Fields \X Nat), p # <<>>
    PROVE  /\ Tail(p) \in Seq(Fields \X Nat) /\ Head(p) = p[1] /\ p[1] \in Fields \X Nat
           /\ 1 \in DOMAIN p
           /\ \A i \in DOMAIN Tail(p) : i + 1 \in DOMAIN p /\ Tail(p)[i] = p[i + 1]
           /\ Tail(p) # <<>> => 1 \in DOMAIN Tail(p)
<1>1. /\ Head(p) \in Fields \X Nat /\ Tail(p) \in Seq(Fields \X Nat)
      /\ Len(Tail(p)) = Len(p) - 1
      /\ \A i \in 1 .. Len(Tail(p)) : Tail(p)[i] = p[i + 1]
  BY HeadTailProperties
<1>2. Len(p) \in Nat /\ DOMAIN p = 1 .. Len(p) /\ Len(p) # 0 /\ Head(p) = p[1]
  BY LenProperties, EmptySeq
<1>3. DOMAIN Tail(p) = 1 .. Len(p) - 1 /\ (Tail(p) # <<>> => Len(Tail(p)) # 0)
  BY <1>1, LenProperties, EmptySeq
<1> QED BY <1>1, <1>2, <1>3

\* Nothing is published yet.
LEMMA SlotStartInv ==
    SnapshotInit => SlotIInv
<1> SUFFICES ASSUME SnapshotInit PROVE SlotIInv
  OBVIOUS
<1>1. Blank \in [Fields -> Nat] /\ Blank["id"] = 0
  BY DEF Blank, Fields
<1>2. SlotTyped
  <2>1. slot \in [Tasks -> [Fields -> Nat]] /\ cell \in [Fields -> Nat]
        /\ seen \in [Fields -> Nat]
    BY <1>1 DEF SnapshotInit
  <2>2. plan \in Seq(Fields \X Nat) /\ rpc \in Seq(Fields)
    BY DEF SnapshotInit
  <2>3. clock \in 1 .. MaxClock /\ now \in 0 .. MaxClock
    BY ClockAssumption DEF SnapshotInit
  <2> QED BY <2>1, <2>2, <2>3 DEF SnapshotInit, SlotTyped, SnapshotTypeOK
<1>3. SlotDated /\ SlotOrdered /\ SlotWitnessed
  BY <1>1 DEF SnapshotInit, SlotDated, SlotOrdered, SlotWitnessed
<1> QED BY <1>2, <1>3 DEF SlotIInv

\* Every step keeps the invariant.
LEMMA SlotStepInv ==
    SlotIInv /\ [SnapshotNext]_snapshotVars => SlotIInv'
<1> SUFFICES ASSUME SlotIInv, [SnapshotNext]_snapshotVars PROVE SlotIInv'
  OBVIOUS
<1> USE TasksAssumption, ClockAssumption DEF SlotTyped, SnapshotTypeOK
<1>0. Blank \in [Fields -> Nat] /\ {"id", "started", "last", "units"} = Fields
  BY DEF Blank, Fields
<1>1. CASE Tick
  BY <1>1 DEF Tick, SlotIInv, SlotDated, SlotOrdered, SlotWitnessed, workerVars, readerVars
<1>2. ASSUME NEW t \in Tasks, Begin(t) PROVE SlotIInv'
  <2> DEFINE new == [Blank EXCEPT !["id"] = t, !["started"] = clock, !["last"] = clock]
             v == IF t \in live THEN slot[t] ELSE new
  <2>1. new \in [Fields -> Nat] /\ new["started"] = clock
    <3>1. t \in Nat /\ clock \in Nat
      BY DEF SlotIInv
    <3>2. [Blank EXCEPT !["id"] = t] \in [Fields -> Nat]
      BY <1>0, <3>1
    <3>3. [Blank EXCEPT !["id"] = t, !["started"] = clock] \in [Fields -> Nat]
      BY <1>0, <3>1, <3>2
    <3>4. new \in [Fields -> Nat]
      BY <1>0, <3>1, <3>3
    <3>5. new["started"] = clock
      BY <1>0
    <3> QED BY <3>4, <3>5
  <2> HIDE DEF new
  <2>2. v \in [Fields -> Nat] /\ v["started"] >= 1 /\ t \in Nat \ {0}
    <3>1. CASE t \in live
      BY <3>1 DEF SlotIInv, SlotDated
    <3>2. CASE t \notin live
      BY <2>1, <3>2 DEF SlotIInv
    <3> QED BY <3>1, <3>2
  <2>3. slot' = [slot EXCEPT ![t] = v] /\ slot'[t] = v
    BY <1>2 DEF Begin, SlotIInv, new
  <2> HIDE DEF v
  <2>4. plan' = << <<"started", v["started"]>>, <<"last", v["last"]>>,
                   <<"units", v["units"]>>, <<"id", v["id"]>> >>
    BY <1>2, <2>3, StoresOf DEF Begin
  <2>5. plan' \in Seq(Fields \X Nat) /\ plan' # <<>>
        /\ plan'[1][1] = "started"
        /\ \A i \in DOMAIN plan' : plan'[i][1] = "started" => plan'[i][2] >= 1
    BY <2>2, <2>4, <1>0
  <2>6. slot' \in [Tasks -> [Fields -> Nat]] /\ live' = live \cup {t}
        /\ \A u \in live' : slot'[u]["started"] >= 1
    BY <1>2, <2>2, <2>3 DEF Begin, SlotIInv, SlotDated
  <2> QED BY <1>2, <2>2, <2>5, <2>6
          DEF Begin, SlotIInv, SlotDated, SlotOrdered, SlotWitnessed, readerVars
<1>3. CASE Store
  <2>1. plan # <<>> /\ plan \in Seq(Fields \X Nat)
    BY <1>3 DEF Store, SlotIInv
  <2> DEFINE f == plan[1][1]
             w == plan[1][2]
             rest == Tail(plan)
  <2>2. /\ rest \in Seq(Fields \X Nat) /\ Head(plan) = plan[1] /\ plan[1] \in Fields \X Nat
        /\ 1 \in DOMAIN plan
        /\ \A i \in DOMAIN rest : i + 1 \in DOMAIN plan /\ rest[i] = plan[i + 1]
        /\ rest # <<>> => 1 \in DOMAIN rest
    BY <2>1, PlanTail
  <2>3. f \in Fields /\ w \in Nat /\ plan[1] = <<f, w>>
    BY <2>2
  <2> HIDE DEF f, w, rest
  <2>4. /\ cell' = [cell EXCEPT ![f] = w] /\ plan' = rest
        /\ running' = (task # 0 /\ rest = <<>>)
        /\ dropped' = (dropped \/ (f = "id" /\ w = 0))
        /\ UNCHANGED <<clock, slot, live, task, rpc, seen, now>>
    BY <1>3, <2>2, <2>3 DEF Store, f, w, rest
  <2>5. cell' \in [Fields -> Nat]
        /\ (\A g \in Fields : cell'[g] = IF g = f THEN w ELSE cell[g])
    BY <2>3, <2>4 DEF SlotIInv
  <2>6. SlotTyped'
    BY <2>2, <2>4, <2>5 DEF SlotIInv
  <2>7. SlotDated'
    BY <2>4 DEF SlotIInv, SlotDated
  <2>8. /\ task # 0 => (f = "started" => w >= 1) /\ (cell["started"] >= 1 \/ f = "started")
        /\ task = 0 => w = 0 /\ (cell["id"] = 0 \/ f = "id")
    BY <2>1, <2>2 DEF SlotIInv, SlotOrdered, f, w
  <2>9. /\ cell["id"] # 0 => cell["started"] >= 1
        /\ cell["id"] \in Nat /\ cell["started"] \in Nat
    BY <1>0 DEF SlotIInv, SlotOrdered
  <2>10. /\ task # 0 => cell'["started"] >= 1
         /\ task = 0 => cell'["id"] = 0
    BY <1>0, <2>3, <2>5, <2>8, <2>9
  <2>11. cell'["id"] # 0 => cell'["started"] >= 1
    BY <2>10
  <2>12. /\ task # 0 => \A i \in DOMAIN rest : rest[i][1] = "started" => rest[i][2] >= 1
         /\ task = 0 => \A i \in DOMAIN rest : rest[i][2] = 0
    BY <2>1, <2>2 DEF SlotIInv, SlotOrdered
  <2>13. SlotOrdered'
    BY <2>4, <2>10, <2>11, <2>12 DEF SlotOrdered
  <2>14. SlotWitnessed'
    BY <1>0, <2>3, <2>4, <2>5 DEF SlotIInv, SlotWitnessed
  <2> QED BY <2>6, <2>7, <2>13, <2>14 DEF SlotIInv
<1>4. CASE RecordUnits
  <2>1. PICK u \in 0 .. MaxUnits : cell' = [cell EXCEPT !["units"] = u]
    BY <1>4 DEF RecordUnits
  <2>2. cell' \in [Fields -> Nat] /\ cell'["id"] = cell["id"] /\ cell'["started"] = cell["started"]
    BY <1>0, <2>1 DEF SlotIInv
  <2>3. plan' = << <<"last", clock>> >>
    BY <1>4 DEF RecordUnits
  <2>4. plan' \in Seq(Fields \X Nat) /\ plan' # <<>>
        /\ \A i \in DOMAIN plan' : plan'[i][1] # "started"
    BY <1>0, <2>3 DEF SlotIInv
  <2>5. task \in Tasks /\ task # 0 /\ cell["started"] >= 1
    BY <1>4 DEF RecordUnits, SlotIInv, SlotOrdered
  <2>6. SlotTyped' /\ SlotDated' /\ SlotWitnessed'
    BY <1>4, <2>2, <2>4 DEF RecordUnits, SlotIInv, SlotDated, SlotWitnessed, readerVars
  <2>7. SlotOrdered'
    BY <1>4, <2>2, <2>4, <2>5 DEF RecordUnits, SlotOrdered
  <2> QED BY <2>6, <2>7 DEF SlotIInv
<1>5. CASE Yield
  <2>1. PICK u \in slot[task]["units"] .. MaxUnits, time \in {slot[task]["last"], clock} :
           slot' = [slot EXCEPT ![task] = [@ EXCEPT !["units"] = u, !["last"] = time]]
    BY <1>5 DEF Yield
  <2>2. task \in Tasks /\ slot[task] \in [Fields -> Nat] /\ u \in Nat /\ time \in Nat
    BY <1>0, <1>5 DEF Yield, SlotIInv
  <2>3. /\ slot' \in [Tasks -> [Fields -> Nat]]
        /\ \A v \in Tasks : slot'[v]["started"] = slot[v]["started"]
    BY <1>0, <2>1, <2>2 DEF SlotIInv
  <2> QED BY <1>5, <2>3 DEF Yield, SlotIInv, SlotDated, SlotOrdered, SlotWitnessed, readerVars
<1>6. CASE Complete
  <2>1. plan' = << <<"id", 0>>, <<"started", 0>>, <<"last", 0>>, <<"units", 0>> >>
    <3>1. /\ Blank["id"] = 0 /\ Blank["started"] = 0
          /\ Blank["last"] = 0 /\ Blank["units"] = 0
      BY DEF Blank, Fields
    <3>2. plan' = Stores(DropOrder, Blank)
      BY <1>6 DEF Complete
    <3> HIDE DEF Blank
    <3> QED BY <3>1, <3>2, StoresOf
  <2>2. plan' \in Seq(Fields \X Nat) /\ plan' # <<>> /\ plan'[1][1] = "id"
        /\ \A i \in DOMAIN plan' : plan'[i][2] = 0
    BY <1>0, <2>1
  <2>3. slot' \in [Tasks -> [Fields -> Nat]]
        /\ \A u \in live \ {task} : slot'[u] = slot[u]
    BY <1>0, <1>6 DEF Complete, SlotIInv
  <2> QED BY <1>6, <2>2, <2>3 DEF Complete, SlotIInv, SlotDated, SlotOrdered, SlotWitnessed, readerVars
<1>7. CASE LoadId
  <2>1. rpc' = <<"started", "last", "units">> /\ rpc' \in Seq(Fields) /\ rpc' # <<>>
    BY <1>0, <1>7 DEF LoadId, LoadOrder
  <2>2. seen' \in [Fields -> Nat] /\ seen'["id"] = cell["id"]
    BY <1>0, <1>7 DEF LoadId, SlotIInv
  <2>3. /\ now' \in 0 .. MaxClock /\ dropped' = FALSE
        /\ UNCHANGED <<clock, cell, slot, live, task, plan, running>>
    BY <1>7 DEF LoadId, workerVars
  <2>4. SlotTyped'
    BY <2>1, <2>2, <2>3 DEF SlotIInv
  <2>5. SlotDated' /\ SlotOrdered'
    BY <2>3 DEF SlotIInv, SlotDated, SlotOrdered
  <2>6. SlotWitnessed'
    BY <2>1, <2>2, <2>3 DEF SlotWitnessed
  <2> QED BY <2>4, <2>5, <2>6 DEF SlotIInv
<1>8. CASE Load
  <2>1. /\ Head(rpc) \in Fields /\ Head(rpc) # "id"
        /\ rpc = <<"started", "last", "units">> => Head(rpc) = "started"
        /\ rpc # <<"started", "last", "units">> => Head(rpc) # "started"
        /\ Tail(rpc) \in {<<"last", "units">>, <<"units">>, <<>>} /\ Tail(rpc) \in Seq(Fields)
        /\ Tail(rpc) # <<"started", "last", "units">>
    <3>1. CASE rpc = <<"started", "last", "units">>
      <4>1. Head(rpc) = "started" /\ Tail(rpc) = <<"last", "units">>
        BY <3>1
      <4> QED BY <1>0, <3>1, <4>1
    <3>2. CASE rpc = <<"last", "units">>
      <4>1. Head(rpc) = "last" /\ Tail(rpc) = <<"units">>
        BY <3>2
      <4> QED BY <1>0, <3>2, <4>1
    <3>3. CASE rpc = <<"units">>
      <4>1. Head(rpc) = "units" /\ Tail(rpc) = <<>>
        BY <3>3
      <4> QED BY <1>0, <3>3, <4>1
    <3> QED BY <1>8, <3>1, <3>2, <3>3 DEF Load, SlotIInv, SlotWitnessed
  <2>2. seen' \in [Fields -> Nat] /\ seen'["id"] = seen["id"]
        /\ seen'["started"] = IF Head(rpc) = "started" THEN cell["started"] ELSE seen["started"]
    BY <1>0, <1>8, <2>1 DEF Load, SlotIInv
  <2>3. /\ now' \in 0 .. MaxClock
        /\ UNCHANGED <<clock, cell, slot, live, task, plan, running, dropped>>
        /\ rpc' = Tail(rpc)
    BY <1>8 DEF Load, SlotIInv, workerVars
  <2>5. SlotTyped'
    BY <2>1, <2>2, <2>3 DEF SlotIInv
  <2>6. SlotDated' /\ SlotOrdered'
    BY <2>3 DEF SlotIInv, SlotDated, SlotOrdered
  <2>4. SlotWitnessed'
    BY <1>8, <2>1, <2>2 DEF Load, SlotIInv, SlotOrdered, SlotWitnessed, workerVars
  <2> QED BY <2>4, <2>5, <2>6 DEF SlotIInv
<1>9. CASE UNCHANGED snapshotVars
  BY <1>9 DEF snapshotVars, SlotIInv, SlotDated, SlotOrdered, SlotWitnessed, workerVars, readerVars
<1> QED BY <1>1, <1>2, <1>3, <1>4, <1>5, <1>6, <1>7, <1>8, <1>9 DEF SnapshotNext

(***************************************************************************)
(* A snapshot that no drop falls into reports no stall out of the blue:    *)
(* slot_snapshot, the publications of post and begin_step, record_progress *)
(* and ActiveTaskGuard::drop, each store and each load on its own.         *)
(***************************************************************************)
THEOREM SnapshotsAreSound ==
    SnapshotSpec => []SnapshotSound
<1>1. SlotIInv => SnapshotSound
  <2> SUFFICES ASSUME SlotIInv PROVE SnapshotSound
    OBVIOUS
  <2>1. /\ seen["id"] \in Nat /\ seen["started"] \in Nat /\ seen["last"] \in Nat
        /\ now \in Nat
    BY ClockAssumption DEF SlotIInv, SlotTyped, SnapshotTypeOK, Fields
  <2>2. StallIsReal
    BY <2>1 DEF SlotIInv, SlotWitnessed, StallIsReal, Reported, Stalled
  <2> QED BY <2>2 DEF SlotIInv, SlotTyped, SnapshotSound
<1>2. SnapshotSpec => []SlotIInv
  BY SlotStartInv, SlotStepInv, PTL DEF SnapshotSpec
<1> QED BY <1>1, <1>2, PTL
=============================================================================
