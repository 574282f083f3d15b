----------------------------- MODULE StreamProofs ---------------------------
(***************************************************************************)
(* Proofs about StreamDelivery: how a stream ends for its client, for any  *)
(* number of streams, any stop sequences, limits and channel capacity.     *)
(***************************************************************************)
EXTENDS StreamDelivery, SequenceTheorems, TLAPS

(***************************************************************************)
(* Channels as sets of kinds of events.                                    *)
(***************************************************************************)

Proper(q) == q \in Seq({q[i] : i \in DOMAIN q})
KindsOf(q) == {q[i].kind : i \in DOMAIN q}

\* Every sequence is a sequence of its own members.
LEMMA OwnRange ==
    ASSUME NEW S, NEW q \in Seq(S)
    PROVE  Proper(q)
<1>1. Len(q) \in Nat /\ DOMAIN q = 1 .. Len(q) /\ q \in [1 .. Len(q) -> S]
  BY LenProperties
<1>2. q \in [1 .. Len(q) -> {q[i] : i \in DOMAIN q}]
  BY <1>1
<1> QED BY <1>1, <1>2, SeqDef DEF Proper

\* A channel that takes one more event.
LEMMA KindsPush ==
    ASSUME NEW q, Proper(q), NEW e
    PROVE  /\ Proper(Append(q, e))
           /\ KindsOf(Append(q, e)) = KindsOf(q) \cup {e.kind}
           /\ Len(Append(q, e)) = Len(q) + 1 /\ Len(q) \in Nat
<1> DEFINE S == {q[i] : i \in DOMAIN q} \cup {e}
           u == Append(q, e)
<1>1. q \in Seq(S)
  BY SeqMonotonic DEF Proper
<1>2. /\ u \in Seq(S)
      /\ Len(u) = Len(q) + 1
      /\ \A i \in 1 .. Len(q) : u[i] = q[i]
      /\ u[Len(q) + 1] = e
  BY <1>1, AppendProperties
<1>3. DOMAIN q = 1 .. Len(q) /\ DOMAIN u = 1 .. Len(q) + 1 /\ Len(q) \in Nat
  BY <1>1, <1>2, LenProperties
<1> HIDE DEF u, S
<1>4. \A i \in DOMAIN u : (i \in DOMAIN q /\ u[i] = q[i]) \/ u[i] = e
  BY <1>2, <1>3
<1>5. KindsOf(u) \subseteq KindsOf(q) \cup {e.kind}
  BY <1>4 DEF KindsOf
<1>6. KindsOf(q) \subseteq KindsOf(u)
  BY <1>2, <1>3 DEF KindsOf
<1>7. e.kind \in KindsOf(u)
  <2>1. Len(q) + 1 \in DOMAIN u
    BY <1>3
  <2> QED BY <2>1, <1>2 DEF KindsOf
<1>8. Proper(u)
  BY <1>2, OwnRange
<1> QED BY <1>2, <1>3, <1>5, <1>6, <1>7, <1>8 DEF u

\* A channel whose oldest event is taken.
LEMMA KindsPop ==
    ASSUME NEW q, Proper(q), q # <<>>
    PROVE  /\ Proper(Tail(q))
           /\ KindsOf(q) = KindsOf(Tail(q)) \cup {Head(q).kind}
           /\ Len(Tail(q)) = Len(q) - 1 /\ Len(q) \in Nat
<1> DEFINE S == {q[i] : i \in DOMAIN q}
           u == Tail(q)
<1>1. q \in Seq(S)
  BY DEF Proper
<1> HIDE DEF S
<1>2. /\ u \in Seq(S)
      /\ Len(u) = Len(q) - 1
      /\ \A i \in 1 .. Len(u) : u[i] = q[i + 1]
  BY <1>1, HeadTailProperties
<1>3. /\ DOMAIN q = 1 .. Len(q) /\ DOMAIN u = 1 .. Len(q) - 1 /\ Len(q) \in Nat \ {0}
      /\ Head(q) = q[1]
  BY <1>1, <1>2, LenProperties, EmptySeq
<1> HIDE DEF u
<1>4. \A i \in DOMAIN u : i + 1 \in DOMAIN q /\ u[i] = q[i + 1]
  BY <1>2, <1>3
<1>5. \A i \in DOMAIN q : i = 1 \/ (i - 1 \in DOMAIN u /\ u[i - 1] = q[i])
  BY <1>2, <1>3
<1>6. KindsOf(u) \subseteq KindsOf(q)
  BY <1>4 DEF KindsOf
<1>7. KindsOf(q) \subseteq KindsOf(u) \cup {Head(q).kind}
  BY <1>3, <1>5 DEF KindsOf
<1>8. Head(q).kind \in KindsOf(q)
  <2>1. 1 \in DOMAIN q
    BY <1>3
  <2> QED BY <2>1, <1>3 DEF KindsOf
<1>9. Proper(u)
  BY <1>2, OwnRange
<1> QED BY <1>2, <1>3, <1>6, <1>7, <1>8, <1>9 DEF u

\* Short sequences of events.
LEMMA KindsShort ==
    /\ Proper(<<>>) /\ KindsOf(<<>>) = {} /\ Len(<<>>) = 0
    /\ \A e : Proper(<<e>>) /\ KindsOf(<<e>>) = {e.kind}
<1>1. Proper(<<>>) /\ KindsOf(<<>>) = {} /\ Len(<<>>) = 0
  BY EmptySeq DEF Proper, KindsOf
<1>2. ASSUME NEW e PROVE Proper(<<e>>) /\ KindsOf(<<e>>) = {e.kind}
  <2>1. <<e>> \in Seq({e})
    OBVIOUS
  <2>2. Proper(<<e>>)
    BY <2>1, OwnRange
  <2>3. KindsOf(<<e>>) = {e.kind}
    BY DEF KindsOf
  <2> QED BY <2>2, <2>3
<1> QED BY <1>1, <1>2

\* What a job says at the end of a turn.
LEMMA KindsSaid ==
    ASSUME NEW t, NEW k
    PROVE  /\ Proper(DeltaOf(t)) /\ KindsOf(DeltaOf(t)) \subseteq {"delta"}
           /\ Proper(<<Event(k)>>) /\ KindsOf(<<Event(k)>>) = {k}
           /\ Proper(DeltaOf(t) \o <<Event(k)>>)
           /\ KindsOf(DeltaOf(t) \o <<Event(k)>>) \subseteq {"delta", k}
           /\ k \in KindsOf(DeltaOf(t) \o <<Event(k)>>)
<1>1. Delta(t).kind = "delta" /\ Event(k).kind = k
  BY DEF Delta, Event
<1>2. Proper(<<Event(k)>>) /\ KindsOf(<<Event(k)>>) = {k}
  BY <1>1, KindsShort
<1>3. Proper(DeltaOf(t)) /\ KindsOf(DeltaOf(t)) \subseteq {"delta"}
  BY <1>1, KindsShort DEF DeltaOf
<1>4. DeltaOf(t) \o <<Event(k)>> = Append(DeltaOf(t), Event(k))
  <2> DEFINE S == {DeltaOf(t)[i] : i \in DOMAIN DeltaOf(t)} \cup {Event(k)}
  <2>1. DeltaOf(t) \in Seq(S) /\ Event(k) \in S
    BY <1>3, SeqMonotonic DEF Proper
  <2> HIDE DEF S
  <2> QED BY <2>1, AppendIsConcat
<1>5. /\ Proper(Append(DeltaOf(t), Event(k)))
      /\ KindsOf(Append(DeltaOf(t), Event(k))) = KindsOf(DeltaOf(t)) \cup {Event(k).kind}
  BY <1>3, KindsPush
<1> QED BY <1>1, <1>2, <1>3, <1>4, <1>5

(***************************************************************************)
(* The inductive invariant.                                                *)
(***************************************************************************)

\* The kinds of the events of s that its client has not taken yet.
Outgoing(s) == KindsOf(chan[s]) \cup (IF engine = s THEN KindsOf(sends) ELSE {})
Ended(s) == job[s] \in {"ending", "gone"}

Shapes ==
    /\ request \in Loads
    /\ count \in [Streams -> Nat] /\ \A s \in Streams : count[s] <= limit[s]
    /\ reason \in [Streams -> {"length", "stop"}]
    /\ job \in [Streams -> {"queued", "running", "ending", "gone"}]
    /\ engine \in Streams \cup {None}
    /\ phase \in {"start", "step", "yield", "leave"}
    /\ Proper(sends)
    /\ DOMAIN chan = Streams /\ chan = [s \in Streams |-> chan[s]]
    /\ \A s \in Streams : Proper(chan[s]) /\ Len(chan[s]) <= Cap
    /\ rx \in [Streams -> BOOLEAN]
    /\ cancel \in [Streams -> BOOLEAN]
    /\ panicked \in [Streams -> BOOLEAN]
    /\ sse \in [Streams -> {"open", "closing", "ended", "dropped"}]
    /\ end \in [Streams -> Terminal \cup {"none", "worker"}]

\* What the engine does with a job, and what the job has done.
Turns ==
    /\ engine # None => job[engine] = IF phase = "leave" THEN "ending" ELSE "running"
    /\ \A s \in Streams : job[s] = "ending" => engine = s
    /\ \A s \in Streams : job[s] = "queued" => count[s] = 0
    /\ engine # None /\ phase = "start" => count[engine] = 0

\* A terminal event is the last word of its job and is on its way until the
\* generator has taken it.
LastWords ==
    \A s \in Streams :
        /\ Outgoing(s) \cap Terminal # {} => Ended(s) /\ ~panicked[s]
        /\ "finished" \in Outgoing(s) => Over(s)
        /\ Ended(s) /\ sse[s] = "open" => panicked[s] \/ Outgoing(s) \cap Terminal # {}
        /\ panicked[s] => job[s] = "gone"

\* How the client's last frame came about.
LastFrame ==
    \A s \in Streams :
        /\ sse[s] = "open" => rx[s] /\ ~cancel[s] /\ end[s] = "none"
        /\ end[s] = "finished" => Ended(s) /\ Over(s) /\ ~panicked[s]
        /\ end[s] = "worker" => panicked[s]
        /\ end[s] # "none" => cancel[s] \/ Ended(s)

IInv == Shapes /\ Turns /\ LastWords /\ LastFrame


(***************************************************************************)
(* What a turn of the job of s does, the text left out: it may generate a  *)
(* token, it queues events, and the last of them is terminal exactly if    *)
(* the job ends with the turn.                                             *)
(***************************************************************************)
Thinks(s) ==
    \/ UNCHANGED <<count, reason>>
    \/ /\ count[s] < limit[s]
       /\ count' = [count EXCEPT ![s] = @ + 1]
       /\ \E r \in {"length", "stop"} : reason' = [reason EXCEPT ![s] = r]

Spoken(s) ==
    /\ engine = s /\ phase \in {"start", "step"} /\ sends = <<>>
    /\ Thinks(s)
    /\ Proper(sends')
    /\ phase' \in {"step", "yield", "leave"}
    /\ job' = [job EXCEPT ![s] = IF phase' = "leave" THEN "ending" ELSE "running"]
    /\ phase' = "leave" <=> KindsOf(sends') \cap Terminal # {}
    /\ "finished" \in KindsOf(sends') => OverNext(s)
    /\ UNCHANGED <<request, engine, chan, rx, cancel, panicked, sse, end>>

\* The limit of a stream is positive.
LEMMA LimitPositive ==
    ASSUME Shapes
    PROVE  \A s \in Streams : limit[s] \in Nat \ {0} /\ s # None
BY StreamAssumption DEF Shapes, Streams, limit

\* A token that was sampled adds one to the count, whatever its text.
LEMMA SampledThinks ==
    ASSUME Shapes, NEW s \in Streams, Sampled(s), count[s] < limit[s]
    PROVE  Thinks(s)
<1>1. ASSUME NEW token \in Tokens, Generated(s, token) PROVE Thinks(s)
  <2> DEFINE r == IF ContainsStop(text'[s], stops[s]) THEN "stop" ELSE reason[s]
  <2>1. r \in {"length", "stop"}
    BY DEF Shapes
  <2>2. reason' = [reason EXCEPT ![s] = r]
    BY <1>1 DEF Generated
  <2> HIDE DEF r
  <2> QED BY <1>1, <2>1, <2>2 DEF Generated, Thinks
<1>2. CASE EndOfGeneration(s)
  BY <1>2 DEF EndOfGeneration, Thinks
<1> QED BY <1>1, <1>2 DEF Sampled

\* What the sends of a turn leave to be told.
LEMMA SaysEnough ==
    ASSUME NEW s \in Streams, NEW t, NEW k \in Terminal
    PROVE  /\ Sends(s, <<>>, "step") \/ Sends(s, DeltaOf(t), "step")
                \/ Sends(s, DeltaOf(t), "yield")
              => /\ Proper(sends') /\ KindsOf(sends') \cap Terminal = {}
                 /\ phase' \in {"step", "yield"}
                 /\ job' = [job EXCEPT ![s] = "running"]
           /\ Sends(s, <<Event(k)>>, "leave") \/ Sends(s, DeltaOf(t) \o <<Event(k)>>, "leave")
              => /\ Proper(sends') /\ KindsOf(sends') \cap Terminal = {k}
                 /\ phase' = "leave"
                 /\ job' = [job EXCEPT ![s] = "ending"]
<1>1. "delta" \notin Terminal
  BY DEF Terminal
<1> HIDE DEF Terminal
<1>2. /\ Proper(DeltaOf(t)) /\ KindsOf(DeltaOf(t)) \subseteq {"delta"}
      /\ Proper(<<Event(k)>>) /\ KindsOf(<<Event(k)>>) = {k}
      /\ Proper(DeltaOf(t) \o <<Event(k)>>)
      /\ KindsOf(DeltaOf(t) \o <<Event(k)>>) \subseteq {"delta", k}
      /\ k \in KindsOf(DeltaOf(t) \o <<Event(k)>>)
  BY KindsSaid
<1>3. Proper(<<>>) /\ KindsOf(<<>>) = {}
  BY KindsShort
<1>4. KindsOf(DeltaOf(t)) \cap Terminal = {}
  BY <1>1, <1>2
<1>5. KindsOf(DeltaOf(t) \o <<Event(k)>>) \cap Terminal = {k}
  BY <1>1, <1>2
<1>6. ASSUME Sends(s, <<>>, "step")
      PROVE  sends' = <<>> /\ phase' = "step" /\ job' = [job EXCEPT ![s] = "running"]
  BY <1>6 DEF Sends
<1>7. ASSUME NEW p \in {"step", "yield"}, Sends(s, DeltaOf(t), p)
      PROVE sends' = DeltaOf(t) /\ phase' = p /\ job' = [job EXCEPT ![s] = "running"]
  BY <1>7 DEF Sends
<1>8. ASSUME Sends(s, <<Event(k)>>, "leave")
      PROVE sends' = <<Event(k)>> /\ phase' = "leave" /\ job' = [job EXCEPT ![s] = "ending"]
  BY <1>8 DEF Sends
<1>9. ASSUME Sends(s, DeltaOf(t) \o <<Event(k)>>, "leave")
      PROVE  /\ sends' = DeltaOf(t) \o <<Event(k)>> /\ phase' = "leave"
             /\ job' = [job EXCEPT ![s] = "ending"]
  BY <1>9 DEF Sends
<1>a. Sends(s, <<>>, "step") \/ Sends(s, DeltaOf(t), "step") \/ Sends(s, DeltaOf(t), "yield")
              => /\ Proper(sends') /\ KindsOf(sends') \cap Terminal = {}
                 /\ phase' \in {"step", "yield"}
                 /\ job' = [job EXCEPT ![s] = "running"]
  BY <1>2, <1>3, <1>4, <1>6, <1>7
<1>b. Sends(s, <<Event(k)>>, "leave") \/ Sends(s, DeltaOf(t) \o <<Event(k)>>, "leave")
              => /\ Proper(sends') /\ KindsOf(sends') \cap Terminal = {k}
                 /\ phase' = "leave"
                 /\ job' = [job EXCEPT ![s] = "ending"]
  BY <1>2, <1>5, <1>8, <1>9
<1> QED BY <1>a, <1>b

\* The turns of the engine thread that end with events.
LEMMA TurnsSpeak ==
    ASSUME IInv, NEW s \in Streams,
           Prologue(s) \/ StepOver(s) \/ StepTimedOut(s) \/ Forward(s) \/ Interrupted(s)
    PROVE  Spoken(s)
<1> USE DEF IInv
<1>1. limit[s] \in Nat \ {0} /\ count[s] \in Nat /\ reason[s] \in {"length", "stop"}
  BY LimitPositive DEF Shapes
<1>2. {"finished", "failed", "timedout"} = Terminal
  BY DEF Terminal
<1>3. UNCHANGED <<count, reason>> => Thinks(s)
  BY DEF Thinks
<1>4. CASE Prologue(s)
  <2>1. count[s] < limit[s]
    BY <1>1, <1>4, LimitPositive DEF Prologue, Turns
  <2>2. CASE Sends(s, <<>>, "step") /\ UNCHANGED <<count, reason>>
    BY <1>2, <1>3, <1>4, <2>2, SaysEnough DEF Prologue, Spoken, sseVars
  <2>3. CASE Sampled(s) /\ Sends(s, DeltaOf(streamed'[s]), "step")
    <3>1. Thinks(s)
      BY <2>1, <2>3, SampledThinks
    <3>2. /\ Proper(sends') /\ KindsOf(sends') \cap Terminal = {}
          /\ phase' \in {"step", "yield"}
          /\ job' = [job EXCEPT ![s] = "running"]
      BY <2>3, <1>2, SaysEnough
    <3> QED BY <1>2, <1>4, <3>1, <3>2 DEF Prologue, Spoken, sseVars
  <2>4. CASE Sends(s, <<Event("failed")>>, "leave") /\ UNCHANGED <<count, reason>>
    <3>1. /\ Proper(sends') /\ KindsOf(sends') \cap Terminal = {"failed"}
          /\ phase' = "leave" /\ job' = [job EXCEPT ![s] = "ending"]
      BY <2>4, <1>2, SaysEnough
    <3> QED BY <1>2, <1>3, <1>4, <2>4, <3>1 DEF Prologue, Spoken, sseVars
  <2> QED BY <1>4, <2>2, <2>3, <2>4 DEF Prologue
<1>5. CASE StepOver(s)
  <2>1. \E t : Sends(s, <<Event("finished")>>, "leave")
                 \/ Sends(s, DeltaOf(t) \o <<Event("finished")>>, "leave")
    BY <1>5 DEF StepOver, FinishEvents
  <2>2. /\ Proper(sends') /\ KindsOf(sends') \cap Terminal = {"finished"}
        /\ phase' = "leave" /\ job' = [job EXCEPT ![s] = "ending"]
    BY <2>1, <1>2, SaysEnough
  <2>3. OverNext(s)
    BY <1>5 DEF StepOver, Over, OverNext, OverAt
  <2> QED BY <1>2, <1>3, <1>5, <2>2, <2>3 DEF StepOver, Spoken, sseVars
<1>6. CASE StepTimedOut(s)
  <2>1. \E t : Sends(s, DeltaOf(t) \o <<Event("timedout")>>, "leave")
    BY <1>6 DEF StepTimedOut
  <2>2. /\ Proper(sends') /\ KindsOf(sends') \cap Terminal = {"timedout"}
        /\ phase' = "leave" /\ job' = [job EXCEPT ![s] = "ending"]
    BY <2>1, <1>2, SaysEnough
  <2> QED BY <1>2, <1>3, <1>6, <2>2 DEF StepTimedOut, Spoken, sseVars
<1>7. CASE Interrupted(s)
  <2>2. /\ Proper(sends') /\ KindsOf(sends') \cap Terminal = {"timedout"}
        /\ phase' = "leave" /\ job' = [job EXCEPT ![s] = "ending"]
    BY <1>7, <1>2, SaysEnough DEF Interrupted
  <2> QED BY <1>2, <1>3, <1>7, <2>2 DEF Interrupted, Spoken, sseVars
<1>8. CASE Forward(s)
  <2>1. count[s] < limit[s]
    BY <1>1, <1>8 DEF Forward, Over, OverAt
  <2>2. CASE Sampled(s) /\ OverNext(s)
             /\ \E t : Sends(s, DeltaOf(t) \o <<Event("finished")>>, "leave")
    <3>1. Thinks(s)
      BY <2>1, <2>2, SampledThinks
    <3>2. /\ Proper(sends') /\ KindsOf(sends') \cap Terminal = {"finished"}
          /\ phase' = "leave" /\ job' = [job EXCEPT ![s] = "ending"]
      BY <2>2, <1>2, SaysEnough
    <3> QED BY <1>2, <1>8, <2>2, <3>1, <3>2 DEF Forward, Spoken, sseVars
  <2>3. CASE Sampled(s) /\ \E t : Sends(s, DeltaOf(t), "yield")
    <3>1. Thinks(s)
      BY <2>1, <2>3, SampledThinks
    <3>2. /\ Proper(sends') /\ KindsOf(sends') \cap Terminal = {}
          /\ phase' \in {"step", "yield"} /\ job' = [job EXCEPT ![s] = "running"]
      BY <2>3, <1>2, SaysEnough
    <3> QED BY <1>2, <1>8, <3>1, <3>2 DEF Forward, Spoken, sseVars
  <2>4. CASE Sends(s, <<Event("failed")>>, "leave") /\ UNCHANGED <<count, reason>>
    <3>1. /\ Proper(sends') /\ KindsOf(sends') \cap Terminal = {"failed"}
          /\ phase' = "leave" /\ job' = [job EXCEPT ![s] = "ending"]
      BY <2>4, <1>2, SaysEnough
    <3> QED BY <1>2, <1>3, <1>8, <2>4, <3>1 DEF Forward, Spoken, sseVars
  <2> QED BY <1>8, <2>2, <2>3, <2>4 DEF Forward
<1> QED BY <1>4, <1>5, <1>6, <1>7, <1>8

\* Streams and their limits are what the requests make them.
LEMMA SameStreams ==
    ASSUME UNCHANGED request
    PROVE  /\ Streams' = Streams /\ limit' = limit
           /\ \A s \in Streams : (Over(s))' = OverNext(s)
BY DEF Streams, limit, Over, OverNext, OverAt

\* A turn that ends with events keeps the invariant.
LEMMA SpeakStep ==
    ASSUME IInv, NEW s \in Streams, Spoken(s)
    PROVE  IInv'
<1>1. /\ Streams' = Streams /\ limit' = limit
      /\ \A u \in Streams : (Over(u))' = OverNext(u)
  BY SameStreams DEF Spoken
<1>2. \A u \in Streams : limit[u] \in Nat \ {0} /\ u # None
  BY LimitPositive DEF IInv
<1>3. KindsOf(sends) = {}
  BY KindsShort DEF Spoken
<1>4. \A u \in Streams : u # s => (count'[u] = count[u] /\ reason'[u] = reason[u])
  BY DEF Spoken, Thinks, IInv, Shapes
<1>5. Shapes'
  <2>1. /\ count' \in [Streams -> Nat] /\ \A u \in Streams : count'[u] <= limit[u]
        /\ reason' \in [Streams -> {"length", "stop"}]
    <3> DEFINE lim == limit
    <3>1. count \in [Streams -> Nat] /\ (\A u \in Streams : count[u] <= lim[u])
          /\ reason \in [Streams -> {"length", "stop"}]
      BY DEF IInv, Shapes
    <3>2. \A u \in Streams : lim[u] \in Nat
      BY <1>2
    <3>3. CASE UNCHANGED <<count, reason>>
      BY <3>1, <3>3
    <3>4. ASSUME count[s] < lim[s], count' = [count EXCEPT ![s] = @ + 1],
                 NEW r \in {"length", "stop"}, reason' = [reason EXCEPT ![s] = r]
          PROVE  /\ count' \in [Streams -> Nat] /\ \A u \in Streams : count'[u] <= lim[u]
                 /\ reason' \in [Streams -> {"length", "stop"}]
      <4> HIDE DEF lim
      <4> QED BY <3>1, <3>2, <3>4
    <3> QED BY <3>3, <3>4 DEF Spoken, Thinks
  <2>2. job' \in [Streams -> {"queued", "running", "ending", "gone"}]
    BY DEF IInv, Shapes, Spoken
  <2>3. /\ DOMAIN chan' = Streams /\ chan' = [u \in Streams |-> chan'[u]]
        /\ \A u \in Streams : Proper(chan'[u]) /\ Len(chan'[u]) <= Cap
    BY DEF IInv, Shapes, Spoken
  <2> QED BY <1>1, <2>1, <2>2, <2>3 DEF IInv, Shapes, Spoken
<1>6. Turns'
  BY <1>1, <1>2, <1>4 DEF IInv, Shapes, Turns, Spoken, Thinks
<1>7. \A u \in Streams : u # s => Outgoing(u)' = Outgoing(u)
  BY DEF Spoken, Outgoing
<1>8. /\ Outgoing(s) = KindsOf(chan[s])
      /\ Outgoing(s)' = KindsOf(chan[s]) \cup KindsOf(sends')
  BY <1>3 DEF Spoken, Outgoing
<1>9. job[s] = "running" /\ KindsOf(chan[s]) \cap Terminal = {} /\ ~panicked[s]
  BY <1>2, <1>8 DEF IInv, Turns, LastWords, Ended, Spoken
<1>a. /\ job'[s] = IF phase' = "leave" THEN "ending" ELSE "running"
      /\ \A u \in Streams : u # s => job'[u] = job[u]
  BY DEF Spoken, IInv, Shapes
<1>b. "finished" \in Terminal
  BY DEF Terminal
<1>c. \A u \in Streams : u # s => (OverNext(u) <=> Over(u))
  BY <1>4 DEF OverNext, Over, OverAt
<1>d. LastWords'
  <2> SUFFICES ASSUME NEW u \in Streams
               PROVE  /\ Outgoing(u)' \cap Terminal # {} => Ended(u)' /\ ~panicked'[u]
                      /\ "finished" \in Outgoing(u)' => OverNext(u)
                      /\ Ended(u)' /\ sse'[u] = "open"
                           => panicked'[u] \/ Outgoing(u)' \cap Terminal # {}
                      /\ panicked'[u] => job'[u] = "gone"
    BY <1>1 DEF LastWords
  <2>1. CASE u = s
    BY <2>1, <1>8, <1>9, <1>a, <1>b DEF Spoken, Ended
  <2>2. CASE u # s
    BY <2>2, <1>7, <1>a, <1>c DEF Spoken, Ended, IInv, LastWords
  <2> QED BY <2>1, <2>2
<1>e. LastFrame'
  <2> SUFFICES ASSUME NEW u \in Streams
               PROVE  /\ sse'[u] = "open" => rx'[u] /\ ~cancel'[u] /\ end'[u] = "none"
                      /\ end'[u] = "finished" => Ended(u)' /\ OverNext(u) /\ ~panicked'[u]
                      /\ end'[u] = "worker" => panicked'[u]
                      /\ end'[u] # "none" => cancel'[u] \/ Ended(u)'
    BY <1>1 DEF LastFrame
  <2>1. CASE u = s
    BY <2>1, <1>9, <1>a DEF Spoken, Ended, IInv, LastFrame
  <2>2. CASE u # s
    BY <2>2, <1>a, <1>c DEF Spoken, Ended, IInv, LastFrame
  <2> QED BY <2>1, <2>2
<1> QED BY <1>5, <1>6, <1>d, <1>e DEF IInv

\* The part of the invariant that speaks of one stream.
WordsOf(s) ==
    /\ Outgoing(s) \cap Terminal # {} => Ended(s) /\ ~panicked[s]
    /\ "finished" \in Outgoing(s) => Over(s)
    /\ Ended(s) /\ sse[s] = "open" => panicked[s] \/ Outgoing(s) \cap Terminal # {}
    /\ panicked[s] => job[s] = "gone"

FrameOf(s) ==
    /\ sse[s] = "open" => rx[s] /\ ~cancel[s] /\ end[s] = "none"
    /\ end[s] = "finished" => Ended(s) /\ Over(s) /\ ~panicked[s]
    /\ end[s] = "worker" => panicked[s]
    /\ end[s] # "none" => cancel[s] \/ Ended(s)

\* A stream that a step says nothing about keeps its part.
LEMMA OtherStream ==
    ASSUME IInv, NEW u \in Streams, UNCHANGED <<request, count, reason>>,
           Outgoing(u)' = Outgoing(u),
           job'[u] = job[u], panicked'[u] = panicked[u], sse'[u] = sse[u],
           rx'[u] = rx[u], cancel'[u] = cancel[u], end'[u] = end[u]
    PROVE  WordsOf(u)' /\ FrameOf(u)'
<1>1. (Over(u))' <=> Over(u)
  BY SameStreams DEF Over, OverNext, OverAt
<1>2. Ended(u)' <=> Ended(u)
  BY DEF Ended
<1>3. WordsOf(u) /\ FrameOf(u)
  BY DEF IInv, LastWords, LastFrame, WordsOf, FrameOf
<1> QED BY <1>1, <1>2, <1>3 DEF WordsOf, FrameOf

\* The invariant from its parts.
LEMMA PartsSuffice ==
    ASSUME UNCHANGED request, Shapes', Turns', \A u \in Streams : WordsOf(u)' /\ FrameOf(u)'
    PROVE  IInv'
<1>1. Streams' = Streams
  BY SameStreams
<1> QED BY <1>1 DEF IInv, LastWords, LastFrame, WordsOf, FrameOf

\* The job of s leaves the engine, having said all it had to or with nobody to
\* say it to, or panicking.
Left(s) ==
    /\ engine = s /\ Leave(s)
    /\ \/ /\ phase = "leave" /\ sends = <<>> /\ UNCHANGED panicked
       \/ /\ sse[s] # "open" /\ UNCHANGED panicked
       \/ /\ phase = "step" /\ sends = <<>>
          /\ panicked' = [panicked EXCEPT ![s] = TRUE]
    /\ UNCHANGED <<request, count, reason, chan, rx, cancel, sse, end>>

LEMMA LeaveStep ==
    ASSUME IInv, NEW s \in Streams, Left(s)
    PROVE  IInv'
<1>1. Streams' = Streams /\ limit' = limit
  BY SameStreams DEF Left
<1>2. \A u \in Streams : limit[u] \in Nat \ {0} /\ u # None
  BY LimitPositive DEF IInv
<1>3. /\ KindsOf(<<>>) = {} /\ Proper(<<>>)
  BY KindsShort
<1>4. Shapes'
  BY <1>1, <1>3 DEF IInv, Shapes, Left, Leave
<1>5. /\ job'[s] = "gone" /\ \A u \in Streams : u # s => job'[u] = job[u]
      /\ engine' = None
  BY DEF Left, Leave, IInv, Shapes
<1>6. Turns'
  BY <1>1, <1>2, <1>5 DEF IInv, Shapes, Turns, Left, Leave
<1>7. \A u \in Streams : Outgoing(u)' = KindsOf(chan[u])
  BY <1>2, <1>5 DEF Left, Outgoing
<1>8. ASSUME NEW u \in Streams, u # s PROVE WordsOf(u)' /\ FrameOf(u)'
  <2>1. Outgoing(u) = KindsOf(chan[u])
    BY <1>8 DEF Outgoing, Left
  <2>2. panicked'[u] = panicked[u]
    BY <1>8 DEF Left, IInv, Shapes
  <2> QED BY <1>5, <1>7, <1>8, <2>1, <2>2, OtherStream DEF Left
<1>9. WordsOf(s)' /\ FrameOf(s)'
  <2>1. (Over(s))' <=> Over(s)
    BY SameStreams DEF Left, Over, OverNext, OverAt
  <2>2. Ended(s)' /\ job[s] = IF phase = "leave" THEN "ending" ELSE "running"
    BY <1>2, <1>5 DEF Ended, IInv, Turns, Left
  <2>3. WordsOf(s) /\ FrameOf(s)
    BY DEF IInv, LastWords, LastFrame, WordsOf, FrameOf
  <2>4. /\ KindsOf(chan[s]) \subseteq Outgoing(s)
        /\ sends = <<>> => Outgoing(s) = KindsOf(chan[s])
    BY <1>3 DEF Outgoing
  <2>5. CASE phase = "leave" /\ sends = <<>> /\ UNCHANGED panicked
    BY <1>5, <1>7, <2>1, <2>2, <2>3, <2>4, <2>5 DEF WordsOf, FrameOf, Ended, Left
  <2>6. CASE sse[s] # "open" /\ UNCHANGED panicked
    BY <1>5, <1>7, <2>1, <2>2, <2>3, <2>4, <2>6 DEF WordsOf, FrameOf, Ended, Left
  <2>7. CASE phase = "step" /\ sends = <<>> /\ panicked' = [panicked EXCEPT ![s] = TRUE]
    <3>1. panicked'[s]
      BY <2>7 DEF IInv, Shapes
    <3>2. Outgoing(s)' \cap Terminal = {} /\ "finished" \notin Outgoing(s)'
      BY <1>7, <2>2, <2>3, <2>4, <2>7 DEF WordsOf, Ended, Terminal
    <3> QED BY <1>5, <2>1, <2>2, <2>3, <2>7, <3>1, <3>2 DEF WordsOf, FrameOf, Ended, Left
  <2> QED BY <2>5, <2>6, <2>7 DEF Left
<1> QED BY <1>4, <1>6, <1>8, <1>9, PartsSuffice DEF Left

\* The engine thread's other steps.
LEMMA EngineSteps ==
    ASSUME IInv, NEW s \in Streams, EngineStep(s) \/ Panic(s)
    PROVE  IInv'
<1>1. \A u \in Streams : limit[u] \in Nat \ {0} /\ u # None
  BY LimitPositive DEF IInv
<1>2. /\ KindsOf(<<>>) = {} /\ Proper(<<>>)
      /\ \A e : Proper(<<e>>) /\ KindsOf(<<e>>) = {e.kind}
  BY KindsShort
<1>3. \A u \in Streams : sse[u] = "open" => rx[u] /\ ~cancel[u]
  BY DEF IInv, LastFrame
<1>4. CASE Prologue(s) \/ StepOver(s) \/ StepTimedOut(s) \/ Forward(s) \/ Interrupted(s)
  BY <1>4, TurnsSpeak, SpeakStep
<1>5. CASE StepAbandoned(s)
  <2>1. Left(s)
    BY <1>3, <1>5 DEF StepAbandoned, Abandoned, Left, sseVars
  <2> QED BY <2>1, LeaveStep
<1>6. CASE Panic(s)
  <2>1. Left(s)
    BY <1>6 DEF Panic, Left, sseVars
  <2> QED BY <2>1, LeaveStep
<1>7. CASE Schedule(s)
  <2>1. Streams' = Streams /\ limit' = limit
    BY <1>7, SameStreams DEF Schedule
  <2>2. Event("started").kind = "started" /\ "started" \notin Terminal /\ "finished" \in Terminal
    BY DEF Event, Terminal
  <2>3. Proper(sends') /\ KindsOf(sends') \subseteq {"started"}
    BY <1>2, <1>7, <2>2 DEF Schedule
  <2>4. Shapes'
    BY <1>7, <2>1, <2>3 DEF IInv, Shapes, Schedule, sseVars
  <2>5. /\ job'[s] = "running" /\ job[s] \in {"queued", "running"}
        /\ \A u \in Streams : u # s => job'[u] = job[u]
    BY <1>7 DEF Schedule, IInv, Shapes
  <2>6. Turns'
    BY <1>7, <1>1, <2>1, <2>5 DEF IInv, Shapes, Turns, Schedule
  <2>7. \A u \in Streams : Outgoing(u) = KindsOf(chan[u])
    BY <1>1, <1>7 DEF Outgoing, Schedule
  <2>8. ASSUME NEW u \in Streams, u # s PROVE WordsOf(u)' /\ FrameOf(u)'
    <3>1. Outgoing(u)' = Outgoing(u)
      BY <1>7, <2>7, <2>8 DEF Outgoing, Schedule
    <3> QED BY <1>7, <2>5, <2>8, <3>1, OtherStream DEF Schedule, sseVars
  <2>9. WordsOf(s)' /\ FrameOf(s)'
    <3>1. (Over(s))' <=> Over(s)
      BY <1>7, SameStreams DEF Schedule, Over, OverNext, OverAt
    <3>2. WordsOf(s) /\ FrameOf(s)
      BY DEF IInv, LastWords, LastFrame, WordsOf, FrameOf
    <3>3. Outgoing(s)' = KindsOf(chan[s]) \cup KindsOf(sends')
      BY <1>7 DEF Outgoing, Schedule
    <3> QED BY <1>7, <2>2, <2>3, <2>5, <2>7, <3>1, <3>2, <3>3
            DEF WordsOf, FrameOf, Ended, Schedule, sseVars
  <2> QED BY <1>7, <2>4, <2>6, <2>8, <2>9, PartsSuffice DEF Schedule
<1>8. CASE BlockingSend(s) /\ ~rx[s]
  <2>1. Left(s)
    BY <1>3, <1>8 DEF BlockingSend, Left, sseVars
  <2> QED BY <2>1, LeaveStep
<1>9. CASE BlockingSend(s) /\ rx[s]
  <2> DEFINE e == Head(sends)
             q == chan[s]
  <2>1. Streams' = Streams /\ limit' = limit
    BY <1>9, SameStreams DEF BlockingSend
  <2>2. /\ engine = s /\ sends # <<>> /\ Len(q) < Cap
        /\ chan' = [chan EXCEPT ![s] = Append(q, e)] /\ sends' = Tail(sends)
        /\ UNCHANGED <<job, engine, phase, request, count, reason, rx, cancel, panicked,
                       sse, end>>
    BY <1>9 DEF BlockingSend, sseVars
  <2>3. /\ Proper(Append(q, e)) /\ KindsOf(Append(q, e)) = KindsOf(q) \cup {e.kind}
        /\ Len(Append(q, e)) = Len(q) + 1 /\ Len(q) \in Nat
    BY KindsPush DEF IInv, Shapes
  <2>4. /\ Proper(Tail(sends)) /\ KindsOf(sends) = KindsOf(Tail(sends)) \cup {e.kind}
    BY <2>2, KindsPop DEF IInv, Shapes
  <2>5. /\ chan'[s] = Append(q, e) /\ \A u \in Streams : u # s => chan'[u] = chan[u]
        /\ DOMAIN chan' = Streams /\ chan' = [u \in Streams |-> chan'[u]]
    BY <2>2 DEF IInv, Shapes
  <2> HIDE DEF e, q
  <2>6. \A u \in Streams : Proper(chan'[u]) /\ Len(chan'[u]) <= Cap
    BY <2>2, <2>3, <2>5, StreamAssumption DEF IInv, Shapes
  <2>7. Shapes'
    BY <2>1, <2>2, <2>4, <2>5, <2>6 DEF IInv, Shapes
  <2>8. Turns'
    BY <2>1, <2>2 DEF IInv, Turns
  <2>9. \A u \in Streams : Outgoing(u)' = Outgoing(u)
    BY <2>2, <2>3, <2>4, <2>5 DEF Outgoing, q
  <2>10. \A u \in Streams : WordsOf(u)' /\ FrameOf(u)'
    BY <2>2, <2>9, OtherStream
  <2> QED BY <2>2, <2>7, <2>8, <2>10, PartsSuffice
<1>10. CASE TurnEnds(s) /\ phase = "leave"
  <2>1. Left(s)
    BY <1>10 DEF TurnEnds, Left, sseVars
  <2> QED BY <2>1, LeaveStep
<1>11. CASE TurnEnds(s) /\ phase # "leave"
  <2>1. Streams' = Streams /\ limit' = limit
    BY <1>11, SameStreams DEF TurnEnds
  <2>2. /\ engine = s /\ sends = <<>> /\ phase = "yield"
        /\ \/ engine' = None /\ phase' = "start"
           \/ engine' = s /\ phase' = "step"
        /\ UNCHANGED <<job, sends, chan, request, count, reason, rx, cancel, panicked,
                       sse, end>>
    BY <1>11 DEF TurnEnds, sseVars
  <2>3. Shapes'
    BY <2>1, <2>2 DEF IInv, Shapes
  <2>4. Turns'
    BY <1>1, <2>1, <2>2 DEF IInv, Shapes, Turns
  <2>5. \A u \in Streams : Outgoing(u)' = Outgoing(u)
    BY <1>1, <1>2, <2>2 DEF Outgoing
  <2>6. \A u \in Streams : WordsOf(u)' /\ FrameOf(u)'
    BY <2>2, <2>5, OtherStream
  <2> QED BY <2>2, <2>3, <2>4, <2>6, PartsSuffice
<1> QED BY <1>4, <1>5, <1>6, <1>7, <1>8, <1>9, <1>10, <1>11
        DEF EngineStep, IInv, Shapes

\* What the generator of s does: it takes an event or drops them all, and closes.
Served(s) ==
    /\ UNCHANGED <<request, count, reason, job, engine, phase, sends, panicked>>
    /\ \E q \in {chan[s], Tail(chan[s]), <<>>} : chan' = [chan EXCEPT ![s] = q]
    /\ \E v \in BOOLEAN : rx' = [rx EXCEPT ![s] = v]
    /\ \E v \in BOOLEAN : cancel' = [cancel EXCEPT ![s] = v]
    /\ \E v \in {"open", "closing", "ended", "dropped"} : sse' = [sse EXCEPT ![s] = v]
    /\ \E v \in Terminal \cup {"none", "worker"} : end' = [end EXCEPT ![s] = v]
    /\ chan[s] = <<>> => chan'[s] = <<>>

\* It touches no other stream, and its own only as far as the events tell.
LEMMA ServedStep ==
    ASSUME IInv, NEW s \in Streams, Served(s), WordsOf(s)', FrameOf(s)'
    PROVE  IInv'
<1>1. Streams' = Streams /\ limit' = limit
  BY SameStreams DEF Served
<1>2. PICK q \in {chan[s], Tail(chan[s]), <<>>} : chan' = [chan EXCEPT ![s] = q]
  BY DEF Served
<1>3. /\ chan'[s] = q /\ \A u \in Streams : u # s => chan'[u] = chan[u]
      /\ DOMAIN chan' = Streams /\ chan' = [u \in Streams |-> chan'[u]]
  BY <1>2 DEF IInv, Shapes
<1>4. Cap \in Nat /\ Len(chan[s]) <= Cap /\ Proper(chan[s])
  BY StreamAssumption DEF IInv, Shapes
<1>5. Proper(q) /\ Len(q) <= Cap
  <2>1. CASE q = chan[s]
    BY <2>1, <1>4
  <2>2. CASE q = <<>>
    BY <2>2, <1>4, KindsShort
  <2>3. CASE q = Tail(chan[s]) /\ chan[s] # <<>>
    BY <2>3, <1>4, KindsPop
  <2>4. CASE q = Tail(chan[s]) /\ chan[s] = <<>>
    BY <2>4, <1>3, <1>4, KindsShort DEF Served
  <2> QED BY <2>1, <2>2, <2>3, <2>4
<1>6. \A u \in Streams : Proper(chan'[u]) /\ Len(chan'[u]) <= Cap
  BY <1>3, <1>5 DEF IInv, Shapes
<1>7. Shapes'
  BY <1>1, <1>3, <1>6 DEF IInv, Shapes, Served
<1>8. Turns'
  BY <1>1 DEF IInv, Turns, Served
<1>9. ASSUME NEW u \in Streams, u # s PROVE WordsOf(u)' /\ FrameOf(u)'
  <2>1. Outgoing(u)' = Outgoing(u)
    BY <1>3, <1>9 DEF Outgoing, Served
  <2>2. /\ job'[u] = job[u] /\ panicked'[u] = panicked[u] /\ sse'[u] = sse[u]
        /\ rx'[u] = rx[u] /\ cancel'[u] = cancel[u] /\ end'[u] = end[u]
    BY <1>9 DEF Served, IInv, Shapes
  <2> QED BY <2>1, <2>2, OtherStream DEF Served
<1> QED BY <1>7, <1>8, <1>9, PartsSuffice DEF Served

\* The client's side, and the clocks.
LEMMA ClientSteps ==
    ASSUME IInv, NEW s \in Streams,
           Poll(s) \/ Disconnect(s) \/ Expire(s) \/ JobExpires(s)
    PROVE  IInv'
<1>1. WordsOf(s) /\ FrameOf(s)
  BY DEF IInv, LastWords, LastFrame, WordsOf, FrameOf
<1>2. KindsOf(<<>>) = {}
  BY KindsShort
<1>3. /\ rx \in [Streams -> BOOLEAN] /\ cancel \in [Streams -> BOOLEAN]
      /\ sse \in [Streams -> {"open", "closing", "ended", "dropped"}]
      /\ end \in [Streams -> Terminal \cup {"none", "worker"}]
      /\ DOMAIN chan = Streams /\ chan = [u \in Streams |-> chan[u]]
      /\ Proper(chan[s])
  BY DEF IInv, Shapes
<1>4. /\ rx = [rx EXCEPT ![s] = rx[s]] /\ cancel = [cancel EXCEPT ![s] = cancel[s]]
      /\ sse = [sse EXCEPT ![s] = sse[s]] /\ end = [end EXCEPT ![s] = end[s]]
      /\ chan = [chan EXCEPT ![s] = chan[s]]
  BY <1>3
<1>5. Terminal = {"finished", "failed", "timedout"}
  BY DEF Terminal
<1>6. UNCHANGED <<request, count, reason>> => ((Over(s))' <=> Over(s))
  BY SameStreams DEF Over, OverNext, OverAt
<1>7. CASE Recv(s)
  <2> DEFINE e == Head(chan[s])
  <2>1. KindsOf(chan[s]) = KindsOf(Tail(chan[s])) \cup {e.kind}
    BY <1>3, <1>7, KindsPop DEF Recv
  <2>2. chan' = [chan EXCEPT ![s] = Tail(chan[s])] /\ chan'[s] = Tail(chan[s])
    BY <1>3, <1>7 DEF Recv
  <2>3. /\ sse[s] = "open" /\ chan[s] # <<>>
        /\ UNCHANGED <<request, count, reason, job, engine, phase, sends, rx, cancel, panicked>>
    BY <1>7 DEF Recv, jobVars, engineVars
  <2>4. Outgoing(s) = Outgoing(s)' \cup {e.kind}
    BY <2>1, <2>2, <2>3 DEF Outgoing
  <2>5. \/ e.kind \in {"started", "delta"} /\ UNCHANGED <<sse, end>>
        \/ /\ e.kind \in Terminal
           /\ sse' = [sse EXCEPT ![s] = "closing"] /\ end' = [end EXCEPT ![s] = e.kind]
    BY <1>5, <1>7 DEF Recv, Terminates
  <2> HIDE DEF e
  <2>6. Served(s)
    BY <1>3, <1>4, <1>5, <2>2, <2>3, <2>5 DEF Served
  <2>7. WordsOf(s)' /\ FrameOf(s)'
    <3>1. CASE e.kind \in {"started", "delta"} /\ UNCHANGED <<sse, end>>
      <4>1. Outgoing(s)' \cap Terminal = Outgoing(s) \cap Terminal
        BY <1>5, <2>4, <3>1
      <4> QED BY <1>1, <1>5, <1>6, <2>3, <2>4, <3>1, <4>1 DEF WordsOf, FrameOf, Ended
    <3>2. CASE e.kind \in Terminal /\ sse' = [sse EXCEPT ![s] = "closing"]
               /\ end' = [end EXCEPT ![s] = e.kind]
      <4>1. sse'[s] = "closing" /\ end'[s] = e.kind
        BY <1>3, <3>2
      <4>2. Ended(s) /\ ~panicked[s] /\ (e.kind = "finished" => Over(s))
        BY <1>1, <2>4, <3>2 DEF WordsOf
      <4> QED BY <1>1, <1>5, <1>6, <2>3, <2>4, <3>2, <4>1, <4>2 DEF WordsOf, FrameOf, Ended
    <3> QED BY <2>5, <3>1, <3>2
  <2> QED BY <2>6, <2>7, ServedStep
<1>8. CASE RequestDeadline(s)
  <2>1. /\ sse' = [sse EXCEPT ![s] = "closing"] /\ end' = [end EXCEPT ![s] = "timedout"]
        /\ cancel' = [cancel EXCEPT ![s] = TRUE] /\ UNCHANGED <<rx, chan>>
        /\ UNCHANGED <<request, count, reason, job, engine, phase, sends, panicked>>
    BY <1>8 DEF RequestDeadline, Terminates, jobVars, engineVars
  <2>2. sse'[s] = "closing" /\ end'[s] = "timedout" /\ cancel'[s]
    BY <1>3, <2>1
  <2>3. Served(s)
    BY <1>3, <1>4, <1>5, <2>1 DEF Served
  <2>4. Outgoing(s)' = Outgoing(s)
    BY <2>1 DEF Outgoing
  <2>5. WordsOf(s)' /\ FrameOf(s)'
    BY <1>1, <1>6, <2>1, <2>2, <2>4 DEF WordsOf, FrameOf, Ended
  <2> QED BY <2>3, <2>5, ServedStep
<1>9. CASE ChannelClosed(s)
  <2>1. /\ sse' = [sse EXCEPT ![s] = "closing"] /\ end' = [end EXCEPT ![s] = "worker"]
        /\ UNCHANGED <<rx, chan, cancel>>
        /\ sse[s] = "open" /\ chan[s] = <<>> /\ job[s] = "gone"
        /\ UNCHANGED <<request, count, reason, job, engine, phase, sends, panicked>>
    BY <1>9 DEF ChannelClosed, Terminates, jobVars, engineVars
  <2>2. sse'[s] = "closing" /\ end'[s] = "worker"
    BY <1>3, <2>1
  <2>3. Served(s)
    BY <1>3, <1>4, <1>5, <2>1 DEF Served
  <2>4. Outgoing(s)' = Outgoing(s)
    BY <2>1 DEF Outgoing
  <2>5. engine # s
    BY <2>1, LimitPositive DEF IInv, Turns
  <2>6. panicked[s]
    BY <1>1, <1>2, <2>1, <2>5 DEF WordsOf, Ended, Outgoing
  <2>7. WordsOf(s)' /\ FrameOf(s)'
    BY <1>1, <1>6, <2>1, <2>2, <2>4, <2>6 DEF WordsOf, FrameOf, Ended
  <2> QED BY <2>3, <2>7, ServedStep
<1>10. CASE Return(s) \/ Disconnect(s)
  <2>1. /\ \E v \in {"ended", "dropped"} : sse' = [sse EXCEPT ![s] = v]
        /\ rx' = [rx EXCEPT ![s] = FALSE] /\ chan' = [chan EXCEPT ![s] = <<>>]
        /\ cancel' = [cancel EXCEPT ![s] = TRUE]
        /\ UNCHANGED <<request, count, reason, job, engine, phase, sends, panicked, end>>
    BY <1>10 DEF Return, Disconnect, jobVars, engineVars
  <2>2. sse'[s] # "open" /\ cancel'[s] /\ chan'[s] = <<>>
    BY <1>3, <2>1
  <2>3. Served(s)
    BY <1>3, <1>4, <2>1, <2>2 DEF Served
  <2>4. Outgoing(s)' \subseteq Outgoing(s)
    BY <1>2, <2>1, <2>2 DEF Outgoing
  <2>5. WordsOf(s)' /\ FrameOf(s)'
    BY <1>1, <1>6, <2>1, <2>2, <2>4 DEF WordsOf, FrameOf, Ended
  <2> QED BY <2>3, <2>5, ServedStep
<1>11. CASE Expire(s) \/ JobExpires(s)
  <2>1. UNCHANGED <<request, count, reason, job, engine, phase, sends, panicked, chan, rx,
                    cancel, sse, end>>
    BY <1>11 DEF Expire, JobExpires, jobVars, engineVars, sseVars
  <2>2. Served(s)
    BY <1>3, <1>4, <2>1 DEF Served
  <2>3. Outgoing(s)' = Outgoing(s)
    BY <2>1 DEF Outgoing
  <2>4. WordsOf(s)' /\ FrameOf(s)'
    BY <1>1, <1>6, <2>1, <2>3 DEF WordsOf, FrameOf, Ended
  <2> QED BY <2>2, <2>4, ServedStep
<1> QED BY <1>7, <1>8, <1>9, <1>10, <1>11 DEF Poll

\* Every step keeps the invariant.
LEMMA IInvStep ==
    IInv /\ [Next]_vars => IInv'
<1> SUFFICES ASSUME IInv, [Next]_vars PROVE IInv'
  OBVIOUS
<1>1. CASE Next
  <2>1. PICK s \in Streams : \/ EngineStep(s) \/ Panic(s) \/ Poll(s) \/ Disconnect(s)
                             \/ Expire(s) \/ JobExpires(s)
    BY <1>1 DEF Next
  <2> QED BY <2>1, EngineSteps, ClientSteps
<1>2. CASE UNCHANGED vars
  <2>1. UNCHANGED <<request, count, reason, job, engine, phase, sends, chan, rx, cancel,
                    panicked, sse, end>>
    BY <1>2 DEF vars, jobVars, engineVars, sseVars
  <2>2. Streams' = Streams /\ limit' = limit
    BY <2>1, SameStreams
  <2>3. Shapes' /\ Turns'
    BY <2>1, <2>2 DEF IInv, Shapes, Turns
  <2>4. \A u \in Streams : Outgoing(u)' = Outgoing(u)
    BY <2>1 DEF Outgoing
  <2>5. \A u \in Streams : WordsOf(u)' /\ FrameOf(u)'
    BY <2>1, <2>4, OtherStream
  <2> QED BY <2>1, <2>3, <2>5, PartsSuffice
<1> QED BY <1>1, <1>2

LEMMA InitIInv ==
    Init => IInv
<1> SUFFICES ASSUME Init PROVE IInv
  OBVIOUS
<1>1. Proper(<<>>) /\ KindsOf(<<>>) = {} /\ Len(<<>>) = 0
  BY KindsShort
<1>2. \A s \in Streams : limit[s] \in Nat \ {0} /\ s # None
  BY StreamAssumption DEF Init, Streams, limit
<1>3. Shapes
  BY <1>1, <1>2, StreamAssumption DEF Init, Shapes
<1>4. Turns
  BY <1>2 DEF Init, Turns
<1>5. \A s \in Streams : Outgoing(s) = {} /\ ~Ended(s)
  BY <1>1, <1>2 DEF Init, Outgoing, Ended
<1> QED BY <1>3, <1>4, <1>5 DEF Init, IInv, LastWords, LastFrame

\* The invariant holds in every state of every behaviour.
LEMMA Invariance ==
    Spec => []IInv
BY InitIInv, IInvStep, PTL DEF Spec

(***************************************************************************)
(* How a stream ends for its client is how its job ended: a reported       *)
(* worker failure was a panic, and a reply reported as finished is over    *)
(* and no panic cut it (generation_sse_stream and the decode jobs).        *)
(***************************************************************************)
THEOREM StreamsEndTruly ==
    Spec => []EndingIsTrue
<1>1. IInv => EndingIsTrue
  <2> SUFFICES ASSUME IInv PROVE EndingIsTrue
    OBVIOUS
  <2>1. \A s \in Streams : limit[s] \in Nat \ {0} /\ s # None
    BY LimitPositive DEF IInv
  <2>2. \A s \in Streams : job[s] = "gone" => engine # s
    BY <2>1 DEF IInv, Turns
  <2>3. \A s \in Streams : count[s] \in 0 .. limit[s]
    BY <2>1 DEF IInv, Shapes
  <2>4. TypeOK
    BY <2>2, <2>3 DEF TypeOK, IInv, Shapes
  <2> QED BY <2>4 DEF EndingIsTrue, WorkerFailureIsReal, NoSilentTruncation, IInv, LastFrame
<1> QED BY <1>1, Invariance, PTL

(***************************************************************************)
(* A client that has its terminal frame costs the engine no more forwards: *)
(* either the request is cancelled, which the job sees before a forward,   *)
(* or the job had ended.                                                   *)
(***************************************************************************)
THEOREM AnsweredCostsNothing ==
    Spec => AnsweredMeansStopped
<1>1. IInv /\ [Next]_vars =>
        [\A s \in Streams : (end[s] # "none" /\ phase = "step") => count'[s] = count[s]]_vars
  <2> SUFFICES ASSUME IInv, Next, NEW s \in Streams, end[s] # "none", phase = "step"
               PROVE  count'[s] = count[s]
    OBVIOUS
  <2>1. PICK u \in Streams : \/ EngineStep(u) \/ Panic(u) \/ Poll(u) \/ Disconnect(u)
                             \/ Expire(u) \/ JobExpires(u)
    BY DEF Next
  <2>2. CASE Prologue(u) \/ StepOver(u) \/ StepTimedOut(u) \/ Interrupted(u)
    BY <2>2 DEF Prologue, StepOver, StepTimedOut, Interrupted
  <2>3. CASE Forward(u)
    <3>1. ~cancel[u] /\ engine = u
      BY <2>3 DEF Forward, Abandoned
    <3>2. job[u] = "running"
      BY <3>1, LimitPositive DEF IInv, Turns
    <3>3. u # s
      BY <3>1, <3>2 DEF IInv, LastFrame, Ended
    <3>4. Spoken(u)
      BY <2>3, TurnsSpeak
    <3> QED BY <3>3, <3>4 DEF Spoken, Thinks, IInv, Shapes
  <2>4. CASE Schedule(u) \/ BlockingSend(u) \/ StepAbandoned(u) \/ TurnEnds(u) \/ Panic(u)
    BY <2>4 DEF Schedule, BlockingSend, StepAbandoned, TurnEnds, Panic
  <2>5. CASE Poll(u) \/ Disconnect(u) \/ Expire(u) \/ JobExpires(u)
    BY <2>5 DEF Poll, Recv, RequestDeadline, ChannelClosed, Return, Disconnect, Expire,
                JobExpires, jobVars
  <2> QED BY <2>1, <2>2, <2>3, <2>4, <2>5 DEF EngineStep
<1> QED BY <1>1, Invariance, PTL DEF Spec, AnsweredMeansStopped
=============================================================================
